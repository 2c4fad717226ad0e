CONSTANTS
  Lines <- CommandLines
  Unknown <- MCUnknown
  NFD = 6
SPECIFICATION Spec
INVARIANTS
  FieldsOwnTheirFds
  StreamsRestored
  CommandSeesItsStreams
