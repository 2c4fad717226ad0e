CONSTANTS
  NTBLOCKS = 7
  NTPAGES = 2
  NTWRITESZ = 2
  NTMETASZ = 1
  BCB_CNT = 3
  BCB_BB_MAX = 2
  BCB_DBBT_START = 6
  NtRequests <- MCNtRequests
  PDPARTS = 2
  PDBLOCKS = 4
  PDPAGES = 2
  PDREPORTS = 2
  PD_BB_MAX = 3
  PdCommands <- MCPdCommands
  PdBads <- MCPdBads
  PdMaxCmds = 2
  FLASH_CNT = 2
  PRSIZE = 10
  PRPAGE = 2
  PRREPORT = 4
  PrCommands <- MCPrCommands
  PrMaxCmds = 3
  PFCHANS = 2
  PFBUFSZ = 2
  PFREADS = 1
  PFLIMIT = 8
  PFRING = 5
  PFRUN = 2
  PfShapes <- MCPfShapes
  PfMaxEvents = 3
  PFPROCS = {1, 2}
  PFTHREADS = 1
  PfMaps <- MCPfMaps
  PFLIBS = {10, 12}
  RPCLIENT = {1, 2}
  RPSERVER = {5, 6}
  RPPORTS = {3}
  RPSTEPS = 5
  RPLOST = 2
  NLONGEST = 2
  RPCAP = 2
  RPKEYS = {1, 3, 5}
  EDIT_TAB_STOP = 2
  EdKeys = {"a", "tab", "enter", "del", "bksp", "^D", "up", "down", "left", "right", "home", "end", "pgup", "pgdn", "ins", "^S", "^Q", "^X", "^L", "^C", "esc", "shift tab", "dead"}
  EdSizes <- MCEdSizes
  EdFiles <- MCEdFiles
  EdMaxKeys = 4
  PSH_RUNSCRIPT_RETRIES = 2
  SsScripts <- MCSsScripts
  SsCommands = {"program", "psh", "export", "unset", "tty", "sysexec"}
  SsMaxCmds = 3
  FmNumbers <- MCFmNumbers
  FmExponents <- MCFmExponents
  FmPrecs = {0, 1, 2}
  FmNames <- MCFmNames
  FmWidth = 8
  FmMoves <- MCFmMoves
  CPBUFSZ = 2
  SSIZE_MAX = 15
  INT_MAX = 3
  CpRequests <- MCCpRequests
  CpGrowth = 5
  WGBUFSZ = 5
  WGWORD = 64
  WgAnswers <- MCWgAnswers
  PGBYTE = 2
  PGID = 1
  PgRequests <- MCPgRequests
  PGRUNS = 2
  PGFAULTS = 1
  NTP_RETRY_INTERVAL_S = 3
  NTP_JAN1970_DELTA = 64
  SNWORD = 256
  SnRequests <- MCSnRequests
  SNINTR = 1
  SNBLOCK = 2
  TPTIDS = {1, 2, 3}
  TPPIDS = {2}
  TPCORES = {0, 1}
  TPIDLE = 1
  TpSystems <- MCTpSystems
  TPMILLE = 10
  TPLOAD = 1
  TPWORD = 64
  TPMIN = 2
  TPROW = 6
  PSH_TOP_MAX_NCPU = 2
  TpOptions <- MCTpOptions
  TPSTEPS = 3
  TPRUNS = 2
SPECIFICATION MCSpec
CHECK_DEADLOCK FALSE
INVARIANTS
  DigestIsImage
  BootBlocksSurvive
  CompleteFileIsOnFlash
  CompletedSurvivesReboot
  RecordingIsComplete
  ReportIsTrue
  ScreenShowsText
  CleanIsSaved
  ShellAndTerminal
  OutputIsExact
  CopyIsExact
  DownloadIsExact
  PingIsTrue
  ClockIsSetInTime
  TopIsTrue
