------------------------------ MODULE NandPart ------------------------------
(***************************************************************************)
(* The partition table of a NAND flash as the nandpart tool changes it:    *)
(* partitions are removed, then modified (moved or resized, one at a time, *)
(* in an order the tool finds), then added, and the table is written to    *)
(* the device after each change, or once, to a file, at the end.           *)
(*                                                                         *)
(* A partition is a name, an offset and a size in eraseblocks.  The move   *)
(* of its blocks is one step here; NandMove has its details.  Partition    *)
(* types change nothing but the table entry and are left out, and so is    *)
(* umount, whose result the tool ignores.                                  *)
(***************************************************************************)
EXTENDS Integers, Sequences, SequencesExt, FiniteSets, Filter

CONSTANTS
  NBLOCKS,    \* eraseblocks of the device
  MAXPARTS,   \* entries of a table that fit in the page of size writesz
  PartNames,  \* what a name can be
  Requests    \* what a run may be given: the table on the device, the -r, -m
              \* and -a lists, and the -u table

NoUpdate == <<"no update">>
Garbage == [name |-> "garbage", offset |-> 0, size |-> 0]
Part == [name : PartNames, offset : Nat, size : Nat]

VARIABLES
  npReq,      \* history: what was asked for
  npFile,     \* is there an -o file
  npDevice,   \* the table on the device
  npTable,    \* ptable
  npRem,      \* the lists, and the size kept for the last one
  npMod,
  npAdd,
  npAddSize,
  npPlace,    \* where the data of each partition is
  npPending,  \* ptable has changes that are not on the device
  npPhase

npVars == <<npReq, npFile, npDevice, npTable, npRem, npMod, npAdd, npAddSize, npPlace, npPending, npPhase>>

Names(t) == {t[i].name : i \in DOMAIN t}
Blocks(p) == p.offset .. p.offset + p.size - 1
Area(p) == [offset |-> p.offset, size |-> p.size]

-----------------------------------------------------------------------------
(* nandpart_verifyPart: the part is on the device and overlaps no other.   *)
verifyPart_adjacent(t, part) ==
  /\ part.size # 0
  /\ part.offset + part.size <= NBLOCKS
  /\ \A i \in DOMAIN t :
       t[i].name = part.name \/ ~(/\ part.offset < t[i].offset + t[i].size - 1
                                  /\ part.offset + part.size - 1 > t[i].offset)

verifyPart(t, part) ==
  /\ part.size # 0
  /\ part.offset + part.size <= NBLOCKS
  /\ \A i \in DOMAIN t :
       t[i].name = part.name \/ ~(/\ part.offset <= t[i].offset + t[i].size - 1
                                  /\ part.offset + part.size - 1 >= t[i].offset)

findPart(t, name) == SelectInSeq(t, LAMBDA p : p.name = name)

(* The check made of a table before it is stored (libptable).              *)
Valid(t) ==
  /\ Garbage \notin ToSet(t)
  /\ \A i \in DOMAIN t :
       /\ t[i].size # 0 /\ t[i].offset + t[i].size <= NBLOCKS
       /\ \A j \in DOMAIN t \ {i} : t[i].name # t[j].name /\ Blocks(t[i]) \cap Blocks(t[j]) = {}

(* The table that is read off the device has passed the same check.        *)
ASSUME NandPartAssumption ==
  /\ NBLOCKS \in Nat /\ MAXPARTS \in Nat /\ Garbage.name \in PartNames
  /\ \A r \in Requests : /\ r.table \in Seq(Part) /\ Valid(r.table)
                         /\ {r.rem, r.mod, r.add} \subseteq Seq(Part)
                         /\ r.update = NoUpdate \/ r.update \in Seq(Part)

NandPartInit ==
  /\ npReq \in Requests
  /\ npFile \in BOOLEAN
  /\ npDevice = npReq.table
  /\ npTable = <<>>
  /\ npRem = npReq.rem /\ npMod = npReq.mod /\ npAdd = npReq.add /\ npAddSize = Len(npReq.add)
  /\ npPlace = [n \in Names(npDevice) |-> Area(npDevice[findPart(npDevice, n)])]
  /\ npPending = FALSE
  /\ npPhase = "read"

-----------------------------------------------------------------------------
(* nandpart_updatePtable: the lists that turn t into u.                    *)
NamedIn(t, u) == {p \in ToSet(t) : p.name \in Names(u)}
ToRemove(t, u) == Keep(t, ToSet(t) \ NamedIn(t, u))
ToModify(t, u) == Keep(u, NamedIn(u, t))
ToAdd(t, u)    == Keep(u, ToSet(u) \ NamedIn(u, t))

NpKeep == UNCHANGED <<npReq, npFile>>

NpFail(why) == npPhase' = why /\ UNCHANGED <<npReq, npFile, npDevice, npTable, npRem, npMod, npAdd, npAddSize, npPlace, npPending>>

(* nandpart_run up to processActions.                                      *)
readPtable ==
  /\ npPhase = "read"
  /\ npTable' = npDevice
  /\ LET u == npReq.update
     IN  IF u = NoUpdate
         THEN UNCHANGED <<npRem, npMod, npAdd, npAddSize>>
         ELSE /\ npRem' = npRem \o ToRemove(npDevice, u)
              /\ npMod' = npMod \o ToModify(npDevice, u)
              /\ npAdd' = npAdd \o ToAdd(npDevice, u)
              /\ npAddSize' = npAddSize + Len(ToAdd(npDevice, u))
  /\ npPhase' = "check"
  /\ UNCHANGED <<npDevice, npPlace, npPending>> /\ NpKeep

readFails == npPhase = "read" /\ NpFail("failed")

TooMany ==
  \/ Len(npRem) > Len(npTable)
  \/ Len(npMod) > Len(npTable) - Len(npRem)
  \/ Len(npTable) - Len(npRem) + npAddSize > MAXPARTS

checkCounts ==
  /\ npPhase = "check"
  /\ npPhase' = IF npRem = <<>> /\ npMod = <<>> /\ npAddSize = 0 THEN "save"
                ELSE IF TooMany THEN "failed" ELSE "remove"
  /\ UNCHANGED <<npDevice, npTable, npRem, npMod, npAdd, npAddSize, npPlace, npPending>> /\ NpKeep

At(phase) == npPhase = phase /\ ~npPending

(* The removed entry and those behind it are overwritten from beyond the   *)
(* table: the size of an entry is added to a pointer to entries.           *)
Without(t, i) == [k \in 1 .. Len(t) - 1 |-> IF k < i THEN t[k] ELSE Garbage]

removePart ==
  /\ At("remove") /\ npRem # <<>>
  /\ LET i == findPart(npTable, Head(npRem).name)
     IN  IF i = 0
         THEN NpFail("failed")
         ELSE /\ npTable' = Without(npTable, i)
              /\ npRem' = Tail(npRem)
              /\ npPending' = ~npFile
              /\ UNCHANGED <<npDevice, npMod, npAdd, npAddSize, npPlace, npPhase>> /\ NpKeep

removed ==
  /\ At("remove") /\ npRem = <<>>
  /\ npPhase' = "modify"
  /\ UNCHANGED <<npDevice, npTable, npRem, npMod, npAdd, npAddSize, npPlace, npPending>> /\ NpKeep

(* The first modification on the list that the table allows.               *)
NextMod_first == IF npMod = <<>> THEN 0 ELSE IF verifyPart(npTable, npMod[1]) THEN 1 ELSE 0

NextMod == SelectInSeq(npMod, LAMBDA p : verifyPart(npTable, p))

noMod == At("modify") /\ npMod # <<>> /\ NextMod = 0 /\ NpFail("stuck")

(* The part is moved on the device, then changed in the table.  The move   *)
(* is one step that writes the new place and nothing else; that it may     *)
(* write the block after it too, when the places overlap, is the subject   *)
(* of NandMove and not seen here.                                          *)
modifyPart_batched ==
  /\ At("modify") /\ npMod # <<>> /\ NextMod # 0
  /\ LET p == npMod[NextMod]
         i == findPart(npTable, p.name)
     IN  IF i = 0 THEN NpFail("failed")
         ELSE /\ npMod' = RemoveAt(npMod, NextMod)
              /\ npTable' = [npTable EXCEPT ![i] = p]
              /\ npPlace' = IF npFile THEN npPlace ELSE [npPlace EXCEPT ![p.name] = Area(p)]
              /\ npPending' = (~npFile /\ Len(npMod) = 1)
              /\ UNCHANGED <<npDevice, npRem, npAdd, npAddSize, npPhase>> /\ NpKeep

modifyPart ==
  /\ At("modify") /\ npMod # <<>> /\ NextMod # 0
  /\ LET p == npMod[NextMod]
         i == findPart(npTable, p.name)
     IN  IF i = 0 THEN NpFail("failed")
         ELSE /\ npMod' = RemoveAt(npMod, NextMod)
              /\ npTable' = [npTable EXCEPT ![i] = p]
              /\ npPlace' = IF npFile THEN npPlace ELSE [npPlace EXCEPT ![p.name] = Area(p)]
              /\ npPending' = (~npFile /\ npTable[i] # p)
              /\ UNCHANGED <<npDevice, npRem, npAdd, npAddSize, npPhase>> /\ NpKeep

(* A move that fails leaves the data where it was, with the exceptions of  *)
(* FailureReverts in NandMove.                                             *)
moveFails ==
  /\ At("modify") /\ npMod # <<>> /\ NextMod # 0 /\ ~npFile
  /\ LET p == npMod[NextMod]
     IN  findPart(npTable, p.name) # 0 /\ p \notin ToSet(npTable)
  /\ NpFail("failed")

modified ==
  /\ At("modify") /\ npMod = <<>>
  /\ npPhase' = "add"
  /\ UNCHANGED <<npDevice, npTable, npRem, npMod, npAdd, npAddSize, npPlace, npPending>> /\ NpKeep

(* The part is appended; the size of another list is counted down, so the  *)
(* loop goes on to the missing node of an empty list.                      *)
addPart ==
  /\ At("add") /\ npAddSize > 0 /\ npAdd # <<>>
  /\ npTable' = Append(npTable, Head(npAdd))
  /\ npAdd' = Tail(npAdd)
  /\ npPending' = ~npFile
  /\ UNCHANGED <<npDevice, npRem, npMod, npAddSize, npPlace, npPhase>> /\ NpKeep

addNothing == At("add") /\ npAddSize > 0 /\ npAdd = <<>> /\ NpFail("crashed")

added ==
  /\ At("add") /\ npAddSize = 0
  /\ npPhase' = "save"
  /\ UNCHANGED <<npDevice, npTable, npRem, npMod, npAdd, npAddSize, npPlace, npPending>> /\ NpKeep

(* nandpart_writePtable to the device, after a change.                     *)
writePtable ==
  /\ npPending /\ npPhase # "failed" /\ Valid(npTable)
  /\ npPending' = FALSE
  /\ npDevice' = npTable
  /\ npPlace' = [n \in Names(npTable) |->
                   IF n \in DOMAIN npPlace THEN npPlace[n]
                   ELSE Area(npTable[findPart(npTable, n)])]
  /\ UNCHANGED <<npTable, npRem, npMod, npAdd, npAddSize, npPhase>> /\ NpKeep

writeFails == npPending /\ npPhase # "failed" /\ NpFail("failed")

(* ... or to the -o file at the end.                                       *)
save ==
  /\ npPhase = "save"
  /\ npPhase' = IF npFile /\ ~Valid(npTable) THEN "failed" ELSE "done"
  /\ UNCHANGED <<npDevice, npTable, npRem, npMod, npAdd, npAddSize, npPlace, npPending>> /\ NpKeep

npOver == npPhase \in {"done", "failed", "stuck", "crashed"} /\ UNCHANGED npVars

NandPartNext ==
  \/ readPtable \/ readFails \/ checkCounts \/ removePart \/ removed \/ noMod \/ modifyPart \/ moveFails
  \/ modified \/ addPart \/ addNothing \/ added \/ writePtable \/ writeFails \/ save \/ npOver

NandPartSpec == NandPartInit /\ [][NandPartNext]_npVars
-----------------------------------------------------------------------------
(* A reset, or a table that cannot be written, at any moment costs at most *)
(* one partition: the data of all others is where the table on the device  *)
(* says it is.                                                             *)
OneStaleEntry ==
  Cardinality({i \in DOMAIN npDevice : npDevice[i].name \in DOMAIN npPlace
                                        /\ npPlace[npDevice[i].name] # Area(npDevice[i])}) <= 1

(* No move goes over the data of another partition, whatever the order the *)
(* modifications are made in and wherever the tool stops.                  *)
DataDisjoint ==
  \A m, n \in DOMAIN npPlace : m # n => Blocks(npPlace[m]) \cap Blocks(npPlace[n]) = {}

Orders(n) == {f \in [1 .. n -> 1 .. n] : \A i \in 1 .. n : \E j \in 1 .. n : f[j] = i}

Changed(t, ms) ==
  [i \in DOMAIN t |-> IF t[i].name \in Names(ms) THEN ms[findPart(ms, t[i].name)] ELSE t[i]]

(* Can the modifications be made one after the other in the order f?       *)
Possible(t, ms, f) ==
  \A k \in DOMAIN ms :
    /\ ms[f[k]].name \in Names(t)
    /\ verifyPart(Changed(t, [j \in 1 .. k - 1 |-> ms[f[j]]]), ms[f[k]])

(* Modifications of different partitions and nothing else.                 *)
OnlyMods(r) ==
  /\ \A i, j \in DOMAIN r.mod : r.mod[i].name = r.mod[j].name => i = j
  /\ r.rem = <<>> /\ r.update = NoUpdate

(* The tool gives up only when it must: it takes the first modification    *)
(* that the table allows now, yet when none is left that does, there is no *)
(* order in which the modifications asked for can be made one by one.      *)
StuckOnlyIfImpossible ==
  npPhase = "stuck" /\ OnlyMods(npReq) =>
    \A f \in Orders(Len(npReq.mod)) : ~Possible(npReq.table, npReq.mod, f)

(* Removing a partition keeps the entries of the others.                   *)
RemoveKeepsOthers ==
  npPhase \in {"remove", "modify"} =>
    \A i \in DOMAIN npDevice : npDevice[i].name \in Names(npTable) \cup Names(npReq.rem)
=============================================================================
