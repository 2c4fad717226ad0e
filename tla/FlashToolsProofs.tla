-------------------------- MODULE FlashToolsProofs --------------------------
(***************************************************************************)
(* Theorems about the tools that write a flash: NandPart and               *)
(* MeterfsMigrate, which rearrange it in place, PsdRt, NandTool and Psd;   *)
(* for every device and everything they may be asked.                      *)
(*                                                                         *)
(* nandpart writes the table after each change it makes, so between two    *)
(* changes the table in memory is the one on the device and the data of    *)
(* every partition is where it says.  What has to be kept track of is the  *)
(* time from a change to its write, in which one entry may be wrong.       *)
(*                                                                         *)
(* meterfs-migrate writes the first header first and with the number the   *)
(* old file system gave the newer one, and moves sectors from the top      *)
(* down: what it has overwritten it has copied.                            *)
(***************************************************************************)
EXTENDS MeterfsMigrate, NandPart, PsdRt, NandTool, Psd, FiniteSetTheorems, SequenceTheorems, NatFacts

(* The types of what the tool works with.                                  *)
PartTypes ==
  /\ npReq \in Requests /\ npFile \in BOOLEAN /\ npPending \in BOOLEAN
  /\ npDevice \in Seq(Part) /\ Valid(npDevice)
  /\ npTable \in Seq(Part) /\ npMod \in Seq(Part) /\ npAdd \in Seq(Part)
  /\ npPlace = [n \in Names(npDevice) |-> npPlace[n]]

(* The data of each partition of table t that has any is where t says.     *)
InPlace(t, i) == t[i].name \in DOMAIN npPlace => npPlace[t[i].name] = Area(t[i])
Matches(t) == \A i \in DOMAIN t : InPlace(t, i)

Working == {"check", "remove", "modify", "add", "save"}

(* Nothing is pending: the device is up to date.                           *)
UpToDate ==
  /\ npFile \/ npPhase = "read" => ~npPending
  /\ ~npPending => Matches(npDevice)
  /\ ~npPending /\ ~npFile /\ npPhase \in Working => npTable = npDevice

(* A change is pending: the table, if it can be written, tells the truth,  *)
(* and the one on the device does but for one entry.                       *)
ChangePending ==
  npPending => /\ Valid(npTable) => Matches(npTable)
               /\ \E k \in Nat : \A i \in DOMAIN npDevice \ {k} : InPlace(npDevice, i)

TableInv == PartTypes /\ UpToDate /\ ChangePending /\ DataDisjoint

-----------------------------------------------------------------------------
(* findPart finds the first entry of the name, or none.                    *)
LEMMA FindFact ==
  ASSUME NEW t \in Seq(Part), NEW n
  PROVE  /\ findPart(t, n) \in 0 .. Len(t)
         /\ findPart(t, n) # 0 => findPart(t, n) \in DOMAIN t /\ t[findPart(t, n)].name = n
         /\ findPart(t, n) = 0 => n \notin Names(t)
  <1> DEFINE I == {i \in 1 .. Len(t) : t[i].name = n}
  <1>1. Len(t) \in Nat /\ DOMAIN t = 1 .. Len(t) /\ I \subseteq Nat
    OBVIOUS
  <1>2. findPart(t, n) = IF I # {} THEN Min(I) ELSE 0
    BY DEF findPart, SelectInSeq
  <1>3. CASE I # {}
    <2>1. Min(I) \in I
      BY <1>1, <1>3, MinFact
    <2>2. findPart(t, n) \in I
      BY <1>2, <1>3, <2>1
    <2>3. QED
      BY <1>1, <2>2
  <1>4. CASE I = {}
    <2>1. findPart(t, n) = 0
      BY <1>2, <1>4
    <2>2. n \notin Names(t)
      BY <1>1, <1>4 DEF Names
    <2>3. QED
      BY <1>1, <2>1, <2>2
  <1>5. QED
    BY <1>3, <1>4

(* ... and the only one, in a table that is valid.                         *)
LEMMA FindOnly ==
  ASSUME NEW t \in Seq(Part), Valid(t), NEW i \in DOMAIN t
  PROVE  findPart(t, t[i].name) = i
  <1>1. t[i].name \in Names(t)
    BY DEF Names
  <1>2. findPart(t, t[i].name) \in DOMAIN t /\ t[findPart(t, t[i].name)].name = t[i].name
    BY <1>1, FindFact
  <1> DEFINE j == findPart(t, t[i].name)
  <1> HIDE DEF j
  <1>3. j \in DOMAIN t /\ t[j].name = t[i].name
    BY <1>2 DEF j
  <1>4. j = i
    BY <1>3 DEF Valid
  <1>5. QED
    BY <1>4 DEF j

(* RemoveAt takes one element out of a sequence.                           *)
LEMMA RemoveAtFact ==
  ASSUME NEW T, NEW s \in Seq(T), NEW i \in 1 .. Len(s)
  PROVE  /\ RemoveAt(s, i) \in Seq(T) /\ Len(RemoveAt(s, i)) = Len(s) - 1
         /\ \A j \in 1 .. Len(s) - 1 : RemoveAt(s, i)[j] = IF j < i THEN s[j] ELSE s[j + 1]
  <1> DEFINE u == SubSeq(s, 1, i - 1)
             v == SubSeq(s, i + 1, Len(s))
             n == Len(s)
  <1>1. n \in Nat
    OBVIOUS
  <1>2. u \in Seq(T) /\ Len(u) = i - 1 /\ \A j \in 1 .. i - 1 : u[j] = s[j]
    OBVIOUS
  <1>3. v \in Seq(T) /\ Len(v) = n - i /\ \A j \in 1 .. n - i : v[j] = s[i + j]
    OBVIOUS
  <1>4. RemoveAt(s, i) = u \o v
    BY DEF RemoveAt
  <1> HIDE DEF u, v, n
  <1>5. /\ u \o v \in Seq(T) /\ Len(u \o v) = Len(u) + Len(v)
        /\ \A j \in 1 .. Len(u) + Len(v) : (u \o v)[j] = IF j <= Len(u) THEN u[j] ELSE v[j - Len(u)]
    BY <1>2, <1>3, ConcatProperties
  <1>6. i \in 1 .. n /\ Len(u) + Len(v) = n - 1
    BY <1>1, <1>2, <1>3 DEF n
  <1>7. ASSUME NEW j \in 1 .. n - 1 PROVE (u \o v)[j] = IF j < i THEN s[j] ELSE s[j + 1]
    <2>1. (u \o v)[j] = IF j <= i - 1 THEN u[j] ELSE v[j - (i - 1)]
      BY <1>2, <1>5, <1>6
    <2>2. CASE j < i
      BY <2>1, <2>2, <1>1, <1>2, <1>6
    <2>3. CASE ~(j < i)
      <3>1. j - (i - 1) \in 1 .. n - i /\ i + (j - (i - 1)) = j + 1 /\ ~(j <= i - 1)
        BY <2>3, <1>1, <1>6
      <3>2. QED
        BY <2>1, <2>3, <3>1, <1>3
    <2>4. QED
      BY <2>2, <2>3
  <1>8. QED
    BY <1>4, <1>5, <1>6, <1>7 DEF n

(* A part that nandpart_verifyPart accepts shares no block with a part of  *)
(* another name.                                                           *)
LEMMA VerifiedApart ==
  ASSUME NEW t \in Seq(Part), NEW p \in Part, verifyPart(t, p),
         NEW i \in DOMAIN t, t[i].name # p.name
  PROVE  Blocks(p) \cap Blocks(t[i]) = {}
  <1> DEFINE q == t[i]
  <1>0. q \in Part
    OBVIOUS
  <1>1. p.offset \in Nat /\ p.size \in Nat /\ q.offset \in Nat /\ q.size \in Nat
    BY <1>0 DEF Part
  <1>2. ~(p.offset <= q.offset + q.size - 1 /\ p.offset + p.size - 1 >= q.offset)
    BY DEF verifyPart
  <1> HIDE DEF q
  <1>3. Blocks(p) \cap Blocks(q) = {}
    BY <1>1, <1>2 DEF Blocks
  <1>4. QED
    BY <1>3 DEF q

-----------------------------------------------------------------------------
(* The data is where the table on the device says when the tool starts.    *)
LEMMA TableInit == NandPartInit => TableInv
  <1> SUFFICES ASSUME NandPartInit PROVE TableInv
    OBVIOUS
  <1>1. /\ npReq \in Requests /\ npFile \in BOOLEAN /\ npPending = FALSE /\ npPhase = "read"
        /\ npDevice = npReq.table /\ npTable = <<>> /\ npMod = npReq.mod /\ npAdd = npReq.add
        /\ npPlace = [n \in Names(npDevice) |-> Area(npDevice[findPart(npDevice, n)])]
    BY DEF NandPartInit
  <1>2. /\ npDevice \in Seq(Part) /\ Valid(npDevice) /\ npMod \in Seq(Part) /\ npAdd \in Seq(Part)
    BY <1>1, NandPartAssumption
  <1>3. /\ npTable \in Seq(Part)
        /\ npPlace = [n \in Names(npDevice) |-> npPlace[n]]
    BY <1>1
  <1>4. ASSUME NEW i \in DOMAIN npDevice
        PROVE  npDevice[i].name \in DOMAIN npPlace /\ npPlace[npDevice[i].name] = Area(npDevice[i])
    <2>1. findPart(npDevice, npDevice[i].name) = i
      BY <1>2, FindOnly
    <2>2. npDevice[i].name \in Names(npDevice)
      BY DEF Names
    <2>3. QED
      BY <1>1, <2>1, <2>2
  <1>5. DataDisjoint
    <2> SUFFICES ASSUME NEW m \in DOMAIN npPlace, NEW n \in DOMAIN npPlace, m # n
                 PROVE  Blocks(npPlace[m]) \cap Blocks(npPlace[n]) = {}
      BY DEF DataDisjoint
    <2>1. PICK i \in DOMAIN npDevice : npDevice[i].name = m
      BY <1>1 DEF Names
    <2>2. PICK j \in DOMAIN npDevice : npDevice[j].name = n
      BY <1>1 DEF Names
    <2>3. npPlace[m] = Area(npDevice[i]) /\ npPlace[n] = Area(npDevice[j]) /\ i # j
      BY <1>4, <2>1, <2>2
    <2>4. Blocks(npDevice[i]) \cap Blocks(npDevice[j]) = {}
      BY <1>2, <2>3 DEF Valid
    <2>5. QED
      BY <2>3, <2>4 DEF Blocks, Area
  <1>6. QED
    BY <1>1, <1>2, <1>3, <1>4, <1>5
    DEF TableInv, PartTypes, UpToDate, ChangePending, Matches, InPlace, Working

(* A step that goes on, or gives up, without a change.                     *)
LEMMA PhaseOnly ==
  ASSUME TableInv, npPhase' # "read", npPhase' \in Working => npPhase \in Working,
         UNCHANGED <<npReq, npFile, npDevice, npTable, npMod, npAdd, npPlace, npPending>>
  PROVE  TableInv'
  <1>1. PartTypes'
    BY DEF TableInv, PartTypes, Names
  <1>2. UpToDate' /\ ChangePending'
    BY DEF TableInv, UpToDate, ChangePending, Matches, InPlace
  <1>3. DataDisjoint'
    BY DEF TableInv, DataDisjoint
  <1>4. QED
    BY <1>1, <1>2, <1>3 DEF TableInv

(* Reading the table, and the lists of -u.                                 *)
LEMMA ReadInv ==
  ASSUME TableInv, readPtable
  PROVE  TableInv'
  <1>1. /\ npPhase = "read" /\ npPhase' = "check" /\ npTable' = npDevice
        /\ UNCHANGED <<npReq, npFile, npDevice, npPlace, npPending>>
    BY DEF readPtable, NpKeep
  <1>2. /\ npReq \in Requests /\ npDevice \in Seq(Part) /\ npMod \in Seq(Part) /\ npAdd \in Seq(Part)
    BY DEF TableInv, PartTypes
  <1>3. npMod' \in Seq(Part) /\ npAdd' \in Seq(Part)
    <2> DEFINE u == npReq.update
    <2>1. CASE u = NoUpdate
      BY <2>1, <1>2 DEF readPtable
    <2>2. CASE u # NoUpdate
      <3>1. u \in Seq(Part)
        BY <2>2, <1>2, NandPartAssumption
      <3>2. ToModify(npDevice, u) \in Seq(Part) /\ ToAdd(npDevice, u) \in Seq(Part)
        BY <3>1, KeepFact DEF ToModify, ToAdd
      <3>3. npMod' = npMod \o ToModify(npDevice, u) /\ npAdd' = npAdd \o ToAdd(npDevice, u)
        BY <2>2 DEF readPtable
      <3> HIDE DEF u
      <3>4. npMod \o ToModify(npDevice, u) \in Seq(Part) /\ npAdd \o ToAdd(npDevice, u) \in Seq(Part)
        BY <3>2, <1>2, ConcatProperties
      <3>5. QED
        BY <3>3, <3>4
    <2>3. QED
      BY <2>1, <2>2
  <1>4. PartTypes'
    BY <1>1, <1>2, <1>3 DEF TableInv, PartTypes, Names
  <1>5. UpToDate' /\ ChangePending'
    BY <1>1 DEF TableInv, UpToDate, ChangePending, Matches, InPlace
  <1>6. DataDisjoint'
    BY <1>1 DEF TableInv, DataDisjoint
  <1>7. QED
    BY <1>4, <1>5, <1>6 DEF TableInv

(* A removed partition is missing in the table until that is written; what *)
(* takes the place of the entries behind it keeps it from being written.   *)
LEMMA RemoveInv ==
  ASSUME TableInv, removePart
  PROVE  TableInv'
  <1> DEFINE i == findPart(npTable, Head(npRem).name)
  <1>1. npPhase = "remove" /\ ~npPending /\ npTable \in Seq(Part)
    BY DEF TableInv, PartTypes, removePart, At
  <1>2. CASE i = 0
    BY <1>1, <1>2, PhaseOnly DEF removePart, NpFail, Working
  <1>3. CASE i # 0
    <2>1. i \in 1 .. Len(npTable)
      BY <1>1, <1>3, FindFact
    <2>2. /\ npTable' = Without(npTable, i) /\ npPending' = ~npFile
          /\ UNCHANGED <<npReq, npFile, npDevice, npMod, npAdd, npPlace, npPhase>>
      BY <1>3 DEF removePart, NpKeep
    <2> HIDE DEF i
    <2>3. Garbage \in Part
      BY NandPartAssumption DEF Garbage, Part
    <2>4. /\ npTable' \in Seq(Part) /\ DOMAIN npTable' = 1 .. Len(npTable) - 1
          /\ \A k \in 1 .. Len(npTable) - 1 : npTable'[k] = IF k < i THEN npTable[k] ELSE Garbage
      <3> DEFINE n == Len(npTable) - 1
                 e(k) == IF k < i THEN npTable[k] ELSE Garbage
      <3>1. n \in Nat /\ npTable' = [k \in 1 .. n |-> e(k)]
        BY <1>1, <2>1, <2>2 DEF Without
      <3>2. \A k \in 1 .. n : e(k) \in Part
        BY <1>1, <2>1, <2>3
      <3> HIDE DEF n, e
      <3>3. [k \in 1 .. n |-> e(k)] \in Seq(Part)
        BY <3>1, <3>2
      <3>4. QED
        BY <3>1, <3>3 DEF n, e
    <2>5. PartTypes'
      BY <2>2, <2>4 DEF TableInv, PartTypes, Names
    <2>6. Matches(npDevice)
      BY <1>1 DEF TableInv, UpToDate
    <2>7. UpToDate'
      BY <1>1, <2>2, <2>6 DEF UpToDate, TableInv, Matches, InPlace
    <2>8. ASSUME npPending', Valid(npTable') PROVE Matches(npTable)
      <3>1. ~npFile
        BY <2>2, <2>8
      <3>2. npTable = npDevice
        BY <1>1, <3>1 DEF TableInv, UpToDate, Working
      <3>3. QED
        BY <2>6, <3>2
    <2>9. ASSUME npPending', Valid(npTable') PROVE Matches(npTable)'
      <3> SUFFICES ASSUME NEW k \in DOMAIN npTable' PROVE InPlace(npTable, k)'
        BY DEF Matches
      <3>1. npTable'[k] # Garbage
        BY <2>9 DEF Valid, ToSet
      <3>2. npTable'[k] = npTable[k] /\ k \in DOMAIN npTable
        BY <1>1, <2>4, <3>1
      <3>3. InPlace(npTable, k)
        BY <2>8, <2>9, <3>2 DEF Matches
      <3>4. QED
        BY <2>2, <3>2, <3>3 DEF InPlace
    <2>10. ChangePending'
      BY <2>2, <2>6, <2>9 DEF ChangePending, Matches, InPlace
    <2>11. DataDisjoint'
      BY <2>2 DEF TableInv, DataDisjoint
    <2>12. QED
      BY <2>5, <2>7, <2>10, <2>11 DEF TableInv
  <1>4. QED
    BY <1>2, <1>3

(* A partition is moved to where no other one is, and only then is its     *)
(* entry changed: until the table is written only that entry is wrong.     *)
LEMMA ModifyInv ==
  ASSUME TableInv, modifyPart
  PROVE  TableInv'
  <1> DEFINE p == npMod[NextMod]
             i == findPart(npTable, p.name)
  <1>1. /\ npPhase = "modify" /\ ~npPending /\ npTable \in Seq(Part) /\ npMod \in Seq(Part)
        /\ NextMod # 0 /\ npFile \in BOOLEAN
    BY DEF TableInv, PartTypes, modifyPart, At
  <1>2. NextMod \in 1 .. Len(npMod) /\ verifyPart(npTable, p)
    <2> DEFINE I == {k \in 1 .. Len(npMod) : verifyPart(npTable, npMod[k])}
    <2>1. NextMod = IF I # {} THEN Min(I) ELSE 0
      BY DEF NextMod, SelectInSeq
    <2>2. I \subseteq Nat /\ I # {}
      BY <1>1, <2>1
    <2>3. Min(I) \in I
      BY <2>2, MinFact
    <2>4. NextMod \in I
      BY <2>1, <2>2, <2>3
    <2>5. QED
      BY <2>4
  <1>3. p \in Part
    BY <1>1, <1>2
  <1>4. CASE i = 0
    BY <1>1, <1>4, PhaseOnly DEF modifyPart, NpFail, Working
  <1>5. CASE i # 0
    <2>1. /\ npMod' = RemoveAt(npMod, NextMod)
          /\ npTable' = [npTable EXCEPT ![i] = p]
          /\ npPlace' = IF npFile THEN npPlace ELSE [npPlace EXCEPT ![p.name] = Area(p)]
          /\ npPending' = (~npFile /\ npTable[i] # p)
          /\ UNCHANGED <<npReq, npFile, npDevice, npAdd, npPhase>>
      BY <1>5 DEF modifyPart, NpKeep
    <2>2. i \in DOMAIN npTable /\ npTable[i].name = p.name
      BY <1>1, <1>5, FindFact
    <2> HIDE DEF p, i
    <2>3. npMod' \in Seq(Part) /\ npTable' \in Seq(Part)
      BY <1>1, <1>2, <1>3, <2>1, <2>2, RemoveAtFact
    <2>4. /\ npPlace = [n \in Names(npDevice) |-> npPlace[n]]
          /\ Matches(npDevice) /\ DataDisjoint /\ Valid(npDevice)
      BY <1>1 DEF TableInv, PartTypes, UpToDate
    <2>5. CASE npFile
      <3>1. ~npPending' /\ npPending' \in BOOLEAN /\ npPlace' = npPlace
        BY <2>1, <2>5
      <3>2. PartTypes'
        <4>1. npPlace' = [n \in Names(npDevice') |-> npPlace'[n]]
          BY <2>1, <2>4, <3>1 DEF Names
        <4>2. QED
          BY <2>1, <2>3, <3>1, <4>1 DEF TableInv, PartTypes
      <3>3. UpToDate' /\ ChangePending'
        BY <1>1, <2>1, <2>5, <3>1 DEF TableInv, UpToDate, ChangePending, Matches, InPlace
      <3>4. DataDisjoint'
        BY <3>1, <2>4 DEF DataDisjoint
      <3>5. QED
        BY <3>2, <3>3, <3>4 DEF TableInv
    <2>6. CASE ~npFile
      <3>1. npTable = npDevice
        BY <1>1, <2>6 DEF TableInv, UpToDate, Working
      <3>2. DOMAIN npPlace = Names(npDevice) /\ p.name \in DOMAIN npPlace
        BY <2>2, <2>4, <3>1 DEF Names
      <3>3. /\ npPlace' = [n \in Names(npDevice) |-> npPlace'[n]]
            /\ npPlace'[p.name] = Area(p)
            /\ \A n \in DOMAIN npPlace \ {p.name} : npPlace'[n] = npPlace[n]
            /\ DOMAIN npPlace' = DOMAIN npPlace
        BY <2>1, <2>4, <2>6, <3>2
      <3>4. /\ DOMAIN npTable' = DOMAIN npTable /\ npTable'[i] = p
            /\ \A k \in DOMAIN npTable \ {i} : npTable'[k] = npTable[k]
        BY <2>1, <2>2
      <3>5. \A k \in DOMAIN npDevice \ {i} : npDevice[k].name # p.name
        BY <2>2, <2>4, <3>1 DEF Valid
      <3>6. ASSUME NEW k \in DOMAIN npDevice \ {i}
            PROVE  npDevice[k].name \in DOMAIN npPlace
                   /\ npPlace'[npDevice[k].name] = Area(npDevice[k])
        <4>1. npDevice[k].name \in DOMAIN npPlace /\ npDevice[k].name # p.name
          BY <3>2, <3>5 DEF Names
        <4>2. npPlace[npDevice[k].name] = Area(npDevice[k])
          BY <2>4, <4>1 DEF Matches, InPlace
        <4>3. QED
          BY <3>3, <4>1, <4>2
      <3>7. PartTypes'
        BY <2>1, <2>3, <3>3 DEF TableInv, PartTypes, Names
      <3>8. Matches(npTable)'
        <4> SUFFICES ASSUME NEW k \in DOMAIN npTable PROVE npPlace'[npTable'[k].name] = Area(npTable'[k])
          BY <3>4 DEF Matches, InPlace
        <4>1. CASE k = i
          BY <4>1, <3>3, <3>4
        <4>2. CASE k # i
          BY <4>2, <3>1, <3>4, <3>6
        <4>3. QED
          BY <4>1, <4>2
      <3>9. UpToDate'
        <4>1. CASE npTable[i] = p
          <5>1. npTable' = npTable
            BY <1>1, <2>1, <2>2, <4>1
          <5>2. Matches(npDevice)'
            BY <2>1, <3>1, <3>8, <5>1 DEF Matches, InPlace
          <5>3. QED
            BY <1>1, <2>1, <3>1, <5>1, <5>2, <2>6, <4>1 DEF UpToDate, Working
        <4>2. CASE npTable[i] # p
          BY <1>1, <2>1, <2>6, <4>2 DEF UpToDate, Working
        <4>3. QED
          BY <4>1, <4>2
      <3>10. ChangePending'
        <4>1. i \in Nat
          BY <1>1, <2>2
        <4>2. \A k \in DOMAIN npDevice' \ {i} : InPlace(npDevice, k)'
          BY <2>1, <3>6 DEF InPlace
        <4>3. QED
          BY <3>8, <4>1, <4>2 DEF ChangePending
      <3>11. DataDisjoint'
        <4>1. ASSUME NEW m \in DOMAIN npPlace, m # p.name
              PROVE  Blocks(npPlace'[m]) \cap Blocks(npPlace'[p.name]) = {}
          <5>1. PICK k \in DOMAIN npDevice : npDevice[k].name = m
            BY <3>2 DEF Names
          <5>2. k # i /\ npPlace'[m] = Area(npDevice[k])
            BY <2>2, <3>1, <3>6, <4>1, <5>1
          <5>3. Blocks(p) \cap Blocks(npTable[k]) = {}
            BY <1>1, <1>2, <1>3, <3>1, <4>1, <5>1, VerifiedApart DEF p
          <5>4. QED
            BY <3>1, <3>3, <5>2, <5>3 DEF Blocks, Area
        <4>2. ASSUME NEW m \in DOMAIN npPlace, NEW n \in DOMAIN npPlace, m # n,
                     m # p.name, n # p.name
              PROVE  Blocks(npPlace'[m]) \cap Blocks(npPlace'[n]) = {}
          BY <2>4, <3>3, <4>2 DEF DataDisjoint
        <4>3. QED
          BY <3>3, <4>1, <4>2 DEF DataDisjoint
      <3>12. QED
        BY <3>7, <3>9, <3>10, <3>11 DEF TableInv
    <2>7. QED
      BY <1>1, <2>5, <2>6
  <1>6. QED
    BY <1>4, <1>5

(* A new entry that can be written is of a name that was not in the table. *)
LEMMA AddInv ==
  ASSUME TableInv, addPart
  PROVE  TableInv'
  <1>1. /\ npPhase = "add" /\ ~npPending /\ npTable \in Seq(Part) /\ npAdd \in Seq(Part) /\ npAdd # <<>>
        /\ npPending' = ~npFile /\ npTable' = Append(npTable, Head(npAdd)) /\ npAdd' = Tail(npAdd)
        /\ UNCHANGED <<npReq, npFile, npDevice, npMod, npPlace, npPhase>>
    BY DEF TableInv, PartTypes, addPart, At, NpKeep
  <1> DEFINE p == Head(npAdd)
             n == Len(npTable)
  <1>2. p \in Part /\ npAdd' \in Seq(Part) /\ n \in Nat /\ DOMAIN npTable = 1 .. n
    BY <1>1
  <1>3. /\ npTable' \in Seq(Part) /\ DOMAIN npTable' = 1 .. n + 1 /\ npTable'[n + 1] = p
        /\ \A k \in 1 .. n : npTable'[k] = npTable[k]
    <2> HIDE DEF p
    <2>1. npTable' = Append(npTable, p)
      BY <1>1 DEF p
    <2>2. QED
      BY <1>1, <1>2, <2>1
  <1> HIDE DEF p, n
  <1>4. PartTypes'
    BY <1>1, <1>2, <1>3 DEF TableInv, PartTypes, Names
  <1>5. Matches(npDevice)
    BY <1>1 DEF TableInv, UpToDate
  <1>6. UpToDate'
    BY <1>1, <1>5 DEF TableInv, UpToDate, Matches, InPlace
  <1>7. ASSUME npPending', Valid(npTable') PROVE Matches(npTable)'
    <2>1. npTable = npDevice
      BY <1>1, <1>7 DEF TableInv, UpToDate, Working
    <2>2. DOMAIN npPlace = Names(npTable)
      BY <2>1 DEF TableInv, PartTypes
    <2>3. n + 1 \in DOMAIN npTable' /\ \A k \in 1 .. n : k \in DOMAIN npTable' \ {n + 1}
      BY <1>2, <1>3
    <2>4. \A k \in 1 .. n : npTable'[n + 1].name # npTable'[k].name
      BY <1>7, <2>3 DEF Valid
    <2>5. p.name \notin DOMAIN npPlace
      BY <1>2, <1>3, <2>2, <2>4 DEF Names
    <2>6. ASSUME NEW k \in DOMAIN npTable' PROVE InPlace(npTable, k)'
      <3>1. CASE k = n + 1
        BY <1>1, <1>3, <2>5, <3>1 DEF InPlace
      <3>2. CASE k # n + 1
        <4>1. k \in 1 .. n
          BY <1>2, <1>3, <3>2
        <4>2. npTable'[k] = npDevice[k] /\ k \in DOMAIN npDevice
          BY <1>2, <1>3, <2>1, <4>1
        <4>3. QED
          BY <1>1, <1>5, <4>2 DEF Matches, InPlace
      <3>3. QED
        BY <3>1, <3>2
    <2>7. QED
      BY <2>6 DEF Matches
  <1>8. ChangePending'
    BY <1>1, <1>5, <1>7 DEF ChangePending, Matches, InPlace
  <1>9. DataDisjoint'
    BY <1>1 DEF TableInv, DataDisjoint
  <1>10. QED
    BY <1>4, <1>6, <1>8, <1>9 DEF TableInv

(* Writing the table makes it the truth about the device: a new partition  *)
(* is where its entry says, and no valid table has two that share a block. *)
LEMMA WriteInv ==
  ASSUME TableInv, writePtable
  PROVE  TableInv'
  <1>1. /\ npPending /\ Valid(npTable) /\ npPending' = FALSE /\ npDevice' = npTable
        /\ npPlace' = [n \in Names(npTable) |->
                         IF n \in DOMAIN npPlace THEN npPlace[n]
                         ELSE Area(npTable[findPart(npTable, n)])]
        /\ UNCHANGED <<npReq, npFile, npTable, npMod, npAdd, npPhase>>
    BY DEF writePtable, NpKeep
  <1>2. npTable \in Seq(Part) /\ Matches(npTable)
    BY <1>1 DEF TableInv, PartTypes, ChangePending
  <1>3. PartTypes'
    <2>1. npPlace' = [n \in Names(npDevice') |-> npPlace'[n]]
      BY <1>1
    <2>2. Valid(npDevice') /\ npPending' \in BOOLEAN
      BY <1>1
    <2>3. QED
      BY <1>1, <1>2, <2>1, <2>2 DEF TableInv, PartTypes, Valid
  <1>4. DOMAIN npPlace' = Names(npTable)
    BY <1>1
  <1>5. ASSUME NEW i \in DOMAIN npTable
        PROVE  npPlace'[npTable[i].name] = Area(npTable[i])
    <2>1. npTable[i].name \in Names(npTable)
      BY DEF Names
    <2>2. findPart(npTable, npTable[i].name) = i
      BY <1>1, <1>2, FindOnly
    <2>3. npTable[i].name \in DOMAIN npPlace => npPlace[npTable[i].name] = Area(npTable[i])
      BY <1>2 DEF Matches, InPlace
    <2>4. QED
      BY <1>1, <2>1, <2>2, <2>3
  <1>6. Matches(npDevice)'
    BY <1>1, <1>5 DEF Matches, InPlace
  <1>7. UpToDate' /\ ChangePending'
    BY <1>1, <1>6 DEF UpToDate, ChangePending
  <1>8. DataDisjoint'
    <2> SUFFICES ASSUME NEW m \in Names(npTable), NEW n \in Names(npTable), m # n
                 PROVE  Blocks(npPlace'[m]) \cap Blocks(npPlace'[n]) = {}
      BY <1>4 DEF DataDisjoint
    <2>1. PICK i \in DOMAIN npTable : npTable[i].name = m
      BY DEF Names
    <2>2. PICK j \in DOMAIN npTable : npTable[j].name = n
      BY DEF Names
    <2>3. npPlace'[m] = Area(npTable[i]) /\ npPlace'[n] = Area(npTable[j]) /\ i # j
      BY <1>5, <2>1, <2>2
    <2>4. Blocks(npTable[i]) \cap Blocks(npTable[j]) = {}
      BY <1>1, <2>3 DEF Valid
    <2>5. QED
      BY <2>3, <2>4 DEF Blocks, Area
  <1>9. QED
    BY <1>3, <1>7, <1>8 DEF TableInv

(* Every step of nandpart keeps the invariant.                             *)
LEMMA TableStep == TableInv /\ [NandPartNext]_npVars => TableInv'
  <1> SUFFICES ASSUME TableInv, [NandPartNext]_npVars PROVE TableInv'
    OBVIOUS
  <1>1. CASE readPtable
    BY <1>1, ReadInv
  <1>2. CASE readFails
    BY <1>2, PhaseOnly DEF readFails, NpFail, Working
  <1>3. CASE checkCounts
    BY <1>3, PhaseOnly DEF checkCounts, NpKeep, Working
  <1>4. CASE removePart
    BY <1>4, RemoveInv
  <1>5. CASE removed
    BY <1>5, PhaseOnly DEF removed, At, NpKeep, Working
  <1>6. CASE noMod
    BY <1>6, PhaseOnly DEF noMod, NpFail, Working
  <1>7. CASE modifyPart
    BY <1>7, ModifyInv
  <1>8. CASE moveFails
    BY <1>8, PhaseOnly DEF moveFails, NpFail, Working
  <1>9. CASE modified
    BY <1>9, PhaseOnly DEF modified, At, NpKeep, Working
  <1>10. CASE addPart
    BY <1>10, AddInv
  <1>11. CASE addNothing
    BY <1>11, PhaseOnly DEF addNothing, NpFail, Working
  <1>12. CASE added
    BY <1>12, PhaseOnly DEF added, At, NpKeep, Working
  <1>13. CASE writePtable
    BY <1>13, WriteInv
  <1>14. CASE writeFails
    BY <1>14, PhaseOnly DEF writeFails, NpFail, Working
  <1>15. CASE save
    BY <1>15, PhaseOnly DEF save, NpKeep, Working
  <1>16. CASE npOver \/ UNCHANGED npVars
    <2>1. UNCHANGED npVars
      BY <1>16 DEF npOver
    <2>2. PartTypes' /\ UpToDate' /\ ChangePending' /\ DataDisjoint'
      BY <2>1 DEF npVars, TableInv, PartTypes, UpToDate, ChangePending, DataDisjoint, Matches, InPlace, Names
    <2>3. QED
      BY <2>2 DEF TableInv
  <1>17. QED
    BY <1>1, <1>2, <1>3, <1>4, <1>5, <1>6, <1>7, <1>8, <1>9, <1>10, <1>11, <1>12, <1>13, <1>14,
       <1>15, <1>16 DEF NandPartNext

(* The invariant holds in every state of every run of nandpart.            *)
THEOREM TableInvariant == NandPartSpec => []TableInv
  BY TableInit, TableStep, PTL DEF NandPartSpec

(* nandpart_modifyPart never moves a partition over the data of another    *)
(* one, whatever was asked and wherever the tool stops.                    *)
THEOREM DataStaysDisjoint == NandPartSpec => []DataDisjoint
  <1>1. TableInv => DataDisjoint
    BY DEF TableInv
  <1>2. QED
    BY <1>1, TableInvariant, PTL

(* As nandpart_writePtable follows each change, at most one entry of the   *)
(* table on the device is not where the data is, at every moment.          *)
THEOREM AtMostOneStale == NandPartSpec => []OneStaleEntry
  <1> DEFINE S == {i \in DOMAIN npDevice : npDevice[i].name \in DOMAIN npPlace
                                             /\ npPlace[npDevice[i].name] # Area(npDevice[i])}
  <1>1. ASSUME TableInv PROVE OneStaleEntry
    <2>1. \E k \in Nat : S \subseteq {k}
      <3>1. CASE npPending
        <4>1. PICK k \in Nat : \A i \in DOMAIN npDevice \ {k} : InPlace(npDevice, i)
          BY <1>1, <3>1 DEF TableInv, ChangePending
        <4>2. S \subseteq {k}
          BY <4>1 DEF InPlace
        <4>3. QED
          BY <4>2
      <3>2. CASE ~npPending
        <4>1. S = {}
          BY <1>1, <3>2 DEF TableInv, UpToDate, Matches, InPlace
        <4>2. QED
          BY <4>1
      <3>3. QED
        BY <3>1, <3>2
    <2>2. PICK k \in Nat : S \subseteq {k}
      BY <2>1
    <2> HIDE DEF S
    <2>3. IsFiniteSet({k}) /\ Cardinality({k}) = 1
      BY FS_Singleton
    <2>4. Cardinality(S) <= 1
      BY <2>2, <2>3, FS_Subset
    <2>5. QED
      BY <2>4 DEF OneStaleEntry, S
  <1>2. QED
    BY <1>1, TableInvariant, PTL

-----------------------------------------------------------------------------
(* When only modifications are asked for, the table in memory has, for     *)
(* each of them, either the old entry and the modification is still on the *)
(* list, or the new entry.                                                 *)
Halfway(t, ms) ==
  /\ npTable \in Seq(Part) /\ DOMAIN npTable = DOMAIN t
  /\ \A i \in DOMAIN t : npTable[i].name = t[i].name
  /\ \A i \in DOMAIN t : t[i].name \in Names(npMod) \/ t[i].name \notin Names(ms) => npTable[i] = t[i]
  /\ \A m \in DOMAIN ms : \/ ms[m] \in Elements(npMod)
                          \/ \A i \in DOMAIN t : t[i].name = ms[m].name => npTable[i] = ms[m]

StuckInv ==
  OnlyMods(npReq) =>
    /\ npPhase = "read" => npDevice = npReq.table /\ npRem = <<>> /\ npMod = npReq.mod
    /\ npPhase \in {"check", "remove", "modify", "stuck"} =>
         /\ npRem = <<>>
         /\ Halfway(npReq.table, npReq.mod)
         /\ \A j \in DOMAIN npMod : npMod[j] \in Elements(npReq.mod)
         /\ \A j, k \in DOMAIN npMod : npMod[j].name = npMod[k].name => j = k
    /\ npPhase = "stuck" => npMod # <<>> /\ \A j \in DOMAIN npMod : ~verifyPart(npTable, npMod[j])

(* What Changed has at i: the entry that is there, or the new one.         *)
LEMMA ChangedFact ==
  ASSUME NEW t \in Seq(Part), NEW u \in Seq(Part), NEW i \in DOMAIN t
  PROVE  /\ (\A j \in DOMAIN u : u[j].name # t[i].name) => Changed(t, u)[i] = t[i]
         /\ \A j \in DOMAIN u :
              /\ u[j].name = t[i].name
              /\ \A k \in DOMAIN u : u[k].name = t[i].name => u[k] = u[j]
              => Changed(t, u)[i] = u[j]
  <1>1. Changed(t, u)[i] = IF t[i].name \in Names(u) THEN u[findPart(u, t[i].name)] ELSE t[i]
    BY DEF Changed
  <1>2. t[i].name \in Names(u) => findPart(u, t[i].name) \in DOMAIN u
                                   /\ u[findPart(u, t[i].name)].name = t[i].name
    BY FindFact
  <1>3. QED
    BY <1>1, <1>2 DEF Names

(* Whether two parts overlap does not depend on which is named first.      *)
LEMMA OverlapSymmetric ==
  ASSUME NEW p \in Part, NEW q \in Part,
         ~(p.offset <= q.offset + q.size - 1 /\ p.offset + p.size - 1 >= q.offset)
  PROVE  ~(q.offset <= p.offset + p.size - 1 /\ q.offset + q.size - 1 >= p.offset)
  <1>1. p.offset \in Nat /\ p.size \in Nat /\ q.offset \in Nat /\ q.size \in Nat
    BY DEF Part
  <1>2. QED
    BY <1>1

(* If there is an order f in which the modifications can be made, then the *)
(* first one in f that is still on the list can be made now: those made    *)
(* before it in f have been made, and of the others that have been made    *)
(* each was found, in f, to leave room for it.                             *)
LEMMA NextIsPossible ==
  ASSUME NEW t \in Seq(Part), NEW ms \in Seq(Part), Halfway(t, ms), npMod \in Seq(Part), npMod # <<>>,
         \A i, j \in DOMAIN ms : ms[i].name = ms[j].name => i = j,
         \A j \in DOMAIN npMod : npMod[j] \in Elements(ms),
         NEW f \in Orders(Len(ms)), Possible(t, ms, f)
  PROVE  \E j \in DOMAIN npMod : verifyPart(npTable, npMod[j])
  <1> DEFINE n == Len(ms)
             D == {m \in 1 .. n : ms[m] \in Elements(npMod)}
             K == {k \in 1 .. n : f[k] \in D}
             upto(k) == [j \in 1 .. k - 1 |-> ms[f[j]]]
  <1>1. /\ n \in Nat /\ DOMAIN ms = 1 .. n /\ f \in [1 .. n -> 1 .. n]
        /\ \A i \in 1 .. n : \E j \in 1 .. n : f[j] = i
    BY DEF Orders
  <1>2. K \subseteq Nat /\ K # {}
    <2>1. 1 \in DOMAIN npMod
      OBVIOUS
    <2>2. PICK m \in DOMAIN ms : npMod[1] = ms[m]
      BY <2>1 DEF Elements
    <2>3. m \in D
      BY <1>1, <2>1, <2>2 DEF Elements
    <2>4. QED
      BY <1>1, <2>3
  <1>3. /\ \A m : m \in D <=> m \in 1 .. n /\ \E j \in DOMAIN npMod : npMod[j] = ms[m]
        /\ \A x : x \in K <=> x \in 1 .. n /\ f[x] \in D
    BY DEF Elements
  <1>4. /\ \A m \in 1 .. n : ms[m] \in Part
         /\ \A a, b \in 1 .. n : ms[a].name = ms[b].name => a = b
    <2> HIDE DEF n, D, K
    <2>1. \A m \in DOMAIN ms : ms[m] \in Part
      OBVIOUS
    <2>2. QED
      BY <1>1, <2>1
  <1>5. \A y \in 1 .. n : f[y] \in 1 .. n
    BY <1>1
  <1> HIDE DEF n, D, K
  <1>6. PICK k \in K : \A l \in K : k <= l
    <2>1. Min(K) \in K /\ \A l \in K : Min(K) <= l
      BY <1>2, MinFact
    <2>2. QED
      BY <2>1
  <1> DEFINE q == ms[f[k]]
  <1>7. k \in 1 .. n /\ f[k] \in 1 .. n /\ f[k] \in D /\ q \in Part
    BY <1>3, <1>1, <1>6
  <1>8. PICK j \in DOMAIN npMod : npMod[j] = q
    BY <1>3, <1>7
  <1>9. ASSUME NEW x \in 1 .. n
        PROVE  /\ ms[f[x]].name \in Names(t) /\ verifyPart(Changed(t, upto(x)), ms[f[x]])
               /\ upto(x) \in Seq(Part) /\ DOMAIN upto(x) = 1 .. x - 1
               /\ \A y \in 1 .. x - 1 : upto(x)[y] = ms[f[y]] /\ y \in 1 .. n /\ f[y] \in 1 .. n
    <2>1. ms[f[x]].name \in Names(t) /\ verifyPart(Changed(t, upto(x)), ms[f[x]])
      BY <1>1 DEF Possible
    <2>2. x - 1 \in Nat /\ \A y \in 1 .. x - 1 : y \in 1 .. n
      <3>1. n \in Nat
        BY <1>1
      <3>2. QED
        BY ONLY <3>1, x \in 1 .. n
    <2>3. \A y \in 1 .. n : f[y] \in 1 .. n /\ ms[f[y]] \in Part
      BY ONLY <1>4, <1>5
    <2>4. upto(x) \in Seq(Part)
      BY <2>2, <2>3
    <2>5. QED
      BY <2>1, <2>2, <2>3, <2>4
  <1> HIDE DEF upto, q
  <1>10. ASSUME NEW x \in 1 .. n, NEW y \in 1 .. n, y < x
         PROVE  y \in DOMAIN upto(x) /\ upto(x)[y] = ms[f[y]]
    <2>1. n \in Nat /\ DOMAIN upto(x) = 1 .. x - 1
      BY <1>1, <1>9
    <2>2. y \in 1 .. x - 1
      BY ONLY <2>1, <1>10, x \in 1 .. n, y \in 1 .. n
    <2>3. QED
      BY <1>9, <2>1, <2>2
  <1>11. ASSUME NEW x \in 1 .. n, NEW y \in DOMAIN upto(x)
         PROVE  y \in 1 .. n /\ y < x /\ f[y] \in 1 .. n /\ upto(x)[y] = ms[f[y]]
    <2>1. n \in Nat /\ y \in 1 .. x - 1
      BY <1>1, <1>9
    <2>2. y < x
      BY ONLY <2>1, x \in 1 .. n
    <2>3. QED
      BY <1>9, <2>1, <2>2
  <1>12. /\ q.size # 0 /\ q.offset + q.size <= NBLOCKS
        /\ DOMAIN Changed(t, upto(k)) = DOMAIN t
    BY <1>7, <1>9 DEF verifyPart, Changed, q
  <1>13. ASSUME NEW i \in DOMAIN t, t[i].name # q.name
        PROVE  ~(/\ q.offset <= npTable[i].offset + npTable[i].size - 1
                 /\ q.offset + q.size - 1 >= npTable[i].offset)
    <2> DEFINE c == Changed(t, upto(k))[i]
    <2>1. c.name = q.name \/ ~(/\ q.offset <= c.offset + c.size - 1
                               /\ q.offset + q.size - 1 >= c.offset)
      BY <1>7, <1>9, <1>12 DEF verifyPart, q
    <2> HIDE DEF c
    <2>2. SUFFICES ASSUME npTable[i] # c PROVE ~(/\ q.offset <= npTable[i].offset + npTable[i].size - 1
                                                 /\ q.offset + q.size - 1 >= npTable[i].offset)
      BY <2>1, <1>13 DEF Halfway
    <2>3. PICK m \in 1 .. n : t[i].name = ms[m].name /\ m \notin D
      <3>1. SUFFICES ASSUME t[i].name \in Names(npMod) \/ t[i].name \notin Names(ms) PROVE FALSE
        <4>1. ASSUME t[i].name \notin Names(npMod), t[i].name \in Names(ms)
              PROVE  \E m \in 1 .. n : t[i].name = ms[m].name /\ m \notin D
          <5>1. PICK m \in 1 .. n : t[i].name = ms[m].name
            BY <1>1, <4>1 DEF Names
          <5>2. m \notin D
            BY <1>3, <4>1, <5>1 DEF Names
          <5>3. QED
            BY <5>1, <5>2
        <4>2. QED
          BY <3>1, <4>1
      <3>2. npTable[i] = t[i]
        BY <3>1 DEF Halfway
      <3>3. ASSUME NEW y \in DOMAIN upto(k), upto(k)[y].name = t[i].name PROVE FALSE
        <4>1. y \in 1 .. n /\ y < k /\ f[y] \in 1 .. n /\ ms[f[y]].name = t[i].name
          BY <1>7, <1>11, <3>3
        <4>2. t[i].name \in Names(npMod)
          <5>1. f[y] \in DOMAIN ms
            BY ONLY <1>1, <4>1
          <5>2. t[i].name \in Names(ms)
            BY ONLY <4>1, <5>1 DEF Names
          <5>3. QED
            BY ONLY <3>1, <5>2
        <4>3. PICK x \in DOMAIN npMod : npMod[x].name = t[i].name
          BY <4>2 DEF Names
        <4>4. PICK m \in DOMAIN ms : npMod[x] = ms[m]
          BY DEF Elements
        <4>5. m = f[y] /\ m \in D
          <5>1. m \in 1 .. n
            BY ONLY <1>1, m \in DOMAIN ms
          <5>2. m = f[y]
            BY ONLY <1>4, <4>1, <4>3, <4>4, <5>1
          <5>3. QED
            BY ONLY <1>3, x \in DOMAIN npMod, <4>4, <5>1, <5>2
        <4>6. y \in K
          BY <1>3, <4>1, <4>5
        <4>7. QED
          BY <1>1, <1>6, <1>7, <4>1, <4>6
      <3>4. c = t[i]
        <4>1. upto(k) \in Seq(Part)
          BY ONLY <1>7, <1>9
        <4>2. QED
          BY ONLY t \in Seq(Part), i \in DOMAIN t, <3>3, <4>1, ChangedFact DEF c
      <3>5. QED
        BY <2>2, <3>2, <3>4
    <2>4. npTable[i] = ms[m] /\ ms[m] \in Part
      <3>1. m \in DOMAIN ms /\ ms[m] \notin Elements(npMod)
        <4>1. m \in DOMAIN ms
          BY ONLY <1>1, <2>3
        <4>2. SUFFICES ASSUME ms[m] \in Elements(npMod) PROVE FALSE
          BY <4>1
        <4>3. PICK x \in DOMAIN npMod : npMod[x] = ms[m]
          BY ONLY <4>2, npMod \in Seq(Part) DEF Elements
        <4>4. QED
          BY ONLY <1>3, <2>3, <4>3
      <3>2. QED
        BY <2>3, <3>1 DEF Halfway
    <2>5. PICK l \in 1 .. n : f[l] = m
      BY <1>1
    <2>6. l # k /\ m # f[k]
      BY <1>7, <2>3, <2>5
    <2>7. ASSUME l < k PROVE FALSE
      <3>1. l \in DOMAIN upto(k) /\ upto(k)[l] = ms[m]
        BY <1>7, <1>10, <2>5, <2>7
      <3>2. ASSUME NEW y \in DOMAIN upto(k), upto(k)[y].name = t[i].name PROVE upto(k)[y] = ms[m]
        <4>1. f[y] \in 1 .. n /\ upto(k)[y] = ms[f[y]]
          BY <1>7, <1>11
        <4>2. f[y] = m
          BY ONLY <1>4, <2>3, <3>2, <4>1, m \in 1 .. n
        <4>3. QED
          BY <4>1, <4>2
      <3>3. upto(k) \in Seq(Part)
        BY <1>7, <1>9
      <3>4. c = ms[m]
        BY <2>3, <3>1, <3>2, <3>3, ChangedFact DEF c
      <3>5. QED
        BY <2>2, <2>4, <3>4
    <2>8. k < l
      <3>1. n \in Nat /\ k \in 1 .. n
        BY <1>1, <1>7
      <3>2. QED
        BY ONLY <3>1, <2>6, <2>7, l \in 1 .. n
    <2>9. PICK h \in DOMAIN t : t[h].name = q.name
      <3>1. q.name \in Names(t)
        BY <1>7, <1>9 DEF q
      <3>2. QED
        BY <3>1 DEF Names
    <2>10. k \in DOMAIN upto(l) /\ upto(l)[k] = q
      BY <1>7, <1>10, <2>8 DEF q
    <2>11. ASSUME NEW y \in DOMAIN upto(l), upto(l)[y].name = t[h].name PROVE upto(l)[y] = q
      <3>1. f[y] \in 1 .. n /\ upto(l)[y] = ms[f[y]] /\ f[k] \in 1 .. n
        BY <1>7, <1>11
      <3>2. f[y] = f[k]
        BY ONLY <1>4, <2>9, <2>11, <3>1 DEF q
      <3>3. QED
        BY <3>1, <3>2 DEF q
    <2>12. Changed(t, upto(l))[h] = q /\ DOMAIN Changed(t, upto(l)) = DOMAIN t
      <3>1. upto(l) \in Seq(Part)
        BY <1>9
      <3>2. Changed(t, upto(l))[h] = q
        BY ONLY t \in Seq(Part), h \in DOMAIN t, <2>9, <2>10, <2>11, <3>1, ChangedFact
      <3>3. QED
        BY <3>2 DEF Changed
    <2>13. verifyPart(Changed(t, upto(l)), ms[m])
      BY <1>9, <2>5
    <2>14. ms[m].name # q.name
      BY <1>13, <2>3
    <2>15. ~(ms[m].offset <= q.offset + q.size - 1 /\ ms[m].offset + ms[m].size - 1 >= q.offset)
      BY <2>12, <2>13, <2>14 DEF verifyPart
    <2>16. QED
      BY <1>7, <2>4, <2>15, OverlapSymmetric
  <1>14. verifyPart(npTable, q)
    BY <1>12, <1>13 DEF verifyPart, Halfway
  <1>15. QED
    BY <1>8, <1>14

(* The tool starts with the table and the list that it was given.          *)
LEMMA StuckInit == NandPartInit => StuckInv
  BY DEF NandPartInit, StuckInv, OnlyMods

(* A step that leaves the table and the lists alone.                       *)
LEMMA StuckKept ==
  ASSUME StuckInv, UNCHANGED <<npReq, npTable, npRem, npMod>>,
         npPhase' # "read" \/ UNCHANGED <<npDevice, npPhase>>,
         npPhase' \in {"check", "remove", "modify", "stuck"} =>
           npPhase \in {"check", "remove", "modify", "stuck"},
         npPhase' = "stuck" => /\ npMod # <<>>
                               /\ \A j \in DOMAIN npMod : ~verifyPart(npTable, npMod[j])
  PROVE  StuckInv'
  <1> SUFFICES ASSUME OnlyMods(npReq) PROVE StuckInv'
    BY DEF StuckInv
  <1>1. Halfway(npReq.table, npReq.mod) => Halfway(npReq.table, npReq.mod)'
    BY DEF Halfway
  <1>2. (\A j \in DOMAIN npMod : ~verifyPart(npTable, npMod[j]))
        => (\A j \in DOMAIN npMod : ~verifyPart(npTable, npMod[j]))'
    OBVIOUS
  <1>3. npPhase' = "read" => npPhase = "read" /\ npDevice' = npDevice
    OBVIOUS
  <1>4. (npPhase = "read" => npDevice = npReq.table /\ npRem = <<>> /\ npMod = npReq.mod)'
    BY <1>3 DEF StuckInv
  <1>5. ASSUME npPhase' \in {"check", "remove", "modify", "stuck"}
        PROVE  /\ npRem' = <<>>
               /\ Halfway(npReq.table, npReq.mod)'
               /\ (\A j \in DOMAIN npMod : npMod[j] \in Elements(npReq.mod))'
               /\ (\A j, k \in DOMAIN npMod : npMod[j].name = npMod[k].name => j = k)'
    BY <1>1, <1>5 DEF StuckInv
  <1>6. QED
    BY <1>2, <1>4, <1>5 DEF StuckInv

(* Reading the table makes it the one the modifications are made to.       *)
LEMMA StuckRead ==
  ASSUME StuckInv, TableInv, readPtable
  PROVE  StuckInv'
  <1> SUFFICES ASSUME OnlyMods(npReq') PROVE StuckInv'
    BY DEF StuckInv
  <1> DEFINE t == npReq.table
             ms == npReq.mod
  <1>1. npReq' = npReq /\ npReq \in Requests /\ OnlyMods(npReq)
    BY DEF readPtable, NpKeep, TableInv, PartTypes
  <1>2. npPhase = "read" /\ npDevice = t /\ npRem = <<>> /\ npMod = ms
    BY <1>1 DEF StuckInv, readPtable
  <1>3. npPhase' = "check" /\ npTable' = t /\ npRem' = <<>> /\ npMod' = ms
    BY <1>1, <1>2 DEF readPtable, OnlyMods
  <1>4. t \in Seq(Part) /\ ms \in Seq(Part)
    BY <1>1, NandPartAssumption
  <1>5. \A m \in DOMAIN ms : ms[m] \in Elements(ms)
    BY <1>4 DEF Elements
  <1>6. \A j, k \in DOMAIN ms : ms[j].name = ms[k].name => j = k
    BY <1>1 DEF OnlyMods
  <1>7. Halfway(t, ms)'
    <2> HIDE DEF t, ms
    <2>1. t' = t /\ ms' = ms
      BY <1>1 DEF t, ms
    <2>2. QED
      BY <2>1, <1>3, <1>4, <1>5 DEF Halfway
  <1>8. QED
    <2> DEFINE A == npRem' = <<>>
               B == \A j \in DOMAIN npMod' : npMod'[j] \in Elements(npReq'.mod)
               C == \A j, k \in DOMAIN npMod' : npMod'[j].name = npMod'[k].name => j = k
    <2>1. A /\ B /\ C
      BY <1>1, <1>3, <1>5, <1>6
    <2>2. QED
      BY <1>3, <1>7, <2>1 DEF StuckInv

(* A modification changes the one entry of its name and goes off the list. *)
LEMMA StuckModify ==
  ASSUME StuckInv, TableInv, modifyPart
  PROVE  StuckInv'
  <1> DEFINE t == npReq.table
             ms == npReq.mod
             p == npMod[NextMod]
             i == findPart(npTable, p.name)
  <1>1. /\ npPhase = "modify" /\ NextMod # 0 /\ npReq' = npReq
        /\ npReq \in Requests /\ npTable \in Seq(Part) /\ npMod \in Seq(Part)
    BY DEF modifyPart, At, NpKeep, NpFail, TableInv, PartTypes
  <1>2. CASE i = 0
    BY <1>2, StuckKept DEF modifyPart, NpFail
  <1>3. CASE i # 0
    <2> SUFFICES ASSUME OnlyMods(npReq) PROVE StuckInv'
      BY <1>1 DEF StuckInv
    <2>1. NextMod \in 1 .. Len(npMod)
      <3> DEFINE I == {k \in 1 .. Len(npMod) : verifyPart(npTable, npMod[k])}
      <3>1. NextMod = IF I # {} THEN Min(I) ELSE 0
        BY DEF NextMod, SelectInSeq
      <3>2. I \subseteq Nat /\ I # {}
        BY <1>1, <3>1
      <3>3. Min(I) \in I
        BY <3>2, MinFact
      <3>4. QED
        BY <3>1, <3>2, <3>3
    <2>2. /\ npMod' = RemoveAt(npMod, NextMod) /\ npTable' = [npTable EXCEPT ![i] = p]
          /\ npRem' = npRem /\ npPhase' = "modify"
      BY <1>1, <1>3 DEF modifyPart
    <2>3. i \in DOMAIN npTable /\ npTable[i].name = p.name /\ p \in Part
      BY <1>1, <1>3, <2>1, FindFact
    <2> DEFINE x == NextMod
    <2> HIDE DEF p, i, x, t, ms
    <2>4. x \in DOMAIN npMod /\ npMod[x] = p
      BY <1>1, <2>1 DEF x, p
    <2>5. /\ npRem = <<>> /\ Halfway(t, ms)
          /\ \A j \in DOMAIN npMod : npMod[j] \in Elements(ms)
          /\ \A j, k \in DOMAIN npMod : npMod[j].name = npMod[k].name => j = k
      BY <1>1 DEF StuckInv, t, ms
    <2>6. /\ npMod' \in Seq(Part)
          /\ \A j \in DOMAIN npMod' : \E k \in DOMAIN npMod \ {x} : npMod'[j] = npMod[k]
          /\ \A k \in DOMAIN npMod \ {x} : \E j \in DOMAIN npMod' : npMod'[j] = npMod[k]
          /\ \A j, k \in DOMAIN npMod' : npMod'[j].name = npMod'[k].name => j = k
      <3> DEFINE n == Len(npMod)
      <3>1. /\ n \in Nat /\ DOMAIN npMod = 1 .. n /\ x \in 1 .. n
            /\ npMod' \in Seq(Part) /\ Len(npMod') = n - 1
            /\ \A j \in 1 .. n - 1 : npMod'[j] = IF j < x THEN npMod[j] ELSE npMod[j + 1]
        <4> DEFINE u == RemoveAt(npMod, x)
        <4>1. npMod' = u /\ x \in 1 .. n /\ n \in Nat /\ DOMAIN npMod = 1 .. n
          BY <1>1, <2>1, <2>2 DEF x
        <4>2. /\ u \in Seq(Part) /\ Len(u) = n - 1
              /\ \A j \in 1 .. n - 1 : u[j] = IF j < x THEN npMod[j] ELSE npMod[j + 1]
          BY <1>1, <4>1, RemoveAtFact
        <4> HIDE DEF u
        <4>3. QED
          BY <4>1, <4>2
      <3>2. DOMAIN npMod' = 1 .. n - 1
        BY <3>1
      <3> DEFINE g(j) == IF j < x THEN j ELSE j + 1
      <3> HIDE DEF n
      <3>3. ASSUME NEW j \in 1 .. n - 1
            PROVE  g(j) \in 1 .. n /\ g(j) # x /\ npMod'[j] = npMod[g(j)]
        <4>1. g(j) \in 1 .. n /\ g(j) # x
          BY <3>1
        <4>2. QED
          BY <4>1, <3>1
      <3>4. ASSUME NEW k \in 1 .. n, k # x PROVE \E j \in 1 .. n - 1 : g(j) = k
        <4>1. CASE k < x
          BY <3>1, <4>1
        <4>2. CASE k > x
          <5>1. k - 1 \in 1 .. n - 1 /\ g(k - 1) = k
            BY <3>1, <4>2
          <5>2. QED
            BY <5>1
        <4>3. QED
          BY <3>1, <3>4, <4>1, <4>2
      <3>5. ASSUME NEW j \in 1 .. n - 1, NEW k \in 1 .. n - 1, g(j) = g(k) PROVE j = k
        BY <3>1, <3>5
      <3> HIDE DEF g
      <3>6. \A j \in DOMAIN npMod' : \E k \in DOMAIN npMod \ {x} : npMod'[j] = npMod[k]
        BY <3>1, <3>2, <3>3
      <3>7. \A k \in DOMAIN npMod \ {x} : \E j \in DOMAIN npMod' : npMod'[j] = npMod[k]
        BY <3>1, <3>2, <3>3, <3>4
      <3>8. ASSUME NEW j \in 1 .. n - 1, NEW k \in 1 .. n - 1, npMod'[j].name = npMod'[k].name
            PROVE  j = k
        <4>1. g(j) \in DOMAIN npMod /\ g(k) \in DOMAIN npMod /\ npMod[g(j)].name = npMod[g(k)].name
          BY <3>1, <3>3, <3>8
        <4>2. g(j) = g(k)
          BY <2>5, <4>1
        <4>3. QED
          BY <3>5, <4>2
      <3>9. QED
        BY <3>1, <3>2, <3>6, <3>7, <3>8
    <2>7. /\ npTable' \in Seq(Part) /\ DOMAIN npTable' = DOMAIN npTable /\ npTable'[i] = p
          /\ \A k \in DOMAIN npTable \ {i} : npTable'[k] = npTable[k]
      BY <1>1, <2>2, <2>3
    <2>8. \A k \in DOMAIN t \ {i} : t[k].name # p.name
      <3>1. Valid(t)
        BY <1>1, NandPartAssumption DEF t
      <3>2. i \in DOMAIN t /\ t[i].name = p.name
        BY <2>3, <2>5 DEF Halfway
      <3>3. QED
        BY <3>1, <3>2 DEF Valid
    <2>9. \A j \in DOMAIN npMod' : npMod'[j] \in Elements(ms)
      BY <2>5, <2>6
    <2>10. ASSUME NEW k \in DOMAIN t
           PROVE  /\ npTable'[k].name = t[k].name
                  /\ t[k].name \in Names(npMod') \/ t[k].name \notin Names(ms) => npTable'[k] = t[k]
      <3>1. npTable'[k].name = t[k].name
        <4>1. k \in DOMAIN npTable /\ npTable[k].name = t[k].name
          BY <2>5 DEF Halfway
        <4>2. QED
          BY <2>3, <2>7, <4>1
      <3>2. ASSUME t[k].name \in Names(npMod') \/ t[k].name \notin Names(ms) PROVE npTable'[k] = t[k]
        <4>1. p \in Elements(ms)
          BY <2>4, <2>5
        <4>2. p.name \in Names(ms)
          <5>1. ms \in Seq(Part)
            BY <1>1, NandPartAssumption DEF ms
          <5>2. QED
            BY <4>1, <5>1 DEF Elements, Names
        <4>3. p.name \notin Names(npMod')
          BY <2>4, <2>5, <2>6 DEF Names
        <4>4. k # i
          BY <2>3, <2>5, <3>2, <4>2, <4>3 DEF Halfway
        <4>5. t[k].name \in Names(npMod) \/ t[k].name \notin Names(ms)
          BY <2>6, <3>2 DEF Names
        <4>6. QED
          BY <2>5, <2>7, <4>4, <4>5 DEF Halfway
      <3>3. QED
        BY <3>1, <3>2
    <2>11. ASSUME NEW m \in DOMAIN ms, ms[m] \notin Elements(npMod'),
                  NEW k \in DOMAIN t, t[k].name = ms[m].name
           PROVE  npTable'[k] = ms[m]
      <3>1. CASE ms[m] = p
        BY <2>7, <2>8, <2>11, <3>1
      <3>2. CASE ms[m] # p
        <4>1. ms[m] \notin Elements(npMod)
          <5>1. ASSUME NEW j \in DOMAIN npMod, npMod[j] = ms[m] PROVE FALSE
            <6>1. j # x
              BY <2>4, <3>2, <5>1
            <6>2. PICK y \in DOMAIN npMod' : npMod'[y] = npMod[j]
              BY <2>6, <6>1
            <6>3. QED
              BY <2>6, <2>11, <5>1, <6>2 DEF Elements
          <5>2. QED
            BY <1>1, <5>1 DEF Elements
        <4>2. npTable[k] = ms[m]
          BY <2>5, <2>11, <4>1 DEF Halfway
        <4>3. t[k].name # p.name
          <5>1. p \in Elements(ms) /\ ms \in Seq(Part)
            BY <1>1, <2>4, <2>5, NandPartAssumption DEF ms
          <5>2. PICK j \in DOMAIN ms : ms[j] = p
            BY <5>1 DEF Elements
          <5>3. QED
            BY <2>11, <3>2, <5>2 DEF OnlyMods, ms
        <4>4. k # i
          BY <2>3, <2>5, <4>3 DEF Halfway
        <4>5. QED
          BY <2>5, <2>7, <4>2, <4>4 DEF Halfway
      <3>3. QED
        BY <3>1, <3>2
    <2>12. t' = t /\ ms' = ms
      BY <1>1 DEF t, ms
    <2>13. Halfway(t, ms)'
      BY <2>5, <2>7, <2>10, <2>11, <2>12 DEF Halfway
    <2>14. QED
      BY <1>1, <2>2, <2>5, <2>6, <2>9, <2>13 DEF StuckInv, t, ms
  <1>4. QED
    BY <1>2, <1>3

(* Every step keeps the invariant.                                         *)
LEMMA StuckStep == TableInv /\ StuckInv /\ [NandPartNext]_npVars => StuckInv'
  <1> SUFFICES ASSUME TableInv, StuckInv, [NandPartNext]_npVars PROVE StuckInv'
    OBVIOUS
  <1>1. CASE readPtable
    BY <1>1, StuckRead
  <1>2. CASE readFails
    BY <1>2, StuckKept DEF readFails, NpFail
  <1>3. CASE checkCounts
    BY <1>3, StuckKept DEF checkCounts, NpKeep
  <1>4. CASE removePart
    <2>1. CASE findPart(npTable, Head(npRem).name) = 0
      BY <1>4, <2>1, StuckKept DEF removePart, NpFail
    <2>2. CASE findPart(npTable, Head(npRem).name) # 0
      <3>1. npReq' = npReq /\ npPhase = "remove" /\ npPhase' = "remove" /\ npRem # <<>>
        BY <1>4, <2>2 DEF removePart, At, NpKeep
      <3>2. ~OnlyMods(npReq)
        BY <3>1 DEF StuckInv
      <3>3. QED
        BY <3>1, <3>2 DEF StuckInv
    <2>3. QED
      BY <2>1, <2>2
  <1>5. CASE removed
    BY <1>5, StuckKept DEF removed, At, NpKeep
  <1>6. CASE noMod
    <2>1. npMod # <<>> /\ \A j \in DOMAIN npMod : ~verifyPart(npTable, npMod[j])
      <3> DEFINE I == {k \in 1 .. Len(npMod) : verifyPart(npTable, npMod[k])}
      <3>1. NextMod = IF I # {} THEN Min(I) ELSE 0
        BY DEF NextMod, SelectInSeq
      <3>2. NextMod = 0 /\ npMod # <<>> /\ npMod \in Seq(Part)
        BY <1>6 DEF noMod, TableInv, PartTypes
      <3>3. I = {}
        <4>1. ASSUME I # {} PROVE FALSE
          <5>1. I \subseteq Nat /\ 0 \notin I
            BY <3>2
          <5>2. Min(I) \in I
            BY <4>1, <5>1, MinFact
          <5>3. QED
            BY <3>1, <3>2, <4>1, <5>1, <5>2
        <4>2. QED
          BY <4>1
      <3>4. QED
        BY <3>2, <3>3
    <2>2. QED
      BY <1>6, <2>1, StuckKept DEF noMod, NpFail, At
  <1>7. CASE modifyPart
    BY <1>7, StuckModify
  <1>8. CASE moveFails
    BY <1>8, StuckKept DEF moveFails, NpFail
  <1>9. CASE modified
    BY <1>9, StuckKept DEF modified, At, NpKeep
  <1>10. CASE addPart
    BY <1>10 DEF addPart, At, NpKeep, StuckInv
  <1>11. CASE addNothing
    BY <1>11, StuckKept DEF addNothing, NpFail
  <1>12. CASE added
    BY <1>12, StuckKept DEF added, At, NpKeep
  <1>13. CASE writePtable
    <2>1. npPhase # "read" /\ UNCHANGED <<npReq, npTable, npRem, npMod, npPhase>>
      BY <1>13 DEF writePtable, NpKeep, TableInv, UpToDate
    <2>2. npPhase = "stuck" /\ OnlyMods(npReq) =>
            npMod # <<>> /\ \A j \in DOMAIN npMod : ~verifyPart(npTable, npMod[j])
      BY DEF StuckInv
    <2>3. CASE OnlyMods(npReq)
      BY <2>1, <2>2, <2>3, StuckKept
    <2>4. CASE ~OnlyMods(npReq)
      BY <2>1, <2>4 DEF StuckInv
    <2>5. QED
      BY <2>3, <2>4
  <1>14. CASE writeFails
    BY <1>14, StuckKept DEF writeFails, NpFail
  <1>15. CASE save
    BY <1>15, StuckKept DEF save, NpKeep
  <1>16. CASE npOver \/ UNCHANGED npVars
    <2>1. UNCHANGED <<npReq, npDevice, npTable, npRem, npMod, npPhase>>
      BY <1>16 DEF npOver, npVars
    <2>2. CASE OnlyMods(npReq)
      BY <2>1, <2>2, StuckKept DEF StuckInv
    <2>3. CASE ~OnlyMods(npReq)
      BY <2>1, <2>3 DEF StuckInv
    <2>4. QED
      BY <2>2, <2>3
  <1>17. QED
    BY <1>1, <1>2, <1>3, <1>4, <1>5, <1>6, <1>7, <1>8, <1>9, <1>10, <1>11, <1>12, <1>13, <1>14,
       <1>15, <1>16 DEF NandPartNext

(* The order that nandpart_run makes the modifications in, always the      *)
(* first one that nandpart_verifyPart accepts, loses nothing: when it      *)
(* gives up there is no order in which all of them could have been made,   *)
(* however many partitions and modifications there are.                    *)
THEOREM GivesUpOnlyIfItMust == NandPartSpec => []StuckOnlyIfImpossible
  <1>1. ASSUME TableInv, StuckInv PROVE StuckOnlyIfImpossible
    <2> SUFFICES ASSUME npPhase = "stuck", OnlyMods(npReq), NEW f \in Orders(Len(npReq.mod)),
                        Possible(npReq.table, npReq.mod, f)
                 PROVE  FALSE
      BY DEF StuckOnlyIfImpossible
    <2>1. npReq.table \in Seq(Part) /\ npReq.mod \in Seq(Part) /\ npMod \in Seq(Part)
      BY <1>1, NandPartAssumption DEF TableInv, PartTypes
    <2>2. /\ Halfway(npReq.table, npReq.mod) /\ npMod # <<>>
          /\ \A j \in DOMAIN npMod : npMod[j] \in Elements(npReq.mod)
          /\ \A j \in DOMAIN npMod : ~verifyPart(npTable, npMod[j])
      BY <1>1 DEF StuckInv
    <2>3. \A i, j \in DOMAIN npReq.mod : npReq.mod[i].name = npReq.mod[j].name => i = j
      BY DEF OnlyMods
    <2>4. \E j \in DOMAIN npMod : verifyPart(npTable, npMod[j])
      BY <2>1, <2>2, <2>3, NextIsPossible
    <2>5. QED
      BY <2>2, <2>4
  <1>2. NandPartSpec => []StuckInv
    BY TableInvariant, StuckInit, StuckStep, PTL DEF NandPartSpec
  <1>3. QED
    BY <1>1, <1>2, TableInvariant, PTL

-----------------------------------------------------------------------------
(* meterfs-migrate.  Both copies of the header are there, and oldno is the *)
(* number of the newer one once it has been read.                          *)
HeaderTypes ==
  /\ Len(files) \in Nat /\ oldno \in Int
  /\ DOMAIN hdr = 0 .. 1
  /\ \A h \in 0 .. 1 : /\ hdr[h] = [no |-> hdr[h].no, magic |-> hdr[h].magic, files |-> hdr[h].files]
                       /\ hdr[h].no \in Int

(* The first copy is converted before the second, to the highest number.   *)
HeaderOrder ==
  /\ phase = "start" => /\ todo = <<>>
                        /\ \A h \in 0 .. 1 : hdr[h].magic = "old" /\ Len(hdr[h].files) \in Nat
  /\ phase # "start" => hdr[0].no <= oldno /\ hdr[1].no <= oldno
  /\ hdr[1].magic = "new" => hdr[0].magic = "new"
  /\ hdr[0].magic = "new" => hdr[0].no = oldno
  /\ phase = "header" => \E d \in Nat : /\ todo = [j \in 1 .. Len(HeaderOps) - d |-> HeaderOps[d + j]]
                                        /\ d > 0 => hdr[0].magic = "new"

HeaderInv == HeaderTypes /\ HeaderOrder

(* The partition is of the old format when the tool starts.                *)
LEMMA HeaderInit == MigInit => HeaderInv
  <1> SUFFICES ASSUME MigInit PROVE HeaderInv
    OBVIOUS
  <1>1. /\ layout \in Layouts /\ oldno = 0 /\ files = <<>> /\ phase = "start" /\ todo = <<>>
        /\ hdr = [h \in 0 .. 1 |-> [no |-> IF h = layout.newer THEN layout.no ELSE layout.other, magic |-> "old",
                                    files |-> Table(layout.files)]]
    BY DEF MigInit
  <1>2. layout.no \in Int /\ layout.other \in Int /\ Len(layout.files) \in Nat
    BY <1>1, MigrateAssumption
  <1>3. Len(Table(layout.files)) \in Nat
    BY <1>2 DEF Table
  <1>4. /\ DOMAIN hdr = 0 .. 1
        /\ \A h \in 0 .. 1 : /\ hdr[h] = [no |-> hdr[h].no, magic |-> hdr[h].magic, files |-> hdr[h].files]
                             /\ hdr[h].no \in Int /\ hdr[h].magic = "old"
                             /\ hdr[h].files = Table(layout.files)
    BY <1>1, <1>2
  <1>5. HeaderTypes
    BY <1>1, <1>4 DEF HeaderTypes
  <1>6. HeaderOrder
    BY <1>1, <1>3, <1>4 DEF HeaderOrder
  <1>7. QED
    BY <1>5, <1>6 DEF HeaderInv

(* Writing one part of a header.                                           *)
LEMMA HeaderWritten ==
  ASSUME HeaderInv, phase = "header", todo # <<>>, hdr' = headerWrite(Head(todo)), todo' = Tail(todo),
         UNCHANGED <<files, oldno, phase>>
  PROVE  HeaderInv'
  <1> DEFINE o == Head(todo)
             n == Len(HeaderOps)
  <1>1. Len(files) \in Nat /\ n \in Nat
    BY DEF HeaderInv, HeaderTypes, HeaderOps
  <1>2. PICK d \in Nat : /\ todo = [j \in 1 .. n - d |-> HeaderOps[d + j]]
                         /\ d > 0 => hdr[0].magic = "new"
    BY DEF HeaderInv, HeaderOrder
  <1>3. n = 2 * (Len(files) + 1) /\ n - d > 0 /\ n - d \in Nat
    <2>1. n = 2 * (Len(files) + 1)
      BY <1>1 DEF HeaderOps
    <2>2. CASE n - d > 0
      BY <2>1, <2>2, <1>1
    <2>3. CASE ~(n - d > 0)
      <3> HIDE DEF n
      <3>1. n - d \in Int /\ n - d <= 0
        BY <2>3, <1>1
      <3>2. 1 .. n - d = {}
        BY <3>1
      <3>3. DOMAIN todo = {}
        BY <1>2, <3>2
      <3>4. todo = <<>>
        BY <1>2, <3>2, <3>3
      <3>5. QED
        BY <3>4
    <2>4. QED
      BY <2>2, <2>3
  <1>4. o = HeaderOps[d + 1] /\ todo' = [j \in 1 .. n - (d + 1) |-> HeaderOps[(d + 1) + j]]
    <2> HIDE DEF n
    <2> DEFINE e(j) == HeaderOps[d + j]
               m == n - d
    <2>1. m \in Nat /\ m > 0 /\ todo = [j \in 1 .. m |-> e(j)]
      BY <1>2, <1>3
    <2> HIDE DEF m, e
    <2>2. /\ Head(todo) = e(1) /\ Tail(todo) = [j \in 1 .. m - 1 |-> e(j + 1)]
      BY <2>1
    <2>3. Tail(todo) = [j \in 1 .. n - (d + 1) |-> HeaderOps[(d + 1) + j]]
      <3>1. m - 1 = n - (d + 1)
        BY <1>1 DEF m
      <3>2. \A j \in 1 .. m - 1 : d + (j + 1) = (d + 1) + j
        BY <1>1, <2>1
      <3>3. QED
        BY <2>2, <3>1, <3>2 DEF e
    <2>4. QED
      BY <2>2, <2>3 DEF e
  <1>5. d = 0 => o.to = 0 /\ o.from = 0
    <2>1. SUFFICES ASSUME d = 0 PROVE o.to = 0 /\ o.from = 0
      OBVIOUS
    <2>2. 1 \in 1 .. 2 * (Len(files) + 1)
      BY <1>1
    <2>3. HeaderOps[1] = [op |-> "header", to |-> (1 - 1) \div (Len(files) + 1), from |-> (1 - 1) % (Len(files) + 1)]
      BY <2>2 DEF HeaderOps
    <2>4. (1 - 1) \div (Len(files) + 1) = 0 /\ (1 - 1) % (Len(files) + 1) = 0
      BY <1>1
    <2>5. QED
      BY <1>4, <2>1, <2>3, <2>4
  <1> HIDE DEF o, n
  <1>6. /\ DOMAIN hdr = 0 .. 1
        /\ \A h \in 0 .. 1 : /\ hdr[h] = [no |-> hdr[h].no, magic |-> hdr[h].magic, files |-> hdr[h].files]
                             /\ hdr[h].no \in Int
        /\ oldno \in Int
    BY DEF HeaderInv, HeaderTypes
  <1>7. hdr' = IF o.from = 0 THEN [hdr EXCEPT ![o.to].magic = "new", ![o.to].no = oldno]
               ELSE [hdr EXCEPT ![o.to].files[o.from] = files[o.from]]
    BY DEF headerWrite, o
  <1>8. /\ DOMAIN hdr' = 0 .. 1
        /\ \A h \in 0 .. 1 :
             /\ hdr'[h] = [no |-> hdr'[h].no, magic |-> hdr'[h].magic, files |-> hdr'[h].files]
             /\ hdr'[h].magic = IF h = o.to /\ o.from = 0 THEN "new" ELSE hdr[h].magic
             /\ hdr'[h].no = IF h = o.to /\ o.from = 0 THEN oldno ELSE hdr[h].no
    <2>1. CASE o.from = 0
      BY <1>6, <1>7, <2>1
    <2>2. CASE o.from # 0
      BY <1>6, <1>7, <2>2
    <2>3. QED
      BY <2>1, <2>2
  <1>9. HeaderTypes'
    <2>1. \A h \in 0 .. 1 : hdr'[h].no \in Int
      BY <1>6, <1>8
    <2>2. QED
      BY <1>1, <1>6, <1>8, <2>1 DEF HeaderTypes
  <1>10. hdr'[0].magic = "new" /\ hdr'[0].no = oldno
    <2>1. hdr[0].magic = "new" => hdr[0].no = oldno
      BY DEF HeaderInv, HeaderOrder
    <2>2. QED
      BY <1>2, <1>5, <1>8, <2>1
  <1>11. hdr'[1].no <= oldno /\ oldno <= oldno
    <2>1. hdr[1].no <= oldno
      BY DEF HeaderInv, HeaderOrder
    <2>2. QED
      BY <1>6, <1>8, <2>1
  <1>12. HeaderOrder'
    <2>1. HeaderOps' = HeaderOps
      BY DEF HeaderOps
    <2>2. \E x \in Nat : /\ todo' = [j \in 1 .. Len(HeaderOps') - x |-> HeaderOps'[x + j]]
                         /\ x > 0 => hdr'[0].magic = "new"
      <3>1. d + 1 \in Nat
        OBVIOUS
      <3>2. todo' = [j \in 1 .. Len(HeaderOps') - (d + 1) |-> HeaderOps'[(d + 1) + j]]
        BY <1>4, <2>1 DEF n
      <3>3. QED
        BY <1>10, <3>1, <3>2
    <2>3. QED
      BY <1>10, <1>11, <2>2 DEF HeaderOrder
  <1>13. QED
    BY <1>9, <1>12 DEF HeaderInv

(* A step that leaves the headers alone and is not the start of their      *)
(* phase.                                                                  *)
LEMMA HeaderKept ==
  ASSUME HeaderInv, UNCHANGED <<hdr, oldno>>, Len(files') \in Nat, phase # "start", phase' # "start",
         phase' = "header" => todo' = HeaderOps'
  PROVE  HeaderInv'
  <1>1. HeaderTypes'
    BY DEF HeaderInv, HeaderTypes
  <1>2. phase' = "header" => \E d \in Nat : /\ todo' = [j \in 1 .. Len(HeaderOps') - d |-> HeaderOps'[d + j]]
                                            /\ d > 0 => hdr'[0].magic = "new"
    <2> SUFFICES ASSUME phase' = "header"
                 PROVE  todo' = [j \in 1 .. Len(HeaderOps') - 0 |-> HeaderOps'[0 + j]]
      <3>1. 0 \in Nat /\ ~(0 > 0)
        OBVIOUS
      <3>2. QED
        BY <3>1
    <2> DEFINE n == 2 * (Len(files') + 1)
               e(k) == [op |-> "header", to |-> (k - 1) \div (Len(files') + 1), from |-> (k - 1) % (Len(files') + 1)]
    <2>1. HeaderOps' = [k \in 1 .. n |-> e(k)] /\ n \in Nat
      BY DEF HeaderOps
    <2> HIDE DEF n, e
    <2>2. Len(HeaderOps') - 0 = n /\ \A j \in 1 .. n : 0 + j = j
      BY <2>1
    <2>3. QED
      BY <2>1, <2>2
  <1>3. QED
    BY <1>1, <1>2 DEF HeaderInv, HeaderOrder

(* Every step of the migration keeps the invariant.                        *)
LEMMA HeaderStep == HeaderInv /\ [MigNext]_migVars => HeaderInv'
  <1> SUFFICES ASSUME HeaderInv, [MigNext]_migVars PROVE HeaderInv'
    OBVIOUS
  <1>1. CASE MigStart
    <2> DEFINE g == getOldHeader
    <2>1. phase = "start" /\ oldno' = g.no /\ hdr' = hdr
      BY <1>1 DEF MigStart
    <2>2. phase' \in {"refused", "done", "shift"} /\ (files' = files \/ files' = g.files)
      BY <1>1 DEF MigStart
    <2>3. /\ hdr[0].no \in Int /\ hdr[1].no \in Int /\ Len(files) \in Nat
          /\ Len(hdr[0].files) \in Nat /\ Len(hdr[1].files) \in Nat
          /\ hdr[0].magic = "old" /\ hdr[1].magic = "old"
      BY <2>1 DEF HeaderInv, HeaderTypes, HeaderOrder
    <2>4. g.no \in Int /\ hdr[0].no <= g.no /\ hdr[1].no <= g.no /\ Len(g.files) \in Nat
      BY <2>3 DEF getOldHeader
    <2> HIDE DEF g
    <2>5. Len(files') \in Nat
      BY <2>2, <2>3, <2>4
    <2>6. HeaderTypes'
      BY <2>1, <2>4, <2>5 DEF HeaderInv, HeaderTypes
    <2>7. HeaderOrder'
      BY <2>1, <2>2, <2>3, <2>4 DEF HeaderOrder
    <2>8. QED
      BY <2>6, <2>7 DEF HeaderInv
  <1>2. CASE MigOp
    <2>1. /\ todo # <<>> /\ hdr' = (IF phase = "header" THEN headerWrite(Head(todo)) ELSE hdr)
          /\ todo' = Tail(todo) /\ UNCHANGED <<files, oldno, phase>>
      BY <1>2 DEF MigOp
    <2>2. CASE phase = "header"
      BY <2>1, <2>2, HeaderWritten
    <2>3. CASE phase # "header"
      <3>1. UNCHANGED <<hdr, files, oldno, phase>>
        BY <2>1, <2>3
      <3>2. HeaderTypes'
        BY <3>1 DEF HeaderInv, HeaderTypes
      <3>3. HeaderOrder'
        BY <2>1, <2>3, <3>1 DEF HeaderInv, HeaderOrder
      <3>4. QED
        BY <3>2, <3>3 DEF HeaderInv
    <2>4. QED
      BY <2>2, <2>3
  <1>3. CASE MigFail
    <2>1. phase' = "failed" /\ UNCHANGED <<hdr, files, oldno>>
      BY <1>3 DEF MigFail
    <2>2. HeaderTypes'
      BY <2>1 DEF HeaderInv, HeaderTypes
    <2>3. CASE phase = "start"
      <3>1. todo # <<>> /\ phase = "start"
        BY <1>3, <2>3 DEF MigFail
      <3>2. QED
        BY <3>1 DEF HeaderInv, HeaderOrder
    <2>4. CASE phase # "start"
      <3>1. HeaderOrder'
        BY <2>1, <2>4 DEF HeaderInv, HeaderOrder
      <3>2. QED
        BY <2>2, <3>1 DEF HeaderInv
    <2>5. QED
      BY <2>3, <2>4
  <1>4. Len(files) \in Nat
    BY DEF HeaderInv, HeaderTypes
  <1>5. CASE MigShifted
    <2>1. Len(files') \in Nat
      BY <1>4, <1>5 DEF MigShifted
    <2>2. QED
      BY <1>5, <2>1, HeaderKept DEF MigShifted, PhaseOver
  <1>6. CASE MigReserved
    BY <1>4, <1>6, HeaderKept DEF MigReserved, PhaseOver
  <1>7. CASE MigGrow
    <2>1. Len(realocated(id)) \in Nat
      BY <1>4 DEF realocated
    <2>2. Len(files') \in Nat
      BY <1>4, <1>7, <2>1 DEF MigGrow
    <2>3. phase' = "header" => todo' = HeaderOps'
      BY <1>7 DEF MigGrow, PhaseOver, HeaderOps
    <2>4. QED
      BY <1>7, <2>2, <2>3, HeaderKept DEF MigGrow, PhaseOver
  <1>8. CASE MigHeaders
    BY <1>4, <1>8, HeaderKept DEF MigHeaders, PhaseOver
  <1>9. CASE MigConvert
    BY <1>4, <1>9, HeaderKept DEF MigConvert, PhaseOver
  <1>10. CASE MigOver \/ UNCHANGED migVars
    <2>1. UNCHANGED <<hdr, files, oldno, phase, todo>>
      BY <1>10 DEF MigOver, migVars
    <2>2. HeaderTypes' /\ HeaderOps' = HeaderOps
      BY <2>1 DEF HeaderInv, HeaderTypes, HeaderOps
    <2>3. HeaderOrder'
      BY <2>1, <2>2 DEF HeaderInv, HeaderOrder
    <2>4. QED
      BY <2>2, <2>3 DEF HeaderInv
  <1>11. QED
    BY <1>1, <1>2, <1>3, <1>5, <1>6, <1>7, <1>8, <1>9, <1>10 DEF MigNext

(* main of meterfs-migrate rewrites the header copies one at a time and    *)
(* may stop after any part of any of them; from the first part on, a tool  *)
(* that is started again finds a converted partition and refuses it.       *)
THEOREM NeverConvertedTwice == MigSpec => []NoSecondConversion
  <1>1. ASSUME HeaderInv PROVE NoSecondConversion
    <2> SUFFICES ASSUME NEW h \in 0 .. 1, hdr[h].magic = "new" PROVE getOldHeader.magic = "new"
      BY DEF NoSecondConversion
    <2>1. hdr[0].magic = "new" /\ hdr[0].no = oldno
      BY <1>1 DEF HeaderInv, HeaderOrder
    <2>2. phase # "start"
      BY <1>1, <2>1 DEF HeaderInv, HeaderOrder
    <2>3. hdr[1].no <= hdr[0].no /\ hdr[0].no \in Int /\ hdr[1].no \in Int
      BY <1>1, <2>1, <2>2 DEF HeaderInv, HeaderOrder, HeaderTypes
    <2>4. QED
      BY <2>1, <2>3 DEF getOldHeader
  <1>2. QED
    BY <1>1, HeaderInit, HeaderStep, PTL DEF MigSpec

-----------------------------------------------------------------------------
(* meterfs-migrate moves the files in place.  While a list of sector       *)
(* copies runs from the top down, a sector of a moved file is where it was *)
(* as long as the copies have not reached it, and d sectors up once they   *)
(* have; N has the sector each file will begin at.                         *)
TableEntry == [sector : Nat, sectorcnt : Nat, records : Nat, recordsz : Nat]
FileNos == 1 .. Len(layout.files)
Used(i) == 0 .. layout.files[i].sectorcnt - 1

Kept(t, i, s) == Holds(t * W, OldSector(i, s))

(* The operations that are left: copies, each of the sector of the copy    *)
(* before it or of the one below, down to lo; then erasures of sectors     *)
(* that no file has.                                                       *)
Down(t, N, d, lo) ==
  \A k \in 1 .. Len(t) :
    \/ /\ t[k].op = "copy" /\ t[k].from \in Nat /\ t[k].to = t[k].from + d /\ t[k].from >= lo
       /\ IF k < Len(t) /\ t[k + 1].op = "copy" THEN t[k + 1].from \in {t[k].from, t[k].from - 1}
          ELSE t[k].from = lo
    \/ /\ t[k].op = "erase" /\ t[k].to \in Nat
       /\ \A i \in FileNos : \A s \in Used(i) : t[k].to # N[i] + s
       /\ k < Len(t) => t[k + 1].op = "erase"

Copying(t) == t # <<>> /\ t[1].op = "copy"

(* The files from m on move up by d, from the sectors from lo on.          *)
Moving(t, N, m, d, lo) ==
  /\ d \in Nat /\ lo \in Nat /\ m \in Nat
  /\ \A i \in FileNos : /\ N[i] \in Nat
                        /\ i >= m => N[i] >= lo + d
                        /\ i < m => \A s \in Used(i) : N[i] + s < lo
  /\ Down(t, N, d, lo)
  /\ \A i \in FileNos : \A s \in Used(i) :
       IF Copying(t) /\ i >= m /\ N[i] - d + s <= t[1].from THEN Kept(N[i] - d + s, i, s)
       ELSE Kept(N[i] + s, i, s)

MigOps == [op : {"copy", "erase", "header"}, to : Int, from : Int]

FilesOk(fs) ==
  /\ fs \in Seq(TableEntry) /\ Len(fs) = Len(layout.files)
  /\ \A i \in FileNos : layout.files[i].sectorcnt <= fs[i].sectorcnt /\ fs[i].sector >= FirstSector
  /\ \A i, j \in FileNos : /\ i < j => fs[i].sector + fs[i].sectorcnt <= fs[j].sector
                           /\ j = i + 1 => fs[i].sector + fs[i].sectorcnt = fs[j].sector

Sectors(fs) == [i \in FileNos |-> fs[i].sector]
Shifted(fs) == [i \in FileNos |-> fs[i].sector + 2]

MoveInv ==
  /\ layout \in Layouts
  /\ phase \in {"start", "shift", "reserve", "grow", "header"} => DOMAIN part = 0 .. NSECT * W - 1
  /\ phase = "start" => /\ part = OldPartition(layout.files) /\ todo = <<>>
                        /\ \A h \in 0 .. 1 : hdr[h].files = Table(layout.files)
  /\ phase \in {"shift", "reserve", "grow", "header"} => FilesOk(files) /\ todo \in Seq(MigOps) /\ Len(files) > 0
  /\ phase = "shift" => files = Table(layout.files) /\ Moving(todo, Shifted(files), 1, 2, FirstSector)
  /\ phase = "reserve" => Moving(todo, Sectors(files), 1, 2, FirstSector)
  /\ phase = "grow" => id \in 0 .. Len(files) /\ \E d, lo \in Nat : Moving(todo, Sectors(files), id + 2, d, lo)
  /\ phase = "header" => /\ \A k \in 1 .. Len(todo) : todo[k].op = "header"
                         /\ \A i \in FileNos : \A s \in Used(i) : Kept(files[i].sector + s, i, s)

-----------------------------------------------------------------------------
(* A word's address gives its sector and its place there.                  *)
LEMMA WordAddress ==
  ASSUME NEW t \in Nat, NEW k \in 1 .. W
  PROVE  /\ t * W \in Nat /\ t * W + k - 1 \in Nat
         /\ Sector(t * W + k - 1) = t /\ (t * W + k - 1) % W = k - 1
  <1> DEFINE b == t * W
             x == b + k - 1
  <1>1. W \in Nat \ {0} /\ b \in Nat
    BY MigrateAssumption
  <1>2. x \in Nat /\ t * W <= x /\ x < t * W + W
    BY <1>1
  <1>3. x \div W = t
    <2> HIDE DEF x
    <2>1. QED
      BY <1>1, <1>2, DivFits
  <1>4. x = W * (x \div W) + (x % W)
    <2> HIDE DEF x
    <2>1. QED
      BY <1>1, <1>2
  <1>5. W * t = b
    BY <1>1
  <1>6. x % W = k - 1
    <2>1. x % W \in Nat
      <3> HIDE DEF x
      <3>1. QED
        BY <1>1, <1>2
    <2> DEFINE r == x % W
    <2> HIDE DEF r, b
    <2>2. b + k - 1 = b + r /\ r \in Nat /\ b \in Nat
      BY <1>1, <1>3, <1>4, <1>5, <2>1 DEF r
    <2>3. QED
      BY <2>2 DEF r
  <1>7. QED
    BY <1>1, <1>2, <1>3, <1>6 DEF Sector

(* A sector of the device is inside it.                                    *)
LEMMA SectorFits ==
  ASSUME NEW t \in Nat, t < NSECT
  PROVE  t * W + W <= NSECT * W
  <1>1. t + 1 <= NSECT /\ W \in Nat /\ NSECT \in Nat
    BY MigrateAssumption
  <1>2. (t + 1) * W <= NSECT * W
    BY <1>1
  <1>3. (t + 1) * W = t * W + W
    BY <1>1
  <1>4. QED
    BY <1>2, <1>3

(* What it means that a sector of an old file is at sector t.              *)
LEMMA KeptFact ==
  ASSUME NEW i, NEW s, NEW t \in Nat
  PROVE  Kept(t, i, s) <=> /\ t * W + W <= NSECT * W
                           /\ \A k \in 1 .. W : part[t * W + k - 1] = OldSector(i, s)[k]
  <1>1. Len(OldSector(i, s)) = W
    BY MigrateAssumption DEF OldSector
  <1>2. QED
    BY <1>1 DEF Kept, Holds

(* The same of the next state.                                             *)
LEMMA KeptThen ==
  ASSUME NEW i, NEW s, NEW t \in Nat
  PROVE  Kept(t, i, s)' <=> /\ t * W + W <= NSECT * W
                            /\ \A k \in 1 .. W : part'[t * W + k - 1] = OldSector(i, s)'[k]
  <1>1. Len(OldSector(i, s)') = W
    BY MigrateAssumption DEF OldSector
  <1>2. QED
    BY <1>1 DEF Kept, Holds

(* The device may change everywhere else.                                  *)
LEMMA KeptElsewhere ==
  ASSUME NEW i, NEW s, NEW t \in Nat, Kept(t, i, s), layout' = layout,
         DOMAIN part = 0 .. NSECT * W - 1,
         \A k \in 1 .. W : t * W + k - 1 \in DOMAIN part => part'[t * W + k - 1] = part[t * W + k - 1]
  PROVE  Kept(t, i, s)'
  <1>1. /\ t * W + W <= NSECT * W
        /\ \A k \in 1 .. W : part[t * W + k - 1] = OldSector(i, s)[k]
    BY KeptFact
  <1>2. OldSector(i, s)' = OldSector(i, s)
    BY DEF OldSector
  <1>3. \A k \in 1 .. W : t * W + k - 1 \in DOMAIN part
    <2> DEFINE b == t * W
               e == NSECT * W
    <2>1. b \in Nat /\ e \in Nat /\ W \in Nat
      BY MigrateAssumption
    <2>2. b + W <= e /\ DOMAIN part = 0 .. e - 1
      BY <1>1
    <2> HIDE DEF b, e
    <2>3. \A k \in 1 .. W : b + k - 1 \in DOMAIN part
      BY ONLY <2>1, <2>2
    <2>4. QED
      BY <2>3 DEF b
  <1>4. \A k \in 1 .. W : part'[t * W + k - 1] = OldSector(i, s)'[k]
    BY <1>1, <1>2, <1>3
  <1>5. (Kept(t, i, s) <=> /\ t * W + W <= NSECT * W
                           /\ \A k \in 1 .. W : part[t * W + k - 1] = OldSector(i, s)[k])'
    BY KeptThen
  <1>6. QED
    BY <1>1, <1>4, <1>5

(* Copying or erasing a sector leaves the others alone.                    *)
LEMMA OthersKept ==
  ASSUME NEW i, NEW s, NEW t \in Nat, Kept(t, i, s), layout' = layout,
         DOMAIN part = 0 .. NSECT * W - 1,
         NEW o, o.to # t, part' = copySector(o) \/ part' = eraseSector(o)
  PROVE  Kept(t, i, s)'
  <1>1. ASSUME NEW k \in 1 .. W, t * W + k - 1 \in DOMAIN part
        PROVE  part'[t * W + k - 1] = part[t * W + k - 1]
    <2> DEFINE a == t * W + k - 1
    <2>1. Sector(a) # o.to /\ a \in DOMAIN part
      BY <1>1, WordAddress
    <2> HIDE DEF a
    <2>2. part'[a] = part[a]
      BY <2>1 DEF copySector, eraseSector
    <2>3. QED
      BY <2>2 DEF a
  <1>2. QED
    BY <1>1, KeptElsewhere

(* A copy of a sector holds what the sector held.                          *)
LEMMA CopyKept ==
  ASSUME NEW i, NEW s, NEW o, o.from \in Nat, o.to \in Nat, o.to < NSECT, Kept(o.from, i, s), layout' = layout,
         DOMAIN part = 0 .. NSECT * W - 1, part' = copySector(o)
  PROVE  Kept(o.to, i, s)'
  <1> DEFINE f == o.from
             t == o.to
  <1>1. \A k \in 1 .. W : part[f * W + k - 1] = OldSector(i, s)[k]
    BY KeptFact
  <1>2. OldSector(i, s)' = OldSector(i, s)
    BY DEF OldSector
  <1>3. t * W + W <= NSECT * W
    BY SectorFits
  <1>4. ASSUME NEW k \in 1 .. W PROVE part'[t * W + k - 1] = OldSector(i, s)'[k]
    <2> DEFINE a == t * W + k - 1
    <2>1. Sector(a) = t /\ a % W = k - 1 /\ t * W \in Nat
      BY WordAddress
    <2>2. a \in DOMAIN part
      <3> DEFINE b == t * W
                 e == NSECT * W
      <3>1. b \in Nat /\ e \in Nat /\ W \in Nat /\ b + W <= e /\ DOMAIN part = 0 .. e - 1
        BY <1>3, <2>1, MigrateAssumption
      <3> HIDE DEF b, e
      <3>2. b + k - 1 \in DOMAIN part
        BY ONLY <3>1, k \in 1 .. W
      <3>3. QED
        BY <3>2 DEF b
    <2> HIDE DEF a
    <2>3. part'[a] = part[(f * W) + (a % W)]
      BY <2>1, <2>2 DEF copySector
    <2>4. (f * W) + (k - 1) = f * W + k - 1
      <3>1. f * W \in Nat
        BY MigrateAssumption
      <3>2. QED
        BY <3>1
    <2>5. QED
      BY <1>1, <1>2, <2>1, <2>3, <2>4 DEF a
  <1>5. (Kept(t, i, s) <=> /\ t * W + W <= NSECT * W
                           /\ \A k \in 1 .. W : part[t * W + k - 1] = OldSector(i, s)[k])'
    BY KeptThen
  <1>6. QED
    BY <1>3, <1>4, <1>5

(* The rest of a list of operations is such a list.                        *)
LEMMA DownTail ==
  ASSUME NEW t \in Seq(MigOps), t # <<>>, NEW N, NEW d, NEW lo, Down(t, N, d, lo)
  PROVE  Down(Tail(t), N, d, lo)
  <1>1. /\ Len(t) \in Nat /\ Len(t) > 0 /\ Len(Tail(t)) = Len(t) - 1
        /\ \A k \in 1 .. Len(t) - 1 : Tail(t)[k] = t[k + 1]
    OBVIOUS
  <1> DEFINE u == Tail(t)
             n == Len(t)
  <1> HIDE DEF u, n
  <1>2. n \in Nat /\ n > 0 /\ Len(u) = n - 1 /\ \A k \in 1 .. n - 1 : u[k] = t[k + 1]
    BY <1>1 DEF u, n
  <1> SUFFICES ASSUME NEW k \in 1 .. n - 1
               PROVE  \/ /\ u[k].op = "copy" /\ u[k].from \in Nat /\ u[k].to = u[k].from + d /\ u[k].from >= lo
                         /\ IF k < n - 1 /\ u[k + 1].op = "copy" THEN u[k + 1].from \in {u[k].from, u[k].from - 1}
                            ELSE u[k].from = lo
                      \/ /\ u[k].op = "erase" /\ u[k].to \in Nat
                         /\ \A i \in FileNos : \A s \in Used(i) : u[k].to # N[i] + s
                         /\ k < n - 1 => u[k + 1].op = "erase"
    BY <1>2 DEF Down, u
  <1> DEFINE j == k + 1
  <1>3. j \in 1 .. n /\ u[k] = t[j] /\ (k < n - 1 <=> j < n) /\ (j < n => u[k + 1] = t[j + 1])
    BY <1>2
  <1>4. \/ /\ t[j].op = "copy" /\ t[j].from \in Nat /\ t[j].to = t[j].from + d /\ t[j].from >= lo
           /\ IF j < n /\ t[j + 1].op = "copy" THEN t[j + 1].from \in {t[j].from, t[j].from - 1}
              ELSE t[j].from = lo
        \/ /\ t[j].op = "erase" /\ t[j].to \in Nat
           /\ \A i \in FileNos : \A s \in Used(i) : t[j].to # N[i] + s
           /\ j < n => t[j + 1].op = "erase"
    BY <1>3 DEF Down, n
  <1> HIDE DEF j
  <1>5. QED
    BY <1>3, <1>4

(* The operation at the head of the list, and what is left.                *)
LEMMA DownHead ==
  ASSUME NEW t \in Seq(MigOps), t # <<>>, NEW N, NEW d, NEW lo, Down(t, N, d, lo)
  PROVE  \/ /\ t[1].op = "copy" /\ t[1].from \in Nat /\ t[1].to = t[1].from + d /\ t[1].from >= lo
            /\ Copying(t)
            /\ IF Copying(Tail(t)) THEN Tail(t)[1].from \in {t[1].from, t[1].from - 1} ELSE t[1].from = lo
         \/ /\ t[1].op = "erase" /\ t[1].to \in Nat
            /\ \A i \in FileNos : \A s \in Used(i) : t[1].to # N[i] + s
            /\ ~Copying(t) /\ ~Copying(Tail(t))
  <1>1. /\ Len(t) \in Nat /\ Len(t) > 0 /\ Len(Tail(t)) = Len(t) - 1
        /\ \A k \in 1 .. Len(t) - 1 : Tail(t)[k] = t[k + 1]
    OBVIOUS
  <1>2. 1 \in 1 .. Len(t)
    BY <1>1
  <1>3. (Tail(t) # <<>>) <=> 1 < Len(t)
    <2>1. Tail(t) \in Seq(MigOps)
      OBVIOUS
    <2> DEFINE u == Tail(t)
    <2> HIDE DEF u
    <2>2. u \in Seq(MigOps) /\ Len(u) = Len(t) - 1
      BY <1>1, <2>1 DEF u
    <2>3. (u # <<>>) <=> Len(u) > 0
      BY ONLY <2>2
    <2>4. QED
      BY <1>1, <2>2, <2>3 DEF u
  <1>4. 1 < Len(t) => Tail(t)[1] = t[1 + 1]
    BY <1>1
  <1> DEFINE u == Tail(t)
  <1> HIDE DEF u
  <1>5. (u # <<>> <=> 1 < Len(t)) /\ (1 < Len(t) => u[1] = t[1 + 1])
    BY <1>3, <1>4 DEF u
  <1>6. \/ /\ t[1].op = "copy" /\ t[1].from \in Nat /\ t[1].to = t[1].from + d /\ t[1].from >= lo
           /\ IF 1 < Len(t) /\ t[1 + 1].op = "copy" THEN t[1 + 1].from \in {t[1].from, t[1].from - 1}
              ELSE t[1].from = lo
        \/ /\ t[1].op = "erase" /\ t[1].to \in Nat
           /\ \A i \in FileNos : \A s \in Used(i) : t[1].to # N[i] + s
           /\ 1 < Len(t) => t[1 + 1].op = "erase"
    BY <1>2 DEF Down
  <1>7. QED
    BY <1>5, <1>6 DEF Copying, u

(* A step of the list: a sector that is overwritten has been copied, and   *)
(* the copy of a sector of a file is where the file will be.               *)
LEMMA MovingStep ==
  ASSUME NEW t \in Seq(MigOps), t # <<>>, NEW N, NEW m, NEW d, NEW lo, Moving(t, N, m, d, lo),
         layout' = layout, layout \in Layouts, DOMAIN part = 0 .. NSECT * W - 1, Fits(t[1]),
         part' = CASE t[1].op = "copy" -> copySector(t[1])
                   [] t[1].op = "erase" -> eraseSector(t[1])
                   [] t[1].op = "record" -> writeRecord(t[1], files[id - 1])
                   [] OTHER -> part
  PROVE  Moving(Tail(t), N, m, d, lo)' /\ DOMAIN part' = DOMAIN part
  <1> DEFINE u == Tail(t)
             o == t[1]
  <1>1. /\ d \in Nat /\ lo \in Nat /\ m \in Nat /\ Down(t, N, d, lo)
        /\ \A i \in FileNos : /\ N[i] \in Nat
                              /\ i >= m => N[i] >= lo + d
                              /\ i < m => \A s \in Used(i) : N[i] + s < lo
        /\ \A i \in FileNos : \A s \in Used(i) :
             IF Copying(t) /\ i >= m /\ N[i] - d + s <= o.from THEN Kept(N[i] - d + s, i, s)
             ELSE Kept(N[i] + s, i, s)
    BY DEF Moving
  <1>2. \/ /\ o.op = "copy" /\ o.from \in Nat /\ o.to = o.from + d /\ o.from >= lo
           /\ Copying(t)
           /\ IF Copying(u) THEN u[1].from \in {o.from, o.from - 1} ELSE o.from = lo
        \/ /\ o.op = "erase" /\ o.to \in Nat
           /\ \A i \in FileNos : \A s \in Used(i) : o.to # N[i] + s
           /\ ~Copying(t) /\ ~Copying(u)
    BY <1>1, DownHead
  <1>3. Down(u, N, d, lo)
    BY <1>1, DownTail
  <1>4. ASSUME NEW i \in FileNos PROVE i \in Nat /\ \A s \in Used(i) : s \in Nat
    <2>1. layout.files \in Seq(File)
      BY MigrateAssumption
    <2>2. layout.files[i] \in File
      BY <2>1 DEF FileNos
    <2>3. layout.files[i].sectorcnt \in Nat /\ Len(layout.files) \in Nat
      BY <2>1, <2>2 DEF File
    <2>4. QED
      BY <2>3 DEF FileNos, Used
  <1>5. /\ FileNos' = FileNos /\ \A i \in FileNos : Used(i)' = Used(i)
    BY DEF FileNos, Used
  <1>6. Down(u, N, d, lo)'
    <2>1. Down(u, N, d, lo)' <=> Down(u, N, d, lo)
      BY <1>5 DEF Down
    <2>2. QED
      BY <1>3, <2>1
  <1>7. ASSUME NEW i \in FileNos, NEW s \in Used(i)
        PROVE  IF Copying(u) /\ i >= m /\ N[i] - d + s <= u[1].from THEN Kept(N[i] - d + s, i, s)'
               ELSE Kept(N[i] + s, i, s)'
    <2>1. i \in Nat /\ s \in Nat /\ N[i] \in Nat
      BY <1>1, <1>4
    <2>2. CASE o.op = "erase"
      <3>1. part' = eraseSector(o) /\ o.to # N[i] + s /\ ~Copying(t) /\ ~Copying(u)
        BY <2>2, <1>2
      <3>2. Kept(N[i] + s, i, s)
        BY <1>1, <3>1
      <3>5. N[i] + s \in Nat
        BY <2>1
      <3>3. Kept(N[i] + s, i, s)'
        BY <3>1, <3>2, <3>5, OthersKept
      <3>4. QED
        BY <3>1, <3>3
    <2>3. CASE o.op = "copy"
      <3>9. /\ o.from \in Nat /\ o.to = o.from + d /\ o.from >= lo
            /\ Copying(t)
            /\ IF Copying(u) THEN u[1].from \in {o.from, o.from - 1} ELSE o.from = lo
        BY <2>3, <1>2
      <3>10. part' = copySector(o)
        BY <2>3
      <3>11. o.to \in Nat
        BY ONLY <3>9, <1>1
      <3>1. /\ part' = copySector(o) /\ o.from \in Nat /\ o.to = o.from + d /\ o.to \in Nat /\ o.from >= lo
            /\ Copying(t)
            /\ IF Copying(u) THEN u[1].from \in {o.from, o.from - 1} ELSE o.from = lo
        BY ONLY <3>9, <3>10, <3>11
      <3>2. o.to < NSECT /\ o.from < NSECT
        BY <2>3 DEF Fits
      <3>3. IF i >= m /\ N[i] - d + s <= o.from THEN Kept(N[i] - d + s, i, s) ELSE Kept(N[i] + s, i, s)
        BY <1>1, <3>1
      <3>4. /\ i >= m => N[i] >= lo + d
            /\ i < m => N[i] + s < lo
        BY <1>1
      <3> DEFINE x == N[i] - d + s
                 y == N[i] + s
      <3>12. d \in Nat /\ lo \in Nat
        BY <1>1
      <3>5. y \in Nat /\ x = y - d /\ (i >= m => x \in Nat /\ x >= lo)
        BY ONLY <2>1, <3>4, <3>12
      <3> HIDE DEF o, u, x, y
      <3>6. CASE Copying(u) /\ i >= m /\ x <= u[1].from
        <4>1. x <= o.from /\ x \in Nat
          BY <3>1, <3>5, <3>6
        <4>2. Kept(x, i, s)
          BY <3>3, <3>6, <4>1 DEF x
        <4>3. Kept(x, i, s)'
          <5>1. CASE d = 0 /\ x = o.from
            <6>1. o.to = x
              BY <5>1, <3>1
            <6>2. QED
              BY <4>1, <4>2, <5>1, <6>1, <3>1, <3>2, CopyKept
          <5>2. CASE ~(d = 0 /\ x = o.from)
            <6>1. o.to # x
              BY <1>1, <3>1, <4>1, <5>2
            <6>2. QED
              BY <4>1, <4>2, <6>1, <3>1, OthersKept
          <5>3. QED
            BY <5>1, <5>2
        <4>4. QED
          BY <3>6, <4>3 DEF x
      <3>7. CASE ~(Copying(u) /\ i >= m /\ x <= u[1].from)
        <4>1. Kept(y, i, s)'
          <5>1. CASE i >= m /\ x <= o.from
            <6>5. x >= o.from
              <7>1. CASE Copying(u)
                <8>1. x > u[1].from /\ u[1].from >= o.from - 1 /\ u[1].from \in Int
                  BY <3>1, <3>5, <3>7, <5>1, <7>1
                <8>2. QED
                  BY ONLY <3>1, <3>5, <5>1, <8>1
              <7>2. CASE ~Copying(u)
                BY <3>1, <3>5, <5>1, <7>2
              <7>3. QED
                BY <7>1, <7>2
            <6>1. x = o.from /\ y = o.to
              BY ONLY <3>1, <3>5, <3>12, <5>1, <6>5
            <6>2. Kept(o.from, i, s)
              BY <3>3, <5>1, <6>1 DEF x
            <6>3. Kept(o.to, i, s)'
              BY <6>2, <3>1, <3>2, CopyKept
            <6>4. QED
              BY <6>1, <6>3
          <5>2. CASE ~(i >= m /\ x <= o.from)
            <6>1. Kept(y, i, s)
              BY <3>3, <5>2 DEF x, y
            <6>2. o.to # y
              <7>1. i \in Nat /\ m \in Nat
                BY <1>1, <2>1
              <7>2. CASE i >= m
                BY <1>1, <3>1, <3>5, <5>2, <7>2
              <7>3. CASE i < m
                <8>1. y < lo
                  BY <3>4, <7>3 DEF y
                <8>2. QED
                  BY <1>1, <3>1, <3>5, <8>1
              <7>4. QED
                BY <7>1, <7>2, <7>3
            <6>3. QED
              BY <6>1, <6>2, <3>1, <3>5, OthersKept
          <5>3. QED
            BY <5>1, <5>2
        <4>2. QED
          BY <3>7, <4>1 DEF x, y
      <3>8. QED
        BY <3>6, <3>7 DEF x
    <2>4. QED
      BY <1>2, <2>2, <2>3
  <1>8. Moving(u, N, m, d, lo)'
    <2> HIDE DEF u, o
    <2>1. Copying(u)' = Copying(u)
      BY DEF Copying
    <2>2. QED
      BY <1>1, <1>5, <1>6, <1>7, <2>1 DEF Moving
  <1>9. DOMAIN part' = DOMAIN part
    BY <1>2 DEF copySector, eraseSector
  <1>10. QED
    BY <1>8, <1>9

(* The sectors before a file are those of the file before it and those     *)
(* before that.                                                            *)
LEMMA BeforeFact ==
  ASSUME NEW fs \in Seq(File)
  PROVE  /\ Before(fs, 1) = 0
         /\ \A i \in 1 .. Len(fs) : Before(fs, i + 1) = Before(fs, i) + fs[i].sectorcnt
         /\ \A i \in 1 .. Len(fs) + 1 : Before(fs, i) \in Nat
  <1> DEFINE n == Len(fs)
             Is(f) == f = [k \in 0 .. n |-> IF k = 0 THEN 0 ELSE f[k - 1] + fs[k].sectorcnt]
             sum == CHOOSE f : Is(f)
             g == [p \in (1 .. n) \X Nat |-> p[2] + fs[p[1]].sectorcnt]
  <1>1. n \in Nat /\ \A i \in 1 .. n : fs[i].sectorcnt \in Nat
    <2>1. n \in Nat /\ \A i \in 1 .. n : fs[i] \in File
      OBVIOUS
    <2> HIDE DEF n
    <2>2. \A i \in 1 .. n : fs[i].sectorcnt \in Nat
      BY <2>1 DEF File
    <2>3. QED
      BY <2>1, <2>2
  <1>2. \A i \in 1 .. n : \A x \in Nat : g[<<i, x>>] = x + fs[i].sectorcnt
    OBVIOUS
  <1> HIDE DEF n, g, Is, sum
  <1>3. ASSUME NEW i \in 1 .. n, NEW x \in Nat PROVE g[<<i, x>>] \in Nat
    <2>1. fs[i].sectorcnt \in Nat /\ g[<<i, x>>] = x + fs[i].sectorcnt
      BY <1>1, <1>2
    <2>2. QED
      BY ONLY <2>1, x \in Nat
  <1>4. PICK f \in [0 .. n -> Nat] : Recursive(f, g, n, 0)
    <2>1. StepsIn(g, n, Nat) /\ n \in Nat /\ 0 \in Nat
      BY <1>1, <1>3 DEF StepsIn
    <2>2. QED
      BY <2>1, Recursion
  <1>5. ASSUME NEW i \in 1 .. n PROVE f[i] = f[i - 1] + fs[i].sectorcnt
    <2>1. i - 1 \in 0 .. n
      BY <1>1
    <2>2. f[i - 1] \in Nat
      BY <1>4, <2>1
    <2>3. QED
      BY <1>2, <1>4, <2>2 DEF Recursive
  <1>6. Is(f)
    <2>1. f = [i \in 0 .. n |-> f[i]]
      BY <1>4
    <2>2. ASSUME NEW i \in 0 .. n
          PROVE  f[i] = IF i = 0 THEN 0 ELSE f[i - 1] + fs[i].sectorcnt
      <3>1. CASE i = 0
        BY <3>1, <1>4 DEF Recursive
      <3>2. CASE i # 0
        <4>1. i \in 1 .. n
          BY <3>2, <1>1
        <4>2. QED
          BY <4>1, <3>2, <1>5
      <3>3. QED
        BY <3>1, <3>2
    <2>3. QED
      BY <2>1, <2>2 DEF Is
  <1>7. Is(sum)
    BY <1>6 DEF sum
  <1>8. \A k : Before(fs, k) = sum[k - 1]
    BY DEF Before, n, sum, Is
  <1>9. /\ sum[0] = 0
        /\ \A i \in 1 .. n : sum[i] = sum[i - 1] + fs[i].sectorcnt
    <2>1. 0 \in 0 .. n /\ \A i \in 1 .. n : i \in 0 .. n /\ i # 0
      BY <1>1
    <2>2. \A i \in 0 .. n : sum[i] = IF i = 0 THEN 0 ELSE sum[i - 1] + fs[i].sectorcnt
      BY <1>7 DEF Is
    <2>3. QED
      BY <2>1, <2>2
  <1> DEFINE U == {k \in Nat : k <= n => sum[k] \in Nat}
  <1>10. 0 \in U
    BY <1>9
  <1>11. ASSUME NEW k \in Nat, k \in U PROVE k + 1 \in U
    <2> SUFFICES ASSUME k + 1 <= n PROVE sum[k + 1] \in Nat
      OBVIOUS
    <2>1. sum[k] \in Nat /\ k + 1 \in 1 .. n /\ (k + 1) - 1 = k
      <3>1. k + 1 \in 1 .. n /\ (k + 1) - 1 = k /\ k <= n
        BY <1>1
      <3>2. sum[k] \in Nat
        BY <1>11, <3>1
      <3>3. QED
        BY <3>1, <3>2
    <2>2. sum[k + 1] = sum[k] + fs[k + 1].sectorcnt
      BY <1>9, <2>1
    <2>3. QED
      BY <1>1, <2>1, <2>2
  <1> HIDE DEF U
  <1>12. Nat \subseteq U
    BY <1>10, <1>11, SetInduction
  <1>13. \A i \in 1 .. n + 1 : sum[i - 1] \in Nat
    <2>1. \A i \in 1 .. n + 1 : i - 1 \in Nat /\ i - 1 <= n
      BY <1>1
    <2>2. QED
      BY <1>12, <2>1 DEF U
  <1>14. Before(fs, 1) = 0
    BY <1>8, <1>9
  <1>15. ASSUME NEW i \in 1 .. n PROVE Before(fs, i + 1) = Before(fs, i) + fs[i].sectorcnt
    <2>1. (i + 1) - 1 = i
      BY <1>1
    <2>2. QED
      BY <1>8, <1>9, <2>1
  <1>16. QED
    BY <1>8, <1>13, <1>14, <1>15 DEF n

(* A file begins after the end of every file before it.                    *)
LEMMA BeforeOrder ==
  ASSUME NEW fs \in Seq(File), NEW i \in 1 .. Len(fs), NEW j \in 1 .. Len(fs) + 1, i < j
  PROVE  Before(fs, i) + fs[i].sectorcnt <= Before(fs, j)
  <1> DEFINE n == Len(fs)
             b(k) == Before(fs, k)
             U == {k \in Nat : k <= n + 1 /\ i < k => b(i + 1) <= b(k)}
  <1>9. n \in Nat
    OBVIOUS
  <1>10. /\ \A k \in 1 .. Len(fs) : Before(fs, k + 1) = Before(fs, k) + fs[k].sectorcnt
         /\ \A k \in 1 .. Len(fs) + 1 : Before(fs, k) \in Nat
    BY BeforeFact
  <1>1. /\ n \in Nat
        /\ \A k \in 1 .. n : b(k + 1) = b(k) + fs[k].sectorcnt
        /\ \A k \in 1 .. n + 1 : b(k) \in Nat
    BY ONLY <1>9, <1>10
  <1>2. \A k \in 1 .. n : fs[k].sectorcnt \in Nat
    <2>1. \A k \in 1 .. n : fs[k] \in File
      OBVIOUS
    <2>2. QED
      BY <2>1 DEF File
  <1>7. i \in 1 .. n /\ j \in 1 .. n + 1
    OBVIOUS
  <1> HIDE DEF n, b
  <1>3. 0 \in U
    BY <1>1, <1>7
  <1>4. ASSUME NEW k \in Nat, k \in U PROVE k + 1 \in U
    <2> SUFFICES ASSUME k + 1 <= n + 1, i < k + 1 PROVE b(i + 1) <= b(k + 1)
      OBVIOUS
    <2>1. k \in 1 .. n /\ k \in 1 .. n + 1 /\ k + 1 \in 1 .. n + 1 /\ i + 1 \in 1 .. n + 1
      BY <1>1, <1>7
    <2>5. b(k) \in Nat /\ b(k + 1) \in Nat /\ b(i + 1) \in Nat /\ b(k) <= b(k + 1)
      <3>1. b(k) \in Nat /\ b(i + 1) \in Nat /\ b(k + 1) = b(k) + fs[k].sectorcnt /\ fs[k].sectorcnt \in Nat
        BY <1>1, <1>2, <2>1
      <3>2. QED
        BY ONLY <3>1
    <2>2. CASE i = k
      BY <2>2, <2>5
    <2>3. CASE i < k
      <3>1. b(i + 1) <= b(k)
        BY <1>4, <2>1, <2>3
      <3>2. QED
        BY <2>5, <3>1
    <2>4. QED
      BY <2>1, <2>2, <2>3, <1>7
  <1> HIDE DEF U
  <1>5. Nat \subseteq U
    BY <1>3, <1>4, SetInduction
  <1>6. b(i + 1) <= b(j) /\ b(i + 1) = b(i) + fs[i].sectorcnt
    <2>1. j \in Nat /\ j <= n + 1
      BY <1>1, <1>7
    <2>2. j \in U
      BY <1>5, <2>1
    <2>3. QED
      BY <1>1, <1>7, <2>1, <2>2 DEF U
  <1>8. QED
    BY <1>6 DEF b

(* The old driver's table is in order, and its files are on the device.    *)
LEMMA TableFact ==
  ASSUME layout \in Layouts
  PROVE  /\ FilesOk(Table(layout.files)) /\ Len(layout.files) \in Nat
         /\ Len(layout.files) > 0 => Table(layout.files)[1].sector = FirstSector
         /\ \A i \in FileNos : /\ layout.files[i].sectorcnt \in Nat
                               /\ Table(layout.files)[i].sectorcnt = layout.files[i].sectorcnt
                               /\ Table(layout.files)[i].sector + layout.files[i].sectorcnt <= NSECT
  <1> DEFINE fs == layout.files
             n == Len(fs)
             t == Table(fs)
             b(i) == Before(fs, i)
             e(i) == [sector |-> FirstSector + b(i), sectorcnt |-> fs[i].sectorcnt,
                      records |-> fs[i].records, recordsz |-> fs[i].recordsz]
  <1>1. fs \in Seq(File) /\ n \in Nat /\ FirstSector + b(n + 1) <= NSECT /\ NSECT \in Nat /\ FileNos = 1 .. n
    BY MigrateAssumption DEF FileNos
  <1>2. \A i \in 1 .. n : /\ fs[i].sectorcnt \in Nat /\ fs[i].records \in Nat /\ fs[i].recordsz \in Nat
    <2>1. \A i \in 1 .. n : fs[i] \in File
      BY <1>1
    <2>2. QED
      BY <2>1 DEF File
  <1>3. t = [i \in 1 .. n |-> e(i)]
    BY DEF Table
  <1>4. /\ b(1) = 0
        /\ \A i \in 1 .. n : b(i + 1) = b(i) + fs[i].sectorcnt
        /\ \A i \in 1 .. n + 1 : b(i) \in Nat
    BY <1>1, BeforeFact
  <1>5. ASSUME NEW i \in 1 .. n, NEW j \in 1 .. n + 1, i < j PROVE b(i) + fs[i].sectorcnt <= b(j)
    BY <1>1, <1>5, BeforeOrder
  <1> HIDE DEF fs, n, t, b
  <1>6. FirstSector = 4
    BY DEF FirstSector, HEADER_SECTOR_CNT
  <1>7. \A i \in 1 .. n : i \in 1 .. n + 1 /\ i + 1 \in 1 .. n + 1
    BY <1>1
  <1>8. \A i \in 1 .. n : e(i) \in TableEntry
    <2>1. \A i \in 1 .. n : FirstSector + b(i) \in Nat
      BY <1>4, <1>6, <1>7
    <2>2. QED
      BY <1>2, <2>1 DEF TableEntry
  <1>9. t \in Seq(TableEntry) /\ Len(t) = n /\ \A i \in 1 .. n : t[i] = e(i)
    <2> HIDE DEF e
    <2>1. QED
      BY <1>1, <1>3, <1>8
  <1>10. \A i \in 1 .. n : t[i].sector = 4 + b(i) /\ t[i].sectorcnt = fs[i].sectorcnt
    BY <1>6, <1>9
  <1> HIDE DEF e
  <1>11. ASSUME NEW i \in 1 .. n
         PROVE  /\ fs[i].sectorcnt <= t[i].sectorcnt /\ t[i].sector >= 4
                /\ t[i].sector + fs[i].sectorcnt <= NSECT
    <2>1. i < n + 1 /\ n + 1 \in 1 .. n + 1 /\ i \in 1 .. n + 1
      BY <1>1
    <2>2. b(i) + fs[i].sectorcnt <= b(n + 1) /\ b(i) \in Nat /\ b(n + 1) \in Nat
      BY <1>4, <1>5, <2>1
    <2>3. /\ fs[i].sectorcnt \in Nat /\ t[i].sector = 4 + b(i) /\ t[i].sectorcnt = fs[i].sectorcnt
          /\ 4 + b(n + 1) <= NSECT /\ NSECT \in Nat
      BY <1>1, <1>2, <1>6, <1>10
    <2>4. QED
      BY ONLY <2>2, <2>3
  <1>12. ASSUME NEW i \in 1 .. n, NEW j \in 1 .. n
         PROVE  /\ i < j => t[i].sector + t[i].sectorcnt <= t[j].sector
                /\ j = i + 1 => t[i].sector + t[i].sectorcnt = t[j].sector
    <2>1. b(i) \in Nat /\ b(j) \in Nat /\ fs[i].sectorcnt \in Nat
      BY <1>2, <1>4, <1>7
    <2>2. i < j => b(i) + fs[i].sectorcnt <= b(j)
      BY <1>5, <1>7
    <2>3. j = i + 1 => b(i) + fs[i].sectorcnt = b(j)
      BY <1>4
    <2>4. QED
      BY <1>10, <2>1, <2>2, <2>3
  <1>13. FilesOk(t)
    BY <1>1, <1>6, <1>9, <1>11, <1>12 DEF FilesOk, n, fs
  <1>14. n > 0 => t[1].sector = FirstSector
    BY <1>1, <1>4, <1>6, <1>10
  <1>15. QED
    BY <1>1, <1>2, <1>10, <1>11, <1>13, <1>14 DEF t, n, fs

(* Copies to d sectors up, from sector hi down to lo.                      *)
Chain(c, hi, lo, d) ==
  /\ c \in Seq(MigOps) /\ Len(c) > 0 /\ c[1].from = hi /\ c[Len(c)].from = lo
  /\ \A k \in 1 .. Len(c) : c[k].op = "copy" /\ c[k].from \in Nat /\ c[k].to = c[k].from + d /\ c[k].from >= lo
  /\ \A k \in 1 .. Len(c) - 1 : c[k + 1].from \in {c[k].from, c[k].from - 1}

(* moveSectors copies from the last sector down.                           *)
LEMMA SectorsChain ==
  ASSUME NEW f \in Nat, NEW n \in Nat, NEW d \in Nat
  PROVE  Chain(moveSectors(f, n, d), f + n, f, d)
  <1> DEFINE c == moveSectors(f, n, d)
             e(k) == CopyOp(f + n + 1 - k + d, f + n + 1 - k)
  <1>1. c = [k \in 1 .. n + 1 |-> e(k)] /\ n + 1 \in Nat
    BY DEF moveSectors
  <1>2. \A k \in 1 .. n + 1 : e(k).op = "copy" /\ e(k).from = f + n + 1 - k /\ e(k).to = f + n + 1 - k + d
    BY DEF CopyOp
  <1>3. \A k \in 1 .. n + 1 : e(k) \in MigOps
    <2>1. \A k \in 1 .. n + 1 : f + n + 1 - k \in Int /\ f + n + 1 - k + d \in Int
      OBVIOUS
    <2>2. QED
      BY <2>1 DEF MigOps, CopyOp
  <1> HIDE DEF c, e
  <1>4. c \in Seq(MigOps) /\ Len(c) = n + 1 /\ \A k \in 1 .. n + 1 : c[k] = e(k)
    BY <1>1, <1>3
  <1>5. \A k \in 1 .. n + 1 : /\ c[k].op = "copy" /\ c[k].from = f + n + 1 - k
                              /\ c[k].to = f + n + 1 - k + d
    BY <1>2, <1>4
  <1>6. c[1].from = f + n /\ c[n + 1].from = f
    <2>1. 1 \in 1 .. n + 1 /\ n + 1 \in 1 .. n + 1
      OBVIOUS
    <2>2. c[1].from = f + n + 1 - 1 /\ c[n + 1].from = f + n + 1 - (n + 1)
      BY <1>5, <2>1
    <2>3. QED
      BY <2>2
  <1>7. \A k \in 1 .. n + 1 : c[k].from \in Nat /\ c[k].to = c[k].from + d /\ c[k].from >= f
    BY <1>5
  <1>8. ASSUME NEW k \in 1 .. n PROVE c[k + 1].from = c[k].from - 1
    <2>1. k + 1 \in 1 .. n + 1 /\ k \in 1 .. n + 1
      OBVIOUS
    <2>2. c[k + 1].from = f + n + 1 - (k + 1) /\ c[k].from = f + n + 1 - k
      BY <1>5, <2>1
    <2>3. QED
      BY <2>2
  <1>9. (n + 1) - 1 = n /\ n + 1 > 0
    OBVIOUS
  <1>10. Chain(c, f + n, f, d)
    BY <1>4, <1>5, <1>6, <1>7, <1>8, <1>9 DEF Chain
  <1>11. QED
    BY <1>10 DEF c

(* Two lists of copies, one below the other, are one.                      *)
LEMMA ChainJoin ==
  ASSUME NEW u, NEW v, NEW hi \in Nat, NEW mid \in Nat, NEW lo \in Nat, NEW d \in Nat,
         Chain(u, hi, mid, d), Chain(v, mid, lo, d)
  PROVE  Chain(u \o v, hi, lo, d)
  <1> DEFINE m == Len(u)
             n == Len(v)
             c == u \o v
  <1>1. u \in Seq(MigOps) /\ v \in Seq(MigOps) /\ m > 0 /\ n > 0 /\ m \in Nat /\ n \in Nat
    BY DEF Chain
  <1>2. /\ c \in Seq(MigOps) /\ Len(c) = m + n
        /\ \A k \in 1 .. m + n : c[k] = IF k <= m THEN u[k] ELSE v[k - m]
    BY ONLY <1>1, ConcatProperties
  <1>3. /\ u[1].from = hi /\ u[m].from = mid
        /\ \A k \in 1 .. m : u[k].op = "copy" /\ u[k].from \in Nat /\ u[k].to = u[k].from + d /\ u[k].from >= mid
        /\ \A k \in 1 .. m - 1 : u[k + 1].from \in {u[k].from, u[k].from - 1}
    BY DEF Chain
  <1>4. /\ v[1].from = mid /\ v[n].from = lo
        /\ \A k \in 1 .. n : v[k].op = "copy" /\ v[k].from \in Nat /\ v[k].to = v[k].from + d /\ v[k].from >= lo
        /\ \A k \in 1 .. n - 1 : v[k + 1].from \in {v[k].from, v[k].from - 1}
    BY DEF Chain
  <1> HIDE DEF m, n, c
  <1>5. c[1].from = hi /\ c[m + n].from = lo
    <2>1. 1 \in 1 .. m + n /\ 1 <= m /\ m + n \in 1 .. m + n /\ ~(m + n <= m) /\ (m + n) - m = n
      BY <1>1
    <2>2. QED
      BY <1>2, <1>3, <1>4, <2>1
  <1>6. mid >= lo
    <2>1. 1 \in 1 .. n
      BY <1>1
    <2>2. QED
      BY <1>4, <2>1
  <1>7. ASSUME NEW k \in 1 .. m + n
        PROVE  c[k].op = "copy" /\ c[k].from \in Nat /\ c[k].to = c[k].from + d /\ c[k].from >= lo
    <2>1. CASE k <= m
      <3>1. k \in 1 .. m /\ c[k] = u[k]
        BY <1>1, <1>2, <2>1
      <3>2. u[k].op = "copy" /\ u[k].from \in Nat /\ u[k].to = u[k].from + d /\ u[k].from >= mid
        BY <1>3, <3>1
      <3>3. u[k].from >= lo
        BY ONLY <3>2, <1>6, mid \in Nat, lo \in Nat
      <3>4. QED
        BY <3>1, <3>2, <3>3
    <2>2. CASE ~(k <= m)
      <3>1. k - m \in 1 .. n /\ c[k] = v[k - m]
        BY <1>1, <1>2, <2>2
      <3>2. QED
        BY <1>4, <3>1
    <2>3. QED
      BY <2>1, <2>2
  <1>8. ASSUME NEW k \in 1 .. (m + n) - 1 PROVE c[k + 1].from \in {c[k].from, c[k].from - 1}
    <2>1. k \in 1 .. m + n /\ k + 1 \in 1 .. m + n
      BY <1>1
    <2>2. CASE k < m
      <3>1. k \in 1 .. m - 1 /\ k <= m /\ k + 1 <= m
        BY <1>1, <2>2
      <3>2. c[k] = u[k] /\ c[k + 1] = u[k + 1]
        BY <1>2, <2>1, <3>1
      <3>3. QED
        BY <1>3, <3>1, <3>2
    <2>3. CASE k = m
      <3>1. k <= m /\ ~(k + 1 <= m) /\ (k + 1) - m = 1
        BY <1>1, <2>3
      <3>2. c[k] = u[m] /\ c[k + 1] = v[1]
        BY <1>2, <2>1, <2>3, <3>1
      <3>3. QED
        BY <1>3, <1>4, <3>2
    <2>4. CASE k > m
      <3>1. k - m \in 1 .. n - 1 /\ ~(k <= m) /\ ~(k + 1 <= m) /\ (k + 1) - m = (k - m) + 1
        BY <1>1, <2>4
      <3>2. c[k] = v[k - m] /\ c[k + 1] = v[(k - m) + 1]
        BY <1>2, <2>1, <3>1
      <3>3. QED
        BY <1>4, <3>1, <3>2
    <2>5. QED
      BY <1>1, <2>2, <2>3, <2>4
  <1>9. m + n > 0
    BY <1>1
  <1>10. Chain(c, hi, lo, d)
    BY <1>2, <1>5, <1>7, <1>8, <1>9 DEF Chain
  <1>11. QED
    BY <1>10 DEF c

Erasing(e, N) ==
  \A k \in 1 .. Len(e) : /\ e[k].op = "erase" /\ e[k].to \in Nat
                         /\ \A i \in FileNos : \A s \in Used(i) : e[k].to # N[i] + s

(* Copies down to lo, or none, and then erasures of sectors that no file   *)
(* will have.                                                              *)
LEMMA ChainDown ==
  ASSUME NEW c, NEW e \in Seq(MigOps), NEW N, NEW hi, NEW lo, NEW d,
         c = <<>> \/ Chain(c, hi, lo, d),
         Erasing(e, N)
  PROVE  /\ c \o e \in Seq(MigOps) /\ Down(c \o e, N, d, lo)
         /\ IF c = <<>> THEN ~Copying(c \o e) ELSE Copying(c \o e) /\ (c \o e)[1].from = hi
  <1> DEFINE m == Len(c)
             n == Len(e)
             t == c \o e
  <1>1. c \in Seq(MigOps) /\ m \in Nat /\ n \in Nat
    <2>1. c \in Seq(MigOps)
      <3>1. CASE c = <<>>
        BY <3>1
      <3>2. CASE Chain(c, hi, lo, d)
        BY <3>2 DEF Chain
      <3>3. QED
        BY <3>1, <3>2
    <2>2. QED
      BY ONLY <2>1, e \in Seq(MigOps)
  <1>2. /\ t \in Seq(MigOps) /\ Len(t) = m + n
        /\ \A k \in 1 .. m + n : t[k] = IF k <= m THEN c[k] ELSE e[k - m]
    BY ONLY <1>1, e \in Seq(MigOps), ConcatProperties
  <1>3. c = <<>> => m = 0
    OBVIOUS
  <1>4. c # <<>> =>
        /\ m > 0 /\ c[1].from = hi /\ c[m].from = lo
        /\ \A k \in 1 .. m : c[k].op = "copy" /\ c[k].from \in Nat /\ c[k].to = c[k].from + d /\ c[k].from >= lo
        /\ \A k \in 1 .. m - 1 : c[k + 1].from \in {c[k].from, c[k].from - 1}
    BY DEF Chain
  <1>5. \A k \in 1 .. n : /\ e[k].op = "erase" /\ e[k].to \in Nat
                          /\ \A i \in FileNos : \A s \in Used(i) : e[k].to # N[i] + s
    BY DEF Erasing
  <1> HIDE DEF m, n, t
  <1>6. ASSUME NEW k \in 1 .. m + n
        PROVE  \/ /\ t[k].op = "copy" /\ t[k].from \in Nat /\ t[k].to = t[k].from + d /\ t[k].from >= lo
                  /\ IF k < m + n /\ t[k + 1].op = "copy" THEN t[k + 1].from \in {t[k].from, t[k].from - 1}
                     ELSE t[k].from = lo
               \/ /\ t[k].op = "erase" /\ t[k].to \in Nat
                  /\ \A i \in FileNos : \A s \in Used(i) : t[k].to # N[i] + s
                  /\ k < m + n => t[k + 1].op = "erase"
    <2>1. CASE k < m
      <3>1. k \in 1 .. m - 1 /\ k \in 1 .. m /\ k + 1 \in 1 .. m /\ k <= m /\ k + 1 <= m /\ k + 1 \in 1 .. m + n /\ k < m + n
        BY <1>1, <2>1
      <3>2. t[k] = c[k] /\ t[k + 1] = c[k + 1] /\ c # <<>>
        BY <1>1, <1>2, <1>3, <2>1, <3>1
      <3>3. QED
        BY <1>4, <3>1, <3>2
    <2>2. CASE k = m
      <3>1. k \in 1 .. m /\ k <= m /\ (k < m + n => k + 1 \in 1 .. m + n /\ ~(k + 1 <= m) /\ (k + 1) - m = 1 /\ 1 \in 1 .. n)
        BY <1>1, <2>2
      <3>2. t[k] = c[k] /\ c # <<>> /\ (k < m + n => t[k + 1] = e[1])
        BY <1>1, <1>2, <1>3, <2>2, <3>1
      <3>3. k < m + n => t[k + 1].op # "copy"
        BY <1>5, <3>1, <3>2
      <3>4. c[k].from = lo
        BY <1>4, <2>2, <3>2
      <3>5. QED
        BY <1>4, <3>1, <3>2, <3>3, <3>4
    <2>3. CASE k > m
      <3>1. ~(k <= m) /\ k - m \in 1 .. n
        BY <1>1, <2>3
      <3>2. t[k] = e[k - m]
        BY <1>2, <3>1
      <3>3. k < m + n => t[k + 1].op = "erase"
        <4>1. SUFFICES ASSUME k < m + n PROVE t[k + 1].op = "erase"
          OBVIOUS
        <4>2. k + 1 \in 1 .. m + n /\ ~(k + 1 <= m) /\ (k + 1) - m \in 1 .. n
          BY <1>1, <2>3, <4>1
        <4>3. QED
          BY <1>2, <1>5, <4>2
      <3>4. QED
        BY <1>5, <3>1, <3>2, <3>3
    <2>4. QED
      BY <1>1, <2>1, <2>2, <2>3
  <1>7. Down(t, N, d, lo)
    BY <1>2, <1>6 DEF Down
  <1>8. CASE c = <<>>
    <2>1. ~Copying(t)
      <3>1. SUFFICES ASSUME t # <<>> PROVE t[1].op # "copy"
        BY DEF Copying
      <3>2. m = 0 /\ Len(t) = n
        BY <1>1, <1>2, <1>3, <1>8
      <3>3. n > 0
        BY ONLY <1>2, <3>1, <3>2, <1>1
      <3>4. 1 \in 1 .. m + n /\ ~(1 <= m) /\ 1 - m = 1 /\ 1 \in 1 .. n
        BY <1>1, <3>2, <3>3
      <3>5. QED
        BY <1>2, <1>5, <3>4
    <2>2. QED
      BY <1>2, <1>7, <1>8, <2>1 DEF t
  <1>9. CASE c # <<>>
    <2>1. 1 \in 1 .. m + n /\ 1 <= m /\ 1 \in 1 .. m
      BY <1>1, <1>4, <1>9
    <2>2. t[1] = c[1] /\ t[1].op = "copy" /\ t[1].from = hi
      BY <1>2, <1>4, <1>9, <2>1
    <2>3. t # <<>>
      BY ONLY <1>2, <2>1
    <2>4. QED
      BY <1>2, <1>7, <1>9, <2>2, <2>3 DEF t, Copying
  <1>10. QED
    BY <1>8, <1>9

(* What FilesOk says of the numbers of files.                              *)
LEMMA FilesFact ==
  ASSUME layout \in Layouts, NEW fs, FilesOk(fs)
  PROVE  /\ Len(fs) \in Nat /\ FileNos = 1 .. Len(fs)
         /\ \A i \in 1 .. Len(fs) : /\ fs[i] \in TableEntry /\ fs[i].sector \in Nat /\ fs[i].sectorcnt \in Nat
                                    /\ layout.files[i].sectorcnt \in Nat
                                    /\ layout.files[i].sectorcnt <= fs[i].sectorcnt /\ fs[i].sector >= 4
         /\ \A i, j \in 1 .. Len(fs) : /\ i < j => fs[i].sector + fs[i].sectorcnt <= fs[j].sector
                                       /\ j = i + 1 => fs[i].sector + fs[i].sectorcnt = fs[j].sector
  <1>1. fs \in Seq(TableEntry) /\ Len(fs) = Len(layout.files) /\ layout.files \in Seq(File)
    BY MigrateAssumption DEF FilesOk
  <1>2. Len(fs) \in Nat /\ FileNos = 1 .. Len(fs)
    BY <1>1 DEF FileNos
  <1>3. \A i \in 1 .. Len(fs) : fs[i] \in TableEntry /\ layout.files[i] \in File
    BY <1>1
  <1>4. \A i \in 1 .. Len(fs) : /\ fs[i].sector \in Nat /\ fs[i].sectorcnt \in Nat
                                /\ layout.files[i].sectorcnt \in Nat
    BY <1>3 DEF TableEntry, File
  <1>5. FirstSector = 4
    BY DEF FirstSector, HEADER_SECTOR_CNT
  <1>6. QED
    BY <1>2, <1>3, <1>4, <1>5 DEF FilesOk

(* Moving the n files above a file copies from the end of the last one     *)
(* down to the first sector of the lowest.                                 *)
LEMMA FilesChain ==
  ASSUME layout \in Layouts, FilesOk(files), NEW n \in Nat, n <= Len(files), NEW d \in Nat
  PROVE  IF n = 0 THEN moveFiles(n, d) = <<>>
         ELSE Chain(moveFiles(n, d), End, files[Len(files) + 1 - n].sector, d)
  <1> DEFINE L == Len(files)
             F(k) == files[L + 1 - k]
             mv(k) == moveSectors(F(k).sector, F(k).sectorcnt, d)
             Is(f) == f = [k \in 0 .. n |-> IF k = 0 THEN <<>> ELSE f[k - 1] \o mv(k)]
             moved == CHOOSE f : Is(f)
             X == Seq(MigOps)
             g == [p \in (1 .. n) \X X |-> p[2] \o mv(p[1])]
             a == <<>>
  <1>1. /\ L \in Nat /\ n <= L
        /\ \A k \in 1 .. n : L + 1 - k \in 1 .. L
    BY FilesFact
  <1>2. \A k \in 1 .. n : F(k).sector \in Nat /\ F(k).sectorcnt \in Nat
    BY <1>1, FilesFact
  <1>3. \A k \in 1 .. n : Chain(mv(k), F(k).sector + F(k).sectorcnt, F(k).sector, d) /\ mv(k) \in X
    <2>1. \A k \in 1 .. n : Chain(mv(k), F(k).sector + F(k).sectorcnt, F(k).sector, d)
      BY <1>2, SectorsChain
    <2>2. QED
      BY <2>1 DEF Chain
  <1>4. ASSUME NEW k \in 1 .. n, NEW x \in X PROVE g[<<k, x>>] = x \o mv(k) /\ x \o mv(k) \in X
    <2>1. g[<<k, x>>] = x \o mv(k)
      BY DEF g
    <2>2. mv(k) \in X
      BY <1>3
    <2> HIDE DEF mv, g
    <2>3. x \o mv(k) \in X
      BY ONLY x \in X, <2>2, ConcatProperties
    <2>4. QED
      BY <2>1, <2>3
  <1>5. a \in X
    OBVIOUS
  <1>13. moveFiles(n, d) = moved[n]
    BY DEF moveFiles
  <1> HIDE DEF L, F, mv, Is, moved, X, g, a
  <1>6. PICK f \in [0 .. n -> X] : Recursive(f, g, n, a)
    <2>1. StepsIn(g, n, X)
      BY <1>4 DEF StepsIn
    <2>2. QED
      BY <1>5, <2>1, Recursion
  <1>7. ASSUME NEW i \in 1 .. n PROVE f[i] = f[i - 1] \o mv(i)
    <2>1. i - 1 \in 0 .. n
      OBVIOUS
    <2>2. f[i - 1] \in X
      BY <1>6, <2>1
    <2>3. QED
      BY <1>4, <1>6, <2>2 DEF Recursive
  <1>8. Is(f)
    <2>1. f = [i \in 0 .. n |-> f[i]]
      BY <1>6
    <2>2. ASSUME NEW i \in 0 .. n PROVE f[i] = IF i = 0 THEN <<>> ELSE f[i - 1] \o mv(i)
      <3>1. CASE i = 0
        BY <3>1, <1>6 DEF Recursive, a
      <3>2. CASE i # 0
        <4>1. i \in 1 .. n
          BY <3>2
        <4>2. QED
          BY <4>1, <3>2, <1>7
      <3>3. QED
        BY <3>1, <3>2
    <2>3. QED
      BY <2>1, <2>2 DEF Is
  <1>9. Is(moved)
    BY <1>8 DEF moved
  <1>10. /\ moved[0] = <<>>
         /\ \A i \in 1 .. n : moved[i] = moved[i - 1] \o mv(i)
    <2>1. 0 \in 0 .. n /\ \A i \in 1 .. n : i \in 0 .. n /\ i # 0
      OBVIOUS
    <2>2. \A i \in 0 .. n : moved[i] = IF i = 0 THEN <<>> ELSE moved[i - 1] \o mv(i)
      BY <1>9 DEF Is
    <2>3. QED
      BY <2>1, <2>2
  <1> DEFINE U == {k \in Nat : k <= n => IF k = 0 THEN moved[k] = <<>> ELSE Chain(moved[k], End, F(k).sector, d)}
  <1>11. 0 \in U
    BY <1>10
  <1>12. ASSUME NEW k \in Nat, k \in U PROVE k + 1 \in U
    <2> SUFFICES ASSUME k + 1 <= n PROVE Chain(moved[k + 1], End, F(k + 1).sector, d)
      OBVIOUS
    <2>1. k + 1 \in 1 .. n /\ (k + 1) - 1 = k /\ k <= n
      OBVIOUS
    <2>2. moved[k + 1] = moved[k] \o mv(k + 1)
      BY <1>10, <2>1
    <2>3. Chain(mv(k + 1), F(k + 1).sector + F(k + 1).sectorcnt, F(k + 1).sector, d) /\ mv(k + 1) \in Seq(MigOps)
      BY <1>3, <2>1 DEF X
    <2>4. CASE k = 0
      <3>1. moved[k + 1] = mv(k + 1)
        <4>1. moved[k] = <<>>
          BY <1>10, <2>4
        <4> DEFINE v == mv(k + 1)
        <4> HIDE DEF v
        <4>2. v \in Seq(MigOps) /\ moved[k + 1] = <<>> \o v
          BY <2>2, <2>3, <4>1 DEF v
        <4>3. <<>> \o v = v
          BY ONLY <4>2
        <4>4. QED
          BY <4>2, <4>3 DEF v
      <3>2. F(k + 1) = files[L] /\ L = Len(files)
        <4>1. L + 1 - (k + 1) = L
          BY <1>1, <2>4
        <4>2. QED
          BY <4>1 DEF F, L
      <3>3. End = F(k + 1).sector + F(k + 1).sectorcnt
        BY <3>2 DEF End, Last
      <3>4. QED
        BY <2>3, <3>1, <3>3
    <2>5. CASE k # 0
      <3>1. Chain(moved[k], End, F(k).sector, d)
        BY <1>12, <2>1, <2>5
      <3>2. k \in 1 .. n
        BY <2>1, <2>5
      <3>3. F(k + 1).sector + F(k + 1).sectorcnt = F(k).sector
        <4>1. L + 1 - (k + 1) \in 1 .. L /\ L + 1 - k \in 1 .. L /\ L + 1 - k = (L + 1 - (k + 1)) + 1
          BY <1>1, <2>1, <3>2
        <4>2. QED
          BY <4>1, FilesFact DEF F, L
      <3>4. F(k).sector \in Nat /\ F(k + 1).sector \in Nat
        BY <1>2, <2>1, <3>2
      <3>5. End \in Nat
        <4>1. moved[k][1].from = End /\ 1 \in 1 .. Len(moved[k]) /\ moved[k][1].from \in Nat
          <5>1. Len(moved[k]) \in Nat /\ Len(moved[k]) > 0
            BY <3>1 DEF Chain
          <5>2. 1 \in 1 .. Len(moved[k])
            BY ONLY <5>1
          <5>3. QED
            BY <3>1, <5>2 DEF Chain
        <4>2. QED
          BY <4>1
      <3>6. Chain(moved[k] \o mv(k + 1), End, F(k + 1).sector, d)
        BY <2>3, <3>1, <3>3, <3>4, <3>5, ChainJoin
      <3>7. QED
        BY <2>2, <3>6
    <2>6. QED
      BY <2>4, <2>5
  <1> HIDE DEF U
  <1>14. Nat \subseteq U
    BY <1>11, <1>12, SetInduction
  <1>15. n \in U
    BY <1>14
  <1>16. QED
    BY <1>13, <1>15 DEF U, F, L

(* Nothing changes while the device does not.                              *)
LEMMA KeptSame ==
  ASSUME UNCHANGED <<layout, part>>
  PROVE  \A x, i, s : Kept(x, i, s)' = Kept(x, i, s)
  <1>1. \A i, s : OldSector(i, s)' = OldSector(i, s)
    BY DEF OldSector
  <1>2. QED
    BY <1>1 DEF Kept, Holds

(* Moving is about the device and the old files.                           *)
LEMMA MovingSame ==
  ASSUME NEW t, NEW N, NEW m, NEW d, NEW lo, Moving(t, N, m, d, lo), UNCHANGED <<layout, part>>
  PROVE  Moving(t, N, m, d, lo)'
  <1>1. FileNos' = FileNos /\ \A i : Used(i)' = Used(i)
    BY DEF FileNos, Used
  <1>2. \A x, i, s : Kept(x, i, s)' = Kept(x, i, s)
    BY KeptSame
  <1>3. Down(t, N, d, lo)' <=> Down(t, N, d, lo)
    BY <1>1 DEF Down
  <1>4. QED
    BY <1>1, <1>2, <1>3 DEF Moving, Copying

(* A file grows by a number of sectors.                                    *)
LEMMA GrowthFact ==
  ASSUME NEW f \in TableEntry
  PROVE  Growth(f) \in Nat
  <1> DEFINE x == f.records * (f.recordsz + 2)
             y == x + W - 1
             z == y \div W
  <1>1. f.records \in Nat /\ f.recordsz \in Nat /\ f.sectorcnt \in Nat /\ W \in Nat \ {0}
    BY MigrateAssumption DEF TableEntry
  <1>2. x \in Nat
    <2>1. f.recordsz + 2 \in Nat
      BY <1>1
    <2>2. QED
      BY <1>1, <2>1
  <1> HIDE DEF x
  <1>3. y \in Nat
    BY <1>1, <1>2
  <1> HIDE DEF y
  <1>4. z \in Nat
    BY <1>1, <1>3
  <1>5. minSectorCnt(f) = z + 1
    BY DEF minSectorCnt, x, y
  <1> HIDE DEF z
  <1>6. QED
    BY <1>1, <1>4, <1>5 DEF Growth

(* The device is as the old driver left it.                                *)
LEMMA MoveInit == MigInit => MoveInv
  <1> SUFFICES ASSUME MigInit PROVE MoveInv
    OBVIOUS
  <1>1. /\ layout \in Layouts /\ part = OldPartition(layout.files) /\ todo = <<>> /\ phase = "start"
        /\ hdr = [h \in 0 .. 1 |-> [no |-> IF h = layout.newer THEN layout.no ELSE layout.other, magic |-> "old",
                                    files |-> Table(layout.files)]]
    BY DEF MigInit
  <1>2. \A h \in 0 .. 1 : hdr[h].files = Table(layout.files)
    BY <1>1
  <1>3. DOMAIN part = 0 .. NSECT * W - 1
    BY <1>1 DEF OldPartition
  <1>4. QED
    BY <1>1, <1>2, <1>3 DEF MoveInv

(* Reading the header: all the files are to move up by two.                *)
LEMMA MoveStart ==
  ASSUME MoveInv, MigStart
  PROVE  MoveInv'
  <1> DEFINE fs == Table(layout.files)
             n == Len(layout.files)
  <1>1. /\ layout \in Layouts /\ phase = "start" /\ part = OldPartition(layout.files)
        /\ DOMAIN part = 0 .. NSECT * W - 1 /\ getOldHeader.files = fs
        /\ UNCHANGED <<layout, part, hdr>> /\ phase' \in {"refused", "done", "shift"}
    <2>1. phase = "start" /\ UNCHANGED <<layout, part, hdr>> /\ phase' \in {"refused", "done", "shift"}
      BY DEF MigStart
    <2>2. hdr[0].files = fs /\ hdr[1].files = fs
      BY <2>1 DEF MoveInv
    <2>3. getOldHeader.files = fs
      BY <2>2 DEF getOldHeader
    <2>4. QED
      BY <2>1, <2>3 DEF MoveInv
  <1>2. CASE phase' # "shift"
    BY <1>1, <1>2 DEF MoveInv
  <1>3. CASE phase' = "shift"
    <2>1. /\ fs # <<>> /\ files' = fs
          /\ todo' = moveSectors(fs[1].sector, Last(fs).sector + Last(fs).sectorcnt, 2)
      BY <1>1, <1>3 DEF MigStart
    <2>2. /\ FilesOk(fs) /\ n \in Nat
          /\ n > 0 => fs[1].sector = FirstSector
          /\ \A i \in FileNos : /\ layout.files[i].sectorcnt \in Nat
                                /\ fs[i].sectorcnt = layout.files[i].sectorcnt
                                /\ fs[i].sector + layout.files[i].sectorcnt <= NSECT
      BY <1>1, TableFact
    <2>3. Len(fs) = n /\ FileNos = 1 .. n /\ fs \in Seq(TableEntry) /\ n > 0 /\ Len(fs) > 0
      <3>1. Len(fs) = n /\ fs \in Seq(TableEntry)
        BY <2>2 DEF FilesOk
      <3> HIDE DEF fs
      <3>2. Len(fs) > 0
        BY ONLY <3>1, <2>1
      <3>3. QED
        BY <3>1, <3>2 DEF FileNos
    <2> HIDE DEF fs, n
    <2>4. /\ \A i \in 1 .. n : fs[i].sector \in Nat /\ fs[i].sectorcnt \in Nat /\ fs[i].sector >= 4
          /\ \A i, j \in 1 .. n : i < j => fs[i].sector + fs[i].sectorcnt <= fs[j].sector
      BY <1>1, <2>2, <2>3, FilesFact
    <2> DEFINE e == fs[n].sector + fs[n].sectorcnt
    <2>5. e \in Nat /\ Last(fs).sector + Last(fs).sectorcnt = e
      BY <2>2, <2>3, <2>4 DEF Last
    <2>6. FirstSector = 4
      BY DEF FirstSector, HEADER_SECTOR_CNT
    <2>7. todo' = moveSectors(4, e, 2)
      BY <2>1, <2>2, <2>3, <2>5, <2>6
    <2>8. Chain(todo', 4 + e, 4, 2)
      BY <2>5, <2>7, SectorsChain
    <2>9. PICK t : t = todo'
      OBVIOUS
    <2>10. PICK N : N = [i \in 1 .. n |-> fs[i].sector + 2]
      OBVIOUS
    <2>11. t \in Seq(MigOps) /\ Down(t, N, 2, 4) /\ Copying(t) /\ t[1].from = 4 + e
      <3>1. Chain(t, 4 + e, 4, 2) /\ t \in Seq(MigOps)
        BY <2>8, <2>9 DEF Chain
      <3>2. /\ t \o <<>> \in Seq(MigOps) /\ Down(t \o <<>>, N, 2, 4)
            /\ IF t = <<>> THEN ~Copying(t \o <<>>) ELSE Copying(t \o <<>>) /\ (t \o <<>>)[1].from = 4 + e
        <4> DEFINE z == <<>>
        <4>1. z \in Seq(MigOps) /\ Len(z) = 0
          OBVIOUS
        <4> HIDE DEF z
        <4>2. Erasing(z, N)
          BY <4>1 DEF Erasing
        <4> DEFINE hi == 4 + e
        <4>5. t = <<>> \/ Chain(t, hi, 4, 2)
          BY <3>1
        <4> HIDE DEF hi
        <4>3. /\ t \o z \in Seq(MigOps) /\ Down(t \o z, N, 2, 4)
              /\ IF t = <<>> THEN ~Copying(t \o z) ELSE Copying(t \o z) /\ (t \o z)[1].from = hi
          BY ONLY <4>1, <4>2, <4>5, ChainDown
        <4>4. QED
          BY <4>3 DEF z, hi
      <3>3. t \o <<>> = t
        BY ONLY <3>1
      <3>4. t # <<>>
        BY <3>1 DEF Chain
      <3>5. QED
        BY <3>2, <3>3, <3>4
    <2>12. ASSUME NEW i \in FileNos, NEW s \in Used(i)
           PROVE  /\ N[i] - 2 + s <= 4 + e /\ Kept(N[i] - 2 + s, i, s)
      <3>1. i \in 1 .. n /\ fs[i].sector \in Nat /\ fs[i].sectorcnt \in Nat /\ N[i] = fs[i].sector + 2
        BY <2>3, <2>4, <2>10
      <3>2. s \in Nat /\ s < fs[i].sectorcnt /\ fs[i].sector + fs[i].sectorcnt <= NSECT
        <4>1. layout.files[i].sectorcnt = fs[i].sectorcnt /\ fs[i].sector + fs[i].sectorcnt <= NSECT
          BY <2>2
        <4>2. s \in 0 .. fs[i].sectorcnt - 1
          BY <4>1 DEF Used
        <4>3. QED
          BY <3>1, <4>1, <4>2
      <3> DEFINE x == fs[i].sector + s
      <3>8. NSECT \in Nat
        BY MigrateAssumption
      <3>3. x \in Nat /\ x < NSECT /\ N[i] - 2 + s = x
        BY ONLY <3>1, <3>2, <3>8
      <3>4. x <= e
        <4>1. CASE i = n
          BY <3>1, <3>2, <4>1
        <4>2. CASE i < n
          <5>1. n \in 1 .. n /\ fs[i].sector + fs[i].sectorcnt <= fs[n].sector
            BY <2>3, <2>4, <3>1, <4>2
          <5>2. fs[n].sector \in Nat /\ fs[n].sectorcnt \in Nat
            BY <2>4, <5>1
          <5>3. QED
            BY ONLY <3>1, <3>2, <5>1, <5>2
        <4>3. QED
          BY <2>2, <3>1, <4>1, <4>2
      <3>5. \A k \in 1 .. W : part[x * W + k - 1] = OldSector(i, s)[k]
        BY <1>1 DEF OldSector, fs
      <3> HIDE DEF x
      <3>6. Kept(x, i, s)
        BY <3>3, <3>5, SectorFits, KeptFact
      <3>7. QED
        <4>1. x <= 4 + e
          BY ONLY <3>3, <3>4, <2>5
        <4>2. QED
          BY <3>3, <3>6, <4>1
    <2> HIDE DEF e
    <2>13. \A i \in FileNos : N[i] \in Nat /\ N[i] >= 4 + 2 /\ i \in Nat /\ i >= 1
      <3>1. ASSUME NEW i \in 1 .. n PROVE N[i] \in Nat /\ N[i] >= 4 + 2 /\ i \in Nat /\ i >= 1
        <4>1. fs[i].sector \in Nat /\ fs[i].sector >= 4 /\ N[i] = fs[i].sector + 2
          BY <2>4, <2>10
        <4>2. QED
          BY ONLY <4>1, i \in 1 .. n
      <3>2. QED
        BY <2>3, <3>1
    <2>14. Moving(t, N, 1, 2, 4)
      <3>1. 2 \in Nat /\ 4 \in Nat /\ 1 \in Nat /\ \A i \in FileNos : ~(i < 1)
        BY <2>13
      <3>2. QED
        BY <2>11, <2>12, <2>13, <3>1 DEF Moving
    <2>15. Moving(t, N, 1, 2, 4)'
      BY <1>1, <2>14, MovingSame
    <2>16. N = Shifted(files)'
      BY <1>1, <2>1, <2>3, <2>10 DEF Shifted, FileNos
    <2>17. Moving(todo, Shifted(files), 1, 2, FirstSector)'
      BY <2>6, <2>9, <2>15, <2>16
    <2>18. FilesOk(files)' /\ Len(files') > 0 /\ todo' \in Seq(MigOps)
      <3>1. FilesOk(files)'
        BY <1>1, <2>1, <2>2 DEF FilesOk, FileNos
      <3>2. QED
        BY <2>1, <2>3, <2>9, <2>11, <3>1
    <2>19. (files = Table(layout.files))'
      BY <1>1, <2>1 DEF fs
    <2>20. QED
      BY <1>1, <1>3, <2>17, <2>18, <2>19 DEF MoveInv
  <1>4. QED
    BY <1>2, <1>3

(* One sector operation, or one part of a header.                          *)
LEMMA MoveOp ==
  ASSUME MoveInv, MigOp
  PROVE  MoveInv'
  <1>1. /\ layout \in Layouts /\ todo # <<>> /\ Fits(Head(todo)) /\ todo' = Tail(todo)
        /\ UNCHANGED <<layout, files, id, phase>>
        /\ part' = CASE Head(todo).op = "copy"   -> copySector(Head(todo))
                     [] Head(todo).op = "erase"  -> eraseSector(Head(todo))
                     [] Head(todo).op = "record" -> writeRecord(Head(todo), files[id - 1])
                     [] OTHER                    -> part
    BY DEF MigOp, MoveInv
  <1>2. phase # "start"
    BY <1>1 DEF MoveInv
  <1>3. CASE phase \notin {"shift", "reserve", "grow", "header"}
    BY <1>1, <1>2, <1>3 DEF MoveInv
  <1>4. CASE phase \in {"shift", "reserve", "grow", "header"}
    <2>1. DOMAIN part = 0 .. NSECT * W - 1 /\ FilesOk(files) /\ todo \in Seq(MigOps) /\ Len(files) > 0
      BY <1>4 DEF MoveInv
    <2>2. FilesOk(files)' /\ todo' \in Seq(MigOps) /\ Len(files') > 0
      <3>1. FilesOk(files)'
        BY <1>1, <2>1 DEF FilesOk, FileNos
      <3>2. Tail(todo) \in Seq(MigOps)
        BY ONLY <1>1, <2>1
      <3>3. QED
        BY <1>1, <2>1, <3>1, <3>2
    <2>3. PICK t : t = todo
      OBVIOUS
    <2>4. t \in Seq(MigOps) /\ t # <<>> /\ t[1] = Head(todo) /\ todo' = Tail(t)
      BY <1>1, <2>1, <2>3
    <2>5. /\ Fits(t[1])
          /\ part' = CASE t[1].op = "copy" -> copySector(t[1])
                       [] t[1].op = "erase" -> eraseSector(t[1])
                       [] t[1].op = "record" -> writeRecord(t[1], files[id - 1])
                       [] OTHER -> part
      BY <1>1, <2>4
    <2>6. ASSUME NEW N, NEW m, NEW d, NEW lo, Moving(t, N, m, d, lo)
          PROVE  Moving(Tail(t), N, m, d, lo)' /\ DOMAIN part' = DOMAIN part
      BY <1>1, <2>1, <2>4, <2>5, <2>6, MovingStep
    <2>7. CASE phase = "shift"
      <3>1. files = Table(layout.files) /\ Moving(t, Shifted(files), 1, 2, FirstSector)
        BY <2>3, <2>7 DEF MoveInv
      <3>2. PICK N : N = Shifted(files)
        OBVIOUS
      <3>3. PICK lo : lo = FirstSector
        OBVIOUS
      <3>4. Moving(Tail(t), N, 1, 2, lo)' /\ DOMAIN part' = DOMAIN part
        BY <2>6, <3>1, <3>2, <3>3
      <3>5. Shifted(files)' = N
        BY <1>1, <3>2 DEF Shifted, FileNos
      <3>6. Moving(todo, Shifted(files), 1, 2, FirstSector)'
        BY <2>4, <3>3, <3>4, <3>5
      <3>7. QED
        BY <1>1, <2>1, <2>2, <2>7, <3>1, <3>4, <3>6 DEF MoveInv
    <2>8. CASE phase = "reserve"
      <3>1. Moving(t, Sectors(files), 1, 2, FirstSector)
        BY <2>3, <2>8 DEF MoveInv
      <3>2. PICK N : N = Sectors(files)
        OBVIOUS
      <3>3. PICK lo : lo = FirstSector
        OBVIOUS
      <3>4. Moving(Tail(t), N, 1, 2, lo)' /\ DOMAIN part' = DOMAIN part
        BY <2>6, <3>1, <3>2, <3>3
      <3>5. Sectors(files)' = N
        BY <1>1, <3>2 DEF Sectors, FileNos
      <3>6. Moving(todo, Sectors(files), 1, 2, FirstSector)'
        BY <2>4, <3>3, <3>4, <3>5
      <3>7. QED
        BY <1>1, <2>1, <2>2, <2>8, <3>4, <3>6 DEF MoveInv
    <2>9. CASE phase = "grow"
      <3>1. /\ id \in 0 .. Len(files)
            /\ \E d, lo \in Nat : Moving(t, Sectors(files), id + 2, d, lo)
        BY <2>3, <2>9 DEF MoveInv
      <3>2. PICK d \in Nat, lo \in Nat : Moving(t, Sectors(files), id + 2, d, lo)
        BY <3>1
      <3>3. PICK N : N = Sectors(files)
        OBVIOUS
      <3>4. PICK m : m = id + 2
        OBVIOUS
      <3>5. Moving(Tail(t), N, m, d, lo)' /\ DOMAIN part' = DOMAIN part
        BY <2>6, <3>2, <3>3, <3>4
      <3>6. Sectors(files)' = N
        BY <1>1, <3>3 DEF Sectors, FileNos
      <3>7. Moving(todo, Sectors(files), id + 2, d, lo)'
        BY <1>1, <2>4, <3>4, <3>5, <3>6
      <3>8. QED
        BY <1>1, <2>1, <2>2, <2>9, <3>1, <3>5, <3>7 DEF MoveInv
    <2>10. CASE phase = "header"
      <3>1. /\ \A k \in 1 .. Len(todo) : todo[k].op = "header"
            /\ \A i \in FileNos : \A s \in Used(i) : Kept(files[i].sector + s, i, s)
        BY <2>10 DEF MoveInv
      <3>2. /\ Len(t) \in Nat /\ Len(t) > 0 /\ Len(Tail(t)) = Len(t) - 1
            /\ \A k \in 1 .. Len(t) - 1 : Tail(t)[k] = t[k + 1]
        BY ONLY <2>4
      <3>3. t[1].op = "header"
        BY <2>3, <3>1, <3>2
      <3>4. part' = part
        BY <2>5, <3>3
      <3>5. \A k \in 1 .. Len(Tail(t)) : Tail(t)[k].op = "header"
        <4>1. ASSUME NEW k \in 1 .. Len(Tail(t)) PROVE Tail(t)[k].op = "header"
          <5>1. k \in 1 .. Len(t) - 1 /\ k + 1 \in 1 .. Len(t)
            BY <3>2
          <5>2. QED
            BY <2>3, <3>1, <3>2, <5>1
        <4>2. QED
          BY <4>1
      <3>6. \A x, i, s : Kept(x, i, s)' = Kept(x, i, s)
        BY <1>1, <3>4, KeptSame
      <3>7. \A i \in FileNos' : \A s \in Used(i)' : Kept(files[i].sector + s, i, s)'
        <4>1. FileNos' = FileNos /\ \A i : Used(i)' = Used(i)
          BY <1>1 DEF FileNos, Used
        <4>2. QED
          BY <1>1, <3>1, <3>6, <4>1
      <3>8. QED
        BY <1>1, <2>1, <2>2, <2>4, <2>10, <3>4, <3>5, <3>7 DEF MoveInv
    <2>11. QED
      BY <1>4, <2>7, <2>8, <2>9, <2>10
  <1>5. QED
    BY <1>3, <1>4

(* When a list is done every sector of every file is where it will be.     *)
LEMMA MovedFact ==
  ASSUME NEW N, NEW m, NEW d, NEW lo, Moving(<<>>, N, m, d, lo)
  PROVE  \A i \in FileNos : N[i] \in Nat /\ \A s \in Used(i) : Kept(N[i] + s, i, s)
  BY DEF Moving, Copying

(* The two reserved sectors are erased where the first file was.           *)
LEMMA MoveShifted ==
  ASSUME MoveInv, MigShifted
  PROVE  MoveInv'
  <1> DEFINE fs == [i \in 1 .. Len(files) |-> [files[i] EXCEPT !.sector = @ + 2]]
             e == <<EraseOp(FirstSector), EraseOp(FirstSector + 1)>>
             n == Len(files)
  <1>1. /\ phase = "shift" /\ todo = <<>> /\ UNCHANGED <<layout, part>> /\ files' = fs /\ todo' = e
        /\ phase' = "reserve"
    BY DEF MigShifted, PhaseOver
  <1>2. /\ layout \in Layouts /\ DOMAIN part = 0 .. NSECT * W - 1 /\ FilesOk(files) /\ n > 0
        /\ Moving(<<>>, Shifted(files), 1, 2, FirstSector)
    BY <1>1 DEF MoveInv
  <1>3. /\ n \in Nat /\ FileNos = 1 .. n
        /\ \A i \in 1 .. n : /\ files[i] \in TableEntry /\ files[i].sector \in Nat /\ files[i].sectorcnt \in Nat
                             /\ layout.files[i].sectorcnt \in Nat
                             /\ layout.files[i].sectorcnt <= files[i].sectorcnt /\ files[i].sector >= 4
        /\ \A i, j \in 1 .. n : /\ i < j => files[i].sector + files[i].sectorcnt <= files[j].sector
                                /\ j = i + 1 => files[i].sector + files[i].sectorcnt = files[j].sector
    BY <1>2, FilesFact
  <1>4. FirstSector = 4
    BY DEF FirstSector, HEADER_SECTOR_CNT
  <1>5. \A i \in 1 .. n : /\ fs[i] \in TableEntry /\ fs[i].sector = files[i].sector + 2
                          /\ fs[i].sectorcnt = files[i].sectorcnt
    <2>1. ASSUME NEW i \in 1 .. n
          PROVE  /\ fs[i] \in TableEntry /\ fs[i].sector = files[i].sector + 2
                 /\ fs[i].sectorcnt = files[i].sectorcnt
      <3>1. files[i] \in TableEntry /\ files[i].sector + 2 \in Nat
        BY <1>3
      <3>2. fs[i] = [files[i] EXCEPT !.sector = @ + 2]
        OBVIOUS
      <3>3. QED
        BY <3>1, <3>2 DEF TableEntry
    <2>2. QED
      BY <2>1
  <1>6. fs = [i \in 1 .. n |-> fs[i]] /\ Len(fs) = n
    BY <1>3
  <1> HIDE DEF fs, n
  <1>7. fs \in Seq(TableEntry)
    BY <1>3, <1>5, <1>6
  <1>8. FilesOk(fs)
    <2>1. Len(fs) = Len(layout.files)
      BY <1>2, <1>6 DEF FilesOk, n
    <2>2. ASSUME NEW i \in 1 .. n
          PROVE  layout.files[i].sectorcnt <= fs[i].sectorcnt /\ fs[i].sector >= 4
      <3>1. /\ files[i].sector \in Nat /\ files[i].sector >= 4 /\ fs[i].sector = files[i].sector + 2
            /\ layout.files[i].sectorcnt <= files[i].sectorcnt /\ fs[i].sectorcnt = files[i].sectorcnt
        BY <1>3, <1>5
      <3>2. QED
        BY ONLY <3>1
    <2>3. ASSUME NEW i \in 1 .. n, NEW j \in 1 .. n
          PROVE  /\ i < j => fs[i].sector + fs[i].sectorcnt <= fs[j].sector
                 /\ j = i + 1 => fs[i].sector + fs[i].sectorcnt = fs[j].sector
      <3>1. /\ files[i].sector \in Nat /\ fs[i].sector = files[i].sector + 2
            /\ files[j].sector \in Nat /\ fs[j].sector = files[j].sector + 2
            /\ files[i].sectorcnt \in Nat /\ fs[i].sectorcnt = files[i].sectorcnt
            /\ i < j => files[i].sector + files[i].sectorcnt <= files[j].sector
            /\ j = i + 1 => files[i].sector + files[i].sectorcnt = files[j].sector
        BY <1>3, <1>5
      <3>2. QED
        BY ONLY <3>1
    <2>4. QED
      BY <1>3, <1>4, <1>7, <2>1, <2>2, <2>3 DEF FilesOk
  <1>9. PICK N : N = [i \in 1 .. n |-> fs[i].sector]
    OBVIOUS
  <1>10. N = Shifted(files)
    BY <1>3, <1>5, <1>9 DEF Shifted
  <1>11. \A i \in FileNos : N[i] \in Nat /\ N[i] >= 6 /\ \A s \in Used(i) : Kept(N[i] + s, i, s) /\ s \in Nat
    <2>1. ASSUME NEW i \in FileNos PROVE N[i] \in Nat /\ N[i] >= 6 /\ \A s \in Used(i) : Kept(N[i] + s, i, s) /\ s \in Nat
      <3>1. N[i] \in Nat /\ \A s \in Used(i) : Kept(N[i] + s, i, s)
        BY <1>2, <1>10, MovedFact
      <3>2. files[i].sector \in Nat /\ files[i].sector >= 4 /\ N[i] = files[i].sector + 2
        BY <1>3, <1>5, <1>9
      <3>3. N[i] >= 6
        BY ONLY <3>2
      <3>4. \A s \in Used(i) : s \in Nat
        BY <1>3 DEF Used
      <3>5. QED
        BY <3>1, <3>3, <3>4
    <2>2. QED
      BY <2>1
  <1>12. /\ e \in Seq(MigOps) /\ Len(e) = 2
         /\ \A k \in 1 .. 2 : e[k].op = "erase" /\ e[k].to \in {4, 5}
    <2>1. EraseOp(4) \in MigOps /\ EraseOp(5) \in MigOps
      BY DEF EraseOp, MigOps
    <2>2. e = <<EraseOp(4), EraseOp(5)>>
      BY <1>4
    <2>3. e \in Seq(MigOps) /\ Len(e) = 2 /\ e[1] = EraseOp(4) /\ e[2] = EraseOp(5)
      BY <2>1, <2>2
    <2>4. \A k \in 1 .. 2 : k = 1 \/ k = 2
      OBVIOUS
    <2>5. \A k \in 1 .. 2 : e[k].op = "erase" /\ e[k].to \in {4, 5}
      BY <2>3, <2>4 DEF EraseOp
    <2>6. QED
      BY <2>3, <2>5
  <1> HIDE DEF e
  <1>13. Down(e, N, 2, 4) /\ ~Copying(e)
    <2>1. \A k \in 1 .. 2 : \A i \in FileNos : \A s \in Used(i) : e[k].to # N[i] + s
      BY <1>11, <1>12
    <2>2. \A k \in 1 .. 2 : k < 2 => k + 1 \in 1 .. 2
      OBVIOUS
    <2>3. Down(e, N, 2, 4)
      BY <1>12, <2>1, <2>2 DEF Down
    <2>4. ~Copying(e)
      BY <1>12 DEF Copying
    <2>5. QED
      BY <2>3, <2>4
  <1>14. Moving(e, N, 1, 2, 4)
    <2>1. 2 \in Nat /\ 4 \in Nat /\ 1 \in Nat /\ \A i \in FileNos : ~(i < 1)
      BY <1>3
    <2>2. \A i \in FileNos : N[i] >= 4 + 2
      BY <1>11
    <2>3. QED
      BY <1>11, <1>13, <2>1, <2>2 DEF Moving
  <1>15. PICK t : t = e
    OBVIOUS
  <1>16. Moving(t, N, 1, 2, 4)'
    BY <1>1, <1>14, <1>15, MovingSame
  <1>17. Sectors(files)' = N
    BY <1>1, <1>3, <1>9 DEF Sectors, FileNos
  <1>18. Moving(todo, Sectors(files), 1, 2, FirstSector)'
    BY <1>1, <1>4, <1>15, <1>16, <1>17
  <1>19. FilesOk(files)' /\ Len(files') > 0 /\ todo' \in Seq(MigOps)
    <2>1. FilesOk(files)'
      BY <1>1, <1>8 DEF FilesOk, FileNos
    <2>2. QED
      BY <1>1, <1>2, <1>6, <1>12, <2>1
  <1>20. QED
    BY <1>1, <1>2, <1>18, <1>19 DEF MoveInv

(* Nothing is moved from above the end of the last file.                   *)
LEMMA MoveReserved ==
  ASSUME MoveInv, MigReserved
  PROVE  MoveInv'
  <1> DEFINE n == Len(files)
  <1>1. /\ phase = "reserve" /\ todo = <<>> /\ UNCHANGED <<layout, part, files, todo>>
        /\ id' = n /\ phase' = "grow"
    BY DEF MigReserved, PhaseOver
  <1>2. /\ layout \in Layouts /\ DOMAIN part = 0 .. NSECT * W - 1 /\ FilesOk(files) /\ n > 0
        /\ Moving(<<>>, Sectors(files), 1, 2, FirstSector)
    BY <1>1 DEF MoveInv
  <1>3. /\ n \in Nat /\ FileNos = 1 .. n
        /\ \A i \in 1 .. n : /\ files[i].sector \in Nat /\ files[i].sectorcnt \in Nat
                             /\ layout.files[i].sectorcnt \in Nat
                             /\ layout.files[i].sectorcnt <= files[i].sectorcnt
        /\ \A i, j \in 1 .. n : i < j => files[i].sector + files[i].sectorcnt <= files[j].sector
    BY <1>2, FilesFact
  <1> HIDE DEF n
  <1>4. PICK lo : lo = files[n].sector + files[n].sectorcnt
    OBVIOUS
  <1>5. n \in 1 .. n /\ lo \in Nat
    BY <1>2, <1>3, <1>4
  <1>6. PICK N : N = Sectors(files)
    OBVIOUS
  <1>7. \A i \in FileNos : N[i] \in Nat /\ \A s \in Used(i) : Kept(N[i] + s, i, s)
    BY <1>2, <1>6, MovedFact
  <1>8. ASSUME NEW i \in FileNos, NEW s \in Used(i) PROVE N[i] + s < lo
    <2>1. /\ i \in 1 .. n /\ N[i] = files[i].sector /\ s \in 0 .. layout.files[i].sectorcnt - 1
          /\ files[i].sector \in Nat /\ files[i].sectorcnt \in Nat /\ layout.files[i].sectorcnt \in Nat
          /\ layout.files[i].sectorcnt <= files[i].sectorcnt
      BY <1>3, <1>6 DEF Sectors, Used
    <2>2. N[i] + s < files[i].sector + files[i].sectorcnt
      BY ONLY <2>1
    <2>3. CASE i = n
      BY <2>2, <2>3, <1>4
    <2>4. CASE i < n
      <3>1. files[i].sector + files[i].sectorcnt <= files[n].sector /\ files[n].sector \in Nat /\ files[n].sectorcnt \in Nat
        BY <1>3, <1>5, <2>1, <2>4
      <3>2. N[i] + s \in Int
        BY ONLY <2>1
      <3>3. QED
        BY ONLY <1>4, <2>1, <2>2, <3>1, <3>2
    <2>5. QED
      BY <1>3, <2>1, <2>3, <2>4
  <1>9. PICK m : m = n + 2
    OBVIOUS
  <1>10. Moving(<<>>, N, m, 0, lo)
    <2>1. m \in Nat /\ 0 \in Nat /\ \A i \in FileNos : ~(i >= m)
      BY <1>3, <1>9
    <2>2. Down(<<>>, N, 0, lo) /\ ~Copying(<<>>)
      BY DEF Down, Copying
    <2>3. QED
      BY <1>5, <1>7, <1>8, <2>1, <2>2 DEF Moving
  <1>11. Moving(<<>>, N, m, 0, lo)'
    BY <1>1, <1>10, MovingSame
  <1>12. Sectors(files)' = N
    BY <1>1, <1>6 DEF Sectors, FileNos
  <1>13. \E d, l \in Nat : Moving(todo, Sectors(files), id + 2, d, l)'
    <2>1. Moving(todo, Sectors(files), id + 2, 0, lo)'
      BY <1>1, <1>9, <1>11, <1>12
    <2>2. 0 \in Nat
      OBVIOUS
    <2>3. QED
      BY <1>5, <2>1, <2>2
  <1>14. FilesOk(files)' /\ todo' \in Seq(MigOps) /\ Len(files') > 0 /\ id' \in 0 .. Len(files')
    <2>1. FilesOk(files)'
      BY <1>1, <1>2 DEF FilesOk, FileNos
    <2>2. id' \in 0 .. Len(files')
      BY <1>1, <1>3 DEF n
    <2>3. todo' \in Seq(MigOps)
      BY <1>1
    <2>4. QED
      BY <1>1, <1>2, <2>1, <2>2, <2>3 DEF n
  <1>15. QED
    BY <1>1, <1>2, <1>13, <1>14 DEF MoveInv

(* The files after one grows by d sectors.                                 *)
LEMMA RealocatedFact ==
  ASSUME layout \in Layouts, FilesOk(files), NEW i \in 1 .. Len(files)
  PROVE  /\ Growth(files[i]) \in Nat /\ FilesOk(realocated(i)) /\ Len(realocated(i)) = Len(files)
         /\ \A j \in 1 .. Len(files) : realocated(i)[j].sector = IF j <= i THEN files[j].sector
                                                                 ELSE files[j].sector + Growth(files[i])
  <1> DEFINE n == Len(files)
             d == Growth(files[i])
             fs == realocated(i)
             e(j) == IF j < i THEN files[j]
                     ELSE IF j = i THEN [files[j] EXCEPT !.sectorcnt = @ + d]
                     ELSE [files[j] EXCEPT !.sector = @ + d]
  <1>1. /\ n \in Nat /\ FileNos = 1 .. n
        /\ \A j \in 1 .. n : /\ files[j] \in TableEntry /\ files[j].sector \in Nat /\ files[j].sectorcnt \in Nat
                             /\ layout.files[j].sectorcnt \in Nat
                             /\ layout.files[j].sectorcnt <= files[j].sectorcnt /\ files[j].sector >= 4
        /\ \A j, k \in 1 .. n : /\ j < k => files[j].sector + files[j].sectorcnt <= files[k].sector
                                /\ k = j + 1 => files[j].sector + files[j].sectorcnt = files[k].sector
    BY FilesFact
  <1>2. i \in 1 .. n /\ i \in Int
    OBVIOUS
  <1>3. d \in Nat
    BY <1>1, GrowthFact
  <1>4. fs = [j \in 1 .. n |-> e(j)]
    BY DEF realocated
  <1> HIDE DEF n, d, fs
  <1>5. ASSUME NEW j \in 1 .. n
        PROVE  /\ e(j) \in TableEntry
               /\ e(j).sector = IF j <= i THEN files[j].sector ELSE files[j].sector + d
               /\ e(j).sectorcnt = IF j = i THEN files[j].sectorcnt + d ELSE files[j].sectorcnt
    <2>1. /\ files[j] \in TableEntry /\ files[j].sector \in Nat /\ files[j].sectorcnt \in Nat /\ j \in Int
          /\ files[j].sector + d \in Nat /\ files[j].sectorcnt + d \in Nat
      <3>1. files[j] \in TableEntry /\ files[j].sector \in Nat /\ files[j].sectorcnt \in Nat /\ j \in Int
        BY ONLY <1>1, j \in 1 .. n
      <3>2. QED
        BY ONLY <1>3, <3>1
    <2>2. CASE j < i
      <3>1. e(j) = files[j] /\ j <= i /\ j # i
        BY <1>2, <2>1, <2>2
      <3> HIDE DEF e
      <3>2. QED
        BY <2>1, <3>1
    <2>3. CASE j = i
      <3>1. e(j) = [files[j] EXCEPT !.sectorcnt = files[j].sectorcnt + d] /\ j <= i
        BY <1>2, <2>1, <2>3
      <3> HIDE DEF e
      <3>2. QED
        BY <2>1, <2>3, <3>1 DEF TableEntry
    <2>4. CASE j > i
      <3>1. e(j) = [files[j] EXCEPT !.sector = files[j].sector + d] /\ ~(j <= i) /\ j # i
        BY <1>2, <2>1, <2>4
      <3> HIDE DEF e
      <3>2. QED
        BY <2>1, <2>4, <3>1 DEF TableEntry
    <2>5. QED
      BY <1>2, <2>1, <2>2, <2>3, <2>4
  <1> HIDE DEF e
  <1>6. /\ fs \in Seq(TableEntry) /\ Len(fs) = n
        /\ \A j \in 1 .. n : /\ fs[j].sector = IF j <= i THEN files[j].sector ELSE files[j].sector + d
                             /\ fs[j].sectorcnt = IF j = i THEN files[j].sectorcnt + d ELSE files[j].sectorcnt
    <2>1. fs \in Seq(TableEntry) /\ Len(fs) = n /\ \A j \in 1 .. n : fs[j] = e(j)
      BY <1>1, <1>4, <1>5
    <2>2. QED
      BY <1>5, <2>1
  <1>7. ASSUME NEW j \in 1 .. n
        PROVE  layout.files[j].sectorcnt <= fs[j].sectorcnt /\ fs[j].sector >= 4
    <2>1. /\ files[j].sector \in Nat /\ files[j].sectorcnt \in Nat /\ layout.files[j].sectorcnt \in Nat
          /\ layout.files[j].sectorcnt <= files[j].sectorcnt /\ files[j].sector >= 4
          /\ fs[j].sector = (IF j <= i THEN files[j].sector ELSE files[j].sector + d)
          /\ fs[j].sectorcnt = (IF j = i THEN files[j].sectorcnt + d ELSE files[j].sectorcnt)
      BY <1>1, <1>6
    <2>2. QED
      BY ONLY <1>3, <2>1
  <1>8. ASSUME NEW j \in 1 .. n, NEW k \in 1 .. n
        PROVE  /\ j < k => fs[j].sector + fs[j].sectorcnt <= fs[k].sector
               /\ k = j + 1 => fs[j].sector + fs[j].sectorcnt = fs[k].sector
    <2>1. /\ files[j].sector \in Nat /\ files[j].sectorcnt \in Nat /\ files[k].sector \in Nat
          /\ fs[j].sector = (IF j <= i THEN files[j].sector ELSE files[j].sector + d)
          /\ fs[j].sectorcnt = (IF j = i THEN files[j].sectorcnt + d ELSE files[j].sectorcnt)
          /\ fs[k].sector = (IF k <= i THEN files[k].sector ELSE files[k].sector + d)
          /\ j < k => files[j].sector + files[j].sectorcnt <= files[k].sector
          /\ k = j + 1 => files[j].sector + files[j].sectorcnt = files[k].sector
          /\ j \in Int /\ k \in Int
      <3>1. /\ files[j].sector \in Nat /\ files[j].sectorcnt \in Nat /\ files[k].sector \in Nat
            /\ j < k => files[j].sector + files[j].sectorcnt <= files[k].sector
            /\ k = j + 1 => files[j].sector + files[j].sectorcnt = files[k].sector
        BY ONLY <1>1, j \in 1 .. n, k \in 1 .. n
      <3>2. /\ fs[j].sector = (IF j <= i THEN files[j].sector ELSE files[j].sector + d)
            /\ fs[j].sectorcnt = (IF j = i THEN files[j].sectorcnt + d ELSE files[j].sectorcnt)
            /\ fs[k].sector = (IF k <= i THEN files[k].sector ELSE files[k].sector + d)
        BY ONLY <1>6, j \in 1 .. n, k \in 1 .. n
      <3>3. j \in Int /\ k \in Int
        BY ONLY <1>1, j \in 1 .. n, k \in 1 .. n
      <3>4. QED
        BY <3>1, <3>2, <3>3
    <2> DEFINE a == files[j].sector
               b == files[j].sectorcnt
               c == files[k].sector
    <2>2. CASE j < i
      <3>1. fs[j].sector = a /\ fs[j].sectorcnt = b /\ (fs[k].sector = c \/ fs[k].sector = c + d)
            /\ (k = j + 1 => fs[k].sector = c)
        BY <1>2, <2>1, <2>2
      <3> HIDE DEF a, b, c
      <3>2. /\ a \in Nat /\ b \in Nat /\ c \in Nat /\ (j < k => a + b <= c) /\ (k = j + 1 => a + b = c)
        BY <2>1 DEF a, b, c
      <3>3. QED
        BY ONLY <1>3, <3>1, <3>2
    <2>3. CASE j = i
      <3>1. fs[j].sector = a /\ fs[j].sectorcnt = b + d /\ (j < k \/ k = j + 1 => fs[k].sector = c + d)
        BY <1>2, <2>1, <2>3
      <3> HIDE DEF a, b, c
      <3>2. /\ a \in Nat /\ b \in Nat /\ c \in Nat /\ (j < k => a + b <= c) /\ (k = j + 1 => a + b = c)
        BY <2>1 DEF a, b, c
      <3>3. QED
        BY ONLY <1>3, <3>1, <3>2
    <2>4. CASE j > i
      <3>1. fs[j].sector = a + d /\ fs[j].sectorcnt = b /\ (j < k \/ k = j + 1 => fs[k].sector = c + d)
        BY <1>2, <2>1, <2>4
      <3> HIDE DEF a, b, c
      <3>2. /\ a \in Nat /\ b \in Nat /\ c \in Nat /\ (j < k => a + b <= c) /\ (k = j + 1 => a + b = c)
        BY <2>1 DEF a, b, c
      <3>3. QED
        BY ONLY <1>3, <3>1, <3>2
    <2>5. QED
      BY <1>2, <2>1, <2>2, <2>3, <2>4
  <1>9. FilesOk(fs)
    <2>1. n = Len(layout.files) /\ FirstSector = 4
      BY DEF FilesOk, n, FirstSector, HEADER_SECTOR_CNT
    <2>2. QED
      BY <1>1, <1>6, <1>7, <1>8, <2>1 DEF FilesOk
  <1>10. QED
    BY <1>3, <1>6, <1>9 DEF n, d, fs

(* File id grows into the sectors of the files above it, which move up.    *)
LEMMA MoveGrow ==
  ASSUME MoveInv, MigGrow
  PROVE  MoveInv'
  <1> DEFINE n == Len(files)
  <1>1. /\ phase = "grow" /\ todo = <<>> /\ UNCHANGED <<layout, part>>
    BY DEF MigGrow, PhaseOver
  <1>2. /\ layout \in Layouts /\ DOMAIN part = 0 .. NSECT * W - 1 /\ FilesOk(files) /\ n > 0
        /\ id \in 0 .. n
        /\ \E d, lo \in Nat : Moving(<<>>, Sectors(files), id + 2, d, lo)
    BY <1>1 DEF MoveInv
  <1>3. /\ n \in Nat /\ FileNos = 1 .. n
        /\ \A i \in 1 .. n : /\ files[i].sector \in Nat /\ files[i].sectorcnt \in Nat
                             /\ layout.files[i].sectorcnt \in Nat
                             /\ layout.files[i].sectorcnt <= files[i].sectorcnt
        /\ \A i, j \in 1 .. n : /\ i < j => files[i].sector + files[i].sectorcnt <= files[j].sector
                                /\ j = i + 1 => files[i].sector + files[i].sectorcnt = files[j].sector
    BY <1>2, FilesFact
  <1>4. \A i \in FileNos : \A s \in Used(i) : Kept(files[i].sector + s, i, s)
    <2>1. PICK d \in Nat, lo \in Nat : Moving(<<>>, Sectors(files), id + 2, d, lo)
      BY <1>2
    <2>2. PICK N : N = Sectors(files)
      OBVIOUS
    <2>3. PICK m : m = id + 2
      OBVIOUS
    <2>4. \A i \in FileNos : \A s \in Used(i) : Kept(N[i] + s, i, s)
      BY <2>1, <2>2, <2>3, MovedFact
    <2>5. QED
      BY <2>2, <2>4 DEF Sectors
  <1>5. CASE ~(id > 0)
    <2>1. todo' = HeaderOps /\ phase' = "header" /\ files' = files /\ id' = id
      BY <1>5 DEF MigGrow
    <2>2. HeaderOps \in Seq(MigOps) /\ \A k \in 1 .. Len(HeaderOps) : HeaderOps[k].op = "header"
      <3> DEFINE w == Len(files) + 1
                 z == 2 * w
                 e(k) == [op |-> "header", to |-> (k - 1) \div w, from |-> (k - 1) % w]
      <3>1. HeaderOps = [k \in 1 .. z |-> e(k)]
        BY DEF HeaderOps
      <3>2. w \in Nat \ {0} /\ z \in Nat
        BY <1>3
      <3>3. ASSUME NEW k \in 1 .. z PROVE e(k) \in MigOps /\ e(k).op = "header"
        <4>1. k - 1 \in Nat
          BY <3>2
        <4>2. (k - 1) \div w \in Int /\ (k - 1) % w \in Int
          <5> HIDE DEF w
          <5>1. QED
            BY <3>2, <4>1
        <4>3. QED
          BY <4>2 DEF MigOps
      <3> HIDE DEF e, z, w
      <3>4. QED
        BY <3>1, <3>2, <3>3
    <2>3. FilesOk(files)'
      BY <1>1, <1>2, <2>1 DEF FilesOk, FileNos
    <2>4. \A i \in FileNos' : \A s \in Used(i)' : Kept(files[i].sector + s, i, s)'
      <3>1. \A x, i, s : Kept(x, i, s)' = Kept(x, i, s)
        BY <1>1, KeptSame
      <3>2. FileNos' = FileNos /\ \A i : Used(i)' = Used(i)
        BY <1>1 DEF FileNos, Used
      <3>3. QED
        BY <1>4, <2>1, <3>1, <3>2
    <2>5. QED
      BY <1>1, <1>2, <2>1, <2>2, <2>3, <2>4 DEF MoveInv
  <1>6. CASE id > 0
    <2>1. todo' = realocateOps(id) /\ files' = realocated(id) /\ id' = id - 1 /\ phase' = "grow"
      BY <1>1, <1>6 DEF MigGrow
    <2>2. PICK i : i = id
      OBVIOUS
    <2>3. i \in 1 .. n /\ i \in Nat
      BY <1>2, <1>3, <1>6, <2>2
    <2>4. PICK d : d = Growth(files[i])
      OBVIOUS
    <2>5. /\ d \in Nat /\ FilesOk(realocated(i)) /\ Len(realocated(i)) = n
          /\ \A j \in 1 .. n : realocated(i)[j].sector = IF j <= i THEN files[j].sector ELSE files[j].sector + d
      BY <1>2, <2>3, <2>4, RealocatedFact
    <2>6. PICK lo : lo = files[i].sector + files[i].sectorcnt
      OBVIOUS
    <2>7. lo \in Nat /\ files[i].sector \in Nat /\ files[i].sectorcnt \in Nat
      BY <1>3, <2>3, <2>6
    <2>8. PICK N : N = [j \in 1 .. n |-> realocated(i)[j].sector]
      OBVIOUS
    <2> HIDE DEF n
    <2>9. ASSUME NEW j \in 1 .. n
          PROVE  /\ N[j] \in Nat /\ j \in Nat
                 /\ j > i => N[j] = files[j].sector + d /\ N[j] >= lo + d
                 /\ j <= i => N[j] = files[j].sector /\ \A s \in Used(j) : N[j] + s < lo
                 /\ \A s \in Used(j) : s \in Nat
      <3>1. /\ files[j].sector \in Nat /\ files[j].sectorcnt \in Nat /\ j \in Nat
            /\ layout.files[j].sectorcnt \in Nat /\ layout.files[j].sectorcnt <= files[j].sectorcnt
            /\ N[j] = (IF j <= i THEN files[j].sector ELSE files[j].sector + d)
        BY <1>3, <2>5, <2>8
      <3>2. N[j] \in Nat
        BY ONLY <3>1, <2>5
      <3>3. ASSUME j > i PROVE N[j] = files[j].sector + d /\ N[j] >= lo + d
        <4>1. files[i].sector + files[i].sectorcnt <= files[j].sector
          BY <1>3, <2>3, <3>3
        <4>2. N[j] = files[j].sector + d
          BY <3>1, <3>3, <2>3
        <4>3. QED
          BY ONLY <2>5, <2>6, <2>7, <3>1, <4>1, <4>2
      <3>4. \A s \in Used(j) : s \in Nat /\ s < files[j].sectorcnt
        BY <3>1 DEF Used
      <3>5. ASSUME j <= i PROVE N[j] = files[j].sector /\ \A s \in Used(j) : N[j] + s < lo
        <4>1. N[j] = files[j].sector
          BY <3>1, <3>5
        <4>2. files[j].sector + files[j].sectorcnt <= lo
          <5>1. CASE j = i
            BY <2>6, <2>7, <5>1
          <5>2. CASE j < i
            <6>1. files[j].sector + files[j].sectorcnt <= files[i].sector
              BY <1>3, <2>3, <5>2
            <6>2. QED
              BY ONLY <2>6, <2>7, <3>1, <6>1
          <5>3. QED
            BY <2>3, <3>1, <3>5, <5>1, <5>2
        <4>3. ASSUME NEW s \in Used(j) PROVE N[j] + s < lo
          <5>1. s \in Nat /\ s < files[j].sectorcnt
            BY <3>4
          <5>2. QED
            BY ONLY <2>7, <3>1, <4>1, <4>2, <5>1
        <4>4. QED
          BY <4>1, <4>3
      <3>6. QED
        BY <3>1, <3>2, <3>3, <3>4, <3>5
    <2> DEFINE c == moveFiles(n - i, d)
               e == [k \in 1 .. d |-> EraseOp(files[i].sector + files[i].sectorcnt - 1 + d)]
    <2>10. realocateOps(i) = c \o e
      BY <2>4 DEF realocateOps, n
    <2>11. IF i = n THEN c = <<>> ELSE Chain(c, End, lo, d)
      <3>1. n - i \in Nat /\ n - i <= Len(files) /\ (n - i = 0 <=> i = n) /\ n + 1 - (n - i) = i + 1
        BY <1>3, <2>3 DEF n
      <3>2. IF n - i = 0 THEN c = <<>> ELSE Chain(c, End, files[n + 1 - (n - i)].sector, d)
        BY <1>2, <2>5, <3>1, FilesChain DEF n
      <3>3. CASE i = n
        BY <3>1, <3>2, <3>3
      <3>4. CASE i # n
        <4>1. i + 1 \in 1 .. n
          BY <1>3, <2>3, <3>4
        <4>2. files[i + 1].sector = lo
          BY <1>3, <2>3, <2>6, <4>1
        <4>3. QED
          BY <3>1, <3>2, <3>4, <4>2
      <3>5. QED
        BY <3>3, <3>4
    <2>12. e \in Seq(MigOps) /\ Erasing(e, N)
      <3> DEFINE x == files[i].sector + files[i].sectorcnt - 1 + d
                 o == EraseOp(x)
      <3>9. x = (lo + d) - 1 /\ x \in Int
        <4> DEFINE a == files[i].sector
                   b == files[i].sectorcnt
        <4>1. a \in Nat /\ b \in Nat /\ d \in Nat /\ lo = a + b /\ x = a + b - 1 + d
          BY <2>5, <2>6, <2>7
        <4> HIDE DEF a, b, x
        <4>2. QED
          BY ONLY <4>1
      <3>1. o.op = "erase" /\ o.to = x
        BY DEF EraseOp
      <3>2. o \in MigOps
        BY <3>9 DEF EraseOp, MigOps
      <3>3. e = [k \in 1 .. d |-> o]
        OBVIOUS
      <3> HIDE DEF o, e, x
      <3>4. e \in Seq(MigOps) /\ Len(e) = d /\ \A k \in 1 .. d : e[k] = o
        BY <2>5, <3>2, <3>3
      <3>5. ASSUME d > 0, NEW j \in FileNos, NEW s \in Used(j) PROVE x \in Nat /\ x # N[j] + s
        <4>1. j \in 1 .. n
          BY <1>3
        <4>2. s \in Nat /\ N[j] \in Nat /\ (j > i => N[j] >= lo + d) /\ (j <= i => N[j] + s < lo) /\ j \in Nat
          BY <2>9, <4>1
        <4>3. QED
          BY ONLY <2>3, <2>5, <2>7, <3>5, <3>9, <4>2
      <3>6. d > 0 => x \in Nat
        BY ONLY <2>5, <2>7, <3>9
      <3>7. ASSUME NEW k \in 1 .. Len(e)
            PROVE  /\ e[k].op = "erase" /\ e[k].to \in Nat
                   /\ \A j \in FileNos : \A s \in Used(j) : e[k].to # N[j] + s
        <4>1. e[k] = o /\ d > 0
          BY <2>5, <3>4
        <4>2. QED
          BY <3>1, <3>5, <3>6, <4>1
      <3>8. QED
        BY <3>4, <3>7 DEF Erasing
    <2> HIDE DEF c, e
    <2>13. PICK t : t = c \o e
      OBVIOUS
    <2>14. /\ t \in Seq(MigOps) /\ Down(t, N, d, lo)
           /\ IF c = <<>> THEN ~Copying(t) ELSE Copying(t) /\ t[1].from = End
      <3>1. c = <<>> \/ Chain(c, End, lo, d)
        BY <2>11
      <3>2. /\ c \o e \in Seq(MigOps) /\ Down(c \o e, N, d, lo)
            /\ IF c = <<>> THEN ~Copying(c \o e) ELSE Copying(c \o e) /\ (c \o e)[1].from = End
        BY ONLY <2>12, <3>1, ChainDown
      <3>3. QED
        BY <2>13, <3>2
    <2>15. i # n => Copying(t) /\ t[1].from = End
      <3>1. SUFFICES ASSUME i # n PROVE c # <<>>
        BY <2>14
      <3>2. Chain(c, End, lo, d)
        BY <2>11, <3>1
      <3>3. QED
        BY <3>2 DEF Chain
    <2>16. ASSUME NEW j \in FileNos, NEW s \in Used(j)
           PROVE  IF Copying(t) /\ j >= i + 1 /\ N[j] - d + s <= t[1].from THEN Kept(N[j] - d + s, j, s)
                  ELSE Kept(N[j] + s, j, s)
      <3>1. j \in 1 .. n /\ Kept(files[j].sector + s, j, s)
        BY <1>3, <1>4
      <3>2. /\ N[j] \in Nat /\ j \in Nat /\ s \in Nat
            /\ j > i => N[j] = files[j].sector + d
            /\ j <= i => N[j] = files[j].sector
        BY <2>9, <3>1
      <3>3. files[j].sector \in Nat /\ files[j].sectorcnt \in Nat /\ s < files[j].sectorcnt
        <4>1. /\ files[j].sector \in Nat /\ files[j].sectorcnt \in Nat /\ layout.files[j].sectorcnt \in Nat
              /\ layout.files[j].sectorcnt <= files[j].sectorcnt /\ s \in 0 .. layout.files[j].sectorcnt - 1
          BY <1>3, <3>1 DEF Used
        <4>2. QED
          BY ONLY <4>1
      <3>4. CASE j <= i
        <4>1. ~(j >= i + 1) /\ N[j] = files[j].sector
          BY <2>3, <3>2, <3>4
        <4>2. QED
          BY <3>1, <4>1
      <3>5. CASE j > i
        <4>1. i # n /\ N[j] = files[j].sector + d
          BY <1>3, <2>3, <3>1, <3>2, <3>5
        <4>2. files[j].sector + s <= End
          <5>1. n \in 1 .. n /\ files[n].sector \in Nat /\ files[n].sectorcnt \in Nat
            BY <1>2, <1>3
          <5>2. End = files[n].sector + files[n].sectorcnt
            BY DEF End, Last, n
          <5>3. CASE j = n
            BY ONLY <3>2, <3>3, <5>2, <5>3
          <5>4. CASE j < n
            <6>1. files[j].sector + files[j].sectorcnt <= files[n].sector
              BY <1>3, <3>1, <5>1, <5>4
            <6>2. QED
              BY ONLY <3>2, <3>3, <5>1, <5>2, <6>1
          <5>5. QED
            BY <1>3, <3>1, <5>3, <5>4
        <4>3. N[j] - d + s = files[j].sector + s /\ j >= i + 1
          BY <2>3, <2>5, <3>2, <3>3, <3>5, <4>1
        <4>4. QED
          BY <2>15, <3>1, <4>1, <4>2, <4>3
      <3>6. QED
        BY <2>3, <3>2, <3>4, <3>5
    <2>17. Moving(t, N, i + 1, d, lo)
      <3>1. i + 1 \in Nat
        BY <2>3
      <3>2. ASSUME NEW j \in FileNos
            PROVE  /\ N[j] \in Nat
                   /\ j >= i + 1 => N[j] >= lo + d
                   /\ j < i + 1 => \A s \in Used(j) : N[j] + s < lo
        <4>1. j \in 1 .. n /\ j \in Nat
          BY <1>3
        <4>2. (j >= i + 1 <=> j > i) /\ (j < i + 1 <=> j <= i)
          BY <2>3, <4>1
        <4>3. QED
          BY <2>9, <4>1, <4>2
      <3> DEFINE m == i + 1
      <3>3. /\ m \in Nat
            /\ \A j \in FileNos : /\ N[j] \in Nat
                                  /\ j >= m => N[j] >= lo + d
                                  /\ j < m => \A s \in Used(j) : N[j] + s < lo
            /\ \A j \in FileNos : \A s \in Used(j) :
                 IF Copying(t) /\ j >= m /\ N[j] - d + s <= t[1].from THEN Kept(N[j] - d + s, j, s)
                 ELSE Kept(N[j] + s, j, s)
        BY <2>16, <3>1, <3>2
      <3> HIDE DEF m
      <3>4. Moving(t, N, m, d, lo)
        BY <2>5, <2>7, <2>14, <3>3 DEF Moving
      <3>5. QED
        BY <3>4 DEF m
    <2>18. PICK m : m = i + 1
      OBVIOUS
    <2>19. Moving(t, N, m, d, lo)'
      BY <1>1, <2>17, <2>18, MovingSame
    <2>20. Sectors(files)' = N /\ todo' = t /\ id' + 2 = m /\ id' \in 0 .. n
      <3>1. Sectors(files)' = N
        BY <1>1, <1>3, <2>1, <2>2, <2>8 DEF Sectors, FileNos
      <3>2. id' = i - 1 /\ todo' = t
        BY <2>1, <2>2, <2>10, <2>13
      <3>3. QED
        BY <1>3, <2>3, <2>18, <3>1, <3>2
    <2>21. \E y, l \in Nat : Moving(todo, Sectors(files), id + 2, y, l)'
      <3>1. Moving(todo, Sectors(files), id + 2, d, lo)'
        BY <2>19, <2>20
      <3>2. QED
        BY <2>5, <2>7, <3>1
    <2>22. FilesOk(files)' /\ Len(files') = n /\ todo' \in Seq(MigOps)
      <3>1. FilesOk(realocated(i))
        BY <2>5
      <3>2. files' = realocated(i)
        BY <2>1, <2>2
      <3>3. FilesOk(files)'
        BY <1>1, <3>1, <3>2 DEF FilesOk, FileNos
      <3>4. QED
        BY <2>5, <2>14, <2>20, <3>2, <3>3
    <2>23. QED
      BY <1>1, <1>2, <2>1, <2>20, <2>21, <2>22 DEF MoveInv
  <1>7. QED
    BY <1>5, <1>6

(* A step that changes nothing.                                            *)
LEMMA MoveSame ==
  ASSUME MoveInv, UNCHANGED migVars
  PROVE  MoveInv'
  <1>1. UNCHANGED <<layout, part, hdr, files, id, todo, phase>>
    BY DEF migVars
  <1>2. FileNos' = FileNos /\ \A i : Used(i)' = Used(i)
    BY <1>1 DEF FileNos, Used
  <1>3. FilesOk(files) => FilesOk(files)'
    BY <1>1, <1>2 DEF FilesOk
  <1>4. \A x, i, s : Kept(x, i, s)' = Kept(x, i, s)
    BY <1>1, KeptSame
  <1>5. Sectors(files)' = Sectors(files) /\ Shifted(files)' = Shifted(files)
    BY <1>1, <1>2 DEF Sectors, Shifted
  <1>6. ASSUME phase = "shift" PROVE Moving(todo, Shifted(files), 1, 2, FirstSector)'
    <2>1. PICK t, N, lo : t = todo /\ N = Shifted(files) /\ lo = FirstSector
      OBVIOUS
    <2>2. Moving(t, N, 1, 2, lo)
      BY <1>6, <2>1 DEF MoveInv
    <2>3. Moving(t, N, 1, 2, lo)'
      BY <1>1, <2>2, MovingSame
    <2>4. QED
      BY <1>1, <1>5, <2>1, <2>3
  <1>7. ASSUME phase = "reserve" PROVE Moving(todo, Sectors(files), 1, 2, FirstSector)'
    <2>1. PICK t, N, lo : t = todo /\ N = Sectors(files) /\ lo = FirstSector
      OBVIOUS
    <2>2. Moving(t, N, 1, 2, lo)
      BY <1>7, <2>1 DEF MoveInv
    <2>3. Moving(t, N, 1, 2, lo)'
      BY <1>1, <2>2, MovingSame
    <2>4. QED
      BY <1>1, <1>5, <2>1, <2>3
  <1>8. ASSUME phase = "grow" PROVE \E d, lo \in Nat : Moving(todo, Sectors(files), id + 2, d, lo)'
    <2>1. PICK t, N, m : t = todo /\ N = Sectors(files) /\ m = id + 2
      OBVIOUS
    <2>2. PICK d \in Nat, lo \in Nat : Moving(t, N, m, d, lo)
      BY <1>8, <2>1 DEF MoveInv
    <2>3. Moving(t, N, m, d, lo)'
      BY <1>1, <2>2, MovingSame
    <2>4. Moving(todo, Sectors(files), id + 2, d, lo)'
      BY <1>1, <1>5, <2>1, <2>3
    <2>5. QED
      BY <2>4
  <1>9. QED
    BY <1>1, <1>2, <1>3, <1>4, <1>6, <1>7, <1>8 DEF MoveInv

(* Every step of the migration keeps the invariant.                        *)
LEMMA MoveStep == MoveInv /\ [MigNext]_migVars => MoveInv'
  <1> SUFFICES ASSUME MoveInv, [MigNext]_migVars PROVE MoveInv'
    OBVIOUS
  <1>1. CASE MigStart
    BY <1>1, MoveStart
  <1>2. CASE MigOp
    BY <1>2, MoveOp
  <1>3. CASE MigFail
    BY <1>3 DEF MigFail, MoveInv
  <1>4. CASE MigShifted
    BY <1>4, MoveShifted
  <1>5. CASE MigReserved
    BY <1>5, MoveReserved
  <1>6. CASE MigGrow
    BY <1>6, MoveGrow
  <1>7. CASE MigHeaders
    BY <1>7 DEF MigHeaders, PhaseOver, MoveInv
  <1>8. CASE MigConvert
    BY <1>8 DEF MigConvert, PhaseOver, MoveInv
  <1>9. CASE MigOver
    BY <1>9 DEF MigOver, migVars, MoveInv
  <1>10. CASE UNCHANGED migVars
    BY <1>10, MoveSame
  <1>11. QED
    BY <1>1, <1>2, <1>3, <1>4, <1>5, <1>6, <1>7, <1>8, <1>9, <1>10 DEF MigNext

(* A sector of an old file that is somewhere is on the device.             *)
LEMMA KeptOnDevice ==
  ASSUME NEW t \in Nat, NEW i, NEW s, Kept(t, i, s)
  PROVE  t \in 0 .. NSECT - 1
  <1>1. t * W + W <= NSECT * W
    BY KeptFact
  <1>2. W \in Nat /\ W > 0 /\ NSECT \in Nat
    BY MigrateAssumption
  <1>3. CASE t < NSECT
    BY <1>2, <1>3
  <1>4. CASE NSECT <= t
    <2>1. NSECT * W <= t * W
      BY ONLY <1>2, <1>4, t \in Nat
    <2>2. t * W \in Nat /\ NSECT * W \in Nat
      BY <1>2
    <2>3. QED
      BY ONLY <1>1, <1>2, <2>1, <2>2
  <1>5. QED
    BY <1>2, <1>3, <1>4

(* main of meterfs-migrate moves the files sector by sector in place, to   *)
(* make room for the reserved sectors and for files that grow, and any of  *)
(* the copies may be the last: for every old table that fits the device no *)
(* sector of a file is ever overwritten before it has been copied, and     *)
(* when the headers are written the files are where these say.             *)
THEOREM MovesLoseNothing == MigSpec => []SectorsSurvive
  <1>1. ASSUME MoveInv PROVE SectorsSurvive
    <2> SUFFICES ASSUME phase \in {"shift", "reserve", "grow", "header"},
                        NEW i \in 1 .. Len(layout.files), NEW s \in 0 .. layout.files[i].sectorcnt - 1
                 PROVE  IF phase = "header" THEN Holds((files[i].sector + s) * W, OldSector(i, s))
                        ELSE \E t \in 0 .. NSECT - 1 : Holds(t * W, OldSector(i, s))
      BY DEF SectorsSurvive
    <2>1. i \in FileNos /\ s \in Used(i) /\ layout \in Layouts /\ FilesOk(files)
      BY <1>1 DEF MoveInv, FileNos, Used
    <2>2. CASE phase = "header"
      BY <1>1, <2>1, <2>2 DEF MoveInv, Kept
    <2>3. CASE phase # "header"
      <3>1. PICK N, m, d, lo : Moving(todo, N, m, d, lo)
        <4>1. CASE phase = "shift"
          BY <1>1, <4>1 DEF MoveInv
        <4>2. CASE phase = "reserve"
          BY <1>1, <4>2 DEF MoveInv
        <4>3. CASE phase = "grow"
          BY <1>1, <4>3 DEF MoveInv
        <4>4. QED
          BY <2>3, <4>1, <4>2, <4>3
      <3>2. /\ d \in Nat /\ lo \in Nat /\ m \in Nat /\ N[i] \in Nat
            /\ i >= m => N[i] >= lo + d
            /\ IF Copying(todo) /\ i >= m /\ N[i] - d + s <= todo[1].from THEN Kept(N[i] - d + s, i, s)
               ELSE Kept(N[i] + s, i, s)
        BY <2>1, <3>1 DEF Moving
      <3>3. s \in Nat
        BY <2>1, FilesFact DEF FileNos
      <3>4. i >= m => N[i] - d + s \in Nat
        BY ONLY <3>2, <3>3
      <3>5. N[i] + s \in Nat
        BY ONLY <3>2, <3>3
      <3>6. \E t \in Nat : Kept(t, i, s)
        BY <3>2, <3>4, <3>5
      <3>7. PICK t \in Nat : Kept(t, i, s)
        BY <3>6
      <3>8. t \in 0 .. NSECT - 1
        BY <3>7, KeptOnDevice
      <3>9. QED
        BY <2>3, <3>7, <3>8 DEF Kept
    <2>4. QED
      BY <2>2, <2>3
  <1>2. QED
    BY <1>1, MoveInit, MoveStep, PTL DEF MigSpec

-----------------------------------------------------------------------------
(* psd of the i.MX RT boards, for every flash, page and report size and    *)
(* every sequence of commands.                                             *)
(*                                                                         *)
(* The property speaks of the moments between commands; what makes it hold *)
(* is what the buffers of the flash servers can contain inside one.  Only  *)
(* the current flash has anything in its buffer, and only from the first   *)
(* report of a file to its sync; and what a file puts there is its bytes   *)
(* so far and padding that never leaves the pages of the file, because     *)
(* every report but the last is a whole number of pages.                   *)
Phases == {"boot", "cmd", "flash", "close", "other", "file", "sync", "reply", "closed", "exited"}

(* The tables of the model are functions with these domains.               *)
Shape ==
  /\ prFlash \in PrFlashes
  /\ prCmd \in PrCommands \cup {PrNoCmd}
  /\ prPhase \in Phases
  /\ prCell = [f \in PrFlashes |-> prCell[f]]
  /\ prBuffer = [f \in PrFlashes |-> prBuffer[f]]
  /\ prKept = [f \in PrFlashes |-> prKept[f]]
  /\ \A f \in PrFlashes : /\ DOMAIN prCell[f] = PrCells
                          /\ DOMAIN prKept[f] \subseteq PrCells

(* The command that is being carried out.                                  *)
OwnCommand ==
  /\ prPhase \in {"flash", "close", "other", "file"} => prCmd.type = prPhase
  /\ prPhase = "sync" => prCmd.type = "file"

(* The buffers that are empty: of the flashes that are not current, and    *)
(* but for a file that is being written of the current one too.            *)
BuffersEmpty ==
  /\ \A f \in PrFlashes \ {prFlash} : DOMAIN prBuffer[f] = {}
  /\ prPhase \in {"boot", "cmd", "flash", "close", "other", "closed"} => DOMAIN prBuffer[prFlash] = {}
  /\ prPhase = "reply" /\ ~prErr => DOMAIN prBuffer[prFlash] = {}

WholePages(w) == \E k \in Nat : w = k * PRPAGE

(* How much of the file is in the buffer, and what.                        *)
FileSoFar ==
  prPhase \in {"file", "sync"} =>
    /\ prWritten \in Nat /\ prGot \in Nat
    /\ DOMAIN prBuffer[prFlash] = prCmd.address .. prCmd.address + prWritten - 1
    /\ DOMAIN prBuffer[prFlash] \subseteq PrCells
    /\ prWritten < prCmd.data => prGot = prWritten /\ WholePages(prWritten)
    /\ prWritten >= prCmd.data => prGot = prCmd.data
    /\ prWritten <= Rounded(prCmd.data)
    /\ \A a \in prCmd.address .. prCmd.address + prGot - 1 :
         prBuffer[prFlash][a] = <<prNo, a - prCmd.address + 1>>
    /\ prPhase = "sync" /\ ~prErr => prWritten >= prCmd.data

(* What is on the medium of what was reported complete.                    *)
OnMedium(f, D) == \A a \in DOMAIN prKept[f] \ D : prCell[f][a] = prKept[f][a]

KeptOnMedium ==
  /\ prPhase \in {"boot", "cmd", "flash", "close", "other", "file", "sync", "closed"} =>
       \A f \in PrFlashes : OnMedium(f, {})
  /\ prPhase = "reply" /\ ~prErr =>
       /\ \A f \in PrFlashes : OnMedium(f, IF prCmd.type = "file" /\ f = prFlash THEN Covered ELSE {})
       /\ prCmd.type = "file" =>
            \A a \in DOMAIN FileBytes : a \in PrCells /\ prCell[prFlash][a] = FileBytes[a]

RtInv == Shape /\ OwnCommand /\ BuffersEmpty /\ FileSoFar /\ KeptOnMedium

-----------------------------------------------------------------------------
(* Rounding up gives the next whole number of pages.                       *)
LEMMA RoundedFact ==
  ASSUME NEW n \in Nat
  PROVE  /\ WholePages(Rounded(n)) /\ Rounded(n) \in Nat
         /\ n <= Rounded(n) /\ Rounded(n) < n + PRPAGE
  <1> DEFINE x == n + PRPAGE - 1
             q == x \div PRPAGE
  <1>1. PRPAGE \in Nat \ {0} /\ x \in Nat
    BY PsdRtAssumption
  <1>2. x = PRPAGE * q + (x % PRPAGE) /\ x % PRPAGE \in 0 .. PRPAGE - 1 /\ q \in Nat
    BY <1>1
  <1>3. Rounded(n) = q * PRPAGE
    BY DEF Rounded
  <1> HIDE DEF q
  <1>4. q * PRPAGE = PRPAGE * q /\ q * PRPAGE \in Nat
    BY <1>1, <1>2
  <1>5. QED
    BY <1>1, <1>2, <1>3, <1>4 DEF WholePages

(* ... and the only one within a page above.                               *)
LEMMA RoundedUnique ==
  ASSUME NEW n \in Nat, NEW w, WholePages(w), n <= w, w < n + PRPAGE
  PROVE  Rounded(n) = w
  <1>1. PRPAGE \in Nat \ {0} /\ n + PRPAGE - 1 \in Nat
    BY PsdRtAssumption
  <1>2. PICK k \in Nat : w = k * PRPAGE
    BY DEF WholePages
  <1>3. k * PRPAGE \in Nat
    BY <1>1, <1>2
  <1>4. k * PRPAGE <= n + PRPAGE - 1 /\ n + PRPAGE - 1 < k * PRPAGE + PRPAGE
    BY <1>1, <1>2, <1>3
  <1>5. (n + PRPAGE - 1) \div PRPAGE = k
    BY <1>1, <1>4, DivFits
  <1>6. QED
    BY <1>2, <1>5 DEF Rounded

(* Sums of whole pages are whole pages.                                    *)
LEMMA PagesAdd ==
  ASSUME NEW v, NEW w, WholePages(v), WholePages(w)
  PROVE  WholePages(v + w)
  <1>1. PICK j \in Nat : v = j * PRPAGE
    BY DEF WholePages
  <1>2. PICK k \in Nat : w = k * PRPAGE
    BY DEF WholePages
  <1>3. (j + k) * PRPAGE = j * PRPAGE + k * PRPAGE /\ j + k \in Nat
    BY PsdRtAssumption
  <1>4. QED
    BY <1>1, <1>2, <1>3 DEF WholePages

(* A full report is whole pages, and what a report adds to whole pages     *)
(* stays within the pages of the file.                                     *)
LEMMA ReportFact ==
  /\ WholePages(PRREPORT) /\ Rounded(PRREPORT) = PRREPORT
  /\ \A w, d \in Nat : WholePages(w) /\ w <= d => w + Rounded(d - w) = Rounded(d)
  <1>1. PRPAGE \in Nat \ {0} /\ PRREPORT \in Nat
    BY PsdRtAssumption
  <1>2. WholePages(PRREPORT)
    <2> DEFINE q == PRREPORT \div PRPAGE
    <2>1. PRREPORT = PRPAGE * q + (PRREPORT % PRPAGE) /\ q \in Nat
      BY <1>1
    <2>2. PRREPORT % PRPAGE = 0
      BY PsdRtAssumption
    <2> HIDE DEF q
    <2>3. PRPAGE * q = q * PRPAGE /\ PRPAGE * q \in Nat
      BY <1>1, <2>1
    <2>4. PRREPORT = q * PRPAGE
      BY <2>1, <2>2, <2>3, <1>1
    <2>5. QED
      BY <2>1, <2>4 DEF WholePages
  <1>3. Rounded(PRREPORT) = PRREPORT
    BY <1>1, <1>2, RoundedUnique
  <1>4. ASSUME NEW w \in Nat, NEW d \in Nat, WholePages(w), w <= d
        PROVE  w + Rounded(d - w) = Rounded(d)
    <2>1. d - w \in Nat
      BY <1>4
    <2>2. /\ WholePages(Rounded(d - w)) /\ Rounded(d - w) \in Nat
          /\ d - w <= Rounded(d - w) /\ Rounded(d - w) < d - w + PRPAGE
      BY <2>1, RoundedFact
    <2>3. WholePages(w + Rounded(d - w))
      BY <1>4, <2>2, PagesAdd
    <2>4. d <= w + Rounded(d - w) /\ w + Rounded(d - w) < d + PRPAGE
      BY <1>1, <2>2
    <2>5. QED
      BY <2>3, <2>4, RoundedUnique
  <1>5. QED
    BY <1>2, <1>3, <1>4

-----------------------------------------------------------------------------
(* A sync of flash f, as a change of the cells of f alone.                 *)
LEMMA SyncedFact ==
  ASSUME Shape, NEW f \in PrFlashes, Synced(f)
  PROVE  /\ prCell' = [g \in PrFlashes |-> prCell'[g]]
         /\ prBuffer' = [g \in PrFlashes |-> prBuffer'[g]]
         /\ \A g \in PrFlashes : DOMAIN prCell'[g] = PrCells
         /\ \A g \in PrFlashes \ {f} : prCell'[g] = prCell[g] /\ prBuffer'[g] = prBuffer[g]
         /\ DOMAIN prBuffer'[f] = {}
         /\ \A a \in PrCells : prCell'[f][a] = IF a \in DOMAIN prBuffer[f] THEN prBuffer[f][a]
                                                ELSE prCell[f][a]
  <1>1. prCell'[f] = Flushed(prCell[f], prBuffer[f]) /\ prBuffer'[f] = <<>>
    BY DEF Shape, Synced
  <1>2. \A g \in PrFlashes \ {f} : prCell'[g] = prCell[g] /\ prBuffer'[g] = prBuffer[g]
    BY DEF Shape, Synced
  <1>3. /\ prCell' = [g \in PrFlashes |-> prCell'[g]]
        /\ prBuffer' = [g \in PrFlashes |-> prBuffer'[g]]
    BY DEF Shape, Synced
  <1>4. DOMAIN prBuffer'[f] = {}
    BY <1>1
  <1>5. /\ DOMAIN prCell'[f] = PrCells
        /\ \A a \in PrCells : prCell'[f][a] = IF a \in DOMAIN prBuffer[f] THEN prBuffer[f][a]
                                               ELSE prCell[f][a]
    BY <1>1 DEF Flushed, Shape
  <1>6. QED
    BY <1>2, <1>3, <1>4, <1>5 DEF Shape

(* The daemon starts with empty buffers and nothing promised.              *)
LEMMA RtInitInv == PsdRtInit => RtInv
  <1> SUFFICES ASSUME PsdRtInit PROVE RtInv
    OBVIOUS
  <1>1. 1 \in PrFlashes
    BY PsdRtAssumption DEF PrFlashes
  <1>2. \A f \in PrFlashes : /\ DOMAIN prBuffer[f] = {} /\ DOMAIN prKept[f] = {}
                             /\ DOMAIN prCell[f] = PrCells
    BY DEF PsdRtInit
  <1>3. Shape
    BY <1>1, <1>2 DEF PsdRtInit, Shape, Phases
  <1>4. QED
    BY <1>1, <1>2, <1>3
    DEF PsdRtInit, RtInv, OwnCommand, BuffersEmpty, FileSoFar, KeptOnMedium, OnMedium

(* A command begins, and nothing of it is in the buffer yet.               *)
LEMMA RecvInv ==
  ASSUME RtInv, PrRecv
  PROVE  RtInv'
  <1>1. /\ prPhase = "cmd" /\ prPhase' = prCmd'.type /\ prCmd' \in PrCommands
        /\ prGot' = 0 /\ prWritten' = 0 /\ prErr' = FALSE
        /\ UNCHANGED <<prRun, prFlash, prCell, prBuffer, prKept>>
    BY DEF PrRecv, RtInv, Shape
  <1>2. /\ prPhase' \in {"file", "flash", "close", "other"}
        /\ prCmd'.address \in Nat /\ prCmd'.data \in Nat
    BY <1>1, PsdRtAssumption
  <1>3. Shape'
    BY <1>1, <1>2 DEF RtInv, Shape, Phases
  <1>4. OwnCommand' /\ BuffersEmpty' /\ KeptOnMedium'
    BY <1>1, <1>2 DEF RtInv, OwnCommand, BuffersEmpty, KeptOnMedium, OnMedium
  <1>5. FileSoFar'
    <2>1. DOMAIN prBuffer'[prFlash'] = {}
      BY <1>1 DEF RtInv, BuffersEmpty
    <2>2. prCmd'.address .. prCmd'.address + prWritten' - 1 = {}
      BY <1>1, <1>2
    <2>3. prCmd'.address .. prCmd'.address + prGot' - 1 = {}
      BY <1>1, <1>2
    <2>4. WholePages(prWritten')
      BY <1>1, PsdRtAssumption DEF WholePages
    <2>5. prWritten' <= Rounded(prCmd'.data)
      BY <1>1, <1>2, RoundedFact
    <2>6. prWritten' \in Nat /\ prGot' \in Nat /\ prGot' = prWritten'
      BY <1>1
    <2>7. prWritten' >= prCmd'.data => prGot' = prCmd'.data
      BY <1>1, <1>2
    <2>8. prPhase' # "sync"
      BY <1>2
    <2>9. QED
      BY <2>1, <2>2, <2>3, <2>4, <2>5, <2>6, <2>7, <2>8 DEF FileSoFar
  <1>6. QED
    BY <1>3, <1>4, <1>5 DEF RtInv

(* Changing the flash syncs the one that is left, which changes nothing.   *)
LEMMA ChangeInv ==
  ASSUME RtInv, psd_changeFlash
  PROVE  RtInv'
  <1>1. /\ prPhase = "flash" /\ prPhase' = "reply" /\ prCmd.type = "flash"
        /\ prCmd' = prCmd /\ prKept' = prKept /\ prCmd \in PrCommands
        /\ Shape
    BY DEF psd_changeFlash, RtInv, OwnCommand, Shape, PrNoCmd
  <1>2. CASE prErr' = TRUE /\ UNCHANGED <<prFlash, prCell, prBuffer>>
    BY <1>1, <1>2
    DEF RtInv, Shape, Phases, OwnCommand, BuffersEmpty, FileSoFar, KeptOnMedium
  <1>3. CASE prCmd.data < FLASH_CNT /\ Synced(prFlash) /\ prFlash' = prCmd.data
    <2>1. prFlash' \in PrFlashes
      BY <1>1, <1>3, PsdRtAssumption DEF PrFlashes
    <2>2. /\ prCell' = [g \in PrFlashes |-> prCell'[g]]
          /\ prBuffer' = [g \in PrFlashes |-> prBuffer'[g]]
          /\ \A g \in PrFlashes : DOMAIN prCell'[g] = PrCells
          /\ \A g \in PrFlashes \ {prFlash} : prCell'[g] = prCell[g] /\ prBuffer'[g] = prBuffer[g]
          /\ DOMAIN prBuffer'[prFlash] = {}
          /\ \A a \in PrCells : prCell'[prFlash][a] = IF a \in DOMAIN prBuffer[prFlash]
                                                       THEN prBuffer[prFlash][a]
                                                       ELSE prCell[prFlash][a]
      BY <1>1, <1>3, SyncedFact DEF Shape
    <2>3. Shape'
      BY <1>1, <2>1, <2>2 DEF Shape, Phases
    <2>4. \A g \in PrFlashes : DOMAIN prBuffer'[g] = {}
      BY <2>2 DEF RtInv, BuffersEmpty
    <2>5. DOMAIN prBuffer[prFlash] = {}
      BY <1>1 DEF RtInv, BuffersEmpty
    <2>6. \A g \in PrFlashes : \A a \in PrCells : prCell'[g][a] = prCell[g][a]
      BY <2>2, <2>5
    <2>7. \A g \in PrFlashes : \A a \in DOMAIN prKept[g] : prCell'[g][a] = prKept[g][a]
      BY <1>1, <2>6 DEF RtInv, KeptOnMedium, OnMedium, Shape
    <2>8. KeptOnMedium'
      BY <1>1, <2>7 DEF KeptOnMedium, OnMedium
    <2>9. QED
      BY <1>1, <2>1, <2>3, <2>4, <2>8 DEF RtInv, OwnCommand, BuffersEmpty, FileSoFar
  <1>4. QED
    BY <1>2, <1>3 DEF psd_changeFlash

(* A report adds its bytes behind those that came before.                  *)
LEMMA ReportInv ==
  ASSUME RtInv, PrReport
  PROVE  RtInv'
  <1> DEFINE A    == prCmd.address
             d    == prCmd.data
             w    == prWritten
             left == d - prGot
             res  == IF left < PRREPORT THEN left ELSE PRREPORT
             at   == A + w
             new  == at .. at + Rounded(res) - 1
             byte(a) == IF a < at + res THEN <<prNo, prGot + a - at + 1>> ELSE Nothing
             old  == prBuffer[prFlash]
  <1>1. /\ prPhase = "file" /\ prPhase' = "file" /\ prWritten < prCmd.data
        /\ new \subseteq PrCells
        /\ prBuffer' = [prBuffer EXCEPT ![prFlash] =
                          [a \in new \cup DOMAIN old |->
                             IF a \in new THEN byte(a) ELSE old[a]]]
        /\ prGot' = prGot + res
        /\ prWritten' = prWritten + Rounded(res)
        /\ UNCHANGED <<prRun, prCmd, prNo, prFlash, prCell, prErr, prKept>>
    BY DEF PrReport
  <1>2. /\ A \in Nat /\ d \in Nat /\ prCmd.type = "file" /\ PRREPORT \in Nat
        /\ prFlash \in PrFlashes /\ prBuffer = [f \in PrFlashes |-> prBuffer[f]]
    BY <1>1, PsdRtAssumption DEF RtInv, Shape, OwnCommand, PrNoCmd
  <1>3. /\ w \in Nat /\ prGot = w /\ WholePages(w)
        /\ DOMAIN old = A .. A + w - 1 /\ DOMAIN old \subseteq PrCells
        /\ \A a \in A .. A + w - 1 : old[a] = <<prNo, a - A + 1>>
    BY <1>1 DEF RtInv, FileSoFar
  <1>4. res \in Nat /\ w + res <= d /\ w <= d
    BY <1>1, <1>2, <1>3
  <1>5. Rounded(res) \in Nat /\ res <= Rounded(res)
    BY <1>4, RoundedFact
  <1>6. /\ prBuffer'[prFlash] = [a \in new \cup DOMAIN old |->
                                 IF a \in new THEN byte(a) ELSE old[a]]
        /\ \A f \in PrFlashes \ {prFlash} : prBuffer'[f] = prBuffer[f]
        /\ prBuffer' = [f \in PrFlashes |-> prBuffer'[f]]
    <2> DEFINE v == [a \in new \cup DOMAIN old |-> IF a \in new THEN byte(a) ELSE old[a]]
    <2>1. prBuffer' = [prBuffer EXCEPT ![prFlash] = v]
      BY <1>1
    <2> HIDE DEF v
    <2>2. /\ prBuffer'[prFlash] = v
          /\ \A f \in PrFlashes \ {prFlash} : prBuffer'[f] = prBuffer[f]
          /\ prBuffer' = [f \in PrFlashes |-> prBuffer'[f]]
      BY ONLY <1>2, <2>1
    <2>3. QED
      BY <2>2 DEF v
  <1>7. new \cup DOMAIN old = A .. A + (w + Rounded(res)) - 1
    <2> DEFINE r == Rounded(res)
    <2>1. A \in Nat /\ w \in Nat /\ r \in Nat /\ DOMAIN old = A .. A + w - 1
      BY <1>2, <1>3, <1>5
    <2> HIDE DEF A, w, r, old
    <2>2. (A + w .. A + w + r - 1) \cup (A .. A + w - 1) = A .. A + (w + r) - 1
      BY ONLY <2>1
    <2>3. new = A + w .. A + w + r - 1
      BY DEF r
    <2>4. QED
      BY ONLY <2>1, <2>2, <2>3 DEF r
  <1>8. \A a \in A .. A + (w + res) - 1 : prBuffer'[prFlash][a] = <<prNo, a - A + 1>>
    <2> SUFFICES ASSUME NEW a \in A .. A + (w + res) - 1
        PROVE  prBuffer'[prFlash][a] = <<prNo, a - A + 1>>
      OBVIOUS
    <2> HIDE DEF A, d, w, left, res, old
    <2>1. a \in new \cup DOMAIN old /\ a \in Int /\ at = A + w
      <3> HIDE DEF new
      <3>1. A + (w + res) - 1 <= A + (w + Rounded(res)) - 1
        BY <1>2, <1>3, <1>4, <1>5
      <3>2. a \in A .. A + (w + Rounded(res)) - 1
        BY <3>1, <1>2, <1>3, <1>4, <1>5
      <3>3. QED
        BY <3>2, <1>7
    <2>2. CASE a \in new
      <3>1. prBuffer'[prFlash][a] = byte(a)
        BY <2>1, <2>2, <1>6
      <3>2. a < at + res
        BY <1>2, <1>3, <1>4, <2>1
      <3>3. byte(a) = <<prNo, prGot + a - at + 1>>
        BY <3>2
      <3> HIDE DEF A, w, res, at, new, byte, old
      <3>4. prGot + a - at + 1 = a - A + 1
        BY <1>2, <1>3, <2>1
      <3>5. QED
        BY <3>1, <3>3, <3>4
    <2>3. CASE a \notin new
      <3>1. a \in DOMAIN old
        BY <2>1, <2>3
      <3>2. prBuffer'[prFlash][a] = old[a]
        BY <2>1, <2>3, <1>6
      <3> HIDE DEF A, w, res, at, new, byte, old
      <3>3. QED
        BY <3>1, <3>2, <1>3
    <2>4. QED
      BY <2>2, <2>3
  <1>9. /\ w + Rounded(res) < d => res = Rounded(res) /\ WholePages(w + Rounded(res))
        /\ w + Rounded(res) >= d => w + res = d
        /\ w + Rounded(res) <= Rounded(d)
    <2>1. CASE left < PRREPORT
      <3>1. res = d - w
        BY <2>1, <1>3
      <3>2. w + Rounded(res) = Rounded(d) /\ d <= Rounded(d) /\ Rounded(d) \in Nat
        BY <3>1, <1>2, <1>3, <1>4, ReportFact, RoundedFact
      <3>3. QED
        BY <3>1, <3>2, <1>2, <1>3, <1>4
    <2>2. CASE ~(left < PRREPORT)
      <3>1. res = PRREPORT /\ Rounded(res) = res /\ WholePages(res)
        BY <2>2, ReportFact
      <3>2. WholePages(w + Rounded(res))
        BY <3>1, <1>3, PagesAdd
      <3>3. d <= Rounded(d) /\ Rounded(d) \in Nat
        BY <1>2, RoundedFact
      <3>4. QED
        BY <3>1, <3>2, <3>3, <1>2, <1>3, <1>4, <1>5
    <2>3. QED
      BY <2>1, <2>2
  <1>10. DOMAIN prBuffer'[prFlash] = new \cup DOMAIN old
    BY <1>6
  <1> HIDE DEF A, d, w, left, res, at, new, byte, old
  <1>11. Shape'
    BY <1>1, <1>6 DEF RtInv, Shape
  <1>12. OwnCommand' /\ BuffersEmpty' /\ KeptOnMedium'
    <2>1. OwnCommand'
      BY <1>1, <1>2 DEF OwnCommand
    <2>2. BuffersEmpty'
      BY <1>1, <1>6 DEF RtInv, BuffersEmpty
    <2>3. KeptOnMedium'
      BY <1>1 DEF RtInv, KeptOnMedium, OnMedium
    <2>4. QED
      BY <2>1, <2>2, <2>3
  <1>13. FileSoFar'
    <2>1. prWritten' = w + Rounded(res) /\ prGot' = w + res /\ prCmd' = prCmd
          /\ prFlash' = prFlash /\ prNo' = prNo /\ prPhase' = "file"
      BY <1>1, <1>3 DEF w
    <2>2. DOMAIN prBuffer'[prFlash] \subseteq PrCells
      BY <1>1, <1>3, <1>10
    <2>3. prWritten' \in Nat /\ prGot' \in Nat
      BY <2>1, <1>3, <1>4, <1>5
    <2>4. prWritten' < prCmd.data => prGot' = prWritten' /\ WholePages(prWritten')
      BY <2>1, <1>9 DEF d
    <2>5. /\ prWritten' >= prCmd.data => prGot' = prCmd.data
          /\ prWritten' <= Rounded(prCmd.data)
      BY <2>1, <1>9 DEF d
    <2>6. DOMAIN prBuffer'[prFlash] = prCmd.address .. prCmd.address + prWritten' - 1
      BY <2>1, <1>7, <1>10 DEF A
    <2>7. \A a \in prCmd.address .. prCmd.address + prGot' - 1 :
            prBuffer'[prFlash][a] = <<prNo, a - prCmd.address + 1>>
      BY <2>1, <1>8 DEF A
    <2>8. QED
      BY <2>1, <2>2, <2>3, <2>4, <2>5, <2>6, <2>7 DEF FileSoFar
  <1>14. QED
    BY <1>11, <1>12, <1>13 DEF RtInv

(* The sync after a file brings all of it to the medium, or fails.         *)
LEMMA FileSyncInv ==
  ASSUME RtInv, PrFileSync
  PROVE  RtInv'
  <1>1. /\ prPhase = "sync" /\ prPhase' = "reply" /\ Shape /\ prCmd.type = "file"
        /\ UNCHANGED <<prRun, prCmd, prNo, prFlash, prGot, prWritten, prKept>>
        /\ prFlash \in PrFlashes
    BY DEF PrFileSync, RtInv, OwnCommand, Shape
  <1>2. CASE prErr' = TRUE /\ UNCHANGED <<prCell, prBuffer>>
    BY <1>1, <1>2
    DEF RtInv, Shape, Phases, OwnCommand, BuffersEmpty, FileSoFar, KeptOnMedium
  <1>3. CASE Synced(prFlash) /\ UNCHANGED prErr
    <2>1. /\ prCell' = [g \in PrFlashes |-> prCell'[g]]
          /\ prBuffer' = [g \in PrFlashes |-> prBuffer'[g]]
          /\ \A g \in PrFlashes : DOMAIN prCell'[g] = PrCells
          /\ \A g \in PrFlashes \ {prFlash} : prCell'[g] = prCell[g] /\ prBuffer'[g] = prBuffer[g]
          /\ DOMAIN prBuffer'[prFlash] = {}
          /\ \A a \in PrCells : prCell'[prFlash][a] = IF a \in DOMAIN prBuffer[prFlash]
                                                       THEN prBuffer[prFlash][a]
                                                       ELSE prCell[prFlash][a]
      BY <1>1, <1>3, SyncedFact
    <2>2. Shape'
      BY <1>1, <2>1 DEF Shape, Phases
    <2>3. \A g \in PrFlashes : DOMAIN prBuffer'[g] = {}
      BY <2>1 DEF RtInv, BuffersEmpty
    <2>4. ASSUME ~prErr
          PROVE  /\ \A a \in DOMAIN FileBytes : a \in PrCells /\ prCell'[prFlash][a] = FileBytes[a]
                 /\ \A a \in DOMAIN prKept[prFlash] \ Covered :
                      prCell'[prFlash][a] = prKept[prFlash][a]
      <3>1. prCmd.address \in Nat /\ prCmd.data \in Nat
        BY <1>1, PsdRtAssumption DEF Shape, PrNoCmd
      <3>2. /\ prWritten \in Nat /\ prWritten >= prCmd.data
            /\ DOMAIN prBuffer[prFlash] = prCmd.address .. prCmd.address + prWritten - 1
            /\ DOMAIN prBuffer[prFlash] \subseteq PrCells
            /\ prWritten <= Rounded(prCmd.data)
            /\ \A a \in prCmd.address .. prCmd.address + prCmd.data - 1 :
                 prBuffer[prFlash][a] = <<prNo, a - prCmd.address + 1>>
        BY <1>1, <2>4 DEF RtInv, FileSoFar
      <3>3. Rounded(prCmd.data) \in Nat
        BY <3>1, RoundedFact
      <3>4. DOMAIN FileBytes \subseteq DOMAIN prBuffer[prFlash]
        BY <3>1, <3>2 DEF FileBytes
      <3>5. \A a \in DOMAIN FileBytes : FileBytes[a] = prBuffer[prFlash][a]
        BY <3>2 DEF FileBytes
      <3>6. DOMAIN prBuffer[prFlash] \subseteq Covered
        BY <3>1, <3>2, <3>3 DEF Covered
      <3>7. \A a \in DOMAIN FileBytes : a \in PrCells /\ prCell'[prFlash][a] = FileBytes[a]
        BY <2>1, <3>2, <3>4, <3>5
      <3>8. \A a \in DOMAIN prKept[prFlash] : a \in PrCells /\ prCell[prFlash][a] = prKept[prFlash][a]
        BY <1>1 DEF RtInv, KeptOnMedium, OnMedium, Shape
      <3>9. QED
        BY <2>1, <3>6, <3>7, <3>8
    <2>5. \A g \in PrFlashes \ {prFlash} : \A a \in DOMAIN prKept[g] :
            prCell'[g][a] = prKept[g][a]
      BY <1>1, <2>1 DEF RtInv, KeptOnMedium, OnMedium
    <2>6. FileBytes' = FileBytes /\ Covered' = Covered
      BY <1>1 DEF FileBytes, Covered
    <2>7. KeptOnMedium'
      BY <1>1, <1>3, <2>4, <2>5, <2>6 DEF KeptOnMedium, OnMedium
    <2>8. QED
      BY <1>1, <2>2, <2>3, <2>7 DEF RtInv, OwnCommand, BuffersEmpty, FileSoFar
  <1>4. QED
    BY <1>2, <1>3 DEF PrFileSync, PrSync

(* The answer to a file promises its bytes; an error ends the session.     *)
LEMMA ReplyInv ==
  ASSUME RtInv, PrReply
  PROVE  RtInv'
  <1>1. /\ prPhase = "reply" /\ Shape /\ prFlash \in PrFlashes
        /\ UNCHANGED <<prRun, prCmd, prNo, prFlash, prCell, prBuffer, prGot, prWritten, prErr>>
    BY DEF PrReply, RtInv, Shape
  <1>2. CASE prPhase' = "exited" /\ UNCHANGED prKept
    BY <1>1, <1>2
    DEF RtInv, Shape, Phases, OwnCommand, BuffersEmpty, FileSoFar, KeptOnMedium
  <1>3. CASE ~prErr /\ prPhase' = "cmd" /\ prCmd.type # "file" /\ prKept' = prKept
    BY <1>1, <1>3
    DEF RtInv, Shape, Phases, OwnCommand, BuffersEmpty, FileSoFar, KeptOnMedium, OnMedium
  <1>4. CASE /\ ~prErr /\ prPhase' = "cmd" /\ prCmd.type = "file"
             /\ prKept' = [prKept EXCEPT ![prFlash] =
                             [a \in (DOMAIN prKept[prFlash] \ Covered) \cup DOMAIN FileBytes |->
                                IF a \in DOMAIN FileBytes THEN FileBytes[a]
                                ELSE prKept[prFlash][a]]]
    <2>1. /\ prKept'[prFlash] =
               [a \in (DOMAIN prKept[prFlash] \ Covered) \cup DOMAIN FileBytes |->
                  IF a \in DOMAIN FileBytes THEN FileBytes[a] ELSE prKept[prFlash][a]]
          /\ \A f \in PrFlashes \ {prFlash} : prKept'[f] = prKept[f]
          /\ prKept' = [f \in PrFlashes |-> prKept'[f]]
      BY <1>1, <1>4 DEF Shape
    <2>2. \A a \in DOMAIN FileBytes : a \in PrCells /\ prCell[prFlash][a] = FileBytes[a]
      BY <1>1, <1>4 DEF RtInv, KeptOnMedium
    <2>3. \A a \in DOMAIN prKept[prFlash] \ Covered : prCell[prFlash][a] = prKept[prFlash][a]
      BY <1>1, <1>4 DEF RtInv, KeptOnMedium, OnMedium
    <2>4. \A a \in DOMAIN prKept'[prFlash] : a \in PrCells /\ prCell[prFlash][a] = prKept'[prFlash][a]
      BY <1>1, <2>1, <2>2, <2>3 DEF Shape
    <2>5. \A f \in PrFlashes \ {prFlash} : \A a \in DOMAIN prKept[f] : prCell[f][a] = prKept[f][a]
      BY <1>1, <1>4 DEF RtInv, KeptOnMedium, OnMedium
    <2>6. Shape'
      <3>1. ASSUME NEW f \in PrFlashes PROVE DOMAIN prKept'[f] \subseteq PrCells
        <4>1. CASE f = prFlash
          BY <2>4, <4>1
        <4>2. CASE f # prFlash
          <5>1. prKept'[f] = prKept[f]
            BY <2>1, <4>2
          <5>2. QED
            BY <5>1, <1>1 DEF Shape
        <4>3. QED
          BY <4>1, <4>2
      <3>2. prKept' = [f \in PrFlashes |-> prKept'[f]]
        BY <2>1
      <3>3. QED
        BY <1>1, <1>4, <3>1, <3>2 DEF Shape, Phases
    <2>7. \A f \in PrFlashes : \A a \in DOMAIN prKept'[f] : prCell'[f][a] = prKept'[f][a]
      <3> SUFFICES ASSUME NEW f \in PrFlashes, NEW a \in DOMAIN prKept'[f]
                   PROVE  prCell[f][a] = prKept'[f][a]
        BY <1>1
      <3>1. CASE f = prFlash
        BY <2>4, <3>1
      <3>2. CASE f # prFlash
        <4>1. prKept'[f] = prKept[f]
          BY <2>1, <3>2
        <4>2. QED
          BY <4>1, <2>5, <3>2
      <3>3. QED
        BY <3>1, <3>2
    <2>8. KeptOnMedium'
      BY <1>4, <2>7 DEF KeptOnMedium, OnMedium
    <2>9. QED
      BY <1>1, <1>4, <2>6, <2>8 DEF RtInv, OwnCommand, BuffersEmpty, FileSoFar
  <1>5. QED
    BY <1>2, <1>3, <1>4 DEF PrReply

(* Every step of the daemon keeps the invariant.                           *)
LEMMA RtStepInv == RtInv /\ [PsdRtNext]_prVars => RtInv'
  <1> SUFFICES ASSUME RtInv, [PsdRtNext]_prVars PROVE RtInv'
    OBVIOUS
  <1> USE DEF RtInv, Shape, Phases, OwnCommand, BuffersEmpty, FileSoFar, KeptOnMedium, OnMedium
  <1>1. CASE PsdRtStart
    BY <1>1 DEF PsdRtStart
  <1>2. CASE PrRecv
    BY <1>2, RecvInv
  <1>3. CASE psd_changeFlash
    BY <1>3, ChangeInv
  <1>4. CASE PrCloseReg
    BY <1>4 DEF PrCloseReg
  <1>5. CASE PrUnrecognized
    BY <1>5 DEF PrUnrecognized
  <1>6. CASE PrReport
    BY <1>6, ReportInv
  <1>7. CASE PrReportFails
    BY <1>7 DEF PrReportFails
  <1>8. CASE PrFileEnds
    BY <1>8 DEF PrFileEnds
  <1>9. CASE PrFileSync
    BY <1>9, FileSyncInv
  <1>10. CASE PrReply
    BY <1>10, ReplyInv
  <1>11. CASE PrReboot
    <2>1. \A f \in PrFlashes : DOMAIN prBuffer'[f] = {}
      BY <1>11 DEF PrReboot
    <2>2. QED
      BY <1>11, <2>1 DEF PrReboot
  <1>12. CASE UNCHANGED prVars
    <2> USE <1>12 DEF prVars
    <2>1. Shape' /\ OwnCommand' /\ BuffersEmpty'
      OBVIOUS
    <2>2. FileSoFar'
      OBVIOUS
    <2>3. KeptOnMedium'
      <3>1. FileBytes' = FileBytes /\ Covered' = Covered
        BY DEF FileBytes, Covered
      <3>2. QED
        BY <3>1
    <2>4. QED
      BY <2>1, <2>2, <2>3
  <1>13. QED
    BY <1>1, <1>2, <1>3, <1>4, <1>5, <1>6, <1>7, <1>8, <1>9, <1>10, <1>11, <1>12 DEF PsdRtNext

(* A file that was answered for is on the medium between commands and      *)
(* after the reboot, whichever flash it went to and whatever was changed,  *)
(* refused or lost in between.                                             *)
THEOREM CompletedStays == PsdRtSpec => []CompletedSurvivesReboot
  <1>1. RtInv => CompletedSurvivesReboot
    BY DEF RtInv, KeptOnMedium, OnMedium, CompletedSurvivesReboot
  <1>2. QED
    BY <1>1, RtInitInv, RtStepInv, PTL DEF PsdRtSpec

-----------------------------------------------------------------------------
(* nandtool, for every flash, number of copies and request, whatever call  *)
(* to the flash server fails.                                              *)
(*                                                                         *)
(* The copies are replaced from the first to the last, so those ahead are  *)
(* still what they were; and when not all of those behind have failed, one *)
(* of them is new.  A run that fails fewer than all but one of the copies  *)
(* is always ahead of an old one or behind a new one.                      *)
NtEarly == {"start", "check", "erase", "flash", "digest"}
NtPhases == NtEarly \cup {"fcb", "dbbt", "scan", "dump", "done"}
FirstPage(b) == ntPage[b * NTPAGES]
CopyBase == IF ntPhase = "fcb" THEN 0 ELSE BCB_CNT

(* What the variables range over, and what is fixed by the phase.          *)
NtShape ==
  /\ ntReq \in NtRequests /\ ntPhase \in NtPhases /\ DOMAIN ntPage = NtPageNos
  /\ ntPhase = "erase" => ntReq.erase # <<>>
  /\ ntPhase = "flash" => ntReq.image > 0
  /\ ntPhase = "scan" => ~ntReq.dbbt
  /\ ntPhase \in NtEarly \cup {"fcb"} => ntTable = <<>>
  /\ Mixed \notin ToSet(ntTable)

(* The loop over the copies.                                               *)
CopyLoop ==
  ntPhase \in {"fcb", "dbbt"} =>
    /\ ntAt \in 0 .. BCB_CNT /\ ntFailed \in 0 .. ntAt /\ ntStep \in {"read", "erase", "write", "verify"}
    /\ ntAt = BCB_CNT => ntStep = "read"
    /\ ntPhase = "dbbt" /\ ntTable = <<>> => ntAt = 0 /\ ntStep = "read"
    /\ ntPhase = "dbbt" => ntStep # "verify"

(* The first block of a copy that was not touched yet.                     *)
FirstOld ==
  IF ntPhase \in {"fcb", "dbbt"} THEN CopyBase + ntAt + (IF ntStep \in {"read", "erase"} THEN 0 ELSE 1)
  ELSE IF ntPhase \in NtEarly THEN 0 ELSE 2 * BCB_CNT

OldAhead ==
  ntReq.image = 0 /\ ntReq.erase = <<>> =>
    \A b \in FirstOld .. 2 * BCB_CNT - 1 : FirstPage(b) = ntReq.before[b]

(* What is behind, and the block at hand between its erase and its write.  *)
NewBehind ==
  ntPhase = "fcb" \/ (ntPhase = "dbbt" /\ ntReq.bad \cap DbbtBlocks = {}) =>
    /\ ntFailed < ntAt => \E j \in 0 .. ntAt - 1 : FirstPage(CopyBase + j) = NewCopy
    /\ ntPhase = "dbbt" /\ ntStep = "write" => FirstPage(CopyBase + ntAt) = Erased

(* The table of a run that went through the DBBT without an error.         *)
TableWritten ==
  /\ ntPhase \in {"dump", "done"} /\ ~ntErr /\ ntReq.dbbt /\ ntReq.bad \cap DbbtBlocks = {}
  => \E b \in DbbtBlocks : FirstPage(b) = ntTable

BootInv == NtShape /\ CopyLoop /\ OldAhead /\ NewBehind /\ TableWritten

(* The first page of a block is in it and in no other.                     *)
LEMMA FirstPageFact ==
  ASSUME NEW b \in 0 .. NTBLOCKS - 1
  PROVE  b * NTPAGES \in NtPageNos /\ (b * NTPAGES) \div NTPAGES = b
  <1>1. NTPAGES \in Nat \ {0} /\ NTBLOCKS \in Nat \ {0}
    BY NandToolAssumption
  <1>2. b * NTPAGES \in Nat
    BY <1>1
  <1>3. (b * NTPAGES) \div NTPAGES = b
    BY <1>1, <1>2, DivFits
  <1>4. PICK d \in Nat : NTBLOCKS = b + 1 + d
    <2>1. NTBLOCKS - 1 - b \in Nat /\ NTBLOCKS = b + 1 + (NTBLOCKS - 1 - b)
      BY <1>1
    <2>2. QED
      BY <2>1
  <1>5. (b + 1 + d) * NTPAGES = b * NTPAGES + NTPAGES + d * NTPAGES /\ d * NTPAGES \in Nat
    BY <1>1
  <1>6. QED
    BY <1>1, <1>2, <1>3, <1>4, <1>5 DEF NtPageNos

(* No two blocks share a first page.                                       *)
LEMMA FirstPagesDiffer ==
  ASSUME NEW b \in 0 .. NTBLOCKS - 1, NEW c \in 0 .. NTBLOCKS - 1, b # c
  PROVE  b * NTPAGES # c * NTPAGES
  BY FirstPageFact

(* The boot control blocks are on the flash.                               *)
LEMMA BootBlocksFact ==
  /\ BCB_CNT \in Nat \ {0} /\ NTBLOCKS \in Nat \ {0} /\ 0 .. 2 * BCB_CNT - 1 \subseteq 0 .. NTBLOCKS - 1
  /\ BCB_DBBT_START \div NTPAGES = BCB_CNT
  <1>1. BCB_CNT \in Nat \ {0} /\ NTBLOCKS \in Nat \ {0} /\ NTPAGES \in Nat \ {0} /\ 2 * BCB_CNT <= NTBLOCKS
    BY NandToolAssumption
  <1>2. BCB_CNT \in 0 .. NTBLOCKS - 1
    BY <1>1
  <1>3. BCB_DBBT_START = BCB_CNT * NTPAGES
    BY NandToolAssumption
  <1>4. QED
    BY <1>1, <1>2, <1>3, FirstPageFact

(* Erasing leaves the pages of the other blocks, and a block that is not   *)
(* bad empty.                                                              *)
LEMMA WipeFact ==
  ASSUME NEW B, DOMAIN ntPage = NtPageNos
  PROVE  /\ DOMAIN Wipe(B) = NtPageNos
         /\ \A b \in 0 .. NTBLOCKS - 1 : Wipe(B)[b * NTPAGES] = IF b \in B \ ntReq.bad THEN Erased ELSE FirstPage(b)
  BY FirstPageFact DEF Wipe, FirstPage

(* Writing a page leaves the others.                                       *)
LEMMA WriteFact ==
  ASSUME NEW c \in 0 .. NTBLOCKS - 1, NEW v, DOMAIN ntPage = NtPageNos,
         ntPage' = [ntPage EXCEPT ![c * NTPAGES] = v]
  PROVE  /\ DOMAIN ntPage' = NtPageNos /\ ntPage'[c * NTPAGES] = v
         /\ \A b \in 0 .. NTBLOCKS - 1 : b # c => ntPage'[b * NTPAGES] = FirstPage(b)
  BY FirstPageFact, FirstPagesDiffer DEF FirstPage

(* Which option follows: never one before, and not past the DBBT if that   *)
(* is asked for.                                                           *)
Follows(from, q) ==
  /\ q \in NtPhases \ {"start"}
  /\ q = "check" => from <= 1
  /\ q = "erase" => from <= 2 /\ ntReq.erase # <<>>
  /\ q = "flash" => from <= 3 /\ ntReq.image > 0
  /\ q = "digest" => from <= 4
  /\ q = "fcb" => from <= 5
  /\ q = "dbbt" => from <= 6
  /\ q = "scan" => from <= 7 /\ ~ntReq.dbbt
  /\ from <= 6 /\ ntReq.dbbt => q \notin {"scan", "dump", "done"}
  /\ from <= 2 /\ ntReq.erase # <<>> => q \in {"check", "erase"}
  /\ from <= 3 /\ ntReq.image > 0 => q \in {"check", "erase", "flash"}
  /\ from <= 4 /\ ntReq.digest >= 0 => q \in {"check", "erase", "flash", "digest"}

(* NtFirst finds the first of the options from there on.                   *)
LEMMA FirstFact ==
  ASSUME NEW from \in 1 .. 9
  PROVE  Follows(from, NtFirst(from))
  <1> DEFINE due == {i \in from .. Len(NtOrder) : Wanted(NtOrder[i])}
  <1>1. Len(NtOrder) = 8
    BY DEF NtOrder
  <1>2. due \subseteq from .. 8 /\ due \subseteq Nat
    BY <1>1
  <1>3. /\ NtOrder[1] = "check" /\ NtOrder[2] = "erase" /\ NtOrder[3] = "flash" /\ NtOrder[4] = "digest"
        /\ NtOrder[5] = "fcb" /\ NtOrder[6] = "dbbt" /\ NtOrder[7] = "scan" /\ NtOrder[8] = "dump"
    BY DEF NtOrder
  <1>4. /\ Wanted("erase") => ntReq.erase # <<>>
        /\ Wanted("flash") => ntReq.image > 0
        /\ Wanted("scan") => ~ntReq.dbbt
        /\ ntReq.dbbt => Wanted("dbbt")
        /\ ntReq.erase # <<>> => Wanted("erase")
        /\ ntReq.image > 0 => Wanted("flash")
        /\ ntReq.digest >= 0 => Wanted("digest")
    BY DEF Wanted
  <1>5. /\ from <= 6 /\ ntReq.dbbt => 6 \in due
        /\ from <= 2 /\ ntReq.erase # <<>> => 2 \in due
        /\ from <= 3 /\ ntReq.image > 0 => 3 \in due
        /\ from <= 4 /\ ntReq.digest >= 0 => 4 \in due
    BY <1>1, <1>3, <1>4
  <1>6. CASE due = {}
    <2>1. NtFirst(from) = "done"
      BY <1>6 DEF NtFirst
    <2>2. QED
      BY <1>5, <1>6, <2>1 DEF Follows, NtPhases, NtEarly
  <1>7. CASE due # {}
    <2>1. PICK m : m = Min(due)
      OBVIOUS
    <2>2. m \in due /\ \A i \in due : m <= i
      BY <1>2, <1>7, <2>1, MinFact
    <2>3. NtFirst(from) = NtOrder[m] /\ Wanted(NtOrder[m])
      BY <1>7, <2>1, <2>2 DEF NtFirst
    <2>4. /\ m \in from .. 8 /\ m \in 1 .. 8
          /\ from <= 6 /\ ntReq.dbbt => m <= 6
          /\ from <= 2 /\ ntReq.erase # <<>> => m <= 2
          /\ from <= 3 /\ ntReq.image > 0 => m <= 3
          /\ from <= 4 /\ ntReq.digest >= 0 => m <= 4
      BY <1>2, <1>5, <2>2
    <2>5. m = 1 \/ m = 2 \/ m = 3 \/ m = 4 \/ m = 5 \/ m = 6 \/ m = 7 \/ m = 8
      BY <2>4
    <2> HIDE DEF due
    <2>6. QED
      BY <1>3, <1>4, <2>3, <2>4, <2>5 DEF Follows, NtPhases, NtEarly
  <1>8. QED
    BY <1>6, <1>7


(* The option at work is over: the next one, or after an error the dump.   *)
Entered(from) ==
  /\ Follows(from, ntPhase')
  /\ ntPhase' \in {"fcb", "dbbt"} => ntAt' = 0 /\ ntFailed' = 0 /\ ntStep' = "read"
  /\ ntPhase' = "flash" => ntPos' = 0 /\ ntAt' = ntReq.start * NTPAGES
  /\ ntPhase' = "digest" => ntPos' = ntReq.digest /\ ntAt' = ntReq.start

(* Enter starts the first option that is asked for from there on.          *)
LEMMA EnterFact ==
  ASSUME NEW from \in 1 .. 9, Enter(NtFirst(from))
  PROVE  Entered(from)
  <1>1. PICK q : q = NtFirst(from)
    OBVIOUS
  <1>2. Follows(from, q) /\ Enter(q)
    BY <1>1, FirstFact
  <1>3. ntPhase' = q /\ ntStep' = "read" /\ ntFailed' = 0
    BY <1>2 DEF Enter
  <1>4. /\ q \in {"fcb", "dbbt"} => ntAt' = 0
        /\ q = "flash" => ntPos' = 0 /\ ntAt' = ntReq.start * NTPAGES
        /\ q = "digest" => ntPos' = ntReq.digest /\ ntAt' = ntReq.start
    BY <1>2 DEF Enter
  <1>5. QED
    BY <1>2, <1>3, <1>4 DEF Entered

(* The two ways out of an option.                                          *)
LEMMA SucceedFact ==
  ASSUME Succeed
  PROVE  /\ ntErr' = ntErr
         /\ ntPhase = "check" => Entered(2)
         /\ ntPhase = "erase" => Entered(3)
         /\ ntPhase = "flash" => Entered(4)
         /\ ntPhase = "digest" => Entered(5)
         /\ ntPhase = "fcb" => Entered(6)
         /\ ntPhase = "dbbt" => Entered(7)
         /\ ntPhase = "scan" => Entered(8)
  <1>1. PICK i \in DOMAIN NtOrder : NtOrder[i] = ntPhase /\ Enter(NtFirst(i + 1))
    BY DEF Succeed
  <1>2. DOMAIN NtOrder = 1 .. 8
    BY DEF NtOrder
  <1>3. i \in 1 .. 8 /\ i + 1 \in 1 .. 9
    BY <1>1, <1>2
  <1>4. Entered(i + 1)
    BY <1>1, <1>3, EnterFact
  <1>5. i = 1 \/ i = 2 \/ i = 3 \/ i = 4 \/ i = 5 \/ i = 6 \/ i = 7 \/ i = 8
    BY <1>3
  <1>6. /\ NtOrder[1] = "check" /\ NtOrder[2] = "erase" /\ NtOrder[3] = "flash" /\ NtOrder[4] = "digest"
        /\ NtOrder[5] = "fcb" /\ NtOrder[6] = "dbbt" /\ NtOrder[7] = "scan" /\ NtOrder[8] = "dump"
    BY DEF NtOrder
  <1>7. ntErr' = ntErr
    BY DEF Succeed
  <1>8. QED
    BY <1>1, <1>4, <1>5, <1>6, <1>7

(* An error leaves only the dump.                                          *)
LEMMA BreakFact ==
  ASSUME Break
  PROVE  ntErr' = TRUE /\ Entered(8)
  <1>1. Len(NtOrder) = 8
    BY DEF NtOrder
  <1>2. QED
    BY <1>1, EnterFact DEF Break

(* The pages that count are left alone, in a run that neither erases nor   *)
(* flashes.                                                                *)
CopiesAlone ==
  ntReq.image = 0 /\ ntReq.erase = <<>> => \A b \in 0 .. 2 * BCB_CNT - 1 : ntPage'[b * NTPAGES] = FirstPage(b)

(* A step out of an option keeps the invariant.                            *)
LEMMA Leaves ==
  ASSUME BootInv, ntReq' = ntReq, ntTable' = ntTable, DOMAIN ntPage' = NtPageNos, CopiesAlone,
         NEW from \in 1 .. 9, Entered(from), TableWritten',
         ntPhase \in NtEarly \/ (from >= 6 /\ ntPhase = "fcb" /\ ntAt = BCB_CNT) \/ from >= 7
  PROVE  BootInv'
  <1>1. BCB_CNT \in Nat \ {0}
    BY BootBlocksFact
  <1>2. Follows(from, ntPhase') /\ (ntPhase' \in {"fcb", "dbbt"} => ntAt' = 0 /\ ntFailed' = 0 /\ ntStep' = "read")
    BY DEF Entered
  <1>3. NtShape /\ CopyLoop /\ OldAhead
    BY DEF BootInv
  <1>4. NtShape'
    BY <1>2, <1>3 DEF NtShape, Follows, NtPhases, NtEarly, ToSet
  <1>5. CopyLoop'
    BY <1>1, <1>2 DEF CopyLoop
  <1>6. NewBehind'
    BY <1>1, <1>2 DEF NewBehind
  <1>7. OldAhead'
    <2> SUFFICES ASSUME ntReq.image = 0, ntReq.erase = <<>>, NEW b \in FirstOld' .. 2 * BCB_CNT - 1
                 PROVE  ntPage'[b * NTPAGES] = ntReq.before[b]
      BY DEF OldAhead, FirstPage
    <2>1. FirstOld \in Nat /\ FirstOld' \in Nat /\ (FirstOld <= FirstOld' \/ FirstOld' >= 2 * BCB_CNT)
      <3>1. /\ ntPhase' \in NtEarly => from <= 4
            /\ ntPhase' = "fcb" => from <= 5
            /\ ntPhase' = "dbbt" => from <= 6
        BY <1>2 DEF Follows, NtEarly
      <3>2. ntPhase \in NtEarly => FirstOld = 0
        BY DEF FirstOld, NtEarly
      <3>3. ntPhase \in {"fcb", "dbbt"} => ntAt \in 0 .. BCB_CNT /\ (ntAt = BCB_CNT => ntStep = "read")
        BY <1>3 DEF CopyLoop
      <3>4. FirstOld \in Nat
        BY <1>1, <3>3 DEF FirstOld, CopyBase
      <3>5. ntPhase = "fcb" /\ ntAt = BCB_CNT => FirstOld = BCB_CNT
        BY <1>1, <3>3 DEF FirstOld, CopyBase
      <3>6. CASE ntPhase' \in NtEarly \cup {"fcb"}
        <4>1. FirstOld' = 0
          BY <1>2, <3>6 DEF FirstOld, CopyBase, NtEarly
        <4>2. ntPhase \in NtEarly
          BY <3>1, <3>6
        <4>3. QED
          BY <3>2, <4>1, <4>2
      <3>7. CASE ntPhase' = "dbbt"
        <4>1. FirstOld' = BCB_CNT
          BY <1>1, <1>2, <3>7 DEF FirstOld, CopyBase
        <4>2. ntPhase \in NtEarly \/ (ntPhase = "fcb" /\ ntAt = BCB_CNT)
          BY <3>1, <3>7
        <4>3. QED
          BY <1>1, <3>2, <3>5, <4>1, <4>2
      <3>8. CASE ntPhase' \notin NtEarly \cup {"fcb", "dbbt"}
        <4>1. FirstOld' = 2 * BCB_CNT
          BY <3>8 DEF FirstOld
        <4>2. QED
          BY <1>1, <3>4, <4>1
      <3>9. QED
        BY <3>6, <3>7, <3>8
    <2>2. b \in FirstOld .. 2 * BCB_CNT - 1 /\ b \in 0 .. 2 * BCB_CNT - 1
      BY <1>1, <2>1
    <2>3. FirstPage(b) = ntReq.before[b]
      BY <1>3, <2>2 DEF OldAhead
    <2>4. QED
      BY <2>2, <2>3 DEF CopiesAlone
  <1>8. QED
    BY <1>4, <1>5, <1>6, <1>7 DEF BootInv

(* So does a step within an option before the boot control blocks.         *)
LEMMA StaysEarly ==
  ASSUME BootInv, ntReq' = ntReq, ntTable' = ntTable, DOMAIN ntPage' = NtPageNos, CopiesAlone,
         ntPhase' = ntPhase, ntPhase \in NtEarly
  PROVE  BootInv'
  <1>1. BCB_CNT \in Nat \ {0}
    BY BootBlocksFact
  <1>2. NtShape /\ CopyLoop /\ OldAhead
    BY DEF BootInv
  <1>3. NtShape' /\ CopyLoop' /\ NewBehind' /\ TableWritten'
    BY <1>2 DEF NtShape, CopyLoop, NewBehind, TableWritten, NtEarly, ToSet
  <1>4. OldAhead'
    <2>1. FirstOld = 0 /\ FirstOld' = 0
      BY DEF FirstOld, NtEarly
    <2>2. QED
      BY <1>2, <2>1 DEF OldAhead, CopiesAlone, FirstPage
  <1>5. QED
    BY <1>3, <1>4 DEF BootInv

(* What the scan puts into a table is no page that was spoilt.             *)
LEMMA ScanFact ==
  ASSUME ntReq \in NtRequests, NEW unknown \in SUBSET (0 .. NTBLOCKS - 1)
  PROVE  nandtool_scan(unknown) \in Seq(Nat)
  <1> DEFINE s == [i \in 1 .. NTBLOCKS |-> i - 1]
             all == Keep(s, ntReq.bad \cup unknown)
             m == IF Len(all) < BCB_BB_MAX THEN Len(all) ELSE BCB_BB_MAX
  <1>0. NTBLOCKS \in Nat
    BY NandToolAssumption
  <1>1. s \in Seq(Nat)
    BY ONLY <1>0
  <1> HIDE DEF s
  <1>2. all \in Seq(Nat)
    BY <1>1, KeepFact
  <1>3. nandtool_scan(unknown) = SubSeq(all, 1, m)
    BY DEF nandtool_scan, s
  <1>4. BCB_BB_MAX \in Nat
    BY NandToolAssumption
  <1> HIDE DEF all
  <1>5. Len(all) \in Nat /\ m \in 0 .. Len(all)
    BY <1>2, <1>4
  <1> HIDE DEF m
  <1>6. SubSeq(all, 1, m) \in Seq(Nat)
    BY <1>2, <1>5
  <1>7. QED
    BY <1>3, <1>6

(* Nor is the table.                                                       *)
LEMMA BadTableFact ==
  ASSUME NEW found \in Seq(Nat)
  PROVE  Mixed \notin ToSet(<<DbbtWord>> \o found) /\ <<DbbtWord>> \o found # <<>>
  <1> DEFINE t == <<DbbtWord>> \o found
  <1>1. Len(t) = 1 + Len(found) /\ DOMAIN t = 1 .. Len(t) /\ Len(found) \in Nat
    BY DEF DbbtWord
  <1>2. ASSUME NEW i \in 1 .. Len(t)
        PROVE  t[i] = DbbtWord \/ t[i] \in Nat
    BY <1>1
  <1>3. Mixed # DbbtWord /\ Mixed \notin Nat
    BY DEF Mixed, DbbtWord
  <1>4. QED
    BY <1>1, <1>2, <1>3 DEF ToSet

(* One step of the loop over the copies: the page written is that of the   *)
(* copy at hand, and a copy that counts as done is there.                  *)
CopyStep ==
  /\ ntPhase' = ntPhase /\ ntReq' = ntReq /\ ntTable' = ntTable /\ DOMAIN ntPage' = NtPageNos
  /\ \A b \in 0 .. NTBLOCKS - 1 : b # CopyBase + ntAt => ntPage'[b * NTPAGES] = FirstPage(b)
  /\ \/ /\ ntAt' = ntAt /\ ntFailed' = ntFailed
        /\ \/ ntStep = "read" /\ ntStep' = "erase" /\ ntPage' = ntPage
           \/ /\ ntStep = "erase" /\ ntStep' = "write"
              /\ CopyBase + ntAt \notin ntReq.bad => ntPage'[(CopyBase + ntAt) * NTPAGES] = Erased
           \/ ntStep = "write" /\ ntStep' = "verify" /\ ntPhase = "fcb"
     \/ /\ ntAt' = ntAt + 1 /\ ntStep' = "read"
        /\ ntStep \in {"read", "erase"} => ntPage' = ntPage
        /\ \/ ntFailed' = ntFailed + 1
           \/ /\ ntFailed' = ntFailed
              /\ ntPhase = "fcb" \/ ntReq.bad \cap DbbtBlocks = {} =>
                   ntPage'[(CopyBase + ntAt) * NTPAGES] = NewCopy

(* Such a step keeps the invariant.                                        *)
LEMMA CopyStepInv ==
  ASSUME BootInv, ntPhase \in {"fcb", "dbbt"}, ntAt < BCB_CNT, ntPhase = "dbbt" => ntTable # <<>>, CopyStep
  PROVE  BootInv'
  <1>1. /\ BCB_CNT \in Nat \ {0} /\ NTBLOCKS \in Nat \ {0} /\ 0 .. 2 * BCB_CNT - 1 \subseteq 0 .. NTBLOCKS - 1
    BY BootBlocksFact
  <1>2. NtShape /\ CopyLoop /\ OldAhead /\ NewBehind
    BY DEF BootInv
  <1>3. /\ ntAt \in 0 .. BCB_CNT - 1 /\ ntFailed \in 0 .. ntAt /\ ntStep \in {"read", "erase", "write", "verify"}
        /\ ntPhase = "dbbt" => ntStep # "verify"
    BY <1>1, <1>2 DEF CopyLoop
  <1>4. /\ CopyBase' = CopyBase /\ CopyBase \in {0, BCB_CNT} /\ NewCopy' = NewCopy
        /\ CopyBase + ntAt \in 0 .. 2 * BCB_CNT - 1
    BY <1>1, <1>3 DEF CopyStep, CopyBase, NewCopy, fcb_init
  <1>5. NtShape'
    BY <1>2 DEF CopyStep, NtShape, ToSet
  <1>6. CopyLoop'
    BY <1>1, <1>3 DEF CopyStep, CopyLoop
  <1>7. TableWritten'
    BY DEF CopyStep, TableWritten
  <1>8. OldAhead'
    <2> SUFFICES ASSUME ntReq.image = 0, ntReq.erase = <<>>, NEW b \in FirstOld' .. 2 * BCB_CNT - 1
                 PROVE  ntPage'[b * NTPAGES] = ntReq.before[b]
      BY DEF OldAhead, FirstPage, CopyStep
    <2>1. /\ FirstOld = CopyBase + ntAt + (IF ntStep \in {"read", "erase"} THEN 0 ELSE 1)
          /\ FirstOld' = CopyBase + ntAt' + (IF ntStep' \in {"read", "erase"} THEN 0 ELSE 1)
      BY <1>4 DEF FirstOld, CopyStep
    <2>2. b \in FirstOld .. 2 * BCB_CNT - 1 /\ b \in 0 .. 2 * BCB_CNT - 1
      BY <1>1, <1>3, <1>4, <2>1 DEF CopyStep
    <2>3. b # CopyBase + ntAt \/ ntPage' = ntPage
      BY <1>1, <1>3, <1>4, <2>1 DEF CopyStep
    <2>4. ntPage'[b * NTPAGES] = FirstPage(b)
      BY <1>1, <2>2, <2>3 DEF CopyStep, FirstPage
    <2>5. FirstPage(b) = ntReq.before[b]
      BY <1>2, <2>2 DEF OldAhead
    <2>6. QED
      BY <2>4, <2>5
  <1>9. NewBehind'
    <2> SUFFICES ASSUME ntPhase = "fcb" \/ ntReq.bad \cap DbbtBlocks = {}
                 PROVE  /\ ntFailed' < ntAt' => \E j \in 0 .. ntAt' - 1 : ntPage'[(CopyBase + j) * NTPAGES] = NewCopy
                        /\ ntPhase = "dbbt" /\ ntStep' = "write" => ntPage'[(CopyBase + ntAt') * NTPAGES] = Erased
      BY <1>4 DEF NewBehind, CopyStep, FirstPage
    <2>1. \A j \in 0 .. ntAt - 1 : ntPage'[(CopyBase + j) * NTPAGES] = FirstPage(CopyBase + j)
      <3> SUFFICES ASSUME NEW j \in 0 .. ntAt - 1
                   PROVE  ntPage'[(CopyBase + j) * NTPAGES] = FirstPage(CopyBase + j)
        OBVIOUS
      <3>1. CopyBase + j \in 0 .. 2 * BCB_CNT - 1 /\ CopyBase + j # CopyBase + ntAt
        BY <1>1, <1>3, <1>4
      <3>2. QED
        BY <1>1, <3>1 DEF CopyStep
    <2>2. ntFailed < ntAt => \E j \in 0 .. ntAt - 1 : ntPage'[(CopyBase + j) * NTPAGES] = NewCopy
      BY <1>2, <2>1 DEF NewBehind
    <2>3. CASE ntAt' = ntAt
      <3>1. ntFailed' = ntFailed /\ (ntStep' = "write" => ntStep = "erase")
        BY <1>3, <2>3 DEF CopyStep
      <3>2. ntPhase = "dbbt" /\ ntStep' = "write" => ntPage'[(CopyBase + ntAt) * NTPAGES] = Erased
        <4> SUFFICES ASSUME ntPhase = "dbbt", ntStep' = "write"
                     PROVE  ntPage'[(CopyBase + ntAt) * NTPAGES] = Erased
          OBVIOUS
        <4>1. CopyBase + ntAt \in DbbtBlocks
          BY <1>1, <1>3 DEF CopyBase, DbbtBlocks
        <4>2. CopyBase + ntAt \notin ntReq.bad
          BY <4>1
        <4>3. QED
          BY <1>3, <2>3, <4>2 DEF CopyStep
      <3>3. QED
        BY <2>2, <2>3, <3>1, <3>2
    <2>4. CASE ntAt' = ntAt + 1
      <3>1. ntStep' = "read" /\ ntAt \in 0 .. ntAt' - 1 /\ 0 .. ntAt - 1 \subseteq 0 .. ntAt' - 1
        BY <1>3, <2>4 DEF CopyStep
      <3>2. CASE ntFailed' = ntFailed + 1
        <4>1. ntFailed' < ntAt' => ntFailed < ntAt
          BY <1>3, <2>4, <3>2
        <4>2. QED
          BY <2>2, <3>1, <4>1
      <3>3. CASE ntFailed' = ntFailed
        <4>1. ntPage'[(CopyBase + ntAt) * NTPAGES] = NewCopy
          BY <1>3, <2>4, <3>3 DEF CopyStep
        <4>2. QED
          BY <3>1, <4>1
      <3>4. QED
        BY <1>3, <2>4, <3>2, <3>3 DEF CopyStep
    <2>5. QED
      BY <2>3, <2>4 DEF CopyStep
  <1>10. QED
    BY <1>5, <1>6, <1>7, <1>8, <1>9 DEF BootInv

(* The steps of a copy are such steps.                                     *)
LEMMA CopyActions ==
  ASSUME BootInv, BcbRead \/ BcbErase \/ BcbWrite \/ BcbVerify \/ BcbStepFails
  PROVE  BootInv'
  <1>1. /\ BCB_CNT \in Nat \ {0} /\ NTBLOCKS \in Nat \ {0} /\ 0 .. 2 * BCB_CNT - 1 \subseteq 0 .. NTBLOCKS - 1
        /\ BCB_DBBT_START \div NTPAGES = BCB_CNT
    BY BootBlocksFact
  <1>2. NtShape /\ CopyLoop /\ NewBehind /\ DOMAIN ntPage = NtPageNos
    BY DEF BootInv, NtShape
  <1>3. ntPhase \in {"fcb", "dbbt"} /\ ntAt < BCB_CNT /\ (ntPhase = "dbbt" => ntTable # <<>>)
    BY DEF BcbRead, BcbErase, BcbWrite, BcbVerify, BcbStepFails, BcbAt
  <1>4. /\ ntAt \in 0 .. BCB_CNT - 1 /\ ntFailed \in 0 .. ntAt /\ ntStep \in {"read", "erase", "write", "verify"}
        /\ ntPhase = "dbbt" => ntStep # "verify"
    BY <1>1, <1>2, <1>3 DEF CopyLoop
  <1> DEFINE c == CopyBase + ntAt
  <1>5. /\ CopyBlock = c /\ BcbEraseBlock = {c} /\ c \in 0 .. 2 * BCB_CNT - 1 /\ c \in 0 .. NTBLOCKS - 1
        /\ OnFlash = FirstPage(c)
    BY <1>1, <1>3, <1>4 DEF CopyBlock, CopyBase, BcbEraseBlock, OnFlash, FirstPage
  <1> HIDE DEF c
  <1>6. CopyStep
    <2>1. CASE BcbRead
      <3>1. CASE OnFlash = NewCopy
        BY <1>2, <1>3, <1>4, <1>5, <2>1, <3>1 DEF BcbRead, BcbAt, NextCopy, CopyStep, FirstPage, c
      <3>2. CASE OnFlash # NewCopy
        BY <1>2, <1>3, <1>5, <2>1, <3>2 DEF BcbRead, BcbAt, ToStep, CopyStep, FirstPage, c
      <3>3. QED
        BY <3>1, <3>2
    <2>2. CASE BcbErase
      <3>1. ntPage' = Wipe({c})
        BY <1>5, <2>2 DEF BcbErase
      <3>2. /\ DOMAIN ntPage' = NtPageNos
            /\ \A b \in 0 .. NTBLOCKS - 1 : b # c => ntPage'[b * NTPAGES] = FirstPage(b)
            /\ c \notin ntReq.bad => ntPage'[c * NTPAGES] = Erased
        BY <1>2, <1>5, <3>1, WipeFact
      <3>3. QED
        BY <2>2, <3>2 DEF BcbErase, BcbAt, ToStep, CopyStep, c
    <2>3. CASE BcbWrite
      <3> DEFINE v == Programmed(ntPage[c * NTPAGES], NewCopy)
      <3>1. c * NTPAGES \in NtPageNos
        BY <1>5, FirstPageFact
      <3>2. ntPage' = [ntPage EXCEPT ![c * NTPAGES] = v]
        BY <1>5, <2>3 DEF BcbWrite
      <3> HIDE DEF v
      <3>3. /\ DOMAIN ntPage' = NtPageNos /\ ntPage'[c * NTPAGES] = v
            /\ \A b \in 0 .. NTBLOCKS - 1 : b # c => ntPage'[b * NTPAGES] = FirstPage(b)
        BY <1>2, <1>5, <3>2, WriteFact
      <3>4. ntPhase = "dbbt" /\ ntReq.bad \cap DbbtBlocks = {} => v = NewCopy
        BY <1>2, <2>3 DEF NewBehind, BcbWrite, BcbAt, FirstPage, Programmed, v, c
      <3>5. CASE ntPhase = "fcb"
        BY <2>3, <3>3, <3>5 DEF BcbWrite, BcbAt, ToStep, CopyStep, c
      <3>6. CASE ntPhase = "dbbt"
        BY <1>4, <2>3, <3>3, <3>4, <3>6 DEF BcbWrite, BcbAt, NextCopy, CopyStep, c
      <3>7. QED
        BY <1>3, <3>5, <3>6
    <2>4. CASE BcbVerify
      <3>1. CASE OnFlash = NewCopy
        BY <1>2, <1>3, <1>4, <1>5, <2>4, <3>1 DEF BcbVerify, BcbAt, NextCopy, CopyStep, FirstPage, c
      <3>2. CASE OnFlash # NewCopy
        BY <1>2, <1>3, <1>4, <1>5, <2>4, <3>2 DEF BcbVerify, BcbAt, NextCopy, CopyStep, FirstPage, c
      <3>3. QED
        BY <3>1, <3>2
    <2>5. CASE BcbStepFails
      <3>1. CASE ntPage' = ntPage
        BY <1>2, <2>5, <3>1 DEF BcbStepFails, NextCopy, CopyStep, FirstPage, c
      <3>2. CASE ntStep = "write" /\ ntPage' = [ntPage EXCEPT ![CopyBlock * NTPAGES] = [i \in DOMAIN NewCopy |-> Mixed]]
        <4> DEFINE v == [i \in DOMAIN NewCopy |-> Mixed]
        <4>1. ntPage' = [ntPage EXCEPT ![c * NTPAGES] = v]
          BY <1>5, <3>2
        <4> HIDE DEF v
        <4>2. /\ DOMAIN ntPage' = NtPageNos
              /\ \A b \in 0 .. NTBLOCKS - 1 : b # c => ntPage'[b * NTPAGES] = FirstPage(b)
          BY <1>2, <1>5, <4>1, WriteFact
        <4>3. QED
          BY <2>5, <3>2, <4>2 DEF BcbStepFails, NextCopy, CopyStep, c
      <3>3. QED
        BY <2>5, <3>1, <3>2 DEF BcbStepFails
    <2>6. QED
      BY <2>1, <2>2, <2>3, <2>4, <2>5
  <1>7. QED
    BY <1>3, <1>6, CopyStepInv

(* The table is made once, before the first copy.                          *)
LEMMA BadTableStep ==
  ASSUME BootInv, NtScansForTable
  PROVE  BootInv'
  <1>1. NtShape /\ CopyLoop /\ OldAhead /\ DOMAIN ntPage = NtPageNos /\ ntReq \in NtRequests
    BY DEF BootInv, NtShape
  <1>2. /\ ntPhase = "dbbt" /\ ntAt = 0 /\ ntStep = "read" /\ ntTable = <<>>
        /\ UNCHANGED <<ntReq, ntPage>>
    BY DEF NtScansForTable
  <1>3. CASE Break /\ UNCHANGED ntTable
    <2>1. ntErr' = TRUE /\ Entered(8)
      BY <1>3, BreakFact
    <2>2. TableWritten' /\ CopiesAlone
      BY <1>2, <2>1 DEF TableWritten, CopiesAlone, FirstPage
    <2>3. ntReq' = ntReq /\ DOMAIN ntPage' = NtPageNos
      BY <1>1, <1>2
    <2>4. QED
      BY <1>3, <2>1, <2>2, <2>3, Leaves
  <1>4. CASE ~(Break /\ UNCHANGED ntTable)
    <2>1. PICK unknown \in SUBSET (0 .. NTBLOCKS - 1) :
            LET found == IF ntReq.scan THEN nandtool_scan(unknown) ELSE <<>>
            IN  ntTable' = <<DbbtWord>> \o found /\ UNCHANGED <<ntErr, ntPhase, ntPos, ntAt, ntFailed, ntStep>>
      BY <1>4 DEF NtScansForTable
    <2> DEFINE found == IF ntReq.scan THEN nandtool_scan(unknown) ELSE <<>>
    <2>2. found \in Seq(Nat)
      BY <1>1, ScanFact
    <2> HIDE DEF found
    <2>3. ntTable' = <<DbbtWord>> \o found /\ UNCHANGED <<ntErr, ntPhase, ntPos, ntAt, ntFailed, ntStep>>
      BY <2>1 DEF found
    <2>4. Mixed \notin ToSet(ntTable') /\ ntTable' # <<>>
      BY <2>2, <2>3, BadTableFact
    <2>5. NtShape'
      BY <1>1, <1>2, <2>3, <2>4 DEF NtShape, NtEarly
    <2>6. CopyLoop' /\ NewBehind' /\ TableWritten'
      BY <1>1, <1>2, <2>3 DEF CopyLoop, NewBehind, TableWritten
    <2>7. FirstOld' = FirstOld
      BY <1>2, <2>3 DEF FirstOld, CopyBase
    <2>8. OldAhead'
      BY <1>1, <1>2, <2>7 DEF OldAhead, FirstPage
    <2>9. QED
      BY <2>5, <2>6, <2>8 DEF BootInv
  <1>5. QED
    BY <1>3, <1>4

(* Every step keeps the invariant.                                         *)
LEMMA BootStep == BootInv /\ [NtNext]_ntVars => BootInv'
  <1> SUFFICES ASSUME BootInv, [NtNext]_ntVars PROVE BootInv'
    OBVIOUS
  <1>1. NtShape /\ CopyLoop /\ OldAhead /\ NewBehind /\ TableWritten /\ DOMAIN ntPage = NtPageNos
    BY DEF BootInv, NtShape
  <1>2. ntPage' = ntPage => CopiesAlone /\ DOMAIN ntPage' = NtPageNos
    BY <1>1 DEF CopiesAlone, FirstPage
  (* The options before the boot control blocks.                           *)
  <1>3. ASSUME ntPhase \in NtEarly, ntPhase # "start", Succeed \/ Break, ntReq' = ntReq, ntTable' = ntTable,
               CopiesAlone, DOMAIN ntPage' = NtPageNos
        PROVE  BootInv'
    <2>1. CASE Succeed
      <3>1. Entered(2) \/ Entered(3) \/ Entered(4) \/ Entered(5)
        BY <1>3, <2>1, SucceedFact DEF NtEarly
      <3>2. TableWritten'
        BY <1>3, <3>1 DEF Entered, Follows, TableWritten
      <3>3. QED
        BY <1>3, <3>1, <3>2, Leaves
    <2>2. CASE Break
      <3>1. ntErr' = TRUE /\ Entered(8)
        BY <2>2, BreakFact
      <3>2. TableWritten'
        BY <3>1 DEF TableWritten
      <3>3. QED
        BY <1>3, <3>1, <3>2, Leaves
    <2>3. QED
      BY <1>3, <2>1, <2>2
  <1>4. CASE NtStart
    <2>1. Entered(1) /\ ntReq' = ntReq /\ ntTable' = ntTable /\ ntPage' = ntPage /\ ntPhase \in NtEarly
      BY <1>4, EnterFact DEF NtStart, NtEarly
    <2>2. TableWritten'
      BY <2>1 DEF Entered, Follows, TableWritten
    <2>3. QED
      BY <1>2, <2>1, <2>2, Leaves
  <1>5. CASE NtFails
    BY <1>2, <1>3, <1>5 DEF NtFails, NtEarly
  <1>6. CASE nandtool_check
    BY <1>2, <1>3, <1>6 DEF nandtool_check, NtEarly
  <1>7. CASE nandtool_erase
    <2>1. CopiesAlone
      BY <1>1, <1>7 DEF nandtool_erase, NtShape, CopiesAlone
    <2>2. \E B : ntPage' = Wipe(B)
      BY <1>7 DEF nandtool_erase
    <2>3. DOMAIN ntPage' = NtPageNos
      BY <2>2 DEF Wipe
    <2>4. (Succeed \/ Break) /\ ntReq' = ntReq /\ ntTable' = ntTable /\ ntPhase = "erase"
      BY <1>7 DEF nandtool_erase
    <2>5. QED
      BY <1>3, <2>1, <2>3, <2>4 DEF NtEarly
  <1>8. CASE FlashEnds
    BY <1>2, <1>3, <1>8 DEF FlashEnds, NtEarly
  <1>9. CASE FlashBad
    BY <1>2, <1>9, StaysEarly DEF FlashBad, NtEarly
  <1>10. CASE FlashWrite
    <2>1. CopiesAlone
      BY <1>1, <1>10, NandToolAssumption DEF FlashWrite, NtShape, CopiesAlone
    <2>2. DOMAIN ntPage' = DOMAIN ntPage
      BY <1>10 DEF FlashWrite
    <2>3. ntPhase = "flash" /\ ntReq' = ntReq /\ ntTable' = ntTable
      BY <1>10 DEF FlashWrite
    <2>4. (Succeed \/ Break) \/ ntPhase' = ntPhase
      BY <1>10 DEF FlashWrite
    <2>5. CASE Succeed \/ Break
      BY <1>1, <1>3, <2>1, <2>2, <2>3, <2>5 DEF NtEarly
    <2>6. CASE ntPhase' = ntPhase
      BY <1>1, <2>1, <2>2, <2>3, <2>6, StaysEarly DEF NtEarly
    <2>7. QED
      BY <2>4, <2>5, <2>6
  <1>11. CASE DigestBlock
    BY <1>2, <1>11, StaysEarly DEF DigestBlock, NtEarly
  <1>12. CASE DigestEnds
    BY <1>2, <1>3, <1>12 DEF DigestEnds, NtEarly
  <1>13. CASE NtScans
    <2>1. ntPhase = "scan" /\ ntReq' = ntReq /\ ntTable' = ntTable /\ ntPage' = ntPage /\ ~ntReq.dbbt
      BY <1>1, <1>13 DEF NtScans, NtShape
    <2>2. Entered(8)
      BY <1>13, <2>1, SucceedFact, BreakFact DEF NtScans
    <2>3. TableWritten'
      BY <2>1 DEF TableWritten
    <2>4. QED
      BY <1>2, <2>1, <2>2, <2>3, Leaves
  <1>14. CASE NtScansForTable
    BY <1>14, BadTableStep
  <1>15. CASE BcbRead \/ BcbErase \/ BcbWrite \/ BcbVerify \/ BcbStepFails
    BY <1>15, CopyActions
  <1>16. CASE BcbDone
    <2>1. /\ ntPhase \in {"fcb", "dbbt"} /\ ntAt = BCB_CNT
          /\ ntReq' = ntReq /\ ntTable' = ntTable /\ ntPage' = ntPage
      BY <1>16 DEF BcbDone
    <2>2. CASE Break
      <3>1. ntErr' = TRUE /\ Entered(8)
        BY <2>2, BreakFact
      <3>2. TableWritten'
        BY <3>1 DEF TableWritten
      <3>3. QED
        BY <1>2, <2>1, <3>1, <3>2, Leaves
    <2>3. CASE Succeed /\ ntPhase = "fcb"
      <3>1. Entered(6)
        BY <2>3, SucceedFact
      <3>2. TableWritten'
        BY <2>1, <3>1 DEF Entered, Follows, TableWritten
      <3>3. QED
        BY <1>2, <2>1, <2>3, <3>1, <3>2, Leaves
    <2>4. CASE Succeed /\ ntPhase = "dbbt" /\ ntFailed # BCB_CNT
      <3>1. Entered(7)
        BY <2>4, SucceedFact
      <3>2. ntReq.bad \cap DbbtBlocks = {} => \E b \in DbbtBlocks : FirstPage(b) = ntTable
        <4> SUFFICES ASSUME ntReq.bad \cap DbbtBlocks = {}
                     PROVE  \E b \in DbbtBlocks : FirstPage(b) = ntTable
          OBVIOUS
        <4>1. ntFailed < ntAt /\ BCB_CNT \in Nat
          BY <1>1, <2>1, <2>4, BootBlocksFact DEF CopyLoop
        <4>2. PICK j \in 0 .. BCB_CNT - 1 : FirstPage(CopyBase + j) = NewCopy
          BY <1>1, <2>1, <2>4, <4>1 DEF NewBehind
        <4>3. CopyBase + j \in DbbtBlocks /\ NewCopy = ntTable
          BY <2>4, <4>1 DEF CopyBase, DbbtBlocks, NewCopy
        <4>4. QED
          BY <4>2, <4>3
      <3>3. TableWritten'
        BY <2>1, <3>2 DEF TableWritten, FirstPage
      <3>4. QED
        BY <1>2, <2>1, <3>1, <3>3, Leaves
    <2>5. QED
      BY <1>16, <2>1, <2>2, <2>3, <2>4 DEF BcbDone, BcbEnds
  <1>17. CASE nandtool_dump
    <2>1. /\ ntPhase = "dump" /\ ntPhase' \in {"dump", "done"}
          /\ ntReq' = ntReq /\ ntTable' = ntTable /\ ntPage' = ntPage /\ ntErr' = ntErr
      BY <1>17 DEF nandtool_dump, Enter
    <2>2. NtShape' /\ CopyLoop' /\ NewBehind'
      BY <1>1, <2>1 DEF NtShape, NtPhases, NtEarly, CopyLoop, NewBehind, ToSet
    <2>3. FirstOld' = 2 * BCB_CNT /\ BCB_CNT \in Nat
      BY <2>1, BootBlocksFact DEF FirstOld, NtEarly
    <2>4. OldAhead'
      BY <2>3 DEF OldAhead
    <2>5. TableWritten'
      BY <1>1, <2>1 DEF TableWritten, FirstPage
    <2>6. QED
      BY <2>2, <2>4, <2>5 DEF BootInv
  <1>18. CASE UNCHANGED ntVars
    <2>1. NtShape' = NtShape /\ CopyLoop' = CopyLoop /\ FirstOld' = FirstOld /\ NewCopy' = NewCopy /\ CopyBase' = CopyBase
      BY <1>18 DEF ntVars, NtShape, CopyLoop, FirstOld, CopyBase, NewCopy, fcb_init, ToSet
    <2>2. ntPage' = ntPage /\ ntReq' = ntReq /\ ntPhase' = ntPhase /\ ntAt' = ntAt /\ ntFailed' = ntFailed
          /\ ntStep' = ntStep /\ ntErr' = ntErr /\ ntTable' = ntTable
      BY <1>18 DEF ntVars
    <2>3. OldAhead'
      BY <1>1, <2>1, <2>2 DEF OldAhead, FirstPage
    <2>4. NewBehind'
      BY <1>1, <2>1, <2>2 DEF NewBehind, FirstPage
    <2>5. TableWritten'
      BY <1>1, <2>2 DEF TableWritten, FirstPage
    <2>6. QED
      BY <1>1, <2>1, <2>3, <2>4, <2>5 DEF BootInv
  <1>19. QED
    BY <1>4, <1>5, <1>6, <1>7, <1>8, <1>9, <1>10, <1>11, <1>12, <1>13, <1>14, <1>15, <1>16, <1>17, <1>18 DEF NtNext

(* At the start every copy is the one that was there.                      *)
LEMMA BootInitInv == NtInit => BootInv
  <1> SUFFICES ASSUME NtInit PROVE BootInv
    OBVIOUS
  <1>1. NtShape /\ CopyLoop /\ NewBehind /\ TableWritten
    BY DEF NtInit, NtShape, CopyLoop, NewBehind, TableWritten, NtPhases, NtEarly, ToSet
  <1>2. FirstOld = 0
    BY DEF NtInit, FirstOld, NtEarly
  <1>3. \A b \in 0 .. 2 * BCB_CNT - 1 : FirstPage(b) = ntReq.before[b]
    BY BootBlocksFact, FirstPageFact DEF NtInit, FirstPage
  <1>4. QED
    BY <1>1, <1>2, <1>3 DEF BootInv, OldAhead

(* With an old copy ahead or a new one behind, one is valid.               *)
LEMMA BootInvImplies == BootInv => BootBlocksSurvive
  <1> SUFFICES ASSUME BootInv PROVE BootBlocksSurvive
    OBVIOUS
  <1>1. NtShape /\ CopyLoop /\ OldAhead /\ NewBehind /\ TableWritten /\ BCB_CNT \in Nat \ {0}
    BY BootBlocksFact DEF BootInv
  <1>2. ASSUME HadCopies, ntFailed < BCB_CNT - 1,
               ntPhase = "fcb" \/ (ntPhase = "dbbt" /\ ntReq.bad \cap DbbtBlocks = {})
        PROVE  \E j \in 0 .. BCB_CNT - 1 : CopyValid(CopyBase + j)
    <2>1. ntAt \in 0 .. BCB_CNT /\ ntFailed \in 0 .. ntAt /\ CopyBase \in {0, BCB_CNT}
      BY <1>1, <1>2 DEF CopyLoop, CopyBase
    <2>2. CASE ntFailed < ntAt
      <3>1. PICK j \in 0 .. ntAt - 1 : FirstPage(CopyBase + j) = NewCopy
        BY <1>1, <1>2, <2>2 DEF NewBehind
      <3>2. j \in 0 .. BCB_CNT - 1
        BY <1>1, <2>1
      <3>3. NewCopy # Erased /\ Mixed \notin ToSet(NewCopy)
        <4>1. CASE ntPhase = "fcb"
          <5>1. NTWRITESZ \in Nat \ {0}
            BY NandToolAssumption
          <5>2. fcb_init # <<>> /\ Mixed \notin ToSet(fcb_init)
            BY <5>1 DEF fcb_init, ToSet, Mixed, FcbWord
          <5>3. QED
            BY <4>1, <5>2 DEF NewCopy, Erased
        <4>2. CASE ntPhase = "dbbt"
          <5>1. ntTable # <<>>
            BY <1>1, <2>1, <2>2, <4>2 DEF CopyLoop
          <5>2. Mixed \notin ToSet(ntTable)
            BY <1>1 DEF NtShape
          <5>3. QED
            BY <4>2, <5>1, <5>2 DEF NewCopy, Erased
        <4>3. QED
          BY <1>2, <4>1, <4>2
      <3>4. QED
        BY <3>1, <3>2, <3>3 DEF CopyValid, FirstPage
    <2>3. CASE ntFailed = ntAt
      <3>1. ntAt + 1 \in 0 .. BCB_CNT - 1 /\ CopyBase + (ntAt + 1) \in FirstOld .. 2 * BCB_CNT - 1
            /\ CopyBase + (ntAt + 1) \in 0 .. 2 * BCB_CNT - 1
        BY <1>1, <1>2, <2>1, <2>3 DEF FirstOld
      <3>2. FirstPage(CopyBase + (ntAt + 1)) = ntReq.before[CopyBase + (ntAt + 1)]
        BY <1>1, <1>2, <3>1 DEF OldAhead, HadCopies
      <3>3. CopyValid(CopyBase + (ntAt + 1))
        BY <1>2, <3>1, <3>2 DEF HadCopies, CopyValid, FirstPage
      <3>4. QED
        BY <3>1, <3>3
    <2>4. QED
      BY <2>1, <2>2, <2>3
  <1>3. ASSUME HadCopies, ntFailed < BCB_CNT - 1, ntPhase = "fcb"
        PROVE  \E b \in 0 .. BCB_CNT - 1 : CopyValid(b)
    <2>1. PICK j \in 0 .. BCB_CNT - 1 : CopyValid(CopyBase + j)
      BY <1>2, <1>3
    <2>2. CopyBase + j = j
      BY <1>3 DEF CopyBase
    <2>3. QED
      BY <2>1, <2>2
  <1>4. ASSUME HadCopies, ntFailed < BCB_CNT - 1, ntPhase = "dbbt", ntReq.bad \cap DbbtBlocks = {}
        PROVE  \E b \in DbbtBlocks : CopyValid(b)
    <2>1. PICK j \in 0 .. BCB_CNT - 1 : CopyValid(CopyBase + j)
      BY <1>2, <1>4
    <2>2. CopyBase + j \in DbbtBlocks
      BY <1>1, <1>4 DEF CopyBase, DbbtBlocks
    <2>3. QED
      BY <2>1, <2>2
  <1>5. QED
    BY <1>1, <1>3, <1>4 DEF BootBlocksSurvive, TableWritten, FirstPage

(* Wherever nandtool stops while it replaces the boot control blocks, the  *)
(* boot ROM finds a valid copy of each, if at least two copies did not     *)
(* fail; and success means that the new DBBT is on the flash.              *)
THEOREM BootBlocksStay == NtSpec => []BootBlocksSurvive
  BY BootInitInv, BootStep, BootInvImplies, PTL DEF NtSpec

-----------------------------------------------------------------------------
(* The digest.  A page that is written has as many good pages before it,   *)
(* from the start of the image, as there are pages of the image before its *)
(* contents: flash and digest count the same good pages.                   *)
GoodPage(q, x) == x \div NTPAGES \notin q.bad
GoodBefore(q, x) == {y \in q.start * NTPAGES .. x - 1 : GoodPage(q, y)}
Rank(q, x) == Cardinality(GoodBefore(q, x))
ImageCells(q, j) == [i \in 1 .. NTWRITESZ |-> IF j * NTWRITESZ + i <= q.image THEN j * NTWRITESZ + i ELSE 0]

(* The good pages of the flash are erased; the ones before page p hold the *)
(* image; all pages that the image needs hold it.                          *)
BlankFlash(pg, q) == \A x \in NtPageNos : GoodPage(q, x) => pg[x] = Erased
FlashedTo(pg, q, p) ==
  \A x \in NtPageNos : q.start * NTPAGES <= x /\ GoodPage(q, x) =>
    pg[x] = IF x < p THEN ImageCells(q, Rank(q, x)) ELSE Erased
Flashed(pg, q) ==
  \A x \in NtPageNos : q.start * NTPAGES <= x /\ GoodPage(q, x) /\ Rank(q, x) * NTWRITESZ < q.image =>
    pg[x] = ImageCells(q, Rank(q, x))

FlashAt(pg, q, pos, at) ==
  /\ pos \in Nat
  /\ IF pos >= q.image THEN Flashed(pg, q)
     ELSE /\ at \in Nat /\ at >= q.start * NTPAGES
          /\ \E k \in Nat : pos = k * NTWRITESZ /\ k = Rank(q, at + k) /\ FlashedTo(pg, q, at + k)

FirstBytes(n) == [i \in 1 .. n |-> i]
DigestAt(hash, q, left, at) ==
  /\ left \in 0 .. q.digest /\ at \in Nat /\ at >= q.start
  /\ hash = FirstBytes(q.digest - left)
  /\ left > 0 => q.digest - left = Rank(q, at * NTPAGES) * NTWRITESZ

(* A request that DigestIsImage is about.                                  *)
DigestCase ==
  /\ ntReq.image > 0 /\ ~ntReq.raw /\ ntReq.digest >= 0 /\ ntReq.digest <= ntReq.image
  /\ AllErased \/ ntReq.erase = <<0, 0>>

ImageInv ==
  DigestCase /\ ~ntErr /\ ~ntShort =>
    /\ ntPhase \in {"start", "check", "erase"} => ntHash = <<>> /\ (AllErased => BlankFlash(ntPage, ntReq))
    /\ ntPhase = "flash" => ntHash = <<>> /\ FlashAt(ntPage, ntReq, ntPos, ntAt)
    /\ ntPhase = "digest" => Flashed(ntPage, ntReq) /\ DigestAt(ntHash, ntReq, ntPos, ntAt)
    /\ ntPhase \in {"fcb", "dbbt", "scan", "dump", "done"} => ntHash = FirstBytes(ntReq.digest)

(* What the sizes of the flash and of a request are.                       *)
LEMMA SizesFact ==
  /\ NTPAGES \in Nat \ {0} /\ NTWRITESZ \in Nat \ {0} /\ NTBLOCKS \in Nat \ {0}
  /\ \A q \in NtRequests : q.image \in Nat /\ q.start \in Nat /\ q.digest \in Int /\ q.start * NTPAGES \in Nat
  <1>1. NTPAGES \in Nat \ {0} /\ NTWRITESZ \in Nat \ {0} /\ NTBLOCKS \in Nat \ {0}
    BY NandToolAssumption
  <1>2. \A q \in NtRequests : q.image \in Nat /\ q.start \in Nat /\ q.digest \in Int
    BY NandToolAssumption
  <1>3. \A q \in NtRequests : q.start * NTPAGES \in Nat
    BY <1>1, <1>2
  <1>4. QED
    BY <1>1, <1>2, <1>3

(* How the rank of a page grows.                                           *)
LEMMA RankType ==
  ASSUME NEW q \in NtRequests, NEW x \in Nat
  PROVE  IsFiniteSet(GoodBefore(q, x)) /\ Rank(q, x) \in Nat
  <1>1. q.start * NTPAGES \in Int /\ x - 1 \in Int
    BY SizesFact
  <1>2. IsFiniteSet(q.start * NTPAGES .. x - 1)
    BY <1>1, FS_Interval
  <1>3. GoodBefore(q, x) \in SUBSET (q.start * NTPAGES .. x - 1)
    BY DEF GoodBefore
  <1>4. IsFiniteSet(GoodBefore(q, x))
    BY <1>2, <1>3, FS_Subset
  <1>5. QED
    BY <1>4, FS_CardinalityType DEF Rank

(* A good page adds one to the rank of the page after it.                  *)
LEMMA RankStep ==
  ASSUME NEW q \in NtRequests, NEW x \in Nat, q.start * NTPAGES <= x
  PROVE  Rank(q, x + 1) = Rank(q, x) + IF GoodPage(q, x) THEN 1 ELSE 0
  <1>1. q.start * NTPAGES \in Nat /\ Rank(q, x) \in Nat /\ IsFiniteSet(GoodBefore(q, x))
    BY SizesFact, RankType
  <1>2. PICK S : S = GoodBefore(q, x)
    OBVIOUS
  <1>3. x \notin S
    BY <1>1, <1>2 DEF GoodBefore
  <1>4. CASE GoodPage(q, x)
    <2>1. GoodBefore(q, x + 1) = S \cup {x}
      BY <1>1, <1>2, <1>4 DEF GoodBefore
    <2>2. Cardinality(S \cup {x}) = Cardinality(S) + 1
      BY <1>1, <1>2, <1>3, FS_AddElement
    <2>3. QED
      BY <1>2, <1>4, <2>1, <2>2 DEF Rank
  <1>5. CASE ~ GoodPage(q, x)
    <2>1. GoodBefore(q, x + 1) = S
      BY <1>1, <1>2, <1>5 DEF GoodBefore
    <2>2. QED
      BY <1>1, <1>2, <1>5, <2>1 DEF Rank
  <1>6. QED
    BY <1>4, <1>5

(* The image begins with rank 0.                                           *)
LEMMA RankStart ==
  ASSUME NEW q \in NtRequests
  PROVE  Rank(q, q.start * NTPAGES) = 0
  <1>1. q.start * NTPAGES \in Nat
    BY SizesFact
  <1>2. GoodBefore(q, q.start * NTPAGES) = {}
    BY <1>1 DEF GoodBefore
  <1>3. QED
    BY <1>2, FS_EmptySet DEF Rank

(* A later page has no smaller rank.                                       *)
LEMMA RankGrows ==
  ASSUME NEW q \in NtRequests, NEW x \in Nat, NEW y \in Nat, x <= y
  PROVE  Rank(q, x) <= Rank(q, y)
  <1>1. IsFiniteSet(GoodBefore(q, y))
    BY RankType
  <1>2. q.start * NTPAGES \in Nat
    BY SizesFact
  <1>3. GoodBefore(q, x) \in SUBSET GoodBefore(q, y)
    BY <1>2 DEF GoodBefore
  <1>4. QED
    BY <1>1, <1>3, FS_Subset DEF Rank

(* The pages of a block are all good or all bad.                           *)
LEMMA PageInBlock ==
  ASSUME NEW b \in Nat, NEW i \in 0 .. NTPAGES - 1
  PROVE  /\ b * NTPAGES + i \in Nat /\ (b * NTPAGES + i) \div NTPAGES = b
         /\ b < NTBLOCKS => b * NTPAGES + i \in NtPageNos
  <1>1. NTPAGES \in Nat \ {0} /\ NTBLOCKS \in Nat \ {0}
    BY SizesFact
  <1>2. b * NTPAGES \in Nat
    BY <1>1
  <1>3. PICK x \in Nat : x = b * NTPAGES + i
    BY <1>1, <1>2
  <1>4. b * NTPAGES <= x /\ x < b * NTPAGES + NTPAGES
    BY <1>1, <1>2, <1>3
  <1>5. x \div NTPAGES = b
    BY <1>1, <1>4, DivFits
  <1>6. ASSUME b < NTBLOCKS  PROVE x \in NtPageNos
    <2>1. b \in 0 .. NTBLOCKS - 1
      BY <1>1, <1>6
    <2>2. PICK d \in Nat : NTBLOCKS = b + 1 + d
      <3>1. NTBLOCKS - 1 - b \in Nat /\ NTBLOCKS = b + 1 + (NTBLOCKS - 1 - b)
        BY <1>1, <2>1
      <3>2. QED
        BY <3>1
    <2>3. (b + 1 + d) * NTPAGES = b * NTPAGES + NTPAGES + d * NTPAGES /\ d * NTPAGES \in Nat
      BY <1>1
    <2>4. NTBLOCKS * NTPAGES = b * NTPAGES + NTPAGES + d * NTPAGES
      BY <2>2, <2>3
    <2>5. x <= NTBLOCKS * NTPAGES - 1
      BY <1>1, <1>2, <1>4, <2>3, <2>4
    <2>6. QED
      BY <2>5 DEF NtPageNos
  <1>7. QED
    BY <1>3, <1>5, <1>6

(* The ranks within a good block count its pages.                          *)
LEMMA RankInBlock ==
  ASSUME NEW q \in NtRequests, NEW b \in Nat, b >= q.start, NEW i \in 0 .. NTPAGES
  PROVE  Rank(q, b * NTPAGES + i) = Rank(q, b * NTPAGES) + IF b \notin q.bad THEN i ELSE 0
  <1> DEFINE T == {j \in Nat : j <= NTPAGES => Rank(q, b * NTPAGES + j) = Rank(q, b * NTPAGES) + IF b \notin q.bad THEN j ELSE 0}
  <1>1. NTPAGES \in Nat \ {0} /\ q.start \in Nat /\ q.start * NTPAGES \in Nat
    BY SizesFact
  <1>2. b * NTPAGES \in Nat /\ q.start * NTPAGES <= b * NTPAGES
    <2>1. PICK d \in Nat : b = q.start + d
      <3>1. b - q.start \in Nat /\ b = q.start + (b - q.start)
        BY <1>1
      <3>2. QED
        BY <3>1
    <2>2. (q.start + d) * NTPAGES = q.start * NTPAGES + d * NTPAGES /\ d * NTPAGES \in Nat
      BY <1>1
    <2>3. QED
      BY <1>1, <2>1, <2>2
  <1>3. Rank(q, b * NTPAGES) \in Nat
    BY <1>2, RankType
  <1>4. 0 \in T
    <2>1. b * NTPAGES + 0 = b * NTPAGES
      BY <1>2
    <2>2. QED
      BY <1>3, <2>1
  <1>5. ASSUME NEW j \in Nat, j \in T  PROVE j + 1 \in T
    <2> SUFFICES ASSUME j + 1 <= NTPAGES
                 PROVE  Rank(q, b * NTPAGES + (j + 1)) = Rank(q, b * NTPAGES) + IF b \notin q.bad THEN j + 1 ELSE 0
      OBVIOUS
    <2>1. j \in 0 .. NTPAGES - 1 /\ j <= NTPAGES
      BY <1>1
    <2>2. PICK x \in Nat : x = b * NTPAGES + j
      BY <1>2
    <2>3. x \div NTPAGES = b
      BY <2>1, <2>2, PageInBlock
    <2>4. q.start * NTPAGES <= x /\ b * NTPAGES + (j + 1) = x + 1
      BY <1>1, <1>2, <2>2
    <2>5. Rank(q, x + 1) = Rank(q, x) + IF GoodPage(q, x) THEN 1 ELSE 0
      BY <2>4, RankStep
    <2>6. GoodPage(q, x) <=> b \notin q.bad
      BY <2>3 DEF GoodPage
    <2>7. Rank(q, x) = Rank(q, b * NTPAGES) + IF b \notin q.bad THEN j ELSE 0
      BY <1>5, <2>1, <2>2
    <2>8. CASE b \in q.bad
      BY <1>3, <2>4, <2>5, <2>6, <2>7, <2>8
    <2>9. CASE b \notin q.bad
      BY <1>3, <2>4, <2>5, <2>6, <2>7, <2>9
    <2>10. QED
      BY <2>8, <2>9
  <1> HIDE DEF T
  <1>6. i \in T /\ i <= NTPAGES
    BY <1>1, <1>4, <1>5, SetInduction
  <1>7. QED
    BY <1>6 DEF T

(* A page is written.                                                      *)
LEMMA FlashWrites ==
  ASSUME NEW q \in NtRequests, NEW pg, DOMAIN pg = NtPageNos, NEW at \in Nat, NEW k \in Nat,
         at >= q.start * NTPAGES, k = Rank(q, at + k), FlashedTo(pg, q, at + k), k * NTWRITESZ < q.image,
         at + k \in NtPageNos, GoodPage(q, at + k), NEW pos,
         pos = IF k * NTWRITESZ + NTWRITESZ < q.image THEN k * NTWRITESZ + NTWRITESZ ELSE q.image
  PROVE  FlashAt([pg EXCEPT ![at + k] = ImageCells(q, k)], q, pos, at)
  <1> DEFINE new == [pg EXCEPT ![at + k] = ImageCells(q, k)]
  <1>1. NTWRITESZ \in Nat \ {0} /\ q.image \in Nat /\ q.start * NTPAGES \in Nat /\ k * NTWRITESZ \in Nat
    BY SizesFact
  <1>2. PICK x \in Nat : x = at + k
    OBVIOUS
  <1>3. new[x] = ImageCells(q, k) /\ \A y \in NtPageNos : y # x => new[y] = pg[y]
    BY <1>2
  <1> HIDE DEF new
  <1>4. q.start * NTPAGES <= x /\ x \in Nat
    BY <1>1, <1>2
  <1>5. Rank(q, x + 1) = k + 1
    BY <1>2, <1>4, RankStep
  <1>6. FlashedTo(new, q, x + 1)
    <2> SUFFICES ASSUME NEW y \in NtPageNos, q.start * NTPAGES <= y, GoodPage(q, y)
                 PROVE  new[y] = IF y < x + 1 THEN ImageCells(q, Rank(q, y)) ELSE Erased
      BY DEF FlashedTo
    <2>1. y \in Nat
      BY SizesFact DEF NtPageNos
    <2>2. CASE y = x
      <3>1. y < x + 1 /\ Rank(q, y) = k
        BY <1>2, <2>2
      <3>2. QED
        BY <1>3, <2>2, <3>1
    <2>3. CASE y # x
      <3>1. pg[y] = IF y < x THEN ImageCells(q, Rank(q, y)) ELSE Erased
        BY <1>2 DEF FlashedTo
      <3>2. y < x <=> y < x + 1
        BY <2>1, <2>3
      <3>3. QED
        BY <1>3, <2>3, <3>1, <3>2
    <2>4. QED
      BY <2>2, <2>3
  <1>7. CASE k * NTWRITESZ + NTWRITESZ < q.image
    <2>1. k * NTWRITESZ + NTWRITESZ = (k + 1) * NTWRITESZ /\ x + 1 = at + (k + 1) /\ k + 1 \in Nat
      BY <1>1, <1>2
    <2>2. pos \in Nat /\ pos = (k + 1) * NTWRITESZ /\ ~ (pos >= q.image)
      BY <1>1, <1>7, <2>1
    <2>3. k + 1 = Rank(q, at + (k + 1)) /\ FlashedTo(new, q, at + (k + 1))
      BY <1>5, <1>6, <2>1
    <2>4. FlashAt(new, q, pos, at)
      BY <2>1, <2>2, <2>3 DEF FlashAt
    <2>5. QED
      BY <2>4 DEF new
  <1>8. CASE ~ (k * NTWRITESZ + NTWRITESZ < q.image)
    <2>1. pos \in Nat /\ pos = q.image /\ pos >= q.image
      BY <1>1, <1>8
    <2>2. ASSUME NEW y \in NtPageNos, q.start * NTPAGES <= y, GoodPage(q, y), Rank(q, y) * NTWRITESZ < q.image
          PROVE  new[y] = ImageCells(q, Rank(q, y))
      <3>1. y \in Nat
        BY SizesFact DEF NtPageNos
      <3>2. y < x + 1
        <4> SUFFICES ASSUME x + 1 <= y PROVE FALSE
          BY <3>1
        <4>1. k + 1 <= Rank(q, y) /\ Rank(q, y) \in Nat
          BY <1>5, <3>1, RankGrows, RankType
        <4>2. PICK d \in Nat : Rank(q, y) = k + 1 + d
          <5>1. Rank(q, y) - (k + 1) \in Nat /\ Rank(q, y) = k + 1 + (Rank(q, y) - (k + 1))
            BY <4>1
          <5>2. QED
            BY <5>1
        <4>3. (k + 1 + d) * NTWRITESZ = k * NTWRITESZ + NTWRITESZ + d * NTWRITESZ /\ d * NTWRITESZ \in Nat
          BY <1>1
        <4>4. QED
          BY <1>1, <1>8, <2>2, <4>2, <4>3
      <3>3. QED
        BY <1>6, <2>2, <3>2 DEF FlashedTo
    <2>3. Flashed(new, q)
      BY <2>2 DEF Flashed
    <2>4. FlashAt(new, q, pos, at)
      BY <2>1, <2>3 DEF FlashAt
    <2>5. QED
      BY <2>4 DEF new
  <1>9. QED
    BY <1>7, <1>8

(* A page of a bad block is stepped over.                                  *)
LEMMA FlashPasses ==
  ASSUME NEW q \in NtRequests, NEW pg, NEW at \in Nat, NEW k \in Nat,
         at >= q.start * NTPAGES, k = Rank(q, at + k), FlashedTo(pg, q, at + k), k * NTWRITESZ < q.image,
         ~ GoodPage(q, at + k)
  PROVE  FlashAt(pg, q, k * NTWRITESZ, at + 1)
  <1>1. NTWRITESZ \in Nat \ {0} /\ q.image \in Nat /\ q.start * NTPAGES \in Nat /\ k * NTWRITESZ \in Nat
    BY SizesFact
  <1>2. PICK x \in Nat : x = at + k
    OBVIOUS
  <1>3. q.start * NTPAGES <= x /\ at + 1 + k = x + 1 /\ at + 1 \in Nat /\ at + 1 >= q.start * NTPAGES
    BY <1>1, <1>2
  <1>4. Rank(q, x + 1) = k
    BY <1>2, <1>3, RankStep
  <1>5. FlashedTo(pg, q, x + 1)
    <2> SUFFICES ASSUME NEW y \in NtPageNos, q.start * NTPAGES <= y, GoodPage(q, y)
                 PROVE  pg[y] = IF y < x + 1 THEN ImageCells(q, Rank(q, y)) ELSE Erased
      BY DEF FlashedTo
    <2>1. y \in Nat
      BY SizesFact DEF NtPageNos
    <2>2. y # x
      BY <1>2
    <2>3. pg[y] = IF y < x THEN ImageCells(q, Rank(q, y)) ELSE Erased
      BY <1>2 DEF FlashedTo
    <2>4. QED
      BY <2>1, <2>2, <2>3
  <1>6. ~ (k * NTWRITESZ >= q.image)
    BY <1>1
  <1>7. QED
    BY <1>1, <1>3, <1>4, <1>5, <1>6 DEF FlashAt

(* An erased flash is ready for the first page.                            *)
LEMMA FlashBegins ==
  ASSUME NEW q \in NtRequests, NEW pg, BlankFlash(pg, q), q.image > 0
  PROVE  FlashAt(pg, q, 0, q.start * NTPAGES)
  <1>1. NTWRITESZ \in Nat \ {0} /\ q.image \in Nat /\ q.start * NTPAGES \in Nat
    BY SizesFact
  <1>2. PICK s \in Nat : s = q.start * NTPAGES
    BY <1>1
  <1>3. FlashedTo(pg, q, s + 0)
    <2> SUFFICES ASSUME NEW y \in NtPageNos, q.start * NTPAGES <= y, GoodPage(q, y)
                 PROVE  pg[y] = IF y < s + 0 THEN ImageCells(q, Rank(q, y)) ELSE Erased
      BY DEF FlashedTo
    <2>1. y \in Nat /\ ~ (y < s + 0)
      BY <1>2, SizesFact DEF NtPageNos
    <2>2. QED
      BY <2>1 DEF BlankFlash
  <1>4. Rank(q, s + 0) = 0 /\ 0 * NTWRITESZ = 0 /\ ~ (0 >= q.image) /\ s >= q.start * NTPAGES
    BY <1>1, <1>2, RankStart
  <1>5. \E k \in Nat : 0 = k * NTWRITESZ /\ k = Rank(q, s + k) /\ FlashedTo(pg, q, s + k)
    BY <1>3, <1>4
  <1>6. FlashAt(pg, q, 0, s)
    BY <1>4, <1>5 DEF FlashAt
  <1>7. QED
    BY <1>2, <1>6

-----------------------------------------------------------------------------
PagesFor(left) == IF NTPAGES * NTWRITESZ > left THEN (left + NTWRITESZ - 1) \div NTWRITESZ ELSE NTPAGES

(* The pages of a block that are read are needed, and are enough.          *)
LEMMA PagesForFact ==
  ASSUME NEW left \in Nat \ {0}
  PROVE  LET n == PagesFor(left)
         IN  n \in 1 .. NTPAGES /\ (n - 1) * NTWRITESZ < left /\ (n * NTWRITESZ >= left \/ n = NTPAGES)
  <1>1. NTPAGES \in Nat \ {0} /\ NTWRITESZ \in Nat \ {0}
    BY SizesFact
  <1>2. PICK w \in Nat \ {0}, p \in Nat \ {0} : w = NTWRITESZ /\ p = NTPAGES
    BY <1>1
  <1>3. p * w \in Nat
    BY <1>2
  <1>4. CASE p * w > left
    <2>1. PICK y \in Nat : y = left + w - 1
      OBVIOUS
    <2>2. PICK n \in Nat : n = y \div w
      BY <2>1
    <2>3. y = w * (y \div w) + (y % w) /\ y % w \in 0 .. w - 1
      OBVIOUS
    <2>4. PICK z \in 0 .. w - 1 : y = w * n + z
      BY <2>2, <2>3
    <2>5. w * n \in Nat /\ w * n <= y /\ y < w * n + w
      BY <2>4
    <2>6. n * w = w * n
      OBVIOUS
    <2>7. n * w >= left /\ n * w <= left + w - 1
      BY <2>1, <2>5, <2>6
    <2>8. n >= 1
      <3> SUFFICES ASSUME n = 0 PROVE FALSE
        OBVIOUS
      <3>1. n * w = 0
        OBVIOUS
      <3>2. QED
        BY <2>7, <3>1
    <2>9. (n - 1) * w = n * w - w
      BY <2>8
    <2>10. (n - 1) * w < left
      BY <2>5, <2>6, <2>7, <2>9
    <2>11. n <= p
      <3> SUFFICES ASSUME p <= n - 1 PROVE FALSE
        BY <2>8
      <3>1. PICK d \in Nat : n - 1 = p + d
        <4>1. n - 1 - p \in Nat /\ n - 1 = p + (n - 1 - p)
          BY <2>8
        <4>2. QED
          BY <4>1
      <3>2. (p + d) * w = p * w + d * w /\ d * w \in Nat
        OBVIOUS
      <3>3. QED
        BY <1>3, <1>4, <2>10, <3>1, <3>2
    <2>12. PagesFor(left) = n
      BY <1>2, <1>4, <2>1, <2>2 DEF PagesFor
    <2>13. QED
      BY <1>2, <2>7, <2>8, <2>10, <2>11, <2>12
  <1>5. CASE ~ (p * w > left)
    <2>1. PagesFor(left) = p
      BY <1>2, <1>5 DEF PagesFor
    <2>2. (p - 1) * w = p * w - w
      OBVIOUS
    <2>3. (p - 1) * w < left
      BY <1>3, <1>5, <2>2
    <2>4. QED
      BY <1>2, <2>1, <2>3
  <1>6. QED
    BY <1>4, <1>5

Cells(pg, p) == IF pg[p] = Erased THEN [i \in 1 .. NTWRITESZ |-> AllOnes] ELSE SubSeq(pg[p], 1, NTWRITESZ)
ReadCells(pg, b, n) ==
  [i \in 1 .. n * NTWRITESZ |-> Cells(pg, b * NTPAGES + (i - 1) \div NTWRITESZ)[((i - 1) % NTWRITESZ) + 1]]

(* A page of the image is read as it was written.                          *)
LEMMA CellsFact ==
  ASSUME NEW q \in NtRequests, NEW j \in Nat, NEW pg, NEW p, pg[p] = ImageCells(q, j), NEW o \in 1 .. NTWRITESZ
  PROVE  Cells(pg, p)[o] = IF j * NTWRITESZ + o <= q.image THEN j * NTWRITESZ + o ELSE 0
  <1>1. NTWRITESZ \in Nat \ {0} /\ q.image \in Nat /\ j * NTWRITESZ \in Nat
    BY SizesFact
  <1>2. PICK c : c = ImageCells(q, j)
    OBVIOUS
  <1>3. /\ DOMAIN c = 1 .. NTWRITESZ
        /\ \A i \in 1 .. NTWRITESZ : c[i] = IF j * NTWRITESZ + i <= q.image THEN j * NTWRITESZ + i ELSE 0
    BY <1>2 DEF ImageCells
  <1>4. c # Erased
    <2>1. 1 \in DOMAIN c
      BY <1>1, <1>3
    <2>2. DOMAIN <<>> = {}
      OBVIOUS
    <2>3. QED
      BY <2>1, <2>2 DEF Erased
  <1>5. \A i \in 1 .. NTWRITESZ : c[i] \in Nat
    BY <1>1, <1>3
  <1>6. SubSeq(c, 1, NTWRITESZ)[o] = c[1 + o - 1]
    <2>1. 1 \in Int /\ NTWRITESZ \in Int /\ o \in 1 .. NTWRITESZ - 1 + 1
      BY <1>1
    <2>2. QED
      BY <1>5, <2>1, SubSeqProperties
  <1>7. 1 + o - 1 = o
    BY <1>1
  <1>8. QED
    BY <1>2, <1>3, <1>4, <1>6, <1>7 DEF Cells

(* What is read of a block continues where the digest is.                  *)
LEMMA ReadContinues ==
  ASSUME NEW q \in NtRequests, NEW pg, Flashed(pg, q), q.digest <= q.image,
         NEW b \in Nat, b < NTBLOCKS, b >= q.start, b \notin q.bad, NEW left \in 1 .. q.digest,
         NEW h \in Nat, h = q.digest - left, h = Rank(q, b * NTPAGES) * NTWRITESZ,
         NEW n \in 1 .. NTPAGES, (n - 1) * NTWRITESZ < left, NEW i \in 1 .. n * NTWRITESZ
  PROVE  ReadCells(pg, b, n)[i] = IF h + i <= q.image THEN h + i ELSE 0
  <1>1. NTPAGES \in Nat \ {0} /\ NTWRITESZ \in Nat \ {0} /\ q.image \in Nat /\ q.digest \in Int /\ q.start * NTPAGES \in Nat /\ q.start \in Nat
    BY SizesFact
  <1>2. PICK w \in Nat \ {0} : w = NTWRITESZ
    BY <1>1
  <1>3. n * w \in Nat /\ i \in Nat /\ i - 1 \in Nat
    BY <1>1, <1>2
  <1>4. PICK j \in Nat, z \in 0 .. w - 1 : j = (i - 1) \div w /\ z = (i - 1) % w /\ i - 1 = w * j + z
    BY <1>3
  <1>5. j * w = w * j /\ j * w \in Nat
    OBVIOUS
  <1>6. j <= n - 1
    <2> SUFFICES ASSUME n <= j PROVE FALSE
      BY <1>1
    <2>1. PICK d \in Nat : j = n + d
      <3>1. j - n \in Nat /\ j = n + (j - n)
        BY <1>1
      <3>2. QED
        BY <3>1
    <2>2. (n + d) * w = n * w + d * w /\ d * w \in Nat
      BY <1>1
    <2>3. QED
      BY <1>2, <1>3, <1>4, <1>5, <2>1, <2>2
  <1>7. j \in 0 .. NTPAGES - 1 /\ j \in 0 .. NTPAGES
    BY <1>1, <1>6
  <1>8. PICK x \in NtPageNos : x = b * NTPAGES + j /\ x \div NTPAGES = b
    BY <1>7, PageInBlock
  <1>9. GoodPage(q, x)
    BY <1>8 DEF GoodPage
  <1>10. PICK r \in Nat : r = Rank(q, b * NTPAGES) /\ Rank(q, x) = r + j /\ h = r * w
    <2>1. b * NTPAGES \in Nat
      BY <1>1
    <2>2. Rank(q, b * NTPAGES) \in Nat
      BY <2>1, RankType
    <2>3. Rank(q, b * NTPAGES + j) = Rank(q, b * NTPAGES) + j
      BY <1>7, RankInBlock
    <2>4. QED
      BY <1>2, <1>8, <2>2, <2>3
  <1>11. (r + j) * w = h + j * w /\ (r + j) \in Nat
    BY <1>10
  <1>12. j * w <= (n - 1) * w
    <2>1. PICK d \in Nat : n - 1 = j + d
      <3>1. n - 1 - j \in Nat /\ n - 1 = j + (n - 1 - j)
        BY <1>1, <1>6
      <3>2. QED
        BY <3>1
    <2>2. (j + d) * w = j * w + d * w /\ d * w \in Nat
      OBVIOUS
    <2>3. QED
      BY <1>5, <2>1, <2>2
  <1>13. (r + j) * w < q.image
    <2>1. (n - 1) * w \in Nat /\ (n - 1) * w < left
      BY <1>1, <1>2
    <2>2. h + j * w < h + left /\ h + left = q.digest
      BY <1>1, <1>5, <1>12, <2>1
    <2>3. QED
      BY <1>1, <1>5, <1>11, <2>2
  <1>14. q.start * NTPAGES <= x
    <2>1. PICK d \in Nat : b = q.start + d
      <3>1. b - q.start \in Nat /\ b = q.start + (b - q.start)
        BY <1>1
      <3>2. QED
        BY <3>1
    <2>2. (q.start + d) * NTPAGES = q.start * NTPAGES + d * NTPAGES /\ d * NTPAGES \in Nat
      BY <1>1
    <2>3. QED
      BY <1>1, <1>8, <2>1, <2>2
  <1>15. pg[x] = ImageCells(q, r + j)
    BY <1>2, <1>9, <1>10, <1>13, <1>14 DEF Flashed
  <1>16. PICK o \in 1 .. NTWRITESZ : o = z + 1
    BY <1>2
  <1>17. Cells(pg, x)[o] = IF (r + j) * w + o <= q.image THEN (r + j) * w + o ELSE 0
    BY <1>2, <1>11, <1>15, CellsFact
  <1>18. (r + j) * w + o = h + i
    <2>1. o = z + 1 /\ (r + j) * w = h + w * j /\ i - 1 = w * j + z
      BY <1>4, <1>5, <1>11, <1>16
    <2>2. PICK m \in Nat : m = w * j
      BY <1>5
    <2>3. QED
      BY <1>3, <2>1, <2>2
  <1>19. ReadCells(pg, b, n)[i] = Cells(pg, b * NTPAGES + (i - 1) \div NTWRITESZ)[((i - 1) % NTWRITESZ) + 1]
    BY DEF ReadCells
  <1>20. ReadCells(pg, b, n)[i] = Cells(pg, x)[o]
    BY <1>2, <1>4, <1>8, <1>16, <1>19
  <1>21. QED
    BY <1>17, <1>18, <1>20

(* A good block adds to the digest what it has of the bytes left.          *)
LEMMA DigestReads ==
  ASSUME NEW q \in NtRequests, NEW pg, Flashed(pg, q), q.digest <= q.image,
         NEW b \in Nat, b < NTBLOCKS, b \notin q.bad, NEW left, left > 0, NEW hash, DigestAt(hash, q, left, b),
         NEW read, read = ReadCells(pg, b, PagesFor(left)), NEW len, len = IF Len(read) > left THEN left ELSE Len(read)
  PROVE  DigestAt(hash \o SubSeq(read, 1, len), q, left - len, b + 1)
  <1>1. NTPAGES \in Nat \ {0} /\ NTWRITESZ \in Nat \ {0} /\ q.image \in Nat /\ q.digest \in Int /\ q.start \in Nat
    BY SizesFact
  <1>2. /\ left \in 1 .. q.digest /\ left \in Nat \ {0} /\ b >= q.start
        /\ hash = FirstBytes(q.digest - left) /\ q.digest - left = Rank(q, b * NTPAGES) * NTWRITESZ
    BY <1>1 DEF DigestAt
  <1>3. PICK n \in 1 .. NTPAGES : /\ n = PagesFor(left) /\ (n - 1) * NTWRITESZ < left
                                  /\ n * NTWRITESZ >= left \/ n = NTPAGES
    BY <1>2, PagesForFact
  <1>4. PICK h \in Nat : h = q.digest - left
    BY <1>1, <1>2
  <1>5. PICK m \in Nat : m = n * NTWRITESZ
    BY <1>1
  <1>6. \A i \in 1 .. m : read[i] = IF h + i <= q.image THEN h + i ELSE 0
    BY <1>2, <1>3, <1>4, <1>5, ReadContinues
  <1>7. read \in Seq(Nat) /\ Len(read) = m
    <2>1. DOMAIN read = 1 .. m /\ read = [i \in 1 .. m |-> read[i]]
      BY <1>3, <1>5 DEF ReadCells
    <2>2. \A i \in 1 .. m : read[i] \in Nat
      BY <1>1, <1>6
    <2>3. read \in [1 .. m -> Nat]
      BY <2>1, <2>2
    <2>4. read \in Seq(Nat)
      BY <2>3, SeqDef
    <2>5. Len(read) \in Nat /\ DOMAIN read = 1 .. Len(read)
      BY <2>4, LenProperties
    <2>6. QED
      BY <2>1, <2>4, <2>5
  <1>8. len \in 0 .. left /\ len \in 0 .. m /\ (len = left \/ len = m)
    BY <1>2, <1>7
  <1>9. PICK t : t = SubSeq(read, 1, len)
    OBVIOUS
  <1>10. t \in Seq(Nat) /\ Len(t) = len /\ \A i \in 1 .. len : t[i] = h + i
    <2>1. len \in Int /\ 1 \in Int /\ \A i \in 1 .. len : read[i] \in Nat
      <3>1. \A i \in 1 .. m : read[i] \in Nat
        BY <1>7, ElementOfSeq
      <3>2. len \in Int /\ \A i \in 1 .. len : i \in 1 .. m
        BY <1>8
      <3>3. ASSUME NEW i \in 1 .. len  PROVE read[i] \in Nat
        <4>1. i \in 1 .. m
          BY <3>2
        <4>2. QED
          BY ONLY <3>1, <4>1
      <3>4. QED
        BY ONLY <3>2, <3>3
    <2>2. /\ t \in Seq(Nat) /\ Len(t) = (IF 1 <= len THEN len - 1 + 1 ELSE 0)
          /\ \A i \in 1 .. len - 1 + 1 : t[i] = read[1 + i - 1]
      BY <1>9, <2>1, SubSeqProperties
    <2>3. ASSUME NEW i \in 1 .. len  PROVE t[i] = h + i
      <3>1. i \in 1 .. len - 1 + 1 /\ 1 + i - 1 = i /\ i \in 1 .. m
        BY <1>8
      <3>2. h + i <= q.image
        BY <1>1, <1>2, <1>4, <1>8
      <3>3. QED
        BY <1>6, <2>2, <3>1, <3>2
    <2>4. QED
      BY <1>8, <2>2, <2>3
  <1>11. hash \in Seq(Nat) /\ Len(hash) = h /\ \A i \in 1 .. h : hash[i] = i
    <2>1. hash = [i \in 1 .. h |-> i]
      BY <1>2, <1>4 DEF FirstBytes
    <2>2. hash \in [1 .. h -> Nat]
      BY <2>1
    <2>3. hash \in Seq(Nat)
      BY <2>2, SeqDef
    <2>4. Len(hash) \in Nat /\ DOMAIN hash = 1 .. Len(hash)
      BY <2>3, LenProperties
    <2>5. QED
      BY <2>1, <2>3, <2>4
  <1>12. hash \o t = FirstBytes(h + len)
    <2>1. /\ hash \o t \in Seq(Nat) /\ Len(hash \o t) = h + len
          /\ \A i \in 1 .. h + len : (hash \o t)[i] = IF i <= h THEN hash[i] ELSE t[i - h]
      <3>1. /\ hash \o t \in Seq(Nat) /\ Len(hash \o t) = Len(hash) + Len(t)
            /\ \A i \in 1 .. Len(hash) + Len(t) : (hash \o t)[i] = IF i <= Len(hash) THEN hash[i] ELSE t[i - Len(hash)]
        <4>1. hash \in Seq(Nat) /\ t \in Seq(Nat)
          BY <1>10, <1>11
        <4>2. QED
          BY ONLY <4>1, ConcatProperties
      <3>2. QED
        BY <1>10, <1>11, <3>1
    <2>2. ASSUME NEW i \in 1 .. h + len  PROVE (hash \o t)[i] = i
      <3>1. CASE i <= h
        BY <1>11, <2>1, <3>1
      <3>2. CASE ~ (i <= h)
        <4>1. i - h \in 1 .. len /\ h + (i - h) = i
          BY <1>8, <3>2
        <4>2. QED
          BY <1>10, <2>1, <3>2, <4>1
      <3>3. QED
        BY <3>1, <3>2
    <2>3. DOMAIN (hash \o t) = 1 .. h + len /\ hash \o t = [i \in DOMAIN (hash \o t) |-> (hash \o t)[i]]
      BY <2>1, LenProperties
    <2>4. QED
      BY <2>2, <2>3 DEF FirstBytes
  <1>13. left - len \in 0 .. q.digest /\ q.digest - (left - len) = h + len
    <2>1. PICK d \in Nat : d = q.digest
      BY <1>1, <1>2
    <2>2. left \in 1 .. d /\ len \in 0 .. left /\ h = d - left
      BY <1>2, <1>4, <1>8, <2>1
    <2>3. left - len \in 0 .. d /\ d - (left - len) = h + len
      BY ONLY d \in Nat, <2>2
    <2>4. QED
      BY <2>1, <2>3
  <1>14. b + 1 \in Nat /\ b + 1 >= q.start
    BY <1>1, <1>2
  <1>15. ASSUME left - len > 0  PROVE h + len = Rank(q, (b + 1) * NTPAGES) * NTWRITESZ
    <2>1. len = m /\ m < left /\ n = NTPAGES
      BY <1>1, <1>2, <1>3, <1>5, <1>8, <1>15
    <2>2. PICK r \in Nat : r = Rank(q, b * NTPAGES) /\ h = r * NTWRITESZ
      <3>1. b * NTPAGES \in Nat
        BY <1>1
      <3>2. QED
        BY <1>2, <1>4, <3>1, RankType
    <2>3. Rank(q, b * NTPAGES + NTPAGES) = r + NTPAGES
      <3>1. NTPAGES \in 0 .. NTPAGES
        BY <1>1
      <3>2. QED
        BY <1>2, <2>2, <3>1, RankInBlock
    <2>4. (b + 1) * NTPAGES = b * NTPAGES + NTPAGES
      BY <1>1
    <2>5. (r + NTPAGES) * NTWRITESZ = r * NTWRITESZ + NTPAGES * NTWRITESZ
      BY <1>1
    <2>6. QED
      BY <1>5, <2>1, <2>2, <2>3, <2>4, <2>5
  <1>16. QED
    BY <1>9, <1>12, <1>13, <1>14, <1>15 DEF DigestAt

(* A bad block adds nothing.                                               *)
LEMMA DigestPasses ==
  ASSUME NEW q \in NtRequests, NEW b \in Nat, b \in q.bad, NEW left, NEW hash, DigestAt(hash, q, left, b)
  PROVE  DigestAt(hash, q, left, b + 1)
  <1>1. NTPAGES \in Nat \ {0} /\ q.start \in Nat /\ b >= q.start
    BY SizesFact DEF DigestAt
  <1>2. NTPAGES \in 0 .. NTPAGES /\ b * NTPAGES \in Nat
    BY <1>1
  <1>3. Rank(q, b * NTPAGES + NTPAGES) = Rank(q, b * NTPAGES) + 0 /\ Rank(q, b * NTPAGES) \in Nat
    BY <1>1, <1>2, RankInBlock, RankType
  <1>4. (b + 1) * NTPAGES = b * NTPAGES + NTPAGES
    BY <1>1
  <1>5. Rank(q, (b + 1) * NTPAGES) = Rank(q, b * NTPAGES)
    BY <1>3, <1>4
  <1>6. b + 1 \in Nat /\ b + 1 >= q.start
    BY <1>1
  <1>7. QED
    BY <1>5, <1>6 DEF DigestAt

-----------------------------------------------------------------------------
NtLate == {"fcb", "dbbt", "scan", "dump", "done"}

(* The pages of the flash are in its blocks.                               *)
LEMMA BlockOfPage ==
  ASSUME NEW x \in NtPageNos
  PROVE  x \in Nat /\ x \div NTPAGES \in 0 .. NTBLOCKS - 1
  <1>1. PICK p \in Nat \ {0}, b \in Nat \ {0} : p = NTPAGES /\ b = NTBLOCKS
    BY SizesFact
  <1>2. b * p \in Nat
    BY <1>1
  <1>3. x \in Nat /\ x < b * p
    BY <1>1, <1>2 DEF NtPageNos
  <1>4. PICK d \in Nat, z \in 0 .. p - 1 : d = x \div p /\ x = p * d + z
    BY <1>3
  <1>5. d < b
    <2> SUFFICES ASSUME b <= d PROVE FALSE
      OBVIOUS
    <2>1. PICK e \in Nat : d = b + e
      <3>1. d - b \in Nat /\ d = b + (d - b)
        OBVIOUS
      <3>2. QED
        BY <3>1
    <2>2. p * (b + e) = b * p + p * e /\ p * e \in Nat
      OBVIOUS
    <2>3. QED
      BY <1>2, <1>3, <1>4, <2>1, <2>2
  <1>6. QED
    BY <1>1, <1>3, <1>4, <1>5

(* A page whose block is on the flash is on the flash.                     *)
LEMMA PageOfBlock ==
  ASSUME NEW x \in Nat, x \div NTPAGES < NTBLOCKS
  PROVE  x \in NtPageNos
  <1>1. PICK p \in Nat \ {0} : p = NTPAGES
    BY SizesFact
  <1>2. PICK d \in Nat, z \in 0 .. p - 1 : d = x \div p /\ x = p * d + z
    OBVIOUS
  <1>3. p * d = d * p /\ d < NTBLOCKS /\ z \in 0 .. NTPAGES - 1
    BY <1>1, <1>2
  <1>4. d * NTPAGES + z \in NtPageNos
    BY <1>3, PageInBlock
  <1>5. QED
    BY <1>1, <1>2, <1>3, <1>4

(* The flash begins when the options before it are done.                   *)
LEMMA EntersFlash ==
  ASSUME BootInv, ImageInv, DigestCase, ~ntErr, ~ntShort, ntPhase \in {"start", "check"},
         NEW from \in 1 .. 2, Entered(from), ntReq' = ntReq, ntPage' = ntPage, ntHash' = ntHash
  PROVE  ImageInv'
  <1>1. ntReq \in NtRequests /\ ntReq.image > 0
    BY DEF BootInv, NtShape, DigestCase
  <1>2. ntHash = <<>> /\ (AllErased => BlankFlash(ntPage, ntReq))
    BY DEF ImageInv
  <1>3. ntPhase' \in {"check", "erase", "flash"} /\ (ntReq.erase # <<>> => ntPhase' # "flash")
    BY <1>1 DEF Entered, Follows
  <1>4. CASE ntPhase' = "flash"
    <2>1. ntPos' = 0 /\ ntAt' = ntReq.start * NTPAGES /\ ntReq.erase = <<>>
      BY <1>3, <1>4 DEF Entered
    <2>2. AllErased
      BY <2>1 DEF DigestCase
    <2>3. FlashAt(ntPage, ntReq, 0, ntReq.start * NTPAGES)
      BY <1>1, <1>2, <2>2, FlashBegins
    <2>4. QED
      BY <1>2, <1>4, <2>1, <2>3 DEF ImageInv
  <1>5. CASE ntPhase' # "flash"
    <2>1. AllErased' = AllErased
      BY DEF AllErased
    <2>2. QED
      BY <1>2, <1>3, <1>5, <2>1 DEF ImageInv
  <1>6. QED
    BY <1>4, <1>5

(* So it does when the range is erased.                                    *)
LEMMA EraseImage ==
  ASSUME BootInv, ImageInv, DigestCase, ~ntErr, ~ntShort, nandtool_erase, ~ntErr'
  PROVE  ImageInv'
  <1>1. ntReq \in NtRequests /\ ntReq.image > 0 /\ DOMAIN ntPage = NtPageNos
    BY DEF BootInv, NtShape, DigestCase
  <1> DEFINE r == nandtool_parseRange(ntReq.erase)
  <1>2. ntPhase = "erase" /\ ntReq' = ntReq /\ ntHash' = ntHash /\ ~ Break
    BY BreakFact DEF nandtool_erase
  <1>3. Succeed /\ ntPage' = Wipe(EraseRange(r))
    BY <1>2 DEF nandtool_erase
  <1>4. ntHash = <<>> /\ (AllErased => BlankFlash(ntPage, ntReq))
    BY <1>2 DEF ImageInv
  <1>5. ntPhase' = "flash" /\ ntPos' = 0 /\ ntAt' = ntReq.start * NTPAGES
    <2>1. Entered(3)
      BY <1>2, <1>3, SucceedFact
    <2>2. QED
      BY <1>1, <2>1 DEF Entered, Follows
  <1>6. BlankFlash(ntPage', ntReq)
    <2> SUFFICES ASSUME NEW x \in NtPageNos, GoodPage(ntReq, x) PROVE ntPage'[x] = Erased
      BY DEF BlankFlash
    <2>1. ntPage'[x] = IF x \div NTPAGES \in EraseRange(r) \ ntReq.bad THEN Erased ELSE ntPage[x]
      BY <1>3 DEF Wipe
    <2>2. CASE AllErased
      BY <1>4, <2>1, <2>2 DEF BlankFlash
    <2>3. CASE ntReq.erase = <<0, 0>>
      <3>1. r.start = 0 /\ r.size = 0
        BY <2>3 DEF nandtool_parseRange
      <3>2. EraseRange(r) = 0 .. NTBLOCKS - 1
        BY <3>1 DEF EraseRange
      <3>3. x \div NTPAGES \in EraseRange(r) \ ntReq.bad
        BY <3>2, BlockOfPage DEF GoodPage
      <3>4. QED
        BY <2>1, <3>3
    <2>4. QED
      BY <2>2, <2>3 DEF DigestCase
  <1>7. FlashAt(ntPage', ntReq, 0, ntReq.start * NTPAGES)
    <2>1. PICK pg : pg = ntPage'
      OBVIOUS
    <2>2. BlankFlash(pg, ntReq)
      BY <1>6, <2>1
    <2>3. FlashAt(pg, ntReq, 0, ntReq.start * NTPAGES)
      BY <1>1, <2>2, FlashBegins
    <2>4. QED
      BY <2>1, <2>3
  <1>8. QED
    BY <1>2, <1>4, <1>5, <1>7 DEF ImageInv

(* A page of the image is written, or a bad one is passed.                 *)
LEMMA FlashImage ==
  ASSUME BootInv, ImageInv, DigestCase, ~ntErr, ~ntShort, FlashBad \/ FlashWrite, ~ntErr', ~ntShort'
  PROVE  ImageInv'
  <1>1. ntReq \in NtRequests /\ DOMAIN ntPage = NtPageNos
    BY DEF BootInv, NtShape
  <1>2. ntPhase = "flash" /\ ntPos < ntReq.image /\ ntReq' = ntReq /\ ntHash' = ntHash
    BY DEF FlashBad, FlashWrite
  <1>3. NtPagesz = NTWRITESZ /\ NTWRITESZ \in Nat \ {0} /\ ntReq.image \in Nat /\ ntReq.start * NTPAGES \in Nat
    BY <1>1, SizesFact DEF NtPagesz, DigestCase
  <1>4. ntHash = <<>> /\ FlashAt(ntPage, ntReq, ntPos, ntAt)
    BY <1>2 DEF ImageInv
  <1>5. ntPos \in Nat /\ ~ (ntPos >= ntReq.image)
    BY <1>2, <1>3, <1>4 DEF FlashAt
  <1>6. PICK q \in NtRequests, at \in Nat, k \in Nat :
          /\ q = ntReq /\ at = ntAt /\ at >= q.start * NTPAGES /\ ntPos = k * NTWRITESZ
          /\ k = Rank(q, at + k) /\ FlashedTo(ntPage, q, at + k)
    BY <1>1, <1>4, <1>5 DEF FlashAt
  <1> PICK pg : pg = ntPage
    OBVIOUS
  <1>7. k * NTWRITESZ < q.image /\ DOMAIN pg = NtPageNos /\ FlashedTo(pg, q, at + k)
    BY <1>1, <1>2, <1>6
  <1>8. FlashPage = at + k
    <2>1. (k * NTWRITESZ) \div NTWRITESZ = k
      BY <1>3, DivFits
    <2>2. QED
      BY <1>3, <1>6, <2>1 DEF FlashPage
  <1>9. CASE FlashBad
    <2>1. FlashBlock \in ntReq.bad /\ ntAt' = ntAt + 1 /\ ntPos' = ntPos /\ ntPage' = ntPage /\ ntPhase' = ntPhase
      BY <1>9 DEF FlashBad, FlashSkips, isbad
    <2>2. ~ GoodPage(q, at + k)
      BY <1>6, <1>8, <2>1 DEF FlashBlock, GoodPage
    <2>3. FlashAt(pg, q, k * NTWRITESZ, at + 1)
      BY <1>6, <1>7, <2>2, FlashPasses
    <2>4. FlashAt(ntPage', ntReq', ntPos', ntAt')
      BY <1>2, <1>6, <2>1, <2>3
    <2>5. QED
      BY <1>2, <1>4, <2>1, <2>4 DEF ImageInv
  <1>10. CASE FlashWrite
    <2>1. FlashBlock < NTBLOCKS /\ FlashBlock \notin ntReq.bad
      <3>1. "good" \in isbad(FlashBlock)
        BY <1>10 DEF FlashWrite
      <3>2. ~ (FlashBlock >= NTBLOCKS) /\ FlashBlock \notin ntReq.bad
        BY <3>1 DEF isbad
      <3>3. at + k \in Nat /\ NTPAGES \in Nat \ {0} /\ NTBLOCKS \in Nat
        BY SizesFact
      <3>4. FlashBlock \in Nat
        BY <1>8, <3>3 DEF FlashBlock
      <3>5. QED
        BY <3>2, <3>3, <3>4
    <2>2. at + k \in NtPageNos /\ GoodPage(q, at + k)
      BY <1>6, <1>8, <2>1, PageOfBlock DEF FlashBlock, GoodPage
    <2>3. ~ Break /\ ~ (ntShort' = TRUE)
      BY BreakFact
    <2>4. /\ ntPage' = [ntPage EXCEPT ![FlashPage] = Programmed(@, ImagePage)]
          /\ ntPos' = IF ntPos + NtPagesz < ntReq.image THEN ntPos + NtPagesz ELSE ntReq.image
          /\ ntAt' = ntAt /\ ntPhase' = ntPhase
      BY <1>10, <2>3 DEF FlashWrite
    <2>5. pg[at + k] = Erased
      <3>1. pg[at + k] = IF at + k < at + k THEN ImageCells(q, Rank(q, at + k)) ELSE Erased
        BY <1>3, <1>6, <2>2 DEF FlashedTo
      <3>2. QED
        BY <3>1
    <2>6. ImagePage = ImageCells(q, k)
      BY <1>3, <1>6 DEF ImagePage, ImageCells
    <2>7. Programmed(pg[at + k], ImagePage) = ImageCells(q, k)
      BY <2>5, <2>6 DEF Programmed
    <2>8. ntPage' = [pg EXCEPT ![at + k] = ImageCells(q, k)]
      BY <1>6, <1>8, <2>4, <2>7
    <2>9. PICK pos : pos = IF k * NTWRITESZ + NTWRITESZ < q.image THEN k * NTWRITESZ + NTWRITESZ ELSE q.image
      OBVIOUS
    <2>10. FlashAt([pg EXCEPT ![at + k] = ImageCells(q, k)], q, pos, at)
      BY <1>6, <1>7, <2>2, <2>9, FlashWrites
    <2>11. ntPos' = pos
      BY <1>3, <1>6, <2>4, <2>9
    <2>12. FlashAt(ntPage', ntReq', ntPos', ntAt')
      BY <1>2, <1>6, <2>4, <2>8, <2>10, <2>11
    <2>13. QED
      BY <1>2, <1>4, <2>4, <2>12 DEF ImageInv
  <1>11. QED
    BY <1>9, <1>10

(* The digest begins with all of the image on the flash.                   *)
LEMMA DigestBegins ==
  ASSUME BootInv, ImageInv, DigestCase, ~ntErr, ~ntShort, FlashEnds
  PROVE  ImageInv'
  <1>1. ntReq \in NtRequests /\ ntReq.digest >= 0 /\ ntReq.image > 0
    BY DEF BootInv, NtShape, DigestCase
  <1>2. ntPhase = "flash" /\ ntPos >= ntReq.image /\ Succeed /\ ntReq' = ntReq /\ ntHash' = ntHash /\ ntPage' = ntPage
    BY DEF FlashEnds
  <1>3. Entered(4)
    BY <1>2, SucceedFact
  <1>4. ntPhase' = "digest" /\ ntPos' = ntReq.digest /\ ntAt' = ntReq.start
    BY <1>1, <1>3 DEF Entered, Follows
  <1>5. ntHash = <<>> /\ Flashed(ntPage, ntReq)
    BY <1>2 DEF ImageInv, FlashAt
  <1>6. PICK q \in NtRequests : q = ntReq
    BY <1>1
  <1>7. DigestAt(<<>>, q, q.digest, q.start)
    <2>1. q.digest \in Nat /\ q.start \in Nat /\ NTWRITESZ \in Nat
      BY <1>1, <1>6, SizesFact
    <2>2. Rank(q, q.start * NTPAGES) * NTWRITESZ = 0
      BY <2>1, RankStart
    <2>3. q.digest - q.digest = 0 /\ q.digest \in 0 .. q.digest /\ q.start >= q.start
      BY <2>1
    <2>4. FirstBytes(0) = <<>>
      BY DEF FirstBytes
    <2>5. QED
      BY <2>1, <2>2, <2>3, <2>4 DEF DigestAt
  <1>8. DigestAt(ntHash', ntReq', ntPos', ntAt')
    BY <1>2, <1>4, <1>5, <1>6, <1>7
  <1>9. QED
    BY <1>2, <1>4, <1>5, <1>8 DEF ImageInv

(* A block is read, or a bad one is passed.                                *)
LEMMA DigestImage ==
  ASSUME BootInv, ImageInv, DigestCase, ~ntErr, ~ntShort, DigestBlock
  PROVE  ImageInv'
  <1>1. ntReq \in NtRequests /\ ntReq.digest <= ntReq.image
    BY DEF BootInv, NtShape, DigestCase
  <1>2. /\ ntPhase = "digest" /\ ntPos > 0 /\ ntAt < NTBLOCKS /\ ntReq' = ntReq /\ ntPage' = ntPage
        /\ ntPhase' = ntPhase /\ ntAt' = ntAt + 1
    BY DEF DigestBlock
  <1>3. Flashed(ntPage, ntReq) /\ DigestAt(ntHash, ntReq, ntPos, ntAt)
    BY <1>2 DEF ImageInv
  <1>4. PICK q \in NtRequests, b \in Nat : q = ntReq /\ b = ntAt
    BY <1>1, <1>3 DEF DigestAt
  <1> PICK pg, left, hash : pg = ntPage /\ left = ntPos /\ hash = ntHash
    OBVIOUS
  <1>5. Flashed(pg, q) /\ DigestAt(hash, q, left, b) /\ left > 0 /\ b < NTBLOCKS /\ q.digest <= q.image
    BY <1>1, <1>2, <1>3, <1>4
  <1>6. CASE "bad" \in isbad(ntAt) /\ UNCHANGED <<ntHash, ntPos>>
    <2>1. b \in q.bad
      BY <1>4, <1>6 DEF isbad
    <2>2. DigestAt(hash, q, left, b + 1)
      BY <1>5, <2>1, DigestPasses
    <2>3. DigestAt(ntHash', ntReq', ntPos', ntAt')
      BY <1>2, <1>4, <1>6, <2>2
    <2>4. QED
      BY <1>2, <1>3, <2>3 DEF ImageInv
  <1>7. CASE ~ ("bad" \in isbad(ntAt) /\ UNCHANGED <<ntHash, ntPos>>)
    <2>1. PICK read : read = BlockBytes(ntAt, DigestPages)
      OBVIOUS
    <2>2. PICK len : len = IF Len(read) > ntPos THEN ntPos ELSE Len(read)
      OBVIOUS
    <2>3. "good" \in isbad(ntAt) /\ ntHash' = ntHash \o SubSeq(read, 1, len) /\ ntPos' = ntPos - len
      BY <1>7, <2>1, <2>2 DEF DigestBlock
    <2>4. b \notin q.bad
      BY <1>4, <2>3 DEF isbad
    <2>5. read = ReadCells(pg, b, PagesFor(left))
      BY <1>4, <2>1 DEF BlockBytes, DigestPages, ReadCells, PagesFor, Bytes, Cells
    <2>6. DigestAt(hash \o SubSeq(read, 1, len), q, left - len, b + 1)
      BY <1>4, <1>5, <2>2, <2>4, <2>5, DigestReads
    <2>7. DigestAt(ntHash', ntReq', ntPos', ntAt')
      BY <1>2, <1>4, <2>3, <2>6
    <2>8. QED
      BY <1>2, <1>3, <2>7 DEF ImageInv
  <1>8. QED
    BY <1>6, <1>7

(* The digest ends with nothing left.                                      *)
LEMMA DigestDone ==
  ASSUME BootInv, ImageInv, DigestCase, ~ntErr, ~ntShort, DigestEnds, ~ntErr'
  PROVE  ImageInv'
  <1>1. ntReq \in NtRequests
    BY DEF BootInv, NtShape
  <1>2. ntPhase = "digest" /\ ntReq' = ntReq /\ ntHash' = ntHash /\ ~ Break
    BY BreakFact DEF DigestEnds
  <1>3. ~ (ntPos > 0) /\ Succeed
    BY <1>2 DEF DigestEnds
  <1>4. Entered(5)
    BY <1>2, <1>3, SucceedFact
  <1>5. ntPhase' \in NtLate
    BY <1>4 DEF Entered, Follows, NtPhases, NtEarly, NtLate
  <1>6. DigestAt(ntHash, ntReq, ntPos, ntAt)
    BY <1>2 DEF ImageInv
  <1>7. ntReq.digest \in Int
    BY <1>1, SizesFact
  <1>8. ntPos = 0 /\ ntReq.digest - 0 = ntReq.digest
    BY <1>3, <1>6, <1>7 DEF DigestAt
  <1>9. ntHash = FirstBytes(ntReq.digest)
    BY <1>6, <1>8 DEF DigestAt
  <1>10. QED
    BY <1>2, <1>5, <1>9 DEF ImageInv, NtLate

(* What comes after the digest leaves it alone.                            *)
LEMMA LateImage ==
  ASSUME BootInv, ImageInv, DigestCase, ~ntErr, ~ntShort, NtNext, ntPhase \in NtLate, ~ntErr'
  PROVE  ImageInv'
  <1>1. \/ /\ ntPhase \in {"fcb", "dbbt", "scan"}
           /\ NtScans \/ NtScansForTable \/ BcbRead \/ BcbErase \/ BcbWrite \/ BcbVerify \/ BcbStepFails \/ BcbDone
        \/ ntPhase = "dump" /\ nandtool_dump
    BY DEF NtNext, NtLate, NtStart, NtFails, nandtool_check, nandtool_erase, FlashEnds, FlashBad, FlashWrite, DigestBlock, DigestEnds,
           NtScans, NtScansForTable, BcbRead, BcbErase, BcbWrite, BcbVerify, BcbStepFails, BcbDone, nandtool_dump, BcbAt
  <1>2. ntHash' = ntHash /\ ntReq' = ntReq
    BY <1>1 DEF NtScans, NtScansForTable, BcbRead, BcbErase, BcbWrite, BcbVerify, BcbStepFails, BcbDone, nandtool_dump
  <1>3. ~ Break
    BY BreakFact
  <1>4. ASSUME Succeed, ntPhase \in {"fcb", "dbbt", "scan"}  PROVE ntPhase' \in NtLate
    <2>1. Entered(6) \/ Entered(7) \/ Entered(8)
      BY <1>4, SucceedFact
    <2>2. QED
      BY <2>1 DEF Entered, Follows, NtPhases, NtEarly, NtLate
  <1>5. ntPhase' \in NtLate
    <2>1. CASE ntPhase = "dump" /\ nandtool_dump
      BY <2>1 DEF nandtool_dump, Enter, NtLate
    <2>2. CASE NtScans \/ BcbDone
      BY <1>3, <1>4, <2>2 DEF NtScans, BcbDone
    <2>3. CASE NtScansForTable \/ BcbRead \/ BcbErase \/ BcbWrite \/ BcbVerify \/ BcbStepFails
      BY <1>3, <2>3 DEF NtScansForTable, BcbRead, BcbErase, BcbWrite, BcbVerify, BcbStepFails, NextCopy, ToStep
    <2>4. QED
      BY <1>1, <2>1, <2>2, <2>3
  <1>6. ntHash = FirstBytes(ntReq.digest)
    BY DEF ImageInv, NtLate
  <1>7. QED
    BY <1>2, <1>5, <1>6 DEF ImageInv, NtLate

(* Every step keeps the image and the digest in step.                      *)
LEMMA ImageStep == BootInv /\ ImageInv /\ [NtNext]_ntVars => ImageInv'
  <1> SUFFICES ASSUME BootInv, ImageInv, [NtNext]_ntVars, DigestCase', ~ntErr', ~ntShort'
               PROVE  ImageInv'
    BY DEF ImageInv
  <1>1. CASE UNCHANGED ntVars
    <2>1. /\ ntReq' = ntReq /\ ntPage' = ntPage /\ ntPhase' = ntPhase /\ ntErr' = ntErr /\ ntPos' = ntPos /\ ntAt' = ntAt
          /\ ntHash' = ntHash /\ ntShort' = ntShort
      BY <1>1 DEF ntVars
    <2>2. AllErased' = AllErased
      BY <2>1 DEF AllErased
    <2>3. QED
      BY <2>1, <2>2 DEF ImageInv, DigestCase
  <1>2. CASE NtNext
    <2>1. ntReq' = ntReq
      BY <1>2 DEF NtNext, NtStart, NtFails, nandtool_check, nandtool_erase, FlashEnds, FlashBad, FlashWrite, DigestBlock, DigestEnds,
           NtScans, NtScansForTable, BcbRead, BcbErase, BcbWrite, BcbVerify, BcbStepFails, BcbDone, nandtool_dump
    <2>2. DigestCase
      <3>1. AllErased' = AllErased
        BY <2>1 DEF AllErased
      <3>2. QED
        BY <2>1, <3>1 DEF DigestCase
    <2>3. ~ Break
      BY BreakFact
    <2>4. ~ntErr /\ ~ntShort
      <3>1. ~ntErr
        <4>1. Succeed => ntErr' = ntErr
          BY DEF Succeed
        <4>2. QED
          BY <1>2, <2>3, <4>1 DEF NtNext, NtStart, NtFails, nandtool_check, nandtool_erase, FlashEnds, FlashBad, FlashWrite, DigestBlock, DigestEnds,
             NtScans, NtScansForTable, BcbRead, BcbErase, BcbWrite, BcbVerify, BcbStepFails, BcbDone, nandtool_dump, NextCopy, ToStep
      <3>2. ~ntShort
        BY <1>2 DEF NtNext, NtStart, NtFails, nandtool_check, nandtool_erase, FlashEnds, FlashBad, FlashWrite, DigestBlock, DigestEnds,
             NtScans, NtScansForTable, BcbRead, BcbErase, BcbWrite, BcbVerify, BcbStepFails, BcbDone, nandtool_dump
      <3>3. QED
        BY <3>1, <3>2
    <2>5. CASE NtStart \/ nandtool_check
      <3>1. /\ ntPhase \in {"start", "check"} /\ ntPage' = ntPage /\ ntHash' = ntHash
            /\ ntPhase = "start" => Enter(NtFirst(1))
            /\ ntPhase = "check" => Succeed
        BY <2>5 DEF NtStart, nandtool_check
      <3>2. Entered(1) \/ Entered(2)
        <4>1. 1 \in 1 .. 9
          OBVIOUS
        <4>2. QED
          BY <3>1, <4>1, EnterFact, SucceedFact
      <3>3. 1 \in 1 .. 2 /\ 2 \in 1 .. 2
        OBVIOUS
      <3>4. QED
        BY <2>1, <2>2, <2>4, <3>1, <3>2, <3>3, EntersFlash
    <2>6. CASE nandtool_erase
      BY <2>2, <2>4, <2>6, EraseImage
    <2>7. CASE FlashBad \/ FlashWrite
      BY <2>2, <2>4, <2>7, FlashImage
    <2>8. CASE FlashEnds
      BY <2>2, <2>4, <2>8, DigestBegins
    <2>9. CASE DigestBlock
      BY <2>2, <2>4, <2>9, DigestImage
    <2>10. CASE DigestEnds
      BY <2>2, <2>4, <2>10, DigestDone
    <2>11. CASE NtFails
      BY <2>3, <2>11 DEF NtFails
    <2>12. CASE NtScans \/ NtScansForTable \/ BcbRead \/ BcbErase \/ BcbWrite \/ BcbVerify \/ BcbStepFails \/ BcbDone \/ nandtool_dump
      <3>1. ntPhase \in NtLate
        BY <2>12 DEF NtScans, NtScansForTable, BcbRead, BcbErase, BcbWrite, BcbVerify, BcbStepFails, BcbDone, nandtool_dump, BcbAt, NtLate
      <3>2. QED
        BY <1>2, <2>2, <2>4, <3>1, LateImage
    <2>13. QED
      BY <1>2, <2>5, <2>6, <2>7, <2>8, <2>9, <2>10, <2>11, <2>12 DEF NtNext
  <1>3. QED
    BY <1>1, <1>2

(* The flash is as it was before.                                          *)
LEMMA ImageInit == NtInit => ImageInv
  <1> SUFFICES ASSUME NtInit PROVE ImageInv
    OBVIOUS
  <1>1. ntPhase = "start" /\ ntHash = <<>> /\ ntPage = [p \in NtPageNos |-> ntReq.before[p \div NTPAGES]]
    BY DEF NtInit
  <1>2. ASSUME AllErased  PROVE BlankFlash(ntPage, ntReq)
    <2> SUFFICES ASSUME NEW x \in NtPageNos, GoodPage(ntReq, x) PROVE ntPage[x] = Erased
      BY DEF BlankFlash
    <2>1. x \div NTPAGES \in 0 .. NTBLOCKS - 1 /\ x \div NTPAGES \notin ntReq.bad
      BY BlockOfPage DEF GoodPage
    <2>2. QED
      BY <1>1, <1>2, <2>1 DEF AllErased
  <1>3. QED
    BY <1>1, <1>2 DEF ImageInv

(* The digest that nandtool prints is that of the image, from its start    *)
(* and in order, whatever blocks are bad: nandtool_sha256 skips the blocks *)
(* that nandtool_flash skipped.                                            *)
THEOREM DigestMatches == NtSpec => []DigestIsImage
  <1>1. NtInit => BootInv /\ ImageInv
    BY BootInitInv, ImageInit
  <1>2. BootInv /\ ImageInv /\ [NtNext]_ntVars => BootInv' /\ ImageInv'
    BY BootStep, ImageStep
  <1>3. ImageInv => DigestIsImage
    BY DEF ImageInv, DigestIsImage, DigestCase, FirstBytes
  <1>4. QED
    BY <1>1, <1>2, <1>3, PTL DEF NtSpec

-----------------------------------------------------------------------------
(* psd, for every size of the flash and everything the host may send.      *)
(*                                                                         *)
(* A file is received page by page.  The number of good pages it has       *)
(* passed is the number of pages it has written, each with its reports;    *)
(* and the page at hand is good unless it begins a block, where that is    *)
(* asked.                                                                  *)
PdWritten(bad, from, to) == Cardinality(GoodPages(bad, from, to))

Receiving(page, bad, from, no, data, offs, got, buff) ==
  /\ offs \in 0 .. PDBLOCKS * PDPAGES /\ got \in 0 .. data /\ from <= offs
  /\ offs % PDPAGES # 0 => offs \div PDPAGES \notin bad
  /\ \A n \in PdPageNos : n \in GoodPages(bad, from, offs) => page[n] = FileReports(no, data, PdWritten(bad, from, n))
  /\ \/ \E l \in 0 .. PDREPORTS :
          /\ got = PdWritten(bad, from, offs) * PDREPORTS + l
          /\ buff = [i \in 1 .. l |-> <<no, PdWritten(bad, from, offs) * PDREPORTS + i>>]
     \/ buff = <<>> /\ got = data /\ PdWritten(bad, from, offs) * PDREPORTS >= data

PdCase == pdCmd.type = "file" /\ pdCmd.format # 1 /\ pdCmd.address % PDPAGES = 0 /\ ~ pdGuess

PdShape ==
  /\ pdCmd \in PdCommands \cup {NoCmd}
  /\ DOMAIN pdPage = PdParts /\ \A p \in PdParts : DOMAIN pdPage[p] = PdPageNos
  /\ pdPhase \in {"register", "file", "ignore"} => pdCmd.type = pdPhase
  /\ pdPhase \in {"register", "file", "ignore", "receive", "reply"} => pdReply = "none"
  /\ pdPhase = "receive" => pdCmd.type = "file" /\ pdPart \in PdParts
  /\ pdPhase = "file" => pdGot = 0 /\ pdBuff = <<>>

PdOnFlash == ReadsBack(pdPage[pdPart], pdBad[pdPart], pdCmd.address, pdNo, pdCmd.data)

FileInv ==
  PdCase =>
    /\ pdPhase = "receive" => Receiving(pdPage[pdPart], pdBad[pdPart], pdCmd.address, pdNo, pdCmd.data, pdOffs, pdGot, pdBuff)
    /\ pdPhase = "reply" /\ ~ pdErr => PdOnFlash
    /\ pdReply = "complete" => PdOnFlash

PsdInv == PdShape /\ FileInv

(* What the sizes of the flash are.                                        *)
LEMMA PsdSizes == PDPAGES \in Nat \ {0} /\ PDREPORTS \in Nat \ {0} /\ PDBLOCKS \in Nat \ {0} /\ PDBLOCKS * PDPAGES \in Nat
  <1>1. PDPAGES \in Nat \ {0} /\ PDREPORTS \in Nat \ {0} /\ PDBLOCKS \in Nat \ {0}
    BY PsdAssumption
  <1>2. QED
    BY <1>1

(* Good pages are finite sets, and a later end has no fewer.               *)
LEMMA GoodPagesFact ==
  ASSUME NEW bad, NEW from \in Nat, NEW x \in Nat, NEW y \in Nat, x <= y
  PROVE  /\ IsFiniteSet(GoodPages(bad, from, x)) /\ PdWritten(bad, from, x) \in Nat
         /\ PdWritten(bad, from, x) <= PdWritten(bad, from, y)
  <1>1. \A z \in Nat : IsFiniteSet(GoodPages(bad, from, z))
    <2>1. ASSUME NEW z \in Nat  PROVE IsFiniteSet(GoodPages(bad, from, z))
      <3>1. IsFiniteSet(from .. z - 1)
        BY FS_Interval
      <3>2. GoodPages(bad, from, z) \in SUBSET (from .. z - 1)
        BY DEF GoodPages
      <3>3. QED
        BY <3>1, <3>2, FS_Subset
    <2>2. QED
      BY <2>1
  <1>2. GoodPages(bad, from, x) \in SUBSET GoodPages(bad, from, y)
    BY DEF GoodPages
  <1>3. QED
    BY <1>1, <1>2, FS_Subset, FS_CardinalityType DEF PdWritten

(* A good page adds itself.                                                *)
LEMMA GoodPageAdds ==
  ASSUME NEW bad, NEW from \in Nat, NEW x \in Nat, from <= x, x \div PDPAGES \notin bad
  PROVE  /\ GoodPages(bad, from, x + 1) = GoodPages(bad, from, x) \cup {x}
         /\ PdWritten(bad, from, x + 1) = PdWritten(bad, from, x) + 1
  <1>1. GoodPages(bad, from, x + 1) = GoodPages(bad, from, x) \cup {x}
    BY DEF GoodPages
  <1>2. x \notin GoodPages(bad, from, x)
    BY DEF GoodPages
  <1>3. IsFiniteSet(GoodPages(bad, from, x))
    <2>1. x <= x
      OBVIOUS
    <2>2. QED
      BY <2>1, GoodPagesFact
  <1>4. PICK S : S = GoodPages(bad, from, x)
    OBVIOUS
  <1>5. Cardinality(S \cup {x}) = Cardinality(S) + 1
    BY <1>2, <1>3, <1>4, FS_AddElement
  <1>6. QED
    BY <1>1, <1>4, <1>5 DEF PdWritten

(* A remainder is what the quotient leaves.                                *)
LEMMA RemainderFits ==
  ASSUME NEW M \in Nat \ {0}, NEW q \in Nat, NEW r \in 0 .. M - 1, NEW x \in Nat, x = q * M + r
  PROVE  x % M = r
  <1>1. q * M \in Nat /\ q * M <= x /\ x < q * M + M
    OBVIOUS
  <1>2. x \div M = q
    BY <1>1, DivFits
  <1>3. x = M * (x \div M) + (x % M) /\ x % M \in 0 .. M - 1
    OBVIOUS
  <1>4. x % M \in Int /\ M * q = q * M
    BY <1>3
  <1>5. QED
    BY <1>1, <1>2, <1>3, <1>4

(* A bad block adds nothing.                                               *)
LEMMA BadBlockAdds ==
  ASSUME NEW bad, NEW from \in Nat, NEW x \in Nat, x % PDPAGES = 0, x \div PDPAGES \in bad
  PROVE  /\ GoodPages(bad, from, x + PDPAGES) = GoodPages(bad, from, x)
         /\ (x + PDPAGES) % PDPAGES = 0
  <1>1. PICK P \in Nat \ {0} : P = PDPAGES
    BY PsdSizes
  <1>2. PICK d \in Nat : d = x \div P /\ x = d * P
    <2>1. x = P * (x \div P) + (x % P) /\ x \div P \in Nat
      BY <1>1
    <2>2. PICK d \in Nat : d = x \div P
      BY <2>1
    <2>3. d * P = P * d /\ P * d \in Nat
      OBVIOUS
    <2>4. QED
      BY <1>1, <2>1, <2>2, <2>3
  <1>3. ASSUME NEW y \in Nat, x <= y, y < x + P  PROVE y \div P = d
    BY <1>2, <1>3, DivFits
  <1>4. GoodPages(bad, from, x + P) = GoodPages(bad, from, x)
    <2>1. ASSUME NEW y \in from .. (x + P) - 1, y \div P \notin bad  PROVE y \in from .. x - 1
      <3>1. y \in Nat /\ y < x + P
        BY <1>1
      <3>2. ~ (x <= y)
        BY <1>1, <1>2, <1>3, <2>1, <3>1
      <3>3. QED
        BY <3>1, <3>2
    <2>2. from .. x - 1 \subseteq from .. (x + P) - 1
      BY <1>1
    <2>3. QED
      BY <1>1, <2>1, <2>2 DEF GoodPages
  <1>5. (x + P) % P = 0
    <2>1. (d + 1) * P = d * P + P /\ d * P \in Nat
      OBVIOUS
    <2>2. PICK z \in Nat : z = x + P
      BY <1>1
    <2>3. PICK q \in Nat, r \in 0 .. P - 1 : q = d + 1 /\ r = 0
      BY <1>1
    <2>4. z % P = 0
      <3>1. z = q * P + r
        BY <1>2, <2>1, <2>2, <2>3
      <3>2. z % P = r
        BY <3>1, RemainderFits
      <3>3. QED
        BY <2>3, <3>2
    <2>5. QED
      BY <2>2, <2>4
  <1>6. QED
    BY <1>1, <1>4, <1>5

(* The next page is in the same block, unless it begins one.               *)
LEMMA SameBlock ==
  ASSUME NEW x \in Nat, (x + 1) % PDPAGES # 0
  PROVE  (x + 1) \div PDPAGES = x \div PDPAGES
  <1>1. PICK P \in Nat \ {0} : P = PDPAGES
    BY PsdSizes
  <1>2. PICK y \in Nat : y = x + 1
    OBVIOUS
  <1>3. PICK d \in Nat, r \in 0 .. P - 1 : d = y \div P /\ r = y % P /\ y = P * d + r
    BY <1>1
  <1>4. PICK m \in Nat : m = d * P /\ m = P * d
    OBVIOUS
  <1>5. r # 0
    BY <1>1, <1>2, <1>3
  <1>6. m <= x /\ x < m + P
    BY <1>2, <1>3, <1>4, <1>5
  <1>7. x \div P = d
    BY <1>4, <1>6, DivFits
  <1>8. QED
    BY <1>1, <1>2, <1>3, <1>7

(* A file begins with nothing received and nothing written.                *)
LEMMA FileBegins ==
  ASSUME NEW page, NEW bad, NEW no, NEW from \in Nat, NEW data \in Nat, from % PDPAGES = 0, from <= PDBLOCKS * PDPAGES
  PROVE  Receiving(page, bad, from, no, data, from, 0, <<>>)
  <1>1. GoodPages(bad, from, from) = {}
    BY DEF GoodPages
  <1>2. PdWritten(bad, from, from) = 0
    BY <1>1, FS_EmptySet DEF PdWritten
  <1>3. PDREPORTS \in Nat /\ 0 * PDREPORTS = 0 /\ from \in 0 .. PDBLOCKS * PDPAGES
    BY PsdSizes
  <1>4. 0 = PdWritten(bad, from, from) * PDREPORTS + 0
    BY <1>2, <1>3
  <1>5. <<>> = [i \in 1 .. 0 |-> <<no, PdWritten(bad, from, from) * PDREPORTS + i>>]
    OBVIOUS
  <1>6. \E l \in 0 .. PDREPORTS :
          /\ 0 = PdWritten(bad, from, from) * PDREPORTS + l
          /\ <<>> = [i \in 1 .. l |-> <<no, PdWritten(bad, from, from) * PDREPORTS + i>>]
    BY <1>3, <1>4, <1>5
  <1>7. QED
    BY <1>1, <1>3, <1>6 DEF Receiving

(* A report goes where it belongs in the page at hand.                     *)
LEMMA ReportTaken ==
  ASSUME NEW page, NEW bad, NEW no, NEW from \in Nat, NEW data \in Nat, NEW offs, NEW got, NEW buff,
         Receiving(page, bad, from, no, data, offs, got, buff), Len(buff) # PDREPORTS, got # data
  PROVE  Receiving(page, bad, from, no, data, offs, got + 1, Append(buff, <<no, got + 1>>))
  <1>1. offs \in Nat /\ got \in 0 .. data
    BY PsdSizes DEF Receiving
  <1>2. PICK k \in Nat : k = PdWritten(bad, from, offs)
    BY <1>1, GoodPagesFact
  <1>3. PICK l \in 0 .. PDREPORTS : got = k * PDREPORTS + l /\ buff = [i \in 1 .. l |-> <<no, k * PDREPORTS + i>>]
    BY <1>2 DEF Receiving
  <1>4. PICK m \in Nat : m = k * PDREPORTS
    BY PsdSizes
  <1>6. Len(buff) = l /\ l \in Nat
    BY <1>3, PsdSizes
  <1>7. l + 1 \in 0 .. PDREPORTS
    BY <1>3, <1>6, PsdSizes
  <1>8. Append(buff, <<no, got + 1>>) = [i \in 1 .. l + 1 |-> <<no, m + i>>]
    <2>1. buff = [i \in 1 .. l |-> <<no, m + i>>] /\ got + 1 = m + (l + 1)
      BY <1>1, <1>3, <1>4, <1>6
    <2>2. PICK S : S = {no} \X Nat
      OBVIOUS
    <2>3. PICK x \in S : x = <<no, got + 1>>
      <3>1. got + 1 \in Nat
        BY <1>1
      <3>2. <<no, got + 1>> \in {no} \X Nat
        BY <3>1
      <3>3. QED
        BY <2>2, <3>2
    <2>4. buff \in [1 .. l -> S]
      BY <1>6, <2>1, <2>2
    <2>5. buff \in Seq(S)
      BY <1>6, <2>4, SeqDef
    <2>6. PICK t : t = Append(buff, x)
      OBVIOUS
    <2>7. t \in Seq(S) /\ Len(t) = l + 1 /\ \A i \in 1 .. l : t[i] = buff[i]
      BY <1>6, <2>5, <2>6, AppendProperties
    <2>8. t[l + 1] = x
      BY <1>6, <2>5, <2>6, AppendProperties
    <2>9. t \in [1 .. l + 1 -> S]
      BY <2>7, LenProperties
    <2>10. ASSUME NEW i \in 1 .. l + 1  PROVE t[i] = <<no, m + i>>
      <3>1. CASE i = l + 1
        BY <2>1, <2>3, <2>8, <3>1
      <3>2. CASE i # l + 1
        <4>1. i \in 1 .. l
          BY <1>6, <3>2
        <4>2. QED
          BY <2>1, <2>7, <4>1
      <3>3. QED
        BY <3>1, <3>2
    <2>11. t = [i \in 1 .. l + 1 |-> <<no, m + i>>]
      BY <2>9, <2>10
    <2>12. QED
      BY <2>3, <2>6, <2>11
  <1>9. got + 1 = m + (l + 1) /\ got + 1 \in 0 .. data
    BY <1>1, <1>3, <1>4, <1>6
  <1>10. QED
    BY <1>1, <1>2, <1>4, <1>7, <1>8, <1>9 DEF Receiving

(* A bad block is passed over.                                             *)
LEMMA BlockSkipped ==
  ASSUME NEW page, NEW bad, NEW no, NEW from \in Nat, NEW data \in Nat, NEW offs, NEW got, NEW buff,
         Receiving(page, bad, from, no, data, offs, got, buff), offs % PDPAGES = 0, offs \div PDPAGES \in bad,
         offs + PDPAGES <= PDBLOCKS * PDPAGES
  PROVE  Receiving(page, bad, from, no, data, offs + PDPAGES, got, buff)
  <1>1. offs \in Nat /\ from <= offs
    BY PsdSizes DEF Receiving
  <1>2. PICK x \in Nat : x = offs + PDPAGES
    BY <1>1, PsdSizes
  <1>3. GoodPages(bad, from, x) = GoodPages(bad, from, offs) /\ x % PDPAGES = 0
    BY <1>1, <1>2, BadBlockAdds
  <1>4. PdWritten(bad, from, x) = PdWritten(bad, from, offs)
    BY <1>3 DEF PdWritten
  <1>5. x \in 0 .. PDBLOCKS * PDPAGES /\ from <= x
    BY <1>1, <1>2, PsdSizes
  <1>6. Receiving(page, bad, from, no, data, x, got, buff)
    BY <1>3, <1>4, <1>5 DEF Receiving
  <1>7. QED
    BY <1>2, <1>6

(* A page that is full is written where a reader looks for it.             *)
LEMMA PageWritten ==
  ASSUME NEW page, NEW bad, NEW no, NEW from \in Nat, NEW data \in Nat, NEW offs \in PdPageNos, NEW got, NEW buff,
         Receiving(page, bad, from, no, data, offs, got, buff), buff # <<>>, Len(buff) = PDREPORTS \/ got = data,
         DOMAIN page = PdPageNos, offs % PDPAGES = 0 => offs \div PDPAGES \notin bad
  PROVE  Receiving([page EXCEPT ![offs] = buff], bad, from, no, data, offs + 1, got, <<>>)
  <1>1. offs \in Nat /\ offs + 1 \in 0 .. PDBLOCKS * PDPAGES /\ got \in 0 .. data /\ from <= offs /\ from <= offs + 1
    BY PsdSizes DEF Receiving, PdPageNos
  <1>2. offs \div PDPAGES \notin bad
    BY DEF Receiving
  <1>3. PICK k \in Nat : k = PdWritten(bad, from, offs)
    BY <1>1, GoodPagesFact
  <1>4. PICK l \in 0 .. PDREPORTS : got = k * PDREPORTS + l /\ buff = [i \in 1 .. l |-> <<no, k * PDREPORTS + i>>]
    BY <1>3 DEF Receiving
  <1>5. PICK m \in Nat : m = k * PDREPORTS
    BY PsdSizes
  <1>6. PICK R \in Nat \ {0} : R = PDREPORTS
    BY PsdSizes
  <1>7. GoodPages(bad, from, offs + 1) = GoodPages(bad, from, offs) \cup {offs} /\ PdWritten(bad, from, offs + 1) = k + 1
    BY <1>1, <1>2, <1>3, GoodPageAdds
  <1>8. l \in 0 .. R /\ got = m + l /\ buff = [i \in 1 .. l |-> <<no, m + i>>] /\ (l = R \/ got = data)
    <2>1. l \in Nat /\ Len(buff) = l
      BY <1>4, PsdSizes
    <2>2. QED
      BY <1>4, <1>5, <1>6, <2>1
  <1>9. buff = FileReports(no, data, k)
    <2>1. (IF data - m < R THEN data - m ELSE R) = l
      BY <1>1, <1>6, <1>8
    <2>2. QED
      BY <1>5, <1>6, <1>8, <2>1 DEF FileReports
  <1>10. ASSUME NEW n \in PdPageNos, n \in GoodPages(bad, from, offs + 1)
         PROVE  [page EXCEPT ![offs] = buff][n] = FileReports(no, data, PdWritten(bad, from, n))
    <2>1. CASE n = offs
      BY <1>3, <1>9, <2>1
    <2>2. CASE n # offs
      <3>1. n \in GoodPages(bad, from, offs)
        BY <1>7, <1>10, <2>2
      <3>2. page[n] = FileReports(no, data, PdWritten(bad, from, n))
        BY <3>1 DEF Receiving
      <3>3. QED
        BY <2>2, <3>2
    <2>3. QED
      BY <2>1, <2>2
  <1>11. (offs + 1) % PDPAGES # 0 => (offs + 1) \div PDPAGES \notin bad
    BY <1>1, <1>2, SameBlock
  <1>12. \/ \E j \in 0 .. PDREPORTS :
              /\ got = PdWritten(bad, from, offs + 1) * PDREPORTS + j
              /\ <<>> = [i \in 1 .. j |-> <<no, PdWritten(bad, from, offs + 1) * PDREPORTS + i>>]
         \/ got = data /\ PdWritten(bad, from, offs + 1) * PDREPORTS >= data
    <2>1. (k + 1) * R = m + R
      BY <1>5, <1>6
    <2>2. CASE l = R
      <3>1. got = (k + 1) * R + 0
        BY <1>8, <2>1, <2>2
      <3>2. <<>> = [i \in 1 .. 0 |-> <<no, (k + 1) * R + i>>] /\ 0 \in 0 .. R
        OBVIOUS
      <3>3. QED
        BY <1>6, <1>7, <3>1, <3>2
    <2>3. CASE got = data
      BY <1>6, <1>7, <1>8, <2>1, <2>3
    <2>4. QED
      BY <1>8, <2>2, <2>3
  <1>13. QED
    BY <1>1, <1>10, <1>11, <1>12 DEF Receiving

(* A file of which everything was received and nothing is left to write    *)
(* reads back.                                                             *)
LEMMA FileReadsBack ==
  ASSUME NEW page, NEW bad, NEW no, NEW from \in Nat, NEW data \in Nat, NEW offs,
         Receiving(page, bad, from, no, data, offs, data, <<>>)
  PROVE  ReadsBack(page, bad, from, no, data)
  <1>1. offs \in Nat /\ offs <= PDBLOCKS * PDPAGES /\ PDBLOCKS * PDPAGES \in Nat
    BY PsdSizes DEF Receiving
  <1>2. PICK k \in Nat : k = PdWritten(bad, from, offs)
    BY <1>1, GoodPagesFact
  <1>3. PICK R \in Nat \ {0} : R = PDREPORTS
    BY PsdSizes
  <1>4. k * R >= data
    <2>1. k * R \in Nat
      OBVIOUS
    <2>2. CASE \E l \in 0 .. R : data = k * R + l /\ <<>> = [i \in 1 .. l |-> <<no, k * R + i>>]
      <3>1. PICK l \in 0 .. R : data = k * R + l /\ <<>> = [i \in 1 .. l |-> <<no, k * R + i>>]
        BY <2>2
      <3>2. l = 0
        BY <3>1
      <3>3. QED
        BY <2>1, <3>1, <3>2
    <2>3. QED
      BY <1>2, <1>3, <2>1, <2>2 DEF Receiving
  <1>5. ASSUME NEW a \in Nat, k <= a  PROVE a * R >= data
    <2>1. PICK d \in Nat : a = k + d
      <3>1. a - k \in Nat /\ a = k + (a - k)
        BY <1>5
      <3>2. QED
        BY <3>1
    <2>2. a * R = k * R + d * R /\ d * R \in Nat /\ k * R \in Nat
      BY <2>1
    <2>3. QED
      BY <1>4, <2>2
  <1>6. Cardinality(GoodPages(bad, from, PDBLOCKS * PDPAGES)) * PDREPORTS >= data
    <2>1. PICK a \in Nat : a = PdWritten(bad, from, PDBLOCKS * PDPAGES) /\ k <= a
      BY <1>1, <1>2, GoodPagesFact
    <2>2. QED
      BY <1>3, <1>5, <2>1 DEF PdWritten
  <1>7. ASSUME NEW n \in GoodPages(bad, from, PDBLOCKS * PDPAGES), PdWritten(bad, from, n) * PDREPORTS < data
        PROVE  page[n] = FileReports(no, data, PdWritten(bad, from, n))
    <2>1. n \in Nat /\ n \in PdPageNos /\ from <= n /\ n \div PDPAGES \notin bad
      BY <1>1 DEF GoodPages, PdPageNos
    <2>2. n < offs
      <3>1. SUFFICES ASSUME offs <= n  PROVE FALSE
        BY <1>1, <2>1
      <3>2. PICK a \in Nat : a = PdWritten(bad, from, n) /\ k <= a
        BY <1>1, <1>2, <2>1, <3>1, GoodPagesFact
      <3>3. a * R \in Nat /\ a * R < data
        BY <1>3, <1>7, <3>2
      <3>4. a * R >= data
        BY <1>5, <3>2
      <3>5. QED
        BY <3>3, <3>4
    <2>3. n \in GoodPages(bad, from, offs)
      BY <1>1, <2>1, <2>2 DEF GoodPages
    <2>4. QED
      BY <2>1, <2>3 DEF Receiving
  <1>8. QED
    BY <1>6, <1>7 DEF ReadsBack, PdWritten

(* The last command is one of the host's, or there was none.               *)
LEMMA HostCommand ==
  ASSUME NEW c \in PdCommands
  PROVE  /\ c.type \in {"register", "file", "ignore"}
         /\ c.type = "file" => c.address \in Nat /\ c.data \in Nat
  BY PsdAssumption

(* Only files can be promised to be on the flash: a command to a register  *)
(* leaves nothing to show but the shape of the state.                      *)
LEMMA RegisterStep ==
  ASSUME PsdInv, pdPhase = "register", pdPhase' = "reply", RegisterKeeps,
         DOMAIN pdPage' = PdParts, \A p \in PdParts : DOMAIN pdPage'[p] = PdPageNos
  PROVE  PsdInv'
  <1>1. PdShape'
    BY DEF PsdInv, PdShape, RegisterKeeps
  <1>2. pdCmd'.type = "register"
    BY DEF PsdInv, PdShape, RegisterKeeps
  <1>3. FileInv'
    BY <1>2 DEF FileInv, PdCase
  <1>4. QED
    BY <1>1, <1>3 DEF PsdInv

(* The next command.                                                       *)
LEMMA DispatchStep ==
  ASSUME PsdInv, NEW c \in PdCommands, Dispatch(c)
  PROVE  PsdInv'
  <1>1. c.type \in {"register", "file", "ignore"}
    BY HostCommand
  <1>2. PdShape'
    BY <1>1 DEF PsdInv, PdShape, Dispatch
  <1>3. pdPhase' # "receive" /\ pdPhase' # "reply" /\ pdReply' # "complete"
    BY <1>1 DEF Dispatch
  <1>4. FileInv'
    BY <1>3 DEF FileInv
  <1>5. QED
    BY <1>2, <1>4 DEF PsdInv

(* What does not touch the flash and neither receives nor answers.         *)
LEMMA IdleStep ==
  ASSUME PsdInv, pdPhase' \in {"cmd", "closed", "exited"}, UNCHANGED <<pdCmd, pdNo, pdPart, pdPage, pdBad, pdReply, pdGuess>>
  PROVE  PsdInv'
  <1>1. PdShape'
    BY DEF PsdInv, PdShape
  <1>2. PdCase' = PdCase
    BY DEF PdCase
  <1>3. PdOnFlash' = PdOnFlash
    BY DEF PdOnFlash
  <1>4. FileInv'
    BY <1>2, <1>3 DEF PsdInv, FileInv
  <1>5. QED
    BY <1>1, <1>4 DEF PsdInv

(* The answer.                                                             *)
LEMMA AnswerStep ==
  ASSUME PsdInv, psd_hidResponse
  PROVE  PsdInv'
  <1>1. PdShape'
    BY DEF PsdInv, PdShape, psd_hidResponse
  <1>2. PdCase' = PdCase
    BY DEF PdCase, psd_hidResponse
  <1>3. PdOnFlash' = PdOnFlash
    BY DEF PdOnFlash, psd_hidResponse
  <1>4. pdPhase = "reply" /\ pdPhase' # "receive" /\ pdPhase' # "reply" /\ (pdReply' = "complete" => ~ pdErr)
    BY DEF psd_hidResponse
  <1>5. FileInv'
    BY <1>2, <1>3, <1>4 DEF PsdInv, FileInv
  <1>6. QED
    BY <1>1, <1>5 DEF PsdInv

(* A step of a file that ends it with an error.                            *)
LEMMA FileFails ==
  ASSUME PsdInv, pdPhase = "receive", Answer(TRUE), UNCHANGED <<pdCmd, pdNo, pdPart, pdBad, pdReply>>,
         DOMAIN pdPage' = PdParts, \A p \in PdParts : DOMAIN pdPage'[p] = PdPageNos
  PROVE  PsdInv'
  <1>1. PdShape'
    BY DEF PsdInv, PdShape, Answer
  <1>2. pdPhase' = "reply" /\ pdErr' /\ pdReply' = "none"
    BY DEF PsdInv, PdShape, Answer
  <1>3. FileInv'
    BY <1>2 DEF FileInv
  <1>4. QED
    BY <1>1, <1>3 DEF PsdInv

(* While a file is received, what is to be shown of a step is that what is *)
(* on the flash and in the buffer is still right.                          *)
LEMMA FileGoesOn ==
  ASSUME PsdInv, pdPhase = "receive", pdPhase' = "receive", UNCHANGED <<pdCmd, pdNo, pdPart, pdBad, pdReply>>,
         DOMAIN pdPage' = PdParts, \A p \in PdParts : DOMAIN pdPage'[p] = PdPageNos,
         PdCase' => Receiving(pdPage'[pdPart], pdBad[pdPart], pdCmd.address, pdNo, pdCmd.data, pdOffs', pdGot', pdBuff')
  PROVE  PsdInv'
  <1>1. PdShape'
    BY DEF PsdInv, PdShape
  <1>2. pdReply' = "none"
    BY DEF PsdInv, PdShape
  <1>3. FileInv'
    BY <1>2 DEF FileInv
  <1>4. QED
    BY <1>1, <1>3 DEF PsdInv

(* What a file being received knows of its command.                        *)
LEMMA FileCommand ==
  ASSUME PsdInv, pdPhase \in {"file", "receive"}
  PROVE  pdCmd.type = "file" /\ pdCmd.address \in Nat /\ pdCmd.data \in Nat
  <1>1. pdCmd.type = "file"
    BY DEF PsdInv, PdShape
  <1>2. pdCmd \in PdCommands
    <2>1. NoCmd.type = "none"
      BY DEF NoCmd
    <2>2. pdCmd # NoCmd
      BY <1>1, <2>1
    <2>3. QED
      BY <2>2 DEF PsdInv, PdShape
  <1>3. QED
    BY <1>1, <1>2, HostCommand

(* The step that begins a file.                                            *)
LEMMA FileStartsStep ==
  ASSUME PsdInv, FileStarts
  PROVE  PsdInv'
  <1>1. pdCmd.type = "file" /\ pdCmd.address \in Nat /\ pdCmd.data \in Nat
    BY FileCommand DEF FileStarts
  <1>2. PdShape'
    BY <1>1 DEF PsdInv, PdShape, FileStarts
  <1>3. pdCmd.address <= PDBLOCKS * PDPAGES
    <2>1. PICK R \in Nat \ {0}, a \in Nat, d \in Nat : R = PDREPORTS /\ a = pdCmd.address /\ d = pdCmd.data
      BY <1>1, PsdSizes
    <2>2. (d + R - 1) \div R \in Nat
      <3>1. PICK x \in Nat : x = d + R - 1
        BY <2>1
      <3>2. x \div R \in Nat
        OBVIOUS
      <3>3. QED
        BY <3>1, <3>2
    <2>3. a + (d + R - 1) \div R <= PDBLOCKS * PDPAGES
      BY <2>1 DEF FileStarts
    <2>4. QED
      BY <2>1, <2>2, <2>3, PsdSizes
  <1>4. pdGot' = 0 /\ pdBuff' = <<>> /\ pdReply' = "none" /\ pdPhase' = "receive" /\ pdOffs' = pdCmd.address
    BY DEF PsdInv, PdShape, FileStarts
  <1>5. UNCHANGED <<pdCmd, pdNo, pdPart, pdPage, pdBad>>
    BY DEF FileStarts
  <1>6. PdCase' => Receiving(pdPage[pdPart], pdBad[pdPart], pdCmd.address, pdNo, pdCmd.data, pdCmd.address, 0, <<>>)
    BY <1>1, <1>3, <1>5, FileBegins DEF PdCase
  <1>7. FileInv'
    BY <1>4, <1>5, <1>6 DEF FileInv
  <1>8. QED
    BY <1>2, <1>7 DEF PsdInv

(* The step that takes a report, or fails to.                              *)
LEMMA FileReportStep ==
  ASSUME PsdInv, FileReport
  PROVE  PsdInv'
  <1>1. pdPhase = "receive" /\ Len(pdBuff) # PDREPORTS /\ pdGot # pdCmd.data
    BY DEF FileReport, PageFull
  <1>2. UNCHANGED <<pdCmd, pdNo, pdPart, pdPage, pdBad, pdReply, pdOffs, pdGuess>>
    BY DEF FileReport
  <1>3. DOMAIN pdPage' = PdParts /\ \A p \in PdParts : DOMAIN pdPage'[p] = PdPageNos
    BY <1>2 DEF PsdInv, PdShape
  <1>4. CASE Answer(TRUE)
    BY <1>1, <1>2, <1>3, <1>4, FileFails
  <1>5. CASE pdBuff' = Append(pdBuff, <<pdNo, pdGot + 1>>) /\ pdGot' = pdGot + 1 /\ UNCHANGED <<pdPhase, pdErr>>
    <2>1. pdCmd.address \in Nat /\ pdCmd.data \in Nat
      BY <1>1, FileCommand
    <2>2. PdCase' => Receiving(pdPage[pdPart], pdBad[pdPart], pdCmd.address, pdNo, pdCmd.data, pdOffs, pdGot, pdBuff)
      BY <1>1, <1>2 DEF PsdInv, FileInv, PdCase
    <2>3. PdCase' => Receiving(pdPage[pdPart], pdBad[pdPart], pdCmd.address, pdNo, pdCmd.data, pdOffs, pdGot + 1, Append(pdBuff, <<pdNo, pdGot + 1>>))
      BY <1>1, <2>1, <2>2, ReportTaken
    <2>4. PdCase' => Receiving(pdPage'[pdPart], pdBad[pdPart], pdCmd.address, pdNo, pdCmd.data, pdOffs', pdGot', pdBuff')
      BY <1>2, <1>5, <2>3
    <2>5. pdPhase' = "receive"
      BY <1>1, <1>5
    <2>6. QED
      BY <1>1, <1>2, <1>3, <2>4, <2>5, FileGoesOn
  <1>6. QED
    BY <1>4, <1>5 DEF FileReport

(* The step that passes over a block: the promise is void after a guess,   *)
(* for a direct write, and when the partition has no further block.        *)
LEMMA FileSkipsStep ==
  ASSUME PsdInv, FileSkips
  PROVE  PsdInv'
  <1>1. pdPhase = "receive" /\ pdOffs % PDPAGES = 0
    BY DEF FileSkips, BlockStart
  <1>2. UNCHANGED <<pdCmd, pdNo, pdPart, pdPage, pdBad, pdReply, pdGot, pdBuff>>
    BY DEF FileSkips
  <1>3. DOMAIN pdPage' = PdParts /\ \A p \in PdParts : DOMAIN pdPage'[p] = PdPageNos
    BY <1>2 DEF PsdInv, PdShape
  <1>4. CASE pdCmd.format = 1 /\ Answer(FALSE) /\ UNCHANGED pdOffs
    <2>1. PdShape'
      BY <1>1, <1>2, <1>4 DEF PsdInv, PdShape, Answer
    <2>2. ~ PdCase'
      BY <1>2, <1>4 DEF PdCase
    <2>3. QED
      BY <2>1, <2>2 DEF PsdInv, FileInv
  <1>5. CASE Answer(TRUE)
    BY <1>1, <1>2, <1>3, <1>5, FileFails
  <1>6. CASE pdOffs' = pdOffs + PDPAGES /\ pdOffs + PDPAGES < PDBLOCKS * PDPAGES /\ UNCHANGED <<pdPhase, pdErr>>
    <2>1. pdCmd.address \in Nat /\ pdCmd.data \in Nat
      BY <1>1, FileCommand
    <2>2. ASSUME PdCase'
          PROVE  Receiving(pdPage'[pdPart], pdBad[pdPart], pdCmd.address, pdNo, pdCmd.data, pdOffs', pdGot', pdBuff')
      <3>1. ~ pdGuess' /\ pdOffs \div PDPAGES \in pdBad[pdPart] /\ ~ pdGuess
        <4>1. ~ pdGuess'
          BY <2>2 DEF PdCase
        <4>2. isBadBlock /\ pdGuess' = pdGuess
          BY <4>1 DEF FileSkips
        <4>3. QED
          BY <4>1, <4>2 DEF isBadBlock
      <3>2. PdCase
        BY <1>2, <2>2, <3>1 DEF PdCase
      <3>3. Receiving(pdPage[pdPart], pdBad[pdPart], pdCmd.address, pdNo, pdCmd.data, pdOffs, pdGot, pdBuff)
        BY <1>1, <3>2 DEF PsdInv, FileInv
      <3>4. pdOffs + PDPAGES <= PDBLOCKS * PDPAGES
        <4>1. pdOffs \in Nat
          BY <3>3, PsdSizes DEF Receiving
        <4>2. QED
          BY <1>6, <4>1, PsdSizes
      <3>5. Receiving(pdPage[pdPart], pdBad[pdPart], pdCmd.address, pdNo, pdCmd.data, pdOffs + PDPAGES, pdGot, pdBuff)
        BY <1>1, <2>1, <3>1, <3>3, <3>4, BlockSkipped
      <3>6. QED
        BY <1>2, <1>6, <3>5
    <2>3. pdPhase' = "receive"
      BY <1>1, <1>6
    <2>4. QED
      BY <1>1, <1>2, <1>3, <2>2, <2>3, FileGoesOn
  <1>7. QED
    BY <1>4, <1>5, <1>6 DEF FileSkips

(* The step that writes a page, or fails to.                               *)
LEMMA FileWritesStep ==
  ASSUME PsdInv, FileWrites
  PROVE  PsdInv'
  <1>1. /\ pdPhase = "receive" /\ pdOffs \in PdPageNos /\ pdBuff # <<>> /\ (Len(pdBuff) = PDREPORTS \/ pdGot = pdCmd.data)
        /\ pdOffs % PDPAGES = 0 => pdOffs \div PDPAGES \notin pdBad[pdPart]
    BY DEF FileWrites, FileMayWrite, PageFull, BlockStart, isBadBlock
  <1>2. UNCHANGED <<pdCmd, pdNo, pdPart, pdBad, pdReply, pdGuess, pdGot>>
    BY DEF FileWrites
  <1>3. pdPart \in PdParts /\ DOMAIN pdPage = PdParts /\ (\A p \in PdParts : DOMAIN pdPage[p] = PdPageNos)
    BY <1>1 DEF PsdInv, PdShape
  <1>4. \A f : LET q == [pdPage EXCEPT ![pdPart][pdOffs] = f]
               IN  /\ DOMAIN q = PdParts /\ (\A p \in PdParts : DOMAIN q[p] = PdPageNos)
                   /\ q[pdPart] = [pdPage[pdPart] EXCEPT ![pdOffs] = f]
    BY <1>3
  <1>5. CASE pdPage' = [pdPage EXCEPT ![pdPart][pdOffs] = PdBlank] /\ Answer(TRUE)
    <2>1. DOMAIN pdPage' = PdParts /\ \A p \in PdParts : DOMAIN pdPage'[p] = PdPageNos
      BY <1>4, <1>5
    <2>2. QED
      BY <1>1, <1>2, <1>5, <2>1, FileFails
  <1>6. CASE pdPage' = [pdPage EXCEPT ![pdPart][pdOffs] = pdBuff] /\ pdOffs' = pdOffs + 1 /\ pdBuff' = <<>> /\ UNCHANGED <<pdPhase, pdErr>>
    <2>1. DOMAIN pdPage' = PdParts /\ \A p \in PdParts : DOMAIN pdPage'[p] = PdPageNos
      BY <1>4, <1>6
    <2>2. pdPage'[pdPart] = [pdPage[pdPart] EXCEPT ![pdOffs] = pdBuff]
      BY <1>4, <1>6
    <2>3. pdCmd.address \in Nat /\ pdCmd.data \in Nat
      BY <1>1, FileCommand
    <2>4. PdCase' => Receiving(pdPage[pdPart], pdBad[pdPart], pdCmd.address, pdNo, pdCmd.data, pdOffs, pdGot, pdBuff)
      BY <1>1, <1>2 DEF PsdInv, FileInv, PdCase
    <2>5. DOMAIN pdPage[pdPart] = PdPageNos
      BY <1>3
    <2>6. PdCase' => Receiving([pdPage[pdPart] EXCEPT ![pdOffs] = pdBuff], pdBad[pdPart], pdCmd.address, pdNo, pdCmd.data, pdOffs + 1, pdGot, <<>>)
      BY <1>1, <2>3, <2>4, <2>5, PageWritten
    <2>7. PdCase' => Receiving(pdPage'[pdPart], pdBad[pdPart], pdCmd.address, pdNo, pdCmd.data, pdOffs', pdGot', pdBuff')
      BY <1>2, <1>6, <2>2, <2>6
    <2>8. pdPhase' = "receive"
      BY <1>1, <1>6
    <2>9. QED
      BY <1>1, <1>2, <2>1, <2>7, <2>8, FileGoesOn
  <1>7. QED
    BY <1>5, <1>6 DEF FileWrites

(* The step that ends a file.                                              *)
LEMMA FileEndsStep ==
  ASSUME PsdInv, FileEnds
  PROVE  PsdInv'
  <1>1. pdPhase = "receive" /\ pdGot = pdCmd.data /\ pdBuff = <<>> /\ pdPhase' = "reply"
    BY DEF FileEnds, Answer
  <1>2. UNCHANGED <<pdCmd, pdNo, pdPart, pdPage, pdBad, pdReply, pdGuess>>
    BY DEF FileEnds
  <1>3. PdShape'
    BY <1>1, <1>2 DEF PsdInv, PdShape
  <1>4. PdCase' => PdOnFlash'
    <2>1. pdCmd.address \in Nat /\ pdCmd.data \in Nat
      BY <1>1, FileCommand
    <2>2. PdCase' => Receiving(pdPage[pdPart], pdBad[pdPart], pdCmd.address, pdNo, pdCmd.data, pdOffs, pdCmd.data, <<>>)
      BY <1>1, <1>2 DEF PsdInv, FileInv, PdCase
    <2>3. PdCase' => ReadsBack(pdPage[pdPart], pdBad[pdPart], pdCmd.address, pdNo, pdCmd.data)
      BY <2>1, <2>2, FileReadsBack
    <2>4. QED
      BY <1>2, <2>3 DEF PdOnFlash
  <1>5. FileInv'
    BY <1>1, <1>4 DEF FileInv
  <1>6. QED
    BY <1>3, <1>5 DEF PsdInv

(* Before anything was sent.                                               *)
LEMMA PsdInitially == PsdInit => PsdInv
  <1>1. SUFFICES ASSUME PsdInit  PROVE PsdInv
    OBVIOUS
  <1>2. PdShape
    BY <1>1 DEF PsdInit, PdShape
  <1>3. pdPhase = "boot" /\ pdReply = "none"
    BY <1>1 DEF PsdInit
  <1>4. FileInv
    BY <1>3 DEF FileInv
  <1>5. QED
    BY <1>2, <1>4 DEF PsdInv

(* Every step keeps the invariant.                                         *)
LEMMA PsdSteps == PsdInv /\ [PsdNext]_pdVars => PsdInv'
  <1>1. SUFFICES ASSUME PsdInv, [PsdNext]_pdVars  PROVE PsdInv'
    OBVIOUS
  <1>2. PdShape
    BY <1>1 DEF PsdInv
  <1>3. CASE PsdStart
    BY <1>1, <1>3, IdleStep DEF PsdStart
  <1>4. CASE RecvCmd
    BY <1>1, <1>4, DispatchStep DEF RecvCmd
  <1>5. CASE RecvAgain
    <2>1. pdCmd \in PdCommands /\ Dispatch(pdCmd)
      BY <1>2, <1>5 DEF RecvAgain, PdShape
    <2>2. QED
      BY <1>1, <2>1, DispatchStep
  <1>6. CASE PsdClose
    BY <1>1, <1>6, IdleStep DEF PsdClose
  <1>7. CASE psd_hidResponse
    BY <1>1, <1>7, AnswerStep
  <1>8. DOMAIN pdPage = PdParts /\ \A p \in PdParts : DOMAIN pdPage[p] = PdPageNos
    BY <1>2 DEF PdShape
  <1>9. CASE psd_changePartition
    <2>1. pdPhase = "register" /\ pdPhase' = "reply" /\ RegisterKeeps /\ pdPage' = pdPage
      BY <1>9 DEF psd_changePartition, Register, Answer
    <2>2. QED
      BY <1>1, <1>8, <2>1, RegisterStep
  <1>10. CASE psd_controlBlock
    <2>1. pdPhase = "register" /\ RegisterKeeps
      BY <1>10 DEF psd_controlBlock, Register
    <2>2. pdPhase' = "reply"
      BY <1>10 DEF psd_controlBlock, Answer, fcb_flash, dbbt_flash
    <2>3. pdPage' = pdPage \/ \E word, first, copies : pdPage' = Copied(word, first, copies)
      BY <1>10 DEF psd_controlBlock, fcb_flash, dbbt_flash
    <2>4. DOMAIN pdPage' = PdParts /\ \A p \in PdParts : DOMAIN pdPage'[p] = PdPageNos
      <3>1. ASSUME NEW word, NEW first, NEW copies, pdPage' = Copied(word, first, copies)
            PROVE  DOMAIN pdPage' = PdParts /\ \A p \in PdParts : DOMAIN pdPage'[p] = PdPageNos
        BY <1>8, <3>1 DEF Copied
      <3>2. QED
        BY <1>8, <2>3, <3>1
    <2>5. QED
      BY <1>1, <2>1, <2>2, <2>4, RegisterStep
  <1>11. CASE psd_erasePartition
    <2>1. pdPhase = "register" /\ RegisterKeeps /\ pdPhase' = "reply"
      BY <1>11 DEF psd_erasePartition, Register, Answer
    <2>2. pdPage' = pdPage \/ \E done : pdPage' = eraseBlocks(done)
      BY <1>11 DEF psd_erasePartition
    <2>3. DOMAIN pdPage' = PdParts /\ \A p \in PdParts : DOMAIN pdPage'[p] = PdPageNos
      <3>1. ASSUME NEW done, pdPage' = eraseBlocks(done)
            PROVE  DOMAIN pdPage' = PdParts /\ \A p \in PdParts : DOMAIN pdPage'[p] = PdPageNos
        BY <1>8, <3>1 DEF eraseBlocks
      <3>2. QED
        BY <1>8, <2>2, <3>1
    <2>4. QED
      BY <1>1, <2>1, <2>3, RegisterStep
  <1>12. CASE psd_blowFuses \/ psd_close \/ psd_unrecognized
    <2>1. pdPhase = "register" /\ pdPhase' = "reply" /\ RegisterKeeps /\ pdPage' = pdPage
      BY <1>12 DEF psd_blowFuses, psd_close, psd_unrecognized, Register, Answer
    <2>2. QED
      BY <1>1, <1>8, <2>1, RegisterStep
  <1>13. CASE PsdIgnores
    BY <1>1, <1>13, IdleStep DEF PsdIgnores
  <1>14. CASE FileRefused
    BY <1>1, <1>14, IdleStep DEF FileRefused
  <1>15. CASE FileOverruns
    <2>1. pdPhase = "receive" /\ Answer(TRUE) /\ UNCHANGED <<pdCmd, pdNo, pdPart, pdPage, pdBad, pdReply>>
      BY <1>15 DEF FileOverruns
    <2>2. DOMAIN pdPage' = PdParts /\ \A p \in PdParts : DOMAIN pdPage'[p] = PdPageNos
      BY <1>8, <2>1
    <2>3. QED
      BY <1>1, <2>1, <2>2, FileFails
  <1>16. CASE UNCHANGED pdVars
    <2>1. PdShape'
      BY <1>2, <1>16 DEF pdVars, PdShape
    <2>2. PdCase' = PdCase /\ PdOnFlash' = PdOnFlash
      BY <1>16 DEF pdVars, PdCase, PdOnFlash
    <2>3. FileInv'
      BY <1>1, <1>16, <2>2 DEF pdVars, PsdInv, FileInv
    <2>4. QED
      BY <2>1, <2>3 DEF PsdInv
  <1>17. QED
    BY <1>1, <1>3, <1>4, <1>5, <1>6, <1>7, <1>9, <1>10, <1>11, <1>12, <1>13, <1>14, <1>15, <1>16,
       FileStartsStep, FileReportStep, FileSkipsStep, FileWritesStep, FileEndsStep DEF PsdNext

(* A file that psd answers as complete is on the flash for whoever reads   *)
(* the good pages from its first block on, all of it and in order: for     *)
(* every flash, every set of bad blocks, whatever was sent before, and for *)
(* a command that psd_main carries out a second time.                      *)
THEOREM CompleteIsOnFlash == PsdSpec => []CompleteFileIsOnFlash
  <1>1. PsdInv => CompleteFileIsOnFlash
    BY DEF PsdInv, FileInv, PdCase, PdOnFlash, CompleteFileIsOnFlash
  <1>2. QED
    BY <1>1, PsdInitially, PsdSteps, PTL DEF PsdSpec
=============================================================================
