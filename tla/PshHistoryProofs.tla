-------------------------- MODULE PshHistoryProofs --------------------------
(***************************************************************************)
(* Theorems about PshHistory, for every ring size, every set of command    *)
(* lines and every set of buffers.                                         *)
(*                                                                         *)
(* The three ownership properties only hold together: that the buffer a    *)
(* full ring frees is not the one the running command is in follows from   *)
(* no two slots sharing a buffer, which in turn needs the freed buffers to *)
(* be gone from the heap the next malloc draws from.  HistInv is their     *)
(* conjunction, with the type invariant and with the fact that the ring's  *)
(* buffers are never NULL; it is inductive.                                *)
(***************************************************************************)
EXTENDS PshHistory, SequenceTheorems, TLAPS

HistInv ==
  /\ TypeOK
  /\ NoLeakNoDangling
  /\ OwnedOnce
  /\ RunningLineIsLive
  /\ pc = "read" => cur \in Bufs
  /\ pc = "returned" => hb = he

(* The wrap-around of an index, without the remainder.                     *)
LEMMA SuccFact ==
  ASSUME NEW i \in Slots
  PROVE  /\ Succ(i) = IF i = HISTSZ - 1 THEN 0 ELSE i + 1
         /\ Succ(i) \in Slots
         /\ Succ(i) # i
         /\ Prev(Succ(i)) = i
         /\ Prev(i) \in Slots
         /\ Succ(Prev(i)) = i
  <1>1. Succ(i) = IF i = HISTSZ - 1 THEN 0 ELSE i + 1
    BY HistAssumption DEF Slots, Succ
  <1>2. Prev(i) \in Slots
    BY HistAssumption DEF Slots, Prev
  <1>3. Succ(Prev(i)) = i
    <2>1. Succ(Prev(i)) = IF Prev(i) = HISTSZ - 1 THEN 0 ELSE Prev(i) + 1
      BY <1>2, HistAssumption DEF Slots, Succ
    <2>2. QED
      BY <2>1, HistAssumption DEF Slots, Prev
  <1>4. QED
    BY <1>1, <1>2, <1>3, HistAssumption DEF Slots, Prev

(* What pushing a command does to the set of slots in use.                 *)
LEMMA PushFact ==
  ASSUME NEW b \in Slots, NEW e \in Slots
  PROVE  /\ Between(b, e) \subseteq Slots
         /\ Between(b, b) = {}
         /\ e \notin Between(b, e)
         /\ b # e => b \in Between(b, e) /\ Prev(e) \in Between(b, e)
         /\ Succ(e) # b => Between(b, Succ(e)) = Between(b, e) \cup {e}
         /\ Succ(e) = b => Between(Succ(b), Succ(e)) = (Between(b, e) \cup {e}) \ {b}
  <1>1. Succ(e) = IF e = HISTSZ - 1 THEN 0 ELSE e + 1
    BY SuccFact
  <1>2. Succ(b) = IF b = HISTSZ - 1 THEN 0 ELSE b + 1
    BY SuccFact
  <1>3. /\ Between(b, e) \subseteq Slots
        /\ Between(b, b) = {}
        /\ e \notin Between(b, e)
        /\ b # e => b \in Between(b, e) /\ Prev(e) \in Between(b, e)
    BY HistAssumption DEF Between, Slots, Prev
  <1>4. Succ(e) # b => Between(b, Succ(e)) = Between(b, e) \cup {e}
    BY <1>1, HistAssumption DEF Between, Slots
  <1>5. Succ(e) = b => Between(Succ(b), Succ(e)) = (Between(b, e) \cup {e}) \ {b}
    BY <1>1, <1>2, HistAssumption DEF Between, Slots
  <1>6. QED
    BY <1>3, <1>4, <1>5

(* The empty ring satisfies the invariant.                                 *)
LEMMA InitInv == Init => HistInv
  <1>1. 0 \in Slots
    BY HistAssumption DEF Slots
  <1>2. Between(0, 0) = {}
    BY <1>1, PushFact
  <1>3. QED
    BY <1>1, <1>2
    DEF Init, HistInv, TypeOK, NoLeakNoDangling, Owned, OwnedOnce,
        RunningLineIsLive, Ring, NoEntries

(* Accepting a line: a fresh buffer enters the ring, at most one leaves.   *)
LEMMA AcceptInv ==
  ASSUME HistInv, NEW line \in Lines, AcceptCmd(line)
  PROVE  HistInv'
  <1> DEFINE slot == PushSlot(line)
             put  == [cmd EXCEPT ![slot] = cur]
  <1>1. /\ hb \in Slots /\ he \in Slots /\ cur \in Bufs /\ pc = "read"
        /\ pc' = "run" /\ cur' = cur /\ exit' = exit /\ exit \in BOOLEAN
        /\ cmd \in [Slots -> Bufs \cup {NULL}]
        /\ text \in [Slots -> Lines \cup {NULL}]
        /\ heap \subseteq Bufs
        /\ heap = {cmd[i] : i \in Ring} \cup {cur}
        /\ \A i, j \in Ring : cmd[i] = cmd[j] => i = j
        /\ \A i \in Ring : cmd[i] # cur
    BY DEF HistInv, TypeOK, NoLeakNoDangling, Owned, OwnedOnce, AcceptCmd
  <1>2. /\ he' = Succ(slot)
        /\ hb' = IF Succ(slot) = hb THEN Succ(hb) ELSE hb
        /\ cmd' = IF Succ(slot) = hb THEN [put EXCEPT ![hb] = NULL] ELSE put
        /\ text' = [text EXCEPT ![slot] = line]
        /\ heap' = (heap \ (IF SameAsLast(line) THEN {cmd[slot]} ELSE {}))
                     \ (IF Succ(slot) = hb THEN {put[hb]} ELSE {})
    BY DEF AcceptCmd, UpdateHistory
  <1>3. slot \in Slots
    BY <1>1, SuccFact DEF PushSlot
  <1>4. put \in [Slots -> Bufs \cup {NULL}]
    BY <1>1, <1>3
  <1>5. TypeOK'
    <2>1. Succ(slot) \in Slots /\ Succ(hb) \in Slots
      BY <1>1, <1>3, SuccFact
    <2>2. [put EXCEPT ![hb] = NULL] \in [Slots -> Bufs \cup {NULL}]
      BY <1>1, <1>4
    <2>3. QED
      BY <1>1, <1>2, <1>4, <2>1, <2>2 DEF TypeOK
  <1>6. CASE SameAsLast(line)
    <2>1. slot = Prev(he) /\ he # hb
      BY <1>6 DEF PushSlot, SameAsLast
    <2>2. Succ(slot) = he
      BY <2>1, <1>1, SuccFact
    <2>3. /\ he' = he /\ hb' = hb /\ cmd' = put
          /\ heap' = heap \ {cmd[slot]}
      BY <1>2, <1>6, <2>1, <2>2
    <2>4. slot \in Ring /\ Ring \subseteq Slots
      BY <2>1, <1>1, PushFact DEF Ring
    <2>5. Ring' = Ring
      BY <2>3 DEF Ring, Between, Slots
    <2>6. \A i \in Ring : cmd'[i] = IF i = slot THEN cur ELSE cmd[i]
      BY <2>3, <2>4, <1>1
    <2>7. {cmd'[i] : i \in Ring'} = heap'
      BY <2>3, <2>4, <2>5, <2>6, <1>1
    <2>8. QED
      BY <1>1, <1>5, <2>1, <2>3, <2>4, <2>5, <2>6, <2>7
      DEF HistInv, NoLeakNoDangling, Owned, OwnedOnce, RunningLineIsLive
  <1>7. CASE ~SameAsLast(line) /\ Succ(he) # hb
    <2>1. slot = he
      BY <1>7 DEF PushSlot
    <2>2. /\ he' = Succ(he) /\ hb' = hb /\ cmd' = put /\ heap' = heap
      BY <1>2, <1>7, <2>1
    <2>3. Ring' = Ring \cup {he} /\ he \notin Ring /\ Ring \subseteq Slots
      BY <2>2, <1>1, <1>7, PushFact DEF Ring, Between, Slots
    <2>4. \A i \in Ring' : cmd'[i] = IF i = he THEN cur ELSE cmd[i]
      BY <2>1, <2>2, <2>3, <1>1
    <2>5. {cmd'[i] : i \in Ring'} = heap'
      BY <2>2, <2>3, <2>4, <1>1
    <2>6. hb' # he' /\ Prev(he') = he
      BY <2>2, <1>1, <1>7, SuccFact
    <2>7. QED
      BY <1>1, <1>5, <2>2, <2>3, <2>4, <2>5, <2>6
      DEF HistInv, NoLeakNoDangling, Owned, OwnedOnce, RunningLineIsLive
  <1>8. CASE ~SameAsLast(line) /\ Succ(he) = hb
    <2>1. slot = he /\ he # hb
      BY <1>8, <1>1, SuccFact DEF PushSlot
    <2>2. /\ he' = Succ(he) /\ hb' = Succ(hb)
          /\ cmd' = [put EXCEPT ![hb] = NULL]
          /\ heap' = heap \ {put[hb]}
      BY <1>2, <1>8, <2>1
    <2>3. /\ Ring' = (Ring \cup {he}) \ {hb} /\ he \notin Ring /\ hb \in Ring
          /\ Ring \subseteq Slots
      <3>1. Ring' = Between(Succ(hb), Succ(he))
        BY <2>2 DEF Ring, Between, Slots
      <3>2. QED
        BY <3>1, <2>1, <1>1, <1>8, PushFact DEF Ring
    <2>4. \A i \in Ring' : cmd'[i] = IF i = he THEN cur ELSE cmd[i]
      BY <2>1, <2>2, <2>3, <1>1
    <2>5. put[hb] = cmd[hb]
      BY <2>1, <1>1
    <2>6. {cmd'[i] : i \in Ring'} = heap'
      BY <2>1, <2>2, <2>3, <2>4, <2>5, <1>1
    <2>7. hb' # he' /\ Prev(he') = he
      BY <2>1, <2>2, <1>1, <1>8, SuccFact
    <2>8. QED
      BY <1>1, <1>5, <2>1, <2>2, <2>3, <2>4, <2>6, <2>7
      DEF HistInv, NoLeakNoDangling, Owned, OwnedOnce, RunningLineIsLive
  <1>9. QED
    BY <1>2, <1>6, <1>7, <1>8

(* Every step of psh_run keeps HistInv.                                    *)
LEMMA StepInv == HistInv /\ [Next]_histVars => HistInv'
  <1> SUFFICES ASSUME HistInv, [Next]_histVars PROVE HistInv'
    OBVIOUS
  <1> USE DEF HistInv, TypeOK, NoLeakNoDangling, Owned, OwnedOnce, RunningLineIsLive
  <1>0. hb \in Slots /\ he \in Slots /\ 0 \in Slots
    BY HistAssumption DEF Slots
  <1>1. CASE ReadCmd
    BY <1>1 DEF ReadCmd, Ring
  <1>2. CASE ReadNoMem
    BY <1>2 DEF ReadNoMem, Ring
  <1>3. ASSUME NEW quit \in BOOLEAN, ReadFails(quit) PROVE HistInv'
    BY <1>3 DEF ReadFails, Ring
  <1>4. ASSUME NEW line \in Lines, ParseFails(line) PROVE HistInv'
    BY <1>4 DEF ParseFails, Ring
  <1>5. ASSUME NEW line \in Lines, AcceptCmd(line) PROVE HistInv'
    BY <1>5, AcceptInv
  <1>6. ASSUME NEW quit \in BOOLEAN, RunCmd(quit) PROVE HistInv'
    BY <1>6 DEF RunCmd, Ring
  <1>7. CASE HistoryClear
    <2>1. Ring' = {}
      BY <1>7, <1>0, PushFact DEF HistoryClear, Ring, Between, Slots
    <2>2. QED
      BY <1>7, <1>0, <2>1 DEF HistoryClear
  <1>8. CASE LeaveLoop
    BY <1>8 DEF LeaveLoop, Ring
  <1>9. CASE FreeHistory
    <2>1. Ring' = {}
      BY <1>9, <1>0, PushFact DEF FreeHistory, Ring, Between, Slots
    <2>2. QED
      BY <1>9, <1>0, <2>1 DEF FreeHistory
  <1>10. CASE RunAgain
    <2>1. Ring' = {} /\ Ring = {}
      BY <1>10, <1>0, PushFact DEF RunAgain, Ring, Between, Slots
    <2>2. QED
      BY <1>10, <1>0, <2>1 DEF RunAgain, NoEntries
  <1>11. CASE UNCHANGED histVars
    BY <1>11 DEF histVars, Ring
  <1>12. QED
    BY <1>1, <1>2, <1>3, <1>4, <1>5, <1>6, <1>7, <1>8, <1>9, <1>10, <1>11 DEF Next

(* HistInv holds in every state psh_run can reach.                         *)
THEOREM HistInvariant == Spec => []HistInv
  BY InitInv, StepInv, PTL DEF Spec

(* The indices stay in the ring and every slot holds a buffer or NULL.     *)
THEOREM TypeCorrect == Spec => []TypeOK
  <1>1. HistInv => TypeOK
    BY DEF HistInv
  <1>2. QED
    BY <1>1, HistInvariant, PTL

(* No command line leaks and none is freed while the shell refers to it,   *)
(* whatever the ring size, on every path through psh_run's loop.           *)
THEOREM LinesAreFreedOnce == Spec => [](NoLeakNoDangling /\ OwnedOnce)
  <1>1. HistInv => NoLeakNoDangling /\ OwnedOnce
    BY DEF HistInv
  <1>2. QED
    BY <1>1, HistInvariant, PTL

(* The words of the running command lie in a live buffer, the newest entry.*)
THEOREM RunningLineStaysLive == Spec => []RunningLineIsLive
  <1>1. HistInv => RunningLineIsLive
    BY DEF HistInv
  <1>2. QED
    BY <1>1, HistInvariant, PTL

(* "history" prints exactly the slots in use, although its size formula    *)
(* has no case for an empty ring.                                          *)
THEOREM HistoryPrintsAll == Spec => []HistoryPrintsRing
  <1>1. ASSUME HistInv PROVE HistoryPrintsRing
    <2>1. SUFFICES ASSUME pc = "run"
          PROVE {(hb + i) % HISTSZ : i \in 0 .. HistorySize - 1} = Ring
      BY DEF HistoryPrintsRing
    <2>2. hb \in Slots /\ he \in Slots /\ hb # he
      BY <1>1, <2>1 DEF HistInv, TypeOK, RunningLineIsLive
    <2>3. HistorySize \in 1 .. HISTSZ - 1
      BY <2>2, HistAssumption DEF HistorySize, Slots
    <2>4. \A i \in 0 .. HISTSZ - 1 :
            (hb + i) % HISTSZ = IF hb + i < HISTSZ THEN hb + i ELSE hb + i - HISTSZ
      BY <2>2, HistAssumption DEF Slots
    <2>5. ASSUME NEW i \in 0 .. HistorySize - 1
          PROVE  (hb + i) % HISTSZ \in Ring
      BY <2>2, <2>3, <2>4, HistAssumption DEF HistorySize, Ring, Between, Slots
    <2>6. ASSUME NEW s \in Ring
          PROVE  \E i \in 0 .. HistorySize - 1 : s = (hb + i) % HISTSZ
      <3> DEFINE i == IF hb <= s THEN s - hb ELSE s + HISTSZ - hb
      <3>1. i \in 0 .. HistorySize - 1 /\ s \in Slots
        BY <2>2, HistAssumption DEF HistorySize, Ring, Between, Slots
      <3>2. s = (hb + i) % HISTSZ
        BY <3>1, <2>2, <2>3, <2>4, HistAssumption DEF Slots
      <3>3. QED
        BY <3>1, <3>2
    <2>7. QED
      BY <2>5, <2>6
  <1>2. QED
    BY <1>1, HistInvariant, PTL

-----------------------------------------------------------------------------
(* The refinement.  The log is a function of the two indices and the slots'*)
(* text; the lemmas say what a push does to it, for any such ring.         *)
SizeOf(b, e) == IF b <= e THEN e - b ELSE HISTSZ - b + e
LogOf(b, e, t) == [i \in 1 .. SizeOf(b, e) |-> t[(b + i - 1) % HISTSZ]]

Texts == Lines \cup {NULL}

(* A slot number that runs past the end once.                              *)
Wrap(k) == IF k < HISTSZ THEN k ELSE k - HISTSZ

(* The log is a sequence as long as the ring has slots in use, and its     *)
(* i-th command is in the slot i - 1 after the oldest one.                 *)
LEMMA LogFact ==
  ASSUME NEW b \in Slots, NEW e \in Slots, NEW t \in [Slots -> Texts]
  PROVE  /\ SizeOf(b, e) \in 0 .. HISTSZ - 1
         /\ LogOf(b, e, t) \in Seq(Texts)
         /\ Len(LogOf(b, e, t)) = SizeOf(b, e)
         /\ \A i \in 1 .. SizeOf(b, e) :
              Wrap(b + i - 1) \in Slots /\ LogOf(b, e, t)[i] = t[Wrap(b + i - 1)]
  <1>1. SizeOf(b, e) \in 0 .. HISTSZ - 1
    BY HistAssumption DEF SizeOf, Slots
  <1>2. \A i \in 1 .. SizeOf(b, e) :
          (b + i - 1) % HISTSZ = Wrap(b + i - 1)
    BY <1>1, HistAssumption DEF Slots, Wrap
  <1>3. \A i \in 1 .. SizeOf(b, e) : Wrap(b + i - 1) \in Slots
    BY <1>1, HistAssumption DEF Slots, Wrap
  <1>4. LogOf(b, e, t) \in [1 .. SizeOf(b, e) -> Texts]
    BY <1>2, <1>3 DEF LogOf
  <1>5. SizeOf(b, e) \in Nat
    BY <1>1, HistAssumption
  <1>6. LogOf(b, e, t) \in Seq(Texts) /\ Len(LogOf(b, e, t)) = SizeOf(b, e)
    BY <1>4, <1>5
  <1>7. QED
    BY <1>1, <1>2, <1>3, <1>6 DEF LogOf

(* The newest command of a ring in use is the one in the slot before e.    *)
LEMMA NewestFact ==
  ASSUME NEW b \in Slots, NEW e \in Slots, NEW t \in [Slots -> Texts]
  PROVE  /\ LogOf(b, e, t) = <<>> <=> b = e
         /\ b # e => LogOf(b, e, t)[Len(LogOf(b, e, t))] = t[Prev(e)]
  <1>1. Len(LogOf(b, e, t)) = SizeOf(b, e) /\ SizeOf(b, e) \in Nat
    BY LogFact, HistAssumption
  <1>2. ASSUME b = e PROVE LogOf(b, e, t) = <<>>
    <2>1. SizeOf(b, e) = 0
      BY <1>2, HistAssumption DEF SizeOf, Slots
    <2>2. QED
      BY <2>1, LogFact, EmptySeq
  <1>3. ASSUME b # e PROVE LogOf(b, e, t) # <<>> /\ LogOf(b, e, t)[SizeOf(b, e)] = t[Prev(e)]
    <2>1. SizeOf(b, e) >= 1
      BY <1>3, HistAssumption DEF SizeOf, Slots
    <2>2. Wrap(b + SizeOf(b, e) - 1) = Prev(e)
      BY <1>3, HistAssumption DEF Wrap, SizeOf, Prev, Slots
    <2>3. LogOf(b, e, t)[SizeOf(b, e)] = t[Prev(e)]
      BY <2>1, <2>2, <1>1, LogFact
    <2>4. QED
      BY <2>1, <2>3, <1>1
  <1>4. QED
    BY <1>1, <1>2, <1>3

(* Pushing a new command appends it to the log; when that leaves no free   *)
(* slot, moving hb drops the oldest command and nothing else.              *)
LEMMA PushAppends ==
  ASSUME NEW b \in Slots, NEW e \in Slots, NEW t \in [Slots -> Texts],
         NEW u \in [Slots -> Texts], NEW c \in Texts,
         u[e] = c, \A i \in Slots \ {e} : u[i] = t[i],
         NEW l, l = Append(LogOf(b, e, t), c)
  PROVE  /\ Succ(e) # b => LogOf(b, Succ(e), u) = l /\ Len(l) <= HISTSZ - 1
         /\ Succ(e) = b => LogOf(Succ(b), Succ(e), u) = Tail(l) /\ Len(l) > HISTSZ - 1
  <1> DEFINE n == SizeOf(b, e)
  <1>1. /\ l \in Seq(Texts) /\ Len(l) = n + 1 /\ n \in 0 .. HISTSZ - 1
        /\ l[n + 1] = c
        /\ \A i \in 1 .. n : l[i] = LogOf(b, e, t)[i]
    BY LogFact
  <1>2. ASSUME NEW i \in 1 .. n + 1 PROVE l[i] = u[Wrap(b + i - 1)]
    <2>1. CASE i = n + 1
      <3>1. Wrap(b + i - 1) = e
        BY <2>1, HistAssumption DEF SizeOf, Slots, Wrap
      <3>2. QED
        BY <3>1, <2>1, <1>1
    <2>2. CASE i # n + 1
      <3>1. i \in 1 .. n
        BY <2>2, <1>1
      <3>2. Wrap(b + i - 1) # e /\ Wrap(b + i - 1) \in Slots
        BY <3>1, HistAssumption DEF SizeOf, Slots, Wrap
      <3>3. l[i] = t[Wrap(b + i - 1)]
        BY <3>1, <1>1, LogFact
      <3>4. QED
        BY <3>2, <3>3
    <2>3. QED
      BY <2>1, <2>2
  <1>3. /\ Succ(e) \in Slots /\ Succ(e) = IF e = HISTSZ - 1 THEN 0 ELSE e + 1
        /\ Succ(b) \in Slots /\ Succ(b) = IF b = HISTSZ - 1 THEN 0 ELSE b + 1
    BY SuccFact
  <1>4. Succ(e) # b => SizeOf(b, Succ(e)) = n + 1
    BY <1>3, HistAssumption DEF SizeOf, Slots
  <1>5. Succ(e) = b => n = HISTSZ - 1 /\ SizeOf(Succ(b), Succ(e)) = n
    BY <1>3, HistAssumption DEF SizeOf, Slots
  <1> HIDE DEF n
  <1>6. ASSUME Succ(e) # b PROVE LogOf(b, Succ(e), u) = l /\ Len(l) <= HISTSZ - 1
    <2> DEFINE m == LogOf(b, Succ(e), u)
    <2>1. /\ m \in Seq(Texts) /\ Len(m) = n + 1 /\ n + 1 <= HISTSZ - 1
          /\ \A i \in 1 .. n + 1 : m[i] = u[Wrap(b + i - 1)]
      <3>1. SizeOf(b, Succ(e)) = n + 1
        BY <1>4, <1>6
      <3>2. n + 1 <= HISTSZ - 1
        BY <3>1, <1>3, LogFact
      <3>3. /\ m \in Seq(Texts) /\ Len(m) = SizeOf(b, Succ(e))
            /\ \A i \in 1 .. SizeOf(b, Succ(e)) : m[i] = u[Wrap(b + i - 1)]
        BY <1>3, LogFact
      <3>4. QED
        BY <3>1, <3>2, <3>3
    <2> HIDE DEF m
    <2>2. \A i \in 1 .. Len(m) : m[i] = l[i]
      BY <2>1, <1>2
    <2>3. m = l
      BY <2>1, <2>2, <1>1, SeqEqual
    <2>4. QED
      BY <2>1, <2>3 DEF m
  <1>7. ASSUME Succ(e) = b
        PROVE  LogOf(Succ(b), Succ(e), u) = Tail(l) /\ Len(l) > HISTSZ - 1
    <2> DEFINE m == LogOf(Succ(b), Succ(e), u)
    <2>1. n \in Nat /\ Len(l) > HISTSZ - 1
      BY <1>1, <1>5, <1>7, HistAssumption
    <2>2. l # <<>>
      BY <1>1, <2>1
    <2>3. /\ Tail(l) \in Seq(Texts) /\ Len(Tail(l)) = n
          /\ \A i \in 1 .. n : Tail(l)[i] = l[i + 1]
      BY <1>1, <2>1, <2>2, HeadTailProperties
    <2>4. /\ m \in Seq(Texts) /\ Len(m) = n
          /\ \A i \in 1 .. n : m[i] = u[Wrap(Succ(b) + i - 1)]
      <3>1. /\ m \in Seq(Texts) /\ Len(m) = SizeOf(Succ(b), Succ(e))
            /\ \A i \in 1 .. SizeOf(Succ(b), Succ(e)) : m[i] = u[Wrap(Succ(b) + i - 1)]
        BY <1>3, LogFact
      <3>2. QED
        BY <3>1, <1>5, <1>7
    <2> HIDE DEF m
    <2>5. ASSUME NEW i \in 1 .. n PROVE m[i] = Tail(l)[i]
      <3>1. i + 1 \in 1 .. n + 1 /\ i \in Nat /\ i >= 1
        BY <2>1
      <3>2. Tail(l)[i] = u[Wrap(b + (i + 1) - 1)]
        BY <3>1, <2>3, <1>2
      <3>3. Wrap(Succ(b) + i - 1) = Wrap(b + (i + 1) - 1)
        BY <3>1, <1>1, <1>3, <1>5, <1>7, HistAssumption DEF Slots, Wrap
      <3>4. QED
        BY <3>2, <3>3, <2>4
    <2>6. m = Tail(l)
      BY <2>3, <2>4, <2>5, SeqEqual
    <2>7. QED
      BY <2>1, <2>6 DEF m
  <1>8. QED
    BY <1>6, <1>7

(* Every step of psh_run is a step of the log, or leaves it alone.         *)
LEMMA StepRefines == HistInv /\ [Next]_histVars => [Abs!AbsNext]_(Abs!absVars)
  <1> SUFFICES ASSUME HistInv, [Next]_histVars
      PROVE  Abs!AbsNext \/ UNCHANGED Abs!absVars
    OBVIOUS
  <1>1. /\ hb \in Slots /\ he \in Slots /\ 0 \in Slots
        /\ text \in [Slots -> Texts]
    BY HistAssumption DEF HistInv, TypeOK, Texts, Slots
  <1>2. RingLog = LogOf(hb, he, text) /\ RingLog' = LogOf(hb', he', text')
    BY DEF RingLog, LogOf, LogSize, SizeOf
  <1>3. CASE UNCHANGED <<hb, he, text>> /\ pc # "run" /\ pc' # "run"
    BY <1>3, <1>2 DEF Abs!absVars
  <1>4. ASSUME NEW line \in Lines, AcceptCmd(line) PROVE Abs!AbsNext
    <2>1. /\ line \notin Blank /\ pc = "read" /\ pc' = "run" /\ line \in Texts
          /\ he' = Succ(PushSlot(line))
          /\ hb' = IF Succ(PushSlot(line)) = hb THEN Succ(hb) ELSE hb
          /\ text' = [text EXCEPT ![PushSlot(line)] = line]
      BY <1>4 DEF AcceptCmd, UpdateHistory, Texts
    <2>2. RingLog' = Abs!Remember(line)
      <3>1. CASE SameAsLast(line)
        <4>1. he # hb /\ text[Prev(he)] = line /\ PushSlot(line) = Prev(he)
          BY <3>1 DEF SameAsLast, PushSlot
        <4>2. Succ(PushSlot(line)) = he
          BY <4>1, <1>1, SuccFact
        <4>3. text' = text
          BY <4>1, <2>1, <1>1
        <4>4. RingLog' = RingLog
          BY <4>1, <4>2, <4>3, <2>1, <1>2
        <4>5. RingLog # <<>> /\ RingLog[Len(RingLog)] = line
          BY <4>1, <1>1, <1>2, NewestFact
        <4>6. QED
          BY <4>4, <4>5 DEF Abs!Remember
      <3>2. CASE ~SameAsLast(line)
        <4>1. PushSlot(line) = he
          BY <3>2 DEF PushSlot
        <4>2. ~(RingLog # <<>> /\ RingLog[Len(RingLog)] = line)
          BY <3>2, <1>1, <1>2, NewestFact DEF SameAsLast
        <4>3. Len(Append(RingLog, line)) \in Nat
          BY <1>1, <1>2, <2>1, LogFact
        <4>4. /\ text' \in [Slots -> Texts] /\ text'[he] = line
              /\ \A i \in Slots \ {he} : text'[i] = text[i]
          BY <4>1, <2>1, <1>1
        <4>5. \A l : l = Append(LogOf(hb, he, text), line) =>
                /\ Succ(he) # hb => LogOf(hb, Succ(he), text') = l /\ Len(l) <= HISTSZ - 1
                /\ Succ(he) = hb =>
                     LogOf(Succ(hb), Succ(he), text') = Tail(l) /\ Len(l) > HISTSZ - 1
          BY <4>4, <2>1, <1>1, PushAppends
        <4>6. /\ Succ(he) # hb => /\ RingLog' = Append(RingLog, line)
                                 /\ Len(Append(RingLog, line)) <= HISTSZ - 1
              /\ Succ(he) = hb => /\ RingLog' = Tail(Append(RingLog, line))
                                 /\ Len(Append(RingLog, line)) > HISTSZ - 1
          BY <4>1, <4>5, <2>1, <1>2
        <4>7. RingLog' = IF Len(Append(RingLog, line)) > HISTSZ - 1
                         THEN Tail(Append(RingLog, line)) ELSE Append(RingLog, line)
          BY <4>3, <4>6, HistAssumption
        <4>8. QED
          BY <4>2, <4>7 DEF Abs!Remember
      <3>3. QED
        BY <3>1, <3>2
    <2>3. Abs!Give(line)
      BY <2>1, <2>2 DEF Abs!Give
    <2>4. QED
      BY <2>1, <2>3 DEF Abs!AbsNext
  <1>5. ASSUME NEW quit \in BOOLEAN, RunCmd(quit) PROVE Abs!AbsNext
    <2>1. pc = "run" /\ pc' = "loop" /\ RingLog' = RingLog
      BY <1>5, <1>2 DEF RunCmd
    <2>2. QED
      BY <2>1 DEF Abs!AbsNext, Abs!Finish
  <1>6. CASE HistoryClear \/ FreeHistory \/ RunAgain
    <2>1. /\ hb' = he' /\ hb' \in Slots /\ pc' # "run"
          /\ text' \in [Slots -> Texts]
      BY <1>6, <1>1 DEF HistoryClear, FreeHistory, RunAgain, NoEntries, Texts
    <2>2. RingLog' = <<>>
      BY <2>1, <1>2, NewestFact
    <2>3. QED
      BY <2>1, <2>2 DEF Abs!AbsNext, Abs!Forget
  <1>7. QED
    BY <1>3, <1>4, <1>5, <1>6
    DEF Next, ReadCmd, ReadNoMem, ReadFails, ParseFails, LeaveLoop, histVars,
        Abs!absVars, RingLog, LogSize

(* The ring of buffers implements the log: seen from outside, the history  *)
(* is the last HISTSZ - 1 commands in order, for every ring size.          *)
THEOREM RingRefinesLog == Spec => RingIsLog
  <1>1. Init => Abs!AbsInit
    <2> SUFFICES ASSUME Init PROVE Abs!AbsInit
      OBVIOUS
    <2>1. /\ hb = 0 /\ he = 0 /\ 0 \in Slots /\ pc = "loop"
          /\ text \in [Slots -> Texts]
      BY HistAssumption DEF Init, Slots, NoEntries, Texts
    <2>2. RingLog = LogOf(0, 0, text)
      BY <2>1 DEF RingLog, LogOf, LogSize, SizeOf
    <2>3. RingLog = <<>>
      BY <2>1, <2>2, NewestFact
    <2>4. QED
      BY <2>1, <2>3 DEF Abs!AbsInit
  <1>2. QED
    BY <1>1, HistInvariant, StepRefines, PTL DEF Spec, RingIsLog, Abs!AbsSpec
=============================================================================
