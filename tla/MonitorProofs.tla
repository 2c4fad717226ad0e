--------------------------- MODULE MonitorProofs ----------------------------
(***************************************************************************)
(* Theorems about the two programs that watch the system: LowMemD, for     *)
(* every number of processes and threads and every amount of memory, and   *)
(* PfRecord, for every number of channels, every size of their buffers and *)
(* every shape of event.                                                   *)
(*                                                                         *)
(* That the victim is the largest process that may be killed rests on the  *)
(* insertion sort of lowmemd_scan: what is inserted so far is in order,    *)
(* and who is not there yet has a thread left to look at, has shrunk to    *)
(* nothing since, or was missed.  That a                                   *)
(* recording is complete rests on two facts: unless record reports a loss, *)
(* what it read followed by what the kernel still buffers is what the      *)
(* kernel wrote; and on a stream of whole events prof_mixAdd is in step    *)
(* from the first cell to the last.                                        *)
(***************************************************************************)
EXTENDS LowMemD, PfRecord, FiniteSetTheorems, SequenceTheorems, NatFacts

(* What the kernel keeps of the processes: one that is not there has no    *)
(* memory.                                                                 *)
EnvType ==
  /\ table \in Seq(Pids \cup {Kernel})
  /\ anon \in [Pids -> Nat]
  /\ \A p \in Pids : p \notin Live => anon[p] = 0

-----------------------------------------------------------------------------
(* The loop puts off a kill until the cooldown of the last one is over,    *)
(* and the round that finds it over accounts for it first: victim is never *)
(* overwritten by the next kill, whatever fails in between.                *)
THEOREM KillsAccounted == Spec => []KillIsAccountedFor
  <1>1. Init => KillIsAccountedFor
    BY DEF Init, KillIsAccountedFor
  <1>2. KillIsAccountedFor /\ [Next]_vars => KillIsAccountedFor'
    <2> SUFFICES ASSUME KillIsAccountedFor, [Next]_vars PROVE KillIsAccountedFor'
      OBVIOUS
    <2> USE DEF KillIsAccountedFor
    <2>1. CASE Process \/ UNCHANGED vars
      BY <2>1 DEF Process, vars, daemonVars
    <2>2. CASE PollStep
      BY <2>2 DEF PollStep, Poll
    <2>3. CASE ListStep \/ MeasureStep
      BY <2>3 DEF ListStep, List, MeasureStep, WholeStep, MeasureWhole, MeasureShort, Measure
    <2>4. CASE FailStep
      BY <2>4 DEF FailStep, PollFails, ScanFails, Attempted
    <2>5. CASE Kill
      BY <2>5 DEF Kill, Attempted
    <2>6. CASE SleepStep
      BY <2>6 DEF SleepStep, Sleep
    <2>7. QED
      BY <2>1, <2>2, <2>3, <2>4, <2>5, <2>6 DEF Next, Daemon
  <1>3. QED
    BY <1>1, <1>2, PTL DEF Spec

(* The elements of a sequence, by either name.                             *)
LEMMA ToSetFact ==
  ASSUME NEW T, NEW s \in Seq(T)
  PROVE  ToSet(s) = Elements(s) /\ Elements(s) \subseteq T
  <1>1. DOMAIN s = 1 .. Len(s) /\ \A i \in 1 .. Len(s) : s[i] \in T
    OBVIOUS
  <1>2. QED
    BY <1>1 DEF ToSet, Elements

(* One thread more in the table.                                           *)
LEMMA AppendsThread ==
  ASSUME EnvType, NEW p \in Pids, table' = Append(table, p)
  PROVE  table' \in Seq(Pids \cup {Kernel}) /\ Live' = Live \cup {p}
  <1> DEFINE T == Pids \cup {Kernel}
  <1>1. table \in Seq(T) /\ p \in T /\ p # Kernel
    BY DEF EnvType, Pids, Kernel
  <1>2. /\ table' \in Seq(T) /\ Len(table') = Len(table) + 1 /\ Len(table) \in Nat
        /\ table'[Len(table) + 1] = p /\ \A i \in 1 .. Len(table) : table'[i] = table[i]
    BY <1>1
  <1>3. Elements(table') = Elements(table) \cup {p}
    <2>1. 1 .. Len(table') = 1 .. Len(table) \cup {Len(table) + 1}
      BY <1>2
    <2>2. QED
      BY <1>2, <2>1 DEF Elements
  <1>4. ToSet(table) = Elements(table) /\ ToSet(table') = Elements(table')
    BY <1>1, <1>2, ToSetFact
  <1>5. QED
    BY <1>1, <1>2, <1>3, <1>4 DEF Live

(* What the processes do keeps the kernel's tables in order.               *)
LEMMA EnvStep ==
  ASSUME EnvType, Process
  PROVE  EnvType'
  <1>1. CASE Spawn
    <2>1. nextPid \in Pids /\ table' = Append(table, nextPid) /\ anon' = anon
      BY <1>1 DEF Spawn
    <2>2. QED
      BY <2>1, AppendsThread DEF EnvType
  <1>2. ASSUME NEW p \in Live, NewThread(p) \/ Grow(p) \/ Shrink(p) \/ Exit(p) PROVE EnvType'
    <2>1. p \in Pids /\ anon[p] \in Nat
      BY DEF Live, EnvType, ToSet
    <2>2. CASE NewThread(p)
      <3>1. table' = Append(table, p) /\ anon' = anon
        BY <2>2 DEF NewThread
      <3>2. QED
        BY <2>1, <3>1, AppendsThread DEF EnvType
    <2>3. CASE Grow(p) \/ Shrink(p)
      <3>1. table' = table /\ Live' = Live /\ \E z \in Nat : anon' = [anon EXCEPT ![p] = z]
        <4>1. CASE Grow(p)
          <5>1. anon' = [anon EXCEPT ![p] = anon[p] + 1] /\ table' = table /\ anon[p] + 1 \in Nat
            BY <2>1, <4>1 DEF Grow
          <5>2. QED
            BY <5>1 DEF Live
        <4>2. CASE Shrink(p)
          <5>1. anon' = [anon EXCEPT ![p] = anon[p] - 1] /\ table' = table /\ anon[p] - 1 \in Nat
            BY <2>1, <4>2 DEF Shrink
          <5>2. QED
            BY <5>1 DEF Live
        <4>3. QED
          BY <2>3, <4>1, <4>2
      <3>2. QED
        BY <2>1, <3>1 DEF EnvType
    <2>4. CASE Exit(p)
      <3> DEFINE t == Keep(table, ToSet(table) \ {p})
      <3>1. table' = t /\ anon' = [anon EXCEPT ![p] = 0]
        BY <2>4 DEF Exit
      <3>2. t \in Seq(Pids \cup {Kernel}) /\ Elements(t) = Elements(table) \cap (ToSet(table) \ {p})
        BY KeepFact DEF EnvType
      <3> HIDE DEF t
      <3>3. ToSet(t) = Elements(t) /\ ToSet(table) = Elements(table)
        BY <3>2, ToSetFact DEF EnvType
      <3>4. Live' = Live \ {p}
        BY <3>1, <3>2, <3>3 DEF Live
      <3>5. QED
        BY <2>1, <3>1, <3>2, <3>4 DEF EnvType
    <2>5. QED
      BY <1>2, <2>2, <2>3, <2>4
  <1>3. QED
    BY <1>1, <1>2 DEF Process

-----------------------------------------------------------------------------
SortedBy(s, f) == \A i, j \in 1 .. Len(s) : i <= j => f[s[i]] >= f[s[j]]

(* A process goes behind those that are not smaller, so the list stays in  *)
(* order.                                                                  *)
LEMMA InsertFact ==
  ASSUME size \in [Pids -> Nat], NEW s \in Seq(Pids), SortedBy(s, size), NEW p \in Pids, NEW z \in Nat,
         p \notin Elements(s)
  PROVE  /\ InsertSorted(s, p, z) \in Seq(Pids)
         /\ SortedBy(InsertSorted(s, p, z), [size EXCEPT ![p] = z])
         /\ Elements(InsertSorted(s, p, z)) = Elements(s) \cup {p}
  <1> DEFINE f == [size EXCEPT ![p] = z]
             n == Len(s)
             above == {i \in 1 .. n : f[s[i]] >= f[p]}
             stop == {i \in 1 .. n + 1 : i = n + 1 \/ i \notin above}
             k == Min(stop) - 1
             t == SubSeq(s, 1, k) \o <<p>> \o SubSeq(s, k + 1, Len(s))
  <1>0. /\ f \in [Pids -> Nat] /\ f[p] = z
        /\ \A i \in 1 .. n : s[i] \in Pids /\ f[s[i]] = size[s[i]]
    BY DEF Elements
  <1> HIDE DEF f
  <1>1. /\ n \in Nat /\ f[p] \in Nat
        /\ \A i \in 1 .. n : s[i] \in Pids /\ f[s[i]] \in Nat
    BY <1>0
  <1>2. n + 1 \in stop /\ stop \subseteq Nat
    BY <1>1
  <1>3. Min(stop) \in stop /\ \A y \in stop : Min(stop) <= y
    BY <1>2, MinFact
  <1>4. /\ k \in 0 .. n /\ \A i \in 1 .. k : i \in above
        /\ k < n => k + 1 \notin above
    <2> DEFINE q == Min(stop)
    <2>1. q \in 1 .. n + 1 /\ (q = n + 1 \/ q \notin above) /\ \A y \in stop : q <= y
      BY <1>3
    <2> HIDE DEF q
    <2>2. \A i \in 1 .. q - 1 : i \in 1 .. n + 1 /\ i < q
      BY <2>1, <1>1
    <2>3. \A i \in 1 .. q - 1 : i \in above
      BY <2>1, <2>2, <1>1
    <2>4. q - 1 \in 0 .. n /\ (q - 1 < n => q \notin above)
      BY <2>1, <1>1
    <2>5. QED
      BY <2>1, <2>3, <2>4, <1>1 DEF q
  <1> HIDE DEF k, stop
  <1>5. ASSUME NEW i \in 1 .. n, k < i PROVE f[s[i]] < f[p]
    <2>1. k + 1 \in 1 .. n /\ k + 1 <= i /\ k + 1 \notin above
      BY <1>1, <1>4, <1>5
    <2>2. f[s[k + 1]] >= f[s[i]] /\ ~(f[s[k + 1]] >= f[p])
      BY <1>0, <1>1, <2>1 DEF SortedBy
    <2>3. QED
      BY <1>1, <2>1, <2>2
  <1>13. n \in Nat /\ k \in Nat /\ k <= n
    BY <1>1, <1>4
  <1>6. above = 1 .. k
    <2>1. ASSUME NEW i \in 1 .. n, i \in above PROVE i <= k
      <3>1. ~(k < i)
        BY <1>1, <1>5, <2>1
      <3>2. QED
        BY <1>13, <3>1
    <2>2. above \subseteq 1 .. n
      OBVIOUS
    <2> HIDE DEF above, n
    <2>3. \A i \in 1 .. k : i \in above
      BY <1>4
    <2>4. \A i \in 1 .. n : i <= k => i \in 1 .. k
      BY <1>13
    <2>5. QED
      BY <2>1, <2>2, <2>3, <2>4
  <1>7. Cardinality(above) = k
    <2>1. k \in Int /\ 1 \in Int
      BY <1>1, <1>4
    <2>2. Cardinality(1 .. k) = IF 1 > k THEN 0 ELSE k - 1 + 1
      BY <2>1, FS_Interval, Zenon
    <2>3. QED
      <3> HIDE DEF above
      <3>1. k >= 0 /\ k \in Int /\ k - 1 + 1 = k
        BY <1>1, <1>4
      <3>2. QED
        BY <1>6, <2>2, <3>1
  <1>8. InsertSorted(s, p, z) = t
    <2>1. above = {i \in 1 .. n : size[s[i]] >= z}
      BY <1>0
    <2>2. QED
      BY <1>7, <2>1 DEF InsertSorted
  <1>9. /\ t \in Seq(Pids) /\ Len(t) = n + 1
        /\ \A i \in 1 .. k : t[i] = s[i]
        /\ t[k + 1] = p
        /\ \A i \in k + 2 .. n + 1 : t[i] = s[i - 1]
    <2> DEFINE u == SubSeq(s, 1, k)
               v == SubSeq(s, k + 1, n)
               w == <<p>>
    <2>1. u \in Seq(Pids) /\ Len(u) = k /\ \A i \in 1 .. k : u[i] = s[i]
      BY <1>1, <1>4
    <2>2. v \in Seq(Pids) /\ Len(v) = n - k /\ \A i \in 1 .. n - k : v[i] = s[k + i]
      BY <1>1, <1>4
    <2>3. w \in Seq(Pids) /\ Len(w) = 1 /\ w[1] = p
      OBVIOUS
    <2>4. t = (u \o w) \o v
      OBVIOUS
    <2> HIDE DEF t, u, v, w, n
    <2>5. /\ u \o w \in Seq(Pids) /\ Len(u \o w) = k + 1 /\ (u \o w)[k + 1] = p
          /\ \A i \in 1 .. k : (u \o w)[i] = s[i]
      <3>1. k \in Nat
        BY <1>1, <1>4
      <3>2. /\ u \o w \in Seq(Pids) /\ Len(u \o w) = Len(u) + Len(w)
            /\ \A i \in 1 .. Len(u) + Len(w) :
                 (u \o w)[i] = IF i <= Len(u) THEN u[i] ELSE w[i - Len(u)]
        BY <2>1, <2>3, ConcatProperties
      <3>3. k + 1 \in 1 .. Len(u) + Len(w) /\ ~(k + 1 <= Len(u)) /\ (k + 1) - Len(u) = 1
        BY <2>1, <2>3, <3>1
      <3>4. \A i \in 1 .. k : i \in 1 .. Len(u) + Len(w) /\ i <= Len(u)
        BY <2>1, <2>3, <3>1
      <3>5. QED
        BY <2>1, <2>3, <3>2, <3>3, <3>4
    <2> DEFINE x == u \o w
    <2> HIDE DEF x
    <2>6. /\ x \in Seq(Pids) /\ Len(x) = k + 1 /\ x[k + 1] = p
          /\ \A i \in 1 .. k : x[i] = s[i]
      BY <2>5 DEF x
    <2>7. t = x \o v
      BY <2>4 DEF x
    <2>0. n \in Nat /\ k \in Nat /\ k <= n
      BY <1>13
    <2>8. t \in Seq(Pids) /\ Len(t) = n + 1
      <3>1. t \in Seq(Pids) /\ Len(t) = Len(x) + Len(v)
        BY <2>2, <2>6, <2>7, ConcatProperties
      <3>2. QED
        BY <2>0, <2>2, <2>6, <3>1
    <2>9. \A i \in 1 .. k + 1 : t[i] = x[i]
      BY <2>0, <2>2, <2>6, <2>7
    <2>10. ASSUME NEW i \in k + 2 .. n + 1 PROVE t[i] = s[i - 1]
      <3>3. i \in 1 .. Len(x) + Len(v) /\ ~(i <= Len(x)) /\ i - (k + 1) \in 1 .. n - k /\ k + (i - (k + 1)) = i - 1
        BY <2>0, <2>2, <2>6
      <3>4. t[i] = v[i - Len(x)]
        BY <2>2, <2>6, <2>7, <3>3, ConcatProperties
      <3>1. t[i] = v[i - (k + 1)] /\ i - (k + 1) \in 1 .. n - k /\ k + (i - (k + 1)) = i - 1
        BY <2>6, <3>3, <3>4
      <3>2. QED
        BY <3>1, <2>2
    <2>11. QED
      BY <2>6, <2>8, <2>9, <2>10, <1>1, <1>4
  <1> HIDE DEF t, n
  <1>10. SortedBy(t, f)
    <2> SUFFICES ASSUME NEW i \in 1 .. n + 1, NEW j \in 1 .. n + 1, i <= j
                 PROVE  f[t[i]] >= f[t[j]]
      BY <1>9 DEF SortedBy
    <2>0. \A x, y \in 1 .. n : x <= y => f[s[x]] >= f[s[y]]
      BY <1>0 DEF SortedBy, n
    <2>5. n \in Nat /\ k \in Nat /\ k <= n
      BY <1>13
    <2>1. CASE j <= k
      <3>1. i \in 1 .. k /\ j \in 1 .. k /\ i \in 1 .. n /\ j \in 1 .. n
        BY <2>1, <2>5
      <3>2. t[i] = s[i] /\ t[j] = s[j]
        BY <1>9, <3>1
      <3>3. QED
        BY <2>0, <3>1, <3>2
    <2>2. CASE j = k + 1
      <3>1. CASE i = j
        BY <2>2, <3>1, <1>1, <1>9
      <3>2. CASE i < j
        <4>1. i \in 1 .. k /\ i \in above
          BY <2>2, <3>2, <1>1, <1>4
        <4>2. QED
          BY <4>1, <2>2, <1>9
      <3>3. QED
        BY <3>1, <3>2
    <2>3. CASE j > k + 1
      <3>0. j \in k + 2 .. n + 1 /\ j - 1 \in 1 .. n /\ k < j - 1
        BY <2>3, <2>5
      <3>1. t[j] = s[j - 1] /\ j - 1 \in 1 .. n /\ k < j - 1
        BY <1>9, <3>0
      <3>2. CASE i <= k
        <4>0. i \in 1 .. k /\ i \in 1 .. n /\ i <= j - 1
          BY <2>3, <2>5, <3>2
        <4>1. t[i] = s[i] /\ i \in 1 .. n /\ i <= j - 1
          BY <1>9, <4>0
        <4>2. QED
          BY <3>1, <4>1, <2>0
      <3>3. CASE i = k + 1
        <4>1. f[s[j - 1]] < f[p] /\ t[i] = p
          BY <3>1, <3>3, <1>5, <1>9
        <4>2. QED
          BY <4>1, <3>1, <1>1
      <3>4. CASE i > k + 1
        <4>0. i \in k + 2 .. n + 1 /\ i - 1 \in 1 .. n /\ i - 1 <= j - 1
          BY <3>4, <2>5
        <4>1. t[i] = s[i - 1] /\ i - 1 \in 1 .. n /\ i - 1 <= j - 1
          BY <1>9, <4>0
        <4>2. QED
          BY <3>1, <4>1, <2>0
      <3>5. QED
        BY <3>2, <3>3, <3>4, <1>1, <1>4
    <2>4. QED
      BY <2>1, <2>2, <2>3, <1>1, <1>4
  <1>11. Elements(t) = Elements(s) \cup {p}
    <2>1. ASSUME NEW i \in 1 .. n + 1 PROVE t[i] \in Elements(s) \cup {p}
      <3>1. i <= k \/ i = k + 1 \/ i \in k + 2 .. n + 1
        BY <1>1, <1>4
      <3>5. (i <= k => i \in 1 .. k /\ i \in 1 .. n) /\ (i \in k + 2 .. n + 1 => i - 1 \in 1 .. n)
        BY <1>13
      <3>2. i <= k => t[i] = s[i] /\ i \in 1 .. n
        BY <1>9, <3>5
      <3>3. i \in k + 2 .. n + 1 => t[i] = s[i - 1] /\ i - 1 \in 1 .. n
        BY <1>9, <3>5
      <3>4. QED
        BY <3>1, <3>2, <3>3, <1>9 DEF Elements, n
    <2>2. ASSUME NEW i \in 1 .. n PROVE s[i] \in Elements(t)
      <3>1. CASE i <= k
        <4>0. i \in 1 .. k /\ i \in 1 .. n + 1
          BY <3>1, <1>13
        <4>1. t[i] = s[i] /\ i \in 1 .. n + 1
          BY <1>9, <4>0
        <4>2. QED
          BY <4>1, <1>9 DEF Elements
      <3>2. CASE i > k
        <4>1. i + 1 \in k + 2 .. n + 1 /\ i + 1 \in 1 .. n + 1 /\ (i + 1) - 1 = i
          BY <3>2, <1>1, <1>4
        <4>2. t[i + 1] = s[i]
          BY <4>1, <1>9
        <4>3. QED
          BY <4>1, <4>2, <1>9 DEF Elements
      <3>3. QED
        BY <3>1, <3>2, <1>1, <1>4
    <2>3. p \in Elements(t)
      <3>1. k + 1 \in 1 .. n + 1
        BY <1>1, <1>4
      <3>2. QED
        BY <3>1, <1>9 DEF Elements
    <2>4. Elements(t) = {t[i] : i \in 1 .. n + 1} /\ Elements(s) = {s[i] : i \in 1 .. n}
      BY <1>9 DEF Elements, n
    <2>5. QED
      BY <2>1, <2>2, <2>3, <2>4
  <1>12. QED
    BY <1>8, <1>9, <1>10, <1>11 DEF f

(* The threads of processes that fit in the table of the daemon.           *)
LEMMA ListedFact ==
  ASSUME EnvType
  PROVE  /\ Listed \in Seq(Pids \cup {Kernel})
         /\ Keep(Listed, Pids) \in Seq(Pids)
         /\ Elements(Keep(Listed, Pids)) = ToSet(Listed) \ {Kernel}
  <1>1. THREADS \in Nat /\ Len(table) \in Nat
    BY LowMemAssumption DEF EnvType
  <1>2. Listed \in Seq(Pids \cup {Kernel})
    BY <1>1 DEF Listed, EnvType
  <1> DEFINE k == Keep(Listed, Pids)
  <1>3. k \in Seq(Pids \cup {Kernel}) /\ ToSet(k) = ToSet(Listed) \cap Pids
    <2>1. k \in Seq(Pids \cup {Kernel}) /\ Elements(k) = Elements(Listed) \cap Pids
      BY <1>2, KeepFact
    <2> HIDE DEF k
    <2>2. QED
      BY <1>2, <2>1, ToSetFact
  <1>4. ToSet(Listed) \subseteq Pids \cup {Kernel} /\ Kernel \notin Pids
    BY <1>2 DEF ToSet, Pids, Kernel
  <1> HIDE DEF k
  <1>5. DOMAIN k = 1 .. Len(k) /\ Elements(k) = ToSet(k)
    BY <1>3 DEF Elements, ToSet
  <1>6. \A j \in 1 .. Len(k) : k[j] \in Pids
    BY <1>3, <1>5 DEF Elements
  <1>7. k \in Seq(Pids)
    BY <1>3, <1>6
  <1>8. QED
    BY <1>2, <1>3, <1>4, <1>5, <1>7 DEF k

-----------------------------------------------------------------------------
(* The search from the largest process down, which stops at the first one  *)
(* below the minimum, finds the largest that may be killed.                *)
LEMMA ChoiceFact ==
  ASSUME size \in [Pids -> Nat], NEW s \in Seq(Pids), SortedBy(s, size), Choice(s) # NONE
  PROVE  /\ MayBeKilled(Choice(s)) /\ Choice(s) \in Elements(s) /\ size[Choice(s)] >= MINVICTIM
         /\ \A p \in Elements(s) : MayBeKilled(p) /\ size[p] >= MINVICTIM => size[p] <= size[Choice(s)]
  <1> DEFINE n == Len(s)
             small == {i \in 1 .. n : size[s[i]] < MINVICTIM}
             ok == {i \in 1 .. n : ~isSpared(s[i]) /\ \A j \in small : i < j}
             k == Min(ok)
  <1>1. /\ n \in Nat /\ MINVICTIM \in Nat
        /\ \A i \in 1 .. n : s[i] \in Pids /\ size[s[i]] \in Nat
    BY LowMemAssumption
  <1>2. ok # {} /\ Choice(s) = s[k]
    BY DEF Choice
  <1>3. ok \subseteq Nat
    BY <1>1
  <1>4. k \in ok /\ \A y \in ok : k <= y
    BY <1>2, <1>3, MinFact
  <1> HIDE DEF k
  <1>5. k \in 1 .. n /\ ~isSpared(s[k]) /\ k \notin small
    BY <1>1, <1>4
  <1>6. size[s[k]] >= MINVICTIM
    BY <1>1, <1>5
  <1>7. \A p : MayBeKilled(p) <=> ~isSpared(p)
    <2>1. PROTECTED \in Nat /\ Len(XNames) \in Nat
      BY LowMemAssumption
    <2>2. \A i : i \in 1 .. (IF Len(XNames) < PROTECTED THEN Len(XNames) ELSE PROTECTED)
                  <=> i \in 1 .. Len(XNames) /\ i <= PROTECTED
      BY <2>1
    <2>3. QED
      BY <2>2 DEF MayBeKilled, isSpared, Spared
  <1>8. MayBeKilled(s[k])
    BY <1>5, <1>7
  <1>9. ASSUME NEW i \in 1 .. n, MayBeKilled(s[i]), size[s[i]] >= MINVICTIM PROVE size[s[i]] <= size[s[k]]
    <2>1. ~isSpared(s[i]) /\ size[s[i]] >= MINVICTIM
      BY <1>7, <1>9
    <2>2. ASSUME NEW j \in small PROVE i < j
      <3> SUFFICES ASSUME j <= i PROVE FALSE
        BY <1>1
      <3>1. size[s[j]] >= size[s[i]]
        BY DEF SortedBy
      <3>2. size[s[j]] < MINVICTIM
        OBVIOUS
      <3>3. QED
        BY <1>1, <2>1, <3>1, <3>2
    <2>3. i \in ok
      BY <2>1, <2>2
    <2>4. k <= i
      BY <1>4, <2>3
    <2>5. size[s[k]] >= size[s[i]]
      BY <1>5, <2>4 DEF SortedBy
    <2>6. QED
      BY <1>1, <1>5, <2>5
  <1>10. QED
    BY <1>2, <1>5, <1>6, <1>8, <1>9 DEF Elements

(* What holds while a scan is under way: the processes measured are sorted *)
(* by what they were told to have, and everyone that was there when the    *)
(* threads were listed is among them, is still to be measured, or counts   *)
(* as missed.  lo never exceeds what a process has.                        *)
Covered(p) ==
  \/ p \in missed \/ lo[p] = 0 \/ p \in Elements(todo)
  \/ p \in Elements(procs) /\ lo[p] <= size[p]

ScanInv ==
  /\ EnvType
  /\ size \in [Pids -> Nat] /\ lo \in [Pids -> Nat]
  /\ \A p \in Pids : lo[p] <= anon[p]
  /\ todo \in Seq(Pids) /\ procs \in Seq(Pids)
  /\ Elements(todo) \cap Elements(procs) = {}
  /\ SortedBy(procs, size)
  /\ pc # "measure" => procs = <<>>
  /\ pc = "measure" => \A p \in Pids : Covered(p)

(* The scan is over, or given up: its variables are empty again.           *)
LEMMA Forgotten ==
  ASSUME ScanInv, EnvType', todo' = <<>>, procs' = <<>>, size' = NoSize, lo' = NoSize, pc' = "sleep"
  PROVE  ScanInv'
  <1>1. NoSize \in [Pids -> Nat] /\ \A p \in Pids : NoSize[p] = 0
    BY DEF NoSize
  <1>2. \A p \in Pids : lo'[p] <= anon'[p]
    BY <1>1 DEF EnvType
  <1>3. SortedBy(procs', size') /\ Elements(procs') = {}
    BY DEF SortedBy, Elements
  <1>4. todo' \in Seq(Pids) /\ procs' \in Seq(Pids)
    OBVIOUS
  <1>5. QED
    BY <1>1, <1>2, <1>3, <1>4 DEF ScanInv

(* The threads are listed.                                                 *)
LEMMA ListKeeps ==
  ASSUME ScanInv, ListStep
  PROVE  ScanInv'
  <1> DEFINE t == Keep(Listed, Pids)
  <1>1. /\ todo' = t /\ missed' = Live \ ToSet(Listed) /\ procs' = <<>> /\ size' = size
        /\ lo' = [p \in Pids |-> IF MayBeKilled(p) THEN anon[p] ELSE 0]
        /\ table' = table /\ anon' = anon /\ pc' = "measure"
    BY DEF ListStep, List, envVars, ScanInv
  <1>2. t \in Seq(Pids) /\ Elements(t) = ToSet(Listed) \ {Kernel}
    BY ListedFact DEF ScanInv
  <1> HIDE DEF t
  <1>3. EnvType'
    BY <1>1 DEF ScanInv, EnvType, Live
  <1>4. lo' \in [Pids -> Nat] /\ \A p \in Pids : lo'[p] <= anon'[p] /\ (lo'[p] = 0 \/ lo'[p] = anon[p])
    BY <1>1 DEF ScanInv, EnvType
  <1>5. SortedBy(procs', size') /\ Elements(procs') = {} /\ procs' \in Seq(Pids)
    BY <1>1 DEF SortedBy, Elements
  <1>6. ASSUME NEW p \in Pids PROVE Covered(p)'
    <2>1. p # Kernel
      BY DEF Pids, Kernel
    <2>2. CASE p \notin Live
      <3>1. lo'[p] = 0
        BY <1>4, <2>2 DEF ScanInv, EnvType
      <3>2. QED
        BY <3>1 DEF Covered
    <2>3. CASE p \in Live
      BY <1>1, <1>2, <2>1, <2>3 DEF Covered
    <2>4. QED
      BY <2>2, <2>3
  <1>7. QED
    BY <1>1, <1>2, <1>3, <1>4, <1>5, <1>6 DEF ScanInv

(* A process is measured, as it is or short.                               *)
LEMMA MeasureKeeps ==
  ASSUME ScanInv, NEW p \in Pids, NEW z \in Nat, Measure(p, z), UNCHANGED envVars,
         missed \subseteq missed', p \in missed' \/ z = anon[p]
  PROVE  ScanInv'
  <1> DEFINE t == Keep(Tail(todo), Pids \ {p})
             s == InsertSorted(procs, p, z)
             f == [size EXCEPT ![p] = z]
  <1>1. /\ pc = "measure" /\ pc' = pc /\ todo # <<>> /\ p = Head(todo)
        /\ todo' = t /\ procs' = s /\ size' = f /\ lo' = lo /\ table' = table /\ anon' = anon
    BY DEF Measure, envVars
  <1>2. /\ size \in [Pids -> Nat] /\ lo \in [Pids -> Nat] /\ todo \in Seq(Pids) /\ procs \in Seq(Pids)
        /\ SortedBy(procs, size) /\ Elements(todo) \cap Elements(procs) = {}
        /\ \A q \in Pids : lo[q] <= anon[q] /\ anon[q] \in Nat
    BY DEF ScanInv, EnvType
  <1>3. Tail(todo) \in Seq(Pids) /\ Elements(todo) = {p} \cup Elements(Tail(todo))
    <2>1. /\ Len(todo) \in Nat \ {0} /\ Tail(todo) \in Seq(Pids) /\ Len(Tail(todo)) = Len(todo) - 1
          /\ \A i \in 1 .. Len(todo) - 1 : Tail(todo)[i] = todo[i + 1]
          /\ p = todo[1]
      BY <1>1, <1>2
    <2>2. ASSUME NEW x \in Elements(todo) PROVE x \in {p} \cup Elements(Tail(todo))
      <3>1. PICK i \in 1 .. Len(todo) : x = todo[i]
        BY DEF Elements
      <3>2. CASE i = 1
        BY <2>1, <3>1, <3>2
      <3>3. CASE i # 1
        <4>1. i - 1 \in 1 .. Len(Tail(todo)) /\ (i - 1) + 1 = i /\ i - 1 \in 1 .. Len(todo) - 1
          BY <2>1, <3>1, <3>3
        <4>2. Tail(todo)[i - 1] = x
          BY <2>1, <3>1, <4>1
        <4>3. QED
          BY <4>1, <4>2 DEF Elements
      <3>4. QED
        BY <3>2, <3>3
    <2>3. ASSUME NEW x \in Elements(Tail(todo)) PROVE x \in Elements(todo)
      <3>1. PICK i \in 1 .. Len(Tail(todo)) : x = Tail(todo)[i]
        BY DEF Elements
      <3>2. i + 1 \in 1 .. Len(todo) /\ x = todo[i + 1]
        BY <2>1, <3>1
      <3>3. QED
        BY <3>2 DEF Elements
    <2>4. p \in Elements(todo)
      <3>1. 1 \in 1 .. Len(todo)
        BY <2>1
      <3>2. QED
        BY <2>1, <3>1 DEF Elements
    <2>5. QED
      BY <2>1, <2>2, <2>3, <2>4
  <1>4. t \in Seq(Pids) /\ Elements(t) = Elements(Tail(todo)) \cap (Pids \ {p})
    BY <1>3, KeepFact
  <1>5. p \notin Elements(procs)
    BY <1>2, <1>3
  <1>6. s \in Seq(Pids) /\ SortedBy(s, f) /\ Elements(s) = Elements(procs) \cup {p}
    BY <1>2, <1>5, InsertFact
  <1>7. f \in [Pids -> Nat] /\ f[p] = z /\ \A q \in Pids : q # p => f[q] = size[q]
    BY <1>2
  <1> HIDE DEF t, s, f
  <1>8. Elements(t) \cap Elements(s) = {}
    BY <1>2, <1>3, <1>4, <1>6
  <1>9. ASSUME NEW q \in Pids PROVE Covered(q)'
    <2>1. Covered(q)
      BY <1>1 DEF ScanInv
    <2>2. CASE q = p
      <3>1. p \in missed' \/ lo[p] <= f[p]
        BY <1>2, <1>7
      <3>2. QED
        BY <1>1, <1>6, <2>2, <3>1 DEF Covered
    <2>3. CASE q # p
      <3>1. q \in Elements(todo) => q \in Elements(t)
        BY <1>3, <1>4, <2>3
      <3>2. f[q] = size[q]
        BY <1>7, <2>3
      <3>3. QED
        BY <1>1, <1>6, <2>1, <3>1, <3>2 DEF Covered
    <2>4. QED
      BY <2>2, <2>3
  <1>10. EnvType'
    BY <1>1 DEF ScanInv, EnvType, Live
  <1>11. QED
    BY <1>1, <1>2, <1>4, <1>6, <1>7, <1>8, <1>9, <1>10 DEF ScanInv

(* Between two calls of the daemon a process loses its place in the order  *)
(* of sizes only by going below what it was measured to have.              *)
LEMMA ProcessKeeps ==
  ASSUME ScanInv, Process
  PROVE  ScanInv'
  <1>1. EnvType'
    BY EnvStep DEF ScanInv
  <1>2. /\ lo' = [p \in Pids |-> IF anon'[p] < lo[p] THEN anon'[p] ELSE lo[p]]
        /\ todo' = todo /\ procs' = procs /\ size' = size /\ missed' = missed /\ pc' = pc
    BY DEF Process, daemonVars, scanVars
  <1>3. \A p \in Pids : anon'[p] \in Nat /\ lo[p] \in Nat
    BY <1>1 DEF ScanInv, EnvType
  <1>4. lo' \in [Pids -> Nat] /\ \A p \in Pids : lo'[p] <= anon'[p] /\ lo'[p] <= lo[p]
    BY <1>2, <1>3
  <1>5. ASSUME NEW p \in Pids, Covered(p) PROVE Covered(p)'
    <2>1. lo[p] \in Nat /\ lo'[p] \in Nat /\ lo'[p] <= lo[p] /\ size[p] \in Nat
      BY <1>3, <1>4 DEF ScanInv
    <2>2. lo[p] = 0 => lo'[p] = 0
      BY <2>1
    <2>3. lo[p] <= size[p] => lo'[p] <= size[p]
      BY <2>1
    <2>4. QED
      BY <1>2, <1>5, <2>2, <2>3 DEF Covered
  <1>6. QED
    BY <1>1, <1>2, <1>4, <1>5 DEF ScanInv

(* Every step keeps ScanInv.                                               *)
LEMMA ScanStep ==
  ASSUME ScanInv, [Next]_vars
  PROVE  ScanInv'
  <1>1. CASE Process
    BY <1>1, ProcessKeeps
  <1>2. CASE UNCHANGED <<envVars, lo, scanVars>> /\ pc # "measure" /\ pc' # "measure"
    BY <1>2 DEF ScanInv, EnvType, Live, envVars, scanVars
  <1>3. CASE ListStep
    BY <1>3, ListKeeps
  <1>4. CASE MeasureStep
    <2>1. PICK p \in Pids : WholeStep(p) \/ (MeasureShort(p) /\ UNCHANGED envVars)
      BY <1>4 DEF MeasureStep
    <2>2. anon[p] \in Nat
      BY DEF ScanInv, EnvType
    <2>3. CASE WholeStep(p)
      BY <2>2, <2>3, MeasureKeeps DEF WholeStep, MeasureWhole
    <2>4. CASE MeasureShort(p) /\ UNCHANGED envVars
      <3>1. PICK z \in 0 .. anon[p] - 1 : Measure(p, z) /\ missed' = missed \cup {p}
        BY <2>4 DEF MeasureShort
      <3>2. z \in Nat
        BY <2>2
      <3>3. QED
        BY <2>4, <3>1, <3>2, MeasureKeeps
    <2>5. QED
      BY <2>1, <2>3, <2>4
  <1>5. ASSUME NEW p, Attempted(p), table' = table, anon' = anon PROVE ScanInv'
    <2>1. EnvType'
      BY <1>5 DEF ScanInv, EnvType, Live
    <2>2. QED
      BY <1>5, <2>1, Forgotten DEF Attempted
  <1>6. CASE Kill
    BY <1>5, <1>6 DEF Kill
  <1>7. CASE FailStep /\ ScanFails
    BY <1>5, <1>7 DEF FailStep, ScanFails, envVars
  <1>8. CASE PollStep
    BY <1>2, <1>8 DEF PollStep, Poll
  <1>9. CASE FailStep /\ ~ScanFails
    BY <1>2, <1>9 DEF FailStep, PollFails, scanVars
  <1>10. CASE SleepStep
    BY <1>2, <1>10 DEF SleepStep, Sleep
  <1>11. CASE UNCHANGED vars
    BY <1>11 DEF ScanInv, EnvType, Live, Covered, vars, envVars, daemonVars, scanVars
  <1>12. QED
    BY <1>1, <1>3, <1>4, <1>6, <1>7, <1>8, <1>9, <1>10, <1>11 DEF Next, Daemon

(* Only kill() names a victim, and it takes the first of the sorted list   *)
(* that may be killed.                                                     *)
LEMMA KillsLargest ==
  ASSUME ScanInv, [Next]_vars, victim' \notin {victim, NONE}
  PROVE  /\ victim' \in Live /\ MayBeKilled(victim') /\ size[victim'] >= MINVICTIM
         /\ \A p \in Pids : MayBeKilled(p) /\ p \notin missed /\ lo[p] >= MINVICTIM => lo[p] <= size[victim']
  <1>1. Kill
    <2>1. CASE Process \/ UNCHANGED vars
      BY <2>1 DEF Process, vars, daemonVars
    <2>2. CASE PollStep
      BY <2>2 DEF PollStep, Poll
    <2>3. CASE ListStep \/ MeasureStep
      BY <2>3 DEF ListStep, List, MeasureStep, WholeStep, MeasureWhole, MeasureShort, Measure
    <2>4. CASE FailStep
      BY <2>4 DEF FailStep, PollFails, ScanFails, Attempted
    <2>5. CASE SleepStep
      BY <2>5 DEF SleepStep, Sleep
    <2>6. QED
      BY <2>1, <2>2, <2>3, <2>4, <2>5 DEF Next, Daemon
  <1>2. pc = "measure" /\ todo = <<>> /\ Choice(procs) \in Live /\ victim' = Choice(procs)
    BY <1>1 DEF Kill, Attempted
  <1> DEFINE v == Choice(procs)
  <1>3. /\ v # NONE /\ size \in [Pids -> Nat] /\ procs \in Seq(Pids) /\ SortedBy(procs, size)
        /\ lo \in [Pids -> Nat] /\ MINVICTIM \in Nat /\ \A p \in Pids : Covered(p)
    BY <1>2, LowMemAssumption DEF ScanInv
  <1>4. /\ MayBeKilled(v) /\ v \in Elements(procs) /\ size[v] >= MINVICTIM
        /\ \A p \in Elements(procs) : MayBeKilled(p) /\ size[p] >= MINVICTIM => size[p] <= size[v]
    BY <1>3, ChoiceFact
  <1>5. Elements(todo) = {}
    BY <1>2 DEF Elements
  <1>6. v \in Pids
    BY <1>3, <1>4 DEF Elements
  <1> HIDE DEF v
  <1>7. ASSUME NEW p \in Pids, MayBeKilled(p), p \notin missed, lo[p] >= MINVICTIM PROVE lo[p] <= size[v]
    <2>1. lo[p] \in Nat /\ size[p] \in Nat /\ size[v] \in Nat
      BY <1>3, <1>6
    <2>2. CASE lo[p] = 0
      BY <2>1, <2>2
    <2>3. CASE p \in Elements(procs) /\ lo[p] <= size[p]
      <3>1. size[p] >= MINVICTIM
        BY <1>3, <1>7, <2>1, <2>3
      <3>2. size[p] <= size[v]
        BY <1>4, <1>7, <2>3, <3>1
      <3>3. QED
        BY <2>1, <2>3, <3>2
    <2>4. QED
      BY <1>3, <1>5, <1>7, <2>2, <2>3 DEF Covered
  <1>8. QED
    BY <1>2, <1>4, <1>7 DEF v

(* The process killed is the largest, although a scan is as many system    *)
(* calls as there are processes and they run in between: none that may be  *)
(* killed had more all along, unless the kernel told the daemon less.  For *)
(* any number of pids, sizes, threads and names.                           *)
THEOREM LargestIsKilled == Spec => VictimIsLargest
  <1>1. Init => ScanInv
    <2> SUFFICES ASSUME Init PROVE ScanInv
      OBVIOUS
    <2>1. NoSize \in [Pids -> Nat] /\ \A p \in Pids : NoSize[p] = 0
      BY DEF NoSize
    <2>2. /\ table = <<Kernel, 1, Self>> /\ anon = NoSize /\ size = NoSize /\ lo = NoSize
          /\ todo = <<>> /\ procs = <<>> /\ pc = "poll"
      BY DEF Init
    <2>3. table \in Seq(Pids \cup {Kernel})
      <3>1. Self \in Pids /\ 1 \in Pids
        BY LowMemAssumption DEF Pids
      <3>2. QED
        BY <2>2, <3>1
    <2>4. EnvType
      BY <2>1, <2>2, <2>3 DEF EnvType
    <2>5. SortedBy(procs, size) /\ Elements(procs) = {} /\ procs \in Seq(Pids) /\ todo \in Seq(Pids)
      BY <2>2 DEF SortedBy, Elements
    <2>6. QED
      BY <2>1, <2>2, <2>4, <2>5 DEF ScanInv
  <1>2. ScanInv /\ [Next]_vars => ScanInv'
    BY ScanStep
  <1>3. ScanInv /\ [Next]_vars =>
          [victim' \notin {victim, NONE} =>
             /\ victim' \in Live /\ MayBeKilled(victim') /\ size[victim'] >= MINVICTIM
             /\ \A p \in Pids : MayBeKilled(p) /\ p \notin missed /\ lo[p] >= MINVICTIM => lo[p] <= size[victim']]_vars
    BY KillsLargest
  <1>4. QED
    BY <1>1, <1>2, <1>3, PTL DEF Spec, VictimIsLargest

-----------------------------------------------------------------------------
(* A stream of k events: b says where each begins, and where the last ends.*)
Marks(b, s, k) ==
  /\ b[0] = 1 /\ b[k] = Len(s) + 1
  /\ \A i \in 0 .. k - 1 : b[i] \in 1 .. Len(s) /\ s[b[i]] > 0 /\ b[i + 1] = b[i] + s[b[i]] /\ b[i + 1] <= Len(s) + 1

Framed(s, k) == \E b \in [0 .. k -> Nat] : Marks(b, s, k)

(* The empty stream is one of no events.                                   *)
LEMMA FramedNone == Framed(<<>>, 0)
  <1> DEFINE b == [i \in 0 .. 0 |-> 1]
  <1>1. b \in [0 .. 0 -> Nat] /\ b[0] = 1
    OBVIOUS
  <1>2. Len(<<>>) = 0
    OBVIOUS
  <1> HIDE DEF b
  <1>3. Marks(b, <<>>, 0)
    BY <1>1, <1>2 DEF Marks
  <1>4. QED
    BY <1>1, <1>3 DEF Framed

(* The kernel appends whole events.                                        *)
LEMMA FramedMore ==
  ASSUME NEW s \in Seq(Nat), NEW k \in Nat, Framed(s, k),
         NEW e \in Seq(Nat), e # <<>>, e[1] = Len(e)
  PROVE  Framed(s \o e, k + 1)
  <1>1. PICK b \in [0 .. k -> Nat] : Marks(b, s, k)
    BY DEF Framed
  <1>2. /\ Len(s) \in Nat /\ Len(e) \in Nat /\ Len(e) > 0 /\ Len(s \o e) = Len(s) + Len(e)
        /\ \A i \in 1 .. Len(s) : (s \o e)[i] = s[i]
        /\ (s \o e)[Len(s) + 1] = e[1]
    <2>1. Len(s) \in Nat /\ Len(e) \in Nat /\ Len(e) # 0
      BY LenProperties, EmptySeq
    <2>2. \A i \in 1 .. Len(s) + Len(e) : (s \o e)[i] = IF i <= Len(s) THEN s[i] ELSE e[i - Len(s)]
      BY ConcatProperties
    <2>3. Len(s \o e) = Len(s) + Len(e)
      BY ConcatProperties
    <2>4. QED
      BY <2>1, <2>2, <2>3
  <1> DEFINE t == s \o e
             c == [i \in 0 .. k + 1 |-> IF i = k + 1 THEN Len(s) + Len(e) + 1 ELSE b[i]]
  <1>3. c \in [0 .. k + 1 -> Nat] /\ c[k + 1] = Len(s) + Len(e) + 1 /\ \A i \in 0 .. k : c[i] = b[i]
    BY <1>2
  <1> HIDE DEF c, t
  <1>4. ASSUME NEW i \in 0 .. (k + 1) - 1
        PROVE  c[i] \in 1 .. Len(t) /\ t[c[i]] > 0 /\ c[i + 1] = c[i] + t[c[i]] /\ c[i + 1] <= Len(t) + 1
    <2>1. CASE i = k
      <3>1. c[i] = Len(s) + 1 /\ c[i + 1] = Len(s) + Len(e) + 1
        BY <2>1, <1>1, <1>3 DEF Marks
      <3>2. t[c[i]] = Len(e) /\ Len(t) = Len(s) + Len(e)
        BY <3>1, <1>2 DEF t
      <3>3. QED
        BY <3>1, <3>2, <1>2
    <2>2. CASE i # k
      <3>1. i \in 0 .. k - 1 /\ i \in 0 .. k /\ i + 1 \in 0 .. k
        BY <2>2
      <3>2. c[i] = b[i] /\ c[i + 1] = b[i + 1]
        BY <3>1, <1>3
      <3>3. b[i] \in 1 .. Len(s) /\ s[b[i]] > 0 /\ b[i + 1] = b[i] + s[b[i]] /\ b[i + 1] <= Len(s) + 1
        BY <3>1, <1>1 DEF Marks
      <3>4. t[b[i]] = s[b[i]] /\ Len(t) = Len(s) + Len(e)
        BY <3>3, <1>2 DEF t
      <3>5. Len(s) <= Len(t)
        BY <3>4, <1>2
      <3>6. c[i] \in 1 .. Len(t)
        BY <3>2, <3>3, <3>4, <1>2
      <3>7. c[i + 1] \in Nat
        BY <3>1, <3>2, <1>1
      <3>8. c[i + 1] <= Len(t) + 1
        <4>1. \A x, y, z \in Nat : x <= y + 1 => x <= y + z + 1
          OBVIOUS
        <4>2. c[i + 1] <= Len(s) + 1
          BY <3>2, <3>3
        <4>3. c[i + 1] <= Len(s) + Len(e) + 1
          BY ONLY <1>2, <3>7, <4>1, <4>2
        <4>4. QED
          BY <3>4, <4>3
      <3>9. QED
        BY <3>2, <3>3, <3>4, <3>6, <3>8
    <2>3. QED
      BY <2>1, <2>2
  <1>5. c[0] = 1 /\ c[k + 1] = Len(t) + 1
    BY <1>1, <1>2, <1>3 DEF Marks, t
  <1>6. Marks(c, t, k + 1)
    BY <1>4, <1>5 DEF Marks
  <1>7. QED
    BY <1>3, <1>6 DEF Framed, t

-----------------------------------------------------------------------------
(* The size of an event is a number of cells that the stream still has.    *)
LEMMA EvSizeFact ==
  ASSUME NEW s \in Seq(Nat), NEW p \in 1 .. Len(s)
  PROVE  prof_evSize(s, p) \in Nat /\ p + prof_evSize(s, p) \in 1 .. Len(s) + 1
  <1>1. Len(s) \in Nat /\ s[p] \in Nat
    BY LenProperties, ElementOfSeq
  <1>2. QED
    BY <1>1 DEF prof_evSize

RunsAt(runs, s, n, p) ==
  \/ n = PFRUN
  \/ p = Len(s) + 1 /\ n > 0
  \/ n < PFRUN /\ p <= Len(s) /\ prof_evSize(s, p) > 0 /\ runs[n + 1][p + prof_evSize(s, p)]

RunsOf(runs, s) ==
  /\ \A n \in 0 .. PFRUN, p \in 1 .. Len(s) + 1 : runs[n][p] = RunsAt(runs, s, n, p)
  /\ \A o : prof_syncAt(s, o) = runs[0][o]

(* prof_syncAt looks for runs of events.                                   *)
LEMMA RunsFact ==
  ASSUME NEW s \in Seq(Nat)
  PROVE  \E runs : RunsOf(runs, s)
  <1> DEFINE P == 1 .. Len(s) + 1
             X == [P -> BOOLEAN]
             Is(r) == r = [n \in 0 .. PFRUN |-> [p \in P |-> RunsAt(r, s, n, p)]]
             runs == CHOOSE r : Is(r)
             all == [p \in P |-> TRUE]
             Before(n, h) == [p \in P |-> \/ p = Len(s) + 1 /\ n > 0
                                          \/ p <= Len(s) /\ prof_evSize(s, p) > 0 /\ h[p + prof_evSize(s, p)]]
             g == [q \in (1 .. PFRUN) \X X |-> Before(PFRUN - q[1], q[2])]
  <1>1. PFRUN \in Nat /\ Len(s) \in Nat /\ PFRUN > 0
    BY PfRecordAssumption, LenProperties
  <1>2. \A i \in 1 .. PFRUN : \A h \in X : g[<<i, h>>] = Before(PFRUN - i, h)
    OBVIOUS
  <1>3. \A n : \A h : Before(n, h) \in X
    OBVIOUS
  <1>4. all \in X /\ \A p \in P : all[p]
    OBVIOUS
  <1> HIDE DEF g, all, Is, runs, X, Before
  <1>5. PICK f \in [0 .. PFRUN -> X] : Recursive(f, g, PFRUN, all)
    <2>1. StepsIn(g, PFRUN, X)
      BY <1>2, <1>3 DEF StepsIn
    <2>2. QED
      BY <1>1, <1>4, <2>1, Recursion
  <1> DEFINE r == [n \in 0 .. PFRUN |-> f[PFRUN - n]]
  <1>6. \A n \in 0 .. PFRUN : r[n] = f[PFRUN - n] /\ r[n] \in X
    <2>1. \A n \in 0 .. PFRUN : PFRUN - n \in 0 .. PFRUN
      BY <1>1
    <2>2. QED
      BY <2>1, <1>5
  <1>7. r = [n \in 0 .. PFRUN |-> r[n]]
    OBVIOUS
  <1> HIDE DEF r
  <1>8. ASSUME NEW n \in 0 .. PFRUN  PROVE r[n] = [p \in P |-> RunsAt(r, s, n, p)]
    <2>1. r[n] = [p \in P |-> r[n][p]] /\ \A p \in P : r[n][p] \in BOOLEAN
      BY <1>6 DEF X
    <2>2. CASE n = PFRUN
      <3>1. r[n] = all
        <4>1. PFRUN - n = 0 /\ f[0] = all
          BY <1>1, <1>5, <2>2 DEF Recursive
        <4>2. QED
          BY <1>6, <4>1
      <3>2. \A p \in P : r[n][p] = RunsAt(r, s, n, p)
        BY <3>1, <1>4, <2>1, <2>2 DEF RunsAt
      <3>3. QED
        BY <2>1, <3>2
    <2>3. CASE n # PFRUN
      <3>1. PICK i \in 1 .. PFRUN : i = PFRUN - n
        BY <1>1, <2>3
      <3>2. f[i] = g[<<i, f[i - 1]>>] /\ i - 1 \in 0 .. PFRUN
        BY <1>1, <1>5 DEF Recursive
      <3>3. f[i - 1] \in X /\ n + 1 \in 0 .. PFRUN /\ i - 1 = PFRUN - (n + 1) /\ n = PFRUN - i
        BY <1>1, <1>5, <3>1, <3>2
      <3>4. r[n] = Before(n, r[n + 1])
        BY <1>2, <1>6, <3>1, <3>2, <3>3
      <3>5. ASSUME NEW p \in P  PROVE Before(n, r[n + 1])[p] = RunsAt(r, s, n, p)
        BY <2>3, <3>3, <1>1 DEF Before, RunsAt
      <3>6. QED
        BY <2>1, <3>4, <3>5
    <2>4. QED
      BY <2>2, <2>3
  <1>9. Is(r)
    BY <1>7, <1>8 DEF Is
  <1>10. Is(runs)
    BY <1>9 DEF runs
  <1>11. \A o : prof_syncAt(s, o) = runs[0][o]
    BY DEF prof_syncAt, runs, Is, RunsAt
  <1>12. ASSUME NEW n \in 0 .. PFRUN, NEW p \in P  PROVE runs[n][p] = RunsAt(runs, s, n, p)
    <2>1. PICK u : u = runs
      OBVIOUS
    <2>2. u = [m \in 0 .. PFRUN |-> [q \in P |-> RunsAt(u, s, m, q)]]
      BY <1>10, <2>1 DEF Is
    <2>3. u[n] = [q \in P |-> RunsAt(u, s, n, q)]
      BY ONLY <2>2, n \in 0 .. PFRUN
    <2>4. u[n][p] = RunsAt(u, s, n, p)
      BY ONLY <2>3, p \in P
    <2>5. QED
      BY <2>1, <2>4
  <1>13. QED
    BY <1>11, <1>12 DEF RunsOf

(* Where prof_syncAt finds the start of an event there is one.             *)
LEMMA SyncNeedsEvent ==
  ASSUME NEW s \in Seq(Nat), NEW p \in 1 .. Len(s), prof_syncAt(s, p)
  PROVE  prof_evSize(s, p) > 0
  <1>1. PICK runs : RunsOf(runs, s)
    BY RunsFact
  <1>2. PFRUN \in Nat /\ Len(s) \in Nat /\ PFRUN > 0
    BY PfRecordAssumption, LenProperties
  <1>3. 0 \in 0 .. PFRUN /\ p \in 1 .. Len(s) + 1
    BY <1>2
  <1>4. RunsAt(runs, s, 0, p)
    BY <1>1, <1>3 DEF RunsOf
  <1>5. QED
    BY <1>2, <1>4 DEF RunsAt

(* The size of each event of a stream of whole events.                     *)
LEMMA MarkSize ==
  ASSUME NEW s \in Seq(Nat), NEW k \in Nat, NEW b \in [0 .. k -> Nat], Marks(b, s, k), NEW i \in 0 .. k - 1
  PROVE  /\ prof_evSize(s, b[i]) = s[b[i]] /\ prof_evSize(s, b[i]) > 0
         /\ b[i] \in 1 .. Len(s) /\ b[i + 1] \in 1 .. Len(s) + 1 /\ b[i] + prof_evSize(s, b[i]) = b[i + 1]
  <1>1. Len(s) \in Nat
    BY LenProperties
  <1>2. b[i] \in 1 .. Len(s) /\ s[b[i]] > 0 /\ b[i + 1] = b[i] + s[b[i]] /\ b[i + 1] <= Len(s) + 1
    BY DEF Marks
  <1>3. b[i] \in Nat /\ s[b[i]] \in Nat
    BY <1>2, ElementOfSeq
  <1>4. prof_evSize(s, b[i]) = s[b[i]]
    <2>1. PICK x \in Nat, y \in Nat : x = b[i] /\ y = s[x] /\ x + y <= Len(s) + 1
      BY <1>2, <1>3
    <2>2. ~ (x + y - 1 > Len(s))
      <3>1. \A u, v, w \in Nat : u + v <= w + 1 => ~ (u + v - 1 > w)
        OBVIOUS
      <3>2. QED
        BY ONLY <1>1, <2>1, <3>1, x \in Nat, y \in Nat
    <2>3. QED
      BY <2>1, <2>2 DEF prof_evSize
  <1>5. b[i + 1] \in 1 .. Len(s) + 1
    BY <1>1, <1>2, <1>3
  <1>6. QED
    BY <1>2, <1>4, <1>5

(* A stream of whole events is in step from its first cell.                *)
LEMMA SyncsAtStart ==
  ASSUME NEW s \in Seq(Nat), NEW k \in Nat, k > 0, NEW b \in [0 .. k -> Nat], Marks(b, s, k)
  PROVE  prof_syncAt(s, 1)
  <1>1. PICK runs : RunsOf(runs, s)
    BY RunsFact
  <1>2. PFRUN \in Nat /\ Len(s) \in Nat /\ PFRUN > 0
    BY PfRecordAssumption, LenProperties
  <1> DEFINE T == {j \in Nat : j <= PFRUN => \A i \in 0 .. k : (j < PFRUN \/ i < k) => runs[PFRUN - j][b[i]]}
  <1>3. \A i \in 0 .. k : b[i] \in 1 .. Len(s) + 1
    BY <1>2 DEF Marks
  <1>4. \A n \in 0 .. PFRUN, p \in 1 .. Len(s) + 1 : runs[n][p] = RunsAt(runs, s, n, p)
    BY <1>1 DEF RunsOf
  <1>5. 0 \in T
    <2>1. ASSUME NEW i \in 0 .. k  PROVE runs[PFRUN][b[i]]
      <3>1. RunsAt(runs, s, PFRUN, b[i])
        BY DEF RunsAt
      <3>2. PFRUN \in 0 .. PFRUN
        BY <1>2
      <3>3. QED
        BY <1>3, <1>4, <3>1, <3>2
    <2>2. PFRUN - 0 = PFRUN
      BY <1>2
    <2>3. QED
      BY <2>1, <2>2
  <1>6. ASSUME NEW j \in Nat, j \in T  PROVE j + 1 \in T
    <2> SUFFICES ASSUME j + 1 <= PFRUN, NEW i \in 0 .. k, j + 1 < PFRUN \/ i < k
                 PROVE  runs[PFRUN - (j + 1)][b[i]]
      OBVIOUS
    <2>1. PICK n \in 0 .. PFRUN : n = PFRUN - (j + 1)
      BY <1>2
    <2>2. n + 1 = PFRUN - j /\ n < PFRUN /\ j < PFRUN
      BY <1>2, <2>1
    <2>3. \A l \in 0 .. k : runs[n + 1][b[l]]
      <3>1. \A l \in 0 .. k : runs[PFRUN - j][b[l]]
        BY <1>2, <1>6, <2>2
      <3>2. QED
        BY <2>2, <3>1
    <2>4. CASE i = k
      <3>1. b[i] = Len(s) + 1 /\ n > 0
        BY <1>2, <2>1, <2>4 DEF Marks
      <3>2. RunsAt(runs, s, n, b[i])
        BY <3>1 DEF RunsAt
      <3>3. QED
        BY <1>3, <1>4, <2>1, <3>2
    <2>5. CASE i # k
      <3>1. i \in 0 .. k - 1 /\ i + 1 \in 0 .. k
        BY <2>5
      <3>2. prof_evSize(s, b[i]) > 0 /\ b[i] \in 1 .. Len(s) /\ b[i] + prof_evSize(s, b[i]) = b[i + 1]
        BY <3>1, MarkSize
      <3>3. b[i] <= Len(s) /\ runs[n + 1][b[i] + prof_evSize(s, b[i])]
        BY <1>2, <2>3, <3>1, <3>2
      <3>4. RunsAt(runs, s, n, b[i])
        BY <2>2, <3>2, <3>3 DEF RunsAt
      <3>5. QED
        BY <1>3, <1>4, <2>1, <3>4
    <2>6. QED
      BY <2>4, <2>5
  <1> HIDE DEF T
  <1>7. PFRUN \in T
    BY <1>2, <1>5, <1>6, SetInduction
  <1>8. 0 \in 0 .. k /\ 0 < k /\ PFRUN - PFRUN = 0
    BY <1>2
  <1>9. runs[0][b[0]]
    BY <1>2, <1>7, <1>8 DEF T
  <1>10. QED
    BY <1>1, <1>9 DEF RunsOf, Marks

-----------------------------------------------------------------------------
MixRecs == [events : Nat, skipped : Nat]

MixAt(f, s, p, synced) ==
  IF p > Len(s) THEN NoMix
  ELSE IF (~ synced \/ prof_evSize(s, p) = 0) /\ ~ prof_syncAt(s, p)
       THEN [f[p + 1][FALSE] EXCEPT !.skipped = @ + 1]
       ELSE [f[p + prof_evSize(s, p)][TRUE] EXCEPT !.events = @ + 1]

MixOf(mix, s) ==
  /\ \A p \in 1 .. Len(s) + 1, synced \in BOOLEAN : mix[p][synced] = MixAt(mix, s, p, synced)
  /\ prof_mixAdd(s) = mix[1][FALSE]

(* Where prof_mixAdd stands after p depends on what follows p.             *)
LEMMA MixAhead ==
  ASSUME NEW s \in Seq(Nat), NEW p \in 1 .. Len(s), NEW synced \in BOOLEAN,
         NEW f \in [1 .. Len(s) + 1 -> [BOOLEAN -> MixRecs]]
  PROVE  /\ MixAt(f, s, p, synced) \in MixRecs
         /\ \A h \in [1 .. Len(s) + 1 -> [BOOLEAN -> MixRecs]] :
              (\A q \in p + 1 .. Len(s) + 1 : f[q] = h[q]) => MixAt(f, s, p, synced) = MixAt(h, s, p, synced)
  <1>1. Len(s) \in Nat /\ ~ (p > Len(s)) /\ TRUE \in BOOLEAN /\ FALSE \in BOOLEAN
    BY LenProperties
  <1>2. prof_evSize(s, p) \in Nat /\ p + prof_evSize(s, p) \in 1 .. Len(s) + 1
    BY EvSizeFact
  <1>6. \A r \in MixRecs : [r EXCEPT !.skipped = @ + 1] \in MixRecs /\ [r EXCEPT !.events = @ + 1] \in MixRecs
    <2> SUFFICES ASSUME NEW r \in MixRecs
                 PROVE  [r EXCEPT !.skipped = @ + 1] \in MixRecs /\ [r EXCEPT !.events = @ + 1] \in MixRecs
      OBVIOUS
    <2>1. r.events \in Nat /\ r.skipped \in Nat /\ r = [events |-> r.events, skipped |-> r.skipped]
      BY DEF MixRecs
    <2>2. [r EXCEPT !.skipped = @ + 1] = [events |-> r.events, skipped |-> r.skipped + 1]
      BY <2>1
    <2>3. [r EXCEPT !.events = @ + 1] = [events |-> r.events + 1, skipped |-> r.skipped]
      BY <2>1
    <2>4. r.skipped + 1 \in Nat /\ r.events + 1 \in Nat
      BY <2>1
    <2>5. QED
      BY <2>1, <2>2, <2>3, <2>4 DEF MixRecs
  <1>3. CASE (~ synced \/ prof_evSize(s, p) = 0) /\ ~ prof_syncAt(s, p)
    <2>1. p + 1 \in 1 .. Len(s) + 1 /\ p + 1 \in p + 1 .. Len(s) + 1
      BY <1>1
    <2>2. \A h : MixAt(h, s, p, synced) = [h[p + 1][FALSE] EXCEPT !.skipped = @ + 1]
      BY <1>1, <1>3 DEF MixAt
    <2>3. f[p + 1] \in [BOOLEAN -> MixRecs]
      BY <2>1
    <2>4. f[p + 1][FALSE] \in MixRecs
      BY <2>3
    <2>5. [f[p + 1][FALSE] EXCEPT !.skipped = @ + 1] \in MixRecs
      BY <1>6, <2>4
    <2>6. QED
      BY <2>1, <2>2, <2>5
  <1>4. CASE ~ ((~ synced \/ prof_evSize(s, p) = 0) /\ ~ prof_syncAt(s, p))
    <2>1. prof_evSize(s, p) > 0
      BY <1>2, <1>4, SyncNeedsEvent
    <2>2. p + prof_evSize(s, p) \in p + 1 .. Len(s) + 1
      BY <1>1, <1>2, <2>1
    <2>3. \A h : MixAt(h, s, p, synced) = [h[p + prof_evSize(s, p)][TRUE] EXCEPT !.events = @ + 1]
      BY <1>1, <1>4 DEF MixAt
    <2>4. f[p + prof_evSize(s, p)] \in [BOOLEAN -> MixRecs]
      BY <1>2
    <2>5. f[p + prof_evSize(s, p)][TRUE] \in MixRecs
      BY <2>4
    <2>6. [f[p + prof_evSize(s, p)][TRUE] EXCEPT !.events = @ + 1] \in MixRecs
      BY <1>6, <2>5
    <2>7. QED
      BY <2>2, <2>3, <2>6
  <1>5. QED
    BY <1>3, <1>4

(* prof_mixAdd goes from event to event.                                   *)
LEMMA MixFact ==
  ASSUME NEW s \in Seq(Nat)
  PROVE  \E mix : MixOf(mix, s)
  <1> DEFINE n == Len(s)
             P == 1 .. n + 1
             X == [BOOLEAN -> MixRecs]
             Is(m) == m = [p \in P |-> [synced \in BOOLEAN |-> MixAt(m, s, p, synced)]]
             mix == CHOOSE m : Is(m)
             last == [synced \in BOOLEAN |-> NoMix]
             At(p, h) == [synced \in BOOLEAN |-> MixAt(h, s, p, synced)]
             g == [q \in (1 .. n) \X [P -> X] |-> At(q[1], q[2])]
  <1>1. n \in Nat
    BY LenProperties
  <1>2. \A p \in 1 .. n : \A h \in [P -> X] : g[<<p, h>>] = At(p, h)
    OBVIOUS
  <1>3. last \in X /\ \A synced \in BOOLEAN : last[synced] = NoMix
    BY DEF NoMix, MixRecs
  <1>4. ASSUME NEW p \in 1 .. n, NEW h \in [P -> X]  PROVE At(p, h) \in X
    BY MixAhead
  <1>5. ASSUME NEW p \in 1 .. n, NEW f \in [P -> X], NEW h \in [P -> X], \A q \in p + 1 .. n + 1 : f[q] = h[q]
        PROVE  At(p, f) = At(p, h)
    <2>1. \A synced \in BOOLEAN : MixAt(f, s, p, synced) = MixAt(h, s, p, synced)
      BY <1>5, MixAhead
    <2>2. QED
      BY <2>1
  <1> HIDE DEF n, g, X, last, Is, mix, At
  <1>6. PICK f \in [P -> X] : Backward(f, g, n, last)
    <2>1. LooksAhead(g, n, X)
      <3>1. \A p \in 1 .. n : \A h \in [P -> X] : g[<<p, h>>] \in X
        BY <1>2, <1>4
      <3>2. ASSUME NEW p \in 1 .. n, NEW h \in [P -> X], NEW i \in [P -> X], \A q \in p + 1 .. n + 1 : h[q] = i[q]
            PROVE  g[<<p, h>>] = g[<<p, i>>]
        <4>1. At(p, h) = At(p, i)
          BY <1>5, <3>2
        <4>2. QED
          BY <1>2, <4>1
      <3>3. QED
        BY <3>1, <3>2 DEF LooksAhead
    <2>2. QED
      BY <1>1, <1>3, <2>1, Descent
  <1>7. ASSUME NEW p \in P  PROVE f[p] = [synced \in BOOLEAN |-> MixAt(f, s, p, synced)]
    <2>1. CASE p = n + 1
      <3>1. f[p] = last
        BY <1>6, <2>1 DEF Backward
      <3>2. p > Len(s)
        BY <1>1, <2>1 DEF n
      <3>3. \A synced \in BOOLEAN : MixAt(f, s, p, synced) = NoMix
        BY <3>2 DEF MixAt
      <3>4. QED
        BY <3>1, <3>3 DEF last
    <2>2. CASE p # n + 1
      <3>1. p \in 1 .. n
        BY <1>1, <2>2
      <3>2. f[p] = At(p, f)
        BY <1>2, <1>6, <3>1 DEF Backward
      <3>3. QED
        BY <3>2 DEF At
    <2>3. QED
      BY <2>1, <2>2
  <1>8. Is(f)
    <2>1. f = [p \in P |-> f[p]]
      BY <1>6
    <2>2. QED
      BY <2>1, <1>7 DEF Is
  <1>9. Is(mix)
    BY <1>8 DEF mix
  <1>10. prof_mixAdd(s) = mix[1][FALSE]
    BY DEF prof_mixAdd, mix, Is, MixAt, n
  <1>11. ASSUME NEW p \in P, NEW synced \in BOOLEAN  PROVE mix[p][synced] = MixAt(mix, s, p, synced)
    <2>1. PICK u : u = mix
      OBVIOUS
    <2>2. u = [q \in P |-> [z \in BOOLEAN |-> MixAt(u, s, q, z)]]
      BY <1>9, <2>1 DEF Is
    <2>3. u[p] = [z \in BOOLEAN |-> MixAt(u, s, p, z)]
      BY ONLY <2>2, p \in P
    <2>4. u[p][synced] = MixAt(u, s, p, synced)
      BY ONLY <2>3, synced \in BOOLEAN
    <2>5. QED
      BY <2>1, <2>4
  <1>12. QED
    BY <1>10, <1>11 DEF MixOf, n

(* Of a stream of whole events each is counted and no cell is skipped,     *)
(* whatever the payload looks like.                                        *)
LEMMA CountsEvents ==
  ASSUME NEW s \in Seq(Nat), NEW k \in Nat, Framed(s, k)
  PROVE  prof_mixAdd(s) = [events |-> k, skipped |-> 0]
  <1>1. PICK b \in [0 .. k -> Nat] : Marks(b, s, k)
    BY DEF Framed
  <1>2. PICK mix : MixOf(mix, s)
    BY MixFact
  <1>3. Len(s) \in Nat
    BY LenProperties
  <1>4. \A p \in 1 .. Len(s) + 1, synced \in BOOLEAN : mix[p][synced] = MixAt(mix, s, p, synced)
    BY <1>2 DEF MixOf
  <1>5. \A synced \in BOOLEAN : mix[Len(s) + 1][synced] = NoMix
    <2>1. Len(s) + 1 \in 1 .. Len(s) + 1 /\ Len(s) + 1 > Len(s)
      BY <1>3
    <2>2. QED
      BY <1>4, <2>1 DEF MixAt
  <1> DEFINE Rec(j) == [events |-> j, skipped |-> 0]
             T == {j \in Nat : j <= k => mix[b[k - j]][TRUE] = Rec(j)}
  <1>6. \A j \in Nat : [Rec(j) EXCEPT !.events = @ + 1] = Rec(j + 1)
    OBVIOUS
  <1>7. ASSUME NEW i \in 0 .. k - 1, NEW synced \in BOOLEAN, synced \/ i = 0
        PROVE  mix[b[i]][synced] = [mix[b[i + 1]][TRUE] EXCEPT !.events = @ + 1]
    <2>1. /\ prof_evSize(s, b[i]) > 0 /\ b[i] \in 1 .. Len(s) /\ b[i] + prof_evSize(s, b[i]) = b[i + 1]
      BY <1>1, MarkSize
    <2>2. b[i] \in 1 .. Len(s) + 1 /\ ~ (b[i] > Len(s)) /\ prof_evSize(s, b[i]) # 0
      BY <1>3, <2>1
    <2>3. synced \/ prof_syncAt(s, b[i])
      <3>1. CASE i = 0
        <4>1. k > 0 /\ b[i] = 1
          BY <1>1, <3>1 DEF Marks
        <4>2. QED
          BY <1>1, <4>1, SyncsAtStart
      <3>2. QED
        BY <1>7, <3>1
    <2>4. MixAt(mix, s, b[i], synced) = [mix[b[i] + prof_evSize(s, b[i])][TRUE] EXCEPT !.events = @ + 1]
      BY <2>2, <2>3 DEF MixAt
    <2>5. QED
      BY <1>4, <2>1, <2>2, <2>4
  <1>8. 0 \in T
    <2>1. k - 0 = k /\ b[k] = Len(s) + 1
      BY <1>1 DEF Marks
    <2>2. mix[b[k]][TRUE] = Rec(0)
      BY <1>5, <2>1 DEF NoMix
    <2>3. QED
      BY <2>1, <2>2
  <1>13. \A j \in Nat : j \in T <=> (j <= k => mix[b[k - j]][TRUE] = Rec(j))
    OBVIOUS
  <1> HIDE DEF Rec, T
  <1>9. ASSUME NEW j \in Nat, j \in T  PROVE j + 1 \in T
    <2>7. PICK l \in Nat : l = j + 1
      OBVIOUS
    <2>8. l \in T <=> (l <= k => mix[b[k - l]][TRUE] = Rec(l))
      BY <1>13
    <2> SUFFICES ASSUME j + 1 <= k  PROVE mix[b[k - (j + 1)]][TRUE] = Rec(j + 1)
      BY <2>7, <2>8
    <2>1. PICK i \in 0 .. k - 1 : i = k - (j + 1)
      OBVIOUS
    <2>2. i + 1 = k - j /\ j <= k
      BY <2>1
    <2>3. mix[b[i + 1]][TRUE] = Rec(j)
      BY <1>9, <1>13, <2>2
    <2>4. mix[b[i]][TRUE] = [mix[b[i + 1]][TRUE] EXCEPT !.events = @ + 1]
      BY <1>7
    <2>5. mix[b[i]][TRUE] = Rec(j + 1)
      BY <1>6, <2>3, <2>4
    <2>6. QED
      BY <2>1, <2>5
  <1>10. Nat \subseteq T
    BY <1>8, <1>9, SetInduction
  <1>11. mix[1][FALSE] = Rec(k)
    <2>1. CASE k = 0
      <3>1. Len(s) + 1 = 1
        BY <1>1, <2>1 DEF Marks
      <3>2. mix[1][FALSE] = NoMix
        BY <1>5, <3>1
      <3>3. QED
        BY <2>1, <3>2 DEF Rec, NoMix
    <2>2. CASE k # 0
      <3>1. 0 \in 0 .. k - 1 /\ k - 1 \in Nat /\ 0 + 1 = k - (k - 1) /\ k - 1 <= k /\ (k - 1) + 1 = k
        BY <2>2
      <3>2. mix[b[0 + 1]][TRUE] = Rec(k - 1)
        BY <1>10, <1>13, <3>1
      <3>3. mix[b[0]][FALSE] = [mix[b[0 + 1]][TRUE] EXCEPT !.events = @ + 1]
        BY <1>7, <3>1
      <3>4. mix[b[0]][FALSE] = Rec(k)
        <4>1. [Rec(k - 1) EXCEPT !.events = @ + 1] = Rec((k - 1) + 1)
          BY <1>6, <3>1
        <4>2. QED
          BY <3>1, <3>2, <3>3, <4>1
      <3>5. QED
        BY <1>1, <3>4 DEF Marks
    <2>3. QED
      BY <2>1, <2>2
  <1>12. QED
    BY <1>2, <1>11 DEF MixOf, Rec

-----------------------------------------------------------------------------
PfType ==
  /\ pfPhase \in {"open", "start", "loop", "pass", "drain", "count", "write", "exited"}
  /\ pfRing \in [PfChans -> Seq(Nat)] /\ pfMade \in [PfChans -> Seq(Nat)] /\ pfEvents \in [PfChans -> Nat]
  /\ pfChan \in [PfChans -> Seq(Nat)] /\ pfAt \in [chan : Nat \ {0}, reads : Nat]
  /\ pfErr \in {"ok", "nospc", "error"}
  /\ pfFile \in [PfChans -> {"none", "whole", "failed"}]

(* What record's phases say about the trace and about what went wrong.     *)
PfControl ==
  /\ pfPhase \in {"open", "start", "loop", "pass"} => ~ pfFull
  /\ pfPhase \in {"open", "start", "pass", "drain"} => pfErr = "ok"
  /\ pfPhase \in {"open", "start"} => pfActive = "none"
  /\ pfPhase \in {"drain", "count"} => pfActive = "stopped"
  /\ pfPhase = "write" => pfActive = "finished"
  /\ pfPhase = "exited" => pfActive \in {"none", "finished"}
  /\ pfPhase # "exited" => pfExit # 0
  /\ pfExit = 0 => pfErr = "ok"

(* The kernel writes whole events.                                         *)
PfKept == \A c \in PfChans : Framed(pfMade[c], pfEvents[c])

(* Unless a failure or the limit is reported, what was read and what the   *)
(* kernel still buffers is what it kept.                                   *)
PfLost ==
  (~ pfRolling /\ pfErr = "ok" /\ ~ pfFull) => \A c \in PfChans : pfChan[c] \o pfRing[c] = pfMade[c]

(* The last drain empties one channel after the other.                     *)
PfDrained ==
  /\ pfPhase = "drain" => \A c \in PfChans : c < pfAt.chan => pfRing[c] = <<>>
  /\ (pfPhase \in {"count", "write"} \/ pfExit = 0) /\ pfErr = "ok" /\ ~ pfFull => \A c \in PfChans : pfRing[c] = <<>>

(* The files are written one after the other, from what was counted.       *)
PfOut ==
  /\ pfPhase = "write" \/ pfExit = 0 => \A c \in PfChans : pfMix[c] = prof_mixAdd(pfChan[c])
  /\ pfPhase = "write" /\ pfErr = "ok" => \A c \in PfChans : c < pfAt.chan => pfFile[c] = "whole"
  /\ pfExit = 0 => \A c \in PfChans : pfFile[c] = "whole"

PfInv == PfType /\ PfControl /\ PfKept /\ PfLost /\ PfDrained /\ PfOut

(* Concatenations can be grouped either way.                               *)
LEMMA Regroup ==
  ASSUME NEW s \in Seq(Nat), NEW t \in Seq(Nat), NEW u \in Seq(Nat)
  PROVE  (s \o t) \o u = s \o (t \o u)
  BY ConcatAssociative, SMTT(30)

(* A read takes the oldest cells of what the kernel buffers.               *)
LEMMA ReadSplits ==
  ASSUME NEW s \in Seq(Nat), NEW r \in Seq(Nat), NEW n \in 0 .. Len(r)
  PROVE  /\ SubSeq(r, n + 1, Len(r)) \in Seq(Nat) /\ s \o SubSeq(r, 1, n) \in Seq(Nat)
         /\ (s \o SubSeq(r, 1, n)) \o SubSeq(r, n + 1, Len(r)) = s \o r
         /\ n = Len(r) => SubSeq(r, n + 1, Len(r)) = <<>>
  <1>1. Len(r) \in Nat /\ \A i \in 1 .. Len(r) : r[i] \in Nat
    BY LenProperties, ElementOfSeq
  <1>2. SubSeq(r, n + 1, Len(r)) \in Seq(Nat)
    <2>1. n + 1 \in Int /\ Len(r) \in Int /\ \A i \in n + 1 .. Len(r) : r[i] \in Nat
      BY <1>1
    <2>2. QED
      BY <2>1, SubSeqProperties
  <1>3. SubSeq(r, 1, n) \in Seq(Nat)
    <2>1. n \in Int /\ \A i \in 1 .. n : r[i] \in Nat
      BY <1>1
    <2>2. QED
      BY <2>1, SubSeqProperties
  <1>4. s \o SubSeq(r, 1, n) \in Seq(Nat)
    BY <1>3, ConcatProperties
  <1>5. SubSeq(r, 1, n) \o SubSeq(r, n + 1, Len(r)) = r
    <2>1. 1 \in 1 .. Len(r) + 1 /\ n \in 1 - 1 .. Len(r) /\ Len(r) \in n .. Len(r)
      BY <1>1
    <2>2. SubSeq(r, 1, n) \o SubSeq(r, n + 1, Len(r)) = SubSeq(r, 1, Len(r))
      BY <2>1, ConcatAdjacentSubSeq
    <2>3. QED
      BY <2>2, SubSeqFull
  <1>6. (s \o SubSeq(r, 1, n)) \o SubSeq(r, n + 1, Len(r)) = s \o r
    <2>1. PICK a \in Seq(Nat), b \in Seq(Nat) : a = SubSeq(r, 1, n) /\ b = SubSeq(r, n + 1, Len(r))
      BY <1>2, <1>3
    <2>2. (s \o a) \o b = s \o (a \o b)
      BY ONLY s \in Seq(Nat), a \in Seq(Nat), b \in Seq(Nat), Regroup
    <2>3. QED
      BY <1>5, <2>1, <2>2
  <1>7. ASSUME n = Len(r)  PROVE SubSeq(r, n + 1, Len(r)) = <<>>
    <2>1. n + 1 \in Int /\ Len(r) \in Int /\ Len(r) < n + 1
      BY <1>1, <1>7
    <2>2. QED
      BY <2>1, SubSeqEmpty
  <1>8. QED
    BY <1>2, <1>4, <1>6, <1>7

Room(all) == SubSeq(all, 1 + IF Len(all) > PFRING THEN Len(all) - PFRING ELSE 0, Len(all))

Joined(s, r, e) ==
  /\ Room(r \o e) \in Seq(Nat)
  /\ Len(r \o e) <= PFRING => s \o Room(r \o e) = (s \o r) \o e

(* The kernel appends an event to what it buffers.                         *)
LEMMA RingMore ==
  ASSUME NEW s \in Seq(Nat), NEW r \in Seq(Nat), NEW e \in Seq(Nat)
  PROVE  Joined(s, r, e)
  <1>1. PICK all \in Seq(Nat) : all = r \o e
    BY ConcatProperties
  <1>2. Len(all) \in Nat /\ (\A i \in 1 .. Len(all) : all[i] \in Nat) /\ PFRING \in Nat
    BY PfRecordAssumption, LenProperties, ElementOfSeq
  <1>3. Room(all) \in Seq(Nat)
    <2>1. PICK m \in Nat : m = 1 + IF Len(all) > PFRING THEN Len(all) - PFRING ELSE 0
      <3>1. PICK l \in Nat, k \in Nat : l = Len(all) /\ k = PFRING
        BY <1>2
      <3>2. 1 + (IF l > k THEN l - k ELSE 0) \in Nat
        BY ONLY l \in Nat, k \in Nat
      <3>3. QED
        BY <3>1, <3>2
    <2>2. m >= 1 /\ m \in Int /\ Len(all) \in Int
      BY <1>2, <2>1
    <2>3. \A i \in m .. Len(all) : all[i] \in Nat
      BY <1>2, <2>2
    <2>4. SubSeq(all, m, Len(all)) \in Seq(Nat)
      BY <2>2, <2>3, SubSeqProperties
    <2>5. QED
      BY <2>1, <2>4 DEF Room
  <1>4. ASSUME Len(all) <= PFRING  PROVE s \o Room(all) = (s \o r) \o e
    <2>1. Room(all) = SubSeq(all, 1, Len(all))
      <3>1. 1 + (IF Len(all) > PFRING THEN Len(all) - PFRING ELSE 0) = 1
        BY <1>2, <1>4
      <3>2. QED
        BY <3>1 DEF Room
    <2>2. Room(all) = all
      BY <2>1, SubSeqFull
    <2>3. QED
      <3>1. (s \o r) \o e = s \o (r \o e)
        BY ONLY s \in Seq(Nat), r \in Seq(Nat), e \in Seq(Nat), Regroup
      <3>2. QED
        BY <1>1, <2>2, <3>1
  <1>5. QED
    BY <1>1, <1>3, <1>4 DEF Joined

-----------------------------------------------------------------------------
(* The kernel writes events only while record reads or sleeps.             *)
LEMMA TraceStep == PfInv /\ PfTrace => PfInv'
  <1> SUFFICES ASSUME PfInv, PfTrace PROVE PfInv'
    OBVIOUS
  <1>1. PfType /\ PfControl /\ PfKept /\ PfLost /\ PfDrained /\ PfOut
    BY DEF PfInv
  <1>2. PICK c \in PfChans, e \in PfShapes :
          /\ pfRolling \/ Len(pfRing[c] \o e) <= PFRING
          /\ pfRing' = [pfRing EXCEPT ![c] = Room(pfRing[c] \o e)]
          /\ pfMade' = [pfMade EXCEPT ![c] = @ \o e]
          /\ pfEvents' = [pfEvents EXCEPT ![c] = @ + 1]
    BY DEF PfTrace, Room
  <1>3. UNCHANGED <<pfPhase, pfRolling, pfActive, pfChan, pfAt, pfErr, pfFull, pfMix, pfFile, pfExit>> /\ pfActive = "running"
    BY DEF PfTrace
  <1>4. pfPhase \in {"loop", "pass"} /\ pfExit # 0
    BY <1>1, <1>3 DEF PfType, PfControl
  <1>5. e \in Seq(Nat) /\ e # <<>> /\ e[1] = Len(e)
    BY PfRecordAssumption
  <1>6. pfRing[c] \in Seq(Nat) /\ pfMade[c] \in Seq(Nat) /\ pfChan[c] \in Seq(Nat) /\ pfEvents[c] \in Nat
    BY <1>1 DEF PfType
  <1>7. Room(pfRing[c] \o e) \in Seq(Nat) /\ pfMade[c] \o e \in Seq(Nat) /\ pfEvents[c] + 1 \in Nat
    <2>1. Room(pfRing[c] \o e) \in Seq(Nat)
      BY <1>5, <1>6, RingMore DEF Joined
    <2>2. pfMade[c] \o e \in Seq(Nat)
      BY <1>5, <1>6, ConcatProperties
    <2>3. QED
      BY <1>6, <2>1, <2>2
  <1>8. PfType'
    BY <1>1, <1>2, <1>3, <1>7 DEF PfType
  <1>9. PfControl'
    BY <1>1, <1>3 DEF PfControl
  <1>10. PfKept'
    <2>1. ASSUME NEW d \in PfChans  PROVE Framed(pfMade'[d], pfEvents'[d])
      <3>1. CASE d = c
        <4>1. Framed(pfMade[c] \o e, pfEvents[c] + 1)
          BY <1>1, <1>5, <1>6, FramedMore DEF PfKept
        <4>2. pfMade'[c] = pfMade[c] \o e /\ pfEvents'[c] = pfEvents[c] + 1
          BY <1>1, <1>2 DEF PfType
        <4>3. QED
          BY <3>1, <4>1, <4>2
      <3>2. CASE d # c
        <4>1. pfMade'[d] = pfMade[d] /\ pfEvents'[d] = pfEvents[d]
          BY <1>1, <1>2, <3>2 DEF PfType
        <4>2. QED
          BY <1>1, <4>1 DEF PfKept
      <3>3. QED
        BY <3>1, <3>2
    <2>2. QED
      BY <2>1 DEF PfKept
  <1>11. PfLost'
    <2> SUFFICES ASSUME ~ pfRolling, pfErr = "ok", ~ pfFull, NEW d \in PfChans
                 PROVE  pfChan[d] \o pfRing'[d] = pfMade'[d]
      BY <1>3 DEF PfLost
    <2>1. pfChan[d] \o pfRing[d] = pfMade[d]
      BY <1>1 DEF PfLost
    <2>2. CASE d = c
      <3>1. pfChan[c] \o Room(pfRing[c] \o e) = (pfChan[c] \o pfRing[c]) \o e
        <4>1. PICK s \in Seq(Nat), r \in Seq(Nat) : s = pfChan[c] /\ r = pfRing[c]
          BY <1>6
        <4>2. Len(r \o e) <= PFRING
          BY <1>2, <4>1
        <4>3. s \o Room(r \o e) = (s \o r) \o e
          <5>1. e \in Seq(Nat)
            BY <1>5
          <5>2. Len(r \o e) <= PFRING => s \o Room(r \o e) = (s \o r) \o e
            <6>1. Joined(s, r, e)
              BY ONLY <5>1, s \in Seq(Nat), r \in Seq(Nat), RingMore
            <6>2. QED
              BY <6>1 DEF Joined
          <5>3. QED
            BY <4>2, <5>2
        <4>4. QED
          BY <4>1, <4>3
      <3>2. pfMade'[c] = pfMade[c] \o e /\ pfRing'[c] = Room(pfRing[c] \o e)
        BY <1>1, <1>2 DEF PfType
      <3>3. QED
        BY <2>1, <2>2, <3>1, <3>2
    <2>3. CASE d # c
      <3>1. pfMade'[d] = pfMade[d] /\ pfRing'[d] = pfRing[d]
        BY <1>1, <1>2, <2>3 DEF PfType
      <3>2. QED
        BY <2>1, <3>1
    <2>4. QED
      BY <2>2, <2>3
  <1>12. PfDrained'
    BY <1>3, <1>4 DEF PfDrained
  <1>13. PfOut'
    BY <1>3, <1>4 DEF PfOut
  <1>14. QED
    BY <1>8, <1>9, <1>10, <1>11, <1>12, <1>13 DEF PfInv

(* A step of the drain that only leaves it.                                *)
LEMMA LeaveStep == PfInv /\ (DrainFull \/ DrainFails \/ DrainDone) => PfInv'
  <1> SUFFICES ASSUME PfInv, DrainFull \/ DrainFails \/ DrainDone PROVE PfInv'
    OBVIOUS
  <1>1. PfType /\ PfControl /\ PfKept /\ PfLost /\ PfDrained /\ PfOut
    BY DEF PfInv
  <1>2. /\ UNCHANGED <<pfRolling, pfActive, pfRing, pfMade, pfEvents, pfChan, pfAt, pfMix, pfFile, pfExit>>
        /\ pfPhase \in {"pass", "drain"}
        /\ \/ DrainLeaves("nospc") \/ DrainLeaves("error")
           \/ DrainLeaves("ok") /\ pfAt.chan > PFCHANS
    BY DEF DrainFull, DrainFails, DrainDone, pfKernel
  <1>3. pfErr = "ok" /\ pfExit # 0
    BY <1>1, <1>2 DEF PfControl
  <1>4. PfType'
    <2>1. pfErr' \in {"ok", "nospc", "error"} /\ pfPhase' \in {"count", "loop"}
      BY <1>2 DEF DrainLeaves
    <2>2. QED
      BY <1>1, <1>2, <2>1 DEF PfType
  <1>5. PfControl'
    BY <1>1, <1>2, <1>3 DEF PfControl, DrainLeaves
  <1>6. PfKept'
    BY <1>1, <1>2 DEF PfKept
  <1>7. pfErr' = "ok" /\ ~ pfFull' => DrainLeaves("ok") /\ pfAt.chan > PFCHANS /\ ~ pfFull
    BY <1>2 DEF DrainLeaves
  <1>8. PfLost'
    BY <1>1, <1>2, <1>3, <1>7 DEF PfLost
  <1>9. PfDrained'
    <2>1. pfPhase' # "drain" /\ pfExit' # 0 /\ pfPhase' # "write"
      BY <1>2, <1>3 DEF DrainLeaves
    <2>2. ASSUME pfPhase' = "count", pfErr' = "ok", ~ pfFull'  PROVE \A c \in PfChans : pfRing'[c] = <<>>
      <3>1. pfPhase = "drain"
        BY <1>2, <2>2 DEF DrainLeaves
      <3>2. \A c \in PfChans : c < pfAt.chan
        <4>1. PFCHANS \in Nat /\ pfAt.chan \in Nat /\ pfAt.chan > PFCHANS
          BY <1>1, <1>7, <2>2, PfRecordAssumption DEF PfType
        <4>2. QED
          BY <4>1 DEF PfChans
      <3>3. QED
        BY <1>1, <1>2, <3>1, <3>2 DEF PfDrained
    <2>3. QED
      BY <2>1, <2>2 DEF PfDrained
  <1>10. PfOut'
    <2>1. pfPhase' # "write" /\ pfExit' # 0
      BY <1>2, <1>3 DEF DrainLeaves
    <2>2. QED
      BY <2>1 DEF PfOut
  <1>11. QED
    BY <1>4, <1>5, <1>6, <1>8, <1>9, <1>10 DEF PfInv

(* A read moves what the kernel gave up to where record keeps it, or       *)
(* record reports that it lost some.                                       *)
LEMMA ReadStep == PfInv /\ DrainRead => PfInv'
  <1> SUFFICES ASSUME PfInv, DrainRead PROVE PfInv'
    OBVIOUS
  <1>1. PfType /\ PfControl /\ PfKept /\ PfLost /\ PfDrained /\ PfOut
    BY DEF PfInv
  <1> DEFINE Most(r) == IF Len(r) < PFBUFSZ THEN Len(r) ELSE PFBUFSZ
  <1>2. PICK c \in PfChans, n \in Nat :
          /\ c = pfAt.chan /\ n = Most(pfRing[c])
          /\ pfRing' = [pfRing EXCEPT ![c] = SubSeq(@, n + 1, Len(@))]
          /\ \/ /\ pfChan' = [pfChan EXCEPT ![c] = @ \o SubSeq(pfRing[c], 1, n)]
                /\ pfAt' = NextAt(n)
                /\ UNCHANGED <<pfErr, pfFull, pfPhase>>
             \/ DrainLeaves("nospc") /\ UNCHANGED <<pfChan, pfAt>>
    <2>1. pfAt.chan \in Nat \ {0} /\ pfAt.chan <= PFCHANS /\ PFCHANS \in Nat /\ PFBUFSZ \in Nat
      BY <1>1, PfRecordAssumption DEF PfType, DrainRead
    <2>2. pfAt.chan \in PfChans
      BY <2>1 DEF PfChans
    <2>3. Len(pfRing[pfAt.chan]) \in Nat
      BY <1>1, <2>2, LenProperties DEF PfType
    <2>4. Most(pfRing[pfAt.chan]) \in Nat
      BY <2>1, <2>3
    <2>5. QED
      BY <2>2, <2>4 DEF DrainRead
  <1>3. /\ UNCHANGED <<pfRolling, pfActive, pfMade, pfEvents, pfMix, pfFile, pfExit>>
        /\ pfPhase \in {"pass", "drain"}
    BY DEF DrainRead
  <1>4. pfErr = "ok" /\ pfExit # 0
    BY <1>1, <1>3 DEF PfControl
  <1>5. pfRing[c] \in Seq(Nat) /\ pfChan[c] \in Seq(Nat) /\ PFBUFSZ \in Nat /\ Len(pfRing[c]) \in Nat
    BY <1>1, PfRecordAssumption, LenProperties DEF PfType
  <1>6. n \in 0 .. Len(pfRing[c]) /\ (n < PFBUFSZ => n = Len(pfRing[c]))
    BY <1>2, <1>5
  <1>7. PICK s \in Seq(Nat), r \in Seq(Nat) : s = pfChan[c] /\ r = pfRing[c]
    BY <1>5
  <1>8. /\ SubSeq(r, n + 1, Len(r)) \in Seq(Nat) /\ s \o SubSeq(r, 1, n) \in Seq(Nat)
        /\ (s \o SubSeq(r, 1, n)) \o SubSeq(r, n + 1, Len(r)) = s \o r
        /\ n = Len(r) => SubSeq(r, n + 1, Len(r)) = <<>>
    <2>1. n \in 0 .. Len(r)
      BY <1>6, <1>7
    <2>2. QED
      BY ONLY <2>1, s \in Seq(Nat), r \in Seq(Nat), ReadSplits
  <1>9. /\ pfRing' \in [PfChans -> Seq(Nat)] /\ pfRing'[c] = SubSeq(r, n + 1, Len(r))
        /\ \A d \in PfChans : d # c => pfRing'[d] = pfRing[d]
    BY <1>1, <1>2, <1>7, <1>8 DEF PfType
  <1>10. CASE DrainLeaves("nospc") /\ UNCHANGED <<pfChan, pfAt>>
    <2>1. pfPhase' \in {"count", "loop"} /\ pfErr' \in {"ok", "nospc"} /\ ~ (pfErr' = "ok" /\ ~ pfFull')
      BY <1>3, <1>10 DEF DrainLeaves
    <2>2. PfType'
      BY <1>1, <1>3, <1>9, <1>10, <2>1 DEF PfType
    <2>3. PfControl'
      BY <1>1, <1>3, <1>4, <1>10 DEF PfControl, DrainLeaves
    <2>4. PfKept'
      BY <1>1, <1>3 DEF PfKept
    <2>5. PfLost' /\ PfDrained' /\ PfOut'
      BY <1>3, <1>4, <2>1 DEF PfLost, PfDrained, PfOut
    <2>6. QED
      BY <2>2, <2>3, <2>4, <2>5 DEF PfInv
  <1>11. CASE /\ pfChan' = [pfChan EXCEPT ![c] = @ \o SubSeq(pfRing[c], 1, n)]
              /\ pfAt' = NextAt(n)
              /\ UNCHANGED <<pfErr, pfFull, pfPhase>>
    <2>1. /\ pfChan' \in [PfChans -> Seq(Nat)] /\ pfChan'[c] = s \o SubSeq(r, 1, n)
          /\ \A d \in PfChans : d # c => pfChan'[d] = pfChan[d]
      BY <1>1, <1>7, <1>8, <1>11 DEF PfType
    <2>2. /\ pfAt' \in [chan : Nat \ {0}, reads : Nat]
          /\ \/ pfAt'.chan = c
             \/ pfAt'.chan = c + 1 /\ (n < PFBUFSZ \/ pfPhase = "pass")
      <3>1. c \in Nat \ {0} /\ pfAt.reads \in Nat /\ pfAt = [chan |-> c, reads |-> pfAt.reads]
        BY <1>1, <1>2 DEF PfType
      <3>2. CASE n < PFBUFSZ \/ (PassBounded /\ pfAt.reads + 1 = PFREADS)
        <4>1. pfAt' = [chan |-> c + 1, reads |-> 0]
          BY <1>2, <1>11, <3>2 DEF NextAt
        <4>2. c + 1 \in Nat \ {0}
          BY <3>1
        <4>3. QED
          BY <3>2, <4>1, <4>2 DEF PassBounded
      <3>3. CASE ~ (n < PFBUFSZ \/ (PassBounded /\ pfAt.reads + 1 = PFREADS))
        <4>1. pfAt' = [pfAt EXCEPT !.reads = @ + 1]
          BY <1>11, <3>3 DEF NextAt
        <4>2. pfAt' = [chan |-> c, reads |-> pfAt.reads + 1]
          BY <3>1, <4>1
        <4>3. pfAt.reads + 1 \in Nat
          BY <3>1
        <4>4. QED
          BY <3>1, <4>2, <4>3
      <3>4. QED
        BY <3>2, <3>3
    <2>3. PfType'
      BY <1>1, <1>3, <1>9, <1>11, <2>1, <2>2 DEF PfType
    <2>4. PfControl'
      BY <1>1, <1>3, <1>11 DEF PfControl
    <2>5. PfKept'
      BY <1>1, <1>3 DEF PfKept
    <2>6. PfLost'
      <3> SUFFICES ASSUME ~ pfRolling, ~ pfFull, NEW d \in PfChans
                   PROVE  pfChan'[d] \o pfRing'[d] = pfMade[d]
        BY <1>3, <1>11 DEF PfLost
      <3>1. pfChan[d] \o pfRing[d] = pfMade[d]
        BY <1>1, <1>4 DEF PfLost
      <3>2. CASE d = c
        BY <1>7, <1>8, <1>9, <2>1, <3>1, <3>2
      <3>3. CASE d # c
        BY <1>9, <2>1, <3>1, <3>3
      <3>4. QED
        BY <3>2, <3>3
    <2>7. PfDrained'
      <3>1. ASSUME pfPhase' = "drain", NEW d \in PfChans, d < pfAt'.chan  PROVE pfRing'[d] = <<>>
        <4>1. pfPhase = "drain" /\ d \in Nat /\ c \in Nat
          BY <1>11, <3>1, PfRecordAssumption DEF PfChans
        <4>2. CASE d = c
          <5>1. n < PFBUFSZ
            BY <2>2, <3>1, <4>1, <4>2
          <5>2. QED
            BY <1>6, <1>7, <1>8, <1>9, <4>2, <5>1
        <4>3. CASE d # c
          <5>1. d < c
            BY <2>2, <3>1, <4>1, <4>3
          <5>2. QED
            BY <1>1, <1>2, <1>9, <4>1, <4>3, <5>1 DEF PfDrained
        <4>4. QED
          BY <4>2, <4>3
      <3>2. pfPhase' \notin {"count", "write"} /\ pfExit' # 0
        BY <1>3, <1>4, <1>11
      <3>3. QED
        BY <3>1, <3>2 DEF PfDrained
    <2>8. PfOut'
      BY <1>3, <1>4, <1>11 DEF PfOut
    <2>9. QED
      BY <2>3, <2>4, <2>5, <2>6, <2>7, <2>8 DEF PfInv
  <1>12. QED
    BY <1>2, <1>10, <1>11

(* Each file is written from what was counted.                             *)
LEMMA WriteStep == PfInv /\ PfWrite => PfInv'
  <1> SUFFICES ASSUME PfInv, PfWrite PROVE PfInv'
    OBVIOUS
  <1>1. PfType /\ PfControl /\ PfKept /\ PfLost /\ PfDrained /\ PfOut
    BY DEF PfInv
  <1>2. /\ UNCHANGED <<pfPhase, pfRolling, pfActive, pfRing, pfMade, pfEvents, pfChan, pfFull, pfMix, pfExit>>
        /\ pfPhase = "write" /\ pfAt.chan <= PFCHANS /\ pfAt' = [pfAt EXCEPT !.chan = @ + 1]
        /\ \/ pfFile' = [pfFile EXCEPT ![pfAt.chan] = "whole"] /\ UNCHANGED pfErr
           \/ pfFile' = [pfFile EXCEPT ![pfAt.chan] = "failed"] /\ pfErr' = "error"
    BY DEF PfWrite, pfKernel
  <1>3. pfExit # 0 /\ pfErr' = "ok" => pfErr = "ok" /\ pfFile' = [pfFile EXCEPT ![pfAt.chan] = "whole"]
    BY <1>1, <1>2 DEF PfControl
  <1>4. /\ pfAt' \in [chan : Nat \ {0}, reads : Nat] /\ pfAt'.chan = pfAt.chan + 1
        /\ pfAt.chan \in Nat \ {0} /\ pfAt.chan \in PfChans /\ PFCHANS \in Nat
    <2>1. pfAt.chan \in Nat \ {0} /\ pfAt.reads \in Nat /\ pfAt = [chan |-> pfAt.chan, reads |-> pfAt.reads]
      BY <1>1 DEF PfType
    <2>2. pfAt' = [chan |-> pfAt.chan + 1, reads |-> pfAt.reads]
      BY <1>2, <2>1
    <2>3. pfAt.chan + 1 \in Nat \ {0} /\ PFCHANS \in Nat
      BY <2>1, PfRecordAssumption
    <2>4. pfAt.chan \in PfChans
      BY <1>2, <2>1, <2>3 DEF PfChans
    <2>5. QED
      BY <2>1, <2>2, <2>3, <2>4
  <1>5. PfType'
    <2>1. pfFile' \in [PfChans -> {"none", "whole", "failed"}] /\ pfErr' \in {"ok", "nospc", "error"}
      BY <1>1, <1>2, <1>4 DEF PfType
    <2>2. QED
      BY <1>1, <1>2, <1>4, <2>1 DEF PfType
  <1>6. PfControl'
    BY <1>1, <1>2 DEF PfControl
  <1>7. PfKept'
    BY <1>1, <1>2 DEF PfKept
  <1>11. pfExit # 0
    BY <1>1, <1>2 DEF PfControl
  <1>8. PfLost' /\ PfDrained'
    BY <1>1, <1>2, <1>3, <1>11 DEF PfLost, PfDrained
  <1>9. PfOut'
    <2>1. \A c \in PfChans : pfMix'[c] = prof_mixAdd(pfChan'[c])
      BY <1>1, <1>2 DEF PfOut
    <2>2. ASSUME pfErr' = "ok", NEW c \in PfChans, c < pfAt'.chan  PROVE pfFile'[c] = "whole"
      <3>1. pfErr = "ok" /\ pfFile' = [pfFile EXCEPT ![pfAt.chan] = "whole"]
        BY <1>3, <1>11, <2>2
      <3>2. CASE c = pfAt.chan
        BY <1>1, <3>1, <3>2 DEF PfType
      <3>3. CASE c # pfAt.chan
        <4>1. c < pfAt.chan
          BY <1>4, <2>2, <3>3 DEF PfChans
        <4>2. QED
          BY <1>1, <1>2, <3>1, <3>3, <4>1 DEF PfType, PfOut
      <3>4. QED
        BY <3>2, <3>3
    <2>3. QED
      BY <1>2, <1>11, <2>1, <2>2 DEF PfOut
  <1>10. QED
    BY <1>5, <1>6, <1>7, <1>8, <1>9 DEF PfInv

(* The steps of record between the drains.                                 *)
LEMMA RecordStep ==
  PfInv /\ (PfProcess \/ PfOpenFails \/ PfOpen \/ PfStart \/ PfPass \/ PfLoopEnds) => PfInv'
  <1> SUFFICES ASSUME PfInv, PfProcess \/ PfOpenFails \/ PfOpen \/ PfStart \/ PfPass \/ PfLoopEnds PROVE PfInv'
    OBVIOUS
  <1>1. PfType /\ PfControl /\ PfKept /\ PfLost /\ PfDrained /\ PfOut
    BY DEF PfInv
  <1>2. UNCHANGED <<pfRolling, pfRing, pfMade, pfEvents, pfChan, pfMix, pfFile>>
    BY DEF PfProcess, PfOpenFails, PfOpen, PfStart, PfPass, PfLoopEnds, pfKernel
  <1>3. PfKept'
    BY <1>1, <1>2 DEF PfKept
  <1>4. CASE PfProcess
    <2>1. UNCHANGED <<pfPhase, pfActive, pfAt, pfErr, pfFull, pfExit>>
      BY <1>4 DEF PfProcess
    <2>2. PfType' /\ PfControl' /\ PfLost' /\ PfDrained' /\ PfOut'
      BY <1>1, <1>2, <2>1 DEF PfType, PfControl, PfLost, PfDrained, PfOut
    <2>3. QED
      BY <1>3, <2>2 DEF PfInv
  <1>5. CASE PfOpenFails
    <2>1. UNCHANGED <<pfActive, pfAt, pfErr, pfFull>> /\ pfPhase \in {"open", "start"} /\ pfPhase' = "exited" /\ pfExit' = 1
      BY <1>5 DEF PfOpenFails
    <2>2. PfType' /\ PfControl'
      BY <1>1, <1>2, <2>1 DEF PfType, PfControl
    <2>3. PfLost'
      BY <1>1, <1>2, <2>1 DEF PfLost
    <2>4. PfDrained' /\ PfOut'
      <3>1. pfExit' # 0 /\ pfPhase' \notin {"drain", "count", "write"}
        BY <2>1
      <3>2. QED
        BY <3>1 DEF PfDrained, PfOut
    <2>5. QED
      BY <1>3, <2>2, <2>3, <2>4 DEF PfInv
  <1>6. CASE PfOpen
    <2>1. UNCHANGED <<pfActive, pfAt, pfErr, pfFull, pfExit>> /\ pfPhase = "open" /\ pfPhase' = "start"
      BY <1>6 DEF PfOpen
    <2>2. PfType' /\ PfControl'
      BY <1>1, <1>2, <2>1 DEF PfType, PfControl
    <2>3. PfLost' /\ PfDrained' /\ PfOut'
      BY <1>1, <1>2, <2>1 DEF PfLost, PfDrained, PfOut, PfControl
    <2>4. QED
      BY <1>3, <2>2, <2>3 DEF PfInv
  <1>7. CASE PfStart
    <2>1. /\ UNCHANGED <<pfAt, pfFull, pfExit>> /\ pfPhase = "start" /\ pfPhase' = "loop"
          /\ pfActive' = "running" /\ pfErr' \in {"ok", "error"}
      BY <1>7 DEF PfStart
    <2>2. PfType' /\ PfControl'
      BY <1>1, <1>2, <2>1 DEF PfType, PfControl
    <2>3. PfLost' /\ PfDrained' /\ PfOut'
      BY <1>1, <1>2, <2>1 DEF PfLost, PfDrained, PfOut, PfControl
    <2>4. QED
      BY <1>3, <2>2, <2>3 DEF PfInv
  <1>8. CASE PfPass
    <2>1. /\ UNCHANGED <<pfActive, pfErr, pfFull, pfExit>> /\ pfPhase = "loop" /\ pfPhase' = "pass"
          /\ pfErr = "ok" /\ pfAt' = [chan |-> 1, reads |-> 0]
      BY <1>8 DEF PfPass
    <2>2. PfType' /\ PfControl'
      BY <1>1, <1>2, <2>1 DEF PfType, PfControl
    <2>3. PfLost' /\ PfDrained' /\ PfOut'
      BY <1>1, <1>2, <2>1 DEF PfLost, PfDrained, PfOut, PfControl
    <2>4. QED
      BY <1>3, <2>2, <2>3 DEF PfInv
  <1>9. CASE PfLoopEnds
    <2>1. /\ UNCHANGED pfExit /\ pfPhase = "loop" /\ pfPhase' = (IF pfErr = "error" THEN "count" ELSE "drain")
          /\ pfActive' = "stopped" /\ pfAt' = [chan |-> 1, reads |-> 0]
          /\ pfFull' = (pfErr = "nospc") /\ pfErr' = (IF pfErr = "nospc" THEN "ok" ELSE pfErr)
      BY <1>9 DEF PfLoopEnds
    <2>2. pfExit' # 0 /\ pfPhase' \in {"count", "drain"} /\ pfErr' \in {"ok", "error"}
      BY <1>1, <2>1 DEF PfControl, PfType
    <2>3. PfType'
      BY <1>1, <1>2, <2>1, <2>2 DEF PfType
    <2>4. PfControl'
      BY <1>1, <2>1, <2>2 DEF PfControl, PfType
    <2>5. PfLost'
      <3>1. pfErr' = "ok" /\ ~ pfFull' => pfErr = "ok" /\ ~ pfFull
        BY <1>1, <2>1 DEF PfControl
      <3>2. QED
        BY <1>1, <1>2, <3>1 DEF PfLost
    <2>6. PfDrained'
      <3>1. pfPhase' = "count" => pfErr' # "ok"
        BY <2>1
      <3>2. \A c \in PfChans : ~ (c < pfAt'.chan)
        BY <2>1, PfRecordAssumption DEF PfChans
      <3>3. QED
        BY <2>2, <3>1, <3>2 DEF PfDrained
    <2>7. PfOut'
      BY <2>2 DEF PfOut
    <2>8. QED
      BY <1>3, <2>3, <2>4, <2>5, <2>6, <2>7 DEF PfInv
  <1>10. QED
    BY <1>4, <1>5, <1>6, <1>7, <1>8, <1>9

(* The count and the end.                                                  *)
LEMMA FinishStep == PfInv /\ (PfCount \/ PfEnds) => PfInv'
  <1> SUFFICES ASSUME PfInv, PfCount \/ PfEnds PROVE PfInv'
    OBVIOUS
  <1>1. PfType /\ PfControl /\ PfKept /\ PfLost /\ PfDrained /\ PfOut
    BY DEF PfInv
  <1>2. UNCHANGED <<pfRolling, pfRing, pfMade, pfEvents, pfChan, pfErr, pfFull, pfFile>>
    BY DEF PfCount, PfEnds, pfKernel
  <1>3. PfKept' /\ PfLost'
    BY <1>1, <1>2 DEF PfKept, PfLost
  <1>4. CASE PfCount
    <2>1. /\ UNCHANGED pfExit /\ pfPhase = "count" /\ pfPhase' = "write" /\ pfActive' = "finished"
          /\ pfAt' = [chan |-> 1, reads |-> 0] /\ pfMix' = [c \in PfChans |-> prof_mixAdd(pfChan[c])]
      BY <1>4 DEF PfCount
    <2>2. PfType' /\ PfControl'
      BY <1>1, <1>2, <2>1 DEF PfType, PfControl
    <2>3. PfDrained'
      BY <1>1, <1>2, <2>1 DEF PfDrained
    <2>4. PfOut'
      <3>1. \A c \in PfChans : ~ (c < pfAt'.chan)
        BY <2>1, PfRecordAssumption DEF PfChans
      <3>2. \A c \in PfChans : pfMix'[c] = prof_mixAdd(pfChan'[c])
        BY <1>2, <2>1
      <3>3. pfExit' # 0
        BY <1>1, <2>1 DEF PfControl
      <3>4. QED
        BY <3>1, <3>2, <3>3 DEF PfOut
    <2>5. QED
      BY <1>3, <2>2, <2>3, <2>4 DEF PfInv
  <1>5. CASE PfEnds
    <2>1. /\ UNCHANGED <<pfActive, pfAt, pfMix>> /\ pfPhase = "write" /\ pfAt.chan > PFCHANS
          /\ pfExit' = (IF pfErr = "ok" THEN 0 ELSE 1) /\ pfPhase' = "exited"
      BY <1>5 DEF PfEnds
    <2>2. PfType' /\ PfControl'
      BY <1>1, <1>2, <2>1 DEF PfType, PfControl
    <2>3. PfDrained'
      BY <1>1, <1>2, <2>1 DEF PfDrained
    <2>4. PfOut'
      <3>1. PFCHANS \in Nat /\ pfAt.chan \in Nat
        BY <1>1, PfRecordAssumption DEF PfType
      <3>2. \A c \in PfChans : c < pfAt.chan
        BY <2>1, <3>1 DEF PfChans
      <3>3. \A c \in PfChans : pfMix'[c] = prof_mixAdd(pfChan'[c])
        BY <1>1, <1>2, <2>1 DEF PfOut
      <3>4. pfExit' = 0 => \A c \in PfChans : pfFile'[c] = "whole"
        BY <1>1, <1>2, <2>1, <3>2 DEF PfOut
      <3>5. QED
        BY <2>1, <3>3, <3>4 DEF PfOut
    <2>5. QED
      BY <1>3, <2>2, <2>3, <2>4 DEF PfInv
  <1>6. QED
    BY <1>4, <1>5

(* Nothing is read or written before record starts.                        *)
LEMMA RecordInit == PfInit => PfInv
  <1> SUFFICES ASSUME PfInit PROVE PfInv
    OBVIOUS
  <1>1. /\ pfPhase = "open" /\ pfActive = "none" /\ pfErr = "ok" /\ pfFull = FALSE /\ pfExit = -1
        /\ pfAt = [chan |-> 1, reads |-> 0] /\ pfEvents = [c \in PfChans |-> 0] /\ pfFile = [c \in PfChans |-> "none"]
        /\ pfRing = [c \in PfChans |-> <<>>] /\ pfMade = pfRing /\ pfChan = pfRing
    BY DEF PfInit
  <1>2. <<>> \in Seq(Nat) /\ -1 # 0
    BY EmptySeq
  <1>3. PfType
    BY <1>1, <1>2 DEF PfType
  <1>4. PfControl
    BY <1>1, <1>2 DEF PfControl
  <1>5. \A c \in PfChans : pfRing[c] = <<>> /\ pfMade[c] = <<>> /\ pfChan[c] = <<>> /\ pfEvents[c] = 0
    BY <1>1
  <1>6. PfKept
    BY <1>5, FramedNone DEF PfKept
  <1>7. PfLost
    <2>1. <<>> \o <<>> = <<>>
      BY <1>2, ConcatEmptySeq
    <2>2. QED
      BY <1>5, <2>1 DEF PfLost
  <1>8. PfDrained /\ PfOut
    BY <1>1, <1>2 DEF PfDrained, PfOut
  <1>9. QED
    BY <1>3, <1>4, <1>6, <1>7, <1>8 DEF PfInv

(* A recording that is not reported as failed or cut short is all that the *)
(* kernel kept, with every event counted and nothing skipped.              *)
LEMMA InvIsComplete == PfInv => RecordingIsComplete
  <1> SUFFICES ASSUME PfInv PROVE RecordingIsComplete
    OBVIOUS
  <1>1. PfType /\ PfControl /\ PfKept /\ PfLost /\ PfDrained /\ PfOut
    BY DEF PfInv
  <1>2. ASSUME pfExit = 0, ~ pfRolling, ~ pfFull, NEW c \in PfChans
        PROVE  /\ pfChan[c] = pfMade[c] /\ pfFile[c] = "whole"
               /\ pfMix[c] = [events |-> pfEvents[c], skipped |-> 0]
    <2>1. pfErr = "ok"
      BY <1>1, <1>2 DEF PfControl
    <2>2. pfRing[c] = <<>> /\ pfChan[c] \o pfRing[c] = pfMade[c]
      BY <1>1, <1>2, <2>1 DEF PfDrained, PfLost
    <2>3. pfChan[c] \in Seq(Nat) /\ pfMade[c] \in Seq(Nat) /\ pfEvents[c] \in Nat
      BY <1>1 DEF PfType
    <2>4. pfChan[c] = pfMade[c]
      BY <2>2, <2>3, ConcatEmptySeq
    <2>5. prof_mixAdd(pfMade[c]) = [events |-> pfEvents[c], skipped |-> 0]
      BY <1>1, <2>3, CountsEvents DEF PfKept
    <2>6. pfMix[c] = prof_mixAdd(pfChan[c]) /\ pfFile[c] = "whole"
      BY <1>1, <1>2 DEF PfOut
    <2>7. QED
      BY <2>4, <2>5, <2>6
  <1>3. pfPhase = "exited" => pfActive \in {"none", "finished"}
    BY <1>1 DEF PfControl
  <1>4. QED
    BY <1>2, <1>3 DEF RecordingIsComplete

(* Whatever the kernel writes between the reads of record, and whatever    *)
(* looks like an event inside another one, a recording that ends with 0    *)
(* and was neither rolling nor full is complete, counted event by event    *)
(* and on the disk; and the kernel's trace does not outlive record.        *)
THEOREM RecordingKeepsAll == PfSpec => []RecordingIsComplete
  <1>1. PfInit => PfInv
    BY RecordInit
  <1>2. PfInv /\ [PfNext]_pfVars => PfInv'
    <2> SUFFICES ASSUME PfInv, [PfNext]_pfVars PROVE PfInv'
      OBVIOUS
    <2>1. CASE PfTrace
      BY <2>1, TraceStep
    <2>2. CASE PfProcess \/ PfOpenFails \/ PfOpen \/ PfStart \/ PfPass \/ PfLoopEnds
      BY <2>2, RecordStep
    <2>3. CASE DrainFull \/ DrainFails \/ DrainDone
      BY <2>3, LeaveStep
    <2>4. CASE DrainRead
      BY <2>4, ReadStep
    <2>5. CASE PfCount \/ PfEnds
      BY <2>5, FinishStep
    <2>6. CASE PfWrite
      BY <2>6, WriteStep
    <2>7. CASE UNCHANGED pfVars
      BY <2>7 DEF PfInv, PfType, PfControl, PfKept, PfLost, PfDrained, PfOut, pfVars, pfKernel
    <2>8. QED
      BY <2>1, <2>2, <2>3, <2>4, <2>5, <2>6, <2>7 DEF PfNext
  <1>3. PfInv => RecordingIsComplete
    BY InvIsComplete
  <1>4. QED
    BY <1>1, <1>2, <1>3, PTL DEF PfSpec
=============================================================================
