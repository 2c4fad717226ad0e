------------------------------- MODULE PshTop -------------------------------
(***************************************************************************)
(* The top applet: samples of the threads of the system, the loads between *)
(* two samples, their sums by process and by core, and the screen.  It     *)
(* runs inside the shell, which keeps its static variables from one top to *)
(* the next.                                                               *)
(*                                                                         *)
(* The kernel (external) starts, runs and ends threads between any two     *)
(* calls and may give a new thread the number of one that ended.  memcpy   *)
(* (external) copies upwards, which psh_top_refresh relies on where it     *)
(* moves the rest of the list down over itself.                            *)
(***************************************************************************)
EXTENDS Integers, Sequences, FiniteSets, SequencesExt

CONSTANTS
  TPTIDS,    \* numbers of threads
  TPPIDS,    \* processes
  TPCORES,   \* cores, from 0
  TPIDLE,    \* the thread "[idle]", which is always there, of process 0
  TpSystems, \* the threads there may be at the start
  TPMILLE,   \* parts a load is counted in
  TPLOAD,    \* load the kernel tells of a thread
  TPWORD,    \* values of an int
  TPMIN,     \* entries allocated at least (32)
  TPROW,     \* ws_row
  PSH_TOP_MAX_NCPU,
  TpOptions, \* [threads, ncpu] given on the command line
  TPSTEPS,   \* bound: steps of the kernel
  TPRUNS     \* bound: runs of top in one shell

ASSUME PshTopAssumption ==
  TPIDLE \in TPTIDS /\ 0 \notin TPPIDS /\ TPROW > 4 /\ {TPMILLE, TPMIN, TPWORD} \subseteq Nat \ {0}

VARIABLES
  tpSys,      \* kernel: the threads there are
  tpNow,      \* kernel: CLOCK_MONOTONIC
  tpGen,      \* kernel: threads started and steps made
  tpPhase,    \* "idle", "run", "sample" or "wait"
  tpRuns,     \* runs of top
  tpMode,     \* psh_top_common: [threads, sortdir, cmp, ncpu]
  tpN,        \* n
  tpPrev,     \* previnfo
  tpPrevcnt,  \* prevcnt
  tpTs,       \* ts
  tpTime,     \* prev_time
  tpFresh,    \* previnfo has not been written since it was allocated
  tpRows,     \* the list that is shown
  tpCores,    \* coreLoad
  tpScreen,   \* the lines below the header
  tpTerm,     \* "canon" or "raw"
  tpInfo,     \* history: the last sample
  tpWas,      \* history: the one before it
  tpDelta,    \* history: the time between the readings of the clock before them
  tpStale     \* history: loads were computed from memory that was never written

tpKernel == <<tpSys, tpNow, tpGen>>
tpShown == <<tpRows, tpCores, tpScreen, tpInfo, tpWas, tpDelta, tpStale>>
tpVars == <<tpKernel, tpPhase, tpRuns, tpMode, tpN, tpPrev, tpPrevcnt, tpTs, tpTime, tpFresh, tpShown, tpTerm>>

Thread(tid, pid, core, gen) ==
  [tid |-> tid, pid |-> pid, time |-> 0, core |-> core, load |-> TPLOAD, gen |-> gen]
TpLines == 5 .. TPROW
Cleared == [id |-> -1, cnt |-> 0, load |-> 0, time |-> 0]
DefaultMode == [threads |-> FALSE, sortdir |-> -1, cmp |-> "cpu", ncpu |-> 0]

TpInit ==
  /\ tpSys \in TpSystems /\ tpNow = 1 /\ tpGen = 0
  /\ tpPhase = "idle" /\ tpRuns = 0 /\ tpPrevcnt = 0 /\ tpTerm = "canon"
  /\ tpMode = DefaultMode /\ tpN = 0 /\ tpPrev = <<>> /\ tpTs = 0 /\ tpTime = 0 /\ tpFresh = TRUE
  /\ tpRows = <<>> /\ tpCores = [c \in TPCORES |-> 0] /\ tpScreen = [y \in TpLines |-> Cleared]
  /\ tpInfo = <<>> /\ tpWas = <<>> /\ tpDelta = 1 /\ tpStale = FALSE

-----------------------------------------------------------------------------
(* External: the kernel.  What it does before top begins is in TpSystems,  *)
(* and what it does after a key was read it could have done before.        *)

Alive(tid) == \E t \in tpSys : t.tid = tid
TpKernel(sys, ticks) ==
  /\ tpPhase \in {"sample", "wait"}
  /\ tpGen < TPSTEPS /\ tpGen' = tpGen + 1 /\ tpSys' = sys /\ tpNow' = tpNow + ticks
  /\ UNCHANGED <<tpPhase, tpRuns, tpMode, tpN, tpPrev, tpPrevcnt, tpTs, tpTime, tpFresh, tpShown, tpTerm>>

TpSpawn ==
  \E tid \in TPTIDS, pid \in TPPIDS :
    ~ Alive(tid) /\ TpKernel(tpSys \cup {Thread(tid, pid, 0, tpGen + 1)}, 0)

TpTick ==
  \E t \in tpSys, core \in TPCORES :
    (t.tid = TPIDLE => core = t.core) /\ TpKernel((tpSys \ {t}) \cup {[t EXCEPT !.time = @ + 1, !.core = core]}, 1)

TpThreadEnds == \E t \in tpSys : t.tid # TPIDLE /\ TpKernel(tpSys \ {t}, 0)

-----------------------------------------------------------------------------
(* psh_top: both buffers, the mode of the terminal.                        *)

Larger(a, b) == IF a > b THEN a ELSE b

TpBegin ==
  /\ tpPhase = "idle" /\ tpRuns < TPRUNS /\ tpRuns' = tpRuns + 1
  /\ \E o \in TpOptions :
       tpMode' = [DefaultMode EXCEPT !.threads = o.threads, !.ncpu = IF o.ncpu > PSH_TOP_MAX_NCPU THEN PSH_TOP_MAX_NCPU ELSE o.ncpu]
  /\ tpN' = Larger(Cardinality(tpSys) * 2, TPMIN)
  /\ tpTerm' = "raw" /\ tpPhase' = "run"
  /\ UNCHANGED <<tpKernel, tpPrev, tpPrevcnt, tpTs, tpTime, tpFresh, tpShown>>

(* The list and coreLoad are made anew by each refresh.                    *)
TpForgets ==
  /\ tpRows' = <<>> /\ tpCores' = [c \in TPCORES |-> 0]
  /\ tpWas' = <<>> /\ tpDelta' = 1 /\ tpStale' = FALSE

(* psh_top_free.  All but prevcnt is local to psh_top or set at its start. *)
TpFrees ==
  /\ tpPhase' = "idle" /\ tpTerm' = "canon"
  /\ tpMode' = DefaultMode /\ tpN' = 0 /\ tpPrev' = <<>> /\ tpTs' = 0 /\ tpTime' = 0 /\ tpFresh' = TRUE
  /\ TpForgets /\ tpScreen' = [y \in TpLines |-> Cleared] /\ tpInfo' = <<>>
  /\ UNCHANGED <<tpKernel, tpRuns, tpPrevcnt>>

(* A signal, or threadsinfo fails, or no memory for more threads.          *)
TpStops == tpPhase \in {"run", "sample"} /\ TpFrees

(* The clock is read before the threads are, and the kernel goes on in     *)
(* between and while the buffers grow.                                     *)
TpClock ==
  /\ tpPhase = "run" /\ tpNow > tpTime
  /\ tpTs' = tpNow /\ tpPhase' = "sample"
  /\ UNCHANGED <<tpKernel, tpRuns, tpMode, tpN, tpPrev, tpPrevcnt, tpTime, tpFresh, tpShown, tpTerm>>

TpGrows ==
  /\ tpPhase = "sample" /\ Cardinality(tpSys) >= tpN
  /\ tpN' = Cardinality(tpSys) * 2
  /\ UNCHANGED <<tpKernel, tpPhase, tpRuns, tpMode, tpPrev, tpPrevcnt, tpTs, tpTime, tpFresh, tpShown, tpTerm>>

-----------------------------------------------------------------------------
(* psh_top_refresh.                                                        *)

(* The load since the last sample, found by the number of the thread.      *)
LoadOf(e, prev, delta) ==
  LET at == SelectInSeq(prev, LAMBDA p : p.tid = e.tid)
  IN IF at = 0 THEN e.load
     ELSE IF e.time > prev[at].time THEN ((e.time - prev[at].time) * TPMILLE) \div delta ELSE 0

Loaded(info, prev, delta) == [i \in DOMAIN info |-> [info[i] EXCEPT !.load = LoadOf(info[i], prev, delta)]]

(* The core a thread ran on last; the idle thread is left out.             *)
TpSum(s) == FoldLeft(LAMBDA a, b : a + b, 0, s)
TpNcpu(info) ==
  LET seen == FoldLeft(Larger, 1, [i \in DOMAIN info |-> info[i].core + 1])
  IN IF tpMode.ncpu > 0 THEN tpMode.ncpu ELSE IF seen > PSH_TOP_MAX_NCPU THEN PSH_TOP_MAX_NCPU ELSE seen
CoreLoad(info) ==
  [c \in TPCORES |->
     IF c >= TpNcpu(info) THEN 0
     ELSE TpSum([i \in DOMAIN info |-> IF info[i].core = c /\ info[i].tid # TPIDLE THEN info[i].load ELSE 0])]

(* A list sorted by one column, in the direction of sortdir; equal rows    *)
(* are left as they were.  The values and their difference are made ints,  *)
(* and of a comparison that is no order qsort may make any list.           *)
Column(e) ==
  CASE tpMode.cmp = "cpu" -> e.load
    [] tpMode.cmp = "time" -> e.time
    [] tpMode.cmp \in {"pid", "mem"} -> e.id
AsInt(x) == ((x + TPWORD \div 2) % TPWORD) - TPWORD \div 2
InOrder(a, b) == AsInt(AsInt(AsInt(a) - AsInt(b)) * tpMode.sortdir) < 0
Sorted(rows) ==
  LET before(a, b) == InOrder(Column(a), Column(b))
      list == SortSeq(rows, before)
  IN IF \A i, j \in DOMAIN rows : i < j => ~ before(list[j], list[i]) THEN {list}
     ELSE {[i \in DOMAIN rows |-> rows[p[i]]] : p \in Permutations(DOMAIN rows)}

(* The threads of a process, which the sort by pid has made neighbours,    *)
(* become one entry.                                                       *)
AsRow(e) == [id |-> IF tpMode.threads THEN e.tid ELSE e.pid, cnt |-> 1, load |-> e.load, time |-> e.time]
Joined(rows, row) ==
  IF rows # <<>> /\ Last(rows).id = row.id
  THEN Append(Front(rows), [Last(rows) EXCEPT !.cnt = @ + 1, !.load = @ + row.load, !.time = @ + row.time])
  ELSE Append(rows, row)
Collapsed(info) ==
  LET rows == [i \in DOMAIN info |-> AsRow(info[i])]
  IN IF tpMode.threads THEN rows ELSE FoldLeft(Joined, <<>>, SortSeq(rows, LAMBDA a, b : InOrder(a.id, b.id)))

(* What is kept for the next time: the threads, not the processes.         *)
Kept_collapsed(info) ==
  LET rows == Collapsed(info)
  IN [i \in DOMAIN rows |-> [info[i] EXCEPT !.tid = rows[i].cnt, !.pid = rows[i].id, !.time = rows[i].time]]
Kept(info) == info

(* Rows are printed down to the last line of the terminal, and the lines   *)
(* that are left are cleared.                                              *)
Printed(rows) ==
  LET lines == IF 4 + Len(rows) < TPROW THEN 4 + Len(rows) ELSE TPROW
  IN [y \in TpLines |-> IF y <= lines THEN rows[y - 4] ELSE Cleared]

(* Memory that was not written matches or does not, with any time.         *)
Uninitialised == tpFresh /\ tpPrevcnt > 0
Guessed(info) == {[i \in DOMAIN info |-> [info[i] EXCEPT !.load = l]] : l \in {0, TPLOAD, TPMILLE}}

TpRefresh ==
  /\ tpPhase = "sample" /\ Cardinality(tpSys) < tpN
  /\ LET info == SetToSortSeq(tpSys, LAMBDA a, b : a.tid < b.tid)
         prev == SubSeq(tpPrev, 1, tpPrevcnt)
         delta == tpTs - tpTime
     IN \E loaded \in IF Uninitialised THEN Guessed(info) ELSE {Loaded(info, prev, delta)} :
        \E rows \in Sorted(Collapsed(loaded)) :
        /\ tpRows' = rows /\ tpScreen' = Printed(rows) /\ tpCores' = CoreLoad(loaded)
        /\ tpPrev' = Kept(loaded) /\ tpPrevcnt' = Len(Kept(loaded))
        /\ tpInfo' = info /\ tpWas' = tpInfo /\ tpDelta' = delta
  /\ tpStale' = Uninitialised /\ tpFresh' = FALSE /\ tpTime' = tpTs /\ tpPhase' = "wait"
  /\ UNCHANGED <<tpKernel, tpTs, tpRuns, tpMode, tpN, tpTerm>>

(* The key, if any: the mode of the next refresh.                          *)
Keyed(key) ==
  CASE key = "H" -> [tpMode EXCEPT !.threads = ~ @]
    [] key = "N" -> [tpMode EXCEPT !.cmp = "pid"]
    [] key = "P" -> [tpMode EXCEPT !.cmp = "cpu"]
    [] key = "M" -> [tpMode EXCEPT !.cmp = "mem"]
    [] key = "T" -> [tpMode EXCEPT !.cmp = "time"]
    [] key = "R" -> [tpMode EXCEPT !.sortdir = - @]
    [] OTHER -> tpMode

TpWaitcmd ==
  /\ tpPhase = "wait"
  /\ \E key \in {"none", "H", "N", "P", "M", "T", "R"} : tpMode' = Keyed(key)
  /\ tpPhase' = "run"
  /\ TpForgets
  /\ UNCHANGED <<tpKernel, tpRuns, tpN, tpPrev, tpPrevcnt, tpTs, tpTime, tpFresh, tpScreen, tpInfo, tpTerm>>

(* q, or the last of the iterations of -n.                                 *)
TpQuits == tpPhase = "wait" /\ TpFrees

TpNext ==
  \/ TpSpawn \/ TpTick \/ TpThreadEnds \/ TpBegin \/ TpStops \/ TpClock \/ TpGrows \/ TpRefresh \/ TpWaitcmd \/ TpQuits

-----------------------------------------------------------------------------
(* What the threads of a list have really used since the sample before: of *)
(* one that got the number of another, between nothing and all it has.     *)
Used(e, most) ==
  LET at == SelectInSeq(tpWas, LAMBDA w : w.tid = e.tid)
  IN CASE at = 0 -> e.load
       [] at # 0 /\ tpWas[at].gen = e.gen -> ((e.time - tpWas[at].time) * TPMILLE) \div tpDelta
       [] at # 0 /\ tpWas[at].gen # e.gen -> IF most THEN (e.time * TPMILLE) \div tpDelta ELSE 0
UsedBy(es, most) == TpSum([i \in DOMAIN es |-> Used(es[i], most)])

RowsAreTrue ==
  LET id(e) == IF tpMode.threads THEN e.tid ELSE e.pid
  IN /\ {r.id : r \in ToSet(tpRows)} = {id(e) : e \in ToSet(tpInfo)}
     /\ \A i, j \in DOMAIN tpRows : tpRows[i].id = tpRows[j].id => i = j
     /\ \A r \in ToSet(tpRows) :
          LET own == SelectSeq(tpInfo, LAMBDA e : id(e) = r.id) IN
          /\ r.cnt = Len(own) /\ r.time = TpSum([i \in DOMAIN own |-> own[i].time])
          /\ tpStale \/ r.load \in UsedBy(own, FALSE) .. UsedBy(own, TRUE)

(* The list is sorted, and the screen shows it and nothing older; the      *)
(* order is excepted when an int cannot hold a value of its column.        *)
ScreenIsList ==
  /\ (\A r \in ToSet(tpRows) : Column(r) < TPWORD \div 2) =>
       \A i, j \in DOMAIN tpRows : i < j => (Column(tpRows[i]) - Column(tpRows[j])) * tpMode.sortdir <= 0
  /\ \A y \in TpLines : tpScreen[y] = IF y - 4 \in DOMAIN tpRows THEN tpRows[y - 4] ELSE Cleared

(* The cores add up to the list without the idle thread.                   *)
IdleRow(r) == r.id = IF tpMode.threads THEN TPIDLE ELSE 0
CoresAddUp ==
  tpMode.ncpu = 0 =>
    TpSum([c \in 1 .. Cardinality(TPCORES) |-> tpCores[c - 1]]) =
      TpSum([i \in DOMAIN tpRows |-> IF IdleRow(tpRows[i]) THEN 0 ELSE tpRows[i].load])

(* While top waits it shows every process, or thread, once, with the time  *)
(* its threads have used and what they have used since the last refresh as *)
(* a share of the time between the readings of the clock, whatever         *)
(* threads came, went and took each other's numbers, and whichever keys    *)
(* were pressed; and the terminal is given back as it was.                 *)
(* Excepted are the loads of the first list of a top that is not the first *)
(* of its shell: prevcnt is static, and previnfo is not.                   *)
TopIsTrue ==
  /\ tpPhase = "wait" => RowsAreTrue /\ ScreenIsList /\ CoresAddUp
  /\ tpPhase = "idle" => tpTerm = "canon"
=============================================================================
