------------------------------- MODULE LowMemD -------------------------------
(***************************************************************************)
(* The low memory monitor: a daemon that polls the free memory, reports    *)
(* its level, and below a reserve kills the largest process that may be    *)
(* killed, then waits for the memory to come back before the next kill.    *)
(*                                                                         *)
(* The processes it watches run between any two of its system calls: they  *)
(* start, start threads, grow, shrink and exit.  A scan is one such call   *)
(* for the threads and one for each process, so that what it compares was  *)
(* never true at one time.  Time is kept as what is left of the two        *)
(* deadlines (cooldownUntil, nextReport).                                  *)
(***************************************************************************)
EXTENDS Integers, Sequences, SequencesExt, FiniteSetsExt, Functions, Filter

CONSTANTS
  PidMax,       \* pids are 1 .. PidMax, given out in order
  Prog,         \* the program of each pid
  Self,         \* the daemon's own pid
  TOTAL,        \* units of memory
  WORD,         \* a byte count in meminfo_t wraps here
  MaxAnon,      \* bound: the most memory one process takes
  MaxThreads,   \* bound: threads in the system
  MaxGap,       \* bound: the longest time between two polls
  THREADS,      \* LOWMEMD_THREADS
  PROTECTED,    \* LOWMEMD_PROTECTED
  XNames,       \* the names given with -x, in order
  RESERVE, MINVICTIM, COOLDOWN, REPORT, WARNING, CRITICAL   \* -k -m -d -r -w -c

Pids == 1 .. PidMax

ASSUME LowMemAssumption ==
  /\ PidMax \in Nat /\ Self \in Pids /\ Pids \subseteq DOMAIN Prog
  /\ {TOTAL, MaxAnon, THREADS, PROTECTED, RESERVE, MINVICTIM, COOLDOWN, REPORT} \subseteq Nat
  /\ MaxGap \in Nat \ {0} /\ WORD \in Nat \ {0} /\ Len(XNames) \in Nat

NONE == 0         \* no process (the code's -1)
Kernel == 0       \* the pid of the kernel's own threads

VARIABLES
  table,      \* the kernel's threads, as threadsinfo() lists them
  anon,       \* anonymous memory of each process
  nextPid,    \* the pid the kernel gives out next
  dying,      \* processes that were sent SIGKILL and are not gone yet
  free,       \* lowmemd_common.free
  lastLevel, victim,
  cool,       \* time left until cooldownUntil
  rep,        \* time left until nextReport
  todo,       \* scan: the threads of processes that were not measured yet
  procs,      \* scan: lowmemd_common.procs[], largest first
  size,       \* scan: procs[].anon, by process
  lo,         \* history: the least a process that may be killed had since the list
  missed,     \* history: processes the scan was told less than the truth about
  pc

envVars == <<table, anon, nextPid, dying>>
scanVars == <<todo, procs, size, missed>>
daemonVars == <<free, lastLevel, victim, cool, rep, scanVars, pc>>
vars == <<envVars, daemonVars, lo>>

Live == ToSet(table) \ {Kernel}
NoSize == [p \in Pids |-> 0]
RealFree == TOTAL - SumFunctionOnSet(anon, Live)

Init ==
  /\ table = <<Kernel, 1, Self>>
  /\ anon = NoSize
  /\ nextPid = Max({1, Self}) + 1
  /\ dying = {}
  /\ free = TOTAL % WORD
  /\ lastLevel = "none" /\ victim = NONE
  /\ cool = 0 /\ rep = 0
  /\ todo = <<>> /\ procs = <<>> /\ size = NoSize /\ lo = NoSize /\ missed = {}
  /\ pc = "poll"

-----------------------------------------------------------------------------
(* The processes.  The memory of init and of the daemon itself is taken to *)
(* stay as it is from the start: neither may be killed.                    *)
Spawn ==
  /\ nextPid \in Pids /\ Len(table) < MaxThreads
  /\ table' = Append(table, nextPid)
  /\ nextPid' = nextPid + 1
  /\ UNCHANGED <<anon, dying>>

NewThread(p) ==
  /\ Len(table) < MaxThreads
  /\ table' = Append(table, p)
  /\ UNCHANGED <<anon, nextPid, dying>>

Grow(p) ==
  /\ anon[p] < MaxAnon /\ RealFree > 0
  /\ anon' = [anon EXCEPT ![p] = @ + 1]
  /\ UNCHANGED <<table, nextPid, dying>>

Shrink(p) ==
  /\ anon[p] > 0
  /\ anon' = [anon EXCEPT ![p] = @ - 1]
  /\ UNCHANGED <<table, nextPid, dying>>

(* A process ends, of itself or because it was killed.                     *)
Exit(p) ==
  /\ table' = Keep(table, ToSet(table) \ {p})
  /\ anon' = [anon EXCEPT ![p] = 0]
  /\ dying' = dying \ {p}
  /\ UNCHANGED nextPid

Process ==
  /\ \/ Spawn
     \/ \E p \in Live \ {1, Self} : NewThread(p) \/ Grow(p) \/ Shrink(p) \/ Exit(p)
  /\ lo' = [p \in Pids |-> IF anon'[p] < lo[p] THEN anon'[p] ELSE lo[p]]
  /\ UNCHANGED daemonVars

-----------------------------------------------------------------------------
(* One round of the insertion sort: p, of size z, goes before the smaller  *)
(* ones.  The code sorts when all are measured, in the order they were.    *)
InsertSorted(s, p, z) ==
  LET k == Cardinality({i \in 1 .. Len(s) : size[s[i]] >= z})
  IN  SubSeq(s, 1, k) \o <<p>> \o SubSeq(s, k + 1, Len(s))

(* Neither the daemon, nor init, nor a program named with -x may be killed *)
(* ("never kill a program of this name (repeatable)"); but names that find *)
(* no place in spared[] are dropped without a word.                        *)
MayBeKilled(p) ==
  p # Self /\ p # 1 /\ \A i \in 1 .. Len(XNames) : i <= PROTECTED => Prog[p] # XNames[i]

(* The names of -x that found a place in spared[].                         *)
Spared == {XNames[i] : i \in 1 .. IF Len(XNames) < PROTECTED THEN Len(XNames) ELSE PROTECTED}

isSpared(p) == p = Self \/ p = 1 \/ Prog[p] \in Spared

(* The loop over the sorted processes stops at the first small one.        *)
Choice_top(s) ==
  IF s = <<>> \/ isSpared(s[1]) \/ size[s[1]] < MINVICTIM THEN NONE ELSE s[1]

Choice_last(s) ==
  LET small == {i \in 1 .. Len(s) : size[s[i]] < MINVICTIM}
      ok    == {i \in 1 .. Len(s) : ~isSpared(s[i]) /\ \A j \in small : i < j}
  IN  IF ok = {} THEN NONE ELSE s[Max(ok)]

Choice(s) ==
  LET small == {i \in 1 .. Len(s) : size[s[i]] < MINVICTIM}
      ok    == {i \in 1 .. Len(s) : ~isSpared(s[i]) /\ \A j \in small : i < j}
  IN  IF ok = {} THEN NONE ELSE s[Min(ok)]

level(f) == IF f < CRITICAL THEN "critical" ELSE IF f < WARNING THEN "warning" ELSE "normal"

(* One round of main's loop, up to the decision to kill: the level is      *)
(* reported when it changed or a report is due, the last kill is accounted *)
(* for once its cooldown is over.                                          *)
Poll_killsFirst ==
  /\ pc = "poll"
  /\ free' = RealFree % WORD
  /\ lastLevel' = level(free')
  /\ rep' = IF REPORT # 0 /\ rep = 0 THEN REPORT ELSE rep
  /\ LET act == RESERVE # 0 /\ free' < RESERVE /\ cool = 0
     IN  /\ pc' = IF act THEN "scan" ELSE "sleep"
         /\ victim' = IF cool = 0 /\ ~act THEN NONE ELSE victim
  /\ UNCHANGED <<cool, scanVars>>

Poll ==
  /\ pc = "poll"
  /\ free' = RealFree % WORD
  /\ lastLevel' = level(free')
  /\ rep' = IF REPORT # 0 /\ rep = 0 THEN REPORT ELSE rep
  /\ victim' = IF cool = 0 THEN NONE ELSE victim
  /\ pc' = IF RESERVE # 0 /\ free' < RESERVE /\ cool = 0 THEN "scan" ELSE "sleep"
  /\ UNCHANGED <<cool, scanVars>>

(* meminfo() did nothing: the round is skipped.                            *)
PollFails ==
  /\ pc = "poll"
  /\ pc' = "sleep"
  /\ UNCHANGED <<free, lastLevel, victim, cool, rep, scanVars>>

(* What main does whatever lowmemd_killLargest returned; what the scan     *)
(* found is not used again.                                                *)
Attempted(p) ==
  /\ victim' = p /\ cool' = COOLDOWN /\ pc' = "sleep"
  /\ todo' = <<>> /\ procs' = <<>> /\ size' = NoSize /\ missed' = {} /\ lo' = NoSize

(* lowmemd_scan.  The threads there are; a table that is full drops the    *)
(* rest.  The kernel's own threads are left out.                           *)
Listed == SubSeq(table, 1, IF Len(table) > THREADS THEN THREADS ELSE Len(table))

List ==
  /\ pc = "scan"
  /\ todo' = Keep(Listed, Pids) /\ missed' = Live \ ToSet(Listed)
  /\ lo' = [p \in Pids |-> IF MayBeKilled(p) THEN anon[p] ELSE 0] /\ pc' = "measure"
  /\ UNCHANGED <<free, lastLevel, victim, cool, rep, procs, size>>

ScanFails ==
  /\ pc = "scan"
  /\ Attempted(NONE)
  /\ UNCHANGED <<free, lastLevel, rep>>

(* lowmemd_processAnon of the next process, which is measured at the first *)
(* of its threads and is told to have z.                                   *)
Measure(p, z) ==
  /\ pc = "measure" /\ todo # <<>> /\ p = Head(todo)
  /\ todo' = Keep(Tail(todo), Pids \ {p})
  /\ procs' = InsertSorted(procs, p, z) /\ size' = [size EXCEPT ![p] = z]
  /\ UNCHANGED <<free, lastLevel, victim, cool, rep, lo, pc>>

MeasureWhole(p) == Measure(p, anon[p]) /\ UNCHANGED missed

(* meminfo() fails and the process counts as nothing, or it has more map   *)
(* entries than LOWMEMD_ENTRIES and only the first are added up.           *)
MeasureShort(p) ==
  \E z \in 0 .. anon[p] - 1 : Measure(p, z) /\ missed' = missed \cup {p}

(* The rest of lowmemd_killLargest.  The process may have ended since it   *)
(* was measured, or there is none to kill.                                 *)
Kill ==
  /\ pc = "measure" /\ todo = <<>>
  /\ IF Choice(procs) \in Live
     THEN /\ dying' = dying \cup {Choice(procs)}
          /\ Attempted(Choice(procs))
     ELSE Attempted(NONE) /\ UNCHANGED dying
  /\ UNCHANGED <<table, anon, nextPid, free, lastLevel, rep>>

Left(t, dt) == IF t > dt THEN t - dt ELSE 0

Sleep(dt) ==
  /\ pc = "sleep"
  /\ cool' = Left(cool, dt) /\ rep' = Left(rep, dt)
  /\ pc' = "poll"
  /\ UNCHANGED <<free, lastLevel, victim, scanVars>>

PollStep == Poll /\ UNCHANGED <<envVars, lo>>
ListStep == List /\ UNCHANGED envVars
WholeStep(p) == MeasureWhole(p) /\ UNCHANGED envVars
MeasureStep == \E p \in Pids : WholeStep(p) \/ (MeasureShort(p) /\ UNCHANGED envVars)
SleepStep == (\E dt \in 1 .. MaxGap : Sleep(dt)) /\ UNCHANGED <<envVars, lo>>
FailStep == ((PollFails /\ UNCHANGED lo) \/ ScanFails) /\ UNCHANGED envVars

Daemon ==
  PollStep \/ ListStep \/ MeasureStep \/ FailStep \/ Kill \/ SleepStep

Next == Process \/ Daemon

Spec == Init /\ [][Next]_vars

(* The daemon is scheduled, neither call fails for ever, and no process    *)
(* that may be killed has too many map entries for ever.                   *)
FairSpec ==
  /\ Spec /\ SF_vars(PollStep) /\ SF_vars(ListStep)
  /\ WF_vars(MeasureStep) /\ WF_vars(Kill) /\ WF_vars(SleepStep)
  /\ \A p \in {q \in Pids : MayBeKilled(q)} : SF_vars(WholeStep(p))

-----------------------------------------------------------------------------
(* The process killed is there and had the minimum when it was measured,   *)
(* and no process that may be killed had more than that all the time from  *)
(* the list of the threads to the kill, although processes grow, shrink,   *)
(* start and end while they are measured one after the other, the threads  *)
(* are listed in any order, a process once per thread, and the search      *)
(* stops at the first process below the minimum.  Excepted are the         *)
(* processes the kernel told less about than they had.                     *)
VictimIsLargest ==
  [][victim' \notin {victim, NONE} =>
       /\ victim' \in Live /\ MayBeKilled(victim') /\ size[victim'] >= MINVICTIM
       /\ \A p \in Pids : MayBeKilled(p) /\ p \notin missed /\ lo[p] >= MINVICTIM => lo[p] <= size[victim']]_vars

(* Before another process is killed the last kill has been accounted for:  *)
(* its after-kill line is not lost by overwriting victim.                  *)
KillIsAccountedFor == pc \in {"scan", "measure"} => victim = NONE

(* While the memory stays below the reserve and one process stays large    *)
(* enough to be killed, whatever the others do, kill() is called in the    *)
(* end, or a process that was killed before has not gone yet.  The threads *)
(* must fit in the daemon's table.                                         *)
KillIsDue(p) ==
  /\ RealFree < RESERVE /\ dying = {} /\ Len(table) <= THREADS
  /\ p \in Live /\ MayBeKilled(p) /\ anon[p] >= MINVICTIM
Kills == pc = "measure" /\ todo = <<>> /\ Choice(procs) # NONE

LowMemoryIsActedOn == \A p \in Pids : []<>(Kills \/ ~KillIsDue(p))
=============================================================================
