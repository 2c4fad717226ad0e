------------------------------ MODULE PfRecord ------------------------------
(***************************************************************************)
(* prof record: starts the kernel's trace, moves what the kernel buffers   *)
(* into memory while the trace runs and after it stopped, counts the       *)
(* events, and writes one file per channel.                                *)
(*                                                                         *)
(* A channel is a stream of cells; an event of n cells starts with the     *)
(* cell n, and its other cells are payload, which may look like the start  *)
(* of an event.  The kernel fills the channels while record drains them.   *)
(***************************************************************************)
EXTENDS Integers, Sequences, FiniteSets, SequencesExt

CONSTANTS
  PFCHANS,      \* nchans: the meta and the event channel of every CPU
  PFBUFSZ,      \* RECORD_BUFSZ, in cells
  PFREADS,      \* RECORD_PASS_READS
  PFLIMIT,      \* the -M limit, in cells
  PFRING,       \* cells the kernel buffers per channel
  PFRUN,        \* RESYNC_RUN
  PfShapes,     \* events the kernel may write, as sequences of cells
  PfMaxEvents,  \* bound: events of a recording
  PFPROCS,      \* processes that may be alive
  PFTHREADS,    \* RECORD_THREADS: entries a snapshot has room for
  PfMaps,       \* the files each process maps
  PFLIBS        \* the files found in the library directories (-L)

ASSUME PfRecordAssumption ==
  /\ {PFCHANS, PFBUFSZ, PFREADS, PFLIMIT, PFRING, PFRUN} \subseteq Nat \ {0}
  /\ \A e \in PfShapes : e \in Seq(Nat) /\ e # <<>> /\ e[1] = Len(e)

VARIABLES
  pfPhase,    \* where prof_record is
  pfRolling,  \* PERF_TRACE_FLAG_ROLLING
  pfActive,   \* the kernel's trace: "none", "running", "stopped" or "finished"
  pfRing,     \* kernel: what it buffers, per channel
  pfMade,     \* history: all the kernel kept, per channel
  pfEvents,   \* history: events written, per channel
  pfChan,     \* chans[].data
  pfAt,       \* record_drain: the channel and the reads done on it
  pfErr,      \* err: "ok", "nospc" or "error"
  pfFull,     \* full
  pfMix,      \* prof_mix_t: events and skipped cells, per channel
  pfFile,     \* the channel files: "none", "whole" or "failed"
  pfAlive,    \* processes alive
  pfInfo,     \* processes the info file lists
  pfOids,     \* record_oids_t: the files they map, each once
  pfPaths,    \* the files whose path the info file gives
  pfExit      \* the exit code, -1 before

pfKernel == <<pfRing, pfMade, pfEvents>>
pfVars == <<pfPhase, pfRolling, pfActive, pfKernel, pfChan, pfAt, pfErr, pfFull, pfMix, pfFile, pfAlive, pfInfo, pfOids, pfPaths, pfExit>>

PfChans == 1 .. PFCHANS
NoMix == [events |-> 0, skipped |-> 0]

PfInit ==
  /\ pfPhase = "open" /\ pfRolling \in BOOLEAN /\ pfActive = "none"
  /\ pfRing = [c \in PfChans |-> <<>>] /\ pfMade = pfRing /\ pfEvents = [c \in PfChans |-> 0]
  /\ pfChan = pfRing /\ pfAt = [chan |-> 1, reads |-> 0] /\ pfErr = "ok" /\ pfFull = FALSE
  /\ pfMix = [c \in PfChans |-> NoMix] /\ pfFile = [c \in PfChans |-> "none"]
  /\ pfAlive \in {a \in SUBSET PFPROCS : a # {}} /\ pfInfo = {} /\ pfOids = <<>> /\ pfPaths = {} /\ pfExit = -1

PfTotal == FoldSet(LAMBDA c, sum : Len(pfChan[c]) + sum, 0, PfChans)

-----------------------------------------------------------------------------
(* prof_evSize: the cells of the event at o, 0 when there is none or it is *)
(* cut off.                                                                *)
prof_evSize(s, o) == IF o + s[o] - 1 > Len(s) THEN 0 ELSE s[o]

(* prof_syncAt: an event starts at o if RESYNC_RUN events follow one       *)
(* another from there, or all the events up to the end do.  The cells have *)
(* no time: the test that it does not go back, which could only reject     *)
(* more places, is left out.                                               *)
prof_syncAt(s, o) ==
  LET runs[n \in 0 .. PFRUN] == [p \in 1 .. Len(s) + 1 |->
        \/ n = PFRUN
        \/ p = Len(s) + 1 /\ n > 0
        \/ n < PFRUN /\ p <= Len(s) /\ prof_evSize(s, p) > 0 /\ runs[n + 1][p + prof_evSize(s, p)]]
  IN runs[0][o]

(* prof_mixAdd: counts the events of a stream; where none can start, cells *)
(* are skipped until one can.                                              *)
prof_mixAdd(s) ==
  LET mix[p \in 1 .. Len(s) + 1] == [synced \in BOOLEAN |->
        IF p > Len(s) THEN NoMix
        ELSE IF (~ synced \/ prof_evSize(s, p) = 0) /\ ~ prof_syncAt(s, p)
             THEN [mix[p + 1][FALSE] EXCEPT !.skipped = @ + 1]
             ELSE [mix[p + prof_evSize(s, p)][TRUE] EXCEPT !.events = @ + 1]]
  IN mix[1][FALSE]

-----------------------------------------------------------------------------
(* The kernel, while the trace runs: an event goes to a channel.  A full   *)
(* channel discards it, or, rolling, gives up its oldest cells.            *)
PfWritten == FoldSet(LAMBDA c, sum : pfEvents[c] + sum, 0, PfChans)

PfTrace ==
  /\ pfActive = "running" /\ PfWritten < PfMaxEvents
  /\ \E c \in PfChans, e \in PfShapes :
       LET all == pfRing[c] \o e IN
       /\ pfRolling \/ Len(all) <= PFRING
       /\ pfRing' = [pfRing EXCEPT ![c] = SubSeq(all, 1 + IF Len(all) > PFRING THEN Len(all) - PFRING ELSE 0, Len(all))]
       /\ pfMade' = [pfMade EXCEPT ![c] = @ \o e]
       /\ pfEvents' = [pfEvents EXCEPT ![c] = @ + 1]
  /\ UNCHANGED <<pfPhase, pfRolling, pfActive, pfChan, pfAt, pfErr, pfFull, pfMix, pfFile, pfAlive, pfInfo, pfOids, pfPaths, pfExit>>

(* Processes come and go while the trace runs (bound: before the first     *)
(* cells are read).                                                        *)
PfProcess ==
  /\ pfActive = "running"
  /\ \E p \in PFPROCS : pfAlive' = IF p \in pfAlive THEN pfAlive \ {p} ELSE pfAlive \cup {p}
  /\ pfAlive' # {} /\ pfInfo # {} /\ pfChan = [c \in PfChans |-> <<>>]
  /\ UNCHANGED <<pfPhase, pfRolling, pfActive, pfKernel, pfChan, pfAt, pfErr, pfFull, pfMix, pfFile, pfInfo, pfOids, pfPaths, pfExit>>

(* record_maps: the files a process maps, record_oidAdd each one once.     *)
record_oidAdd(oids, f) == IF \E i \in DOMAIN oids : oids[i] = f THEN oids ELSE Append(oids, f)
record_maps(p, oids) == FoldSet(LAMBDA f, all : record_oidAdd(all, f), oids, PfMaps[p])

(* record_files: the paths of the mapped files, as far as they are in the  *)
(* library directories.                                                    *)
record_files(oids) == {oids[i] : i \in DOMAIN oids} \cap PFLIBS

(* record_processes: the processes alive now, as many as there is room     *)
(* for, with the files they map.                                           *)
record_processes ==
  \E listed \in SUBSET pfAlive :
    /\ Cardinality(listed) = IF Cardinality(pfAlive) < PFTHREADS THEN Cardinality(pfAlive) ELSE PFTHREADS
    /\ pfInfo' = pfInfo \cup listed
    /\ pfOids' = FoldSet(LAMBDA p, oids : record_maps(p, oids), pfOids, listed)

(* prof_record up to perf_start: the directory, the buffer, the info file  *)
(* with the first snapshot, then the trace; each may fail and ends it.     *)
PfOpenFails ==
  /\ pfPhase \in {"open", "start"} /\ pfPhase' = "exited" /\ pfExit' = 1
  /\ UNCHANGED <<pfRolling, pfActive, pfKernel, pfChan, pfAt, pfErr, pfFull, pfMix, pfFile, pfAlive, pfInfo, pfOids, pfPaths>>

PfOpen ==
  /\ pfPhase = "open" /\ record_processes /\ pfPhase' = "start"
  /\ UNCHANGED <<pfRolling, pfActive, pfKernel, pfChan, pfAt, pfErr, pfFull, pfMix, pfFile, pfAlive, pfPaths, pfExit>>

(* Without memory for the channels the loop is not entered.                *)
PfStart ==
  /\ pfPhase = "start" /\ pfActive' = "running" /\ pfPhase' = "loop"
  /\ pfErr' \in {"ok", "error"}
  /\ UNCHANGED <<pfRolling, pfKernel, pfChan, pfAt, pfFull, pfMix, pfFile, pfAlive, pfInfo, pfOids, pfPaths, pfExit>>

(* The loop: a pass of record_drain, unless rolling, then a sleep.  A      *)
(* signal and the deadline are looked at between passes.                   *)
PfPass ==
  /\ pfPhase = "loop" /\ pfErr = "ok" /\ ~ pfRolling
  /\ pfPhase' = "pass" /\ pfAt' = [chan |-> 1, reads |-> 0]
  /\ UNCHANGED <<pfRolling, pfActive, pfKernel, pfChan, pfErr, pfFull, pfMix, pfFile, pfAlive, pfInfo, pfOids, pfPaths, pfExit>>

PfLoopEnds ==
  /\ pfPhase = "loop"
  /\ pfFull' = (pfErr = "nospc") /\ pfErr' = (IF pfErr = "nospc" THEN "ok" ELSE pfErr)
  /\ pfActive' = "stopped" /\ pfAt' = [chan |-> 1, reads |-> 0]
  /\ pfPhase' = IF pfErr = "error" THEN "count" ELSE "drain"
  /\ UNCHANGED <<pfRolling, pfKernel, pfChan, pfMix, pfFile, pfAlive, pfInfo, pfOids, pfPaths, pfExit>>

-----------------------------------------------------------------------------
PassBounded_always == TRUE
PassBounded == pfPhase = "pass"

(* record_drain goes to the next channel after a read that did not fill    *)
(* the buffer and, in a bounded pass, after PFREADS reads.                 *)
NextAt(n) ==
  IF n < PFBUFSZ \/ (PassBounded /\ pfAt.reads + 1 = PFREADS)
  THEN [chan |-> pfAt.chan + 1, reads |-> 0]
  ELSE [pfAt EXCEPT !.reads = @ + 1]

DrainLeaves(err) ==
  /\ pfErr' = IF pfPhase = "drain" /\ err = "nospc" THEN "ok" ELSE err
  /\ pfFull' = (pfFull \/ (pfPhase = "drain" /\ err = "nospc"))
  /\ pfPhase' = IF pfPhase = "drain" THEN "count" ELSE "loop"

(* The recording's limit is checked before a read.                         *)
DrainFull ==
  /\ pfPhase \in {"pass", "drain"} /\ pfAt.chan <= PFCHANS /\ PfTotal + PFBUFSZ > PFLIMIT
  /\ DrainLeaves("nospc")
  /\ UNCHANGED <<pfRolling, pfActive, pfKernel, pfChan, pfAt, pfMix, pfFile, pfAlive, pfInfo, pfOids, pfPaths, pfExit>>

DrainFails ==
  /\ pfPhase \in {"pass", "drain"} /\ pfAt.chan <= PFCHANS /\ PfTotal + PFBUFSZ <= PFLIMIT
  /\ DrainLeaves("error")
  /\ UNCHANGED <<pfRolling, pfActive, pfKernel, pfChan, pfAt, pfMix, pfFile, pfAlive, pfInfo, pfOids, pfPaths, pfExit>>

DrainDone ==
  /\ pfPhase \in {"pass", "drain"} /\ pfAt.chan > PFCHANS
  /\ DrainLeaves("ok")
  /\ UNCHANGED <<pfRolling, pfActive, pfKernel, pfChan, pfAt, pfMix, pfFile, pfAlive, pfInfo, pfOids, pfPaths, pfExit>>

(* One perf_read and record_append; what was read is lost when there is no *)
(* memory to append it.                                                    *)
DrainRead ==
  /\ pfPhase \in {"pass", "drain"} /\ pfAt.chan <= PFCHANS /\ PfTotal + PFBUFSZ <= PFLIMIT
  /\ LET c == pfAt.chan
         n == IF Len(pfRing[c]) < PFBUFSZ THEN Len(pfRing[c]) ELSE PFBUFSZ
     IN /\ pfRing' = [pfRing EXCEPT ![c] = SubSeq(@, n + 1, Len(@))]
        /\ \/ /\ pfChan' = [pfChan EXCEPT ![c] = @ \o SubSeq(pfRing[c], 1, n)]
              /\ pfAt' = NextAt(n)
              /\ UNCHANGED <<pfErr, pfFull, pfPhase>>
           \/ /\ n > 0 /\ DrainLeaves("nospc") /\ UNCHANGED <<pfChan, pfAt>>
  /\ UNCHANGED <<pfRolling, pfActive, pfMade, pfEvents, pfMix, pfFile, pfAlive, pfInfo, pfOids, pfPaths, pfExit>>

(* perf_finish, and the mix of what is in memory.                          *)
PfCount ==
  /\ pfPhase = "count" /\ pfActive' = "finished" /\ pfPhase' = "write"
  /\ pfMix' = [c \in PfChans |-> prof_mixAdd(pfChan[c])] /\ pfAt' = [chan |-> 1, reads |-> 0]
  /\ UNCHANGED <<pfRolling, pfKernel, pfChan, pfErr, pfFull, pfFile, pfAlive, pfInfo, pfOids, pfPaths, pfExit>>

(* record_write: one file after the other; a failed one does not stop the  *)
(* others.                                                                 *)
PfWrite ==
  /\ pfPhase = "write" /\ pfAt.chan <= PFCHANS
  /\ \/ pfFile' = [pfFile EXCEPT ![pfAt.chan] = "whole"] /\ UNCHANGED pfErr
     \/ pfFile' = [pfFile EXCEPT ![pfAt.chan] = "failed"] /\ pfErr' = "error"
  /\ pfAt' = [pfAt EXCEPT !.chan = @ + 1]
  /\ UNCHANGED <<pfPhase, pfRolling, pfActive, pfKernel, pfChan, pfFull, pfMix, pfAlive, pfInfo, pfOids, pfPaths, pfExit>>

(* The second snapshot of the processes and the exit code.                 *)
PfEnds ==
  /\ pfPhase = "write" /\ pfAt.chan > PFCHANS
  /\ record_processes /\ pfPaths' = record_files(pfOids')
  /\ pfExit' = (IF pfErr = "ok" THEN 0 ELSE 1) /\ pfPhase' = "exited"
  /\ UNCHANGED <<pfRolling, pfActive, pfKernel, pfChan, pfAt, pfErr, pfFull, pfMix, pfFile, pfAlive>>

PfNext ==
  \/ PfTrace \/ PfProcess \/ PfOpenFails \/ PfOpen \/ PfStart \/ PfPass \/ PfLoopEnds
  \/ DrainFull \/ DrainFails \/ DrainDone \/ DrainRead \/ PfCount \/ PfWrite \/ PfEnds
PfSpec == PfInit /\ [][PfNext]_pfVars

-----------------------------------------------------------------------------
(* A recording that is neither rolling nor reported as cut short or failed *)
(* holds every cell the kernel kept, in its order, counts every event and  *)
(* skips nothing, whatever came in between the reads; and the trace is     *)
(* never left running in the kernel.                                       *)
RecordingIsComplete ==
  /\ (pfExit = 0 /\ ~ pfRolling /\ ~ pfFull) =>
        \A c \in PfChans : /\ pfChan[c] = pfMade[c] /\ pfFile[c] = "whole"
                           /\ pfMix[c] = [events |-> pfEvents[c], skipped |-> 0]
  /\ pfPhase = "exited" => pfActive \in {"none", "finished"}
=============================================================================
