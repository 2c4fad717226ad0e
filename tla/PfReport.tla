------------------------------ MODULE PfReport ------------------------------
(***************************************************************************)
(* prof report: replays the merged events of a recording and tells which   *)
(* thread waited for what, who ended the wait, which server a message was  *)
(* waited on, and where the samples fell.                                  *)
(*                                                                         *)
(* The kernel (external) is the environment: its threads wait on futexes,  *)
(* send messages and serve them, and every event of theirs is replayed by  *)
(* process at once, in the order of its time stamp, unless the channel was *)
(* full and it was lost.  A wait is recorded when it begins (-b 0, with    *)
(* the scheduling events) or, deferred, when it has ended.                 *)
(***************************************************************************)
EXTENDS Integers, Sequences, FiniteSets, SequencesExt

CONSTANTS
  RPCLIENT,    \* threads that wait and send messages
  RPSERVER,    \* threads that serve them
  RPPORTS,     \* ports
  RPSTEPS,     \* bound: steps of the kernel
  RPLOST,      \* bound: events lost to a full channel
  NLONGEST,    \* entries of rep.longest
  RPCAP,       \* first capacity of a histogram
  RPKEYS       \* what a sample may be counted under

ASSUME PfReportAssumption == {NLONGEST, RPCAP} \subseteq Nat \ {0} /\ RPKEYS \subseteq Nat \ {0}

VARIABLES
  rpMode,   \* what was recorded: [deferred, sched, syscalls]
  rpK,      \* kernel: what every client is doing
  rpNow,    \* kernel: the time stamp
  rpLost,   \* events lost
  rpTruth,  \* history: the waits, with who really ended them and what was lost then
  rep,      \* the state of the report
  rpHist,   \* one hist_t
  rpSeen,   \* history: the keys of the samples
  rpDone    \* the report is printed

rpVars == <<rpMode, rpK, rpNow, rpLost, rpTruth, rep, rpHist, rpSeen, rpDone>>

NO_SYSCALL == -1
SysSend == 1
SysFutex == 2

(* thrGet: a thread the report has not met is zero but for these fields.   *)
NewThr == [syscall |-> NO_SYSCALL, msgMid |-> 0, msgPort |-> 0, waiting |-> FALSE, waitTs |-> 0, waitSyscall |-> 0,
           waitMid |-> 0, waitObj |-> 0, existing |-> FALSE, wakeCause |-> 0, waker |-> -1]

Running == [doing |-> "run", since |-> 0, port |-> 0, by |-> 0, existing |-> FALSE]

RpInit ==
  /\ rpMode \in {m \in [deferred : BOOLEAN, sched : BOOLEAN, syscalls : BOOLEAN] : m.deferred \/ m.sched}
  /\ rpK \in [RPCLIENT -> {Running, [Running EXCEPT !.doing = "existing", !.existing = TRUE]}]
  /\ rpNow = 1 /\ rpLost = 0 /\ rpTruth = {}
  /\ rep = [thr |-> [t \in RPCLIENT |-> NewThr], msgs |-> <<>>, waits |-> <<>>, edges |-> <<>>, longest |-> <<>>, nwaits |-> 0]
  /\ rpHist = [e |-> <<>>, n |-> 0] /\ rpSeen = [k \in RPKEYS |-> 0] /\ rpDone = FALSE

-----------------------------------------------------------------------------
(* The linear tables.                                                      *)

(* waitAgg, edgeGet: the entry of a key, made when there is none yet.      *)
Entry(table, key) == IF key \in DOMAIN table THEN table[key] ELSE [count |-> 0, total |-> 0, max |-> 0, last |-> -1]
Counted(table, key, us, waker) ==
  LET e == Entry(table, key)
      n == [count |-> e.count + 1, total |-> e.total + us, max |-> IF us > e.max THEN us ELSE e.max,
            last |-> IF waker > 0 THEN waker ELSE e.last]
  IN [k \in DOMAIN table \cup {key} |-> IF k = key THEN n ELSE table[k]]

(* msgFind: the last entry of a message, 0 when there is none.             *)
msgFind(msgs, mid) ==
  LET at == {i \in DOMAIN msgs : msgs[i].mid = mid} IN IF at = {} THEN 0 ELSE CHOOSE i \in at : \A j \in at : j <= i

(* msgDrop: the last entry takes the place of the one dropped.             *)
msgDrop(msgs, i) == Front([msgs EXCEPT ![i] = msgs[Len(msgs)]])

(* longestAdd: kept in falling order; a full list gives up its shortest.   *)
longestAdd(longest, l) ==
  LET longer == SelectSeq(longest, LAMBDA x : x.us >= l.us)
      rest == SubSeq(longest, Len(longer) + 1, Len(longest))
      all == longer \o <<l>> \o rest
  IN SubSeq(all, 1, IF Len(all) > NLONGEST THEN NLONGEST ELSE Len(all))

(* waitObject: what a wait is on, by its system call.                      *)
waitObject(t, mid, syscall, arg) == IF syscall = SysSend /\ mid # 0 THEN t.msgPort ELSE arg

EndServer(r, t) ==
  LET m == msgFind(r.msgs, t.waitMid) IN IF m # 0 /\ r.msgs[m].server > 0 THEN r.msgs[m].server ELSE t.waker

Ended_sticky(t) == [t EXCEPT !.waiting = FALSE]
Ended(t) == [t EXCEPT !.waiting = FALSE, !.wakeCause = -1, !.waker = -1]

(* waitEnd: the wait of tid is counted, its message's edge too, and the    *)
(* message is forgotten; open when it did not end before the trace.        *)
waitEnd(r, tid, ts, open) ==
  LET t == r.thr[tid]
      us == ts - t.waitTs
      m == msgFind(r.msgs, t.waitMid)
      waker == IF open THEN -1 ELSE t.waker
  IN [r EXCEPT
        !.waits = Counted(@, <<tid, t.waitSyscall, t.waitObj>>, us, waker),
        !.edges = IF t.waitMid # 0 THEN Counted(@, <<tid, EndServer(r, t), t.waitObj>>, us, -1) ELSE @,
        !.msgs = IF t.waitMid # 0 /\ m # 0 /\ ~ open THEN msgDrop(@, m) ELSE @,
        !.longest = longestAdd(@, [tid |-> tid, start |-> t.waitTs, us |-> us, waker |-> waker, open |-> open,
                                   existing |-> t.existing]),
        !.thr[tid] = Ended(t)]

-----------------------------------------------------------------------------
(* process, one case per event.                                            *)

OnSyscall(r, e) == [r EXCEPT !.thr[e.tid].syscall = e.syscall, !.thr[e.tid].msgMid = 0]

(* A thread_wait: one that was still open ends unexplained; a deferred one *)
(* ends at once, with the wakeup that came just before it.                 *)
OnWait(r, e) ==
  LET r1 == [r EXCEPT !.nwaits = @ + 1]
      r2 == IF r.thr[e.tid].waiting THEN waitEnd(r1, e.tid, e.ts, TRUE) ELSE r1
      t == r2.thr[e.tid]
      syscall == IF e.syscall # NO_SYSCALL THEN e.syscall ELSE IF e.existing THEN NO_SYSCALL ELSE t.syscall
      mid == IF syscall = SysSend THEN t.msgMid ELSE 0
      w == [t EXCEPT !.waiting = TRUE, !.existing = e.existing, !.waitSyscall = syscall, !.waitMid = mid,
                     !.waitTs = IF e.deferred THEN e.ts - e.blocked ELSE e.ts,
                     !.waitObj = waitObject(t, mid, syscall, e.arg)]
  IN IF e.deferred
     THEN waitEnd([r2 EXCEPT !.thr[e.tid] = w], e.tid, e.ts, e.open)
     ELSE [r2 EXCEPT !.thr[e.tid] = [w EXCEPT !.wakeCause = -1, !.waker = -1]]

OnWakeup(r, e) == [r EXCEPT !.thr[e.tid].waker = e.waker, !.thr[e.tid].wakeCause = e.cause]

(* A wakeup that ended no recorded wait is forgotten.                      *)
OnWaking(r, e) ==
  IF r.thr[e.tid].waiting THEN waitEnd(r, e.tid, e.ts, FALSE)
  ELSE [r EXCEPT !.thr[e.tid].wakeCause = -1, !.thr[e.tid].waker = -1]

OnMsgSend(r, e) ==
  LET m == [mid |-> e.mid, client |-> e.tid, server |-> -1, port |-> e.port]
      i == msgFind(r.msgs, e.mid)
  IN [r EXCEPT !.msgs = IF i = 0 THEN Append(@, m) ELSE [@ EXCEPT ![i] = m],
               !.thr[e.tid].msgMid = e.mid, !.thr[e.tid].msgPort = e.port]

OnMsgRecv(r, e) ==
  LET i == msgFind(r.msgs, e.mid) IN IF i = 0 THEN r ELSE [r EXCEPT !.msgs[i].server = e.server]

(* The message is kept when its client's wait is open: the wait ends with  *)
(* the wakeup that follows.                                                *)
OnMsgRespond(r, e) ==
  LET i == msgFind(r.msgs, e.mid)
      t == r.thr[r.msgs[i].client]
  IN IF i = 0 THEN r
     ELSE IF ~ t.waiting \/ t.waitMid # e.mid THEN [r EXCEPT !.msgs = msgDrop(@, i)]
     ELSE [r EXCEPT !.msgs[i].server = e.server]

process(r, e) ==
  CASE e.id = "syscall" -> OnSyscall(r, e)
    [] e.id = "wait"    -> OnWait(r, e)
    [] e.id = "wakeup"  -> OnWakeup(r, e)
    [] e.id = "waking"  -> OnWaking(r, e)
    [] e.id = "send"    -> OnMsgSend(r, e)
    [] e.id = "recv"    -> OnMsgRecv(r, e)
    [] e.id = "respond" -> OnMsgRespond(r, e)

-----------------------------------------------------------------------------
(* The kernel.  Its events carry the time of the step; a message is named  *)
(* by its client's buffer, so a client's next message has the same name.   *)

(* The events of a step reach the report, but for the ones lost (bound: a  *)
(* trace has samples or these; they share no state).                       *)
Replay(events, gone) ==
  /\ ~ rpDone /\ rpHist.n = 0 /\ rpNow < RPSTEPS /\ rpNow' = rpNow + 1
  /\ rpLost + Cardinality(gone) <= RPLOST /\ rpLost' = rpLost + Cardinality(gone)
  /\ rep' = FoldLeft(LAMBDA r, i : IF i \in gone THEN r ELSE process(r, events[i]), rep, [i \in DOMAIN events |-> i])
  /\ UNCHANGED <<rpMode, rpHist, rpSeen, rpDone>>

Emit(events) == \E gone \in SUBSET DOMAIN events : Replay(events, gone)

Wait(t, k, deferred, open) ==
  [id |-> "wait", tid |-> t, ts |-> rpNow, deferred |-> deferred, open |-> open, existing |-> k.existing,
   blocked |-> rpNow - k.since, arg |-> k.port,
   syscall |-> IF k.existing THEN NO_SYSCALL ELSE IF k.doing \in {"send", "served"} THEN SysSend ELSE SysFutex]
Begins(t, k) == IF rpMode.deferred THEN <<>> ELSE <<Wait(t, k, FALSE, FALSE)>>
Syscall(t, n) == IF rpMode.syscalls THEN <<[id |-> "syscall", tid |-> t, syscall |-> n]>> ELSE <<>>
Wakeup(t, by) == <<[id |-> "wakeup", tid |-> t, waker |-> by, cause |-> IF by = 0 THEN 1 ELSE 0]>>
Waking(t) == IF rpMode.sched THEN <<[id |-> "waking", tid |-> t, ts |-> rpNow]>> ELSE <<>>

(* A wait that was on when the trace started.                              *)
KExisting(t) ==
  /\ rpK[t].doing = "existing"
  /\ LET k == [rpK[t] EXCEPT !.doing = "futex", !.since = rpNow] IN rpK' = [rpK EXCEPT ![t] = k] /\ Emit(Begins(t, k))
  /\ UNCHANGED rpTruth

KFutex(t) ==
  /\ rpK[t].doing = "run"
  /\ LET k == [Running EXCEPT !.doing = "futex", !.since = rpNow]
     IN rpK' = [rpK EXCEPT ![t] = k] /\ Emit(Syscall(t, SysFutex) \o Begins(t, k))
  /\ UNCHANGED rpTruth

KSend(t) ==
  /\ rpK[t].doing = "run"
  /\ \E p \in RPPORTS :
       LET k == [Running EXCEPT !.doing = "send", !.since = rpNow, !.port = p]
       IN /\ rpK' = [rpK EXCEPT ![t] = k]
          /\ Emit(Syscall(t, SysSend) \o <<[id |-> "send", tid |-> t, mid |-> t, port |-> p]>> \o Begins(t, k))
  /\ UNCHANGED rpTruth

KRecv(t) ==
  /\ rpK[t].doing = "send"
  /\ rpK' = [rpK EXCEPT ![t].doing = "served"]
  /\ \E s \in RPSERVER : Emit(<<[id |-> "recv", mid |-> t, server |-> s]>>)
  /\ UNCHANGED rpTruth

(* The end of a wait: in deferred mode it is told when the thread runs.    *)
Ends(t, by, before) ==
  LET told == IF rpMode.deferred THEN Waking(t) \o Wakeup(t, by) \o <<Wait(t, rpK[t], TRUE, FALSE)>>
              ELSE Wakeup(t, by) \o Waking(t)
      events == before \o told \o Syscall(t, NO_SYSCALL)
  IN /\ rpK' = [rpK EXCEPT ![t] = Running]
     /\ \E gone \in SUBSET DOMAIN events :
          /\ Replay(events, gone)
          /\ rpTruth' = rpTruth \cup {[tid |-> t, start |-> rpK[t].since, us |-> rpNow - rpK[t].since, waker |-> by,
                                       port |-> rpK[t].port, lost |-> {events[i].id : i \in gone}]}

(* Another thread than the one that received a message may respond to it.  *)
KRespond(t) ==
  /\ rpK[t].doing = "served"
  /\ \E s \in RPSERVER : Ends(t, s, <<[id |-> "respond", mid |-> t, server |-> s]>>)

(* A futex is woken by a thread, or its time is up.                        *)
KWake(t) ==
  /\ rpK[t].doing = "futex"
  /\ \E by \in {0} \cup RPSERVER : Ends(t, by, <<>>)

(* In deferred mode the kernel writes the waits still on when it stops;    *)
(* the report ends the others at the last time stamp and is printed.       *)
RpClose ==
  /\ ~ rpDone /\ rpDone' = TRUE
  /\ LET open == {t \in RPCLIENT : rpK[t].doing \in {"futex", "send", "served"}}
         r1 == FoldSet(LAMBDA t, r : process(r, Wait(t, rpK[t], TRUE, TRUE)), rep, IF rpMode.deferred THEN open ELSE {})
     IN rep' = FoldSet(LAMBDA t, r : IF r.thr[t].waiting THEN waitEnd(r, t, rpNow, TRUE) ELSE r, r1, RPCLIENT)
  /\ UNCHANGED <<rpMode, rpK, rpNow, rpLost, rpTruth, rpHist, rpSeen>>

-----------------------------------------------------------------------------
(* The histogram of the samples: open addressing with linear probing.      *)

(* tableFind: the slot of a key, or the free one where the search stops.   *)
tableFind(e, key) ==
  LET cap == Len(e)
      slot(d) == ((key + d) % cap) + 1
      d == CHOOSE d \in 0 .. cap - 1 : /\ e[slot(d)].key \in {0, key}
                                       /\ \A x \in 0 .. d - 1 : e[slot(x)].key \notin {0, key}
  IN slot(d)

Grown(h) ==
  LET cap == IF h.e = <<>> THEN RPCAP ELSE 2 * Len(h.e)
      empty == [i \in 1 .. cap |-> [key |-> 0, count |-> 0]]
  IN FoldLeft(LAMBDA e, x : IF x.key = 0 THEN e ELSE [e EXCEPT ![tableFind(e, x.key)] = x], empty, h.e)

(* histAdd: the table doubles before it is more than half full.            *)
histAdd(h, key) ==
  LET e == IF 2 * (h.n + 1) > Len(h.e) THEN Grown(h) ELSE h.e
      i == tableFind(e, key)
  IN [e |-> [e EXCEPT ![i] = [key |-> key, count |-> @.count + 1]], n |-> h.n + IF e[i].key = 0 THEN 1 ELSE 0]

(* A thread_sample.                                                        *)
RpSample ==
  /\ ~ rpDone /\ rpNow = 1
  /\ \E k \in RPKEYS : /\ rpSeen[k] < 2 /\ rpSeen' = [rpSeen EXCEPT ![k] = @ + 1]
                       /\ rpHist' = histAdd(rpHist, k)
  /\ UNCHANGED <<rpMode, rpK, rpNow, rpLost, rpTruth, rep, rpDone>>

RpNext ==
  \/ \E t \in RPCLIENT : KExisting(t) \/ KFutex(t) \/ KSend(t) \/ KRecv(t) \/ KRespond(t) \/ KWake(t)
  \/ RpClose \/ RpSample

-----------------------------------------------------------------------------
(* What the report says of a wait is true of that wait: its start and its  *)
(* length, and its waker or none; never the waker of another wait, even    *)
(* when events were lost (process: "must not stick to the next one").  If  *)
(* nothing was lost every wait that ended names its waker, the edges name  *)
(* the thread that answered, and the longest waits are the longest ones.   *)
(*                                                                         *)
(* Two losses are too many for it.  A wait whose end was lost goes on to   *)
(* the next end of the thread when the wait in between was lost too.  And  *)
(* where waits are recorded deferred, a wakeup does stick when its         *)
(* thread_wait was lost, if nothing but the next wait's own wakeup (or     *)
(* waking, where that is recorded) would replace it and that is lost too.  *)
Sticks(w, waker) ==
  /\ rpMode.deferred /\ "wakeup" \in w.lost /\ (rpMode.sched => "waking" \in w.lost)
  /\ \E v \in rpTruth : v.tid = w.tid /\ v.start < w.start /\ "wait" \in v.lost /\ v.waker = waker

SaysTrue(w, l) ==
  \/ w.us = l.us /\ (l.waker = w.waker \/ (rpLost > 0 /\ l.waker = -1) \/ Sticks(w, l.waker))
  \/ ~ rpMode.deferred /\ "waking" \in w.lost

WaitsNameTheirWaker ==
  LET l == rep.longest
      count(table) == FoldFunction(LAMBDA e, sum : e.count + sum, 0, table)
      ends(i) == {w \in rpTruth : w.tid = l[i].tid /\ w.start = l[i].start}
  IN /\ \A i \in DOMAIN l : ~ l[i].open => \E w \in ends(i) : SaysTrue(w, l[i])
     /\ rpDone => count(rep.waits) = rep.nwaits
     /\ rpLost = 0 /\ ~ rpDone =>
          /\ \A e \in DOMAIN rep.edges :
               rep.edges[e].count = Cardinality({w \in rpTruth : w.tid = e[1] /\ w.waker = e[2] /\ w.port = e[3]})
          /\ \A w \in rpTruth : w.port # 0 => <<w.tid, w.waker, w.port>> \in DOMAIN rep.edges
          /\ Len(l) = IF Cardinality(rpTruth) < NLONGEST THEN Cardinality(rpTruth) ELSE NLONGEST
          /\ \A w \in rpTruth : \/ \E i \in DOMAIN l : l[i].tid = w.tid /\ l[i].start = w.start
                                \/ \A i \in DOMAIN l : l[i].us >= w.us

(* Every sample is counted once under its key, through every doubling of   *)
(* the table.                                                              *)
HistogramCounts ==
  \A k \in RPKEYS :
    LET at == {i \in DOMAIN rpHist.e : rpHist.e[i].key = k} IN
    rpSeen[k] = IF at = {} THEN 0 ELSE rpHist.e[tableFind(rpHist.e, k)].count

(* The report says what happened: both tables it is printed from.          *)
ReportIsTrue == WaitsNameTheirWaker /\ HistogramCounts
=============================================================================
