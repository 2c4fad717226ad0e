------------------------------ MODULE PshPing -------------------------------
(***************************************************************************)
(* The ping applet: echo requests, one at a time, and the search for the   *)
(* answer among all the ICMP packets the raw socket gets.  It runs inside  *)
(* the shell, so every ping of one shell sends the same identifier and the *)
(* same numbers.                                                           *)
(*                                                                         *)
(* The network and the host (external) lose, delay, duplicate, damage and  *)
(* cut packets, and bring those of others.  A packet remembers the request *)
(* it belongs to.  A byte has PGBYTE values, and the arithmetic of the     *)
(* checksum and of the sequence number is the code's at that width.        *)
(***************************************************************************)
EXTENDS Integers, Sequences, FiniteSets, SequencesExt

CONSTANTS
  PGBYTE,      \* values of a uint8_t
  PGID,        \* getpid() of the shell
  PgRequests,  \* command lines that are accepted, [v6, cnt, size]
  PGRUNS,      \* bound: pings in one shell
  PGFAULTS     \* bound: packets the network gets wrong

ASSUME PshPingAssumption ==
  /\ PGBYTE \in Nat \ {0, 1} /\ PGID \in 1 .. PGBYTE * PGBYTE - 1
  /\ \A r \in PgRequests :
       (* MAX_ECHO_PAYLOAD: no more words than uint16_t has values, besides *)
       (* the checksum.                                                     *)
       r.v6 \in BOOLEAN /\ r.cnt \in Nat \ {0} /\ r.size \in Nat /\ (r.size + 6) \div 2 <= PGBYTE * PGBYTE

VARIABLES
  pgReq,      \* the options
  pgPhase,    \* "start", "echo", "reply" or "done"
  pgRun,      \* number of the run
  pgSeq,      \* pingCommon.seq
  pgCnt,      \* pingCommon.cnt
  pgSum,      \* pingCommon.dataChksum, -1 when it is not ready
  pgNet,      \* packets under way, or in the socket and not read
  pgPrinted,  \* answers printed, in order
  pgSig,      \* psh_common.sigint
  pgFaults,   \* packets the network got wrong
  pgClean,    \* history: nothing has failed so far
  pgNoName,   \* history: the host has not been found
  pgExit      \* the exit code, -1 before

pgVars == <<pgReq, pgPhase, pgRun, pgSeq, pgCnt, pgSum, pgNet, pgPrinted, pgSig, pgFaults, pgClean, pgNoName, pgExit>>

PGWORD == PGBYTE * PGBYTE
ICMP_ECHOREPLY == 0
ICMP_ECHO == 1  \* a byte that is not ICMP_ECHOREPLY

PgInit ==
  /\ pgReq \in PgRequests
  /\ pgPhase = "start" /\ pgRun = 1 /\ pgSeq = 1 /\ pgCnt = 0 /\ pgSum = -1
  /\ pgNet = {} /\ pgPrinted = <<>> /\ pgSig = FALSE /\ pgFaults = 0 /\ pgClean = TRUE /\ pgNoName = FALSE
  /\ pgExit = -1

-----------------------------------------------------------------------------
(* Packets and their checksums.                                            *)

Payload(size) == [i \in 1 .. size |-> (i - 1) % PGBYTE]
Halves(w) == <<w \div PGBYTE, w % PGBYTE>>
(* The message with a checksum of 0.                                       *)
Message(type, id, seq, size) == <<type, 0, 0, 0>> \o Halves(id) \o Halves(seq) \o Payload(size)

Total(s) ==
  LET sum[i \in 0 .. Len(s)] == IF i = 0 THEN 0 ELSE sum[i - 1] + s[i]
  IN  sum[Len(s)]
Folded(sum) == (sum \div PGWORD) + (sum % PGWORD)

(* The last byte of an odd message is paired with the one behind the       *)
(* buffer, and then added once more.                                       *)
ping_chksum(data, behind) ==
  LET len == Len(data)
      pairs == [k \in 1 .. (len + 1) \div 2 |->
                  data[2 * k - 1] * PGBYTE + IF 2 * k <= len THEN data[2 * k] ELSE behind]
      sum == Total(pairs) + IF len % 2 # 0 THEN data[len] * PGBYTE ELSE 0
  IN PGWORD - 1 - (Folded(Folded(sum)) % PGWORD)

(* What the host expects and sends: the one's complement of the one's      *)
(* complement sum, the message padded with a zero.                         *)
RightChksum(data) ==
  LET sum == Total([i \in DOMAIN data |-> IF i % 2 = 1 THEN data[i] * PGBYTE ELSE data[i]]) % (PGWORD - 1)
  IN IF sum = 0 THEN 0 ELSE PGWORD - 1 - sum

Behind(size) == IF size % 2 = 0 THEN {0} ELSE 0 .. PGBYTE - 1

-----------------------------------------------------------------------------
(* ping_sendping4 and ping_sendping6.                                      *)

PgExits(code) == pgPhase' = "done" /\ pgExit' = code

(* No memory and no socket are a failure.  A name that is not found is one *)
(* for version 6; version 4 returns the code of getaddrinfo, which may be  *)
(* above 0, and that is a success.                                         *)
LookupExit(code) == IF pgReq.v6 \/ code < 0 THEN 1 ELSE 0

PgStart ==
  /\ pgPhase = "start"
  /\ pgSeq' = 1 /\ pgCnt' = pgReq.cnt /\ pgSum' = -1
  /\ \/ pgPhase' = "echo" /\ UNCHANGED <<pgClean, pgNoName, pgExit>>
     \/ PgExits(1) /\ pgClean' = FALSE /\ UNCHANGED pgNoName
     \/ (\E code \in {-1, 1} : PgExits(LookupExit(code))) /\ pgClean' = FALSE /\ pgNoName' = TRUE
  /\ UNCHANGED <<pgReq, pgRun, pgNet, pgPrinted, pgSig, pgFaults>>

(* The loop ends when all is sent and after Ctrl-C, which is a success.    *)
PgLoopEnds ==
  /\ pgPhase = "echo" /\ (pgCnt = 0 \/ pgSig)
  /\ PgExits(0)
  /\ UNCHANGED <<pgReq, pgRun, pgSeq, pgCnt, pgSum, pgNet, pgPrinted, pgSig, pgFaults, pgClean, pgNoName>>

(* ping_echo and ping_echo6.  The checksum of a version 6 message is the   *)
(* stack's; ping_echo6 keeps the one of the payload, computed once.        *)
PgRequest(chksum) ==
  [type |-> ICMP_ECHO, from |-> "us", id |-> PGID, seq |-> pgSeq % PGWORD, size |-> pgReq.size, short |-> FALSE,
   sum |-> chksum, run |-> pgRun, n |-> pgSeq, copy |-> 0]
OwnMessage == Message(ICMP_ECHO, PGID, pgSeq % PGWORD, pgReq.size)

PgEcho ==
  /\ pgPhase = "echo" /\ pgCnt > 0 /\ ~ pgSig
  /\ pgSeq' = pgSeq + 1
  /\ \E b \in Behind(pgReq.size) :
       LET sum == IF pgReq.v6 THEN RightChksum(OwnMessage) ELSE ping_chksum(OwnMessage, b) IN
       /\ pgSum' = IF pgReq.v6 /\ pgSum = -1 THEN ping_chksum(Payload(pgReq.size), b) ELSE pgSum
       /\ \/ pgNet' = pgNet \cup {PgRequest(sum)} /\ pgPhase' = "reply" /\ UNCHANGED <<pgClean, pgExit>>
          \/ PgExits(1) /\ pgClean' = FALSE /\ UNCHANGED pgNet
  /\ UNCHANGED <<pgReq, pgRun, pgCnt, pgPrinted, pgSig, pgFaults, pgNoName>>

-----------------------------------------------------------------------------
(* ping_reply and ping_reply6: what is done with a packet.                 *)

NotOurs(p) == p.id # PGID \/ p.type # ICMP_ECHOREPLY
OutOfSequence_never(p) == FALSE
OutOfSequence(p) == p.seq # IF pgReq.v6 THEN (pgSeq - 1) % PGWORD ELSE pgSeq - 1

Damaged(p, behind) ==
  IF pgReq.v6 THEN ping_chksum(Payload(p.size), behind) # pgSum
              ELSE p.sum # ping_chksum(Message(p.type, p.id, p.seq, p.size), behind)

Skipped(p) ==
  /\ ~ p.short
  /\ NotOurs(p) \/ (pgReq.v6 /\ p.from # "host")

Refused(p, behind) ==
  \/ p.short
  \/ ~ Skipped(p) /\ (p.from # "host" \/ OutOfSequence(p) \/ Damaged(p, behind))

(* The socket gets what comes from outside.                                *)
Arrived(p) == pgPhase = "reply" /\ p \in pgNet /\ p.from # "us"

PgSkips ==
  /\ \E p \in pgNet : Arrived(p) /\ Skipped(p) /\ pgNet' = pgNet \ {p}
  /\ UNCHANGED <<pgReq, pgPhase, pgRun, pgSeq, pgCnt, pgSum, pgPrinted, pgSig, pgFaults, pgClean, pgNoName, pgExit>>

(* Any answer that is wrong ends ping.                                     *)
PgRefuses ==
  /\ \E p \in pgNet : \E b \in Behind(pgReq.size) : Arrived(p) /\ Refused(p, b) /\ pgNet' = pgNet \ {p}
  /\ PgExits(1)
  /\ UNCHANGED <<pgReq, pgRun, pgSeq, pgCnt, pgSum, pgPrinted, pgSig, pgFaults, pgClean, pgNoName>>

PgAccepts ==
  /\ \E p \in pgNet : \E b \in Behind(pgReq.size) :
       /\ Arrived(p) /\ ~ Skipped(p) /\ ~ Refused(p, b)
       /\ pgNet' = pgNet \ {p} /\ pgPrinted' = Append(pgPrinted, p)
  /\ pgCnt' = pgCnt - 1
  /\ pgPhase' = "echo"
  /\ UNCHANGED <<pgReq, pgRun, pgSeq, pgSum, pgSig, pgFaults, pgClean, pgNoName, pgExit>>

(* recvfrom fails: nothing in time, or Ctrl-C.                             *)
PgTimeout ==
  /\ pgPhase = "reply"
  /\ PgExits(1) /\ pgClean' = FALSE
  /\ UNCHANGED <<pgReq, pgRun, pgSeq, pgCnt, pgSum, pgNet, pgPrinted, pgSig, pgFaults, pgNoName>>

-----------------------------------------------------------------------------
(* External: Ctrl-C, the host, the network, and the next ping of the shell,*)
(* for which what is under way has not got lost.                           *)

PgSignal ==
  /\ pgPhase \in {"echo", "reply"} /\ pgSig' = TRUE
  /\ UNCHANGED <<pgReq, pgPhase, pgRun, pgSeq, pgCnt, pgSum, pgNet, pgPrinted, pgFaults, pgClean, pgNoName, pgExit>>

AnswerTo(p) ==
  [p EXCEPT !.type = ICMP_ECHOREPLY, !.from = "host", !.sum = RightChksum(Message(ICMP_ECHOREPLY, p.id, p.seq, p.size))]

(* A message with a wrong checksum is not answered.                        *)
PgHost ==
  /\ \E p \in pgNet :
       /\ p.from = "us"
       /\ pgNet' = (pgNet \ {p}) \cup IF p.sum = RightChksum(Message(p.type, p.id, p.seq, p.size)) THEN {AnswerTo(p)} ELSE {}
  /\ UNCHANGED <<pgReq, pgPhase, pgRun, pgSeq, pgCnt, pgSum, pgPrinted, pgSig, pgFaults, pgClean, pgNoName, pgExit>>

PgNetwork ==
  /\ pgFaults < PGFAULTS /\ pgFaults' = pgFaults + 1
  /\ pgClean' = FALSE
  /\ \E p \in pgNet :
       \/ pgNet' = pgNet \ {p}
       \/ /\ p.from = "host"
          /\ \/ p.copy = 0 /\ pgNet' = pgNet \cup {[p EXCEPT !.copy = 1]}
             \/ pgNet' = (pgNet \ {p}) \cup {[p EXCEPT !.sum = (@ + 1) % PGWORD]}
             \/ pgNet' = (pgNet \ {p}) \cup {[p EXCEPT !.from = "other"]}
             \/ pgNet' = (pgNet \ {p}) \cup {[p EXCEPT !.short = TRUE]}
  /\ UNCHANGED <<pgReq, pgPhase, pgRun, pgSeq, pgCnt, pgSum, pgPrinted, pgSig, pgNoName, pgExit>>

(* The answers to another program, and requests somebody sends to us.      *)
PgOthers ==
  /\ pgPhase = "reply" /\ pgFaults < PGFAULTS /\ pgFaults' = pgFaults + 1
  /\ \E p \in {[PgRequest(0) EXCEPT !.from = "host", !.id = (PGID + 1) % PGWORD, !.type = ICMP_ECHOREPLY],
               [PgRequest(0) EXCEPT !.from = "host"]} : pgNet' = pgNet \cup {p}
  /\ UNCHANGED <<pgReq, pgPhase, pgRun, pgSeq, pgCnt, pgSum, pgPrinted, pgSig, pgClean, pgNoName, pgExit>>

PgAgain ==
  /\ pgPhase = "done" /\ pgRun < PGRUNS
  /\ pgPhase' = "start" /\ pgRun' = pgRun + 1 /\ pgPrinted' = <<>> /\ pgSig' = FALSE /\ pgNoName' = FALSE /\ pgExit' = -1
  /\ UNCHANGED <<pgReq, pgSeq, pgCnt, pgSum, pgNet, pgFaults, pgClean>>

PgNext ==
  \/ PgStart \/ PgLoopEnds \/ PgEcho \/ PgSkips \/ PgRefuses \/ PgAccepts \/ PgTimeout
  \/ PgSignal \/ PgHost \/ PgNetwork \/ PgOthers \/ PgAgain

PgSpec == PgInit /\ [][PgNext]_pgVars

-----------------------------------------------------------------------------
(* What ping prints is true: line n is an answer of the host to a request  *)
(* of the number n, however packets were delayed, repeated or damaged, and *)
(* a ping that succeeds and was not interrupted has printed one for each   *)
(* request.  If nothing went wrong it does not fail.  Excepted are what    *)
(* the code gets wrong: a version 4 ping that does not find its host and   *)
(* succeeds, having printed nothing; a payload of an odd size              *)
(* (ping_chksum); and more requests than a version 4 sequence number       *)
(* counts.  The answer may be to an earlier ping of the shell, which sent  *)
(* the same numbers.                                                       *)
PingIsTrue ==
  /\ \A i \in DOMAIN pgPrinted :
       pgPrinted[i].type = ICMP_ECHOREPLY /\ pgPrinted[i].from = "host" /\ pgPrinted[i].n % PGWORD = i % PGWORD
  /\ pgExit = 0 /\ ~ pgSig => Len(pgPrinted) = IF pgNoName THEN 0 ELSE pgReq.cnt
  /\ pgExit = 0 /\ pgNoName => ~ pgReq.v6
  /\ pgExit = 1 /\ pgReq.size % 2 = 0 /\ (pgReq.v6 \/ pgReq.cnt < PGWORD) => ~ pgClean
=============================================================================
