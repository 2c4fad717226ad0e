------------------------------- MODULE PshNtp -------------------------------
(***************************************************************************)
(* The ntpclient applet: one exchange with one of the servers a name       *)
(* resolves to, repeated until the clock is set or the window of -w is     *)
(* over.  The time is that of time(NULL), in seconds since the start; the  *)
(* servers and the network are external.                                   *)
(***************************************************************************)
EXTENDS Integers, Sequences, FiniteSets, SequencesExt

CONSTANTS
  NTP_RETRY_INTERVAL_S,  \* sleep between two attempts
  NTP_JAN1970_DELTA,     \* seconds from the epoch of NTP to that of the system
  SNWORD,                \* values of a uint32_t that counts seconds
  SnRequests,            \* [arg, conf, servers, timeout, window, base, frac]
  SNINTR,                \* bound: signals that interrupt a read or a write
  SNBLOCK                \* bound: seconds one call that no timeout bounds may take

(* A name that resolves has an address; a fraction of a second has 32      *)
(* bits, and the lower 10 are dropped.                                     *)
ASSUME PshNtpAssumption ==
  /\ {NTP_RETRY_INTERVAL_S, NTP_JAN1970_DELTA, SNWORD} \subseteq Nat \ {0} /\ NTP_JAN1970_DELTA < SNWORD
  /\ SNBLOCK \in Nat
  /\ \A r \in SnRequests :
       /\ r.timeout \in Nat /\ r.window \in Nat /\ r.base \in Nat /\ r.frac \in Nat /\ r.frac < 4194304
       /\ \A h \in {"arg", "conf", "pool.ntp.org"} : r.servers[h] \in Seq({"good", "bad"}) \ {<<>>}

VARIABLES
  snReq,       \* the options, ntp.conf, and what the servers are like
  snPhase,     \* "start", "connect", "send", "receive", "set", "failed" or "done"
  snNow,       \* time(NULL)
  snDeadline,  \* deadline
  snAttempt,   \* attempt
  snServer,    \* the server connected to, 0 when the descriptor is none of a socket
  snTried,     \* history: servers asked
  snIntr,      \* interrupted calls
  snDown,      \* history: an attempt failed before a server was asked
  snBlocked,   \* history: seconds spent in calls that no timeout bounds
  snStamp,     \* history: when the server stamped its answer, when the request was sent before
  snClock,     \* what settimeofday was given, NotSet before
  snExit       \* the exit code, -1 before

snVars == <<snReq, snPhase, snNow, snDeadline, snAttempt, snServer, snTried, snIntr, snDown, snBlocked,
            snStamp, snClock, snExit>>

NotSet == [sec |-> -1, usec |-> -1]

SnInit ==
  /\ snReq \in SnRequests
  /\ snPhase = "start" /\ snNow = 0 /\ snDeadline = 0 /\ snAttempt = 0 /\ snServer = 0
  /\ snTried = {} /\ snIntr = 0 /\ snDown = FALSE /\ snBlocked = 0 /\ snStamp = 0
  /\ snClock = NotSet /\ snExit = -1

-----------------------------------------------------------------------------
(* ntpclient_confServer: the first piece of the file that fgets returns    *)
(* and that is no comment and not empty decides.                           *)
confServer(conf) ==
  LET lines == SelectSeq(conf, LAMBDA l : l \notin {"comment", "blank"})
  IN lines # <<>> /\ lines[1] = "host"

ntp_host == IF snReq.arg THEN "arg" ELSE IF confServer(snReq.conf) THEN "conf" ELSE "pool.ntp.org"
SnServers == snReq.servers[ntp_host]

SnStart ==
  /\ snPhase = "start"
  /\ snDeadline' = snNow + snReq.window
  /\ snPhase' = "connect"
  /\ UNCHANGED <<snReq, snNow, snAttempt, snServer, snTried, snIntr, snDown, snBlocked, snStamp, snClock,
                 snExit>>

(* ntpclient_connect: each attempt takes the next address.                 *)
NextServer_first == 1
NextServer == (snAttempt % Len(SnServers)) + 1

(* The lookup of getaddrinfo waits for DNS, and no timeout of a socket     *)
(* bounds it.                                                              *)
Blocks == \E d \in 0 .. SNBLOCK : snNow' = snNow + d /\ snBlocked' = snBlocked + d

(* A negative code is a failure, a positive one of getaddrinfo is taken    *)
(* for the descriptor of a socket.                                         *)
SnConnects ==
  /\ snPhase = "connect"
  /\ snAttempt' = snAttempt + 1
  /\ Blocks
  /\ \/ snServer' = NextServer /\ snPhase' = "send" /\ UNCHANGED snDown
     \/ snServer' = 0 /\ snPhase' = "send" /\ snDown' = TRUE
     \/ snPhase' = "failed" /\ snDown' = TRUE /\ UNCHANGED snServer  \* no name, no socket
  /\ snStamp' = 0
  /\ UNCHANGED <<snReq, snDeadline, snTried, snIntr, snClock, snExit>>

(* A call that is interrupted is made again and waits anew.                *)
SnInterrupted ==
  /\ snPhase \in {"send", "receive"} /\ snIntr < SNINTR /\ snIntr' = snIntr + 1
  /\ \E d \in 0 .. snReq.timeout + SNBLOCK : snNow' = snNow + d /\ snBlocked' = snBlocked + d
  /\ UNCHANGED <<snReq, snPhase, snDeadline, snAttempt, snServer, snTried, snDown, snStamp, snClock, snExit>>

(* A timeout of 0 is none at all, and only a socket has one.               *)
Bounded == snServer # 0 /\ snReq.timeout > 0
Waits ==
  \/ Bounded /\ (\E d \in 0 .. snReq.timeout : snNow' = snNow + d) /\ UNCHANGED snBlocked
  \/ ~ Bounded /\ Blocks

(* ntpclient_gettimepacket.  Of a descriptor that is none of a socket      *)
(* nothing is known but that no server is asked.                           *)
SnSends ==
  /\ snPhase = "send"
  /\ snTried' = snTried \cup ({snServer} \ {0})
  /\ Waits
  /\ \/ snPhase' = "receive" /\ snStamp' = snNow
     \/ snPhase' = "failed" /\ UNCHANGED snStamp
  /\ UNCHANGED <<snReq, snDeadline, snAttempt, snServer, snIntr, snDown, snClock, snExit>>

(* No answer in time, a short one, a mode that is no server's, stratum 16  *)
(* and an error of read fail at once; of the servers only a good one leads *)
(* to a clock that is set.  It stamps its answer between the request and   *)
(* the arrival.                                                            *)
SnReceives ==
  /\ snPhase = "receive"
  /\ Waits
  /\ \/ snPhase' = "failed" /\ snStamp' = 0
     \/ /\ snServer # 0 => SnServers[snServer] = "good"
        /\ snPhase' = "set"
        /\ snStamp' \in snStamp .. snNow'
  /\ UNCHANGED <<snReq, snDeadline, snAttempt, snServer, snTried, snIntr, snDown, snClock, snExit>>

-----------------------------------------------------------------------------
(* ntpclient_settime, some time after the answer came in.  The fraction x  *)
(* is given by x >> 10.                                                    *)
FRAC_TO_USEC(x10) == (x10 \div 4) - 759 * ((x10 + 32768) \div 65536)

txTm_sec == (snReq.base + snStamp + NTP_JAN1970_DELTA) % SNWORD

SnSets ==
  /\ snPhase = "set"
  /\ Blocks
  /\ \/ /\ snClock' = [sec |-> txTm_sec - NTP_JAN1970_DELTA, usec |-> FRAC_TO_USEC(snReq.frac)]
        /\ snPhase' = "done" /\ snExit' = 0
     \/ snPhase' = "failed" /\ UNCHANGED <<snClock, snExit>>
  /\ UNCHANGED <<snReq, snDeadline, snAttempt, snServer, snTried, snIntr, snDown, snStamp>>

(* psh_ntpclientMain.                                                      *)
SnGivesUp ==
  /\ snPhase = "failed" /\ snNow >= snDeadline
  /\ snPhase' = "done" /\ snExit' = 1
  /\ UNCHANGED <<snReq, snNow, snDeadline, snAttempt, snServer, snTried, snIntr, snDown, snBlocked, snStamp,
                 snClock>>

SnRetries ==
  /\ snPhase = "failed" /\ snNow < snDeadline
  /\ snNow' = snNow + NTP_RETRY_INTERVAL_S
  /\ snPhase' = "connect"
  /\ UNCHANGED <<snReq, snDeadline, snAttempt, snServer, snTried, snIntr, snDown, snBlocked, snStamp, snClock,
                 snExit>>

SnNext ==
  \/ SnStart \/ SnConnects \/ SnInterrupted \/ SnSends \/ SnReceives \/ SnSets \/ SnGivesUp \/ SnRetries

SnSpec == SnInit /\ [][SnNext]_snVars

-----------------------------------------------------------------------------
(* A clock that was set shows what the server stamped, to half a           *)
(* millisecond, as long as the seconds of NTP do not wrap.  The stamp is   *)
(* never of the future, and when the answer is in no older than the send   *)
(* and the receive may last.  Left aside is what read from a descriptor    *)
(* that is none of a socket gives.                                         *)
ClockIsRight ==
  /\ snExit = 0 /\ snServer # 0 =>
       /\ snStamp <= snNow
       /\ snReq.base + snStamp + NTP_JAN1970_DELTA < SNWORD => snClock.sec = snReq.base + snStamp
       /\ snClock.usec >= 0 /\ snClock.usec < 1000000
       /\ LET error == snClock.usec - ((snReq.frac \div 64) * 15625) \div 1024
          IN error >= -500 /\ error <= 500
  /\ snPhase = "set" /\ Bounded /\ snIntr = 0 => snNow <= snStamp + 2 * snReq.timeout

(* "retrying always the first address let one silent server use up the     *)
(* whole -w window": in a window with room for the attempts and for the    *)
(* time that no timeout bounds, every server is asked before ntpclient     *)
(* gives up, unless an attempt found no address or no socket.              *)
OneAttempt == 2 * snReq.timeout + NTP_RETRY_INTERVAL_S
EveryServerIsAsked ==
  snExit = 1 /\ ~ snDown /\ snReq.window >= Len(SnServers) * OneAttempt + snBlocked
    => snTried = DOMAIN SnServers

(* A boot script that waits for it is held up no longer than the window    *)
(* and one more attempt, and what no timeout bounds: the lookups, a wait   *)
(* that a signal made begin anew, and every wait of -t 0.                  *)
BootIsNotHeldUp == snNow < snReq.window + OneAttempt + snBlocked

ClockIsSetInTime == ClockIsRight /\ EveryServerIsAsked /\ BootIsNotHeldUp
=============================================================================
