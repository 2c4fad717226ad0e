-------------------------- MODULE PshAppletProofs ---------------------------
(***************************************************************************)
(* Theorems about the session of psh and about its applets: who has the    *)
(* terminal, the clock ntpclient sets, the screen and the file of edit,    *)
(* what wget saves, what dd, cp, mv, cat and logread copy, and what ping   *)
(* prints.  They share nothing: each theorem is about the specification of *)
(* one of them, for every value of its constants.                          *)
(***************************************************************************)
EXTENDS PshSession, PshNtp, PshEdit, PshWget, PshCopy, PshPing, NatFacts, SequenceTheorems

-----------------------------------------------------------------------------
(* A psh process.  A script that can lead to a shell has run nothing: its  *)
(* error says that it was not opened, and no line sets that error.  The    *)
(* shell is in front, and its terminal not free to take, at every point    *)
(* between its start and its end, a program's run and a switch aside.      *)
SsIn == {"app", "open", "script", "scriptend", "run", "refused", "prompt"}   \* in the shell or before it
SsOut == {"boot", "auth", "take", "main", "exited"}                          \* no shell yet, or no more

Excused == ssGap \/ ssMoved

ScriptInv ==
  /\ ssPhase \in {"open", "run", "take"} => ~ssRan
  /\ ssPhase \in {"open", "script"} => ssErr = Fine
  /\ ssPhase = "scriptend" /\ FallsBack(ssErr) => ~ssRan

TerminalInv ==
  /\ ssPhase \in SsIn \cup SsOut \cup {"child", "switch"}
  /\ ssTty \in Terminals \cup {0}
  /\ ssCtl = [t \in Terminals |-> ssCtl[t]] /\ ssFg = [t \in Terminals |-> ssFg[t]]
  /\ ssHist \/ ssTcpid # "none" \/ ssPhase = "take" => ssTty \in Terminals
  /\ ssPhase \in {"prompt", "refused", "child", "switch"} => ssHist = TRUE
  /\ ssPhase \in SsOut => ssHist = FALSE
  /\ ssHist \in BOOLEAN
  /\ ssHist /\ ssPhase \in SsIn => Excused \/ (InFront /\ ssCtl[ssTty] # "none")
  /\ ssPhase = "child" => Excused \/ ssCtl[ssTty] # "none"
  /\ ssPhase = "switch" => Excused \/ ssCtl[ssTty] = "none"
  /\ ssTcpid # "none" => ssPhase # "switch" /\ ssTty = Console /\ ssCtl[Console] # "none"

EndInv ==
  /\ ssEnd = "lost" => Excused
  /\ ssEnd = "done" /\ ssTcpid # "none" => ssPhase \in {"main", "exited"} /\ ssFg[ssTty] = ssTcpid

SessionInv == ScriptInv /\ TerminalInv /\ EndInv

(* No step of a script makes it look as if it had not been opened.         *)
LEMMA ScriptStep ==
  ASSUME SessionInv, [SsNext]_ssVars
  PROVE  ScriptInv'
  <1> USE DEF SessionInv, ScriptInv, ssTerm, ssScr, ssStart, FallsBack, NotOpened, Fine
  <1>1. CASE SsBoot
    BY <1>1 DEF SsBoot
  <1>2. CASE SsAuth
    BY <1>2 DEF SsAuth
  <1>3. CASE SsApp
    BY <1>3 DEF SsApp
  <1>4. CASE SsMount
    BY <1>4 DEF SsMount
  <1>5. CASE SsOpen
    BY <1>5 DEF SsOpen
  <1>6. CASE SsLine
    BY <1>6 DEF SsLine
  <1>7. CASE SsLastLine
    BY <1>7 DEF SsLastLine
  <1>8. CASE SsScriptEnds
    BY <1>8 DEF SsScriptEnds
  <1>9. CASE SsRun
    BY <1>9 DEF SsRun
  <1>10. CASE SsRefused
    BY <1>10 DEF SsRefused
  <1>11. CASE SsTake
    BY <1>11 DEF SsTake
  <1>12. CASE SsRunFile
    BY <1>12 DEF SsRunFile, Types
  <1>13. CASE SsSysexec
    BY <1>13 DEF SsSysexec, Types
  <1>14. CASE SsChildEnds
    BY <1>14 DEF SsChildEnds
  <1>15. CASE SsNested
    BY <1>15 DEF SsNested, Types
  <1>16. CASE SsEnvironment
    BY <1>16 DEF SsEnvironment, Types
  <1>17. CASE SsTty
    BY <1>17 DEF SsTty, Types
  <1>18. CASE SsSwitch
    BY <1>18 DEF SsSwitch
  <1>19. CASE SsOther
    BY <1>19 DEF SsOther
  <1>20. CASE SsLeave
    BY <1>20 DEF SsLeave
  <1>21. CASE SsMain
    BY <1>21 DEF SsMain
  <1>22. CASE UNCHANGED ssVars
    BY <1>22 DEF ssVars
  <1>23. QED
    BY <1>1, <1>2, <1>3, <1>4, <1>5, <1>6, <1>7, <1>8, <1>9, <1>10, <1>11, <1>12, <1>13, <1>14, <1>15, <1>16, <1>17, <1>18, <1>19, <1>20, <1>21, <1>22 DEF SsNext

(* The shell stays in front of a terminal that nobody else can take.       *)
LEMMA TerminalStep ==
  ASSUME SessionInv, [SsNext]_ssVars
  PROVE  TerminalInv'
  <1> USE DEF SessionInv, TerminalInv, ssTerm, ssScr, ssStart, SsIn, SsOut, Excused, InFront, Terminals, Console
  <1>1. CASE SsBoot
    BY <1>1 DEF SsBoot
  <1>2. CASE SsAuth
    BY <1>2 DEF SsAuth, ttyopen
  <1>3. CASE SsApp
    BY <1>3 DEF SsApp
  <1>4. CASE SsMount
    BY <1>4 DEF SsMount
  <1>5. CASE SsOpen
    BY <1>5 DEF SsOpen
  <1>6. CASE SsLine
    BY <1>6 DEF SsLine, ttyopen
  <1>7. CASE SsLastLine
    BY <1>7 DEF SsLastLine
  <1>8. CASE SsScriptEnds
    BY <1>8 DEF SsScriptEnds
  <1>9. CASE SsRun
    BY <1>9 DEF SsRun
  <1>10. CASE SsRefused
    BY <1>10 DEF SsRefused
  <1>11. CASE SsTake
    BY <1>11 DEF SsTake
  <1>12. CASE SsRunFile
    BY <1>12 DEF SsRunFile, Types
  <1>13. CASE SsSysexec
    BY <1>13 DEF SsSysexec, Types
  <1>14. CASE SsChildEnds
    BY <1>14 DEF SsChildEnds, TakesBack
  <1>15. CASE SsNested
    BY <1>15 DEF SsNested, Types
  <1>16. CASE SsEnvironment
    BY <1>16 DEF SsEnvironment, Types
  <1>17. CASE SsTty
    BY <1>17 DEF SsTty, Types
  <1>18. CASE SsSwitch
    BY <1>18 DEF SsSwitch, Reacquired
  <1>19. CASE SsOther
    BY <1>19 DEF SsOther
  <1>20. CASE SsLeave
    BY <1>20 DEF SsLeave
  <1>21. CASE SsMain
    BY <1>21 DEF SsMain
  <1>22. CASE UNCHANGED ssVars
    BY <1>22 DEF ssVars
  <1>23. QED
    BY <1>1, <1>2, <1>3, <1>4, <1>5, <1>6, <1>7, <1>8, <1>9, <1>10, <1>11, <1>12, <1>13, <1>14, <1>15, <1>16, <1>17, <1>18, <1>19, <1>20, <1>21, <1>22 DEF SsNext

(* A shell ends in front, or excused, and gives the terminal back.         *)
LEMMA EndStep ==
  ASSUME SessionInv, [SsNext]_ssVars
  PROVE  EndInv'
  <1> USE DEF SessionInv, TerminalInv, EndInv, ssTerm, ssScr, ssStart, SsIn, SsOut, Excused, InFront, Terminals, Console
  <1>1. CASE SsBoot
    BY <1>1 DEF SsBoot
  <1>2. CASE SsAuth
    BY <1>2 DEF SsAuth, ttyopen
  <1>3. CASE SsApp
    BY <1>3 DEF SsApp
  <1>4. CASE SsMount
    BY <1>4 DEF SsMount
  <1>5. CASE SsOpen
    BY <1>5 DEF SsOpen
  <1>6. CASE SsLine
    BY <1>6 DEF SsLine, ttyopen
  <1>7. CASE SsLastLine
    BY <1>7 DEF SsLastLine
  <1>8. CASE SsScriptEnds
    BY <1>8 DEF SsScriptEnds
  <1>9. CASE SsRun
    BY <1>9 DEF SsRun
  <1>10. CASE SsRefused
    BY <1>10 DEF SsRefused
  <1>11. CASE SsTake
    BY <1>11 DEF SsTake
  <1>12. CASE SsRunFile
    BY <1>12 DEF SsRunFile, Types
  <1>13. CASE SsSysexec
    BY <1>13 DEF SsSysexec, Types
  <1>14. CASE SsChildEnds
    BY <1>14 DEF SsChildEnds, TakesBack
  <1>15. CASE SsNested
    BY <1>15 DEF SsNested, Types
  <1>16. CASE SsEnvironment
    BY <1>16 DEF SsEnvironment, Types
  <1>17. CASE SsTty
    BY <1>17 DEF SsTty, Types
  <1>18. CASE SsSwitch
    BY <1>18 DEF SsSwitch, Reacquired
  <1>19. CASE SsOther
    BY <1>19 DEF SsOther
  <1>20. CASE SsLeave
    BY <1>20 DEF SsLeave
  <1>21. CASE SsMain
    BY <1>21 DEF SsMain
  <1>22. CASE UNCHANGED ssVars
    BY <1>22 DEF ssVars
  <1>23. QED
    BY <1>1, <1>2, <1>3, <1>4, <1>5, <1>6, <1>7, <1>8, <1>9, <1>10, <1>11, <1>12, <1>13, <1>14, <1>15, <1>16, <1>17, <1>18, <1>19, <1>20, <1>21, <1>22 DEF SsNext

(* SessionInv holds at every point of a session.                           *)
THEOREM SessionInvariant == SsSpec => []SessionInv
  <1>1. SsInit => SessionInv
    BY DEF SsInit, SessionInv, ScriptInv, TerminalInv, EndInv, SsIn, SsOut, Terminals, Console, Excused
  <1>2. SessionInv /\ [SsNext]_ssVars => SessionInv'
    BY ScriptStep, TerminalStep, EndStep DEF SessionInv
  <1>3. QED
    BY <1>1, <1>2, PTL DEF SsSpec

(* No script that ran anything is followed by a shell, the shell loses its *)
(* terminal only to a session that took it in the gap of a switch or to    *)
(* psh inside it, and the foreground is given back: for every script, any  *)
(* number of commands and any number of attempts to open it.               *)
THEOREM SessionKeepsTerminal == SsSpec => []ShellAndTerminal
  <1>1. SessionInv => ShellAndTerminal
    BY DEF SessionInv, ScriptInv, EndInv, ShellAndTerminal, Excused
  <1>2. QED
    BY <1>1, SessionInvariant, PTL

-----------------------------------------------------------------------------
(* ntpclient, for every timeout, window and number of servers.             *)
(*                                                                         *)
(* Each attempt asks the next server and takes at most OneAttempt seconds  *)
(* besides what no timeout bounds, so after n attempts n servers, counted  *)
(* round, were asked and no more than n * OneAttempt seconds have passed   *)
(* besides; and no attempt is begun when the window is over.               *)
SnPhases == {"start", "connect", "send", "receive", "set", "failed", "done"}
RoundRobin(n, k) == {(j % k) + 1 : j \in 0 .. n - 1}

(* What the variables range over, and what is fixed by the phase.          *)
SnShape ==
  /\ snReq \in SnRequests /\ snPhase \in SnPhases
  /\ snNow \in Nat /\ snAttempt \in Nat /\ snIntr \in Nat /\ snBlocked \in Nat /\ snStamp \in Nat
  /\ snStamp <= snNow
  /\ snPhase = "start" => snNow = 0 /\ snAttempt = 0 /\ snTried = {}
  /\ snPhase # "start" => snDeadline = snReq.window
  /\ snPhase # "done" => snExit = -1

(* How far behind the window each phase can be.                            *)
SnHeld ==
  /\ snPhase \in {"connect", "send"} => snNow < snReq.window + NTP_RETRY_INTERVAL_S + snBlocked
  /\ snPhase = "receive" => snNow < snReq.window + NTP_RETRY_INTERVAL_S + snReq.timeout + snBlocked
  /\ snPhase \in {"set", "failed", "done"} => snNow < snReq.window + OneAttempt + snBlocked

(* Who was asked by then, and how long the attempts have taken.            *)
SnAsked ==
  ~ snDown =>
    /\ snPhase = "connect" =>
         snTried = RoundRobin(snAttempt, Len(SnServers)) /\ snNow <= snAttempt * OneAttempt + snBlocked
    /\ snPhase = "send" =>
         /\ snAttempt > 0 /\ snServer = ((snAttempt - 1) % Len(SnServers)) + 1
         /\ snTried = RoundRobin(snAttempt - 1, Len(SnServers))
         /\ snNow <= (snAttempt - 1) * OneAttempt + snBlocked
    /\ snPhase = "receive" =>
         /\ snAttempt > 0 /\ snTried = RoundRobin(snAttempt, Len(SnServers))
         /\ snNow <= (snAttempt - 1) * OneAttempt + snReq.timeout + snBlocked
    /\ snPhase \in {"set", "failed", "done"} =>
         /\ snAttempt > 0 /\ snTried = RoundRobin(snAttempt, Len(SnServers))
         /\ snNow <= (snAttempt - 1) * OneAttempt + 2 * snReq.timeout + snBlocked

(* How old the request is when the answer comes in.                        *)
SnFresh ==
  Bounded /\ snIntr = 0 =>
    /\ snPhase = "receive" => snNow <= snStamp + snReq.timeout
    /\ snPhase = "set" => snNow <= snStamp + 2 * snReq.timeout

(* What the two exit codes say.                                            *)
SnEnd ==
  /\ snExit = 0 => snClock = [sec |-> txTm_sec - NTP_JAN1970_DELTA, usec |-> FRAC_TO_USEC(snReq.frac)]
  /\ snExit = 1 => snPhase = "done" /\ snNow >= snReq.window

SnInv == SnShape /\ SnHeld /\ SnAsked /\ SnFresh /\ SnEnd

(* The request and its servers.                                            *)
LEMMA RequestFact ==
  ASSUME snReq \in SnRequests
  PROVE  /\ snReq.timeout \in Nat /\ snReq.window \in Nat /\ snReq.base \in Nat
         /\ Len(SnServers) \in Nat \ {0} /\ DOMAIN SnServers = 1 .. Len(SnServers)
         /\ NTP_RETRY_INTERVAL_S \in Nat \ {0} /\ OneAttempt \in Nat \ {0}
         /\ OneAttempt = 2 * snReq.timeout + NTP_RETRY_INTERVAL_S
  <1>1. ntp_host \in {"arg", "conf", "pool.ntp.org"}
    BY DEF ntp_host
  <1>2. SnServers \in Seq({"good", "bad"}) \ {<<>>}
    BY <1>1, PshNtpAssumption, SMT DEF SnServers
  <1>3. Len(SnServers) \in Nat /\ DOMAIN SnServers = 1 .. Len(SnServers) /\ Len(SnServers) # 0
    BY <1>2
  <1>4. /\ snReq.timeout \in Nat /\ snReq.window \in Nat /\ snReq.base \in Nat
        /\ NTP_RETRY_INTERVAL_S \in Nat \ {0}
    BY PshNtpAssumption, SMT
  <1>5. QED
    BY <1>3, <1>4, SMT DEF OneAttempt

(* One more attempt asks one more server, counted round; as many attempts  *)
(* as there are servers ask all of them.                                   *)
LEMMA RoundRobinFact ==
  ASSUME NEW k \in Nat \ {0}
  PROVE  /\ RoundRobin(0, k) = {}
         /\ \A n \in Nat : RoundRobin(n + 1, k) = RoundRobin(n, k) \cup {(n % k) + 1}
         /\ \A n \in Nat : n >= k => RoundRobin(n, k) = 1 .. k
  <1>1. RoundRobin(0, k) = {}
    BY DEF RoundRobin
  <1>2. ASSUME NEW n \in Nat
        PROVE  RoundRobin(n + 1, k) = RoundRobin(n, k) \cup {(n % k) + 1}
    <2>1. 0 .. (n + 1) - 1 = (0 .. n - 1) \cup {n}
      OBVIOUS
    <2>2. QED
      BY <2>1 DEF RoundRobin
  <1>3. ASSUME NEW n \in Nat, n >= k
        PROVE  RoundRobin(n, k) = 1 .. k
    <2>1. \A j \in Nat : j % k \in 0 .. k - 1
      OBVIOUS
    <2>2. \A j \in 0 .. k - 1 : j % k = j
      OBVIOUS
    <2>3. RoundRobin(n, k) \subseteq 1 .. k
      BY <2>1 DEF RoundRobin
    <2>4. ASSUME NEW s \in 1 .. k
          PROVE  s \in RoundRobin(n, k)
      <3>1. s - 1 \in 0 .. k - 1 /\ s - 1 \in 0 .. n - 1
        BY <1>3
      <3>2. ((s - 1) % k) + 1 = s
        BY <2>2, <3>1
      <3>3. QED
        BY <3>1, <3>2 DEF RoundRobin
    <2>5. QED
      BY <2>3, <2>4
  <1>4. QED
    BY <1>1, <1>2, <1>3

(* The conversion of a fraction stays within a second and within half a    *)
(* millisecond of the fraction, cut to 2^-16 seconds.                      *)
InMicroseconds(x) ==
  LET b == ((x \div 64) * 15625) \div 1024
  IN /\ FRAC_TO_USEC(x) \in Nat /\ FRAC_TO_USEC(x) < 1000000 /\ b \in Int
     /\ FRAC_TO_USEC(x) - b >= -500 /\ FRAC_TO_USEC(x) - b <= 500

(* It does so for every fraction.                                          *)
LEMMA FractionFact ==
  ASSUME NEW x \in Nat, x < 4194304
  PROVE  InMicroseconds(x)
  <1> DEFINE q == (x + 32768) \div 65536
             u == x \div 4
             a == x \div 64
             b == (a * 15625) \div 1024
  <1>0. x \in Int /\ 0 <= x /\ x < 4194304
    BY SMT
  <1>1. q \in Int /\ 65536 * q <= x + 32768 /\ x + 32768 < 65536 * q + 65536
    BY <1>0, SMT
  <1>2. u \in Int /\ 4 * u <= x /\ x < 4 * u + 4
    BY <1>0, SMT
  <1>3. a \in Int /\ 64 * a <= x /\ x < 64 * a + 64
    BY <1>0, SMT
  <1>4. b \in Int /\ 1024 * b <= a * 15625 /\ a * 15625 < 1024 * b + 1024
    BY <1>3, SMT
  <1>5. FRAC_TO_USEC(x) = u - 759 * q
    BY SMT DEF FRAC_TO_USEC
  <1> HIDE DEF q, u, a, b
  <1>6. u - 759 * q >= 0 /\ u - 759 * q < 1000000 /\ (u - 759 * q) - b >= -500 /\ (u - 759 * q) - b <= 500
    BY ONLY <1>0, <1>1, <1>2, <1>3, <1>4, SMTT(60)
  <1>7. QED
    BY <1>1, <1>2, <1>4, <1>5, <1>6, SMT DEF b, a, InMicroseconds

(* The step of each action.                                                *)
LEMMA SnStepInv == SnInv /\ [SnNext]_snVars => SnInv'
  <1> SUFFICES ASSUME SnInv, [SnNext]_snVars PROVE SnInv'
    OBVIOUS
  <1> DEFINE T == snReq.timeout
             W == snReq.window
             R == NTP_RETRY_INTERVAL_S
             A == OneAttempt
             k == Len(SnServers)
             n == snAttempt
             Spent(i) == i * A
  <1>1. /\ T \in Nat /\ W \in Nat /\ R \in Nat \ {0} /\ A \in Nat \ {0} /\ A = 2 * T + R
        /\ k \in Nat \ {0}
    BY RequestFact DEF SnInv, SnShape
  <1>2. snReq' = snReq
    BY DEF SnNext, snVars, SnStart, SnConnects, SnInterrupted, SnSends, SnReceives, SnSets, SnGivesUp, SnRetries
  <1>3. T' = T /\ W' = W /\ A' = A /\ SnServers' = SnServers /\ k' = k
    <2>1. ntp_host' = ntp_host
      BY <1>2 DEF ntp_host
    <2>2. QED
      BY <1>2, <2>1 DEF OneAttempt, SnServers
  <1>4. /\ Spent(0) \in Nat /\ Spent(n) \in Nat
        /\ n > 0 => Spent(n - 1) \in Nat /\ Spent(n) = Spent(n - 1) + A
    <2> HIDE DEF A
    <2>1. n \in Nat /\ A \in Nat
      BY <1>1 DEF SnInv, SnShape
    <2>2. Spent(0) \in Nat /\ Spent(n) \in Nat
      BY ONLY <2>1
    <2>3. ASSUME n > 0
          PROVE  Spent(n - 1) \in Nat /\ Spent(n) = Spent(n - 1) + A
      <3> DEFINE m == n - 1
      <3>1. m \in Nat /\ n = m + 1
        BY <2>1, <2>3
      <3> HIDE DEF m
      <3>2. m * A \in Nat /\ (m + 1) * A = m * A + A
        BY ONLY <2>1, <3>1
      <3>3. QED
        BY <3>1, <3>2 DEF m
    <2>4. QED
      BY <2>2, <2>3
  <1>5. n > 0 => RoundRobin(n, k) = RoundRobin(n - 1, k) \cup {((n - 1) % k) + 1}
    <2>1. n \in Nat /\ (n > 0 => n - 1 \in Nat /\ (n - 1) + 1 = n)
      BY DEF SnInv, SnShape
    <2>2. QED
      BY <1>1, <2>1, RoundRobinFact
  <1>6. RoundRobin(0, k) = {}
    BY <1>1, RoundRobinFact
  <1> DEFINE B == SNBLOCK
             Held(phase, now, blocked) ==
               /\ phase \in {"connect", "send"} => now < W + R + blocked
               /\ phase = "receive" => now < W + R + T + blocked
               /\ phase \in {"set", "failed", "done"} => now < W + A + blocked
             Asked(phase, now, blocked, i, server, tried) ==
               /\ phase = "connect" => tried = RoundRobin(i, k) /\ now <= Spent(i) + blocked
               /\ phase = "send" => /\ i > 0 /\ server = ((i - 1) % k) + 1
                                    /\ tried = RoundRobin(i - 1, k) /\ now <= Spent(i - 1) + blocked
               /\ phase = "receive" => i > 0 /\ tried = RoundRobin(i, k) /\ now <= Spent(i - 1) + T + blocked
               /\ phase \in {"set", "failed", "done"} =>
                    i > 0 /\ tried = RoundRobin(i, k) /\ now <= Spent(i - 1) + 2 * T + blocked
  <1>7. /\ SnHeld <=> Held(snPhase, snNow, snBlocked)
        /\ SnHeld' <=> Held(snPhase', snNow', snBlocked')
    BY <1>3 DEF SnHeld
  <1>8. /\ SnAsked <=> (~ snDown => Asked(snPhase, snNow, snBlocked, snAttempt, snServer, snTried))
        /\ SnAsked' <=> (~ snDown' => Asked(snPhase', snNow', snBlocked', snAttempt', snServer', snTried'))
    BY <1>3 DEF SnAsked
  <1>9. SnShape /\ SnHeld /\ SnAsked /\ SnFresh /\ SnEnd /\ B \in Nat
    BY PshNtpAssumption DEF SnInv
  <1> HIDE DEF T, W, R, A, B, k, Spent
  <1>10. SnShape'
    <2> USE <1>1, <1>2, <1>3, <1>9 DEF SnShape, SnPhases
    <2>1. CASE SnStart
      BY <2>1, SMT DEF SnStart, W
    <2>2. CASE SnConnects
      BY <2>2, SMT DEF SnConnects, Blocks, W, B
    <2>3. CASE SnInterrupted
      BY <2>3, SMT DEF SnInterrupted, W, T, B
    <2>4. CASE SnSends
      BY <2>4, SMT DEF SnSends, Waits, Blocks, W, T, B
    <2>5. CASE SnReceives
      BY <2>5, SMT DEF SnReceives, Waits, Blocks, W, T, B
    <2>6. CASE SnSets
      BY <2>6, SMT DEF SnSets, Blocks, W, B
    <2>7. CASE SnGivesUp
      BY <2>7, SMT DEF SnGivesUp, W
    <2>8. CASE SnRetries
      BY <2>8, SMT DEF SnRetries, W, R
    <2>9. CASE UNCHANGED snVars
      BY <2>9, SMT DEF snVars
    <2>10. QED
      BY <2>1, <2>2, <2>3, <2>4, <2>5, <2>6, <2>7, <2>8, <2>9 DEF SnNext
  <1>11. SnEnd'
    <2> USE <1>2, <1>9 DEF SnShape, SnEnd
    <2>1. CASE SnStart
      BY <2>1, SMT DEF SnStart
    <2>2. CASE SnConnects
      BY <2>2, SMT DEF SnConnects
    <2>3. CASE SnInterrupted
      BY <2>3, SMT DEF SnInterrupted
    <2>4. CASE SnSends
      BY <2>4, SMT DEF SnSends
    <2>5. CASE SnReceives
      BY <2>5, SMT DEF SnReceives
    <2>6. CASE SnSets
      BY <2>6, SMT DEF SnSets, txTm_sec
    <2>7. CASE SnGivesUp
      BY <2>7, SMT DEF SnGivesUp
    <2>8. CASE SnRetries
      BY <2>8, SMT DEF SnRetries
    <2>9. CASE UNCHANGED snVars
      BY <2>9, SMT DEF snVars, txTm_sec
    <2>10. QED
      BY <2>1, <2>2, <2>3, <2>4, <2>5, <2>6, <2>7, <2>8, <2>9 DEF SnNext
  <1>12. SnHeld'
    <2> USE <1>1, <1>7, <1>9 DEF SnShape
    <2>1. CASE SnStart
      BY <2>1, SMT DEF SnStart, SnHeld
    <2>2. CASE SnConnects
      BY <2>2, SMT DEF SnConnects, Blocks, B
    <2>3. CASE SnInterrupted
      BY <2>3, SMT DEF SnInterrupted, T, B
    <2>4. CASE SnSends
      BY <2>4, SMT DEF SnSends, Waits, Blocks, T, B
    <2>5. CASE SnReceives
      BY <2>5, SMT DEF SnReceives, Waits, Blocks, T, B
    <2>6. CASE SnSets
      BY <2>6, SMT DEF SnSets, Blocks, B
    <2>7. CASE SnGivesUp
      BY <2>7, SMT DEF SnGivesUp
    <2>8. CASE SnRetries
      BY <2>8, SMT DEF SnRetries, R, W
    <2>9. CASE UNCHANGED snVars
      BY <2>9, SMT DEF snVars
    <2>10. QED
      BY <2>1, <2>2, <2>3, <2>4, <2>5, <2>6, <2>7, <2>8, <2>9 DEF SnNext
  <1>13. SnAsked'
    <2> USE <1>1, <1>8, <1>9 DEF SnShape
    <2>1. CASE SnStart
      <3>1. snAttempt' = 0 /\ snTried' = {} /\ snNow' = 0 /\ snPhase' = "connect" /\ snBlocked' = snBlocked
        BY <2>1 DEF SnStart
      <3>2. Asked("connect", 0, snBlocked, 0, snServer', {})
        BY <1>4, <1>6
      <3>3. QED
        BY <3>1, <3>2
    <2>2. CASE SnConnects
      <3>1. NextServer = (n % k) + 1 /\ (n + 1) - 1 = n
        BY DEF NextServer, k
      <3>2. QED
        BY <2>2, <1>4, <3>1, SMT DEF SnConnects, Blocks, B
    <2>3. CASE SnInterrupted
      BY <2>3, <1>4, SMT DEF SnInterrupted, T, B
    <2>4. CASE SnSends
      BY <2>4, <1>4, <1>5, SMT DEF SnSends, Waits, Blocks, T, B
    <2>5. CASE SnReceives
      BY <2>5, <1>4, SMT DEF SnReceives, Waits, Blocks, T, B
    <2>6. CASE SnSets
      BY <2>6, <1>4, SMT DEF SnSets, Blocks, B
    <2>7. CASE SnGivesUp
      BY <2>7, SMT DEF SnGivesUp
    <2>8. CASE SnRetries
      BY <2>8, <1>4, SMT DEF SnRetries, R
    <2>9. CASE UNCHANGED snVars
      BY <2>9, SMT DEF snVars
    <2>10. QED
      BY <2>1, <2>2, <2>3, <2>4, <2>5, <2>6, <2>7, <2>8, <2>9 DEF SnNext
  <1>14. SnFresh'
    <2> USE <1>1, <1>2, <1>3, <1>9 DEF SnShape, SnFresh, Bounded
    <2>1. CASE SnStart
      BY <2>1, SMT DEF SnStart
    <2>2. CASE SnConnects
      BY <2>2, SMT DEF SnConnects
    <2>3. CASE SnInterrupted
      BY <2>3, SMT DEF SnInterrupted
    <2>4. CASE SnSends
      BY <2>4, SMT DEF SnSends, Waits, T
    <2>5. CASE SnReceives
      BY <2>5, SMT DEF SnReceives, Waits, T
    <2>6. CASE SnSets
      BY <2>6, SMT DEF SnSets
    <2>7. CASE SnGivesUp
      BY <2>7, SMT DEF SnGivesUp
    <2>8. CASE SnRetries
      BY <2>8, SMT DEF SnRetries
    <2>9. CASE UNCHANGED snVars
      BY <2>9, SMT DEF snVars
    <2>10. QED
      BY <2>1, <2>2, <2>3, <2>4, <2>5, <2>6, <2>7, <2>8, <2>9 DEF SnNext
  <1>15. QED
    BY <1>10, <1>11, <1>12, <1>13, <1>14 DEF SnInv

(* What the three parts of the property take from the invariant.           *)
LEMMA SnInvImplies == SnInv => ClockIsSetInTime
  <1> SUFFICES ASSUME SnInv PROVE ClockIsSetInTime
    OBVIOUS
  <1>1. SnShape /\ SnHeld /\ SnAsked /\ SnFresh /\ SnEnd /\ snReq \in SnRequests
    BY DEF SnInv, SnShape
  <1>2. ClockIsRight
    <2>0. snPhase = "set" /\ Bounded /\ snIntr = 0 => snNow <= snStamp + 2 * snReq.timeout
      BY <1>1 DEF SnFresh
    <2>1. SUFFICES ASSUME snExit = 0 PROVE ClockIsRight
      BY <2>0, SMT DEF ClockIsRight
    <2>2. snClock.sec = txTm_sec - NTP_JAN1970_DELTA /\ snClock.usec = FRAC_TO_USEC(snReq.frac)
      BY <1>1, <2>1, SMT DEF SnEnd
    <2>3. snReq.frac \in Nat /\ snReq.frac < 4194304
      BY <1>1, PshNtpAssumption, SMT
    <2> DEFINE b == ((snReq.frac \div 64) * 15625) \div 1024
    <2>4. snClock.usec >= 0 /\ snClock.usec < 1000000 /\ snClock.usec - b >= -500 /\ snClock.usec - b <= 500
      <3>1. InMicroseconds(snReq.frac)
        BY <2>3, FractionFact, SMT
      <3>2. QED
        BY <2>2, <3>1, SMT DEF InMicroseconds
    <2>5. /\ NTP_JAN1970_DELTA \in Nat /\ SNWORD \in Nat \ {0} /\ snNow \in Nat /\ snStamp \in Nat
          /\ snStamp <= snNow /\ snReq.base \in Nat
      BY <1>1, PshNtpAssumption, SMT DEF SnShape
    <2> DEFINE t == snReq.base + snStamp + NTP_JAN1970_DELTA
    <2>6. t \in Nat /\ txTm_sec = t % SNWORD
      BY <2>5, SMT DEF txTm_sec
    <2>7. t < SNWORD => t % SNWORD = t
      BY <2>5, <2>6, SMT
    <2>8. t < SNWORD => snClock.sec = snReq.base + snStamp
      BY <2>2, <2>5, <2>6, <2>7, SMT
    <2>9. QED
      BY <2>0, <2>4, <2>5, <2>8, SMT DEF ClockIsRight
  <1>3. EveryServerIsAsked
    <2> DEFINE k == Len(SnServers)
               A == OneAttempt
    <2>1. SUFFICES ASSUME snExit = 1, ~ snDown, snReq.window >= k * A + snBlocked
                   PROVE  snTried = DOMAIN SnServers
      BY DEF EveryServerIsAsked
    <2>2. /\ k \in Nat \ {0} /\ DOMAIN SnServers = 1 .. k /\ A \in Nat \ {0} /\ snReq.window \in Nat
          /\ snReq.timeout \in Nat /\ NTP_RETRY_INTERVAL_S \in Nat \ {0}
          /\ A = 2 * snReq.timeout + NTP_RETRY_INTERVAL_S
      BY <1>1, RequestFact
    <2>3. snPhase = "done" /\ snNow >= snReq.window
      BY <1>1, <2>1 DEF SnEnd
    <2>4. snTried = RoundRobin(snAttempt, k) /\ snNow <= (snAttempt - 1) * A + 2 * snReq.timeout + snBlocked
      BY <1>1, <2>1, <2>3 DEF SnAsked
    <2>5. snAttempt \in Nat /\ snAttempt > 0 /\ snNow \in Nat /\ snBlocked \in Nat
      BY <1>1, <2>1, <2>3 DEF SnAsked, SnShape
    <2> HIDE DEF k, A
    <2>6. (snAttempt - 1) * A \in Int /\ k * A \in Int
      BY <2>2, <2>5
    <2>7. k * A < (snAttempt - 1) * A + A
      <3> DEFINE s == (snAttempt - 1) * A
                 z == k * A
      <3>1. s \in Int /\ z \in Int /\ snReq.window >= z + snBlocked /\ snNow <= s + 2 * snReq.timeout + snBlocked
        BY <2>1, <2>4, <2>6
      <3> HIDE DEF s, z
      <3>2. z < s + A
        <4>1. /\ A \in Nat /\ snReq.timeout \in Nat /\ snReq.window \in Nat /\ snNow \in Nat /\ snBlocked \in Nat
              /\ NTP_RETRY_INTERVAL_S >= 1 /\ NTP_RETRY_INTERVAL_S \in Nat
              /\ A = 2 * snReq.timeout + NTP_RETRY_INTERVAL_S
          BY <2>2, <2>5
        <4>2. snNow >= z + snBlocked
          BY ONLY <4>1, <2>3, <3>1
        <4>3. QED
          BY ONLY <4>1, <4>2, <3>1
      <3>3. QED
        BY <3>2 DEF s, z
    <2>8. snAttempt >= k
      <3> SUFFICES ASSUME snAttempt < k PROVE FALSE
        BY <2>2, <2>5
      <3>1. PICK d \in Nat : k = snAttempt + d
        <4>1. k - snAttempt \in Nat /\ k = snAttempt + (k - snAttempt)
          BY <2>2, <2>5
        <4>2. QED
          BY <4>1
      <3>2. k * A = (snAttempt - 1) * A + A + d * A /\ d * A \in Nat
        <4> DEFINE m == snAttempt - 1
        <4>1. m \in Int /\ k = m + 1 + d /\ d \in Nat /\ A \in Nat
          BY <2>2, <2>5, <3>1
        <4> HIDE DEF m
        <4>2. (m + 1 + d) * A = m * A + A + d * A /\ d * A \in Nat
          BY ONLY <4>1
        <4>3. QED
          BY <4>1, <4>2 DEF m
      <3> DEFINE s == (snAttempt - 1) * A + A
                 e == d * A
      <3>3. s \in Int /\ e \in Nat /\ k * A = s + e /\ k * A < s
        BY <2>2, <2>6, <2>7, <3>2
      <3> HIDE DEF s, e
      <3>4. QED
        BY ONLY <3>3
    <2>9. RoundRobin(snAttempt, k) = 1 .. k
      BY <2>2, <2>5, <2>8, RoundRobinFact
    <2>10. QED
      BY <2>2, <2>4, <2>9
  <1>4. BootIsNotHeldUp
    <2>1. SUFFICES snNow < snReq.window + OneAttempt + snBlocked
      BY DEF BootIsNotHeldUp
    <2>2. /\ snReq.window \in Nat /\ snReq.timeout \in Nat /\ NTP_RETRY_INTERVAL_S \in Nat \ {0}
          /\ OneAttempt = 2 * snReq.timeout + NTP_RETRY_INTERVAL_S
      BY <1>1, RequestFact
    <2>3. snNow \in Nat /\ snBlocked \in Nat /\ snPhase \in SnPhases /\ (snPhase = "start" => snNow = 0)
      BY <1>1 DEF SnShape
    <2>4. QED
      BY <1>1, <2>2, <2>3 DEF SnHeld, SnPhases
  <1>5. QED
    BY <1>2, <1>3, <1>4 DEF ClockIsSetInTime

(* A clock that ntpclient sets shows the server's stamp to half a          *)
(* millisecond; it gives up only after it asked every server a window has  *)
(* room for, and not later than one attempt after the window, besides what *)
(* no timeout bounds, for every timeout, window, number of servers, length *)
(* of the lookups and order of failures.                                   *)
THEOREM ClockInTime == SnSpec => []ClockIsSetInTime
  <1>1. SnInit => SnInv
    <2> SUFFICES ASSUME SnInit PROVE SnInv
      OBVIOUS
    <2>1. snReq \in SnRequests
      BY DEF SnInit
    <2>2. QED
      BY <2>1, SMT DEF SnInit, SnInv, SnShape, SnPhases, SnHeld, SnAsked, SnFresh, SnEnd
  <1>2. QED
    BY <1>1, SnStepInv, SnInvImplies, PTL DEF SnSpec

-----------------------------------------------------------------------------
(* The editor.                                                             *)

EdRow == [chars : Seq(Nat), updated : BOOLEAN]
EdText == [row : Seq(EdRow), cx : Nat, cy : Nat, vx : Nat, vy : Nat, rx : Nat, rows : Nat, cols : Nat,
           dirty : BOOLEAN, replace : BOOLEAN]

(* The cursor is in the text, or just after its last row.                  *)
InText(e) == e.cy <= nrows(e) /\ e.cx <= IF e.cy < nrows(e) THEN RowLen(e, e.cy) ELSE 0

InView(e) == e.vy <= e.cy /\ e.cy < e.vy + e.rows /\ e.vx <= e.rx /\ e.rx < e.vx + e.cols

SameView(e, e2) == e2.vx = e.vx /\ e2.vy = e.vy /\ e2.rows = e.rows /\ e2.cols = e.cols

(* What an operation on the text owes to the one that draws it: it touches *)
(* each row that is not what it was, and takes away one row at most.       *)
Touches(e, e2) ==
  /\ nrows(e2) >= nrows(e) - 1
  /\ \A i \in 1 .. nrows(e2) : e2.row[i].updated \/ (i <= nrows(e) /\ e2.row[i] = e.row[i])

(* What it owes to the one that quits: a text that has changed is dirty.   *)
Marks(e, e2) == e2.dirty \/ (~ e.dirty /\ e2.row = e.row)

(* The columns of a text are characters.                                   *)
LEMMA ColumnsFact ==
  ASSUME NEW text \in Seq(Nat), EDIT_TAB_STOP \in Nat \ {0}
  PROVE  Columns(text) \in Seq(Nat)
  <1> DEFINE n == Len(text)
             pad(k) == [i \in 1 .. EDIT_TAB_STOP - (k % EDIT_TAB_STOP) |-> 32]
             More(s, i) == s \o IF text[i] = Tab THEN pad(Len(s)) ELSE <<Glyph(text[i])>>
             Is(f) == f = [i \in 0 .. n |-> IF i = 0 THEN <<>> ELSE More(f[i - 1], i)]
             cells == CHOOSE f : Is(f)
             g == [p \in (1 .. n) \X Seq(Nat) |-> More(p[2], p[1])]
  <1>1. n \in Nat /\ \A i \in 1 .. n : text[i] \in Nat
    OBVIOUS
  <1>2. \A i \in 1 .. n : \A s \in Seq(Nat) : g[<<i, s>>] = More(s, i)
    OBVIOUS
  <1>3. ASSUME NEW i \in 1 .. n, NEW s \in Seq(Nat) PROVE More(s, i) \in Seq(Nat)
    <2>1. Len(s) \in Nat
      OBVIOUS
    <2>2. Len(s) % EDIT_TAB_STOP \in 0 .. EDIT_TAB_STOP - 1
      BY <2>1
    <2>3. EDIT_TAB_STOP - (Len(s) % EDIT_TAB_STOP) \in Nat
      BY <2>2
    <2>4. pad(Len(s)) \in Seq(Nat)
      <3> DEFINE w == EDIT_TAB_STOP - (Len(s) % EDIT_TAB_STOP)
      <3>1. w \in Nat /\ pad(Len(s)) = [k \in 1 .. w |-> 32]
        BY <2>3
      <3> HIDE DEF w
      <3>2. [k \in 1 .. w |-> 32] \in [1 .. w -> Nat]
        OBVIOUS
      <3>3. QED
        BY <3>1, <3>2, SeqDef
    <2>5. <<Glyph(text[i])>> \in Seq(Nat)
      BY <1>1 DEF Glyph
    <2>6. QED
      BY <2>4, <2>5
  <1> HIDE DEF n, g, Is, cells, More
  <1>4. PICK f \in [0 .. n -> Seq(Nat)] : Recursive(f, g, n, <<>>)
    <2>1. StepsIn(g, n, Seq(Nat)) /\ n \in Nat /\ <<>> \in Seq(Nat)
      BY <1>1, <1>2, <1>3 DEF StepsIn
    <2>2. QED
      BY <2>1, Recursion
  <1>5. ASSUME NEW i \in 1 .. n PROVE f[i] = More(f[i - 1], i)
    <2>1. i - 1 \in 0 .. n
      BY <1>1
    <2>2. f[i - 1] \in Seq(Nat)
      BY <1>4, <2>1
    <2>3. QED
      BY <1>2, <1>4, <2>2 DEF Recursive
  <1>6. Is(f)
    <2>1. f = [i \in 0 .. n |-> f[i]]
      BY <1>4
    <2>2. ASSUME NEW i \in 0 .. n
          PROVE  f[i] = IF i = 0 THEN <<>> ELSE More(f[i - 1], i)
      <3>1. CASE i = 0
        BY <3>1, <1>4 DEF Recursive
      <3>2. CASE i # 0
        <4>1. i \in 1 .. n
          BY <3>2, <1>1
        <4>2. QED
          BY <4>1, <3>2, <1>5
      <3>3. QED
        BY <3>1, <3>2
    <2>3. QED
      BY <2>1, <2>2 DEF Is
  <1>7. Is(cells)
    BY <1>6 DEF cells
  <1>8. Columns(text) = cells[n]
    BY DEF Columns, n, cells, Is, More
  <1>9. /\ cells[0] = <<>>
        /\ \A i \in 1 .. n : cells[i] = More(cells[i - 1], i)
    <2>1. 0 \in 0 .. n /\ \A i \in 1 .. n : i \in 0 .. n /\ i # 0
      BY <1>1
    <2>2. \A i \in 0 .. n : cells[i] = IF i = 0 THEN <<>> ELSE More(cells[i - 1], i)
      BY <1>7 DEF Is
    <2>3. QED
      BY <2>1, <2>2
  <1> DEFINE U == {k \in Nat : k <= n => cells[k] \in Seq(Nat)}
  <1>10. 0 \in U
    <2>1. cells[0] \in Seq(Nat)
      BY <1>9
    <2>2. QED
      BY <2>1
  <1>11. ASSUME NEW k \in Nat, k \in U PROVE k + 1 \in U
    <2> SUFFICES ASSUME k + 1 <= n PROVE cells[k + 1] \in Seq(Nat)
      OBVIOUS
    <2>1. k + 1 \in 1 .. n /\ (k + 1) - 1 = k /\ k <= n
      BY <1>1
    <2>4. cells[k + 1] = More(cells[(k + 1) - 1], k + 1)
      BY <1>9, <2>1
    <2>5. cells[k] \in Seq(Nat)
      BY <1>11, <2>1
    <2>6. (k + 1) - 1 = k
      BY <2>1
    <2>2. cells[k] \in Seq(Nat) /\ cells[k + 1] = More(cells[k], k + 1)
      BY ONLY <2>4, <2>5, <2>6
    <2>3. QED
      BY <1>3, <2>1, <2>2
  <1>12. n \in U
    <2> HIDE DEF U
    <2>1. QED
      BY <1>1, <1>10, <1>11, SetInduction
  <1>13. QED
    BY <1>1, <1>8, <1>12

(* What a move of the cursor leaves alone.                                 *)
SameText(e, e2) == SameView(e, e2) /\ e2.row = e.row /\ e2.dirty = e.dirty

(* Setting the cursor changes nothing else.                                *)
LEMMA CursorAtFact ==
  ASSUME NEW e \in EdText, NEW x \in Nat, NEW y \in Nat
  PROVE  /\ CursorAt(e, x, y) \in EdText /\ SameText(e, CursorAt(e, x, y))
         /\ CursorAt(e, x, y).cx = x /\ CursorAt(e, x, y).cy = y
  BY DEF EdText, SameText, SameView, CursorAt

(* The numbers of a text.                                                  *)
LEMMA TextFact ==
  ASSUME NEW e \in EdText
  PROVE  /\ e.cx \in Nat /\ e.cy \in Nat /\ e.vx \in Nat /\ e.vy \in Nat /\ e.rx \in Nat /\ e.rows \in Nat
         /\ e.cols \in Nat /\ nrows(e) \in Nat /\ e.row \in Seq(EdRow)
         /\ \A y \in Nat : y < nrows(e) => e.row[y + 1] \in EdRow /\ e.row[y + 1].chars \in Seq(Nat) /\ RowLen(e, y) \in Nat
  <1>1. e.row \in Seq(EdRow)
    BY DEF EdText
  <1>2. nrows(e) \in Nat
    BY <1>1 DEF nrows
  <1>3. ASSUME NEW y \in Nat, y < nrows(e)
        PROVE  e.row[y + 1] \in EdRow /\ e.row[y + 1].chars \in Seq(Nat) /\ RowLen(e, y) \in Nat
    <2>1. y + 1 \in 1 .. Len(e.row)
      BY <1>2, <1>3 DEF nrows
    <2>2. e.row[y + 1] \in EdRow
      BY <1>1, <2>1
    <2>3. e.row[y + 1].chars \in Seq(Nat)
      BY <2>2 DEF EdRow
    <2>4. QED
      BY <2>2, <2>3 DEF RowLen
  <1>4. e.cx \in Nat /\ e.cy \in Nat /\ e.vx \in Nat /\ e.vy \in Nat /\ e.rx \in Nat /\ e.rows \in Nat /\ e.cols \in Nat
    BY DEF EdText
  <1>5. QED
    BY <1>1, <1>2, <1>3, <1>4

(* Texts with the same rows have the same number of them, as long.         *)
LEMMA SameRows ==
  ASSUME NEW e, NEW e2, SameText(e, e2)
  PROVE  nrows(e2) = nrows(e) /\ \A y : RowLen(e2, y) = RowLen(e, y)
  BY DEF SameText, nrows, RowLen

(* A move of the cursor leaves it in the text, and changes nothing else.   *)
LEMMA MoveFact ==
  ASSUME NEW e \in EdText, e.cy <= nrows(e), NEW key \in {"up", "down", "left", "right"}
  PROVE  /\ Clipped(Moved(e, key)) \in EdText
         /\ SameText(e, Clipped(Moved(e, key))) /\ InText(Clipped(Moved(e, key)))
  <1> DEFINE m == Moved(e, key)
  <1>1. e.cy \in Nat /\ e.cx \in Nat /\ nrows(e) \in Nat
    BY TextFact
  <1>2. \A y \in Nat : y < nrows(e) => RowLen(e, y) \in Nat
    BY TextFact
  <1>3. \/ m = e
        \/ \E x \in Nat : \E y \in Nat : y <= nrows(e) /\ m = CursorAt(e, x, y)
    <2>1. CASE key = "up"
      <3>1. (IF e.cy > 0 THEN e.cy - 1 ELSE 0) \in Nat /\ (IF e.cy > 0 THEN e.cy - 1 ELSE 0) <= nrows(e)
        BY <1>1
      <3>2. m = CursorAt(e, e.cx, IF e.cy > 0 THEN e.cy - 1 ELSE 0)
        BY <2>1 DEF Moved
      <3>3. QED
        BY <1>1, <3>1, <3>2
    <2>2. CASE key = "down"
      <3>1. Least(e.cy + 1, nrows(e)) \in Nat /\ Least(e.cy + 1, nrows(e)) <= nrows(e)
        BY <1>1 DEF Least
      <3>2. m = CursorAt(e, e.cx, Least(e.cy + 1, nrows(e)))
        BY <2>2 DEF Moved
      <3>3. QED
        BY <1>1, <3>1, <3>2
    <2>3. CASE key = "left"
      <3>1. m = IF e.cx > 0 THEN CursorAt(e, e.cx - 1, e.cy)
                ELSE IF e.cy > 0 THEN CursorAt(e, RowLen(e, e.cy - 1), e.cy - 1) ELSE e
        BY <2>3 DEF Moved
      <3>2. /\ e.cx > 0 => e.cx - 1 \in Nat
            /\ e.cy > 0 => e.cy - 1 \in Nat /\ e.cy - 1 <= nrows(e) /\ RowLen(e, e.cy - 1) \in Nat
        BY <1>1, <1>2
      <3>3. QED
        BY <1>1, <3>1, <3>2
    <2>4. CASE key = "right"
      <3>1. m = IF e.cy >= nrows(e) THEN e
                ELSE IF e.cx < RowLen(e, e.cy) THEN CursorAt(e, e.cx + 1, e.cy) ELSE CursorAt(e, 0, e.cy + 1)
        BY <2>4 DEF Moved
      <3>2. e.cx + 1 \in Nat /\ e.cy + 1 \in Nat /\ 0 \in Nat /\ (~ e.cy >= nrows(e) => e.cy + 1 <= nrows(e))
        BY <1>1
      <3>3. QED
        BY <1>1, <3>1, <3>2
    <2>5. QED
      BY <2>1, <2>2, <2>3, <2>4
  <1> HIDE DEF m
  <1>4. m \in EdText /\ SameText(e, m) /\ m.cy <= nrows(e)
    <2>1. CASE m = e
      BY <2>1 DEF SameText, SameView
    <2>2. ASSUME NEW x \in Nat, NEW y \in Nat, y <= nrows(e), m = CursorAt(e, x, y)
          PROVE  m \in EdText /\ SameText(e, m) /\ m.cy <= nrows(e)
      BY <2>2, CursorAtFact
    <2>3. QED
      BY <1>3, <2>1, <2>2
  <1>5. nrows(m) = nrows(e) /\ \A y : RowLen(m, y) = RowLen(e, y)
    BY <1>4, SameRows
  <1>6. m.cx \in Nat /\ m.cy \in Nat
    BY <1>4, TextFact
  <1> DEFINE x == IF m.cy < nrows(m) THEN Least(m.cx, RowLen(m, m.cy)) ELSE 0
             c == Clipped(m)
  <1>7. x \in Nat /\ x <= IF m.cy < nrows(m) THEN RowLen(m, m.cy) ELSE 0
    BY <1>1, <1>2, <1>5, <1>6 DEF Least
  <1>8. c = CursorAt(m, x, m.cy)
    BY DEF Clipped
  <1> HIDE DEF x, c
  <1>9. c \in EdText /\ SameText(m, c) /\ c.cx = x /\ c.cy = m.cy
    <2>1. PICK px \in Nat, py \in Nat : px = x /\ py = m.cy
      BY <1>6, <1>7
    <2>2. PICK d : d = CursorAt(m, px, py)
      OBVIOUS
    <2>3. d \in EdText /\ SameText(m, d) /\ d.cx = px /\ d.cy = py
      BY <1>4, <2>2, CursorAtFact
    <2>4. c = d
      BY <1>8, <2>1, <2>2
    <2>5. QED
      BY ONLY <2>1, <2>3, <2>4
  <1>10. nrows(c) = nrows(m) /\ \A y : RowLen(c, y) = RowLen(m, y)
    BY <1>9, SameRows
  <1>11. SameText(e, c)
    BY <1>4, <1>9 DEF SameText, SameView
  <1>12. InText(c)
    BY <1>4, <1>5, <1>7, <1>9, <1>10 DEF InText
  <1>13. QED
    BY <1>9, <1>11, <1>12 DEF m, c

(* So does any number of them, if it is not 0.                             *)
LEMMA MovesFact ==
  ASSUME NEW e \in EdText, e.cy <= nrows(e), NEW key \in {"up", "down", "left", "right"}, NEW n \in Nat \ {0}
  PROVE  /\ edit_cursorMove(e, key, n) \in EdText
         /\ SameText(e, edit_cursorMove(e, key, n)) /\ InText(edit_cursorMove(e, key, n))
  <1> DEFINE X == {m \in EdText : SameText(e, m) /\ m.cy <= nrows(m)}
             step(m) == Clipped(Moved(m, key))
             Is(f) == f = [i \in 0 .. n |-> IF i = 0 THEN e ELSE step(f[i - 1])]
             at == CHOOSE f : Is(f)
             g == [p \in (1 .. n) \X X |-> step(p[2])]
  <1>1. e \in X
    BY DEF SameText, SameView
  <1>2. ASSUME NEW m \in X PROVE step(m) \in X /\ InText(step(m))
    <2>1. m \in EdText /\ SameText(e, m) /\ m.cy <= nrows(m)
      OBVIOUS
    <2>2. step(m) \in EdText /\ SameText(m, step(m)) /\ InText(step(m))
      BY <2>1, MoveFact
    <2> HIDE DEF step
    <2>3. SameText(e, step(m)) /\ step(m).cy <= nrows(step(m))
      BY <2>1, <2>2 DEF SameText, SameView, InText
    <2>4. QED
      BY <2>2, <2>3
  <1>3. \A i \in 1 .. n : \A m \in X : g[<<i, m>>] = step(m)
    OBVIOUS
  <1>4. \A m \in X : m \in EdText /\ SameText(e, m)
    OBVIOUS
  <1> HIDE DEF X, step, g, Is, at
  <1>5. PICK f \in [0 .. n -> X] : Recursive(f, g, n, e)
    <2>1. StepsIn(g, n, X)
      BY <1>2, <1>3 DEF StepsIn
    <2>2. QED
      BY <1>1, <2>1, Recursion
  <1>6. ASSUME NEW i \in 1 .. n PROVE f[i] = step(f[i - 1])
    <2>1. i - 1 \in 0 .. n
      OBVIOUS
    <2>2. f[i - 1] \in X
      BY <1>5, <2>1
    <2>3. QED
      BY <1>3, <1>5, <2>2 DEF Recursive
  <1>7. Is(f)
    <2>1. f = [i \in 0 .. n |-> f[i]]
      BY <1>5
    <2>2. ASSUME NEW i \in 0 .. n
          PROVE  f[i] = IF i = 0 THEN e ELSE step(f[i - 1])
      <3>1. CASE i = 0
        BY <3>1, <1>5 DEF Recursive
      <3>2. CASE i # 0
        <4>1. i \in 1 .. n
          BY <3>2
        <4>2. QED
          BY <4>1, <3>2, <1>6
      <3>3. QED
        BY <3>1, <3>2
    <2>3. QED
      BY <2>1, <2>2 DEF Is
  <1>8. Is(at)
    BY <1>7 DEF at
  <1>9. edit_cursorMove(e, key, n) = at[n]
    BY DEF edit_cursorMove, at, Is, step
  <1>10. /\ at[0] = e
         /\ \A i \in 1 .. n : at[i] = step(at[i - 1])
    <2>1. 0 \in 0 .. n /\ \A i \in 1 .. n : i \in 0 .. n /\ i # 0
      OBVIOUS
    <2>2. \A i \in 0 .. n : at[i] = IF i = 0 THEN e ELSE step(at[i - 1])
      BY <1>8 DEF Is
    <2>3. QED
      BY <2>1, <2>2
  <1> DEFINE U == {k \in Nat : k <= n => at[k] \in X}
  <1>11. 0 \in U
    BY <1>1, <1>10
  <1>12. ASSUME NEW k \in Nat, k \in U PROVE k + 1 \in U
    <2> SUFFICES ASSUME k + 1 <= n PROVE at[k + 1] \in X
      OBVIOUS
    <2>1. k + 1 \in 1 .. n /\ (k + 1) - 1 = k /\ k <= n
      OBVIOUS
    <2>2. at[k + 1] = step(at[(k + 1) - 1])
      BY <1>10, <2>1
    <2>3. at[k] \in X
      BY <1>12, <2>1
    <2>4. at[k + 1] = step(at[k])
      BY <2>1, <2>2
    <2>5. QED
      BY <1>2, <2>3, <2>4
  <1>13. \A k \in 0 .. n : at[k] \in X
    <2>1. \A k \in Nat : k \in U
      <3> HIDE DEF U
      <3>1. QED
        BY <1>11, <1>12, SetInduction
    <2>2. QED
      BY <2>1
  <1>14. at[n - 1] \in X /\ at[n] = step(at[n - 1])
    <2>1. n \in 1 .. n /\ n - 1 \in 0 .. n
      OBVIOUS
    <2>2. QED
      BY <1>10, <1>13, <2>1
  <1>15. at[n] \in X /\ InText(at[n])
    BY <1>2, <1>14
  <1>16. QED
    BY <1>4, <1>9, <1>15

(* Rows that are touched are the same text.                                *)
LEMMA TouchFact ==
  ASSUME NEW rows \in Seq(EdRow), NEW pos \in Nat
  PROVE  /\ TouchedFrom(rows, pos) \in Seq(EdRow) /\ Len(TouchedFrom(rows, pos)) = Len(rows)
         /\ \A i \in 1 .. Len(rows) : /\ TouchedFrom(rows, pos)[i].chars = rows[i].chars
                                      /\ i > pos => TouchedFrom(rows, pos)[i].updated
                                      /\ i <= pos => TouchedFrom(rows, pos)[i] = rows[i]
  <1> DEFINE n == Len(rows)
             t == TouchedFrom(rows, pos)
  <1>1. n \in Nat /\ DOMAIN rows = 1 .. n /\ \A i \in 1 .. n : rows[i] \in EdRow
    OBVIOUS
  <1>2. t = [i \in 1 .. n |-> IF i > pos THEN [rows[i] EXCEPT !.updated = TRUE] ELSE rows[i]]
    BY <1>1 DEF TouchedFrom
  <1> HIDE DEF n, t
  <1>3. \A i \in 1 .. n : /\ t[i] \in EdRow /\ t[i].chars = rows[i].chars
                          /\ i > pos => t[i].updated
                          /\ i <= pos => t[i] = rows[i]
    <2> SUFFICES ASSUME NEW i \in 1 .. n
                 PROVE  /\ t[i] \in EdRow /\ t[i].chars = rows[i].chars
                        /\ i > pos => t[i].updated
                        /\ i <= pos => t[i] = rows[i]
      OBVIOUS
    <2>1. i \in Nat /\ rows[i] \in EdRow
      BY <1>1
    <2>2. CASE i > pos
      <3>1. t[i] = [rows[i] EXCEPT !.updated = TRUE]
        BY <1>2, <2>2
      <3>2. QED
        <4>1. PICK r \in EdRow : r = rows[i]
          BY <2>1
        <4>2. t[i] = [r EXCEPT !.updated = TRUE]
          BY <3>1, <4>1
        <4>3. t[i] \in EdRow /\ t[i].chars = r.chars /\ t[i].updated
          BY <4>2 DEF EdRow
        <4>4. QED
          BY <2>1, <2>2, <4>1, <4>3
    <2>3. CASE ~ (i > pos)
      BY <1>2, <2>1, <2>3
    <2>4. QED
      BY <2>2, <2>3
  <1>4. t \in [1 .. n -> EdRow]
    BY <1>2, <1>3
  <1>5. t \in Seq(EdRow)
    BY <1>1, <1>4, SeqDef
  <1>6. Len(t) = n
    <2>1. DOMAIN t = 1 .. n
      BY <1>4
    <2>2. QED
      BY <1>1, <1>5, <2>1, LenProperties
  <1>7. QED
    BY <1>3, <1>5, <1>6 DEF n, t

(* A row put among the others.                                             *)
LEMMA InsertFact ==
  ASSUME NEW T, NEW s \in Seq(T), NEW x \in T, NEW p \in 1 .. Len(s) + 1
  PROVE  /\ InsertAt(s, p, x) \in Seq(T) /\ Len(InsertAt(s, p, x)) = Len(s) + 1
         /\ InsertAt(s, p, x)[p] = x
         /\ \A i \in 1 .. p - 1 : InsertAt(s, p, x)[i] = s[i]
  <1> DEFINE a == SubSeq(s, 1, p - 1)
             c == SubSeq(s, p, Len(s))
             b == a \o <<x>>
  <1>1. Len(s) \in Nat /\ p \in Nat /\ 1 <= p /\ p <= Len(s) + 1
    OBVIOUS
  <1>2. a \in Seq(T) /\ Len(a) = p - 1 /\ \A i \in 1 .. p - 1 : a[i] = s[i]
    BY <1>1
  <1>3. c \in Seq(T) /\ Len(c) = Len(s) - p + 1
    BY <1>1
  <1>4. InsertAt(s, p, x) = b \o c
    BY DEF InsertAt
  <1> HIDE DEF a, c
  <1>5. <<x>> \in Seq(T) /\ Len(<<x>>) = 1 /\ <<x>>[1] = x
    OBVIOUS
  <1>6. /\ b \in Seq(T) /\ Len(b) = p /\ b[p] = x
        /\ \A i \in 1 .. p - 1 : b[i] = s[i]
    BY <1>1, <1>2, <1>5
  <1> HIDE DEF b
  <1>7. /\ b \o c \in Seq(T) /\ Len(b \o c) = Len(b) + Len(c)
        /\ \A i \in 1 .. Len(b) : (b \o c)[i] = b[i]
    <2>1. PICK u \in Seq(T), v \in Seq(T) : u = b /\ v = c
      BY <1>3, <1>6
    <2>2. /\ u \o v \in Seq(T) /\ Len(u \o v) = Len(u) + Len(v)
          /\ \A i \in 1 .. Len(u) : (u \o v)[i] = u[i]
      OBVIOUS
    <2>3. QED
      BY <2>1, <2>2
  <1>8. QED
    BY <1>1, <1>3, <1>4, <1>6, <1>7

(* A row taken from the others.                                            *)
LEMMA RemoveFact ==
  ASSUME NEW T, NEW s \in Seq(T), NEW p \in 1 .. Len(s)
  PROVE  /\ RemoveAt(s, p) \in Seq(T) /\ Len(RemoveAt(s, p)) = Len(s) - 1
         /\ \A i \in 1 .. p - 1 : RemoveAt(s, p)[i] = s[i]
  <1> DEFINE a == SubSeq(s, 1, p - 1)
             c == SubSeq(s, p + 1, Len(s))
  <1>1. Len(s) \in Nat /\ p \in Nat /\ 1 <= p /\ p <= Len(s)
    OBVIOUS
  <1>2. a \in Seq(T) /\ Len(a) = p - 1 /\ \A i \in 1 .. p - 1 : a[i] = s[i]
    BY <1>1
  <1>3. c \in Seq(T) /\ Len(c) = Len(s) - p
    BY <1>1
  <1>4. RemoveAt(s, p) = a \o c
    BY DEF RemoveAt
  <1> HIDE DEF a, c
  <1>5. /\ a \o c \in Seq(T) /\ Len(a \o c) = Len(a) + Len(c)
        /\ \A i \in 1 .. Len(a) : (a \o c)[i] = a[i]
    BY <1>2, <1>3
  <1>6. QED
    BY <1>1, <1>2, <1>3, <1>4, <1>5

(* Each row of e2 is one of e where it was, or has been touched; and the   *)
(* text is dirty.                                                          *)
Edited(e, e2, n) ==
  /\ e2 \in EdText /\ SameView(e, e2) /\ e2.dirty /\ nrows(e2) = n
  /\ \A i \in 1 .. n : e2.row[i].updated \/ (i <= nrows(e) /\ e2.row[i] = e.row[i])

(* Rows and mark set.                                                      *)
LEMMA NewRowsFact ==
  ASSUME NEW e \in EdText, NEW rows \in Seq(EdRow)
  PROVE  /\ NewRows(e, rows) \in EdText /\ SameView(e, NewRows(e, rows)) /\ NewRows(e, rows).dirty
         /\ NewRows(e, rows).row = rows /\ NewRows(e, rows).replace = e.replace
  BY DEF EdText, SameView, NewRows

(* edit_rowInsert: the rows after the new one are touched, those before it *)
(* are what they were.                                                     *)
LEMMA RowInsertFact ==
  ASSUME NEW e \in EdText, NEW pos \in Nat, pos <= nrows(e), NEW text \in Seq(Nat)
  PROVE  LET e2 == edit_rowInsert(e, pos, text)
         IN /\ Edited(e, e2, nrows(e) + 1) /\ e2.row[pos + 1].chars = text /\ e2.replace = e.replace
            /\ \A i \in 1 .. pos : e2.row[i] = e.row[i]
  <1> DEFINE rows == e.row
             ins == InsertAt(rows, pos + 1, Fresh(text))
             new == TouchedFrom(ins, pos)
             e2 == edit_rowInsert(e, pos, text)
  <1>1. rows \in Seq(EdRow) /\ Len(rows) = nrows(e) /\ nrows(e) \in Nat
    BY TextFact DEF nrows
  <1>2. Fresh(text) \in EdRow /\ Fresh(text).chars = text
    BY DEF Fresh, EdRow
  <1>3. pos + 1 \in 1 .. Len(rows) + 1 /\ (pos + 1) - 1 = pos
    BY <1>1
  <1>4. /\ ins \in Seq(EdRow) /\ Len(ins) = nrows(e) + 1 /\ ins[pos + 1] = Fresh(text)
        /\ \A i \in 1 .. pos : ins[i] = rows[i]
    <2>1. PICK s \in Seq(EdRow), x \in EdRow : s = rows /\ x = Fresh(text)
      BY <1>1, <1>2
    <2>2. PICK p \in 1 .. Len(s) + 1 : p = pos + 1
      BY <1>3, <2>1
    <2>3. PICK t : t = InsertAt(s, p, x)
      OBVIOUS
    <2>4. t \in Seq(EdRow) /\ Len(t) = Len(s) + 1 /\ t[p] = x /\ \A i \in 1 .. p - 1 : t[i] = s[i]
      BY <2>3, InsertFact
    <2>5. t = ins
      BY <2>1, <2>2, <2>3
    <2>6. Len(s) = nrows(e) /\ p - 1 = pos
      BY <1>1, <1>3, <2>1, <2>2
    <2> HIDE DEF ins, rows
    <2>7. QED
      BY <2>1, <2>2, <2>4, <2>5, <2>6
  <1>5. e2 = NewRows(e, new)
    BY DEF edit_rowInsert
  <1> HIDE DEF ins
  <1>6. /\ new \in Seq(EdRow) /\ Len(new) = Len(ins)
        /\ \A i \in 1 .. Len(ins) : /\ new[i].chars = ins[i].chars
                                    /\ i > pos => new[i].updated
                                    /\ i <= pos => new[i] = ins[i]
    BY <1>4, TouchFact
  <1> HIDE DEF new, e2
  <1>7. e2 \in EdText /\ SameView(e, e2) /\ e2.dirty /\ e2.row = new /\ e2.replace = e.replace
    BY <1>5, <1>6, NewRowsFact
  <1>8. nrows(e2) = nrows(e) + 1
    BY <1>4, <1>6, <1>7 DEF nrows
  <1>9. \A i \in 1 .. pos : e2.row[i] = e.row[i]
    BY <1>1, <1>4, <1>6, <1>7 DEF rows
  <1>10. e2.row[pos + 1].chars = text
    BY <1>1, <1>2, <1>4, <1>6, <1>7
  <1>11. ASSUME NEW i \in 1 .. nrows(e) + 1
         PROVE  e2.row[i].updated \/ (i <= nrows(e) /\ e2.row[i] = e.row[i])
    <2>1. CASE i > pos
      <3>1. i \in 1 .. Len(ins)
        BY <1>4
      <3>2. QED
        BY <3>1, <2>1, <1>6, <1>7
    <2>2. CASE i <= pos
      <3>1. i \in 1 .. pos /\ i <= nrows(e)
        BY <2>2, <1>1
      <3>2. QED
        BY <3>1, <1>9
    <2>3. QED
      BY <2>1, <2>2, <1>1
  <1>12. QED
    BY <1>7, <1>8, <1>9, <1>10, <1>11 DEF Edited, e2

(* edit_rowDelete: the rows after it move up and are touched.              *)
LEMMA RowDeleteFact ==
  ASSUME NEW e \in EdText, NEW y \in Nat, y < nrows(e)
  PROVE  /\ Edited(e, edit_rowDelete(e, y), nrows(e) - 1)
         /\ \A i \in 1 .. y : edit_rowDelete(e, y).row[i] = e.row[i]
  <1> DEFINE rows == e.row
             del == RemoveAt(rows, y + 1)
             new == TouchedFrom(del, y)
             e2 == edit_rowDelete(e, y)
  <1>1. rows \in Seq(EdRow) /\ Len(rows) = nrows(e) /\ nrows(e) \in Nat
    BY TextFact DEF nrows
  <1>3. y + 1 \in 1 .. Len(rows) /\ (y + 1) - 1 = y
    BY <1>1
  <1>4. /\ del \in Seq(EdRow) /\ Len(del) = nrows(e) - 1
        /\ \A i \in 1 .. y : del[i] = rows[i]
    <2> HIDE DEF rows
    <2>1. QED
      BY <1>1, <1>3, RemoveFact
  <1>5. e2 = NewRows(e, new)
    BY <1>1 DEF edit_rowDelete
  <1> HIDE DEF del
  <1>6. /\ new \in Seq(EdRow) /\ Len(new) = Len(del)
        /\ \A i \in 1 .. Len(del) : /\ new[i].chars = del[i].chars
                                    /\ i > y => new[i].updated
                                    /\ i <= y => new[i] = del[i]
    BY <1>4, TouchFact
  <1> HIDE DEF new, e2
  <1>7. e2 \in EdText /\ SameView(e, e2) /\ e2.dirty /\ e2.row = new
    BY <1>5, <1>6, NewRowsFact
  <1>8. nrows(e2) = nrows(e) - 1
    BY <1>4, <1>6, <1>7 DEF nrows
  <1>9. \A i \in 1 .. y : e2.row[i] = e.row[i]
    BY <1>1, <1>4, <1>6, <1>7 DEF rows
  <1>11. \A i \in 1 .. nrows(e) - 1 : e2.row[i].updated \/ (i <= nrows(e) /\ e2.row[i] = e.row[i])
    BY <1>1, <1>4, <1>6, <1>7, <1>9
  <1>12. QED
    BY <1>7, <1>8, <1>9, <1>11 DEF Edited, e2

(* A row that is rewritten is touched, and no other row changes.           *)
LEMMA RewrittenFact ==
  ASSUME NEW e \in EdText, NEW y \in Nat, y < nrows(e), NEW text \in Seq(Nat)
  PROVE  Edited(e, Rewritten(e, y, text), nrows(e)) /\ Rewritten(e, y, text).row[y + 1].chars = text
  <1> DEFINE rows == e.row
             new == [rows EXCEPT ![y + 1] = Fresh(text)]
             e2 == Rewritten(e, y, text)
  <1>1. rows \in Seq(EdRow) /\ Len(rows) = nrows(e) /\ nrows(e) \in Nat
    BY TextFact DEF nrows
  <1>2. Fresh(text) \in EdRow /\ Fresh(text).chars = text /\ Fresh(text).updated
    BY DEF Fresh, EdRow
  <1>3. y + 1 \in 1 .. Len(rows)
    BY <1>1
  <1>4. /\ new \in Seq(EdRow) /\ Len(new) = nrows(e) /\ new[y + 1] = Fresh(text)
        /\ \A i \in 1 .. nrows(e) : i # y + 1 => new[i] = rows[i]
    <2> HIDE DEF rows
    <2>1. QED
      BY <1>1, <1>2, <1>3
  <1>5. e2 = NewRows(e, new)
    BY DEF Rewritten
  <1> HIDE DEF new, e2
  <1>7. e2 \in EdText /\ SameView(e, e2) /\ e2.dirty /\ e2.row = new
    BY <1>4, <1>5, NewRowsFact
  <1>8. nrows(e2) = nrows(e)
    BY <1>4, <1>7 DEF nrows
  <1>9. \A i \in 1 .. nrows(e) : e2.row[i].updated \/ (i <= nrows(e) /\ e2.row[i] = e.row[i])
    BY <1>1, <1>2, <1>4, <1>7 DEF rows
  <1>10. QED
    BY <1>2, <1>4, <1>7, <1>8, <1>9 DEF Edited, e2

(* What a key makes of a text that is in view.                             *)
Owes(e, e2) == e2 \in EdText /\ SameView(e, e2) /\ Touches(e, e2) /\ Marks(e, e2)
Result(e, e2) == Owes(e, e2) /\ InText(e2)

(* Another cursor on the same text owes nothing, wherever it is.           *)
LEMMA SameOwes ==
  ASSUME NEW e \in EdText, NEW e2 \in EdText, SameText(e, e2)
  PROVE  Owes(e, e2)
  <1>1. nrows(e2) = nrows(e) /\ nrows(e) \in Nat
    BY SameRows, TextFact
  <1>2. e.dirty \in BOOLEAN /\ e2.dirty = e.dirty /\ e2.row = e.row
    BY DEF SameText, EdText
  <1>3. Touches(e, e2) /\ Marks(e, e2)
    BY <1>1, <1>2 DEF Touches, Marks
  <1>4. QED
    BY <1>3 DEF Owes, SameText

(* A move of the cursor owes nothing.                                      *)
LEMMA MovedResult ==
  ASSUME NEW e \in EdText, NEW e2 \in EdText, SameText(e, e2), InText(e2)
  PROVE  Result(e, e2)
  BY SameOwes DEF Result

(* An edit, and the cursor put where there is text.                        *)
LEMMA EditedResult ==
  ASSUME NEW e \in EdText, NEW e1, NEW n \in Nat, Edited(e, e1, n), n >= nrows(e) - 1,
         NEW x \in Nat, NEW y \in Nat, y <= n, x <= IF y < n THEN RowLen(e1, y) ELSE 0
  PROVE  Result(e, CursorAt(e1, x, y))
  <1> DEFINE c == CursorAt(e1, x, y)
  <1>1. e1 \in EdText /\ SameView(e, e1) /\ e1.dirty /\ nrows(e1) = n
        /\ \A i \in 1 .. n : e1.row[i].updated \/ (i <= nrows(e) /\ e1.row[i] = e.row[i])
    BY DEF Edited
  <1>2. c \in EdText /\ SameText(e1, c) /\ c.cx = x /\ c.cy = y
    <2>1. PICK d \in EdText : d = e1
      BY <1>1
    <2>2. PICK f : f = CursorAt(d, x, y)
      OBVIOUS
    <2>3. f \in EdText /\ SameText(d, f) /\ f.cx = x /\ f.cy = y
      BY ONLY <2>2, d \in EdText, x \in Nat, y \in Nat, CursorAtFact
    <2>4. f = c
      BY <2>1, <2>2
    <2> HIDE DEF c
    <2>5. QED
      BY ONLY <2>1, <2>3, <2>4
  <1> HIDE DEF c
  <1>3. nrows(c) = n /\ RowLen(c, y) = RowLen(e1, y)
    BY <1>1, <1>2, SameRows
  <1>4. InText(c)
    BY <1>2, <1>3 DEF InText
  <1>5. SameView(e, c) /\ c.row = e1.row /\ c.dirty
    BY <1>1, <1>2 DEF SameText, SameView
  <1>6. Touches(e, c) /\ Marks(e, c)
    BY <1>1, <1>3, <1>5 DEF Touches, Marks
  <1>7. QED
    BY <1>2, <1>4, <1>5, <1>6 DEF Result, Owes, c

(* Two edits are one.                                                      *)
LEMMA EditedTwice ==
  ASSUME NEW e \in EdText, NEW e1, NEW e2, NEW n1 \in Nat, NEW n2 \in Nat, Edited(e, e1, n1), Edited(e1, e2, n2)
  PROVE  Edited(e, e2, n2)
  <1>1. SameView(e, e2)
    BY DEF Edited, SameView
  <1>2. ASSUME NEW i \in 1 .. n2 PROVE e2.row[i].updated \/ (i <= nrows(e) /\ e2.row[i] = e.row[i])
    <2>1. e2.row[i].updated \/ (i <= n1 /\ e2.row[i] = e1.row[i])
      BY DEF Edited
    <2>2. i <= n1 => i \in 1 .. n1
      OBVIOUS
    <2>3. i <= n1 => e1.row[i].updated \/ (i <= nrows(e) /\ e1.row[i] = e.row[i])
      BY <2>2 DEF Edited
    <2>4. QED
      BY <2>1, <2>3
  <1>3. e2 \in EdText /\ e2.dirty /\ nrows(e2) = n2
    BY DEF Edited
  <1>4. QED
    BY <1>1, <1>2, <1>3 DEF Edited

(* A character typed.                                                      *)
LEMMA InsertCharFact ==
  ASSUME NEW e \in EdText, InText(e), NEW ch \in Nat
  PROVE  Result(e, edit_insertChar(e, ch))
  <1> DEFINE e1 == IF e.cy = nrows(e) THEN edit_rowInsert(e, nrows(e), <<>>) ELSE e
             text == e1.row[e.cy + 1].chars
             rest == SubSeq(text, IF e1.replace THEN e.cx + 2 ELSE e.cx + 1, Len(text))
             line == SubSeq(text, 1, e.cx) \o <<ch>> \o rest
             e2 == Rewritten(e1, e.cy, line)
  <1>1. e.cy \in Nat /\ e.cx \in Nat /\ nrows(e) \in Nat /\ e.cy <= nrows(e)
    BY TextFact DEF InText
  <1>2. \E n \in Nat : /\ n >= nrows(e) /\ e.cy < n /\ nrows(e1) = n /\ e1 \in EdText
                       /\ e1 = e \/ Edited(e, e1, n)
                       /\ e.cx <= RowLen(e1, e.cy)
    <2>1. CASE e.cy = nrows(e)
      <3>1. e1 = edit_rowInsert(e, nrows(e), <<>>)
        BY <2>1
      <3> HIDE DEF e1
      <3>2. Edited(e, e1, nrows(e) + 1) /\ e1.row[nrows(e) + 1].chars = <<>>
        <4>1. <<>> \in Seq(Nat) /\ nrows(e) <= nrows(e)
          BY <1>1
        <4>2. QED
          BY <1>1, <3>1, <4>1, RowInsertFact
      <3>3. e.cx = 0 /\ RowLen(e1, e.cy) = 0
        BY <1>1, <2>1, <3>2 DEF InText, RowLen
      <3>4. nrows(e1) = nrows(e) + 1 /\ e1 \in EdText
        BY <3>2 DEF Edited
      <3>5. nrows(e) + 1 \in Nat /\ nrows(e) + 1 >= nrows(e) /\ e.cy < nrows(e) + 1
        BY <1>1
      <3>6. QED
        BY <3>2, <3>3, <3>4, <3>5
    <2>2. CASE e.cy # nrows(e)
      <3>1. e1 = e
        BY <2>2
      <3> HIDE DEF e1
      <3>2. QED
        BY <1>1, <2>2, <3>1 DEF InText
    <2>3. QED
      BY <2>1, <2>2
  <1>3. PICK n \in Nat : /\ n >= nrows(e) /\ e.cy < n /\ nrows(e1) = n /\ e1 \in EdText
                         /\ e1 = e \/ Edited(e, e1, n)
                         /\ e.cx <= RowLen(e1, e.cy)
    BY <1>2
  <1>4. edit_insertChar(e, ch) = CursorAt(e2, e.cx + 1, e.cy)
    BY DEF edit_insertChar, edit_rowInsertChar
  <1> HIDE DEF e1
  <1>5. text \in Seq(Nat) /\ e.cx <= Len(text) /\ Len(text) \in Nat
    BY <1>1, <1>3, TextFact DEF RowLen
  <1> HIDE DEF text
  <1>6. line \in Seq(Nat) /\ Len(line) >= e.cx + 1
    <2>1. PICK k \in Nat : k >= 1 /\ rest = SubSeq(text, k, Len(text))
      <3>1. e.cx + 2 \in Nat /\ e.cx + 1 \in Nat /\ e.cx + 2 >= 1 /\ e.cx + 1 >= 1
        BY <1>1
      <3>2. QED
        BY <3>1
    <2> HIDE DEF rest
    <2>2. rest \in Seq(Nat) /\ Len(rest) \in Nat
      <3>1. SubSeq(text, k, Len(text)) \in Seq(Nat)
        BY <1>5, <2>1
      <3>2. QED
        BY <2>1, <3>1
    <2>3. SubSeq(text, 1, e.cx) \in Seq(Nat) /\ Len(SubSeq(text, 1, e.cx)) = e.cx
      BY <1>1, <1>5
    <2>4. <<ch>> \in Seq(Nat) /\ Len(<<ch>>) = 1
      OBVIOUS
    <2>5. PICK a \in Seq(Nat), b \in Seq(Nat), c \in Seq(Nat) :
             a = SubSeq(text, 1, e.cx) /\ b = <<ch>> /\ c = rest
      BY <2>2, <2>3, <2>4
    <2>6. line = (a \o b) \o c /\ Len(a) = e.cx /\ Len(b) = 1 /\ Len(c) \in Nat
      BY <2>2, <2>3, <2>4, <2>5
    <2>7. (a \o b) \o c \in Seq(Nat) /\ Len((a \o b) \o c) = Len(a) + Len(b) + Len(c)
      OBVIOUS
    <2> HIDE DEF line
    <2>8. QED
      BY <1>1, <2>6, <2>7
  <1> HIDE DEF line
  <1>7. Edited(e1, e2, n) /\ e2.row[e.cy + 1].chars = line
    BY <1>1, <1>3, <1>6, RewrittenFact
  <1> HIDE DEF e2
  <1>8. Edited(e, e2, n)
    <2>1. CASE e1 = e
      BY <1>7, <2>1
    <2>2. CASE Edited(e, e1, n)
      BY <1>7, <2>2, EditedTwice
    <2>3. QED
      BY <1>3, <2>1, <2>2
  <1>9. e.cx + 1 \in Nat /\ e.cy \in Nat /\ e.cy <= n /\ n >= nrows(e) - 1
        /\ e.cx + 1 <= IF e.cy < n THEN RowLen(e2, e.cy) ELSE 0
    BY <1>1, <1>3, <1>6, <1>7 DEF RowLen
  <1>10. QED
    BY <1>4, <1>8, <1>9, EditedResult

(* A character or the end of a row deleted.                                *)
LEMMA DeleteCharFact ==
  ASSUME NEW e \in EdText, InText(e)
  PROVE  Result(e, edit_deleteChar(e))
  <1> DEFINE n == nrows(e)
  <1>1. e.cy \in Nat /\ e.cx \in Nat /\ n \in Nat /\ e.cy <= n
    BY TextFact DEF InText
  <1>2. CASE n = 1 /\ RowLen(e, 0) = 0
    <2>1. edit_deleteChar(e) = CursorAt(edit_rowDelete(e, 0), 0, 0)
      BY <1>2 DEF edit_deleteChar
    <2>2. Edited(e, edit_rowDelete(e, 0), 0)
      <3>1. Edited(e, edit_rowDelete(e, 0), n - 1)
        BY <1>2, RowDeleteFact
      <3>2. n - 1 = 0
        BY <1>2
      <3>3. QED
        BY <3>1, <3>2
    <2>3. 0 \in Nat /\ 0 >= n - 1 /\ 0 <= 0 /\ 0 <= IF 0 < 0 THEN RowLen(edit_rowDelete(e, 0), 0) ELSE 0
      BY <1>2
    <2>4. QED
      BY <2>1, <2>2, <2>3, EditedResult
  <1>3. CASE ~ (n = 1 /\ RowLen(e, 0) = 0) /\ e.cx = 0 /\ e.cy = 0
    <2>1. edit_deleteChar(e) = e
      BY <1>3 DEF edit_deleteChar
    <2>2. SameText(e, e)
      BY DEF SameText, SameView
    <2>3. QED
      BY <2>1, <2>2, MovedResult
  <1>4. CASE ~ (n = 1 /\ RowLen(e, 0) = 0) /\ e.cx > 0
    <2> DEFINE text == e.row[e.cy + 1].chars
               less == RemoveAt(text, e.cx)
               e2 == Rewritten(e, e.cy, less)
    <2>1. edit_deleteChar(e) = CursorAt(e2, e.cx - 1, e.cy)
      <3>1. (e.cx - 1) + 1 = e.cx
        BY <1>1
      <3>2. edit_rowDeleteChar(e, e.cx - 1, e.cy) = Rewritten(e, e.cy, RemoveAt(text, (e.cx - 1) + 1))
        BY DEF edit_rowDeleteChar
      <3>3. edit_rowDeleteChar(e, e.cx - 1, e.cy) = e2
        BY <3>1, <3>2
      <3>4. ~ (e.cx = 0 /\ e.cy = 0)
        BY <1>1, <1>4
      <3> HIDE DEF e2
      <3>5. QED
        BY <1>4, <3>3, <3>4 DEF edit_deleteChar
    <2>2. e.cy < n /\ e.cx <= RowLen(e, e.cy)
      BY <1>1, <1>4 DEF InText
    <2>3. text \in Seq(Nat) /\ e.cx \in 1 .. Len(text) /\ Len(text) \in Nat
      BY <1>1, <1>4, <2>2, TextFact DEF RowLen
    <2> HIDE DEF text
    <2>4. less \in Seq(Nat) /\ Len(less) = Len(text) - 1
      BY <2>3, RemoveFact
    <2> HIDE DEF less
    <2>5. Edited(e, e2, n) /\ e2.row[e.cy + 1].chars = less
      BY <1>1, <2>2, <2>4, RewrittenFact
    <2> HIDE DEF e2
    <2>6. e.cx - 1 \in Nat /\ n >= n - 1 /\ e.cx - 1 <= IF e.cy < n THEN RowLen(e2, e.cy) ELSE 0
      <3>1. RowLen(e2, e.cy) = Len(less)
        BY ONLY <2>5 DEF RowLen
      <3>2. Len(less) = Len(text) - 1 /\ Len(text) \in Nat /\ e.cx \in 1 .. Len(text) /\ n \in Nat
        BY ONLY <2>3, <2>4, <1>1
      <3>3. e.cx - 1 \in Nat /\ n >= n - 1 /\ e.cx - 1 <= Len(less)
        BY ONLY <3>2
      <3>4. QED
        BY ONLY <3>1, <3>3, <2>2
    <2>7. QED
      BY <1>1, <2>1, <2>5, <2>6, EditedResult
  <1>5. CASE ~ (n = 1 /\ RowLen(e, 0) = 0) /\ e.cx = 0 /\ e.cy # 0
    <2> DEFINE y == e.cy - 1
               e1 == IF e.cy < nrows(e) THEN edit_rowAppend(e, y, e.row[e.cy + 1].chars) ELSE e
               e2 == edit_rowDelete(e1, e.cy)
    <2>1. edit_deleteChar(e) = CursorAt(e2, RowLen(e, y), y)
      <3>1. ~ (e.cx > 0) /\ ~ (e.cx = 0 /\ e.cy = 0)
        BY <1>5
      <3>2. QED
        BY <1>5, <3>1 DEF edit_deleteChar
    <2>2. y \in Nat /\ y < n /\ y + 1 = e.cy /\ RowLen(e, y) \in Nat
      <3>1. y \in Nat /\ y < n /\ y + 1 = e.cy
        BY <1>1, <1>5
      <3>2. QED
        BY <3>1, TextFact
    <2> HIDE DEF y
    <2>3. CASE e.cy < n
      <3> DEFINE above == e.row[y + 1].chars
                 below == e.row[e.cy + 1].chars
                 line == above \o below
      <3>1. e1 = Rewritten(e, y, line)
        BY <2>3 DEF edit_rowAppend
      <3>2. above \in Seq(Nat) /\ below \in Seq(Nat) /\ Len(above) = RowLen(e, y)
        BY <1>1, <2>2, <2>3, TextFact DEF RowLen
      <3> HIDE DEF above, below, e1
      <3>3. line \in Seq(Nat) /\ Len(line) >= Len(above) /\ Len(line) \in Nat
        BY <3>2
      <3> HIDE DEF line
      <3>4. Edited(e, e1, n) /\ e1.row[y + 1].chars = line
        BY <2>2, <3>1, <3>3, RewrittenFact
      <3>5. e1 \in EdText /\ nrows(e1) = n
        BY <3>4 DEF Edited
      <3>6. Edited(e1, e2, n - 1) /\ \A i \in 1 .. e.cy : e2.row[i] = e1.row[i]
        BY <1>1, <2>3, <3>5, RowDeleteFact
      <3> HIDE DEF e2
      <3>7. Edited(e, e2, n - 1)
        BY <1>1, <2>3, <3>4, <3>6, EditedTwice
      <3>8. RowLen(e2, y) = Len(line)
        <4>1. y + 1 \in 1 .. e.cy
          BY <1>1, <2>2
        <4>2. QED
          BY <3>4, <3>6, <4>1 DEF RowLen
      <3>9. n - 1 \in Nat /\ n - 1 >= n - 1 /\ y <= n - 1 /\ RowLen(e, y) <= IF y < n - 1 THEN RowLen(e2, y) ELSE 0
        BY <1>1, <2>2, <2>3, <3>2, <3>3, <3>8
      <3>10. QED
        BY <2>1, <2>2, <3>7, <3>9, EditedResult
    <2>4. CASE ~ (e.cy < n)
      <3>1. e2 = e
        <4>1. e1 = e
          BY <2>4
        <4>2. e.cy >= nrows(e)
          BY <1>1, <2>4
        <4> HIDE DEF e1
        <4>3. QED
          BY <4>1, <4>2 DEF edit_rowDelete
      <3> HIDE DEF e1, e2
      <3> DEFINE c == CursorAt(e, RowLen(e, y), y)
      <3>2. c \in EdText /\ SameText(e, c) /\ c.cx = RowLen(e, y) /\ c.cy = y
        <4>1. PICK px \in Nat, py \in Nat : px = RowLen(e, y) /\ py = y
          BY <2>2
        <4>2. PICK d : d = CursorAt(e, px, py)
          OBVIOUS
        <4>3. d \in EdText /\ SameText(e, d) /\ d.cx = px /\ d.cy = py
          BY <4>2, CursorAtFact
        <4>4. c = d
          BY <4>1, <4>2
        <4> HIDE DEF c
        <4>5. QED
          BY ONLY <4>1, <4>3, <4>4
      <3>3. edit_deleteChar(e) = c
        BY <2>1, <3>1
      <3> HIDE DEF c
      <3>4. nrows(c) = n /\ RowLen(c, y) = RowLen(e, y)
        BY <3>2, SameRows
      <3>5. InText(c)
        BY <1>1, <2>2, <3>2, <3>4 DEF InText
      <3>6. QED
        BY <3>2, <3>3, <3>5, MovedResult
    <2>5. QED
      BY <2>3, <2>4
  <1>6. QED
    BY <1>1, <1>2, <1>3, <1>4, <1>5

(* A row cut in two.                                                       *)
LEMMA NewLineFact ==
  ASSUME NEW e \in EdText, InText(e)
  PROVE  Result(e, edit_insertNewLine(e))
  <1> DEFINE n == nrows(e)
             text == e.row[e.cy + 1].chars
             tail == SubSeq(text, e.cx + 1, Len(text))
             head == SubSeq(text, 1, e.cx)
             e1 == edit_rowInsert(e, e.cy + 1, tail)
             e2 == IF e.cx = 0 THEN edit_rowInsert(e, e.cy, <<>>) ELSE Rewritten(e1, e.cy, head)
  <1>1. e.cy \in Nat /\ e.cx \in Nat /\ n \in Nat /\ e.cy <= n
    BY TextFact DEF InText
  <1>2. edit_insertNewLine(e) = CursorAt(e2, 0, e.cy + 1)
    BY DEF edit_insertNewLine
  <1>3. Edited(e, e2, n + 1)
    <2>1. CASE e.cx = 0
      <3>1. e2 = edit_rowInsert(e, e.cy, <<>>)
        BY <2>1
      <3> HIDE DEF e2
      <3>2. <<>> \in Seq(Nat)
        OBVIOUS
      <3>3. QED
        BY <1>1, <3>1, <3>2, RowInsertFact
    <2>2. CASE e.cx # 0
      <3>1. e.cy < n /\ e.cx <= RowLen(e, e.cy)
        BY <1>1, <2>2 DEF InText
      <3>2. text \in Seq(Nat) /\ e.cx <= Len(text) /\ Len(text) \in Nat
        BY <1>1, <3>1, TextFact DEF RowLen
      <3>3. e2 = Rewritten(e1, e.cy, head)
        BY <2>2
      <3> HIDE DEF text, e2
      <3>4. tail \in Seq(Nat) /\ head \in Seq(Nat)
        BY <1>1, <3>2
      <3> HIDE DEF tail, head
      <3>5. Edited(e, e1, n + 1)
        <4>1. e.cy + 1 \in Nat /\ e.cy + 1 <= n
          BY <1>1, <3>1
        <4>2. QED
          BY <3>4, <4>1, RowInsertFact
      <3> HIDE DEF e1
      <3>6. e1 \in EdText /\ nrows(e1) = n + 1 /\ n + 1 \in Nat /\ e.cy < n + 1
        BY <1>1, <3>5 DEF Edited
      <3>7. Edited(e1, e2, n + 1)
        BY <1>1, <3>3, <3>4, <3>6, RewrittenFact
      <3>8. QED
        BY <3>5, <3>6, <3>7, EditedTwice
    <2>3. QED
      BY <2>1, <2>2
  <1> HIDE DEF e2
  <1>4. n + 1 \in Nat /\ n + 1 >= n - 1 /\ e.cy + 1 \in Nat /\ e.cy + 1 <= n + 1 /\ 0 \in Nat
    BY <1>1
  <1>5. 0 <= IF e.cy + 1 < n + 1 THEN RowLen(e2, e.cy + 1) ELSE 0
    <2>1. e2 \in EdText /\ nrows(e2) = n + 1
      BY <1>3 DEF Edited
    <2>2. e.cy + 1 < n + 1 => RowLen(e2, e.cy + 1) \in Nat
      BY <1>4, <2>1, TextFact
    <2>3. QED
      BY <1>4, <2>2
  <1>6. QED
    BY <1>2, <1>3, <1>4, <1>5, EditedResult

(* A key leaves the cursor in the text and owes nothing, but for what it   *)
(* has touched, to a screen that shows the view.                           *)
LEMMA PressedFact ==
  ASSUME NEW e \in EdText, InText(e), InView(e), NEW key
  PROVE  Result(e, Pressed(e, key))
  <1>1. /\ e.cy \in Nat /\ e.cx \in Nat /\ nrows(e) \in Nat /\ e.cy <= nrows(e)
        /\ e.vy \in Nat /\ e.rows \in Nat \ {0} /\ e.vy <= nrows(e)
    <2>1. e.cy \in Nat /\ e.cx \in Nat /\ nrows(e) \in Nat /\ e.vy \in Nat /\ e.rows \in Nat
      BY TextFact
    <2>2. e.cy <= nrows(e) /\ e.vy <= e.cy /\ e.cy < e.vy + e.rows
      BY DEF InText, InView
    <2>3. QED
      BY ONLY <2>1, <2>2
  <1>2. SameText(e, e)
    BY DEF SameText, SameView
  <1>3. CASE key \in {"up", "down", "left", "right"}
    <2> DEFINE m == edit_cursorMove(e, key, 1)
    <2>1. m \in EdText /\ SameText(e, m) /\ InText(m)
      <3>1. 1 \in Nat \ {0}
        OBVIOUS
      <3>2. QED
        BY <1>1, <1>3, <3>1, MovesFact
    <2>2. Pressed(e, key) = m
      BY <1>3 DEF Pressed
    <2> HIDE DEF m
    <2>3. QED
      BY <2>1, <2>2, MovedResult
  <1>4. CASE key = "enter"
    <2>1. Pressed(e, key) = edit_insertNewLine(e)
      BY <1>4 DEF Pressed
    <2>2. QED
      BY <2>1, NewLineFact
  <1>5. CASE key = "^D"
    <2> DEFINE y == IF nrows(e) > 0 /\ e.cy = nrows(e) THEN e.cy - 1 ELSE e.cy
               e2 == edit_rowDelete(e, y)
    <2>1. Pressed(e, key) = CursorAt(e2, 0, y)
      BY <1>5 DEF Pressed
    <2>2. y \in Nat /\ (nrows(e) > 0 => y < nrows(e)) /\ (nrows(e) = 0 => y = 0)
      BY <1>1
    <2> HIDE DEF y
    <2>3. CASE nrows(e) > 0
      <3>1. Edited(e, e2, nrows(e) - 1)
        BY <2>2, <2>3, RowDeleteFact
      <3> HIDE DEF e2
      <3>2. nrows(e) - 1 \in Nat /\ nrows(e) - 1 >= nrows(e) - 1 /\ y <= nrows(e) - 1 /\ 0 \in Nat
        BY <1>1, <2>2, <2>3
      <3>3. 0 <= IF y < nrows(e) - 1 THEN RowLen(e2, y) ELSE 0
        <4>1. e2 \in EdText /\ nrows(e2) = nrows(e) - 1
          BY <3>1 DEF Edited
        <4>2. y < nrows(e) - 1 => RowLen(e2, y) \in Nat
          BY <2>2, <4>1, TextFact
        <4>3. QED
          BY <4>2
      <3>4. QED
        BY <2>1, <2>2, <3>1, <3>2, <3>3, EditedResult
    <2>4. CASE nrows(e) = 0
      <3>1. e2 = e
        BY <2>2, <2>4 DEF edit_rowDelete
      <3> HIDE DEF e2
      <3>2. PICK c : c = CursorAt(e, 0, 0)
        OBVIOUS
      <3>3. c \in EdText /\ SameText(e, c) /\ c.cx = 0 /\ c.cy = 0
        BY <3>2, CursorAtFact
      <3>4. InText(c)
        <4>1. nrows(c) = 0
          BY <2>4, <3>3, SameRows
        <4>2. QED
          BY <3>3, <4>1 DEF InText
      <3>5. Pressed(e, key) = c
        BY <2>1, <2>2, <2>4, <3>1, <3>2
      <3>6. QED
        BY <3>3, <3>4, <3>5, MovedResult
    <2>5. QED
      BY <1>1, <2>3, <2>4
  <1>6. CASE key = "del"
    <2>1. PICK m : m = edit_cursorMove(e, "right", 1)
      OBVIOUS
    <2>2. m \in EdText /\ SameText(e, m) /\ InText(m)
      <3>1. 1 \in Nat \ {0}
        OBVIOUS
      <3>2. QED
        BY <1>1, <2>1, <3>1, MovesFact
    <2>3. Pressed(e, key) = edit_deleteChar(m)
      BY <1>6, <2>1 DEF Pressed
    <2>4. PICK d : d = edit_deleteChar(m)
      OBVIOUS
    <2>5. Result(m, d)
      BY <2>2, <2>4, DeleteCharFact
    <2>6. Result(e, d)
      <3>1. nrows(m) = nrows(e)
        BY <2>2, SameRows
      <3>2. Touches(e, d) /\ Marks(e, d)
        BY <2>2, <2>5, <3>1 DEF Result, Owes, Touches, Marks, SameText
      <3>3. SameView(e, d)
        BY <2>2, <2>5 DEF Result, Owes, SameText, SameView
      <3>4. QED
        BY <2>5, <3>2, <3>3 DEF Result, Owes
    <2>7. QED
      BY <2>3, <2>4, <2>6
  <1>7. CASE key = "bksp"
    <2>1. Pressed(e, key) = edit_deleteChar(e)
      BY <1>7 DEF Pressed
    <2>2. QED
      BY <2>1, DeleteCharFact
  <1>8. CASE key = "ins"
    <2> DEFINE m == [e EXCEPT !.replace = ~ e.replace]
    <2>1. Pressed(e, key) = m
      BY <1>8 DEF Pressed
    <2>2. m \in EdText /\ SameText(e, m) /\ m.cx = e.cx /\ m.cy = e.cy
      BY DEF EdText, SameText, SameView
    <2> HIDE DEF m
    <2>3. InText(m)
      <3>1. nrows(m) = nrows(e) /\ RowLen(m, m.cy) = RowLen(e, m.cy)
        BY <2>2, SameRows
      <3>2. QED
        BY <2>2, <3>1 DEF InText
    <2>4. QED
      BY <2>1, <2>2, <2>3, MovedResult
  <1>9. CASE key \in {"home", "end"}
    <2>1. \/ Pressed(e, key) = e
          \/ \E x \in Nat : Pressed(e, key) = CursorAt(e, x, e.cy) /\ x <= IF e.cy < nrows(e) THEN RowLen(e, e.cy) ELSE 0
      <3>1. e.cy < nrows(e) => RowLen(e, e.cy) \in Nat
        BY <1>1, TextFact
      <3>2. CASE key = "home"
        <4>1. Pressed(e, key) = CursorAt(e, 0, e.cy)
          BY <3>2 DEF Pressed
        <4>2. 0 \in Nat /\ 0 <= IF e.cy < nrows(e) THEN RowLen(e, e.cy) ELSE 0
          BY <3>1
        <4>3. QED
          BY <4>1, <4>2
      <3>3. CASE key = "end"
        <4>1. Pressed(e, key) = IF e.cy < nrows(e) THEN CursorAt(e, RowLen(e, e.cy), e.cy) ELSE e
          BY <3>3 DEF Pressed
        <4>2. e.cy < nrows(e) => RowLen(e, e.cy) <= RowLen(e, e.cy)
          BY <3>1
        <4>3. QED
          BY <3>1, <4>1, <4>2
      <3>4. QED
        BY <1>9, <3>2, <3>3
    <2>2. ASSUME NEW x \in Nat, Pressed(e, key) = CursorAt(e, x, e.cy), x <= IF e.cy < nrows(e) THEN RowLen(e, e.cy) ELSE 0
          PROVE  Result(e, Pressed(e, key))
      <3>1. PICK y \in Nat : y = e.cy
        BY <1>1
      <3>2. PICK c : c = CursorAt(e, x, y)
        OBVIOUS
      <3>3. c \in EdText /\ SameText(e, c) /\ c.cx = x /\ c.cy = y
        BY <3>2, CursorAtFact
      <3>4. nrows(c) = nrows(e) /\ RowLen(c, y) = RowLen(e, y)
        BY <3>3, SameRows
      <3>5. InText(c)
        BY <1>1, <2>2, <3>1, <3>3, <3>4 DEF InText
      <3>6. Pressed(e, key) = c
        BY <2>2, <3>1, <3>2
      <3>7. QED
        BY <3>3, <3>5, <3>6, MovedResult
    <2>3. QED
      BY <1>2, <2>1, <2>2, MovedResult
  <1>10. CASE key \in {"pgup", "pgdn"}
    <2>1. \E y \in Nat : \E dir \in {"up", "down", "left", "right"} :
             y <= nrows(e) /\ Pressed(e, key) = edit_cursorMove(CursorAt(e, e.cx, y), dir, e.rows)
      <3>1. CASE key = "pgup"
        <4>1. Pressed(e, key) = edit_cursorMove(CursorAt(e, e.cx, e.vy), "up", e.rows)
          BY <3>1 DEF Pressed
        <4>2. QED
          BY <1>1, <4>1
      <3>2. CASE key = "pgdn"
        <4>1. Pressed(e, key) = edit_cursorMove(CursorAt(e, e.cx, Least(e.vy + e.rows - 1, nrows(e))), "down", e.rows)
          BY <3>2 DEF Pressed
        <4>2. Least(e.vy + e.rows - 1, nrows(e)) \in Nat /\ Least(e.vy + e.rows - 1, nrows(e)) <= nrows(e)
          BY <1>1 DEF Least
        <4>3. QED
          BY <4>1, <4>2
      <3>3. QED
        BY <1>10, <3>1, <3>2
    <2>2. PICK y \in Nat, dir \in {"up", "down", "left", "right"} :
             y <= nrows(e) /\ Pressed(e, key) = edit_cursorMove(CursorAt(e, e.cx, y), dir, e.rows)
      BY <2>1
    <2>3. PICK x \in Nat, rows \in Nat \ {0} : x = e.cx /\ rows = e.rows
      BY <1>1
    <2>4. PICK c : c = CursorAt(e, x, y)
      OBVIOUS
    <2>5. c \in EdText /\ SameText(e, c) /\ c.cy = y
      BY <2>4, CursorAtFact
    <2>6. c.cy <= nrows(c)
      BY <2>2, <2>5, SameRows
    <2>7. PICK m : m = edit_cursorMove(c, dir, rows)
      OBVIOUS
    <2>8. m \in EdText /\ SameText(c, m) /\ InText(m)
      BY <2>5, <2>6, <2>7, MovesFact
    <2>9. SameText(e, m)
      BY <2>5, <2>8 DEF SameText, SameView
    <2>10. Pressed(e, key) = m
      BY <2>2, <2>3, <2>4, <2>7
    <2>11. QED
      BY <2>8, <2>9, <2>10, MovedResult
  <1>11. CASE key \notin EdFunctions
    <2>1. \E ch \in Nat : Pressed(e, key) = edit_insertChar(e, ch)
      <3>1. KeyChar(key) \in Nat
        BY DEF KeyChar, Tab
      <3>2. Pressed(e, key) = edit_insertChar(e, KeyChar(key))
        BY <1>11 DEF Pressed, EdFunctions
      <3>3. QED
        BY <3>1, <3>2
    <2>2. QED
      BY <2>1, InsertCharFact
  <1>12. CASE key \in {"^Q", "^X"}
    <2>1. Pressed(e, key) = e
      BY <1>12 DEF Pressed
    <2>2. QED
      BY <1>2, <2>1, MovedResult
  <1>13. QED
    BY <1>3, <1>4, <1>5, <1>6, <1>7, <1>8, <1>9, <1>10, <1>11, <1>12 DEF EdFunctions

(* So does a key for which memory ran out, but for the cursor.             *)
LEMMA ShortFact ==
  ASSUME NEW e \in EdText, InText(e), NEW key, NEW m \in ShortOf(e, key)
  PROVE  Owes(e, m)
  <1> DEFINE c == IF key = "del" THEN edit_cursorMove(e, "right", 1) ELSE e
  <1>1. e.cy \in Nat /\ e.cx \in Nat /\ nrows(e) \in Nat /\ e.cy <= nrows(e)
    BY TextFact DEF InText
  <1>2. SameText(e, e)
    BY DEF SameText, SameView
  <1>3. \/ m = e
        \/ Joins(c) /\ m = CursorAt(c, RowLen(c, c.cy - 1), c.cy)
        \/ m = edit_rowInsert(e, nrows(e), <<>>)
    BY DEF ShortOf
  <1>4. CASE m = e
    BY <1>2, <1>4, SameOwes
  <1>5. CASE Joins(c) /\ m = CursorAt(c, RowLen(c, c.cy - 1), c.cy)
    <2>1. c \in EdText /\ SameText(e, c)
      <3>1. CASE key = "del"
        <4>1. 1 \in Nat \ {0}
          OBVIOUS
        <4>2. edit_cursorMove(e, "right", 1) \in EdText /\ SameText(e, edit_cursorMove(e, "right", 1))
          BY <1>1, <4>1, MovesFact
        <4>3. QED
          BY <3>1, <4>2
      <3>2. CASE key # "del"
        BY <1>2, <3>2
      <3>3. QED
        BY <3>1, <3>2
    <2> HIDE DEF c
    <2>2. c.cy \in Nat /\ c.cy - 1 \in Nat /\ c.cy - 1 < nrows(c)
      <3>1. c.cy \in Nat /\ nrows(c) \in Nat
        BY <2>1, TextFact
      <3>2. QED
        BY <1>5, <3>1 DEF Joins
    <2>3. PICK x \in Nat, y \in Nat : x = RowLen(c, c.cy - 1) /\ y = c.cy
      BY <2>1, <2>2, TextFact
    <2>4. m \in EdText /\ SameText(c, m)
      BY <1>5, <2>1, <2>3, CursorAtFact
    <2>5. SameText(e, m)
      BY <2>1, <2>4 DEF SameText, SameView
    <2>6. QED
      BY <2>4, <2>5, SameOwes
  <1>6. CASE m = edit_rowInsert(e, nrows(e), <<>>)
    <2>1. PICK n \in Nat : n = nrows(e)
      BY <1>1
    <2>2. <<>> \in Seq(Nat) /\ n <= nrows(e)
      BY <2>1
    <2>3. Edited(e, m, n + 1)
      BY <1>6, <2>1, <2>2, RowInsertFact
    <2>4. n + 1 >= n - 1
      BY <2>1
    <2>5. QED
      BY <2>1, <2>3, <2>4 DEF Edited, Owes, Touches, Marks
  <1>7. QED
    BY <1>3, <1>4, <1>5, <1>6

(* A terminal the editor fits on.                                          *)
Fits(term) ==
  /\ term.rows - hbar \in Nat \ {0} /\ term.cols \in Nat \ {0}
  /\ 0 .. (term.rows - hbar) - 1 \subseteq EdLines

(* Scrolled finds a view of n that holds the column or the row.            *)
LEMMA ScrolledFact ==
  ASSUME NEW lo \in Nat, NEW n \in Nat \ {0}, NEW at \in Nat
  PROVE  Scrolled(lo, n, at) \in Nat /\ Scrolled(lo, n, at) <= at /\ at < Scrolled(lo, n, at) + n
  BY DEF Scrolled

(* The same text in a view that holds the cursor.                          *)
InViewOf(e, s, term) ==
  /\ s \in EdText /\ s.row = e.row /\ s.cx = e.cx /\ s.cy = e.cy /\ s.dirty = e.dirty
  /\ s.rows = term.rows - hbar /\ s.cols = term.cols /\ InView(s)

(* A column the cursor may be in is a number, also past the end of a row.  *)
LEMMA CursorColumnsFact ==
  ASSUME NEW e \in EdText, NEW rx \in CursorColumns(e), EDIT_TAB_STOP \in Nat \ {0}
  PROVE  rx \in Nat
  <1>1. e.cy \in Nat /\ e.cx \in Nat /\ nrows(e) \in Nat
    BY TextFact
  <1>2. PICK junk \in [1 .. Past(e) -> {Tab, 32}] :
          rx = IF e.cy < nrows(e) THEN Len(Columns(SubSeq(e.row[e.cy + 1].chars \o junk, 1, e.cx))) ELSE 0
    BY DEF CursorColumns
  <1>3. CASE ~ (e.cy < nrows(e))
    BY <1>2, <1>3
  <1>4. CASE e.cy < nrows(e)
    <2>1. PICK text \in Seq(Nat) : text = e.row[e.cy + 1].chars
      BY <1>1, <1>4, TextFact
    <2>2. Len(text) \in Nat /\ Past(e) = IF e.cx > Len(text) THEN e.cx - Len(text) ELSE 0
      BY <1>4, <2>1 DEF Past, RowLen
    <2>3. PICK k \in Nat : k = Past(e) /\ e.cx <= Len(text) + k
      BY <1>1, <2>2
    <2>4. junk \in [1 .. k -> Nat]
      BY <2>3 DEF Tab
    <2>5. junk \in Seq(Nat) /\ Len(junk) = k
      BY <2>4, SeqDef, LenProperties
    <2>6. PICK all : all = text \o junk
      OBVIOUS
    <2>7. all \in Seq(Nat) /\ Len(all) = Len(text) + k
      BY <2>5, <2>6, ConcatProperties
    <2>8. SubSeq(all, 1, e.cx) \in Seq(Nat)
      <3>1. e.cx <= Len(all)
        BY ONLY <2>3, <2>7
      <3>2. QED
        BY <1>1, <2>7, <3>1
    <2>9. Columns(SubSeq(all, 1, e.cx)) \in Seq(Nat)
      BY <2>8, ColumnsFact
    <2>10. rx = Len(Columns(SubSeq(all, 1, e.cx)))
      BY <1>2, <1>4, <2>1, <2>6
    <2>11. QED
      BY <2>9, <2>10
  <1>5. QED
    BY <1>3, <1>4

(* edit_updateScroll finds such a view.                                    *)
LEMMA ScrollFact ==
  ASSUME NEW e \in EdText, NEW term, Fits(term), NEW rx \in Nat
  PROVE  InViewOf(e, edit_updateScroll(e, term, rx), term)
  <1> DEFINE s == edit_updateScroll(e, term, rx)
  <1>1. e.cy \in Nat /\ e.cx \in Nat /\ e.vx \in Nat /\ e.vy \in Nat /\ nrows(e) \in Nat
    BY TextFact
  <1>3. PICK r \in Nat, rows \in Nat \ {0}, cols \in Nat \ {0}, vy \in Nat, vx \in Nat :
          /\ r = rx /\ rows = term.rows - hbar /\ cols = term.cols
          /\ vy = Scrolled(e.vy, rows, e.cy) /\ vx = Scrolled(e.vx, cols, r)
          /\ vy <= e.cy /\ e.cy < vy + rows /\ vx <= r /\ r < vx + cols
    <2>1. PICK r \in Nat, rows \in Nat \ {0}, cols \in Nat \ {0} : r = rx /\ rows = term.rows - hbar /\ cols = term.cols
      BY DEF Fits
    <2>2. PICK vy \in Nat : vy = Scrolled(e.vy, rows, e.cy) /\ vy <= e.cy /\ e.cy < vy + rows
      BY <1>1, ScrolledFact
    <2>3. PICK vx \in Nat : vx = Scrolled(e.vx, cols, r) /\ vx <= r /\ r < vx + cols
      BY <1>1, ScrolledFact
    <2>4. QED
      BY <2>1, <2>2, <2>3
  <1>4. s = [e EXCEPT !.rows = rows, !.cols = cols, !.rx = r, !.vy = vy, !.vx = vx]
    BY <1>3 DEF edit_updateScroll
  <1> HIDE DEF s
  <1>5. PICK e1 : e1 = [e EXCEPT !.rows = rows]
    OBVIOUS
  <1>6. PICK e2 : e2 = [e1 EXCEPT !.cols = cols]
    OBVIOUS
  <1>7. PICK e3 : e3 = [e2 EXCEPT !.rx = r]
    OBVIOUS
  <1>8. PICK e4 : e4 = [e3 EXCEPT !.vy = vy]
    OBVIOUS
  <1>9. s = [e4 EXCEPT !.vx = vx]
    BY <1>4, <1>5, <1>6, <1>7, <1>8
  <1>10. e1 \in EdText /\ e1.rows = rows /\ e1.row = e.row /\ e1.cx = e.cx /\ e1.cy = e.cy /\ e1.dirty = e.dirty
    BY <1>5 DEF EdText
  <1>11. e2 \in EdText /\ e2.rows = rows /\ e2.cols = cols /\ e2.row = e.row /\ e2.cx = e.cx /\ e2.cy = e.cy /\ e2.dirty = e.dirty
    BY <1>6, <1>10 DEF EdText
  <1>12. e3 \in EdText /\ e3.rows = rows /\ e3.cols = cols /\ e3.rx = r /\ e3.row = e.row /\ e3.cx = e.cx /\ e3.cy = e.cy
         /\ e3.dirty = e.dirty
    BY <1>7, <1>11 DEF EdText
  <1>13. e4 \in EdText /\ e4.rows = rows /\ e4.cols = cols /\ e4.rx = r /\ e4.vy = vy /\ e4.row = e.row /\ e4.cx = e.cx
         /\ e4.cy = e.cy /\ e4.dirty = e.dirty
    BY <1>8, <1>12 DEF EdText
  <1>14. s \in EdText /\ s.rows = rows /\ s.cols = cols /\ s.rx = r /\ s.vy = vy /\ s.vx = vx /\ s.row = e.row /\ s.cx = e.cx
         /\ s.cy = e.cy /\ s.dirty = e.dirty
    BY <1>9, <1>13 DEF EdText
  <1>15. InView(s)
    BY <1>3, <1>14 DEF InView
  <1>16. QED
    BY <1>3, <1>14, <1>15 DEF InViewOf, s

(* The text old is on the screen, on which the editor has rows by cols.    *)
Shown(old, screen, term) ==
  /\ old.rows = term.rows - hbar /\ old.cols = term.cols
  /\ \A y \in 0 .. old.rows - 1 : screen[y] = LineOf(old, y)

Texts(e) == [i \in DOMAIN e.row |-> e.row[i].chars]

(* Drawing after a key, or all of it.                                      *)
LEMMA DrawFact ==
  ASSUME NEW e0 \in EdText, NEW term, Fits(term), EDIT_TAB_STOP \in Nat \ {0}, NEW forced \in BOOLEAN,
         NEW old \in EdText, forced \/ (SameView(old, e0) /\ Touches(old, e0) /\ Shown(old, edScreen, term)),
         DOMAIN edScreen = EdLines, edit_draw(e0, term, forced)
  PROVE  /\ ed' \in EdText /\ InView(ed') /\ Shown(ed', edScreen', term) /\ DOMAIN edScreen' = EdLines
         /\ ed'.dirty = e0.dirty /\ Texts(ed') = Texts(e0) /\ (InText(e0) => InText(ed'))
  <1>19. PICK rx \in CursorColumns(e0) : edit_drawAt(e0, term, forced, rx)
    BY DEF edit_draw
  <1>20. rx \in Nat
    BY CursorColumnsFact
  <1>1. PICK e : e = edit_updateScroll(e0, term, rx)
    OBVIOUS
  <1>2. InViewOf(e0, e, term)
    BY <1>1, <1>20, ScrollFact
  <1>3. PICK force \in BOOLEAN : force = (forced \/ e.vx # e0.vx \/ e.vy # e0.vy)
    OBVIOUS
  <1> DEFINE drawn == {y \in EdLines : DrawsLine(e, y, force)}
             n == nrows(e)
             clean == [i \in DOMAIN e.row |->
                         IF \E y \in drawn : y + e.vy + 1 = i THEN [e.row[i] EXCEPT !.updated = FALSE] ELSE e.row[i]]
  <1>4. /\ edScreen' = [y \in EdLines |-> IF y \in drawn THEN LineOf(e, y) ELSE edScreen[y]]
        /\ ed' = [e EXCEPT !.row = clean]
    BY <1>1, <1>3, <1>19 DEF edit_drawAt
  <1>5. e \in EdText /\ e.row = e0.row /\ e.cx = e0.cx /\ e.cy = e0.cy /\ e.dirty = e0.dirty
        /\ e.rows = term.rows - hbar /\ e.cols = term.cols /\ InView(e)
    BY <1>2 DEF InViewOf
  <1>6. e.row \in Seq(EdRow) /\ n \in Nat /\ DOMAIN e.row = 1 .. n /\ Len(e.row) = n
    BY <1>5, TextFact DEF nrows
  <1>7. /\ clean \in Seq(EdRow) /\ Len(clean) = n /\ DOMAIN clean = 1 .. n
        /\ \A i \in 1 .. n : clean[i].chars = e.row[i].chars
    <2> DEFINE seen(i) == \E y \in drawn : y + e.vy + 1 = i
    <2>1. clean = [i \in 1 .. n |-> IF seen(i) THEN [e.row[i] EXCEPT !.updated = FALSE] ELSE e.row[i]]
      BY <1>6
    <2> HIDE DEF seen, drawn, clean
    <2>2. ASSUME NEW i \in 1 .. n PROVE clean[i] \in EdRow /\ clean[i].chars = e.row[i].chars
      <3>1. PICK r \in EdRow : r = e.row[i]
        BY <1>6
      <3>2. clean[i] = IF seen(i) THEN [r EXCEPT !.updated = FALSE] ELSE r
        BY <2>1, <3>1
      <3>3. [r EXCEPT !.updated = FALSE] \in EdRow /\ [r EXCEPT !.updated = FALSE].chars = r.chars
        BY DEF EdRow
      <3>4. QED
        BY <3>1, <3>2, <3>3
    <2>3. clean \in [1 .. n -> EdRow]
      BY <2>1, <2>2
    <2>4. clean \in Seq(EdRow) /\ DOMAIN clean = 1 .. n
      BY <1>6, <2>3, SeqDef
    <2>5. Len(clean) = n
      BY <1>6, <2>4, LenProperties
    <2>6. QED
      BY <2>2, <2>4, <2>5
  <1> HIDE DEF drawn, clean
  <1>8. /\ ed' \in EdText /\ ed'.row = clean /\ ed'.cx = e.cx /\ ed'.cy = e.cy /\ ed'.dirty = e.dirty
        /\ ed'.vx = e.vx /\ ed'.vy = e.vy /\ ed'.rx = e.rx /\ ed'.rows = e.rows /\ ed'.cols = e.cols
    <2>1. PICK c \in Seq(EdRow) : c = clean
      BY <1>7
    <2>5. PICK d : d = ed'
      OBVIOUS
    <2>2. d = [e EXCEPT !.row = c]
      BY <1>4, <2>1, <2>5
    <2>3. /\ d \in EdText /\ d.row = c /\ d.cx = e.cx /\ d.cy = e.cy /\ d.dirty = e.dirty
          /\ d.vx = e.vx /\ d.vy = e.vy /\ d.rx = e.rx /\ d.rows = e.rows /\ d.cols = e.cols
      BY <1>5, <2>2 DEF EdText
    <2>4. QED
      BY <2>1, <2>3, <2>5
  <1>9. PICK d : d = ed'
    OBVIOUS
  <1>10. /\ nrows(d) = n /\ nrows(e0) = n
         /\ \A y \in Nat : y < n => d.row[y + 1].chars = e.row[y + 1].chars /\ RowLen(d, y) = RowLen(e0, y)
    <2>1. nrows(d) = n /\ nrows(e0) = n
      BY <1>5, <1>6, <1>7, <1>8, <1>9 DEF nrows
    <2>2. ASSUME NEW y \in Nat, y < n PROVE d.row[y + 1].chars = e.row[y + 1].chars
      <3>1. y + 1 \in 1 .. n
        BY <1>6, <2>2
      <3>2. QED
        BY <1>7, <1>8, <1>9, <3>1
    <2>3. QED
      BY <1>5, <2>1, <2>2 DEF RowLen
  <1>11. InText(e0) => InText(d)
    <2>1. d.cx = e0.cx /\ d.cy = e0.cy /\ d.cy \in Nat
      BY <1>5, <1>8, <1>9, TextFact
    <2>2. QED
      BY <1>10, <2>1 DEF InText
  <1>12. InView(d)
    BY <1>5, <1>8, <1>9 DEF InView
  <1>13. Texts(d) = Texts(e0)
    <2>1. DOMAIN d.row = 1 .. n /\ DOMAIN e0.row = 1 .. n
      BY <1>5, <1>6, <1>7, <1>8, <1>9
    <2>2. \A i \in 1 .. n : d.row[i].chars = e0.row[i].chars
      BY <1>5, <1>7, <1>8, <1>9
    <2>3. QED
      BY <2>1, <2>2 DEF Texts
  <1>14. \A y \in Nat : LineOf(d, y) = LineOf(e, y)
    <2> SUFFICES ASSUME NEW y \in Nat PROVE LineOf(d, y) = LineOf(e, y)
      OBVIOUS
    <2>1. PICK ry \in Nat : ry = y + e.vy
      BY <1>5, TextFact
    <2>2. d.vx = e.vx /\ d.vy = e.vy /\ d.cols = e.cols
      BY <1>8, <1>9
    <2>3. LineOf(d, y) = IF ry < n THEN edit_rowRender(d.row[ry + 1].chars, e.vx, e.cols) ELSE Tilde
      BY <1>10, <2>1, <2>2 DEF LineOf
    <2>4. LineOf(e, y) = IF ry < n THEN edit_rowRender(e.row[ry + 1].chars, e.vx, e.cols) ELSE Tilde
      BY <2>1 DEF LineOf
    <2>5. ry < n => d.row[ry + 1].chars = e.row[ry + 1].chars
      BY <1>10
    <2>6. QED
      BY <2>3, <2>4, <2>5
  <1>15. ASSUME NEW y \in 0 .. e.rows - 1 PROVE edScreen'[y] = LineOf(e, y)
    <2>1. y \in EdLines /\ y \in Nat /\ y < e.rows
      <3>1. e.rows \in Nat /\ 0 .. e.rows - 1 \subseteq EdLines
        BY <1>5, TextFact DEF Fits
      <3>2. QED
        BY <3>1
    <2>2. edScreen'[y] = IF y \in drawn THEN LineOf(e, y) ELSE edScreen[y]
      BY <1>4, <2>1
    <2>3. CASE y \in drawn
      BY <2>2, <2>3
    <2>4. CASE y \notin drawn
      <3>1. ~ DrawsLine(e, y, force)
        BY <2>1, <2>4 DEF drawn
      <3>14. e.vy \in Nat
        BY <1>5, TextFact
      <3>2. PICK ry \in Nat : ry = y + e.vy
        BY ONLY <2>1, <3>14
      <3>3. ~ force /\ ry # n /\ ~ (ry < n /\ e.row[ry + 1].updated)
        BY <2>1, <3>1, <3>2 DEF DrawsLine
      <3>4. ~ forced /\ e.vx = e0.vx /\ e.vy = e0.vy
        BY <1>3, <3>3
      <3>5. SameView(old, e0) /\ Touches(old, e0) /\ Shown(old, edScreen, term)
        BY <3>4
      <3>6. old.vx = e.vx /\ old.vy = e.vy /\ old.cols = e.cols /\ old.rows = e.rows
        BY <1>5, <3>4, <3>5 DEF SameView, Shown
      <3>7. edScreen[y] = LineOf(old, y)
        BY <3>5, <3>6 DEF Shown
      <3>8. LineOf(old, y) = IF ry < nrows(old) THEN edit_rowRender(old.row[ry + 1].chars, e.vx, e.cols) ELSE Tilde
        BY <3>2, <3>6 DEF LineOf
      <3>9. LineOf(e, y) = IF ry < n THEN edit_rowRender(e.row[ry + 1].chars, e.vx, e.cols) ELSE Tilde
        BY <3>2 DEF LineOf
      <3>10. nrows(old) \in Nat /\ n >= nrows(old) - 1
             /\ \A i \in 1 .. n : e.row[i].updated \/ (i <= nrows(old) /\ e.row[i] = old.row[i])
        BY <1>5, <1>10, <3>5, TextFact DEF Touches
      <3>11. CASE ry < n
        <4>1. ry + 1 \in 1 .. n
          BY <1>6, <3>11
        <4>2. ry + 1 <= nrows(old) /\ e.row[ry + 1] = old.row[ry + 1]
          BY <3>3, <3>10, <3>11, <4>1
        <4>3. ry < nrows(old)
          BY <3>10, <4>2
        <4>4. QED
          BY <2>2, <2>4, <3>7, <3>8, <3>9, <3>11, <4>2, <4>3
      <3>12. CASE ~ (ry < n)
        <4>1. ~ (ry < nrows(old))
          BY <1>6, <3>3, <3>10, <3>12
        <4>2. QED
          BY <2>2, <2>4, <3>7, <3>8, <3>9, <3>12, <4>1
      <3>13. QED
        BY <3>11, <3>12
    <2>5. QED
      BY <2>3, <2>4
  <1>16. Shown(d, edScreen', term)
    <2>1. d.rows = e.rows /\ d.cols = e.cols /\ e.rows \in Nat
      BY <1>5, <1>8, <1>9, TextFact
    <2>2. \A y \in 0 .. d.rows - 1 : edScreen'[y] = LineOf(d, y)
      BY <1>14, <1>15, <2>1
    <2>3. QED
      BY <1>5, <2>1, <2>2 DEF Shown
  <1>17. DOMAIN edScreen' = EdLines
    BY <1>4
  <1>18. QED
    BY <1>5, <1>8, <1>9, <1>11, <1>12, <1>13, <1>16, <1>17

TermKnown(term) == \E s \in EdSizes : term = s \/ term = term_setup(s)

(* The shape of the state.                                                 *)
EdShape == ed \in EdText /\ TermKnown(edTerm) /\ DOMAIN edScreen = EdLines

(* The cursor is in the text until memory runs out.                        *)
EdCursor == EdFails \/ InText(ed)

(* A redraw is never dropped: what is left over of an event is handled     *)
(* once more before it is.                                                 *)
EdEvents ==
  /\ edPhase \in {"loop", "handle", "exited"}
  /\ edPhase = "loop" => edEv \in {"none", "redraw", "quit", "dead"} /\ (edEv = "redraw" => edCnt = 0)
  /\ edPhase = "handle" /\ edEv = "^L" => edCnt = 0
  /\ edPhase = "handle" => ~ EdFails
  /\ edSent = "fatal" => edEv = "none"

(* But for a redraw asked for, the screen is that of the text.             *)
EdDrawn == edEv # "redraw" => InView(ed) /\ Shown(ed, edScreen, edTerm)

EdInv == EdShape /\ EdCursor /\ EdEvents /\ EdDrawn /\ CleanIsSaved

(* The editor fits on every terminal there is.                             *)
LEMMA TermFits ==
  ASSUME NEW term, TermKnown(term)
  PROVE  Fits(term)
  <1>1. PICK s \in EdSizes : term = s \/ term = term_setup(s)
    BY DEF TermKnown
  <1>2. PICK r \in Nat, c \in Nat : r = s.rows /\ c = s.cols /\ r > 2 /\ c > 2
    BY PshEditAssumption DEF hbar
  <1>3. 0 .. r - 1 \subseteq EdLines /\ 0 .. c - 1 \subseteq EdLines
    BY <1>2 DEF EdLines
  <1>4. CASE term = s
    <2>1. term.rows = r /\ term.cols = c
      BY <1>2, <1>4
    <2>2. 0 .. (r - 2) - 1 \subseteq 0 .. r - 1
      OBVIOUS
    <2>3. QED
      BY <1>2, <1>3, <2>1, <2>2 DEF Fits, hbar
  <1>5. CASE term = term_setup(s)
    <2>1. term.rows = c /\ term.cols = r
      BY <1>2, <1>5 DEF term_setup
    <2>2. 0 .. (c - 2) - 1 \subseteq 0 .. c - 1
      OBVIOUS
    <2>3. QED
      BY <1>2, <1>3, <2>1, <2>2 DEF Fits, hbar
  <1>6. QED
    BY <1>1, <1>4, <1>5

(* A text drawn after a key, a save or for a redraw is on the screen.      *)
LEMMA DrawKeeps ==
  ASSUME EdShape, NEW e0 \in EdText, NEW forced \in BOOLEAN, TermKnown(edTerm)',
         forced \/ (SameView(ed, e0) /\ Touches(ed, e0) /\ Shown(ed, edScreen, edTerm) /\ edTerm' = edTerm),
         edit_draw(e0, edTerm', forced)
  PROVE  /\ EdShape' /\ EdDrawn' /\ (InText(e0) => EdCursor')
         /\ ed'.dirty = e0.dirty /\ Texts(ed') = Texts(e0)
  <1>1. PICK term : term = edTerm'
    OBVIOUS
  <1>2. TermKnown(term) /\ edit_draw(e0, term, forced)
    BY <1>1 DEF TermKnown
  <1>3. Fits(term)
    BY <1>2, TermFits
  <1>4. forced \/ (SameView(ed, e0) /\ Touches(ed, e0) /\ Shown(ed, edScreen, term))
    BY <1>1
  <1>5. ed \in EdText /\ DOMAIN edScreen = EdLines /\ EDIT_TAB_STOP \in Nat \ {0}
    BY PshEditAssumption DEF EdShape
  <1>6. /\ ed' \in EdText /\ InView(ed') /\ Shown(ed', edScreen', term) /\ DOMAIN edScreen' = EdLines
        /\ ed'.dirty = e0.dirty /\ Texts(ed') = Texts(e0) /\ (InText(e0) => InText(ed'))
    BY <1>2, <1>3, <1>4, <1>5, DrawFact
  <1>7. EdShape'
    BY <1>6 DEF EdShape
  <1>8. EdDrawn'
    BY <1>1, <1>6 DEF EdDrawn, Shown, InView, LineOf, nrows
  <1>9. InText(e0) => EdCursor'
    BY <1>6 DEF EdCursor, InText, nrows, RowLen
  <1>10. QED
    BY <1>6, <1>7, <1>8, <1>9

(* A step that leaves text, screen and file alone.                         *)
LEMMA QuietStep ==
  ASSUME EdInv, UNCHANGED <<ed, edTerm, edScreen, edDisk, edLost>>, edEv = "redraw" => edEv' = "redraw", EdFails => EdFails'
  PROVE  EdShape' /\ EdCursor' /\ EdDrawn' /\ CleanIsSaved'
  <1>1. ed' = ed /\ edTerm' = edTerm /\ edScreen' = edScreen /\ edDisk' = edDisk /\ edLost' = edLost
    OBVIOUS
  <1>2. EdShape' = EdShape /\ InText(ed)' = InText(ed)
    BY <1>1 DEF EdShape, InText, nrows, RowLen, TermKnown
  <1>3. InView(ed)' = InView(ed) /\ Shown(ed, edScreen, edTerm)' = Shown(ed, edScreen, edTerm)
    BY <1>1 DEF InView, Shown, LineOf, nrows
  <1>4. CleanIsSaved' = CleanIsSaved
    BY <1>1 DEF CleanIsSaved, SavedRows
  <1>5. QED
    BY <1>2, <1>3, <1>4 DEF EdInv, EdDrawn, EdCursor

(* The text as it is saved.                                                *)
LEMMA SavedFact ==
  ASSUME EdShape, InText(ed)
  PROVE  SavedRows = Texts(ed) /\ Saved(ed, FALSE) = ed /\ Saved(ed, TRUE) \in EdText
         /\ SameView(ed, Saved(ed, TRUE)) /\ Touches(ed, Saved(ed, TRUE)) /\ InText(Saved(ed, TRUE))
         /\ Texts(Saved(ed, TRUE)) = Texts(ed)
  <1>1. ed \in EdText /\ InText(ed)
    BY DEF EdShape
  <1>2. PICK e \in EdText : e = ed
    BY <1>1
  <1>3. PICK m : m = [e EXCEPT !.dirty = FALSE]
    OBVIOUS
  <1>4. m \in EdText /\ m.row = e.row /\ m.cx = e.cx /\ m.cy = e.cy /\ SameView(e, m)
    BY <1>3 DEF EdText, SameView
  <1>5. nrows(m) = nrows(e) /\ RowLen(m, m.cy) = RowLen(e, m.cy) /\ nrows(e) \in Nat
    BY <1>4, TextFact DEF nrows, RowLen
  <1>6. Touches(e, m)
    BY <1>4, <1>5 DEF Touches
  <1>7. InText(m)
    BY <1>1, <1>2, <1>4, <1>5 DEF InText
  <1>8. Texts(m) = Texts(e)
    BY <1>4 DEF Texts
  <1>9. Saved(ed, TRUE) = m /\ Saved(ed, FALSE) = ed /\ SavedRows = Texts(ed)
    BY <1>2, <1>3 DEF Saved, SavedRows, Texts
  <1>10. QED
    BY <1>2, <1>4, <1>6, <1>7, <1>8, <1>9

(* A text on the screen touches nothing of itself.                         *)
LEMMA SelfFact ==
  ASSUME EdShape, InText(ed)
  PROVE  ed \in EdText /\ InText(ed) /\ SameView(ed, ed) /\ Touches(ed, ed)
  <1>1. ed \in EdText /\ InText(ed)
    BY DEF EdShape
  <1>2. nrows(ed) \in Nat
    BY <1>1, TextFact
  <1>3. QED
    BY <1>1, <1>2 DEF SameView, Touches

(* A text that is clean after a key is the one that was clean before it.   *)
LEMMA EdTextKeeps ==
  ASSUME EdInv, edEv # "redraw", UNCHANGED <<edTerm, edDisk, edLost>>, NEW e0, Owes(ed, e0), edit_draw(e0, edTerm, FALSE)
  PROVE  EdShape' /\ EdDrawn' /\ CleanIsSaved' /\ (InText(e0) => EdCursor')
  <1>1. EdShape /\ InView(ed) /\ Shown(ed, edScreen, edTerm)
    BY DEF EdInv, EdDrawn
  <1>2. e0 \in EdText /\ SameView(ed, e0) /\ Touches(ed, e0) /\ Marks(ed, e0)
    BY DEF Owes
  <1>3. TermKnown(edTerm)' /\ edTerm' = edTerm
    BY <1>1 DEF EdShape, TermKnown
  <1>4. edit_draw(e0, edTerm', FALSE)
    BY <1>3
  <1>5. EdShape' /\ EdDrawn' /\ (InText(e0) => EdCursor') /\ ed'.dirty = e0.dirty /\ Texts(ed') = Texts(e0)
    BY <1>1, <1>2, <1>3, <1>4, DrawKeeps
  <1>6. CleanIsSaved'
    <2> SUFFICES ASSUME ~ ed'.dirty, ~ edLost' PROVE edDisk' = SavedRows'
      BY DEF CleanIsSaved
    <2>1. ~ ed.dirty /\ e0.row = ed.row
      BY <1>2, <1>5 DEF Marks
    <2>2. edDisk = SavedRows
      BY <2>1 DEF EdInv, CleanIsSaved
    <2>3. Texts(e0) = Texts(ed)
      BY <2>1 DEF Texts
    <2>4. SavedRows = Texts(ed) /\ SavedRows' = Texts(ed')
      BY DEF SavedRows, Texts
    <2>5. QED
      BY <1>5, <2>2, <2>3, <2>4
  <1>7. QED
    BY <1>5, <1>6

(* A key that is handled.                                                  *)
LEMMA EdKeyKeeps ==
  ASSUME EdInv, EdKey
  PROVE  EdInv'
  <1>1. /\ edPhase = "handle" /\ edPhase' = "loop" /\ edEv' = "none" /\ edEv # "redraw"
        /\ edit_draw(Pressed(ed, edEv), edTerm, FALSE)
        /\ edTerm' = edTerm /\ edDisk' = edDisk /\ edLost' = edLost /\ edCnt' = edCnt
    BY PshEditAssumption DEF EdKey, EdTyped, Handles
  <1>2. EdShape /\ InText(ed) /\ InView(ed)
    BY <1>1 DEF EdInv, EdDrawn, EdEvents, EdCursor
  <1>3. PICK e0 : e0 = Pressed(ed, edEv)
    OBVIOUS
  <1>4. Result(ed, e0)
    BY <1>2, <1>3, PressedFact DEF EdShape
  <1>5. Owes(ed, e0) /\ InText(e0) /\ edit_draw(e0, edTerm, FALSE)
    BY <1>1, <1>3, <1>4 DEF Result
  <1>6. EdShape' /\ EdDrawn' /\ CleanIsSaved' /\ EdCursor'
    BY <1>1, <1>5, EdTextKeeps
  <1>7. EdEvents'
    BY <1>1 DEF EdEvents
  <1>8. QED
    BY <1>6, <1>7 DEF EdInv

(* A key for which memory runs out.                                        *)
LEMMA EdOutOfMemoryKeeps ==
  ASSUME EdInv, EdOutOfMemory
  PROVE  EdInv'
  <1>1. /\ edPhase = "handle" /\ edPhase' = "loop" /\ edEv' = "none" /\ edEv # "redraw" /\ edSent' = "fatal"
        /\ edTerm' = edTerm /\ edDisk' = edDisk /\ edLost' = edLost /\ edCnt' = edCnt
    BY PshEditAssumption DEF EdOutOfMemory, EdTyped, Handles
  <1>2. EdShape /\ InText(ed)
    BY <1>1 DEF EdInv, EdEvents, EdCursor
  <1>3. PICK e0 \in ShortOf(ed, edEv) : edit_draw(e0, edTerm, FALSE)
    BY DEF EdOutOfMemory
  <1>4. Owes(ed, e0)
    BY <1>2, ShortFact DEF EdShape
  <1>5. EdShape' /\ EdDrawn' /\ CleanIsSaved'
    BY <1>1, <1>3, <1>4, EdTextKeeps
  <1>6. EdEvents' /\ EdCursor'
    BY <1>1 DEF EdEvents, EdCursor, EdFails
  <1>7. QED
    BY <1>5, <1>6 DEF EdInv

(* A save, whole or not.                                                   *)
LEMMA EdSaveKeeps ==
  ASSUME EdInv, EdSave
  PROVE  EdInv'
  <1>1. /\ edPhase = "handle" /\ edPhase' = "loop" /\ edEv' = "none" /\ edEv # "redraw" /\ edTerm' = edTerm
    BY DEF EdSave, Handles
  <1>2. EdShape /\ InText(ed) /\ InView(ed) /\ Shown(ed, edScreen, edTerm)
    BY <1>1 DEF EdInv, EdDrawn, EdEvents, EdCursor
  <1>3. \E e0 : /\ edit_draw(e0, edTerm', FALSE)
                /\ \/ e0 = Saved(ed, TRUE) /\ edDisk' = SavedRows
                   \/ e0 = ed /\ edLost' = ~ ed.dirty
                   \/ e0 = Saved(ed, TRUE) /\ edLost' = TRUE
                   \/ e0 = ed /\ edDisk' = edDisk /\ edLost' = edLost
    BY <1>1, <1>2, SavedFact DEF EdSave
  <1>4. PICK e0 : /\ edit_draw(e0, edTerm', FALSE)
                  /\ \/ e0 = Saved(ed, TRUE) /\ edDisk' = SavedRows
                     \/ e0 = ed /\ edLost' = ~ ed.dirty
                     \/ e0 = Saved(ed, TRUE) /\ edLost' = TRUE
                     \/ e0 = ed /\ edDisk' = edDisk /\ edLost' = edLost
    BY <1>3
  <1>5. e0 \in EdText /\ InText(e0) /\ SameView(ed, e0) /\ Touches(ed, e0) /\ Texts(e0) = Texts(ed)
    <2>1. CASE e0 = ed
      BY <1>2, <2>1, SelfFact
    <2>2. CASE e0 = Saved(ed, TRUE)
      BY <1>2, <2>2, SavedFact
    <2>3. QED
      BY <1>4, <2>1, <2>2
  <1>6. TermKnown(edTerm)'
    BY <1>1, <1>2 DEF EdShape, TermKnown
  <1>7. EdShape' /\ EdDrawn' /\ EdCursor' /\ ed'.dirty = e0.dirty /\ Texts(ed') = Texts(e0)
    BY <1>1, <1>2, <1>4, <1>5, <1>6, DrawKeeps
  <1>8. EdEvents'
    BY <1>1 DEF EdEvents
  <1>9. CleanIsSaved'
    <2> SUFFICES ASSUME ~ ed'.dirty, ~ edLost' PROVE edDisk' = SavedRows'
      BY DEF CleanIsSaved
    <2>1. SavedRows = Texts(ed) /\ SavedRows' = Texts(ed')
      BY DEF SavedRows, Texts
    <2>2. SavedRows' = SavedRows
      BY <1>5, <1>7, <2>1
    <2>3. CASE edDisk' = SavedRows
      BY <2>2, <2>3
    <2>4. CASE e0 = ed /\ edDisk' = edDisk /\ edLost' = edLost
      BY <1>7, <2>2, <2>4 DEF EdInv, CleanIsSaved
    <2>5. CASE e0 = ed /\ edLost' = ~ ed.dirty
      BY <1>7, <2>5
    <2>6. QED
      BY <1>4, <2>3, <2>4, <2>5
  <1>10. QED
    BY <1>7, <1>8, <1>9 DEF EdInv

(* Every step of the editor keeps the invariant.                           *)
LEMMA EdStep ==
  ASSUME EdInv, [EdNext]_edVars
  PROVE  EdInv'
  <1> USE DEF Handles
  <1>1. CASE EdGetKey
    <2>1. edEv # "redraw"
      BY <1>1 DEF EdGetKey, LeftOver, EdInv, EdEvents
    <2>5. ~ EdFails
      BY <1>1 DEF EdGetKey, EdFails, EdInv, EdEvents
    <2>2. EdShape' /\ EdCursor' /\ EdDrawn' /\ CleanIsSaved'
      BY <1>1, <2>1, <2>5, QuietStep DEF EdGetKey
    <2>3. EdEvents'
      BY <1>1, PshEditAssumption DEF EdGetKey, EdEvents, EdFails
    <2>4. QED
      BY <2>2, <2>3 DEF EdInv
  <1>2. CASE EdLeftOver
    <2>1. edEv = "redraw" => edEv' = "redraw"
      BY <1>2 DEF EdLeftOver, EdInv, EdEvents
    <2>5. ~ EdFails
      BY <1>2 DEF EdLeftOver, EdFails, EdInv, EdEvents
    <2>2. EdShape' /\ EdCursor' /\ EdDrawn' /\ CleanIsSaved'
      BY <1>2, <2>1, <2>5, QuietStep DEF EdLeftOver
    <2>3. EdEvents'
      BY <1>2 DEF EdLeftOver, EdInv, EdEvents, EdFails
    <2>4. QED
      BY <2>2, <2>3 DEF EdInv
  <1>3. CASE EdExit
    <2>4. (EdFails => EdFails') /\ (edEv = "redraw" => edEv' = "redraw")
      BY <1>3 DEF EdExit, EdFails, EdInv, EdEvents
    <2>1. EdShape' /\ EdCursor' /\ EdDrawn' /\ CleanIsSaved'
      BY <1>3, <2>4, QuietStep DEF EdExit
    <2>2. EdEvents'
      BY <1>3 DEF EdExit, EdEvents
    <2>3. QED
      BY <2>1, <2>2 DEF EdInv
  <1>4. CASE EdQuit
    <2>1. EdShape' /\ EdCursor' /\ EdDrawn' /\ CleanIsSaved'
      BY <1>4, QuietStep DEF EdQuit, EdFails
    <2>2. EdEvents'
      BY <1>4 DEF EdQuit, EdInv, EdEvents, EdFails
    <2>3. QED
      BY <2>1, <2>2 DEF EdInv
  <1>5. CASE EdAskRedraw
    <2>1. EdShape' /\ EdCursor' /\ EdDrawn' /\ CleanIsSaved'
      BY <1>5, QuietStep DEF EdAskRedraw, EdFails
    <2>2. EdEvents'
      BY <1>5 DEF EdAskRedraw, EdInv, EdEvents, EdFails
    <2>3. QED
      BY <2>1, <2>2 DEF EdInv
  <1>6. CASE EdRedraw
    <2>1. /\ edPhase = "handle" /\ edPhase' = "loop" /\ edEv' = "none" /\ edDisk' = edDisk /\ edLost' = edLost
          /\ edTerm' \in EdSizes \cup {edTerm} /\ edit_draw(ed, edTerm', TRUE)
      BY <1>6 DEF EdRedraw, term_getSize
    <2>2. TermKnown(edTerm)'
      BY <2>1 DEF EdInv, EdShape, TermKnown
    <2>3. EdShape' /\ EdCursor' /\ EdDrawn' /\ ed'.dirty = ed.dirty /\ Texts(ed') = Texts(ed)
      <3>1. EdShape /\ ed \in EdText /\ InText(ed) /\ TRUE \in BOOLEAN
        BY <2>1 DEF EdInv, EdShape, EdEvents, EdCursor
      <3>2. QED
        BY <2>1, <2>2, <3>1, DrawKeeps
    <2>4. EdEvents'
      BY <2>1 DEF EdEvents
    <2>5. CleanIsSaved'
      <3>1. SavedRows = Texts(ed) /\ SavedRows' = Texts(ed')
        BY DEF SavedRows, Texts
      <3>2. QED
        BY <2>1, <2>3, <3>1 DEF EdInv, CleanIsSaved
    <2>6. QED
      BY <2>3, <2>4, <2>5 DEF EdInv
  <1>7. CASE EdKey
    BY <1>7, EdKeyKeeps
  <1>8. CASE EdOutOfMemory
    BY <1>8, EdOutOfMemoryKeeps
  <1>9. CASE EdIgnore
    <2>1. EdShape' /\ EdCursor' /\ EdDrawn' /\ CleanIsSaved'
      BY <1>9, QuietStep DEF EdIgnore, EdFails
    <2>2. EdEvents'
      BY <1>9 DEF EdIgnore, EdInv, EdEvents, EdFails
    <2>3. QED
      BY <2>1, <2>2 DEF EdInv
  <1>10. CASE EdSave
    BY <1>10, EdSaveKeeps
  <1>11. CASE UNCHANGED edVars
    <2>1. EdShape' /\ EdCursor' /\ EdDrawn' /\ CleanIsSaved'
      BY <1>11, QuietStep DEF edVars, EdFails
    <2>2. EdEvents'
      BY <1>11 DEF edVars, EdInv, EdEvents, EdFails
    <2>3. QED
      BY <2>1, <2>2 DEF EdInv
  <1>12. QED
    BY <1>1, <1>2, <1>3, <1>4, <1>5, <1>6, <1>7, <1>8, <1>9, <1>10, <1>11 DEF EdNext

(* It holds when the editor is started.                                    *)
LEMMA EdStarts ==
  ASSUME EdInit
  PROVE  EdInv
  <1>1. edDisk \in Seq(Seq(Nat)) /\ edPhase = "loop" /\ edLost = FALSE /\ edEv = "redraw" /\ edSent = "none" /\ edCnt = 0
        /\ edScreen = [y \in EdLines |-> Blank]
    BY PshEditAssumption DEF EdInit
  <1>2. PICK rows : rows = [i \in DOMAIN edDisk |-> Fresh(edDisk[i])]
    OBVIOUS
  <1>3. ed = [row |-> rows, cx |-> 0, cy |-> 0, vx |-> 0, vy |-> 0, rx |-> 0,
              rows |-> 1, cols |-> 1, dirty |-> FALSE, replace |-> FALSE]
    BY <1>2 DEF EdInit
  <1>4. PICK n \in Nat : DOMAIN edDisk = 1 .. n /\ edDisk \in [1 .. n -> Seq(Nat)]
    BY <1>1, SeqDef
  <1>5. rows \in [1 .. n -> EdRow] /\ \A i \in 1 .. n : rows[i].chars = edDisk[i]
    <2>1. \A i \in 1 .. n : Fresh(edDisk[i]) \in EdRow /\ Fresh(edDisk[i]).chars = edDisk[i]
      BY <1>4 DEF Fresh, EdRow
    <2>2. QED
      BY <1>2, <1>4, <2>1
  <1>6. rows \in Seq(EdRow) /\ DOMAIN rows = 1 .. n
    BY <1>5, SeqDef
  <1>7. ed \in EdText
    BY <1>3, <1>6 DEF EdText
  <1>8. InText(ed)
    <2>1. nrows(ed) \in Nat /\ (0 < nrows(ed) => RowLen(ed, 0) \in Nat)
      BY <1>7, TextFact
    <2>2. ed.cx = 0 /\ ed.cy = 0
      BY <1>3
    <2>3. QED
      BY <2>1, <2>2 DEF InText
  <1>9. TermKnown(edTerm)
    BY DEF EdInit, TermKnown
  <1>10. CleanIsSaved
    <2>1. ed.row = rows
      BY <1>3
    <2>2. edDisk = [i \in 1 .. n |-> edDisk[i]]
      BY <1>4
    <2>3. SavedRows = [i \in 1 .. n |-> edDisk[i]]
      BY <1>5, <1>6, <2>1 DEF SavedRows
    <2>4. QED
      BY <2>2, <2>3 DEF CleanIsSaved
  <1>11. QED
    BY <1>1, <1>7, <1>8, <1>9, <1>10 DEF EdInv, EdShape, EdCursor, EdEvents, EdDrawn

(* edit's screen shows the text, and the cursor stands in both, after      *)
(* every key: the rows edit_drawRows leaves alone were shown right         *)
(* already, for every terminal, file and number of keys, and for memory    *)
(* that runs out at any of them, when only the cursor may be out of place. *)
THEOREM ScreenIsRight == EdSpec => []ScreenShowsText
  <1>1. EdInv => ScreenShowsText
    <2> SUFFICES ASSUME EdInv, edEv # "redraw" PROVE ScreenShowsText
      BY DEF ScreenShowsText
    <2>1. (EdFails \/ InText(ed)) /\ InView(ed) /\ Shown(ed, edScreen, edTerm)
      BY DEF EdInv, EdCursor, EdDrawn
    <2>2. QED
      BY <2>1 DEF ScreenShowsText, InText, InView, Shown
  <1>2. EdInit => EdInv
    BY EdStarts
  <1>3. EdInv /\ [EdNext]_edVars => EdInv'
    BY EdStep
  <1>4. QED
    BY <1>1, <1>2, <1>3, PTL DEF EdSpec

(* What ^Q lets go of is on the disk: a text that is not marked dirty is   *)
(* what edit_save wrote, or what edit_open read, but for the two cases     *)
(* edit_save overlooks.                                                    *)
THEOREM NothingUnsaved == EdSpec => []CleanIsSaved
  <1>1. EdInv => CleanIsSaved
    BY DEF EdInv
  <1>2. EdInit => EdInv
    BY EdStarts
  <1>3. EdInv /\ [EdNext]_edVars => EdInv'
    BY EdStep
  <1>4. QED
    BY <1>1, <1>2, <1>3, PTL DEF EdSpec

-----------------------------------------------------------------------------
(* wget, for every buffer size, every answer and every way it is cut into  *)
(* pieces.                                                                 *)
(*                                                                         *)
(* The buffer is a window on the answer, and readptr a place in it that is *)
(* the start of a line until the empty line was read, and the start of the *)
(* body then; or the headers were cut off, and the length is one no answer *)
(* can fulfil.  What is saved is the answer from that place on, and left   *)
(* is what misses, or, once it wrapped, more than will ever come.          *)
WgAt == wgRead - Len(wgBuf) + wgPtr
BodyAt(a) == CHOOSE h \in 2 .. Len(a) : BodyFollows(a, h)

WgShape ==
  /\ wgAnswer \in WgAnswers
  /\ wgPhase \in {"connect", "status", "headers", "save", "file", "done"}
  /\ wgRead \in 0 .. Len(wgAnswer)
  /\ wgBuf \in Seq(Int) /\ Len(wgBuf) <= wgRead
  /\ wgPtr \in 0 .. Len(wgBuf)
  /\ wgLen \in -1 .. WGWORD - 1 /\ wgLeft \in Int
  /\ wgPhase = "done" <=> wgExit # -1

WgWindow ==
  wgPhase \in {"connect", "status", "headers", "save"} =>
    /\ wgOut = <<>>
    /\ \A i \in 1 .. Len(wgBuf) : wgBuf[i] = wgAnswer[wgRead - Len(wgBuf) + i]

WgLines ==
  /\ wgPhase \in {"connect", "status"} => WgAt = 0
  /\ wgPhase = "headers" =>
       /\ WgAt \in 1 .. BodyAt(wgAnswer) - 1 /\ wgAnswer[WgAt] = NL
       /\ wgLen >= 0
       /\ wgLen = 0 \/ \E i \in 1 .. WgAt : wgAnswer[i] = ContentLength

BodyOrCut(at) == wgLen >= 0 /\ (at = BodyAt(wgAnswer) \/ wgLen = WGWORD - 1)

WgSaved ==
  /\ wgPhase = "save" => BodyOrCut(WgAt)
  /\ wgPhase = "file" =>
       /\ wgOut \in Seq(Int) /\ Len(wgOut) <= wgRead
       /\ BodyOrCut(wgRead - Len(wgOut))
       /\ \A i \in 1 .. Len(wgOut) : wgOut[i] = wgAnswer[wgRead - Len(wgOut) + i]
       /\ wgLeft \in {wgLen - Len(wgOut), wgLen - Len(wgOut) + WGWORD}

WgInv == LengthX \notin ToSet(wgAnswer) => WgShape /\ WgWindow /\ WgLines /\ WgSaved /\ DownloadIsExact

(* Where the body of an answer starts.                                     *)
LEMMA AnswerFact ==
  ASSUME NEW a \in WgAnswers
  PROVE  /\ a \in Seq(Int) /\ Len(a) < WGWORD - 1 /\ WGWORD \in Nat /\ WGBUFSZ \in Nat
         /\ BodyAt(a) \in 2 .. Len(a) /\ BodyFollows(a, BodyAt(a))
  <1>1. WgAnswer(a) /\ WGWORD \in Nat /\ WGBUFSZ \in Nat
    BY PshWgetAssumption
  <1>2. \E h \in 2 .. Len(a) : BodyFollows(a, h)
    BY <1>1 DEF WgAnswer
  <1>3. BodyAt(a) \in 2 .. Len(a) /\ BodyFollows(a, BodyAt(a))
    BY <1>2 DEF BodyAt
  <1>4. QED
    BY <1>1, <1>3 DEF WgAnswer

(* What was received and not consumed is the answer from readptr on.       *)
LEMMA UnreadFact ==
  ASSUME WgShape, WgWindow, wgPhase \in {"connect", "status", "headers", "save"}
  PROVE  /\ Unread \in Seq(Int) /\ Len(Unread) = Len(wgBuf) - wgPtr /\ Len(Unread) \in Nat
         /\ WgAt \in Nat /\ WgAt + Len(Unread) = wgRead
         /\ \A i \in 1 .. Len(Unread) : Unread[i] = wgAnswer[WgAt + i]
  <1>1. wgBuf \in Seq(Int) /\ wgPtr \in 0 .. Len(wgBuf) /\ Len(wgBuf) \in Nat /\ wgRead \in Nat /\ Len(wgBuf) <= wgRead
    BY LenProperties DEF WgShape
  <1>2. wgPtr + 1 \in 1 .. Len(wgBuf) + 1 /\ Len(wgBuf) \in wgPtr .. Len(wgBuf)
    BY <1>1
  <1>3. Unread \in Seq(Int) /\ Len(Unread) = Len(wgBuf) - wgPtr
    BY <1>1, <1>2, SubSeqProperties DEF Unread
  <1>4. \A i \in 1 .. Len(Unread) : Unread[i] = wgBuf[wgPtr + i]
    BY <1>1, <1>2, <1>3, SubSeqProperties DEF Unread
  <1>5. \A i \in 1 .. Len(wgBuf) : wgBuf[i] = wgAnswer[wgRead - Len(wgBuf) + i]
    BY DEF WgWindow
  <1>6. \A i \in 1 .. Len(Unread) : wgPtr + i \in 1 .. Len(wgBuf) /\ wgRead - Len(wgBuf) + (wgPtr + i) = WgAt + i
    BY <1>1, <1>3 DEF WgAt
  <1>7. WgAt \in Nat /\ WgAt + Len(Unread) = wgRead /\ Len(Unread) \in Nat
    BY <1>1, <1>3 DEF WgAt
  <1>8. QED
    BY <1>3, <1>4, <1>5, <1>6, <1>7

(* The line wget finds ends at the first newline.                          *)
LEMMA LineFact ==
  ASSUME WgShape, WgWindow, wgPhase \in {"status", "headers"}, HasLine
  PROVE  /\ LineEnd \in 1 .. Len(Unread) /\ wgAnswer[WgAt + LineEnd] = NL
         /\ \A i \in 1 .. LineEnd - 1 : wgAnswer[WgAt + i] # NL
  <1>1. Len(Unread) \in Nat /\ \A i \in 1 .. Len(Unread) : Unread[i] = wgAnswer[WgAt + i]
    BY UnreadFact
  <1>2. LineEnds # {} /\ LineEnds \subseteq Nat
    BY <1>1 DEF LineEnds, HasLine
  <1>3. LineEnd \in LineEnds /\ \A y \in LineEnds : LineEnd <= y
    BY ONLY <1>2, MinFact DEF LineEnd
  <1>4. LineEnd \in 1 .. Len(Unread) /\ Unread[LineEnd] = NL
    BY <1>3 DEF LineEnds
  <1>5. ASSUME NEW i \in 1 .. LineEnd - 1  PROVE wgAnswer[WgAt + i] # NL
    <2>1. i \in 1 .. Len(Unread) /\ i < LineEnd
      BY <1>1, <1>4
    <2>2. i \notin LineEnds
      BY <1>3, <2>1, <1>4
    <2>3. QED
      BY <2>1, <2>2, <1>1 DEF LineEnds
  <1>6. QED
    BY <1>1, <1>4, <1>5

(* A piece is the answer from what was received on, and appending it to    *)
(* something that is the answer up to there keeps that true.               *)
LEMMA PieceFact ==
  ASSUME wgAnswer \in Seq(Int), wgRead \in 0 .. Len(wgAnswer), NEW room \in Nat, NEW n \in Received(room),
         NEW s \in Seq(Int), Len(s) <= wgRead, \A i \in 1 .. Len(s) : s[i] = wgAnswer[wgRead - Len(s) + i]
  PROVE  /\ n \in 1 .. room /\ wgRead + n \in 0 .. Len(wgAnswer)
         /\ s \o Piece(n) \in Seq(Int) /\ Len(s \o Piece(n)) = Len(s) + n
         /\ \A i \in 1 .. Len(s) + n : (s \o Piece(n))[i] = wgAnswer[wgRead - Len(s) + i]
  <1>1. n \in 1 .. room /\ wgRead + n <= Len(wgAnswer) /\ Len(wgAnswer) \in Nat /\ Len(s) \in Nat /\ wgRead \in Nat
    BY LenProperties DEF Received
  <1>2. wgRead + 1 \in 1 .. Len(wgAnswer) + 1 /\ wgRead + n \in wgRead .. Len(wgAnswer)
    BY <1>1
  <1> DEFINE t == Piece(n)
  <1>3. t \in Seq(Int) /\ Len(t) = n
    BY <1>1, <1>2, SubSeqProperties DEF Piece
  <1>4. \A i \in 1 .. n : t[i] = wgAnswer[wgRead + i]
    BY <1>1, <1>2, <1>3, SubSeqProperties DEF Piece
  <1> HIDE DEF t
  <1>5. s \o t \in Seq(Int) /\ Len(s \o t) = Len(s) + n
    BY <1>3, ConcatProperties
  <1>6. ASSUME NEW i \in 1 .. Len(s) + n  PROVE (s \o t)[i] = wgAnswer[wgRead - Len(s) + i]
    <2>1. CASE i <= Len(s)
      BY <2>1, <1>1, <1>3, ConcatProperties
    <2>2. CASE i > Len(s)
      <3>1. i - Len(s) \in 1 .. n /\ wgRead + (i - Len(s)) = wgRead - Len(s) + i
        BY <2>2, <1>1
      <3>2. (s \o t)[i] = t[i - Len(s)]
        BY <2>2, <1>3, <1>1, ConcatProperties
      <3>3. QED
        BY <3>1, <3>2, <1>4
    <2>3. i <= Len(s) \/ i > Len(s)
      BY <1>1
    <2>4. QED
      BY <2>1, <2>2, <2>3
  <1>7. wgRead + n \in 0 .. Len(wgAnswer)
    BY <1>1
  <1>8. QED
    BY <1>1, <1>5, <1>6, <1>7, Zenon DEF t

(* A difference below zero wraps around once.                              *)
LEMMA WrapFact ==
  ASSUME NEW P \in Nat \ {0}, NEW x \in -P .. -1
  PROVE  x % P = x + P
  <1>1. x % P \in 0 .. P - 1 /\ x = P * (x \div P) + (x % P) /\ x \div P \in Int
    OBVIOUS
  <1> DEFINE q == x \div P
  <1> HIDE DEF q
  <1>2. q \in Int /\ P * q <= x /\ x < P * q + P /\ x % P = x - P * q
    BY <1>1 DEF q
  <1>3. q = -1
    <2>1. CASE q >= 0
      <3>1. P * q >= 0
        BY <2>1, <1>2
      <3>2. QED
        BY <3>1, <1>2
    <2>2. CASE q <= -2
      <3>1. P * (q + 2) <= 0 /\ P * (q + 2) = P * q + 2 * P
        BY <2>2, <1>2
      <3>2. QED
        BY <3>1, <1>2
    <2>3. QED
      BY <2>1, <2>2, <1>2
  <1>4. QED
    BY <1>2, <1>3

(* The steps before the first line: the window grows with what is          *)
(* received, and readptr stays where it is in the answer.                  *)
LEMMA WgFillsKeeps ==
  ASSUME WgShape, WgWindow, WgLines, WgFills
  PROVE  WgShape' /\ WgWindow' /\ WgLines' /\ WgSaved' /\ DownloadIsExact'
  <1>1. wgPhase \in {"status", "headers"} /\ wgPtr' = 0 /\ wgAnswer' = wgAnswer /\ wgPhase' = wgPhase /\ wgLen' = wgLen
        /\ wgLeft' = wgLeft /\ wgOut' = wgOut /\ wgExit' = wgExit
    BY DEF WgFills
  <1>2. PICK n \in Received(WGBUFSZ - Len(Unread)) : wgBuf' = Unread \o Piece(n) /\ wgRead' = wgRead + n
    BY DEF WgFills
  <1>3. /\ Unread \in Seq(Int) /\ Len(Unread) = Len(wgBuf) - wgPtr /\ Len(Unread) \in Nat
        /\ WgAt \in Nat /\ WgAt + Len(Unread) = wgRead
        /\ \A i \in 1 .. Len(Unread) : Unread[i] = wgAnswer[WgAt + i]
    BY <1>1, UnreadFact
  <1>4. wgAnswer \in Seq(Int) /\ wgRead \in 0 .. Len(wgAnswer) /\ WGBUFSZ \in Nat /\ wgRead \in Nat
    BY AnswerFact, LenProperties DEF WgShape
  <1>5. PICK u : u = Unread
    OBVIOUS
  <1>6. u \in Seq(Int) /\ Len(u) \in Nat /\ Len(u) <= wgRead /\ WgAt = wgRead - Len(u)
    <2>1. u \in Seq(Int) /\ Len(u) \in Nat /\ WgAt \in Nat /\ WgAt + Len(u) = wgRead
      BY <1>3, <1>5
    <2>2. QED
      BY <2>1, <1>4
  <1>7. \A i \in 1 .. Len(u) : u[i] = wgAnswer[wgRead - Len(u) + i]
    BY <1>3, <1>5, <1>6
  <1>8. PICK room : room = WGBUFSZ - Len(u)
    OBVIOUS
  <1>9. n \in Received(room) /\ room \in Nat
    <2>1. n \in Received(room)
      BY <1>2, <1>5, <1>8
    <2>2. n \in 1 .. room
      BY <2>1 DEF Received
    <2>3. room \in Int
      BY <1>4, <1>6, <1>8
    <2>4. QED
      BY <2>1, <2>2, <2>3
  <1>10. /\ n \in 1 .. room /\ wgRead + n \in 0 .. Len(wgAnswer)
         /\ u \o Piece(n) \in Seq(Int) /\ Len(u \o Piece(n)) = Len(u) + n
         /\ \A i \in 1 .. Len(u) + n : (u \o Piece(n))[i] = wgAnswer[wgRead - Len(u) + i]
    BY ONLY <1>4, <1>6, <1>7, <1>9, PieceFact
  <1>11. n \in Nat /\ wgBuf' \in Seq(Int) /\ Len(wgBuf') = Len(u) + n /\ wgRead' = wgRead + n
         /\ wgRead' - Len(wgBuf') = wgRead - Len(u)
    BY <1>2, <1>5, <1>6, <1>10, <1>9, <1>4
  <1>12. \A i \in 1 .. Len(wgBuf') : wgBuf'[i] = wgAnswer[wgRead - Len(u) + i]
    BY <1>2, <1>5, <1>10, <1>11
  <1>13. WgShape'
    BY <1>1, <1>4, <1>6, <1>10, <1>11 DEF WgShape
  <1>14. WgWindow'
    BY <1>1, <1>11, <1>12 DEF WgWindow
  <1>15. WgAt' = WgAt
    BY <1>1, <1>6, <1>11, <1>4 DEF WgAt
  <1>16. WgLines'
    BY <1>1, <1>15 DEF WgLines
  <1>17. WgSaved' /\ DownloadIsExact'
    BY <1>1 DEF WgSaved, DownloadIsExact, WgShape
  <1>18. QED
    BY <1>13, <1>14, <1>16, <1>17

(* A connection that ends, or a buffer that is full: the program exits, or *)
(* goes on with a length that no answer has.                               *)
LEMMA WgFillFailsKeeps ==
  ASSUME WgShape, WgWindow, WgLines, WgFillFails
  PROVE  WgShape' /\ WgWindow' /\ WgLines' /\ WgSaved' /\ DownloadIsExact'
  <1>1. wgPhase \in {"status", "headers"} /\ wgPtr' = 0 /\ wgBuf' = Unread /\ wgAnswer' = wgAnswer /\ wgRead' = wgRead
        /\ wgLeft' = wgLeft /\ wgOut' = wgOut
    BY DEF WgFillFails
  <1>2. /\ Unread \in Seq(Int) /\ Len(Unread) = Len(wgBuf) - wgPtr /\ Len(Unread) \in Nat
        /\ WgAt \in Nat /\ WgAt + Len(Unread) = wgRead
        /\ \A i \in 1 .. Len(Unread) : Unread[i] = wgAnswer[WgAt + i]
    BY <1>1, UnreadFact
  <1>3. wgRead \in Nat /\ WGWORD \in Nat \ {0} /\ wgAnswer \in WgAnswers /\ wgRead \in 0 .. Len(wgAnswer)
    BY AnswerFact, LenProperties, PshWgetAssumption DEF WgShape
  <1>4. wgBuf' \in Seq(Int) /\ Len(wgBuf') \in Nat /\ Len(wgBuf') <= wgRead /\ wgRead - Len(wgBuf') = WgAt
    BY <1>1, <1>2, <1>3
  <1>5. CASE wgPhase = "status"
    <2>1. wgPhase' = "done" /\ wgExit' = 1 /\ wgLen' = wgLen
      BY <1>5 DEF WgFillFails, WgExits
    <2>2. WgShape'
      BY <2>1, <1>1, <1>3, <1>4 DEF WgShape
    <2>3. WgWindow' /\ WgLines' /\ WgSaved' /\ DownloadIsExact'
      BY <2>1 DEF WgWindow, WgLines, WgSaved, DownloadIsExact
    <2>4. QED
      BY <2>2, <2>3
  <1>6. CASE wgPhase = "headers"
    <2>1. wgPhase' = "save" /\ wgExit' = wgExit /\ wgLen' = WGWORD - 1
      BY <1>6 DEF WgFillFails
    <2>2. WgShape'
      BY <2>1, <1>6, <1>1, <1>3, <1>4 DEF WgShape
    <2>3. WgWindow'
      BY <2>1, <1>6, <1>1, <1>2, <1>4 DEF WgWindow
    <2>4. WgLines' /\ WgSaved' /\ DownloadIsExact'
      BY <2>1, <1>6, <1>3 DEF WgLines, WgSaved, BodyOrCut, DownloadIsExact, WgShape
    <2>5. QED
      BY <2>2, <2>3, <2>4
  <1>7. QED
    BY <1>1, <1>5, <1>6

(* A line moves readptr behind its end.                                    *)
LEMMA WgLineShape ==
  ASSUME WgShape, WgWindow, wgPhase \in {"status", "headers"}, HasLine, wgPtr' = wgPtr + LineEnd,
         wgAnswer' = wgAnswer, wgRead' = wgRead, wgBuf' = wgBuf, wgOut' = wgOut
  PROVE  /\ wgPtr' \in 0 .. Len(wgBuf') /\ WgAt' = WgAt + LineEnd /\ LineEnd \in Nat
         /\ WgWindow'
  <1>1. LineEnd \in 1 .. Len(Unread) /\ Len(Unread) = Len(wgBuf) - wgPtr /\ Len(Unread) \in Nat
    BY LineFact, UnreadFact
  <1>2. wgPtr \in 0 .. Len(wgBuf) /\ Len(wgBuf) \in Nat /\ wgRead \in Int
    BY LenProperties, AnswerFact DEF WgShape
  <1>3. wgPtr' \in 0 .. Len(wgBuf) /\ WgAt' = WgAt + LineEnd /\ LineEnd \in Nat
    BY <1>1, <1>2 DEF WgAt
  <1>4. QED
    BY <1>3 DEF WgWindow

(* The status line is the first line; no empty line can end within it.     *)
LEMMA WgStatusKeeps ==
  ASSUME WgShape, WgWindow, WgLines, WgStatus
  PROVE  WgShape' /\ WgWindow' /\ WgLines' /\ WgSaved' /\ DownloadIsExact'
  <1>1. wgPhase = "status" /\ HasLine /\ wgPtr' = wgPtr + LineEnd /\ wgAnswer' = wgAnswer /\ wgRead' = wgRead
        /\ wgBuf' = wgBuf /\ wgLeft' = wgLeft /\ wgOut' = wgOut
    BY DEF WgStatus
  <1>2. wgPtr' \in 0 .. Len(wgBuf') /\ WgAt' = WgAt + LineEnd /\ LineEnd \in Nat /\ WgWindow'
    BY <1>1, WgLineShape
  <1>3. WgAt = 0 /\ WGWORD \in Nat \ {0} /\ wgAnswer \in WgAnswers
    BY <1>1, PshWgetAssumption DEF WgLines, WgShape
  <1>4. CASE Unread[1] = StatusOk
    <2>1. wgPhase' = "headers" /\ wgLen' = 0 /\ wgExit' = wgExit
      BY <1>4 DEF WgStatus
    <2>2. WgShape'
      BY <2>1, <1>1, <1>2, <1>3 DEF WgShape
    <2>3. PICK h : h = BodyAt(wgAnswer)
      OBVIOUS
    <2>4. h \in Nat /\ h >= 2 /\ wgAnswer[h - 1] = NL /\ wgAnswer[h] = NL
      BY <2>3, <1>3, AnswerFact, LenProperties DEF BodyFollows, EmptyLine
    <2>5. PICK l : l = LineEnd
      OBVIOUS
    <2>6. l \in Nat /\ l >= 1 /\ wgAnswer[l] = NL /\ \A i \in 1 .. l - 1 : wgAnswer[i] # NL
      BY <2>5, <1>1, <1>3, LineFact, UnreadFact
    <2>7. l <= h - 1
      BY <2>4, <2>6
    <2>8. WgLines'
      BY <2>1, <2>3, <2>4, <2>5, <2>6, <2>7, <1>1, <1>2, <1>3 DEF WgLines
    <2>9. WgSaved' /\ DownloadIsExact'
      BY <2>1, <1>1 DEF WgSaved, DownloadIsExact, WgShape
    <2>10. QED
      BY <2>2, <2>8, <2>9, <1>2
  <1>5. CASE Unread[1] # StatusOk
    <2>1. wgPhase' = "done" /\ wgExit' = 1 /\ wgLen' = wgLen
      BY <1>5 DEF WgStatus, WgExits
    <2>2. WgShape'
      BY <2>1, <1>1, <1>2, <1>3 DEF WgShape
    <2>3. WgLines' /\ WgSaved' /\ DownloadIsExact'
      BY <2>1 DEF WgLines, WgSaved, DownloadIsExact
    <2>4. QED
      BY <2>2, <2>3, <1>2
  <1>6. QED
    BY <1>4, <1>5

(* A header line: one that is not empty ends before the empty line does,   *)
(* and only the empty line, or a length that says nothing, ends them.      *)
LEMMA WgHeaderKeeps ==
  ASSUME WgShape, WgWindow, WgLines, WgHeader, LengthX \notin ToSet(wgAnswer)
  PROVE  WgShape' /\ WgWindow' /\ WgLines' /\ WgSaved' /\ DownloadIsExact'
  <1>1. wgPhase = "headers" /\ HasLine /\ wgPtr' = wgPtr + LineEnd /\ wgAnswer' = wgAnswer /\ wgRead' = wgRead
        /\ wgBuf' = wgBuf /\ wgLeft' = wgLeft /\ wgOut' = wgOut /\ wgLen' = LengthOf(Unread) /\ wgExit = -1
    BY DEF WgHeader, WgShape
  <1>2. wgPtr' \in 0 .. Len(wgBuf') /\ WgAt' = WgAt + LineEnd /\ LineEnd \in Nat /\ WgWindow'
    BY <1>1, WgLineShape
  <1>3. PICK h : h = BodyAt(wgAnswer)
    OBVIOUS
  <1>4. PICK p : p = WgAt
    OBVIOUS
  <1>5. PICK l : l = LineEnd
    OBVIOUS
  <1>6. PICK a : a = wgAnswer
    OBVIOUS
  <1>7. /\ a \in Seq(Int) /\ h \in Nat /\ h >= 2 /\ h <= Len(a) /\ Len(a) \in Nat /\ WGWORD \in Nat \ {0} /\ wgAnswer \in WgAnswers
        /\ BodyFollows(a, h)
    BY <1>3, <1>6, AnswerFact, LenProperties, PshWgetAssumption DEF WgShape
  <1>8. a[h] = 0 /\ a[h - 1] = 0 /\ \A i \in 2 .. h - 1 : ~ (a[i] = 0 /\ a[i - 1] = 0)
    BY <1>7 DEF BodyFollows, EmptyLine, NL
  <1>9. p \in Nat /\ p >= 1 /\ p <= h - 1 /\ a[p] = 0 /\ wgLen \in 0 .. WGWORD - 1
        /\ (wgLen = 0 \/ \E i \in 1 .. p : a[i] = ContentLength)
    BY <1>1, <1>3, <1>4, <1>6, <1>7 DEF WgLines, WgShape, NL
  <1>10. l \in Nat /\ l >= 1 /\ a[p + l] = 0 /\ (\A i \in 1 .. l - 1 : a[p + i] # 0) /\ l <= Len(Unread)
    BY <1>4, <1>5, <1>6, <1>1, LineFact, UnreadFact DEF NL
  <1>11. Len(Unread) \in Nat /\ \A i \in 1 .. Len(Unread) : Unread[i] = a[p + i]
    BY <1>1, <1>4, <1>6, UnreadFact
  <1>12. Unread[1] = a[p + 1] /\ (l >= 2 => Unread[2] = a[p + 2])
    BY <1>10, <1>11
  <1>13. a[p + 1] # LengthX
    <2>1. p + 1 \in 1 .. Len(a)
      BY <1>7, <1>9
    <2>2. QED
      BY <2>1, <1>6, <1>7 DEF ToSet
  <1>14. CASE a[p + 1] = 0
    <2>1. l = 1
      BY <1>14, <1>9, <1>10
    <2>2. p + 1 = h
      <3>1. (p + 1) - 1 = p /\ (p + 1 \in 2 .. h - 1 \/ p + 1 = h)
        BY <1>9, <1>7
      <3>2. p + 1 \in 2 .. h - 1 => ~ (a[p + 1] = 0 /\ a[(p + 1) - 1] = 0)
        BY <1>8
      <3>3. QED
        BY <3>1, <3>2, <1>14, <1>9
    <2>3. wgLen' = wgLen /\ HeadersEnd(Unread)
      BY <1>14, <1>1, <1>12 DEF LengthOf, HeadersEnd, ContentLength, LengthX, NL
    <2>4. WgAt' = h
      BY <2>1, <2>2, <1>2, <1>4, <1>5
    <2>5. CASE wgLen' = 0
      <3>1. wgPhase' = "done" /\ wgExit' = 0
        BY <2>3, <2>5 DEF WgHeader, WgExits
      <3>2. WgShape'
        BY <3>1, <1>1, <1>2, <1>9, <2>3 DEF WgShape
      <3>3. Len(wgOut') = 0 /\ wgLen' = 0 /\ wgOut' = [i \in 1 .. Len(wgOut') |-> i]
        <4>1. wgOut' = <<>> /\ Len(wgOut') = 0
          BY <1>1 DEF WgWindow
        <4>2. QED
          BY <4>1, <2>5
      <3>4. WgLines' /\ WgSaved' /\ DownloadIsExact'
        BY <3>1, <3>3 DEF WgLines, WgSaved, DownloadIsExact
      <3>5. QED
        BY <3>2, <3>4, <1>2
    <2>6. CASE wgLen' # 0
      <3>1. wgPhase' = "save" /\ wgExit' = wgExit
        BY <2>3, <2>6 DEF WgHeader
      <3>2. WgShape'
        BY <3>1, <1>1, <1>2, <1>9, <2>3 DEF WgShape
      <3>3. WgLines' /\ WgSaved' /\ DownloadIsExact'
        BY <3>1, <1>1, <2>3, <2>4, <1>3, <1>9 DEF WgLines, WgSaved, BodyOrCut, DownloadIsExact
      <3>4. QED
        BY <3>2, <3>3, <1>2
    <2>7. QED
      BY <2>5, <2>6
  <1>15. CASE a[p + 1] # 0
    <2>1. l >= 2
      BY <1>15, <1>10
    <2>2. p + 1 <= h - 1
      BY <1>15, <1>8, <1>9, <1>7
    <2>3. p + l <= h - 1
      <3>1. h - 1 - p \in 1 .. h /\ p + (h - 1 - p) = h - 1
        BY <2>2, <1>7, <1>9
      <3>2. ~ (h - 1 - p \in 1 .. l - 1)
        BY <3>1, <1>8, <1>10
      <3>3. QED
        BY <3>1, <3>2, <1>7, <1>9, <1>10
    <2>4. p + 1 \in 1 .. h - 1 /\ p + 2 = (p + 1) + 1
      BY <2>2, <1>9, <1>7
    <2>5. PICK c : c = a[p + 1]
      OBVIOUS
    <2>6. PICK d : d = a[p + 2]
      OBVIOUS
    <2>7. c = ContentLength => \/ \E n \in 0 .. WGWORD - 1 : d = Number(n)
                               \/ d = NL /\ \A j \in 1 .. p : a[j] # ContentLength
      <3>1. a[p + 1] = ContentLength => \/ \E n \in 0 .. WGWORD - 1 : a[(p + 1) + 1] = Number(n)
                                        \/ a[(p + 1) + 1] = NL /\ \A j \in 1 .. (p + 1) - 1 : a[j] # ContentLength
        BY <1>7, <2>4 DEF BodyFollows
      <3>2. (p + 1) - 1 = p
        BY <1>9
      <3>3. QED
        BY <3>1, <3>2, <2>4, <2>5, <2>6
    <2>8. Unread[1] = c /\ Unread[2] = d /\ c # NL /\ c # LengthX
      BY <1>12, <1>13, <1>15, <2>1, <2>5, <2>6 DEF NL
    <2>9. WgAt' = p + l /\ p + l \in 1 .. h - 1 /\ a[p + l] = NL
      BY <1>2, <1>4, <1>5, <1>9, <1>10, <1>7, <2>3 DEF NL
    <2>10. CASE c = ContentLength /\ d = NL
      <3>1. wgLen' = wgLen /\ HeadersEnd(Unread)
        BY <2>8, <2>10, <1>1 DEF LengthOf, HeadersEnd
      <3>2. wgLen = 0
        BY <2>7, <2>10, <1>9 DEF NL, Number
      <3>3. wgPhase' = "done" /\ wgExit' = 0
        BY <3>1, <3>2 DEF WgHeader, WgExits
      <3>4. WgShape'
        BY <3>3, <1>1, <1>2, <1>9, <3>1 DEF WgShape
      <3>5. Len(wgOut') = 0 /\ wgLen' = 0 /\ wgOut' = [i \in 1 .. Len(wgOut') |-> i]
        <4>1. wgOut' = <<>> /\ Len(wgOut') = 0
          BY <1>1 DEF WgWindow
        <4>2. QED
          BY <4>1, <3>1, <3>2
      <3>6. WgLines' /\ WgSaved' /\ DownloadIsExact'
        BY <3>3, <3>5 DEF WgLines, WgSaved, DownloadIsExact
      <3>7. QED
        BY <3>4, <3>6, <1>2
    <2>11. CASE ~ (c = ContentLength /\ d = NL)
      <3>1. wgPhase' = wgPhase /\ wgExit' = wgExit
        <4>1. ~ HeadersEnd(Unread)
          BY <2>8, <2>11 DEF HeadersEnd
        <4>2. QED
          BY <4>1 DEF WgHeader
      <3>2. wgLen' \in 0 .. WGWORD - 1 /\ (wgLen' = 0 \/ \E i \in 1 .. p + l : a[i] = ContentLength)
        <4>1. CASE c = ContentLength
          <5>1. PICK n \in 0 .. WGWORD - 1 : d = Number(n)
            BY <4>1, <2>7, <2>11
          <5>2. wgLen' = Number(0) - d
            BY <4>1, <2>8, <2>11, <1>1 DEF LengthOf
          <5>3. wgLen' = n
            BY <5>1, <5>2, <1>7 DEF Number
          <5>4. p + 1 \in 1 .. p + l
            BY <1>9, <1>10
          <5>5. QED
            BY <5>3, <5>4, <4>1, <2>5
        <4>2. CASE c # ContentLength
          <5>1. wgLen' = wgLen
            BY <4>2, <2>8, <1>1 DEF LengthOf
          <5>2. \A i \in 1 .. p : i \in 1 .. p + l
            BY <1>9, <1>10
          <5>3. QED
            BY <5>1, <5>2, <1>9
        <4>3. QED
          BY <4>1, <4>2
      <3>3. WgShape'
        BY <3>1, <3>2, <1>1, <1>2, <1>7 DEF WgShape
      <3>4. WgLines'
        BY <3>1, <3>2, <2>9, <1>1, <1>3, <1>6 DEF WgLines
      <3>5. WgSaved' /\ DownloadIsExact'
        BY <3>1, <1>1 DEF WgSaved, DownloadIsExact
      <3>6. QED
        BY <3>3, <3>4, <3>5, <1>2
    <2>12. QED
      BY <2>10, <2>11
  <1>16. QED
    BY <1>14, <1>15

(* What is left in the buffer is the body so far; the length is taken      *)
(* down by as much, and once around if there is more than it promises.     *)
LEMMA WgSavesKeeps ==
  ASSUME WgShape, WgWindow, WgSaved, WgSaves
  PROVE  WgShape' /\ WgWindow' /\ WgLines' /\ WgSaved' /\ DownloadIsExact'
  <1>1. wgPhase = "save" /\ wgAnswer' = wgAnswer /\ wgRead' = wgRead /\ wgBuf' = wgBuf /\ wgPtr' = wgPtr /\ wgLen' = wgLen
    BY DEF WgSaves
  <1>2. /\ Unread \in Seq(Int) /\ Len(Unread) \in Nat /\ WgAt \in Nat /\ WgAt + Len(Unread) = wgRead
        /\ \A i \in 1 .. Len(Unread) : Unread[i] = wgAnswer[WgAt + i]
    BY <1>1, UnreadFact
  <1>3. WGWORD \in Nat \ {0} /\ wgAnswer \in WgAnswers /\ wgRead \in Nat /\ wgRead < WGWORD
    BY AnswerFact, LenProperties, PshWgetAssumption DEF WgShape
  <1>4. BodyOrCut(WgAt) /\ wgLen \in 0 .. WGWORD - 1
    BY <1>1, <1>3 DEF WgSaved, BodyOrCut, WgShape
  <1>5. CASE wgOut' = Unread /\ wgLeft' = LeftAfter(wgLen, Len(Unread)) /\ wgPhase' = "file" /\ wgExit' = wgExit
    <2>1. PICK u : u = Unread
      OBVIOUS
    <2>2. u \in Seq(Int) /\ Len(u) \in Nat /\ Len(u) <= wgRead /\ WgAt = wgRead - Len(u) /\ wgOut' = u
      <3>1. u \in Seq(Int) /\ Len(u) \in Nat /\ WgAt \in Nat /\ WgAt + Len(u) = wgRead
        BY <1>2, <2>1
      <3>2. QED
        BY <3>1, <1>3, <2>1, <1>5
    <2>3. \A i \in 1 .. Len(u) : u[i] = wgAnswer[wgRead - Len(u) + i]
      BY <1>2, <2>1, <2>2
    <2>4. wgLeft' \in {wgLen - Len(u), wgLen - Len(u) + WGWORD}
      <3>1. wgLeft' = (wgLen - Len(u)) % WGWORD
        BY <1>5, <2>1 DEF LeftAfter
      <3>2. wgLen - Len(u) \in -WGWORD .. WGWORD - 1
        BY <1>3, <1>4, <2>2
      <3>3. CASE wgLen - Len(u) >= 0
        BY <3>1, <3>2, <3>3, <1>3
      <3>4. CASE wgLen - Len(u) < 0
        BY <3>1, <3>2, <3>4, <1>3, WrapFact
      <3>5. QED
        BY <3>3, <3>4, <1>4, <2>2
    <2>5. wgLeft' \in Int
      BY <2>4, <1>3, <1>4, <2>2
    <2>6. WgShape'
      BY <1>1, <1>5, <2>5 DEF WgShape
    <2>7. BodyOrCut(wgRead - Len(u))'
      BY <1>1, <1>4, <2>2 DEF BodyOrCut
    <2>8. WgSaved'
      BY <1>1, <1>5, <2>2, <2>3, <2>4, <1>4 DEF WgSaved, BodyOrCut
    <2>9. WgWindow' /\ WgLines' /\ DownloadIsExact'
      BY <1>1, <1>5 DEF WgWindow, WgLines, DownloadIsExact, WgShape
    <2>10. QED
      BY <2>6, <2>8, <2>9
  <1>6. CASE WgExits(1) /\ wgOut' = wgOut /\ wgLeft' = wgLeft
    BY <1>1, <1>6 DEF WgExits, WgShape, WgWindow, WgLines, WgSaved, DownloadIsExact
  <1>7. QED
    BY <1>5, <1>6 DEF WgSaves

(* A piece of the body is appended where the last one ended.               *)
LEMMA WgFileKeeps ==
  ASSUME WgShape, WgSaved, WgFile
  PROVE  WgShape' /\ WgWindow' /\ WgLines' /\ WgSaved' /\ DownloadIsExact'
  <1>1. wgPhase = "file" /\ wgLeft > 0 /\ wgAnswer' = wgAnswer /\ wgBuf' = wgBuf /\ wgPtr' = wgPtr /\ wgLen' = wgLen
    BY DEF WgFile
  <1>2. PICK room : room = IF wgLeft < WGBUFSZ THEN wgLeft ELSE WGBUFSZ
    OBVIOUS
  <1>3. PICK n \in Received(room) :
          /\ wgRead' = wgRead + n /\ wgLeft' = wgLeft - n
          /\ \/ wgOut' = wgOut \o Piece(n) /\ wgPhase' = wgPhase /\ wgExit' = wgExit
             \/ WgExits(1) /\ wgOut' = wgOut
    BY <1>2 DEF WgFile
  <1>4. wgAnswer \in Seq(Int) /\ wgRead \in 0 .. Len(wgAnswer) /\ wgRead \in Nat /\ WGBUFSZ \in Nat /\ wgAnswer \in WgAnswers
        /\ WGWORD \in Nat /\ wgLen \in Int /\ wgLeft \in Int
    BY AnswerFact, LenProperties DEF WgShape
  <1>5. room \in Nat
    BY <1>1, <1>2, <1>4
  <1>6. /\ wgOut \in Seq(Int) /\ Len(wgOut) <= wgRead /\ BodyOrCut(wgRead - Len(wgOut))
        /\ \A i \in 1 .. Len(wgOut) : wgOut[i] = wgAnswer[wgRead - Len(wgOut) + i]
        /\ wgLeft \in {wgLen - Len(wgOut), wgLen - Len(wgOut) + WGWORD}
    BY <1>1 DEF WgSaved
  <1>7. PICK o : o = wgOut
    OBVIOUS
  <1>8. /\ n \in 1 .. room /\ wgRead + n \in 0 .. Len(wgAnswer)
        /\ o \o Piece(n) \in Seq(Int) /\ Len(o \o Piece(n)) = Len(o) + n
        /\ \A i \in 1 .. Len(o) + n : (o \o Piece(n))[i] = wgAnswer[wgRead - Len(o) + i]
    <2>1. /\ o \in Seq(Int) /\ Len(o) <= wgRead
          /\ \A i \in 1 .. Len(o) : o[i] = wgAnswer[wgRead - Len(o) + i]
      BY <1>6, <1>7
    <2>2. n \in Received(room)
      OBVIOUS
    <2>3. QED
      BY ONLY <2>1, <2>2, <1>4, <1>5, PieceFact
  <1>9. n \in Nat /\ Len(o) \in Nat
    BY <1>5, <1>6, <1>7, <1>8, LenProperties
  <1>10. wgLeft' \in Int /\ wgRead' \in 0 .. Len(wgAnswer) /\ wgRead <= wgRead'
    BY <1>3, <1>4, <1>8, <1>9
  <1>11. CASE wgOut' = wgOut \o Piece(n) /\ wgPhase' = wgPhase /\ wgExit' = wgExit
    <2>1. WgShape'
      <3>1. Len(wgBuf) \in Nat /\ Len(wgBuf) <= wgRead
        BY LenProperties DEF WgShape
      <3>2. Len(wgBuf) <= wgRead'
        BY <3>1, <1>4, <1>10, <1>3, <1>9
      <3>3. QED
        BY <3>2, <1>1, <1>10, <1>11 DEF WgShape
    <2>2. wgOut' \in Seq(Int) /\ Len(wgOut') = Len(o) + n /\ wgRead' - Len(wgOut') = wgRead - Len(o) /\ Len(wgOut') <= wgRead'
      <3>1. wgOut' \in Seq(Int) /\ Len(wgOut') = Len(o) + n
        BY <1>7, <1>8, <1>11
      <3>2. wgRead' = wgRead + n /\ Len(o) <= wgRead
        BY <1>3, <1>6, <1>7
      <3>3. QED
        BY <3>1, <3>2, <1>4, <1>9
    <2>3. \A i \in 1 .. Len(wgOut') : wgOut'[i] = wgAnswer[(wgRead' - Len(wgOut')) + i]
      BY <1>7, <1>8, <1>11, <2>2
    <2>4. wgLeft' \in {wgLen - Len(wgOut'), wgLen - Len(wgOut') + WGWORD}
      BY <1>3, <1>4, <1>6, <1>7, <1>9, <2>2
    <2>5. wgLen >= 0 /\ (wgRead' - Len(wgOut') = BodyAt(wgAnswer) \/ wgLen = WGWORD - 1)
      BY <1>6, <1>7, <2>2 DEF BodyOrCut
    <2>6. WgSaved'
      BY <1>1, <1>11, <2>2, <2>3, <2>4, <2>5 DEF WgSaved, BodyOrCut
    <2>7. WgWindow' /\ WgLines' /\ DownloadIsExact'
      BY <1>1, <1>11 DEF WgWindow, WgLines, DownloadIsExact, WgShape
    <2>8. QED
      BY <2>1, <2>6, <2>7
  <1>12. CASE WgExits(1) /\ wgOut' = wgOut
    <2>1. Len(wgBuf) \in Nat /\ Len(wgBuf) <= wgRead
      BY LenProperties DEF WgShape
    <2>2. Len(wgBuf) <= wgRead'
      BY <2>1, <1>4, <1>10, <1>3, <1>9
    <2>3. WgShape'
      BY <2>2, <1>1, <1>10, <1>12 DEF WgShape, WgExits
    <2>4. WgWindow' /\ WgLines' /\ WgSaved' /\ DownloadIsExact'
      BY <1>12 DEF WgExits, WgWindow, WgLines, WgSaved, DownloadIsExact
    <2>5. QED
      BY <2>3, <2>4
  <1>13. QED
    BY <1>3, <1>11, <1>12

(* Nothing is left only if the length was fulfilled: a length that wrapped *)
(* or that stands for headers cut off is more than the whole answer.       *)
LEMMA WgFileEndsKeeps ==
  ASSUME WgShape, WgSaved, WgFileEnds
  PROVE  WgShape' /\ WgWindow' /\ WgLines' /\ WgSaved' /\ DownloadIsExact'
  <1>1. /\ wgPhase = "file" /\ wgLeft = 0 /\ wgPhase' = "done" /\ wgExit' = 0
        /\ UNCHANGED <<wgAnswer, wgRead, wgBuf, wgPtr, wgLen, wgLeft>>
    BY DEF WgFileEnds, WgExits
  <1>2. PICK o : o = wgOut
    OBVIOUS
  <1>3. PICK k : k = Len(o)
    OBVIOUS
  <1>4. /\ o \in Seq(Int) /\ k \in Nat /\ k <= wgRead /\ wgLen >= 0
        /\ (wgRead - k = BodyAt(wgAnswer) \/ wgLen = WGWORD - 1)
        /\ \A i \in 1 .. k : o[i] = wgAnswer[wgRead - k + i]
        /\ 0 \in {wgLen - k, wgLen - k + WGWORD}
    BY <1>1, <1>2, <1>3, LenProperties DEF WgSaved, BodyOrCut
  <1>5. /\ wgRead \in Nat /\ wgRead <= Len(wgAnswer) /\ Len(wgAnswer) \in Nat /\ Len(wgAnswer) < WGWORD - 1
        /\ WGWORD \in Nat /\ wgLen \in Int /\ BodyAt(wgAnswer) \in Nat /\ BodyFollows(wgAnswer, BodyAt(wgAnswer))
    BY AnswerFact, LenProperties DEF WgShape
  <1>6. wgLen = k /\ wgRead - k = BodyAt(wgAnswer)
    BY <1>4, <1>5
  <1>7. ASSUME NEW i \in 1 .. k  PROVE o[i] = i
    <2>1. BodyAt(wgAnswer) + i \in BodyAt(wgAnswer) + 1 .. Len(wgAnswer)
      BY <1>4, <1>5, <1>6
    <2>2. wgAnswer[BodyAt(wgAnswer) + i] = (BodyAt(wgAnswer) + i) - BodyAt(wgAnswer)
      BY <2>1, <1>5 DEF BodyFollows
    <2>3. (BodyAt(wgAnswer) + i) - BodyAt(wgAnswer) = i
      BY <1>5, <1>4
    <2>4. QED
      BY <2>2, <2>3, <1>4, <1>6
  <1>8. PICK n \in 0 .. k : wgOut' = SubSeq(o, 1, n) /\ wgLost' = (n < k)
    BY <1>2, <1>3 DEF WgFileEnds
  <1>9. Len(wgOut') = n /\ wgOut' = [i \in 1 .. n |-> i] /\ n \in Nat /\ n <= k
    <2>1. 1 \in Int /\ n \in Int /\ n \in Nat /\ n <= k /\ \A i \in 1 .. n : o[i] \in Int /\ i \in 1 .. k
      BY <1>4, <1>7
    <2>2. /\ SubSeq(o, 1, n) \in Seq(Int)
          /\ Len(SubSeq(o, 1, n)) = IF 1 <= n THEN n - 1 + 1 ELSE 0
          /\ \A i \in 1 .. n - 1 + 1 : SubSeq(o, 1, n)[i] = o[1 + i - 1]
      BY ONLY <2>1, SubSeqProperties
    <2>3. \A i \in 1 .. n : i \in 1 .. n - 1 + 1 /\ 1 + i - 1 = i
      BY <2>1
    <2>4. (IF 1 <= n THEN n - 1 + 1 ELSE 0) = n
      BY <2>1
    <2>5. PICK t : t = SubSeq(o, 1, n)
      OBVIOUS
    <2>6. t \in Seq(Int) /\ Len(t) = n /\ \A i \in 1 .. n : t[i] = i
      BY <2>1, <2>2, <2>3, <2>4, <2>5, <1>7
    <2>7. t = [i \in 1 .. n |-> t[i]]
      BY <2>6, LenProperties
    <2>8. t = [i \in 1 .. n |-> i]
      BY <2>6, <2>7
    <2>9. QED
      BY <2>1, <2>5, <2>6, <2>8, <1>8
  <1>10. DownloadIsExact'
    <2>1. Len(wgOut') <= wgLen' /\ (Len(wgOut') = wgLen' \/ wgLost')
      <3>1. wgLen' = k /\ k \in Nat /\ n \in Nat /\ n <= k
        BY <1>1, <1>4, <1>6, <1>9
      <3>2. n = k \/ wgLost'
        <4>1. n = k \/ n < k
          BY <3>1
        <4>2. n < k => wgLost'
          BY ONLY <1>8, Zenon
        <4>3. QED
          BY <4>1, <4>2
      <3>3. QED
        BY <3>1, <3>2, <1>9
    <2>2. wgOut' = [i \in 1 .. Len(wgOut') |-> i]
      BY <1>9
    <2>3. QED
      BY <2>1, <2>2 DEF DownloadIsExact
  <1>11. WgShape' /\ WgWindow' /\ WgLines' /\ WgSaved'
    BY <1>1 DEF WgShape, WgWindow, WgLines, WgSaved
  <1>12. QED
    BY <1>10, <1>11

(* Every step keeps the window, the place in it and what is saved.         *)
LEMMA WgStep ==
  ASSUME WgInv, [WgNext]_wgVars
  PROVE  WgInv'
  <1>1. wgAnswer' = wgAnswer
    BY DEF WgNext, wgVars, WgConnects, WgFills, WgFillFails, WgStatus, WgHeader, WgSaves, WgFile, WgFileFails, WgFileEnds
  <1>2. SUFFICES ASSUME LengthX \notin ToSet(wgAnswer)
                 PROVE  WgShape' /\ WgWindow' /\ WgLines' /\ WgSaved' /\ DownloadIsExact'
    BY <1>1 DEF WgInv
  <1>3. WgShape /\ WgWindow /\ WgLines /\ WgSaved /\ DownloadIsExact
    BY <1>2 DEF WgInv
  <1>4. CASE WgConnects
    <2>1. wgPhase = "connect" /\ UNCHANGED <<wgAnswer, wgRead, wgBuf, wgPtr, wgLen, wgLeft, wgOut>>
          /\ ((wgPhase' = "status" /\ wgExit' = wgExit) \/ (wgPhase' = "done" /\ wgExit' = 1))
      BY <1>4 DEF WgConnects, WgExits
    <2>2. WgShape' /\ WgWindow'
      BY <1>3, <2>1 DEF WgShape, WgWindow
    <2>3. WgLines' /\ WgSaved' /\ DownloadIsExact'
      BY <1>3, <2>1 DEF WgLines, WgAt, WgSaved, DownloadIsExact, WgShape
    <2>4. QED
      BY <2>2, <2>3
  <1>5. CASE WgFills
    BY <1>3, <1>5, WgFillsKeeps
  <1>6. CASE WgFillFails
    BY <1>3, <1>6, WgFillFailsKeeps
  <1>7. CASE WgStatus
    BY <1>3, <1>7, WgStatusKeeps
  <1>8. CASE WgHeader
    BY <1>2, <1>3, <1>8, WgHeaderKeeps
  <1>9. CASE WgSaves
    BY <1>3, <1>9, WgSavesKeeps
  <1>10. CASE WgFile
    BY <1>3, <1>10, WgFileKeeps
  <1>11. CASE WgFileFails
    <2>1. wgPhase' = "done" /\ wgExit' = 1 /\ UNCHANGED <<wgAnswer, wgRead, wgBuf, wgPtr, wgLen, wgLeft, wgOut>>
      BY <1>11 DEF WgFileFails, WgExits
    <2>2. QED
      BY <1>3, <2>1 DEF WgShape, WgWindow, WgLines, WgSaved, DownloadIsExact
  <1>12. CASE WgFileEnds
    BY <1>3, <1>12, WgFileEndsKeeps
  <1>13. CASE UNCHANGED wgVars
    BY <1>3, <1>13 DEF wgVars, WgShape, WgWindow, WgLines, WgAt, WgSaved, BodyOrCut, DownloadIsExact
  <1>14. QED
    BY <1>4, <1>5, <1>6, <1>7, <1>8, <1>9, <1>10, <1>11, <1>12, <1>13 DEF WgNext

(* wget exits with success only when the file is the body, all the cells   *)
(* its length promises and no other, or the beginning of it if closing the *)
(* file lost the rest; for every buffer, every answer and every way in     *)
(* which the pieces of it arrive (wget_file, wget_parsehdrs).              *)
THEOREM SavesTheBody == WgSpec => []DownloadIsExact
  <1>1. WgInit => WgInv
    <2> SUFFICES ASSUME WgInit  PROVE WgInv
      OBVIOUS
    <2>2. wgAnswer \in WgAnswers /\ WGWORD \in Nat \ {0} /\ Len(wgAnswer) \in Nat
      BY AnswerFact, LenProperties, PshWgetAssumption DEF WgInit
    <2>3. wgBuf = <<>> /\ wgBuf \in Seq(Int) /\ Len(wgBuf) = 0
      BY DEF WgInit
    <2>4. WgShape
      BY <2>2, <2>3 DEF WgInit, WgShape
    <2>5. WgWindow /\ WgLines /\ WgSaved /\ DownloadIsExact
      <3>1. wgPhase = "connect" /\ wgExit = -1 /\ wgOut = <<>> /\ wgRead = 0 /\ wgPtr = 0
        BY DEF WgInit
      <3>2. WgAt = 0
        <4>1. Len(wgBuf) = 0 /\ wgRead = 0 /\ wgPtr = 0
          BY <2>3, <3>1
        <4>2. QED
          BY ONLY <4>1 DEF WgAt
      <3>3. WgWindow
        BY <3>1, <2>3 DEF WgWindow
      <3>4. WgLines /\ WgSaved /\ DownloadIsExact
        BY <3>1, <3>2 DEF WgLines, WgSaved, DownloadIsExact
      <3>5. QED
        BY <3>3, <3>4
    <2>6. QED
      BY <2>4, <2>5 DEF WgInv
  <1>2. WgInv /\ [WgNext]_wgVars => WgInv'
    BY WgStep
  <1>3. WgInv => DownloadIsExact
    BY DEF WgInv, DownloadIsExact
  <1>4. QED
    BY <1>1, <1>2, <1>3, PTL DEF WgSpec

-----------------------------------------------------------------------------
(* dd, cp, mv, cat and logread, for every command line, every file and     *)
(* every way in which reads and writes are short, fail or are interrupted. *)
(*                                                                         *)
(* What all of them keep between two calls: the target is what was there   *)
(* when it was opened, with the first k bytes of the input written over it *)
(* at one place, and the buffer holds the m bytes that follow those.       *)
CpByte == Nat \X Int

Core(base, at, f, from, k, m) ==
  /\ k \in Nat /\ m \in Nat
  /\ cpBuf = CpBytes(f, from + k, m) /\ cpIn = from + k + m
  /\ cpOut = Overwritten(base, at, CpBytes(f, from, k)) /\ cpPos = at + k

(* Two lengths with the same domain are equal.                             *)
LEMMA DomainLen ==
  ASSUME NEW m \in Nat, NEW n \in Nat, 1 .. m = 1 .. n
  PROVE  m = n
  <1>1. CASE m < n
    <2>1. n \in 1 .. n /\ n \notin 1 .. m
      BY <1>1
    <2>2. QED
      BY <2>1
  <1>2. CASE n < m
    <2>1. m \in 1 .. m /\ m \notin 1 .. n
      BY <1>2
    <2>2. QED
      BY <2>1
  <1>3. QED
    BY <1>1, <1>2

(* The bytes of a file are a sequence of that length.                      *)
LEMMA BytesFact ==
  ASSUME NEW f \in Nat, NEW q \in Int, NEW n \in Nat
  PROVE  /\ CpBytes(f, q, n) \in Seq(CpByte) /\ Len(CpBytes(f, q, n)) = n /\ DOMAIN CpBytes(f, q, n) = 1 .. n
         /\ \A i \in 1 .. n : CpBytes(f, q, n)[i] = <<f, q + i>>
         /\ n = 0 <=> CpBytes(f, q, n) = <<>>
  <1> DEFINE s == CpBytes(f, q, n)
  <1>1. DOMAIN s = 1 .. n /\ \A i \in 1 .. n : s[i] = <<f, q + i>>
    BY DEF CpBytes
  <1>2. \A i \in 1 .. n : <<f, q + i>> \in CpByte
    BY DEF CpByte
  <1>3. s \in [1 .. n -> CpByte]
    BY <1>2 DEF CpBytes
  <1> HIDE DEF s
  <1>4. s \in Seq(CpByte)
    BY <1>3, SeqDef
  <1>5. Len(s) \in Nat /\ DOMAIN s = 1 .. Len(s)
    BY <1>4, LenProperties
  <1>6. Len(s) = n
    BY <1>1, <1>5, DomainLen
  <1>7. n = 0 <=> s = <<>>
    BY <1>4, <1>6, EmptySeq
  <1>8. QED
    BY <1>1, <1>4, <1>6, <1>7 DEF s

IsBytes(s, f, q, n) ==
  /\ s \in Seq(CpByte) /\ Len(s) = n /\ \A i \in 1 .. n : s[i] = <<f, q + i>>
  /\ n = 0 <=> s = <<>>

(* The same, as one fact.                                                 *)
LEMMA BytesAre ==
  ASSUME NEW f \in Nat, NEW q \in Int, NEW n \in Nat
  PROVE  IsBytes(CpBytes(f, q, n), f, q, n)
  <1> DEFINE s == CpBytes(f, q, n)
  <1>1. s \in Seq(CpByte) /\ Len(s) = n /\ (\A i \in 1 .. n : s[i] = <<f, q + i>>) /\ (n = 0 <=> s = <<>>)
    BY BytesFact
  <1> HIDE DEF s
  <1>2. IsBytes(s, f, q, n)
    BY <1>1 DEF IsBytes
  <1>3. QED
    BY <1>2 DEF s

(* No bytes are the empty sequence.                                        *)
LEMMA NoBytes ==
  ASSUME NEW f \in Nat, NEW q \in Int
  PROVE  CpBytes(f, q, 0) = <<>>
  <1>1. 0 \in Nat
    OBVIOUS
  <1>2. QED
    BY ONLY f \in Nat, q \in Int, <1>1, BytesFact, Zenon

IsOver(r, out, pos, b) ==
  /\ r \in Seq(CpByte)
  /\ Len(r) = CpMost(Len(out), pos + Len(b))
  /\ \A i \in 1 .. CpMost(Len(out), pos + Len(b)) :
       r[i] = IF i \in pos + 1 .. pos + Len(b) THEN b[i - pos] ELSE IF i <= Len(out) THEN out[i] ELSE Zero

(* What Overwritten leaves, byte by byte.                                  *)
LEMMA OverFact ==
  ASSUME NEW out \in Seq(CpByte), NEW pos \in Nat, NEW b \in Seq(CpByte), b # <<>>
  PROVE  IsOver(Overwritten(out, pos, b), out, pos, b)
  <1> DEFINE e(i) == IF i \in pos + 1 .. pos + Len(b) THEN b[i - pos] ELSE IF i <= Len(out) THEN out[i] ELSE Zero
             m == CpMost(Len(out), pos + Len(b))
             s == [i \in 1 .. m |-> e(i)]
  <1>1. Len(out) \in Nat /\ Len(b) \in Nat /\ m \in Nat /\ Len(out) <= m /\ pos + Len(b) <= m
    BY LenProperties DEF CpMost
  <1>2. Overwritten(out, pos, b) = s
    BY DEF Overwritten
  <1>3. \A i \in 1 .. m : e(i) \in CpByte
    <2>1. Zero \in CpByte
      BY DEF Zero, CpByte
    <2>2. \A i \in 1 .. Len(out) : out[i] \in CpByte
      BY ElementOfSeq
    <2>3. \A i \in 1 .. Len(b) : b[i] \in CpByte
      BY ElementOfSeq
    <2>4. \A i \in pos + 1 .. pos + Len(b) : i - pos \in 1 .. Len(b)
      BY <1>1
    <2>5. QED
      BY <2>1, <2>2, <2>3, <2>4, <1>1
  <1> HIDE DEF m
  <1>4. s \in [1 .. m -> CpByte] /\ \A i \in 1 .. m : s[i] = e(i)
    BY <1>3
  <1> HIDE DEF s
  <1>5. s \in Seq(CpByte)
    BY <1>1, <1>4, SeqDef
  <1>6. Len(s) = m
    BY <1>1, <1>4, <1>5, LenProperties, DomainLen
  <1>7. QED
    BY <1>2, <1>4, <1>5, <1>6 DEF m, IsOver

(* Writing the bytes that follow where the last ones ended is writing all  *)
(* of them at once.                                                        *)
LEMMA OverMore ==
  ASSUME NEW base \in Seq(CpByte), NEW at \in Nat, NEW f \in Nat, NEW from \in Nat, NEW k \in Nat, NEW n \in Nat \ {0}
  PROVE  Overwritten(Overwritten(base, at, CpBytes(f, from, k)), at + k, CpBytes(f, from + k, n))
           = Overwritten(base, at, CpBytes(f, from, k + n))
  <1> DEFINE a == CpBytes(f, from, k)
             b == CpBytes(f, from + k, n)
             c == CpBytes(f, from, k + n)
             x == Overwritten(base, at, a)
             y == Overwritten(x, at + k, b)
             z == Overwritten(base, at, c)
  <1>4. a \in Seq(CpByte) /\ Len(a) = k /\ (\A i \in 1 .. k : a[i] = <<f, from + i>>) /\ (k = 0 <=> a = <<>>)
    <2>1. from \in Int
      OBVIOUS
    <2>2. IsBytes(a, f, from, k)
      BY ONLY <2>1, f \in Nat, k \in Nat, BytesAre
    <2>3. QED
      BY ONLY <2>2 DEF IsBytes
  <1>5. b \in Seq(CpByte) /\ Len(b) = n /\ (\A i \in 1 .. n : b[i] = <<f, from + k + i>>) /\ b # <<>>
    <2>1. from + k \in Int /\ n \in Nat /\ n # 0
      OBVIOUS
    <2>2. IsBytes(b, f, from + k, n)
      BY ONLY <2>1, f \in Nat, BytesAre
    <2>3. QED
      BY ONLY <2>1, <2>2 DEF IsBytes
  <1>6. c \in Seq(CpByte) /\ Len(c) = k + n /\ (\A i \in 1 .. k + n : c[i] = <<f, from + i>>) /\ c # <<>>
    <2>1. from \in Int /\ k + n \in Nat
      OBVIOUS
    <2>2. IsBytes(c, f, from, k + n)
      BY ONLY <2>1, f \in Nat, BytesAre
    <2>3. k + n # 0
      OBVIOUS
    <2>4. QED
      BY ONLY <2>2, <2>3 DEF IsBytes
  <1> HIDE DEF a, b, c
  <1>7. CASE k = 0
    <2>1. a = <<>> /\ Overwritten(base, at, a) = base
      BY <1>4, <1>7 DEF Overwritten
    <2>2. from + k = from /\ at + k = at /\ k + n = n
      BY <1>7
    <2>3. b = CpBytes(f, from, n) /\ c = CpBytes(f, from, n)
      BY <2>2, Zenon DEF b, c
    <2>4. y = z
      BY <2>1, <2>2, <2>3, Zenon
    <2>5. QED
      BY <2>4 DEF a, b, c
  <1>8. CASE k # 0
    <2>4. Len(base) \in Nat /\ at + k \in Nat
      BY LenProperties
    <2>5. /\ x \in Seq(CpByte) /\ Len(x) = CpMost(Len(base), at + k)
          /\ \A i \in 1 .. CpMost(Len(base), at + k) :
               x[i] = IF i \in at + 1 .. at + k THEN a[i - at] ELSE IF i <= Len(base) THEN base[i] ELSE Zero
      <3>1. a # <<>> /\ a \in Seq(CpByte)
        BY <1>4, <1>8
      <3>2. /\ x \in Seq(CpByte) /\ Len(x) = CpMost(Len(base), at + Len(a))
            /\ \A i \in 1 .. CpMost(Len(base), at + Len(a)) :
                 x[i] = IF i \in at + 1 .. at + Len(a) THEN a[i - at] ELSE IF i <= Len(base) THEN base[i] ELSE Zero
        <4>1. IsOver(x, base, at, a)
          BY ONLY base \in Seq(CpByte), at \in Nat, <3>1, OverFact
        <4>2. QED
          BY <4>1 DEF IsOver
      <3>3. QED
        BY ONLY <3>2, <1>4, Zenon
    <2>6. /\ y \in Seq(CpByte) /\ Len(y) = CpMost(Len(x), at + k + n)
          /\ \A i \in 1 .. CpMost(Len(x), at + k + n) :
               y[i] = IF i \in at + k + 1 .. at + k + n THEN b[i - (at + k)] ELSE IF i <= Len(x) THEN x[i] ELSE Zero
      <3>1. /\ y \in Seq(CpByte) /\ Len(y) = CpMost(Len(x), at + k + Len(b))
            /\ \A i \in 1 .. CpMost(Len(x), at + k + Len(b)) :
                 y[i] = IF i \in at + k + 1 .. at + k + Len(b) THEN b[i - (at + k)] ELSE IF i <= Len(x) THEN x[i] ELSE Zero
        <4>1. x \in Seq(CpByte) /\ at + k \in Nat /\ b \in Seq(CpByte) /\ b # <<>>
          BY <1>5, <2>4, <2>5
        <4>2. QED
          <5>1. IsOver(y, x, at + k, b)
            <6> HIDE DEF x
            <6>1. QED
              BY ONLY <4>1, OverFact
          <5>2. QED
            BY <5>1 DEF IsOver
      <3>2. QED
        BY ONLY <3>1, <1>5, Zenon
    <2>7. /\ z \in Seq(CpByte) /\ Len(z) = CpMost(Len(base), at + (k + n))
          /\ \A i \in 1 .. CpMost(Len(base), at + (k + n)) :
               z[i] = IF i \in at + 1 .. at + (k + n) THEN c[i - at] ELSE IF i <= Len(base) THEN base[i] ELSE Zero
      <3>1. /\ z \in Seq(CpByte) /\ Len(z) = CpMost(Len(base), at + Len(c))
            /\ \A i \in 1 .. CpMost(Len(base), at + Len(c)) :
                 z[i] = IF i \in at + 1 .. at + Len(c) THEN c[i - at] ELSE IF i <= Len(base) THEN base[i] ELSE Zero
        <4>1. IsOver(z, base, at, c)
          BY ONLY base \in Seq(CpByte), at \in Nat, <1>6, OverFact
        <4>2. QED
          BY <4>1 DEF IsOver
      <3>2. QED
        BY ONLY <3>1, <1>6, Zenon
    <2> HIDE DEF x, y, z
    <2>8. Len(y) = Len(z) /\ Len(z) \in Nat
      BY <2>4, <2>5, <2>6, <2>7 DEF CpMost
    <2>9. ASSUME NEW i \in 1 .. Len(z)  PROVE y[i] = z[i]
      <3>1. i \in 1 .. CpMost(Len(x), at + k + n) /\ i \in 1 .. CpMost(Len(base), at + (k + n)) /\ i \in Nat
        BY <2>6, <2>7, <2>8
      <3>2. CASE i \in at + k + 1 .. at + k + n
        <4>1. i - (at + k) \in 1 .. n /\ i - at \in 1 .. k + n /\ i \in at + 1 .. at + (k + n)
              /\ from + k + (i - (at + k)) = from + (i - at)
          BY <3>2
        <4>2. QED
          BY <4>1, <3>1, <3>2, <2>6, <2>7, <1>5, <1>6
      <3>3. CASE i \in at + 1 .. at + k
        <4>1. i - at \in 1 .. k /\ i - at \in 1 .. k + n /\ i \in at + 1 .. at + (k + n) /\ i \notin at + k + 1 .. at + k + n
              /\ i \in 1 .. CpMost(Len(base), at + k) /\ i <= Len(x)
          <5>1. i \in Nat /\ i >= at + 1 /\ i <= at + k
            BY <3>1, <3>3
          <5>2. i - at \in 1 .. k /\ i - at \in 1 .. k + n /\ i \in at + 1 .. at + (k + n) /\ i \notin at + k + 1 .. at + k + n
            BY <5>1
          <5>3. CpMost(Len(base), at + k) \in Nat /\ at + k <= CpMost(Len(base), at + k)
            BY <2>4 DEF CpMost
          <5>4. i \in 1 .. CpMost(Len(base), at + k)
            BY <5>1, <5>3
          <5>5. QED
            BY <5>2, <5>4, <2>5
        <4>2. y[i] = x[i] /\ x[i] = a[i - at] /\ z[i] = c[i - at]
          BY <4>1, <3>1, <3>3, <2>5, <2>6, <2>7
        <4>3. QED
          BY <4>1, <4>2, <1>4, <1>6
      <3>4. CASE i \notin at + 1 .. at + (k + n)
        <4>1. i \notin at + 1 .. at + k /\ i \notin at + k + 1 .. at + k + n
          BY <3>4
        <4>2. CASE i <= Len(base)
          <5>1. i \in 1 .. CpMost(Len(base), at + k) /\ i <= Len(x)
            BY <4>2, <3>1, <2>4, <2>5 DEF CpMost
          <5>2. y[i] = x[i] /\ x[i] = base[i] /\ z[i] = base[i]
            BY <5>1, <4>1, <4>2, <3>1, <3>4, <2>5, <2>6, <2>7
          <5>3. QED
            BY <5>2
        <4>3. CASE ~ (i <= Len(base))
          <5>1. z[i] = Zero
            BY <4>3, <3>1, <3>4, <2>7
          <5>2. y[i] = Zero
            <6>1. CASE i <= Len(x)
              <7>1. i \in 1 .. CpMost(Len(base), at + k)
                BY <6>1, <3>1, <2>4, <2>5
              <7>2. x[i] = Zero
                BY <7>1, <4>1, <4>3, <2>5
              <7>3. QED
                BY <7>2, <6>1, <4>1, <3>1, <2>6
            <6>2. CASE ~ (i <= Len(x))
              BY <6>2, <4>1, <3>1, <2>6
            <6>3. QED
              BY <6>1, <6>2
          <5>3. QED
            BY <5>1, <5>2
        <4>4. QED
          BY <4>2, <4>3
      <3>5. QED
        BY <3>1, <3>2, <3>3, <3>4
    <2>10. y = z
      BY <2>6, <2>7, <2>8, <2>9, SeqEqual
    <2>11. QED
      BY <2>10 DEF x, y, z, a, b, c
  <1>9. QED
    BY <1>7, <1>8

(* A read takes the bytes that follow into an empty buffer.                *)
LEMMA CoreReads ==
  ASSUME NEW base \in Seq(CpByte), NEW at \in Nat, NEW from \in Nat, NEW k,
         cpFile \in Nat, Core(base, at, cpFile, from, k, 0), CpReads
  PROVE  \E n \in 1 .. CpLeast(CpBufsz, CpLeft) :
           /\ n \in Nat \ {0} /\ k + n \in Nat /\ CpLeft > 0
           /\ cpFile' = cpFile /\ Core(base, at, cpFile, from, k, n)'
           /\ cpTotal' = [cpTotal EXCEPT !.in = @ + n]
  <1>1. PICK n \in 1 .. CpLeast(CpBufsz, CpLeft) : cpBuf' = CpBytes(cpFile, cpIn, n) /\ cpIn' = cpIn + n
                                                   /\ cpTotal' = [cpTotal EXCEPT !.in = @ + n]
    BY DEF CpReads
  <1>2. cpFile' = cpFile /\ cpOut' = cpOut /\ cpPos' = cpPos /\ CpLeft > 0
    BY DEF CpReads
  <1>3. k \in Nat /\ cpIn = from + k + 0 /\ cpOut = Overwritten(base, at, CpBytes(cpFile, from, k)) /\ cpPos = at + k
    BY DEF Core
  <1>4. n \in Nat \ {0}
    OBVIOUS
  <1>5. cpIn = from + k /\ cpIn' = from + k + n /\ k + n \in Nat
    BY <1>1, <1>3, <1>4
  <1>6. cpBuf' = CpBytes(cpFile, from + k, n)
    BY <1>1, <1>5
  <1>7. Core(base, at, cpFile, from, k, n)'
    BY <1>2, <1>3, <1>4, <1>5, <1>6 DEF Core
  <1>8. QED
    BY <1>1, <1>2, <1>4, <1>5, <1>7

(* A write takes them from the buffer to their place.                      *)
LEMMA CoreWrites ==
  ASSUME NEW base \in Seq(CpByte), NEW at \in Nat, NEW from \in Nat, NEW k, NEW m,
         cpFile \in Nat, Core(base, at, cpFile, from, k, m), CpWrites
  PROVE  \E n \in 1 .. m :
           /\ n \in Nat \ {0} /\ m - n \in Nat /\ k \in Nat /\ m \in Nat
           /\ cpFile' = cpFile /\ Core(base, at, cpFile, from, k + n, m - n)'
           /\ cpTotal' = [cpTotal EXCEPT !.out = @ + n]
           /\ cpPhase' = IF m - n # 0 THEN "write" ELSE IF DdEnough THEN "close" ELSE "read"
  <1>1. /\ k \in Nat /\ m \in Nat /\ cpBuf = CpBytes(cpFile, from + k, m) /\ cpIn = from + k + m
        /\ cpOut = Overwritten(base, at, CpBytes(cpFile, from, k)) /\ cpPos = at + k
    BY DEF Core
  <1>2. PICK b : b = cpBuf
    OBVIOUS
  <1>3. b \in Seq(CpByte) /\ Len(b) = m /\ (\A i \in 1 .. m : b[i] = <<cpFile, from + k + i>>) /\ from + k \in Nat
    <2>1. from + k \in Nat /\ from + k \in Int
      BY <1>1
    <2>2. IsBytes(CpBytes(cpFile, from + k, m), cpFile, from + k, m)
      BY ONLY <1>1, <2>1, cpFile \in Nat, BytesAre
    <2>3. IsBytes(b, cpFile, from + k, m)
      BY ONLY <1>1, <1>2, <2>2
    <2>4. QED
      BY ONLY <2>1, <2>3 DEF IsBytes
  <1>4. PICK n \in 1 .. Len(b) : cpOut' = Overwritten(cpOut, cpPos, SubSeq(b, 1, n)) /\ cpPos' = cpPos + n
                                 /\ cpBuf' = SubSeq(b, n + 1, Len(b)) /\ cpTotal' = [cpTotal EXCEPT !.out = @ + n]
    BY <1>2 DEF CpWrites, Remaining
  <1>5. n \in Nat \ {0} /\ m - n \in Nat /\ n \in 1 .. m /\ k + n \in Nat
    BY <1>1, <1>3
  <1>6. SubSeq(b, 1, n) = CpBytes(cpFile, from + k, n)
    <2> DEFINE s == SubSeq(b, 1, n)
               t == CpBytes(cpFile, from + k, n)
    <2>1. \A i \in 1 .. n : b[i] \in CpByte
      BY <1>3, <1>5, ElementOfSeq
    <2>2. s \in Seq(CpByte) /\ Len(s) = n /\ \A i \in 1 .. n : s[i] = b[i]
      BY <1>5, <2>1, SubSeqProperties
    <2>3. t \in Seq(CpByte) /\ Len(t) = n /\ \A i \in 1 .. n : t[i] = <<cpFile, from + k + i>>
      <3>1. from + k \in Int /\ n \in Nat
        BY <1>3, <1>5
      <3>2. IsBytes(t, cpFile, from + k, n)
        BY ONLY <3>1, cpFile \in Nat, BytesAre
      <3>3. QED
        BY ONLY <3>2 DEF IsBytes
    <2> HIDE DEF s, t
    <2>4. ASSUME NEW i \in 1 .. n  PROVE s[i] = t[i]
      <3>1. i \in 1 .. m
        BY <1>1, <1>5
      <3>2. QED
        BY ONLY <3>1, i \in 1 .. n, <2>2, <2>3, <1>3, Zenon
    <2>5. s = t
      BY <2>2, <2>3, <2>4, SeqEqual
    <2>6. QED
      BY <2>5 DEF s, t
  <1>7. SubSeq(b, n + 1, Len(b)) = CpBytes(cpFile, from + (k + n), m - n)
    <2> DEFINE s == SubSeq(b, n + 1, m)
               t == CpBytes(cpFile, from + (k + n), m - n)
    <2>1. \A i \in n + 1 .. m : b[i] \in CpByte
      BY <1>3, <1>5, ElementOfSeq
    <2>2. s \in Seq(CpByte) /\ Len(s) = m - n /\ \A i \in 1 .. m - n : s[i] = b[n + i]
      BY <1>1, <1>5, <2>1, SubSeqProperties
    <2>3. t \in Seq(CpByte) /\ Len(t) = m - n /\ \A i \in 1 .. m - n : t[i] = <<cpFile, from + (k + n) + i>>
      <3>1. from + (k + n) \in Int /\ m - n \in Nat
        BY <1>1, <1>5
      <3>2. IsBytes(t, cpFile, from + (k + n), m - n)
        BY ONLY <3>1, cpFile \in Nat, BytesAre
      <3>3. QED
        BY ONLY <3>2 DEF IsBytes
    <2> HIDE DEF s, t
    <2>4. ASSUME NEW i \in 1 .. m - n  PROVE s[i] = t[i]
      <3>1. n + i \in 1 .. m /\ from + k + (n + i) = from + (k + n) + i
        BY <1>1, <1>5
      <3>2. QED
        BY <3>1, <2>2, <2>3, <1>3
    <2>5. s = t
      BY <2>2, <2>3, <2>4, SeqEqual
    <2>6. QED
      BY <2>5, <1>3 DEF s, t
  <1>8. cpOut' = Overwritten(base, at, CpBytes(cpFile, from, k + n)) /\ cpPos' = at + (k + n)
    <2>1. cpOut' = Overwritten(Overwritten(base, at, CpBytes(cpFile, from, k)), at + k, CpBytes(cpFile, from + k, n))
      BY <1>1, <1>4, <1>6
    <2>2. cpPos' = at + (k + n)
      BY <1>1, <1>4, <1>5
    <2>3. Overwritten(Overwritten(base, at, CpBytes(cpFile, from, k)), at + k, CpBytes(cpFile, from + k, n))
            = Overwritten(base, at, CpBytes(cpFile, from, k + n))
      <3>1. k \in Nat /\ n \in Nat \ {0}
        BY <1>1, <1>5
      <3>2. QED
        BY ONLY base \in Seq(CpByte), at \in Nat, cpFile \in Nat, from \in Nat, <3>1, OverMore
    <2>4. QED
      BY ONLY <2>1, <2>2, <2>3, Zenon
  <1>9. cpFile' = cpFile /\ cpIn' = cpIn
    BY DEF CpWrites, cpPlace
  <1>10. cpIn = from + (k + n) + (m - n)
    BY <1>1, <1>5
  <1>11. Core(base, at, cpFile, from, k + n, m - n)'
    BY <1>4, <1>5, <1>7, <1>8, <1>9, <1>10 DEF Core
  <1>12. m - n = 0 <=> cpBuf' = <<>>
    <2>1. from + (k + n) \in Int /\ m - n \in Nat
      BY <1>1, <1>5
    <2>2. cpBuf' = CpBytes(cpFile, from + (k + n), m - n)
      BY <1>4, <1>7
    <2>3. QED
      BY ONLY <2>1, <2>2, cpFile \in Nat, BytesFact, Zenon
  <1>13. cpPhase' = IF m - n # 0 THEN "write" ELSE IF DdEnough THEN "close" ELSE "read"
    BY <1>12 DEF CpWrites
  <1>14. QED
    BY <1>1, <1>4, <1>5, <1>9, <1>11, <1>13

(* What the five have in common, and where each of them can be.            *)
OldBytes == CpBytes(0, 0, CpMost(cpReq.old, 0))
CpFresh == cpIn = 0 /\ cpBuf = <<>> /\ cpPos = 0 /\ cpOut = OldBytes /\ cpTotal = [in |-> 0, out |-> 0]

CpTool ==
  /\ cpReq \in CpRequest
  /\ cpReq.tool # "cat" => Len(cpReq.files) = 1
  /\ cpReq.tool \in {"cat", "logread"} => cpReq.old <= 0

CpCommon ==
  /\ CpTool
  /\ cpReq.tool # "cat" => cpFile = 1 /\ (cpPhase = "start" => CpFresh /\ ~ cpErr /\ cpThere)
  /\ cpPhase \in {"start", "skip", "seek", "read", "write", "attr", "close", "done"}
  /\ cpPhase \in {"skip", "seek"} => cpReq.tool = "dd"
  /\ cpPhase = "attr" => cpReq.tool = "cp"
  /\ cpPhase = "done" <=> cpExit # -1
  /\ cpErr \in BOOLEAN /\ cpSig \in BOOLEAN /\ cpFault \in BOOLEAN /\ cpThere \in BOOLEAN
  /\ cpSig => cpFault

(* Only a log that is followed changes under the tool.                     *)
LEMMA GrowsFact ==
  ASSUME CpTool, LogGrows
  PROVE  /\ CpTool' /\ cpReq.tool = "logread" /\ cpReq'.tool = cpReq.tool /\ cpReq'.old = cpReq.old
         /\ cpReq'.files[1] = cpReq.files[1] + 1 /\ cpReq.files[1] \in Int /\ cpReq'.follow = cpReq.follow
  <1>1. cpReq \in CpRequest /\ cpReq.tool = "logread" /\ Len(cpReq.files) = 1 /\ cpReq.old <= 0
    BY DEF CpTool, LogGrows, CpIs
  <1>2. PICK fs : fs = cpReq.files
    OBVIOUS
  <1>3. fs \in Seq(Int) /\ Len(fs) = 1
    BY <1>1, <1>2 DEF CpRequest
  <1>4. PICK gs : gs = [fs EXCEPT ![1] = fs[1] + 1]
    OBVIOUS
  <1>5. gs \in Seq(Int) /\ Len(gs) = 1 /\ gs[1] = fs[1] + 1 /\ fs[1] \in Int
    <2>1. fs[1] \in Int /\ DOMAIN fs = 1 .. 1
      BY <1>3, LenProperties, ElementOfSeq
    <2>2. fs \in [1 .. 1 -> Int]
      BY <1>3, <2>1, LenProperties
    <2>3. gs \in [1 .. 1 -> Int] /\ gs[1] = fs[1] + 1
      BY <2>1, <2>2, <1>4
    <2>4. gs \in Seq(Int)
      BY <2>3, SeqDef
    <2>5. DOMAIN gs = 1 .. Len(gs) /\ Len(gs) \in Nat /\ DOMAIN gs = 1 .. 1
      BY <2>3, <2>4, LenProperties
    <2>6. Len(gs) = 1
      BY <2>5, DomainLen
    <2>7. QED
      BY <2>1, <2>3, <2>4, <2>6
  <1>6. cpReq' = [cpReq EXCEPT !.files = gs]
    BY <1>2, <1>4 DEF LogGrows
  <1>7. cpReq' \in CpRequest /\ cpReq'.files = gs /\ cpReq'.tool = cpReq.tool /\ cpReq'.old = cpReq.old /\ cpReq'.follow = cpReq.follow
    BY <1>1, <1>5, <1>6 DEF CpRequest
  <1>8. QED
    BY <1>1, <1>2, <1>3, <1>5, <1>7 DEF CpTool

(* The steps that leave the request alone.                                 *)
CpSteps ==
  \/ CpRefuses \/ DdOpens \/ DdSkips \/ DdSeeks \/ CpOpens \/ MvOpens \/ LogOpens \/ MvRenames \/ CatOpens \/ CpSignal
  \/ CpReads \/ CpReadEnds \/ CpWrites \/ CpWriteFails \/ CatDrops
  \/ DdCloses \/ LogCloses \/ CatCloses \/ MvCloses \/ CpCloses \/ CpPreserves

(* Every step keeps that.                                                  *)
LEMMA CommonStep ==
  ASSUME CpCommon, CpNext
  PROVE  CpCommon' /\ ((CpSteps /\ cpReq' = cpReq) \/ LogGrows)
  <1>1. CASE LogGrows
    <2>1. UNCHANGED <<cpPhase, cpFile, cpErr, cpSig, cpFault, cpThere, cpExit>> /\ cpPhase \in {"read", "write"}
      BY <1>1 DEF LogGrows, cpPlace
    <2>2. CpTool' /\ cpReq'.tool = cpReq.tool
      BY <1>1, GrowsFact DEF CpCommon
    <2>3. QED
      BY <1>1, <2>1, <2>2 DEF CpCommon
  <1>2. CASE CpRefuses
    BY <1>2 DEF CpRefuses, CpExits, cpPlace, CpCommon, CpIs, CpSteps, CpTool
  <1>3. CASE DdOpens
    BY <1>3 DEF DdOpens, CpCommon, CpIs, CpSteps, CpTool
  <1>4. CASE DdSkips
    BY <1>4 DEF DdSkips, CpCommon, CpSteps, CpTool
  <1>5. CASE DdSeeks
    BY <1>5 DEF DdSeeks, cpPlace, CpCommon, CpSteps, CpTool
  <1>6. CASE CpOpens \/ MvOpens \/ LogOpens
    BY <1>6 DEF CpOpens, MvOpens, LogOpens, CopyStarts, cpPlace, CpCommon, CpSteps, CpTool
  <1>7. CASE MvRenames
    <2>1. /\ UNCHANGED <<cpReq, cpFile, cpErr, cpSig, cpFault>> /\ cpThere' \in BOOLEAN
          /\ cpPhase = "start" /\ cpPhase' = "done" /\ cpExit' # -1
      <3>1. cpThere' = FALSE
        BY <1>7 DEF MvRenames
      <3>2. cpThere' \in BOOLEAN
        BY ONLY <3>1, Zenon
      <3>3. UNCHANGED <<cpReq, cpFile, cpErr, cpSig, cpFault>> /\ cpPhase = "start" /\ cpPhase' = "done" /\ cpExit' # -1
        BY <1>7 DEF MvRenames, CpExits, cpPlace
      <3>4. QED
        BY <3>2, <3>3
    <2>2. QED
      BY <1>7, <2>1 DEF CpCommon, CpSteps, CpTool
  <1>8. CASE CatOpens
    <2>1. UNCHANGED <<cpReq, cpSig, cpThere>> /\ cpPhase = "start" /\ cpReq.tool = "cat"
      BY <1>8 DEF CatOpens, CpIs
    <2>2. \/ cpPhase' = "done" /\ cpExit' # -1
          \/ cpPhase' \in {"start", "read"} /\ cpExit' = cpExit
      BY <1>8 DEF CatOpens, CpExits
    <2>3. cpErr' \in BOOLEAN /\ cpFault' \in BOOLEAN /\ (cpFault => cpFault')
      <3>1. cpErr \in BOOLEAN /\ cpFault \in BOOLEAN
        BY DEF CpCommon
      <3>2. (cpErr' = cpErr /\ cpFault' = cpFault) \/ (cpErr' = TRUE /\ cpFault' = TRUE)
        BY <1>8, Zenon DEF CatOpens
      <3>3. QED
        BY ONLY <3>1, <3>2, Zenon
    <2>4. QED
      BY <1>8, <2>1, <2>2, <2>3 DEF CpCommon, CpSteps, CpTool
  <1>9. CASE CpSignal
    BY <1>9 DEF CpSignal, cpPlace, CpCommon, CpSteps, CpTool
  <1>10. CASE CpReads
    <2>1. cpReq' = cpReq /\ cpFile' = cpFile /\ cpThere' = cpThere /\ cpSig' = cpSig /\ cpExit' = cpExit
          /\ cpPhase = "read" /\ cpPhase' \in {"close", "write"} /\ cpErr' \in BOOLEAN
      BY <1>10 DEF CpReads
    <2>2. cpFault' \in BOOLEAN /\ (cpFault => cpFault')
      BY <1>10 DEF CpReads, CpCommon
    <2>3. QED
      BY <1>10, <2>1, <2>2 DEF CpCommon, CpSteps, CpTool
  <1>11. CASE CpReadEnds
    BY <1>11 DEF CpReadEnds, cpPlace, CpCommon, CpSteps, CpTool
  <1>12. CASE CpWrites
    <2>1. /\ UNCHANGED <<cpReq, cpFile, cpErr, cpSig, cpFault, cpThere, cpExit>>
          /\ cpPhase = "write" /\ cpPhase' \in {"write", "close", "read"}
      BY <1>12 DEF CpWrites, cpPlace
    <2>2. QED
      BY <1>12, <2>1 DEF CpCommon, CpSteps, CpTool
  <1>13. CASE CpWriteFails
    <2>1. /\ UNCHANGED <<cpReq, cpFile, cpSig, cpThere, cpExit>> /\ cpErr' = TRUE /\ cpFault' = TRUE
          /\ cpPhase = "write" /\ cpPhase' = "close"
      BY <1>13 DEF CpWriteFails, cpPlace
    <2>2. QED
      BY <1>13, <2>1 DEF CpCommon, CpSteps, CpTool
  <1>14. CASE CatDrops
    BY <1>14 DEF CatDrops, cpPlace, CpCommon, CpSteps, CpTool
  <1>15. CASE DdCloses \/ LogCloses \/ CatCloses \/ MvCloses \/ CpCloses
    <2>1. UNCHANGED <<cpReq, cpErr, cpSig, cpFault>> /\ cpPhase = "close" /\ (cpReq.tool # "cat" => cpFile' = cpFile)
      BY <1>15 DEF DdCloses, LogCloses, CatCloses, MvCloses, CpCloses, Closes, CpIs
    <2>2. \/ cpPhase' = "done" /\ cpExit' # -1
          \/ cpPhase' = "start" /\ cpReq.tool = "cat" /\ cpExit' = cpExit
          \/ cpPhase' = "attr" /\ cpReq.tool = "cp" /\ cpExit' = cpExit
      BY <1>15 DEF DdCloses, LogCloses, CatCloses, MvCloses, CpCloses, Closes, CpIs, CpExits
    <2>3. cpThere' \in BOOLEAN
      BY <1>15 DEF DdCloses, LogCloses, CatCloses, MvCloses, CpCloses, CpCommon
    <2>4. QED
      BY <1>15, <2>1, <2>2, <2>3 DEF CpCommon, CpSteps, CpTool
  <1>16. CASE CpPreserves
    BY <1>16 DEF CpPreserves, CpExits, cpPlace, CpCommon, CpSteps, CpTool
  <1>17. QED
    BY <1>1, <1>2, <1>3, <1>4, <1>5, <1>6, <1>7, <1>8, <1>9, <1>10, <1>11, <1>12, <1>13, <1>14, <1>15, <1>16 DEF CpNext

(* dd: the place in the input and in the target, and what was there.       *)
DdFrom == getnumber(cpReq.skip) * DdBs
DdAt == getnumber(cpReq.seek) * DdBs
DdThere == IF "notrunc" \in cpReq.conv THEN OldBytes ELSE <<>>
DdWanted == IF inmax = 0 THEN cpReq.files[1] - DdFrom ELSE CpLeast(inmax, cpReq.files[1] - DdFrom)
DdOk == ~ DdRefused /\ ~ (cpReq.pipe /\ DdFrom > 0)

DdBefore == cpBuf = <<>> /\ cpPos = 0 /\ cpOut = DdThere /\ cpTotal = [in |-> 0, out |-> 0]

DdCopies(k, m) ==
  /\ Core(DdThere, DdAt, 1, DdFrom, k, m)
  /\ cpTotal = [in |-> k + m, out |-> k]
  /\ cpPhase = "read" => m = 0 /\ (inmax # 0 => k < inmax)
  /\ inmax # 0 => k + m < inmax + DdBs

DdWritten(k) ==
  /\ cpTotal.out = k /\ cpOut = Overwritten(DdThere, DdAt, CpBytes(1, DdFrom, k))
  /\ ~ cpFault => k >= DdWanted /\ (inmax # 0 => k < inmax + DdBs)

DdInv ==
  cpReq.tool = "dd" /\ DdOk =>
    /\ cpPhase = "skip" => DdBefore /\ ((cpIn = 0 /\ cpSkip = DdFrom) \/ (cpIn = DdFrom /\ cpSkip = 0))
    /\ cpPhase = "seek" => DdBefore /\ cpIn = DdFrom
    /\ cpPhase \in {"read", "write"} => \E k, m \in Nat : DdCopies(k, m)
    /\ cpPhase = "close" => \E k \in Nat : DdWritten(k)
    /\ DdIsExact

(* A number is wrapped to one of the type, and to itself if it fits.       *)
LEMMA WrappedFact ==
  ASSUME NEW n \in Int, NEW max \in Nat \ {0}
  PROVE  Wrapped(n, max) \in Int /\ (n \in 1 .. max => Wrapped(n, max) = n)
  <1>1. PICK x \in Int, y \in Nat \ {0} : x = n + max + 1 /\ y = 2 * (max + 1)
    OBVIOUS
  <1>2. x % y \in Int /\ (0 <= x /\ x < y => x % y = x)
    OBVIOUS
  <1>3. Wrapped(n, max) = (x % y) - (max + 1)
    BY <1>1 DEF Wrapped
  <1>4. QED
    BY <1>1, <1>2, <1>3

(* The numbers of a request that is not refused.                           *)
LEMMA DdFact ==
  ASSUME CpTool, cpReq.tool = "dd", DdOk
  PROVE  /\ DdBs \in Nat \ {0} /\ DdFrom \in Nat /\ DdAt \in Nat /\ inmax \in Nat /\ DdThere \in Seq(CpByte)
         /\ cpReq.files[1] \in Int /\ DdWanted \in Int
         /\ getnumber(cpReq.bs) \in 1 .. INT_MAX => DdBs = getnumber(cpReq.bs)
         /\ DdCount # 0 => (inmax = IF DdCount = SSIZE_MAX THEN 0 ELSE DdCount * DdBs) /\ (DdCount # SSIZE_MAX => inmax # 0)
  <1>1. cpReq \in CpRequest /\ SSIZE_MAX \in Nat \ {0} /\ Len(cpReq.files) = 1
    BY PshCopyAssumption DEF CpTool
  <1>2. ASSUME NEW n \in CpNumber  PROVE getnumber(n) \in Int
    <2>1. n.value \in Int /\ n.mult \in Nat \ {0}
      BY DEF CpNumber
    <2>2. ASSUME NEW x \in Int  PROVE Signed(x) \in Int
      BY <1>1, WrappedFact DEF Signed
    <2>3. Signed(n.value) \in Int
      BY <2>1, <2>2
    <2>4. Signed(n.value) * n.mult \in Int
      BY <2>1, <2>3
    <2>5. Signed(Signed(n.value) * n.mult) \in Int
      BY <2>2, <2>4
    <2>6. QED
      BY <2>5 DEF getnumber
  <1>3. cpReq.bs \in CpNumber /\ cpReq.count \in CpNumber /\ cpReq.skip \in CpNumber /\ cpReq.seek \in CpNumber
        /\ cpReq.old \in Int /\ cpReq.files \in Seq(Int)
    BY <1>1 DEF CpRequest
  <1>4. DdBs \in Int /\ getnumber(cpReq.skip) \in Int /\ getnumber(cpReq.seek) \in Int /\ getnumber(cpReq.count) \in Int
    <2>1. getnumber(cpReq.bs) \in Int /\ INT_MAX \in Nat \ {0}
      BY <1>2, <1>3, PshCopyAssumption
    <2>2. QED
      BY <2>1, <1>2, <1>3, WrappedFact DEF DdBs
  <1>5. DdCount \in Int
    BY <1>1, <1>4 DEF DdCount
  <1>6. DdBs > 0 /\ DdCount >= 0 /\ getnumber(cpReq.skip) >= 0 /\ getnumber(cpReq.seek) >= 0
    <2>1. ~ DdRefused
      BY DEF DdOk
    <2>2. ~ (DdBs <= 0) /\ ~ (DdCount < 0) /\ ~ (getnumber(cpReq.skip) < 0) /\ ~ (getnumber(cpReq.seek) < 0)
      BY <2>1, Zenon DEF DdRefused
    <2>3. QED
      BY <2>2, <1>4, <1>5
  <1>7. ASSUME NEW x \in Nat, NEW y \in Nat  PROVE x * y \in Nat
    OBVIOUS
  <1>8. DdBs \in Nat /\ DdCount \in Nat /\ getnumber(cpReq.skip) \in Nat /\ getnumber(cpReq.seek) \in Nat
    BY <1>4, <1>5, <1>6
  <1>9. DdFrom \in Nat /\ DdAt \in Nat
    BY <1>7, <1>8 DEF DdFrom, DdAt
  <1>10. inmax \in Nat
    <2>1. DdCount * DdBs \in Nat
      BY <1>7, <1>8
    <2>2. QED
      BY <2>1 DEF inmax
  <1>11. DdThere \in Seq(CpByte)
    <2>1. CpMost(cpReq.old, 0) \in Nat /\ 0 \in Nat /\ 0 \in Int
      BY <1>3 DEF CpMost
    <2>2. OldBytes \in Seq(CpByte)
      BY ONLY <2>1, BytesFact DEF OldBytes
    <2>3. QED
      BY <2>2, EmptySeq DEF DdThere
  <1>12. cpReq.files[1] \in Int
    BY <1>1, <1>3, ElementOfSeq
  <1>13. DdWanted \in Int
    BY <1>9, <1>10, <1>12 DEF DdWanted, CpLeast
  <1>14. getnumber(cpReq.bs) \in 1 .. INT_MAX => DdBs = getnumber(cpReq.bs)
    <2>1. getnumber(cpReq.bs) \in Int /\ INT_MAX \in Nat \ {0}
      BY <1>2, <1>3, PshCopyAssumption
    <2>2. QED
      BY <2>1, WrappedFact DEF DdBs
  <1>15. DdCount # 0 => (inmax = IF DdCount = SSIZE_MAX THEN 0 ELSE DdCount * DdBs) /\ (DdCount # SSIZE_MAX => inmax # 0)
    <2>1. ASSUME NEW x \in Nat, NEW y \in Nat, x # 0, y # 0  PROVE x * y # 0
      BY <2>1
    <2>2. DdCount # 0 => DdCount * DdBs # 0
      BY <2>1, <1>6, <1>8
    <2>3. QED
      BY <2>2 DEF inmax
  <1>16. QED
    BY <1>6, <1>8, <1>9, <1>10, <1>11, <1>12, <1>13, <1>14, <1>15

(* Nothing of that changes while dd runs.                                  *)
LEMMA DdSame ==
  ASSUME cpReq' = cpReq
  PROVE  /\ DdFrom' = DdFrom /\ DdAt' = DdAt /\ DdThere' = DdThere /\ inmax' = inmax /\ DdBs' = DdBs
         /\ DdWanted' = DdWanted /\ DdOk' = DdOk /\ OldBytes' = OldBytes
  BY DEF DdFrom, DdAt, DdThere, inmax, DdBs, DdWanted, DdOk, DdRefused, DdCount, OldBytes

(* What the operands ask of the target, the bytes dd counts and its faults.*)
DdTold(out, sum, fault) ==
  LET bs == getnumber(cpReq.bs)
      from == getnumber(cpReq.skip) * bs
      at == getnumber(cpReq.seek) * bs
      there == IF "notrunc" \in cpReq.conv THEN CpBytes(0, 0, CpMost(cpReq.old, 0)) ELSE <<>>
      limited == DdCount # SSIZE_MAX
      rest == cpReq.files[1] - from
  IN  /\ out = Overwritten(there, at, CpBytes(1, from, sum))
      /\ ~ fault /\ DdCount # 0 =>
           /\ sum >= IF limited THEN CpLeast(DdCount * bs, rest) ELSE rest
           /\ limited => sum < DdCount * bs + bs

(* What dd says of a request is true once it has written what it counts:   *)
(* its block size and its limit are the ones that were asked for.          *)
LEMMA DdExactFact ==
  ASSUME CpTool, cpReq.tool = "dd", DdOk, NEW k \in Nat, NEW out, NEW sum, NEW fault \in BOOLEAN,
         sum = k, out = Overwritten(DdThere, DdAt, CpBytes(1, DdFrom, k)),
         ~ fault => k >= DdWanted /\ (inmax # 0 => k < inmax + DdBs),
         getnumber(cpReq.bs) \in 1 .. INT_MAX
  PROVE  DdTold(out, sum, fault)
  <1>1. DdBs = getnumber(cpReq.bs) /\ DdFrom \in Nat /\ inmax \in Nat /\ DdBs \in Nat /\ cpReq.files[1] \in Int
        /\ (DdCount # 0 => (inmax = IF DdCount = SSIZE_MAX THEN 0 ELSE DdCount * DdBs) /\ (DdCount # SSIZE_MAX => inmax # 0))
    BY DdFact
  <1>2. out = Overwritten(DdThere, DdAt, CpBytes(1, DdFrom, sum))
    OBVIOUS
  <1>3. ASSUME ~ fault, DdCount # 0
        PROVE  /\ sum >= IF DdCount # SSIZE_MAX THEN CpLeast(DdCount * DdBs, cpReq.files[1] - DdFrom) ELSE cpReq.files[1] - DdFrom
               /\ DdCount # SSIZE_MAX => sum < DdCount * DdBs + DdBs
    BY <1>1, <1>3 DEF DdWanted
  <1>4. QED
    BY <1>1, <1>2, <1>3 DEF DdTold, DdFrom, DdAt, DdThere, OldBytes

(* Every step of dd keeps the relation between the bytes it counts and the *)
(* ones it wrote.                                                          *)
LEMMA DdStep ==
  ASSUME CpCommon, CpCommon', DdInv, CpSteps, cpReq' = cpReq, cpReq.tool = "dd"
  PROVE  DdInv'
  <1> SUFFICES ASSUME DdOk
               PROVE  /\ cpPhase' = "skip" => DdBefore' /\ ((cpIn' = 0 /\ cpSkip' = DdFrom) \/ (cpIn' = DdFrom /\ cpSkip' = 0))
                      /\ cpPhase' = "seek" => DdBefore' /\ cpIn' = DdFrom
                      /\ cpPhase' \in {"read", "write"} => \E k, m \in Nat : DdCopies(k, m)'
                      /\ cpPhase' = "close" => \E k \in Nat : DdWritten(k)'
                      /\ DdIsExact'
    BY DdSame DEF DdInv
  <1>1. /\ DdBs \in Nat \ {0} /\ DdFrom \in Nat /\ DdAt \in Nat /\ inmax \in Nat /\ DdThere \in Seq(CpByte)
        /\ cpReq.files[1] \in Int /\ DdWanted \in Int
    BY DdFact DEF CpCommon
  <1>2. /\ DdFrom' = DdFrom /\ DdAt' = DdAt /\ DdThere' = DdThere /\ inmax' = inmax /\ DdBs' = DdBs
        /\ DdWanted' = DdWanted
    BY DdSame
  <1>3. cpFile = 1 /\ cpFile' = 1 /\ (cpPhase' # "done" => cpExit' = -1) /\ (cpSig => cpFault)
    BY DEF CpCommon
  <1>4. cpPhase' # "done" => DdIsExact'
    BY <1>3 DEF DdIsExact
  <1>5. CASE CpRefuses
    <2>1. cpPhase' = "done" /\ cpExit' = 1
      BY <1>5 DEF CpRefuses, CpExits
    <2>2. QED
      BY <2>1 DEF DdIsExact
  <1>6. CASE DdOpens
    <2>1. cpPhase = "start" /\ cpPhase' = "skip" /\ cpSkip' = DdFrom /\ UNCHANGED <<cpIn, cpBuf, cpPos, cpTotal>>
      BY <1>6 DEF DdOpens, DdFrom
    <2>2. CpFresh
      BY <2>1 DEF CpCommon
    <2>3. cpOut' = DdThere
      <3>1. cpReq.conv \subseteq {"nocreat", "notrunc"}
        BY DEF CpCommon, CpTool, CpRequest
      <3>2. "trunc" \in getconvmode(cpReq.conv) <=> "notrunc" \notin cpReq.conv
        BY <3>1 DEF getconvmode
      <3>3. cpOut' = IF "trunc" \in getconvmode(cpReq.conv) THEN <<>> ELSE cpOut
        BY <1>6 DEF DdOpens
      <3>4. QED
        BY <3>2, <3>3, <2>2 DEF CpFresh, DdThere
    <2>4. DdBefore' /\ cpIn' = 0
      BY <2>1, <2>2, <2>3, <1>2 DEF DdBefore, CpFresh
    <2>5. QED
      BY <2>1, <2>4, <1>2, <1>4
  <1>7. CASE DdSkips
    <2>1. cpPhase = "skip" /\ UNCHANGED <<cpBuf, cpPos, cpOut, cpTotal>>
      BY <1>7 DEF DdSkips
    <2>2. DdBefore /\ ((cpIn = 0 /\ cpSkip = DdFrom) \/ (cpIn = DdFrom /\ cpSkip = 0))
      BY <2>1 DEF DdInv
    <2>3. DdBefore'
      BY <2>1, <2>2, <1>2 DEF DdBefore
    <2>4. ~ (cpReq.pipe /\ DdFrom > 0)
      BY DEF DdOk
    <2>5. \/ cpPhase' = "skip" /\ cpIn' = DdFrom /\ cpSkip' = 0
          \/ cpPhase' = "seek" /\ cpIn' = DdFrom
      BY <1>7, <2>1, <2>2, <2>4, <1>1 DEF DdSkips
    <2>6. QED
      BY <2>3, <2>5, <1>4
  <1>8. CASE DdSeeks
    <2>1. cpPhase = "seek" /\ UNCHANGED <<cpIn, cpBuf, cpOut, cpTotal>>
      BY <1>8 DEF DdSeeks, cpPlace
    <2>2. DdBefore /\ cpIn = DdFrom
      BY <2>1 DEF DdInv
    <2>3. CpBytes(1, DdFrom, 0) = <<>> /\ CpBytes(1, DdFrom + 0, 0) = <<>>
      <3>1. PICK q \in Int : q = DdFrom
        BY <1>1
      <3>2. q + 0 = q /\ 1 \in Nat
        OBVIOUS
      <3>3. CpBytes(1, q, 0) = <<>>
        BY ONLY <3>2, q \in Int, NoBytes
      <3>4. QED
        BY ONLY <3>1, <3>2, <3>3, Zenon
    <2>4. Overwritten(DdThere, DdAt, CpBytes(1, DdFrom, 0)) = DdThere
      BY <2>3 DEF Overwritten
    <2>5. cpTotal' = [in |-> 0, out |-> 0] /\ cpOut' = DdThere /\ cpBuf' = <<>> /\ cpIn' = DdFrom
      BY <2>1, <2>2 DEF DdBefore
    <2>6. CASE cpPos' = getnumber(cpReq.seek) * DdBs /\ cpPhase' = "read"
      <3>1. Core(DdThere, DdAt, 1, DdFrom, 0, 0)'
        BY <2>3, <2>4, <2>5, <2>6, <1>1, <1>2 DEF Core, DdAt
      <3>2. cpTotal' = [in |-> 0 + 0, out |-> 0]
        BY <2>5
      <3>3. DdCopies(0, 0)'
        BY <3>1, <3>2, <1>1, <1>2 DEF DdCopies
      <3>4. QED
        BY <2>6, <3>3, <1>4
    <2>7. CASE cpPhase' = "close" /\ cpFault' = TRUE
      <3>1. DdWritten(0)'
        BY <2>4, <2>5, <2>7, <1>2 DEF DdWritten
      <3>2. QED
        BY <2>7, <3>1, <1>4
    <2>8. QED
      BY <2>6, <2>7, <1>8 DEF DdSeeks
  <1>9. CASE CpSignal
    <2>1. cpPhase \in {"read", "write"} /\ UNCHANGED <<cpPhase, cpIn, cpBuf, cpOut, cpPos, cpTotal>>
      BY <1>9 DEF CpSignal, cpPlace
    <2>2. PICK k \in Nat, m \in Nat : DdCopies(k, m)
      BY <2>1 DEF DdInv
    <2>3. DdCopies(k, m)'
      BY <2>1, <2>2, <1>2 DEF DdCopies, Core
    <2>4. QED
      BY <2>1, <2>3, <1>4
  <1>10. CASE CpReads
    <2>1. cpPhase = "read" /\ cpPhase' = IF cpSig THEN "close" ELSE "write"
      BY <1>10 DEF CpReads, CpIs
    <2>2. PICK k \in Nat, m \in Nat : DdCopies(k, m)
      BY <2>1 DEF DdInv
    <2>3. m = 0 /\ Core(DdThere, DdAt, 1, DdFrom, k, 0) /\ cpTotal = [in |-> k + m, out |-> k] /\ (inmax # 0 => k < inmax)
      BY <2>1, <2>2 DEF DdCopies
    <2>4. PICK n \in 1 .. CpLeast(CpBufsz, CpLeft) :
            /\ n \in Nat \ {0} /\ CpLeft > 0
            /\ Core(DdThere, DdAt, 1, DdFrom, k, n)' /\ cpTotal' = [cpTotal EXCEPT !.in = @ + n]
      <3>1. cpFile \in Nat /\ Core(DdThere, DdAt, cpFile, DdFrom, k, 0)
        BY <2>3, <1>3
      <3>2. PICK base \in Seq(CpByte), at \in Nat, from \in Nat : base = DdThere /\ at = DdAt /\ from = DdFrom
        BY <1>1
      <3>3. Core(base, at, cpFile, from, k, 0)
        BY <3>1, <3>2
      <3>4. \E n \in 1 .. CpLeast(CpBufsz, CpLeft) :
              /\ n \in Nat \ {0} /\ k + n \in Nat /\ CpLeft > 0
              /\ cpFile' = cpFile /\ Core(base, at, cpFile, from, k, n)'
              /\ cpTotal' = [cpTotal EXCEPT !.in = @ + n]
        BY ONLY <3>1, <3>3, <1>10, CoreReads
      <3>5. PICK n \in 1 .. CpLeast(CpBufsz, CpLeft) :
              /\ n \in Nat \ {0} /\ k + n \in Nat /\ CpLeft > 0
              /\ cpFile' = cpFile /\ Core(base, at, cpFile, from, k, n)'
              /\ cpTotal' = [cpTotal EXCEPT !.in = @ + n]
        BY <3>4
      <3>6. Core(DdThere, DdAt, 1, DdFrom, k, n)'
        BY <3>2, <3>5, <1>2, <1>3 DEF Core
      <3>7. QED
        BY <3>5, <3>6
    <2>5. cpTotal' = [in |-> k + n, out |-> k]
      BY <2>3, <2>4
    <2>6. n <= DdBs
      <3>1. CpBufsz = DdBs
        BY DEF CpBufsz, CpIs
      <3>2. CpLeft \in Int
        <4>1. cpIn \in Int
          BY <2>3, <1>1 DEF Core
        <4>2. QED
          BY <4>1, <1>1, <1>3 DEF CpLeft, CpMost
      <3>3. QED
        BY <3>1, <3>2, <2>4, <1>1 DEF CpLeast
    <2>7. CASE cpSig
      <3>1. cpFault'
        BY <2>7, <1>3, <1>10 DEF CpReads
      <3>2. cpOut' = Overwritten(DdThere, DdAt, CpBytes(1, DdFrom, k))
        BY <2>4, <1>2 DEF Core
      <3>3. cpTotal'.out = k
        BY <2>5
      <3>4. DdWritten(k)'
        BY <3>1, <3>2, <3>3, <1>2 DEF DdWritten
      <3>5. QED
        BY <2>1, <2>7, <3>4, <1>4
    <2>8. CASE ~ cpSig
      <3>1. inmax # 0 => k + n < inmax + DdBs
        BY <2>3, <2>4, <2>6, <1>1
      <3>2. DdCopies(k, n)'
        BY <2>1, <2>4, <2>5, <2>8, <3>1, <1>2 DEF DdCopies
      <3>3. QED
        BY <2>1, <2>4, <2>8, <3>2, <1>4
    <2>9. QED
      BY <2>7, <2>8
  <1>11. CASE CpReadEnds
    <2>1. cpPhase = "read" /\ cpPhase' = "close" /\ UNCHANGED <<cpOut, cpTotal>>
      BY <1>11 DEF CpReadEnds
    <2>2. PICK k \in Nat, m \in Nat : DdCopies(k, m)
      BY <2>1 DEF DdInv
    <2>3. m = 0 /\ cpTotal = [in |-> k + m, out |-> k] /\ (inmax # 0 => k < inmax) /\ cpIn = DdFrom + k + m
          /\ cpOut = Overwritten(DdThere, DdAt, CpBytes(1, DdFrom, k))
      BY <2>1, <2>2 DEF DdCopies, Core
    <2>4. cpFault' \/ CpLeft = 0
      BY <1>11 DEF CpReadEnds, Stops, CpIs
    <2>5. CpLeft = 0 => cpReq.files[1] <= DdFrom + k
      BY <2>3, <1>1, <1>3 DEF CpLeft, CpMost
    <2>6. CpLeft = 0 => k >= DdWanted /\ (inmax # 0 => k < inmax + DdBs)
      BY <2>3, <2>5, <1>1 DEF DdWanted, CpLeast
    <2>7. DdWritten(k)'
      BY <2>1, <2>3, <2>4, <2>6, <1>2 DEF DdWritten
    <2>8. QED
      BY <2>1, <2>7, <1>4
  <1>12. CASE CpWrites
    <2>1. cpPhase = "write" /\ cpFault' = cpFault
      BY <1>12 DEF CpWrites
    <2>2. PICK k \in Nat, m \in Nat : DdCopies(k, m)
      BY <2>1 DEF DdInv
    <2>3. Core(DdThere, DdAt, 1, DdFrom, k, m) /\ cpTotal = [in |-> k + m, out |-> k] /\ (inmax # 0 => k + m < inmax + DdBs)
      BY <2>2 DEF DdCopies
    <2>4. PICK n \in 1 .. m :
            /\ n \in Nat \ {0} /\ m - n \in Nat
            /\ Core(DdThere, DdAt, 1, DdFrom, k + n, m - n)' /\ cpTotal' = [cpTotal EXCEPT !.out = @ + n]
            /\ cpPhase' = IF m - n # 0 THEN "write" ELSE IF DdEnough THEN "close" ELSE "read"
      <3>1. cpFile \in Nat /\ Core(DdThere, DdAt, cpFile, DdFrom, k, m)
        BY <2>3, <1>3
      <3>2. PICK base \in Seq(CpByte), at \in Nat, from \in Nat : base = DdThere /\ at = DdAt /\ from = DdFrom
        BY <1>1
      <3>3. Core(base, at, cpFile, from, k, m)
        BY <3>1, <3>2
      <3>4. \E n \in 1 .. m :
              /\ n \in Nat \ {0} /\ m - n \in Nat /\ k \in Nat /\ m \in Nat
              /\ cpFile' = cpFile /\ Core(base, at, cpFile, from, k + n, m - n)'
              /\ cpTotal' = [cpTotal EXCEPT !.out = @ + n]
              /\ cpPhase' = IF m - n # 0 THEN "write" ELSE IF DdEnough THEN "close" ELSE "read"
        BY ONLY <3>1, <3>3, <1>12, CoreWrites
      <3>5. PICK n \in 1 .. m :
              /\ n \in Nat \ {0} /\ m - n \in Nat /\ k \in Nat /\ m \in Nat
              /\ cpFile' = cpFile /\ Core(base, at, cpFile, from, k + n, m - n)'
              /\ cpTotal' = [cpTotal EXCEPT !.out = @ + n]
              /\ cpPhase' = IF m - n # 0 THEN "write" ELSE IF DdEnough THEN "close" ELSE "read"
        BY <3>4
      <3>6. Core(DdThere, DdAt, 1, DdFrom, k + n, m - n)'
        BY <3>2, <3>5, <1>2, <1>3 DEF Core
      <3>7. QED
        BY <3>5, <3>6
    <2>5. k + n \in Nat /\ (k + n) + (m - n) = k + m
      BY <2>4
    <2>6. cpTotal' = [in |-> (k + n) + (m - n), out |-> k + n]
      BY <2>3, <2>4, <2>5
    <2>7. CASE m - n # 0
      <3>1. DdCopies(k + n, m - n)'
        BY <2>3, <2>4, <2>5, <2>6, <2>7, <1>2 DEF DdCopies
      <3>2. QED
        BY <2>4, <2>5, <2>7, <3>1, <1>4
    <2>8. CASE m - n = 0 /\ DdEnough
      <3>1. k + n = k + m /\ cpTotal.in = k + m
        BY <2>3, <2>4, <2>8
      <3>2. inmax # 0 /\ k + n >= inmax /\ k + n < inmax + DdBs
        BY <2>3, <2>8, <3>1 DEF DdEnough
      <3>3. k + n >= DdWanted
        <4>1. DdWanted <= inmax
          BY <3>2, <1>1 DEF DdWanted, CpLeast
        <4>2. QED
          BY <4>1, <3>2, <2>5, <1>1
      <3>4. cpOut' = Overwritten(DdThere, DdAt, CpBytes(1, DdFrom, k + n))
        BY <2>4, <1>2 DEF Core
      <3>5. cpTotal'.out = k + n
        BY <2>6
      <3>6. DdWritten(k + n)'
        BY <3>2, <3>3, <3>4, <3>5, <1>2 DEF DdWritten
      <3>7. QED
        BY <2>4, <2>5, <2>8, <3>6, <1>4
    <2>9. CASE m - n = 0 /\ ~ DdEnough
      <3>1. k + n = k + m /\ cpTotal.in = k + m
        BY <2>3, <2>4, <2>9
      <3>2. inmax # 0 => k + n < inmax
        BY <2>9, <3>1, <2>5, <1>1 DEF DdEnough, CpIs
      <3>3. DdCopies(k + n, m - n)'
        BY <2>3, <2>4, <2>5, <2>6, <2>9, <3>2, <1>2 DEF DdCopies
      <3>4. QED
        BY <2>4, <2>5, <2>9, <3>3, <1>4
    <2>10. QED
      BY <2>7, <2>8, <2>9
  <1>13. CASE CpWriteFails
    <2>1. cpPhase = "write" /\ cpPhase' = "close" /\ cpFault' = TRUE /\ cpTotal' = cpTotal
      BY <1>13 DEF CpWriteFails
    <2>2. PICK k \in Nat, m \in Nat : DdCopies(k, m)
      BY <2>1 DEF DdInv
    <2>3. cpTotal = [in |-> k + m, out |-> k] /\ cpOut = Overwritten(DdThere, DdAt, CpBytes(1, DdFrom, k))
      BY <2>2 DEF DdCopies, Core
    <2>4. cpOut' = cpOut
      <3>1. \E n \in 0 .. 0 : cpOut' = Overwritten(cpOut, cpPos, SubSeq(cpBuf, 1, n))
        BY <1>13 DEF CpWriteFails, CpIs
      <3>2. cpOut' = Overwritten(cpOut, cpPos, SubSeq(cpBuf, 1, 0))
        BY <3>1
      <3>3. SubSeq(cpBuf, 1, 0) = <<>>
        BY SubSeqEmpty
      <3>4. QED
        BY <3>2, <3>3 DEF Overwritten
    <2>5. DdWritten(k)'
      BY <2>1, <2>3, <2>4, <1>2 DEF DdWritten
    <2>6. QED
      BY <2>1, <2>5, <1>4
  <1>14. CASE DdCloses
    <2>1. cpPhase = "close" /\ cpPhase' = "done" /\ UNCHANGED <<cpTotal, cpFault>> /\ cpLost' \in BOOLEAN
          /\ cpOut' = IF cpLost' THEN Front(cpOut) ELSE cpOut
      BY <1>14 DEF DdCloses, Closes, CpExits, MayLose
    <2>2. PICK k \in Nat : DdWritten(k)
      BY <2>1 DEF DdInv
    <2> PICK out, sum : out = cpOut /\ sum = cpTotal.out
      OBVIOUS
    <2> PICK fault \in BOOLEAN : fault = cpFault
      BY DEF CpCommon
    <2>3. out = cpOut /\ sum = cpTotal.out /\ fault = cpFault
      OBVIOUS
    <2>4. ASSUME ~ cpLost', getnumber(cpReq.bs) \in 1 .. INT_MAX
          PROVE  DdTold(out, sum, fault)
      <3>1. sum = k /\ out = Overwritten(DdThere, DdAt, CpBytes(1, DdFrom, k))
            /\ (~ fault => k >= DdWanted /\ (inmax # 0 => k < inmax + DdBs))
        BY <2>2, <2>3 DEF DdWritten
      <3>2. CpTool
        BY DEF CpCommon
      <3>3. QED
        BY <2>4, <3>1, <3>2, DdExactFact
    <2>5. cpOut' = out \/ cpLost'
      BY <2>1, <2>3
    <2>6. cpTotal'.out = sum /\ cpFault' = fault
      BY <2>1, <2>3
    <2>7. DdIsExact'
      <3>1. DdTold(out, sum, fault)' = DdTold(out, sum, fault)
        BY DEF DdTold, DdCount
      <3>2. ASSUME ~ cpLost', getnumber(cpReq'.bs) \in 1 .. INT_MAX  PROVE DdTold(cpOut, cpTotal.out, cpFault)'
        BY <2>4, <2>5, <2>6, <3>1, <3>2
      <3>3. QED
        BY <3>2 DEF DdIsExact, DdTold
    <2>8. QED
      BY <2>1, <2>7
  <1>15. CASE CpOpens \/ MvOpens \/ LogOpens \/ MvRenames \/ CatOpens \/ CatDrops \/ LogCloses \/ CatCloses \/ MvCloses \/ CpCloses \/ CpPreserves
    BY <1>15 DEF CpOpens, MvOpens, LogOpens, MvRenames, CatOpens, CatDrops, LogCloses, CatCloses, MvCloses, CpCloses, Closes, CpPreserves,
                 CpIs, CpCommon
  <1>16. QED
    BY <1>5, <1>6, <1>7, <1>8, <1>9, <1>10, <1>11, <1>12, <1>13, <1>14, <1>15 DEF CpSteps

(* The others read a file from its start: at every call the k bytes that   *)
(* are written and the m in the buffer are the first ones of the file.     *)
Copied(base, at, f) ==
  \E k, m \in Nat : Core(base, at, f, 0, k, m) /\ k + m <= cpReq.files[f] /\ (cpPhase = "read" => m = 0)

(* A copy starts with nothing written and nothing read.                    *)
LEMMA CopyStartsFact ==
  ASSUME NEW base \in Seq(CpByte), NEW at \in Nat, NEW f \in Nat, cpReq.files[f] >= 0, cpReq.files[f] \in Int, cpReq' = cpReq,
         cpBuf' = <<>>, cpIn' = 0, cpOut' = base, cpPos' = at
  PROVE  Copied(base, at, f)'
  <1>1. 0 \in Nat /\ 0 \in Int /\ 0 + 0 = 0 /\ 0 + 0 + 0 = 0 /\ at + 0 = at
    OBVIOUS
  <1>2. CpBytes(f, 0, 0) = <<>>
    BY ONLY f \in Nat, <1>1, NoBytes
  <1>3. CpBytes(f, 0 + 0, 0) = <<>>
    BY <1>1, <1>2
  <1>4. Overwritten(base, at, CpBytes(f, 0, 0)) = base
    BY <1>2 DEF Overwritten
  <1>5. Core(base, at, f, 0, 0, 0)'
    BY <1>1, <1>3, <1>4 DEF Core
  <1>6. QED
    BY <1>1, <1>5 DEF Copied

(* Ctrl-C, a read and a write keep that.                                   *)
LEMMA CopyGoesOn ==
  ASSUME NEW base \in Seq(CpByte), NEW at \in Nat, cpFile \in Nat, cpReq.files[cpFile] \in Int,
         Copied(base, at, cpFile), cpReq' = cpReq, cpReq.tool # "dd", cpErr \in BOOLEAN, CpSignal \/ CpReads \/ CpWrites
  PROVE  /\ Copied(base, at, cpFile)' /\ cpFile' = cpFile /\ cpPhase' \in {"read", "write"}
         /\ cpPhase \in {"read", "write"} /\ cpErr' = cpErr /\ cpThere' = cpThere /\ cpExit' = cpExit
  <1>1. PICK k \in Nat, m \in Nat :
          Core(base, at, cpFile, 0, k, m) /\ k + m <= cpReq.files[cpFile] /\ (cpPhase = "read" => m = 0)
    BY DEF Copied
  <1>2. 0 \in Nat
    OBVIOUS
  <1>3. CASE CpSignal
    <2>1. UNCHANGED <<cpReq, cpPhase, cpFile, cpIn, cpBuf, cpOut, cpPos, cpErr, cpThere, cpExit>> /\ cpPhase \in {"read", "write"}
      BY <1>3 DEF CpSignal, cpPlace
    <2>2. Core(base, at, cpFile, 0, k, m)'
      BY <1>1, <2>1 DEF Core
    <2>3. QED
      BY <1>1, <2>1, <2>2 DEF Copied
  <1>4. CASE CpReads
    <2>1. cpPhase = "read" /\ cpPhase' = "write" /\ UNCHANGED <<cpThere, cpExit>>
      BY <1>4 DEF CpReads, CpIs
    <2>2. cpErr' = cpErr
      <3>1. cpErr' = (cpErr \/ (CpIs({"dd"}) /\ cpSig)) /\ ~ CpIs({"dd"})
        BY <1>4 DEF CpReads, CpIs
      <3>2. QED
        BY ONLY <3>1, cpErr \in BOOLEAN, Zenon
    <2>3. Core(base, at, cpFile, 0, k, 0)
      BY <1>1, <2>1
    <2>4. PICK n \in 1 .. CpLeast(CpBufsz, CpLeft) :
            n \in Nat \ {0} /\ CpLeft > 0 /\ cpFile' = cpFile /\ Core(base, at, cpFile, 0, k, n)'
      <3>1. \E n \in 1 .. CpLeast(CpBufsz, CpLeft) :
              /\ n \in Nat \ {0} /\ k + n \in Nat /\ CpLeft > 0
              /\ cpFile' = cpFile /\ Core(base, at, cpFile, 0, k, n)'
              /\ cpTotal' = [cpTotal EXCEPT !.in = @ + n]
        BY ONLY base \in Seq(CpByte), at \in Nat, cpFile \in Nat, <1>2, <1>4, <2>3, CoreReads
      <3>2. QED
        BY <3>1
    <2>5. k + n <= cpReq.files[cpFile]
      <3>1. cpIn = k
        BY <2>3 DEF Core
      <3>2. CpLeft = cpReq.files[cpFile] - k
        BY <3>1, <2>4 DEF CpLeft, CpMost
      <3>3. CpBufsz = CPBUFSZ /\ CPBUFSZ \in Nat
        BY PshCopyAssumption DEF CpBufsz, CpIs
      <3>4. QED
        BY <3>2, <3>3, <2>4 DEF CpLeast
    <2>6. QED
      BY <2>1, <2>2, <2>4, <2>5 DEF Copied
  <1>5. CASE CpWrites
    <2>1. cpPhase = "write" /\ UNCHANGED <<cpErr, cpThere, cpExit>>
      BY <1>5 DEF CpWrites
    <2>2. PICK n \in 1 .. m :
            /\ n \in Nat \ {0} /\ m - n \in Nat /\ cpFile' = cpFile /\ Core(base, at, cpFile, 0, k + n, m - n)'
            /\ cpPhase' = IF m - n # 0 THEN "write" ELSE IF DdEnough THEN "close" ELSE "read"
      <3>1. PICK z \in Nat : z = 0
        BY <1>2
      <3>2. Core(base, at, cpFile, z, k, m)
        BY <1>1, <3>1
      <3>3. \E n \in 1 .. m :
              /\ n \in Nat \ {0} /\ m - n \in Nat /\ k \in Nat /\ m \in Nat
              /\ cpFile' = cpFile /\ Core(base, at, cpFile, z, k + n, m - n)'
              /\ cpTotal' = [cpTotal EXCEPT !.out = @ + n]
              /\ cpPhase' = IF m - n # 0 THEN "write" ELSE IF DdEnough THEN "close" ELSE "read"
        BY ONLY base \in Seq(CpByte), at \in Nat, cpFile \in Nat, z \in Nat, <1>5, <3>2, CoreWrites
      <3>4. QED
        BY ONLY <3>1, <3>3, Zenon
    <2>3. ~ DdEnough
      BY DEF DdEnough, CpIs
    <2>4. k + n \in Nat /\ (k + n) + (m - n) = k + m
      BY <2>2
    <2>5. cpPhase' \in {"read", "write"} /\ (cpPhase' = "read" => m - n = 0)
      BY <2>2, <2>3
    <2>6. QED
      BY <1>1, <2>1, <2>2, <2>4, <2>5 DEF Copied
  <1>6. QED
    BY <1>3, <1>4, <1>5

(* Where nothing is left to read the whole file is there.                  *)
LEMMA CopyEnds ==
  ASSUME NEW base \in Seq(CpByte), NEW at \in Nat, cpFile \in Nat, cpReq.files[cpFile] \in Int,
         Copied(base, at, cpFile), cpPhase = "read"
  PROVE  /\ cpBuf = <<>>
         /\ \E k \in Nat : /\ k <= cpReq.files[cpFile] /\ cpIn = k /\ cpPos = at + k
                           /\ cpOut = Overwritten(base, at, CpBytes(cpFile, 0, k))
                           /\ CpLeft = 0 => k = cpReq.files[cpFile]
  <1>1. PICK k \in Nat : Core(base, at, cpFile, 0, k, 0) /\ k + 0 <= cpReq.files[cpFile]
    BY DEF Copied
  <1>2. k <= cpReq.files[cpFile] /\ cpIn = k /\ cpPos = at + k /\ cpOut = Overwritten(base, at, CpBytes(cpFile, 0, k))
    BY <1>1 DEF Core
  <1>3. CpLeft = 0 => k = cpReq.files[cpFile]
    BY <1>2 DEF CpLeft, CpMost
  <1>4. cpBuf = <<>>
    <2>1. 0 + k \in Int
      OBVIOUS
    <2>2. cpBuf = CpBytes(cpFile, 0 + k, 0)
      BY <1>1 DEF Core
    <2>3. QED
      BY ONLY <2>1, <2>2, cpFile \in Nat, NoBytes
  <1>5. QED
    BY <1>2, <1>3, <1>4

(* Bytes written at the end of a sequence are appended to it.              *)
LEMMA AppendFact ==
  ASSUME NEW base \in Seq(CpByte), NEW f \in Nat, NEW k \in Nat
  PROVE  Overwritten(base, Len(base), CpBytes(f, 0, k)) = base \o CpBytes(f, 0, k)
  <1>1. PICK b : b = CpBytes(f, 0, k)
    OBVIOUS
  <1>2. b \in Seq(CpByte)
    <2>1. 0 \in Int
      OBVIOUS
    <2>2. QED
      BY ONLY <1>1, <2>1, f \in Nat, k \in Nat, BytesFact
  <1>3. PICK n \in Nat : n = Len(base)
    BY LenProperties
  <1>4. Len(b) \in Nat
    BY <1>2, LenProperties
  <1>5. CASE b = <<>>
    <2>1. base \o b = base
      BY <1>5, ConcatEmptySeq
    <2>2. QED
      BY <1>1, <1>5, <2>1 DEF Overwritten
  <1>6. CASE b # <<>>
    <2>1. PICK r : r = Overwritten(base, n, b)
      OBVIOUS
    <2>2. IsOver(r, base, n, b)
      BY ONLY <2>1, <1>2, <1>6, base \in Seq(CpByte), n \in Nat, OverFact
    <2>3. PICK t : t = base \o b
      OBVIOUS
    <2>4. t \in Seq(CpByte) /\ Len(t) = n + Len(b)
          /\ \A i \in 1 .. n + Len(b) : t[i] = IF i <= n THEN base[i] ELSE b[i - n]
      BY ONLY <2>3, <1>2, <1>3, base \in Seq(CpByte), ConcatProperties
    <2>5. CpMost(Len(base), n + Len(b)) = n + Len(b)
      BY <1>3, <1>4 DEF CpMost
    <2>6. r \in Seq(CpByte) /\ Len(r) = n + Len(b)
          /\ \A i \in 1 .. n + Len(b) : r[i] = IF i \in n + 1 .. n + Len(b) THEN b[i - n] ELSE IF i <= n THEN base[i] ELSE Zero
      BY ONLY <2>2, <2>5, <1>3, Zenon DEF IsOver
    <2>7. ASSUME NEW i \in 1 .. n + Len(b)  PROVE r[i] = t[i]
      <3>1. i \in n + 1 .. n + Len(b) <=> ~ (i <= n)
        BY <1>4
      <3>2. QED
        BY ONLY <3>1, <2>4, <2>6, i \in 1 .. n + Len(b)
    <2>8. r = t
      BY <2>4, <2>6, <2>7, SeqEqual
    <2>9. QED
      BY <2>1, <2>3, <2>8, <1>1, <1>3
  <1>7. QED
    BY <1>5, <1>6

(* In particular, what is written to an empty target is all it holds.      *)
LEMMA EmptyFact ==
  ASSUME NEW f \in Nat, NEW k \in Nat
  PROVE  Overwritten(<<>>, 0, CpBytes(f, 0, k)) = CpBytes(f, 0, k)
  <1>1. <<>> \in Seq(CpByte) /\ Len(<<>>) = 0
    BY EmptySeq
  <1>2. PICK e \in Seq(CpByte) : e = <<>>
    BY <1>1
  <1>3. Overwritten(e, Len(e), CpBytes(f, 0, k)) = e \o CpBytes(f, 0, k)
    BY ONLY f \in Nat, k \in Nat, e \in Seq(CpByte), AppendFact
  <1>4. PICK b : b = CpBytes(f, 0, k)
    OBVIOUS
  <1>5. b \in Seq(CpByte)
    <2>1. 0 \in Int
      OBVIOUS
    <2>2. QED
      BY ONLY <1>4, <2>1, f \in Nat, k \in Nat, BytesFact
  <1>6. <<>> \o b = b
    BY ONLY <1>5, ConcatEmptySeq
  <1>7. Len(e) = 0
    BY ONLY <1>1, <1>2
  <1>8. QED
    BY ONLY <1>2, <1>3, <1>4, <1>6, <1>7

(* cp: the whole source at the start of the target.                        *)
CpWhole == cpOut = Overwritten(OldBytes, 0, CpBytes(1, 0, cpReq.files[1]))

CpCopyInv ==
  cpReq.tool = "cp" =>
    /\ cpPhase \in {"read", "write"} => ~ cpErr /\ Copied(OldBytes, 0, 1)
    /\ cpPhase = "close" => cpErr \/ CpWhole
    /\ cpPhase = "attr" => ~ cpErr /\ (cpLost \/ CpWhole)
    /\ CpIsExact

(* What a request holds.                                                   *)
LEMMA CopyFact ==
  ASSUME CpTool, cpReq.tool # "cat"
  PROVE  cpReq.files[1] \in Int /\ OldBytes \in Seq(CpByte) /\ <<>> \in Seq(CpByte) /\ 0 \in Nat /\ 1 \in Nat
         /\ (cpReq.tool = "logread" => OldBytes = <<>>)
  <1>1. cpReq.old \in Int /\ cpReq.files \in Seq(Int) /\ Len(cpReq.files) = 1
    BY DEF CpTool, CpRequest
  <1>2. cpReq.files[1] \in Int
    BY <1>1, ElementOfSeq
  <1>3. CpMost(cpReq.old, 0) \in Nat /\ 0 \in Nat /\ 0 \in Int /\ (cpReq.tool = "logread" => CpMost(cpReq.old, 0) = 0)
    BY <1>1 DEF CpMost, CpTool
  <1>4. OldBytes \in Seq(CpByte)
    BY ONLY <1>3, BytesFact DEF OldBytes
  <1>5. cpReq.tool = "logread" => OldBytes = <<>>
    BY ONLY <1>3, NoBytes DEF OldBytes
  <1>6. QED
    BY <1>2, <1>4, <1>5, EmptySeq

(* Every step of cp keeps that.                                            *)
LEMMA CpCopyStep ==
  ASSUME CpCommon, CpCommon', CpCopyInv, CpSteps, cpReq' = cpReq, cpReq.tool = "cp"
  PROVE  CpCopyInv'
  <1>1. cpReq.files[1] \in Int /\ OldBytes \in Seq(CpByte) /\ 0 \in Nat /\ 1 \in Nat
    BY CopyFact DEF CpCommon
  <1>2. OldBytes' = OldBytes /\ cpReq'.files[1] = cpReq.files[1] /\ cpReq'.tool = "cp"
    BY DEF OldBytes
  <1>3. cpFile = 1 /\ cpFile' = 1 /\ cpErr \in BOOLEAN /\ (cpPhase' # "done" => cpExit' = -1) /\ (cpPhase # "done" => cpExit = -1)
        /\ (cpPhase = "start" => CpFresh /\ ~ cpErr)
    BY DEF CpCommon
  <1>4. cpPhase' # "done" => CpIsExact'
    BY <1>3 DEF CpIsExact
  <1>5. CASE CpRefuses
    <2>1. cpPhase' = "done" /\ cpExit' = 1
      BY <1>5 DEF CpRefuses, CpExits
    <2>2. QED
      BY <2>1 DEF CpIsExact, CpCopyInv
  <1>6. CASE CpOpens
    <2>1. cpPhase = "start" /\ cpPhase' = "read" /\ cpReq.files[1] >= 0 /\ UNCHANGED <<cpOut, cpFile, cpIn, cpBuf, cpPos, cpErr>>
      BY <1>6 DEF CpOpens, CopyStarts, cpPlace
    <2>2. cpIn = 0 /\ cpBuf = <<>> /\ cpPos = 0 /\ cpOut = OldBytes /\ ~ cpErr
      BY <2>1, <1>3 DEF CpFresh
    <2>3. PICK base \in Seq(CpByte) : base = OldBytes
      BY <1>1
    <2>4. cpIn' = 0 /\ cpBuf' = <<>> /\ cpPos' = 0 /\ cpOut' = base
      BY <2>1, <2>2, <2>3
    <2>5. Copied(base, 0, 1)'
      BY ONLY <2>1, <2>4, <1>1, base \in Seq(CpByte), cpReq' = cpReq, CopyStartsFact
    <2>6. Copied(OldBytes, 0, 1)'
      BY <2>3, <2>5, <1>2
    <2>7. QED
      BY <2>1, <2>2, <2>6, <1>2, <1>4 DEF CpCopyInv
  <1>7. CASE CpSignal \/ CpReads \/ CpWrites
    <2>1. cpPhase \in {"read", "write"}
      BY <1>7 DEF CpSignal, CpReads, CpWrites
    <2>2. ~ cpErr /\ Copied(OldBytes, 0, 1)
      BY <2>1 DEF CpCopyInv
    <2>3. PICK base \in Seq(CpByte) : base = OldBytes
      BY <1>1
    <2>4. cpFile \in Nat /\ cpReq.files[cpFile] \in Int /\ Copied(base, 0, cpFile) /\ cpReq.tool # "dd"
      BY <1>1, <1>3, <2>2, <2>3
    <2>5. Copied(base, 0, cpFile)' /\ cpPhase' \in {"read", "write"} /\ cpErr' = cpErr
      BY ONLY <2>4, <1>1, <1>3, <1>7, base \in Seq(CpByte), cpReq' = cpReq, CopyGoesOn
    <2>6. Copied(OldBytes, 0, 1)'
      BY <2>3, <2>5, <1>2, <1>3 DEF Copied, Core
    <2>7. QED
      BY <2>2, <2>5, <2>6, <1>4 DEF CpCopyInv
  <1>8. CASE CpReadEnds
    <2>1. cpPhase = "read" /\ cpPhase' = "close" /\ cpOut' = cpOut
      BY <1>8 DEF CpReadEnds
    <2>2. CASE cpErr'
      BY <2>1, <2>2, <1>4 DEF CpCopyInv
    <2>3. CASE ~ cpErr'
      <3>1. CpLeft = 0
        BY <1>8, <2>3 DEF CpReadEnds, Stops, CpIs
      <3>2. PICK base \in Seq(CpByte) : base = OldBytes
        BY <1>1
      <3>3. cpFile \in Nat /\ cpReq.files[cpFile] \in Int /\ Copied(base, 0, cpFile)
        BY <1>1, <1>3, <2>1, <3>2 DEF CpCopyInv
      <3>4. \E k \in Nat : cpOut = Overwritten(base, 0, CpBytes(cpFile, 0, k)) /\ (CpLeft = 0 => k = cpReq.files[cpFile])
        BY ONLY <3>3, <1>1, <2>1, base \in Seq(CpByte), CopyEnds
      <3>5. CpWhole'
        BY <3>1, <3>2, <3>4, <2>1, <1>2, <1>3 DEF CpWhole
      <3>6. QED
        BY <3>5, <2>1, <1>4 DEF CpCopyInv
    <2>4. QED
      BY <2>2, <2>3
  <1>9. CASE CpWriteFails
    <2>1. cpPhase' = "close" /\ cpErr'
      BY <1>9 DEF CpWriteFails
    <2>2. QED
      BY <2>1, <1>4 DEF CpCopyInv
  <1>10. CASE CpCloses
    <2>1. cpPhase = "close" /\ cpErr' = cpErr /\ (cpLost' \/ cpOut' = cpOut)
      BY <1>10 DEF CpCloses, Closes, MayLose
    <2>2. cpErr \/ CpWhole
      BY <2>1 DEF CpCopyInv
    <2>3. CpWhole => cpLost' \/ CpWhole'
      BY <2>1, <1>2 DEF CpWhole
    <2>4. CASE cpPhase' = "attr"
      <3>1. ~ cpErr
        BY <1>10, <2>4 DEF CpCloses, CpExits
      <3>2. QED
        BY <2>1, <2>2, <2>3, <2>4, <3>1, <1>4 DEF CpCopyInv
    <2>5. CASE cpPhase' # "attr"
      <3>1. (cpErr \/ ~ cpReq.preserve) /\ cpPhase' = "done" /\ cpExit' = IF cpErr THEN 1 ELSE 0
        BY <1>10, <2>5 DEF CpCloses, CpExits
      <3>2. CpIsExact'
        BY <2>2, <2>3, <3>1 DEF CpIsExact, CpWhole, OldBytes
      <3>3. QED
        BY <3>1, <3>2 DEF CpCopyInv
    <2>6. QED
      BY <2>4, <2>5
  <1>11. CASE CpPreserves
    <2>1. cpPhase = "attr" /\ cpPhase' = "done" /\ cpOut' = cpOut /\ cpLost' = cpLost
          /\ cpExit' = IF cpAttr' = {"owner", "mode", "times"} THEN 0 ELSE 1
      BY <1>11 DEF CpPreserves, CpExits
    <2>2. cpLost \/ CpWhole
      BY <2>1 DEF CpCopyInv
    <2>3. cpLost' \/ CpWhole'
      BY <2>1, <2>2, <1>2 DEF CpWhole
    <2>4. CpIsExact'
      BY <2>1, <2>3 DEF CpIsExact, CpWhole, OldBytes
    <2>5. QED
      BY <2>1, <2>4 DEF CpCopyInv
  <1>12. CASE DdOpens \/ DdSkips \/ DdSeeks \/ MvOpens \/ LogOpens \/ MvRenames \/ CatOpens \/ CatDrops
              \/ DdCloses \/ LogCloses \/ CatCloses \/ MvCloses
    BY <1>12 DEF DdOpens, DdSkips, DdSeeks, MvOpens, LogOpens, MvRenames, CatOpens, CatDrops, DdCloses, LogCloses, CatCloses, MvCloses,
                 Closes, CpIs, CpCommon
  <1>13. QED
    BY <1>5, <1>6, <1>7, <1>8, <1>9, <1>10, <1>11, <1>12 DEF CpSteps

(* mv: the source is there until the last call, and the whole of it is in  *)
(* the target when the copy ends without an error.                         *)
MvWhole == cpOut = CpBytes(1, 0, cpReq.files[1])

MvInv ==
  cpReq.tool = "mv" =>
    /\ cpPhase \in {"read", "write"} => ~ cpErr /\ Copied(<<>>, 0, 1)
    /\ cpPhase = "close" => cpErr \/ MvWhole
    /\ cpPhase # "done" => cpThere
    /\ MvIsExact

(* Where the copy ends, an empty target has got all of the file.           *)
LEMMA EndsEmpty ==
  ASSUME CpTool, cpFile = 1, cpReq.files[1] \in Int, cpPhase = "read", Copied(<<>>, 0, 1)
  PROVE  \E k \in Nat : k <= cpReq.files[1] /\ cpIn = k /\ cpOut = CpBytes(1, 0, k) /\ (CpLeft = 0 => k = cpReq.files[1])
  <1>1. PICK base \in Seq(CpByte) : base = <<>>
    BY EmptySeq
  <1>2. cpFile \in Nat /\ cpReq.files[cpFile] \in Int /\ Copied(base, 0, cpFile) /\ 0 \in Nat
    BY <1>1
  <1>3. PICK k \in Nat : k <= cpReq.files[cpFile] /\ cpIn = k /\ cpOut = Overwritten(base, 0, CpBytes(cpFile, 0, k))
                         /\ (CpLeft = 0 => k = cpReq.files[cpFile])
    BY ONLY <1>2, cpPhase = "read", base \in Seq(CpByte), CopyEnds
  <1>4. Overwritten(<<>>, 0, CpBytes(1, 0, k)) = CpBytes(1, 0, k)
    <2>1. 1 \in Nat
      OBVIOUS
    <2>2. QED
      BY ONLY <2>1, k \in Nat, EmptyFact
  <1>5. QED
    BY <1>1, <1>3, <1>4

(* A copy to an empty target starts as it must.                           *)
LEMMA StartsEmpty ==
  ASSUME cpReq.files[1] \in Int, cpReq.files[1] >= 0, cpReq' = cpReq, cpBuf' = <<>>, cpIn' = 0, cpOut' = <<>>, cpPos' = 0
  PROVE  Copied(<<>>, 0, 1)'
  <1>1. PICK base \in Seq(CpByte) : base = <<>>
    BY EmptySeq
  <1>2. 0 \in Nat /\ 1 \in Nat /\ cpOut' = base
    BY <1>1
  <1>3. Copied(base, 0, 1)'
    BY <1>2, CopyStartsFact
  <1>4. QED
    BY ONLY <1>1, <1>3

(* Ctrl-C, a read and a write keep that.                                   *)
LEMMA GoesOnEmpty ==
  ASSUME cpFile = 1, cpReq.files[1] \in Int, Copied(<<>>, 0, 1), cpReq' = cpReq, cpReq.tool # "dd", cpErr \in BOOLEAN,
         CpSignal \/ CpReads \/ CpWrites
  PROVE  Copied(<<>>, 0, 1)' /\ cpPhase' \in {"read", "write"} /\ cpErr' = cpErr /\ cpThere' = cpThere
  <1>1. PICK base \in Seq(CpByte) : base = <<>>
    BY EmptySeq
  <1>2. cpFile \in Nat /\ cpReq.files[cpFile] \in Int /\ Copied(base, 0, cpFile) /\ 0 \in Nat
    BY <1>1
  <1>3. Copied(base, 0, cpFile)' /\ cpFile' = cpFile /\ cpPhase' \in {"read", "write"} /\ cpErr' = cpErr /\ cpThere' = cpThere
    BY ONLY <1>2, base \in Seq(CpByte), cpReq' = cpReq, cpReq.tool # "dd", cpErr \in BOOLEAN, CpSignal \/ CpReads \/ CpWrites, CopyGoesOn
  <1>4. QED
    BY <1>1, <1>3

(* Every step of mv keeps that.                                            *)
LEMMA MvStep ==
  ASSUME CpCommon, CpCommon', MvInv, CpSteps, cpReq' = cpReq, cpReq.tool = "mv"
  PROVE  MvInv'
  <1>1. cpReq.files[1] \in Int /\ CpTool
    BY CopyFact DEF CpCommon
  <1>2. cpFile = 1 /\ cpErr \in BOOLEAN /\ (cpPhase' # "done" => cpExit' = -1)
        /\ (cpPhase = "start" => CpFresh /\ ~ cpErr)
    BY DEF CpCommon
  <1>3. ASSUME cpPhase' # "done", cpThere'  PROVE MvIsExact'
    BY <1>2, <1>3 DEF MvIsExact
  <1>4. cpPhase # "done" => cpThere
    BY DEF MvInv
  <1>5. CASE CpRefuses
    <2>1. cpPhase = "start" /\ cpPhase' = "done" /\ cpExit' = 1 /\ cpThere' = cpThere
      BY <1>5 DEF CpRefuses, CpExits
    <2>2. MvIsExact'
      BY <2>1, <1>4 DEF MvIsExact
    <2>3. QED
      BY <2>1, <2>2 DEF MvInv
  <1>6. CASE MvOpens
    <2>1. cpPhase = "start" /\ cpPhase' = "read" /\ cpReq.files[1] >= 0 /\ cpOut' = <<>> /\ UNCHANGED <<cpIn, cpBuf, cpPos, cpErr, cpThere>>
      BY <1>6 DEF MvOpens, CopyStarts, cpPlace
    <2>2. cpIn = 0 /\ cpBuf = <<>> /\ cpPos = 0 /\ ~ cpErr
      BY <2>1, <1>2 DEF CpFresh
    <2>3. cpReq.files[1] >= 0 /\ cpIn' = 0 /\ cpBuf' = <<>> /\ cpPos' = 0 /\ cpOut' = <<>>
      BY <2>1, <2>2, <1>1
    <2>4. Copied(<<>>, 0, 1)'
      BY ONLY <2>3, <1>1, cpReq' = cpReq, StartsEmpty
    <2>5. QED
      BY <2>1, <2>2, <2>4, <1>3, <1>4 DEF MvInv
  <1>7. CASE MvRenames
    <2>1. cpPhase' = "done" /\ cpOut' = CpBytes(1, 0, cpReq.files[1]) /\ cpThere' = FALSE
      BY <1>7 DEF MvRenames, CpExits
    <2>2. MvIsExact'
      BY <2>1 DEF MvIsExact
    <2>3. QED
      BY <2>1, <2>2 DEF MvInv
  <1>8. CASE CpSignal \/ CpReads \/ CpWrites
    <2>1. cpPhase \in {"read", "write"}
      BY <1>8 DEF CpSignal, CpReads, CpWrites
    <2>2. ~ cpErr /\ Copied(<<>>, 0, 1) /\ cpReq.tool # "dd"
      BY <2>1 DEF MvInv
    <2>3. Copied(<<>>, 0, 1)' /\ cpPhase' \in {"read", "write"} /\ cpErr' = cpErr /\ cpThere' = cpThere
      BY ONLY <2>2, <1>1, <1>2, <1>8, cpReq' = cpReq, GoesOnEmpty
    <2>4. QED
      BY <2>1, <2>2, <2>3, <1>3, <1>4 DEF MvInv
  <1>9. CASE CpReadEnds
    <2>1. cpPhase = "read" /\ cpPhase' = "close" /\ cpOut' = cpOut /\ cpThere' = cpThere
      BY <1>9 DEF CpReadEnds
    <2>2. cpErr' \/ MvWhole'
      <3>1. cpErr' \/ CpLeft = 0
        BY <1>9 DEF CpReadEnds, Stops, CpIs
      <3>2. Copied(<<>>, 0, 1)
        BY <2>1 DEF MvInv
      <3>3. \E k \in Nat : cpOut = CpBytes(1, 0, k) /\ (CpLeft = 0 => k = cpReq.files[1])
        BY ONLY <3>2, <2>1, <1>1, <1>2, EndsEmpty
      <3>4. QED
        BY <3>1, <3>3, <2>1 DEF MvWhole
    <2>3. QED
      BY <2>1, <2>2, <1>3, <1>4 DEF MvInv
  <1>10. CASE CpWriteFails
    <2>1. cpPhase = "write" /\ cpPhase' = "close" /\ cpErr' /\ cpThere' = cpThere
      BY <1>10 DEF CpWriteFails
    <2>2. QED
      BY <2>1, <1>3, <1>4 DEF MvInv
  <1>11. CASE MvCloses
    <2>1. cpPhase = "close" /\ cpPhase' = "done" /\ cpLost' \in BOOLEAN /\ cpOut' = IF cpLost' THEN Front(cpOut) ELSE cpOut
      BY <1>11 DEF MvCloses, Closes, CpExits, MayLose
    <2>2. (cpErr \/ MvWhole) /\ cpThere
      BY <2>1 DEF MvInv
    <2>3. \/ cpErr /\ cpExit' = 1 /\ cpThere' = cpThere
          \/ ~ cpErr /\ \E gone \in BOOLEAN : cpThere' = ~ gone /\ cpExit' = IF gone THEN 0 ELSE 1
      BY <1>11 DEF MvCloses, CpExits
    <2>4. cpThere' \/ cpLost' \/ cpOut' = CpBytes(1, 0, cpReq'.files[1])
      BY <2>1, <2>2, <2>3 DEF MvWhole
    <2>5. cpExit' = 0 => ~ cpThere'
      <3>1. CASE cpErr
        BY <2>3, <3>1
      <3>2. CASE ~ cpErr
        <4>1. PICK gone \in BOOLEAN : cpThere' = ~ gone /\ cpExit' = IF gone THEN 0 ELSE 1
          BY <2>3, <3>2
        <4>2. cpExit' = 0 => gone
          BY <4>1
        <4>3. QED
          BY ONLY <4>1, <4>2, Zenon
      <3>3. QED
        BY <3>1, <3>2
    <2>6. QED
      BY <2>1, <2>4, <2>5 DEF MvInv, MvIsExact
  <1>12. CASE DdOpens \/ DdSkips \/ DdSeeks \/ CpOpens \/ LogOpens \/ CatOpens \/ CatDrops
              \/ DdCloses \/ LogCloses \/ CatCloses \/ CpCloses \/ CpPreserves
    BY <1>12 DEF DdOpens, DdSkips, DdSeeks, CpOpens, LogOpens, CatOpens, CatDrops, DdCloses, LogCloses, CatCloses, CpCloses, CpPreserves,
                 Closes, CpIs, CpCommon
  <1>13. QED
    BY <1>5, <1>6, <1>7, <1>8, <1>9, <1>10, <1>11, <1>12 DEF CpSteps

(* One sequence begins with another.                                       *)
Begins(s, t) == s \in Seq(CpByte) /\ t \in Seq(CpByte) /\ Len(s) <= Len(t) /\ \A i \in 1 .. Len(s) : s[i] = t[i]

(* What every file that is printed adds.                                   *)
Printed(p, fs) ==
  /\ p \in [0 .. Len(fs) -> Seq(CpByte)] /\ p[0] = <<>>
  /\ \A i \in 1 .. Len(fs) : p[i] = p[i - 1] \o CpBytes(i, 0, CpMost(fs[i], 0))

(* That is what the community module calls a prefix.                       *)
LEMMA BeginsPrefix ==
  ASSUME NEW s, NEW t, Begins(s, t)
  PROVE  IsPrefix(s, t)
  <1>1. s \in Seq(CpByte) /\ t \in Seq(CpByte) /\ Len(s) <= Len(t) /\ \A i \in 1 .. Len(s) : s[i] = t[i]
    BY DEF Begins
  <1>2. PICK n \in Nat : n = Len(s)
    BY <1>1, LenProperties
  <1>3. Len(t) \in Nat /\ 1 \in Int /\ n \in Int
    BY <1>1, LenProperties
  <1>4. \A i \in 1 .. n : s[i] \in CpByte /\ t[i] \in CpByte
    BY <1>1, <1>2, ElementOfSeq
  <1>5. PICK a, b : a = SubSeq(s, 1, n) /\ b = SubSeq(t, 1, n)
    OBVIOUS
  <1>6. a \in Seq(CpByte) /\ Len(a) = (IF 1 <= n THEN n - 1 + 1 ELSE 0) /\ \A i \in 1 .. n - 1 + 1 : a[i] = s[1 + i - 1]
    BY ONLY <1>3, <1>4, <1>5, SubSeqProperties
  <1>7. b \in Seq(CpByte) /\ Len(b) = (IF 1 <= n THEN n - 1 + 1 ELSE 0) /\ \A i \in 1 .. n - 1 + 1 : b[i] = t[1 + i - 1]
    BY ONLY <1>3, <1>4, <1>5, SubSeqProperties
  <1>8. Len(a) = n /\ Len(b) = n /\ \A i \in 1 .. n : a[i] = b[i]
    BY <1>1, <1>2, <1>6, <1>7
  <1>9. a = b
    BY <1>6, <1>7, <1>8, SeqEqual
  <1>10. QED
    BY <1>1, <1>2, <1>5, <1>9 DEF IsPrefix

(* A longer sequence begins with the beginning of what it begins with.     *)
LEMMA BeginsThrough ==
  ASSUME NEW s, NEW t, NEW u, Begins(s, t), Begins(t, u)
  PROVE  Begins(s, u)
  <1>1. Len(s) \in Nat /\ Len(t) \in Nat /\ Len(u) \in Nat
    BY LenProperties DEF Begins
  <1>2. QED
    BY <1>1 DEF Begins

(* The first k bytes of a file, after the same output.                     *)
LEMMA BeginsBytes ==
  ASSUME NEW a \in Seq(CpByte), NEW f \in Nat, NEW k \in Nat, NEW n \in Nat, k <= n
  PROVE  Begins(a \o CpBytes(f, 0, k), a \o CpBytes(f, 0, n))
  <1>1. PICK b, c : b = CpBytes(f, 0, k) /\ c = CpBytes(f, 0, n)
    OBVIOUS
  <1>2. b \in Seq(CpByte) /\ Len(b) = k /\ \A i \in 1 .. k : b[i] = <<f, 0 + i>>
    <2>1. 0 \in Int
      OBVIOUS
    <2>2. IsBytes(CpBytes(f, 0, k), f, 0, k)
      BY ONLY <2>1, f \in Nat, k \in Nat, BytesAre
    <2>3. IsBytes(b, f, 0, k)
      BY ONLY <1>1, <2>2
    <2>4. QED
      BY ONLY <2>3 DEF IsBytes
  <1>3. c \in Seq(CpByte) /\ Len(c) = n /\ \A i \in 1 .. n : c[i] = <<f, 0 + i>>
    <2>1. 0 \in Int
      OBVIOUS
    <2>2. IsBytes(CpBytes(f, 0, n), f, 0, n)
      BY ONLY <2>1, f \in Nat, n \in Nat, BytesAre
    <2>3. IsBytes(c, f, 0, n)
      BY ONLY <1>1, <2>2
    <2>4. QED
      BY ONLY <2>3 DEF IsBytes
  <1>4. PICK l \in Nat : l = Len(a)
    BY LenProperties
  <1>5. PICK x, y : x = a \o b /\ y = a \o c
    OBVIOUS
  <1>6. x \in Seq(CpByte) /\ Len(x) = l + k /\ \A i \in 1 .. l + k : x[i] = IF i <= l THEN a[i] ELSE b[i - l]
    BY ONLY <1>2, <1>4, <1>5, a \in Seq(CpByte), ConcatProperties
  <1>7. y \in Seq(CpByte) /\ Len(y) = l + n /\ \A i \in 1 .. l + n : y[i] = IF i <= l THEN a[i] ELSE c[i - l]
    BY ONLY <1>3, <1>4, <1>5, a \in Seq(CpByte), ConcatProperties
  <1>8. ASSUME NEW i \in 1 .. l + k  PROVE x[i] = y[i]
    <2>1. i \in 1 .. l + n /\ (~ (i <= l) => i - l \in 1 .. k /\ i - l \in 1 .. n)
      OBVIOUS
    <2>2. QED
      BY ONLY <2>1, <1>2, <1>3, <1>6, <1>7, i \in 1 .. l + k
  <1>9. Len(x) <= Len(y)
    BY <1>6, <1>7
  <1>10. Begins(x, y)
    BY <1>6, <1>7, <1>8, <1>9 DEF Begins
  <1>11. QED
    BY <1>1, <1>5, <1>10

(* CatPrints has the value its definition says.                            *)
LEMMA PrintedFact ==
  ASSUME NEW fs \in Seq(Int)
  PROVE  Printed(CatPrints(fs), fs)
  <1> DEFINE n == Len(fs)
             More(s, i) == s \o CpBytes(i, 0, CpMost(fs[i], 0))
             Is(f) == f = [i \in 0 .. n |-> IF i = 0 THEN <<>> ELSE More(f[i - 1], i)]
             cells == CHOOSE f : Is(f)
             g == [p \in (1 .. n) \X Seq(CpByte) |-> More(p[2], p[1])]
  <1>1. n \in Nat /\ \A i \in 1 .. n : fs[i] \in Int
    BY LenProperties, ElementOfSeq
  <1>2. \A i \in 1 .. n : \A s \in Seq(CpByte) : g[<<i, s>>] = More(s, i)
    OBVIOUS
  <1>3. ASSUME NEW i \in 1 .. n, NEW s \in Seq(CpByte) PROVE More(s, i) \in Seq(CpByte)
    <2>1. CpMost(fs[i], 0) \in Nat /\ i \in Nat /\ 0 \in Int
      BY <1>1 DEF CpMost
    <2>2. PICK b : b = CpBytes(i, 0, CpMost(fs[i], 0))
      OBVIOUS
    <2>3. b \in Seq(CpByte)
      BY ONLY <2>1, <2>2, BytesFact
    <2>4. s \o b \in Seq(CpByte)
      BY ONLY <2>3, s \in Seq(CpByte), ConcatProperties
    <2>5. QED
      BY <2>2, <2>4
  <1> HIDE DEF n, g, Is, cells, More
  <1>4. PICK f \in [0 .. n -> Seq(CpByte)] : Recursive(f, g, n, <<>>)
    <2>1. StepsIn(g, n, Seq(CpByte)) /\ n \in Nat /\ <<>> \in Seq(CpByte)
      BY <1>1, <1>2, <1>3, EmptySeq DEF StepsIn
    <2>2. QED
      BY <2>1, Recursion
  <1>5. ASSUME NEW i \in 1 .. n PROVE f[i] = More(f[i - 1], i)
    <2>1. i - 1 \in 0 .. n
      BY <1>1
    <2>2. f[i - 1] \in Seq(CpByte)
      BY <1>4, <2>1
    <2>3. QED
      BY <1>2, <1>4, <2>2 DEF Recursive
  <1>6. Is(f)
    <2>1. f = [i \in 0 .. n |-> f[i]]
      BY <1>4
    <2>2. ASSUME NEW i \in 0 .. n
          PROVE  f[i] = IF i = 0 THEN <<>> ELSE More(f[i - 1], i)
      <3>1. CASE i = 0
        BY <3>1, <1>4 DEF Recursive
      <3>2. CASE i # 0
        <4>1. i \in 1 .. n
          BY <3>2, <1>1
        <4>2. QED
          BY <4>1, <3>2, <1>5
      <3>3. QED
        BY <3>1, <3>2
    <2>3. QED
      BY <2>1, <2>2 DEF Is
  <1>7. Is(cells)
    BY <1>6 DEF cells
  <1>8. CatPrints(fs) = cells
    BY DEF CatPrints, n, cells, Is, More
  <1>9. /\ cells = [i \in 0 .. n |-> cells[i]] /\ cells[0] = <<>>
        /\ \A i \in 1 .. n : cells[i] = More(cells[i - 1], i)
    <2>1. 0 \in 0 .. n /\ \A i \in 1 .. n : i \in 0 .. n /\ i # 0
      BY <1>1
    <2>2. \A i \in 0 .. n : cells[i] = IF i = 0 THEN <<>> ELSE More(cells[i - 1], i)
      BY <1>7 DEF Is
    <2>3. cells = [i \in 0 .. n |-> cells[i]]
      BY <1>7 DEF Is
    <2>4. QED
      BY <2>1, <2>2, <2>3
  <1> DEFINE U == {k \in Nat : k <= n => cells[k] \in Seq(CpByte)}
  <1>10. 0 \in U
    <2>1. cells[0] \in Seq(CpByte)
      BY <1>9, EmptySeq
    <2>2. QED
      BY <2>1
  <1>11. ASSUME NEW k \in Nat, k \in U PROVE k + 1 \in U
    <2> SUFFICES ASSUME k + 1 <= n PROVE cells[k + 1] \in Seq(CpByte)
      OBVIOUS
    <2>1. k + 1 \in 1 .. n /\ (k + 1) - 1 = k /\ k <= n
      BY <1>1
    <2>2. cells[k + 1] = More(cells[(k + 1) - 1], k + 1)
      BY <1>9, <2>1
    <2>3. cells[k] \in Seq(CpByte)
      BY <1>11, <2>1
    <2>4. QED
      BY <2>1, <2>2, <2>3, <1>3
  <1> HIDE DEF U
  <1>12. Nat \subseteq U
    BY <1>10, <1>11, SetInduction
  <1>13. \A i \in 0 .. n : cells[i] \in Seq(CpByte)
    BY <1>1, <1>12 DEF U
  <1>14. cells \in [0 .. n -> Seq(CpByte)]
    BY <1>9, <1>13
  <1>15. QED
    BY <1>8, <1>9, <1>14 DEF Printed, n, More

(* The output of all the files begins with that of the first ones.         *)
LEMMA PrintedBegins ==
  ASSUME NEW fs \in Seq(Int), NEW p, Printed(p, fs), NEW f \in 0 .. Len(fs)
  PROVE  Begins(p[f], p[Len(fs)])
  <1>1. PICK n \in Nat : n = Len(fs)
    BY LenProperties
  <1>2. p \in [0 .. n -> Seq(CpByte)] /\ \A i \in 1 .. n : p[i] = p[i - 1] \o CpBytes(i, 0, CpMost(fs[i], 0))
    BY <1>1 DEF Printed
  <1>3. f \in Nat /\ f <= n
    BY <1>1
  <1> DEFINE T == {d \in Nat : f + d <= n => Begins(p[f], p[f + d])}
  <1>4. 0 \in T
    <2>1. p[f] \in Seq(CpByte) /\ f + 0 = f
      BY <1>2, <1>3
    <2>2. Begins(p[f], p[f])
      BY <2>1, LenProperties DEF Begins
    <2>3. QED
      BY <2>1, <2>2
  <1>5. ASSUME NEW d \in Nat, d \in T  PROVE d + 1 \in T
    <2> SUFFICES ASSUME f + (d + 1) <= n  PROVE Begins(p[f], p[f + (d + 1)])
      OBVIOUS
    <2>1. PICK j \in Nat : j = f + (d + 1)
      BY <1>3
    <2>2. j \in 1 .. n /\ j - 1 \in 0 .. n /\ f + d = j - 1 /\ f + d <= n
      BY <2>1, <1>3
    <2>3. Begins(p[f], p[j - 1])
      BY <2>2, <1>5
    <2>4. fs[j] \in Int
      BY <2>2, <1>1, ElementOfSeq
    <2>5. CpMost(fs[j], 0) \in Nat /\ 0 <= CpMost(fs[j], 0) /\ 0 \in Nat /\ 0 \in Int
      BY <2>4 DEF CpMost
    <2>6. PICK a \in Seq(CpByte), m \in Nat : a = p[j - 1] /\ m = CpMost(fs[j], 0)
      BY <1>2, <2>2, <2>5
    <2>7. Begins(a \o CpBytes(j, 0, 0), a \o CpBytes(j, 0, m))
      BY ONLY <2>5, <2>6, a \in Seq(CpByte), m \in Nat, j \in Nat, BeginsBytes
    <2>8. a \o CpBytes(j, 0, 0) = a
      <3>1. CpBytes(j, 0, 0) = <<>>
        BY ONLY <2>5, j \in Nat, NoBytes
      <3>2. a \o <<>> = a
        BY ONLY a \in Seq(CpByte), ConcatEmptySeq
      <3>3. QED
        BY <3>1, <3>2
    <2>9. p[j] = a \o CpBytes(j, 0, m)
      BY <1>2, <2>2, <2>6
    <2>10. Begins(p[j - 1], p[j])
      BY ONLY <2>6, <2>7, <2>8, <2>9
    <2>11. QED
      BY <2>1, <2>3, <2>10, BeginsThrough
  <1> HIDE DEF T
  <1>6. Nat \subseteq T
    BY <1>4, <1>5, SetInduction
  <1>7. n - f \in Nat /\ f + (n - f) = n
    BY <1>3
  <1>8. QED
    BY <1>1, <1>6, <1>7 DEF T

(* Some of the bytes of a file after all of the files before it are a      *)
(* beginning of the output, and all of them what the next file is added    *)
(* to.                                                                     *)
LEMMA PrefixFact ==
  ASSUME NEW fs \in Seq(Int), NEW p, Printed(p, fs), NEW f \in 1 .. Len(fs), NEW k \in Nat, k <= fs[f]
  PROVE  /\ Begins(p[f - 1] \o CpBytes(f, 0, k), p[Len(fs)])
         /\ k = fs[f] => p[f] = p[f - 1] \o CpBytes(f, 0, k)
  <1>1. Len(fs) \in Nat /\ fs[f] \in Int
    BY LenProperties, ElementOfSeq
  <1>2. f \in Nat /\ f \in 0 .. Len(fs) /\ f - 1 \in 0 .. Len(fs) /\ fs[f] \in Nat /\ CpMost(fs[f], 0) = fs[f]
    BY <1>1 DEF CpMost
  <1>3. PICK m \in Nat, a \in Seq(CpByte) : m = fs[f] /\ a = p[f - 1]
    BY <1>2 DEF Printed
  <1>4. p[f] = a \o CpBytes(f, 0, m)
    BY <1>2, <1>3 DEF Printed
  <1>5. Begins(a \o CpBytes(f, 0, k), a \o CpBytes(f, 0, m))
    <2>1. k <= m
      BY <1>3
    <2>2. QED
      BY ONLY <1>2, <2>1, a \in Seq(CpByte), m \in Nat, k \in Nat, BeginsBytes
  <1>6. Begins(p[f], p[Len(fs)])
    BY <1>2, PrintedBegins
  <1>7. QED
    BY <1>3, <1>4, <1>5, <1>6, BeginsThrough

(* logread: what it has printed is what it has read of the log.            *)
LogShows == \E k \in Nat : k <= CpMost(cpReq.files[1], 0) /\ cpIn = k /\ cpOut = CpBytes(1, 0, k)

LogInv ==
  cpReq.tool = "logread" =>
    /\ cpPhase \in {"read", "write"} => ~ cpErr /\ Copied(<<>>, 0, 1)
    /\ cpPhase \in {"close", "done"} => cpErr \/ LogShows
    /\ cpExit = 0 => ~ cpErr

(* Every step of logread keeps that.                                       *)
LEMMA LogStep ==
  ASSUME CpCommon, CpCommon', LogInv, CpSteps, cpReq' = cpReq, cpReq.tool = "logread"
  PROVE  LogInv'
  <1>1. cpReq.files[1] \in Int /\ CpTool /\ OldBytes = <<>>
    BY CopyFact DEF CpCommon
  <1>2. cpFile = 1 /\ cpErr \in BOOLEAN /\ (cpPhase' # "done" => cpExit' = -1)
        /\ (cpPhase = "start" => CpFresh /\ ~ cpErr)
    BY DEF CpCommon
  <1>3. UNCHANGED <<cpIn, cpOut>> /\ LogShows => LogShows'
    BY DEF LogShows
  <1>4. CASE CpRefuses
    <2>1. cpPhase = "start" /\ cpPhase' = "done" /\ cpExit' = 1 /\ UNCHANGED <<cpIn, cpOut>>
      BY <1>4 DEF CpRefuses, CpExits, cpPlace
    <2>2. cpIn = 0 /\ cpOut = <<>>
      BY <2>1, <1>1, <1>2 DEF CpFresh
    <2>3. CpBytes(1, 0, 0) = <<>> /\ 0 \in Nat
      <3>1. 0 \in Int /\ 1 \in Nat /\ 0 \in Nat
        OBVIOUS
      <3>2. QED
        BY ONLY <3>1, NoBytes
    <2>4. 0 <= CpMost(cpReq.files[1], 0)
      BY <1>1 DEF CpMost
    <2>5. LogShows
      BY <2>2, <2>3, <2>4 DEF LogShows
    <2>6. QED
      BY <2>1, <2>5, <1>3 DEF LogInv
  <1>5. CASE LogOpens
    <2>1. cpPhase = "start" /\ cpPhase' = "read" /\ cpReq.files[1] >= 0 /\ UNCHANGED <<cpOut, cpIn, cpBuf, cpPos, cpErr>>
      BY <1>5 DEF LogOpens, CopyStarts, cpPlace
    <2>2. cpReq.files[1] >= 0 /\ cpIn' = 0 /\ cpBuf' = <<>> /\ cpPos' = 0 /\ cpOut' = <<>> /\ ~ cpErr
      BY <2>1, <1>1, <1>2 DEF CpFresh
    <2>3. Copied(<<>>, 0, 1)'
      BY ONLY <2>2, <1>1, cpReq' = cpReq, StartsEmpty
    <2>4. QED
      BY <2>1, <2>2, <2>3, <1>2 DEF LogInv
  <1>6. CASE CpSignal \/ CpReads \/ CpWrites
    <2>1. cpPhase \in {"read", "write"}
      BY <1>6 DEF CpSignal, CpReads, CpWrites
    <2>2. ~ cpErr /\ Copied(<<>>, 0, 1) /\ cpReq.tool # "dd"
      BY <2>1 DEF LogInv
    <2>3. Copied(<<>>, 0, 1)' /\ cpPhase' \in {"read", "write"} /\ cpErr' = cpErr
      BY ONLY <2>2, <1>1, <1>2, <1>6, cpReq' = cpReq, GoesOnEmpty
    <2>4. QED
      BY <2>2, <2>3, <1>2 DEF LogInv
  <1>7. CASE CpReadEnds
    <2>1. cpPhase = "read" /\ cpPhase' = "close" /\ UNCHANGED <<cpIn, cpOut>>
      BY <1>7 DEF CpReadEnds, cpPlace
    <2>2. Copied(<<>>, 0, 1)
      BY <2>1 DEF LogInv
    <2>3. \E k \in Nat : k <= cpReq.files[1] /\ cpIn = k /\ cpOut = CpBytes(1, 0, k)
      BY ONLY <2>2, <2>1, <1>1, <1>2, EndsEmpty
    <2>4. LogShows
      BY <2>3, <1>1 DEF LogShows, CpMost
    <2>5. QED
      BY <2>1, <2>4, <1>2, <1>3 DEF LogInv
  <1>8. CASE CpWriteFails
    <2>1. cpPhase' = "close" /\ cpErr'
      BY <1>8 DEF CpWriteFails
    <2>2. QED
      BY <2>1, <1>2 DEF LogInv
  <1>9. CASE LogCloses
    <2>1. cpPhase = "close" /\ cpPhase' = "done" /\ cpErr' = cpErr /\ cpExit' = (IF cpErr THEN 1 ELSE 0) /\ UNCHANGED <<cpIn, cpOut>>
      BY <1>9 DEF LogCloses, Closes, CpIs, CpExits, MayLose
    <2>2. cpErr \/ LogShows
      BY <2>1 DEF LogInv
    <2>3. QED
      BY <2>1, <2>2, <1>3 DEF LogInv
  <1>10. CASE DdOpens \/ DdSkips \/ DdSeeks \/ CpOpens \/ MvOpens \/ MvRenames \/ CatOpens \/ CatDrops
              \/ DdCloses \/ CatCloses \/ MvCloses \/ CpCloses \/ CpPreserves
    BY <1>10 DEF DdOpens, DdSkips, DdSeeks, CpOpens, MvOpens, MvRenames, CatOpens, CatDrops, DdCloses, CatCloses, MvCloses, CpCloses,
                 CpPreserves, Closes, CpIs, CpCommon
  <1>11. QED
    BY <1>4, <1>5, <1>6, <1>7, <1>8, <1>9, <1>10 DEF CpSteps

(* So does the log when it grows.                                          *)
LEMMA LogGrowsStep ==
  ASSUME CpCommon, CpCommon', LogInv, LogGrows
  PROVE  LogInv'
  <1>1. cpReq.tool = "logread" /\ cpReq'.files[1] = cpReq.files[1] + 1 /\ cpReq.files[1] \in Int
    BY GrowsFact DEF CpCommon
  <1>2. cpPhase \in {"read", "write"} /\ UNCHANGED <<cpPhase, cpIn, cpBuf, cpOut, cpPos, cpErr, cpExit>>
    BY DEF LogGrows, cpPlace
  <1>3. ~ cpErr /\ Copied(<<>>, 0, 1)
    BY <1>1, <1>2 DEF LogInv
  <1>4. PICK k \in Nat, m \in Nat : Core(<<>>, 0, 1, 0, k, m) /\ k + m <= cpReq.files[1] /\ (cpPhase = "read" => m = 0)
    BY <1>3 DEF Copied
  <1>5. Core(<<>>, 0, 1, 0, k, m)'
    BY <1>2, <1>4 DEF Core
  <1>6. k + m <= cpReq'.files[1]
    BY <1>1, <1>4
  <1>7. Copied(<<>>, 0, 1)'
    BY <1>2, <1>4, <1>5, <1>6 DEF Copied
  <1>8. QED
    BY <1>2, <1>3, <1>7 DEF LogInv

(* What logread says is true.                                              *)
LEMMA LogExactFact ==
  ASSUME CpCommon, LogInv, cpReq.tool = "logread"
  PROVE  ListIsExact
  <1>1. cpReq.files[1] \in Int /\ OldBytes = <<>>
    BY CopyFact DEF CpCommon
  <1>2. PICK fs \in Seq(Int) : fs = cpReq.files
    BY DEF CpCommon, CpTool, CpRequest
  <1>3. Len(fs) = 1 /\ fs[1] \in Int
    BY <1>1, <1>2 DEF CpCommon, CpTool
  <1>4. PICK n \in Nat : n = CpMost(fs[1], 0)
    BY <1>3 DEF CpMost
  <1>5. PICK p : p = CatPrints(fs)
    OBVIOUS
  <1>6. Printed(p, fs)
    BY <1>5, PrintedFact
  <1>7. p[1] = <<>> \o CpBytes(1, 0, n)
    <2>1. 1 \in 1 .. Len(fs) /\ 1 - 1 = 0
      BY <1>3
    <2>2. QED
      BY <1>4, <1>6, <2>1 DEF Printed
  <1>8. ASSUME NEW k \in Nat, k <= n, cpOut = CpBytes(1, 0, k)
        PROVE  IsPrefix(cpOut, p[Len(fs)])
    <2>1. <<>> \in Seq(CpByte) /\ 1 \in Nat /\ 0 \in Int
      BY EmptySeq
    <2>2. Begins(<<>> \o CpBytes(1, 0, k), <<>> \o CpBytes(1, 0, n))
      BY ONLY <2>1, <1>8, n \in Nat, BeginsBytes
    <2>3. CpBytes(1, 0, k) \in Seq(CpByte)
      BY ONLY <2>1, k \in Nat, BytesFact
    <2>4. <<>> \o CpBytes(1, 0, k) = CpBytes(1, 0, k)
      BY ONLY <2>3, ConcatEmptySeq
    <2>5. Begins(cpOut, p[1])
      BY ONLY <2>2, <2>4, <1>7, <1>8
    <2>6. QED
      BY <2>5, <1>3, BeginsPrefix
  <1>9. IsPrefix(cpOut, p[Len(fs)]) \/ cpErr
    <2>1. CASE cpPhase = "start"
      <3>1. 0 \in Int /\ 1 \in Nat /\ 0 \in Nat
        OBVIOUS
      <3>2. CpBytes(1, 0, 0) = <<>>
        BY ONLY <3>1, NoBytes
      <3>3. cpOut = CpBytes(1, 0, 0) /\ 0 <= n
        BY <2>1, <3>2, <1>1 DEF CpCommon, CpFresh
      <3>4. QED
        BY <3>1, <3>3, <1>8
    <2>2. CASE cpPhase \in {"read", "write"}
      <3>1. PICK k \in Nat, m \in Nat : Core(<<>>, 0, 1, 0, k, m) /\ k + m <= cpReq.files[1]
        BY <2>2 DEF LogInv, Copied
      <3>2. cpOut = Overwritten(<<>>, 0, CpBytes(1, 0, k)) /\ 1 \in Nat
        BY <3>1 DEF Core
      <3>3. Overwritten(<<>>, 0, CpBytes(1, 0, k)) = CpBytes(1, 0, k)
        BY ONLY <3>2, k \in Nat, EmptyFact
      <3>4. k <= n
        BY <3>1, <1>1, <1>2, <1>4 DEF CpMost
      <3>5. QED
        BY <3>2, <3>3, <3>4, <1>8
    <2>3. CASE cpPhase \in {"close", "done"}
      <3>1. cpErr \/ LogShows
        BY <2>3 DEF LogInv
      <3>2. QED
        BY <3>1, <1>2, <1>4, <1>8 DEF LogShows
    <2>4. QED
      BY <2>1, <2>2, <2>3 DEF CpCommon
  <1>10. cpExit = 0 => Len(cpOut) >= cpIn
    <2> SUFFICES ASSUME cpExit = 0  PROVE Len(cpOut) >= cpIn
      OBVIOUS
    <2>1. cpPhase = "done" /\ ~ cpErr
      BY DEF CpCommon, LogInv
    <2>2. PICK k \in Nat : cpIn = k /\ cpOut = CpBytes(1, 0, k)
      BY <2>1 DEF LogInv, LogShows
    <2>3. 0 \in Int /\ 1 \in Nat
      OBVIOUS
    <2>4. Len(CpBytes(1, 0, k)) = k
      BY ONLY <2>3, k \in Nat, BytesFact
    <2>5. QED
      BY <2>2, <2>4
  <1>11. QED
    BY <1>2, <1>5, <1>9, <1>10 DEF ListIsExact

(* What is left when the last byte is lost is a beginning too.             *)
LEMMA BeginsFront ==
  ASSUME NEW s, NEW t, Begins(s, t), s # <<>>
  PROVE  Begins(Front(s), t)
  <1>1. s \in Seq(CpByte) /\ t \in Seq(CpByte) /\ Len(s) \in Nat /\ Len(t) \in Nat /\ Len(s) # 0
    BY LenProperties, EmptySeq DEF Begins
  <1>2. PICK n \in Nat : n = Len(s) - 1
    BY <1>1
  <1>3. n \in 0 .. Len(s) /\ 1 <= n + 1 /\ n <= Len(s) /\ Front(s) = SubSeq(s, 1, n)
    BY <1>1, <1>2 DEF Front
  <1>4. SubSeq(s, 1, n) \in Seq(CpByte) /\ Len(SubSeq(s, 1, n)) = n /\ \A i \in 1 .. n : SubSeq(s, 1, n)[i] = s[i]
    <2>1. 1 \in Int /\ n \in Int /\ \A i \in 1 .. n : s[i] \in CpByte
      BY <1>1, <1>2, ElementOfSeq
    <2>2. /\ SubSeq(s, 1, n) \in Seq(CpByte)
          /\ Len(SubSeq(s, 1, n)) = IF 1 <= n THEN n - 1 + 1 ELSE 0
          /\ \A i \in 1 .. n - 1 + 1 : SubSeq(s, 1, n)[i] = s[1 + i - 1]
      BY ONLY <2>1, SubSeqProperties
    <2>3. \A i \in 1 .. n : i \in 1 .. n - 1 + 1 /\ 1 + i - 1 = i
      OBVIOUS
    <2>4. (IF 1 <= n THEN n - 1 + 1 ELSE 0) = n
      OBVIOUS
    <2>5. QED
      BY <2>2, <2>3, <2>4
  <1>5. \A i \in 1 .. n : i \in 1 .. Len(s)
    BY <1>1, <1>2
  <1>6. QED
    BY <1>1, <1>2, <1>3, <1>4, <1>5 DEF Begins

(* cat: unless it says that something failed, it has printed all the files *)
(* it is past, or was interrupted after a part of them.                    *)
CatParts == CatPrints(cpReq.files)
CatAt(f) == cpBuf = <<>> /\ cpOut = CatParts[f] /\ cpPos = Len(cpOut)
CatCut == cpSig /\ Begins(cpOut, CatParts[Len(cpReq.files)])

CatPlace ==
  /\ cpFile \in 1 .. Len(cpReq.files) + 1
  /\ cpPhase = "start" => CatCut \/ CatAt(cpFile - 1)
  /\ cpPhase \in {"read", "write"} =>
       cpFile <= Len(cpReq.files) /\ Copied(CatParts[cpFile - 1], Len(CatParts[cpFile - 1]), cpFile)
  /\ cpPhase = "close" => cpFile <= Len(cpReq.files) /\ (CatCut \/ CatAt(cpFile))
  /\ cpPhase = "done" =>
       Begins(cpOut, CatParts[Len(cpReq.files)]) /\ (cpSig \/ cpLost \/ cpOut = CatParts[Len(cpReq.files)])

CatInv == cpReq.tool = "cat" => (cpErr \/ CatPlace) /\ (cpExit = 0 => ~ cpErr)

(* The files of a request of cat.                                          *)
LEMMA CatFact ==
  ASSUME CpTool
  PROVE  /\ cpReq.files \in Seq(Int) /\ Len(cpReq.files) \in Nat /\ Printed(CatParts, cpReq.files)
         /\ \A f \in 0 .. Len(cpReq.files) : CatParts[f] \in Seq(CpByte) /\ Len(CatParts[f]) \in Nat
         /\ \A f \in 1 .. Len(cpReq.files) : cpReq.files[f] \in Int
  <1>1. cpReq.files \in Seq(Int)
    BY DEF CpTool, CpRequest
  <1>2. Printed(CatParts, cpReq.files)
    BY <1>1, PrintedFact DEF CatParts
  <1>3. \A f \in 0 .. Len(cpReq.files) : CatParts[f] \in Seq(CpByte)
    BY <1>2 DEF Printed
  <1>4. QED
    BY <1>1, <1>2, <1>3, LenProperties, ElementOfSeq

(* Every step of cat keeps that.                                           *)
LEMMA CatStep ==
  ASSUME CpCommon, CpCommon', CatInv, CpSteps, cpReq' = cpReq, cpReq.tool = "cat"
  PROVE  CatInv'
  <1>1. /\ cpReq.files \in Seq(Int) /\ Len(cpReq.files) \in Nat /\ Printed(CatParts, cpReq.files)
        /\ \A f \in 0 .. Len(cpReq.files) : CatParts[f] \in Seq(CpByte) /\ Len(CatParts[f]) \in Nat
        /\ \A f \in 1 .. Len(cpReq.files) : cpReq.files[f] \in Int
    BY CatFact DEF CpCommon
  <1>2. CatParts' = CatParts /\ Len(cpReq'.files) = Len(cpReq.files)
    BY DEF CatParts
  <1>3. cpErr \in BOOLEAN /\ cpErr' \in BOOLEAN /\ cpSig \in BOOLEAN /\ (cpPhase' # "done" => cpExit' = -1)
    BY DEF CpCommon
  <1>4. CASE CatOpens
    <2>1. cpPhase = "start" /\ UNCHANGED <<cpBuf, cpPos, cpSig>>
      BY <1>4 DEF CatOpens
    <2>2. CASE /\ ~ cpSig /\ cpFile <= Len(cpReq.files) /\ cpReq.files[cpFile] >= 0 /\ cpIn' = 0
               /\ cpPhase' = "read" /\ cpFile' = cpFile /\ cpErr' = cpErr /\ cpOut' = cpOut
      <3>1. CASE cpErr
        BY <2>2, <3>1, <1>3 DEF CatInv
      <3>2. CASE ~ cpErr
        <4>1. cpFile \in 1 .. Len(cpReq.files) + 1 /\ CatAt(cpFile - 1)
          BY <2>1, <2>2, <3>2 DEF CatInv, CatPlace, CatCut
        <4>2. cpFile \in 1 .. Len(cpReq.files) /\ cpFile \in Nat /\ cpFile - 1 \in 0 .. Len(cpReq.files)
          BY <4>1, <2>2, <1>1
        <4>3. PICK base \in Seq(CpByte), at \in Nat : base = CatParts[cpFile - 1] /\ at = Len(base)
          BY <4>2, <1>1
        <4>4. cpBuf' = <<>> /\ cpIn' = 0 /\ cpOut' = base /\ cpPos' = at
          BY <4>1, <4>3, <2>1, <2>2 DEF CatAt
        <4>5. cpReq.files[cpFile] \in Int /\ cpReq.files[cpFile] >= 0
          BY <4>2, <2>2, <1>1
        <4>6. PICK f \in Nat : f = cpFile
          BY <4>2
        <4>7. Copied(base, at, f)'
          BY ONLY <4>4, <4>5, <4>6, base \in Seq(CpByte), at \in Nat, f \in Nat, cpReq' = cpReq, CopyStartsFact
        <4>8. Copied(CatParts[cpFile - 1], Len(CatParts[cpFile - 1]), cpFile)'
          BY <4>3, <4>6, <4>7, <2>2, <1>2
        <4>9. CatPlace'
          BY <4>1, <4>8, <2>2, <1>2 DEF CatPlace
        <4>10. QED
          BY <4>9, <2>2, <1>3 DEF CatInv
      <3>3. QED
        BY <3>1, <3>2
    <2>3. CASE cpErr' = TRUE /\ cpPhase' = "start"
      BY <2>3, <1>3 DEF CatInv
    <2>4. CASE /\ cpSig \/ cpFile > Len(cpReq.files)
               /\ cpPhase' = "done" /\ cpExit' = (IF cpErr THEN 1 ELSE 0) /\ cpFile' = cpFile /\ cpErr' = cpErr
               /\ cpLost' \in BOOLEAN /\ (cpLost' => cpOut # <<>>) /\ cpOut' = IF cpLost' THEN Front(cpOut) ELSE cpOut
      <3>1. CASE cpErr
        BY <2>4, <3>1 DEF CatInv
      <3>2. CASE ~ cpErr
        <4>1. cpFile \in 1 .. Len(cpReq.files) + 1 /\ (CatCut \/ CatAt(cpFile - 1))
          BY <2>1, <3>2 DEF CatInv, CatPlace
        <4>2. cpFile - 1 \in 0 .. Len(cpReq.files)
          BY <4>1, <1>1
        <4>3. Begins(CatParts[cpFile - 1], CatParts[Len(cpReq.files)])
          BY ONLY <4>2, <1>1, PrintedBegins
        <4>4. Begins(cpOut, CatParts[Len(cpReq.files)])
          BY <4>1, <4>3 DEF CatCut, CatAt
        <4>5. Begins(cpOut', CatParts[Len(cpReq.files)])
          <5>1. CASE cpLost'
            BY <5>1, <4>4, <2>4, BeginsFront
          <5>2. CASE ~ cpLost'
            BY <5>2, <4>4, <2>4
          <5>3. QED
            BY <5>1, <5>2
        <4>6. cpSig \/ cpLost' \/ cpOut' = CatParts[Len(cpReq.files)]
          <5>1. CASE cpSig \/ cpLost'
            BY <5>1
          <5>2. CASE ~ cpSig /\ ~ cpLost'
            <6>1. cpFile - 1 = Len(cpReq.files) /\ CatAt(cpFile - 1)
              BY <5>2, <4>1, <2>4, <1>1 DEF CatCut
            <6>2. QED
              BY <6>1, <5>2, <2>4 DEF CatAt
          <5>3. QED
            BY <5>1, <5>2
        <4>7. CatPlace'
          BY <4>1, <4>5, <4>6, <2>1, <2>4, <1>2 DEF CatPlace
        <4>8. QED
          BY <4>7, <3>2, <2>4 DEF CatInv
      <3>3. QED
        BY <3>1, <3>2
    <2>5. QED
      <3>1. \/ /\ ~ cpSig /\ cpFile <= Len(cpReq.files) /\ cpReq.files[cpFile] >= 0 /\ cpIn' = 0
               /\ cpPhase' = "read" /\ cpFile' = cpFile /\ cpErr' = cpErr /\ cpOut' = cpOut
            \/ cpErr' = TRUE /\ cpPhase' = "start"
            \/ /\ cpSig \/ cpFile > Len(cpReq.files)
               /\ cpPhase' = "done" /\ cpExit' = (IF cpErr THEN 1 ELSE 0) /\ cpFile' = cpFile /\ cpErr' = cpErr /\ MayLose({"cat"})
        BY <1>4, <2>1 DEF CatOpens, CpExits
      <3>2. MayLose({"cat"}) => cpLost' \in BOOLEAN /\ (cpLost' => cpOut # <<>>) /\ cpOut' = IF cpLost' THEN Front(cpOut) ELSE cpOut
        BY DEF MayLose
      <3>3. QED
        BY <3>1, <3>2, <2>2, <2>3, <2>4
  <1>5. CASE CpSignal \/ CpReads \/ CpWrites
    <2>1. cpPhase \in {"read", "write"}
      BY <1>5 DEF CpSignal, CpReads, CpWrites
    <2>2. CASE cpErr
      <3>1. cpErr' /\ cpPhase' # "done"
        BY <1>5, <2>2 DEF CpSignal, CpReads, CpWrites
      <3>2. QED
        BY <3>1, <1>3 DEF CatInv
    <2>3. CASE ~ cpErr
      <3>1. cpFile \in 1 .. Len(cpReq.files) + 1 /\ cpFile <= Len(cpReq.files)
            /\ Copied(CatParts[cpFile - 1], Len(CatParts[cpFile - 1]), cpFile)
        BY <2>1, <2>3 DEF CatInv, CatPlace
      <3>2. cpFile \in 1 .. Len(cpReq.files) /\ cpFile \in Nat /\ cpFile - 1 \in 0 .. Len(cpReq.files)
        BY <3>1, <1>1
      <3>3. PICK base \in Seq(CpByte), at \in Nat : base = CatParts[cpFile - 1] /\ at = Len(base)
        BY <3>2, <1>1
      <3>4. Copied(base, at, cpFile) /\ cpReq.files[cpFile] \in Int /\ cpReq.tool # "dd"
        BY <3>1, <3>2, <3>3, <1>1
      <3>5. Copied(base, at, cpFile)' /\ cpFile' = cpFile /\ cpPhase' \in {"read", "write"} /\ cpErr' = cpErr /\ cpExit' = cpExit
        BY ONLY <3>2, <3>4, <1>3, <1>5, base \in Seq(CpByte), at \in Nat, cpReq' = cpReq, CopyGoesOn
      <3>6. Copied(CatParts[cpFile - 1], Len(CatParts[cpFile - 1]), cpFile)'
        BY <3>3, <3>5, <1>2
      <3>7. CatPlace'
        BY <3>1, <3>5, <3>6, <1>2 DEF CatPlace
      <3>8. QED
        BY <3>5, <3>7, <1>3 DEF CatInv
    <2>4. QED
      BY <2>2, <2>3
  <1>6. CASE CpReadEnds
    <2>1. cpPhase = "read" /\ cpPhase' = "close" /\ UNCHANGED <<cpFile, cpBuf, cpOut, cpPos, cpSig>>
      BY <1>6 DEF CpReadEnds, cpPlace
    <2>2. CASE cpErr'
      BY <2>1, <2>2, <1>3 DEF CatInv
    <2>3. CASE ~ cpErr'
      <3>1. ~ cpErr /\ (CpLeft = 0 \/ cpSig)
        <4>1. ~ cpErr
          BY <1>6, <2>3 DEF CpReadEnds
        <4>2. CpLeft = 0 \/ cpSig
          BY <1>6, <2>3 DEF CpReadEnds, Stops, CpIs
        <4>3. QED
          BY <4>1, <4>2
      <3>2. cpFile \in 1 .. Len(cpReq.files) + 1 /\ cpFile <= Len(cpReq.files)
            /\ Copied(CatParts[cpFile - 1], Len(CatParts[cpFile - 1]), cpFile)
        BY <2>1, <3>1 DEF CatInv, CatPlace
      <3>3. cpFile \in 1 .. Len(cpReq.files) /\ cpFile \in Nat /\ cpFile - 1 \in 0 .. Len(cpReq.files)
        BY <3>2, <1>1
      <3>4. PICK base \in Seq(CpByte), at \in Nat : base = CatParts[cpFile - 1] /\ at = Len(base)
        BY <3>3, <1>1
      <3>5. Copied(base, at, cpFile) /\ cpReq.files[cpFile] \in Int
        BY <3>2, <3>3, <3>4, <1>1
      <3>6. /\ cpBuf = <<>>
            /\ \E k \in Nat : /\ k <= cpReq.files[cpFile] /\ cpIn = k /\ cpPos = at + k
                              /\ cpOut = Overwritten(base, at, CpBytes(cpFile, 0, k))
                              /\ CpLeft = 0 => k = cpReq.files[cpFile]
        BY ONLY <3>3, <3>5, <2>1, base \in Seq(CpByte), at \in Nat, CopyEnds
      <3>7. PICK k \in Nat : /\ k <= cpReq.files[cpFile] /\ cpPos = at + k
                             /\ cpOut = Overwritten(base, at, CpBytes(cpFile, 0, k))
                             /\ CpLeft = 0 => k = cpReq.files[cpFile]
        BY <3>6
      <3>8. PICK f \in 1 .. Len(cpReq.files) : f = cpFile
        BY <3>3
      <3>9. f \in Nat
        BY <1>1
      <3>10. Overwritten(base, Len(base), CpBytes(f, 0, k)) = base \o CpBytes(f, 0, k)
        BY ONLY <3>9, base \in Seq(CpByte), k \in Nat, AppendFact
      <3>11. cpOut = base \o CpBytes(f, 0, k)
        BY <3>4, <3>7, <3>8, <3>10
      <3>12. /\ Begins(CatParts[f - 1] \o CpBytes(f, 0, k), CatParts[Len(cpReq.files)])
             /\ k = cpReq.files[f] => CatParts[f] = CatParts[f - 1] \o CpBytes(f, 0, k)
        <4>1. k <= cpReq.files[f]
          BY <3>7, <3>8
        <4>2. QED
          BY ONLY <4>1, <1>1, f \in 1 .. Len(cpReq.files), k \in Nat, PrefixFact
      <3>13. CASE cpSig
        <4>1. Begins(cpOut, CatParts[Len(cpReq.files)])
          BY <3>4, <3>8, <3>11, <3>12
        <4>2. CatCut'
          BY <4>1, <3>13, <2>1, <1>2 DEF CatCut
        <4>3. QED
          BY <4>2, <3>2, <2>1, <2>3, <1>2, <1>3 DEF CatInv, CatPlace
      <3>14. CASE CpLeft = 0
        <4>1. cpOut = CatParts[cpFile]
          BY <3>4, <3>7, <3>8, <3>11, <3>12, <3>14
        <4>2. cpPos = Len(cpOut)
          <5>1. PICK b : b = CpBytes(f, 0, k)
            OBVIOUS
          <5>2. b \in Seq(CpByte) /\ Len(b) = k
            <6>1. 0 \in Int
              OBVIOUS
            <6>2. QED
              BY ONLY <5>1, <6>1, <3>9, k \in Nat, BytesFact
          <5>3. Len(base \o b) = Len(base) + k
            BY ONLY <5>2, base \in Seq(CpByte), ConcatProperties
          <5>4. QED
            BY <5>1, <5>3, <3>4, <3>7, <3>11
        <4>3. CatAt(cpFile)'
          BY <4>1, <4>2, <3>6, <2>1, <1>2 DEF CatAt
        <4>4. QED
          BY <4>3, <3>2, <2>1, <2>3, <1>2, <1>3 DEF CatInv, CatPlace
      <3>15. QED
        BY <3>1, <3>13, <3>14
    <2>4. QED
      BY <2>2, <2>3
  <1>7. CASE CatDrops
    <2>1. cpErr' /\ cpPhase' = "read"
      BY <1>7 DEF CatDrops
    <2>2. QED
      BY <2>1, <1>3 DEF CatInv
  <1>8. CASE CatCloses
    <2>1. cpPhase = "close" /\ cpPhase' = "start" /\ cpFile' = cpFile + 1 /\ UNCHANGED <<cpBuf, cpOut, cpPos, cpSig, cpErr>>
      BY <1>8 DEF CatCloses, Closes, CpIs, MayLose
    <2>2. CASE cpErr
      BY <2>1, <2>2, <1>3 DEF CatInv
    <2>3. CASE ~ cpErr
      <3>1. cpFile \in 1 .. Len(cpReq.files) + 1 /\ cpFile <= Len(cpReq.files) /\ (CatCut \/ CatAt(cpFile))
        BY <2>1, <2>3 DEF CatInv, CatPlace
      <3>2. cpFile' \in 1 .. Len(cpReq.files) + 1 /\ cpFile' - 1 = cpFile
        BY <3>1, <2>1, <1>1
      <3>3. CatCut' \/ CatAt(cpFile - 1)'
        <4>1. CatCut => CatCut'
          BY <2>1, <1>2 DEF CatCut
        <4>2. CatAt(cpFile) => CatAt(cpFile - 1)'
          BY <2>1, <3>2, <1>2 DEF CatAt
        <4>3. QED
          BY <3>1, <4>1, <4>2
      <3>4. QED
        BY <3>2, <3>3, <2>1, <1>2, <1>3 DEF CatInv, CatPlace
    <2>4. QED
      BY <2>2, <2>3
  <1>9. CASE CpRefuses \/ DdOpens \/ DdSkips \/ DdSeeks \/ CpOpens \/ MvOpens \/ LogOpens \/ MvRenames \/ CpWriteFails
             \/ DdCloses \/ LogCloses \/ MvCloses \/ CpCloses \/ CpPreserves
    BY <1>9 DEF CpRefuses, DdOpens, DdSkips, DdSeeks, CpOpens, MvOpens, LogOpens, MvRenames, CpWriteFails, DdCloses, LogCloses,
                MvCloses, CpCloses, CpPreserves, Closes, CpIs, CpCommon
  <1>10. QED
    BY <1>4, <1>5, <1>6, <1>7, <1>8, <1>9 DEF CpSteps

(* What cat says is true.                                                  *)
LEMMA CatExactFact ==
  ASSUME CpCommon, CatInv, cpReq.tool = "cat"
  PROVE  ListIsExact
  <1>1. /\ cpReq.files \in Seq(Int) /\ Len(cpReq.files) \in Nat /\ Printed(CatParts, cpReq.files)
        /\ \A f \in 0 .. Len(cpReq.files) : CatParts[f] \in Seq(CpByte) /\ Len(CatParts[f]) \in Nat
        /\ \A f \in 1 .. Len(cpReq.files) : cpReq.files[f] \in Int
    BY CatFact DEF CpCommon
  <1>2. ASSUME NEW f \in 0 .. Len(cpReq.files)  PROVE Begins(CatParts[f], CatParts[Len(cpReq.files)])
    BY ONLY <1>1, f \in 0 .. Len(cpReq.files), PrintedBegins
  <1>3. cpPhase \in {"start", "read", "write", "close", "done"}
    BY DEF CpCommon
  <1>4. CASE cpErr
    BY <1>4 DEF CatInv, ListIsExact
  <1>5. CASE ~ cpErr
    <2>1. CatPlace
      BY <1>5 DEF CatInv
    <2>2. cpFile \in 1 .. Len(cpReq.files) + 1 /\ cpFile - 1 \in 0 .. Len(cpReq.files)
      BY <2>1, <1>1 DEF CatPlace
    <2>3. Begins(cpOut, CatParts[Len(cpReq.files)])
      <3>1. CASE cpPhase = "start"
        BY <2>1, <2>2, <3>1, <1>2 DEF CatPlace, CatCut, CatAt
      <3>2. CASE cpPhase \in {"read", "write"}
        <4>1. cpFile <= Len(cpReq.files) /\ Copied(CatParts[cpFile - 1], Len(CatParts[cpFile - 1]), cpFile)
          BY <2>1, <3>2 DEF CatPlace
        <4>2. PICK f \in 1 .. Len(cpReq.files) : f = cpFile
          BY <2>2, <4>1, <1>1
        <4>3. PICK k \in Nat, m \in Nat :
                Core(CatParts[f - 1], Len(CatParts[f - 1]), f, 0, k, m) /\ k + m <= cpReq.files[f]
          BY <4>1, <4>2 DEF Copied
        <4>4. PICK base \in Seq(CpByte) : base = CatParts[f - 1]
          BY <4>2, <2>2, <1>1
        <4>5. f \in Nat /\ k <= cpReq.files[f]
          BY <4>3, <1>1
        <4>6. cpOut = Overwritten(base, Len(base), CpBytes(f, 0, k))
          BY <4>3, <4>4 DEF Core
        <4>7. Overwritten(base, Len(base), CpBytes(f, 0, k)) = base \o CpBytes(f, 0, k)
          BY ONLY <4>5, base \in Seq(CpByte), k \in Nat, AppendFact
        <4>8. Begins(CatParts[f - 1] \o CpBytes(f, 0, k), CatParts[Len(cpReq.files)])
          BY ONLY <4>5, <1>1, f \in 1 .. Len(cpReq.files), k \in Nat, PrefixFact
        <4>9. QED
          BY <4>4, <4>6, <4>7, <4>8
      <3>3. CASE cpPhase = "close"
        <4>1. cpFile \in 0 .. Len(cpReq.files)
          BY <2>1, <2>2, <3>3, <1>1 DEF CatPlace
        <4>2. QED
          BY <2>1, <3>3, <4>1, <1>2 DEF CatPlace, CatCut, CatAt
      <3>4. CASE cpPhase = "done"
        BY <2>1, <3>4 DEF CatPlace
      <3>5. QED
        BY <3>1, <3>2, <3>3, <3>4, <1>3
    <2>4. IsPrefix(cpOut, CatParts[Len(cpReq.files)])
      BY <2>3, BeginsPrefix
    <2>5. cpExit = 0 /\ ~ cpSig /\ ~ cpLost => cpOut = CatParts[Len(cpReq.files)]
      BY <2>1 DEF CpCommon, CatPlace
    <2>6. QED
      BY <2>4, <2>5 DEF ListIsExact, CatParts
  <1>6. QED
    BY <1>4, <1>5

CopyInv == CpCommon /\ DdInv /\ CpCopyInv /\ MvInv /\ LogInv /\ CatInv

(* It holds of a tool that has done nothing.                               *)
LEMMA CopyInitFact ==
  ASSUME CpInit
  PROVE  CopyInv
  <1>1. CpCommon
    <2>1. CpTool
      BY PshCopyAssumption DEF CpInit, CpTool
    <2>2. cpFile = 1 /\ cpPhase = "start" /\ cpErr = FALSE /\ cpSig = FALSE /\ cpFault = FALSE /\ cpThere = TRUE /\ cpExit = -1 /\ CpFresh
      BY DEF CpInit, CpFresh, OldBytes
    <2>3. cpErr \in BOOLEAN /\ cpSig \in BOOLEAN /\ cpFault \in BOOLEAN /\ cpThere \in BOOLEAN
      BY ONLY <2>2, Zenon
    <2>4. QED
      BY <2>1, <2>2, <2>3 DEF CpCommon
  <1>2. cpPhase = "start" /\ cpExit = -1 /\ cpThere /\ ~ cpErr /\ cpFile = 1
    BY DEF CpInit
  <1>3. DdInv /\ CpCopyInv /\ MvInv /\ LogInv
    BY <1>2 DEF DdInv, CpCopyInv, MvInv, LogInv, DdIsExact, CpIsExact, MvIsExact
  <1>4. CatInv
    <2> SUFFICES ASSUME cpReq.tool = "cat"  PROVE CatPlace
      BY <1>2 DEF CatInv
    <2>1. Len(cpReq.files) \in Nat /\ Printed(CatParts, cpReq.files)
      BY <1>1, CatFact DEF CpCommon
    <2>2. CatParts[0] = <<>>
      BY <2>1 DEF Printed
    <2>3. CpMost(cpReq.old, 0) = 0 /\ 0 \in Nat /\ 0 \in Int
      BY <1>1 DEF CpCommon, CpTool, CpRequest, CpMost
    <2>4. CpBytes(0, 0, 0) = <<>>
      BY ONLY <2>3, NoBytes
    <2>5. cpOut = <<>> /\ cpBuf = <<>> /\ cpPos = 0
      BY <2>3, <2>4 DEF CpInit
    <2>6. CatAt(cpFile - 1)
      BY <2>2, <2>5, <1>2, EmptySeq DEF CatAt
    <2>7. QED
      BY <2>1, <2>6, <1>2 DEF CatPlace
  <1>5. QED
    BY <1>1, <1>3, <1>4 DEF CopyInv

(* It says what each of them says.                                         *)
LEMMA CopyExactFact ==
  ASSUME CopyInv
  PROVE  CopyIsExact
  <1>1. cpReq.tool \in {"dd", "cp", "mv", "cat", "logread"}
    BY DEF CopyInv, CpCommon, CpTool, CpRequest
  <1>2. CASE cpReq.tool = "dd"
    <2>1. DdRefused \/ DdIsExact
      <3>1. CASE DdOk
        BY <1>2, <3>1 DEF CopyInv, DdInv
      <3>2. CASE ~ DdOk
        <4>1. getnumber(cpReq.bs) \in 1 .. INT_MAX => DdBs = getnumber(cpReq.bs)
          BY WrappedFact, PshCopyAssumption DEF DdBs
        <4>2. QED
          BY <3>2, <4>1 DEF DdOk, DdIsExact, DdFrom
      <3>3. QED
        BY <3>1, <3>2
    <2>2. QED
      BY <1>2, <2>1 DEF CopyIsExact, CpIs
  <1>3. CASE cpReq.tool = "cp"
    BY <1>3 DEF CopyInv, CpCopyInv, CopyIsExact, CpIs
  <1>4. CASE cpReq.tool = "mv"
    BY <1>4 DEF CopyInv, MvInv, CopyIsExact, CpIs
  <1>5. CASE cpReq.tool \in {"cat", "logread"}
    <2>1. ListIsExact
      BY <1>5, CatExactFact, LogExactFact DEF CopyInv
    <2>2. QED
      BY <1>5, <2>1 DEF CopyIsExact, CpIs
  <1>6. QED
    BY <1>1, <1>2, <1>3, <1>4, <1>5

(* Every step keeps it: only the tool at hand moves.                       *)
LEMMA CopyInvStep ==
  ASSUME CopyInv, CpNext
  PROVE  CopyInv'
  <1>1. CpCommon /\ DdInv /\ CpCopyInv /\ MvInv /\ LogInv /\ CatInv
    BY DEF CopyInv
  <1>2. CpCommon' /\ ((CpSteps /\ cpReq' = cpReq) \/ LogGrows)
    BY <1>1, CommonStep
  <1>3. CASE CpSteps /\ cpReq' = cpReq
    <2>1. DdInv'
      <3>1. CASE cpReq.tool = "dd"
        BY <3>1, <1>1, <1>2, <1>3, DdStep
      <3>2. CASE cpReq.tool # "dd"
        BY <3>2, <1>3 DEF DdInv
      <3>3. QED
        BY <3>1, <3>2
    <2>2. CpCopyInv'
      <3>1. CASE cpReq.tool = "cp"
        BY <3>1, <1>1, <1>2, <1>3, CpCopyStep
      <3>2. CASE cpReq.tool # "cp"
        BY <3>2, <1>3 DEF CpCopyInv
      <3>3. QED
        BY <3>1, <3>2
    <2>3. MvInv'
      <3>1. CASE cpReq.tool = "mv"
        BY <3>1, <1>1, <1>2, <1>3, MvStep
      <3>2. CASE cpReq.tool # "mv"
        BY <3>2, <1>3 DEF MvInv
      <3>3. QED
        BY <3>1, <3>2
    <2>4. LogInv'
      <3>1. CASE cpReq.tool = "logread"
        BY <3>1, <1>1, <1>2, <1>3, LogStep
      <3>2. CASE cpReq.tool # "logread"
        BY <3>2, <1>3 DEF LogInv
      <3>3. QED
        BY <3>1, <3>2
    <2>5. CatInv'
      <3>1. CASE cpReq.tool = "cat"
        BY <3>1, <1>1, <1>2, <1>3, CatStep
      <3>2. CASE cpReq.tool # "cat"
        BY <3>2, <1>3 DEF CatInv
      <3>3. QED
        BY <3>1, <3>2
    <2>6. QED
      BY <1>2, <2>1, <2>2, <2>3, <2>4, <2>5 DEF CopyInv
  <1>4. CASE LogGrows
    <2>1. cpReq'.tool = "logread"
      BY <1>1, <1>4, GrowsFact DEF CpCommon
    <2>2. DdInv' /\ CpCopyInv' /\ MvInv' /\ CatInv'
      BY <2>1 DEF DdInv, CpCopyInv, MvInv, CatInv
    <2>3. LogInv'
      BY <1>1, <1>2, <1>4, LogGrowsStep
    <2>4. QED
      BY <1>2, <2>2, <2>3 DEF CopyInv
  <1>5. QED
    BY <1>2, <1>3, <1>4

(* dd, cp, mv, cat and logread never report about their copy what is not   *)
(* so: for every command line, any lengths of the files and any buffer,    *)
(* and however reads and writes are short, fail or are interrupted.        *)
THEOREM CopiesAreExact == CpSpec => []CopyIsExact
  <1>1. CpInit => CopyInv
    BY CopyInitFact
  <1>2. CopyInv /\ [CpNext]_cpVars => CopyInv'
    <2>1. ASSUME CopyInv, UNCHANGED cpVars  PROVE CopyInv'
      <3>1. /\ cpReq' = cpReq /\ cpPhase' = cpPhase /\ cpFile' = cpFile /\ cpIn' = cpIn /\ cpSkip' = cpSkip /\ cpBuf' = cpBuf
            /\ cpOut' = cpOut /\ cpPos' = cpPos /\ cpTotal' = cpTotal /\ cpThere' = cpThere /\ cpAttr' = cpAttr
            /\ cpErr' = cpErr /\ cpSig' = cpSig /\ cpFault' = cpFault /\ cpLost' = cpLost /\ cpExit' = cpExit
        BY <2>1 DEF cpVars, cpPlace
      <3>2. CpCommon' = CpCommon /\ DdInv' = DdInv /\ CpCopyInv' = CpCopyInv /\ MvInv' = MvInv /\ LogInv' = LogInv /\ CatInv' = CatInv
        BY <3>1 DEF CpCommon, CpTool, CpFresh, OldBytes, DdInv, DdOk, DdRefused, DdFrom, DdAt, DdThere, DdWanted, DdBefore, DdCopies,
                    DdWritten, DdIsExact, DdBs, DdCount, inmax, Core, Copied, CpCopyInv, CpWhole, CpIsExact, MvInv, MvWhole, MvIsExact,
                    LogInv, LogShows, CatInv, CatPlace, CatAt, CatCut, CatParts
      <3>3. QED
        BY <2>1, <3>2 DEF CopyInv
    <2>2. QED
      BY <2>1, CopyInvStep
  <1>3. CopyInv => CopyIsExact
    BY CopyExactFact
  <1>4. QED
    BY <1>1, <1>2, <1>3, PTL DEF CpSpec

-----------------------------------------------------------------------------
(* ping, for every width of a byte and every request, whatever the network *)
(* does.                                                                   *)
(*                                                                         *)
(* The checksum: folding a sum twice gives its remainder for one less than *)
(* a word, except that it gives all ones where the remainder is 0.         *)

(* f adds the sequence s up.                                               *)
AddsUp(f, s) ==
  /\ f[0] = 0 /\ Total(s) = f[Len(s)]
  /\ \A i \in 0 .. Len(s) : f[i] \in Nat
  /\ \A i \in 1 .. Len(s) : f[i] = f[i - 1] + s[i]

(* The recursion in Total adds a sequence up.                              *)
LEMMA TotalFact ==
  ASSUME NEW s \in Seq(Nat)
  PROVE  \E f : AddsUp(f, s)
  <1> DEFINE n == Len(s)
             Is(f) == f = [i \in 0 .. n |-> IF i = 0 THEN 0 ELSE f[i - 1] + s[i]]
             sum == CHOOSE f : Is(f)
             g == [p \in (1 .. n) \X Nat |-> p[2] + s[p[1]]]
  <1>1. n \in Nat /\ \A i \in 1 .. n : s[i] \in Nat
    OBVIOUS
  <1>2. \A i \in 1 .. n : \A x \in Nat : g[<<i, x>>] = x + s[i]
    OBVIOUS
  <1> HIDE DEF n, g, Is, sum
  <1>3. PICK f \in [0 .. n -> Nat] : Recursive(f, g, n, 0)
    <2>1. StepsIn(g, n, Nat)
      <3>1. ASSUME NEW i \in 1 .. n, NEW x \in Nat  PROVE g[<<i, x>>] \in Nat
        <4>1. s[i] \in Nat
          BY <1>1
        <4>2. QED
          BY <1>2, <4>1
      <3>2. QED
        BY <3>1 DEF StepsIn
    <2>2. QED
      BY <1>1, <2>1, Recursion
  <1>4. ASSUME NEW i \in 1 .. n PROVE f[i] = f[i - 1] + s[i]
    <2>1. i - 1 \in 0 .. n
      BY <1>1
    <2>2. f[i - 1] \in Nat
      BY <1>3, <2>1
    <2>3. QED
      BY <1>2, <1>3, <2>2 DEF Recursive
  <1>5. Is(f)
    <2>1. f = [i \in 0 .. n |-> f[i]]
      BY <1>3
    <2>2. ASSUME NEW i \in 0 .. n
          PROVE  f[i] = IF i = 0 THEN 0 ELSE f[i - 1] + s[i]
      <3>1. CASE i = 0
        BY <3>1, <1>3 DEF Recursive
      <3>2. CASE i # 0
        <4>1. i \in 1 .. n
          BY <3>2, <1>1
        <4>2. QED
          BY <4>1, <3>2, <1>4
      <3>3. QED
        BY <3>1, <3>2
    <2>3. QED
      BY <2>1, <2>2 DEF Is
  <1>6. Is(sum)
    BY <1>5 DEF sum
  <1>7. Total(s) = sum[n]
    BY DEF Total, n, sum, Is
  <1>8. /\ sum[0] = 0
        /\ \A i \in 1 .. n : sum[i] = sum[i - 1] + s[i]
    <2>1. 0 \in 0 .. n /\ \A i \in 1 .. n : i \in 0 .. n /\ i # 0
      BY <1>1
    <2>2. \A i \in 0 .. n : sum[i] = IF i = 0 THEN 0 ELSE sum[i - 1] + s[i]
      BY <1>6 DEF Is
    <2>3. QED
      BY <2>1, <2>2
  <1> DEFINE U == {k \in Nat : k <= n => sum[k] \in Nat}
  <1>9. 0 \in U
    BY <1>8
  <1>10. ASSUME NEW k \in Nat, k \in U PROVE k + 1 \in U
    <2> SUFFICES ASSUME k + 1 <= n PROVE sum[k + 1] \in Nat
      OBVIOUS
    <2>1. k + 1 \in 1 .. n /\ (k + 1) - 1 = k /\ k <= n
      BY <1>1
    <2>2. sum[k + 1] = sum[k] + s[k + 1] /\ sum[k] \in Nat /\ s[k + 1] \in Nat
      BY <1>1, <1>8, <1>10, <2>1
    <2>3. QED
      BY <2>2
  <1> HIDE DEF U
  <1>11. Nat \subseteq U
    BY <1>9, <1>10, SetInduction
  <1>12. \A i \in 0 .. n : sum[i] \in Nat
    BY <1>1, <1>11 DEF U
  <1>13. AddsUp(sum, s)
    BY <1>7, <1>8, <1>12 DEF AddsUp, n
  <1>14. QED
    BY <1>13

(* A remainder is what is left of a number after a multiple.               *)
LEMMA ModFits ==
  ASSUME NEW M \in Nat \ {0}, NEW q \in Nat, NEW r \in 0 .. M - 1, NEW x \in Nat, x = q * M + r
  PROVE  x % M = r
  <1>1. q * M \in Nat /\ q * M <= x /\ x < q * M + M
    OBVIOUS
  <1>2. x \div M = q
    BY <1>1, DivFits
  <1>3. x = M * (x \div M) + (x % M) /\ x % M \in 0 .. M - 1
    OBVIOUS
  <1>4. x % M \in Int /\ M * q = q * M
    BY <1>3
  <1>5. QED
    BY <1>1, <1>2, <1>3, <1>4

(* What a byte and a word are.                                             *)
LEMMA WidthFact ==
  /\ PGBYTE \in Nat \ {0, 1} /\ PGWORD \in Nat /\ PGWORD >= 3 /\ PGWORD = PGBYTE * PGBYTE
  /\ PGID \in 1 .. PGWORD - 1
  <1>1. PGBYTE \in Nat \ {0, 1} /\ PGID \in 1 .. PGBYTE * PGBYTE - 1
    BY PshPingAssumption
  <1>2. PICK d \in Nat : PGBYTE = 2 + d
    <2>1. PGBYTE - 2 \in Nat /\ PGBYTE = 2 + (PGBYTE - 2)
      BY <1>1
    <2>2. QED
      BY <2>1
  <1>3. (2 + d) * (2 + d) = 4 + 4 * d + d * d /\ d * d \in Nat
    OBVIOUS
  <1>4. QED
    BY <1>1, <1>2, <1>3 DEF PGWORD

(* Folding twice.                                                          *)
LEMMA FoldFact ==
  ASSUME NEW S \in Nat \ {0}, S < PGWORD * PGWORD
  PROVE  /\ Folded(Folded(S)) \in 1 .. PGWORD - 1
         /\ S % (PGWORD - 1) = IF Folded(Folded(S)) = PGWORD - 1 THEN 0 ELSE Folded(Folded(S))
  <1>1. PICK W \in Nat : W = PGWORD /\ W >= 3
    BY WidthFact
  <1>2. PICK q \in Nat, r \in 0 .. W - 1 : q = S \div W /\ r = S % W /\ S = W * q + r
    BY <1>1
  <1>3. q < W
    <2> SUFFICES ASSUME W <= q PROVE FALSE
      OBVIOUS
    <2>1. PICK d \in Nat : q = W + d
      <3>1. q - W \in Nat /\ q = W + (q - W)
        OBVIOUS
      <3>2. QED
        BY <3>1
    <2>2. W * (W + d) = W * W + W * d /\ W * d \in Nat /\ W * W \in Nat
      OBVIOUS
    <2>3. S < W * W
      BY <1>1
    <2>4. QED
      BY <1>2, <2>1, <2>2, <2>3
  <1>4. PICK f \in Nat : f = q + r
    OBVIOUS
  <1>5. Folded(S) = f /\ f <= 2 * W - 2
    BY <1>1, <1>2, <1>3, <1>4 DEF Folded
  <1>6. f >= 1
    <2> SUFFICES ASSUME f = 0 PROVE FALSE
      OBVIOUS
    <2>1. q = 0 /\ r = 0
      BY <1>4
    <2>2. W * q = 0
      BY <2>1
    <2>3. QED
      BY <1>2, <2>1, <2>2
  <1>7. S = q * (W - 1) + f /\ q * (W - 1) \in Nat
    <2>1. W * q = q * (W - 1) + q /\ W - 1 \in Nat
      BY <1>1
    <2>2. q * (W - 1) \in Nat
      BY <2>1
    <2>3. QED
      BY <1>2, <1>4, <2>1, <2>2
  <1>8. \E c \in Nat, y \in 1 .. W - 1 : Folded(f) = y /\ S = c * (W - 1) + y
    <2>1. CASE f < W
      <3>1. 0 * W = 0 /\ 0 * W <= f /\ f < 0 * W + W /\ f \in 0 .. W - 1 /\ f = 0 * W + f
        BY <2>1
      <3>2. f \div W = 0 /\ f % W = f
        BY <1>1, <3>1, DivFits, ModFits
      <3>3. Folded(f) = f /\ f \in 1 .. W - 1
        BY <1>1, <1>6, <2>1, <3>2 DEF Folded
      <3>4. QED
        BY <1>7, <3>3
    <2>2. CASE ~ (f < W)
      <3>1. PICK e \in Nat : f = W + e /\ e <= W - 2
        <4>1. f - W \in Nat /\ f = W + (f - W) /\ f - W <= W - 2
          BY <1>5, <2>2
        <4>2. QED
          BY <4>1
      <3>2. 1 * W = W /\ 1 * W <= f /\ f < 1 * W + W /\ e \in 0 .. W - 1 /\ f = 1 * W + e
        BY <1>1, <3>1
      <3>3. f \div W = 1 /\ f % W = e
        BY <1>1, <3>2, DivFits, ModFits
      <3>4. Folded(f) = 1 + e /\ 1 + e \in 1 .. W - 1
        BY <1>1, <3>1, <3>3 DEF Folded
      <3>5. (q + 1) * (W - 1) = q * (W - 1) + (W - 1)
        BY <1>1
      <3>6. S = (q + 1) * (W - 1) + (1 + e) /\ q + 1 \in Nat
        BY <1>7, <3>1, <3>5
      <3>7. QED
        BY <3>4, <3>6
    <2>3. QED
      BY <2>1, <2>2
  <1>9. PICK c \in Nat, y \in 1 .. W - 1 : Folded(f) = y /\ S = c * (W - 1) + y
    BY <1>8
  <1>10. W - 1 \in Nat \ {0}
    BY <1>1
  <1>11. CASE y = W - 1
    <2>1. (c + 1) * (W - 1) = c * (W - 1) + (W - 1) /\ c * (W - 1) \in Nat
      BY <1>10
    <2>2. S = (c + 1) * (W - 1) + 0 /\ c + 1 \in Nat /\ 0 \in 0 .. (W - 1) - 1
      BY <1>9, <1>10, <1>11, <2>1
    <2>3. S % (W - 1) = 0
      BY <1>10, <2>2, ModFits
    <2>4. QED
      BY <1>1, <1>5, <1>9, <1>11, <2>3
  <1>12. CASE y # W - 1
    <2>1. y \in 0 .. (W - 1) - 1
      BY <1>10, <1>12
    <2>2. S % (W - 1) = y
      BY <1>9, <1>10, <2>1, ModFits
    <2>3. QED
      BY <1>1, <1>5, <1>9, <1>12, <2>2
  <1>13. QED
    BY <1>11, <1>12

(* A sum is no smaller than any of its parts, and no larger than all of    *)
(* them could be; one of them is known to be 0.                            *)
LEMMA TotalBounds ==
  ASSUME NEW s \in Seq(Nat), NEW m \in Nat, \A i \in 1 .. Len(s) : s[i] <= m, Len(s) >= 2, s[2] = 0,
         NEW j \in 1 .. Len(s)
  PROVE  Total(s) \in Nat /\ s[j] <= Total(s) /\ Total(s) <= (Len(s) - 1) * m
  <1>1. PICK n \in Nat : n = Len(s) /\ n >= 2
    OBVIOUS
  <1>2. PICK f : AddsUp(f, s)
    BY TotalFact
  <1>3. /\ f[0] = 0 /\ Total(s) = f[n]
        /\ \A i \in 0 .. n : f[i] \in Nat
        /\ \A i \in 1 .. n : f[i] = f[i - 1] + s[i]
    BY <1>1, <1>2 DEF AddsUp
  <1>4. \A i \in 1 .. n : s[i] \in Nat /\ s[i] <= m
    BY <1>1
  <1>5. f[1] <= m /\ f[2] <= m
    <2>1. 1 \in 1 .. n /\ 2 \in 1 .. n /\ 1 - 1 = 0 /\ 2 - 1 = 1 /\ 1 \in 0 .. n
      BY <1>1
    <2>2. f[1] = 0 + s[1] /\ f[2] = f[1] + 0 /\ f[1] \in Nat /\ s[1] \in Nat /\ s[1] <= m
      BY <1>3, <1>4, <2>1
    <2>3. QED
      BY <2>2
  <1> DEFINE U == {k \in Nat : k + 2 <= n => f[k + 2] <= (k + 1) * m}
             V == {k \in Nat : j + k <= n => s[j] <= f[j + k]}
  <1>6. 0 \in U
    BY <1>5
  <1>7. ASSUME NEW k \in Nat, k \in U  PROVE k + 1 \in U
    <2> SUFFICES ASSUME (k + 1) + 2 <= n PROVE f[(k + 1) + 2] <= ((k + 1) + 1) * m
      OBVIOUS
    <2>1. PICK i \in 1 .. n : i = (k + 1) + 2 /\ i - 1 = k + 2 /\ i - 1 \in 0 .. n
      BY <1>1
    <2>2. f[i] = f[i - 1] + s[i] /\ f[i - 1] \in Nat /\ s[i] \in Nat /\ s[i] <= m
      BY <1>3, <1>4, <2>1
    <2>3. f[i - 1] <= (k + 1) * m
      BY <1>7, <2>1
    <2>4. ((k + 1) + 1) * m = (k + 1) * m + m /\ (k + 1) * m \in Nat
      OBVIOUS
    <2>5. PICK x \in Nat, y \in Nat, z \in Nat : x = f[i - 1] /\ y = s[i] /\ z = (k + 1) * m
      BY <2>2, <2>4
    <2>6. f[i] = x + y /\ x <= z /\ y <= m
      BY <2>2, <2>3, <2>5
    <2>7. f[i] <= z + m
      BY ONLY <2>6, x \in Nat, y \in Nat, z \in Nat, m \in Nat
    <2>8. QED
      BY <2>1, <2>4, <2>5, <2>7
  <1>8. 0 \in V
    <2>1. j \in 1 .. n /\ j - 1 \in 0 .. n /\ j + 0 = j
      BY <1>1
    <2>2. f[j] = f[j - 1] + s[j] /\ f[j - 1] \in Nat /\ s[j] \in Nat
      BY <1>3, <1>4, <2>1
    <2>3. QED
      BY <2>1, <2>2
  <1>9. ASSUME NEW k \in Nat, k \in V  PROVE k + 1 \in V
    <2> SUFFICES ASSUME j + (k + 1) <= n PROVE s[j] <= f[j + (k + 1)]
      OBVIOUS
    <2>1. PICK i \in 1 .. n : i = j + (k + 1) /\ i - 1 = j + k /\ i - 1 \in 0 .. n
      BY <1>1
    <2>2. f[i] = f[i - 1] + s[i] /\ f[i - 1] \in Nat /\ s[i] \in Nat /\ s[j] \in Nat
      BY <1>1, <1>3, <1>4, <2>1
    <2>3. s[j] <= f[i - 1]
      BY <1>9, <2>1
    <2>4. s[j] <= f[i - 1] + s[i]
      BY ONLY <2>2, <2>3
    <2>5. QED
      BY <2>1, <2>2, <2>4
  <1> HIDE DEF U, V
  <1>10. Nat \subseteq U /\ Nat \subseteq V
    BY <1>6, <1>7, <1>8, <1>9, SetInduction
  <1>11. n - 2 \in Nat /\ n - j \in Nat /\ (n - 2) + 2 = n /\ (n - 2) + 1 = n - 1 /\ j + (n - j) = n /\ n \in 0 .. n
    BY <1>1
  <1>12. f[n] <= (n - 1) * m
    <2>1. n - 2 \in U /\ (n - 2) + 2 <= n
      BY <1>10, <1>11
    <2>2. f[(n - 2) + 2] <= ((n - 2) + 1) * m
      BY <2>1 DEF U
    <2>3. QED
      BY <1>11, <2>2
  <1>13. s[j] <= f[n]
    <2>1. n - j \in V /\ j + (n - j) <= n
      BY <1>10, <1>11
    <2>2. s[j] <= f[j + (n - j)]
      BY <2>1 DEF V
    <2>3. QED
      BY <1>11, <2>2
  <1>14. QED
    BY <1>1, <1>3, <1>11, <1>12, <1>13

PgPairs(data, h) == [k \in 1 .. h |-> data[2 * k - 1] * PGBYTE + data[2 * k]]
PgWeighed(data) == [i \in DOMAIN data |-> IF i % 2 = 1 THEN data[i] * PGBYTE ELSE data[i]]

(* The words of a message of even length add up to its bytes, each by its  *)
(* place in the word.                                                      *)
LEMMA WordsFact ==
  ASSUME NEW data \in Seq(0 .. PGBYTE - 1), NEW h \in Nat, Len(data) = 2 * h
  PROVE  /\ PgPairs(data, h) \in Seq(Nat) /\ Len(PgPairs(data, h)) = h
         /\ \A k \in 1 .. h : PgPairs(data, h)[k] \in 0 .. PGWORD - 1
         /\ Total(PgPairs(data, h)) = Total(PgWeighed(data))
  <1>1. PGBYTE \in Nat \ {0, 1} /\ PGWORD = PGBYTE * PGBYTE
    BY WidthFact
  <1>2. DOMAIN data = 1 .. 2 * h /\ \A i \in 1 .. 2 * h : data[i] \in 0 .. PGBYTE - 1
    BY LenProperties, ElementOfSeq
  <1>3. PICK s, w : s = PgPairs(data, h) /\ w = PgWeighed(data)
    OBVIOUS
  <1>4. /\ DOMAIN s = 1 .. h /\ s = [k \in 1 .. h |-> s[k]]
        /\ \A k \in 1 .. h : s[k] = data[2 * k - 1] * PGBYTE + data[2 * k]
    BY <1>3 DEF PgPairs
  <1>5. /\ DOMAIN w = 1 .. 2 * h /\ w = [i \in 1 .. 2 * h |-> w[i]]
        /\ \A i \in 1 .. 2 * h : w[i] = IF i % 2 = 1 THEN data[i] * PGBYTE ELSE data[i]
    BY <1>2, <1>3 DEF PgWeighed
  <1>6. ASSUME NEW k \in 1 .. h
        PROVE  /\ 2 * k - 1 \in 1 .. 2 * h /\ 2 * k \in 1 .. 2 * h
               /\ (2 * k - 1) % 2 = 1 /\ (2 * k) % 2 = 0
               /\ s[k] \in 0 .. PGWORD - 1
    <2>1. 2 * k - 1 \in 1 .. 2 * h /\ 2 * k \in 1 .. 2 * h /\ (2 * k - 1) % 2 = 1 /\ (2 * k) % 2 = 0
      OBVIOUS
    <2>2. PICK a \in 0 .. PGBYTE - 1, b \in 0 .. PGBYTE - 1 : a = data[2 * k - 1] /\ b = data[2 * k]
      BY <1>2, <2>1
    <2>3. PICK d \in Nat : PGBYTE = a + 1 + d
      <3>1. PGBYTE - 1 - a \in Nat /\ PGBYTE = a + 1 + (PGBYTE - 1 - a)
        BY <1>1
      <3>2. QED
        BY <3>1
    <2>4. PICK B \in Nat : B = PGBYTE /\ B * B = PGWORD
      BY <1>1
    <2>5. (a + 1 + d) * B = a * B + B + d * B /\ d * B \in Nat /\ a * B \in Nat
      BY <1>1
    <2>6. a * B + b \in 0 .. PGWORD - 1
      <3>1. B * B = a * B + B + d * B
        BY <2>3, <2>4, <2>5
      <3>2. QED
        BY <2>4, <2>5, <3>1
    <2>7. QED
      BY <1>4, <2>1, <2>2, <2>4, <2>6
  <1>7. s \in Seq(Nat) /\ Len(s) = h
    <2>1. PGWORD \in Nat
      BY WidthFact
    <2>2. s \in [1 .. h -> Nat]
      <3>1. \A k \in 1 .. h : s[k] \in Nat
        BY <1>6, <2>1
      <3>2. QED
        BY <1>4, <3>1
    <2>3. s \in Seq(Nat)
      BY <2>2, SeqDef
    <2>4. QED
      BY <1>4, <2>3, LenProperties
  <1>8. w \in Seq(Nat) /\ Len(w) = 2 * h
    <2>1. \A i \in 1 .. 2 * h : w[i] \in Nat
      <3>1. ASSUME NEW i \in 1 .. 2 * h  PROVE w[i] \in Nat
        <4>1. data[i] \in Nat /\ data[i] * PGBYTE \in Nat
          BY <1>1, <1>2
        <4>2. QED
          BY <1>5, <4>1
      <3>2. QED
        BY <3>1
    <2>2. w \in [1 .. 2 * h -> Nat] /\ 2 * h \in Nat
      BY <1>5, <2>1
    <2>3. w \in Seq(Nat)
      BY <2>2, SeqDef
    <2>4. QED
      BY <1>5, <2>2, <2>3, LenProperties
  <1>9. PICK f, g : AddsUp(f, s) /\ AddsUp(g, w)
    BY <1>7, <1>8, TotalFact
  <1>10. /\ f[0] = 0 /\ Total(s) = f[h] /\ \A i \in 1 .. h : f[i] = f[i - 1] + s[i]
         /\ g[0] = 0 /\ Total(w) = g[2 * h] /\ \A i \in 1 .. 2 * h : g[i] = g[i - 1] + w[i]
         /\ \A i \in 0 .. 2 * h : g[i] \in Nat
    BY <1>7, <1>8, <1>9 DEF AddsUp
  <1> DEFINE U == {k \in Nat : k <= h => f[k] = g[2 * k]}
  <1>11. 0 \in U
    BY <1>10
  <1>12. ASSUME NEW k \in Nat, k \in U  PROVE k + 1 \in U
    <2> SUFFICES ASSUME k + 1 <= h PROVE f[k + 1] = g[2 * (k + 1)]
      OBVIOUS
    <2>1. PICK c \in 1 .. h : c = k + 1 /\ c - 1 = k /\ k <= h
      OBVIOUS
    <2>2. PICK x \in 1 .. 2 * h, y \in 1 .. 2 * h : x = 2 * c - 1 /\ y = 2 * c /\ x % 2 = 1 /\ y % 2 = 0
      BY <1>6
    <2>3. y - 1 = x /\ x - 1 = 2 * k /\ x - 1 \in 0 .. 2 * h
      BY <2>1, <2>2
    <2>4. g[y] = g[x - 1] + w[x] + w[y]
      <3>1. g[y] = g[y - 1] + w[y] /\ g[x] = g[x - 1] + w[x]
        BY <1>10
      <3>2. QED
        BY <2>3, <3>1
    <2>5. w[x] = data[x] * PGBYTE /\ w[y] = data[y]
      <3>1. w[x] = data[x] * PGBYTE
        BY <1>5, <2>2
      <3>2. y % 2 # 1
        BY <2>2
      <3>3. QED
        BY <1>5, <3>1, <3>2
    <2>6. s[c] = w[x] + w[y]
      BY <1>4, <2>2, <2>5
    <2>7. f[c] = f[c - 1] + s[c] /\ f[c - 1] = g[x - 1]
      <3>1. f[c] = f[c - 1] + s[c]
        BY <1>10
      <3>2. f[k] = g[2 * k]
        BY <1>12, <2>1
      <3>3. QED
        BY <2>1, <2>3, <3>1, <3>2
    <2>8. g[x - 1] \in Nat /\ w[x] \in Nat /\ w[y] \in Nat
      <3>1. g[x - 1] \in Nat
        BY <1>10, <2>3
      <3>2. \A i \in 1 .. 2 * h : w[i] \in Nat
        BY <1>8, ElementOfSeq
      <3>3. QED
        BY <3>1, <3>2
    <2>9. g[x - 1] + w[x] + w[y] = g[x - 1] + (w[x] + w[y])
      BY <2>8
    <2>10. QED
      BY <2>1, <2>2, <2>4, <2>6, <2>7, <2>9
  <1> HIDE DEF U
  <1>13. h \in U /\ h <= h
    BY <1>11, <1>12, SetInduction
  <1>14. Total(s) = Total(w)
    BY <1>10, <1>13 DEF U
  <1>15. QED
    BY <1>3, <1>6, <1>7, <1>14

PgByteSet == 0 .. PGBYTE - 1

(* The halves of a word are bytes.                                         *)
LEMMA HalvesFact ==
  ASSUME NEW w \in 0 .. PGWORD - 1
  PROVE  /\ Halves(w) \in Seq(PgByteSet) /\ Len(Halves(w)) = 2
         /\ Halves(w)[1] * PGBYTE + Halves(w)[2] = w
  <1>1. PGBYTE \in Nat \ {0, 1} /\ PGWORD = PGBYTE * PGBYTE /\ PGWORD \in Nat
    BY WidthFact
  <1>2. PICK B \in Nat \ {0} : B = PGBYTE /\ B * B = PGWORD
    BY <1>1
  <1>3. w \in Nat /\ w < B * B
    BY <1>1, <1>2
  <1>4. PICK q \in Nat, r \in 0 .. B - 1 : q = w \div B /\ r = w % B /\ w = B * q + r
    BY <1>3
  <1>5. q < B
    <2> SUFFICES ASSUME B <= q PROVE FALSE
      OBVIOUS
    <2>1. PICK d \in Nat : q = B + d
      <3>1. q - B \in Nat /\ q = B + (q - B)
        OBVIOUS
      <3>2. QED
        BY <3>1
    <2>2. B * (B + d) = B * B + B * d /\ B * d \in Nat /\ B * B \in Nat
      OBVIOUS
    <2>3. QED
      BY <1>3, <1>4, <2>1, <2>2
  <1>6. q \in PgByteSet /\ r \in PgByteSet /\ q * B = B * q
    BY <1>2, <1>5 DEF PgByteSet
  <1>7. Halves(w) = <<q, r>>
    BY <1>2, <1>4 DEF Halves
  <1>8. <<q, r>> \in Seq(PgByteSet) /\ Len(<<q, r>>) = 2 /\ <<q, r>>[1] = q /\ <<q, r>>[2] = r
    BY <1>6
  <1>9. q * B + r = w
    BY <1>4, <1>6
  <1>10. QED
    BY <1>2, <1>7, <1>8, <1>9

(* So is the payload.                                                      *)
LEMMA PayloadFact ==
  ASSUME NEW size \in Nat
  PROVE  Payload(size) \in Seq(PgByteSet) /\ Len(Payload(size)) = size
  <1>1. PGBYTE \in Nat \ {0, 1}
    BY WidthFact
  <1>2. \A i \in 1 .. size : (i - 1) % PGBYTE \in PgByteSet
    BY <1>1 DEF PgByteSet
  <1>3. Payload(size) \in [1 .. size -> PgByteSet] /\ DOMAIN Payload(size) = 1 .. size
    BY <1>2 DEF Payload
  <1>4. Payload(size) \in Seq(PgByteSet)
    BY <1>3, SeqDef
  <1>5. QED
    BY <1>3, <1>4, LenProperties

IsMessage(d, id, size) ==
  /\ d \in Seq(PgByteSet) /\ Len(d) = 8 + size
  /\ d[3] = 0 /\ d[4] = 0 /\ d[5] * PGBYTE + d[6] = id

(* A message: bytes, no checksum in its second word, the identifier in its *)
(* third.                                                                  *)
LEMMA MessageFact ==
  ASSUME NEW type \in {ICMP_ECHOREPLY, ICMP_ECHO}, NEW id \in 0 .. PGWORD - 1, NEW seq \in 0 .. PGWORD - 1, NEW size \in Nat
  PROVE  IsMessage(Message(type, id, seq, size), id, size)
  <1>1. PGBYTE \in Nat \ {0, 1}
    BY WidthFact
  <1>2. PICK a, b, c, p : a = <<type, 0, 0, 0>> /\ b = Halves(id) /\ c = Halves(seq) /\ p = Payload(size)
    OBVIOUS
  <1>3. a \in Seq(PgByteSet) /\ Len(a) = 4 /\ a[3] = 0 /\ a[4] = 0
    <2>1. type \in PgByteSet /\ 0 \in PgByteSet
      BY <1>1 DEF PgByteSet, ICMP_ECHOREPLY, ICMP_ECHO
    <2>2. QED
      BY <1>2, <2>1
  <1>4. b \in Seq(PgByteSet) /\ Len(b) = 2 /\ b[1] * PGBYTE + b[2] = id
    BY <1>2, HalvesFact
  <1>5. c \in Seq(PgByteSet) /\ Len(c) = 2
    BY <1>2, HalvesFact
  <1>6. p \in Seq(PgByteSet) /\ Len(p) = size
    BY <1>2, PayloadFact
  <1>7. PICK x : x = a \o b
    OBVIOUS
  <1>8. x \in Seq(PgByteSet) /\ Len(x) = 6 /\ x[3] = 0 /\ x[4] = 0 /\ x[5] = b[1] /\ x[6] = b[2]
    <2>1. /\ x \in Seq(PgByteSet) /\ Len(x) = Len(a) + Len(b)
          /\ \A i \in 1 .. Len(a) + Len(b) : x[i] = IF i <= Len(a) THEN a[i] ELSE b[i - Len(a)]
      BY ONLY <1>3, <1>4, <1>7, ConcatProperties
    <2>2. Len(x) = 6 /\ \A i \in 1 .. 6 : x[i] = IF i <= 4 THEN a[i] ELSE b[i - 4]
      BY <1>3, <1>4, <2>1
    <2>3. x[3] = a[3] /\ x[4] = a[4] /\ x[5] = b[5 - 4] /\ x[6] = b[6 - 4]
      BY ONLY <2>2
    <2>4. 5 - 4 = 1 /\ 6 - 4 = 2
      OBVIOUS
    <2>5. QED
      BY <1>3, <2>1, <2>2, <2>3, <2>4
  <1>9. PICK y : y = x \o c
    OBVIOUS
  <1>10. y \in Seq(PgByteSet) /\ Len(y) = 8 /\ y[3] = 0 /\ y[4] = 0 /\ y[5] = b[1] /\ y[6] = b[2]
    <2>1. /\ y \in Seq(PgByteSet) /\ Len(y) = Len(x) + Len(c)
          /\ \A i \in 1 .. Len(x) + Len(c) : y[i] = IF i <= Len(x) THEN x[i] ELSE c[i - Len(x)]
      BY ONLY <1>5, <1>8, <1>9, ConcatProperties
    <2>2. Len(y) = 8 /\ \A i \in 1 .. 8 : y[i] = IF i <= 6 THEN x[i] ELSE c[i - 6]
      BY <1>5, <1>8, <2>1
    <2>3. y[3] = x[3] /\ y[4] = x[4] /\ y[5] = x[5] /\ y[6] = x[6]
      BY ONLY <2>2
    <2>4. QED
      BY <1>8, <2>1, <2>2, <2>3
  <1>11. PICK d : d = y \o p
    OBVIOUS
  <1>12. d \in Seq(PgByteSet) /\ Len(d) = 8 + size /\ d[3] = 0 /\ d[4] = 0 /\ d[5] = b[1] /\ d[6] = b[2]
    <2>1. /\ d \in Seq(PgByteSet) /\ Len(d) = Len(y) + Len(p)
          /\ \A i \in 1 .. Len(y) + Len(p) : d[i] = IF i <= Len(y) THEN y[i] ELSE p[i - Len(y)]
      BY ONLY <1>6, <1>10, <1>11, ConcatProperties
    <2>2. Len(d) = 8 + size /\ \A i \in 1 .. 8 + size : d[i] = IF i <= 8 THEN y[i] ELSE p[i - 8]
      BY <1>6, <1>10, <2>1
    <2>3. \A i \in 1 .. 8 : i \in 1 .. 8 + size /\ i <= 8
      OBVIOUS
    <2>4. QED
      BY <1>10, <2>1, <2>2, <2>3
  <1>13. Message(type, id, seq, size) = d
    BY <1>2, <1>7, <1>9, <1>11 DEF Message
  <1>14. IsMessage(d, id, size)
    BY <1>4, <1>12 DEF IsMessage
  <1>15. QED
    BY <1>13, <1>14

(* ping_chksum is right for a message of even length.                      *)
LEMMA ChksumIsRight ==
  ASSUME NEW type \in {ICMP_ECHOREPLY, ICMP_ECHO}, NEW seq \in 0 .. PGWORD - 1, NEW size \in Nat, size % 2 = 0,
         (size + 6) \div 2 <= PGWORD
  PROVE  LET d == Message(type, PGID, seq, size) IN ping_chksum(d, 0) = RightChksum(d)
  <1>1. PICK W \in Nat : W = PGWORD /\ W >= 3
    BY WidthFact
  <1>2. PGID \in 1 .. PGWORD - 1 /\ PGID \in 0 .. PGWORD - 1
    BY <1>1, WidthFact
  <1>3. PICK d \in Seq(PgByteSet) :
          /\ d = Message(type, PGID, seq, size) /\ Len(d) = 8 + size
          /\ d[3] = 0 /\ d[4] = 0 /\ d[5] * PGBYTE + d[6] = PGID
    <2>1. PICK d : d = Message(type, PGID, seq, size)
      OBVIOUS
    <2>2. IsMessage(d, PGID, size)
      BY <1>2, <2>1, MessageFact
    <2>3. QED
      BY <2>1, <2>2 DEF IsMessage
  <1>4. PICK e \in Nat : size = 2 * e
    <2>1. size = 2 * (size \div 2) + (size % 2) /\ size \div 2 \in Nat
      OBVIOUS
    <2>2. QED
      BY <2>1
  <1>5. PICK h \in Nat : h = 4 + e /\ Len(d) = 2 * h /\ h - 1 <= W
    <2>1. (2 * e + 6) \div 2 = e + 3
      OBVIOUS
    <2>2. QED
      BY <1>1, <1>3, <1>4, <2>1
  <1>6. PICK s : s = PgPairs(d, h)
    OBVIOUS
  <1>7. /\ s \in Seq(Nat) /\ Len(s) = h /\ \A k \in 1 .. h : s[k] \in 0 .. W - 1
        /\ Total(s) = Total(PgWeighed(d))
    BY <1>1, <1>3, <1>5, <1>6, WordsFact DEF PgByteSet
  <1>8. s[2] = 0 /\ s[3] = PGID
    <2>1. 2 \in 1 .. h /\ 3 \in 1 .. h /\ 2 * 2 - 1 = 3 /\ 2 * 2 = 4 /\ 2 * 3 - 1 = 5 /\ 2 * 3 = 6
      BY <1>5
    <2>2. s[2] = d[3] * PGBYTE + d[4] /\ s[3] = d[5] * PGBYTE + d[6]
      BY <1>6, <2>1 DEF PgPairs
    <2>3. 0 * PGBYTE + 0 = 0
      BY WidthFact
    <2>4. QED
      BY <1>3, <2>2, <2>3
  <1>9. PICK S \in Nat : S = Total(s) /\ PGID <= S /\ S <= (h - 1) * (W - 1)
    <2>1. W - 1 \in Nat /\ 3 \in 1 .. Len(s) /\ Len(s) >= 2 /\ \A i \in 1 .. Len(s) : s[i] <= W - 1
      BY <1>1, <1>5, <1>7
    <2>2. Total(s) \in Nat /\ s[3] <= Total(s) /\ Total(s) <= (Len(s) - 1) * (W - 1)
      BY <1>7, <1>8, <2>1, TotalBounds
    <2>3. QED
      BY <1>7, <1>8, <2>2
  <1>10. S \in Nat \ {0} /\ S < W * W
    <2>1. PICK c \in Nat : W = (h - 1) + c
      <3>1. W - (h - 1) \in Nat /\ W = (h - 1) + (W - (h - 1))
        BY <1>5
      <3>2. QED
        BY <3>1
    <2>2. h - 1 \in Nat /\ W - 1 \in Nat
      BY <1>1, <1>5
    <2>3. ((h - 1) + c) * (W - 1) = (h - 1) * (W - 1) + c * (W - 1) /\ c * (W - 1) \in Nat /\ (h - 1) * (W - 1) \in Nat
      BY <2>2
    <2>4. W * (W - 1) = W * W - W /\ W * W \in Nat
      OBVIOUS
    <2>5. W * (W - 1) = (h - 1) * (W - 1) + c * (W - 1)
      BY <2>1, <2>3
    <2>6. S < W * W
      BY <1>1, <1>9, <2>3, <2>4, <2>5
    <2>7. S # 0
      BY <1>1, <1>2, <1>9
    <2>8. QED
      BY <2>6, <2>7
  <1>11. PICK y \in 1 .. W - 1 : y = Folded(Folded(S)) /\ S % (W - 1) = IF y = W - 1 THEN 0 ELSE y
    BY <1>1, <1>10, FoldFact
  <1>12. y % W = y
    <2>1. y = 0 * W + y /\ y \in 0 .. W - 1 /\ y \in Nat /\ W \in Nat \ {0}
      BY <1>1
    <2>2. QED
      BY <2>1, ModFits
  <1>13. ping_chksum(d, 0) = W - 1 - y
    <2>1. (2 * h + 1) \div 2 = h /\ (2 * h) % 2 = 0
      OBVIOUS
    <2>2. \A k \in 1 .. h : 2 * k <= 2 * h
      OBVIOUS
    <2>3. [k \in 1 .. h |-> d[2 * k - 1] * PGBYTE + IF 2 * k <= 2 * h THEN d[2 * k] ELSE 0] = s
      BY <1>6, <2>2 DEF PgPairs
    <2>4. S + 0 = S
      OBVIOUS
    <2>5. ping_chksum(d, 0) =
            PGWORD - 1 - (Folded(Folded(
              Total([k \in 1 .. h |-> d[2 * k - 1] * PGBYTE + IF 2 * k <= 2 * h THEN d[2 * k] ELSE 0]) + 0)) % PGWORD)
      BY <1>5, <2>1 DEF ping_chksum
    <2>6. QED
      BY <1>1, <1>9, <1>11, <1>12, <2>3, <2>4, <2>5
  <1>14. RightChksum(d) = IF S % (W - 1) = 0 THEN 0 ELSE W - 1 - (S % (W - 1))
    BY <1>1, <1>7, <1>9 DEF RightChksum, PgWeighed
  <1>15. RightChksum(d) = W - 1 - y
    <2>1. CASE y = W - 1
      BY <1>11, <1>14, <2>1
    <2>2. CASE y # W - 1
      BY <1>11, <1>14, <2>2
    <2>3. QED
      BY <2>1, <2>2
  <1>16. QED
    BY <1>3, <1>13, <1>15

-----------------------------------------------------------------------------
(* The run.  Requests are numbered from 1 and one is answered before the   *)
(* next is sent; every packet there is has the number of a request in it.  *)
PgFields == {"type", "from", "id", "seq", "size", "short", "sum", "run", "n", "copy"}
PgNumbered(p) == DOMAIN p = PgFields /\ p.n \in Nat /\ p.seq = p.n % PGWORD

PgTrue(p, i) == p.type = ICMP_ECHOREPLY /\ p.from = "host" /\ p.n % PGWORD = i % PGWORD

PgShape ==
  /\ pgReq \in PgRequests /\ pgPhase \in {"start", "echo", "reply", "done"}
  /\ pgSeq \in Nat /\ pgCnt \in Nat
  /\ \E S : pgPrinted \in Seq(S)
  /\ \A p \in pgNet : PgNumbered(p)
  /\ pgPhase = "start" => pgPrinted = <<>>
  /\ pgPhase = "echo" => pgSeq = Len(pgPrinted) + 1 /\ Len(pgPrinted) + pgCnt = pgReq.cnt
  /\ pgPhase = "reply" => pgSeq = Len(pgPrinted) + 2 /\ Len(pgPrinted) + pgCnt = pgReq.cnt /\ pgCnt > 0
  /\ pgPhase # "done" => pgExit = -1 /\ ~ pgNoName
  /\ pgExit = 0 /\ ~ pgNoName => pgSig \/ Len(pgPrinted) = pgReq.cnt
  /\ pgNoName => pgPrinted = <<>> /\ (pgExit = 0 => ~ pgReq.v6)
  /\ \A i \in 1 .. Len(pgPrinted) : PgTrue(pgPrinted[i], i)

(* As long as nothing has failed, all packets but one are those of others; *)
(* the one is the last request or its answer, and neither is wrong.        *)
PgFair == pgReq.size % 2 = 0 /\ (pgReq.v6 \/ pgReq.cnt < PGWORD)
Foreign(p) == p.from = "host" /\ p.short = FALSE /\ NotOurs(p)
Current(p, n, size) ==
  /\ p.short = FALSE /\ p.id = PGID /\ p.n = n /\ p.size = size
  /\ (p.from = "us" /\ p.type = ICMP_ECHO) \/ (p.from = "host" /\ p.type = ICMP_ECHOREPLY)
  /\ p.sum = RightChksum(Message(p.type, PGID, p.seq, size))

PgQuiet ==
  pgClean /\ PgFair =>
    /\ pgExit # 1
    /\ \A p \in pgNet : Foreign(p) \/ (pgPhase = "reply" /\ Current(p, pgSeq - 1, pgReq.size))
    /\ \A p, q \in pgNet : Foreign(p) \/ Foreign(q) \/ p = q
    /\ pgReq.v6 /\ pgPhase = "echo" => pgSum \in {-1, ping_chksum(Payload(pgReq.size), 0)}
    /\ pgReq.v6 /\ pgPhase = "reply" => pgSum = ping_chksum(Payload(pgReq.size), 0)

PgInv == PgShape /\ PgQuiet

(* What a request may be.                                                  *)
LEMMA PgRequestsFact ==
  ASSUME NEW r \in PgRequests
  PROVE  r.v6 \in BOOLEAN /\ r.cnt \in Nat \ {0} /\ r.size \in Nat /\ (r.size + 6) \div 2 <= PGWORD
  BY PshPingAssumption DEF PGWORD

(* Appending to a sequence, of whatever.                                   *)
LEMMA AppendAny ==
  ASSUME NEW S, NEW s \in Seq(S), NEW x
  PROVE  /\ Append(s, x) \in Seq(S \cup {x}) /\ Len(s) \in Nat /\ Len(Append(s, x)) = Len(s) + 1
         /\ Append(s, x)[Len(s) + 1] = x /\ \A i \in 1 .. Len(s) : Append(s, x)[i] = s[i]
  <1>1. PICK n \in Nat : n = Len(s) /\ s \in [1 .. n -> S]
    BY LenProperties, SeqDef
  <1>2. s \in [1 .. n -> S \cup {x}]
    BY <1>1
  <1>3. s \in Seq(S \cup {x}) /\ x \in S \cup {x}
    BY <1>2, SeqDef
  <1>4. QED
    BY <1>1, <1>3, AppendProperties

(* A request, and what the network and the host make of packets, have the  *)
(* number of a request.                                                    *)
LEMMA PgRequestFact ==
  ASSUME pgSeq \in Nat, NEW c
  PROVE  LET p == PgRequest(c)
         IN  /\ PgNumbered(p) /\ p.type = ICMP_ECHO /\ p.from = "us" /\ p.id = PGID /\ p.seq = pgSeq % PGWORD
             /\ p.size = pgReq.size /\ p.short = FALSE /\ p.sum = c /\ p.n = pgSeq
  <1>1. PICK p : p = PgRequest(c)
    OBVIOUS
  <1>2. /\ DOMAIN p = PgFields /\ p.type = ICMP_ECHO /\ p.from = "us" /\ p.id = PGID /\ p.seq = pgSeq % PGWORD
        /\ p.size = pgReq.size /\ p.short = FALSE /\ p.sum = c /\ p.n = pgSeq
    BY <1>1 DEF PgRequest, PgFields
  <1>3. QED
    BY <1>1, <1>2 DEF PgNumbered

(* What is in the net after each of its steps is numbered.                 *)
LEMMA NetNumbered ==
  ASSUME PgShape, PgNext
  PROVE  \A p \in pgNet' : PgNumbered(p)
  <1>1. pgSeq \in Nat /\ \A p \in pgNet : PgNumbered(p)
    BY DEF PgShape
  <1>2. \A c : PgNumbered(PgRequest(c))
    BY <1>1, PgRequestFact
  <1>3. CASE PgEcho
    <2>1. PICK c : pgNet' = pgNet \cup {PgRequest(c)} \/ pgNet' = pgNet
      BY <1>3 DEF PgEcho
    <2>2. QED
      BY <1>1, <1>2, <2>1
  <1>4. CASE PgHost
    <2>1. PICK p \in pgNet : pgNet' \subseteq pgNet \cup {AnswerTo(p)}
      BY <1>4 DEF PgHost
    <2>2. PgNumbered(p)
      BY <1>1
    <2>3. PgNumbered(AnswerTo(p))
      BY <2>2 DEF PgNumbered, AnswerTo, PgFields
    <2>4. QED
      BY <1>1, <2>1, <2>3
  <1>5. CASE PgNetwork
    <2>1. PICK p \in pgNet :
            pgNet' \subseteq pgNet \cup {[p EXCEPT !.copy = 1], [p EXCEPT !.sum = (@ + 1) % PGWORD], [p EXCEPT !.from = "other"], [p EXCEPT !.short = TRUE]}
      BY <1>5 DEF PgNetwork
    <2>2. PgNumbered(p)
      BY <1>1
    <2>3. /\ PgNumbered([p EXCEPT !.copy = 1]) /\ PgNumbered([p EXCEPT !.sum = (@ + 1) % PGWORD])
          /\ PgNumbered([p EXCEPT !.from = "other"]) /\ PgNumbered([p EXCEPT !.short = TRUE])
      BY <2>2 DEF PgNumbered, PgFields
    <2>4. QED
      BY <1>1, <2>1, <2>3
  <1>6. CASE PgOthers
    <2>1. PICK r : r = PgRequest(0) /\ PgNumbered(r)
      BY <1>2
    <2>2. PgNumbered([r EXCEPT !.from = "host", !.id = (PGID + 1) % PGWORD, !.type = ICMP_ECHOREPLY]) /\ PgNumbered([r EXCEPT !.from = "host"])
      BY <2>1 DEF PgNumbered, PgFields
    <2>3. pgNet' \subseteq pgNet \cup {[r EXCEPT !.from = "host", !.id = (PGID + 1) % PGWORD, !.type = ICMP_ECHOREPLY], [r EXCEPT !.from = "host"]}
      BY <1>6, <2>1 DEF PgOthers
    <2>4. QED
      BY <1>1, <2>2, <2>3
  <1>7. CASE PgStart \/ PgLoopEnds \/ PgSkips \/ PgRefuses \/ PgAccepts \/ PgTimeout \/ PgSignal \/ PgAgain
    <2>1. pgNet' \subseteq pgNet
      BY <1>7 DEF PgStart, PgLoopEnds, PgSkips, PgRefuses, PgAccepts, PgTimeout, PgSignal, PgAgain
    <2>2. QED
      BY <1>1, <2>1
  <1>8. QED
    BY <1>3, <1>4, <1>5, <1>6, <1>7 DEF PgNext

(* The answer that is printed is to a request of the number of its line.   *)
LEMMA AcceptShape ==
  ASSUME PgShape, PgAccepts, \A p \in pgNet' : PgNumbered(p)
  PROVE  PgShape'
  <1>1. PICK p \in pgNet : \E b \in Behind(pgReq.size) :
          Arrived(p) /\ ~ Skipped(p) /\ ~ Refused(p, b) /\ pgPrinted' = Append(pgPrinted, p)
    BY DEF PgAccepts
  <1>2. /\ pgPhase = "reply" /\ pgCnt' = pgCnt - 1 /\ pgPhase' = "echo"
        /\ pgReq' = pgReq /\ pgSeq' = pgSeq /\ pgSig' = pgSig /\ pgExit' = pgExit /\ pgNoName' = pgNoName /\ ~ pgNoName
    BY <1>1 DEF PgAccepts, Arrived, PgShape
  <1>3. PICK W \in Nat : W = PGWORD /\ W >= 3
    BY WidthFact
  <1>4. /\ pgReq \in PgRequests /\ pgSeq = Len(pgPrinted) + 2 /\ Len(pgPrinted) + pgCnt = pgReq.cnt /\ pgCnt > 0
        /\ pgCnt \in Nat /\ pgSeq \in Nat /\ pgExit = -1 /\ PgNumbered(p)
        /\ \A i \in 1 .. Len(pgPrinted) : PgTrue(pgPrinted[i], i)
    BY <1>2 DEF PgShape
  <1>5. PICK S : pgPrinted \in Seq(S)
    BY DEF PgShape
  <1>6. PICK s : s = Append(pgPrinted, p)
    OBVIOUS
  <1>7. PICK l \in Nat : l = Len(pgPrinted)
    BY <1>5, LenProperties
  <1>8. s \in Seq(S \cup {p}) /\ Len(s) = l + 1 /\ s[l + 1] = p /\ \A i \in 1 .. l : s[i] = pgPrinted[i]
    BY <1>5, <1>6, <1>7, AppendAny
  <1>9. p.type = ICMP_ECHOREPLY /\ p.from = "host" /\ ~ OutOfSequence(p)
    BY <1>1 DEF Skipped, Refused, NotOurs
  <1>10. p.seq = p.n % W /\ p.n \in Nat /\ pgSeq - 1 = l + 1
    BY <1>3, <1>4, <1>7 DEF PgNumbered
  <1>11. p.n % W = (l + 1) % W
    <2>1. CASE pgReq.v6
      BY <1>3, <1>9, <1>10, <2>1 DEF OutOfSequence
    <2>2. CASE ~ pgReq.v6
      <3>1. p.n % W = l + 1
        BY <1>9, <1>10, <2>2 DEF OutOfSequence
      <3>2. l + 1 \in 0 .. W - 1 /\ l + 1 = 0 * W + (l + 1) /\ W \in Nat \ {0}
        BY <1>3, <1>10, <3>1
      <3>3. (l + 1) % W = l + 1
        BY <3>2, ModFits
      <3>4. QED
        BY <3>1, <3>3
    <2>3. QED
      BY <2>1, <2>2
  <1>12. \A i \in 1 .. l + 1 : PgTrue(s[i], i)
    <2>1. PgTrue(p, l + 1)
      BY <1>3, <1>9, <1>11 DEF PgTrue
    <2>2. ASSUME NEW i \in 1 .. l + 1  PROVE PgTrue(s[i], i)
      <3>1. i \in 1 .. l \/ i = l + 1
        OBVIOUS
      <3>2. QED
        BY <1>4, <1>7, <1>8, <2>1, <3>1
    <2>3. QED
      BY <2>2
  <1>13. pgCnt - 1 \in Nat /\ pgSeq = (l + 1) + 1 /\ (l + 1) + (pgCnt - 1) = pgReq.cnt
    BY <1>4, <1>7
  <1>14. pgPrinted' = s
    BY <1>1, <1>6
  <1>15. QED
    BY <1>2, <1>4, <1>8, <1>12, <1>13, <1>14 DEF PgShape

(* Every step keeps the numbers.                                           *)
LEMMA ShapeStep == PgShape /\ [PgNext]_pgVars => PgShape'
  <1> SUFFICES ASSUME PgShape, [PgNext]_pgVars PROVE PgShape'
    OBVIOUS
  <1>1. CASE UNCHANGED pgVars
    BY <1>1 DEF PgShape, pgVars
  <1>2. CASE PgNext
    <2>1. \A p \in pgNet' : PgNumbered(p)
      BY <1>2, NetNumbered
    <2>2. pgReq.cnt \in Nat \ {0}
      BY PgRequestsFact DEF PgShape
    <2>3. CASE PgAccepts
      BY <2>1, <2>3, AcceptShape
    <2>4. CASE PgStart
      <3>1. pgPrinted = <<>> /\ Len(<<>>) = 0 /\ pgExit = -1
        BY <2>4 DEF PgShape, PgStart
      <3>2. CASE pgPhase' = "echo" /\ UNCHANGED <<pgNoName, pgExit>>
        BY <2>1, <2>2, <2>4, <3>1, <3>2 DEF PgShape, PgStart
      <3>3. CASE pgPhase' = "done" /\ pgExit' = 1
        BY <2>1, <2>2, <2>4, <3>1, <3>3 DEF PgShape, PgStart
      <3>4. CASE pgPhase' = "done" /\ pgNoName' = TRUE /\ (pgExit' = 0 => ~ pgReq.v6)
        BY <2>1, <2>2, <2>4, <3>1, <3>4 DEF PgShape, PgStart
      <3>5. QED
        BY <2>4, <3>2, <3>3, <3>4 DEF PgStart, PgExits, LookupExit
    <2>5. CASE PgEcho
      <3>1. /\ pgPhase = "echo" /\ pgCnt > 0 /\ pgSeq' = pgSeq + 1 /\ pgReq' = pgReq /\ pgCnt' = pgCnt /\ pgPrinted' = pgPrinted /\ pgSig' = pgSig /\ pgNoName' = pgNoName
            /\ (pgPhase' = "reply" /\ pgExit' = pgExit) \/ (pgPhase' = "done" /\ pgExit' = 1)
        BY <2>5 DEF PgEcho, PgExits
      <3>2. pgSeq = Len(pgPrinted) + 1 /\ pgSeq \in Nat /\ Len(pgPrinted) \in Nat
        <4>1. PICK S : pgPrinted \in Seq(S)
          BY DEF PgShape
        <4>2. QED
          BY <3>1, <4>1, LenProperties DEF PgShape
      <3>3. pgSeq' = Len(pgPrinted) + 2 /\ pgSeq' \in Nat
        BY <3>1, <3>2
      <3>4. QED
        BY <2>1, <3>1, <3>3 DEF PgShape
    <2>6. CASE PgLoopEnds
      <3>1. /\ pgPhase = "echo" /\ (pgCnt = 0 \/ pgSig) /\ pgPhase' = "done" /\ pgExit' = 0
            /\ pgSeq' = pgSeq /\ pgReq' = pgReq /\ pgCnt' = pgCnt /\ pgPrinted' = pgPrinted /\ pgSig' = pgSig /\ pgNoName' = pgNoName
        BY <2>6 DEF PgLoopEnds, PgExits
      <3>2. Len(pgPrinted) \in Nat /\ Len(pgPrinted) + pgCnt = pgReq.cnt
        <4>1. PICK S : pgPrinted \in Seq(S)
          BY DEF PgShape
        <4>2. QED
          BY <3>1, <4>1, LenProperties DEF PgShape
      <3>3. pgSig \/ Len(pgPrinted) = pgReq.cnt
        BY <3>1, <3>2
      <3>4. QED
        BY <2>1, <3>1, <3>3 DEF PgShape
    <2>7. CASE PgAgain
      <3>1. pgPrinted' = <<>> /\ Len(<<>>) = 0 /\ <<>> \in Seq({})
        BY <2>7 DEF PgAgain
      <3>2. QED
        BY <2>1, <2>7, <3>1 DEF PgShape, PgAgain
    <2>8. CASE PgSkips \/ PgHost \/ PgNetwork \/ PgOthers
      BY <2>1, <2>8 DEF PgShape, PgSkips, PgHost, PgNetwork, PgOthers
    <2>9. CASE PgRefuses \/ PgTimeout
      BY <2>1, <2>9 DEF PgShape, PgRefuses, PgTimeout, PgExits
    <2>10. CASE PgSignal
      BY <2>1, <2>10 DEF PgShape, PgSignal
    <2>11. QED
      BY <1>2, <2>3, <2>4, <2>5, <2>6, <2>7, <2>8, <2>9, <2>10 DEF PgNext
  <1>3. QED
    BY <1>1, <1>2

(* Nothing that arrives is refused, as long as nothing has failed.         *)
LEMMA NothingRefused ==
  ASSUME PgInv, pgClean, PgFair, pgPhase = "reply", NEW p \in pgNet, p.from # "us", NEW b \in Behind(pgReq.size)
  PROVE  ~ Refused(p, b)
  <1>1. b = 0
    BY DEF Behind, PgFair
  <1>2. Foreign(p) \/ Current(p, pgSeq - 1, pgReq.size)
    BY DEF PgInv, PgQuiet
  <1>3. CASE Foreign(p)
    BY <1>3 DEF Foreign, Refused, Skipped
  <1>4. CASE Current(p, pgSeq - 1, pgReq.size)
    <2>1. /\ p.short = FALSE /\ p.id = PGID /\ p.n = pgSeq - 1 /\ p.size = pgReq.size /\ p.from = "host" /\ p.type = ICMP_ECHOREPLY
          /\ p.sum = RightChksum(Message(ICMP_ECHOREPLY, PGID, p.seq, pgReq.size))
      BY <1>4 DEF Current
    <2>2. /\ pgReq \in PgRequests /\ p.seq = p.n % PGWORD /\ p.n \in Nat /\ pgSeq = Len(pgPrinted) + 2
          /\ Len(pgPrinted) + pgCnt = pgReq.cnt /\ pgCnt > 0 /\ pgCnt \in Nat
      BY DEF PgInv, PgShape, PgNumbered
    <2>3. pgReq.v6 \in BOOLEAN /\ pgReq.cnt \in Nat /\ pgReq.size \in Nat /\ (pgReq.size + 6) \div 2 <= PGWORD
      BY <2>2, PgRequestsFact
    <2>4. Len(pgPrinted) \in Nat
      <3>1. PICK S : pgPrinted \in Seq(S)
        BY DEF PgInv, PgShape
      <3>2. QED
        BY <3>1, LenProperties
    <2>5. PICK W \in Nat : W = PGWORD /\ W >= 3
      BY WidthFact
    <2>6. ~ OutOfSequence(p)
      <3>1. CASE pgReq.v6
        BY <2>1, <2>2, <3>1 DEF OutOfSequence
      <3>2. CASE ~ pgReq.v6
        <4>1. pgReq.cnt < W
          BY <2>5, <3>2 DEF PgFair
        <4>2. p.n \in 0 .. W - 1 /\ p.n = 0 * W + p.n /\ W \in Nat \ {0}
          BY <2>1, <2>2, <2>3, <2>4, <2>5, <4>1
        <4>3. p.n % W = p.n
          BY <4>2, ModFits
        <4>4. p.seq = pgSeq - 1
          BY <2>1, <2>2, <2>5, <4>3
        <4>5. QED
          BY <3>2, <4>4 DEF OutOfSequence
      <3>3. QED
        BY <3>1, <3>2
    <2>7. ~ Damaged(p, b)
      <3>1. CASE pgReq.v6
        <4>1. pgSum = ping_chksum(Payload(pgReq.size), 0)
          BY <3>1 DEF PgInv, PgQuiet
        <4>2. QED
          BY <1>1, <2>1, <3>1, <4>1 DEF Damaged
      <3>2. CASE ~ pgReq.v6
        <4>1. p.seq \in 0 .. PGWORD - 1
          BY <2>2, <2>5
        <4>2. pgReq.size % 2 = 0 /\ ICMP_ECHOREPLY \in {ICMP_ECHOREPLY, ICMP_ECHO}
          BY DEF PgFair
        <4>3. ping_chksum(Message(ICMP_ECHOREPLY, PGID, p.seq, pgReq.size), 0) = RightChksum(Message(ICMP_ECHOREPLY, PGID, p.seq, pgReq.size))
          BY <2>3, <4>1, <4>2, ChksumIsRight
        <4>4. QED
          BY <1>1, <2>1, <3>2, <4>3 DEF Damaged
      <3>3. QED
        BY <3>1, <3>2
    <2>8. QED
      BY <2>1, <2>6, <2>7 DEF Refused, Skipped, NotOurs
  <1>5. QED
    BY <1>2, <1>3, <1>4

(* A request is sent while only packets of others are about.               *)
LEMMA EchoQuiet ==
  ASSUME PgInv, PgEcho, pgClean', pgClean, PgFair
  PROVE  PgQuiet'
  <1>1. pgReq \in PgRequests /\ pgSeq \in Nat /\ pgExit = -1 /\ pgPhase = "echo"
    BY DEF PgInv, PgShape, PgEcho
  <1>2. pgReq.v6 \in BOOLEAN /\ pgReq.size \in Nat /\ (pgReq.size + 6) \div 2 <= PGWORD /\ pgReq.size % 2 = 0
    BY <1>1, PgRequestsFact DEF PgFair
  <1>3. \A b \in Behind(pgReq.size) : b = 0
    BY <1>2 DEF Behind
  <1>4. PICK c : /\ c = IF pgReq.v6 THEN RightChksum(OwnMessage) ELSE ping_chksum(OwnMessage, 0)
                 /\ pgNet' = pgNet \cup {PgRequest(c)}
                 /\ pgSum' = IF pgReq.v6 /\ pgSum = -1 THEN ping_chksum(Payload(pgReq.size), 0) ELSE pgSum
                 /\ pgPhase' = "reply" /\ pgExit' = pgExit
    BY <1>3 DEF PgEcho
  <1>5. pgReq' = pgReq /\ pgSeq' = pgSeq + 1 /\ (pgSeq + 1) - 1 = pgSeq
    BY <1>1 DEF PgEcho
  <1>6. pgSeq % PGWORD \in 0 .. PGWORD - 1 /\ ICMP_ECHO \in {ICMP_ECHOREPLY, ICMP_ECHO}
    BY <1>1, WidthFact
  <1>7. c = RightChksum(Message(ICMP_ECHO, PGID, pgSeq % PGWORD, pgReq.size))
    <2>1. ping_chksum(Message(ICMP_ECHO, PGID, pgSeq % PGWORD, pgReq.size), 0) = RightChksum(Message(ICMP_ECHO, PGID, pgSeq % PGWORD, pgReq.size))
      BY <1>2, <1>6, ChksumIsRight
    <2>2. QED
      BY <1>4, <2>1 DEF OwnMessage
  <1>8. PICK r : r = PgRequest(c)
    OBVIOUS
  <1>9. Current(r, pgSeq, pgReq.size)
    <2>1. /\ r.type = ICMP_ECHO /\ r.from = "us" /\ r.id = PGID /\ r.seq = pgSeq % PGWORD
          /\ r.size = pgReq.size /\ r.short = FALSE /\ r.sum = c /\ r.n = pgSeq
      BY <1>1, <1>8, PgRequestFact
    <2>2. QED
      BY <1>7, <2>1 DEF Current
  <1>10. \A p \in pgNet : Foreign(p)
    BY <1>1 DEF PgInv, PgQuiet
  <1>11. /\ \A p \in pgNet' : Foreign(p) \/ (pgPhase' = "reply" /\ Current(p, pgSeq' - 1, pgReq'.size))
         /\ \A p, q \in pgNet' : Foreign(p) \/ Foreign(q) \/ p = q
    BY <1>4, <1>5, <1>8, <1>9, <1>10
  <1>12. pgReq.v6 => pgSum' = ping_chksum(Payload(pgReq.size), 0)
    <2>1. pgReq.v6 => pgSum \in {-1, ping_chksum(Payload(pgReq.size), 0)}
      BY <1>1 DEF PgInv, PgQuiet
    <2>2. QED
      BY <1>4, <2>1
  <1>13. QED
    BY <1>1, <1>4, <1>5, <1>11, <1>12 DEF PgQuiet

(* The host turns the request into its answer.                             *)
LEMMA HostQuiet ==
  ASSUME PgInv, PgHost, pgClean, PgFair
  PROVE  PgQuiet'
  <1>1. PICK p \in pgNet :
          /\ p.from = "us"
          /\ pgNet' = (pgNet \ {p}) \cup IF p.sum = RightChksum(Message(p.type, p.id, p.seq, p.size)) THEN {AnswerTo(p)} ELSE {}
    BY DEF PgHost
  <1>2. ~ Foreign(p)
    BY <1>1 DEF Foreign
  <1>3. pgPhase = "reply" /\ Current(p, pgSeq - 1, pgReq.size)
    BY <1>2 DEF PgInv, PgQuiet
  <1>4. \A q \in pgNet \ {p} : Foreign(q)
    BY <1>2 DEF PgInv, PgQuiet
  <1>5. PgNumbered(p)
    BY DEF PgInv, PgShape
  <1>6. Current(AnswerTo(p), pgSeq - 1, pgReq.size)
    <2>1. p.short = FALSE /\ p.id = PGID /\ p.n = pgSeq - 1 /\ p.size = pgReq.size
      BY <1>3 DEF Current
    <2>2. PICK a : a = AnswerTo(p)
      OBVIOUS
    <2>3. /\ a.type = ICMP_ECHOREPLY /\ a.from = "host" /\ a.sum = RightChksum(Message(ICMP_ECHOREPLY, p.id, p.seq, p.size))
          /\ a.short = p.short /\ a.id = p.id /\ a.n = p.n /\ a.size = p.size /\ a.seq = p.seq
      BY <1>5, <2>2 DEF AnswerTo, PgNumbered, PgFields
    <2>4. QED
      BY <2>1, <2>2, <2>3 DEF Current
  <1>7. /\ \A q \in pgNet' : Foreign(q) \/ Current(q, pgSeq - 1, pgReq.size)
        /\ \A q, r \in pgNet' : Foreign(q) \/ Foreign(r) \/ q = r
    BY <1>1, <1>4, <1>6
  <1>8. pgReq' = pgReq /\ pgPhase' = pgPhase /\ pgSeq' = pgSeq /\ pgSum' = pgSum /\ pgClean' = pgClean /\ pgExit' = pgExit
    BY DEF PgHost
  <1>9. pgExit # 1 /\ (pgReq.v6 => pgSum = ping_chksum(Payload(pgReq.size), 0))
    BY <1>3 DEF PgInv, PgQuiet
  <1>10. QED
    BY <1>3, <1>7, <1>8, <1>9 DEF PgQuiet

(* The packets of others are theirs.                                       *)
LEMMA OthersQuiet ==
  ASSUME PgInv, PgOthers, pgClean, PgFair
  PROVE  PgQuiet'
  <1>1. PICK r : r = PgRequest(0)
    OBVIOUS
  <1>2. PICK p \in {[r EXCEPT !.from = "host", !.id = (PGID + 1) % PGWORD, !.type = ICMP_ECHOREPLY], [r EXCEPT !.from = "host"]} :
          pgNet' = pgNet \cup {p}
    BY <1>1 DEF PgOthers
  <1>3. pgSeq \in Nat
    BY DEF PgInv, PgShape
  <1>4. PgNumbered(r) /\ r.type = ICMP_ECHO /\ r.short = FALSE
    BY <1>1, <1>3, PgRequestFact
  <1>5. (PGID + 1) % PGWORD # PGID
    <2>1. PICK W \in Nat, i \in Nat : W = PGWORD /\ W >= 3 /\ i = PGID /\ i \in 1 .. W - 1
      BY WidthFact
    <2>2. CASE i = W - 1
      <3>1. i + 1 = 1 * W + 0 /\ 0 \in 0 .. W - 1 /\ W \in Nat \ {0}
        BY <2>1, <2>2
      <3>2. (i + 1) % W = 0
        BY <3>1, ModFits
      <3>3. QED
        BY <2>1, <3>2
    <2>3. CASE i # W - 1
      <3>1. i + 1 = 0 * W + (i + 1) /\ i + 1 \in 0 .. W - 1 /\ W \in Nat \ {0}
        BY <2>1, <2>3
      <3>2. (i + 1) % W = i + 1
        BY <3>1, ModFits
      <3>3. QED
        BY <2>1, <3>2
    <2>4. QED
      BY <2>2, <2>3
  <1>6. p.from = "host" /\ p.short = FALSE /\ (p.id = (PGID + 1) % PGWORD \/ p.type = ICMP_ECHO)
    BY <1>2, <1>4 DEF PgNumbered, PgFields
  <1>7. Foreign(p)
    BY <1>5, <1>6 DEF Foreign, NotOurs, ICMP_ECHO, ICMP_ECHOREPLY
  <1>8. pgReq' = pgReq /\ pgPhase' = pgPhase /\ pgSeq' = pgSeq /\ pgSum' = pgSum /\ pgClean' = pgClean /\ pgExit' = pgExit
    BY DEF PgOthers
  <1>9. PgQuiet
    BY DEF PgInv
  <1>10. QED
    BY <1>2, <1>7, <1>8, <1>9 DEF PgQuiet, PgFair

(* Every step of a ping to which nothing happened keeps it so.             *)
LEMMA PgQuietStep == PgInv /\ [PgNext]_pgVars => PgQuiet'
  <1> SUFFICES ASSUME PgInv, [PgNext]_pgVars, pgClean', PgFair'
               PROVE  PgQuiet'
    BY DEF PgQuiet
  <1>1. CASE UNCHANGED pgVars
    BY <1>1 DEF PgInv, PgQuiet, PgFair, pgVars
  <1>2. CASE PgNext
    <2>1. pgReq' = pgReq
      BY <1>2 DEF PgNext, PgStart, PgLoopEnds, PgEcho, PgSkips, PgRefuses, PgAccepts, PgTimeout, PgSignal, PgHost, PgNetwork, PgOthers, PgAgain
    <2>2. PgFair
      BY <2>1 DEF PgFair
    <2>3. pgClean
      BY <1>2 DEF PgNext, PgStart, PgLoopEnds, PgEcho, PgSkips, PgRefuses, PgAccepts, PgTimeout, PgSignal, PgHost, PgNetwork, PgOthers, PgAgain
    <2>4. PgShape /\ PgQuiet
      BY DEF PgInv
    <2>5. CASE PgEcho
      BY <2>2, <2>3, <2>5, EchoQuiet
    <2>6. CASE PgHost
      BY <2>2, <2>3, <2>6, HostQuiet
    <2>7. CASE PgOthers
      BY <2>2, <2>3, <2>7, OthersQuiet
    <2>8. CASE PgRefuses
      <3>1. PICK p \in pgNet : \E b \in Behind(pgReq.size) : Arrived(p) /\ Refused(p, b)
        BY <2>8 DEF PgRefuses
      <3>2. QED
        BY <2>2, <2>3, <3>1, NothingRefused DEF Arrived
    <2>9. CASE PgAccepts
      <3>1. PICK p \in pgNet : Arrived(p) /\ ~ Skipped(p) /\ pgNet' = pgNet \ {p} /\ \E b \in Behind(pgReq.size) : ~ Refused(p, b)
        BY <2>9 DEF PgAccepts
      <3>2. ~ Foreign(p)
        BY <3>1 DEF Foreign, Skipped
      <3>3. \A q \in pgNet' : Foreign(q)
        BY <2>2, <2>3, <2>4, <3>1, <3>2 DEF PgQuiet
      <3>4. /\ pgPhase = "reply" /\ pgPhase' = "echo" /\ pgSum' = pgSum /\ pgExit' = pgExit
        BY <2>9 DEF PgAccepts, Arrived
      <3>5. QED
        BY <2>1, <2>2, <2>3, <2>4, <3>3, <3>4 DEF PgQuiet
    <2>10. CASE PgSkips
      <3>1. pgNet' \subseteq pgNet /\ pgPhase' = pgPhase /\ pgSum' = pgSum /\ pgExit' = pgExit /\ pgSeq' = pgSeq
        BY <2>10 DEF PgSkips
      <3>2. QED
        BY <2>1, <2>2, <2>3, <2>4, <3>1 DEF PgQuiet
    <2>11. CASE PgStart
      <3>1. pgPhase = "start" /\ pgPhase' = "echo" /\ pgNet' = pgNet /\ pgExit' = pgExit /\ pgSum' = -1
        BY <2>11 DEF PgStart
      <3>2. \A q \in pgNet' : Foreign(q)
        BY <2>2, <2>3, <2>4, <3>1 DEF PgQuiet
      <3>3. QED
        BY <2>1, <2>2, <2>3, <2>4, <3>1, <3>2 DEF PgQuiet
    <2>12. CASE PgLoopEnds \/ PgAgain
      <3>1. pgPhase # "reply" /\ pgPhase' \in {"start", "done"} /\ pgNet' = pgNet /\ pgExit' \in {-1, 0}
        BY <2>12 DEF PgLoopEnds, PgAgain, PgExits
      <3>2. \A q \in pgNet' : Foreign(q)
        BY <2>2, <2>3, <2>4, <3>1 DEF PgQuiet
      <3>3. QED
        BY <3>1, <3>2 DEF PgQuiet
    <2>13. CASE PgSignal
      BY <2>1, <2>2, <2>3, <2>4, <2>13 DEF PgQuiet, PgSignal
    <2>14. CASE PgNetwork \/ PgTimeout
      BY <2>14 DEF PgNetwork, PgTimeout
    <2>15. QED
      BY <1>2, <2>5, <2>6, <2>7, <2>8, <2>9, <2>10, <2>11, <2>12, <2>13, <2>14 DEF PgNext
  <1>3. QED
    BY <1>1, <1>2

(* Whatever packets are lost, late, repeated, damaged or somebody else's,  *)
(* each line that ping prints is an answer of the host to the request of   *)
(* that number, success means an answer to each unless a version 4 ping    *)
(* did not find the host, and a ping to which nothing happened does not    *)
(* fail (ping_reply, ping_chksum, ping_resolveAddress).                    *)
THEOREM PingTells == PgSpec => []PingIsTrue
  <1>1. PgInit => PgInv
    <2> SUFFICES ASSUME PgInit PROVE PgInv
      OBVIOUS
    <2>1. <<>> \in Seq({}) /\ Len(<<>>) = 0
      OBVIOUS
    <2>2. PgShape
      BY <2>1 DEF PgInit, PgShape
    <2>3. PgQuiet
      BY DEF PgInit, PgQuiet
    <2>4. QED
      BY <2>2, <2>3 DEF PgInv
  <1>2. PgInv /\ [PgNext]_pgVars => PgInv'
    BY ShapeStep, PgQuietStep DEF PgInv
  <1>3. PgInv => PingIsTrue
    <2> SUFFICES ASSUME PgInv PROVE PingIsTrue
      OBVIOUS
    <2>1. PICK S : pgPrinted \in Seq(S)
      BY DEF PgInv, PgShape
    <2>2. DOMAIN pgPrinted = 1 .. Len(pgPrinted)
      BY <2>1, LenProperties
    <2>3. /\ pgExit = 0 /\ ~ pgNoName => pgSig \/ Len(pgPrinted) = pgReq.cnt
          /\ pgNoName => Len(pgPrinted) = 0 /\ (pgExit = 0 => ~ pgReq.v6)
          /\ \A i \in 1 .. Len(pgPrinted) : PgTrue(pgPrinted[i], i)
      BY DEF PgInv, PgShape
    <2>4. pgExit = 1 /\ PgFair => ~ pgClean
      BY DEF PgInv, PgQuiet
    <2>5. QED
      BY <2>2, <2>3, <2>4 DEF PingIsTrue, PgTrue, PgFair
  <1>4. QED
    BY <1>1, <1>2, <1>3, PTL DEF PgSpec
=============================================================================
