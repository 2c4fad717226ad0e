----------------------------- MODULE PshSession -----------------------------
(***************************************************************************)
(* A psh process from main to its exit: the login, the init script or the  *)
(* interactive shell, the terminal it takes and gives back, programs run   *)
(* in the foreground, the tty applet, and the environment.                 *)
(*                                                                         *)
(* A terminal has a controlling session and a foreground group; the kernel *)
(* and the terminal server behind tcsetpgrp, setsid and TIOCSCTTY are      *)
(* external.  Another session may take a terminal that is free.            *)
(***************************************************************************)
EXTENDS Integers, Sequences, FiniteSets

CONSTANTS
  PSH_RUNSCRIPT_RETRIES,  \* attempts to open a script, after the first
  SsScripts,              \* the lines a script may have
  SsCommands,             \* what may be typed at the prompt
  SsMaxCmds               \* bound: commands of a session

ASSUME PshSessionAssumption == PSH_RUNSCRIPT_RETRIES \in Nat

VARIABLES
  ssPhase,   \* where the process is
  ssTcpid,   \* psh_common.tcpid: the group in the foreground at the start, "none" for -1
  ssLogin,   \* it was started as pshlogin
  ssPath,    \* a script was given
  ssHist,    \* pshapp_common.cmdhist: the shell is interactive
  ssTty,     \* the terminal behind the standard streams, 0 for none
  ssCtl,     \* the session that controls each terminal
  ssFg,      \* its foreground group
  ssThere,   \* the script's file system is mounted
  ssTries,   \* attempts to open the script
  ssLines,   \* lines left of it
  ssRan,     \* history: something of the script has run
  ssErr,     \* err
  ssEnv,     \* names set in the environment
  ssCmds,    \* commands typed
  ssGap,     \* history: the terminal was taken by another session when tty let it go
  ssMoved,   \* history: psh inside the shell moved its streams
  ssEnd      \* how the last psh_run ended: "no", "refused", "done" or "lost"

ssTerm == <<ssTty, ssCtl, ssFg, ssGap, ssMoved>>
ssScr == <<ssThere, ssTries, ssLines, ssRan>>
ssStart == <<ssTcpid, ssLogin, ssPath>>
ssVars == <<ssPhase, ssStart, ssHist, ssTerm, ssScr, ssErr, ssEnv, ssCmds, ssEnd>>

Terminals == {1, 2}
Console == 1
NotOpened == "notopened"
Fine == "fine"

SsInit ==
  /\ ssPhase = "boot" /\ ssTcpid \in {"none", "shell", "parent"} /\ ssLogin \in BOOLEAN /\ ssPath \in BOOLEAN
  /\ ssHist = FALSE
  /\ ssTty = IF ssTcpid = "none" THEN 0 ELSE Console
  /\ ssCtl = [t \in Terminals |-> IF t = Console /\ ssTcpid # "none" THEN "parent" ELSE "none"]
  /\ ssFg = [t \in Terminals |-> IF t = Console THEN ssTcpid ELSE "none"]
  /\ ssThere \in BOOLEAN /\ ssTries = 0 /\ ssLines = <<>> /\ ssRan = FALSE
  /\ ssErr = Fine /\ ssEnv = {} /\ ssCmds = 0 /\ ssGap = FALSE /\ ssMoved = FALSE /\ ssEnd = "no"

-----------------------------------------------------------------------------
(* main: with the root file system there, pshlogin asks for a user first,  *)
(* again and again until auth is satisfied.                                *)
SsBoot ==
  /\ ssPhase = "boot" /\ ssPhase' = IF ssLogin THEN "auth" ELSE "app"
  /\ UNCHANGED <<ssStart, ssHist, ssTerm, ssScr, ssErr, ssEnv, ssCmds, ssEnd>>

(* psh_authcredentget: a line, or an interrupted read.                     *)
Credential == {"line", "interrupted"}

(* psh_ttyopen: the streams move once the device is open and a terminal.   *)
ttyopen(err) == ssTty' = IF err = Fine THEN Console ELSE ssTty

(* psh_auth opens the console, reads a name and a password, and compares.  *)
SsAuth ==
  /\ ssPhase = "auth"
  /\ \E user, password \in Credential, known \in BOOLEAN, opened \in {Fine, "enoent", "enotty"} :
       /\ ttyopen(opened)
       /\ ssPhase' = IF ssTty' # 0 /\ user = "line" /\ password = "line" /\ known THEN "app" ELSE "auth"
  /\ UNCHANGED <<ssStart, ssHist, ssCtl, ssFg, ssGap, ssMoved, ssScr, ssErr, ssEnv, ssCmds, ssEnd>>

(* psh_pshapp: PATH, HOME and TERM get a value if they have none; then the *)
(* script, or the interactive shell.                                       *)
SsApp ==
  /\ ssPhase = "app"
  /\ ssEnv' = ssEnv \cup {"PATH", "HOME", "TERM"}
  /\ ssPhase' = (IF ssPath THEN "open" ELSE "run") /\ ssTries' = 0 /\ ssErr' = Fine
  /\ ssLines' \in (IF ssPath THEN SsScripts ELSE {<<>>}) /\ ssRan' = FALSE
  /\ UNCHANGED <<ssStart, ssHist, ssTerm, ssThere, ssCmds, ssEnd>>

-----------------------------------------------------------------------------
(* The root file system is mounted by another process, at any time.        *)
SsMount ==
  /\ ~ ssThere /\ ssThere' = TRUE
  /\ UNCHANGED <<ssPhase, ssStart, ssHist, ssTerm, ssTries, ssLines, ssRan, ssErr, ssEnv, ssCmds, ssEnd>>

(* psh_runscript tries to open the script; its first line is the magic.    *)
SsOpen ==
  /\ ssPhase = "open"
  /\ \/ ssThere /\ ssPhase' = "script" /\ UNCHANGED <<ssTries, ssErr>>
     \/ ssThere /\ ssErr' = "magic" /\ ssPhase' = "scriptend" /\ UNCHANGED ssTries
     \/ ~ ssThere /\ ssTries < PSH_RUNSCRIPT_RETRIES /\ ssTries' = ssTries + 1 /\ UNCHANGED <<ssPhase, ssErr>>
     \/ ~ ssThere /\ ssTries = PSH_RUNSCRIPT_RETRIES /\ ssErr' = NotOpened /\ ssPhase' = "scriptend" /\ UNCHANGED ssTries
  /\ UNCHANGED <<ssStart, ssHist, ssTerm, ssThere, ssLines, ssRan, ssEnv, ssCmds, ssEnd>>

(* A keyword is taken for one if the line has a blank after as many        *)
(* characters, whatever they are, or starts with it.                       *)
IsScriptCmd(l) == l.word \in {"export", "unset"} \/ l.blank

(* psh_exportEnv and psh_unsetEnv; a name that is not an identifier is     *)
(* passed over.                                                            *)
Environment(l) ==
  CASE l.word = "export" /\ l.name # "" -> ssEnv \cup {l.name}
    [] l.word = "unset" -> ssEnv \ {l.name}
    [] OTHER -> ssEnv

(* A line of the script.  X starts a program, W waits for it, T opens a    *)
(* terminal: its own error code ends the script, like the others.          *)
SsLine ==
  /\ ssPhase = "script" /\ ssLines # <<>>
  /\ LET l == Head(ssLines) IN
     \/ /\ l.kind \in {"X", "W"} /\ ssRan' = TRUE /\ UNCHANGED <<ssTty, ssEnv>>
        /\ ssErr' \in {Fine, "vfork"} \cup IF l.kind = "W" THEN {"waitpid"} ELSE {}
     \/ /\ l.kind \in {"X", "W", "T"} \/ (l.kind = "cmd" /\ IsScriptCmd(l))
        /\ ssErr' = "parse" /\ UNCHANGED <<ssTty, ssEnv, ssRan>>
     \/ /\ l.kind = "T" /\ ssRan' = TRUE /\ UNCHANGED ssEnv
        /\ ssErr' \in {Fine, "enoent", "enotty"} /\ ttyopen(ssErr')
     \/ /\ l.kind = "cmd" /\ ssRan' = (ssRan \/ IsScriptCmd(l)) /\ UNCHANGED <<ssTty, ssErr>>
        /\ ssEnv' = IF IsScriptCmd(l) THEN Environment(l) ELSE ssEnv
     \/ /\ l.kind = "comment" /\ UNCHANGED <<ssRan, ssTty, ssErr, ssEnv>>
  /\ ssLines' = Tail(ssLines)
  /\ ssPhase' = IF ssErr' = Fine THEN "script" ELSE "scriptend"
  /\ ssMoved' = (ssMoved \/ (ssHist /\ ssTty' # ssTty))
  /\ UNCHANGED <<ssStart, ssHist, ssCtl, ssFg, ssGap, ssThere, ssTries, ssCmds, ssEnd>>

(* The end of the file.                                                    *)
SsLastLine ==
  /\ ssPhase = "script" /\ ssLines = <<>> /\ ssPhase' = "scriptend"
  /\ UNCHANGED <<ssStart, ssHist, ssTerm, ssScr, ssErr, ssEnv, ssCmds, ssEnd>>

FallsBack_enoent(err) == err \in {NotOpened, "enoent"}
FallsBack(err) == err = NotOpened

(* Only a script that was never opened leads to the interactive shell.     *)
SsScriptEnds ==
  /\ ssPhase = "scriptend"
  /\ ssPhase' = IF FallsBack(ssErr) THEN "run" ELSE IF ssHist THEN "prompt" ELSE "main"
  /\ UNCHANGED <<ssStart, ssHist, ssTerm, ssScr, ssErr, ssEnv, ssCmds, ssEnd>>

-----------------------------------------------------------------------------
(* psh_run.  The first shell opens the console (it gives up after some     *)
(* attempts); psh typed in an interactive shell is refused, after that.    *)
SsRun ==
  /\ ssPhase = "run"
  /\ \/ ssTcpid = "none" /\ ssTty' = Console /\ ssPhase' = (IF ssHist THEN "refused" ELSE "take") /\ UNCHANGED ssErr
     \/ ssTcpid = "none" /\ ssErr' = "tty" /\ UNCHANGED ssTty /\ ssPhase' = IF ssHist THEN "prompt" ELSE "main"
     \/ ssTcpid # "none" /\ ssPhase' = (IF ssHist THEN "refused" ELSE "take") /\ UNCHANGED <<ssTty, ssErr>>
  /\ ssEnd' = IF ssPhase' = "main" THEN "refused" ELSE ssEnd
  /\ ssMoved' = (ssMoved \/ (ssHist /\ ssTty' # ssTty))
  /\ UNCHANGED <<ssStart, ssHist, ssCtl, ssFg, ssGap, ssScr, ssEnv, ssCmds>>

SsRefused ==
  /\ ssPhase = "refused" /\ ssErr' = "eperm" /\ ssPhase' = "prompt"
  /\ UNCHANGED <<ssStart, ssHist, ssTerm, ssScr, ssEnv, ssCmds, ssEnd>>

(* The first shell makes a session and takes the terminal as its           *)
(* controlling one, if it is free; another one makes itself a group.       *)
(* Then it goes to the foreground.                                         *)
SsTake ==
  /\ ssPhase = "take"
  /\ \/ /\ ssTcpid = "none" => ssCtl[ssTty] \in {"none", "shell"}
        /\ ssCtl' = (IF ssTcpid = "none" THEN [ssCtl EXCEPT ![ssTty] = "shell"] ELSE ssCtl)
        /\ \/ ssFg' = [ssFg EXCEPT ![ssTty] = "shell"] /\ ssHist' = TRUE /\ ssPhase' = "prompt" /\ ssErr' = Fine
              /\ UNCHANGED ssEnd
           \/ ssFg' \in {ssFg, [ssFg EXCEPT ![ssTty] = "shell"]} /\ UNCHANGED ssHist /\ ssPhase' = "main" /\ ssErr' = "start"
              /\ ssEnd' = "refused"
     \/ ssPhase' = "main" /\ ssErr' = "start" /\ ssEnd' = "refused" /\ UNCHANGED <<ssCtl, ssFg, ssHist>>
  /\ UNCHANGED <<ssStart, ssTty, ssGap, ssMoved, ssScr, ssEnv, ssCmds>>

(* The prompt: the loop goes on while the shell is in the foreground.      *)
InFront == ssFg[ssTty] = "shell"
Types(c) == /\ ssPhase = "prompt" /\ InFront /\ ssCmds < SsMaxCmds /\ c \in SsCommands /\ ssCmds' = ssCmds + 1

(* psh_runfile: the program gets the terminal, unless it could not be      *)
(* started, and the shell takes it back when it has ended.                 *)
SsRunFile ==
  /\ Types("program")
  /\ \/ ssPhase' = "child" /\ ssFg' = [ssFg EXCEPT ![ssTty] = "child"] /\ UNCHANGED ssErr
     \/ ssErr' = "vfork" /\ UNCHANGED <<ssFg, ssPhase>>
  /\ UNCHANGED <<ssStart, ssHist, ssTty, ssCtl, ssGap, ssMoved, ssScr, ssEnv, ssEnd>>

(* psh_sysexec_checkcommand: allowed by the file or by the built-in list,  *)
(* or because there is neither.                                            *)
SysexecAllowed(file, list) == file = "match" \/ list = "match" \/ (file = "absent" /\ list = "absent")

(* psh_sysexec: a program of the syspage in the shell's own group; the     *)
(* shell waits for it or, with -d, for the process that started it.        *)
SsSysexec ==
  /\ Types("sysexec")
  /\ \/ ssPhase' = "child" /\ \E f, l \in {"match", "other", "absent"} : SysexecAllowed(f, l)
     \/ UNCHANGED ssPhase
  /\ UNCHANGED <<ssStart, ssHist, ssTerm, ssScr, ssErr, ssEnv, ssEnd>>

TakesBack == [ssFg EXCEPT ![ssTty] = "shell"]

SsChildEnds ==
  /\ ssPhase = "child" /\ ssPhase' = "prompt" /\ ssFg' = TakesBack
  /\ UNCHANGED <<ssStart, ssHist, ssTty, ssCtl, ssGap, ssMoved, ssScr, ssErr, ssEnv, ssCmds, ssEnd>>

(* psh typed at the prompt, with a script or without.                      *)
SsNested ==
  /\ Types("psh") /\ ssPhase' = "app"
  /\ ssPath' \in BOOLEAN
  /\ UNCHANGED <<ssTcpid, ssLogin, ssHist, ssTerm, ssScr, ssErr, ssEnv, ssEnd>>

SsEnvironment ==
  /\ \/ Types("export") /\ ssEnv' = ssEnv \cup {"A"}
     \/ Types("unset") /\ ssEnv' = ssEnv \ {"A"}
  /\ UNCHANGED <<ssPhase, ssStart, ssHist, ssTerm, ssScr, ssErr, ssEnd>>

(* The tty applet, in a session leader: everything that can be wrong with  *)
(* the new terminal is found out before the old one is released.           *)
SsTty ==
  /\ Types("tty")
  /\ \/ ssTcpid = "none" /\ ssPhase' = "switch" /\ ssCtl' = [ssCtl EXCEPT ![ssTty] = "none"]
        /\ ssFg' = [ssFg EXCEPT ![ssTty] = "none"]
     \/ UNCHANGED <<ssPhase, ssCtl, ssFg>>
  /\ UNCHANGED <<ssStart, ssHist, ssTty, ssGap, ssMoved, ssScr, ssErr, ssEnv, ssEnd>>

(* The new one is acquired, and the streams moved to it; if it cannot be,  *)
(* the old one is taken back, unless somebody was faster.                  *)
Reacquired(t) == ssCtl[t] = "none"
SsSwitch ==
  /\ ssPhase = "switch" /\ ssPhase' = "prompt"
  /\ LET new == 3 - ssTty IN
     \/ /\ ssCtl[new] = "none" /\ ssTty' = new
        /\ ssCtl' = [ssCtl EXCEPT ![new] = "shell"] /\ ssFg' = [ssFg EXCEPT ![new] = "shell"]
     \/ /\ Reacquired(ssTty) /\ UNCHANGED ssTty
        /\ ssCtl' = [ssCtl EXCEPT ![ssTty] = "shell"] /\ ssFg' = [ssFg EXCEPT ![ssTty] = "shell"]
     \/ ~ Reacquired(ssTty) /\ UNCHANGED <<ssTty, ssCtl, ssFg>>
  /\ UNCHANGED <<ssStart, ssHist, ssGap, ssMoved, ssScr, ssErr, ssEnv, ssCmds, ssEnd>>

(* Another session takes a terminal no session has.                        *)
SsOther ==
  /\ \E t \in Terminals :
       /\ ssCtl[t] = "none" /\ ssPhase \in {"switch", "prompt", "child"}
       /\ ssCtl' = [ssCtl EXCEPT ![t] = "other"] /\ ssFg' = [ssFg EXCEPT ![t] = "other"]
       /\ ssGap' = (ssGap \/ (ssPhase = "switch" /\ t = ssTty))
  /\ UNCHANGED <<ssPhase, ssStart, ssHist, ssTty, ssMoved, ssScr, ssErr, ssEnv, ssCmds, ssEnd>>

(* exit, or the terminal is gone: the history is freed and the terminal    *)
(* handed back to the group that had it.                                   *)
SsLeave ==
  /\ ssPhase = "prompt"
  /\ (InFront /\ ssEnd' = "done") \/ (~ InFront /\ ssEnd' = "lost")
  /\ ssHist' = FALSE /\ ssPhase' = "main"
  /\ ssFg' = IF ssTcpid # "none" THEN [ssFg EXCEPT ![ssTty] = ssTcpid] ELSE ssFg
  /\ UNCHANGED <<ssStart, ssTty, ssCtl, ssGap, ssMoved, ssScr, ssErr, ssEnv, ssCmds>>

(* main: pshlogin goes back to the login when it is the first shell.       *)
SsMain ==
  /\ ssPhase = "main"
  /\ ssPhase' = IF ssLogin /\ ssTcpid = "none" /\ ssCmds < SsMaxCmds THEN "auth" ELSE "exited"
  /\ UNCHANGED <<ssStart, ssHist, ssTerm, ssScr, ssErr, ssEnv, ssCmds, ssEnd>>

SsNext ==
  \/ SsBoot \/ SsAuth \/ SsApp \/ SsMount \/ SsOpen \/ SsLine \/ SsLastLine \/ SsScriptEnds \/ SsRun \/ SsRefused
  \/ SsTake \/ SsRunFile \/ SsSysexec \/ SsChildEnds \/ SsNested \/ SsEnvironment \/ SsTty \/ SsSwitch \/ SsOther \/ SsLeave \/ SsMain

SsSpec == SsInit /\ [][SsNext]_ssVars

-----------------------------------------------------------------------------
(* A script that has run anything never leads to a second shell on its     *)
(* console (psh_pshapp: "may already have spawned a shell of its own"); a  *)
(* shell loses its terminal only when another session took it in the gap   *)
(* of a switch or when psh typed inside it moved its streams; and one that *)
(* was not first leaves the foreground as it found it.                     *)
ShellAndTerminal ==
  /\ ssPhase \in {"run", "take"} /\ ssPath => ~ ssRan
  /\ ssEnd = "lost" => ssGap \/ ssMoved
  /\ ssPhase = "exited" /\ ssEnd = "done" /\ ssTcpid # "none" => ssFg[ssTty] = ssTcpid
=============================================================================
