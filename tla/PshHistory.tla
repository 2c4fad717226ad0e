----------------------------- MODULE PshHistory -----------------------------
(***************************************************************************)
(* The command loop of the interactive shell (psh_run) and the ring in     *)
(* which it keeps the command history (psh_hist_t).                        *)
(*                                                                         *)
(* A command line lives in one heap buffer from the malloc in psh_readcmd  *)
(* to the moment the history forgets it.  The words of the running command *)
(* (argv) point into that same buffer, so who owns a buffer, and when it   *)
(* is freed, is what this module is about.  What the user types is left to *)
(* module PshLine; here psh_readcmd returns any line.                      *)
(***************************************************************************)
EXTENDS Integers, FiniteSets

CONSTANTS
  HISTSZ,   \* slots of the history ring
  Lines,    \* the command lines psh_readcmd can return
  Blank,    \* the lines that hold delimiters only
  Bufs,     \* heap blocks a command line can be given
  NULL      \* the null pointer

ASSUME HistAssumption ==
  /\ HISTSZ \in Nat /\ HISTSZ >= 2
  /\ Blank \subseteq Lines
  /\ NULL \notin Bufs
  /\ NULL \notin Lines

VARIABLES
  hb,       \* cmdhist->hb, the oldest command
  he,       \* cmdhist->he, one past the newest command
  cmd,      \* cmdhist->cmd[], the buffer of each slot
  text,     \* what that buffer holds, over its .n characters
  heap,     \* the blocks malloc has handed out and free has not taken back
  cur,      \* psh_run's cmd: the buffer of the line being read or run
  exit,     \* pshapp_common.exit
  pc        \* where psh_run is

histVars == <<hb, he, cmd, text, heap, cur, exit, pc>>

Slots == 0 .. HISTSZ - 1

(* The slot after and the slot before i, as the code computes them.        *)
Succ(i) == (i + 1) % HISTSZ
Prev(i) == IF i # 0 THEN i - 1 ELSE HISTSZ - 1

(* The slots from b up to, not including, e; the ones that hold a command. *)
Between(b, e) == {i \in Slots : IF b <= e THEN b <= i /\ i < e
                                          ELSE b <= i \/ i < e}

Ring == Between(hb, he)

HistorySize_noWrap == IF hb < he THEN he - hb ELSE HISTSZ - hb

(* How many entries "history" prints (it has no case for an empty ring).   *)
HistorySize == IF hb < he THEN he - hb ELSE HISTSZ - hb + he

(* calloc: a ring of zeroed entries.                                       *)
NoEntries == [i \in Slots |-> NULL]

Init ==
  /\ hb = 0 /\ he = 0
  /\ cmd = NoEntries /\ text = NoEntries
  /\ heap = {}
  /\ cur = NULL
  /\ exit = FALSE
  /\ pc = "loop"

-----------------------------------------------------------------------------
(* The loop test, and psh_readcmd allocating the line's buffer.            *)
ReadCmd ==
  /\ pc = "loop" /\ ~exit
  /\ \E b \in Bufs \ heap : cur' = b /\ heap' = heap \cup {b}
  /\ pc' = "read"
  /\ UNCHANGED <<hb, he, cmd, text, exit>>

(* psh_readcmd fails: no memory for the buffer.                            *)
ReadNoMem ==
  /\ pc = "loop" /\ ~exit
  /\ pc' = "end"
  /\ UNCHANGED <<hb, he, cmd, text, heap, cur, exit>>

(* psh_readcmd fails after the allocation (terminal settings, completion)  *)
(* or the user ends the session on an empty line: either way the buffer is *)
(* freed and the loop is left.                                             *)
ReadFails(quit) ==
  /\ pc = "read"
  /\ heap' = heap \ {cur}
  /\ cur' = NULL
  /\ exit' = (exit \/ quit)
  /\ pc' = "end"
  /\ UNCHANGED <<hb, he, cmd, text>>

(* psh_parsecmd refuses the line: one without words is dropped and the     *)
(* loop goes on, running out of memory for argv ends it.                   *)
ParseFails(line) ==
  /\ pc = "read"
  /\ heap' = heap \ {cur}
  /\ cur' = NULL
  /\ pc' = IF line \in Blank THEN "loop" ELSE "end"
  /\ UNCHANGED <<hb, he, cmd, text, exit>>

(* The line becomes the newest entry: over the entry before it when that   *)
(* one is the same command, else in the slot at he.  When the ring is then *)
(* full, the oldest entry is freed.                                        *)
SameAsLast_oldest(line) == he # hb /\ text[hb] = line

SameAsLast(line) == he # hb /\ text[Prev(he)] = line

PushSlot(line) == IF SameAsLast(line) THEN Prev(he) ELSE he

UpdateHistory_keepsOldest(line) ==
  /\ he' = Succ(PushSlot(line))
  /\ hb' = IF he' = hb THEN Succ(hb) ELSE hb
  /\ cmd' = [cmd EXCEPT ![PushSlot(line)] = cur]
  /\ text' = [text EXCEPT ![PushSlot(line)] = line]
  /\ heap' = heap \ (IF SameAsLast(line) THEN {cmd[PushSlot(line)]} ELSE {})

UpdateHistory_keepsFirstCopy(line) ==
  LET dup  == SameAsLast(line)
      next == Succ(he)
      full == ~dup /\ next = hb
      put  == IF dup THEN cmd ELSE [cmd EXCEPT ![he] = cur]
  IN  /\ he' = IF dup THEN he ELSE next
      /\ hb' = IF full THEN Succ(hb) ELSE hb
      /\ cmd' = IF full THEN [put EXCEPT ![hb] = NULL] ELSE put
      /\ text' = IF dup THEN text ELSE [text EXCEPT ![he] = line]
      /\ heap' = (heap \ (IF dup THEN {cur} ELSE {})) \ (IF full THEN {put[hb]} ELSE {})

UpdateHistory(line) ==
  LET slot == PushSlot(line)
      next == Succ(slot)
      full == next = hb
      old  == IF SameAsLast(line) THEN {cmd[slot]} ELSE {}
      put  == [cmd EXCEPT ![slot] = cur]
  IN  /\ he' = next
      /\ hb' = IF full THEN Succ(hb) ELSE hb
      /\ cmd' = IF full THEN [put EXCEPT ![hb] = NULL] ELSE put
      /\ text' = [text EXCEPT ![slot] = line]
      /\ heap' = (heap \ old) \ (IF full THEN {put[hb]} ELSE {})

AcceptCmd(line) ==
  /\ pc = "read"
  /\ line \notin Blank
  /\ UpdateHistory(line)
  /\ pc' = "run"
  /\ UNCHANGED <<cur, exit>>

(* The command runs to its end: an applet, a program, "Unknown command!",  *)
(* or a redirection that left nothing to run.  "exit" sets the flag.       *)
RunCmd(quit) ==
  /\ pc = "run"
  /\ exit' = (exit \/ quit)
  /\ cur' = NULL
  /\ pc' = "loop"
  /\ UNCHANGED <<hb, he, cmd, text, heap>>

(* "history -c" frees every entry, its own command line included.          *)
HistoryClear ==
  /\ pc = "run"
  /\ heap' = heap \ {cmd[i] : i \in Ring}
  /\ hb' = 0 /\ he' = 0
  /\ cur' = NULL
  /\ pc' = "loop"
  /\ UNCHANGED <<cmd, text, exit>>

(* The loop test fails: exit was asked for, or the terminal now belongs to *)
(* another process group.                                                  *)
LeaveLoop ==
  /\ pc = "loop"
  /\ pc' = "end"
  /\ UNCHANGED <<hb, he, cmd, text, heap, cur, exit>>

(* psh_run frees the history.  A login shell may then run again (main).    *)
FreeHistory ==
  /\ pc = "end"
  /\ heap' = heap \ {cmd[i] : i \in Ring}
  /\ hb' = he
  /\ pc' = "returned"
  /\ UNCHANGED <<he, cmd, text, cur, exit>>

RunAgain ==
  /\ pc = "returned"
  /\ hb' = 0 /\ he' = 0
  /\ cmd' = NoEntries /\ text' = NoEntries
  /\ exit' = FALSE
  /\ pc' = "loop"
  /\ UNCHANGED <<heap, cur>>

Next ==
  \/ ReadCmd
  \/ ReadNoMem
  \/ \E quit \in BOOLEAN : ReadFails(quit)
  \/ \E line \in Lines : ParseFails(line)
  \/ \E line \in Lines : AcceptCmd(line)
  \/ \E quit \in BOOLEAN : RunCmd(quit)
  \/ HistoryClear
  \/ LeaveLoop
  \/ FreeHistory
  \/ RunAgain

Spec == Init /\ [][Next]_histVars

-----------------------------------------------------------------------------
TypeOK ==
  /\ hb \in Slots /\ he \in Slots
  /\ cmd \in [Slots -> Bufs \cup {NULL}]
  /\ text \in [Slots -> Lines \cup {NULL}]
  /\ heap \subseteq Bufs
  /\ cur \in Bufs \cup {NULL}
  /\ exit \in BOOLEAN
  /\ pc \in {"loop", "read", "run", "end", "returned"}

(* The buffers the shell can still reach: the ring's, and the one the line *)
(* being read is in.                                                       *)
Owned == {cmd[i] : i \in Ring} \cup (IF pc = "read" THEN {cur} ELSE {})

(* Every command buffer is freed exactly when the shell forgets it: what   *)
(* is allocated is what the ring and the line being read refer to, so      *)
(* psh_run never leaks a line on an early return of its loop and never     *)
(* frees one twice (the duplicate, the full ring and "history -c" each     *)
(* free on their own).                                                     *)
NoLeakNoDangling == heap = Owned

(* No two references to one buffer: freeing an entry cannot take the line  *)
(* of another one with it.                                                 *)
OwnedOnce ==
  /\ \A i, j \in Ring : cmd[i] = cmd[j] => i = j
  /\ pc = "read" => \A i \in Ring : cmd[i] # cur

(* While a command runs, its argv points into live memory: neither         *)
(* replacing a duplicate nor making room in a full ring frees the line     *)
(* that is about to run, and that line is the newest entry.                *)
RunningLineIsLive ==
  pc = "run" => /\ cur \in heap
                /\ hb # he
                /\ cmd[Prev(he)] = cur

(* "history" computes the number of entries without a case for an empty    *)
(* ring; that is right because the command being run was pushed first: it  *)
(* prints the slots in use, all of them and no other.                      *)
HistoryPrintsRing ==
  pc = "run" => {(hb + i) % HISTSZ : i \in 0 .. HistorySize - 1} = Ring

(* The ring is the log of the last HISTSZ - 1 commands, oldest first: a    *)
(* push into a full ring forgets the oldest one and nothing else, a        *)
(* repeated command replaces itself, and no step reorders the others.      *)
LogSize == IF hb <= he THEN he - hb ELSE HISTSZ - hb + he

RingLog == [i \in 1 .. LogSize |-> text[(hb + i - 1) % HISTSZ]]

Abs == INSTANCE PshHistoryAbs WITH
         Cap <- HISTSZ - 1, Commands <- Lines \ Blank,
         log <- RingLog, running <- pc = "run"

(* psh_run's ring implements the log of module PshHistoryAbs.              *)
RingIsLog == Abs!AbsSpec
=============================================================================
