---------------------------- MODULE PshHistoryAbs ----------------------------
(***************************************************************************)
(* What the command history of the shell promises, with no ring and no     *)
(* buffers: the last Cap commands in the order they were given, a command  *)
(* repeated at once counted once, and the command that runs is the newest. *)
(***************************************************************************)
EXTENDS Integers, Sequences

CONSTANTS
  Cap,        \* how many commands are remembered
  Commands    \* what a line with at least one word can be

VARIABLES
  log,        \* the remembered commands, oldest first
  running     \* is a command running?

absVars == <<log, running>>

AbsInit == log = <<>> /\ running = FALSE

(* The log after the command c was given.                                  *)
Remember(c) ==
  IF log # <<>> /\ log[Len(log)] = c
  THEN log
  ELSE LET longer == Append(log, c)
       IN  IF Len(longer) > Cap THEN Tail(longer) ELSE longer

Give(c) ==
  /\ ~running
  /\ log' = Remember(c)
  /\ running' = TRUE

Finish ==
  /\ running
  /\ running' = FALSE
  /\ UNCHANGED log

(* "history -c" while it runs, and the end of the shell while nothing does.*)
Forget ==
  /\ log' = <<>>
  /\ running' = FALSE

AbsNext == (\E c \in Commands : Give(c)) \/ Finish \/ Forget

AbsSpec == AbsInit /\ [][AbsNext]_absVars
=============================================================================
