------------------------------ MODULE PshRedir ------------------------------
(***************************************************************************)
(* Stream redirections of a command line: psh_parseRedirections takes them *)
(* out of argv and opens their files, psh_streamRedirect puts the files in *)
(* place of the standard streams, psh_streamRestore puts the streams back, *)
(* and psh_run does this for each command in the shell's own process.      *)
(*                                                                         *)
(* The model is the shell's descriptor table.  Descriptors are handed out  *)
(* lowest first, as POSIX says, and run out; open and dup2 may fail.  A    *)
(* word of the line is a record: "to" is the set of streams it redirects   *)
(* ({} for a plain word) and "bare" says that its path is the next word.   *)
(* Open flags (truncate, append, read) are left out.                       *)
(***************************************************************************)
EXTENDS Integers, Sequences, SequencesExt, FiniteSetsExt, Functions

CONSTANTS
  Lines,    \* argument vectors psh_parsecmd can return
  Unknown,  \* words that name no applet and no program
  NFD       \* descriptors a process can have

Streams == 0 .. 2
FDs == 0 .. NFD - 1
NONE == -1           \* no descriptor (redir fields)

tty == [name |-> "tty"]         \* the open terminal
closed == [name |-> "closed"]

LineWords == UNION {Range(l) : l \in Lines}

ASSUME RedirAssumption ==
  /\ NFD \in Nat /\ NFD > 3
  /\ Lines \subseteq Seq(LineWords)
  /\ \A w \in LineWords : w # closed /\ w.to \in {{}, {0}, {1}, {2}, {1, 2}}

VARIABLES
  fdt,      \* what each descriptor refers to
  red,      \* redir.red[], the files to put in place of the streams
  save,     \* redir.save[], the streams while they are replaced
  argv,
  i,        \* loop index of psh_parseRedirections, and of the stream loops
  err,
  pc,
  line,     \* history: argv before its redirections were eaten
  stuck     \* history: streams psh_streamRestore could not put back

vars == <<fdt, red, save, argv, i, err, pc, line, stuck>>

NoFds == [s \in Streams |-> NONE]

Open == {fd \in FDs : fdt[fd] # closed}

(* open, dup: the lowest free descriptor of table t, if there is one.      *)
Free(t) == {fd \in FDs : t[fd] = closed}
Put(t, file) == [t EXCEPT ![Min(Free(t))] = file]

Close(t, fds) == [fd \in FDs |-> IF fd \in fds THEN closed ELSE t[fd]]

Init ==
  /\ fdt = [fd \in FDs |-> IF fd \in Streams THEN tty ELSE closed]
  /\ red = NoFds /\ save = NoFds
  /\ argv = <<>> /\ line = <<>>
  /\ i = 0 /\ err = 0
  /\ pc = "prompt"
  /\ stuck = {}

-----------------------------------------------------------------------------
(* The next command was read and parsed.                                   *)
NextCmd ==
  /\ pc = "prompt"
  /\ \E l \in Lines : argv' = l /\ line' = l
  /\ red' = NoFds /\ save' = NoFds
  /\ i' = 1
  /\ pc' = "parse"
  /\ UNCHANGED <<fdt, err, stuck>>

(* The command is over: argv is freed.                                     *)
EndCmd ==
  /\ pc' = "prompt"
  /\ argv' = <<>> /\ line' = <<>>
  /\ i' = 0 /\ err' = 0

(* Closes what the fields hold, t being the table so far.                  *)
redirCleanup(t) ==
  /\ fdt' = Close(t, Range(red) \cup Range(save))
  /\ red' = NoFds /\ save' = NoFds

AtRedir == pc = "parse" /\ i <= Len(argv) /\ argv[i].to # {}

SkipWord ==
  /\ pc = "parse" /\ i <= Len(argv) /\ argv[i].to = {}
  /\ i' = i + 1
  /\ UNCHANGED <<fdt, red, save, argv, err, pc, line, stuck>>

(* "Syntax error": no path after the operator; or the file does not open.  *)
ParseFails ==
  /\ AtRedir
  /\ redirCleanup(fdt)
  /\ EndCmd
  /\ UNCHANGED stuck

(* The file of the redirection at i, and argv without the redirection.     *)
HasPath == argv[i].bare => i < Len(argv)
Path == IF argv[i].bare THEN argv[i + 1] ELSE argv[i]
Eaten_one == SubSeq(argv, 1, i - 1) \o SubSeq(argv, i + 1, Len(argv))
Eaten == SubSeq(argv, 1, i - 1) \o SubSeq(argv, i + 1 + (IF argv[i].bare THEN 1 ELSE 0), Len(argv))

(* A field that is set again has its earlier file closed.                  *)
OpenRedir ==
  /\ AtRedir /\ HasPath /\ Cardinality(argv[i].to) = 1
  /\ Free(fdt) # {}
  /\ \E s \in argv[i].to :
       /\ fdt' = Close(Put(fdt, Path), {red[s]})
       /\ red' = [red EXCEPT ![s] = Min(Free(fdt))]
  /\ argv' = Eaten
  /\ UNCHANGED <<save, i, err, pc, line, stuck>>

(* "&>": the file for stdout, a dup of it for stderr.                      *)
OpenBoth_sameFd ==
  /\ AtRedir /\ HasPath /\ Cardinality(argv[i].to) = 2
  /\ Free(fdt) # {}
  /\ fdt' = Close(Put(fdt, Path), {red[1], red[2]})
  /\ red' = [red EXCEPT ![1] = Min(Free(fdt)), ![2] = Min(Free(fdt))]
  /\ argv' = Eaten
  /\ UNCHANGED <<save, i, err, pc, line, stuck>>

OpenBoth ==
  /\ AtRedir /\ HasPath /\ Cardinality(argv[i].to) = 2
  /\ Free(fdt) # {}
  /\ LET fd == Min(Free(fdt))
         t  == Close(Put(fdt, Path), {red[1], red[2]})
     IN  IF Free(t) # {}
         THEN /\ fdt' = Put(t, Path)
              /\ red' = [red EXCEPT ![1] = fd, ![2] = Min(Free(t))]
              /\ argv' = Eaten
              /\ UNCHANGED <<save, i, err, pc, line>>
         ELSE /\ fdt' = Close(t, {fd, red[0]})     \* dup failed: clean up
              /\ red' = NoFds /\ save' = NoFds
              /\ EndCmd
  /\ UNCHANGED stuck

(* All of argv was scanned.  A line of redirections alone is done; so is,  *)
(* with "Unknown command!", one whose first word names nothing to run.     *)
ParseDone ==
  /\ pc = "parse" /\ i > Len(argv)
  /\ IF argv = <<>> \/ argv[1] \in Unknown
     THEN EndCmd
     ELSE pc' = "redirect" /\ i' = 0 /\ UNCHANGED <<argv, err, line>>
  /\ UNCHANGED <<fdt, red, save, stuck>>

(* psh_streamRedirect, one stream.                                         *)
RedirectOne ==
  /\ pc = "redirect" /\ i \in Streams
  /\ \/ red[i] = NONE /\ i' = i + 1 /\ UNCHANGED <<fdt, red, save, err>>
     \/ /\ red[i] # NONE /\ Free(fdt) = {}                  \* cannot save
        /\ fdt' = Close(fdt, {red[i]}) /\ red' = [red EXCEPT ![i] = NONE]
        /\ err' = -1 /\ i' = 3
        /\ UNCHANGED save
     \/ /\ red[i] # NONE /\ Free(fdt) # {}
        /\ red' = [red EXCEPT ![i] = NONE]
        /\ i' = i + 1
        /\ \/ /\ save' = [save EXCEPT ![i] = Min(Free(fdt))]
              /\ fdt' = Close([Put(fdt, fdt[i]) EXCEPT ![i] = fdt[red[i]]], {red[i]})
              /\ UNCHANGED err
           \/ /\ fdt' = Close(fdt, {red[i]})                \* dup2 failed
              /\ err' = -1
              /\ UNCHANGED save
  /\ UNCHANGED <<argv, pc, line, stuck>>

(* The command runs, unless a stream could not be redirected.              *)
RedirectDone ==
  /\ pc = "redirect" /\ i = 3
  /\ pc' = IF err = 0 THEN "run" ELSE "restore"
  /\ i' = 0
  /\ UNCHANGED <<fdt, red, save, argv, err, line, stuck>>

Run ==
  /\ pc = "run"
  /\ pc' = "restore"
  /\ UNCHANGED <<fdt, red, save, argv, i, err, line, stuck>>

(* psh_streamRestore, one stream.                                          *)
RestoreOne_closesFirst ==
  /\ pc = "restore" /\ i \in Streams
  /\ i' = i + 1
  /\ IF save[i] = NONE
     THEN UNCHANGED <<fdt, save, stuck>>
     ELSE /\ save' = [save EXCEPT ![i] = NONE]
          /\ fdt' = Close(fdt, {save[i]})
          /\ UNCHANGED stuck
  /\ UNCHANGED <<red, argv, err, pc, line>>

RestoreOne ==
  /\ pc = "restore" /\ i \in Streams
  /\ i' = i + 1
  /\ IF save[i] = NONE
     THEN UNCHANGED <<fdt, save, stuck>>
     ELSE /\ save' = [save EXCEPT ![i] = NONE]
          /\ \/ /\ fdt' = Close([fdt EXCEPT ![i] = fdt[save[i]]], {save[i]})
                /\ UNCHANGED stuck
             \/ /\ fdt' = Close(fdt, {save[i]})             \* dup2 failed
                /\ stuck' = stuck \cup {i}
  /\ UNCHANGED <<red, argv, err, pc, line>>

RestoreDone ==
  /\ pc = "restore" /\ i = 3
  /\ redirCleanup(fdt)
  /\ EndCmd
  /\ UNCHANGED stuck

Next ==
  \/ NextCmd \/ SkipWord \/ ParseFails \/ OpenRedir \/ OpenBoth \/ ParseDone
  \/ RedirectOne \/ RedirectDone \/ Run \/ RestoreOne \/ RestoreDone

Spec == Init /\ [][Next]_vars

-----------------------------------------------------------------------------
Fds == (Range(red) \cup Range(save)) \ {NONE}

(* "Makes logic way simpler to never have same fd in two fields": the      *)
(* fields hold distinct descriptors, all open and none of them a standard  *)
(* stream, whichever of the calls fail.  So nothing is closed twice, and   *)
(* no descriptor the fields still name can be handed out again.            *)
FieldsOwnTheirFds ==
  pc # "prompt" =>
    /\ \A s, u \in Streams : red[s] # NONE => red[s] # save[u] /\ (red[s] = red[u] => s = u)
    /\ \A s, u \in Streams : save[s] # NONE => (save[s] = save[u] => s = u)
    /\ Fds \subseteq Open \ Streams

(* Between two commands the shell has its three streams and no other       *)
(* descriptor: every path through the parser, the redirection and the      *)
(* restore closes what it opened, also when a call on it fails.            *)
NoFdLeft == pc = "prompt" => Open = Streams

(* Between two commands the streams are the terminal again, except one     *)
(* whose restore failed.                                                   *)
StreamsAreTty == pc = "prompt" => \A s \in Streams \ stuck : fdt[s] = tty

(* Both: after a command the shell's descriptors are what they were.       *)
StreamsRestored == NoFdLeft /\ StreamsAreTty

(* Which words of a line are operators: a word that looks like one is not, *)
(* when the word before it took it for its path.                           *)
Operators(l) ==
  LET op[p \in 0 .. Len(l)] ==
        p > 0 /\ l[p].to # {} /\ ~(op[p - 1] /\ l[p - 1].bare)
  IN  {p \in DOMAIN l : op[p]}

Target(l, p) == IF l[p].bare THEN l[p + 1] ELSE l[p]
Plain(l) == {p \in DOMAIN l : p \notin Operators(l) /\ ~(p - 1 \in Operators(l) /\ l[p - 1].bare)}

(* The first n words of v are the words of l at the places S, in order.    *)
WordsAt(v, n, l, S) ==
  \E at \in [1 .. n -> S] :
    /\ \A k \in 1 .. n : v[k] = l[at[k]]
    /\ \A j, k \in 1 .. n : j < k => at[j] < at[k]
    /\ \A p \in S : \E k \in 1 .. n : at[k] = p

(* While a command runs, each stream is the file of the last redirection   *)
(* that named it, else what it was before, and the command gets the words  *)
(* that are left, in their order.                                          *)
CommandSeesItsStreams ==
  pc = "run" =>
    /\ WordsAt(argv, Len(argv), line, Plain(line))
    /\ \A s \in Streams :
         LET ops == {p \in Operators(line) : s \in line[p].to}
         IN  IF ops = {} THEN s \in stuck \/ fdt[s] = tty
                         ELSE fdt[s] = Target(line, Max(ops))
=============================================================================
