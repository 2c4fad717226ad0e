----------------------------- MODULE MCPshRedir -----------------------------
(* Command lines of up to four words: two commands, and each kind of      *)
(* redirection with its path attached or in the next word.                 *)
EXTENDS PshRedir

Word(name, to, bare) == [name |-> name, to |-> to, bare |-> bare]

cmd == Word("cmd", {}, FALSE)
bang == Word("!", {}, FALSE)
Words == {cmd, Word("f", {}, FALSE), Word("<a", {0}, FALSE), Word("1>b", {1}, FALSE),
          Word("2>c", {2}, FALSE), Word("&>d", {1, 2}, FALSE), Word(">", {1}, TRUE)}

AllLines(n) == UNION {[1 .. k -> Words] : k \in 1 .. n}

(* Lines that begin with a command, or name none and redirect nothing.     *)
CommandLines == {<<cmd>> \o l : l \in AllLines(3)} \cup {<<cmd>>, <<bang>>}
MCUnknown == {bang}

(* Lines that redirect and leave nothing to run.                           *)
NothingToRun == {<<Word("1>b", {1}, FALSE)>>, <<bang, Word("2>c", {2}, FALSE)>>, <<cmd>>}
=============================================================================
