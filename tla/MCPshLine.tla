----------------------------- MODULE MCPshLine ------------------------------
(* Instances of PshLine: every key psh_readcmd knows, lines of two or      *)
(* three characters, and rings of three slots of which one is wrapped      *)
(* around.                                                                 *)
EXTENDS PshLine

E(a, b, c) == [i \in 0 .. 2 |-> IF i = 0 THEN a ELSE IF i = 1 THEN b ELSE c]

x == <<"x">>
xNx == <<"x", "nul", "x">>

NoHistory == {[hb |-> 0, he |-> 0, entries |-> E(<<>>, <<>>, <<>>)]}

SomeHistories ==
  { [hb |-> 0, he |-> 1, entries |-> E(xNx, <<>>, <<>>)],
    [hb |-> 2, he |-> 1, entries |-> E(x, xNx, xNx)] }

MCAlnum == {"x", "f", "b", "d", "A", "B", "C", "D", "F", "H", "1", "3", "4", "5", "7", "8"}

AllControls == {"SOH", "STX", "ETX", "EOT", "ENQ", "ACK", "BS", "TAB", "VT", "FF", "CR",
                "LF", "NAK", "ETB", "EM", "ESC", "other"}
KeyControls == {"ESC", "CR"}
KeyBytes == {"[", "A", "B", "1", ";", "5", "C", "D", "3", "~", "F", "H", "b", "d"}
AltBytes == {"f", "b", "d"}
MCCompletions == {<<"x", " ">>}
NoCompletions == {}
=============================================================================
