---------------------------- MODULE MCPshHistory ----------------------------
(* A small instance of PshHistory: a ring that wraps after three commands,  *)
(* two commands that can repeat, one blank line, and one buffer more than   *)
(* the ring, the line being read and a dangling reference can tell apart.   *)
EXTENDS PshHistory

CONSTANTS l1, l2, blank, b1, b2, b3, b4, b5, null

MCLines == {l1, l2, blank}
MCBlank == {blank}
MCBufs == {b1, b2, b3, b4, b5}
=============================================================================
