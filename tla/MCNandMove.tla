----------------------------- MODULE MCNandMove -----------------------------
(* A flash of eight blocks and the moves tried on it.                      *)
EXTENDS NandMove

Sized(n) == {Area(lo, hi) : lo \in Blocks, hi \in 1 .. NBLOCKS}
            \cap {Area(lo, lo + k) : lo \in Blocks, k \in n .. NBLOCKS}

All(n, bad, frail, io) ==
  {[src |-> s, dst |-> d, bad |-> bad, frail |-> frail, faults |-> io] : s \in Sized(n), d \in Sized(n)}

Up(m) == m.dst.lo > m.src.lo /\ m.dst.lo < m.src.hi

(* Down by more blocks than are or turn bad, or up past the old place.     *)
ApartMoves == {m \in All(3, 1, 1, 2) : m.dst.lo + 3 <= m.src.lo \/ m.dst.lo >= m.src.hi}

(* Up onto the partition's own blocks: two bad blocks, one of each kind    *)
(* and a failing read or write, or two that turn bad.                      *)
UpMoves == {m \in All(2, 2, 0, 0) \cup All(2, 1, 1, 1) \cup All(2, 0, 2, 0) : Up(m)}

SoundMoves == ApartMoves \cup UpMoves
OverlapMoves == {m \in All(2, 0, 0, 0) : Up(m)}

(* A garbage value that does no harm by itself: nothing follows the last   *)
(* block.                                                                  *)
LastBlock == {NBLOCKS - 1}
=============================================================================
