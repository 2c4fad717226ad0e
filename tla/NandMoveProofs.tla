--------------------------- MODULE NandMoveProofs ---------------------------
(***************************************************************************)
(* Theorems about nandpart_movePart, for every device, every two places    *)
(* within it, every set of blocks that are bad or turn bad when erased and *)
(* any number of reads and writes that fail.                               *)
(*                                                                         *)
(* PlaceInv says where the copy works: forward in what is left of the two  *)
(* places, back in what it has copied.  That is all a neighbour needs.     *)
(*                                                                         *)
(* DataInv is about two places with no block in common.  The forward copy  *)
(* leaves the old place as it was, and up to where it stands the good      *)
(* blocks of the new place mirror those of the old: the same data, in the  *)
(* same order, whichever blocks it had to skip.  So a revert, which copies *)
(* the blocks back from the last one down, writes into each block of the   *)
(* old place the data that is there already; what it can lose is a block   *)
(* it erased and failed to write, and that one is still in the new place.  *)
(***************************************************************************)
EXTENDS NandMove, NatFacts

(* The old and the new place have no block in common.                      *)
Apart == ~OntoItself /\ Within(move.src) \cap Within(move.dst) = {}

(* On the blocks A the data are the numbers of B, in order.                *)
Mirrors(data, A, B) ==
  /\ \A x \in A : data[x] \in B
  /\ \A y \in B : \E x \in A : data[x] = y
  /\ \A x, z \in A : x < z => data[x] < data[z]

(* f has the fields of a flash, and c those of a call.                     *)
FlashRecord(f) == f = [data |-> f.data, bad |-> f.bad, frail |-> f.frail, erased |-> f.erased]

CallRecord(c) ==
  c = [dir |-> c.dir, from |-> c.from, to |-> c.to, src |-> c.src, dst |-> c.dst, failBad |-> c.failBad, ret |-> c.ret]

(* The types of the move's state.                                          *)
Shapes ==
  /\ move \in Moves
  /\ FlashRecord(flash)
  /\ flash.data \in [Blocks -> Int] /\ flash.bad \subseteq Blocks /\ flash.frail \subseteq Blocks
  /\ CallRecord(call)
  /\ pc \in {"start", "forward", "undo", "moved"}
  /\ faults \in Nat
  /\ before.data = [b \in Blocks |-> b] /\ before.bad \subseteq flash.bad
  /\ stray \in BOOLEAN
  /\ pc # "moved" => late = FALSE

(* Where the copy reads and writes.                                        *)
Placed ==
  /\ pc \in {"start", "forward"} => ~stray
  /\ pc = "forward" =>
       /\ call.dir = "fwd" /\ call.failBad = FALSE
       /\ call.from = Area(call.from.lo, move.src.hi) /\ call.from.lo \in Nat /\ move.src.lo <= call.from.lo
       /\ call.to = Area(call.to.lo, move.dst.hi) /\ call.to.lo \in Nat /\ move.dst.lo <= call.to.lo
       /\ \/ call.src = Unset /\ call.dst = Unset
          \/ /\ call.src \in Within(move.src) /\ call.dst \in Within(move.dst)
             /\ call.src < call.from.lo /\ call.dst < call.to.lo
  /\ pc = "undo" /\ ~stray =>
       /\ call.dir = "back" /\ call.failBad = TRUE
       /\ call.from = Area(move.dst.lo, call.from.hi) /\ call.from.hi \in Nat /\ call.from.hi <= move.dst.hi
       /\ call.to = Area(move.src.lo, call.to.hi) /\ call.to.hi \in Nat /\ call.to.hi <= move.src.hi

(* The good blocks of a place before block n.                              *)
Below(bad, a, n) == {b \in Within(a) \ bad : b < n}

(* The blocks whose data the partition consists of.                        *)
OldGood == Within(move.src) \ before.bad

(* The old place holds what it held, and its good blocks are still good.   *)
Intact == \A b \in Within(move.src) : flash.data[b] = b
SameBad == \A b \in Within(move.src) : b \in flash.bad => b \in before.bad

(* Every failure but the one reported is accounted for.                    *)
Used(e) == move.faults - faults = IF e = EIO THEN 1 ELSE 0

(* What has been copied so far, forward: the new place mirrors the old one *)
(* up to where the copy stands.                                            *)
Forth ==
  LET A == Below(flash.bad, move.dst, call.to.lo)
      B == Below(flash.bad, move.src, call.from.lo)
  IN  /\ Intact /\ SameBad /\ Used(call.ret) /\ call.ret \in Int
      /\ Mirrors(flash.data, A, B)
      /\ call.dst # Unset => (\A x \in A : x <= call.dst) /\ (\A y \in B : y <= call.src)
      /\ \/ call.ret = BUSY \/ call.ret < 0
         \/ \A b \in Within(move.src) \ flash.bad : b < call.from.lo

(* ... and what there is left to copy back.                                *)
BackAgain ==
  /\ Intact /\ SameBad /\ Used(err)
  /\ Mirrors(flash.data, Below(flash.bad, move.dst, call.from.hi), Below(flash.bad, move.src, call.to.hi))

(* What is known while the move is going on ...                            *)
Going ==
  /\ pc = "start" => Intact /\ SameBad /\ move.faults = faults
  /\ pc = "forward" => Forth
  /\ pc = "undo" => err \in Int /\ err < 0 /\ (call.ret = BUSY => BackAgain)

(* ... that all of the partition can be read somewhere ...                 *)
Kept == \A b \in OldGood : \E x \in Blocks \ flash.bad : flash.data[x] = b

(* ... that a failed move has put everything back ...                      *)
Reverts == pc \in {"undo", "moved"} /\ flash.bad = before.bad /\ ~RevertFailed => Intact

(* ... and that a complete copy has brought all of it to the new place.    *)
Followed ==
  Copied =>
    \E c \in Within(move.dst) :
      /\ Mirrors(flash.data, Below(flash.bad, move.dst, c + 1), OldGood)
      /\ ~late => \A b \in Within(move.dst) \ flash.bad : b > c => flash.data[b] = Erased

DataInv == Apart /\ ~stray => Going /\ Kept /\ Reverts /\ Followed

-----------------------------------------------------------------------------
(* A place within the device.                                              *)
Ranges(a) == a.lo \in Nat /\ a.hi \in Nat /\ a.hi <= NBLOCKS

(* What FindBlock finds within the device: the first or the last good      *)
(* block, if there is any.                                                 *)
LEMMA FindFact ==
  ASSUME NEW dir, NEW a, Ranges(a), NEW r, r = FindBlock(dir, a)
  PROVE  /\ r.err = EOK => /\ r.at \in Within(a) /\ r.at \in Blocks /\ r.at \notin flash.bad /\ r.at \in Nat
                           /\ dir = "back" => \A b \in Within(a) \ flash.bad : b <= r.at
                           /\ dir # "back" => \A b \in Within(a) \ flash.bad : r.at <= b
         /\ r.err # EOK => r.err = DONE /\ Within(a) \ flash.bad = {}
  <1> DEFINE found == {b \in Within(a) : isBad(b) # 1}
             b     == IF dir = "back" THEN Max(found) ELSE Min(found)
  <1>1. NBLOCKS \in Nat /\ Within(a) \subseteq Blocks /\ Within(a) \subseteq Nat /\ \A x \in Within(a) : x <= NBLOCKS
    BY MoveAssumption DEF Ranges, Within, Blocks
  <1>2. \A x \in Within(a) : isBad(x) = IF x \in flash.bad THEN 1 ELSE 0
    BY <1>1 DEF isBad
  <1>3. found = Within(a) \ flash.bad
    BY <1>2
  <1>4. r = IF found = {} THEN [err |-> DONE, at |-> Unset] ELSE [err |-> isBad(b), at |-> b]
    BY DEF FindBlock
  <1> HIDE DEF found
  <1>5. CASE found = {}
    BY <1>3, <1>4, <1>5 DEF DONE, EOK
  <1>6. CASE found # {}
    <2>1. found \subseteq Nat /\ \A x \in found : x <= NBLOCKS
      BY <1>1, <1>3
    <2>2. /\ b \in found
          /\ dir = "back" => \A x \in found : x <= b
          /\ dir # "back" => \A x \in found : b <= x
      <3>1. Max(found) \in found /\ \A x \in found : x <= Max(found)
        BY ONLY <1>1, <1>6, <2>1, MaxFact
      <3>2. Min(found) \in found /\ \A x \in found : Min(found) <= x
        BY ONLY <1>6, <2>1, MinFact
      <3>3. QED
        BY <3>1, <3>2
    <2> HIDE DEF b
    <2>3. isBad(b) = EOK
      BY <1>2, <1>3, <2>2 DEF EOK
    <2>4. r = [err |-> isBad(b), at |-> b]
      BY <1>4, <1>6
    <2>5. QED
      BY <1>1, <1>3, <2>2, <2>3, <2>4
  <1>7. QED
    BY <1>5, <1>6

-----------------------------------------------------------------------------
(* The copy works, and erases, within the two places of the move.          *)
PlaceInv == ~OntoItself => Shapes /\ Placed /\ (~stray => Inside)

(* The two places of a move lie within the device, and are areas.          *)
LEMMA MoveFact ==
  ASSUME move \in Moves
  PROVE  /\ Ranges(move.src) /\ Ranges(move.dst) /\ move.faults \in Nat
         /\ move.src = Area(move.src.lo, move.src.hi) /\ move.dst = Area(move.dst.lo, move.dst.hi)
  <1>1. NBLOCKS \in Nat /\ move.src \in Places /\ move.dst \in Places /\ move.faults \in Nat
    BY MoveAssumption
  <1>2. ASSUME NEW a \in Places PROVE Ranges(a) /\ a = Area(a.lo, a.hi)
    <2>1. a.lo \in Nat /\ a.hi \in 0 .. NBLOCKS
      BY DEF Places
    <2>2. a = Area(a.lo, a.hi)
      BY DEF Places, Area
    <2>3. QED
      BY <1>1, <2>1, <2>2 DEF Ranges
  <1>3. QED
    BY <1>1, <1>2

(* The copy has not begun: nothing has been erased anywhere.               *)
LEMMA InitPlaced == Init => PlaceInv
  <1> SUFFICES ASSUME Init PROVE Shapes /\ Placed /\ Inside
    BY DEF PlaceInv
  <1>1. PICK bad \in SUBSET Blocks, frail \in SUBSET Blocks :
          flash = [data |-> [b \in Blocks |-> b], bad |-> bad, frail |-> frail, erased |-> {}]
    BY DEF Init, kSubset
  <1>2. flash.data \in [Blocks -> Int]
    BY <1>1 DEF Blocks
  <1>3. /\ move \in Moves /\ before = flash /\ pc = "start" /\ faults = move.faults /\ stray = FALSE /\ call = NoCall
        /\ late = FALSE
    BY DEF Init
  <1>4. CallRecord(call) /\ FlashRecord(flash)
    BY <1>1, <1>3 DEF NoCall, Copy, CallRecord, FlashRecord
  <1>5. Shapes
    BY <1>1, <1>2, <1>3, <1>4, MoveFact DEF Shapes
  <1>6. Placed
    BY <1>3 DEF Placed
  <1>7. QED
    BY <1>1, <1>5, <1>6 DEF Inside

(* The rest of a place once the copy has gone past one of its blocks.      *)
LEMMA RestFact ==
  ASSUME NEW lo, NEW hi, NEW b
  PROVE  Rest("fwd", Area(lo, hi), b) = Area(b + 1, hi) /\ Rest("back", Area(lo, hi), b) = Area(lo, b)
  BY DEF Rest, Area

(* A block FindBlock succeeds with is a good block of the device.          *)
LEMMA FoundFact ==
  ASSUME NEW dir, NEW a, FindBlock(dir, a).err = EOK
  PROVE  FindBlock(dir, a).at \in Blocks /\ FindBlock(dir, a).at \notin flash.bad
  <1> DEFINE found == {b \in Within(a) : isBad(b) # 1}
             b     == IF dir = "back" THEN Max(found) ELSE Min(found)
  <1>1. FindBlock(dir, a) = IF found = {} THEN [err |-> DONE, at |-> Unset] ELSE [err |-> isBad(b), at |-> b]
    BY DEF FindBlock
  <1> HIDE DEF found, b
  <1>2. FindBlock(dir, a) = [err |-> isBad(b), at |-> b]
    <2>1. DONE # EOK
      BY DEF DONE, EOK
    <2>2. QED
      BY <1>1, <2>1
  <1>3. isBad(b) = EOK
    BY <1>2
  <1>4. b \in Blocks /\ b \notin flash.bad
    BY <1>3 DEF isBad, EOK, EINVAL
  <1>5. QED
    BY <1>2, <1>4

(* Block b of the flash has been written with v.                           *)
Written(f, b, v) == [f EXCEPT !.data[b] = v, !.erased = @ \cup {b}]

(* Writing changes the block's data and counts it as erased.               *)
LEMMA WrittenFact ==
  ASSUME NEW f, NEW b, NEW v, FlashRecord(f)
  PROVE  Written(f, b, v) = [data |-> [f.data EXCEPT ![b] = v], bad |-> f.bad, frail |-> f.frail,
                             erased |-> f.erased \cup {b}]
  <1> DEFINE d == f.data
             g == f.bad
             r == f.frail
             e == f.erased
             u == [d EXCEPT ![b] = v]
             w == e \cup {b}
  <1>1. f = [data |-> d, bad |-> g, frail |-> r, erased |-> e]
    BY DEF FlashRecord
  <1>2. Written(f, b, v) = [f EXCEPT !.data = u, !.erased = w]
    BY DEF Written
  <1> HIDE DEF d, g, r, e, u, w
  <1>3. [f EXCEPT !.data = u, !.erased = w] = [data |-> u, bad |-> g, frail |-> r, erased |-> w]
    <2> DEFINE h == [f EXCEPT !.data = u, !.erased = w]
    <2>1. f \in [data : {d}, bad : {g}, frail : {r}, erased : {e}]
      BY ONLY <1>1
    <2>2. h.data = u /\ h.bad = g /\ h.frail = r /\ h.erased = w
      BY ONLY <2>1
    <2>3. h \in [data : {d, u}, bad : {g}, frail : {r}, erased : {e, w}]
      BY ONLY <2>1
    <2> HIDE DEF h
    <2>4. h = [data |-> h.data, bad |-> h.bad, frail |-> h.frail, erased |-> h.erased]
      BY ONLY <2>3
    <2>5. QED
      BY <2>2, <2>4 DEF h
  <1>4. QED
    BY <1>2, <1>3 DEF d, g, r, e, u, w

(* Block b has turned bad.                                                 *)
Broken(f, b) == [f EXCEPT !.bad = @ \cup {b}, !.frail = @ \ {b}]

(* A block that turns bad is one of the bad blocks and no longer a frail   *)
(* one; the data of the others stays.                                      *)
LEMMA BrokenFact ==
  ASSUME NEW f, NEW b, FlashRecord(f)
  PROVE  Broken(f, b) = [data |-> f.data, bad |-> f.bad \cup {b}, frail |-> f.frail \ {b}, erased |-> f.erased]
  <1> DEFINE d == f.data
             g == f.bad
             r == f.frail
             e == f.erased
             u == g \cup {b}
             w == r \ {b}
  <1>1. f = [data |-> d, bad |-> g, frail |-> r, erased |-> e]
    BY DEF FlashRecord
  <1>2. Broken(f, b) = [f EXCEPT !.bad = u, !.frail = w]
    BY DEF Broken
  <1> HIDE DEF d, g, r, e, u, w
  <1>3. [f EXCEPT !.bad = u, !.frail = w] = [data |-> d, bad |-> u, frail |-> w, erased |-> e]
    <2> DEFINE h == [f EXCEPT !.bad = u, !.frail = w]
    <2>1. f \in [data : {d}, bad : {g}, frail : {r}, erased : {e}]
      BY ONLY <1>1
    <2>2. h.data = d /\ h.bad = u /\ h.frail = w /\ h.erased = e
      BY ONLY <2>1
    <2>3. h \in [data : {d}, bad : {g, u}, frail : {r, w}, erased : {e}]
      BY ONLY <2>1
    <2> HIDE DEF h
    <2>4. h = [data |-> h.data, bad |-> h.bad, frail |-> h.frail, erased |-> h.erased]
      BY ONLY <2>3
    <2>5. QED
      BY <2>2, <2>4 DEF h
  <1>4. QED
    BY <1>2, <1>3 DEF d, g, r, e, u, w

(* One step of a copy: it returns, or it goes on past the blocks x and y.  *)
Answers(e) == call' = [dir |-> call.dir, from |-> call.from, to |-> call.to, src |-> call.src, dst |-> call.dst,
                       failBad |-> call.failBad, ret |-> e]

Passes(x, y) ==
  call' = [dir |-> call.dir, from |-> Rest(call.dir, call.from, x), to |-> Rest(call.dir, call.to, y),
           src |-> x, dst |-> y, failBad |-> call.failBad, ret |-> call.ret]

Skips(y) ==
  call' = [dir |-> call.dir, from |-> call.from, to |-> Rest(call.dir, call.to, y),
           src |-> call.src, dst |-> call.dst, failBad |-> call.failBad, ret |-> call.ret]

Copying(x, y) ==
  \/ /\ From.err # EOK /\ Answers(From.err) /\ flash' = flash /\ faults' = faults
  \/ /\ From.err = EOK /\ To.err # EOK /\ Answers(IF To.err = DONE THEN ENOSPC ELSE To.err)
     /\ flash' = flash /\ faults' = faults
  \/ /\ From.err = EOK /\ To.err = EOK /\ x = y /\ Answers(EOK) /\ flash' = flash /\ faults' = faults
  \/ /\ From.err = EOK /\ To.err = EOK /\ x # y /\ y \notin flash.frail
     /\ \/ flash' = Written(flash, y, flash.data[x]) /\ Passes(x, y) /\ faults' = faults
        \/ /\ flash' = Written(flash, y, Torn) \/ flash' = flash
           /\ Answers(EIO) /\ faults > 0 /\ faults' = faults - 1
  \/ /\ From.err = EOK /\ To.err = EOK /\ x # y /\ y \in flash.frail
     /\ flash' = Broken(flash, y) /\ faults' = faults
     /\ IF call.failBad THEN Answers(EBADMSG) ELSE Skips(y)

(* CopyStep, with the records it changes spelled out.                      *)
LEMMA CopyFact ==
  ASSUME CallRecord(call), CopyStep
  PROVE  Copying(From.at, To.at)
  <1> DEFINE x == From.at
             y == To.at
  <1>1. ASSUME NEW e, CallReturns(e) PROVE Answers(e)
    BY <1>1 DEF CallReturns, Answers, CallRecord
  <1>2. CASE CopyEnds
    BY <1>1, <1>2 DEF CopyEnds, Copying
  <1>3. CASE CopyNoRoom
    BY <1>1, <1>3 DEF CopyNoRoom, Copying
  <1>4. CASE CopyMeets
    BY <1>1, <1>4 DEF CopyMeets, Copying
  <1>5. CASE CopyBlock
    <2>1. Passes(x, y)
      <3> HIDE DEF x, y
      <3>1. call' = [call EXCEPT !.from = Rest(call.dir, @, x), !.to = Rest(call.dir, @, y), !.src = x, !.dst = y]
        BY <1>5 DEF CopyBlock, x, y
      <3>2. QED
        BY ONLY <3>1, CallRecord(call) DEF Passes, CallRecord
    <2>2. flash' = Written(flash, y, flash.data[x])
      BY <1>5 DEF CopyBlock, Written
    <2>3. QED
      BY <1>5, <2>1, <2>2 DEF CopyBlock, CanCopy, Copying
  <1>6. CASE CopyFails
    <2>1. flash' = Written(flash, y, Torn) \/ flash' = flash
      BY <1>6 DEF CopyFails, Written
    <2>2. Answers(EIO)
      BY <1>1, <1>6 DEF CopyFails
    <2>3. QED
      BY <1>6, <2>1, <2>2 DEF CopyFails, CanCopy, Copying
  <1>7. CASE NewBadBlock
    <2>1. flash' = Broken(flash, y)
      BY <1>7 DEF NewBadBlock, Broken
    <2>2. CASE call.failBad
      <3>1. Answers(EBADMSG)
        BY <1>1, <1>7, <2>2 DEF NewBadBlock
      <3>2. QED
        BY <1>7, <2>1, <2>2, <3>1 DEF NewBadBlock, CanCopy, Copying
    <2>3. CASE ~call.failBad
      <3>1. Skips(y)
        <4> HIDE DEF y
        <4>1. call' = [call EXCEPT !.to = Rest(call.dir, @, y)]
          BY <1>7, <2>3 DEF NewBadBlock, y
        <4>2. QED
          BY ONLY <4>1, CallRecord(call) DEF Skips, CallRecord
      <3>2. QED
        BY <1>7, <2>1, <2>3, <3>1 DEF NewBadBlock, CanCopy, Copying
    <2>4. QED
      BY <2>2, <2>3
  <1>8. QED
    BY <1>2, <1>3, <1>4, <1>5, <1>6, <1>7 DEF CopyStep

(* A copy leaves the flash a flash.                                        *)
LEMMA CopyShapes ==
  ASSUME Shapes, CopyStep
  PROVE  Shapes'
  <1> DEFINE x == From.at
             y == To.at
             Fine(f) == /\ FlashRecord(f) /\ f.data \in [Blocks -> Int] /\ f.bad \subseteq Blocks
                        /\ f.frail \subseteq Blocks /\ flash.bad \subseteq f.bad
  <1>1. CallRecord(call) /\ FlashRecord(flash)
    BY DEF Shapes
  <1>2. Copying(x, y)
    BY <1>1, CopyFact
  <1>3. From.err = EOK => x \in Blocks
    BY FoundFact DEF From
  <1>4. To.err = EOK => y \in Blocks /\ y \notin flash.bad
    BY FoundFact DEF To
  <1>5. UNCHANGED <<move, pc, before, stray, late>>
    BY DEF CopyStep
  <1> HIDE DEF x, y
  <1>6. CallRecord(call)'
    <2>1. ASSUME NEW e, Answers(e) PROVE CallRecord(call')
      BY <2>1 DEF Answers, CallRecord
    <2>2. ASSUME Passes(x, y) PROVE CallRecord(call')
      BY <2>2 DEF Passes, CallRecord
    <2>3. ASSUME Skips(y) PROVE CallRecord(call')
      BY <2>3 DEF Skips, CallRecord
    <2>4. QED
      BY <1>2, <2>1, <2>2, <2>3 DEF Copying
  <1>7. Fine(flash')
    <2>1. CASE flash' = flash
      BY <1>1, <2>1 DEF Shapes
    <2>2. ASSUME NEW v \in Int, y \in Blocks, flash' = Written(flash, y, v) PROVE Fine(flash')
      <3>1. flash' = [data |-> [flash.data EXCEPT ![y] = v], bad |-> flash.bad, frail |-> flash.frail,
                      erased |-> flash.erased \cup {y}]
        BY <1>1, <2>2, WrittenFact
      <3>2. [flash.data EXCEPT ![y] = v] \in [Blocks -> Int]
        BY DEF Shapes
      <3>3. QED
        BY <3>1, <3>2 DEF Shapes, FlashRecord
    <2>3. ASSUME y \in Blocks, flash' = Broken(flash, y) PROVE Fine(flash')
      <3>1. flash' = [data |-> flash.data, bad |-> flash.bad \cup {y}, frail |-> flash.frail \ {y},
                      erased |-> flash.erased]
        BY <1>1, <2>3, BrokenFact
      <3>2. QED
        BY <2>3, <3>1 DEF Shapes, FlashRecord
    <2>4. Torn \in Int /\ (x \in Blocks => flash.data[x] \in Int)
      BY DEF Torn, Shapes
    <2>5. \/ flash' = flash
          \/ y \in Blocks /\ x \in Blocks /\ flash' = Written(flash, y, flash.data[x])
          \/ y \in Blocks /\ flash' = Written(flash, y, Torn)
          \/ y \in Blocks /\ flash' = Broken(flash, y)
      BY ONLY <1>2, <1>3, <1>4 DEF Copying
    <2> HIDE DEF Fine
    <2>6. CASE y \in Blocks /\ x \in Blocks /\ flash' = Written(flash, y, flash.data[x])
      BY ONLY <2>2, <2>4, <2>6
    <2>7. CASE y \in Blocks /\ flash' = Written(flash, y, Torn)
      BY ONLY <2>2, <2>4, <2>7
    <2>8. CASE y \in Blocks /\ flash' = Broken(flash, y)
      BY ONLY <2>3, <2>8
    <2>9. QED
      BY ONLY <2>1, <2>5, <2>6, <2>7, <2>8
  <1>8. faults' \in Nat
    BY <1>2 DEF Copying, Shapes
  <1>9. QED
    BY <1>5, <1>6, <1>7, <1>8 DEF Shapes

(* What the copy sees, as long as it stays in its place.                   *)
InPlace == ~OntoItself /\ Shapes /\ Placed /\ ~stray /\ pc \in {"forward", "undo"}

(* Then the two areas of the call lie within the device too.               *)
LEMMA PlaceFact ==
  ASSUME InPlace
  PROVE  Ranges(call.from) /\ Ranges(call.to) /\ Ranges(move.src) /\ Ranges(move.dst)
  <1>1. Ranges(move.src) /\ Ranges(move.dst)
    BY MoveFact DEF InPlace, Shapes
  <1>2. CASE pc = "forward"
    <2>1. /\ call.from = Area(call.from.lo, move.src.hi) /\ call.from.lo \in Nat
          /\ call.to = Area(call.to.lo, move.dst.hi) /\ call.to.lo \in Nat
      BY <1>2 DEF InPlace, Placed
    <2>2. call.from.hi = move.src.hi /\ call.to.hi = move.dst.hi
      BY <2>1 DEF Area
    <2>3. QED
      BY <1>1, <2>1, <2>2 DEF Ranges
  <1>3. CASE pc = "undo"
    <2>1. /\ call.from = Area(move.dst.lo, call.from.hi) /\ call.from.hi \in Nat /\ call.from.hi <= move.dst.hi
          /\ call.to = Area(move.src.lo, call.to.hi) /\ call.to.hi \in Nat /\ call.to.hi <= move.src.hi
      BY <1>3 DEF InPlace, Placed
    <2>2. call.from.lo = move.dst.lo /\ call.to.lo = move.src.lo
      BY <2>1 DEF Area
    <2>3. NBLOCKS \in Nat
      BY MoveAssumption
    <2>4. QED
      BY <1>1, <2>1, <2>2, <2>3 DEF Ranges
  <1>4. QED
    BY <1>2, <1>3 DEF InPlace

(* b is the good block of place a that comes next in direction dir.        *)
Aim(dir, bad, a, b) ==
  /\ b \in Within(a) /\ b \in Blocks /\ b \notin bad /\ b \in Nat
  /\ dir = "back" => \A c \in Within(a) \ bad : c <= b
  /\ dir # "back" => \A c \in Within(a) \ bad : b <= c

(* What findBlock gives the two sides of the copy: such a block, or the    *)
(* answer that no good block is left.                                      *)
LEMMA AimFact ==
  ASSUME InPlace
  PROVE  /\ From.err = EOK => Aim(call.dir, flash.bad, call.from, From.at)
         /\ From.err # EOK => From.err = DONE /\ Within(call.from) \ flash.bad = {}
         /\ To.err = EOK => Aim(call.dir, flash.bad, call.to, To.at)
         /\ To.err # EOK => To.err = DONE /\ Within(call.to) \ flash.bad = {}
  <1>1. Ranges(call.from) /\ Ranges(call.to)
    BY PlaceFact
  <1>2. From = FindBlock(call.dir, call.from) /\ To = FindBlock(call.dir, call.to)
    BY DEF From, To
  <1>3. /\ From.err = EOK => Aim(call.dir, flash.bad, call.from, From.at)
        /\ From.err # EOK => From.err = DONE /\ Within(call.from) \ flash.bad = {}
    BY ONLY <1>1, <1>2, FindFact DEF Aim
  <1>4. /\ To.err = EOK => Aim(call.dir, flash.bad, call.to, To.at)
        /\ To.err # EOK => To.err = DONE /\ Within(call.to) \ flash.bad = {}
    BY ONLY <1>1, <1>2, FindFact DEF Aim
  <1>5. QED
    BY <1>3, <1>4

(* A copy stays in its place, and erases nothing else.                     *)
LEMMA CopyPlaced ==
  ASSUME InPlace, Inside, CopyStep
  PROVE  Placed' /\ Inside'
  <1> DEFINE x == From.at
             y == To.at
  <1>1. CallRecord(call) /\ FlashRecord(flash) /\ move \in Moves
    BY DEF InPlace, Shapes
  <1>2. Copying(x, y)
    BY <1>1, CopyFact
  <1>3. /\ From.err = EOK => Aim(call.dir, flash.bad, call.from, x)
        /\ To.err = EOK => Aim(call.dir, flash.bad, call.to, y)
    BY AimFact
  <1>4. UNCHANGED <<move, pc, before, stray>>
    BY DEF CopyStep
  <1>5. Ranges(move.src) /\ Ranges(move.dst)
    BY PlaceFact
  <1> HIDE DEF x, y
  <1>6. To.err = EOK => y \in Within(move.src) \cup Within(move.dst)
    <2> SUFFICES ASSUME To.err = EOK PROVE y \in Within(move.src) \cup Within(move.dst)
      OBVIOUS
    <2>1. y \in Within(call.to)
      BY <1>3 DEF Aim
    <2>2. CASE pc = "forward"
      <3>1. call.to = Area(call.to.lo, move.dst.hi) /\ call.to.lo \in Nat /\ move.dst.lo <= call.to.lo
        BY <2>2 DEF InPlace, Placed
      <3>2. QED
        BY <1>5, <2>1, <3>1 DEF Within, Area, Ranges
    <2>3. CASE pc = "undo"
      <3>1. call.to = Area(move.src.lo, call.to.hi) /\ call.to.hi \in Nat /\ call.to.hi <= move.src.hi
        BY <2>3 DEF InPlace, Placed
      <3>2. QED
        BY <1>5, <2>1, <3>1 DEF Within, Area, Ranges
    <2>4. QED
      BY <2>2, <2>3 DEF InPlace
  <1>7. Inside'
    <2>1. flash'.erased \subseteq flash.erased \cup (IF To.err = EOK THEN {y} ELSE {})
      <3>1. \A v : Written(flash, y, v).erased = flash.erased \cup {y}
        BY <1>1, WrittenFact
      <3>2. Broken(flash, y).erased = flash.erased
        BY <1>1, BrokenFact
      <3>3. QED
        BY ONLY <1>2, <3>1, <3>2 DEF Copying
    <2>2. QED
      BY <1>4, <1>6, <2>1 DEF Inside
  <1>8. CASE \E e : Answers(e)
    <2>1. /\ call'.dir = call.dir /\ call'.from = call.from /\ call'.to = call.to /\ call'.src = call.src
          /\ call'.dst = call.dst /\ call'.failBad = call.failBad
      BY <1>8 DEF Answers
    <2>2. Placed'
      BY <1>4, <2>1 DEF InPlace, Placed
    <2>3. QED
      BY <1>7, <2>2
  <1>9. CASE pc = "forward" /\ From.err = EOK /\ To.err = EOK /\ (Passes(x, y) \/ Skips(y))
    <2>1. /\ call.dir = "fwd" /\ call.failBad = FALSE
          /\ call.from = Area(call.from.lo, move.src.hi) /\ call.from.lo \in Nat /\ move.src.lo <= call.from.lo
          /\ call.to = Area(call.to.lo, move.dst.hi) /\ call.to.lo \in Nat /\ move.dst.lo <= call.to.lo
          /\ \/ call.src = Unset /\ call.dst = Unset
             \/ /\ call.src \in Within(move.src) /\ call.dst \in Within(move.dst)
                /\ call.src < call.from.lo /\ call.dst < call.to.lo
      BY <1>9 DEF InPlace, Placed
    <2>2. /\ x \in Nat /\ call.from.lo <= x /\ x < move.src.hi
          /\ y \in Nat /\ call.to.lo <= y /\ y < move.dst.hi
      BY <1>3, <1>5, <1>9, <2>1 DEF Aim, Within, Area, Ranges
    <2>3. /\ Rest("fwd", call.from, x) = Area(x + 1, move.src.hi)
          /\ Rest("fwd", call.to, y) = Area(y + 1, move.dst.hi)
      BY <2>1, RestFact
    <2>4. CASE Passes(x, y)
      <3>1. /\ call'.dir = "fwd" /\ call'.failBad = FALSE /\ call'.src = x /\ call'.dst = y
            /\ call'.from = Area(x + 1, move.src.hi) /\ call'.to = Area(y + 1, move.dst.hi)
        BY <2>1, <2>3, <2>4 DEF Passes
      <3>2. call'.from.lo = x + 1 /\ call'.to.lo = y + 1
        BY <3>1 DEF Area
      <3>3. x \in Within(move.src) /\ y \in Within(move.dst)
        BY <1>5, <2>1, <2>2 DEF Within, Ranges
      <3>4. /\ x + 1 \in Nat /\ move.src.lo <= x + 1 /\ y + 1 \in Nat /\ move.dst.lo <= y + 1
            /\ x < x + 1 /\ y < y + 1
        BY <1>5, <2>1, <2>2 DEF Ranges
      <3>5. Placed'
        BY <1>4, <1>9, <3>1, <3>2, <3>3, <3>4 DEF InPlace, Placed
      <3>6. QED
        BY <1>7, <3>5
    <2>5. CASE Skips(y)
      <3>1. /\ call'.dir = "fwd" /\ call'.failBad = FALSE /\ call'.src = call.src /\ call'.dst = call.dst
            /\ call'.from = call.from /\ call'.to = Area(y + 1, move.dst.hi)
        BY <2>1, <2>3, <2>5 DEF Skips
      <3>2. call'.to.lo = y + 1
        BY <3>1 DEF Area
      <3>3. y + 1 \in Nat /\ move.dst.lo <= y + 1
        BY <1>5, <2>1, <2>2 DEF Ranges
      <3>4. call.dst \in Within(move.dst) /\ call.dst < call.to.lo => call.dst < y + 1
        BY <1>5, <2>1, <2>2 DEF Within, Ranges
      <3>5. Placed'
        BY <1>4, <1>9, <2>1, <3>1, <3>2, <3>3, <3>4 DEF InPlace, Placed
      <3>6. QED
        BY <1>7, <3>5
    <2>6. QED
      BY <1>9, <2>4, <2>5
  <1>10. CASE pc = "undo" /\ From.err = EOK /\ To.err = EOK /\ Passes(x, y)
    <2>1. /\ call.dir = "back" /\ call.failBad = TRUE
          /\ call.from = Area(move.dst.lo, call.from.hi) /\ call.from.hi \in Nat /\ call.from.hi <= move.dst.hi
          /\ call.to = Area(move.src.lo, call.to.hi) /\ call.to.hi \in Nat /\ call.to.hi <= move.src.hi
      BY <1>10 DEF InPlace, Placed
    <2>2. x \in Nat /\ x < call.from.hi /\ y \in Nat /\ y < call.to.hi
      BY <1>3, <1>5, <1>10, <2>1 DEF Aim, Within, Area, Ranges
    <2>3. Rest("back", call.from, x) = Area(move.dst.lo, x) /\ Rest("back", call.to, y) = Area(move.src.lo, y)
      BY <2>1, RestFact
    <2>4. /\ call'.dir = "back" /\ call'.failBad = TRUE
          /\ call'.from = Area(move.dst.lo, x) /\ call'.to = Area(move.src.lo, y)
      BY <1>10, <2>1, <2>3 DEF Passes
    <2>5. call'.from.hi = x /\ call'.to.hi = y
      BY <2>4 DEF Area
    <2>6. x <= move.dst.hi /\ y <= move.src.hi
      BY <1>5, <2>1, <2>2 DEF Ranges
    <2>7. Placed'
      BY <1>4, <1>10, <2>2, <2>4, <2>5, <2>6 DEF InPlace, Placed
    <2>8. QED
      BY <1>7, <2>7
  <1>11. pc = "undo" => call.failBad
    BY DEF InPlace, Placed
  <1>12. QED
    BY <1>2, <1>8, <1>9, <1>10, <1>11 DEF Copying, InPlace

(* What erasing a place does.                                              *)
LEMMA EraseFact ==
  ASSUME NEW a, FlashRecord(flash)
  PROVE  Erase(a) =
           [data |-> [b \in Blocks |-> IF b \in (Within(a) \ flash.bad) \ flash.frail THEN Erased ELSE flash.data[b]],
            bad |-> flash.bad \cup ((Within(a) \ flash.bad) \cap flash.frail),
            frail |-> flash.frail \ (Within(a) \ flash.bad),
            erased |-> flash.erased \cup ((Within(a) \ flash.bad) \ flash.frail)]
  <1> DEFINE f == flash
             d == f.data
             g == f.bad
             r == f.frail
             e == f.erased
             good == Within(a) \ g
             d2 == [b \in Blocks |-> IF b \in good \ r THEN Erased ELSE d[b]]
             g2 == g \cup (good \cap r)
             r2 == r \ good
             e2 == e \cup (good \ r)
             h == [f EXCEPT !.data = d2, !.bad = g2, !.frail = r2, !.erased = e2]
  <1>1. f \in [data : {d}, bad : {g}, frail : {r}, erased : {e}]
    BY DEF FlashRecord
  <1>2. Erase(a) = h
    BY DEF Erase
  <1> HIDE DEF f, d, g, r, e, good, d2, g2, r2, e2
  <1>3. h.data = d2 /\ h.bad = g2 /\ h.frail = r2 /\ h.erased = e2
    BY ONLY <1>1
  <1>4. h \in [data : {d, d2}, bad : {g, g2}, frail : {r, r2}, erased : {e, e2}]
    BY ONLY <1>1
  <1> HIDE DEF h
  <1>5. h = [data |-> h.data, bad |-> h.bad, frail |-> h.frail, erased |-> h.erased]
    BY ONLY <1>4
  <1>6. QED
    BY <1>2, <1>3, <1>5 DEF f, d, g, r, e, good, d2, g2, r2, e2

(* Erasing leaves the flash a flash, and only adds to the bad blocks.      *)
LEMMA EraseShapes ==
  ASSUME NEW a, Shapes
  PROVE  /\ FlashRecord(Erase(a)) /\ Erase(a).data \in [Blocks -> Int] /\ Erase(a).bad \subseteq Blocks
         /\ Erase(a).frail \subseteq Blocks /\ flash.bad \subseteq Erase(a).bad
  <1>1. Erase(a) =
           [data |-> [b \in Blocks |-> IF b \in (Within(a) \ flash.bad) \ flash.frail THEN Erased ELSE flash.data[b]],
            bad |-> flash.bad \cup ((Within(a) \ flash.bad) \cap flash.frail),
            frail |-> flash.frail \ (Within(a) \ flash.bad),
            erased |-> flash.erased \cup ((Within(a) \ flash.bad) \ flash.frail)]
    BY EraseFact DEF Shapes
  <1>2. flash.data \in [Blocks -> Int] /\ flash.bad \subseteq Blocks /\ flash.frail \subseteq Blocks
    BY DEF Shapes
  <1>3. Erase(a).data \in [Blocks -> Int]
    <2>1. Erased \in Int
      BY DEF Erased
    <2>2. QED
      BY <1>1, <1>2, <2>1
  <1>4. QED
    BY <1>1, <1>2, <1>3 DEF FlashRecord

(* What the end of a forward copy turns into.                              *)
ForwardEnds(src, dst) ==
  \/ /\ call.ret < 0 /\ pc' = "undo" /\ err' = call.ret /\ UNCHANGED <<flash, faults, late>>
     /\ call' = Copy("back", Area(move.dst.lo, dst + 1), Area(move.src.lo, src + 1), Unset, Unset, TRUE)
  \/ /\ ~(call.ret < 0) /\ flash' = Erase(Area(dst + 1, move.dst.hi)) /\ pc' = "moved" /\ err' = EOK
     /\ call' = NoCall /\ UNCHANGED <<faults, late>>
  \/ /\ ~(call.ret < 0) /\ pc' = "moved" /\ err' = EIO /\ call' = NoCall
     /\ \E k \in dst + 1 .. move.dst.hi : flash' = Erase(Area(dst + 1, k))
     /\ faults > 0 /\ faults' = faults - 1 /\ late' = TRUE

(* copyForwardSafe, when the copy has set both block numbers: it goes on   *)
(* with these and no others.                                               *)
LEMMA ForwardFact ==
  ASSUME ForwardReturned, call.src # Unset, call.dst # Unset
  PROVE  ForwardEnds(call.src, call.dst) /\ stray' = FALSE
  BY DEF ForwardReturned, Value, ForwardEnds, Undo, EraseRest, Finish

(* A call has all of its fields.                                           *)
LEMMA CopyRecord ==
  ASSUME NEW d, NEW f, NEW t, NEW s, NEW u, NEW b
  PROVE  CallRecord(Copy(d, f, t, s, u, b)) /\ CallRecord(NoCall)
  BY DEF CallRecord, Copy, NoCall

(* copyForwardSafe leaves the flash a flash, whatever block numbers it     *)
(* goes on with.                                                           *)
LEMMA ForwardShapes ==
  ASSUME Shapes, ForwardReturned
  PROVE  Shapes'
  <1>1. PICK src \in Value(call.src), dst \in Value(call.dst) : ForwardEnds(src, dst)
    BY DEF ForwardReturned, ForwardEnds, Undo, EraseRest, Finish
  <1>2. UNCHANGED <<move, before>> /\ stray' \in BOOLEAN /\ pc = "forward"
    BY DEF ForwardReturned, Returned
  <1>6. faults' \in Nat /\ (pc' # "moved" => late' = FALSE)
    <2>1. faults \in Nat /\ late = FALSE
      BY <1>2 DEF Shapes
    <2>2. faults' = faults \/ (faults > 0 /\ faults' = faults - 1)
      BY <1>1 DEF ForwardEnds
    <2>3. pc' # "moved" => late' = late
      BY <1>1 DEF ForwardEnds
    <2>4. QED
      BY <2>1, <2>2, <2>3
  <1>3. CallRecord(call') /\ pc' \in {"undo", "moved"}
    BY <1>1, CopyRecord DEF ForwardEnds
  <1>4. /\ FlashRecord(flash') /\ flash'.data \in [Blocks -> Int] /\ flash'.bad \subseteq Blocks
        /\ flash'.frail \subseteq Blocks /\ flash.bad \subseteq flash'.bad
    <2>1. CASE flash' = flash
      BY <2>1 DEF Shapes
    <2>2. ASSUME NEW k, flash' = Erase(Area(dst + 1, k)) PROVE <1>4
      BY <2>2, EraseShapes
    <2>3. QED
      BY <1>1, <2>1, <2>2 DEF ForwardEnds
  <1>5. QED
    BY <1>2, <1>3, <1>4, <1>6 DEF Shapes

(* copyForwardSafe, after the copy: the revert works between the same two  *)
(* places, and the rest it erases is a part of the new place. If the copy  *)
(* has set no block number that need not be so, and the move is astray.    *)
LEMMA ForwardPlaced ==
  ASSUME InPlace, Inside, ForwardReturned
  PROVE  Placed' /\ (~stray' => Inside')
  <1>1. pc = "forward" /\ move' = move
    BY DEF ForwardReturned, Returned
  <1>2. CASE call.dst = Unset
    BY <1>2 DEF ForwardReturned, Undo, EraseRest, Finish, Placed
  <1>3. CASE call.dst # Unset
    <2>1. /\ call.src \in Within(move.src) /\ call.dst \in Within(move.dst)
      BY <1>1, <1>3 DEF InPlace, Placed
    <2>2. Ranges(move.src) /\ Ranges(move.dst)
      BY PlaceFact
    <2>3. /\ call.src \in Nat /\ call.src + 1 \in Nat /\ call.src + 1 <= move.src.hi
          /\ call.dst \in Nat /\ call.dst + 1 \in Nat /\ call.dst + 1 <= move.dst.hi /\ move.dst.lo <= call.dst + 1
      BY <2>1, <2>2 DEF Within, Ranges
    <2>4. call.src # Unset
      BY <2>3 DEF Unset
    <2>5. ForwardEnds(call.src, call.dst) /\ stray' = FALSE
      BY <1>3, <2>4, ForwardFact
    <2>6. CASE call.ret < 0
      <3>1. /\ flash' = flash /\ pc' = "undo"
            /\ call' = Copy("back", Area(move.dst.lo, call.dst + 1), Area(move.src.lo, call.src + 1), Unset, Unset, TRUE)
        BY <2>5, <2>6 DEF ForwardEnds
      <3>2. /\ call'.dir = "back" /\ call'.failBad = TRUE
            /\ call'.from = Area(move.dst.lo, call.dst + 1) /\ call'.to = Area(move.src.lo, call.src + 1)
        BY <3>1 DEF Copy
      <3>3. call'.from.hi = call.dst + 1 /\ call'.to.hi = call.src + 1
        BY <3>2 DEF Area
      <3>4. Placed'
        BY <1>1, <2>3, <3>1, <3>2, <3>3 DEF Placed
      <3>5. QED
        BY <1>1, <3>1, <3>4 DEF Inside
    <2>7. CASE ~(call.ret < 0)
      <3>1. PICK k \in Nat : k <= move.dst.hi /\ flash' = Erase(Area(call.dst + 1, k)) /\ pc' = "moved"
        <4>1. \A k \in call.dst + 1 .. move.dst.hi : k \in Nat /\ k <= move.dst.hi
          BY <2>2, <2>3 DEF Ranges
        <4>2. move.dst.hi \in Nat /\ move.dst.hi <= move.dst.hi
          BY <2>2 DEF Ranges
        <4>3. QED
          BY <2>5, <2>7, <4>1, <4>2 DEF ForwardEnds
      <3>2. Within(Area(call.dst + 1, k)) \subseteq Within(move.dst)
        BY <2>2, <2>3, <3>1 DEF Within, Area, Ranges
      <3>3. flash'.erased \subseteq flash.erased \cup Within(Area(call.dst + 1, k))
        BY <3>1, EraseFact DEF InPlace, Shapes
      <3>4. Inside'
        BY <1>1, <3>2, <3>3 DEF Inside
      <3>5. Placed'
        BY <3>1 DEF Placed
      <3>6. QED
        BY <3>4, <3>5
    <2>8. QED
      BY <2>6, <2>7
  <1>4. QED
    BY <1>2, <1>3

(* The copy begins at the start of both places.                            *)
LEMMA StartPlaced ==
  ASSUME ~OntoItself, Shapes, Placed, Inside, Start
  PROVE  Shapes' /\ Placed' /\ Inside'
  <1>1. /\ call' = Copy("fwd", move.src, move.dst, Unset, Unset, FALSE) /\ pc' = "forward" /\ pc = "start"
        /\ UNCHANGED <<flash, move, faults, before, stray, late>>
    BY DEF Start, MoveForward
  <1>2. /\ Ranges(move.src) /\ Ranges(move.dst)
        /\ move.src = Area(move.src.lo, move.src.hi) /\ move.dst = Area(move.dst.lo, move.dst.hi)
    BY MoveFact DEF Shapes
  <1>3. CallRecord(call')
    BY <1>1, CopyRecord
  <1>4. Shapes'
    BY <1>1, <1>3 DEF Shapes
  <1>5. /\ call'.dir = "fwd" /\ call'.failBad = FALSE /\ call'.src = Unset /\ call'.dst = Unset
        /\ call'.from = move.src /\ call'.to = move.dst
    BY <1>1 DEF Copy
  <1>6. ~stray
    BY <1>1 DEF Placed
  <1>7. Placed'
    <2>1. /\ call'.from = Area(call'.from.lo, move'.src.hi) /\ call'.from.lo \in Nat
          /\ call'.to = Area(call'.to.lo, move'.dst.hi) /\ call'.to.lo \in Nat
      BY <1>1, <1>2, <1>5 DEF Ranges
    <2>2. move'.src.lo <= call'.from.lo /\ move'.dst.lo <= call'.to.lo
      <3>1. /\ move'.src.lo = move.src.lo /\ call'.from.lo = move.src.lo
            /\ move'.dst.lo = move.dst.lo /\ call'.to.lo = move.dst.lo
        BY <1>1, <1>5
      <3>2. move.src.lo \in Nat /\ move.dst.lo \in Nat
        BY <1>2 DEF Ranges
      <3>3. QED
        BY <3>1, <3>2
    <2>3. QED
      BY <1>1, <1>5, <1>6, <2>1, <2>2 DEF Placed
  <1>8. QED
    BY <1>1, <1>4, <1>7 DEF Inside

(* The end of the revert.                                                  *)
LEMMA UndonePlaced ==
  ASSUME Shapes, Undone
  PROVE  Shapes' /\ Placed'
  <1>1. /\ pc' = "moved" /\ call' = NoCall /\ err' = err
        /\ UNCHANGED <<flash, move, faults, before, stray>>
    BY DEF Undone, Finish, Returned
  <1>2. CallRecord(call')
    BY <1>1, CopyRecord
  <1>3. QED
    BY <1>1, <1>2 DEF Shapes, Placed

(* Every step keeps the copy, and what is erased, within the two places.   *)
LEMMA PlaceStep ==
  ASSUME PlaceInv, [Next]_vars
  PROVE  PlaceInv'
  <1>1. move' = move
    BY DEF Next, vars, Start, CopyStep, ForwardReturned, BackwardReturned, Shift, ShiftReturned, Unshifted,
           Undone, Done, Returned
  <1> SUFFICES ASSUME ~OntoItself PROVE Shapes' /\ Placed' /\ (~stray' => Inside')
    BY <1>1 DEF PlaceInv, OntoItself
  <1>2. Shapes /\ Placed /\ (~stray => Inside)
    BY DEF PlaceInv
  <1>3. pc \in {"start", "forward", "undo", "moved"}
    BY <1>2 DEF Shapes
  <1>4. CASE Start
    <2>1. ~stray
      BY <1>2, <1>4 DEF Start, Placed
    <2>2. QED
      BY <1>2, <1>4, <2>1, StartPlaced
  <1>5. CASE CopyStep
    <2>1. Shapes' /\ UNCHANGED <<move, pc, stray>>
      BY <1>2, <1>5, CopyShapes DEF CopyStep
    <2>2. CASE stray
      <3>1. Placed'
        BY <1>2, <2>1, <2>2 DEF Placed
      <3>2. QED
        BY <2>1, <2>2, <3>1
    <2>3. CASE ~stray
      <3>1. pc \in {"forward", "undo"}
        BY <1>3, <1>5 DEF CopyStep
      <3>2. InPlace
        BY <1>2, <2>3, <3>1 DEF InPlace
      <3>3. QED
        BY <1>2, <1>5, <2>1, <2>3, <3>2, CopyPlaced
    <2>4. QED
      BY <2>2, <2>3
  <1>6. CASE ForwardReturned
    <2>1. pc = "forward"
      BY <1>6 DEF ForwardReturned, Returned
    <2>2. ~stray
      BY <1>2, <2>1 DEF Placed
    <2>3. InPlace
      BY <1>2, <2>1, <2>2 DEF InPlace
    <2>4. QED
      BY <1>2, <1>6, <2>2, <2>3, ForwardPlaced, ForwardShapes
  <1>7. CASE Undone
    <2>1. Shapes' /\ Placed'
      BY <1>2, <1>7, UndonePlaced
    <2>2. UNCHANGED <<flash, move, stray>>
      BY <1>7 DEF Undone, Returned
    <2>3. QED
      BY <1>2, <2>1, <2>2 DEF Inside
  <1>8. CASE UNCHANGED vars
    <2>1. Shapes' /\ Placed' /\ (Inside' <=> Inside) /\ stray' = stray
      BY <1>2, <1>8 DEF vars, Shapes, Placed, Inside
    <2>2. QED
      BY <1>2, <2>1
  <1>9. ~(BackwardReturned \/ Shift \/ ShiftReturned \/ Unshifted)
    BY <1>3 DEF BackwardReturned, Shift, ShiftReturned, Unshifted, Returned
  <1>10. QED
    BY <1>4, <1>5, <1>6, <1>7, <1>8, <1>9 DEF Next, Done

(* A move elsewhere touches no other partition: movePart, and the revert   *)
(* of a failed copy, erase only blocks of the partition's old and new      *)
(* place, whatever blocks are bad or turn bad and whatever fails.          *)
THEOREM NeighboursUntouched == Spec => []OthersUntouched
  <1>1. Init => PlaceInv
    BY InitPlaced
  <1>2. PlaceInv /\ [Next]_vars => PlaceInv'
    BY PlaceStep
  <1>3. PlaceInv => OthersUntouched
    BY DEF PlaceInv, OthersUntouched
  <1>4. QED
    BY <1>1, <1>2, <1>3, PTL DEF Spec

-----------------------------------------------------------------------------
(* Mirrors grows at the end by a block and its copy ...                    *)
LEMMA MirrorAdd ==
  ASSUME NEW d \in [Blocks -> Int], NEW A, A \subseteq Blocks, NEW B, B \subseteq Blocks, Mirrors(d, A, B),
         NEW y \in Blocks, NEW x \in Blocks, \A a \in A : a < y, \A b \in B : b < x,
         NEW e, e = [d EXCEPT ![y] = x]
  PROVE  Mirrors(e, A \cup {y}, B \cup {x})
  <1>1. e[y] = x /\ \A a \in A : e[a] = d[a] /\ a # y
    <2>1. Blocks \subseteq Int
      BY DEF Blocks
    <2>2. QED
      BY <2>1
  <1>2. /\ \A a \in A : d[a] \in B
        /\ \A b \in B : \E a \in A : d[a] = b
        /\ \A a, c \in A : a < c => d[a] < d[c]
    BY DEF Mirrors
  <1>3. \A a \in A \cup {y} : e[a] \in B \cup {x}
    BY <1>1, <1>2
  <1>4. \A b \in B \cup {x} : \E a \in A \cup {y} : e[a] = b
    BY <1>1, <1>2
  <1>5. ASSUME NEW a \in A \cup {y}, NEW c \in A \cup {y}, a < c PROVE e[a] < e[c]
    <2>1. CASE a \in A /\ c \in A
      BY <1>1, <1>2, <1>5, <2>1
    <2>2. CASE a \in A /\ c = y
      BY <1>1, <1>2, <2>2
    <2>3. CASE a = y /\ c \in A
      <3>1. c < y /\ y < c /\ y \in Int /\ c \in Int
        BY <1>5, <2>3 DEF Blocks
      <3>2. QED
        BY <3>1
    <2>4. CASE a = y /\ c = y
      BY <1>5, <2>4 DEF Blocks
    <2>5. QED
      BY <2>1, <2>2, <2>3, <2>4
  <1>6. QED
    BY <1>3, <1>4, <1>5 DEF Mirrors

(* ... its last block holds the number of the other's last one ...         *)
LEMMA MirrorTop ==
  ASSUME NEW d, NEW A, A \subseteq Blocks, NEW B, B \subseteq Blocks, Mirrors(d, A, B),
         NEW x \in A, \A a \in A : a <= x, NEW y \in B, \A b \in B : b <= y
  PROVE  d[x] = y
  <1>1. d[x] \in B /\ d[x] <= y
    BY DEF Mirrors
  <1>2. PICK a \in A : d[a] = y
    BY DEF Mirrors
  <1>7. Blocks \subseteq Int
    BY DEF Blocks
  <1>3. a <= x /\ a \in Int /\ x \in Int /\ y \in Int /\ d[x] \in Int
    BY <1>1, <1>7
  <1>4. a < x => y < d[x]
    BY <1>2 DEF Mirrors
  <1>5. a = x
    BY <1>1, <1>3, <1>4
  <1>6. QED
    BY <1>2, <1>5

(* ... and goes without the two.                                           *)
LEMMA MirrorDrop ==
  ASSUME NEW d, NEW A, A \subseteq Blocks, NEW B, B \subseteq Blocks, Mirrors(d, A, B),
         NEW x \in A, NEW y \in B, d[x] = y
  PROVE  Mirrors(d, A \ {x}, B \ {y})
  <1>1. /\ \A a \in A : d[a] \in B
        /\ \A b \in B : \E a \in A : d[a] = b
        /\ \A a, c \in A : a < c => d[a] < d[c]
    BY DEF Mirrors
  <1>2. ASSUME NEW a \in A \ {x} PROVE d[a] \in B \ {y}
    <2>1. a < x \/ x < a
      BY DEF Blocks
    <2>2. d[a] < d[x] \/ d[x] < d[a]
      BY <1>1, <2>1
    <2>5. Blocks \subseteq Int
      BY DEF Blocks
    <2>3. d[a] \in B /\ d[a] \in Int /\ d[x] \in Int
      BY <1>1, <2>5
    <2>4. QED
      BY <2>2, <2>3
  <1>3. \A b \in B \ {y} : \E a \in A \ {x} : d[a] = b
    BY <1>1
  <1>4. \A a, c \in A \ {x} : a < c => d[a] < d[c]
    BY <1>1
  <1>5. QED
    BY <1>2, <1>3, <1>4 DEF Mirrors

(* It is about the copied blocks only.                                     *)
LEMMA MirrorSame ==
  ASSUME NEW d, NEW e, NEW A, NEW B, Mirrors(d, A, B), \A a \in A : e[a] = d[a]
  PROVE  Mirrors(e, A, B)
  BY DEF Mirrors

(* As long as the old place is intact nothing is lost.                     *)
LEMMA IntactKept ==
  ASSUME move \in Moves, Intact, SameBad
  PROVE  Kept /\ Reverts
  <1>1. Ranges(move.src)
    BY MoveFact
  <1>2. Within(move.src) \subseteq Blocks
    BY <1>1, MoveAssumption DEF Ranges, Within, Blocks
  <1>3. \A b \in OldGood : b \in Blocks \ flash.bad /\ flash.data[b] = b
    BY <1>2 DEF OldGood, Intact, SameBad
  <1>4. QED
    BY <1>3 DEF Kept, Reverts

(* Before the copy every block holds its own data.                         *)
LEMMA InitData == Init => DataInv
  <1> SUFFICES ASSUME Init PROVE Going /\ Kept /\ Reverts /\ Followed
    BY DEF DataInv
  <1>1. PICK bad \in SUBSET Blocks, frail \in SUBSET Blocks :
          flash = [data |-> [b \in Blocks |-> b], bad |-> bad, frail |-> frail, erased |-> {}]
    BY DEF Init, kSubset
  <1>2. move \in Moves /\ before = flash /\ pc = "start" /\ faults = move.faults
    BY DEF Init
  <1>3. Within(move.src) \subseteq Blocks
    BY <1>2, MoveFact, MoveAssumption DEF Ranges, Within, Blocks
  <1>4. Intact /\ SameBad
    BY <1>1, <1>2, <1>3 DEF Intact, SameBad
  <1>5. Kept /\ Reverts
    BY <1>2, <1>4, IntactKept
  <1>6. QED
    BY <1>2, <1>4, <1>5 DEF Going, Followed, Copied

(* A copy in its place, between two places apart.                          *)
Between == InPlace /\ Apart /\ call.ret = BUSY

(* What such a copy can rely on: both places lie within the device and     *)
(* have no block in common.                                                *)
LEMMA BetweenFact ==
  ASSUME Between
  PROVE  /\ Ranges(move.src) /\ Ranges(move.dst) /\ move \in Moves
         /\ Within(move.src) \subseteq Blocks /\ Within(move.dst) \subseteq Blocks
         /\ \A b \in Within(move.src) : b \notin Within(move.dst)
         /\ FlashRecord(flash) /\ flash.data \in [Blocks -> Int] /\ before.bad \subseteq flash.bad
  <1>1. Ranges(move.src) /\ Ranges(move.dst) /\ move \in Moves
    BY MoveFact DEF Between, InPlace, Shapes
  <1>2. Within(move.src) \subseteq Blocks /\ Within(move.dst) \subseteq Blocks
    BY <1>1, MoveAssumption DEF Ranges, Within, Blocks
  <1>3. QED
    BY <1>1, <1>2 DEF Between, Apart, InPlace, Shapes

(* The block a forward copy finds next in a place p it has dealt with up   *)
(* to block n.                                                             *)
LEMMA NextBlock ==
  ASSUME NEW p, Ranges(p), NEW n \in Nat, p.lo <= n, NEW bad, NEW b, Aim("fwd", bad, Area(n, p.hi), b)
  PROVE  /\ b \in Within(p) /\ b \in Blocks /\ b \in Int /\ b \notin bad /\ b \notin Below(bad, p, n)
         /\ \A c \in Below(bad, p, n) : c \in Int /\ c < b
         /\ Below(bad, p, b + 1) = Below(bad, p, n) \cup {b}
         /\ Below(bad \cup {b}, p, b + 1) = Below(bad, p, n)
  <1> DEFINE lo == p.lo
             hi == p.hi
             W == lo .. hi - 1
             V == n .. hi - 1
  <1>1. lo \in Nat /\ hi \in Nat /\ lo <= n
    BY DEF Ranges
  <1>2. Within(p) = W /\ Within(Area(n, p.hi)) = V
    BY DEF Within, Area
  <1>3. b \in V /\ b \in Blocks /\ b \notin bad /\ b \in Nat /\ \A c \in V \ bad : b <= c
    BY <1>2 DEF Aim
  <1>4. \A m : Below(bad, p, m) = {c \in W \ bad : c < m}
    BY <1>2 DEF Below
  <1>5. \A m : Below(bad \cup {b}, p, m) = {c \in W \ (bad \cup {b}) : c < m}
    BY <1>2 DEF Below
  <1> HIDE DEF lo, hi
  <1>6. b \in W /\ n <= b
    BY ONLY <1>1, <1>3, n \in Nat
  <1>7. \A c \in W : c \in Int /\ (c \in V <=> n <= c)
    BY ONLY <1>1, n \in Nat
  <1> HIDE DEF W, V
  <1>8. ASSUME NEW c \in W \ bad PROVE (c < b + 1 <=> c < n \/ c = b) /\ (c < n => c < b)
    <2>1. c \in Int /\ (n <= c => b <= c)
      BY ONLY <1>3, <1>7, c \in W \ bad
    <2>2. QED
      BY ONLY <1>3, <1>6, <2>1, n \in Nat
  <1>9. ~(b < n)
    BY ONLY <1>3, <1>6, n \in Nat
  <1>10. Below(bad, p, b + 1) = Below(bad, p, n) \cup {b}
    BY ONLY <1>3, <1>4, <1>6, <1>8
  <1>11. Below(bad \cup {b}, p, b + 1) = Below(bad, p, n)
    <2>1. ASSUME NEW c \in W PROVE (c \notin bad \cup {b} /\ c < b + 1) <=> (c \notin bad /\ c < n)
      <3>1. CASE c \in bad
        BY <3>1
      <3>2. CASE c = b
        BY ONLY <1>9, <3>2
      <3>3. CASE c \notin bad /\ c # b
        BY ONLY <1>8, <3>3, c \in W
      <3>4. QED
        BY <3>1, <3>2, <3>3
    <2>2. QED
      BY ONLY <1>4, <1>5, <2>1
  <1>12. \A c \in Below(bad, p, n) : c \in Int /\ c < b
    BY ONLY <1>4, <1>7, <1>8
  <1>13. QED
    BY <1>2, <1>3, <1>4, <1>6, <1>9, <1>10, <1>11, <1>12

(* It finds none when it has dealt with all of them.                       *)
LEMMA NoneLeft ==
  ASSUME NEW p, Ranges(p), NEW n \in Nat, p.lo <= n, NEW bad, Within(Area(n, p.hi)) \ bad = {}
  PROVE  \A b \in Within(p) \ bad : b < n
  <1> DEFINE lo == p.lo
             hi == p.hi
  <1>1. lo \in Nat /\ hi \in Nat
    BY DEF Ranges
  <1>2. Within(p) = lo .. hi - 1 /\ Within(Area(n, p.hi)) = n .. hi - 1
    BY DEF Within, Area
  <1> HIDE DEF lo, hi
  <1>3. \A b \in lo .. hi - 1 : b < n \/ b \in n .. hi - 1
    BY ONLY <1>1, n \in Nat
  <1>4. QED
    BY <1>2, <1>3

(* The block a backward copy finds next in a place p it has dealt with     *)
(* down to block h.                                                        *)
LEMMA LastBlock ==
  ASSUME NEW p, Ranges(p), NEW h \in Nat, h <= p.hi, NEW bad, NEW b, Aim("back", bad, Area(p.lo, h), b)
  PROVE  /\ b \in Within(p) /\ b \in Blocks /\ b \in Int /\ b \notin bad /\ b \in Below(bad, p, h)
         /\ \A c \in Below(bad, p, h) : c <= b
         /\ Below(bad, p, b) = Below(bad, p, h) \ {b}
  <1> DEFINE lo == p.lo
             hi == p.hi
             W == lo .. hi - 1
             V == lo .. h - 1
  <1>1. lo \in Nat /\ hi \in Nat /\ h <= hi
    BY DEF Ranges
  <1>2. Within(p) = W /\ Within(Area(p.lo, h)) = V
    BY DEF Within, Area
  <1>3. b \in V /\ b \in Blocks /\ b \notin bad /\ b \in Nat /\ \A c \in V \ bad : c <= b
    BY <1>2 DEF Aim
  <1>4. \A m : Below(bad, p, m) = {c \in W \ bad : c < m}
    BY <1>2 DEF Below
  <1> HIDE DEF lo, hi
  <1>6. b \in W /\ b < h
    BY ONLY <1>1, <1>3, h \in Nat
  <1>7. \A c \in W : c \in Int /\ (c \in V <=> c < h)
    BY ONLY <1>1, h \in Nat
  <1> HIDE DEF W, V
  <1>8. ASSUME NEW c \in W \ bad PROVE (c < b <=> c < h /\ c # b) /\ (c < h => c <= b)
    <2>1. c \in Int /\ (c < h => c <= b)
      BY ONLY <1>3, <1>7, c \in W \ bad
    <2>2. QED
      BY ONLY <1>3, <1>6, <2>1, h \in Nat
  <1>10. Below(bad, p, b) = Below(bad, p, h) \ {b}
    BY ONLY <1>4, <1>8
  <1>12. \A c \in Below(bad, p, h) : c <= b
    BY ONLY <1>4, <1>8
  <1>13. QED
    BY <1>2, <1>3, <1>4, <1>6, <1>10, <1>12

(* Forward, what a step of the copy does to the blocks below it.           *)
LEMMA ForthFact ==
  ASSUME Between, pc = "forward", Forth, CopyStep
  PROVE  Forth'
  <1> DEFINE x == From.at
             y == To.at
             n == call.from.lo
             k == call.to.lo
             A == Below(flash.bad, move.dst, k)
             B == Below(flash.bad, move.src, n)
  <1>1. /\ Ranges(move.src) /\ Ranges(move.dst) /\ move \in Moves
        /\ Within(move.src) \subseteq Blocks /\ Within(move.dst) \subseteq Blocks
        /\ \A b \in Within(move.src) : b \notin Within(move.dst)
        /\ FlashRecord(flash) /\ flash.data \in [Blocks -> Int]
    BY BetweenFact
  <1>2. Copying(x, y)
    BY CopyFact DEF Between, InPlace, Shapes
  <1>3. /\ From.err = EOK => Aim("fwd", flash.bad, call.from, x)
        /\ From.err # EOK => From.err = DONE /\ Within(call.from) \ flash.bad = {}
        /\ To.err = EOK => Aim("fwd", flash.bad, call.to, y)
        /\ To.err # EOK => To.err = DONE
    BY AimFact DEF Between, InPlace, Placed
  <1>4. UNCHANGED <<move, pc, before, stray>> /\ call.ret = BUSY
    BY DEF CopyStep
  <1>5. /\ call.dir = "fwd" /\ call.failBad = FALSE
        /\ call.from = Area(n, move.src.hi) /\ n \in Nat /\ move.src.lo <= n
        /\ call.to = Area(k, move.dst.hi) /\ k \in Nat /\ move.dst.lo <= k
    BY DEF Between, InPlace, Placed
  <1>6. /\ Intact /\ SameBad /\ Used(call.ret) /\ call.ret \in Int /\ Mirrors(flash.data, A, B)
        /\ call.dst # Unset => (\A a \in A : a <= call.dst) /\ (\A b \in B : b <= call.src)
    BY DEF Forth
  <1> HIDE DEF x, y
  <1>7. move.faults - faults = 0 /\ faults \in Nat /\ move.faults \in Nat
    BY <1>4, <1>6, MoveFact DEF Used, BUSY, EIO, Between, InPlace, Shapes
  <1>8. Blocks \subseteq Int /\ A \subseteq Blocks /\ B \subseteq Blocks
    BY <1>1 DEF Below, Blocks
  <1>9. ASSUME From.err = EOK
        PROVE  /\ x \in Within(move.src) /\ x \in Blocks /\ x \in Int /\ x \notin flash.bad
               /\ \A c \in B : c \in Int /\ c < x
               /\ Below(flash.bad, move.src, x + 1) = B \cup {x}
    <2>1. Aim("fwd", flash.bad, Area(n, move.src.hi), x)
      BY <1>3, <1>5, <1>9
    <2>2. Ranges(move.src) /\ n \in Nat /\ move.src.lo <= n
      BY <1>1, <1>5
    <2> HIDE DEF n
    <2>3. /\ x \in Within(move.src) /\ x \in Blocks /\ x \in Int /\ x \notin flash.bad /\ x \notin B
          /\ \A c \in B : c \in Int /\ c < x
          /\ Below(flash.bad, move.src, x + 1) = B \cup {x}
          /\ Below(flash.bad \cup {x}, move.src, x + 1) = B
      BY ONLY <2>1, <2>2, NextBlock DEF B
    <2>4. QED
      BY <2>3
  <1>10. ASSUME To.err = EOK
         PROVE  /\ y \in Within(move.dst) /\ y \in Blocks /\ y \in Int /\ y \notin flash.bad /\ y \notin A
                /\ \A c \in A : c \in Int /\ c < y
                /\ Below(flash.bad, move.dst, y + 1) = A \cup {y}
                /\ Below(flash.bad \cup {y}, move.dst, y + 1) = A
    <2>1. Aim("fwd", flash.bad, Area(k, move.dst.hi), y)
      BY <1>3, <1>5, <1>10
    <2>2. Ranges(move.dst) /\ k \in Nat /\ move.dst.lo <= k
      BY <1>1, <1>5
    <2> HIDE DEF k
    <2>3. QED
      BY ONLY <2>1, <2>2, NextBlock DEF A
  <1>11. To.err = EOK => y \notin Within(move.src) /\ y \notin A /\ y \notin B
    BY <1>1, <1>10 DEF Below
  <1>12. ASSUME flash'.bad = flash.bad, \A b \in Within(move.src) \cup A : flash'.data[b] = flash.data[b]
         PROVE  (Intact /\ SameBad)' /\ Mirrors(flash'.data, A, B)
    <2>1. Intact' /\ SameBad'
      BY <1>4, <1>6, <1>12 DEF Intact, SameBad
    <2>2. Mirrors(flash'.data, A, B)
      <3> HIDE DEF A, B
      <3>1. \A a \in A : flash'.data[a] = flash.data[a]
        BY <1>12
      <3>2. QED
        BY ONLY <1>6, <3>1, MirrorSame
    <2>3. QED
      BY <2>1, <2>2
  <1>13. ASSUME NEW e \in Int, Answers(e), flash'.bad = flash.bad,
                \A b \in Within(move.src) \cup A : flash'.data[b] = flash.data[b],
                Used(e)', e < 0 \/ \A b \in Within(move.src) \ flash.bad : b < n
         PROVE  Forth'
    <2>1. /\ call'.from = call.from /\ call'.to = call.to /\ call'.src = call.src /\ call'.dst = call.dst
          /\ call'.ret = e
      BY <1>13 DEF Answers
    <2>2. (Intact /\ SameBad)' /\ Mirrors(flash'.data, A, B)
      BY <1>12, <1>13
    <2>3. Used(call.ret)'
      BY <1>13, <2>1 DEF Used
    <2>4. QED
      BY <1>4, <1>6, <1>13, <2>1, <2>2, <2>3 DEF Forth
  <1>14. CASE From.err # EOK /\ Answers(From.err) /\ flash' = flash /\ faults' = faults
    <2>1. \A b \in Within(move.src) \ flash.bad : b < n
      <3>1. Within(Area(n, move.src.hi)) \ flash.bad = {}
        BY <1>3, <1>5, <1>14
      <3> HIDE DEF n
      <3>2. QED
        BY ONLY <1>1, <1>5, <3>1, NoneLeft
    <2>2. Used(DONE)'
      BY <1>4, <1>7, <1>14 DEF Used, DONE, EIO
    <2>3. DONE \in Int
      BY DEF DONE
    <2>4. QED
      BY <1>3, <1>13, <1>14, <2>1, <2>2, <2>3
  <1>15. CASE /\ From.err = EOK /\ To.err # EOK /\ Answers(IF To.err = DONE THEN ENOSPC ELSE To.err)
              /\ flash' = flash /\ faults' = faults
    <2>1. Answers(ENOSPC)
      BY <1>3, <1>15
    <2>2. Used(ENOSPC)' /\ ENOSPC < 0 /\ ENOSPC \in Int
      BY <1>4, <1>7, <1>15 DEF Used, ENOSPC, EIO
    <2>3. QED
      BY <1>13, <1>15, <2>1, <2>2
  <1>16. CASE From.err = EOK /\ To.err = EOK /\ x = y
    BY <1>9, <1>11, <1>16
  <1>17. CASE /\ From.err = EOK /\ To.err = EOK
              /\ flash' = Written(flash, y, flash.data[x]) /\ Passes(x, y) /\ faults' = faults
    <2>1. flash.data[x] = x
      BY <1>6, <1>9, <1>17 DEF Intact
    <2>2. flash' = [data |-> [flash.data EXCEPT ![y] = x], bad |-> flash.bad, frail |-> flash.frail,
                    erased |-> flash.erased \cup {y}]
      BY <1>1, <1>17, <2>1, WrittenFact
    <2>3. flash'.bad = flash.bad /\ flash'.data = [flash.data EXCEPT ![y] = x]
      BY <2>2
    <2>4. \A b \in Within(move.src) \cup A : flash'.data[b] = flash.data[b]
      <3>1. \A b \in Within(move.src) \cup A : b \in Blocks /\ b # y
        BY <1>1, <1>8, <1>11, <1>17
      <3>2. QED
        BY <1>1, <2>3, <3>1
    <2>5. (Intact /\ SameBad)'
      BY <1>12, <2>3, <2>4
    <2>6. Mirrors(flash'.data, A \cup {y}, B \cup {x})
      <3>1. (\A a \in A : a < y) /\ (\A b \in B : b < x) /\ x \in Blocks /\ y \in Blocks
        BY <1>9, <1>10, <1>17
      <3> HIDE DEF A, B
      <3>2. QED
        BY ONLY <1>1, <1>6, <1>8, <2>3, <3>1, MirrorAdd
    <2>7. /\ call'.from = Area(x + 1, move.src.hi) /\ call'.to = Area(y + 1, move.dst.hi)
          /\ call'.src = x /\ call'.dst = y /\ call'.ret = BUSY
      BY <1>4, <1>5, <1>17, RestFact DEF Passes
    <2>8. call'.from.lo = x + 1 /\ call'.to.lo = y + 1
      BY <2>7 DEF Area
    <2>9. x \in Int /\ y \in Int
      BY <1>9, <1>10, <1>17
    <2>10. Below(flash.bad, move.src, x + 1) = B \cup {x} /\ Below(flash.bad, move.dst, y + 1) = A \cup {y}
      BY <1>9, <1>10, <1>17
    <2>12. (\A a \in A \cup {y} : a <= y) /\ (\A b \in B \cup {x} : b <= x)
      <3>1. (\A a \in A : a \in Int /\ a < y) /\ (\A b \in B : b \in Int /\ b < x)
        BY <1>9, <1>10, <1>17
      <3> HIDE DEF A, B
      <3>2. QED
        BY ONLY <2>9, <3>1
    <2>13. Used(call.ret)'
      BY <1>4, <1>6, <1>17, <2>7 DEF Used
    <2> HIDE DEF A, B
    <2>14. QED
      BY <1>4, <2>3, <2>5, <2>6, <2>7, <2>8, <2>10, <2>12, <2>13 DEF Forth
  <1>18. CASE /\ From.err = EOK /\ To.err = EOK
              /\ flash' = Written(flash, y, Torn) \/ flash' = flash
              /\ Answers(EIO) /\ faults > 0 /\ faults' = faults - 1
    <2>1. Used(EIO)' /\ EIO < 0 /\ EIO \in Int
      BY <1>4, <1>7, <1>18 DEF Used, EIO
    <2>2. flash'.bad = flash.bad /\ \A b \in Within(move.src) \cup A : flash'.data[b] = flash.data[b]
      <3>1. CASE flash' = flash
        BY <3>1
      <3>2. CASE flash' = Written(flash, y, Torn)
        <4>1. flash'.bad = flash.bad /\ flash'.data = [flash.data EXCEPT ![y] = Torn]
          BY <1>1, <3>2, WrittenFact
        <4>2. \A b \in Within(move.src) \cup A : b \in Blocks /\ b # y
          BY <1>1, <1>8, <1>11, <1>18
        <4>3. QED
          BY <1>1, <4>1, <4>2
      <3>3. QED
        BY <1>18, <3>1, <3>2
    <2>3. QED
      BY <1>13, <1>18, <2>1, <2>2
  <1>19. CASE From.err = EOK /\ To.err = EOK /\ flash' = Broken(flash, y) /\ faults' = faults /\ Skips(y)
    <2>1. flash'.data = flash.data /\ flash'.bad = flash.bad \cup {y}
      BY <1>1, <1>19, BrokenFact
    <2>2. Intact' /\ SameBad'
      BY <1>4, <1>6, <1>11, <1>19, <2>1 DEF Intact, SameBad
    <2>3. /\ call'.from = call.from /\ call'.to = Area(y + 1, move.dst.hi)
          /\ call'.src = call.src /\ call'.dst = call.dst /\ call'.ret = BUSY
      BY <1>4, <1>5, <1>19, RestFact DEF Skips
    <2>4. call'.to.lo = y + 1
      BY <2>3 DEF Area
    <2>5. Below(flash'.bad, move.src, n) = B
      BY <1>11, <1>19, <2>1 DEF Below
    <2>6. Below(flash'.bad, move.dst, y + 1) = A
      BY <1>10, <1>19, <2>1
    <2>7. Used(call.ret)'
      BY <1>4, <1>6, <1>19, <2>3 DEF Used
    <2> HIDE DEF A, B
    <2>8. QED
      BY <1>4, <1>6, <2>1, <2>2, <2>3, <2>4, <2>5, <2>6, <2>7 DEF Forth
  <1>20. QED
    BY <1>2, <1>5, <1>14, <1>15, <1>16, <1>17, <1>18, <1>19 DEF Copying

(* Backward: every copy writes what is there already.                      *)
LEMMA BackFact ==
  ASSUME Between, pc = "undo", err \in Int, err < 0, BackAgain, CopyStep
  PROVE  (call'.ret = BUSY => BackAgain') /\ Kept' /\ Reverts'
  <1> DEFINE x == From.at
             y == To.at
             n == call.from.hi
             k == call.to.hi
             A == Below(flash.bad, move.dst, n)
             B == Below(flash.bad, move.src, k)
  <1>1. /\ Ranges(move.src) /\ Ranges(move.dst) /\ move \in Moves
        /\ Within(move.src) \subseteq Blocks /\ Within(move.dst) \subseteq Blocks
        /\ \A b \in Within(move.src) : b \notin Within(move.dst)
        /\ FlashRecord(flash) /\ flash.data \in [Blocks -> Int] /\ before.bad \subseteq flash.bad
    BY BetweenFact
  <1>2. Copying(x, y)
    BY CopyFact DEF Between, InPlace, Shapes
  <1>3. /\ From.err = EOK => Aim("back", flash.bad, call.from, x)
        /\ From.err # EOK => From.err = DONE
        /\ To.err = EOK => Aim("back", flash.bad, call.to, y)
        /\ To.err # EOK => To.err = DONE
    BY AimFact DEF Between, InPlace, Placed
  <1>4. UNCHANGED <<move, pc, err, before, stray>> /\ call.ret = BUSY
    BY DEF CopyStep
  <1>5. /\ call.dir = "back" /\ call.failBad = TRUE
        /\ call.from = Area(move.dst.lo, n) /\ n \in Nat /\ n <= move.dst.hi
        /\ call.to = Area(move.src.lo, k) /\ k \in Nat /\ k <= move.src.hi
    BY DEF Between, InPlace, Placed
  <1>6. Intact /\ SameBad /\ Used(err) /\ Mirrors(flash.data, A, B)
    BY DEF BackAgain
  <1> HIDE DEF x, y
  <1>7. faults \in Nat /\ move.faults \in Nat
    BY <1>1, MoveFact DEF Between, InPlace, Shapes
  <1>8. A \subseteq Blocks /\ B \subseteq Blocks
    BY <1>1 DEF Below
  <1>9. ASSUME From.err = EOK
        PROVE  /\ x \in Within(move.dst) /\ x \in Blocks /\ x \in Int /\ x \notin flash.bad /\ x \in A
               /\ \A c \in A : c <= x
               /\ Below(flash.bad, move.dst, x) = A \ {x}
    <2>1. Aim("back", flash.bad, Area(move.dst.lo, n), x)
      BY <1>3, <1>5, <1>9
    <2>2. Ranges(move.dst) /\ n \in Nat /\ n <= move.dst.hi
      BY <1>1, <1>5
    <2> HIDE DEF n
    <2>3. QED
      BY ONLY <2>1, <2>2, LastBlock DEF A
  <1>10. ASSUME To.err = EOK
         PROVE  /\ y \in Within(move.src) /\ y \in Blocks /\ y \in Int /\ y \notin flash.bad /\ y \in B
                /\ \A c \in B : c <= y
                /\ Below(flash.bad, move.src, y) = B \ {y}
    <2>1. Aim("back", flash.bad, Area(move.src.lo, k), y)
      BY <1>3, <1>5, <1>10
    <2>2. Ranges(move.src) /\ k \in Nat /\ k <= move.src.hi
      BY <1>1, <1>5
    <2> HIDE DEF k
    <2>3. QED
      BY ONLY <2>1, <2>2, LastBlock DEF B
  <1>11. From.err = EOK /\ To.err = EOK => flash.data[x] = y /\ flash.data[y] = y /\ x # y
    <2> SUFFICES ASSUME From.err = EOK, To.err = EOK PROVE flash.data[x] = y /\ flash.data[y] = y /\ x # y
      OBVIOUS
    <2>1. x \in A /\ (\A c \in A : c <= x) /\ y \in B /\ \A c \in B : c <= y
      BY <1>9, <1>10
    <2>2. x # y /\ flash.data[y] = y
      BY <1>1, <1>6, <1>9, <1>10 DEF Intact
    <2> HIDE DEF A, B
    <2>3. flash.data[x] = y
      BY ONLY <1>6, <1>8, <2>1, MirrorTop
    <2>4. QED
      BY <2>2, <2>3
  <1>12. ASSUME flash' = flash
         PROVE  Intact' /\ SameBad' /\ Kept' /\ Reverts'
    <2>1. Intact' /\ SameBad' /\ move' \in Moves
      BY <1>1, <1>4, <1>6, <1>12 DEF Intact, SameBad
    <2>2. (move \in Moves /\ Intact /\ SameBad => Kept /\ Reverts)'
      BY IntactKept, PTL
    <2>3. QED
      BY <2>1, <2>2
  <1>13. CASE flash' = flash /\ \E e : Answers(e) /\ e # BUSY
    BY <1>12, <1>13 DEF Answers
  <1>14. CASE /\ From.err = EOK /\ To.err = EOK
              /\ flash' = Written(flash, y, flash.data[x]) /\ Passes(x, y) /\ faults' = faults
    <2>1. flash'.bad = flash.bad /\ flash'.data = [flash.data EXCEPT ![y] = y]
      BY <1>1, <1>11, <1>14, WrittenFact
    <2>2. flash'.data = flash.data
      BY <1>1, <1>11, <1>14, <2>1
    <2>3. Intact' /\ SameBad' /\ move' \in Moves
      BY <1>1, <1>4, <1>6, <2>1, <2>2 DEF Intact, SameBad
    <2>4. (move \in Moves /\ Intact /\ SameBad => Kept /\ Reverts)'
      BY IntactKept, PTL
    <2>5. Used(err)'
      BY <1>4, <1>6, <1>14 DEF Used
    <2>6. call'.from = Area(move.dst.lo, x) /\ call'.to = Area(move.src.lo, y)
      BY <1>5, <1>14, RestFact DEF Passes
    <2>7. call'.from.hi = x /\ call'.to.hi = y
      BY <2>6 DEF Area
    <2>8. Mirrors(flash.data, A \ {x}, B \ {y})
      <3>1. x \in A /\ y \in B /\ flash.data[x] = y
        BY <1>9, <1>10, <1>11, <1>14
      <3> HIDE DEF A, B
      <3>2. QED
        BY ONLY <1>6, <1>8, <3>1, MirrorDrop
    <2>9. Below(flash.bad, move.dst, x) = A \ {x} /\ Below(flash.bad, move.src, y) = B \ {y}
      BY <1>9, <1>10, <1>14
    <2> HIDE DEF A, B
    <2>10. BackAgain'
      BY <1>4, <2>1, <2>2, <2>3, <2>5, <2>7, <2>8, <2>9 DEF BackAgain
    <2>11. QED
      BY <2>3, <2>4, <2>10
  <1>15. ASSUME From.err = EOK, To.err = EOK, flash'.bad \subseteq flash.bad \cup {y},
                \A b \in Blocks \ {y} : flash'.data[b] = flash.data[b]
         PROVE  Kept'
    <2>1. ASSUME NEW b \in OldGood PROVE \E z \in Blocks \ flash'.bad : flash'.data[z] = b
      <3>1. b \in Within(move.src) /\ b \in Blocks /\ b \notin flash.bad /\ flash.data[b] = b
        BY <1>1, <1>6 DEF OldGood, SameBad, Intact
      <3>2. CASE b = y
        <4>1. x \in Blocks \ flash'.bad /\ flash'.data[x] = b
          BY <1>9, <1>11, <1>15, <3>2
        <4>2. QED
          BY <4>1
      <3>3. CASE b # y
        BY <1>15, <3>1, <3>3
      <3>4. QED
        BY <3>2, <3>3
    <2>2. OldGood' = OldGood
      BY <1>4 DEF OldGood
    <2>3. QED
      BY <2>1, <2>2 DEF Kept
  <1>16. CASE /\ From.err = EOK /\ To.err = EOK /\ flash' = Written(flash, y, Torn)
              /\ Answers(EIO) /\ faults' = faults - 1
    <2>1. flash'.bad = flash.bad /\ flash'.data = [flash.data EXCEPT ![y] = Torn]
      BY <1>1, <1>16, WrittenFact
    <2>2. Kept'
      BY <1>1, <1>15, <1>16, <2>1
    <2>3. RevertFailed'
      <3>1. move.faults - faults = IF err = EIO THEN 1 ELSE 0
        BY <1>6 DEF Used
      <3>2. QED
        BY <1>4, <1>7, <1>16, <3>1 DEF RevertFailed
    <2>4. call'.ret # BUSY
      BY <1>16 DEF Answers, EIO, BUSY
    <2>5. QED
      BY <2>2, <2>3, <2>4 DEF Reverts
  <1>17. CASE /\ From.err = EOK /\ To.err = EOK /\ flash' = Broken(flash, y) /\ Answers(EBADMSG)
    <2>1. flash'.data = flash.data /\ flash'.bad = flash.bad \cup {y}
      BY <1>1, <1>17, BrokenFact
    <2>2. Kept'
      BY <1>15, <1>17, <2>1
    <2>3. flash'.bad # before'.bad
      BY <1>1, <1>4, <1>10, <1>17, <2>1
    <2>4. call'.ret # BUSY
      BY <1>17 DEF Answers, EBADMSG, BUSY
    <2>5. QED
      BY <2>2, <2>3, <2>4 DEF Reverts
  <1>18. DONE # BUSY /\ ENOSPC # BUSY /\ EOK # BUSY /\ EIO # BUSY
    BY DEF DONE, ENOSPC, EOK, EIO, BUSY
  <1>19. QED
    BY <1>2, <1>3, <1>5, <1>13, <1>14, <1>16, <1>17, <1>18 DEF Copying

(* The copy begins: nothing is below it, and nothing has been lost.        *)
LEMMA StartData ==
  ASSUME Shapes, Placed, Apart, ~stray, Going, Start
  PROVE  (Going /\ Kept /\ Reverts /\ Followed)'
  <1>1. /\ call' = Copy("fwd", move.src, move.dst, Unset, Unset, FALSE) /\ pc' = "forward" /\ pc = "start"
        /\ UNCHANGED <<flash, move, faults, before, stray>>
    BY DEF Start, MoveForward, Apart
  <1>2. /\ call'.from.lo = move.src.lo /\ call'.to.lo = move.dst.lo
        /\ call'.src = Unset /\ call'.dst = Unset /\ call'.ret = BUSY
    BY <1>1 DEF Copy
  <1>3. Ranges(move.src) /\ Ranges(move.dst) /\ move \in Moves /\ move.faults \in Nat
    BY MoveFact DEF Shapes
  <1>4. Intact /\ SameBad /\ move.faults = faults
    BY <1>1 DEF Going
  <1>5. Intact' /\ SameBad' /\ move' \in Moves
    BY <1>1, <1>3, <1>4 DEF Intact, SameBad
  <1>6. Below(flash.bad, move.src, move.src.lo) = {} /\ Below(flash.bad, move.dst, move.dst.lo) = {}
    <2>1. ASSUME NEW a, Ranges(a) PROVE Below(flash.bad, a, a.lo) = {}
      BY <2>1 DEF Below, Within, Ranges
    <2>2. QED
      BY <1>3, <2>1
  <1>7. Used(call.ret)'
    <2>1. move'.faults - faults' = 0 /\ call'.ret = BUSY
      <3>1. move'.faults = move.faults /\ faults' = move.faults
        BY <1>1, <1>4
      <3>2. ASSUME NEW m \in Nat, NEW k \in Nat, k = m PROVE m - k = 0
        BY <3>2
      <3>3. QED
        BY ONLY <1>2, <1>3, <3>1, <3>2
    <2>2. BUSY # EIO
      BY DEF BUSY, EIO
    <2>3. QED
      BY <2>1, <2>2 DEF Used
  <1>12. call'.ret \in Int
    BY <1>2 DEF BUSY
  <1>8. Mirrors(flash.data, {}, {})
    BY DEF Mirrors
  <1>9. Forth'
    BY <1>1, <1>2, <1>5, <1>6, <1>7, <1>8, <1>12 DEF Forth
  <1>10. (move \in Moves /\ Intact /\ SameBad => Kept /\ Reverts)'
    BY IntactKept, PTL
  <1>11. QED
    BY <1>1, <1>5, <1>9, <1>10 DEF Going, Followed, Copied

(* Each step of the copy, forward or back, keeps what is known of the      *)
(* data.                                                                   *)
LEMMA CopyData ==
  ASSUME InPlace, Apart, Going, CopyStep
  PROVE  (Going /\ Kept /\ Reverts /\ Followed)'
  <1>1. Between /\ UNCHANGED <<move, pc, err, before, stray>>
    BY DEF CopyStep, Between
  <1>2. CASE pc = "forward"
    <2>1. Forth'
      BY <1>1, <1>2, ForthFact DEF Going
    <2>2. Intact' /\ SameBad' /\ move' \in Moves
      BY <1>1, <2>1, BetweenFact DEF Forth
    <2>3. (move \in Moves /\ Intact /\ SameBad => Kept /\ Reverts)'
      BY IntactKept, PTL
    <2>4. QED
      BY <1>1, <1>2, <2>1, <2>2, <2>3 DEF Going, Followed, Copied
  <1>3. CASE pc = "undo"
    <2>1. err \in Int /\ err < 0 /\ BackAgain
      BY <1>1, <1>3 DEF Going, Between
    <2>2. (call'.ret = BUSY => BackAgain') /\ Kept' /\ Reverts'
      BY <1>1, <1>3, <2>1, BackFact
    <2>3. QED
      BY <1>1, <1>3, <2>1, <2>2 DEF Going, Followed, Copied
  <1>4. QED
    BY <1>2, <1>3 DEF InPlace

(* The copy is over: it is undone, or the rest of the new place erased.    *)
LEMMA ForwardData ==
  ASSUME InPlace, Apart, Going, ForwardReturned, call.dst # Unset
  PROVE  (Going /\ Kept /\ Reverts /\ Followed)'
  <1> DEFINE c == call.dst
             s == call.src
             A == Below(flash.bad, move.dst, call.to.lo)
             B == Below(flash.bad, move.src, call.from.lo)
  <1>1. pc = "forward" /\ call.ret # BUSY /\ UNCHANGED <<move, before>>
    BY DEF ForwardReturned, Returned
  <1>2. /\ Intact /\ SameBad /\ Used(call.ret) /\ Mirrors(flash.data, A, B)
        /\ (\A a \in A : a <= c) /\ (\A b \in B : b <= s)
        /\ call.ret \in Int
        /\ call.ret < 0 \/ \A b \in Within(move.src) \ flash.bad : b < call.from.lo
    BY <1>1 DEF Going, Forth
  <1>3. /\ Ranges(move.src) /\ Ranges(move.dst) /\ move \in Moves /\ FlashRecord(flash)
        /\ before.bad \subseteq flash.bad
    BY PlaceFact DEF InPlace, Shapes
  <1>4. /\ s \in Within(move.src) /\ c \in Within(move.dst) /\ s < call.from.lo /\ c < call.to.lo
        /\ call.from.lo \in Nat /\ call.to.lo \in Nat
    BY <1>1 DEF InPlace, Placed
  <1>5. s \in Nat /\ c \in Nat
    BY <1>3, <1>4 DEF Within, Ranges
  <1>6. s # Unset
    BY <1>5 DEF Unset
  <1>7. ForwardEnds(s, c)
    BY <1>6, ForwardFact
  <1>8. Below(flash.bad, move.src, s + 1) = B /\ Below(flash.bad, move.dst, c + 1) = A
    <2>1. ASSUME NEW p, Ranges(p), NEW n \in Nat, NEW b \in Nat, b < n, \A z \in Below(flash.bad, p, n) : z <= b
          PROVE  Below(flash.bad, p, b + 1) = Below(flash.bad, p, n)
      <3>1. Within(p) \subseteq Int
        BY <2>1 DEF Within, Ranges
      <3>2. ASSUME NEW z \in Within(p) \ flash.bad PROVE z < b + 1 <=> z < n
        <4>1. z \in Int /\ (z < n => z <= b)
          BY <2>1, <3>1 DEF Below
        <4>2. QED
          BY ONLY <2>1, <4>1, n \in Nat, b \in Nat
      <3>3. QED
        BY <3>2 DEF Below
    <2>2. QED
      BY <1>2, <1>3, <1>4, <1>5, <2>1
  <1> HIDE DEF A, B, c, s
  <1>9. CASE call.ret < 0
    <2>1. /\ flash' = flash /\ faults' = faults /\ pc' = "undo" /\ err' = call.ret
          /\ call' = Copy("back", Area(move.dst.lo, c + 1), Area(move.src.lo, s + 1), Unset, Unset, TRUE)
      BY <1>7, <1>9 DEF ForwardEnds
    <2>2. call'.from.hi = c + 1 /\ call'.to.hi = s + 1
      BY <2>1 DEF Copy, Area
    <2>3. Intact' /\ SameBad' /\ move' \in Moves
      BY <1>1, <1>2, <1>3, <2>1 DEF Intact, SameBad
    <2>4. Used(err)'
      BY <1>1, <1>2, <2>1 DEF Used
    <2>5. BackAgain'
      BY <1>1, <1>2, <1>8, <2>1, <2>2, <2>3, <2>4 DEF BackAgain
    <2>6. (move \in Moves /\ Intact /\ SameBad => Kept /\ Reverts)'
      BY IntactKept, PTL
    <2>7. QED
      BY <1>2, <1>9, <2>1, <2>3, <2>5, <2>6 DEF Going, Followed, Copied
  <1>10. CASE ~(call.ret < 0)
    <2>1. PICK k \in Nat :
            /\ k <= move.dst.hi /\ flash' = Erase(Area(c + 1, k)) /\ pc' = "moved" /\ (~late' => k = move.dst.hi)
      <3>1. \A k \in c + 1 .. move.dst.hi : k \in Nat /\ k <= move.dst.hi
        BY <1>3, <1>5 DEF Ranges
      <3>2. move.dst.hi \in Nat /\ move.dst.hi <= move.dst.hi
        BY <1>3 DEF Ranges
      <3>3. QED
        BY <1>7, <1>10, <3>1, <3>2 DEF ForwardEnds
    <2> DEFINE V == Within(Area(c + 1, k))
    <2>2. /\ flash'.bad = flash.bad \cup ((V \ flash.bad) \cap flash.frail)
          /\ flash'.data = [b \in Blocks |-> IF b \in (V \ flash.bad) \ flash.frail THEN Erased ELSE flash.data[b]]
      BY <1>3, <2>1, EraseFact
    <2>3. \A b \in Within(move.dst) : b \in Int /\ b \in Blocks /\ (b \in V => b > c) /\ (~late' /\ b > c => b \in V)
      <3>1. V = c + 1 .. k - 1 /\ Within(move.dst) = move.dst.lo .. move.dst.hi - 1
        BY DEF Within, Area
      <3>2. move.dst.lo \in Nat /\ move.dst.hi \in Nat /\ move.dst.hi <= NBLOCKS /\ NBLOCKS \in Nat
        BY <1>3, MoveAssumption DEF Ranges
      <3> HIDE DEF V
      <3>6. k \in Nat /\ k <= move.dst.hi /\ (~late' => k = move.dst.hi)
        BY <2>1
      <3>3. \A b \in Within(move.dst) : b \in Int /\ (b \in V => b > c) /\ (~late' /\ b > c => b \in V)
        BY ONLY <1>5, <3>1, <3>2, <3>6
      <3>4. \A b \in Within(move.dst) : b \in Blocks
        BY ONLY <3>1, <3>2 DEF Blocks
      <3>5. QED
        BY <3>3, <3>4
    <2>4. V \subseteq Within(move.dst)
      <3>1. move.dst.lo \in Nat /\ move.dst.hi \in Nat /\ move.dst.lo <= c
        BY <1>3, <1>4, <1>5 DEF Ranges, Within
      <3>2. V = c + 1 .. k - 1 /\ Within(move.dst) = move.dst.lo .. move.dst.hi - 1
        BY DEF Within, Area
      <3> HIDE DEF V
      <3>4. k \in Nat /\ k <= move.dst.hi
        BY <2>1
      <3>3. QED
        BY ONLY <1>5, <3>1, <3>2, <3>4
    <2> HIDE DEF V
    <2>5. \A b \in Within(move.src) : b \notin V /\ b \in Blocks
      <3>1. Within(move.src) \subseteq Blocks
        BY <1>3, MoveAssumption DEF Ranges, Within, Blocks
      <3>2. QED
        BY <2>4, <3>1 DEF Apart
    <2>6. Intact' /\ SameBad' /\ move' \in Moves
      BY <1>1, <1>2, <1>3, <2>2, <2>5 DEF Intact, SameBad
    <2>7. (move \in Moves /\ Intact /\ SameBad => Kept /\ Reverts)'
      BY IntactKept, PTL
    <2>8. B = OldGood
      <3>1. B = Within(move.src) \ flash.bad
        BY <1>2, <1>10 DEF B, Below
      <3>2. QED
        BY <1>2, <1>3, <3>1 DEF OldGood, SameBad
    <2>9. Below(flash'.bad, move.dst, c + 1) = A
      <3>1. ASSUME NEW b \in Within(move.dst), b < c + 1 PROVE b \notin V
        BY <1>5, <2>3, <3>1
      <3>2. Below(flash'.bad, move.dst, c + 1) = Below(flash.bad, move.dst, c + 1)
        BY <2>2, <3>1 DEF Below
      <3>3. QED
        BY <1>8, <3>2
    <2>10. \A a \in A : flash'.data[a] = flash.data[a]
      <3>1. ASSUME NEW a \in A PROVE a \in Blocks /\ a \notin V
        <4>1. a \in Within(move.dst) /\ a < c + 1
          BY <1>8 DEF Below
        <4>2. QED
          BY <1>5, <2>3, <4>1
      <3>2. QED
        BY <2>2, <3>1
    <2>11. Mirrors(flash'.data, A, OldGood)
      BY ONLY <1>2, <2>8, <2>10, MirrorSame
    <2>12. ~late' => \A b \in Within(move.dst) \ flash'.bad : b > c => flash'.data[b] = Erased
      BY <2>2, <2>3
    <2>13. Followed'
      <3>1. OldGood' = OldGood
        BY <1>1 DEF OldGood
      <3>2. c \in Within(move.dst)
        BY <1>4 DEF c
      <3>3. QED
        BY <1>1, <2>9, <2>11, <2>12, <3>1, <3>2 DEF Followed
    <2>14. QED
      BY <2>1, <2>6, <2>7, <2>13 DEF Going
  <1>11. QED
    BY <1>9, <1>10

(* Every step keeps what is known of the data.                             *)
LEMMA DataStep ==
  ASSUME PlaceInv, DataInv, [Next]_vars
  PROVE  DataInv'
  <1>1. move' = move
    BY DEF Next, vars, Start, CopyStep, ForwardReturned, BackwardReturned, Shift, ShiftReturned, Unshifted,
           Undone, Done, Returned
  <1> SUFFICES ASSUME Apart, ~stray' PROVE (Going /\ Kept /\ Reverts /\ Followed)'
    BY <1>1 DEF DataInv, Apart, OntoItself
  <1>2. Shapes /\ Placed /\ pc \in {"start", "forward", "undo", "moved"}
    BY DEF PlaceInv, Apart, Shapes
  <1>3. CASE Start
    <2>1. ~stray
      BY <1>2, <1>3 DEF Start, Placed
    <2>2. QED
      BY <1>2, <1>3, <2>1, StartData DEF DataInv
  <1>4. CASE CopyStep
    <2>1. InPlace
      BY <1>2, <1>4 DEF CopyStep, InPlace, Apart
    <2>2. QED
      BY <1>4, <2>1, CopyData DEF DataInv, InPlace
  <1>5. CASE ForwardReturned
    <2>1. call.dst # Unset /\ pc = "forward"
      BY <1>5 DEF ForwardReturned, Returned
    <2>2. InPlace
      BY <1>2, <2>1 DEF Placed, InPlace, Apart
    <2>3. QED
      BY <1>5, <2>1, <2>2, ForwardData DEF DataInv, InPlace
  <1>6. CASE Undone
    <2>1. /\ pc = "undo" /\ pc' = "moved" /\ err' = err /\ UNCHANGED <<flash, move, faults, before, stray, late>>
      BY <1>6 DEF Undone, Finish, Returned
    <2>2. err \in Int /\ err < 0 /\ Kept /\ Reverts
      BY <2>1 DEF DataInv, Going
    <2>3. Kept' /\ Going'
      BY <2>1, <2>2 DEF Kept, OldGood, Going
    <2>4. Reverts'
      BY <2>1, <2>2 DEF Reverts, RevertFailed, Intact
    <2>5. ~(err >= 0) /\ ~late
      BY <1>2, <2>1, <2>2 DEF Shapes
    <2>6. QED
      BY <2>1, <2>3, <2>4, <2>5 DEF Followed, Copied
  <1>7. CASE UNCHANGED vars
    <2>1. Going /\ Kept /\ Reverts /\ Followed
      BY <1>7 DEF DataInv, vars
    <2>2. Going' /\ Kept' /\ Reverts' /\ Followed'
      BY <1>7, <2>1 DEF vars, Going, Forth, BackAgain, Intact, SameBad, Used, Kept, OldGood, Reverts, RevertFailed, Followed, Copied
    <2>3. QED
      BY <2>2
  <1>8. ~(BackwardReturned \/ Shift \/ ShiftReturned \/ Unshifted)
    BY <1>2 DEF BackwardReturned, Shift, ShiftReturned, Unshifted, Returned
  <1>9. QED
    BY <1>3, <1>4, <1>5, <1>6, <1>7, <1>8 DEF Next, Done

(* The numbers of a place's blocks, in order.                              *)
Numbers(a) == [i \in 1 .. a.hi - a.lo |-> a.lo + i - 1]

(* The good ones among them.                                               *)
Goods(bad, a) == Keep(Numbers(a), Within(a) \ bad)

(* Goods lists the good blocks of the place, each once and in order.       *)
LEMMA GoodsFact ==
  ASSUME NEW a, Ranges(a), NEW bad
  PROVE  /\ Goods(bad, a) \in Seq(Int) /\ Ascending(Goods(bad, a))
         /\ \A i \in 1 .. Len(Goods(bad, a)) : Goods(bad, a)[i] \in Within(a) \ bad
         /\ \A b \in Within(a) \ bad : \E i \in 1 .. Len(Goods(bad, a)) : Goods(bad, a)[i] = b
  <1>1. Numbers(a) \in Seq(Int)
    <2>1. a.lo \in Nat /\ a.hi \in Nat
      BY DEF Ranges
    <2>2. CASE a.hi >= a.lo
      <3>1. a.hi - a.lo \in Nat /\ \A i \in 1 .. a.hi - a.lo : a.lo + i - 1 \in Int
        BY <2>1, <2>2
      <3>2. QED
        BY <3>1 DEF Numbers
    <2>3. CASE ~(a.hi >= a.lo)
      <3>1. 1 .. a.hi - a.lo = {}
        BY <2>1, <2>3
      <3>2. Numbers(a) = <<>>
        BY <3>1 DEF Numbers
      <3>3. QED
        BY <3>2
    <2>4. QED
      BY <2>2, <2>3
  <1>2. /\ Goods(bad, a) \in Seq(Int)
        /\ Elements(Goods(bad, a)) = Elements(Numbers(a)) \cap (Within(a) \ bad)
    BY <1>1, KeepFact DEF Goods
  <1>3. Within(a) \subseteq Elements(Numbers(a))
    <2> SUFFICES ASSUME NEW b \in Within(a) PROVE b \in Elements(Numbers(a))
      OBVIOUS
    <2> DEFINE lo == a.lo
               hi == a.hi
               k == hi - lo
               j == b - lo + 1
    <2>1. lo \in Nat /\ hi \in Nat /\ b \in lo .. hi - 1
      BY DEF Ranges, Within
    <2>2. Numbers(a) = [i \in 1 .. k |-> lo + i - 1]
      BY DEF Numbers
    <2> HIDE DEF lo, hi
    <2>3. k \in Nat /\ j \in 1 .. k /\ lo + j - 1 = b
      BY ONLY <2>1
    <2> HIDE DEF k, j
    <2>4. Len(Numbers(a)) = k /\ Numbers(a)[j] = b
      BY ONLY <2>2, <2>3
    <2>5. QED
      BY ONLY <2>3, <2>4 DEF Elements
  <1>4. Ascending(Numbers(a))
    <2> DEFINE lo == a.lo
               k == a.hi - a.lo
               m == Numbers(a)
    <2>1. lo \in Nat /\ m = [i \in 1 .. k |-> lo + i - 1] /\ m \in Seq(Int)
      BY <1>1 DEF Ranges, Numbers
    <2> HIDE DEF lo, k, m
    <2>2. m \in Seq(Int)
      BY <2>1
    <2>3. DOMAIN m = 1 .. Len(m) /\ Len(m) \in Nat
      BY ONLY <2>2
    <2>4. DOMAIN m = 1 .. k
      BY <2>1
    <2>5. DOMAIN m = 1 .. k /\ DOMAIN m = 1 .. Len(m) /\ Len(m) \in Nat
      BY <2>3, <2>4
    <2>6. ASSUME NEW i \in 1 .. Len(m), NEW j \in 1 .. Len(m), i < j PROVE m[i] < m[j]
      <3>1. m[i] = lo + i - 1 /\ m[j] = lo + j - 1
        BY ONLY <2>1, <2>5, i \in 1 .. Len(m), j \in 1 .. Len(m)
      <3>2. QED
        BY ONLY <2>1, <2>6, <3>1, i \in 1 .. Len(m), j \in 1 .. Len(m)
    <2>7. QED
      BY <2>6 DEF Ascending, m
  <1>5. Ascending(Goods(bad, a))
    BY <1>1, <1>4, KeepSorted DEF Goods
  <1>6. Elements(Goods(bad, a)) = Within(a) \ bad
    BY <1>2, <1>3
  <1>7. QED
    BY <1>2, <1>5, <1>6 DEF Elements

(* The contents of a place are the data of its good blocks, in order.      *)
LEMMA ContentsFact ==
  ASSUME NEW f, NEW a
  PROVE  Contents(f, a) = [i \in 1 .. Len(Goods(f.bad, a)) |-> f.data[Goods(f.bad, a)[i]]]
  BY DEF Contents, Goods, Numbers

(* A move between two places that have no block in common loses nothing:   *)
(* at every moment, also while it is being reverted, each block of the     *)
(* partition can be read in the old place or in the new one.               *)
THEOREM ApartLosesNothing == Spec => [](Apart => NothingLost)
  <1>1. Init => PlaceInv /\ DataInv
    BY InitPlaced, InitData
  <1>2. PlaceInv /\ DataInv /\ [Next]_vars => (PlaceInv /\ DataInv)'
    BY PlaceStep, DataStep
  <1>3. PlaceInv /\ DataInv => (Apart => NothingLost)
    <2> SUFFICES ASSUME PlaceInv, DataInv, Apart, ~stray
                 PROVE  ToSet(Old) \subseteq {flash.data[b] : b \in Blocks \ flash.bad}
      BY DEF NothingLost
    <2>1. Kept /\ move \in Moves /\ before.data = [b \in Blocks |-> b]
      BY DEF PlaceInv, DataInv, Apart, Shapes
    <2>2. Ranges(move.src) /\ Within(move.src) \subseteq Blocks
      BY <2>1, MoveFact, MoveAssumption DEF Ranges, Within, Blocks
    <2> DEFINE g == Goods(before.bad, move.src)
    <2>3. g \in Seq(Int) /\ \A i \in 1 .. Len(g) : g[i] \in Within(move.src) \ before.bad
      BY <2>2, GoodsFact
    <2>4. Old = [i \in 1 .. Len(g) |-> before.data[g[i]]]
      BY ContentsFact DEF Old
    <2> HIDE DEF g
    <2>5. ASSUME NEW v \in ToSet(Old) PROVE v \in OldGood
      <3>1. PICK i \in 1 .. Len(g) : v = before.data[g[i]]
        BY <2>4 DEF ToSet
      <3>2. QED
        BY <2>1, <2>2, <2>3, <3>1 DEF OldGood
    <2>6. QED
      BY <2>1, <2>5 DEF Kept
  <1>4. QED
    BY <1>1, <1>2, <1>3, PTL DEF Spec

(* A move between two such places that fails leaves the old place as it    *)
(* was, unless a block turned bad or the revert failed as well: "Copy      *)
(* failed, try to revert it" puts everything back.                         *)
THEOREM ApartReverts == Spec => [](Apart => FailureReverts)
  <1>1. Init => PlaceInv /\ DataInv
    BY InitPlaced, InitData
  <1>2. PlaceInv /\ DataInv /\ [Next]_vars => (PlaceInv /\ DataInv)'
    BY PlaceStep, DataStep
  <1>3. PlaceInv /\ DataInv => (Apart => FailureReverts)
    <2> SUFFICES ASSUME PlaceInv, DataInv, Apart, pc = "moved", ~stray, flash.bad = before.bad, ~RevertFailed
                 PROVE  Contents(flash, move.src) = Old
      BY DEF FailureReverts
    <2>1. Intact /\ move \in Moves /\ before.data = [b \in Blocks |-> b]
      BY DEF PlaceInv, DataInv, Apart, Shapes, Reverts
    <2>2. Ranges(move.src) /\ Within(move.src) \subseteq Blocks
      BY <2>1, MoveFact, MoveAssumption DEF Ranges, Within, Blocks
    <2> DEFINE g == Goods(before.bad, move.src)
    <2>3. \A i \in 1 .. Len(g) : g[i] \in Within(move.src)
      BY <2>2, GoodsFact
    <2>4. /\ Old = [i \in 1 .. Len(g) |-> before.data[g[i]]]
          /\ Contents(flash, move.src) = [i \in 1 .. Len(g) |-> flash.data[g[i]]]
      BY ContentsFact DEF Old
    <2> HIDE DEF g
    <2>5. \A i \in 1 .. Len(g) : flash.data[g[i]] = before.data[g[i]]
      BY <2>1, <2>2, <2>3 DEF Intact
    <2>6. QED
      BY <2>4, <2>5
  <1>4. QED
    BY <1>1, <1>2, <1>3, PTL DEF Spec

(* s lists the numbers of S, each once and in order.                       *)
Lists(s, S) ==
  /\ s \in Seq(Int) /\ Ascending(s)
  /\ \A i \in 1 .. Len(s) : s[i] \in S
  /\ \A b \in S : \E i \in 1 .. Len(s) : s[i] = b

(* Two lists in step: if data d mirrors B on the first blocks A of C, then *)
(* reading d along the list of C gives the list of B first, and what comes *)
(* after lies outside of A.                                                *)
LEMMA InStep ==
  ASSUME NEW d, NEW A, NEW B, NEW C, Mirrors(d, A, B), A \subseteq C, B \subseteq Int, C \subseteq Int,
         \A a \in A : \A c \in C : c < a => c \in A,
         NEW u, Lists(u, C), NEW v, Lists(v, B)
  PROVE  /\ Len(v) <= Len(u) /\ \A i \in 1 .. Len(v) : u[i] \in A /\ d[u[i]] = v[i]
         /\ \A i \in Len(v) + 1 .. Len(u) : u[i] \notin A
  <1> DEFINE p == Len(u)
             q == Len(v)
             T == {i \in Nat : i <= q => i <= p /\ \A m \in 1 .. i : u[m] \in A /\ d[u[m]] = v[m]}
  <1>1. /\ p \in Nat /\ q \in Nat
        /\ \A i \in 1 .. p : u[i] \in C /\ u[i] \in Int
        /\ \A i \in 1 .. q : v[i] \in B /\ v[i] \in Int
        /\ \A i, j \in 1 .. p : i < j => u[i] < u[j]
        /\ \A i, j \in 1 .. q : i < j => v[i] < v[j]
        /\ \A c \in C : \E i \in 1 .. p : u[i] = c
        /\ \A b \in B : \E i \in 1 .. q : v[i] = b
    BY DEF Lists, Ascending
  <1>2. /\ \A a \in A : d[a] \in B /\ d[a] \in Int
        /\ \A b \in B : \E a \in A : d[a] = b
        /\ \A a, c \in A : a < c => d[a] < d[c]
    BY DEF Mirrors
  <1> HIDE DEF p, q
  <1>3. 0 \in T
    BY <1>1
  <1>4. ASSUME NEW k \in Nat, k \in T PROVE k + 1 \in T
    <2> SUFFICES ASSUME k + 1 <= q PROVE k + 1 <= p /\ \A m \in 1 .. k + 1 : u[m] \in A /\ d[u[m]] = v[m]
      OBVIOUS
    <2>1. k <= p /\ (\A m \in 1 .. k : u[m] \in A /\ d[u[m]] = v[m]) /\ k + 1 \in 1 .. q
      BY <1>1, <1>4
    <2>2. PICK a \in A : d[a] = v[k + 1]
      BY <1>1, <1>2, <2>1
    <2>3. PICK j \in 1 .. p : u[j] = a
      BY <1>1
    <2>4. j >= k + 1
      <3> SUFFICES ASSUME j \in 1 .. k PROVE FALSE
        BY <1>1
      <3>1. v[j] = v[k + 1]
        BY <2>1, <2>2, <2>3
      <3>2. j \in 1 .. q /\ j < k + 1
        BY <1>1, <2>1
      <3>3. v[j] < v[k + 1] /\ v[j] \in Int
        BY <1>1, <2>1, <3>2
      <3>4. QED
        BY <3>1, <3>3
    <2>5. k + 1 \in 1 .. p
      BY <1>1, <2>4
    <2>6. j = k + 1
      <3> SUFFICES ASSUME k + 1 < j PROVE FALSE
        BY <1>1, <2>4
      <3>1. u[k + 1] < a /\ u[k + 1] \in C
        BY <1>1, <2>3, <2>5
      <3>2. u[k + 1] \in A
        BY <3>1
      <3>3. d[u[k + 1]] < v[k + 1] /\ d[u[k + 1]] \in B
        BY <1>2, <2>2, <3>1, <3>2
      <3>4. PICK l \in 1 .. q : v[l] = d[u[k + 1]]
        BY <1>1, <3>3
      <3>5. l \in 1 .. k
        <4> SUFFICES ASSUME k + 1 <= l PROVE FALSE
          BY <1>1
        <4>1. v[k + 1] = v[l] \/ v[k + 1] < v[l]
          BY <1>1, <2>1
        <4>2. v[k + 1] \in Int /\ v[l] \in Int /\ v[l] < v[k + 1]
          BY <1>1, <2>1, <3>3, <3>4
        <4>3. QED
          BY <4>1, <4>2
      <3>6. u[l] \in A /\ d[u[l]] = d[u[k + 1]]
        BY <2>1, <3>4, <3>5
      <3>7. l \in 1 .. p /\ l < k + 1
        BY <1>1, <2>1, <3>5
      <3>8. u[l] < u[k + 1]
        BY <1>1, <2>5, <3>7
      <3>9. d[u[l]] < d[u[k + 1]] /\ d[u[l]] \in Int
        BY <1>2, <3>2, <3>6, <3>8
      <3>10. QED
        BY <3>6, <3>9
    <2>7. \A m \in 1 .. k + 1 : m \in 1 .. k \/ m = k + 1
      OBVIOUS
    <2>8. QED
      BY <1>1, <2>1, <2>2, <2>3, <2>5, <2>6, <2>7
  <1> HIDE DEF T
  <1>5. Nat \subseteq T
    BY <1>3, <1>4, SetInduction
  <1>6. q <= p /\ \A m \in 1 .. q : u[m] \in A /\ d[u[m]] = v[m]
    BY <1>1, <1>5 DEF T
  <1>7. ASSUME NEW i \in q + 1 .. p, u[i] \in A PROVE FALSE
    <2>1. i \in 1 .. p
      BY <1>1
    <2>2. PICK l \in 1 .. q : v[l] = d[u[i]]
      BY <1>1, <1>2, <1>7
    <2>3. u[l] \in A /\ d[u[l]] = d[u[i]]
      BY <1>6, <2>2
    <2>4. l \in 1 .. p /\ l < i
      BY <1>1, <1>6
    <2>5. u[l] < u[i]
      BY <1>1, <2>1, <2>4
    <2>6. d[u[l]] < d[u[i]] /\ d[u[l]] \in Int
      BY <1>2, <1>7, <2>3, <2>5
    <2>7. QED
      BY <2>3, <2>6
  <1>8. QED
    BY <1>6, <1>7 DEF p, q

(* A move between two such places that succeeds has brought the partition  *)
(* to the first good blocks of the new place, whole and in order, and      *)
(* erased the others, whichever blocks were or turned bad on the way; it   *)
(* is there too when only erasing the others failed.                       *)
THEOREM ApartFollows == Spec => [](Apart => DataFollows)
  <1>1. Init => PlaceInv /\ DataInv
    BY InitPlaced, InitData
  <1>2. PlaceInv /\ DataInv /\ [Next]_vars => (PlaceInv /\ DataInv)'
    BY PlaceStep, DataStep
  <1>3. PlaceInv /\ DataInv => (Apart => DataFollows)
    <2> DEFINE new == Contents(flash, move.dst)
               u == Goods(flash.bad, move.dst)
               v == Goods(before.bad, move.src)
               d == flash.data
               C == Within(move.dst) \ flash.bad
    <2> SUFFICES ASSUME PlaceInv, DataInv, Apart, Copied, ~stray
                 PROVE  IsPrefix(Old, new) /\ (~late => \A i \in Len(Old) + 1 .. Len(new) : new[i] = Erased)
      BY DEF DataFollows
    <2>1. Followed /\ move \in Moves /\ before.data = [b \in Blocks |-> b]
      BY DEF PlaceInv, DataInv, Apart, Shapes
    <2>2. PICK c \in Within(move.dst) :
            /\ Mirrors(d, Below(flash.bad, move.dst, c + 1), OldGood)
            /\ ~late => \A b \in C : b > c => d[b] = Erased
      BY <2>1 DEF Followed
    <2>3. Ranges(move.src) /\ Ranges(move.dst)
      BY <2>1, MoveFact
    <2>4. Within(move.src) \subseteq Blocks /\ Within(move.src) \subseteq Int /\ Within(move.dst) \subseteq Int
      BY <2>3, MoveAssumption DEF Ranges, Within, Blocks
    <2>5. Lists(u, C) /\ Lists(v, OldGood)
      <3>1. ASSUME NEW a, Ranges(a), NEW bad PROVE Lists(Goods(bad, a), Within(a) \ bad)
        BY <3>1, GoodsFact DEF Lists
      <3>2. QED
        BY <2>3, <3>1 DEF OldGood
    <2>6. Old = [i \in 1 .. Len(v) |-> before.data[v[i]]] /\ new = [i \in 1 .. Len(u) |-> d[u[i]]]
      BY ContentsFact DEF Old
    <2> DEFINE A == Below(flash.bad, move.dst, c + 1)
    <2>7. A \subseteq C /\ \A b \in C : b \in Int /\ (b \in A <=> ~(b > c))
      <3>1. c \in Int
        BY <2>4
      <3>2. \A b \in C : b \in Int /\ (b < c + 1 <=> ~(b > c))
        BY <2>4, <3>1
      <3>3. QED
        BY <3>2 DEF Below
    <2> HIDE DEF u, v, C, A, new, d
    <2>8. \A a \in A : \A b \in C : b < a => b \in A
      <3>1. c \in Int
        BY <2>4
      <3>2. QED
        BY <2>7, <3>1
    <2>9. OldGood \subseteq Int /\ C \subseteq Int /\ Mirrors(d, A, OldGood)
      BY <2>2, <2>4, <2>7 DEF OldGood, A
    <2>10. /\ Len(v) <= Len(u) /\ \A i \in 1 .. Len(v) : u[i] \in A /\ d[u[i]] = v[i]
           /\ \A i \in Len(v) + 1 .. Len(u) : u[i] \notin A
      BY ONLY <2>5, <2>7, <2>8, <2>9, InStep
    <2>11. /\ Len(u) \in Nat /\ Len(v) \in Nat
           /\ \A i \in 1 .. Len(v) : v[i] \in Blocks
           /\ \A i \in 1 .. Len(u) : u[i] \in C
      BY <2>4, <2>5 DEF Lists, OldGood
    <2>12. Len(Old) = Len(v) /\ Len(new) = Len(u)
      BY <2>6, <2>11
    <2>13. \A i \in 1 .. Len(v) : Old[i] = v[i] /\ new[i] = v[i]
      <3>1. \A i \in 1 .. Len(v) : i \in 1 .. Len(u)
        BY <2>10, <2>11
      <3>2. \A i \in 1 .. Len(v) : Old[i] = v[i]
        BY <2>1, <2>6, <2>11
      <3>3. QED
        BY <2>6, <2>10, <3>1, <3>2
    <2>14. ASSUME ~late, NEW i \in Len(v) + 1 .. Len(u) PROVE new[i] = Erased
      <3>1. i \in 1 .. Len(u) /\ u[i] \in C /\ u[i] \notin A
        BY <2>10, <2>11
      <3>2. d[u[i]] = Erased
        BY <2>2, <2>7, <2>14, <3>1
      <3>3. QED
        BY <2>6, <3>1, <3>2
    <2>15. IsPrefix(Old, new)
      <3>1. \A i \in 1 .. Len(v) : i \in 1 .. Len(u)
        BY <2>10, <2>11
      <3>2. [i \in 1 .. Len(v) |-> Old[i]] = [i \in 1 .. Len(v) |-> new[i]]
        BY <2>13
      <3>3. Old \in Seq(Int) /\ new \in Seq({d[u[i]] : i \in 1 .. Len(u)})
        <4>1. \A i \in 1 .. Len(v) : before.data[v[i]] \in Int
          BY <2>1, <2>11 DEF Blocks
        <4>2. QED
          BY <2>6, <2>11, <4>1
      <3>4. QED
        BY <2>10, <2>11, <2>12, <2>13, <3>1, <3>3 DEF IsPrefix
    <2>16. QED
      BY <2>12, <2>14, <2>15
  <1>4. QED
    BY <1>1, <1>2, <1>3, PTL DEF Spec
=============================================================================
