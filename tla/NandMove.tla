------------------------------ MODULE NandMove ------------------------------
(***************************************************************************)
(* nandpart_movePart: a partition is given a new place or size, and its    *)
(* blocks follow, one erase and one copy at a time, over blocks that are   *)
(* bad or turn bad when they are erased.  One behaviour moves one          *)
(* partition on one flash; the initial states are all the flashes and all  *)
(* the moves of the instance.                                              *)
(*                                                                         *)
(* The C functions call each other as follows; "call" below is the copy    *)
(* that is going on, pc the place its result returns to.                   *)
(*   movePart -> copyForwardSafe  -> copyForward, or copyBackward to undo  *)
(*   movePart -> copyBackwardSafe -> copyBackward, or copyForward to undo  *)
(*            -> shiftRightSafe   -> copyBackward, or copyForward to undo  *)
(***************************************************************************)
EXTENDS Integers, Sequences, SequencesExt, FiniteSetsExt, Filter

CONSTANTS
  NBLOCKS,    \* erase blocks of the device
  Moves,      \* the moves to try: src and dst, each [lo, hi), and the bounds
              \* bad, frail and faults: how many blocks are bad, how many turn
              \* bad on the way, and how many reads, writes and erases fail
  Garbage     \* what an uninitialised block number can hold

(* nandpart's table only has partitions that end within the device.        *)
Places == [lo : Nat, hi : 0 .. NBLOCKS]

ASSUME MoveAssumption ==
  /\ NBLOCKS \in Nat
  /\ \A m \in Moves : m.src \in Places /\ m.dst \in Places /\ m.faults \in Nat

Blocks == 0 .. NBLOCKS - 1
Erased == -1
Torn == -2          \* a block whose copy failed half way
Unset == -3         \* an unsigned int nothing was assigned to

(* The codes the functions return.                                         *)
EOK == 0
DONE == 1           \* no block left: a success of the copy loops
EIO == -5
EINVAL == -22
ENOSPC == -28
EBADMSG == -74
BUSY == 2           \* (the call has not returned)

VARIABLES
  flash,      \* data: what each block holds; bad, frail: sets of blocks;
              \* erased: history, the blocks erased so far
  move,       \* the partition's old and new place
  pc,
  call,       \* arguments of the copy, its *src and *dst, what it returned
  lp,         \* src, dst, odstEnd of copyBackwardSafe
  sh,         \* srcEnd, dstEnd of shiftRightSafe
  err,        \* what movePart returns
  faults,     \* bound: reads, writes and erases that may still fail
  before,     \* history: the device before the move
  stray,      \* history: an uninitialised block number was used
  hollow,     \* history: a shift was asked for before any block was copied
  late        \* history: only erasing the remaining space failed

vars == <<flash, move, pc, call, lp, sh, err, faults, before, stray, hollow, late>>

Area(lo, hi) == [lo |-> lo, hi |-> hi]
Within(a) == a.lo .. a.hi - 1

-----------------------------------------------------------------------------
(* External: flashsrv refuses a block past the device.                     *)
isBad(b) == IF b \notin Blocks THEN EINVAL ELSE IF b \in flash.bad THEN 1 ELSE 0

(* nandpart_nextBlock and nandpart_prevBlock: the first block of an area,  *)
(* or the last one going backwards, that is not bad.                       *)
FindBlock(dir, a) ==
  LET found == {b \in Within(a) : isBad(b) # 1}
      b     == IF dir = "back" THEN Max(found) ELSE Min(found)
  IN  IF found = {} THEN [err |-> DONE, at |-> Unset] ELSE [err |-> isBad(b), at |-> b]

(* What is left of an area once the copy has gone past block b.            *)
Rest(dir, a, b) == IF dir = "back" THEN [a EXCEPT !.hi = b] ELSE [a EXCEPT !.lo = b + 1]

(* A range of blocks is erased; the good ones that fail turn bad.          *)
Erase_past(a) ==
  LET good == {b \in a.lo .. a.hi : b \in Blocks \ flash.bad}
  IN  [flash EXCEPT !.data = [b \in Blocks |-> IF b \in good \ flash.frail THEN Erased ELSE @[b]],
                    !.bad = @ \cup (good \cap flash.frail),
                    !.frail = @ \ good,
                    !.erased = @ \cup (good \ flash.frail)]

Erase(a) ==
  LET good == Within(a) \ flash.bad
  IN  [flash EXCEPT !.data = [b \in Blocks |-> IF b \in good \ flash.frail THEN Erased ELSE @[b]],
                    !.bad = @ \cup (good \cap flash.frail),
                    !.frail = @ \ good,
                    !.erased = @ \cup (good \ flash.frail)]

-----------------------------------------------------------------------------
(* nandpart_copyForward and nandpart_copyBackward.                         *)
Copy(dir, from, to, src, dst, failBad) ==
  [dir |-> dir, from |-> from, to |-> to, src |-> src, dst |-> dst,
   failBad |-> failBad, ret |-> BUSY]

NoCall == Copy("none", Area(0, 0), Area(0, 0), Unset, Unset, FALSE)

From == FindBlock(call.dir, call.from)
To == FindBlock(call.dir, call.to)

CallReturns(e) == call' = [call EXCEPT !.ret = e]

CopyEnds ==
  /\ From.err # EOK
  /\ CallReturns(From.err)
  /\ UNCHANGED <<flash, faults>>

CopyNoRoom ==
  /\ From.err = EOK /\ To.err # EOK
  /\ CallReturns(IF To.err = DONE THEN ENOSPC ELSE To.err)
  /\ UNCHANGED <<flash, faults>>

(* The block is where it has to go, and so are those after it.             *)
CopyMeets ==
  /\ From.err = EOK /\ To.err = EOK /\ To.at = From.at
  /\ CallReturns(EOK)
  /\ UNCHANGED <<flash, faults>>

CanCopy == From.err = EOK /\ To.err = EOK /\ To.at # From.at

CopyBlock ==
  /\ CanCopy /\ To.at \notin flash.frail
  /\ flash' = [flash EXCEPT !.data[To.at] = flash.data[From.at], !.erased = @ \cup {To.at}]
  /\ call' = [call EXCEPT !.from = Rest(call.dir, @, From.at), !.to = Rest(call.dir, @, To.at),
                          !.src = From.at, !.dst = To.at]
  /\ UNCHANGED faults

(* The erase, or a read or write of the copy, fails.                       *)
CopyFails ==
  /\ CanCopy /\ To.at \notin flash.frail
  /\ faults > 0
  /\ \/ flash' = [flash EXCEPT !.data[To.at] = Torn, !.erased = @ \cup {To.at}]
     \/ UNCHANGED flash
  /\ CallReturns(EIO)
  /\ faults' = faults - 1

(* Nothing was erased: a new bad block.                                    *)
NewBadBlock ==
  /\ CanCopy /\ To.at \in flash.frail
  /\ flash' = [flash EXCEPT !.bad = @ \cup {To.at}, !.frail = @ \ {To.at}]
  /\ IF call.failBad THEN CallReturns(EBADMSG)
     ELSE call' = [call EXCEPT !.to = Rest(call.dir, @, To.at)]
  /\ UNCHANGED faults

CopyStep ==
  /\ pc \in {"forward", "backward", "shifting", "unshift", "undo"} /\ call.ret = BUSY
  /\ CopyEnds \/ CopyNoRoom \/ CopyMeets \/ CopyBlock \/ CopyFails \/ NewBadBlock
  /\ UNCHANGED <<move, pc, lp, sh, err, before, stray, hollow, late>>

-----------------------------------------------------------------------------
(* The callers.                                                            *)
OntoItself == move.dst.lo > move.src.lo /\ move.dst.lo < move.src.hi

Good(a) == Within(a) \ flash.bad
countBlocks == Cardinality(Good(move.src))

(* One past the last block the partition needs in its new place.           *)
FindEnd == CHOOSE e \in move.dst.lo + 1 .. move.dst.hi :
             /\ Cardinality(Good(Area(move.dst.lo, e))) = countBlocks
             /\ e - 1 \in Good(move.dst)

Finish(e) ==
  /\ err' = e
  /\ pc' = "moved"
  /\ call' = NoCall
  /\ UNCHANGED <<lp, sh>>

MoveBackward ==
  LET end == FindEnd + 1      \* ++end
  IN  /\ call' = Copy("back", move.src, Area(move.dst.lo, end), move.src.hi, end, TRUE)
      /\ lp' = [src |-> move.src.hi, dst |-> end, odstEnd |-> end]
      /\ pc' = "backward"
      /\ UNCHANGED <<sh, err>>

MoveForward ==
  /\ call' = Copy("fwd", move.src, move.dst, Unset, Unset, FALSE)
  /\ pc' = "forward"
  /\ UNCHANGED <<lp, sh, err>>

Start_forward ==
  /\ pc = "start"
  /\ MoveForward
  /\ UNCHANGED <<flash, move, faults, before, stray, hollow, late>>

Start ==
  /\ pc = "start"
  /\ IF ~OntoItself THEN MoveForward
     ELSE IF countBlocks = 0 THEN Finish(EOK)
     ELSE IF Cardinality(Good(move.dst)) < countBlocks THEN Finish(ENOSPC)
     ELSE MoveBackward
  /\ UNCHANGED <<flash, move, faults, before, stray, hollow, late>>

Returned(p) == pc = p /\ call.ret # BUSY /\ UNCHANGED <<move, before>>

(* The remaining space is erased and the move is over, or erasing it, or   *)
(* marking it clean, fails part way: that is the result, and nothing is    *)
(* reverted.                                                               *)
EraseRest(lo, hi) ==
  \/ /\ flash' = Erase(Area(lo, hi))
     /\ Finish(EOK)
     /\ UNCHANGED <<faults, late>>
  \/ /\ lo < hi /\ faults > 0
     /\ \E k \in lo .. hi : flash' = Erase(Area(lo, k))
     /\ Finish(EIO)
     /\ faults' = faults - 1 /\ late' = TRUE

(* Whatever undoing returns, e is the result.                              *)
Undo(dir, from, to, e) ==
  /\ call' = Copy(dir, from, to, Unset, Unset, TRUE)
  /\ pc' = "undo"
  /\ err' = e
  /\ UNCHANGED <<flash, lp, sh, faults, late>>

Value(v) == IF v = Unset THEN Garbage ELSE {v}

ForwardReturned_noUndo ==
  /\ Returned("forward")
  /\ \E dst \in Value(call.dst) :
       IF call.ret < 0 THEN Finish(call.ret) /\ UNCHANGED <<flash, faults, late>>
       ELSE EraseRest(dst + 1, move.dst.hi)
  /\ stray' = (call.dst = Unset)
  /\ UNCHANGED hollow

ForwardReturned_erasesLast ==
  /\ Returned("forward")
  /\ \E src \in Value(call.src), dst \in Value(call.dst) :
       IF call.ret < 0
       THEN Undo("back", Area(move.dst.lo, dst + 1), Area(move.src.lo, src + 1), call.ret)
       ELSE EraseRest(dst, move.dst.hi)
  /\ stray' = (call.dst = Unset)
  /\ UNCHANGED hollow

ForwardReturned ==
  /\ Returned("forward")
  /\ \E src \in Value(call.src), dst \in Value(call.dst) :
       IF call.ret < 0
       THEN Undo("back", Area(move.dst.lo, dst + 1), Area(move.src.lo, src + 1), call.ret)
       ELSE EraseRest(dst + 1, move.dst.hi)
  /\ stray' = (call.dst = Unset)
  /\ UNCHANGED hollow

UndoBackward(src, dst, e) == Undo("fwd", Area(dst, lp.odstEnd), Area(src, move.src.hi), e)

BackwardReturned ==
  /\ Returned("backward")
  /\ IF call.ret = EBADMSG
     THEN /\ lp' = [lp EXCEPT !.src = call.src, !.dst = call.dst]
          /\ sh' = [srcEnd |-> lp.odstEnd, dstEnd |-> lp.odstEnd]
          /\ call' = [NoCall EXCEPT !.src = lp.odstEnd, !.dst = lp.odstEnd]
          /\ pc' = "shift"
          /\ UNCHANGED <<flash, err, faults, late>>
     ELSE IF call.ret < 0 THEN UndoBackward(call.src, call.dst, call.ret)
     ELSE EraseRest(lp.odstEnd, move.dst.hi)
  /\ hollow' = (hollow \/ (call.ret = EBADMSG /\ call.dst = lp.odstEnd))
  /\ UNCHANGED stray

(* One round of shiftRightSafe's loop: the blocks copied so far make room  *)
(* for one more bad block.                                                 *)
Shift ==
  /\ pc = "shift"
  /\ LET p   == FindBlock("fwd", Area(sh.dstEnd, move.dst.hi))
         end == (IF p.err = EOK THEN p.at ELSE sh.dstEnd) + 1
     IN  IF p.err = DONE
         THEN /\ sh' = [sh EXCEPT !.srcEnd = sh.dstEnd]
              /\ call' = Copy("fwd", Area(call.dst, sh.dstEnd), Area(call.src, sh.dstEnd), Unset, Unset, TRUE)
              /\ pc' = "unshift"
              /\ err' = ENOSPC
         ELSE /\ sh' = [srcEnd |-> sh.dstEnd, dstEnd |-> end]
              /\ call' = Copy("back", Area(lp.dst, sh.dstEnd), Area(lp.dst + 1, end),
                              call.src, call.dst, TRUE)
              /\ pc' = "shifting"
              /\ UNCHANGED err
  /\ UNCHANGED <<flash, move, lp, faults, before, stray, hollow, late>>

ShiftReturned ==
  /\ Returned("shifting")
  /\ IF call.ret = EBADMSG
     THEN pc' = "shift" /\ UNCHANGED <<call, lp, err>>
     ELSE IF call.ret < 0
     THEN /\ call' = Copy("fwd", Area(call.dst, sh.dstEnd), Area(call.src, sh.srcEnd), Unset, Unset, TRUE)
          /\ pc' = "unshift"
          /\ err' = call.ret
          /\ UNCHANGED lp
     ELSE /\ lp' = [lp EXCEPT !.dst = call.dst, !.odstEnd = sh.dstEnd]
          /\ call' = Copy("back", Area(move.src.lo, lp.src), Area(move.dst.lo, call.dst),
                          lp.src, call.dst, TRUE)
          /\ pc' = "backward"
          /\ UNCHANGED err
  /\ UNCHANGED <<flash, sh, faults, stray, hollow, late>>

Unshifted ==
  /\ Returned("unshift")
  /\ UndoBackward(lp.src, lp.dst, err)
  /\ UNCHANGED <<stray, hollow>>

Undone ==
  /\ Returned("undo")
  /\ Finish(err)
  /\ UNCHANGED <<flash, faults, stray, hollow, late>>

Done == pc = "moved" /\ UNCHANGED vars

-----------------------------------------------------------------------------
Init ==
  /\ move \in Moves
  /\ \E nb \in 0 .. move.bad, nf \in 0 .. move.frail :
       \E bad \in kSubset(nb, Blocks) : \E frail \in kSubset(nf, Blocks \ bad) :
         flash = [data |-> [b \in Blocks |-> b], bad |-> bad, frail |-> frail, erased |-> {}]
  /\ before = flash
  /\ pc = "start" /\ err = EOK /\ faults = move.faults /\ stray = FALSE /\ hollow = FALSE /\ late = FALSE
  /\ call = NoCall
  /\ lp = [src |-> Unset, dst |-> Unset, odstEnd |-> Unset]
  /\ sh = [srcEnd |-> Unset, dstEnd |-> Unset]

Next ==
  \/ Start \/ CopyStep
  \/ ForwardReturned \/ BackwardReturned \/ Shift \/ ShiftReturned \/ Unshifted \/ Undone
  \/ Done

Spec == Init /\ [][Next]_vars

-----------------------------------------------------------------------------
(* What the good blocks of an area hold, in order.                         *)
Contents(f, a) ==
  LET good == Keep([i \in 1 .. a.hi - a.lo |-> a.lo + i - 1], Within(a) \ f.bad)
  IN  [i \in 1 .. Len(good) |-> f.data[good[i]]]

Old == Contents(before, move.src)

Inside == flash.erased \subseteq Within(move.src) \cup Within(move.dst)

(* A move elsewhere erases nothing outside the old and the new place of    *)
(* the partition, also when it fails and is reverted: the neighbours keep  *)
(* their blocks whichever blocks turn bad on the way.                      *)
OthersUntouched == ~OntoItself /\ ~stray => Inside

(* The same of a move onto the partition's own blocks, for which movePart  *)
(* looks up the "end block of destination area".                           *)
OverlapStaysInside == OntoItself => Inside

(* The copy was complete: the move is a success, or no more than erasing   *)
(* the remaining space failed.                                             *)
Copied == pc = "moved" /\ (err >= 0 \/ late)

(* A move that reports success has brought the partition's blocks, all of  *)
(* them and in order, to the first good blocks of the new place, and left  *)
(* the remaining ones erased.  They are all there too when it reports that *)
(* erasing the rest has failed.                                            *)
DataFollows ==
  Copied /\ ~OntoItself /\ ~stray =>
    LET new == Contents(flash, move.dst)
    IN  IsPrefix(Old, new) /\ (~late => \A i \in Len(Old) + 1 .. Len(new) : new[i] = Erased)

(* A move onto the partition's own blocks, backwards over blocks that are  *)
(* or turn bad, never copies over a block it has still to copy, and the    *)
(* shifts that make room for a new bad block keep the order: the partition *)
(* is found whole and in order from some good block of the new place on.   *)
DataStaysTogether ==
  Copied /\ OntoItself /\ ~hollow =>
    LET new == Contents(flash, [move.dst EXCEPT !.hi = NBLOCKS])
    IN  \E k \in 0 .. Len(new) - Len(Old) : SubSeq(new, k + 1, k + Len(Old)) = Old

(* A move that fails for want of room or because a read or write failed    *)
(* leaves the partition as it was: the revert ("Copy failed, try to revert *)
(* it") undoes every copy, also where the two places overlap.  Only a      *)
(* block that turns bad, a failure of the revert itself, and, where the    *)
(* places overlap, a failure to erase the remaining space, which is not    *)
(* reverted at all, keep it from it.                                       *)
RevertFailed == move.faults - faults > IF err = EIO THEN 1 ELSE 0
Overlap == Within(move.src) \cap Within(move.dst) # {}

FailureReverts ==
  pc = "moved" /\ err < 0 /\ ~stray /\ flash.bad = before.bad /\ ~RevertFailed /\ ~(late /\ Overlap)
    => Contents(flash, move.src) = Old

(* At no time during a move is anything lost: every block of the partition *)
(* can be read somewhere, in its old place or in the new one, so that a    *)
(* reset or an error in the middle costs no data.                          *)
NothingLost == ~stray => ToSet(Old) \subseteq {flash.data[b] : b \in Blocks \ flash.bad}
=============================================================================
