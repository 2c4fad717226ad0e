------------------------------ MODULE PshCopy -------------------------------
(***************************************************************************)
(* The applets that move bytes from files to a file or to the terminal:    *)
(* dd, cp, mv, cat and logread, one call of one of them.  A read may be    *)
(* short and a write may take only part of the buffer; both may fail, and  *)
(* Ctrl-C may come at any time.  An interrupted call is made again, which  *)
(* changes nothing and is no step.                                         *)
(*                                                                         *)
(* Byte i of input f is <<f, i>>; what the target held before is of input  *)
(* 0, and a hole reads as Zero.                                            *)
(***************************************************************************)
EXTENDS Integers, Sequences, FiniteSets, SequencesExt

CONSTANTS
  CPBUFSZ,     \* SIZE_BUFF of cp, mv, cat and logread
  SSIZE_MAX,   \* the largest number dd takes
  INT_MAX,     \* the largest block size it can hold
  CpRequests,  \* command lines, with the files they find
  CpGrowth     \* bound: bytes added to the log while it is followed

CpNumber == [value : Int, mult : Nat \ {0}]
CpRequest ==
  [tool : {"dd", "cp", "mv", "cat", "logread"}, files : Seq(Int), old : Int, pipe : BOOLEAN, rename : BOOLEAN,
   preserve : BOOLEAN, follow : BOOLEAN, bs : CpNumber, count : CpNumber, skip : CpNumber, seek : CpNumber,
   conv : SUBSET {"nocreat", "notrunc"}]

(* Only cat takes any number of files; the terminal has nothing to keep.   *)
ASSUME PshCopyAssumption ==
  /\ {CPBUFSZ, SSIZE_MAX, INT_MAX} \subseteq Nat \ {0} /\ CpGrowth \in Nat
  /\ CpRequests \subseteq CpRequest
  /\ \A r \in CpRequests : (r.tool # "cat" => Len(r.files) = 1) /\ (r.tool \in {"cat", "logread"} => r.old <= 0)

VARIABLES
  cpReq,    \* [tool, files, old, ...]: files are lengths, -1 for one that is missing
  cpPhase,  \* "start", "skip", "seek", "read", "write", "attr", "close" or "done"
  cpFile,   \* i of psh_cat: the input at hand
  cpIn,     \* its offset
  cpSkip,   \* skipval
  cpBuf,    \* what was read and not written yet
  cpOut,    \* the target, or what the terminal was sent
  cpPos,    \* its offset
  cpTotal,  \* intotal and outtotal of dd
  cpThere,  \* the source of mv exists
  cpAttr,   \* attributes cp -p has set
  cpBad,    \* the input's error flag
  cpErr,    \* err of dd, retval of the others
  cpSig,    \* psh_common.sigint
  cpFault,  \* history: a call failed, or Ctrl-C came
  cpLost,   \* history: bytes were lost when the target was closed or flushed
  cpExit    \* the exit code, -1 before

cpPlace == <<cpFile, cpIn, cpSkip>>
cpVars == <<cpReq, cpPhase, cpPlace, cpBuf, cpOut, cpPos, cpTotal, cpThere, cpAttr, cpBad, cpErr, cpSig, cpFault, cpLost, cpExit>>

Zero == <<0, 0>>
CpBytes(f, from, n) == [i \in 1 .. n |-> <<f, from + i>>]
CpLeast(a, b) == IF a < b THEN a ELSE b
CpMost(a, b) == IF a > b THEN a ELSE b
CpIs(tools) == cpReq.tool \in tools

CpInit ==
  /\ cpReq \in CpRequests /\ cpPhase = "start"
  /\ cpFile = 1 /\ cpIn = 0 /\ cpSkip = 0 /\ cpBuf = <<>>
  /\ cpOut = CpBytes(0, 0, CpMost(cpReq.old, 0)) /\ cpPos = 0 /\ cpTotal = [in |-> 0, out |-> 0]
  /\ cpThere = TRUE /\ cpAttr = {} /\ cpBad = FALSE /\ cpErr = FALSE /\ cpSig = FALSE /\ cpFault = FALSE /\ cpLost = FALSE
  /\ cpExit = -1

-----------------------------------------------------------------------------
(* The operands of dd.  getnumber: a number with a suffix; one that is too *)
(* large is refused, but strtoul may have made it negative, and then the   *)
(* product wraps around as well.                                           *)
Wrapped(n, max) == ((n + max + 1) % (2 * (max + 1))) - (max + 1)
Signed(n) == Wrapped(n, SSIZE_MAX)
getnumber(num) == IF Signed(num.value) > SSIZE_MAX \div num.mult THEN -1 ELSE Signed(Signed(num.value) * num.mult)

(* getconvmode: nocreat and notrunc each take a flag of open away.         *)
getconvmode(conv) == {"creat", "trunc"} \ {IF c = "nocreat" THEN "creat" ELSE "trunc" : c \in conv}

(* blocksz is an int: a number that does not fit in it becomes another.    *)
DdBs == Wrapped(getnumber(cpReq.bs), INT_MAX)
DdCount == IF cpReq.count.value < 0 THEN SSIZE_MAX ELSE getnumber(cpReq.count)
DdRefused ==
  \/ DdBs <= 0 \/ DdCount < 0 \/ (DdCount # SSIZE_MAX /\ DdCount > SSIZE_MAX \div DdBs)
  \/ \E n \in {getnumber(cpReq.skip), getnumber(cpReq.seek)} : n < 0 \/ n > SSIZE_MAX \div DdBs

(* inmax: 0 stands for no limit, and is what count=0 gives as well.        *)
inmax == IF DdCount = SSIZE_MAX THEN 0 ELSE DdCount * DdBs

CpBufsz == IF CpIs({"dd"}) THEN DdBs ELSE CPBUFSZ

-----------------------------------------------------------------------------
CpExits(code) == cpPhase' = "done" /\ cpExit' = code

(* An argument is refused, or a file cannot be opened or renamed: nothing  *)
(* has been touched yet.                                                   *)
CpRefuses ==
  /\ cpPhase = "start" /\ ~ CpIs({"cat"})
  /\ CpExits(1) /\ cpFault' = TRUE
  /\ UNCHANGED <<cpReq, cpPlace, cpBuf, cpOut, cpPos, cpTotal, cpThere, cpAttr, cpBad, cpErr, cpSig, cpLost>>

(* dd opens both files; the target is cut off unless conv=notrunc.         *)
DdOpens ==
  /\ cpPhase = "start" /\ CpIs({"dd"}) /\ ~ DdRefused
  /\ LET mode == getconvmode(cpReq.conv) IN
     /\ "creat" \in mode \/ cpReq.old >= 0
     /\ cpOut' = IF "trunc" \in mode THEN <<>> ELSE cpOut
  /\ cpSkip' = getnumber(cpReq.skip) * DdBs /\ cpPhase' = "skip"
  /\ UNCHANGED <<cpReq, cpFile, cpIn, cpBuf, cpPos, cpTotal, cpThere, cpAttr, cpBad, cpErr, cpSig, cpFault, cpLost, cpExit>>

(* An input that cannot seek is read instead, a block for every byte of    *)
(* skipval; its end is an error.                                           *)
DdSkips ==
  /\ cpPhase = "skip"
  /\ \/ cpSkip > 0 /\ ~ cpReq.pipe /\ cpIn' = cpSkip /\ cpSkip' = 0 /\ UNCHANGED <<cpPhase, cpErr, cpFault>>
     \/ /\ cpSkip > 0 /\ cpReq.pipe /\ cpSkip' = cpSkip - 1 /\ cpIn < cpReq.files[1]
        /\ \E n \in 1 .. CpLeast(DdBs, cpReq.files[1] - cpIn) : cpIn' = cpIn + n
        /\ UNCHANGED <<cpPhase, cpErr, cpFault>>
     \/ /\ cpSkip > 0 /\ cpReq.pipe /\ cpPhase' = "close" /\ cpErr' = TRUE /\ cpFault' = TRUE /\ UNCHANGED <<cpIn, cpSkip>>
     \/ cpSkip = 0 /\ cpPhase' = "seek" /\ UNCHANGED <<cpIn, cpSkip, cpErr, cpFault>>
  /\ UNCHANGED <<cpReq, cpFile, cpBuf, cpOut, cpPos, cpTotal, cpThere, cpAttr, cpBad, cpSig, cpLost, cpExit>>

DdSeeks ==
  /\ cpPhase = "seek"
  /\ \/ cpPos' = getnumber(cpReq.seek) * DdBs /\ cpPhase' = "read" /\ UNCHANGED cpFault
     \/ getnumber(cpReq.seek) > 0 /\ cpPhase' = "close" /\ cpFault' = TRUE /\ UNCHANGED cpPos
  /\ UNCHANGED <<cpReq, cpPlace, cpBuf, cpOut, cpTotal, cpThere, cpAttr, cpBad, cpErr, cpSig, cpLost, cpExit>>

(* A directory as a target stands for the file of that name in it.  cp     *)
(* opens its target as it is, mv empties it; logread has none.             *)
CopyStarts(out) ==
  /\ cpPhase = "start" /\ cpReq.files[1] >= 0
  /\ cpOut' = out /\ cpPhase' = "read"
  /\ UNCHANGED <<cpReq, cpPlace, cpBuf, cpPos, cpTotal, cpThere, cpAttr, cpBad, cpErr, cpSig, cpFault, cpLost, cpExit>>

CpOpens == CpIs({"cp"}) /\ CopyStarts(cpOut)
MvOpens == CpIs({"mv"}) /\ ~ cpReq.rename /\ CopyStarts(<<>>)
LogOpens == CpIs({"logread"}) /\ CopyStarts(cpOut)

(* On one file system mv renames.                                          *)
MvRenames ==
  /\ cpPhase = "start" /\ CpIs({"mv"}) /\ cpReq.rename /\ cpReq.files[1] >= 0
  /\ cpOut' = CpBytes(1, 0, cpReq.files[1]) /\ cpThere' = FALSE /\ CpExits(0)
  /\ UNCHANGED <<cpReq, cpPlace, cpBuf, cpPos, cpTotal, cpAttr, cpBad, cpErr, cpSig, cpFault, cpLost>>

(* Some of what was written last is lost, where nobody looks.              *)
MayLose(tools) ==
  /\ cpLost' \in BOOLEAN /\ (cpLost' => CpIs(tools) /\ cpOut # <<>>)
  /\ cpOut' = IF cpLost' THEN Front(cpOut) ELSE cpOut

(* cat goes on with its next file, past one it cannot open, until Ctrl-C.  *)
(* What stdout still holds when it ends is flushed later, or lost.         *)
CatOpens ==
  /\ cpPhase = "start" /\ CpIs({"cat"})
  /\ \/ /\ ~ cpSig /\ cpFile <= Len(cpReq.files) /\ cpReq.files[cpFile] >= 0 /\ cpIn' = 0 /\ cpBad' = FALSE
        /\ cpPhase' = "read" /\ UNCHANGED <<cpFile, cpErr, cpFault, cpLost, cpOut, cpExit>>
     \/ /\ ~ cpSig /\ cpFile <= Len(cpReq.files) /\ cpFile' = cpFile + 1 /\ cpErr' = TRUE /\ cpFault' = TRUE
        /\ UNCHANGED <<cpIn, cpPhase, cpBad, cpLost, cpOut, cpExit>>
     \/ /\ cpSig \/ cpFile > Len(cpReq.files)
        /\ CpExits(IF cpErr THEN 1 ELSE 0) /\ MayLose({"cat"}) /\ UNCHANGED <<cpFile, cpIn, cpBad, cpErr, cpFault>>
  /\ UNCHANGED <<cpReq, cpSkip, cpBuf, cpPos, cpTotal, cpThere, cpAttr, cpSig>>

(* Ctrl-C, and a log that grows.                                           *)
CpSignal ==
  /\ cpPhase \in {"read", "write"} /\ CpIs({"dd", "cat", "logread"}) /\ ~ cpSig
  /\ cpSig' = TRUE /\ cpFault' = TRUE
  /\ UNCHANGED <<cpReq, cpPhase, cpPlace, cpBuf, cpOut, cpPos, cpTotal, cpThere, cpAttr, cpBad, cpErr, cpLost, cpExit>>

LogGrows ==
  /\ cpPhase \in {"read", "write"} /\ CpIs({"logread"}) /\ cpReq.files[1] < CpGrowth
  /\ cpReq' = [cpReq EXCEPT !.files[1] = @ + 1]
  /\ UNCHANGED <<cpPhase, cpPlace, cpBuf, cpOut, cpPos, cpTotal, cpThere, cpAttr, cpBad, cpErr, cpSig, cpFault, cpLost, cpExit>>

-----------------------------------------------------------------------------
CpLeft == CpMost(0, cpReq.files[cpFile] - cpIn)
Stops == CpIs({"cat"}) /\ cpSig
LogWaits == CpIs({"logread"}) /\ cpReq.follow /\ ~ cpSig

(* fread fills its buffer, up to the end or an error; read need not.  dd   *)
(* and only dd leaves on Ctrl-C with the bytes it has just read.           *)
CpReads ==
  /\ cpPhase = "read" /\ ~ Stops /\ CpLeft > 0
  /\ \E n \in 1 .. CpLeast(CpBufsz, CpLeft) :
       /\ cpBuf' = CpBytes(cpFile, cpIn, n) /\ cpIn' = cpIn + n
       /\ cpTotal' = [cpTotal EXCEPT !.in = @ + n]
       /\ cpBad' = (cpBad \/ (CpIs({"cp", "cat"}) /\ n < CpLeast(CpBufsz, CpLeft)))
       /\ cpFault' = (cpFault \/ cpBad')
  /\ cpPhase' = (IF CpIs({"dd"}) /\ cpSig THEN "close" ELSE "write")
  /\ cpErr' = (cpErr \/ (CpIs({"dd"}) /\ cpSig))
  /\ UNCHANGED <<cpReq, cpFile, cpSkip, cpOut, cpPos, cpThere, cpAttr, cpSig, cpLost, cpExit>>

(* Nothing is left, or nothing can be read.                                *)
CpReadEnds ==
  /\ cpPhase = "read"
  /\ \/ /\ CpLeft = 0 /\ ~ Stops /\ ~ LogWaits
        /\ cpErr' = (cpErr \/ cpBad) /\ UNCHANGED cpFault
     \/ ~ Stops /\ cpErr' = (cpErr \/ ~ CpIs({"dd"})) /\ cpFault' = TRUE
     \/ Stops /\ UNCHANGED <<cpErr, cpFault>>
  /\ cpPhase' = "close"
  /\ UNCHANGED <<cpReq, cpPlace, cpBuf, cpOut, cpPos, cpTotal, cpThere, cpAttr, cpBad, cpSig, cpLost, cpExit>>

(* What a write at pos leaves, and what is left to write after n bytes.    *)
Overwritten(out, pos, bytes) ==
  IF bytes = <<>> THEN out
  ELSE [i \in 1 .. CpMost(Len(out), pos + Len(bytes)) |->
          IF i \in pos + 1 .. pos + Len(bytes) THEN bytes[i - pos] ELSE IF i <= Len(out) THEN out[i] ELSE Zero]

Remaining_none(buf, n) == <<>>
Remaining(buf, n) == SubSeq(buf, n + 1, Len(buf))

(* dd stops once it has read what was asked for.                           *)
DdEnough == CpIs({"dd"}) /\ inmax # 0 /\ cpTotal.in >= inmax

CpWrites ==
  /\ cpPhase = "write" /\ cpBuf # <<>>
  /\ \E n \in 1 .. Len(cpBuf) :
       /\ CpIs({"cp"}) => n = Len(cpBuf)
       /\ cpOut' = Overwritten(cpOut, cpPos, SubSeq(cpBuf, 1, n)) /\ cpPos' = cpPos + n
       /\ cpBuf' = Remaining(cpBuf, n) /\ cpTotal' = [cpTotal EXCEPT !.out = @ + n]
  /\ cpPhase' = IF cpBuf' # <<>> THEN "write" ELSE IF DdEnough THEN "close" ELSE "read"
  /\ UNCHANGED <<cpReq, cpPlace, cpThere, cpAttr, cpBad, cpErr, cpSig, cpFault, cpLost, cpExit>>

(* A write that fails ends the copy, and fwrite may have written some of   *)
(* the buffer.  cat drops the buffer, and with it what stdout still held   *)
(* of the ones before, and reads on.                                       *)
CpWriteFails ==
  /\ cpPhase = "write" /\ ~ CpIs({"cat"}) /\ cpErr' = TRUE /\ cpFault' = TRUE
  /\ \E n \in 0 .. IF CpIs({"cp"}) THEN Len(cpBuf) - 1 ELSE 0 :
       cpOut' = Overwritten(cpOut, cpPos, SubSeq(cpBuf, 1, n)) /\ cpPos' = cpPos + n
  /\ cpBuf' = <<>> /\ cpPhase' = "close"
  /\ UNCHANGED <<cpReq, cpPlace, cpTotal, cpThere, cpAttr, cpBad, cpSig, cpLost, cpExit>>

CatDrops ==
  /\ cpPhase = "write" /\ CpIs({"cat"}) /\ cpErr' = TRUE /\ cpFault' = TRUE
  /\ \E n \in 0 .. Len(cpOut) : cpOut' = SubSeq(cpOut, 1, n) /\ cpPos' = n
  /\ cpBuf' = <<>> /\ cpPhase' = "read"
  /\ UNCHANGED <<cpReq, cpPlace, cpTotal, cpThere, cpAttr, cpBad, cpSig, cpLost, cpExit>>

(* The files are closed.  What close says of the target is printed by dd   *)
(* and ignored by mv and cp; cat and logread have none.                    *)
Closes(tools) ==
  /\ cpPhase = "close" /\ CpIs(tools) /\ MayLose({"dd", "mv", "cp"})
  /\ UNCHANGED <<cpReq, cpIn, cpSkip, cpBuf, cpPos, cpTotal, cpAttr, cpBad, cpErr, cpSig, cpFault>>

(* dd is always successful, whatever err is.                               *)
DdCloses == Closes({"dd"}) /\ CpExits(0) /\ UNCHANGED <<cpFile, cpThere>>
LogCloses == Closes({"logread"}) /\ CpExits(IF cpErr THEN 1 ELSE 0) /\ UNCHANGED <<cpFile, cpThere>>
CatCloses == Closes({"cat"}) /\ cpFile' = cpFile + 1 /\ cpPhase' = "start" /\ UNCHANGED <<cpThere, cpExit>>

(* mv then removes the source.                                             *)
MvCloses ==
  /\ Closes({"mv"}) /\ UNCHANGED cpFile
  /\ \/ cpErr /\ CpExits(1) /\ UNCHANGED cpThere
     \/ ~ cpErr /\ \E gone \in BOOLEAN : cpThere' = ~ gone /\ CpExits(IF gone THEN 0 ELSE 1)

CpCloses ==
  /\ Closes({"cp"}) /\ UNCHANGED <<cpFile, cpThere>>
  /\ \/ (cpErr \/ ~ cpReq.preserve) /\ CpExits(IF cpErr THEN 1 ELSE 0)
     \/ ~ cpErr /\ cpReq.preserve /\ cpPhase' = "attr" /\ UNCHANGED cpExit

(* cp -p: owner, mode and times, each of them even if one before failed.   *)
CpPreserves ==
  /\ cpPhase = "attr"
  /\ cpAttr' \in SUBSET {"owner", "mode", "times"}
  /\ CpExits(IF cpAttr' = {"owner", "mode", "times"} THEN 0 ELSE 1)
  /\ UNCHANGED <<cpReq, cpPlace, cpBuf, cpOut, cpPos, cpTotal, cpThere, cpBad, cpErr, cpSig, cpFault, cpLost>>

CpNext ==
  \/ CpRefuses \/ DdOpens \/ DdSkips \/ DdSeeks \/ CpOpens \/ MvOpens \/ LogOpens \/ MvRenames \/ CatOpens \/ CpSignal \/ LogGrows
  \/ CpReads \/ CpReadEnds \/ CpWrites \/ CpWriteFails \/ CatDrops
  \/ DdCloses \/ LogCloses \/ CatCloses \/ MvCloses \/ CpCloses \/ CpPreserves
CpSpec == CpInit /\ [][CpNext]_cpVars

-----------------------------------------------------------------------------
(* What dd prints is what it did: the bytes it counts are the ones of the  *)
(* input from the skipped ones on, in order, at their place in the target; *)
(* and unless something failed they are all of them, up to the end or to   *)
(* the count, which the last short read may pass by less than a block.     *)
(* Four cases are left out: close lost bytes; a pipe of which blocks are   *)
(* skipped (skipval counts bytes); a block size that an int cannot hold;   *)
(* and, for how much is copied, count=0, which dd takes for no limit.      *)
DdIsExact ==
  LET bs == getnumber(cpReq.bs)
      from == getnumber(cpReq.skip) * bs
      at == getnumber(cpReq.seek) * bs
      there == IF "notrunc" \in cpReq.conv THEN CpBytes(0, 0, CpMost(cpReq.old, 0)) ELSE <<>>
      limited == DdCount # SSIZE_MAX
      rest == cpReq.files[1] - from
  IN cpExit = 0 /\ ~ cpLost /\ ~ (cpReq.pipe /\ from > 0) /\ bs \in 1 .. INT_MAX =>
       /\ cpOut = Overwritten(there, at, CpBytes(1, from, cpTotal.out))
       /\ ~ cpFault /\ DdCount # 0 =>
            /\ cpTotal.out >= IF limited THEN CpLeast(DdCount * bs, rest) ELSE rest
            /\ limited => cpTotal.out < DdCount * bs + bs

(* cp that succeeds has the whole source at the start of the target, and   *)
(* with -p its attributes; what a longer target held before stays behind.  *)
(* Left out is what close loses.                                           *)
CpIsExact ==
  cpExit = 0 => /\ cpLost \/ cpOut = Overwritten(CpBytes(0, 0, CpMost(cpReq.old, 0)), 0, CpBytes(1, 0, cpReq.files[1]))
                /\ cpReq.preserve => cpAttr = {"owner", "mode", "times"}

(* At every step, so if the power fails, mv has not lost the file.         *)
MvIsExact ==
  /\ cpThere \/ cpLost \/ cpOut = CpBytes(1, 0, cpReq.files[1])
  /\ cpExit = 0 => ~ cpThere

(* What the first k files are.                                             *)
CatPrints(files) ==
  LET printed[k \in 0 .. Len(files)] ==
        IF k = 0 THEN <<>> ELSE printed[k - 1] \o CpBytes(k, 0, CpMost(files[k], 0))
  IN  printed

(* cat prints its files one after the other; if it says that it succeeded  *)
(* and was not interrupted, none of their bytes is missing, but for what   *)
(* stdout still held when cat ended and loses at its next flush.  logread  *)
(* prints a prefix of the log, and all there was unless it says otherwise. *)
ListIsExact ==
  LET all == CatPrints(cpReq.files)[Len(cpReq.files)]
  IN /\ IsPrefix(cpOut, all) \/ cpErr
     /\ cpExit = 0 /\ ~ cpSig /\ ~ cpLost /\ cpReq.tool = "cat" => cpOut = all
     /\ cpExit = 0 /\ ~ cpSig /\ cpReq.tool = "logread" => Len(cpOut) >= cpIn

(* What each of the five reports about its copy is true, whatever reads    *)
(* and writes were short, failed or were interrupted.                      *)
CopyIsExact ==
  CASE CpIs({"dd"}) -> DdRefused \/ DdIsExact
    [] CpIs({"cp"}) -> CpIsExact
    [] CpIs({"mv"}) -> MvIsExact
    [] CpIs({"cat", "logread"}) -> ListIsExact
=============================================================================
