------------------------------ MODULE NandTool ------------------------------
(***************************************************************************)
(* One run of nandtool on a partition of a NAND flash: check for bad       *)
(* blocks, erase, flash an image, print the digest of what was flashed,    *)
(* write the boot control blocks (FCB and DBBT), scan, dump; in this order *)
(* and up to the first error, except that the dump is made anyway.  Every  *)
(* call to the flash server can fail.                                      *)
(*                                                                         *)
(* The bytes of an image are its offsets.  A page that was not erased      *)
(* before it is written holds neither its old nor its new contents.        *)
(***************************************************************************)
EXTENDS Integers, Sequences, SequencesExt, FiniteSets, Filter

CONSTANTS
  NTBLOCKS,      \* info->size / info->erasesz
  NTPAGES,       \* info->erasesz / info->writesz
  NTWRITESZ,     \* info->writesz
  NTMETASZ,      \* info->metasz
  BCB_CNT,       \* copies of each boot control block
  BCB_BB_MAX,    \* entries of a DBBT
  BCB_DBBT_START,\* its first page
  NtRequests     \* command lines, with the bad blocks of the flash

ASSUME NandToolAssumption ==
  /\ {NTBLOCKS, NTPAGES, NTWRITESZ, BCB_CNT, BCB_BB_MAX} \subseteq Nat \ {0}
  /\ NTMETASZ \in Nat
  (* The comment at the definition of BCB_DBBT_START.                      *)
  /\ BCB_DBBT_START = BCB_CNT * NTPAGES
  (* "DBBT is just after BCB_CNT FCB blocks on the same partition".        *)
  /\ 2 * BCB_CNT <= NTBLOCKS
  /\ \A r \in NtRequests : {r.image, r.start} \subseteq Nat /\ r.digest \in Int /\ r.bad \subseteq 0 .. NTBLOCKS - 1

VARIABLES
  ntReq,     \* the options
  ntPage,    \* contents of each page
  ntMark,    \* blocks with a jffs2 cleanmarker
  ntPhase,   \* the option at work
  ntErr,     \* err < 0 in main
  ntPos,     \* offs of nandtool_flash; size left in nandtool_sha256; bytes dumped
  ntAt,      \* start, in pages, of nandtool_flash; block, or copy, of the others
  ntHash,    \* bytes given to sha256_process
  ntTable,   \* dbbt->bad_block
  ntFailed,  \* dbbt_failed, fcb_failed
  ntStep,    \* how far the copy at hand is: read, erase, write, verify
  ntShort    \* history: a page was written short, and errno was 0

ntVars == <<ntReq, ntPage, ntMark, ntPhase, ntErr, ntPos, ntAt, ntHash, ntTable, ntFailed, ntStep, ntShort>>

(* Contents of a page: bytes of the image, and others that differ.         *)
Erased == <<>>
AllOnes == -1
Mixed == -2
FcbWord == -3
DbbtWord == -4
OldWord == -5
NtPageNos == 0 .. NTBLOCKS * NTPAGES - 1
PagesOf(b) == b * NTPAGES .. b * NTPAGES + NTPAGES - 1

(* What a write leaves in a page that held old.                            *)
Programmed(old, new) == IF old = Erased \/ old = new THEN new ELSE [i \in DOMAIN new |-> Mixed]

(* The answers of the flash server.  A block beyond the partition is an    *)
(* error.                                                                  *)
isbad(b) == IF b >= NTBLOCKS THEN {"error"} ELSE {"error", IF b \in ntReq.bad THEN "bad" ELSE "good"}

Bytes(p) == IF ntPage[p] = Erased THEN [i \in 1 .. NTWRITESZ |-> AllOnes] ELSE SubSeq(ntPage[p], 1, NTWRITESZ)

-----------------------------------------------------------------------------
(* The options in the order of main, and the one that follows another.     *)
NtOrder == <<"check", "erase", "flash", "digest", "fcb", "dbbt", "scan", "dump">>

Wanted(p) ==
  CASE p = "check"  -> ntReq.check
    [] p = "erase"  -> ntReq.erase # <<>>
    [] p = "flash"  -> ntReq.image > 0
    [] p = "digest" -> ntReq.digest >= 0
    [] p = "fcb"    -> ntReq.fcb
    [] p = "dbbt"   -> ntReq.dbbt
    [] p = "scan"   -> ~ntReq.dbbt /\ ntReq.scan
    [] p = "dump"   -> ntReq.dump # <<>>

NtFirst(from) ==
  LET due == {i \in from .. Len(NtOrder) : Wanted(NtOrder[i])}
  IN  IF due = {} THEN "done" ELSE NtOrder[Min(due)]

(* nandtool_parseRange: without a size the range is one block.             *)
nandtool_parseRange(r) == [start |-> r[1], size |-> IF Len(r) = 1 THEN 1 ELSE r[2]]

Enter(p) ==
  /\ ntPhase' = p
  /\ ntPos' = CASE p = "digest" -> ntReq.digest [] OTHER -> 0
  /\ ntAt' = CASE p = "flash"  -> ntReq.start * NTPAGES
               [] p = "digest" -> ntReq.start
               [] p = "dump"   -> nandtool_parseRange(ntReq.dump).start * NTPAGES
               [] OTHER -> 0
  /\ ntStep' = "read"
  /\ ntFailed' = 0

NtInit ==
  /\ ntReq \in NtRequests
  /\ ntPage = [p \in NtPageNos |-> ntReq.before[p \div NTPAGES]]
  /\ ntMark = {} /\ ntHash = <<>> /\ ntTable = <<>> /\ ntErr = FALSE /\ ntShort = FALSE
  /\ ntPhase = "start" /\ ntPos = 0 /\ ntAt = 0 /\ ntStep = "read" /\ ntFailed = 0

NtStart ==
  /\ ntPhase = "start"
  /\ Enter(NtFirst(1))
  /\ UNCHANGED <<ntReq, ntPage, ntMark, ntErr, ntHash, ntTable, ntShort>>

(* The option at work is done; the first error goes straight to the dump.  *)
Succeed == UNCHANGED ntErr /\ \E i \in DOMAIN NtOrder : NtOrder[i] = ntPhase /\ Enter(NtFirst(i + 1))
Break == Enter(NtFirst(Len(NtOrder))) /\ ntErr' = TRUE

NtFails ==
  /\ ntPhase \in {"check", "flash", "digest"}
  /\ Break
  /\ UNCHANGED <<ntReq, ntPage, ntMark, ntHash, ntTable, ntShort>>

(* nandtool_check only prints; an error of flashmng_isbad ends it.         *)
nandtool_check ==
  /\ ntPhase = "check"
  /\ Succeed
  /\ UNCHANGED <<ntReq, ntPage, ntMark, ntHash, ntTable, ntShort>>

-----------------------------------------------------------------------------
(* flashmng_erase: the server erases the good blocks of the range, all     *)
(* blocks for size 0, and stops at the one it cannot erase.                *)
EraseRange(r) == IF r.size = 0 THEN r.start .. NTBLOCKS - 1 ELSE r.start .. r.start + r.size - 1

Wipe(blocks) == [p \in NtPageNos |-> IF p \div NTPAGES \in blocks \ ntReq.bad THEN Erased ELSE ntPage[p]]

nandtool_erase ==
  /\ ntPhase = "erase"
  /\ LET r == nandtool_parseRange(ntReq.erase)
     IN  \/ /\ EraseRange(r) \subseteq 0 .. NTBLOCKS - 1
            /\ ntPage' = Wipe(EraseRange(r))
            /\ IF ~ntReq.cleanmarkers THEN Succeed /\ UNCHANGED ntMark
               (* flashmng_cleanMarkers: on, past the markers that fail;     *)
               (* a block that cannot be checked is skipped like a bad one.  *)
               ELSE \E marked \in SUBSET (EraseRange(r) \ ntReq.bad), failed \in BOOLEAN :
                      /\ failed => marked # EraseRange(r) \ ntReq.bad
                      /\ ntMark' = marked
                      /\ IF failed THEN Break ELSE Succeed
         \/ /\ \E n \in 0 .. r.size : ntPage' = Wipe({b \in EraseRange(r) : b < r.start + n})
            /\ Break
            /\ UNCHANGED ntMark
  /\ UNCHANGED <<ntReq, ntHash, ntTable, ntShort>>

-----------------------------------------------------------------------------
(* nandtool_flash: a page per step.                                        *)
NtPagesz == IF ntReq.raw THEN NTWRITESZ + NTMETASZ ELSE NTWRITESZ
FlashPage == ntAt + ntPos \div NtPagesz
FlashBlock == FlashPage \div NTPAGES

FlashEnds ==
  /\ ntPhase = "flash" /\ ntPos >= ntReq.image
  /\ Succeed
  /\ UNCHANGED <<ntReq, ntPage, ntMark, ntHash, ntTable, ntShort>>

FlashSkips_page == ntPos' = ntPos + NtPagesz /\ ntAt' = ntAt

(* A bad block is stepped over a page at a time.                           *)
FlashSkips == ntAt' = ntAt + 1 /\ ntPos' = ntPos

FlashBad ==
  /\ ntPhase = "flash" /\ ntPos < ntReq.image
  /\ "bad" \in isbad(FlashBlock)
  /\ FlashSkips
  /\ UNCHANGED <<ntReq, ntPage, ntMark, ntPhase, ntErr, ntHash, ntTable, ntFailed, ntStep, ntShort>>

(* The last page is filled up with zeros.                                  *)
ImagePage == [i \in 1 .. NtPagesz |-> IF ntPos + i <= ntReq.image THEN ntPos + i ELSE 0]

FlashWrite ==
  /\ ntPhase = "flash" /\ ntPos < ntReq.image
  /\ "good" \in isbad(FlashBlock)
  /\ \/ /\ ntPage' = [ntPage EXCEPT ![FlashPage] = Programmed(@, ImagePage)]
        /\ ntPos' = IF ntPos + NtPagesz < ntReq.image THEN ntPos + NtPagesz ELSE ntReq.image
        /\ UNCHANGED <<ntAt, ntPhase, ntErr, ntFailed, ntStep, ntShort>>
     (* A short write leaves errno as it was: 0 counts as success.          *)
     \/ /\ ~ntReq.raw
        /\ ntPage' = [ntPage EXCEPT ![FlashPage] = Programmed(@, [ImagePage EXCEPT ![NtPagesz] = 0])]
        /\ \/ Succeed /\ ntShort' = TRUE
           \/ Break /\ UNCHANGED ntShort
  /\ UNCHANGED <<ntReq, ntMark, ntHash, ntTable>>

-----------------------------------------------------------------------------
(* nandtool_sha256: a block per step.                                      *)
DigestPages == IF NTPAGES * NTWRITESZ > ntPos THEN (ntPos + NTWRITESZ - 1) \div NTWRITESZ ELSE NTPAGES
BlockBytes(b, n) ==
  [i \in 1 .. n * NTWRITESZ |-> Bytes(b * NTPAGES + (i - 1) \div NTWRITESZ)[((i - 1) % NTWRITESZ) + 1]]

DigestBlock ==
  /\ ntPhase = "digest" /\ ntPos > 0 /\ ntAt < NTBLOCKS
  /\ \/ "bad" \in isbad(ntAt) /\ UNCHANGED <<ntHash, ntPos>>
     \/ /\ "good" \in isbad(ntAt)
        /\ LET read == BlockBytes(ntAt, DigestPages)
               len == IF Len(read) > ntPos THEN ntPos ELSE Len(read)
           IN  ntHash' = ntHash \o SubSeq(read, 1, len) /\ ntPos' = ntPos - len
  /\ ntAt' = ntAt + 1
  /\ UNCHANGED <<ntReq, ntPage, ntMark, ntPhase, ntErr, ntTable, ntFailed, ntStep, ntShort>>

(* Bytes left over at the end of the partition are an error.               *)
DigestEnds ==
  /\ ntPhase = "digest" /\ (ntPos = 0 \/ ntAt >= NTBLOCKS)
  /\ IF ntPos > 0 THEN Break ELSE Succeed
  /\ UNCHANGED <<ntReq, ntPage, ntMark, ntHash, ntTable, ntShort>>

-----------------------------------------------------------------------------
(* nandtool_scan adds the bad blocks of the partition in order, up to the  *)
(* size of the table; a block that cannot be checked counts as bad.        *)
nandtool_scan(unknown) ==
  LET all == Keep([i \in 1 .. NTBLOCKS |-> i - 1], ntReq.bad \cup unknown)
  IN  SubSeq(all, 1, IF Len(all) < BCB_BB_MAX THEN Len(all) ELSE BCB_BB_MAX)

NtScans ==
  /\ ntPhase = "scan"
  /\ Succeed \/ Break
  /\ UNCHANGED <<ntReq, ntPage, ntMark, ntHash, ntTable, ntShort>>

NtScansForTable ==
  /\ ntPhase = "dbbt" /\ ntAt = 0 /\ ntStep = "read" /\ ntTable = <<>>
  /\ \E unknown \in {u \in SUBSET (0 .. NTBLOCKS - 1) : Cardinality(u) <= 1} :
       LET found == IF ntReq.scan THEN nandtool_scan(unknown) ELSE <<>>
       IN  IF Len(found) >= BCB_BB_MAX
           THEN Break /\ UNCHANGED ntTable
           ELSE ntTable' = <<DbbtWord>> \o found /\ UNCHANGED <<ntErr, ntPhase, ntPos, ntAt, ntFailed, ntStep>>
  /\ UNCHANGED <<ntReq, ntPage, ntMark, ntHash, ntShort>>

(* The copies of a control block: copy i of the FCB is in block i, copy i  *)
(* of the DBBT in block BCB_CNT + i; each is the first page of its block.  *)
CopyBlock == IF ntPhase = "fcb" THEN ntAt ELSE BCB_CNT + ntAt

fcb_init == [i \in 1 .. NTWRITESZ |-> FcbWord]

NewCopy == IF ntPhase = "fcb" THEN fcb_init ELSE ntTable
OnFlash == ntPage[CopyBlock * NTPAGES]

BcbAt(step) == ntPhase \in {"fcb", "dbbt"} /\ ntAt < BCB_CNT /\ ntStep = step /\ (ntPhase = "dbbt" => ntTable # <<>>)

NextCopy(failed) == ntAt' = ntAt + 1 /\ ntStep' = "read" /\ ntFailed' = ntFailed + failed /\ UNCHANGED <<ntPhase, ntPos, ntErr>>
ToStep(step) == ntStep' = step /\ UNCHANGED <<ntPhase, ntPos, ntErr, ntAt, ntFailed>>

(* A copy that is there already is left alone.                             *)
BcbRead ==
  /\ BcbAt("read")
  /\ IF OnFlash = NewCopy THEN NextCopy(0) ELSE ToStep("erase")
  /\ UNCHANGED <<ntReq, ntPage, ntMark, ntHash, ntTable, ntShort>>

BcbEraseBlock_all == 0 .. 2 * BCB_CNT - 1

(* The block erased is counted from BCB_DBBT_START, the one written from   *)
(* BCB_CNT.                                                                *)
BcbEraseBlock == {IF ntPhase = "fcb" THEN ntAt ELSE BCB_DBBT_START \div NTPAGES + ntAt}

BcbErase ==
  /\ BcbAt("erase")
  /\ ntPage' = Wipe(BcbEraseBlock)
  /\ ToStep("write")
  /\ UNCHANGED <<ntReq, ntMark, ntHash, ntTable, ntShort>>

BcbWrite ==
  /\ BcbAt("write")
  /\ ntPage' = [ntPage EXCEPT ![CopyBlock * NTPAGES] = Programmed(@, NewCopy)]
  /\ IF ntPhase = "fcb" THEN ToStep("verify") ELSE NextCopy(0)
  /\ UNCHANGED <<ntReq, ntMark, ntHash, ntTable, ntShort>>

(* Only the FCB is read back.                                              *)
BcbVerify ==
  /\ BcbAt("verify")
  /\ NextCopy(IF OnFlash = NewCopy THEN 0 ELSE 1)
  /\ UNCHANGED <<ntReq, ntPage, ntMark, ntHash, ntTable, ntShort>>

(* A step that fails gives this copy up and goes on with the next one; a   *)
(* failed write may have spoilt the page.                                  *)
BcbStepFails ==
  /\ \E step \in {"read", "erase", "write", "verify"} : BcbAt(step)
  /\ NextCopy(1)
  /\ \/ UNCHANGED ntPage
     \/ ntStep = "write" /\ ntPage' = [ntPage EXCEPT ![CopyBlock * NTPAGES] = [i \in DOMAIN NewCopy |-> Mixed]]
  /\ UNCHANGED <<ntReq, ntMark, ntHash, ntTable, ntShort>>

(* Only the failure of all copies is an error.                             *)
BcbEnds == ntFailed = BCB_CNT

BcbDone ==
  /\ ntPhase \in {"fcb", "dbbt"} /\ ntAt = BCB_CNT
  /\ IF BcbEnds THEN Break ELSE Succeed
  /\ UNCHANGED <<ntReq, ntPage, ntMark, ntHash, ntTable, ntShort>>

-----------------------------------------------------------------------------
(* nandtool_dump: a page per step, bad blocks too; its result is ignored.  *)
DumpEnd ==
  LET r == nandtool_parseRange(ntReq.dump)
  IN  IF r.size = 0 THEN NTBLOCKS * NTPAGES ELSE (r.start + r.size) * NTPAGES

nandtool_dump ==
  /\ ntPhase = "dump"
  /\ IF ntAt + ntPos < DumpEnd /\ ntAt + ntPos \in NtPageNos
     THEN \/ ntPos' = ntPos + 1 /\ UNCHANGED <<ntPhase, ntAt, ntStep, ntFailed>>
          \/ Enter("done")
     ELSE Enter("done")
  /\ UNCHANGED <<ntReq, ntPage, ntMark, ntErr, ntHash, ntTable, ntShort>>

NtNext ==
  \/ NtStart \/ NtFails \/ nandtool_check \/ nandtool_erase
  \/ FlashEnds \/ FlashBad \/ FlashWrite \/ DigestBlock \/ DigestEnds
  \/ NtScans \/ NtScansForTable
  \/ BcbRead \/ BcbErase \/ BcbWrite \/ BcbVerify \/ BcbStepFails \/ BcbDone
  \/ nandtool_dump

NtSpec == NtInit /\ [][NtNext]_ntVars

-----------------------------------------------------------------------------
AllErased == \A b \in 0 .. NTBLOCKS - 1 : ntReq.before[b] = Erased \/ b \in ntReq.bad

(* "skipping bad blocks the way nandtool_flash() does": a run that flashes *)
(* an erased flash and ends well has given exactly the bytes asked for,    *)
(* from the start of the image and in order, to the digest, wherever the   *)
(* bad blocks are.                                                         *)
DigestIsImage ==
  /\ ntPhase \in {"fcb", "dbbt", "scan", "dump", "done"} /\ ~ntErr /\ ~ntShort
  /\ ntReq.image > 0 /\ ~ntReq.raw /\ ntReq.digest >= 0 /\ ntReq.digest <= ntReq.image
  /\ AllErased \/ ntReq.erase = <<0, 0>>
  => ntHash = [i \in 1 .. ntReq.digest |-> i]

CopyValid(b) == LET c == ntPage[b * NTPAGES] IN c # Erased /\ Mixed \notin ToSet(c)

(* Whenever the run stops, with up to BCB_CNT - 2 copies that failed, and  *)
(* whatever step of a copy it is at, one valid copy of each control block  *)
(* is left of a flash that had all of them; and a run that reports success *)
(* has one with the new contents.  A bad block is not erased, and a DBBT   *)
(* in it would not be read back.                                           *)
HadCopies ==
  /\ ntReq.image = 0 /\ ntReq.erase = <<>>
  /\ \A b \in 0 .. 2 * BCB_CNT - 1 : ntReq.before[b] # Erased /\ Mixed \notin ToSet(ntReq.before[b])
DbbtBlocks == BCB_CNT .. 2 * BCB_CNT - 1

BootBlocksSurvive ==
  /\ HadCopies /\ ntFailed < BCB_CNT - 1 =>
       /\ ntPhase = "fcb" => \E b \in 0 .. BCB_CNT - 1 : CopyValid(b)
       /\ ntPhase = "dbbt" /\ ntReq.bad \cap DbbtBlocks = {} => \E b \in DbbtBlocks : CopyValid(b)
  /\ ntPhase = "done" /\ ~ntErr /\ ntReq.dbbt /\ ntReq.bad \cap DbbtBlocks = {} =>
       \E b \in DbbtBlocks : ntPage[b * NTPAGES] = ntTable
=============================================================================
