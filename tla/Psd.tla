-------------------------------- MODULE Psd ---------------------------------
(***************************************************************************)
(* psd, the device side of the serial download protocol (i.MX 6ULL): the   *)
(* host sends commands as USB reports, the device carries each one out and *)
(* answers with reports 3 and 4.  Sizes are counted in data reports: a     *)
(* page is PDREPORTS of them, a block PDPAGES pages.  The host, the USB    *)
(* transport and the flash server are the environment; the host erases     *)
(* what it is going to write, so a write replaces the page.                *)
(***************************************************************************)
EXTENDS Integers, Sequences, SequencesExt, FiniteSets

CONSTANTS
  PDPARTS,     \* partitions given on the command line (argc - 1)
  PDBLOCKS,    \* blocks of each
  PDPAGES,     \* psd_common.flash.erasesz / writesz
  PDREPORTS,   \* psd_common.flash.writesz in reports
  PD_BB_MAX,   \* entries of a DBBT
  PdCommands,  \* what the host may send
  PdBads,      \* sets of bad blocks
  PdMaxCmds    \* bound: commands the host sends

ASSUME PsdAssumption ==
  /\ {PDPARTS, PDBLOCKS, PDPAGES, PDREPORTS, PD_BB_MAX} \subseteq Nat \ {0}
  /\ \A c \in PdCommands : c.type \in {"register", "file", "ignore"} /\ (c.type = "file" => {c.address, c.data} \subseteq Nat)

VARIABLES
  pdPhase,   \* "boot", "cmd", "register", "file", "reply", "closed" or "exited"
  pdRun,     \* psd_common.run
  pdCmd,     \* pcmd: the last command received
  pdNo,      \* number of commands carried out
  pdPart,    \* psd_common.f
  pdPage,    \* contents of the pages of each partition
  pdBad,     \* bad blocks of each partition
  pdDbbt,    \* psd_common.dbbt
  pdFuses,   \* words blown
  pdErr,     \* err
  pdOffs,    \* fileOffs, in pages
  pdGot,     \* reports of the file received (writesz + buffOffset)
  pdBuff,    \* psd_common.buff
  pdReply,   \* the answer the host got to the last command
  pdGuess    \* history: a question about a bad block was not answered

pdVars == <<pdPhase, pdRun, pdCmd, pdNo, pdPart, pdPage, pdBad, pdDbbt, pdFuses, pdErr, pdOffs, pdGot, pdBuff, pdReply, pdGuess>>
pdFile == <<pdOffs, pdGot, pdBuff>>

PdParts == 0 .. PDPARTS - 1
PdPageNos == 0 .. PDBLOCKS * PDPAGES - 1
NoCmd == [type |-> "none", address |-> "", data |-> 0, format |-> 0]
PdBlank == <<>>

PsdInit ==
  /\ pdPhase = "boot" /\ pdRun = FALSE /\ pdCmd = NoCmd /\ pdNo = 0 /\ pdPart = 0
  /\ pdBad \in [PdParts -> PdBads]
  /\ pdPage = [p \in PdParts |-> [n \in PdPageNos |-> PdBlank]]
  /\ pdDbbt = <<>> /\ pdFuses = 0 /\ pdErr = FALSE
  /\ pdOffs = 0 /\ pdGot = 0 /\ pdBuff = <<>> /\ pdReply = "none" /\ pdGuess = FALSE

(* main up to its loop: every partition is opened and the first selected.  *)
PsdStart ==
  /\ pdPhase = "boot"
  /\ \/ pdPhase' = "cmd" /\ pdRun' = TRUE
     \/ pdPhase' = "exited" /\ UNCHANGED pdRun
  /\ UNCHANGED <<pdCmd, pdNo, pdPart, pdPage, pdBad, pdDbbt, pdFuses, pdErr, pdFile, pdReply, pdGuess>>

(* The loop of main takes pcmd as it finds it.                             *)
Dispatch(c) ==
  /\ pdCmd' = c
  /\ pdNo' = pdNo + 1
  /\ pdReply' = "none"
  /\ pdPhase' = c.type
  /\ pdOffs' = 0 /\ pdGot' = 0 /\ pdBuff' = <<>> /\ pdErr' = FALSE
  /\ UNCHANGED <<pdRun, pdPart, pdPage, pdBad, pdDbbt, pdFuses, pdGuess>>

RecvCmd ==
  /\ pdPhase = "cmd" /\ pdRun /\ pdNo < PdMaxCmds
  /\ \E c \in PdCommands : Dispatch(c)

(* The result of sdp_recv is not looked at: the last command is carried    *)
(* out again.  Before the first one there is none to point at.             *)
RecvAgain ==
  /\ pdPhase = "cmd" /\ pdRun /\ pdNo <= PdMaxCmds
  /\ pdCmd # NoCmd
  /\ Dispatch(pdCmd)

(* psd_common.run is 0: the device reboots.                                *)
PsdClose ==
  /\ pdPhase = "cmd" /\ ~pdRun
  /\ pdPhase' = "closed"
  /\ UNCHANGED <<pdRun, pdCmd, pdNo, pdPart, pdPage, pdBad, pdDbbt, pdFuses, pdErr, pdFile, pdReply, pdGuess>>

-----------------------------------------------------------------------------
(* psd_hidResponse: both reports are sent; an error, of the command or of  *)
(* one of the two, ends psd without a reboot.                              *)
psd_hidResponse ==
  /\ pdPhase = "reply"
  /\ \/ /\ pdReply' = IF pdErr THEN "error" ELSE "complete"
        /\ pdPhase' = IF pdErr THEN "exited" ELSE "cmd"
     \/ pdReply' = "partial" /\ pdPhase' = "exited"
  /\ UNCHANGED <<pdRun, pdCmd, pdNo, pdPart, pdPage, pdBad, pdDbbt, pdFuses, pdErr, pdFile, pdGuess>>

Register(address) == pdPhase = "register" /\ pdCmd.address = address
Answer(err) == pdPhase' = "reply" /\ pdErr' = err
RegisterKeeps == UNCHANGED <<pdCmd, pdNo, pdBad, pdFile, pdReply>>

(* flashmng_getAttr: whether an attribute could be read.                   *)
getAttr(part) == IF part \in PdParts THEN BOOLEAN ELSE {FALSE}

(* A number that is too large is an error; the two after the last one      *)
(* select an entry that was never opened, whose attributes cannot be read. *)
psd_changePartition ==
  /\ Register("partition")
  /\ \/ pdCmd.data > PDPARTS + 1 /\ Answer(TRUE) /\ UNCHANGED pdPart
     \/ pdCmd.data <= PDPARTS + 1 /\ pdPart' = pdCmd.data /\ \E read \in getAttr(pdCmd.data) : Answer(~ read)
  /\ RegisterKeeps
  /\ UNCHANGED <<pdRun, pdPage, pdDbbt, pdFuses, pdGuess>>

(* flashmng_checkRange: the table grows with every scan, and a block that  *)
(* cannot be checked counts as bad.                                        *)
Scanned(unknown) ==
  LET found == SetToSortSeq(pdBad[pdPart] \cup unknown, LAMBDA x, y : x < y)
      room == PD_BB_MAX - Len(pdDbbt)
  IN  pdDbbt \o SubSeq(found, 1, IF Len(found) < room THEN Len(found) ELSE room)

(* The pages that fcb_init and dbbt_fingerprint prepare, and where the     *)
(* copies go: one at the start of each block, the tables after the FCBs.   *)
PD_BCB_CNT == 4
FcbPage == <<pdNo, -1>>
DbbtPage == <<pdNo, -2>>
Copied(word, first, copies) ==
  [pdPage EXCEPT ![pdPart] = [n \in PdPageNos |-> IF \E b \in copies : n = (first + b) * PDPAGES THEN word ELSE @[n]]]

(* The copies fail one by one, and together only if all do.  An FCB that   *)
(* was written counts once it was read back.                               *)
fcb_flash ==
  \E written \in SUBSET (0 .. PD_BCB_CNT - 1) : \E verified \in SUBSET written :
    pdPage' = Copied(FcbPage, 0, written) /\ Answer(verified = {})
dbbt_flash ==
  \E written \in SUBSET (0 .. PD_BCB_CNT - 1) :
    pdPage' = Copied(DbbtPage, PD_BCB_CNT, written) /\ Answer(written = {})

psd_controlBlock ==
  /\ Register("control")
  /\ \/ pdCmd.data = 1 /\ fcb_flash /\ UNCHANGED pdDbbt
     \/ pdCmd.data = 2 /\ dbbt_flash /\ UNCHANGED pdDbbt
     \/ /\ pdCmd.data = 3
        /\ \E unknown \in {u \in SUBSET (0 .. PDBLOCKS - 1) : Cardinality(u) <= 1} :
             pdDbbt' = Scanned(unknown) /\ Answer(Len(Scanned(unknown)) >= PD_BB_MAX)
        /\ UNCHANGED pdPage
     \/ pdCmd.data > 3 /\ Answer(TRUE) /\ UNCHANGED <<pdPage, pdDbbt>>
  /\ RegisterKeeps
  /\ UNCHANGED <<pdRun, pdPart, pdFuses, pdGuess>>

(* flashmng_eraseBlocks, as far as block done; the server passes over bad  *)
(* blocks.                                                                 *)
eraseBlocks(done) ==
  [pdPage EXCEPT ![pdPart] = [n \in PdPageNos |->
     IF n \div PDPAGES < done /\ n \div PDPAGES \notin pdBad[pdPart] THEN PdBlank ELSE @[n]]]

(* psd_erasePartition; format 16 erases nothing, and a cleanmarker goes to *)
(* the spare area.                                                         *)
psd_erasePartition ==
  /\ Register("erase")
  /\ \E done \in 0 .. pdCmd.data, err \in BOOLEAN :
       /\ ~err => done = pdCmd.data
       /\ pdPage' = IF pdCmd.format = 16 THEN pdPage ELSE eraseBlocks(done)
       /\ Answer(err)
  /\ RegisterKeeps
  /\ UNCHANGED <<pdRun, pdPart, pdDbbt, pdFuses, pdGuess>>

(* psd_blowFuses: BT_FUSE_SEL, then BOOT_CFG, then the reload; each waits  *)
(* for the one before and an OTP error ends it where it is.                *)
psd_blowFuses ==
  /\ Register("fuses")
  /\ \E n \in 0 .. 3 : pdFuses' = (IF n > pdFuses THEN n ELSE pdFuses) /\ Answer(n < 3)
  /\ RegisterKeeps
  /\ UNCHANGED <<pdRun, pdPart, pdPage, pdDbbt, pdGuess>>

psd_close ==
  /\ Register("close")
  /\ pdRun' = FALSE
  /\ Answer(FALSE)
  /\ RegisterKeeps
  /\ UNCHANGED <<pdPart, pdPage, pdDbbt, pdFuses, pdGuess>>

psd_unrecognized ==
  /\ Register("other")
  /\ Answer(TRUE)
  /\ RegisterKeeps
  /\ UNCHANGED <<pdRun, pdPart, pdPage, pdDbbt, pdFuses, pdGuess>>

(* A command of another type is ignored and not answered.                  *)
PsdIgnores ==
  /\ pdPhase = "ignore"
  /\ pdPhase' = "cmd"
  /\ UNCHANGED <<pdRun, pdCmd, pdNo, pdPart, pdPage, pdBad, pdDbbt, pdFuses, pdErr, pdFile, pdReply, pdGuess>>

-----------------------------------------------------------------------------
(* psd_writeFile: parameters that are wrong end psd with no answer at all. *)
FileRefused ==
  /\ pdPhase = "file"
  /\ pdPhase' = "exited"
  /\ UNCHANGED <<pdRun, pdCmd, pdNo, pdPart, pdPage, pdBad, pdDbbt, pdFuses, pdErr, pdFile, pdReply, pdGuess>>

FileStarts ==
  /\ pdPhase = "file" /\ pdPart \in PdParts
  /\ pdCmd.address + (pdCmd.data + PDREPORTS - 1) \div PDREPORTS <= PDBLOCKS * PDPAGES
  /\ pdPhase' = "receive"
  /\ pdOffs' = pdCmd.address
  /\ UNCHANGED <<pdRun, pdCmd, pdNo, pdPart, pdPage, pdBad, pdDbbt, pdFuses, pdErr, pdGot, pdBuff, pdReply, pdGuess>>

PageFull == Len(pdBuff) = PDREPORTS \/ pdGot = pdCmd.data

FileReport ==
  /\ pdPhase = "receive" /\ ~PageFull
  /\ \/ pdBuff' = Append(pdBuff, <<pdNo, pdGot + 1>>) /\ pdGot' = pdGot + 1 /\ UNCHANGED <<pdPhase, pdErr>>
     \/ Answer(TRUE) /\ UNCHANGED <<pdBuff, pdGot>>
  /\ UNCHANGED <<pdRun, pdCmd, pdNo, pdPart, pdPage, pdBad, pdDbbt, pdFuses, pdOffs, pdReply, pdGuess>>

(* Blocks are checked where they begin.  A question that gets no answer,   *)
(* and one about a block beyond the partition, counts as bad; beyond it    *)
(* the file ends in a write that fails.                                    *)
BlockStart == pdOffs % PDPAGES = 0
isBadBlock == pdOffs \div PDPAGES \in pdBad[pdPart]

FileSkips ==
  /\ pdPhase = "receive" /\ PageFull /\ pdBuff # <<>> /\ BlockStart
  /\ \/ isBadBlock /\ pdGuess' = pdGuess
     \/ ~isBadBlock /\ pdGuess' = TRUE
  /\ \/ pdCmd.format = 1 /\ Answer(FALSE) /\ UNCHANGED pdOffs
     \/ pdCmd.format # 1 /\ pdOffs' = pdOffs + PDPAGES
        /\ IF pdOffs + PDPAGES < PDBLOCKS * PDPAGES THEN UNCHANGED <<pdPhase, pdErr>> ELSE Answer(TRUE)
  /\ UNCHANGED <<pdRun, pdCmd, pdNo, pdPart, pdPage, pdBad, pdDbbt, pdFuses, pdGot, pdBuff, pdReply>>

FileMayWrite_unchecked == PageFull /\ pdBuff # <<>>
FileMayWrite == PageFull /\ pdBuff # <<>> /\ (BlockStart => ~isBadBlock)

FileWrites ==
  /\ pdPhase = "receive" /\ FileMayWrite /\ pdOffs \in PdPageNos
  /\ \/ /\ pdPage' = [pdPage EXCEPT ![pdPart][pdOffs] = pdBuff]
        /\ pdOffs' = pdOffs + 1
        /\ pdBuff' = <<>>
        /\ UNCHANGED <<pdPhase, pdErr>>
     \/ /\ pdPage' = [pdPage EXCEPT ![pdPart][pdOffs] = PdBlank]
        /\ Answer(TRUE)
        /\ UNCHANGED <<pdOffs, pdBuff>>
  /\ UNCHANGED <<pdRun, pdCmd, pdNo, pdPart, pdBad, pdDbbt, pdFuses, pdGot, pdReply, pdGuess>>

(* The write runs off the partition.                                       *)
FileOverruns ==
  /\ pdPhase = "receive" /\ FileMayWrite /\ pdOffs \notin PdPageNos
  /\ Answer(TRUE)
  /\ UNCHANGED <<pdRun, pdCmd, pdNo, pdPart, pdPage, pdBad, pdDbbt, pdFuses, pdFile, pdReply, pdGuess>>

FileEnds ==
  /\ pdPhase = "receive" /\ pdGot = pdCmd.data /\ pdBuff = <<>>
  /\ Answer(FALSE)
  /\ UNCHANGED <<pdRun, pdCmd, pdNo, pdPart, pdPage, pdBad, pdDbbt, pdFuses, pdFile, pdReply, pdGuess>>

PsdNext ==
  \/ PsdStart \/ RecvCmd \/ RecvAgain \/ PsdClose \/ psd_hidResponse
  \/ psd_changePartition \/ psd_controlBlock \/ psd_erasePartition \/ psd_blowFuses
  \/ psd_close \/ psd_unrecognized \/ PsdIgnores
  \/ FileRefused \/ FileStarts \/ FileReport \/ FileSkips \/ FileWrites \/ FileOverruns \/ FileEnds

PsdSpec == PsdInit /\ [][PsdNext]_pdVars

-----------------------------------------------------------------------------
(* The good pages from one to before another, the pages a reader takes a   *)
(* file from; and what page k of them holds of the file.                   *)
GoodPages(bad, from, to) == {n \in from .. to - 1 : n \div PDPAGES \notin bad}
FileReports(no, data, k) ==
  [i \in 1 .. (IF data - k * PDREPORTS < PDREPORTS THEN data - k * PDREPORTS ELSE PDREPORTS) |-> <<no, k * PDREPORTS + i>>]

ReadsBack(page, bad, from, no, data) ==
  LET good == GoodPages(bad, from, PDBLOCKS * PDPAGES)
  IN  /\ Cardinality(good) * PDREPORTS >= data
      /\ \A n \in good :
           LET k == Cardinality(GoodPages(bad, from, n))
           IN  k * PDREPORTS < data => page[n] = FileReports(no, data, k)

(* A file that psd reports complete is on the flash: who reads the good    *)
(* blocks of the partition from its first block on finds the reports of    *)
(* the host, all of them and in order, even for a command that was carried *)
(* out a second time.  Excepted are direct writes, which report a bad      *)
(* block as success, files that start inside a block, whose first block is *)
(* not checked, and blocks skipped because the server did not answer.      *)
CompleteFileIsOnFlash ==
  /\ pdReply = "complete" /\ pdCmd.type = "file" /\ pdCmd.format # 1
  /\ pdCmd.address % PDPAGES = 0 /\ ~pdGuess
  => ReadsBack(pdPage[pdPart], pdBad[pdPart], pdCmd.address, pdNo, pdCmd.data)
=============================================================================
