------------------------------- MODULE PsdRt --------------------------------
(***************************************************************************)
(* psd of the i.MX RT boards: like Psd, with two NOR flashes instead of    *)
(* partitions and no bad blocks.  The flash server buffers what is written *)
(* until it is told to sync; a reboot loses what is in the buffer.         *)
(*                                                                         *)
(* Addresses and sizes are in bytes; a report carries up to PRREPORT of    *)
(* them and the file is written page by page as the reports come.          *)
(***************************************************************************)
EXTENDS Integers, Sequences, FiniteSets

CONSTANTS
  FLASH_CNT,   \* flashes
  PRSIZE,      \* bytes of each
  PRPAGE,      \* psd_common.flashMems[].pageSize
  PRREPORT,    \* bytes of a full data report
  PrCommands,  \* what the host may send
  PrMaxCmds    \* bound: commands of a session

ASSUME PsdRtAssumption ==
  /\ {FLASH_CNT, PRSIZE, PRPAGE, PRREPORT} \subseteq Nat \ {0} /\ FLASH_CNT > 1
  /\ PRREPORT % PRPAGE = 0
  /\ \A c \in PrCommands : /\ c.type \in {"file", "flash", "close", "other"}
                            /\ c.address \in Nat /\ c.data \in Nat

VARIABLES
  prPhase,   \* "boot", "cmd", "register", "file", "sync", "reply", "closed" or "exited"
  prRun,     \* psd_common.run
  prCmd,     \* pcmd
  prNo,      \* commands carried out
  prFlash,   \* psd_common.flashID
  prCell,    \* bytes on the medium of each flash
  prBuffer,  \* bytes in the buffer of its server
  prGot,     \* bytes the host has sent
  prWritten, \* writesz
  prErr,     \* err
  prKept     \* history: the bytes reported complete, by flash and address

prVars == <<prPhase, prRun, prCmd, prNo, prFlash, prCell, prBuffer, prGot, prWritten, prErr, prKept>>

PrFlashes == 0 .. FLASH_CNT - 1
PrCells == 0 .. PRSIZE - 1
Nothing == <<0, 0>>
PrNoCmd == [type |-> "none", address |-> 0, data |-> 0]

(* The properties of every flash are read first; the internal one is set.  *)
PsdRtInit ==
  /\ prPhase = "boot" /\ prRun = TRUE /\ prCmd = PrNoCmd /\ prNo = 0 /\ prFlash = 1
  /\ prCell = [f \in PrFlashes |-> [a \in PrCells |-> Nothing]]
  /\ prBuffer = [f \in PrFlashes |-> <<>>]
  /\ prGot = 0 /\ prWritten = 0 /\ prErr = FALSE /\ prKept = [f \in PrFlashes |-> <<>>]

PsdRtStart ==
  /\ prPhase = "boot"
  /\ prPhase' \in {"cmd", "exited"}
  /\ UNCHANGED <<prRun, prCmd, prNo, prFlash, prCell, prBuffer, prGot, prWritten, prErr, prKept>>

(* As in Psd, a report that is not received repeats the last command.      *)
PrRecv ==
  /\ prPhase = "cmd" /\ prRun
  /\ \E c \in PrCommands \cup {prCmd} :
       /\ c # PrNoCmd /\ prNo < PrMaxCmds + IF c = prCmd THEN 1 ELSE 0
       /\ prCmd' = c /\ prPhase' = c.type
  /\ prNo' = prNo + 1 /\ prGot' = 0 /\ prWritten' = 0 /\ prErr' = FALSE
  /\ UNCHANGED <<prRun, prFlash, prCell, prBuffer, prKept>>

Flushed(cells, pieces) == [a \in DOMAIN cells |-> IF a \in DOMAIN pieces THEN pieces[a] ELSE cells[a]]

(* psd_syncFlash.                                                          *)
Synced(f) ==
  /\ prCell' = [prCell EXCEPT ![f] = Flushed(@, prBuffer[f])]
  /\ prBuffer' = [prBuffer EXCEPT ![f] = <<>>]

(* psd_changeFlash: the flash that is left is synced first.                *)
psd_changeFlash ==
  /\ prPhase = "flash"
  /\ \/ prCmd.data >= FLASH_CNT /\ prErr' = TRUE /\ UNCHANGED <<prFlash, prCell, prBuffer>>
     \/ prCmd.data < FLASH_CNT /\ Synced(prFlash) /\ prFlash' = prCmd.data /\ UNCHANGED prErr
     \/ prCmd.data < FLASH_CNT /\ prErr' = TRUE /\ UNCHANGED <<prFlash, prCell, prBuffer>>
  /\ prPhase' = "reply"
  /\ UNCHANGED <<prRun, prCmd, prNo, prGot, prWritten, prKept>>

PrCloseReg ==
  /\ prPhase = "close"
  /\ prRun' = FALSE /\ prPhase' = "reply"
  /\ UNCHANGED <<prCmd, prNo, prFlash, prCell, prBuffer, prGot, prWritten, prErr, prKept>>

PrUnrecognized ==
  /\ prPhase = "other"
  /\ prErr' = TRUE /\ prPhase' = "reply"
  /\ UNCHANGED <<prRun, prCmd, prNo, prFlash, prCell, prBuffer, prGot, prWritten, prKept>>

(* psd_writeFile: a report is filled up to whole pages with what is in the *)
(* buffer and counts for as many bytes; the flash is synced in any case.   *)
Rounded(n) == ((n + PRPAGE - 1) \div PRPAGE) * PRPAGE

PrReport ==
  /\ prPhase = "file" /\ prWritten < prCmd.data
  /\ LET left == prCmd.data - prGot
         res == IF left < PRREPORT THEN left ELSE PRREPORT
         at == prCmd.address + prWritten
         bytes == [a \in at .. at + Rounded(res) - 1 |-> IF a < at + res THEN <<prNo, prGot + a - at + 1>> ELSE Nothing]
     IN  /\ DOMAIN bytes \subseteq PrCells
         /\ prBuffer' = [prBuffer EXCEPT ![prFlash] = [a \in DOMAIN bytes \cup DOMAIN @ |-> IF a \in DOMAIN bytes THEN bytes[a] ELSE @[a]]]
         /\ prGot' = prGot + res
         /\ prWritten' = prWritten + Rounded(res)
  /\ UNCHANGED <<prPhase, prRun, prCmd, prNo, prFlash, prCell, prErr, prKept>>

(* A report is lost, or the server refuses the pages.                      *)
PrReportFails ==
  /\ prPhase = "file" /\ prWritten < prCmd.data
  /\ prErr' = TRUE /\ prPhase' = "sync"
  /\ UNCHANGED <<prRun, prCmd, prNo, prFlash, prCell, prBuffer, prGot, prWritten, prKept>>

PrFileEnds ==
  /\ prPhase = "file" /\ prWritten >= prCmd.data
  /\ prPhase' = "sync"
  /\ UNCHANGED <<prRun, prCmd, prNo, prFlash, prCell, prBuffer, prGot, prWritten, prErr, prKept>>

PrSync_skipped == UNCHANGED <<prCell, prBuffer>>
PrSync == Synced(prFlash)

PrFileSync ==
  /\ prPhase = "sync"
  /\ \/ PrSync /\ UNCHANGED prErr
     \/ prErr' = TRUE /\ UNCHANGED <<prCell, prBuffer>>
  /\ prPhase' = "reply"
  /\ UNCHANGED <<prRun, prCmd, prNo, prFlash, prGot, prWritten, prKept>>

(* psd_hidResponse.                                                        *)
FileBytes == [a \in prCmd.address .. prCmd.address + prCmd.data - 1 |-> <<prNo, a - prCmd.address + 1>>]
Covered == prCmd.address .. prCmd.address + Rounded(prCmd.data) - 1

PrReply ==
  /\ prPhase = "reply"
  /\ \/ /\ ~prErr
        /\ prPhase' = "cmd"
        /\ prKept' = IF prCmd.type # "file" THEN prKept
                     ELSE [prKept EXCEPT ![prFlash] =
                             [a \in (DOMAIN @ \ Covered) \cup DOMAIN FileBytes |->
                                IF a \in DOMAIN FileBytes THEN FileBytes[a] ELSE @[a]]]
     \/ prPhase' = "exited" /\ UNCHANGED prKept
  /\ UNCHANGED <<prRun, prCmd, prNo, prFlash, prCell, prBuffer, prGot, prWritten, prErr>>

(* The reboot loses what the servers have not written.                     *)
PrReboot ==
  /\ prPhase = "cmd" /\ ~prRun
  /\ prPhase' = "closed"
  /\ prBuffer' = [f \in PrFlashes |-> <<>>]
  /\ UNCHANGED <<prRun, prCmd, prNo, prFlash, prCell, prGot, prWritten, prErr, prKept>>

PsdRtNext ==
  \/ PsdRtStart \/ PrRecv \/ psd_changeFlash \/ PrCloseReg \/ PrUnrecognized
  \/ PrReport \/ PrReportFails \/ PrFileEnds \/ PrFileSync \/ PrReply \/ PrReboot

PsdRtSpec == PsdRtInit /\ [][PsdRtNext]_prVars

-----------------------------------------------------------------------------
(* Between commands, and so after the reboot that a close asks for, every  *)
(* byte of every file reported complete and not overwritten since is on    *)
(* the medium of the flash it was sent to, not in the buffer of the server *)
(* of a flash that was changed away from.                                  *)
CompletedSurvivesReboot ==
  prPhase \in {"cmd", "closed"} =>
    \A f \in PrFlashes : \A a \in DOMAIN prKept[f] : prCell[f][a] = prKept[f][a]
=============================================================================
