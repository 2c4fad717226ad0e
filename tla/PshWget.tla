------------------------------ MODULE PshWget -------------------------------
(***************************************************************************)
(* The wget applet, from its request to the end of the download.  The      *)
(* answer of the server is a stream that comes in pieces of any size; wget *)
(* looks for lines in a buffer of fixed size and writes what follows the   *)
(* empty line to the file.                                                 *)
(*                                                                         *)
(* The stream is a sequence of cells: NL ends a line, a line starts with a *)
(* cell that says what it is, and the cells of the body are its offsets.   *)
(***************************************************************************)
EXTENDS Integers, Sequences, SequencesExt

CONSTANTS
  WGBUFSZ,     \* sizeof(common.buf), in cells
  WGWORD,      \* SIZE_MAX + 1
  WgAnswers    \* what the server may answer, as sequences of cells

VARIABLES
  wgAnswer,  \* what the server answers
  wgPhase,   \* "connect", "status", "headers", "save", "file" or "done"
  wgRead,    \* cells received
  wgBuf,     \* common.buf, up to common.len
  wgPtr,     \* common.readptr, counted from common.buf
  wgLen,     \* the content length, -1 before
  wgLeft,    \* left of wget_file
  wgOut,     \* what was written to the stream of the file; the file, once that is closed
  wgLost,    \* history: the stream held bytes that closing it lost
  wgExit     \* the exit code, 1 for every one but 0, -1 before

wgVars == <<wgAnswer, wgPhase, wgRead, wgBuf, wgPtr, wgLen, wgLeft, wgOut, wgLost, wgExit>>

NL == 0
StatusOk == -1
OtherHeader == -2
ContentLength == -3
LengthX == -4            \* a content length with something behind its number
Number(n) == -10 - n

(* An answer: lines up to the first empty one, which ends at h, and the    *)
(* body.  A length is a number that fits, or nothing if none came before;  *)
(* the whole is shorter than what the length of no length says.            *)
EmptyLine(a, i) == a[i] = NL /\ a[i - 1] = NL
BodyFollows(a, h) ==
  /\ EmptyLine(a, h) /\ \A i \in 2 .. h - 1 : ~ EmptyLine(a, i)
  /\ \A i \in h + 1 .. Len(a) : a[i] = i - h
  /\ \A i \in 1 .. h - 1 : a[i] \in {ContentLength, LengthX} =>
       \/ \E n \in 0 .. WGWORD - 1 : a[i + 1] = Number(n)
       \/ a[i + 1] = NL /\ \A j \in 1 .. i - 1 : a[j] # ContentLength
WgAnswer(a) == a \in Seq(Int) /\ Len(a) < WGWORD - 1 /\ \E h \in 2 .. Len(a) : BodyFollows(a, h)

ASSUME PshWgetAssumption ==
  WGBUFSZ \in Nat \ {0} /\ WGWORD \in Nat \ {0} /\ \A a \in WgAnswers : WgAnswer(a)

WgInit ==
  /\ wgAnswer \in WgAnswers
  /\ wgPhase = "connect" /\ wgRead = 0 /\ wgBuf = <<>> /\ wgPtr = 0 /\ wgLen = -1 /\ wgLeft = 0 /\ wgOut = <<>> /\ wgLost = FALSE
  /\ wgExit = -1

WgExits(code) == wgPhase' = "done" /\ wgExit' = code

(* wget_parseUrl, wget_connect and wget_request; the file is open already, *)
(* and so empty.                                                           *)
WgConnects ==
  /\ wgPhase = "connect"
  /\ \/ wgPhase' = "status" /\ UNCHANGED wgExit
     \/ WgExits(1)
  /\ UNCHANGED <<wgAnswer, wgRead, wgBuf, wgPtr, wgLen, wgLeft, wgOut, wgLost>>

(* read: some of what the server sent, room cells at most.                 *)
Received(room) == {n \in 1 .. room : wgRead + n <= Len(wgAnswer)}
Piece(n) == SubSeq(wgAnswer, wgRead + 1, wgRead + n)
Unread == SubSeq(wgBuf, wgPtr + 1, Len(wgBuf))
LineEnds == {i \in 1 .. Len(Unread) : Unread[i] = NL}
HasLine == LineEnds # {}
LineEnd == Min(LineEnds)

(* wget_response appends until there is a line, wget_buf moves what is not *)
(* consumed to the front first.                                            *)
WgFills ==
  /\ wgPhase \in {"status", "headers"} /\ ~ HasLine
  /\ \E n \in Received(WGBUFSZ - Len(Unread)) : wgBuf' = Unread \o Piece(n) /\ wgRead' = wgRead + n
  /\ wgPtr' = 0
  /\ UNCHANGED <<wgAnswer, wgPhase, wgLen, wgLeft, wgOut, wgLost, wgExit>>

(* The connection fails, or the buffer is full: no status, or headers that *)
(* are not complete, which is a length of SIZE_MAX.                        *)
WgFillFails ==
  /\ wgPhase \in {"status", "headers"} /\ ~ HasLine /\ wgPtr' = 0 /\ wgBuf' = Unread
  /\ IF wgPhase = "status" THEN WgExits(1) /\ UNCHANGED wgLen
     ELSE wgLen' = WGWORD - 1 /\ wgPhase' = "save" /\ UNCHANGED wgExit
  /\ UNCHANGED <<wgAnswer, wgRead, wgLeft, wgOut, wgLost>>

(* The status line: everything but 2xx is an error.                        *)
WgStatus ==
  /\ wgPhase = "status" /\ HasLine
  /\ wgPtr' = wgPtr + LineEnd
  /\ IF Unread[1] = StatusOk THEN wgPhase' = "headers" /\ wgLen' = 0 /\ UNCHANGED wgExit ELSE WgExits(1) /\ UNCHANGED wgLen
  /\ UNCHANGED <<wgAnswer, wgRead, wgBuf, wgLeft, wgOut, wgLost>>

(* wget_parsehdrs: a length is taken when it is found, and one that has    *)
(* something behind it ends the headers there.                             *)
HeadersEnd(line) == line[1] \in {NL, LengthX} \/ (line[1] = ContentLength /\ line[2] = NL)
LengthOf(line) ==
  IF line[1] \notin {ContentLength, LengthX} \/ line[2] = NL THEN wgLen ELSE Number(0) - line[2]

WgHeader ==
  /\ wgPhase = "headers" /\ HasLine
  /\ wgPtr' = wgPtr + LineEnd /\ wgLen' = LengthOf(Unread)
  /\ IF ~ HeadersEnd(Unread) THEN UNCHANGED <<wgPhase, wgExit>>
     ELSE IF wgLen' = 0 THEN WgExits(0) ELSE wgPhase' = "save" /\ UNCHANGED wgExit
  /\ UNCHANGED <<wgAnswer, wgRead, wgBuf, wgLeft, wgOut, wgLost>>

(* wget_file: what is left in the buffer is body already, more of it than  *)
(* there should be makes left wrap around.                                 *)
LeftAfter_all(len, n) == len
LeftAfter(len, n) == (len - n) % WGWORD

WgSaves ==
  /\ wgPhase = "save"
  /\ \/ wgOut' = Unread /\ wgLeft' = LeftAfter(wgLen, Len(Unread)) /\ wgPhase' = "file" /\ UNCHANGED wgExit
     \/ Unread # <<>> /\ WgExits(1) /\ UNCHANGED <<wgOut, wgLeft>>
  /\ UNCHANGED <<wgAnswer, wgRead, wgBuf, wgPtr, wgLen, wgLost>>

WgFile ==
  /\ wgPhase = "file" /\ wgLeft > 0
  /\ \E n \in Received(IF wgLeft < WGBUFSZ THEN wgLeft ELSE WGBUFSZ) :
       /\ wgRead' = wgRead + n /\ wgLeft' = wgLeft - n
       /\ \/ wgOut' = wgOut \o Piece(n) /\ UNCHANGED <<wgPhase, wgExit>>
          \/ WgExits(1) /\ UNCHANGED wgOut
  /\ UNCHANGED <<wgAnswer, wgBuf, wgPtr, wgLen, wgLost>>

WgFileFails ==
  /\ wgPhase = "file" /\ wgLeft > 0 /\ WgExits(1)
  /\ UNCHANGED <<wgAnswer, wgRead, wgBuf, wgPtr, wgLen, wgLeft, wgOut, wgLost>>

(* wget_cleanup closes the stream, which writes what it still holds; that  *)
(* this fails is seen by nobody.                                           *)
WgFileEnds ==
  /\ wgPhase = "file" /\ wgLeft = 0 /\ WgExits(0)
  /\ \E n \in 0 .. Len(wgOut) : wgOut' = SubSeq(wgOut, 1, n) /\ wgLost' = (n < Len(wgOut))
  /\ UNCHANGED <<wgAnswer, wgRead, wgBuf, wgPtr, wgLen, wgLeft>>

WgNext == WgConnects \/ WgFills \/ WgFillFails \/ WgStatus \/ WgHeader \/ WgSaves \/ WgFile \/ WgFileFails \/ WgFileEnds
WgSpec == WgInit /\ [][WgNext]_wgVars

-----------------------------------------------------------------------------
(* A download that succeeds has saved the body, all the cells its length   *)
(* promises and in order, however the answer was cut into pieces, where    *)
(* the buffer ended, and whatever the server sent after it.  If closing    *)
(* the file lost bytes, they are the last ones, and no others are there.   *)
(* A length with something behind it is left out: wget takes the headers   *)
(* that follow for the body.  An answer without a length is saved as       *)
(* nothing.                                                                *)
DownloadIsExact ==
  wgExit = 0 /\ LengthX \notin ToSet(wgAnswer) =>
    /\ Len(wgOut) <= wgLen /\ (Len(wgOut) = wgLen \/ wgLost)
    /\ wgOut = [i \in 1 .. Len(wgOut) |-> i]
=============================================================================
