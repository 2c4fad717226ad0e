------------------------------ MODULE PshEdit -------------------------------
(***************************************************************************)
(* The edit applet: the text as rows, the cursor, the part of the text     *)
(* that is in view, what the screen shows of it, and the file.             *)
(*                                                                         *)
(* A character is a column wide but for the tab.  The screen is drawn      *)
(* incrementally: rows that were touched, the line after the last row, and *)
(* everything when the view moved or a redraw is asked for.                *)
(***************************************************************************)
EXTENDS Integers, Sequences, FiniteSets, SequencesExt

CONSTANTS
  EDIT_TAB_STOP,  \* columns between tab stops
  EdKeys,         \* the keys that may be pressed
  EdSizes,        \* sizes a terminal may report, [rows, cols]
  EdFiles,        \* what the file may hold: sequences of rows
  EdMaxKeys       \* bound: keys of a session

hbar == 2  \* the lines of the status bar and of the list of keys

(* A terminal has more lines and columns than the bars take, and an event  *)
(* of edit_main that is not a key is not a key.                            *)
ASSUME PshEditAssumption ==
  /\ EDIT_TAB_STOP \in Nat \ {0}
  /\ EdKeys \cap {"none", "redraw", "quit", "fatal"} = {}
  /\ EdSizes # {} /\ \A s \in EdSizes : s \in [rows : Nat, cols : Nat] /\ s.rows > hbar /\ s.cols > hbar
  /\ EdFiles \subseteq Seq(Seq(Nat))

VARIABLES
  ed,        \* edit_common
  edTerm,    \* term_common: the size as it is known
  edScreen,  \* what every line of the screen shows
  edDisk,    \* the file
  edLost,    \* history: a save lost rows and left the text marked clean
  edEv,      \* the event of edit_main
  edSent,    \* term_common.ev: an error sent to the loop
  edCnt,     \* term_common.evCnt
  edBell,    \* the bell was rung for the last event
  edNo,      \* keys pressed
  edPhase    \* "start", "loop" or "exited"

edVars == <<ed, edTerm, edScreen, edDisk, edLost, edEv, edSent, edCnt, edBell, edNo, edPhase>>

Tab == 9
Blank == <<>>
Tilde == <<0>>

(* The lines a screen may have, with rows and columns exchanged or not.    *)
EdLines == UNION {(0 .. s.rows - 1) \cup (0 .. s.cols - 1) : s \in EdSizes}

(* term_setup exchanges rows and columns.  A terminal answers both         *)
(* questions of term_getSize or neither, and then the old size stays.      *)
term_setup(size) == [rows |-> size.cols, cols |-> size.rows]
term_getSize == EdSizes \cup {edTerm}

Fresh(text) == [chars |-> text, updated |-> TRUE]

(* edit_init and edit_open: the file is read, or is new.  A session begins *)
(* with a redraw, which asks for the size again.                           *)
EdInit ==
  /\ edDisk \in EdFiles /\ edPhase = "loop" /\ edLost = FALSE
  /\ ed = [row |-> [i \in DOMAIN edDisk |-> Fresh(edDisk[i])], cx |-> 0, cy |-> 0, vx |-> 0, vy |-> 0, rx |-> 0,
           rows |-> 1, cols |-> 1, dirty |-> FALSE, replace |-> FALSE]
  /\ \E s \in EdSizes : edTerm = term_setup(s)
  /\ edScreen = [y \in EdLines |-> Blank]
  /\ edEv = "redraw" /\ edSent = "none" /\ edCnt = 0 /\ edBell = FALSE /\ edNo = 0

nrows(e) == Len(e.row)
RowLen(e, y) == Len(e.row[y + 1].chars)
Least(a, b) == IF a < b THEN a ELSE b

-----------------------------------------------------------------------------
(* Drawing.                                                                *)

(* The columns of a text: a tab goes on to the next tab stop, and what     *)
(* cannot be printed is a question mark.                                   *)
Glyph(c) == IF c \in 32 .. 126 THEN c ELSE 63
Columns(text) ==
  LET pad(n) == [i \in 1 .. EDIT_TAB_STOP - (n % EDIT_TAB_STOP) |-> 32]
      cells[i \in 0 .. Len(text)] ==
        IF i = 0 THEN <<>> ELSE cells[i - 1] \o IF text[i] = Tab THEN pad(Len(cells[i - 1])) ELSE <<Glyph(text[i])>>
  IN cells[Len(text)]

edit_rowRender(text, vx, cols) == LET cells == Columns(text) IN SubSeq(cells, vx + 1, Least(Len(cells), vx + cols))

(* edit_updateScroll: the cursor's column, and the view that holds it.  A  *)
(* cursor past the end of its row reads what is in memory there, which may *)
(* be a tab or not.                                                        *)
Past(e) == IF e.cy < nrows(e) /\ e.cx > RowLen(e, e.cy) THEN e.cx - RowLen(e, e.cy) ELSE 0
CursorColumns(e) ==
  {IF e.cy < nrows(e) THEN Len(Columns(SubSeq(e.row[e.cy + 1].chars \o junk, 1, e.cx))) ELSE 0 :
     junk \in [1 .. Past(e) -> {Tab, 32}]}

Scrolled(lo, n, at) == IF at < lo THEN at ELSE IF at >= lo + n THEN at - n + 1 ELSE lo
edit_updateScroll(e, term, rx) ==
  LET rows == term.rows - hbar
  IN [e EXCEPT !.rows = rows, !.cols = term.cols, !.rx = rx,
               !.vy = Scrolled(e.vy, rows, e.cy), !.vx = Scrolled(e.vx, term.cols, rx)]

(* edit_drawRows: the rows in view that were touched, and the line after   *)
(* the last row; every line when forced.                                   *)
DrawsLine(e, y, force) ==
  LET ry == y + e.vy IN
  y < e.rows /\ (force \/ ry = nrows(e) \/ (ry < nrows(e) /\ e.row[ry + 1].updated))

LineOf(e, y) == IF y + e.vy < nrows(e) THEN edit_rowRender(e.row[y + e.vy + 1].chars, e.vx, e.cols) ELSE Tilde

(* edit_draw, after the text or the cursor changed to e.                   *)
edit_drawAt(e0, term, forced, rx) ==
  LET e == edit_updateScroll(e0, term, rx)
      force == forced \/ e.vx # e0.vx \/ e.vy # e0.vy
      drawn == {y \in EdLines : DrawsLine(e, y, force)}
  IN /\ edScreen' = [y \in EdLines |-> IF y \in drawn THEN LineOf(e, y) ELSE edScreen[y]]
     /\ ed' = [e EXCEPT !.row = [i \in DOMAIN e.row |->
                  IF \E y \in drawn : y + e.vy + 1 = i THEN [e.row[i] EXCEPT !.updated = FALSE] ELSE e.row[i]]]

edit_draw(e0, term, forced) == \E rx \in CursorColumns(e0) : edit_drawAt(e0, term, forced, rx)

-----------------------------------------------------------------------------
(* The text.  Rows are numbered from 0, as in the code.                    *)

TouchedFrom_one(rows, pos) == [i \in DOMAIN rows |-> IF i = pos + 1 THEN [rows[i] EXCEPT !.updated = TRUE] ELSE rows[i]]
TouchedFrom(rows, pos) == [i \in DOMAIN rows |-> IF i > pos THEN [rows[i] EXCEPT !.updated = TRUE] ELSE rows[i]]

NewRows(e, rows) == [e EXCEPT !.row = rows, !.dirty = TRUE]

edit_rowInsert(e, pos, text) == NewRows(e, TouchedFrom(InsertAt(e.row, pos + 1, Fresh(text)), pos))

edit_rowDelete(e, y) ==
  IF y >= nrows(e) THEN e ELSE NewRows(e, TouchedFrom(RemoveAt(e.row, y + 1), y))

(* A row is another text.                                                  *)
Rewritten(e, y, text) == NewRows(e, [e.row EXCEPT ![y + 1] = Fresh(text)])

edit_rowAppend(e, y, text) == Rewritten(e, y, e.row[y + 1].chars \o text)

(* In replace mode the character under the cursor goes; past the end of    *)
(* the row there is none.                                                  *)
edit_rowInsertChar(e, x, y, ch) ==
  LET text == e.row[y + 1].chars
      rest == SubSeq(text, IF e.replace THEN x + 2 ELSE x + 1, Len(text))
  IN Rewritten(e, y, SubSeq(text, 1, x) \o <<ch>> \o rest)

edit_rowDeleteChar(e, x, y) == Rewritten(e, y, RemoveAt(e.row[y + 1].chars, x + 1))

CursorAt(e, x, y) == [e EXCEPT !.cx = x, !.cy = y]

edit_insertChar(e, ch) ==
  LET e1 == IF e.cy = nrows(e) THEN edit_rowInsert(e, nrows(e), <<>>) ELSE e
  IN CursorAt(edit_rowInsertChar(e1, e.cx, e.cy, ch), e.cx + 1, e.cy)

(* A delete that joins the row with the one before it.                     *)
Joins(e) == e.cx = 0 /\ e.cy > 0 /\ e.cy < nrows(e) /\ ~ (nrows(e) = 1 /\ RowLen(e, 0) = 0)

edit_deleteChar(e) ==
  IF nrows(e) = 1 /\ RowLen(e, 0) = 0 THEN CursorAt(edit_rowDelete(e, 0), 0, 0)
  ELSE IF e.cx = 0 /\ e.cy = 0 THEN e
  ELSE IF e.cx > 0 THEN CursorAt(edit_rowDeleteChar(e, e.cx - 1, e.cy), e.cx - 1, e.cy)
  ELSE LET e1 == IF e.cy < nrows(e) THEN edit_rowAppend(e, e.cy - 1, e.row[e.cy + 1].chars) ELSE e
       IN CursorAt(edit_rowDelete(e1, e.cy), RowLen(e, e.cy - 1), e.cy - 1)

(* The row is cut at the cursor and the rest of it becomes the next row.   *)
edit_insertNewLine(e) ==
  LET text == e.row[e.cy + 1].chars
      e1 == IF e.cx = 0 THEN edit_rowInsert(e, e.cy, <<>>)
            ELSE Rewritten(edit_rowInsert(e, e.cy + 1, SubSeq(text, e.cx + 1, Len(text))), e.cy, SubSeq(text, 1, e.cx))
  IN CursorAt(e1, 0, e.cy + 1)

(* edit_cursorMove: a move in one direction, then the column is clipped.   *)
Clipped(e) == CursorAt(e, IF e.cy < nrows(e) THEN Least(e.cx, RowLen(e, e.cy)) ELSE 0, e.cy)
Moved(e, key) ==
  CASE key = "up"    -> CursorAt(e, e.cx, IF e.cy > 0 THEN e.cy - 1 ELSE 0)
    [] key = "down"  -> CursorAt(e, e.cx, Least(e.cy + 1, nrows(e)))
    [] key = "left"  -> IF e.cx > 0 THEN CursorAt(e, e.cx - 1, e.cy)
                        ELSE IF e.cy > 0 THEN CursorAt(e, RowLen(e, e.cy - 1), e.cy - 1) ELSE e
    [] key = "right" -> IF e.cy >= nrows(e) THEN e
                        ELSE IF e.cx < RowLen(e, e.cy) THEN CursorAt(e, e.cx + 1, e.cy)
                        ELSE CursorAt(e, 0, e.cy + 1)
edit_cursorMove(e, key, count) ==
  LET at[i \in 0 .. count] == IF i = 0 THEN e ELSE Clipped(Moved(at[i - 1], key)) IN at[count]

(* The keys that are not text, and the character any other one stands for: *)
(* the low byte of its code, which for shift and tab is an equals sign.    *)
EdFunctions == {"up", "down", "left", "right", "enter", "^D", "del", "bksp", "ins", "home", "end", "pgup", "pgdn", "^Q", "^X"}
KeyChar(key) == CASE key = "tab" -> Tab [] key = "esc" -> 27 [] key = "shift tab" -> 61 [] OTHER -> 97

(* The keys that edit or move.                                             *)
Pressed(e, key) ==
  CASE key \in {"up", "down", "left", "right"} -> edit_cursorMove(e, key, 1)
    [] key = "enter" -> edit_insertNewLine(e)
    [] key = "^D"    -> LET y == IF nrows(e) > 0 /\ e.cy = nrows(e) THEN e.cy - 1 ELSE e.cy
                        IN CursorAt(edit_rowDelete(e, y), 0, y)
    [] key = "del"   -> edit_deleteChar(edit_cursorMove(e, "right", 1))
    [] key = "bksp"  -> edit_deleteChar(e)
    [] key = "ins"   -> [e EXCEPT !.replace = ~ @]
    [] key = "home"  -> CursorAt(e, 0, e.cy)
    [] key = "end"   -> IF e.cy < nrows(e) THEN CursorAt(e, RowLen(e, e.cy), e.cy) ELSE e
    [] key = "pgup"  -> edit_cursorMove(CursorAt(e, e.cx, e.vy), "up", e.rows)
    [] key = "pgdn"  -> edit_cursorMove(CursorAt(e, e.cx, Least(e.vy + e.rows - 1, nrows(e))), "down", e.rows)
    [] key \in {"^Q", "^X"} -> e
    [] OTHER -> edit_insertChar(e, KeyChar(key))

(* What a key leaves of the text when memory runs out: all of it as it     *)
(* was; the new last row, without its character; or, of two rows that were *)
(* to be joined, both, and the cursor in the second at the end of the      *)
(* first.                                                                  *)
ShortOf(e, key) ==
  LET c == IF key = "del" THEN edit_cursorMove(e, "right", 1) ELSE e IN
  CASE key = "enter" -> {e}
    [] key \in {"del", "bksp"} -> IF Joins(c) THEN {CursorAt(c, RowLen(c, c.cy - 1), c.cy)} ELSE {}
    [] key \notin EdFunctions /\ e.cy = nrows(e) -> {e, edit_rowInsert(e, nrows(e), <<>>)}
    [] key \notin EdFunctions /\ e.cy < nrows(e) -> IF ~ e.replace \/ e.cx = RowLen(e, e.cy) THEN {e} ELSE {}
    [] OTHER -> {}

-----------------------------------------------------------------------------
(* The keys that are a control character, and the ones that come as an     *)
(* escape sequence; what is neither is a dead key.                         *)
term_handleCtrl == {"^C", "^D", "bksp", "tab", "^L", "enter", "^Q", "^S", "^X", "esc", "dead"}
term_handleEscape == {"home", "end", "ins", "del", "pgup", "pgdn", "up", "down", "right", "left", "shift tab", "dead"}

(* term_getEvent: what is left of the last event comes again, three times  *)
(* at most; only then a key is read.                                       *)
LeftOver == edEv # "none" /\ edCnt < 3
EdGetKey ==
  /\ edPhase = "loop" /\ edSent = "none" /\ edEv \notin {"quit"} /\ ~ LeftOver /\ edNo < EdMaxKeys
  /\ edEv' \in EdKeys \cap ({"a"} \cup term_handleCtrl \cup term_handleEscape) /\ edNo' = edNo + 1 /\ edCnt' = 0 /\ edBell' = FALSE /\ edPhase' = "handle"
  /\ UNCHANGED <<ed, edTerm, edScreen, edDisk, edLost, edSent>>

(* An event that comes a second time is dropped with a bell.               *)
EdLeftOver ==
  /\ edPhase = "loop" /\ edSent = "none" /\ edEv # "quit" /\ LeftOver
  /\ edCnt' = edCnt + 1
  /\ edEv' = (IF edCnt >= 1 THEN "none" ELSE edEv) /\ edBell' = (edCnt >= 1) /\ edPhase' = "handle"
  /\ UNCHANGED <<ed, edTerm, edScreen, edDisk, edLost, edSent, edNo>>

(* The loop ends with ^C, with ^Q on a clean text, and on an error.        *)
EdExit ==
  /\ edPhase = "loop" /\ (edEv = "quit" \/ edSent = "fatal")
  /\ edPhase' = "exited" /\ edSent' = "none" /\ edEv' = (IF edSent = "fatal" THEN "fatal" ELSE edEv)
  /\ UNCHANGED <<ed, edTerm, edScreen, edDisk, edLost, edCnt, edBell, edNo>>

(* edit_handleEvent.                                                       *)
Handles(keys) == edPhase = "handle" /\ edEv \in keys /\ edPhase' = "loop"

EdQuits == "^C" = edEv \/ (edEv = "^Q" /\ ~ ed.dirty)
EdQuit ==
  /\ Handles({"^C", "^Q"}) /\ EdQuits /\ edEv' = "quit"
  /\ UNCHANGED <<ed, edTerm, edScreen, edDisk, edLost, edSent, edCnt, edBell, edNo>>

EdAskRedraw ==
  /\ Handles({"^L"}) /\ edEv' = "redraw"
  /\ UNCHANGED <<ed, edTerm, edScreen, edDisk, edLost, edSent, edCnt, edBell, edNo>>

EdRedraw ==
  /\ Handles({"redraw"}) /\ edEv' = "none"
  /\ edTerm' \in term_getSize /\ edit_draw(ed, edTerm', TRUE)
  /\ UNCHANGED <<edDisk, edLost, edSent, edCnt, edBell, edNo>>

EdTyped == EdKeys \ {"^C", "^L", "^S", "dead"}

EdKey ==
  /\ Handles(EdTyped) /\ ~ EdQuits /\ edEv' = "none"
  /\ edit_draw(Pressed(ed, edEv), edTerm, FALSE)
  /\ UNCHANGED <<edTerm, edDisk, edLost, edSent, edCnt, edBell, edNo>>

(* Without memory for the change the editor draws what is there, and ends. *)
EdOutOfMemory ==
  /\ Handles(EdTyped) /\ edEv' = "none" /\ edSent' = "fatal"
  /\ \E e \in ShortOf(ed, edEv) : edit_draw(e, edTerm, FALSE)
  /\ UNCHANGED <<edTerm, edDisk, edLost, edCnt, edBell, edNo>>

(* Other events stay: they come again.                                     *)
EdIgnore ==
  /\ Handles({"dead", "none"})
  /\ UNCHANGED <<ed, edTerm, edScreen, edDisk, edLost, edEv, edSent, edCnt, edBell, edNo>>

SavedRows == [i \in DOMAIN ed.row |-> ed.row[i].chars]
Saved_always(e, whole) == [e EXCEPT !.dirty = FALSE]
Saved(e, whole) == IF whole THEN [e EXCEPT !.dirty = FALSE] ELSE e

(* edit_save: the file is opened, and so emptied; its rows are written one *)
(* by one, and the first that fails ends it and leaves the mark as it was. *)
(* What closing the file says is not looked at: rows still buffered may be *)
(* lost there.                                                             *)
EdSave ==
  /\ Handles({"^S"}) /\ edEv' = "none"
  /\ \/ edDisk' = SavedRows /\ edLost' = FALSE /\ edit_draw(Saved(ed, TRUE), edTerm, FALSE)
     \/ \E n \in 0 .. nrows(ed) - 1 : /\ edDisk' = SubSeq(SavedRows, 1, n) /\ edLost' = ~ ed.dirty
                                      /\ edit_draw(Saved(ed, FALSE), edTerm, FALSE)
     \/ \E n \in 0 .. nrows(ed) - 1 : /\ edDisk' = SubSeq(SavedRows, 1, n) /\ edLost' = TRUE
                                      /\ edit_draw(Saved(ed, TRUE), edTerm, FALSE)
     \/ UNCHANGED <<edDisk, edLost>> /\ edit_draw(ed, edTerm, FALSE)
  /\ UNCHANGED <<edTerm, edSent, edCnt, edBell, edNo>>

EdNext ==
  \/ EdGetKey \/ EdLeftOver \/ EdExit \/ EdQuit \/ EdAskRedraw \/ EdRedraw \/ EdKey \/ EdOutOfMemory
  \/ EdIgnore \/ EdSave

EdSpec == EdInit /\ [][EdNext]_edVars

-----------------------------------------------------------------------------
(* Memory ran out: edit is drawing for the last time, or has ended.       *)
EdFails == edSent = "fatal" \/ edEv = "fatal"

(* Whatever was typed, deleted, joined or scrolled, the screen shows the   *)
(* rows in view, and the cursor stands in the view and in the text: the    *)
(* rows edit_drawRows leaves alone were shown right already.  The one      *)
(* exception is the cursor of an editor that ends for want of memory,      *)
(* which edit_deleteChar may have left past the end of its row.            *)
ScreenShowsText ==
  edEv # "redraw" =>
    /\ \A y \in 0 .. ed.rows - 1 : edScreen[y] = LineOf(ed, y)
    /\ EdFails \/ (ed.cy <= nrows(ed) /\ ed.cx <= IF ed.cy < nrows(ed) THEN RowLen(ed, ed.cy) ELSE 0)
    /\ ed.vy <= ed.cy /\ ed.cy < ed.vy + ed.rows /\ ed.vx <= ed.rx /\ ed.rx < ed.vx + ed.cols

(* ^Q leaves nothing behind: a text that is not marked dirty is what the   *)
(* file holds.  The exceptions are the two edit_save overlooks: closing    *)
(* the file failed, or saving a text that was clean already did.           *)
CleanIsSaved == ~ ed.dirty /\ ~ edLost => edDisk = SavedRows
=============================================================================
