------------------------------- MODULE PshLine -------------------------------
(***************************************************************************)
(* The line editor of the interactive shell: psh_readcmd, the decoder of   *)
(* escape sequences it uses (psh_keyCode) and the copy-on-edit of history  *)
(* entries (psh_histentcmd).                                               *)
(*                                                                         *)
(* The line is cut in two at the cursor: n characters before it, m after.  *)
(* While an entry of the history is browsed (hp # he) the line lives in    *)
(* that entry and cmd still holds what was typed before; the first edit    *)
(* copies the entry over it.  Every key also sends the terminal the change *)
(* it made to the line rather than the line, so the model keeps what the   *)
(* terminal shows: a row of characters after the prompt and the cursor.    *)
(* The row is as long as needed; wrapping at the right margin is left to   *)
(* psh_movecursor, which is not modelled.                                  *)
(***************************************************************************)
EXTENDS Integers, Sequences, SequencesExt, FiniteSets

CONSTANTS
  CMDSZ,      \* characters of a command line
  HISTSZ,     \* slots of the history ring
  Text,       \* characters the user types
  EscBytes,   \* further characters a terminal sends inside a sequence
  Alnum,      \* the characters isalnum() accepts
  Controls,   \* the control keys the user presses
  Completions, \* what a completed path adds: rest of the name, '/' or ' '
  Histories,  \* rings psh_run can pass: records of hb, he and entries
  ESCSZ       \* size of buff[]

SP   == " "
NUL  == "nul"     \* '\0', which strtok leaves after each word
Junk == "junk"    \* a byte malloc returned and nothing has written

Chars == Text \cup EscBytes \cup (UNION {ToSet(s) : s \in Completions}) \cup {SP}
Bytes == Chars \cup {NUL, Junk}

ASSUME LineAssumption ==
  /\ CMDSZ \in Nat \ {0} /\ HISTSZ \in Nat /\ HISTSZ >= 2 /\ ESCSZ \in Nat
  /\ Alnum \cap {SP, NUL, Junk} = {} /\ {NUL, Junk} \cap Chars = {}
  /\ Completions \subseteq Seq(Chars)
  /\ \A h \in Histories :
       /\ h.hb \in 0 .. HISTSZ - 1 /\ h.he \in 0 .. HISTSZ - 1
       /\ \A i \in 0 .. HISTSZ - 1 :
            h.entries[i] \in Seq(Chars \cup {NUL}) /\ Len(h.entries[i]) <= CMDSZ

VARIABLES
  hist,     \* *cmdhist, which psh_readcmd reads and never writes
  ed,       \* cmd, n, m, ln, hp of the code, and scr: what the terminal shows
  esc,      \* buff[0 .. esc - 1]
  clip,     \* pshapp_common.clipboard, clipboardLen characters of it
  newline,  \* pshapp_common.newline
  pc        \* "edit", or how psh_readcmd returned

lineVars == <<hist, ed, esc, clip, newline, pc>>

-----------------------------------------------------------------------------
(* Memory and terminal.                                                    *)
Mem(cmd, from, len) == [i \in 1 .. len |-> cmd[from + i - 1]]

MemPut(cmd, at, s) ==
  [i \in DOMAIN cmd |-> IF at <= i /\ i < at + Len(s) THEN s[i - at + 1] ELSE cmd[i]]

Write(scr, s) ==
  LET end == scr.cur + Len(s)
      len == IF end > Len(scr.text) THEN end ELSE Len(scr.text)
  IN  [text |-> [i \in 1 .. len |-> IF i > scr.cur /\ i <= end THEN s[i - scr.cur]
                                    ELSE IF i <= Len(scr.text) THEN scr.text[i] ELSE SP],
       cur  |-> end]

Clear0(scr) == [scr EXCEPT !.text = SubSeq(@, 1, scr.cur)]

Move(scr, d) == [scr EXCEPT !.cur = @ + d]

Blank == [text |-> <<>>, cur |-> 0]

(* A ring entry as the terminal shows it and as psh_histentcmd copies it.  *)
Entry(i) == LET e == hist.entries[i] IN [j \in 1 .. Len(e) |-> IF e[j] = NUL THEN SP ELSE e[j]]

Prev(i) == IF i # 0 THEN i - 1 ELSE HISTSZ - 1
Succ(i) == (i + 1) % HISTSZ

(* The line the user is looking at.                                        *)
LineOf(e) == IF e.hp # hist.he THEN Entry(e.hp) ELSE Mem(e.cmd, 0, e.n + e.m)

(* The first edit of a browsed entry.                                      *)
histentcmd(e) ==
  IF e.hp = hist.he THEN e
  ELSE [e EXCEPT !.cmd = MemPut(@, 0, Entry(e.hp)), !.hp = hist.he]

-----------------------------------------------------------------------------
(* What each key does to the line, as functions of ed.                     *)
ToStart(e) == [e EXCEPT !.n = 0, !.m = @ + e.n, !.scr = Move(@, -e.n)]
ToEnd(e) == [e EXCEPT !.n = @ + e.m, !.m = 0, !.scr = Move(@, e.m)]
Left(e) == IF e.n = 0 THEN e ELSE [e EXCEPT !.n = @ - 1, !.m = @ + 1, !.scr = Move(@, -1)]
Right(e) == IF e.m = 0 THEN e ELSE [e EXCEPT !.n = @ + 1, !.m = @ - 1, !.scr = Move(@, 1)]

(* s enters the line at the cursor.                                        *)
Insert(e, s) ==
  LET f    == histentcmd(e)
      tail == Mem(f.cmd, f.n, f.m)
  IN  [f EXCEPT !.cmd = MemPut(MemPut(@, f.n + Len(s), tail), f.n, s),
                !.n = @ + Len(s),
                !.scr = Move(Write(@, s \o tail), -f.m)]

(* How much of s still fits.                                               *)
Fitting(e, s) ==
  LET room == CMDSZ - e.n - e.m IN IF Len(s) > room THEN SubSeq(s, 1, room) ELSE s

Delete(e) ==
  IF e.m = 0 THEN e
  ELSE LET f    == histentcmd(e)
           tail == Mem(f.cmd, f.n + 1, f.m - 1)
       IN  [f EXCEPT !.cmd = MemPut(@, f.n, tail), !.m = @ - 1,
                     !.scr = Move(Write(Clear0(@), tail), -(f.m - 1))]

Backspace_noErase(e) ==
  IF e.n = 0 THEN e
  ELSE LET f    == histentcmd(e)
           tail == Mem(f.cmd, f.n, f.m)
       IN  [f EXCEPT !.cmd = MemPut(@, f.n - 1, tail), !.n = @ - 1,
                     !.scr = Move(Write(Move(@, -1), tail), -f.m)]

Backspace(e) ==
  IF e.n = 0 THEN e
  ELSE LET f    == histentcmd(e)
           tail == Mem(f.cmd, f.n, f.m)
       IN  [f EXCEPT !.cmd = MemPut(@, f.n - 1, tail), !.n = @ - 1,
                     !.scr = Move(Write(Move(@, -1), Append(tail, SP)), -(f.m + 1))]

(* psh_skipword: over what is not a word, then over the word.              *)
Leading(s, S) ==
  CHOOSE k \in 0 .. Len(s) : /\ \A i \in 1 .. k : s[i] \in S
                             /\ k < Len(s) => s[k + 1] \notin S

skipword(s, word) ==
  LET gap == Leading(s, Bytes \ word)
  IN  gap + Leading(SubSeq(s, gap + 1, Len(s)), word)

isgraph == Chars \ {SP}

WordBefore(e, word) == skipword(Reverse(Mem(e.cmd, 0, e.n)), word)
WordAfter(e) == skipword(Mem(e.cmd, e.n, e.m), Alnum)

(* The word moves copy the entry although they change nothing in it.       *)
WordLeft(e) ==
  IF e.n = 0 THEN e
  ELSE LET f == histentcmd(e)
           i == WordBefore(f, Alnum)
       IN  [f EXCEPT !.n = @ - i, !.m = @ + i, !.scr = Move(@, -i)]

WordRight(e) ==
  IF e.m = 0 THEN e
  ELSE LET f == histentcmd(e)
           i == WordAfter(f)
       IN  [f EXCEPT !.n = @ + i, !.m = @ - i, !.scr = Move(@, i)]

(* Cut i characters before or after the cursor; the rest closes the gap.   *)
CutBefore(f, i) ==
  LET tail == Mem(f.cmd, f.n, f.m)
  IN  [f EXCEPT !.cmd = MemPut(@, f.n - i, tail), !.n = @ - i,
                !.scr = Move(Clear0(Write(Move(@, -i), tail)), -f.m)]

CutAfter(f, i) ==
  LET tail == Mem(f.cmd, f.n + i, f.m - i)
  IN  [f EXCEPT !.cmd = MemPut(@, f.n, tail), !.m = @ - i,
                !.scr = Move(Clear0(Write(@, tail)), -(f.m - i))]

(* The prompt and s drawn again from the start of the line.                *)
Redraw(scr, n, s) == Write(Clear0(Move(scr, -n)), s)

Up_forgetsDraft(e) ==
  IF e.hp = hist.hb THEN e
  ELSE LET p == Prev(e.hp)
       IN  [e EXCEPT !.ln = e.n + e.m, !.hp = p, !.n = Len(Entry(p)), !.m = 0,
                     !.scr = Redraw(@, e.n, Entry(p))]

Up(e) ==
  IF e.hp = hist.hb THEN e
  ELSE LET p == Prev(e.hp)
       IN  [e EXCEPT !.ln = IF e.hp = hist.he THEN e.n + e.m ELSE @,
                     !.hp = p, !.n = Len(Entry(p)), !.m = 0,
                     !.scr = Redraw(@, e.n, Entry(p))]

Down(e) ==
  IF e.hp = hist.he THEN e
  ELSE LET p == Succ(e.hp)
           s == IF p = hist.he THEN Mem(e.cmd, 0, e.ln) ELSE Entry(p)
       IN  [e EXCEPT !.hp = p, !.n = Len(s), !.m = 0, !.scr = Redraw(@, e.n, s)]

-----------------------------------------------------------------------------
(* psh_keyCode.  A sequence is ESC and a letter, or ESC, '[' or 'O' and    *)
(* one of the strings below; any proper prefix of one waits for more.      *)
escKeys == {<<"f", "altRight">>, <<"b", "altLeft">>, <<"d", "altD">>}

csiKeys == {
  << <<"A">>, "up">>, << <<"B">>, "down">>, << <<"C">>, "right">>, << <<"D">>, "left">>,
  << <<"F">>, "end">>, << <<"H">>, "home">>,
  << <<"1", ";", "5", "C">>, "ctrlRight">>, << <<"1", ";", "5", "D">>, "ctrlLeft">>,
  << <<"1", ";", "5", "A">>, "ctrlUp">>, << <<"1", ";", "5", "B">>, "ctrlDown">>,
  << <<"1", "~">>, "home">>, << <<"3", "~">>, "delete">>, << <<"4", "~">>, "end">>,
  << <<"7", "~">>, "home">>, << <<"8", "~">>, "end">>,
  << <<"1", ";", "3", "C">>, "altRight">>, << <<"1", ";", "3", "D">>, "altLeft">>,
  << <<"1", ";", "3", "A">>, "altUp">>, << <<"1", ";", "3", "B">>, "altDown">> }

(* The key, "again" or "inval", and whether psh_keyCode or its caller drops *)
(* the bytes of the sequence.                                              *)
keyCode(buff) ==
  LET seq   == SubSeq(buff, 4, Len(buff))
      alt   == {k \in escKeys : k[1] = buff[3]}
      csi   == {k \in csiKeys : k[1] = seq}
  IN  IF Len(buff) < 3 THEN [k |-> "again", ends |-> FALSE]
      ELSE IF buff[3] \notin {"[", "O"}
      THEN IF alt # {} THEN [k |-> (CHOOSE k \in alt : TRUE)[2], ends |-> FALSE]
           ELSE [k |-> "inval", ends |-> TRUE]
      ELSE IF Len(buff) < 4 THEN [k |-> "again", ends |-> FALSE]
      ELSE IF csi # {} THEN [k |-> (CHOOSE k \in csi : TRUE)[2], ends |-> TRUE]
      ELSE IF \E k \in csiKeys : IsPrefix(seq, k[1]) THEN [k |-> "again", ends |-> FALSE]
      ELSE [k |-> "inval", ends |-> TRUE]

-----------------------------------------------------------------------------
Fresh == [cmd |-> [i \in 0 .. CMDSZ |-> Junk], n |-> 0, m |-> 0, ln |-> 0,
          hp |-> hist.he, scr |-> Blank]

Init ==
  /\ hist \in Histories
  /\ ed = Fresh
  /\ esc = <<>> /\ clip = <<>>
  /\ newline = FALSE
  /\ pc = "edit"

(* A control key: whatever sequence was being read is cancelled.           *)
Press(c) ==
  /\ pc = "edit" /\ c \in Controls
  /\ esc' = <<>>
  /\ UNCHANGED hist

(* The keys that only change the line: SOH, STX, ENQ, ACK, BS, FF, and EOT *)
(* inside a line.                                                          *)
EditKey(c, f) ==
  /\ Press(c)
  /\ ed' = f
  /\ UNCHANGED <<clip, newline, pc>>

SOH == EditKey("SOH", ToStart(ed))
STX == EditKey("STX", Left(ed))
ENQ == EditKey("ENQ", ToEnd(ed))
ACK == EditKey("ACK", Right(ed))
BS == EditKey("BS", Backspace(ed))
FF == EditKey("FF", [ed EXCEPT !.scr = Move(Write(Blank, LineOf(ed)), -ed.m)])

(* EOT deletes under the cursor; on an empty line it ends the session.     *)
EOT ==
  \/ /\ ed.n + ed.m # 0
     /\ EditKey("EOT", Delete(ed))
  \/ /\ Press("EOT")
     /\ ed.n + ed.m = 0
     /\ pc' = "exit"
     /\ UNCHANGED <<ed, clip, newline>>

(* ETX gives up the line: an empty command is returned.                    *)
ETX ==
  /\ Press("ETX")
  /\ ed' = [ed EXCEPT !.n = 0, !.m = 0, !.cmd[0] = NUL, !.scr = Blank]
  /\ pc' = "line"
  /\ UNCHANGED <<clip, newline>>

(* The line is returned, with its '\0'.                                    *)
Return(e) ==
  /\ ed' = [e EXCEPT !.cmd[e.n + e.m] = NUL]
  /\ pc' = "line"

CR ==
  /\ Press("CR")
  /\ newline' = TRUE
  /\ Return(histentcmd(ed))
  /\ UNCHANGED clip

(* The LF of a CR LF pair ends the (empty) line without a second look.     *)
LF ==
  /\ Press("LF")
  /\ newline' = FALSE
  /\ Return(IF newline THEN ed ELSE histentcmd(ed))
  /\ UNCHANGED clip

(* The keys that cut put what they cut on the clipboard.                   *)
Cut(c, e, from, i, g) ==
  /\ Press(c)
  /\ clip' = Mem(e.cmd, from, i)
  /\ ed' = g
  /\ UNCHANGED <<newline, pc>>

Idle(c) == EditKey(c, ed)

VT ==
  \/ /\ ed.m > 0
     /\ LET e == histentcmd(ed) IN Cut("VT", e, e.n, e.m, CutAfter(e, e.m))
  \/ ed.m = 0 /\ Idle("VT")

NAK ==
  \/ /\ ed.n > 0
     /\ LET e == histentcmd(ed) IN Cut("NAK", e, 0, e.n, CutBefore(e, e.n))
  \/ ed.n = 0 /\ Idle("NAK")

ETB ==
  \/ /\ ed.n > 0
     /\ LET e == histentcmd(ed)
            i == WordBefore(e, isgraph)
        IN  Cut("ETB", e, e.n - i, i, CutBefore(e, i))
  \/ ed.n = 0 /\ Idle("ETB")

(* EM pastes what fits of the clipboard.                                   *)
EM ==
  LET s == Fitting(ed, clip)
  IN  /\ Press("EM")
      /\ ed' = IF s = <<>> THEN ed ELSE Insert(ed, s)
      /\ UNCHANGED <<clip, newline, pc>>

(* TAB completes the word before the cursor: nothing to complete, no match,*)
(* several matches (listed, then the line is drawn again), one match, or a *)
(* failure that ends psh_readcmd.                                          *)
WordHere == ed.n > 0 /\ LineOf(ed)[ed.n] # SP

TABnothing == Idle("TAB")

TABlist ==
  /\ WordHere
  /\ EditKey("TAB", [ed EXCEPT !.scr = Move(Write(Blank, LineOf(ed)), -ed.m)])

TABcomplete(rest) ==
  LET s == Fitting(ed, rest)
  IN  /\ WordHere
      /\ Press("TAB")
      /\ ed' = Insert(ed, s)
      /\ UNCHANGED <<clip, newline, pc>>

TABfails ==
  /\ WordHere
  /\ Press("TAB")
  /\ pc' = "error"
  /\ UNCHANGED <<ed, clip, newline>>

(* ESC opens a sequence; it and the control keys with no meaning also end  *)
(* the wait for the LF of a CR LF pair.                                    *)
ESC_keepsNewline ==
  /\ pc = "edit" /\ "ESC" \in Controls
  /\ esc' = <<"^", "[">>
  /\ UNCHANGED <<hist, ed, clip, newline, pc>>

ESC ==
  /\ pc = "edit" /\ "ESC" \in Controls
  /\ esc' = <<"^", "[">>
  /\ newline' = FALSE
  /\ UNCHANGED <<hist, ed, clip, pc>>

OtherControl ==
  /\ Press("other")
  /\ newline' = FALSE
  /\ UNCHANGED <<ed, clip, pc>>

(* A regular character outside a sequence: inserted, or refused.           *)
Type_noLimit(c) ==
  /\ pc = "edit" /\ esc = <<>>
  /\ ed' = Insert(ed, <<c>>)
  /\ UNCHANGED <<hist, esc, clip, newline, pc>>

Type(c) ==
  /\ pc = "edit" /\ esc = <<>>
  /\ ed' = IF ed.n + ed.m >= CMDSZ THEN ed ELSE Insert(ed, <<c>>)
  /\ UNCHANGED <<hist, esc, clip, newline, pc>>

(* What a decoded key does to the line; the keys not named do nothing.     *)
KeyEdit(k, e) ==
  CASE k = "up"     -> Up(e)
    [] k = "down"   -> Down(e)
    [] k = "right"  -> Right(e)
    [] k = "left"   -> Left(e)
    [] k = "end"    -> ToEnd(e)
    [] k = "home"   -> ToStart(e)
    [] k = "delete" -> Delete(e)
    [] k \in {"ctrlLeft", "altLeft"}   -> WordLeft(e)
    [] k \in {"ctrlRight", "altRight"} -> WordRight(e)
    [] k = "altD" /\ e.m > 0 -> LET f == histentcmd(e) IN CutAfter(f, WordAfter(f))
    [] k = "inval"  -> histentcmd(e)
    [] OTHER        -> e

(* A regular character inside a sequence.  What happens once the sequence  *)
(* has filled buff[] is undefined and not modelled: ESCSZ bounds it.  The  *)
(* bytes after an ESC and a letter are never looked at again.              *)
Kept(buff) ==
  [i \in 1 .. Len(buff) |-> IF i > 3 /\ buff[3] \notin {"[", "O"} THEN Junk ELSE buff[i]]

SeqChar(c) ==
  /\ pc = "edit" /\ esc # <<>> /\ Len(esc) < ESCSZ
  /\ LET buff == Append(esc, c)
         d    == keyCode(buff)
         e    == histentcmd(ed)
     IN  /\ esc' = IF d.ends THEN <<>> ELSE Kept(buff)
         /\ ed' = KeyEdit(d.k, ed)
         /\ clip' = IF d.k = "altD" /\ ed.m > 0 THEN Mem(e.cmd, e.n, WordAfter(e)) ELSE clip
  /\ UNCHANGED <<hist, newline, pc>>

(* psh_run asks for the next line; in between it may have changed the ring *)
(* (module PshHistory).                                                    *)
ReadAgain ==
  /\ pc # "edit"
  /\ hist' \in Histories
  /\ ed' = Fresh'
  /\ esc' = <<>>
  /\ pc' = "edit"
  /\ UNCHANGED <<clip, newline>>

ControlKey == SOH \/ STX \/ ETX \/ EOT \/ ENQ \/ ACK \/ BS \/ VT \/ FF \/ CR \/ LF
              \/ NAK \/ ETB \/ EM \/ ESC \/ OtherControl

Next ==
  \/ ControlKey
  \/ TABnothing \/ TABlist \/ TABfails
  \/ \E rest \in Completions : TABcomplete(rest)
  \/ \E c \in Text : Type(c)
  \/ \E c \in Text \cup EscBytes : SeqChar(c)
  \/ ReadAgain

Spec == Init /\ [][Next]_lineVars

-----------------------------------------------------------------------------
(* No key, and no completion or paste, lets the line outgrow the buffer,   *)
(* and what was cut fits the clipboard: the memmoves of psh_readcmd stay   *)
(* inside their allocations.                                               *)
LineFits == ed.n + ed.m <= CMDSZ /\ ed.ln <= CMDSZ /\ Len(clip) <= CMDSZ

(* After every key the terminal shows the line psh_readcmd holds, followed *)
(* by nothing but blanks, with the cursor on the character the next key    *)
(* acts on, although each key only sends the difference it made.           *)
Shows(s) ==
  /\ Len(ed.scr.text) >= Len(s)
  /\ SubSeq(ed.scr.text, 1, Len(s)) = s
  /\ \A i \in Len(s) + 1 .. Len(ed.scr.text) : ed.scr.text[i] = SP

ScreenShowsLine == pc = "edit" => Shows(LineOf(ed)) /\ ed.scr.cur = ed.n

(* The command psh_readcmd returns is the one the terminal showed when the *)
(* line was ended, also when the line was an entry of the history that was *)
(* never copied, and no byte of it is one malloc left uninitialised.       *)
RunsWhatWasShown ==
  pc = "line" => LET s == Mem(ed.cmd, 0, ed.n + ed.m)
                 IN  Shows(s) /\ Junk \notin ToSet(s) /\ NUL \notin ToSet(s)

(* Looking through the history does not cost the line typed so far: its    *)
(* text and length are what they were until an entry is edited, so Down    *)
(* brings it back.                                                         *)
BrowsingKeepsDraft ==
  [][pc' = "edit" /\ ed'.hp # hist'.he =>
       /\ ed'.cmd = ed.cmd
       /\ ed'.ln = IF ed.hp = hist.he THEN ed.n + ed.m ELSE ed.ln]_lineVars

(* A decoded key ends its sequence: what is still pending is not a key, so *)
(* the next regular character is text again.                               *)
KeyEndsSequence == esc # <<>> => keyCode(esc).k = "again"
=============================================================================
