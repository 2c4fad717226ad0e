--------------------------- MODULE PshLineProofs ----------------------------
(***************************************************************************)
(* Theorems about PshLine, for every size of the line and of the history   *)
(* ring, every text and every completion.                                  *)
(*                                                                         *)
(* Every key turns one state of the editor into another.  The heart of the *)
(* argument is what the keys keep between them: the two halves of the line *)
(* fit, the line is made of characters, and the terminal shows it with the *)
(* cursor where the halves meet.  A key sends the terminal only the change *)
(* it made, so it is correct only if all of that held before it.           *)
(*                                                                         *)
(* And about PshFormat, what psh prints with, for every number, list of    *)
(* completions and terminal; it is compared with what it stands for.       *)
(***************************************************************************)
EXTENDS PshLine, PshFormat, FiniteSetTheorems, SequenceTheorems, NatFacts

Size == 0 .. CMDSZ
Slots == 0 .. HISTSZ - 1

Editors ==
  [cmd : [Size -> Bytes], n : Size, m : Size, ln : Size, hp : Slots,
   scr : [text : Seq(Bytes), cur : Size]]

(* The terminal shows s and blanks behind it.                              *)
Shown(text, s) ==
  /\ Len(s) <= Len(text)
  /\ \A i \in 1 .. Len(s) : text[i] = s[i]
  /\ \A i \in Len(s) + 1 .. Len(text) : text[i] = SP

(* How far slot i is from the line being typed.                            *)
Back(i) == IF i <= hist.he THEN hist.he - i ELSE hist.he - i + HISTSZ

(* What every key keeps.                                                   *)
Good(e) ==
  /\ e \in Editors
  /\ e.n + e.m <= CMDSZ
  /\ LineOf(e) \in Seq(Chars) /\ Len(LineOf(e)) = e.n + e.m
  /\ e.hp # hist.he => Mem(e.cmd, 0, e.ln) \in Seq(Chars)
  /\ Back(e.hp) <= Back(hist.hb)
  /\ e.scr.cur = e.n
  /\ Shown(e.scr.text, LineOf(e))

(* The line typed so far stays where it is while the history is browsed.   *)
Keeps(e, g) ==
  g.hp # hist.he => /\ g.cmd = e.cmd
                    /\ g.ln = IF e.hp = hist.he THEN e.n + e.m ELSE e.ln

LineInv ==
  /\ hist \in Histories
  /\ clip \in Seq(Chars) /\ Len(clip) <= CMDSZ
  /\ newline => esc = <<>>
  /\ pc = "edit" => Good(ed) /\ (newline => ed.hp = hist.he)
  /\ LineFits
  /\ RunsWhatWasShown

-----------------------------------------------------------------------------
(* A blank is a character, and a character is a byte but not one of the    *)
(* two marks.                                                              *)
LEMMA CharFact == SP \in Chars /\ SP \in Bytes /\ Chars \subseteq Bytes /\ {NUL, Junk} \cap Chars = {}
  <1>1. SP \in Chars
    BY DEF Chars
  <1>2. QED
    BY <1>1, LineAssumption DEF Bytes

(* A piece of memory, read as a sequence.                                  *)
LEMMA MemFact ==
  ASSUME NEW cmd, NEW from \in Int, NEW len \in Nat
  PROVE  /\ Len(Mem(cmd, from, len)) = len /\ DOMAIN Mem(cmd, from, len) = 1 .. len
         /\ \A i \in 1 .. len : Mem(cmd, from, len)[i] = cmd[from + i - 1]
         /\ \A S : (\A i \in 1 .. len : cmd[from + i - 1] \in S) => Mem(cmd, from, len) \in Seq(S)
  <1> DEFINE e(i) == cmd[from + i - 1]
  <1>1. Mem(cmd, from, len) = [i \in 1 .. len |-> e(i)]
    BY DEF Mem
  <1> HIDE DEF e
  <1>2. /\ Len([i \in 1 .. len |-> e(i)]) = len
        /\ \A S : (\A i \in 1 .. len : e(i) \in S) => [i \in 1 .. len |-> e(i)] \in Seq(S)
    OBVIOUS
  <1>3. QED
    BY <1>1, <1>2 DEF e

(* ... from the start of the line.                                         *)
LEMMA LineMem ==
  ASSUME NEW cmd, NEW len \in Nat
  PROVE  /\ Len(Mem(cmd, 0, len)) = len
         /\ \A i \in 1 .. len : Mem(cmd, 0, len)[i] = cmd[i - 1]
         /\ \A S : (\A i \in 1 .. len : cmd[i - 1] \in S) => Mem(cmd, 0, len) \in Seq(S)
  <1>1. \A i \in 1 .. len : 0 + i - 1 = i - 1
    OBVIOUS
  <1>2. /\ Len(Mem(cmd, 0, len)) = len
        /\ \A i \in 1 .. len : Mem(cmd, 0, len)[i] = cmd[0 + i - 1]
        /\ \A S : (\A i \in 1 .. len : cmd[0 + i - 1] \in S) => Mem(cmd, 0, len) \in Seq(S)
    <2>1. 0 \in Int
      OBVIOUS
    <2>2. QED
      BY <2>1, MemFact
  <1>3. QED
    BY <1>1, <1>2

(* A sequence written to memory.                                           *)
LEMMA MemPutFact ==
  ASSUME NEW cmd \in [Size -> Bytes], NEW at \in Nat, NEW s \in Seq(Bytes)
  PROVE  /\ MemPut(cmd, at, s) \in [Size -> Bytes]
         /\ \A i \in Size : MemPut(cmd, at, s)[i] = IF at <= i /\ i < at + Len(s) THEN s[i - at + 1] ELSE cmd[i]
  <1>1. Len(s) \in Nat /\ Size \subseteq Int /\ DOMAIN cmd = Size
    BY DEF Size
  <1>2. \A i \in Size : at <= i /\ i < at + Len(s) => s[i - at + 1] \in Bytes
    <2> SUFFICES ASSUME NEW i \in Size, at <= i, i < at + Len(s) PROVE s[i - at + 1] \in Bytes
      OBVIOUS
    <2>1. i - at + 1 \in 1 .. Len(s)
      BY <1>1
    <2>2. QED
      BY <2>1
  <1>3. QED
    BY <1>1, <1>2 DEF MemPut

(* A sequence written to the terminal at the cursor.                       *)
LEMMA WriteFact ==
  ASSUME NEW scr, scr.text \in Seq(Bytes), scr.cur \in 0 .. Len(scr.text), NEW s \in Seq(Bytes)
  PROVE  /\ Write(scr, s).text \in Seq(Bytes) /\ Write(scr, s).cur = scr.cur + Len(s)
         /\ Write(scr, s) = [text |-> Write(scr, s).text, cur |-> scr.cur + Len(s)]
         /\ Len(Write(scr, s).text) = IF scr.cur + Len(s) > Len(scr.text) THEN scr.cur + Len(s) ELSE Len(scr.text)
         /\ \A i \in 1 .. Len(Write(scr, s).text) :
              Write(scr, s).text[i] = IF i > scr.cur /\ i <= scr.cur + Len(s) THEN s[i - scr.cur] ELSE scr.text[i]
  <1> DEFINE t == scr.text
             c == scr.cur
             end == c + Len(s)
             len == IF end > Len(t) THEN end ELSE Len(t)
             e(i) == IF i > c /\ i <= end THEN s[i - c] ELSE IF i <= Len(t) THEN t[i] ELSE SP
             w == [i \in 1 .. len |-> e(i)]
  <1>1. Write(scr, s) = [text |-> w, cur |-> end]
    BY DEF Write
  <1>2. Len(t) \in Nat /\ Len(s) \in Nat /\ c \in 0 .. Len(t) /\ end \in Nat /\ len \in Nat /\ t \in Seq(Bytes)
    <2>1. t \in Seq(Bytes) /\ c \in 0 .. Len(t)
      OBVIOUS
    <2> HIDE DEF t, c
    <2>2. Len(t) \in Nat /\ Len(s) \in Nat
      BY <2>1
    <2>3. end \in Nat
      BY <2>1, <2>2
    <2>4. QED
      BY <2>1, <2>2, <2>3
  <1>3. SP \in Bytes
    BY CharFact
  <1>4. ASSUME NEW i \in 1 .. len
        PROVE  e(i) \in Bytes /\ e(i) = IF i > c /\ i <= end THEN s[i - c] ELSE t[i]
    <2>1. CASE i > c /\ i <= end
      <3>1. i - c \in 1 .. Len(s)
        BY <1>2, <2>1
      <3>2. s[i - c] \in Bytes
        BY <3>1
      <3>3. QED
        BY <2>1, <3>2
    <2>2. CASE ~(i > c /\ i <= end)
      <3>1. i <= Len(t) /\ i \in 1 .. Len(t)
        BY <1>2, <2>2
      <3>2. t[i] \in Bytes
        BY <3>1
      <3>3. QED
        BY <2>2, <3>1, <3>2
    <2>3. QED
      BY <2>1, <2>2
  <1> HIDE DEF e, len, end
  <1>5. w \in Seq(Bytes) /\ Len(w) = len /\ \A i \in 1 .. len : w[i] = e(i)
    BY <1>2, <1>4
  <1> HIDE DEF w
  <1>6. Write(scr, s).text = w /\ Write(scr, s).cur = end
    BY <1>1
  <1>7. \A i \in 1 .. len : w[i] = IF i > c /\ i <= end THEN s[i - c] ELSE t[i]
    BY <1>4, <1>5
  <1>8. QED
    <2>1. /\ Write(scr, s).text \in Seq(Bytes) /\ Write(scr, s).cur = scr.cur + Len(s)
          /\ Write(scr, s) = [text |-> Write(scr, s).text, cur |-> scr.cur + Len(s)]
      BY <1>1, <1>5, <1>6 DEF end
    <2>2. Len(Write(scr, s).text) = len
      BY <1>5, <1>6
    <2>3. \A i \in 1 .. Len(Write(scr, s).text) :
            Write(scr, s).text[i] = IF i > c /\ i <= end THEN s[i - c] ELSE t[i]
      BY <1>6, <1>7, <2>2
    <2>4. QED
      BY <2>1, <2>2, <2>3 DEF end, len

(* Clearing the terminal from the cursor on.                               *)
LEMMA ClearFact ==
  ASSUME NEW t \in Seq(Bytes), NEW c \in 0 .. Len(t)
  PROVE  /\ Clear0([text |-> t, cur |-> c]) = [text |-> SubSeq(t, 1, c), cur |-> c]
         /\ SubSeq(t, 1, c) \in Seq(Bytes) /\ Len(SubSeq(t, 1, c)) = c
         /\ \A i \in 1 .. c : SubSeq(t, 1, c)[i] = t[i]
  <1>1. Clear0([text |-> t, cur |-> c]) = [text |-> SubSeq(t, 1, c), cur |-> c]
    <2> DEFINE x == [text |-> t, cur |-> c]
    <2>1. x.text = t /\ x.cur = c /\ x = [text |-> x.text, cur |-> x.cur]
      OBVIOUS
    <2>2. Clear0(x) = [x EXCEPT !.text = SubSeq(x.text, 1, x.cur)]
      BY DEF Clear0
    <2>3. QED
      BY <2>1, <2>2
  <1>2. QED
    BY <1>1

(* The characters that a skip goes over.                                   *)
LEMMA LeadingFact ==
  ASSUME NEW s \in Seq(Bytes), NEW S
  PROVE  Leading(s, S) \in 0 .. Len(s)
  <1> DEFINE n == Len(s)
             K == {k \in 0 .. n : k < n => s[k + 1] \notin S}
  <1>1. n \in Nat /\ K \subseteq Nat /\ n \in K
    OBVIOUS
  <1>2. Min(K) \in K /\ \A k \in K : Min(K) <= k
    BY <1>1, MinFact
  <1> DEFINE k == Min(K)
  <1> HIDE DEF k
  <1>3. k \in 0 .. n /\ (k < n => s[k + 1] \notin S) /\ \A j \in K : k <= j
    BY <1>2 DEF k
  <1>4. \A i \in 1 .. k : s[i] \in S
    <2> SUFFICES ASSUME NEW i \in 1 .. k, s[i] \notin S PROVE FALSE
      OBVIOUS
    <2>1. i - 1 \in 0 .. n /\ (i - 1) + 1 = i
      BY <1>1, <1>3
    <2>2. i - 1 \in K
      BY <2>1
    <2>3. k <= i - 1
      BY <1>3, <2>2
    <2>4. QED
      BY <1>1, <1>3, <2>3
  <1>5. \E j \in 0 .. Len(s) : /\ \A i \in 1 .. j : s[i] \in S
                               /\ j < Len(s) => s[j + 1] \notin S
    BY <1>3, <1>4
  <1>6. QED
    BY <1>5 DEF Leading

(* psh_skipword stays inside what it is given.                             *)
LEMMA SkipFact ==
  ASSUME NEW s \in Seq(Bytes), NEW word
  PROVE  skipword(s, word) \in 0 .. Len(s)
  <1> DEFINE g == Leading(s, Bytes \ word)
             u == SubSeq(s, g + 1, Len(s))
  <1>1. g \in 0 .. Len(s) /\ Len(s) \in Nat
    BY LeadingFact
  <1> HIDE DEF g
  <1>2. u \in Seq(Bytes) /\ Len(u) = Len(s) - g
    BY <1>1
  <1> HIDE DEF u
  <1>3. Leading(u, word) \in 0 .. Len(u)
    BY <1>2, LeadingFact
  <1>4. g + Leading(u, word) \in 0 .. Len(s)
    BY <1>1, <1>2, <1>3
  <1>5. skipword(s, word) = g + Leading(u, word)
    BY DEF skipword, g, u
  <1>6. QED
    BY <1>4, <1>5

-----------------------------------------------------------------------------
(* An entry of the ring fits the line and is made of characters.           *)
LEMMA EntryFact ==
  ASSUME hist \in Histories, NEW i \in Slots
  PROVE  /\ Entry(i) \in Seq(Chars) /\ Len(Entry(i)) \in Size /\ Len(Entry(i)) \in Nat
         /\ hist.he \in Slots /\ hist.hb \in Slots
  <1> DEFINE s == hist.entries[i]
             c(j) == IF s[j] = NUL THEN SP ELSE s[j]
  <1>1. s \in Seq(Chars \cup {NUL}) /\ Len(s) <= CMDSZ /\ hist.he \in Slots /\ hist.hb \in Slots
    BY LineAssumption DEF Slots
  <1>2. Entry(i) = [j \in 1 .. Len(s) |-> c(j)]
    BY DEF Entry
  <1> HIDE DEF s
  <1>3. Len(s) \in Nat /\ \A j \in 1 .. Len(s) : c(j) \in Chars
    BY <1>1, CharFact
  <1> HIDE DEF c
  <1>4. [j \in 1 .. Len(s) |-> c(j)] \in Seq(Chars) /\ Len([j \in 1 .. Len(s) |-> c(j)]) = Len(s)
    BY <1>3
  <1>5. QED
    BY <1>1, <1>2, <1>3, <1>4, LineAssumption DEF Size

(* The parts of an editor.                                                 *)
LEMMA EditorFact ==
  ASSUME NEW e \in Editors
  PROVE  /\ e.cmd \in [Size -> Bytes] /\ e.n \in Size /\ e.m \in Size /\ e.ln \in Size /\ e.hp \in Slots
         /\ e.n \in Nat /\ e.m \in Nat /\ e.ln \in Nat /\ CMDSZ \in Nat
         /\ e.scr.text \in Seq(Bytes) /\ e.scr.cur \in Size
         /\ e = [cmd |-> e.cmd, n |-> e.n, m |-> e.m, ln |-> e.ln, hp |-> e.hp, scr |-> e.scr]
         /\ e.scr = [text |-> e.scr.text, cur |-> e.scr.cur]
  <1>1. CMDSZ \in Nat
    BY LineAssumption
  <1>2. QED
    BY <1>1 DEF Editors, Size

(* An editor with some of its parts changed, the ways the keys do it.      *)
Moved(e, n, m, r) == [e EXCEPT !.n = n, !.m = m, !.scr = r]
Ahead(e, c, n, r) == [e EXCEPT !.cmd = c, !.n = n, !.scr = r]
Behind(e, c, m, r) == [e EXCEPT !.cmd = c, !.m = m, !.scr = r]
Older(e, l, h, n, m, r) == [e EXCEPT !.ln = l, !.hp = h, !.n = n, !.m = m, !.scr = r]
Newer(e, h, n, m, r) == [e EXCEPT !.hp = h, !.n = n, !.m = m, !.scr = r]
Redrawn(e, r) == [e EXCEPT !.scr = r]

(* ... and what it is.                                                     *)
LEMMA ChangeFact ==
  ASSUME NEW e \in Editors
  PROVE  /\ \A n, m, r : Moved(e, n, m, r) = [cmd |-> e.cmd, n |-> n, m |-> m, ln |-> e.ln, hp |-> e.hp, scr |-> r]
         /\ \A c, n, r : Ahead(e, c, n, r) = [cmd |-> c, n |-> n, m |-> e.m, ln |-> e.ln, hp |-> e.hp, scr |-> r]
         /\ \A c, m, r : Behind(e, c, m, r) = [cmd |-> c, n |-> e.n, m |-> m, ln |-> e.ln, hp |-> e.hp, scr |-> r]
         /\ \A l, h, n, m, r : Older(e, l, h, n, m, r) = [cmd |-> e.cmd, n |-> n, m |-> m, ln |-> l, hp |-> h, scr |-> r]
         /\ \A h, n, m, r : Newer(e, h, n, m, r) = [cmd |-> e.cmd, n |-> n, m |-> m, ln |-> e.ln, hp |-> h, scr |-> r]
         /\ \A r : Redrawn(e, r) = [cmd |-> e.cmd, n |-> e.n, m |-> e.m, ln |-> e.ln, hp |-> e.hp, scr |-> r]
  <1> DEFINE Screens == [text : Seq(Bytes), cur : Size]
  <1>0. e \in [cmd : [Size -> Bytes], n : Size, m : Size, ln : Size, hp : Slots, scr : Screens]
    BY DEF Editors
  <1> HIDE DEF Screens
  <1>1. ASSUME NEW n, NEW m, NEW r
        PROVE  Moved(e, n, m, r) = [cmd |-> e.cmd, n |-> n, m |-> m, ln |-> e.ln, hp |-> e.hp, scr |-> r]
    <2> DEFINE g == [e EXCEPT !.n = n, !.m = m, !.scr = r]
    <2>1. g.cmd = e.cmd /\ g.n = n /\ g.m = m /\ g.ln = e.ln /\ g.hp = e.hp /\ g.scr = r
      BY <1>0
    <2>2. g \in [cmd : [Size -> Bytes], n : Size \cup {n}, m : Size \cup {m}, ln : Size, hp : Slots, scr : Screens \cup {r}]
      BY <1>0
    <2> HIDE DEF g
    <2>3. g = [cmd |-> g.cmd, n |-> g.n, m |-> g.m, ln |-> g.ln, hp |-> g.hp, scr |-> g.scr]
      BY <2>2
    <2>4. QED
      BY <2>1, <2>3 DEF g, Moved
  <1>2. ASSUME NEW c, NEW n, NEW r
        PROVE  Ahead(e, c, n, r) = [cmd |-> c, n |-> n, m |-> e.m, ln |-> e.ln, hp |-> e.hp, scr |-> r]
    <2> DEFINE g == [e EXCEPT !.cmd = c, !.n = n, !.scr = r]
    <2>1. g.cmd = c /\ g.n = n /\ g.m = e.m /\ g.ln = e.ln /\ g.hp = e.hp /\ g.scr = r
      BY <1>0
    <2>2. g \in [cmd : [Size -> Bytes] \cup {c}, n : Size \cup {n}, m : Size, ln : Size, hp : Slots, scr : Screens \cup {r}]
      BY <1>0
    <2> HIDE DEF g
    <2>3. g = [cmd |-> g.cmd, n |-> g.n, m |-> g.m, ln |-> g.ln, hp |-> g.hp, scr |-> g.scr]
      BY <2>2
    <2>4. QED
      BY <2>1, <2>3 DEF g, Ahead
  <1>3. ASSUME NEW c, NEW m, NEW r
        PROVE  Behind(e, c, m, r) = [cmd |-> c, n |-> e.n, m |-> m, ln |-> e.ln, hp |-> e.hp, scr |-> r]
    <2> DEFINE g == [e EXCEPT !.cmd = c, !.m = m, !.scr = r]
    <2>1. g.cmd = c /\ g.n = e.n /\ g.m = m /\ g.ln = e.ln /\ g.hp = e.hp /\ g.scr = r
      BY <1>0
    <2>2. g \in [cmd : [Size -> Bytes] \cup {c}, n : Size, m : Size \cup {m}, ln : Size, hp : Slots, scr : Screens \cup {r}]
      BY <1>0
    <2> HIDE DEF g
    <2>3. g = [cmd |-> g.cmd, n |-> g.n, m |-> g.m, ln |-> g.ln, hp |-> g.hp, scr |-> g.scr]
      BY <2>2
    <2>4. QED
      BY <2>1, <2>3 DEF g, Behind
  <1>4. ASSUME NEW l, NEW h, NEW n, NEW m, NEW r
        PROVE  Older(e, l, h, n, m, r) = [cmd |-> e.cmd, n |-> n, m |-> m, ln |-> l, hp |-> h, scr |-> r]
    <2> DEFINE g == [e EXCEPT !.ln = l, !.hp = h, !.n = n, !.m = m, !.scr = r]
    <2>1. g.cmd = e.cmd /\ g.n = n /\ g.m = m /\ g.ln = l /\ g.hp = h /\ g.scr = r
      BY <1>0
    <2>2. g \in [cmd : [Size -> Bytes], n : Size \cup {n}, m : Size \cup {m}, ln : Size \cup {l}, hp : Slots \cup {h}, scr : Screens \cup {r}]
      BY <1>0
    <2> HIDE DEF g
    <2>3. g = [cmd |-> g.cmd, n |-> g.n, m |-> g.m, ln |-> g.ln, hp |-> g.hp, scr |-> g.scr]
      BY <2>2
    <2>4. QED
      BY <2>1, <2>3 DEF g, Older
  <1>5. ASSUME NEW h, NEW n, NEW m, NEW r
        PROVE  Newer(e, h, n, m, r) = [cmd |-> e.cmd, n |-> n, m |-> m, ln |-> e.ln, hp |-> h, scr |-> r]
    <2> DEFINE g == [e EXCEPT !.hp = h, !.n = n, !.m = m, !.scr = r]
    <2>1. g.cmd = e.cmd /\ g.n = n /\ g.m = m /\ g.ln = e.ln /\ g.hp = h /\ g.scr = r
      BY <1>0
    <2>2. g \in [cmd : [Size -> Bytes], n : Size \cup {n}, m : Size \cup {m}, ln : Size, hp : Slots \cup {h}, scr : Screens \cup {r}]
      BY <1>0
    <2> HIDE DEF g
    <2>3. g = [cmd |-> g.cmd, n |-> g.n, m |-> g.m, ln |-> g.ln, hp |-> g.hp, scr |-> g.scr]
      BY <2>2
    <2>4. QED
      BY <2>1, <2>3 DEF g, Newer
  <1>6. ASSUME NEW r
        PROVE  Redrawn(e, r) = [cmd |-> e.cmd, n |-> e.n, m |-> e.m, ln |-> e.ln, hp |-> e.hp, scr |-> r]
    <2> DEFINE g == [e EXCEPT !.scr = r]
    <2>1. g.cmd = e.cmd /\ g.n = e.n /\ g.m = e.m /\ g.ln = e.ln /\ g.hp = e.hp /\ g.scr = r
      BY <1>0
    <2>2. g \in [cmd : [Size -> Bytes], n : Size, m : Size, ln : Size, hp : Slots, scr : Screens \cup {r}]
      BY <1>0
    <2> HIDE DEF g
    <2>3. g = [cmd |-> g.cmd, n |-> g.n, m |-> g.m, ln |-> g.ln, hp |-> g.hp, scr |-> g.scr]
      BY <2>2
    <2>4. QED
      BY <2>1, <2>3 DEF g, Redrawn
  <1>7. QED
    BY <1>1, <1>2, <1>3, <1>4, <1>5, <1>6

(* When the line typed is the one shown, the terminal shows the memory.    *)
LEMMA HereFact ==
  ASSUME NEW f, Good(f), f.hp = hist.he
  PROVE  /\ f.n + f.m <= Len(f.scr.text) /\ Len(f.scr.text) \in Nat /\ f.scr.cur = f.n
         /\ \A i \in 1 .. f.n + f.m : f.cmd[i - 1] \in Chars /\ f.scr.text[i] = f.cmd[i - 1]
         /\ \A i \in f.n + f.m + 1 .. Len(f.scr.text) : f.scr.text[i] = SP
  <1> DEFINE s == Mem(f.cmd, 0, f.n + f.m)
             k == f.n + f.m
             t == f.scr.text
  <1>1. LineOf(f) = s /\ f \in Editors
    BY DEF Good, LineOf
  <1>2. f.n \in Nat /\ f.m \in Nat /\ k \in Nat /\ Len(t) \in Nat
    <2>1. f.n \in Nat /\ f.m \in Nat /\ t \in Seq(Bytes)
      BY <1>1, EditorFact
    <2> HIDE DEF t
    <2>2. QED
      BY <2>1
  <1>3. Len(s) = k /\ \A i \in 1 .. k : s[i] = f.cmd[i - 1]
    BY <1>2, LineMem
  <1>4. s \in Seq(Chars) /\ Shown(t, s) /\ f.scr.cur = f.n
    BY <1>1 DEF Good
  <1> HIDE DEF s, t, k
  <1>5. \A i \in 1 .. k : s[i] = f.cmd[i - 1] /\ s[i] \in Chars
    BY <1>3, <1>4
  <1>6. k <= Len(t) /\ (\A i \in 1 .. k : t[i] = s[i]) /\ \A i \in k + 1 .. Len(t) : t[i] = SP
    BY <1>3, <1>4 DEF Shown
  <1>7. QED
    BY <1>2, <1>4, <1>5, <1>6 DEF k, t

(* ... and that is all it takes.                                           *)
LEMMA MakeGood ==
  ASSUME hist \in Histories, NEW c \in [Size -> Bytes], NEW n \in Nat, NEW m \in Nat, n + m <= CMDSZ,
         NEW l \in Size, NEW t \in Seq(Bytes), n + m <= Len(t),
         \A i \in 1 .. n + m : c[i - 1] \in Chars /\ t[i] = c[i - 1],
         \A i \in n + m + 1 .. Len(t) : t[i] = SP,
         NEW g, g = [cmd |-> c, n |-> n, m |-> m, ln |-> l, hp |-> hist.he, scr |-> [text |-> t, cur |-> n]]
  PROVE  Good(g)
  <1> DEFINE s == Mem(c, 0, n + m)
  <1>1. /\ g.cmd = c /\ g.n = n /\ g.m = m /\ g.ln = l /\ g.hp = hist.he
        /\ g.scr = [text |-> t, cur |-> n] /\ g.scr.text = t /\ g.scr.cur = n
    OBVIOUS
  <1>2. hist.he \in 0 .. HISTSZ - 1 /\ hist.hb \in 0 .. HISTSZ - 1 /\ HISTSZ \in Nat /\ CMDSZ \in Nat
    BY LineAssumption
  <1>3. n \in Size /\ m \in Size
    BY <1>2 DEF Size
  <1>4. g \in Editors
    BY <1>2, <1>3 DEF Editors, Slots
  <1>5. Len(s) = n + m /\ \A i \in 1 .. n + m : s[i] = c[i - 1]
    <2>1. n + m \in Nat
      OBVIOUS
    <2>2. QED
      BY <2>1, LineMem
  <1>6. s \in Seq(Chars)
    <2>1. n + m \in Nat
      OBVIOUS
    <2>2. \A i \in 1 .. n + m : c[i - 1] \in Chars
      BY Zenon
    <2>3. QED
      BY <2>1, <2>2, LineMem
  <1>7. LineOf(g) = s
    BY <1>1 DEF LineOf
  <1> HIDE DEF s
  <1>8. Shown(t, s)
    BY <1>5 DEF Shown
  <1>9. Back(hist.he) <= Back(hist.hb)
    BY <1>2 DEF Back
  <1>10. QED
    BY <1>1, <1>4, <1>5, <1>6, <1>7, <1>8, <1>9 DEF Good

(* psh_histentcmd: the entry becomes the line typed, with nothing for the  *)
(* user to see.                                                            *)
LEMMA HistFact ==
  ASSUME hist \in Histories, NEW e, Good(e)
  PROVE  /\ Good(histentcmd(e)) /\ histentcmd(e).hp = hist.he
         /\ histentcmd(e).n = e.n /\ histentcmd(e).m = e.m
         /\ histentcmd(e).ln = e.ln /\ histentcmd(e).scr = e.scr
  <1>1. CASE e.hp = hist.he
    BY <1>1 DEF histentcmd
  <1>2. CASE e.hp # hist.he
    <2> DEFINE s == Entry(e.hp)
               c == MemPut(e.cmd, 0, s)
               f == histentcmd(e)
    <2>1. /\ e \in Editors /\ e.n + e.m <= CMDSZ /\ e.scr.cur = e.n
          /\ LineOf(e) = s /\ Len(s) = e.n + e.m /\ Shown(e.scr.text, s)
      BY <1>2 DEF Good, LineOf
    <2>2. /\ e.cmd \in [Size -> Bytes] /\ e.n \in Nat /\ e.m \in Nat /\ e.ln \in Size /\ e.hp \in Slots
          /\ e.scr.text \in Seq(Bytes) /\ CMDSZ \in Nat
          /\ e = [cmd |-> e.cmd, n |-> e.n, m |-> e.m, ln |-> e.ln, hp |-> e.hp, scr |-> e.scr]
          /\ e.scr = [text |-> e.scr.text, cur |-> e.scr.cur]
      BY <2>1, EditorFact
    <2>3. s \in Seq(Chars)
      BY <2>2, EntryFact
    <2> HIDE DEF s
    <2>4. s \in Seq(Bytes)
      BY <2>3, CharFact
    <2>5. /\ c \in [Size -> Bytes]
          /\ \A i \in Size : c[i] = IF 0 <= i /\ i < 0 + Len(s) THEN s[i - 0 + 1] ELSE e.cmd[i]
      <3>1. e.cmd \in [Size -> Bytes] /\ 0 \in Nat
        BY <2>2
      <3>2. QED
        BY <2>4, <3>1, MemPutFact
    <2>6. f = [cmd |-> c, n |-> e.n, m |-> e.m, ln |-> e.ln, hp |-> hist.he, scr |-> e.scr]
      BY <1>2, <2>2 DEF histentcmd, s
    <2> HIDE DEF c, f
    <2>7. ASSUME NEW i \in 1 .. e.n + e.m PROVE c[i - 1] \in Chars /\ e.scr.text[i] = c[i - 1]
      <3>1. i - 1 \in Size /\ 0 <= i - 1 /\ i - 1 < 0 + Len(s) /\ i - 1 - 0 + 1 = i /\ i \in 1 .. Len(s)
        BY <2>1, <2>2 DEF Size
      <3>2. c[i - 1] = s[i]
        BY <2>5, <3>1
      <3>3. s[i] \in Chars /\ e.scr.text[i] = s[i]
        BY <2>1, <2>3, <3>1 DEF Shown
      <3>4. QED
        BY <3>2, <3>3
    <2>8. e.n + e.m <= Len(e.scr.text) /\ \A i \in e.n + e.m + 1 .. Len(e.scr.text) : e.scr.text[i] = SP
      BY <2>1 DEF Shown
    <2>9. e.scr = [text |-> e.scr.text, cur |-> e.n]
      BY <2>1, <2>2
    <2>10. Good(f)
      BY <2>1, <2>2, <2>5, <2>6, <2>7, <2>8, <2>9, MakeGood
    <2>11. QED
      BY <2>6, <2>10 DEF f
  <1>3. QED
    BY <1>1, <1>2

-----------------------------------------------------------------------------
(* A key that only moves the cursor.                                       *)
LEMMA CursorFact ==
  ASSUME NEW e, Good(e), NEW n \in Nat, NEW m \in Nat, n + m = e.n + e.m,
         NEW g, g = [cmd |-> e.cmd, n |-> n, m |-> m, ln |-> e.ln, hp |-> e.hp,
                     scr |-> [text |-> e.scr.text, cur |-> n]]
  PROVE  Good(g) /\ Keeps(e, g)
  <1>1. e \in Editors /\ e.n + e.m <= CMDSZ
    BY DEF Good
  <1>2. /\ e.cmd \in [Size -> Bytes] /\ e.ln \in Size /\ e.hp \in Slots
        /\ e.scr.text \in Seq(Bytes) /\ e.n \in Nat /\ e.m \in Nat /\ CMDSZ \in Nat
    BY <1>1, EditorFact
  <1>3. n \in Size /\ m \in Size
    BY <1>1, <1>2 DEF Size
  <1>4. /\ g.cmd = e.cmd /\ g.n = n /\ g.m = m /\ g.ln = e.ln /\ g.hp = e.hp
        /\ g.scr = [text |-> e.scr.text, cur |-> n] /\ g.scr.text = e.scr.text /\ g.scr.cur = n
    OBVIOUS
  <1>5. g \in Editors
    BY <1>2, <1>3 DEF Editors
  <1>6. LineOf(g) = LineOf(e)
    BY <1>4 DEF LineOf
  <1>7. g.n + g.m = e.n + e.m
    BY <1>4
  <1>8. Good(g)
    BY <1>1, <1>4, <1>5, <1>6, <1>7 DEF Good
  <1>9. QED
    BY <1>4, <1>8 DEF Keeps

(* A piece of the line.                                                    *)
LEMMA PieceFact ==
  ASSUME NEW f, Good(f), f.hp = hist.he, NEW from \in Nat, NEW len \in Nat, from + len <= f.n + f.m
  PROVE  /\ Mem(f.cmd, from, len) \in Seq(Chars) /\ Len(Mem(f.cmd, from, len)) = len
         /\ \A i \in 1 .. len : Mem(f.cmd, from, len)[i] = f.cmd[from + i - 1]
         /\ Mem(f.cmd, from, len) \in Seq(Bytes)
  <1>1. f \in Editors
    BY DEF Good
  <1>2. f.n \in Nat /\ f.m \in Nat /\ from \in Int
    <2>1. from \in Int
      OBVIOUS
    <2>2. QED
      BY <1>1, <2>1, EditorFact
  <1>3. \A i \in 1 .. f.n + f.m : f.cmd[i - 1] \in Chars
    BY HereFact
  <1>4. ASSUME NEW i \in 1 .. len PROVE f.cmd[from + i - 1] \in Chars
    <2>1. from + i \in 1 .. f.n + f.m
      BY <1>2
    <2>2. f.cmd[(from + i) - 1] \in Chars
      BY <1>3, <2>1
    <2>3. QED
      BY <2>2
  <1>5. Mem(f.cmd, from, len) \in Seq(Chars)
    BY ONLY <1>2, <1>4, len \in Nat, MemFact
  <1>6. Mem(f.cmd, from, len) \in Seq(Bytes)
    <2>1. \A i \in 1 .. len : f.cmd[from + i - 1] \in Bytes
      BY <1>4, CharFact
    <2>2. QED
      BY <1>2, <2>1, MemFact
  <1>7. QED
    BY <1>2, <1>5, <1>6, MemFact

(* The cursor keys.                                                        *)
LEMMA CursorKeys ==
  ASSUME NEW e, Good(e)
  PROVE  /\ Good(ToStart(e)) /\ Keeps(e, ToStart(e)) /\ Good(ToEnd(e)) /\ Keeps(e, ToEnd(e))
         /\ Good(Left(e)) /\ Keeps(e, Left(e)) /\ Good(Right(e)) /\ Keeps(e, Right(e))
  <1>1. e \in Editors /\ e.scr.cur = e.n
    BY DEF Good
  <1>2. /\ e.n \in Nat /\ e.m \in Nat
        /\ e = [cmd |-> e.cmd, n |-> e.n, m |-> e.m, ln |-> e.ln, hp |-> e.hp, scr |-> e.scr]
        /\ e.scr = [text |-> e.scr.text, cur |-> e.scr.cur]
    BY <1>1, EditorFact
  <1>3. ASSUME NEW d \in Int
        PROVE  Move(e.scr, d) = [text |-> e.scr.text, cur |-> e.n + d]
    BY <1>1, <1>2 DEF Move
  <1>10. Good(e) /\ Keeps(e, e)
    BY DEF Keeps
  <1> DEFINE To(n, m) == [cmd |-> e.cmd, n |-> n, m |-> m, ln |-> e.ln, hp |-> e.hp,
                          scr |-> [text |-> e.scr.text, cur |-> n]]
  <1>4. ASSUME NEW n \in Nat, NEW m \in Nat, n + m = e.n + e.m PROVE Good(To(n, m)) /\ Keeps(e, To(n, m))
    BY <1>4, CursorFact
  <1>5. Good(ToStart(e)) /\ Keeps(e, ToStart(e))
    <2>1. Move(e.scr, -e.n) = [text |-> e.scr.text, cur |-> 0]
      BY <1>2, <1>3
    <2>2. ToStart(e) = To(0, e.m + e.n)
      <3>1. ToStart(e) = Moved(e, 0, e.m + e.n, Move(e.scr, -e.n))
        BY DEF ToStart, Moved
      <3>2. QED
        BY <1>1, <2>1, <3>1, ChangeFact
    <2>3. 0 \in Nat /\ e.m + e.n \in Nat /\ 0 + (e.m + e.n) = e.n + e.m
      BY <1>2
    <2> HIDE DEF To
    <2>4. QED
      BY <1>4, <2>2, <2>3
  <1>6. Good(ToEnd(e)) /\ Keeps(e, ToEnd(e))
    <2>1. Move(e.scr, e.m) = [text |-> e.scr.text, cur |-> e.n + e.m]
      BY <1>2, <1>3
    <2>2. ToEnd(e) = To(e.n + e.m, 0)
      <3>1. ToEnd(e) = Moved(e, e.n + e.m, 0, Move(e.scr, e.m))
        BY DEF ToEnd, Moved
      <3>2. QED
        BY <1>1, <2>1, <3>1, ChangeFact
    <2>3. 0 \in Nat /\ e.n + e.m \in Nat /\ (e.n + e.m) + 0 = e.n + e.m
      BY <1>2
    <2> HIDE DEF To
    <2>4. QED
      BY <1>4, <2>2, <2>3
  <1>7. Good(Left(e)) /\ Keeps(e, Left(e))
    <2>1. CASE e.n = 0
      BY <1>10, <2>1 DEF Left
    <2>2. CASE e.n # 0
      <3>1. Move(e.scr, -1) = [text |-> e.scr.text, cur |-> e.n - 1]
        BY <1>2, <1>3
      <3>2. Left(e) = To(e.n - 1, e.m + 1)
        BY <1>2, <2>2, <3>1 DEF Left
      <3>3. e.n - 1 \in Nat /\ e.m + 1 \in Nat /\ (e.n - 1) + (e.m + 1) = e.n + e.m
        BY <1>2, <2>2
      <3> HIDE DEF To
      <3>4. QED
        BY <1>4, <3>2, <3>3
    <2>3. QED
      BY <2>1, <2>2
  <1>8. Good(Right(e)) /\ Keeps(e, Right(e))
    <2>1. CASE e.m = 0
      BY <1>10, <2>1 DEF Right
    <2>2. CASE e.m # 0
      <3>1. Move(e.scr, 1) = [text |-> e.scr.text, cur |-> e.n + 1]
        BY <1>2, <1>3
      <3>2. Right(e) = To(e.n + 1, e.m - 1)
        BY <1>2, <2>2, <3>1 DEF Right
      <3>3. e.n + 1 \in Nat /\ e.m - 1 \in Nat /\ (e.n + 1) + (e.m - 1) = e.n + e.m
        BY <1>2, <2>2
      <3> HIDE DEF To
      <3>4. QED
        BY <1>4, <3>2, <3>3
    <2>3. QED
      BY <2>1, <2>2
  <1>9. QED
    BY <1>5, <1>6, <1>7, <1>8

(* The keys that go over a word.                                           *)
LEMMA WordFact ==
  ASSUME NEW f, Good(f), f.hp = hist.he
  PROVE  /\ WordAfter(f) \in 0 .. f.m
         /\ \A word : WordBefore(f, word) \in 0 .. f.n
  <1>1. f \in Editors
    BY DEF Good
  <1>2. f.n \in Nat /\ f.m \in Nat /\ 0 \in Nat
    BY <1>1, EditorFact
  <1>3. /\ Mem(f.cmd, f.n, f.m) \in Seq(Bytes) /\ Len(Mem(f.cmd, f.n, f.m)) = f.m
    BY <1>2, PieceFact
  <1>4. /\ Mem(f.cmd, 0, f.n) \in Seq(Bytes) /\ Len(Mem(f.cmd, 0, f.n)) = f.n
    <2>1. 0 + f.n <= f.n + f.m
      BY <1>2
    <2>2. QED
      BY <1>2, <2>1, PieceFact
  <1>5. WordAfter(f) \in 0 .. f.m
    BY <1>3, SkipFact DEF WordAfter
  <1>6. ASSUME NEW word PROVE WordBefore(f, word) \in 0 .. f.n
    <2> DEFINE s == Mem(f.cmd, 0, f.n)
               n == f.n
               b(i) == s[(n - i) + 1]
    <2>1. Reverse(s) = [i \in 1 .. n |-> b(i)]
      BY <1>4 DEF Reverse
    <2> HIDE DEF s
    <2>2. \A i \in 1 .. n : b(i) \in Bytes
      BY <1>2, <1>4 DEF s
    <2> HIDE DEF b
    <2>3. [i \in 1 .. n |-> b(i)] \in Seq(Bytes) /\ Len([i \in 1 .. n |-> b(i)]) = n
      BY <1>2, <2>2
    <2>4. Reverse(s) \in Seq(Bytes) /\ Len(Reverse(s)) = n
      BY <2>1, <2>3
    <2>5. skipword(Reverse(s), word) \in 0 .. n
      BY <2>4, SkipFact
    <2>6. QED
      BY <2>5 DEF WordBefore, s
  <1>7. QED
    BY <1>5, <1>6

(* The keys that move by a word copy the entry, then move the cursor.      *)
LEMMA WordKeys ==
  ASSUME hist \in Histories, NEW e, Good(e)
  PROVE  Good(WordLeft(e)) /\ Keeps(e, WordLeft(e)) /\ Good(WordRight(e)) /\ Keeps(e, WordRight(e))
  <1> DEFINE f == histentcmd(e)
             To(n, m) == [cmd |-> f.cmd, n |-> n, m |-> m, ln |-> f.ln, hp |-> f.hp,
                          scr |-> [text |-> f.scr.text, cur |-> n]]
  <1>1. Good(f) /\ f.hp = hist.he
    BY HistFact
  <1>2. WordAfter(f) \in 0 .. f.m /\ WordBefore(f, Alnum) \in 0 .. f.n
    BY <1>1, WordFact
  <1>3. e.n = 0 => WordLeft(e) = e
    BY DEF WordLeft
  <1>4. e.m = 0 => WordRight(e) = e
    BY DEF WordRight
  <1>5. e.n # 0 => WordLeft(e) = [f EXCEPT !.n = @ - WordBefore(f, Alnum), !.m = @ + WordBefore(f, Alnum),
                                           !.scr = Move(@, -WordBefore(f, Alnum))]
    BY DEF WordLeft
  <1>6. e.m # 0 => WordRight(e) = [f EXCEPT !.n = @ + WordAfter(f), !.m = @ - WordAfter(f),
                                            !.scr = Move(@, WordAfter(f))]
    BY DEF WordRight
  <1> HIDE DEF f
  <1>7. f \in Editors /\ f.scr.cur = f.n
    BY <1>1 DEF Good
  <1>8. /\ f.n \in Nat /\ f.m \in Nat
        /\ f = [cmd |-> f.cmd, n |-> f.n, m |-> f.m, ln |-> f.ln, hp |-> f.hp, scr |-> f.scr]
        /\ f.scr = [text |-> f.scr.text, cur |-> f.scr.cur]
    BY <1>7, EditorFact
  <1>9. ASSUME NEW d \in Int PROVE Move(f.scr, d) = [text |-> f.scr.text, cur |-> f.n + d]
    BY <1>7, <1>8 DEF Move
  <1>10. ASSUME NEW n \in Nat, NEW m \in Nat, n + m = f.n + f.m
         PROVE  Good(To(n, m)) /\ To(n, m).hp = hist.he
    <2>1. Good(To(n, m))
      BY <1>1, <1>10, CursorFact
    <2>2. QED
      BY <1>1, <2>1
  <1>11. \A g : g.hp = hist.he => Keeps(e, g)
    BY DEF Keeps
  <1>12. Keeps(e, e)
    BY DEF Keeps
  <1>13. Good(WordLeft(e)) /\ Keeps(e, WordLeft(e))
    <2> DEFINE i == WordBefore(f, Alnum)
    <2>1. i \in 0 .. f.n
      BY <1>2
    <2>2. SUFFICES ASSUME e.n # 0 PROVE Good(WordLeft(e)) /\ Keeps(e, WordLeft(e))
      BY <1>3, <1>12
    <2>3. WordLeft(e) = [f EXCEPT !.n = @ - i, !.m = @ + i, !.scr = Move(@, -i)]
      BY <1>5, <2>2
    <2> HIDE DEF i
    <2>4. Move(f.scr, -i) = [text |-> f.scr.text, cur |-> f.n - i]
      BY <1>8, <1>9, <2>1
    <2>5. WordLeft(e) = To(f.n - i, f.m + i)
      BY <1>8, <2>3, <2>4
    <2>6. f.n - i \in Nat /\ f.m + i \in Nat /\ (f.n - i) + (f.m + i) = f.n + f.m
      BY <1>8, <2>1
    <2> HIDE DEF To
    <2>7. QED
      BY <1>10, <1>11, <2>5, <2>6
  <1>14. Good(WordRight(e)) /\ Keeps(e, WordRight(e))
    <2> DEFINE i == WordAfter(f)
    <2>1. i \in 0 .. f.m
      BY <1>2
    <2>2. SUFFICES ASSUME e.m # 0 PROVE Good(WordRight(e)) /\ Keeps(e, WordRight(e))
      BY <1>4, <1>12
    <2>3. WordRight(e) = [f EXCEPT !.n = @ + i, !.m = @ - i, !.scr = Move(@, i)]
      BY <1>6, <2>2
    <2> HIDE DEF i
    <2>4. Move(f.scr, i) = [text |-> f.scr.text, cur |-> f.n + i]
      BY <1>8, <1>9, <2>1
    <2>5. WordRight(e) = To(f.n + i, f.m - i)
      BY <1>8, <2>3, <2>4
    <2>6. f.n + i \in Nat /\ f.m - i \in Nat /\ (f.n + i) + (f.m - i) = f.n + f.m
      BY <1>8, <2>1
    <2> HIDE DEF To
    <2>7. QED
      BY <1>10, <1>11, <2>5, <2>6
  <1>15. QED
    BY <1>13, <1>14

-----------------------------------------------------------------------------
(* t is o up to column a, then w, then at most some of it up to column b,  *)
(* and blanks.                                                             *)
Ends(t, b) == \A i \in b + 1 .. Len(t) : t[i] = SP

Spells(t, o, a, w, b) ==
  /\ t \in Seq(Bytes) /\ a + Len(w) <= Len(t)
  /\ \A i \in 1 .. a : t[i] = o[i]
  /\ \A i \in 1 .. Len(w) : t[a + i] = w[i]
  /\ Ends(t, b)

(* The memory is o for a bytes, then w.                                    *)
Holds(c, o, a, w) ==
  /\ c \in [Size -> Bytes]
  /\ \A i \in 1 .. a : c[i - 1] = o[i - 1]
  /\ \A i \in 1 .. Len(w) : c[a + i - 1] = w[i]

(* From column a on the line is w, in memory and on the terminal, and the  *)
(* cursor is n columns into it.                                            *)
Rewrites(f, a, w, c, t, n, m) ==
  /\ Good(f) /\ f.hp = hist.he
  /\ a \in Nat /\ a <= f.n + f.m /\ w \in Seq(Chars) /\ a + Len(w) <= CMDSZ
  /\ Holds(c, f.cmd, a, w) /\ Spells(t, f.scr.text, a, w, a + Len(w))
  /\ n \in Nat /\ m \in Nat /\ n + m = a + Len(w)

Rewritten(f, c, t, n, m) ==
  [cmd |-> c, n |-> n, m |-> m, ln |-> f.ln, hp |-> f.hp, scr |-> [text |-> t, cur |-> n]]

(* A line that is spelled the same in memory and on the terminal.          *)
LEMMA SpelledFact ==
  ASSUME hist \in Histories, NEW f, NEW a, NEW w, NEW c, NEW t, NEW n, NEW m, Rewrites(f, a, w, c, t, n, m)
  PROVE  Good(Rewritten(f, c, t, n, m)) /\ Rewritten(f, c, t, n, m).hp = hist.he
  <1> DEFINE g == Rewritten(f, c, t, n, m)
  <1>0. /\ Good(f) /\ f.hp = hist.he
        /\ a \in Nat /\ a <= f.n + f.m /\ w \in Seq(Chars) /\ a + Len(w) <= CMDSZ
        /\ Holds(c, f.cmd, a, w) /\ Spells(t, f.scr.text, a, w, a + Len(w))
        /\ n \in Nat /\ m \in Nat /\ n + m = a + Len(w)
    BY DEF Rewrites
  <1>1. /\ c \in [Size -> Bytes]
        /\ \A i \in 1 .. a : c[i - 1] = f.cmd[i - 1]
        /\ \A i \in 1 .. Len(w) : c[a + i - 1] = w[i]
    BY <1>0 DEF Holds
  <1>2. /\ t \in Seq(Bytes) /\ a + Len(w) <= Len(t)
        /\ \A i \in 1 .. a : t[i] = f.scr.text[i]
        /\ \A i \in 1 .. Len(w) : t[a + i] = w[i]
    BY <1>0 DEF Spells
  <1>3. \A i \in a + Len(w) + 1 .. Len(t) : t[i] = SP
    BY <1>0 DEF Spells, Ends
  <1>4. g = [cmd |-> c, n |-> n, m |-> m, ln |-> f.ln, hp |-> f.hp, scr |-> [text |-> t, cur |-> n]]
    BY DEF Rewritten
  <1> HIDE DEF g
  <1> USE <1>0, <1>1, <1>2, <1>3, <1>4
  <1>5. f \in Editors
    BY DEF Good
  <1>6. f.ln \in Size /\ f.n \in Nat /\ f.m \in Nat
    BY <1>5, EditorFact
  <1>7. /\ \A i \in 1 .. f.n + f.m : f.cmd[i - 1] \in Chars /\ f.scr.text[i] = f.cmd[i - 1]
    BY HereFact
  <1>8. Len(w) \in Nat /\ Len(t) \in Nat
    OBVIOUS
  <1>9. ASSUME NEW i \in 1 .. n + m PROVE c[i - 1] \in Chars /\ t[i] = c[i - 1]
    <2>1. CASE i <= a
      <3>1. i \in 1 .. a /\ i \in 1 .. f.n + f.m
        BY <1>6, <1>8, <2>1
      <3>2. QED
        BY <1>7, <3>1
    <2>2. CASE a < i
      <3>1. i - a \in 1 .. Len(w) /\ a + (i - a) = i /\ a + (i - a) - 1 = i - 1
        BY <1>8, <2>2
      <3>2. c[i - 1] = w[i - a] /\ t[i] = w[i - a]
        BY <3>1
      <3>3. w[i - a] \in Chars
        BY <3>1
      <3>4. QED
        BY <3>2, <3>3
    <2>3. QED
      BY <2>1, <2>2, <1>8
  <1>10. n + m <= CMDSZ /\ n + m <= Len(t) /\ \A i \in n + m + 1 .. Len(t) : t[i] = SP
    BY ONLY n + m = a + Len(w), a + Len(w) <= CMDSZ, a + Len(w) <= Len(t),
            \A i \in a + Len(w) + 1 .. Len(t) : t[i] = SP
  <1>11. g = [cmd |-> c, n |-> n, m |-> m, ln |-> f.ln, hp |-> hist.he, scr |-> [text |-> t, cur |-> n]]
    OBVIOUS
  <1>12. Good(g)
    BY ONLY <1>6, <1>9, <1>10, <1>11, hist \in Histories, c \in [Size -> Bytes], t \in Seq(Bytes),
            n \in Nat, m \in Nat, MakeGood
  <1>13. QED
    BY <1>11, <1>12 DEF g

(* Writing to the terminal.                                                *)
LEMMA ShowFact ==
  ASSUME NEW o \in Seq(Bytes), NEW a \in Nat, a <= Len(o), NEW w \in Seq(Chars),
         NEW b \in Nat, a + Len(w) <= b, Ends(o, b), NEW r, r = Write([text |-> o, cur |-> a], w)
  PROVE  r = [text |-> r.text, cur |-> a + Len(w)] /\ Spells(r.text, o, a, w, b)
  <1> DEFINE p == [text |-> o, cur |-> a]
             t == r.text
  <1>1. Len(w) \in Nat /\ Len(o) \in Nat
    OBVIOUS
  <1>2. w \in Seq(Bytes) /\ a \in 0 .. Len(o) /\ p.text = o /\ p.cur = a
    BY <1>1, CharFact
  <1>3. /\ t \in Seq(Bytes) /\ r = [text |-> t, cur |-> a + Len(w)]
        /\ Len(t) = IF a + Len(w) > Len(o) THEN a + Len(w) ELSE Len(o)
        /\ \A i \in 1 .. Len(t) : t[i] = IF i > a /\ i <= a + Len(w) THEN w[i - a] ELSE o[i]
    <2>1. p.text \in Seq(Bytes) /\ p.cur \in 0 .. Len(p.text) /\ r = Write(p, w)
      BY <1>2
    <2> HIDE DEF p
    <2>2. QED
      BY ONLY <1>2, <2>1, WriteFact DEF t
  <1> HIDE DEF t, p
  <1>4. a + Len(w) <= Len(t) /\ Len(t) \in Nat
    BY <1>1, <1>3
  <1>5. ASSUME NEW i \in 1 .. a PROVE t[i] = o[i]
    <2>1. i \in 1 .. Len(t) /\ ~(i > a)
      BY <1>1, <1>4
    <2>2. QED
      BY <1>3, <2>1
  <1>6. ASSUME NEW i \in 1 .. Len(w) PROVE t[a + i] = w[i]
    <2>1. a + i \in 1 .. Len(t) /\ a + i > a /\ a + i <= a + Len(w) /\ (a + i) - a = i
      BY <1>1, <1>4
    <2>2. QED
      BY <1>3, <2>1
  <1>7. ASSUME NEW i \in b + 1 .. Len(t) PROVE t[i] = SP
    <2>1. i \in 1 .. Len(t) /\ ~(i <= a + Len(w))
      BY <1>1, <1>4
    <2>2. t[i] = o[i]
      BY <1>3, <2>1
    <2>3. Len(t) = Len(o)
      <3>1. a + Len(w) < Len(t)
        BY <1>1, <1>4
      <3>2. QED
        BY <1>1, <1>3, <3>1
    <2>4. i \in b + 1 .. Len(o)
      BY <2>3
    <2>5. QED
      BY <2>2, <2>4 DEF Ends
  <1>8. r.text = t
    BY DEF t
  <1>9. Ends(t, b)
    BY <1>7 DEF Ends
  <1>10. QED
    BY <1>3, <1>4, <1>5, <1>6, <1>8, <1>9 DEF Spells

(* Clearing what follows w.                                                *)
LEMMA WipeFact ==
  ASSUME NEW t, NEW o, NEW a \in Nat, NEW w \in Seq(Chars), NEW b, Spells(t, o, a, w, b),
         NEW k, k = a + Len(w)
  PROVE  /\ Clear0([text |-> t, cur |-> k]) = [text |-> SubSeq(t, 1, k), cur |-> k]
         /\ Spells(SubSeq(t, 1, k), o, a, w, k)
  <1> DEFINE u == SubSeq(t, 1, k)
  <1>1. /\ t \in Seq(Bytes) /\ k <= Len(t)
        /\ \A i \in 1 .. a : t[i] = o[i]
        /\ \A i \in 1 .. Len(w) : t[a + i] = w[i]
    BY DEF Spells
  <1>2. Len(w) \in Nat /\ k \in Nat /\ k \in 0 .. Len(t)
    BY <1>1
  <1>3. /\ Clear0([text |-> t, cur |-> k]) = [text |-> u, cur |-> k]
        /\ u \in Seq(Bytes) /\ Len(u) = k /\ \A i \in 1 .. k : u[i] = t[i]
    BY <1>1, <1>2, ClearFact
  <1> HIDE DEF u
  <1>4. \A i \in 1 .. a : u[i] = o[i]
    BY <1>1, <1>2, <1>3
  <1>5. ASSUME NEW i \in 1 .. Len(w) PROVE u[a + i] = w[i]
    <2>1. a + i \in 1 .. k
      BY <1>2
    <2>2. QED
      BY <1>1, <1>3, <2>1
  <1>6. Ends(u, k)
    BY <1>2, <1>3 DEF Ends
  <1>7. a + Len(w) <= Len(u)
    BY <1>2, <1>3
  <1>8. QED
    BY <1>3, <1>4, <1>5, <1>6, <1>7 DEF Spells, u

(* Writing to memory.                                                      *)
LEMMA HoldFact ==
  ASSUME NEW cmd \in [Size -> Bytes], NEW a \in Nat, NEW w \in Seq(Chars), a + Len(w) <= CMDSZ
  PROVE  Holds(MemPut(cmd, a, w), cmd, a, w)
  <1> DEFINE c == MemPut(cmd, a, w)
  <1>1. CMDSZ \in Nat /\ Len(w) \in Nat /\ w \in Seq(Bytes)
    BY LineAssumption, CharFact
  <1>2. /\ c \in [Size -> Bytes]
        /\ \A i \in Size : c[i] = IF a <= i /\ i < a + Len(w) THEN w[i - a + 1] ELSE cmd[i]
    BY <1>1, MemPutFact
  <1> HIDE DEF c
  <1>3. ASSUME NEW i \in 1 .. a PROVE c[i - 1] = cmd[i - 1]
    <2>1. i - 1 \in Size /\ ~(a <= i - 1)
      BY <1>1 DEF Size
    <2>2. QED
      BY <1>2, <2>1
  <1>4. ASSUME NEW i \in 1 .. Len(w) PROVE c[a + i - 1] = w[i]
    <2>1. a + i - 1 \in Size /\ a <= a + i - 1 /\ a + i - 1 < a + Len(w) /\ (a + i - 1) - a + 1 = i
      BY <1>1 DEF Size
    <2>2. QED
      BY <1>2, <2>1
  <1>5. QED
    BY <1>2, <1>3, <1>4 DEF Holds, c

(* Writing v behind s, then s: both are there.                             *)
LEMMA HoldBoth ==
  ASSUME NEW cmd \in [Size -> Bytes], NEW a \in Nat, NEW s \in Seq(Chars), NEW v \in Seq(Chars),
         a + Len(s) + Len(v) <= CMDSZ
  PROVE  /\ Holds(MemPut(MemPut(cmd, a + Len(s), v), a, s), cmd, a, s \o v)
         /\ s \o v \in Seq(Chars) /\ Len(s \o v) = Len(s) + Len(v)
  <1> DEFINE w == s \o v
             c1 == MemPut(cmd, a + Len(s), v)
             c == MemPut(c1, a, s)
  <1>1. CMDSZ \in Nat
    BY LineAssumption
  <1>2. Len(s) \in Nat /\ Len(v) \in Nat /\ a + Len(s) \in Nat
    OBVIOUS
  <1>3. a + Len(s) <= CMDSZ
    BY <1>1, <1>2
  <1>4. w \in Seq(Chars) /\ Len(w) = Len(s) + Len(v)
    BY ConcatProperties
  <1>5. \A i \in 1 .. Len(w) : w[i] = IF i <= Len(s) THEN s[i] ELSE v[i - Len(s)]
    BY ConcatProperties
  <1> HIDE DEF w
  <1>6. Holds(c1, cmd, a + Len(s), v)
    BY <1>2, HoldFact
  <1> HIDE DEF c1
  <1>7. /\ c1 \in [Size -> Bytes]
        /\ \A i \in 1 .. a + Len(s) : c1[i - 1] = cmd[i - 1]
        /\ \A i \in 1 .. Len(v) : c1[a + Len(s) + i - 1] = v[i]
    BY <1>6 DEF Holds
  <1>8. Holds(c, c1, a, s)
    BY <1>3, <1>7, HoldFact
  <1>9. s \in Seq(Bytes)
    BY CharFact
  <1>10. \A i \in Size : c[i] = IF a <= i /\ i < a + Len(s) THEN s[i - a + 1] ELSE c1[i]
    BY <1>7, <1>9, MemPutFact
  <1> HIDE DEF c
  <1>11. /\ c \in [Size -> Bytes]
         /\ \A i \in 1 .. a : c[i - 1] = c1[i - 1]
         /\ \A i \in 1 .. Len(s) : c[a + i - 1] = s[i]
    BY <1>8 DEF Holds
  <1>12. ASSUME NEW i \in 1 .. a PROVE c[i - 1] = cmd[i - 1]
    <2>1. i \in 1 .. a + Len(s)
      BY <1>2
    <2>2. QED
      BY <1>7, <1>11, <2>1
  <1>13. ASSUME NEW i \in 1 .. Len(w) PROVE c[a + i - 1] = w[i]
    <2>1. CASE i <= Len(s)
      <3>1. i \in 1 .. Len(s)
        BY <1>2, <2>1
      <3>2. QED
        BY <1>5, <1>11, <2>1, <3>1
    <2>2. CASE ~(i <= Len(s))
      <3>1. i - Len(s) \in 1 .. Len(v) /\ a + Len(s) + (i - Len(s)) - 1 = a + i - 1
        BY <1>2, <1>4, <2>2
      <3>2. a + i - 1 \in Size /\ ~(a + i - 1 < a + Len(s))
        BY <1>1, <1>2, <1>4, <2>2 DEF Size
      <3>3. c[a + i - 1] = c1[a + i - 1]
        BY <1>10, <3>2
      <3>4. c1[a + i - 1] = v[i - Len(s)]
        BY <1>7, <3>1
      <3>5. QED
        BY <1>5, <2>2, <3>3, <3>4
    <2>3. QED
      BY <2>1, <2>2
  <1>14. Holds(c, cmd, a, w)
    BY <1>11, <1>12, <1>13 DEF Holds
  <1>15. QED
    BY <1>4, <1>14 DEF c, c1, w

(* What the keys start from when the line typed is the one shown.          *)
LEMMA StartFact ==
  ASSUME NEW f, Good(f), f.hp = hist.he
  PROVE  /\ f \in Editors /\ f.n \in Nat /\ f.m \in Nat /\ CMDSZ \in Nat /\ f.n + f.m <= CMDSZ
         /\ f.cmd \in [Size -> Bytes] /\ f.scr.text \in Seq(Bytes)
         /\ f.n <= Len(f.scr.text) /\ Ends(f.scr.text, f.n + f.m)
         /\ f.scr = [text |-> f.scr.text, cur |-> f.n]
  <1>1. f \in Editors /\ f.n + f.m <= CMDSZ /\ f.scr.cur = f.n
    BY DEF Good
  <1>2. /\ f.n \in Nat /\ f.m \in Nat /\ CMDSZ \in Nat /\ f.cmd \in [Size -> Bytes]
        /\ f.scr.text \in Seq(Bytes) /\ f.scr = [text |-> f.scr.text, cur |-> f.scr.cur]
    BY <1>1, EditorFact
  <1>3. f.n + f.m <= Len(f.scr.text) /\ Len(f.scr.text) \in Nat
    BY HereFact
  <1>4. Ends(f.scr.text, f.n + f.m)
    BY HereFact DEF Ends
  <1>5. f.n <= Len(f.scr.text)
    BY <1>2, <1>3
  <1>6. QED
    BY <1>1, <1>2, <1>4, <1>5

(* The cursor of the terminal moved.                                       *)
LEMMA MoveFact ==
  ASSUME NEW t, NEW k, NEW d, NEW z, z = k + d
  PROVE  Move([text |-> t, cur |-> k], d) = [text |-> t, cur |-> z]
  BY DEF Move

-----------------------------------------------------------------------------
(* Characters enter the line at the cursor.                                *)
LEMMA InsertFact ==
  ASSUME hist \in Histories, NEW e, Good(e), NEW s \in Seq(Chars), e.n + e.m + Len(s) <= CMDSZ
  PROVE  Good(Insert(e, s)) /\ Insert(e, s).hp = hist.he
  <1> DEFINE f == histentcmd(e)
             tail == Mem(f.cmd, f.n, f.m)
             w == s \o tail
             c == MemPut(MemPut(f.cmd, f.n + Len(s), tail), f.n, s)
             r == Write(f.scr, w)
             n == f.n + Len(s)
             b == f.n + Len(w)
  <1>1. Good(f) /\ f.hp = hist.he /\ f.n = e.n /\ f.m = e.m
    BY HistFact
  <1>2. Insert(e, s) = Ahead(f, c, n, Move(r, -f.m))
    BY DEF Insert, Ahead
  <1> HIDE DEF f
  <1>3. /\ f \in Editors /\ f.n \in Nat /\ f.m \in Nat /\ CMDSZ \in Nat
        /\ f.cmd \in [Size -> Bytes] /\ f.scr.text \in Seq(Bytes)
        /\ f.n <= Len(f.scr.text) /\ Ends(f.scr.text, f.n + f.m)
        /\ f.scr = [text |-> f.scr.text, cur |-> f.n]
    BY <1>1, StartFact
  <1>4. tail \in Seq(Chars) /\ Len(tail) = f.m
    BY <1>1, <1>3, PieceFact
  <1> HIDE DEF tail
  <1>5. Len(s) \in Nat
    OBVIOUS
  <1>6. Holds(c, f.cmd, f.n, w) /\ w \in Seq(Chars) /\ Len(w) = Len(s) + f.m
    <2>1. f.n + Len(s) + Len(tail) <= CMDSZ
      BY <1>1, <1>3, <1>4, <1>5
    <2>2. f.cmd \in [Size -> Bytes] /\ f.n \in Nat
      BY ONLY <1>3
    <2>3. Holds(c, f.cmd, f.n, w) /\ w \in Seq(Chars) /\ Len(w) = Len(s) + Len(tail)
      BY ONLY s \in Seq(Chars), <1>4, <2>1, <2>2, HoldBoth DEF w, c
    <2>4. QED
      BY ONLY <1>4, <2>3
  <1> HIDE DEF w, c
  <1>7. b \in Nat /\ n \in Nat /\ n + f.m = b /\ b <= CMDSZ /\ b + (-f.m) = n /\ f.n + f.m <= b
    <2>1. f.n + f.m + Len(s) <= CMDSZ
      BY <1>1
    <2>2. Len(w) = Len(s) + f.m
      BY <1>6
    <2>3. b = f.n + (Len(s) + f.m)
      BY <2>2
    <2>4. QED
      <3> HIDE DEF b
      <3>1. QED
        BY <1>3, <1>5, <2>1, <2>3
  <1>8. Ends(f.scr.text, b)
    <2>1. Len(f.scr.text) \in Nat
      BY <1>3
    <2>4. f.n \in Nat /\ f.m \in Nat
      BY <1>3
    <2>5. b \in Nat /\ f.n + f.m <= b
      BY <1>7
    <2>2. \A i \in b + 1 .. Len(f.scr.text) : i \in (f.n + f.m) + 1 .. Len(f.scr.text)
      <3> HIDE DEF b
      <3>1. QED
        BY ONLY <2>1, <2>4, <2>5
    <2>3. QED
      BY ONLY <1>3, <2>2 DEF Ends
  <1>9. r = [text |-> r.text, cur |-> b] /\ Spells(r.text, f.scr.text, f.n, w, b)
    <2>1. r = Write([text |-> f.scr.text, cur |-> f.n], w) /\ f.n + Len(w) <= b
      <3>1. f.scr = [text |-> f.scr.text, cur |-> f.n]
        BY <1>3
      <3>2. r = Write([text |-> f.scr.text, cur |-> f.n], w)
        BY ONLY <3>1 DEF r
      <3>3. b \in Nat /\ b = f.n + Len(w)
        BY <1>7
      <3> HIDE DEF r, b
      <3>4. QED
        BY ONLY <3>2, <3>3
    <2>2. w \in Seq(Chars)
      BY <1>6
    <2>4. /\ f.scr.text \in Seq(Bytes) /\ f.n \in Nat /\ f.n <= Len(f.scr.text)
          /\ b \in Nat /\ f.n + Len(w) = b
      BY <1>3, <1>7
    <2> HIDE DEF r, b
    <2>3. QED
      BY ONLY <1>8, <2>1, <2>2, <2>4, ShowFact
  <1>10. f.n <= f.n + f.m /\ b = f.n + Len(w)
    BY <1>3
  <1> HIDE DEF r, b, n
  <1>11. Move(r, -f.m) = [text |-> r.text, cur |-> n]
    BY <1>7, <1>9, MoveFact
  <1>12. Insert(e, s) = [cmd |-> c, n |-> n, m |-> f.m, ln |-> f.ln, hp |-> f.hp,
                         scr |-> [text |-> r.text, cur |-> n]]
    BY <1>2, <1>3, <1>11, ChangeFact
  <1>13. QED
    <2>1. f.n \in Nat /\ f.m \in Nat /\ n \in Nat /\ w \in Seq(Chars) /\ Good(f) /\ f.hp = hist.he
      BY <1>1, <1>3, <1>6, <1>7
    <2>2. Holds(c, f.cmd, f.n, w) /\ Spells(r.text, f.scr.text, f.n, w, b)
      BY <1>6, <1>9
    <2>3. b <= CMDSZ /\ n + f.m = b
      BY <1>7
    <2>4. Rewrites(f, f.n, w, c, r.text, n, f.m)
      BY <1>10, <2>1, <2>2, <2>3 DEF Rewrites
    <2>5. Insert(e, s) = Rewritten(f, c, r.text, n, f.m)
      BY <1>12 DEF Rewritten
    <2>6. QED
      BY <2>4, <2>5, SpelledFact

(* The character under the cursor is deleted.                              *)
LEMMA DeleteFact ==
  ASSUME hist \in Histories, NEW e, Good(e), e.m # 0
  PROVE  Good(Delete(e)) /\ Delete(e).hp = hist.he
  <1> DEFINE f == histentcmd(e)
             m == f.m - 1
             w == Mem(f.cmd, f.n + 1, m)
             c == MemPut(f.cmd, f.n, w)
             o == f.scr.text
             u == SubSeq(o, 1, f.n)
             r == Write(Clear0(f.scr), w)
             b == f.n + Len(w)
  <1>1. Good(f) /\ f.hp = hist.he /\ f.n = e.n /\ f.m = e.m
    BY HistFact
  <1>2. Delete(e) = Behind(f, c, m, Move(r, -m))
    BY DEF Delete, Behind
  <1> HIDE DEF f
  <1>3. /\ f \in Editors /\ f.n \in Nat /\ f.m \in Nat /\ CMDSZ \in Nat /\ f.n + f.m <= CMDSZ
        /\ f.cmd \in [Size -> Bytes] /\ f.scr.text \in Seq(Bytes)
        /\ f.n <= Len(f.scr.text)
        /\ f.scr = [text |-> f.scr.text, cur |-> f.n]
    BY <1>1, StartFact
  <1>4. m \in Nat /\ f.n + 1 \in Nat /\ (f.n + 1) + m <= f.n + f.m
    BY <1>1, <1>3
  <1>5. w \in Seq(Chars) /\ Len(w) = m
    BY <1>1, <1>4, PieceFact
  <1> HIDE DEF w
  <1>6. b \in Nat /\ f.n + m = b /\ b <= CMDSZ /\ b + (-m) = f.n /\ f.n <= f.n + f.m
    <2>1. b = f.n + m
      BY <1>5
    <2> HIDE DEF b
    <2>2. m = f.m - 1
      OBVIOUS
    <2> HIDE DEF m
    <2>4. f.n \in Nat /\ f.m \in Nat /\ CMDSZ \in Nat /\ f.n + f.m <= CMDSZ
      BY ONLY <1>3
    <2>3. QED
      BY ONLY <1>4, <2>1, <2>2, <2>4
  <1>7. Holds(c, f.cmd, f.n, w)
    BY <1>3, <1>5, <1>6, HoldFact
  <1> HIDE DEF c, m
  <1>8. /\ Clear0(f.scr) = [text |-> u, cur |-> f.n] /\ u \in Seq(Bytes) /\ Len(u) = f.n
        /\ \A i \in 1 .. f.n : u[i] = o[i]
    <2>1. f.n \in 0 .. Len(o)
      BY <1>3
    <2>2. QED
      BY ONLY <1>3, <2>1, ClearFact DEF u, o
  <1> HIDE DEF u, o
  <1>9. Ends(u, b)
    BY <1>3, <1>5, <1>6, <1>8 DEF Ends
  <1>10. r = [text |-> r.text, cur |-> b] /\ Spells(r.text, u, f.n, w, b)
    <2>1. r = Write([text |-> u, cur |-> f.n], w) /\ f.n + Len(w) <= b /\ f.n <= Len(u)
      BY <1>3, <1>6, <1>8
    <2> HIDE DEF r
    <2>2. QED
      BY <1>3, <1>5, <1>6, <1>8, <1>9, <2>1, ShowFact
  <1>11. b = f.n + Len(w)
    OBVIOUS
  <1> HIDE DEF r, b
  <1>12. Spells(r.text, o, f.n, w, b)
    BY <1>8, <1>10 DEF Spells
  <1>13. Move(r, -m) = [text |-> r.text, cur |-> f.n]
    BY <1>6, <1>10, MoveFact
  <1>14. Delete(e) = [cmd |-> c, n |-> f.n, m |-> m, ln |-> f.ln, hp |-> f.hp,
                      scr |-> [text |-> r.text, cur |-> f.n]]
    BY <1>2, <1>3, <1>13, ChangeFact
  <1>15. QED
    <2>1. f.n \in Nat /\ m \in Nat /\ w \in Seq(Chars) /\ Good(f) /\ f.hp = hist.he
      BY <1>1, <1>3, <1>4, <1>5
    <2>2. Holds(c, f.cmd, f.n, w) /\ Spells(r.text, f.scr.text, f.n, w, b)
      BY <1>7, <1>12 DEF o
    <2>3. b <= CMDSZ /\ f.n + m = b /\ f.n <= f.n + f.m
      BY <1>6
    <2>4. Rewrites(f, f.n, w, c, r.text, f.n, m)
      BY <1>11, <2>1, <2>2, <2>3 DEF Rewrites
    <2>5. Delete(e) = Rewritten(f, c, r.text, f.n, m)
      BY <1>14 DEF Rewritten
    <2>6. QED
      BY <2>4, <2>5, SpelledFact

(* The character before the cursor is deleted; what follows is written one *)
(* column to the left, with a blank over the last of it.                   *)
LEMMA BackspaceFact ==
  ASSUME hist \in Histories, NEW e, Good(e), e.n # 0
  PROVE  Good(Backspace(e)) /\ Backspace(e).hp = hist.he
  <1> DEFINE f == histentcmd(e)
             a == f.n - 1
             w == Mem(f.cmd, f.n, f.m)
             v == Append(w, SP)
             c == MemPut(f.cmd, a, w)
             o == f.scr.text
             r == Write(Move(f.scr, -1), v)
             b == f.n + f.m
  <1>1. Good(f) /\ f.hp = hist.he /\ f.n = e.n /\ f.m = e.m
    BY HistFact
  <1>2. Backspace(e) = Ahead(f, c, a, Move(r, -(f.m + 1)))
    BY DEF Backspace, Ahead
  <1> HIDE DEF f
  <1>3. /\ f \in Editors /\ f.n \in Nat /\ f.m \in Nat /\ CMDSZ \in Nat /\ b <= CMDSZ
        /\ f.cmd \in [Size -> Bytes] /\ o \in Seq(Bytes)
        /\ f.n <= Len(o) /\ Ends(o, b)
        /\ f.scr = [text |-> o, cur |-> f.n]
    BY <1>1, StartFact
  <1>4. w \in Seq(Chars) /\ Len(w) = f.m
    BY <1>1, <1>3, PieceFact
  <1> HIDE DEF w, o
  <1>5. /\ v \in Seq(Chars) /\ Len(v) = f.m + 1 /\ v[f.m + 1] = SP
        /\ \A i \in 1 .. f.m : v[i] = w[i]
    <2>1. SP \in Chars
      BY CharFact
    <2>2. QED
      BY <1>3, <1>4, <2>1
  <1> HIDE DEF v
  <1>6. /\ a \in Nat /\ b \in Nat /\ a <= b /\ a + f.m <= CMDSZ /\ a + (f.m + 1) = b
        /\ b + (-(f.m + 1)) = a /\ f.n + (-1) = a
    <2>1. f.n # 0
      BY <1>1
    <2>2. f.n \in Nat /\ f.m \in Nat /\ CMDSZ \in Nat /\ f.n + f.m <= CMDSZ
      BY ONLY <1>3 DEF b
    <2>3. QED
      BY ONLY <2>1, <2>2 DEF a, b
  <1>7. a <= Len(o)
    <2>1. Len(o) \in Nat
      BY <1>3
    <2>2. QED
      BY <1>3, <1>6, <2>1
  <1>8. Holds(c, f.cmd, a, w)
    BY <1>3, <1>4, <1>6, HoldFact
  <1> HIDE DEF c, a, b
  <1>9. Move(f.scr, -1) = [text |-> o, cur |-> a]
    BY <1>3, <1>6, MoveFact
  <1>10. r = [text |-> r.text, cur |-> b] /\ Spells(r.text, o, a, v, b)
    <2>1. r = Write([text |-> o, cur |-> a], v)
      BY <1>9
    <2>2. a + Len(v) = b
      BY <1>5, <1>6
    <2>3. a + Len(v) <= b /\ a \in Nat /\ b \in Nat
      BY <1>6, <2>2
    <2>4. o \in Seq(Bytes) /\ Ends(o, b) /\ v \in Seq(Chars)
      BY <1>3, <1>5
    <2> HIDE DEF r
    <2>5. r = [text |-> r.text, cur |-> a + Len(v)] /\ Spells(r.text, o, a, v, b)
      BY ONLY <1>7, <2>1, <2>3, <2>4, ShowFact
    <2>6. QED
      BY <2>2, <2>5
  <1> HIDE DEF r
  <1> DEFINE t == r.text
  <1>11. Spells(t, o, a, w, a + Len(w))
    <2>1. /\ t \in Seq(Bytes) /\ a + Len(v) <= Len(t)
          /\ \A i \in 1 .. a : t[i] = o[i]
          /\ \A i \in 1 .. Len(v) : t[a + i] = v[i]
          /\ \A i \in b + 1 .. Len(t) : t[i] = SP
      BY <1>10 DEF Spells, Ends
    <2> HIDE DEF t
    <2>2. ASSUME NEW i \in 1 .. f.m PROVE t[a + i] = w[i]
      <3>1. i \in 1 .. Len(v)
        BY <1>3, <1>5
      <3>2. QED
        BY <1>5, <2>1, <3>1
    <2>3. t[b] = SP
      <3>1. f.m + 1 \in 1 .. Len(v)
        BY <1>3, <1>5
      <3>2. t[a + (f.m + 1)] = v[f.m + 1]
        BY <2>1, <3>1
      <3>3. QED
        BY <1>5, <1>6, <3>2
    <2>4. ASSUME NEW i \in (a + f.m) + 1 .. Len(t) PROVE t[i] = SP
      <3>1. Len(t) \in Nat
        BY <2>1
      <3>2. i = b \/ i \in b + 1 .. Len(t)
        BY <1>3, <1>6, <3>1
      <3>3. QED
        BY <2>1, <2>3, <3>2
    <2>5. a + f.m <= Len(t)
      <3>1. Len(t) \in Nat
        BY <2>1
      <3>2. QED
        <4>1. f.m \in Nat /\ a + (f.m + 1) <= Len(t)
          BY ONLY <1>3, <1>5, <2>1
        <4>2. QED
          BY ONLY <1>6, <3>1, <4>1
    <2>6. Ends(t, a + f.m)
      BY <2>4 DEF Ends
    <2>7. QED
      BY <1>4, <2>1, <2>2, <2>5, <2>6 DEF Spells
  <1>12. Move(r, -(f.m + 1)) = [text |-> t, cur |-> a]
    BY <1>6, <1>10, MoveFact
  <1>13. Backspace(e) = Rewritten(f, c, t, a, f.m)
    BY <1>2, <1>3, <1>12, ChangeFact DEF Rewritten
  <1>14. Rewrites(f, a, w, c, t, a, f.m)
    <2>1. a <= f.n + f.m /\ a + Len(w) <= CMDSZ
      BY <1>4, <1>6 DEF b
    <2>2. a + f.m = a + Len(w)
      BY <1>4
    <2>3. Spells(t, f.scr.text, a, w, a + Len(w))
      BY <1>11 DEF o
    <2> HIDE DEF t
    <2>4. QED
      BY <1>1, <1>3, <1>4, <1>6, <1>8, <2>1, <2>2, <2>3 DEF Rewrites
  <1> HIDE DEF t
  <1>15. QED
    BY <1>13, <1>14, SpelledFact

(* A piece before the cursor is cut.                                       *)
LEMMA CutBeforeFact ==
  ASSUME hist \in Histories, NEW f, Good(f), f.hp = hist.he, NEW k \in 0 .. f.n
  PROVE  Good(CutBefore(f, k)) /\ CutBefore(f, k).hp = hist.he
  <1> DEFINE a == f.n - k
             w == Mem(f.cmd, f.n, f.m)
             c == MemPut(f.cmd, a, w)
             o == f.scr.text
             r == Write(Move(f.scr, -k), w)
             b == f.n + f.m
             z == a + Len(w)
  <1>1. CutBefore(f, k) = Ahead(f, c, a, Move(Clear0(r), -f.m))
    BY DEF CutBefore, Ahead
  <1>3. /\ f \in Editors /\ f.n \in Nat /\ f.m \in Nat /\ CMDSZ \in Nat /\ b <= CMDSZ
        /\ f.cmd \in [Size -> Bytes] /\ o \in Seq(Bytes)
        /\ f.n <= Len(o) /\ Ends(o, b)
        /\ f.scr = [text |-> o, cur |-> f.n]
    BY StartFact
  <1>4. w \in Seq(Chars) /\ Len(w) = f.m
    BY <1>3, PieceFact
  <1> HIDE DEF w, o
  <1>5. /\ a \in Nat /\ b \in Nat /\ a <= b /\ a + f.m <= CMDSZ /\ a + f.m <= b /\ f.n + (-k) = a
        /\ (a + f.m) + (-f.m) = a
    <2>1. k \in Nat /\ k <= f.n
      BY <1>3
    <2>2. QED
      BY ONLY <1>3, <2>1
  <1>6. a <= Len(o)
    <2>1. Len(o) \in Nat
      BY <1>3
    <2>2. QED
      BY <1>3, <2>1
  <1>7. Holds(c, f.cmd, a, w)
    BY <1>3, <1>4, <1>5, HoldFact
  <1> HIDE DEF c, a, b
  <1>8. Move(f.scr, -k) = [text |-> o, cur |-> a]
    BY <1>3, <1>5, MoveFact
  <1>9. r = [text |-> r.text, cur |-> z] /\ Spells(r.text, o, a, w, b)
    <2>1. r = Write([text |-> o, cur |-> a], w)
      BY <1>8
    <2>2. a + Len(w) <= b
      BY <1>4, <1>5
    <2> HIDE DEF r
    <2>3. QED
      BY <1>3, <1>4, <1>5, <1>6, <2>1, <2>2, ShowFact
  <1> HIDE DEF r
  <1> DEFINE t == SubSeq(r.text, 1, z)
  <1>10. Clear0(r) = [text |-> t, cur |-> z] /\ Spells(t, o, a, w, z)
    <2>1. z = a + Len(w)
      OBVIOUS
    <2> HIDE DEF z
    <2>4. a \in Nat /\ w \in Seq(Chars) /\ Spells(r.text, o, a, w, b)
      BY <1>4, <1>5, <1>9
    <2>2. /\ Clear0([text |-> r.text, cur |-> z]) = [text |-> SubSeq(r.text, 1, z), cur |-> z]
          /\ Spells(SubSeq(r.text, 1, z), o, a, w, z)
      <3>1. Spells(SubSeq(r.text, 1, z), o, a, w, z)
        BY ONLY <2>1, <2>4, WipeFact
      <3>2. Clear0([text |-> r.text, cur |-> z]) = [text |-> SubSeq(r.text, 1, z), cur |-> z]
        BY ONLY <2>1, <2>4, WipeFact
      <3>3. QED
        BY <3>1, <3>2
    <2>3. QED
      BY <1>9, <2>2
  <1> HIDE DEF t
  <1>11. Move(Clear0(r), -f.m) = [text |-> t, cur |-> a]
    <2>1. z + (-f.m) = a
      BY <1>4, <1>5
    <2>2. QED
      BY <1>10, <2>1, MoveFact
  <1>12. CutBefore(f, k) = Rewritten(f, c, t, a, f.m)
    BY <1>1, <1>3, <1>11, ChangeFact DEF Rewritten
  <1>13. Rewrites(f, a, w, c, t, a, f.m)
    <2>1. a <= f.n + f.m /\ a + Len(w) <= CMDSZ
      BY <1>4, <1>5 DEF b
    <2>2. a + f.m = a + Len(w)
      BY <1>4
    <2>3. Spells(t, f.scr.text, a, w, a + Len(w))
      BY <1>10 DEF o
    <2>4. QED
      BY <1>3, <1>4, <1>5, <1>7, <2>1, <2>2, <2>3 DEF Rewrites
  <1>14. QED
    BY <1>12, <1>13, SpelledFact

(* A piece after the cursor is cut.                                        *)
LEMMA CutAfterFact ==
  ASSUME hist \in Histories, NEW f, Good(f), f.hp = hist.he, NEW k \in 0 .. f.m
  PROVE  Good(CutAfter(f, k)) /\ CutAfter(f, k).hp = hist.he
  <1> DEFINE m == f.m - k
             w == Mem(f.cmd, f.n + k, m)
             c == MemPut(f.cmd, f.n, w)
             o == f.scr.text
             r == Write(f.scr, w)
             b == f.n + f.m
             z == f.n + Len(w)
  <1>1. CutAfter(f, k) = Behind(f, c, m, Move(Clear0(r), -m))
    BY DEF CutAfter, Behind
  <1>3. /\ f \in Editors /\ f.n \in Nat /\ f.m \in Nat /\ CMDSZ \in Nat /\ b <= CMDSZ
        /\ f.cmd \in [Size -> Bytes] /\ o \in Seq(Bytes)
        /\ f.n <= Len(o) /\ Ends(o, b)
        /\ f.scr = [text |-> o, cur |-> f.n]
    BY StartFact
  <1>5. /\ m \in Nat /\ b \in Nat /\ f.n <= b /\ f.n + m <= CMDSZ /\ f.n + m <= b
        /\ (f.n + m) + (-m) = f.n /\ f.n + k \in Nat /\ (f.n + k) + m <= f.n + f.m
    <2>1. k \in Nat /\ k <= f.m /\ f.n \in Nat /\ f.m \in Nat /\ CMDSZ \in Nat /\ f.n + f.m <= CMDSZ
      BY <1>3
    <2>2. m \in Nat /\ m + k = f.m
      BY ONLY <2>1
    <2> HIDE DEF m
    <2>3. (f.n + m) + (-m) = f.n
      BY ONLY <2>1, <2>2
    <2>4. QED
      BY ONLY <2>1, <2>2, <2>3 DEF b
  <1>4. w \in Seq(Chars) /\ Len(w) = m
    BY <1>5, PieceFact
  <1> HIDE DEF w, o
  <1>7. Holds(c, f.cmd, f.n, w)
    BY <1>3, <1>4, <1>5, HoldFact
  <1> HIDE DEF c, b, m
  <1>9. r = [text |-> r.text, cur |-> z] /\ Spells(r.text, o, f.n, w, b)
    <2>1. r = Write([text |-> o, cur |-> f.n], w)
      BY <1>3
    <2>2. f.n + Len(w) <= b
      BY <1>4, <1>5
    <2> HIDE DEF r
    <2>3. QED
      BY <1>3, <1>4, <1>5, <2>1, <2>2, ShowFact
  <1> HIDE DEF r
  <1> DEFINE t == SubSeq(r.text, 1, z)
  <1>10. Clear0(r) = [text |-> t, cur |-> z] /\ Spells(t, o, f.n, w, z)
    <2>1. z = f.n + Len(w)
      OBVIOUS
    <2> HIDE DEF z
    <2>2. /\ Clear0([text |-> r.text, cur |-> z]) = [text |-> SubSeq(r.text, 1, z), cur |-> z]
          /\ Spells(SubSeq(r.text, 1, z), o, f.n, w, z)
      BY <1>3, <1>4, <1>9, <2>1, WipeFact
    <2>3. QED
      BY <1>9, <2>2
  <1> HIDE DEF t
  <1>11. Move(Clear0(r), -m) = [text |-> t, cur |-> f.n]
    <2>1. z + (-m) = f.n
      BY <1>4, <1>5
    <2>2. QED
      BY <1>10, <2>1, MoveFact
  <1>12. CutAfter(f, k) = Rewritten(f, c, t, f.n, m)
    BY <1>1, <1>3, <1>11, ChangeFact DEF Rewritten
  <1>13. Rewrites(f, f.n, w, c, t, f.n, m)
    <2>1. f.n <= f.n + f.m /\ f.n + Len(w) <= CMDSZ
      BY <1>3, <1>4, <1>5
    <2>2. f.n + m = f.n + Len(w)
      BY <1>4
    <2>3. Spells(t, f.scr.text, f.n, w, f.n + Len(w))
      BY <1>10 DEF o
    <2>4. QED
      BY <1>3, <1>4, <1>5, <1>7, <2>1, <2>2, <2>3 DEF Rewrites
  <1>14. QED
    BY <1>12, <1>13, SpelledFact

(* What is pasted or completed is cut to what fits.                        *)
LEMMA FittingFact ==
  ASSUME NEW e, Good(e), NEW s \in Seq(Chars)
  PROVE  Fitting(e, s) \in Seq(Chars) /\ e.n + e.m + Len(Fitting(e, s)) <= CMDSZ
  <1> DEFINE room == CMDSZ - e.n - e.m
  <1>1. e \in Editors /\ e.n + e.m <= CMDSZ
    BY DEF Good
  <1>2. e.n \in Nat /\ e.m \in Nat /\ CMDSZ \in Nat
    BY <1>1, EditorFact
  <1>3. room \in Nat /\ e.n + e.m + room = CMDSZ
    BY <1>1, <1>2
  <1>4. Fitting(e, s) = IF Len(s) > room THEN SubSeq(s, 1, room) ELSE s
    BY DEF Fitting
  <1>5. Len(s) \in Nat
    OBVIOUS
  <1> HIDE DEF room
  <1>6. CASE Len(s) > room
    <2>1. SubSeq(s, 1, room) \in Seq(Chars) /\ Len(SubSeq(s, 1, room)) = room
      BY <1>3, <1>5, <1>6
    <2>2. QED
      BY <1>2, <1>3, <1>4, <1>6, <2>1
  <1>7. CASE ~(Len(s) > room)
    BY <1>2, <1>3, <1>4, <1>5, <1>7
  <1>8. QED
    BY <1>6, <1>7

-----------------------------------------------------------------------------
(* The line drawn again from its start.                                    *)
LEMMA FromStart ==
  ASSUME NEW o \in Seq(Bytes), Len(o) = 0, NEW s \in Seq(Chars), NEW r, r = Write([text |-> o, cur |-> 0], s)
  PROVE  r = [text |-> r.text, cur |-> Len(s)] /\ r.text \in Seq(Bytes) /\ Shown(r.text, s)
  <1> DEFINE b == Len(s)
             t == r.text
             z == 0
  <1>1. z \in Nat /\ b \in Nat /\ z <= Len(o) /\ z + Len(s) <= b /\ r = Write([text |-> o, cur |-> z], s)
    OBVIOUS
  <1>8. z + Len(s) = b
    OBVIOUS
  <1>2. Ends(o, b)
    BY <1>1 DEF Ends
  <1> HIDE DEF b, z
  <1>3. r = [text |-> r.text, cur |-> z + Len(s)] /\ Spells(r.text, o, z, s, b)
    BY ONLY <1>1, <1>2, o \in Seq(Bytes), s \in Seq(Chars), ShowFact
  <1>4. /\ t \in Seq(Bytes) /\ z + Len(s) <= Len(t)
        /\ \A i \in 1 .. Len(s) : t[z + i] = s[i]
        /\ \A i \in b + 1 .. Len(t) : t[i] = SP
    BY <1>3 DEF Spells, Ends
  <1> HIDE DEF t
  <1>5. Shown(t, s)
    <2>1. ASSUME NEW i \in 1 .. Len(s) PROVE t[i] = s[i]
      <3>1. z + i = i
        BY DEF z
      <3>2. QED
        BY <1>4, <3>1
    <2>2. Len(s) <= Len(t)
      BY <1>4, <1>8 DEF b
    <2>3. QED
      BY <1>4, <2>1, <2>2 DEF Shown, b
  <1>6. r = [text |-> r.text, cur |-> Len(s)]
    BY <1>3, <1>8 DEF b
  <1>7. QED
    BY <1>4, <1>5, <1>6 DEF t

(* Up and down the ring, as steps away from the line being typed.          *)
LEMMA RingFact ==
  ASSUME hist \in Histories, NEW i \in Slots
  PROVE  /\ Back(i) \in 0 .. HISTSZ - 1 /\ (Back(i) = 0 <=> i = hist.he)
         /\ Back(i) < HISTSZ - 1 => Prev(i) \in Slots /\ Back(Prev(i)) = Back(i) + 1
         /\ i # hist.he => Succ(i) \in Slots /\ Back(Succ(i)) = Back(i) - 1
         /\ \A j \in Slots : Back(i) = Back(j) => i = j
  <1> DEFINE h == hist.he
  <1>1. h \in 0 .. HISTSZ - 1 /\ HISTSZ \in Nat /\ HISTSZ >= 2
    BY LineAssumption
  <1>2. \A j : Back(j) = IF j <= h THEN h - j ELSE h - j + HISTSZ
    BY DEF Back
  <1>3. i \in 0 .. HISTSZ - 1
    BY DEF Slots
  <1> HIDE DEF h
  <1>4. Back(i) \in 0 .. HISTSZ - 1 /\ (Back(i) = 0 <=> i = h)
    BY <1>1, <1>2, <1>3
  <1>5. ASSUME Back(i) < HISTSZ - 1 PROVE Prev(i) \in Slots /\ Back(Prev(i)) = Back(i) + 1
    <2>1. CASE i = 0
      <3>1. Prev(i) = HISTSZ - 1
        BY <2>1 DEF Prev
      <3>2. Prev(i) \in Slots
        BY <1>1, <3>1 DEF Slots
      <3>3. Back(0) = h /\ Back(i) = h
        BY <1>1, <1>2, <2>1
      <3>4. HISTSZ - 1 > h
        BY <1>1, <1>5, <3>3
      <3>5. Back(HISTSZ - 1) = h - (HISTSZ - 1) + HISTSZ
        BY <1>1, <1>2, <3>4
      <3>6. h - (HISTSZ - 1) + HISTSZ = h + 1
        BY <1>1
      <3>7. QED
        BY <3>1, <3>2, <3>3, <3>5, <3>6
    <2>2. CASE i # 0
      <3>1. Prev(i) = i - 1
        BY <2>2 DEF Prev
      <3>2. i - 1 \in Slots
        BY <1>1, <1>3, <2>2 DEF Slots
      <3>3. Back(i - 1) = IF i - 1 <= h THEN h - (i - 1) ELSE h - (i - 1) + HISTSZ
        BY <1>2
      <3>4. Back(i) = IF i <= h THEN h - i ELSE h - i + HISTSZ
        BY <1>2
      <3>5. i # h + 1
        BY <1>1, <1>3, <1>5, <3>4
      <3>6. Back(i - 1) = Back(i) + 1
        BY <1>1, <1>3, <3>3, <3>4, <3>5
      <3>7. QED
        BY <3>1, <3>2, <3>6
    <2>3. QED
      BY <2>1, <2>2
  <1>6. ASSUME i # h PROVE Succ(i) \in Slots /\ Back(Succ(i)) = Back(i) - 1
    <2>1. CASE i = HISTSZ - 1
      <3>1. Succ(i) = 0
        BY <1>1, <2>1 DEF Succ
      <3>2. Back(0) = h
        BY <1>1, <1>2
      <3>3. Back(i) = h - (HISTSZ - 1) + HISTSZ
        BY <1>1, <1>2, <1>6, <2>1
      <3>4. h - (HISTSZ - 1) + HISTSZ = h + 1 /\ (h + 1) - 1 = h
        BY <1>1
      <3>5. 0 \in Slots
        BY <1>1 DEF Slots
      <3>6. Back(i) - 1 = h
        BY <3>3, <3>4
      <3>7. QED
        BY <3>1, <3>2, <3>5, <3>6
    <2>2. CASE i # HISTSZ - 1
      <3>1. Succ(i) = i + 1
        BY <1>1, <1>3, <2>2 DEF Succ
      <3>2. i + 1 \in Slots
        BY <1>1, <1>3, <2>2 DEF Slots
      <3>3. Back(i + 1) = IF i + 1 <= h THEN h - (i + 1) ELSE h - (i + 1) + HISTSZ
        BY <1>2
      <3>4. Back(i) = IF i <= h THEN h - i ELSE h - i + HISTSZ
        BY <1>2
      <3>5. Back(i + 1) = Back(i) - 1
        BY <1>1, <1>3, <1>6, <3>3, <3>4
      <3>6. QED
        BY <3>1, <3>2, <3>5
    <2>3. QED
      BY <2>1, <2>2
  <1>7. ASSUME NEW j \in Slots, Back(i) = Back(j) PROVE i = j
    <2>1. j \in 0 .. HISTSZ - 1
      BY DEF Slots
    <2>2. Back(j) = IF j <= h THEN h - j ELSE h - j + HISTSZ
      BY <1>2
    <2>3. Back(i) = IF i <= h THEN h - i ELSE h - i + HISTSZ
      BY <1>2
    <2>4. QED
      BY <1>1, <1>3, <1>7, <2>1, <2>2, <2>3
  <1>8. QED
    BY <1>4, <1>5, <1>6, <1>7 DEF h

(* The line at slot p of the ring, or the line typed, is drawn.            *)
Browses(e, p, l, s) ==
  /\ Good(e) /\ p \in Slots /\ l \in Size /\ Back(p) <= Back(hist.hb)
  /\ s \in Seq(Chars) /\ Len(s) <= CMDSZ
  /\ p # hist.he => Mem(e.cmd, 0, l) \in Seq(Chars) /\ s = Entry(p)
  /\ p = hist.he => s = Mem(e.cmd, 0, l)

Browsed(e, p, l, s) ==
  [cmd |-> e.cmd, n |-> Len(s), m |-> 0, ln |-> l, hp |-> p, scr |-> Redraw(e.scr, e.n, s)]

(* ... and everything is as it should be.                                  *)
LEMMA BrowseFact ==
  ASSUME hist \in Histories, NEW e, NEW p, NEW l, NEW s, Browses(e, p, l, s)
  PROVE  /\ Good(Browsed(e, p, l, s)) /\ Browsed(e, p, l, s).hp = p
         /\ Browsed(e, p, l, s).cmd = e.cmd /\ Browsed(e, p, l, s).ln = l
  <1> DEFINE g == Browsed(e, p, l, s)
             o == SubSeq(e.scr.text, 1, 0)
             r == Redraw(e.scr, e.n, s)
  <1>1. /\ Good(e) /\ p \in Slots /\ l \in Size /\ Back(p) <= Back(hist.hb)
        /\ s \in Seq(Chars) /\ Len(s) <= CMDSZ
        /\ p # hist.he => Mem(e.cmd, 0, l) \in Seq(Chars) /\ s = Entry(p)
        /\ p = hist.he => s = Mem(e.cmd, 0, l)
    BY DEF Browses
  <1>2. e \in Editors /\ e.scr.cur = e.n
    BY <1>1 DEF Good
  <1>3. /\ e.cmd \in [Size -> Bytes] /\ e.n \in Nat /\ e.scr.text \in Seq(Bytes) /\ CMDSZ \in Nat
        /\ e.scr = [text |-> e.scr.text, cur |-> e.scr.cur]
    BY <1>2, EditorFact
  <1>4. Clear0(Move(e.scr, -e.n)) = [text |-> o, cur |-> 0] /\ o \in Seq(Bytes) /\ Len(o) = 0
    <2>1. e.n + (-e.n) = 0 /\ e.scr = [text |-> e.scr.text, cur |-> e.n]
      BY <1>2, <1>3
    <2>2. Move(e.scr, -e.n) = [text |-> e.scr.text, cur |-> 0]
      BY <2>1, MoveFact
    <2>3. 0 \in 0 .. Len(e.scr.text)
      <3>1. Len(e.scr.text) \in Nat
        BY <1>3
      <3>2. QED
        BY <3>1
    <2>4. QED
      BY <1>3, <2>2, <2>3, ClearFact
  <1> HIDE DEF o
  <1>5. r = Write([text |-> o, cur |-> 0], s)
    BY <1>4 DEF Redraw
  <1>6. g = [cmd |-> e.cmd, n |-> Len(s), m |-> 0, ln |-> l, hp |-> p, scr |-> r]
    BY DEF Browsed
  <1> HIDE DEF r, g
  <1>7. r = [text |-> r.text, cur |-> Len(s)] /\ r.text \in Seq(Bytes) /\ Shown(r.text, s)
    <2>1. s \in Seq(Chars) /\ o \in Seq(Bytes) /\ Len(o) = 0
      BY <1>1, <1>4
    <2>2. QED
      BY ONLY <1>5, <2>1, FromStart
  <1>8. Len(s) \in Nat /\ Len(s) \in Size /\ 0 \in Size /\ Len(s) + 0 = Len(s) /\ Len(s) + 0 <= CMDSZ
    <2>1. Len(s) \in Nat
      BY <1>1
    <2>2. QED
      BY <1>1, <1>3, <2>1 DEF Size
  <1>9. /\ g.cmd = e.cmd /\ g.n = Len(s) /\ g.m = 0 /\ g.ln = l /\ g.hp = p /\ g.scr = r
        /\ g.scr.text = r.text /\ g.scr.cur = Len(s)
    BY <1>6, <1>7
  <1>10. g \in Editors
    BY <1>1, <1>3, <1>6, <1>7, <1>8 DEF Editors
  <1>11. LineOf(g) = s
    <2>1. CASE p # hist.he
      BY <1>1, <1>9, <2>1 DEF LineOf
    <2>2. CASE p = hist.he
      <3>1. LineOf(g) = Mem(e.cmd, 0, Len(s))
        BY <1>8, <1>9, <2>2 DEF LineOf
      <3>2. s = Mem(e.cmd, 0, l) /\ l \in Nat
        BY <1>1, <1>3, <2>2 DEF Size
      <3>3. Len(s) = l
        BY <3>2, LineMem
      <3>4. QED
        BY <3>1, <3>2, <3>3
    <2>3. QED
      BY <2>1, <2>2
  <1>12. Good(g)
    BY <1>1, <1>7, <1>8, <1>9, <1>10, <1>11 DEF Good
  <1>13. QED
    BY <1>9, <1>12 DEF g

(* Up shows the entry before, down the one after or the line typed; what   *)
(* was typed stays as it was.                                              *)
LEMMA UpFact ==
  ASSUME hist \in Histories, NEW e, Good(e)
  PROVE  Good(Up(e)) /\ Keeps(e, Up(e))
  <1>1. CASE e.hp = hist.hb
    BY <1>1 DEF Up, Keeps
  <1>2. CASE e.hp # hist.hb
    <2> DEFINE p == Prev(e.hp)
               l == IF e.hp = hist.he THEN e.n + e.m ELSE e.ln
               s == Entry(p)
    <2>1. /\ e \in Editors /\ e.n + e.m <= CMDSZ /\ Back(e.hp) <= Back(hist.hb)
          /\ LineOf(e) \in Seq(Chars) /\ (e.hp # hist.he => Mem(e.cmd, 0, e.ln) \in Seq(Chars))
      BY DEF Good
    <2>2. e.n \in Nat /\ e.m \in Nat /\ e.ln \in Size /\ CMDSZ \in Nat /\ e.hp \in Slots
      BY <2>1, EditorFact
    <2>3. hist.hb \in Slots /\ hist.he \in Slots
      BY LineAssumption DEF Slots
    <2>4. /\ Back(e.hp) \in 0 .. HISTSZ - 1 /\ (Back(e.hp) = Back(hist.hb) => e.hp = hist.hb)
          /\ (Back(e.hp) < HISTSZ - 1 => p \in Slots /\ Back(p) = Back(e.hp) + 1)
      BY <2>2, <2>3, RingFact
    <2>5. Back(hist.hb) \in 0 .. HISTSZ - 1 /\ HISTSZ \in Nat
      BY <2>3, RingFact, LineAssumption
    <2>6. Back(e.hp) < HISTSZ - 1 /\ Back(e.hp) + 1 <= Back(hist.hb) /\ Back(e.hp) + 1 # 0
      BY <1>2, <2>1, <2>4, <2>5
    <2>7. p \in Slots /\ Back(p) = Back(e.hp) + 1 /\ Back(p) <= Back(hist.hb) /\ Back(p) # 0
      BY <2>4, <2>6
    <2>14. Up(e) = Older(e, l, p, Len(s), 0, Redraw(e.scr, e.n, s))
      BY <1>2 DEF Up, Older
    <2> HIDE DEF p
    <2>8. p # hist.he
      BY <2>7, RingFact
    <2>9. s \in Seq(Chars) /\ Len(s) \in Size
      BY <2>7, EntryFact
    <2> HIDE DEF s
    <2>10. l \in Size
      BY <2>1, <2>2 DEF Size
    <2>11. Mem(e.cmd, 0, l) \in Seq(Chars)
      BY <2>1 DEF LineOf
    <2>15. s = Entry(p)
      BY DEF s
    <2>16. Len(s) <= CMDSZ
      BY <2>2, <2>9 DEF Size
    <2>17. l = IF e.hp = hist.he THEN e.n + e.m ELSE e.ln
      OBVIOUS
    <2> HIDE DEF l
    <2>12. Browses(e, p, l, s)
      BY <2>7, <2>8, <2>9, <2>10, <2>11, <2>15, <2>16 DEF Browses
    <2>13. Up(e) = Browsed(e, p, l, s)
      BY <2>1, <2>14, ChangeFact DEF Browsed
    <2>18. Good(Up(e)) /\ Up(e).cmd = e.cmd /\ Up(e).ln = l
      BY <2>12, <2>13, BrowseFact
    <2>19. QED
      BY <2>17, <2>18 DEF Keeps
  <1>3. QED
    BY <1>1, <1>2

LEMMA DownFact ==
  ASSUME hist \in Histories, NEW e, Good(e)
  PROVE  Good(Down(e)) /\ Keeps(e, Down(e))
  <1>1. CASE e.hp = hist.he
    BY <1>1 DEF Down, Keeps
  <1>2. CASE e.hp # hist.he
    <2> DEFINE p == Succ(e.hp)
               l == e.ln
               s == IF p = hist.he THEN Mem(e.cmd, 0, e.ln) ELSE Entry(p)
    <2>1. /\ e \in Editors /\ Back(e.hp) <= Back(hist.hb)
          /\ Mem(e.cmd, 0, l) \in Seq(Chars)
      BY <1>2 DEF Good
    <2>2. e.ln \in Size /\ l \in Nat /\ CMDSZ \in Nat /\ e.hp \in Slots
      BY <2>1, EditorFact
    <2>3. hist.hb \in Slots
      BY LineAssumption DEF Slots
    <2>4. Back(e.hp) \in 0 .. HISTSZ - 1 /\ p \in Slots /\ Back(p) = Back(e.hp) - 1
      BY <1>2, <2>2, RingFact
    <2>5. Back(hist.hb) \in 0 .. HISTSZ - 1 /\ HISTSZ \in Nat
      BY <2>3, RingFact, LineAssumption
    <2>6. Back(p) <= Back(hist.hb)
      BY <2>1, <2>4, <2>5
    <2>7. Down(e) = Newer(e, p, Len(s), 0, Redraw(e.scr, e.n, s))
      BY <1>2 DEF Down, Newer
    <2> HIDE DEF p
    <2>8. s \in Seq(Chars) /\ Len(s) <= CMDSZ
      <3>1. CASE p = hist.he
        <4>1. s = Mem(e.cmd, 0, l) /\ Len(Mem(e.cmd, 0, l)) = l
          BY <2>2, <3>1, LineMem
        <4>2. QED
          BY <2>1, <2>2, <4>1 DEF Size
      <3>2. CASE p # hist.he
        <4>1. s = Entry(p) /\ Entry(p) \in Seq(Chars) /\ Len(Entry(p)) \in Size
          BY <2>4, <3>2, EntryFact
        <4>2. QED
          BY <2>2, <4>1 DEF Size
      <3>3. QED
        BY <3>1, <3>2
    <2>9. (p # hist.he => s = Entry(p)) /\ (p = hist.he => s = Mem(e.cmd, 0, l))
      OBVIOUS
    <2> HIDE DEF s
    <2>10. Browses(e, p, l, s)
      BY <2>1, <2>2, <2>4, <2>6, <2>8, <2>9 DEF Browses
    <2>11. Down(e) = Browsed(e, p, l, s)
      BY <2>1, <2>7, ChangeFact DEF Browsed
    <2>12. Good(Down(e)) /\ Down(e).cmd = e.cmd /\ Down(e).ln = l
      BY <2>10, <2>11, BrowseFact
    <2>13. QED
      BY <1>2, <2>12 DEF Keeps
  <1>3. QED
    BY <1>1, <1>2

(* The screen is cleared, or a list of names printed, and the line drawn   *)
(* again.                                                                  *)
LEMMA RedrawFact ==
  ASSUME NEW e, Good(e), NEW g, g = [e EXCEPT !.scr = Move(Write(Blank, LineOf(e)), -e.m)]
  PROVE  Good(g) /\ Keeps(e, g)
  <1> DEFINE s == LineOf(e)
             o == <<>>
             r == Write(Blank, s)
  <1>1. e \in Editors /\ s \in Seq(Chars) /\ Len(s) = e.n + e.m
    BY DEF Good
  <1>2. e.n \in Nat /\ e.m \in Nat
    BY <1>1, EditorFact
  <1>3. r = Write([text |-> o, cur |-> 0], s) /\ o \in Seq(Bytes) /\ Len(o) = 0
    BY DEF Blank
  <1>8. g = Redrawn(e, Move(r, -e.m))
    BY DEF Redrawn
  <1> HIDE DEF s, r, o
  <1>4. r = [text |-> r.text, cur |-> Len(s)] /\ r.text \in Seq(Bytes) /\ Shown(r.text, s)
    <2>1. o \in Seq(Bytes) /\ Len(o) = 0 /\ s \in Seq(Chars) /\ r = Write([text |-> o, cur |-> 0], s)
      BY ONLY <1>1, <1>3
    <2>2. QED
      BY ONLY <2>1, FromStart
  <1>5. Move(r, -e.m) = [text |-> r.text, cur |-> e.n]
    <2>1. Len(s) + (-e.m) = e.n
      BY <1>1, <1>2
    <2>2. QED
      BY <1>4, <2>1, MoveFact
  <1>6. g = [cmd |-> e.cmd, n |-> e.n, m |-> e.m, ln |-> e.ln, hp |-> e.hp, scr |-> [text |-> r.text, cur |-> e.n]]
    BY <1>1, <1>5, <1>8, ChangeFact
  <1> DEFINE t == r.text
  <1>9. t \in Seq(Bytes) /\ Shown(t, s)
    BY <1>4
  <1>14. /\ g.cmd = e.cmd /\ g.n = e.n /\ g.m = e.m /\ g.ln = e.ln /\ g.hp = e.hp
         /\ g.scr.text = t /\ g.scr.cur = e.n
    BY <1>6
  <1>10. e.cmd \in [Size -> Bytes] /\ e.n \in Size /\ e.m \in Size /\ e.ln \in Size /\ e.hp \in Slots
    BY <1>1, EditorFact
  <1>11. g \in Editors
    <2> DEFINE x == [text |-> t, cur |-> e.n]
    <2>1. x \in [text : Seq(Bytes), cur : Size]
      BY <1>9, <1>10
    <2>2. g = [cmd |-> e.cmd, n |-> e.n, m |-> e.m, ln |-> e.ln, hp |-> e.hp, scr |-> x]
      BY <1>6
    <2> HIDE DEF x
    <2>3. QED
      BY ONLY <1>10, <2>1, <2>2 DEF Editors
  <1>12. LineOf(g) = s
    BY <1>14 DEF LineOf, s
  <1>13. Good(g)
    <2>1. LineOf(e) = s
      BY DEF s
    <2> HIDE DEF t
    <2>2. QED
      BY <1>9, <1>11, <1>12, <1>14, <2>1 DEF Good
  <1>15. QED
    BY <1>13, <1>14 DEF Keeps

-----------------------------------------------------------------------------
(* The keys inside a sequence.                                             *)
LEMMA KeyFact ==
  ASSUME hist \in Histories, NEW e, Good(e), NEW k
  PROVE  Good(KeyEdit(k, e)) /\ Keeps(e, KeyEdit(k, e))
  <1> DEFINE f == histentcmd(e)
             cut == CutAfter(f, WordAfter(f))
  <1>1. Good(f) /\ f.hp = hist.he
    BY HistFact
  <1>2. \A g : g.hp = hist.he => Keeps(e, g)
    BY DEF Keeps
  <1>3. Good(cut) /\ Keeps(e, cut)
    <2> HIDE DEF f
    <2>1. WordAfter(f) \in 0 .. f.m
      BY <1>1, WordFact
    <2>2. Good(cut) /\ cut.hp = hist.he
      BY <1>1, <2>1, CutAfterFact
    <2>3. QED
      BY <1>2, <2>2
  <1>4. Good(Delete(e)) /\ Keeps(e, Delete(e))
    <2>1. CASE e.m = 0
      BY <2>1 DEF Delete, Keeps
    <2>2. CASE e.m # 0
      BY <1>2, <2>2, DeleteFact
    <2>3. QED
      BY <2>1, <2>2
  <1>5. Good(e) /\ Keeps(e, e)
    BY DEF Keeps
  <1>6. KeyEdit(k, e) \in {Up(e), Down(e), Right(e), Left(e), ToEnd(e), ToStart(e), Delete(e),
                           WordLeft(e), WordRight(e), cut, f, e}
    BY DEF KeyEdit
  <1>7. Good(f) /\ Keeps(e, f)
    BY <1>1, <1>2
  <1> HIDE DEF f, cut
  <1>8. Good(Up(e)) /\ Keeps(e, Up(e)) /\ Good(Down(e)) /\ Keeps(e, Down(e))
    BY UpFact, DownFact
  <1>9. /\ Good(ToStart(e)) /\ Keeps(e, ToStart(e)) /\ Good(ToEnd(e)) /\ Keeps(e, ToEnd(e))
        /\ Good(Left(e)) /\ Keeps(e, Left(e)) /\ Good(Right(e)) /\ Keeps(e, Right(e))
    BY CursorKeys
  <1>10. Good(WordLeft(e)) /\ Keeps(e, WordLeft(e)) /\ Good(WordRight(e)) /\ Keeps(e, WordRight(e))
    BY WordKeys
  <1>11. QED
    BY <1>3, <1>4, <1>5, <1>6, <1>7, <1>8, <1>9, <1>10

(* A new line is empty.                                                    *)
LEMMA FreshFact == hist \in Histories => Good(Fresh) /\ Fresh.hp = hist.he
  <1> SUFFICES ASSUME hist \in Histories PROVE Good(Fresh) /\ Fresh.hp = hist.he
    OBVIOUS
  <1> DEFINE c == [i \in 0 .. CMDSZ |-> Junk]
             t == <<>>
  <1>1. CMDSZ \in Nat
    BY LineAssumption
  <1>2. Fresh = [cmd |-> c, n |-> 0, m |-> 0, ln |-> 0, hp |-> hist.he, scr |-> [text |-> t, cur |-> 0]]
    BY DEF Fresh, Blank
  <1>3. c \in [Size -> Bytes]
    BY DEF Size, Bytes
  <1>4. /\ 0 \in Nat /\ 0 + 0 <= CMDSZ /\ 0 \in Size /\ t \in Seq(Bytes) /\ 0 + 0 <= Len(t)
        /\ \A i \in 1 .. 0 + 0 : c[i - 1] \in Chars /\ t[i] = c[i - 1]
        /\ \A i \in 0 + 0 + 1 .. Len(t) : t[i] = SP
    BY <1>1 DEF Size
  <1> HIDE DEF c, t
  <1>5. Good(Fresh)
    BY <1>2, <1>3, <1>4, MakeGood
  <1>6. QED
    BY <1>2, <1>5

(* What the terminal shows, in the words of the property.                  *)
LEMMA ShownFact ==
  ASSUME NEW text \in Seq(Bytes), NEW s \in Seq(Bytes), Shown(text, s)
  PROVE  /\ Len(text) >= Len(s) /\ SubSeq(text, 1, Len(s)) = s
         /\ \A i \in Len(s) + 1 .. Len(text) : text[i] = SP
  <1> DEFINE u == SubSeq(text, 1, Len(s))
  <1>1. /\ Len(s) <= Len(text) /\ Len(s) \in Nat /\ Len(text) \in Nat
        /\ \A i \in 1 .. Len(s) : text[i] = s[i]
        /\ \A i \in Len(s) + 1 .. Len(text) : text[i] = SP
    BY DEF Shown
  <1>2. u \in Seq(Bytes) /\ Len(u) = Len(s) /\ \A i \in 1 .. Len(s) : u[i] = text[i]
    BY <1>1
  <1> HIDE DEF u
  <1>3. \A i \in 1 .. Len(s) : u[i] = s[i]
    BY <1>1, <1>2
  <1>4. u = s
    BY <1>2, <1>3, SeqEqual
  <1>5. QED
    BY <1>1, <1>4 DEF u

(* The keys that only move the cursor or draw the line leave the ring be.  *)
LEMMA PlaceFact ==
  ASSUME NEW e, Good(e)
  PROVE  /\ ToStart(e).hp = e.hp /\ ToEnd(e).hp = e.hp /\ Left(e).hp = e.hp /\ Right(e).hp = e.hp
         /\ \A r : [e EXCEPT !.scr = r].hp = e.hp
  <1>1. e \in Editors
    BY DEF Good
  <1>2. QED
    BY <1>1 DEF Editors, ToStart, ToEnd, Left, Right

-----------------------------------------------------------------------------
(* What a step may not do to a line that was typed.                        *)
Draft == pc' = "edit" /\ ed'.hp # hist'.he =>
           /\ ed'.cmd = ed.cmd
           /\ ed'.ln = IF ed.hp = hist.he THEN ed.n + ed.m ELSE ed.ln

(* A key that keeps what it should, and after which the line is edited on. *)
LEMMA EditStep ==
  ASSUME LineInv, hist' = hist, pc' = "edit", Good(ed'), Keeps(ed, ed'),
         clip' \in Seq(Chars), Len(clip') <= CMDSZ,
         newline' => esc' = <<>> /\ ed'.hp = hist.he
  PROVE  LineInv' /\ Draft
  <1>1. Good(ed)'
    BY DEF Good, LineOf, Entry, Back
  <1>2. ed' \in Editors /\ ed'.n + ed'.m <= CMDSZ
    BY DEF Good
  <1>3. ed'.ln \in Size /\ CMDSZ \in Nat
    BY <1>2, EditorFact
  <1>4. LineFits'
    BY <1>2, <1>3 DEF LineFits, Size
  <1>5. RunsWhatWasShown'
    BY DEF RunsWhatWasShown
  <1>6. hist' \in Histories
    BY DEF LineInv
  <1>7. LineInv'
    BY <1>1, <1>4, <1>5, <1>6 DEF LineInv
  <1>8. Draft
    BY DEF Draft, Keeps
  <1>9. QED
    BY <1>7, <1>8

(* A key that ends psh_readcmd without a line.                             *)
LEMMA LeaveStep ==
  ASSUME LineInv, hist' = hist, pc' \in {"exit", "error"}, ed' = ed, clip' = clip, newline' => esc' = <<>>
  PROVE  LineInv' /\ Draft
  BY DEF LineInv, LineFits, RunsWhatWasShown, Draft

(* A key that ends the line.                                               *)
LEMMA ReturnStep ==
  ASSUME LineInv, hist' = hist, clip' = clip, newline' => esc' = <<>>,
         NEW e, Good(e), e.hp = hist.he, Return(e)
  PROVE  LineInv' /\ Draft
  <1> DEFINE k == e.n + e.m
             c == ed'.cmd
             s == Mem(c, 0, k)
  <1>1. e \in Editors /\ k <= CMDSZ /\ clip \in Seq(Chars) /\ Len(clip) <= CMDSZ /\ hist \in Histories
    BY DEF Good, LineInv
  <1>2. /\ e.n \in Nat /\ e.m \in Nat /\ e.ln \in Size /\ CMDSZ \in Nat
        /\ e.cmd \in [Size -> Bytes] /\ e.scr.text \in Seq(Bytes) /\ k \in Nat
    <2>1. /\ e.n \in Nat /\ e.m \in Nat /\ e.ln \in Size /\ CMDSZ \in Nat
          /\ e.cmd \in [Size -> Bytes] /\ e.scr.text \in Seq(Bytes)
      BY <1>1, EditorFact
    <2>2. QED
      BY <2>1
  <1>3. /\ ed'.n = e.n /\ ed'.m = e.m /\ ed'.ln = e.ln /\ ed'.scr = e.scr /\ pc' = "line"
        /\ c = [e.cmd EXCEPT ![k] = NUL]
    BY <1>1 DEF Return, Editors
  <1>4. \A i \in 1 .. k : c[i - 1] = e.cmd[i - 1]
    BY <1>1, <1>2, <1>3 DEF Size
  <1>5. /\ k <= Len(e.scr.text) /\ Len(e.scr.text) \in Nat
        /\ \A i \in 1 .. k : e.cmd[i - 1] \in Chars /\ e.scr.text[i] = e.cmd[i - 1]
        /\ \A i \in k + 1 .. Len(e.scr.text) : e.scr.text[i] = SP
    BY HereFact
  <1> HIDE DEF k, c
  <1>6. /\ Len(s) = k /\ \A i \in 1 .. k : s[i] = c[i - 1]
    BY <1>2, LineMem
  <1>7. s \in Seq(Chars)
    <2>1. \A i \in 1 .. k : c[i - 1] \in Chars
      BY <1>4, <1>5
    <2>2. QED
      BY <1>2, <2>1, LineMem
  <1>8. s = Mem(ed'.cmd, 0, ed'.n + ed'.m)
    BY <1>3 DEF c, k
  <1> HIDE DEF s
  <1>9. s \in Seq(Bytes) /\ Junk \notin ToSet(s) /\ NUL \notin ToSet(s)
    <2>1. DOMAIN s = 1 .. k /\ \A i \in 1 .. k : s[i] \in Chars
      BY <1>2, <1>6, <1>7
    <2>2. QED
      BY <1>7, <2>1, CharFact DEF ToSet
  <1>10. Shown(e.scr.text, s)
    BY <1>4, <1>5, <1>6 DEF Shown
  <1>11. /\ Len(e.scr.text) >= Len(s) /\ SubSeq(e.scr.text, 1, Len(s)) = s
         /\ \A i \in Len(s) + 1 .. Len(e.scr.text) : e.scr.text[i] = SP
    BY <1>2, <1>9, <1>10, ShownFact
  <1>12. ed'.scr.text = e.scr.text
    BY <1>3
  <1>13. RunsWhatWasShown'
    BY <1>8, <1>9, <1>11, <1>12 DEF RunsWhatWasShown, Shows
  <1>14. LineFits'
    BY <1>1, <1>2, <1>3 DEF LineFits, Size, k
  <1>15. LineInv'
    BY <1>1, <1>3, <1>13, <1>14 DEF LineInv
  <1>16. QED
    BY <1>3, <1>15 DEF Draft

(* The interrupt key gives up the line.                                    *)
LEMMA ETXStep ==
  ASSUME LineInv, pc = "edit", ETX
  PROVE  LineInv' /\ Draft
  <1>1. /\ Good(ed) /\ clip \in Seq(Chars) /\ Len(clip) <= CMDSZ /\ hist \in Histories
        /\ hist' = hist /\ esc' = <<>> /\ clip' = clip /\ pc' = "line"
    BY DEF LineInv, ETX, Press
  <1>2. ed \in Editors
    BY <1>1 DEF Good
  <1>3. ed'.n = 0 /\ ed'.m = 0 /\ ed'.ln = ed.ln /\ ed'.scr = Blank /\ ed.ln \in Size /\ CMDSZ \in Nat
    <2>1. ed.ln \in Size /\ CMDSZ \in Nat
      BY <1>2, EditorFact
    <2>2. QED
      BY <1>2, <2>1 DEF ETX, Editors
  <1> DEFINE s == Mem(ed'.cmd, 0, ed'.n + ed'.m)
  <1>4. ed'.n + ed'.m = 0
    BY <1>3
  <1>5. s = <<>> /\ ToSet(s) = {}
    BY <1>4 DEF Mem, ToSet
  <1> HIDE DEF s
  <1>6. ed'.scr.text = <<>>
    BY <1>3 DEF Blank
  <1>7. RunsWhatWasShown'
    <2>1. Len(s) = 0 /\ SubSeq(<<>>, 1, 0) = <<>>
      BY <1>5
    <2>2. /\ Len(ed'.scr.text) >= Len(s) /\ SubSeq(ed'.scr.text, 1, Len(s)) = s
          /\ \A i \in Len(s) + 1 .. Len(ed'.scr.text) : ed'.scr.text[i] = SP
      BY <1>5, <1>6, <2>1
    <2>3. s = Mem(ed'.cmd, 0, ed'.n + ed'.m) /\ Junk \notin ToSet(s) /\ NUL \notin ToSet(s)
      BY <1>5 DEF s
    <2>4. QED
      BY <2>2, <2>3 DEF RunsWhatWasShown, Shows
  <1>8. LineFits'
    BY <1>1, <1>3 DEF LineFits, Size
  <1>9. LineInv'
    BY <1>1, <1>7, <1>8 DEF LineInv
  <1>10. QED
    BY <1>1, <1>9 DEF Draft

(* The next line.                                                          *)
LEMMA AgainStep ==
  ASSUME LineInv, ReadAgain
  PROVE  LineInv' /\ Draft
  <1>1. (hist \in Histories => Good(Fresh) /\ Fresh.hp = hist.he)'
    BY FreshFact, PTL
  <1>2. /\ hist' \in Histories /\ ed' = Fresh' /\ esc' = <<>> /\ pc' = "edit" /\ clip' = clip
        /\ clip \in Seq(Chars) /\ Len(clip) <= CMDSZ
    BY DEF ReadAgain, LineInv
  <1>3. Good(Fresh)' /\ Fresh'.hp = hist'.he
    BY <1>1, <1>2
  <1>4. Good(ed)' /\ ed'.hp = hist'.he
    BY <1>2, <1>3 DEF Good, LineOf, Entry, Back
  <1>5. ed' \in Editors /\ ed'.n + ed'.m <= CMDSZ
    BY <1>4 DEF Good
  <1>6. ed'.ln \in Size /\ CMDSZ \in Nat
    BY <1>5, EditorFact
  <1>7. LineFits'
    BY <1>2, <1>5, <1>6 DEF LineFits, Size
  <1>8. RunsWhatWasShown'
    BY <1>2 DEF RunsWhatWasShown
  <1>9. LineInv'
    BY <1>2, <1>4, <1>7, <1>8 DEF LineInv
  <1>10. QED
    BY <1>4, <1>9 DEF Draft

(* The keys that edit the line by themselves.                              *)
LEMMA EditKeyStep ==
  ASSUME LineInv, pc = "edit", NEW c, NEW g, EditKey(c, g), Good(g), Keeps(ed, g),
         g.hp = hist.he \/ g.hp = ed.hp
  PROVE  LineInv' /\ Draft
  <1>1. /\ hist' = hist /\ pc' = "edit" /\ ed' = g /\ clip' = clip /\ newline' = newline /\ esc' = <<>>
        /\ clip \in Seq(Chars) /\ Len(clip) <= CMDSZ /\ (newline => ed.hp = hist.he)
    BY DEF EditKey, Press, LineInv
  <1>2. newline' => esc' = <<>> /\ ed'.hp = hist.he
    BY <1>1
  <1>3. Good(ed') /\ Keeps(ed, ed') /\ clip' \in Seq(Chars) /\ Len(clip') <= CMDSZ
    BY <1>1
  <1>4. QED
    BY <1>1, <1>2, <1>3, EditStep

(* The keys that cut.                                                      *)
LEMMA CutStep ==
  ASSUME LineInv, pc = "edit", NEW c, NEW e, NEW from, NEW i, NEW g, Cut(c, e, from, i, g),
         Good(g), g.hp = hist.he, Good(e), e.hp = hist.he, from \in Nat, i \in Nat, from + i <= e.n + e.m
  PROVE  LineInv' /\ Draft
  <1>1. /\ hist' = hist /\ pc' = "edit" /\ ed' = g /\ newline' = newline /\ esc' = <<>>
        /\ clip' = Mem(e.cmd, from, i)
    BY DEF Cut, Press
  <1>2. Mem(e.cmd, from, i) \in Seq(Chars) /\ Len(Mem(e.cmd, from, i)) = i
    BY PieceFact
  <1>3. e \in Editors /\ e.n + e.m <= CMDSZ
    BY DEF Good
  <1>4. e.n \in Nat /\ e.m \in Nat /\ CMDSZ \in Nat
    BY <1>3, EditorFact
  <1>5. i <= CMDSZ
    BY <1>3, <1>4
  <1>6. clip' \in Seq(Chars) /\ Len(clip') <= CMDSZ
    BY <1>1, <1>2, <1>5
  <1>7. Good(ed') /\ ed'.hp = hist.he
    BY <1>1
  <1>8. Keeps(ed, ed')
    BY <1>7 DEF Keeps
  <1>9. QED
    BY <1>1, <1>6, <1>7, <1>8, EditStep

(* Every control key keeps the invariant.                                  *)
LEMMA ControlStep ==
  ASSUME LineInv, ControlKey
  PROVE  LineInv' /\ Draft
  <1>1. pc = "edit"
    BY DEF ControlKey, SOH, STX, ETX, EOT, ENQ, ACK, BS, VT, FF, CR, LF, NAK, ETB, EM, ESC, OtherControl,
           EditKey, Idle, Cut, Press
  <1>2. /\ Good(ed) /\ (newline => ed.hp = hist.he) /\ hist \in Histories
        /\ clip \in Seq(Chars) /\ Len(clip) <= CMDSZ /\ (newline => esc = <<>>)
    BY <1>1 DEF LineInv
  <1> DEFINE f == histentcmd(ed)
  <1>3. Good(f) /\ f.hp = hist.he /\ f.n = ed.n /\ f.m = ed.m
    BY <1>2, HistFact
  <1>4. f \in Editors /\ ed \in Editors
    BY <1>2, <1>3 DEF Good
  <1>5. f.n \in Nat /\ f.m \in Nat
    BY <1>4, EditorFact
  <1>6. \A g : g.hp = hist.he => Keeps(ed, g)
    BY DEF Keeps
  <1>7. ASSUME NEW c, Idle(c) PROVE LineInv' /\ Draft
    <2>1. EditKey(c, ed) /\ Keeps(ed, ed)
      BY <1>7 DEF Idle, Keeps
    <2>2. QED
      BY <1>1, <1>2, <2>1, EditKeyStep
  <1>8. CASE SOH \/ STX \/ ENQ \/ ACK
    <2>1. /\ Good(ToStart(ed)) /\ Keeps(ed, ToStart(ed)) /\ Good(ToEnd(ed)) /\ Keeps(ed, ToEnd(ed))
          /\ Good(Left(ed)) /\ Keeps(ed, Left(ed)) /\ Good(Right(ed)) /\ Keeps(ed, Right(ed))
      BY <1>2, CursorKeys
    <2>2. /\ ToStart(ed).hp = ed.hp /\ ToEnd(ed).hp = ed.hp /\ Left(ed).hp = ed.hp /\ Right(ed).hp = ed.hp
      BY <1>2, PlaceFact
    <2>3. CASE SOH
      BY <1>1, <2>1, <2>2, <2>3, EditKeyStep DEF SOH
    <2>4. CASE STX
      BY <1>1, <2>1, <2>2, <2>4, EditKeyStep DEF STX
    <2>5. CASE ENQ
      BY <1>1, <2>1, <2>2, <2>5, EditKeyStep DEF ENQ
    <2>6. CASE ACK
      BY <1>1, <2>1, <2>2, <2>6, EditKeyStep DEF ACK
    <2>7. QED
      BY <1>8, <2>3, <2>4, <2>5, <2>6
  <1>9. CASE BS
    <2>1. EditKey("BS", Backspace(ed))
      BY <1>9 DEF BS
    <2>2. CASE ed.n = 0
      <3>1. Backspace(ed) = ed
        BY <2>2 DEF Backspace
      <3>2. Idle("BS")
        BY <2>1, <3>1 DEF Idle
      <3>3. QED
        BY <1>7, <3>2
    <2>3. CASE ed.n # 0
      <3>1. Good(Backspace(ed)) /\ Backspace(ed).hp = hist.he
        BY <1>2, <2>3, BackspaceFact
      <3>2. Keeps(ed, Backspace(ed))
        BY <1>6, <3>1
      <3>3. QED
        BY <1>1, <2>1, <3>1, <3>2, EditKeyStep
    <2>4. QED
      BY <2>2, <2>3
  <1>10. CASE FF
    <2> DEFINE g == [ed EXCEPT !.scr = Move(Write(Blank, LineOf(ed)), -ed.m)]
    <2>1. EditKey("FF", g)
      BY <1>10 DEF FF
    <2>2. Good(g) /\ Keeps(ed, g)
      BY <1>2, RedrawFact
    <2>3. g.hp = ed.hp
      BY <1>2, PlaceFact
    <2> HIDE DEF g
    <2>4. QED
      BY <1>1, <2>1, <2>2, <2>3, EditKeyStep
  <1>11. CASE EOT
    <2>1. CASE ed.n + ed.m # 0 /\ EditKey("EOT", Delete(ed))
      <3>1. CASE ed.m = 0
        <4>1. Delete(ed) = ed
          BY <3>1 DEF Delete
        <4>2. Idle("EOT")
          BY <2>1, <4>1 DEF Idle
        <4>3. QED
          BY <1>7, <4>2
      <3>2. CASE ed.m # 0
        <4>1. Good(Delete(ed)) /\ Delete(ed).hp = hist.he
          BY <1>2, <3>2, DeleteFact
        <4>2. Keeps(ed, Delete(ed))
          BY <1>6, <4>1
        <4>3. QED
          BY <1>1, <2>1, <4>1, <4>2, EditKeyStep
      <3>3. QED
        BY <3>1, <3>2
    <2>2. CASE Press("EOT") /\ pc' = "exit" /\ UNCHANGED <<ed, clip, newline>>
      <3>1. hist' = hist /\ ed' = ed /\ clip' = clip /\ esc' = <<>> /\ pc' \in {"exit", "error"}
        BY <2>2 DEF Press
      <3>2. QED
        BY <3>1, LeaveStep
    <2>3. QED
      BY <1>11, <2>1, <2>2 DEF EOT
  <1>12. CASE ETX
    BY <1>1, <1>12, ETXStep
  <1>13. CASE CR
    <2>1. Return(f) /\ hist' = hist /\ clip' = clip /\ esc' = <<>>
      BY <1>13 DEF CR, Press
    <2> HIDE DEF f
    <2>2. QED
      BY <1>3, <2>1, ReturnStep
  <1>14. CASE LF
    <2>1. /\ hist' = hist /\ clip' = clip /\ esc' = <<>>
          /\ (newline => Return(ed)) /\ (~newline => Return(f))
      BY <1>14 DEF LF, Press
    <2> HIDE DEF f
    <2>2. CASE newline
      BY <1>2, <2>1, <2>2, ReturnStep
    <2>3. CASE ~newline
      BY <1>3, <2>1, <2>3, ReturnStep
    <2>4. QED
      BY <2>2, <2>3
  <1>15. CASE VT
    <2>1. CASE ed.m > 0 /\ Cut("VT", f, f.n, f.m, CutAfter(f, f.m))
      <3> HIDE DEF f
      <3>1. f.m \in 0 .. f.m /\ f.n + f.m <= f.n + f.m
        BY <1>5
      <3>2. Good(CutAfter(f, f.m)) /\ CutAfter(f, f.m).hp = hist.he
        BY <1>2, <1>3, <3>1, CutAfterFact
      <3>3. QED
        BY <1>1, <1>3, <1>5, <2>1, <3>1, <3>2, CutStep
    <2>2. QED
      BY <1>7, <1>15, <2>1 DEF VT
  <1>16. CASE NAK
    <2>1. CASE ed.n > 0 /\ Cut("NAK", f, 0, f.n, CutBefore(f, f.n))
      <3> HIDE DEF f
      <3>1. f.n \in 0 .. f.n /\ 0 \in Nat /\ 0 + f.n <= f.n + f.m
        BY <1>5
      <3>2. Good(CutBefore(f, f.n)) /\ CutBefore(f, f.n).hp = hist.he
        BY <1>2, <1>3, <3>1, CutBeforeFact
      <3>3. QED
        BY <1>1, <1>3, <1>5, <2>1, <3>1, <3>2, CutStep
    <2>2. QED
      BY <1>7, <1>16, <2>1 DEF NAK
  <1>17. CASE ETB
    <2> DEFINE i == WordBefore(f, isgraph)
    <2>1. CASE ed.n > 0 /\ Cut("ETB", f, f.n - i, i, CutBefore(f, i))
      <3> HIDE DEF f
      <3>1. i \in 0 .. f.n
        BY <1>3, WordFact
      <3> HIDE DEF i
      <3>2. i \in Nat /\ f.n - i \in Nat /\ (f.n - i) + i <= f.n + f.m
        BY <1>5, <3>1
      <3>3. Good(CutBefore(f, i)) /\ CutBefore(f, i).hp = hist.he
        BY <1>2, <1>3, <3>1, CutBeforeFact
      <3> DEFINE from == f.n - i
      <3>4. from \in Nat /\ from + i <= f.n + f.m /\ Cut("ETB", f, from, i, CutBefore(f, i))
        BY <2>1, <3>2
      <3> HIDE DEF from
      <3>5. QED
        BY <1>1, <1>3, <3>2, <3>3, <3>4, CutStep
    <2>2. QED
      BY <1>7, <1>17, <2>1 DEF ETB
  <1>18. CASE EM
    <2> DEFINE s == Fitting(ed, clip)
    <2>1. Press("EM") /\ ed' = (IF s = <<>> THEN ed ELSE Insert(ed, s)) /\ UNCHANGED <<clip, newline, pc>>
      BY <1>18 DEF EM
    <2>2. s \in Seq(Chars) /\ ed.n + ed.m + Len(s) <= CMDSZ
      BY <1>2, FittingFact
    <2> HIDE DEF s
    <2>3. Good(Insert(ed, s)) /\ Insert(ed, s).hp = hist.he
      BY <1>2, <2>2, InsertFact
    <2>4. EditKey("EM", ed') /\ Good(ed') /\ (ed'.hp = hist.he \/ ed' = ed)
      BY <1>2, <2>1, <2>3 DEF EditKey
    <2>5. Keeps(ed, ed') /\ (ed'.hp = hist.he \/ ed'.hp = ed.hp)
      BY <1>6, <2>4 DEF Keeps
    <2>6. QED
      BY <1>1, <2>4, <2>5, EditKeyStep
  <1>19. CASE ESC \/ OtherControl
    <2>1. /\ hist' = hist /\ pc' = "edit" /\ ed' = ed /\ clip' = clip /\ newline' = FALSE
      BY <1>1, <1>19 DEF ESC, OtherControl, Press
    <2>2. Good(ed') /\ Keeps(ed, ed') /\ clip' \in Seq(Chars) /\ Len(clip') <= CMDSZ
      BY <1>2, <2>1 DEF Keeps
    <2>3. QED
      BY <2>1, <2>2, EditStep
  <1>20. QED
    BY <1>8, <1>9, <1>10, <1>11, <1>12, <1>13, <1>14, <1>15, <1>16, <1>17, <1>18, <1>19 DEF ControlKey

(* A character is typed.                                                   *)
LEMMA TypeStep ==
  ASSUME LineInv, NEW c \in Text, Type(c)
  PROVE  LineInv' /\ Draft
  <1>1. /\ pc = "edit" /\ esc = <<>> /\ hist' = hist /\ esc' = esc /\ clip' = clip
        /\ newline' = newline /\ pc' = pc
        /\ ed' = IF ed.n + ed.m >= CMDSZ THEN ed ELSE Insert(ed, <<c>>)
    BY DEF Type
  <1>2. /\ Good(ed) /\ (newline => ed.hp = hist.he) /\ hist \in Histories
        /\ clip \in Seq(Chars) /\ Len(clip) <= CMDSZ
    BY <1>1 DEF LineInv
  <1>3. ed \in Editors
    BY <1>2 DEF Good
  <1>4. ed.n \in Nat /\ ed.m \in Nat /\ CMDSZ \in Nat
    BY <1>3, EditorFact
  <1>5. c \in Chars
    BY DEF Chars
  <1>6. <<c>> \in Seq(Chars) /\ Len(<<c>>) = 1
    BY <1>5
  <1>7. CASE ed.n + ed.m >= CMDSZ
    <2>1. ed' = ed
      BY <1>1, <1>7
    <2>2. Good(ed') /\ Keeps(ed, ed') /\ (newline' => esc' = <<>> /\ ed'.hp = hist.he)
      BY <1>1, <1>2, <2>1 DEF Keeps
    <2>3. QED
      BY <1>1, <1>2, <2>2, EditStep
  <1>8. CASE ~(ed.n + ed.m >= CMDSZ)
    <2>1. ed.n + ed.m + Len(<<c>>) <= CMDSZ
      BY <1>4, <1>6, <1>8
    <2>2. Good(Insert(ed, <<c>>)) /\ Insert(ed, <<c>>).hp = hist.he
      BY <1>2, <1>6, <2>1, InsertFact
    <2>3. ed' = Insert(ed, <<c>>)
      BY <1>1, <1>8
    <2>4. Good(ed') /\ ed'.hp = hist.he
      BY <2>2, <2>3
    <2>5. Keeps(ed, ed') /\ (newline' => esc' = <<>> /\ ed'.hp = hist.he)
      BY <1>1, <2>4 DEF Keeps
    <2>6. QED
      BY <1>1, <1>2, <2>4, <2>5, EditStep
  <1>9. QED
    BY <1>7, <1>8

(* A character of a sequence, and the key it may complete.                 *)
LEMMA SeqStep ==
  ASSUME LineInv, NEW c, SeqChar(c)
  PROVE  LineInv' /\ Draft
  <1> DEFINE d == keyCode(Append(esc, c))
             e == histentcmd(ed)
             s == Mem(e.cmd, e.n, WordAfter(e))
  <1>1. /\ pc = "edit" /\ esc # <<>> /\ hist' = hist /\ newline' = newline /\ pc' = pc
        /\ ed' = KeyEdit(d.k, ed)
        /\ clip' = IF d.k = "altD" /\ ed.m > 0 THEN s ELSE clip
    BY DEF SeqChar
  <1> HIDE DEF d
  <1>2. /\ Good(ed) /\ hist \in Histories /\ (newline => esc = <<>>)
        /\ clip \in Seq(Chars) /\ Len(clip) <= CMDSZ
    BY <1>1 DEF LineInv
  <1>3. ~newline'
    BY <1>1, <1>2
  <1>4. Good(ed') /\ Keeps(ed, ed')
    BY <1>1, <1>2, KeyFact
  <1>5. Good(e) /\ e.hp = hist.he
    BY <1>2, HistFact
  <1> HIDE DEF e
  <1>6. e \in Editors /\ e.n + e.m <= CMDSZ
    BY <1>5 DEF Good
  <1>7. e.n \in Nat /\ e.m \in Nat /\ CMDSZ \in Nat
    BY <1>6, EditorFact
  <1>8. WordAfter(e) \in 0 .. e.m
    BY <1>5, WordFact
  <1>9. s \in Seq(Chars) /\ Len(s) <= CMDSZ
    <2> DEFINE k == WordAfter(e)
    <2>1. k \in Nat /\ e.n + k <= e.n + e.m /\ k <= CMDSZ
      BY <1>6, <1>7, <1>8
    <2> HIDE DEF k
    <2>2. Mem(e.cmd, e.n, k) \in Seq(Chars) /\ Len(Mem(e.cmd, e.n, k)) = k
      BY <1>5, <1>7, <2>1, PieceFact
    <2>3. QED
      BY <2>1, <2>2 DEF k
  <1> HIDE DEF s
  <1>10. clip' \in Seq(Chars) /\ Len(clip') <= CMDSZ
    BY <1>1, <1>2, <1>9
  <1>11. QED
    BY <1>1, <1>3, <1>4, <1>10, EditStep

(* The tabulator: nothing, a list of names, a completion or a failure.     *)
LEMMA TabStep ==
  ASSUME LineInv, TABnothing \/ TABlist \/ TABfails \/ \E rest \in Completions : TABcomplete(rest)
  PROVE  LineInv' /\ Draft
  <1>1. pc = "edit"
    BY DEF TABnothing, TABlist, TABfails, TABcomplete, EditKey, Idle, Press
  <1>2. Good(ed) /\ hist \in Histories
    BY <1>1 DEF LineInv
  <1>3. CASE TABnothing
    <2>1. EditKey("TAB", ed) /\ Keeps(ed, ed)
      BY <1>3 DEF TABnothing, Idle, Keeps
    <2>2. QED
      BY <1>1, <1>2, <2>1, EditKeyStep
  <1>4. CASE TABlist
    <2> DEFINE g == [ed EXCEPT !.scr = Move(Write(Blank, LineOf(ed)), -ed.m)]
    <2>1. EditKey("TAB", g)
      BY <1>4 DEF TABlist
    <2>2. Good(g) /\ Keeps(ed, g)
      BY <1>2, RedrawFact
    <2>3. g.hp = ed.hp
      BY <1>2, PlaceFact
    <2> HIDE DEF g
    <2>4. QED
      BY <1>1, <2>1, <2>2, <2>3, EditKeyStep
  <1>5. CASE TABfails
    <2>1. hist' = hist /\ ed' = ed /\ clip' = clip /\ esc' = <<>> /\ pc' \in {"exit", "error"}
      BY <1>5 DEF TABfails, Press
    <2>2. QED
      BY <2>1, LeaveStep
  <1>6. ASSUME NEW rest \in Completions, TABcomplete(rest) PROVE LineInv' /\ Draft
    <2> DEFINE s == Fitting(ed, rest)
    <2>1. EditKey("TAB", Insert(ed, s))
      BY <1>6 DEF TABcomplete, EditKey
    <2>2. rest \in Seq(Chars)
      BY LineAssumption
    <2>3. s \in Seq(Chars) /\ ed.n + ed.m + Len(s) <= CMDSZ
      BY <1>2, <2>2, FittingFact
    <2> HIDE DEF s
    <2>4. Good(Insert(ed, s)) /\ Insert(ed, s).hp = hist.he
      BY <1>2, <2>3, InsertFact
    <2>5. Keeps(ed, Insert(ed, s))
      BY <2>4 DEF Keeps
    <2>6. QED
      BY <1>1, <2>1, <2>4, <2>5, EditKeyStep
  <1>7. QED
    BY <1>3, <1>4, <1>5, <1>6

(* The invariant holds at the start.                                       *)
LEMMA LineInit == Init => LineInv
  <1> SUFFICES ASSUME Init PROVE LineInv
    OBVIOUS
  <1>1. Good(ed) /\ ed.hp = hist.he /\ hist \in Histories /\ clip = <<>> /\ newline = FALSE /\ pc = "edit"
    BY FreshFact DEF Init
  <1>2. ed \in Editors /\ ed.n + ed.m <= CMDSZ
    BY <1>1 DEF Good
  <1>3. ed.ln \in Size /\ CMDSZ \in Nat
    BY <1>2, EditorFact
  <1>4. clip \in Seq(Chars) /\ Len(clip) <= CMDSZ
    BY <1>1, <1>3
  <1>5. LineFits /\ RunsWhatWasShown
    BY <1>1, <1>2, <1>3, <1>4 DEF LineFits, RunsWhatWasShown, Size
  <1>6. QED
    BY <1>1, <1>4, <1>5 DEF LineInv

(* ... and every step keeps it, and the line typed with it.                *)
LEMMA LineStep == LineInv /\ [Next]_lineVars => LineInv' /\ [Draft]_lineVars
  <1> SUFFICES ASSUME LineInv, [Next]_lineVars PROVE LineInv' /\ [Draft]_lineVars
    OBVIOUS
  <1>1. CASE ControlKey
    BY <1>1, ControlStep
  <1>2. CASE TABnothing \/ TABlist \/ TABfails \/ \E rest \in Completions : TABcomplete(rest)
    BY <1>2, TabStep
  <1>3. ASSUME NEW c \in Text, Type(c) PROVE LineInv' /\ Draft
    BY <1>3, TypeStep
  <1>4. ASSUME NEW c \in Text \cup EscBytes, SeqChar(c) PROVE LineInv' /\ Draft
    BY <1>4, SeqStep
  <1>5. CASE ReadAgain
    BY <1>5, AgainStep
  <1>6. CASE UNCHANGED lineVars
    BY <1>6 DEF lineVars, LineInv, Good, LineOf, Entry, Back, LineFits, RunsWhatWasShown, Shows
  <1>7. QED
    BY <1>1, <1>2, <1>3, <1>4, <1>5, <1>6 DEF Next

(* What psh_readcmd keeps between two keys: the parts of the line fit its  *)
(* buffer, the line is text and the terminal shows it with the cursor in   *)
(* place, whatever is browsed, cut, pasted or completed.                   *)
THEOREM LineInvariant == Spec => []LineInv
  <1>1. QED
    BY LineInit, LineStep, PTL DEF Spec

(* No key, completion or paste lets the line outgrow the buffer of         *)
(* psh_readcmd, or a cut the clipboard, for any size of either.            *)
THEOREM LineNeverOverflows == Spec => []LineFits
  <1>1. LineInv => LineFits
    BY DEF LineInv
  <1>2. QED
    BY <1>1, LineInvariant, PTL

(* After every key the terminal shows the line, although psh_readcmd only  *)
(* sends it the difference.                                                *)
THEOREM TerminalShowsLine == Spec => []ScreenShowsLine
  <1>1. LineInv => ScreenShowsLine
    <2> SUFFICES ASSUME LineInv, pc = "edit" PROVE Shows(LineOf(ed)) /\ ed.scr.cur = ed.n
      BY DEF ScreenShowsLine
    <2> DEFINE s == LineOf(ed)
    <2>1. ed \in Editors /\ s \in Seq(Chars) /\ Shown(ed.scr.text, s) /\ ed.scr.cur = ed.n
      BY DEF LineInv, Good
    <2>2. ed.scr.text \in Seq(Bytes)
      BY <2>1, EditorFact
    <2> HIDE DEF s
    <2>3. s \in Seq(Bytes)
      BY <2>1, CharFact
    <2>4. /\ Len(ed.scr.text) >= Len(s) /\ SubSeq(ed.scr.text, 1, Len(s)) = s
          /\ \A i \in Len(s) + 1 .. Len(ed.scr.text) : ed.scr.text[i] = SP
      BY <2>1, <2>2, <2>3, ShownFact
    <2>5. Shows(s)
      BY <2>4 DEF Shows
    <2>6. QED
      BY <2>1, <2>5 DEF s
  <1>2. QED
    BY <1>1, LineInvariant, PTL

(* The command psh_readcmd returns is the one the terminal showed, made of *)
(* characters only.                                                        *)
THEOREM ReturnsWhatWasShown == Spec => []RunsWhatWasShown
  <1>1. LineInv => RunsWhatWasShown
    BY DEF LineInv
  <1>2. QED
    BY <1>1, LineInvariant, PTL

(* Browsing the history never changes the line typed before it.            *)
THEOREM DraftIsKept == Spec => BrowsingKeepsDraft
  <1>1. LineInv /\ [Next]_lineVars =>
          [pc' = "edit" /\ ed'.hp # hist'.he =>
             /\ ed'.cmd = ed.cmd
             /\ ed'.ln = IF ed.hp = hist.he THEN ed.n + ed.m ELSE ed.ln]_lineVars
    BY LineStep DEF Draft
  <1>2. QED
    BY <1>1, LineInvariant, PTL DEF Spec, BrowsingKeepsDraft

-----------------------------------------------------------------------------
(* Formatting, for every number an int can be, every exponent and every    *)
(* width of the terminal.                                                  *)
(*                                                                         *)
(* Powers: psh_pow is the solution of its recursion, so it multiplies.     *)
PowersOf(f, b, n) == f[0] = 1 /\ \A i \in 1 .. n : f[i] = b * f[i - 1]

(* Any table of powers gives what psh_pow returns.                         *)
LEMMA PowIs ==
  ASSUME NEW b \in Nat, NEW n \in Nat
  PROVE  /\ \E f \in [0 .. n -> Nat] : PowersOf(f, b, n)
         /\ \A q : PowersOf(q, b, n) => psh_pow(b, n) = q[n]
  <1> DEFINE Is(f) == f = [k \in 0 .. n |-> IF k = 0 THEN 1 ELSE b * f[k - 1]]
             pow == CHOOSE f : Is(f)
             g == [p \in (1 .. n) \X Nat |-> b * p[2]]
  <1>1. StepsIn(g, n, Nat) /\ 1 \in Nat
    BY DEF StepsIn
  <1> HIDE DEF g
  <1>2. PICK f \in [0 .. n -> Nat] : Recursive(f, g, n, 1)
    BY <1>1, Recursion
  <1>3. f[0] = 1 /\ \A i \in 1 .. n : f[i] = b * f[i - 1]
    <2>1. ASSUME NEW i \in 1 .. n  PROVE f[i] = b * f[i - 1]
      <3>1. f[i] = g[<<i, f[i - 1]>>] /\ f[i - 1] \in Nat
        BY <1>2 DEF Recursive
      <3>2. QED
        BY <3>1 DEF g
    <2>2. QED
      BY <1>2, <2>1 DEF Recursive
  <1>4. Is(f)
    BY <1>3
  <1>5. Is(pow)
    BY <1>4
  <1>6. psh_pow(b, n) = pow[n]
    BY DEF psh_pow
  <1> HIDE DEF pow
  <1>7. ASSUME NEW q, PowersOf(q, b, n)  PROVE pow[n] = q[n]
    <2> DEFINE T == {k \in Nat : k <= n => pow[k] = q[k]}
    <2>1. 0 \in T
      BY <1>5, <1>7 DEF PowersOf
    <2>2. ASSUME NEW k \in Nat, k \in T  PROVE k + 1 \in T
      <3>1. SUFFICES ASSUME k + 1 <= n  PROVE pow[k + 1] = q[k + 1]
        OBVIOUS
      <3>2. k + 1 \in 0 .. n /\ k + 1 # 0 /\ (k + 1) - 1 = k /\ k + 1 \in 1 .. n
        BY <3>1
      <3>3. pow[k + 1] = b * pow[k] /\ q[k + 1] = b * q[k]
        BY <1>5, <1>7, <3>2 DEF PowersOf
      <3>4. QED
        BY <2>2, <3>1, <3>3
    <2> HIDE DEF T
    <2>3. n \in T
      BY <2>1, <2>2, SetInduction
    <2>4. QED
      BY <2>3 DEF T
  <1>8. QED
    BY <1>3, <1>6, <1>7 DEF PowersOf

(* One power is the one before times the base.                             *)
LEMMA PowStep ==
  ASSUME NEW b \in Nat \ {0}, NEW n \in Nat
  PROVE  psh_pow(b, 0) = 1 /\ psh_pow(b, n) \in Nat /\ psh_pow(b, n + 1) = b * psh_pow(b, n)
  <1> PICK m \in Nat : m = n + 1
    OBVIOUS
  <1>1. PICK f \in [0 .. m -> Nat] : PowersOf(f, b, m)
    BY PowIs
  <1>2. PowersOf(f, b, n) /\ PowersOf(f, b, 0)
    BY <1>1 DEF PowersOf
  <1>3. psh_pow(b, m) = f[m] /\ psh_pow(b, n) = f[n] /\ psh_pow(b, 0) = f[0]
    <2>1. psh_pow(b, m) = f[m]
      BY <1>1, PowIs
    <2>2. psh_pow(b, n) = f[n]
      BY <1>2, PowIs
    <2>3. 0 \in Nat
      OBVIOUS
    <2>4. psh_pow(b, 0) = f[0]
      BY <1>2, <2>3, PowIs
    <2>5. QED
      BY <2>1, <2>2, <2>4
  <1>4. f[n + 1] = b * f[n] /\ f[n] \in Nat /\ f[0] = 1
    <2>1. n + 1 \in 1 .. n + 1 /\ (n + 1) - 1 = n /\ n \in 0 .. n + 1
      OBVIOUS
    <2>2. QED
      BY <1>1, <2>1 DEF PowersOf
  <1>5. QED
    BY <1>3, <1>4

(* Powers are positive, and those of a base of two or more no smaller than *)
(* those of two.                                                           *)
LEMMA PowPositive ==
  ASSUME NEW b \in Nat, b >= 2, NEW n \in Nat
  PROVE  psh_pow(b, n) \in Nat \ {0} /\ psh_pow(2, n) \in Nat \ {0} /\ psh_pow(2, n) <= psh_pow(b, n)
  <1> DEFINE T == {k \in Nat : psh_pow(b, k) \in Nat \ {0} /\ psh_pow(2, k) \in Nat \ {0} /\ psh_pow(2, k) <= psh_pow(b, k)}
  <1>1. b \in Nat \ {0} /\ 2 \in Nat \ {0} /\ 0 \in Nat
    OBVIOUS
  <1>2. 0 \in T
    <2>1. psh_pow(b, 0) = 1 /\ psh_pow(2, 0) = 1
      BY <1>1, PowStep
    <2>2. QED
      BY <2>1
  <1>3. ASSUME NEW k \in Nat, k \in T  PROVE k + 1 \in T
    <2>1. psh_pow(b, k + 1) = b * psh_pow(b, k) /\ psh_pow(2, k + 1) = 2 * psh_pow(2, k)
      BY <1>1, PowStep
    <2>2. PICK p \in Nat \ {0}, t \in Nat \ {0} : p = psh_pow(b, k) /\ t = psh_pow(2, k) /\ t <= p
      BY <1>3
    <2>3. PICK d \in Nat : b = 2 + d
      <3>1. b - 2 \in Nat /\ b = 2 + (b - 2)
        OBVIOUS
      <3>2. QED
        BY <3>1
    <2>4. b * p = 2 * p + d * p /\ d * p \in Nat
      BY <2>3
    <2>5. b * p \in Nat \ {0} /\ 2 * t \in Nat \ {0} /\ 2 * t <= b * p
      BY <2>2, <2>4
    <2>6. QED
      BY <2>1, <2>2, <2>5
  <1> HIDE DEF T
  <1>4. n \in T
    BY <1>2, <1>3, SetInduction
  <1>5. QED
    BY <1>4 DEF T

(* Exponents add.                                                          *)
LEMMA PowPlus ==
  ASSUME NEW b \in Nat, b >= 2, NEW m \in Nat, NEW n \in Nat
  PROVE  psh_pow(b, m + n) = psh_pow(b, m) * psh_pow(b, n)
  <1>1. PICK p \in Nat : p = psh_pow(b, m)
    BY PowPositive
  <1> DEFINE T == {k \in Nat : psh_pow(b, m + k) = p * psh_pow(b, k)}
  <1>2. b \in Nat \ {0} /\ 0 \in Nat
    OBVIOUS
  <1>3. 0 \in T
    <2>1. psh_pow(b, 0) = 1 /\ m + 0 = m /\ p * 1 = p
      BY <1>2, PowStep
    <2>2. QED
      BY <1>1, <2>1
  <1>4. ASSUME NEW k \in Nat, k \in T  PROVE k + 1 \in T
    <2>1. PICK q \in Nat : q = psh_pow(b, k)
      BY PowPositive
    <2>2. psh_pow(b, k + 1) = b * q
      BY <1>2, <2>1, PowStep
    <2>3. PICK j \in Nat : j = m + k /\ m + (k + 1) = j + 1
      OBVIOUS
    <2>4. psh_pow(b, j + 1) = b * psh_pow(b, j)
      BY <1>2, PowStep
    <2>5. psh_pow(b, j) = p * q
      BY <1>4, <2>1, <2>3
    <2>6. b * (p * q) = p * (b * q)
      OBVIOUS
    <2>7. psh_pow(b, m + (k + 1)) = p * psh_pow(b, k + 1)
      BY <2>2, <2>3, <2>4, <2>5, <2>6
    <2>8. QED
      BY <2>7
  <1> HIDE DEF T
  <1>5. n \in T
    BY <1>3, <1>4, SetInduction
  <1>6. QED
    BY <1>1, <1>5 DEF T

(* Larger exponents, larger powers.                                        *)
LEMMA PowGrows ==
  ASSUME NEW b \in Nat, b >= 2, NEW m \in Nat, NEW n \in Nat, m <= n
  PROVE  psh_pow(b, m) <= psh_pow(b, n)
  <1>1. PICK d \in Nat : n = m + d
    <2>1. n - m \in Nat /\ n = m + (n - m)
      OBVIOUS
    <2>2. QED
      BY <2>1
  <1>2. PICK p \in Nat \ {0}, q \in Nat \ {0} : p = psh_pow(b, m) /\ q = psh_pow(b, d)
    BY PowPositive
  <1>3. psh_pow(b, n) = p * q
    BY <1>1, <1>2, PowPlus
  <1>4. PICK e \in Nat : q = 1 + e
    <2>1. q - 1 \in Nat /\ q = 1 + (q - 1)
      OBVIOUS
    <2>2. QED
      BY <2>1
  <1>5. p * q = p + p * e /\ p * e \in Nat
    BY <1>4
  <1>6. QED
    BY <1>2, <1>3, <1>5

(* psh_log finds the leading digit of every int.                           *)
LEMMA LogFact ==
  ASSUME NEW b \in Nat, b >= 2, NEW x \in Nat \ {0}, x \div 2 < psh_pow(2, 30)
  PROVE  psh_log(b, x) \in Nat /\ psh_pow(b, psh_log(b, x)) <= x /\ x < psh_pow(b, psh_log(b, x) + 1)
  <1>1. x < psh_pow(b, 31)
    <2>1. 30 \in Nat /\ 31 = 30 + 1 /\ 31 \in Nat /\ 2 \in Nat \ {0}
      OBVIOUS
    <2>2. PICK t \in Nat, u \in Nat, p \in Nat : t = psh_pow(2, 30) /\ u = psh_pow(2, 31) /\ p = psh_pow(b, 31) /\ u <= p
      BY <2>1, PowPositive
    <2>3. u = 2 * t
      BY <2>1, <2>2, PowStep
    <2>4. x < 2 * t
      BY <2>2
    <2>5. QED
      BY <2>2, <2>3, <2>4
  <1> DEFINE T == {n \in Nat : x < psh_pow(b, n + 1)}
  <1>2. T \subseteq Nat /\ 30 \in T
    <2>1. 30 + 1 = 31 /\ 30 \in Nat
      OBVIOUS
    <2>2. QED
      BY <1>1, <2>1
  <1>3. PICK n \in T : \A m \in T : n <= m
    BY <1>2, MinFact
  <1>4. n \in 0 .. 31
    BY <1>2, <1>3
  <1>5. psh_pow(b, n) <= x
    <2>1. CASE n = 0
      <3>1. b \in Nat \ {0} /\ 0 \in Nat
        OBVIOUS
      <3>2. psh_pow(b, n) = 1
        BY <2>1, <3>1, PowStep
      <3>3. QED
        BY <3>2
    <2>2. CASE n # 0
      <3>1. n - 1 \in Nat /\ (n - 1) + 1 = n /\ ~ (n <= n - 1)
        BY <1>4, <2>2
      <3>2. n - 1 \notin T
        BY <1>3, <3>1
      <3>3. ~ (x < psh_pow(b, n)) /\ psh_pow(b, n) \in Nat
        BY <3>1, <3>2, <1>4, PowPositive
      <3>4. QED
        BY <3>3
    <2>3. QED
      BY <2>1, <2>2
  <1>6. \E k \in 0 .. 31 : psh_pow(b, k) <= x /\ x < psh_pow(b, k + 1)
    BY <1>3, <1>4, <1>5
  <1>7. psh_log(b, x) = CHOOSE k \in 0 .. 31 : psh_pow(b, k) <= x /\ x < psh_pow(b, k + 1)
    BY DEF psh_log
  <1>8. PICK l : l = psh_log(b, x) /\ l \in 0 .. 31 /\ psh_pow(b, l) <= x /\ x < psh_pow(b, l + 1)
    BY <1>6, <1>7
  <1>9. QED
    BY <1>8

(* The fraction is cut one digit further than asked for, and rounded: what *)
(* is shown is off by no more than half of the last digit.                 *)
LEMMA RoundedFraction ==
  ASSUME NEW D \in Nat \ {0}, NEW f \in 0 .. D - 1, NEW P \in Nat \ {0}, NEW cut, NEW fp,
         cut = ((10 * P) * f) \div D, fp = (cut + 5) \div 10
  PROVE  fp \in 0 .. P /\ 2 * (fp * D - f * P) <= D /\ - D <= 2 * (fp * D - f * P)
  <1>1. PICK N \in Nat, F \in Nat : N = (10 * P) * f /\ F = f * P /\ N = 10 * F
    OBVIOUS
  <1>2. PICK t \in 0 .. D - 1 : cut \in Nat /\ N = D * cut + t
    <2>1. N \div D \in Nat /\ N % D \in 0 .. D - 1 /\ N = D * (N \div D) + (N % D)
      OBVIOUS
    <2>2. QED
      BY <1>1, <2>1
  <1>3. PICK u \in 0 .. 9 : fp \in Nat /\ cut + 5 = 10 * fp + u
    <2>1. PICK z \in Nat : z = cut + 5
      BY <1>2
    <2>2. z \div 10 \in Nat /\ z % 10 \in 0 .. 9 /\ z = 10 * (z \div 10) + (z % 10)
      OBVIOUS
    <2>3. QED
      BY <2>1, <2>2
  <1>4. PICK A \in Nat, w \in Nat : A = fp * D /\ w = D * u
    BY <1>3
  <1>5. D * cut = 10 * A + w - 5 * D
    <2>1. cut = 10 * fp + u - 5
      BY <1>2, <1>3
    <2>2. D * (10 * fp + u - 5) = 10 * (fp * D) + D * u - 5 * D
      BY <1>3
    <2>3. QED
      BY <1>4, <2>1, <2>2
  <1>6. w <= 9 * D
    <2>1. PICK v \in Nat : u + v = 9
      <3>1. 9 - u \in Nat /\ u + (9 - u) = 9
        BY <1>3
      <3>2. QED
        BY <3>1
    <2>2. D * u + D * v = 9 * D /\ D * v \in Nat
      <3>1. D * (u + v) = D * u + D * v
        BY <1>3, <2>1
      <3>2. QED
        BY <2>1, <3>1
    <2>3. QED
      BY <1>4, <2>2
  <1>7. 10 * F = 10 * A + w - 5 * D + t
    <2>1. D * cut \in Int
      BY <1>2
    <2>2. QED
      BY <1>1, <1>2, <1>4, <1>5, <2>1
  <1>8. 2 * (A - F) <= D /\ - D <= 2 * (A - F)
    BY <1>6, <1>7
  <1>9. fp <= P
    <2>1. cut < 10 * P
      <3>1. SUFFICES ASSUME cut >= 10 * P  PROVE FALSE
        BY <1>2
      <3>2. PICK d \in Nat : cut = 10 * P + d
        <4>1. cut - 10 * P \in Nat /\ cut = 10 * P + (cut - 10 * P)
          BY <1>2, <3>1
        <4>2. QED
          BY <4>1
      <3>3. D * cut = 10 * (D * P) + D * d /\ D * d \in Nat /\ D * P \in Nat
        BY <3>2
      <3>4. PICK g \in Nat \ {0} : D = f + g
        <4>1. D - f \in Nat \ {0} /\ D = f + (D - f)
          OBVIOUS
        <4>2. QED
          BY <4>1
      <3>5. D * P = F + g * P /\ g * P \in Nat \ {0}
        <4>1. (f + g) * P = f * P + g * P
          OBVIOUS
        <4>2. g * P \in Nat \ {0}
          OBVIOUS
        <4>3. QED
          BY <1>1, <3>4, <4>1, <4>2
      <3>6. QED
        BY <1>1, <1>2, <3>3, <3>5
    <2>2. QED
      BY <1>2, <1>3, <2>1
  <1>10. QED
    BY <1>1, <1>3, <1>4, <1>8, <1>9

(* What PrefixRounds asks of a result.                                     *)
RoundsTo(base, x, y, prec, ip, fp, exp) ==
  LET d == y - exp
      exact == abs(x) * psh_pow(base, IF d > 0 THEN d ELSE 0) * psh_pow(10, prec)
      unit == psh_pow(base, IF d < 0 THEN - d ELSE 0)
      shown == (ip * psh_pow(10, prec) + fp) * unit
  IN /\ 2 * abs(shown - exact) <= unit
     /\ x # 0 => ip \in 1 .. psh_pow(base, PrefixStep(base)) - 1
     /\ fp < psh_pow(10, prec)

(* The exponent that is printed is the multiple of the step at or below.   *)
LEMMA StepDown ==
  ASSUME NEW base \in {2, 10}, NEW e \in Int
  PROVE  /\ PrefixStep(base) \in Nat \ {0} /\ psh_mod(e, PrefixStep(base)) \in 0 .. PrefixStep(base) - 1
         /\ psh_div(e, PrefixStep(base)) * PrefixStep(base) = e - psh_mod(e, PrefixStep(base))
         /\ psh_mod(e + PrefixStep(base), PrefixStep(base)) = psh_mod(e, PrefixStep(base))
  <1>1. CASE base = 2
    <2>1. PrefixStep(base) = 10
      BY <1>1 DEF PrefixStep
    <2>2. (e % 10) \in 0 .. 9 /\ ((e - (e % 10)) \div 10) * 10 = e - (e % 10) /\ ((e + 10) % 10) = (e % 10)
      OBVIOUS
    <2>3. QED
      BY <2>1, <2>2 DEF psh_mod, psh_div
  <1>2. CASE base = 10
    <2>1. PrefixStep(base) = 3
      BY <1>2 DEF PrefixStep
    <2>2. (e % 3) \in 0 .. 2 /\ ((e - (e % 3)) \div 3) * 3 = e - (e % 3) /\ ((e + 3) % 3) = (e % 3)
      OBVIOUS
    <2>3. QED
      BY <2>1, <2>2 DEF psh_mod, psh_div
  <1>3. QED
    BY <1>1, <1>2

(* A number of fewer digits than its prefix asks for is written out.       *)
LEMMA WholeNumber ==
  ASSUME NEW base \in {2, 10}, NEW x \in Int, NEW y \in Int, NEW prec \in Nat, NEW exp \in Int, NEW ip, NEW k \in Nat,
         y - exp = k, ip = abs(x) * psh_pow(base, k), x # 0 => abs(x) * psh_pow(base, k) < psh_pow(base, PrefixStep(base))
  PROVE  RoundsTo(base, x, y, prec, ip, 0, exp)
  <1>1. base \in Nat /\ base >= 2 /\ 10 \in Nat /\ 10 >= 2 /\ abs(x) \in Nat /\ (x # 0 => abs(x) # 0) /\ PrefixStep(base) \in Nat
    BY DEF abs, PrefixStep
  <1>2. PICK P \in Nat \ {0}, K \in Nat \ {0}, M \in Nat \ {0} :
          P = psh_pow(10, prec) /\ K = psh_pow(base, k) /\ M = psh_pow(base, PrefixStep(base))
    BY <1>1, PowPositive
  <1>3. psh_pow(base, 0) = 1
    <2>1. base \in Nat \ {0} /\ 0 \in Nat
      OBVIOUS
    <2>2. QED
      BY <2>1, PowStep
  <1>4. (IF y - exp > 0 THEN y - exp ELSE 0) = k /\ (IF y - exp < 0 THEN - (y - exp) ELSE 0) = 0
    OBVIOUS
  <1>5. PICK a \in Nat : a = abs(x) /\ (x # 0 => a # 0)
    BY <1>1
  <1>6. PICK i \in Nat : i = a * K /\ i = ip
    BY <1>2, <1>5
  <1>7. i * P \in Nat /\ (i * P + 0) * 1 = i * P /\ i * P - i * P = 0
    OBVIOUS
  <1>8. abs(0) = 0
    BY DEF abs
  <1>9. x # 0 => i \in 1 .. M - 1
    <2>1. SUFFICES ASSUME x # 0  PROVE i \in 1 .. M - 1
      OBVIOUS
    <2>2. i < M
      BY <1>2, <1>5, <1>6, <2>1
    <2>3. a \in Nat \ {0} /\ a * K # 0
      BY <1>5, <2>1
    <2>4. QED
      BY <1>6, <2>2, <2>3
  <1>10. 2 * abs((ip * P + 0) * 1 - (a * K) * P) <= 1
    <2>1. (ip * P + 0) * 1 = i * P /\ (a * K) * P = i * P
      BY <1>6, <1>7
    <2>2. (ip * P + 0) * 1 - (a * K) * P = 0
      BY <1>7, <2>1
    <2>3. QED
      BY <1>8, <2>2
  <1>11. psh_pow(base, IF y - exp > 0 THEN y - exp ELSE 0) = K /\ psh_pow(base, IF y - exp < 0 THEN - (y - exp) ELSE 0) = 1
    BY <1>2, <1>3, <1>4
  <1>12. 0 < P
    BY <1>2
  <1>13. x # 0 => ip \in 1 .. M - 1
    BY <1>6, <1>9
  <1>14. QED
    BY <1>2, <1>5, <1>10, <1>11, <1>12, <1>13 DEF RoundsTo

(* The values psh_prefix computes for a number it has to cut.              *)
Cutting(base, x, y, prec, exp, low, S, P, D, M, X, ip, cut, fp) ==
  /\ S = PrefixStep(base) /\ y - exp = - low
  /\ P = psh_pow(10, prec) /\ D = psh_pow(base, low) /\ M = psh_pow(base, S) /\ X = abs(x)
  /\ ip = X \div D /\ cut = ((10 * P) * (X % D)) \div D /\ fp = (cut + 5) \div 10
  /\ D <= X /\ X < D * M

CutRounds(base, x, y, prec, exp, S, P, M, ip, fp) ==
  /\ fp # P => RoundsTo(base, x, y, prec, ip, fp, exp)
  /\ fp = P /\ ip + 1 # M => RoundsTo(base, x, y, prec, ip + 1, 0, exp)
  /\ fp = P /\ ip + 1 = M => RoundsTo(base, x, y, prec, 1, 0, exp + S)
  /\ ip \in Nat \ {0}

(* A number with more digits than its prefix asks for is cut and rounded,  *)
(* and a fraction that is rounded up to one whole carried over.            *)
LEMMA CutNumber ==
  ASSUME NEW base \in {2, 10}, NEW x \in Int, x # 0, NEW y \in Int, NEW prec \in Nat, NEW exp \in Int, NEW low \in Nat,
         NEW P, NEW D, NEW M, NEW X, NEW ip, NEW cut, NEW fp, NEW S,
         Cutting(base, x, y, prec, exp, low, S, P, D, M, X, ip, cut, fp)
  PROVE  CutRounds(base, x, y, prec, exp, S, P, M, ip, fp)
  <1>1. base \in Nat /\ base >= 2 /\ 10 \in Nat /\ 10 >= 2 /\ X \in Nat /\ S \in Nat \ {0}
    BY DEF Cutting, abs, PrefixStep
  <1>2. P \in Nat \ {0} /\ D \in Nat \ {0} /\ M \in Nat \ {0}
    BY <1>1, PowPositive DEF Cutting
  <1>3. PICK f \in 0 .. D - 1 : f = X % D /\ ip \in Nat /\ X = D * ip + f
    <2>1. X \div D \in Nat /\ X % D \in 0 .. D - 1 /\ X = D * (X \div D) + (X % D)
      BY <1>1, <1>2
    <2>2. QED
      BY <2>1 DEF Cutting
  <1>4. PICK V \in Int : V = fp * D - f * P /\ fp \in 0 .. P /\ 2 * V <= D /\ - D <= 2 * V
    <2>1. cut = ((10 * P) * f) \div D
      BY <1>3 DEF Cutting
    <2>2. fp \in 0 .. P /\ 2 * (fp * D - f * P) <= D /\ - D <= 2 * (fp * D - f * P)
      <3>1. fp = (cut + 5) \div 10
        BY DEF Cutting
      <3>2. QED
        BY <1>2, <2>1, <3>1, RoundedFraction
    <2>3. fp * D - f * P \in Int
      BY <1>2, <2>2
    <2>4. QED
      BY <2>2, <2>3
  <1>5. 2 * abs(V) <= D
    BY <1>2, <1>4 DEF abs
  <1>14. D <= X /\ X < D * M
    BY DEF Cutting
  <1>6. ip \in 1 .. M - 1
    <2>1. ip # 0
      <3>1. SUFFICES ASSUME ip = 0  PROVE FALSE
        OBVIOUS
      <3>2. D * ip = 0
        BY <1>2, <3>1
      <3>3. QED
        BY <1>2, <1>3, <1>14, <3>2
    <2>2. ip < M
      <3>1. SUFFICES ASSUME ip >= M  PROVE FALSE
        BY <1>2, <1>3
      <3>2. PICK d \in Nat : ip = M + d
        <4>1. ip - M \in Nat /\ ip = M + (ip - M)
          BY <1>2, <1>3, <3>1
        <4>2. QED
          BY <4>1
      <3>3. D * ip = D * M + D * d /\ D * d \in Nat /\ D * M \in Nat
        BY <1>2, <3>2
      <3>4. QED
        BY <1>1, <1>3, <1>14, <3>3
    <2>3. QED
      BY <1>2, <1>3, <2>1, <2>2
  <1>7. psh_pow(base, 0) = 1
    <2>1. base \in Nat \ {0} /\ 0 \in Nat
      OBVIOUS
    <2>2. QED
      BY <2>1, PowStep
  <1>8. psh_pow(base, IF y - exp > 0 THEN y - exp ELSE 0) = 1 /\ psh_pow(base, IF y - exp < 0 THEN - (y - exp) ELSE 0) = D
    <2>1. (IF y - exp > 0 THEN y - exp ELSE 0) = 0 /\ (IF y - exp < 0 THEN - (y - exp) ELSE 0) = low
      BY DEF Cutting
    <2>2. QED
      BY <1>7, <2>1 DEF Cutting
  <1>9. (ip * P + fp) * D - (X * 1) * P = V
    <2>1. (ip * P + fp) * D = (D * ip) * P + fp * D
      BY <1>2, <1>3, <1>4
    <2>2. (X * 1) * P = (D * ip) * P + f * P
      <3>1. PICK c \in Nat : c = D * ip
        BY <1>2, <1>3
      <3>2. (c + f) * P = c * P + f * P
        BY <1>2
      <3>3. X * 1 = c + f
        BY <1>1, <1>3, <3>1
      <3>4. QED
        BY <3>1, <3>2, <3>3
    <2>3. (D * ip) * P \in Int /\ fp * D \in Int /\ f * P \in Int
      BY <1>2, <1>3, <1>4
    <2>4. QED
      BY <1>4, <2>1, <2>2, <2>3
  <1>10. ASSUME fp # P  PROVE RoundsTo(base, x, y, prec, ip, fp, exp)
    <2>1. fp < P
      BY <1>2, <1>4, <1>10
    <2>2. 2 * abs((ip * P + fp) * D - (X * 1) * P) <= D
      BY <1>5, <1>9
    <2>3. QED
      BY <1>6, <1>8, <2>1, <2>2 DEF RoundsTo, Cutting
  <1>11. ASSUME fp = P, ip + 1 # M  PROVE RoundsTo(base, x, y, prec, ip + 1, 0, exp)
    <2>1. ((ip + 1) * P + 0) * D = (ip * P + fp) * D
      <3>1. (ip + 1) * P + 0 = ip * P + P
        BY <1>2, <1>3
      <3>2. QED
        BY <1>11, <3>1
    <2>2. 2 * abs(((ip + 1) * P + 0) * D - (X * 1) * P) <= D
      BY <1>5, <1>9, <2>1
    <2>3. 0 < P /\ ip + 1 \in 1 .. M - 1
      BY <1>2, <1>6, <1>11
    <2>4. QED
      BY <1>8, <2>2, <2>3 DEF RoundsTo, Cutting
  <1>12. ASSUME fp = P, ip + 1 = M  PROVE RoundsTo(base, x, y, prec, 1, 0, exp + S)
    <2>1. psh_pow(base, IF y - (exp + S) > 0 THEN y - (exp + S) ELSE 0) = 1 /\ psh_pow(base, IF y - (exp + S) < 0 THEN - (y - (exp + S)) ELSE 0) = D * M
      <3>1. (IF y - (exp + S) > 0 THEN y - (exp + S) ELSE 0) = 0 /\ (IF y - (exp + S) < 0 THEN - (y - (exp + S)) ELSE 0) = low + S
        BY <1>1 DEF Cutting
      <3>2. psh_pow(base, low + S) = D * M
        BY <1>1, PowPlus DEF Cutting
      <3>3. QED
        BY <1>7, <3>1, <3>2
    <2>2. (1 * P + 0) * (D * M) = (ip * P + fp) * D
      <3>1. (1 * P + 0) * (D * (ip + 1)) = (ip * P + P) * D
        BY <1>2, <1>3
      <3>2. QED
        BY <1>12, <3>1
    <2>3. D <= D * M
      <3>1. D * M = D * ip + D /\ D * ip \in Nat
        <4>1. D * (ip + 1) = D * ip + D
          BY <1>2, <1>3
        <4>2. QED
          BY <1>2, <1>3, <1>12, <4>1
      <3>2. QED
        BY <1>2, <3>1
    <2>4. 2 * abs((1 * P + 0) * (D * M) - (X * 1) * P) <= D * M
      <3>1. abs(V) \in Int /\ D * M \in Int
        BY <1>2 DEF abs
      <3>2. QED
        BY <1>2, <1>5, <1>9, <2>2, <2>3, <3>1
    <2>5. 0 < P /\ 1 \in 1 .. M - 1
      BY <1>2, <1>6, <1>12
    <2>6. QED
      BY <2>1, <2>4, <2>5 DEF RoundsTo, Cutting
  <1>13. QED
    BY <1>6, <1>10, <1>11, <1>12 DEF CutRounds

(* The steps of psh_prefix, one by one.                                    *)
PrefixSteps(base, x0, y, prec, S, a, log, exp, low, x, div, cut, r, shown) ==
  /\ a = abs(x0) /\ S = PrefixStep(base) /\ log = psh_log(base, a) /\ exp = log + y /\ low = log - psh_mod(exp, S)
  /\ x = (IF low < 0 THEN a * psh_pow(base, - low) ELSE a) /\ div = psh_pow(base, IF low < 0 THEN 0 ELSE low)
  /\ cut = (psh_pow(10, prec + 1) * (x % div)) \div div
  /\ r = Carried([ipart |-> x \div div, fpart |-> (cut + 5) \div 10, exp |-> exp], base, prec)
  /\ shown = IF r.ipart = 0 /\ r.fpart = 0 THEN [r EXCEPT !.exp = y] ELSE r

PrefixShows(out, S, r, shown) == out.ipart = r.ipart /\ out.fpart = r.fpart /\ out.exp = psh_div(shown.exp, S) * S

(* What psh_prefix returns after its steps.                                *)
LEMMA PrefixIs ==
  ASSUME NEW base, NEW x0, NEW y, NEW prec, NEW S, NEW a, NEW log, NEW exp, NEW low, NEW x, NEW div, NEW cut, NEW r, NEW shown,
         PrefixSteps(base, x0, y, prec, S, a, log, exp, low, x, div, cut, r, shown)
  PROVE  PrefixShows(psh_prefix(base, x0, y, prec), S, r, shown)
  <1>1. psh_prefix(base, x0, y, prec) =
          [what |-> "prefix", ok |-> HasPrefix(base, shown.exp), ipart |-> r.ipart, fpart |-> r.fpart, exp |-> psh_div(shown.exp, S) * S]
    <2>1. a = abs(x0)
      BY DEF PrefixSteps
    <2>2. S = PrefixStep(base)
      BY DEF PrefixSteps
    <2>3. log = psh_log(base, a)
      BY DEF PrefixSteps
    <2>4. exp = log + y
      BY DEF PrefixSteps
    <2>5. low = log - psh_mod(exp, S)
      BY DEF PrefixSteps
    <2>6. x = IF low < 0 THEN a * psh_pow(base, - low) ELSE a
      BY DEF PrefixSteps
    <2>7. div = psh_pow(base, IF low < 0 THEN 0 ELSE low)
      BY DEF PrefixSteps
    <2>8. cut = (psh_pow(10, prec + 1) * (x % div)) \div div
      BY DEF PrefixSteps
    <2>9. r = Carried([ipart |-> x \div div, fpart |-> (cut + 5) \div 10, exp |-> exp], base, prec)
      BY DEF PrefixSteps
    <2>10. shown = IF r.ipart = 0 /\ r.fpart = 0 THEN [r EXCEPT !.exp = y] ELSE r
      BY DEF PrefixSteps
    <2>11. QED
      BY ONLY <2>1, <2>2, <2>3, <2>4, <2>5, <2>6, <2>7, <2>8, <2>9, <2>10, ZenonT(30) DEF psh_prefix
  <1>2. PICK out, h, i, f, e : out = psh_prefix(base, x0, y, prec) /\ h = HasPrefix(base, shown.exp) /\ i = r.ipart /\ f = r.fpart
                               /\ e = psh_div(shown.exp, S) * S
    OBVIOUS
  <1>3. out = [what |-> "prefix", ok |-> h, ipart |-> i, fpart |-> f, exp |-> e]
    BY ONLY <1>1, <1>2
  <1>4. out.ipart = i /\ out.fpart = f /\ out.exp = e
    BY ONLY <1>3
  <1>5. QED
    BY ONLY <1>2, <1>4 DEF PrefixShows

(* psh_prefix rounds every int, for every exponent and precision.          *)
LEMMA PrefixFact ==
  ASSUME NEW base \in {2, 10}, NEW x0 \in Int, abs(x0) \div 2 < psh_pow(2, 30), NEW y \in Int, NEW prec \in Nat
  PROVE  LET r == psh_prefix(base, x0, y, prec) IN RoundsTo(base, x0, y, prec, r.ipart, r.fpart, r.exp)
  <1>1. base \in Nat /\ base >= 2 /\ 10 \in Nat /\ 10 >= 2 /\ abs(x0) \in Nat /\ (x0 # 0 => abs(x0) \in Nat \ {0}) /\ (x0 = 0 => abs(x0) = 0)
    BY DEF abs
  <1>2. PICK S \in Nat \ {0} : S = PrefixStep(base)
    BY StepDown
  <1>3. PICK a \in Nat : a = abs(x0)
    BY <1>1
  <1>4. PICK log \in Nat : log = psh_log(base, a) /\ (x0 = 0 => log = 0) /\ (x0 # 0 => psh_pow(base, log) <= a /\ a < psh_pow(base, log + 1))
    <2>1. CASE x0 = 0
      BY <1>1, <1>3, <2>1 DEF psh_log
    <2>2. CASE x0 # 0
      BY <1>1, <1>3, <2>2, LogFact
    <2>3. QED
      BY <2>1, <2>2
  <1>5. PICK exp \in Int : exp = log + y
    OBVIOUS
  <1>6. PICK m \in 0 .. S - 1 : m = psh_mod(exp, S) /\ psh_div(exp, S) * S = exp - m /\ psh_mod(exp + S, S) = m
    BY <1>2, StepDown
  <1>7. PICK low \in Int : low = log - m
    BY <1>6
  <1>8. PICK x : x = IF low < 0 THEN a * psh_pow(base, - low) ELSE a
    OBVIOUS
  <1>9. PICK div : div = psh_pow(base, IF low < 0 THEN 0 ELSE low)
    OBVIOUS
  <1>10. PICK cut : cut = (psh_pow(10, prec + 1) * (x % div)) \div div
    OBVIOUS
  <1>11. PICK fp, ip : fp = (cut + 5) \div 10 /\ ip = x \div div
    OBVIOUS
  <1>12. PICK r : r = Carried([ipart |-> ip, fpart |-> fp, exp |-> exp], base, prec)
    OBVIOUS
  <1>13. PICK out : out = psh_prefix(base, x0, y, prec)
    OBVIOUS
  <1>14. /\ out.ipart = r.ipart /\ out.fpart = r.fpart
         /\ out.exp = psh_div((IF r.ipart = 0 /\ r.fpart = 0 THEN [r EXCEPT !.exp = y] ELSE r).exp, S) * S
    <2>1. PICK shown : shown = IF r.ipart = 0 /\ r.fpart = 0 THEN [r EXCEPT !.exp = y] ELSE r
      OBVIOUS
    <2>2. low = log - psh_mod(exp, S) /\ log = psh_log(base, a)
      BY <1>4, <1>6, <1>7
    <2>3. r = Carried([ipart |-> x \div div, fpart |-> (cut + 5) \div 10, exp |-> exp], base, prec)
      BY ONLY <1>11, <1>12
    <2>4. PrefixSteps(base, x0, y, prec, S, a, log, exp, low, x, div, cut, r, shown)
      BY ONLY <1>2, <1>3, <1>5, <1>8, <1>9, <1>10, <2>1, <2>2, <2>3, Zenon DEF PrefixSteps
    <2>5. PrefixShows(out, S, r, shown)
      BY ONLY <1>13, <2>4, PrefixIs
    <2>6. QED
      BY ONLY <2>1, <2>5 DEF PrefixShows
  <1>15. PICK P \in Nat \ {0} : P = psh_pow(10, prec) /\ psh_pow(10, prec + 1) = 10 * P
    <2>1. 10 \in Nat \ {0}
      OBVIOUS
    <2>2. psh_pow(10, prec) \in Nat \ {0}
      BY <1>1, PowPositive
    <2>3. psh_pow(10, prec + 1) = 10 * psh_pow(10, prec)
      BY <2>1, PowStep
    <2>4. QED
      BY <2>2, <2>3
  <1>16. psh_pow(base, 0) = 1
    <2>1. base \in Nat \ {0} /\ 0 \in Nat
      OBVIOUS
    <2>2. QED
      BY <2>1, PowStep
  <1>17. CASE x0 = 0 \/ low < 0
    <2>1. PICK k \in Nat : k = - low
      BY <1>4, <1>6, <1>7, <1>17
    <2>2. x = a * psh_pow(base, k) /\ div = 1
      <3>1. CASE low < 0
        BY <1>8, <1>9, <1>16, <2>1, <3>1
      <3>2. CASE ~ (low < 0)
        <4>1. low = 0 /\ k = 0 /\ a = 0
          BY <1>1, <1>3, <1>17, <2>1, <3>2
        <4>2. QED
          BY <1>8, <1>9, <1>16, <4>1
      <3>3. QED
        BY <3>1, <3>2
    <2>3. PICK K \in Nat \ {0} : K = psh_pow(base, k)
      BY <1>1, PowPositive
    <2>4. x \in Nat /\ ip = x /\ fp = 0
      <3>1. PICK z \in Nat : z = x
        BY <2>2, <2>3
      <3>2. z % 1 = 0 /\ z \div 1 = z /\ (10 * P) * 0 = 0 /\ 0 \div 1 = 0 /\ (0 + 5) \div 10 = 0
        OBVIOUS
      <3>3. QED
        BY <1>10, <1>11, <1>15, <2>2, <3>1, <3>2
    <2>5. r = [ipart |-> ip, fpart |-> fp, exp |-> exp]
      BY <1>12, <1>15, <2>4 DEF Carried
    <2>6. out.ipart = ip /\ out.fpart = 0
      BY <1>14, <2>4, <2>5
    <2>7. y - out.exp = k
      <3>1. CASE x0 = 0
        <4>1. ip = 0 /\ exp = y
          BY <1>1, <1>3, <1>4, <1>5, <2>2, <2>3, <2>4, <3>1
        <4>2. out.exp = psh_div(exp, S) * S
          BY <1>14, <2>4, <2>5, <4>1
        <4>3. QED
          BY <1>4, <1>5, <1>6, <1>7, <2>1, <3>1, <4>2
      <3>2. CASE x0 # 0
        <4>1. ip # 0
          BY <1>1, <1>3, <2>2, <2>3, <2>4, <3>2
        <4>2. out.exp = psh_div(exp, S) * S
          BY <1>14, <2>5, <4>1
        <4>3. QED
          BY <1>4, <1>5, <1>6, <1>7, <2>1, <4>2
      <3>3. QED
        BY <3>1, <3>2
    <2>8. x0 # 0 => a * psh_pow(base, k) < psh_pow(base, S)
      <3>1. SUFFICES ASSUME x0 # 0  PROVE a * psh_pow(base, k) < psh_pow(base, S)
        OBVIOUS
      <3>2. PICK n \in Nat : n = log + 1
        OBVIOUS
      <3>3. n + k <= S /\ n + k \in Nat
        BY <1>6, <1>7, <2>1, <3>2
      <3>4. psh_pow(base, n + k) = psh_pow(base, n) * K
        BY <1>1, <2>3, PowPlus
      <3>5. psh_pow(base, n + k) <= psh_pow(base, S) /\ psh_pow(base, n) \in Nat /\ psh_pow(base, S) \in Nat
        BY <1>1, <3>3, PowGrows, PowPositive
      <3>6. a * K < psh_pow(base, n) * K
        <4>1. PICK N \in Nat, g \in Nat \ {0} : N = psh_pow(base, n) /\ N = a + g
          <5>1. psh_pow(base, n) - a \in Nat \ {0} /\ psh_pow(base, n) = a + (psh_pow(base, n) - a)
            BY <1>4, <3>1, <3>2, <3>5
          <5>2. QED
            BY <3>5, <5>1
        <4>2. N * K = a * K + g * K /\ g * K \in Nat \ {0} /\ a * K \in Nat
          BY <4>1
        <4>3. QED
          BY <4>1, <4>2
      <3>7. a * K \in Nat /\ psh_pow(base, n) * K \in Nat
        BY <2>3, <3>5
      <3>8. QED
        BY <2>3, <3>4, <3>5, <3>6, <3>7
    <2>9. out.exp \in Int
      <3>1. PICK q \in Int : q = y - k
        OBVIOUS
      <3>2. \A e : e \in {psh_div(exp, S) * S, psh_div(y, S) * S} => e \in Int
        BY <1>2, <1>6, StepDown
      <3>3. QED
        BY <1>14, <2>5, <3>2
    <2>10. RoundsTo(base, x0, y, prec, ip, 0, out.exp)
      BY <1>2, <1>3, <2>2, <2>4, <2>7, <2>8, <2>9, WholeNumber
    <2>11. QED
      BY <1>13, <2>6, <2>10
  <1>18. CASE x0 # 0 /\ ~ (low < 0)
    <2>1. low \in Nat /\ x = a /\ div = psh_pow(base, low)
      BY <1>7, <1>8, <1>9, <1>18
    <2>2. PICK D \in Nat \ {0}, M \in Nat \ {0} : D = div /\ D = psh_pow(base, low) /\ M = psh_pow(base, S)
      BY <1>1, <2>1, PowPositive
    <2>3. D <= a
      <3>1. psh_pow(base, low) <= psh_pow(base, log) /\ psh_pow(base, log) \in Nat
        BY <1>1, <1>6, <1>7, <2>1, PowGrows, PowPositive
      <3>2. QED
        BY <1>4, <1>18, <2>2, <3>1
    <2>4. a < D * M
      <3>1. PICK n \in Nat : n = log + 1
        OBVIOUS
      <3>2. n <= low + S /\ low + S \in Nat
        BY <1>6, <1>7, <2>1, <3>1
      <3>3. psh_pow(base, n) <= psh_pow(base, low + S) /\ psh_pow(base, n) \in Nat /\ psh_pow(base, low + S) \in Nat
        BY <1>1, <3>2, PowGrows, PowPositive
      <3>4. psh_pow(base, low + S) = D * M
        BY <1>1, <2>1, <2>2, PowPlus
      <3>5. QED
        BY <1>4, <1>18, <3>1, <3>3, <3>4
    <2>5. PICK e \in Int : e = exp - m /\ y - e = - low
      BY <1>5, <1>6, <1>7
    <2>6. cut = ((10 * P) * (a % D)) \div D /\ ip = a \div D
      BY <1>10, <1>11, <1>15, <2>1, <2>2
    <2>7. CutRounds(base, x0, y, prec, e, S, P, M, ip, fp)
      <3>1. Cutting(base, x0, y, prec, e, low, S, P, D, M, a, ip, cut, fp)
        BY <1>2, <1>3, <1>11, <1>15, <2>2, <2>3, <2>4, <2>5, <2>6 DEF Cutting
      <3>2. QED
        BY <1>18, <2>1, <3>1, CutNumber
    <2>8. psh_div(exp, S) * S = e
      BY <1>6, <2>5
    <2>9. psh_div(exp + S, S) * S = e + S
      <3>1. psh_div(exp + S, S) * S = (exp + S) - psh_mod(exp + S, S)
        <4>1. PICK z \in Int : z = exp + S
          OBVIOUS
        <4>2. QED
          BY <1>2, <4>1, StepDown
      <3>2. QED
        BY <1>6, <2>5, <3>1
    <2>10. CASE fp # P
      <3>1. r = [ipart |-> ip, fpart |-> fp, exp |-> exp]
        BY <1>12, <1>15, <2>10 DEF Carried
      <3>2. out.ipart = ip /\ out.fpart = fp /\ out.exp = e
        BY <1>14, <2>7, <2>8, <3>1 DEF CutRounds
      <3>3. QED
        BY <1>13, <2>7, <2>10, <3>2 DEF CutRounds
    <2>11. CASE fp = P /\ ip + 1 # M
      <3>1. r = [ipart |-> ip + 1, fpart |-> 0, exp |-> exp]
        BY <1>2, <1>12, <1>15, <2>2, <2>11 DEF Carried
      <3>2. out.ipart = ip + 1 /\ out.fpart = 0 /\ out.exp = e
        BY <1>14, <2>7, <2>8, <3>1 DEF CutRounds
      <3>3. QED
        BY <1>13, <2>7, <2>11, <3>2 DEF CutRounds
    <2>12. CASE fp = P /\ ip + 1 = M
      <3>1. r = [ipart |-> 1, fpart |-> 0, exp |-> exp + S]
        BY <1>2, <1>12, <1>15, <2>2, <2>12 DEF Carried
      <3>2. out.ipart = 1 /\ out.fpart = 0 /\ out.exp = e + S
        BY <1>14, <2>9, <3>1
      <3>3. QED
        BY <1>13, <2>7, <2>12, <3>2 DEF CutRounds
    <2>13. QED
      BY <2>10, <2>11, <2>12
  <1>19. QED
    BY <1>17, <1>18

(* The sum of the names' lengths is a number.                              *)
LEMMA SumType ==
  ASSUME NEW s \in Seq(Nat)
  PROVE  Sum(s) \in Nat
  <1>1. PICK n \in Nat : n = Len(s)
    OBVIOUS
  <1> DEFINE Is(f) == f = [i \in 0 .. n |-> IF i = 0 THEN 0 ELSE f[i - 1] + s[i]]
             sum == CHOOSE f : Is(f)
             g == [p \in (1 .. n) \X Nat |-> p[2] + s[p[1]]]
  <1>2. StepsIn(g, n, Nat) /\ 0 \in Nat
    <2>1. \A i \in 1 .. n : s[i] \in Nat
      BY <1>1
    <2>2. QED
      BY <2>1 DEF StepsIn
  <1> HIDE DEF g
  <1>3. PICK f \in [0 .. n -> Nat] : Recursive(f, g, n, 0)
    BY <1>2, Recursion
  <1>4. f[0] = 0 /\ \A i \in 1 .. n : f[i] = f[i - 1] + s[i]
    <2>1. ASSUME NEW i \in 1 .. n  PROVE f[i] = f[i - 1] + s[i]
      <3>1. f[i] = g[<<i, f[i - 1]>>] /\ f[i - 1] \in Nat
        BY <1>3 DEF Recursive
      <3>2. QED
        BY <3>1 DEF g
    <2>2. QED
      BY <1>3, <2>1 DEF Recursive
  <1>5. Is(f)
    BY <1>4
  <1>6. Is(sum)
    BY <1>5
  <1>7. Sum(s) = sum[n]
    BY <1>1 DEF Sum
  <1> HIDE DEF sum
  <1> DEFINE T == {k \in Nat : k <= n => sum[k] \in Nat}
  <1>8. 0 \in T
    BY <1>6
  <1>9. ASSUME NEW k \in Nat, k \in T  PROVE k + 1 \in T
    <2>1. SUFFICES ASSUME k + 1 <= n  PROVE sum[k + 1] \in Nat
      OBVIOUS
    <2>2. k + 1 \in 0 .. n /\ k + 1 # 0 /\ (k + 1) - 1 = k /\ k <= n /\ k + 1 \in 1 .. n
      BY <2>1
    <2>3. sum[k + 1] = sum[k] + s[k + 1]
      BY <1>6, <2>2
    <2>4. s[k + 1] \in Nat /\ sum[k] \in Nat
      BY <1>1, <1>9, <2>2
    <2>5. QED
      BY <2>3, <2>4
  <1> HIDE DEF T
  <1>10. n \in T
    BY <1>8, <1>9, SetInduction
  <1>11. QED
    BY <1>7, <1>10 DEF T

(* The completions have lengths.                                           *)
LEMMA CompletionType ==
  ASSUME NEW dir \in FmNames
  PROVE  psh_completepath(dir) \in Seq(Nat)
  <1>1. PICK S : S = {f \in FmFile : f.fits}
    OBVIOUS
  <1>2. dir \in Seq(FmFile)
    BY PshFormatAssumption
  <1>3. PICK fits : fits = Keep(dir, S) /\ fits \in Seq(FmFile)
    BY <1>2, KeepFact
  <1>4. psh_completepath(dir) = [i \in DOMAIN fits |-> fits[i].len + 1]
    BY <1>1, <1>3 DEF psh_completepath
  <1>5. PICK n \in Nat : DOMAIN fits = 1 .. n /\ \A i \in 1 .. n : fits[i] \in FmFile
    BY <1>3
  <1>6. \A i \in 1 .. n : fits[i].len + 1 \in Nat
    BY <1>5 DEF FmFile
  <1>7. [i \in DOMAIN fits |-> fits[i].len + 1] \in [1 .. n -> Nat]
    BY <1>5, <1>6
  <1>8. QED
    BY <1>4, <1>7, SeqDef

(* As many columns as there are begun.                                     *)
LEMMA CeilFact ==
  ASSUME NEW n \in Nat, NEW r \in Nat \ {0}, NEW f \in Nat \ {0}, f <= r
  PROVE  Ceil(n, r) \in Nat /\ Ceil(n, r) * r >= n /\ Ceil(n, r) <= n \div f + 1
  <1>1. PICK q \in Nat, t \in 0 .. r - 1 : q = n \div r /\ t = n % r /\ n = r * q + t
    OBVIOUS
  <1>2. PICK c \in Nat : c = Ceil(n, r) /\ (t = 0 => c = q) /\ (t # 0 => c = q + 1)
    BY <1>1 DEF Ceil
  <1>3. c * r >= n
    <2>1. CASE t = 0
      BY <1>1, <1>2, <2>1
    <2>2. CASE t # 0
      <3>1. (q + 1) * r = r * q + r /\ r * q \in Nat
        OBVIOUS
      <3>2. QED
        BY <1>1, <1>2, <2>2, <3>1
    <2>3. QED
      BY <2>1, <2>2
  <1>4. q <= n \div f
    <2>1. PICK p \in Nat, u \in 0 .. f - 1 : p = n \div f /\ n = f * p + u
      OBVIOUS
    <2>2. SUFFICES ASSUME q >= p + 1  PROVE FALSE
      BY <2>1
    <2>3. PICK d \in Nat : q = (p + 1) + d
      <3>1. q - (p + 1) \in Nat /\ q = (p + 1) + (q - (p + 1))
        BY <2>2
      <3>2. QED
        BY <3>1
    <2>4. PICK e \in Nat : r = f + e
      <3>1. r - f \in Nat /\ r = f + (r - f)
        OBVIOUS
      <3>2. QED
        BY <3>1
    <2>5. r * q = (f * p + f) + (f * d + e * q) /\ f * d + e * q \in Nat /\ f * p \in Nat
      <3>1. (f + e) * q = f * q + e * q /\ e * q \in Nat
        OBVIOUS
      <3>2. f * ((p + 1) + d) = f * p + f + f * d /\ f * d \in Nat /\ f * p \in Nat
        OBVIOUS
      <3>3. QED
        BY <2>3, <2>4, <3>1, <3>2
    <2>6. QED
      BY <1>1, <2>1, <2>5
  <1>5. n \div f \in Nat
    OBVIOUS
  <1>6. QED
    BY <1>2, <1>3, <1>4, <1>5

(* Where psh_printfiles puts the files: down the columns.                  *)
CellsOf(rows, cols, n) ==
  [p \in (1 .. rows) \X (1 .. cols) |-> LET j == (p[2] - 1) * rows + p[1] IN IF j <= n THEN j ELSE 0]

(* Each file has one cell when the cells are enough.                       *)
LEMMA OneCell ==
  ASSUME NEW rows \in Nat \ {0}, NEW cols \in Nat, NEW n \in Nat, cols * rows >= n, NEW i \in 1 .. n, NEW cells,
         cells = CellsOf(rows, cols, n)
  PROVE  Cardinality({p \in DOMAIN cells : cells[p] = i}) = 1
  <1>1. PICK z \in Nat : z = i - 1
    OBVIOUS
  <1>2. PICK q \in Nat, t \in 0 .. rows - 1 : q = z \div rows /\ z = rows * q + t
    OBVIOUS
  <1>3. q < cols
    <2>1. SUFFICES ASSUME q >= cols  PROVE FALSE
      OBVIOUS
    <2>2. PICK d \in Nat : q = cols + d
      <3>1. q - cols \in Nat /\ q = cols + (q - cols)
        BY <2>1
      <3>2. QED
        BY <3>1
    <2>3. rows * q = cols * rows + rows * d /\ rows * d \in Nat /\ cols * rows \in Nat
      BY <2>2
    <2>4. QED
      BY <1>1, <1>2, <2>3
  <1>4. PICK c : c = <<t + 1, q + 1>>
    OBVIOUS
  <1>5. c \in (1 .. rows) \X (1 .. cols) /\ c[1] = t + 1 /\ c[2] = q + 1
    <2>1. t + 1 \in 1 .. rows /\ q + 1 \in 1 .. cols
      BY <1>3
    <2>2. QED
      BY <1>4, <2>1
  <1>6. cells[c] = i
    <2>1. ((q + 1) - 1) * rows + (t + 1) = i
      <3>1. ((q + 1) - 1) * rows = rows * q
        OBVIOUS
      <3>2. rows * q \in Nat
        OBVIOUS
      <3>3. QED
        BY <1>1, <1>2, <3>1, <3>2
    <2>2. (c[2] - 1) * rows + c[1] = i
      BY <1>5, <2>1
    <2>3. cells[c] = IF (c[2] - 1) * rows + c[1] <= n THEN (c[2] - 1) * rows + c[1] ELSE 0
      BY <1>5 DEF CellsOf
    <2>4. QED
      BY <2>2, <2>3
  <1>7. ASSUME NEW p \in (1 .. rows) \X (1 .. cols), cells[p] = i  PROVE p = c
    <2>1. PICK a \in 1 .. rows, b \in 1 .. cols : p = <<a, b>> /\ p[1] = a /\ p[2] = b
      OBVIOUS
    <2>2. i = (b - 1) * rows + a
      <3>1. cells[p] = IF (p[2] - 1) * rows + p[1] <= n THEN (p[2] - 1) * rows + p[1] ELSE 0
        BY DEF CellsOf
      <3>2. QED
        BY <1>7, <2>1, <3>1
    <2>3. PICK m \in Nat : m = b - 1
      BY <2>1
    <2>4. PICK k \in Nat : k = m * rows
      OBVIOUS
    <2>5. k <= z /\ z < k + rows
      BY <1>1, <2>1, <2>2, <2>3, <2>4
    <2>6. z \div rows = m
      BY <2>4, <2>5, DivFits
    <2>7. m = q /\ b = q + 1
      BY <1>2, <2>1, <2>3, <2>6
    <2>8. rows * q = k
      BY <2>4, <2>7
    <2>9. a = t + 1
      BY <1>1, <1>2, <2>1, <2>2, <2>3, <2>4, <2>8
    <2>10. QED
      BY <1>4, <2>1, <2>7, <2>9
  <1>8. {p \in DOMAIN cells : cells[p] = i} = {c}
    <2>1. DOMAIN cells = (1 .. rows) \X (1 .. cols)
      BY DEF CellsOf
    <2>2. QED
      BY <1>5, <1>6, <1>7, <2>1
  <1>9. QED
    BY <1>8, FS_Singleton

ListedOnce(out, n) ==
  /\ \A i \in 1 .. n : Cardinality({p \in DOMAIN out.cells : out.cells[p] = i}) = 1
  /\ out.set => out.cols <= out.room

(* psh_printfiles has a cell for every file, and a place for every width.  *)
LEMMA FilesFact ==
  ASSUME NEW files \in Seq(Nat), files # <<>>
  PROVE  ListedOnce(psh_printfiles(files), Len(files))
  <1> DEFINE n == Len(files)
             first == Sum(files) \div FmWidth + 1
             good == {r \in first .. n : Sum(ColSizes(files, r)) < FmWidth}
             rows == IF first > n THEN first ELSE IF good = {} THEN n + 1 ELSE CHOOSE r \in good : \A s \in good : r <= s
             cols == IF first > n THEN n \div first + 1 ELSE Ceil(n, IF rows > n THEN n ELSE rows)
             cells == [p \in (1 .. rows) \X (1 .. cols) |-> LET i == (p[2] - 1) * rows + p[1] IN IF i <= n THEN i ELSE 0]
             out == psh_printfiles(files)
  <1>1. n \in Nat \ {0}
    BY EmptySeq, LenProperties
  <1>2. first \in Nat \ {0}
    <2>1. PICK s \in Nat, w \in Nat \ {0} : s = Sum(files) /\ w = FmWidth
      BY SumType, PshFormatAssumption
    <2>2. s \div w \in Nat
      OBVIOUS
    <2>3. s \div w + 1 \in Nat \ {0}
      BY <2>2
    <2>4. QED
      BY <2>1, <2>3
  <1>6. out = [what |-> "files", rows |-> rows, cols |-> cols, room |-> n \div first + 1, set |-> first <= n, fits |-> good # {},
               cells |-> cells]
    BY DEF psh_printfiles
  <1> HIDE DEF out
  <1>12. cells = CellsOf(rows, cols, n)
    BY DEF CellsOf
  <1> HIDE DEF cells, cols
  <1>5. cols = IF first > n THEN n \div first + 1 ELSE Ceil(n, IF rows > n THEN n ELSE rows)
    BY DEF cols
  <1> HIDE DEF rows
  <1>4. rows = IF first > n THEN first ELSE IF good = {} THEN n + 1 ELSE CHOOSE r \in good : \A s \in good : r <= s
    BY DEF rows
  <1> HIDE DEF good
  <1>3. good = {r \in first .. n : Sum(ColSizes(files, r)) < FmWidth}
    BY DEF good
  <1> HIDE DEF first, n
  <1>7. out.set = (first <= n) /\ out.room = n \div first + 1 /\ out.cols = cols /\ out.cells = cells
    <2>1. PICK rm, st, ft : rm = n \div first + 1 /\ st = (first <= n) /\ ft = (good # {})
      OBVIOUS
    <2>2. out = [what |-> "files", rows |-> rows, cols |-> cols, room |-> rm, set |-> st, fits |-> ft, cells |-> cells]
      BY ONLY <1>6, <2>1, Zenon
    <2>3. out.set = st /\ out.room = rm /\ out.cols = cols /\ out.cells = cells
      BY ONLY <2>2
    <2>4. QED
      BY ONLY <2>1, <2>3
  <1>8. rows \in Nat \ {0} /\ cols \in Nat /\ cols * rows >= n /\ (first <= n => cols <= n \div first + 1)
    <2>1. CASE first > n
      <3>1. 0 * first = 0 /\ 0 * first <= n /\ n < 0 * first + first
        BY <1>1, <1>2, <2>1
      <3>2. n \div first = 0
        BY <1>1, <1>2, <3>1, DivFits
      <3>3. rows = first /\ cols = 1
        BY <1>1, <1>2, <1>4, <1>5, <2>1, <3>2
      <3>4. QED
        BY <1>1, <1>2, <2>1, <3>3
    <2>2. CASE ~ (first > n) /\ good = {}
      <3>1. rows = n + 1 /\ cols = Ceil(n, n) /\ first <= n
        BY <1>1, <1>2, <1>4, <1>5, <2>2
      <3>2. Ceil(n, n) \in Nat /\ Ceil(n, n) * n >= n /\ Ceil(n, n) <= n \div first + 1
        BY <1>1, <1>2, <3>1, CeilFact
      <3>3. PICK c \in Nat : c = Ceil(n, n)
        BY <1>1, <1>2, <3>2
      <3>4. c * (n + 1) = c * n + c /\ c * n \in Nat
        BY <1>1, <1>2
      <3>5. cols = c /\ cols * rows = c * n + c /\ c * n >= n
        BY <1>1, <1>2, <3>1, <3>2, <3>3, <3>4
      <3>6. cols * rows >= n /\ rows \in Nat \ {0} /\ cols \in Nat
        <4>1. PICK k \in Nat : k = c * n /\ k >= n
          BY <3>4, <3>5
        <4>2. cols * rows = k + c /\ k + c >= n
          BY <1>1, <3>5, <4>1
        <4>3. n + 1 \in Nat \ {0}
          BY <1>1
        <4>4. QED
          BY <3>1, <3>5, <4>2, <4>3
      <3>7. QED
        BY <1>1, <1>2, <3>1, <3>2, <3>6
    <2>3. CASE ~ (first > n) /\ good # {}
      <3>1. good \subseteq Nat
        BY <1>1, <1>2, <1>3
      <3>2. \E r \in good : \A s \in good : r <= s
        BY <1>1, <1>2, <2>3, <3>1, MinFact
      <3>3. rows \in good
        BY <1>1, <1>2, <1>4, <2>3, <3>2
      <3>4. rows \in Nat \ {0} /\ first <= rows /\ rows <= n
        BY <1>1, <1>2, <1>3, <3>3
      <3>5. cols = Ceil(n, rows)
        BY <1>1, <1>2, <1>5, <2>3, <3>4
      <3>6. QED
        BY <1>1, <1>2, <3>4, <3>5, CeilFact
    <2>4. QED
      BY <1>1, <1>2, <2>1, <2>2, <2>3
  <1>9. \A i \in 1 .. n : Cardinality({p \in DOMAIN out.cells : out.cells[p] = i}) = 1
    BY <1>1, <1>7, <1>8, <1>12, OneCell
  <1>10. ListedOnce(out, n)
    BY <1>7, <1>8, <1>9 DEF ListedOnce
  <1>11. QED
    BY <1>10 DEF out, n

LandsAt(out, col, n) ==
  LET at == col % FmWidth
      to == at + out.cols
  IN to \in 0 .. FmWidth - 1 /\ out.lines * FmWidth + to = at + n

(* psh_movecursor reaches the place n characters on.                       *)
LEMMA LandsFact ==
  ASSUME NEW col \in Nat, NEW n \in Int
  PROVE  LandsAt(psh_movecursor(col, n), col, n)
  <1>1. PICK W \in Nat \ {0} : W = FmWidth
    BY PshFormatAssumption
  <1>2. PICK at \in 0 .. W - 1 : at = col % W
    OBVIOUS
  <1>3. PICK to \in Int : to = at + n
    BY <1>2
  <1>4. PICK up : up = IF to < 0 THEN ((- to) + W - 1) \div W ELSE 0
    OBVIOUS
  <1>5. PICK down : down = IF to > W - 1 THEN to \div W ELSE 0
    OBVIOUS
  <1>6. PICK out : out = psh_movecursor(col, n)
    OBVIOUS
  <1>7. out.lines = down - up /\ out.cols = n + up * W - down * W
    BY <1>1, <1>2, <1>3, <1>4, <1>5, <1>6 DEF psh_movecursor
  <1>8. up \in Nat /\ down \in Nat /\ to + up * W - down * W \in 0 .. W - 1
    <2>1. CASE to < 0
      <3>1. PICK z \in Nat : z = (- to) + W - 1
        BY <2>1
      <3>2. PICK u \in Nat, t \in 0 .. W - 1 : u = z \div W /\ z = W * u + t
        OBVIOUS
      <3>3. up = u /\ down = 0
        BY <1>4, <1>5, <2>1, <3>1, <3>2
      <3>4. PICK k \in Nat : k = W * u /\ k = u * W /\ 0 * W = 0
        OBVIOUS
      <3>5. to + k - 0 \in 0 .. W - 1
        BY <3>1, <3>2, <3>4
      <3>6. QED
        BY <3>3, <3>4, <3>5
    <2>2. CASE to > W - 1
      <3>1. PICK z \in Nat : z = to
        BY <2>2
      <3>2. PICK u \in Nat, t \in 0 .. W - 1 : u = z \div W /\ z = W * u + t
        OBVIOUS
      <3>3. up = 0 /\ down = u
        BY <1>4, <1>5, <2>2, <3>1, <3>2
      <3>4. PICK k \in Nat : k = W * u /\ k = u * W /\ 0 * W = 0
        OBVIOUS
      <3>5. to + 0 - k \in 0 .. W - 1
        BY <3>1, <3>2, <3>4
      <3>6. QED
        BY <3>3, <3>4, <3>5
    <2>3. CASE ~ (to < 0) /\ ~ (to > W - 1)
      <3>1. up = 0 /\ down = 0 /\ 0 * W = 0
        BY <1>4, <1>5, <2>3
      <3>2. QED
        BY <2>3, <3>1
    <2>4. QED
      BY <2>1, <2>2, <2>3
  <1>9. PICK u \in Nat, d \in Nat : u = up * W /\ d = down * W /\ (down - up) * W = d - u
    BY <1>8
  <1>10. at + out.cols \in 0 .. W - 1 /\ out.lines * W + (at + out.cols) = at + n
    <2>1. out.lines * W = d - u /\ out.cols = n + u - d /\ to + u - d \in 0 .. W - 1
      BY <1>7, <1>8, <1>9
    <2>2. at + (n + u - d) = to + u - d /\ (d - u) + (at + (n + u - d)) = at + n
      BY <1>2, <1>3
    <2>3. QED
      BY <2>1, <2>2
  <1>11. QED
    BY <1>1, <1>2, <1>6, <1>10 DEF LandsAt

(* A call that has returned has the result of its function.                *)
FmInv ==
  /\ fmCall \in FmCalls
  /\ fmOut # Pending =>
       \/ fmCall.what = "prefix" /\ fmOut = psh_prefix(fmCall.base, fmCall.x, fmCall.y, fmCall.prec)
       \/ fmCall.what = "files" /\ psh_completepath(fmCall.dir) # <<>> /\ fmOut = psh_printfiles(psh_completepath(fmCall.dir))
       \/ fmCall.what = "move" /\ fmOut = psh_movecursor(fmCall.col, fmCall.n)

(* The kinds of calls and of their results.                                *)
LEMMA CallKinds ==
  ASSUME NEW c \in FmCalls
  PROVE  /\ c.what \in {"prefix", "files", "move"}
         /\ c.what = "prefix" => c.base \in {2, 10} /\ c.x \in FmNumbers /\ c.y \in FmExponents /\ c.prec \in FmPrecs
         /\ c.what = "files" => c.dir \in FmNames
         /\ c.what = "move" => c.col \in 0 .. FmWidth * 2 /\ c.n \in FmMoves
  BY DEF FmCalls

(* A result tells which function returned it.                              *)
LEMMA OutKinds ==
  /\ \A b, x, y, p : psh_prefix(b, x, y, p).what = "prefix"
  /\ \A f : psh_printfiles(f).what = "files"
  /\ \A c, n : psh_movecursor(c, n).what = "move"
  /\ Pending.what = "none"
  BY DEF psh_prefix, psh_printfiles, psh_movecursor, Pending

(* Everything psh prints numbers, completions and cursor movements with is *)
(* exact: psh_prefix rounds every int right for every exponent and         *)
(* precision, psh_printfiles lists every completion once on a terminal of  *)
(* every width, and psh_movecursor reaches every place.                    *)
THEOREM PrintsExactly == FmSpec => []OutputIsExact
  <1>1. FmInit => FmInv
    BY DEF FmInit, FmInv
  <1>2. FmInv /\ [FmNext]_fmVars => FmInv'
    BY DEF FmInv, FmNext, FmPrefix, FmFiles, FmMove, fmVars
  <1>3. FmInv => OutputIsExact
    <2>1. SUFFICES ASSUME FmInv  PROVE OutputIsExact
      OBVIOUS
    <2>2. CASE fmOut = Pending
      BY <2>2, OutKinds DEF OutputIsExact, PrefixRounds, FilesListedOnce, CursorLands
    <2>3. CASE fmCall.what = "prefix" /\ fmOut = psh_prefix(fmCall.base, fmCall.x, fmCall.y, fmCall.prec)
      <3>1. fmOut.what = "prefix"
        BY <2>3, OutKinds
      <3>2. PICK b \in {2, 10}, x \in FmNumbers, y \in FmExponents, p \in FmPrecs : b = fmCall.base /\ x = fmCall.x /\ y = fmCall.y /\ p = fmCall.prec
        BY <2>1, <2>3, CallKinds DEF FmInv
      <3>3. x \in Int /\ y \in Int /\ p \in Nat /\ abs(x) \div 2 < psh_pow(2, 30)
        BY <3>2, PshFormatAssumption
      <3>4. RoundsTo(b, x, y, p, fmOut.ipart, fmOut.fpart, fmOut.exp)
        BY <2>3, <3>2, <3>3, PrefixFact
      <3>5. PrefixRounds
        BY <3>2, <3>4 DEF RoundsTo, PrefixRounds
      <3>6. QED
        BY <3>1, <3>5 DEF OutputIsExact, FilesListedOnce, CursorLands
    <2>4. CASE fmCall.what = "files" /\ psh_completepath(fmCall.dir) # <<>> /\ fmOut = psh_printfiles(psh_completepath(fmCall.dir))
      <3>1. fmOut.what = "files"
        BY <2>4, OutKinds
      <3>2. psh_completepath(fmCall.dir) \in Seq(Nat)
        BY <2>1, <2>4, CallKinds, CompletionType DEF FmInv
      <3>3. ListedOnce(fmOut, Len(psh_completepath(fmCall.dir)))
        BY <2>4, <3>2, FilesFact
      <3>4. FilesListedOnce
        BY <3>3 DEF ListedOnce, FilesListedOnce
      <3>5. QED
        BY <3>1, <3>4 DEF OutputIsExact, PrefixRounds, CursorLands
    <2>5. CASE fmCall.what = "move" /\ fmOut = psh_movecursor(fmCall.col, fmCall.n)
      <3>1. fmOut.what = "move"
        BY <2>5, OutKinds
      <3>2. fmCall.col \in Nat /\ fmCall.n \in Int
        <4>1. fmCall.col \in 0 .. FmWidth * 2 /\ fmCall.n \in FmMoves
          BY <2>1, <2>5, CallKinds DEF FmInv
        <4>2. FmMoves \subseteq Int
          BY PshFormatAssumption
        <4>3. PICK m \in Nat : m = FmWidth * 2
          BY PshFormatAssumption
        <4>4. \A k \in 0 .. m : k \in Nat
          OBVIOUS
        <4>5. fmCall.col \in Nat
          BY ONLY <4>1, <4>3, <4>4
        <4>6. fmCall.n \in Int
          BY ONLY <4>1, <4>2
        <4>7. QED
          BY <4>5, <4>6
      <3>3. LandsAt(fmOut, fmCall.col, fmCall.n)
        BY <2>5, <3>2, LandsFact
      <3>4. CursorLands
        BY <3>3 DEF LandsAt, CursorLands
      <3>5. QED
        BY <3>1, <3>4 DEF OutputIsExact, PrefixRounds, FilesListedOnce
    <2>6. QED
      BY <2>1, <2>2, <2>3, <2>4, <2>5 DEF FmInv
  <1>4. QED
    BY <1>1, <1>2, <1>3, PTL DEF FmSpec
=============================================================================
