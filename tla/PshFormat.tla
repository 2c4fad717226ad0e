------------------------------ MODULE PshFormat -----------------------------
(***************************************************************************)
(* What psh computes in order to print: a number with a binary or an SI    *)
(* prefix, the columns of a list of completions, and the way to a place on *)
(* a line that wraps.  Each is one function of its arguments, called once  *)
(* and compared with what it stands for.                                   *)
(***************************************************************************)
EXTENDS Integers, Sequences, FiniteSets, Filter

CONSTANTS
  FmNumbers,    \* x of psh_prefix
  FmExponents,  \* y
  FmPrecs,      \* prec
  FmNames,      \* directories: sequences of names, given by length and by whether the base fits
  FmWidth,      \* ws_col
  FmMoves       \* col and n of psh_movecursor

FmFile == [len : Nat, fits : BOOLEAN]

psh_mod(x, y) == x % y
psh_div(x, y) == (x - psh_mod(x, y)) \div y
psh_pow(x, y) == LET pow[k \in 0 .. y] == IF k = 0 THEN 1 ELSE x * pow[k - 1] IN pow[y]
abs(x) == IF x < 0 THEN -x ELSE x

(* x is an int whose abs is one, and prec at most 8 or it is refused.      *)
ASSUME PshFormatAssumption ==
  /\ FmWidth \in Nat \ {0} /\ FmNames \subseteq Seq(FmFile) /\ FmMoves \subseteq Int
  /\ FmNumbers \subseteq Int /\ \A x \in FmNumbers : abs(x) \div 2 < psh_pow(2, 30)
  /\ FmExponents \subseteq Int /\ FmPrecs \subseteq 0 .. 8

VARIABLES
  fmCall,  \* the call
  fmOut    \* its result

fmVars == <<fmCall, fmOut>>

Pending == [what |-> "none"]

FmCalls ==
  [what : {"prefix"}, base : {2, 10}, x : FmNumbers, y : FmExponents, prec : FmPrecs]
    \cup [what : {"files"}, dir : FmNames] \cup [what : {"move"}, col : 0 .. FmWidth * 2, n : FmMoves]

FmInit == fmCall \in FmCalls /\ fmOut = Pending

-----------------------------------------------------------------------------
(* psh_prefix.                                                             *)
psh_log(base, x) == IF x = 0 THEN 0 ELSE CHOOSE n \in 0 .. 31 : psh_pow(base, n) <= x /\ x < psh_pow(base, n + 1)

(* psh_bp, psh_si: the exponents that have a prefix, and the steps they    *)
(* come in.                                                                *)
PrefixStep(base) == IF base = 2 THEN 10 ELSE 3
HasPrefix(base, exp) ==
  LET i == psh_div(exp, PrefixStep(base)) IN IF base = 2 THEN i \in 0 .. 8 ELSE i + 8 \in 0 .. 16

(* A fraction that rounds up to one whole is carried over.                 *)
Carried_not(r, base, prec) == r
Carried(r, base, prec) ==
  IF r.fpart # psh_pow(10, prec) THEN r
  ELSE IF r.ipart + 1 = psh_pow(base, PrefixStep(base))
       THEN [r EXCEPT !.ipart = 1, !.fpart = 0, !.exp = @ + PrefixStep(base)]
       ELSE [r EXCEPT !.ipart = @ + 1, !.fpart = 0]

(* The digits are cut one place further than asked for, then rounded.      *)
psh_prefix(base, x0, y, prec) ==
  LET log == psh_log(base, abs(x0))
      exp == log + y
      low == log - psh_mod(exp, PrefixStep(base))
      x == IF low < 0 THEN abs(x0) * psh_pow(base, -low) ELSE abs(x0)
      div == psh_pow(base, IF low < 0 THEN 0 ELSE low)
      cut == (psh_pow(10, prec + 1) * (x % div)) \div div
      r == Carried([ipart |-> x \div div, fpart |-> (cut + 5) \div 10, exp |-> exp], base, prec)
      shown == IF r.ipart = 0 /\ r.fpart = 0 THEN [r EXCEPT !.exp = y] ELSE r
  IN [what |-> "prefix", ok |-> HasPrefix(base, shown.exp), ipart |-> r.ipart, fpart |-> r.fpart,
      exp |-> psh_div(shown.exp, PrefixStep(base)) * PrefixStep(base)]

-----------------------------------------------------------------------------
(* psh_completepath: the names of the directory that start with the base;  *)
(* each gets a mark, a slash or a blank.                                   *)
psh_completepath(dir) ==
  LET fits == Keep(dir, {f \in FmFile : f.fits}) IN [i \in DOMAIN fits |-> fits[i].len + 1]

Sum(s) == LET sum[i \in 0 .. Len(s)] == IF i = 0 THEN 0 ELSE sum[i - 1] + s[i] IN sum[Len(s)]
Ceil(a, b) == a \div b + IF a % b = 0 THEN 0 ELSE 1

(* The widths of the columns when the files go down in rows rows: two more *)
(* than the longest name, but in the last one.                             *)
ColSizes(files, rows) ==
  LET cols == Ceil(Len(files), rows)
      inCol(c) == {i \in DOMAIN files : (i - 1) \div rows = c - 1}
      longest(c) == CHOOSE n \in {files[i] : i \in inCol(c)} : \A i \in inCol(c) : files[i] <= n
  IN [c \in 1 .. cols |-> longest(c) + IF c = cols THEN 0 ELSE 2]

(* psh_printfiles: as many rows as it takes for the columns to fit, and    *)
(* one per file when they never do.  The search starts with the rows the   *)
(* names need at least: past the number of files it is not entered, and    *)
(* the one column's width was never set.                                   *)
psh_printfiles(files) ==
  LET n == Len(files)
      first == Sum(files) \div FmWidth + 1
      good == {r \in first .. n : Sum(ColSizes(files, r)) < FmWidth}
      rows == IF first > n THEN first
              ELSE IF good = {} THEN n + 1 ELSE CHOOSE r \in good : \A s \in good : r <= s
      cols == IF first > n THEN n \div first + 1 ELSE Ceil(n, IF rows > n THEN n ELSE rows)
  IN [what |-> "files", rows |-> rows, cols |-> cols, room |-> n \div first + 1, set |-> first <= n, fits |-> good # {},
      cells |-> [p \in (1 .. rows) \X (1 .. cols) |-> LET i == (p[2] - 1) * rows + p[1] IN IF i <= n THEN i ELSE 0]]

(* psh_movecursor: whole lines up or down, then the columns.               *)
psh_movecursor(col0, n) ==
  LET col == col0 % FmWidth
      to == col + n
      up == IF to < 0 THEN ((- to) + FmWidth - 1) \div FmWidth ELSE 0
      down == IF to > FmWidth - 1 THEN to \div FmWidth ELSE 0
  IN [what |-> "move", lines |-> down - up, cols |-> n + up * FmWidth - down * FmWidth]

-----------------------------------------------------------------------------
FmPrefix ==
  /\ fmCall.what = "prefix" /\ fmOut = Pending
  /\ fmOut' = psh_prefix(fmCall.base, fmCall.x, fmCall.y, fmCall.prec) /\ UNCHANGED fmCall
FmFiles ==
  /\ fmCall.what = "files" /\ fmOut = Pending /\ psh_completepath(fmCall.dir) # <<>>
  /\ fmOut' = psh_printfiles(psh_completepath(fmCall.dir)) /\ UNCHANGED fmCall
FmMove ==
  /\ fmCall.what = "move" /\ fmOut = Pending
  /\ fmOut' = psh_movecursor(fmCall.col, fmCall.n) /\ UNCHANGED fmCall

FmNext == FmPrefix \/ FmFiles \/ FmMove

FmSpec == FmInit /\ [][FmNext]_fmVars

-----------------------------------------------------------------------------
(* The number printed is the number given, rounded half up to the last     *)
(* digit asked for, with the prefix that leaves at least one digit and     *)
(* less than a thousand (1024) before the point.                           *)
PrefixRounds ==
  fmOut.what = "prefix" /\ fmOut.ok =>
    LET c == fmCall
        d == c.y - fmOut.exp
        exact == abs(c.x) * psh_pow(c.base, IF d > 0 THEN d ELSE 0) * psh_pow(10, c.prec)
        unit == psh_pow(c.base, IF d < 0 THEN - d ELSE 0)
        shown == (fmOut.ipart * psh_pow(10, c.prec) + fmOut.fpart) * unit
    IN /\ 2 * abs(shown - exact) <= unit
       /\ c.x # 0 => fmOut.ipart \in 1 .. psh_pow(c.base, PrefixStep(c.base)) - 1
       /\ fmOut.fpart < psh_pow(10, c.prec)

(* Every completion is listed exactly once, and the widths that are stored *)
(* have room in the array, which is sized for the first attempt.           *)
FilesListedOnce ==
  fmOut.what = "files" =>
    LET n == Len(psh_completepath(fmCall.dir)) IN
    /\ \A i \in 1 .. n : Cardinality({p \in DOMAIN fmOut.cells : fmOut.cells[p] = i}) = 1
    /\ fmOut.set => fmOut.cols <= fmOut.room

(* The cursor ends n characters on, on the line and the column the text    *)
(* that wraps has there.                                                   *)
CursorLands ==
  fmOut.what = "move" =>
    LET at == fmCall.col % FmWidth
        to == at + fmOut.cols
    IN to \in 0 .. FmWidth - 1 /\ fmOut.lines * FmWidth + to = at + fmCall.n

(* Numbers, completions and the cursor come out as they should for every   *)
(* argument, the ones at the limits of psh_prefix's steps and of the width *)
(* of the terminal included.                                               *)
OutputIsExact == PrefixRounds /\ FilesListedOnce /\ CursorLands
=============================================================================
