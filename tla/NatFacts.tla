------------------------------ MODULE NatFacts ------------------------------
(***************************************************************************)
(* Facts about numbers that several of the proofs need: the least and      *)
(* greatest elements Min and Max choose, quotients, induction stated with  *)
(* a set, recursive definitions, forwards and backwards, and what Keep     *)
(* keeps.                                                                  *)
(***************************************************************************)
EXTENDS Integers, FiniteSetsExt, Filter, WellFoundedInduction, TLAPS

(* Min finds the least element of a set of numbers, if there is any.       *)
LEMMA MinFact ==
  ASSUME NEW S, S \subseteq Nat, S # {}
  PROVE  Min(S) \in S /\ \A y \in S : Min(S) <= y
  <1>1. PICK x \in S : \A y \in S : ~(<<y, x>> \in OpToRel(<, Nat))
    BY NatLessThanWellFounded, WFMin
  <1>2. \A y \in S : ~(y < x)
    BY <1>1 DEF OpToRel
  <1>3. \A y \in S : x <= y
    BY <1>2
  <1>4. QED
    BY <1>3 DEF Min

(* A quotient is the number of times the divisor fits.                     *)
LEMMA DivFits ==
  ASSUME NEW P \in Nat \ {0}, NEW x \in Nat, NEW q \in Nat, q * P <= x, x < q * P + P
  PROVE  x \div P = q
  <1> DEFINE y == x \div P
  <1>1. x = P * (x \div P) + (x % P) /\ x % P \in 0 .. P - 1 /\ x \div P \in Nat
    OBVIOUS
  <1> HIDE DEF y
  <1>2. P * y <= x /\ x < P * y + P /\ y \in Nat
    BY <1>1 DEF y
  <1>3. CASE y < q
    <2>1. P * (y + 1) <= P * q
      BY <1>2, <1>3
    <2>2. P * (y + 1) = P * y + P
      BY <1>2
    <2>3. QED
      BY <2>1, <2>2, <1>2
  <1>4. CASE q < y
    <2>1. P * (q + 1) <= P * y
      BY <1>2, <1>4
    <2>2. P * (q + 1) = P * q + P
      OBVIOUS
    <2>3. QED
      BY <2>1, <2>2, <1>2
  <1>5. QED
    BY <1>2, <1>3, <1>4 DEF y

(* Max finds the greatest element of a bounded set of numbers.             *)
LEMMA MaxFact ==
  ASSUME NEW S, S \subseteq Nat, S # {}, NEW n \in Nat, \A x \in S : x <= n
  PROVE  Max(S) \in S /\ \A y \in S : y <= Max(S)
  <1> DEFINE T == {n - x : x \in S}
  <1>6. \A x \in S : x \in Nat /\ n - x \in Nat
    OBVIOUS
  <1>1. T \subseteq Nat /\ T # {}
    BY <1>6
  <1>2. Min(T) \in T /\ \A y \in T : Min(T) <= y
    <2> HIDE DEF T
    <2>1. QED
      BY <1>1, MinFact
  <1>3. PICK x \in S : Min(T) = n - x
    BY <1>2
  <1>4. \A y \in S : y <= x
    <2>1. ASSUME NEW y \in S PROVE y <= x
      <3>1. n - x <= n - y
        BY <1>2, <1>3
      <3>2. x \in Nat /\ y \in Nat
        BY <1>6
      <3>3. QED
        BY ONLY n \in Nat, <3>1, <3>2
    <2>2. QED
      BY <2>1
  <1>5. QED
    BY <1>4 DEF Max

(* A set of numbers that holds 0 and the successor of each of its elements *)
(* holds every number.                                                     *)
LEMMA SetInduction ==
  ASSUME NEW T, 0 \in T, \A n \in Nat : n \in T => n + 1 \in T
  PROVE  Nat \subseteq T
  <1> SUFFICES ASSUME Nat \ T # {} PROVE FALSE
    OBVIOUS
  <1>1. Min(Nat \ T) \in Nat \ T /\ \A y \in Nat \ T : Min(Nat \ T) <= y
    BY MinFact
  <1> DEFINE m == Min(Nat \ T)
  <1> HIDE DEF m
  <1>2. m \in Nat /\ m \notin T /\ \A y \in Nat : y < m => y \in T
    BY <1>1 DEF m
  <1>3. m # 0
    BY <1>2
  <1>4. m - 1 \in Nat /\ m - 1 < m
    BY <1>2, <1>3
  <1>5. m - 1 \in T
    BY <1>2, <1>4
  <1>6. (m - 1) + 1 \in T
    BY <1>4, <1>5
  <1>7. QED
    BY <1>2, <1>6

StepsIn(g, n, X) == \A i \in 1 .. n : \A x \in X : g[<<i, x>>] \in X

Recursive(f, g, n, a) == f[0] = a /\ \A i \in 1 .. n : f[i] = g[<<i, f[i - 1]>>]

(* A recursive definition up to n has a solution: some f begins with a and *)
(* has g of each of its values for the next one.                           *)
LEMMA Recursion ==
  ASSUME NEW n \in Nat, NEW X, NEW a \in X, NEW g, StepsIn(g, n, X)
  PROVE  \E f \in [0 .. n -> X] : Recursive(f, g, n, a)
  <1> USE DEF StepsIn, Recursive
  <1> DEFINE Solves(k, f) == f[0] = a /\ \A i \in 1 .. k : f[i] = g[<<i, f[i - 1]>>]
             T == {k \in Nat : k <= n => \E f \in [0 .. k -> X] : Solves(k, f)}
  <1>1. 0 \in T
    <2> DEFINE f == [i \in 0 .. 0 |-> a]
    <2>1. f \in [0 .. 0 -> X] /\ Solves(0, f)
      OBVIOUS
    <2>2. QED
      BY <2>1
  <1>2. ASSUME NEW k \in Nat, k \in T PROVE k + 1 \in T
    <2> SUFFICES ASSUME k + 1 <= n PROVE \E f \in [0 .. k + 1 -> X] : Solves(k + 1, f)
      OBVIOUS
    <2>1. PICK h \in [0 .. k -> X] : Solves(k, h)
      BY <1>2
    <2> DEFINE f == [i \in 0 .. k + 1 |-> IF i = k + 1 THEN g[<<k + 1, h[k]>>] ELSE h[i]]
    <2>2. g[<<k + 1, h[k]>>] \in X
      BY <2>1
    <2>3. f \in [0 .. k + 1 -> X]
      BY <2>1, <2>2
    <2>4. \A i \in 0 .. k : f[i] = h[i]
      OBVIOUS
    <2>5. f[k + 1] = g[<<k + 1, h[k]>>]
      OBVIOUS
    <2> HIDE DEF f
    <2>6. ASSUME NEW i \in 1 .. k + 1 PROVE f[i] = g[<<i, f[i - 1]>>]
      <3>1. CASE i = k + 1
        <4>1. i - 1 = k /\ f[i - 1] = h[k]
          BY <3>1, <2>4
        <4>2. QED
          BY <4>1, <3>1, <2>5
      <3>2. CASE i # k + 1
        <4>1. i \in 1 .. k /\ i \in 0 .. k /\ i - 1 \in 0 .. k
          BY <3>2
        <4>2. f[i] = h[i] /\ f[i - 1] = h[i - 1]
          BY <4>1, <2>4
        <4>3. QED
          BY <4>1, <4>2, <2>1
      <3>3. QED
        BY <3>1, <3>2
    <2>7. f[0] = a
      BY <2>1, <2>4
    <2>8. QED
      BY <2>3, <2>6, <2>7
  <1> HIDE DEF T
  <1>3. Nat \subseteq T
    BY <1>1, <1>2, SetInduction
  <1>4. QED
    BY <1>3 DEF T

Elements(s) == {s[i] : i \in 1 .. Len(s)}

(* What Keep has kept of the first i elements.                             *)
Keeping(kept, s, S, T) ==
  /\ kept[0] = <<>>
  /\ \A i \in 1 .. Len(s) : kept[i] = IF s[i] \in S THEN Append(kept[i - 1], s[i]) ELSE kept[i - 1]
  /\ \A i \in 0 .. Len(s) : kept[i] \in Seq(T)
  /\ Keep(s, S) = kept[Len(s)]

(* Keep goes through the sequence element by element.                      *)
LEMMA KeepSteps ==
  ASSUME NEW T, NEW s \in Seq(T), NEW S
  PROVE  \E kept : Keeping(kept, s, S, T)
  <1> DEFINE n == Len(s)
             Is(f) == f = [i \in 0 .. n |-> IF i = 0 THEN <<>> ELSE IF s[i] \in S THEN Append(f[i - 1], s[i]) ELSE f[i - 1]]
             kept == CHOOSE f : Is(f)
             g == [p \in (1 .. n) \X Seq(T) |-> IF s[p[1]] \in S THEN Append(p[2], s[p[1]]) ELSE p[2]]
  <1>1. n \in Nat /\ \A i \in 1 .. n : s[i] \in T
    OBVIOUS
  <1>2. \A i \in 1 .. n : \A x \in Seq(T) :
          g[<<i, x>>] = IF s[i] \in S THEN Append(x, s[i]) ELSE x
    OBVIOUS
  <1> HIDE DEF n, g, Is, kept
  <1>3. ASSUME NEW i \in 1 .. n, NEW x \in Seq(T) PROVE g[<<i, x>>] \in Seq(T)
    <2>1. Append(x, s[i]) \in Seq(T)
      BY <1>1
    <2>2. QED
      BY <1>2, <2>1
  <1> DEFINE X == Seq(T)
             a == <<>>
  <1>4. a \in X
    OBVIOUS
  <1>5. PICK f \in [0 .. n -> X] : Recursive(f, g, n, a)
    <2> HIDE DEF X, a
    <2>1. StepsIn(g, n, X)
      BY <1>3 DEF X, StepsIn
    <2>2. n \in Nat
      BY <1>1
    <2>3. QED
      BY <1>4, <2>1, <2>2, Recursion
  <1>6. ASSUME NEW i \in 1 .. n
        PROVE  f[i] = IF s[i] \in S THEN Append(f[i - 1], s[i]) ELSE f[i - 1]
    <2>1. i - 1 \in 0 .. n
      BY <1>1
    <2>2. f[i - 1] \in Seq(T)
      BY <1>5, <2>1
    <2>3. QED
      BY <1>2, <1>5, <2>2 DEF Recursive
  <1>7. Is(f)
    <2>1. f = [i \in 0 .. n |-> f[i]]
      BY <1>5
    <2>2. ASSUME NEW i \in 0 .. n
          PROVE  f[i] = IF i = 0 THEN <<>> ELSE IF s[i] \in S THEN Append(f[i - 1], s[i]) ELSE f[i - 1]
      <3>1. CASE i = 0
        BY <3>1, <1>5 DEF Recursive
      <3>2. CASE i # 0
        <4>1. i \in 1 .. n
          BY <3>2, <1>1
        <4>2. QED
          BY <4>1, <3>2, <1>6
      <3>3. QED
        BY <3>1, <3>2
    <2>3. QED
      BY <2>1, <2>2 DEF Is
  <1>8. Is(kept)
    BY <1>7 DEF kept
  <1>9. Keep(s, S) = kept[n]
    BY DEF Keep, n, kept, Is
  <1>10. /\ kept[0] = <<>>
         /\ \A i \in 1 .. n : kept[i] = IF s[i] \in S THEN Append(kept[i - 1], s[i]) ELSE kept[i - 1]
    <2>1. 0 \in 0 .. n /\ \A i \in 1 .. n : i \in 0 .. n /\ i # 0
      BY <1>1
    <2>2. \A i \in 0 .. n : kept[i] = IF i = 0 THEN <<>>
                                       ELSE IF s[i] \in S THEN Append(kept[i - 1], s[i]) ELSE kept[i - 1]
      BY <1>8 DEF Is
    <2>3. QED
      BY <2>1, <2>2
  <1> DEFINE U == {k \in Nat : k <= n => kept[k] \in Seq(T)}
  <1>11. 0 \in U
    BY <1>4, <1>10
  <1>12. ASSUME NEW k \in Nat, k \in U PROVE k + 1 \in U
    <2> SUFFICES ASSUME k + 1 <= n PROVE kept[k + 1] \in Seq(T)
      OBVIOUS
    <2>1. kept[k] \in Seq(T)
      BY <1>12, <1>1
    <2>2. kept[k + 1] = IF s[k + 1] \in S THEN Append(kept[k], s[k + 1]) ELSE kept[k]
      BY <1>10, <1>1
    <2>3. s[k + 1] \in T
      BY <1>1
    <2>4. QED
      BY <2>1, <2>2, <2>3
  <1> HIDE DEF U
  <1>13. Nat \subseteq U
    BY <1>11, <1>12, SetInduction
  <1>14. \A i \in 0 .. n : kept[i] \in Seq(T)
    <2>1. \A i \in 0 .. n : i \in Nat /\ i <= n
      BY <1>1
    <2>2. QED
      BY <1>13, <2>1 DEF U
  <1>15. QED
    BY <1>9, <1>10, <1>14 DEF Keeping, n

(* Keep returns a sequence, of the elements of s that are in S.            *)
LEMMA KeepFact ==
  ASSUME NEW T, NEW s \in Seq(T), NEW S
  PROVE  Keep(s, S) \in Seq(T) /\ Elements(Keep(s, S)) = Elements(s) \cap S
  <1> DEFINE n == Len(s)
  <1>1. n \in Nat /\ \A i \in 1 .. n : s[i] \in T
    OBVIOUS
  <1>2. PICK kept : Keeping(kept, s, S, T)
    BY KeepSteps
  <1>9. Keep(s, S) = kept[n]
    BY <1>2 DEF Keeping
  <1>10. /\ kept[0] = <<>> /\ <<>> \in Seq(T)
         /\ \A i \in 1 .. n : kept[i] = IF s[i] \in S THEN Append(kept[i - 1], s[i]) ELSE kept[i - 1]
    BY <1>2 DEF Keeping
  <1> HIDE DEF n
  <1> DEFINE U == {k \in Nat : k <= n => /\ kept[k] \in Seq(T)
                                          /\ Elements(kept[k]) = {s[i] : i \in 1 .. k} \cap S}
  <1>11. 0 \in U
    <2>1. {s[i] : i \in 1 .. 0} = {} /\ Elements(<<>>) = {}
      BY DEF Elements
    <2>2. QED
      BY <1>10, <2>1
  <1>12. ASSUME NEW k \in Nat, k \in U PROVE k + 1 \in U
    <2> SUFFICES ASSUME k + 1 <= n
                 PROVE  /\ kept[k + 1] \in Seq(T)
                        /\ Elements(kept[k + 1]) = {s[i] : i \in 1 .. k + 1} \cap S
      OBVIOUS
    <2>1. kept[k] \in Seq(T) /\ Elements(kept[k]) = {s[i] : i \in 1 .. k} \cap S
      BY <1>12, <1>1
    <2>2. kept[k + 1] = IF s[k + 1] \in S THEN Append(kept[k], s[k + 1]) ELSE kept[k]
      BY <1>10, <1>1
    <2>3. {s[i] : i \in 1 .. k + 1} = {s[i] : i \in 1 .. k} \cup {s[k + 1]}
      BY <1>1
    <2>4. s[k + 1] \in T
      BY <1>1
    <2>5. CASE s[k + 1] \in S
      <3>1. Elements(Append(kept[k], s[k + 1])) = Elements(kept[k]) \cup {s[k + 1]}
        <4> DEFINE x == kept[k]
                   e == s[k + 1]
        <4>1. x \in Seq(T) /\ e \in T
          BY <2>1, <2>4
        <4> HIDE DEF x, e
        <4>2. /\ Len(Append(x, e)) = Len(x) + 1 /\ Append(x, e)[Len(x) + 1] = e
              /\ Len(x) \in Nat /\ \A i \in 1 .. Len(x) : Append(x, e)[i] = x[i]
          BY <4>1
        <4>3. Elements(Append(x, e)) = Elements(x) \cup {e}
          BY <4>2 DEF Elements
        <4>4. QED
          BY <4>3 DEF x, e
      <3>2. QED
        BY <2>1, <2>2, <2>3, <2>4, <2>5, <3>1
    <2>6. CASE s[k + 1] \notin S
      BY <2>1, <2>2, <2>3, <2>6
    <2>7. QED
      BY <2>5, <2>6
  <1> HIDE DEF U
  <1>13. Nat \subseteq U
    BY <1>11, <1>12, SetInduction
  <1>14. kept[n] \in Seq(T) /\ Elements(kept[n]) = {s[i] : i \in 1 .. n} \cap S
    <2>1. n \in U /\ n <= n
      BY <1>1, <1>13
    <2>2. QED
      BY <2>1 DEF U
  <1>15. QED
    BY <1>9, <1>14 DEF Elements, n

(* The numbers of s are in ascending order.                                *)
Ascending(s) == \A i, j \in 1 .. Len(s) : i < j => s[i] < s[j]

(* Keep keeps the order.                                                   *)
LEMMA KeepSorted ==
  ASSUME NEW s \in Seq(Int), Ascending(s), NEW S
  PROVE  Ascending(Keep(s, S))
  <1> DEFINE n == Len(s)
  <1>1. n \in Nat /\ \A i \in 1 .. n : s[i] \in Int
    OBVIOUS
  <1>2. PICK kept : Keeping(kept, s, S, Int)
    BY KeepSteps
  <1>3. /\ kept[0] = <<>> /\ Keep(s, S) = kept[n]
        /\ \A i \in 1 .. n : kept[i] = IF s[i] \in S THEN Append(kept[i - 1], s[i]) ELSE kept[i - 1]
        /\ \A i \in 0 .. n : kept[i] \in Seq(Int)
    BY <1>2 DEF Keeping
  <1> HIDE DEF n
  <1> DEFINE Before(t, k) == \A i \in 1 .. Len(t) : \A j \in k + 1 .. n : t[i] < s[j]
             U == {k \in Nat : k <= n => Ascending(kept[k]) /\ Before(kept[k], k)}
  <1>4. 0 \in U
    BY <1>3 DEF Ascending
  <1>5. ASSUME NEW k \in Nat, k \in U PROVE k + 1 \in U
    <2> SUFFICES ASSUME k + 1 <= n PROVE Ascending(kept[k + 1]) /\ Before(kept[k + 1], k + 1)
      OBVIOUS
    <2> DEFINE t == kept[k]
               e == s[k + 1]
    <2>1. k \in 0 .. n /\ k + 1 \in 1 .. n /\ (k + 1) - 1 = k
      BY <1>1
    <2>2. t \in Seq(Int) /\ Ascending(t) /\ Before(t, k) /\ e \in Int
      BY <1>1, <1>3, <1>5, <2>1
    <2>3. kept[k + 1] = IF e \in S THEN Append(t, e) ELSE t
      BY <1>3, <2>1
    <2>4. \A j \in (k + 1) + 1 .. n : j \in k + 1 .. n /\ j \in 1 .. n /\ k + 1 < j
      BY <1>1, <2>1
    <2>5. \A j \in (k + 1) + 1 .. n : e < s[j]
      <3>1. \A i, j \in 1 .. n : i < j => s[i] < s[j]
        BY DEF Ascending, n
      <3>2. QED
        BY <2>1, <2>4, <3>1
    <2>6. \A i \in 1 .. Len(t) : t[i] < e
      <3>1. k + 1 \in k + 1 .. n
        BY <1>1, <2>1
      <3>2. QED
        BY <2>2, <3>1
    <2>7. Before(t, k + 1)
      BY <2>2, <2>4
    <2> HIDE DEF t, e
    <2>8. CASE e \notin S
      BY <2>2, <2>3, <2>7, <2>8
    <2>9. CASE e \in S
      <3> DEFINE w == Append(t, e)
      <3>1. /\ Len(t) \in Nat /\ Len(w) = Len(t) + 1 /\ w[Len(t) + 1] = e
            /\ \A i \in 1 .. Len(t) : w[i] = t[i]
        BY <2>2
      <3> HIDE DEF w
      <3>2. \A i \in 1 .. Len(w) : i \in 1 .. Len(t) \/ i = Len(t) + 1
        BY <3>1
      <3>3. Before(w, k + 1)
        BY <2>5, <2>7, <3>1, <3>2
      <3>4. ASSUME NEW i \in 1 .. Len(w), NEW j \in 1 .. Len(w), i < j PROVE w[i] < w[j]
        <4>1. i \in 1 .. Len(t)
          BY <3>1, <3>2, <3>4
        <4>2. CASE j \in 1 .. Len(t)
          BY <2>2, <3>1, <3>4, <4>1, <4>2 DEF Ascending
        <4>3. CASE j = Len(t) + 1
          BY <2>6, <3>1, <4>1, <4>3
        <4>4. QED
          BY <3>2, <4>2, <4>3
      <3>5. Ascending(w)
        BY <3>4 DEF Ascending
      <3>6. QED
        BY <2>3, <2>9, <3>3, <3>5 DEF w
    <2>10. QED
      BY <2>8, <2>9
  <1> HIDE DEF U
  <1>6. Nat \subseteq U
    BY <1>4, <1>5, SetInduction
  <1>7. Ascending(kept[n])
    BY <1>1, <1>6 DEF U
  <1>8. QED
    BY <1>3, <1>7

(* A table whose entries depend on the ones after them has a solution.     *)
LooksAhead(g, n, X) ==
  /\ \A p \in 1 .. n : \A f \in [1 .. n + 1 -> X] : g[<<p, f>>] \in X
  /\ \A p \in 1 .. n : \A f, h \in [1 .. n + 1 -> X] :
       (\A q \in p + 1 .. n + 1 : f[q] = h[q]) => g[<<p, f>>] = g[<<p, h>>]

Backward(f, g, n, a) == f[n + 1] = a /\ \A p \in 1 .. n : f[p] = g[<<p, f>>]

LEMMA Descent ==
  ASSUME NEW n \in Nat, NEW X, NEW a \in X, NEW g, LooksAhead(g, n, X)
  PROVE  \E f \in [1 .. n + 1 -> X] : Backward(f, g, n, a)
  <1> DEFINE Solves(f, i) == f[n + 1] = a /\ \A q \in n + 1 - i .. n : f[q] = g[<<q, f>>]
             T == {i \in Nat : i <= n => \E f \in [1 .. n + 1 -> X] : Solves(f, i)}
  <1>1. 0 \in T
    <2> DEFINE f == [q \in 1 .. n + 1 |-> a]
    <2>1. f \in [1 .. n + 1 -> X] /\ f[n + 1] = a
      OBVIOUS
    <2>2. Solves(f, 0)
      BY <2>1
    <2>3. QED
      BY <2>1, <2>2
  <1>2. ASSUME NEW i \in Nat, i \in T  PROVE i + 1 \in T
    <2> SUFFICES ASSUME i + 1 <= n  PROVE \E f \in [1 .. n + 1 -> X] : Solves(f, i + 1)
      OBVIOUS
    <2>1. PICK f \in [1 .. n + 1 -> X] : Solves(f, i)
      BY <1>2
    <2>2. PICK p \in 1 .. n : p = n - i
      OBVIOUS
    <2>3. g[<<p, f>>] \in X
      BY DEF LooksAhead
    <2> DEFINE h == [q \in 1 .. n + 1 |-> IF q = p THEN g[<<p, f>>] ELSE f[q]]
    <2>4. h \in [1 .. n + 1 -> X] /\ h[p] = g[<<p, f>>] /\ \A q \in 1 .. n + 1 : q # p => h[q] = f[q]
      BY <2>3
    <2> HIDE DEF h
    <2>5. ASSUME NEW q \in p .. n  PROVE g[<<q, f>>] = g[<<q, h>>]
      <3>1. \A r \in q + 1 .. n + 1 : f[r] = h[r]
        BY <2>4
      <3>2. q \in 1 .. n
        OBVIOUS
      <3>3. QED
        BY <2>4, <3>1, <3>2 DEF LooksAhead
    <2>6. ASSUME NEW q \in n + 1 - (i + 1) .. n  PROVE h[q] = g[<<q, h>>]
      <3>1. q \in p .. n /\ q \in 1 .. n + 1
        BY <2>2
      <3>2. CASE q = p
        BY <2>4, <2>5, <3>1, <3>2
      <3>3. CASE q # p
        <4>1. q \in n + 1 - i .. n
          BY <2>2, <3>1, <3>3
        <4>2. h[q] = f[q] /\ f[q] = g[<<q, f>>]
          BY <2>1, <2>4, <3>1, <3>3, <4>1
        <4>3. QED
          BY <2>5, <3>1, <4>2
      <3>4. QED
        BY <3>2, <3>3
    <2>7. h[n + 1] = a
      <3>1. n + 1 \in 1 .. n + 1 /\ n + 1 # p
        OBVIOUS
      <3>2. QED
        BY <2>1, <2>4, <3>1
    <2>8. QED
      BY <2>4, <2>6, <2>7
  <1> HIDE DEF T
  <1>3. Nat \subseteq T
    BY <1>1, <1>2, SetInduction
  <1>4. PICK f \in [1 .. n + 1 -> X] : Solves(f, n)
    BY <1>3 DEF T
  <1>5. n + 1 - n = 1
    OBVIOUS
  <1>6. QED
    BY <1>4, <1>5 DEF Backward
=============================================================================
