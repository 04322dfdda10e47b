------------------------------ MODULE PrintfProofs ------------------------------
(***************************************************************************)
(* Theorems about the formatter of Printf, for every width of the integer   *)
(* types, buffer of digits, alphabet, strings and well written calls.       *)
(***************************************************************************)
EXTENDS Printf, RecursionLemmas

Text == Seq(Characters)

LEMMA MaxTwo ==
  ASSUME NEW a \in Int, NEW b \in Int PROVE Max({a, b}) = IF a >= b THEN a ELSE b
<1> DEFINE m == IF a >= b THEN a ELSE b
<1>1. m \in {a, b} /\ \A y \in {a, b} : m >= y OBVIOUS
<1>2. \A x \in {a, b} : (\A y \in {a, b} : x >= y) => x = m OBVIOUS
<1> QED BY <1>1, <1>2 DEF Max

LEMMA MinTwo ==
  ASSUME NEW a \in Int, NEW b \in Int PROVE Min({a, b}) = IF a <= b THEN a ELSE b
<1> DEFINE m == IF a <= b THEN a ELSE b
<1>1. m \in {a, b} /\ \A y \in {a, b} : m <= y OBVIOUS
<1>2. \A x \in {a, b} : (\A y \in {a, b} : x <= y) => x = m OBVIOUS
<1> QED BY <1>1, <1>2 DEF Min

LEMMA Letters ==
  /\ NUL \in Characters /\ " " \in Characters /\ "-" \in Characters /\ "+" \in Characters
  /\ "x" \in Characters /\ "X" \in Characters /\ "b" \in Characters /\ "0" \in Characters
  /\ \A k \in 1 .. 16 : DigitChar[k] \in Characters /\ UpperChar[k] \in Characters
<1>1. DigitChar[1] = "0" BY DEF DigitChar
<1>2. "0" \in Characters
  <2>1. 1 \in 1 .. 16 OBVIOUS
  <2> QED BY <1>1, <2>1, CharacterAssumption
<1>3. \A k \in 1 .. 16 : DigitChar[k] \in Characters /\ UpperChar[k] \in Characters
  BY CharacterAssumption
<1>4. {NUL, " ", "-", "+", "x", "X", "b"} \subseteq Characters BY CharacterAssumption
<1>5. \A c \in {NUL, " ", "-", "+", "x", "X", "b"} : c \in Characters BY <1>4
<1> QED BY <1>2, <1>3, <1>5

LEMMA AppendLast ==
  ASSUME NEW S, NEW s \in Seq(S), NEW t \in Seq(S), NEW c \in S
  PROVE  s \o Append(t, c) = Append(s \o t, c)
OBVIOUS

LEMMA SameText ==
  ASSUME NEW s \in Text, NEW t \in Text, Len(s) = Len(t),
         \A k \in 1 .. Len(s) : s[k] = t[k]
  PROVE  s = t
BY DEF Text

LEMMA RepeatText ==
  ASSUME NEW c \in Characters, NEW n \in Int
  PROVE  /\ Repeat(c, n) \in Text /\ Len(Repeat(c, n)) = (IF n >= 0 THEN n ELSE 0)
         /\ \A k \in 1 .. n : Repeat(c, n)[k] = c
         /\ n <= 0 => Repeat(c, n) = <<>>
<1>1. CASE n >= 0 BY <1>1 DEF Repeat, Text
<1>2. CASE n < 0
  <2>1. Repeat(c, n) = [k \in {} |-> c]
    <3>1. 1 .. n = {} BY <1>2
    <3> QED BY <3>1 DEF Repeat
  <2>2. [k \in {} |-> c] = <<>> OBVIOUS
  <2> QED BY <1>2, <2>1, <2>2 DEF Text
<1> QED BY <1>1, <1>2

LEMMA NoBlank == Repeat(" ", 0) = <<>>
<1>1. \A n \in Int : n <= 0 => Repeat(" ", n) = <<>> BY Letters, RepeatText
<1>2. 0 \in Int /\ 0 <= 0 OBVIOUS
<1> QED BY <1>1, <1>2, Zenon

LEMMA TextRecursion ==
  ASSUME NEW first \in Text, NEW step \in [Nat -> [Text -> Text]], NEW N \in Nat
  PROVE  \E f \in [0 .. N -> Text] :
           f[0] = first /\ \A n \in 1 .. N : f[n] = step[n][f[n-1]]
BY RecursionExists

-----------------------------------------------------------------------------
(* What the console is shown: the definition's function exists, and what is *)
(* shown of two texts is shown of one after the other.                      *)
LEMMA ShownDefined ==
  ASSUME NEW s \in Text
  PROVE  \E f \in [0 .. Len(s) -> Text] :
           /\ f[0] = <<>> /\ Shown(s) = f[Len(s)]
           /\ \A n \in 1 .. Len(s) :
                f[n] = IF s[n] = NUL THEN f[n-1] ELSE Append(f[n-1], s[n])
<1>0. PICK N \in Nat : N = Len(s) BY DEF Text
<1> DEFINE char == [n \in Nat |-> IF n \in 1 .. N THEN s[n] ELSE NUL]
           step == [n \in Nat |-> [t \in Text |->
                     IF char[n] = NUL THEN t ELSE Append(t, char[n])]]
           Body(f) == [n \in 0 .. N |->
                        IF n = 0 THEN <<>>
                        ELSE IF s[n] = NUL THEN f[n-1] ELSE Append(f[n-1], s[n])]
<1>1. N \in Nat /\ <<>> \in Text BY DEF Text
<1>2. step \in [Nat -> [Text -> Text]]
  <2>1. \A n \in Nat : char[n] \in Characters
    <3>1. \A n \in 1 .. N : s[n] \in Characters BY <1>0 DEF Text
    <3> QED BY <3>1, Letters
  <2>2. \A t \in Text, c \in Characters : Append(t, c) \in Text BY DEF Text
  <2> HIDE DEF char
  <2> QED BY <2>1, <2>2
<1>3. PICK f \in [0 .. N -> Text] :
        f[0] = <<>> /\ \A n \in 1 .. N : f[n] = step[n][f[n-1]]
  <2> DEFINE first == <<>>
  <2>1. first \in Text BY <1>1
  <2> HIDE DEF step, first
  <2>2. \E f \in [0 .. N -> Text] :
          f[0] = first /\ \A n \in 1 .. N : f[n] = step[n][f[n-1]]
    <3>1. step \in [Nat -> [Text -> Text]] BY <1>2
    <3> HIDE DEF Body
    <3>2. N \in Nat BY <1>0
    <3> QED BY <2>1, <3>1, <3>2, TextRecursion
  <2> QED BY <2>2 DEF first
<1>4. \A n \in 1 .. N : f[n] = IF s[n] = NUL THEN f[n-1] ELSE Append(f[n-1], s[n])
  <2> SUFFICES ASSUME NEW n \in 1 .. N
               PROVE  f[n] = IF s[n] = NUL THEN f[n-1] ELSE Append(f[n-1], s[n])
    OBVIOUS
  <2>1. n \in Nat /\ n - 1 \in 0 .. N /\ f[n-1] \in Text /\ char[n] = s[n] BY <1>1, <1>3
  <2>2. step[n][f[n-1]] = IF char[n] = NUL THEN f[n-1] ELSE Append(f[n-1], char[n])
    <3> HIDE DEF char
    <3> QED BY <2>1
  <2> QED BY <1>3, <2>1, <2>2
<1>5. f = Body(f)
  <2>1. \A n \in 0 .. N : f[n] = Body(f)[n]
    <3> SUFFICES ASSUME NEW n \in 0 .. N PROVE f[n] = Body(f)[n] OBVIOUS
    <3>1. CASE n = 0 BY <1>3, <3>1
    <3>2. CASE n # 0
      <4>1. n \in 1 .. N BY <3>2
      <4> QED BY <1>4, <3>2, <4>1
    <3> QED BY <3>1, <3>2
  <2> QED BY <1>3, <2>1
<1>6. Shown(s) = (CHOOSE g : g = Body(g))[N] BY <1>0 DEF Shown
<1>7. PICK g : g = Body(g) /\ Shown(s) = g[N] BY <1>5, <1>6
<1>8. \A n \in 0 .. N : g[n] = f[n]
  <2> DEFINE T == {n \in 0 .. N : g[n] = f[n]}
  <2>1. 0 \in T BY <1>1, <1>3, <1>7
  <2>2. ASSUME NEW n \in 0 .. N, n \in T, n < N PROVE n + 1 \in T
    <3>1. n + 1 \in 1 .. N /\ (n + 1) - 1 = n BY <2>2
    <3>2. g[n+1] = IF s[n+1] = NUL THEN g[n] ELSE Append(g[n], s[n+1])
      <4>1. n + 1 \in 0 .. N /\ n + 1 # 0 BY <2>2
      <4> QED BY <1>7, <3>1, <4>1
    <3>3. f[n+1] = IF s[n+1] = NUL THEN f[n] ELSE Append(f[n], s[n+1]) BY <1>4, <3>1
    <3> QED BY <2>2, <3>1, <3>2, <3>3
  <2>3. 0 .. N \subseteq T
    <3> HIDE DEF T
    <3> QED BY <1>1, <2>1, <2>2, BoundedInduction
  <2> QED BY <2>3
<1>9. Shown(s) = f[N] BY <1>1, <1>7, <1>8
<1> QED BY <1>0, <1>3, <1>4, <1>9

LEMMA ShownOf ==
  /\ Shown(<<>>) = <<>>
  /\ \A c \in Characters : Shown(<<c>>) = IF c = NUL THEN <<>> ELSE <<c>>
<1>1. Shown(<<>>) = <<>>
  <2>1. <<>> \in Text BY DEF Text
  <2> QED BY <2>1, ShownDefined
<1>2. ASSUME NEW c \in Characters PROVE Shown(<<c>>) = IF c = NUL THEN <<>> ELSE <<c>>
  <2>1. <<c>> \in Text /\ Len(<<c>>) = 1 /\ <<c>>[1] = c BY DEF Text
  <2>2. PICK f \in [0 .. 1 -> Text] :
          /\ f[0] = <<>> /\ Shown(<<c>>) = f[1]
          /\ \A n \in 1 .. 1 : f[n] = IF <<c>>[n] = NUL THEN f[n-1] ELSE Append(f[n-1], <<c>>[n])
    BY <2>1, ShownDefined
  <2>3. f[1] = IF c = NUL THEN f[0] ELSE Append(f[0], c) BY <2>1, <2>2
  <2> QED BY <2>2, <2>3
<1> QED BY <1>1, <1>2

LEMMA ShownAppends ==
  ASSUME NEW s \in Text, NEW t \in Text
  PROVE  Shown(s \o t) = Shown(s) \o Shown(t) /\ Shown(s) \in Text
<1> DEFINE u == s \o t
<1>0. PICK M \in Nat, N \in Nat, L \in Nat : M = Len(s) /\ N = Len(t) /\ L = Len(u)
  BY DEF Text
<1>1. u \in Text /\ L = M + N BY <1>0 DEF Text
<1>2. /\ \A n \in 1 .. M : u[n] = s[n]
      /\ \A n \in 1 .. N : u[M + n] = t[n] /\ t[n] \in Characters
  BY <1>0 DEF Text
<1> HIDE DEF u
<1>3. PICK f \in [0 .. M -> Text] :
        /\ f[0] = <<>> /\ Shown(s) = f[M]
        /\ \A n \in 1 .. M : f[n] = IF s[n] = NUL THEN f[n-1] ELSE Append(f[n-1], s[n])
  BY <1>0, ShownDefined
<1>4. PICK g \in [0 .. N -> Text] :
        /\ g[0] = <<>> /\ Shown(t) = g[N]
        /\ \A n \in 1 .. N : g[n] = IF t[n] = NUL THEN g[n-1] ELSE Append(g[n-1], t[n])
  BY <1>0, ShownDefined
<1>5. PICK h \in [0 .. L -> Text] :
        /\ h[0] = <<>> /\ Shown(u) = h[L]
        /\ \A n \in 1 .. L : h[n] = IF u[n] = NUL THEN h[n-1] ELSE Append(h[n-1], u[n])
  <2>1. u \in Text /\ L = Len(u) BY <1>0, <1>1
  <2> QED BY <2>1, ShownDefined
<1>6. h[M] = f[M]
  <2> DEFINE T == {n \in 0 .. M : h[n] = f[n]}
  <2>1. 0 \in T BY <1>1, <1>3, <1>5
  <2>2. ASSUME NEW n \in 0 .. M, n \in T, n < M PROVE n + 1 \in T
    <3>1. n + 1 \in 1 .. M /\ n + 1 \in 1 .. L /\ (n + 1) - 1 = n BY <1>1, <2>2
    <3>2. h[n+1] = IF u[n+1] = NUL THEN h[n] ELSE Append(h[n], u[n+1]) BY <1>5, <3>1
    <3>3. f[n+1] = IF s[n+1] = NUL THEN f[n] ELSE Append(f[n], s[n+1]) BY <1>3, <3>1
    <3> QED BY <1>2, <2>2, <3>1, <3>2, <3>3
  <2>3. 0 .. M \subseteq T
    <3> HIDE DEF T
    <3> QED BY <1>1, <2>1, <2>2, BoundedInduction
  <2> QED BY <1>1, <2>3
<1>7. h[M + N] = f[M] \o g[N]
  <2> DEFINE T == {n \in 0 .. N : h[M + n] = f[M] \o g[n]}
  <2>0. f[M] \in Text /\ \A n \in 0 .. N : g[n] \in Text BY <1>1, <1>3, <1>4
  <2>1. 0 \in T
    <3>1. f[M] \o <<>> = f[M] BY <2>0 DEF Text
    <3>2. M + 0 = M /\ 0 \in 0 .. N BY <1>1
    <3> QED BY <1>4, <1>6, <3>1, <3>2
  <2>2. ASSUME NEW n \in 0 .. N, n \in T, n < N PROVE n + 1 \in T
    <3>1. n + 1 \in 1 .. N /\ M + (n + 1) \in 1 .. L /\ (n + 1) - 1 = n
          /\ (M + (n + 1)) - 1 = M + n
      BY <1>1, <2>2
    <3>2. h[M + (n+1)] = IF t[n+1] = NUL THEN h[M+n] ELSE Append(h[M+n], t[n+1])
      <4>1. u[M + (n+1)] = t[n+1] BY <1>2, <3>1
      <4>2. h[M + (n+1)] = IF u[M + (n+1)] = NUL THEN h[(M + (n+1)) - 1]
                           ELSE Append(h[(M + (n+1)) - 1], u[M + (n+1)])
        BY <1>5, <3>1
      <4> QED BY <3>1, <4>1, <4>2
    <3>3. g[n+1] = IF t[n+1] = NUL THEN g[n] ELSE Append(g[n], t[n+1]) BY <1>4, <3>1
    <3>4. t[n+1] \in Characters BY <1>2, <3>1
    <3>5. Append(f[M] \o g[n], t[n+1]) = f[M] \o Append(g[n], t[n+1])
      <4>1. f[M] \in Seq(Characters) /\ g[n] \in Seq(Characters) BY <2>0, <2>2 DEF Text
      <4>2. \A a, b \in Seq(Characters), c \in Characters :
              a \o Append(b, c) = Append(a \o b, c)
        BY AppendLast
      <4> HIDE DEF T
      <4> QED BY <3>4, <4>1, <4>2
    <3>6. h[M + n] = f[M] \o g[n] BY <2>2
    <3>7. h[M + (n+1)] = f[M] \o g[n+1] BY <3>2, <3>3, <3>5, <3>6
    <3> QED BY <2>2, <3>1, <3>7
  <2>3. 0 .. N \subseteq T
    <3> HIDE DEF T
    <3> QED BY <1>1, <2>1, <2>2, BoundedInduction
  <2> QED BY <1>1, <2>3
<1>8. Shown(s) \in Text BY <1>1, <1>3
<1> QED BY <1>1, <1>3, <1>4, <1>5, <1>7, <1>8 DEF u
-----------------------------------------------------------------------------
(* Numerals: the definition's function exists, whichever base.              *)
Bases == {2, 8, 10, 16}

LEMMA Quotients ==
  ASSUME NEW base \in Bases, NEW k \in Nat
  PROVE  /\ k \div base \in Nat /\ k % base \in 0 .. base - 1
         /\ k = base * (k \div base) + (k % base)
         /\ k >= base => k \div base < k
<1>1. CASE base = 2 BY <1>1
<1>2. CASE base = 8 BY <1>2
<1>3. CASE base = 10 BY <1>3
<1>4. CASE base = 16 BY <1>4
<1> QED BY <1>1, <1>2, <1>3, <1>4 DEF Bases

LEMMA NumeralDefined ==
  ASSUME NEW base \in Bases, NEW char \in {DigitChar, UpperChar}
  PROVE  \A n \in Nat :
           /\ Numeral(n, base, char) \in Text
           /\ Numeral(n, base, char) =
                IF n < base THEN <<char[n+1]>>
                ELSE Append(Numeral(n \div base, base, char), char[(n % base) + 1])
<1> DEFINE ends == {k \in Nat : k < base}
           first == [k \in Nat |-> IF k < base THEN <<char[k+1]>> ELSE <<>>]
           less == [k \in Nat |-> k \div base]
           step == [k \in Nat |-> [t \in Text |-> Append(t, char[(k % base) + 1])]]
           Body(f) == [k \in Nat |-> IF k < base THEN <<char[k+1]>>
                                     ELSE Append(f[k \div base], char[(k % base) + 1])]
<1>1. /\ base \in Nat /\ base <= 16
      /\ \A k \in Nat : /\ k \div base \in Nat /\ k % base \in 0 .. base - 1
                        /\ k >= base => k \div base < k
  BY Quotients DEF Bases
<1>2. \A k \in 1 .. 16 : char[k] \in Characters BY Letters
<1>3. /\ \A k \in Nat : k < base => char[k+1] \in Characters
      /\ \A k \in Nat : char[(k % base) + 1] \in Characters
  <2>1. \A k \in Nat : k < base => k + 1 \in 1 .. 16 BY <1>1
  <2>2. \A k \in Nat : (k % base) + 1 \in 1 .. 16 BY <1>1
  <2> QED BY <1>2, <2>1, <2>2
<1>4. first \in [Nat -> Text]
  <2>1. <<>> \in Text /\ \A c \in Characters : <<c>> \in Text BY DEF Text
  <2> QED BY <1>3, <2>1
<1>5. step \in [Nat -> [Text -> Text]]
  <2>1. \A t \in Text, c \in Characters : Append(t, c) \in Text BY DEF Text
  <2> QED BY <1>3, <2>1
<1>6. less \in [Nat -> Nat] /\ \A n \in Nat \ ends : less[n] < n BY <1>1
<1>7. \E f : f = Body(f)
  <2>1. ends \in SUBSET Nat OBVIOUS
  <2>2. PICK f \in [Nat -> Text] :
          \A n \in Nat : f[n] = IF n \in ends THEN first[n] ELSE step[n][f[less[n]]]
    <3> HIDE DEF ends, first, less, step
    <3>1. Descent(Text, ends, first, less, step) BY <1>4, <1>5, <1>6, <2>1 DEF Descent
    <3>2. \E f \in [Nat -> Text] : Follows(f, ends, first, less, step)
      BY <3>1, CourseOfValues
    <3> QED BY <3>2 DEF Follows
  <2>3. \A n \in Nat : f[n] = Body(f)[n]
    <3> SUFFICES ASSUME NEW n \in Nat PROVE f[n] = Body(f)[n] OBVIOUS
    <3>1. CASE n < base
      <4>1. n \in ends /\ first[n] = <<char[n+1]>> BY <3>1
      <4>2. f[n] = first[n]
        <5> HIDE DEF ends, first, less, step
        <5> QED BY <2>2, <4>1
      <4> QED BY <3>1, <4>1, <4>2
    <3>2. CASE ~(n < base)
      <4>1. n \notin ends /\ less[n] = n \div base BY <3>2
      <4>2. f[n] = step[n][f[n \div base]]
        <5> HIDE DEF ends, first, less, step
        <5> QED BY <2>2, <4>1
      <4>3. f[n \div base] \in Text BY <1>1, <2>2
      <4>4. f[n] = Append(f[n \div base], char[(n % base) + 1]) BY <4>2, <4>3
      <4> QED BY <3>2, <4>4
    <3> QED BY <3>1, <3>2
  <2>4. f = Body(f) BY <2>2, <2>3
  <2> HIDE DEF Body
  <2> QED BY <2>4
<1>8. PICK g : g = CHOOSE f : f = Body(f) OBVIOUS
<1>9. g = Body(g)
  <2> HIDE DEF Body
  <2> QED BY <1>7, <1>8
<1>10. \A n : Numeral(n, base, char) = g[n] BY <1>8 DEF Numeral
<1>11. \A n \in Nat : g[n] = IF n < base THEN <<char[n+1]>>
                             ELSE Append(g[n \div base], char[(n % base) + 1])
  BY <1>9
<1>12. \A n \in Nat : g[n] \in Text
  <2> DEFINE T == {n \in Nat : g[n] \in Text}
  <2>1. ASSUME NEW n \in Nat, \A m \in 0 .. n - 1 : m \in T PROVE n \in T
    <3> SUFFICES g[n] \in Text OBVIOUS
    <3>1. CASE n < base
      <4>1. g[n] = <<char[n+1]>> /\ char[n+1] \in Characters BY <1>3, <1>11, <3>1
      <4> QED BY <4>1 DEF Text
    <3>2. CASE ~(n < base)
      <4>1. n \div base \in 0 .. n - 1
        <5>1. n \div base \in Nat /\ n \div base < n BY <1>1, <3>2
        <5> QED BY <5>1
      <4>2. g[n \div base] \in Text BY <2>1, <4>1
      <4>3. g[n] = Append(g[n \div base], char[(n % base) + 1]) BY <1>11, <3>2
      <4>4. char[(n % base) + 1] \in Characters BY <1>3
      <4> QED BY <4>2, <4>3, <4>4 DEF Text
    <3> QED BY <3>1, <3>2
  <2>2. Nat \subseteq T
    <3> HIDE DEF T
    <3> QED BY <2>1, StrongInduction
  <2> QED BY <2>2
<1> QED BY <1>1, <1>10, <1>11, <1>12
LEMMA ReverseText ==
  ASSUME NEW s \in Text PROVE Reverse(s) \in Text /\ Len(Reverse(s)) = Len(s)
<1>1. PICK n \in Nat : n = Len(s) BY DEF Text
<1>2. \A k \in 1 .. n : s[n - k + 1] \in Characters
  <2>1. \A k \in 1 .. n : s[k] \in Characters BY <1>1 DEF Text
  <2>2. \A k \in 1 .. n : n - k + 1 \in 1 .. n OBVIOUS
  <2> QED BY <2>1, <2>2
<1>3. Reverse(s) = [k \in 1 .. n |-> s[n - k + 1]] BY <1>1 DEF Reverse
<1>4. [k \in 1 .. n |-> s[n - k + 1]] \in [1 .. n -> Characters] BY <1>2
<1> QED BY <1>1, <1>3, <1>4 DEF Text

LEMMA ReverseAppends ==
  ASSUME NEW s \in Text, NEW t \in Text
  PROVE  Reverse(s \o t) = Reverse(t) \o Reverse(s)
<1>1. PICK m \in Nat, n \in Nat : m = Len(s) /\ n = Len(t) BY DEF Text
<1>2. s \o t \in Text /\ Len(s \o t) = m + n BY <1>1 DEF Text
<1>3. Reverse(s \o t) \in Text /\ Len(Reverse(s \o t)) = m + n BY <1>2, ReverseText
<1>4. /\ Reverse(s) \in Text /\ Reverse(t) \in Text
      /\ Len(Reverse(s)) = m /\ Len(Reverse(t)) = n
  BY <1>1, ReverseText
<1>5. Reverse(t) \o Reverse(s) \in Text /\ Len(Reverse(t) \o Reverse(s)) = m + n
  BY <1>4 DEF Text
<1>6. ASSUME NEW k \in 1 .. m + n PROVE Reverse(s \o t)[k] = (Reverse(t) \o Reverse(s))[k]
  <2>1. Reverse(s \o t)[k] = (s \o t)[m + n - k + 1] BY <1>2 DEF Reverse
  <2>2. CASE k <= n
    <3>1. (s \o t)[m + n - k + 1] = t[n - k + 1] BY <1>1, <2>2 DEF Text
    <3>2. (Reverse(t) \o Reverse(s))[k] = Reverse(t)[k] BY <1>4, <2>2 DEF Text
    <3>3. Reverse(t)[k] = t[n - k + 1] BY <1>1, <2>2 DEF Reverse
    <3> QED BY <2>1, <3>1, <3>2, <3>3
  <2>3. CASE k > n
    <3>1. (s \o t)[m + n - k + 1] = s[m + n - k + 1] BY <1>1, <2>3 DEF Text
    <3>2. (Reverse(t) \o Reverse(s))[k] = Reverse(s)[k - n] BY <1>4, <2>3 DEF Text
    <3>3. Reverse(s)[k - n] = s[m - (k - n) + 1] BY <1>1, <2>3 DEF Reverse
    <3>4. m - (k - n) + 1 = m + n - k + 1 BY <1>1
    <3> QED BY <2>1, <3>1, <3>2, <3>3, <3>4
  <2>4. k <= n \/ k > n BY <1>1
  <2> QED BY <2>2, <2>3, <2>4
<1> QED BY <1>3, <1>5, <1>6, SameText

LEMMA ReverseOne == \A c : Reverse(<<c>>) = <<c>>
<1> SUFFICES ASSUME NEW c PROVE Reverse(<<c>>) = <<c>> OBVIOUS
<1>1. Reverse(<<c>>) = [k \in 1 .. 1 |-> <<c>>[(1 - k) + 1]] BY DEF Reverse
<1>2. \A k \in 1 .. 1 : <<c>>[(1 - k) + 1] = c OBVIOUS
<1> QED BY <1>1, <1>2

LEMMA PrefixText ==
  ASSUME NEW s \in Text, NEW n \in 0 .. Len(s)
  PROVE  /\ SubSeq(s, 1, n) \in Text /\ Len(SubSeq(s, 1, n)) = n
         /\ n = Len(s) => SubSeq(s, 1, n) = s
BY DEF Text

(* The digits of a value, the last first, are its numeral turned around, as *)
(* long as they fit the buffer.                                             *)
Letter(fl) == IF "UPPERCASE" \in fl THEN UpperChar ELSE DigitChar

LEMMA DigitsDefined ==
  ASSUME NEW base \in Bases, NEW fl, NEW value \in Nat
  PROVE  \E s \in Text : /\ Reverse(s) = Numeral(value, base, Letter(fl)) /\ Len(s) >= 1
                         /\ DigitsOf(value, base, fl) =
                              SubSeq(s, 1, Min({Len(s), PRINTF_NTOA_BUFFER_SIZE}))
<1> DEFINE char == Letter(fl)
           ends == {k \in Nat : k < base}
           first == [k \in Nat |-> IF k < base THEN <<char[k+1]>> ELSE <<>>]
           less == [k \in Nat |-> k \div base]
           step == [k \in Nat |-> [t \in Text |-> <<char[(k % base) + 1]>> \o t]]
           Body(f) == [k \in Nat |-> IF k < base THEN <<char[k+1]>>
                                     ELSE <<char[(k % base) + 1]>> \o f[k \div base]]
<1>0. char \in {DigitChar, UpperChar} BY DEF Letter
<1>1. /\ base \in Nat /\ base <= 16
      /\ \A k \in Nat : /\ k \div base \in Nat /\ k % base \in 0 .. base - 1
                        /\ k >= base => k \div base < k
  BY Quotients DEF Bases
<1> HIDE DEF char
<1>2. \A k \in 1 .. 16 : char[k] \in Characters BY <1>0, Letters
<1>3. /\ \A k \in Nat : k < base => char[k+1] \in Characters
      /\ \A k \in Nat : char[(k % base) + 1] \in Characters
  <2>1. \A k \in Nat : k < base => k + 1 \in 1 .. 16 BY <1>1
  <2>2. \A k \in Nat : (k % base) + 1 \in 1 .. 16 BY <1>1
  <2> QED BY <1>2, <2>1, <2>2
<1>4. first \in [Nat -> Text]
  <2>1. <<>> \in Text /\ \A c \in Characters : <<c>> \in Text BY DEF Text
  <2> QED BY <1>3, <2>1
<1>5. step \in [Nat -> [Text -> Text]]
  <2>1. \A t \in Text, c \in Characters : <<c>> \o t \in Text BY DEF Text
  <2> QED BY <1>3, <2>1
<1>6. less \in [Nat -> Nat] /\ \A n \in Nat \ ends : less[n] < n BY <1>1
<1>7. \E f : f = Body(f)
  <2>1. ends \in SUBSET Nat OBVIOUS
  <2>2. PICK f \in [Nat -> Text] :
          \A n \in Nat : f[n] = IF n \in ends THEN first[n] ELSE step[n][f[less[n]]]
    <3> HIDE DEF ends, first, less, step
    <3>1. Descent(Text, ends, first, less, step) BY <1>4, <1>5, <1>6, <2>1 DEF Descent
    <3>2. \E f \in [Nat -> Text] : Follows(f, ends, first, less, step)
      BY <3>1, CourseOfValues
    <3> QED BY <3>2 DEF Follows
  <2>3. \A n \in Nat : f[n] = Body(f)[n]
    <3> SUFFICES ASSUME NEW n \in Nat PROVE f[n] = Body(f)[n] OBVIOUS
    <3>1. CASE n < base
      <4>1. n \in ends /\ first[n] = <<char[n+1]>> BY <3>1
      <4>2. f[n] = first[n]
        <5> HIDE DEF ends, first, less, step
        <5> QED BY <2>2, <4>1
      <4> QED BY <3>1, <4>1, <4>2
    <3>2. CASE ~(n < base)
      <4>1. n \notin ends /\ less[n] = n \div base BY <3>2
      <4>2. f[n] = step[n][f[n \div base]]
        <5> HIDE DEF ends, first, less, step
        <5> QED BY <2>2, <4>1
      <4>3. f[n \div base] \in Text BY <1>1, <2>2
      <4>4. f[n] = <<char[(n % base) + 1]>> \o f[n \div base] BY <4>2, <4>3
      <4> QED BY <3>2, <4>4
    <3> QED BY <3>1, <3>2
  <2>4. f = Body(f) BY <2>2, <2>3
  <2> HIDE DEF Body
  <2> QED BY <2>4
<1>8. PICK g : g = CHOOSE f : f = Body(f) OBVIOUS
<1>9. g = Body(g)
  <2> HIDE DEF Body
  <2> QED BY <1>7, <1>8
<1>10. DigitsOf(value, base, fl) =
         SubSeq(g[value], 1, Min({Len(g[value]), PRINTF_NTOA_BUFFER_SIZE}))
  BY <1>8 DEF DigitsOf, Letter, char
<1>11. \A n \in Nat : g[n] = IF n < base THEN <<char[n+1]>>
                             ELSE <<char[(n % base) + 1]>> \o g[n \div base]
  BY <1>9
<1>12. \A n \in Nat : g[n] \in Text /\ Reverse(g[n]) = Numeral(n, base, char) /\ Len(g[n]) >= 1
  <2> DEFINE Good(n) == g[n] \in Text /\ Reverse(g[n]) = Numeral(n, base, char) /\ Len(g[n]) >= 1
             T == {n \in Nat : Good(n)}
  <2>1. ASSUME NEW n \in Nat, \A m \in 0 .. n - 1 : m \in T PROVE n \in T
    <3> SUFFICES Good(n) OBVIOUS
    <3>1. CASE n < base
      <4>1. g[n] = <<char[n+1]>> /\ char[n+1] \in Characters BY <1>3, <1>11, <3>1
      <4>2. Numeral(n, base, char) = <<char[n+1]>> BY <1>0, <3>1, NumeralDefined
      <4> QED BY <4>1, <4>2, ReverseOne DEF Text
    <3>2. CASE ~(n < base)
      <4> DEFINE q == n \div base  c == char[(n % base) + 1]
      <4>1. q \in 0 .. n - 1
        <5>1. q \in Nat /\ q < n BY <1>1, <3>2
        <5> QED BY <5>1
      <4>2. Good(q) BY <2>1, <4>1
      <4>3. g[n] = <<c>> \o g[q] BY <1>11, <3>2
      <4>4. c \in Characters BY <1>3
      <4>5. Numeral(n, base, char) = Append(Numeral(q, base, char), c)
        BY <1>0, <3>2, NumeralDefined
      <4> HIDE DEF q, c
      <4>6. <<c>> \in Text /\ Reverse(<<c>>) = <<c>> BY <4>4, ReverseOne DEF Text
      <4>7. Reverse(g[n]) = Reverse(g[q]) \o <<c>> BY <4>2, <4>3, <4>6, ReverseAppends
      <4>8. Reverse(g[q]) \in Text BY <4>2, ReverseText
      <4>9. Reverse(g[q]) \o <<c>> = Append(Reverse(g[q]), c) BY <4>4, <4>8 DEF Text
      <4>10. g[n] \in Text /\ Len(g[n]) >= 1 BY <4>2, <4>3, <4>4 DEF Text
      <4> QED BY <4>2, <4>5, <4>7, <4>9, <4>10
    <3> QED BY <3>1, <3>2
  <2>2. Nat \subseteq T
    <3> HIDE DEF T
    <3> QED BY <2>1, StrongInduction
  <2> QED BY <2>2
<1> QED BY <1>10, <1>12 DEF char

LEMMA DigitsOfNumeral ==
  ASSUME NEW base \in Bases, NEW fl, NEW value \in Nat,
         NEW num, num = Numeral(value, base, Letter(fl))
  PROVE  /\ num \in Text /\ Len(num) >= 1
         /\ DigitsOf(value, base, fl) \in Text
         /\ Len(num) <= PRINTF_NTOA_BUFFER_SIZE =>
              /\ Reverse(DigitsOf(value, base, fl)) = num
              /\ Len(DigitsOf(value, base, fl)) = Len(num)
<1> DEFINE B == PRINTF_NTOA_BUFFER_SIZE
<1>1. PICK s \in Text : /\ Reverse(s) = num /\ Len(s) >= 1
                        /\ DigitsOf(value, base, fl) = SubSeq(s, 1, Min({Len(s), B}))
  BY DigitsDefined
<1>2. B \in Nat /\ Len(s) \in Nat BY WidthAssumption DEF Text
<1>3. Min({Len(s), B}) = IF Len(s) <= B THEN Len(s) ELSE B BY <1>2, MinTwo
<1>4. num \in Text /\ Len(num) = Len(s) BY <1>1, ReverseText
<1>5. DigitsOf(value, base, fl) \in Text
  <2>1. Min({Len(s), B}) \in 0 .. Len(s) BY <1>2, <1>3
  <2> QED BY <1>1, <2>1, PrefixText
<1>6. CASE Len(num) <= B
  <2>1. DigitsOf(value, base, fl) = SubSeq(s, 1, Len(s)) BY <1>1, <1>3, <1>4, <1>6
  <2>2. SubSeq(s, 1, Len(s)) = s BY DEF Text
  <2> QED BY <1>1, <1>4, <1>5, <2>1, <2>2
<1> QED BY <1>1, <1>4, <1>5, <1>6
-----------------------------------------------------------------------------
(* Integers of a width, and the numbers written in a format.                *)
Widths == {CharValues, ShortValues, IntValues, LLValues}

LEMMA Modulo ==
  ASSUME NEW v \in Nat \ {0}, NEW n \in Int
  PROVE  /\ n % v \in 0 .. v - 1
         /\ n \in 0 .. v - 1 => n % v = n
         /\ n \in -v .. -1 => n % v = n + v
<1>1. n % v \in 0 .. v - 1 OBVIOUS
<1>2. ASSUME n \in 0 .. v - 1 PROVE n % v = n BY <1>2
<1>3. ASSUME n \in -v .. -1 PROVE n % v = n + v BY <1>3
<1> QED BY <1>1, <1>2, <1>3

LEMMA Conversions ==
  ASSUME NEW v \in Widths, NEW n \in Int
  PROVE  /\ Unsigned(n, v) \in 0 .. v - 1
         /\ n \in 0 .. v - 1 => Unsigned(n, v) = n
         /\ Signed(n, v) \in -(v \div 2) .. (v \div 2) - 1
         /\ n \in -(v \div 2) .. (v \div 2) - 1 => Signed(n, v) = n
<1>1. v \in Nat \ {0} /\ v % 2 = 0 BY WidthAssumption DEF Widths
<1>2. v \div 2 \in Nat /\ v = 2 * (v \div 2) BY <1>1
<1>3. /\ n % v \in 0 .. v - 1
      /\ n \in 0 .. v - 1 => n % v = n
      /\ n \in -v .. -1 => n % v = n + v
  BY <1>1, Modulo
<1>4. PICK m \in Int : m = n % v BY <1>3
<1>5. PICK h \in Nat : h = v \div 2 BY <1>2
<1>6. Signed(n, v) = IF m < h THEN m ELSE m - v BY <1>4, <1>5 DEF Signed, Unsigned
<1> QED BY <1>1, <1>2, <1>3, <1>4, <1>5, <1>6 DEF Unsigned

LEMMA DigitValues ==
  \A n \in 0 .. 9 : is_digit(DigitChar[n+1]) /\ Value(DigitChar[n+1]) = n
<1>1. \A n \in 0 .. 9 : is_digit(DigitChar[n+1])
  <2>1. \A n \in 0 .. 9 : n + 1 \in 1 .. 10 OBVIOUS
  <2> QED BY <2>1 DEF is_digit
<1>2. \A m, n \in 0 .. 9 : DigitChar[m+1] = DigitChar[n+1] => m = n BY DEF DigitChar
<1>3. ASSUME NEW n \in 0 .. 9 PROVE Value(DigitChar[n+1]) = n
  BY <1>2 DEF Value
<1> QED BY <1>1, <1>3

LEMMA DecimalDigits ==
  ASSUME NEW n \in Nat
  PROVE  LET num == Numeral(n, 10, DigitChar)
         IN  num \in Text /\ Len(num) >= 1 /\ \A k \in 1 .. Len(num) : is_digit(num[k])
<1> DEFINE num(m) == Numeral(m, 10, DigitChar)
           Good(m) == num(m) \in Text /\ Len(num(m)) >= 1
                      /\ \A k \in 1 .. Len(num(m)) : is_digit(num(m)[k])
           T == {m \in Nat : Good(m)}
<1>0. /\ 10 \in Bases /\ DigitChar \in {DigitChar, UpperChar} BY DEF Bases
<1>1. \A m \in Nat : /\ num(m) \in Text
                     /\ num(m) = IF m < 10 THEN <<DigitChar[m+1]>>
                                 ELSE Append(num(m \div 10), DigitChar[(m % 10) + 1])
  BY <1>0, NumeralDefined
<1>2. ASSUME NEW m \in Nat, \A j \in 0 .. m - 1 : j \in T PROVE m \in T
  <2> SUFFICES Good(m) OBVIOUS
  <2>1. CASE m < 10
    <3>1. num(m) = <<DigitChar[m+1]>> BY <1>1, <2>1
    <3>2. is_digit(DigitChar[m+1]) BY <2>1, DigitValues
    <3>3. num(m) \in Text BY <1>1
    <3> HIDE DEF num
    <3> QED BY <3>1, <3>2, <3>3
  <2>2. CASE ~(m < 10)
    <3>1. num(m) = Append(num(m \div 10), DigitChar[(m % 10) + 1]) BY <1>1, <2>2
    <3>2. m \div 10 \in 0 .. m - 1 /\ m % 10 \in 0 .. 9 BY <2>2
    <3>3. Good(m \div 10) BY <1>2, <3>2
    <3>4. is_digit(DigitChar[(m % 10) + 1]) BY <3>2, DigitValues
    <3>5. num(m) \in Text BY <1>1
    <3> HIDE DEF num
    <3>6. num(m \div 10) \in Seq(Characters) BY <3>3 DEF Text
    <3>7. Len(num(m)) = Len(num(m \div 10)) + 1 BY <3>1, <3>6
    <3>8. \A k \in 1 .. Len(num(m \div 10)) : num(m)[k] = num(m \div 10)[k] BY <3>1, <3>6
    <3>9. num(m)[Len(num(m \div 10)) + 1] = DigitChar[(m % 10) + 1] BY <3>1, <3>6
    <3>10. ASSUME NEW k \in 1 .. Len(num(m)) PROVE is_digit(num(m)[k])
      <4>1. PICK l \in Nat : l = Len(num(m \div 10)) BY <3>6
      <4>2. k \in 1 .. l \/ k = l + 1 BY <3>7, <4>1
      <4> QED BY <3>3, <3>4, <3>8, <3>9, <4>1, <4>2
    <3> QED BY <3>3, <3>5, <3>6, <3>7, <3>10
  <2> QED BY <2>1, <2>2
<1>3. Nat \subseteq T
  <2> HIDE DEF T
  <2> QED BY <1>2, StrongInduction
<1> QED BY <1>3

(* A numeral in the format is read to its end, and as its number.           *)
LEMMA NumberRead ==
  ASSUME call.format \in Seq(Characters \ {NUL}), NEW p \in Nat \ {0}, NEW e \in Nat,
         e <= Len(call.format), p <= e, ~is_digit(call.format[e]),
         NEW n \in 0 .. IntValues - 1,
         SubSeq(call.format, p, e - 1) = Numeral(n, 10, DigitChar)
  PROVE  p < e /\ is_digit(call.format[p]) /\ DigitsEnd(p) = e /\ atoi(p) = n
<1>1. PICK fm \in Seq(Characters \ {NUL}), L \in Nat :
        fm = call.format /\ L = Len(call.format)
  OBVIOUS
<1>2. fm \in Text /\ L = Len(fm) /\ e <= L /\ \A q \in 1 .. L : Char(q) = fm[q]
  BY <1>1 DEF Text, Char
<1> DEFINE num(m) == Numeral(m, 10, DigitChar)
<1>3. \A j \in 0 .. e - p : /\ Len(SubSeq(fm, p, p + j - 1)) = j
                            /\ \A k \in 1 .. j : SubSeq(fm, p, p + j - 1)[k] = fm[p + k - 1]
  BY <1>2 DEF Text
<1>4. n \in Nat /\ IntValues \in Nat \ {0} BY WidthAssumption
<1>5. num(n) = SubSeq(fm, p, p + (e - p) - 1)
  <2>1. p + (e - p) - 1 = e - 1 OBVIOUS
  <2> QED BY <1>1, <2>1
<1>6. /\ e - p \in 0 .. e - p /\ Len(num(n)) = e - p
      /\ \A k \in 1 .. e - p : num(n)[k] = fm[p + k - 1]
  <2>1. e - p \in 0 .. e - p OBVIOUS
  <2> HIDE DEF num
  <2> QED BY <1>3, <1>5, <2>1
<1>7. Len(num(n)) >= 1 /\ \A k \in 1 .. Len(num(n)) : is_digit(num(n)[k])
  BY <1>4, DecimalDigits
<1>8. p < e /\ is_digit(fm[p])
  <2>1. 1 \in 1 .. e - p /\ p + 1 - 1 = p BY <1>6, <1>7
  <2> HIDE DEF num
  <2> QED BY <1>6, <1>7, <2>1
<1>9. \A q \in p .. e - 1 : is_digit(Char(q))
  <2> SUFFICES ASSUME NEW q \in p .. e - 1 PROVE is_digit(Char(q)) OBVIOUS
  <2>1. q - p + 1 \in 1 .. e - p /\ p + (q - p + 1) - 1 = q /\ q \in 1 .. L BY <1>2
  <2> HIDE DEF num
  <2> QED BY <1>2, <1>6, <1>7, <2>1
<1>10. DigitsEnd(p) = e
  <2> DEFINE S == {q \in p .. Len(call.format) + 1 : ~is_digit(Char(q))}
  <2>1. e \in S BY <1>1, <1>2, <1>8
  <2>2. \A q \in S : e <= q BY <1>1, <1>9
  <2>3. \A x \in S : (\A y \in S : x <= y) => x = e
    <3>1. S \subseteq Nat BY <1>1
    <3> HIDE DEF S
    <3> QED BY <2>1, <2>2, <3>1
  <2> HIDE DEF S
  <2>4. Min(S) = e BY <2>1, <2>2, <2>3 DEF Min
  <2> QED BY <2>4 DEF S, DigitsEnd
<1> DEFINE Range10 == 0 .. IntValues - 1
           N == e - p
           next(v, k) == Unsigned(v * 10 + Value(Char(p + k - 1)), IntValues)
           Body(f) == [k \in 0 .. N |-> IF k = 0 THEN 0 ELSE next(f[k-1], k)]
<1>11. \A k \in 1 .. N : Value(Char(p + k - 1)) \in 0 .. 9
  <2> SUFFICES ASSUME NEW k \in 1 .. N PROVE Value(Char(p + k - 1)) \in 0 .. 9 OBVIOUS
  <2>1. p + k - 1 \in p .. e - 1 OBVIOUS
  <2>2. PICK d \in 1 .. 10 : Char(p + k - 1) = DigitChar[d] BY <1>9, <2>1 DEF is_digit
  <2>3. d - 1 \in 0 .. 9 /\ (d - 1) + 1 = d OBVIOUS
  <2> QED BY <2>2, <2>3, DigitValues
<1>12. \A k \in 1 .. N, v \in Range10 : next(v, k) \in Range10
  <2> SUFFICES ASSUME NEW k \in 1 .. N, NEW v \in Range10 PROVE next(v, k) \in Range10 OBVIOUS
  <2>1. v * 10 + Value(Char(p + k - 1)) \in Int
    <3>1. PICK d \in 0 .. 9 : d = Value(Char(p + k - 1)) BY <1>11
    <3>2. v \in Int /\ d \in Int BY <1>4
    <3> HIDE DEF Range10
    <3> QED BY <3>1, <3>2
  <2> QED BY <2>1, Conversions DEF Widths
<1>13. \E f : f = Body(f)
  <2> DEFINE zero == 0
             step == [k \in Nat |-> [v \in Range10 |-> IF k \in 1 .. N THEN next(v, k) ELSE v]]
  <2>1. zero \in Range10 /\ N \in Nat BY <1>4, <1>8
  <2>2. step \in [Nat -> [Range10 -> Range10]]
    <3> HIDE DEF Range10, next, N
    <3> QED BY <1>12
  <2>3. PICK f \in [0 .. N -> Range10] : f[0] = zero /\ \A k \in 1 .. N : f[k] = step[k][f[k-1]]
    <3> HIDE DEF zero, step, Range10, N
    <3>1. PICK M \in Nat : M = N BY <2>1
    <3>2. \E f \in [0 .. M -> Range10] :
            f[0] = zero /\ \A k \in 1 .. M : f[k] = step[k][f[k-1]]
      <4>1. Iterable(Range10, zero, step) BY <2>1, <2>2 DEF Iterable
      <4>2. \E f \in [0 .. M -> Range10] : Iterates(f, zero, step, M) BY <4>1, Iteration
      <4> QED BY <4>2 DEF Iterates
    <3> QED BY <3>1, <3>2
  <2>4. \A k \in 0 .. N : f[k] = Body(f)[k]
    <3> SUFFICES ASSUME NEW k \in 0 .. N PROVE f[k] = Body(f)[k] OBVIOUS
    <3>1. CASE k = 0 BY <2>3, <3>1
    <3>2. CASE k # 0
      <4>1. k \in 1 .. N /\ k \in Nat /\ k - 1 \in 0 .. N BY <2>1, <3>2
      <4>2. f[k-1] \in Range10 BY <2>3, <4>1
      <4>3. step[k][f[k-1]] = next(f[k-1], k)
        <5> HIDE DEF next, N, Range10
        <5> QED BY <4>1, <4>2
      <4>4. f[k] = next(f[k-1], k) BY <2>3, <4>1, <4>3
      <4> HIDE DEF next
      <4> QED BY <3>2, <4>4
    <3> QED BY <3>1, <3>2
  <2>5. f = Body(f) BY <2>3, <2>4
  <2> HIDE DEF Body
  <2> QED BY <2>5
<1>14. PICK g : g = CHOOSE f : f = Body(f) OBVIOUS
<1>15. g = Body(g)
  <2> HIDE DEF Body
  <2> QED BY <1>13, <1>14
<1>16. atoi(p) = g[N] BY <1>10, <1>14 DEF atoi
<1>17. g[0] = 0 /\ \A k \in 1 .. N : g[k] = next(g[k-1], k)
  <2>1. N \in Nat BY <1>8
  <2> HIDE DEF next, N
  <2>2. 0 \in 0 .. N /\ \A k \in 1 .. N : k \in 0 .. N /\ k # 0 BY <2>1
  <2> QED BY <1>15, <2>2
<1>18. \A m \in Nat : m < IntValues => \A j \in 1 .. N :
         SubSeq(fm, p, p + j - 1) = num(m) => g[j] = m
  <2> DEFINE Good(m) == m < IntValues => \A j \in 1 .. N :
                          SubSeq(fm, p, p + j - 1) = num(m) => g[j] = m
             T == {m \in Nat : Good(m)}
  <2>1. ASSUME NEW m \in Nat, \A k \in 0 .. m - 1 : k \in T PROVE m \in T
    <3> SUFFICES ASSUME m < IntValues, NEW j \in 1 .. N, SubSeq(fm, p, p + j - 1) = num(m)
                 PROVE  g[j] = m
      OBVIOUS
    <3>1. /\ num(m) \in Text
          /\ num(m) = IF m < 10 THEN <<DigitChar[m+1]>>
                      ELSE Append(num(m \div 10), DigitChar[(m % 10) + 1])
      <4>1. 10 \in Bases /\ DigitChar \in {DigitChar, UpperChar} BY DEF Bases
      <4> QED BY <4>1, NumeralDefined
    <3>2. Len(num(m)) = j /\ \A k \in 1 .. j : num(m)[k] = fm[p + k - 1]
      <4>1. j \in 0 .. e - p OBVIOUS
      <4> HIDE DEF num
      <4> QED BY <1>3, <4>1
    <3>3. p + j - 1 \in 1 .. L /\ Char(p + j - 1) = num(m)[j]
      <4>1. p + j - 1 \in 1 .. L /\ j \in 1 .. j BY <1>2
      <4> HIDE DEF num
      <4> QED BY <1>2, <3>2, <4>1
    <3> HIDE DEF num
    <3>4. CASE m < 10
      <4>1. num(m) = <<DigitChar[m+1]>> BY <3>1, <3>4
      <4>2. j = 1 BY <3>2, <4>1
      <4>3. Char(p + j - 1) = DigitChar[m+1] BY <3>3, <4>1, <4>2
      <4>4. Value(Char(p + j - 1)) = m
        <5>1. m \in 0 .. 9 BY <3>4
        <5> QED BY <4>3, <5>1, DigitValues
      <4>5. g[j] = Unsigned(g[j-1] * 10 + m, IntValues) BY <1>17, <4>4
      <4>6. g[j-1] = 0 BY <1>17, <4>2
      <4>7. g[j] = Unsigned(m, IntValues) BY <4>5, <4>6
      <4>8. Unsigned(m, IntValues) = m
        <5>1. m \in 0 .. IntValues - 1 /\ IntValues \in Widths BY <1>4 DEF Widths
        <5> QED BY <5>1, Conversions
      <4> QED BY <4>7, <4>8
    <3>5. CASE ~(m < 10)
      <4> DEFINE q == m \div 10  r == m % 10
      <4>1. q \in 0 .. m - 1 /\ r \in 0 .. 9 /\ m = q * 10 + r BY <3>5
      <4>2. num(m) = Append(num(q), DigitChar[r+1]) BY <3>1, <3>5
      <4> HIDE DEF q, r
      <4>3. num(q) \in Seq(Characters) /\ Len(num(q)) >= 1
        <5>1. q \in Nat BY <4>1
        <5> QED BY <5>1, DecimalDigits DEF Text, num
      <4>4. /\ Len(num(q)) = j - 1 /\ num(m)[j] = DigitChar[r+1]
            /\ \A k \in 1 .. j - 1 : num(m)[k] = num(q)[k]
        <5>1. Len(num(m)) = Len(num(q)) + 1 /\ num(m)[Len(num(q)) + 1] = DigitChar[r+1]
              /\ \A k \in 1 .. Len(num(q)) : num(m)[k] = num(q)[k]
          BY <4>2, <4>3
        <5> QED BY <3>2, <4>3, <5>1
      <4>5. Value(Char(p + j - 1)) = r BY <3>3, <4>1, <4>4, DigitValues
      <4>6. SubSeq(fm, p, p + (j - 1) - 1) = num(q)
        <5>1. j - 1 \in 0 .. e - p OBVIOUS
        <5> DEFINE s == SubSeq(fm, p, p + (j - 1) - 1)
        <5>2. Len(s) = j - 1 /\ \A k \in 1 .. j - 1 : s[k] = fm[p + k - 1] BY <1>3, <5>1
        <5>3. \A k \in 1 .. j - 1 : s[k] = num(q)[k]
          <6>1. \A k \in 1 .. j - 1 : k \in 1 .. j OBVIOUS
          <6> HIDE DEF s
          <6> QED BY <3>2, <4>4, <5>2, <6>1
        <5>4. s \in Seq(Characters) BY <1>2, <5>1 DEF Text
        <5> HIDE DEF s
        <5>5. s = num(q) BY <4>3, <4>4, <5>2, <5>3, <5>4, SameText DEF Text
        <5> QED BY <5>5 DEF s
      <4>7. j - 1 \in 1 .. N BY <4>3, <4>4
      <4>8. Good(q) BY <2>1, <4>1
      <4>9. g[j-1] = q BY <1>4, <4>1, <4>6, <4>7, <4>8
      <4>10. g[j] = Unsigned(g[j-1] * 10 + r, IntValues) BY <1>17, <4>5
      <4>11. g[j] = Unsigned(m, IntValues) BY <4>1, <4>9, <4>10
      <4>12. Unsigned(m, IntValues) = m
        <5>1. m \in 0 .. IntValues - 1 /\ IntValues \in Widths BY <1>4 DEF Widths
        <5> QED BY <5>1, Conversions
      <4> QED BY <4>11, <4>12
    <3> QED BY <3>4, <3>5
  <2>2. Nat \subseteq T
    <3> HIDE DEF T
    <3> QED BY <2>1, StrongInduction
  <2> QED BY <2>2
<1>19. g[N] = n
  <2>1. N \in 1 .. N BY <1>8
  <2>2. SubSeq(fm, p, p + N - 1) = num(n)
    <3> HIDE DEF num
    <3> QED BY <1>5
  <2>3. n \in Nat /\ n < IntValues BY <1>4
  <2> HIDE DEF num, N
  <2>4. \A j \in 1 .. N : SubSeq(fm, p, p + j - 1) = num(n) => g[j] = n BY <1>18, <2>3, Zenon
  <2> QED BY <2>1, <2>2, <2>4, Zenon
<1> QED BY <1>1, <1>8, <1>10, <1>16, <1>19
-----------------------------------------------------------------------------
(* Texts put together.                                                      *)
LEMMA Joined ==
  ASSUME NEW s \in Text, NEW t \in Text
  PROVE  /\ s \o t \in Text /\ Len(s \o t) = Len(s) + Len(t)
         /\ s \o <<>> = s /\ <<>> \o s = s
         /\ Len(s) \in Nat
BY DEF Text

LEMMA Regrouped ==
  ASSUME NEW s \in Text, NEW t \in Text, NEW u \in Text
  PROVE  (s \o t) \o u = s \o (t \o u)
BY DEF Text

LEMMA One == \A c \in Characters : <<c>> \in Text /\ Len(<<c>>) = 1
BY DEF Text

LEMMA Two ==
  ASSUME NEW a \in Characters, NEW b \in Characters
  PROVE  <<a, b>> \in Text /\ Len(<<a, b>>) = 2 /\ <<a>> \o <<b>> = <<a, b>>
<1>1. <<a, b>> \in Text /\ Len(<<a, b>>) = 2 /\ <<a, b>>[1] = a /\ <<a, b>>[2] = b
  BY DEF Text
<1>2. PICK y \in Text, z \in Text :
        y = <<a>> /\ z = <<b>> /\ Len(y) = 1 /\ Len(z) = 1 /\ y[1] = a /\ z[1] = b
  BY One
<1>3. y \o z \in Text /\ Len(y \o z) = 2 /\ (y \o z)[1] = a /\ (y \o z)[2] = b
  BY <1>2 DEF Text
<1>4. \A k \in 1 .. 2 : k = 1 \/ k = 2 OBVIOUS
<1>5. y \o z = <<a, b>> BY <1>1, <1>3, <1>4, SameText
<1> QED BY <1>1, <1>2, <1>5

LEMMA TwoBefore ==
  ASSUME NEW a \in Characters, NEW b \in Characters, NEW u \in Text
  PROVE  <<a>> \o (<<b>> \o u) = <<a, b>> \o u
<1>1. PICK y \in Text, z \in Text : y = <<a>> /\ z = <<b>> /\ y \o z = <<a, b>>
  BY One, Two
<1>2. (y \o z) \o u = y \o (z \o u) BY Regrouped
<1> QED BY <1>1, <1>2

LEMMA Nothing == <<>> \in Text /\ Len(<<>>) = 0 /\ Reverse(<<>>) = <<>>
<1>1. <<>> \in Text /\ Len(<<>>) = 0 BY DEF Text
<1>2. Reverse(<<>>) \in Text /\ Len(Reverse(<<>>)) = 0 BY <1>1, ReverseText
<1>3. \A k \in 1 .. 0 : Reverse(<<>>)[k] = <<>>[k] OBVIOUS
<1> QED BY <1>1, <1>2, <1>3, SameText

LEMMA ReverseRepeat ==
  ASSUME NEW c \in Characters, NEW n \in Nat
  PROVE  Reverse(Repeat(c, n)) = Repeat(c, n)
<1> DEFINE s == Repeat(c, n)
<1>1. s \in Text /\ Len(s) = n /\ \A k \in 1 .. n : s[k] = c BY RepeatText
<1>2. Reverse(s) \in Text /\ Len(Reverse(s)) = n BY <1>1, ReverseText
<1> HIDE DEF s
<1>3. \A k \in 1 .. n : Reverse(s)[k] = s[k]
  <2> SUFFICES ASSUME NEW k \in 1 .. n PROVE Reverse(s)[k] = s[k] OBVIOUS
  <2>1. Reverse(s)[k] = s[n - k + 1] BY <1>1 DEF Reverse
  <2>2. n - k + 1 \in 1 .. n OBVIOUS
  <2> QED BY <1>1, <2>1, <2>2
<1> QED BY <1>1, <1>2, <1>3, SameText DEF s

(* What lies before, or behind, a text in a field of width w.               *)
Blank(s, w) == Repeat(" ", Max({w - Len(s), 0}))
Zeros(s, n) == Repeat("0", Max({n - Len(s), 0}))
Aligned(s, w, fl) ==
  IF "LEFT" \in fl THEN s \o Blank(s, w)
  ELSE IF "ZEROPAD" \in fl THEN s ELSE Blank(s, w) \o s

LEMMA BlankText ==
  ASSUME NEW s \in Text, NEW w \in Int
  PROVE  /\ Blank(s, w) \in Text /\ Zeros(s, w) \in Text
         /\ Len(Blank(s, w)) = (IF w > Len(s) THEN w - Len(s) ELSE 0)
         /\ Len(Zeros(s, w)) = (IF w > Len(s) THEN w - Len(s) ELSE 0)
         /\ w <= Len(s) => Blank(s, w) = <<>> /\ Zeros(s, w) = <<>>
<1>1. PICK n \in Int : n = Max({w - Len(s), 0}) /\ n = (IF w > Len(s) THEN w - Len(s) ELSE 0)
  <2>1. Len(s) \in Nat BY DEF Text
  <2>2. w - Len(s) \in Int /\ 0 \in Int BY <2>1
  <2>3. Max({w - Len(s), 0}) = IF w - Len(s) >= 0 THEN w - Len(s) ELSE 0 BY <2>2, MaxTwo
  <2> QED BY <2>1, <2>3
<1>2. " " \in Characters /\ "0" \in Characters BY Letters
<1>3. Len(s) \in Nat BY DEF Text
<1>4. \A c \in Characters : /\ Repeat(c, n) \in Text
                            /\ Len(Repeat(c, n)) = (IF w > Len(s) THEN w - Len(s) ELSE 0)
                            /\ w <= Len(s) => Repeat(c, n) = <<>>
  <2> SUFFICES ASSUME NEW c \in Characters
               PROVE  /\ Repeat(c, n) \in Text
                      /\ Len(Repeat(c, n)) = (IF w > Len(s) THEN w - Len(s) ELSE 0)
                      /\ w <= Len(s) => Repeat(c, n) = <<>>
    OBVIOUS
  <2>1. /\ Repeat(c, n) \in Text /\ Len(Repeat(c, n)) = (IF n >= 0 THEN n ELSE 0)
        /\ n <= 0 => Repeat(c, n) = <<>>
    BY RepeatText
  <2> QED BY <1>1, <1>3, <2>1
<1>5. Blank(s, w) = Repeat(" ", n) /\ Zeros(s, w) = Repeat("0", n) BY <1>1 DEF Blank, Zeros
<1> QED BY <1>2, <1>4, <1>5

LEMMA OutRev ==
  ASSUME NEW r \in Text, NEW w \in Int, NEW fl
  PROVE  out_rev(r, w, fl) = Aligned(Reverse(r), w, fl)
<1> DEFINE pad == Blank(r, w)  s == Reverse(r)
<1>1. s \in Text /\ Len(s) = Len(r) BY ReverseText
<1>2. pad \in Text /\ pad = Blank(s, w) BY <1>1, BlankText DEF Blank
<1>3. out_rev(r, w, fl) = (IF fl \cap {"LEFT", "ZEROPAD"} = {} THEN pad ELSE <<>>)
                            \o s \o (IF "LEFT" \in fl THEN pad ELSE <<>>)
  BY DEF out_rev, Blank
<1> HIDE DEF pad, s
<1>4. CASE "LEFT" \in fl
  <2>1. ~(fl \cap {"LEFT", "ZEROPAD"} = {}) BY <1>4
  <2>2. out_rev(r, w, fl) = (<<>> \o s) \o pad BY <1>3, <1>4, <2>1
  <2> QED BY <1>1, <1>2, <1>4, <2>2, Joined DEF Aligned, s
<1>5. CASE "LEFT" \notin fl /\ "ZEROPAD" \in fl
  <2>1. ~(fl \cap {"LEFT", "ZEROPAD"} = {}) BY <1>5
  <2>2. out_rev(r, w, fl) = (<<>> \o s) \o <<>> BY <1>3, <1>5, <2>1
  <2> QED BY <1>1, <1>2, <1>5, <2>2, Joined DEF Aligned, s
<1>6. CASE "LEFT" \notin fl /\ "ZEROPAD" \notin fl
  <2>1. fl \cap {"LEFT", "ZEROPAD"} = {} BY <1>6
  <2>2. out_rev(r, w, fl) = (pad \o s) \o <<>> BY <1>3, <1>6, <2>1
  <2> QED BY <1>1, <1>2, <1>6, <2>2, Joined DEF Aligned, s
<1> QED BY <1>4, <1>5, <1>6

LEMMA ZerosToText ==
  ASSUME NEW buf \in Text, NEW n \in Int
  PROVE  /\ ZerosTo(buf, n) \in Text
         /\ n <= PRINTF_NTOA_BUFFER_SIZE => ZerosTo(buf, n) = buf \o Zeros(buf, n)
         /\ n <= Len(buf) => ZerosTo(buf, n) = buf
<1> DEFINE B == PRINTF_NTOA_BUFFER_SIZE
<1>1. B \in Nat BY WidthAssumption
<1>2. PICK m \in Int : m = Min({n, B}) /\ m = IF n <= B THEN n ELSE B BY <1>1, MinTwo
<1>3. ZerosTo(buf, n) = buf \o Zeros(buf, m) BY <1>2 DEF ZerosTo, Zeros
<1>4. Zeros(buf, m) \in Text /\ (m <= Len(buf) => Zeros(buf, m) = <<>>) BY BlankText
<1>5. n <= Len(buf) => m <= Len(buf) BY <1>1, <1>2, Joined
<1> QED BY <1>1, <1>2, <1>3, <1>4, <1>5, Joined

LEMMA SignText ==
  ASSUME NEW negative \in BOOLEAN, NEW fl
  PROVE  /\ SignOf(negative, fl) \in Text
         /\ SignOf(negative, fl) = <<>> \/ \E c \in Characters : SignOf(negative, fl) = <<c>>
         /\ Len(SignOf(negative, fl)) =
              IF negative \/ fl \cap {"PLUS", "SPACE"} # {} THEN 1 ELSE 0
         /\ Reverse(SignOf(negative, fl)) = SignOf(negative, fl)
<1>0. "-" \in Characters /\ "+" \in Characters /\ " " \in Characters BY Letters
<1>1. CASE negative
  <2>1. SignOf(negative, fl) = <<"-">> BY <1>1 DEF SignOf
  <2> QED BY <1>0, <1>1, <2>1, One, ReverseOne
<1>2. CASE ~negative /\ "PLUS" \in fl
  <2>1. SignOf(negative, fl) = <<"+">> BY <1>2 DEF SignOf
  <2>2. fl \cap {"PLUS", "SPACE"} # {} BY <1>2
  <2> QED BY <1>0, <2>1, <2>2, One, ReverseOne
<1>3. CASE ~negative /\ "PLUS" \notin fl /\ "SPACE" \in fl
  <2>1. SignOf(negative, fl) = <<" ">> BY <1>3 DEF SignOf
  <2>2. fl \cap {"PLUS", "SPACE"} # {} BY <1>3
  <2> QED BY <1>0, <2>1, <2>2, One, ReverseOne
<1>4. CASE ~negative /\ "PLUS" \notin fl /\ "SPACE" \notin fl
  <2>1. SignOf(negative, fl) = <<>> BY <1>4 DEF SignOf
  <2>2. fl \cap {"PLUS", "SPACE"} = {} BY <1>4
  <2> QED BY <1>4, <2>1, <2>2, Nothing
<1> QED BY <1>1, <1>2, <1>3, <1>4

LEMMA FillText ==
  ASSUME NEW num \in Text, NEW n \in Int
  PROVE  /\ Fill(num, n) = Zeros(num, n) \o num /\ Fill(num, n) \in Text
         /\ Len(Fill(num, n)) = (IF n > Len(num) THEN n ELSE Len(num))
<1>1. Fill(num, n) = Zeros(num, n) \o num BY DEF Fill, Zeros
<1>2. /\ Zeros(num, n) \in Text
      /\ Len(Zeros(num, n)) = (IF n > Len(num) THEN n - Len(num) ELSE 0)
  BY BlankText
<1>3. Zeros(num, n) \o num \in Text /\ Len(Zeros(num, n) \o num) = Len(Zeros(num, n)) + Len(num)
  BY <1>2, Joined
<1>4. Len(num) \in Nat BY Joined
<1> QED BY <1>1, <1>2, <1>3, <1>4

LEMMA SignPlaces ==
  ASSUME NEW negative \in BOOLEAN, NEW w \in Nat, NEW fl
  PROVE  /\ SignPlace(negative, w, fl) \in Int
         /\ "ZEROPAD" \notin fl => SignPlace(negative, w, fl) = w
         /\ "ZEROPAD" \in fl => SignPlace(negative, w, fl) =
              IF w # 0 /\ (negative \/ fl \cap {"PLUS", "SPACE"} # {}) THEN w - 1 ELSE w
BY DEF SignPlace

(* A number without a prefix: its digits, filled up to least, and its sign. *)
PlainCase(buf, num, negative, prec, w, fl, least, whole) ==
  /\ buf \in Text /\ num \in Text /\ Reverse(buf) = num
  /\ negative \in BOOLEAN /\ prec \in Nat /\ w \in Nat /\ least \in Int
  /\ "HASH" \notin fl
  /\ "LEFT" \in fl => least <= Len(num)
  /\ "LEFT" \notin fl /\ "ZEROPAD" \notin fl => least = prec
  /\ "LEFT" \notin fl /\ "ZEROPAD" \in fl =>
       prec = 0 /\ least = SignPlace(negative, w, fl)
  /\ whole = SignOf(negative, fl) \o Fill(num, least)
  /\ Len(whole) <= PRINTF_NTOA_BUFFER_SIZE

LEMMA PlainNumber ==
  ASSUME NEW buf, NEW num, NEW negative, NEW base, NEW prec, NEW w, NEW fl, NEW least,
         NEW whole, PlainCase(buf, num, negative, prec, w, fl, least, whole)
  PROVE  ntoa_format(buf, negative, base, prec, w, fl) = Aligned(whole, w, fl)
<1> SUFFICES ASSUME buf \in Text, num \in Text, Reverse(buf) = num, negative \in BOOLEAN,
                  prec \in Nat, w \in Nat, least \in Int, "HASH" \notin fl,
                  "LEFT" \in fl => least <= Len(num),
                  "LEFT" \notin fl /\ "ZEROPAD" \notin fl => least = prec,
                  "LEFT" \notin fl /\ "ZEROPAD" \in fl => prec = 0 /\ least = SignPlace(negative, w, fl),
                  whole = SignOf(negative, fl) \o Fill(num, least),
                  Len(whole) <= PRINTF_NTOA_BUFFER_SIZE
             PROVE  ntoa_format(buf, negative, base, prec, w, fl) = Aligned(whole, w, fl)
  BY DEF PlainCase
<1> DEFINE B == PRINTF_NTOA_BUFFER_SIZE
           sign == SignOf(negative, fl)
           place == IF "LEFT" \in fl THEN w ELSE SignPlace(negative, w, fl)
           filled == IF "LEFT" \in fl THEN buf ELSE ZerosTo(buf, prec)
           padded == IF {"LEFT", "ZEROPAD"} \cap fl = {"ZEROPAD"}
                       THEN ZerosTo(filled, place) ELSE filled
           zeros == Zeros(num, least)
<1>1. Len(num) = Len(buf) /\ zeros = Zeros(buf, least) /\ Len(buf) \in Nat /\ B \in Nat
  BY ReverseText, Joined, WidthAssumption DEF Zeros
<1>2. sign \in Text /\ zeros \in Text BY SignText, BlankText
<1>3. /\ Len(whole) = Len(sign) + (IF least > Len(num) THEN least ELSE Len(num))
      /\ Len(sign) \in Nat
      /\ Len(zeros) = (IF least > Len(num) THEN least - Len(num) ELSE 0)
  <2>1. /\ Fill(num, least) \in Text
        /\ Len(Fill(num, least)) = (IF least > Len(num) THEN least ELSE Len(num))
    BY FillText
  <2>2. Len(zeros) = (IF least > Len(num) THEN least - Len(num) ELSE 0) BY BlankText
  <2> HIDE DEF sign
  <2>3. Len(sign) \in Nat /\ Len(whole) = Len(sign) + Len(Fill(num, least))
    <3>1. PICK f \in Text : f = Fill(num, least) BY <2>1
    <3>2. PICK g \in Text : g = sign BY <1>2
    <3>3. whole = g \o f BY <3>1, <3>2 DEF sign
    <3>4. Len(g) \in Nat /\ Len(g \o f) = Len(g) + Len(f) BY Joined
    <3> QED BY <3>1, <3>2, <3>3, <3>4
  <2> QED BY <2>1, <2>2, <2>3
<1>4. least <= B BY <1>1, <1>3
<1>5. least <= Len(buf) => zeros = <<>> BY <1>1, BlankText
<1>6. padded = buf \o zeros
  <2>1. CASE "LEFT" \in fl
    <3>1. padded = buf /\ zeros = <<>> BY <1>1, <1>5, <2>1
    <3> QED BY <3>1, Joined
  <2>2. CASE "LEFT" \notin fl /\ "ZEROPAD" \notin fl
    <3>1. padded = ZerosTo(buf, least) BY <2>2
    <3> QED BY <1>1, <1>4, <3>1, ZerosToText
  <2>3. CASE "LEFT" \notin fl /\ "ZEROPAD" \in fl
    <3>1. {"LEFT", "ZEROPAD"} \cap fl = {"ZEROPAD"} BY <2>3
    <3>2. filled = ZerosTo(buf, 0) /\ ZerosTo(buf, 0) = buf BY <1>1, <2>3, ZerosToText
    <3>3. padded = ZerosTo(buf, least) BY <2>3, <3>1, <3>2
    <3> QED BY <1>1, <1>4, <3>3, ZerosToText
  <2> QED BY <2>1, <2>2, <2>3
<1> HIDE DEF zeros, padded, sign
<1>7. padded \in Text /\ Len(padded) = Len(buf) + Len(zeros) BY <1>2, <1>6, Joined
<1>8. Room(padded, sign) = padded \o sign
  <2>1. CASE sign = <<>> BY <1>7, <2>1, Joined DEF Room
  <2>2. CASE sign # <<>>
    <3>1. Len(sign) = 1 BY <2>2, SignText, One DEF sign
    <3>2. Len(padded) < B BY <1>1, <1>3, <1>7, <3>1
    <3> QED BY <3>2 DEF Room
  <2> QED BY <2>1, <2>2
<1>9. Reverse(padded \o sign) = whole
  <2>1. Reverse(sign) = sign BY SignText DEF sign
  <2>2. Reverse(zeros) = zeros
    <3>1. "0" \in Characters BY Letters
    <3>2. PICK n \in Nat : zeros = Repeat("0", n)
      <4>0. Len(num) \in Nat /\ least - Len(num) \in Int BY Joined
      <4>1. PICK m \in Int : m = least - Len(num) BY <4>0
      <4>2. Max({m, 0}) \in Nat BY MaxTwo
      <4> QED BY <4>1, <4>2 DEF zeros, Zeros
    <3> QED BY <3>1, <3>2, ReverseRepeat
  <2>3. Reverse(padded) = zeros \o num BY <1>2, <1>6, <2>2, ReverseAppends
  <2>4. Reverse(padded \o sign) = sign \o (zeros \o num)
    BY <1>2, <1>7, <2>1, <2>3, ReverseAppends
  <2>5. Fill(num, least) = zeros \o num BY FillText DEF zeros
  <2> QED BY <2>4, <2>5 DEF sign
<1>10. padded \o sign \in Text BY <1>2, <1>7, Joined
<1>11. place \in Int BY SignPlaces
<1>12. ntoa_format(buf, negative, base, prec, w, fl) = out_rev(Room(padded, sign), place, fl)
  BY DEF ntoa_format, padded, sign
<1> HIDE DEF place
<1>13. ntoa_format(buf, negative, base, prec, w, fl) = Aligned(whole, place, fl)
  BY <1>8, <1>9, <1>10, <1>11, <1>12, OutRev
<1>14. Aligned(whole, place, fl) = Aligned(whole, w, fl)
  <2>1. "LEFT" \in fl => place = w BY DEF place
  <2>2. "ZEROPAD" \notin fl => place = w BY SignPlaces DEF place
  <2> QED BY <2>1, <2>2 DEF Aligned
<1> QED BY <1>13, <1>14

(* A hexadecimal number other than 0 with the prefix the # flag asks for.   *)
HashedCase(buf, num, negative, base, prec, w, fl, letter, least, whole) ==
  /\ negative = FALSE /\ base = 16
  /\ buf \in Text /\ num \in Text /\ Reverse(buf) = num /\ Len(num) >= 1
  /\ prec \in Nat /\ w \in Nat /\ least \in Int
  /\ "HASH" \in fl /\ fl \cap {"PLUS", "SPACE"} = {}
  /\ letter = (IF "UPPERCASE" \in fl THEN "X" ELSE "x")
  /\ "LEFT" \in fl => least <= Len(num)
  /\ "LEFT" \notin fl /\ "ZEROPAD" \notin fl => least = prec
  /\ "LEFT" \notin fl /\ "ZEROPAD" \in fl =>
       prec = 0 /\ least = w - 2 /\ "PRECISION" \notin fl
  /\ "PRECISION" \notin fl => prec = 0 /\ Len(num) # w - 1 /\ Len(num) # w
  /\ whole = <<"0", letter>> \o Fill(num, least)
  /\ Len(whole) <= PRINTF_NTOA_BUFFER_SIZE

LEMMA HashedNumber ==
  ASSUME NEW buf, NEW num, NEW negative, NEW base, NEW prec, NEW w, NEW fl, NEW letter,
         NEW least, NEW whole, HashedCase(buf, num, negative, base, prec, w, fl, letter, least, whole)
  PROVE  ntoa_format(buf, negative, base, prec, w, fl) = Aligned(whole, w, fl)
<1> SUFFICES ASSUME negative = FALSE, base = 16,
                  buf \in Text, num \in Text, Reverse(buf) = num, Len(num) >= 1, prec \in Nat,
                  w \in Nat, least \in Int, "HASH" \in fl, fl \cap {"PLUS", "SPACE"} = {},
                  letter = (IF "UPPERCASE" \in fl THEN "X" ELSE "x"),
                  "LEFT" \in fl => least <= Len(num),
                  "LEFT" \notin fl /\ "ZEROPAD" \notin fl => least = prec,
                  "LEFT" \notin fl /\ "ZEROPAD" \in fl => prec = 0 /\ least = w - 2 /\ "PRECISION" \notin fl,
                  "PRECISION" \notin fl => prec = 0 /\ Len(num) # w - 1 /\ Len(num) # w,
                  whole = <<"0", letter>> \o Fill(num, least),
                  Len(whole) <= PRINTF_NTOA_BUFFER_SIZE
             PROVE  ntoa_format(buf, FALSE, 16, prec, w, fl) = Aligned(whole, w, fl)
  BY DEF HashedCase
<1> DEFINE B == PRINTF_NTOA_BUFFER_SIZE
           place == IF "LEFT" \in fl THEN w ELSE SignPlace(FALSE, w, fl)
           filled == IF "LEFT" \in fl THEN buf ELSE ZerosTo(buf, prec)
           padded == IF {"LEFT", "ZEROPAD"} \cap fl = {"ZEROPAD"}
                       THEN ZerosTo(filled, place) ELSE filled
           zeros == Zeros(num, least)
           core == buf \o zeros
           full == "PRECISION" \notin fl /\ Len(padded) > 0 /\ Len(padded) \in {prec, w}
           cut == IF ~full THEN 0 ELSE Min({2, Len(padded)})
<1>1. Len(num) = Len(buf) /\ zeros = Zeros(buf, least) /\ Len(buf) \in Nat /\ B \in Nat
  BY ReverseText, Joined, WidthAssumption DEF Zeros
<1>2. /\ zeros \in Text
      /\ Len(zeros) = (IF least > Len(num) THEN least - Len(num) ELSE 0)
      /\ least <= Len(num) => zeros = <<>>
  BY BlankText
<1>3. letter \in Characters /\ "0" \in Characters BY Letters
<1>4. Len(whole) = 2 + (IF least > Len(num) THEN least ELSE Len(num))
  <2>1. /\ Fill(num, least) \in Text
        /\ Len(Fill(num, least)) = (IF least > Len(num) THEN least ELSE Len(num))
    BY FillText
  <2>2. PICK f \in Text : f = Fill(num, least) BY <2>1
  <2>3. PICK g \in Text : g = <<"0", letter>> /\ Len(g) = 2 BY <1>3, Two
  <2>4. Len(g \o f) = Len(g) + Len(f) BY Joined
  <2> QED BY <2>1, <2>2, <2>3, <2>4
<1>5. place = w
  <2>1. "ZEROPAD" \in fl => SignPlace(FALSE, w, fl) = w BY SignPlaces
  <2>2. "ZEROPAD" \notin fl => SignPlace(FALSE, w, fl) = w BY SignPlaces
  <2> QED BY <2>1, <2>2
<1> HIDE DEF place, zeros
<1>6. core \in Text /\ Len(core) = Len(buf) + Len(zeros) /\ Len(core) + 2 = Len(whole)
  <2>1. core \in Text /\ Len(core) = Len(buf) + Len(zeros) BY <1>2, Joined
  <2> HIDE DEF core
  <2> QED BY <1>1, <1>2, <1>4, <2>1
<1>7. padded \in Text /\ SubSeq(padded, 1, Len(padded) - cut) = core
  <2>1. CASE ~("LEFT" \notin fl /\ "ZEROPAD" \in fl)
    <3>1. padded = core
      <4>1. {"LEFT", "ZEROPAD"} \cap fl # {"ZEROPAD"} BY <2>1
      <4>2. CASE "LEFT" \in fl
        <5>1. padded = buf BY <4>1, <4>2
        <5>2. zeros = <<>> BY <1>2, <4>2
        <5> QED BY <5>1, <5>2, Joined
      <4>3. CASE "LEFT" \notin fl
        <5>1. padded = ZerosTo(buf, least) BY <2>1, <4>1, <4>3
        <5>2. least <= B BY <1>1, <1>4
        <5> QED BY <1>1, <5>1, <5>2, ZerosToText
      <4> QED BY <4>2, <4>3
    <3>2. ~full
      <4> SUFFICES ASSUME "PRECISION" \notin fl PROVE ~full OBVIOUS
      <4>1. prec = 0 /\ Len(num) # w /\ least <= Len(num) BY <1>1, <2>1
      <4>2. Len(core) = Len(num) BY <1>1, <1>2, <1>6, <4>1
      <4> HIDE DEF padded, core
      <4>3. Len(padded) = Len(num) BY <3>1, <4>2
      <4> QED BY <4>1, <4>3
    <3> HIDE DEF padded, core, full
    <3>3. cut = 0 /\ Len(core) \in Nat BY <1>6, <3>2, Joined
    <3>4. Len(padded) - cut = Len(core) /\ Len(core) \in 0 .. Len(core) BY <3>1, <3>3
    <3> QED BY <1>6, <3>1, <3>4, PrefixText
  <2>2. CASE "LEFT" \notin fl /\ "ZEROPAD" \in fl
    <3>1. prec = 0 /\ least = w - 2 /\ "PRECISION" \notin fl /\ Len(num) # w - 1 /\ Len(num) # w
      BY <2>2
    <3>2. padded = ZerosTo(buf, w)
      <4>1. {"LEFT", "ZEROPAD"} \cap fl = {"ZEROPAD"} BY <2>2
      <4>2. filled = ZerosTo(buf, 0) /\ ZerosTo(buf, 0) = buf BY <1>1, <2>2, <3>1, ZerosToText
      <4> QED BY <1>5, <4>1, <4>2
    <3> HIDE DEF padded, filled
    <3>3. CASE Len(num) > w
      <4>1. padded = buf BY <1>1, <3>2, <3>3, ZerosToText
      <4>2. core = buf
        <5>1. zeros = <<>> BY <1>1, <1>2, <3>1, <3>3
        <5> QED BY <5>1, Joined
      <4>3. ~full BY <1>1, <3>1, <3>3, <4>1
      <4> HIDE DEF core, full
      <4>4. cut = 0 BY <4>3
      <4>5. Len(padded) - cut = Len(buf) /\ Len(buf) \in 0 .. Len(buf) BY <1>1, <4>1, <4>4
      <4> QED BY <4>1, <4>2, <4>5, PrefixText
    <3>4. CASE Len(num) < w - 1
      <4> DEFINE more == Zeros(buf, w)
      <4>1. w <= B BY <1>1, <1>4, <3>1
      <4>2. padded = buf \o more
        <5>1. w \in Int /\ w <= PRINTF_NTOA_BUFFER_SIZE BY <4>1
        <5>2. ZerosTo(buf, w) = buf \o Zeros(buf, w) BY <5>1, ZerosToText
        <5> QED BY <3>2, <5>2
      <4>3. more \in Text /\ Len(more) = w - Len(buf)
        <5>1. /\ more \in Text
              /\ Len(more) = (IF w > Len(buf) THEN w - Len(buf) ELSE 0)
          <6>1. w \in Int OBVIOUS
          <6> QED BY <6>1, BlankText
        <5> HIDE DEF more
        <5> QED BY <1>1, <3>4, <5>1
      <4> HIDE DEF more
      <4>4. padded \in Text /\ Len(padded) = w BY <1>1, <4>2, <4>3, Joined
      <4>5. full /\ w >= 3 BY <1>1, <3>1, <3>4, <4>4
      <4>6. cut = 2
        <5>1. Min({2, w}) = 2 BY <4>5, MinTwo
        <5> HIDE DEF full
        <5> QED BY <4>4, <4>5, <5>1
      <4> DEFINE s == SubSeq(padded, 1, w - 2)
      <4>7. s \in Text /\ Len(s) = w - 2 /\ \A k \in 1 .. w - 2 : s[k] = padded[k]
        <5>1. w - 2 \in 0 .. Len(padded) BY <4>4, <4>5
        <5> QED BY <4>4, <5>1 DEF Text
      <4>8. Len(zeros) = w - 2 - Len(buf) /\ Len(core) = w - 2
        <5> HIDE DEF core
        <5> QED BY <1>1, <1>2, <1>6, <3>1, <3>4
      <4>9. \A k \in 1 .. w - 2 - Len(buf) : zeros[k] = "0" /\ more[k] = "0"
        <5>1. w - Len(num) \in Int /\ least - Len(num) \in Int /\ w - Len(buf) \in Int
              /\ w - Len(buf) >= 0 /\ least - Len(num) >= 0
          BY <1>1, <3>1, <3>4
        <5>2. /\ Max({w - Len(buf), 0}) = w - Len(buf)
              /\ Max({least - Len(num), 0}) = least - Len(num)
          <6>1. \A m \in Int : m >= 0 => Max({m, 0}) = m BY MaxTwo
          <6> QED BY <5>1, <6>1, Zenon
        <5>3. /\ more = Repeat("0", w - Len(buf))
              /\ zeros = Repeat("0", least - Len(num))
          BY <5>2 DEF more, zeros, Zeros
        <5>4. /\ \A k \in 1 .. w - Len(buf) : more[k] = "0"
              /\ \A k \in 1 .. least - Len(num) : zeros[k] = "0"
          BY <1>3, <5>1, <5>3, RepeatText
        <5> QED BY <1>1, <3>1, <5>4
      <4>10. \A k \in 1 .. w - 2 : padded[k] = core[k]
        <5> SUFFICES ASSUME NEW k \in 1 .. w - 2 PROVE padded[k] = core[k] OBVIOUS
        <5>0. PICK l \in Nat : l = Len(buf) BY <1>1
        <5>1. CASE k <= l
          <6>1. padded[k] = buf[k] BY <4>2, <4>3, <5>0, <5>1 DEF Text
          <6>2. core[k] = buf[k] BY <1>2, <5>0, <5>1 DEF Text
          <6> QED BY <6>1, <6>2
        <5>2. CASE k > l
          <6>1. k - l \in 1 .. w - 2 - l BY <5>2
          <6>2. padded[k] = more[k - l]
            <7>1. k <= l + Len(more) BY <4>3, <5>0, <5>2, <6>1
            <7> QED BY <4>2, <4>3, <5>0, <5>2, <7>1 DEF Text
          <6>3. core[k] = zeros[k - l]
            <7>1. k <= l + Len(zeros) BY <4>8, <5>0, <5>2, <6>1
            <7> QED BY <1>2, <5>0, <5>2, <7>1 DEF Text
          <6> QED BY <4>9, <5>0, <6>1, <6>2, <6>3
        <5>3. k <= l \/ k > l OBVIOUS
        <5> QED BY <5>1, <5>2, <5>3
      <4> HIDE DEF s, core
      <4>11. s = core
        <5>1. s \in Text /\ core \in Text /\ Len(s) = w - 2 /\ Len(core) = w - 2
          BY <1>6, <4>7, <4>8
        <5>2. \A k \in 1 .. w - 2 : s[k] = core[k] BY <4>7, <4>10
        <5> QED BY <5>1, <5>2, SameText
      <4> QED BY <4>4, <4>6, <4>11 DEF s
    <3>5. Len(num) > w \/ Len(num) < w - 1 BY <1>1, <3>1
    <3> QED BY <3>3, <3>4, <3>5
  <2> QED BY <2>1, <2>2
<1> HIDE DEF padded, core
<1> DEFINE hashed == (core \o <<letter>>) \o <<"0">>
<1>8. /\ core \o <<letter>> \in Text /\ Len(core \o <<letter>>) = Len(core) + 1
      /\ hashed \in Text
  BY <1>3, <1>6, One, Joined
<1>9. Hash(padded, 16, prec, w, fl) = hashed
  <2>1. Len(core) < B /\ Len(core \o <<letter>>) < B
    <3>1. Len(core) \in Nat BY <1>6, Joined
    <3> QED BY <1>1, <1>6, <1>8, <3>1
  <2>2. Hash(padded, 16, prec, w, fl) =
          Room(Room(SubSeq(padded, 1, Len(padded) - cut), <<letter>>), <<"0">>)
    <3> HIDE DEF full
    <3>1. "UPPERCASE" \in fl => letter = "X" OBVIOUS
    <3>2. "UPPERCASE" \notin fl => letter = "x" OBVIOUS
    <3> QED BY <3>1, <3>2 DEF Hash, full
  <2> QED BY <1>7, <2>1, <2>2 DEF Room
<1>10. SignOf(FALSE, fl) = <<>>
  <2>1. "PLUS" \notin fl /\ "SPACE" \notin fl OBVIOUS
  <2> QED BY <2>1 DEF SignOf
<1>11. Room(hashed, <<>>) = hashed BY <1>8, Joined DEF Room
<1>12. Reverse(hashed) = whole
  <2>1. Reverse(zeros) = zeros
    <3>1. PICK n \in Nat : zeros = Repeat("0", n)
      <4>0. Len(num) \in Nat /\ least - Len(num) \in Int BY Joined
      <4>1. PICK m \in Int : m = least - Len(num) BY <4>0
      <4>2. Max({m, 0}) \in Nat BY MaxTwo
      <4> QED BY <4>1, <4>2 DEF zeros, Zeros
    <3> QED BY <1>3, <3>1, ReverseRepeat
  <2>2. Reverse(core) = zeros \o num BY <1>2, <2>1, ReverseAppends DEF core
  <2>3. <<letter>> \in Text /\ <<"0">> \in Text BY <1>3, One
  <2>4. Reverse(core \o <<letter>>) = <<letter>> \o (zeros \o num)
    BY <1>6, <2>2, <2>3, ReverseAppends, ReverseOne
  <2>5. Reverse(hashed) = <<"0">> \o (<<letter>> \o (zeros \o num))
    <3>1. PICK c \in Text : c = core \o <<letter>> BY <1>8
    <3>2. PICK z \in Text : z = <<"0">> BY <2>3
    <3>3. Reverse(c \o z) = Reverse(z) \o Reverse(c) BY ReverseAppends
    <3>4. Reverse(z) = z BY <3>2, ReverseOne
    <3> QED BY <2>4, <3>1, <3>2, <3>3, <3>4
  <2>6. zeros \o num \in Text BY <1>2, Joined
  <2>7. Reverse(hashed) = <<"0", letter>> \o (zeros \o num)
    BY <1>3, <2>5, <2>6, TwoBefore
  <2>9. Fill(num, least) = zeros \o num BY FillText DEF zeros
  <2> QED BY <2>7, <2>9
<1>13. ntoa_format(buf, FALSE, 16, prec, w, fl) = out_rev(Room(hashed, <<>>), place, fl)
  BY <1>5, <1>9, <1>10 DEF ntoa_format, padded, place
<1> HIDE DEF hashed
<1>14. out_rev(hashed, w, fl) = Aligned(Reverse(hashed), w, fl) BY <1>8, OutRev
<1> QED BY <1>5, <1>11, <1>12, <1>13, <1>14
-----------------------------------------------------------------------------
(* What a number directive means is what ntoa_long makes of it.             *)
IntegerSpecs == {"d", "i", "u", "x", "X", "o", "b"}

(* The flags that stand when an integer directive has been read.            *)
FlagsOfInteger(item, fl) ==
  /\ "LEFT" \in fl <=> Left(item)
  /\ "ZEROPAD" \in fl <=> "0" \in item.flags /\ item.precision = NoPrecision
  /\ "PLUS" \in fl <=> "+" \in item.flags /\ item.spec \in {"d", "i"}
  /\ "SPACE" \in fl <=> " " \in item.flags /\ item.spec \in {"d", "i"}
  /\ "HASH" \in fl <=> "#" \in item.flags /\ Base(item.spec) # 10
  /\ "UPPERCASE" \in fl <=> item.spec = "X"
  /\ "PRECISION" \in fl <=> item.precision # NoPrecision

Least(item) ==
  CASE item.spec = "p" -> PointerDigits
    [] item.spec # "p" /\ item.precision >= 0 -> item.precision
    [] item.spec # "p" /\ item.precision < 0 /\ "0" \in item.flags /\ ~Left(item)
         -> Field(item) - Len(Prefix(item))
    [] OTHER -> 0

LEMMA NumberTextParts ==
  ASSUME NEW item
  PROVE  NumberText(item) = Prefix(item) \o Fill(Digits(item), Least(item))
BY DEF NumberText, Least

LEMMA BaseOf ==
  ASSUME NEW spec \in IntegerSpecs
  PROVE  /\ Base(spec) \in Bases
         /\ Base(spec) = 16 <=> spec \in {"x", "X"}
         /\ spec \in {"d", "i", "u"} => Base(spec) = 10
BY DEF Base, Bases, IntegerSpecs

LEMMA NumberOf ==
  ASSUME NEW item, item.arg \in Int
  PROVE  Number(item) \in Int /\ (item.spec \notin {"d", "i"} => Number(item) \in Nat)
<1>1. \E v \in Widths : Number(item) = IF item.spec \in {"d", "i"} THEN Signed(item.arg, v)
                                       ELSE Unsigned(item.arg, v)
  BY DEF Number, Widths
<1>2. PICK v \in Widths : Number(item) = IF item.spec \in {"d", "i"} THEN Signed(item.arg, v)
                                         ELSE Unsigned(item.arg, v)
  BY <1>1
<1>3. v \in Nat \ {0} BY WidthAssumption DEF Widths
<1>4. /\ Unsigned(item.arg, v) \in 0 .. v - 1
      /\ Signed(item.arg, v) \in -(v \div 2) .. (v \div 2) - 1
  BY Conversions
<1>5. v \div 2 \in Int BY <1>3
<1> QED BY <1>2, <1>3, <1>4, <1>5

LEMMA NoPrecisionNegative == NoPrecision \in Int /\ NoPrecision < 0
BY WidthAssumption DEF NoPrecision

(* One more zero in front of a 0.                                           *)
LEMMA ZeroFilled ==
  ASSUME NEW p \in Nat \ {0} PROVE Fill(<<"0">>, p) = Fill(<<>>, p)
<1>1. "0" \in Characters BY Letters
<1>2. <<"0">> \in Text /\ Len(<<"0">>) = 1 /\ <<>> \in Text /\ Len(<<>>) = 0
  BY <1>1, One, Nothing
<1>3. Max({p - 1, 0}) = p - 1 /\ Max({p - 0, 0}) = p BY MaxTwo
<1>4. /\ Fill(<<"0">>, p) = Repeat("0", p - 1) \o <<"0">>
      /\ Fill(<<>>, p) = Repeat("0", p) \o <<>>
  <2>1. Len(<<"0">>) = 1 /\ Len(<<>>) = 0 BY <1>2
  <2>2. p - 0 = p OBVIOUS
  <2> QED BY <1>3, <2>1, <2>2 DEF Fill
<1>5. PICK a \in Text, b \in Text :
        /\ a = Repeat("0", p - 1) /\ Len(a) = p - 1 /\ \A k \in 1 .. p - 1 : a[k] = "0"
        /\ b = Repeat("0", p) /\ Len(b) = p /\ \A k \in 1 .. p : b[k] = "0"
  <2>1. p - 1 \in Int /\ p - 1 >= 0 /\ p \in Int /\ p >= 0 OBVIOUS
  <2>2. /\ Repeat("0", p - 1) \in Text /\ Len(Repeat("0", p - 1)) = p - 1
        /\ \A k \in 1 .. p - 1 : Repeat("0", p - 1)[k] = "0"
    BY <1>1, <2>1, RepeatText
  <2>3. /\ Repeat("0", p) \in Text /\ Len(Repeat("0", p)) = p
        /\ \A k \in 1 .. p : Repeat("0", p)[k] = "0"
    BY <1>1, <2>1, RepeatText
  <2> QED BY <2>2, <2>3
<1>6. PICK z \in Text : z = <<"0">> /\ Len(z) = 1 /\ z[1] = "0" BY <1>2
<1>7. a \o z \in Text /\ Len(a \o z) = p /\ \A k \in 1 .. p : (a \o z)[k] = "0"
  <2>1. a \o z \in Text /\ Len(a \o z) = p BY <1>5, <1>6, Joined
  <2>2. ASSUME NEW k \in 1 .. p PROVE (a \o z)[k] = "0"
    <3>1. CASE k < p
      <4>1. (a \o z)[k] = a[k] BY <1>5, <1>6, <3>1 DEF Text
      <4> QED BY <1>5, <3>1, <4>1
    <3>2. CASE k = p
      <4>1. (a \o z)[k] = z[1] BY <1>5, <1>6, <3>2 DEF Text
      <4> QED BY <1>6, <4>1
    <3>3. k < p \/ k = p OBVIOUS
    <3> QED BY <3>1, <3>2, <3>3
  <2> QED BY <2>1, <2>2
<1>8. a \o z = b BY <1>5, <1>7, SameText
<1>9. b \o <<>> = b BY Joined
<1> QED BY <1>4, <1>5, <1>6, <1>8, <1>9

LEMMA MeaningAligned ==
  ASSUME NEW item, NEW fl, item.spec \in IntegerSpecs, "LEFT" \in fl <=> Left(item),
         NumberText(item) \in Text, Field(item) \in Nat,
         "LEFT" \notin fl /\ "ZEROPAD" \in fl => Field(item) <= Len(NumberText(item))
  PROVE  Meaning(item) = Aligned(NumberText(item), Field(item), fl)
<1> DEFINE s == NumberText(item)  w == Field(item)
<1>1. Content(item) = s BY DEF Content, IntegerSpecs
<1>2. Meaning(item) = IF Left(item) THEN s \o Blank(s, w) ELSE Blank(s, w) \o s
  <2>1. item.spec \in ValueSpecs BY DEF IntegerSpecs, ValueSpecs
  <2>2. Max({w - Len(s), 0}) = (IF item.spec \notin ValueSpecs THEN 0 ELSE Max({w - Len(s), 0}))
    BY <2>1
  <2> QED BY <1>1, <2>1, <2>2 DEF Meaning, Blank
<1>3. "LEFT" \notin fl /\ "ZEROPAD" \in fl => Blank(s, w) = <<>> BY BlankText
<1>4. <<>> \o s = s BY Joined
<1> QED BY <1>2, <1>3, <1>4 DEF Aligned

LEMMA PrefixIsSign ==
  ASSUME NEW item, NEW fl, item.spec \in IntegerSpecs, item.arg \in Int,
         FlagsOfInteger(item, fl),
         ~("#" \in item.flags /\ item.spec \in {"x", "X"} /\ Number(item) # 0),
         NEW neg \in BOOLEAN, neg <=> Number(item) < 0
  PROVE  Prefix(item) = SignOf(neg, fl)
<1> DEFINE n == Number(item)
<1>1. n \in Int /\ (item.spec \notin {"d", "i"} => n >= 0) BY NumberOf
<1>2. CASE n < 0
  <2>0. item.spec \notin {"x", "X"} /\ ~(n >= 0) BY <1>1, <1>2
  <2>1. Prefix(item) = <<"-">> BY <1>2, <2>0 DEF Prefix
  <2>2. SignOf(neg, fl) = <<"-">> BY <1>2 DEF SignOf
  <2> QED BY <2>1, <2>2
<1>3. CASE ~(n < 0)
  <2>1. n >= 0 BY <1>1, <1>3
  <2>2. CASE item.spec \in {"d", "i"}
    <3>1. /\ "PLUS" \in fl <=> "+" \in item.flags
          /\ "SPACE" \in fl <=> " " \in item.flags
      BY <2>2 DEF FlagsOfInteger
    <3>2. item.spec \notin {"x", "X"} BY <2>2
    <3> DEFINE sign == IF "+" \in item.flags THEN <<"+">>
                       ELSE IF " " \in item.flags THEN <<" ">> ELSE <<>>
    <3>3. Prefix(item) = sign BY <1>3, <2>1, <2>2, <3>2 DEF Prefix
    <3>4. SignOf(neg, fl) = sign BY <1>3, <3>1 DEF SignOf
    <3> HIDE DEF sign
    <3> QED BY <3>3, <3>4
  <2>3. CASE item.spec \notin {"d", "i"}
    <3>1. "PLUS" \notin fl /\ "SPACE" \notin fl BY <2>3 DEF FlagsOfInteger
    <3>2. Prefix(item) = <<>> BY <1>3, <2>3 DEF Prefix
    <3>3. SignOf(neg, fl) = <<>> BY <1>3, <3>1 DEF SignOf
    <3> QED BY <3>2, <3>3
  <2> QED BY <2>2, <2>3
<1> QED BY <1>2, <1>3

(* The zeros the meaning asks for, by the flags that stand.                 *)
LEMMA LeastOf ==
  ASSUME NEW item, NEW fl, item.spec \in IntegerSpecs, FlagsOfInteger(item, fl),
         item.precision \in Int, item.width \in Int, Prefix(item) \in Text,
         item.precision >= 0 \/ item.precision = NoPrecision,
         Left(item) => item.precision = NoPrecision
  PROVE  /\ Least(item) \in Int /\ Field(item) \in Nat
         /\ "PRECISION" \in fl => Least(item) = item.precision /\ item.precision >= 0
                                  /\ "LEFT" \notin fl /\ "ZEROPAD" \notin fl
         /\ "PRECISION" \notin fl => item.precision < 0
         /\ "LEFT" \in fl => Least(item) = 0
         /\ "PRECISION" \notin fl /\ "LEFT" \notin fl /\ "ZEROPAD" \notin fl => Least(item) = 0
         /\ "LEFT" \notin fl /\ "ZEROPAD" \in fl =>
              Least(item) = Field(item) - Len(Prefix(item))
<1>1. NoPrecision \in Int /\ NoPrecision < 0 BY NoPrecisionNegative
<1>2. item.spec # "p" BY DEF IntegerSpecs
<1>3. Field(item) \in Nat BY DEF Field
<1>4. Len(Prefix(item)) \in Nat BY Joined
<1>5. Least(item) = IF item.precision >= 0 THEN item.precision
                    ELSE IF "0" \in item.flags /\ ~Left(item)
                           THEN Field(item) - Len(Prefix(item)) ELSE 0
  BY <1>2 DEF Least
<1>6. /\ "LEFT" \in fl <=> Left(item)
      /\ "ZEROPAD" \in fl <=> "0" \in item.flags /\ item.precision = NoPrecision
      /\ "PRECISION" \in fl <=> item.precision # NoPrecision
  BY DEF FlagsOfInteger
<1> QED BY <1>1, <1>3, <1>4, <1>5, <1>6

LEMMA AlignedBySides ==
  ASSUME NEW s, NEW w, NEW f, NEW g,
         "LEFT" \in f <=> "LEFT" \in g, "ZEROPAD" \in f <=> "ZEROPAD" \in g
  PROVE  Aligned(s, w, f) = Aligned(s, w, g)
BY DEF Aligned

LEMMA SignByFlags ==
  ASSUME NEW negative, NEW f, NEW g,
         "PLUS" \in f <=> "PLUS" \in g, "SPACE" \in f <=> "SPACE" \in g
  PROVE  SignOf(negative, f) = SignOf(negative, g)
BY DEF SignOf

(* The digits printed and those meant.                                      *)
LEMMA DigitsMeant ==
  ASSUME NEW item, NEW fl, item.spec \in IntegerSpecs, item.arg \in Int,
         FlagsOfInteger(item, fl), NEW n, n = Number(item),
         NEW abs, abs = IF n > 0 THEN n ELSE 0 - n
  PROVE  /\ abs \in Nat /\ n \in Int /\ (abs = 0 <=> n = 0)
         /\ Numeral(abs, Base(item.spec), Letter(fl)) \in Text
         /\ Len(Numeral(abs, Base(item.spec), Letter(fl))) >= 1
         /\ abs = 0 => Numeral(abs, Base(item.spec), Letter(fl)) = <<"0">>
         /\ Digits(item) = IF n = 0 /\ item.precision = 0 THEN <<>>
                           ELSE Numeral(abs, Base(item.spec), Letter(fl))
<1>1. n \in Int BY NumberOf
<1>2. abs \in Nat /\ (abs = 0 <=> n = 0) BY <1>1
<1>3. Base(item.spec) \in Bases /\ Base(item.spec) >= 2 BY BaseOf DEF Bases
<1>4. Letter(fl) \in {DigitChar, UpperChar} BY DEF Letter
<1>5. /\ Numeral(abs, Base(item.spec), Letter(fl)) \in Text
      /\ Len(Numeral(abs, Base(item.spec), Letter(fl))) >= 1
  BY <1>2, <1>3, DigitsOfNumeral
<1>6. ASSUME abs = 0 PROVE Numeral(abs, Base(item.spec), Letter(fl)) = <<"0">>
  <2>1. Numeral(0, Base(item.spec), Letter(fl)) = <<Letter(fl)[1]>>
    <3>1. 0 < Base(item.spec) BY <1>3 DEF Bases
    <3>2. 0 + 1 = 1 /\ 0 \in Nat OBVIOUS
    <3> QED BY <1>3, <1>4, <3>1, <3>2, NumeralDefined
  <2>2. Letter(fl)[1] = "0" BY <1>4 DEF DigitChar, UpperChar
  <2> QED BY <1>6, <2>1, <2>2
<1>7. Digits(item) = IF n = 0 /\ item.precision = 0 THEN <<>>
                     ELSE Numeral(abs, Base(item.spec), Letter(fl))
  <2>1. item.spec # "p" BY DEF IntegerSpecs
  <2>2. Letter(fl) = IF item.spec \in {"X", "p"} THEN UpperChar ELSE DigitChar
    BY <2>1 DEF Letter, FlagsOfInteger
  <2>3. abs = IF n < 0 THEN -n ELSE n BY <1>1
  <2>4. Digits(item) = IF n = 0 /\ item.precision = 0 THEN <<>>
          ELSE Numeral(IF n < 0 THEN -n ELSE n, Base(item.spec),
                       IF item.spec \in {"X", "p"} THEN UpperChar ELSE DigitChar)
    BY <2>1 DEF Digits
  <2> QED BY <2>2, <2>3, <2>4
<1> QED BY <1>1, <1>2, <1>5, <1>6, <1>7

LEMMA IntegerPrinted ==
  ASSUME NEW item, item.spec \in IntegerSpecs, item.arg \in Int, item.width \in Int,
         item.precision \in Int, Regular(item), NEW fl, FlagsOfInteger(item, fl),
         NEW prec, prec = (IF item.precision >= 0 THEN item.precision ELSE 0),
         NEW n, n = Number(item), NEW abs, abs = (IF n > 0 THEN n ELSE 0 - n),
         NEW neg \in BOOLEAN, neg <=> n < 0
  PROVE  ntoa_long(abs, neg, Base(item.spec), prec, Field(item), fl) = Meaning(item)
<1> DEFINE base == Base(item.spec)  w == Field(item)
           f == IF abs = 0 THEN fl \ {"HASH"} ELSE fl
           least == Least(item)
           hash == "#" \in item.flags /\ item.spec \in {"x", "X"} /\ n # 0
<1>1. PICK num \in Text :
        /\ num = Numeral(abs, base, Letter(fl)) /\ Len(num) >= 1
        /\ abs = 0 => num = <<"0">>
        /\ Digits(item) = IF n = 0 /\ item.precision = 0 THEN <<>> ELSE num
        /\ abs \in Nat /\ n \in Int /\ (abs = 0 <=> n = 0)
  BY DigitsMeant
<1>2. /\ item.precision >= 0 \/ item.precision = NoPrecision
      /\ Left(item) => item.precision = NoPrecision
      /\ Len(NumberText(item)) <= PRINTF_NTOA_BUFFER_SIZE
      /\ "#" \in item.flags => /\ item.spec \in {"d", "i", "u", "x", "X"}
                               /\ Len(Digits(item)) \notin {Field(item) - 1, Field(item)}
                                    \/ item.precision # NoPrecision
  BY DEF Regular, IntegerSpecs
<1>3. /\ hash => Prefix(item) = <<"0", item.spec>>
      /\ ~hash => Prefix(item) = SignOf(neg, fl)
  <2>1. ASSUME hash PROVE Prefix(item) = <<"0", item.spec>>
    <3>1. item.spec \notin {"d", "i"} BY <2>1
    <3>2. Number(item) \in Nat BY <3>1, NumberOf
    <3>3. ~(Number(item) < 0) /\ Number(item) # 0 BY <2>1, <3>2
    <3> QED BY <2>1, <3>1, <3>3 DEF Prefix
  <2>2. ASSUME ~hash PROVE Prefix(item) = SignOf(neg, fl) BY <2>2, PrefixIsSign
  <2> QED BY <2>1, <2>2
<1>4. Prefix(item) \in Text
  <2>1. CASE hash
    <3>1. "0" \in Characters /\ item.spec \in Characters BY <2>1, Letters
    <3> QED BY <1>3, <2>1, <3>1, Two
  <2>2. CASE ~hash
    <3> QED BY <1>3, <2>2, SignText
  <2> QED BY <2>1, <2>2
<1>5. /\ least \in Int /\ w \in Nat
      /\ "PRECISION" \in fl => least = item.precision /\ item.precision >= 0
                               /\ "LEFT" \notin fl /\ "ZEROPAD" \notin fl
      /\ "PRECISION" \notin fl => item.precision < 0
      /\ "LEFT" \in fl => least = 0
      /\ "PRECISION" \notin fl /\ "LEFT" \notin fl /\ "ZEROPAD" \notin fl => least = 0
      /\ "LEFT" \notin fl /\ "ZEROPAD" \in fl => least = w - Len(Prefix(item))
  BY <1>2, <1>4, LeastOf
<1>6. prec \in Nat /\ ("PRECISION" \notin fl => prec = 0) /\ ("PRECISION" \in fl => prec = least)
  BY <1>5
<1>7. PICK whole \in Text : /\ whole = NumberText(item)
                            /\ whole = Prefix(item) \o Fill(Digits(item), least)
                            /\ Len(whole) <= PRINTF_NTOA_BUFFER_SIZE
                            /\ Digits(item) \in Text
                            /\ Len(whole) = Len(Prefix(item)) + Len(Fill(Digits(item), least))
                            /\ Len(Fill(Digits(item), least)) >= Len(Digits(item))
                            /\ Len(Fill(Digits(item), least)) >= least
  <2>1. NumberText(item) = Prefix(item) \o Fill(Digits(item), least) BY NumberTextParts
  <2>2. Digits(item) \in Text /\ Len(Digits(item)) \in Nat BY <1>1, Nothing, Joined
  <2>3. /\ Fill(Digits(item), least) \in Text
        /\ Len(Fill(Digits(item), least)) = IF least > Len(Digits(item)) THEN least ELSE Len(Digits(item))
    BY <1>5, <2>2, FillText
  <2>4. /\ NumberText(item) \in Text
        /\ Len(NumberText(item)) = Len(Prefix(item)) + Len(Fill(Digits(item), least))
    BY <1>4, <2>1, <2>3, Joined
  <2>5. /\ Len(Fill(Digits(item), least)) >= Len(Digits(item))
        /\ Len(Fill(Digits(item), least)) >= least
    BY <1>5, <2>2, <2>3
  <2> QED BY <1>2, <2>1, <2>2, <2>4, <2>5
<1>8. Meaning(item) = Aligned(whole, w, f)
  <2>1. /\ "LEFT" \in f <=> "LEFT" \in fl
        /\ "ZEROPAD" \in f <=> "ZEROPAD" \in fl
    OBVIOUS
  <2>2. Aligned(whole, w, f) = Aligned(whole, w, fl) BY <2>1, AlignedBySides
  <2>3. "LEFT" \in fl <=> Left(item) BY DEF FlagsOfInteger
  <2>4. ASSUME "LEFT" \notin fl, "ZEROPAD" \in fl PROVE w <= Len(NumberText(item))
    <3>1. Len(Prefix(item)) \in Nat /\ Len(Fill(Digits(item), least)) \in Int
      <4>1. Fill(Digits(item), least) \in Text BY <1>5, <1>7, FillText
      <4> QED BY <1>4, <4>1, Joined
    <3>2. least = w - Len(Prefix(item)) BY <1>5, <2>4
    <3> HIDE DEF w, least
    <3> QED BY <1>5, <1>7, <3>1, <3>2
  <2>5. NumberText(item) \in Text BY <1>7
  <2>6. Meaning(item) = Aligned(NumberText(item), w, fl)
    BY <1>5, <2>3, <2>4, <2>5, MeaningAligned
  <2> QED BY <1>7, <2>2, <2>6
<1>9. ntoa_long(abs, neg, base, prec, w, fl) =
        ntoa_format(IF "PRECISION" \in fl /\ abs = 0 THEN <<>> ELSE DigitsOf(abs, base, fl),
                    neg, base, prec, w, f)
  BY DEF ntoa_long
<1>11. /\ "LEFT" \in f <=> "LEFT" \in fl
       /\ "ZEROPAD" \in f <=> "ZEROPAD" \in fl
       /\ "PRECISION" \in f <=> "PRECISION" \in fl
       /\ "PLUS" \in f <=> "PLUS" \in fl
       /\ "SPACE" \in f <=> "SPACE" \in fl
       /\ "UPPERCASE" \in f <=> "UPPERCASE" \in fl
       /\ "HASH" \in f <=> hash
  <2>1. "HASH" \in f <=> "HASH" \in fl /\ n # 0 BY <1>1
  <2>2. "HASH" \in fl <=> hash \/ ("#" \in item.flags /\ n = 0 /\ item.spec \in {"x", "X"})
    <3>1. Base(item.spec) # 10 /\ "#" \in item.flags => item.spec \in {"x", "X"}
      BY <1>2, BaseOf
    <3>2. item.spec \in {"x", "X"} => Base(item.spec) # 10 BY DEF Base
    <3> QED BY <3>1, <3>2 DEF FlagsOfInteger
  <2> QED BY <2>1, <2>2
<1>12. SignOf(neg, f) = SignOf(neg, fl) BY <1>11, SignByFlags
<1>13. CASE "PRECISION" \in fl /\ abs = 0
  <2>1. ~hash /\ "HASH" \notin f BY <1>1, <1>11, <1>13
  <2>2. Fill(Digits(item), least) = Fill(<<>>, least)
    <3>1. CASE item.precision = 0 BY <1>1, <1>13, <3>1
    <3>2. CASE item.precision # 0
      <4>1. least \in Nat \ {0} BY <1>5, <1>13, <3>2
      <4>2. Digits(item) = <<"0">> BY <1>1, <1>13, <3>2
      <4> QED BY <4>1, <4>2, ZeroFilled
    <3> QED BY <3>1, <3>2
  <2>3. whole = SignOf(neg, f) \o Fill(<<>>, least) BY <1>3, <1>7, <1>12, <2>1, <2>2
  <2>4. "LEFT" \notin f /\ "ZEROPAD" \notin f /\ least = prec BY <1>5, <1>6, <1>11, <1>13
  <2>5. <<>> \in Text /\ Reverse(<<>>) = <<>> BY Nothing
  <2> HIDE DEF f, w, least, base, hash
  <2>6. PlainCase(<<>>, <<>>, neg, prec, w, f, least, whole)
    BY <1>5, <1>6, <1>7, <2>1, <2>3, <2>4, <2>5 DEF PlainCase
  <2>7. ntoa_format(<<>>, neg, base, prec, w, f) = Aligned(whole, w, f)
    BY <2>6, PlainNumber
  <2> QED BY <1>8, <1>9, <1>13, <2>7 DEF base, w
<1>14. CASE ~("PRECISION" \in fl /\ abs = 0)
  <2>1. Digits(item) = num BY <1>1, <1>5, <1>14
  <2>2. Len(num) <= PRINTF_NTOA_BUFFER_SIZE
    <3>1. Len(Prefix(item)) \in Nat /\ Len(num) \in Nat /\ Len(Fill(num, least)) \in Int
      <4>1. Fill(num, least) \in Text BY <1>5, FillText
      <4> QED BY <1>4, <4>1, Joined
    <3>2. PRINTF_NTOA_BUFFER_SIZE \in Nat BY WidthAssumption
    <3> HIDE DEF least
    <3> QED BY <1>7, <2>1, <3>1, <3>2
  <2>3. base \in Bases /\ (base = 16 <=> item.spec \in {"x", "X"}) BY BaseOf
  <2>4. PICK buf \in Text : buf = DigitsOf(abs, base, fl) /\ Reverse(buf) = num
    BY <1>1, <2>2, <2>3, DigitsOfNumeral
  <2>5. ntoa_long(abs, neg, base, prec, w, fl) = ntoa_format(buf, neg, base, prec, w, f)
    BY <1>9, <1>14, <2>4
  <2>6. CASE hash
    <3>1. base = 16 /\ ~(n < 0) /\ item.spec \notin {"d", "i"}
      <4>1. item.spec \notin {"d", "i"} BY <2>6
      <4>2. Number(item) \in Nat BY <4>1, NumberOf
      <4> QED BY <2>3, <2>6, <4>1, <4>2
    <3>2. "HASH" \in f /\ f \cap {"PLUS", "SPACE"} = {}
      <4>1. "PLUS" \notin fl /\ "SPACE" \notin fl BY <3>1 DEF FlagsOfInteger
      <4> QED BY <1>11, <2>6, <4>1
    <3>3. item.spec = IF "UPPERCASE" \in f THEN "X" ELSE "x"
      BY <1>11, <2>6 DEF FlagsOfInteger
    <3>4. Prefix(item) = <<"0", item.spec>> /\ Len(Prefix(item)) = 2
      BY <1>3, <2>6
    <3>5. whole = <<"0", item.spec>> \o Fill(num, least) BY <1>7, <2>1, <3>4
    <3>6. /\ "LEFT" \in f => least <= Len(num)
          /\ "LEFT" \notin f /\ "ZEROPAD" \notin f => least = prec
          /\ "LEFT" \notin f /\ "ZEROPAD" \in f =>
               prec = 0 /\ least = w - 2 /\ "PRECISION" \notin f
      BY <1>1, <1>5, <1>6, <1>11, <3>4
    <3>7. "PRECISION" \notin f => prec = 0 /\ Len(num) # w - 1 /\ Len(num) # w
      <4>1. "PRECISION" \notin f => item.precision = NoPrecision
        BY <1>11 DEF FlagsOfInteger
      <4> QED BY <1>2, <1>6, <1>11, <2>1, <2>6, <4>1
    <3>8. neg = FALSE BY <3>1
    <3> HIDE DEF f, w, least, base, hash
    <3> PICK letter : letter = item.spec OBVIOUS
    <3>9. HashedCase(buf, num, neg, base, prec, w, f, letter, least, whole)
      BY <3>1, <3>8, <1>1, <1>5, <1>6, <1>7, <2>4, <3>2, <3>3, <3>5, <3>6, <3>7 DEF HashedCase
    <3>10. ntoa_format(buf, neg, base, prec, w, f) = Aligned(whole, w, f)
      BY <3>9, HashedNumber
    <3> QED BY <1>8, <2>5, <3>10 DEF base, w
  <2>7. CASE ~hash
    <3>1. "HASH" \notin f BY <1>11, <2>7
    <3>2. Prefix(item) = SignOf(neg, f) BY <1>3, <1>12, <2>7
    <3>3. CASE "LEFT" \notin f /\ "ZEROPAD" \in f
      <4> PICK place : place = SignPlace(neg, w, f) OBVIOUS
      <4>1. prec = 0 /\ least = w - Len(Prefix(item)) BY <1>5, <1>6, <1>11, <3>3
      <4>2. Len(Prefix(item)) = IF neg \/ f \cap {"PLUS", "SPACE"} # {} THEN 1 ELSE 0
        BY <3>2, SignText
      <4>3. place = (IF w # 0 /\ (neg \/ f \cap {"PLUS", "SPACE"} # {}) THEN w - 1 ELSE w)
            /\ place \in Int
        BY <1>5, <3>3, SignPlaces
      <4>4. place = least \/ (place = 0 /\ least <= 0) BY <1>5, <4>1, <4>2, <4>3
      <4>5. Fill(num, place) = Fill(num, least)
        <5>1. CASE place = least BY <5>1
        <5>2. CASE place = 0 /\ least <= 0
          <6>1. Len(num) \in Nat BY Joined
          <6>2. least <= Len(num) /\ place <= Len(num) BY <1>5, <4>3, <5>2, <6>1
          <6>3. Zeros(num, least) = <<>> /\ Zeros(num, place) = <<>>
            BY <1>5, <4>3, <6>2, BlankText
          <6>4. /\ Fill(num, least) = Zeros(num, least) \o num
                /\ Fill(num, place) = Zeros(num, place) \o num
            BY <1>5, <4>3, FillText
          <6> QED BY <6>3, <6>4
        <5> QED BY <4>4, <5>1, <5>2
      <4>6. whole = SignOf(neg, f) \o Fill(num, place) BY <1>7, <2>1, <3>2, <4>5
      <4>7. place = SignPlace(neg, w, f) OBVIOUS
      <4> HIDE DEF f, w, least, base, hash
      <4>8. PlainCase(buf, num, neg, prec, w, f, place, whole)
        BY <1>5, <1>6, <1>7, <2>4, <3>1, <3>3, <4>1, <4>3, <4>6, <4>7 DEF PlainCase
      <4>9. ntoa_format(buf, neg, base, prec, w, f) = Aligned(whole, w, f)
        BY <4>8, PlainNumber
      <4> QED BY <1>8, <2>5, <4>9 DEF base, w
    <3>4. CASE ~("LEFT" \notin f /\ "ZEROPAD" \in f)
      <4>1. whole = SignOf(neg, f) \o Fill(num, least) BY <1>7, <2>1, <3>2
      <4>2. /\ "LEFT" \in f => least <= Len(num)
            /\ "LEFT" \notin f /\ "ZEROPAD" \notin f => least = prec
        BY <1>1, <1>5, <1>6, <1>11
      <4> HIDE DEF f, w, least, base, hash
      <4>3. PlainCase(buf, num, neg, prec, w, f, least, whole)
        BY <1>5, <1>6, <1>7, <2>4, <3>1, <3>4, <4>1, <4>2 DEF PlainCase
      <4>4. ntoa_format(buf, neg, base, prec, w, f) = Aligned(whole, w, f)
        BY <4>3, PlainNumber
      <4> QED BY <1>8, <2>5, <4>4 DEF base, w
    <3> QED BY <3>3, <3>4
  <2> QED BY <2>6, <2>7
<1> QED BY <1>13, <1>14
-----------------------------------------------------------------------------
(* The inductive invariant.  Every directive already printed left its text  *)
(* in fields, so the one being read is the next item.                       *)
Printed == Len(fields)
Current == call.items[Printed + 1]

(* The flags that stand in front of the width, behind it, behind the        *)
(* precision, and behind the length.                                        *)
WrittenFlags(item) == {FlagOf[c] : c \in item.flags}
SideFlags(item) == WrittenFlags(item) \cup (IF item.width < 0 THEN {"LEFT"} ELSE {})
PrecisionFlags(item) ==
  SideFlags(item) \cup (IF item.precision # NoPrecision THEN {"PRECISION"} ELSE {})
FlagsOfLength(l) ==
  CASE l = "hh" -> {"SHORT", "CHAR"} [] l = "h" -> {"SHORT"}
    [] l \in {"l", "z", "t"} -> {"LONG"} [] l = "ll" -> {"LONG", "LONG_LONG"}
    [] l = "j" -> {"LONG_LONG"} [] OTHER -> {}
DirectiveFlags(item) == PrecisionFlags(item) \cup FlagsOfLength(item.length)
PrecisionOf(item) == IF item.precision >= 0 THEN item.precision ELSE 0

(* Where the walk over the format and the arguments is, phase by phase, and *)
(* what has been read of the directive.                                     *)
BetweenDirectives ==
  /\ format \in 1 .. Len(call.format) + 1
  /\ Printed # 0 => call.items[Printed].specAt < format
  /\ Printed < Len(call.items) => format <= Current.at
  /\ va = IF Printed = 0 THEN 1 ELSE call.items[Printed].nextArg
ReadingFlags ==
  /\ format \in Current.at + 1 .. Current.widthAt /\ va = Current.widthArg
  /\ flags = {FlagOf[call.format[k]] : k \in Current.at + 1 .. format - 1}
ReadingPrecision ==
  /\ format = Current.precisionAt /\ va = Current.precisionArg
  /\ flags = SideFlags(Current) /\ width = Field(Current)
ReadingLength ==
  /\ format = Current.lengthAt /\ va = Current.valueArg
  /\ flags = PrecisionFlags(Current) /\ width = Field(Current) /\ precision = PrecisionOf(Current)
ReadingSpecifier ==
  /\ format = Current.specAt /\ va = Current.valueArg
  /\ flags = DirectiveFlags(Current) /\ width = Field(Current) /\ precision = PrecisionOf(Current)

WalkInv ==
  /\ call \in Calls /\ pc \in Phases /\ Printed \in 0 .. Len(call.items)
  /\ flags \subseteq AllFlags
  /\ width \in 0 .. IntValues - 1 /\ precision \in 0 .. IntValues - 1
  /\ pc \in {"text", "done"} => BetweenDirectives
  /\ pc \notin {"text", "done"} => Printed < Len(call.items)
  /\ pc = "flags" => ReadingFlags
  /\ pc = "precision" => ReadingPrecision
  /\ pc = "length" => ReadingLength
  /\ pc = "specifier" => ReadingSpecifier

(* As much of a text as a buffer holds, before and after the NUL.           *)
Stored(t, size) == [k \in 0 .. Min({Len(t), size}) - 1 |-> t[k+1]]
Closed(t, size) ==
  [k \in 0 .. Min({Len(t), size - 1}) |->
     IF k = Min({Len(t), size - 1}) THEN NUL ELSE t[k+1]]

(* What has been given to the sink, and where each directive's text lies.   *)
OutputInv ==
  /\ text \in Text /\ idx = Len(text)
  /\ sink = "screen" => screen = Shown(text)
  /\ sink # "buffer" => buffer = <<>>
  /\ sink = "buffer" /\ pc # "done" => buffer = Stored(text, maxlen)
  /\ sink = "buffer" /\ pc = "done" => buffer = Closed(text, maxlen)
FieldInv ==
  /\ fields \in Seq([from : Nat \ {0}, to : Nat])
  /\ \A k \in 1 .. Len(fields) : fields[k].to <= Len(text)
  /\ FieldsAsMeant
-----------------------------------------------------------------------------
(* The characters of a well written call.                                   *)
LEMMA CallFacts ==
  ASSUME call \in Calls
  PROVE  /\ call.format \in Seq(Characters \ {NUL}) /\ call.args \in Seq(Int)
         /\ Len(call.format) \in Nat /\ Len(call.args) \in Nat
         /\ DOMAIN call.format = 1 .. Len(call.format)
         /\ Len(call.items) \in Nat /\ DOMAIN call.items = 1 .. Len(call.items)
         /\ \A k \in 1 .. Len(call.items) : Directive(call, call.items[k])
         /\ maxlen \in Nat /\ maxlen <= SizeMax
<1>1. /\ call.format \in Seq(Characters \ {NUL}) /\ call.args \in Seq(Int)
      /\ Len(call.items) \in Nat /\ DOMAIN call.items = 1 .. Len(call.items)
      /\ \A k \in DOMAIN call.items : Directive(call, call.items[k])
      /\ call.count \in 0 .. SizeMax
  BY CallAssumption
<1>2. maxlen \in Nat /\ maxlen <= SizeMax BY <1>1, WidthAssumption DEF maxlen
<1>3. /\ Len(call.format) \in Nat /\ Len(call.args) \in Nat
      /\ DOMAIN call.format = 1 .. Len(call.format)
  BY <1>1
<1> QED BY <1>1, <1>2, <1>3

LEMMA CharAt ==
  ASSUME call \in Calls, NEW p \in Nat
  PROVE  /\ p \in 1 .. Len(call.format) =>
              Char(p) = call.format[p] /\ Char(p) \in Characters /\ Char(p) # NUL
         /\ p = Len(call.format) + 1 => Char(p) = NUL
<1>1. call.format \in Seq(Characters \ {NUL}) /\ Len(call.format) \in Nat BY CallFacts
<1>2. ASSUME p \in 1 .. Len(call.format) PROVE call.format[p] \in Characters \ {NUL}
  BY <1>1, <1>2
<1> QED BY <1>1, <1>2 DEF Char

LEMMA NoDigit == \A c \in {"*", ".", NUL, "%"} : ~is_digit(c)
BY DEF is_digit, DigitChar, NUL

(* Where the directive k lies.                                              *)
LEMMA PlacesOf ==
  ASSUME call \in Calls, NEW k \in 1 .. Len(call.items), NEW item, item = call.items[k]
  PROVE  /\ item.at \in 1 .. Len(call.format) /\ item.widthAt \in 1 .. Len(call.format)
         /\ item.precisionAt \in 1 .. Len(call.format)
         /\ item.lengthAt \in 1 .. Len(call.format) /\ item.specAt \in 1 .. Len(call.format)
         /\ item.at < item.widthAt /\ item.widthAt <= item.precisionAt
         /\ item.precisionAt <= item.lengthAt /\ item.lengthAt <= item.specAt
         /\ call.format[item.at] = "%" /\ call.format[item.specAt] = item.spec
         /\ item.widthArg \in 1 .. Len(call.args) + 1
         /\ item.precisionArg \in 1 .. Len(call.args) + 1
         /\ item.valueArg \in 1 .. Len(call.args) + 1
         /\ item.nextArg \in 1 .. Len(call.args) + 1
<1>1. Directive(call, item) /\ DOMAIN call.format = 1 .. Len(call.format) BY CallFacts
<1>2. /\ {item.at, item.widthAt, item.precisionAt, item.lengthAt, item.specAt}
           \subseteq DOMAIN call.format
      /\ item.at < item.widthAt /\ item.widthAt <= item.precisionAt
      /\ item.precisionAt <= item.lengthAt /\ item.lengthAt <= item.specAt
      /\ call.format[item.at] = "%" /\ call.format[item.specAt] = item.spec
      /\ {item.widthArg, item.precisionArg, item.valueArg, item.nextArg} \subseteq
           1 .. Len(call.args) + 1
  BY <1>1 DEF Directive
<1> QED BY <1>1, <1>2

(* The directives lie in their order.                                       *)
LEMMA PlacesInOrder ==
  ASSUME call \in Calls, NEW j \in 1 .. Len(call.items), NEW k \in 1 .. Len(call.items), j < k
  PROVE  call.items[j].specAt < call.items[k].at
<1>1. Len(call.items) \in Nat /\ DOMAIN call.items = 1 .. Len(call.items) BY CallFacts
<1>2. \A m \in 1 .. k - 1 : call.items[m].specAt < call.items[k].at BY <1>1, CallAssumption
<1> QED BY <1>2

LEMMA ArgumentsInOrder ==
  ASSUME call \in Calls, NEW k \in 1 .. Len(call.items)
  PROVE  call.items[k].widthArg = IF k = 1 THEN 1 ELSE call.items[k-1].nextArg
<1>1. DOMAIN call.items = 1 .. Len(call.items) BY CallFacts
<1> QED BY <1>1, CallAssumption

(* A number, written in the format and read by atoi, or passed.             *)
WrittenNumber(p, q, a, b, n) ==
  /\ p < q /\ is_digit(call.format[p]) /\ call.format[p] # "*"
  /\ DigitsEnd(p) = q /\ atoi(p) = n /\ b = a /\ n \in 0 .. IntValues - 1
PassedNumber(p, q, a, b, n) ==
  /\ call.format[p] = "*" /\ ~is_digit(call.format[p])
  /\ q = p + 1 /\ b = a + 1 /\ n = call.args[a]
  /\ n \in -(IntValues \div 2) .. (IntValues \div 2) - 1

LEMMA AmountRead ==
  ASSUME call \in Calls, NEW p \in Nat \ {0}, NEW q \in 1 .. Len(call.format), p <= q + 1,
         ~is_digit(call.format[q]), NEW a, NEW b, NEW n, Amount(call, p, q, a, b, n)
  PROVE  WrittenNumber(p, q, a, b, n) \/ PassedNumber(p, q, a, b, n)
<1>1. call.format \in Seq(Characters \ {NUL}) /\ Len(call.format) \in Nat BY CallFacts
<1>2. CASE /\ b = a /\ n \in 0 .. IntValues - 1
           /\ SubSeq(call.format, p, q - 1) = Numeral(n, 10, DigitChar)
  <2>1. n \in Nat /\ q \in Nat BY <1>1, <1>2, WidthAssumption
  <2>2. Len(Numeral(n, 10, DigitChar)) >= 1 BY <2>1, DecimalDigits
  <2>3. p <= q
    <3>1. PICK fm \in Seq(Characters \ {NUL}) : fm = call.format BY <1>1
    <3>2. p > q => Len(SubSeq(fm, p, q - 1)) = 0 BY <2>1
    <3> QED BY <1>2, <2>1, <2>2, <3>1, <3>2
  <2>4. p < q /\ is_digit(call.format[p]) /\ DigitsEnd(p) = q /\ atoi(p) = n
    BY <1>1, <1>2, <2>1, <2>3, NumberRead
  <2>5. call.format[p] # "*" BY <2>4, NoDigit
  <2> QED BY <1>2, <2>4, <2>5 DEF WrittenNumber
<1>3. CASE /\ call.format[p] = "*" /\ q = p + 1 /\ b = a + 1 /\ n = call.args[a]
           /\ n \in -(IntValues \div 2) .. (IntValues \div 2) - 1
  BY <1>3, NoDigit DEF PassedNumber
<1> QED BY <1>2, <1>3 DEF Amount

(* No digits at all are the number 0.                                       *)
LEMMA NoNumberRead ==
  ASSUME call \in Calls, NEW p \in 1 .. Len(call.format), ~is_digit(call.format[p])
  PROVE  DigitsEnd(p) = p /\ atoi(p) = 0
<1>1. Len(call.format) \in Nat /\ Char(p) = call.format[p] BY CallFacts, CharAt
<1>2. DigitsEnd(p) = p
  <2> DEFINE S == {q \in p .. Len(call.format) + 1 : ~is_digit(Char(q))}
  <2>1. p \in S BY <1>1
  <2>2. \A q \in S : p <= q /\ q \in Int BY <1>1
  <2>3. \A x \in S : (\A y \in S : x <= y) => x = p
    <3> SUFFICES ASSUME NEW x \in S, \A y \in S : x <= y PROVE x = p OBVIOUS
    <3>1. x <= p /\ p <= x /\ x \in Int BY <2>1, <2>2
    <3> QED BY <3>1
  <2>4. Min(S) = CHOOSE x \in S : \A y \in S : x <= y BY DEF Min
  <2> HIDE DEF S
  <2>5. Min(S) = p BY <2>1, <2>2, <2>3, <2>4
  <2> QED BY <2>5 DEF DigitsEnd, S
<1>3. atoi(p) = 0
  <2> DEFINE next(v, k) == Unsigned(v * 10 + Value(Char(p + k - 1)), IntValues)
             Body(f) == [k \in 0 .. 0 |-> IF k = 0 THEN 0 ELSE next(f[k-1], k)]
             value == CHOOSE f : f = Body(f)
  <2>1. p - p = 0 OBVIOUS
  <2>2. atoi(p) = value[0] BY <1>2, <2>1 DEF atoi
  <2> HIDE DEF next
  <2>3. \E f : f = Body(f)
    <3>1. [k \in 0 .. 0 |-> 0] = Body([k \in 0 .. 0 |-> 0]) OBVIOUS
    <3> QED BY <3>1
  <2>4. value = Body(value) BY <2>3
  <2>5. Body(value)[0] = 0 OBVIOUS
  <2> HIDE DEF value, Body
  <2> QED BY <2>2, <2>4, <2>5
<1> QED BY <1>2, <1>3

LEMMA HalfOfInt ==
  /\ IntValues \in Nat \ {0} /\ IntValues \div 2 \in Nat \ {0}
  /\ IntValues = 2 * (IntValues \div 2)
<1>1. IntValues \in Nat \ {0} /\ IntValues % 2 = 0 BY WidthAssumption
<1> QED BY <1>1

(* How the width of the directive k is written, and what it is.             *)
LEMMA WidthRead ==
  ASSUME call \in Calls, NEW k \in 1 .. Len(call.items), NEW item, item = call.items[k],
         NEW p, p = item.widthAt, NEW q, q = item.precisionAt
  PROVE  /\ item.width \in Int /\ Field(item) \in 0 .. IntValues - 1
         /\ \/ /\ is_digit(call.format[p]) /\ call.format[p] # "*" /\ DigitsEnd(p) = q
               /\ atoi(p) = item.width /\ item.width >= 0 /\ item.precisionArg = item.widthArg
            \/ /\ call.format[p] = "*" /\ ~is_digit(call.format[p]) /\ q = p + 1
               /\ item.precisionArg = item.widthArg + 1 /\ item.widthArg \in 1 .. Len(call.args)
               /\ Signed(call.args[item.widthArg], IntValues) = item.width
            \/ /\ ~is_digit(call.format[p]) /\ call.format[p] # "*" /\ q = p
               /\ item.width = 0 /\ item.precisionArg = item.widthArg
<1>1. Directive(call, item) /\ call.args \in Seq(Int) /\ Len(call.args) \in Nat BY CallFacts
<1>2. p \in 1 .. Len(call.format) /\ q \in 1 .. Len(call.format) /\ p <= q BY PlacesOf
<1>3. /\ ~is_digit(call.format[q])
      /\ \/ Amount(call, p, q, item.widthArg, item.precisionArg, item.width)
         \/ /\ q = p /\ call.format[p] # "*"
            /\ item.width = 0 /\ item.precisionArg = item.widthArg
  BY <1>1 DEF Directive
<1>4. /\ IntValues \in Nat \ {0} /\ IntValues \div 2 \in Nat \ {0}
      /\ IntValues = 2 * (IntValues \div 2)
  BY HalfOfInt
<1>5. CASE Amount(call, p, q, item.widthArg, item.precisionArg, item.width)
  <2>1. \/ WrittenNumber(p, q, item.widthArg, item.precisionArg, item.width)
        \/ PassedNumber(p, q, item.widthArg, item.precisionArg, item.width)
    <3>1. p \in Nat \ {0} /\ p <= q + 1 BY <1>2
    <3> QED BY <1>2, <1>3, <1>5, <3>1, AmountRead
  <2>2. CASE WrittenNumber(p, q, item.widthArg, item.precisionArg, item.width)
    BY <1>4, <2>2 DEF Field, WrittenNumber
  <2>3. CASE PassedNumber(p, q, item.widthArg, item.precisionArg, item.width)
    <3> USE <2>3 DEF PassedNumber
    <3>1. item.widthArg \in 1 .. Len(call.args)
      <4>1. item.widthArg \in 1 .. Len(call.args) + 1 /\ item.precisionArg \in 1 .. Len(call.args) + 1
        BY PlacesOf
      <4> QED BY <1>1, <2>3, <4>1
    <3>2. call.args[item.widthArg] \in Int BY <1>1, <3>1
    <3>3. Signed(call.args[item.widthArg], IntValues) = item.width
      BY <2>3, <3>2, Conversions DEF Widths
    <3>4. item.width \in Int /\ Field(item) \in 0 .. IntValues - 1 BY <1>4, <2>3 DEF Field
    <3> QED BY <2>3, <3>1, <3>3, <3>4
  <2> QED BY <2>1, <2>2, <2>3
<1>6. CASE /\ q = p /\ call.format[p] # "*"
           /\ item.width = 0 /\ item.precisionArg = item.widthArg
  BY <1>3, <1>4, <1>6 DEF Field
<1> QED BY <1>3, <1>5, <1>6

(* How its precision is written, and what it is.                            *)
PrecisionForm(item) ==
  LET p == item.precisionAt  q == item.lengthAt
  IN     /\ item.precision \in Int /\ PrecisionOf(item) \in 0 .. IntValues - 1
         /\ \/ /\ call.format[p] = "." /\ p + 1 \in 1 .. Len(call.format)
               /\ call.format[p+1] # "*" /\ DigitsEnd(p + 1) = q
               /\ atoi(p + 1) = item.precision /\ item.precision >= 0
               /\ item.precision # NoPrecision /\ item.valueArg = item.precisionArg
            \/ /\ call.format[p] = "." /\ p + 1 \in 1 .. Len(call.format)
               /\ call.format[p+1] = "*" /\ q = p + 2 /\ item.precision # NoPrecision
               /\ item.valueArg = item.precisionArg + 1
               /\ item.precisionArg \in 1 .. Len(call.args)
               /\ Signed(call.args[item.precisionArg], IntValues) = item.precision
            \/ /\ call.format[p] # "." /\ q = p
               /\ item.precision = NoPrecision /\ item.valueArg = item.precisionArg

LEMMA PrecisionRead ==
  ASSUME call \in Calls, NEW k \in 1 .. Len(call.items)
  PROVE  PrecisionForm(call.items[k])
<1> PICK item, p, q : item = call.items[k] /\ p = item.precisionAt /\ q = item.lengthAt
  OBVIOUS
<1> SUFFICES
         /\ item.precision \in Int /\ PrecisionOf(item) \in 0 .. IntValues - 1
         /\ \/ /\ call.format[p] = "." /\ p + 1 \in 1 .. Len(call.format)
               /\ call.format[p+1] # "*" /\ DigitsEnd(p + 1) = q
               /\ atoi(p + 1) = item.precision /\ item.precision >= 0
               /\ item.precision # NoPrecision /\ item.valueArg = item.precisionArg
            \/ /\ call.format[p] = "." /\ p + 1 \in 1 .. Len(call.format)
               /\ call.format[p+1] = "*" /\ q = p + 2 /\ item.precision # NoPrecision
               /\ item.valueArg = item.precisionArg + 1
               /\ item.precisionArg \in 1 .. Len(call.args)
               /\ Signed(call.args[item.precisionArg], IntValues) = item.precision
            \/ /\ call.format[p] # "." /\ q = p
               /\ item.precision = NoPrecision /\ item.valueArg = item.precisionArg
  BY DEF PrecisionForm
<1>1. Directive(call, item) /\ call.args \in Seq(Int) /\ Len(call.args) \in Nat BY CallFacts
<1>2. p \in 1 .. Len(call.format) /\ q \in 1 .. Len(call.format) /\ p <= q BY PlacesOf
<1>3. /\ ~is_digit(call.format[q])
      /\ \/ /\ call.format[p] = "."
            /\ Amount(call, p + 1, q, item.precisionArg, item.valueArg, item.precision)
         \/ /\ call.format[p] = "."
            /\ q = p + 1 /\ call.format[q] # "*"
            /\ item.precision = 0 /\ item.valueArg = item.precisionArg
         \/ /\ call.format[p] # "." /\ q = p
            /\ item.precision = NoPrecision /\ item.valueArg = item.precisionArg
  BY <1>1 DEF Directive
<1>4. /\ IntValues \in Nat \ {0} /\ IntValues \div 2 \in Nat \ {0}
      /\ IntValues = 2 * (IntValues \div 2)
      /\ NoPrecision = -IntValues
  BY HalfOfInt DEF NoPrecision
<1>5. CASE /\ call.format[p] = "."
           /\ Amount(call, p + 1, q, item.precisionArg, item.valueArg, item.precision)
  <2> PICK p1 \in Nat \ {0} : p1 = p + 1 BY <1>2
  <2>1. \/ WrittenNumber(p1, q, item.precisionArg, item.valueArg, item.precision)
        \/ PassedNumber(p1, q, item.precisionArg, item.valueArg, item.precision)
    <3>1. p1 <= q + 1 BY <1>2
    <3> QED BY <1>2, <1>3, <1>5, <3>1, AmountRead
  <2>2. CASE WrittenNumber(p1, q, item.precisionArg, item.valueArg, item.precision)
    <3> USE <2>2 DEF WrittenNumber
    <3>1. item.precision \in Int /\ item.precision >= 0 /\ item.precision # NoPrecision
      BY <1>4, <2>2
    <3>2. PrecisionOf(item) \in 0 .. IntValues - 1 BY <2>2, <3>1 DEF PrecisionOf
    <3>3. p1 \in 1 .. Len(call.format) BY <1>2, <2>2
    <3> QED BY <1>5, <2>2, <3>1, <3>2, <3>3
  <2>3. CASE PassedNumber(p1, q, item.precisionArg, item.valueArg, item.precision)
    <3> USE <2>3 DEF PassedNumber
    <3>1. item.precisionArg \in 1 .. Len(call.args)
      <4>1. item.valueArg \in 1 .. Len(call.args) + 1 /\ item.precisionArg \in 1 .. Len(call.args) + 1
        BY PlacesOf
      <4> QED BY <1>1, <2>3, <4>1
    <3>2. call.args[item.precisionArg] \in Int BY <1>1, <3>1
    <3>3. Signed(call.args[item.precisionArg], IntValues) = item.precision
      BY <2>3, <3>2, Conversions DEF Widths
    <3>4. item.precision \in Int /\ item.precision # NoPrecision BY <1>4, <2>3
    <3>5. PrecisionOf(item) \in 0 .. IntValues - 1 BY <1>4, <2>3 DEF PrecisionOf
    <3>6. p1 \in 1 .. Len(call.format) /\ q = p + 2 BY <1>2, <2>3
    <3> QED BY <1>5, <2>3, <3>1, <3>3, <3>4, <3>5, <3>6
  <2> QED BY <2>1, <2>2, <2>3
<1>6. CASE /\ call.format[p] = "."
           /\ q = p + 1 /\ call.format[q] # "*"
           /\ item.precision = 0 /\ item.valueArg = item.precisionArg
  <2>1. DigitsEnd(q) = q /\ atoi(q) = 0 BY <1>2, <1>3, NoNumberRead
  <2>2. PrecisionOf(item) \in 0 .. IntValues - 1 BY <1>4, <1>6 DEF PrecisionOf
  <2>3. item.precision # NoPrecision /\ item.precision \in Int /\ item.precision >= 0
    BY <1>4, <1>6
  <2> QED BY <1>2, <1>6, <2>1, <2>2, <2>3
<1>7. CASE /\ call.format[p] # "." /\ q = p
           /\ item.precision = NoPrecision /\ item.valueArg = item.precisionArg
  BY <1>4, <1>7 DEF PrecisionOf
<1> QED BY <1>3, <1>5, <1>6, <1>7

LEMMA PartOf ==
  ASSUME NEW S, NEW s \in Seq(S), NEW p \in Nat \ {0}, NEW m \in Nat, p + m - 1 <= Len(s)
  PROVE  /\ Len(SubSeq(s, p, p + m - 1)) = m
         /\ \A j \in 1 .. m : SubSeq(s, p, p + m - 1)[j] = s[p + j - 1]
OBVIOUS

(* Its length, and where the specifier follows.                             *)
LengthForm(item) ==
  LET a == Char(item.lengthAt)  b == Char(item.lengthAt + 1)
  IN     /\ LengthFlags(a, b) = FlagsOfLength(item.length)
         /\ item.specAt = item.lengthAt + (IF a \in {"l", "h"} /\ b = a THEN 2
                                           ELSE IF a \in {"l", "h", "t", "j", "z"} THEN 1 ELSE 0)
         /\ item.length \in {"", "hh", "h", "l", "ll", "z", "t", "j"}

LEMMA LengthRead ==
  ASSUME call \in Calls, NEW k \in 1 .. Len(call.items)
  PROVE  LengthForm(call.items[k])
<1> PICK item, a, b : /\ item = call.items[k] /\ a = Char(item.lengthAt)
                      /\ b = Char(item.lengthAt + 1)
  OBVIOUS
<1> SUFFICES
         /\ LengthFlags(a, b) = FlagsOfLength(item.length)
         /\ item.specAt = item.lengthAt + (IF a \in {"l", "h"} /\ b = a THEN 2
                                           ELSE IF a \in {"l", "h", "t", "j", "z"} THEN 1 ELSE 0)
         /\ item.length \in {"", "hh", "h", "l", "ll", "z", "t", "j"}
  BY DEF LengthForm
<1>1. /\ item.length \in {"", "hh", "h", "l", "ll", "z", "t", "j"}
      /\ SubSeq(call.format, item.lengthAt, item.specAt - 1) = LengthChars(item.length)
      /\ call.format[item.specAt] = item.spec /\ item.spec \notin {"l", "h", "t", "j", "z"}
  <2>1. Directive(call, item) BY CallFacts
  <2> QED BY <2>1 DEF Directive
<1>2. PICK p \in Nat, q \in Nat :
        /\ p = item.lengthAt /\ q = item.specAt /\ p \in Nat /\ q \in Nat
        /\ 1 <= p /\ p <= q /\ q <= Len(call.format) /\ q \in 1 .. Len(call.format)
  <2>1. /\ item.lengthAt \in 1 .. Len(call.format) /\ item.specAt \in 1 .. Len(call.format)
        /\ item.lengthAt <= item.specAt
    BY PlacesOf
  <2>2. Len(call.format) \in Nat BY CallFacts
  <2> QED BY <2>1, <2>2
<1>3. PICK sub : sub = LengthChars(item.length) OBVIOUS
<1>4. Len(sub) = q - p /\ \A j \in 1 .. q - p : sub[j] = call.format[p + j - 1]
  <2>1. PICK fm \in Seq(Characters \ {NUL}) : fm = call.format BY CallFacts
  <2>2. /\ Len(SubSeq(fm, p, q - 1)) = q - p
        /\ \A j \in 1 .. q - p : SubSeq(fm, p, q - 1)[j] = fm[p + j - 1]
    <3>1. PICK m \in Nat : m = q - p BY <1>2
    <3>2. p \in Nat \ {0} /\ p + m - 1 = q - 1 /\ p + m - 1 <= Len(fm)
      <4>1. p \in Nat /\ q \in Nat /\ 1 <= p BY <1>2
      <4>2. q <= Len(fm) /\ Len(fm) \in Nat BY <1>2, <2>1
      <4> QED BY <3>1, <4>1, <4>2
    <3>3. /\ Len(SubSeq(fm, p, p + m - 1)) = m
          /\ \A j \in 1 .. m : SubSeq(fm, p, p + m - 1)[j] = fm[p + j - 1]
      BY <3>2, PartOf
    <3> QED BY <3>1, <3>2, <3>3
  <2>3. sub = SubSeq(fm, p, q - 1) BY <1>1, <1>2, <1>3, <2>1
  <2> QED BY <2>1, <2>2, <2>3
<1>5. \A r \in p .. q : Char(r) = call.format[r]
  <2>1. \A r \in p .. q : r \in Nat /\ r \in 1 .. Len(call.format) BY <1>2, CallFacts
  <2> QED BY <2>1, CharAt
<1>6. a = call.format[p] BY <1>2, <1>5
<1>7. CASE item.length = ""
  <2>1. sub = <<>> /\ Len(sub) = 0 BY <1>3, <1>7 DEF LengthChars
  <2>2. q = p BY <1>2, <1>4, <2>1
  <2>3. a \notin {"l", "h", "t", "j", "z"} BY <1>1, <1>2, <1>6, <2>2
  <2>4. LengthFlags(a, b) = {} /\ FlagsOfLength(item.length) = {}
    BY <1>7, <2>3 DEF LengthFlags, FlagsOfLength
  <2>5. item.specAt = item.lengthAt + 0 BY <1>2, <2>2
  <2> QED BY <1>1, <2>3, <2>4, <2>5
<1>8. CASE item.length \in {"hh", "ll"}
  <2>1. PICK c \in {"h", "l"} : sub = <<c, c>> /\ Len(sub) = 2 /\ sub[1] = c /\ sub[2] = c
                                /\ item.length = (IF c = "h" THEN "hh" ELSE "ll")
    BY <1>3, <1>8 DEF LengthChars
  <2>2. q = p + 2 /\ 1 \in 1 .. q - p /\ 2 \in 1 .. q - p BY <1>2, <1>4, <2>1
  <2>3. a = c
    <3>1. sub[1] = call.format[p + 1 - 1] /\ p + 1 - 1 = p BY <1>4, <2>2
    <3> QED BY <1>6, <2>1, <3>1
  <2>4. b = c
    <3>1. sub[2] = call.format[p + 2 - 1] /\ p + 2 - 1 = p + 1 BY <1>4, <2>2
    <3>2. p + 1 \in p .. q
      <4>1. p \in Int /\ q = p + 2 BY <1>2, <2>2
      <4> QED BY <4>1
    <3> QED BY <1>2, <1>5, <2>1, <3>1, <3>2
  <2>5. LengthFlags(a, b) = FlagsOfLength(item.length)
    BY <2>1, <2>3, <2>4 DEF LengthFlags, FlagsOfLength
  <2>6. item.specAt = item.lengthAt + 2 BY <1>2, <2>2
  <2> QED BY <1>1, <2>1, <2>3, <2>4, <2>5, <2>6
<1>9. CASE item.length \in {"h", "l", "z", "t", "j"}
  <2>1. PICK c \in {"h", "l", "z", "t", "j"} : sub = <<c>> /\ Len(sub) = 1 /\ sub[1] = c
                                              /\ item.length = c
    BY <1>3, <1>9 DEF LengthChars
  <2>2. q = p + 1 /\ 1 \in 1 .. q - p BY <1>2, <1>4, <2>1
  <2>3. a = c
    <3>1. sub[1] = call.format[p + 1 - 1] /\ p + 1 - 1 = p BY <1>4, <2>2
    <3> QED BY <1>6, <2>1, <3>1
  <2>4. b = item.spec
    <3>1. p + 1 \in p .. p + 1 BY <1>2
    <3> QED BY <1>1, <1>2, <1>5, <2>2, <3>1
  <2>5. LengthFlags(a, b) = FlagsOfLength(item.length)
    BY <1>1, <2>1, <2>3, <2>4 DEF LengthFlags, FlagsOfLength
  <2>6. item.specAt = item.lengthAt + 1 /\ b # a BY <1>1, <1>2, <2>1, <2>2, <2>3, <2>4
  <2> QED BY <1>1, <2>1, <2>3, <2>5, <2>6
<1> QED BY <1>1, <1>7, <1>8, <1>9

LEMMA FlagsOfLengthAre ==
  ASSUME NEW l \in {"", "hh", "h", "l", "ll", "z", "t", "j"}, NEW fl, fl = FlagsOfLength(l)
  PROVE  /\ fl \subseteq {"CHAR", "SHORT", "LONG", "LONG_LONG"}
         /\ "CHAR" \in fl <=> l = "hh"
         /\ "SHORT" \in fl <=> l \in {"h", "hh"}
         /\ "LONG_LONG" \in fl <=> l \in {"ll", "j"}
         /\ "LONG" \in fl <=> l \in {"l", "z", "t", "ll"}
<1>1. CASE l = ""
  <2>1. fl = {} BY <1>1 DEF FlagsOfLength
  <2> QED BY <1>1, <2>1
<1>2. CASE l = "hh"
  <2>1. fl = {"SHORT", "CHAR"} BY <1>2 DEF FlagsOfLength
  <2> QED BY <1>2, <2>1
<1>3. CASE l = "h"
  <2>1. fl = {"SHORT"} BY <1>3 DEF FlagsOfLength
  <2> QED BY <1>3, <2>1
<1>4. CASE l = "l"
  <2>1. fl = {"LONG"} BY <1>4 DEF FlagsOfLength
  <2> QED BY <1>4, <2>1
<1>5. CASE l = "ll"
  <2>1. fl = {"LONG", "LONG_LONG"} BY <1>5 DEF FlagsOfLength
  <2> QED BY <1>5, <2>1
<1>6. CASE l = "z"
  <2>1. fl = {"LONG"} BY <1>6 DEF FlagsOfLength
  <2> QED BY <1>6, <2>1
<1>7. CASE l = "t"
  <2>1. fl = {"LONG"} BY <1>7 DEF FlagsOfLength
  <2> QED BY <1>7, <2>1
<1>8. CASE l = "j"
  <2>1. fl = {"LONG_LONG"} BY <1>8 DEF FlagsOfLength
  <2> QED BY <1>8, <2>1
<1> QED BY <1>1, <1>2, <1>3, <1>4, <1>5, <1>6, <1>7, <1>8

(* The flags in front of the specifier, one by one.                         *)
LEMMA DirectiveFlagsAre ==
  ASSUME call \in Calls, NEW k \in 1 .. Len(call.items), NEW item, item = call.items[k],
         NEW fl, fl = DirectiveFlags(item)
  PROVE  /\ fl \subseteq AllFlags /\ SideFlags(item) \subseteq AllFlags
         /\ PrecisionFlags(item) \subseteq AllFlags /\ item.flags \subseteq DOMAIN FlagOf
         /\ "LEFT" \in fl <=> Left(item)
         /\ "ZEROPAD" \in fl <=> "0" \in item.flags
         /\ "PLUS" \in fl <=> "+" \in item.flags
         /\ "SPACE" \in fl <=> " " \in item.flags
         /\ "HASH" \in fl <=> "#" \in item.flags
         /\ "UPPERCASE" \notin fl
         /\ "PRECISION" \in fl <=> item.precision # NoPrecision
         /\ "CHAR" \in fl <=> item.length = "hh"
         /\ "SHORT" \in fl <=> item.length \in {"h", "hh"}
         /\ "LONG_LONG" \in fl <=> item.length \in {"ll", "j"}
         /\ "LONG" \in fl <=> item.length \in {"l", "z", "t", "ll"}
<1>1. /\ item.flags \subseteq DOMAIN FlagOf
      /\ item.length \in {"", "hh", "h", "l", "ll", "z", "t", "j"}
  <2>1. Directive(call, item) BY CallFacts
  <2> QED BY <2>1 DEF Directive
<1>2. /\ FlagOf["0"] = "ZEROPAD" /\ FlagOf["-"] = "LEFT" /\ FlagOf["+"] = "PLUS"
      /\ FlagOf[" "] = "SPACE" /\ FlagOf["#"] = "HASH"
      /\ DOMAIN FlagOf = {"0", "-", "+", " ", "#"}
  BY DEF FlagOf
<1>3. PICK w \in SUBSET {"ZEROPAD", "LEFT", "PLUS", "SPACE", "HASH"} :
        /\ w = WrittenFlags(item)
        /\ "ZEROPAD" \in w <=> "0" \in item.flags
        /\ "LEFT" \in w <=> "-" \in item.flags
        /\ "PLUS" \in w <=> "+" \in item.flags
        /\ "SPACE" \in w <=> " " \in item.flags
        /\ "HASH" \in w <=> "#" \in item.flags
  <2>1. item.flags \subseteq {"0", "-", "+", " ", "#"} BY <1>1, <1>2
  <2>2. \A c, d \in {"0", "-", "+", " ", "#"} : FlagOf[c] = FlagOf[d] => c = d BY <1>2
  <2>3. \A c \in {"0", "-", "+", " ", "#"} : FlagOf[c] \in WrittenFlags(item) <=> c \in item.flags
    BY <2>1, <2>2 DEF WrittenFlags
  <2>4. WrittenFlags(item) \subseteq {"ZEROPAD", "LEFT", "PLUS", "SPACE", "HASH"}
    <3>1. \A c \in {"0", "-", "+", " ", "#"} :
            FlagOf[c] \in {"ZEROPAD", "LEFT", "PLUS", "SPACE", "HASH"}
      BY <1>2
    <3>2. ASSUME NEW x \in WrittenFlags(item)
          PROVE  x \in {"ZEROPAD", "LEFT", "PLUS", "SPACE", "HASH"}
      <4>1. PICK c \in item.flags : x = FlagOf[c] BY DEF WrittenFlags
      <4> QED BY <2>1, <3>1, <4>1
    <3> QED BY <3>2
  <2>5. /\ "ZEROPAD" \in WrittenFlags(item) <=> "0" \in item.flags
        /\ "LEFT" \in WrittenFlags(item) <=> "-" \in item.flags
        /\ "PLUS" \in WrittenFlags(item) <=> "+" \in item.flags
        /\ "SPACE" \in WrittenFlags(item) <=> " " \in item.flags
        /\ "HASH" \in WrittenFlags(item) <=> "#" \in item.flags
    <3>1. /\ FlagOf["0"] \in WrittenFlags(item) <=> "0" \in item.flags
          /\ FlagOf["-"] \in WrittenFlags(item) <=> "-" \in item.flags
          /\ FlagOf["+"] \in WrittenFlags(item) <=> "+" \in item.flags
          /\ FlagOf[" "] \in WrittenFlags(item) <=> " " \in item.flags
          /\ FlagOf["#"] \in WrittenFlags(item) <=> "#" \in item.flags
      BY <2>3
    <3> QED BY <1>2, <3>1
  <2> QED BY <2>4, <2>5
<1>4. PICK l : /\ l = FlagsOfLength(item.length)
               /\ l \subseteq {"CHAR", "SHORT", "LONG", "LONG_LONG"}
               /\ "CHAR" \in l <=> item.length = "hh"
               /\ "SHORT" \in l <=> item.length \in {"h", "hh"}
               /\ "LONG_LONG" \in l <=> item.length \in {"ll", "j"}
               /\ "LONG" \in l <=> item.length \in {"l", "z", "t", "ll"}
  BY <1>1, FlagsOfLengthAre
<1>5. PICK s : s = SideFlags(item)
               /\ s = w \cup (IF item.width < 0 THEN {"LEFT"} ELSE {})
  BY <1>3 DEF SideFlags
<1>6. PICK p : p = PrecisionFlags(item)
               /\ p = s \cup (IF item.precision # NoPrecision THEN {"PRECISION"} ELSE {})
  BY <1>5 DEF PrecisionFlags
<1>7. fl = p \cup l BY <1>4, <1>6 DEF DirectiveFlags
<1>8. "LEFT" \in s <=> Left(item) BY <1>3, <1>5 DEF Left
<1>9. "PRECISION" \in p <=> item.precision # NoPrecision BY <1>3, <1>5, <1>6
<1>10. /\ w \subseteq AllFlags /\ s \subseteq AllFlags /\ p \subseteq AllFlags /\ fl \subseteq AllFlags
  <2>1. w \subseteq AllFlags BY <1>3 DEF AllFlags
  <2>2. s \subseteq AllFlags BY <1>5, <2>1 DEF AllFlags
  <2>3. p \subseteq AllFlags BY <1>6, <2>2 DEF AllFlags
  <2>4. l \subseteq AllFlags BY <1>4 DEF AllFlags
  <2> QED BY <1>7, <2>1, <2>2, <2>3, <2>4
<1>11. \A f \in {"ZEROPAD", "PLUS", "SPACE", "HASH"} : f \in fl <=> f \in w
  BY <1>4, <1>5, <1>6, <1>7
<1>12. /\ "LEFT" \in fl <=> "LEFT" \in s
       /\ "PRECISION" \in fl <=> "PRECISION" \in p
  BY <1>4, <1>6, <1>7
<1>13. "UPPERCASE" \notin fl BY <1>3, <1>4, <1>5, <1>6, <1>7
<1>14. \A f \in {"CHAR", "SHORT", "LONG", "LONG_LONG"} : f \in fl <=> f \in l
  BY <1>3, <1>5, <1>6, <1>7
<1>15. /\ "ZEROPAD" \in fl <=> "0" \in item.flags
       /\ "PLUS" \in fl <=> "+" \in item.flags
       /\ "SPACE" \in fl <=> " " \in item.flags
       /\ "HASH" \in fl <=> "#" \in item.flags
  BY <1>3, <1>11
<1>16. /\ "CHAR" \in fl <=> item.length = "hh"
       /\ "SHORT" \in fl <=> item.length \in {"h", "hh"}
       /\ "LONG_LONG" \in fl <=> item.length \in {"ll", "j"}
       /\ "LONG" \in fl <=> item.length \in {"l", "z", "t", "ll"}
  BY <1>4, <1>14
<1> QED BY <1>1, <1>5, <1>6, <1>8, <1>9, <1>10, <1>12, <1>13, <1>15, <1>16
-----------------------------------------------------------------------------
(* The walk, one step after the other.                                      *)
LEMMA CurrentIs ==
  ASSUME WalkInv, Printed < Len(call.items)
  PROVE  call \in Calls /\ Printed + 1 \in 1 .. Len(call.items)
         /\ Current = call.items[Printed + 1] /\ Printed \in Nat
<1>1. call \in Calls /\ Printed \in 0 .. Len(call.items) BY DEF WalkInv
<1>2. Len(call.items) \in Nat BY <1>1, CallFacts
<1> QED BY <1>1, <1>2 DEF Current

LEMMA WalkStarts ==
  ASSUME Init PROVE WalkInv
<1>1. call \in Calls BY DEF Init
<1>2. Len(call.items) \in Nat /\ Len(call.format) \in Nat BY <1>1, CallFacts
<1>3. Printed = 0 /\ Printed \in 0 .. Len(call.items) BY <1>2 DEF Init, Printed
<1>4. 0 \in 0 .. IntValues - 1 BY HalfOfInt
<1>5. ASSUME 0 < Len(call.items) PROVE format <= Current.at
  <2>1. 1 \in 1 .. Len(call.items) /\ Current = call.items[1] BY <1>2, <1>3, <1>5 DEF Current
  <2>2. Current.at \in 1 .. Len(call.format) BY <1>1, <2>1, PlacesOf
  <2> QED BY <2>2 DEF Init
<1>6. BetweenDirectives BY <1>2, <1>3, <1>5 DEF BetweenDirectives, Init
<1> QED BY <1>1, <1>3, <1>4, <1>6 DEF WalkInv, Init, Phases

LEMMA SpanOf ==
  ASSUME call \in Calls, NEW k \in 1 .. Len(call.items)
  PROVE  /\ call.items[k].at \in Int /\ call.items[k].specAt \in Int
         /\ call.items[k].at < call.items[k].specAt
<1>1. Len(call.format) \in Nat BY CallFacts
<1>2. PICK item : item = call.items[k] OBVIOUS
<1>3. /\ item.at \in 1 .. Len(call.format) /\ item.widthAt \in 1 .. Len(call.format)
      /\ item.precisionAt \in 1 .. Len(call.format)
      /\ item.lengthAt \in 1 .. Len(call.format) /\ item.specAt \in 1 .. Len(call.format)
      /\ item.at < item.widthAt /\ item.widthAt <= item.precisionAt
      /\ item.precisionAt <= item.lengthAt /\ item.lengthAt <= item.specAt
  BY <1>2, PlacesOf
<1>4. item.at \in Int /\ item.specAt \in Int /\ item.at < item.specAt BY <1>1, <1>3
<1> QED BY <1>2, <1>4

(* A percent sign between two directives is the next one's.                 *)
LEMMA PercentIsNext ==
  ASSUME WalkInv, pc = "text", Char(format) = "%"
  PROVE  Printed < Len(call.items) /\ format = Current.at
<1>1. /\ call \in Calls /\ Printed \in 0 .. Len(call.items) /\ BetweenDirectives
  BY DEF WalkInv
<1>2. Len(call.items) \in Nat /\ DOMAIN call.items = 1 .. Len(call.items)
      /\ DOMAIN call.format = 1 .. Len(call.format) /\ Len(call.format) \in Nat
  BY <1>1, CallFacts
<1>3. format \in 1 .. Len(call.format) /\ call.format[format] = "%"
  <2>1. format \in 1 .. Len(call.format) + 1 BY <1>1 DEF BetweenDirectives
  <2>2. "%" # NUL BY DEF NUL
  <2>3. format # Len(call.format) + 1 BY <1>1, <2>1, <2>2, CharAt
  <2>4. format \in 1 .. Len(call.format) /\ format \in Nat BY <1>2, <2>1, <2>3
  <2> QED BY <1>1, <2>4, CharAt
<1>4. PICK k \in 1 .. Len(call.items) :
        format \in call.items[k].at .. call.items[k].specAt
  BY <1>1, <1>2, <1>3, CallAssumption
<1>5. /\ call.items[k].at \in Int /\ call.items[k].specAt \in Int
      /\ call.items[k].at <= format /\ format <= call.items[k].specAt
  BY <1>1, <1>2, <1>4, PlacesOf
<1>6. k > Printed
  <2> SUFFICES ASSUME k <= Printed PROVE FALSE BY <1>1, <1>2
  <2>1. Printed \in 1 .. Len(call.items) BY <1>1, <1>2
  <2>2. call.items[Printed].specAt < format BY <1>1, <2>1 DEF BetweenDirectives
  <2>3. CASE k = Printed BY <1>5, <2>2, <2>3, <1>3
  <2>4. CASE k < Printed
    <3>1. call.items[k].specAt < call.items[Printed].at BY <1>1, <2>1, <2>4, PlacesInOrder
    <3>2. /\ call.items[Printed].at \in Int /\ call.items[Printed].specAt \in Int
          /\ call.items[Printed].at < call.items[Printed].specAt
      BY <1>1, <2>1, SpanOf
    <3>3. format \in Int BY <1>2, <1>3
    <3> QED BY <1>5, <2>2, <3>1, <3>2, <3>3
  <2>5. k = Printed \/ k < Printed BY <1>2, <1>4, <2>1
  <2> QED BY <2>3, <2>4, <2>5
<1>7. /\ Printed < Len(call.items) /\ Printed + 1 \in 1 .. Len(call.items)
      /\ Current = call.items[Printed + 1] /\ format <= Current.at
  BY <1>1, <1>2, <1>6 DEF Current, BetweenDirectives
<1>8. CASE k = Printed + 1 BY <1>3, <1>5, <1>7, <1>8
<1>9. CASE k # Printed + 1
  <2>1. Printed + 1 < k BY <1>1, <1>6, <1>9
  <2>2. Current.specAt < call.items[k].at BY <1>1, <1>7, <2>1, PlacesInOrder
  <2>3. Current.at \in Int /\ Current.specAt \in Int /\ Current.at < Current.specAt
    BY <1>1, <1>7, SpanOf
  <2>4. format \in Int BY <1>2, <1>3
  <2> QED BY <1>5, <1>7, <2>2, <2>3, <2>4
<1> QED BY <1>7, <1>8, <1>9

LEMMA WalkLiteral ==
  ASSUME WalkInv, Literal PROVE WalkInv'
<1>1. /\ pc = "text" /\ Char(format) \notin {"%", NUL} /\ format' = format + 1
      /\ UNCHANGED <<call, pc, va, flags, width, precision, fields>>
  BY DEF Literal, locals
<1>2. Current' = Current /\ Printed' = Printed /\ Len(call.items)' = Len(call.items)
  BY <1>1 DEF Current, Printed
<1>3. call \in Calls /\ BetweenDirectives BY <1>1 DEF WalkInv
<1>4. format \in 1 .. Len(call.format) + 1 /\ Len(call.format) \in Nat
  BY <1>3, CallFacts DEF BetweenDirectives
<1>5. format \in 1 .. Len(call.format) BY <1>1, <1>3, <1>4, CharAt
<1>6. ASSUME Printed < Len(call.items) PROVE format + 1 <= Current.at
  <2>1. Current.at \in 1 .. Len(call.format) /\ call.format[Current.at] = "%"
    BY <1>6, CurrentIs, PlacesOf
  <2>2. format <= Current.at BY <1>3, <1>6 DEF BetweenDirectives
  <2>3. Char(Current.at) = "%" BY <1>3, <1>4, <2>1, CharAt
  <2>4. format # Current.at BY <1>1, <2>3
  <2> QED BY <1>4, <2>1, <2>2, <2>4
<1>7. ASSUME Printed # 0 PROVE call.items[Printed].specAt < format + 1
  <2>1. Printed \in 1 .. Len(call.items) BY <1>3, <1>7, CallFacts DEF WalkInv
  <2>2. call.items[Printed].specAt \in 1 .. Len(call.format) BY <1>3, <2>1, PlacesOf
  <2>3. call.items[Printed].specAt < format BY <1>3, <1>7 DEF BetweenDirectives
  <2> QED BY <1>4, <2>2, <2>3
<1>8. BetweenDirectives'
  <2>1. format + 1 \in 1 .. Len(call.format) + 1 BY <1>4, <1>5
  <2> QED BY <1>1, <1>2, <1>3, <1>6, <1>7, <2>1 DEF BetweenDirectives
<1> QED BY <1>1, <1>2, <1>8 DEF WalkInv

LEMMA WalkPercent ==
  ASSUME WalkInv, Percent PROVE WalkInv'
<1>1. /\ pc = "text" /\ Char(format) = "%" /\ pc' = "flags" /\ format' = format + 1
      /\ flags' = {} /\ UNCHANGED <<call, va, width, precision, fields>>
  BY DEF Percent
<1>2. Current' = Current /\ Printed' = Printed /\ Len(call.items)' = Len(call.items)
  BY <1>1 DEF Current, Printed
<1>3. Printed < Len(call.items) /\ format = Current.at BY <1>1, PercentIsNext
<1>4. /\ call \in Calls /\ Printed + 1 \in 1 .. Len(call.items) /\ Printed \in Nat
      /\ Current = call.items[Printed + 1]
  BY <1>3, CurrentIs
<1>5. va = Current.widthArg
  <2>1. Current.widthArg = IF Printed + 1 = 1 THEN 1 ELSE call.items[Printed].nextArg
    <3>1. Current.widthArg = IF Printed + 1 = 1 THEN 1 ELSE call.items[(Printed + 1) - 1].nextArg
      BY <1>4, ArgumentsInOrder
    <3>2. (Printed + 1) - 1 = Printed BY <1>4
    <3> QED BY <3>1, <3>2
  <2>2. va = IF Printed = 0 THEN 1 ELSE call.items[Printed].nextArg
    BY <1>1 DEF WalkInv, BetweenDirectives
  <2>3. Printed + 1 = 1 <=> Printed = 0 BY <1>4
  <2> QED BY <2>1, <2>2, <2>3
<1>6. /\ Current.at \in 1 .. Len(call.format) /\ Current.widthAt \in 1 .. Len(call.format)
      /\ Current.at < Current.widthAt
  BY <1>4, PlacesOf
<1>7. ReadingFlags'
  <2>1. format + 1 \in Current.at + 1 .. Current.widthAt BY <1>3, <1>6
  <2>2. Current'.at + 1 .. format' - 1 = {} BY <1>1, <1>2, <1>3, <1>6
  <2>3. {FlagOf[call'.format[k]] : k \in Current'.at + 1 .. format' - 1} = {} BY <2>2
  <2> QED BY <1>1, <1>2, <1>5, <2>1, <2>3 DEF ReadingFlags
<1> QED BY <1>1, <1>2, <1>3, <1>7 DEF WalkInv, Phases

(* The flags: a flag character is one of the directive's, any other         *)
(* character stands where its width does.                                   *)
LEMMA FlagPlace ==
  ASSUME WalkInv, pc = "flags"
  PROVE  /\ Printed < Len(call.items) /\ ReadingFlags /\ format \in Nat
         /\ Char(format) = call.format[format] /\ format \in 1 .. Len(call.format)
         /\ Char(format) \in DOMAIN FlagOf => format < Current.widthAt
         /\ Char(format) \notin DOMAIN FlagOf =>
              format = Current.widthAt /\ flags = WrittenFlags(Current)
<1>1. Printed < Len(call.items) /\ ReadingFlags BY DEF WalkInv
<1>2. call \in Calls /\ Printed + 1 \in 1 .. Len(call.items) /\ Current = call.items[Printed + 1]
  BY <1>1, CurrentIs
<1>3. Len(call.format) \in Nat BY <1>2, CallFacts
<1>4. /\ Current.at \in Nat /\ Current.widthAt \in 1 .. Len(call.format)
      /\ Current.at \in 1 .. Len(call.format)
  BY <1>2, <1>3, PlacesOf
<1>5. format \in Current.at + 1 .. Current.widthAt BY <1>1 DEF ReadingFlags
<1>6. format \in Nat /\ format \in 1 .. Len(call.format) BY <1>3, <1>4, <1>5
<1>7. Char(format) = call.format[format] BY <1>2, <1>6, CharAt
<1>8. /\ Current.flags = {call.format[p] : p \in Current.at + 1 .. Current.widthAt - 1}
      /\ Current.flags \subseteq DOMAIN FlagOf
      /\ call.format[Current.widthAt] \notin DOMAIN FlagOf
  <2>1. Directive(call, Current) BY <1>2, CallFacts
  <2> QED BY <2>1 DEF Directive
<1>9. ASSUME Char(format) \in DOMAIN FlagOf PROVE format < Current.widthAt
  <2>1. format # Current.widthAt BY <1>7, <1>8, <1>9
  <2> QED BY <1>4, <1>5, <1>6, <2>1
<1>10. ASSUME Char(format) \notin DOMAIN FlagOf
       PROVE  format = Current.widthAt /\ flags = WrittenFlags(Current)
  <2>1. format = Current.widthAt
    <3> SUFFICES ASSUME format # Current.widthAt PROVE FALSE OBVIOUS
    <3>1. format \in Current.at + 1 .. Current.widthAt - 1 BY <1>4, <1>5, <1>6
    <3>2. call.format[format] \in Current.flags BY <1>8, <3>1
    <3> QED BY <1>7, <1>8, <1>10, <3>2
  <2>2. flags = {FlagOf[call.format[k]] : k \in Current.at + 1 .. Current.widthAt - 1}
    BY <1>1, <2>1 DEF ReadingFlags
  <2>3. flags = {FlagOf[c] : c \in Current.flags} BY <1>8, <2>2
  <2> QED BY <2>1, <2>3 DEF WrittenFlags
<1> QED BY <1>1, <1>6, <1>7, <1>9, <1>10

LEMMA WalkFlag ==
  ASSUME WalkInv, Flag PROVE WalkInv'
<1>1. /\ pc = "flags" /\ Char(format) \in DOMAIN FlagOf
      /\ flags' = flags \cup {FlagOf[Char(format)]} /\ format' = format + 1
      /\ UNCHANGED <<call, pc, va, width, precision, fields>>
  BY DEF Flag
<1>2. Current' = Current /\ Printed' = Printed /\ Len(call.items)' = Len(call.items)
  BY <1>1 DEF Current, Printed
<1>3. /\ Printed < Len(call.items) /\ ReadingFlags /\ format \in Nat
      /\ Char(format) = call.format[format] /\ format < Current.widthAt
  BY <1>1, FlagPlace
<1>4. Current.at \in Int /\ Current.widthAt \in Int
  <2>1. /\ call \in Calls /\ Printed + 1 \in 1 .. Len(call.items)
        /\ Current = call.items[Printed + 1]
    BY <1>3, CurrentIs
  <2> QED BY <2>1, PlacesOf, CallFacts
<1>5. ReadingFlags'
  <2>1. format \in Current.at + 1 .. Current.widthAt BY <1>3 DEF ReadingFlags
  <2>2. /\ format + 1 \in Current.at + 1 .. Current.widthAt
        /\ Current.at + 1 .. format + 1 - 1 = (Current.at + 1 .. format - 1) \cup {format}
    BY <1>3, <1>4, <2>1
  <2>3. flags' = {FlagOf[call.format[k]] : k \in Current.at + 1 .. format + 1 - 1}
    <3>1. flags' = {FlagOf[call.format[k]] : k \in Current.at + 1 .. format - 1}
                     \cup {FlagOf[call.format[format]]}
      BY <1>1, <1>3 DEF ReadingFlags
    <3> QED BY <2>2, <3>1
  <2> QED BY <1>1, <1>2, <1>3, <2>2, <2>3 DEF ReadingFlags
<1>6. flags' \subseteq AllFlags
  <2>1. FlagOf[Char(format)] \in AllFlags BY <1>1 DEF FlagOf, AllFlags
  <2> QED BY <1>1, <2>1 DEF WalkInv
<1> QED BY <1>1, <1>2, <1>3, <1>5, <1>6 DEF WalkInv

(* The width has been read.                                                 *)
LEMMA WalkToPrecision ==
  ASSUME WalkInv, pc = "flags", pc' = "precision",
         UNCHANGED <<call, precision, fields>>,
         flags' = SideFlags(Current), width' = Field(Current),
         format' = Current.precisionAt, va' = Current.precisionArg
  PROVE  WalkInv'
<1>1. Current' = Current /\ Printed' = Printed /\ Len(call.items)' = Len(call.items)
  BY DEF Current, Printed
<1>2. /\ Printed < Len(call.items) /\ call \in Calls /\ Printed + 1 \in 1 .. Len(call.items)
      /\ Current = call.items[Printed + 1]
  BY FlagPlace, CurrentIs
<1>3. flags' \subseteq AllFlags /\ width' \in 0 .. IntValues - 1
  <2>1. SideFlags(Current) \subseteq AllFlags BY <1>2, DirectiveFlagsAre
  <2>2. Field(Current) \in 0 .. IntValues - 1 BY <1>2, WidthRead
  <2> QED BY <2>1, <2>2
<1>4. ReadingPrecision' BY <1>1 DEF ReadingPrecision, SideFlags, WrittenFlags, Field
<1> QED BY <1>1, <1>2, <1>3, <1>4 DEF WalkInv, Phases

LEMMA WalkWidthNone ==
  ASSUME WalkInv, WidthNone PROVE WalkInv'
<1>1. /\ pc = "flags" /\ pc' = "precision"
      /\ Char(format) \notin DOMAIN FlagOf \cup {"*"} /\ ~is_digit(Char(format))
      /\ width' = 0
      /\ UNCHANGED <<call, format, va, flags, precision, fields>>
  BY DEF WidthNone
<1>2. /\ Printed < Len(call.items) /\ ReadingFlags /\ Char(format) = call.format[format]
      /\ format = Current.widthAt /\ flags = WrittenFlags(Current)
  BY <1>1, FlagPlace
<1>3. call \in Calls /\ Printed + 1 \in 1 .. Len(call.items) /\ Current = call.items[Printed + 1]
  BY <1>2, CurrentIs
<1>4. /\ Current.precisionAt = format /\ Current.width = 0
      /\ Current.precisionArg = Current.widthArg
  BY <1>1, <1>2, <1>3, WidthRead
<1>5. flags' = SideFlags(Current) /\ width' = Field(Current)
  BY <1>1, <1>2, <1>4 DEF SideFlags, Field
<1>6. va' = Current.precisionArg BY <1>1, <1>2, <1>4 DEF ReadingFlags
<1> QED BY <1>1, <1>4, <1>5, <1>6, WalkToPrecision

LEMMA WalkWidthDigits ==
  ASSUME WalkInv, WidthDigits PROVE WalkInv'
<1>1. /\ pc = "flags" /\ pc' = "precision"
      /\ Char(format) \notin DOMAIN FlagOf /\ is_digit(Char(format))
      /\ width' = atoi(format) /\ format' = DigitsEnd(format)
      /\ UNCHANGED <<call, va, flags, precision, fields>>
  BY DEF WidthDigits
<1>2. /\ Printed < Len(call.items) /\ ReadingFlags /\ Char(format) = call.format[format]
      /\ format = Current.widthAt /\ flags = WrittenFlags(Current)
  BY <1>1, FlagPlace
<1>3. call \in Calls /\ Printed + 1 \in 1 .. Len(call.items) /\ Current = call.items[Printed + 1]
  BY <1>2, CurrentIs
<1>4. /\ DigitsEnd(format) = Current.precisionAt /\ atoi(format) = Current.width
      /\ Current.width >= 0 /\ Current.width \in Int
      /\ Current.precisionArg = Current.widthArg
  BY <1>1, <1>2, <1>3, WidthRead
<1>5. flags' = SideFlags(Current) /\ width' = Field(Current)
  BY <1>1, <1>2, <1>4 DEF SideFlags, Field
<1>6. va' = Current.precisionArg BY <1>1, <1>2, <1>4 DEF ReadingFlags
<1> QED BY <1>1, <1>4, <1>5, <1>6, WalkToPrecision

LEMMA WalkWidthStar ==
  ASSUME WalkInv, WidthStar PROVE WalkInv'
<1> DEFINE w == Signed(Argument, IntValues)
<1>1. /\ pc = "flags" /\ pc' = "precision" /\ Char(format) = "*"
      /\ flags' = IF w < 0 THEN flags \cup {"LEFT"} ELSE flags
      /\ width' = Unsigned(IF w < 0 THEN -w ELSE w, IntValues)
      /\ format' = format + 1 /\ va' = va + 1
      /\ UNCHANGED <<call, precision, fields>>
  BY DEF WidthStar
<1>2. /\ Printed < Len(call.items) /\ ReadingFlags /\ Char(format) = call.format[format]
      /\ format = Current.widthAt /\ flags = WrittenFlags(Current)
  <2>1. "*" \notin DOMAIN FlagOf BY DEF FlagOf
  <2> QED BY <1>1, <2>1, FlagPlace
<1>3. call \in Calls /\ Printed + 1 \in 1 .. Len(call.items) /\ Current = call.items[Printed + 1]
  BY <1>2, CurrentIs
<1>4. /\ Current.precisionAt = format + 1 /\ Current.width \in Int
      /\ Current.precisionArg = Current.widthArg + 1
      /\ Signed(call.args[Current.widthArg], IntValues) = Current.width
      /\ Field(Current) \in 0 .. IntValues - 1
  <2>1. call.format[Current.widthAt] = "*" BY <1>1, <1>2
  <2>2. ~(call.format[Current.widthAt] # "*") BY <2>1
  <2> QED BY <1>2, <1>3, <2>2, WidthRead
<1>5. w = Current.width /\ va' = Current.precisionArg
  BY <1>1, <1>2, <1>4 DEF ReadingFlags, Argument
<1>6. flags' = SideFlags(Current) /\ width' = Field(Current)
  <2>1. (IF w < 0 THEN -w ELSE w) = Field(Current) BY <1>5 DEF Field
  <2>2. Unsigned(Field(Current), IntValues) = Field(Current)
    BY <1>4, HalfOfInt, Conversions DEF Widths
  <2>3. flags' = SideFlags(Current)
    <3> HIDE DEF w
    <3> QED BY <1>1, <1>2, <1>5 DEF SideFlags
  <2> QED BY <1>1, <2>1, <2>2, <2>3
<1> QED BY <1>1, <1>4, <1>5, <1>6, WalkToPrecision

LEMMA PrecisionPlace ==
  ASSUME WalkInv, pc = "precision"
  PROVE  /\ Printed < Len(call.items) /\ call \in Calls
         /\ Printed + 1 \in 1 .. Len(call.items) /\ Current = call.items[Printed + 1]
         /\ format = Current.precisionAt /\ va = Current.precisionArg
         /\ flags = SideFlags(Current) /\ width = Field(Current)
         /\ format \in Nat /\ Char(format) = call.format[format]
         /\ \A p \in 1 .. Len(call.format) : Char(p) = call.format[p]
<1>1. Printed < Len(call.items) /\ ReadingPrecision BY DEF WalkInv
<1>2. call \in Calls /\ Printed + 1 \in 1 .. Len(call.items) /\ Current = call.items[Printed + 1]
  BY <1>1, CurrentIs
<1>3. Len(call.format) \in Nat BY <1>2, CallFacts
<1>4. \A p \in 1 .. Len(call.format) : Char(p) = call.format[p] BY <1>2, <1>3, CharAt
<1>5. format = Current.precisionAt /\ format \in 1 .. Len(call.format)
  BY <1>1, <1>2, PlacesOf DEF ReadingPrecision
<1> QED BY <1>1, <1>2, <1>3, <1>4, <1>5 DEF ReadingPrecision

LEMMA WalkToLength ==
  ASSUME WalkInv, pc = "precision", pc' = "length", UNCHANGED <<call, width, fields>>,
         flags' = PrecisionFlags(Current), precision' = PrecisionOf(Current),
         format' = Current.lengthAt, va' = Current.valueArg
  PROVE  WalkInv'
<1>1. Current' = Current /\ Printed' = Printed /\ Len(call.items)' = Len(call.items)
  BY DEF Current, Printed
<1>2. /\ Printed < Len(call.items) /\ call \in Calls /\ Printed + 1 \in 1 .. Len(call.items)
      /\ Current = call.items[Printed + 1] /\ width = Field(Current)
  BY PrecisionPlace
<1>3. flags' \subseteq AllFlags /\ precision' \in 0 .. IntValues - 1
  <2>1. PrecisionFlags(Current) \subseteq AllFlags BY <1>2, DirectiveFlagsAre
  <2>2. PrecisionOf(Current) \in 0 .. IntValues - 1 BY <1>2, PrecisionRead DEF PrecisionForm
  <2> QED BY <2>1, <2>2
<1>4. ReadingLength'
  BY <1>1, <1>2 DEF ReadingLength, PrecisionFlags, SideFlags, WrittenFlags, Field, PrecisionOf
<1> QED BY <1>1, <1>2, <1>3, <1>4 DEF WalkInv, Phases

LEMMA WalkPrecisionNone ==
  ASSUME WalkInv, PrecisionNone PROVE WalkInv'
<1>1. /\ pc = "precision" /\ pc' = "length" /\ Char(format) # "." /\ precision' = 0
      /\ UNCHANGED <<call, format, va, flags, width, fields>>
  BY DEF PrecisionNone
<1>2. /\ call \in Calls /\ Printed + 1 \in 1 .. Len(call.items)
      /\ Current = call.items[Printed + 1] /\ format = Current.precisionAt
      /\ va = Current.precisionArg /\ flags = SideFlags(Current)
      /\ Char(format) = call.format[format]
  BY <1>1, PrecisionPlace
<1>3. ~(call.format[Current.precisionAt] = ".") BY <1>1, <1>2
<1>4. /\ Current.lengthAt = Current.precisionAt /\ Current.precision = NoPrecision
      /\ Current.valueArg = Current.precisionArg
  BY <1>2, <1>3, PrecisionRead DEF PrecisionForm
<1>5. flags' = PrecisionFlags(Current) BY <1>1, <1>2, <1>4 DEF PrecisionFlags
<1>6. precision' = PrecisionOf(Current) BY <1>1, <1>4, NoPrecisionNegative DEF PrecisionOf
<1> QED BY <1>1, <1>2, <1>4, <1>5, <1>6, WalkToLength

LEMMA WalkPrecisionDigits ==
  ASSUME WalkInv, PrecisionDigits PROVE WalkInv'
<1>1. /\ pc = "precision" /\ pc' = "length" /\ Char(format) = "." /\ Char(format + 1) # "*"
      /\ flags' = flags \cup {"PRECISION"}
      /\ precision' = atoi(format + 1) /\ format' = DigitsEnd(format + 1)
      /\ UNCHANGED <<call, va, width, fields>>
  BY DEF PrecisionDigits
<1>2. /\ call \in Calls /\ Printed + 1 \in 1 .. Len(call.items)
      /\ Current = call.items[Printed + 1] /\ format = Current.precisionAt
      /\ va = Current.precisionArg /\ flags = SideFlags(Current)
      /\ Char(format) = call.format[format]
      /\ \A p \in 1 .. Len(call.format) : Char(p) = call.format[p]
  BY <1>1, PrecisionPlace
<1>3. ~(call.format[Current.precisionAt] # ".") BY <1>1, <1>2
<1>4. ~(Current.precisionAt + 1 \in 1 .. Len(call.format)
        /\ call.format[Current.precisionAt + 1] = "*")
  BY <1>1, <1>2
<1>5. /\ DigitsEnd(Current.precisionAt + 1) = Current.lengthAt
      /\ atoi(Current.precisionAt + 1) = Current.precision
      /\ Current.precision >= 0 /\ Current.precision # NoPrecision
      /\ Current.valueArg = Current.precisionArg
  BY <1>2, <1>3, <1>4, PrecisionRead DEF PrecisionForm
<1>6. flags' = PrecisionFlags(Current) BY <1>1, <1>2, <1>5 DEF PrecisionFlags
<1>7. precision' = PrecisionOf(Current) BY <1>1, <1>2, <1>5 DEF PrecisionOf
<1>8. format' = Current.lengthAt /\ va' = Current.valueArg BY <1>1, <1>2, <1>5
<1> QED BY <1>1, <1>6, <1>7, <1>8, WalkToLength

LEMMA WalkPrecisionStar ==
  ASSUME WalkInv, PrecisionStar PROVE WalkInv'
<1>1. /\ pc = "precision" /\ pc' = "length" /\ Char(format) = "." /\ Char(format + 1) = "*"
      /\ flags' = flags \cup {"PRECISION"}
      /\ precision' = StarPrecision /\ format' = format + 2 /\ va' = va + 1
      /\ UNCHANGED <<call, width, fields>>
  BY DEF PrecisionStar
<1>2. /\ call \in Calls /\ Printed + 1 \in 1 .. Len(call.items)
      /\ Current = call.items[Printed + 1] /\ format = Current.precisionAt
      /\ va = Current.precisionArg /\ flags = SideFlags(Current)
      /\ Char(format) = call.format[format]
      /\ \A p \in 1 .. Len(call.format) : Char(p) = call.format[p]
  BY <1>1, PrecisionPlace
<1>3. ~(call.format[Current.precisionAt] # ".") BY <1>1, <1>2
<1>4. ~(Current.precisionAt + 1 \in 1 .. Len(call.format)
        /\ call.format[Current.precisionAt + 1] # "*")
  BY <1>1, <1>2
<1>5. /\ Current.lengthAt = Current.precisionAt + 2
      /\ Current.precision # NoPrecision /\ Current.precision \in Int
      /\ Current.valueArg = Current.precisionArg + 1
      /\ Signed(call.args[Current.precisionArg], IntValues) = Current.precision
  <2>1. PrecisionForm(Current) BY <1>2, PrecisionRead
  <2> QED BY <1>3, <1>4, <2>1 DEF PrecisionForm
<1>6. flags' = PrecisionFlags(Current) BY <1>1, <1>2, <1>5 DEF PrecisionFlags
<1>7. precision' = PrecisionOf(Current)
  <2>1. StarPrecision = Max({Current.precision, 0})
    BY <1>2, <1>5 DEF StarPrecision, Argument
  <2>2. Max({Current.precision, 0}) = PrecisionOf(Current)
    BY <1>5, MaxTwo DEF PrecisionOf
  <2> QED BY <1>1, <2>1, <2>2
<1>8. format' = Current.lengthAt /\ va' = Current.valueArg BY <1>1, <1>2, <1>5
<1> QED BY <1>1, <1>6, <1>7, <1>8, WalkToLength

LEMMA WalkLength ==
  ASSUME WalkInv, Length PROVE WalkInv'
<1> DEFINE a == Char(format)  b == Char(format + 1)
<1>1. /\ pc = "length" /\ pc' = "specifier" /\ flags' = flags \cup LengthFlags(a, b)
      /\ format' = format + (IF a \in {"l", "h"} /\ b = a THEN 2
                             ELSE IF a \in {"l", "h", "t", "j", "z"} THEN 1 ELSE 0)
      /\ UNCHANGED <<call, va, width, precision, fields>>
  BY DEF Length
<1>2. Current' = Current /\ Printed' = Printed /\ Len(call.items)' = Len(call.items)
  BY <1>1 DEF Current, Printed
<1>3. Printed < Len(call.items) /\ ReadingLength BY <1>1 DEF WalkInv
<1>4. call \in Calls /\ Printed + 1 \in 1 .. Len(call.items) /\ Current = call.items[Printed + 1]
  BY <1>3, CurrentIs
<1>5. format = Current.lengthAt BY <1>3 DEF ReadingLength
<1>6. PICK c, d : c = Char(Current.lengthAt) /\ d = Char(Current.lengthAt + 1) OBVIOUS
<1>7. /\ LengthFlags(c, d) = FlagsOfLength(Current.length)
      /\ Current.specAt = Current.lengthAt +
           (IF c \in {"l", "h"} /\ d = c THEN 2
            ELSE IF c \in {"l", "h", "t", "j", "z"} THEN 1 ELSE 0)
  <2>1. LengthForm(Current) BY <1>4, LengthRead
  <2> QED BY <1>6, <2>1 DEF LengthForm
<1>8. a = c /\ b = d BY <1>5, <1>6
<1>9. format' = Current.specAt /\ flags' = DirectiveFlags(Current)
  <2> HIDE DEF a, b
  <2>1. flags = PrecisionFlags(Current) BY <1>3 DEF ReadingLength
  <2> QED BY <1>1, <1>5, <1>7, <1>8, <2>1 DEF DirectiveFlags
<1>10. flags' \subseteq AllFlags BY <1>4, <1>9, DirectiveFlagsAre
<1>11. ReadingSpecifier'
  BY <1>1, <1>2, <1>3, <1>9
     DEF ReadingSpecifier, ReadingLength, DirectiveFlags, FlagsOfLength, PrecisionFlags,
         SideFlags, WrittenFlags, Field, PrecisionOf
<1> QED BY <1>1, <1>2, <1>3, <1>10, <1>11 DEF WalkInv, Phases

(* The directive has been printed.                                          *)
LEMMA WalkToText ==
  ASSUME WalkInv, pc = "specifier", pc' = "text", call' = call, Printed' = Printed + 1,
         format' = format + 1, va' = Current.nextArg, flags' \subseteq AllFlags,
         width' \in 0 .. IntValues - 1, precision' \in 0 .. IntValues - 1
  PROVE  WalkInv'
<1>1. Printed < Len(call.items) /\ format = Current.specAt
  BY DEF WalkInv, ReadingSpecifier
<1>2. /\ call \in Calls /\ Printed + 1 \in 1 .. Len(call.items) /\ Printed \in Nat
      /\ Current = call.items[Printed + 1]
  BY <1>1, CurrentIs
<1>3. Len(call.format) \in Nat /\ Len(call.items) \in Nat BY <1>2, CallFacts
<1>4. Current.specAt \in 1 .. Len(call.format) BY <1>2, PlacesOf
<1>5. format + 1 \in 1 .. Len(call.format) + 1 /\ Current.specAt < format + 1
  BY <1>1, <1>3, <1>4
<1>6. ASSUME Printed + 1 < Len(call.items) PROVE format + 1 <= call.items[Printed + 1 + 1].at
  <2>1. Printed + 1 + 1 \in 1 .. Len(call.items) /\ Printed + 1 < Printed + 1 + 1
    BY <1>2, <1>3, <1>6
  <2>2. call.items[Printed + 1].specAt < call.items[Printed + 1 + 1].at
    BY <1>2, <2>1, PlacesInOrder
  <2>3. call.items[Printed + 1 + 1].at \in Int BY <1>2, <2>1, SpanOf
  <2>4. format \in Int BY <1>1, <1>3, <1>4
  <2> QED BY <1>1, <1>2, <2>2, <2>3, <2>4
<1>7. BetweenDirectives'
  <2>1. Printed' # 0 /\ call'.items[Printed'] = Current BY <1>2
  <2>2. Printed' < Len(call'.items) => Current' = call.items[Printed + 1 + 1]
    BY DEF Current
  <2>3. va' = IF Printed' = 0 THEN 1 ELSE call'.items[Printed'].nextArg BY <2>1
  <2> QED BY <1>5, <1>6, <2>1, <2>2, <2>3 DEF BetweenDirectives
<1>8. call' \in Calls /\ Printed' \in 0 .. Len(call'.items) BY <1>2, <1>3
<1> QED BY <1>7, <1>8 DEF WalkInv, Phases

LEMMA WalkTerminate ==
  ASSUME WalkInv, Terminate PROVE WalkInv'
<1>1. /\ pc = "text" /\ pc' = "done"
      /\ UNCHANGED <<call, format, va, flags, width, precision, fields>>
  BY DEF Terminate, locals
<1>2. Current' = Current /\ Printed' = Printed BY <1>1 DEF Current, Printed
<1>3. BetweenDirectives' BY <1>1, <1>2 DEF WalkInv, BetweenDirectives
<1> QED BY <1>1, <1>2, <1>3 DEF WalkInv, Phases
-----------------------------------------------------------------------------
(* What a directive prints is a text, whatever its flags and numbers.       *)
LEMMA RoomText ==
  ASSUME NEW buf \in Text, NEW s \in Text PROVE Room(buf, s) \in Text
BY Joined DEF Room

LEMMA AlignedText ==
  ASSUME NEW s \in Text, NEW w \in Int, NEW fl PROVE Aligned(s, w, fl) \in Text
<1>1. Blank(s, w) \in Text BY BlankText
<1> QED BY <1>1, Joined DEF Aligned

LEMMA HashText ==
  ASSUME NEW buf \in Text, NEW base, NEW prec, NEW w, NEW fl
  PROVE  Hash(buf, base, prec, w, fl) \in Text
<1> DEFINE full == "PRECISION" \notin fl /\ Len(buf) > 0 /\ Len(buf) \in {prec, w}
           cut == IF ~full THEN 0 ELSE IF base = 16 THEN Min({2, Len(buf)}) ELSE 1
           letter == CASE base = 16 -> <<IF "UPPERCASE" \in fl THEN "X" ELSE "x">>
                       [] base = 2 -> <<"b">> [] OTHER -> <<>>
<1>1. Hash(buf, base, prec, w, fl) = Room(Room(SubSeq(buf, 1, Len(buf) - cut), letter), <<"0">>)
  BY DEF Hash
<1>2. Len(buf) \in Nat BY Joined
<1>3. Len(buf) - cut \in 0 .. Len(buf)
  <2>1. CASE ~full BY <1>2, <2>1
  <2>2. CASE full
    <3>1. Min({2, Len(buf)}) = IF 2 <= Len(buf) THEN 2 ELSE Len(buf) BY <1>2, MinTwo
    <3>2. Len(buf) >= 1 BY <1>2, <2>2
    <3>3. cut = IF base = 16 THEN Min({2, Len(buf)}) ELSE 1 BY <2>2
    <3> HIDE DEF cut, full
    <3> QED BY <1>2, <3>1, <3>2, <3>3
  <2> QED BY <2>1, <2>2
<1>4. SubSeq(buf, 1, Len(buf) - cut) \in Text
  <2> HIDE DEF cut
  <2> QED BY <1>3, PrefixText
<1>5. letter \in Text /\ <<"0">> \in Text
  <2>1. <<"x">> \in Text /\ <<"X">> \in Text /\ <<"b">> \in Text /\ <<"0">> \in Text
    BY Letters, One
  <2> QED BY <2>1, Nothing
<1> HIDE DEF cut, letter
<1>6. Room(SubSeq(buf, 1, Len(buf) - cut), letter) \in Text BY <1>4, <1>5, RoomText
<1> QED BY <1>1, <1>5, <1>6, RoomText

LEMMA NumberIsText ==
  ASSUME NEW value \in Nat, NEW negative \in BOOLEAN, NEW base \in Bases, NEW prec \in Nat,
         NEW w \in Nat, NEW fl
  PROVE  ntoa_long(value, negative, base, prec, w, fl) \in Text
<1>1. ASSUME NEW buf \in Text, NEW f
      PROVE  ntoa_format(buf, negative, base, prec, w, f) \in Text
  <2> DEFINE place == IF "LEFT" \in f THEN w ELSE SignPlace(negative, w, f)
             filled == IF "LEFT" \in f THEN buf ELSE ZerosTo(buf, prec)
             padded == IF {"LEFT", "ZEROPAD"} \cap f = {"ZEROPAD"}
                         THEN ZerosTo(filled, place) ELSE filled
             hashed == IF "HASH" \in f THEN Hash(padded, base, prec, place, f) ELSE padded
  <2>1. place \in Int BY SignPlaces
  <2>2. filled \in Text BY ZerosToText
  <2>3. padded \in Text
    <3> HIDE DEF filled, place
    <3> QED BY <2>1, <2>2, ZerosToText
  <2>4. hashed \in Text
    <3> HIDE DEF padded, place
    <3> QED BY <2>3, HashText
  <2>5. SignOf(negative, f) \in Text BY SignText
  <2>6. ntoa_format(buf, negative, base, prec, w, f) =
          out_rev(Room(hashed, SignOf(negative, f)), place, f)
    BY DEF ntoa_format
  <2> HIDE DEF hashed, place
  <2>7. PICK r \in Text : r = Room(hashed, SignOf(negative, f)) BY <2>4, <2>5, RoomText
  <2>8. out_rev(r, place, f) = Aligned(Reverse(r), place, f) BY <2>1, OutRev
  <2>9. Reverse(r) \in Text BY ReverseText
  <2> QED BY <2>1, <2>6, <2>7, <2>8, <2>9, AlignedText
<1> DEFINE buf == IF "PRECISION" \in fl /\ value = 0 THEN <<>> ELSE DigitsOf(value, base, fl)
           f == IF value = 0 THEN fl \ {"HASH"} ELSE fl
<1>2. buf \in Text BY Nothing, DigitsOfNumeral
<1>3. ntoa_long(value, negative, base, prec, w, fl) = ntoa_format(buf, negative, base, prec, w, f)
  BY DEF ntoa_long
<1> HIDE DEF buf, f
<1> QED BY <1>1, <1>2, <1>3

LEMMA PaddedText ==
  ASSUME NEW s \in Text, width \in Nat
  PROVE  Padded(s) \in Text
<1>1. Padded(s) = IF "LEFT" \in flags THEN s \o Blank(s, width) ELSE Blank(s, width) \o s
  BY DEF Padded, Blank
<1>2. Blank(s, width) \in Text BY BlankText
<1> QED BY <1>1, <1>2, Joined

(* What the other directives mean.                                          *)
LEMMA PaddedMeant ==
  ASSUME NEW item, item.spec \in {"c", "s"}, width = Field(item), "LEFT" \in flags <=> Left(item)
  PROVE  Meaning(item) = Padded(Content(item))
<1>1. item.spec \in ValueSpecs BY DEF ValueSpecs
<1> DEFINE pad == Repeat(" ", Max({width - Len(Content(item)), 0}))
<1>2. Meaning(item) = IF Left(item) THEN Content(item) \o pad ELSE pad \o Content(item)
  BY <1>1 DEF Meaning
<1>3. Padded(Content(item)) = IF "LEFT" \in flags THEN Content(item) \o pad
                              ELSE pad \o Content(item)
  BY DEF Padded
<1> HIDE DEF pad
<1> QED BY <1>2, <1>3

LEMMA OtherMeant ==
  ASSUME NEW item, item.spec \in Characters, item.spec \notin ValueSpecs
  PROVE  Meaning(item) = <<item.spec>>
<1>1. Content(item) = <<item.spec>>
  <2>1. item.spec \notin {"d", "i", "u", "x", "X", "o", "b", "p"} /\ item.spec # "c"
        /\ item.spec # "s"
    BY DEF ValueSpecs
  <2> QED BY <2>1 DEF Content
<1>2. Repeat(" ", 0) = <<>> BY NoBlank
<1>3. Meaning(item) = IF Left(item) THEN <<item.spec>> \o <<>> ELSE <<>> \o <<item.spec>>
  <2>1. Repeat(" ", IF item.spec \notin ValueSpecs THEN 0
                    ELSE Max({Field(item) - Len(Content(item)), 0})) = <<>>
    BY <1>2
  <2> QED BY <1>1, <2>1 DEF Meaning
<1>4. PICK s \in Text : s = <<item.spec>> BY One
<1>5. s \o <<>> = s /\ <<>> \o s = s BY Joined
<1> QED BY <1>3, <1>4, <1>5

LEMMA PointerPrinted ==
  ASSUME NEW item, item.spec = "p", item.arg \in Int, item.precision \in Int,
         Regular(item), NEW fl, "ZEROPAD" \in fl, "UPPERCASE" \in fl,
         fl \cap {"LEFT", "PLUS", "SPACE", "HASH", "PRECISION"} = {},
         NEW n, n = Unsigned(item.arg, IntValues), NEW neg \in BOOLEAN, ~neg, NEW base, base = 16
  PROVE  ntoa_long(n, neg, base, 0, PointerDigits, fl) = Meaning(item)
<1> DEFINE w == PointerDigits
<1>1. n \in Nat /\ w \in Nat /\ n >= 0
  <2>1. IntValues \in Nat \ {0} /\ IntValues \in Widths BY HalfOfInt DEF Widths
  <2>2. n \in 0 .. IntValues - 1 BY <2>1, Conversions
  <2>3. w \in 0 .. IntValues - 1 BY WidthAssumption
  <2> QED BY <2>1, <2>2, <2>3
<1>2. Number(item) = n BY DEF Number
<1>3. /\ item.precision = NoPrecision /\ item.width = 0 /\ item.flags \subseteq {"0"}
      /\ Len(NumberText(item)) <= PRINTF_NTOA_BUFFER_SIZE
  BY DEF Regular
<1>4. NoPrecision < 0 /\ NoPrecision \in Int BY NoPrecisionNegative
<1>5. base \in Bases /\ Letter(fl) = UpperChar BY DEF Bases, Letter
<1>6. PICK num \in Text : num = Numeral(n, base, Letter(fl)) /\ Len(num) >= 1
  BY <1>1, <1>5, DigitsOfNumeral
<1>7. Digits(item) = num
  <2>1. item.precision # 0 /\ ~(n < 0) BY <1>1, <1>3, <1>4
  <2> QED BY <1>2, <1>5, <1>6, <2>1 DEF Digits
<1>8. Prefix(item) = <<>>
  <2>1. ~(n < 0) BY <1>1
  <2> QED BY <1>2, <2>1 DEF Prefix
<1>9. PICK whole \in Text : whole = NumberText(item) /\ whole = Fill(num, w)
                            /\ Len(whole) = (IF w > Len(num) THEN w ELSE Len(num))
  <2>1. Least(item) = w BY DEF Least
  <2>2. NumberText(item) = <<>> \o Fill(num, w) BY <1>7, <1>8, <2>1, NumberTextParts
  <2>3. w \in Int BY <1>1
  <2> HIDE DEF w
  <2>4. PICK s \in Text : s = Fill(num, w) /\ Len(s) = (IF w > Len(num) THEN w ELSE Len(num))
    BY <2>3, FillText
  <2>5. <<>> \o s = s BY Joined
  <2> QED BY <2>2, <2>4, <2>5
<1>10. Len(num) <= PRINTF_NTOA_BUFFER_SIZE
  <2>1. Len(num) \in Nat /\ PRINTF_NTOA_BUFFER_SIZE \in Nat BY Joined, WidthAssumption
  <2> QED BY <1>1, <1>3, <1>9, <2>1
<1>11. PICK buf \in Text : buf = DigitsOf(n, base, fl) /\ Reverse(buf) = num
  BY <1>1, <1>5, <1>6, <1>10, DigitsOfNumeral
<1> DEFINE f == IF n = 0 THEN fl \ {"HASH"} ELSE fl
<1>12. ntoa_long(n, neg, base, 0, w, fl) = ntoa_format(buf, neg, base, 0, w, f)
  BY <1>11 DEF ntoa_long
<1>13. /\ "ZEROPAD" \in f
       /\ "LEFT" \notin f /\ "PLUS" \notin f /\ "SPACE" \notin f /\ "HASH" \notin f
  OBVIOUS
<1> HIDE DEF f, w
<1>14. SignOf(neg, f) = <<>> BY <1>13 DEF SignOf
<1>15. SignPlace(neg, w, f) = w
  <2>1. f \cap {"PLUS", "SPACE"} = {} BY <1>13
  <2> QED BY <2>1 DEF SignPlace
<1>16. PlainCase(buf, num, neg, 0, w, f, w, whole)
  <2>1. whole = <<>> \o Fill(num, w) BY <1>9, Joined
  <2>2. w \in Int /\ Len(whole) <= PRINTF_NTOA_BUFFER_SIZE BY <1>1, <1>3, <1>9
  <2> QED BY <1>1, <1>11, <1>13, <1>14, <1>15, <2>1, <2>2 DEF PlainCase
<1>17. ntoa_format(buf, neg, base, 0, w, f) = Aligned(whole, w, f) BY <1>16, PlainNumber
<1>18. Aligned(whole, w, f) = whole BY <1>13 DEF Aligned
<1>19. Meaning(item) = whole
  <2>1. item.spec \in ValueSpecs /\ Content(item) = whole BY <1>9 DEF ValueSpecs, Content
  <2>2. Len(whole) \in Nat BY Joined
  <2>3. Field(item) = 0 /\ ~Left(item) BY <1>3 DEF Field, Left
  <2>4. Max({Field(item) - Len(whole), 0}) = 0
    <3>1. PICK m \in Int : m = Field(item) - Len(whole) /\ m <= 0 BY <2>2, <2>3
    <3>2. Max({m, 0}) = 0 BY <3>1, MaxTwo
    <3> QED BY <3>1, <3>2
  <2>5. Repeat(" ", 0) = <<>> BY NoBlank
  <2>6. Meaning(item) = <<>> \o whole BY <2>1, <2>3, <2>4, <2>5 DEF Meaning
  <2> QED BY <2>6, Joined
<1> QED BY <1>12, <1>17, <1>18, <1>19 DEF w
-----------------------------------------------------------------------------
(* The steps that print a directive.                                        *)
SpecifierFacts(item) ==
  /\ item = Current /\ item.spec \in Characters /\ item.spec = Char(format)
  /\ item.width \in Int /\ item.precision \in Int
  /\ width = Field(item) /\ width \in 0 .. IntValues - 1 /\ width \in Nat
  /\ precision = PrecisionOf(item) /\ precision \in 0 .. IntValues - 1 /\ precision \in Nat
  /\ flags = DirectiveFlags(item)
  /\ item.spec \in ValueSpecs => /\ item.nextArg = va + 1 /\ Argument = item.arg
                                 /\ item.arg \in Int
  /\ item.spec \notin ValueSpecs => item.nextArg = va
  /\ item.spec = "s" => item.arg \in DOMAIN Strings

LEMMA AtSpecifier ==
  ASSUME WalkInv, pc = "specifier"
  PROVE  /\ SpecifierFacts(Current)
         /\ call \in Calls /\ Printed + 1 \in 1 .. Len(call.items)
         /\ Current = call.items[Printed + 1] /\ Printed \in Nat
<1>1. Printed < Len(call.items) /\ ReadingSpecifier BY DEF WalkInv
<1>2. /\ call \in Calls /\ Printed + 1 \in 1 .. Len(call.items)
      /\ Current = call.items[Printed + 1] /\ Printed \in Nat
  BY <1>1, CurrentIs
<1>3. PICK item : item = Current OBVIOUS
<1>4. /\ format = item.specAt /\ va = item.valueArg /\ flags = DirectiveFlags(item)
      /\ width = Field(item) /\ precision = PrecisionOf(item)
  BY <1>1, <1>3 DEF ReadingSpecifier
<1>5. item.width \in Int /\ Field(item) \in 0 .. IntValues - 1
  BY <1>2, <1>3, WidthRead
<1>6. item.precision \in Int /\ PrecisionOf(item) \in 0 .. IntValues - 1
  <2>1. PrecisionForm(item) BY <1>2, <1>3, PrecisionRead
  <2> QED BY <2>1 DEF PrecisionForm
<1>7. IntValues \in Nat BY HalfOfInt
<1>8. /\ item.specAt \in 1 .. Len(call.format) /\ call.format[item.specAt] = item.spec
      /\ item.valueArg \in 1 .. Len(call.args) + 1 /\ item.nextArg \in 1 .. Len(call.args) + 1
  BY <1>2, <1>3, PlacesOf
<1>9. Char(format) = item.spec /\ item.spec \in Characters
  <2>1. format \in Nat /\ Len(call.format) \in Nat BY <1>2, <1>4, <1>8, CallFacts
  <2> QED BY <1>2, <1>4, <1>8, <2>1, CharAt
<1>10. Directive(call, item) /\ call.args \in Seq(Int) /\ Len(call.args) \in Nat
  BY <1>2, <1>3, CallFacts
<1>11. IF item.spec \notin ValueSpecs THEN item.nextArg = item.valueArg
         ELSE /\ item.nextArg = item.valueArg + 1 /\ item.arg = call.args[item.valueArg]
              /\ item.spec = "s" => item.arg \in DOMAIN Strings
  BY <1>10 DEF Directive
<1>12. ASSUME item.spec \in ValueSpecs
       PROVE  item.nextArg = va + 1 /\ Argument = item.arg /\ item.arg \in Int
  <2>1. item.nextArg = item.valueArg + 1 /\ item.arg = call.args[item.valueArg] BY <1>11, <1>12
  <2>2. item.valueArg \in 1 .. Len(call.args) BY <1>8, <1>10, <2>1
  <2>3. call.args[item.valueArg] \in Int BY <1>10, <2>2
  <2> QED BY <1>4, <2>1, <2>3 DEF Argument
<1>13. item.spec \notin ValueSpecs => item.nextArg = va BY <1>4, <1>11
<1>14. item.spec = "s" => item.arg \in DOMAIN Strings
  <2>1. "s" \in ValueSpecs BY DEF ValueSpecs
  <2> QED BY <1>11, <2>1
<1>15. SpecifierFacts(item)
  <2>1. width \in Nat /\ precision \in Nat BY <1>4, <1>5, <1>6, <1>7
  <2> QED BY <1>3, <1>4, <1>5, <1>6, <1>9, <1>12, <1>13, <1>14, <2>1 DEF SpecifierFacts
<1> QED BY <1>2, <1>3, <1>15

(* The flags say as many values as the length means.                        *)
LEMMA ValuesMeant ==
  ASSUME NEW item, item.spec # "p", NEW fl,
         "CHAR" \in fl <=> item.length = "hh",
         "SHORT" \in fl <=> item.length \in {"h", "hh"},
         "LONG_LONG" \in fl <=> item.length \in {"ll", "j"},
         "LONG" \in fl <=> item.length \in {"l", "z", "t", "ll"}
  PROVE  /\ item.spec \in {"d", "i"} => Signed(item.arg, Values(fl)) = Number(item)
         /\ item.spec \notin {"d", "i"} => Unsigned(item.arg, Values(fl)) = Number(item)
         /\ Values(fl) \in Widths
<1> DEFINE values == CASE item.spec = "p" -> IntValues
                       [] item.spec # "p" /\ item.length = "hh" -> CharValues
                       [] item.spec # "p" /\ item.length = "h" -> ShortValues
                       [] item.spec # "p" /\ item.length \in {"ll", "j"} -> LLValues
                       [] OTHER -> IntValues
<1>1. Number(item) = IF item.spec \in {"d", "i"} THEN Signed(item.arg, values)
                     ELSE Unsigned(item.arg, values)
  BY DEF Number
<1>2. values = Values(fl) /\ values \in Widths
  <2>1. CASE item.length \in {"ll", "j"}
    <3>1. Values(fl) = LLValues BY <2>1 DEF Values
    <3>2. values = LLValues BY <2>1
    <3> QED BY <3>1, <3>2 DEF Widths
  <2>2. CASE item.length \in {"l", "z", "t"}
    <3>1. {"LONG_LONG", "LONG"} \cap fl = {"LONG"} BY <2>2
    <3>2. Values(fl) = IntValues BY <2>2, <3>1 DEF Values
    <3>3. values = IntValues BY <2>2
    <3> QED BY <3>2, <3>3 DEF Widths
  <2>3. CASE item.length \notin {"ll", "j", "l", "z", "t"}
    <3>1. {"LONG_LONG", "LONG"} \cap fl # {"LONG"} BY <2>3
    <3>2. Values(fl) = IF "CHAR" \in fl THEN CharValues
                       ELSE IF "SHORT" \in fl THEN ShortValues ELSE IntValues
      BY <2>3, <3>1 DEF Values
    <3>3. values = IF item.length = "hh" THEN CharValues
                   ELSE IF item.length = "h" THEN ShortValues ELSE IntValues
      BY <2>3
    <3> HIDE DEF values
    <3> QED BY <3>2, <3>3 DEF Widths
  <2> QED BY <2>1, <2>2, <2>3
<1> HIDE DEF values
<1> QED BY <1>1, <1>2

LEMMA IntegerFlagsMeant ==
  ASSUME WalkInv, pc = "specifier", Current.spec \in IntegerSpecs, Regular(Current)
  PROVE  FlagsOfInteger(Current, IntegerFlags(Current.spec))
<1>1. PICK item : item = Current OBVIOUS
<1>2. flags = DirectiveFlags(item) BY <1>1, AtSpecifier DEF SpecifierFacts
<1>3. /\ "LEFT" \in flags <=> Left(item)
      /\ "ZEROPAD" \in flags <=> "0" \in item.flags
      /\ "PLUS" \in flags <=> "+" \in item.flags
      /\ "SPACE" \in flags <=> " " \in item.flags
      /\ "HASH" \in flags <=> "#" \in item.flags
      /\ "UPPERCASE" \notin flags
      /\ "PRECISION" \in flags <=> item.precision # NoPrecision
  BY <1>1, <1>2, AtSpecifier, DirectiveFlagsAre
<1>4. PICK fl : fl = IntegerFlags(item.spec) OBVIOUS
<1>5. PICK base : base = Base(item.spec) OBVIOUS
<1>6. fl = (flags \ ((IF base = 10 THEN {"HASH"} ELSE {})
                     \cup (IF item.spec \notin {"d", "i"} THEN {"PLUS", "SPACE"} ELSE {})
                     \cup (IF "PRECISION" \in flags THEN {"ZEROPAD"} ELSE {})))
             \cup (IF item.spec = "X" THEN {"UPPERCASE"} ELSE {})
  BY <1>4, <1>5 DEF IntegerFlags
<1>7. "LEFT" \in fl <=> Left(item) BY <1>3, <1>6
<1>8. "ZEROPAD" \in fl <=> "0" \in item.flags /\ item.precision = NoPrecision BY <1>3, <1>6
<1>9. "PLUS" \in fl <=> "+" \in item.flags /\ item.spec \in {"d", "i"} BY <1>3, <1>6
<1>10. "SPACE" \in fl <=> " " \in item.flags /\ item.spec \in {"d", "i"} BY <1>3, <1>6
<1>11. "HASH" \in fl <=> "#" \in item.flags /\ base # 10 BY <1>3, <1>6
<1>12. "UPPERCASE" \in fl <=> item.spec = "X" BY <1>3, <1>6
<1>13. "PRECISION" \in fl <=> item.precision # NoPrecision BY <1>3, <1>6
<1> QED BY <1>1, <1>4, <1>5, <1>7, <1>8, <1>9, <1>10, <1>11, <1>12, <1>13 DEF FlagsOfInteger

(* A step that ends a directive with s, which is its meaning if regular.    *)
Prints(s) ==
  /\ s \in Text /\ Finish(s) /\ pc = "specifier" /\ call' = call /\ va' = Current.nextArg
  /\ flags' \subseteq AllFlags
  /\ width' \in 0 .. IntValues - 1 /\ precision' \in 0 .. IntValues - 1
  /\ Regular(Current) => s = Meaning(Current)

LEMMA NumberPrinted ==
  ASSUME WalkInv, pc = "specifier", Current.spec \in IntegerSpecs,
         NEW n, n = Number(Current), NEW abs, abs = (IF n > 0 THEN n ELSE 0 - n),
         NEW neg \in BOOLEAN, neg <=> n < 0, UNCHANGED <<call, locals>>, va' = va + 1,
         NEW s, s = ntoa_long(abs, neg, Base(Current.spec), precision, width,
                              IntegerFlags(Current.spec)),
         Finish(s)
  PROVE  Prints(s)
<1>1. PICK item : item = Current /\ SpecifierFacts(item) BY AtSpecifier
<1>2. item.spec \in ValueSpecs BY <1>1 DEF ValueSpecs, IntegerSpecs
<1>3. /\ item.arg \in Int /\ item.width \in Int /\ item.precision \in Int
      /\ precision = (IF item.precision >= 0 THEN item.precision ELSE 0)
      /\ width = Field(item) /\ width \in Nat /\ precision \in Nat
      /\ width \in 0 .. IntValues - 1 /\ precision \in 0 .. IntValues - 1
      /\ item.nextArg = va + 1
  BY <1>1, <1>2 DEF SpecifierFacts, PrecisionOf
<1>4. PICK fl : fl = IntegerFlags(item.spec) OBVIOUS
<1>5. s = ntoa_long(abs, neg, Base(item.spec), precision, width, fl) BY <1>1, <1>4
<1>6. s \in Text
  <2>1. n \in Int BY <1>1, <1>3, NumberOf
  <2>2. abs \in Nat BY <2>1
  <2>3. PICK base \in Bases : base = Base(item.spec) BY <1>1, BaseOf
  <2>4. PICK w \in Nat, prec \in Nat : w = width /\ prec = precision BY <1>3
  <2>5. ntoa_long(abs, neg, base, prec, w, fl) \in Text BY <2>2, NumberIsText
  <2> QED BY <1>5, <2>3, <2>4, <2>5
<1>7. ASSUME Regular(item) PROVE s = Meaning(item)
  <2>1. FlagsOfInteger(item, fl) BY <1>1, <1>4, <1>7, IntegerFlagsMeant
  <2>2. PICK prec, w : prec = precision /\ w = width OBVIOUS
  <2>3. /\ item.spec \in IntegerSpecs /\ n = Number(item)
        /\ prec = (IF item.precision >= 0 THEN item.precision ELSE 0)
    BY <1>1, <1>3, <2>2
  <2>4. ntoa_long(abs, neg, Base(item.spec), prec, Field(item), fl) = Meaning(item)
    BY <1>3, <1>7, <2>1, <2>3, IntegerPrinted
  <2> QED BY <1>3, <1>5, <2>2, <2>4
<1>8. flags' \subseteq AllFlags BY DEF WalkInv, locals
<1> QED BY <1>1, <1>3, <1>6, <1>7, <1>8 DEF Prints, locals

LEMMA CurrentFlags ==
  ASSUME WalkInv, pc = "specifier"
  PROVE  /\ "CHAR" \in flags <=> Current.length = "hh"
         /\ "SHORT" \in flags <=> Current.length \in {"h", "hh"}
         /\ "LONG_LONG" \in flags <=> Current.length \in {"ll", "j"}
         /\ "LONG" \in flags <=> Current.length \in {"l", "z", "t", "ll"}
         /\ "LEFT" \in flags <=> Left(Current)
         /\ "PLUS" \in flags <=> "+" \in Current.flags
         /\ "SPACE" \in flags <=> " " \in Current.flags
         /\ "HASH" \in flags <=> "#" \in Current.flags
         /\ "PRECISION" \in flags <=> Current.precision # NoPrecision
<1>1. flags = DirectiveFlags(Current) BY AtSpecifier DEF SpecifierFacts
<1> QED BY <1>1, AtSpecifier, DirectiveFlagsAre

LEMMA SignedPrints ==
  ASSUME WalkInv, FormatSigned PROVE \E s : Prints(s)
<1>1. pc = "specifier" /\ Char(format) \in {"d", "i"} /\ va' = va + 1 /\ UNCHANGED <<call, locals>>
  BY DEF FormatSigned
<1>2. SpecifierFacts(Current) BY <1>1, AtSpecifier
<1>3. Char(format) = Current.spec BY <1>2 DEF SpecifierFacts
<1>4. Current.spec \in IntegerSpecs /\ Current.spec \in ValueSpecs /\ Current.spec # "p"
  BY <1>1, <1>3 DEF IntegerSpecs, ValueSpecs
<1>5. Argument = Current.arg /\ Current.arg \in Int BY <1>2, <1>4 DEF SpecifierFacts
<1>6. PICK n : n = Signed(Argument, Values(flags)) OBVIOUS
<1>7. n = Number(Current) /\ n \in Int
  <2>1. PICK fl : fl = flags OBVIOUS
  <2>2. Signed(Current.arg, Values(fl)) = Number(Current)
    BY <1>1, <1>3, <1>4, <2>1, CurrentFlags, ValuesMeant
  <2>3. Number(Current) \in Int BY <1>5, NumberOf
  <2> QED BY <1>5, <1>6, <2>1, <2>2, <2>3
<1>8. Finish(ntoa_long(IF n > 0 THEN n ELSE 0 - n, n < 0, Base(Current.spec), precision,
                       width, IntegerFlags(Current.spec)))
  BY <1>3, <1>6, Zenon DEF FormatSigned
<1>9. PICK neg \in BOOLEAN : neg = (n < 0)
  <2>1. (n < 0) \in BOOLEAN OBVIOUS
  <2> QED BY <2>1, Zenon
<1>10. PICK abs : abs = (IF n > 0 THEN n ELSE 0 - n) OBVIOUS
<1>11. PICK s : s = ntoa_long(abs, neg, Base(Current.spec), precision, width,
                              IntegerFlags(Current.spec))
  OBVIOUS
<1>12. Finish(s) BY <1>8, <1>9, <1>10, <1>11, Zenon
<1>13. neg <=> n < 0 BY <1>9
<1>14. Prints(s) BY <1>1, <1>4, <1>7, <1>10, <1>11, <1>12, <1>13, NumberPrinted
<1> QED BY <1>14

LEMMA UnsignedPrints ==
  ASSUME WalkInv, FormatUnsigned PROVE \E s : Prints(s)
<1>1. /\ pc = "specifier" /\ Char(format) \in {"u", "x", "X", "o", "b"} /\ va' = va + 1
      /\ UNCHANGED <<call, locals>>
  BY DEF FormatUnsigned
<1>2. SpecifierFacts(Current) BY <1>1, AtSpecifier
<1>3. Char(format) = Current.spec BY <1>2 DEF SpecifierFacts
<1>4. /\ Current.spec \in IntegerSpecs /\ Current.spec \in ValueSpecs /\ Current.spec # "p"
      /\ Current.spec \notin {"d", "i"}
  BY <1>1, <1>3 DEF IntegerSpecs, ValueSpecs
<1>5. Argument = Current.arg /\ Current.arg \in Int BY <1>2, <1>4 DEF SpecifierFacts
<1>6. PICK n : n = Unsigned(Argument, Values(flags)) OBVIOUS
<1>7. n = Number(Current) /\ n \in Nat
  <2>1. PICK fl : fl = flags OBVIOUS
  <2>2. Unsigned(Current.arg, Values(fl)) = Number(Current)
    BY <1>1, <1>4, <2>1, CurrentFlags, ValuesMeant
  <2>3. Number(Current) \in Nat BY <1>4, <1>5, NumberOf
  <2> QED BY <1>5, <1>6, <2>1, <2>2, <2>3
<1>8. Finish(ntoa_long(n, FALSE, Base(Current.spec), precision, width,
                       IntegerFlags(Current.spec)))
  BY <1>3, <1>6, Zenon DEF FormatUnsigned
<1>9. PICK neg \in BOOLEAN : neg = FALSE OBVIOUS
<1>10. PICK s : s = ntoa_long(n, neg, Base(Current.spec), precision, width,
                              IntegerFlags(Current.spec))
  OBVIOUS
<1>11. Finish(s) BY <1>8, <1>9, <1>10, Zenon
<1>12. (neg <=> n < 0) /\ n = (IF n > 0 THEN n ELSE 0 - n) BY <1>7, <1>9
<1>13. Prints(s) BY <1>1, <1>4, <1>7, <1>10, <1>11, <1>12, NumberPrinted
<1> QED BY <1>13

LEMMA PaddedPrints ==
  ASSUME WalkInv, pc = "specifier", Current.spec \in {"c", "s"}, UNCHANGED <<call, locals>>,
         va' = va + 1, NEW s \in Text, Finish(Padded(s)),
         Regular(Current) => s = Content(Current)
  PROVE  Prints(Padded(s))
<1>1. /\ Current.nextArg = va + 1 /\ width = Field(Current) /\ width \in Nat
      /\ width \in 0 .. IntValues - 1 /\ precision \in 0 .. IntValues - 1
  BY AtSpecifier DEF SpecifierFacts, ValueSpecs
<1>2. Padded(s) \in Text BY <1>1, PaddedText
<1>3. ASSUME Regular(Current) PROVE Padded(s) = Meaning(Current)
  <2>1. PICK item : item = Current OBVIOUS
  <2>2. "LEFT" \in flags <=> Left(item) BY <2>1, CurrentFlags
  <2>3. Meaning(item) = Padded(Content(item)) BY <1>1, <2>1, <2>2, PaddedMeant
  <2> QED BY <1>3, <2>1, <2>3
<1>4. flags' \subseteq AllFlags BY DEF WalkInv, locals
<1> QED BY <1>1, <1>2, <1>3, <1>4 DEF Prints, locals

LEMMA CharPrints ==
  ASSUME WalkInv, FormatChar PROVE \E s : Prints(s)
<1>1. /\ pc = "specifier" /\ Char(format) = "c" /\ va' = va + 1 /\ UNCHANGED <<call, locals>>
      /\ Finish(Padded(<<Chars[Unsigned(Argument, CharValues)]>>))
  BY DEF FormatChar
<1>2. Current.spec = "c" /\ Argument = Current.arg /\ Current.arg \in Int
  BY <1>1, AtSpecifier DEF SpecifierFacts, ValueSpecs
<1>3. PICK c : c = Chars[Unsigned(Argument, CharValues)] OBVIOUS
<1>4. c \in Characters
  <2>1. Unsigned(Argument, CharValues) \in 0 .. CharValues - 1
    BY <1>2, Conversions DEF Widths
  <2> QED BY <1>3, <2>1, CharacterAssumption
<1>5. <<c>> \in Text BY <1>4, One
<1>6. <<c>> = Content(Current) BY <1>2, <1>3 DEF Content
<1>7. Prints(Padded(<<c>>)) BY <1>1, <1>2, <1>3, <1>5, <1>6, PaddedPrints
<1> QED BY <1>7

LEMMA StringPrints ==
  ASSUME WalkInv, FormatString PROVE \E s : Prints(s)
<1> DEFINE length == strnlen_s(Strings[Argument], IF precision # 0 THEN precision ELSE SizeMax)
           l == IF "PRECISION" \in flags THEN Min({length, precision}) ELSE length
<1>1. /\ pc = "specifier" /\ Char(format) = "s" /\ va' = va + 1 /\ UNCHANGED <<call, locals>>
      /\ Finish(Padded(SubSeq(Strings[Argument], 1, l)))
  BY DEF FormatString
<1>2. PICK item : item = Current /\ SpecifierFacts(item) BY <1>1, AtSpecifier
<1>3. /\ item.spec = "s" /\ Argument = item.arg /\ item.arg \in DOMAIN Strings
      /\ precision = PrecisionOf(item) /\ precision \in Nat /\ item.precision \in Int
  BY <1>1, <1>2 DEF SpecifierFacts, ValueSpecs
<1>4. PICK p \in Text : p = Strings[item.arg] /\ Len(p) <= SizeMax
  <2>1. Strings[item.arg] \in Seq(Characters \ {NUL}) /\ Len(Strings[item.arg]) <= SizeMax
    BY <1>3, CharacterAssumption
  <2> QED BY <2>1 DEF Text
<1>5. PICK n \in Nat : n = Len(p) /\ n <= SizeMax BY <1>4, Joined
<1>6. SizeMax \in Nat BY WidthAssumption
<1>7. length = IF precision = 0 \/ n <= precision THEN n ELSE precision
  <2>1. PICK m \in Nat : m = (IF precision # 0 THEN precision ELSE SizeMax) BY <1>3, <1>6
  <2>2. length = Min({n, m}) BY <1>3, <1>4, <1>5, <2>1 DEF strnlen_s
  <2>3. Min({n, m}) = IF n <= m THEN n ELSE m BY MinTwo
  <2> HIDE DEF length
  <2> QED BY <1>3, <1>5, <2>1, <2>2, <2>3
<1>8. l \in 0 .. n /\ ("PRECISION" \in flags => l = IF n <= precision THEN n ELSE precision)
      /\ ("PRECISION" \notin flags => l = length)
  <2> HIDE DEF length
  <2>1. length \in Nat BY <1>3, <1>7
  <2>2. Min({length, precision}) = IF length <= precision THEN length ELSE precision
    BY <1>3, <2>1, MinTwo
  <2> QED BY <1>3, <1>7, <2>1, <2>2
<1> HIDE DEF length, l
<1>9. PICK s \in Text : s = SubSeq(p, 1, l) BY <1>5, <1>8, PrefixText
<1>10. ASSUME Regular(item) PROVE s = Content(item)
  <2>1. item.precision >= 0 \/ item.precision = NoPrecision BY <1>10 DEF Regular
  <2>2. "PRECISION" \in flags <=> item.precision # NoPrecision BY <1>1, <1>2, CurrentFlags
  <2>3. NoPrecision < 0 /\ NoPrecision \in Int BY NoPrecisionNegative
  <2>4. PICK m \in Nat : m = IF item.precision >= 0 THEN Min({item.precision, n}) ELSE n
    <3>1. item.precision >= 0 => Min({item.precision, n}) \in Nat BY <1>3, MinTwo
    <3> QED BY <3>1
  <2>5. m = l
    <3>1. CASE item.precision = NoPrecision
      <4>1. m = n /\ precision = 0 /\ "PRECISION" \notin flags
        BY <1>3, <2>2, <2>3, <2>4, <3>1 DEF PrecisionOf
      <4> QED BY <1>7, <1>8, <4>1
    <3>2. CASE item.precision # NoPrecision
      <4>1. item.precision >= 0 /\ "PRECISION" \in flags BY <2>1, <2>2, <3>2
      <4>2. precision = item.precision BY <1>3, <4>1 DEF PrecisionOf
      <4>3. Min({item.precision, n}) = IF item.precision <= n THEN item.precision ELSE n
        BY <1>3, MinTwo
      <4> QED BY <1>3, <1>8, <2>4, <4>1, <4>2, <4>3
    <3> QED BY <3>1, <3>2
  <2>6. Content(item) = SubSeq(p, 1, m)
    <3>1. Content(item) = SubSeq(Strings[item.arg], 1,
            IF item.precision >= 0 THEN Min({item.precision, Len(Strings[item.arg])})
            ELSE Len(Strings[item.arg]))
      BY <1>3 DEF Content
    <3> QED BY <1>4, <1>5, <2>4, <3>1
  <2> QED BY <1>9, <2>5, <2>6
<1>11. Finish(Padded(s)) BY <1>1, <1>3, <1>4, <1>9
<1>12. Current.spec \in {"c", "s"} BY <1>2, <1>3
<1>13. Prints(Padded(s)) BY <1>1, <1>2, <1>10, <1>11, <1>12, PaddedPrints
<1> QED BY <1>13

LEMMA PointerPrints ==
  ASSUME WalkInv, FormatPointer PROVE \E s : Prints(s)
<1>1. /\ pc = "specifier" /\ Char(format) = "p" /\ va' = va + 1
      /\ width' = PointerDigits /\ flags' = flags \cup {"ZEROPAD", "UPPERCASE"}
      /\ UNCHANGED <<call, precision>>
      /\ Finish(ntoa_long(Unsigned(Argument, IntValues), FALSE, 16, precision, width', flags'))
  BY DEF FormatPointer
<1>2. PICK item : item = Current /\ SpecifierFacts(item) BY <1>1, AtSpecifier
<1>3. /\ item.spec = "p" /\ Argument = item.arg /\ item.arg \in Int /\ item.nextArg = va + 1
      /\ precision = PrecisionOf(item) /\ precision \in Nat /\ item.precision \in Int
      /\ precision \in 0 .. IntValues - 1
  BY <1>1, <1>2 DEF SpecifierFacts, ValueSpecs
<1>4. PICK fl : fl = flags \cup {"ZEROPAD", "UPPERCASE"} OBVIOUS
<1>5. PICK n : n = Unsigned(item.arg, IntValues) OBVIOUS
<1>6. PICK neg \in BOOLEAN : neg = FALSE OBVIOUS
<1>7. PICK base \in Bases : base = 16 BY DEF Bases
<1>8. PICK s : s = ntoa_long(n, neg, base, precision, PointerDigits, fl) OBVIOUS
<1>9. Finish(s)
  <2>1. width' = PointerDigits /\ flags' = fl BY <1>1, <1>4
  <2>2. Finish(ntoa_long(n, FALSE, 16, precision, PointerDigits, fl)) BY <1>1, <1>3, <1>5, <2>1
  <2> QED BY <1>6, <1>7, <1>8, <2>2, Zenon
<1>10. PointerDigits \in 0 .. IntValues - 1 /\ PointerDigits \in Nat
  BY WidthAssumption, HalfOfInt
<1>11. s \in Text
  <2>1. IntValues \in Widths /\ IntValues \in Nat BY HalfOfInt DEF Widths
  <2>2. n \in Nat BY <1>3, <1>5, <2>1, Conversions
  <2>3. PICK prec \in Nat, w \in Nat : prec = precision /\ w = PointerDigits BY <1>3, <1>10
  <2>4. ntoa_long(n, neg, base, prec, w, fl) \in Text BY <2>2, NumberIsText
  <2> QED BY <1>8, <2>3, <2>4
<1>12. ASSUME Regular(item) PROVE s = Meaning(item)
  <2>1. /\ item.flags \subseteq {"0"} /\ item.width = 0 /\ item.precision = NoPrecision
    BY <1>3, <1>12 DEF Regular
  <2>2. NoPrecision < 0 /\ NoPrecision \in Int BY NoPrecisionNegative
  <2>3. precision = 0 BY <1>3, <2>1, <2>2 DEF PrecisionOf
  <2>4. ~Left(item) BY <2>1 DEF Left
  <2>5. /\ "LEFT" \notin flags /\ "PLUS" \notin flags /\ "SPACE" \notin flags
        /\ "HASH" \notin flags /\ "PRECISION" \notin flags
    BY <1>1, <1>2, <2>1, <2>4, CurrentFlags
  <2>6. fl \cap {"LEFT", "PLUS", "SPACE", "HASH", "PRECISION"} = {} BY <1>4, <2>5
  <2>7. "ZEROPAD" \in fl /\ "UPPERCASE" \in fl BY <1>4
  <2>8. ~neg BY <1>6
  <2>9. ntoa_long(n, neg, base, 0, PointerDigits, fl) = Meaning(item)
    BY <1>3, <1>5, <1>7, <1>12, <2>6, <2>7, <2>8, PointerPrinted
  <2> QED BY <1>8, <2>3, <2>9
<1>13. flags' \subseteq AllFlags BY <1>1 DEF WalkInv, AllFlags
<1>14. Prints(s) BY <1>1, <1>2, <1>3, <1>9, <1>10, <1>11, <1>12, <1>13 DEF Prints
<1> QED BY <1>14

LEMMA OtherPrints ==
  ASSUME WalkInv, FormatOther PROVE \E s : Prints(s)
<1>1. /\ pc = "specifier" /\ Char(format) \notin ValueSpecs /\ Finish(<<Char(format)>>)
      /\ UNCHANGED <<call, va, locals>>
  BY DEF FormatOther
<1>2. PICK item : item = Current /\ SpecifierFacts(item) BY <1>1, AtSpecifier
<1>3. /\ item.spec \in Characters /\ item.spec \notin ValueSpecs /\ item.spec = Char(format)
      /\ item.nextArg = va
      /\ width \in 0 .. IntValues - 1 /\ precision \in 0 .. IntValues - 1
  BY <1>1, <1>2 DEF SpecifierFacts
<1>4. PICK s \in Text : s = <<item.spec>> BY <1>3, One
<1>5. s = Meaning(item) BY <1>3, <1>4, OtherMeant
<1>6. flags' \subseteq AllFlags BY <1>1 DEF WalkInv, locals
<1>7. Prints(s) BY <1>1, <1>2, <1>3, <1>4, <1>5, <1>6 DEF Prints, locals
<1> QED BY <1>7
-----------------------------------------------------------------------------
(* What has been given out.                                                 *)
LEMMA PartsJoined ==
  ASSUME NEW t \in Text, NEW s \in Text
  PROVE  /\ SubSeq(t \o s, Len(t) + 1, Len(t) + Len(s)) = s
         /\ \A from \in Nat \ {0}, to \in Nat : to <= Len(t) =>
              SubSeq(t \o s, from, to) = SubSeq(t, from, to)
<1>1. PICK m \in Nat, n \in Nat : m = Len(t) /\ n = Len(s) BY Joined
<1>2. PICK u \in Text : u = t \o s /\ Len(u) = m + n BY <1>1, Joined
<1>3. /\ \A k \in 1 .. m : u[k] = t[k]
      /\ \A k \in 1 .. n : u[m + k] = s[k]
  BY <1>1, <1>2 DEF Text
<1>4. SubSeq(u, m + 1, m + n) = s
  <2>1. SubSeq(u, m + 1, m + n) \in Text /\ Len(SubSeq(u, m + 1, m + n)) = n
        /\ \A k \in 1 .. n : SubSeq(u, m + 1, m + n)[k] = u[m + k]
    BY <1>1, <1>2 DEF Text
  <2> QED BY <1>1, <1>3, <2>1, SameText
<1>5. ASSUME NEW from \in Nat \ {0}, NEW to \in Nat, to <= m
      PROVE  SubSeq(u, from, to) = SubSeq(t, from, to)
  <2>1. PICK l \in Nat : l = (IF from <= to THEN to - from + 1 ELSE 0)
    <3>1. CASE from <= to
      <4>1. to - from + 1 \in Nat BY <3>1
      <4> QED BY <3>1, <4>1
    <3>2. CASE ~(from <= to) BY <3>2
    <3> QED BY <3>1, <3>2
  <2>2. SubSeq(u, from, to) \in Text /\ Len(SubSeq(u, from, to)) = l
        /\ \A k \in 1 .. l : SubSeq(u, from, to)[k] = u[from + k - 1]
    BY <1>1, <1>2, <1>5, <2>1 DEF Text
  <2>3. SubSeq(t, from, to) \in Text /\ Len(SubSeq(t, from, to)) = l
        /\ \A k \in 1 .. l : SubSeq(t, from, to)[k] = t[from + k - 1]
    <3>1. t \in Seq(Characters) /\ to <= Len(t) BY <1>1, <1>5 DEF Text
    <3>2. SubSeq(t, from, to) \in Text BY <3>1 DEF Text
    <3>3. Len(SubSeq(t, from, to)) = l BY <2>1, <3>1
    <3>4. \A k \in 1 .. l : SubSeq(t, from, to)[k] = t[from + k - 1] BY <2>1, <3>1
    <3> QED BY <3>2, <3>3, <3>4
  <2>4. \A k \in 1 .. l : from + k - 1 \in 1 .. m BY <1>1, <1>5, <2>1
  <2> QED BY <1>3, <2>2, <2>3, <2>4, SameText
<1> QED BY <1>1, <1>2, <1>4, <1>5

(* What out_buffer makes of a buffer.                                       *)
Extended(buf, at, s, size) ==
  [k \in DOMAIN buf \cup {j \in at .. at + Len(s) - 1 : j < size} |->
     IF k \in at .. at + Len(s) - 1 THEN s[k - at + 1] ELSE buf[k]]

LEMMA StoredGrows ==
  ASSUME NEW t \in Text, NEW s \in Text, NEW size \in Nat, NEW at, at = Len(t),
         NEW buf, buf = Stored(t, size)
  PROVE  Extended(buf, at, s, size) = Stored(t \o s, size)
<1>1. PICK m \in Nat, n \in Nat : m = Len(t) /\ n = Len(s) /\ m = at BY Joined
<1>2. PICK u \in Text : u = t \o s /\ Len(u) = m + n
  <2>1. t \o s \in Text /\ Len(t \o s) = Len(t) + Len(s) BY Joined
  <2> QED BY <1>1, <2>1
<1>3. /\ \A k \in 1 .. m : u[k] = t[k]
      /\ \A k \in 1 .. n : u[m + k] = s[k]
  BY <1>1, <1>2 DEF Text
<1>4. PICK a \in Nat, b \in Nat :
        /\ a = Min({m, size}) /\ b = Min({m + n, size})
        /\ a = (IF m <= size THEN m ELSE size) /\ b = (IF m + n <= size THEN m + n ELSE size)
  <2>1. /\ Min({m, size}) = IF m <= size THEN m ELSE size
        /\ Min({m + n, size}) = IF m + n <= size THEN m + n ELSE size
    BY MinTwo
  <2> QED BY <2>1
<1>5. buf = [k \in 0 .. a - 1 |-> t[k+1]] BY <1>1, <1>4 DEF Stored
<1>6. Stored(u, size) = [k \in 0 .. b - 1 |-> u[k+1]] BY <1>2, <1>4 DEF Stored
<1>7. (0 .. a - 1) \cup {j \in m .. m + n - 1 : j < size} = 0 .. b - 1 BY <1>4
<1>8. ASSUME NEW k \in 0 .. b - 1
      PROVE  (IF k \in m .. m + n - 1 THEN s[k - m + 1] ELSE buf[k]) = u[k+1]
  <2>1. CASE k \in m .. m + n - 1
    <3>1. k - m + 1 \in 1 .. n /\ m + (k - m + 1) = k + 1 BY <2>1
    <3> QED BY <1>3, <2>1, <3>1
  <2>2. CASE k \notin m .. m + n - 1
    <3>1. k \in 0 .. a - 1 /\ k + 1 \in 1 .. m BY <1>4, <2>2
    <3> QED BY <1>3, <1>5, <2>2, <3>1
  <2> QED BY <2>1, <2>2
<1>9. DOMAIN buf = 0 .. a - 1 BY <1>5
<1> QED BY <1>1, <1>2, <1>6, <1>7, <1>8, <1>9 DEF Extended

LEMMA StoredCloses ==
  ASSUME NEW t \in Text, NEW size \in Nat, size <= SizeMax,
         NEW buf, buf = Stored(t, size), NEW at,
         at = (IF Len(t) < size THEN Len(t) ELSE (size + SizeMax) % (SizeMax + 1))
  PROVE  Extended(buf, at, <<NUL>>, size) = Closed(t, size)
<1>1. PICK m \in Nat : m = Len(t) BY Joined
<1>2. PICK a \in Nat, b \in Int :
        /\ a = Min({m, size}) /\ b = Min({m, size - 1})
        /\ a = (IF m <= size THEN m ELSE size) /\ b = (IF m <= size - 1 THEN m ELSE size - 1)
  <2>1. /\ Min({m, size}) = IF m <= size THEN m ELSE size
        /\ Min({m, size - 1}) = IF m <= size - 1 THEN m ELSE size - 1
    BY MinTwo
  <2> QED BY <2>1
<1>3. buf = [k \in 0 .. a - 1 |-> t[k+1]] /\ DOMAIN buf = 0 .. a - 1 BY <1>1, <1>2 DEF Stored
<1>4. Closed(t, size) = [k \in 0 .. b |-> IF k = b THEN NUL ELSE t[k+1]]
  BY <1>1, <1>2 DEF Closed
<1>5. at \in Nat /\ (size > 0 => at = b) /\ (size = 0 => b = -1)
  <2>1. SizeMax \in Nat BY WidthAssumption
  <2>2. CASE m < size BY <1>1, <1>2, <2>2
  <2>3. CASE ~(m < size)
    <3>1. at = (size + SizeMax) % (SizeMax + 1) BY <1>1, <2>3
    <3>2. PICK v \in Nat \ {0} : v = SizeMax + 1 BY <2>1
    <3>3. at \in 0 .. v - 1
      <4>1. PICK x \in Int : x = size + SizeMax BY <2>1
      <4>2. x % v \in 0 .. v - 1 BY Modulo
      <4> QED BY <3>1, <3>2, <4>1, <4>2
    <3>4. ASSUME size > 0 PROVE at = size - 1
      <4>1. PICK r \in Int : r = size - 1 /\ r \in 0 .. v - 1 BY <2>1, <3>2, <3>4
      <4>2. (r + v) % v = r BY <4>1
      <4>3. r + v = size + SizeMax BY <2>1, <3>2, <4>1
      <4> QED BY <3>1, <3>2, <4>1, <4>2, <4>3
    <3> QED BY <1>2, <2>3, <3>2, <3>3, <3>4
  <2> QED BY <2>2, <2>3
<1>6. at .. at + Len(<<NUL>>) - 1 = {at} BY <1>5
<1>7. (0 .. a - 1) \cup {j \in {at} : j < size} = 0 .. b
  <2>1. CASE size = 0 BY <1>2, <1>5, <2>1
  <2>2. CASE size > 0 BY <1>2, <1>5, <2>2
  <2> QED BY <2>1, <2>2
<1>8. ASSUME NEW k \in 0 .. b
      PROVE  (IF k \in {at} THEN <<NUL>>[k - at + 1] ELSE buf[k])
               = (IF k = b THEN NUL ELSE t[k+1])
  <2>1. size > 0 /\ at = b BY <1>5, <1>8
  <2>2. CASE k = b
    <3>1. k - at + 1 = 1 BY <1>5, <2>1, <2>2
    <3> QED BY <2>1, <2>2, <3>1
  <2>3. CASE k # b
    <3>1. k \in 0 .. a - 1 BY <1>2, <2>3
    <3> QED BY <1>3, <2>1, <2>3, <3>1
  <2> QED BY <2>2, <2>3
<1>9. [k \in 0 .. b |-> IF k \in {at} THEN <<NUL>>[k - at + 1] ELSE buf[k]]
        = [k \in 0 .. b |-> IF k = b THEN NUL ELSE t[k+1]]
  BY <1>8
<1>10. DOMAIN buf \cup {j \in at .. at + Len(<<NUL>>) - 1 : j < size} = 0 .. b
  BY <1>3, <1>6, <1>7
<1> QED BY <1>4, <1>6, <1>9, <1>10, Zenon DEF Extended

LEMMA SinkStays ==
  ASSUME call' = call PROVE sink' = sink /\ maxlen' = maxlen
BY DEF sink, maxlen

LEMMA OutputStarts ==
  ASSUME Init PROVE OutputInv /\ FieldInv
<1>1. /\ call \in Calls /\ pc = "text" /\ idx = 0
      /\ screen = <<>> /\ buffer = <<>> /\ text = <<>> /\ fields = <<>>
  BY DEF Init
<1>2. text \in Text /\ Len(text) = 0 BY <1>1, Nothing
<1>3. screen = Shown(text) BY <1>1, ShownOf
<1>4. buffer = Stored(text, maxlen)
  <2>1. maxlen \in Nat BY <1>1, CallFacts
  <2>2. Min({0, maxlen}) = 0 BY <2>1, MinTwo
  <2>3. 0 .. 0 - 1 = {} OBVIOUS
  <2>4. Stored(text, maxlen) = [k \in {} |-> text[k+1]] BY <1>2, <2>2, <2>3 DEF Stored
  <2>5. [k \in {} |-> text[k+1]] = <<>> OBVIOUS
  <2> QED BY <1>1, <2>4, <2>5
<1>5. OutputInv BY <1>1, <1>2, <1>3, <1>4 DEF OutputInv
<1>6. FieldInv
  <2>1. Len(fields) = 0 /\ DOMAIN fields = {} /\ fields \in Seq([from : Nat \ {0}, to : Nat])
    BY <1>1
  <2>2. 1 .. 0 = {} OBVIOUS
  <2> QED BY <2>1, <2>2 DEF FieldInv, FieldsAsMeant
<1> QED BY <1>5, <1>6

LEMMA OutputGrows ==
  ASSUME call \in Calls, OutputInv, pc # "done", pc' # "done", call' = call,
         NEW s \in Text, Out(s)
  PROVE  OutputInv'
<1>1. Give(s, idx) /\ idx' = idx + Len(s) /\ text' = text \o s BY DEF Out
<1>2. text \in Text /\ idx = Len(text) BY DEF OutputInv
<1>3. text' \in Text /\ idx' = Len(text') BY <1>1, <1>2, Joined
<1>4. sink' = sink /\ maxlen' = maxlen BY SinkStays
<1>5. maxlen \in Nat BY CallFacts
<1>6. CASE sink = "screen"
  <2>1. screen' = screen \o Shown(s) /\ buffer' = buffer BY <1>1, <1>6 DEF Give, out_char
  <2>2. screen = Shown(text) /\ buffer = <<>> BY <1>6 DEF OutputInv
  <2>3. Shown(text \o s) = Shown(text) \o Shown(s) BY <1>2, ShownAppends
  <2>4. screen' = Shown(text') BY <1>1, <2>1, <2>2, <2>3
  <2> QED BY <1>3, <1>4, <1>6, <2>1, <2>2, <2>4 DEF OutputInv
<1>7. CASE sink = "buffer"
  <2>1. out_buffer(s, idx) BY <1>1, <1>7 DEF Give
  <2>2. buffer = Stored(text, maxlen) BY <1>7 DEF OutputInv
  <2>3. PICK buf \in {buffer}, t \in Text, at \in {idx}, size \in Nat :
          buf = buffer /\ t = text /\ at = idx /\ size = maxlen
    BY <1>2, <1>5
  <2>4. buffer' = Extended(buf, at, s, size) BY <2>1, <2>3 DEF out_buffer, Extended
  <2>5. buf = Stored(t, size) /\ at = Len(t) BY <1>2, <2>2, <2>3
  <2>6. buffer' = Stored(t \o s, size) BY <2>4, <2>5, StoredGrows
  <2>7. buffer' = Stored(text', maxlen) BY <1>1, <2>3, <2>6
  <2> QED BY <1>3, <1>4, <1>7, <2>7 DEF OutputInv
<1>8. CASE sink = "null"
  <2>1. buffer' = buffer /\ buffer = <<>> BY <1>1, <1>8 DEF Give, OutputInv
  <2> QED BY <1>3, <1>4, <1>8, <2>1 DEF OutputInv
<1>9. sink = "screen" \/ sink = "buffer" \/ sink = "null" BY DEF sink
<1> QED BY <1>6, <1>7, <1>8, <1>9

LEMMA OutputCloses ==
  ASSUME WalkInv, OutputInv, Terminate PROVE OutputInv'
<1>1. /\ pc = "text" /\ pc' = "done" /\ Give(<<NUL>>, TerminatorAt)
      /\ UNCHANGED <<call, idx, text>>
  BY DEF Terminate
<1>2. call \in Calls BY DEF WalkInv
<1>3. sink' = sink /\ maxlen' = maxlen BY <1>1, SinkStays
<1>4. maxlen \in Nat /\ maxlen <= SizeMax BY <1>2, CallFacts
<1>5. text \in Text /\ idx = Len(text) /\ text' = text /\ idx' = idx BY <1>1 DEF OutputInv
<1>6. CASE sink = "screen"
  <2>1. screen' = screen \o Shown(<<NUL>>) /\ buffer' = buffer BY <1>1, <1>6 DEF Give, out_char
  <2>2. screen = Shown(text) /\ buffer = <<>> BY <1>6 DEF OutputInv
  <2>3. Shown(<<NUL>>) = <<>> BY Letters, ShownOf
  <2>4. Shown(text) \in Text BY <1>5, ShownAppends
  <2>5. screen' = screen
    <3>1. PICK t \in Text : t = Shown(text) BY <2>4
    <3>2. t \o <<>> = t BY Joined
    <3> QED BY <2>1, <2>2, <2>3, <3>1, <3>2
  <2> QED BY <1>3, <1>5, <1>6, <2>1, <2>2, <2>5 DEF OutputInv
<1>7. CASE sink = "buffer"
  <2>1. out_buffer(<<NUL>>, TerminatorAt) BY <1>1, <1>7 DEF Give
  <2>2. buffer = Stored(text, maxlen) BY <1>1, <1>7 DEF OutputInv
  <2>3. PICK buf \in {buffer}, t \in Text, at \in {TerminatorAt}, size \in Nat :
          buf = buffer /\ t = text /\ at = TerminatorAt /\ size = maxlen
    BY <1>4, <1>5
  <2>4. buffer' = Extended(buf, at, <<NUL>>, size) BY <2>1, <2>3 DEF out_buffer, Extended
  <2>5. buf = Stored(t, size) /\ size <= SizeMax BY <1>4, <2>2, <2>3
  <2>6. at = (IF Len(t) < size THEN Len(t) ELSE (size + SizeMax) % (SizeMax + 1))
    BY <1>5, <2>3 DEF TerminatorAt
  <2>7. buffer' = Closed(t, size) BY <2>4, <2>5, <2>6, StoredCloses
  <2> QED BY <1>1, <1>3, <1>5, <1>7, <2>3, <2>7 DEF OutputInv
<1>8. CASE sink = "null"
  <2>1. buffer' = buffer /\ buffer = <<>> BY <1>1, <1>8 DEF Give, OutputInv
  <2> QED BY <1>3, <1>5, <1>8, <2>1 DEF OutputInv
<1>9. sink = "screen" \/ sink = "buffer" \/ sink = "null" BY DEF sink
<1> QED BY <1>6, <1>7, <1>8, <1>9

(* A step that gives nothing out, and one that gives out a literal.         *)
LEMMA OutputStays ==
  ASSUME OutputInv, FieldInv, pc # "done", pc' # "done", UNCHANGED <<call, output, fields>>
  PROVE  OutputInv' /\ FieldInv'
<1>1. sink' = sink /\ maxlen' = maxlen BY SinkStays
<1>2. UNCHANGED <<idx, screen, buffer, text>> BY DEF output
<1>3. OutputInv' BY <1>1, <1>2 DEF OutputInv
<1>4. FieldInv' BY <1>2 DEF FieldInv, FieldsAsMeant
<1> QED BY <1>3, <1>4

LEMMA FieldsStay ==
  ASSUME FieldInv, NEW t \in Text, text = t, NEW s \in Text, text' = t \o s,
         UNCHANGED <<call, fields>>
  PROVE  FieldInv'
<1>1. Len(t) \in Nat /\ Len(t \o s) = Len(t) + Len(s) /\ Len(s) \in Nat BY Joined
<1>2. /\ fields \in Seq([from : Nat \ {0}, to : Nat])
      /\ \A k \in 1 .. Len(fields) : fields[k].to <= Len(t)
      /\ FieldsAsMeant
  BY DEF FieldInv
<1>3. DOMAIN fields = 1 .. Len(fields) BY <1>2
<1>4. ASSUME NEW k \in 1 .. Len(fields)
      PROVE  /\ fields[k].to <= Len(text')
             /\ SubSeq(text', fields[k].from, fields[k].to) = SubSeq(t, fields[k].from, fields[k].to)
  <2>1. fields[k] \in [from : Nat \ {0}, to : Nat]
    <3>1. PICK S : S = [from : Nat \ {0}, to : Nat] OBVIOUS
    <3>2. fields \in Seq(S) BY <1>2, <3>1
    <3>3. fields[k] \in S BY <3>2
    <3> QED BY <3>1, <3>3
  <2>2. PICK from \in Nat \ {0}, to \in Nat : from = fields[k].from /\ to = fields[k].to
    BY <2>1
  <2>3. to <= Len(t) BY <1>2, <2>2
  <2>4. SubSeq(t \o s, from, to) = SubSeq(t, from, to) BY <2>3, PartsJoined
  <2>5. to <= Len(t \o s) BY <1>1, <2>3
  <2> QED BY <2>2, <2>4, <2>5
<1>5. FieldsAsMeant'
  <2>1. ASSUME NEW k \in DOMAIN fields, Regular(call.items[k])
        PROVE  SubSeq(text', fields[k].from, fields[k].to) = Meaning(call.items[k])
    BY <1>2, <1>3, <1>4, <2>1 DEF FieldsAsMeant
  <2> QED BY <2>1 DEF FieldsAsMeant
<1> QED BY <1>2, <1>4, <1>5 DEF FieldInv

LEMMA FieldsGrow ==
  ASSUME WalkInv, OutputInv, FieldInv, NEW s, Prints(s)
  PROVE  FieldInv' /\ Printed' = Printed + 1
<1>1. /\ s \in Text /\ text' = text \o s /\ call' = call /\ pc = "specifier"
      /\ fields' = Append(fields, [from |-> idx + 1, to |-> idx + Len(s)])
      /\ Regular(Current) => s = Meaning(Current)
  BY DEF Prints, Finish, Out
<1>2. text \in Text /\ idx = Len(text) BY DEF OutputInv
<1>3. PICK m \in Nat, n \in Nat : m = idx /\ n = Len(s) /\ m = Len(text)
  BY <1>1, <1>2, Joined
<1>4. Len(text') = m + n
  <2>1. Len(text \o s) = Len(text) + Len(s) BY <1>1, <1>2, Joined
  <2> QED BY <1>1, <1>3, <2>1
<1>5. PICK S, new : /\ S = [from : Nat \ {0}, to : Nat] /\ new \in S
                    /\ new = [from |-> m + 1, to |-> m + n]
  <2>1. [from |-> m + 1, to |-> m + n] \in [from : Nat \ {0}, to : Nat] OBVIOUS
  <2> QED BY <2>1
<1>6. /\ fields \in Seq(S) /\ fields' = Append(fields, new) /\ new \in S
      /\ \A k \in 1 .. Len(fields) : fields[k].to <= Len(text)
      /\ FieldsAsMeant
  BY <1>1, <1>3, <1>5 DEF FieldInv
<1>7. PICK p \in Nat : p = Len(fields) /\ p = Printed BY <1>6 DEF Printed
<1>8. /\ fields' \in Seq(S) /\ Len(fields') = p + 1 /\ fields'[p+1] = new
      /\ DOMAIN fields' = 1 .. p + 1 /\ DOMAIN fields = 1 .. p
      /\ \A k \in 1 .. p : fields'[k] = fields[k] /\ fields[k] \in S
  <2>1. fields \in Seq(S) /\ Len(fields) = p /\ new \in S /\ fields' = Append(fields, new)
    BY <1>6, <1>7
  <2>2. /\ Append(fields, new) \in Seq(S) /\ Len(Append(fields, new)) = p + 1
        /\ Append(fields, new)[p+1] = new
        /\ \A k \in 1 .. p : Append(fields, new)[k] = fields[k] /\ fields[k] \in S
    BY <2>1
  <2>3. DOMAIN fields = 1 .. p /\ DOMAIN Append(fields, new) = 1 .. p + 1 BY <2>1, <2>2
  <2> QED BY <2>1, <2>2, <2>3
<1>9. ASSUME NEW k \in 1 .. p
      PROVE  /\ fields[k].to <= m + n
             /\ SubSeq(text', fields[k].from, fields[k].to)
                  = SubSeq(text, fields[k].from, fields[k].to)
  <2>1. fields[k] \in S BY <1>8
  <2>2. PICK from \in Nat \ {0}, to \in Nat : from = fields[k].from /\ to = fields[k].to
    BY <1>5, <2>1
  <2>3. to <= m BY <1>3, <1>6, <1>7, <2>2
  <2>4. PICK t \in Text : t = text BY <1>2
  <2>5. SubSeq(t \o s, from, to) = SubSeq(t, from, to) BY <1>1, <1>3, <2>3, <2>4, PartsJoined
  <2>6. to <= m + n BY <2>3
  <2> QED BY <1>1, <2>2, <2>4, <2>5, <2>6
<1>10. SubSeq(text', new.from, new.to) = s
  <2>1. SubSeq(text \o s, Len(text) + 1, Len(text) + Len(s)) = s BY <1>1, <1>2, PartsJoined
  <2> QED BY <1>1, <1>3, <1>5, <2>1
<1>11. FieldsAsMeant'
  <2>1. ASSUME NEW k \in 1 .. p + 1, Regular(call.items[k])
        PROVE  SubSeq(text', fields'[k].from, fields'[k].to) = Meaning(call.items[k])
    <3>1. CASE k \in 1 .. p
      <4>1. SubSeq(text, fields[k].from, fields[k].to) = Meaning(call.items[k])
        BY <1>6, <1>8, <2>1, <3>1 DEF FieldsAsMeant
      <4> QED BY <1>8, <1>9, <3>1, <4>1
    <3>2. CASE k = p + 1
      <4>1. call.items[k] = Current BY <1>7, <3>2 DEF Current
      <4> QED BY <1>1, <1>8, <1>10, <2>1, <3>2, <4>1
    <3> QED BY <3>1, <3>2
  <2> QED BY <1>1, <1>8, <2>1 DEF FieldsAsMeant
<1>12. ASSUME NEW k \in 1 .. p + 1 PROVE fields'[k].to <= Len(text')
  <2>1. CASE k \in 1 .. p BY <1>4, <1>8, <1>9, <2>1
  <2>2. CASE k = p + 1 BY <1>4, <1>5, <1>8, <2>2
  <2> QED BY <2>1, <2>2
<1>13. FieldInv' BY <1>5, <1>8, <1>11, <1>12 DEF FieldInv
<1> QED BY <1>7, <1>8, <1>13 DEF Printed
-----------------------------------------------------------------------------
IInv == WalkInv /\ OutputInv /\ FieldInv

LEMMA PrintsKeeps ==
  ASSUME IInv, NEW s, Prints(s) PROVE IInv'
<1>1. WalkInv /\ OutputInv /\ FieldInv BY DEF IInv
<1>2. FieldInv' /\ Printed' = Printed + 1 BY <1>1, FieldsGrow
<1>3. /\ s \in Text /\ Out(s) /\ pc = "specifier" /\ pc' = "text" /\ format' = format + 1
      /\ call' = call /\ va' = Current.nextArg /\ flags' \subseteq AllFlags
      /\ width' \in 0 .. IntValues - 1 /\ precision' \in 0 .. IntValues - 1
  BY DEF Prints, Finish
<1>4. WalkInv' BY <1>1, <1>2, <1>3, WalkToText
<1>5. call \in Calls BY <1>1 DEF WalkInv
<1>6. OutputInv' BY <1>1, <1>3, <1>5, OutputGrows
<1> QED BY <1>2, <1>4, <1>6 DEF IInv

LEMMA LiteralKeeps ==
  ASSUME IInv, Literal PROVE IInv'
<1>1. WalkInv /\ OutputInv /\ FieldInv BY DEF IInv
<1>2. WalkInv' BY <1>1, WalkLiteral
<1>3. /\ pc = "text" /\ pc' = pc /\ Char(format) # NUL /\ Out(<<Char(format)>>)
      /\ UNCHANGED <<call, fields>>
  BY DEF Literal
<1>4. call \in Calls /\ BetweenDirectives BY <1>1, <1>3 DEF WalkInv
<1>5. Char(format) \in Characters
  <2>1. format \in 1 .. Len(call.format) + 1 /\ Len(call.format) \in Nat
    BY <1>4, CallFacts DEF BetweenDirectives
  <2>2. format \in Nat /\ format \in 1 .. Len(call.format)
    BY <1>3, <1>4, <2>1, CharAt
  <2> QED BY <1>4, <2>2, CharAt
<1>6. PICK s \in Text : s = <<Char(format)>> BY <1>5, One
<1>7. Out(s) BY <1>3, <1>6
<1>8. OutputInv' BY <1>1, <1>3, <1>4, <1>7, OutputGrows
<1>9. FieldInv'
  <2>1. PICK t \in Text : t = text BY <1>1 DEF OutputInv
  <2>2. text' = t \o s BY <1>7, <2>1 DEF Out
  <2> QED BY <1>1, <1>3, <2>1, <2>2, FieldsStay
<1> QED BY <1>2, <1>8, <1>9 DEF IInv

LEMMA TerminateKeeps ==
  ASSUME IInv, Terminate PROVE IInv'
<1>1. WalkInv /\ OutputInv /\ FieldInv BY DEF IInv
<1>2. WalkInv' /\ OutputInv' BY <1>1, WalkTerminate, OutputCloses
<1>3. UNCHANGED <<call, text, fields>> BY DEF Terminate
<1>4. FieldInv' BY <1>1, <1>3 DEF FieldInv, FieldsAsMeant
<1> QED BY <1>2, <1>4 DEF IInv

(* The steps that only read the format.                                     *)
Reads ==
  \/ Percent \/ Flag \/ WidthNone \/ WidthDigits \/ WidthStar
  \/ PrecisionNone \/ PrecisionDigits \/ PrecisionStar \/ Length

LEMMA ReadsKeep ==
  ASSUME IInv, Reads PROVE IInv'
<1>1. WalkInv /\ OutputInv /\ FieldInv BY DEF IInv
<1>2. WalkInv'
  BY <1>1, WalkPercent, WalkFlag, WalkWidthNone, WalkWidthDigits, WalkWidthStar,
     WalkPrecisionNone, WalkPrecisionDigits, WalkPrecisionStar, WalkLength DEF Reads
<1>3. pc # "done" /\ pc' # "done" /\ UNCHANGED <<call, output, fields>>
  BY DEF Reads, Percent, Flag, WidthNone, WidthDigits, WidthStar, PrecisionNone,
         PrecisionDigits, PrecisionStar, Length
<1>4. OutputInv' /\ FieldInv' BY <1>1, <1>3, OutputStays
<1> QED BY <1>2, <1>4 DEF IInv

LEMMA StutterKeeps ==
  ASSUME IInv, UNCHANGED vars PROVE IInv'
<1>1. UNCHANGED <<call, pc, format, va, flags, width, precision, idx, screen, buffer, text, fields>>
  BY DEF vars, locals, output
<1>2. Printed' = Printed /\ Current' = Current BY <1>1 DEF Printed, Current
<1>3. WalkInv'
  BY <1>1, <1>2 DEF IInv, WalkInv, BetweenDirectives, ReadingFlags, ReadingPrecision,
                    ReadingLength, ReadingSpecifier
<1>4. sink' = sink /\ maxlen' = maxlen BY <1>1, SinkStays
<1>5. OutputInv' BY <1>1, <1>4 DEF IInv, OutputInv
<1>6. FieldInv' BY <1>1 DEF IInv, FieldInv, FieldsAsMeant
<1> QED BY <1>3, <1>5, <1>6 DEF IInv

LEMMA InvariantStarts == Init => IInv
BY WalkStarts, OutputStarts DEF IInv

LEMMA InvariantKept == IInv /\ [Next]_vars => IInv'
<1> SUFFICES ASSUME IInv, [Next]_vars PROVE IInv'
  OBVIOUS
<1>1. WalkInv BY DEF IInv
<1>2. CASE Reads BY <1>2, ReadsKeep
<1>3. CASE Literal BY <1>3, LiteralKeeps
<1>4. CASE \E s : Prints(s) BY <1>4, PrintsKeeps
<1>5. CASE Terminate BY <1>5, TerminateKeeps
<1>6. CASE UNCHANGED vars BY <1>6, StutterKeeps
<1>7. FormatSigned \/ FormatUnsigned \/ FormatChar \/ FormatString \/ FormatPointer
        \/ FormatOther => \E s : Prints(s)
  BY <1>1, SignedPrints, UnsignedPrints, CharPrints, StringPrints, PointerPrints, OtherPrints
<1> QED BY <1>2, <1>3, <1>4, <1>5, <1>6, <1>7 DEF Next, Reads

LEMMA AlwaysInv == Spec => []IInv
BY InvariantStarts, InvariantKept, PTL DEF Spec

LEMMA BufferBounded ==
  ASSUME WalkInv, OutputInv PROVE DOMAIN buffer \subseteq 0 .. maxlen - 1
<1>1. maxlen \in Nat BY CallFacts DEF WalkInv
<1>2. PICK m \in Nat : m = Len(text)
  <2>1. text \in Text BY DEF OutputInv
  <2> QED BY <2>1, Joined
<1>3. CASE sink # "buffer"
  <2>1. buffer = <<>> BY <1>3 DEF OutputInv
  <2> QED BY <2>1
<1>4. CASE sink = "buffer" /\ pc # "done"
  <2>1. Min({m, maxlen}) = IF m <= maxlen THEN m ELSE maxlen BY <1>1, MinTwo
  <2>2. PICK a \in Int : a = Min({m, maxlen}) /\ a <= maxlen BY <1>1, <2>1
  <2>3. DOMAIN buffer = 0 .. a - 1 BY <1>2, <1>4, <2>2 DEF OutputInv, Stored
  <2> QED BY <1>1, <2>2, <2>3
<1>5. CASE sink = "buffer" /\ pc = "done"
  <2>1. Min({m, maxlen - 1}) = IF m <= maxlen - 1 THEN m ELSE maxlen - 1 BY <1>1, MinTwo
  <2>2. PICK a \in Int : a = Min({m, maxlen - 1}) /\ a <= maxlen - 1 BY <1>1, <2>1
  <2>3. DOMAIN buffer = 0 .. a BY <1>2, <1>5, <2>2 DEF OutputInv, Closed
  <2> QED BY <1>1, <2>2, <2>3
<1> QED BY <1>3, <1>4, <1>5

LEMMA PlacesTyped ==
  ASSUME WalkInv
  PROVE  format \in 1 .. Len(call.format) + 1 /\ va \in 1 .. Len(call.args) + 1
<1>1. /\ call \in Calls /\ Len(call.format) \in Nat /\ Len(call.args) \in Nat
      /\ Len(call.items) \in Nat /\ Printed \in 0 .. Len(call.items)
  BY CallFacts DEF WalkInv
<1>2. CASE pc \in {"text", "done"}
  <2>1. BetweenDirectives BY <1>2 DEF WalkInv
  <2>2. va \in 1 .. Len(call.args) + 1
    <3>1. CASE Printed = 0 BY <1>1, <2>1, <3>1 DEF BetweenDirectives
    <3>2. CASE Printed # 0
      <4>1. Printed \in 1 .. Len(call.items) BY <1>1, <3>2
      <4>2. call.items[Printed].nextArg \in 1 .. Len(call.args) + 1 BY <1>1, <4>1, PlacesOf
      <4> QED BY <2>1, <3>2, <4>2 DEF BetweenDirectives
    <3> QED BY <3>1, <3>2
  <2> QED BY <2>1, <2>2 DEF BetweenDirectives
<1>3. CASE pc \notin {"text", "done"}
  <2>1. PICK item : item = Current OBVIOUS
  <2>2. Printed < Len(call.items) BY <1>3 DEF WalkInv
  <2>3. Printed + 1 \in 1 .. Len(call.items) /\ item = call.items[Printed + 1]
    BY <2>1, <2>2, CurrentIs
  <2>4. /\ item.at \in 1 .. Len(call.format) /\ item.widthAt \in 1 .. Len(call.format)
        /\ item.precisionAt \in 1 .. Len(call.format)
        /\ item.lengthAt \in 1 .. Len(call.format) /\ item.specAt \in 1 .. Len(call.format)
        /\ item.widthArg \in 1 .. Len(call.args) + 1
        /\ item.precisionArg \in 1 .. Len(call.args) + 1
        /\ item.valueArg \in 1 .. Len(call.args) + 1
    BY <1>1, <2>3, PlacesOf
  <2>5. /\ format \in {item.precisionAt, item.lengthAt, item.specAt}
           \/ format \in item.at + 1 .. item.widthAt
        /\ va \in {item.widthArg, item.precisionArg, item.valueArg}
    <3>1. pc \in {"flags", "precision", "length", "specifier"} BY <1>3 DEF WalkInv, Phases
    <3> QED BY <2>1, <3>1 DEF WalkInv, ReadingFlags, ReadingPrecision, ReadingLength,
                              ReadingSpecifier
  <2>6. format \in 1 .. Len(call.format) + 1
    <3>1. PICK n \in Nat, p \in Int, q \in Int :
            n = Len(call.format) /\ p = item.at /\ q = item.widthAt
      BY <1>1, <2>4
    <3>2. p \in 1 .. n /\ q \in 1 .. n BY <2>4, <3>1
    <3>3. p + 1 .. q \subseteq 1 .. n + 1 /\ 1 .. n \subseteq 1 .. n + 1 BY <3>2
    <3> QED BY <2>4, <2>5, <3>1, <3>3
  <2>7. va \in 1 .. Len(call.args) + 1 BY <2>4, <2>5
  <2> QED BY <2>6, <2>7
<1> QED BY <1>2, <1>3

LEMMA InvImplies == IInv => TypeOK /\ OutputIsText /\ FieldsAsMeant
<1> SUFFICES ASSUME IInv PROVE TypeOK /\ OutputIsText /\ FieldsAsMeant
  OBVIOUS
<1>1. WalkInv /\ OutputInv /\ FieldInv BY DEF IInv
<1>2. DOMAIN buffer \subseteq 0 .. maxlen - 1 BY <1>1, BufferBounded
<1>3. TypeOK BY <1>1, <1>2, PlacesTyped DEF TypeOK, WalkInv, OutputInv
<1>4. OutputIsText BY <1>1, <1>2 DEF OutputIsText, OutputInv, Closed
<1>5. FieldsAsMeant BY <1>1 DEF FieldInv
<1> QED BY <1>3, <1>4, <1>5

(* The walk over the format stays inside it and takes an argument only when *)
(* there is one, width and precision are unsigned ints, and no sink stores  *)
(* at or beyond maxlen: for every well written call of an entry point, and  *)
(* whatever the widths of the types.                                        *)
THEOREM TypeCorrect == Spec => []TypeOK
BY AlwaysInv, InvImplies, PTL

(* What the console shows is the text that was formatted, and a buffer that *)
(* snprintf_ and its like return holds as much of it as leaves room for the *)
(* NUL, however long the text: nothing is lost, doubled or moved.           *)
THEOREM OutputIsTheText == Spec => []OutputIsText
BY AlwaysInv, InvImplies, PTL

(* Every regular directive prints what it means, whatever stands before it: *)
(* _vsnprintf gives it the flags, the width, the precision, the length and  *)
(* the argument that are its own, and _ntoa_format, which works on reversed *)
(* digits, brings out the numeral, the sign, the prefix and the padding in  *)
(* their order, at their length and on their side.                          *)
THEOREM DirectivesPrintMeaning == Spec => []FieldsAsMeant
BY AlwaysInv, InvImplies, PTL
=============================================================================
