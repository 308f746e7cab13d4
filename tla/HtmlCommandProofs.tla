-------------------------- MODULE HtmlCommandProofs --------------------------
(***************************************************************************)
(* The commands of the web pages are taken as they were typed, for every   *)
(* timing in whole numbers, every network within the arrays and every      *)
(* pairing code, every cut of a body and every number of requests.  The    *)
(* proof has two halves: what the functions on text compute (a number      *)
(* survives its way through decimal text, colons and an array that holds   *)
(* older bytes), by induction on numbers, and an inductive invariant about *)
(* the arrays and the messages that says when the text in the array is     *)
(* the text that was sent.                                                 *)
(***************************************************************************)
EXTENDS HtmlCommand, SequenceTheorems, WellFoundedInduction, TLAPS

------------------------------------------------------------------------------
(***************************************************************************)
(* Induction and recursion on natural numbers.  The induction theorems of the*)
(* library take an operator as a parameter; here a set stands for it.      *)
(***************************************************************************)

\* Every set of natural numbers that is not empty has a least element.
LEMMA LeastNatural ==
  ASSUME NEW T \in SUBSET Nat, T # {}
  PROVE  \E m \in T : \A k \in T : m <= k
<1> DEFINE Less == {ss \in Nat \X Nat : ss[1] < ss[2]}
<1>1. IsWellFoundedOn(Less, Nat)
  BY NatLessThanWellFounded, Zenon DEF OpToRel
<1>2. \E x \in T : \A y \in T : ~ (<<y, x>> \in Less)
  <2> HIDE DEF Less
  <2> QED BY <1>1, WFMin
<1>3. PICK m \in T : \A k \in T : ~ (<<k, m>> \in Less)
  BY <1>2
<1>4. ASSUME NEW k \in T PROVE m <= k
  <2>1. ~ (<<k, m>> \in Less) /\ k \in Nat /\ m \in Nat
    BY <1>3
  <2> QED BY <2>1
<1> QED BY <1>4

\* Induction, for a set instead of an operator: a set of natural numbers that
\* holds every number whose predecessors it holds is the whole of them.
LEMMA InductionOnSet ==
  ASSUME NEW T \in SUBSET Nat,
         \A n \in Nat : (\A k \in 0..(n - 1) : k \in T) => n \in T
  PROVE  T = Nat
<1> SUFFICES ASSUME T # Nat PROVE FALSE
  OBVIOUS
<1> DEFINE U == Nat \ T
<1>1. PICK m \in U : \A k \in U : m <= k
  BY LeastNatural
<1>2. \A k \in 0..(m - 1) : k \in T
  BY <1>1
<1> QED BY <1>1, <1>2

\* A recursive definition: base gives the values on Base, step the others from
\* the value at before.
Recursion(S, Base, base, before, step) ==
  /\ Base \in SUBSET Nat /\ base \in [Nat -> S]
  /\ before \in [Nat -> Nat] /\ \A k \in Nat \ Base : before[k] < k
  /\ step \in [Nat -> [S -> S]]

\* A function that obeys it.
Solution(f, S, Base, base, before, step) ==
  /\ f \in [Nat -> S]
  /\ \A k \in Nat : f[k] = IF k \in Base THEN base[k] ELSE step[k][f[before[k]]]

\* A recursive definition whose calls go to smaller numbers has a function that
\* obeys it, which a CHOOSE, the meaning of such a definition, then finds.
LEMMA RecursionHasSolution ==
  ASSUME NEW S, NEW Base, NEW base, NEW before, NEW step,
         Recursion(S, Base, base, before, step)
  PROVE  \E f : Solution(f, S, Base, base, before, step)
<1> USE DEF Recursion
<1> DEFINE Obeys(g, n) ==
      \A k \in 0..n : g[k] = IF k \in Base THEN base[k] ELSE step[k][g[before[k]]]
<1> DEFINE Partial(n) == CHOOSE g \in [0..n -> S] : Obeys(g, n)
<1> DEFINE T == {n \in Nat : \E g \in [0..n -> S] : Obeys(g, n)}
<1>1. ASSUME NEW n \in Nat, \A j \in 0..(n - 1) : j \in T PROVE n \in T
  <2>1. \E h \in [0..(n - 1) -> S] : Obeys(h, n - 1)
    <3>1. CASE n = 0
      <4>1. [k \in 0..(n - 1) |-> base[0]] \in [0..(n - 1) -> S] /\ 0..(n-1) = {}
        BY <3>1
      <4> QED BY <4>1
    <3>2. CASE n # 0
      <4>1. n - 1 \in 0..(n - 1)
        BY <3>2
      <4>2. n - 1 \in T
        <5> HIDE DEF T
        <5> QED BY <1>1, <4>1
      <4> QED BY <4>2
    <3> QED BY <3>1, <3>2
  <2>2. PICK h \in [0..(n - 1) -> S] : Obeys(h, n - 1)
    BY <2>1
  <2> DEFINE last_one == IF n \in Base THEN base[n] ELSE step[n][h[before[n]]]
             g == [k \in 0..n |-> IF k = n THEN last_one ELSE h[k]]
  <2>3. n \notin Base => before[n] \in 0..(n - 1)
    OBVIOUS
  <2>4. g \in [0..n -> S]
    BY <2>3
  <2>5. ASSUME NEW k \in 0..n PROVE g[k] = IF k \in Base THEN base[k] ELSE step[k][g[before[k]]]
    <3>1. k \notin Base => before[k] \in Nat /\ before[k] < k
      OBVIOUS
    <3>2. CASE k = n
      BY <3>1, <3>2
    <3>3. CASE k # n
      <4>1. k \in 0..(n - 1)
        BY <3>3
      <4>2. k \notin Base => before[k] \in 0..n /\ before[k] # n
        BY <4>1, <3>1
      <4>3. g[k] = h[k]
        BY <3>3
      <4>4. k \notin Base => g[before[k]] = h[before[k]]
        BY <4>2
      <4> QED BY <4>1, <4>3, <4>4, <2>2
    <3> QED BY <3>2, <3>3
  <2> QED BY <2>4, <2>5
<1>2. T = Nat
  <2> HIDE DEF T
  <2> QED BY <1>1, InductionOnSet DEF T
<1>3. ASSUME NEW n \in Nat PROVE Partial(n) \in [0..n -> S] /\ Obeys(Partial(n), n)
  BY <1>2
<1> HIDE DEF Partial
<1> DEFINE Agreed == {m \in Nat : \A n \in Nat : m <= n => Partial(n)[m] = Partial(m)[m]}
<1>4. ASSUME NEW m \in Nat, \A j \in 0..(m - 1) : j \in Agreed PROVE m \in Agreed
  <2> SUFFICES ASSUME NEW n \in Nat, m <= n PROVE Partial(n)[m] = Partial(m)[m]
    OBVIOUS
  <2>1. /\ Partial(n)[m] = IF m \in Base THEN base[m] ELSE step[m][Partial(n)[before[m]]]
        /\ Partial(m)[m] = IF m \in Base THEN base[m] ELSE step[m][Partial(m)[before[m]]]
    BY <1>3
  <2>2. CASE m \in Base
    BY <2>1, <2>2
  <2>3. CASE m \notin Base
    <3>1. before[m] \in 0..(m - 1)
      BY <2>3
    <3>2. before[m] \in Agreed /\ before[m] <= n /\ before[m] <= m
      BY <3>1, <1>4
    <3> QED BY <3>2, <2>1, <2>3
  <2> QED BY <2>2, <2>3
<1>a. Agreed = Nat
  <2> HIDE DEF Agreed
  <2> QED BY <1>4, InductionOnSet DEF Agreed
<1> DEFINE f == [n \in Nat |-> Partial(n)[n]]
<1>5. f \in [Nat -> S]
  BY <1>3
<1>6. ASSUME NEW k \in Nat PROVE f[k] = IF k \in Base THEN base[k] ELSE step[k][f[before[k]]]
  <2>1. CASE k \in Base
    BY <1>3, <2>1
  <2>2. CASE k \notin Base
    <3>1. before[k] \in 0..k
      BY <2>2
    <3>2. f[before[k]] = Partial(k)[before[k]]
      BY <3>1, <1>a
    <3> QED BY <1>3, <2>2, <3>2
  <2> QED BY <2>1, <2>2
<1> QED BY <1>5, <1>6 DEF Solution

------------------------------------------------------------------------------
(***************************************************************************)
(* Numbers and their decimal text.                                         *)
(***************************************************************************)

\* DigitValue undoes Digits.
LEMMA DigitIsValue ==
  \A x \in 0..9 : IsDigit(Digits[x + 1]) /\ DigitValue(Digits[x + 1]) = x
<1>1. \A x, y \in 0..9 : Digits[x + 1] = Digits[y + 1] => x = y
  BY DEF Digits
<1>2. SUFFICES ASSUME NEW x \in 0..9
               PROVE  IsDigit(Digits[x + 1]) /\ DigitValue(Digits[x + 1]) = x
  OBVIOUS
<1>3. \A y \in 0..9 : Digits[y + 1] = Digits[x + 1] <=> y = x
  BY <1>1
<1> QED BY <1>3 DEF IsDigit, DigitValue

\* The value of a digit is a number below ten.
LEMMA DigitValueType ==
  ASSUME NEW c, IsDigit(c)
  PROVE  DigitValue(c) \in 0..9
BY DEF IsDigit, DigitValue

\* The arrays are as large as the search is long, and a byte counts them.
LEMMA DataSizeType == DataSize \in Nat /\ 92 <= DataSize /\ DataSize <= 255
BY CommandAssumption DEF CommandAssumption

\* Below its limit a number of the program is exact, and no number is above it.
LEMMA Wraps ==
  \A x \in Nat : x % Uint32 \in Nat /\ (x < Uint32 => x % Uint32 = x)
<1>1. Uint32 \in Nat /\ Uint32 > 0
  BY CommandAssumption DEF CommandAssumption
<1> QED BY <1>1, SMT

\* What one byte makes of the number read so far.
NextValue(v, c) == IF IsDigit(c) THEN (10 * v + DigitValue(c)) % Uint32 ELSE v

\* The values that the loop over bytes goes through.
Scan(v, bytes) ==
  /\ v \in [0..Len(bytes) -> Nat]
  /\ v[0] = 0
  /\ \A k \in 1..Len(bytes) : v[k] = NextValue(v[k - 1], bytes[k])
  /\ Number(bytes) = v[Len(bytes)]

\* The loop of Number over bytes has values that obey it.
LEMMA NumberIsScanned ==
  ASSUME NEW bytes, Len(bytes) \in Nat
  PROVE  \E v : Scan(v, bytes)
<1> DEFINE n == Len(bytes)
           before == [k \in Nat |-> IF k = 0 THEN 0 ELSE k - 1]
           base == [k \in Nat |-> 0]
           step == [k \in Nat |-> [x \in Nat |-> NextValue(x, bytes[k])]]
<1>1. before \in [Nat -> Nat] /\ base \in [Nat -> Nat] /\ \A k \in Nat \ {0} : before[k] < k
  OBVIOUS
<1>2. step \in [Nat -> [Nat -> Nat]]
  <2>1. ASSUME NEW k \in Nat, NEW x \in Nat PROVE NextValue(x, bytes[k]) \in Nat
    <3>1. CASE IsDigit(bytes[k])
      <4>1. 10 * x + DigitValue(bytes[k]) \in Nat
        BY <3>1, DigitValueType
      <4> QED BY <3>1, <4>1, Wraps DEF NextValue
    <3> QED BY <3>1 DEF NextValue
  <2> QED BY <2>1
<1>3. PICK f : Solution(f, Nat, {0}, base, before, step)
  <2> HIDE DEF before, base, step
  <2>1. Recursion(Nat, {0}, base, before, step)
    <3>1. {0} \in SUBSET Nat
      OBVIOUS
    <3> QED BY <1>1, <1>2, <3>1, Zenon DEF Recursion
  <2> QED BY <2>1, RecursionHasSolution
<1>4. f[0] = 0 /\ \A k \in Nat : f[k] \in Nat
  BY <1>3 DEF Solution
<1>5. \A k \in Nat \ {0} : f[k] = NextValue(f[k - 1], bytes[k])
  <2> SUFFICES ASSUME NEW k \in Nat \ {0} PROVE f[k] = NextValue(f[k - 1], bytes[k])
    OBVIOUS
  <2>1. before[k] = k - 1 /\ k - 1 \in Nat /\ k \notin {0}
    OBVIOUS
  <2>2. step[k][f[k - 1]] = NextValue(f[k - 1], bytes[k])
    BY <2>1, <1>4
  <2>3. f[k] = step[k][f[before[k]]]
    <3> HIDE DEF step, before, base
    <3> QED BY <1>3, <2>1 DEF Solution
  <2> QED BY <2>1, <2>2, <2>3
<1> DEFINE Unfolded(v) == [k \in 0..n |-> IF k = 0 THEN 0
                                     ELSE NextValue(v[k - 1], bytes[k])]
           part == [k \in 0..n |-> f[k]]
           value == CHOOSE v : v = Unfolded(v)
<1>6. part = Unfolded(part)
  <2>1. \A k \in 0..n : part[k] = Unfolded(part)[k]
    <3> SUFFICES ASSUME NEW k \in 0..n PROVE part[k] = Unfolded(part)[k]
      OBVIOUS
    <3>1. CASE k = 0
      BY <3>1, <1>4
    <3>2. CASE k # 0
      <4>1. k - 1 \in 0..n /\ k \in Nat \ {0}
        BY <3>2
      <4>2. part[k] = f[k] /\ part[k - 1] = f[k - 1]
        BY <4>1
      <4>3. Unfolded(part)[k] = NextValue(part[k - 1], bytes[k])
        <5> HIDE DEF NextValue, part
        <5> QED BY <3>2
      <4> QED BY <4>1, <4>2, <4>3, <1>5
    <3> QED BY <3>1, <3>2
  <2> QED BY <2>1
<1>7. value = Unfolded(value)
  <2> HIDE DEF Unfolded, part
  <2> QED BY <1>6
<1>8. Number(bytes) = value[n]
  BY DEF Number, NextValue
<1> HIDE DEF value
<1>9. value[0] = 0 /\ \A k \in 1..n : value[k] = NextValue(value[k - 1], bytes[k])
  <2> HIDE DEF NextValue
  <2>1. 0 \in 0..n /\ \A k \in 1..n : k \in 0..n /\ k # 0
    OBVIOUS
  <2> QED BY <2>1, <1>7
<1>10. \A k \in 0..n : value[k] = f[k]
  <2> DEFINE T == {k \in Nat : k <= n => value[k] = f[k]}
  <2>1. ASSUME NEW k \in Nat, \A j \in 0..(k - 1) : j \in T PROVE k \in T
    <3>1. CASE k = 0
      BY <3>1, <1>9, <1>4
    <3>2. CASE k # 0 /\ k <= n
      <4>1. k - 1 \in T /\ k \in 1..n
        BY <2>1, <3>2
      <4> QED BY <4>1, <1>9, <1>5
    <3> QED BY <3>1, <3>2
  <2>2. T = Nat
    <3> HIDE DEF T
    <3> QED BY <2>1, InductionOnSet DEF T
  <2> QED BY <2>2
<1>11. value = [k \in 0..n |-> value[k]]
  BY <1>7
<1>12. value \in [0..n -> Nat]
  BY <1>11, <1>10, <1>4
<1> QED BY <1>12, <1>9, <1>8 DEF Scan

\* No bytes are the number 0.
LEMMA NumberOfNothing == Number(<<>>) = 0
BY NumberIsScanned DEF Scan

\* What is read is a natural number, whatever the bytes.
LEMMA NumberType ==
  ASSUME NEW bytes, Len(bytes) \in Nat
  PROVE  Number(bytes) \in Nat
BY NumberIsScanned DEF Scan

\* As far as two texts agree, so do the values of the loop.
LEMMA ScansAgree ==
  ASSUME NEW s, NEW t, NEW v, NEW w, Len(s) \in Nat, Len(t) \in Nat,
         Len(s) <= Len(t), \A i \in 1..Len(s) : t[i] = s[i],
         Scan(v, s), Scan(w, t)
  PROVE  w[Len(s)] = Number(s)
<1> DEFINE T == {k \in Nat : k <= Len(s) => v[k] = w[k]}
<1>1. ASSUME NEW k \in Nat, \A j \in 0..(k - 1) : j \in T PROVE k \in T
  <2>1. CASE k = 0
    BY <2>1 DEF Scan
  <2>2. CASE k # 0 /\ k <= Len(s)
    <3>1. k - 1 \in T /\ k \in 1..Len(s) /\ k \in 1..Len(t)
      BY <1>1, <2>2
    <3>2. /\ v[k] = NextValue(v[k - 1], s[k])
          /\ w[k] = NextValue(w[k - 1], t[k])
      BY <3>1 DEF Scan
    <3> QED BY <3>1, <3>2
  <2> QED BY <2>1, <2>2
<1>2. T = Nat
  <2> HIDE DEF T
  <2> QED BY <1>1, InductionOnSet DEF T
<1>3. v[Len(s)] = w[Len(s)]
  BY <1>2
<1> QED BY <1>3 DEF Scan

\* One more byte continues the number.
LEMMA NumberOfOneMore ==
  ASSUME NEW s, NEW t, Len(s) \in Nat, Len(t) = Len(s) + 1,
         \A i \in 1..Len(s) : t[i] = s[i]
  PROVE  Number(t) = NextValue(Number(s), t[Len(t)])
<1>1. PICK v : Scan(v, s)
  BY NumberIsScanned
<1>2. PICK w : Scan(w, t)
  BY NumberIsScanned
<1>3. w[Len(s)] = Number(s)
  BY <1>1, <1>2, ScansAgree
<1> QED BY <1>2, <1>3 DEF Scan

\* Bytes that are no digits leave the number as it was before them.
LEMMA NumberIgnoresOthers ==
  ASSUME NEW s, NEW t, Len(s) \in Nat, Len(t) \in Nat, Len(s) <= Len(t),
         \A i \in 1..Len(s) : t[i] = s[i],
         \A i \in (Len(s) + 1)..Len(t) : ~IsDigit(t[i])
  PROVE  Number(t) = Number(s)
<1>1. PICK v : Scan(v, s)
  BY NumberIsScanned
<1>2. PICK w : Scan(w, t)
  BY NumberIsScanned
<1>3. w[Len(s)] = Number(s)
  BY <1>1, <1>2, ScansAgree
<1> DEFINE T == {k \in Nat : Len(s) <= k /\ k <= Len(t) => w[k] = Number(s)}
<1>4. ASSUME NEW k \in Nat, \A j \in 0..(k - 1) : j \in T PROVE k \in T
  <2>1. CASE k = Len(s)
    BY <2>1, <1>3
  <2>2. CASE Len(s) < k /\ k <= Len(t)
    <3>1. k - 1 \in T /\ Len(s) <= k - 1 /\ k \in 1..Len(t) /\ ~IsDigit(t[k])
      BY <1>4, <2>2
    <3>2. w[k] = NextValue(w[k - 1], t[k])
      BY <3>1, <1>2 DEF Scan
    <3> QED BY <3>1, <3>2, <2>2 DEF NextValue
  <2> QED BY <2>1, <2>2
<1>5. T = Nat
  <2> HIDE DEF T
  <2> QED BY <1>4, InductionOnSet DEF T
<1>6. w[Len(t)] = Number(s)
  BY <1>5
<1> QED BY <1>2, <1>6 DEF Scan

\* The digits as characters.
DigitChars == {Digits[x + 1] : x \in 0..9}

\* What the last digit adds to the others.
NextDecimal(s, n) == Append(s, Digits[(n % 10) + 1])

\* One digit is a text of digits.
LEMMA OneDigit ==
  \A x \in 0..9 : /\ Digits[x + 1] \in DigitChars
                  /\ <<Digits[x + 1]>> \in Seq(DigitChars)
<1> SUFFICES ASSUME NEW x \in 0..9 PROVE /\ Digits[x + 1] \in DigitChars
                                         /\ <<Digits[x + 1]>> \in Seq(DigitChars)
  OBVIOUS
<1>1. Digits[x + 1] \in DigitChars
  BY DEF DigitChars
<1> HIDE DEF DigitChars
<1> QED BY <1>1

\* Decimal is a text of digits that obeys its recursive definition.
LEMMA DecimalEquation ==
  \A n \in Nat : /\ Decimal[n] \in Seq(DigitChars)
                 /\ Decimal[n] = IF n < 10 THEN <<Digits[n + 1]>>
                                  ELSE NextDecimal(Decimal[n \div 10], n)
<1> DEFINE Texts == Seq(DigitChars)
           Base == 0..9
           before == [k \in Nat |-> k \div 10]
           base == [k \in Nat |-> IF k < 10 THEN <<Digits[k + 1]>> ELSE <<>>]
           step == [k \in Nat |-> [s \in Texts |-> NextDecimal(s, k)]]
<1>1. PICK f : Solution(f, Texts, Base, base, before, step)
  <2>1. base \in [Nat -> Texts]
    <3>1. \A k \in 0..9 : <<Digits[k + 1]>> \in Texts
      BY OneDigit
    <3>2. <<>> \in Texts
      OBVIOUS
    <3> HIDE DEF Texts
    <3> QED BY <3>1, <3>2
  <2>2. before \in [Nat -> Nat] /\ \A k \in Nat \ Base : before[k] < k
    OBVIOUS
  <2>3. step \in [Nat -> [Texts -> Texts]]
    <3>1. \A k \in Nat : Digits[(k % 10) + 1] \in DigitChars
      BY DEF DigitChars
    <3> QED BY <3>1 DEF NextDecimal
  <2>4. Base \in SUBSET Nat
    OBVIOUS
  <2> HIDE DEF Texts, Base, base, before, step
  <2>5. Recursion(Texts, Base, base, before, step)
    BY <2>1, <2>2, <2>3, <2>4, Zenon DEF Recursion
  <2> QED BY <2>5, RecursionHasSolution
<1> DEFINE Unfolded(g) == [n \in Nat |-> IF n < 10 THEN <<Digits[n + 1]>>
                                     ELSE Append(g[n \div 10], Digits[(n % 10) + 1])]
<1>2. f = Unfolded(f)
  <2>1. f = [n \in Nat |-> f[n]] /\ \A n \in Nat : f[n] \in Texts
    BY <1>1 DEF Solution
  <2>2. ASSUME NEW n \in Nat PROVE f[n] = Unfolded(f)[n]
    <3>1. CASE n < 10
      <4>1. n \in Base /\ base[n] = <<Digits[n + 1]>>
        BY <3>1
      <4>2. f[n] = base[n]
        <5> HIDE DEF step, before, base, Base
        <5> QED BY <1>1, <4>1 DEF Solution
      <4> QED BY <4>1, <4>2, <3>1
    <3>2. CASE ~(n < 10)
      <4>1. n \notin Base /\ before[n] = n \div 10 /\ n \div 10 \in Nat
        BY <3>2
      <4>2. step[n][f[n \div 10]] = NextDecimal(f[n \div 10], n)
        BY <4>1, <2>1
      <4>3. f[n] = step[n][f[before[n]]]
        <5> HIDE DEF step, before, base, Base
        <5> QED BY <1>1, <4>1 DEF Solution
      <4> QED BY <4>1, <4>2, <4>3, <3>2 DEF NextDecimal
    <3> QED BY <3>1, <3>2
  <2> QED BY <2>1, <2>2
<1> DEFINE value == CHOOSE v : v = Unfolded(v)
<1>3. value = Unfolded(value)
  <2> HIDE DEF Unfolded
  <2> QED BY <1>2
<1>4. Decimal = value
  BY DEF Decimal
<1> HIDE DEF value
<1>5. \A n \in Nat : value[n] = IF n < 10 THEN <<Digits[n + 1]>>
                                ELSE NextDecimal(value[n \div 10], n)
  BY <1>3 DEF NextDecimal
<1> DEFINE T == {n \in Nat : value[n] \in Texts}
<1>6. ASSUME NEW n \in Nat, \A j \in 0..(n - 1) : j \in T PROVE n \in T
  <2>1. CASE n < 10
    <3>1. value[n] = <<Digits[n + 1]>>
      BY <2>1, <1>5
    <3>2. n \in 0..9
      BY <2>1
    <3> QED BY <3>1, <3>2, OneDigit
  <2>2. CASE ~(n < 10)
    <3>1. n \div 10 \in 0..(n - 1)
      BY <2>2
    <3>2. value[n \div 10] \in Texts
      BY <3>1, <1>6
    <3>3. Digits[(n % 10) + 1] \in DigitChars
      BY DEF DigitChars
    <3>4. NextDecimal(value[n \div 10], n) \in Texts
      <4> HIDE DEF value
      <4> QED BY <3>2, <3>3 DEF NextDecimal
    <3> QED BY <3>4, <1>5, <2>2
  <2> QED BY <2>1, <2>2
<1>7. T = Nat
  <2> HIDE DEF T
  <2> QED BY <1>6, InductionOnSet DEF T
<1> QED BY <1>4, <1>5, <1>7

\* A number that is written in decimal is read as itself: Number undoes Decimal
\* for every natural number that the program can hold.
THEOREM NumberOfDecimal == \A n \in Nat : n < Uint32 => Number(Decimal[n]) = n
<1> DEFINE T == {n \in Nat : n < Uint32 => Number(Decimal[n]) = n}
<1>0. Uint32 \in Nat
  BY CommandAssumption DEF CommandAssumption
<1>1. ASSUME NEW n \in Nat, \A j \in 0..(n - 1) : j \in T PROVE n \in T
  <2> SUFFICES ASSUME n < Uint32 PROVE Number(Decimal[n]) = n
    OBVIOUS
  <2>1. CASE n < 10
    <3> DEFINE t == <<Digits[n + 1]>>
    <3>1. Decimal[n] = t
      BY <2>1, DecimalEquation
    <3> DEFINE e == <<>>
    <3>2. Len(t) = 1 /\ Len(e) = 0 /\ t[1] = Digits[n + 1]
      OBVIOUS
    <3>3. Number(t) = NextValue(Number(e), t[Len(t)])
      <4> HIDE DEF t, e
      <4>1. Len(e) \in Nat /\ Len(t) = Len(e) + 1 /\ \A i \in 1..Len(e) : t[i] = e[i]
        BY <3>2
      <4> QED BY <4>1, NumberOfOneMore
    <3>4. NextValue(0, Digits[n + 1]) = n
      <4>1. IsDigit(Digits[n + 1]) /\ DigitValue(Digits[n + 1]) = n
        BY <2>1, DigitIsValue
      <4>2. 10 * 0 + n = n /\ n % Uint32 = n
        BY Wraps
      <4> QED BY <4>1, <4>2 DEF NextValue
    <3> QED BY <3>1, <3>2, <3>3, <3>4, NumberOfNothing
  <2>2. CASE ~(n < 10)
    <3> DEFINE s == Decimal[n \div 10]
               t == NextDecimal(s, n)
    <3>1. n \div 10 \in 0..(n - 1) /\ n \div 10 \in Nat /\ n % 10 \in 0..9
      BY <2>2
    <3>2. Number(s) = n \div 10
      <4>1. n \div 10 < Uint32 /\ n \div 10 \in T
        BY <3>1, <1>0, <1>1
      <4> QED BY <4>1
    <3>3. Decimal[n] = t /\ s \in Seq(DigitChars)
      BY <2>2, <3>1, DecimalEquation
    <3>4. /\ Len(s) \in Nat /\ Len(t) = Len(s) + 1
          /\ \A i \in 1..Len(s) : t[i] = s[i]
          /\ t[Len(t)] = Digits[(n % 10) + 1]
      <4> HIDE DEF s
      <4> QED BY <3>3 DEF NextDecimal
    <3>5. Number(t) = NextValue(Number(s), t[Len(t)])
      <4> HIDE DEF s, t
      <4> QED BY <3>4, NumberOfOneMore
    <3>7. (10 * (n \div 10)) + (n % 10) = n
      OBVIOUS
    <3>6. NextValue(n \div 10, Digits[(n % 10) + 1]) = n
      <4> DEFINE c == Digits[(n % 10) + 1]
      <4>1. IsDigit(c) /\ DigitValue(c) = n % 10
        BY <3>1, DigitIsValue
      <4>2. n % Uint32 = n
        BY Wraps
      <4> HIDE DEF c
      <4>3. NextValue(n \div 10, c) = (10 * (n \div 10) + (n % 10)) % Uint32
        BY <4>1 DEF NextValue
      <4> QED BY <4>2, <4>3, <3>7 DEF c
    <3> QED BY <3>2, <3>3, <3>4, <3>5, <3>6
  <2> QED BY <2>1, <2>2
<1>2. T = Nat
  <2> HIDE DEF T
  <2> QED BY <1>1, InductionOnSet DEF T
<1> QED BY <1>2
------------------------------------------------------------------------------
(***************************************************************************)
(* Text and the bytes that are read from an array.                         *)
(***************************************************************************)

\* What a field is made of, and the text between keywords.
FieldChars == DigitChars \union {"."}

Plain == DigitChars \union {".", ":"}

\* Digits, dots and colons are no keywords, and only digits count as digits.
LEMMA CharacterKinds ==
  /\ Plain \subseteq Characters /\ FieldChars \subseteq Plain
  /\ \A c \in Plain : c \notin Keywords
  /\ ":" \notin FieldChars
  /\ ":" \notin DigitChars /\ "." \notin DigitChars
  /\ \A c \in DigitChars : IsDigit(c)
  /\ ~IsDigit(".") /\ ~IsDigit(":")
<1>1. \A x \in 0..9 : Digits[x + 1] \in {"0", "1", "2", "3", "4", "5", "6", "7", "8", "9"}
  BY DEF Digits
<1>2. DigitChars \subseteq {"0", "1", "2", "3", "4", "5", "6", "7", "8", "9"}
  BY <1>1 DEF DigitChars
<1>3. \A c \in DigitChars : IsDigit(c)
  BY DEF DigitChars, IsDigit
<1>4. ~IsDigit(".") /\ ~IsDigit(":")
  BY <1>1 DEF IsDigit
<1>5. ":" \notin DigitChars /\ "." \notin DigitChars
  BY <1>2
<1>6. \A c \in Plain : c \in {"0", "1", "2", "3", "4", "5", "6", "7", "8", "9", ".", ":"}
  BY <1>2 DEF Plain
<1>7. Plain \subseteq Characters
  BY DEF Plain, DigitChars, Characters
<1>8. \A c \in Plain : c \notin Keywords
  BY <1>6 DEF Keywords
<1>9. FieldChars \subseteq Plain /\ ":" \notin FieldChars
  BY <1>5 DEF FieldChars, Plain
<1> QED BY <1>3, <1>4, <1>5, <1>7, <1>8, <1>9

\* Min of a set that is not empty is its least element.
LEMMA MinIsLeast ==
  ASSUME NEW S \in SUBSET Nat, S # {}
  PROVE  Min(S) \in S /\ \A k \in S : Min(S) <= k
BY LeastNatural DEF Min

\* An element that is not above any other is Min.
LEMMA MinIs ==
  ASSUME NEW S \in SUBSET Nat, NEW m \in S, \A k \in S : m <= k
  PROVE  Min(S) = m
<1>1. Min(S) \in S /\ \A k \in S : Min(S) <= k
  BY MinIsLeast
<1>2. Min(S) \in Nat /\ m \in Nat /\ Min(S) <= m /\ m <= Min(S)
  BY <1>1
<1> QED BY <1>2

\* What is read from an array: its bytes, and dots behind its end.
LEMMA BytesType ==
  ASSUME NEW d \in [0..(DataSize - 1) -> Characters], NEW from \in Nat, NEW n \in Nat
  PROVE  /\ Bytes(d, from, n) \in Seq(Characters)
         /\ Len(Bytes(d, from, n)) = n
         /\ \A i \in 1..n : from + i - 1 < DataSize => Bytes(d, from, n)[i] = d[from + i - 1]
         /\ \A i \in 1..n : ~(from + i - 1 < DataSize) => Bytes(d, from, n)[i] = "."
<1> USE CommandAssumption DEF CommandAssumption
<1>1. \A i \in 1..n : (IF from + i - 1 < DataSize THEN d[from + i - 1] ELSE ".") \in Characters
  <2>1. "." \in Characters
    BY DEF Characters
  <2>2. \A i \in 1..n : from + i - 1 < DataSize => from + i - 1 \in 0..(DataSize - 1)
    OBVIOUS
  <2>3. \A i \in 1..n : from + i - 1 < DataSize => d[from + i - 1] \in Characters
    BY <2>2
  <2> QED BY <2>1, <2>3
<1> QED BY <1>1 DEF Bytes

\* The text of a field in front of the first colon is what UpToColon returns.
LEMMA TextBeforeColon ==
  ASSUME NEW bytes \in Seq(Characters), NEW s \in Seq(FieldChars), Len(s) < Len(bytes),
         \A i \in 1..Len(s) : bytes[i] = s[i], bytes[Len(s) + 1] = ":"
  PROVE  UpToColon(bytes) = s
<1> DEFINE places == {i \in DOMAIN bytes : bytes[i] = ":"}
<1>1. Len(s) \in Nat /\ Len(bytes) \in Nat /\ DOMAIN bytes = 1..Len(bytes)
  OBVIOUS
<1>2. \A i \in 1..Len(s) : s[i] \in FieldChars
  OBVIOUS
<1>3. Len(s) + 1 \in places
  BY <1>1
<1>4. \A k \in places : Len(s) + 1 <= k
  BY <1>1, <1>2, CharacterKinds
<1>5. Min(places) = Len(s) + 1
  <2>1. places \in SUBSET Nat
    BY <1>1
  <2> HIDE DEF places
  <2> QED BY <2>1, <1>3, <1>4, MinIs
<1>6. UpToColon(bytes) = SubSeq(bytes, 1, Len(s))
  <2>1. places # {} /\ UpToColon(bytes) = IF places = {} THEN bytes
                       ELSE SubSeq(bytes, 1, Min(places) - 1)
    BY <1>3, Zenon DEF UpToColon
  <2>2. UpToColon(bytes) = SubSeq(bytes, 1, Min(places) - 1)
    <3> HIDE DEF places
    <3> QED BY <2>1
  <2> HIDE DEF places
  <2>3. Min(places) - 1 = Len(s)
    BY <1>1, <1>5
  <2> QED BY <2>2, <2>3
<1>7. SubSeq(bytes, 1, Len(s)) = s
  <2>1. s \in Seq(Characters)
    <3>1. FieldChars \subseteq Characters
      BY CharacterKinds
    <3> QED BY <3>1
  <2>2. /\ SubSeq(bytes, 1, Len(s)) \in Seq(Characters)
        /\ Len(SubSeq(bytes, 1, Len(s))) = Len(s)
        /\ \A i \in 1..Len(s) : SubSeq(bytes, 1, Len(s))[i] = s[i]
    BY <1>1
  <2> QED BY <2>1, <2>2, SeqEqual
<1> QED BY <1>6, <1>7

\* Without a colon UpToColon returns all the bytes.
LEMMA TextWithoutColon ==
  ASSUME NEW bytes, \A i \in DOMAIN bytes : bytes[i] # ":"
  PROVE  UpToColon(bytes) = bytes
BY DEF UpToColon

\* UpToColon returns no more bytes than it is given.
LEMMA UpToColonType ==
  ASSUME NEW bytes \in Seq(Characters)
  PROVE  Len(UpToColon(bytes)) \in 0..Len(bytes)
<1> DEFINE places == {i \in DOMAIN bytes : bytes[i] = ":"}
<1>1. CASE places = {}
  BY <1>1 DEF UpToColon
<1>2. CASE places # {}
  <2>1. places \in SUBSET Nat /\ places \subseteq 1..Len(bytes) /\ Len(bytes) \in Nat
    OBVIOUS
  <2>2. Min(places) \in 1..Len(bytes)
    <3> HIDE DEF places
    <3> QED BY <1>2, <2>1, MinIsLeast
  <2>3. UpToColon(bytes) = SubSeq(bytes, 1, Min(places) - 1)
    <3>1. UpToColon(bytes) = IF places = {} THEN bytes
                       ELSE SubSeq(bytes, 1, Min(places) - 1)
      BY Zenon DEF UpToColon
    <3> HIDE DEF places
    <3> QED BY <3>1, <1>2
  <2> HIDE DEF places
  <2> QED BY <2>1, <2>2, <2>3
<1> QED BY <1>1, <1>2
\* Plain text with a keyword at its start.
Headed(s, word) ==
  /\ s \in Seq(Characters) /\ Len(s) >= 1 /\ s[1] = word
  /\ \A i \in 2..Len(s) : s[i] \in Plain

\* What plain text adds to a text with its keyword at the start.
LEMMA PlainAdded ==
  ASSUME NEW s, NEW word, Headed(s, word), NEW u \in Seq(Plain)
  PROVE  /\ Headed(s \o u, word)
         /\ Len(s \o u) = Len(s) + Len(u)
         /\ \A i \in 1..Len(s) : (s \o u)[i] = s[i]
         /\ \A i \in 1..Len(u) : (s \o u)[Len(s) + i] = u[i]
<1>1. u \in Seq(Characters)
  BY CharacterKinds
<1>2. s \in Seq(Characters) /\ Len(s) \in Nat /\ Len(u) \in Nat
  BY DEF Headed
<1>3. /\ s \o u \in Seq(Characters) /\ Len(s \o u) = Len(s) + Len(u)
      /\ \A i \in 1..(Len(s) + Len(u)) : (s \o u)[i] = IF i <= Len(s) THEN s[i] ELSE u[i - Len(s)]
  BY <1>1, <1>2, ConcatProperties
<1>4. \A i \in 1..Len(s) : (s \o u)[i] = s[i]
  BY <1>2, <1>3
<1>5. \A i \in 1..Len(u) : (s \o u)[Len(s) + i] = u[i]
  <2> SUFFICES ASSUME NEW i \in 1..Len(u) PROVE (s \o u)[Len(s) + i] = u[i]
    OBVIOUS
  <2>1. Len(s) + i \in 1..(Len(s) + Len(u)) /\ ~(Len(s) + i <= Len(s)) /\ (Len(s) + i) - Len(s) = i
    BY <1>2
  <2> QED BY <2>1, <1>3
<1>6. \A i \in 2..Len(s \o u) : (s \o u)[i] \in Plain
  <2> SUFFICES ASSUME NEW i \in 2..(Len(s) + Len(u)) PROVE (s \o u)[i] \in Plain
    BY <1>3
  <2>1. CASE i <= Len(s)
    BY <2>1, <1>4, <1>2 DEF Headed
  <2>2. CASE i > Len(s)
    <3>1. i - Len(s) \in 1..Len(u) /\ i \in 1..(Len(s) + Len(u)) /\ ~(i <= Len(s))
      BY <2>2, <1>2
    <3>2. u[i - Len(s)] \in Plain
      BY <3>1
    <3> QED BY <3>1, <3>2, <1>3
  <2> QED BY <2>1, <2>2, <1>2
<1> QED BY <1>2, <1>3, <1>4, <1>5, <1>6 DEF Headed

\* Dots are plain text.
LEMMA DotsPlain ==
  ASSUME NEW n \in Nat
  PROVE  Dots(n) \in Seq(Plain) /\ Len(Dots(n)) = n /\ \A i \in 1..n : Dots(n)[i] = "."
BY DEF Dots, Plain

\* Decimal is plain text.
LEMMA DecimalPlain ==
  ASSUME NEW n \in Nat
  PROVE  /\ Decimal[n] \in Seq(Plain) /\ Decimal[n] \in Seq(FieldChars)
         /\ Decimal[n] \in Seq(DigitChars) /\ Len(Decimal[n]) \in Nat
<1>1. /\ Decimal[n] \in Seq(DigitChars)
      /\ DigitChars \subseteq Plain /\ DigitChars \subseteq FieldChars
  BY DecimalEquation DEF Plain, FieldChars
<1> QED BY <1>1

\* A keyword is a text of so many bytes with its colon at the end.
LEMMA KeywordHeads ==
  ASSUME NEW word \in Keywords
  PROVE  /\ KeyLength[word] \in 5..13
         /\ Headed(Keyword(word), word) /\ Len(Keyword(word)) = KeyLength[word]
         /\ Keyword(word)[KeyLength[word]] = ":"
<1> DEFINE n == KeyLength[word]
<1>0. n \in 5..13
  BY DEF KeyLength, Keywords
<1>a. n \in Nat /\ n - 2 \in Nat
  BY <1>0
<1> HIDE DEF n
<1>1. Headed(<<word>>, word) /\ Len(<<word>>) = 1
  BY DEF Headed, Characters
<1>2. Dots(n - 2) \in Seq(Plain) /\ Len(Dots(n - 2)) = n - 2
  BY <1>a, DotsPlain
<1> DEFINE colon == <<":">>
<1>3. colon \in Seq(Plain) /\ Len(colon) = 1 /\ colon[1] = ":"
  BY DEF Plain
<1> DEFINE s == <<word>> \o Dots(n - 2)
<1>4. Headed(s, word) /\ Len(s) = n - 1
  <2> QED BY <1>a, <1>1, <1>2, PlainAdded
<1>5. Headed(s \o colon, word) /\ Len(s \o colon) = n /\ (s \o colon)[n] = ":"
  <2> HIDE DEF s, colon
  <2>1. /\ Headed(s \o colon, word) /\ Len(s \o colon) = Len(s) + Len(colon)
        /\ \A i \in 1..Len(colon) : (s \o colon)[Len(s) + i] = colon[i]
    BY <1>4, <1>3, PlainAdded
  <2>2. Len(s) + Len(colon) = n /\ Len(s) + 1 = n /\ 1 \in 1..Len(colon)
    BY <1>a, <1>3, <1>4
  <2> QED BY <2>1, <2>2, <1>3
<1>6. Keyword(word) = s \o colon
  BY DEF Keyword, n
<1> HIDE DEF s, colon
<1> QED BY <1>0, <1>5, <1>6 DEF n

\* Two texts with a colon between them.
LEMMA ColonBetween ==
  ASSUME NEW a \in Seq(Plain), NEW b \in Seq(Plain)
  PROVE  /\ a \o <<":">> \o b \in Seq(Plain)
         /\ Len(a \o <<":">> \o b) = Len(a) + 1 + Len(b)
         /\ \A i \in 1..Len(a) : (a \o <<":">> \o b)[i] = a[i]
         /\ (a \o <<":">> \o b)[Len(a) + 1] = ":"
         /\ \A i \in 1..Len(b) : (a \o <<":">> \o b)[Len(a) + 1 + i] = b[i]
<1> DEFINE colon == <<":">>
           s == a \o colon
           t == s \o b
<1>1. colon \in Seq(Plain) /\ Len(colon) = 1 /\ colon[1] = ":"
  BY DEF Plain
<1>2. Len(a) \in Nat /\ Len(b) \in Nat
  OBVIOUS
<1>3. /\ s \in Seq(Plain) /\ Len(s) = Len(a) + 1
      /\ \A i \in 1..(Len(a) + 1) : s[i] = IF i <= Len(a) THEN a[i] ELSE colon[i - Len(a)]
  <2> HIDE DEF colon
  <2>1. /\ s \in Seq(Plain) /\ Len(s) = Len(a) + Len(colon)
        /\ \A i \in 1..(Len(a) + Len(colon)) : s[i] = IF i <= Len(a) THEN a[i] ELSE colon[i - Len(a)]
    BY <1>1, ConcatProperties
  <2> HIDE DEF s
  <2> QED BY <2>1, <1>1
<1>4. s[Len(a) + 1] = ":" /\ \A i \in 1..Len(a) : s[i] = a[i]
  <2> HIDE DEF colon, s
  <2>1. Len(a) + 1 \in 1..(Len(a) + 1) /\ ~(Len(a) + 1 <= Len(a)) /\ (Len(a) + 1) - Len(a) = 1
    BY <1>2
  <2>2. \A i \in 1..Len(a) : i \in 1..(Len(a) + 1) /\ i <= Len(a)
    BY <1>2
  <2> QED BY <1>1, <1>3, <2>1, <2>2
<1>5. /\ t \in Seq(Plain) /\ Len(t) = Len(s) + Len(b)
      /\ \A i \in 1..(Len(s) + Len(b)) : t[i] = IF i <= Len(s) THEN s[i] ELSE b[i - Len(s)]
  <2> HIDE DEF s
  <2>1. s \in Seq(Plain) /\ b \in Seq(Plain)
    BY <1>3
  <2> QED BY <2>1, ConcatProperties
<1>6. \A i \in 1..(Len(a) + 1) : t[i] = s[i]
  <2> HIDE DEF s, t
  <2> QED BY <1>2, <1>3, <1>5
<1>7. \A i \in 1..Len(b) : t[Len(a) + 1 + i] = b[i]
  <2> HIDE DEF s, t
  <2> SUFFICES ASSUME NEW i \in 1..Len(b) PROVE t[Len(a) + 1 + i] = b[i]
    OBVIOUS
  <2>1. /\ Len(a) + 1 + i \in 1..(Len(s) + Len(b))
        /\ ~(Len(a) + 1 + i <= Len(s))
        /\ (Len(a) + 1 + i) - Len(s) = i
    BY <1>2, <1>3
  <2> QED BY <2>1, <1>5
<1>8. Len(t) = Len(a) + 1 + Len(b)
  BY <1>2, <1>3, <1>5
<1>9. /\ \A i \in 1..Len(a) : t[i] = a[i]
      /\ t[Len(a) + 1] = ":"
  <2> HIDE DEF s, t
  <2> QED BY <1>2, <1>4, <1>6
<1> QED BY <1>5, <1>7, <1>8, <1>9

\* The three texts of a duration, one behind the other.
LEMMA HmsText ==
  ASSUME NEW t, t[1] \in Seq(Plain), t[2] \in Seq(Plain), t[3] \in Seq(Plain)
  PROVE  LET a == t[1]
             b == t[2]
             c == t[3]
         IN  /\ Hms(t) \in Seq(Plain)
             /\ Len(Hms(t)) = Len(a) + 1 + Len(b) + 1 + Len(c)
             /\ \A i \in 1..Len(a) : Hms(t)[i] = a[i]
             /\ Hms(t)[Len(a) + 1] = ":"
             /\ \A i \in 1..Len(b) : Hms(t)[Len(a) + 1 + i] = b[i]
             /\ Hms(t)[Len(a) + 1 + Len(b) + 1] = ":"
             /\ \A i \in 1..Len(c) : Hms(t)[Len(a) + 1 + Len(b) + 1 + i] = c[i]
<1> DEFINE a == t[1]
           b == t[2]
           c == t[3]
           ab == a \o <<":">> \o b
           h == ab \o <<":">> \o c
<1>1. /\ a \in Seq(Plain) /\ Len(a) \in Nat
      /\ b \in Seq(Plain) /\ Len(b) \in Nat
      /\ c \in Seq(Plain) /\ Len(c) \in Nat
  OBVIOUS
<1>2. Hms(t) = h
  BY DEF Hms
<1> HIDE DEF a, b, c
<1>3. /\ ab \in Seq(Plain)
      /\ Len(ab) = Len(a) + 1 + Len(b)
      /\ \A i \in 1..Len(a) : ab[i] = a[i]
      /\ ab[Len(a) + 1] = ":"
      /\ \A i \in 1..Len(b) : ab[Len(a) + 1 + i] = b[i]
  BY <1>1, ColonBetween
<1> HIDE DEF ab
<1>4. /\ h \in Seq(Plain)
      /\ Len(h) = Len(ab) + 1 + Len(c)
      /\ \A i \in 1..Len(ab) : h[i] = ab[i]
      /\ h[Len(ab) + 1] = ":"
      /\ \A i \in 1..Len(c) : h[Len(ab) + 1 + i] = c[i]
  BY <1>1, <1>3, ColonBetween
<1> HIDE DEF h
<1>5. \A i \in 1..Len(b) : Len(a) + 1 + i \in 1..Len(ab)
  BY <1>1, <1>3
<1>6. \A i \in 1..(Len(a) + 1) : i \in 1..Len(ab)
  BY <1>1, <1>3
<1>7. \A i \in 1..Len(a) : h[i] = a[i]
  BY <1>1, <1>3, <1>4, <1>6
<1>8. h[Len(a) + 1] = ":"
  BY <1>1, <1>3, <1>4, <1>6
<1>9. \A i \in 1..Len(b) : h[Len(a) + 1 + i] = b[i]
  BY <1>3, <1>4, <1>5
<1> QED BY <1>2, <1>3, <1>4, <1>7, <1>8, <1>9 DEF a, b, c
------------------------------------------------------------------------------
(***************************************************************************)
(* A timing, as it is sent and as it is read.                              *)
(***************************************************************************)

\* The request for a timing.
Timed(t) == [kind |-> "timed", arg |-> t]

\* What is typed in the fields, and the numbers of the two buttons.
LEMMA TimingType ==
  ASSUME NEW t \in Timings
  PROVE  /\ \A k \in 1..3 : /\ t.off[k] \in Seq(FieldChars) /\ t.off[k] \in Seq(Plain)
                            /\ t.on[k] \in Seq(FieldChars) /\ t.on[k] \in Seq(Plain)
         /\ t.status \in Nat /\ t.status \in 0..255 /\ t.status < Uint32
<1>1. /\ \A k \in 1..3 : t.off[k] \in Typed /\ t.on[k] \in Typed
      /\ t.status \in {170, 85} /\ Uint32 \in Nat /\ Uint32 > 255
  BY CommandAssumption DEF CommandAssumption
<1>2. \A x \in Typed : x \in Seq(FieldChars)
  BY DEF Typed, FieldChars, DigitChars
<1>3. \A x \in Seq(FieldChars) : x \in Seq(Plain)
  BY CharacterKinds
<1>4. t.status \in Nat /\ t.status \in 0..255 /\ t.status < Uint32
  BY <1>1
<1> QED BY <1>1, <1>2, <1>3, <1>4

\* A timing: its keyword, two durations and its status, with colons between.
LEMMA TimedFrame ==
  ASSUME NEW t \in Timings
  PROVE  LET b == Body(Timed(t))
             h == Hms(t.off)
             g == Hms(t.on)
             s == Decimal[t.status]
         IN  /\ Headed(b, "timed")
             /\ Len(b) = 13 + Len(h) + 1 + Len(g) + 1 + Len(s)
             /\ \A i \in 1..Len(h) : b[13 + i] = h[i]
             /\ b[13 + Len(h) + 1] = ":"
             /\ \A i \in 1..Len(g) : b[13 + Len(h) + 1 + i] = g[i]
             /\ b[13 + Len(h) + 1 + Len(g) + 1] = ":"
             /\ \A i \in 1..Len(s) : b[13 + Len(h) + 1 + Len(g) + 1 + i] = s[i]
<1> DEFINE h == Hms(t.off)
           g == Hms(t.on)
           s == Decimal[t.status]
           k == Keyword("timed")
           colon == <<":">>
           s1 == k \o h
           s2 == s1 \o colon
           s3 == s2 \o g
           s4 == s3 \o colon
           b == s4 \o s
<1>0. Body(Timed(t)) = b
  BY DEF Body, Timed
<1>1. /\ t.off[1] \in Seq(Plain) /\ t.off[2] \in Seq(Plain) /\ t.off[3] \in Seq(Plain)
      /\ t.on[1] \in Seq(Plain) /\ t.on[2] \in Seq(Plain) /\ t.on[3] \in Seq(Plain)
      /\ t.status \in Nat
  BY TimingType
<1>2. /\ h \in Seq(Plain) /\ Len(h) \in Nat
      /\ g \in Seq(Plain) /\ Len(g) \in Nat
      /\ s \in Seq(Plain) /\ Len(s) \in Nat
  <2>1. h \in Seq(Plain) /\ g \in Seq(Plain)
    BY <1>1, HmsText
  <2>2. s \in Seq(Plain)
    BY <1>1, DecimalPlain
  <2> HIDE DEF h, g, s
  <2> QED BY <2>1, <2>2
<1>3. Headed(k, "timed") /\ Len(k) = 13
  <2>1. "timed" \in Keywords /\ KeyLength["timed"] = 13
    BY DEF Keywords, KeyLength
  <2> QED BY <2>1, KeywordHeads
<1>4. colon \in Seq(Plain) /\ Len(colon) = 1 /\ colon[1] = ":"
  BY DEF Plain
<1> HIDE DEF h, g, s, k, colon
<1>5. /\ Headed(s1, "timed") /\ Len(s1) = 13 + Len(h)
      /\ \A i \in 1..Len(h) : s1[13 + i] = h[i]
  <2>1. /\ Headed(s1, "timed") /\ Len(s1) = Len(k) + Len(h)
        /\ \A i \in 1..Len(h) : s1[Len(k) + i] = h[i]
    BY <1>2, <1>3, PlainAdded
  <2> HIDE DEF s1
  <2> QED BY <2>1, <1>3
<1> HIDE DEF s1
<1>6. /\ Headed(s2, "timed") /\ Len(s2) = Len(s1) + 1
      /\ \A i \in 1..Len(s1) : s2[i] = s1[i]
      /\ s2[Len(s1) + 1] = ":"
  <2>1. /\ Headed(s2, "timed") /\ Len(s2) = Len(s1) + Len(colon)
        /\ \A i \in 1..Len(s1) : s2[i] = s1[i]
        /\ \A i \in 1..Len(colon) : s2[Len(s1) + i] = colon[i]
    BY <1>4, <1>5, PlainAdded
  <2> HIDE DEF s2
  <2> QED BY <2>1, <1>4
<1> HIDE DEF s2
<1>7. /\ Headed(s3, "timed") /\ Len(s3) = Len(s2) + Len(g)
      /\ \A i \in 1..Len(s2) : s3[i] = s2[i]
      /\ \A i \in 1..Len(g) : s3[Len(s2) + i] = g[i]
  BY <1>2, <1>6, PlainAdded
<1> HIDE DEF s3
<1>8. /\ Headed(s4, "timed") /\ Len(s4) = Len(s3) + 1
      /\ \A i \in 1..Len(s3) : s4[i] = s3[i]
      /\ s4[Len(s3) + 1] = ":"
  <2>1. /\ Headed(s4, "timed") /\ Len(s4) = Len(s3) + Len(colon)
        /\ \A i \in 1..Len(s3) : s4[i] = s3[i]
        /\ \A i \in 1..Len(colon) : s4[Len(s3) + i] = colon[i]
    BY <1>4, <1>7, PlainAdded
  <2> HIDE DEF s4
  <2> QED BY <2>1, <1>4
<1> HIDE DEF s4
<1>9. /\ Headed(b, "timed") /\ Len(b) = Len(s4) + Len(s)
      /\ \A i \in 1..Len(s4) : b[i] = s4[i]
      /\ \A i \in 1..Len(s) : b[Len(s4) + i] = s[i]
  BY <1>2, <1>8, PlainAdded
<1> HIDE DEF b
<1>10. \A i \in 1..Len(s3) : b[i] = s3[i]
  <2>1. \A i \in 1..Len(s3) : i \in 1..Len(s4)
    BY <1>8, <1>7, <1>6, <1>5, <1>2
  <2> QED BY <2>1, <1>8, <1>9
<1>11. \A i \in 1..Len(s2) : b[i] = s2[i]
  <2>1. \A i \in 1..Len(s2) : i \in 1..Len(s3)
    BY <1>7, <1>6, <1>5, <1>2
  <2> QED BY <2>1, <1>7, <1>10
<1>12. \A i \in 1..Len(s1) : b[i] = s1[i]
  <2>1. \A i \in 1..Len(s1) : i \in 1..Len(s2)
    BY <1>6, <1>5, <1>2
  <2> QED BY <2>1, <1>6, <1>11
<1>13. \A i \in 1..Len(h) : b[13 + i] = h[i]
  <2>1. \A i \in 1..Len(h) : 13 + i \in 1..Len(s1)
    BY <1>5, <1>2
  <2> QED BY <2>1, <1>5, <1>12
<1>14. b[13 + Len(h) + 1] = ":"
  <2>1. 13 + Len(h) + 1 = Len(s1) + 1 /\ Len(s1) + 1 \in 1..Len(s2)
    BY <1>6, <1>5, <1>2
  <2> QED BY <2>1, <1>6, <1>11
<1>15. \A i \in 1..Len(g) : b[13 + Len(h) + 1 + i] = g[i]
  <2>1. \A i \in 1..Len(g) : 13 + Len(h) + 1 + i = Len(s2) + i /\ Len(s2) + i \in 1..Len(s3)
    BY <1>7, <1>6, <1>5, <1>2
  <2> QED BY <2>1, <1>7, <1>10
<1>16. b[13 + Len(h) + 1 + Len(g) + 1] = ":"
  <2>1. 13 + Len(h) + 1 + Len(g) + 1 = Len(s3) + 1 /\ Len(s3) + 1 \in 1..Len(s4)
    BY <1>8, <1>7, <1>6, <1>5, <1>2
  <2> QED BY <2>1, <1>8, <1>9
<1>17. 13 + Len(h) + 1 + Len(g) + 1 = Len(s4)
  BY <1>8, <1>7, <1>6, <1>5, <1>2
<1> QED BY <1>0, <1>9, <1>13, <1>14, <1>15, <1>16, <1>17 DEF h, g, s

\* The seven texts of a timing.
Part(t, k) ==
  <<t.off[1], t.off[2], t.off[3], t.on[1], t.on[2], t.on[3], Decimal[t.status]>>[k]

\* How many bytes come before the parts of a timing.
Place(t) ==
  LET n(k) == Len(Part(t, k)) + 1
  IN  <<13,
        13 + n(1),
        13 + n(1) + n(2),
        13 + n(1) + n(2) + n(3),
        13 + n(1) + n(2) + n(3) + n(4),
        13 + n(1) + n(2) + n(3) + n(4) + n(5),
        13 + n(1) + n(2) + n(3) + n(4) + n(5) + n(6)>>

\* The parts of a timing are texts of fields, each a colon behind the other.
LEMMA PlacesFollow ==
  ASSUME NEW t \in Timings
  PROVE  /\ \A k \in 1..7 : Part(t, k) \in Seq(FieldChars) /\ Len(Part(t, k)) \in Nat
         /\ \A k \in 1..7 : Place(t)[k] \in Nat /\ 13 <= Place(t)[k] /\ Place(t)[k] <= Place(t)[7]
         /\ Place(t)[1] = 13
         /\ \A k \in 1..6 : Place(t)[k + 1] = Place(t)[k] + Len(Part(t, k)) + 1
<1> DEFINE v == <<t.off[1], t.off[2], t.off[3], t.on[1], t.on[2], t.on[3], Decimal[t.status]>>
<1>1. /\ t.off[1] \in Seq(FieldChars) /\ t.off[2] \in Seq(FieldChars)
      /\ t.off[3] \in Seq(FieldChars) /\ t.on[1] \in Seq(FieldChars)
      /\ t.on[2] \in Seq(FieldChars) /\ t.on[3] \in Seq(FieldChars)
      /\ Decimal[t.status] \in Seq(FieldChars)
  BY TimingType, DecimalPlain
<1>2. \A k \in 1..7 : v[k] \in Seq(FieldChars)
  BY <1>1
<1>3. \A k \in 1..7 : Part(t, k) \in Seq(FieldChars) /\ Len(Part(t, k)) \in Nat
  <2> HIDE DEF v
  <2>1. \A k \in 1..7 : Part(t, k) = v[k]
    BY DEF Part, v
  <2> QED BY <2>1, <1>2
<1>4. /\ Len(Part(t, 1)) \in Nat /\ Len(Part(t, 2)) \in Nat /\ Len(Part(t, 3)) \in Nat
      /\ Len(Part(t, 4)) \in Nat /\ Len(Part(t, 5)) \in Nat /\ Len(Part(t, 6)) \in Nat
  BY <1>3
<1> DEFINE n1 == Len(Part(t, 1)) + 1
           n2 == Len(Part(t, 2)) + 1
           n3 == Len(Part(t, 3)) + 1
           n4 == Len(Part(t, 4)) + 1
           n5 == Len(Part(t, 5)) + 1
           n6 == Len(Part(t, 6)) + 1
<1>5. Place(t) = <<13, 13 + n1, 13 + n1 + n2, 13 + n1 + n2 + n3, 13 + n1 + n2 + n3 + n4,
                   13 + n1 + n2 + n3 + n4 + n5, 13 + n1 + n2 + n3 + n4 + n5 + n6>>
  BY DEF Place
<1>6. n1 \in Nat /\ n2 \in Nat /\ n3 \in Nat /\ n4 \in Nat /\ n5 \in Nat /\ n6 \in Nat
  BY <1>4
<1>7. /\ Part(t, 1) = Part(t, 1)
      /\ Len(Part(t, 1)) + 1 = n1 /\ Len(Part(t, 2)) + 1 = n2 /\ Len(Part(t, 3)) + 1 = n3
      /\ Len(Part(t, 4)) + 1 = n4 /\ Len(Part(t, 5)) + 1 = n5 /\ Len(Part(t, 6)) + 1 = n6
  OBVIOUS
<1> HIDE DEF n1, n2, n3, n4, n5, n6
<1>8. \A k \in 1..7 : Place(t)[k] \in Nat /\ 13 <= Place(t)[k] /\ Place(t)[k] <= Place(t)[7]
  <2> DEFINE p == Place(t)
  <2>1. /\ p[1] = 13 /\ p[2] = 13 + n1 /\ p[3] = 13 + n1 + n2 /\ p[4] = 13 + n1 + n2 + n3
        /\ p[5] = 13 + n1 + n2 + n3 + n4 /\ p[6] = 13 + n1 + n2 + n3 + n4 + n5
        /\ p[7] = 13 + n1 + n2 + n3 + n4 + n5 + n6
    BY <1>5
  <2> HIDE DEF p
  <2>2. \A k \in 1..7 : k \in {1, 2, 3, 4, 5, 6, 7}
    OBVIOUS
  <2>3. \A k \in {1, 2, 3, 4, 5, 6, 7} : p[k] \in Nat /\ 13 <= p[k] /\ p[k] <= p[7]
    BY <2>1, <1>6
  <2> QED BY <2>2, <2>3 DEF p
<1>9. Place(t)[1] = 13
  BY <1>5
<1>10. \A k \in 1..6 : Place(t)[k + 1] = Place(t)[k] + Len(Part(t, k)) + 1
  <2> DEFINE p == Place(t)
             m(k) == Len(Part(t, k))
  <2>1. /\ p[1] = 13 /\ p[2] = 13 + n1 /\ p[3] = 13 + n1 + n2 /\ p[4] = 13 + n1 + n2 + n3
        /\ p[5] = 13 + n1 + n2 + n3 + n4 /\ p[6] = 13 + n1 + n2 + n3 + n4 + n5
        /\ p[7] = 13 + n1 + n2 + n3 + n4 + n5 + n6
    BY <1>5
  <2>2. /\ m(1) + 1 = n1 /\ m(2) + 1 = n2 /\ m(3) + 1 = n3
        /\ m(4) + 1 = n4 /\ m(5) + 1 = n5 /\ m(6) + 1 = n6
    BY <1>7
  <2>3. \A k \in 1..6 : m(k) \in Nat
    BY <1>3
  <2> HIDE DEF p, m
  <2>4. /\ p[2] = p[1] + m(1) + 1 /\ p[3] = p[2] + m(2) + 1 /\ p[4] = p[3] + m(3) + 1
        /\ p[5] = p[4] + m(4) + 1 /\ p[6] = p[5] + m(5) + 1 /\ p[7] = p[6] + m(6) + 1
    BY <2>1, <2>2, <2>3, <1>6
  <2>5. \A k \in 1..6 : p[k + 1] = p[k] + m(k) + 1
    BY <2>4
  <2> QED BY <2>5 DEF p, m
<1> QED BY <1>3, <1>8, <1>9, <1>10

\* The parts of a timing stand where Place says, with a colon before each but
\* the first.
LEMMA TimedText ==
  ASSUME NEW t \in Timings
  PROVE  /\ Headed(Body(Timed(t)), "timed")
         /\ Len(Body(Timed(t))) = Place(t)[7] + Len(Part(t, 7))
         /\ \A k \in 1..7 : \A i \in 1..Len(Part(t, k)) :
              Body(Timed(t))[Place(t)[k] + i] = Part(t, k)[i]
         /\ \A k \in 2..7 : Body(Timed(t))[Place(t)[k]] = ":"
<1> DEFINE b == Body(Timed(t))
           h == Hms(t.off)
           g == Hms(t.on)
           p == Place(t)
           q1 == t.off[1]
           q2 == t.off[2]
           q3 == t.off[3]
           q4 == t.on[1]
           q5 == t.on[2]
           q6 == t.on[3]
           q7 == Decimal[t.status]
           n1 == Len(q1)
           n2 == Len(q2)
           n3 == Len(q3)
           n4 == Len(q4)
           n5 == Len(q5)
           n6 == Len(q6)
           n7 == Len(q7)
<1>1. /\ Part(t, 1) = q1 /\ Part(t, 2) = q2 /\ Part(t, 3) = q3 /\ Part(t, 4) = q4
      /\ Part(t, 5) = q5 /\ Part(t, 6) = q6 /\ Part(t, 7) = q7
  BY DEF Part
<1>2. /\ t.off[1] \in Seq(Plain) /\ t.off[2] \in Seq(Plain) /\ t.off[3] \in Seq(Plain)
      /\ t.on[1] \in Seq(Plain) /\ t.on[2] \in Seq(Plain) /\ t.on[3] \in Seq(Plain)
  BY TimingType
<1>3. /\ Headed(b, "timed")
      /\ Len(b) = 13 + Len(h) + 1 + Len(g) + 1 + n7
      /\ \A i \in 1..Len(h) : b[13 + i] = h[i]
      /\ b[13 + Len(h) + 1] = ":"
      /\ \A i \in 1..Len(g) : b[13 + Len(h) + 1 + i] = g[i]
      /\ b[13 + Len(h) + 1 + Len(g) + 1] = ":"
      /\ \A i \in 1..n7 : b[13 + Len(h) + 1 + Len(g) + 1 + i] = q7[i]
  BY TimedFrame
<1>4. /\ Len(h) = n1 + 1 + n2 + 1 + n3
      /\ \A i \in 1..n1 : h[i] = q1[i]
      /\ h[n1 + 1] = ":"
      /\ \A i \in 1..n2 : h[n1 + 1 + i] = q2[i]
      /\ h[n1 + 1 + n2 + 1] = ":"
      /\ \A i \in 1..n3 : h[n1 + 1 + n2 + 1 + i] = q3[i]
  BY <1>2, HmsText
<1>5. /\ Len(g) = n4 + 1 + n5 + 1 + n6
      /\ \A i \in 1..n4 : g[i] = q4[i]
      /\ g[n4 + 1] = ":"
      /\ \A i \in 1..n5 : g[n4 + 1 + i] = q5[i]
      /\ g[n4 + 1 + n5 + 1] = ":"
      /\ \A i \in 1..n6 : g[n4 + 1 + n5 + 1 + i] = q6[i]
  BY <1>2, HmsText
<1>7. /\ n1 \in Nat /\ n2 \in Nat /\ n3 \in Nat /\ n4 \in Nat
      /\ n5 \in Nat /\ n6 \in Nat /\ n7 \in Nat
  <2>1. \A k \in 1..7 : Len(Part(t, k)) \in Nat
    BY PlacesFollow
  <2> HIDE DEF q1, q2, q3, q4, q5, q6, q7
  <2> QED BY <2>1, <1>1
<1>8. /\ p[1] = 13 /\ p[2] = p[1] + n1 + 1 /\ p[3] = p[2] + n2 + 1 /\ p[4] = p[3] + n3 + 1
      /\ p[5] = p[4] + n4 + 1 /\ p[6] = p[5] + n5 + 1 /\ p[7] = p[6] + n6 + 1
  <2>1. p[1] = 13 /\ \A k \in 1..6 : p[k + 1] = p[k] + Len(Part(t, k)) + 1
    BY PlacesFollow
  <2> HIDE DEF p, q1, q2, q3, q4, q5, q6, q7
  <2> QED BY <2>1, <1>1
<1> HIDE DEF b, h, g, p, q1, q2, q3, q4, q5, q6, q7, n1, n2, n3, n4, n5, n6, n7
<1>9. /\ p[1] = 13 /\ p[2] = 13 + n1 + 1 /\ p[3] = 13 + n1 + 1 + n2 + 1
      /\ p[4] = 13 + Len(h) + 1 /\ p[5] = 13 + Len(h) + 1 + n4 + 1
      /\ p[6] = 13 + Len(h) + 1 + n4 + 1 + n5 + 1
      /\ p[7] = 13 + Len(h) + 1 + Len(g) + 1
      /\ Len(h) = n1 + 1 + n2 + 1 + n3 /\ Len(g) = n4 + 1 + n5 + 1 + n6
  BY <1>4, <1>5, <1>7, <1>8
<1>10. \A i \in 1..n1 : b[p[1] + i] = q1[i]
  <2> SUFFICES ASSUME NEW i \in 1..n1 PROVE b[p[1] + i] = q1[i]
    OBVIOUS
  <2>1. i \in 1..Len(h) /\ p[1] + i = 13 + i
    BY <1>7, <1>9
  <2> QED BY <2>1, <1>3, <1>4
<1>11. \A i \in 1..n2 : b[p[2] + i] = q2[i]
  <2> SUFFICES ASSUME NEW i \in 1..n2 PROVE b[p[2] + i] = q2[i]
    OBVIOUS
  <2>1. n1 + 1 + i \in 1..Len(h) /\ p[2] + i = 13 + (n1 + 1 + i)
    BY <1>7, <1>9
  <2>2. h[n1 + 1 + i] = q2[i]
    BY <1>7, <1>4
  <2> QED BY <2>1, <2>2, <1>3
<1>12. \A i \in 1..n3 : b[p[3] + i] = q3[i]
  <2> SUFFICES ASSUME NEW i \in 1..n3 PROVE b[p[3] + i] = q3[i]
    OBVIOUS
  <2>1. n1 + 1 + n2 + 1 + i \in 1..Len(h) /\ p[3] + i = 13 + (n1 + 1 + n2 + 1 + i)
    BY <1>7, <1>9
  <2>2. h[n1 + 1 + n2 + 1 + i] = q3[i]
    BY <1>7, <1>4
  <2> QED BY <2>1, <2>2, <1>3
<1>13. \A i \in 1..n4 : b[p[4] + i] = q4[i]
  <2> SUFFICES ASSUME NEW i \in 1..n4 PROVE b[p[4] + i] = q4[i]
    OBVIOUS
  <2>1. i \in 1..Len(g) /\ p[4] + i = 13 + Len(h) + 1 + i
    BY <1>7, <1>9
  <2> QED BY <2>1, <1>3, <1>5
<1>14. \A i \in 1..n5 : b[p[5] + i] = q5[i]
  <2> SUFFICES ASSUME NEW i \in 1..n5 PROVE b[p[5] + i] = q5[i]
    OBVIOUS
  <2>1. n4 + 1 + i \in 1..Len(g) /\ p[5] + i = 13 + Len(h) + 1 + (n4 + 1 + i)
    BY <1>7, <1>9
  <2>2. g[n4 + 1 + i] = q5[i]
    BY <1>7, <1>5
  <2> QED BY <2>1, <2>2, <1>3
<1>15. \A i \in 1..n6 : b[p[6] + i] = q6[i]
  <2> SUFFICES ASSUME NEW i \in 1..n6 PROVE b[p[6] + i] = q6[i]
    OBVIOUS
  <2>1. n4 + 1 + n5 + 1 + i \in 1..Len(g) /\ p[6] + i = 13 + Len(h) + 1 + (n4 + 1 + n5 + 1 + i)
    BY <1>7, <1>9
  <2>2. g[n4 + 1 + n5 + 1 + i] = q6[i]
    BY <1>7, <1>5
  <2> QED BY <2>1, <2>2, <1>3
<1>16. \A i \in 1..n7 : b[p[7] + i] = q7[i]
  BY <1>3, <1>9
<1>17. b[p[2]] = ":"
  <2>1. n1 + 1 \in 1..Len(h) /\ p[2] = 13 + (n1 + 1)
    BY <1>7, <1>9
  <2>2. h[n1 + 1] = ":"
    BY <1>4
  <2> QED BY <2>1, <2>2, <1>3
<1>18. b[p[3]] = ":"
  <2>1. n1 + 1 + n2 + 1 \in 1..Len(h) /\ p[3] = 13 + (n1 + 1 + n2 + 1)
    BY <1>7, <1>9
  <2>2. h[n1 + 1 + n2 + 1] = ":"
    BY <1>4
  <2> QED BY <2>1, <2>2, <1>3
<1>19. b[p[4]] = ":"
  BY <1>3, <1>9
<1>20. b[p[5]] = ":"
  <2>1. n4 + 1 \in 1..Len(g) /\ p[5] = 13 + Len(h) + 1 + (n4 + 1)
    BY <1>7, <1>9
  <2>2. g[n4 + 1] = ":"
    BY <1>5
  <2> QED BY <2>1, <2>2, <1>3
<1>21. b[p[6]] = ":"
  <2>1. n4 + 1 + n5 + 1 \in 1..Len(g) /\ p[6] = 13 + Len(h) + 1 + (n4 + 1 + n5 + 1)
    BY <1>7, <1>9
  <2>2. g[n4 + 1 + n5 + 1] = ":"
    BY <1>5
  <2> QED BY <2>1, <2>2, <1>3
<1>22. b[p[7]] = ":"
  BY <1>3, <1>9
<1>23. \A k \in 1..7 : \A i \in 1..Len(Part(t, k)) : b[p[k] + i] = Part(t, k)[i]
  <2> SUFFICES ASSUME NEW k \in 1..7
               PROVE  \A i \in 1..Len(Part(t, k)) : b[p[k] + i] = Part(t, k)[i]
    OBVIOUS
  <2>1. k = 1 \/ k = 2 \/ k = 3 \/ k = 4 \/ k = 5 \/ k = 6 \/ k = 7
    OBVIOUS
  <2> QED BY <2>1, <1>1, <1>10, <1>11, <1>12, <1>13, <1>14, <1>15, <1>16
           DEF n1, n2, n3, n4, n5, n6, n7
<1>24. \A k \in 2..7 : b[p[k]] = ":"
  <2> SUFFICES ASSUME NEW k \in 2..7 PROVE b[p[k]] = ":"
    OBVIOUS
  <2>1. k = 2 \/ k = 3 \/ k = 4 \/ k = 5 \/ k = 6 \/ k = 7
    OBVIOUS
  <2> QED BY <2>1, <1>17, <1>18, <1>19, <1>20, <1>21, <1>22
<1>25. Headed(b, "timed") /\ Len(b) = p[7] + Len(Part(t, 7))
  BY <1>1, <1>3, <1>9 DEF n7
<1> QED BY <1>23, <1>24, <1>25 DEF b, p

\* Where the fields of a timing begin, one byte less.
FirstBits(bit, d, at, first_len) ==
  LET hours == Field(d, at + 12, first_len)
  IN  /\ bit[2] = IF Len(hours) < first_len THEN AfterColon(12, hours) ELSE at
      /\ \A k \in 3..7 : bit[k] = Behind(d, bit[k - 1], first_len)
      /\ \A k \in 2..7 : TimedFields(d, at, first_len)[k] = Field(d, bit[k], first_len)
      /\ TimedFields(d, at, first_len)[1] = hours

\* The loop of first_bit over the fields has values that obey it.
LEMMA FirstBitsExist ==
  ASSUME NEW d, NEW at, NEW first_len
  PROVE  \E bit : FirstBits(bit, d, at, first_len)
<1> DEFINE hours == Field(d, at + 12, first_len)
           b2 == IF Len(hours) < first_len THEN AfterColon(12, hours) ELSE at
           F(x) == Behind(d, x, first_len)
           b3 == F(b2)
           b4 == F(b3)
           b5 == F(b4)
           b6 == F(b5)
           b7 == F(b6)
           Fill(f) == [k \in 2..7 |-> IF k = 2 THEN b2 ELSE F(f[k - 1])]
           bits == [k \in 2..7 |-> IF k = 2 THEN b2 ELSE IF k = 3 THEN b3 ELSE IF k = 4 THEN b4
                                   ELSE IF k = 5 THEN b5 ELSE IF k = 6 THEN b6 ELSE b7]
           first_bit == CHOOSE f : f = Fill(f)
<1>1. bits = Fill(bits)
  <2> HIDE DEF b2, F
  <2>1. b3 = F(b2)
    OBVIOUS
  <2> HIDE DEF b3
  <2>2. b4 = F(b3)
    OBVIOUS
  <2> HIDE DEF b4
  <2>3. b5 = F(b4)
    OBVIOUS
  <2> HIDE DEF b5
  <2>4. b6 = F(b5)
    OBVIOUS
  <2> HIDE DEF b6
  <2>5. b7 = F(b6)
    OBVIOUS
  <2> HIDE DEF b7
  <2>6. /\ bits[2] = b2 /\ bits[3] = b3 /\ bits[4] = b4
        /\ bits[5] = b5 /\ bits[6] = b6 /\ bits[7] = b7
    OBVIOUS
  <2>7. \A k \in 2..7 : bits[k] = Fill(bits)[k]
    <3> SUFFICES ASSUME NEW k \in 2..7
                 PROVE  bits[k] = IF k = 2 THEN b2 ELSE F(bits[k - 1])
      OBVIOUS
    <3> HIDE DEF bits
    <3>1. k = 2 \/ k = 3 \/ k = 4 \/ k = 5 \/ k = 6 \/ k = 7
      OBVIOUS
    <3> QED BY <3>1, <2>1, <2>2, <2>3, <2>4, <2>5, <2>6
  <2> QED BY <2>7
<1> HIDE DEF b3, b4, b5, b6, b7, bits
<1>2. first_bit = Fill(first_bit)
  <2> HIDE DEF Fill
  <2> QED BY <1>1
<1>3. /\ \A k \in 2..7 : TimedFields(d, at, first_len)[k] = Field(d, first_bit[k], first_len)
      /\ TimedFields(d, at, first_len)[1] = hours
  BY DEF TimedFields
<1> HIDE DEF first_bit
<1>4. /\ first_bit[2] = b2
      /\ \A k \in 3..7 : first_bit[k] = F(first_bit[k - 1])
  <2> HIDE DEF b2, F
  <2> QED BY <1>2
<1> QED BY <1>3, <1>4 DEF FirstBits

\* An array that begins with text.
Holds(d, text) ==
  /\ d \in [0..(DataSize - 1) -> Characters]
  /\ Len(text) <= DataSize
  /\ \A i \in 1..Len(text) : d[i - 1] = text[i]

\* A field of a timing that a colon ends is read as it was written.
LEMMA FieldIsPart ==
  ASSUME NEW t \in Timings, NEW d, Holds(d, Body(Timed(t))), NEW k \in 1..6
  PROVE  /\ Field(d, Place(t)[k] - 1, Len(Body(Timed(t))) - 13) = Part(t, k)
         /\ Len(Part(t, k)) < Len(Body(Timed(t))) - 13
<1> DEFINE b == Body(Timed(t))
           p == Place(t)
           s == Part(t, k)
           n == Len(b) - 13
           bytes == Bytes(d, p[k], n)
<1>1. s \in Seq(FieldChars) /\ Len(s) \in Nat /\ Len(Part(t, 7)) \in Nat
  BY PlacesFollow
<1>2. /\ p[k] \in Nat /\ 13 <= p[k] /\ p[k + 1] = p[k] + Len(s) + 1
      /\ p[k + 1] \in Nat /\ p[k + 1] <= p[7] /\ p[7] \in Nat
  <2>1. k + 1 \in 1..7 /\ k \in 1..7 /\ 7 \in 1..7
    OBVIOUS
  <2> QED BY <2>1, PlacesFollow
<1>3. /\ Len(b) = p[7] + Len(Part(t, 7))
      /\ \A i \in 1..Len(s) : b[p[k] + i] = s[i]
      /\ b[p[k + 1]] = ":"
  <2>1. k + 1 \in 2..7 /\ k \in 1..7
    OBVIOUS
  <2> QED BY <2>1, TimedText
<1>4. /\ d \in [0..(DataSize - 1) -> Characters] /\ Len(b) <= DataSize
      /\ \A i \in 1..Len(b) : d[i - 1] = b[i]
  BY DEF Holds
<1>5. Field(d, p[k] - 1, n) = UpToColon(bytes)
  <2>1. (p[k] - 1) + 1 = p[k]
    BY <1>2
  <2> QED BY <2>1 DEF Field
<1> HIDE DEF b, p, s
<1>6. n \in Nat /\ Len(s) < n /\ Len(b) \in Nat /\ DataSize \in Nat
  <2> DEFINE m == Len(s)
             m7 == Len(Part(t, 7))
             l == Len(b)
             x == p[k]
             y == p[k + 1]
             z == p[7]
  <2>1. /\ m \in Nat /\ m7 \in Nat /\ x \in Nat /\ y \in Nat /\ z \in Nat
        /\ 13 <= x /\ y = x + m + 1 /\ y <= z /\ l = z + m7
    BY <1>1, <1>2, <1>3
  <2> HIDE DEF m, m7, l, x, y, z
  <2>2. l - 13 \in Nat /\ m < l - 13 /\ l \in Nat
    BY <2>1
  <2> QED BY <2>2, CommandAssumption DEF CommandAssumption, l, m
<1>7. /\ bytes \in Seq(Characters) /\ Len(bytes) = n
      /\ \A i \in 1..n : p[k] + i - 1 < DataSize => bytes[i] = d[p[k] + i - 1]
  <2> HIDE DEF n
  <2> QED BY <1>2, <1>4, <1>6, BytesType
<1>8. \A i \in 1..(Len(s) + 1) : bytes[i] = b[p[k] + i]
  <2> HIDE DEF n, bytes
  <2> SUFFICES ASSUME NEW i \in 1..(Len(s) + 1) PROVE bytes[i] = b[p[k] + i]
    OBVIOUS
  <2>1. i \in 1..n /\ p[k] + i \in 1..Len(b) /\ (p[k] + i) - 1 = p[k] + i - 1 /\ p[k] + i - 1 < DataSize
    <3> DEFINE m == Len(s)
               m7 == Len(Part(t, 7))
               l == Len(b)
               x == p[k]
               y == p[k + 1]
               z == p[7]
    <3>1. /\ m \in Nat /\ m7 \in Nat /\ x \in Nat /\ y \in Nat /\ z \in Nat
          /\ 13 <= x /\ y = x + m + 1 /\ y <= z /\ l = z + m7
          /\ l <= DataSize /\ DataSize \in Nat /\ i \in 1..(m + 1)
      BY <1>1, <1>2, <1>3, <1>4, <1>6
    <3> HIDE DEF m, m7, l, x, y, z
    <3>2. /\ i \in 1..(l - 13) /\ x + i \in 1..l /\ (x + i) - 1 = x + i - 1
          /\ x + i - 1 < DataSize
      BY <3>1
    <3> QED BY <3>2 DEF n, l, x
  <2> QED BY <2>1, <1>4, <1>7
<1>9. (\A i \in 1..Len(s) : bytes[i] = s[i]) /\ bytes[Len(s) + 1] = ":"
  <2> HIDE DEF n, bytes
  <2>1. Len(s) + 1 \in 1..(Len(s) + 1) /\ p[k] + (Len(s) + 1) = p[k + 1]
    BY <1>1, <1>2
  <2>2. \A i \in 1..Len(s) : i \in 1..(Len(s) + 1)
    BY <1>1
  <2> QED BY <2>1, <2>2, <1>3, <1>8
<1>10. UpToColon(bytes) = s
  <2> HIDE DEF n, bytes
  <2> QED BY <1>1, <1>6, <1>7, <1>9, TextBeforeColon
<1> QED BY <1>5, <1>6, <1>10 DEF b, p, s

\* The six fields of the durations are read as they were written, and the last
\* one is read from where the status stands.
THEOREM FieldsAreParts ==
  ASSUME NEW t \in Timings, NEW d, Holds(d, Body(Timed(t)))
  PROVE  LET n == Len(Body(Timed(t))) - 13
         IN  /\ \A k \in 1..6 : TimedFields(d, 0, n)[k] = Part(t, k)
             /\ TimedFields(d, 0, n)[7] = Field(d, Place(t)[7] - 1, n)
<1> DEFINE n == Len(Body(Timed(t))) - 13
           p == Place(t)
           F == TimedFields(d, 0, n)
<1>1. PICK bit : FirstBits(bit, d, 0, n)
  BY FirstBitsExist
<1>2. \A k \in 1..6 : Field(d, p[k] - 1, n) = Part(t, k) /\ Len(Part(t, k)) < n
  BY FieldIsPart
<1>3. \A k \in 1..7 : Len(Part(t, k)) \in Nat /\ p[k] \in Nat
  BY PlacesFollow
<1>4. p[1] = 13 /\ \A k \in 1..6 : p[k + 1] = p[k] + Len(Part(t, k)) + 1
  BY PlacesFollow
<1>5. Field(d, 0 + 12, n) = Part(t, 1)
  <2>1. p[1] - 1 = 0 + 12 /\ 1 \in 1..6
    BY <1>4
  <2> QED BY <2>1, <1>2
<1>6. /\ bit[2] = IF Len(Field(d, 0 + 12, n)) < n THEN AfterColon(12, Field(d, 0 + 12, n)) ELSE 0
      /\ \A k \in 3..7 : bit[k] = Behind(d, bit[k - 1], n)
      /\ \A k \in 2..7 : F[k] = Field(d, bit[k], n)
      /\ F[1] = Field(d, 0 + 12, n)
  BY <1>1 DEF FirstBits
<1> HIDE DEF F, n, p
<1>7. bit[2] = p[2] - 1
  <2>1. Len(Part(t, 1)) < n /\ Len(Part(t, 1)) \in Nat
    BY <1>2, <1>3
  <2>2. p[2] = p[1] + Len(Part(t, 1)) + 1
    <3>1. 1 \in 1..6 /\ 1 + 1 = 2
      OBVIOUS
    <3> QED BY <3>1, <1>4
  <2>3. bit[2] = 12 + Len(Part(t, 1)) + 1
    BY <1>5, <1>6, <2>1 DEF AfterColon
  <2> QED BY <2>1, <2>2, <2>3, <1>4
<1>8. ASSUME NEW k \in 2..6, bit[k] = p[k] - 1
      PROVE  bit[k + 1] = p[k + 1] - 1
  <2>1. k + 1 \in 3..7 /\ (k + 1) - 1 = k /\ k \in 1..6 /\ k \in 1..7
    OBVIOUS
  <2>2. bit[k + 1] = Behind(d, p[k] - 1, n)
    BY <2>1, <1>6, <1>8
  <2>3. Behind(d, p[k] - 1, n) = (p[k] - 1) + Len(Part(t, k)) + 1
    BY <2>1, <1>2 DEF Behind, AfterColon
  <2>4. p[k + 1] = p[k] + Len(Part(t, k)) + 1 /\ Len(Part(t, k)) \in Nat /\ p[k] \in Nat
    BY <2>1, <1>3, <1>4
  <2> QED BY <2>2, <2>3, <2>4
<1>9. bit[3] = p[3] - 1
  <2>1. 2 \in 2..6 /\ 2 + 1 = 3
    OBVIOUS
  <2> QED BY <2>1, <1>7, <1>8
<1>10. bit[4] = p[4] - 1
  <2>1. 3 \in 2..6 /\ 3 + 1 = 4
    OBVIOUS
  <2> QED BY <2>1, <1>9, <1>8
<1>11. bit[5] = p[5] - 1
  <2>1. 4 \in 2..6 /\ 4 + 1 = 5
    OBVIOUS
  <2> QED BY <2>1, <1>10, <1>8
<1>12. bit[6] = p[6] - 1
  <2>1. 5 \in 2..6 /\ 5 + 1 = 6
    OBVIOUS
  <2> QED BY <2>1, <1>11, <1>8
<1>13. bit[7] = p[7] - 1
  <2>1. 6 \in 2..6 /\ 6 + 1 = 7
    OBVIOUS
  <2> QED BY <2>1, <1>12, <1>8
<1>14. \A k \in 1..6 : F[k] = Part(t, k)
  <2> SUFFICES ASSUME NEW k \in 1..6 PROVE F[k] = Part(t, k)
    OBVIOUS
  <2>1. k = 1 \/ k = 2 \/ k = 3 \/ k = 4 \/ k = 5 \/ k = 6
    OBVIOUS
  <2>2. CASE k = 1
    BY <2>2, <1>5, <1>6
  <2>3. CASE k # 1
    <3>1. bit[k] = p[k] - 1 /\ k \in 2..7
      BY <2>1, <2>3, <1>7, <1>9, <1>10, <1>11, <1>12
    <3> QED BY <3>1, <1>2, <1>6
  <2> QED BY <2>2, <2>3
<1>15. F[7] = Field(d, p[7] - 1, n)
  <2>1. 7 \in 2..7
    OBVIOUS
  <2> QED BY <2>1, <1>6, <1>13
<1> QED BY <1>14, <1>15 DEF F, n, p

\* The fields that are read from d when it holds a timing.
Fields(t, d) == TimedFields(d, 0, Len(Body(Timed(t))) - 13)

\* The fields of a whole duration are below the program's limit, as it is itself.
LEMMA DurationsFit ==
  ASSUME NEW h \in Durations
  PROVE  /\ InSeconds(h) \in Nat /\ InSeconds(h) < Uint32
         /\ \A k \in 1..3 : h[k] \in Nat /\ h[k] < Uint32
<1>1. h \in Nat \X Nat \X Nat /\ InSeconds(h) < Uint32 /\ Uint32 \in Nat
  BY CommandAssumption DEF CommandAssumption
<1> DEFINE a == h[1]
           b == h[2]
           c == h[3]
<1>2. a \in Nat /\ b \in Nat /\ c \in Nat
  BY <1>1
<1>3. InSeconds(h) = a * 3600 + b * 60 + c
  BY DEF InSeconds
<1>4. \A k \in 1..3 : k = 1 \/ k = 2 \/ k = 3
  OBVIOUS
<1> HIDE DEF a, b, c
<1>5. /\ InSeconds(h) \in Nat
      /\ a <= InSeconds(h) /\ b <= InSeconds(h) /\ c <= InSeconds(h)
  BY <1>2, <1>3, SMT
<1>6. a < Uint32 /\ b < Uint32 /\ c < Uint32
  BY <1>1, <1>2, <1>5
<1> QED BY <1>1, <1>2, <1>4, <1>5, <1>6 DEF a, b, c

\* Three fields that hold a whole duration give its seconds.
LEMMA SecondsOfTyped ==
  ASSUME NEW f, NEW k, NEW h \in Durations,
         f[k] = Decimal[h[1]], f[k + 1] = Decimal[h[2]], f[k + 2] = Decimal[h[3]]
  PROVE  Seconds(f, k) = InSeconds(h)
<1>1. \A j \in 1..3 : Number(Decimal[h[j]]) = h[j]
  BY DurationsFit, NumberOfDecimal
<1>2. Number(f[k]) = h[1] /\ Number(f[k + 1]) = h[2] /\ Number(f[k + 2]) = h[3]
  <2>1. 1 \in 1..3 /\ 2 \in 1..3 /\ 3 \in 1..3
    OBVIOUS
  <2> QED BY <2>1, <1>1
<1>3. Seconds(f, k) = InSeconds(h) % Uint32
  BY <1>2 DEF Seconds, InSeconds
<1>4. InSeconds(h) % Uint32 = InSeconds(h)
  BY DurationsFit, Wraps
<1> QED BY <1>3, <1>4

\* The six fields of the durations give the seconds of each that is whole.
LEMMA DurationsRead ==
  ASSUME NEW t \in Timings, NEW d, Holds(d, Body(Timed(t))), NEW h \in Durations
  PROVE  /\ t.off = Plainly(h) => Seconds(Fields(t, d), 1) = InSeconds(h)
         /\ t.on = Plainly(h) => Seconds(Fields(t, d), 4) = InSeconds(h)
<1> DEFINE F == Fields(t, d)
<1>1. \A k \in 1..6 : F[k] = Part(t, k)
  BY FieldsAreParts DEF Fields
<1>2. /\ Part(t, 1) = t.off[1] /\ Part(t, 2) = t.off[2] /\ Part(t, 3) = t.off[3]
      /\ Part(t, 4) = t.on[1] /\ Part(t, 5) = t.on[2] /\ Part(t, 6) = t.on[3]
  BY DEF Part
<1>3. \A x : x = Plainly(h) =>
        x[1] = Decimal[h[1]] /\ x[2] = Decimal[h[2]] /\ x[3] = Decimal[h[3]]
  BY DEF Plainly
<1>4. 1 + 1 = 2 /\ 1 + 2 = 3 /\ 4 + 1 = 5 /\ 4 + 2 = 6
  OBVIOUS
<1> HIDE DEF F
<1>5. ASSUME t.off = Plainly(h) PROVE Seconds(F, 1) = InSeconds(h)
  <2>1. F[1] = Decimal[h[1]] /\ F[1 + 1] = Decimal[h[2]] /\ F[1 + 2] = Decimal[h[3]]
    BY <1>1, <1>2, <1>3, <1>4, <1>5
  <2> QED BY <2>1, SecondsOfTyped
<1>6. ASSUME t.on = Plainly(h) PROVE Seconds(F, 4) = InSeconds(h)
  <2>1. F[4] = Decimal[h[1]] /\ F[4 + 1] = Decimal[h[2]] /\ F[4 + 2] = Decimal[h[3]]
    BY <1>1, <1>2, <1>3, <1>4, <1>6
  <2> QED BY <2>1, SecondsOfTyped
<1> QED BY <1>5, <1>6 DEF F

\* A byte holds numbers up to 255.
LEMMA ByteHolds == \A x \in 0..255 : (x % 256) = x
OBVIOUS

\* A byte is a number up to 255.
LEMMA ByteType == \A x \in Int : (x % 256) \in 0..255
OBVIOUS

\* No longer message has left digits behind the timing.
LEMMA StatusRead ==
  ASSUME NEW t \in Timings, NEW d, Holds(d, Body(Timed(t))),
         \A i \in 0..(DataSize - 1) : i >= Len(Body(Timed(t))) => d[i] = "."
  PROVE  Temp(Fields(t, d)[7]) = t.status
<1> DEFINE b == Body(Timed(t))
           p == Place(t)[7]
           s == Part(t, 7)
           n == Len(b) - 13
           bytes == Bytes(d, p, n)
<1>1. s \in Seq(FieldChars) /\ Len(s) \in Nat /\ p \in Nat /\ 13 <= p
  BY PlacesFollow
<1>2. Len(b) = p + Len(s) /\ \A i \in 1..Len(s) : b[p + i] = s[i]
  BY TimedText
<1>3. /\ d \in [0..(DataSize - 1) -> Characters] /\ Len(b) <= DataSize
      /\ \A i \in 1..Len(b) : d[i - 1] = b[i]
  BY DEF Holds
<1>4. Fields(t, d)[7] = UpToColon(bytes)
  <2>1. (p - 1) + 1 = p
    BY <1>1
  <2>2. Fields(t, d)[7] = Field(d, p - 1, n)
    BY FieldsAreParts DEF Fields
  <2> QED BY <2>1, <2>2 DEF Field
<1>5. \A i \in 0..(DataSize - 1) : i >= Len(b) => d[i] = "."
  OBVIOUS
<1>6. s = Decimal[t.status] /\ t.status \in Nat /\ t.status \in 0..255 /\ t.status < Uint32
  BY TimingType DEF Part
<1> HIDE DEF b, p, s
<1> DEFINE m == Len(s)
           l == Len(b)
<1>7. /\ m \in Nat /\ p \in Nat /\ 13 <= p /\ l = p + m /\ l <= DataSize
      /\ DataSize \in Nat /\ n = l - 13
  BY <1>1, <1>2, <1>3, DataSizeType
<1> HIDE DEF m, l, n
<1>8. n \in Nat /\ m <= n
  BY <1>7
<1>9. /\ Len(bytes) = n /\ bytes \in Seq(Characters)
      /\ \A i \in 1..n : p + i - 1 < DataSize => bytes[i] = d[p + i - 1]
      /\ \A i \in 1..n : ~(p + i - 1 < DataSize) => bytes[i] = "."
  <2>1. d \in [0..(DataSize - 1) -> Characters] /\ p \in Nat /\ n \in Nat
    BY <1>3, <1>7, <1>8
  <2> QED BY <2>1, BytesType
<1> HIDE DEF bytes
<1>10. \A i \in 1..m : bytes[i] = s[i]
  <2> SUFFICES ASSUME NEW i \in 1..m PROVE bytes[i] = s[i]
    OBVIOUS
  <2>1. /\ i \in 1..n /\ p + i \in 1..l /\ (p + i) - 1 = p + i - 1 /\ p + i - 1 < DataSize
    BY <1>7, <1>8
  <2>2. d[(p + i) - 1] = b[p + i] /\ b[p + i] = s[i]
    BY <2>1, <1>2, <1>3 DEF l, m
  <2> QED BY <2>1, <2>2, <1>9
<1>11. \A i \in (m + 1)..n : bytes[i] = "."
  <2> SUFFICES ASSUME NEW i \in (m + 1)..n PROVE bytes[i] = "."
    OBVIOUS
  <2>1. i \in 1..n /\ p + i - 1 \in Nat /\ p + i - 1 >= l
    BY <1>7, <1>8
  <2>2. CASE p + i - 1 < DataSize
    <3>1. p + i - 1 \in 0..(DataSize - 1)
      BY <2>1, <2>2, <1>7
    <3> QED BY <3>1, <2>1, <2>2, <1>5, <1>9 DEF l
  <2> QED BY <2>1, <2>2, <1>9
<1>12. \A i \in DOMAIN bytes : bytes[i] # ":"
  <2>1. DOMAIN bytes = 1..n
    BY <1>9
  <2>2. \A i \in 1..n : i \in 1..m \/ i \in (m + 1)..n
    BY <1>7, <1>8
  <2>3. \A i \in 1..m : s[i] \in FieldChars
    BY <1>1 DEF m
  <2> QED BY <2>1, <2>2, <2>3, <1>10, <1>11, CharacterKinds
<1>13. Fields(t, d)[7] = bytes
  BY <1>4, <1>12, TextWithoutColon DEF bytes
<1>14. Number(bytes) = Number(s)
  BY <1>7, <1>8, <1>9, <1>10, <1>11, CharacterKinds, NumberIgnoresOthers DEF m
<1>15. Number(s) = t.status
  BY <1>6, NumberOfDecimal
<1>16. t.status % 256 = t.status
  BY <1>6, ByteHolds
<1> QED BY <1>13, <1>14, <1>15, <1>16 DEF Temp, TempValues

\* A field has a length, and the next one a place, whatever the array holds.
LEMMA FieldType ==
  ASSUME NEW d \in [0..(DataSize - 1) -> Characters], NEW bit \in Nat, NEW first_len \in Nat
  PROVE  /\ Len(Field(d, bit, first_len)) \in Nat
         /\ Behind(d, bit, first_len) \in Nat
<1>1. bit + 1 \in Nat
  OBVIOUS
<1>2. /\ Bytes(d, bit + 1, first_len) \in Seq(Characters)
      /\ Len(Bytes(d, bit + 1, first_len)) = first_len
  BY <1>1, BytesType
<1>3. Len(Field(d, bit, first_len)) \in Nat
  BY <1>2, UpToColonType DEF Field
<1> QED BY <1>3 DEF Behind, AfterColon

\* Whatever the array holds, the fields can be read as numbers.
LEMMA FieldsType ==
  ASSUME NEW d \in [0..(DataSize - 1) -> Characters], NEW at \in Nat, NEW first_len \in Nat
  PROVE  \A k \in 1..7 : Number(TimedFields(d, at, first_len)[k]) \in Nat
<1> DEFINE F == TimedFields(d, at, first_len)
<1>1. PICK bit : FirstBits(bit, d, at, first_len)
  BY FirstBitsExist
<1>2. at + 12 \in Nat
  OBVIOUS
<1>3. Len(Field(d, at + 12, first_len)) \in Nat
  BY <1>2, FieldType
<1>4. bit[2] \in Nat
  BY <1>1, <1>3 DEF FirstBits, AfterColon
<1>5. \A k \in 3..7 : bit[k - 1] \in Nat => bit[k] \in Nat
  BY <1>1, FieldType DEF FirstBits
<1>6. bit[3] \in Nat
  <2>1. 3 \in 3..7 /\ 3 - 1 = 2
    OBVIOUS
  <2> QED BY <2>1, <1>4, <1>5
<1>7. bit[4] \in Nat
  <2>1. 4 \in 3..7 /\ 4 - 1 = 3
    OBVIOUS
  <2> QED BY <2>1, <1>5, <1>6
<1>8. bit[5] \in Nat
  <2>1. 5 \in 3..7 /\ 5 - 1 = 4
    OBVIOUS
  <2> QED BY <2>1, <1>5, <1>7
<1>9. bit[6] \in Nat
  <2>1. 6 \in 3..7 /\ 6 - 1 = 5
    OBVIOUS
  <2> QED BY <2>1, <1>5, <1>8
<1>10. bit[7] \in Nat
  <2>1. 7 \in 3..7 /\ 7 - 1 = 6
    OBVIOUS
  <2> QED BY <2>1, <1>5, <1>9
<1>11. \A k \in 1..7 : Len(F[k]) \in Nat
  <2> SUFFICES ASSUME NEW k \in 1..7 PROVE Len(F[k]) \in Nat
    OBVIOUS
  <2>1. CASE k = 1
    BY <2>1, <1>1, <1>3 DEF FirstBits
  <2>2. CASE k # 1
    <3>1. k \in 2..7 /\ bit[k] \in Nat
      <4>1. k = 2 \/ k = 3 \/ k = 4 \/ k = 5 \/ k = 6 \/ k = 7
        BY <2>2
      <4> QED BY <4>1, <1>4, <1>6, <1>7, <1>8, <1>9, <1>10
    <3>2. F[k] = Field(d, bit[k], first_len)
      BY <3>1, <1>1 DEF FirstBits
    <3> HIDE DEF F
    <3> QED BY <3>1, <3>2, FieldType
  <2> QED BY <2>1, <2>2
<1> HIDE DEF F
<1>12. \A k \in 1..7 : Number(F[k]) \in Nat
  BY <1>11, NumberType
<1> QED BY <1>12 DEF F

------------------------------------------------------------------------------
(***************************************************************************)
(* The bodies of the requests.                                             *)
(***************************************************************************)

\* The keywords that begin a request.
Leading == {"timed", "ssid", "pairing", "exit"}

\* Names are not empty, and passwords have eight bytes or more.
LEMMA NetworkType ==
  ASSUME NEW n \in Networks
  PROVE  n[1] \in Nat /\ n[1] > 0 /\ n[2] \in Nat /\ n[2] >= 8
<1>1. n \in (Nat \ {0}) \X Nat /\ n[2] >= 8
  BY CommandAssumption DEF CommandAssumption
<1> QED BY <1>1

\* The request for a network.
Network(n) == [kind |-> "ssid", arg |-> n]

\* A network: the second keyword stands right behind the name.
LEMMA NetworkText ==
  ASSUME NEW n \in Networks
  PROVE  LET b == Body(Network(n))
         IN  /\ b \in Seq(Characters)
             /\ Len(b) = 10 + n[1] + n[2]
             /\ b[1] = "ssid" /\ b[5] = ":"
             /\ b[6 + n[1]] = "pass" /\ b[10 + n[1]] = ":"
             /\ \A i \in 2..Len(b) : i # 6 + n[1] => b[i] \in Plain
<1> DEFINE x == n[1]
           y == n[2]
           k1 == Keyword("ssid")
           k2 == Keyword("pass")
           d1 == Dots(x)
           d2 == Dots(y)
           s1 == k1 \o d1
           s2 == s1 \o k2
           s3 == s2 \o d2
<1>1. Body(Network(n)) = s3
  BY DEF Body, Network
<1>2. x \in Nat /\ y \in Nat
  BY NetworkType
<1>3. /\ d1 \in Seq(Plain) /\ Len(d1) = x
      /\ d2 \in Seq(Plain) /\ Len(d2) = y
  BY <1>2, DotsPlain
<1>4. /\ Headed(k1, "ssid") /\ Len(k1) = 5 /\ k1[5] = ":"
      /\ Headed(k2, "pass") /\ Len(k2) = 5 /\ k2[5] = ":"
  <2>1. /\ "ssid" \in Keywords /\ "pass" \in Keywords
        /\ KeyLength["ssid"] = 5 /\ KeyLength["pass"] = 5
    BY DEF Keywords, KeyLength
  <2> QED BY <2>1, KeywordHeads
<1> HIDE DEF x, y, k1, k2, d1, d2
<1>5. Headed(s1, "ssid") /\ Len(s1) = 5 + x /\ s1[5] = ":"
  <2>1. /\ Headed(s1, "ssid") /\ Len(s1) = Len(k1) + Len(d1)
        /\ \A i \in 1..Len(k1) : s1[i] = k1[i]
    BY <1>3, <1>4, PlainAdded
  <2>2. 5 \in 1..Len(k1)
    BY <1>4
  <2> HIDE DEF s1
  <2> QED BY <2>1, <2>2, <1>3, <1>4
<1> HIDE DEF s1
<1>6. /\ s1 \in Seq(Characters) /\ k2 \in Seq(Characters) /\ d2 \in Seq(Characters)
      /\ s1[1] = "ssid" /\ k2[1] = "pass"
      /\ \A i \in 2..(5 + x) : s1[i] \in Plain
      /\ \A i \in 2..5 : k2[i] \in Plain
      /\ \A i \in 1..y : d2[i] \in Plain
  BY <1>3, <1>4, <1>5, CharacterKinds DEF Headed
<1>7. /\ s2 \in Seq(Characters) /\ Len(s2) = 10 + x
      /\ \A i \in 1..(10 + x) : s2[i] = IF i <= 5 + x THEN s1[i] ELSE k2[i - (5 + x)]
  <2>1. /\ s2 \in Seq(Characters) /\ Len(s2) = Len(s1) + Len(k2)
        /\ \A i \in 1..(Len(s1) + Len(k2)) : s2[i] = IF i <= Len(s1) THEN s1[i] ELSE k2[i - Len(s1)]
    BY <1>6, ConcatProperties
  <2>2. Len(s1) = 5 + x /\ Len(k2) = 5 /\ (5 + x) + 5 = 10 + x
    BY <1>2, <1>4, <1>5
  <2> HIDE DEF s2
  <2> QED BY <2>1, <2>2
<1> HIDE DEF s2
<1>8. /\ s3 \in Seq(Characters) /\ Len(s3) = 10 + x + y
      /\ \A i \in 1..(10 + x + y) : s3[i] = IF i <= 10 + x THEN s2[i] ELSE d2[i - (10 + x)]
  <2>1. /\ s3 \in Seq(Characters) /\ Len(s3) = Len(s2) + Len(d2)
        /\ \A i \in 1..(Len(s2) + Len(d2)) : s3[i] = IF i <= Len(s2) THEN s2[i] ELSE d2[i - Len(s2)]
    BY <1>6, <1>7, ConcatProperties
  <2> HIDE DEF s3
  <2> QED BY <2>1, <1>3, <1>7
<1> HIDE DEF s3
<1>9. \A i \in 1..(10 + x) : s3[i] = s2[i]
  BY <1>2, <1>8
<1>10. s3[1] = "ssid" /\ s3[5] = ":"
  <2>1. 1 \in 1..(10 + x) /\ 1 <= 5 + x /\ 5 \in 1..(10 + x) /\ 5 <= 5 + x
    BY <1>2
  <2> QED BY <2>1, <1>5, <1>6, <1>7, <1>9
<1>11. s3[6 + x] = "pass" /\ s3[10 + x] = ":"
  <2>1. /\ 6 + x \in 1..(10 + x) /\ ~(6 + x <= 5 + x) /\ (6 + x) - (5 + x) = 1
        /\ 10 + x \in 1..(10 + x) /\ ~(10 + x <= 5 + x) /\ (10 + x) - (5 + x) = 5
    BY <1>2
  <2> QED BY <2>1, <1>4, <1>6, <1>7, <1>9
<1>12. ASSUME NEW i \in 2..(10 + x + y), i # 6 + x PROVE s3[i] \in Plain
  <2>1. CASE i <= 5 + x
    <3>1. i \in 2..(5 + x) /\ i \in 1..(10 + x)
      BY <2>1, <1>2
    <3> QED BY <3>1, <2>1, <1>6, <1>7, <1>9
  <2>2. CASE i > 6 + x /\ i <= 10 + x
    <3>1. i \in 1..(10 + x) /\ ~(i <= 5 + x) /\ i - (5 + x) \in 2..5
      BY <2>2, <1>2
    <3> QED BY <3>1, <1>6, <1>7, <1>9
  <2>3. CASE i > 10 + x
    <3>1. i \in 1..(10 + x + y) /\ ~(i <= 10 + x) /\ i - (10 + x) \in 1..y
      BY <2>3, <1>2
    <3> QED BY <3>1, <1>6, <1>8
  <2> QED BY <2>1, <2>2, <2>3, <1>2, <1>12
<1> QED BY <1>1, <1>8, <1>10, <1>11, <1>12 DEF x, y

\* Every request begins with its keyword, and no other begins further on.
LEMMA BodyText ==
  ASSUME NEW r \in Requests
  PROVE  /\ Body(r) \in Seq(Characters) /\ Len(Body(r)) \in Nat /\ Len(Body(r)) >= 1
         /\ Body(r)[1] = r.kind /\ r.kind \in Leading
         /\ \A i \in 2..Len(Body(r)) : Body(r)[i] \notin Leading
<1> DEFINE Good(b, k) == /\ b \in Seq(Characters) /\ Len(b) \in Nat /\ Len(b) >= 1
                         /\ b[1] = k /\ k \in Leading
                         /\ \A i \in 2..Len(b) : b[i] \notin Leading
<1>1. ASSUME NEW b, NEW k \in Leading, Headed(b, k) PROVE Good(b, k)
  BY <1>1, CharacterKinds DEF Headed, Leading, Keywords
<1>2. ASSUME NEW k \in Leading, NEW v \in Nat
      PROVE  Headed(Keyword(k) \o Decimal[v], k)
  <2>1. k \in Keywords
    BY DEF Leading, Keywords
  <2>2. Headed(Keyword(k), k) /\ Decimal[v] \in Seq(Plain)
    BY <2>1, KeywordHeads, DecimalPlain
  <2> QED BY <2>2, PlainAdded
<1> HIDE DEF Good
<1>3. CASE r \in [kind : {"timed"}, arg : Timings]
  <2>1. r = Timed(r.arg) /\ r.arg \in Timings /\ r.kind = "timed"
    BY <1>3 DEF Timed
  <2>2. Headed(Body(r), r.kind)
    <3>1. Headed(Body(Timed(r.arg)), "timed")
      BY <2>1, TimedText
    <3> QED BY <3>1, <2>1
  <2>3. r.kind \in Leading
    BY <2>1 DEF Leading
  <2> QED BY <2>2, <2>3, <1>1 DEF Good
<1>4. CASE r \in [kind : {"ssid"}, arg : Networks]
  <2>1. r = Network(r.arg) /\ r.arg \in Networks /\ r.kind = "ssid"
    BY <1>4 DEF Network
  <2> DEFINE b == Body(Network(r.arg))
             n == r.arg
  <2>2. /\ b \in Seq(Characters) /\ Len(b) = 10 + n[1] + n[2] /\ b[1] = "ssid"
        /\ b[6 + n[1]] = "pass"
        /\ \A i \in 2..Len(b) : i # 6 + n[1] => b[i] \in Plain
    BY <2>1, NetworkText
  <2>3. n[1] \in Nat /\ n[2] \in Nat
    BY <2>1, NetworkType
  <2> HIDE DEF b, n
  <2>4. Len(b) \in Nat /\ Len(b) >= 1
    BY <2>2, <2>3
  <2>5. \A i \in 2..Len(b) : b[i] \notin Leading
    <3>1. "pass" \notin Leading /\ \A c \in Plain : c \notin Leading
      BY CharacterKinds DEF Leading, Keywords
    <3> QED BY <3>1, <2>2
  <2>6. "ssid" \in Leading
    BY DEF Leading
  <2>7. Body(r) = b
    BY <2>1 DEF b
  <2> QED BY <2>1, <2>2, <2>4, <2>5, <2>6, <2>7
<1>5. CASE r \in [kind : {"pairing"}, arg : Pairings]
  <2>1. r.kind = "pairing" /\ r.arg \in Nat /\ r.kind \in Leading
    <3>1. r.kind = "pairing" /\ r.arg \in Pairings
      BY <1>5
    <3>2. Pairings \subseteq Nat
      BY CommandAssumption DEF CommandAssumption
    <3>3. r.arg \in Nat
      BY <3>1, <3>2
    <3>4. "pairing" \in Leading
      BY DEF Leading
    <3> QED BY <3>1, <3>3, <3>4
  <2>2. Body(r) = Keyword(r.kind) \o Decimal[r.arg]
    BY <2>1 DEF Body
  <2>3. Headed(Body(r), r.kind)
    BY <2>1, <2>2, <1>2
  <2> QED BY <2>1, <2>3, <1>1 DEF Good
<1>6. CASE r \in [kind : {"exit"}, arg : {170}]
  <2>1. r.kind = "exit" /\ r.arg \in Nat /\ r.kind \in Leading
    BY <1>6 DEF Leading
  <2>2. Body(r) = Keyword(r.kind) \o Decimal[r.arg]
    BY <2>1 DEF Body
  <2>3. Headed(Body(r), r.kind)
    BY <2>1, <2>2, <1>2
  <2> QED BY <2>1, <2>3, <1>1 DEF Good
<1> QED BY <1>3, <1>4, <1>5, <1>6 DEF Requests

------------------------------------------------------------------------------
(***************************************************************************)
(* The bytes that the message buffer takes up.                             *)
(***************************************************************************)

\* A buffer whose messages have a length.
Sized(buffer) == Len(buffer) \in Nat /\ \A k \in 1..Len(buffer) : Len(buffer[k].text) \in Nat

\* The sums of the sizes of the first messages.
Sums(v, buffer) ==
  /\ v \in [0..Len(buffer) -> Nat]
  /\ v[0] = 0
  /\ \A k \in 1..Len(buffer) : v[k] = v[k - 1] + Len(buffer[k].text) + 4
  /\ Used(buffer) = v[Len(buffer)]

\* The sums of the sizes have values that obey their recursive definition.
LEMMA UsedIsSummed ==
  ASSUME NEW buffer, Sized(buffer)
  PROVE  \E v : Sums(v, buffer)
<1> DEFINE n == Len(buffer)
           size == [k \in Nat |-> IF k \in 1..n THEN Len(buffer[k].text) + 4 ELSE 0]
           before == [k \in Nat |-> IF k = 0 THEN 0 ELSE k - 1]
           base == [k \in Nat |-> 0]
           step == [k \in Nat |-> [x \in Nat |-> x + size[k]]]
<1>1. before \in [Nat -> Nat] /\ base \in [Nat -> Nat] /\ \A k \in Nat \ {0} : before[k] < k
  OBVIOUS
<1>2. n \in Nat /\ \A k \in Nat : size[k] \in Nat
  BY DEF Sized
<1>3. step \in [Nat -> [Nat -> Nat]]
  <2> HIDE DEF size
  <2> QED BY <1>2
<1>4. PICK f : Solution(f, Nat, {0}, base, before, step)
  <2> HIDE DEF before, base, step
  <2>1. Recursion(Nat, {0}, base, before, step)
    <3>1. {0} \in SUBSET Nat
      OBVIOUS
    <3> QED BY <1>1, <1>3, <3>1, Zenon DEF Recursion
  <2> QED BY <2>1, RecursionHasSolution
<1>5. f[0] = 0 /\ \A k \in Nat : f[k] \in Nat
  BY <1>4 DEF Solution
<1>6. \A k \in Nat \ {0} : f[k] = f[k - 1] + size[k]
  <2> SUFFICES ASSUME NEW k \in Nat \ {0} PROVE f[k] = f[k - 1] + size[k]
    OBVIOUS
  <2>1. before[k] = k - 1 /\ k - 1 \in Nat /\ k \notin {0}
    OBVIOUS
  <2>2. step[k][f[k - 1]] = f[k - 1] + size[k]
    <3> HIDE DEF size
    <3> QED BY <2>1, <1>5
  <2>3. f[k] = step[k][f[before[k]]]
    <3> HIDE DEF step, before, base
    <3> QED BY <1>4, <2>1 DEF Solution
  <2> QED BY <2>1, <2>2, <2>3
<1> DEFINE Sum(v) == [k \in 0..Len(buffer) |-> IF k = 0 THEN 0
                                               ELSE v[k - 1] + Len(buffer[k].text) + 4]
           part == [k \in 0..n |-> f[k]]
           used == CHOOSE v : v = Sum(v)
<1>7. part = Sum(part)
  <2>1. \A k \in 0..n : part[k] = Sum(part)[k]
    <3> SUFFICES ASSUME NEW k \in 0..n PROVE part[k] = Sum(part)[k]
      OBVIOUS
    <3>1. CASE k = 0
      BY <3>1, <1>5
    <3>2. CASE k # 0
      <4>1. k - 1 \in 0..n /\ k \in Nat \ {0} /\ k \in 1..n /\ k - 1 \in Nat
        BY <3>2, <1>2
      <4>2. part[k] = f[k] /\ part[k - 1] = f[k - 1]
        BY <4>1
      <4>3. Sum(part)[k] = part[k - 1] + Len(buffer[k].text) + 4
        BY <3>2
      <4>4. size[k] = Len(buffer[k].text) + 4 /\ Len(buffer[k].text) \in Nat
        BY <4>1 DEF Sized
      <4>5. f[k] = f[k - 1] + Len(buffer[k].text) + 4
        <5> HIDE DEF size
        <5> QED BY <4>1, <4>4, <1>5, <1>6
      <4> QED BY <4>2, <4>3, <4>5
    <3> QED BY <3>1, <3>2
  <2> QED BY <2>1
<1>8. used = Sum(used)
  <2> HIDE DEF Sum, part
  <2> QED BY <1>7
<1>9. Used(buffer) = used[n]
  BY DEF Used
<1> HIDE DEF used
<1>10. used[0] = 0 /\ \A k \in 1..n : used[k] = used[k - 1] + Len(buffer[k].text) + 4
  BY <1>2, <1>8
<1>11. \A k \in 0..n : used[k] = f[k]
  <2> DEFINE T == {k \in Nat : k <= n => used[k] = f[k]}
  <2>1. ASSUME NEW k \in Nat, \A j \in 0..(k - 1) : j \in T PROVE k \in T
    <3>1. CASE k = 0
      BY <3>1, <1>10, <1>5
    <3>2. CASE k # 0 /\ k <= n
      <4>1. k - 1 \in T /\ k \in 1..n /\ k \in Nat \ {0}
        BY <2>1, <3>2, <1>2
      <4>2. size[k] = Len(buffer[k].text) + 4 /\ Len(buffer[k].text) \in Nat
        BY <4>1 DEF Sized
      <4>3. f[k] = f[k - 1] + size[k] /\ f[k - 1] \in Nat
        BY <4>1, <1>5, <1>6
      <4> HIDE DEF size
      <4>4. used[k - 1] = f[k - 1]
        BY <4>1, <3>2
      <4> QED BY <4>1, <4>2, <4>3, <4>4, <1>10
    <3> QED BY <3>1, <3>2
  <2>2. T = Nat
    <3> HIDE DEF T
    <3> QED BY <2>1, InductionOnSet DEF T
  <2> QED BY <2>2
<1>12. used = [k \in 0..n |-> used[k]]
  BY <1>8
<1>13. used \in [0..n -> Nat]
  BY <1>12, <1>11, <1>5
<1> QED BY <1>9, <1>10, <1>13 DEF Sums

\* An empty buffer is not used.
LEMMA UsedOfNothing == Used(<<>>) = 0
<1>1. Sized(<<>>)
  BY DEF Sized
<1> QED BY <1>1, UsedIsSummed DEF Sums

\* What a buffer uses is a natural number.
LEMMA UsedType ==
  ASSUME NEW buffer, Sized(buffer)
  PROVE  Used(buffer) \in Nat
BY UsedIsSummed DEF Sums, Sized

\* What a message adds at the end of the buffer.
LEMMA UsedOfOneMore ==
  ASSUME NEW s, NEW t, Sized(s), Sized(t), Len(t) = Len(s) + 1,
         \A i \in 1..Len(s) : t[i] = s[i]
  PROVE  Used(t) = Used(s) + Len(t[Len(t)].text) + 4
<1>1. PICK v : Sums(v, s)
  BY UsedIsSummed
<1>2. PICK w : Sums(w, t)
  BY UsedIsSummed
<1>3. Len(s) \in Nat
  BY DEF Sized
<1> DEFINE T == {k \in Nat : k <= Len(s) => w[k] = v[k]}
<1>4. ASSUME NEW k \in Nat, \A j \in 0..(k - 1) : j \in T PROVE k \in T
  <2>1. CASE k = 0
    BY <2>1, <1>1, <1>2 DEF Sums
  <2>2. CASE k # 0 /\ k <= Len(s)
    <3>1. k - 1 \in T /\ k \in 1..Len(s) /\ k \in 1..Len(t)
      BY <2>2, <1>3, <1>4
    <3>2. v[k] = v[k - 1] + Len(s[k].text) + 4 /\ w[k] = w[k - 1] + Len(t[k].text) + 4
      BY <3>1, <1>1, <1>2 DEF Sums
    <3>3. t[k] = s[k] /\ w[k - 1] = v[k - 1]
      BY <3>1, <2>2, <1>3
    <3> QED BY <3>2, <3>3
  <2> QED BY <2>1, <2>2
<1>5. T = Nat
  <2> HIDE DEF T
  <2> QED BY <1>4, InductionOnSet DEF T
<1>6. w[Len(s)] = v[Len(s)]
  BY <1>5, <1>3
<1>7. /\ Len(t) \in 1..Len(t) /\ Len(t) - 1 = Len(s)
  BY <1>3
<1> QED BY <1>1, <1>2, <1>6, <1>7 DEF Sums

\* What the first message gives back when it is taken.
LEMMA UsedOfOneLess ==
  ASSUME NEW s, NEW t, Sized(s), Sized(t), Len(s) = Len(t) + 1,
         \A i \in 1..Len(t) : t[i] = s[i + 1]
  PROVE  Used(s) = Used(t) + Len(s[1].text) + 4
<1>1. PICK v : Sums(v, s)
  BY UsedIsSummed
<1>2. PICK w : Sums(w, t)
  BY UsedIsSummed
<1>3. Len(t) \in Nat /\ Len(s[1].text) \in Nat
  BY DEF Sized
<1> DEFINE first == Len(s[1].text) + 4
           T == {k \in Nat : k <= Len(t) => v[k + 1] = w[k] + first}
<1>4. v[1] = first
  <2>1. 1 \in 1..Len(s) /\ 1 - 1 = 0
    BY <1>3
  <2>2. v[1] = v[0] + Len(s[1].text) + 4 /\ v[0] = 0
    BY <2>1, <1>1 DEF Sums
  <2> QED BY <2>2, <1>3
<1>5. first \in Nat
  BY <1>3
<1> HIDE DEF first
<1>6. ASSUME NEW k \in Nat, \A j \in 0..(k - 1) : j \in T PROVE k \in T
  <2>1. CASE k = 0
    <3>1. w[0] = 0 /\ 0 + 1 = 1
      BY <1>2 DEF Sums
    <3> QED BY <2>1, <3>1, <1>4, <1>5
  <2>2. CASE k # 0 /\ k <= Len(t)
    <3>1. k - 1 \in T /\ k + 1 \in 1..Len(s) /\ k \in 1..Len(t) /\ (k + 1) - 1 = k /\ (k - 1) + 1 = k
      BY <2>2, <1>3, <1>6
    <3>2. v[k + 1] = v[k] + Len(s[k + 1].text) + 4 /\ w[k] = w[k - 1] + Len(t[k].text) + 4
      BY <3>1, <1>1, <1>2 DEF Sums
    <3>3. t[k] = s[k + 1] /\ v[k] = w[k - 1] + first
      BY <3>1, <2>2, <1>3
    <3>4. w[k - 1] \in Nat /\ Len(t[k].text) \in Nat
      <4>1. k - 1 \in 0..Len(t)
        BY <2>2, <1>3
      <4> QED BY <4>1, <3>1, <1>2 DEF Sums, Sized
    <3>5. v[k + 1] = w[k] + first
      <4> DEFINE a == w[k - 1]
                 c == Len(t[k].text)
      <4>1. v[k + 1] = (a + first) + c + 4 /\ w[k] = a + c + 4 /\ a \in Nat /\ c \in Nat
        BY <3>2, <3>3, <3>4
      <4> HIDE DEF a, c
      <4> QED BY <4>1, <1>5
    <3> QED BY <3>5
  <2> QED BY <2>1, <2>2
<1>7. T = Nat
  <2> HIDE DEF T
  <2> QED BY <1>6, InductionOnSet DEF T
<1>8. v[Len(t) + 1] = w[Len(t)] + first
  BY <1>7, <1>3
<1>9. Used(s) = v[Len(t) + 1] /\ Used(t) = w[Len(t)] /\ w[Len(t)] \in Nat
  BY <1>1, <1>2, <1>3 DEF Sums
<1> QED BY <1>3, <1>8, <1>9 DEF first

------------------------------------------------------------------------------
(***************************************************************************)
(* Arrays and the command that is found in one.                            *)
(***************************************************************************)

\* Min of two numbers.
LEMMA MinOfTwo ==
  ASSUME NEW a \in Nat, NEW b \in Nat
  PROVE  Min({a, b}) = IF a <= b THEN a ELSE b
<1>1. {a, b} \in SUBSET Nat /\ a \in {a, b} /\ b \in {a, b}
  OBVIOUS
<1>2. CASE a <= b
  <2>1. \A k \in {a, b} : a <= k
    BY <1>2
  <2> QED BY <1>1, <1>2, <2>1, MinIs
<1>3. CASE ~(a <= b)
  <2>1. \A k \in {a, b} : b <= k
    BY <1>3
  <2> QED BY <1>1, <1>3, <2>1, MinIs
<1> QED BY <1>2, <1>3

\* Max of two numbers.
LEMMA MaxOfTwo ==
  ASSUME NEW a \in Nat, NEW b \in Nat
  PROVE  Max({a, b}) = IF a >= b THEN a ELSE b
<1> DEFINE m == Max({a, b})
<1>1. \E x \in {a, b} : \A y \in {a, b} : x >= y
  OBVIOUS
<1>2. m \in {a, b} /\ m >= a /\ m >= b
  BY <1>1 DEF Max
<1> HIDE DEF m
<1>3. m = IF a >= b THEN a ELSE b
  BY <1>2
<1> QED BY <1>3 DEF m

\* Max of 0 and two other numbers.
LEMMA MaxWithZero ==
  ASSUME NEW a \in Int, NEW b \in Int
  PROVE  /\ Max({0, a, b}) \in Nat
         /\ a <= 0 /\ b <= 0 => Max({0, a, b}) = 0
<1> DEFINE S == {0, a, b}
           m == Max(S)
<1>1. \E x \in S : \A y \in S : x >= y
  <2>1. CASE a <= 0 /\ b <= 0
    BY <2>1
  <2>2. CASE a > 0 /\ a >= b
    BY <2>2
  <2>3. CASE b > 0 /\ b > a
    BY <2>3
  <2> QED BY <2>1, <2>2, <2>3
<1>2. m \in S /\ \A y \in S : m >= y
  BY <1>1 DEF Max
<1>3. m \in {0, a, b} /\ m >= 0 /\ m >= a /\ m >= b
  BY <1>2
<1> HIDE DEF m
<1>4. m \in Nat /\ (a <= 0 /\ b <= 0 => m = 0)
  BY <1>3
<1> QED BY <1>4 DEF m

\* An array with text copied to its start is an array.
LEMMA OverlayText ==
  ASSUME NEW array \in [0..(DataSize - 1) -> Characters], NEW text \in Seq(Characters)
  PROVE  /\ Overlay(array, text) \in [0..(DataSize - 1) -> Characters]
         /\ \A i \in 0..(DataSize - 1) :
              Overlay(array, text)[i] = IF i < Len(text) THEN text[i + 1] ELSE array[i]
<1>1. Len(text) \in Nat
  OBVIOUS
<1>2. \A i \in 0..(DataSize - 1) : i < Len(text) => text[i + 1] \in Characters
  <2> SUFFICES ASSUME NEW i \in 0..(DataSize - 1), i < Len(text) PROVE text[i + 1] \in Characters
    OBVIOUS
  <2>1. i + 1 \in 1..Len(text)
    BY <1>1
  <2> QED BY <2>1
<1>3. \A i \in 0..(DataSize - 1) : array[i] \in Characters
  OBVIOUS
<1> QED BY <1>2, <1>3 DEF Overlay

\* An array whose bytes behind the first begin no command.
Clean(d) ==
  /\ d \in [0..(DataSize - 1) -> Characters]
  /\ \A i \in 1..(DataSize - 1) : d[i] \notin Leading

\* There only the first byte can begin a command.
LEMMA KeyedFirst ==
  ASSUME NEW d, Clean(d), NEW k \in Leading, NEW i \in Keyed(d, k)
  PROVE  i = 0 /\ d[0] = k
<1>1. i \in 0..79 /\ d[i] = k
  BY DEF Keyed
<1>2. i \notin 1..(DataSize - 1)
  BY <1>1 DEF Clean
<1> QED BY <1>1, <1>2, DataSizeType

\* Such an array holds a command at its start, or a network whose first keyword
\* is at its start and whose second is the first of its kind.
LEMMA CommandFound ==
  ASSUME NEW d, Clean(d), Command(d).keyword # "none"
  PROVE  /\ Command(d).keyword \in {"timed", "pairing", "exit", "pass"}
         /\ Command(d).at \in 0..79
         /\ d[Command(d).at] = Command(d).keyword
         /\ Command(d).keyword # "pass" => Command(d).at = 0
         /\ Command(d).keyword = "pass" =>
              /\ d[0] = "ssid" /\ Command(d).at >= 1
              /\ Max({ i \in Keyed(d, "ssid") : i < Command(d).at }) = 0
              /\ \A i \in Keyed(d, "pass") : i > 0 => Command(d).at <= i
<1> DEFINE behind == { i \in Keyed(d, "pass") : \E j \in Keyed(d, "ssid") : j < i }
           found == Keyed(d, "timed") \union Keyed(d, "pairing") \union Keyed(d, "exit")
                      \union behind
           c == Command(d)
           at == Min(found)
<1>1. c = IF found = {} THEN [at |-> 0, keyword |-> "none"]
                        ELSE [at |-> at, keyword |-> d[at]]
  BY DEF Command
<1>2. found # {}
  <2> HIDE DEF found, at
  <2> QED BY <1>1
<1>3. /\ found \in SUBSET Nat /\ found \subseteq 0..79
      /\ \A k \in found : d[k] \in {"timed", "pairing", "exit", "pass"}
  BY DEF Keyed
<1>4. c.at = at /\ c.keyword = d[at]
  <2> HIDE DEF found, at
  <2> QED BY <1>1, <1>2
<1>5. at \in found /\ \A k \in found : at <= k
  <2> HIDE DEF found
  <2> QED BY <1>2, <1>3, MinIsLeast
<1> HIDE DEF at, c
<1>7. at \in 0..79
  BY <1>3, <1>5
<1>8. d[at] \in {"timed", "pairing", "exit", "pass"}
  BY <1>3, <1>5
<1>9. d[at] # "pass" => at = 0
  <2> SUFFICES ASSUME d[at] # "pass" PROVE at = 0
    OBVIOUS
  <2>1. at \in Keyed(d, "timed") \/ at \in Keyed(d, "pairing") \/ at \in Keyed(d, "exit")
    BY <1>5 DEF Keyed
  <2>2. "timed" \in Leading /\ "pairing" \in Leading /\ "exit" \in Leading
    BY DEF Leading
  <2> QED BY <2>1, <2>2, KeyedFirst
<1>10. ASSUME d[at] = "pass"
       PROVE  /\ d[0] = "ssid" /\ at >= 1
              /\ Max({ i \in Keyed(d, "ssid") : i < at }) = 0
              /\ \A i \in Keyed(d, "pass") : i > 0 => at <= i
  <2>1. at \in behind
    BY <1>5, <1>10 DEF Keyed
  <2>2. PICK j \in Keyed(d, "ssid") : j < at
    BY <2>1
  <2>3. \A i \in Keyed(d, "ssid") : i = 0 /\ d[0] = "ssid"
    <3>1. "ssid" \in Leading
      BY DEF Leading
    <3> QED BY <3>1, KeyedFirst
  <2>4. j = 0 /\ d[0] = "ssid" /\ at >= 1 /\ 0 \in Keyed(d, "ssid")
    BY <2>2, <2>3, <1>7
  <2>5. { i \in Keyed(d, "ssid") : i < at } = {0}
    <3>1. \A i \in Keyed(d, "ssid") : i < at => i = 0
      BY <2>3
    <3>2. 0 < at
      BY <2>4, <1>7
    <3> HIDE DEF behind, found
    <3> QED BY <2>4, <3>1, <3>2
  <2>6. Max({0}) = 0
    BY DEF Max
  <2>7. ASSUME NEW i \in Keyed(d, "pass"), i > 0 PROVE at <= i
    <3>1. i \in behind
      BY <2>4, <2>7
    <3> QED BY <3>1, <1>5
  <2> QED BY <2>4, <2>5, <2>6, <2>7
<1> QED BY <1>4, <1>7, <1>8, <1>9, <1>10 DEF c

\* In a network, as it was written, the second keyword is found behind the name.
LEMMA PassFound ==
  ASSUME NEW n \in Networks, NEW d, Clean(d), Holds(d, Body(Network(n))),
         Command(d).keyword = "pass"
  PROVE  Command(d).at = 5 + n[1]
<1> DEFINE b == Body(Network(n))
           x == n[1]
           y == n[2]
           l == Len(b)
           at == Command(d).at
<1>1. x \in Nat /\ y \in Nat
  BY NetworkType
<1>2. /\ l = 10 + x + y /\ b[6 + x] = "pass" /\ b[10 + x] = ":"
      /\ \A i \in 2..l : i # 6 + x => b[i] \in Plain
  BY NetworkText
<1>3. l <= DataSize /\ \A i \in 1..l : d[i - 1] = b[i]
  BY DEF Holds
<1>4. /\ at \in 1..79 /\ d[at] = "pass"
      /\ \A i \in Keyed(d, "pass") : i > 0 => at <= i
  <2> HIDE DEF b, x, y, l
  <2>1. Command(d).keyword # "none"
    OBVIOUS
  <2>2. /\ at \in 0..79 /\ d[at] = "pass" /\ at >= 1
        /\ \A i \in Keyed(d, "pass") : i > 0 => at <= i
    BY <2>1, CommandFound
  <2> HIDE DEF at
  <2> QED BY <2>2
<1> HIDE DEF b, x, y, l, at
<1>5. d[5 + x] = "pass" /\ d[9 + x] = ":"
  <2>1. /\ 6 + x \in 1..l /\ (6 + x) - 1 = 5 + x
        /\ 10 + x \in 1..l /\ (10 + x) - 1 = 9 + x
    BY <1>1, <1>2
  <2> QED BY <2>1, <1>2, <1>3
<1>6. CASE at < l
  <2>1. at + 1 \in 2..l /\ at + 1 \in 1..l /\ (at + 1) - 1 = at
    BY <1>4, <1>6, <1>1, <1>2
  <2>2. b[at + 1] = "pass"
    BY <2>1, <1>3, <1>4
  <2>3. at + 1 = 6 + x
    <3>1. "pass" \notin Plain
      BY CharacterKinds DEF Keywords
    <3> QED BY <3>1, <2>1, <2>2, <1>2
  <2> QED BY <2>3, <1>1, <1>4 DEF at, x
<1>7. CASE at >= l
  <2>1. 5 + x \in 0..79 /\ 5 + x > 0 /\ ~(at <= 5 + x)
    BY <1>7, <1>1, <1>2, <1>4
  <2>2. (5 + x) + KeyLength["pass"] - 1 = 9 + x
    BY <1>1 DEF KeyLength
  <2>3. 5 + x \in Keyed(d, "pass")
    BY <2>1, <2>2, <1>5 DEF Keyed
  <2> QED BY <2>1, <2>3, <1>4
<1> QED BY <1>1, <1>2, <1>4, <1>6, <1>7

------------------------------------------------------------------------------
(***************************************************************************)
(* The inductive invariant and the steps of the web server.                *)
(***************************************************************************)

\* What the message buffer holds.
Messages == [request : Requests, text : Seq(Characters), whole : BOOLEAN]

\* A keyword at the start of the handler's array is that of the request whose
\* bytes arrived last: no piece but the first begins with one.  When the body is
\* complete by then, the array holds all of it, not a later piece over an earlier
\* one.  A reception that ends the request leaves it incomplete.
HandlerExact ==
  /\ http = "send" => author = request
  /\ http \in {"receive", "sendLast"} => received < Len(Body(request))
  /\ ota_buff[0] \in Leading
       => /\ ota_buff[0] = author.kind
          /\ http = "send" /\ received = Len(Body(request)) => Holds(ota_buff, Body(request))

\* A message begins no command but at its start, and there only that of the
\* request it is of; then it is the body, if it is whole.
Sound(m) ==
  /\ Len(m.text) \in 1..DataSize
  /\ m.whole => Len(m.text) = Len(Body(m.request))
  /\ \A i \in 2..Len(m.text) : m.text[i] \notin Leading
  /\ m.text[1] \in Leading
       => /\ m.text[1] = m.request.kind
          /\ m.whole => \A i \in 1..Len(m.text) : m.text[i] = Body(m.request)[i]

\* So are all the messages on their way.
BufferSound == \A k \in 1..Len(HtmlToMcuData) : Sound(HtmlToMcuData[k])

\* Behind the longest message taken, the array of the task is as it was made.
NothingBehind == \A i \in 0..(DataSize - 1) : i >= longest => data[i] = "."

\* The last timing is no longer than the longest message.
TimingsSeen == \A t \in last.timed : Len(Body(Timed(t))) <= longest

\* What the arrays and the messages look like.
Shape == Clean(ota_buff) /\ Clean(data) /\ HandlerExact /\ BufferSound

\* The inductive invariant: the three promises hold because a whole message that
\* begins with a keyword is its body, and no other keyword can be found.
CommandInv ==
  /\ TypeOK
  /\ Shape
  /\ NothingBehind /\ TimingsSeen
  /\ DurationsExact /\ StatusExact /\ NetworkExact

\* Every request has a body.
LEMMA BodySize ==
  ASSUME NEW r \in Requests
  PROVE  Len(Body(r)) \in Nat /\ Len(Body(r)) >= 1
BY BodyText

\* Every message has a length.
LEMMA MessagesSized ==
  ASSUME NEW buffer \in Seq(Messages)
  PROVE  Sized(buffer)
<1>1. \A m \in Messages : Len(m.text) \in Nat
  BY DEF Messages
<1> HIDE DEF Messages
<1> QED BY <1>1 DEF Sized

\* The arrays of a new task hold no character.
LEMMA EmptyArray ==
  LET a == Blank
  IN  /\ Clean(a) /\ a[0] \notin Leading
      /\ \A i \in 0..(DataSize - 1) : a[i] = "."
<1> DEFINE a == Blank
<1>1. DataSize \in Nat /\ Len(Dots(DataSize)) = DataSize
      /\ \A i \in 1..DataSize : Dots(DataSize)[i] = "."
  BY DataSizeType, DotsPlain
<1>2. \A i \in 0..(DataSize - 1) : i < DataSize /\ i + 1 \in 1..DataSize
  BY <1>1
<1>3. a = [i \in 0..(DataSize - 1) |->
             IF i < Len(Dots(DataSize)) THEN Dots(DataSize)[i + 1] ELSE <<>>[i]]
  BY Zenon DEF Overlay, Blank
<1>4. \A i \in 0..(DataSize - 1) : a[i] = "."
  <2> SUFFICES ASSUME NEW i \in 0..(DataSize - 1) PROVE a[i] = "."
    OBVIOUS
  <2>1. a[i] = IF i < Len(Dots(DataSize)) THEN Dots(DataSize)[i + 1] ELSE <<>>[i]
    <3> HIDE DEF a
    <3> QED BY <1>3
  <2> HIDE DEF a
  <2> QED BY <2>1, <1>1, <1>2
<1>5. a = [i \in 0..(DataSize - 1) |-> a[i]]
  <2> HIDE DEF a
  <2> QED BY <1>3
<1>6. "." \in Characters /\ "." \notin Leading
  BY DEF Characters, Leading
<1> HIDE DEF a
<1>7. a \in [0..(DataSize - 1) -> Characters]
  BY <1>4, <1>5, <1>6
<1>8. \A i \in 1..(DataSize - 1) : i \in 0..(DataSize - 1)
  OBVIOUS
<1>9. Clean(a)
  BY <1>4, <1>6, <1>7, <1>8 DEF Clean
<1>10. a[0] \notin Leading
  <2>1. 0 \in 0..(DataSize - 1)
    BY DataSizeType
  <2> QED BY <2>1, <1>4, <1>6
<1> QED BY <1>4, <1>9, <1>10 DEF a

\* An array that another one was written over has dots there.
LEMMA DamagedArray ==
  ASSUME NEW d, Clean(d), NEW k \in Nat
  PROVE  /\ Clean(Overlay(d, Dots(k)))
         /\ \A i \in 0..(DataSize - 1) : \/ Overlay(d, Dots(k))[i] = d[i]
                                         \/ Overlay(d, Dots(k))[i] = "."
<1> DEFINE e == Overlay(d, Dots(k))
<1>1. /\ d \in [0..(DataSize - 1) -> Characters]
      /\ Dots(k) \in Seq(Characters) /\ Len(Dots(k)) = k
      /\ \A i \in 1..k : Dots(k)[i] = "."
  <2>1. \A x \in Seq(Plain) : x \in Seq(Characters)
    BY CharacterKinds
  <2> QED BY <2>1, DotsPlain DEF Clean
<1>2. /\ e \in [0..(DataSize - 1) -> Characters]
      /\ \A i \in 0..(DataSize - 1) : e[i] = IF i < k THEN Dots(k)[i + 1] ELSE d[i]
  <2> DEFINE w == Dots(k)
  <2>1. w \in Seq(Characters) /\ Len(w) = k
    BY <1>1
  <2> HIDE DEF w
  <2>2. /\ Overlay(d, w) \in [0..(DataSize - 1) -> Characters]
        /\ \A i \in 0..(DataSize - 1) : Overlay(d, w)[i] = IF i < Len(w) THEN w[i + 1] ELSE d[i]
    BY <1>1, <2>1, OverlayText
  <2>3. \A i \in 0..(DataSize - 1) : Overlay(d, w)[i] = IF i < k THEN w[i + 1] ELSE d[i]
    BY <2>1, <2>2
  <2> QED BY <2>2, <2>3 DEF w
<1>3. ASSUME NEW i \in 0..(DataSize - 1) PROVE e[i] = d[i] \/ e[i] = "."
  <2>1. i < k => i + 1 \in 1..k
    OBVIOUS
  <2> HIDE DEF e
  <2> QED BY <2>1, <1>1, <1>2
<1> HIDE DEF e
<1>4. Clean(e)
  <2>1. "." \notin Leading /\ \A i \in 1..(DataSize - 1) : i \in 0..(DataSize - 1)
    BY DEF Leading
  <2> QED BY <2>1, <1>2, <1>3 DEF Clean
<1> QED BY <1>3, <1>4 DEF e

\* The initial states satisfy the invariant.
LEMMA CommandInit == Init => CommandInv
<1> SUFFICES ASSUME Init PROVE CommandInv
  OBVIOUS
<1>0. /\ posts = 0 /\ http = "idle" /\ request \in [kind : {"exit"}, arg : {170}] /\ received = 0
      /\ author = request
      /\ ota_buff = Blank /\ data = Blank
      /\ HtmlToMcuData = <<>>
      /\ sleep_Time \in Nat /\ AutolWateringTime \in Nat /\ TimeStatus \in 0..255
      /\ config = <<0, 0>>
      /\ exit_set = FALSE /\ wakeup_sleep = FALSE
      /\ last = [timed |-> {}, ssid |-> {}] /\ longest = 0
  BY SMT DEF Init
<1> HIDE DEF Init
<1>1. /\ Clean(ota_buff) /\ Clean(data) /\ \A i \in 0..(DataSize - 1) : data[i] = "."
      /\ ota_buff[0] \notin Leading
  BY <1>0, EmptyArray
<1>2. request \in Requests /\ author \in Requests
  BY <1>0 DEF Requests
<1>3. received \in 0..Len(Body(request))
  BY <1>0, <1>2, BodySize
<1>4. /\ HtmlToMcuData = <<>> /\ Used(HtmlToMcuData) = 0
      /\ HtmlToMcuData \in Seq(Messages)
  BY <1>0, UsedOfNothing
<1>5. TypeOK
  <2>1. ota_buff \in [0..(DataSize - 1) -> Characters] /\ data \in [0..(DataSize - 1) -> Characters]
    BY <1>1 DEF Clean
  <2>2. posts \in 0..MaxPosts /\ 0 <= BufferSize /\ longest \in 0..DataSize
    BY <1>0, CommandAssumption DEF CommandAssumption
  <2>3. /\ http \in {"idle", "receive", "send", "sendLast"}
        /\ exit_set \in BOOLEAN /\ wakeup_sleep \in BOOLEAN
    BY <1>0
  <2>4. sleep_Time \in Nat /\ AutolWateringTime \in Nat /\ TimeStatus \in 0..255
    BY <1>0
  <2>5. config \in Nat \X Nat
    BY <1>0
  <2>6. last.timed \subseteq Timings /\ last.ssid \subseteq Networks
    <3>1. last.timed = {} /\ last.ssid = {}
      BY <1>0
    <3> QED BY <3>1
  <2> QED BY <1>2, <1>3, <1>4, <2>1, <2>2, <2>3, <2>4, <2>5, <2>6
         DEF TypeOK, Messages
<1>6. Shape
  BY <1>0, <1>1, <1>4 DEF Shape, HandlerExact, BufferSound
<1>7. NothingBehind /\ TimingsSeen /\ DurationsExact /\ StatusExact /\ NetworkExact
  BY <1>0, <1>1 DEF NothingBehind, TimingsSeen, DurationsExact, StatusExact, NetworkExact
<1> QED BY <1>5, <1>6, <1>7 DEF CommandInv

\* What a step of the web server leaves alone.
Untouched == UNCHANGED <<data, settings, history>>

\* A step of the web server disturbs nothing that is about the task of the
\* commands.
LEMMA HandlerKeeps ==
  ASSUME CommandInv, Untouched
  PROVE  /\ (NothingBehind /\ TimingsSeen)'
         /\ (DurationsExact /\ StatusExact /\ NetworkExact)'
         /\ Clean(data)'
BY Zenon DEF CommandInv, Untouched, settings, history, Shape, Clean, NothingBehind, TimingsSeen,
       DurationsExact, StatusExact, NetworkExact

\* A new request keeps the invariant, whether its handler finds the array of the
\* last one or another.
LEMMA PostKeeps ==
  ASSUME CommandInv, NEW r \in Requests, Post(r)
  PROVE  CommandInv'
<1>1. Untouched
  BY DEF Post, Untouched
<1>2. /\ ota_buff' = ota_buff \/ ota_buff' = Blank
      /\ http' = "receive" /\ request' = r /\ received' = 0 /\ author' = author
      /\ posts' = posts + 1 /\ posts < MaxPosts /\ HtmlToMcuData' = HtmlToMcuData
      /\ http = "idle"
  BY DEF Post
<1>3. Clean(ota_buff) /\ HandlerExact /\ BufferSound
  BY DEF CommandInv, Shape
<1>4. Len(Body(r)) \in Nat /\ Len(Body(r)) >= 1
  BY BodySize
<1>5. Clean(ota_buff') /\ (ota_buff'[0] \in Leading => ota_buff'[0] = author.kind)
  <2>1. CASE ota_buff' = ota_buff
    BY <2>1, <1>3 DEF HandlerExact
  <2>2. CASE ota_buff' = Blank
    BY <2>2, EmptyArray
  <2> QED BY <2>1, <2>2, <1>2
<1>6. TypeOK'
  <2>1. posts' \in 0..MaxPosts
    <3>1. posts \in 0..MaxPosts /\ MaxPosts \in Nat
      BY CommandAssumption DEF CommandInv, TypeOK, CommandAssumption
    <3> QED BY <3>1, <1>2
  <2>2. ota_buff' \in [0..(DataSize - 1) -> Characters] /\ received' \in 0..Len(Body(request'))
    BY <1>2, <1>4, <1>5 DEF Clean
  <2> QED BY <2>1, <2>2, <1>1, <1>2 DEF CommandInv, TypeOK, Untouched, settings, history
<1>7. HandlerExact'
  BY <1>2, <1>4, <1>5 DEF HandlerExact
<1>8. BufferSound'
  BY <1>2, <1>3 DEF BufferSound, Sound
<1>9. Shape'
  <2>1. Clean(ota_buff)'
    BY <1>5 DEF Clean
  <2> QED BY <2>1, <1>1, <1>7, <1>8, HandlerKeeps DEF Shape
<1> QED BY <1>1, <1>6, <1>9, HandlerKeeps DEF CommandInv

\* So does a request that is given up, or whose browser closes.
LEMMA GiveUpKeeps ==
  ASSUME CommandInv, GiveUp \/ ReceiveNothing
  PROVE  CommandInv'
<1>1. /\ Untouched
      /\ UNCHANGED <<posts, request, received, ota_buff, author, HtmlToMcuData>>
      /\ http = "receive" /\ http' \in {"idle", "sendLast"}
  BY DEF GiveUp, ReceiveNothing, Untouched
<1>2. TypeOK'
  BY <1>1 DEF CommandInv, TypeOK, Untouched, settings, history
<1>3. Shape'
  BY <1>1, HandlerKeeps DEF CommandInv, Shape, Clean, HandlerExact, BufferSound, Sound
<1> QED BY <1>1, <1>2, <1>3, HandlerKeeps DEF CommandInv

\* Behind a message the handler waits for the rest, if there is any.
LEMMA AfterMessage ==
  ASSUME CommandInv, Sending, http' = AfterSend
  PROVE  /\ http' \in {"idle", "receive"}
         /\ http' = "receive" => received < Len(Body(request))
<1>1. received \in 0..Len(Body(request)) /\ Len(Body(request)) \in Nat
  BY BodySize DEF CommandInv, TypeOK
<1> DEFINE l == Len(Body(request))
<1> HIDE DEF l
<1>2. http' = IF http = "send" /\ l - received > 0 THEN "receive" ELSE "idle"
  BY DEF AfterSend, Rest, l
<1>3. l - received > 0 => received < l
  BY <1>1 DEF l
<1> QED BY <1>2, <1>3 DEF l

\* A message that is dropped because it can never fit keeps the invariant.
LEMMA DropOversizeKeeps ==
  ASSUME CommandInv, DropOversize
  PROVE  CommandInv'
<1>1. /\ Untouched
      /\ UNCHANGED <<posts, request, received, ota_buff, author, HtmlToMcuData>>
      /\ http' \in {"idle", "receive"} /\ (http' = "receive" => received < Len(Body(request)))
  BY AfterMessage DEF DropOversize, Untouched
<1>2. TypeOK'
  BY <1>1 DEF CommandInv, TypeOK, Untouched, settings, history
<1>3. Shape'
  BY <1>1, HandlerKeeps DEF CommandInv, Shape, Clean, HandlerExact, BufferSound, Sound
<1> QED BY <1>1, <1>2, <1>3, HandlerKeeps DEF CommandInv

\* The first byte of a message is a leading keyword only if the array was
\* filled from the start of the body.
LEMMA ReceiveKeeps ==
  ASSUME CommandInv, NEW n \in Int, Receive(n)
  PROVE  CommandInv'
<1> DEFINE b == Body(request)
           l == Len(b)
           text == SubSeq(b, received + 1, received + n)
<1>1. Untouched
  BY DEF Receive, Untouched
<1>2. /\ http' = "send" /\ received' = received + n /\ ota_buff' = Overlay(ota_buff, text)
      /\ author' = request
      /\ request' = request /\ posts' = posts /\ HtmlToMcuData' = HtmlToMcuData
      /\ n \in 1..(l - received) /\ n <= DataSize
  BY DEF Receive, Rest
<1>3. /\ request \in Requests /\ received \in 0..l /\ Clean(ota_buff) /\ BufferSound
  BY DEF CommandInv, TypeOK, Shape
<1>4. /\ b \in Seq(Characters) /\ l \in Nat /\ l >= 1
      /\ b[1] = request.kind
      /\ \A i \in 2..l : b[i] \notin Leading
  BY <1>3, BodyText
<1>5. ota_buff \in [0..(DataSize - 1) -> Characters]
  BY <1>3 DEF Clean
<1> HIDE DEF b
<1>6. /\ text \in Seq(Characters) /\ Len(text) = n
      /\ \A i \in 1..n : text[i] = b[received + i]
  <2>1. received + 1 \in 1..(l + 1) /\ received + n \in received..l
    BY <1>2, <1>3, <1>4
  <2>2. /\ text \in Seq(Characters)
        /\ Len(text) = IF received + 1 <= received + n THEN (received + n) - (received + 1) + 1 ELSE 0
        /\ \A i \in 1..((received + n) - (received + 1) + 1) : text[i] = b[(received + 1) + i - 1]
    <3>1. received + 1 \in Nat /\ received + n \in Nat /\ received + n <= l /\ received + 1 >= 1
      BY <2>1, <1>3, <1>4
    <3> QED BY <1>4, <3>1, SubSeqProperties
  <2>3. (received + n) - (received + 1) + 1 = n /\ received + 1 <= received + n
    BY <1>2, <1>3, <1>4
  <2>4. \A i \in 1..n : (received + 1) + i - 1 = received + i
    BY <1>3, <1>4
  <2> HIDE DEF text
  <2> QED BY <2>2, <2>3, <2>4
<1> HIDE DEF text, l
<1>7. /\ ota_buff' \in [0..(DataSize - 1) -> Characters]
      /\ \A i \in 0..(DataSize - 1) : ota_buff'[i] = IF i < n THEN text[i + 1] ELSE ota_buff[i]
  BY <1>2, <1>5, <1>6, OverlayText
<1>8. ASSUME NEW i \in 0..(DataSize - 1), i < n
      PROVE  ota_buff'[i] = b[received + i + 1] /\ received + i + 1 \in 1..l
  <2>1. i + 1 \in 1..n /\ received + (i + 1) = received + i + 1
    BY <1>2, <1>3, <1>4, <1>8
  <2>2. received + i + 1 \in 1..l
    BY <1>2, <1>3, <1>4, <1>8
  <2> QED BY <2>1, <2>2, <1>6, <1>7, <1>8
<1>9. Clean(ota_buff')
  <2> SUFFICES ASSUME NEW i \in 1..(DataSize - 1) PROVE ota_buff'[i] \notin Leading
    BY <1>7 DEF Clean
  <2>1. i \in 0..(DataSize - 1)
    OBVIOUS
  <2>2. CASE i < n
    <3>1. received + i + 1 \in 2..l
      BY <2>1, <2>2, <1>3, <1>4, <1>8
    <3> QED BY <2>1, <2>2, <3>1, <1>4, <1>8
  <2>3. CASE ~(i < n)
    BY <2>1, <2>3, <1>3, <1>7 DEF Clean
  <2> QED BY <2>2, <2>3
<1>10. ASSUME ota_buff'[0] \in Leading
       PROVE  ota_buff'[0] = request.kind /\ (received' = l => Holds(ota_buff', b))
  <2>1. 0 \in 0..(DataSize - 1) /\ 0 < n
    BY <1>2, <1>3, <1>4, DataSizeType
  <2>2. ota_buff'[0] = b[received + 0 + 1]
    BY <2>1, <1>8
  <2>3. received = 0
    <3> SUFFICES ASSUME received # 0 PROVE FALSE
      OBVIOUS
    <3>1. received + 0 + 1 \in 2..l
      BY <1>2, <1>3, <1>4
    <3> QED BY <3>1, <2>2, <1>4, <1>10
  <2>4. ASSUME received' = l PROVE Holds(ota_buff', b)
    <3>1. n = l /\ l <= DataSize
      BY <2>3, <2>4, <1>2, <1>3, <1>4
    <3>2. \A i \in 1..l : ota_buff'[i - 1] = b[i]
      <4> SUFFICES ASSUME NEW i \in 1..l PROVE ota_buff'[i - 1] = b[i]
        OBVIOUS
      <4>1. i - 1 \in 0..(DataSize - 1) /\ i - 1 < n /\ received + (i - 1) + 1 = i
        BY <2>3, <3>1, <1>4, DataSizeType
      <4> QED BY <4>1, <1>8
    <3> QED BY <3>1, <3>2, <1>7 DEF Holds, l
  <2>5. ota_buff'[0] = request.kind
    <3>1. received + 0 + 1 = 1
      BY <2>3
    <3> QED BY <3>1, <2>2, <1>4
  <2> QED BY <2>4, <2>5
<1>11. received' \in 0..l
  BY <1>2, <1>3, <1>4
<1>12. TypeOK'
  BY <1>2, <1>1, <1>7, <1>11 DEF CommandInv, TypeOK, Untouched, settings, history, b, l
<1>13. HandlerExact'
  BY <1>2, <1>10 DEF HandlerExact, b, l
<1>14. Shape'
  BY <1>1, <1>2, <1>3, <1>9, <1>13, HandlerKeeps DEF Shape, BufferSound, Sound
<1> QED BY <1>1, <1>12, <1>14, HandlerKeeps DEF CommandInv

\* A message is sent with the length of the whole body, however much of it the
\* array holds.
LEMMA SendKeeps ==
  ASSUME CommandInv, Send
  PROVE  CommandInv'
<1> DEFINE b == Body(request)
           l == Len(b)
           m == Message
           q == HtmlToMcuData
<1>1. Untouched
  BY DEF Send, Untouched
<1>2. /\ q' = Append(q, m) /\ http' \in {"receive", "idle"}
      /\ http' = "receive" => received < l
      /\ request' = request /\ posts' = posts /\ received' = received /\ ota_buff' = ota_buff
      /\ author' = author
      /\ ~(l + 4 > BufferSize) /\ Used(q) + l + 4 <= BufferSize
      /\ http \in {"send", "sendLast"}
  BY AfterMessage DEF Send, Oversize, Room, Sending
<1>3. /\ request \in Requests /\ author \in Requests /\ q \in Seq(Messages) /\ Clean(ota_buff)
      /\ HandlerExact /\ BufferSound
  BY DEF CommandInv, TypeOK, Shape, Messages
<1>4. l \in Nat /\ l >= 1 /\ received \in 0..l
  BY <1>3, BodySize DEF CommandInv, TypeOK
<1>5. l <= DataSize
  <2>1. BufferSize = DataSize + 4 /\ DataSize \in Nat
    BY DataSizeType, CommandAssumption DEF CommandAssumption
  <2> QED BY <2>1, <1>2, <1>4
<1>6. m = [request |-> author, text |-> [i \in 1..l |-> ota_buff[i - 1]], whole |-> received = l]
  BY DEF Message
<1> DEFINE text == [i \in 1..l |-> ota_buff[i - 1]]
<1>7. \A i \in 1..l : i - 1 \in 0..(DataSize - 1)
  BY <1>4, <1>5, DataSizeType
<1> HIDE DEF l
<1>8. text \in Seq(Characters) /\ Len(text) = l
  <2>1. \A i \in 1..l : ota_buff[i - 1] \in Characters
    BY <1>3, <1>7 DEF Clean
  <2> QED BY <2>1, <1>4
<1>9. /\ m \in Messages /\ m.request = author /\ m.text = text /\ m.whole = (received = l)
  <2>1. (received = l) \in BOOLEAN
    OBVIOUS
  <2> HIDE DEF m, text
  <2> QED BY <2>1, <1>3, <1>6, <1>8 DEF Messages, text
<1> HIDE DEF m
<1>10. /\ q' \in Seq(Messages) /\ Len(q') = Len(q) + 1 /\ Len(q) \in Nat
       /\ \A i \in 1..Len(q) : q'[i] = q[i]
       /\ q'[Len(q) + 1] = m
  BY <1>2, <1>3, <1>9, AppendProperties
<1>11. Used(q') = Used(q) + l + 4
  <2>1. Sized(q) /\ Sized(q')
    BY <1>3, <1>10, MessagesSized
  <2>2. Used(q') = Used(q) + Len(q'[Len(q')].text) + 4
    BY <2>1, <1>10, UsedOfOneMore
  <2> QED BY <2>2, <1>8, <1>9, <1>10
<1>12. Sound(m)
  <2>1. \A i \in 2..l : text[i] \notin Leading
    <3> SUFFICES ASSUME NEW i \in 2..l PROVE text[i] \notin Leading
      OBVIOUS
    <3>1. i - 1 \in 1..(DataSize - 1) /\ i \in 1..l
      BY <1>4, <1>5, DataSizeType
    <3> QED BY <3>1, <1>3 DEF Clean
  <2>4. received = l => http = "send" /\ author = request
    <3>1. http = "sendLast" => received < l
      BY <1>3 DEF HandlerExact, l
    <3>2. http = "send" => author = request
      BY <1>3 DEF HandlerExact
    <3> QED BY <3>1, <3>2, <1>2, <1>4
  <2>2. ASSUME text[1] \in Leading
        PROVE  text[1] = author.kind /\ (received = l => \A i \in 1..l : text[i] = b[i])
    <3>1. text[1] = ota_buff[0]
      <4>1. 1 \in 1..l /\ 1 - 1 = 0
        BY <1>4
      <4> QED BY <4>1
    <3>2. ota_buff[0] = author.kind /\ (received = l => Holds(ota_buff, b))
      BY <2>2, <2>4, <3>1, <1>3 DEF HandlerExact, l
    <3>3. Holds(ota_buff, b) => \A i \in 1..l : ota_buff[i - 1] = b[i]
      BY DEF Holds, l
    <3> QED BY <3>1, <3>2, <3>3
  <2> HIDE DEF text
  <2>3. m.text[1] \in Leading
          => /\ m.text[1] = m.request.kind
             /\ m.whole => \A i \in 1..Len(m.text) : m.text[i] = b[i]
    BY <2>2, <1>8, <1>9
  <2>5. m.whole => Body(m.request) = b
    BY <2>4, <1>9
  <2>6. Len(m.text) \in 1..DataSize /\ (m.whole => Len(m.text) = Len(Body(m.request)))
    BY <2>5, <1>4, <1>5, <1>8, <1>9, DataSizeType DEF l
  <2>7. \A i \in 2..Len(m.text) : m.text[i] \notin Leading
    BY <2>1, <1>8, <1>9
  <2> QED BY <2>3, <2>5, <2>6, <2>7 DEF Sound
<1>13. BufferSound'
  <2> SUFFICES ASSUME NEW k \in 1..Len(q') PROVE Sound(q'[k])
    BY DEF BufferSound, Sound
  <2>1. k \in 1..Len(q) \/ k = Len(q) + 1
    BY <1>10
  <2> QED BY <2>1, <1>3, <1>10, <1>12 DEF BufferSound
<1>14. TypeOK'
  <2>1. HtmlToMcuData' \in Seq([request : Requests, text : Seq(Characters), whole : BOOLEAN])
    BY <1>10 DEF Messages
  <2>2. Used(HtmlToMcuData') <= BufferSize
    BY <1>2, <1>11
  <2>3. Used(HtmlToMcuData)' = Used(HtmlToMcuData')
    BY DEF Used
  <2> HIDE DEF q, m, text
  <2> QED BY <2>1, <2>2, <2>3, <1>1, <1>2 DEF CommandInv, TypeOK, Untouched, settings, history
<1>15. Shape'
  <2>1. HandlerExact'
    BY <1>2, <1>3 DEF HandlerExact, l, b
  <2>2. Clean(ota_buff)'
    BY <1>2, <1>3 DEF Clean
  <2> QED BY <2>1, <2>2, <1>1, <1>13, HandlerKeeps DEF Shape
<1> QED BY <1>1, <1>14, <1>15, HandlerKeeps DEF CommandInv

------------------------------------------------------------------------------
(***************************************************************************)
(* Taking a message.                                                       *)
(***************************************************************************)

\* A timing that the array holds as it was sent is taken as it was typed.
LEMMA TimingTaken ==
  ASSUME NEW t \in Timings, NEW d, Holds(d, Body(Timed(t))),
         TakeTiming(d, 0, Len(Body(Timed(t))))
  PROVE  /\ \A h \in Durations : /\ t.off = Plainly(h) => sleep_Time' = InSeconds(h)
                                 /\ t.on = Plainly(h) => AutolWateringTime' = InSeconds(h)
         /\ (\A i \in 0..(DataSize - 1) : i >= Len(Body(Timed(t))) => d[i] = ".")
              => TimeStatus' = t.status
<1> DEFINE n == Len(Body(Timed(t)))
           f == TimedFields(d, 0, (n - (0 + 13)) % 256)
<1>1. n <= DataSize
  BY DEF Holds
<1>2. n \in Nat /\ 13 <= n
  <2>1. /\ Place(t)[7] \in Nat /\ 13 <= Place(t)[7] /\ Len(Part(t, 7)) \in Nat
    BY PlacesFollow
  <2>2. n = Place(t)[7] + Len(Part(t, 7))
    BY TimedText
  <2> HIDE DEF n
  <2> QED BY <2>1, <2>2
<1>3. (n - (0 + 13)) % 256 = n - 13
  <2> HIDE DEF n
  <2>1. n - (0 + 13) = n - 13 /\ n - 13 \in 0..255
    BY <1>1, <1>2, DataSizeType
  <2> QED BY <2>1, ByteHolds
<1>4. f = Fields(t, d)
  BY <1>3 DEF Fields
<1>5. /\ sleep_Time' = Seconds(f, 1) /\ AutolWateringTime' = Seconds(f, 4)
      /\ TimeStatus' = Temp(f[7])
  BY DEF TakeTiming
<1> QED BY <1>4, <1>5, DurationsRead, StatusRead

\* Whatever arrives, a timing is stored as numbers.
LEMMA TimingTakenType ==
  ASSUME NEW d, Clean(d), NEW n \in Nat, TakeTiming(d, 0, n)
  PROVE  sleep_Time' \in Nat /\ AutolWateringTime' \in Nat /\ TimeStatus' \in 0..255
<1> DEFINE x == (n - (0 + 13)) % 256
           f == TimedFields(d, 0, x)
<1>1. x \in Nat
  <2>1. n - (0 + 13) \in Int
    OBVIOUS
  <2> QED BY <2>1, ByteType
<1>2. \A k \in 1..7 : Number(f[k]) \in Nat
  <2> HIDE DEF x
  <2>1. d \in [0..(DataSize - 1) -> Characters] /\ 0 \in Nat
    BY DEF Clean
  <2> QED BY <1>1, <2>1, FieldsType
<1>3. /\ sleep_Time' = Seconds(f, 1) /\ AutolWateringTime' = Seconds(f, 4)
      /\ TimeStatus' = Temp(f[7])
  BY DEF TakeTiming
<1> HIDE DEF f
<1>4. \A k \in {1, 4} : Seconds(f, k) \in Nat
  <2> SUFFICES ASSUME NEW k \in {1, 4} PROVE Seconds(f, k) \in Nat
    OBVIOUS
  <2>1. k \in 1..7 /\ k + 1 \in 1..7 /\ k + 2 \in 1..7
    OBVIOUS
  <2> DEFINE a == Number(f[k])
             b == Number(f[k + 1])
             c == Number(f[k + 2])
  <2>2. a \in Nat /\ b \in Nat /\ c \in Nat
    BY <2>1, <1>2
  <2>3. Seconds(f, k) = (a * 3600 + b * 60 + c) % Uint32
    BY DEF Seconds
  <2> HIDE DEF a, b, c
  <2>4. a * 3600 + b * 60 + c \in Nat
    BY <2>2, SMT
  <2> QED BY <2>3, <2>4, Wraps
<1>5. Temp(f[7]) \in 0..255
  <2>1. Number(f[7]) \in Int
    BY <1>2
  <2> QED BY <2>1, ByteType DEF Temp, TempValues
<1> QED BY <1>3, <1>4, <1>5

\* A network that the array holds as it was sent is configured as it was typed.
LEMMA NetworkTaken ==
  ASSUME NEW n \in Networks, NEW d, Clean(d), Holds(d, Body(Network(n))),
         Command(d).keyword = "pass",
         TakeNetwork(d, Command(d).at, Len(Body(Network(n)))), n[1] <= 31, n[2] <= 63
  PROVE  config' = n
<1> DEFINE at == Command(d).at
           l == Len(Body(Network(n)))
           x == n[1]
           y == n[2]
           first_len == NameLength(d, at)
           second_len == PassLength(l, at)
<1>1. x \in Nat /\ x > 0 /\ y \in Nat /\ y >= 8 /\ x <= 31 /\ y <= 63 /\ n = <<x, y>>
  <2>1. n \in (Nat \ {0}) \X Nat
    BY CommandAssumption DEF CommandAssumption
  <2> QED BY <2>1, NetworkType
<1>2. at = 5 + x /\ Max({ i \in Keyed(d, "ssid") : i < at }) = 0
  BY CommandFound, PassFound
<1>3. l = 10 + x + y /\ l <= DataSize
  BY NetworkText DEF Holds
<1>4. /\ Accepted(d, at, l) <=> first_len > 0 /\ second_len > 7
      /\ Accepted(d, at, l) =>
           /\ Overrun(d, at, l) = Max({0, first_len - 32, second_len - 64})
           /\ config' \in IF Overrun(d, at, l) > 0 THEN Garbage
                          ELSE {<<Min({first_len, 31}), Min({second_len, 63})>>}
  BY DEF TakeNetwork, Accepted, Overrun
<1>5. first_len = (at - (0 + 5)) % 256 /\ second_len = (l - (at + 5)) % 256
  BY <1>2 DEF NameLength, PassLength
<1> HIDE DEF at, l, x, y, first_len, second_len
<1>6. first_len = x /\ second_len = y
  <2>1. at - (0 + 5) = x /\ x \in 0..255 /\ l - (at + 5) = y /\ y \in 0..255
    BY <1>1, <1>2, <1>3
  <2> QED BY <2>1, <1>5, ByteHolds
<1>7. Max({0, x - 32, y - 64}) = 0
  <2>1. x - 32 \in Int /\ y - 64 \in Int /\ x - 32 <= 0 /\ y - 64 <= 0
    BY <1>1
  <2> QED BY <2>1, MaxWithZero
<1>8. Min({x, 31}) = x /\ Min({y, 63}) = y
  <2>1. 31 \in Nat /\ 63 \in Nat
    OBVIOUS
  <2> QED BY <2>1, <1>1, MinOfTwo
<1>9. Accepted(d, at, l)
  BY <1>1, <1>4, <1>6
<1>10. config' \in {<<Min({x, 31}), Min({y, 63})>>}
  <2>1. Overrun(d, at, l) = 0
    BY <1>4, <1>6, <1>7, <1>9
  <2>2. ~(Overrun(d, at, l) > 0)
    BY <2>1
  <2> QED BY <2>2, <1>4, <1>6, <1>9
<1> QED BY <1>1, <1>8, <1>10

\* Whatever arrives, a network is stored as lengths, and the bytes that a copy
\* wrote too many are a number.
LEMMA NetworkTakenType ==
  ASSUME NEW d, NEW at \in Nat, NEW n \in Nat, config \in Nat \X Nat, wakeup_sleep \in BOOLEAN,
         TakeNetwork(d, at, n), Max({ i \in Keyed(d, "ssid") : i < at }) = 0
  PROVE  /\ config' \in Nat \X Nat /\ wakeup_sleep' \in BOOLEAN
         /\ Overrun(d, at, n) \in Nat
<1> DEFINE first_len == NameLength(d, at)
           second_len == PassLength(n, at)
<1>1. first_len \in Nat /\ second_len \in Nat
  <2>1. first_len = (at - (0 + 5)) % 256 /\ second_len = (n - (at + 5)) % 256
    BY DEF NameLength, PassLength
  <2>2. at - (0 + 5) \in Int /\ n - (at + 5) \in Int
    OBVIOUS
  <2> HIDE DEF first_len, second_len
  <2> QED BY <2>1, <2>2, ByteType
<1>2. IF Accepted(d, at, n)
      THEN /\ config' \in IF Overrun(d, at, n) > 0 THEN Garbage
                          ELSE {<<Min({first_len, 31}), Min({second_len, 63})>>}
           /\ wakeup_sleep' = TRUE
      ELSE UNCHANGED <<config, wakeup_sleep>>
  BY DEF TakeNetwork
<1>3. Overrun(d, at, n) = IF Accepted(d, at, n)
                          THEN Max({0, first_len - 32, second_len - 64}) ELSE 0
  BY DEF Overrun
<1> HIDE DEF first_len, second_len
<1>4. Overrun(d, at, n) \in Nat
  <2>1. first_len - 32 \in Int /\ second_len - 64 \in Int
    BY <1>1
  <2>2. Max({0, first_len - 32, second_len - 64}) \in Nat
    BY <2>1, MaxWithZero
  <2> QED BY <2>2, <1>3
<1>5. Min({first_len, 31}) \in Nat /\ Min({second_len, 63}) \in Nat
  <2>1. 31 \in Nat /\ 63 \in Nat
    OBVIOUS
  <2> QED BY <1>1, <2>1, MinOfTwo
<1>6. \A g \in Garbage : g \in Nat \X Nat
  <2>1. Garbage \subseteq (0..31) \X (0..63)
    BY CommandAssumption DEF CommandAssumption
  <2> QED BY <2>1
<1>7. CASE Accepted(d, at, n)
  <2>1. config' \in Garbage \/ config' = <<Min({first_len, 31}), Min({second_len, 63})>>
    BY <1>2, <1>7
  <2>2. config' \in Nat \X Nat
    BY <2>1, <1>5, <1>6
  <2>3. wakeup_sleep' = TRUE
    BY <1>2, <1>7
  <2> QED BY <2>2, <2>3, <1>4
<1>8. CASE ~Accepted(d, at, n)
  <2>1. config' = config /\ wakeup_sleep' = wakeup_sleep
    BY <1>2, <1>8
  <2> QED BY <2>1, <1>4
<1> QED BY <1>7, <1>8

\* What the task finds in its array once a message is copied to its start.
LEMMA MessageTaken ==
  ASSUME CommandInv, HtmlToMcuData # <<>>
  PROVE  LET m == Head(HtmlToMcuData)
             n == Len(m.text)
             d == Overlay(data, m.text)
         IN  /\ m \in Messages /\ m.request \in Requests
             /\ m.whole => n = Len(Body(m.request))
             /\ n \in Nat /\ n >= 1 /\ n <= DataSize
             /\ Clean(d)
             /\ d[0] \in Leading => /\ d[0] = m.request.kind
                                    /\ m.whole => Holds(d, Body(m.request))
             /\ \A i \in 0..(DataSize - 1) : i >= n /\ i >= longest => d[i] = "."
<1> DEFINE q == HtmlToMcuData
           m == Head(q)
           n == Len(m.text)
           d == Overlay(data, m.text)
           b == Body(m.request)
<1>1. q \in Seq(Messages) /\ BufferSound /\ Clean(data) /\ NothingBehind
  BY DEF CommandInv, TypeOK, Shape, Messages
<1>2. m = q[1] /\ 1 \in 1..Len(q)
  BY <1>1
<1>3. m \in Messages /\ Sound(m)
  <2>1. q[1] \in Messages
    <3> HIDE DEF m, q
    <3> QED BY <1>1, <1>2
  <2> QED BY <2>1, <1>1, <1>2 DEF BufferSound
<1> HIDE DEF m, q
<1>4. m.request \in Requests /\ m.text \in Seq(Characters)
  BY <1>3 DEF Messages
<1>5. /\ n \in 1..DataSize /\ (m.whole => n = Len(b))
      /\ \A i \in 2..n : m.text[i] \notin Leading
      /\ m.text[1] \in Leading => /\ m.text[1] = m.request.kind
                                  /\ m.whole => \A i \in 1..n : m.text[i] = b[i]
  BY <1>3 DEF Sound
<1>6. n \in Nat /\ n >= 1 /\ n <= DataSize
  BY <1>5
<1>7. /\ d \in [0..(DataSize - 1) -> Characters]
      /\ \A i \in 0..(DataSize - 1) : d[i] = IF i < n THEN m.text[i + 1] ELSE data[i]
  BY <1>1, <1>4, OverlayText DEF Clean
<1> HIDE DEF n, d
<1>8. Clean(d)
  <2> SUFFICES ASSUME NEW i \in 1..(DataSize - 1) PROVE d[i] \notin Leading
    BY <1>7 DEF Clean
  <2>1. i \in 0..(DataSize - 1)
    OBVIOUS
  <2>2. CASE i < n
    <3>1. i + 1 \in 2..n
      BY <2>2, <1>6
    <3> QED BY <2>1, <2>2, <3>1, <1>5, <1>7
  <2>3. CASE ~(i < n)
    BY <2>1, <2>3, <1>1, <1>7 DEF Clean
  <2> QED BY <2>2, <2>3
<1>9. ASSUME d[0] \in Leading PROVE d[0] = m.request.kind /\ (m.whole => Holds(d, b))
  <2>1. d[0] = m.text[1]
    <3>1. 0 \in 0..(DataSize - 1) /\ 0 < n /\ 0 + 1 = 1
      BY <1>6, DataSizeType
    <3> QED BY <3>1, <1>7
  <2>2. d[0] = m.request.kind /\ (m.whole => \A i \in 1..n : m.text[i] = b[i])
    BY <2>1, <1>5, <1>9
  <2>3. ASSUME m.whole PROVE \A i \in 1..n : d[i - 1] = b[i]
    <3> SUFFICES ASSUME NEW i \in 1..n PROVE d[i - 1] = b[i]
      OBVIOUS
    <3>1. i - 1 \in 0..(DataSize - 1) /\ i - 1 < n /\ (i - 1) + 1 = i
      BY <1>5, <1>6, DataSizeType
    <3> QED BY <3>1, <2>2, <2>3, <1>7
  <2> QED BY <2>2, <2>3, <1>5, <1>6, <1>7 DEF Holds
<1>10. ASSUME NEW i \in 0..(DataSize - 1), i >= n, i >= longest PROVE d[i] = "."
  <2>1. ~(i < n)
    BY <1>6, <1>10
  <2> QED BY <2>1, <1>1, <1>7, <1>10 DEF NothingBehind
<1> QED BY <1>3, <1>4, <1>5, <1>6, <1>8, <1>9, <1>10 DEF m, n, d, q

\* A timing that the history records is that of a whole message.
LEMMA KnownTiming ==
  ASSUME NEW m \in Messages, NEW t \in Known(m, "timed")
  PROVE  m.whole /\ t \in Timings /\ m.request = Timed(t)
<1>1. m.whole /\ m.request.kind = "timed" /\ t = m.request.arg /\ m.request \in Requests
  BY DEF Known, Messages
<1>2. m.request \in [kind : {"timed"}, arg : Timings]
  BY <1>1 DEF Requests
<1> QED BY <1>1, <1>2 DEF Timed

\* A network that the history records is that of a whole message.
LEMMA KnownNetwork ==
  ASSUME NEW m \in Messages, NEW n \in Known(m, "ssid")
  PROVE  m.whole /\ n \in Networks /\ m.request = Network(n)
<1>1. m.whole /\ m.request.kind = "ssid" /\ n = m.request.arg /\ m.request \in Requests
  BY DEF Known, Messages
<1>2. m.request \in [kind : {"ssid"}, arg : Networks]
  BY <1>1 DEF Requests
<1> QED BY <1>1, <1>2 DEF Network

\* Taking a message keeps the invariant, whichever command is found in it.
LEMMA TakeKeeps ==
  ASSUME CommandInv, Take
  PROVE  CommandInv'
<1> DEFINE q == HtmlToMcuData
           m == Head(q)
           n == Len(m.text)
           d == Overlay(data, m.text)
           c == Command(d)
<1>1. /\ q # <<>> /\ q' = Tail(q)
      /\ data' \in IF c.keyword = "pass" THEN {d, Overlay(d, Dots(Overrun(d, c.at, n)))} ELSE {d}
      /\ last' = [ timed |-> IF c.keyword = "timed" THEN Known(m, "timed") ELSE last.timed,
                   ssid  |-> IF c.keyword = "pass" THEN Known(m, "ssid") ELSE last.ssid ]
      /\ longest' = Max({longest, n})
      /\ UNCHANGED handler
  BY Zenon DEF Take
<1>2. /\ c.keyword = "timed" => TakeTiming(d, c.at, n)
      /\ c.keyword = "pass" => TakeNetwork(d, c.at, n)
      /\ c.keyword = "exit" => TakeExit(d, c.at, n)
      /\ c.keyword \notin {"timed", "pass", "exit"} => UNCHANGED settings
  <2>1. (CASE c.keyword = "timed" -> TakeTiming(d, c.at, n)
           [] c.keyword = "pass"  -> TakeNetwork(d, c.at, n)
           [] c.keyword = "exit"  -> TakeExit(d, c.at, n)
           [] OTHER               -> UNCHANGED settings)
    BY Zenon DEF Take
  <2> HIDE DEF c, d, n
  <2> QED BY <2>1
<1>3. /\ m \in Messages /\ m.request \in Requests
      /\ m.whole => n = Len(Body(m.request))
      /\ n \in Nat /\ n >= 1 /\ n <= DataSize
      /\ Clean(d)
      /\ d[0] \in Leading /\ m.whole => Holds(d, Body(m.request))
      /\ \A i \in 0..(DataSize - 1) : i >= n /\ i >= longest => d[i] = "."
  BY <1>1, MessageTaken
<1> HIDE DEF m, n, d
<1>4. /\ c.keyword \in {"timed", "exit"} => c.at = 0 /\ d[0] = c.keyword
      /\ c.keyword = "pass" => /\ d[0] = "ssid" /\ c.at \in Nat
                               /\ Max({ i \in Keyed(d, "ssid") : i < c.at }) = 0
  <2>1. ASSUME c.keyword \in {"timed", "exit"} PROVE c.at = 0 /\ d[0] = c.keyword
    BY <1>3, <2>1, CommandFound
  <2>2. ASSUME c.keyword = "pass"
        PROVE  /\ d[0] = "ssid" /\ c.at \in Nat
               /\ Max({ i \in Keyed(d, "ssid") : i < c.at }) = 0
    <3>1. /\ d[0] = "ssid" /\ c.at \in 0..79
          /\ Max({ i \in Keyed(d, "ssid") : i < c.at }) = 0
      BY <1>3, <2>2, CommandFound
    <3> QED BY <3>1
  <2> QED BY <2>1, <2>2
<1> HIDE DEF c
<1>5. longest \in Nat /\ longest <= DataSize /\ longest' = IF longest >= n THEN longest ELSE n
  <2>1. longest \in Nat /\ longest <= DataSize
    BY DataSizeType DEF CommandInv, TypeOK
  <2> QED BY <2>1, <1>1, <1>3, MaxOfTwo
<1>6. /\ q \in Seq(Messages) /\ q' \in Seq(Messages) /\ Len(q) = Len(q') + 1 /\ Len(q') \in Nat
      /\ \A i \in 1..Len(q') : q'[i] = q[i + 1]
  <2>1. q \in Seq(Messages)
    BY DEF CommandInv, TypeOK, Messages
  <2> HIDE DEF q
  <2> QED BY <2>1, <1>1, HeadTailProperties
<1>7. /\ sleep_Time \in Nat /\ AutolWateringTime \in Nat /\ TimeStatus \in 0..255
      /\ config \in Nat \X Nat /\ exit_set \in BOOLEAN /\ wakeup_sleep \in BOOLEAN
      /\ last.timed \subseteq Timings /\ last.ssid \subseteq Networks
  BY DEF CommandInv, TypeOK
<1> DEFINE size(t) == Len(Body(Timed(t)))
           Settled == /\ sleep_Time' \in Nat /\ AutolWateringTime' \in Nat
                      /\ TimeStatus' \in 0..255 /\ config' \in Nat \X Nat
                      /\ exit_set' \in BOOLEAN /\ wakeup_sleep' \in BOOLEAN
           TimingHeld(t) == /\ t \in Timings
                            /\ \A h \in Durations :
                                 /\ t.off = Plainly(h) => sleep_Time' = InSeconds(h)
                                 /\ t.on = Plainly(h) => AutolWateringTime' = InSeconds(h)
                            /\ size(t) <= longest'
                            /\ longest' = size(t) /\ 2 * longest' <= DataSize + 15
                                 => TimeStatus' = t.status
           NetworkHeld(x) == x \in Networks /\ (x[1] <= 31 /\ x[2] <= 63 => config' = x)
<1> DEFINE AllHeld == /\ \A t \in last'.timed : TimingHeld(t)
                      /\ \A x \in last'.ssid : NetworkHeld(x)
<1>8. ASSUME UNCHANGED <<sleep_Time, AutolWateringTime, TimeStatus>>, NEW t \in last.timed
      PROVE  TimingHeld(t)
  <2>1. /\ \A h \in Durations : /\ t.off = Plainly(h) => sleep_Time = InSeconds(h)
                                /\ t.on = Plainly(h) => AutolWateringTime = InSeconds(h)
        /\ longest = size(t) /\ 2 * longest <= DataSize + 15 => TimeStatus = t.status
    BY DEF CommandInv, DurationsExact, StatusExact, Timed
  <2>2. t \in Timings /\ size(t) <= longest
    BY <1>7 DEF CommandInv, TimingsSeen
  <2>3. size(t) \in Nat
    <3>1. Timed(t) \in Requests
      BY <2>2 DEF Timed, Requests
    <3> QED BY <3>1, BodySize
  <2> HIDE DEF size
  <2>4. size(t) <= longest' /\ (longest' = size(t) => longest = size(t) /\ longest' = longest)
    BY <2>2, <2>3, <1>3, <1>5
  <2>5. \A h \in Durations : /\ t.off = Plainly(h) => sleep_Time' = InSeconds(h)
                             /\ t.on = Plainly(h) => AutolWateringTime' = InSeconds(h)
    BY <2>1, <1>8, Zenon
  <2>6. longest' = size(t) /\ 2 * longest' <= DataSize + 15 => TimeStatus' = t.status
    BY <2>1, <2>4, <1>8
  <2>7. t \in Timings /\ size(t) <= longest'
    BY <2>2, <2>4
  <2> QED BY <2>5, <2>6, <2>7
<1>9. ASSUME UNCHANGED config, NEW x \in last.ssid
      PROVE  NetworkHeld(x)
  BY <1>7, <1>9 DEF CommandInv, NetworkExact
<1>10. ASSUME c.keyword = "timed", NEW t \in Known(m, "timed")
       PROVE  TimingHeld(t)
  <2>1. m.whole /\ t \in Timings /\ m.request = Timed(t)
    BY <1>3, <1>10, KnownTiming
  <2>2. TakeTiming(d, 0, size(t)) /\ n = size(t)
    BY <2>1, <1>2, <1>3, <1>4, <1>10
  <2>3. Holds(d, Body(Timed(t)))
    BY <2>1, <1>3, <1>4, <1>10 DEF Leading
  <2>4. /\ \A h \in Durations : /\ t.off = Plainly(h) => sleep_Time' = InSeconds(h)
                                /\ t.on = Plainly(h) => AutolWateringTime' = InSeconds(h)
        /\ (\A i \in 0..(DataSize - 1) : i >= size(t) => d[i] = ".") => TimeStatus' = t.status
    BY <2>1, <2>2, <2>3, TimingTaken
  <2> HIDE DEF size
  <2>5. size(t) <= longest'
    BY <2>2, <1>3, <1>5
  <2>6. ASSUME longest' = size(t) PROVE TimeStatus' = t.status
    <3>1. n >= longest
      BY <2>2, <2>6, <1>3, <1>5
    <3>2. ASSUME NEW i \in 0..(DataSize - 1), i >= size(t) PROVE d[i] = "."
      <4>1. i >= n /\ i >= longest
        BY <3>1, <3>2, <2>2, <1>3, <1>5
      <4> QED BY <4>1, <1>3
    <3> QED BY <3>2, <2>4
  <2>7. t \in Timings
    BY <2>1
  <2>8. \A h \in Durations : /\ t.off = Plainly(h) => sleep_Time' = InSeconds(h)
                             /\ t.on = Plainly(h) => AutolWateringTime' = InSeconds(h)
    BY <2>4
  <2>9. longest' = size(t) /\ 2 * longest' <= DataSize + 15 => TimeStatus' = t.status
    BY <2>6
  <2> QED BY <2>5, <2>7, <2>8, <2>9
<1>11. ASSUME c.keyword = "pass", NEW x \in Known(m, "ssid")
       PROVE  NetworkHeld(x)
  <2>1. m.whole /\ x \in Networks /\ m.request = Network(x)
    BY <1>3, <1>11, KnownNetwork
  <2>2. TakeNetwork(d, Command(d).at, Len(Body(Network(x)))) /\ Command(d).keyword = "pass"
    BY <2>1, <1>2, <1>3, <1>11 DEF c
  <2>3. Holds(d, Body(Network(x)))
    BY <2>1, <1>3, <1>4, <1>11 DEF Leading
  <2>4. x[1] <= 31 /\ x[2] <= 63 => config' = x
    BY <2>1, <2>2, <2>3, <1>3, NetworkTaken
  <2> QED BY <2>1, <2>4
<1> HIDE DEF TimingHeld, NetworkHeld
<1>12. ASSUME c.keyword = "timed" PROVE Settled /\ AllHeld
  <2>1. /\ TakeTiming(d, 0, n) /\ last'.timed = Known(m, "timed") /\ last'.ssid = last.ssid
        /\ UNCHANGED <<config, exit_set, wakeup_sleep>>
    BY <1>1, <1>2, <1>4, <1>12 DEF TakeTiming
  <2>2. Settled
    BY <2>1, <1>3, <1>7, TimingTakenType
  <2>3. AllHeld
    BY <2>1, <1>9, <1>10, <1>12
  <2> QED BY <2>2, <2>3
<1>13. ASSUME c.keyword = "pass" PROVE Settled /\ AllHeld
  <2>1. /\ TakeNetwork(d, c.at, n) /\ last'.timed = last.timed /\ last'.ssid = Known(m, "ssid")
        /\ UNCHANGED <<sleep_Time, AutolWateringTime, TimeStatus, exit_set>>
    BY <1>1, <1>2, <1>13 DEF TakeNetwork
  <2>2. config' \in Nat \X Nat /\ wakeup_sleep' \in BOOLEAN
    BY <2>1, <1>3, <1>4, <1>7, <1>13, NetworkTakenType
  <2>3. Settled
    BY <2>1, <2>2, <1>7
  <2>4. AllHeld
    BY <2>1, <1>8, <1>11, <1>13
  <2> QED BY <2>3, <2>4
<1>14. ASSUME c.keyword \notin {"timed", "pass"} PROVE Settled /\ AllHeld
  <2>1. last'.timed = last.timed /\ last'.ssid = last.ssid
    BY <1>1, <1>14
  <2>2. /\ UNCHANGED <<sleep_Time, AutolWateringTime, TimeStatus, config, wakeup_sleep>>
        /\ exit_set' \in BOOLEAN
    <3>1. CASE c.keyword = "exit"
      <4>1. TakeExit(d, c.at, n)
        BY <3>1, <1>2
      <4>2. exit_set' \in BOOLEAN
        BY <4>1, <1>7, Zenon DEF TakeExit
      <4> QED BY <4>1, <4>2 DEF TakeExit
    <3>2. CASE c.keyword # "exit"
      <4>1. UNCHANGED settings
        BY <3>2, <1>2, <1>14
      <4> QED BY <4>1, <1>7 DEF settings
    <3> QED BY <3>1, <3>2
  <2>3. Settled
    BY <2>2, <1>7
  <2>4. AllHeld
    BY <2>1, <2>2, <1>8, <1>9
  <2> QED BY <2>3, <2>4
<1>15. Settled /\ AllHeld
  BY <1>12, <1>13, <1>14
<1>21. Clean(data') /\ \A i \in 0..(DataSize - 1) : data'[i] = d[i] \/ data'[i] = "."
  <2>1. CASE data' = d
    BY <2>1, <1>3
  <2>2. CASE c.keyword = "pass" /\ data' = Overlay(d, Dots(Overrun(d, c.at, n)))
    <3>1. Overrun(d, c.at, n) \in Nat
      BY <2>2, <1>2, <1>3, <1>4, <1>7, NetworkTakenType
    <3> QED BY <2>2, <3>1, <1>3, DamagedArray
  <2> QED BY <2>1, <2>2, <1>1
<1>16. TypeOK'
  <2>1. Used(q') <= BufferSize
    <3>1. Sized(q) /\ Sized(q')
      BY <1>6, MessagesSized
    <3>2. Used(q) = Used(q') + Len(q[1].text) + 4
      BY <3>1, <1>6, UsedOfOneLess
    <3>3. Used(q') \in Nat /\ Len(q[1].text) \in Nat
      BY <3>1, <1>6, UsedType DEF Sized
    <3>4. Used(q) <= BufferSize /\ BufferSize \in Nat
      BY DataSizeType, CommandAssumption DEF CommandInv, TypeOK, CommandAssumption
    <3> HIDE DEF q
    <3> QED BY <3>2, <3>3, <3>4
  <2>2. Used(HtmlToMcuData)' <= BufferSize
    BY <2>1 DEF Used
  <2>3. HtmlToMcuData' \in Seq([request : Requests, text : Seq(Characters), whole : BOOLEAN])
    BY <1>6 DEF Messages
  <2>4. data' \in [0..(DataSize - 1) -> Characters]
    BY <1>21 DEF Clean
  <2>5. last'.timed \subseteq Timings /\ last'.ssid \subseteq Networks
    BY <1>15 DEF TimingHeld, NetworkHeld
  <2>6. longest' \in 0..DataSize
    BY <1>3, <1>5, DataSizeType
  <2>7. /\ posts' \in 0..MaxPosts /\ http' \in {"idle", "receive", "send", "sendLast"}
        /\ request' \in Requests /\ author' \in Requests /\ received' \in 0..Len(Body(request'))
        /\ ota_buff' \in [0..(DataSize - 1) -> Characters]
    BY <1>1 DEF handler, CommandInv, TypeOK
  <2> HIDE DEF q
  <2> QED BY <1>15, <2>2, <2>3, <2>4, <2>5, <2>6, <2>7 DEF TypeOK
<1>17. BufferSound'
  <2> SUFFICES ASSUME NEW k \in 1..Len(q') PROVE Sound(q'[k])
    BY DEF BufferSound, Sound
  <2>1. k + 1 \in 1..Len(q)
    BY <1>6
  <2> QED BY <2>1, <1>6 DEF CommandInv, Shape, BufferSound
<1>18. Shape'
  <2>1. /\ http' = http /\ request' = request /\ received' = received /\ ota_buff' = ota_buff
        /\ author' = author
    BY <1>1 DEF handler
  <2>2. HandlerExact'
    BY <2>1 DEF CommandInv, Shape, HandlerExact
  <2>3. Clean(ota_buff)' /\ Clean(data)'
    BY <2>1, <1>21 DEF CommandInv, Shape, Clean
  <2> QED BY <2>2, <2>3, <1>17 DEF Shape
<1>19. NothingBehind'
  <2> SUFFICES ASSUME NEW i \in 0..(DataSize - 1), i >= longest' PROVE data'[i] = "."
    BY DEF NothingBehind
  <2>1. i >= n /\ i >= longest
    BY <1>3, <1>5
  <2> QED BY <2>1, <1>3, <1>21
<1>20. TimingsSeen' /\ DurationsExact' /\ StatusExact' /\ NetworkExact'
  BY <1>15 DEF TimingHeld, NetworkHeld, TimingsSeen, DurationsExact, StatusExact, NetworkExact, Timed
<1> QED BY <1>16, <1>18, <1>19, <1>20 DEF CommandInv

\* A device that restarts is as it was made, but for its configuration.
LEMMA CrashKeeps ==
  ASSUME CommandInv, Crash
  PROVE  CommandInv'
<1>1. /\ http' = "idle" /\ ota_buff' = Blank /\ data' = Blank /\ HtmlToMcuData' = <<>>
      /\ sleep_Time' \in Nat /\ AutolWateringTime' \in Nat /\ TimeStatus' \in 0..255
      /\ exit_set' = FALSE /\ wakeup_sleep' = FALSE
      /\ last' = [timed |-> {}, ssid |-> {}] /\ longest' = 0
      /\ UNCHANGED <<posts, request, received, author, config>>
  BY SMT DEF Crash
<1>2. Clean(Blank) /\ Blank[0] \notin Leading /\ \A i \in 0..(DataSize - 1) : Blank[i] = "."
  BY EmptyArray
<1>3. last'.timed = {} /\ last'.ssid = {}
  BY <1>1
<1>4. TypeOK'
  <2>1. ota_buff' \in [0..(DataSize - 1) -> Characters] /\ data' \in [0..(DataSize - 1) -> Characters]
    BY <1>1, <1>2 DEF Clean
  <2>2. /\ Used(HtmlToMcuData)' <= BufferSize
        /\ HtmlToMcuData' \in Seq([request : Requests, text : Seq(Characters), whole : BOOLEAN])
    <3>1. Used(<<>>) = 0 /\ 0 <= BufferSize
      BY UsedOfNothing, DataSizeType, CommandAssumption DEF CommandAssumption
    <3>2. Used(HtmlToMcuData)' = Used(HtmlToMcuData')
      BY DEF Used
    <3> QED BY <1>1, <3>1, <3>2
  <2>3. longest' \in 0..DataSize
    BY <1>1, DataSizeType
  <2>4. /\ posts' \in 0..MaxPosts /\ request' \in Requests /\ author' \in Requests
        /\ received' \in 0..Len(Body(request')) /\ config' \in Nat \X Nat
    BY <1>1 DEF CommandInv, TypeOK
  <2>5. exit_set' \in BOOLEAN /\ wakeup_sleep' \in BOOLEAN
    BY <1>1
  <2> QED BY <1>1, <1>3, <2>1, <2>2, <2>3, <2>4, <2>5 DEF TypeOK
<1>5. Shape'
  <2>1. Clean(ota_buff)' /\ Clean(data)'
    BY <1>1, <1>2 DEF Clean
  <2> QED BY <2>1, <1>1, <1>2 DEF Shape, HandlerExact, BufferSound
<1>6. (NothingBehind /\ TimingsSeen /\ DurationsExact /\ StatusExact /\ NetworkExact)'
  BY <1>1, <1>2, <1>3 DEF NothingBehind, TimingsSeen, DurationsExact, StatusExact, NetworkExact
<1> QED BY <1>4, <1>5, <1>6 DEF CommandInv

\* A step that changes nothing keeps the invariant.
LEMMA StutterKeeps ==
  ASSUME CommandInv, UNCHANGED vars
  PROVE  CommandInv'
<1>1. Untouched /\ UNCHANGED handler /\ UNCHANGED HtmlToMcuData
  BY DEF vars, Untouched
<1>2. TypeOK'
  BY <1>1 DEF CommandInv, TypeOK, Untouched, handler, settings, history
<1>3. Shape'
  BY <1>1, HandlerKeeps
  DEF CommandInv, Shape, Clean, HandlerExact, BufferSound, Sound, handler
<1> QED BY <1>1, <1>2, <1>3, HandlerKeeps DEF CommandInv

------------------------------------------------------------------------------
(***************************************************************************)
(* The theorems.                                                           *)
(***************************************************************************)

\* Every reachable state satisfies the invariant, for all timings, networks and
\* pairing codes, wherever a body is cut and however many requests are made.
THEOREM CommandInvariant == Spec => []CommandInv
<1>1. Init => CommandInv
  BY CommandInit
<1>2. CommandInv /\ [Next]_vars => CommandInv'
  <2> SUFFICES ASSUME CommandInv, [Next]_vars PROVE CommandInv'
    OBVIOUS
  <2>1. ASSUME NEW r \in Requests, Post(r) PROVE CommandInv'
    BY <2>1, PostKeeps
  <2>2. ASSUME NEW n \in Cuts \union {Min({Rest, DataSize})}, Receive(n) PROVE CommandInv'
    <3>1. n \in Int
      BY <2>2 DEF Receive
    <3> QED BY <3>1, <2>2, ReceiveKeeps
  <2>3. CASE GiveUp \/ ReceiveNothing
    BY <2>3, GiveUpKeeps
  <2>4. CASE Send
    BY <2>4, SendKeeps
  <2>5. CASE DropOversize
    BY <2>5, DropOversizeKeeps
  <2>6. CASE Take
    BY <2>6, TakeKeeps
  <2>7. CASE UNCHANGED vars
    BY <2>7, StutterKeeps
  <2>8. CASE Crash
    BY <2>8, CrashKeeps
  <2> QED BY <2>1, <2>2, <2>3, <2>4, <2>5, <2>6, <2>7, <2>8 DEF Next
<1> QED BY <1>1, <1>2, PTL DEF Spec

\* Every variable keeps its type, and the buffer is never fuller than its size.
THEOREM TypeCorrect == Spec => []TypeOK
<1>1. CommandInv => TypeOK
  BY DEF CommandInv
<1> QED BY <1>1, CommandInvariant, PTL

\* A timing that arrived in one piece has the durations that were typed in whole
\* numbers below the program's limit, whatever was typed in the other fields and
\* whatever the array held before.
THEOREM DurationsAreExact == Spec => []DurationsExact
<1>1. CommandInv => DurationsExact
  BY DEF CommandInv
<1> QED BY <1>1, CommandInvariant, PTL

\* It has the status that was typed, unless a longer message came before or its
\* loop leaves the array.
THEOREM StatusIsExact == Spec => []StatusExact
<1>1. CommandInv => StatusExact
  BY DEF CommandInv
<1> QED BY <1>1, CommandInvariant, PTL

\* A network that arrived in one piece is configured with the lengths typed, if its
\* name and password are within their arrays and hold no keyword.
THEOREM NetworkIsExact == Spec => []NetworkExact
<1>1. CommandInv => NetworkExact
  BY DEF CommandInv
<1> QED BY <1>1, CommandInvariant, PTL

\* Only a timing changes the timing, only a network the configuration, and only
\* an exit the bit of the button.
LEMMA OwnCommand ==
  ASSUME CommandInv, Take
  PROVE  LET kind == Head(HtmlToMcuData).request.kind
         IN  /\ kind # "timed" => UNCHANGED <<sleep_Time, AutolWateringTime, TimeStatus>>
             /\ kind # "ssid" => UNCHANGED <<config, wakeup_sleep>>
             /\ kind # "exit" => UNCHANGED exit_set
<1> DEFINE m == Head(HtmlToMcuData)
           n == Len(m.text)
           d == Overlay(data, m.text)
           c == Command(d)
<1>1. (CASE c.keyword = "timed" -> TakeTiming(d, c.at, n)
         [] c.keyword = "pass"  -> TakeNetwork(d, c.at, n)
         [] c.keyword = "exit"  -> TakeExit(d, c.at, n)
         [] OTHER               -> UNCHANGED settings)
  BY Zenon DEF Take
<1>2. HtmlToMcuData # <<>>
  BY DEF Take
<1>3. Clean(d) /\ (d[0] \in Leading => d[0] = m.request.kind)
  BY <1>2, MessageTaken
<1> HIDE DEF m, n, d
<1>4. /\ c.keyword \in {"timed", "exit"} => d[0] = c.keyword
      /\ c.keyword = "pass" => d[0] = "ssid"
  BY <1>3, CommandFound
<1> HIDE DEF c
<1>5. CASE c.keyword = "timed"
  <2>1. m.request.kind = "timed" /\ UNCHANGED <<config, exit_set, wakeup_sleep>>
    BY <1>1, <1>3, <1>4, <1>5 DEF TakeTiming, Leading
  <2> QED BY <2>1 DEF m
<1>6. CASE c.keyword = "pass"
  <2>1. m.request.kind = "ssid" /\ UNCHANGED <<sleep_Time, AutolWateringTime, TimeStatus, exit_set>>
    BY <1>1, <1>3, <1>4, <1>6 DEF TakeNetwork, Leading
  <2> QED BY <2>1 DEF m
<1>7. CASE c.keyword = "exit"
  <2>1. /\ m.request.kind = "exit"
        /\ UNCHANGED <<sleep_Time, AutolWateringTime, TimeStatus, config, wakeup_sleep>>
    BY <1>1, <1>3, <1>4, <1>7 DEF TakeExit, Leading
  <2> QED BY <2>1 DEF m
<1>8. CASE c.keyword \notin {"timed", "pass", "exit"}
  BY <1>1, <1>8 DEF settings
<1> QED BY <1>5, <1>6, <1>7, <1>8

\* No message starts a command but that of the request whose bytes it begins with:
\* for all timings, networks and pairing codes, wherever a body is cut and whenever
\* a browser closes, what earlier messages left behind it in the two arrays is
\* never taken for a command.
THEOREM CommandIsOwn == Spec => OwnCommandOnly
<1> DEFINE kind == Head(HtmlToMcuData).request.kind
           Own == /\ kind # "timed" => UNCHANGED <<sleep_Time, AutolWateringTime, TimeStatus>>
                  /\ kind # "ssid" => UNCHANGED <<config, wakeup_sleep>>
                  /\ kind # "exit" => UNCHANGED exit_set
<1>1. CommandInv /\ [Next]_vars => [UNCHANGED settings \/ longest' = 0 \/ Own]_vars
  <2> SUFFICES ASSUME CommandInv, [Next]_vars
               PROVE  UNCHANGED settings \/ longest' = 0 \/ Own \/ UNCHANGED vars
    OBVIOUS
  <2>1. CASE Take
    BY <2>1, OwnCommand
  <2>2. CASE ~Take
    <3>1. \/ \E r \in Requests : Post(r)
          \/ \E n \in Cuts \union {Min({Rest, DataSize})} : Receive(n)
          \/ ReceiveNothing \/ GiveUp \/ Send \/ DropOversize \/ Crash
          \/ UNCHANGED vars
      BY <2>2 DEF Next
    <3>2. UNCHANGED settings \/ longest' = 0 \/ UNCHANGED vars
      BY <3>1 DEF Post, Receive, ReceiveNothing, GiveUp, Send, DropOversize, Crash
    <3> QED BY <3>2
  <2> QED BY <2>1, <2>2
<1> QED BY <1>1, CommandInvariant, PTL DEF Spec, OwnCommandOnly
==============================================================================
