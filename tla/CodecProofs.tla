---------------------------- MODULE CodecProofs ----------------------------
(***************************************************************************)
(* Proofs about Codec: what is written is read back, number by number,     *)
(* string by string and packet by packet, and so the streams between the   *)
(* client and the broker carry what was put into them, in its order.       *)
(***************************************************************************)
EXTENDS Codec, SequenceTheorems, WellFoundedInduction, TLAPS

-----------------------------------------------------------------------------
(* Induction on the natural numbers, with a set for the formula, and the      *)
(* functions defined by it.                                                   *)

\* A set of numbers that is not empty has a least one.
LEMMA LeastNumber ==
    ASSUME NEW T \in SUBSET Nat, T # {}
    PROVE  \E x \in T : \A y \in T : x <= y
<1>1. PICK x \in T : \A y \in T : ~(<<y, x>> \in OpToRel(<, Nat))
  BY NatLessThanWellFounded, WFMin
<1>2. \A y \in T : ~(y < x)
  BY <1>1 DEF OpToRel
<1> QED
  BY <1>2

\* A set of numbers with 0, and with the successor of each of its members, has all.
LEMMA SetInduction ==
    ASSUME NEW P \in SUBSET Nat, 0 \in P, \A n \in P : n + 1 \in P
    PROVE  P = Nat
<1> SUFFICES ASSUME Nat \ P # {} PROVE FALSE
  OBVIOUS
<1>1. PICK x \in Nat \ P : \A y \in Nat \ P : x <= y
  BY LeastNumber
<1>2. x - 1 \in Nat /\ x - 1 \notin P
  BY <1>1
<1> QED
  BY <1>1, <1>2

\* A start and a step define a function on the numbers.
LEMMA Iteration ==
    ASSUME NEW S, NEW a \in S, NEW step \in [S -> S]
    PROVE  \E f \in [Nat -> S] : f[0] = a /\ \A n \in Nat : f[n + 1] = step[f[n]]
<1> DEFINE Ok(P) == /\ <<0, a>> \in P
                    /\ \A n \in Nat, s \in S : <<n, s>> \in P => <<n + 1, step[s]>> \in P
           R == {p \in Nat \X S : \A P \in SUBSET (Nat \X S) : Ok(P) => p \in P}
           D == {n \in Nat : \E s \in S : <<n, s>> \in R /\ \A t \in S : <<n, t>> \in R => t = s}
<1>1. \A s \in S : step[s] \in S
  OBVIOUS
<1>2. Ok(R)
  <2>1. <<0, a>> \in R
    OBVIOUS
  <2>2. ASSUME NEW n \in Nat, NEW s \in S, <<n, s>> \in R
        PROVE  <<n + 1, step[s]>> \in R
    <3>1. n + 1 \in Nat /\ step[s] \in S
      BY <1>1
    <3>2. ASSUME NEW P \in SUBSET (Nat \X S), Ok(P)
          PROVE  <<n + 1, step[s]>> \in P
      <4>1. <<n, s>> \in P
        BY <2>2, <3>2
      <4> QED
        BY <4>1, <3>2
    <3> QED
      BY <3>1, <3>2
  <2> QED
    BY <2>1, <2>2
<1>3. \A P \in SUBSET (Nat \X S) : Ok(P) => R \subseteq P
  OBVIOUS
<1>4. R \subseteq Nat \X S
  OBVIOUS
<1> HIDE DEF R
<1>5. 0 \in D
  <2>1. ASSUME NEW t \in S, <<0, t>> \in R PROVE t = a
    <3> DEFINE P == {p \in Nat \X S : p[1] = 0 => p[2] = a}
    <3>1. <<0, a>> \in P
      OBVIOUS
    <3>2. ASSUME NEW n \in Nat, NEW s \in S PROVE <<n + 1, step[s]>> \in P
      <4>1. step[s] \in S /\ n + 1 \in Nat /\ n + 1 # 0
        BY <1>1
      <4> QED
        BY <4>1
    <3>3. P \in SUBSET (Nat \X S)
      OBVIOUS
    <3> HIDE DEF P
    <3>4. <<0, t>> \in P
      BY <3>1, <3>2, <3>3, <2>1, <1>3
    <3> QED
      BY <3>4 DEF P
  <2> QED
    BY <1>2, <2>1
<1>6. ASSUME NEW n \in D PROVE n + 1 \in D
  <2>1. PICK s \in S : <<n, s>> \in R /\ \A t \in S : <<n, t>> \in R => t = s
    OBVIOUS
  <2>2. <<n + 1, step[s]>> \in R /\ step[s] \in S
    BY <1>2, <2>1, <1>1
  <2>3. ASSUME NEW t \in S, <<n + 1, t>> \in R PROVE t = step[s]
    <3> SUFFICES ASSUME t # step[s] PROVE FALSE
      OBVIOUS
    <3> DEFINE P == R \ {<<n + 1, t>>}
    <3>1. <<0, a>> \in P
      BY <1>2
    <3>2. ASSUME NEW m \in Nat, NEW u \in S, <<m, u>> \in P
          PROVE <<m + 1, step[u]>> \in P
      <4>1. <<m + 1, step[u]>> \in R
        BY <1>2, <3>2
      <4>2. CASE m # n
        BY <4>1, <4>2
      <4>3. CASE m = n
        <5>1. u = s
          BY <4>3, <3>2, <2>1
        <5> QED
          BY <4>1, <4>3, <5>1
      <4> QED
        BY <4>2, <4>3
    <3>3. P \in SUBSET (Nat \X S)
      BY <1>4
    <3>4. <<n + 1, t>> \in P
      BY <3>1, <3>2, <3>3, <2>3, <1>3
    <3> QED
      BY <3>4
  <2>4. n + 1 \in Nat
    OBVIOUS
  <2>5. \E q \in S : <<n + 1, q>> \in R /\ \A t \in S : <<n + 1, t>> \in R => t = q
    BY <2>2, <2>3
  <2> QED
    BY <2>4, <2>5
<1>7. D = Nat
  <2> HIDE DEF D
  <2>1. D \in SUBSET Nat
    BY DEF D
  <2> QED
    BY <1>5, <1>6, <2>1, SetInduction
<1> DEFINE f == [n \in Nat |-> CHOOSE s \in S : <<n, s>> \in R]
<1>8. ASSUME NEW n \in Nat
      PROVE  f[n] \in S /\ <<n, f[n]>> \in R /\ \A t \in S : <<n, t>> \in R => t = f[n]
  <2>1. n \in D
    BY <1>7
  <2>2. PICK s \in S : <<n, s>> \in R /\ \A t \in S : <<n, t>> \in R => t = s
    BY <2>1
  <2>3. f[n] \in S /\ <<n, f[n]>> \in R
    BY <2>2
  <2> QED
    BY <2>2, <2>3
<1>9. f \in [Nat -> S]
  BY <1>8
<1> HIDE DEF f
<1>10. f[0] = a
  BY <1>8, <1>2
<1>11. ASSUME NEW n \in Nat PROVE f[n + 1] = step[f[n]]
  <2>1. f[n] \in S /\ <<n, f[n]>> \in R
    BY <1>8
  <2>2. <<n + 1, step[f[n]]>> \in R /\ step[f[n]] \in S
    BY <2>1, <1>2, <1>1
  <2>3. n + 1 \in Nat
    OBVIOUS
  <2> QED
    BY <2>2, <2>3, <1>8
<1> QED
  BY <1>9, <1>10, <1>11

-----------------------------------------------------------------------------
(* Remaining lengths. *)

\* The weights of the digits: the powers of the base.
LEMMA WeightDef ==
    /\ Weight \in [Nat -> Nat]
    /\ Weight[0] = 1
    /\ \A n \in Nat : Weight[n + 1] = Digit * Weight[n]
<1> DEFINE st == [v \in Nat |-> Digit * v]
<1>1. st \in [Nat -> Nat]
  BY DigitAssumption
<1>2. \A v \in Nat : st[v] = Digit * v
  OBVIOUS
<1> HIDE DEF st
<1>4. \E f \in [Nat -> Nat] : f[0] = 1 /\ \A n \in Nat : f[n + 1] = st[f[n]]
  <2> DEFINE N == Nat
             a == 1
  <2>1. a \in N /\ st \in [N -> N]
    BY <1>1
  <2> HIDE DEF N, a
  <2>2. \E f \in [Nat -> N] : f[0] = a /\ \A n \in Nat : f[n + 1] = st[f[n]]
    BY <2>1, Iteration
  <2> QED
    BY <2>2 DEF N, a
<1>5. PICK f \in [Nat -> Nat] : f[0] = 1 /\ \A n \in Nat : f[n + 1] = st[f[n]]
  BY <1>4
<1>6. \A n \in Nat : f[n + 1] = Digit * f[n]
  BY <1>5, <1>2
<1>7. f = [n \in Nat |-> IF n = 0 THEN 1 ELSE Digit * f[n - 1]]
  <2> SUFFICES ASSUME NEW n \in Nat PROVE f[n] = IF n = 0 THEN 1 ELSE Digit * f[n - 1]
    OBVIOUS
  <2>1. CASE n = 0
    BY <2>1, <1>5
  <2>2. CASE n # 0
    <3>1. n - 1 \in Nat /\ (n - 1) + 1 = n
      BY <2>2
    <3> QED
      BY <3>1, <1>6, <2>2
  <2> QED
    BY <2>1, <2>2
<1>8. Weight = [n \in Nat |-> IF n = 0 THEN 1 ELSE Digit * Weight[n - 1]]
  BY <1>7 DEF Weight
<1>9. Weight[0] = 1
  BY <1>8
<1>10. ASSUME NEW n \in Nat PROVE Weight[n + 1] = Digit * Weight[n]
  <2>1. n + 1 \in Nat /\ n + 1 # 0 /\ (n + 1) - 1 = n
    OBVIOUS
  <2>2. Weight[n + 1] = IF n + 1 = 0 THEN 1 ELSE Digit * Weight[(n + 1) - 1]
    BY <1>8, <2>1, Zenon
  <2> QED
    BY <2>1, <2>2
<1>11. Weight \in [Nat -> Nat]
  <2> DEFINE P == {n \in Nat : Weight[n] \in Nat}
  <2>1. 0 \in P
    BY <1>9
  <2>2. \A n \in P : n + 1 \in P
    BY <1>10, DigitAssumption
  <2>3. P \in SUBSET Nat
    OBVIOUS
  <2>4. P = Nat
    <3> HIDE DEF P
    <3> QED
      BY <2>1, <2>2, <2>3, SetInduction
  <2>5. Weight = [n \in Nat |-> Weight[n]]
    BY <1>8, Zenon
  <2> QED
    BY <2>4, <2>5
<1> QED
  BY <1>9, <1>10, <1>11

\* A weight is positive, greater than its number, and less than the next one.
LEMMA WeightGrows ==
    /\ \A n \in Nat : Weight[n] \in Nat /\ Weight[n] > n /\ Weight[n] < Weight[n + 1]
    /\ \A n \in Nat, m \in Nat : n <= m => Weight[n] <= Weight[m]
<1>1. \A n \in Nat : Weight[n] \in Nat
  BY WeightDef
<1>2. \A n \in Nat : Weight[n] > n
  <2> DEFINE P == {n \in Nat : Weight[n] > n}
  <2>1. 0 \in P
    BY WeightDef
  <2>2. ASSUME NEW n \in P PROVE n + 1 \in P
    <3>1. Weight[n] \in Nat /\ Weight[n] >= n + 1 /\ n \in Nat
      BY <1>1
    <3>2. Digit * Weight[n] >= 2 * Weight[n]
      BY <3>1, DigitAssumption
    <3>3. Weight[n + 1] = Digit * Weight[n] /\ Weight[n + 1] \in Nat
      BY <3>1, WeightDef, <1>1
    <3>4. Weight[n + 1] > n + 1
      BY <3>1, <3>2, <3>3
    <3> QED
      BY <3>1, <3>4
  <2>3. P \in SUBSET Nat
    OBVIOUS
  <2>4. P = Nat
    <3> HIDE DEF P
    <3> QED
      BY <2>1, <2>2, <2>3, SetInduction
  <2> QED
    BY <2>4
<1>3. ASSUME NEW n \in Nat PROVE Weight[n] < Weight[n + 1]
  <2>1. Weight[n] \in Nat /\ Weight[n] >= 1
    BY <1>1, <1>2
  <2>2. Digit * Weight[n] >= 2 * Weight[n]
    BY <2>1, DigitAssumption
  <2>3. Weight[n + 1] = Digit * Weight[n] /\ Weight[n + 1] \in Nat
    BY WeightDef, <1>1
  <2> QED
    BY <2>1, <2>2, <2>3
<1>4. ASSUME NEW n \in Nat, NEW m \in Nat, n <= m PROVE Weight[n] <= Weight[m]
  <2> DEFINE P == {k \in Nat : Weight[n] <= Weight[n + k]}
  <2>1. 0 \in P
    <3>1. n + 0 = n /\ Weight[n] \in Nat
      BY <1>1
    <3> QED
      BY <3>1
  <2>2. ASSUME NEW k \in P PROVE k + 1 \in P
    <3>1. n + k \in Nat /\ (n + k) + 1 = n + (k + 1) /\ k + 1 \in Nat
      OBVIOUS
    <3>2. Weight[n + k] < Weight[(n + k) + 1]
      BY <3>1, <1>3
    <3>3. Weight[n] \in Nat /\ Weight[n + k] \in Nat /\ Weight[n + (k + 1)] \in Nat
      BY <3>1, <1>1
    <3>4. Weight[n] <= Weight[n + (k + 1)]
      BY <3>1, <3>2, <3>3
    <3> QED
      BY <3>1, <3>4
  <2>3. P \in SUBSET Nat
    OBVIOUS
  <2>4. P = Nat
    <3> HIDE DEF P
    <3> QED
      BY <2>1, <2>2, <2>3, SetInduction
  <2>5. m - n \in Nat /\ n + (m - n) = m
    BY <1>4
  <2>6. m - n \in P
    BY <2>4, <2>5
  <2> QED
    BY <2>5, <2>6
<1> QED
  BY <1>1, <1>2, <1>3, <1>4

\* The number of digits of a length is well defined.
LEMMA DigitsDef ==
    ASSUME NEW n \in Nat
    PROVE  /\ Digits(n) \in Nat /\ Digits(n) >= 1
           /\ n < Weight[Digits(n)]
           /\ Digits(n) = 1 \/ Weight[Digits(n) - 1] <= n
           /\ n < Digit => Digits(n) = 1
           /\ \A m \in Nat : Digits(n) <= m <=> (m >= 1 /\ n < Weight[m])
<1> DEFINE T == {k \in Nat : k >= 1 /\ n < Weight[k]}
<1>1. n + 1 \in T
  <2>1. Weight[n + 1] \in Nat /\ Weight[n + 1] > n + 1
    BY WeightGrows
  <2> QED
    BY <2>1
<1>2. T \in SUBSET Nat /\ T # {}
  BY <1>1
<1>3. PICK k \in T : \A y \in T : k <= y
  <2> HIDE DEF T
  <2> QED
    BY <1>2, LeastNumber
<1>4. k \in 1..(n + 1)
  BY <1>1, <1>3
<1>5. k = 1 \/ Weight[k - 1] <= n
  <2> SUFFICES ASSUME k # 1 PROVE Weight[k - 1] <= n
    OBVIOUS
  <2>1. k - 1 \in Nat /\ k - 1 >= 1 /\ ~(k <= k - 1)
    BY <1>4
  <2>2. k - 1 \notin T
    BY <2>1, <1>3
  <2>3. Weight[k - 1] \in Nat
    BY <2>1, WeightGrows
  <2> QED
    BY <2>1, <2>2, <2>3
<1>6. /\ Digits(n) \in 1..(n + 1) /\ n < Weight[Digits(n)]
      /\ Digits(n) = 1 \/ Weight[Digits(n) - 1] <= n
  BY <1>4, <1>3, <1>5 DEF Digits
<1> HIDE DEF T
<1>7. ASSUME NEW m \in Nat PROVE Digits(n) <= m <=> (m >= 1 /\ n < Weight[m])
  <2>1. Digits(n) \in Nat /\ Digits(n) >= 1 /\ Weight[Digits(n)] \in Nat /\ Weight[m] \in Nat
    BY <1>6, WeightGrows
  <2>2. ASSUME Digits(n) <= m PROVE m >= 1 /\ n < Weight[m]
    <3>1. Weight[Digits(n)] <= Weight[m]
      BY <2>1, <2>2, WeightGrows
    <3> QED
      BY <3>1, <2>1, <2>2, <1>6
  <2>3. ASSUME m >= 1, n < Weight[m], ~(Digits(n) <= m) PROVE FALSE
    <3>1. Digits(n) - 1 \in Nat /\ m <= Digits(n) - 1 /\ Digits(n) # 1
      BY <2>1, <2>3
    <3>2. Weight[m] <= Weight[Digits(n) - 1] /\ Weight[Digits(n) - 1] \in Nat
      BY <3>1, WeightGrows
    <3> QED
      BY <3>1, <3>2, <2>1, <2>3, <1>6
  <2> QED
    BY <2>2, <2>3
<1>8. n < Digit => Digits(n) = 1
  <2>1. Weight[1] = Digit
    <3>1. Weight[0 + 1] = Digit * Weight[0] /\ Weight[0] = 1
      BY WeightDef
    <3> QED
      BY <3>1, DigitAssumption
  <2>2. n < Digit => Digits(n) <= 1
    BY <1>7, <2>1
  <2> QED
    BY <2>2, <1>6
<1> QED
  BY <1>6, <1>7, <1>8

\* One more digit: the remainder by the next weight.
LEMMA DigitStep ==
    ASSUME NEW n \in Nat, NEW w \in Nat, w >= 1
    PROVE  n % (Digit * w) = (n % w) + ((n \div w) % Digit) * w
<1> DEFINE q == n \div w
           r == n % w
           p == q \div Digit
           s == q % Digit
<1>1. q \in Nat /\ r \in 0..(w - 1) /\ n = q * w + r
  OBVIOUS
<1>2. p \in Nat /\ s \in 0..(Digit - 1) /\ q = p * Digit + s
  BY <1>1, DigitAssumption
<1> HIDE DEF q, r, p, s
<1>3. n = p * (Digit * w) + (s * w + r)
  <2>1. q * w = (p * Digit) * w + s * w
    BY <1>1, <1>2, DigitAssumption
  <2>2. (p * Digit) * w = p * (Digit * w)
    BY <1>1, <1>2, DigitAssumption
  <2> QED
    BY <1>1, <1>2, <2>1, <2>2, DigitAssumption
<1>4. s * w + r \in 0..((Digit * w) - 1)
  <2>1. s * w <= (Digit - 1) * w /\ s * w \in Nat
    BY <1>1, <1>2, DigitAssumption
  <2>2. (Digit - 1) * w = (Digit * w) - w
    BY DigitAssumption
  <2> QED
    BY <1>1, <2>1, <2>2, DigitAssumption
<1>5. n % (Digit * w) = s * w + r
  <2> DEFINE m == Digit * w
             t == s * w + r
  <2>1. m \in Nat /\ m >= 1 /\ t \in 0..(m - 1) /\ n = p * m + t
    BY <1>3, <1>4, DigitAssumption
  <2> HIDE DEF m, t
  <2>2. n % m = t
    BY <2>1, <1>2
  <2> QED
    BY <2>2 DEF m, t
<1> QED
  BY <1>5, <1>1, <1>2 DEF q, r, p, s

\* The digits of a length are bytes, all but the last one marked.
LEMMA EncodeLength ==
    ASSUME NEW n \in Nat
    PROVE  /\ EncodeRemainingLength(n) \in Seq(Byte)
           /\ Len(EncodeRemainingLength(n)) = Digits(n)
           /\ \A i \in 1..Digits(n) :
                /\ EncodeRemainingLength(n)[i] % Digit = (n \div Weight[i - 1]) % Digit
                /\ EncodeRemainingLength(n)[i] >= Digit <=> i # Digits(n)
           /\ n < Digit => EncodeRemainingLength(n) = <<n>>
<1> DEFINE k == Digits(n)
           E == EncodeRemainingLength(n)
<1>1. k \in Nat /\ k >= 1 /\ (n < Digit => k = 1)
  BY DigitsDef
<1> HIDE DEF k
<1>2. E = [i \in 1..k |-> ((n \div Weight[i - 1]) % Digit) + (IF i < k THEN Digit ELSE 0)]
  BY DEF EncodeRemainingLength, k
<1> HIDE DEF E
<1>3. ASSUME NEW i \in 1..k
      PROVE  /\ E[i] \in Byte /\ E[i] % Digit = (n \div Weight[i - 1]) % Digit
             /\ E[i] >= Digit <=> i # k
  <2> DEFINE d == (n \div Weight[i - 1]) % Digit
  <2>1. i - 1 \in Nat /\ Weight[i - 1] \in Nat /\ Weight[i - 1] >= 1
    BY WeightGrows, <1>1
  <2>2. n \div Weight[i - 1] \in Nat
    BY <2>1
  <2>3. d \in 0..(Digit - 1)
    BY <2>2, DigitAssumption
  <2>4. E[i] = d + (IF i < k THEN Digit ELSE 0)
    BY <1>2
  <2> HIDE DEF d
  <2>5. CASE i < k
    <3>1. E[i] = d + Digit
      BY <2>4, <2>5
    <3>2. (d + Digit) % Digit = d
      BY <2>3, DigitAssumption
    <3>3. E[i] \in Byte /\ E[i] >= Digit /\ i # k
      BY <3>1, <2>3, <2>5, DigitAssumption DEF Byte
    <3> QED
      BY <3>1, <3>2, <3>3 DEF d
  <2>6. CASE i = k
    <3>1. E[i] = d
      BY <2>3, <2>4, <2>6, <1>1, DigitAssumption
    <3>2. d % Digit = d
      BY <2>3, DigitAssumption
    <3>3. E[i] \in Byte /\ ~(E[i] >= Digit)
      BY <3>1, <2>3, DigitAssumption DEF Byte
    <3> QED
      BY <3>1, <3>2, <3>3, <2>6 DEF d
  <2> QED
    BY <2>5, <2>6, <1>1
<1>4. E \in [1..k -> Byte]
  <2>1. E = [i \in 1..k |-> E[i]]
    BY <1>2, Zenon
  <2> QED
    BY <2>1, <1>3
<1>5. E \in Seq(Byte) /\ Len(E) = k
  <2>1. E \in Seq(Byte)
    BY <1>4, <1>1, SeqDef
  <2>2. DOMAIN E = 1..k /\ DOMAIN E = 1..Len(E) /\ Len(E) \in Nat
    BY <1>4, <2>1, LenProperties
  <2> QED
    BY <2>1, <2>2, <1>1
<1>6. ASSUME n < Digit PROVE E = <<n>>
  <2>1. k = 1 /\ Weight[0] = 1
    BY <1>1, <1>6, WeightDef
  <2>2. E[1] = ((n \div Weight[0]) % Digit)
    <3>1. 1 \in 1..k /\ ~(1 < k) /\ 1 - 1 = 0
      BY <2>1
    <3>2. E[1] = ((n \div Weight[0]) % Digit) + 0
      BY <1>2, <3>1
    <3>3. (n \div Weight[0]) % Digit \in Nat
      BY <2>1, DigitAssumption
    <3> QED
      BY <3>2, <3>3
  <2>3. E[1] = n
    BY <2>1, <2>2, <1>6, DigitAssumption
  <2> QED
    BY <1>5, <2>1, <2>3
<1> QED
  BY <1>3, <1>5, <1>6 DEF k, E

\* What readRemainingLength makes of the digits that encodeRemainingLength wrote.
LEMMA LengthRoundTrip ==
    ASSUME NEW n \in Nat
    PROVE  LengthOf(EncodeRemainingLength(n)) = n
<1> DEFINE k == Digits(n)
           E == EncodeRemainingLength(n)
           g == [i \in 0..k |-> n % Weight[i]]
<1>1. k \in Nat /\ k >= 1 /\ n < Weight[k] /\ Weight[k] \in Nat
  BY DigitsDef, WeightGrows
<1>2. Len(E) = k /\ \A i \in 1..k : E[i] % Digit = (n \div Weight[i - 1]) % Digit
  BY EncodeLength
<1> HIDE DEF k, E
<1>3. ASSUME NEW i \in 1..k PROVE n % Weight[i] = AddDigit(n % Weight[i - 1], E[i], i - 1)
  <2>1. i - 1 \in Nat /\ (i - 1) + 1 = i
    BY <1>1
  <2>2. Weight[i] = Digit * Weight[i - 1]
    <3>1. Weight[(i - 1) + 1] = Digit * Weight[i - 1]
      BY <2>1, WeightDef
    <3> QED
      BY <3>1, <2>1
  <2>3. Weight[i - 1] \in Nat /\ Weight[i - 1] >= 1
    BY <2>1, WeightGrows
  <2>4. n % (Digit * Weight[i - 1])
          = (n % Weight[i - 1]) + ((n \div Weight[i - 1]) % Digit) * Weight[i - 1]
    BY <2>3, DigitStep
  <2> QED
    BY <1>2, <2>2, <2>4 DEF AddDigit
<1>4. n % Weight[0] = 0 /\ n % Weight[k] = n
  <2>1. n % 1 = 0
    OBVIOUS
  <2>2. \A m \in Nat : n < m => n % m = n
    OBVIOUS
  <2>3. n % Weight[k] = n
    BY <2>2, <1>1
  <2> QED
    BY <2>1, <2>3, WeightDef
<1> DEFINE Eqn(f) == f = [i \in 0..k |-> IF i = 0 THEN 0 ELSE AddDigit(f[i - 1], E[i], i - 1)]
           sum == CHOOSE f : Eqn(f)
<1>5. Eqn(g)
  <2> SUFFICES ASSUME NEW i \in 0..k
               PROVE  g[i] = IF i = 0 THEN 0 ELSE AddDigit(g[i - 1], E[i], i - 1)
    BY Zenon
  <2>1. CASE i = 0
    BY <2>1, <1>4
  <2>2. CASE i # 0
    <3>1. i \in 1..k /\ i - 1 \in 0..k
      BY <2>2, <1>1
    <3>2. g[i] = n % Weight[i] /\ g[i - 1] = n % Weight[i - 1]
      BY <3>1
    <3> HIDE DEF g
    <3> QED
      BY <3>1, <3>2, <1>3, <2>2
  <2> QED
    BY <2>1, <2>2
<1>6. Eqn(sum)
  <2> HIDE DEF g, Eqn
  <2> QED
    BY <1>5
<1> HIDE DEF sum
<1>7. \A i \in 0..k : sum[i] = n % Weight[i]
  <2> DEFINE P == {i \in Nat : i <= k => sum[i] = n % Weight[i]}
  <2>1. 0 \in P
    <3>1. sum[0] = 0
      BY <1>6, <1>1
    <3> QED
      BY <3>1, <1>4
  <2>2. ASSUME NEW i \in P PROVE i + 1 \in P
    <3>1. CASE i + 1 <= k
      <4>1. i + 1 \in 1..k /\ i + 1 \in 0..k /\ (i + 1) - 1 = i /\ i <= k /\ i + 1 # 0
        BY <3>1, <1>1
      <4>2. sum[i + 1] = AddDigit(sum[i], E[i + 1], i)
        <5>1. sum[i + 1] = IF i + 1 = 0 THEN 0
                           ELSE AddDigit(sum[(i + 1) - 1], E[i + 1], (i + 1) - 1)
          BY <1>6, <4>1, Zenon
        <5> QED
          BY <5>1, <4>1
      <4>3. n % Weight[i + 1] = AddDigit(n % Weight[i], E[i + 1], i)
        BY <1>3, <4>1
      <4>4. sum[i] = n % Weight[i]
        BY <4>1
      <4> QED
        BY <4>1, <4>2, <4>3, <4>4
    <3>2. CASE ~(i + 1 <= k)
      BY <3>2
    <3> QED
      BY <3>1, <3>2
  <2>3. P \in SUBSET Nat
    OBVIOUS
  <2>4. P = Nat
    <3> HIDE DEF P
    <3> QED
      BY <2>1, <2>2, <2>3, SetInduction
  <2> QED
    BY <2>4, <1>1
<1>8. LengthOf(E) = sum[k]
  BY <1>2 DEF LengthOf, sum
<1>9. sum[k] = n
  BY <1>7, <1>4, <1>1
<1> QED
  BY <1>8, <1>9 DEF E

-----------------------------------------------------------------------------
(* Packets. *)

\* The bytes of a packet with the header byte h.
Pack(h, b) == <<h>> \o EncodeRemainingLength(Len(b)) \o b

\* The pieces of a concatenation.
LEMMA TwoPieces ==
    ASSUME NEW S, NEW s \in Seq(S), NEW t \in Seq(S)
    PROVE  /\ s \o t \in Seq(S) /\ Len(s) \in Nat /\ Len(t) \in Nat
           /\ Len(s \o t) = Len(s) + Len(t)
           /\ \A i \in 1..Len(s) : (s \o t)[i] = s[i]
           /\ \A i \in 1..Len(t) : (s \o t)[Len(s) + i] = t[i]
<1>1. Len(s) \in Nat /\ Len(t) \in Nat
  OBVIOUS
<1>2. /\ s \o t \in Seq(S) /\ Len(s \o t) = Len(s) + Len(t)
      /\ \A i \in 1..(Len(s) + Len(t)) : (s \o t)[i] = IF i <= Len(s) THEN s[i] ELSE t[i - Len(s)]
  BY ConcatProperties
<1> DEFINE st == s \o t
<1> HIDE DEF st
<1>3. \A i \in 1..(Len(s) + Len(t)) : st[i] = IF i <= Len(s) THEN s[i] ELSE t[i - Len(s)]
  BY <1>2 DEF st
<1>4. ASSUME NEW i \in 1..Len(s) PROVE st[i] = s[i]
  <2>1. i \in 1..(Len(s) + Len(t)) /\ i <= Len(s)
    BY <1>1
  <2> QED
    BY <2>1, <1>3
<1>5. ASSUME NEW i \in 1..Len(t) PROVE st[Len(s) + i] = t[i]
  <2>1. /\ Len(s) + i \in 1..(Len(s) + Len(t)) /\ ~(Len(s) + i <= Len(s))
        /\ (Len(s) + i) - Len(s) = i
    BY <1>1
  <2> QED
    BY <2>1, <1>3
<1> QED
  BY <1>1, <1>2, <1>4, <1>5 DEF st

\* The same for bytes.
LEMMA BytePieces ==
    \A s \in Seq(Byte), t \in Seq(Byte) :
        /\ s \o t \in Seq(Byte) /\ Len(s) \in Nat /\ Len(t) \in Nat
        /\ Len(s \o t) = Len(s) + Len(t)
        /\ \A i \in 1..Len(s) : (s \o t)[i] = s[i]
        /\ \A i \in 1..Len(t) : (s \o t)[Len(s) + i] = t[i]
<1> DEFINE B == Byte
<1> HIDE DEF B
<1>1. SUFFICES ASSUME NEW s \in Seq(B), NEW t \in Seq(B)
               PROVE  /\ s \o t \in Seq(B) /\ Len(s) \in Nat /\ Len(t) \in Nat
                      /\ Len(s \o t) = Len(s) + Len(t)
                      /\ \A i \in 1..Len(s) : (s \o t)[i] = s[i]
                      /\ \A i \in 1..Len(t) : (s \o t)[Len(s) + i] = t[i]
  BY Zenon DEF B
<1> QED
  BY TwoPieces

\* The pieces of a concatenation of three.
LEMMA ThreePieces ==
    ASSUME NEW S, NEW x \in S, NEW s \in Seq(S), NEW t \in Seq(S)
    PROVE  /\ <<x>> \o s \o t \in Seq(S)
           /\ Len(<<x>> \o s \o t) = 1 + Len(s) + Len(t)
           /\ (<<x>> \o s \o t)[1] = x
           /\ \A i \in 1..Len(s) : (<<x>> \o s \o t)[1 + i] = s[i]
           /\ \A i \in 1..Len(t) : (<<x>> \o s \o t)[1 + Len(s) + i] = t[i]
<1>1. <<x>> \in Seq(S) /\ Len(<<x>>) = 1 /\ <<x>>[1] = x
  OBVIOUS
<1>2. /\ <<x>> \o s \in Seq(S) /\ Len(<<x>> \o s) = 1 + Len(s) /\ Len(s) \in Nat /\ Len(t) \in Nat
      /\ \A i \in 1..(1 + Len(s)) : (<<x>> \o s)[i] = IF i <= 1 THEN <<x>>[i] ELSE s[i - 1]
  BY <1>1, ConcatProperties, LenProperties
<1> DEFINE xs == <<x>> \o s
<1>3. xs \in Seq(S) /\ Len(xs) = 1 + Len(s) /\ xs[1] = x
  BY <1>1, <1>2
<1>4. \A i \in 1..Len(s) : xs[1 + i] = s[i]
  BY <1>1, <1>2
<1> HIDE DEF xs
<1>5. /\ xs \o t \in Seq(S) /\ Len(xs \o t) = 1 + Len(s) + Len(t)
      /\ \A i \in 1..(1 + Len(s) + Len(t)) :
            (xs \o t)[i] = IF i <= 1 + Len(s) THEN xs[i] ELSE t[i - (1 + Len(s))]
  BY <1>3, ConcatProperties
<1>6. (xs \o t)[1] = x
  BY <1>2, <1>3, <1>5
<1>7. ASSUME NEW i \in 1..Len(s) PROVE (xs \o t)[1 + i] = s[i]
  BY <1>2, <1>4, <1>5
<1>8. ASSUME NEW i \in 1..Len(t) PROVE (xs \o t)[1 + Len(s) + i] = t[i]
  <2>1. /\ 1 + Len(s) + i \in 1..(1 + Len(s) + Len(t)) /\ ~(1 + Len(s) + i <= 1 + Len(s))
        /\ (1 + Len(s) + i) - (1 + Len(s)) = i
    BY <1>2
  <2> QED
    BY <2>1, <1>5
<1> QED
  BY <1>5, <1>6, <1>7, <1>8 DEF xs

\* The pieces of a packet.
LEMMA PackPieces ==
    ASSUME NEW h \in Byte, NEW b \in Seq(Byte)
    PROVE  /\ Len(b) \in Nat /\ Digits(Len(b)) \in Nat /\ Digits(Len(b)) >= 1
           /\ Pack(h, b) \in Seq(Byte) /\ Len(Pack(h, b)) = 1 + Digits(Len(b)) + Len(b)
           /\ Pack(h, b)[1] = h
           /\ \A i \in 1..Digits(Len(b)) : Pack(h, b)[1 + i] = EncodeRemainingLength(Len(b))[i]
           /\ \A i \in 1..Len(b) : Pack(h, b)[1 + Digits(Len(b)) + i] = b[i]
<1>1. Len(b) \in Nat
  OBVIOUS
<1>2. /\ EncodeRemainingLength(Len(b)) \in Seq(Byte)
      /\ Len(EncodeRemainingLength(Len(b))) = Digits(Len(b))
      /\ Digits(Len(b)) \in Nat /\ Digits(Len(b)) >= 1
  BY <1>1, EncodeLength, DigitsDef
<1> DEFINE E == EncodeRemainingLength(Len(b))
<1> HIDE DEF E
<1>3. E \in Seq(Byte) /\ Len(E) = Digits(Len(b))
  BY <1>2 DEF E
<1>4. Pack(h, b) = <<h>> \o E \o b
  BY DEF Pack, E
<1>5. /\ Pack(h, b) \in Seq(Byte) /\ Len(Pack(h, b)) = 1 + Len(E) + Len(b) /\ Pack(h, b)[1] = h
      /\ \A i \in 1..Len(E) : Pack(h, b)[1 + i] = E[i]
      /\ \A i \in 1..Len(b) : Pack(h, b)[1 + Len(E) + i] = b[i]
  <2> DEFINE q == <<h>> \o E \o b
  <2>1. /\ q \in Seq(Byte) /\ Len(q) = 1 + Len(E) + Len(b) /\ q[1] = h
        /\ \A i \in 1..Len(E) : q[1 + i] = E[i]
        /\ \A i \in 1..Len(b) : q[1 + Len(E) + i] = b[i]
    BY <1>3, ThreePieces
  <2>2. Pack(h, b) = q
    BY <1>4
  <2> HIDE DEF q
  <2> QED
    BY <2>1, <2>2
<1> QED
  BY <1>1, <1>2, <1>3, <1>5 DEF E

\* Nothing has come.
LEMMA ReadNothing ==
    ASSUME NEW limit \in Nat
    PROVE  ReadFrame(<<>>, limit).is = "short"
<1>1. Len(<<>>) = 0
  OBVIOUS
<1>2. ReadRemainingLength(<<>>, limit) = [is |-> "short"]
  BY <1>1 DEF ReadRemainingLength
<1> QED
  BY <1>2 DEF ReadFrame

\* What ReadFrame finds in u when the packet with header h and body b, and then rest,
\* is what u begins and v ends.
PacketRead(u, v, h, b, rest, limit) ==
    LET r == ReadFrame(u, limit) IN
    /\ r.is \in {"whole", "short", "overflow"}
    /\ r.is = "whole" => /\ r.head = h /\ r.body = b
                         /\ r.rest \in Seq(Byte) /\ r.rest \o v = rest
    /\ r.is = "overflow" => limit > 0 /\ Len(b) >= Weight[limit]

\* A reader that has had the bytes u of the stream u \o v, which begins with a packet,
\* takes that packet and no byte more or less, or waits; it finds too many digits only
\* in a packet that has them.
LEMMA ReadPack ==
    ASSUME NEW u \in Seq(Byte), NEW v \in Seq(Byte), NEW rest \in Seq(Byte),
           NEW h \in Byte, NEW b \in Seq(Byte), NEW limit \in Nat,
           u \o v = Pack(h, b) \o rest
    PROVE  PacketRead(u, v, h, b, rest, limit)
<1> SUFFICES LET r == ReadFrame(u, limit) IN
             /\ r.is \in {"whole", "short", "overflow"}
             /\ r.is = "whole" => /\ r.head = h /\ r.body = b
                                  /\ r.rest \in Seq(Byte) /\ r.rest \o v = rest
             /\ r.is = "overflow" => limit > 0 /\ Len(b) >= Weight[limit]
  BY Zenon DEF PacketRead
<1> DEFINE l == Len(b)
           k == Digits(l)
           E == EncodeRemainingLength(l)
           p == Pack(h, b)
<1>1. /\ l \in Nat /\ k \in Nat /\ k >= 1 /\ p \in Seq(Byte) /\ Len(p) = 1 + k + l /\ p[1] = h
      /\ \A i \in 1..k : p[1 + i] = E[i]
      /\ \A i \in 1..l : p[1 + k + i] = b[i]
  BY PackPieces
<1>2. /\ E \in Seq(Byte) /\ Len(E) = k /\ LengthOf(E) = l
      /\ \A i \in 1..k : E[i] >= Digit <=> i # k
  BY <1>1, EncodeLength, LengthRoundTrip
<1>3. \A m \in Nat : k <= m <=> (m >= 1 /\ l < Weight[m])
  BY <1>1, DigitsDef
<1>4. b \in Seq(Byte) /\ Len(b) = l /\ u \o v = p \o rest
  OBVIOUS
<1> HIDE DEF l, k, E, p
<1> DEFINE X == u \o v
<1>5. /\ X \in Seq(Byte) /\ Len(X) = Len(u) + Len(v)
      /\ \A i \in 1..Len(u) : X[i] = u[i]
      /\ \A i \in 1..Len(v) : X[Len(u) + i] = v[i]
  BY BytePieces, Zenon
<1>6. /\ Len(X) = 1 + k + l + Len(rest)
      /\ \A i \in 1..(1 + k + l) : X[i] = p[i]
      /\ \A i \in 1..Len(rest) : X[1 + k + l + i] = rest[i]
  <2> DEFINE Y == p \o rest
  <2>1. /\ Len(Y) = Len(p) + Len(rest)
        /\ \A i \in 1..Len(p) : Y[i] = p[i]
        /\ \A i \in 1..Len(rest) : Y[Len(p) + i] = rest[i]
    BY <1>1, BytePieces, Zenon
  <2>2. X = Y /\ Len(p) = 1 + k + l
    BY <1>1, <1>4
  <2> HIDE DEF X, Y
  <2> QED
    BY <2>1, <2>2
<1>7. Len(u) \in Nat /\ Len(v) \in Nat /\ Len(rest) \in Nat
  OBVIOUS
<1> HIDE DEF X
<1>8. ASSUME NEW i \in 1..k, 1 + i <= Len(u) PROVE u[1 + i] = E[i]
  <2>1. 1 + i \in 1..Len(u) /\ 1 + i \in 1..(1 + k + l)
    BY <1>1, <1>7, <1>8
  <2>2. X[1 + i] = u[1 + i] /\ X[1 + i] = p[1 + i] /\ p[1 + i] = E[i]
    BY <2>1, <1>1, <1>5, <1>6
  <2> QED
    BY <2>2
<1>9. ASSUME NEW i \in 1..l, 1 + k + i <= Len(u) PROVE u[1 + k + i] = b[i]
  <2>1. 1 + k + i \in 1..Len(u) /\ 1 + k + i \in 1..(1 + k + l)
    BY <1>1, <1>7, <1>9
  <2>2. X[1 + k + i] = u[1 + k + i] /\ X[1 + k + i] = p[1 + k + i] /\ p[1 + k + i] = b[i]
    BY <2>1, <1>1, <1>5, <1>6
  <2> QED
    BY <2>2
<1>10. ASSUME 1 <= Len(u) PROVE u[1] = h
  <2>1. 1 \in 1..Len(u) /\ 1 \in 1..(1 + k + l)
    BY <1>1, <1>7, <1>10
  <2>2. X[1] = u[1] /\ X[1] = p[1] /\ p[1] = h
    BY <2>1, <1>1, <1>5, <1>6
  <2> QED
    BY <2>2
<1>11. \A i \in 1..Len(u) : u[i] \in Byte
  OBVIOUS
<1>12. ASSUME NEW i \in 1..k PROVE E[i] \in Byte /\ (E[i] < Digit <=> i = k)
  <2>0. E[i] \in Byte
    BY <1>2, ElementOfSeq
  <2>1. E[i] \in 0..255
    BY <2>0 DEF Byte
  <2>2. E[i] >= Digit <=> i # k
    BY <1>2
  <2> HIDE DEF E
  <2>3. \A x \in 0..255 : x < Digit <=> ~(x >= Digit)
    BY DigitAssumption
  <2> QED
    BY <2>0, <2>1, <2>2, <2>3
<1>13. ASSUME limit > 0, Len(u) > limit, Marked(u, limit)
       PROVE  Len(b) >= Weight[limit]
  <2> SUFFICES ASSUME k <= limit PROVE FALSE
    <3>1. Weight[limit] \in Nat
      BY WeightGrows
    <3> QED
      BY <1>3, <1>4, <1>13, <1>1, <3>1
  <2>1. k \in 1..k /\ k \in 1..limit /\ 1 + k <= Len(u)
    BY <1>1, <1>7, <1>13
  <2>2. u[k + 1] >= Digit
    BY <2>1, <1>13 DEF Marked
  <2>3. u[1 + k] = E[k]
    BY <2>1, <1>8
  <2>4. k + 1 = 1 + k
    BY <1>1
  <2> QED
    BY <2>1, <2>2, <2>3, <2>4, <1>2
<1> DEFINE d == ReadRemainingLength(u, limit)
<1>14. ASSUME d.is = "whole" PROVE d.len = l /\ d.digits = k /\ 1 + k <= Len(u)
  <2>1. ~(Len(u) = 0 \/ Marked(u, Len(u) - 1))
    BY <1>14 DEF ReadRemainingLength
  <2>2. PICK j \in 1..(Len(u) - 1) : ~(u[j + 1] >= Digit)
    BY <2>1, <1>7 DEF Marked
  <2>3. k <= j
    <3> SUFFICES ASSUME j < k PROVE FALSE
      BY <1>1
    <3>1. j \in 1..k /\ 1 + j <= Len(u) /\ 1 + j = j + 1 /\ j # k
      BY <1>1, <1>7
    <3>2. u[1 + j] = E[j]
      BY <3>1, <1>8
    <3> QED
      BY <3>1, <3>2, <2>2, <1>2
  <2>4. k \in 1..(Len(u) - 1) /\ k \in 1..k /\ 1 + k <= Len(u) /\ 1 + k = k + 1
    BY <2>3, <1>1, <1>7
  <2>5. u[k + 1] < Digit
    BY <2>4, <1>8, <1>12
  <2>6. Marked(u, k - 1)
    <3> SUFFICES ASSUME NEW i \in 1..(k - 1) PROVE u[i + 1] >= Digit
      BY DEF Marked
    <3>1. i \in 1..k /\ i # k /\ 1 + i <= Len(u) /\ 1 + i = i + 1
      BY <2>4, <1>1, <1>7
    <3> QED
      BY <3>1, <1>8, <1>2
  <2> DEFINE n == CHOOSE m \in 1..(Len(u) - 1) : u[m + 1] < Digit /\ Marked(u, m - 1)
  <2>7. n \in 1..(Len(u) - 1) /\ u[n + 1] < Digit /\ Marked(u, n - 1)
    BY <2>4, <2>5, <2>6
  <2>8. d = [is |-> "whole", len |-> LengthOf(SubSeq(u, 2, n + 1)), digits |-> n]
    BY <1>14, <2>1 DEF ReadRemainingLength
  <2> HIDE DEF n, d
  <2>9. n = k
    <3>1. CASE n < k
      <4>0. n \in 1..(Len(u) - 1)
        BY <2>7
      <4>1. n \in 1..k /\ n # k /\ 1 + n <= Len(u) /\ 1 + n = n + 1
        BY <3>1, <4>0, <1>1, <1>7
      <4>2. u[1 + n] = E[n] /\ ~(E[n] < Digit)
        BY <4>1, <1>8, <1>12
      <4> QED
        BY <4>1, <4>2, <2>7
    <3>2. CASE n > k
      <4>1. k \in 1..(n - 1)
        BY <3>2, <2>7, <1>1, <1>7
      <4>2. u[k + 1] >= Digit
        BY <4>1, <2>7 DEF Marked
      <4>3. u[k + 1] \in Byte
        BY <2>4, <1>11
      <4>4. \A x \in 0..255 : ~(x >= Digit /\ x < Digit)
        BY DigitAssumption
      <4> QED
        BY <4>2, <4>3, <4>4, <2>5 DEF Byte
    <3> QED
      BY <3>1, <3>2, <2>7, <1>1, <1>7
  <2>10. SubSeq(u, 2, k + 1) = E
    <3>1. \A i \in 2..(k + 1) : u[i] \in Byte
      BY <2>4, <1>11, <1>1, <1>7
    <3>2. 2 \in Int /\ k + 1 \in Int
      BY <1>1
    <3>3. /\ SubSeq(u, 2, k + 1) \in Seq(Byte)
          /\ Len(SubSeq(u, 2, k + 1)) = IF 2 <= k + 1 THEN ((k + 1) - 2) + 1 ELSE 0
          /\ \A i \in 1..(((k + 1) - 2) + 1) : SubSeq(u, 2, k + 1)[i] = u[(2 + i) - 1]
      BY <3>1, <3>2, SubSeqProperties
    <3>4. Len(SubSeq(u, 2, k + 1)) = k
      BY <3>3, <1>1
    <3>5. ASSUME NEW i \in 1..k PROVE SubSeq(u, 2, k + 1)[i] = E[i]
      <4>1. i \in 1..(((k + 1) - 2) + 1) /\ (2 + i) - 1 = 1 + i /\ 1 + i <= Len(u)
        BY <1>1, <1>7, <2>4
      <4> QED
        BY <4>1, <3>3, <1>8
    <3> QED
      BY <3>3, <3>4, <3>5, <1>2, SeqEqual
  <2> QED
    BY <2>4, <2>8, <2>9, <2>10, <1>2
<1>15. d.is \in {"whole", "short", "overflow"}
       /\ (d.is = "overflow" => limit > 0 /\ Len(u) > limit /\ Marked(u, limit))
  BY DEF ReadRemainingLength
<1> HIDE DEF d
<1> DEFINE r == ReadFrame(u, limit)
<1>16. CASE d.is # "whole"
  <2>1. r = d
    BY <1>16 DEF ReadFrame, d
  <2> HIDE DEF r
  <2> QED
    BY <2>1, <1>13, <1>15, <1>16 DEF r
<1>17. CASE d.is = "whole"
  <2>1. d.len = l /\ d.digits = k /\ 1 + k <= Len(u)
    BY <1>14, <1>17
  <2>2. CASE Len(u) < 1 + k + l
    <3>1. r.is = "short"
      BY <1>17, <2>1, <2>2 DEF ReadFrame, d
    <3> QED
      BY <3>1
  <2>3. CASE ~(Len(u) < 1 + k + l)
    <3> DEFINE bo == SubSeq(u, (1 + k) + 1, (1 + k) + l)
               re == SubSeq(u, ((1 + k) + l) + 1, Len(u))
    <3>1. r = [is |-> "whole", head |-> u[1], body |-> bo, rest |-> re]
      BY <1>17, <2>1, <2>3 DEF ReadFrame, d
    <3>2. bo = b
      <4>1. \A i \in ((1 + k) + 1)..((1 + k) + l) : u[i] \in Byte
        BY <2>3, <1>11, <1>1, <1>7
      <4>2. (1 + k) + 1 \in Int /\ (1 + k) + l \in Int
        BY <1>1
      <4>3. /\ bo \in Seq(Byte)
            /\ Len(bo) = IF (1 + k) + 1 <= (1 + k) + l
                         THEN (((1 + k) + l) - ((1 + k) + 1)) + 1 ELSE 0
            /\ \A i \in 1..((((1 + k) + l) - ((1 + k) + 1)) + 1) :
                  bo[i] = u[(((1 + k) + 1) + i) - 1]
        BY <4>1, <4>2, SubSeqProperties
      <4> HIDE DEF bo
      <4>4. Len(bo) = l
        <5>1. \A m, n \in Nat :
                (IF (1 + m) + 1 <= (1 + m) + n THEN (((1 + m) + n) - ((1 + m) + 1)) + 1 ELSE 0) = n
          OBVIOUS
        <5>2. k \in Nat /\ l \in Nat
          BY <1>1
        <5> QED
          BY <4>3, <5>1, <5>2, Zenon
      <4>5. ASSUME NEW i \in 1..l PROVE bo[i] = b[i]
        <5>1. /\ i \in 1..((((1 + k) + l) - ((1 + k) + 1)) + 1)
              /\ (((1 + k) + 1) + i) - 1 = 1 + k + i /\ 1 + k + i <= Len(u)
          BY <1>1, <1>7, <2>3
        <5> QED
          BY <5>1, <4>3, <1>9
      <4> QED
        BY <4>3, <4>4, <4>5, <1>4, SeqEqual
    <3>3. re \in Seq(Byte) /\ re \o v = rest
      <4> DEFINE c == (1 + k) + l
      <4>0. c \in Nat /\ c <= Len(u) /\ re = SubSeq(u, c + 1, Len(u)) /\ c = 1 + k + l
        BY <1>1, <1>7, <2>3
      <4> HIDE DEF c, re
      <4>1. \A i \in (c + 1)..Len(u) : u[i] \in Byte
        BY <4>0, <1>11, <1>7
      <4>2. c + 1 \in Int /\ Len(u) \in Int
        BY <4>0, <1>7
      <4>3. /\ re \in Seq(Byte)
            /\ Len(re) = IF c + 1 <= Len(u) THEN (Len(u) - (c + 1)) + 1 ELSE 0
            /\ \A i \in 1..((Len(u) - (c + 1)) + 1) : re[i] = u[((c + 1) + i) - 1]
        <5> DEFINE x == SubSeq(u, c + 1, Len(u))
        <5>1. /\ x \in Seq(Byte)
              /\ Len(x) = IF c + 1 <= Len(u) THEN (Len(u) - (c + 1)) + 1 ELSE 0
              /\ \A i \in 1..((Len(u) - (c + 1)) + 1) : x[i] = u[((c + 1) + i) - 1]
          BY <4>1, <4>2, SubSeqProperties
        <5>2. re = x
          BY <4>0
        <5> HIDE DEF x
        <5> QED BY <5>1, <5>2, Zenon
      <4>4. Len(re) = Len(u) - c /\ Len(re) \in Nat
        <5>1. Len(re) = IF c + 1 <= Len(u) THEN (Len(u) - (c + 1)) + 1 ELSE 0
          BY <4>3, Zenon
        <5>2. c \in Nat /\ Len(u) \in Nat /\ c <= Len(u)
          BY <4>0, <1>7
        <5> HIDE DEF re, c
        <5> QED BY <5>1, <5>2
      <4>5. /\ re \o v \in Seq(Byte) /\ Len(re \o v) = Len(re) + Len(v)
            /\ \A i \in 1..Len(re) : (re \o v)[i] = re[i]
            /\ \A i \in 1..Len(v) : (re \o v)[Len(re) + i] = v[i]
        BY <4>3, BytePieces, Zenon
      <4>n. c \in Nat /\ c <= Len(u)
        BY <4>0
      <4>l. Len(re) = Len(u) - c /\ Len(re) \in Nat
        BY <4>4
      <4> DEFINE rv == re \o v
      <4> HIDE DEF rv
      <4>6. rv \in Seq(Byte) /\ Len(rv) = Len(rest) /\ Len(rest) = Len(re) + Len(v)
        <5>1. Len(u) + Len(v) = c + Len(rest)
          BY <1>5, <1>6, <4>0
        <5>2. Len(re) + Len(v) = Len(rest)
          BY <5>1, <4>l, <4>n, <1>7
        <5> QED
          BY <5>2, <4>5 DEF rv
      <4>7. ASSUME NEW i \in 1..Len(rest) PROVE rv[i] = rest[i]
        <5>1. X[c + i] = rest[i]
          BY <1>6, <4>0
        <5>2. CASE i <= Len(re)
          <6>1. /\ i \in 1..((Len(u) - (c + 1)) + 1) /\ i \in 1..Len(re)
                /\ ((c + 1) + i) - 1 = c + i /\ c + i \in 1..Len(u)
            BY <5>2, <4>l, <4>n, <1>7
          <6>2. rv[i] = re[i] /\ re[i] = u[c + i] /\ X[c + i] = u[c + i]
            BY <6>1, <4>3, <4>5, <1>5 DEF rv
          <6> QED
            BY <6>2, <5>1
        <5>3. CASE ~(i <= Len(re))
          <6> DEFINE j == i - Len(re)
          <6>1. j \in 1..Len(v) /\ Len(re) + j = i /\ Len(u) + j = c + i
            BY <5>3, <4>l, <4>6, <4>n, <1>7
          <6> HIDE DEF j
          <6>2. rv[Len(re) + j] = v[j] /\ X[Len(u) + j] = v[j]
            BY <6>1, <4>5, <1>5 DEF rv
          <6> QED
            BY <6>1, <6>2, <5>1
        <5> QED
          BY <5>2, <5>3
      <4>8. rv = rest
        BY <4>6, <4>7, SeqEqual
      <4> QED
        BY <4>3, <4>8 DEF rv
    <3>4. u[1] = h
      BY <1>10, <2>1, <1>1, <1>7
    <3> HIDE DEF bo, re
    <3>5. r.is = "whole" /\ r.head = h /\ r.body = b /\ r.rest = re
      BY <3>1, <3>2, <3>4
    <3> QED
      BY <3>5, <3>3
  <2> QED
    BY <2>2, <2>3
<1> QED
  BY <1>16, <1>17

-----------------------------------------------------------------------------
(* Numbers and strings. *)

\* Concatenation of bytes is associative, and nothing is its unit.
LEMMA ByteAssoc ==
    /\ \A s \in Seq(Byte), t \in Seq(Byte), u \in Seq(Byte) : (s \o t) \o u = s \o (t \o u)
    /\ \A s \in Seq(Byte) : s \o <<>> = s /\ <<>> \o s = s
    /\ <<>> \in Seq(Byte)
<1> DEFINE B == Byte
<1> HIDE DEF B
<1>1. ASSUME NEW s \in Seq(B), NEW t \in Seq(B), NEW u \in Seq(B)
      PROVE  (s \o t) \o u = s \o (t \o u)
  BY ConcatAssociative
<1>2. ASSUME NEW s \in Seq(B)
      PROVE  s \o <<>> = s /\ <<>> \o s = s
  BY ConcatEmptySeq
<1>3. <<>> \in Seq(B)
  OBVIOUS
<1> QED
  BY <1>1, <1>2, <1>3, Zenon DEF B

\* Three pieces are the same put together from the left and from the right.
Rejoins(s, t, u) == (s \o t) \o u = s \o (t \o u)

\* They are, for bytes, in a form that provers can match.
LEMMA Rejoin == \A s \in Seq(Byte), t \in Seq(Byte), u \in Seq(Byte) : Rejoins(s, t, u)
BY ByteAssoc, Zenon DEF Rejoins

\* A part of a sequence of bytes.
LEMMA ByteSub ==
    ASSUME NEW s \in Seq(Byte), NEW m \in Nat, NEW n \in Nat, m <= n, n <= Len(s)
    PROVE  /\ SubSeq(s, m + 1, n) \in Seq(Byte)
           /\ Len(SubSeq(s, m + 1, n)) = n - m
           /\ \A i \in 1..(n - m) : SubSeq(s, m + 1, n)[i] = s[m + i]
<1>1. ASSUME NEW i \in (m + 1)..n PROVE s[i] \in Byte
  <2>1. i \in 1..Len(s)
    OBVIOUS
  <2> QED
    BY <2>1, ElementOfSeq
<1>2. m + 1 \in Int /\ n \in Int
  OBVIOUS
<1> DEFINE q == SubSeq(s, m + 1, n)
<1>3. /\ q \in Seq(Byte) /\ Len(q) = IF m + 1 <= n THEN (n - (m + 1)) + 1 ELSE 0
      /\ \A i \in 1..((n - (m + 1)) + 1) : q[i] = s[((m + 1) + i) - 1]
  BY <1>1, <1>2, SubSeqProperties
<1> HIDE DEF q
<1>4. Len(q) = n - m
  <2>1. Len(q) = IF m + 1 <= n THEN (n - (m + 1)) + 1 ELSE 0
    BY <1>3, Zenon
  <2> QED BY <2>1
<1>5. ASSUME NEW i \in 1..(n - m) PROVE q[i] = s[m + i]
  <2>1. i \in 1..((n - (m + 1)) + 1) /\ ((m + 1) + i) - 1 = m + i
    OBVIOUS
  <2> QED
    BY <2>1, <1>3
<1> QED
  BY <1>3, <1>4, <1>5 DEF q

\* What lies between two parts, and what comes after one.
LEMMA Cut ==
    ASSUME NEW pre \in Seq(Byte), NEW mid \in Seq(Byte), NEW post \in Seq(Byte)
    PROVE  /\ SubSeq(pre \o (mid \o post), Len(pre) + 1, Len(pre) + Len(mid)) = mid
           /\ SubSeq(pre \o post, Len(pre) + 1, Len(pre \o post)) = post
<1> DEFINE mp == mid \o post
           b == pre \o mp
           c == pre \o post
<1>1. /\ mp \in Seq(Byte) /\ Len(mp) = Len(mid) + Len(post)
      /\ Len(pre) \in Nat /\ Len(mid) \in Nat /\ Len(post) \in Nat
      /\ \A i \in 1..Len(mid) : mp[i] = mid[i]
  BY BytePieces, Zenon
<1> HIDE DEF mp
<1>2. /\ b \in Seq(Byte) /\ Len(b) = Len(pre) + Len(mp)
      /\ \A i \in 1..Len(mp) : b[Len(pre) + i] = mp[i]
  BY <1>1, BytePieces, Zenon
<1>3. /\ c \in Seq(Byte) /\ Len(c) = Len(pre) + Len(post)
      /\ \A i \in 1..Len(post) : c[Len(pre) + i] = post[i]
  BY BytePieces, Zenon
<1> HIDE DEF b, c
<1>4. SubSeq(b, Len(pre) + 1, Len(pre) + Len(mid)) = mid
  <2> DEFINE q == SubSeq(b, Len(pre) + 1, Len(pre) + Len(mid))
             n == Len(pre) + Len(mid)
  <2>1. n \in Nat /\ Len(pre) <= n /\ n <= Len(b) /\ n - Len(pre) = Len(mid)
    BY <1>1, <1>2
  <2>2. /\ q \in Seq(Byte) /\ Len(q) = n - Len(pre)
        /\ \A i \in 1..(n - Len(pre)) : q[i] = b[Len(pre) + i]
    BY <2>1, <1>1, <1>2, ByteSub
  <2> HIDE DEF q, n
  <2>3. Len(q) = Len(mid)
    BY <2>1, <2>2
  <2>4. ASSUME NEW i \in 1..Len(mid) PROVE q[i] = mid[i]
    <3>1. i \in 1..(n - Len(pre)) /\ i \in 1..Len(mp)
      BY <2>1, <1>1
    <3> QED
      BY <3>1, <2>2, <1>1, <1>2
  <2>5. q = mid
    BY <2>2, <2>3, <2>4, SeqEqual
  <2> QED
    BY <2>5 DEF q
<1>5. SubSeq(c, Len(pre) + 1, Len(c)) = post
  <2> DEFINE q == SubSeq(c, Len(pre) + 1, Len(c))
  <2>1. Len(c) \in Nat /\ Len(pre) <= Len(c) /\ Len(c) - Len(pre) = Len(post)
    BY <1>1, <1>3
  <2>2. /\ q \in Seq(Byte) /\ Len(q) = Len(c) - Len(pre)
        /\ \A i \in 1..(Len(c) - Len(pre)) : q[i] = c[Len(pre) + i]
    BY <2>1, <1>1, <1>3, ByteSub
  <2> HIDE DEF q
  <2>3. Len(q) = Len(post)
    BY <2>1, <2>2
  <2>4. ASSUME NEW i \in 1..Len(post) PROVE q[i] = post[i]
    <3>1. i \in 1..(Len(c) - Len(pre))
      BY <2>1, <1>1
    <3> QED
      BY <3>1, <2>2, <1>3
  <2>5. q = post
    BY <2>2, <2>3, <2>4, SeqEqual
  <2> QED
    BY <2>5 DEF q
<1> QED
  BY <1>4, <1>5 DEF b, c, mp

\* A 16-bit number is two bytes, and is read back when it fits.
LEMMA U16Facts ==
    ASSUME NEW n \in Nat
    PROVE  /\ U16(n) \in Seq(Byte) /\ Len(U16(n)) = 2
           /\ U16(n)[1] \in Nat /\ U16(n)[2] \in Nat
           /\ n < LenBase * LenBase => U16(n)[1] * LenBase + U16(n)[2] = n
<1> DEFINE hi == (n \div LenBase) % LenBase
           lo == n % LenBase
<1>1. LenBase \in 2..256
  BY WidthAssumption
<1>2. hi \in 0..(LenBase - 1) /\ lo \in 0..(LenBase - 1)
  BY <1>1
<1>3. n < LenBase * LenBase => hi * LenBase + lo = n
  <2> SUFFICES ASSUME n < LenBase * LenBase PROVE hi * LenBase + lo = n
    OBVIOUS
  <2> DEFINE q == n \div LenBase
  <2>1. q \in Nat /\ n = q * LenBase + lo
    BY <1>1
  <2>2. q < LenBase
    <3> HIDE DEF q, lo
    <3> SUFFICES ASSUME q >= LenBase PROVE FALSE
      BY <2>1, <1>1
    <3>1. q * LenBase >= LenBase * LenBase
      BY <2>1, <1>1
    <3> QED
      BY <3>1, <2>1, <1>1, <1>2 DEF lo
  <2>3. hi = q
    BY <2>1, <2>2, <1>1
  <2> QED
    BY <2>1, <2>3
<1> HIDE DEF hi, lo
<1>4. U16(n) = <<hi, lo>>
  BY DEF U16, hi, lo
<1>5. hi \in Byte /\ lo \in Byte
  BY <1>1, <1>2 DEF Byte
<1> QED
  BY <1>2, <1>3, <1>4, <1>5

\* readString finds the string that encodeString wrote, and where it ends.
LEMMA ReadStringAt ==
    ASSUME NEW pre \in Seq(Byte), NEW s \in Seq(Byte), NEW post \in Seq(Byte), ~Overlong(s)
    PROVE  ReadString(pre \o (EncodeString(s) \o post), Len(pre))
             = [ok |-> TRUE, s |-> s, pos |-> Len(pre) + 2 + Len(s)]
<1> DEFINE n == Len(s)
           U == U16(n)
           sp == s \o post
           b == pre \o (U \o sp)
<1>1. n \in Nat /\ n < LenBase * LenBase /\ LenBase \in Nat
  BY WidthAssumption DEF Overlong
<1>2. U \in Seq(Byte) /\ Len(U) = 2 /\ U[1] * LenBase + U[2] = n
  BY <1>1, U16Facts
<1> HIDE DEF U
<1>3. sp \in Seq(Byte) /\ Len(sp) = n + Len(post) /\ Len(pre) \in Nat /\ Len(post) \in Nat
  BY BytePieces, Zenon
<1>4. pre \o (EncodeString(s) \o post) = b
  <2>1. EncodeString(s) = U \o s
    BY DEF EncodeString, U
  <2>2. (U \o s) \o post = U \o (s \o post)
    <3>1. Rejoins(U, s, post)
      BY <1>2, Rejoin, Zenon
    <3> QED BY <3>1, Zenon DEF Rejoins
  <2> QED
    BY <2>1, <2>2
<1> DEFINE us == U \o sp
<1>5. /\ us \in Seq(Byte) /\ Len(us) = 2 + Len(sp)
      /\ \A i \in 1..2 : us[i] = U[i]
  <2> HIDE DEF sp
  <2>1. /\ us \in Seq(Byte) /\ Len(us) = Len(U) + Len(sp)
        /\ \A i \in 1..Len(U) : us[i] = U[i]
    BY <1>2, <1>3, BytePieces, Zenon
  <2> QED
    BY <1>2, <2>1
<1>6. /\ b \in Seq(Byte) /\ Len(b) = Len(pre) + Len(us)
      /\ \A i \in 1..Len(us) : b[Len(pre) + i] = us[i]
  <2> HIDE DEF us
  <2>1. b = pre \o us
    BY DEF us
  <2>2. /\ pre \o us \in Seq(Byte) /\ Len(pre \o us) = Len(pre) + Len(us)
        /\ \A i \in 1..Len(us) : (pre \o us)[Len(pre) + i] = us[i]
    BY <1>5, BytePieces, Zenon
  <2> HIDE DEF b
  <2> QED
    BY <2>1, <2>2, Zenon
<1>7. Num(b, Len(pre)) = n
  <2> HIDE DEF us, b, sp
  <2>1. 1 \in 1..Len(us) /\ 2 \in 1..Len(us)
    BY <1>3, <1>5, <1>1
  <2>2. b[Len(pre) + 1] = U[1] /\ b[Len(pre) + 2] = U[2]
    BY <2>1, <1>5, <1>6
  <2> QED
    BY <2>2, <1>2 DEF Num
<1>8. SubSeq(b, (Len(pre) + 2) + 1, (Len(pre) + 2) + n) = s
  <2> DEFINE pu == pre \o U
  <2>1. pu \in Seq(Byte) /\ Len(pu) = Len(pre) + 2
    <3>1. pu \in Seq(Byte) /\ Len(pu) = Len(pre) + Len(U)
      BY <1>2, BytePieces, Zenon
    <3> QED
      BY <3>1, <1>2
  <2>2. b = pu \o (s \o post)
    <3>1. Rejoins(pre, U, s \o post)
      BY <1>2, <1>3, Rejoin, Zenon
    <3> QED BY <3>1, Zenon DEF Rejoins
  <2> HIDE DEF pu, b
  <2>3. SubSeq(pu \o (s \o post), Len(pu) + 1, Len(pu) + Len(s)) = s
    BY <2>1, Cut
  <2> QED
    BY <2>1, <2>2, <2>3
<1> HIDE DEF us, b, sp
<1>9. ~(Len(pre) + 2 > Len(b)) /\ ~(Len(pre) + 2 + n > Len(b))
  BY <1>1, <1>3, <1>5, <1>6
<1>10. Len(pre) + 3 = (Len(pre) + 2) + 1 /\ Len(pre) + 2 + n = (Len(pre) + 2) + n
  BY <1>1, <1>3
<1>11. ReadString(b, Len(pre)) = [ok |-> TRUE, s |-> SubSeq(b, Len(pre) + 3, Len(pre) + 2 + n),
                                 pos |-> Len(pre) + 2 + n]
  BY <1>7, <1>9 DEF ReadString
<1> QED
  BY <1>4, <1>8, <1>10, <1>11

\* The bytes of a string, and what readString returns of any bytes.
LEMMA StringTypes ==
    /\ \A s \in Seq(Byte) : /\ EncodeString(s) \in Seq(Byte) /\ Len(EncodeString(s)) = 2 + Len(s)
                            /\ Len(s) \in Nat
    /\ \A b \in Seq(Byte), pos \in Nat :
        /\ ReadString(b, pos).ok \in BOOLEAN /\ ReadString(b, pos).s \in Seq(Byte)
        /\ ReadString(b, pos).pos \in Nat
        /\ ReadString(b, pos).ok =>
            /\ ReadString(b, pos).pos = pos + 2 + Len(ReadString(b, pos).s)
            /\ ReadString(b, pos).pos <= Len(b)
            /\ Len(ReadString(b, pos).s) = Num(b, pos)
            /\ ReadString(b, pos).s = SubSeq(b, pos + 3, ReadString(b, pos).pos)
<1>1. ASSUME NEW s \in Seq(Byte)
      PROVE  /\ EncodeString(s) \in Seq(Byte) /\ Len(EncodeString(s)) = 2 + Len(s)
             /\ Len(s) \in Nat
  <2> DEFINE U == U16(Len(s))
  <2>1. Len(s) \in Nat
    OBVIOUS
  <2>2. U \in Seq(Byte) /\ Len(U) = 2
    BY <2>1, U16Facts
  <2> HIDE DEF U
  <2>3. U \o s \in Seq(Byte) /\ Len(U \o s) = Len(U) + Len(s)
    BY <2>2, BytePieces, Zenon
  <2> QED
    BY <2>1, <2>2, <2>3 DEF EncodeString, U
<1>2. ASSUME NEW b \in Seq(Byte), NEW pos \in Nat
      PROVE  /\ ReadString(b, pos).ok \in BOOLEAN /\ ReadString(b, pos).s \in Seq(Byte)
             /\ ReadString(b, pos).pos \in Nat
             /\ ReadString(b, pos).ok =>
                 /\ ReadString(b, pos).pos = pos + 2 + Len(ReadString(b, pos).s)
                 /\ ReadString(b, pos).pos <= Len(b)
                 /\ Len(ReadString(b, pos).s) = Num(b, pos)
                 /\ ReadString(b, pos).s = SubSeq(b, pos + 3, ReadString(b, pos).pos)
  <2> DEFINE r == ReadString(b, pos)
             l == Num(b, pos)
  <2>1. CASE pos + 2 > Len(b)
    <3>1. r = NoString
      BY <2>1 DEF ReadString
    <3> QED
      BY <3>1, ByteAssoc DEF NoString
  <2>2. CASE ~(pos + 2 > Len(b))
    <3>1. Len(b) \in Nat
      OBVIOUS
    <3>2. l \in Nat
      <4>1. pos + 1 \in 1..Len(b) /\ pos + 2 \in 1..Len(b)
        BY <2>2, <3>1
      <4>2. b[pos + 1] \in Byte /\ b[pos + 2] \in Byte
        BY <4>1, ElementOfSeq
      <4>3. b[pos + 1] \in Nat /\ b[pos + 2] \in Nat /\ LenBase \in Nat
        <5>1. \A x \in Byte : x \in Nat
          BY DEF Byte
        <5>2. LenBase \in Nat
          BY WidthAssumption
        <5> QED
          BY <4>2, <5>1, <5>2, Zenon
      <4> QED
        BY <4>3 DEF Num
    <3> HIDE DEF l
    <3>3. CASE pos + 2 + l > Len(b)
      <4>1. r = NoString
        BY <2>2, <3>3 DEF ReadString, l
      <4> QED
        BY <4>1, ByteAssoc DEF NoString
    <3>4. CASE ~(pos + 2 + l > Len(b))
      <4> DEFINE q == SubSeq(b, pos + 3, pos + 2 + l)
      <4>1. r = [ok |-> TRUE, s |-> q, pos |-> pos + 2 + l]
        BY <2>2, <3>4 DEF ReadString, l
      <4>2. q \in Seq(Byte) /\ Len(q) = l
        <5> DEFINE m == pos + 2
                   n == pos + 2 + l
        <5>1. m \in Nat /\ n \in Nat /\ m <= n /\ n <= Len(b) /\ n - m = l /\ m + 1 = pos + 3
          BY <3>1, <3>2, <3>4
        <5> HIDE DEF m, n
        <5>2. SubSeq(b, m + 1, n) \in Seq(Byte) /\ Len(SubSeq(b, m + 1, n)) = n - m
          BY <5>1, ByteSub
        <5> QED
          BY <5>1, <5>2 DEF n
      <4> HIDE DEF q, r
      <4>3. r.ok = TRUE /\ r.s = q /\ r.pos = pos + 2 + l
        BY <4>1
      <4>4. r.s = SubSeq(b, pos + 3, r.pos)
        BY <4>3 DEF q
      <4>5. r.pos \in Nat /\ r.pos <= Len(b)
        BY <4>3, <3>1, <3>2, <3>4
      <4>6. r.ok \in BOOLEAN /\ r.s \in Seq(Byte) /\ Len(r.s) = l
        BY <4>3, <4>2
      <4> QED
        BY <4>3, <4>4, <4>5, <4>6 DEF r, l
    <3> QED
      BY <3>3, <3>4
  <2> QED
    BY <2>1, <2>2
<1> QED
  BY <1>1, <1>2

-----------------------------------------------------------------------------
(* Envelopes. *)

AnyEnvelope == [idem : Byte, srv : Byte, ts : Byte, props : Seq(Byte), payload : Seq(Byte)]
Envelope == {e \in AnyEnvelope : e.idem # 0}

\* The bytes of an envelope, piece by piece.
LEMMA EnvelopeBytes ==
    ASSUME NEW e \in AnyEnvelope
    PROVE  LET H == <<MagicByte, VersionByte, e.idem, e.srv, e.ts>>
               U == U16(Len(e.props))
           IN /\ H \in Seq(Byte) /\ Len(H) = 5
              /\ U \in Seq(Byte) /\ Len(U) = 2
              /\ EncodeEnvelope(e) \in Seq(Byte)
              /\ EncodeEnvelope(e) = H \o (U \o (e.props \o e.payload))
<1> DEFINE H == <<MagicByte, VersionByte, e.idem, e.srv, e.ts>>
           U == U16(Len(e.props))
           pr == e.props
           pa == e.payload
<1>1. e.idem \in Byte /\ e.srv \in Byte /\ e.ts \in Byte /\ pr \in Seq(Byte) /\ pa \in Seq(Byte)
  BY DEF AnyEnvelope
<1>2. H \in Seq(Byte) /\ Len(H) = 5
  <2>1. MagicByte \in Byte /\ VersionByte \in Byte
    BY DEF MagicByte, VersionByte, Byte
  <2> QED
    BY <1>1, <2>1
<1>3. U \in Seq(Byte) /\ Len(U) = 2
  <2>1. Len(pr) \in Nat
    BY <1>1
  <2> QED
    BY <2>1, U16Facts
<1>4. EncodeEnvelope(e) = ((H \o U) \o pr) \o pa
  BY DEF EncodeEnvelope
<1> HIDE DEF H, U, pr, pa
<1>5. H \o U \in Seq(Byte) /\ pr \o pa \in Seq(Byte)
  BY <1>1, <1>2, <1>3, BytePieces, Zenon
<1>6. ((H \o U) \o pr) \o pa = (H \o U) \o (pr \o pa)
  BY <1>1, <1>5, ByteAssoc, Zenon
<1>7. (H \o U) \o (pr \o pa) = H \o (U \o (pr \o pa))
  BY <1>2, <1>3, <1>5, ByteAssoc, Zenon
<1>8. U \o (pr \o pa) \in Seq(Byte)
  BY <1>3, <1>5, BytePieces, Zenon
<1>9. H \o (U \o (pr \o pa)) \in Seq(Byte)
  BY <1>2, <1>8, BytePieces, Zenon
<1>10. EncodeEnvelope(e) = H \o (U \o (pr \o pa))
  BY <1>4, <1>6, <1>7
<1> QED
  BY <1>2, <1>3, <1>9, <1>10 DEF H, U, pr, pa

\* Decode undoes Encode.
LEMMA DecodeEncode ==
    ASSUME NEW e \in Envelope, ~Overlong(e.props)
    PROVE  /\ DecodeEnvelope(EncodeEnvelope(e)).ok
           /\ DecodeEnvelope(EncodeEnvelope(e)).e.props = e.props
           /\ DecodeEnvelope(EncodeEnvelope(e)).e.payload = e.payload
<1> DEFINE H == <<MagicByte, VersionByte, e.idem, e.srv, e.ts>>
           n == Len(e.props)
           U == U16(n)
           pr == e.props
           pa == e.payload
           rp == pr \o pa
           d == EncodeEnvelope(e)
<1>1. e \in AnyEnvelope /\ e.idem # 0 /\ pr \in Seq(Byte) /\ pa \in Seq(Byte)
  BY DEF Envelope, AnyEnvelope
<1>2. /\ H \in Seq(Byte) /\ Len(H) = 5 /\ U \in Seq(Byte) /\ Len(U) = 2
      /\ d \in Seq(Byte) /\ d = H \o (U \o rp)
  BY <1>1, EnvelopeBytes
<1>3. n \in Nat /\ n < LenBase * LenBase
  <2>1. n \in Nat /\ LenBase * LenBase \in Nat
    BY <1>1, WidthAssumption
  <2> QED
    BY <2>1 DEF Overlong
<1>4. U[1] * LenBase + U[2] = n
  BY <1>3, U16Facts
<1>5. H[1] = MagicByte /\ H[2] = VersionByte /\ H[3] = e.idem
  OBVIOUS
<1>6. Len(pr) = n
  OBVIOUS
<1> HIDE DEF H, U, n, pr, pa, d
<1>7. rp \in Seq(Byte) /\ Len(rp) = n + Len(pa) /\ Len(pa) \in Nat
  <2>1. pr \o pa \in Seq(Byte) /\ Len(pr \o pa) = Len(pr) + Len(pa) /\ Len(pa) \in Nat
    BY <1>1, BytePieces, Zenon
  <2> QED
    BY <2>1, <1>6
<1> HIDE DEF rp
<1> DEFINE ur == U \o rp
<1>8. ur \in Seq(Byte) /\ Len(ur) = 2 + Len(rp) /\ ur[1] = U[1] /\ ur[2] = U[2]
  <2>1. ur \in Seq(Byte) /\ Len(ur) = Len(U) + Len(rp) /\ \A i \in 1..Len(U) : ur[i] = U[i]
    BY <1>2, <1>7, BytePieces, Zenon
  <2> HIDE DEF ur
  <2> QED
    BY <2>1, <1>2
<1> HIDE DEF ur
<1>9. /\ Len(d) = 5 + Len(ur) /\ \A i \in 1..5 : d[i] = H[i]
      /\ \A i \in 1..Len(ur) : d[5 + i] = ur[i]
  <2>1. /\ Len(H \o ur) = Len(H) + Len(ur)
        /\ \A i \in 1..Len(H) : (H \o ur)[i] = H[i]
        /\ \A i \in 1..Len(ur) : (H \o ur)[Len(H) + i] = ur[i]
    BY <1>2, <1>8, BytePieces, Zenon
  <2>2. d = H \o ur
    BY <1>2 DEF ur
  <2>3. /\ Len(d) = Len(H) + Len(ur) /\ \A i \in 1..Len(H) : d[i] = H[i]
        /\ \A i \in 1..Len(ur) : d[Len(H) + i] = ur[i]
    BY <2>1, <2>2, Zenon
  <2> QED
    BY <2>3, <1>2
<1>10. Len(d) = 7 + n + Len(pa)
  <2>1. Len(d) = 5 + Len(ur) /\ Len(ur) = 2 + Len(rp)
    BY <1>8, <1>9, Zenon
  <2>2. Len(rp) = n + Len(pa) /\ n \in Nat /\ Len(pa) \in Nat
    BY <1>3, <1>7
  <2> QED BY <2>1, <2>2
<1>11. d[1] = MagicByte /\ d[2] = VersionByte /\ d[3] # 0
  BY <1>5, <1>9, <1>1
<1>12. Num(d, 5) = n
  <2>1. d[5 + 1] = ur[1] /\ d[5 + 2] = ur[2]
    BY <1>3, <1>7, <1>8, <1>9
  <2> QED
    BY <2>1, <1>4, <1>8 DEF Num
<1> DEFINE hu == H \o U
<1>13. hu \in Seq(Byte) /\ Len(hu) = 7
  <2>1. hu \in Seq(Byte) /\ Len(hu) = Len(H) + Len(U)
    BY <1>2, BytePieces, Zenon
  <2> QED
    BY <2>1, <1>2
<1>14. d = hu \o (pr \o pa)
  <2>1. (H \o U) \o rp = H \o (U \o rp)
    <3>1. Rejoins(H, U, rp)
      BY <1>2, <1>7, Rejoin, Zenon
    <3> QED BY <3>1, Zenon DEF Rejoins
  <2> QED
    BY <2>1, <1>2 DEF rp
<1> HIDE DEF hu
<1>15. SubSeq(d, 7 + 1, 7 + n) = pr
  <2>1. SubSeq(hu \o (pr \o pa), Len(hu) + 1, Len(hu) + Len(pr)) = pr
    <3>1. hu \in Seq(Byte) /\ pr \in Seq(Byte) /\ pa \in Seq(Byte)
      BY <1>13, <1>1, Zenon
    <3> HIDE DEF pr, pa
    <3> QED BY <3>1, Cut, Zenon
  <2> QED
    BY <2>1, <1>13, <1>14, <1>6
<1>16. SubSeq(d, 7 + n + 1, Len(d)) = pa
  <2> DEFINE hp == hu \o pr
  <2>1. hp \in Seq(Byte) /\ Len(hp) = 7 + n
    <3>1. hp \in Seq(Byte) /\ Len(hp) = Len(hu) + Len(pr)
      BY <1>1, <1>13, BytePieces, Zenon
    <3> QED
      BY <3>1, <1>13, <1>6
  <2>2. d = hp \o pa
    <3>1. (hu \o pr) \o pa = hu \o (pr \o pa)
      BY <1>1, <1>13, ByteAssoc, Zenon
    <3> QED
      BY <3>1, <1>14
  <2> HIDE DEF hp
  <2>3. SubSeq(hp \o pa, Len(hp) + 1, Len(hp \o pa)) = pa
    BY <2>1, <1>1, Cut
  <2> QED
    BY <2>1, <2>2, <2>3
<1>17. ~(Len(d) < 7) /\ ~(Len(d) < 7 + n)
  BY <1>10, <1>3, <1>7
<1>18. DecodeEnvelope(d) = [ok |-> TRUE,
          e |-> [idem |-> d[3], srv |-> d[4], ts |-> d[5],
                 props |-> SubSeq(d, 7 + 1, 7 + n), payload |-> SubSeq(d, 7 + n + 1, Len(d))]]
  BY <1>11, <1>12, <1>17 DEF DecodeEnvelope, HeaderLen
<1>19. /\ DecodeEnvelope(d).ok
       /\ DecodeEnvelope(d).e.props = SubSeq(d, 7 + 1, 7 + n)
       /\ DecodeEnvelope(d).e.payload = SubSeq(d, 7 + n + 1, Len(d))
  BY <1>18
<1>20. /\ DecodeEnvelope(d).ok
       /\ DecodeEnvelope(d).e.props = pr /\ DecodeEnvelope(d).e.payload = pa
  BY <1>15, <1>16, <1>19
<1> QED
  BY <1>20 DEF d, pr, pa

\* What Decode makes of any bytes.
LEMMA DecodeTypes ==
    ASSUME NEW d \in Seq(Byte)
    PROVE  /\ DecodeEnvelope(d).ok \in BOOLEAN
           /\ DecodeEnvelope(d).ok => DecodeEnvelope(d).e \in Envelope
<1>1. CASE Len(d) < HeaderLen \/ d[1] # MagicByte \/ d[2] # VersionByte \/ d[3] = 0
  <2>1. DecodeEnvelope(d) = [ok |-> FALSE]
    BY <1>1 DEF DecodeEnvelope
  <2> QED
    BY <2>1
<1>2. CASE ~(Len(d) < HeaderLen \/ d[1] # MagicByte \/ d[2] # VersionByte \/ d[3] = 0)
  <2> DEFINE p == Num(d, 5)
  <2>1. Len(d) \in Nat /\ Len(d) >= 7 /\ d[3] # 0
    BY <1>2 DEF HeaderLen
  <2>2. ASSUME NEW i \in 1..7 PROVE d[i] \in Byte
    <3>1. i \in 1..Len(d)
      BY <2>1
    <3> QED
      BY <3>1, ElementOfSeq
  <2>3. p \in Nat
    <3>1. d[5 + 1] \in Byte /\ d[5 + 2] \in Byte
      BY <2>2
    <3>2. \A x \in Byte : x \in Nat
      BY DEF Byte
    <3>3. LenBase \in Nat /\ d[5 + 1] \in Nat /\ d[5 + 2] \in Nat
      BY <3>1, <3>2, WidthAssumption
    <3> QED
      BY <3>3 DEF Num
  <2> HIDE DEF p
  <2>4. CASE Len(d) < HeaderLen + p
    <3>1. DecodeEnvelope(d) = [ok |-> FALSE]
      BY <1>2, <2>4 DEF DecodeEnvelope, p
    <3> QED
      BY <3>1
  <2>5. CASE ~(Len(d) < HeaderLen + p)
    <3> DEFINE pr == SubSeq(d, 7 + 1, 7 + p)
               pa == SubSeq(d, 7 + p + 1, Len(d))
               x == [idem |-> d[3], srv |-> d[4], ts |-> d[5], props |-> pr, payload |-> pa]
    <3>1. DecodeEnvelope(d) = [ok |-> TRUE, e |-> x]
      BY <1>2, <2>5 DEF DecodeEnvelope, HeaderLen, p
    <3>2. 7 \in Nat /\ 7 + p \in Nat /\ 7 <= 7 + p /\ 7 + p <= Len(d) /\ Len(d) \in Nat
          /\ Len(d) <= Len(d)
      BY <2>1, <2>3, <2>5 DEF HeaderLen
    <3>3. pr \in Seq(Byte)
      BY <3>2, ByteSub
    <3>4. pa \in Seq(Byte)
      BY <3>2, ByteSub
    <3>5. d[3] \in Byte /\ d[4] \in Byte /\ d[5] \in Byte
      BY <2>2
    <3> HIDE DEF pr, pa
    <3>6. x \in Envelope
      BY <3>3, <3>4, <3>5, <2>1 DEF Envelope, AnyEnvelope
    <3> HIDE DEF x
    <3> QED
      BY <3>1, <3>6
  <2> QED
    BY <2>4, <2>5
<1> QED
  BY <1>1, <1>2

\* A new envelope.
LEMMA NewPublishType ==
    ASSUME NEW idem \in Byte, idem # 0, NEW payload \in Seq(Byte)
    PROVE  /\ NewPublish(idem, payload) \in Envelope
           /\ NewPublish(idem, payload).props = <<>> /\ NewPublish(idem, payload).payload = payload
           /\ ~Overlong(<<>>)
<1>1. 0 \in Byte /\ 3 \in Byte
  BY DEF Byte
<1>2. ~Overlong(<<>>)
  <2>1. LenBase * LenBase > 0 /\ Len(<<>>) = 0 /\ LenBase * LenBase \in Nat
    BY WidthAssumption
  <2> QED
    BY <2>1 DEF Overlong
<1> QED
  BY <1>1, <1>2, ByteAssoc DEF NewPublish, Envelope, AnyEnvelope

\* The store holds bytes; an envelope comes out of it with the payload it had.
LEMMA StoredWireFacts ==
    ASSUME Len(log) \in Nat, NEW e \in AnyEnvelope
    PROVE  /\ StoredWire(e) \in Seq(Byte)
           /\ e.idem # 0 /\ ~Overlong(e.props) =>
                /\ DecodeEnvelope(StoredWire(e)).ok
                /\ DecodeEnvelope(StoredWire(e)).e.payload = e.payload
<1> DEFINE id == IF e.srv = 0 THEN FreshId ELSE e.srv
           x == [e EXCEPT !.srv = id]
<1>1. id \in Byte
  <2>1. FreshId \in Byte
    <3>1. \A n \in Nat : 100 + (n % 100) \in 0..255
      OBVIOUS
    <3>2. 100 + (Len(log) % 100) \in 0..255
      BY <3>1
    <3> QED
      BY <3>2 DEF FreshId, Byte
  <2>2. e.srv \in Byte
    BY DEF AnyEnvelope
  <2> QED
    BY <2>1, <2>2
<1>2. StoredWire(e) = EncodeEnvelope(x)
  BY DEF StoredWire
<1> HIDE DEF id
<1>3. x \in AnyEnvelope /\ x.idem = e.idem /\ x.props = e.props /\ x.payload = e.payload
  BY <1>1 DEF AnyEnvelope
<1> HIDE DEF x
<1>4. EncodeEnvelope(x) \in Seq(Byte)
  BY <1>3, EnvelopeBytes
<1>5. ASSUME e.idem # 0, ~Overlong(e.props)
      PROVE  /\ DecodeEnvelope(EncodeEnvelope(x)).ok
             /\ DecodeEnvelope(EncodeEnvelope(x)).e.payload = e.payload
  <2>1. x \in Envelope /\ ~Overlong(x.props)
    BY <1>3, <1>5 DEF Envelope
  <2> QED
    BY <2>1, <1>3, DecodeEncode
<1> QED
  BY <1>2, <1>4, <1>5

\* What decodeStoredMessage makes of any bytes.
LEMMA DecodeStoredTypes ==
    ASSUME NEW raw \in Seq(Byte), DecodeStored(raw).ok
    PROVE  /\ DecodeStored(raw).e \in AnyEnvelope
           /\ DecodeEnvelope(raw).ok => DecodeStored(raw) = DecodeEnvelope(raw)
<1>1. CASE DecodeEnvelope(raw).ok
  <2>1. DecodeStored(raw) = DecodeEnvelope(raw)
    BY <1>1 DEF DecodeStored
  <2> QED
    BY <1>1, <2>1, DecodeTypes DEF Envelope
<1>2. CASE ~DecodeEnvelope(raw).ok
  <2>1. Len(LegacyHeader) = 2
    BY DEF LegacyHeader
  <2>2. ~(Len(raw) < 2) /\ Len(raw) \in Nat
    BY <1>2, <2>1 DEF DecodeStored
  <2> DEFINE pa == SubSeq(raw, 2 + 1, Len(raw))
             x == [idem |-> 0, srv |-> 0, ts |-> raw[2], props |-> <<>>, payload |-> pa]
  <2>3. DecodeStored(raw) = [ok |-> TRUE, e |-> x]
    BY <1>2, <2>1, <2>2 DEF DecodeStored
  <2>4. pa \in Seq(Byte)
    <3>1. 2 \in Nat /\ 2 <= Len(raw) /\ Len(raw) <= Len(raw)
      BY <2>2
    <3> QED
      BY <3>1, <2>2, ByteSub
  <2>5. raw[2] \in Byte /\ 0 \in Byte
    <3>1. 2 \in 1..Len(raw)
      BY <2>2
    <3>2. raw[2] \in Byte
      BY <3>1, ElementOfSeq
    <3> QED
      BY <3>2 DEF Byte
  <2> HIDE DEF pa
  <2>6. x \in AnyEnvelope
    BY <2>4, <2>5, ByteAssoc DEF AnyEnvelope
  <2> HIDE DEF x
  <2> QED
    BY <1>2, <2>3, <2>6
<1> QED
  BY <1>1, <1>2

-----------------------------------------------------------------------------
(* PUBLISH. *)

\* The bytes are numbers, and a 16-bit number in a body is one.
LEMMA NumType ==
    ASSUME NEW b \in Seq(Byte), NEW pos \in Nat, pos + 2 <= Len(b)
    PROVE  Num(b, pos) \in Nat
<1>1. pos + 1 \in 1..Len(b) /\ pos + 2 \in 1..Len(b)
  OBVIOUS
<1>2. b[pos + 1] \in Byte /\ b[pos + 2] \in Byte
  BY <1>1, ElementOfSeq
<1>3. \A x \in Byte : x \in Nat
  BY DEF Byte
<1>4. LenBase \in Nat
  BY WidthAssumption
<1>5. b[pos + 1] \in Nat /\ b[pos + 2] \in Nat
  BY <1>2, <1>3, Zenon
<1> QED
  BY <1>4, <1>5 DEF Num

\* Both readers find the topic and the payload of a PUBLISH.
LEMMA PublishRoundTrip ==
    ASSUME NEW topic \in Seq(Byte), NEW payload \in Seq(Byte), ~Overlong(topic),
           NEW qos \in {0, 1}, NEW id \in Nat, NEW flags, (flags \div 2) % 4 = qos
    PROVE  LET b == PublishBody(topic, qos, id, payload)
               p == ParsePublish(flags, b)
           IN /\ p.type = "PUBLISH" /\ p.topic = topic /\ p.payload = payload
              /\ ParsePublishBody(b, qos).topic = topic
              /\ ParsePublishBody(b, qos).payload = payload
<1> DEFINE ES == EncodeString(topic)
           I == IF qos > 0 THEN U16(id) ELSE <<>>
           b == PublishBody(topic, qos, id, payload)
           ip == I \o payload
           t == ReadString(b, 0)
           w == IF qos > 0 THEN 2 ELSE 0
<1>1. ES \in Seq(Byte) /\ Len(ES) = 2 + Len(topic) /\ Len(topic) \in Nat
  BY StringTypes
<1>2. I \in Seq(Byte) /\ Len(I) = w /\ w \in Nat
  <2>1. CASE qos = 0
    BY <2>1, ByteAssoc
  <2>2. CASE qos = 1
    <3>1. U16(id) \in Seq(Byte) /\ Len(U16(id)) = 2
      BY U16Facts
    <3>2. I = U16(id) /\ w = 2
      BY <2>2
    <3> QED
      BY <3>1, <3>2
  <2> QED
    BY <2>1, <2>2
<1>3. b = (ES \o I) \o payload
  BY DEF PublishBody
<1> HIDE DEF ES, I
<1>4. ip \in Seq(Byte) /\ Len(ip) = w + Len(payload) /\ Len(payload) \in Nat
  <2>1. ip \in Seq(Byte) /\ Len(ip) = Len(I) + Len(payload) /\ Len(payload) \in Nat
    BY <1>2, BytePieces, Zenon
  <2> QED
    BY <2>1, <1>2
<1>5. b = ES \o ip
  BY <1>1, <1>2, <1>3, ByteAssoc, Zenon
<1> HIDE DEF ip
<1>6. b \in Seq(Byte) /\ Len(b) = 2 + Len(topic) + w + Len(payload)
  <2>1. ES \o ip \in Seq(Byte) /\ Len(ES \o ip) = Len(ES) + Len(ip)
    BY <1>1, <1>4, BytePieces, Zenon
  <2> HIDE DEF b, w
  <2>2. b \in Seq(Byte) /\ Len(b) = Len(ES) + Len(ip)
    BY <2>1, <1>5
  <2> QED
    BY <2>2, <1>1, <1>2, <1>4
<1>7. t.ok /\ t.s = topic /\ t.pos = 2 + Len(topic)
  <2>1. <<>> \in Seq(Byte) /\ Len(<<>>) = 0
    BY ByteAssoc
  <2>2. b = <<>> \o (EncodeString(topic) \o ip)
    <3>1. ES \o ip \in Seq(Byte)
      BY <1>1, <1>4, BytePieces, Zenon
    <3>2. <<>> \o (ES \o ip) = ES \o ip
      BY <3>1, ByteAssoc, Zenon
    <3> QED
      BY <3>2, <1>5 DEF ES
  <2> HIDE DEF b
  <2>3. ReadString(<<>> \o (EncodeString(topic) \o ip), Len(<<>>))
          = [ok |-> TRUE, s |-> topic, pos |-> Len(<<>>) + 2 + Len(topic)]
    BY <2>1, <1>4, ReadStringAt
  <2>4. ReadString(b, 0) = [ok |-> TRUE, s |-> topic, pos |-> 0 + 2 + Len(topic)]
    BY <2>1, <2>2, <2>3, Zenon
  <2> QED
    BY <2>4, <1>1
<1> HIDE DEF b
<1>8. SubSeq(b, (2 + Len(topic) + w) + 1, Len(b)) = payload
  <2> DEFINE ei == ES \o I
  <2>1. ei \in Seq(Byte) /\ Len(ei) = 2 + Len(topic) + w
    <3>1. ei \in Seq(Byte) /\ Len(ei) = Len(ES) + Len(I)
      BY <1>1, <1>2, BytePieces, Zenon
    <3> QED
      BY <3>1, <1>1, <1>2
  <2>2. b = ei \o payload
    BY <1>3
  <2> HIDE DEF ei
  <2>3. SubSeq(ei \o payload, Len(ei) + 1, Len(ei \o payload)) = payload
    BY <2>1, Cut
  <2> QED
    BY <2>1, <2>2, <2>3
<1>9. 0 \in Nat
  OBVIOUS
<1>10. Num(b, 0) = Len(topic) /\ topic = SubSeq(b, 0 + 3, 2 + Len(topic))
  BY <1>6, <1>7, <1>9, StringTypes
<1> HIDE DEF t
<1>11. ParsePublish(flags, b).type = "PUBLISH" /\ ParsePublish(flags, b).topic = topic
       /\ ParsePublish(flags, b).payload = payload
  <2>1. ~(~t.ok \/ t.pos + w > Len(b))
    BY <1>1, <1>2, <1>4, <1>6, <1>7
  <2>2. ParsePublish(flags, b) =
            [type |-> "PUBLISH", topic |-> t.s, qos |-> qos,
             dup |-> Bit(flags, 8), retain |-> Bit(flags, 1),
             id |-> IF qos > 0 THEN Num(b, t.pos) ELSE 0,
             payload |-> SubSeq(b, (t.pos + w) + 1, Len(b))]
    BY <2>1 DEF ParsePublish, t
  <2> QED
    BY <2>2, <1>7, <1>8
<1>12. ParsePublishBody(b, qos) = [topic |-> topic, payload |-> payload]
  <2> DEFINE pos == 2 + Num(b, 0)
             start == IF qos > 0 /\ pos + 2 <= Len(b) THEN pos + 2 ELSE pos
  <2>1. ~(Len(b) < 2 \/ pos > Len(b)) /\ start = 2 + Len(topic) + w
    BY <1>1, <1>4, <1>6, <1>10
  <2>2. ParsePublishBody(b, qos)
            = [topic |-> SubSeq(b, 3, pos), payload |-> SubSeq(b, start + 1, Len(b))]
    BY <2>1 DEF ParsePublishBody
  <2>3. pos = 2 + Len(topic) /\ 0 + 3 = 3
    BY <1>10
  <2> HIDE DEF pos, start
  <2>4. SubSeq(b, 3, pos) = topic
    BY <2>3, <1>10, Zenon
  <2> QED
    BY <2>1, <2>2, <2>4, <1>8
<1> QED
  BY <1>11, <1>12 DEF b

\* What both readers make of any body.
LEMMA PublishTypes ==
    ASSUME NEW b \in Seq(Byte), NEW flags \in Nat
    PROVE  /\ LET p == ParsePublish(flags, b) IN
                /\ p.type \in {"refused", "PUBLISH"}
                /\ p.type = "PUBLISH" =>
                    p.topic \in Seq(Byte) /\ p.payload \in Seq(Byte) /\ p.id \in Nat
           /\ \A qos \in Nat : /\ ParsePublishBody(b, qos).topic \in Seq(Byte)
                               /\ ParsePublishBody(b, qos).payload \in Seq(Byte)
<1>1. Len(b) \in Nat /\ 0 \in Nat
  OBVIOUS
<1>2. LET p == ParsePublish(flags, b) IN
        /\ p.type \in {"refused", "PUBLISH"}
        /\ p.type = "PUBLISH" => p.topic \in Seq(Byte) /\ p.payload \in Seq(Byte) /\ p.id \in Nat
  <2> DEFINE qos == (flags \div 2) % 4
             t == ReadString(b, 0)
             start == t.pos + (IF qos > 0 THEN 2 ELSE 0)
             p == ParsePublish(flags, b)
  <2>1. t.ok \in BOOLEAN /\ t.s \in Seq(Byte) /\ t.pos \in Nat
    BY <1>1, StringTypes
  <2>2. CASE ~t.ok \/ start > Len(b)
    <3>1. p = Refused
      BY <2>2 DEF ParsePublish
    <3> HIDE DEF p
    <3>2. p.type = "refused"
      BY <3>1 DEF Refused
    <3> QED
      BY <3>2 DEF p
  <2>3. CASE ~(~t.ok \/ start > Len(b))
    <3> DEFINE pa == SubSeq(b, start + 1, Len(b))
               id == IF qos > 0 THEN Num(b, t.pos) ELSE 0
    <3>1. p = [type |-> "PUBLISH", topic |-> t.s, qos |-> qos,
               dup |-> Bit(flags, 8), retain |-> Bit(flags, 1), id |-> id, payload |-> pa]
      BY <2>3 DEF ParsePublish
    <3> HIDE DEF t
    <3>2. start \in Nat /\ start <= Len(b)
      BY <2>1, <2>3, <1>1
    <3>3. pa \in Seq(Byte)
      <4> HIDE DEF start
      <4>1. Len(b) <= Len(b)
        BY <1>1
      <4> QED
        BY <3>2, <4>1, <1>1, ByteSub
    <3>4. id \in Nat
      <4>1. CASE qos > 0
        <5>1. t.pos + 2 <= Len(b)
          BY <4>1, <3>2
        <5>2. Num(b, t.pos) \in Nat
          BY <5>1, <2>1, NumType
        <5> QED
          BY <4>1, <5>2
      <4>2. CASE ~(qos > 0)
        BY <4>2
      <4> QED
        BY <4>1, <4>2
    <3> HIDE DEF p, pa, id
    <3>5. p.type = "PUBLISH" /\ p.topic = t.s /\ p.payload = pa /\ p.id = id
      BY <3>1
    <3> QED
      BY <3>5, <3>3, <3>4, <2>1 DEF p
  <2> QED
    BY <2>2, <2>3
<1>3. ASSUME NEW qos \in Nat
      PROVE  /\ ParsePublishBody(b, qos).topic \in Seq(Byte)
             /\ ParsePublishBody(b, qos).payload \in Seq(Byte)
  <2>1. CASE Len(b) < 2 \/ 2 + Num(b, 0) > Len(b)
    <3>1. ParsePublishBody(b, qos) = [topic |-> <<>>, payload |-> <<>>]
      BY <2>1 DEF ParsePublishBody
    <3> QED
      BY <3>1, ByteAssoc
  <2>2. CASE ~(Len(b) < 2 \/ 2 + Num(b, 0) > Len(b))
    <3> DEFINE pos == 2 + Num(b, 0)
               start == IF qos > 0 /\ pos + 2 <= Len(b) THEN pos + 2 ELSE pos
    <3>1. ParsePublishBody(b, qos)
              = [topic |-> SubSeq(b, 3, pos), payload |-> SubSeq(b, start + 1, Len(b))]
      BY <2>2 DEF ParsePublishBody
    <3>2. Num(b, 0) \in Nat
      <4>1. 0 + 2 <= Len(b)
        BY <2>2, <1>1
      <4> QED
        BY <4>1, <1>1, NumType
    <3>3. /\ pos \in Nat /\ 2 <= pos /\ pos <= Len(b) /\ 2 \in Nat
          /\ start \in Nat /\ start <= Len(b) /\ Len(b) <= Len(b)
      BY <2>2, <3>2, <1>1
    <3> HIDE DEF pos, start
    <3>4. SubSeq(b, 2 + 1, pos) \in Seq(Byte) /\ SubSeq(b, start + 1, Len(b)) \in Seq(Byte)
      <4>1. SubSeq(b, 2 + 1, pos) \in Seq(Byte)
        BY <3>3, ByteSub
      <4>2. SubSeq(b, start + 1, Len(b)) \in Seq(Byte)
        BY <3>3, <1>1, ByteSub
      <4> QED
        BY <4>1, <4>2
    <3> QED
      BY <3>1, <3>4
  <2> QED
    BY <2>1, <2>2
<1> QED
  BY <1>2, <1>3

-----------------------------------------------------------------------------
(* SUBSCRIBE and UNSUBSCRIBE. *)

\* Where the next filter ends.
NextEnd(b, width, pos) ==
    LET f == ReadString(b, pos) IN
    IF f.ok /\ f.pos + width <= Len(b) THEN f.pos + width ELSE Len(b) + 1

\* f starts with a and takes the step from each number to the next.
Iterates(f, a, step) ==
    f \in [Nat -> Nat] /\ f[0] = a /\ \A n \in Nat : f[n + 1] = step[f[n]]

\* Iteration, of a step on the numbers.
LEMMA NatIteration ==
    ASSUME NEW a, a \in Nat, NEW step, step \in [Nat -> Nat]
    PROVE  \E f : Iterates(f, a, step)
<1> DEFINE N == Nat
           c == a
           st == step
<1>1. c \in N /\ st \in [N -> N]
  OBVIOUS
<1> HIDE DEF N, c, st
<1>2. \E f \in [Nat -> N] : f[0] = c /\ \A n \in Nat : f[n + 1] = st[f[n]]
  BY ONLY <1>1, Iteration
<1>3. PICK f \in [Nat -> Nat] : f[0] = a /\ \A n \in Nat : f[n + 1] = step[f[n]]
  BY <1>2 DEF N, c, st
<1> QED
  BY <1>3 DEF Iterates

\* The ends of the filters, one after the other.
LEMMA FilterEndsDef ==
    ASSUME NEW b \in Seq(Byte), NEW width \in {0, 1}
    PROVE  LET end == FilterEnds(b, width) IN
           /\ end \in [0..Len(b) -> Nat]
           /\ end[0] = 2
           /\ \A i \in 1..Len(b) : end[i] = NextEnd(b, width, end[i - 1])
<1> DEFINE L == Len(b)
           st == [p \in Nat |-> NextEnd(b, width, p)]
<1>1. L \in Nat
  OBVIOUS
<1>2. ASSUME NEW p \in Nat PROVE NextEnd(b, width, p) \in Nat
  <2>1. ReadString(b, p).pos \in Nat
    BY StringTypes
  <2> QED
    BY <2>1, <1>1 DEF NextEnd
<1>3. st \in [Nat -> Nat] /\ \A p \in Nat : st[p] = NextEnd(b, width, p)
  BY <1>2
<1> HIDE DEF L, st
<1>4. PICK g \in [Nat -> Nat] : g[0] = 2 /\ \A n \in Nat : g[n + 1] = st[g[n]]
  <2>1. 2 \in Nat /\ st \in [Nat -> Nat]
    BY <1>3
  <2>2. PICK f : Iterates(f, 2, st)
    BY <2>1, NatIteration, Zenon
  <2> QED
    BY <2>2 DEF Iterates
<1> DEFINE Eqn(f) == f = [i \in 0..L |-> IF i = 0 THEN 2 ELSE NextEnd(b, width, f[i - 1])]
           end == CHOOSE f : Eqn(f)
           h == [i \in 0..L |-> g[i]]
<1>5. Eqn(h)
  <2> SUFFICES ASSUME NEW i \in 0..L
               PROVE  h[i] = IF i = 0 THEN 2 ELSE NextEnd(b, width, h[i - 1])
    BY Zenon
  <2>1. CASE i = 0
    BY <2>1, <1>4
  <2>2. CASE i # 0
    <3>1. i - 1 \in Nat /\ i - 1 \in 0..L /\ (i - 1) + 1 = i
      BY <2>2, <1>1
    <3>2. g[i] = st[g[i - 1]] /\ g[i - 1] \in Nat
      BY <3>1, <1>4
    <3>3. h[i] = g[i] /\ h[i - 1] = g[i - 1]
      BY <3>1
    <3> HIDE DEF h
    <3> QED
      BY <3>2, <3>3, <2>2, <1>3
  <2> QED
    BY <2>1, <2>2
<1>6. Eqn(end)
  <2> HIDE DEF h, Eqn
  <2> QED
    BY <1>5
<1> HIDE DEF end
<1>7. end[0] = 2
  BY <1>6, <1>1
<1>8. ASSUME NEW i \in 1..L PROVE end[i] = NextEnd(b, width, end[i - 1])
  <2>1. i \in 0..L /\ i # 0
    BY <1>1
  <2>2. end[i] = IF i = 0 THEN 2 ELSE NextEnd(b, width, end[i - 1])
    BY <1>6, <2>1, Zenon
  <2> QED
    BY <2>1, <2>2
<1>9. end \in [0..L -> Nat]
  <2> DEFINE P == {i \in Nat : i <= L => end[i] \in Nat}
  <2>1. 0 \in P
    BY <1>7
  <2>2. ASSUME NEW i \in P PROVE i + 1 \in P
    <3>1. CASE i + 1 <= L
      <4>1. i + 1 \in 1..L /\ (i + 1) - 1 = i /\ end[i] \in Nat
        BY <3>1, <1>1
      <4>2. end[i + 1] = NextEnd(b, width, end[i])
        BY <4>1, <1>8
      <4>3. end[i + 1] \in Nat
        BY <4>1, <4>2, <1>2
      <4> QED
        BY <4>3
    <3>2. CASE ~(i + 1 <= L)
      BY <3>2
    <3> QED
      BY <3>1, <3>2
  <2>3. P \in SUBSET Nat
    OBVIOUS
  <2>4. P = Nat
    <3> HIDE DEF P
    <3> QED
      BY <2>1, <2>2, <2>3, SetInduction
  <2>5. end = [i \in 0..L |-> end[i]]
    BY <1>6, Zenon
  <2>6. \A i \in 0..L : end[i] \in Nat
    BY <2>4
  <2> QED
    BY <2>5, <2>6
<1>10. FilterEnds(b, width) = end
  BY DEF FilterEnds, NextEnd, end, L
<1> QED
  BY <1>7, <1>8, <1>9, <1>10 DEF L

\* What parseSubscribe and parseUnsubscribe make of any body.
LEMMA FilterTypes ==
    ASSUME NEW b \in Seq(Byte), NEW width \in {0, 1}, NEW type
    PROVE  LET p == ParseFilters(type, b, width) IN
           \/ p = Refused
           \/ /\ p.type = type /\ p.id \in Nat
              /\ \E n \in Nat : p.topics = Filters(b, width, n) /\ n <= Len(b)
                                /\ FilterEnds(b, width)[n] = Len(b) /\ p.id = Num(b, 0)
                                /\ 2 <= Len(b)
<1> DEFINE p == ParseFilters(type, b, width)
           end == FilterEnds(b, width)
<1> HIDE DEF end
<1>1. CASE Len(b) < 2 \/ \A i \in 0..Len(b) : end[i] # Len(b)
  BY <1>1 DEF ParseFilters, end
<1>2. CASE ~(Len(b) < 2 \/ \A i \in 0..Len(b) : end[i] # Len(b))
  <2> DEFINE n == CHOOSE i \in 0..Len(b) : end[i] = Len(b)
  <2>1. n \in 0..Len(b) /\ end[n] = Len(b) /\ Len(b) \in Nat
    BY <1>2
  <2>2. p = [type |-> type, id |-> Num(b, 0), topics |-> Filters(b, width, n)]
    BY <1>2 DEF ParseFilters, end
  <2> HIDE DEF n, p
  <2>3. Num(b, 0) \in Nat
    <3>1. 0 \in Nat /\ 0 + 2 <= Len(b)
      BY <1>2, <2>1
    <3> QED
      BY <3>1, NumType
  <2>4. p.type = type /\ p.id = Num(b, 0) /\ p.topics = Filters(b, width, n)
    BY <2>2
  <2>5. n \in Nat /\ n <= Len(b) /\ 2 <= Len(b)
    BY <2>1, <1>2
  <2> QED
    BY <2>1, <2>3, <2>4, <2>5 DEF p, end
<1> QED
  BY <1>1, <1>2

\* parseSubscribe accepts what sendSubscribe writes.
LEMMA SubscribeRead ==
    ASSUME NEW topic \in Seq(Byte), ~Overlong(topic), NEW qos \in {0, 1}
    PROVE  /\ SubscribeBody(topic, qos) \in Seq(Byte)
           /\ ParseFilters("SUBSCRIBE", SubscribeBody(topic, qos), 1).type = "SUBSCRIBE"
<1> DEFINE U == U16(1)
           q == <<qos % 4>>
           b == SubscribeBody(topic, qos)
           ES == EncodeString(topic)
           end == FilterEnds(b, 1)
<1>1. U \in Seq(Byte) /\ Len(U) = 2
  BY U16Facts
<1>2. q \in Seq(Byte) /\ Len(q) = 1
  <2>1. qos % 4 \in Byte
    BY DEF Byte
  <2> QED
    BY <2>1
<1>3. ES \in Seq(Byte) /\ Len(ES) = 2 + Len(topic) /\ Len(topic) \in Nat
  BY StringTypes
<1>4. b = (U \o ES) \o q
  BY DEF SubscribeBody
<1> HIDE DEF U, q, b, ES
<1>5. b = U \o (ES \o q)
  <2>1. Rejoins(U, ES, q)
    BY <1>1, <1>2, <1>3, Rejoin, Zenon
  <2> QED BY <2>1, <1>4, Zenon DEF Rejoins
<1>6. b \in Seq(Byte) /\ Len(b) = 5 + Len(topic)
  <2>1. U \o ES \in Seq(Byte) /\ Len(U \o ES) = Len(U) + Len(ES)
    BY <1>1, <1>3, BytePieces, Zenon
  <2>2. (U \o ES) \o q \in Seq(Byte) /\ Len((U \o ES) \o q) = Len(U \o ES) + Len(q)
    BY <2>1, <1>2, BytePieces, Zenon
  <2>3. b \in Seq(Byte) /\ Len(b) = (Len(U) + Len(ES)) + Len(q)
    BY <2>1, <2>2, <1>4
  <2> QED
    BY <2>3, <1>1, <1>2, <1>3
<1>7. ReadString(b, 2) = [ok |-> TRUE, s |-> topic, pos |-> 2 + 2 + Len(topic)]
  <2>1. ReadString(U \o (EncodeString(topic) \o q), Len(U))
          = [ok |-> TRUE, s |-> topic, pos |-> Len(U) + 2 + Len(topic)]
    BY <1>1, <1>2, ReadStringAt
  <2> QED
    BY <2>1, <1>1, <1>5, Zenon DEF ES
<1>8. end[0] = 2 /\ end[1] = NextEnd(b, 1, end[1 - 1])
  <2>1. 1 \in 1..Len(b) /\ 1 \in {0, 1}
    BY <1>3, <1>6
  <2> QED
    BY <2>1, <1>6, FilterEndsDef
<1>9. NextEnd(b, 1, 2) = Len(b)
  <2>1. (2 + 2 + Len(topic)) + 1 = Len(b) /\ Len(b) <= Len(b)
    BY <1>3, <1>6
  <2> QED
    BY <2>1, <1>7 DEF NextEnd
<1>10. end[1] = Len(b) /\ 1 \in 0..Len(b) /\ ~(Len(b) < 2)
  BY <1>3, <1>6, <1>8, <1>9
<1>11. ParseFilters("SUBSCRIBE", b, 1).type = "SUBSCRIBE"
  BY <1>10 DEF ParseFilters
<1> QED
  BY <1>6, <1>11 DEF b

-----------------------------------------------------------------------------
(* CONNECT. *)

\* The part of CONNECT before its strings, with the flags f.
Opening(f) == (EncodeString(Protocol) \o <<4, f>>) \o U16(1)

\* The protocol name, the level, the flags and the keep-alive are read back.
LEMMA OpeningRead ==
    ASSUME NEW f \in Byte, NEW post \in Seq(Byte)
    PROVE  LET b == Opening(f) \o post IN
           /\ Opening(f) \in Seq(Byte) /\ Len(Opening(f)) = 7
           /\ b \in Seq(Byte) /\ Len(b) \in Nat /\ 7 <= Len(b)
           /\ ReadString(b, 0) = [ok |-> TRUE, s |-> Protocol, pos |-> 3]
           /\ b[5] = f
<1> DEFINE P == EncodeString(Protocol)
           M == <<4, f>>
           U == U16(1)
           H == Opening(f)
           b == Opening(f) \o post
<1>1. Protocol \in Seq(Byte) /\ Len(Protocol) = 1
  BY DEF Protocol, Byte
<1>2. ~Overlong(Protocol)
  <2>1. \A x \in Nat : x >= 2 => x * x >= 4
    <3> TAKE x \in Nat
    <3> HAVE x >= 2
    <3>1. x * x >= 2 * x
      OBVIOUS
    <3> QED
      BY <3>1
  <2>2. LenBase \in Nat /\ LenBase >= 2
    BY WidthAssumption
  <2> HIDE DEF Protocol
  <2> QED
    BY <1>1, <2>1, <2>2 DEF Overlong
<1>3. M \in Seq(Byte) /\ Len(M) = 2 /\ M[2] = f
  BY DEF Byte
<1>4. U \in Seq(Byte) /\ Len(U) = 2
  BY U16Facts
<1>5. P \in Seq(Byte) /\ Len(P) = 3
  <2>1. P \in Seq(Byte) /\ Len(P) = 2 + Len(Protocol)
    BY <1>1, StringTypes, Zenon
  <2> HIDE DEF P, Protocol
  <2> QED
    BY <2>1, <1>1
<1>6. H = (P \o M) \o U
  BY DEF Opening
<1> HIDE DEF P, M, U, H, b
<1>7. P \o M \in Seq(Byte) /\ Len(P \o M) = 5 /\ (P \o M)[5] = f
  <2>1. P \o M \in Seq(Byte) /\ Len(P \o M) = Len(P) + Len(M)
    BY <1>3, <1>5, BytePieces, Zenon
  <2>2. \A i \in 1..Len(M) : (P \o M)[Len(P) + i] = M[i]
    BY <1>3, <1>5, BytePieces, Zenon
  <2>3. 2 \in 1..Len(M) /\ Len(P) + 2 = 5
    BY <1>3, <1>5
  <2>4. (P \o M)[Len(P) + 2] = M[2]
    BY <2>2, <2>3
  <2>5. (P \o M)[5] = f
    BY <2>4, <2>3, <1>3
  <2> QED
    BY <2>1, <2>5, <1>3, <1>5
<1>8. H \in Seq(Byte) /\ Len(H) = 7 /\ H[5] = f
  <2> DEFINE PM == P \o M
  <2> HIDE DEF PM
  <2>1. PM \in Seq(Byte) /\ Len(PM) = 5 /\ PM[5] = f /\ H = PM \o U
    BY <1>6, <1>7 DEF PM
  <2>2. PM \o U \in Seq(Byte) /\ Len(PM \o U) = Len(PM) + Len(U)
    BY <2>1, <1>4, BytePieces, Zenon
  <2>3. \A i \in 1..Len(PM) : (PM \o U)[i] = PM[i]
    BY <2>1, <1>4, BytePieces, Zenon
  <2>4. 5 \in 1..Len(PM)
    BY <2>1
  <2>5. (PM \o U)[5] = PM[5]
    BY <2>3, <2>4
  <2> QED
    BY <2>1, <2>2, <2>5, <1>4
<1>9. b = H \o post
  BY DEF H, b
<1>10. b \in Seq(Byte) /\ Len(b) \in Nat /\ 7 <= Len(b) /\ b[5] = f
  <2>1. H \o post \in Seq(Byte) /\ Len(H \o post) = Len(H) + Len(post) /\ Len(post) \in Nat
    BY <1>8, BytePieces, Zenon
  <2>2. \A i \in 1..Len(H) : (H \o post)[i] = H[i]
    BY <1>8, BytePieces, Zenon
  <2>3. (H \o post)[5] = H[5]
    <3>1. 5 \in 1..Len(H)
      BY <1>8
    <3> QED
      BY <2>2, <3>1, Zenon
  <2>4. b \in Seq(Byte) /\ Len(b) = Len(H) + Len(post) /\ b[5] = f
    BY <2>1, <2>3, <1>8, <1>9
  <2> QED
    BY <2>1, <2>4, <1>8
<1>11. ReadString(b, 0) = [ok |-> TRUE, s |-> Protocol, pos |-> 3]
  <2> DEFINE R == (M \o U) \o post
  <2>1. M \o U \in Seq(Byte)
    BY <1>3, <1>4, BytePieces, Zenon
  <2>2. R \in Seq(Byte)
    BY <2>1, BytePieces, Zenon
  <2>3. H = P \o (M \o U)
    <3>1. Rejoins(P, M, U)
      BY <1>3, <1>4, <1>5, Rejoin, Zenon
    <3> QED BY <3>1, <1>6, Zenon DEF Rejoins
  <2>4. (P \o (M \o U)) \o post = P \o ((M \o U) \o post)
    <3>1. Rejoins(P, M \o U, post)
      BY <2>1, <1>5, Rejoin, Zenon
    <3> QED BY <3>1, Zenon DEF Rejoins
  <2>5. b = P \o R
    BY <2>3, <2>4, <1>9
  <2> HIDE DEF R
  <2>6. P \o R \in Seq(Byte)
    BY <2>2, <1>5, BytePieces, Zenon
  <2>7. <<>> \o (P \o R) = P \o R /\ <<>> \in Seq(Byte)
    BY <2>6, ByteAssoc, Zenon
  <2>8. b = <<>> \o (EncodeString(Protocol) \o R)
    BY <2>5, <2>7 DEF P
  <2>9. ReadString(<<>> \o (EncodeString(Protocol) \o R), Len(<<>>))
          = [ok |-> TRUE, s |-> Protocol, pos |-> Len(<<>>) + 2 + Len(Protocol)]
    <3> HIDE DEF Protocol
    <3> QED
      BY <2>2, <2>7, <1>1, <1>2, ReadStringAt
  <2>10. Len(<<>>) = 0 /\ Len(<<>>) + 2 + Len(Protocol) = 3
    BY <1>1
  <2> HIDE DEF Protocol
  <2>11. ReadString(b, Len(<<>>))
          = [ok |-> TRUE, s |-> Protocol, pos |-> Len(<<>>) + 2 + Len(Protocol)]
    BY <2>8, <2>9, Zenon
  <2> QED
    BY <2>10, <2>11
<1> QED
  BY <1>8, <1>10, <1>11 DEF H, b


\* What readString gives for the string s before position pos.
At(s, pos) == [ok |-> TRUE, s |-> s, pos |-> pos]

\* A string that fits its field.
Fits(s) == s \in Seq(Byte) /\ ~Overlong(s)

\* In b the string s comes after pre and before post.
StringAfter(b, pre, s, post) ==
    pre \in Seq(Byte) /\ Fits(s) /\ post \in Seq(Byte) /\ b = pre \o (EncodeString(s) \o post)

\* No string further.
LEMMA FollowingNone ==
    \A x, p, b : Following(At(x, p), FALSE, b) = At(<<>>, p)
BY DEF Following, At

\* readString of the string after pre.
LEMMA ReadOne ==
    ASSUME NEW b, NEW pre, NEW s, NEW post, StringAfter(b, pre, s, post)
    PROVE  ReadString(b, Len(pre)) = At(s, Len(pre \o EncodeString(s)))
<1> DEFINE E == EncodeString(s)
<1>0. /\ pre \in Seq(Byte) /\ s \in Seq(Byte) /\ post \in Seq(Byte) /\ ~Overlong(s)
      /\ b = pre \o (EncodeString(s) \o post)
  BY DEF StringAfter, Fits
<1>1. E \in Seq(Byte) /\ Len(E) = 2 + Len(s) /\ Len(s) \in Nat
  BY <1>0, StringTypes, Zenon
<1>2. pre \o E \in Seq(Byte) /\ Len(pre) \in Nat /\ Len(pre \o E) = Len(pre) + Len(E)
  BY <1>0, <1>1, BytePieces, Zenon
<1>4. ReadString(b, Len(pre)) = [ok |-> TRUE, s |-> s, pos |-> Len(pre) + 2 + Len(s)]
  BY <1>0, ReadStringAt
<1> HIDE DEF E
<1>5. Len(pre) + 2 + Len(s) = Len(pre \o E)
  BY <1>1, <1>2
<1>6. ReadString(b, Len(pre)) = At(s, Len(pre \o E))
  BY <1>4, <1>5 DEF At
<1> QED
  BY <1>6 DEF E

\* Whoever reads on in b after pre reads s.
Gives(b, pre, s) ==
    \A x : Following(At(x, Len(pre)), TRUE, b) = At(s, Len(pre \o EncodeString(s)))

\* One string further.
LEMMA FollowingOne ==
    ASSUME NEW b, NEW pre, NEW s, NEW post, StringAfter(b, pre, s, post)
    PROVE  Gives(b, pre, s)
<1>1. ReadString(b, Len(pre)) = At(s, Len(pre \o EncodeString(s)))
  BY ReadOne, Zenon
<1>2. ASSUME NEW x PROVE At(x, Len(pre)).ok /\ At(x, Len(pre)).pos = Len(pre)
  BY DEF At
<1>3. ASSUME NEW x PROVE Following(At(x, Len(pre)), TRUE, b) = ReadString(b, Len(pre))
  BY <1>2, Zenon DEF Following
<1> QED
  BY <1>1, <1>3, Zenon DEF Gives

\* The next string after one.
LEMMA StringNext ==
    ASSUME NEW b, NEW pre, NEW s, NEW t, NEW post, Fits(t), post \in Seq(Byte),
           StringAfter(b, pre, s, EncodeString(t) \o post)
    PROVE  StringAfter(b, pre \o EncodeString(s), t, post)
<1> DEFINE T == EncodeString(t) \o post
           E == EncodeString(s)
<1>1. pre \in Seq(Byte) /\ Fits(s) /\ T \in Seq(Byte) /\ b = pre \o (E \o T)
  BY Zenon DEF StringAfter
<1>2. E \in Seq(Byte)
  BY <1>1, StringTypes, Zenon DEF Fits
<1>3. pre \o E \in Seq(Byte)
  BY <1>1, <1>2, BytePieces, Zenon
<1>4. b = (pre \o E) \o T
  <2> HIDE DEF E, T
  <2> QED
    BY <1>1, <1>2, ByteAssoc, Zenon
<1> QED
  BY <1>3, <1>4, Zenon DEF StringAfter

\* What the flags of CONNECT announce: a will, a user name, a password.
LEMMA FlagBits ==
    /\ Bit(2, 4) = FALSE /\ Bit(2, 128) = FALSE /\ Bit(2, 64) = FALSE
    /\ Bit(130, 4) = FALSE /\ Bit(130, 128) = TRUE /\ Bit(130, 64) = FALSE
    /\ Bit(194, 4) = FALSE /\ Bit(194, 128) = TRUE /\ Bit(194, 64) = TRUE
    /\ Bit(198, 4) = TRUE /\ Bit(198, 128) = TRUE /\ Bit(198, 64) = TRUE
BY DEF Bit

\* What follows the client id i for the user name n and the password p under the flags f.
Announced(f, i, n, p, tail) ==
    /\ Fits(i) /\ Fits(n) /\ Fits(p) /\ tail \in Seq(Byte)
    /\ \/ f = 2 /\ n = <<>> /\ p = <<>>
       \/ f = 130 /\ p = <<>> /\ tail = EncodeString(n) \o <<>>
       \/ f = 194 /\ tail = EncodeString(n) \o (EncodeString(p) \o <<>>)
       \/ /\ f = 198
          /\ \E t, m : /\ Fits(t) /\ Fits(m)
                       /\ tail = EncodeString(t) \o
                            (EncodeString(m) \o (EncodeString(n) \o (EncodeString(p) \o <<>>)))

\* parseConnect of a body with the flags f and, after the client id, the strings they announce.
LEMMA ConnectStrings ==
    ASSUME NEW f, NEW i, NEW n, NEW p, NEW tail, Announced(f, i, n, p, tail)
    PROVE  LET b == Opening(f) \o (EncodeString(i) \o tail) IN
           /\ b \in Seq(Byte)
           /\ ParseConnect(b) = [type |-> "CONNECT", id |-> i, name |-> n, pass |-> p]
<1> DEFINE H == Opening(f)
           A == EncodeString(i) \o tail
           b == Opening(f) \o A
           HI == H \o EncodeString(i)
           L == Len(HI)
           id == ReadString(b, 7)
           topic == Following(id, Bit(b[5], 4), b)
           will == Following(topic, Bit(b[5], 4), b)
           name == Following(will, Bit(b[5], 128), b)
           pass == Following(name, Bit(b[5], 64), b)
<1>1. f \in Byte /\ Fits(i) /\ Fits(n) /\ Fits(p) /\ tail \in Seq(Byte)
  <2>1. f \in {2, 130, 194, 198} /\ Fits(i) /\ Fits(n) /\ Fits(p) /\ tail \in Seq(Byte)
    BY Zenon DEF Announced
  <2>2. \A x \in {2, 130, 194, 198} : x \in Byte
    BY DEF Byte
  <2> QED
    BY <2>1, <2>2, Zenon
<1>2. A \in Seq(Byte)
  BY <1>1, StringTypes, BytePieces, Zenon DEF Fits
<1>3. <<>> \in Seq(Byte) /\ EncodeString(p) \o <<>> \in Seq(Byte)
  BY <1>1, ByteAssoc, StringTypes, BytePieces, Zenon DEF Fits
<1>4. /\ H \in Seq(Byte) /\ Len(H) = 7 /\ b \in Seq(Byte) /\ Len(b) \in Nat /\ 7 <= Len(b)
      /\ ReadString(b, 0) = [ok |-> TRUE, s |-> Protocol, pos |-> 3]
      /\ b[5] = f
  <2> HIDE DEF A
  <2> QED
    BY <1>1, <1>2, OpeningRead
<1>5. StringAfter(b, H, i, tail) /\ ReadString(b, Len(H)) = At(i, L)
  <2>1. StringAfter(b, H, i, tail)
    BY <1>1, <1>4, Zenon DEF StringAfter
  <2> HIDE DEF b, H
  <2> QED
    BY <2>1, ReadOne, Zenon
<1>6. id = At(i, L)
  <2> HIDE DEF b, H
  <2> QED
    BY <1>4, <1>5, Zenon
<1> HIDE DEF b, H, A, HI
<1>7. /\ topic = Following(At(i, L), Bit(f, 4), b) /\ will = Following(topic, Bit(f, 4), b)
      /\ name = Following(will, Bit(f, 128), b) /\ pass = Following(name, Bit(f, 64), b)
  <2> HIDE DEF id, L
  <2> QED
    BY <1>6, <1>4
<1> HIDE DEF id, topic, will, name, pass
<1>8. \E x, y : name = At(n, x) /\ pass = At(p, y)
  <2>1. CASE f = 2 /\ n = <<>> /\ p = <<>>
    <3>1. Bit(f, 4) = FALSE /\ Bit(f, 128) = FALSE /\ Bit(f, 64) = FALSE
      BY <2>1, FlagBits, Zenon
    <3> HIDE DEF L
    <3>2. topic = At(<<>>, L)
      BY <3>1, <1>7, FollowingNone, Zenon
    <3>3. will = At(<<>>, L)
      BY <3>1, <3>2, <1>7, FollowingNone, Zenon
    <3>4. name = At(<<>>, L)
      BY <3>1, <3>3, <1>7, FollowingNone, Zenon
    <3>5. pass = At(<<>>, L)
      BY <3>1, <3>4, <1>7, FollowingNone, Zenon
    <3> QED
      BY <3>4, <3>5, <2>1, Zenon
  <2>2. CASE f = 130 /\ p = <<>> /\ tail = EncodeString(n) \o <<>>
    <3>1. Bit(f, 4) = FALSE /\ Bit(f, 128) = TRUE /\ Bit(f, 64) = FALSE
      BY <2>2, FlagBits, Zenon
    <3>2. StringAfter(b, HI, n, <<>>)
      BY <1>1, <1>3, <1>5, <2>2, StringNext, Zenon DEF HI
    <3>3. will = At(<<>>, Len(HI))
      <4>1. topic = At(<<>>, Len(HI))
        BY <3>1, <1>7, FollowingNone, Zenon
      <4> QED
        BY <3>1, <4>1, <1>7, FollowingNone, Zenon
    <3>4. name = At(n, Len(HI \o EncodeString(n)))
      <4>1. Following(At(<<>>, Len(HI)), TRUE, b) = At(n, Len(HI \o EncodeString(n)))
        <5>1. Gives(b, HI, n)
          BY <3>2, FollowingOne, Zenon
        <5> QED
          BY <5>1, Zenon DEF Gives
      <4>2. name = Following(At(<<>>, Len(HI)), TRUE, b)
        BY <3>1, <3>3, <1>7, Zenon
      <4> QED
        BY <4>1, <4>2, Zenon
    <3>5. pass = At(<<>>, Len(HI \o EncodeString(n)))
      BY <3>1, <3>4, <1>7, FollowingNone, Zenon
    <3> QED
      BY <3>4, <3>5, <2>2, Zenon
  <2>3. CASE f = 194 /\ tail = EncodeString(n) \o (EncodeString(p) \o <<>>)
    <3>1. Bit(f, 4) = FALSE /\ Bit(f, 128) = TRUE /\ Bit(f, 64) = TRUE
      BY <2>3, FlagBits, Zenon
    <3>2. StringAfter(b, HI, n, EncodeString(p) \o <<>>)
      BY <1>1, <1>3, <1>5, <2>3, StringNext, Zenon DEF HI
    <3>3. will = At(<<>>, Len(HI))
      <4>1. topic = At(<<>>, Len(HI))
        BY <3>1, <1>7, FollowingNone, Zenon
      <4> QED
        BY <3>1, <4>1, <1>7, FollowingNone, Zenon
    <3>4. name = At(n, Len(HI \o EncodeString(n)))
      <4>1. Following(At(<<>>, Len(HI)), TRUE, b) = At(n, Len(HI \o EncodeString(n)))
        <5>1. Gives(b, HI, n)
          BY <3>2, FollowingOne, Zenon
        <5> QED
          BY <5>1, Zenon DEF Gives
      <4>2. name = Following(At(<<>>, Len(HI)), TRUE, b)
        BY <3>1, <3>3, <1>7, Zenon
      <4> QED
        BY <4>1, <4>2, Zenon
    <3>5. StringAfter(b, HI \o EncodeString(n), p, <<>>)
      BY <1>1, <1>3, <3>2, StringNext, Zenon
    <3>6. pass = At(p, Len((HI \o EncodeString(n)) \o EncodeString(p)))
      <4> DEFINE G == HI \o EncodeString(n)
      <4>0. StringAfter(b, G, p, <<>>)
        BY <3>5
      <4> HIDE DEF G
      <4>1. Following(At(n, Len(G)), TRUE, b) = At(p, Len(G \o EncodeString(p)))
        <5>1. Gives(b, G, p)
          BY <4>0, FollowingOne, Zenon
        <5> QED
          BY <5>1, Zenon DEF Gives
      <4>2. pass = Following(At(n, Len(G)), TRUE, b)
        BY <3>1, <3>4, <1>7, Zenon DEF G
      <4> QED
        BY <4>1, <4>2, Zenon DEF G
    <3> QED
      BY <3>4, <3>6, Zenon
  <2>4. ASSUME f = 198, NEW t, NEW m, Fits(t), Fits(m),
               tail = EncodeString(t) \o
                    (EncodeString(m) \o (EncodeString(n) \o (EncodeString(p) \o <<>>)))
        PROVE  \E x, y : name = At(n, x) /\ pass = At(p, y)
    <3> DEFINE P == EncodeString(p) \o <<>>
               N == EncodeString(n) \o P
               M == EncodeString(m) \o N
               C == HI \o EncodeString(t)
               D == C \o EncodeString(m)
               E == D \o EncodeString(n)
    <3>1. Bit(f, 4) = TRUE /\ Bit(f, 128) = TRUE /\ Bit(f, 64) = TRUE
      BY <2>4, FlagBits, Zenon
    <3>2. P \in Seq(Byte) /\ N \in Seq(Byte) /\ M \in Seq(Byte)
      <4>1. N \in Seq(Byte)
        BY <1>1, <1>3, StringTypes, BytePieces, Zenon DEF Fits
      <4>2. M \in Seq(Byte)
        <5> HIDE DEF N
        <5> QED
          BY <2>4, <4>1, StringTypes, BytePieces, Zenon DEF Fits
      <4> QED
        BY <1>3, <4>1, <4>2
    <3>3. StringAfter(b, HI, t, M)
      BY <1>5, <3>2, <2>4, StringNext, Zenon DEF HI
    <3>4. StringAfter(b, C, m, N)
      BY <3>2, <3>3, <2>4, StringNext, Zenon
    <3>5. StringAfter(b, D, n, P)
      BY <3>2, <3>4, <1>1, StringNext, Zenon
    <3>6. StringAfter(b, E, p, <<>>)
      BY <3>5, <1>1, <1>3, StringNext, Zenon
    <3>7. topic = At(t, Len(C))
      <4>1. Following(At(i, Len(HI)), TRUE, b) = At(t, Len(C))
        <5> HIDE DEF M
        <5>1. Gives(b, HI, t)
          BY <3>3, FollowingOne, Zenon
        <5> QED
          BY <5>1, Zenon DEF Gives
      <4> QED
        BY <3>1, <4>1, <1>7, Zenon
    <3>8. will = At(m, Len(D))
      <4>1. Following(At(t, Len(C)), TRUE, b) = At(m, Len(D))
        <5> HIDE DEF N, C
        <5>1. Gives(b, C, m)
          BY <3>4, FollowingOne, Zenon
        <5> QED
          BY <5>1, Zenon DEF Gives
      <4>2. will = Following(At(t, Len(C)), TRUE, b)
        BY <3>1, <3>7, <1>7, Zenon
      <4> QED
        BY <4>1, <4>2, Zenon
    <3>9. name = At(n, Len(E))
      <4>1. Following(At(m, Len(D)), TRUE, b) = At(n, Len(E))
        <5> HIDE DEF P, D
        <5>1. Gives(b, D, n)
          BY <3>5, FollowingOne, Zenon
        <5> QED
          BY <5>1, Zenon DEF Gives
      <4>2. name = Following(At(m, Len(D)), TRUE, b)
        BY <3>1, <3>8, <1>7, Zenon
      <4> QED
        BY <4>1, <4>2, Zenon
    <3>10. pass = At(p, Len(E \o EncodeString(p)))
      <4>1. Following(At(n, Len(E)), TRUE, b) = At(p, Len(E \o EncodeString(p)))
        <5> HIDE DEF E
        <5>1. Gives(b, E, p)
          BY <3>6, FollowingOne, Zenon
        <5> QED
          BY <5>1, Zenon DEF Gives
      <4>2. pass = Following(At(n, Len(E)), TRUE, b)
        BY <3>1, <3>9, <1>7, Zenon
      <4> QED
        BY <4>1, <4>2, Zenon
    <3> QED
      BY <3>9, <3>10, Zenon
  <2> QED
    BY <2>1, <2>2, <2>3, <2>4, Zenon DEF Announced
<1>9. name.s = n /\ pass.s = p /\ pass.ok /\ id.s = i
  <2> HIDE DEF L
  <2>1. \A x, q : At(x, q).s = x /\ At(x, q).ok
    BY DEF At
  <2>2. PICK x, y : name = At(n, x) /\ pass = At(p, y)
    BY <1>8, Zenon
  <2>3. At(n, x).s = n /\ At(p, y).s = p /\ At(p, y).ok /\ At(i, L).s = i
    BY <2>1, Zenon
  <2> QED
    BY <1>6, <2>2, <2>3, Zenon
<1>10. ParseConnect(b) = [type |-> "CONNECT", id |-> id.s, name |-> name.s, pass |-> pass.s]
  <2> DEFINE proto == ReadString(b, 0)
  <2>2. proto.ok /\ proto.s = Protocol /\ proto.pos = 3
    BY <1>4
  <2> HIDE DEF proto
  <2>3. ~(proto.pos + 4 > Len(b)) /\ proto.pos + 4 = 7 /\ proto.pos + 2 = 5
    BY <2>2, <1>4
  <2>4. ~(~proto.ok \/ proto.s # Protocol \/ proto.pos + 4 > Len(b))
    BY <2>2, <2>3
  <2>5. ParseConnect(b)
          = IF ~proto.ok \/ proto.s # Protocol \/ proto.pos + 4 > Len(b) THEN Refused
            ELSE IF ~pass.ok THEN Refused
            ELSE [type |-> "CONNECT", id |-> id.s, name |-> name.s, pass |-> pass.s]
    BY <2>3 DEF ParseConnect, proto, id, topic, will, name, pass
  <2> QED
    BY <1>9, <2>4, <2>5, Zenon
<1> QED
  BY <1>4, <1>9, <1>10, Zenon DEF b, A

\* Four pieces are the same put together from the left and from the right.
Flat(s, t, u, v) == ((s \o t) \o u) \o v = s \o (t \o (u \o v))

\* They are, for bytes.
LEMMA FourPieces ==
    \A s \in Seq(Byte), t \in Seq(Byte), u \in Seq(Byte), v \in Seq(Byte) : Flat(s, t, u, v)
<1> SUFFICES ASSUME NEW s \in Seq(Byte), NEW t \in Seq(Byte), NEW u \in Seq(Byte),
                    NEW v \in Seq(Byte)
             PROVE  ((s \o t) \o u) \o v = s \o (t \o (u \o v))
  BY Zenon DEF Flat
<1>1. s \o t \in Seq(Byte) /\ u \o v \in Seq(Byte)
  BY BytePieces, Zenon
<1>2. Rejoins(s \o t, u, v) /\ Rejoins(s, t, u \o v)
  BY <1>1, Rejoin, Zenon
<1> QED
  BY <1>2, Zenon DEF Rejoins

\* The broker gets the client id, the user name and the password that the SDK was
\* given; a password without a user name it does not look for.
LEMMA ConnectRead ==
    ASSUME NEW o, Fits(o.id), Fits(o.name), Fits(o.pass)
    PROVE  /\ ConnectBody(o) \in Seq(Byte)
           /\ ParseConnect(ConnectBody(o))
                = [type |-> "CONNECT", id |-> o.id, name |-> o.name,
                   pass |-> IF o.name = <<>> THEN <<>> ELSE o.pass]
<1> DEFINE i == o.id
           n == o.name
           p == o.pass
           f == 2 + (IF n # <<>> THEN 128 ELSE 0) + (IF n # <<>> /\ p # <<>> THEN 64 ELSE 0)
           I == EncodeString(i)
           N == IF n # <<>> THEN EncodeString(n) ELSE <<>>
           P == IF p # <<>> THEN EncodeString(p) ELSE <<>>
           q == IF n = <<>> THEN <<>> ELSE p
           b == ConnectBody(o)
<1>1. b = ((Opening(f) \o I) \o N) \o P
  BY Zenon DEF ConnectBody, Opening
<1>2. Fits(i) /\ Fits(n) /\ Fits(p)
  OBVIOUS
<1>3. b = ConnectBody(o) /\ i = o.id /\ n = o.name /\ p = o.pass
  OBVIOUS
<1> HIDE DEF i, n, p, b
<1>4. I \in Seq(Byte) /\ N \in Seq(Byte) /\ P \in Seq(Byte) /\ <<>> \in Seq(Byte)
  <2>1. <<>> \in Seq(Byte)
    BY ByteAssoc, Zenon
  <2>2. /\ EncodeString(i) \in Seq(Byte) /\ EncodeString(n) \in Seq(Byte)
        /\ EncodeString(p) \in Seq(Byte)
    BY <1>2, StringTypes, Zenon DEF Fits
  <2> QED
    BY <2>1, <2>2, Zenon
<1>5. Fits(<<>>)
  <2>1. Len(<<>>) = 0 /\ LenBase \in Nat /\ LenBase >= 2
    BY WidthAssumption
  <2>2. \A x \in Nat : x >= 2 => ~(0 >= x * x)
    OBVIOUS
  <2>3. ~(Len(<<>>) >= LenBase * LenBase)
    BY <2>1, <2>2
  <2> QED
    BY <2>3, <1>4 DEF Fits, Overlong
<1>6. f \in {2, 130, 194} /\ Announced(f, i, n, q, N \o P)
  <2>1. N \o P \in Seq(Byte)
    BY <1>4, BytePieces, Zenon
  <2>2. CASE n = <<>>
    <3>1. f = 2
      BY <2>2
    <3>2. q = <<>>
      BY <2>2
    <3> HIDE DEF N, P, f, q
    <3>3. Announced(f, i, n, q, N \o P)
      BY <3>1, <3>2, <2>1, <2>2, <1>2, <1>5, Zenon DEF Announced
    <3> QED
      BY <3>1, <3>3
  <2>3. CASE n # <<>> /\ p = <<>>
    <3>1. f = 130
      BY <2>3
    <3>2. q = <<>> /\ N = EncodeString(n) /\ P = <<>>
      BY <2>3
    <3> HIDE DEF N, P, f, q
    <3>3. N \o P = EncodeString(n) \o <<>>
      BY <3>2
    <3>4. Announced(f, i, n, q, N \o P)
      BY <3>1, <3>2, <3>3, <2>1, <2>3, <1>2, <1>5, Zenon DEF Announced
    <3> QED
      BY <3>1, <3>4
  <2>4. CASE n # <<>> /\ p # <<>>
    <3>1. f = 194
      BY <2>4
    <3>2. q = p /\ N = EncodeString(n) /\ P = EncodeString(p)
      BY <2>4
    <3> HIDE DEF N, P, f, q
    <3>3. P = P \o <<>>
      BY <1>4, ByteAssoc, Zenon
    <3>4. N \o P = EncodeString(n) \o (EncodeString(p) \o <<>>)
      BY <3>2, <3>3, Zenon
    <3>5. Announced(f, i, n, q, N \o P)
      BY <3>1, <3>2, <3>4, <2>1, <2>4, <1>2, <1>5, Zenon DEF Announced
    <3> QED
      BY <3>1, <3>5
  <2> QED
    BY <2>2, <2>3, <2>4, Zenon
<1>7. Opening(f) \in Seq(Byte)
  <2> HIDE DEF f
  <2>1. f \in Byte
    BY <1>6 DEF Byte
  <2> QED
    BY <2>1, <1>4, OpeningRead
<1>8. q = IF o.name = <<>> THEN <<>> ELSE o.pass
  BY <1>3, Zenon
<1> HIDE DEF f, N, P, q, I
<1>9. b = Opening(f) \o (I \o (N \o P))
  <2> DEFINE H == Opening(f)
  <2>1. H \in Seq(Byte)
    BY <1>7
  <2>2. b = ((H \o I) \o N) \o P
    BY <1>1
  <2> HIDE DEF H
  <2>3. ((H \o I) \o N) \o P = H \o (I \o (N \o P))
    <3>2. Flat(H, I, N, P)
      BY <2>1, <1>4, FourPieces, Zenon
    <3> QED
      BY <3>2, Zenon DEF Flat
  <2> QED
    BY <2>2, <2>3, Zenon DEF H
<1>10. b \in Seq(Byte) /\ ParseConnect(b) = [type |-> "CONNECT", id |-> i, name |-> n, pass |-> q]
  <2> DEFINE tail == N \o P
             c == Opening(f) \o (EncodeString(i) \o tail)
  <2>1. Announced(f, i, n, q, tail)
    BY <1>6
  <2>2. b = c
    BY <1>9 DEF I
  <2> HIDE DEF tail
  <2>3. c \in Seq(Byte) /\ ParseConnect(c) = [type |-> "CONNECT", id |-> i, name |-> n, pass |-> q]
    BY <2>1, ConnectStrings
  <2> QED
    BY <2>2, <2>3, Zenon
<1> QED
  BY <1>3, <1>8, <1>10, Zenon

\* The same past a will, which is not kept.
LEMMA WillRead ==
    ASSUME NEW o, Fits(o.id), Fits(o.name), Fits(o.pass)
    PROVE  /\ WillBody(o) \in Seq(Byte)
           /\ ParseConnect(WillBody(o))
                = [type |-> "CONNECT", id |-> o.id, name |-> o.name, pass |-> o.pass]
<1> DEFINE i == o.id
           n == o.name
           p == o.pass
           I == EncodeString(i)
           T == EncodeString(<<0>>)
           M == EncodeString(<<1>>)
           N == EncodeString(n)
           P == EncodeString(p)
           b == WillBody(o)
           O == (EncodeString(Protocol) \o <<4, 2 + 4 + 128 + 64>>) \o U16(1)
<1>1. b = ((((O \o I) \o T) \o M) \o N) \o P
  BY Zenon DEF WillBody
<1>2. O = Opening(198)
  <2>1. 2 + 4 + 128 + 64 = 198
    OBVIOUS
  <2> QED
    BY <2>1, Zenon DEF Opening
<1>3. Fits(i) /\ Fits(n) /\ Fits(p)
  OBVIOUS
<1>4. b = WillBody(o) /\ i = o.id /\ n = o.name /\ p = o.pass
  OBVIOUS
<1>5. Fits(<<0>>) /\ Fits(<<1>>)
  <2>1. <<0>> \in Seq(Byte) /\ <<1>> \in Seq(Byte) /\ Len(<<0>>) = 1 /\ Len(<<1>>) = 1
    BY DEF Byte
  <2>2. LenBase \in Nat /\ LenBase >= 2
    BY WidthAssumption
  <2>3. \A x \in Nat : x >= 2 => ~(1 >= x * x)
    <3> TAKE x \in Nat
    <3> HAVE x >= 2
    <3>1. x * x >= 2 * x
      OBVIOUS
    <3> QED
      BY <3>1
  <2>4. ~(1 >= LenBase * LenBase)
    BY <2>2, <2>3
  <2> QED
    BY <2>1, <2>4 DEF Fits, Overlong
<1> HIDE DEF i, n, p, b, O
<1>6. /\ I \in Seq(Byte) /\ T \in Seq(Byte) /\ M \in Seq(Byte) /\ N \in Seq(Byte)
      /\ P \in Seq(Byte) /\ P = P \o <<>>
  <2>1. I \in Seq(Byte) /\ T \in Seq(Byte) /\ M \in Seq(Byte) /\ N \in Seq(Byte) /\ P \in Seq(Byte)
    BY <1>3, <1>5, StringTypes, Zenon DEF Fits
  <2> HIDE DEF P
  <2> QED
    BY <2>1, ByteAssoc, Zenon
<1>7. O \in Seq(Byte)
  <2> DEFINE f == 198
  <2>1. f \in Byte /\ <<>> \in Seq(Byte)
    BY DEF Byte
  <2>2. O = Opening(f)
    BY <1>2
  <2> HIDE DEF f
  <2>3. Opening(f) \in Seq(Byte)
    BY <2>1, OpeningRead
  <2> QED
    BY <2>2, <2>3
<1> DEFINE tail == T \o (M \o (N \o P))
<1> HIDE DEF I, T, M, N, P
<1>8. b = O \o (I \o tail) /\ tail \in Seq(Byte)
  <2>1. O \o I \in Seq(Byte) /\ (O \o I) \o T \in Seq(Byte) /\ M \o (N \o P) \in Seq(Byte)
    BY <1>6, <1>7, BytePieces, Zenon
  <2> DEFINE OI == O \o I
             R == M \o (N \o P)
  <2>2. tail \in Seq(Byte)
    <3> HIDE DEF R
    <3> QED
      BY <2>1, <1>6, BytePieces, Zenon DEF R
  <2>3. b = (OI \o T) \o R
    <3>1. OI \o T \in Seq(Byte)
      BY <2>1
    <3> DEFINE X == OI \o T
    <3> HIDE DEF OI, X
    <3>2. (((X) \o M) \o N) \o P = X \o (M \o (N \o P))
      <4>1. X \in Seq(Byte)
        BY <3>1 DEF X
      <4>2. Flat(X, M, N, P)
        BY <4>1, <1>6, FourPieces, Zenon
      <4> QED
        BY <4>2, Zenon DEF Flat
    <3> QED
      BY <3>2, <1>1, Zenon DEF X, OI
  <2> HIDE DEF R
  <2>4. (OI \o T) \o R = O \o (I \o (T \o R))
    <3>1. R \in Seq(Byte)
      BY <2>1 DEF R
    <3>2. Flat(O, I, T, R)
      BY <3>1, <1>6, <1>7, FourPieces, Zenon
    <3> QED
      BY <3>2, Zenon DEF Flat
  <2> QED
    BY <2>2, <2>3, <2>4, Zenon DEF R
<1>9. Announced(198, i, n, p, tail)
  <2>1. tail = T \o (M \o (N \o (P \o <<>>)))
    BY <1>6, Zenon
  <2> HIDE DEF tail
  <2> QED
    BY <2>1, <1>3, <1>5, <1>8, Zenon DEF Announced, T, M, N, P
<1> HIDE DEF tail
<1>10. b \in Seq(Byte) /\ ParseConnect(b) = [type |-> "CONNECT", id |-> i, name |-> n, pass |-> p]
  <2> DEFINE f == 198
             c == Opening(f) \o (EncodeString(i) \o tail)
  <2>1. Announced(f, i, n, p, tail)
    BY <1>9
  <2>2. b = c
    BY <1>2, <1>8 DEF I
  <2> HIDE DEF f
  <2>3. c \in Seq(Byte) /\ ParseConnect(c) = [type |-> "CONNECT", id |-> i, name |-> n, pass |-> p]
    BY <2>1, ConnectStrings
  <2> QED
    BY <2>2, <2>3, Zenon
<1> QED
  BY <1>4, <1>10, Zenon

-----------------------------------------------------------------------------
(* Whole packets. *)

\* Two bytes put together.
LEMMA TwoBytes ==
    \A x \in Nat, y \in Nat : <<x>> \o <<y>> = <<x, y>>
<1> SUFFICES ASSUME NEW x \in Nat, NEW y \in Nat PROVE <<x>> \o <<y>> = <<x, y>>
  OBVIOUS
<1> DEFINE s == <<x>> \o <<y>>
           t == <<x, y>>
<1>1. /\ t \in Seq(Nat) /\ Len(t) = 2 /\ t[1] = x /\ t[2] = y
      /\ <<x>> \in Seq(Nat) /\ <<y>> \in Seq(Nat)
  OBVIOUS
<1>2. s \in Seq(Nat) /\ Len(s) = 2 /\ s[1] = x /\ s[2] = y
  BY <1>1, TwoPieces
<1> HIDE DEF s, t
<1>3. \A i \in 1..Len(s) : s[i] = t[i]
  BY <1>1, <1>2
<1> QED
  BY <1>1, <1>2, <1>3, SeqEqual DEF s, t

\* Every packet is a header byte, its remaining length and its body.
LEMMA FramePack ==
    /\ \A type, flags, body : Frame(type, flags, body) = Pack(16 * type + flags, body)
    /\ \A id \in Nat : /\ PubAckPacket(id) = Pack(64, U16(id))
                       /\ UnsubAckPacket(id) = Pack(176, U16(id))
    /\ PingRespPacket = Pack(208, <<>>)
    /\ \A id, codes : SubAckPacket(id, codes) = Pack(144, U16(id) \o codes)
<1>1. \A type, flags, body : Frame(type, flags, body) = Pack(16 * type + flags, body)
  BY Zenon DEF Frame, Pack
<1>2. EncodeRemainingLength(2) = <<2>> /\ EncodeRemainingLength(0) = <<0>>
  <2>1. 2 < Digit /\ 0 < Digit /\ 2 \in Nat /\ 0 \in Nat
    BY DigitAssumption
  <2> QED
    BY <2>1, EncodeLength
<1>3. ASSUME NEW id \in Nat
      PROVE  PubAckPacket(id) = Pack(64, U16(id)) /\ UnsubAckPacket(id) = Pack(176, U16(id))
  <2>1. EncodeRemainingLength(Len(U16(id))) = <<2>>
    BY <1>2, U16Facts
  <2>2. <<64>> \o <<2>> = <<64, 2>> /\ <<176>> \o <<2>> = <<176, 2>>
    BY TwoBytes
  <2>3. /\ Pack(64, U16(id)) = (<<64>> \o <<2>>) \o U16(id)
        /\ Pack(176, U16(id)) = (<<176>> \o <<2>>) \o U16(id)
    BY <2>1 DEF Pack
  <2> QED
    BY <2>2, <2>3, Zenon DEF PubAckPacket, UnsubAckPacket
<1>4. PingRespPacket = Pack(208, <<>>)
  <2>1. Len(<<>>) = 0
    OBVIOUS
  <2>2. (<<208>> \o <<0>>) \o <<>> = <<208, 0>>
    <3>1. <<208>> \o <<0>> = <<208, 0>> /\ <<208, 0>> \in Seq(Nat)
      BY TwoBytes
    <3> QED
      BY <3>1, ConcatEmptySeq
  <2>3. Pack(208, <<>>) = (<<208>> \o EncodeRemainingLength(0)) \o <<>>
    BY <2>1 DEF Pack
  <2> QED
    BY <1>2, <2>2, <2>3, Zenon DEF PingRespPacket
<1>5. \A id, codes : SubAckPacket(id, codes) = Pack(144, U16(id) \o codes)
  <2>1. 16 * 9 + 0 = 144
    OBVIOUS
  <2> QED
    BY <2>1, <1>1, Zenon DEF SubAckPacket
<1> QED
  BY <1>1, <1>3, <1>4, <1>5, Zenon

\* What ReadPacket makes of any packet.
LEMMA PacketTypes ==
    ASSUME NEW h \in Byte, NEW b \in Seq(Byte)
    PROVE  LET p == ParsePacket(h, b) IN
           /\ p.type \in {"refused", "CONNECT", "PUBLISH", "PUBACK", "SUBSCRIBE", "UNSUBSCRIBE",
                          "PINGREQ", "DISCONNECT"}
           /\ h \div 16 = 3 => /\ p = ParsePublish(h % 16, b)
                               /\ p.type \in {"refused", "PUBLISH"}
           /\ p.type = "PUBLISH" => /\ h \div 16 = 3
                                    /\ p.topic \in Seq(Byte) /\ p.payload \in Seq(Byte)
                                    /\ p.id \in Nat
           /\ p.type = "SUBSCRIBE" => h \div 16 = 8 /\ p = ParseFilters("SUBSCRIBE", b, 1)
           /\ p.type = "UNSUBSCRIBE" => h \div 16 = 10 /\ p = ParseFilters("UNSUBSCRIBE", b, 0)
<1> DEFINE p == ParsePacket(h, b)
           k == h \div 16
<1>1. k \in 0..15 /\ h % 16 \in Nat /\ h \in Nat
  BY DEF Byte
<1>2. CASE k = 1
  <2>1. p = ParseConnect(b)
    BY <1>2 DEF ParsePacket
  <2>2. ParseConnect(b).type \in {"refused", "CONNECT"}
    BY DEF ParseConnect, Refused
  <2> HIDE DEF p
  <2> QED
    BY <2>1, <2>2, <1>2 DEF p
<1>3. CASE k = 3
  <2>1. p = ParsePublish(h % 16, b)
    BY <1>3 DEF ParsePacket
  <2>2. /\ p.type \in {"refused", "PUBLISH"}
        /\ p.type = "PUBLISH" => p.topic \in Seq(Byte) /\ p.payload \in Seq(Byte) /\ p.id \in Nat
    <3> HIDE DEF p
    <3> QED
      BY <2>1, <1>1, PublishTypes
  <2> HIDE DEF p
  <2> QED
    BY <2>1, <2>2, <1>3 DEF p
<1>4. CASE k = 8
  <2>1. p = ParseFilters("SUBSCRIBE", b, 1)
    BY <1>4 DEF ParsePacket
  <2>2. p = Refused \/ p.type = "SUBSCRIBE"
    <3> HIDE DEF p
    <3>1. 1 \in {0, 1}
      OBVIOUS
    <3> QED
      BY <3>1, <2>1, FilterTypes
  <2> HIDE DEF p
  <2>3. p.type \in {"refused", "SUBSCRIBE"}
    BY <2>2 DEF Refused
  <2> QED
    BY <2>1, <2>3, <1>4 DEF p
<1>5. CASE k = 10
  <2>1. p = ParseFilters("UNSUBSCRIBE", b, 0)
    BY <1>5 DEF ParsePacket
  <2>2. p = Refused \/ p.type = "UNSUBSCRIBE"
    <3> HIDE DEF p
    <3>1. 0 \in {0, 1}
      OBVIOUS
    <3> QED
      BY <3>1, <2>1, FilterTypes
  <2> HIDE DEF p
  <2>3. p.type \in {"refused", "UNSUBSCRIBE"}
    BY <2>2 DEF Refused
  <2> QED
    BY <2>1, <2>3, <1>5 DEF p
<1>6. CASE k \notin {1, 3, 8, 10}
  <2>1. p.type \in {"refused", "PUBACK", "PINGREQ", "DISCONNECT"}
    BY <1>6 DEF ParsePacket, Refused
  <2> HIDE DEF p
  <2> QED
    BY <2>1, <1>6 DEF p
<1> QED
  BY <1>1, <1>2, <1>3, <1>4, <1>5, <1>6

\* A packet other than PUBLISH, or nothing.
Plain(a) == a = <<>> \/ \E h \in Byte, b \in Seq(Byte) : h \div 16 # 3 /\ a = Pack(h, b)

\* The broker's answers to what it has read are such packets.
LEMMA AnswersPlain ==
    ASSUME NEW h \in Byte, NEW b \in Seq(Byte)
    PROVE  /\ \A a \in Replies(ParsePacket(h, b)) : Plain(a)
           /\ ParsePacket(h, b).type = "PUBLISH" => Plain(PubAckPacket(ParsePacket(h, b).id))
           /\ Plain(<<>>)
<1> DEFINE p == ParsePacket(h, b)
<1>1. /\ p.type = "PUBLISH" => p.id \in Nat
      /\ p.type = "SUBSCRIBE" => p = ParseFilters("SUBSCRIBE", b, 1)
      /\ p.type = "UNSUBSCRIBE" => p = ParseFilters("UNSUBSCRIBE", b, 0)
  BY PacketTypes
<1> HIDE DEF p
<1>2. Plain(<<>>)
  BY DEF Plain
<1>3. /\ 64 \in Byte /\ 64 \div 16 # 3 /\ 176 \in Byte /\ 176 \div 16 # 3
      /\ 208 \in Byte /\ 208 \div 16 # 3 /\ 144 \in Byte /\ 144 \div 16 # 3
  BY DEF Byte
<1>4. ASSUME NEW id \in Nat PROVE U16(id) \in Seq(Byte)
  BY U16Facts
<1>5. ASSUME p.type = "PUBLISH" PROVE Plain(PubAckPacket(p.id))
  <2>1. p.id \in Nat
    BY <1>1, <1>5
  <2> QED
    BY <2>1, <1>3, <1>4, FramePack, Zenon DEF Plain
<1>6. ASSUME NEW a \in Replies(p) PROVE Plain(a)
  <2>1. CASE p.type = "SUBSCRIBE"
    <3> DEFINE n == Len(p.topics)
    <3>1. p.id \in Nat /\ n \in Nat
      <4>1. 1 \in {0, 1} /\ p # Refused
        BY <2>1 DEF Refused
      <4>2. PICK m \in Nat : p.topics = Filters(b, 1, m) /\ p.id \in Nat
        BY <4>1, <1>1, <2>1, FilterTypes
      <4>3. Len(Filters(b, 1, m)) = m
        BY DEF Filters
      <4> QED
        BY <4>2, <4>3
    <3>2. PICK c \in [1..n -> {0, 1, 128}] : a = SubAckPacket(p.id, c)
      BY <1>6, <2>1 DEF Replies
    <3> HIDE DEF n
    <3>3. c \in Seq(Byte)
      <4>1. c \in [1..n -> Byte]
        BY DEF Byte
      <4> QED
        BY <4>1, <3>1
    <3>4. U16(p.id) \o c \in Seq(Byte)
      BY <3>1, <3>3, <1>4, BytePieces, Zenon
    <3> QED
      BY <3>2, <3>4, <1>3, FramePack, Zenon DEF Plain
  <2>2. CASE p.type = "UNSUBSCRIBE"
    <3>1. p.id \in Nat
      <4>1. 0 \in {0, 1} /\ p # Refused
        BY <2>2 DEF Refused
      <4> QED
        BY <4>1, <1>1, <2>2, FilterTypes
    <3>2. a = UnsubAckPacket(p.id)
      BY <1>6, <2>2 DEF Replies
    <3>3. a = Pack(176, U16(p.id))
      BY <3>1, <3>2, FramePack, Zenon
    <3> QED
      BY <3>1, <3>3, <1>3, <1>4, Zenon DEF Plain
  <2>3. CASE p.type = "PINGREQ"
    <3>1. a = PingRespPacket
      BY <1>6, <2>3 DEF Replies
    <3>2. <<>> \in Seq(Byte)
      OBVIOUS
    <3>3. a = Pack(208, <<>>)
      BY <3>1, FramePack, Zenon
    <3> QED
      BY <3>2, <3>3, <1>3, Zenon DEF Plain
  <2>4. CASE p.type \notin {"SUBSCRIBE", "UNSUBSCRIBE", "PINGREQ"}
    <3>1. a = <<>>
      BY <1>6, <2>4 DEF Replies
    <3> QED
      BY <3>1, <1>2
  <2> QED
    BY <2>1, <2>2, <2>3, <2>4
<1> QED
  BY <1>2, <1>5, <1>6 DEF p

-----------------------------------------------------------------------------
(* A stream is packets one after the other, each with what it was sent for.   *)

\* What a packet with a message stands for; of other clients' it may be anything.
Wanted == {Refused} \cup [type : {"message"}, topic : Seq(Byte), payload : Seq(Byte)]

\* A packet and the messages it stands for.
Units == [head : Byte, body : Seq(Byte), says : Seq(Wanted)]

\* The unit u before the bytes b that stand for w, and after them.
Before(u, b, w) == <<Pack(u.head, u.body) \o b, u.says \o w>>
After(b, w, u) == <<b \o Pack(u.head, u.body), w \o u.says>>

\* The bytes of units of F, one after the other, and what they stand for.
Pairs == Seq(Byte) \X Seq(Wanted)
Closed(C, F) ==
    /\ <<<<>>, <<>>>> \in C
    /\ \A u \in F, b \in Seq(Byte), w \in Seq(Wanted) : <<b, w>> \in C => Before(u, b, w) \in C
Stream(F) == {s \in Pairs : \A C \in SUBSET Pairs : Closed(C, F) => s \in C}

\* Three pieces are the same put together from the left and from the right.
ThreeFlat(s, t, u) == (s \o t) \o u = s \o (t \o u)

\* Pieces of what a stream stands for.
LEMMA WantedPieces ==
    /\ \A s \in Seq(Wanted), t \in Seq(Wanted), u \in Seq(Wanted) : ThreeFlat(s, t, u)
    /\ \A s \in Seq(Wanted), t \in Seq(Wanted) :
          s \o <<>> = s /\ <<>> \o s = s /\ s \o t \in Seq(Wanted)
    /\ <<>> \in Seq(Wanted) /\ \A x \in Wanted : <<x>> \in Seq(Wanted)
<1>1. ASSUME NEW s \in Seq(Wanted), NEW t \in Seq(Wanted), NEW u \in Seq(Wanted)
      PROVE  (s \o t) \o u = s \o (t \o u)
  BY ConcatAssociative
<1>2. ASSUME NEW s \in Seq(Wanted), NEW t \in Seq(Wanted)
      PROVE  s \o <<>> = s /\ <<>> \o s = s /\ s \o t \in Seq(Wanted)
  BY ConcatEmptySeq, ConcatProperties
<1>3. <<>> \in Seq(Wanted) /\ \A x \in Wanted : <<x>> \in Seq(Wanted)
  OBVIOUS
<1> QED
  BY <1>1, <1>2, <1>3, Zenon DEF ThreeFlat

\* The types of a unit put to a stream.
LEMMA UnitTypes ==
    ASSUME NEW u \in Units, NEW b \in Seq(Byte), NEW w \in Seq(Wanted)
    PROVE  /\ Pack(u.head, u.body) \in Seq(Byte) /\ u.says \in Seq(Wanted)
           /\ Before(u, b, w) \in Pairs /\ After(b, w, u) \in Pairs
<1>1. u.head \in Byte /\ u.body \in Seq(Byte) /\ u.says \in Seq(Wanted)
  BY DEF Units
<1>2. Pack(u.head, u.body) \in Seq(Byte)
  BY <1>1, PackPieces
<1>3. Pack(u.head, u.body) \o b \in Seq(Byte) /\ b \o Pack(u.head, u.body) \in Seq(Byte)
  BY <1>2, BytePieces, Zenon
<1>4. u.says \o w \in Seq(Wanted) /\ w \o u.says \in Seq(Wanted)
  BY <1>1, TwoPieces
<1> QED
  BY <1>1, <1>2, <1>3, <1>4, Zenon DEF Before, After, Pairs

\* The streams of F are a set closed under its units, and the least one.
LEMMA StreamLeast ==
    ASSUME NEW F \in SUBSET Units
    PROVE  /\ Stream(F) \in SUBSET Pairs
           /\ Closed(Stream(F), F)
           /\ \A C \in SUBSET Pairs : Closed(C, F) => Stream(F) \subseteq C
<1>1. Stream(F) \in SUBSET Pairs
  BY Zenon DEF Stream
<1>2. \A C \in SUBSET Pairs : Closed(C, F) => Stream(F) \subseteq C
  BY Zenon DEF Stream
<1>3. <<<<>>, <<>>>> \in Stream(F)
  <2>1. <<>> \in Seq(Byte) /\ <<>> \in Seq(Wanted)
    OBVIOUS
  <2>2. <<<<>>, <<>>>> \in Pairs
    BY <2>1, Zenon DEF Pairs
  <2> QED
    BY <2>2, Zenon DEF Stream, Closed
<1>4. ASSUME NEW u \in F, NEW b \in Seq(Byte), NEW w \in Seq(Wanted), <<b, w>> \in Stream(F)
      PROVE  Before(u, b, w) \in Stream(F)
  <2>1. Before(u, b, w) \in Pairs
    BY UnitTypes
  <2>2. ASSUME NEW C \in SUBSET Pairs, Closed(C, F) PROVE Before(u, b, w) \in C
    <3>1. <<b, w>> \in C
      BY <1>4, <2>2, Zenon DEF Stream
    <3> QED
      BY <3>1, <2>2, Zenon DEF Closed
  <2> QED
    BY <2>1, <2>2, Zenon DEF Stream
<1>5. Closed(Stream(F), F)
  BY <1>3, <1>4, Zenon DEF Closed
<1> QED
  BY <1>1, <1>2, <1>5, Zenon

\* More units, more streams.
LEMMA StreamMore ==
    ASSUME NEW G \in SUBSET Units, NEW F \in SUBSET G
    PROVE  Stream(F) \subseteq Stream(G)
<1>1. Closed(Stream(G), F)
  BY StreamLeast, Zenon DEF Closed
<1> QED
  BY <1>1, StreamLeast, Zenon

\* Nothing, or a unit and then a stream.
Begins(F, b, w) ==
    \/ b = <<>> /\ w = <<>>
    \/ \E u \in F, c \in Seq(Byte), x \in Seq(Wanted) :
        <<c, x>> \in Stream(F) /\ b = Pack(u.head, u.body) \o c /\ w = u.says \o x

\* A stream begins with a unit, unless it is empty.
LEMMA StreamFront ==
    ASSUME NEW F \in SUBSET Units, NEW b \in Seq(Byte), NEW w \in Seq(Wanted),
           <<b, w>> \in Stream(F)
    PROVE  Begins(F, b, w)
<1> SUFFICES \/ b = <<>> /\ w = <<>>
             \/ \E u \in F, c \in Seq(Byte), x \in Seq(Wanted) :
                    /\ <<c, x>> \in Stream(F)
                    /\ b = Pack(u.head, u.body) \o c /\ w = u.says \o x
  BY Zenon DEF Begins
<1> DEFINE First(s) == \E u \in F, c \in Seq(Byte), x \in Seq(Wanted) :
                            <<c, x>> \in Stream(F) /\ s = Before(u, c, x)
           C == {s \in Stream(F) : s = <<<<>>, <<>>>> \/ First(s)}
<1>1. Stream(F) \in SUBSET Pairs /\ Closed(Stream(F), F)
  BY StreamLeast
<1>2. C \in SUBSET Pairs
  BY <1>1
<1>3. Closed(C, F)
  <2>1. <<<<>>, <<>>>> \in C
    BY <1>1, Zenon DEF Closed
  <2>2. ASSUME NEW u \in F, NEW c \in Seq(Byte), NEW x \in Seq(Wanted), <<c, x>> \in C
        PROVE  Before(u, c, x) \in C
    <3>1. <<c, x>> \in Stream(F)
      BY <2>2
    <3>2. Before(u, c, x) \in Stream(F)
      BY <3>1, <1>1, Zenon DEF Closed
    <3> QED
      BY <3>1, <3>2, Zenon
  <2> HIDE DEF C
  <2> QED
    BY <2>1, <2>2, Zenon DEF Closed
<1>4. <<b, w>> \in C
  <2> HIDE DEF C
  <2> QED
    BY <1>2, <1>3, StreamLeast, Zenon
<1>5. CASE <<b, w>> = <<<<>>, <<>>>>
  BY <1>5
<1>6. CASE First(<<b, w>>)
  <2>1. PICK u \in F, c \in Seq(Byte), x \in Seq(Wanted) :
            <<c, x>> \in Stream(F) /\ <<b, w>> = Before(u, c, x)
    BY <1>6
  <2>2. b = Pack(u.head, u.body) \o c /\ w = u.says \o x
    BY <2>1 DEF Before
  <2> QED
    BY <2>1, <2>2, Zenon
<1> QED
  BY <1>4, <1>5, <1>6, Zenon

\* The streams may be continued at their end.
LEMMA StreamBack ==
    ASSUME NEW F \in SUBSET Units, NEW b \in Seq(Byte), NEW w \in Seq(Wanted),
           <<b, w>> \in Stream(F), NEW u \in F
    PROVE  <<b \o Pack(u.head, u.body), w \o u.says>> \in Stream(F)
<1> DEFINE C == {s \in Stream(F) : \A c \in Seq(Byte), x \in Seq(Wanted) :
                                        s = <<c, x>> => After(c, x, u) \in Stream(F)}
           p == Pack(u.head, u.body)
           says == u.says
<1>1. Stream(F) \in SUBSET Pairs /\ Closed(Stream(F), F)
  BY StreamLeast
<1>2. C \in SUBSET Pairs
  BY <1>1
<1>3. p \in Seq(Byte) /\ says \in Seq(Wanted) /\ u \in Units
  BY UnitTypes
<1>4. \A x \in Seq(Wanted), y \in Seq(Wanted) :
          x \o <<>> = x /\ <<>> \o x = x /\ x \o y \in Seq(Wanted)
  BY WantedPieces
<1>5. Closed(C, F)
  <2>1. <<<<>>, <<>>>> \in C
    <3>1. <<<<>>, <<>>>> \in Stream(F)
      BY <1>1, Zenon DEF Closed
    <3>2. ASSUME NEW c \in Seq(Byte), NEW x \in Seq(Wanted), <<<<>>, <<>>>> = <<c, x>>
          PROVE  After(c, x, u) \in Stream(F)
      <4>1. c = <<>> /\ x = <<>>
        BY <3>2
      <4>2. <<>> \o p = p \o <<>> /\ <<>> \o says = says \o <<>>
        BY <1>3, <1>4, ByteAssoc, Zenon
      <4>3. After(c, x, u) = Before(u, <<>>, <<>>)
        BY <4>1, <4>2, Zenon DEF After, Before
      <4>4. <<>> \in Seq(Byte) /\ <<>> \in Seq(Wanted)
        OBVIOUS
      <4>5. Before(u, <<>>, <<>>) \in Stream(F)
        BY <3>1, <4>4, <1>1, Zenon DEF Closed
      <4> QED
        BY <4>3, <4>5, Zenon
    <3> QED
      BY <3>1, <3>2, Zenon
  <2>2. ASSUME NEW v \in F, NEW c \in Seq(Byte), NEW x \in Seq(Wanted), <<c, x>> \in C
        PROVE  Before(v, c, x) \in C
    <3> DEFINE q == Pack(v.head, v.body)
               vs == v.says
    <3>1. q \in Seq(Byte) /\ vs \in Seq(Wanted)
      BY UnitTypes
    <3>2. <<c, x>> \in Stream(F) /\ After(c, x, u) \in Stream(F)
      BY <2>2, Zenon
    <3>3. Before(v, c, x) \in Stream(F)
      BY <3>2, <1>1, Zenon DEF Closed
    <3>4. c \o p \in Seq(Byte) /\ x \o says \in Seq(Wanted)
      <4>1. c \o p \in Seq(Byte)
        BY <1>3, BytePieces, Zenon
      <4> QED
        BY <4>1, <1>3, <1>4, Zenon
    <3>5. Before(v, c \o p, x \o says) \in Stream(F)
      BY <3>2, <3>4, <1>1, Zenon DEF Closed, After
    <3> HIDE DEF p, says, q, vs
    <3>6. q \o (c \o p) = (q \o c) \o p /\ vs \o (x \o says) = (vs \o x) \o says
      <4>1. q \o (c \o p) = (q \o c) \o p
        <5>1. Rejoins(q, c, p)
          BY <3>1, <1>3, Rejoin, Zenon
        <5> QED BY <5>1, Zenon DEF Rejoins
      <4>2. vs \o (x \o says) = (vs \o x) \o says
        <5>1. ThreeFlat(vs, x, says)
          BY <3>1, <1>3, WantedPieces, Zenon
        <5> QED
          BY <5>1, Zenon DEF ThreeFlat
      <4> QED
        BY <4>1, <4>2
    <3>7. Before(v, c \o p, x \o says) = After(q \o c, vs \o x, u)
      BY <3>6, Zenon DEF Before, After, p, q, says, vs
    <3>8. ASSUME NEW d \in Seq(Byte), NEW y \in Seq(Wanted), Before(v, c, x) = <<d, y>>
          PROVE  After(d, y, u) \in Stream(F)
      <4>1. d = q \o c /\ y = vs \o x
        BY <3>8 DEF Before, q, vs
      <4> QED
        BY <4>1, <3>5, <3>7, Zenon
    <3> QED
      BY <3>3, <3>8, Zenon
  <2> HIDE DEF C
  <2> QED
    BY <2>1, <2>2, Zenon DEF Closed
<1>6. <<b, w>> \in C
  <2> HIDE DEF C
  <2> QED
    BY <1>2, <1>5, StreamLeast, Zenon
<1> QED
  BY <1>6, Zenon DEF After

\* What a reader finds at the front u of a stream of which v has not come: a whole
\* packet, and after it a stream; or too little; or a length over the limit.
LEMMA StreamRead ==
    ASSUME NEW F \in SUBSET Units, NEW u \in Seq(Byte), NEW v \in Seq(Byte),
           NEW w \in Seq(Wanted), <<u \o v, w>> \in Stream(F), NEW limit \in Nat
    PROVE  LET r == ReadFrame(u, limit) IN
           /\ r.is \in {"whole", "short", "overflow"}
           /\ r.is = "whole" =>
                /\ r.rest \in Seq(Byte)
                /\ \E x \in F, y \in Seq(Wanted) :
                    /\ r.head = x.head /\ r.body = x.body
                    /\ w = x.says \o y /\ <<r.rest \o v, y>> \in Stream(F)
           /\ r.is = "overflow" => limit > 0 /\ \E x \in F : Len(x.body) >= Weight[limit]
<1> DEFINE r == ReadFrame(u, limit)
           b == u \o v
           Found == /\ r.is \in {"whole", "short", "overflow"}
                    /\ r.is = "whole" =>
                         /\ r.rest \in Seq(Byte)
                         /\ \E z \in F, a \in Seq(Wanted) :
                             /\ r.head = z.head /\ r.body = z.body
                             /\ w = z.says \o a /\ <<r.rest \o v, a>> \in Stream(F)
                    /\ r.is = "overflow" => limit > 0 /\ \E z \in F : Len(z.body) >= Weight[limit]
<1>1. b \in Seq(Byte)
  BY BytePieces, Zenon
<1>2. ASSUME b = <<>>, w = <<>> PROVE Found
  <2>1. u = <<>>
    BY <1>2, ConcatSimplifications
  <2>2. r.is = "short"
    BY <2>1, ReadNothing
  <2> HIDE DEF r
  <2> QED
    BY <2>2 DEF r
<1>3. ASSUME NEW x \in F, NEW c \in Seq(Byte), NEW y \in Seq(Wanted), <<c, y>> \in Stream(F),
             b = Pack(x.head, x.body) \o c, w = x.says \o y
      PROVE  Found
  <2> DEFINE h == x.head
             e == x.body
  <2>1. h \in Byte /\ e \in Seq(Byte)
    BY DEF Units
  <2>2. u \o v = Pack(h, e) \o c
    BY <1>3
  <2> HIDE DEF h, e
  <2>3. /\ r.is \in {"whole", "short", "overflow"}
        /\ r.is = "whole" => /\ r.head = h /\ r.body = e
                             /\ r.rest \in Seq(Byte) /\ r.rest \o v = c
        /\ r.is = "overflow" => limit > 0 /\ Len(e) >= Weight[limit]
    <3>1. PacketRead(u, v, h, e, c, limit)
      BY <2>1, <2>2, ReadPack, Zenon
    <3> QED
      BY <3>1, Zenon DEF PacketRead
  <2> HIDE DEF r
  <2>4. ASSUME r.is = "whole"
        PROVE  \E z \in F, a \in Seq(Wanted) :
                      /\ r.head = z.head /\ r.body = z.body
                      /\ w = z.says \o a /\ <<r.rest \o v, a>> \in Stream(F)
    <3>1. r.head = x.head /\ r.body = x.body /\ <<r.rest \o v, y>> \in Stream(F)
      BY <2>3, <2>4, <1>3, Zenon DEF h, e
    <3> QED
      BY <3>1, <1>3, Zenon
  <2>5. ASSUME r.is = "overflow" PROVE limit > 0 /\ \E z \in F : Len(z.body) >= Weight[limit]
    BY <2>3, <2>5, Zenon DEF e
  <2> QED
    BY <2>3, <2>4, <2>5, Zenon
<1> HIDE DEF r, b
<1>4. <<b, w>> \in Stream(F)
  BY DEF b
<1>5. Begins(F, b, w)
  BY <1>1, <1>4, StreamFront, Zenon
<1>6. Found
  <2> HIDE DEF Found
  <2> QED
    BY <1>2, <1>3, <1>5, Zenon DEF Begins
<1> QED
  BY <1>6, Zenon DEF r

\* The bytes b are what has come so far of a stream that stands for w; all of it has,
\* unless the rest is gone with the connection.
Flow(F, b, w, gone) ==
    \E v \in Seq(Byte) : (gone \/ v = <<>>) /\ <<b \o v, w>> \in Stream(F)

\* Nothing has come.
LEMMA FlowEmpty ==
    ASSUME NEW F \in SUBSET Units, NEW gone
    PROVE  Flow(F, <<>>, <<>>, gone)
<1>1. <<>> \in Seq(Byte) /\ <<>> \o <<>> = <<>>
  BY ByteAssoc, Zenon
<1>2. <<<<>>, <<>>>> \in Stream(F)
  BY StreamLeast, Zenon DEF Closed
<1> QED
  BY <1>1, <1>2, Zenon DEF Flow

\* One more unit is written.
LEMMA FlowSend ==
    ASSUME NEW F \in SUBSET Units, NEW b \in Seq(Byte), NEW w \in Seq(Wanted),
           Flow(F, b, w, FALSE), NEW u \in F
    PROVE  Flow(F, b \o Pack(u.head, u.body), w \o u.says, FALSE)
<1>1. PICK v \in Seq(Byte) : v = <<>> /\ <<b \o v, w>> \in Stream(F)
  BY Zenon DEF Flow
<1>2. b \o v = b
  BY <1>1, ByteAssoc, Zenon
<1>3. <<b, w>> \in Stream(F)
  BY <1>1, <1>2, Zenon
<1>4. <<b \o Pack(u.head, u.body), w \o u.says>> \in Stream(F)
  BY <1>3, StreamBack, Zenon
<1>5. (b \o Pack(u.head, u.body)) \o <<>> = b \o Pack(u.head, u.body) /\ <<>> \in Seq(Byte)
  <2> DEFINE p == Pack(u.head, u.body)
  <2>1. p \in Seq(Byte)
    BY UnitTypes
  <2> HIDE DEF p
  <2>2. b \o p \in Seq(Byte)
    BY <2>1, BytePieces, Zenon
  <2>3. (b \o p) \o <<>> = b \o p /\ <<>> \in Seq(Byte)
    BY <2>2, ByteAssoc, Zenon
  <2> QED
    BY <2>3 DEF p
<1> QED
  BY <1>4, <1>5, Zenon DEF Flow

\* More units, more flows.
LEMMA FlowMore ==
    ASSUME NEW G \in SUBSET Units, NEW F \in SUBSET G, NEW b, NEW w, NEW gone,
           Flow(F, b, w, gone)
    PROVE  Flow(G, b, w, gone)
<1>1. Stream(F) \subseteq Stream(G)
  BY StreamMore, Zenon
<1> QED
  BY <1>1, Zenon DEF Flow

\* The connection goes, and with it the end c.
LEMMA FlowCut ==
    ASSUME NEW F \in SUBSET Units, NEW b \in Seq(Byte), NEW c \in Seq(Byte), NEW w, NEW gone,
           Flow(F, b \o c, w, gone)
    PROVE  Flow(F, b, w, TRUE)
<1>1. PICK v \in Seq(Byte) : <<(b \o c) \o v, w>> \in Stream(F)
  BY Zenon DEF Flow
<1>2. (b \o c) \o v = b \o (c \o v)
  BY ByteAssoc, Zenon
<1>3. c \o v \in Seq(Byte)
  BY BytePieces, Zenon
<1> QED
  BY <1>1, <1>2, <1>3, Zenon DEF Flow

\* What a reader of the bytes b has of a flow, for the frame r it finds.
Taken(F, b, w, gone, limit) ==
    LET r == ReadFrame(b, limit) IN
    /\ r.is \in {"whole", "short", "overflow"}
    /\ r.is = "whole" =>
         /\ r.rest \in Seq(Byte)
         /\ \E x \in F, y \in Seq(Wanted) :
              /\ r.head = x.head /\ r.body = x.body
              /\ w = x.says \o y /\ Flow(F, r.rest, y, gone)
    /\ r.is = "overflow" => limit > 0 /\ \E x \in F : Len(x.body) >= Weight[limit]

\* It has it.
LEMMA FlowTake ==
    ASSUME NEW F \in SUBSET Units, NEW b \in Seq(Byte), NEW w \in Seq(Wanted), NEW gone,
           Flow(F, b, w, gone), NEW limit \in Nat
    PROVE  Taken(F, b, w, gone, limit)
<1>1. PICK v \in Seq(Byte) : (gone \/ v = <<>>) /\ <<b \o v, w>> \in Stream(F)
  BY Zenon DEF Flow
<1> DEFINE r == ReadFrame(b, limit)
<1>2. /\ r.is \in {"whole", "short", "overflow"}
      /\ r.is = "whole" =>
                /\ r.rest \in Seq(Byte)
                /\ \E x \in F, y \in Seq(Wanted) :
                    /\ r.head = x.head /\ r.body = x.body
                    /\ w = x.says \o y /\ <<r.rest \o v, y>> \in Stream(F)
      /\ r.is = "overflow" => limit > 0 /\ \E x \in F : Len(x.body) >= Weight[limit]
  BY <1>1, StreamRead
<1> HIDE DEF r
<1> QED
  BY <1>1, <1>2, Zenon DEF Taken, Flow, r

-----------------------------------------------------------------------------
(* The packets of the client, and of the broker. *)

\* A message whose topic fits its field.
Clear(w) == w.type = "message" /\ ~Overlong(w.topic)

\* The bytes d are the payload, or an envelope around it.
Holds(d, payload) ==
    LET e == DecodeEnvelope(d) IN
    IF e.ok THEN e.e.payload = payload /\ ~Overlong(e.e.props) ELSE d = payload

\* A PUBLISH with header h and body b is one for w.
Carries(h, b, w) ==
    LET p == ParsePacket(h, b) IN
    Clear(w) => p.type = "PUBLISH" /\ p.topic = w.topic /\ Holds(p.payload, w.payload)

\* The broker takes the packet with header h and body b, and reads on.
Fine(h, b) ==
    ~TooLong(b) /\ ParsePacket(h, b).type \notin {"refused", "DISCONNECT"}

\* What a client sends; all of it is fine, unless something was odd.
UpUnits(strange) ==
    {u \in Units :
        /\ IF u.head \div 16 = 3
           THEN \E w \in Wanted : u.says = <<w>> /\ Carries(u.head, u.body, w)
           ELSE u.says = <<>>
        /\ strange \/ Fine(u.head, u.body)}

\* A PUBLISH with header h and body b is handed over by the SDK as w.
Shows(h, b, w) ==
    LET m == ParsePublishBody(b, ((h % 16) \div 2) % 4)
        d == DecodeEnvelope(m.payload)
    IN Clear(w) => m.topic = w.topic /\ d.ok /\ d.e.payload = w.payload

\* What the broker sends.
DownUnits ==
    {u \in Units :
        IF u.head \div 16 = 3
        THEN \E w \in Wanted : u.says = <<w>> /\ Shows(u.head, u.body, w)
        ELSE u.says = <<>>}

\* The packet is a unit of F that stands for w.
SentAs(F, packet, w) == \E u \in F : packet = Pack(u.head, u.body) /\ u.says = w

\* The units of both sides, and that what is not odd may be among what is.
LEMMA UnitSets ==
    /\ \A strange : UpUnits(strange) \in SUBSET Units
    /\ DownUnits \in SUBSET Units
    /\ \A s, t : (s => t) => UpUnits(s) \in SUBSET UpUnits(t)
BY Zenon DEF UpUnits, DownUnits

\* A packet with header h and body b that is no PUBLISH.
LEMMA PlainUnit ==
    ASSUME NEW h \in Byte, NEW b \in Seq(Byte), h \div 16 # 3
    PROVE  /\ SentAs(DownUnits, Pack(h, b), <<>>)
           /\ \A strange : strange \/ Fine(h, b) => SentAs(UpUnits(strange), Pack(h, b), <<>>)
<1> DEFINE u == [head |-> h, body |-> b, says |-> <<>>]
<1>1. u \in Units /\ u.head = h /\ u.body = b /\ u.says = <<>>
  BY DEF Units
<1> HIDE DEF u
<1>2. u \in DownUnits
  BY <1>1, Zenon DEF DownUnits
<1>3. ASSUME NEW strange, strange \/ Fine(h, b) PROVE u \in UpUnits(strange)
  BY <1>1, <1>3, Zenon DEF UpUnits
<1> QED
  BY <1>1, <1>2, <1>3, Zenon DEF SentAs

\* A PUBLISH with header h and body b for w.
LEMMA MessageUnit ==
    ASSUME NEW h \in Byte, NEW b \in Seq(Byte), h \div 16 = 3, NEW w \in Wanted
    PROVE  /\ Shows(h, b, w) => SentAs(DownUnits, Pack(h, b), <<w>>)
           /\ \A strange : (strange \/ Fine(h, b)) /\ Carries(h, b, w)
                            => SentAs(UpUnits(strange), Pack(h, b), <<w>>)
<1> DEFINE u == [head |-> h, body |-> b, says |-> <<w>>]
<1>1. u \in Units /\ u.head = h /\ u.body = b /\ u.says = <<w>>
  <2>1. <<w>> \in Seq(Wanted)
    OBVIOUS
  <2> QED
    BY <2>1 DEF Units
<1> HIDE DEF u
<1>2. ASSUME Shows(h, b, w) PROVE u \in DownUnits
  BY <1>1, <1>2, Zenon DEF DownUnits
<1>3. ASSUME NEW strange, strange \/ Fine(h, b), Carries(h, b, w) PROVE u \in UpUnits(strange)
  BY <1>1, <1>3, Zenon DEF UpUnits
<1> QED
  BY <1>1, <1>2, <1>3, Zenon DEF SentAs

\* The header of a PUBLISH.
PublishHead(qos, dup) == 48 + 2 * qos + (IF dup THEN 8 ELSE 0)

\* A PUBLISH is a packet with that header, from which both readers take the QoS.
IsPublish(topic, qos, id, dup, data) ==
    LET h == PublishHead(qos, dup)
        b == PublishBody(topic, qos, id, data)
    IN /\ PublishPacket(topic, qos, id, dup, data) = Pack(h, b)
       /\ h \in Byte /\ h \div 16 = 3 /\ ((h % 16) \div 2) % 4 = qos
       /\ b \in Seq(Byte)

\* Every one is.
LEMMA PublishFrame ==
    ASSUME NEW topic \in Seq(Byte), NEW data \in Seq(Byte), NEW qos \in {0, 1}, NEW id \in Nat,
           NEW dup \in BOOLEAN
    PROVE  IsPublish(topic, qos, id, dup, data)
<1> DEFINE h == PublishHead(qos, dup)
           b == PublishBody(topic, qos, id, data)
           f == 2 * qos + (IF dup THEN 8 ELSE 0)
<1>1. h \in Byte /\ h \div 16 = 3 /\ ((h % 16) \div 2) % 4 = qos /\ 16 * 3 + f = h
  <2>1. qos = 0 \/ qos = 1
    OBVIOUS
  <2>2. dup = TRUE \/ dup = FALSE
    OBVIOUS
  <2>3. h \in {48, 50, 56, 58} /\ (qos = 0 <=> h \in {48, 56}) /\ 16 * 3 + f = h
    <3>1. CASE dup = TRUE
      BY <2>1, <3>1 DEF PublishHead
    <3>2. CASE dup = FALSE
      BY <2>1, <3>2 DEF PublishHead
    <3> QED
      BY <2>2, <3>1, <3>2
  <2> HIDE DEF h, f
  <2>4. /\ \A x \in {48, 50, 56, 58} : x \in Byte /\ x \div 16 = 3
        /\ \A x \in {48, 56} : ((x % 16) \div 2) % 4 = 0
        /\ \A x \in {50, 58} : ((x % 16) \div 2) % 4 = 1
    BY DEF Byte
  <2> QED
    BY <2>1, <2>3, <2>4
<1>2. PublishPacket(topic, qos, id, dup, data) = Pack(h, b)
  <2>1. PublishPacket(topic, qos, id, dup, data) = Pack(16 * 3 + f, b)
    BY FramePack, Zenon DEF PublishPacket
  <2> QED
    BY <2>1, <1>1, Zenon
<1>3. b \in Seq(Byte)
  <2> DEFINE E == EncodeString(topic)
             N == IF qos > 0 THEN U16(id) ELSE <<>>
  <2>1. E \in Seq(Byte)
    BY StringTypes
  <2>2. N \in Seq(Byte)
    <3>1. U16(id) \in Seq(Byte)
      BY U16Facts
    <3>2. <<>> \in Seq(Byte)
      OBVIOUS
    <3> QED
      BY <3>1, <3>2, Zenon
  <2> HIDE DEF E, N
  <2>3. E \o N \in Seq(Byte)
    BY <2>1, <2>2, BytePieces, Zenon
  <2>4. (E \o N) \o data \in Seq(Byte)
    BY <2>3, BytePieces, Zenon
  <2> QED
    BY <2>4, Zenon DEF PublishBody, E, N
<1> QED
  BY <1>1, <1>2, <1>3, Zenon DEF IsPublish

\* What Publish and other clients publish goes up as what it stands for.
LEMMA PublishSent ==
    ASSUME NEW topic \in Seq(Byte), NEW data \in Seq(Byte), NEW payload \in Seq(Byte),
           NEW qos \in {0, 1}, NEW id \in Nat, Holds(data, payload), NEW strange,
           strange \/ (~TooLong(PublishBody(topic, qos, id, data)) /\ ~Overlong(topic))
    PROVE  SentAs(UpUnits(strange), PublishPacket(topic, qos, id, FALSE, data),
                  <<Want(topic, payload)>>)
<1> DEFINE h == PublishHead(qos, FALSE)
           b == PublishBody(topic, qos, id, data)
           p == ParsePacket(h, b)
           w == Want(topic, payload)
<1>1. /\ PublishPacket(topic, qos, id, FALSE, data) = Pack(h, b)
      /\ h \in Byte /\ h \div 16 = 3 /\ ((h % 16) \div 2) % 4 = qos /\ b \in Seq(Byte)
  <2>1. FALSE \in BOOLEAN
    OBVIOUS
  <2>2. IsPublish(topic, qos, id, FALSE, data)
    BY <2>1, PublishFrame, Zenon
  <2> QED
    BY <2>2, Zenon DEF IsPublish
<1>2. ~Overlong(topic) => p.type = "PUBLISH" /\ p.topic = topic /\ p.payload = data
  <2> SUFFICES ASSUME ~Overlong(topic)
               PROVE  p.type = "PUBLISH" /\ p.topic = topic /\ p.payload = data
    OBVIOUS
  <2> DEFINE flags == h % 16
             q == ParsePublish(flags, b)
  <2>1. q.type = "PUBLISH" /\ q.topic = topic /\ q.payload = data
    <3> HIDE DEF flags
    <3>1. (flags \div 2) % 4 = qos
      BY <1>1 DEF flags
    <3> QED
      BY <3>1, PublishRoundTrip
  <2> HIDE DEF h, b
  <2>2. p = q
    BY <1>1, PacketTypes
  <2> QED
    BY <2>1, <2>2, Zenon
<1>3. w \in Wanted /\ w.type = "message" /\ w.topic = topic /\ w.payload = payload
  BY DEF Want, Wanted
<1> HIDE DEF h, b, w
<1>4. Carries(h, b, w)
  BY <1>2, <1>3, Zenon DEF Carries, Clear
<1>5. strange \/ Fine(h, b)
  <2>1. ASSUME ~Overlong(topic) PROVE p.type \notin {"refused", "DISCONNECT"}
    <3> HIDE DEF p
    <3> QED
      BY <1>2, <2>1
  <2> QED
    BY <2>1, Zenon DEF Fine, b
<1> QED
  BY <1>1, <1>3, <1>4, <1>5, MessageUnit, Zenon DEF w

\* A stored message goes down as what it stands for.
LEMMA DeliverSent ==
    ASSUME NEW topic \in Seq(Byte), NEW raw \in Seq(Byte), NEW qos \in {0, 1},
           NEW dup \in BOOLEAN, NEW w \in Wanted,
           Clear(w) => /\ topic = w.topic /\ DecodeEnvelope(raw).ok
                       /\ DecodeEnvelope(raw).e.payload = w.payload
    PROVE  SentAs(DownUnits, PublishPacket(topic, qos, 1, dup, raw), <<w>>)
<1> DEFINE h == PublishHead(qos, dup)
           b == PublishBody(topic, qos, 1, raw)
           m == ParsePublishBody(b, qos)
<1>1. /\ PublishPacket(topic, qos, 1, dup, raw) = Pack(h, b)
      /\ h \in Byte /\ h \div 16 = 3 /\ ((h % 16) \div 2) % 4 = qos /\ b \in Seq(Byte)
  <2>1. 1 \in Nat
    OBVIOUS
  <2>2. IsPublish(topic, qos, 1, dup, raw)
    BY <2>1, PublishFrame, Zenon
  <2> QED
    BY <2>2, Zenon DEF IsPublish
<1>2. ~Overlong(topic) => m.topic = topic /\ m.payload = raw
  <2> SUFFICES ASSUME ~Overlong(topic) PROVE m.topic = topic /\ m.payload = raw
    OBVIOUS
  <2> DEFINE flags == h % 16
  <2>1. (flags \div 2) % 4 = qos /\ 1 \in Nat
    BY <1>1
  <2> HIDE DEF flags
  <2> QED
    BY <2>1, PublishRoundTrip
<1> HIDE DEF h, b
<1>3. Shows(h, b, w)
  <2>1. m = ParsePublishBody(b, ((h % 16) \div 2) % 4)
    BY <1>1
  <2>2. ASSUME Clear(w)
        PROVE  /\ m.topic = w.topic /\ DecodeEnvelope(m.payload).ok
               /\ DecodeEnvelope(m.payload).e.payload = w.payload
    <3>1. ~Overlong(topic) /\ topic = w.topic
      BY <2>2, Zenon DEF Clear
    <3> HIDE DEF m
    <3>2. m.topic = topic /\ m.payload = raw
      BY <1>2, <3>1
    <3> QED
      BY <2>2, <3>1, <3>2, Zenon
  <2> HIDE DEF m
  <2> QED
    BY <2>1, <2>2, Zenon DEF Shows
<1> QED
  BY <1>1, <1>3, MessageUnit, Zenon

\* SUBSCRIBE, PUBACK and CONNECT go up, and other clients' packets.
LEMMA OthersSent ==
    ASSUME NEW strange
    PROVE  /\ \A topic \in Seq(Byte), qos \in {0, 1} :
                strange \/ (~TooLong(SubscribeBody(topic, qos)) /\ ~Overlong(topic))
                    => SentAs(UpUnits(strange), SubscribePacket(topic, qos), <<>>)
           /\ SentAs(UpUnits(strange), PubAckPacket(1), <<>>)
           /\ \A b \in Seq(Byte) : ~TooLong(b) /\ ParseConnect(b).type = "CONNECT"
                    => SentAs(UpUnits(strange), Frame(1, 0, b), <<>>)
           /\ \A h \in Heads \cup BareHeads, b \in Seq(Byte) :
                SentAs(UpUnits(TRUE), Frame(h \div 16, h % 16, b),
                       IF h \div 16 = 3 THEN <<Refused>> ELSE <<>>)
<1>1. ASSUME NEW topic \in Seq(Byte), NEW qos \in {0, 1},
             strange \/ (~TooLong(SubscribeBody(topic, qos)) /\ ~Overlong(topic))
      PROVE  SentAs(UpUnits(strange), SubscribePacket(topic, qos), <<>>)
  <2> DEFINE b == SubscribeBody(topic, qos)
             h == 130
  <2>1. SubscribePacket(topic, qos) = Pack(h, b)
    <3>1. 16 * 8 + 2 = 130
      OBVIOUS
    <3> QED
      BY <3>1, FramePack, Zenon DEF SubscribePacket
  <2>2. h \in Byte /\ h \div 16 = 8 /\ 8 # 3
    BY DEF Byte
  <2>3. b \in Seq(Byte)
    <3>1. U16(1) \in Seq(Byte) /\ EncodeString(topic) \in Seq(Byte)
      BY U16Facts, StringTypes
    <3>2. <<qos % 4>> \in Seq(Byte)
      BY DEF Byte
    <3>3. U16(1) \o EncodeString(topic) \in Seq(Byte)
      BY <3>1, BytePieces, Zenon
    <3> DEFINE X == U16(1) \o EncodeString(topic)
               Y == <<qos % 4>>
    <3> HIDE DEF X, Y
    <3>4. X \o Y \in Seq(Byte)
      BY <3>2, <3>3, BytePieces, Zenon DEF X, Y
    <3> QED
      BY <3>4, Zenon DEF SubscribeBody, X, Y
  <2>4. ASSUME ~Overlong(topic) PROVE ParsePacket(h, b).type = "SUBSCRIBE"
    <3>1. ParseFilters("SUBSCRIBE", b, 1).type = "SUBSCRIBE"
      BY <2>4, SubscribeRead
    <3> HIDE DEF b
    <3>2. ParsePacket(h, b) = ParseFilters("SUBSCRIBE", b, 1)
      BY <2>2 DEF ParsePacket
    <3> QED
      BY <3>1, <3>2, Zenon
  <2> HIDE DEF h
  <2>5. strange \/ Fine(h, b)
    <3>1. ASSUME ~Overlong(topic) PROVE ParsePacket(h, b).type \notin {"refused", "DISCONNECT"}
      BY <2>4, <3>1
    <3> QED
      BY <3>1, <1>1, Zenon DEF Fine
  <2> HIDE DEF b
  <2>6. h \div 16 # 3
    BY <2>2, Zenon
  <2> QED
    BY <2>1, <2>2, <2>3, <2>5, <2>6, PlainUnit, Zenon
<1>2. SentAs(UpUnits(strange), PubAckPacket(1), <<>>)
  <2> DEFINE b == U16(1)
             h == 64
  <2>1. PubAckPacket(1) = Pack(h, b)
    BY FramePack
  <2>2. h \in Byte /\ h \div 16 = 4 /\ 4 # 3
    BY DEF Byte
  <2>3. b \in Seq(Byte) /\ Len(b) = 2
    BY U16Facts
  <2> HIDE DEF b
  <2>4. ParsePacket(h, b).type = "PUBACK"
    BY <2>2, <2>3 DEF ParsePacket
  <2>5. ~TooLong(b)
    <3>1. Weight[1] <= Weight[MaxDigits]
      BY WeightGrows, WidthAssumption
    <3>2. Weight[1] = Digit * 1
      <4>1. Weight[0 + 1] = Digit * Weight[0] /\ Weight[0] = 1
        BY WeightDef
      <4> QED
        BY <4>1
    <3>3. Weight[MaxDigits] \in Nat /\ Digit \in Nat /\ Digit > 2
      BY WeightGrows, WidthAssumption, DigitAssumption
    <3> QED
      BY <2>3, <3>1, <3>2, <3>3 DEF TooLong
  <2> HIDE DEF h
  <2>6. Fine(h, b)
    BY <2>4, <2>5 DEF Fine
  <2>7. h \div 16 # 3
    BY <2>2, Zenon
  <2> QED
    BY <2>1, <2>2, <2>3, <2>6, <2>7, PlainUnit, Zenon
<1>3. ASSUME NEW b \in Seq(Byte), ~TooLong(b), ParseConnect(b).type = "CONNECT"
      PROVE  SentAs(UpUnits(strange), Frame(1, 0, b), <<>>)
  <2> DEFINE h == 16
  <2>1. Frame(1, 0, b) = Pack(h, b)
    <3>1. 16 * 1 + 0 = 16
      OBVIOUS
    <3> QED
      BY <3>1, FramePack, Zenon
  <2>2. h \in Byte /\ h \div 16 = 1 /\ 1 # 3
    BY DEF Byte
  <2>3. ParsePacket(h, b) = ParseConnect(b)
    BY <2>2 DEF ParsePacket
  <2> HIDE DEF h
  <2>4. Fine(h, b)
    BY <2>3, <1>3 DEF Fine
  <2>5. h \div 16 # 3
    BY <2>2, Zenon
  <2> QED
    BY <2>1, <2>2, <2>4, <2>5, PlainUnit, Zenon
<1>4. ASSUME NEW h \in Heads \cup BareHeads, NEW b \in Seq(Byte)
      PROVE  SentAs(UpUnits(TRUE), Frame(h \div 16, h % 16, b),
                    IF h \div 16 = 3 THEN <<Refused>> ELSE <<>>)
  <2>1. h \in Byte /\ 16 * (h \div 16) + (h % 16) = h
    BY DEF Heads, BareHeads, Byte
  <2>2. Frame(h \div 16, h % 16, b) = Pack(h, b)
    BY <2>1, FramePack, Zenon
  <2>3. CASE h \div 16 = 3
    <3>1. Refused \in Wanted /\ Refused.type # "message"
      BY DEF Refused, Wanted
    <3>2. Carries(h, b, Refused)
      BY <3>1, Zenon DEF Carries, Clear
    <3> QED
      BY <3>1, <3>2, <2>1, <2>2, <2>3, MessageUnit, Zenon
  <2>4. CASE h \div 16 # 3
    BY <2>1, <2>2, <2>4, PlainUnit, Zenon
  <2> QED
    BY <2>3, <2>4, Zenon
<1> QED
  BY <1>1, <1>2, <1>3, <1>4, Zenon

-----------------------------------------------------------------------------
(* The inductive invariant. *)

Stored == [topic : Seq(Byte), raw : Seq(Byte), want : Wanted]

\* A stored message still is what it stands for.
Kept(m) ==
    Clear(m.want) => /\ m.topic = m.want.topic
                     /\ DecodeEnvelope(m.raw).ok
                     /\ DecodeEnvelope(m.raw).e.payload = m.want.payload

\* What messages of the log l after the first from, up to the first to, stand for.
Pending(l, from, to) == [i \in 1..(to - from) |-> l[from + i].want]

\* The bytes b are the beginning of the whole, and all of it, unless the rest is gone.
Part(b, whole, gone) == \E v \in Seq(Byte) : (gone \/ v = <<>>) /\ b \o v = whole

AllOptions == Options(TRUE) \cup Options(FALSE)
OpeningPacket(o) == IF o.will THEN WillPacket(o) ELSE ConnectPacket(o)

\* The types of the variables.
TypeInv ==
    /\ wire \in [Dirs -> Seq(Byte)]
    /\ dead \subseteq Dirs
    /\ broken \in BOOLEAN /\ greeted \in BOOLEAN /\ odd \in BOOLEAN /\ failed \in BOOLEAN
    /\ phase \in {"new", "connecting", "up", "refused"}
    /\ wants \in Seq(Wanted) /\ log \in Seq(Stored) /\ got \in Seq(Wanted)
    /\ told \in Nat /\ sent \in Nat
    /\ Len(got) <= told /\ told <= Len(log) /\ Len(log) <= MaxLog

\* The store keeps every message as what it stands for.
LogInv == \A n \in 1..Len(log) : Kept(log[n])

\* On the way up are whole packets for what is wanted, as long as they are read.
UpInv == "up" \notin dead => Flow(UpUnits(odd), wire["up"], wants, broken)

\* On the way down are whole packets, for the messages told and not yet got.
DownInv ==
    IF phase = "up"
    THEN Flow(DownUnits, wire["down"], Pending(log, Len(got), told), broken)
    ELSE told = 0 /\ got = <<>>

\* How the exchange opens: CONNECT and nothing else, CONNACK and nothing else.
OpenInv ==
    /\ phase = "new" => ~greeted /\ wire["up"] = <<>>
    /\ phase \in {"new", "connecting"} /\ ~greeted => wire["down"] = <<>>
    /\ phase = "connecting" /\ ~greeted /\ "up" \notin dead =>
          asked \in AllOptions /\ Part(wire["up"], OpeningPacket(asked), broken)
    /\ phase = "connecting" /\ greeted =>
          /\ wire["up"] = <<>>
          /\ \E code \in {0, 4} : /\ Part(wire["down"], ConnAckPacket(code), broken)
                                  /\ code = 0 /\ "up" \in dead => broken \/ odd
    /\ phase \in {"up", "refused"} => greeted

CodecInv ==
    /\ TypeInv /\ LogInv /\ UpInv /\ DownInv /\ OpenInv
    /\ ArrivesAsPublished /\ EndsForCause

\* CONNECT, of the SDK and of a client that leaves a will.
LEMMA OpeningParsed ==
    ASSUME NEW o \in AllOptions
    PROVE  \E b \in Seq(Byte) :
             /\ OpeningPacket(o) = Pack(16, b) /\ OpeningPacket(o) = Frame(1, 0, b)
             /\ ~TooLong(b) /\ ParseConnect(b).type = "CONNECT"
             /\ ParseConnect(b).id = o.id /\ ParseConnect(b).name = o.name
             /\ ParseConnect(b).pass = IF o.name = <<>> /\ ~o.will THEN <<>> ELSE o.pass
<1>1. o.id \in Names /\ o.name \in Names /\ o.pass \in Names /\ o.will \in BOOLEAN
  BY DEF AllOptions, Options
<1>2. Fits(o.id) /\ Fits(o.name) /\ Fits(o.pass)
  <2>1. \A n \in Names : Fits(n)
    BY NamesAssumption, DataAssumption DEF Fits
  <2> QED
    BY <1>1, <2>1, Zenon
<1>3. \A b : Frame(1, 0, b) = Pack(16, b)
  <2>1. 16 * 1 + 0 = 16
    OBVIOUS
  <2> QED
    BY <2>1, FramePack, Zenon
<1>4. CASE o.will
  <2> DEFINE b == WillBody(o)
  <2>1. b \in Seq(Byte) /\ ParseConnect(b)
                = [type |-> "CONNECT", id |-> o.id, name |-> o.name, pass |-> o.pass]
    BY <1>2, WillRead, Zenon
  <2>2. o \in Options(TRUE)
    BY <1>4 DEF AllOptions, Options
  <2>3. ~TooLong(b)
    BY <2>2, NamesAssumption, Zenon
  <2>4. OpeningPacket(o) = Frame(1, 0, b)
    BY <1>4, Zenon DEF OpeningPacket, WillPacket
  <2> HIDE DEF b
  <2>5. /\ ParseConnect(b).type = "CONNECT"
        /\ ParseConnect(b).id = o.id /\ ParseConnect(b).name = o.name
        /\ ParseConnect(b).pass = IF o.name = <<>> /\ ~o.will THEN <<>> ELSE o.pass
    BY <2>1, <1>4
  <2> QED
    BY <2>1, <2>3, <2>4, <2>5, <1>3, Zenon
<1>5. CASE ~o.will
  <2> DEFINE b == ConnectBody(o)
  <2>1. b \in Seq(Byte) /\ ParseConnect(b)
                = [type |-> "CONNECT", id |-> o.id, name |-> o.name,
                   pass |-> IF o.name = <<>> THEN <<>> ELSE o.pass]
    BY <1>2, ConnectRead, Zenon
  <2>2. o \in Options(FALSE)
    BY <1>5 DEF AllOptions, Options
  <2>3. ~TooLong(b)
    BY <2>2, NamesAssumption, Zenon
  <2>4. OpeningPacket(o) = Frame(1, 0, b)
    BY <1>5, Zenon DEF OpeningPacket, ConnectPacket
  <2> HIDE DEF b
  <2>5. /\ ParseConnect(b).type = "CONNECT"
        /\ ParseConnect(b).id = o.id /\ ParseConnect(b).name = o.name
        /\ ParseConnect(b).pass = IF o.name = <<>> /\ ~o.will THEN <<>> ELSE o.pass
    BY <2>1, <1>5
  <2> QED
    BY <2>1, <2>3, <2>4, <2>5, <1>3, Zenon
<1> QED
  BY <1>4, <1>5

\* Nothing is pending between a place and itself.
LEMMA PendingNone ==
    \A l : Pending(l, 0, 0) = <<>>
BY DEF Pending

\* Initially.
LEMMA InitInv ==
    Init => CodecInv
<1> SUFFICES ASSUME Init PROVE CodecInv
  OBVIOUS
<1> USE DEF Init
<1>1. TypeInv /\ LogInv
  <2> DEFINE m == [topic |-> <<1>>, raw |-> LegacyHeader \o <<1>>, want |-> Refused]
  <2>1. m \in Stored /\ ~Clear(m.want)
    <3>1. <<1>> \in Seq(Byte) /\ LegacyHeader \in Seq(Byte)
      BY DEF Byte, LegacyHeader
    <3>2. LegacyHeader \o <<1>> \in Seq(Byte)
      BY <3>1, BytePieces, Zenon
    <3>3. Refused \in Wanted /\ Refused.type # "message"
      BY DEF Wanted, Refused
    <3> QED
      BY <3>1, <3>2, <3>3 DEF Stored, Clear
  <2>2. log = <<>> \/ log = <<m>>
    OBVIOUS
  <2> HIDE DEF m
  <2>3. log \in Seq(Stored) /\ Len(log) <= 1 /\ Len(log) \in Nat
    <3>1. <<>> \in Seq(Stored) /\ Len(<<>>) = 0
      OBVIOUS
    <3>2. <<m>> \in Seq(Stored) /\ Len(<<m>>) = 1
      BY <2>1
    <3>3. log \in Seq(Stored) /\ (Len(log) = 0 \/ Len(log) = 1)
      BY <2>2, <3>1, <3>2, Zenon
    <3>4. \A k : k = 0 \/ k = 1 => k <= 1 /\ k \in Nat
      OBVIOUS
    <3> QED
      BY <3>3, <3>4, Zenon
  <2>4. \A n \in 1..Len(log) : log[n] = m
    BY <2>2
  <2>5. LogInv
    BY <2>1, <2>4, Zenon DEF LogInv, Kept
  <2>6. wire \in [Dirs -> Seq(Byte)]
    BY DEF Dirs
  <2>7. MaxLog \in Nat /\ 1 <= MaxLog
    BY BoundsAssumption
  <2>8. wants \in Seq(Wanted) /\ got \in Seq(Wanted) /\ Len(got) = 0
    OBVIOUS
  <2>9. Len(got) <= told /\ told <= Len(log) /\ Len(log) <= MaxLog
    BY <2>3, <2>7, <2>8
  <2> QED
    BY <2>3, <2>5, <2>6, <2>8, <2>9 DEF TypeInv
<1>2. wire["up"] = <<>> /\ wire["down"] = <<>>
  BY DEF Dirs
<1>3. UpInv
  <2>1. Flow(UpUnits(odd), <<>>, <<>>, broken)
    BY UnitSets, FlowEmpty, Zenon
  <2> QED
    BY <2>1, <1>2, Zenon DEF UpInv
<1>4. DownInv /\ OpenInv
  BY <1>2 DEF DownInv, OpenInv
<1>5. ArrivesAsPublished /\ EndsForCause
  BY DEF ArrivesAsPublished, EndsForCause
<1> QED
  BY <1>1, <1>3, <1>4, <1>5 DEF CodecInv

\* What the broker has before it, when it has a packet.
UpReady ==
    LET q == Incoming("up") IN
    /\ "up" \notin dead
    /\ q.head \in Byte /\ q.body \in Seq(Byte) /\ q.rest \in Seq(Byte)
    /\ IF q.head \div 16 = 3
       THEN /\ Head(wants) \in Wanted /\ Tail(wants) \in Seq(Wanted)
            /\ Carries(q.head, q.body, Head(wants))
            /\ Flow(UpUnits(odd), q.rest, Tail(wants), broken)
       ELSE Flow(UpUnits(odd), q.rest, wants, broken)
    /\ odd \/ Received.type \notin {"refused", "DISCONNECT"}
    /\ phase # "new"
    /\ phase = "connecting" =>
        /\ ~greeted /\ q.rest = <<>>
        /\ Received.type = "CONNECT" /\ Received.id = asked.id /\ Received.name = asked.name
        /\ Received.pass = IF asked.name = <<>> /\ ~asked.will THEN <<>> ELSE asked.pass

\* The types of the two streams, and of the broker's limit.
LEMMA WireTypes ==
    ASSUME TypeInv
    PROVE  wire["up"] \in Seq(Byte) /\ wire["down"] \in Seq(Byte) /\ MaxDigits \in Nat
BY WidthAssumption DEF TypeInv, Dirs

\* The first of what a stream stands for, and the rest.
LEMMA OneAndRest ==
    ASSUME NEW w \in Wanted, NEW y \in Seq(Wanted)
    PROVE  Head(<<w>> \o y) = w /\ Tail(<<w>> \o y) = y
<1> DEFINE s == <<w>> \o y
           t == Tail(s)
<1>1. <<w>> \in Seq(Wanted) /\ Len(<<w>>) = 1 /\ <<w>>[1] = w
  OBVIOUS
<1>2. /\ s \in Seq(Wanted) /\ Len(s) = 1 + Len(y) /\ Len(y) \in Nat /\ s[1] = w
      /\ \A i \in 1..Len(y) : s[1 + i] = y[i]
  BY <1>1, TwoPieces
<1> HIDE DEF s
<1>3. s # <<>>
  BY <1>2
<1>4. Head(s) = s[1] /\ t \in Seq(Wanted) /\ Len(t) = Len(s) - 1
  BY <1>2, <1>3, HeadTailProperties
<1>5. \A i \in 1..Len(t) : t[i] = y[i]
  <2> TAKE i \in 1..Len(t)
  <2>1. i \in 1..Len(y)
    BY <1>2, <1>4
  <2>2. t[i] = s[i + 1]
    BY <1>2, <1>3, <1>4, HeadTailProperties
  <2>3. s[i + 1] = y[i]
    BY <2>1, <1>2
  <2> QED
    BY <2>2, <2>3
<1> HIDE DEF t
<1>6. Len(t) = Len(y)
  BY <1>2, <1>4
<1>7. t = y
  BY <1>4, <1>5, <1>6, SeqEqual
<1> QED
  BY <1>2, <1>4, <1>7 DEF s, t

\* In an invariant state it has that.
LEMMA UpTaken ==
    ASSUME CodecInv, HasPacket("up")
    PROVE  UpReady
<1> DEFINE q == Incoming("up")
           u == wire["up"]
           F == UpUnits(odd)
<1>1. TypeInv /\ UpInv /\ OpenInv
  BY DEF CodecInv
<1>2. u \in Seq(Byte) /\ MaxDigits \in Nat /\ wants \in Seq(Wanted)
  BY <1>1, WireTypes DEF TypeInv
<1>3. "up" \notin dead /\ q.is = "whole" /\ q = ReadFrame(u, MaxDigits)
  BY DEF HasPacket, Reading, Incoming
<1>4. F \in SUBSET Units
  BY UnitSets, Zenon
<1>5. Flow(F, u, wants, broken)
  BY <1>1, <1>3, Zenon DEF UpInv
<1>6. Taken(F, u, wants, broken, MaxDigits)
  <2> HIDE DEF F, u
  <2> QED
    BY <1>2, <1>4, <1>5, FlowTake, Zenon
<1> HIDE DEF q, u, F
<1>7. PICK x \in F, y \in Seq(Wanted) :
        /\ q.rest \in Seq(Byte) /\ q.head = x.head /\ q.body = x.body
        /\ wants = x.says \o y /\ Flow(F, q.rest, y, broken)
  BY <1>3, <1>6, Zenon DEF Taken
<1>8. q.head \in Byte /\ q.body \in Seq(Byte) /\ q.rest \in Seq(Byte)
  <2>1. x \in Units
    BY <1>4
  <2>2. x.head \in Byte /\ x.body \in Seq(Byte)
    BY <2>1 DEF Units
  <2> QED
    BY <2>2, <1>7, Zenon
<1>9. IF q.head \div 16 = 3
      THEN /\ Head(wants) \in Wanted /\ Tail(wants) \in Seq(Wanted)
           /\ Carries(q.head, q.body, Head(wants))
           /\ Flow(F, q.rest, Tail(wants), broken)
      ELSE Flow(F, q.rest, wants, broken)
  <2>1. CASE q.head \div 16 = 3
    <3>1. PICK w \in Wanted : x.says = <<w>> /\ Carries(q.head, q.body, w)
      <4>1. x.head \div 16 = 3
        BY <2>1, <1>7, Zenon
      <4>2. \E w \in Wanted : x.says = <<w>> /\ Carries(x.head, x.body, w)
        BY <4>1, Zenon DEF F, UpUnits
      <4> QED
        BY <4>2, <1>7, Zenon
    <3>2. Head(wants) = w /\ Tail(wants) = y
      <4>1. wants = <<w>> \o y
        BY <3>1, <1>7, Zenon
      <4>2. Head(<<w>> \o y) = w /\ Tail(<<w>> \o y) = y
        BY OneAndRest
      <4> QED
        BY <4>1, <4>2, Zenon
    <3> QED
      BY <2>1, <3>1, <3>2, <1>7, Zenon
  <2>2. CASE q.head \div 16 # 3
    <3>1. x.says = <<>>
      <4>1. x.head \div 16 # 3
        BY <2>2, <1>7, Zenon
      <4> QED
        BY <4>1, Zenon DEF F, UpUnits
    <3>2. wants = y
      BY <3>1, <1>7, WantedPieces, Zenon
    <3> QED
      BY <2>2, <3>2, <1>7, Zenon
  <2> QED
    BY <2>1, <2>2, Zenon
<1>10. odd \/ Received.type \notin {"refused", "DISCONNECT"}
  <2>1. odd \/ Fine(x.head, x.body)
    BY Zenon DEF F, UpUnits
  <2>2. Received = ParsePacket(q.head, q.body)
    BY Zenon DEF Received, q
  <2> QED
    BY <2>1, <2>2, <1>7, Zenon DEF Fine
<1>11. u # <<>>
  <2>1. ReadFrame(<<>>, MaxDigits).is = "short"
    BY <1>2, ReadNothing
  <2>2. "short" # "whole"
    OBVIOUS
  <2> QED
    BY <2>1, <2>2, <1>3, Zenon
<1>12. phase # "new" /\ ~(phase = "connecting" /\ greeted)
  BY <1>1, <1>11 DEF OpenInv, u
<1>13. ASSUME phase = "connecting"
       PROVE /\ ~greeted /\ q.rest = <<>>
             /\ Received.type = "CONNECT" /\ Received.id = asked.id /\ Received.name = asked.name
             /\ Received.pass = IF asked.name = <<>> /\ ~asked.will THEN <<>> ELSE asked.pass
  <2>1. ~greeted
    BY <1>12, <1>13
  <2>2. asked \in AllOptions /\ Part(u, OpeningPacket(asked), broken)
    BY <2>1, <1>1, <1>3, <1>13 DEF OpenInv, u
  <2>3. PICK v \in Seq(Byte) : u \o v = OpeningPacket(asked)
    BY <2>2, Zenon DEF Part
  <2>4. PICK b \in Seq(Byte) :
             /\ OpeningPacket(asked) = Pack(16, b)
             /\ ParseConnect(b).type = "CONNECT"
             /\ ParseConnect(b).id = asked.id /\ ParseConnect(b).name = asked.name
             /\ ParseConnect(b).pass = IF asked.name = <<>> /\ ~asked.will THEN <<>> ELSE asked.pass
    BY <2>2, OpeningParsed, Zenon
  <2> DEFINE h == 16
  <2>5. h \in Byte /\ h \div 16 = 1
    BY DEF Byte
  <2>6. u \o v = Pack(h, b) \o <<>> /\ <<>> \in Seq(Byte)
    <3>1. Pack(h, b) \in Seq(Byte)
      BY <2>5, PackPieces
    <3>2. Pack(h, b) = Pack(h, b) \o <<>> /\ <<>> \in Seq(Byte)
      BY <3>1, ByteAssoc, Zenon
    <3> QED
      BY <3>2, <2>3, <2>4, Zenon
  <2>7. ParsePacket(h, b) = ParseConnect(b)
    BY <2>5 DEF ParsePacket
  <2> HIDE DEF h
  <2>8. PacketRead(u, v, h, b, <<>>, MaxDigits)
    BY <2>5, <2>6, <1>2, ReadPack, Zenon
  <2>9. q.head = h /\ q.body = b /\ q.rest \o v = <<>> /\ q.rest \in Seq(Byte)
    BY <2>8, <1>3, Zenon DEF PacketRead
  <2>10. q.rest = <<>>
    BY <2>9, ConcatSimplifications
  <2>11. Received = ParseConnect(b)
    BY <2>7, <2>9, Zenon DEF Received, q
  <2> QED
    BY <2>1, <2>4, <2>10, <2>11, Zenon
<1> QED
  BY <1>3, <1>8, <1>9, <1>10, <1>12, <1>13, Zenon DEF UpReady, q, F

\* A packet is written at the end of a flow.
LEMMA FlowSent ==
    ASSUME NEW G \in SUBSET Units, NEW F \in SUBSET G, NEW b \in Seq(Byte),
           NEW w \in Seq(Wanted), NEW packet, NEW ws,
           Flow(F, b, w, FALSE), SentAs(G, packet, ws)
    PROVE  Flow(G, b \o packet, w \o ws, FALSE)
<1>1. PICK u \in G : packet = Pack(u.head, u.body) /\ u.says = ws
  BY Zenon DEF SentAs
<1>2. Flow(G, b, w, FALSE)
  BY FlowMore, Zenon
<1>3. Flow(G, b \o Pack(u.head, u.body), w \o u.says, FALSE)
  BY <1>2, FlowSend, Zenon
<1> QED
  BY <1>1, <1>3, Zenon

\* What is sent is bytes, for messages.
LEMMA SentTypes ==
    ASSUME NEW F \in SUBSET Units, NEW packet, NEW ws, SentAs(F, packet, ws)
    PROVE  packet \in Seq(Byte) /\ ws \in Seq(Wanted)
<1>1. PICK u \in F : packet = Pack(u.head, u.body) /\ u.says = ws
  BY Zenon DEF SentAs
<1>2. u \in Units /\ <<>> \in Seq(Byte) /\ <<>> \in Seq(Wanted)
  BY <1>1
<1>3. Pack(u.head, u.body) \in Seq(Byte) /\ u.says \in Seq(Wanted)
  BY <1>2, UnitTypes
<1> QED
  BY <1>1, <1>3, Zenon

\* The client writes the packet for ws; strange: something odd was sent, now or before.
LEMMA UpSend ==
    ASSUME CodecInv, ~broken, NEW packet, NEW ws, NEW strange \in BOOLEAN, odd => strange,
           SentAs(UpUnits(strange), packet, ws), wire' = [wire EXCEPT !["up"] = @ \o packet],
           dead' = dead, broken' = broken, odd' = strange, wants' = wants \o ws
    PROVE  /\ wire' \in [Dirs -> Seq(Byte)] /\ wants' \in Seq(Wanted) /\ UpInv'
           /\ wire'["down"] = wire["down"] /\ wire'["up"] = wire["up"] \o packet
<1>1. TypeInv /\ UpInv
  BY DEF CodecInv
<1>2. wire["up"] \in Seq(Byte) /\ wants \in Seq(Wanted) /\ broken = FALSE
  BY <1>1, WireTypes DEF TypeInv
<1>3. UpUnits(strange) \in SUBSET Units /\ UpUnits(odd) \in SUBSET UpUnits(strange)
  BY UnitSets, Zenon
<1>4. packet \in Seq(Byte) /\ ws \in Seq(Wanted)
  BY <1>3, SentTypes, Zenon
<1>5. wire["up"] \o packet \in Seq(Byte)
  BY <1>2, <1>4, BytePieces, Zenon
<1>6. wants \o ws \in Seq(Wanted)
  BY <1>2, <1>4, WantedPieces, Zenon
<1>7. wire'["down"] = wire["down"] /\ wire'["up"] = wire["up"] \o packet
  BY <1>1 DEF TypeInv, Dirs
<1>8. wire' \in [Dirs -> Seq(Byte)]
  BY <1>1, <1>5 DEF TypeInv, Dirs
<1>9. ASSUME "up" \notin dead
      PROVE  Flow(UpUnits(strange), wire["up"] \o packet, wants \o ws, FALSE)
  <2>1. Flow(UpUnits(odd), wire["up"], wants, FALSE)
    BY <1>1, <1>2, <1>9, Zenon DEF UpInv
  <2> QED
    BY <2>1, <1>2, <1>3, FlowSent, Zenon
<1>10. UpInv'
  <2>1. UpInv' = ("up" \notin dead => Flow(UpUnits(strange), wire'["up"], wants', broken'))
    BY DEF UpInv
  <2> QED
    BY <2>1, <1>2, <1>7, <1>9, Zenon
<1> QED
  BY <1>6, <1>7, <1>8, <1>10, Zenon

\* A message m is added to the store.
LEMMA LogGrows ==
    ASSUME CodecInv, NEW m \in Stored, Kept(m), Len(log) < MaxLog, log' = Append(log, m),
           told' = told, got' = got
    PROVE  /\ log' \in Seq(Stored) /\ told' <= Len(log') /\ Len(log') <= MaxLog
           /\ LogInv' /\ ArrivesAsPublished'
           /\ Pending(log', Len(got'), told') = Pending(log, Len(got), told)
<1>1. TypeInv /\ LogInv /\ ArrivesAsPublished
  BY DEF CodecInv
<1> DEFINE L == Len(log)
           G == Len(got)
<1>2. /\ log \in Seq(Stored) /\ L \in Nat /\ G \in Nat /\ told \in Nat
      /\ G <= told /\ told <= L /\ MaxLog \in Nat /\ L < MaxLog /\ got \in Seq(Wanted)
  BY <1>1, BoundsAssumption DEF TypeInv
<1>3. /\ log' \in Seq(Stored) /\ Len(log') = L + 1
      /\ \A i \in 1..L : log'[i] = log[i]
      /\ log'[L + 1] = m
  BY <1>2
<1> HIDE DEF L, G
<1>4. told' <= Len(log') /\ Len(log') <= MaxLog
  BY <1>2, <1>3
<1>5. LogInv'
  <2>1. ASSUME NEW n \in 1..(L + 1) PROVE Kept(log'[n])
    <3>1. CASE n = L + 1
      BY <3>1, <1>3, Zenon
    <3>2. CASE n # L + 1
      <4>1. n \in 1..L
        BY <3>2, <1>2
      <4>2. Kept(log[n])
        BY <4>1, <1>1, Zenon DEF LogInv, L
      <4> QED
        BY <4>1, <4>2, <1>3, Zenon
    <3> QED
      BY <3>1, <3>2
  <2> QED
    BY <2>1, <1>3, Zenon DEF LogInv
<1>6. ArrivesAsPublished'
  <2>1. \A n \in DOMAIN got : log'[n] = log[n]
    <3>1. DOMAIN got = 1..G
      BY <1>2 DEF G
    <3>2. \A n \in 1..G : n \in 1..L
      BY <1>2
    <3> QED
      BY <3>1, <3>2, <1>3, Zenon
  <2> QED
    BY <2>1, <1>1, Zenon DEF ArrivesAsPublished
<1>7. Pending(log', G, told) = Pending(log, G, told)
  <2>1. \A i \in 1..(told - G) : G + i \in 1..L
    BY <1>2
  <2>2. \A i \in 1..(told - G) : log'[G + i].want = log[G + i].want
    BY <2>1, <1>3, Zenon
  <2> QED
    BY <2>2, Zenon DEF Pending
<1> QED
  BY <1>3, <1>4, <1>5, <1>6, <1>7, Zenon DEF G


-----------------------------------------------------------------------------
(* The steps. *)

\* The invariant is about the variables only, and sent is only typed.
LEMMA StoreSame ==
    ASSUME CodecInv, log' = log, told' = told, got' = got
    PROVE  /\ LogInv' /\ ArrivesAsPublished'
           /\ log' \in Seq(Stored) /\ got' \in Seq(Wanted) /\ told' \in Nat
           /\ Len(got') <= told' /\ told' <= Len(log') /\ Len(log') <= MaxLog
           /\ Pending(log', Len(got'), told') = Pending(log, Len(got), told)
<1>1. TypeInv /\ LogInv /\ ArrivesAsPublished
  BY DEF CodecInv
<1>2. LogInv' /\ ArrivesAsPublished'
  BY <1>1, Zenon DEF LogInv, ArrivesAsPublished
<1> QED
  BY <1>1, <1>2, Zenon DEF TypeInv

\* A client that is up writes a packet: it goes to the end of the flow up.
LEMMA SendStep ==
    ASSUME CodecInv, phase = "up", ~broken, NEW packet, NEW ws, NEW strange \in BOOLEAN,
           odd => strange, SentAs(UpUnits(strange), packet, ws), Write("up", packet),
           odd' = strange, wants' = wants \o ws, sent' \in Nat,
           UNCHANGED <<dead, broken, phase, asked, greeted, log, told, got, failed>>
    PROVE  CodecInv'
<1>1. TypeInv /\ LogInv /\ DownInv /\ OpenInv /\ ArrivesAsPublished /\ EndsForCause
  BY DEF CodecInv
<1>2. /\ dead' = dead /\ broken' = broken /\ phase' = phase /\ greeted' = greeted
      /\ log' = log /\ told' = told /\ got' = got /\ failed' = failed
      /\ wire' = [wire EXCEPT !["up"] = @ \o packet]
  BY DEF Write
<1>3. /\ wire' \in [Dirs -> Seq(Byte)] /\ wants' \in Seq(Wanted) /\ UpInv'
      /\ wire'["down"] = wire["down"]
  BY <1>2, UpSend
<1>4. /\ LogInv' /\ ArrivesAsPublished'
      /\ log' \in Seq(Stored) /\ got' \in Seq(Wanted) /\ told' \in Nat
      /\ Len(got') <= told' /\ told' <= Len(log') /\ Len(log') <= MaxLog
      /\ Pending(log', Len(got'), told') = Pending(log, Len(got), told)
  BY <1>2, StoreSame
<1>5. TypeInv'
  BY <1>1, <1>2, <1>3, <1>4, Zenon DEF TypeInv
<1>6. DownInv'
  BY <1>1, <1>2, <1>3, <1>4, Zenon DEF DownInv
<1>7. OpenInv'
  BY <1>1, <1>2 DEF OpenInv
<1>8. EndsForCause'
  BY <1>1, <1>2 DEF EndsForCause
<1> QED
  BY <1>3, <1>4, <1>5, <1>6, <1>7, <1>8, Zenon DEF CodecInv

\* An envelope holds its payload.
LEMMA EnvelopeHolds ==
    ASSUME NEW e \in Envelope, ~Overlong(e.props)
    PROVE  EncodeEnvelope(e) \in Seq(Byte) /\ Holds(EncodeEnvelope(e), e.payload)
<1>1. e \in AnyEnvelope
  BY DEF Envelope
<1>2. EncodeEnvelope(e) \in Seq(Byte)
  BY <1>1, EnvelopeBytes
<1> DEFINE d == DecodeEnvelope(EncodeEnvelope(e))
<1>3. d.ok /\ d.e.props = e.props /\ d.e.payload = e.payload
  BY DecodeEncode
<1> HIDE DEF d
<1>4. Holds(EncodeEnvelope(e), e.payload)
  BY <1>3, Zenon DEF Holds, d
<1> QED
  BY <1>2, <1>4

\* The envelopes of the SDK, and those with user properties.
LEMMA ClientEnvelopes ==
    ASSUME NEW payload \in Seq(Byte), sent \in Nat
    PROVE  LET n == NewPublish(50 + (sent % 50), payload)
               e == [n EXCEPT !.props = <<1>>]
           IN /\ EncodeEnvelope(n) \in Seq(Byte) /\ Holds(EncodeEnvelope(n), payload)
              /\ EncodeEnvelope(e) \in Seq(Byte) /\ Holds(EncodeEnvelope(e), payload)
<1> DEFINE k == 50 + (sent % 50)
           n == NewPublish(k, payload)
           e == [n EXCEPT !.props = <<1>>]
<1>1. k \in Byte /\ k # 0
  <2>1. \A i \in Nat : 50 + (i % 50) \in 0..255 /\ 50 + (i % 50) # 0
    OBVIOUS
  <2> QED
    BY <2>1, Zenon DEF Byte
<1> HIDE DEF k
<1>2. n \in Envelope /\ n.props = <<>> /\ n.payload = payload /\ ~Overlong(<<>>)
  BY <1>1, NewPublishType
<1> HIDE DEF n
<1>3. e \in Envelope /\ e.props = <<1>> /\ e.payload = payload
  <2>1. <<1>> \in Seq(Byte)
    BY DEF Byte
  <2> QED
    BY <1>2, <2>1 DEF Envelope, AnyEnvelope
<1>4. ~Overlong(<<1>>)
  <2>1. LenBase * LenBase > 1 /\ Len(<<1>>) = 1 /\ LenBase * LenBase \in Nat
    <3>1. LenBase \in Nat /\ LenBase >= 2
      BY WidthAssumption
    <3>2. \A l \in Nat : l >= 2 => l * l > 1 /\ l * l \in Nat
      OBVIOUS
    <3> QED
      BY <3>1, <3>2
  <2> QED
    BY <2>1 DEF Overlong
<1> HIDE DEF e
<1>5. EncodeEnvelope(n) \in Seq(Byte) /\ Holds(EncodeEnvelope(n), n.payload)
  BY <1>2, EnvelopeHolds
<1>6. EncodeEnvelope(e) \in Seq(Byte) /\ Holds(EncodeEnvelope(e), e.payload)
  BY <1>3, <1>4, EnvelopeHolds
<1> QED
  BY <1>2, <1>3, <1>5, <1>6, Zenon DEF k, n, e

\* Publish, of the SDK and of other clients.
LEMMA PublishStep ==
    ASSUME CodecInv, NEW topic \in Topics, NEW payload \in Payloads,
           \/ \E qos \in {0, 1} : Publish(topic, payload, qos)
           \/ PublishPlain(topic, payload) \/ PublishProps(topic, payload)
    PROVE  CodecInv'
<1>1. sent \in Nat /\ odd \in BOOLEAN /\ wants \in Seq(Wanted)
  BY DEF CodecInv, TypeInv
<1>2. topic \in Seq(Byte) /\ payload \in Seq(Byte)
  BY DataAssumption
<1> DEFINE w == Want(topic, payload)
           n == NewPublish(50 + (sent % 50), payload)
           e == [n EXCEPT !.props = <<1>>]
<1>3. /\ EncodeEnvelope(n) \in Seq(Byte) /\ Holds(EncodeEnvelope(n), payload)
      /\ EncodeEnvelope(e) \in Seq(Byte) /\ Holds(EncodeEnvelope(e), payload)
  BY <1>1, <1>2, ClientEnvelopes
<1>4. Append(wants, w) = wants \o <<w>>
  <2>1. w \in Wanted
    BY <1>2 DEF Want, Wanted
  <2> HIDE DEF w
  <2> QED
    BY <1>1, <2>1, AppendIsConcat
<1> HIDE DEF w, n, e
<1>5. ASSUME NEW data \in Seq(Byte), Holds(data, payload), NEW qos \in {0, 1}, NEW id \in Nat,
             NEW o \in BOOLEAN,
             TooLong(PublishBody(topic, qos, id, data)) \/ Overlong(topic) => o,
             Send(PublishPacket(topic, qos, id, FALSE, data), o), wants' = Append(wants, w)
      PROVE  CodecInv'
  <2> DEFINE strange == odd \/ o
             packet == PublishPacket(topic, qos, id, FALSE, data)
  <2>1. strange \in BOOLEAN /\ (odd => strange)
    BY <1>1, <1>5
  <2>2. strange \/ (~TooLong(PublishBody(topic, qos, id, data)) /\ ~Overlong(topic))
    BY <1>5, Zenon
  <2>3. /\ phase = "up" /\ ~broken /\ Write("up", packet) /\ odd' = strange
        /\ sent' = sent + 1
        /\ UNCHANGED <<dead, broken, phase, asked, greeted, log, told, got, failed>>
    BY <1>5, Zenon DEF Send
  <2>4. sent' \in Nat
    BY <1>1, <2>3
  <2>5. wants' = wants \o <<w>>
    BY <1>4, <1>5
  <2> HIDE DEF strange
  <2>6. SentAs(UpUnits(strange), packet, <<w>>)
    BY <2>2, <1>2, <1>5, PublishSent, Zenon DEF w
  <2> HIDE DEF packet
  <2> QED
    BY <2>1, <2>3, <2>4, <2>5, <2>6, SendStep
<1>6. 0 \in {0, 1} /\ 1 \in {0, 1} /\ 0 \in Nat /\ 1 \in Nat /\ 2 \in Nat /\ FALSE \in BOOLEAN
  OBVIOUS
<1>7. CASE \E qos \in {0, 1} : Publish(topic, payload, qos)
  <2>1. PICK qos \in {0, 1} : Publish(topic, payload, qos)
    BY <1>7
  <2> DEFINE data == EncodeEnvelope(n)
             o == TooLong(PublishBody(topic, qos, NextPID, data)) \/ Overlong(topic)
  <2>2. /\ o \in BOOLEAN
        /\ TooLong(PublishBody(topic, qos, NextPID, data)) \/ Overlong(topic) => o
    BY DEF TooLong, Overlong
  <2>4. NextPID \in Nat
    <3>1. LenBase * LenBase - 1 \in Nat \ {0}
      BY WidthAssumption
    <3>2. \A m \in Nat, b \in Nat \ {0} : m # 0 => 1 + ((m - 1) % b) \in Nat
      OBVIOUS
    <3> QED
      BY <3>1, <3>2, <1>1 DEF NextPID
  <2>3. Send(PublishPacket(topic, qos, NextPID, FALSE, data), o) /\ wants' = Append(wants, w)
    BY <2>1, Zenon DEF Publish, n, w
  <2> HIDE DEF o
  <2> QED
    BY <2>2, <2>3, <2>4, <1>3, <1>5, <1>6, Zenon
<1>8. CASE PublishPlain(topic, payload)
  <2>1. /\ ~Overlong(topic) /\ ~TooLong(PublishBody(topic, 0, 0, payload))
        /\ ~DecodeEnvelope(payload).ok
        /\ Send(PublishPacket(topic, 0, 0, FALSE, payload), FALSE) /\ wants' = Append(wants, w)
    BY <1>8, Zenon DEF PublishPlain, w
  <2>2. Holds(payload, payload)
    BY <2>1, Zenon DEF Holds
  <2> QED
    BY <2>1, <2>2, <1>2, <1>5, <1>6, Zenon
<1>9. CASE PublishProps(topic, payload)
  <2>1. /\ ~Overlong(topic) /\ ~TooLong(PublishBody(topic, 1, 2, EncodeEnvelope(e)))
        /\ Send(PublishPacket(topic, 1, 2, FALSE, EncodeEnvelope(e)), FALSE)
        /\ wants' = Append(wants, w)
    BY <1>9, Zenon DEF PublishProps, n, e, w
  <2> QED
    BY <2>1, <1>3, <1>5, <1>6, Zenon
<1> QED
  BY <1>7, <1>8, <1>9, Zenon

\* SUBSCRIBE and PUBACK of the SDK, any packet of another client.
LEMMA OtherSendStep ==
    ASSUME CodecInv,
           \/ \E t \in Topics : Subscribe(t, 1)
           \/ SendPubAck(1)
           \/ SendOther(Heads, Bodies)
           \/ SendOther(BareHeads, {<<>>})
    PROVE  CodecInv'
<1>1. sent \in Nat /\ odd \in BOOLEAN /\ wants \in Seq(Wanted)
  BY DEF CodecInv, TypeInv
<1>2. wants \o <<>> = wants
  BY <1>1, ConcatSimplifications
<1>3. ASSUME NEW packet, NEW o \in BOOLEAN, SentAs(UpUnits(odd \/ o), packet, <<>>),
             Send(packet, o), wants' = wants
      PROVE  CodecInv'
  <2> DEFINE strange == odd \/ o
  <2>1. strange \in BOOLEAN /\ (odd => strange)
    BY <1>1, <1>3
  <2>2. /\ phase = "up" /\ ~broken /\ Write("up", packet) /\ odd' = strange
        /\ sent' = sent + 1
        /\ UNCHANGED <<dead, broken, phase, asked, greeted, log, told, got, failed>>
    BY <1>3, Zenon DEF Send
  <2>3. sent' \in Nat
    BY <1>1, <2>2
  <2>4. wants' = wants \o <<>>
    BY <1>2, <1>3
  <2>5. SentAs(UpUnits(strange), packet, <<>>)
    BY <1>3
  <2> HIDE DEF strange
  <2> QED
    BY <2>1, <2>2, <2>3, <2>4, <2>5, SendStep
<1>4. ASSUME NEW t \in Topics, Subscribe(t, 1) PROVE CodecInv'
  <2>1. t \in Seq(Byte) /\ 1 \in {0, 1}
    BY DataAssumption
  <2> DEFINE o == TooLong(SubscribeBody(t, 1)) \/ Overlong(t)
             packet == SubscribePacket(t, 1)
  <2>2. o \in BOOLEAN
    BY DEF TooLong, Overlong
  <2>3. Send(packet, o) /\ wants' = wants
    BY <1>4, Zenon DEF Subscribe
  <2>4. SentAs(UpUnits(odd \/ o), packet, <<>>)
    BY <2>1, OthersSent, Zenon
  <2> HIDE DEF o, packet
  <2> QED
    BY <2>2, <2>3, <2>4, <1>3, Zenon
<1>5. ASSUME SendPubAck(1) PROVE CodecInv'
  <2>1. Send(PubAckPacket(1), FALSE) /\ wants' = wants /\ FALSE \in BOOLEAN
    BY <1>5, Zenon DEF SendPubAck
  <2>2. SentAs(UpUnits(odd \/ FALSE), PubAckPacket(1), <<>>)
    BY OthersSent, Zenon
  <2> QED
    BY <2>1, <2>2, <1>3, Zenon
<1>6. ASSUME NEW heads, heads \subseteq Heads \cup BareHeads,
             NEW bodies, bodies \subseteq Seq(Byte), SendOther(heads, bodies)
      PROVE  CodecInv'
  <2>0. PICK h \in heads, b \in bodies :
            /\ phase = "up" /\ ~broken /\ odd' = TRUE /\ sent' = MaxSent
            /\ Write("up", Frame(h \div 16, h % 16, b))
            /\ wants' = IF h \div 16 = 3 THEN Append(wants, Refused) ELSE wants
            /\ UNCHANGED <<dead, broken, phase, asked, greeted, log, told, got, failed>>
    BY <1>6, Zenon DEF SendOther
  <2> DEFINE packet == Frame(h \div 16, h % 16, b)
             ws == IF h \div 16 = 3 THEN <<Refused>> ELSE <<>>
  <2>1. /\ phase = "up" /\ ~broken /\ Write("up", packet) /\ odd' = TRUE /\ sent' = MaxSent
        /\ wants' = IF h \div 16 = 3 THEN Append(wants, Refused) ELSE wants
        /\ UNCHANGED <<dead, broken, phase, asked, greeted, log, told, got, failed>>
    BY <2>0
  <2>2. sent' \in Nat /\ TRUE \in BOOLEAN
    BY <2>1, BoundsAssumption
  <2>3. wants' = wants \o ws
    <3>1. Append(wants, Refused) = wants \o <<Refused>>
      <4>1. Refused \in Wanted
        BY DEF Refused, Wanted
      <4> QED
        BY <4>1, <1>1, AppendIsConcat
    <3> QED
      BY <3>1, <2>1, <1>2, Zenon
  <2>4. SentAs(UpUnits(TRUE), packet, ws)
    BY <1>6, OthersSent, Zenon
  <2> HIDE DEF packet, ws
  <2> QED
    BY <2>1, <2>2, <2>3, <2>4, SendStep
<1>7. /\ Bodies \subseteq Seq(Byte) /\ {<<>>} \subseteq Seq(Byte)
      /\ Heads \subseteq Heads \cup BareHeads /\ BareHeads \subseteq Heads \cup BareHeads
  BY DataAssumption
<1> QED
  BY <1>4, <1>5, <1>6, <1>7, Zenon

\* The beginning of a part is a part, once the rest is gone.
LEMMA PartCut ==
    ASSUME NEW b \in Seq(Byte), NEW c \in Seq(Byte), NEW whole, NEW gone,
           Part(b \o c, whole, gone)
    PROVE  Part(b, whole, TRUE)
<1>1. PICK v \in Seq(Byte) : (b \o c) \o v = whole
  BY Zenon DEF Part
<1>2. (b \o c) \o v = b \o (c \o v)
  BY ByteAssoc, Zenon
<1>3. c \o v \in Seq(Byte)
  BY BytePieces, Zenon
<1> QED
  BY <1>1, <1>2, <1>3, Zenon DEF Part

\* Connect, and another client's CONNECT.
LEMMA ConnectStep ==
    ASSUME CodecInv, NEW o \in AllOptions, Connect(o, OpeningPacket(o))
    PROVE  CodecInv'
<1>1. TypeInv /\ LogInv /\ DownInv /\ OpenInv /\ ArrivesAsPublished /\ EndsForCause
  BY DEF CodecInv
<1> DEFINE packet == OpeningPacket(o)
<1>2. /\ phase = "new" /\ ~broken /\ wire' = [wire EXCEPT !["up"] = @ \o packet]
      /\ phase' = "connecting" /\ asked' = o
      /\ dead' = dead /\ broken' = broken /\ greeted' = greeted /\ wants' = wants
      /\ log' = log /\ told' = told /\ got' = got /\ sent' = sent /\ odd' = odd /\ failed' = failed
  BY DEF Connect, Write
<1>3. SentAs(UpUnits(odd), packet, <<>>)
  <2>1. PICK b \in Seq(Byte) : /\ packet = Frame(1, 0, b)
                               /\ ~TooLong(b) /\ ParseConnect(b).type = "CONNECT"
    BY OpeningParsed, Zenon
  <2> QED
    BY <2>1, OthersSent, Zenon
<1> HIDE DEF packet
<1>4. wants' = wants \o <<>> /\ odd \in BOOLEAN
  <2>1. wants \in Seq(Wanted) /\ odd \in BOOLEAN
    BY <1>1 DEF TypeInv
  <2> QED
    BY <1>2, <2>1, ConcatSimplifications
<1>5. /\ wire' \in [Dirs -> Seq(Byte)] /\ wants' \in Seq(Wanted) /\ UpInv'
      /\ wire'["down"] = wire["down"] /\ wire'["up"] = wire["up"] \o packet
  BY <1>2, <1>3, <1>4, UpSend
<1>6. ~greeted /\ wire["up"] = <<>> /\ wire["down"] = <<>>
  BY <1>1, <1>2 DEF OpenInv
<1>7. Part(wire'["up"], packet, broken')
  <2>1. packet \in Seq(Byte)
    BY <1>3, SentTypes, UnitSets, Zenon
  <2>2. packet \o <<>> = packet /\ <<>> \o packet = packet /\ <<>> \in Seq(Byte)
    BY <2>1, ConcatSimplifications
  <2> QED
    BY <2>2, <1>5, <1>6, Zenon DEF Part
<1>8. /\ LogInv' /\ ArrivesAsPublished'
      /\ log' \in Seq(Stored) /\ got' \in Seq(Wanted) /\ told' \in Nat
      /\ Len(got') <= told' /\ told' <= Len(log') /\ Len(log') <= MaxLog
  BY <1>2, StoreSame
<1>9. TypeInv'
  BY <1>1, <1>2, <1>5, <1>8 DEF TypeInv
<1>10. DownInv'
  BY <1>1, <1>2 DEF DownInv
<1>11. OpenInv'
  <2>1. asked' \in AllOptions /\ Part(wire'["up"], OpeningPacket(asked'), broken')
    BY <1>2, <1>7, Zenon DEF packet
  <2> QED
    BY <2>1, <1>2, <1>5, <1>6 DEF OpenInv
<1>12. EndsForCause'
  BY <1>1, <1>2 DEF EndsForCause
<1> QED
  BY <1>5, <1>8, <1>9, <1>10, <1>11, <1>12, Zenon DEF CodecInv

\* CONNACK.
LEMMA ReadConnAckStep ==
    ASSUME CodecInv, ReadConnAck
    PROVE  CodecInv'
<1>1. TypeInv /\ LogInv /\ UpInv /\ DownInv /\ OpenInv /\ ArrivesAsPublished /\ EndsForCause
  BY DEF CodecInv
<1> DEFINE down == wire["down"]
<1>2. /\ phase = "connecting" /\ Len(down) >= 4
      /\ wire' = [wire EXCEPT !["down"] = SubSeq(@, 5, Len(@))]
      /\ phase' = IF down[4] = 0 THEN "up" ELSE "refused"
      /\ dead' = dead /\ broken' = broken /\ greeted' = greeted /\ wants' = wants
      /\ log' = log /\ told' = told /\ got' = got /\ sent' = sent /\ odd' = odd /\ failed' = failed
  BY DEF ReadConnAck
<1>3. down \in Seq(Byte)
  BY <1>1, WireTypes
<1>4. greeted
  BY <1>1, <1>2 DEF OpenInv
<1>5. PICK code \in {0, 4} : /\ Part(down, ConnAckPacket(code), broken)
                             /\ code = 0 /\ "up" \in dead => broken \/ odd
  BY <1>1, <1>2, <1>4 DEF OpenInv
<1>6. PICK v \in Seq(Byte) : down \o v = ConnAckPacket(code)
  BY <1>5, Zenon DEF Part
<1> HIDE DEF down
<1>7. Len(down) = 4 /\ down[4] = code
  <2>1. Len(down \o v) = 4 /\ (down \o v)[4] = code
    BY <1>6 DEF ConnAckPacket
  <2>2. Len(down \o v) = Len(down) + Len(v) /\ Len(down) \in Nat /\ Len(v) \in Nat
    BY <1>3
  <2>3. Len(down) = 4
    <3>1. \A m, n \in Nat : m >= 4 /\ m + n = 4 => m = 4
      OBVIOUS
    <3> QED
      BY <1>2, <2>1, <2>2, <3>1, Zenon
  <2>4. (down \o v)[4] = down[4]
    <3>1. \A i \in 1..Len(down) : (down \o v)[i] = down[i]
      BY <1>3, TwoPieces
    <3>2. 4 \in 1..4
      OBVIOUS
    <3> QED
      BY <2>3, <3>1, <3>2, Zenon
  <2> QED
    BY <2>1, <2>3, <2>4
<1>8. SubSeq(down, 5, Len(down)) = <<>>
  BY <1>3, <1>7
<1>9. wire'["down"] = <<>> /\ wire'["up"] = wire["up"] /\ wire' \in [Dirs -> Seq(Byte)]
  <2>1. wire \in [Dirs -> Seq(Byte)] /\ <<>> \in Seq(Byte)
    BY <1>1 DEF TypeInv
  <2>2. wire' = [wire EXCEPT !["down"] = <<>>]
    BY <1>2, <1>8 DEF down
  <2> QED
    BY <2>1, <2>2 DEF Dirs
<1>10. /\ LogInv' /\ ArrivesAsPublished'
      /\ log' \in Seq(Stored) /\ got' \in Seq(Wanted) /\ told' \in Nat
      /\ Len(got') <= told' /\ told' <= Len(log') /\ Len(log') <= MaxLog
  BY <1>2, StoreSame
<1>11. TypeInv'
  BY <1>1, <1>2, <1>9, <1>10 DEF TypeInv
<1>12. UpInv'
  BY <1>1, <1>2, <1>9, Zenon DEF UpInv
<1>13. DownInv'
  <2>1. told = 0 /\ got = <<>>
    BY <1>1, <1>2 DEF DownInv
  <2>2. Len(<<>>) = 0
    OBVIOUS
  <2>3. Pending(log', Len(got'), told') = <<>>
    BY <2>1, <2>2, <1>2, PendingNone, Zenon
  <2>4. Flow(DownUnits, <<>>, <<>>, broken')
    BY UnitSets, FlowEmpty, Zenon
  <2>5. Flow(DownUnits, wire'["down"], Pending(log', Len(got'), told'), broken')
    BY <2>3, <2>4, <1>9, Zenon
  <2> QED
    BY <2>1, <2>5, <1>2, Zenon DEF DownInv
<1>14. OpenInv'
  BY <1>2, <1>4 DEF OpenInv
<1>15. EndsForCause'
  BY <1>1, <1>2, <1>5, <1>7 DEF EndsForCause
<1> QED
  BY <1>10, <1>11, <1>12, <1>13, <1>14, <1>15, Zenon DEF CodecInv

\* A reader gives up: the broker's only for a cause.
LEMMA ReadFailsStep ==
    ASSUME CodecInv, NEW d \in Dirs, ReadFails(d)
    PROVE  CodecInv'
<1>1. TypeInv /\ LogInv /\ UpInv /\ DownInv /\ OpenInv /\ ArrivesAsPublished /\ EndsForCause
  BY DEF CodecInv
<1>2. /\ Reading(d)
      /\ Incoming(d).is = "overflow" \/ (Incoming(d).is = "short" /\ broken)
      /\ dead' = dead \cup {d} /\ wire' = wire /\ broken' = broken /\ phase' = phase
      /\ asked' = asked /\ greeted' = greeted /\ wants' = wants
      /\ log' = log /\ told' = told /\ got' = got /\ sent' = sent /\ odd' = odd /\ failed' = failed
  BY DEF ReadFails
<1>3. /\ LogInv' /\ ArrivesAsPublished'
      /\ log' \in Seq(Stored) /\ got' \in Seq(Wanted) /\ told' \in Nat
      /\ Len(got') <= told' /\ told' <= Len(log') /\ Len(log') <= MaxLog
  BY <1>2, StoreSame
<1>4. TypeInv'
  BY <1>1, <1>2, <1>3 DEF TypeInv
<1>5. DownInv'
  BY <1>1, <1>2, Zenon DEF DownInv
<1>6. CASE d = "down"
  <2>1. "up" \in dead' <=> "up" \in dead
    BY <1>2, <1>6
  <2>2. UpInv' /\ EndsForCause'
    BY <2>1, <1>1, <1>2, Zenon DEF UpInv, EndsForCause
  <2>3. OpenInv'
    BY <2>1, <1>1, <1>2, Zenon DEF OpenInv
  <2> QED
    BY <2>2, <2>3, <1>3, <1>4, <1>5, Zenon DEF CodecInv
<1>7. CASE d = "up"
  <2> DEFINE u == wire["up"]
             F == UpUnits(odd)
             r == ReadFrame(u, MaxDigits)
  <2>1. "up" \notin dead /\ Incoming(d) = r /\ "up" \in dead'
    BY <1>2, <1>7 DEF Reading, Incoming
  <2>2. u \in Seq(Byte) /\ MaxDigits \in Nat /\ wants \in Seq(Wanted)
    BY <1>1, WireTypes DEF TypeInv
  <2>3. F \in SUBSET Units /\ Flow(F, u, wants, broken)
    BY <2>1, <1>1, UnitSets, Zenon DEF UpInv
  <2> HIDE DEF F, u
  <2>4. Taken(F, u, wants, broken, MaxDigits)
    BY <2>2, <2>3, FlowTake, Zenon
  <2>5. broken \/ odd
    <3>1. CASE r.is = "overflow"
      <4>1. PICK x \in F : Len(x.body) >= Weight[MaxDigits]
        BY <3>1, <2>4, Zenon DEF Taken
      <4>2. odd \/ Fine(x.head, x.body)
        BY Zenon DEF F, UpUnits
      <4> QED
        BY <4>1, <4>2, Zenon DEF Fine, TooLong
    <3> QED
      BY <3>1, <1>2, <2>1, Zenon
  <2>6. UpInv' /\ EndsForCause'
    BY <2>1, <2>5, <1>2, Zenon DEF UpInv, EndsForCause
  <2>7. OpenInv'
    BY <2>1, <2>5, <1>1, <1>2, Zenon DEF OpenInv
  <2> QED
    BY <2>6, <2>7, <1>3, <1>4, <1>5, Zenon DEF CodecInv
<1> QED
  BY <1>6, <1>7 DEF Dirs

\* The two halves of a sequence.
LEMMA Halves ==
    ASSUME NEW s \in Seq(Byte), NEW i \in 0..Len(s)
    PROVE  s = SubSeq(s, 1, i) \o SubSeq(s, i + 1, Len(s))
<1> DEFINE a == SubSeq(s, 1, i)
           b == SubSeq(s, i + 1, Len(s))
           c == a \o b
           L == Len(s)
<1>1. L \in Nat /\ i \in Nat /\ i <= L
  OBVIOUS
<1>2. a \in Seq(Byte) /\ Len(a) = i /\ \A k \in 1..i : a[k] = s[k]
  BY <1>1
<1>3. b \in Seq(Byte) /\ Len(b) = L - i /\ \A k \in 1..(L - i) : b[k] = s[i + k]
  BY <1>1
<1> HIDE DEF a, b, L
<1>4. /\ c \in Seq(Byte) /\ Len(c) = Len(a) + Len(b)
      /\ \A k \in 1..Len(a) : c[k] = a[k]
      /\ \A k \in 1..Len(b) : c[Len(a) + k] = b[k]
  <2>1. a \in Seq(Byte) /\ b \in Seq(Byte)
    BY <1>2, <1>3, Zenon
  <2> QED
    BY <2>1, TwoPieces DEF c
<1> HIDE DEF c
<1>5. Len(c) = L
  BY <1>1, <1>2, <1>3, <1>4
<1>6. ASSUME NEW k \in 1..L PROVE c[k] = s[k]
  <2>1. CASE k <= i
    <3>1. k \in 1..i
      BY <2>1, <1>1
    <3> QED
      BY <3>1, <1>2, <1>4, Zenon
  <2>2. CASE ~(k <= i)
    <3> DEFINE m == k - i
    <3>1. m \in 1..(L - i) /\ i + m = k
      BY <2>2, <1>1
    <3> HIDE DEF m
    <3>2. c[i + m] = b[m] /\ b[m] = s[i + m]
      BY <3>1, <1>2, <1>3, <1>4, Zenon
    <3> QED
      BY <3>1, <3>2, Zenon
  <2> QED
    BY <2>1, <2>2
<1>7. c = s
  BY <1>4, <1>5, <1>6, SeqEqual DEF L
<1> QED
  BY <1>7 DEF a, b, c

\* The connection breaks: what is left is a beginning.
LEMMA BreakStep ==
    ASSUME CodecInv, NEW d \in Dirs, Break(d)
    PROVE  CodecInv'
<1>1. TypeInv /\ LogInv /\ UpInv /\ DownInv /\ OpenInv /\ ArrivesAsPublished /\ EndsForCause
  BY DEF CodecInv
<1>2. /\ broken' = TRUE /\ dead' = dead /\ phase' = phase
      /\ asked' = asked /\ greeted' = greeted /\ wants' = wants
      /\ log' = log /\ told' = told /\ got' = got /\ sent' = sent /\ odd' = odd /\ failed' = failed
  BY DEF Break
<1>3. PICK i \in 0..Len(wire[d]) :
        wire' = [x \in Dirs |-> IF x = d THEN SubSeq(wire[d], 1, i) ELSE <<>>]
  BY Zenon DEF Break
<1> DEFINE left(x) == IF x = d THEN SubSeq(wire[d], 1, i) ELSE <<>>
           lost(x) == IF x = d THEN SubSeq(wire[d], i + 1, Len(wire[d])) ELSE wire[x]
<1>4. ASSUME NEW x \in Dirs
      PROVE  /\ left(x) \in Seq(Byte) /\ lost(x) \in Seq(Byte)
             /\ wire[x] = left(x) \o lost(x) /\ wire'[x] = left(x)
  <2>1. wire[x] \in Seq(Byte)
    BY <1>1 DEF TypeInv
  <2>2. wire'[x] = left(x)
    BY <1>3
  <2>3. CASE x = d
    <3> DEFINE s == wire[d]
    <3>1. s \in Seq(Byte) /\ i \in 0..Len(s)
      BY <2>1, <2>3
    <3> HIDE DEF s
    <3>2. SubSeq(s, 1, i) \in Seq(Byte) /\ SubSeq(s, i + 1, Len(s)) \in Seq(Byte)
      BY <3>1
    <3>3. s = SubSeq(s, 1, i) \o SubSeq(s, i + 1, Len(s))
      BY <3>1, Halves, Zenon
    <3> QED
      BY <3>2, <3>3, <2>2, <2>3 DEF s
  <2>4. CASE x # d
    <3>1. <<>> \in Seq(Byte) /\ <<>> \o wire[x] = wire[x]
      BY <2>1, ConcatSimplifications
    <3> QED
      BY <3>1, <2>1, <2>2, <2>4, Zenon
  <2> QED
    BY <2>3, <2>4
<1> HIDE DEF left, lost
<1>5. PICK a \in Seq(Byte), b \in Seq(Byte) :
        /\ wire'["up"] \in Seq(Byte) /\ wire["up"] = wire'["up"] \o a
        /\ wire'["down"] \in Seq(Byte) /\ wire["down"] = wire'["down"] \o b
  <2>1. "up" \in Dirs /\ "down" \in Dirs
    BY DEF Dirs
  <2> QED
    BY <2>1, <1>4, Zenon
<1>6. /\ LogInv' /\ ArrivesAsPublished'
      /\ log' \in Seq(Stored) /\ got' \in Seq(Wanted) /\ told' \in Nat
      /\ Len(got') <= told' /\ told' <= Len(log') /\ Len(log') <= MaxLog
      /\ Pending(log', Len(got'), told') = Pending(log, Len(got), told)
  BY <1>2, StoreSame
<1>7. TypeInv'
  <2>1. wire' \in [Dirs -> Seq(Byte)]
    <3>1. \A x \in Dirs : wire'[x] \in Seq(Byte)
      BY <1>4, Zenon
    <3> HIDE DEF left
    <3>2. wire' = [x \in Dirs |-> wire'[x]]
      BY <1>3
    <3> QED
      BY <3>1, <3>2, Zenon
  <2> QED
    BY <2>1, <1>1, <1>2, <1>6 DEF TypeInv
<1>8. UpInv'
  <2>1. ASSUME "up" \notin dead PROVE Flow(UpUnits(odd), wire'["up"], wants, TRUE)
    <3>1. Flow(UpUnits(odd), wire'["up"] \o a, wants, broken)
      BY <2>1, <1>1, <1>5, Zenon DEF UpInv
    <3> DEFINE s == wire'["up"]
    <3> HIDE DEF s
    <3>2. Flow(UpUnits(odd), s, wants, TRUE)
      BY <3>1, <1>5, FlowCut, UnitSets, Zenon DEF s
    <3> QED
      BY <3>2 DEF s
  <2> QED
    BY <2>1, <1>2, Zenon DEF UpInv
<1>9. DownInv'
  <2>1. ASSUME phase = "up"
        PROVE  Flow(DownUnits, wire'["down"], Pending(log, Len(got), told), TRUE)
    <3>1. Flow(DownUnits, wire'["down"] \o b, Pending(log, Len(got), told), broken)
      BY <2>1, <1>1, <1>5, Zenon DEF DownInv
    <3> QED
      BY <3>1, <1>5, FlowCut, UnitSets, Zenon
  <2> QED
    BY <2>1, <1>1, <1>2, <1>6, Zenon DEF DownInv
<1>10. OpenInv'
  <2>1. wire["up"] = <<>> => wire'["up"] = <<>>
    BY <1>5, ConcatSimplifications
  <2>2. wire["down"] = <<>> => wire'["down"] = <<>>
    BY <1>5, ConcatSimplifications
  <2>3. ASSUME NEW whole, Part(wire["up"], whole, broken) PROVE Part(wire'["up"], whole, TRUE)
    <3>1. Part(wire'["up"] \o a, whole, broken)
      BY <2>3, <1>5, Zenon
    <3> QED
      BY <3>1, <1>5, PartCut, Zenon
  <2>4. ASSUME NEW whole, Part(wire["down"], whole, broken) PROVE Part(wire'["down"], whole, TRUE)
    <3>1. Part(wire'["down"] \o b, whole, broken)
      BY <2>4, <1>5, Zenon
    <3> QED
      BY <3>1, <1>5, PartCut, Zenon
  <2> QED
    BY <2>1, <2>2, <2>3, <2>4, <1>1, <1>2, Zenon DEF OpenInv
<1>11. EndsForCause'
  BY <1>2, Zenon DEF EndsForCause
<1> QED
  BY <1>6, <1>7, <1>8, <1>9, <1>10, <1>11, Zenon DEF CodecInv

\* What is pending are messages.
LEMMA PendingType ==
    ASSUME TypeInv
    PROVE  Pending(log, Len(got), told) \in Seq(Wanted)
<1> DEFINE G == Len(got)
           n == told - G
           p == Pending(log, G, told)
<1>1. G \in Nat /\ told \in Nat /\ G <= told /\ told <= Len(log) /\ Len(log) \in Nat
  BY DEF TypeInv
<1>2. log \in Seq(Stored)
  BY DEF TypeInv
<1> HIDE DEF G
<1>3. n \in Nat
  BY <1>1
<1>4. ASSUME NEW i \in 1..n PROVE log[G + i].want \in Wanted
  <2>1. G + i \in 1..Len(log)
    BY <1>1
  <2>2. log[G + i] \in Stored
    BY <2>1, <1>2, ElementOfSeq
  <2> QED
    BY <2>2 DEF Stored
<1>5. p = [i \in 1..n |-> log[G + i].want]
  BY DEF Pending
<1> HIDE DEF n, p
<1>6. p \in [1..n -> Wanted]
  BY <1>4, <1>5, Zenon
<1>7. p \in Seq(Wanted)
  BY <1>3, <1>6
<1> QED
  BY <1>7 DEF p, G

\* The streams after an answer.
LEMMA AnswerWire ==
    ASSUME CodecInv, UpReady, NEW a \in Seq(Byte), NEW next, Answer(a, next)
    PROVE  /\ wire' \in [Dirs -> Seq(Byte)]
           /\ wire'["up"] = Incoming("up").rest
           /\ wire'["down"] = IF broken THEN wire["down"] ELSE wire["down"] \o a
<1> DEFINE u == Incoming("up").rest
           v == IF broken THEN wire["down"] ELSE wire["down"] \o a
<1>1. u \in Seq(Byte)
  BY Zenon DEF UpReady
<1>2. v \in Seq(Byte)
  <2>1. wire["down"] \in Seq(Byte)
    BY WireTypes, Zenon DEF CodecInv
  <2>2. wire["down"] \o a \in Seq(Byte)
    BY <2>1, BytePieces, Zenon
  <2> QED
    BY <2>1, <2>2, Zenon
<1>3. wire' = [up |-> u, down |-> v]
  BY Zenon DEF Answer
<1> HIDE DEF u, v
<1>4. wire' \in [Dirs -> Seq(Byte)] /\ wire'["up"] = u /\ wire'["down"] = v
  BY <1>1, <1>2, <1>3 DEF Dirs
<1> QED
  BY <1>4, Zenon DEF u, v

\* A plain answer stands for no message.
LEMMA AnswerDown ==
    ASSUME CodecInv, NEW a, Plain(a)
    PROVE  /\ a \in Seq(Byte)
           /\ phase = "up" => Flow(DownUnits, IF broken THEN wire["down"] ELSE wire["down"] \o a,
                                   Pending(log, Len(got), told), broken)
<1> DEFINE down == wire["down"]
           p == Pending(log, Len(got), told)
<1>1. TypeInv /\ DownInv
  BY DEF CodecInv
<1>2. down \in Seq(Byte) /\ p \in Seq(Wanted) /\ broken \in BOOLEAN
  BY <1>1, WireTypes, PendingType DEF TypeInv
<1>3. phase = "up" => Flow(DownUnits, down, p, broken)
  BY <1>1, Zenon DEF DownInv
<1> HIDE DEF down, p
<1>4. CASE a = <<>>
  <2>1. a \in Seq(Byte) /\ down \o a = down
    BY <1>2, <1>4, ConcatSimplifications
  <2> QED
    BY <2>1, <1>3, Zenon DEF down, p
<1>5. CASE a # <<>>
  <2>1. PICK h \in Byte, b \in Seq(Byte) : h \div 16 # 3 /\ a = Pack(h, b)
    BY <1>5, Zenon DEF Plain
  <2>2. SentAs(DownUnits, a, <<>>)
    BY <2>1, PlainUnit, Zenon
  <2>3. DownUnits \in SUBSET Units /\ DownUnits \in SUBSET DownUnits
    BY UnitSets, Zenon
  <2>4. a \in Seq(Byte)
    BY <2>2, <2>3, SentTypes, Zenon
  <2>5. p \o <<>> = p
    BY <1>2, ConcatSimplifications
  <2>6. ASSUME phase = "up", ~broken PROVE Flow(DownUnits, down \o a, p, broken)
    <3>1. broken = FALSE
      BY <2>6, <1>2
    <3>2. Flow(DownUnits, down, p, FALSE)
      BY <3>1, <2>6, <1>3, Zenon
    <3>3. Flow(DownUnits, down \o a, p \o <<>>, FALSE)
      BY <3>2, <2>2, <2>3, <1>2, FlowSent, Zenon
    <3> QED
      BY <3>1, <3>3, <2>5, Zenon
  <2> QED
    BY <2>4, <2>6, <1>3, Zenon DEF down, p
<1> QED
  BY <1>4, <1>5

\* The store, after a step that may have added to it.
StoreFine ==
    /\ LogInv' /\ ArrivesAsPublished'
    /\ log' \in Seq(Stored) /\ got' \in Seq(Wanted) /\ told' \in Nat
    /\ Len(got') <= told' /\ told' <= Len(log') /\ Len(log') <= MaxLog
    /\ Pending(log', Len(got'), told') = Pending(log, Len(got), told)

\* The broker answers a packet after CONNECT.
LEMMA AnswerStep ==
    ASSUME CodecInv, UpReady, greeted, NEW a, Plain(a), NEW next \in BOOLEAN, Answer(a, next),
           next \/ odd \/ failed', failed' \in BOOLEAN, failed => failed', greeted' = greeted,
           wants' \in Seq(Wanted),
           Flow(UpUnits(odd), Incoming("up").rest, wants', broken), StoreFine
    PROVE  CodecInv'
<1>1. TypeInv /\ DownInv /\ OpenInv /\ EndsForCause
  BY DEF CodecInv
<1>2. /\ dead' = IF next THEN dead ELSE dead \cup {"up"}
      /\ broken' = broken /\ phase' = phase /\ asked' = asked
      /\ told' = told /\ got' = got /\ sent' = sent /\ odd' = odd
  BY DEF Answer
<1>3. /\ a \in Seq(Byte)
      /\ phase = "up" => Flow(DownUnits, IF broken THEN wire["down"] ELSE wire["down"] \o a,
                              Pending(log, Len(got), told), broken)
  BY AnswerDown, Zenon
<1>4. /\ wire' \in [Dirs -> Seq(Byte)] /\ wire'["up"] = Incoming("up").rest
      /\ wire'["down"] = IF broken THEN wire["down"] ELSE wire["down"] \o a
  BY <1>3, AnswerWire, Zenon
<1>5. phase \in {"up", "refused"} /\ "up" \notin dead
  <2>1. phase # "new" /\ phase # "connecting" /\ "up" \notin dead
    BY Zenon DEF UpReady
  <2> QED
    BY <2>1, <1>1 DEF TypeInv
<1>6. TypeInv'
  BY <1>1, <1>2, <1>4 DEF TypeInv, StoreFine, Dirs
<1>7. UpInv'
  BY <1>2, <1>4, Zenon DEF UpInv
<1>8. DownInv'
  <2>1. phase = "up" => Flow(DownUnits, wire'["down"], Pending(log', Len(got'), told'), broken')
    BY <1>2, <1>3, <1>4, Zenon DEF StoreFine
  <2> QED
    BY <2>1, <1>1, <1>2, Zenon DEF DownInv
<1>9. OpenInv'
  BY <1>2, <1>5 DEF OpenInv
<1>10. EndsForCause'
  BY <1>2, <1>5 DEF EndsForCause
<1> QED
  BY <1>6, <1>7, <1>8, <1>9, <1>10, Zenon DEF CodecInv, StoreFine

\* CONNECT is answered.
LEMMA HandleConnectStep ==
    ASSUME CodecInv, HandleConnect
    PROVE  CodecInv'
<1>1. TypeInv /\ DownInv /\ OpenInv /\ EndsForCause
  BY DEF CodecInv
<1> DEFINE q == Incoming("up")
<1>2. UpReady
  BY UpTaken, Zenon DEF HandleConnect
<1>3. PICK code \in {0, 4} : Answer(ConnAckPacket(code), code = 0)
  BY Zenon DEF HandleConnect
<1>4. /\ ~greeted /\ greeted' = TRUE /\ wants' = wants /\ log' = log /\ failed' = failed
      /\ Received.type = "CONNECT"
  BY DEF HandleConnect
<1>5. /\ dead' = IF code = 0 THEN dead ELSE dead \cup {"up"}
      /\ broken' = broken /\ phase' = phase /\ asked' = asked
      /\ told' = told /\ got' = got /\ sent' = sent /\ odd' = odd
  BY <1>3 DEF Answer
<1>6. phase = "connecting" /\ wire["down"] = <<>>
  <2>1. phase # "new"
    BY <1>2, Zenon DEF UpReady
  <2> QED
    BY <2>1, <1>1, <1>4 DEF OpenInv, TypeInv
<1>7. "up" \notin dead /\ q.rest = <<>> /\ q.head \in Byte /\ q.body \in Seq(Byte)
  BY <1>2, <1>6, Zenon DEF UpReady
<1> DEFINE a == ConnAckPacket(code)
<1>8. a \in Seq(Byte)
  BY DEF ConnAckPacket, Byte
<1> HIDE DEF a
<1>9. /\ wire' \in [Dirs -> Seq(Byte)] /\ wire'["up"] = <<>>
      /\ wire'["down"] = IF broken THEN <<>> ELSE <<>> \o a
  <2>1. Answer(a, code = 0)
    BY <1>3 DEF a
  <2> QED
    BY <2>1, <1>2, <1>6, <1>7, <1>8, AnswerWire, Zenon
<1>10. Part(wire'["down"], a, broken')
  <2>1. <<>> \o a = a /\ a \o <<>> = a /\ <<>> \in Seq(Byte)
    BY <1>8, ConcatSimplifications
  <2> QED
    BY <2>1, <1>5, <1>8, <1>9, Zenon DEF Part
<1>11. Flow(UpUnits(odd), q.rest, wants, broken)
  <2>1. q.head \div 16 # 3
    <3>1. "CONNECT" \notin {"refused", "PUBLISH"} /\ Received = ParsePacket(q.head, q.body)
      BY DEF Received
    <3>2. q.head \div 16 = 3 => ParsePacket(q.head, q.body).type \in {"refused", "PUBLISH"}
      <4> HIDE DEF q
      <4> QED
        BY <1>7, PacketTypes
    <3> QED
      BY <3>1, <3>2, <1>4, Zenon
  <2> QED
    BY <2>1, <1>2, Zenon DEF UpReady
<1>12. StoreFine
  BY <1>4, <1>5, StoreSame DEF StoreFine
<1>13. TypeInv'
  BY <1>1, <1>4, <1>5, <1>9, <1>12 DEF TypeInv, StoreFine, Dirs
<1>14. UpInv'
  BY <1>4, <1>5, <1>7, <1>9, <1>11, Zenon DEF UpInv
<1>15. DownInv'
  BY <1>1, <1>5, <1>6 DEF DownInv
<1>16. OpenInv'
  <2>1. code = 0 /\ "up" \in dead' => broken' \/ odd'
    BY <1>5, <1>7
  <2>2. \E c \in {0, 4} : /\ Part(wire'["down"], ConnAckPacket(c), broken')
                          /\ c = 0 /\ "up" \in dead' => broken' \/ odd'
    BY <2>1, <1>10, Zenon DEF a
  <2> QED
    BY <2>2, <1>4, <1>5, <1>6, <1>9 DEF OpenInv
<1>17. EndsForCause'
  BY <1>4, <1>5, <1>6 DEF EndsForCause
<1> QED
  BY <1>12, <1>13, <1>14, <1>15, <1>16, <1>17, Zenon DEF CodecInv, StoreFine

\* A PUBLISH is told by its header, and so is what is none.
LEMMA PublishIsThree ==
    ASSUME NEW h \in Byte, NEW b \in Seq(Byte)
    PROVE  /\ ParsePacket(h, b).type = "PUBLISH" => h \div 16 = 3
           /\ ParsePacket(h, b).type \notin {"PUBLISH", "refused"} => h \div 16 # 3
BY PacketTypes

\* The broker ends the session.
LEMMA HandleEndStep ==
    ASSUME CodecInv, HandleEnd
    PROVE  CodecInv'
<1>1. TypeInv /\ DownInv /\ OpenInv /\ EndsForCause
  BY DEF CodecInv
<1>2. UpReady
  BY UpTaken, Zenon DEF HandleEnd
<1>3. /\ Answer(<<>>, FALSE) /\ Received.type \in {"refused", "DISCONNECT"}
      /\ greeted' = greeted /\ wants' = wants /\ log' = log /\ failed' = failed
  BY DEF HandleEnd
<1>4. /\ dead' = dead \cup {"up"}
      /\ broken' = broken /\ phase' = phase /\ asked' = asked
      /\ told' = told /\ got' = got /\ sent' = sent /\ odd' = odd
  BY <1>3 DEF Answer
<1>5. odd
  BY <1>2, <1>3, Zenon DEF UpReady
<1>6. phase \in {"up", "refused"}
  <2>1. "CONNECT" \notin {"refused", "DISCONNECT"}
    OBVIOUS
  <2>2. phase # "new" /\ phase # "connecting"
    BY <2>1, <1>2, <1>3, Zenon DEF UpReady
  <2> QED
    BY <2>2, <1>1 DEF TypeInv
<1>7. Plain(<<>>)
  BY Zenon DEF Plain
<1>8. /\ <<>> \in Seq(Byte)
      /\ phase = "up" => Flow(DownUnits, IF broken THEN wire["down"] ELSE wire["down"] \o <<>>,
                              Pending(log, Len(got), told), broken)
  BY <1>7, AnswerDown, Zenon
<1>9. /\ wire' \in [Dirs -> Seq(Byte)]
      /\ wire'["down"] = IF broken THEN wire["down"] ELSE wire["down"] \o <<>>
  BY <1>2, <1>3, <1>8, AnswerWire, Zenon
<1>10. StoreFine
  BY <1>3, <1>4, StoreSame DEF StoreFine
<1>11. TypeInv'
  BY <1>1, <1>3, <1>4, <1>9, <1>10 DEF TypeInv, StoreFine, Dirs
<1>12. UpInv' /\ EndsForCause'
  BY <1>4, <1>5 DEF UpInv, EndsForCause
<1>13. DownInv'
  <2>1. phase = "up" => Flow(DownUnits, wire'["down"], Pending(log', Len(got'), told'), broken')
    BY <1>4, <1>8, <1>9, <1>10, Zenon DEF StoreFine
  <2> QED
    BY <2>1, <1>1, <1>4, Zenon DEF DownInv
<1>14. OpenInv'
  BY <1>1, <1>3, <1>4, <1>6 DEF OpenInv
<1> QED
  BY <1>10, <1>11, <1>12, <1>13, <1>14, Zenon DEF CodecInv, StoreFine

\* The answer to a PUBLISH.
LEMMA PublishAnswerPlain ==
    ASSUME UpReady, Received.type = "PUBLISH"
    PROVE  Plain(PublishAnswer)
<1> DEFINE q == Incoming("up")
           R == Received
<1>1. q.head \in Byte /\ q.body \in Seq(Byte) /\ R = ParsePacket(q.head, q.body)
  BY Zenon DEF UpReady, Received
<1>2. PublishAnswer = IF R.qos = 1 THEN PubAckPacket(R.id) ELSE <<>>
  BY DEF PublishAnswer
<1>3. R.type = "PUBLISH"
  OBVIOUS
<1> HIDE DEF q, R
<1>4. Plain(<<>>) /\ Plain(PubAckPacket(R.id))
  BY <1>1, <1>3, AnswersPlain
<1> QED
  BY <1>2, <1>4, Zenon

\* PUBLISH is stored.
LEMMA HandlePublishStep ==
    ASSUME CodecInv, HandlePublish
    PROVE  CodecInv'
<1> DEFINE q == Incoming("up")
           R == Received
           w == Head(wants)
           d == DecodeEnvelope(R.payload)
           e == IF d.ok THEN d.e ELSE NewPublish(FreshId, R.payload)
           m == [topic |-> R.topic, raw |-> StoredWire(e), want |-> w]
           a == PublishAnswer
<1>1. UpReady
  BY UpTaken, Zenon DEF HandlePublish
<1>2. /\ greeted /\ R.type = "PUBLISH" /\ Len(log) < MaxLog
      /\ log' = Append(log, m) /\ wants' = Tail(wants)
      /\ Answer(a, TRUE) /\ greeted' = greeted /\ failed' = failed
  BY Zenon DEF HandlePublish
<1>3. q.head \in Byte /\ q.body \in Seq(Byte) /\ R = ParsePacket(q.head, q.body)
  BY <1>1, Zenon DEF UpReady, Received
<1> HIDE DEF q, R
<1>4. /\ q.head \div 16 = 3 /\ R.topic \in Seq(Byte) /\ R.payload \in Seq(Byte)
  BY <1>2, <1>3, PacketTypes
<1>5. /\ w \in Wanted /\ Tail(wants) \in Seq(Wanted) /\ Carries(q.head, q.body, w)
      /\ Flow(UpUnits(odd), q.rest, Tail(wants), broken)
  BY <1>1, <1>4, Zenon DEF UpReady, q
<1>6. Clear(w) => R.topic = w.topic /\ Holds(R.payload, w.payload)
  BY <1>3, <1>5, Zenon DEF Carries
<1>7. Plain(a)
  BY <1>1, <1>2, PublishAnswerPlain, Zenon DEF R
<1> HIDE DEF a, d
<1>8. Len(log) \in Nat
  BY DEF CodecInv, TypeInv
<1>9. d.ok \in BOOLEAN /\ (d.ok => d.e \in Envelope)
  BY <1>4, DecodeTypes DEF d
<1>10. LET n == NewPublish(FreshId, R.payload)
       IN n \in Envelope /\ n.props = <<>> /\ n.payload = R.payload /\ ~Overlong(<<>>)
  <2>1. \A i \in Nat : 100 + (i % 100) \in 0..255 /\ 100 + (i % 100) # 0
    OBVIOUS
  <2>2. FreshId \in Byte /\ FreshId # 0
    BY <2>1, <1>8, Zenon DEF FreshId, Byte
  <2> QED
    BY <2>2, <1>4, NewPublishType
<1>11. e \in Envelope
  BY <1>9, <1>10, Zenon
<1>12. ASSUME Clear(w) PROVE e.payload = w.payload /\ ~Overlong(e.props)
  <2>1. Holds(R.payload, w.payload)
    BY <1>6, <1>12
  <2>2. CASE d.ok
    BY <2>1, <2>2, Zenon DEF Holds, d
  <2>3. CASE ~d.ok
    <3>1. R.payload = w.payload
      BY <2>1, <2>3, Zenon DEF Holds, d
    <3> QED
      BY <3>1, <2>3, <1>10, Zenon
  <2> QED
    BY <2>2, <2>3
<1> HIDE DEF e
<1>13. /\ StoredWire(e) \in Seq(Byte)
       /\ e.idem # 0 /\ ~Overlong(e.props) =>
            /\ DecodeEnvelope(StoredWire(e)).ok
            /\ DecodeEnvelope(StoredWire(e)).e.payload = e.payload
  <2>1. e \in AnyEnvelope
    BY <1>11 DEF Envelope
  <2> QED
    BY <2>1, <1>8, StoredWireFacts
<1>14. e.idem # 0
  BY <1>11 DEF Envelope
<1> DEFINE raw == StoredWire(e)
<1> HIDE DEF raw, w
<1>15. m \in Stored /\ m.topic = R.topic /\ m.raw = raw /\ m.want = w
  <2>1. raw \in Seq(Byte)
    BY <1>13 DEF raw
  <2> QED
    BY <2>1, <1>4, <1>5 DEF Stored, raw
<1> HIDE DEF m
<1>16. Kept(m)
  BY <1>6, <1>12, <1>13, <1>14, <1>15, Zenon DEF Kept, raw
<1>17. told' = told /\ got' = got
  BY <1>2 DEF Answer
<1>18. StoreFine
  <2>1. /\ log' \in Seq(Stored) /\ told' <= Len(log') /\ Len(log') <= MaxLog
        /\ LogInv' /\ ArrivesAsPublished'
        /\ Pending(log', Len(got'), told') = Pending(log, Len(got), told)
    BY <1>2, <1>15, <1>16, <1>17, LogGrows
  <2>2. got' \in Seq(Wanted) /\ told' \in Nat /\ Len(got') <= told'
    BY <1>17 DEF CodecInv, TypeInv
  <2> QED
    BY <2>1, <2>2, Zenon DEF StoreFine
<1>20. failed' \in BOOLEAN
  BY <1>2 DEF CodecInv, TypeInv
<1>19. TRUE \in BOOLEAN /\ wants' \in Seq(Wanted)
       /\ Flow(UpUnits(odd), Incoming("up").rest, wants', broken)
  BY <1>2, <1>5, Zenon DEF q
<1> QED
  BY <1>1, <1>2, <1>7, <1>18, <1>19, <1>20, AnswerStep, Zenon

\* The other packets are answered.
LEMMA HandleOtherStep ==
    ASSUME CodecInv, HandleOther
    PROVE  CodecInv'
<1> DEFINE q == Incoming("up")
           R == Received
<1>1. UpReady
  BY UpTaken, Zenon DEF HandleOther
<1>2. /\ greeted /\ R.type \in {"CONNECT", "SUBSCRIBE", "UNSUBSCRIBE", "PUBACK", "PINGREQ"}
      /\ greeted' = greeted /\ wants' = wants /\ log' = log /\ failed' = failed
  BY DEF HandleOther
<1>3. PICK a \in Replies(R) : Answer(a, TRUE)
  BY Zenon DEF HandleOther
<1>4. q.head \in Byte /\ q.body \in Seq(Byte) /\ R = ParsePacket(q.head, q.body)
  BY <1>1, Zenon DEF UpReady, Received
<1> HIDE DEF q, R
<1>5. q.head \div 16 # 3
  <2>1. R.type \notin {"PUBLISH", "refused"}
    BY <1>2
  <2> QED
    BY <2>1, <1>4, PublishIsThree, Zenon
<1>6. Plain(a)
  BY <1>3, <1>4, AnswersPlain, Zenon
<1>7. Flow(UpUnits(odd), q.rest, wants, broken)
  BY <1>1, <1>5, Zenon DEF UpReady, q
<1>8. told' = told /\ got' = got
  BY <1>3 DEF Answer
<1>9. StoreFine
  BY <1>2, <1>8, StoreSame DEF StoreFine
<1>10. wants \in Seq(Wanted)
  BY DEF CodecInv, TypeInv
<1>12. failed' \in BOOLEAN
  BY <1>2 DEF CodecInv, TypeInv
<1>11. TRUE \in BOOLEAN /\ wants' \in Seq(Wanted)
       /\ Flow(UpUnits(odd), Incoming("up").rest, wants', broken)
  BY <1>2, <1>7, <1>10, Zenon DEF q
<1> QED
  BY <1>1, <1>2, <1>3, <1>6, <1>9, <1>11, <1>12, AnswerStep, Zenon

\* The broker answers a PUBLISH or a SUBSCRIBE with some packets, or ends, and
\* stores nothing.
LEMMA NothingStored ==
    ASSUME CodecInv, UpReady, greeted, NEW a, Plain(a), NEW next \in BOOLEAN, Answer(a, next),
           next \/ failed', failed' \in BOOLEAN, failed => failed', greeted' = greeted,
           log' = log,
           \/ Received.type = "PUBLISH" /\ wants' = Tail(wants)
           \/ Received.type = "SUBSCRIBE" /\ wants' = wants
    PROVE  CodecInv'
<1> DEFINE q == Incoming("up")
           R == Received
<1>4. q.head \in Byte /\ q.body \in Seq(Byte) /\ R = ParsePacket(q.head, q.body)
  BY Zenon DEF UpReady, Received
<1>5. \/ R.type = "PUBLISH" /\ wants' = Tail(wants)
      \/ R.type = "SUBSCRIBE" /\ wants' = wants
  OBVIOUS
<1>10. UpReady
  OBVIOUS
<1> HIDE DEF q, R
<1>6. wants' \in Seq(Wanted) /\ Flow(UpUnits(odd), q.rest, wants', broken)
  <2>1. CASE R.type = "PUBLISH" /\ wants' = Tail(wants)
    <3>1. q.head \div 16 = 3
      BY <2>1, <1>4, PublishIsThree, Zenon
    <3> QED
      BY <2>1, <3>1, <1>10, Zenon DEF UpReady, q
  <2>2. CASE R.type = "SUBSCRIBE" /\ wants' = wants
    <3>1. R.type \notin {"PUBLISH", "refused"}
      BY <2>2
    <3>2. q.head \div 16 # 3
      BY <3>1, <1>4, PublishIsThree, Zenon
    <3>3. wants \in Seq(Wanted)
      BY DEF CodecInv, TypeInv
    <3> QED
      BY <2>2, <3>2, <3>3, <1>10, Zenon DEF UpReady, q
  <2> QED
    BY <2>1, <2>2, <1>5, Zenon
<1>7. told' = told /\ got' = got
  BY DEF Answer
<1>8. StoreFine
  BY <1>7, StoreSame DEF StoreFine
<1>9. Flow(UpUnits(odd), Incoming("up").rest, wants', broken)
  BY <1>6, Zenon DEF q
<1> QED
  BY <1>6, <1>8, <1>9, AnswerStep, Zenon

\* A handler that stores nothing: a PUBLISH that is a duplicate, and errors.
LEMMA HandleNothingStep ==
    ASSUME CodecInv, HandleDuplicate \/ PublishFails \/ SubscribeFails
    PROVE  CodecInv'
<1>1. UpReady
  BY UpTaken, Zenon DEF HandleDuplicate, PublishFails, SubscribeFails
<1>2. TRUE \in BOOLEAN /\ FALSE \in BOOLEAN /\ failed \in BOOLEAN
  BY DEF CodecInv, TypeInv
<1>3. Plain(<<>>)
  BY Zenon DEF Plain
<1>4. CASE HandleDuplicate
  <2>1. /\ greeted /\ Received.type = "PUBLISH" /\ wants' = Tail(wants) /\ log' = log
        /\ Answer(PublishAnswer, TRUE) /\ greeted' = greeted /\ failed' = failed
    BY <1>4 DEF HandleDuplicate
  <2>2. Plain(PublishAnswer)
    BY <1>1, <2>1, PublishAnswerPlain, Zenon
  <2>3. failed' \in BOOLEAN /\ (failed => failed')
    BY <2>1, <1>2, Zenon
  <2> QED
    BY <1>1, <1>2, <2>1, <2>2, <2>3, NothingStored, Zenon
<1>5. CASE PublishFails
  <2>1. /\ greeted /\ Received.type = "PUBLISH" /\ wants' = Tail(wants) /\ log' = log
        /\ Answer(<<>>, FALSE) /\ greeted' = greeted /\ failed' = TRUE
    BY <1>5 DEF PublishFails
  <2>2. failed' \in BOOLEAN /\ (failed => failed') /\ failed'
    BY <2>1, <1>2, Zenon
  <2> QED
    BY <1>1, <1>2, <1>3, <2>1, <2>2, NothingStored, Zenon
<1>6. CASE SubscribeFails
  <2>1. /\ greeted /\ Received.type = "SUBSCRIBE" /\ wants' = wants /\ log' = log
        /\ Answer(<<>>, FALSE) /\ greeted' = greeted /\ failed' = TRUE
    BY <1>6 DEF SubscribeFails
  <2>2. failed' \in BOOLEAN /\ (failed => failed') /\ failed'
    BY <2>1, <1>2, Zenon
  <2> QED
    BY <1>1, <1>2, <1>3, <2>1, <2>2, NothingStored, Zenon
<1> QED
  BY <1>4, <1>5, <1>6

\* One more message is pending once it is told, one less once it is got.
LEMMA PendingMoves ==
    ASSUME TypeInv
    PROVE  LET p == Pending(log, Len(got), told) IN
           /\ told < Len(log) =>
                Pending(log, Len(got), told + 1) = p \o <<log[told + 1].want>>
           /\ \A w \in Wanted, y \in Seq(Wanted) : p = <<w>> \o y =>
                /\ Len(got) < told /\ w = log[Len(got) + 1].want
                /\ y = Pending(log, Len(got) + 1, told)
<1> DEFINE G == Len(got)
           p == Pending(log, G, told)
<1>1. /\ G \in Nat /\ told \in Nat /\ G <= told /\ told <= Len(log) /\ Len(log) \in Nat
      /\ log \in Seq(Stored) /\ p \in Seq(Wanted)
  BY PendingType DEF TypeInv
<1> HIDE DEF G
<1>2. \A a, b \in Nat : a <= b =>
        /\ DOMAIN Pending(log, a, b) = 1..(b - a)
        /\ \A i \in 1..(b - a) : Pending(log, a, b)[i] = log[a + i].want
  BY DEF Pending
<1>3. Len(p) = told - G /\ \A i \in 1..(told - G) : p[i] = log[G + i].want
  <2>1. told - G \in Nat
    BY <1>1
  <2>2. DOMAIN p = 1..(told - G) /\ \A i \in 1..(told - G) : p[i] = log[G + i].want
    BY <1>1, <1>2
  <2> HIDE DEF p
  <2>3. Len(p) = told - G
    BY <2>1, <2>2, <1>1
  <2> QED
    BY <2>2, <2>3
<1>4. ASSUME told < Len(log)
      PROVE  Pending(log, G, told + 1) = p \o <<log[told + 1].want>>
  <2> DEFINE w == log[told + 1].want
             r == Pending(log, G, told + 1)
             s == p \o <<w>>
             t == told + 1
             n == told - G
  <2>1. t \in Nat /\ G <= t /\ n \in Nat /\ t - G = n + 1 /\ G + (n + 1) = t
        /\ told + 1 \in 1..Len(log)
    BY <1>1, <1>4
  <2>2. w \in Wanted
    <3>1. log[told + 1] \in Stored
      BY <2>1, <1>1, ElementOfSeq
    <3> QED
      BY <3>1 DEF Stored
  <2>3. DOMAIN r = 1..(n + 1) /\ \A i \in 1..(n + 1) : r[i] = log[G + i].want
    <3> HIDE DEF t, n
    <3>1. DOMAIN Pending(log, G, t) = 1..(t - G)
          /\ \A i \in 1..(t - G) : Pending(log, G, t)[i] = log[G + i].want
      BY <2>1, <1>1, <1>2, Zenon
    <3> QED
      BY <3>1, <2>1, Zenon DEF t
  <2>4. s \in Seq(Wanted) /\ Len(s) = n + 1 /\ s[n + 1] = w /\ \A i \in 1..n : s[i] = p[i]
    <3> HIDE DEF p, w, n
    <3>1. Len(p) = n /\ p \in Seq(Wanted)
      BY <1>1, <1>3 DEF n
    <3> QED
      BY <3>1, <2>2, <2>1
  <2> HIDE DEF r, s, p, n, w
  <2>5. ASSUME NEW i \in 1..(n + 1) PROVE r[i] = s[i]
    <3>1. CASE i = n + 1
      <4>1. r[n + 1] = log[G + (n + 1)].want
        BY <3>1, <2>3, Zenon
      <4>2. log[G + (n + 1)].want = w
        BY <2>1 DEF w
      <4> QED
        BY <3>1, <4>1, <4>2, <2>4, Zenon
    <3>2. CASE i # n + 1
      <4>1. i \in 1..n
        BY <3>2, <2>1
      <4>2. p[i] = log[G + i].want
        BY <4>1, <1>3, Zenon DEF n
      <4> QED
        BY <4>1, <4>2, <2>3, <2>4, Zenon
    <3> QED
      BY <3>1, <3>2
  <2>6. r = s
    <3>1. DOMAIN s = 1..(n + 1)
      BY <2>4, <2>1
    <3>2. r = [i \in 1..(n + 1) |-> r[i]]
      BY <2>3 DEF r, Pending
    <3>3. s = [i \in 1..(n + 1) |-> s[i]]
      BY <3>1, <2>4
    <3>4. [i \in 1..(n + 1) |-> r[i]] = [i \in 1..(n + 1) |-> s[i]]
      BY <2>5, Zenon
    <3> QED
      BY <3>2, <3>3, <3>4, Zenon
  <2> QED
    BY <2>6 DEF r, s, w
<1>5. ASSUME NEW w \in Wanted, NEW y \in Seq(Wanted), p = <<w>> \o y
      PROVE  G < told /\ w = log[G + 1].want /\ y = Pending(log, G + 1, told)
  <2> DEFINE s == <<w>> \o y
             n == Len(y)
             r == Pending(log, G + 1, told)
  <2>1. <<w>> \in Seq(Wanted) /\ Len(<<w>>) = 1 /\ <<w>>[1] = w
    OBVIOUS
  <2>2. /\ Len(s) = 1 + n /\ n \in Nat /\ s[1] = w
        /\ \A i \in 1..n : s[1 + i] = y[i]
    BY <2>1, TwoPieces
  <2>3. Len(s) = told - G /\ \A i \in 1..(told - G) : s[i] = log[G + i].want
    BY <1>3, <1>5, Zenon
  <2> HIDE DEF s, n, p
  <2>4. G < told /\ told - (G + 1) = n /\ G + 1 \in Nat /\ G + 1 <= told /\ 1 \in 1..(told - G)
        /\ told - G = 1 + n
    BY <2>2, <2>3, <1>1
  <2>5. w = log[G + 1].want
    BY <2>2, <2>3, <2>4, Zenon
  <2>6. DOMAIN r = 1..n /\ \A i \in 1..n : r[i] = log[(G + 1) + i].want
    <3> DEFINE g == G + 1
    <3> HIDE DEF g
    <3>1. DOMAIN Pending(log, g, told) = 1..(told - g)
          /\ \A i \in 1..(told - g) : Pending(log, g, told)[i] = log[g + i].want
      BY <2>4, <1>1, <1>2, Zenon DEF g
    <3> QED
      BY <3>1, <2>4, Zenon DEF g
  <2>7. ASSUME NEW i \in 1..n PROVE r[i] = y[i]
    <3>1. 1 + i \in 1..(told - G) /\ G + (1 + i) = (G + 1) + i
      BY <2>2, <2>4, <1>1
    <3>2. s[1 + i] = log[G + (1 + i)].want
      BY <3>1, <2>3, Zenon
    <3> QED
      BY <3>1, <3>2, <2>2, <2>6, Zenon
  <2>8. r = y
    <3>1. y = [i \in 1..n |-> y[i]]
      BY <2>2 DEF n
    <3>2. r = [i \in 1..n |-> r[i]]
      BY <2>6 DEF Pending
    <3> HIDE DEF r
    <3>3. [i \in 1..n |-> r[i]] = [i \in 1..n |-> y[i]]
      BY <2>7, Zenon
    <3> QED
      BY <3>1, <3>2, <3>3, Zenon
  <2> QED
    BY <2>4, <2>5, <2>8
<1> QED
  BY <1>4, <1>5, Zenon DEF G

\* A stored message is delivered.
LEMMA DeliverStep ==
    ASSUME CodecInv, NEW qos \in {0, 1}, NEW dup \in BOOLEAN, Deliver(qos, dup)
    PROVE  CodecInv'
<1> DEFINE m == log[told + 1]
           w == m.want
           down == wire["down"]
           p == Pending(log, Len(got), told)
           packet == PublishPacket(m.topic, qos, 1, dup, m.raw)
<1>1. TypeInv /\ LogInv /\ UpInv /\ DownInv /\ OpenInv /\ ArrivesAsPublished /\ EndsForCause
  BY DEF CodecInv
<1>2. /\ phase = "up" /\ ~broken /\ told < Len(log) /\ told' = told + 1
      /\ wire' = [wire EXCEPT !["down"] = @ \o packet]
      /\ dead' = dead /\ broken' = broken /\ phase' = phase /\ asked' = asked
      /\ greeted' = greeted /\ wants' = wants /\ log' = log /\ got' = got
      /\ sent' = sent /\ odd' = odd /\ failed' = failed
  BY DEF Deliver, Write
<1>3. m \in Stored /\ Kept(m)
  <2>1. log \in Seq(Stored) /\ told + 1 \in 1..Len(log)
    BY <1>1, <1>2 DEF TypeInv
  <2>2. Kept(m)
    BY <2>1, <1>1, Zenon DEF LogInv
  <2> QED
    BY <2>1, <2>2, ElementOfSeq
<1> HIDE DEF m
<1>4. m.topic \in Seq(Byte) /\ m.raw \in Seq(Byte) /\ w \in Wanted
  BY <1>3 DEF Stored
<1>5. SentAs(DownUnits, packet, <<w>>)
  BY <1>3, <1>4, DeliverSent, Zenon DEF Kept
<1>6. down \in Seq(Byte) /\ p \in Seq(Wanted) /\ broken = FALSE
  BY <1>1, <1>2, WireTypes, PendingType DEF TypeInv
<1>7. Flow(DownUnits, down, p, FALSE)
  BY <1>1, <1>2, <1>6, Zenon DEF DownInv
<1>8. DownUnits \in SUBSET Units /\ DownUnits \in SUBSET DownUnits
  BY UnitSets, Zenon
<1> HIDE DEF packet, w
<1>9. packet \in Seq(Byte)
  BY <1>5, <1>8, SentTypes, Zenon
<1>10. Flow(DownUnits, down \o packet, p \o <<w>>, FALSE)
  <2> HIDE DEF down, p
  <2> QED
    BY <1>5, <1>6, <1>7, <1>8, FlowSent, Zenon
<1>11. Pending(log', Len(got'), told') = p \o <<w>>
  <2>1. Pending(log, Len(got), told + 1) = p \o <<log[told + 1].want>>
    BY <1>1, <1>2, PendingMoves, Zenon
  <2> QED
    BY <2>1, <1>2 DEF w, m
<1>12. wire'["up"] = wire["up"] /\ wire'["down"] = down \o packet /\ wire' \in [Dirs -> Seq(Byte)]
  <2>1. down \o packet \in Seq(Byte)
    BY <1>6, <1>9, BytePieces, Zenon
  <2> QED
    BY <2>1, <1>1, <1>2 DEF TypeInv, Dirs
<1>13. TypeInv'
  <2>1. /\ told' \in Nat /\ Len(got') <= told' /\ told' <= Len(log')
    BY <1>1, <1>2 DEF TypeInv
  <2> QED
    BY <2>1, <1>1, <1>2, <1>12, Zenon DEF TypeInv
<1>14. LogInv' /\ ArrivesAsPublished' /\ EndsForCause'
  BY <1>1, <1>2, Zenon DEF LogInv, ArrivesAsPublished, EndsForCause
<1>15. UpInv'
  BY <1>1, <1>2, <1>12, Zenon DEF UpInv
<1>16. DownInv'
  BY <1>2, <1>6, <1>10, <1>11, <1>12, Zenon DEF DownInv
<1>17. OpenInv'
  BY <1>1, <1>2 DEF OpenInv
<1> QED
  BY <1>13, <1>14, <1>15, <1>16, <1>17, Zenon DEF CodecInv

\* A stored message is published again.
LEMMA ReplayStep ==
    ASSUME CodecInv, NEW n \in 1..MaxLog, Replay(n)
    PROVE  CodecInv'
<1> DEFINE l == log[n]
           x == DecodeStored(l.raw).e
           e == [x EXCEPT !.props = <<>>]
           raw == StoredWire(e)
           m == [l EXCEPT !.raw = raw]
<1>1. TypeInv /\ LogInv /\ UpInv /\ DownInv /\ OpenInv /\ ArrivesAsPublished /\ EndsForCause
  BY DEF CodecInv
<1>2. /\ n \in DOMAIN log /\ Len(log) < MaxLog /\ DecodeStored(l.raw).ok
      /\ log' = Append(log, m)
      /\ wire' = wire /\ dead' = dead /\ broken' = broken /\ phase' = phase /\ asked' = asked
      /\ greeted' = greeted /\ wants' = wants /\ told' = told /\ got' = got
      /\ sent' = sent /\ odd' = odd /\ failed' = failed
  BY DEF Replay
<1>3. l \in Stored /\ Kept(l) /\ Len(log) \in Nat
  <2>1. log \in Seq(Stored) /\ n \in 1..Len(log) /\ Len(log) \in Nat
    BY <1>1, <1>2 DEF TypeInv
  <2>2. Kept(l)
    BY <2>1, <1>1, Zenon DEF LogInv
  <2> QED
    BY <2>1, <2>2, ElementOfSeq
<1> HIDE DEF l
<1>4. l.topic \in Seq(Byte) /\ l.raw \in Seq(Byte) /\ l.want \in Wanted
  BY <1>3 DEF Stored
<1>5. /\ x \in AnyEnvelope
      /\ DecodeEnvelope(l.raw).ok => DecodeStored(l.raw) = DecodeEnvelope(l.raw)
  BY <1>2, <1>4, DecodeStoredTypes
<1>6. ASSUME DecodeEnvelope(l.raw).ok PROVE x \in Envelope /\ x = DecodeEnvelope(l.raw).e
  <2>1. DecodeEnvelope(l.raw).e \in Envelope
    BY <1>4, <1>6, DecodeTypes
  <2>2. x = DecodeEnvelope(l.raw).e
    BY <1>5, <1>6, Zenon
  <2> QED
    BY <2>1, <2>2, Zenon
<1> HIDE DEF x
<1>7. e \in AnyEnvelope /\ e.idem = x.idem /\ e.props = <<>> /\ e.payload = x.payload
  <2>1. <<>> \in Seq(Byte)
    OBVIOUS
  <2> QED
    BY <2>1, <1>5 DEF AnyEnvelope
<1>8. ~Overlong(<<>>)
  <2>1. 1 \in Byte /\ 1 # 0
    BY DEF Byte
  <2> QED
    BY <2>1, <1>4, NewPublishType
<1> HIDE DEF e
<1>9. /\ raw \in Seq(Byte)
      /\ e.idem # 0 /\ ~Overlong(e.props) =>
            DecodeEnvelope(raw).ok /\ DecodeEnvelope(raw).e.payload = e.payload
  BY <1>3, <1>7, StoredWireFacts
<1> HIDE DEF raw
<1>10. m \in Stored /\ m.topic = l.topic /\ m.want = l.want /\ m.raw = raw
  BY <1>3, <1>9 DEF Stored
<1> HIDE DEF m
<1>11. Kept(m)
  <2>1. ASSUME Clear(l.want)
        PROVE  /\ l.topic = l.want.topic
               /\ DecodeEnvelope(raw).ok /\ DecodeEnvelope(raw).e.payload = l.want.payload
    <3>1. /\ l.topic = l.want.topic /\ DecodeEnvelope(l.raw).ok
          /\ DecodeEnvelope(l.raw).e.payload = l.want.payload
      BY <2>1, <1>3, Zenon DEF Kept
    <3>2. x \in Envelope /\ x = DecodeEnvelope(l.raw).e
      BY <3>1, <1>6, Zenon
    <3>3. x.idem # 0
      BY <3>2 DEF Envelope
    <3> QED
      BY <3>1, <3>2, <3>3, <1>7, <1>8, <1>9, Zenon
  <2> QED
    BY <2>1, <1>10, Zenon DEF Kept
<1>12. /\ log' \in Seq(Stored) /\ told' <= Len(log') /\ Len(log') <= MaxLog
       /\ LogInv' /\ ArrivesAsPublished'
       /\ Pending(log', Len(got'), told') = Pending(log, Len(got), told)
  BY <1>2, <1>10, <1>11, LogGrows
<1>13. TypeInv'
  BY <1>1, <1>2, <1>12, Zenon DEF TypeInv
<1>14. UpInv' /\ OpenInv' /\ EndsForCause'
  BY <1>1, <1>2, Zenon DEF UpInv, OpenInv, EndsForCause
<1>15. DownInv'
  BY <1>1, <1>2, <1>12, Zenon DEF DownInv
<1> QED
  BY <1>12, <1>13, <1>14, <1>15, Zenon DEF CodecInv

\* The SDK reads a packet: the next message is got, or none.
LEMMA SdkReadStep ==
    ASSUME CodecInv, SdkRead
    PROVE  CodecInv'
<1> DEFINE q == Incoming("down")
           down == wire["down"]
           G == Len(got)
           p == Pending(log, G, told)
           b == ParsePublishBody(q.body, ((q.head % 16) \div 2) % 4)
           d == DecodeEnvelope(b.payload)
           g == Want(b.topic, IF d.ok THEN d.e.payload ELSE b.payload)
<1>1. TypeInv /\ LogInv /\ UpInv /\ DownInv /\ OpenInv /\ ArrivesAsPublished /\ EndsForCause
  BY DEF CodecInv
<1>2. /\ got' = IF q.head \div 16 = 3 THEN Append(got, g) ELSE got
      /\ wire' = [wire EXCEPT !["down"] = q.rest]
      /\ dead' = dead /\ broken' = broken /\ phase' = phase /\ asked' = asked
      /\ greeted' = greeted /\ wants' = wants /\ log' = log /\ told' = told
      /\ sent' = sent /\ odd' = odd /\ failed' = failed
  BY DEF SdkRead
<1>3. phase = "up" /\ q.is = "whole" /\ q = ReadFrame(down, 0)
  BY DEF SdkRead, HasPacket, Reading, Incoming
<1>4. down \in Seq(Byte) /\ p \in Seq(Wanted) /\ 0 \in Nat
  BY <1>1, WireTypes, PendingType
<1>5. Flow(DownUnits, down, p, broken) /\ DownUnits \in SUBSET Units
  BY <1>1, <1>3, UnitSets, Zenon DEF DownInv
<1>6. Taken(DownUnits, down, p, broken, 0)
  <2> DEFINE limit == 0
  <2> HIDE DEF down, p, limit
  <2>1. limit \in Nat
    BY <1>4 DEF limit
  <2>2. Taken(DownUnits, down, p, broken, limit)
    BY <2>1, <1>4, <1>5, FlowTake, Zenon
  <2> QED
    BY <2>2 DEF limit
<1> HIDE DEF q, down, p
<1>7. PICK x \in DownUnits, y \in Seq(Wanted) :
        /\ q.rest \in Seq(Byte) /\ q.head = x.head /\ q.body = x.body
        /\ p = x.says \o y /\ Flow(DownUnits, q.rest, y, broken)
  BY <1>3, <1>6, Zenon DEF Taken
<1>8. q.head \in Byte /\ q.body \in Seq(Byte)
  <2>1. x \in Units
    BY <1>5
  <2>2. x.head \in Byte /\ x.body \in Seq(Byte)
    BY <2>1 DEF Units
  <2> QED
    BY <2>2, <1>7, Zenon
<1>9. wire'["down"] = q.rest /\ wire'["up"] = wire["up"] /\ wire' \in [Dirs -> Seq(Byte)]
  BY <1>1, <1>2, <1>7 DEF TypeInv, Dirs
<1>10. LogInv' /\ UpInv' /\ EndsForCause'
  BY <1>1, <1>2, <1>9, Zenon DEF LogInv, UpInv, EndsForCause
<1>11. OpenInv'
  BY <1>1, <1>2, <1>3 DEF OpenInv
<1>12. /\ got \in Seq(Wanted) /\ G \in Nat /\ told \in Nat /\ G <= told
       /\ told <= Len(log) /\ Len(log) \in Nat
  BY <1>1 DEF TypeInv
<1>13. CASE q.head \div 16 # 3
  <2>1. got' = got
    BY <1>2, <1>13, Zenon
  <2>2. x.says = <<>>
    <3>1. x.head \div 16 # 3
      BY <1>7, <1>13, Zenon
    <3> QED
      BY <3>1, Zenon DEF DownUnits
  <2>3. p = y
    BY <2>2, <1>7, WantedPieces, Zenon
  <2>4. TypeInv'
    BY <2>1, <1>1, <1>2, <1>9, Zenon DEF TypeInv
  <2>5. ArrivesAsPublished'
    BY <2>1, <1>1, <1>2, Zenon DEF ArrivesAsPublished
  <2>6. DownInv'
    BY <2>1, <2>3, <1>2, <1>3, <1>7, <1>9, Zenon DEF DownInv, p
  <2> QED
    BY <2>4, <2>5, <2>6, <1>10, <1>11, Zenon DEF CodecInv
<1>14. CASE q.head \div 16 = 3
  <2>1. got' = Append(got, g)
    BY <1>2, <1>14, Zenon
  <2>2. PICK w \in Wanted : x.says = <<w>> /\ Shows(q.head, q.body, w)
    <3>1. x.head \div 16 = 3
      BY <1>7, <1>14, Zenon
    <3>2. \E w \in Wanted : x.says = <<w>> /\ Shows(x.head, x.body, w)
      BY <3>1, Zenon DEF DownUnits
    <3> QED
      BY <3>2, <1>7, Zenon
  <2>3. G < told /\ w = log[G + 1].want /\ y = Pending(log, G + 1, told)
    <3>1. p = <<w>> \o y
      BY <2>2, <1>7, Zenon
    <3> QED
      BY <3>1, <1>1, PendingMoves, Zenon DEF p
  <2>4. b.topic \in Seq(Byte) /\ b.payload \in Seq(Byte)
    <3> DEFINE qos == ((q.head % 16) \div 2) % 4
    <3>1. qos \in Nat /\ 0 \in Nat
      <4>1. \A h \in 0..255 : ((h % 16) \div 2) % 4 \in Nat
        OBVIOUS
      <4> QED
        BY <4>1, <1>8, Zenon DEF Byte
    <3> HIDE DEF qos
    <3>2. ParsePublishBody(q.body, qos).topic \in Seq(Byte)
          /\ ParsePublishBody(q.body, qos).payload \in Seq(Byte)
      BY <3>1, <1>8, PublishTypes, Zenon
    <3> QED
      BY <3>2 DEF qos
  <2>5. Clear(w) => b.topic = w.topic /\ d.ok /\ d.e.payload = w.payload
    BY <2>2, Zenon DEF Shows
  <2> HIDE DEF b
  <2>6. d.ok \in BOOLEAN /\ (d.ok => d.e.payload \in Seq(Byte))
    <3>1. d.ok \in BOOLEAN /\ (d.ok => d.e \in Envelope)
      BY <2>4, DecodeTypes
    <3> HIDE DEF d
    <3> QED
      BY <3>1 DEF Envelope, AnyEnvelope
  <2> HIDE DEF d
  <2>7. g \in Wanted
    BY <2>4, <2>6 DEF Want, Wanted
  <2>8. Clear(w) => g = w
    <3>1. ASSUME Clear(w) PROVE g = w
      <4>1. g = Want(w.topic, w.payload)
        BY <2>5, <3>1, Zenon
      <4>2. w.type = "message"
        BY <3>1, Zenon DEF Clear
      <4>3. Want(w.topic, w.payload) = w
        BY <4>2 DEF Want, Wanted, Refused
      <4> QED
        BY <4>1, <4>3, Zenon
    <3> QED
      BY <3>1
  <2> HIDE DEF g
  <2>9. /\ got' \in Seq(Wanted) /\ Len(got') = G + 1 /\ DOMAIN got' = 1..(G + 1)
        /\ got'[G + 1] = g /\ \A i \in 1..G : got'[i] = got[i]
    BY <2>1, <2>7, <1>12 DEF G
  <2>10. TypeInv'
    <3>1. Len(got') <= told
      BY <2>3, <2>9, <1>12
    <3> QED
      BY <3>1, <2>9, <1>1, <1>2, <1>9, Zenon DEF TypeInv
  <2>11. DownInv'
    <3>1. Flow(DownUnits, wire'["down"], Pending(log', Len(got'), told'), broken')
      BY <2>3, <2>9, <1>2, <1>7, <1>9, Zenon
    <3> QED
      BY <3>1, <1>2, <1>3, Zenon DEF DownInv
  <2>12. ArrivesAsPublished'
    <3>1. ASSUME NEW i \in 1..(G + 1), log[i].want.type = "message",
                 ~Overlong(log[i].want.topic)
          PROVE  got'[i] = log[i].want
      <4>1. CASE i = G + 1
        <5>1. Clear(w)
          BY <3>1, <4>1, <2>3, Zenon DEF Clear
        <5> QED
          BY <5>1, <4>1, <2>3, <2>8, <2>9, Zenon
      <4>2. CASE i # G + 1
        <5>1. i \in 1..G
          BY <4>2, <1>12
        <5>2. DOMAIN got = 1..G
          BY <1>12 DEF G
        <5>3. got[i] = log[i].want
          BY <5>1, <5>2, <3>1, <1>1, Zenon DEF ArrivesAsPublished
        <5> QED
          BY <5>1, <5>3, <2>9, Zenon
      <4> QED
        BY <4>1, <4>2
    <3> QED
      BY <3>1, <2>9, <1>2, Zenon DEF ArrivesAsPublished
  <2> QED
    BY <2>10, <2>11, <2>12, <1>10, <1>11, Zenon DEF CodecInv
<1> QED
  BY <1>13, <1>14

\* Every step of the client, the broker and the connection keeps the invariant.
LEMMA NextInv ==
    CodecInv /\ [Next]_vars => CodecInv'
<1> SUFFICES ASSUME CodecInv, [Next]_vars PROVE CodecInv'
  OBVIOUS
<1>1. ASSUME NEW o \in Options(FALSE), Connect(o, ConnectPacket(o)) PROVE CodecInv'
  <2>1. ~o.will
    BY DEF Options
  <2>2. o \in AllOptions /\ Connect(o, OpeningPacket(o))
    BY <2>1, <1>1, Zenon DEF AllOptions, OpeningPacket
  <2> QED
    BY <2>2, ConnectStep, Zenon
<1>2. ASSUME NEW o \in Options(TRUE), Connect(o, WillPacket(o)) PROVE CodecInv'
  <2>1. o.will
    BY DEF Options
  <2>2. o \in AllOptions /\ Connect(o, OpeningPacket(o))
    BY <2>1, <1>2, Zenon DEF AllOptions, OpeningPacket
  <2> QED
    BY <2>2, ConnectStep, Zenon
<1>3. CASE ReadConnAck
  BY <1>3, ReadConnAckStep, Zenon
<1>4. ASSUME NEW t \in Topics, NEW p \in Payloads,
             \/ \E qos \in {0, 1} : Publish(t, p, qos)
             \/ PublishPlain(t, p) \/ PublishProps(t, p)
      PROVE  CodecInv'
  BY <1>4, PublishStep, Zenon
<1>5. CASE \/ \E t \in Topics : Subscribe(t, 1)
           \/ SendPubAck(1)
           \/ SendOther(Heads, Bodies)
           \/ SendOther(BareHeads, {<<>>})
  BY <1>5, OtherSendStep, Zenon
<1>6. ASSUME NEW d \in Dirs, ReadFails(d) PROVE CodecInv'
  BY <1>6, ReadFailsStep, Zenon
<1>7. ASSUME NEW d \in Dirs, Break(d) PROVE CodecInv'
  BY <1>7, BreakStep, Zenon
<1>8. CASE HandleConnect
  BY <1>8, HandleConnectStep, Zenon
<1>9. CASE HandleEnd
  BY <1>9, HandleEndStep, Zenon
<1>10. CASE HandlePublish
  BY <1>10, HandlePublishStep, Zenon
<1>11. CASE HandleOther
  BY <1>11, HandleOtherStep, Zenon
<1>17. CASE HandleDuplicate \/ PublishFails \/ SubscribeFails
  BY <1>17, HandleNothingStep, Zenon
<1>12. ASSUME NEW qos \in {0, 1}, NEW dup \in BOOLEAN, Deliver(qos, dup) PROVE CodecInv'
  BY <1>12, DeliverStep, Zenon
<1>13. ASSUME NEW n \in 1..MaxLog, Replay(n) PROVE CodecInv'
  BY <1>13, ReplayStep, Zenon
<1>14. CASE SdkRead
  BY <1>14, SdkReadStep, Zenon
<1>15. CASE UNCHANGED vars
  <2>1. /\ wire' = wire /\ dead' = dead /\ broken' = broken /\ phase' = phase
        /\ asked' = asked /\ greeted' = greeted /\ wants' = wants /\ log' = log
        /\ told' = told /\ got' = got /\ sent' = sent /\ odd' = odd /\ failed' = failed
    BY <1>15 DEF vars
  <2>2. TypeInv' /\ LogInv' /\ UpInv'
    BY <2>1, Zenon DEF CodecInv, TypeInv, LogInv, UpInv
  <2>3. DownInv' /\ OpenInv'
    BY <2>1, Zenon DEF CodecInv, DownInv, OpenInv
  <2>4. ArrivesAsPublished' /\ EndsForCause'
    BY <2>1, Zenon DEF CodecInv, ArrivesAsPublished, EndsForCause
  <2> QED
    BY <2>2, <2>3, <2>4, Zenon DEF CodecInv
<1>16. 0 \in {0, 1} /\ 1 \in {0, 1} /\ FALSE \in BOOLEAN
  OBVIOUS
<1> QED
  BY <1>1, <1>2, <1>3, <1>4, <1>5, <1>6, <1>7, <1>8, <1>9, <1>10, <1>11, <1>12, <1>13, <1>14,
     <1>15, <1>16, <1>17, Zenon DEF Next

-----------------------------------------------------------------------------
(* What is promised. *)

\* The inductive invariant holds in every reachable state of the exchange of bytes.
THEOREM CodecAlways ==
    Spec => []CodecInv
BY InitInv, NextInv, PTL DEF Spec

\* The streams and the readers have their types, for data of any length: what ReadPacket,
\* readPacketFlags and WritePublish put on the wire or leave on it are bytes, and no more
\* is handed over than was told.
THEOREM CodecTypes ==
    Spec => []CodecTypeOK
<1>1. CodecInv => CodecTypeOK
  BY DEF CodecInv, TypeInv, CodecTypeOK
<1> QED
  BY <1>1, CodecAlways, PTL

\* What arrives is what was published, for topics and payloads of any length: through
\* writePublish, parsePublish, the envelope, the store, a replay, WritePublish and
\* parsePublishBody.
THEOREM Arrives ==
    Spec => []ArrivesAsPublished
<1>1. CodecInv => ArrivesAsPublished
  BY DEF CodecInv
<1> QED
  BY <1>1, CodecAlways, PTL

\* The broker's readLoop ends for a cause only: the stream broke off, a handler returned
\* an error, or the client sent what is not taken. A stream of whole packets is never
\* read out of step, whatever their lengths.
THEOREM Ends ==
    Spec => []EndsForCause
<1>1. CodecInv => EndsForCause
  BY DEF CodecInv
<1> QED
  BY <1>1, CodecAlways, PTL

\* parseConnect finds the client id, the user name and the password that were written, for
\* names of any length that fits, with a will and without.
THEOREM Identity ==
    Spec => []IdentityKept
<1>1. CodecInv => IdentityKept
  <2> SUFFICES ASSUME CodecInv, HasPacket("up"), ~greeted
               PROVE  /\ Received.type = "CONNECT" /\ Received.id = asked.id
                      /\ Received.name = asked.name
                      /\ Received.pass = IF asked.name = <<>> /\ ~asked.will THEN <<>>
                                         ELSE asked.pass
    BY Zenon DEF IdentityKept
  <2>1. UpReady
    BY UpTaken, Zenon
  <2>2. phase # "new"
    BY <2>1, Zenon DEF UpReady
  <2>3. phase = "connecting"
    BY <2>2 DEF CodecInv, TypeInv, OpenInv
  <2> QED
    BY <2>1, <2>3, Zenon DEF UpReady
<1> QED
  BY <1>1, CodecAlways, PTL

-----------------------------------------------------------------------------
(* Bodies of any client: what is accepted is read to its last byte. *)

\* The bytes of b after the first m, up to the first n.
Slice(b, m, n) == SubSeq(b, m + 1, n)

\* Slices that meet are joined; every sequence is a slice of itself.
LEMMA SliceJoin ==
    ASSUME NEW b \in Seq(Byte), NEW m \in Nat, NEW k \in Nat, NEW n \in Nat,
           m <= k, k <= n, n <= Len(b)
    PROVE  /\ Slice(b, m, n) = Slice(b, m, k) \o Slice(b, k, n)
           /\ Slice(b, m, n) \in Seq(Byte) /\ Slice(b, m, k) \in Seq(Byte)
           /\ Slice(b, k, n) \in Seq(Byte)
<1> DEFINE x == Slice(b, m, k)
           y == Slice(b, k, n)
           z == Slice(b, m, n)
           c == x \o y
<1>1. Len(b) \in Nat /\ m <= n /\ k <= Len(b)
  OBVIOUS
<1>2. x \in Seq(Byte) /\ Len(x) = k - m /\ \A i \in 1..(k - m) : x[i] = b[m + i]
  BY <1>1, ByteSub DEF Slice
<1>3. y \in Seq(Byte) /\ Len(y) = n - k /\ \A i \in 1..(n - k) : y[i] = b[k + i]
  BY <1>1, ByteSub DEF Slice
<1>4. z \in Seq(Byte) /\ Len(z) = n - m /\ \A i \in 1..(n - m) : z[i] = b[m + i]
  BY <1>1, ByteSub DEF Slice
<1> HIDE DEF x, y, z
<1>5. /\ c \in Seq(Byte) /\ Len(c) = Len(x) + Len(y)
      /\ \A i \in 1..Len(x) : c[i] = x[i]
      /\ \A i \in 1..Len(y) : c[Len(x) + i] = y[i]
  <2>1. x \in Seq(Byte) /\ y \in Seq(Byte)
    BY <1>2, <1>3, Zenon
  <2> QED
    BY <2>1, TwoPieces DEF c
<1> HIDE DEF c
<1>6. Len(c) = n - m
  BY <1>2, <1>3, <1>5
<1>7. ASSUME NEW i \in 1..(n - m) PROVE c[i] = z[i]
  <2>1. CASE i <= k - m
    <3>1. i \in 1..(k - m)
      BY <2>1
    <3> QED
      BY <3>1, <1>2, <1>4, <1>5, <1>7, Zenon
  <2>2. CASE ~(i <= k - m)
    <3> DEFINE l == k - m
               j == i - l
    <3>1. j \in 1..(n - k) /\ l + j = i /\ k + j = m + i
      BY <2>2
    <3> HIDE DEF l, j
    <3>2. c[l + j] = y[j] /\ y[j] = b[k + j]
      BY <3>1, <1>2, <1>3, <1>5, Zenon DEF l
    <3> QED
      BY <3>1, <3>2, <1>4, <1>7, Zenon
  <2> QED
    BY <2>1, <2>2
<1>8. c = z
  BY <1>4, <1>5, <1>6, <1>7, SeqEqual
<1> QED
  BY <1>2, <1>3, <1>4, <1>8, Zenon DEF c, x, y, z

\* The whole, one byte and, where bytes are digits, a 16-bit number.
LEMMA SliceFacts ==
    ASSUME NEW b \in Seq(Byte)
    PROVE  /\ Slice(b, 0, Len(b)) = b
           /\ \A m \in Nat : m <= Len(b) => Slice(b, m, m) = <<>>
           /\ \A m \in Nat : m + 1 <= Len(b) => Slice(b, m, m + 1) = <<b[m + 1]>>
           /\ \A m \in Nat : LenBase = 256 /\ m + 2 <= Len(b)
                                => Slice(b, m, m + 2) = U16(Num(b, m))
<1>1. Len(b) \in Nat
  OBVIOUS
<1>2. Slice(b, 0, Len(b)) = b
  <2>1. SubSeq(b, 1, Len(b)) = b
    BY <1>1
  <2> QED
    BY <2>1 DEF Slice
<1>3. ASSUME NEW m \in Nat, m <= Len(b) PROVE Slice(b, m, m) = <<>>
  BY <1>1, <1>3 DEF Slice
<1>4. ASSUME NEW m \in Nat, m + 1 <= Len(b) PROVE Slice(b, m, m + 1) = <<b[m + 1]>>
  <2> DEFINE s == Slice(b, m, m + 1)
             t == <<b[m + 1]>>
             n == m + 1
  <2>1. n \in Nat /\ m <= n /\ n <= Len(b) /\ n - m = 1 /\ n \in 1..Len(b)
    BY <1>1, <1>4
  <2>2. b[n] \in Byte
    BY <2>1, ElementOfSeq
  <2>3. s \in Seq(Byte) /\ Len(s) = 1 /\ s[1] = b[n]
    <3> HIDE DEF n
    <3>1. /\ Slice(b, m, n) \in Seq(Byte) /\ Len(Slice(b, m, n)) = n - m
          /\ \A i \in 1..(n - m) : Slice(b, m, n)[i] = b[m + i]
      BY <2>1, ByteSub DEF Slice
    <3>2. 1 \in 1..1
      OBVIOUS
    <3>3. s = Slice(b, m, n) /\ b[m + 1] = b[n]
      BY DEF n
    <3> HIDE DEF s
    <3> QED
      BY <3>1, <3>2, <3>3, <2>1, Zenon
  <2>4. t \in Seq(Byte) /\ Len(t) = 1 /\ t[1] = b[n]
    BY <2>2
  <2> HIDE DEF s, t, n
  <2>5. s = t
    BY <2>3, <2>4
  <2> QED
    BY <2>5 DEF s, t
<1>5. ASSUME NEW m \in Nat, LenBase = 256, m + 2 <= Len(b)
      PROVE  Slice(b, m, m + 2) = U16(Num(b, m))
  <2> DEFINE n == m + 2
             s == Slice(b, m, m + 2)
             hi == b[m + 1]
             lo == b[m + 2]
             t == U16(Num(b, m))
  <2>1. /\ n \in Nat /\ m <= n /\ n <= Len(b) /\ n - m = 2
        /\ m + 1 \in 1..Len(b) /\ m + 2 \in 1..Len(b)
    BY <1>1, <1>5
  <2>2. hi \in Byte /\ lo \in Byte
    BY <2>1, ElementOfSeq
  <2>3. s \in Seq(Byte) /\ Len(s) = 2 /\ s[1] = hi /\ s[2] = lo
    <3> HIDE DEF n
    <3>1. /\ Slice(b, m, n) \in Seq(Byte) /\ Len(Slice(b, m, n)) = n - m
          /\ \A i \in 1..(n - m) : Slice(b, m, n)[i] = b[m + i]
      BY <2>1, ByteSub DEF Slice
    <3>2. 1 \in 1..2 /\ 2 \in 1..2
      OBVIOUS
    <3>3. s = Slice(b, m, n)
      BY DEF n
    <3> HIDE DEF s
    <3> QED
      BY <3>1, <3>2, <3>3, <2>1, Zenon
  <2> HIDE DEF s, hi, lo
  <2>4. t = <<hi, lo>>
    <3>1. t = <<((hi * 256 + lo) \div 256) % 256, (hi * 256 + lo) % 256>>
      BY <1>5 DEF U16, Num, hi, lo
    <3> DEFINE TwoDigits(x, y) ==
                ((x * 256 + y) \div 256) % 256 = x /\ (x * 256 + y) % 256 = y
    <3>2. \A x, y \in 0..255 : TwoDigits(x, y)
      OBVIOUS
    <3>3. ((hi * 256 + lo) \div 256) % 256 = hi /\ (hi * 256 + lo) % 256 = lo
      <4>1. hi \in 0..255 /\ lo \in 0..255
        BY <2>2 DEF Byte
      <4> HIDE DEF TwoDigits
      <4>2. TwoDigits(hi, lo)
        BY <4>1, <3>2, Zenon
      <4> QED BY <4>2, Zenon DEF TwoDigits
    <3> QED
      BY <3>1, <3>3
  <2>5. s = <<hi, lo>>
    <3> DEFINE r == <<hi, lo>>
    <3>1. r \in Seq(Byte) /\ Len(r) = 2 /\ r[1] = hi /\ r[2] = lo
      BY <2>2
    <3> HIDE DEF r
    <3>2. s = r
      BY <3>1, <2>3
    <3> QED
      BY <3>2 DEF r
  <2> QED
    BY <2>4, <2>5 DEF s, t
<1> QED
  BY <1>2, <1>3, <1>4, <1>5, Zenon

\* A string that is read is the one that is there.
LEMMA SliceString ==
    ASSUME LenBase = 256, NEW b \in Seq(Byte), NEW pos \in Nat, ReadString(b, pos).ok
    PROVE  Slice(b, pos, ReadString(b, pos).pos) = EncodeString(ReadString(b, pos).s)
<1> DEFINE r == ReadString(b, pos)
           s == r.s
           p == r.pos
           k == pos + 2
<1>1. /\ s \in Seq(Byte) /\ p \in Nat /\ p = pos + 2 + Len(s) /\ p <= Len(b)
      /\ Len(s) = Num(b, pos) /\ s = SubSeq(b, pos + 3, p) /\ Len(s) \in Nat
  BY StringTypes
<1> HIDE DEF s, p
<1>2. k \in Nat /\ pos <= k /\ k <= p /\ k + 1 = pos + 3 /\ pos + 2 <= Len(b)
  BY <1>1
<1>3. Slice(b, pos, k) = U16(Len(s))
  <2>1. Slice(b, pos, pos + 2) = U16(Num(b, pos))
    BY <1>2, SliceFacts, Zenon
  <2> QED
    BY <2>1, <1>1 DEF k
<1>4. Slice(b, k, p) = s
  <2> HIDE DEF k
  <2> QED
    BY <1>1, <1>2 DEF Slice
<1>5. Slice(b, pos, p) = Slice(b, pos, k) \o Slice(b, k, p)
  <2> HIDE DEF k
  <2>1. k \in Nat /\ p \in Nat /\ pos <= k /\ k <= p /\ p <= Len(b)
    BY <1>1, <1>2, Zenon
  <2> QED
    BY <2>1, SliceJoin, Zenon
<1> HIDE DEF k
<1>6. Slice(b, pos, p) = EncodeString(s)
  BY <1>3, <1>4, <1>5, Zenon DEF EncodeString
<1> QED
  BY <1>6 DEF s, p, r

\* The parts of an accepted PUBLISH, put together, are its body.
LEMMA PublishWhole ==
    ASSUME LenBase = 256, NEW b \in Seq(Byte), NEW flags \in Nat,
           ParsePublish(flags, b).type = "PUBLISH"
    PROVE  LET p == ParsePublish(flags, b)
           IN b = PublishBody(p.topic, p.qos, p.id, p.payload)
<1> DEFINE p == ParsePublish(flags, b)
           qos == (flags \div 2) % 4
           t == ReadString(b, 0)
           e == t.pos
           start == e + (IF qos > 0 THEN 2 ELSE 0)
           L == Len(b)
<1>1. L \in Nat /\ 0 \in Nat
  OBVIOUS
<1>2. t.ok \in BOOLEAN /\ t.s \in Seq(Byte) /\ e \in Nat /\ (t.ok => e <= L)
  BY <1>1, StringTypes
<1>3. t.ok /\ ~(start > L)
  <2> SUFFICES ASSUME ~t.ok \/ start > L PROVE FALSE
    BY <1>2
  <2>1. p = Refused
    BY DEF ParsePublish
  <2>2. p.type = "refused"
    <3> HIDE DEF p
    <3> QED
      BY <2>1 DEF Refused
  <2> QED
    BY <2>2
<1> DEFINE id == IF qos > 0 THEN Num(b, e) ELSE 0
           pa == SubSeq(b, start + 1, L)
<1>4. p.topic = t.s /\ p.qos = qos /\ p.id = id /\ p.payload = pa
  BY <1>3 DEF ParsePublish
<1> HIDE DEF p, L
<1>5. Slice(b, 0, e) = EncodeString(t.s)
  BY <1>1, <1>3, SliceString, Zenon
<1> HIDE DEF t
<1>6. start \in Nat /\ e <= start /\ start <= L /\ 0 <= e /\ 0 <= start /\ L <= L
  BY <1>1, <1>2, <1>3
<1>7. Slice(b, e, start) = IF qos > 0 THEN U16(id) ELSE <<>>
  <2>1. CASE qos > 0
    <3>1. e + 2 <= L /\ start = e + 2
      BY <2>1, <1>6, <1>2
    <3>2. Slice(b, e, e + 2) = U16(Num(b, e))
      BY <3>1, <1>2, SliceFacts, Zenon DEF L
    <3> QED
      BY <2>1, <3>1, <3>2
  <2>2. CASE ~(qos > 0)
    <3>1. start = e /\ e <= L
      BY <2>2, <1>6, <1>2
    <3>2. Slice(b, e, e) = <<>>
      BY <3>1, <1>2, SliceFacts, Zenon DEF L
    <3> QED
      BY <2>2, <3>1, <3>2
  <2> QED
    BY <2>1, <2>2
<1> HIDE DEF start, e
<1>8. Slice(b, start, L) = pa
  BY DEF Slice
<1>9. Slice(b, 0, start) = Slice(b, 0, e) \o Slice(b, e, start)
  <2>1. 0 \in Nat /\ e \in Nat /\ start \in Nat /\ 0 <= e /\ e <= start /\ start <= Len(b)
    BY <1>1, <1>2, <1>6, Zenon DEF L
  <2> QED
    BY <2>1, SliceJoin, Zenon
<1>10. Slice(b, 0, L) = Slice(b, 0, start) \o Slice(b, start, L)
  BY <1>1, <1>6, SliceJoin, Zenon DEF L
<1>11. Slice(b, 0, L) = b
  BY SliceFacts, Zenon DEF L
<1> HIDE DEF pa, id, qos
<1>12. b = (EncodeString(t.s) \o (IF qos > 0 THEN U16(id) ELSE <<>>)) \o pa
  BY <1>5, <1>7, <1>8, <1>9, <1>10, <1>11, Zenon
<1>13. b = PublishBody(t.s, qos, id, pa)
  BY <1>12, Zenon DEF PublishBody
<1> QED
  BY <1>4, <1>13, Zenon DEF p

\* The pieces of b between the places e[0], e[1], ..., e[n].
Pieces(b, e, s, n) ==
    /\ s = [i \in 1..n |-> s[i]] /\ Len(s) = n
    /\ \A i \in 0..n : e[i] \in Nat /\ e[0] <= e[i] /\ e[i] <= Len(b)
    /\ \A i \in 1..n : e[i - 1] <= e[i] /\ s[i] = Slice(b, e[i - 1], e[i])

\* Pieces that meet, put together, are what lies between the first place and the last.
LEMMA FlattenPieces ==
    ASSUME NEW b \in Seq(Byte), NEW n \in Nat, NEW e, NEW s, Pieces(b, e, s, n)
    PROVE  FlattenSeq(s) = Slice(b, e[0], e[n])
<1>1. /\ \A i \in 0..n : e[i] \in Nat /\ e[0] <= e[i] /\ e[i] <= Len(b)
      /\ \A i \in 1..n : e[i - 1] <= e[i] /\ s[i] = Slice(b, e[i - 1], e[i])
      /\ s = [i \in 1..n |-> s[i]] /\ Len(s) = n
  BY Zenon DEF Pieces
<1>2. CASE n = 0
  <2>1. s = <<>>
    BY <1>1, <1>2
  <2>2. FlattenSeq(s) = s
    BY <1>1, <1>2 DEF FlattenSeq
  <2>3. 0 \in 0..n
    BY <1>2
  <2>4. Slice(b, e[0], e[0]) = <<>>
    BY <2>3, <1>1, SliceFacts, Zenon
  <2> QED
    BY <2>1, <2>2, <2>4, <1>2, Zenon
<1>3. CASE n # 0
  <2> DEFINE Eqn(f) == f = [i \in 1..n |-> IF i = 1 THEN s[i] ELSE f[i - 1] \o s[i]]
             flat == CHOOSE f : Eqn(f)
             h == [i \in 1..n |-> Slice(b, e[0], e[i])]
  <2>1. FlattenSeq(s) = flat[n]
    BY <1>1, <1>3 DEF FlattenSeq
  <2>2. ASSUME NEW i \in 1..n, i # 1
        PROVE  i - 1 \in 1..n /\ Slice(b, e[0], e[i]) = Slice(b, e[0], e[i - 1]) \o s[i]
    <3> DEFINE k == i - 1
    <3>1. k \in 1..n /\ k \in 0..n /\ 0 \in 0..n /\ i \in 0..n
      BY <2>2
    <3> HIDE DEF k
    <3>2. e[0] \in Nat /\ e[k] \in Nat /\ e[i] \in Nat /\ e[0] <= e[k] /\ e[i] <= Len(b)
      BY <3>1, <1>1, Zenon
    <3>3. e[k] <= e[i] /\ s[i] = Slice(b, e[k], e[i])
      BY <1>1 DEF k
    <3>4. Slice(b, e[0], e[i]) = Slice(b, e[0], e[k]) \o Slice(b, e[k], e[i])
      BY <3>2, <3>3, SliceJoin, Zenon
    <3>5. k \in 1..n /\ Slice(b, e[0], e[i]) = Slice(b, e[0], e[k]) \o s[i]
      BY <3>1, <3>3, <3>4, Zenon
    <3> QED
      BY <3>5 DEF k
  <2>3. 1 \in 1..n /\ 1 - 1 = 0
    BY <1>3
  <2>4. s[1] = Slice(b, e[0], e[1])
    BY <2>3, <1>1
  <2>5. Eqn(h)
    <3>1. ASSUME NEW i \in 1..n PROVE h[i] = IF i = 1 THEN s[i] ELSE h[i - 1] \o s[i]
      <4>1. CASE i = 1
        <5>1. h[i] = Slice(b, e[0], e[1])
          BY <4>1, Zenon
        <5> QED
          BY <4>1, <5>1, <2>4, Zenon
      <4>2. CASE i # 1
        <5>1. i - 1 \in 1..n /\ Slice(b, e[0], e[i]) = Slice(b, e[0], e[i - 1]) \o s[i]
          BY <2>2, <4>2, Zenon
        <5>2. h[i] = Slice(b, e[0], e[i]) /\ h[i - 1] = Slice(b, e[0], e[i - 1])
          BY <5>1, Zenon
        <5> QED
          BY <4>2, <5>1, <5>2, Zenon
      <4> QED
        BY <4>1, <4>2, Zenon
    <3> QED
      BY <3>1, Zenon
  <2>6. Eqn(flat)
    <3> HIDE DEF h, Eqn
    <3> QED
      BY <2>5
  <2> HIDE DEF flat
  <2>7. \A i \in 1..n : flat[i] = IF i = 1 THEN s[i] ELSE flat[i - 1] \o s[i]
    BY <2>6, Zenon
  <2> DEFINE P == {i \in Nat : i + 1 <= n => flat[i + 1] = Slice(b, e[0], e[i + 1])}
  <2>8. 0 \in P
    <3>1. flat[1] = s[1]
      BY <2>3, <2>7
    <3>2. flat[1] = Slice(b, e[0], e[1])
      BY <3>1, <2>4
    <3> QED
      BY <3>2
  <2>9. ASSUME NEW i \in P PROVE i + 1 \in P
    <3> DEFINE k == i + 1
               j == k + 1
    <3>1. i \in Nat /\ k \in Nat /\ (k <= n => flat[k] = Slice(b, e[0], e[k]))
      OBVIOUS
    <3>2. ASSUME j <= n PROVE flat[j] = Slice(b, e[0], e[j])
      <4>1. j \in 1..n /\ j # 1 /\ j - 1 = k /\ k <= n
        BY <3>1, <3>2
      <4> HIDE DEF P, k, j
      <4>2. flat[j] = flat[k] \o s[j]
        BY <4>1, <2>7, Zenon
      <4>3. Slice(b, e[0], e[j]) = Slice(b, e[0], e[k]) \o s[j]
        BY <4>1, <2>2, Zenon
      <4> QED
        BY <4>1, <4>2, <4>3, <3>1, Zenon
    <3> QED
      BY <3>1, <3>2
  <2>10. P = Nat
    <3>1. P \in SUBSET Nat
      OBVIOUS
    <3> HIDE DEF P
    <3> QED
      BY <2>8, <2>9, <3>1, SetInduction
  <2>11. flat[n] = Slice(b, e[0], e[n])
    <3> DEFINE i == n - 1
    <3>1. i \in Nat /\ i + 1 = n /\ i + 1 <= n
      BY <1>3
    <3> HIDE DEF i
    <3>2. i \in P
      BY <3>1, <2>10
    <3>3. flat[i + 1] = Slice(b, e[0], e[i + 1])
      BY <3>1, <3>2
    <3> QED
      BY <3>1, <3>3
  <2> QED
    BY <2>1, <2>11
<1> QED
  BY <1>2, <1>3

\* A place that a filter ends at, and the filter, which starts at pos.
LEMMA NextEndFacts ==
    ASSUME NEW b \in Seq(Byte), NEW width \in {0, 1}, NEW pos \in Nat,
           NextEnd(b, width, pos) <= Len(b)
    PROVE  LET f == ReadString(b, pos) IN
           /\ f.ok /\ f.s \in Seq(Byte) /\ f.pos \in Nat /\ pos + 2 <= f.pos
           /\ NextEnd(b, width, pos) = f.pos + width /\ f.pos + width <= Len(b)
           /\ pos <= Len(b)
<1> DEFINE f == ReadString(b, pos)
<1>1. /\ f.ok \in BOOLEAN /\ f.s \in Seq(Byte) /\ f.pos \in Nat
      /\ f.ok => f.pos = pos + 2 + Len(f.s) /\ f.pos <= Len(b)
      /\ Len(f.s) \in Nat /\ Len(b) \in Nat
  BY StringTypes
<1> HIDE DEF f
<1>2. f.ok /\ f.pos + width <= Len(b)
  BY <1>1 DEF NextEnd, f
<1>3. NextEnd(b, width, pos) = f.pos + width
  BY <1>2 DEF NextEnd, f
<1>4. pos + 2 <= f.pos /\ pos <= Len(b)
  <2>1. \A x, y, z, w \in Nat : x = y + 2 + z /\ x <= w => y + 2 <= x /\ y <= w
    OBVIOUS
  <2> QED
    BY <2>1, <1>1, <1>2, Zenon
<1> QED
  BY <1>1, <1>2, <1>3, <1>4 DEF f

\* The filters end inside the body up to the one that fills it.
LEMMA EndsInside ==
    ASSUME NEW b \in Seq(Byte), NEW width \in {0, 1}, NEW n \in Nat, n <= Len(b),
           FilterEnds(b, width)[n] = Len(b), 2 <= Len(b)
    PROVE  LET end == FilterEnds(b, width) IN
           /\ \A i \in 0..n : end[i] \in Nat /\ end[i] <= Len(b) /\ end[0] <= end[i]
           /\ end[0] = 2
           /\ \A i \in 1..n : /\ end[i] = NextEnd(b, width, end[i - 1])
                              /\ i - 1 \in 0..n
<1> DEFINE end == FilterEnds(b, width)
           L == Len(b)
<1>1. L \in Nat
  OBVIOUS
<1>2. /\ end \in [0..L -> Nat] /\ end[0] = 2
      /\ \A i \in 1..L : end[i] = NextEnd(b, width, end[i - 1])
  BY FilterEndsDef
<1>3. end[n] = L
  OBVIOUS
<1> HIDE DEF end, L
<1>4. /\ \A i \in 0..n : i \in 0..L
      /\ \A i \in 1..n : i \in 1..L /\ i - 1 \in 0..n
  BY <1>1 DEF L
<1>5. \A i \in 0..n : end[i] \in Nat
  BY <1>2, <1>4
<1>6. \A i \in 1..n : end[i] = NextEnd(b, width, end[i - 1])
  BY <1>2, <1>4, Zenon
<1>7. ASSUME NEW i \in 0..n PROVE end[i] <= L
  <2> SUFFICES ASSUME end[i] > L PROVE FALSE
    BY <1>1, <1>5
  <2> DEFINE P == {j \in Nat : i + j <= n => end[i + j] > L}
  <2>1. 0 \in P
    OBVIOUS
  <2>2. ASSUME NEW j \in P PROVE j + 1 \in P
    <3> DEFINE k == i + j
               m == k + 1
    <3>1. j \in Nat /\ k \in Nat /\ i + (j + 1) = m /\ (k <= n => end[k] > L)
      OBVIOUS
    <3>2. ASSUME m <= n PROVE end[m] > L
      <4>1. m \in 1..n /\ m - 1 = k /\ k \in 0..n /\ m \in 0..n /\ k <= n
        BY <3>1, <3>2
      <4> HIDE DEF P, k, m
      <4>2. end[m] = NextEnd(b, width, end[k]) /\ end[k] \in Nat /\ end[m] \in Nat /\ end[k] > L
        BY <4>1, <3>1, <1>5, <1>6, Zenon
      <4> SUFFICES ASSUME end[m] <= L PROVE FALSE
        BY <4>2, <1>1
      <4>3. NextEnd(b, width, end[k]) <= Len(b)
        BY <4>2, Zenon DEF L
      <4>4. end[k] <= Len(b)
        BY <4>2, <4>3, NextEndFacts
      <4> QED
        BY <4>2, <4>4, <1>1 DEF L
    <3> QED
      BY <3>1, <3>2
  <2>3. P = Nat
    <3>1. P \in SUBSET Nat
      OBVIOUS
    <3> HIDE DEF P
    <3> QED
      BY <2>1, <2>2, <3>1, SetInduction
  <2>4. n - i \in P /\ i + (n - i) = n /\ n <= n
    <3>1. n - i \in Nat /\ i + (n - i) = n /\ n <= n
      OBVIOUS
    <3> QED
      BY <2>3, <3>1, Zenon
  <2>5. end[n] > L
    BY <2>4
  <2> QED
    BY <2>5, <1>1, <1>3
<1>8. ASSUME NEW i \in 0..n PROVE 2 <= end[i]
  <2>1. CASE i = 0
    BY <2>1, <1>2
  <2>2. CASE i # 0
    <3> DEFINE k == i - 1
    <3>1. k \in 0..n /\ i \in 1..n
      BY <2>2
    <3>2. end[i] = NextEnd(b, width, end[k])
      BY <3>1, <1>6
    <3> HIDE DEF k
    <3>3. end[k] \in Nat /\ NextEnd(b, width, end[k]) <= Len(b)
      BY <3>1, <3>2, <1>5, <1>7, Zenon DEF L
    <3>4. LET f == ReadString(b, end[k]) IN f.pos \in Nat /\ end[k] + 2 <= f.pos
            /\ NextEnd(b, width, end[k]) = f.pos + width
      BY <3>3, NextEndFacts
    <3> QED
      BY <3>2, <3>3, <3>4
  <2> QED
    BY <2>1, <2>2
<1> QED
  BY <1>2, <1>4, <1>5, <1>6, <1>7, <1>8, Zenon DEF end, L

\* One filter of an accepted body, as it lies there.
FilterAt(b, width, n, i) ==
    LET end == FilterEnds(b, width)
        f == Filters(b, width, n)[i]
    IN /\ end[i - 1] <= end[i] /\ end[i] \in 1..Len(b) /\ f.name \in Seq(Byte)
       /\ Slice(b, end[i - 1], end[i])
            = EncodeString(f.name) \o (IF width = 1 THEN <<b[end[i]]>> ELSE <<>>)
       /\ width = 1 => b[end[i]] % 4 = f.qos

\* Every one of them does, and all of them fill the body.
LEMMA FiltersWhole ==
    ASSUME LenBase = 256, NEW b \in Seq(Byte), NEW width \in {0, 1}, NEW n \in Nat, n <= Len(b),
           FilterEnds(b, width)[n] = Len(b), 2 <= Len(b)
    PROVE  /\ \A i \in 1..n : FilterAt(b, width, n, i)
           /\ b = U16(Num(b, 0)) \o FlattenSeq([i \in 1..n |->
                        Slice(b, FilterEnds(b, width)[i - 1], FilterEnds(b, width)[i])])
<1> DEFINE end == FilterEnds(b, width)
<1>1. /\ \A i \in 0..n : end[i] \in Nat /\ end[i] <= Len(b) /\ end[0] <= end[i]
      /\ end[0] = 2
      /\ \A i \in 1..n : end[i] = NextEnd(b, width, end[i - 1]) /\ i - 1 \in 0..n
  BY EndsInside
<1>2. Len(b) \in Nat /\ end[n] = Len(b)
  OBVIOUS
<1> HIDE DEF end
<1>3. ASSUME NEW i \in 1..n PROVE FilterAt(b, width, n, i)
  <2> DEFINE p == end[i - 1]
             f == ReadString(b, p)
             e == f.pos
             F == Filters(b, width, n)[i]
  <2>1. i \in 0..n /\ i - 1 \in 0..n
    BY <1>1
  <2>2. p \in Nat /\ end[i] = NextEnd(b, width, p) /\ end[i] <= Len(b) /\ end[i] \in Nat
    BY <2>1, <1>1
  <2> HIDE DEF p
  <2>3. /\ f.ok /\ f.s \in Seq(Byte) /\ e \in Nat /\ p + 2 <= e
        /\ NextEnd(b, width, p) = e + width /\ e + width <= Len(b)
    <3>1. NextEnd(b, width, p) <= Len(b)
      BY <2>2, Zenon
    <3> QED
      BY <3>1, <2>2, NextEndFacts
  <2>4. Slice(b, p, e) = EncodeString(f.s)
    BY <2>2, <2>3, SliceString, Zenon
  <2>5. F = [name |-> f.s, qos |-> IF width = 1 THEN b[end[i]] % 4 ELSE 0]
    BY DEF Filters, end, p
  <2> HIDE DEF F
  <2>6. F.name = f.s /\ (width = 1 => b[end[i]] % 4 = F.qos)
    BY <2>5
  <2> HIDE DEF f, e
  <2>7. end[i] = e + width /\ p <= e /\ e <= e + width /\ e + width \in Nat /\ p <= end[i]
        /\ end[i] \in 1..Len(b)
    BY <2>2, <2>3, <1>2
  <2>8. Slice(b, e, end[i]) = IF width = 1 THEN <<b[end[i]]>> ELSE <<>>
    <3>1. CASE width = 1
      <4>1. end[i] = e + 1 /\ e + 1 <= Len(b)
        BY <3>1, <2>3, <2>7
      <4>2. Slice(b, e, e + 1) = <<b[e + 1]>>
        BY <4>1, <2>3, SliceFacts, Zenon
      <4> QED
        BY <3>1, <4>1, <4>2
    <3>2. CASE width = 0
      <4>1. end[i] = e /\ e <= Len(b)
        BY <3>2, <2>3, <2>7
      <4>2. Slice(b, e, e) = <<>>
        BY <4>1, <2>3, SliceFacts, Zenon
      <4>3. width # 1
        BY <3>2
      <4> QED
        BY <4>1, <4>2, <4>3
    <3> QED
      BY <3>1, <3>2
  <2>9. Slice(b, p, end[i]) = Slice(b, p, e) \o Slice(b, e, end[i])
    <3>1. p \in Nat /\ e \in Nat /\ end[i] \in Nat /\ p <= e /\ e <= end[i] /\ end[i] <= Len(b)
      BY <2>2, <2>3, <2>7
    <3> QED
      BY <3>1, SliceJoin, Zenon
  <2>10. Slice(b, p, end[i]) = EncodeString(F.name) \o (IF width = 1 THEN <<b[end[i]]>> ELSE <<>>)
    BY <2>4, <2>6, <2>8, <2>9, Zenon
  <2>11. F.name \in Seq(Byte)
    BY <2>3, <2>6, Zenon DEF f
  <2> QED
    BY <2>6, <2>7, <2>10, <2>11, Zenon DEF FilterAt, F, end, p
<1> DEFINE s == [i \in 1..n |-> Slice(b, end[i - 1], end[i])]
<1>4. Pieces(b, end, s, n)
  <2>1. s = [i \in 1..n |-> s[i]] /\ Len(s) = n
    <3>1. DOMAIN s = 1..n
      OBVIOUS
    <3> HIDE DEF s
    <3> QED
      BY <3>1 DEF s
  <2>2. ASSUME NEW i \in 1..n PROVE end[i - 1] <= end[i] /\ s[i] = Slice(b, end[i - 1], end[i])
    BY <1>3, Zenon DEF FilterAt, end
  <2> HIDE DEF s
  <2> QED
    BY <2>1, <2>2, <1>1, Zenon DEF Pieces
<1> HIDE DEF s
<1>5. FlattenSeq(s) = Slice(b, 2, Len(b))
  <2>1. FlattenSeq(s) = Slice(b, end[0], end[n])
    BY <1>4, FlattenPieces, Zenon
  <2> QED
    BY <2>1, <1>1, <1>2, Zenon
<1>6. Slice(b, 0, 2) = U16(Num(b, 0))
  <2>1. 0 \in Nat /\ 0 + 2 <= Len(b) /\ 0 + 2 = 2
    OBVIOUS
  <2> QED
    BY <2>1, SliceFacts, Zenon
<1>7. b = Slice(b, 0, 2) \o Slice(b, 2, Len(b))
  <2> DEFINE z == 0
             t == 2
             L == Len(b)
  <2>1. z \in Nat /\ t \in Nat /\ L \in Nat /\ z <= t /\ t <= L /\ L <= Len(b)
    BY <1>2
  <2> HIDE DEF z, t, L
  <2>2. Slice(b, z, L) = Slice(b, z, t) \o Slice(b, t, L)
    BY <2>1, SliceJoin, Zenon
  <2>3. Slice(b, z, L) = b
    BY SliceFacts, Zenon DEF z, L
  <2> QED
    BY <2>2, <2>3, Zenon DEF z, t, L
<1>8. b = U16(Num(b, 0)) \o FlattenSeq(s)
  BY <1>5, <1>6, <1>7, Zenon
<1> QED
  BY <1>3, <1>8, Zenon DEF s, end

\* What a body b with header h has to be, where ReadPacket accepts it.
Whole(h, b) ==
    LET p == ParsePacket(h, b) IN
    CASE p.type = "PUBLISH" -> b = PublishBody(p.topic, p.qos, p.id, p.payload)
      [] p.type = "SUBSCRIBE" ->
            \E options \in [DOMAIN p.topics -> Range(b)] :
                /\ \A i \in DOMAIN p.topics : options[i] % 4 = p.topics[i].qos
                /\ b = U16(p.id) \o FlattenSeq([i \in DOMAIN p.topics |->
                        EncodeString(p.topics[i].name) \o <<options[i]>>])
      [] p.type = "UNSUBSCRIBE" ->
            b = U16(p.id) \o FlattenSeq([i \in DOMAIN p.topics |->
                    EncodeString(p.topics[i].name)])
      [] OTHER -> TRUE

\* It is.
LEMMA BodyWhole ==
    ASSUME LenBase = 256, NEW h \in Byte, NEW b \in Seq(Byte)
    PROVE  Whole(h, b)
<1> DEFINE p == ParsePacket(h, b)
<1>1. /\ p.type = "PUBLISH" => h \div 16 = 3
      /\ h \div 16 = 3 => p = ParsePublish(h % 16, b)
      /\ p.type = "SUBSCRIBE" => p = ParseFilters("SUBSCRIBE", b, 1)
      /\ p.type = "UNSUBSCRIBE" => p = ParseFilters("UNSUBSCRIBE", b, 0)
  BY PacketTypes
<1> HIDE DEF p
<1>2. ASSUME NEW width \in {0, 1}, NEW type, type # "refused",
             p = ParseFilters(type, b, width), p.type = type
      PROVE  \E n \in Nat : /\ p.topics = Filters(b, width, n) /\ DOMAIN p.topics = 1..n
                            /\ \A i \in 1..n : FilterAt(b, width, n, i)
                            /\ b = U16(p.id) \o FlattenSeq([i \in 1..n |->
                                Slice(b, FilterEnds(b, width)[i - 1], FilterEnds(b, width)[i])])
  <2>1. p # Refused
    BY <1>2 DEF Refused
  <2>2. PICK n \in Nat : /\ p.topics = Filters(b, width, n) /\ n <= Len(b)
                         /\ FilterEnds(b, width)[n] = Len(b) /\ p.id = Num(b, 0)
                         /\ 2 <= Len(b)
    <3> DEFINE q == ParseFilters(type, b, width)
    <3>1. \/ q = Refused
          \/ \E n \in Nat : q.topics = Filters(b, width, n) /\ n <= Len(b)
                            /\ FilterEnds(b, width)[n] = Len(b) /\ q.id = Num(b, 0)
                            /\ 2 <= Len(b)
      BY FilterTypes
    <3> HIDE DEF q
    <3>2. p = q
      BY <1>2, Zenon DEF q
    <3> QED
      BY <2>1, <3>1, <3>2, Zenon
  <2>3. DOMAIN p.topics = 1..n
    <3>1. DOMAIN Filters(b, width, n) = 1..n
      BY DEF Filters
    <3> QED
      BY <3>1, <2>2, Zenon
  <2>4. /\ \A i \in 1..n : FilterAt(b, width, n, i)
        /\ b = U16(Num(b, 0)) \o FlattenSeq([i \in 1..n |->
                Slice(b, FilterEnds(b, width)[i - 1], FilterEnds(b, width)[i])])
    BY <2>2, FiltersWhole, Zenon
  <2> QED
    BY <2>2, <2>3, <2>4, Zenon
<1>3. "SUBSCRIBE" # "refused" /\ "UNSUBSCRIBE" # "refused" /\ 0 \in {0, 1} /\ 1 \in {0, 1}
      /\ 0 # 1
  OBVIOUS
<1>4. CASE p.type = "PUBLISH"
  <2> DEFINE flags == h % 16
  <2>1. flags \in Nat
    BY DEF Byte
  <2>2. p = ParsePublish(flags, b)
    BY <1>1, <1>4
  <2> HIDE DEF flags
  <2>3. b = PublishBody(p.topic, p.qos, p.id, p.payload)
    BY <2>1, <2>2, <1>4, PublishWhole, Zenon
  <2> QED
    BY <2>3, <1>4 DEF Whole, p
<1>5. CASE p.type = "SUBSCRIBE"
  <2>1. p = ParseFilters("SUBSCRIBE", b, 1)
    BY <1>1, <1>5
  <2>2. PICK n \in Nat : /\ p.topics = Filters(b, 1, n) /\ DOMAIN p.topics = 1..n
                         /\ \A i \in 1..n : FilterAt(b, 1, n, i)
                         /\ b = U16(p.id) \o FlattenSeq([i \in 1..n |->
                                Slice(b, FilterEnds(b, 1)[i - 1], FilterEnds(b, 1)[i])])
    BY <2>1, <1>2, <1>3, <1>5, Zenon
  <2> DEFINE end == FilterEnds(b, 1)
             o == [i \in 1..n |-> b[end[i]]]
  <2> HIDE DEF end
  <2>3. ASSUME NEW i \in 1..n
        PROVE  /\ end[i] \in 1..Len(b) /\ b[end[i]] % 4 = p.topics[i].qos
               /\ Slice(b, end[i - 1], end[i])
                    = EncodeString(p.topics[i].name) \o <<b[end[i]]>>
    <3>1. FilterAt(b, 1, n, i)
      BY <2>2, Zenon
    <3> QED
      BY <3>1, <2>2, Zenon DEF FilterAt, end
  <2>4. o \in [1..n -> Range(b)]
    <3>1. DOMAIN b = 1..Len(b)
      OBVIOUS
    <3>2. \A i \in 1..n : b[end[i]] \in Range(b)
      BY <3>1, <2>3, Zenon DEF Range
    <3> QED
      BY <3>2, Zenon
  <2>5. \A i \in 1..n : o[i] % 4 = p.topics[i].qos
    BY <2>3
  <2>6. [i \in 1..n |-> Slice(b, end[i - 1], end[i])]
          = [i \in 1..n |-> EncodeString(p.topics[i].name) \o <<o[i]>>]
    <3>1. ASSUME NEW i \in 1..n
          PROVE  Slice(b, end[i - 1], end[i]) = EncodeString(p.topics[i].name) \o <<o[i]>>
      BY <2>3
    <3> HIDE DEF o
    <3> QED
      BY <3>1, Zenon
  <2> HIDE DEF o
  <2>7. b = U16(p.id) \o FlattenSeq([i \in 1..n |-> EncodeString(p.topics[i].name) \o <<o[i]>>])
    BY <2>2, <2>6, Zenon DEF end
  <2>8. \E options \in [DOMAIN p.topics -> Range(b)] :
            /\ \A i \in DOMAIN p.topics : options[i] % 4 = p.topics[i].qos
            /\ b = U16(p.id) \o FlattenSeq([i \in DOMAIN p.topics |->
                        EncodeString(p.topics[i].name) \o <<options[i]>>])
    BY <2>2, <2>4, <2>5, <2>7, Zenon
  <2>9. "SUBSCRIBE" # "PUBLISH" /\ "SUBSCRIBE" # "UNSUBSCRIBE"
    OBVIOUS
  <2> QED
    BY <2>8, <2>9, <1>5, Zenon DEF Whole, p
<1>6. CASE p.type = "UNSUBSCRIBE"
  <2>1. p = ParseFilters("UNSUBSCRIBE", b, 0)
    BY <1>1, <1>6
  <2>2. PICK n \in Nat : /\ p.topics = Filters(b, 0, n) /\ DOMAIN p.topics = 1..n
                         /\ \A i \in 1..n : FilterAt(b, 0, n, i)
                         /\ b = U16(p.id) \o FlattenSeq([i \in 1..n |->
                                Slice(b, FilterEnds(b, 0)[i - 1], FilterEnds(b, 0)[i])])
    BY <2>1, <1>2, <1>3, <1>6, Zenon
  <2> DEFINE end == FilterEnds(b, 0)
  <2> HIDE DEF end
  <2>3. ASSUME NEW i \in 1..n
        PROVE  Slice(b, end[i - 1], end[i]) = EncodeString(p.topics[i].name)
    <3>1. FilterAt(b, 0, n, i)
      BY <2>2, Zenon
    <3>2. Slice(b, end[i - 1], end[i]) = EncodeString(p.topics[i].name) \o <<>>
      BY <3>1, <2>2, <1>3, Zenon DEF FilterAt, end
    <3>3. p.topics[i].name \in Seq(Byte)
      BY <3>1, <2>2, Zenon DEF FilterAt, end
    <3>4. EncodeString(p.topics[i].name) \in Seq(Byte)
      BY <3>3, StringTypes, Zenon
    <3> QED
      BY <3>2, <3>4, ConcatSimplifications
  <2>4. [i \in 1..n |-> Slice(b, end[i - 1], end[i])]
          = [i \in 1..n |-> EncodeString(p.topics[i].name)]
    BY <2>3, Zenon
  <2>5. b = U16(p.id) \o FlattenSeq([i \in DOMAIN p.topics |-> EncodeString(p.topics[i].name)])
    BY <2>2, <2>4, Zenon DEF end
  <2>6. "UNSUBSCRIBE" # "PUBLISH" /\ "SUBSCRIBE" # "UNSUBSCRIBE"
    OBVIOUS
  <2> QED
    BY <2>5, <2>6, <1>6, Zenon DEF Whole, p
<1>7. CASE p.type \notin {"PUBLISH", "SUBSCRIBE", "UNSUBSCRIBE"}
  BY <1>7, Zenon DEF Whole, p
<1> QED
  BY <1>4, <1>5, <1>6, <1>7

\* With bytes for digits, as in the code, parsePublish, parseSubscribe and parseUnsubscribe
\* account for every byte of every body they accept, from whatever client.
THEOREM EveryByte ==
    LenBase = 256 => (Spec => []EveryByteRead)
<1> SUFFICES ASSUME LenBase = 256 PROVE Spec => []EveryByteRead
  OBVIOUS
<1>1. CodecInv => EveryByteRead
  <2> SUFFICES ASSUME CodecInv, HasPacket("up")
               PROVE  Whole(Incoming("up").head, Incoming("up").body)
    BY Zenon DEF EveryByteRead, Whole, Received
  <2>1. UpReady
    BY UpTaken, Zenon
  <2>2. Incoming("up").head \in Byte /\ Incoming("up").body \in Seq(Byte)
    BY <2>1, Zenon DEF UpReady
  <2> QED
    BY <2>2, BodyWhole, Zenon
<1> QED
  BY <1>1, CodecAlways, PTL
=============================================================================
