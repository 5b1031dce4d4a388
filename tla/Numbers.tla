------------------------------ MODULE Numbers ------------------------------
(***************************************************************************)
(* Facts about natural numbers and about functions defined by recursion on *)
(* them that the theorems about several components rest on.                *)
(***************************************************************************)
EXTENDS Integers, FiniteSetsExt, WellFoundedInduction, TLAPS

\* Induction: a set that has 0, and with each number the next, has them all.
LEMMA AllNumbers ==
  ASSUME NEW S, 0 \in S, \A n \in Nat : n \in S => n + 1 \in S
  PROVE  Nat \subseteq S
<1> DEFINE R == OpToRel(<, Nat)
           T == Nat \ S
<1>1. SUFFICES ASSUME T # {} PROVE FALSE
  OBVIOUS
<1>2. IsWellFoundedOn(R, Nat)
  BY NatLessThanWellFounded
<1>3. T \subseteq Nat
  OBVIOUS
<1>4. \A x, y \in Nat : x < y => <<x, y>> \in R
  BY DEF OpToRel
<1> HIDE DEF R
<1>5. PICK x \in T : \A y \in T : ~ (<<y, x>> \in R)
  BY <1>1, <1>2, <1>3, WFMin
<1>6. x # 0 /\ x - 1 \in Nat /\ x - 1 \in T
  OBVIOUS
<1>7. <<x - 1, x>> \in R
  BY <1>4, <1>6, x \in Nat, x - 1 < x
<1> QED
  BY <1>5, <1>6, <1>7

\* A set of numbers that is not empty has a smallest one, the one Min chooses.
LEMMA HasSmallest ==
  ASSUME NEW S \in SUBSET Nat, S # {}
  PROVE  \E x \in S : \A y \in S : x <= y
<1> DEFINE R == OpToRel(<, Nat)
<1>1. IsWellFoundedOn(R, Nat)
  BY NatLessThanWellFounded
<1>2. \A x, y \in Nat : x < y => <<x, y>> \in R
  BY DEF OpToRel
<1> HIDE DEF R
<1>3. PICK x \in S : \A y \in S : ~ (<<y, x>> \in R)
  BY <1>1, WFMin
<1>4. ASSUME NEW y \in S PROVE x <= y
  <2>1. x \in Nat /\ y \in Nat /\ ~ (y < x)
    BY <1>2, <1>3
  <2>2. QED
    BY <2>1
<1> QED
  BY <1>4

LEMMA MinIsIn ==
  ASSUME NEW S \in SUBSET Nat, S # {}
  PROVE  Min(S) \in S /\ \A k \in S : Min(S) <= k
BY HasSmallest DEF Min

Follows(f, N, a, step) == f[0] = a /\ \A i \in 1 .. N : f[i] = step[i][f[i - 1]]

\* A function defined from its value at 0 and a step from each number to the next exists: the
\* recursive functions of the modules are CHOOSEn, and equal to their bodies by this.
LEMMA RecursionExists ==
  ASSUME NEW N \in Nat, NEW V, NEW a \in V, NEW step \in [1 .. N -> [V -> V]]
  PROVE  \E f \in [0 .. N -> V] : Follows(f, N, a, step)
<1> DEFINE Upto(n, f) == f[0] = a /\ \A i \in 1 .. N : i <= n => f[i] = step[i][f[i - 1]]
           S == {n \in Nat : \E f \in [0 .. N -> V] : Upto(n, f)}
<1>1. 0 \in S
  <2>1. [i \in 0 .. N |-> a] \in [0 .. N -> V] /\ Upto(0, [i \in 0 .. N |-> a])
    OBVIOUS
  <2>2. QED
    BY <2>1
<1>2. ASSUME NEW n \in Nat, n \in S PROVE n + 1 \in S
  <2>1. PICK f \in [0 .. N -> V] : Upto(n, f)
    BY <1>2
  <2>2. CASE n + 1 <= N
    <3> DEFINE g == [f EXCEPT ![n + 1] = step[n + 1][f[n]]]
    <3>1. n \in 0 .. N /\ n + 1 \in 0 .. N /\ n + 1 \in 1 .. N /\ f[n] \in V
      BY <2>2
    <3>2. step[n + 1][f[n]] \in V
      BY <3>1
    <3>3. g \in [0 .. N -> V] /\ g[0] = a /\ g[n + 1] = step[n + 1][f[n]]
      BY <2>1, <3>1, <3>2
    <3>4. \A i \in 0 .. N : i <= n => g[i] = f[i]
      BY <3>1
    <3>5. ASSUME NEW i \in 1 .. N, i <= n + 1 PROVE g[i] = step[i][g[i - 1]]
      <4>1. i - 1 \in 0 .. N /\ i \in 0 .. N /\ i - 1 <= n
        BY <3>5
      <4>2. g[i - 1] = f[i - 1]
        BY <3>4, <4>1
      <4>3. CASE i <= n
        BY <2>1, <3>4, <4>1, <4>2, <4>3
      <4>4. CASE i = n + 1
        BY <3>3, <4>2, <4>4
      <4>5. QED
        BY <3>5, <4>3, <4>4
    <3>6. Upto(n + 1, g)
      BY <3>3, <3>5
    <3> HIDE DEF g
    <3>7. \E h \in [0 .. N -> V] : Upto(n + 1, h)
      BY <3>3, <3>6, Zenon
    <3>8. QED
      BY <3>7
  <2>3. CASE ~ (n + 1 <= N)
    <3>1. Upto(n + 1, f)
      BY <2>1, <2>3
    <3>2. QED
      BY <3>1
  <2>4. QED
    BY <2>2, <2>3
<1> HIDE DEF S
<1>3. Nat \subseteq S
  BY <1>1, <1>2, AllNumbers
<1>4. PICK f \in [0 .. N -> V] : Upto(N, f)
  BY <1>3 DEF S
<1>5. Follows(f, N, a, step)
  BY <1>4 DEF Follows
<1> QED
  BY <1>5

Iterates(f, a, step) == f[0] = a /\ \A n \in Nat : f[n + 1] = step[f[n]]

\* The same on all numbers, the step being always the same.
LEMMA RecursionOnNat ==
  ASSUME NEW V, NEW a \in V, NEW step \in [V -> V]
  PROVE  \E f \in [Nat -> V] : Iterates(f, a, step)
<1> DEFINE Upto(N, f) == f \in [0 .. N -> V] /\ f[0] = a /\ \A n \in 0 .. N - 1 : f[n + 1] = step[f[n]]
           g == [N \in Nat |-> CHOOSE f : Upto(N, f)]
           F == [n \in Nat |-> g[n][n]]
<1>1. ASSUME NEW N \in Nat PROVE Upto(N, g[N])
  <2> DEFINE steps == [n \in 1 .. N |-> step]
  <2>1. steps \in [1 .. N -> [V -> V]] /\ \A n \in 1 .. N : steps[n] = step
    OBVIOUS
  <2> HIDE DEF steps
  <2>2. PICK f \in [0 .. N -> V] : Follows(f, N, a, steps)
    BY <2>1, RecursionExists
  <2>3. ASSUME NEW n \in 0 .. N - 1 PROVE f[n + 1] = step[f[n]]
    <3>1. n + 1 \in 1 .. N /\ (n + 1) - 1 = n
      OBVIOUS
    <3>2. QED
      BY <2>1, <2>2, <3>1 DEF Follows
  <2>4. Upto(N, f)
    BY <2>2, <2>3 DEF Follows
  <2>5. g[N] = CHOOSE h : Upto(N, h)
    OBVIOUS
  <2> HIDE DEF g, Upto
  <2>6. QED
    BY <2>4, <2>5, Zenon
<1> HIDE DEF g
<1>2. ASSUME NEW N \in Nat PROVE g[N + 1][N] = g[N][N]
  <2> DEFINE S == {n \in Nat : n <= N => g[N + 1][n] = g[N][n]}
  <2>1. 0 \in S
    BY <1>1, N + 1 \in Nat
  <2>2. ASSUME NEW n \in Nat, n \in S PROVE n + 1 \in S
    <3>1. CASE n + 1 <= N
      <4>1. n \in 0 .. N - 1 /\ n \in 0 .. (N + 1) - 1 /\ N + 1 \in Nat
        BY <3>1
      <4>2. g[N + 1][n + 1] = step[g[N + 1][n]]
        BY <1>1, <4>1
      <4>3. g[N][n + 1] = step[g[N][n]]
        BY <1>1, <4>1
      <4>4. g[N + 1][n] = g[N][n]
        BY <2>2, <3>1
      <4>5. QED
        BY <4>2, <4>3, <4>4
    <3>2. CASE ~ (n + 1 <= N)
      BY <3>2
    <3>3. QED
      BY <3>1, <3>2
  <2> HIDE DEF S
  <2>3. N \in S
    BY <2>1, <2>2, AllNumbers
  <2>4. QED
    BY <2>3 DEF S
<1>3. F \in [Nat -> V]
  <2>1. \A n \in Nat : g[n][n] \in V
    BY <1>1
  <2>2. QED
    BY <2>1
<1>4. F[0] = a
  BY <1>1
<1>5. ASSUME NEW n \in Nat PROVE F[n + 1] = step[F[n]]
  <2>1. n + 1 \in Nat /\ n \in 0 .. (n + 1) - 1
    OBVIOUS
  <2>2. g[n + 1][n + 1] = step[g[n + 1][n]]
    BY <1>1, <2>1
  <2>3. QED
    BY <1>2, <2>1, <2>2
<1> HIDE DEF F
<1>6. Iterates(F, a, step)
  BY <1>4, <1>5 DEF Iterates
<1> QED
  BY <1>3, <1>6

\* A quotient, and no more than that often does the divisor fit.
LEMMA Quotient ==
  ASSUME NEW x \in Int, NEW d \in Nat \ {0}
  PROVE  /\ x \div d \in Int
         /\ d * (x \div d) <= x /\ x < d * (x \div d) + d
         /\ x >= 0 => x \div d \in Nat
         /\ x <= 0 => x \div d <= 0
<1>1. x \div d \in Int /\ x = d * (x \div d) + (x % d) /\ x % d \in 0 .. d - 1
  OBVIOUS
<1> QED
  BY <1>1

\* k is the quotient if what is left over is less than the divisor.
LEMMA QuotientIs ==
  ASSUME NEW d \in Nat \ {0}, NEW k \in Nat, NEW j \in Nat, j < d
  PROVE  d * k \in Nat /\ (d * k + j) \div d = k
<1>1. \A a, b \in Nat : a * b \in Nat /\ a * (b + 1) = a * b + a
  OBVIOUS
<1>2. \A a, b, c \in Nat : a * (b + 1 + c) = a * b + a + a * c
  OBVIOUS
<1>3. ASSUME NEW a \in Nat, NEW b \in Nat, a < b PROVE d * a + d <= d * b
  <2>1. PICK c \in Nat : b = a + 1 + c
    <3>1. b - a - 1 \in Nat /\ b = a + 1 + (b - a - 1)
      BY <1>3
    <3>2. QED
      BY <3>1
  <2>2. d * b = d * a + d + d * c /\ d * c \in Nat /\ d * a \in Nat /\ d * b \in Nat
    BY <1>1, <1>2, <2>1
  <2>3. QED
    BY <2>2
<1>4. PICK x \in Nat : x = d * k
  BY <1>1
<1>5. PICK q \in Nat : q = (x + j) \div d
  BY Quotient, x + j \in Int, x + j >= 0
<1>6. PICK y \in Nat : y = d * q /\ y <= x + j /\ x + j < y + d
  <2>1. d * ((x + j) \div d) <= x + j /\ x + j < d * ((x + j) \div d) + d
    BY Quotient, x + j \in Int
  <2>2. QED
    BY <1>1, <1>5, <2>1
<1>7. CASE q < k
  <2>1. y + d <= x
    BY <1>3, <1>4, <1>6, <1>7
  <2>2. QED
    BY <1>6, <2>1
<1>8. CASE q > k
  <2>1. x + d <= y
    BY <1>3, <1>4, <1>6, <1>8
  <2>2. QED
    BY <1>6, <2>1
<1> QED
  BY <1>4, <1>5, <1>7, <1>8

LEMMA QuotientIsLess ==
  ASSUME NEW n \in Nat, NEW b \in Nat, b > 1
  PROVE  n \div b \in Nat /\ n \div b <= n /\ (n # 0 => n \div b < n)
<1>1. PICK q \in Nat : q = n \div b /\ b * q <= n
  BY Quotient
<1>2. \A c \in Nat : (c + 2) * q = c * q + 2 * q /\ c * q \in Nat
  OBVIOUS
<1>3. PICK c \in Nat : b = c + 2
  <2>1. b - 2 \in Nat /\ b = (b - 2) + 2
    OBVIOUS
  <2>2. QED
    BY <2>1
<1>4. PICK x \in Nat : x = c * q /\ x + 2 * q <= n
  BY <1>1, <1>2, <1>3
<1> QED
  BY <1>1, <1>4

FromQuotient(f, a, b, step) == \A n \in Nat : f[n] = IF n = 0 THEN a ELSE step[n][f[n \div b]]

\* The same where a number follows from its quotient: a value for 0, and a step for each number.
LEMMA RecursionByDivision ==
  ASSUME NEW V, NEW a \in V, NEW b \in Nat, b > 1, NEW step \in [Nat -> [V -> V]]
  PROVE  \E f \in [Nat -> V] : FromQuotient(f, a, b, step)
<1> DEFINE W == [Nat -> V]
           From(f, n) == IF n = 0 THEN a ELSE step[n][f[n \div b]]
           none == [n \in Nat |-> a]
           more == [f \in W |-> [n \in Nat |-> From(f, n)]]
<1>1. none \in W
  OBVIOUS
<1>2. \A n \in Nat : n \div b \in Nat /\ n \div b <= n /\ (n # 0 => n \div b < n)
  BY QuotientIsLess
<1>3. ASSUME NEW f \in W, NEW n \in Nat PROVE From(f, n) \in V
  BY <1>2
<1>4. more \in [W -> W]
  BY <1>3
<1>5. \A f \in W : \A n \in Nat : more[f][n] = From(f, n)
  OBVIOUS
<1> HIDE DEF W, From, none, more
<1>6. PICK A \in [Nat -> W] : A[0] = none /\ \A k \in Nat : A[k + 1] = more[A[k]]
  <2>1. \E A \in [Nat -> W] : Iterates(A, none, more)
    BY <1>1, <1>4, RecursionOnNat
  <2>2. QED
    BY <2>1 DEF Iterates
<1>7. ASSUME NEW k \in Nat, NEW n \in Nat PROVE A[k + 1][n] = From(A[k], n)
  BY <1>5, <1>6
<1>8. \A k \in Nat : \A n \in Nat : n < k => A[k + 1][n] = A[k][n]
  <2> DEFINE S == {k \in Nat : \A n \in Nat : n < k => A[k + 1][n] = A[k][n]}
  <2>1. 0 \in S
    OBVIOUS
  <2>2. ASSUME NEW k \in Nat, k \in S PROVE k + 1 \in S
    <3>1. ASSUME NEW n \in Nat, n < k + 1 PROVE A[(k + 1) + 1][n] = A[k + 1][n]
      <4>1. A[(k + 1) + 1][n] = From(A[k + 1], n) /\ A[k + 1][n] = From(A[k], n)
        BY <1>7, k + 1 \in Nat
      <4>2. CASE n = 0
        BY <4>1, <4>2 DEF From
      <4>3. CASE n # 0
        <5>1. n \div b \in Nat /\ n \div b < k
          BY <1>2, <3>1, <4>3
        <5>2. A[k + 1][n \div b] = A[k][n \div b]
          BY <2>2, <5>1
        <5>3. QED
          BY <4>1, <4>3, <5>2 DEF From
      <4>4. QED
        BY <4>2, <4>3
    <3>2. QED
      BY <3>1
  <2> HIDE DEF S
  <2>3. Nat \subseteq S
    BY <2>1, <2>2, AllNumbers
  <2>4. QED
    BY <2>3 DEF S
<1>9. \A k \in Nat : \A n \in Nat : n < k => A[k][n] = A[n + 1][n]
  <2> DEFINE S == {k \in Nat : \A n \in Nat : n < k => A[k][n] = A[n + 1][n]}
  <2>1. 0 \in S
    OBVIOUS
  <2>2. ASSUME NEW k \in Nat, k \in S PROVE k + 1 \in S
    <3>1. ASSUME NEW n \in Nat, n < k + 1 PROVE A[k + 1][n] = A[n + 1][n]
      <4>1. CASE n = k
        BY <4>1
      <4>2. CASE n < k
        BY <1>8, <2>2, <4>2
      <4>3. QED
        BY <3>1, <4>1, <4>2
    <3>2. QED
      BY <3>1
  <2> HIDE DEF S
  <2>3. Nat \subseteq S
    BY <2>1, <2>2, AllNumbers
  <2>4. QED
    BY <2>3 DEF S
<1> DEFINE F == [n \in Nat |-> A[n + 1][n]]
<1>10. F \in [Nat -> V]
  BY <1>6 DEF W
<1>11. ASSUME NEW n \in Nat PROVE F[n] = From(F, n)
  <2>1. F[n] = From(A[n], n)
    BY <1>7
  <2>2. CASE n = 0
    BY <2>1, <2>2 DEF From
  <2>3. CASE n # 0
    <3>1. n \div b \in Nat /\ n \div b < n
      BY <1>2, <2>3
    <3>2. F[n \div b] = A[n][n \div b]
      BY <1>9, <3>1
    <3>3. QED
      BY <2>1, <2>3, <3>2 DEF From
  <2>4. QED
    BY <2>2, <2>3
<1> HIDE DEF F
<1>12. FromQuotient(F, a, b, step)
  BY <1>11 DEF From, FromQuotient
<1> QED
  BY <1>10, <1>12

=============================================================================
