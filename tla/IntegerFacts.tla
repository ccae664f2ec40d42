------------------------------ MODULE IntegerFacts ------------------------------
(* Facts about integers that several proofs need: products, quotients and  *)
(* remainders by numbers that are not constants, least and greatest        *)
(* elements.                                                               *)
EXTENDS Integers, WellFoundedInduction, TLAPS

(* Multiplication by a natural number keeps the order. *)
LEMMA TimesMonotone ==
  ASSUME NEW a \in Nat, NEW x \in Int, NEW y \in Int, x <= y
  PROVE  a * x <= a * y
<1>1. PICK d \in Nat : d = y - x
  OBVIOUS
<1>2. a * y = a * x + a * d /\ a * d >= 0
  BY <1>1, SMT
<1>3. QED BY <1>2, SMT

(* Division by a positive number is determined by what it leaves. *)
LEMMA DivUnique ==
  ASSUME NEW b \in Nat \ {0}, NEW q \in Int, NEW r \in 0 .. b - 1
  PROVE  (b * q + r) \div b = q /\ (b * q + r) % b = r
<1>1. PICK n \in Int : n = b * q + r
  OBVIOUS
<1>2. PICK d \in Int, m \in Int : d = n \div b /\ m = n % b
  BY SMT
<1>3. n = b * d + m /\ 0 <= m /\ m < b
  BY <1>2, SMT
<1>4. CASE d < q
  <2>1. b * (d + 1) <= b * q
    BY <1>4, TimesMonotone
  <2>2. b * (d + 1) = b * d + b
    BY SMT
  <2>3. QED BY <1>1, <1>3, <2>1, <2>2, SMT
<1>5. CASE d > q
  <2>1. b * (q + 1) <= b * d
    BY <1>5, TimesMonotone
  <2>2. b * (q + 1) = b * q + b
    BY SMT
  <2>3. QED BY <1>1, <1>3, <2>1, <2>2, SMT
<1>6. CASE d = q
  BY <1>1, <1>2, <1>3, <1>6, SMT
<1>7. QED BY <1>4, <1>5, <1>6

(* The digits of a number: the lowest b and the next c of them are the     *)
(* lowest b * c.                                                           *)
LEMMA LowDigits ==
  ASSUME NEW a \in Nat, NEW b \in Nat \ {0}, NEW c \in Nat \ {0}
  PROVE  /\ b * c \in Nat \ {0}
         /\ (a % b) + b * ((a \div b) % c) = a % (b * c)
<1>1. PICK q \in Int, r \in 0 .. b - 1 : q = a \div b /\ r = a % b /\ a = b * q + r
  BY SMT
<1>2. PICK p \in Int, s \in 0 .. c - 1 : p = q \div c /\ s = q % c /\ q = c * p + s
  BY SMT
<1>3. PICK bc \in Int, t \in Int : bc = b * c /\ t = b * s
  BY SMT
<1>4. bc > 0
  BY <1>3, SMT
<1>5. 0 <= t /\ t <= bc - b
  <2>1. b * 0 <= b * s /\ b * s <= b * (c - 1)
    BY TimesMonotone
  <2>2. b * 0 = 0 /\ b * (c - 1) = b * c - b
    BY SMT
  <2>3. QED BY <1>3, <2>1, <2>2, SMT
<1>6. r + t \in 0 .. bc - 1
  BY <1>1, <1>5, SMT
<1>7. b * (c * p) = bc * p
  BY <1>3, SMT
<1>8. a = bc * p + (r + t)
  <2>1. b * q = b * (c * p) + b * s
    BY <1>2, SMT
  <2>2. bc * p \in Int
    BY SMT
  <2>3. QED BY <1>1, <1>3, <1>7, <2>1, <2>2, SMT
<1>9. a % bc = r + t
  BY <1>4, <1>6, <1>8, DivUnique
<1>10. (a % b) + b * ((a \div b) % c) = r + b * s
  BY <1>1, <1>2, Zenon
<1>11. r + b * s = a % (b * c)
  BY <1>3, <1>9, Zenon
<1>12. b * c \in Nat \ {0}
  BY <1>3, <1>4
<1>13. QED BY <1>10, <1>11, <1>12, Zenon

(* A set of numbers that is not empty has a least element. *)
LEMMA Least ==
  ASSUME NEW T \in SUBSET Nat, T # {}
  PROVE  \E x \in T : \A y \in T : x <= y
<1>1. \E x \in T : \A y \in T : ~(<<y, x>> \in OpToRel(<, Nat))
  BY NatLessThanWellFounded, WFMin
<1>2. PICK x \in T : \A y \in T : ~(<<y, x>> \in OpToRel(<, Nat))
  BY <1>1
<1>3. ASSUME NEW y \in T PROVE x <= y
  <2>1. x \in Nat /\ y \in Nat
    OBVIOUS
  <2>2. ~(y < x)
    BY <1>2, <2>1 DEF OpToRel
  <2>3. QED BY <2>1, <2>2
<1>4. QED BY <1>3

(* One that has a bound has a greatest. *)
LEMMA Greatest ==
  ASSUME NEW T \in SUBSET Nat, T # {}, NEW b \in Nat, \A x \in T : x <= b
  PROVE  \E x \in T : \A y \in T : x >= y
<1> DEFINE Below == {d \in Nat : b - d \in T}
<1>1. PICK t \in T : t \in Nat /\ t <= b
  OBVIOUS
<1>2. b - t \in Below
  BY <1>1
<1>3. PICK d \in Below : \A e \in Below : d <= e
  BY <1>2, Least
<1>4. ASSUME NEW y \in T PROVE b - d >= y
  <2>1. y \in Nat /\ y <= b
    OBVIOUS
  <2>2. b - y \in Below
    BY <2>1
  <2>3. d <= b - y
    BY <1>3, <2>2
  <2>4. QED BY <1>3, <2>1, <2>3
<1>5. QED BY <1>3, <1>4

(* Finitely many numbers have a bound. *)
LEMMA Bounded ==
  ASSUME NEW n \in Nat, NEW f, \A i \in 1 .. n : f[i] \in Nat
  PROVE  \E b \in Nat : \A i \in 1 .. n : f[i] <= b
<1> DEFINE Unbounded == {k \in 0 .. n : \A b \in Nat : \E i \in 1 .. k : f[i] > b}
<1>1. SUFFICES ASSUME n \in Unbounded PROVE FALSE
  OBVIOUS
<1>2. Unbounded \in SUBSET Nat /\ Unbounded # {}
  <2>1. Unbounded \in SUBSET Nat
    OBVIOUS
  <2> HIDE DEF Unbounded
  <2>2. QED BY <1>1, <2>1
<1>3. PICK k \in Unbounded : \A l \in Unbounded : k <= l
  <2> HIDE DEF Unbounded
  <2>1. QED BY <1>2, Least
<1>4. k \in 1 .. n
  <2>1. k # 0
    OBVIOUS
  <2>2. QED BY <2>1
<1>5. k - 1 \in 0 .. n /\ k - 1 \notin Unbounded
  <2> HIDE DEF Unbounded
  <2>1. QED BY <1>3, <1>4
<1>6. PICK b \in Nat : \A i \in 1 .. k - 1 : f[i] <= b
  <2>1. PICK b \in Nat : ~ \E i \in 1 .. k - 1 : f[i] > b
    BY <1>5
  <2>2. ASSUME NEW i \in 1 .. k - 1 PROVE f[i] <= b
    <3>1. i \in 1 .. n /\ f[i] \in Nat
      BY <1>4
    <3>2. QED BY <2>1, <3>1
  <2>3. QED BY <2>2
<1>7. PICK m \in Nat : m = f[k]
  BY <1>4
<1>8. PICK i \in 1 .. k : f[i] > b + m
  OBVIOUS
<1>9. CASE i = k
  BY <1>7, <1>8, <1>9
<1>10. CASE i # k
  <2>1. i \in 1 .. k - 1 /\ i \in 1 .. n
    BY <1>4, <1>10
  <2>2. f[i] <= b /\ f[i] \in Nat
    BY <1>6, <2>1
  <2>3. QED BY <1>8, <2>2
<1>11. QED BY <1>9, <1>10

=============================================================================
