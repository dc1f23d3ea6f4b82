-------------------------- MODULE ModularArithmetic --------------------------
(***************************************************************************)
(* What the proofs about the rings need to know of wrapping counters: a    *)
(* uint32_t that counts modulo 2^32 and is masked down to a position gives *)
(* the position of the count that never wrapped, when the ring's size      *)
(* divides 2^32.                                                           *)
(***************************************************************************)
EXTENDS Integers, TLAPS

\* Quotient and remainder put the dividend together again.
LEMMA DivMod == ASSUME NEW a \in Nat, NEW s \in Nat \ {0}
  PROVE a = s * (a \div s) + (a % s) /\ a % s \in 0 .. s-1 /\ a \div s \in Nat
 BY SMT

\* Multiples of s are at least s apart.
LEMMA MulMono == ASSUME NEW s \in Nat \ {0}, NEW a \in Nat, NEW b \in Nat, a < b
  PROVE s * a + s <= s * b
 BY SMT

\* The remainder is the only r below s with a = s * q + r.
LEMMA ModUnique == ASSUME NEW s \in Nat \ {0}, NEW q \in Nat, NEW r \in 0 .. s-1
  PROVE (s * q + r) % s = r
<1> DEFINE a == s*q + r
<1>1. a \in Nat BY SMT
<1> DEFINE p == a \div s
<1> DEFINE t == a % s
<1>2. a = s * p + t /\ t \in 0 .. s-1 /\ p \in Nat BY <1>1, DivMod
<1> HIDE DEF p, t
<1>3. ~(p < q) 
  <2>1. ASSUME p < q PROVE FALSE
    <3>1. s*p + s <= s*q BY <2>1, <1>2, MulMono
    <3>2. s*p \in Int /\ s*q \in Int BY <1>2
    <3> QED BY <1>2, <3>1, <3>2
  <2> QED BY <2>1
<1>4. ~(q < p) 
  <2>1. ASSUME q < p PROVE FALSE
    <3>1. s*q + s <= s*p BY <2>1, <1>2, MulMono
    <3>2. s*p \in Int /\ s*q \in Int BY <1>2
    <3> QED BY <1>2, <3>1, <3>2
  <2> QED BY <2>1
<1>5. p = q BY <1>2, <1>3, <1>4
<1>6. t = r BY <1>2, <1>5
<1> QED BY <1>6 DEF t, a

\* Wrapping a counter at a multiple of s does not change its position modulo s.
LEMMA ModMod == ASSUME NEW s \in Nat \ {0}, NEW c \in Nat \ {0}, c % s = 0, NEW x \in Nat
  PROVE (x % c) % s = x % s
<1> DEFINE k == c \div s
<1> DEFINE q == x \div c
<1> DEFINE r == x % c
<1> DEFINE p == r \div s
<1> DEFINE t == r % s
<1>1. c = s * k /\ k \in Nat BY DivMod
<1>2. x = c * q + r /\ r \in Nat /\ q \in Nat BY DivMod
<1>3. r = s * p + t /\ p \in Nat /\ t \in 0 .. s-1 BY <1>2, DivMod
<1> HIDE DEF k, q, r, p, t
<1>4. x = s * (k * q + p) + t
  <2>1. x = (s * k) * q + (s * p + t) BY <1>1, <1>2, <1>3
  <2> QED BY <2>1, <1>1, <1>2, <1>3
<1>5. k * q + p \in Nat BY <1>1, <1>2, <1>3
<1>6. x % s = t BY <1>3, <1>4, <1>5, ModUnique
<1> QED BY <1>6 DEF t, r

\* Incrementing a wrapped counter wraps the incremented count.
LEMMA ModSucc == ASSUME NEW c \in Nat \ {0}, NEW x \in Nat
  PROVE ((x % c) + 1) % c = (x + 1) % c
<1> DEFINE q == x \div c
<1> DEFINE r == x % c
<1>1. x = c * q + r /\ r \in 0 .. c-1 /\ q \in Nat BY DivMod
<1> HIDE DEF q, r
<1>2. CASE r + 1 < c
  <2>1. (x + 1) % c = r + 1
    <3>1. x + 1 = c * q + (r + 1) BY <1>1
    <3> QED BY <3>1, <1>1, <1>2, ModUnique
  <2>2. (r + 1) % c = r + 1
    <3>1. r + 1 = c * 0 + (r + 1) BY <1>1
    <3> QED BY <3>1, <1>1, <1>2, ModUnique
  <2> QED BY <2>1, <2>2 DEF r
<1>3. CASE r + 1 = c
  <2>1. (x + 1) % c = 0
    <3>1. x + 1 = c * (q + 1) + 0 BY <1>1, <1>3
    <3> QED BY <3>1, <1>1, ModUnique
  <2>2. (r + 1) % c = 0
    <3>1. r + 1 = c * 1 + 0 BY <1>1, <1>3
    <3> QED BY <3>1, <1>1, ModUnique
  <2> QED BY <2>1, <2>2 DEF r
<1> QED BY <1>1, <1>2, <1>3

\* Going on by at most one round of s either stays in the round or begins the
\* next one.
LEMMA ModStep == ASSUME NEW s \in Nat \ {0}, NEW x \in Nat, NEW k \in 0 .. s
  PROVE (x + k) % s = IF (x % s) + k < s THEN (x % s) + k ELSE (x % s) + k - s
<1> DEFINE q == x \div s
<1> DEFINE r == x % s
<1>1. x = s * q + r /\ r \in 0 .. s-1 /\ q \in Nat BY DivMod
<1> HIDE DEF q, r
<1>2. CASE r + k < s
  <2>1. x + k = s * q + (r + k) BY <1>1
  <2> QED BY <2>1, <1>1, <1>2, ModUnique DEF r
<1>3. CASE ~(r + k < s)
  <2>1. r + k - s \in 0 .. s-1 BY <1>1, <1>3
  <2>2. x + k = s * (q + 1) + (r + k - s) /\ q + 1 \in Nat BY <1>1
  <2>3. (s * (q + 1) + (r + k - s)) % s = r + k - s
    BY <2>1, <2>2, ModUnique
  <2> QED BY <2>2, <2>3, <1>3 DEF r
<1> QED BY <1>2, <1>3

\* Adding to a wrapped counter wraps the sum.
LEMMA ModAdd == ASSUME NEW c \in Nat \ {0}, NEW x \in Nat, NEW k \in Nat
  PROVE ((x % c) + k) % c = (x + k) % c
<1> DEFINE q == x \div c
<1> DEFINE r == x % c
<1>1. x = c * q + r /\ r \in 0 .. c-1 /\ q \in Nat BY DivMod
<1> HIDE DEF q, r
<1> DEFINE p == (r + k) \div c
<1> DEFINE t == (r + k) % c
<1>2. r + k = c * p + t /\ t \in 0 .. c-1 /\ p \in Nat
  <2>1. r + k \in Nat BY <1>1
  <2> QED BY <2>1, DivMod
<1> HIDE DEF p, t
<1>3. x + k = c * (q + p) + t /\ q + p \in Nat BY <1>1, <1>2
<1>4. (c * (q + p) + t) % c = t BY <1>2, <1>3, ModUnique
<1>5. (x + k) % c = t BY <1>3, <1>4
<1> QED BY <1>5 DEF t, r

\* Taking away a whole round changes nothing.
LEMMA ModNegative == ASSUME NEW c \in Nat \ {0}, NEW k \in 0 .. c-1
  PROVE k % c = k /\ (k - c) % c = k /\ (k + c) % c = k
<1>1. k = c * 0 + k /\ k + c = c * 1 + k BY SMT
<1>2. k % c = k /\ (k + c) % c = k BY <1>1, ModUnique
<1>3. (k - c) % c = k BY SMT
<1> QED BY <1>2, <1>3

\* The difference of two wrapped counters, wrapped, is the difference of the
\* counts, as long as they are less than one round apart.
LEMMA ModDifference ==
  ASSUME NEW c \in Nat \ {0}, NEW a \in Nat, NEW b \in Nat, b <= a, a - b < c
  PROVE ((a % c) - (b % c)) % c = a - b
<1> DEFINE k == a - b
<1>1. k \in 0 .. c-1 /\ k \in 0 .. c /\ a = b + k OBVIOUS
<1>2. b % c \in 0 .. c-1 BY DivMod
<1> HIDE DEF k
<1>3. (b + k) % c = IF (b % c) + k < c THEN (b % c) + k ELSE (b % c) + k - c
  BY <1>1, ModStep
<1>4. (a % c) - (b % c) \in {k, k - c} BY <1>1, <1>2, <1>3
<1>5. ((a % c) - (b % c)) % c = k BY <1>1, <1>4, ModNegative
<1> QED BY <1>5 DEF k
=============================================================================
