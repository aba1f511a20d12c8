---------------------------------- MODULE Numbers ----------------------------------
(***************************************************************************)
(* Numbers: division and remainder by a divisor that is not a literal, for *)
(* counters that wrap and the places in a ring that they stand for, and    *)
(* induction, in the form of a least element, for recursive functions.     *)
(***************************************************************************)
EXTENDS Integers, Sequences, WellFoundedInduction, TLAPS

(* Division and remainder, by a divisor that is not a literal.             *)
LEMMA DivMod ==
    ASSUME NEW a \in Int, NEW w \in Nat \ {0}
    PROVE  a \div w \in Int /\ a % w \in 0 .. w - 1 /\ a = w * (a \div w) + (a % w)
  OBVIOUS

(* Numbers less than the divisor apart have the same multiple of it below  *)
(* them, or the larger one has the next.                                   *)
LEMMA NextMultiple ==
    ASSUME NEW w \in Nat \ {0}, NEW p \in Int, NEW q \in Int, NEW r \in 0 .. w - 1,
           NEW s \in 0 .. w - 1, NEW d \in 0 .. w - 1, w * q + s = w * p + r + d
    PROVE  q = p \/ q = p + 1
  <1>1. w * (q - p) = r + d - s
    OBVIOUS
  <1>2. CASE q - p >= 2
    <2>1. w * (q - p) >= 2 * w
      BY <1>2
    <2> QED BY <1>1, <2>1
  <1>3. CASE q - p <= -1
    <2>1. w * (q - p) <= -w
      BY <1>3
    <2> QED BY <1>1, <2>1
  <1> QED BY <1>2, <1>3

(* What the clock shows d ticks after it showed a % w.                     *)
LEMMA Later ==
    ASSUME NEW w \in Nat \ {0}, NEW a \in Nat, NEW d \in 0 .. w - 1
    PROVE  /\ \/ (a + d) % w = (a % w) + d /\ (a % w) + d < w
              \/ (a + d) % w = (a % w) + d - w /\ (a % w) + d >= w
           /\ (((a + d) % w) - (a % w)) % w = d
  <1> DEFINE p == a \div w  r == a % w  q == (a + d) \div w  s == (a + d) % w
  <1>1. p \in Int /\ r \in 0 .. w - 1 /\ a = w * p + r
    BY DivMod
  <1>2. q \in Int /\ s \in 0 .. w - 1 /\ a + d = w * q + s
    <2>1. a + d \in Int
      OBVIOUS
    <2> QED BY <2>1, DivMod
  <1> HIDE DEF p, q, r, s
  <1>3. q = p \/ q = p + 1
    BY <1>1, <1>2, NextMultiple
  <1>4. \/ s = r + d /\ r + d < w
        \/ s = r + d - w /\ r + d >= w
    <2>1. CASE q = p
      BY <1>1, <1>2, <2>1
    <2>2. CASE q = p + 1
      <3>1. w * q = w * p + w
        BY <2>2, <1>1
      <3> QED BY <1>1, <1>2, <3>1
    <2> QED BY <1>3, <2>1, <2>2
  <1>5. (s - r) % w = d
    <2> DEFINE e == s - r
    <2>1. e \in Int /\ (e = d \/ e = d - w)
      BY <1>1, <1>2, <1>4
    <2>2. PICK k \in Int, m \in 0 .. w - 1 : e = w * k + m /\ e % w = m
      BY <2>1, DivMod
    <2> HIDE DEF e
    <2>3. m = d
      <3>1. w * k + m = d \/ w * (k + 1) + m = d
        BY <2>1, <2>2
      <3>2. ASSUME NEW j \in Int, w * j + m = d PROVE m = d
        <4>1. CASE j >= 1
          <5>1. w * j >= w
            BY <4>1
          <5> QED BY <5>1, <3>2
        <4>2. CASE j <= -1
          <5>1. w * j <= -w
            BY <4>2
          <5> QED BY <5>1, <3>2
        <4>3. CASE j = 0
          BY <4>3, <3>2
        <4> QED BY <4>1, <4>2, <4>3
      <3> QED BY <3>1, <3>2
    <2> QED BY <2>2, <2>3 DEF e
  <1> QED BY <1>4, <1>5 DEF r, s

LEMMA Small ==
    ASSUME NEW w \in Nat \ {0}, NEW e \in 0 .. w - 1
    PROVE  e % w = e
  <1> DEFINE q == e \div w  s == e % w
  <1>1. q \in Int /\ s \in 0 .. w - 1 /\ e = w * q + s
    BY DivMod
  <1> HIDE DEF q, s
  <1>2. w * q + s = w * 0 + 0 + e
    BY <1>1
  <1>3. q = 0 \/ q = 0 + 1
    BY <1>1, <1>2, NextMultiple
  <1> QED BY <1>1, <1>3 DEF s

LEMMA OneRound ==
    ASSUME NEW w \in Nat \ {0}, NEW a \in Nat
    PROVE  (a + w) % w = a % w
  <1> DEFINE p == a \div w  r == a % w  q == (a + w) \div w  s == (a + w) % w
  <1>1. p \in Int /\ r \in 0 .. w - 1 /\ a = w * p + r
    BY DivMod
  <1>2. q \in Int /\ s \in 0 .. w - 1 /\ a + w = w * q + s
    <2>1. a + w \in Int
      OBVIOUS
    <2> QED BY <2>1, DivMod
  <1> HIDE DEF p, q, r, s
  <1>3. w * (p + 1) = w * p + w /\ p + 1 \in Int
    BY <1>1
  <1>4. w * q + s = w * (p + 1) + r + 0
    BY <1>1, <1>2, <1>3
  <1>5. q = p + 1 \/ q = (p + 1) + 1
    BY <1>1, <1>2, <1>3, <1>4, NextMultiple
  <1>6. s = r
    <2>1. CASE q = p + 1
      BY <2>1, <1>1, <1>2, <1>3, <1>4
    <2>2. CASE q = (p + 1) + 1
      <3>1. w * q = w * (p + 1) + w
        BY <2>2, <1>3
      <3> QED BY <3>1, <1>1, <1>2, <1>3, <1>4
    <2> QED BY <1>5, <2>1, <2>2
  <1> QED BY <1>6 DEF r, s

(* Remainders may be taken on the way.                                     *)
LEMMA OnTheWay ==
    ASSUME NEW w \in Nat \ {0}, NEW a \in Nat, NEW d \in 0 .. w - 1
    PROVE  ((a % w) + d) % w = (a + d) % w
  <1> DEFINE r == a % w
  <1>1. r \in 0 .. w - 1 /\ r \in Nat
    BY DivMod
  <1>2. r % w = r
    BY <1>1, Small
  <1>3. \/ (a + d) % w = r + d /\ r + d < w
        \/ (a + d) % w = r + d - w /\ r + d >= w
    BY Later
  <1>4. \/ (r + d) % w = (r % w) + d /\ (r % w) + d < w
        \/ (r + d) % w = (r % w) + d - w /\ (r % w) + d >= w
    BY <1>1, Later
  <1> HIDE DEF r
  <1>5. (r + d) % w = (a + d) % w
    BY <1>1, <1>2, <1>3, <1>4
  <1> QED BY <1>5 DEF r

-----------------------------------------------------------------------------

(* A remainder of a remainder, when one divisor is a multiple of the other.*)
LEMMA TwoRemainders ==
    ASSUME NEW w \in Nat \ {0}, NEW v \in Nat \ {0}, v % w = 0, NEW n \in Nat
    PROVE  (n % v) % w = n % w
  <1> DEFINE k == n \div v  r == n % v  j == v \div w
             a == r \div w  s == r % w  q == n \div w  t == n % w
  <1>1. k \in Int /\ r \in 0 .. v - 1 /\ n = v * k + r
    BY DivMod
  <1>2. j \in Int /\ v = w * j + (v % w)
    BY DivMod
  <1>3. a \in Int /\ s \in 0 .. w - 1 /\ r = w * a + s
    BY <1>1, DivMod
  <1>4. q \in Int /\ t \in 0 .. w - 1 /\ n = w * q + t
    BY DivMod
  <1> HIDE DEF k, r, j, a, s, q, t
  <1> DEFINE m == j * k + a
  <1>5. m \in Int /\ w * m = w * (j * k) + w * a
    BY <1>1, <1>2, <1>3
  <1>6. v * k = w * (j * k)
    <2>1. v = w * j
      BY <1>2
    <2> QED BY <2>1, <1>1, <1>2
  <1> HIDE DEF m
  <1>7. w * q + t = w * m + s + 0
    BY <1>1, <1>3, <1>4, <1>5, <1>6
  <1>8. q = m \/ q = m + 1
    BY <1>3, <1>4, <1>5, <1>7, NextMultiple
  <1>9. t = s
    <2>1. CASE q = m
      BY <2>1, <1>3, <1>4, <1>5, <1>7
    <2>2. CASE q = m + 1
      <3>1. w * q = w * m + w
        BY <2>2, <1>5
      <3> QED BY <3>1, <1>3, <1>4, <1>5, <1>7
    <2> QED BY <1>8, <2>1, <2>2
  <1> QED BY <1>9 DEF r, s, t

(* Numbers that are less than the divisor apart have different remainders, *)
(* so that they have places of their own in a ring.                        *)
LEMMA Apart ==
    ASSUME NEW w \in Nat \ {0}, NEW a \in Nat, NEW b \in Nat, a < b, b - a < w
    PROVE  a % w # b % w
  <1>1. PICK d \in 1 .. w - 1 : b = a + d
    <2>1. b - a \in 1 .. w - 1 /\ b = a + (b - a)
      OBVIOUS
    <2> QED BY <2>1
  <1>2. d \in 0 .. w - 1 /\ d # 0 /\ d # w
    OBVIOUS
  <1>3. a % w \in 0 .. w - 1
    BY DivMod
  <1>4. (a + d) % w = (a % w) + d \/ (a + d) % w = (a % w) + d - w
    BY <1>2, Later
  <1> DEFINE r == a % w
  <1> HIDE DEF r
  <1>5. r \in Int /\ (b % w = r + d \/ b % w = r + d - w)
    BY <1>1, <1>3, <1>4 DEF r
  <1>6. b % w # r
    BY <1>5, <1>2
  <1> QED BY <1>6 DEF r

(* Of two multiples the smaller leaves room for the divisor.               *)
LEMMA RoomForOne ==
    ASSUME NEW w \in Nat \ {0}, NEW a \in Nat, NEW b \in Nat, a % w = 0, b % w = 0, a < b
    PROVE  a + w <= b
  <1> DEFINE p == a \div w  q == b \div w
  <1>1. p \in Int /\ a = w * p /\ q \in Int /\ b = w * q
    BY DivMod
  <1> HIDE DEF p, q
  <1>2. CASE q >= p + 1
    <2>1. w * q >= w * (p + 1) /\ w * (p + 1) = w * p + w
      BY <1>1, <1>2
    <2> QED BY <1>1, <2>1
  <1>3. CASE q <= p
    <2>1. w * q <= w * p
      BY <1>1, <1>3
    <2> QED BY <1>1, <2>1
  <1> QED BY <1>1, <1>2, <1>3

(* A multiple leaves no remainder.                                         *)
LEMMA MultipleIs ==
    ASSUME NEW w \in Nat \ {0}, NEW m \in Int
    PROVE  (w * m) % w = 0
  <1> DEFINE c == w * m  r == c \div w  s == c % w
  <1>1. c \in Int
    OBVIOUS
  <1>2. r \in Int /\ s \in 0 .. w - 1 /\ c = w * r + s
    <2> HIDE DEF c
    <2> QED BY <1>1, DivMod
  <1> HIDE DEF r, s
  <1>3. w * r + s = w * m + 0 + 0
    BY <1>2
  <1>4. r = m \/ r = m + 1
    BY <1>2, <1>3, NextMultiple
  <1>5. s = 0
    <2>1. CASE r = m
      BY <2>1, <1>2, <1>3
    <2>2. CASE r = m + 1
      <3>1. w * r = w * m + w
        BY <2>2
      <3> QED BY <3>1, <1>2, <1>3
    <2> QED BY <1>4, <2>1, <2>2
  <1> QED BY <1>5 DEF s

(* The sum of two multiples is one.                                        *)
LEMMA Multiples ==
    ASSUME NEW w \in Nat \ {0}, NEW a \in Nat, NEW b \in Nat, a % w = 0, b % w = 0
    PROVE  (a + b) % w = 0
  <1> DEFINE p == a \div w  q == b \div w
  <1>1. p \in Int /\ a = w * p /\ q \in Int /\ b = w * q
    BY DivMod
  <1> HIDE DEF p, q
  <1>2. p + q \in Int /\ a + b = w * (p + q)
    BY <1>1
  <1> QED BY <1>2, MultipleIs

-------------------------------------------------------------------------------
(* Induction, in the form of a least element. *)
Below == {ss \in Nat \X Nat : ss[1] < ss[2]}

(* A set of numbers has a least one.                                       *)
LEMMA LeastNat == ASSUME NEW T \in SUBSET Nat, T # {}
                  PROVE  \E x \in T : \A y \in T : x <= y
  <1>1. OpToRel(<, Nat) = Below
    BY Zenon DEF OpToRel, Below
  <1>2. IsWellFoundedOn(Below, Nat)
    BY <1>1, NatLessThanWellFounded, Zenon
  <1>3. PICK x \in T : \A y \in T : ~(<<y, x>> \in Below)
    BY <1>2, WFMin
  <1>4. ASSUME NEW y \in T PROVE x <= y
    <2>1. x \in Nat /\ y \in Nat
      OBVIOUS
    <2>2. ~(<<y, x>> \in Below)
      BY <1>3
    <2>3. ~(y < x)
      <3> SUFFICES ASSUME y < x PROVE FALSE
        OBVIOUS
      <3>1. <<y, x>> \in Nat \X Nat /\ <<y, x>>[1] = y /\ <<y, x>>[2] = x
        BY <2>1
      <3> QED BY <2>2, <3>1 DEF Below
    <2> QED BY <2>1, <2>3
  <1> QED BY <1>4

(* A set that has 0 and with each of its numbers the next, up to n.        *)
LEMMA Induction ==
    ASSUME NEW n \in Nat, NEW T, 0 \in T, \A i \in 1 .. n : i - 1 \in T => i \in T
    PROVE  \A i \in 0 .. n : i \in T
  <1> DEFINE Missing == {i \in 0 .. n : i \notin T}
  <1>1. ASSUME Missing # {} PROVE FALSE
    <2>0. Missing \in SUBSET Nat
      OBVIOUS
    <2>1. PICK x \in Missing : \A y \in Missing : x <= y
      <3> HIDE DEF Missing
      <3> QED BY <1>1, <2>0, LeastNat
    <2>2. x \in 0 .. n /\ x \notin T /\ x # 0
      OBVIOUS
    <2>3. x - 1 \in 0 .. n /\ x \in 1 .. n /\ ~(x <= x - 1)
      BY <2>2
    <2>4. x - 1 \in T
      BY <2>1, <2>3
    <2> QED BY <2>2, <2>3, <2>4
  <1> QED BY <1>1

(* A step that leads from each of the sets S[i - 1] to S[i], taken n times *)
(* from a member of S[0].                                                  *)
Leads(n, step, S) == \A i \in 1 .. n : \A x \in S[i - 1] : step[<<x, i>>] \in S[i]
Iteration(n, base, step, h) ==
    h = [i \in 0 .. n |-> IF i = 0 THEN base ELSE step[<<h[i - 1], i>>]]
StaysIn(n, S, h) == \A i \in 0 .. n : h[i] \in S[i]

(* A recursive function exists, and its values stay in the sets the step   *)
(* leads through.                                                          *)
LEMMA Iterated ==
    ASSUME NEW n \in Nat, NEW S, NEW base, base \in S[0], NEW step, Leads(n, step, S)
    PROVE  \E h : Iteration(n, base, step, h) /\ StaysIn(n, S, h)
  <1> DEFINE Good(h, k) == /\ h = [i \in 0 .. k |-> IF i = 0 THEN base ELSE step[<<h[i - 1], i>>]]
                           /\ \A i \in 0 .. k : h[i] \in S[i]
             T == {k \in Nat : \E h : Good(h, k)}
  <1>1. 0 \in T
    <2> DEFINE h == [i \in 0 .. 0 |-> base]
    <2>1. Good(h, 0)
      OBVIOUS
    <2> QED BY <2>1
  <1>2. ASSUME NEW k \in 1 .. n, k - 1 \in T PROVE k \in T
    <2>1. PICK g : Good(g, k - 1)
      BY <1>2
    <2> USE DEF Leads
    <2> DEFINE x == step[<<g[k - 1], k>>]
               h == [i \in 0 .. k |-> IF i = k THEN x ELSE g[i]]
    <2>2. k - 1 \in 0 .. k - 1 /\ g[k - 1] \in S[k - 1] /\ x \in S[k]
      BY <2>1
    <2> HIDE DEF x
    <2>3. \A i \in 0 .. k - 1 : h[i] = g[i] /\ i # k /\ i \in 0 .. k
      OBVIOUS
    <2>4. h[k] = x /\ k \in 0 .. k
      OBVIOUS
    <2> HIDE DEF h
    <2>5. \A i \in 0 .. k : h[i] \in S[i]
      <3>1. ASSUME NEW i \in 0 .. k PROVE h[i] \in S[i]
        <4>1. CASE i = k
          BY <2>2, <2>4, <4>1
        <4>2. CASE i # k
          <5>1. i \in 0 .. k - 1
            BY <4>2
          <5> QED BY <2>1, <2>3, <5>1
        <4> QED BY <4>1, <4>2
      <3> QED BY <3>1
    <2>6. ASSUME NEW i \in 0 .. k
          PROVE  h[i] = IF i = 0 THEN base ELSE step[<<h[i - 1], i>>]
      <3>1. CASE i = k
        <4>1. k - 1 \in 0 .. k - 1 /\ k # 0 /\ h[k - 1] = g[k - 1]
          BY <2>3
        <4> QED BY <2>4, <3>1, <4>1 DEF x
      <3>2. CASE i # k
        <4>1. i \in 0 .. k - 1
          BY <3>2
        <4>2. h[i] = g[i]
          BY <2>3, <4>1
        <4>3. g[i] = IF i = 0 THEN base ELSE step[<<g[i - 1], i>>]
          BY <2>1, <4>1
        <4>4. i # 0 => h[i - 1] = g[i - 1]
          <5>1. i # 0 => i - 1 \in 0 .. k - 1
            BY <4>1
          <5> QED BY <2>3, <5>1
        <4> QED BY <4>2, <4>3, <4>4
      <3> QED BY <3>1, <3>2
    <2>7. h = [i \in 0 .. k |-> h[i]]
      BY DEF h
    <2>8. h = [i \in 0 .. k |-> IF i = 0 THEN base ELSE step[<<h[i - 1], i>>]]
      BY <2>6, <2>7
    <2>9. Good(h, k)
      BY <2>5, <2>8
    <2>10. k \in Nat /\ \E f : Good(f, k)
      <3> HIDE DEF Good
      <3> QED BY <2>9
    <2> HIDE DEF Good
    <2> QED BY <2>10
  <1> HIDE DEF Good
  <1>3. \A i \in 0 .. n : i \in T
    <2> HIDE DEF T
    <2> QED BY <1>1, <1>2, Induction
  <1>4. n \in T
    BY <1>3
  <1>5. PICK h : Good(h, n)
    BY <1>4
  <1> QED BY <1>5 DEF Good, Iteration, StaysIn

====================================================================================
