-------------------------- MODULE EncodingsProofs ---------------------------
(***************************************************************************)
(* What the conversions of Encodings compute, for every size of a byte, an *)
(* element, an app_id and a limb.  The conversions are sums and digits, so *)
(* their lemmas go by induction.  The induction theorems of the library    *)
(* take an operator as a parameter; here a statement about numbers is a    *)
(* set of numbers, and a recursive step a function.                        *)
(***************************************************************************)
EXTENDS Encodings, SequenceTheorems, WellFoundedInduction, TLAPS

(***************************************************************************)
(* Induction and recursion.                                                *)
(***************************************************************************)
LEMMA LeastElement ==
  ASSUME NEW S \in SUBSET Nat, S # {}
  PROVE  \E x \in S : \A y \in S : x <= y
<1> DEFINE R == OpToRel(<, Nat)
<1>1. \A x, y \in Nat : y < x => <<y, x>> \in R
  BY DEF OpToRel
<1>2. IsWellFoundedOn(R, Nat)
  BY NatLessThanWellFounded
<1> HIDE DEF R
<1>3. PICK x \in S : \A y \in S : <<y, x>> \notin R
  BY <1>2, WFMin
<1>4. ASSUME NEW y \in S PROVE x <= y
  <2>1. x \in Nat /\ y \in Nat
    OBVIOUS
  <2>2. ~ (y < x)
    BY <1>1, <1>3, <2>1
  <2> QED BY <2>1, <2>2
<1> QED BY <1>4

LEMMA Induction ==
  ASSUME NEW S, 0 \in S, \A n \in Nat : n \in S => n + 1 \in S
  PROVE  Nat \subseteq S
<1> DEFINE Rest == {n \in Nat : n \notin S}
<1>1. SUFFICES ASSUME Rest # {} PROVE FALSE
  OBVIOUS
<1>2. PICK x \in Rest : \A y \in Rest : x <= y
  BY <1>1, LeastElement
<1>3. x - 1 \in Nat /\ x - 1 \notin Rest
  BY <1>2
<1> QED BY <1>2, <1>3

\* A function on 0..n is defined by its first value and a step that may
\* depend on the index.
Follows(f, n, first, step, T) ==
  /\ f \in [0..n -> T]
  /\ f[0] = first
  /\ \A i \in 1..n : f[i] = step[i][f[i - 1]]

LEMMA Recursion ==
  ASSUME NEW T, NEW n \in Nat, NEW first \in T, NEW step \in [1..n -> [T -> T]]
  PROVE  \E f : Follows(f, n, first, step, T)
<1> DEFINE S == {k \in Nat : k <= n => \E f : Follows(f, k, first, step, T)}
<1>1. 0 \in S
  <2> DEFINE f == [i \in 0..0 |-> first]
  <2>1. Follows(f, 0, first, step, T)
    BY DEF Follows
  <2> QED BY <2>1
<1>2. ASSUME NEW k \in Nat, k \in S, k + 1 <= n PROVE k + 1 \in S
  <2>1. PICK f : Follows(f, k, first, step, T)
    BY <1>2
  <2> DEFINE g == [i \in 0..(k + 1) |->
                     IF i <= k THEN f[i] ELSE step[k + 1][f[k]]]
  <2>2. step[k + 1][f[k]] \in T
    <3>1. f[k] \in T /\ step[k + 1] \in [T -> T]
      BY <1>2, <2>1 DEF Follows
    <3> QED BY <3>1
  <2>3. g \in [0..(k + 1) -> T]
    BY <2>1, <2>2 DEF Follows
  <2>4. g[0] = first
    BY <2>1 DEF Follows
  <2>5. ASSUME NEW i \in 1..(k + 1) PROVE g[i] = step[i][g[i - 1]]
    BY <2>1 DEF Follows
  <2>6. Follows(g, k + 1, first, step, T)
    BY <2>3, <2>4, <2>5 DEF Follows
  <2> QED BY <2>6
<1>3. Nat \subseteq S
  <2> HIDE DEF S
  <2>1. \A k \in Nat : k \in S => k + 1 \in S
    BY <1>2 DEF S
  <2> QED BY <1>1, <2>1, Induction
<1> QED BY <1>3

\* The value after one more step.
LEMMA NextValue ==
  ASSUME NEW T, NEW n \in Nat, NEW first \in T, NEW step, NEW longer, NEW f, NEW g,
         Follows(f, n, first, step, T), Follows(g, n + 1, first, longer, T),
         \A i \in 1..n : step[i] = longer[i]
  PROVE  f[n] \in T /\ g[n + 1] = longer[n + 1][f[n]]
<1> DEFINE S == {i \in Nat : i <= n => f[i] = g[i]}
<1>1. 0 \in S
  BY DEF Follows
<1>2. \A i \in Nat : i \in S => i + 1 \in S
  BY DEF Follows
<1>3. Nat \subseteq S
  <2> HIDE DEF S
  <2> QED BY <1>1, <1>2, Induction
<1>4. f[n] = g[n] /\ n + 1 \in 1..(n + 1) /\ (n + 1) - 1 = n
  BY <1>3
<1>5. g[n + 1] = longer[n + 1][g[(n + 1) - 1]]
  BY <1>4 DEF Follows
<1>6. f[n] \in T
  BY DEF Follows
<1> QED BY <1>4, <1>5, <1>6

\* The function a recursive definition chooses follows the recursion.
LEMMA Chosen ==
  ASSUME NEW T, NEW n \in Nat, NEW first \in T, NEW step \in [1..n -> [T -> T]],
         NEW f, f = [i \in 0..n |-> f[i]], f[0] = first,
         \A i \in 1..n : f[i - 1] \in T => f[i] = step[i][f[i - 1]]
  PROVE  Follows(f, n, first, step, T)
<1> DEFINE S == {i \in Nat : i <= n => f[i] \in T}
<1>1. 0 \in S
  OBVIOUS
<1>2. ASSUME NEW i \in Nat, i \in S PROVE i + 1 \in S
  <2>1. CASE i + 1 <= n
    <3>1. i + 1 \in 1..n /\ (i + 1) - 1 = i
      BY <2>1
    <3>2. f[i] \in T
      BY <1>2, <2>1
    <3>3. step[i + 1] \in [T -> T]
      BY <3>1
    <3>4. f[i + 1] = step[i + 1][f[i]]
      BY <3>1, <3>2
    <3>5. f[i + 1] \in T
      BY <3>2, <3>3, <3>4
    <3> QED BY <3>5
  <2>2. CASE ~ (i + 1 <= n)
    BY <2>2
  <2> QED BY <2>1, <2>2
<1>3. Nat \subseteq S
  <2> HIDE DEF S
  <2> QED BY <1>1, <1>2, Induction
<1>4. \A i \in 0..n : f[i] \in T
  BY <1>3
<1>5. f \in [0..n -> T]
  BY <1>4
<1>6. ASSUME NEW i \in 1..n PROVE f[i] = step[i][f[i - 1]]
  <2>1. i - 1 \in 0..n
    OBVIOUS
  <2> QED BY <1>4, <2>1
<1> QED BY <1>5, <1>6 DEF Follows
-----------------------------------------------------------------------------
(***************************************************************************)
(* Powers.                                                                 *)
(***************************************************************************)
PowerStep(b, k) == [i \in 1..k |-> [v \in Nat |-> b * v]]

LEMMA PowerFunction ==
  ASSUME NEW b \in Nat, NEW k \in Nat
  PROVE  \E f : Follows(f, k, 1, PowerStep(b, k), Nat) /\ Power(b, k) = f[k]
<1> DEFINE p == CHOOSE f :
                  f = [i \in 0..k |-> IF i = 0 THEN 1 ELSE b * f[i - 1]]
<1>1. PowerStep(b, k) \in [1..k -> [Nat -> Nat]]
  BY DEF PowerStep
<1>2. PICK g : Follows(g, k, 1, PowerStep(b, k), Nat)
  BY <1>1, Recursion
<1>3. g = [i \in 0..k |-> IF i = 0 THEN 1 ELSE b * g[i - 1]]
  <2>1. g = [i \in 0..k |-> g[i]]
    BY <1>2 DEF Follows
  <2>2. ASSUME NEW i \in 0..k PROVE g[i] = IF i = 0 THEN 1 ELSE b * g[i - 1]
    <3>1. CASE i = 0
      BY <1>2, <3>1 DEF Follows
    <3>2. CASE i \in 1..k
      <4>1. g[i - 1] \in Nat /\ g[i] = PowerStep(b, k)[i][g[i - 1]]
        BY <1>2, <3>2 DEF Follows
      <4>2. PowerStep(b, k)[i] = [v \in Nat |-> b * v]
        BY <3>2 DEF PowerStep
      <4> QED BY <3>2, <4>1, <4>2
    <3> QED BY <3>1, <3>2
  <2> QED BY <2>1, <2>2
<1>4. p = [i \in 0..k |-> IF i = 0 THEN 1 ELSE b * p[i - 1]]
  BY <1>3
<1>5. Power(b, k) = p[k]
  BY DEF Power
<1> HIDE DEF p
<1>6. Follows(p, k, 1, PowerStep(b, k), Nat)
  <2>1. p = [i \in 0..k |-> p[i]] /\ p[0] = 1
    BY <1>4
  <2>2. ASSUME NEW i \in 1..k, p[i - 1] \in Nat
        PROVE  p[i] = PowerStep(b, k)[i][p[i - 1]]
    <3>1. p[i] = b * p[i - 1]
      BY <1>4
    <3>2. PowerStep(b, k)[i] = [v \in Nat |-> b * v]
      BY DEF PowerStep
    <3> QED BY <2>2, <3>1, <3>2
  <2> QED BY <1>1, <2>1, <2>2, Chosen
<1> QED BY <1>5, <1>6

LEMMA PowerLaws ==
  ASSUME NEW b \in Nat, NEW k \in Nat
  PROVE  /\ Power(b, k) \in Nat
         /\ Power(b, 0) = 1
         /\ Power(b, k + 1) = b * Power(b, k)
<1>1. PICK f : Follows(f, k, 1, PowerStep(b, k), Nat) /\ Power(b, k) = f[k]
  BY PowerFunction
<1>2. PICK g : Follows(g, k + 1, 1, PowerStep(b, k + 1), Nat)
               /\ Power(b, k + 1) = g[k + 1]
  BY PowerFunction
<1>3. PICK h : Follows(h, 0, 1, PowerStep(b, 0), Nat) /\ Power(b, 0) = h[0]
  BY PowerFunction
<1>4. \A i \in 1..k : PowerStep(b, k)[i] = PowerStep(b, k + 1)[i]
  BY DEF PowerStep
<1>5. f[k] \in Nat /\ g[k + 1] = PowerStep(b, k + 1)[k + 1][f[k]]
  BY <1>1, <1>2, <1>4, NextValue
<1>6. PowerStep(b, k + 1)[k + 1] = [v \in Nat |-> b * v]
  BY DEF PowerStep
<1> QED BY <1>1, <1>2, <1>3, <1>5, <1>6 DEF Follows
-----------------------------------------------------------------------------
(***************************************************************************)
(* Sums of digits.                                                         *)
(***************************************************************************)
SumStep(b, d, k) == [i \in 1..k |-> [v \in Nat |-> v + d[i] * Power(b, i - 1)]]

LEMMA SumStepType ==
  ASSUME NEW b \in Nat, NEW k \in Nat, NEW d, NEW i \in 1..k, d[i] \in Nat
  PROVE  /\ SumStep(b, d, k)[i] \in [Nat -> Nat]
         /\ \A v \in Nat : SumStep(b, d, k)[i][v] = v + d[i] * Power(b, i - 1)
<1>1. i - 1 \in Nat
  OBVIOUS
<1>2. Power(b, i - 1) \in Nat
  BY <1>1, PowerLaws
<1>3. d[i] * Power(b, i - 1) \in Nat
  BY <1>2
<1>4. SumStep(b, d, k)[i] = [v \in Nat |-> v + d[i] * Power(b, i - 1)]
  BY DEF SumStep
<1> QED BY <1>3, <1>4

LEMMA PositionalFunction ==
  ASSUME NEW b \in Nat, NEW k \in Nat, NEW d, \A i \in 1..k : d[i] \in Nat
  PROVE  \E f : Follows(f, k, 0, SumStep(b, d, k), Nat) /\ Positional(b, d, k) = f[k]
<1> DEFINE p == CHOOSE f :
                  f = [i \in 0..k |->
                         IF i = 0 THEN 0 ELSE f[i - 1] + d[i] * Power(b, i - 1)]
<1>0. ASSUME NEW i \in 1..k, NEW v \in Nat
      PROVE  SumStep(b, d, k)[i][v] = v + d[i] * Power(b, i - 1)
  <2> HIDE DEF p
  <2>1. d[i] \in Nat
    OBVIOUS
  <2> QED BY <2>1, SumStepType
<1>1. SumStep(b, d, k) \in [1..k -> [Nat -> Nat]]
  <2>1. SumStep(b, d, k) = [i \in 1..k |-> SumStep(b, d, k)[i]]
    BY DEF SumStep
  <2>2. \A i \in 1..k : SumStep(b, d, k)[i] \in [Nat -> Nat]
    BY SumStepType
  <2> QED BY <2>1, <2>2
<1>2. PICK g : Follows(g, k, 0, SumStep(b, d, k), Nat)
  BY <1>1, Recursion
<1>3. g = [i \in 0..k |->
             IF i = 0 THEN 0 ELSE g[i - 1] + d[i] * Power(b, i - 1)]
  <2>1. g = [i \in 0..k |-> g[i]]
    BY <1>2 DEF Follows
  <2>2. ASSUME NEW i \in 0..k
        PROVE  g[i] = IF i = 0 THEN 0 ELSE g[i - 1] + d[i] * Power(b, i - 1)
    <3>1. CASE i = 0
      BY <1>2, <3>1 DEF Follows
    <3>2. CASE i \in 1..k
      <4>1. g[i - 1] \in Nat /\ g[i] = SumStep(b, d, k)[i][g[i - 1]]
        BY <1>2, <3>2 DEF Follows
      <4> QED BY <1>0, <3>2, <4>1
    <3> QED BY <3>1, <3>2
  <2> QED BY <2>1, <2>2
<1>4. p = [i \in 0..k |->
             IF i = 0 THEN 0 ELSE p[i - 1] + d[i] * Power(b, i - 1)]
  BY <1>3
<1>5. Positional(b, d, k) = p[k]
  BY DEF Positional
<1> HIDE DEF p
<1>6. Follows(p, k, 0, SumStep(b, d, k), Nat)
  <2>1. p = [i \in 0..k |-> p[i]] /\ p[0] = 0
    BY <1>4
  <2>2. ASSUME NEW i \in 1..k, p[i - 1] \in Nat
        PROVE  p[i] = SumStep(b, d, k)[i][p[i - 1]]
    <3>1. p[i] = p[i - 1] + d[i] * Power(b, i - 1)
      BY <1>4
    <3> QED BY <1>0, <2>2, <3>1
  <2> QED BY <1>1, <2>1, <2>2, Chosen
<1> QED BY <1>5, <1>6

LEMMA PositionalZero ==
  ASSUME NEW b \in Nat, NEW d
  PROVE  Positional(b, d, 0) = 0
<1>1. \A i \in 1..0 : d[i] \in Nat
  OBVIOUS
<1>2. PICK f : Follows(f, 0, 0, SumStep(b, d, 0), Nat) /\ Positional(b, d, 0) = f[0]
  BY <1>1, PositionalFunction
<1> QED BY <1>2 DEF Follows

LEMMA PositionalNat ==
  ASSUME NEW b \in Nat, NEW k \in Nat, NEW d, \A i \in 1..k : d[i] \in Nat
  PROVE  Positional(b, d, k) \in Nat
<1>1. PICK f : Follows(f, k, 0, SumStep(b, d, k), Nat) /\ Positional(b, d, k) = f[k]
  BY PositionalFunction
<1> QED BY <1>1 DEF Follows

LEMMA PositionalNext ==
  ASSUME NEW b \in Nat, NEW k \in Nat, NEW d, \A i \in 1..(k + 1) : d[i] \in Nat
  PROVE  Positional(b, d, k + 1) = Positional(b, d, k) + d[k + 1] * Power(b, k)
<1>1. k + 1 \in Nat /\ k + 1 \in 1..(k + 1) /\ (k + 1) - 1 = k
  OBVIOUS
<1>2. \A i \in 1..k : d[i] \in Nat
  OBVIOUS
<1>3. PICK f : Follows(f, k, 0, SumStep(b, d, k), Nat) /\ Positional(b, d, k) = f[k]
  BY <1>2, PositionalFunction
<1>4. PICK g : Follows(g, k + 1, 0, SumStep(b, d, k + 1), Nat)
               /\ Positional(b, d, k + 1) = g[k + 1]
  BY <1>1, PositionalFunction
<1>5. \A i \in 1..k : SumStep(b, d, k)[i] = SumStep(b, d, k + 1)[i]
  BY DEF SumStep
<1>6. f[k] \in Nat /\ g[k + 1] = SumStep(b, d, k + 1)[k + 1][f[k]]
  BY <1>3, <1>4, <1>5, NextValue
<1>7. SumStep(b, d, k + 1)[k + 1] = [v \in Nat |-> v + d[k + 1] * Power(b, k)]
  BY <1>1 DEF SumStep
<1> QED BY <1>3, <1>4, <1>6, <1>7
-----------------------------------------------------------------------------
(***************************************************************************)
(* Arithmetic.                                                             *)
(***************************************************************************)
LEMMA ProductMonotone ==
  ASSUME NEW x \in Nat, NEW y \in Nat, NEW p \in Nat, x <= y
  PROVE  x * p <= y * p
<1>1. PICK c \in Nat : y = x + c
  <2>1. y - x \in Nat /\ y = x + (y - x)
    OBVIOUS
  <2> QED BY <2>1
<1>2. y * p = x * p + c * p /\ c * p \in Nat /\ x * p \in Nat
  BY <1>1
<1> QED BY <1>2

\* A remainder and a quotient determine a number, and it them.
LEMMA Division ==
  ASSUME NEW n \in Nat, NEW p \in Nat \ {0}
  PROVE  /\ n \div p \in Nat /\ n % p \in Nat /\ n % p < p
         /\ n = (n \div p) * p + (n % p)
<1>1. n % p \in 0..(p - 1)
  OBVIOUS
<1>2. n = p * (n \div p) + (n % p)
  OBVIOUS
<1>3. n \div p \in Nat
  OBVIOUS
<1> QED BY <1>1, <1>2, <1>3

LEMMA DivisionUnique ==
  ASSUME NEW p \in Nat, NEW x \in Nat, NEW y \in Nat, NEW u \in Nat, NEW v \in Nat,
         u < p, v < p, u + x * p = v + y * p
  PROVE  x = y /\ u = v
<1>1. ASSUME NEW a \in Nat, NEW c \in Nat, NEW r \in Nat, NEW s \in Nat,
             r < p, s < p, r + a * p = s + c * p, a < c
      PROVE  FALSE
  <2>1. (a + 1) * p <= c * p
    BY <1>1, ProductMonotone
  <2>2. (a + 1) * p = a * p + p /\ a * p \in Nat /\ c * p \in Nat
    OBVIOUS
  <2> QED BY <1>1, <2>1, <2>2
<1>2. ~ (x < y) /\ ~ (y < x)
  BY <1>1
<1>3. x = y
  BY <1>2
<1>4. x * p \in Nat /\ x * p = y * p
  BY <1>3
<1> QED BY <1>3, <1>4

LEMMA DigitBelow ==
  ASSUME NEW b \in Nat, NEW p \in Nat, NEW u \in Nat, NEW x \in Nat, u < p, x < b
  PROVE  u + x * p < b * p
<1>1. (x + 1) * p <= b * p
  BY ProductMonotone
<1>2. (x + 1) * p = x * p + p /\ x * p \in Nat /\ b * p \in Nat
  OBVIOUS
<1> QED BY <1>1, <1>2

\* Dividing by p and then by b is dividing by b * p.
LEMMA DivisionTwice ==
  ASSUME NEW n \in Nat, NEW p \in Nat \ {0}, NEW b \in Nat \ {0}
  PROVE  (n \div p) \div b = n \div (b * p)
<1> DEFINE q == n \div p
           r == n % p
           t == q \div b
           x == q % b
           u == n \div (b * p)
           v == n % (b * p)
<1>1. q \in Nat /\ r \in Nat /\ r < p /\ n = q * p + r
  BY Division
<1>2. t \in Nat /\ x \in Nat /\ x < b /\ q = t * b + x
  BY <1>1, Division
<1>3. b * p \in Nat \ {0}
  OBVIOUS
<1>4. u \in Nat /\ v \in Nat /\ v < b * p /\ n = u * (b * p) + v
  BY <1>3, Division
<1> HIDE DEF q, r, t, x, u, v
<1>5. r + x * p < b * p /\ r + x * p \in Nat
  BY <1>1, <1>2, DigitBelow
<1>6. n = (r + x * p) + t * (b * p)
  <2>1. q * p = t * (b * p) + x * p
    BY <1>2
  <2> QED BY <1>1, <1>2, <2>1
<1>7. t = u
  BY <1>2, <1>3, <1>4, <1>5, <1>6, DivisionUnique
<1> QED BY <1>7 DEF t, q, u
-----------------------------------------------------------------------------
(***************************************************************************)
(* Positional notation in a base b: k digits stay below b^k, a number has  *)
(* one representation, and its digits represent it.                        *)
(***************************************************************************)
Digits(d, b, k) == \A i \in 1..k : d[i] \in Nat /\ d[i] < b

LEMMA PowerPositive ==
  ASSUME NEW b \in Nat \ {0}, NEW k \in Nat
  PROVE  Power(b, k) \in Nat \ {0}
<1> DEFINE S == {i \in Nat : Power(b, i) \in Nat \ {0}}
<1>1. 0 \in S
  BY PowerLaws
<1>2. ASSUME NEW i \in Nat, i \in S PROVE i + 1 \in S
  <2>1. Power(b, i) \in Nat \ {0} /\ Power(b, i + 1) = b * Power(b, i)
    BY <1>2, PowerLaws
  <2>2. b * Power(b, i) \in Nat \ {0}
    BY <2>1
  <2> QED BY <2>1, <2>2
<1>3. Nat \subseteq S
  <2> HIDE DEF S
  <2> QED BY <1>1, <1>2, Induction
<1> QED BY <1>3

LEMMA PowerMonotone ==
  ASSUME NEW b \in Nat \ {0}, NEW j \in Nat, NEW k \in Nat, j <= k
  PROVE  Power(b, j) <= Power(b, k)
<1> DEFINE S == {i \in Nat : Power(b, j) <= Power(b, j + i)}
<1>1. 0 \in S
  <2>1. Power(b, j) \in Nat /\ j + 0 = j
    BY PowerLaws
  <2> QED BY <2>1
<1>2. ASSUME NEW i \in Nat, i \in S PROVE i + 1 \in S
  <2>1. j + i \in Nat /\ j + (i + 1) = (j + i) + 1
    OBVIOUS
  <2>2. Power(b, j + i) \in Nat /\ Power(b, (j + i) + 1) = b * Power(b, j + i)
    BY <2>1, PowerLaws
  <2>3. Power(b, j + i) <= b * Power(b, j + i)
    <3>1. 1 * Power(b, j + i) <= b * Power(b, j + i)
      BY <2>2, ProductMonotone
    <3> QED BY <2>2, <3>1
  <2>4. Power(b, j) \in Nat /\ Power(b, j) <= Power(b, j + i)
    BY <1>2, PowerLaws
  <2>5. b * Power(b, j + i) \in Nat
    BY <2>2
  <2>6. Power(b, j) <= Power(b, (j + i) + 1)
    BY <2>2, <2>3, <2>4, <2>5
  <2> QED BY <2>1, <2>6
<1>3. Nat \subseteq S
  <2> HIDE DEF S
  <2> QED BY <1>1, <1>2, Induction
<1>4. k - j \in Nat /\ j + (k - j) = k
  OBVIOUS
<1> QED BY <1>3, <1>4

LEMMA PositionalBound ==
  ASSUME NEW b \in Nat, NEW k \in Nat, NEW d, Digits(d, b, k)
  PROVE  Positional(b, d, k) \in Nat /\ Positional(b, d, k) < Power(b, k)
<1> DEFINE S == {i \in Nat : i <= k => Positional(b, d, i) < Power(b, i)}
<1>1. 0 \in S
  BY PositionalZero, PowerLaws
<1>2. ASSUME NEW i \in Nat, i \in S PROVE i + 1 \in S
  <2>1. CASE i + 1 <= k
    <3>1. /\ \A j \in 1..(i + 1) : d[j] \in Nat
          /\ \A j \in 1..i : d[j] \in Nat
          /\ d[i + 1] \in Nat /\ d[i + 1] < b
      BY <2>1 DEF Digits
    <3>2. Positional(b, d, i) \in Nat /\ Positional(b, d, i) < Power(b, i)
      BY <1>2, <2>1, <3>1, PositionalNat
    <3>3. Power(b, i) \in Nat /\ Power(b, i + 1) = b * Power(b, i)
      BY PowerLaws
    <3>4. Positional(b, d, i + 1) = Positional(b, d, i) + d[i + 1] * Power(b, i)
      BY <3>1, PositionalNext
    <3>5. Positional(b, d, i) + d[i + 1] * Power(b, i) < b * Power(b, i)
      BY <3>1, <3>2, <3>3, DigitBelow
    <3> QED BY <3>3, <3>4, <3>5
  <2>2. CASE ~ (i + 1 <= k)
    BY <2>2
  <2> QED BY <2>1, <2>2
<1>3. Nat \subseteq S
  <2> HIDE DEF S
  <2> QED BY <1>1, <1>2, Induction
<1>4. Positional(b, d, k) \in Nat
  BY PositionalNat DEF Digits
<1> QED BY <1>3, <1>4

LEMMA DigitsUnique ==
  ASSUME NEW b \in Nat, NEW k \in Nat, NEW d, NEW e, Digits(d, b, k), Digits(e, b, k),
         Positional(b, d, k) = Positional(b, e, k)
  PROVE  \A i \in 1..k : d[i] = e[i]
<1> DEFINE S == {i \in Nat : i <= k /\ Positional(b, d, i) = Positional(b, e, i)
                               => \A j \in 1..i : d[j] = e[j]}
<1>1. 0 \in S
  OBVIOUS
<1>2. ASSUME NEW i \in Nat, i \in S PROVE i + 1 \in S
  <2> SUFFICES ASSUME i + 1 <= k, Positional(b, d, i + 1) = Positional(b, e, i + 1)
               PROVE  \A j \in 1..(i + 1) : d[j] = e[j]
    OBVIOUS
  <2>1. /\ Digits(d, b, i) /\ Digits(e, b, i)
        /\ \A j \in 1..(i + 1) : d[j] \in Nat /\ e[j] \in Nat
    BY DEF Digits
  <2>2. Positional(b, d, i + 1) = Positional(b, d, i) + d[i + 1] * Power(b, i)
    BY <2>1, PositionalNext
  <2>3. Positional(b, e, i + 1) = Positional(b, e, i) + e[i + 1] * Power(b, i)
    BY <2>1, PositionalNext
  <2>4. /\ Positional(b, d, i) \in Nat /\ Positional(b, d, i) < Power(b, i)
        /\ Positional(b, e, i) \in Nat /\ Positional(b, e, i) < Power(b, i)
    BY <2>1, PositionalBound
  <2>5. Power(b, i) \in Nat
    BY PowerLaws
  <2>6. d[i + 1] \in Nat /\ e[i + 1] \in Nat
    BY <2>1
  <2>7. Positional(b, d, i) + d[i + 1] * Power(b, i)
          = Positional(b, e, i) + e[i + 1] * Power(b, i)
    BY <2>2, <2>3
  <2>8. d[i + 1] = e[i + 1] /\ Positional(b, d, i) = Positional(b, e, i)
    <3> DEFINE p == Power(b, i)
               x == d[i + 1]
               y == e[i + 1]
               u == Positional(b, d, i)
               v == Positional(b, e, i)
    <3>1. /\ p \in Nat /\ x \in Nat /\ y \in Nat /\ u \in Nat /\ v \in Nat
          /\ u < p /\ v < p /\ u + x * p = v + y * p
      BY <2>4, <2>5, <2>6, <2>7
    <3> HIDE DEF p, x, y, u, v
    <3>2. x = y /\ u = v
      BY <3>1, DivisionUnique
    <3> QED BY <3>2 DEF x, y, u, v
  <2>9. \A j \in 1..i : d[j] = e[j]
    BY <1>2, <2>8
  <2> QED BY <2>8, <2>9
<1>3. Nat \subseteq S
  <2> HIDE DEF S
  <2> QED BY <1>1, <1>2, Induction
<1> QED BY <1>3

\* The sum of the k lowest digits of n is n without its higher digits.
LEMMA DigitSum ==
  ASSUME NEW b \in Nat \ {0}, NEW n \in Nat, NEW k \in Nat, NEW d,
         \A i \in 1..k : d[i] = Digit(n, b, i)
  PROVE  /\ Digits(d, b, k)
         /\ n = (n \div Power(b, k)) * Power(b, k) + Positional(b, d, k)
<1>1. ASSUME NEW i \in Nat, i + 1 <= k
      PROVE  /\ d[i + 1] = (n \div Power(b, i)) % b
             /\ d[i + 1] \in Nat /\ d[i + 1] < b
  <2>1. i + 1 \in 1..k /\ (i + 1) - 1 = i
    BY <1>1
  <2>2. d[i + 1] = (n \div Power(b, i)) % b
    BY <2>1 DEF Digit
  <2>3. n \div Power(b, i) \in Nat
    BY PowerPositive, Division
  <2> QED BY <2>2, <2>3, Division
<1>2. Digits(d, b, k)
  <2>1. ASSUME NEW i \in 1..k PROVE d[i] \in Nat /\ d[i] < b
    <3>1. i - 1 \in Nat /\ (i - 1) + 1 = i /\ (i - 1) + 1 <= k
      OBVIOUS
    <3>2. d[(i - 1) + 1] \in Nat /\ d[(i - 1) + 1] < b
      BY <1>1, <3>1
    <3> QED BY <3>1, <3>2
  <2> QED BY <2>1 DEF Digits
<1> DEFINE S == {i \in Nat : i <= k =>
                    n = (n \div Power(b, i)) * Power(b, i) + Positional(b, d, i)}
<1>3. 0 \in S
  <2>1. Power(b, 0) = 1 /\ Positional(b, d, 0) = 0
    BY PowerLaws, PositionalZero
  <2>2. n \div 1 = n
    OBVIOUS
  <2> QED BY <2>1, <2>2
<1>4. ASSUME NEW i \in Nat, i \in S PROVE i + 1 \in S
  <2> SUFFICES ASSUME i + 1 <= k
               PROVE  n = (n \div Power(b, i + 1)) * Power(b, i + 1)
                            + Positional(b, d, i + 1)
    OBVIOUS
  <2> DEFINE p == Power(b, i)
             q == n \div p
             t == q \div b
             x == d[i + 1]
             u == Positional(b, d, i)
  <2>1. p \in Nat \ {0} /\ Power(b, i + 1) = b * p
    BY PowerPositive, PowerLaws
  <2>2. q \in Nat
    BY <2>1, Division
  <2>3. t \in Nat /\ q = t * b + x /\ x \in Nat
    BY <2>2, <1>1, Division
  <2>4. n \div (b * p) = t
    BY <2>1, DivisionTwice
  <2>5. Positional(b, d, i + 1) = u + x * p /\ u \in Nat
    <3>1. /\ \A j \in 1..(i + 1) : d[j] \in Nat
          /\ \A j \in 1..i : d[j] \in Nat
      BY <1>2 DEF Digits
    <3> QED BY <3>1, PositionalNext, PositionalNat
  <2>6. n = q * p + u
    BY <1>4
  <2> HIDE DEF p, q, t, x, u
  <2>7. q * p = t * (b * p) + x * p
    BY <2>1, <2>2, <2>3
  <2>8. n = t * (b * p) + (u + x * p)
    BY <2>1, <2>2, <2>3, <2>5, <2>6, <2>7
  <2> QED BY <2>1, <2>4, <2>5, <2>8
<1>5. Nat \subseteq S
  <2> HIDE DEF S
  <2> QED BY <1>3, <1>4, Induction
<1> QED BY <1>2, <1>5

\* A number of k digits is the sum of its digits.
LEMMA DigitSumExact ==
  ASSUME NEW b \in Nat \ {0}, NEW n \in Nat, NEW k \in Nat, NEW d,
         \A i \in 1..k : d[i] = Digit(n, b, i), n < Power(b, k)
  PROVE  Digits(d, b, k) /\ Positional(b, d, k) = n
<1>1. /\ Digits(d, b, k)
      /\ n = (n \div Power(b, k)) * Power(b, k) + Positional(b, d, k)
  BY DigitSum
<1>2. Power(b, k) \in Nat \ {0}
  BY PowerPositive
<1>3. n \div Power(b, k) \in Nat
  BY <1>2, Division
<1>4. Positional(b, d, k) \in Nat /\ Positional(b, d, k) < Power(b, k)
  BY <1>1, PositionalBound
<1>5. n + 0 * Power(b, k) = Positional(b, d, k) + (n \div Power(b, k)) * Power(b, k)
  BY <1>1, <1>2, <1>3, <1>4
<1>6. n = Positional(b, d, k)
  BY <1>2, <1>3, <1>4, <1>5, DivisionUnique
<1> QED BY <1>1, <1>6
-----------------------------------------------------------------------------
(***************************************************************************)
(* Byte strings.                                                           *)
(***************************************************************************)
HornerStep(s) ==
  [i \in 1..Len(s) |-> [v \in Nat |-> v * ByteBase + s[i]]]

LEMMA SetBytesFunction ==
  ASSUME NEW s \in Seq(Nat)
  PROVE  \E f : Follows(f, Len(s), 0, HornerStep(s), Nat) /\ SetBytes(s) = f[Len(s)]
<1> DEFINE L == Len(s)
           p == CHOOSE f :
                  f = [i \in 0..L |-> IF i = 0 THEN 0 ELSE f[i - 1] * ByteBase + s[i]]
<1>1. L \in Nat /\ \A i \in 1..L : s[i] \in Nat
  BY LenProperties
<1>2. SetBytes(s) = p[L]
  BY DEF SetBytes
<1>3. \A i \in 1..L : HornerStep(s)[i] = [v \in Nat |-> v * ByteBase + s[i]]
  BY DEF HornerStep
<1>4. HornerStep(s) \in [1..L -> [Nat -> Nat]]
  <2>1. HornerStep(s) = [i \in 1..L |-> HornerStep(s)[i]]
    BY DEF HornerStep
  <2>2. ASSUME NEW i \in 1..L PROVE HornerStep(s)[i] \in [Nat -> Nat]
    <3>1. \A v \in Nat : v * ByteBase + s[i] \in Nat
      BY <1>1, EncodingAssumption
    <3> QED BY <1>3, <3>1
  <2> QED BY <2>1, <2>2
<1> HIDE DEF L
<1>5. PICK g : Follows(g, L, 0, HornerStep(s), Nat)
  BY <1>1, <1>4, Recursion
<1>6. g = [i \in 0..L |-> IF i = 0 THEN 0 ELSE g[i - 1] * ByteBase + s[i]]
  <2>1. g = [i \in 0..L |-> g[i]]
    BY <1>5 DEF Follows
  <2>2. ASSUME NEW i \in 0..L
        PROVE  g[i] = IF i = 0 THEN 0 ELSE g[i - 1] * ByteBase + s[i]
    <3>1. CASE i = 0
      BY <1>5, <3>1 DEF Follows
    <3>2. CASE i \in 1..L
      <4>1. g[i - 1] \in Nat /\ g[i] = HornerStep(s)[i][g[i - 1]]
        BY <1>1, <1>5, <3>2 DEF Follows
      <4>2. HornerStep(s)[i] = [v \in Nat |-> v * ByteBase + s[i]]
        BY <1>3, <3>2
      <4> QED BY <3>2, <4>1, <4>2
    <3> QED BY <1>1, <3>1, <3>2
  <2> QED BY <2>1, <2>2
<1>7. p = [i \in 0..L |-> IF i = 0 THEN 0 ELSE p[i - 1] * ByteBase + s[i]]
  BY <1>6
<1> HIDE DEF p
<1>8. Follows(p, L, 0, HornerStep(s), Nat)
  <2>1. p = [i \in 0..L |-> p[i]] /\ p[0] = 0
    BY <1>1, <1>7
  <2>2. ASSUME NEW i \in 1..L, p[i - 1] \in Nat
        PROVE  p[i] = HornerStep(s)[i][p[i - 1]]
    <3>1. p[i] = p[i - 1] * ByteBase + s[i]
      BY <1>1, <1>7
    <3> QED BY <1>3, <2>2, <3>1
  <2> QED BY <1>1, <1>4, <2>1, <2>2, Chosen
<1> QED BY <1>2, <1>8 DEF L

\* math/big reads the bytes from the high end: the sum of the reversed digits.
LEMMA SetBytesValue ==
  ASSUME NEW s \in Seq(Nat), NEW d, \A i \in 1..Len(s) : d[i] = s[Len(s) - i + 1]
  PROVE  SetBytes(s) = Positional(ByteBase, d, Len(s))
<1> DEFINE L == Len(s)
<1>1. L \in Nat /\ (\A i \in 1..L : s[i] \in Nat) /\ ByteBase \in Nat
  BY LenProperties, EncodingAssumption
<1>2. PICK f : Follows(f, L, 0, HornerStep(s), Nat) /\ SetBytes(s) = f[L]
  BY SetBytesFunction
<1> HIDE DEF L
<1>3. ASSUME NEW j \in 1..L
      PROVE  f[j - 1] \in Nat /\ f[j] = f[j - 1] * ByteBase + s[j]
  <2>1. f[j - 1] \in Nat /\ f[j] = HornerStep(s)[j][f[j - 1]]
    BY <1>1, <1>2 DEF Follows
  <2>2. HornerStep(s)[j] = [v \in Nat |-> v * ByteBase + s[j]]
    BY DEF HornerStep, L
  <2> QED BY <2>1, <2>2
<1>4. \A i \in 1..L : d[i] \in Nat /\ d[i] = s[L - i + 1]
  <2>1. \A i \in 1..L : L - i + 1 \in 1..L
    BY <1>1
  <2> QED BY <1>1, <2>1 DEF L
<1>5. f[0] = 0
  BY <1>2 DEF Follows
<1> DEFINE S == {i \in Nat : i <= L =>
                    f[L] = f[L - i] * Power(ByteBase, i) + Positional(ByteBase, d, i)}
<1>6. 0 \in S
  <2>1. Power(ByteBase, 0) = 1
    BY <1>1, PowerLaws
  <2>2. Positional(ByteBase, d, 0) = 0
    BY <1>1, PositionalZero
  <2>3. f[L] \in Nat /\ L - 0 = L
    BY <1>1, <1>2 DEF Follows
  <2> QED BY <2>1, <2>2, <2>3
<1>7. ASSUME NEW i \in Nat, i \in S PROVE i + 1 \in S
  <2> SUFFICES ASSUME i + 1 <= L
               PROVE  f[L] = f[L - (i + 1)] * Power(ByteBase, i + 1)
                               + Positional(ByteBase, d, i + 1)
    OBVIOUS
  <2> DEFINE p == Power(ByteBase, i)
             h == f[L - (i + 1)]
             x == d[i + 1]
             u == Positional(ByteBase, d, i)
  <2>1. f[L] = f[L - i] * p + u
    BY <1>1, <1>7
  <2>2. h \in Nat /\ f[L - i] = h * ByteBase + x /\ x \in Nat
    <3>1. /\ L - i \in 1..L /\ (L - i) - 1 = L - (i + 1)
          /\ i + 1 \in 1..L /\ L - (i + 1) + 1 = L - i
      BY <1>1
    <3>2. f[(L - i) - 1] \in Nat /\ f[L - i] = f[(L - i) - 1] * ByteBase + s[L - i]
      BY <1>3, <3>1
    <3>3. x \in Nat /\ x = s[L - (i + 1) + 1]
      BY <1>4, <3>1
    <3> QED BY <3>1, <3>2, <3>3
  <2>3. p \in Nat /\ Power(ByteBase, i + 1) = ByteBase * p
    BY <1>1, PowerLaws
  <2>4. Positional(ByteBase, d, i + 1) = u + x * p /\ u \in Nat
    <3>1. /\ \A j \in 1..(i + 1) : d[j] \in Nat
          /\ \A j \in 1..i : d[j] \in Nat
      BY <1>1, <1>4
    <3> QED BY <1>1, <3>1, PositionalNext, PositionalNat
  <2> HIDE DEF p, h, x, u
  <2>5. (h * ByteBase + x) * p = h * (ByteBase * p) + x * p
    BY <1>1, <2>2, <2>3
  <2>6. x * p \in Nat /\ h * (ByteBase * p) \in Nat
    BY <1>1, <2>2, <2>3
  <2>7. f[L] = h * (ByteBase * p) + (u + x * p)
    BY <2>1, <2>2, <2>4, <2>5, <2>6
  <2> QED BY <2>3, <2>4, <2>7 DEF h
<1>8. Nat \subseteq S
  <2> HIDE DEF S
  <2> QED BY <1>6, <1>7, Induction
<1>9. f[L] = f[0] * Power(ByteBase, L) + Positional(ByteBase, d, L)
  <2>1. L \in S /\ L - L = 0
    BY <1>1, <1>8
  <2> QED BY <2>1
<1>10. Power(ByteBase, L) \in Nat /\ Positional(ByteBase, d, L) \in Nat
  BY <1>1, <1>4, PowerLaws, PositionalNat
<1> QED BY <1>2, <1>5, <1>9, <1>10 DEF L

LEMMA FunctionIsSeq ==
  ASSUME NEW S, NEW n \in Nat, NEW r \in [1..n -> S]
  PROVE  r \in Seq(S) /\ Len(r) = n
<1>1. r \in Seq(S)
  BY SeqDef
<1>2. DOMAIN r = 1..n
  OBVIOUS
<1>3. Len(r) = n
  BY <1>1, <1>2, LenProperties
<1> QED BY <1>1, <1>3

LEMMA ReverseFacts ==
  ASSUME NEW S, NEW n \in Nat, NEW r \in [1..n -> S]
  PROVE  /\ Reverse(r) \in [1..n -> S]
         /\ Reverse(r) \in Seq(S) /\ Len(Reverse(r)) = n
         /\ \A i \in 1..n : Reverse(r)[i] = r[n - i + 1]
<1>1. Reverse(r) = [i \in 1..n |-> r[n - i + 1]]
  BY FunctionIsSeq DEF Reverse
<1>2. \A i \in 1..n : n - i + 1 \in 1..n
  OBVIOUS
<1>3. Reverse(r) \in [1..n -> S]
  BY <1>1, <1>2
<1> QED BY <1>1, <1>3, FunctionIsSeq

LEMMA ByteFacts == Byte \subseteq Nat /\ \A x \in Byte : x < ByteBase
  BY EncodingAssumption DEF Byte

\* The bytes of an element, read from the high end, are its value.
LEMMA SetBytesReversed ==
  ASSUME NEW n \in Nat, NEW r \in [1..n -> Byte]
  PROVE  /\ Digits(r, ByteBase, n)
         /\ SetBytes(Reverse(r)) = Positional(ByteBase, r, n)
<1>0. Reverse(r) \in Seq(Byte)
  BY ReverseFacts
<1>1. /\ Reverse(r) \in Seq(Byte) /\ Len(Reverse(r)) = n
      /\ \A i \in 1..n : Reverse(r)[i] = r[n - i + 1]
  <2>1. Len(Reverse(r)) = n
    BY ReverseFacts
  <2>2. Len(r) = n
    BY FunctionIsSeq
  <2>3. \A i \in 1..n : Reverse(r)[i] = r[n - i + 1]
    BY <2>2 DEF Reverse
  <2> QED BY <1>0, <2>1, <2>3
<1>2. Reverse(r) \in Seq(Nat)
  BY <1>1, ByteFacts, SeqMonotonic
<1>3. \A i \in 1..n : r[i] = Reverse(r)[n - i + 1]
  <2>1. \A i \in 1..n : n - i + 1 \in 1..n /\ n - (n - i + 1) + 1 = i
    OBVIOUS
  <2> QED BY <1>1, <2>1
<1>4. SetBytes(Reverse(r)) = Positional(ByteBase, r, n)
  BY <1>1, <1>2, <1>3, SetBytesValue
<1>5. Digits(r, ByteBase, n)
  BY ByteFacts DEF Digits
<1> QED BY <1>4, <1>5

LEMMA SameSum ==
  ASSUME NEW n \in Nat, NEW r \in [1..n -> Byte], NEW q \in [1..n -> Byte],
         Positional(ByteBase, r, n) = Positional(ByteBase, q, n)
  PROVE  r = q
<1>1. Digits(r, ByteBase, n) /\ Digits(q, ByteBase, n) /\ ByteBase \in Nat
  BY SetBytesReversed, EncodingAssumption
<1>2. ASSUME NEW i \in 1..n PROVE r[i] = q[i]
  BY <1>1, DigitsUnique
<1> QED BY <1>2

\* Byte strings of one length that are the same number are the same string.
LEMMA SameBytes ==
  ASSUME NEW n \in Nat, NEW s \in [1..n -> Byte], NEW t \in [1..n -> Byte],
         SetBytes(s) = SetBytes(t)
  PROVE  s = t
<1> DEFINE d == [i \in 1..n |-> s[n - i + 1]]
           e == [i \in 1..n |-> t[n - i + 1]]
<1>1. /\ s \in [1..n -> Nat] /\ t \in [1..n -> Nat]
  BY ByteFacts
<1>2. /\ s \in Seq(Nat) /\ Len(s) = n
      /\ t \in Seq(Nat) /\ Len(t) = n
  BY <1>1, FunctionIsSeq
<1>3. \A i \in 1..n : n - i + 1 \in 1..n /\ n - (n - i + 1) + 1 = i
  OBVIOUS
<1>4. /\ \A i \in 1..n : d[i] = s[n - i + 1]
      /\ \A i \in 1..n : e[i] = t[n - i + 1]
  OBVIOUS
<1>5. Digits(d, ByteBase, n) /\ Digits(e, ByteBase, n)
  BY <1>3, <1>4, ByteFacts DEF Digits
<1> HIDE DEF d, e
<1>6. /\ SetBytes(s) = Positional(ByteBase, d, n)
      /\ SetBytes(t) = Positional(ByteBase, e, n)
  BY <1>2, <1>4, SetBytesValue
<1>7. \A i \in 1..n : d[i] = e[i]
  <2>1. Positional(ByteBase, d, n) = Positional(ByteBase, e, n) /\ ByteBase \in Nat
    BY <1>6, EncodingAssumption
  <2> QED BY <1>5, <2>1, DigitsUnique
<1>8. ASSUME NEW i \in 1..n PROVE s[i] = t[i]
  BY <1>3, <1>4, <1>7
<1> QED BY <1>8

LEMMA HighZeros ==
  ASSUME NEW b \in Nat, NEW j \in Nat, NEW k \in Nat, j <= k, NEW d,
         \A i \in 1..k : d[i] \in Nat, \A i \in (j + 1)..k : d[i] = 0
  PROVE  Positional(b, d, k) = Positional(b, d, j)
<1> DEFINE S == {i \in Nat : j + i <= k =>
                    Positional(b, d, j + i) = Positional(b, d, j)}
<1>1. 0 \in S
  <2>1. j + 0 = j
    OBVIOUS
  <2> QED BY <2>1
<1>2. ASSUME NEW i \in Nat, i \in S PROVE i + 1 \in S
  <2> SUFFICES ASSUME j + (i + 1) <= k
               PROVE  Positional(b, d, j + (i + 1)) = Positional(b, d, j)
    OBVIOUS
  <2>1. /\ j + i \in Nat /\ j + (i + 1) = (j + i) + 1
        /\ \A m \in 1..((j + i) + 1) : d[m] \in Nat
        /\ \A m \in 1..(j + i) : d[m] \in Nat
    OBVIOUS
  <2>2. d[(j + i) + 1] = 0
    BY <2>1
  <2>3. Positional(b, d, (j + i) + 1)
          = Positional(b, d, j + i) + d[(j + i) + 1] * Power(b, j + i)
    BY <2>1, PositionalNext
  <2>4. Power(b, j + i) \in Nat /\ Positional(b, d, j + i) \in Nat
    BY <2>1, PowerLaws, PositionalNat
  <2>5. Positional(b, d, (j + i) + 1) = Positional(b, d, j + i)
    BY <2>2, <2>3, <2>4
  <2>6. Positional(b, d, j + i) = Positional(b, d, j)
    BY <1>2
  <2> QED BY <2>1, <2>5, <2>6
<1>3. Nat \subseteq S
  <2> HIDE DEF S
  <2> QED BY <1>1, <1>2, Induction
<1>4. k - j \in Nat /\ j + (k - j) = k
  OBVIOUS
<1> QED BY <1>3, <1>4

\* Leading zeros are worth nothing.
LEMMA ZeroPaddedFacts ==
  ASSUME NEW n \in Nat, NEW s \in [1..n -> Byte], NEW len \in Nat, n <= len
  PROVE  /\ ZeroPadded(s, len) \in [1..len -> Byte]
         /\ SetBytes(ZeroPadded(s, len)) = SetBytes(s)
<1>1. s \in Seq(Byte) /\ Len(s) = n
  BY FunctionIsSeq
<1>2. CASE ~ (n < len)
  BY <1>1, <1>2 DEF ZeroPadded
<1>3. CASE n < len
  <2> DEFINE m == len - n
             zeros == [i \in 1..m |-> 0]
             z == zeros \o s
             d == [i \in 1..len |-> z[len - i + 1]]
  <2>1. m \in Nat /\ 0 \in Byte /\ m + n = len
    BY <1>3, EncodingAssumption DEF Byte
  <2>2. zeros \in Seq(Byte) /\ Len(zeros) = m
    <3>1. zeros \in [1..m -> Byte]
      BY <2>1
    <3> QED BY <2>1, <3>1, FunctionIsSeq
  <2>3. ZeroPadded(s, len) = z
    BY <1>1, <1>3 DEF ZeroPadded
  <2> HIDE DEF zeros
  <2> HIDE DEF z, m
  <2>4. /\ z \in Seq(Byte) /\ Len(z) = len
        /\ \A i \in 1..len : z[i] = IF i <= m THEN zeros[i] ELSE s[i - m]
    <3>1. /\ zeros \o s \in Seq(Byte) /\ Len(zeros \o s) = Len(zeros) + Len(s)
          /\ \A i \in 1..(Len(zeros) + Len(s)) :
               (zeros \o s)[i]
                 = IF i <= Len(zeros) THEN zeros[i] ELSE s[i - Len(zeros)]
      BY <1>1, <2>2, ConcatProperties
    <3> QED BY <1>1, <2>1, <2>2, <3>1 DEF z
  <2>5. z \in [1..len -> Byte]
    BY <2>4, LenProperties
  <2>6. \A i \in 1..m : zeros[i] = 0
    BY DEF zeros
  <2>7. \A i \in 1..len : len - i + 1 \in 1..len
    OBVIOUS
  <2>8. \A i \in 1..len : d[i] = z[len - i + 1] /\ d[i] \in Nat
    BY <2>5, <2>7, ByteFacts
  <2> HIDE DEF d
  <2>9. ASSUME NEW i \in 1..n PROVE d[i] = s[n - i + 1]
    <3>1. i \in 1..len /\ len - i + 1 \in 1..len /\ ~ (len - i + 1 <= m)
          /\ (len - i + 1) - m = n - i + 1
      BY <1>3, <2>1
    <3> QED BY <2>4, <2>8, <3>1
  <2>10. ASSUME NEW i \in (n + 1)..len PROVE d[i] = 0
    <3>1. i \in 1..len /\ len - i + 1 \in 1..len /\ len - i + 1 \in 1..m
      BY <1>3, <2>1
    <3> QED BY <2>1, <2>4, <2>6, <2>8, <3>1
  <2>11. s \in Seq(Nat) /\ z \in Seq(Nat)
    BY <1>1, <2>4, ByteFacts, SeqMonotonic
  <2>12. SetBytes(z) = Positional(ByteBase, d, len)
    BY <2>4, <2>8, <2>11, SetBytesValue
  <2>13. SetBytes(s) = Positional(ByteBase, d, n)
    BY <1>1, <2>9, <2>11, SetBytesValue
  <2>14. Positional(ByteBase, d, len) = Positional(ByteBase, d, n)
    BY <1>3, <2>8, <2>10, HighZeros, EncodingAssumption
  <2> QED BY <2>3, <2>5, <2>12, <2>13, <2>14
<1> QED BY <1>2, <1>3

LEMMA PowerExceeds ==
  ASSUME NEW b \in Nat, b > 1, NEW n \in Nat
  PROVE  n < Power(b, n)
<1> DEFINE S == {i \in Nat : i < Power(b, i)}
<1>1. 0 \in S
  BY PowerLaws
<1>2. ASSUME NEW i \in Nat, i \in S PROVE i + 1 \in S
  <2>1. Power(b, i) \in Nat /\ Power(b, i + 1) = b * Power(b, i) /\ i < Power(b, i)
    BY <1>2, PowerLaws
  <2>2. 2 * Power(b, i) <= b * Power(b, i)
    BY <2>1, ProductMonotone
  <2>3. b * Power(b, i) \in Nat
    BY <2>1
  <2> QED BY <2>1, <2>2, <2>3
<1>3. Nat \subseteq S
  <2> HIDE DEF S
  <2> QED BY <1>1, <1>2, Induction
<1> QED BY <1>3

LEMMA ByteLenFacts ==
  ASSUME NEW n \in Nat
  PROVE  /\ ByteLen(n) \in Nat /\ n < Power(ByteBase, ByteLen(n))
         /\ \A j \in 0..(ByteLen(n) - 1) : Power(ByteBase, j) <= n
<1> DEFINE Fits == {k \in 0..n : n < Power(ByteBase, k)}
<1>1. n \in Fits
  BY PowerExceeds, EncodingAssumption
<1>2. Fits \in SUBSET Nat
  OBVIOUS
<1>3. PICK k \in Fits : \A j \in Fits : k <= j
  <2> HIDE DEF Fits
  <2> QED BY <1>1, <1>2, LeastElement
<1>4. ASSUME NEW j \in 0..(k - 1) PROVE Power(ByteBase, j) <= n
  <2>1. j \in 0..n /\ ~ (k <= j) /\ j \in Nat
    BY <1>3
  <2>2. j \notin Fits
    BY <1>3, <2>1
  <2>3. Power(ByteBase, j) \in Nat
    BY <2>1, PowerLaws, EncodingAssumption
  <2> QED BY <2>1, <2>2, <2>3
<1>5. \E i \in 0..n : /\ n < Power(ByteBase, i)
                     /\ \A j \in 0..(i - 1) : Power(ByteBase, j) <= n
  BY <1>3, <1>4
<1>6. /\ ByteLen(n) \in 0..n /\ n < Power(ByteBase, ByteLen(n))
      /\ \A j \in 0..(ByteLen(n) - 1) : Power(ByteBase, j) <= n
  BY <1>5 DEF ByteLen
<1> QED BY <1>6

\* The bytes of a number fit into k places iff the number is below ByteBase^k.
LEMMA FitsBytes ==
  ASSUME NEW n \in Nat, NEW k \in Nat
  PROVE  ByteLen(n) <= k <=> n < Power(ByteBase, k)
<1>1. /\ ByteLen(n) \in Nat /\ n < Power(ByteBase, ByteLen(n))
      /\ \A j \in 0..(ByteLen(n) - 1) : Power(ByteBase, j) <= n
  BY ByteLenFacts
<1>2. Power(ByteBase, k) \in Nat /\ Power(ByteBase, ByteLen(n)) \in Nat
  BY <1>1, PowerLaws, EncodingAssumption
<1>3. CASE ByteLen(n) <= k
  <2>1. Power(ByteBase, ByteLen(n)) <= Power(ByteBase, k)
    BY <1>1, <1>3, PowerMonotone, EncodingAssumption
  <2> QED BY <1>1, <1>2, <1>3, <2>1
<1>4. CASE ~ (ByteLen(n) <= k)
  <2>1. k \in 0..(ByteLen(n) - 1)
    BY <1>1, <1>4
  <2> QED BY <1>1, <1>2, <1>4, <2>1
<1> QED BY <1>3, <1>4

LEMMA BytesFacts ==
  ASSUME NEW n \in Nat
  PROVE  Bytes(n) \in [1..ByteLen(n) -> Byte] /\ SetBytes(Bytes(n)) = n
<1> DEFINE k == ByteLen(n)
           d == [i \in 1..k |-> Digit(n, ByteBase, i)]
<1>1. k \in Nat /\ n < Power(ByteBase, k)
  BY ByteLenFacts
<1>2. Bytes(n) = [i \in 1..k |-> Digit(n, ByteBase, k - i + 1)]
  BY DEF Bytes
<1> HIDE DEF k
<1>3. \A i \in 1..k : d[i] = Digit(n, ByteBase, i)
  OBVIOUS
<1> HIDE DEF d
<1>4. Digits(d, ByteBase, k) /\ Positional(ByteBase, d, k) = n
  BY <1>1, <1>3, DigitSumExact, EncodingAssumption
<1>5. \A i \in 1..k : k - i + 1 \in 1..k /\ k - (k - i + 1) + 1 = i
  BY <1>1
<1>6. \A i \in 1..k : Bytes(n)[i] = d[k - i + 1]
  BY <1>2, <1>3, <1>5
<1>7. Bytes(n) \in [1..k -> Byte]
  <2>1. \A i \in 1..k : d[i] \in Byte
    BY <1>4, EncodingAssumption DEF Digits, Byte
  <2>2. \A i \in 1..k : Bytes(n)[i] \in Byte
    BY <1>5, <1>6, <2>1
  <2> QED BY <1>2, <2>2
<1>8. Bytes(n) \in Seq(Nat) /\ Len(Bytes(n)) = k
  BY <1>1, <1>7, FunctionIsSeq, ByteFacts, SeqMonotonic
<1>9. \A i \in 1..k : d[i] = Bytes(n)[k - i + 1]
  BY <1>5, <1>6
<1>10. SetBytes(Bytes(n)) = Positional(ByteBase, d, k)
  BY <1>8, <1>9, SetBytesValue
<1> QED BY <1>4, <1>7, <1>10 DEF k

LEMMA FillBytesFacts ==
  ASSUME NEW n \in Nat, NEW len \in Nat, n < Power(ByteBase, len)
  PROVE  FillBytes(n, len) \in [1..len -> Byte] /\ SetBytes(FillBytes(n, len)) = n
<1>1. ByteLen(n) \in Nat /\ ByteLen(n) <= len
  BY ByteLenFacts, FitsBytes
<1>2. Bytes(n) \in [1..ByteLen(n) -> Byte] /\ SetBytes(Bytes(n)) = n
  BY BytesFacts
<1>3. /\ ZeroPadded(Bytes(n), len) \in [1..len -> Byte]
      /\ SetBytes(ZeroPadded(Bytes(n), len)) = SetBytes(Bytes(n))
  BY <1>1, <1>2, ZeroPaddedFacts
<1> QED BY <1>2, <1>3 DEF FillBytes
-----------------------------------------------------------------------------
(***************************************************************************)
(* The texts of field elements.                                            *)
(***************************************************************************)
LEMMA ElementFacts ==
  ASSUME NEW r \in Element
  PROVE  /\ r \in [1..ReprLen -> Byte] /\ ReprLen \in Nat
         /\ Digits(r, ByteBase, ReprLen)
         /\ Value(r) \in Nat /\ Value(r) < Power(ByteBase, ReprLen)
<1>1. r \in [1..ReprLen -> Byte] /\ ReprLen \in Nat /\ ByteBase \in Nat
  BY EncodingAssumption DEF Element
<1>2. Digits(r, ByteBase, ReprLen)
  BY <1>1, SetBytesReversed
<1>3. Positional(ByteBase, r, ReprLen) \in Nat
      /\ Positional(ByteBase, r, ReprLen) < Power(ByteBase, ReprLen)
  BY <1>1, <1>2, PositionalBound
<1> QED BY <1>1, <1>2, <1>3 DEF Value

LEMMA ElementText ==
  ASSUME NEW r \in Element
  PROVE  /\ IsHex(field_to_hex(r))
         /\ field_to_hex(r).hex = Reverse(r)
         /\ Reverse(r) \in [1..ReprLen -> Byte] /\ Len(Reverse(r)) = ReprLen
         /\ SetBytes(Reverse(r)) = Value(r)
<1>1. field_to_hex(r).hex = Reverse(r) /\ IsHex(field_to_hex(r))
  BY DEF field_to_hex, IsHex
<1>2. r \in [1..ReprLen -> Byte] /\ ReprLen \in Nat
  BY ElementFacts
<1>3. SetBytes(Reverse(r)) = Value(r)
  BY <1>2, SetBytesReversed DEF Value
<1>4. Reverse(r) \in [1..ReprLen -> Byte] /\ Len(Reverse(r)) = ReprLen
  BY <1>2, ReverseFacts
<1> QED BY <1>1, <1>3, <1>4

\* UnpackAppID, NormalizeDecimal and ParseRoot read from a text of field_to_hex
\* the value of the element; a comparison of two texts compares the values.
THEOREM TextsByValue ==
  ASSUME NEW r \in Element
  PROVE  /\ Parsed(field_to_hex(r)) = Value(r)
         /\ NormalizeDecimal(field_to_hex(r)).dec = Value(r)
         /\ ParseRoot(field_to_hex(r)) = Reverse(r)
         /\ normHex(field_to_hex(r)) = Reverse(r)
         /\ \A q \in Element : field_to_hex(q) = field_to_hex(r) <=> Value(q) = Value(r)
<1>1. /\ IsHex(field_to_hex(r)) /\ field_to_hex(r).hex = Reverse(r)
      /\ Reverse(r) \in [1..ReprLen -> Byte] /\ Len(Reverse(r)) = ReprLen
      /\ SetBytes(Reverse(r)) = Value(r)
  BY ElementText
<1>2. ReprLen \in Nat \ {0}
  BY EncodingAssumption
<1>3. Parsed(field_to_hex(r)) = Value(r)
  BY <1>1 DEF Parsed
<1>4. NormalizeDecimal(field_to_hex(r)).dec = Value(r)
  BY <1>1 DEF NormalizeDecimal
<1>5. ZeroPadded(Reverse(r), ReprLen) = Reverse(r)
  BY <1>1, <1>2 DEF ZeroPadded
<1>6. ParseRoot(field_to_hex(r)) = Reverse(r)
  BY <1>1, <1>2, <1>5 DEF ParseRoot
<1>7. normHex(field_to_hex(r)) = Reverse(r)
  BY <1>1, <1>5 DEF normHex
<1>8. ASSUME NEW q \in Element
      PROVE  field_to_hex(q) = field_to_hex(r) <=> Value(q) = Value(r)
  <2>1. /\ field_to_hex(q).hex = Reverse(q)
        /\ Reverse(q) \in [1..ReprLen -> Byte] /\ SetBytes(Reverse(q)) = Value(q)
    BY ElementText
  <2>2. Value(q) = Value(r) => Reverse(q) = Reverse(r)
    BY <1>1, <1>2, <2>1, SameBytes
  <2>3. field_to_hex(q) = field_to_hex(r) <=> Reverse(q) = Reverse(r)
    BY <1>1, <2>1 DEF field_to_hex
  <2> QED BY <1>1, <2>1, <2>2, <2>3
<1> QED BY <1>3, <1>4, <1>6, <1>7, <1>8

\* linkverify compares the parsed smtroot.Root of a proof with the trusted roots:
\* two roots are the same bytes iff they are the same number.
THEOREM RootsByValue ==
  ASSUME NEW r \in Element, NEW root \in Element
  PROVE  ParseRoot(field_to_hex(r)) = Reverse(root) <=> Value(root) = Value(r)
<1>1. ParseRoot(field_to_hex(r)) = Reverse(r)
  BY TextsByValue
<1>2. /\ Reverse(r) \in [1..ReprLen -> Byte] /\ SetBytes(Reverse(r)) = Value(r)
      /\ Reverse(root) \in [1..ReprLen -> Byte] /\ SetBytes(Reverse(root)) = Value(root)
      /\ ReprLen \in Nat
  BY ElementText, ElementFacts
<1>3. Value(root) = Value(r) => Reverse(r) = Reverse(root)
  BY <1>2, SameBytes
<1> QED BY <1>1, <1>2, <1>3
-----------------------------------------------------------------------------
(***************************************************************************)
(* The app_id.                                                             *)
(***************************************************************************)
AppID == [1..AppIDLen -> Byte]

LEMMA AppIDFacts ==
  ASSUME NEW bytes \in AppID
  PROVE  /\ bytes \in [1..AppIDLen -> Byte] /\ AppIDLen \in Nat \ {0}
         /\ Len(bytes) = AppIDLen /\ bytes # <<>>
         /\ Digits(bytes, ByteBase, AppIDLen)
         /\ PackAppIDLE(bytes) = [dec |-> Positional(ByteBase, bytes, AppIDLen)]
         /\ Positional(ByteBase, bytes, AppIDLen) \in Nat
         /\ Positional(ByteBase, bytes, AppIDLen) < Power(ByteBase, AppIDLen)
<1>1. bytes \in [1..AppIDLen -> Byte] /\ AppIDLen \in Nat \ {0} /\ ByteBase \in Nat
  BY EncodingAssumption DEF AppID
<1>2. Len(bytes) = AppIDLen /\ bytes \in Seq(Byte)
  BY <1>1, FunctionIsSeq
<1>3. bytes # <<>>
  BY <1>1, <1>2, EmptySeq
<1>4. /\ Digits(bytes, ByteBase, AppIDLen)
      /\ SetBytes(Reverse(bytes)) = Positional(ByteBase, bytes, AppIDLen)
  BY <1>1, SetBytesReversed
<1>5. /\ Positional(ByteBase, bytes, AppIDLen) \in Nat
      /\ Positional(ByteBase, bytes, AppIDLen) < Power(ByteBase, AppIDLen)
  BY <1>1, <1>4, PositionalBound
<1> QED BY <1>1, <1>2, <1>3, <1>4, <1>5 DEF PackAppIDLE

LEMMA UnpackFacts ==
  ASSUME NEW text, NEW n \in Nat, Parsed(text) = n
  PROVE  /\ n < Power(ByteBase, AppIDLen) =>
              /\ UnpackAppID(text) \in AppID
              /\ Positional(ByteBase, UnpackAppID(text), AppIDLen) = n
         /\ ~ (n < Power(ByteBase, AppIDLen)) => UnpackAppID(text) = <<>>
<1> DEFINE raw == Bytes(n)
           len == ByteLen(n)
           id == [i \in 1..AppIDLen |-> IF i <= len THEN raw[len - i + 1] ELSE 0]
<1>1. len \in Nat /\ raw \in [1..len -> Byte] /\ SetBytes(raw) = n
  BY ByteLenFacts, BytesFacts
<1>2. raw \in Seq(Byte) /\ Len(raw) = len
  BY <1>1, FunctionIsSeq
<1>3. AppIDLen \in Nat /\ ByteBase \in Nat /\ 0 \in Byte
  BY EncodingAssumption DEF Byte
<1>4. len <= AppIDLen <=> n < Power(ByteBase, AppIDLen)
  BY <1>3, FitsBytes
<1>5. UnpackAppID(text) = IF len > AppIDLen THEN <<>> ELSE id
  BY <1>2 DEF UnpackAppID
<1> HIDE DEF raw, len
<1>6. CASE len <= AppIDLen
  <2>1. UnpackAppID(text) = id
    BY <1>1, <1>3, <1>5, <1>6
  <2>2. id \in [1..AppIDLen -> Byte]
    <3>1. ASSUME NEW i \in 1..AppIDLen, i <= len PROVE raw[len - i + 1] \in Byte
      <4>1. len - i + 1 \in 1..len
        BY <1>1, <3>1
      <4> QED BY <1>1, <4>1
    <3> QED BY <1>3, <3>1
  <2>3. \A i \in 1..len : id[i] = raw[len - i + 1]
    BY <1>1, <1>3, <1>6
  <2>4. \A i \in (len + 1)..AppIDLen : id[i] = 0
    BY <1>1, <1>3, <1>6
  <2> HIDE DEF id
  <2>5. \A i \in 1..AppIDLen : id[i] \in Nat
    BY <2>2, ByteFacts
  <2>6. Positional(ByteBase, id, AppIDLen) = Positional(ByteBase, id, len)
    BY <1>1, <1>3, <1>6, <2>4, <2>5, HighZeros
  <2>7. raw \in Seq(Nat)
    BY <1>2, ByteFacts, SeqMonotonic
  <2>8. SetBytes(raw) = Positional(ByteBase, id, len)
    BY <1>2, <2>3, <2>7, SetBytesValue
  <2> QED BY <1>1, <1>4, <1>6, <2>1, <2>2, <2>6, <2>8 DEF AppID
<1>7. CASE ~ (len <= AppIDLen)
  <2>1. len > AppIDLen
    BY <1>1, <1>3, <1>7
  <2> QED BY <1>4, <1>5, <1>7, <2>1
<1> QED BY <1>6, <1>7

\* UnpackAppID returns bytes that PackAppIDLE packs to the same number, and fails
\* exactly for a number of more than AppIDLen bytes; a comparison of app_ids
\* compares numbers.
THEOREM AppIDsByValue ==
  ASSUME NEW r \in Element
  PROVE  LET id == UnpackAppID(field_to_hex(r))
         IN  /\ id = <<>> <=> ~ (Value(r) < Power(ByteBase, AppIDLen))
             /\ id # <<>> =>
                  /\ id \in AppID /\ Len(id) = AppIDLen
                  /\ PackAppIDLE(id).dec = Value(r)
                  /\ \A expected \in AppID :
                       id = expected <=> PackAppIDLE(expected).dec = Value(r)
<1> DEFINE id == UnpackAppID(field_to_hex(r))
           n == Value(r)
<1>1. n \in Nat /\ Parsed(field_to_hex(r)) = n
  BY ElementFacts, TextsByValue
<1>2. /\ n < Power(ByteBase, AppIDLen) =>
           id \in AppID /\ Positional(ByteBase, id, AppIDLen) = n
      /\ ~ (n < Power(ByteBase, AppIDLen)) => id = <<>>
  BY <1>1, UnpackFacts
<1> HIDE DEF id, n
<1>3. CASE ~ (n < Power(ByteBase, AppIDLen))
  BY <1>2, <1>3 DEF id, n
<1>4. CASE n < Power(ByteBase, AppIDLen)
  <2>1. id \in AppID /\ Positional(ByteBase, id, AppIDLen) = n
    BY <1>2, <1>4
  <2>2. Len(id) = AppIDLen /\ id # <<>> /\ PackAppIDLE(id).dec = n
    BY <2>1, AppIDFacts
  <2>3. ASSUME NEW expected \in AppID, PackAppIDLE(expected).dec = n
        PROVE  id = expected
    <3>1. Positional(ByteBase, id, AppIDLen) = Positional(ByteBase, expected, AppIDLen)
      BY <2>1, <2>3, AppIDFacts
    <3>2. /\ id \in [1..AppIDLen -> Byte] /\ expected \in [1..AppIDLen -> Byte]
          /\ AppIDLen \in Nat
      BY <2>1, EncodingAssumption DEF AppID
    <3> QED BY <3>1, <3>2, SameSum
  <2> QED BY <1>4, <2>1, <2>2, <2>3 DEF id, n
<1> QED BY <1>3, <1>4

\* UnpackAppID undoes PackAppIDLE: the bytes the configuration gives as the
\* expected app_id are those that a proof made for it unpacks to.
THEOREM AppIDRoundTrip ==
  ASSUME NEW bytes \in AppID
  PROVE  UnpackAppID(PackAppIDLE(bytes)) = bytes
<1> DEFINE n == Positional(ByteBase, bytes, AppIDLen)
           id == UnpackAppID(PackAppIDLE(bytes))
<1>1. /\ PackAppIDLE(bytes) = [dec |-> n] /\ n \in Nat
      /\ n < Power(ByteBase, AppIDLen) /\ Digits(bytes, ByteBase, AppIDLen)
  BY AppIDFacts
<1>2. Parsed(PackAppIDLE(bytes)) = n
  BY <1>1 DEF Parsed, IsHex
<1>3. id \in AppID /\ Positional(ByteBase, id, AppIDLen) = n
  BY <1>1, <1>2, UnpackFacts
<1> HIDE DEF id
<1>4. /\ id \in [1..AppIDLen -> Byte] /\ bytes \in [1..AppIDLen -> Byte]
      /\ AppIDLen \in Nat
  BY <1>3, EncodingAssumption DEF AppID
<1>5. id = bytes
  BY <1>3, <1>4, SameSum
<1> QED BY <1>5 DEF id
-----------------------------------------------------------------------------
(***************************************************************************)
(* The limbs of a modulus.                                                 *)
(***************************************************************************)
LEMMA LimbBasePositive ==
  /\ LimbBase \in Nat \ {0} /\ ReprLen \in Nat
  /\ LimbBase <= Power(ByteBase, ReprLen) /\ Power(ByteBase, ReprLen) \in Nat
<1>1. ReprLen \in Nat /\ ByteBase \in Nat /\ LimbBase \in 2..Power(ByteBase, ReprLen)
  BY EncodingAssumption
<1>2. Power(ByteBase, ReprLen) \in Nat
  BY <1>1, PowerLaws
<1> QED BY <1>1, <1>2

LEMMA LimbFacts ==
  ASSUME NEW n \in Nat, NEW k \in Nat, NEW i \in 1..k
  PROVE  /\ Digit(n, LimbBase, i) \in Nat /\ Digit(n, LimbBase, i) < LimbBase
         /\ normHex(ModulusToLimbs(n, k)[i]) \in [1..ReprLen -> Byte]
         /\ SetBytes(normHex(ModulusToLimbs(n, k)[i])) = Digit(n, LimbBase, i)
<1> DEFINE x == Digit(n, LimbBase, i)
           buf == FillBytes(x, ReprLen)
<1>1. /\ LimbBase \in Nat \ {0} /\ ReprLen \in Nat
      /\ LimbBase <= Power(ByteBase, ReprLen) /\ Power(ByteBase, ReprLen) \in Nat
  BY LimbBasePositive
<1>2. x \in Nat /\ x < LimbBase
  <2>1. i - 1 \in Nat
    OBVIOUS
  <2>2. Power(LimbBase, i - 1) \in Nat \ {0}
    BY <1>1, <2>1, PowerPositive
  <2>3. n \div Power(LimbBase, i - 1) \in Nat
    BY <2>2, Division
  <2> QED BY <1>1, <2>3, Division DEF Digit
<1> HIDE DEF x
<1>3. buf \in [1..ReprLen -> Byte] /\ SetBytes(buf) = x
  BY <1>1, <1>2, FillBytesFacts
<1>4. ModulusToLimbs(n, k)[i].hex = buf
  BY DEF ModulusToLimbs, x
<1> HIDE DEF buf
<1>5. Len(buf) = ReprLen
  BY <1>1, <1>3, FunctionIsSeq
<1>6. normHex(ModulusToLimbs(n, k)[i]) = buf
  BY <1>1, <1>4, <1>5 DEF normHex, ZeroPadded
<1> QED BY <1>2, <1>3, <1>6 DEF x

LEMMA LimbsLength ==
  ASSUME NEW n \in Nat, NEW k \in Nat
  PROVE  Len(ModulusToLimbs(n, k)) = k
<1> DEFINE S == {ModulusToLimbs(n, k)[i] : i \in 1..k}
<1>1. ModulusToLimbs(n, k) \in [1..k -> S]
  BY DEF ModulusToLimbs
<1> HIDE DEF S
<1> QED BY <1>1, FunctionIsSeq

\* LimbsEqual accepts the limbs of a proof against ModulusToLimbs of a pinned
\* modulus iff they are that modulus in base LimbBase, none of them out of range:
\* no second list of limbs stands for the same modulus.
THEOREM LimbsByValue ==
  ASSUME NEW k \in Nat, NEW n \in Nat, n < Power(LimbBase, k),
         NEW m \in [1..k -> Element], NEW v, \A i \in 1..k : v[i] = Value(m[i]),
         NEW texts, Len(texts) = k, \A i \in 1..k : texts[i] = field_to_hex(m[i])
  PROVE  LimbsEqual(ModulusToLimbs(n, k), texts) <=>
           /\ n = Positional(LimbBase, v, k)
           /\ \A i \in 1..k : v[i] < LimbBase
<1> DEFINE d == [i \in 1..k |-> Digit(n, LimbBase, i)]
           limbs == ModulusToLimbs(n, k)
<1>1. LimbBase \in Nat \ {0} /\ ReprLen \in Nat
  BY LimbBasePositive
<1>2. \A i \in 1..k : d[i] = Digit(n, LimbBase, i)
  OBVIOUS
<1> HIDE DEF d
<1>3. Digits(d, LimbBase, k) /\ Positional(LimbBase, d, k) = n
  BY <1>1, <1>2, DigitSumExact
<1>4. ASSUME NEW i \in 1..k
      PROVE  normHex(limbs[i]) = normHex(texts[i]) <=> d[i] = v[i]
  <2>1. m[i] \in Element
    OBVIOUS
  <2>2. /\ normHex(texts[i]) \in [1..ReprLen -> Byte]
        /\ SetBytes(normHex(texts[i])) = v[i]
    BY <2>1, ElementText, TextsByValue
  <2>3. /\ normHex(limbs[i]) \in [1..ReprLen -> Byte]
        /\ SetBytes(normHex(limbs[i])) = d[i]
    BY <1>2, LimbFacts
  <2> HIDE DEF limbs
  <2>4. d[i] = v[i] => normHex(limbs[i]) = normHex(texts[i])
    BY <1>1, <2>2, <2>3, SameBytes
  <2> QED BY <2>2, <2>3, <2>4
<1>5. Len(limbs) = k
  BY LimbsLength
<1> HIDE DEF limbs
<1>6. LimbsEqual(limbs, texts) <=> \A i \in 1..k : d[i] = v[i]
  BY <1>4, <1>5 DEF LimbsEqual
<1>7. ASSUME \A i \in 1..k : d[i] = v[i]
      PROVE  n = Positional(LimbBase, v, k) /\ \A i \in 1..k : v[i] < LimbBase
  <2>1. \A i \in 1..k : v[i] = Digit(n, LimbBase, i)
    BY <1>2, <1>7
  <2>2. Digits(v, LimbBase, k) /\ Positional(LimbBase, v, k) = n
    BY <1>1, <2>1, DigitSumExact
  <2> QED BY <2>2 DEF Digits
<1>8. ASSUME n = Positional(LimbBase, v, k), \A i \in 1..k : v[i] < LimbBase
      PROVE  \A i \in 1..k : d[i] = v[i]
  <2>1. Digits(v, LimbBase, k)
    <3>1. \A i \in 1..k : v[i] \in Nat
      BY ElementFacts
    <3> QED BY <1>8, <3>1 DEF Digits
  <2>2. Positional(LimbBase, d, k) = Positional(LimbBase, v, k) /\ LimbBase \in Nat
    BY <1>1, <1>3, <1>8
  <2> QED BY <1>3, <2>1, <2>2, DigitsUnique
<1> QED BY <1>6, <1>7, <1>8 DEF limbs
=============================================================================
