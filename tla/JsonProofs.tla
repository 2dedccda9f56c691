----------------------------- MODULE JsonProofs -----------------------------
(***************************************************************************)
(* Theorems of what jsoncpp makes of numbers, strings, arrays and whole    *)
(* documents, for all values of their constants: JsonNumber, JsonString,   *)
(* JsonArray, then JsonDocument with the reader of JsonReader.             *)
(***************************************************************************)
EXTENDS Parts, Integers, Sequences, FiniteSets, TLAPS, WellFoundedInduction,
        SequenceTheorems, FiniteSetTheorems

(* The order of the numbers as a relation, which is well-founded.          *)
LEMMA LessThan == \E R : /\ IsWellFoundedOn(R, Nat)
                         /\ \A a, b \in Nat : a < b => <<a, b>> \in R
<1> DEFINE Less == {p \in Nat \X Nat : p[1] < p[2]}
<1>1. OpToRel(<, Nat) = Less
  BY Zenon DEF OpToRel
<1>2. IsWellFoundedOn(Less, Nat)
  BY <1>1, NatLessThanWellFounded, Zenon
<1>3. \A a, b \in Nat : a < b => <<a, b>> \in Less
  OBVIOUS
<1>4. QED
  BY <1>2, <1>3

(* A set of numbers has a least one.                                       *)
LEMMA Least ==
    ASSUME NEW T \in SUBSET Nat, T # {}
    PROVE  \E x \in T : \A y \in T : x <= y
<1>1. PICK R : /\ IsWellFoundedOn(R, Nat)
               /\ \A a, b \in Nat : a < b => <<a, b>> \in R
  BY LessThan
<1>2. \E x \in T : \A y \in T : ~ (<<y, x>> \in R)
  <2>1. IsWellFoundedOn(R, Nat)
    BY <1>1
  <2>2. QED
    BY <2>1, WFMin, Zenon
<1>3. PICK x \in T : \A y \in T : ~ (<<y, x>> \in R)
  BY <1>2
<1>4. ASSUME NEW y \in T PROVE x <= y
  <2>1. ~ (y < x)
    BY <1>1, <1>3
  <2>2. QED
    BY <2>1
<1>5. QED
  BY <1>4

(* Induction on numbers, for a set in the place of a predicate.            *)
LEMMA Induction ==
    ASSUME NEW T, 0 \in T, \A n \in Nat : n \in T => n + 1 \in T
    PROVE  Nat \subseteq T
<1> DEFINE Others == {n \in Nat : n \notin T}
<1> SUFFICES ASSUME Others # {} PROVE FALSE
  OBVIOUS
<1>1. PICK n \in Others : \A m \in Others : n <= m
  BY Least
<1>2. n \in Nat /\ n # 0 /\ n - 1 \in Nat /\ ~ (n <= n - 1)
  BY <1>1
<1>3. n - 1 \in T
  BY <1>1, <1>2
<1>4. QED
  BY <1>2, <1>3

(* A function can be given by its first value and a step from each value   *)
(* to the next one, which may depend on the argument.                      *)
Runs(W, first, n, step) ==
    \E f \in [0 .. n -> W] :
        /\ f[0] = first
        /\ \A k \in 1 .. n : f[k] = step[<<k, f[k - 1]>>]

(* There is such a function if the step stays within the values.           *)
LEMMA Recursion ==
    ASSUME NEW W, NEW first \in W, NEW n \in Nat, NEW step \in [(1 .. n) \X W -> W]
    PROVE  Runs(W, first, n, step)
<1> DEFINE Upto(m) == \E f \in [0 .. m -> W] :
                          /\ f[0] = first
                          /\ \A k \in 1 .. m : f[k] = step[<<k, f[k - 1]>>]
           T == {m \in Nat : m <= n => Upto(m)}
<1>1. 0 \in T
  <2> DEFINE f == [k \in 0 .. 0 |-> first]
  <2>1. f \in [0 .. 0 -> W] /\ f[0] = first /\ \A k \in 1 .. 0 : FALSE
    OBVIOUS
  <2> HIDE DEF f
  <2>2. Upto(0)
    BY <2>1
  <2>3. QED
    BY <2>2
<1>2. ASSUME NEW m \in Nat, m \in T PROVE m + 1 \in T
  <2> SUFFICES ASSUME m + 1 <= n PROVE Upto(m + 1)
    OBVIOUS
  <2>1. PICK f \in [0 .. m -> W] :
            /\ f[0] = first
            /\ \A k \in 1 .. m : f[k] = step[<<k, f[k - 1]>>]
    BY <1>2
  <2> DEFINE g == [k \in 0 .. m + 1 |-> IF k = m + 1 THEN step[<<m + 1, f[m]>>] ELSE f[k]]
  <2>2. step[<<m + 1, f[m]>>] \in W
    BY <2>1
  <2>3. g \in [0 .. m + 1 -> W]
    BY <2>1, <2>2
  <2>4. g[0] = first
    BY <2>1
  <2>5. ASSUME NEW k \in 1 .. m + 1 PROVE g[k] = step[<<k, g[k - 1]>>]
    <3>1. CASE k = m + 1
      <4>1. k - 1 = m /\ g[m] = f[m] /\ g[m + 1] = step[<<m + 1, f[m]>>]
        BY <3>1
      <4>2. QED
        BY <3>1, <4>1
    <3>2. CASE k # m + 1
      <4>1. k \in 1 .. m /\ g[k] = f[k] /\ g[k - 1] = f[k - 1]
        BY <3>2
      <4>2. QED
        BY <2>1, <4>1
    <3>3. QED
      BY <3>1, <3>2
  <2>6. QED
    BY <2>3, <2>4, <2>5
<1>3. n \in T
  <2> HIDE DEF T
  <2>1. QED
    BY <1>1, <1>2, Induction
<1>4. QED
  BY <1>3 DEF Runs

-----------------------------------------------------------------------------
(* JsonNumber.                                                             *)

(* Two functions that start alike and go on alike are alike.               *)
GoesOnLike(f, g, n) ==
    /\ f[0] = g[0]
    /\ \A k \in 1 .. n : f[k - 1] = g[k - 1] => f[k] = g[k]

LEMMA Alike ==
    ASSUME NEW n \in Nat, NEW f, NEW g, GoesOnLike(f, g, n)
    PROVE  \A k \in 0 .. n : f[k] = g[k]
<1> DEFINE T == {k \in Nat : k <= n => f[k] = g[k]}
<1>1. 0 \in T
  BY DEF GoesOnLike
<1>2. ASSUME NEW k \in Nat, k \in T PROVE k + 1 \in T
  <2> SUFFICES ASSUME k + 1 <= n PROVE f[k + 1] = g[k + 1]
    OBVIOUS
  <2>1. k + 1 \in 1 .. n /\ (k + 1) - 1 = k /\ f[k] = g[k]
    BY <1>2
  <2>2. QED
    BY <2>1 DEF GoesOnLike
<1>3. Nat \subseteq T
  <2> HIDE DEF T
  <2>1. QED
    BY <1>1, <1>2, Induction
<1>4. QED
  BY <1>3

(* The recursion of TwoTo.                                                 *)
LEMMA PowerIs ==
    ASSUME NEW n \in Nat
    PROVE  \E p \in [0 .. n -> Nat] :
              /\ Number!TwoTo(n) = p[n]
              /\ p[0] = 1
              /\ \A k \in 1 .. n : p[k] = 2 * p[k - 1]
<1> DEFINE F(f) == [i \in 0 .. n |-> IF i = 0 THEN 1 ELSE 2 * f[i - 1]]
           power == CHOOSE f : f = F(f)
           step  == [a \in (1 .. n) \X Nat |-> 2 * a[2]]
<1>1. Number!TwoTo(n) = power[n]
  BY DEF Number!TwoTo
<1>2. PICK g \in [0 .. n -> Nat] : g[0] = 1 /\ \A k \in 1 .. n : g[k] = step[<<k, g[k - 1]>>]
  <2>1. step \in [(1 .. n) \X Nat -> Nat] /\ 1 \in Nat
    OBVIOUS
  <2> HIDE DEF step
  <2>2. Runs(Nat, 1, n, step)
    BY <2>1, Recursion
  <2>3. QED
    BY <2>2 DEF Runs
<1>3. \A k \in 1 .. n : g[k] = 2 * g[k - 1]
  <2> TAKE k \in 1 .. n
  <2>1. k - 1 \in 0 .. n /\ g[k - 1] \in Nat
    BY <1>2
  <2>2. step[<<k, g[k - 1]>>] = 2 * g[k - 1]
    BY <2>1
  <2>3. QED
    BY <1>2, <2>2
<1>4. g = F(g)
  <2>1. \A i \in 0 .. n : g[i] = IF i = 0 THEN 1 ELSE 2 * g[i - 1]
    BY <1>2, <1>3
  <2>2. g = [i \in 0 .. n |-> IF i = 0 THEN 1 ELSE 2 * g[i - 1]]
    BY <2>1, Zenon
  <2>3. QED
    BY <2>2
<1>5. power = F(power)
  <2> HIDE DEF F
  <2>1. QED
    BY <1>4
<1> HIDE DEF power
<1>6. power[0] = 1 /\ \A k \in 1 .. n : power[k] = 2 * power[k - 1]
  BY <1>5
<1>7. \A k \in 0 .. n : power[k] = g[k]
  <2>1. GoesOnLike(power, g, n)
    BY <1>2, <1>3, <1>6 DEF GoesOnLike
  <2>2. QED
    BY <2>1, Alike
<1>8. power \in [0 .. n -> Nat]
  BY <1>5, <1>7
<1>9. QED
  BY <1>1, <1>6, <1>8

(* A power of two, its positive value and its step.                        *)
LEMMA TwoToIs ==
    /\ Number!TwoTo(0) = 1
    /\ \A n \in Nat : /\ Number!TwoTo(n) \in Nat
                      /\ Number!TwoTo(n + 1) = 2 * Number!TwoTo(n)
<1>1. Number!TwoTo(0) = 1
  BY PowerIs
<1>2. ASSUME NEW n \in Nat
      PROVE  Number!TwoTo(n) \in Nat /\ Number!TwoTo(n + 1) = 2 * Number!TwoTo(n)
  <2>1. PICK p \in [0 .. n -> Nat] :
            /\ Number!TwoTo(n) = p[n] /\ p[0] = 1
            /\ \A k \in 1 .. n : p[k] = 2 * p[k - 1]
    BY PowerIs
  <2>2. PICK q \in [0 .. n + 1 -> Nat] :
            /\ Number!TwoTo(n + 1) = q[n + 1] /\ q[0] = 1
            /\ \A k \in 1 .. n + 1 : q[k] = 2 * q[k - 1]
    <3>1. n + 1 \in Nat
      OBVIOUS
    <3>2. QED
      BY <3>1, PowerIs
  <2>3. \A k \in 0 .. n : p[k] = q[k]
    <3>1. GoesOnLike(p, q, n)
      BY <2>1, <2>2 DEF GoesOnLike
    <3>2. QED
      BY <3>1, Alike
  <2>4. q[n + 1] = 2 * q[n] /\ p[n] = q[n]
    BY <2>2, <2>3
  <2>5. QED
    BY <2>1, <2>2, <2>4
<1>3. QED
  BY <1>1, <1>2

(* They are positive, and powers add up.                                   *)
LEMMA Powers ==
    ASSUME NEW a \in Nat, NEW b \in Nat
    PROVE  /\ Number!TwoTo(a) \in Nat \ {0}
           /\ Number!TwoTo(a + b) = Number!TwoTo(a) * Number!TwoTo(b)
<1>1. ASSUME NEW n \in Nat PROVE Number!TwoTo(n) \in Nat \ {0}
  <2> DEFINE T == {k \in Nat : Number!TwoTo(k) \in Nat \ {0}}
  <2>1. 0 \in T
    BY TwoToIs
  <2>2. ASSUME NEW k \in Nat, k \in T PROVE k + 1 \in T
    BY <2>2, TwoToIs
  <2>3. Nat \subseteq T
    <3> HIDE DEF T
    <3>1. QED
      BY <2>1, <2>2, Induction
  <2>4. QED
    BY <2>3
<1>2. Number!TwoTo(a + b) = Number!TwoTo(a) * Number!TwoTo(b)
  <2> DEFINE T == {k \in Nat : Number!TwoTo(a + k) = Number!TwoTo(a) * Number!TwoTo(k)}
  <2>1. 0 \in T
    BY TwoToIs
  <2>2. ASSUME NEW k \in Nat, k \in T PROVE k + 1 \in T
    <3> DEFINE x == Number!TwoTo(a)
               y == Number!TwoTo(k)
    <3>1. x \in Nat /\ y \in Nat /\ Number!TwoTo(k + 1) = 2 * y
      BY TwoToIs
    <3>2. a + (k + 1) = (a + k) + 1 /\ a + k \in Nat
      OBVIOUS
    <3>3. Number!TwoTo(a + (k + 1)) = 2 * Number!TwoTo(a + k)
      BY <3>2, TwoToIs
    <3>4. Number!TwoTo(a + k) = x * y
      BY <2>2
    <3> HIDE DEF x, y
    <3>5. 2 * (x * y) = x * (2 * y)
      BY <3>1, SMT
    <3>6. Number!TwoTo(a + (k + 1)) = x * Number!TwoTo(k + 1)
      BY <3>1, <3>3, <3>4, <3>5
    <3>7. QED
      BY <3>6 DEF x
  <2>3. Nat \subseteq T
    <3> HIDE DEF T
    <3>1. QED
      BY <2>1, <2>2, Induction
  <2>4. QED
    BY <2>3
<1>3. QED
  BY <1>1, <1>2

(* The larger the power, the larger the number, and it is larger than its  *)
(* power.                                                                  *)
LEMMA PowersGrow ==
    /\ \A n \in Nat : n < Number!TwoTo(n)
    /\ \A a, b \in Nat : a <= b => Number!TwoTo(a) <= Number!TwoTo(b)
    /\ \A a, b \in Nat : a < b => 2 * Number!TwoTo(a) <= Number!TwoTo(b)
<1>1. ASSUME NEW n \in Nat PROVE n < Number!TwoTo(n)
  <2> DEFINE T == {k \in Nat : k < Number!TwoTo(k)}
  <2>1. 0 \in T
    BY TwoToIs
  <2>2. ASSUME NEW k \in Nat, k \in T PROVE k + 1 \in T
    BY <2>2, TwoToIs
  <2>3. Nat \subseteq T
    <3> HIDE DEF T
    <3>1. QED
      BY <2>1, <2>2, Induction
  <2>4. QED
    BY <2>3
<1>2. ASSUME NEW a \in Nat, NEW b \in Nat, a <= b
      PROVE  Number!TwoTo(a) <= Number!TwoTo(b)
  <2> DEFINE x == Number!TwoTo(a)
             y == Number!TwoTo(b - a)
  <2>1. b - a \in Nat /\ a + (b - a) = b
    BY <1>2
  <2>2. x \in Nat /\ y \in Nat \ {0} /\ Number!TwoTo(b) = x * y
    BY <2>1, Powers
  <2> HIDE DEF x, y
  <2>3. x <= x * y
    BY <2>2, SMT
  <2>4. QED
    BY <2>2, <2>3 DEF x
<1>3. ASSUME NEW a \in Nat, NEW b \in Nat, a < b
      PROVE  2 * Number!TwoTo(a) <= Number!TwoTo(b)
  <2>1. a + 1 \in Nat /\ a + 1 <= b /\ Number!TwoTo(a + 1) = 2 * Number!TwoTo(a)
    BY <1>3, TwoToIs
  <2>2. QED
    BY <1>2, <2>1
<1>4. QED
  BY <1>1, <1>2, <1>3

(* The bits a number needs: as many as there are, and no more.             *)
LEMMA BitsAre ==
    ASSUME NEW m \in Nat
    PROVE  /\ Number!BitsOf(m) \in Nat
           /\ m < Number!TwoTo(Number!BitsOf(m))
           /\ Number!BitsOf(m) # 0 => m >= Number!TwoTo(Number!BitsOf(m) - 1)
<1> DEFINE P(n) == m < Number!TwoTo(n) /\ (n = 0 \/ m >= Number!TwoTo(n - 1))
           T == {n \in Nat : m < Number!TwoTo(n)}
<1>1. m \in T
  BY PowersGrow
<1>2. PICK n \in T : \A k \in T : n <= k
  <2>1. T \in SUBSET Nat /\ T # {}
    BY <1>1
  <2> HIDE DEF T
  <2>2. QED
    BY <2>1, Least
<1>3. n \in 0 .. m
  BY <1>1, <1>2
<1>4. P(n)
  <2>1. CASE n = 0
    BY <1>2, <2>1
  <2>2. CASE n # 0
    <3>1. n - 1 \in Nat /\ ~ (n <= n - 1) /\ Number!TwoTo(n - 1) \in Nat
      BY <1>2, <2>2, TwoToIs
    <3>2. n - 1 \notin T
      BY <1>2, <3>1
    <3>3. QED
      BY <1>2, <3>1, <3>2
  <2>3. QED
    BY <2>1, <2>2
<1>5. Number!BitsOf(m) \in 0 .. m /\ P(Number!BitsOf(m))
  <2>1. Number!BitsOf(m) = CHOOSE k \in 0 .. m : P(k)
    BY DEF Number!BitsOf
  <2> HIDE DEF P
  <2>2. QED
    BY <1>3, <1>4, <2>1
<1>6. QED
  BY <1>5

LEMMA BitsBound ==
    ASSUME NEW m \in Nat, NEW k \in Nat
    PROVE  /\ m < Number!TwoTo(k) => Number!BitsOf(m) <= k
           /\ m >= Number!TwoTo(k) => Number!BitsOf(m) >= k + 1
<1> DEFINE b == Number!BitsOf(m)
<1>1. b \in Nat /\ m < Number!TwoTo(b) /\ (b # 0 => m >= Number!TwoTo(b - 1))
  BY BitsAre
<1> HIDE DEF b
<1>2. Number!TwoTo(k) \in Nat /\ Number!TwoTo(b) \in Nat
  BY <1>1, TwoToIs
<1>3. ASSUME m < Number!TwoTo(k), ~ (b <= k) PROVE FALSE
  <2>1. b - 1 \in Nat /\ k <= b - 1 /\ b # 0
    BY <1>1, <1>3
  <2>2. Number!TwoTo(k) <= Number!TwoTo(b - 1) /\ Number!TwoTo(b - 1) \in Nat
    BY <2>1, PowersGrow, TwoToIs
  <2>3. QED
    BY <1>1, <1>2, <1>3, <2>1, <2>2
<1>4. ASSUME m >= Number!TwoTo(k), ~ (b >= k + 1) PROVE FALSE
  <2>1. b <= k
    BY <1>1, <1>4
  <2>2. Number!TwoTo(b) <= Number!TwoTo(k)
    BY <1>1, <2>1, PowersGrow
  <2>3. QED
    BY <1>1, <1>2, <1>4, <2>2
<1>5. QED
  BY <1>1, <1>3, <1>4 DEF b

(* The multiple of a step that is nearest to a number: that below or above *)
(* it, and a multiple itself.                                              *)
LEMMA DivIs ==
    ASSUME NEW m \in Nat, NEW s \in Nat \ {0}
    PROVE  /\ m \div s \in Nat /\ m % s \in 0 .. s - 1
           /\ m = s * (m \div s) + (m % s)
  BY SMT

LEMMA DivUnique ==
    ASSUME NEW s \in Nat \ {0}, NEW q \in Nat, NEW r \in 0 .. s - 1
    PROVE  (s * q + r) \div s = q /\ (s * q + r) % s = r
<1> DEFINE m == s * q + r
           p == m \div s
           t == m % s
<1>1. m \in Nat
  BY SMT
<1>2. p \in Nat /\ t \in 0 .. s - 1 /\ m = s * p + t
  <2> HIDE DEF m
  <2>1. QED
    BY <1>1, DivIs
<1>3. s * q + r = s * p + t
  BY <1>2
<1> HIDE DEF p, t, m
<1>4. ASSUME p < q PROVE FALSE
  <2>1. s * p + s <= s * q
    <3>1. p + 1 <= q
      BY <1>2, <1>4
    <3>2. s * (p + 1) <= s * q
      BY <1>2, <3>1, SMT
    <3>3. s * (p + 1) = s * p + s
      BY <1>2, SMT
    <3>4. QED
      BY <3>2, <3>3
  <2>2. s * p \in Nat /\ s * q \in Nat
    BY <1>2, SMT
  <2>3. QED
    BY <1>2, <1>3, <2>1, <2>2
<1>5. ASSUME q < p PROVE FALSE
  <2>1. s * q + s <= s * p
    <3>1. q + 1 <= p
      BY <1>2, <1>5
    <3>2. s * (q + 1) <= s * p
      BY <1>2, <3>1, SMT
    <3>3. s * (q + 1) = s * q + s
      BY <1>2, SMT
    <3>4. QED
      BY <3>2, <3>3
  <2>2. s * p \in Nat /\ s * q \in Nat
    BY <1>2, SMT
  <2>3. QED
    BY <1>2, <1>3, <2>1, <2>2
<1>6. p = q
  BY <1>2, <1>4, <1>5
<1>7. t = r
  <2>1. s * q \in Nat
    BY SMT
  <2>2. QED
    BY <1>2, <1>3, <1>6, <2>1
<1>8. QED
  BY <1>6, <1>7 DEF p, t, m

LEMMA NearestIs ==
    ASSUME NEW m \in Nat, NEW s \in Nat \ {0}
    PROVE  \/ Number!NearestMultiple(m, s) = s * (m \div s)
           \/ /\ Number!NearestMultiple(m, s) = s * (m \div s + 1)
              /\ m % s # 0
<1> DEFINE q == m \div s
           r == m % s
<1>1. r \in 0 .. s - 1
  BY DivIs
<1>2. Number!NearestMultiple(m, s) =
         s * (IF 2 * r > s \/ (2 * r = s /\ q % 2 = 1) THEN q + 1 ELSE q)
  BY DEF Number!NearestMultiple
<1> HIDE DEF q, r
<1>3. CASE 2 * r > s \/ (2 * r = s /\ q % 2 = 1)
  <2>1. r # 0
    BY <1>1, <1>3
  <2>2. Number!NearestMultiple(m, s) = s * (q + 1)
    BY <1>2, <1>3
  <2>3. QED
    BY <2>1, <2>2 DEF q, r
<1>4. CASE ~ (2 * r > s \/ (2 * r = s /\ q % 2 = 1))
  BY <1>2, <1>4 DEF q
<1>5. QED
  BY <1>3, <1>4

LEMMA NearestOfMultiple ==
    ASSUME NEW s \in Nat \ {0}, NEW q \in Nat
    PROVE  Number!NearestMultiple(s * q, s) = s * q
<1> DEFINE m == s * q
<1>1. m \in Nat /\ m = s * q + 0 /\ 0 \in 0 .. s - 1
  BY SMT
<1>2. m \div s = q /\ m % s = 0
  BY <1>1, DivUnique
<1> HIDE DEF m
<1>3. Number!NearestMultiple(m, s) = s * q
  BY <1>1, <1>2, NearestIs
<1>4. QED
  BY <1>3 DEF m

(* What a double has room for it holds as it is.                           *)
LEMMA DoubleHolds ==
    ASSUME Number!NumberAssumption, NEW k \in Nat, NEW c \in Nat,
           c <= Number!TwoTo(Mantissa)
    PROVE  Number!Rounded(Number!TwoTo(k) * c) = Number!TwoTo(k) * c
<1> DEFINE m == Number!TwoTo(k) * c
           b == Number!BitsOf(m)
<1>1. Mantissa \in Nat \ {0} /\ Number!TwoTo(Mantissa) \in Nat \ {0}
  BY Powers DEF Number!NumberAssumption
<1>2. m \in Nat /\ Number!TwoTo(k) \in Nat \ {0}
  <2>1. Number!TwoTo(k) \in Nat \ {0}
    BY Powers
  <2>2. QED
    BY <2>1, SMT
<1>3. b \in Nat
  BY <1>2, BitsAre
<1>4. Number!TwoTo(k + Mantissa) = Number!TwoTo(k) * Number!TwoTo(Mantissa)
  BY <1>1, Powers
<1>5. CASE b <= Mantissa
  BY <1>5 DEF Number!Rounded
<1>6. ASSUME b > Mantissa, NEW q \in Nat, m = Number!TwoTo(b - Mantissa) * q
      PROVE  Number!Rounded(m) = m
  <2>1. b - Mantissa \in Nat
    BY <1>1, <1>3, <1>6
  <2>2. Number!TwoTo(b - Mantissa) \in Nat \ {0}
    BY <2>1, Powers
  <2>3. Number!NearestMultiple(m, Number!TwoTo(b - Mantissa)) = m
    <3> DEFINE s == Number!TwoTo(b - Mantissa)
    <3>1. s \in Nat \ {0} /\ m = s * q
      BY <1>6, <2>2
    <3> HIDE DEF s, m
    <3>2. Number!NearestMultiple(m, s) = m
      BY <3>1, NearestOfMultiple
    <3>3. QED
      BY <3>2 DEF s
  <2>4. Number!Rounded(m) = Number!NearestMultiple(m, Number!TwoTo(b - Mantissa))
    <3>1. ~ (b <= Mantissa)
      BY <1>1, <1>3, <1>6
    <3>2. QED
      BY <3>1 DEF Number!Rounded
  <2>5. QED
    BY <2>3, <2>4
<1>7. CASE b > Mantissa /\ c = Number!TwoTo(Mantissa)
  <2>1. m = Number!TwoTo(k + Mantissa) /\ k + Mantissa \in Nat /\ k + Mantissa + 1 \in Nat
    BY <1>1, <1>4, <1>7
  <2>2. Number!TwoTo(k + Mantissa + 1) = 2 * Number!TwoTo(k + Mantissa)
    BY <2>1, TwoToIs
  <2>3. b <= k + Mantissa + 1 /\ b >= k + Mantissa + 1
    <3>1. m \in Nat \ {0}
      BY <2>1, Powers
    <3>2. m < Number!TwoTo(k + Mantissa + 1) /\ m >= Number!TwoTo(k + Mantissa)
      BY <2>1, <2>2, <3>1
    <3> HIDE DEF m
    <3>3. QED
      BY <1>2, <2>1, <3>2, BitsBound
  <2>4. b - Mantissa = k + 1
    BY <1>1, <1>3, <2>3
  <2>5. m = Number!TwoTo(k + 1) * Number!TwoTo(Mantissa - 1) /\ Number!TwoTo(Mantissa - 1) \in Nat
    <3>1. Mantissa - 1 \in Nat /\ k + 1 \in Nat /\ (k + 1) + (Mantissa - 1) = k + Mantissa
      BY <1>1
    <3>2. QED
      BY <2>1, <3>1, Powers
  <2> HIDE DEF m, b
  <2>6. QED
    BY <1>6, <1>7, <2>4, <2>5 DEF m, b
<1>8. CASE b > Mantissa /\ c # Number!TwoTo(Mantissa)
  <2>1. c < Number!TwoTo(Mantissa)
    BY <1>1, <1>8
  <2>2. m < Number!TwoTo(k + Mantissa)
    <3> DEFINE x == Number!TwoTo(k)
               y == Number!TwoTo(Mantissa)
    <3>1. x \in Nat \ {0} /\ y \in Nat /\ c < y /\ m = x * c
      BY <1>1, <1>2, <2>1
    <3> HIDE DEF x, y, m
    <3>2. x * c < x * y
      BY <3>1, SMT
    <3>3. QED
      BY <1>4, <3>1, <3>2 DEF x, y
  <2>3. b <= k + Mantissa
    BY <1>1, <1>2, <2>2, BitsBound
  <2> DEFINE e == b - Mantissa
             d == k - e
  <2>4. e \in Nat /\ d \in Nat /\ e + d = k
    BY <1>1, <1>3, <1>8, <2>3
  <2> HIDE DEF e, d
  <2>5. Number!TwoTo(k) = Number!TwoTo(e) * Number!TwoTo(d)
    BY <2>4, Powers
  <2>6. Number!TwoTo(e) \in Nat /\ Number!TwoTo(d) \in Nat
    BY <2>4, TwoToIs
  <2>7. m = Number!TwoTo(e) * (Number!TwoTo(d) * c) /\ Number!TwoTo(d) * c \in Nat
    <3> DEFINE x == Number!TwoTo(e)
               y == Number!TwoTo(d)
    <3>1. x \in Nat /\ y \in Nat /\ m = (x * y) * c
      BY <2>5, <2>6
    <3> HIDE DEF x, y, m
    <3>2. (x * y) * c = x * (y * c) /\ y * c \in Nat
      BY <3>1, SMT
    <3>3. QED
      BY <3>1, <3>2 DEF x, y
  <2> HIDE DEF m, b
  <2>8. QED
    BY <1>6, <1>8, <2>7 DEF m, b, e
<1>9. QED
  BY <1>1, <1>3, <1>5, <1>7, <1>8

(* What it has no room for becomes something it has room for.              *)
LEMMA RoundedIs ==
    ASSUME Number!NumberAssumption, NEW m \in Nat
    PROVE  /\ Number!Rounded(m) \in Nat
           /\ \E k, c \in Nat : /\ c <= Number!TwoTo(Mantissa)
                                /\ Number!Rounded(m) = Number!TwoTo(k) * c
<1> DEFINE b == Number!BitsOf(m)
           top == Number!TwoTo(Mantissa)
<1>1. Mantissa \in Nat /\ top \in Nat \ {0}
  BY Powers DEF Number!NumberAssumption
<1>2. b \in Nat /\ m < Number!TwoTo(b)
  BY BitsAre
<1>3. CASE b <= Mantissa
  <2>1. Number!Rounded(m) = m
    BY <1>3 DEF Number!Rounded
  <2>2. m <= top
    <3>1. Number!TwoTo(b) <= top /\ Number!TwoTo(b) \in Nat
      BY <1>1, <1>2, <1>3, PowersGrow, TwoToIs
    <3>2. QED
      BY <1>1, <1>2, <3>1
  <2>3. m = Number!TwoTo(0) * m
    BY TwoToIs
  <2>4. QED
    BY <2>1, <2>2, <2>3
<1>4. CASE ~ (b <= Mantissa)
  <2> DEFINE k == b - Mantissa
             s == Number!TwoTo(k)
             q == m \div s
  <2>1. k \in Nat /\ k + Mantissa = b
    BY <1>1, <1>2, <1>4
  <2>2. s \in Nat \ {0} /\ Number!TwoTo(b) = s * top
    <3> HIDE DEF b, k
    <3>1. QED
      BY <1>1, <2>1, Powers
  <2>3. Number!Rounded(m) = Number!NearestMultiple(m, s)
    BY <1>4 DEF Number!Rounded
  <2> HIDE DEF s, k, b, top
  <2>4. q \in Nat /\ m % s \in 0 .. s - 1 /\ m = s * q + (m % s)
    BY <2>2, DivIs
  <2>5. Number!Rounded(m) = s * q \/ Number!Rounded(m) = s * (q + 1)
    BY <2>2, <2>3, NearestIs
  <2> HIDE DEF q
  <2>6. q < top
    <3>1. s * q < s * top
      <4>1. s * q \in Nat
        BY <2>2, <2>4, SMT
      <4>2. s * q <= m
        BY <2>4, <4>1
      <4>3. s * top \in Nat
        BY <1>1, <2>2, SMT
      <4>4. QED
        BY <1>2, <2>2, <4>1, <4>2, <4>3
    <3>2. ASSUME top <= q PROVE FALSE
      <4>1. s * top <= s * q
        BY <1>1, <2>2, <2>4, <3>2, SMT
      <4>2. s * top \in Nat /\ s * q \in Nat
        BY <1>1, <2>2, <2>4, SMT
      <4>3. QED
        BY <3>1, <4>1, <4>2
    <3>3. QED
      BY <1>1, <2>4, <3>2
  <2>7. PICK c \in Nat : c <= top /\ Number!Rounded(m) = s * c
    <3>1. q \in Nat /\ q <= top /\ q + 1 \in Nat /\ q + 1 <= top
      BY <1>1, <2>4, <2>6
    <3>2. QED
      BY <2>5, <3>1
  <2>8. s * c \in Nat
    BY <2>2, SMT
  <2>9. QED
    BY <2>1, <2>7, <2>8 DEF s, top
<1>5. QED
  BY <1>3, <1>4

(* So a double that is made a double again stays the same.                 *)
LEMMA DoubleIs ==
    ASSUME Number!NumberAssumption, NEW h \in Int
    PROVE  /\ Number!Double(h) \in Int
           /\ Number!Double(Number!Double(h)) = Number!Double(h)
<1>1. ASSUME NEW m \in Nat
      PROVE  /\ Number!Rounded(m) \in Nat
             /\ Number!Rounded(Number!Rounded(m)) = Number!Rounded(m)
  BY RoundedIs, DoubleHolds
<1>2. Number!Rounded(0) = 0
  <2>1. Number!TwoTo(0) = 1 /\ Number!TwoTo(Mantissa) \in Nat
    BY TwoToIs DEF Number!NumberAssumption
  <2>2. 0 <= Number!TwoTo(Mantissa) /\ Number!TwoTo(0) * 0 = 0
    BY <2>1
  <2>3. QED
    BY <2>2, DoubleHolds
<1>3. CASE h >= 0
  <2>1. Number!Double(h) = Number!Rounded(h) /\ h \in Nat
    BY <1>3 DEF Number!Double
  <2>2. Number!Rounded(h) \in Nat /\ Number!Rounded(Number!Rounded(h)) = Number!Rounded(h)
    BY <1>1, <2>1
  <2>3. Number!Double(Number!Rounded(h)) = Number!Rounded(Number!Rounded(h))
    BY <2>2 DEF Number!Double
  <2>4. QED
    BY <2>1, <2>2, <2>3
<1>4. CASE h < 0
  <2> DEFINE r == Number!Rounded(-h)
  <2>1. Number!Double(h) = -r /\ -h \in Nat
    BY <1>4 DEF Number!Double
  <2>2. r \in Nat /\ Number!Rounded(r) = r
    BY <1>1, <2>1
  <2> HIDE DEF r
  <2>3. CASE r = 0
    BY <1>2, <2>1, <2>3 DEF Number!Double
  <2>4. CASE r # 0
    <3>1. -r < 0 /\ -(-r) = r /\ -r \in Int
      BY <2>2, <2>4
    <3>2. Number!Double(-r) = -Number!Rounded(r)
      BY <3>1 DEF Number!Double
    <3>3. QED
      BY <2>1, <2>2, <3>1, <3>2
  <2>5. QED
    BY <2>3, <2>4
<1>5. QED
  BY <1>3, <1>4

Digit == 0 .. 9

(* What the digits up to each one say.                                     *)
LEMMA SaysAre ==
    ASSUME NEW d \in Seq(Digit)
    PROVE  \E f \in [0 .. Len(d) -> Nat] :
              /\ Number!Says(d) = f[Len(d)]
              /\ f[0] = 0
              /\ \A k \in 1 .. Len(d) : f[k] = f[k - 1] * 10 + d[k]
<1> DEFINE n == Len(d)
           F(f) == [i \in 0 .. n |-> IF i = 0 THEN 0 ELSE f[i - 1] * 10 + d[i]]
           after == CHOOSE f : f = F(f)
           step  == [a \in (1 .. n) \X Nat |-> a[2] * 10 + d[a[1]]]
<1>1. Number!Says(d) = after[n]
  BY DEF Number!Says
<1>2. n \in Nat /\ \A k \in 1 .. n : d[k] \in Nat
  BY DEF Digit
<1>3. PICK g \in [0 .. n -> Nat] : g[0] = 0 /\ \A k \in 1 .. n : g[k] = step[<<k, g[k - 1]>>]
  <2>1. step \in [(1 .. n) \X Nat -> Nat] /\ 0 \in Nat
    BY <1>2
  <2> HIDE DEF step, n
  <2>2. Runs(Nat, 0, n, step)
    BY <1>2, <2>1, Recursion
  <2>3. QED
    BY <2>2 DEF Runs
<1> HIDE DEF n
<1>4. \A k \in 1 .. n : g[k] = g[k - 1] * 10 + d[k]
  <2> TAKE k \in 1 .. n
  <2>1. k - 1 \in 0 .. n /\ g[k - 1] \in Nat
    BY <1>2, <1>3
  <2>2. step[<<k, g[k - 1]>>] = g[k - 1] * 10 + d[k]
    BY <2>1
  <2>3. QED
    BY <1>3, <2>2
<1>5. g = F(g)
  <2>1. \A i \in 0 .. n : g[i] = IF i = 0 THEN 0 ELSE g[i - 1] * 10 + d[i]
    BY <1>2, <1>3, <1>4
  <2>2. g = [i \in 0 .. n |-> IF i = 0 THEN 0 ELSE g[i - 1] * 10 + d[i]]
    BY <2>1, Zenon
  <2>3. QED
    BY <2>2
<1>6. after = F(after)
  <2> HIDE DEF F
  <2>1. QED
    BY <1>5
<1> HIDE DEF after
<1>7. after[0] = 0 /\ \A k \in 1 .. n : after[k] = after[k - 1] * 10 + d[k]
  BY <1>2, <1>6
<1>8. \A k \in 0 .. n : after[k] = g[k]
  <2>1. GoesOnLike(after, g, n)
    BY <1>3, <1>4, <1>7 DEF GoesOnLike
  <2>2. QED
    BY <1>2, <2>1, Alike
<1>9. Number!Says(d) = g[n]
  BY <1>1, <1>2, <1>8
<1>10. QED
  BY <1>3, <1>4, <1>9 DEF n

(* The turns of decodeNumber's loop.                                       *)
LEMMA DigitsAre ==
    ASSUME NEW d \in Seq(Digit), NEW limit \in Nat
    PROVE  \E f \in [0 .. Len(d) -> Nat \cup {-1}] :
              /\ Number!DecodeDigits(d, limit) = f[Len(d)]
              /\ f[0] = 0
              /\ \A k \in 1 .. Len(d) :
                    f[k] = IF f[k - 1] = -1
                              \/ Number!Overflows(f[k - 1], d[k], k = Len(d), limit)
                           THEN -1
                           ELSE f[k - 1] * 10 + d[k]
<1> DEFINE n == Len(d)
           W == Nat \cup {-1}
           Turn(value, i) == IF value = -1 \/ Number!Overflows(value, d[i], i = n, limit)
                             THEN -1
                             ELSE value * 10 + d[i]
           F(f) == [i \in 0 .. n |-> IF i = 0 THEN 0 ELSE Turn(f[i - 1], i)]
           after == CHOOSE f : f = F(f)
           step  == [a \in (1 .. n) \X W |-> Turn(a[2], a[1])]
<1>1. Number!DecodeDigits(d, limit) = after[n]
  BY DEF Number!DecodeDigits
<1>2. n \in Nat /\ \A k \in 1 .. n : d[k] \in Nat
  BY DEF Digit
<1>3. PICK g \in [0 .. n -> W] : g[0] = 0 /\ \A k \in 1 .. n : g[k] = step[<<k, g[k - 1]>>]
  <2>1. \A w \in W, i \in 1 .. n : Turn(w, i) \in W
    BY <1>2
  <2>2. step \in [(1 .. n) \X W -> W] /\ 0 \in W
    <3> HIDE DEF Turn
    <3>1. QED
      BY <2>1
  <2> HIDE DEF step, n, W
  <2>3. Runs(W, 0, n, step)
    BY <1>2, <2>2, Recursion
  <2>4. QED
    BY <2>3 DEF Runs
<1> HIDE DEF n, Turn
<1>4. \A k \in 1 .. n : g[k] = Turn(g[k - 1], k)
  <2> TAKE k \in 1 .. n
  <2>1. k - 1 \in 0 .. n /\ g[k - 1] \in W
    BY <1>2, <1>3
  <2>2. step[<<k, g[k - 1]>>] = Turn(g[k - 1], k)
    <3> HIDE DEF W
    <3>1. QED
      BY <2>1
  <2>3. QED
    BY <1>3, <2>2
<1>5. g = F(g)
  <2>1. \A i \in 0 .. n : g[i] = IF i = 0 THEN 0 ELSE Turn(g[i - 1], i)
    BY <1>2, <1>3, <1>4
  <2>2. g = [i \in 0 .. n |-> IF i = 0 THEN 0 ELSE Turn(g[i - 1], i)]
    BY <2>1, Zenon
  <2>3. QED
    BY <2>2
<1>6. after = F(after)
  <2> HIDE DEF F
  <2>1. QED
    BY <1>5
<1> HIDE DEF after
<1>7. after[0] = 0 /\ \A k \in 1 .. n : after[k] = Turn(after[k - 1], k)
  BY <1>2, <1>6
<1>8. \A k \in 0 .. n : after[k] = g[k]
  <2>1. GoesOnLike(after, g, n)
    BY <1>3, <1>4, <1>7 DEF GoesOnLike
  <2>2. QED
    BY <1>2, <2>1, Alike
<1>9. Number!DecodeDigits(d, limit) = g[n]
  BY <1>1, <1>2, <1>8
<1>10. QED
  BY <1>3, <1>4, <1>9 DEF n, Turn

(* One digit of it: where it goes on the number fits, and where it gives   *)
(* up it does not, or will not with the next digit.                        *)
LEMMA TurnIsExact ==
    ASSUME NEW limit \in Nat, limit >= 10, NEW value \in Nat, NEW digit \in Digit,
           NEW last \in BOOLEAN
    PROVE  IF Number!Overflows(value, digit, last, limit)
           THEN /\ last => value * 10 + digit > limit
                /\ (value * 10 + digit) * 10 > limit
           ELSE value * 10 + digit <= limit
<1>1. /\ limit \div 10 \in Nat \ {0} /\ limit % 10 \in 0 .. 9
      /\ limit = 10 * (limit \div 10) + (limit % 10)
  BY SMT
<1> DEFINE q == limit \div 10
           r == limit % 10
<1>2. Number!Overflows(value, digit, last, limit) <=>
         value >= q /\ (value > q \/ ~last \/ digit > r)
  BY DEF Number!Overflows
<1> HIDE DEF q, r
<1>3. q \in Nat \ {0} /\ r \in 0 .. 9 /\ limit = 10 * q + r
  BY <1>1 DEF q, r
<1>4. CASE value >= q
  <2>1. (value * 10 + digit) * 10 > limit
    BY <1>3, <1>4, SMT DEF Digit
  <2>2. value > q \/ digit > r => value * 10 + digit > limit
    BY <1>3, <1>4, SMT DEF Digit
  <2>3. ~ (value > q) /\ ~ (digit > r) => value * 10 + digit <= limit
    BY <1>3, <1>4, SMT DEF Digit
  <2>4. QED
    BY <1>2, <1>4, <2>1, <2>2, <2>3
<1>5. CASE ~ (value >= q)
  <2>1. value * 10 + digit <= limit
    BY <1>3, <1>5, SMT DEF Digit
  <2>2. QED
    BY <1>2, <1>5, <2>1
<1>6. QED
  BY <1>4, <1>5

(* decodeNumber's test of its threshold lets no overflow by and refuses no *)
(* number that fits, leading zeros included.                               *)
THEOREM DigitsAreExact ==
    ASSUME NEW d \in Seq(Digit), NEW limit \in Nat, limit >= 10
    PROVE  /\ Number!Says(d) \in Nat
           /\ Number!DecodeDigits(d, limit) =
                 IF Number!Says(d) <= limit THEN Number!Says(d) ELSE -1
<1> DEFINE n == Len(d)
<1>1. PICK f \in [0 .. n -> Nat] :
          /\ Number!Says(d) = f[n]
          /\ f[0] = 0
          /\ \A k \in 1 .. n : f[k] = f[k - 1] * 10 + d[k]
  BY SaysAre
<1>2. PICK g \in [0 .. n -> Nat \cup {-1}] :
          /\ Number!DecodeDigits(d, limit) = g[n]
          /\ g[0] = 0
          /\ \A k \in 1 .. n :
                g[k] = IF g[k - 1] = -1 \/ Number!Overflows(g[k - 1], d[k], k = n, limit)
                       THEN -1 ELSE g[k - 1] * 10 + d[k]
  BY DigitsAre
<1>3. n \in Nat /\ \A k \in 1 .. n : d[k] \in Digit
  OBVIOUS
<1> HIDE DEF n
<1> DEFINE Fits(k) == g[k] = f[k] /\ f[k] <= limit
           Not(k) == g[k] = -1 /\ (IF k = n THEN f[k] > limit ELSE f[k] * 10 > limit)
           T == {k \in Nat : k <= n => Fits(k) \/ Not(k)}
<1>4. 0 \in T
  BY <1>1, <1>2
<1>5. ASSUME NEW k \in Nat, k \in T PROVE k + 1 \in T
  <2> SUFFICES ASSUME k + 1 <= n PROVE Fits(k + 1) \/ Not(k + 1)
    OBVIOUS
  <2>1. k + 1 \in 1 .. n /\ (k + 1) - 1 = k /\ k \in 0 .. n /\ k # n
    BY <1>3
  <2>2. f[k] \in Nat /\ d[k + 1] \in Digit /\ f[k + 1] = f[k] * 10 + d[k + 1]
    BY <1>1, <1>3, <2>1
  <2>3. CASE Not(k)
    <3>1. g[k + 1] = -1
      BY <1>2, <2>1, <2>3
    <3>2. f[k] * 10 > limit
      BY <2>1, <2>3
    <3>3. f[k + 1] > limit /\ f[k + 1] * 10 > limit
      <4>1. \A x, y \in Nat, z \in Digit :
               x * 10 > limit /\ y = x * 10 + z => y > limit /\ y * 10 > limit
        BY SMT DEF Digit
      <4>2. f[k + 1] \in Nat
        BY <1>1, <2>1
      <4>3. QED
        BY <2>2, <3>2, <4>1, <4>2
    <3>4. QED
      BY <3>1, <3>3
  <2>4. CASE Fits(k)
    <3> DEFINE last == k + 1 = n
    <3>1. g[k] # -1 /\ g[k] = f[k]
      BY <2>2, <2>4
    <3>2. g[k + 1] = IF Number!Overflows(f[k], d[k + 1], last, limit)
                     THEN -1 ELSE f[k] * 10 + d[k + 1]
      BY <1>2, <2>1, <3>1
    <3>3. last \in BOOLEAN
      OBVIOUS
    <3> HIDE DEF last
    <3>4. CASE Number!Overflows(f[k], d[k + 1], last, limit)
      <4>1. (last => f[k + 1] > limit) /\ f[k + 1] * 10 > limit
        BY <2>2, <3>3, <3>4, TurnIsExact
      <4>2. QED
        BY <3>2, <3>4, <4>1 DEF last
    <3>5. CASE ~Number!Overflows(f[k], d[k + 1], last, limit)
      <4>1. f[k + 1] <= limit
        BY <2>2, <3>3, <3>5, TurnIsExact
      <4>2. QED
        BY <2>2, <3>2, <3>5, <4>1
    <3>6. QED
      BY <3>4, <3>5
  <2>5. QED
    BY <1>5, <2>1, <2>3, <2>4
<1>6. Fits(n) \/ Not(n)
  <2>1. Nat \subseteq T
    <3> HIDE DEF T
    <3>1. QED
      BY <1>4, <1>5, Induction
  <2>2. QED
    BY <1>3, <2>1
<1>7. f[n] \in Nat
  BY <1>1, <1>3
<1>8. QED
  BY <1>1, <1>2, <1>6, <1>7

(* A digit behind others.                                                  *)
LEMMA SaysAppend ==
    ASSUME NEW d \in Seq(Digit), NEW x \in Digit
    PROVE  /\ Number!Says(Append(d, x)) = Number!Says(d) * 10 + x
           /\ Number!Says(<<x>>) = x
<1>1. ASSUME NEW c \in Seq(Digit)
      PROVE  Number!Says(Append(c, x)) = Number!Says(c) * 10 + x
  <2> DEFINE n == Len(c)
             e == Append(c, x)
  <2>1. PICK f \in [0 .. n -> Nat] :
            /\ Number!Says(c) = f[n] /\ f[0] = 0
            /\ \A k \in 1 .. n : f[k] = f[k - 1] * 10 + c[k]
    BY SaysAre
  <2>2. e \in Seq(Digit) /\ Len(e) = n + 1 /\ e[n + 1] = x /\ n \in Nat
        /\ \A k \in 1 .. n : e[k] = c[k]
    OBVIOUS
  <2> HIDE DEF e, n
  <2>3. PICK g :
            /\ Number!Says(e) = g[n + 1] /\ g[0] = 0
            /\ \A k \in 1 .. n + 1 : g[k] = g[k - 1] * 10 + e[k]
    <3>1. PICK h \in [0 .. Len(e) -> Nat] :
              /\ Number!Says(e) = h[Len(e)] /\ h[0] = 0
              /\ \A k \in 1 .. Len(e) : h[k] = h[k - 1] * 10 + e[k]
      BY <2>2, SaysAre
    <3>2. QED
      BY <2>2, <3>1
  <2>4. GoesOnLike(f, g, n)
    <3>1. \A k \in 1 .. n : k \in 1 .. n + 1
      BY <2>2
    <3>2. QED
      BY <2>1, <2>2, <2>3, <3>1 DEF GoesOnLike
  <2>5. f[n] = g[n]
    <3>1. \A k \in 0 .. n : f[k] = g[k]
      BY <2>2, <2>4, Alike
    <3>2. QED
      BY <2>2, <3>1
  <2>6. g[n + 1] = g[n] * 10 + x
    <3>1. n + 1 \in 1 .. n + 1 /\ (n + 1) - 1 = n
      BY <2>2
    <3>2. QED
      BY <2>2, <2>3, <3>1
  <2>7. QED
    BY <2>1, <2>3, <2>5, <2>6 DEF e
<1>2. Number!Says(<<x>>) = x
  <2>1. <<>> \in Seq(Digit) /\ Len(<<>>) = 0 /\ Append(<<>>, x) = <<x>>
    OBVIOUS
  <2>2. Number!Says(<<>>) = 0
    BY <2>1, SaysAre
  <2>3. Number!Says(Append(<<>>, x)) = Number!Says(<<>>) * 10 + x
    BY <1>1, <2>1
  <2>4. QED
    BY <2>1, <2>2, <2>3 DEF Digit
<1>3. QED
  BY <1>1, <1>2

(* Without its last digit a number gets smaller.                           *)
LEMMA LastDigit ==
    ASSUME NEW m \in Nat
    PROVE  /\ m % 10 \in Digit
           /\ m = (m \div 10) * 10 + (m % 10)
           /\ ~ (m < 10) => m \div 10 \in 0 .. m - 1
<1>1. m % 10 \in 0 .. 9 /\ m \div 10 \in Nat /\ m = 10 * (m \div 10) + (m % 10)
  BY SMT
<1> DEFINE q == m \div 10
           r == m % 10
<1> HIDE DEF q, r
<1>2. r \in 0 .. 9 /\ q \in Nat /\ m = 10 * q + r
  BY <1>1 DEF q, r
<1>3. ~ (m < 10) => q \in 0 .. m - 1
  BY <1>2, SMT
<1>4. m = q * 10 + r
  BY <1>2, SMT
<1>5. QED
  BY <1>2, <1>3, <1>4 DEF q, r, Digit

(* The digits of each number up to the one that is printed.                *)
LEMMA PrintedAre ==
    ASSUME NEW n \in Nat
    PROVE  \E f : /\ Number!uintToString(n) = f[n]
                  /\ \A m \in 0 .. n :
                        f[m] = IF m < 10 THEN <<m>> ELSE Append(f[m \div 10], m % 10)
<1> DEFINE Printed(f, m) == IF m < 10 THEN <<m>> ELSE Append(f[m \div 10], m % 10)
           F(f) == [m \in 0 .. n |-> Printed(f, m)]
           digits == CHOOSE f : f = F(f)
           Upto(k) == \E f : f = [m \in 0 .. k |-> Printed(f, m)]
           T == {k \in Nat : Upto(k)}
<1>1. Number!uintToString(n) = digits[n]
  BY DEF Number!uintToString
<1>2. 0 \in T
  <2> DEFINE f == [m \in 0 .. 0 |-> <<m>>]
  <2>1. f = [m \in 0 .. 0 |-> Printed(f, m)]
    OBVIOUS
  <2> HIDE DEF f, Printed
  <2>2. QED
    BY <2>1
<1>3. ASSUME NEW k \in Nat, k \in T PROVE k + 1 \in T
  <2>1. PICK f : f = [m \in 0 .. k |-> Printed(f, m)]
    BY <1>3
  <2> DEFINE g == [m \in 0 .. k + 1 |-> IF m = k + 1 THEN Printed(f, k + 1) ELSE f[m]]
  <2>2. ASSUME NEW m \in 0 .. k + 1 PROVE g[m] = Printed(g, m)
    <3>1. ~ (m < 10) => m \div 10 \in 0 .. m - 1
      BY LastDigit
    <3>2. ~ (m < 10) => g[m \div 10] = f[m \div 10]
      <4> DEFINE q == m \div 10
      <4> HIDE DEF q
      <4>1. q \in 0 .. m - 1 => g[q] = f[q]
        OBVIOUS
      <4>2. QED
        BY <3>1, <4>1 DEF q
    <3>3. g[m] = Printed(f, m)
      <4>1. CASE m = k + 1
        <5>1. g[m] = Printed(f, k + 1)
          BY <4>1
        <5>2. QED
          BY <4>1, <5>1
      <4>2. CASE m # k + 1
        <5>1. m \in 0 .. k /\ g[m] = f[m]
          BY <4>2
        <5> HIDE DEF Printed
        <5>2. QED
          BY <2>1, <5>1
      <4>3. QED
        BY <4>1, <4>2
    <3> HIDE DEF g
    <3>4. QED
      BY <3>2, <3>3
  <2>3. g = [m \in 0 .. k + 1 |-> Printed(g, m)]
    <3> DEFINE h == [m \in 0 .. k + 1 |-> Printed(g, m)]
    <3> HIDE DEF Printed
    <3>1. \A m \in 0 .. k + 1 : g[m] = h[m]
      BY <2>2
    <3>2. QED
      BY <3>1
  <2> HIDE DEF g, Printed
  <2>4. k + 1 \in Nat /\ Upto(k + 1)
    BY <2>3
  <2>5. QED
    BY <2>4
<1>4. Upto(n)
  <2>1. Nat \subseteq T
    <3> HIDE DEF T
    <3>1. QED
      BY <1>2, <1>3, Induction
  <2>2. QED
    BY <2>1
<1>5. digits = F(digits)
  <2>1. \E f : f = F(f)
    BY <1>4
  <2> HIDE DEF F
  <2>2. QED
    BY <2>1
<1> HIDE DEF digits
<1>6. \A m \in 0 .. n : digits[m] = Printed(digits, m)
  <2> HIDE DEF Printed
  <2>1. QED
    BY <1>5
<1>7. QED
  BY <1>1, <1>6

(* What is printed is what the number is.                                  *)
LEMMA PrintedSays ==
    ASSUME NEW n \in Nat
    PROVE  /\ Number!uintToString(n) \in Seq(Digit)
           /\ Number!Says(Number!uintToString(n)) = n
<1>1. PICK f : /\ Number!uintToString(n) = f[n]
               /\ \A m \in 0 .. n :
                     f[m] = IF m < 10 THEN <<m>> ELSE Append(f[m \div 10], m % 10)
  BY PrintedAre
<1> DEFINE Good(m) == f[m] \in Seq(Digit) /\ Number!Says(f[m]) = m
           Others == {m \in Nat : m <= n /\ ~Good(m)}
<1>2. ASSUME Others # {} PROVE FALSE
  <2>1. PICK m \in Others : \A k \in Others : m <= k
    <3>1. Others \in SUBSET Nat
      OBVIOUS
    <3> HIDE DEF Others
    <3>2. QED
      BY <1>2, <3>1, Least
  <2>2. m \in Nat /\ m \in 0 .. n /\ ~Good(m)
    BY <2>1
  <2>3. CASE m < 10
    <3>1. m \in Digit
      BY <2>2, <2>3 DEF Digit
    <3>2. Number!Says(<<m>>) = m
      <4>1. <<>> \in Seq(Digit)
        OBVIOUS
      <4>2. QED
        BY <3>1, <4>1, SaysAppend
    <3>3. f[m] = <<m>>
      BY <1>1, <2>2, <2>3, Zenon
    <3>4. Good(m)
      BY <3>1, <3>2, <3>3
    <3>5. QED
      BY <2>2, <3>4
  <2>4. CASE ~ (m < 10)
    <3> DEFINE q == m \div 10
               r == m % 10
    <3>1. r \in Digit /\ m = q * 10 + r /\ q \in 0 .. m - 1
      BY <2>2, <2>4, LastDigit
    <3>2. f[m] = Append(f[q], r)
      BY <1>1, <2>2, <2>4
    <3> HIDE DEF q, r
    <3>3. q \in Nat /\ q <= n /\ ~ (m <= q)
      BY <2>2, <3>1
    <3>4. f[q] \in Seq(Digit) /\ Number!Says(f[q]) = q
      <4>1. q \notin Others
        BY <2>1, <3>3
      <4>2. QED
        BY <3>3, <4>1
    <3>5. Append(f[q], r) \in Seq(Digit) /\ Number!Says(Append(f[q], r)) = q * 10 + r
      <4> DEFINE d == f[q]
      <4>1. d \in Seq(Digit) /\ Number!Says(d) = q
        BY <3>4
      <4> HIDE DEF d
      <4>2. Append(d, r) \in Seq(Digit)
        BY <3>1, <4>1
      <4>3. Number!Says(Append(d, r)) = Number!Says(d) * 10 + r
        BY <3>1, <4>1, SaysAppend
      <4>4. QED
        BY <4>1, <4>2, <4>3 DEF d
    <3>6. Good(m)
      BY <3>1, <3>2, <3>5
    <3>7. QED
      BY <2>2, <3>6
  <2>5. QED
    BY <2>3, <2>4
<1>3. Good(n)
  <2>1. n \in Nat /\ n <= n
    OBVIOUS
  <2>2. QED
    BY <1>2, <2>1
<1>4. QED
  BY <1>1, <1>3

(* The limits of the four types, and what decodeNumber compares with.      *)
LEMMA LimitsAre ==
    ASSUME Number!NumberAssumption
    PROVE  /\ Number!TwoTo(IntBits - 1) \in Nat \ {0} /\ Number!TwoTo(Bits - 1) \in Nat
           /\ Number!TwoTo(Bits - 1) >= 16
           /\ Number!TwoTo(IntBits) = 2 * Number!TwoTo(IntBits - 1)
           /\ Number!TwoTo(Bits) = 2 * Number!TwoTo(Bits - 1)
           /\ Number!Lowest["Int"] = -Number!TwoTo(IntBits - 1)
           /\ Number!Highest["Int"] = Number!TwoTo(IntBits - 1) - 1
           /\ Number!Lowest["UInt"] = 0
           /\ Number!Highest["UInt"] = 2 * Number!TwoTo(IntBits - 1) - 1
           /\ Number!Lowest["Int64"] = -Number!TwoTo(Bits - 1)
           /\ Number!Highest["Int64"] = Number!TwoTo(Bits - 1) - 1
           /\ Number!Lowest["UInt64"] = 0
           /\ Number!Highest["UInt64"] = 2 * Number!TwoTo(Bits - 1) - 1
<1>1. /\ IntBits - 1 \in Nat /\ (IntBits - 1) + 1 = IntBits
      /\ Bits - 1 \in Nat /\ (Bits - 1) + 1 = Bits /\ 4 <= Bits - 1
  BY DEF Number!NumberAssumption
<1>2. Number!TwoTo(4) = 16
  <2>1. Number!TwoTo(0 + 1) = 2
    BY TwoToIs
  <2>2. Number!TwoTo(1 + 1) = 4
    BY <2>1, TwoToIs
  <2>3. Number!TwoTo(2 + 1) = 8
    BY <2>2, TwoToIs
  <2>4. Number!TwoTo(3 + 1) = 16
    BY <2>3, TwoToIs
  <2>5. QED
    BY <2>4
<1>3. Number!TwoTo(IntBits - 1) \in Nat \ {0} /\ Number!TwoTo(Bits - 1) \in Nat
  BY <1>1, Powers
<1>4. Number!TwoTo(Bits - 1) >= 16
  BY <1>1, <1>2, PowersGrow
<1>5. /\ Number!TwoTo(IntBits) = 2 * Number!TwoTo(IntBits - 1)
      /\ Number!TwoTo(Bits) = 2 * Number!TwoTo(Bits - 1)
  BY <1>1, TwoToIs
<1>6. /\ Number!Lowest["Int"] = -Number!TwoTo(IntBits - 1)
      /\ Number!Highest["Int"] = Number!TwoTo(IntBits - 1) - 1
      /\ Number!Lowest["UInt"] = 0
      /\ Number!Highest["UInt"] = Number!TwoTo(IntBits) - 1
      /\ Number!Lowest["Int64"] = -Number!TwoTo(Bits - 1)
      /\ Number!Highest["Int64"] = Number!TwoTo(Bits - 1) - 1
      /\ Number!Lowest["UInt64"] = 0
      /\ Number!Highest["UInt64"] = Number!TwoTo(Bits) - 1
  BY DEF Number!Lowest, Number!Highest, Number!Types
<1>7. QED
  BY <1>3, <1>4, <1>5, <1>6

Token == [neg : BOOLEAN, digits : Seq(Digit), half : BOOLEAN]

(* The integers a text with this sign is read as.                          *)
Integers64(neg) ==
    (IF neg THEN Number!Lowest["Int64"] ELSE 0) .. Number!Highest["UInt64"]

(* decodeNumber: the integer the text says, or the nearest double.         *)
LEMMA Decodes ==
    ASSUME Number!NumberAssumption, NEW t \in Token
    PROVE  /\ Number!Exact(t) \in Int
           /\ IF ~t.half /\ Number!Exact(t) \div 2 \in Integers64(t.neg)
              THEN /\ Number!decodeNumber(t).kind \in {"int", "uint"}
                   /\ Number!decodeNumber(t).twice = Number!Exact(t)
                   /\ Number!Exact(t) % 2 = 0
              ELSE Number!decodeNumber(t) = Number!Number("real", Number!Double(Number!Exact(t)))
<1> DEFINE p == Number!TwoTo(Bits - 1)
           n == Number!Says(t.digits)
           limit == IF t.neg THEN p ELSE 2 * p - 1
           value == Number!DecodeDigits(t.digits, limit)
           e == Number!Exact(t)
           v == Number!decodeNumber(t)
<1>1. /\ t.digits \in Seq(Digit) /\ t.neg \in BOOLEAN /\ t.half \in BOOLEAN
  BY DEF Token
<1>2. /\ p \in Nat /\ p >= 16
      /\ Number!Lowest["Int64"] = -p /\ Number!Highest["Int64"] = p - 1
      /\ Number!Highest["UInt64"] = 2 * p - 1
  BY LimitsAre
<1>3. e = IF t.neg THEN -(2 * n + (IF t.half THEN 1 ELSE 0)) ELSE 2 * n + (IF t.half THEN 1 ELSE 0)
  BY DEF Number!Exact
<1>4. v = IF t.half \/ value = -1 THEN Number!decodeDouble(e)
          ELSE IF t.neg THEN Number!Number("int", -2 * value)
          ELSE Number!Number(IF value <= Number!Highest["Int"] THEN "int" ELSE "uint", 2 * value)
  <2>1. (IF t.neg THEN Number!Highest["Int64"] + 1 ELSE Number!Highest["UInt64"]) = limit
    BY <1>2
  <2>2. QED
    BY <2>1 DEF Number!decodeNumber
<1> HIDE DEF p, e, v
<1>5. limit \in Nat /\ limit >= 10
  BY <1>2
<1> HIDE DEF limit
<1>6. n \in Nat /\ value = IF n <= limit THEN n ELSE -1
  BY <1>1, <1>5, DigitsAreExact
<1> HIDE DEF n, value
<1>7. e \in Int
  BY <1>1, <1>3, <1>6
<1>8. CASE t.half
  BY <1>4, <1>7, <1>8 DEF Number!decodeDouble, v, e
<1>9. CASE ~t.half /\ n <= limit
  <2>1. value = n /\ value # -1
    BY <1>6, <1>9
  <2>2. CASE t.neg
    <3>1. v = Number!Number("int", -2 * n) /\ e = -(2 * n) /\ n <= p
      BY <1>3, <1>4, <1>6, <1>9, <2>1, <2>2 DEF limit
    <3>2. v.kind = "int" /\ v.twice = e
      <4>1. -2 * n = -(2 * n)
        BY <1>6
      <4>2. QED
        BY <3>1, <4>1 DEF Number!Number
    <3>3. e % 2 = 0 /\ e \div 2 = -n
      BY <1>6, <3>1, SMT
    <3>4. e \div 2 \in Integers64(t.neg)
      BY <1>2, <1>6, <2>2, <3>1, <3>3 DEF Integers64
    <3>5. QED
      BY <1>7, <1>9, <3>2, <3>3, <3>4 DEF v, e
  <2>3. CASE ~t.neg
    <3>1. PICK kind \in {"int", "uint"} : v = Number!Number(kind, 2 * n)
      BY <1>4, <1>9, <2>1, <2>3
    <3>2. v.kind \in {"int", "uint"} /\ v.twice = 2 * n /\ e = 2 * n
      BY <1>3, <1>6, <1>9, <2>3, <3>1 DEF Number!Number
    <3>3. e % 2 = 0 /\ e \div 2 = n
      BY <1>6, <3>2, SMT
    <3>4. e \div 2 \in Integers64(t.neg)
      BY <1>2, <1>6, <1>9, <2>3, <3>3 DEF Integers64, limit
    <3>5. QED
      BY <1>7, <1>9, <3>2, <3>3, <3>4 DEF v, e
  <2>4. QED
    BY <2>2, <2>3
<1>10. CASE ~t.half /\ ~ (n <= limit)
  <2>1. v = Number!Number("real", Number!Double(e))
    BY <1>4, <1>6, <1>10 DEF Number!decodeDouble
  <2>2. e \div 2 \notin Integers64(t.neg)
    <3>1. CASE t.neg
      <4>1. e = -(2 * n) /\ p < n
        BY <1>2, <1>3, <1>6, <1>10, <3>1 DEF limit
      <4>2. e \div 2 = -n
        BY <1>6, <4>1, SMT
      <4>3. QED
        BY <1>2, <1>6, <3>1, <4>1, <4>2 DEF Integers64
    <3>2. CASE ~t.neg
      <4>1. e = 2 * n /\ 2 * p - 1 < n
        BY <1>2, <1>3, <1>6, <1>10, <3>2 DEF limit
      <4>2. e \div 2 = n
        BY <1>6, <4>1, SMT
      <4>3. QED
        BY <1>2, <1>6, <3>2, <4>1, <4>2 DEF Integers64
    <3>3. QED
      BY <3>1, <3>2
  <2>3. QED
    BY <1>7, <1>10, <2>1, <2>2 DEF v, e
<1>11. QED
  BY <1>8, <1>9, <1>10

(* A limit of the wide types is rounded up to the power of two above it.   *)
LEMMA RoundsUp ==
    ASSUME Number!NumberAssumption, NEW b \in Nat, b >= Mantissa + 2
    PROVE  /\ Number!TwoTo(b) - 2 \in Nat
           /\ Number!Rounded(Number!TwoTo(b) - 2) = Number!TwoTo(b)
<1> DEFINE m == Number!TwoTo(b) - 2
           s == Number!TwoTo(b - Mantissa)
           top == Number!TwoTo(Mantissa)
           half == Number!TwoTo(Mantissa - 1)
<1>1. /\ Mantissa \in Nat /\ Mantissa - 1 \in Nat /\ (Mantissa - 1) + 1 = Mantissa
      /\ b - Mantissa \in Nat /\ 2 <= b - Mantissa /\ (b - Mantissa) + Mantissa = b
      /\ b - 1 \in Nat /\ 1 <= b - 1 /\ (b - 1) + 1 = b
  BY DEF Number!NumberAssumption
<1>2. Number!TwoTo(1) = 2 /\ Number!TwoTo(2) = 4
  <2>1. Number!TwoTo(0 + 1) = 2
    BY TwoToIs
  <2>2. Number!TwoTo(1 + 1) = 4
    BY <2>1, TwoToIs
  <2>3. QED
    BY <2>1, <2>2
<1>3. s \in Nat /\ s >= 4 /\ half \in Nat \ {0} /\ top = 2 * half
  <2>1. s \in Nat /\ half \in Nat \ {0} /\ top = 2 * half
    BY <1>1, Powers, TwoToIs
  <2>2. Number!TwoTo(2) <= s
    BY <1>1, PowersGrow
  <2>3. QED
    BY <1>2, <2>1, <2>2
<1>4. Number!TwoTo(b) = s * top
  <2> HIDE DEF m
  <2>1. QED
    BY <1>1, Powers
<1>5. Number!BitsOf(m) = b /\ m \in Nat
  <2>1. Number!TwoTo(b) = 2 * Number!TwoTo(b - 1) /\ Number!TwoTo(b - 1) \in Nat
        /\ Number!TwoTo(1) <= Number!TwoTo(b - 1)
    BY <1>1, TwoToIs, PowersGrow
  <2>2. m \in Nat /\ m < Number!TwoTo(b) /\ m >= Number!TwoTo(b - 1)
    BY <1>2, <2>1
  <2> HIDE DEF m
  <2>3. Number!BitsOf(m) <= b /\ Number!BitsOf(m) >= (b - 1) + 1 /\ Number!BitsOf(m) \in Nat
    BY <1>1, <2>2, BitsBound, BitsAre
  <2>4. QED
    BY <1>1, <2>2, <2>3
<1>6. Number!Rounded(m) = Number!NearestMultiple(m, s)
  <2>1. ~ (b <= Mantissa)
    BY <1>1
  <2> HIDE DEF m
  <2>2. QED
    BY <1>5, <2>1 DEF Number!Rounded
<1> DEFINE q == top - 1
           r == s - 2
<1>7. m = s * q + r
  <2> HIDE DEF s, top
  <2>1. s * (top - 1) = s * top - s /\ s * top \in Nat
    BY <1>3, SMT
  <2>2. QED
    BY <1>3, <1>4, <2>1
<1>8. q \in Nat /\ r \in 0 .. s - 1 /\ s \in Nat \ {0} /\ q + 1 = top
  BY <1>3
<1>9. q % 2 = 1
  <2>1. q = 2 * (half - 1) + 1 /\ half - 1 \in Nat
    BY <1>3
  <2> HIDE DEF q, half
  <2>2. QED
    BY <2>1, SMT
<1>10. 2 * r > s \/ 2 * r = s
  BY <1>3
<1> HIDE DEF q, r, m, s, top
<1>11. m \div s = q /\ m % s = r
  BY <1>7, <1>8, DivUnique
<1>12. Number!NearestMultiple(m, s) = s * (q + 1)
  <2>1. Number!NearestMultiple(m, s) =
           s * (IF 2 * r > s \/ (2 * r = s /\ q % 2 = 1) THEN q + 1 ELSE q)
    BY <1>11 DEF Number!NearestMultiple
  <2>2. QED
    BY <1>9, <1>10, <2>1
<1>13. QED
  BY <1>4, <1>5, <1>6, <1>8, <1>12 DEF m

(* The limits as doubles: those of 32 bits as they are, of 64 bits the     *)
(* lower one as it is and the upper one as the next power of two.          *)
LEMMA DoubleLimits ==
    ASSUME Number!NumberAssumption, NEW t \in Number!Types
    PROVE  /\ Number!Lowest[t] \in Int /\ Number!Highest[t] \in Int
           /\ Number!Lowest[t] <= 0 /\ 0 <= Number!Highest[t]
           /\ Number!Double(2 * Number!Lowest[t]) = 2 * Number!Lowest[t]
           /\ Number!Double(2 * Number!Highest[t]) =
                 IF Number!Wide(t) THEN 2 * Number!Highest[t] + 2 ELSE 2 * Number!Highest[t]
<1> DEFINE a == Number!TwoTo(IntBits - 1)
           p == Number!TwoTo(Bits - 1)
<1>1. /\ a \in Nat \ {0} /\ p \in Nat /\ p >= 16
      /\ Number!Lowest["Int"] = -a /\ Number!Highest["Int"] = a - 1
      /\ Number!Lowest["UInt"] = 0 /\ Number!Highest["UInt"] = 2 * a - 1
      /\ Number!Lowest["Int64"] = -p /\ Number!Highest["Int64"] = p - 1
      /\ Number!Lowest["UInt64"] = 0 /\ Number!Highest["UInt64"] = 2 * p - 1
  BY LimitsAre
<1>2. ASSUME NEW m \in Nat, m <= Number!TwoTo(Mantissa) PROVE Number!Rounded(m) = m
  <2>1. Number!TwoTo(0) * m = m
    BY TwoToIs
  <2>2. QED
    BY <1>2, <2>1, DoubleHolds
<1>3. ASSUME NEW m \in Nat, m <= 4 * a - 2 PROVE Number!Rounded(m) = m
  <2>1. /\ IntBits - 1 \in Nat /\ (IntBits - 1) + 1 = IntBits /\ IntBits \in Nat
        /\ IntBits + 1 \in Nat /\ IntBits + 1 <= Mantissa /\ Mantissa \in Nat
    BY DEF Number!NumberAssumption
  <2>2. Number!TwoTo(IntBits) = 2 * a /\ Number!TwoTo(IntBits + 1) = 2 * Number!TwoTo(IntBits)
    BY <2>1, TwoToIs
  <2>3. Number!TwoTo(IntBits + 1) <= Number!TwoTo(Mantissa) /\ Number!TwoTo(Mantissa) \in Nat
    BY <2>1, PowersGrow, TwoToIs
  <2>4. m <= Number!TwoTo(Mantissa)
    BY <1>1, <1>3, <2>2, <2>3
  <2>5. QED
    BY <1>2, <2>4
<1>4. /\ Bits - 1 \in Nat /\ Bits \in Nat /\ Bits >= Mantissa + 2
      /\ Bits + 1 \in Nat /\ Bits + 1 >= Mantissa + 2 /\ (Bits - 1) + 1 = Bits
  BY DEF Number!NumberAssumption
<1>5. Number!TwoTo(Bits) = 2 * p /\ Number!TwoTo(Bits + 1) = 4 * p
  <2>1. Number!TwoTo((Bits - 1) + 1) = 2 * p /\ Number!TwoTo(Bits + 1) = 2 * Number!TwoTo(Bits)
    BY <1>4, TwoToIs
  <2>2. QED
    BY <1>1, <1>4, <2>1
<1>6. Number!Rounded(2 * p) = 2 * p
  <2>1. 1 <= Number!TwoTo(Mantissa)
    BY Powers DEF Number!NumberAssumption
  <2>2. Number!Rounded(Number!TwoTo(Bits) * 1) = Number!TwoTo(Bits) * 1
    BY <1>4, <2>1, DoubleHolds
  <2>3. Number!TwoTo(Bits) * 1 = 2 * p
    BY <1>1, <1>5
  <2>4. QED
    BY <2>2, <2>3
<1>7. Number!Rounded(2 * p - 2) = 2 * p /\ Number!Rounded(4 * p - 2) = 4 * p
  BY <1>4, <1>5, RoundsUp
<1> HIDE DEF a, p
<1>8. CASE t = "Int"
  <2>1. Number!Double(2 * (-a)) = 2 * (-a)
    <3>1. 2 * (-a) < 0 /\ -(2 * (-a)) = 2 * a /\ 2 * a \in Nat /\ 2 * a <= 4 * a - 2
      BY <1>1
    <3>2. Number!Rounded(2 * a) = 2 * a
      BY <1>3, <3>1
    <3>3. QED
      BY <1>1, <3>1, <3>2 DEF Number!Double
  <2>2. Number!Double(2 * (a - 1)) = 2 * (a - 1)
    <3>1. ~ (2 * (a - 1) < 0) /\ 2 * (a - 1) \in Nat /\ 2 * (a - 1) <= 4 * a - 2
      BY <1>1
    <3>2. QED
      BY <1>3, <3>1 DEF Number!Double
  <2>3. ~Number!Wide(t)
    BY <1>8 DEF Number!Wide
  <2>4. QED
    BY <1>1, <1>8, <2>1, <2>2, <2>3
<1>9. Number!Double(2 * 0) = 2 * 0
  <2>1. ~ (2 * 0 < 0) /\ 2 * 0 \in Nat /\ 2 * 0 <= 4 * a - 2
    BY <1>1
  <2>2. QED
    BY <1>3, <2>1 DEF Number!Double
<1>10. CASE t = "UInt"
  <2>1. Number!Double(2 * (2 * a - 1)) = 2 * (2 * a - 1)
    <3>1. ~ (2 * (2 * a - 1) < 0) /\ 2 * (2 * a - 1) \in Nat /\ 2 * (2 * a - 1) <= 4 * a - 2
      BY <1>1
    <3>2. QED
      BY <1>3, <3>1 DEF Number!Double
  <2>2. ~Number!Wide(t)
    BY <1>10 DEF Number!Wide
  <2>3. QED
    BY <1>1, <1>9, <1>10, <2>1, <2>2
<1>11. CASE t = "Int64"
  <2>1. Number!Double(2 * (-p)) = 2 * (-p)
    <3>1. 2 * (-p) < 0 /\ -(2 * (-p)) = 2 * p /\ 2 * p \in Nat
      BY <1>1
    <3>2. QED
      BY <1>1, <1>6, <3>1 DEF Number!Double
  <2>2. Number!Double(2 * (p - 1)) = 2 * (p - 1) + 2
    <3>1. ~ (2 * (p - 1) < 0) /\ 2 * (p - 1) = 2 * p - 2 /\ 2 * (p - 1) + 2 = 2 * p
      BY <1>1
    <3>2. QED
      BY <1>7, <3>1 DEF Number!Double
  <2>3. Number!Wide(t)
    BY <1>11 DEF Number!Wide
  <2>4. QED
    BY <1>1, <1>11, <2>1, <2>2, <2>3
<1>12. CASE t = "UInt64"
  <2>1. Number!Double(2 * (2 * p - 1)) = 2 * (2 * p - 1) + 2
    <3>1. ~ (2 * (2 * p - 1) < 0) /\ 2 * (2 * p - 1) = 4 * p - 2 /\ 2 * (2 * p - 1) + 2 = 4 * p
      BY <1>1
    <3>2. QED
      BY <1>7, <3>1 DEF Number!Double
  <2>2. Number!Wide(t)
    BY <1>12 DEF Number!Wide
  <2>3. QED
    BY <1>1, <1>9, <1>12, <2>1, <2>2
<1>13. QED
  BY <1>8, <1>10, <1>11, <1>12 DEF Number!Types

(* Cutting a number of halves to an integer.                               *)
LEMMA TruncateIs ==
    ASSUME NEW h \in Int
    PROVE  /\ Number!Truncate(h) \in Int
           /\ h % 2 = 0 => Number!Truncate(h) = h \div 2 /\ 2 * Number!Truncate(h) = h
           /\ \A l, u \in Int : l <= 0 /\ 0 <= u /\ 2 * l <= h /\ h <= 2 * u + 1
                 => Number!Truncate(h) \in l .. u
<1>1. CASE h >= 0
  <2>1. h \div 2 \in Int /\ h % 2 \in {0, 1} /\ h = 2 * (h \div 2) + (h % 2)
    BY <1>1, SMT
  <2>2. Number!Truncate(h) = h \div 2
    BY <1>1 DEF Number!Truncate
  <2> DEFINE q == h \div 2
             r == h % 2
  <2> HIDE DEF q, r
  <2>3. q \in Int /\ r \in {0, 1} /\ h = 2 * q + r /\ Number!Truncate(h) = q
    BY <2>1, <2>2 DEF q, r
  <2>4. QED
    BY <1>1, <2>3 DEF q, r
<1>2. CASE h < 0
  <2> DEFINE g == -h
  <2>1. g \in Nat /\ h = -g
    BY <1>2
  <2>2. Number!Truncate(h) = -(g \div 2)
    BY <1>2 DEF Number!Truncate
  <2> HIDE DEF g
  <2>3. g \div 2 \in Nat /\ g % 2 \in {0, 1} /\ g = 2 * (g \div 2) + (g % 2)
    BY <2>1, SMT
  <2>4. h % 2 = 0 => g % 2 = 0 /\ h \div 2 = -(g \div 2)
    BY <2>1, SMT
  <2> DEFINE q == g \div 2
             r == g % 2
  <2> HIDE DEF q, r
  <2>5. q \in Nat /\ r \in {0, 1} /\ g = 2 * q + r /\ Number!Truncate(h) = -q
        /\ (h % 2 = 0 => r = 0 /\ h \div 2 = -q)
    BY <2>2, <2>3, <2>4 DEF q, r
  <2>6. QED
    BY <2>1, <2>5
<1>3. QED
  BY <1>1, <1>2

(* The conversions of an integer.                                          *)
LEMMA ConvertsIntegers ==
    ASSUME Number!NumberAssumption, NEW t \in Number!Types, NEW v,
           v.kind \in {"int", "uint"}, v.twice \in Int, v.twice % 2 = 0
    PROVE  /\ Number!Is(t, v) => /\ Number!IsIntegral(v.twice)
                                 /\ Number!As(t, v) = {v.twice \div 2}
           /\ Number!As(t, v) \subseteq {Number!Truncate(v.twice)}
           /\ Number!isConvertibleTo(t, v) <=> Number!As(t, v) # {}
<1> DEFINE h == v.twice
<1>1. v.kind # "real" /\ h \in Int /\ h % 2 = 0
  OBVIOUS
<1>2. Number!Truncate(h) = h \div 2
  BY <1>1, TruncateIs
<1>3. Number!Is(t, v) <=> Number!Truncate(h) \in Number!Lowest[t] .. Number!Highest[t]
  BY <1>1, <1>2 DEF Number!Is
<1>4. Number!As(t, v) = IF Number!Is(t, v) THEN {Number!Truncate(h)} ELSE {}
  BY <1>1, <1>3 DEF Number!As, Number!Cast
<1>5. Number!isConvertibleTo(t, v) <=> Number!Is(t, v)
  BY <1>1 DEF Number!isConvertibleTo
<1>6. Number!IsIntegral(h)
  BY <1>1 DEF Number!IsIntegral
<1> HIDE DEF h
<1>7. QED
  BY <1>2, <1>4, <1>5, <1>6 DEF h

(* The conversions of a double.                                            *)
LEMMA ConvertsDoubles ==
    ASSUME Number!NumberAssumption, NEW t \in Number!Types, NEW h \in Int
    PROVE  LET v == Number!Number("real", h)
           IN  /\ Number!Is(t, v) => /\ Number!IsIntegral(h)
                                     /\ Number!As(t, v) = {h \div 2}
               /\ \/ Number!As(t, v) \subseteq {Number!Truncate(h)}
                  \/ Number!Wide(t) /\ h = 2 * Number!Highest[t] + 2
               /\ ~Number!Wide(t) => (Number!isConvertibleTo(t, v) <=> Number!As(t, v) # {})
<1> DEFINE v == Number!Number("real", h)
           l == Number!Lowest[t]
           u == Number!Highest[t]
           top == IF Number!Wide(t) THEN 2 * u + 2 ELSE 2 * u
<1>1. v.kind = "real" /\ v.twice = h
  BY DEF Number!Number
<1>2. /\ l \in Int /\ u \in Int /\ l <= 0 /\ 0 <= u
      /\ Number!Double(2 * l) = 2 * l /\ Number!Double(2 * u) = top
  BY DoubleLimits
<1>3. Number!InRange(t, v) <=> 2 * l <= h /\ h <= top
  BY <1>1, <1>2 DEF Number!InRange
<1>4. Number!Is(t, v) <=> /\ Number!IsIntegral(h)
                          /\ h >= 2 * l
                          /\ IF Number!Wide(t) THEN h < top ELSE h <= top
  BY <1>1, <1>2 DEF Number!Is
<1>5. Number!As(t, v) = IF Number!InRange(t, v) THEN Number!Cast(t, h) ELSE {}
  BY <1>1 DEF Number!As
<1>6. Number!Cast(t, h) = IF Number!Truncate(h) \in l .. u THEN {Number!Truncate(h)} ELSE l .. u
  BY DEF Number!Cast
<1>7. Number!isConvertibleTo(t, v) <=> Number!Is(t, v) \/ Number!InRange(t, v)
  BY <1>1 DEF Number!isConvertibleTo
<1> HIDE DEF v, l, u
<1>8. ASSUME 2 * l <= h, h <= 2 * u + 1 PROVE Number!Cast(t, h) = {Number!Truncate(h)}
  <2>1. Number!Truncate(h) \in l .. u
    BY <1>2, <1>8, TruncateIs
  <2>2. QED
    BY <1>6, <2>1
<1>9. ASSUME Number!Is(t, v)
      PROVE  Number!IsIntegral(h) /\ Number!As(t, v) = {h \div 2} /\ Number!InRange(t, v)
  <2>1. Number!IsIntegral(h) /\ 2 * l <= h /\ h <= 2 * u + 1 /\ h <= top
    BY <1>2, <1>4, <1>9
  <2>2. Number!Truncate(h) = h \div 2
    BY <2>1, TruncateIs DEF Number!IsIntegral
  <2>3. Number!InRange(t, v)
    BY <1>3, <2>1
  <2>4. QED
    BY <1>5, <1>8, <2>1, <2>2, <2>3
<1>10. \/ Number!As(t, v) \subseteq {Number!Truncate(h)}
       \/ Number!Wide(t) /\ h = 2 * u + 2
  <2>1. CASE ~Number!InRange(t, v)
    BY <1>5, <2>1
  <2>2. CASE Number!InRange(t, v) /\ h <= 2 * u + 1
    BY <1>3, <1>5, <1>8, <2>2
  <2>3. CASE Number!InRange(t, v) /\ ~ (h <= 2 * u + 1)
    BY <1>2, <1>3, <2>3
  <2>4. QED
    BY <2>1, <2>2, <2>3
<1>11. ASSUME ~Number!Wide(t)
       PROVE  Number!isConvertibleTo(t, v) <=> Number!As(t, v) # {}
  <2>1. Number!InRange(t, v) => 2 * l <= h /\ h <= 2 * u + 1
    BY <1>2, <1>3, <1>11
  <2>2. Number!InRange(t, v) => Number!As(t, v) # {}
    BY <1>5, <1>8, <2>1
  <2>3. QED
    BY <1>5, <1>7, <1>9, <2>2
<1>12. QED
  BY <1>9, <1>10, <1>11 DEF v, u

(* What valueToString prints says what is printed.                         *)
LEMMA PrintedExactly ==
    ASSUME NEW v, v.twice \in Int
    PROVE  /\ Number!valueToString(v) \in Token
           /\ Number!Exact(Number!valueToString(v)) = v.twice
           /\ v.twice % 2 = 0 => ~Number!valueToString(v).half
<1> DEFINE h == v.twice
           m == IF h < 0 THEN -h ELSE h
           w == Number!valueToString(v)
<1>1. m \in Nat
  OBVIOUS
<1>2. /\ m \div 2 \in Nat /\ m % 2 \in {0, 1} /\ m = 2 * (m \div 2) + (m % 2)
      /\ m % 2 = 0 <=> h % 2 = 0
  <2>1. m \div 2 \in Nat /\ m % 2 \in {0, 1} /\ m = 2 * (m \div 2) + (m % 2)
    <3> HIDE DEF m
    <3>1. QED
      BY <1>1, SMT
  <2>2. m % 2 = 0 <=> h % 2 = 0
    <3> HIDE DEF h
    <3>1. h \in Int
      BY DEF h
    <3>2. QED
      BY <3>1, SMT
  <2>3. QED
    BY <2>1, <2>2
<1>3. w = [neg |-> h < 0, digits |-> Number!uintToString(m \div 2), half |-> h % 2 # 0]
  BY DEF Number!valueToString, Number!Magnitude, Number!IsIntegral
<1>4. /\ Number!uintToString(m \div 2) \in Seq(Digit)
      /\ Number!Says(Number!uintToString(m \div 2)) = m \div 2
  BY <1>2, PrintedSays
<1> DEFINE q == m \div 2
           r == m % 2
<1>5. w \in Token
  BY <1>3, <1>4 DEF Token
<1>6. Number!Exact(w) = IF h < 0 THEN -(2 * q + (IF h % 2 # 0 THEN 1 ELSE 0))
                                 ELSE 2 * q + (IF h % 2 # 0 THEN 1 ELSE 0)
  <2>1. w.neg = (h < 0) /\ w.half = (h % 2 # 0) /\ Number!Says(w.digits) = q
    BY <1>3, <1>4
  <2> HIDE DEF w, q, h
  <2>2. QED
    BY <2>1 DEF Number!Exact
<1>7. w.half = (h % 2 # 0)
  BY <1>3
<1> HIDE DEF w, q, r
<1>8. q \in Nat /\ r \in {0, 1} /\ m = 2 * q + r /\ (r = 0 <=> h % 2 = 0)
  BY <1>2 DEF q, r
<1>9. Number!Exact(w) = h
  <2>1. (IF h % 2 # 0 THEN 1 ELSE 0) = r
    BY <1>8
  <2>2. Number!Exact(w) = IF h < 0 THEN -(2 * q + r) ELSE 2 * q + r
    BY <1>6, <2>1
  <2>3. QED
    BY <1>8, <2>2
<1> HIDE DEF h
<1>10. w \in Token /\ Number!Exact(w) = h /\ (h % 2 = 0 => ~w.half)
  BY <1>5, <1>7, <1>9
<1>11. QED
  BY <1>10 DEF w, h

(* And is read as the same number again.                                   *)
LEMMA ComesBack ==
    ASSUME Number!NumberAssumption, NEW t \in Token
    PROVE  LET v == Number!decodeNumber(t)
           IN  Number!decodeNumber(Number!valueToString(v)).twice = v.twice
<1> DEFINE v == Number!decodeNumber(t)
           w == Number!valueToString(v)
           e == Number!Exact(t)
<1>1. e \in Int
  BY Decodes
<1>2. CASE ~t.half /\ e \div 2 \in Integers64(t.neg)
  <2>1. v.twice = e /\ e % 2 = 0
    BY <1>2, Decodes
  <2> HIDE DEF v
  <2>2. w \in Token /\ Number!Exact(w) = e /\ ~w.half
    BY <1>1, <2>1, PrintedExactly
  <2>3. e \div 2 \in Integers64(w.neg)
    <3>1. w.neg <=> e < 0
      BY <2>1 DEF Number!valueToString
    <3> HIDE DEF w, e
    <3>2. CASE e < 0
      <4>1. t.neg
        <5>1. e \div 2 < 0
          BY <1>1, <3>2, SMT
        <5>2. e \div 2 \in Int /\ t.neg \in BOOLEAN
          BY <1>1, SMT DEF Token
        <5>3. QED
          BY <1>2, <5>1, <5>2 DEF Integers64
      <4>2. QED
        BY <1>2, <3>1, <3>2, <4>1
    <3>3. CASE ~ (e < 0)
      <4>1. e \div 2 \in Int /\ 0 <= e \div 2
        BY <1>1, <3>3, SMT
      <4>2. Number!Highest["UInt64"] \in Int
        BY LimitsAre
      <4>3. e \div 2 <= Number!Highest["UInt64"]
        BY <1>2, <4>1, <4>2 DEF Integers64
      <4>4. e \div 2 \in 0 .. Number!Highest["UInt64"]
        BY <4>1, <4>2, <4>3
      <4>5. ~w.neg
        BY <3>1, <3>3
      <4>6. QED
        BY <4>4, <4>5 DEF Integers64
    <3>4. QED
      BY <3>2, <3>3
  <2> HIDE DEF w, e
  <2>4. Number!decodeNumber(w).twice = e
    BY <2>2, <2>3, Decodes
  <2>5. QED
    BY <2>1, <2>4 DEF v, w
<1>3. CASE ~ (~t.half /\ e \div 2 \in Integers64(t.neg))
  <2>1. v = Number!Number("real", Number!Double(e))
    BY <1>3, Decodes
  <2>2. v.twice = Number!Double(e) /\ v.twice \in Int /\ Number!Double(v.twice) = v.twice
    BY <1>1, <2>1, DoubleIs DEF Number!Number
  <2> HIDE DEF v
  <2>3. w \in Token /\ Number!Exact(w) = v.twice
    BY <2>2, PrintedExactly
  <2> HIDE DEF w
  <2>4. \/ Number!decodeNumber(w).twice = Number!Exact(w)
        \/ Number!decodeNumber(w) = Number!Number("real", Number!Double(Number!Exact(w)))
    BY <2>3, Decodes
  <2>5. Number!decodeNumber(w).twice = v.twice
    BY <2>2, <2>3, <2>4 DEF Number!Number
  <2>6. QED
    BY <2>5 DEF v, w
<1>4. QED
  BY <1>2, <1>3

LEMMA NumberTyped == Number!Spec => [](number \in Token)
<1>1. Number!Init => number \in Token
  BY DEF Number!Init, Token
<1>2. number \in Token /\ [Number!Next]_number => number' \in Token
  <2> SUFFICES ASSUME number \in Token, [Number!Next]_number PROVE number' \in Token
    OBVIOUS
  <2>1. CASE Number!TypeMinus
    BY <2>1 DEF Number!TypeMinus, Token
  <2>2. ASSUME NEW d \in 0 .. 9, Number!TypeDigit(d) PROVE number' \in Token
    <3>1. number.digits \in Seq(Digit) /\ d \in Digit
      BY DEF Token, Digit
    <3>2. Append(number.digits, d) \in Seq(Digit)
      BY <3>1
    <3>3. QED
      BY <2>2, <3>2 DEF Number!TypeDigit, Token
  <2>3. CASE Number!TypeHalf
    BY <2>3 DEF Number!TypeHalf, Token
  <2>4. QED
    BY <2>1, <2>2, <2>3 DEF Number!Next
<1>3. (number \in Token)' <=> number' \in Token
  BY DEF Token, Digit
<1>4. QED
  BY <1>1, <1>2, <1>3, PTL DEF Number!Spec

(* A number of JSON, of any length, is read as the integer it says where   *)
(* 64 bits hold it and as the nearest double elsewhere; what is said to be *)
(* possible to convert converts exactly, but for the one double that       *)
(* asInt64 and asUInt64 let by; and the number is printed so that it is    *)
(* read again (decodeNumber, isInt ... asUInt64, valueToString).           *)
THEOREM NumbersAreRead == Number!NumberAssumption /\ Number!Spec => []NumbersAreExact
<1>1. ASSUME Number!NumberAssumption, number \in Token PROVE NumbersAreExact
  <2> DEFINE v == Number!decodeNumber(number)
             e == Number!Exact(number)
  <2>1. Number!DecodedExactly
    <3>1. Integers64(number.neg) =
             (IF number.neg THEN Number!Lowest["Int64"] ELSE 0) .. Number!Highest["UInt64"]
      BY DEF Integers64
    <3>2. IF ~number.half /\ e \div 2 \in Integers64(number.neg)
          THEN v.twice = e /\ v.kind \in {"int", "uint"}
          ELSE v = Number!Number("real", Number!Double(e))
      BY <1>1, Decodes
    <3>3. QED
      BY <3>1, <3>2 DEF Number!DecodedExactly
  <2>2. Number!ConversionsAgree
    <3>1. e \in Int /\ Number!Double(e) \in Int
      BY <1>1, Decodes, DoubleIs
    <3>2. CASE v.kind \in {"int", "uint"} /\ v.twice = e /\ e % 2 = 0
      <4> HIDE DEF v
      <4>1. \A t \in Number!Types :
               /\ Number!Is(t, v) => /\ Number!IsIntegral(v.twice)
                                     /\ Number!As(t, v) = {v.twice \div 2}
               /\ Number!As(t, v) \subseteq {Number!Truncate(v.twice)}
               /\ Number!isConvertibleTo(t, v) <=> Number!As(t, v) # {}
        BY <1>1, <3>1, <3>2, ConvertsIntegers
      <4>2. QED
        BY <4>1 DEF Number!ConversionsAgree, v
    <3>3. CASE v = Number!Number("real", Number!Double(e))
      <4> DEFINE h == Number!Double(e)
      <4>1. v = Number!Number("real", h) /\ v.twice = h
        BY <3>3 DEF Number!Number
      <4> HIDE DEF v, h
      <4>2. ASSUME NEW t \in Number!Types
            PROVE  /\ Number!Is(t, v) => /\ Number!IsIntegral(v.twice)
                                         /\ Number!As(t, v) = {v.twice \div 2}
                   /\ \/ Number!As(t, v) \subseteq {Number!Truncate(v.twice)}
                      \/ /\ Number!Wide(t)
                         /\ v = Number!Number("real", 2 * Number!Highest[t] + 2)
                   /\ ~Number!Wide(t) =>
                         (Number!isConvertibleTo(t, v) <=> Number!As(t, v) # {})
        <5>1. h \in Int
          BY <3>1 DEF h
        <5>2. /\ Number!Is(t, v) => /\ Number!IsIntegral(h)
                                    /\ Number!As(t, v) = {h \div 2}
              /\ \/ Number!As(t, v) \subseteq {Number!Truncate(h)}
                 \/ Number!Wide(t) /\ h = 2 * Number!Highest[t] + 2
              /\ ~Number!Wide(t) =>
                    (Number!isConvertibleTo(t, v) <=> Number!As(t, v) # {})
          BY <1>1, <4>1, <5>1, ConvertsDoubles
        <5>3. QED
          BY <4>1, <5>2
      <4>3. QED
        BY <4>2 DEF Number!ConversionsAgree, v
    <3>4. QED
      BY <1>1, <3>2, <3>3, Decodes
  <2>3. Number!NumberComesBack
    BY <1>1, ComesBack DEF Number!NumberComesBack
  <2>4. QED
    BY <2>1, <2>2, <2>3 DEF NumbersAreExact, Number!NumbersAreExact
<1>2. Number!NumberAssumption => Number!NumberAssumption'
  BY DEF Number!NumberAssumption
<1>3. QED
  BY <1>1, <1>2, NumberTyped, PTL

-----------------------------------------------------------------------------
(* JsonString.                                                             *)
Byte  == 0 .. 255
Piece == {String!Plain(b) : b \in Byte}
    \cup {String!Escape(c) : c \in Escapes \cup DOMAIN String!Unescaped}
    \cup {String!Unit(u) : u \in {u \in Nat : u <= 65535}}
Value == Seq(Byte) \cup {String!Failed}

(* The bytes codePointToUTF8 shifts and masks out of a code point are those*)
(* of its UTF-8, for every one of the 1114112.                             *)
THEOREM CodePointIsUtf8 ==
    ASSUME NEW cp \in Nat, cp <= 1114111
    PROVE  /\ String!codePointToUTF8(cp) = String!Utf8(cp)
           /\ String!codePointToUTF8(cp) \in Seq(Byte)
<1> DEFINE d0 == cp % 64
           d1 == (cp \div 64) % 64
           d2 == (cp \div 4096) % 64
           d3 == cp \div 262144
<1>1. d0 \in 0 .. 63 /\ d1 \in 0 .. 63 /\ d2 \in 0 .. 63 /\ d3 \in 0 .. 4
  BY SMT
<1>2. /\ String!Digits64(cp)[1] = d3 /\ String!Digits64(cp)[2] = d2
      /\ String!Digits64(cp)[3] = d1 /\ String!Digits64(cp)[4] = d0
      /\ String!Leads[2] = 192 /\ String!Leads[3] = 224 /\ String!Leads[4] = 240
  BY SMT DEF String!Digits64, String!Leads
<1>3. CASE cp <= 127
  <2>1. cp \in Byte /\ String!codePointToUTF8(cp) = <<cp>> /\ String!Utf8(cp) = <<cp>>
    BY <1>3, SMT DEF String!codePointToUTF8, String!Utf8, Byte
  <2>2. QED
    BY <2>1, SMT
<1>4. CASE 128 <= cp /\ cp <= 2047
  <2>1. (cp \div 64) % 32 = d1 /\ d1 \in 0 .. 31
    BY <1>4, SMT
  <2>2. String!codePointToUTF8(cp) = <<192 + d1, 128 + d0>>
    BY <1>4, <2>1, SMT DEF String!codePointToUTF8, String!Continuation
  <2>3. String!Utf8(cp) = String!InBytes(cp, 2)
    BY <1>4, SMT DEF String!Utf8
  <2> HIDE DEF d0, d1, d2, d3
  <2>4. String!Utf8(cp) = <<192 + d1, 128 + d0>>
    BY <1>1, <1>2, <2>3, SMT DEF String!InBytes
  <2>5. 192 + d1 \in Byte /\ 128 + d0 \in Byte
    BY <1>1, <2>1, SMT DEF Byte
  <2>6. QED
    BY <2>2, <2>4, <2>5, SMT
<1>5. CASE 2048 <= cp /\ cp <= 65535
  <2>1. (cp \div 4096) % 16 = d2 /\ d2 \in 0 .. 15
    BY <1>5, SMT
  <2>2. String!codePointToUTF8(cp) = <<224 + d2, 128 + d1, 128 + d0>>
    BY <1>5, <2>1, SMT DEF String!codePointToUTF8, String!Continuation
  <2>3. String!Utf8(cp) = String!InBytes(cp, 3)
    BY <1>5, SMT DEF String!Utf8
  <2> HIDE DEF d0, d1, d2, d3
  <2>4. String!Utf8(cp) = <<224 + d2, 128 + d1, 128 + d0>>
    BY <1>1, <1>2, <2>3, SMT DEF String!InBytes
  <2>5. 224 + d2 \in Byte /\ 128 + d1 \in Byte /\ 128 + d0 \in Byte
    BY <1>1, <2>1, SMT DEF Byte
  <2>6. QED
    BY <2>2, <2>4, <2>5, SMT
<1>6. CASE 65536 <= cp
  <2>1. (cp \div 262144) % 8 = d3 /\ d3 \in 0 .. 7
    BY <1>6, SMT
  <2>2. String!codePointToUTF8(cp) = <<240 + d3, 128 + d2, 128 + d1, 128 + d0>>
    BY <1>6, <2>1, SMT DEF String!codePointToUTF8, String!Continuation
  <2>3. String!Utf8(cp) = String!InBytes(cp, 4)
    BY <1>6, SMT DEF String!Utf8
  <2> HIDE DEF d0, d1, d2, d3
  <2>4. String!Utf8(cp) = <<240 + d3, 128 + d2, 128 + d1, 128 + d0>>
    BY <1>1, <1>2, <2>3, SMT DEF String!InBytes
  <2>5. 240 + d3 \in Byte /\ 128 + d2 \in Byte /\ 128 + d1 \in Byte /\ 128 + d0 \in Byte
    BY <1>1, <2>1, SMT DEF Byte
  <2>6. QED
    BY <2>2, <2>4, <2>5, SMT
<1>7. QED
  BY <1>3, <1>4, <1>5, <1>6, SMT

(* Down from the end: what holds of a place if it holds of all behind it.  *)
LEMMA Downwards ==
    ASSUME NEW n \in Nat, NEW T, n + 1 \in T,
           \A i \in 1 .. n : (\A j \in i + 1 .. n + 1 : j \in T) => i \in T
    PROVE  \A i \in 1 .. n + 1 : i \in T
<1> DEFINE Others == {k \in Nat : k <= n /\ n + 1 - k \notin T}
<1>1. ASSUME Others # {} PROVE FALSE
  <2>1. PICK k \in Others : \A l \in Others : k <= l
    BY <1>1, Least
  <2>2. k \in Nat /\ k <= n /\ k # 0 /\ n + 1 - k \notin T
    BY <2>1
  <2>3. n + 1 - k \in 1 .. n
    BY <2>2
  <2>4. ASSUME NEW j \in (n + 1 - k) + 1 .. n + 1 PROVE j \in T
    <3>1. n + 1 - j \in Nat /\ n + 1 - j <= n /\ ~ (k <= n + 1 - j)
      BY <2>2, <2>4
    <3>2. n + 1 - j \notin Others
      BY <2>1, <3>1
    <3>3. n + 1 - (n + 1 - j) = j
      BY <3>1
    <3>4. QED
      BY <3>1, <3>2, <3>3
  <2>5. QED
    BY <2>2, <2>3, <2>4
<1>2. ASSUME NEW i \in 1 .. n + 1 PROVE i \in T
  <2>1. n + 1 - i \in Nat /\ n + 1 - i <= n /\ n + 1 - (n + 1 - i) = i
    BY <1>2
  <2>2. QED
    BY <1>1, <2>1
<1>3. QED
  BY <1>2

(* The fields of a piece.                                                  *)
LEMMA PieceIs ==
    ASSUME NEW p \in Piece
    PROVE  \/ p.kind = "byte" /\ p.n \in Byte
           \/ p.kind = "escape"
           \/ p.kind = "unicode" /\ p.n \in Nat /\ p.n <= 65535
  BY DEF Piece, String!Plain, String!Escape, String!Unit

(* An error is no sequence of bytes.                                       *)
LEMMA FailedIsNone == String!Failed \notin Seq(Byte)
  BY DEF String!Failed, Byte

(* An escape stands for one byte.                                          *)
LEMMA UnescapedIs == \A c \in DOMAIN String!Unescaped : String!Unescaped[c] \in Byte
  BY DEF String!Unescaped, Byte

(* Two \u that make a pair give a code point.                              *)
LEMMA PairIs ==
    ASSUME NEW high \in Nat, NEW low \in Nat
    PROVE  String!Pair(high, low) \in Nat /\ String!Pair(high, low) <= 1114111
<1>1. high % 1024 \in 0 .. 1023 /\ low % 1024 \in 0 .. 1023
  BY SMT
<1>2. QED
  BY <1>1, SMT DEF String!Pair

(* And its bytes are bytes.                                                *)
LEMMA PairBytes ==
    ASSUME NEW high \in Nat, NEW low \in Nat
    PROVE  String!codePointToUTF8(String!Pair(high, low)) \in Seq(Byte)
<1> DEFINE cp == String!Pair(high, low)
<1>1. cp \in Nat /\ cp <= 1114111
  BY PairIs, SMT
<1> HIDE DEF cp
<1>2. String!codePointToUTF8(cp) \in Seq(Byte)
  BY <1>1, CodePointIsUtf8, SMT
<1>3. QED
  BY <1>2 DEF cp

(* Of two surrogates it is the one they stand for.                         *)
LEMMA PairOf ==
    ASSUME NEW high \in Nat, NEW low \in Nat, String!IsHigh(high), String!IsLow(low)
    PROVE  String!Pair(high, low) = 65536 + (high - 55296) * 1024 + (low - 56320)
<1>1. high % 1024 = high - 55296
  BY SMT DEF String!IsHigh
<1>2. low % 1024 = low - 56320
  BY SMT DEF String!IsLow
<1>3. QED
  BY <1>1, <1>2, SMT DEF String!Pair

(* One turn of decodeString gives bytes or fails, and it fails where the   *)
(* second half of a pair would stand behind the end.                       *)
LEMMA DecodedIs ==
    ASSUME NEW s \in Seq(Piece), NEW i \in 1 .. Len(s)
    PROVE  /\ String!Decoded(s, i) \in Value
           /\ String!Taken(s, i) \in {1, 2}
           /\ String!Taken(s, i) = 2 /\ i = Len(s) =>
                 String!Decoded(s, i) = String!Failed
<1>1. s[i] \in Piece
  OBVIOUS
<1>2. String!Taken(s, i) \in {1, 2} /\ (String!Taken(s, i) = 2 <=> String!StartsPair(s, i))
  BY DEF String!Taken
<1>3. CASE s[i].kind = "byte" /\ s[i].n \in Byte
  <2>1. String!Decoded(s, i) = <<s[i].n>> /\ ~String!StartsPair(s, i)
    BY <1>3 DEF String!Decoded, String!StartsPair
  <2>2. QED
    BY <1>2, <1>3, <2>1 DEF Value
<1>4. CASE s[i].kind = "escape"
  <2>1. ~String!StartsPair(s, i)
    BY <1>4 DEF String!StartsPair
  <2>2. String!Decoded(s, i) = IF s[i].n \in DOMAIN String!Unescaped
                               THEN <<String!Unescaped[s[i].n]>> ELSE String!Failed
    BY <1>4 DEF String!Decoded
  <2>3. QED
    BY <1>2, <2>1, <2>2, UnescapedIs DEF Value
<1>5. CASE s[i].kind = "unicode" /\ s[i].n \in Nat /\ s[i].n <= 65535
  <2>1. String!Decoded(s, i) = String!decodeUnicodeCodePoint(s, i)
    BY <1>5 DEF String!Decoded
  <2>2. CASE ~String!IsHigh(s[i].n)
    <3>1. String!Decoded(s, i) = String!codePointToUTF8(s[i].n) /\ ~String!StartsPair(s, i)
      BY <2>1, <2>2 DEF String!decodeUnicodeCodePoint, String!StartsPair
    <3>2. s[i].n <= 1114111
      BY <1>5, SMT
    <3>3. String!codePointToUTF8(s[i].n) \in Seq(Byte)
      BY <1>5, <3>2, CodePointIsUtf8
    <3>4. QED
      BY <1>2, <3>1, <3>3 DEF Value
  <2>3. CASE String!IsHigh(s[i].n) /\ i < Len(s) /\ s[i + 1].kind = "unicode"
    <3>1. String!Decoded(s, i) = String!codePointToUTF8(String!Pair(s[i].n, s[i + 1].n))
      BY <2>1, <2>3 DEF String!decodeUnicodeCodePoint
    <3>2. s[i + 1] \in Piece
      BY <2>3
    <3>3. s[i].n \in Nat /\ s[i + 1].n \in Nat
      BY <1>5, <2>3, <3>2, PieceIs
    <3>4. String!codePointToUTF8(String!Pair(s[i].n, s[i + 1].n)) \in Seq(Byte)
      BY <3>3, PairBytes
    <3>5. String!Decoded(s, i) \in Seq(Byte)
      BY <3>1, <3>4
    <3>6. QED
      BY <1>2, <2>3, <3>5 DEF Value
  <2>4. CASE String!IsHigh(s[i].n) /\ ~ (i < Len(s) /\ s[i + 1].kind = "unicode")
    <3>1. String!Decoded(s, i) = String!Failed
      BY <2>1, <2>4 DEF String!decodeUnicodeCodePoint
    <3>2. QED
      BY <1>2, <3>1 DEF Value
  <2>5. QED
    BY <2>2, <2>3, <2>4
<1>6. QED
  BY <1>1, <1>3, <1>4, <1>5, PieceIs

(* An error or bytes, with an error or bytes behind them.                  *)
LEMMA ThenIs ==
    ASSUME NEW a \in Value, NEW b \in Value
    PROVE  /\ String!Then(a, b) \in Value
           /\ a = String!Failed \/ b = String!Failed => String!Then(a, b) = String!Failed
           /\ a \in Seq(Byte) /\ b \in Seq(Byte) =>
                 String!Then(a, b) = a \o b /\ a \o b \in Seq(Byte)
<1>1. CASE a = String!Failed \/ b = String!Failed
  BY <1>1, FailedIsNone DEF String!Then, Value
<1>2. CASE a # String!Failed /\ b # String!Failed
  <2>1. a \in Seq(Byte) /\ b \in Seq(Byte)
    BY <1>2 DEF Value
  <2>2. String!Then(a, b) = a \o b
    BY <1>2 DEF String!Then
  <2>3. a \o b \in Seq(Byte)
    BY <2>1
  <2>4. QED
    BY <1>2, <2>1, <2>2, <2>3 DEF Value
<1>3. QED
  BY <1>1, <1>2

(* The turns of decodeString: what it makes of the pieces from each place  *)
(* on is what its turn there and the turns behind it make.                 *)
LEMMA DecodeIs ==
    ASSUME NEW s \in Seq(Piece)
    PROVE  \E h : /\ String!decodeString(s) = h[1]
                  /\ h[Len(s) + 1] = <<>>
                  /\ \A i \in 1 .. Len(s) :
                        h[i] = String!Then(String!Decoded(s, i), h[i + String!Taken(s, i)])
<1> DEFINE n == Len(s)
           F(h) == [i \in 1 .. n + 1 |->
                       IF i > n THEN <<>>
                       ELSE String!Then(String!Decoded(s, i), h[i + String!Taken(s, i)])]
           from == CHOOSE h : h = F(h)
           W == Value \X Value
           Turn(i, p) == <<String!Then(String!Decoded(s, i),
                                       IF String!Taken(s, i) = 2 THEN p[2] ELSE p[1]), p[1]>>
           step == [x \in (1 .. n) \X W |-> Turn(n + 1 - x[1], x[2])]
<1>1. n \in Nat /\ <<>> \in Value
  BY DEF Value
<1>2. \A i \in 1 .. n, p \in W : Turn(i, p) \in W
  <2> TAKE i \in 1 .. n, p \in W
  <2>1. p[1] \in Value /\ p[2] \in Value
    OBVIOUS
  <2>2. (IF String!Taken(s, i) = 2 THEN p[2] ELSE p[1]) \in Value
    BY <2>1
  <2>3. String!Decoded(s, i) \in Value
    BY DecodedIs
  <2>4. String!Then(String!Decoded(s, i), IF String!Taken(s, i) = 2 THEN p[2] ELSE p[1]) \in Value
    BY <2>2, <2>3, ThenIs
  <2>5. QED
    BY <2>1, <2>4
<1>3. step \in [(1 .. n) \X W -> W]
  <2>1. ASSUME NEW x \in (1 .. n) \X W PROVE Turn(n + 1 - x[1], x[2]) \in W
    <3>1. n + 1 - x[1] \in 1 .. n /\ x[2] \in W
      BY <1>1
    <3> HIDE DEF Turn, W
    <3>2. QED
      BY <1>2, <3>1
  <2> HIDE DEF Turn, W
  <2>2. QED
    BY <2>1
<1>4. PICK g \in [0 .. n -> W] :
          /\ g[0] = << <<>>, <<>> >>
          /\ \A k \in 1 .. n : g[k] = step[<<k, g[k - 1]>>]
  <2>1. << <<>>, <<>> >> \in W
    BY <1>1
  <2> DEFINE first == << <<>>, <<>> >>
  <2>2. first \in W
    BY <2>1
  <2> HIDE DEF step, W, n, first
  <2>3. Runs(W, first, n, step)
    BY <1>1, <1>3, <2>2, Recursion
  <2>4. QED
    BY <2>3 DEF Runs, first
<1>5. \A k \in 1 .. n : g[k - 1] \in W /\ g[k] = Turn(n + 1 - k, g[k - 1])
  <2> TAKE k \in 1 .. n
  <2>1. g[k - 1] \in W
    <3> HIDE DEF W, n, step
    <3>1. k - 1 \in 0 .. n
      BY <1>1
    <3>2. QED
      BY <1>4, <3>1
  <2>2. <<k, g[k - 1]>> \in (1 .. n) \X W
    BY <2>1
  <2>3. step[<<k, g[k - 1]>>] = Turn(n + 1 - k, g[k - 1])
    <3> HIDE DEF Turn, W
    <3>1. QED
      BY <2>2
  <2>4. QED
    BY <1>4, <2>1, <2>3
<1> DEFINE h0 == [i \in 1 .. n + 1 |-> g[n + 1 - i][1]]
<1>6. ASSUME NEW i \in 1 .. n
      PROVE  h0[i] = String!Then(String!Decoded(s, i), h0[i + String!Taken(s, i)])
  <2> DEFINE k == n + 1 - i
  <2>1. k \in 1 .. n /\ n + 1 - k = i /\ n + 1 - (i + 1) = k - 1 /\ n + 1 - (i + 2) = k - 2
    BY <1>1
  <2>2. h0[i] = g[k][1] /\ h0[i + 1] = g[k - 1][1]
    BY <1>1, <2>1
  <2>3. g[k] = Turn(i, g[k - 1])
    BY <1>5, <2>1
  <2> HIDE DEF k, h0
  <2>4. g[k][1] = String!Then(String!Decoded(s, i),
                              IF String!Taken(s, i) = 2 THEN g[k - 1][2] ELSE g[k - 1][1])
    BY <2>3
  <2>5. CASE String!Taken(s, i) = 1
    BY <2>2, <2>4, <2>5
  <2>6. CASE String!Taken(s, i) = 2 /\ i < n
    <3>1. k - 1 \in 1 .. n /\ n + 1 - (k - 1) \in 1 .. n /\ (k - 1) - 1 = k - 2
      BY <1>1, <2>1, <2>6
    <3>2. g[k - 1] = Turn(n + 1 - (k - 1), g[(k - 1) - 1])
      BY <1>5, <3>1
    <3>3. g[k - 1][2] = g[k - 2][1]
      BY <3>1, <3>2
    <3>4. h0[i + 2] = g[k - 2][1]
      BY <1>1, <2>1, <2>6 DEF h0
    <3>5. QED
      BY <2>2, <2>4, <2>6, <3>3, <3>4
  <2>7. CASE String!Taken(s, i) = 2 /\ i = n
    <3>1. String!Decoded(s, i) = String!Failed
      BY <2>7, DecodedIs
    <3>2. QED
      BY <2>2, <2>4, <3>1 DEF String!Then
  <2>8. QED
    BY <1>1, <2>5, <2>6, <2>7, DecodedIs
<1>7. h0 = F(h0)
  <2>1. h0[n + 1] = <<>>
    BY <1>1, <1>4
  <2> DEFINE h1 == F(h0)
  <2>2. \A i \in 1 .. n + 1 : h1[i] = h0[i]
    <3> TAKE i \in 1 .. n + 1
    <3>1. CASE i = n + 1
      <4>1. h1[i] = <<>>
        BY <1>1, <3>1
      <4>2. QED
        BY <2>1, <3>1, <4>1
    <3>2. CASE i # n + 1
      <4>1. i \in 1 .. n /\ ~ (i > n)
        BY <1>1, <3>2
      <4>2. h1[i] = String!Then(String!Decoded(s, i), h0[i + String!Taken(s, i)])
        <5> HIDE DEF h0
        <5>1. QED
          BY <4>1
      <4>3. QED
        BY <1>6, <4>1, <4>2
    <3>3. QED
      BY <3>1, <3>2
  <2>3. h0 = [i \in 1 .. n + 1 |-> h0[i]] /\ h1 = [i \in 1 .. n + 1 |-> h1[i]]
    <3>1. h0 = [i \in 1 .. n + 1 |-> h0[i]]
      OBVIOUS
    <3> HIDE DEF h0
    <3>2. QED
      BY <3>1
  <2>4. h0 = h1
    <3> HIDE DEF h0, h1
    <3>1. QED
      BY <2>2, <2>3
  <2>5. QED
    BY <2>4
<1>8. from = F(from)
  <2>1. \E h : h = F(h)
    <3> HIDE DEF h0, F
    <3>1. QED
      BY <1>7
  <2> HIDE DEF F
  <2>2. QED
    BY <2>1
<1>9. String!decodeString(s) = from[1]
  BY DEF String!decodeString
<1>10. from[n + 1] = <<>> /\ \A i \in 1 .. n :
          from[i] = String!Then(String!Decoded(s, i), from[i + String!Taken(s, i)])
  <2>1. from = [i \in 1 .. n + 1 |-> F(from)[i]]
    BY <1>8
  <2> HIDE DEF from, n
  <2>2. from[n + 1] = <<>>
    BY <1>1, <2>1
  <2>3. ASSUME NEW i \in 1 .. n
        PROVE  from[i] = String!Then(String!Decoded(s, i), from[i + String!Taken(s, i)])
    <3>1. i \in 1 .. n + 1 /\ ~ (i > n)
      BY <1>1
    <3>2. QED
      BY <2>1, <3>1
  <2>4. QED
    BY <2>2, <2>3
<1>11. QED
  <2> HIDE DEF from
  <2>1. QED
    BY <1>9, <1>10

(* What FlattenSeq is: one sequence after the other.                       *)
LEMMA FlattenIs ==
    ASSUME NEW S, NEW seqs \in Seq(Seq(S))
    PROVE  \E g \in [0 .. Len(seqs) -> Seq(S)] :
              /\ g[0] = <<>>
              /\ \A k \in 1 .. Len(seqs) : g[k] = g[k - 1] \o seqs[k]
              /\ String!FlattenSeq(seqs) = g[Len(seqs)]
<1> DEFINE n == Len(seqs)
           F(f) == [i \in 1 .. n |-> IF i = 1 THEN seqs[i] ELSE f[i - 1] \o seqs[i]]
           flatten == CHOOSE f : f = F(f)
           W == Seq(S)
           first == <<>>
           step == [x \in (1 .. n) \X W |-> x[2] \o seqs[x[1]]]
<1>1. n \in Nat /\ (\A k \in 1 .. n : seqs[k] \in Seq(S)) /\ first \in W
  OBVIOUS
<1>2. step \in [(1 .. n) \X W -> W]
  <2>1. ASSUME NEW x \in (1 .. n) \X W PROVE x[2] \o seqs[x[1]] \in W
    <3>1. x[2] \in Seq(S) /\ seqs[x[1]] \in Seq(S)
      BY <1>1
    <3>2. QED
      BY <3>1
  <2> HIDE DEF W, n
  <2>2. QED
    BY <2>1
<1>3. PICK g \in [0 .. n -> W] : /\ g[0] = first
                                 /\ \A k \in 1 .. n : g[k] = step[<<k, g[k - 1]>>]
  <2> HIDE DEF W, n, first, step
  <2>1. Runs(W, first, n, step)
    BY <1>1, <1>2, Recursion
  <2>2. QED
    BY <2>1 DEF Runs
<1>4. ASSUME NEW k \in 1 .. n PROVE g[k] = g[k - 1] \o seqs[k]
  <2>1. g[k - 1] \in W
    <3> HIDE DEF W, n, step, first
    <3>1. k - 1 \in 0 .. n
      BY <1>1
    <3>2. QED
      BY <1>3, <3>1
  <2>2. step[<<k, g[k - 1]>>] = g[k - 1] \o seqs[k]
    <3> HIDE DEF W, n
    <3>1. <<k, g[k - 1]>> \in (1 .. n) \X W
      BY <2>1
    <3>2. QED
      BY <3>1
  <2>3. QED
    BY <1>3, <2>2
<1>5. CASE n = 0
  <2>1. String!FlattenSeq(seqs) = seqs /\ seqs = <<>>
    BY <1>5 DEF String!FlattenSeq
  <2>2. QED
    BY <1>3, <1>5, <2>1
<1>6. CASE n # 0
  <2> DEFINE f0 == [i \in 1 .. n |-> g[i]]
  <2>1. \A i \in 1 .. n : g[i] = IF i = 1 THEN seqs[i] ELSE f0[i - 1] \o seqs[i]
    <3> TAKE i \in 1 .. n
    <3>1. CASE i = 1
      <4>1. 1 \in 1 .. n /\ 1 - 1 = 0
        BY <3>1
      <4>2. g[1] = g[0] \o seqs[1]
        BY <1>4, <4>1
      <4>3. g[0] = <<>> /\ <<>> \o seqs[1] = seqs[1]
        BY <1>1, <1>3, <4>1
      <4>4. QED
        BY <3>1, <4>2, <4>3
    <3>2. CASE i # 1
      <4>1. i - 1 \in 1 .. n
        BY <1>1, <3>2
      <4>2. f0[i - 1] = g[i - 1]
        BY <4>1
      <4>3. QED
        BY <1>4, <3>2, <4>2
    <3>3. QED
      BY <3>1, <3>2
  <2>2. f0 = F(f0)
    <3>1. f0 = [i \in 1 .. n |-> IF i = 1 THEN seqs[i] ELSE f0[i - 1] \o seqs[i]]
      BY <2>1, Zenon
    <3>2. QED
      BY <3>1
  <2>3. flatten = F(flatten)
    <3>1. \E f : f = F(f)
      <4> HIDE DEF f0, F
      <4>1. QED
        BY <2>2
    <3> HIDE DEF F
    <3>2. QED
      BY <3>1
  <2>4. String!FlattenSeq(seqs) = flatten[n]
    BY <1>6 DEF String!FlattenSeq
  <2> HIDE DEF flatten
  <2> DEFINE T == {k \in Nat : k \in 1 .. n => flatten[k] = g[k]}
  <2>5. 0 \in T
    BY <1>1
  <2>6. ASSUME NEW k \in Nat, k \in T PROVE k + 1 \in T
    <3> SUFFICES ASSUME k + 1 \in 1 .. n PROVE flatten[k + 1] = g[k + 1]
      OBVIOUS
    <3>1. flatten[k + 1] = IF k + 1 = 1 THEN seqs[k + 1]
                           ELSE flatten[(k + 1) - 1] \o seqs[k + 1]
      BY <2>3
    <3>2. CASE k = 0
      <4>1. k + 1 = 1
        BY <3>2
      <4>2. g[1] = seqs[1]
        BY <2>1, <4>1
      <4>3. QED
        BY <3>1, <4>1, <4>2
    <3>3. CASE k # 0
      <4>1. k \in 1 .. n /\ (k + 1) - 1 = k /\ k + 1 # 1
        BY <1>1, <3>3
      <4>2. flatten[k] = g[k]
        BY <2>6, <4>1
      <4>3. g[k + 1] = g[k] \o seqs[k + 1]
        BY <1>4, <4>1
      <4>4. QED
        BY <3>1, <4>1, <4>2, <4>3
    <3>4. QED
      BY <3>2, <3>3
  <2>7. n \in T
    <3> HIDE DEF T
    <3>1. QED
      BY <1>1, <2>5, <2>6, Induction
  <2>8. String!FlattenSeq(seqs) = g[n]
    BY <1>1, <1>6, <2>4, <2>7
  <2>9. QED
    BY <1>3, <1>4, <2>8
<1>7. QED
  BY <1>5, <1>6

(* The turns once more, with their types: a turn fails, or goes on within  *)
(* the string.                                                             *)
LEMMA TurnsAre ==
    ASSUME NEW s \in Seq(Piece)
    PROVE  \E h : /\ String!decodeString(s) = h[1]
                  /\ h[Len(s) + 1] = <<>>
                  /\ \A i \in 1 .. Len(s) + 1 : h[i] \in Value
                  /\ \A i \in 1 .. Len(s) :
                        \/ /\ String!Decoded(s, i) = String!Failed
                           /\ h[i] = String!Failed
                        \/ /\ String!Decoded(s, i) \in Seq(Byte)
                           /\ i + String!Taken(s, i) \in i + 1 .. Len(s) + 1
                           /\ h[i] = String!Then(String!Decoded(s, i), h[i + String!Taken(s, i)])
<1>1. PICK h : /\ String!decodeString(s) = h[1]
               /\ h[Len(s) + 1] = <<>>
               /\ \A i \in 1 .. Len(s) :
                     h[i] = String!Then(String!Decoded(s, i), h[i + String!Taken(s, i)])
  BY DecodeIs
<1> DEFINE n == Len(s)
<1>2. n \in Nat
  OBVIOUS
<1>3. ASSUME NEW i \in 1 .. n
      PROVE  \/ /\ String!Decoded(s, i) = String!Failed
                /\ h[i] = String!Failed
             \/ /\ String!Decoded(s, i) \in Seq(Byte)
                /\ i + String!Taken(s, i) \in i + 1 .. n + 1
                /\ h[i] = String!Then(String!Decoded(s, i), h[i + String!Taken(s, i)])
  <2>1. CASE String!Decoded(s, i) = String!Failed
    BY <1>1, <2>1 DEF String!Then
  <2>2. CASE String!Decoded(s, i) # String!Failed
    <3>1. String!Decoded(s, i) \in Seq(Byte)
      BY <2>2, DecodedIs DEF Value
    <3>2. String!Taken(s, i) = 1 \/ (String!Taken(s, i) = 2 /\ i # n)
      BY <2>2, DecodedIs
    <3>3. i + String!Taken(s, i) \in i + 1 .. n + 1
      BY <1>2, <3>2
    <3>4. QED
      BY <1>1, <3>1, <3>3
  <2>3. QED
    BY <2>1, <2>2
<1> DEFINE T == {i \in 1 .. n + 1 : h[i] \in Value}
<1>4. n + 1 \in T
  <2>1. <<>> \in Value
    BY DEF Value
  <2>2. n + 1 \in 1 .. n + 1 /\ h[n + 1] = <<>>
    BY <1>1, <1>2
  <2> HIDE DEF n
  <2>3. QED
    BY <2>1, <2>2
<1>5. ASSUME NEW i \in 1 .. n, \A j \in i + 1 .. n + 1 : j \in T
      PROVE  i \in T
  <2>1. CASE h[i] = String!Failed
    BY <1>2, <2>1 DEF Value
  <2>2. CASE /\ String!Decoded(s, i) \in Seq(Byte)
             /\ i + String!Taken(s, i) \in i + 1 .. n + 1
             /\ h[i] = String!Then(String!Decoded(s, i), h[i + String!Taken(s, i)])
    <3>1. h[i + String!Taken(s, i)] \in Value
      BY <1>5, <2>2
    <3>2. h[i] \in Value
      BY <2>2, <3>1, ThenIs DEF Value
    <3>3. QED
      BY <1>2, <3>2
  <2>3. QED
    BY <1>3, <2>1, <2>2
<1>6. \A i \in 1 .. n + 1 : i \in T
  <2> HIDE DEF T, n
  <2>1. QED
    BY <1>2, <1>4, <1>5, Downwards
<1>7. QED
  BY <1>1, <1>3, <1>6

(* It decodes to bytes, or fails.                                          *)
LEMMA DecodeTypes == ASSUME NEW s \in Seq(Piece) PROVE String!decodeString(s) \in Value
<1>1. PICK h : /\ String!decodeString(s) = h[1]
               /\ \A i \in 1 .. Len(s) + 1 : h[i] \in Value
  BY TurnsAre
<1>2. 1 \in 1 .. Len(s) + 1
  OBVIOUS
<1>3. QED
  BY <1>1, <1>2

(* An unknown escape makes the places up to it fail: the turn of a high    *)
(* surrogate does not jump over it.                                        *)
LEMMA UnknownFails ==
    ASSUME NEW s \in Seq(Piece), ~String!Known(s)
    PROVE  String!decodeString(s) = String!Failed
<1>1. PICK h : /\ String!decodeString(s) = h[1]
               /\ \A i \in 1 .. Len(s) + 1 : h[i] \in Value
               /\ \A i \in 1 .. Len(s) :
                     \/ /\ String!Decoded(s, i) = String!Failed
                        /\ h[i] = String!Failed
                     \/ /\ String!Decoded(s, i) \in Seq(Byte)
                        /\ i + String!Taken(s, i) \in i + 1 .. Len(s) + 1
                        /\ h[i] = String!Then(String!Decoded(s, i), h[i + String!Taken(s, i)])
  BY TurnsAre
<1>2. PICK u \in 1 .. Len(s) : s[u].kind = "escape" /\ s[u].n \notin DOMAIN String!Unescaped
  BY DEF String!Known
<1> DEFINE n == Len(s)
           T == {i \in 1 .. n + 1 : i <= u => h[i] = String!Failed}
<1>3. n \in Nat
  OBVIOUS
<1>4. n + 1 \in T
  BY <1>2, <1>3
<1>5. ASSUME NEW i \in 1 .. n, \A j \in i + 1 .. n + 1 : j \in T
      PROVE  i \in T
  <2> SUFFICES ASSUME i <= u PROVE h[i] = String!Failed
    BY <1>3
  <2>1. CASE i = u
    <3>1. String!Decoded(s, i) = String!Failed
      BY <1>2, <2>1 DEF String!Decoded
    <3>2. QED
      BY <1>1, <3>1, FailedIsNone
  <2>2. CASE i < u
    <3> SUFFICES ASSUME /\ String!Decoded(s, i) \in Seq(Byte)
                        /\ i + String!Taken(s, i) \in i + 1 .. n + 1
                        /\ h[i] = String!Then(String!Decoded(s, i), h[i + String!Taken(s, i)])
                 PROVE  h[i] = String!Failed
      BY <1>1
    <3>1. i + String!Taken(s, i) <= u
      <4>1. CASE String!Taken(s, i) = 1
        BY <1>2, <1>3, <2>2, <4>1
      <4>2. CASE String!Taken(s, i) = 2
        <5>1. String!StartsPair(s, i)
          BY <4>2 DEF String!Taken
        <5>2. String!Decoded(s, i) = String!decodeUnicodeCodePoint(s, i)
          BY <5>1 DEF String!StartsPair, String!Decoded
        <5>3. s[i + 1].kind = "unicode"
          BY <5>1, <5>2, FailedIsNone DEF String!StartsPair, String!decodeUnicodeCodePoint
        <5>4. i + 1 # u
          BY <1>2, <5>3
        <5>5. QED
          BY <1>2, <1>3, <2>2, <4>2, <5>4
      <4>3. QED
        BY <4>1, <4>2, DecodedIs
    <3>2. h[i + String!Taken(s, i)] = String!Failed
      BY <1>5, <3>1
    <3>3. QED
      BY <3>2 DEF String!Then
  <2>3. QED
    BY <1>2, <1>3, <2>1, <2>2
<1>6. \A i \in 1 .. n + 1 : i \in T
  <2> HIDE DEF T, n
  <2>1. QED
    BY <1>3, <1>4, <1>5, Downwards
<1>7. QED
  BY <1>1, <1>2, <1>3, <1>6

(* Bytes with none before or behind them.                                  *)
LEMMA Joined == ASSUME NEW a \in Seq(Byte) PROVE a \o <<>> = a /\ <<>> \o a = a
  OBVIOUS

(* Bytes put between others.                                               *)
LEMMA PutBetween ==
    ASSUME NEW a \in Seq(Byte), NEW b \in Seq(Byte), NEW c \in Seq(Byte)
    PROVE  String!Then(b, c) \in Seq(Byte) /\ a \o String!Then(b, c) = (a \o b) \o c
<1>1. String!Then(b, c) = b \o c
  BY FailedIsNone DEF String!Then
<1>2. b \o c \in Seq(Byte) /\ a \o (b \o c) = (a \o b) \o c
  OBVIOUS
<1>3. QED
  BY <1>1, <1>2

(* The second half of a pair.                                              *)
IsTail(s, i) == s[i].kind = "unicode" /\ String!IsLow(s[i].n)

(* In a well-formed text the halves of a pair stand side by side, and each *)
(* turn but one at a second half, which there is none, decodes to what its *)
(* place says.                                                             *)
LEMMA SaysIs ==
    ASSUME NEW s \in Seq(Piece), String!Known(s), String!WellFormed(s), NEW i \in 1 .. Len(s)
    PROVE  /\ String!Says(s, i) \in Seq(Byte)
           /\ IsTail(s, i) => /\ String!Says(s, i) = <<>>
                              /\ ~String!StartsPair(s, i)
                              /\ i > 1 /\ String!StartsPair(s, i - 1)
           /\ ~IsTail(s, i) => String!Decoded(s, i) = String!Says(s, i)
           /\ String!StartsPair(s, i) => i < Len(s) /\ IsTail(s, i + 1)
<1>1. s[i] \in Piece /\ DOMAIN s = 1 .. Len(s)
  OBVIOUS
<1>2. CASE s[i].kind = "byte" /\ s[i].n \in Byte
  <2>1. String!Says(s, i) = <<s[i].n>> /\ String!Decoded(s, i) = <<s[i].n>>
    BY <1>2 DEF String!Says, String!Decoded
  <2>2. ~String!StartsPair(s, i) /\ ~IsTail(s, i)
    BY <1>2 DEF String!StartsPair, IsTail
  <2>3. QED
    BY <1>2, <2>1, <2>2
<1>3. CASE s[i].kind = "escape"
  <2>1. s[i].n \in DOMAIN String!Unescaped
    BY <1>1, <1>3 DEF String!Known
  <2>2. String!Says(s, i) = <<String!Unescaped[s[i].n]>>
    BY <1>3 DEF String!Says
  <2>3. String!Decoded(s, i) = <<String!Unescaped[s[i].n]>>
    BY <1>3, <2>1 DEF String!Decoded
  <2>4. ~String!StartsPair(s, i) /\ ~IsTail(s, i)
    BY <1>3 DEF String!StartsPair, IsTail
  <2>5. QED
    BY <2>1, <2>2, <2>3, <2>4, UnescapedIs
<1>4. CASE s[i].kind = "unicode" /\ s[i].n \in Nat /\ s[i].n <= 65535
  <2>1. ~ (String!IsHigh(s[i].n) /\ String!IsLow(s[i].n))
    <3>1. s[i].n \in Nat
      BY <1>4
    <3>2. QED
      BY <3>1, SMT DEF String!IsHigh, String!IsLow
  <2>0. /\ String!IsHigh(s[i].n) =>
              i < Len(s) /\ s[i + 1].kind = "unicode" /\ String!IsLow(s[i + 1].n)
        /\ String!IsLow(s[i].n) =>
              i > 1 /\ s[i - 1].kind = "unicode" /\ String!IsHigh(s[i - 1].n)
    <3>1. i \in DOMAIN s /\ s[i].kind = "unicode"
      BY <1>1, <1>4
    <3>2. QED
      BY <3>1, Zenon DEF String!WellFormed
  <2>2. String!Decoded(s, i) = String!decodeUnicodeCodePoint(s, i)
    BY <1>4 DEF String!Decoded
  <2>3. CASE String!IsLow(s[i].n)
    <3>1. String!Says(s, i) = <<>>
      BY <1>4, <2>3 DEF String!Says
    <3>2. i > 1 /\ s[i - 1].kind = "unicode" /\ String!IsHigh(s[i - 1].n)
      BY <2>0, <2>3
    <3>3. IsTail(s, i) /\ ~String!StartsPair(s, i) /\ String!StartsPair(s, i - 1)
      BY <1>4, <2>1, <2>3, <3>2 DEF IsTail, String!StartsPair
    <3>4. QED
      BY <3>1, <3>2, <3>3
  <2>4. CASE String!IsHigh(s[i].n)
    <3>1. i < Len(s) /\ s[i + 1].kind = "unicode" /\ String!IsLow(s[i + 1].n)
      BY <2>0, <2>4
    <3>2. s[i + 1] \in Piece
      BY <3>1
    <3>3. s[i].n \in Nat /\ s[i + 1].n \in Nat
      BY <1>4, <3>1, <3>2, PieceIs
    <3> DEFINE high == s[i].n
               low == s[i + 1].n
               cp == String!Pair(high, low)
    <3>4. high \in Nat /\ low \in Nat /\ String!IsHigh(high) /\ String!IsLow(low)
      BY <2>4, <3>1, <3>3
    <3> HIDE DEF high, low
    <3>5. /\ cp \in Nat /\ cp <= 1114111
          /\ cp = 65536 + (high - 55296) * 1024 + (low - 56320)
      BY <3>4, PairIs, PairOf, SMT
    <3>6. String!Decoded(s, i) = String!codePointToUTF8(cp)
      BY <2>2, <2>4, <3>1 DEF String!decodeUnicodeCodePoint, high, low
    <3>7. String!Says(s, i) = String!Utf8(65536 + (high - 55296) * 1024 + (low - 56320))
      BY <1>4, <2>1, <2>4 DEF String!Says, high, low
    <3> HIDE DEF cp
    <3>8. String!Says(s, i) = String!Utf8(cp)
      BY <3>5, <3>7
    <3>9. String!Says(s, i) = String!Decoded(s, i) /\ String!Says(s, i) \in Seq(Byte)
      BY <3>5, <3>6, <3>8, CodePointIsUtf8
    <3>10. ~IsTail(s, i) /\ IsTail(s, i + 1)
      BY <2>1, <2>4, <3>1 DEF IsTail
    <3>11. QED
      BY <3>1, <3>9, <3>10
  <2>5. CASE ~String!IsHigh(s[i].n) /\ ~String!IsLow(s[i].n)
    <3>1. String!Says(s, i) = String!Utf8(s[i].n)
      BY <1>4, <2>5 DEF String!Says
    <3>2. String!Decoded(s, i) = String!codePointToUTF8(s[i].n)
      BY <2>2, <2>5 DEF String!decodeUnicodeCodePoint
    <3>3. s[i].n <= 1114111
      BY <1>4, SMT
    <3>4. String!Says(s, i) = String!Decoded(s, i) /\ String!Says(s, i) \in Seq(Byte)
      BY <1>4, <3>1, <3>2, <3>3, CodePointIsUtf8
    <3>5. ~IsTail(s, i) /\ ~String!StartsPair(s, i)
      BY <2>5 DEF IsTail, String!StartsPair
    <3>6. QED
      BY <3>4, <3>5
  <2>6. QED
    BY <2>3, <2>4, <2>5
<1>5. QED
  BY <1>1, <1>2, <1>3, <1>4, PieceIs

(* A well-formed text is read as what its places say, one after the other: *)
(* what the turns up to a place said, and what decodeString makes of the   *)
(* rest, is the whole, at every place where a turn can start.              *)
LEMMA WellFormedIsRead ==
    ASSUME NEW s \in Seq(Piece), String!Known(s), String!WellFormed(s)
    PROVE  String!decodeString(s) = String!FlattenSeq([i \in DOMAIN s |-> String!Says(s, i)])
<1> DEFINE n == Len(s)
           says == [i \in DOMAIN s |-> String!Says(s, i)]
<1>1. n \in Nat /\ DOMAIN s = 1 .. n
  OBVIOUS
<1>2. says \in Seq(Seq(Byte)) /\ Len(says) = n /\ \A i \in 1 .. n : says[i] = String!Says(s, i)
  <2>1. says = [i \in 1 .. n |-> String!Says(s, i)]
    BY <1>1
  <2>2. \A i \in 1 .. n : String!Says(s, i) \in Seq(Byte)
    BY SaysIs
  <2> HIDE DEF says, n
  <2>3. QED
    BY <1>1, <2>1, <2>2
<1> HIDE DEF says
<1>3. PICK g \in [0 .. n -> Seq(Byte)] :
          /\ g[0] = <<>>
          /\ \A k \in 1 .. n : g[k] = g[k - 1] \o String!Says(s, k)
          /\ String!FlattenSeq(says) = g[n]
  <2> HIDE DEF n
  <2>1. PICK g \in [0 .. Len(says) -> Seq(Byte)] :
            /\ g[0] = <<>>
            /\ \A k \in 1 .. Len(says) : g[k] = g[k - 1] \o says[k]
            /\ String!FlattenSeq(says) = g[Len(says)]
    BY <1>2, FlattenIs
  <2>2. QED
    BY <1>2, <2>1
<1>4. PICK h : /\ String!decodeString(s) = h[1]
               /\ h[n + 1] = <<>>
               /\ \A i \in 1 .. n + 1 : h[i] \in Value
               /\ \A i \in 1 .. n :
                     \/ /\ String!Decoded(s, i) = String!Failed
                        /\ h[i] = String!Failed
                     \/ /\ String!Decoded(s, i) \in Seq(Byte)
                        /\ i + String!Taken(s, i) \in i + 1 .. n + 1
                        /\ h[i] = String!Then(String!Decoded(s, i), h[i + String!Taken(s, i)])
  BY TurnsAre
<1>5. ASSUME NEW k \in 0 .. n PROVE g[k] \in Seq(Byte)
  <2> HIDE DEF n
  <2>1. QED
    BY <1>3
<1> DEFINE Starts(i) == i = n + 1 \/ ~IsTail(s, i)
           Whole(i) == h[i] \in Seq(Byte) /\ g[i - 1] \o h[i] = g[n]
           T == {i \in 1 .. n + 1 : Starts(i) => Whole(i)}
<1>6. n + 1 \in T
  <2>1. g[n] \in Seq(Byte) /\ (n + 1) - 1 = n /\ n + 1 \in 1 .. n + 1
    BY <1>1, <1>5
  <2>2. g[n] \o <<>> = g[n] /\ <<>> \in Seq(Byte)
    BY <2>1, Joined
  <2>3. Whole(n + 1)
    BY <1>4, <2>1, <2>2
  <2> HIDE DEF Whole, Starts, n
  <2>4. QED
    BY <2>1, <2>3
<1>7. ASSUME NEW i \in 1 .. n, \A j \in i + 1 .. n + 1 : j \in T
      PROVE  i \in T
  <2> SUFFICES ASSUME ~IsTail(s, i) PROVE Whole(i)
    <3>1. i \in 1 .. n + 1 /\ i # n + 1
      BY <1>1
    <3> HIDE DEF Whole, n
    <3>2. QED
      BY <3>1
  <2> DEFINE bytes == String!Says(s, i)
             next == i + String!Taken(s, i)
  <2>1. String!Decoded(s, i) = bytes /\ bytes \in Seq(Byte)
    BY SaysIs
  <2>2. next \in i + 1 .. n + 1 /\ h[i] = String!Then(bytes, h[next])
    BY <1>4, <2>1, FailedIsNone
  <2>3. i - 1 \in 0 .. n /\ g[i - 1] \in Seq(Byte) /\ g[i] = g[i - 1] \o bytes
    BY <1>1, <1>3, <1>5
  <2>4. Starts(next) /\ g[next - 1] = g[i - 1] \o bytes
    <3>1. CASE String!StartsPair(s, i)
      <4>1. next = i + 2 /\ i + 1 \in 1 .. n /\ IsTail(s, i + 1)
        BY <1>1, <3>1, SaysIs DEF String!Taken
      <4>2. String!Says(s, i + 1) = <<>> /\ ~String!StartsPair(s, i + 1)
        BY <4>1, SaysIs
      <4>3. ASSUME i + 2 # n + 1 PROVE ~IsTail(s, i + 2)
        <5>1. i + 2 \in 1 .. n /\ (i + 2) - 1 = i + 1
          BY <1>1, <4>1, <4>3
        <5>2. QED
          BY <4>2, <5>1, SaysIs
      <4>4. (i + 1) - 1 = i /\ i + 2 - 1 = i + 1 /\ i \in 0 .. n
        BY <1>1
      <4>5. g[i + 1] = g[i] \o <<>>
        BY <1>3, <4>1, <4>2, <4>4
      <4>6. g[i] \o <<>> = g[i]
        BY <1>5, <4>4, Joined
      <4> HIDE DEF next, bytes
      <4>7. g[next - 1] = g[i - 1] \o bytes
        BY <2>3, <4>1, <4>4, <4>5, <4>6
      <4>8. Starts(next)
        BY <4>1, <4>3
      <4>9. QED
        BY <4>7, <4>8
    <3>2. CASE ~String!StartsPair(s, i)
      <4>1. next = i + 1
        BY <3>2 DEF String!Taken
      <4>2. ASSUME i + 1 # n + 1 PROVE ~IsTail(s, i + 1)
        <5>1. i + 1 \in 1 .. n /\ (i + 1) - 1 = i
          BY <1>1, <4>2
        <5>2. QED
          BY <3>2, <5>1, SaysIs
      <4>3. i + 1 - 1 = i
        BY <1>1
      <4> HIDE DEF next, bytes
      <4>4. QED
        BY <2>3, <4>1, <4>2, <4>3
    <3>3. QED
      BY <3>1, <3>2
  <2>5. Whole(next)
    <3> HIDE DEF next, Starts, Whole
    <3>1. next \in T
      BY <1>7, <2>2
    <3>2. QED
      BY <2>4, <3>1
  <2> DEFINE before == g[i - 1]
             behind == h[next]
  <2>6. before \in Seq(Byte) /\ bytes \in Seq(Byte) /\ behind \in Seq(Byte)
    BY <2>1, <2>3, <2>5
  <2>7. (before \o bytes) \o behind = g[n] /\ h[i] = String!Then(bytes, behind)
    BY <2>2, <2>4, <2>5
  <2> HIDE DEF before, behind, next, bytes, Starts, n
  <2>8. /\ String!Then(bytes, behind) \in Seq(Byte)
        /\ before \o String!Then(bytes, behind) = (before \o bytes) \o behind
    BY <2>6, PutBetween, ZenonT(60)
  <2>9. QED
    BY <2>7, <2>8 DEF before
<1>8. \A i \in 1 .. n + 1 : i \in T
  <2> HIDE DEF T, n
  <2>1. QED
    BY <1>1, <1>6, <1>7, Downwards
<1>9. Starts(1)
  <2>1. ASSUME 1 \in 1 .. n PROVE ~IsTail(s, 1)
    BY <2>1, SaysIs
  <2>2. QED
    BY <1>1, <2>1
<1>10. Whole(1)
  <2>1. 1 \in 1 .. n + 1
    BY <1>1
  <2> HIDE DEF Starts, Whole, n
  <2>2. 1 \in T
    BY <1>8, <2>1
  <2>3. QED
    BY <1>9, <2>2
<1>11. h[1] \in Seq(Byte) /\ <<>> \o h[1] = g[n]
  <2>1. g[1 - 1] = <<>>
    BY <1>3
  <2>2. QED
    BY <1>10, <2>1
<1>12. <<>> \o h[1] = h[1]
  BY <1>11, Joined
<1>13. QED
  BY <1>3, <1>4, <1>11, <1>12 DEF says

(* How a byte is quoted.                                                   *)
LEMMA QuotedIs ==
    ASSUME NEW b \in Byte
    PROVE  /\ String!Quoted(b) \in Piece
           /\ \/ String!Quoted(b).kind = "byte" /\ String!Quoted(b).n = b
              \/ /\ String!Quoted(b).kind = "escape"
                 /\ String!Quoted(b).n \in DOMAIN String!Unescaped
                 /\ String!Unescaped[String!Quoted(b).n] = b
              \/ String!Quoted(b).kind = "unicode" /\ String!Quoted(b).n = b /\ b <= 31
<1> DEFINE c == CHOOSE c \in DOMAIN String!Unescaped : String!Unescaped[c] = b
<1>1. CASE b \in {8, 9, 10, 12, 13, 34, 92}
  <2>1. \E x \in DOMAIN String!Unescaped : String!Unescaped[x] = b
    <3>1. /\ {34, 92, 98, 102, 110, 114, 116} \subseteq DOMAIN String!Unescaped
          /\ String!Unescaped[34] = 34 /\ String!Unescaped[92] = 92
          /\ String!Unescaped[98] = 8 /\ String!Unescaped[102] = 12
          /\ String!Unescaped[110] = 10 /\ String!Unescaped[114] = 13
          /\ String!Unescaped[116] = 9
      BY SMT DEF String!Unescaped
    <3>2. QED
      BY <1>1, <3>1
  <2>2. c \in DOMAIN String!Unescaped /\ String!Unescaped[c] = b
    BY <2>1
  <2>3. String!Quoted(b) = String!Escape(c)
    BY <1>1 DEF String!Quoted
  <2> HIDE DEF c
  <2>4. QED
    BY <2>2, <2>3 DEF Piece, String!Escape
<1>2. CASE b \notin {8, 9, 10, 12, 13, 34, 92} /\ b <= 31
  <2>1. String!Quoted(b) = String!Unit(b)
    BY <1>2 DEF String!Quoted
  <2>2. b \in {u \in Nat : u <= 65535}
    BY SMT DEF Byte
  <2>3. QED
    BY <1>2, <2>1, <2>2 DEF Piece, String!Unit
<1>3. CASE b \notin {8, 9, 10, 12, 13, 34, 92} /\ ~ (b <= 31)
  <2>1. String!Quoted(b) = String!Plain(b)
    BY <1>3 DEF String!Quoted
  <2>2. QED
    BY <2>1 DEF Piece, String!Plain
<1>4. QED
  BY <1>1, <1>2, <1>3

(* The turn at a quoted byte gives the byte.                               *)
LEMMA QuotedDecodes ==
    ASSUME NEW s \in Seq(Piece), NEW i \in 1 .. Len(s), NEW b \in Byte, s[i] = String!Quoted(b)
    PROVE  String!Decoded(s, i) = <<b>> /\ String!Taken(s, i) = 1
<1>1. CASE s[i].kind = "byte" /\ s[i].n = b
  BY <1>1 DEF String!Decoded, String!Taken, String!StartsPair
<1>2. CASE /\ s[i].kind = "escape" /\ s[i].n \in DOMAIN String!Unescaped
           /\ String!Unescaped[s[i].n] = b
  BY <1>2 DEF String!Decoded, String!Taken, String!StartsPair
<1>3. CASE s[i].kind = "unicode" /\ s[i].n = b /\ b <= 31
  <2>1. ~String!IsHigh(b) /\ String!codePointToUTF8(b) = <<b>>
    BY <1>3, SMT DEF Byte, String!IsHigh, String!codePointToUTF8
  <2>2. ~String!StartsPair(s, i)
    BY <1>3, <2>1 DEF String!StartsPair
  <2>3. String!Decoded(s, i) = <<b>>
    BY <1>3, <2>1 DEF String!Decoded, String!decodeUnicodeCodePoint
  <2>4. QED
    BY <2>2, <2>3 DEF String!Taken
<1>4. QED
  BY <1>1, <1>2, <1>3, QuotedIs

(* The rest of a sequence of bytes, one byte longer.                       *)
LEMMA RestIs ==
    ASSUME NEW a \in Seq(Byte), NEW i \in 1 .. Len(a)
    PROVE  /\ String!Then(<<a[i]>>, SubSeq(a, i + 1, Len(a))) = SubSeq(a, i, Len(a))
           /\ SubSeq(a, i, Len(a)) \in Seq(Byte)
<1>1. a[i] \in Byte /\ <<a[i]>> \in Seq(Byte) /\ SubSeq(a, i + 1, Len(a)) \in Seq(Byte)
  OBVIOUS
<1>2. String!Then(<<a[i]>>, SubSeq(a, i + 1, Len(a))) = <<a[i]>> \o SubSeq(a, i + 1, Len(a))
  BY <1>1, FailedIsNone DEF String!Then
<1>3. <<a[i]>> \o SubSeq(a, i + 1, Len(a)) = SubSeq(a, i, Len(a)) /\ SubSeq(a, i, Len(a)) \in Seq(Byte)
  OBVIOUS
<1>4. QED
  BY <1>2, <1>3

(* Bytes are written so that they are read again.                          *)
LEMMA QuotedIsRead ==
    ASSUME NEW bytes \in Seq(Byte)
    PROVE  String!decodeString(String!valueToQuotedStringN(bytes)) = bytes
<1> DEFINE n == Len(bytes)
           s == String!valueToQuotedStringN(bytes)
<1>1. n \in Nat /\ DOMAIN bytes = 1 .. n
  OBVIOUS
<1>2. s \in Seq(Piece) /\ Len(s) = n /\ \A i \in 1 .. n : s[i] = String!Quoted(bytes[i])
  <2>1. s = [i \in 1 .. n |-> String!Quoted(bytes[i])]
    BY <1>1 DEF String!valueToQuotedStringN
  <2>2. \A i \in 1 .. n : String!Quoted(bytes[i]) \in Piece
    BY QuotedIs
  <2> HIDE DEF s, n
  <2>3. QED
    BY <1>1, <2>1, <2>2
<1> HIDE DEF s
<1>3. PICK h : /\ String!decodeString(s) = h[1]
               /\ h[n + 1] = <<>>
               /\ \A i \in 1 .. n :
                     h[i] = String!Then(String!Decoded(s, i), h[i + String!Taken(s, i)])
  <2>1. PICK h : /\ String!decodeString(s) = h[1]
                 /\ h[Len(s) + 1] = <<>>
                 /\ \A i \in 1 .. Len(s) :
                       h[i] = String!Then(String!Decoded(s, i), h[i + String!Taken(s, i)])
    BY <1>2, DecodeIs
  <2> HIDE DEF n
  <2>2. QED
    BY <1>2, <2>1
<1> DEFINE Rest(i) == SubSeq(bytes, i, n)
           T == {i \in 1 .. n + 1 : h[i] = Rest(i)}
<1>4. n + 1 \in T
  <2>1. Rest(n + 1) = <<>> /\ n + 1 \in 1 .. n + 1
    BY <1>1
  <2> HIDE DEF Rest, n
  <2>2. QED
    BY <1>3, <2>1
<1>5. ASSUME NEW i \in 1 .. n, \A j \in i + 1 .. n + 1 : j \in T
      PROVE  i \in T
  <2>1. bytes[i] \in Byte /\ i \in 1 .. n + 1 /\ i + 1 \in i + 1 .. n + 1
    BY <1>1
  <2>2. String!Decoded(s, i) = <<bytes[i]>> /\ String!Taken(s, i) = 1
    BY <1>2, <2>1, QuotedDecodes
  <2>3. String!Then(<<bytes[i]>>, Rest(i + 1)) = Rest(i)
    BY RestIs
  <2> HIDE DEF Rest, n
  <2>4. h[i + 1] = Rest(i + 1)
    BY <1>5, <2>1
  <2>5. QED
    BY <1>3, <2>1, <2>2, <2>3, <2>4
<1>6. \A i \in 1 .. n + 1 : i \in T
  <2> HIDE DEF T, n
  <2>1. QED
    BY <1>1, <1>4, <1>5, Downwards
<1>7. h[1] = Rest(1)
  <2> HIDE DEF Rest, n
  <2>1. 1 \in 1 .. n + 1
    BY <1>1
  <2>2. QED
    BY <1>6, <2>1
<1>8. Rest(1) = bytes
  OBVIOUS
<1>9. QED
  BY <1>3, <1>7, <1>8 DEF s

(* Whatever is typed is a sequence of pieces.                              *)
LEMMA Typed == String!StringAssumption /\ String!Spec => [](pieces \in Seq(Piece))
<1>1. String!Init => pieces \in Seq(Piece)
  BY DEF String!Init
<1>2. ASSUME String!StringAssumption, pieces \in Seq(Piece), [String!Next]_pieces
      PROVE  pieces' \in Seq(Piece)
  <2>1. Bytes \subseteq Byte
    BY <1>2 DEF String!StringAssumption, Byte
  <2>2. Units \subseteq {u \in Nat : u <= 65535}
    BY <1>2 DEF String!StringAssumption
  <2>3. CASE UNCHANGED pieces
    BY <1>2, <2>3
  <2>4. ASSUME NEW p \in {String!Plain(b) : b \in Bytes} \cup {String!Escape(c) : c \in Escapes}
                            \cup {String!Unit(u) : u \in Units},
               pieces' = Append(pieces, p)
        PROVE  pieces' \in Seq(Piece)
    <3>1. p \in Piece
      BY <2>1, <2>2, <2>4 DEF Piece
    <3>2. QED
      BY <1>2, <2>4, <3>1
  <2>5. QED
    BY <1>2, <2>3, <2>4 DEF String!Next
<1>3. String!StringAssumption /\ pieces \in Seq(Piece) /\ [String!Next]_pieces
      => pieces' \in Seq(Piece)
  BY <1>2
<1>4. String!StringAssumption => String!StringAssumption'
  BY DEF String!StringAssumption
<1>5. (pieces \in Seq(Piece))' <=> pieces' \in Seq(Piece)
  BY DEF Piece
<1>6. QED
  BY <1>1, <1>3, <1>4, <1>5, PTL DEF String!Spec

(* Every string of JSON, of any length, is read as the UTF-8 of what it    *)
(* says, its surrogate pairs as one character each, or refused if it has an*)
(* unknown escape; and what was read from any string, stray surrogates and *)
(* NULs in it or not, is quoted so that it is read again (decodeString,    *)
(* decodeUnicodeCodePoint, codePointToUTF8, valueToQuotedStringN).         *)
THEOREM StringsAreRead == String!StringAssumption /\ String!Spec => []StringsComeBack
<1>1. ASSUME pieces \in Seq(Piece) PROVE StringsComeBack
  <2>1. String!ReadAsUtf8
    BY <1>1, WellFormedIsRead DEF String!ReadAsUtf8
  <2>2. String!UnknownRefused
    BY <1>1, UnknownFails DEF String!UnknownRefused
  <2>3. String!ReadAgain
    <3>1. String!decodeString(pieces) \in Value
      BY <1>1, DecodeTypes
    <3>2. QED
      BY <3>1, QuotedIsRead DEF Value, String!ReadAgain
  <2>4. QED
    BY <2>1, <2>2, <2>3 DEF StringsComeBack, String!StringsComeBack
<1>2. QED
  BY <1>1, Typed, PTL

-----------------------------------------------------------------------------
(* JsonArray.                                                              *)

(* A set of numbers below a bound has a greatest one.                      *)
LEMMA Greatest ==
    ASSUME NEW n \in Nat, NEW T \in SUBSET (0 .. n - 1), T # {}
    PROVE  \E x \in T : \A y \in T : y <= x
<1> DEFINE Gaps == {n - x : x \in T}
<1>1. PICK R : /\ IsWellFoundedOn(R, Nat)
               /\ \A a, b \in Nat : a < b => <<a, b>> \in R
  BY LessThan
<1>2. \A x \in T : x \in Nat /\ n - x \in Nat
  OBVIOUS
<1>3. Gaps \in SUBSET Nat /\ Gaps # {}
  BY <1>2
<1>4. \E g \in Gaps : \A h \in Gaps : ~ (<<h, g>> \in R)
  <2> HIDE DEF Gaps
  <2>1. IsWellFoundedOn(R, Nat)
    BY <1>1
  <2>2. QED
    BY <1>3, <2>1, WFMin, Zenon
<1>5. PICK x \in T : \A y \in T : ~ (<<n - y, n - x>> \in R)
  BY <1>4
<1>6. ASSUME NEW y \in T PROVE y <= x
  <2>1. n - x \in Nat /\ n - y \in Nat /\ x \in Nat /\ y \in Nat
    BY <1>2
  <2>2. ~ (n - y < n - x)
    BY <1>1, <1>5, <2>1
  <2>3. QED
    BY <2>1, <2>2
<1>7. QED
  BY <1>6

(* What the code keeps of an array: a map within its bound.                *)
IsArray(m) ==
    /\ m = [i \in DOMAIN m |-> m[i]]
    /\ DOMAIN m \in SUBSET (0 .. MaxLen - 1)
    /\ \A i \in DOMAIN m : m[i] \in Element

(* The size is the one number that is no index but follows the last one.   *)
LEMMA SizeIs ==
    ASSUME Array!ArrayAssumption, NEW m, DOMAIN m \in SUBSET (0 .. MaxLen - 1)
    PROVE  /\ Array!Size(m) \in 0 .. MaxLen
           /\ \A i \in DOMAIN m : i \in Nat /\ i < Array!Size(m)
           /\ Array!Size(m) # 0 => Array!Size(m) - 1 \in DOMAIN m
<1>1. MaxLen \in Nat
  BY DEF Array!ArrayAssumption
<1>2. CASE DOMAIN m = {}
  BY <1>1, <1>2 DEF Array!Size
<1>3. CASE DOMAIN m # {}
  <2>1. \E i \in DOMAIN m : \A j \in DOMAIN m : j <= i
    BY <1>1, <1>3, Greatest
  <2>2. /\ Array!LastIndex(m) \in DOMAIN m
        /\ \A j \in DOMAIN m : j <= Array!LastIndex(m)
    BY <2>1 DEF Array!LastIndex
  <2>3. Array!Size(m) = Array!LastIndex(m) + 1
    BY <1>3 DEF Array!Size
  <2>4. \A i \in DOMAIN m : i \in 0 .. MaxLen - 1
    OBVIOUS
  <2> HIDE DEF Array!LastIndex
  <2>5. QED
    BY <1>1, <2>2, <2>3, <2>4
<1>4. QED
  BY <1>2, <1>3

(* Only one number is no index and follows the last one.                   *)
LEMMA SizeIsOnly ==
    ASSUME Array!ArrayAssumption, NEW m, DOMAIN m \in SUBSET (0 .. MaxLen - 1),
           NEW n \in Nat, \A i \in DOMAIN m : i < n, n # 0 => n - 1 \in DOMAIN m
    PROVE  Array!Size(m) = n
<1>1. /\ Array!Size(m) \in Nat
      /\ \A i \in DOMAIN m : i \in Nat /\ i < Array!Size(m)
      /\ Array!Size(m) # 0 => Array!Size(m) - 1 \in DOMAIN m
  BY SizeIs DEF Array!ArrayAssumption
<1>2. n <= Array!Size(m)
  BY <1>1
<1>3. Array!Size(m) <= n
  BY <1>1
<1>4. QED
  BY <1>1, <1>2, <1>3

(* The sequence that a map shows: AsSequence, of any map.                  *)
Shows(m) == [k \in 1 .. Array!Size(m) |-> Array!At(m, k - 1)]

(* What a map shows is a sequence of elements, as long as its size.        *)
LEMMA ShowsIs ==
    ASSUME Array!ArrayAssumption, NEW m, IsArray(m)
    PROVE  /\ Array!Size(m) \in 0 .. MaxLen
           /\ Shows(m) \in Seq(Element)
           /\ DOMAIN Shows(m) = 1 .. Array!Size(m)
           /\ Len(Shows(m)) = Array!Size(m)
           /\ \A k \in 1 .. Array!Size(m) : Shows(m)[k] = Array!At(m, k - 1)
<1>1. Array!Size(m) \in 0 .. MaxLen /\ MaxLen \in Nat
  BY SizeIs DEF IsArray, Array!ArrayAssumption
<1>2. \A k \in 1 .. Array!Size(m) : Array!At(m, k - 1) \in Element
  BY DEF IsArray, Array!At, Array!ArrayAssumption
<1>3. Shows(m) \in [1 .. Array!Size(m) -> Element]
  BY <1>2 DEF Shows
<1>4. Shows(m) \in Seq(Element) /\ Len(Shows(m)) = Array!Size(m)
  BY <1>1, <1>3
<1>5. QED
  BY <1>1, <1>4 DEF Shows

(* operator[](i) = v writes element i and makes the sequence longer if     *)
(* need be.                                                                *)
LEMMA PutShows ==
    ASSUME Array!ArrayAssumption, NEW m, IsArray(m),
           NEW i \in 0 .. MaxLen - 1, NEW v \in Element
    PROVE  /\ IsArray(Array!Put(m, i, v))
           /\ Shows(Array!Put(m, i, v)) =
                [k \in 1 .. (IF i < Array!Size(m) THEN Array!Size(m) ELSE i + 1) |->
                    IF k = i + 1 THEN v
                    ELSE IF k <= Array!Size(m) THEN Array!At(m, k - 1) ELSE Null]
<1> DEFINE w == Array!Put(m, i, v)
           n == IF i < Array!Size(m) THEN Array!Size(m) ELSE i + 1
<1>1. /\ MaxLen \in Nat
      /\ Array!Size(m) \in 0 .. MaxLen
      /\ \A j \in DOMAIN m : j \in Nat /\ j < Array!Size(m)
      /\ Array!Size(m) # 0 => Array!Size(m) - 1 \in DOMAIN m
  BY SizeIs DEF IsArray, Array!ArrayAssumption
<1>2. /\ DOMAIN w = DOMAIN m \cup {i}
      /\ \A j \in DOMAIN w : w[j] = IF j = i THEN v ELSE m[j]
      /\ w = [j \in DOMAIN w |-> w[j]]
  BY DEF Array!Put
<1> HIDE DEF w
<1>3. IsArray(w)
  BY <1>1, <1>2 DEF IsArray
<1>4. Array!Size(w) = n
  <2>1. n \in Nat /\ n # 0 /\ n - 1 \in DOMAIN w
    BY <1>1, <1>2
  <2>2. \A j \in DOMAIN w : j < n
    BY <1>1, <1>2
  <2>3. QED
    BY <1>3, <2>1, <2>2, SizeIsOnly DEF IsArray
<1>5. \A k \in 1 .. n : Array!At(w, k - 1) =
            IF k = i + 1 THEN v ELSE IF k <= Array!Size(m) THEN Array!At(m, k - 1) ELSE Null
  BY <1>1, <1>2 DEF Array!At
<1>6. Shows(w) = [k \in 1 .. n |-> IF k = i + 1 THEN v
                    ELSE IF k <= Array!Size(m) THEN Array!At(m, k - 1) ELSE Null]
  BY <1>4, <1>5 DEF Shows
<1>7. QED
  BY <1>3, <1>6 DEF w

(* Erasing keeps a map within its bound.                                   *)
LEMMA EraseIsArray ==
    ASSUME NEW m, IsArray(m), NEW gone
    PROVE  IsArray(Array!Erase(m, gone))
BY DEF IsArray, Array!Erase

(* The resize of JsonSequence.                                             *)
LEMMA EraseShows ==
    ASSUME Array!ArrayAssumption, NEW m, IsArray(m), NEW n \in 0 .. Array!Size(m),
           NEW gone, gone = {j \in DOMAIN m : j >= n}, Array!Size(Array!Erase(m, gone)) = n
    PROVE  Shows(Array!Erase(m, gone)) = [k \in 1 .. n |-> Array!At(m, k - 1)]
<1>1. Array!Size(m) \in 0 .. MaxLen /\ MaxLen \in Nat
  BY SizeIs DEF IsArray, Array!ArrayAssumption
<1>2. \A k \in 1 .. n : Array!At(Array!Erase(m, gone), k - 1) = Array!At(m, k - 1)
  BY <1>1 DEF Array!At, Array!Erase
<1>3. QED
  BY <1>2 DEF Shows

(* Where removeIndex leaves an element: one place further down if it was   *)
(* behind the one removed.                                                 *)
LEMMA ShiftDomain ==
    ASSUME Array!ArrayAssumption, IsArray(map), NEW i \in DOMAIN map
    PROVE  /\ Array!Size(map) \in 0 .. MaxLen
           /\ i \in 0 .. Array!Size(map) - 1
           /\ DOMAIN Array!ShiftedLeft(i) =
                 (DOMAIN map \cup i .. Array!Size(map) - 2) \ {Array!Size(map) - 1}
           /\ \A j \in DOMAIN Array!ShiftedLeft(i) :
                 Array!ShiftedLeft(i)[j] = IF j < i THEN map[j] ELSE Array!At(map, j + 1)
           /\ IsArray(Array!ShiftedLeft(i))
<1>1. /\ MaxLen \in Nat
      /\ Array!Size(map) \in 0 .. MaxLen
      /\ \A j \in DOMAIN map : j \in Nat /\ j < Array!Size(map)
  BY SizeIs DEF IsArray, Array!ArrayAssumption
<1> DEFINE w == Array!ShiftedLeft(i)
<1>2. /\ DOMAIN w = (DOMAIN map \cup i .. Array!Size(map) - 2) \ {Array!Size(map) - 1}
      /\ \A j \in DOMAIN w : w[j] = IF j < i THEN map[j] ELSE Array!At(map, j + 1)
      /\ w = [j \in DOMAIN w |-> w[j]]
  BY DEF Array!ShiftedLeft
<1> HIDE DEF w
<1>3. \A j \in DOMAIN w : j \in 0 .. MaxLen - 1 /\ (j < i => j \in DOMAIN map)
  BY <1>1, <1>2
<1>4. \A j \in DOMAIN w : w[j] \in Element
  BY <1>2, <1>3 DEF IsArray, Array!At, Array!ArrayAssumption
<1>5. IsArray(w)
  BY <1>2, <1>3, <1>4 DEF IsArray
<1>6. QED
  BY <1>1, <1>2, <1>5 DEF w

(* removeIndex of an element that is not the last moves the others one to  *)
(* the left.                                                               *)
LEMMA ShiftShows ==
    ASSUME Array!ArrayAssumption, IsArray(map), NEW i \in DOMAIN map,
           i # Array!Size(map) - 1
    PROVE  Shows(Array!ShiftedLeft(i)) =
             [k \in 1 .. Array!Size(map) - 1 |->
                 IF k <= i THEN Array!At(map, k - 1) ELSE Array!At(map, k)]
<1> DEFINE w == Array!ShiftedLeft(i)
           n == Array!Size(map) - 1
<1>1. MaxLen \in Nat /\ Array!Size(map) \in 0 .. MaxLen /\ i \in 0 .. Array!Size(map) - 1
  BY ShiftDomain DEF Array!ArrayAssumption
<1>2. /\ i \in Nat /\ i < n /\ n \in Nat /\ MaxLen \in Nat
      /\ DOMAIN w = (DOMAIN map \cup i .. n - 1) \ {n}
      /\ \A j \in DOMAIN w : w[j] = IF j < i THEN map[j] ELSE Array!At(map, j + 1)
      /\ IsArray(w)
  <2>1. i \in Nat /\ i < n /\ n \in Nat /\ Array!Size(map) - 2 = n - 1
    BY <1>1
  <2>2. QED
    BY <1>1, <2>1, ShiftDomain
<1>3. \A j \in DOMAIN map : j \in Nat /\ j <= n
  BY SizeIs DEF IsArray, Array!ArrayAssumption
<1> HIDE DEF w
<1>4. Array!Size(w) = n
  <2>1. n # 0 /\ n - 1 \in DOMAIN w
    BY <1>2
  <2>2. \A j \in DOMAIN w : j < n
    BY <1>2, <1>3
  <2> HIDE DEF n
  <2>3. QED
    BY <1>2, <2>1, <2>2, SizeIsOnly DEF IsArray
<1>5. \A k \in 1 .. n : Array!At(w, k - 1) =
            IF k <= i THEN Array!At(map, k - 1) ELSE Array!At(map, k)
  <2> SUFFICES ASSUME NEW k \in 1 .. n
               PROVE  Array!At(w, k - 1) =
                        IF k <= i THEN Array!At(map, k - 1) ELSE Array!At(map, k)
    OBVIOUS
  <2> HIDE DEF n
  <2>1. CASE k <= i
    <3>1. k - 1 \in DOMAIN w <=> k - 1 \in DOMAIN map
      BY <1>2, <2>1
    <3>2. QED
      BY <1>2, <2>1, <3>1 DEF Array!At
  <2>2. CASE k > i
    <3>1. k - 1 \in DOMAIN w /\ w[k - 1] = Array!At(map, k)
      BY <1>2, <2>2
    <3>2. QED
      BY <1>2, <2>2, <3>1 DEF Array!At
  <2>3. QED
    BY <1>2, <2>1, <2>2
<1>6. QED
  BY <1>4, <1>5 DEF Shows, w

(* Without the last element, what is behind it is erased, and nothing is.  *)
LEMMA DropErases ==
    ASSUME Array!ArrayAssumption, IsArray(map), NEW i \in DOMAIN map,
           i = Array!Size(map) - 1
    PROVE  Array!ShiftedLeft(i) = Array!Erase(map, Array!Behind(i))
<1>1. \A j \in DOMAIN map : j \in Nat /\ j <= i
  <2>1. \A j \in DOMAIN map : j \in Nat /\ j < Array!Size(map)
    BY SizeIs DEF IsArray, Array!ArrayAssumption
  <2>2. MaxLen \in Nat /\ Array!Size(map) \in 0 .. MaxLen
    BY SizeIs DEF IsArray, Array!ArrayAssumption
  <2>3. QED
    BY <2>1, <2>2
<1>2. i .. Array!Size(map) - 2 = {} /\ Array!Size(map) - 1 = i /\ i \in Nat
  <2>1. MaxLen \in Nat /\ Array!Size(map) \in 0 .. MaxLen /\ i \in 0 .. Array!Size(map) - 1
    BY ShiftDomain DEF Array!ArrayAssumption
  <2>2. QED
    BY <2>1
<1>3. (DOMAIN map \cup i .. Array!Size(map) - 2) \ {Array!Size(map) - 1}
         = DOMAIN map \ Array!Behind(i)
  BY <1>1, <1>2 DEF Array!Behind
<1>4. \A j \in DOMAIN map \ Array!Behind(i) : j < i
  BY <1>1, <1>2 DEF Array!Behind
<1>5. QED
  BY <1>3, <1>4 DEF Array!ShiftedLeft, Array!Erase

(* A map that is cut where it has no hole is as long as it was cut.        *)
LEMMA CutSize ==
    ASSUME Array!ArrayAssumption, IsArray(map), NEW n \in 0 .. Array!Size(map),
           n = 0 \/ n - 1 \in DOMAIN map
    PROVE  Array!Size(Array!Erase(map, Array!Behind(n))) = n
<1> DEFINE w == Array!Erase(map, Array!Behind(n))
<1>1. n \in Nat /\ \A j \in DOMAIN map : j \in Nat
  BY SizeIs DEF IsArray, Array!ArrayAssumption
<1>2. DOMAIN w = {j \in DOMAIN map : j < n}
  BY <1>1 DEF Array!Erase, Array!Behind
<1>3. DOMAIN w \in SUBSET (0 .. MaxLen - 1) /\ \A j \in DOMAIN w : j < n
  BY <1>2 DEF IsArray
<1>4. n # 0 => n - 1 \in DOMAIN w
  BY <1>1, <1>2
<1> HIDE DEF w
<1>5. Array!Size(w) = n
  BY <1>1, <1>3, <1>4, SizeIsOnly
<1>6. QED
  BY <1>5 DEF w

-----------------------------------------------------------------------------
(* A step of the array is the step of the sequence that it shows.          *)
ArrayInv == Array!ArrayAssumption /\ IsArray(map)

(* operator[] and what is assigned to it.                                  *)
LEMMA AssignMaps ==
    ASSUME ArrayInv, NEW i \in 0 .. MaxLen - 1, NEW v \in Element, Array!Assign(i, v)
    PROVE  IsArray(map)' /\ Array!Abstract!Assign(i, v)
<1>1. map' = Array!Put(map, i, v)
  BY DEF Array!Assign
<1>2. IsArray(map')
  BY <1>1, PutShows DEF ArrayInv
<1>3. /\ Array!AsSequence = Shows(map)
      /\ Array!AsSequence' = Shows(map')
  BY DEF Array!AsSequence, Shows, Array!Size, Array!At, Array!LastIndex
<1> DEFINE n == Array!Size(map)
<1>4. /\ n \in Nat /\ Len(Shows(map)) = n /\ DOMAIN Shows(map) = 1 .. n
      /\ \A k \in 1 .. n : Shows(map)[k] = Array!At(map, k - 1)
  BY ShowsIs DEF ArrayInv, Array!ArrayAssumption
<1>5. Shows(map') = [k \in 1 .. (IF i < n THEN n ELSE i + 1) |->
                        IF k = i + 1 THEN v
                        ELSE IF k <= n THEN Array!At(map, k - 1) ELSE Null]
  BY <1>1, PutShows DEF ArrayInv
<1> HIDE DEF n
<1>6. CASE i < n
  <2>1. Shows(map') = [Shows(map) EXCEPT ![i + 1] = v]
    <3>1. Shows(map') = [k \in 1 .. n |-> IF k = i + 1 THEN v ELSE Array!At(map, k - 1)]
      BY <1>4, <1>5, <1>6
    <3>2. Shows(map) = [k \in 1 .. n |-> Array!At(map, k - 1)] /\ i + 1 \in 1 .. n
      BY <1>4, <1>6 DEF Shows, n
    <3>3. QED
      BY <3>1, <3>2
  <2>2. QED
    BY <1>2, <1>3, <1>4, <1>6, <2>1 DEF Array!Abstract!Assign
<1>7. CASE ~(i < n)
  <2>1. Array!Abstract!Resized(Shows(map), i + 1) =
          [k \in 1 .. i + 1 |-> IF k <= n THEN Array!At(map, k - 1) ELSE Null]
    BY <1>4 DEF Array!Abstract!Resized
  <2>2. Shows(map') = [Array!Abstract!Resized(Shows(map), i + 1) EXCEPT ![i + 1] = v]
    <3>1. Shows(map') = [k \in 1 .. i + 1 |-> IF k = i + 1 THEN v
                            ELSE IF k <= n THEN Array!At(map, k - 1) ELSE Null]
      BY <1>5, <1>7
    <3>2. i + 1 \in 1 .. i + 1
      OBVIOUS
    <3>3. QED
      BY <2>1, <3>1, <3>2
  <2>3. QED
    BY <1>2, <1>3, <1>4, <1>7, <2>2 DEF Array!Abstract!Assign
<1>8. QED
  BY <1>6, <1>7

(* An erasure of all behind a size that is then the size.                  *)
LEMMA CutMaps ==
    ASSUME ArrayInv, NEW n \in 0 .. Array!Size(map),
           map' = Array!Erase(map, Array!Behind(n)), Array!Size(map') = n
    PROVE  IsArray(map)' /\ Array!Abstract!Resize(n)
<1>1. IsArray(map')
  BY EraseIsArray DEF ArrayInv
<1>2. /\ Array!AsSequence = Shows(map)
      /\ Array!AsSequence' = Shows(map')
  BY DEF Array!AsSequence, Shows, Array!Size, Array!At, Array!LastIndex
<1>3. Shows(map') = [k \in 1 .. n |-> Array!At(map, k - 1)]
  BY EraseShows DEF ArrayInv, Array!Behind
<1>4. Array!Abstract!Resized(Shows(map), n) = [k \in 1 .. n |-> Array!At(map, k - 1)]
  <2>1. /\ Array!Size(map) \in Nat /\ DOMAIN Shows(map) = 1 .. Array!Size(map)
        /\ \A k \in 1 .. Array!Size(map) : Shows(map)[k] = Array!At(map, k - 1)
    BY ShowsIs DEF ArrayInv, Array!ArrayAssumption
  <2>2. QED
    BY <2>1 DEF Array!Abstract!Resized
<1>5. QED
  BY <1>1, <1>2, <1>3, <1>4 DEF Array!Abstract!Resize

(* clear is resize(0).                                                     *)
LEMMA ClearMaps ==
    ASSUME ArrayInv, Array!clear
    PROVE  IsArray(map)' /\ Array!Abstract!Resize(0)
<1>1. 0 \in 0 .. Array!Size(map) /\ \A j \in DOMAIN map : j \in Nat
  BY SizeIs DEF ArrayInv, IsArray, Array!ArrayAssumption
<1>2. Array!Behind(0) = DOMAIN map
  BY <1>1 DEF Array!Behind
<1>3. map' = Array!Erase(map, Array!Behind(0))
  BY <1>2 DEF Array!clear
<1>4. Array!Size(map') = 0
  BY <1>2, <1>3 DEF Array!Erase, Array!Size
<1>5. QED
  BY <1>1, <1>3, <1>4, CutMaps

(* removeIndex moves what follows one place down; the last element goes    *)
(* with the holes before it, if there are any.                             *)
LEMMA RemoveMaps ==
    ASSUME ArrayInv, NEW i \in 0 .. MaxLen - 1, Array!removeIndex(i)
    PROVE  IsArray(map)' /\ (Array!Abstract!Remove(i) \/ Array!CutAtHole)
<1>1. i \in DOMAIN map /\ map' = Array!ShiftedLeft(i)
  BY DEF Array!removeIndex
<1>2. IsArray(map')
  BY <1>1, ShiftDomain DEF ArrayInv
<1>3. /\ Array!AsSequence = Shows(map)
      /\ Array!AsSequence' = Shows(map')
  BY DEF Array!AsSequence, Shows, Array!Size, Array!At, Array!LastIndex
<1>4. /\ Array!Size(map) \in Nat /\ Len(Shows(map)) = Array!Size(map)
      /\ DOMAIN Shows(map) = 1 .. Array!Size(map)
      /\ \A k \in 1 .. Array!Size(map) : Shows(map)[k] = Array!At(map, k - 1)
  BY ShowsIs DEF ArrayInv, Array!ArrayAssumption
<1>5. i \in Nat /\ i < Array!Size(map)
  <2>1. i \in 0 .. Array!Size(map) - 1
    BY <1>1, ShiftDomain DEF ArrayInv
  <2>2. QED
    BY <1>4, <2>1
<1>6. ASSUME Shows(map') = [k \in 1 .. Array!Size(map) - 1 |->
                              IF k <= i THEN Array!At(map, k - 1) ELSE Array!At(map, k)]
      PROVE  Array!Abstract!Remove(i)
  <2>1. \A k \in 1 .. Array!Size(map) - 1 :
           /\ Shows(map)[k] = Array!At(map, k - 1)
           /\ Shows(map)[k + 1] = Array!At(map, k)
    BY <1>4
  <2>2. Array!AsSequence' = Array!Abstract!Without(i)
    BY <1>3, <1>4, <1>6, <2>1 DEF Array!Abstract!Without
  <2>3. QED
    BY <1>3, <1>4, <1>5, <2>2 DEF Array!Abstract!Remove
<1>7. CASE i # Array!Size(map) - 1
  BY <1>1, <1>2, <1>6, <1>7, ShiftShows DEF ArrayInv
<1>8. CASE i = Array!Size(map) - 1
  <2>1. map' = Array!Erase(map, Array!Behind(i))
    BY <1>1, <1>8, DropErases DEF ArrayInv
  <2>2. CASE i = 0 \/ i - 1 \in DOMAIN map
    <3>1. i \in 0 .. Array!Size(map)
      BY <1>4, <1>5
    <3>2. Array!Size(map') = i
      BY <2>1, <2>2, <3>1, CutSize DEF ArrayInv
    <3>3. Shows(map') = [k \in 1 .. i |-> Array!At(map, k - 1)]
      BY <2>1, <3>1, <3>2, EraseShows DEF ArrayInv, Array!Behind
    <3>4. QED
      BY <1>2, <1>6, <1>8, <3>3
  <2>3. CASE ~(i = 0 \/ i - 1 \in DOMAIN map)
    <3>1. i \in 1 .. Array!Size(map)
      BY <1>4, <1>5, <2>3
    <3>2. QED
      BY <1>2, <2>1, <2>3, <3>1 DEF Array!CutAtHole
  <2>4. QED
    BY <2>2, <2>3
<1>9. QED
  BY <1>7, <1>8

(* resize fails its assertion only where it cuts the array at a hole.      *)
LEMMA AbortCutsAtHole ==
    ASSUME ArrayInv, NEW n \in 0 .. MaxLen, Array!ResizeAborts(n)
    PROVE  IsArray(map)' /\ Array!CutAtHole
<1>1. /\ n \in 1 .. Array!Size(map) /\ map' = Array!Erase(map, Array!Behind(n))
      /\ Array!Size(Array!Erase(map, Array!Behind(n))) # n
  BY DEF Array!ResizeAborts
<1>2. n - 1 \notin DOMAIN map
  <2>1. n \in 0 .. Array!Size(map)
    BY <1>1
  <2>2. QED
    BY <1>1, <2>1, CutSize DEF ArrayInv
<1>3. QED
  BY <1>1, <1>2, EraseIsArray DEF ArrayInv, Array!CutAtHole

(* Every step of the array maps to a step or a stutter, but for a cut at a *)
(* hole.                                                                   *)
SequenceStep == (Array!Abstract!Next /\ ~aborted') \/ Array!CutAtHole

LEMMA ArrayStep ==
    ASSUME ArrayInv, [Array!Next]_(Array!vars)
    PROVE  IsArray(map)' /\ [SequenceStep]_<<Array!AsSequence, aborted>>
<1> USE DEF Array!Indices
<1>1. MaxLen \in Nat /\ Null \in Element /\ Array!Size(map) \in 0 .. MaxLen
  BY SizeIs DEF ArrayInv, IsArray, Array!ArrayAssumption
<1>2. ASSUME NEW i \in 0 .. MaxLen - 1, NEW v \in Element, Array!Assign(i, v)
      PROVE  IsArray(map)' /\ SequenceStep
  BY <1>2, AssignMaps DEF Array!Abstract!Next, Array!Assign, SequenceStep
<1>3. ASSUME NEW i \in 0 .. MaxLen - 1, Array!Touch(i)
      PROVE  IsArray(map)' /\ SequenceStep
  <2>1. Array!At(map, i) \in Element
    BY <1>1 DEF ArrayInv, IsArray, Array!At
  <2>2. QED
    BY <1>2, <1>3, <2>1 DEF Array!Touch
<1>4. ASSUME NEW v \in Element, Array!append(v)
      PROVE  IsArray(map)' /\ SequenceStep
  BY <1>1, <1>2, <1>4 DEF Array!append
<1>5. ASSUME Array!clear
      PROVE  IsArray(map)' /\ SequenceStep
  BY <1>1, <1>5, ClearMaps DEF Array!Abstract!Next, Array!clear, SequenceStep
<1>6. ASSUME NEW n \in 0 .. MaxLen, Array!resize(n)
      PROVE  IsArray(map)' /\ SequenceStep
  <2>1. CASE n > Array!Size(map) /\ Array!Touch(n - 1)
    BY <1>1, <1>3, <2>1
  <2>2. CASE /\ n \in 1 .. Array!Size(map) /\ ~aborted'
             /\ Array!Size(Array!Erase(map, Array!Behind(n))) = n
             /\ map' = Array!Erase(map, Array!Behind(n))
    BY <1>1, <2>2, CutMaps DEF Array!Abstract!Next, SequenceStep
  <2>3. QED
    BY <1>5, <1>6, <2>1, <2>2 DEF Array!resize
<1>7. ASSUME NEW n \in 0 .. MaxLen, Array!ResizeAborts(n)
      PROVE  IsArray(map)' /\ SequenceStep
  BY <1>7, AbortCutsAtHole DEF SequenceStep
<1>8. ASSUME NEW i \in 0 .. MaxLen - 1, Array!removeIndex(i)
      PROVE  IsArray(map)' /\ SequenceStep
  <2>1. ~aborted'
    BY <1>8 DEF Array!removeIndex
  <2>2. QED
    BY <1>8, <2>1, RemoveMaps DEF Array!Abstract!Next, SequenceStep
<1>9. ASSUME UNCHANGED Array!vars
      PROVE  IsArray(map)' /\ UNCHANGED <<Array!AsSequence, aborted>>
  BY <1>9 DEF ArrayInv, IsArray, Array!vars, Array!AsSequence, Array!Size, Array!At,
              Array!LastIndex
<1>10. QED
  BY <1>2, <1>3, <1>4, <1>5, <1>6, <1>7, <1>8, <1>9 DEF Array!Next

(* The array of jsoncpp, however long it may become, is a plain sequence   *)
(* (JsonSequence) to whoever writes to it, resizes it, clears it and       *)
(* removes from it, and the assertion in resize holds, but where it is cut *)
(* at a hole.                                                              *)
THEOREM ArrayIsSequence == Array!ArrayAssumption /\ Array!Spec => ImplementsSequence
<1>1. Array!Init => IsArray(map) /\ Array!Abstract!Init
  BY DEF Array!Init, IsArray, Array!Abstract!Init, Array!AsSequence, Array!Size
<1>2. ArrayInv /\ [Array!Next]_(Array!vars)
        => IsArray(map)' /\ [SequenceStep]_<<Array!AsSequence, aborted>>
  BY ArrayStep
<1>3. Array!ArrayAssumption => Array!ArrayAssumption'
  BY DEF Array!ArrayAssumption
<1>4. QED
  BY <1>1, <1>2, <1>3, PTL
  DEF Array!Spec, ArrayInv, ImplementsSequence, Array!ImplementsSequence, SequenceStep

-----------------------------------------------------------------------------
(* JsonDocument and JsonReader.  The lexemes are those that are typed, what *)
(* the reader knows is typed, and a tree has its root.                      *)
Lexeme == {"", "null"} \cup UNION {k.lexemes : k \in Keyboards}
Words == Seq(Lexeme)
Key == {Document!ToString(i) : i \in Nat} \cup {Document!NameOf[x] : x \in Lexeme} \cup Lexeme
Path == Seq(Key)
Node == [kind : {"null", "leaf", "array", "object"}, leaf : Lexeme,
         before : Words, same : Words, after : Words]
Paths == {P \in SUBSET Path : <<>> \in P}   \* the root's is empty
Tree == UNION {[P -> Node] : P \in Paths}
Frame == [kind : {"array", "object"}, index : Nat, name : Key]
Tok == {"none", "end", "comment", "string", "number", "literal", "error"} \cup Document!Marks
State == [pos : Nat, tok : Tok, lex : Lexeme, depth : Nat, tree : Tree, before : Words,
          last : Path, lastEnd : Nat, dangles : BOOLEAN, out : {"ok", "error", "throw"},
          alive : BOOLEAN, p : Path, calls : Seq(Frame),
          next : {"value", "behind", "name", "none"}]

(* A comment given to a value is no part of its data.                      *)
LEMMA CommentIsNoData ==
    ASSUME NEW t \in Tree, NEW p \in Path, NEW c \in Words,
           NEW placement \in {"before", "same", "after"}
    PROVE  /\ Document!SetComment(t, p, placement, c) \in Tree
           /\ Document!Data(Document!SetComment(t, p, placement, c)) = Document!Data(t)
<1> DEFINE x == IF c # <<>> /\ Document!Last(c) = "\n" THEN Document!Front(c) ELSE c
           u == Document!SetComment(t, p, placement, c)
<1>1. x \in Words
  <2>1. ASSUME c # <<>> PROVE Document!Front(c) \in Words
    BY <2>1 DEF Document!Front, Words
  <2>2. QED
    BY <2>1
<1>2. u = [t EXCEPT ![p] = [@ EXCEPT ![placement] = x]]
  BY DEF Document!SetComment
<1> HIDE DEF x, u
<1>3. PICK P \in Paths : t \in [P -> Node]
  BY DEF Tree
<1>4. ASSUME NEW n \in Node
      PROVE  LET m == [n EXCEPT ![placement] = x]
             IN  m \in Node /\ m.kind = n.kind /\ m.leaf = n.leaf
  <2>1. CASE placement = "before"
    BY <1>1, <2>1 DEF Node
  <2>2. CASE placement = "same"
    BY <1>1, <2>2 DEF Node
  <2>3. CASE placement = "after"
    BY <1>1, <2>3 DEF Node
  <2>4. QED
    BY <2>1, <2>2, <2>3
<1>5. u \in [P -> Node] /\ \A q \in P : u[q].kind = t[q].kind /\ u[q].leaf = t[q].leaf
  <2>1. CASE p \in P
    <3> DEFINE m == [t[p] EXCEPT ![placement] = x]
    <3>1. m \in Node /\ m.kind = t[p].kind /\ m.leaf = t[p].leaf
      BY <1>3, <1>4, <2>1
    <3>2. u = [t EXCEPT ![p] = m]
      BY <1>2
    <3> HIDE DEF m
    <3>3. QED
      BY <1>3, <2>1, <3>1, <3>2
  <2>2. CASE p \notin P
    BY <1>2, <1>3, <2>2
  <2>3. QED
    BY <2>1, <2>2
<1>6. u \in Tree
  BY <1>5 DEF Tree
<1>7. Document!Data(u) = Document!Data(t)
  BY <1>3, <1>5 DEF Document!Data
<1>8. QED
  BY <1>6, <1>7 DEF u

(* A path that is not longer is no extension.                              *)
LEMMA Longer ==
    ASSUME NEW a \in Path, NEW b \in Path, Len(b) <= Len(a)
    PROVE  ~Document!IsStrictPrefix(a, b)
<1> SUFFICES ASSUME Document!IsStrictPrefix(a, b) PROVE FALSE
  OBVIOUS
<1>1. Len(a) <= Len(b) /\ SubSeq(a, 1, Len(a)) = SubSeq(b, 1, Len(a)) /\ a # b
  BY DEF Document!IsStrictPrefix, Document!IsPrefix
<1>2. Len(a) = Len(b) /\ Len(a) \in Nat /\ a \in Seq(Key) /\ b \in Seq(Key)
  BY <1>1 DEF Path
<1>3. SubSeq(a, 1, Len(a)) = a /\ SubSeq(b, 1, Len(b)) = b
  BY <1>2
<1>4. QED
  BY <1>1, <1>2, <1>3

(* Value() is a node.                                                      *)
LEMMA NewNodeIs == Document!NewNode \in Node
<1> DEFINE none == Document!NoComment
           null == "null"
<1>1. none \in Words
  <2>1. <<>> \in Words
    BY DEF Words
  <2>2. QED
    BY <2>1 DEF Document!NoComment
<1>2. null \in Lexeme /\ null \in {"null", "leaf", "array", "object"}
  BY DEF Lexeme
<1>3. Document!NewNode = [kind |-> null, leaf |-> null, before |-> none,
                          same |-> none, after |-> none]
  BY DEF Document!NewNode
<1> HIDE DEF none, null
<1>4. QED
  BY <1>1, <1>2, <1>3 DEF Node

(* The trees and data of a value with one more child, and of one that gets *)
(* a new payload.                                                          *)
LEMMA ChildIs ==
    ASSUME NEW t \in Tree, NEW p \in Path, NEW k \in Key
    PROVE  /\ Document!Child(t, p, k) \in Tree
           /\ \A u \in Tree : Document!Data(u) = Document!Data(t) =>
                 Document!Data(Document!Child(u, p, k)) = Document!Data(Document!Child(t, p, k))
<1>1. Document!NewNode \in Node /\ Append(p, k) \in Path
  BY NewNodeIs DEF Path
<1> DEFINE q == Append(p, k)
           nd == Document!NewNode
<1>2. \A u : Document!Child(u, p, k) = [r \in DOMAIN u \cup {q} |-> IF r \in DOMAIN u THEN u[r] ELSE nd]
  BY DEF Document!Child
<1>3. nd \in Node /\ q \in Path
  BY <1>1
<1> HIDE DEF q, nd
<1>4. Document!Child(t, p, k) \in Tree
  <2>1. PICK P \in Paths : t \in [P -> Node]
    BY DEF Tree
  <2>2. Document!Child(t, p, k) \in [P \cup {q} -> Node]
    <3>1. DOMAIN t = P /\ \A r \in P : t[r] \in Node
      BY <2>1
    <3>2. Document!Child(t, p, k) = [r \in P \cup {q} |-> IF r \in P THEN t[r] ELSE nd]
      BY <1>2, <3>1
    <3>3. QED
      BY <1>3, <3>1, <3>2
  <2>3. P \cup {q} \in Paths
    BY <1>3 DEF Paths
  <2>4. QED
    BY <2>2, <2>3 DEF Tree
<1>5. ASSUME NEW u \in Tree, Document!Data(u) = Document!Data(t)
      PROVE  Document!Data(Document!Child(u, p, k)) = Document!Data(Document!Child(t, p, k))
  <2>1. DOMAIN u = DOMAIN t
    BY <1>5 DEF Document!Data
  <2>2. \A r \in DOMAIN t : <<u[r].kind, u[r].leaf>> = <<t[r].kind, t[r].leaf>>
    BY <1>5, <2>1 DEF Document!Data
  <2>3. \A r \in DOMAIN t : u[r].kind = t[r].kind /\ u[r].leaf = t[r].leaf
    BY <2>2
  <2> DEFINE v == Document!Child(u, p, k)
             w == Document!Child(t, p, k)
  <2>0. /\ v = [r \in DOMAIN t \cup {q} |-> IF r \in DOMAIN t THEN u[r] ELSE nd]
        /\ w = [r \in DOMAIN t \cup {q} |-> IF r \in DOMAIN t THEN t[r] ELSE nd]
    BY <1>2, <2>1, Zenon
  <2> HIDE DEF v, w
  <2>4. DOMAIN v = DOMAIN t \cup {q} /\ DOMAIN w = DOMAIN t \cup {q}
    BY <2>0
  <2>5. \A r \in DOMAIN t \cup {q} : v[r].kind = w[r].kind /\ v[r].leaf = w[r].leaf
    BY <2>0, <2>3
  <2>6. Document!Data(v) = Document!Data(w)
    BY <2>4, <2>5 DEF Document!Data
  <2>7. QED
    BY <2>6 DEF v, w
<1>6. QED
  BY <1>4, <1>5

(* swapPayload leaves a tree, and data that depend on data alone.          *)
LEMMA PayloadIs ==
    ASSUME NEW t \in Tree, NEW p \in Path, NEW leaf \in Lexeme,
           NEW kind \in {"null", "leaf", "array", "object"}
    PROVE  /\ Document!SwapPayload(t, p, kind, leaf) \in Tree
           /\ \A u \in Tree : Document!Data(u) = Document!Data(t) =>
                 Document!Data(Document!SwapPayload(u, p, kind, leaf)) =
                 Document!Data(Document!SwapPayload(t, p, kind, leaf))
<1> DEFINE Stay(u) == {r \in DOMAIN u : ~Document!IsStrictPrefix(p, r)}
           New(n) == [n EXCEPT !.kind = kind, !.leaf = leaf]
<1>1. \A u : Document!SwapPayload(u, p, kind, leaf) =
                [q \in Stay(u) |-> IF q = p THEN New(u[q]) ELSE u[q]]
  BY DEF Document!SwapPayload
<1>2. \A n \in Node : New(n) \in Node /\ New(n).kind = kind /\ New(n).leaf = leaf
  BY DEF Node
<1> HIDE DEF New
<1>3. Document!SwapPayload(t, p, kind, leaf) \in Tree
  <2>1. PICK P \in Paths : t \in [P -> Node]
    BY DEF Tree
  <2>2. Document!SwapPayload(t, p, kind, leaf) \in [Stay(t) -> Node]
    <3>1. \A r \in Stay(t) : t[r] \in Node /\ New(t[r]) \in Node
      BY <1>2, <2>1
    <3> HIDE DEF Stay
    <3>2. QED
      BY <1>1, <3>1
  <2>3. Stay(t) \in Paths
    <3>1. <<>> \in Path
      BY DEF Path
    <3>2. ~Document!IsStrictPrefix(p, <<>>)
      <4> DEFINE none == <<>>
      <4>1. Len(none) <= Len(p) /\ none \in Path
        BY <3>1 DEF Path
      <4> HIDE DEF none
      <4>2. ~Document!IsStrictPrefix(p, none)
        BY <4>1, Longer
      <4>3. QED
        BY <4>2 DEF none
    <3>3. QED
      BY <2>1, <3>2 DEF Paths
  <2>4. QED
    BY <2>2, <2>3 DEF Tree
<1>4. ASSUME NEW u \in Tree, Document!Data(u) = Document!Data(t)
      PROVE  Document!Data(Document!SwapPayload(u, p, kind, leaf)) =
             Document!Data(Document!SwapPayload(t, p, kind, leaf))
  <2>1. DOMAIN u = DOMAIN t
    BY <1>4 DEF Document!Data
  <2>2. \A r \in DOMAIN t : <<u[r].kind, u[r].leaf>> = <<t[r].kind, t[r].leaf>>
    BY <1>4, <2>1 DEF Document!Data
  <2>3. \A r \in DOMAIN t : u[r].kind = t[r].kind /\ u[r].leaf = t[r].leaf
    BY <2>2
  <2>4. Stay(u) = Stay(t)
    BY <2>1
  <2>5. \A r \in DOMAIN t : u[r] \in Node /\ t[r] \in Node
    BY <2>1 DEF Tree
  <2> HIDE DEF Stay
  <2>6. \A r \in Stay(t) : r \in DOMAIN t
    BY DEF Stay
  <2>7. QED
    BY <1>1, <1>2, <2>3, <2>4, <2>5, <2>6 DEF Document!Data
<1>5. QED
  BY <1>3, <1>4

-----------------------------------------------------------------------------
(* The blanks that are skipped.                                            *)
LEMMA SkipIs ==
    ASSUME NEW d \in Words, NEW i \in 1 .. Len(d) + 1
    PROVE  LET j == Document!skipSpaces(d, i)
           IN  /\ j \in i .. Len(d) + 1
               /\ \A k \in i .. j - 1 : d[k] \in Document!Blank
               /\ j <= Len(d) => d[j] \notin Document!Blank
<1> DEFINE T == {j \in i .. Len(d) + 1 : j <= Len(d) => d[j] \notin Document!Blank}
           n == Len(d)
<1>1. n \in Nat /\ i \in 1 .. n + 1
  BY DEF Words
<1>2. T \in SUBSET Nat /\ n + 1 \in T
  BY <1>1
<1>3. PICK j \in T : \A m \in T : j <= m
  BY <1>2, Least
<1>4. \A k \in i .. j - 1 : d[k] \in Document!Blank
  BY <1>1, <1>3
<1>5. QED
  BY <1>3, <1>4 DEF Document!skipSpaces

(* What stands in a line comment of the document is blank.                 *)
Silent(d) ==
    \A i, k \in DOMAIN d :
        (i < k /\ d[i] = "//" /\ \A j \in i .. k - 1 : d[j] # "\n") => d[k] \in Document!Blank

(* The end of a comment, of which no lexeme but the first says anything.   *)
LEMMA CommentEndIs ==
    ASSUME NEW d \in Words, NEW i \in 1 .. Len(d), d[i] \in Document!CComment \cup {"//"}
    PROVE  LET e == Document!CommentEnd(d, i)
           IN  /\ e \in i + 1 .. Len(d) + 1
               /\ Silent(d) => \A k \in i + 1 .. e - 1 : d[k] \in Document!Blank
<1> DEFINE n == Len(d)
<1>1. n \in Nat /\ i \in 1 .. n /\ DOMAIN d = 1 .. n
  BY DEF Words
<1>2. CASE d[i] \in Document!CComment
  BY <1>1, <1>2 DEF Document!CommentEnd
<1>3. CASE d[i] \notin Document!CComment
  <2> DEFINE T == {j \in i + 1 .. n + 1 : d[j - 1] = "\n" \/ j = n + 1}
             e == Document!CommentEnd(d, i)
             Is(j) == /\ \A k \in i .. j - 2 : d[k] # "\n"
                      /\ d[j - 1] = "\n" \/ j = Len(d) + 1
  <2>1. d[i] = "//"
    BY <1>3
  <2>2. T \in SUBSET Nat /\ n + 1 \in T
    BY <1>1
  <2>3. PICK j \in T : \A m \in T : j <= m
    BY <2>2, Least
  <2>4. \A k \in i .. j - 2 : d[k] # "\n"
    <3> SUFFICES ASSUME NEW k \in i .. j - 2, d[k] = "\n" PROVE FALSE
      OBVIOUS
    <3>1. k + 1 \in T /\ ~ (j <= k + 1)
      BY <1>1, <2>3
    <3>2. QED
      BY <2>3, <3>1
  <2>5. e = CHOOSE m \in i + 1 .. Len(d) + 1 : Is(m)
    BY <1>3 DEF Document!CommentEnd
  <2>6. j \in i + 1 .. Len(d) + 1 /\ Is(j)
    BY <2>3, <2>4
  <2> HIDE DEF Is, e
  <2>7. e \in i + 1 .. Len(d) + 1 /\ Is(e)
    BY <2>5, <2>6
  <2>8. ASSUME Silent(d), NEW k \in i + 1 .. e - 1 PROVE d[k] \in Document!Blank
    <3>1. \A m \in i .. k - 1 : d[m] # "\n"
      BY <1>1, <2>7 DEF Is
    <3>2. i \in DOMAIN d /\ k \in DOMAIN d /\ i < k
      BY <1>1, <2>7
    <3>3. QED
      BY <2>1, <2>8, <3>1, <3>2 DEF Silent
  <2>9. QED
    BY <2>7, <2>8 DEF e
<1>4. QED
  BY <1>2, <1>3

-----------------------------------------------------------------------------
(* What a lexeme adds to the depth.                                        *)
Opening == {"{", "["}
Closing == {"}", "]"}
Weight(l) == IF l \in Opening THEN 1 ELSE IF l \in Closing THEN 0 - 1 ELSE 0

(* No lexeme opens and closes.                                             *)
LEMMA Brackets == \A l : ~(l \in Opening /\ l \in Closing)
  BY Zenon DEF Opening, Closing

(* The sizes of sets are the same in all modules.                          *)
LEMMA SizeOf == \A S : Document!Cardinality(S) = Cardinality(S)
  BY Zenon DEF Document!Cardinality, Cardinality

(* The depth of the brackets, lexeme by lexeme.                            *)
LEMMA DepthIs ==
    ASSUME NEW d \in Words
    PROVE  /\ Document!Depth(d, 0) = 0
           /\ \A i \in Nat : /\ Document!Depth(d, i) \in Int
                             /\ Document!Depth(d, i + 1) = Document!Depth(d, i) + Weight(d[i + 1])
<1> DEFINE Of(S, i) == {j \in 1 .. i : d[j] \in S}
<1>1. ASSUME NEW S, NEW i \in Nat
      PROVE  /\ IsFiniteSet(Of(S, i)) /\ Cardinality(Of(S, i)) \in Nat
             /\ Cardinality(Of(S, i + 1)) =
                   Cardinality(Of(S, i)) + IF d[i + 1] \in S THEN 1 ELSE 0
  <2>1. IsFiniteSet(1 .. i)
    BY FS_Interval
  <2>2. IsFiniteSet(Of(S, i)) /\ Cardinality(Of(S, i)) \in Nat
    <3>1. Of(S, i) \subseteq 1 .. i
      OBVIOUS
    <3>2. QED
      BY <2>1, <3>1, FS_Subset, FS_CardinalityType
  <2>3. CASE d[i + 1] \in S
    <3>1. Of(S, i + 1) = Of(S, i) \cup {i + 1} /\ i + 1 \notin Of(S, i)
      BY <2>3
    <3>2. QED
      BY <2>2, <2>3, <3>1, FS_AddElement
  <2>4. CASE d[i + 1] \notin S
    <3>1. Of(S, i + 1) = Of(S, i)
      BY <2>4
    <3>2. QED
      BY <2>2, <2>4, <3>1
  <2>5. QED
    BY <2>2, <2>3, <2>4
<1>2. \A i : Document!Depth(d, i) = Cardinality(Of(Opening, i)) - Cardinality(Of(Closing, i))
  BY SizeOf, Zenon DEF Document!Depth, Opening, Closing
<1>3. Of(Opening, 0) = {} /\ Of(Closing, 0) = {}
  OBVIOUS
<1>4. Document!Depth(d, 0) = 0
  <2>1. Cardinality(Of(Opening, 0)) = 0 /\ Cardinality(Of(Closing, 0)) = 0
    BY <1>3, FS_EmptySet, Zenon
  <2> HIDE DEF Of
  <2>2. QED
    BY <1>2, <2>1
<1> HIDE DEF Of
<1>5. ASSUME NEW i \in Nat
      PROVE  /\ Document!Depth(d, i) \in Int
             /\ Document!Depth(d, i + 1) = Document!Depth(d, i) + Weight(d[i + 1])
  <2> DEFINE u == Cardinality(Of(Opening, i))
             v == Cardinality(Of(Closing, i))
  <2>1. /\ u \in Nat /\ v \in Nat
        /\ Cardinality(Of(Opening, i + 1)) = u + IF d[i + 1] \in Opening THEN 1 ELSE 0
        /\ Cardinality(Of(Closing, i + 1)) = v + IF d[i + 1] \in Closing THEN 1 ELSE 0
    BY <1>1, Zenon
  <2>2. /\ Document!Depth(d, i) = u - v
        /\ Document!Depth(d, i + 1) = Cardinality(Of(Opening, i + 1)) - Cardinality(Of(Closing, i + 1))
    BY <1>2, Zenon
  <2> HIDE DEF u, v
  <2>3. QED
    BY <2>1, <2>2, Brackets DEF Weight
<1>6. QED
  BY <1>4, <1>5

(* The depth stays where there is no bracket.                              *)
LEMMA DepthStaysAt ==
    ASSUME NEW d \in Words, NEW i \in Nat, NEW j \in Nat, i <= j,
           \A k \in i + 1 .. j : Weight(d[k]) = 0
    PROVE  Document!Depth(d, j) = Document!Depth(d, i)
<1>1. \A k \in i + 1 .. j : d[k] \notin Opening /\ d[k] \notin Closing
  BY DEF Weight
<1>2. {k \in 1 .. j : d[k] \in Opening} = {k \in 1 .. i : d[k] \in Opening}
  BY <1>1
<1>3. {k \in 1 .. j : d[k] \in Closing} = {k \in 1 .. i : d[k] \in Closing}
  BY <1>1
<1>4. QED
  BY <1>2, <1>3, Zenon DEF Document!Depth, Opening, Closing

(* No bracket is blank or a comment, and a token is a bracket if its       *)
(* lexeme is.                                                              *)
LEMMA TriviaWeigh == \A l \in Document!Trivia : Weight(l) = 0
<1>1. \A l \in Document!Trivia : l \notin Opening /\ l \notin Closing
  BY Zenon DEF Opening, Closing, Document!Trivia, Document!Blank, Document!CComment
<1>2. QED
  BY <1>1 DEF Weight

(* The type of a bracket or separator is itself (readToken).               *)
LEMMA TokenOf == \A l \in Document!Marks : Document!TokenType(l) = l
<1> DEFINE Known == {"''", "'a'", "'b'", "'a0'", "'0'", "'1'"}
<1>1. \A a, b : <<a, b>>[1] = a
  OBVIOUS
<1>2. \A q \in {<<"''", "">>, <<"'a'", "a">>, <<"'b'", "b">>, <<"'a0'", "a0">>,
               <<"'0'", "0">>, <<"'1'", "1">>} : q[1] \in Known
  BY <1>1, Zenon
<1>3. \A l \in Document!Strings : l \in Known
  BY <1>2, Zenon DEF Document!Strings, Document!NameOf
<1>4. \A l \in Document!Marks : l \notin Known
  BY Zenon DEF Document!Marks
<1> HIDE DEF Known
<1>5. \A l \in Document!Marks :
          l \notin Document!Strings \cup {Document!BadString} /\ l \notin Document!Numbers
          /\ l \notin Document!Literals
  <2>1. \A l \in Document!Marks :
            l # Document!BadString /\ l \notin Document!Numbers /\ l \notin Document!Literals
    BY Zenon DEF Document!Marks, Document!BadString, Document!Numbers, Document!Literals
  <2>2. QED
    BY <1>3, <1>4, <2>1, Zenon
<1>6. QED
  BY <1>5, Zenon DEF Document!TokenType

(* A token is a bracket or separator if and only if its lexeme is it.      *)
LEMMA TokenIs ==
    \A l : LET k == Document!TokenType(l)
           IN  /\ k \in Tok /\ k \notin {"none", "end", "comment"}
               /\ Weight(k) = Weight(l)
               /\ k \in Document!Marks => k = l
<1> SUFFICES ASSUME NEW l
             PROVE  LET k == Document!TokenType(l)
                    IN  /\ k \in Tok /\ k \notin {"none", "end", "comment"}
                        /\ Weight(k) = Weight(l)
                        /\ k \in Document!Marks => k = l
  OBVIOUS
<1> DEFINE k == Document!TokenType(l)
<1>1. CASE l \in Document!Marks
  <2>1. k = l
    BY <1>1, TokenOf, Zenon
  <2>2. l \notin {"none", "end", "comment"}
    BY <1>1, Zenon DEF Document!Marks
  <2>3. QED
    BY <1>1, <2>1, <2>2, Zenon DEF Tok
<1>2. CASE l \notin Document!Marks
  <2>1. k \in {"string", "number", "literal", "error"}
    BY <1>2, Zenon DEF Document!TokenType
  <2>2. \A x \in {"string", "number", "literal", "error"} :
            /\ x \notin {"none", "end", "comment"} /\ x \notin Document!Marks
            /\ x \notin Opening /\ x \notin Closing
    BY Zenon DEF Document!Marks, Opening, Closing
  <2>3. l \notin Opening /\ l \notin Closing
    BY <1>2, Zenon DEF Document!Marks, Opening, Closing
  <2>4. k \in Tok
    BY <2>1, Zenon DEF Tok
  <2>5. Weight(k) = 0 /\ Weight(l) = 0
    BY <2>1, <2>2, <2>3 DEF Weight
  <2>6. QED
    BY <2>1, <2>2, <2>4, <2>5, Zenon
<1>3. QED
  BY <1>1, <1>2

-----------------------------------------------------------------------------
(* What the reader knows, within the document.                             *)
In(d, s) == s \in State /\ s.pos \in 1 .. Len(d) + 1

(* Reading a token leaves all but the token and its comments alone.        *)
Same(s, t) ==
    /\ t.depth = s.depth /\ t.calls = s.calls /\ t.p = s.p /\ t.next = s.next
    /\ t.out = s.out /\ t.last = s.last /\ t.lastEnd = s.lastEnd /\ t.dangles = s.dangles
    /\ Document!Data(t.tree) = Document!Data(s.tree)
    /\ ~s.dangles /\ s.alive => t.alive

(* t is the reader s behind another token; only trivia stand before that,  *)
(* or are that.                                                            *)
Reads(d, s, t) ==
    /\ In(d, t) /\ Same(s, t)
    /\ t.pos >= s.pos
    /\ Silent(d) => \A k \in s.pos .. t.pos - 2 : d[k] \in Document!Trivia
    /\ t.tok = "comment" =>
          /\ \E k \in s.pos .. t.pos - 1 : d[k] \in Document!CComment \cup {"//"}
          /\ Silent(d) => d[t.pos - 1] \in Document!Trivia
    /\ t.tok # "end" => t.pos > s.pos
    /\ t.tok # "none"
    /\ t.tok \in Document!Marks => d[t.pos - 1] = t.tok
    /\ Silent(d) => Document!Depth(d, t.pos - 1) = Document!Depth(d, s.pos - 1) + Weight(t.tok)

(* The reader at another position, with another token and lexeme.          *)
At(s, i, k) == [s EXCEPT !.pos = i, !.tok = k]
AtLex(s, i, k, l) == [s EXCEPT !.pos = i, !.tok = k, !.lex = l]

(* Another position and token leave the rest of the reader alone.          *)
LEMMA Moved ==
    ASSUME NEW s \in State, NEW i \in Nat, NEW k \in Tok
    PROVE  LET t == At(s, i, k)
           IN  t \in State /\ Same(s, t) /\ t.pos = i /\ t.tok = k
<1> DEFINE t == At(s, i, k)
<1>1. t = [s EXCEPT !.pos = i, !.tok = k]
  BY DEF At
<1> HIDE DEF t
<1>2. t \in State /\ Same(s, t) /\ t.pos = i /\ t.tok = k
  BY <1>1 DEF State, Same
<1>3. QED
  BY <1>2 DEF t

(* And so does another lexeme.                                             *)
LEMMA Lexed ==
    ASSUME NEW s \in State, NEW i \in Nat, NEW k \in Tok, NEW l \in Lexeme
    PROVE  LET t == AtLex(s, i, k, l)
           IN  t \in State /\ Same(s, t) /\ t.pos = i /\ t.tok = k
<1> DEFINE t == AtLex(s, i, k, l)
<1>1. t = [s EXCEPT !.pos = i, !.tok = k, !.lex = l]
  BY DEF AtLex
<1> HIDE DEF t
<1>2. t \in State /\ Same(s, t) /\ t.pos = i /\ t.tok = k
  BY <1>1 DEF State, Same
<1>3. QED
  BY <1>2 DEF t

(* addComment leaves all alone but a comment, and the target lives if      *)
(* lastValue_ did.                                                         *)
LEMMA AddIs ==
    ASSUME NEW d \in Words, NEW s \in State, NEW i \in Nat, NEW e \in Nat,
           1 <= i, i < e, e <= Len(d) + 1
    PROVE  LET t == Document!addComment(d, s, i, e)
           IN  t \in State /\ Same(s, t) /\ t.pos = s.pos /\ t.tok = s.tok
<1> DEFINE t == Document!addComment(d, s, i, e)
           c == SubSeq(d, i, e - 1)
           u == Document!SetComment(s.tree, s.last, "same", c)
<1>1. c \in Words
  BY DEF Words
<1>2. s.tree \in Tree /\ s.last \in Path /\ s.before \in Words
  BY DEF State
<1>3. u \in Tree /\ Document!Data(u) = Document!Data(s.tree)
  BY <1>1, <1>2, CommentIsNoData
<1>4. s.before \o c \in Words
  BY <1>1, <1>2 DEF Words
<1>5. \/ t = [s EXCEPT !.alive = FALSE] /\ s.dangles
      \/ t = [s EXCEPT !.tree = u]
      \/ t = [s EXCEPT !.before = s.before \o c]
  BY Zenon DEF Document!addComment
<1> HIDE DEF t, c, u
<1> DEFINE Ok == t \in State /\ Same(s, t) /\ t.pos = s.pos /\ t.tok = s.tok
<1>6. t = [s EXCEPT !.alive = FALSE] /\ s.dangles => Ok
  BY DEF State, Same
<1>7. t = [s EXCEPT !.tree = u] => Ok
  BY <1>3 DEF State, Same
<1>8. t = [s EXCEPT !.before = s.before \o c] => Ok
  BY <1>4 DEF State, Same
<1>9. QED
  BY <1>5, <1>6, <1>7, <1>8 DEF t

(* readToken reads what Reads says, a comment or not.                      *)
LEMMA TokenReads ==
    ASSUME NEW d \in Words, NEW F, NEW s, In(d, s)
    PROVE  Reads(d, s, Document!readToken(d, F, s))
<1> DEFINE n == Len(d)
           i == Document!skipSpaces(d, s.pos)
           t == Document!readToken(d, F, s)
<1>1. n \in Nat /\ s \in State /\ s.pos \in 1 .. n + 1
  BY DEF Words, In
<1>2. /\ i \in s.pos .. n + 1
      /\ \A k \in s.pos .. i - 1 : d[k] \in Document!Trivia
  BY <1>1, SkipIs, Zenon DEF Document!Trivia
<1>3. t = IF i > n THEN [s EXCEPT !.pos = i, !.tok = "end"]
          ELSE IF d[i] \in Document!CComment \cup {"//"} THEN Document!readComment(d, F, s, i)
          ELSE [s EXCEPT !.pos = i + 1, !.tok = Document!TokenType(d[i]), !.lex = d[i]]
  BY Zenon DEF Document!readToken
<1>4. ASSUME NEW j \in Nat, i - 1 <= j, \A k \in i .. j : Weight(d[k]) = 0
      PROVE  Document!Depth(d, j) = Document!Depth(d, s.pos - 1)
  <2>1. \A k \in s.pos .. j : Weight(d[k]) = 0
    BY <1>1, <1>2, <1>4, TriviaWeigh
  <2>2. s.pos - 1 \in Nat /\ s.pos - 1 <= j /\ (s.pos - 1) + 1 = s.pos
    BY <1>1, <1>2, <1>4
  <2>3. QED
    BY <2>1, <2>2, DepthStaysAt
<1> HIDE DEF i, t, n
<1>5. ASSUME i > n PROVE Reads(d, s, t)
  <2>1. t = At(s, i, "end")
    BY <1>3, <1>5 DEF At
  <2>2. Document!Depth(d, i - 1) = Document!Depth(d, s.pos - 1)
    BY <1>1, <1>2, <1>4
  <2>3. Weight("end") = 0 /\ "end" \notin Document!Marks
    BY Zenon DEF Weight, Opening, Closing, Document!Marks
  <2>4. In(d, t) /\ Same(s, t)
    <3>1. "end" \in Tok
      BY Zenon DEF Tok
    <3>2. i \in Nat /\ t \in State /\ Same(s, t) /\ t.pos = i /\ t.tok = "end"
      BY <1>1, <1>2, <2>1, <3>1, Moved
    <3>3. QED
      BY <1>1, <1>2, <3>2 DEF In, n
  <2>5. t.pos = i /\ t.tok = "end"
    <3>1. "end" \in Tok
      BY Zenon DEF Tok
    <3>2. QED
      BY <1>1, <1>2, <2>1, <3>1, Moved
  <2>6. Document!Depth(d, s.pos - 1) \in Int
    BY <1>1, DepthIs
  <2>7. QED
    BY <1>1, <1>2, <2>2, <2>3, <2>4, <2>5, <2>6 DEF Reads
<1>6. ASSUME i <= n, d[i] \in Document!CComment \cup {"//"} PROVE Reads(d, s, t)
  <2> DEFINE e == Document!CommentEnd(d, i)
             r == At(s, e, "comment")
  <2>1. t = IF F.collectComments THEN Document!addComment(d, r, i, e) ELSE r
    BY <1>1, <1>2, <1>3, <1>6 DEF Document!readComment, At
  <2>2. /\ e \in i + 1 .. n + 1
        /\ Silent(d) => \A k \in i + 1 .. e - 1 : d[k] \in Document!Trivia
        /\ d[i] \in Document!Trivia
    <3>1. i \in 1 .. Len(d)
      BY <1>1, <1>2, <1>6 DEF n
    <3>2. QED
      BY <1>6, <3>1, CommentEndIs, Zenon DEF n, Document!Trivia
  <2> HIDE DEF e
  <2>3. r \in State /\ r.pos = e /\ r.tok = "comment" /\ Same(s, r)
    <3>1. "comment" \in Tok
      BY Zenon DEF Tok
    <3>2. e \in Nat
      BY <1>1, <1>2, <2>2
    <3>3. QED
      BY <1>1, <3>1, <3>2, Moved
  <2> HIDE DEF r
  <2>4. t \in State /\ Same(r, t) /\ t.pos = e /\ t.tok = "comment"
    <3>1. CASE t = r
      BY <2>3, <3>1 DEF Same
    <3>2. CASE t = Document!addComment(d, r, i, e)
      BY <1>1, <1>2, <2>2, <2>3, <3>2, AddIs DEF n
    <3>3. QED
      BY <2>1, <3>1, <3>2
  <2>5. Silent(d) => Document!Depth(d, e - 1) = Document!Depth(d, s.pos - 1)
    <3>1. ASSUME Silent(d) PROVE \A k \in i .. e - 1 : Weight(d[k]) = 0
      BY <1>1, <1>2, <2>2, <3>1, TriviaWeigh
    <3>2. QED
      BY <1>1, <1>2, <1>4, <2>2, <3>1
  <2>6. Weight("comment") = 0 /\ "comment" \notin Document!Marks
    BY Zenon DEF Weight, Opening, Closing, Document!Marks
  <2>7. s.pos \in Nat /\ e \in Nat /\ e > s.pos /\ 1 <= e /\ e <= n + 1
    BY <1>1, <1>2, <2>2
  <2>8. Same(s, t)
    BY <2>3, <2>4 DEF Same
  <2>9. Document!Depth(d, s.pos - 1) \in Int
    BY <1>1, DepthIs
  <2>10. /\ i \in s.pos .. e - 1
         /\ Silent(d) => \A k \in s.pos .. e - 1 : d[k] \in Document!Trivia
    BY <1>1, <1>2, <2>2
  <2>11. /\ Silent(d) => \A k \in s.pos .. t.pos - 2 : d[k] \in Document!Trivia
         /\ \E k \in s.pos .. t.pos - 1 : d[k] \in Document!CComment \cup {"//"}
         /\ Silent(d) => d[t.pos - 1] \in Document!Trivia
    BY <1>1, <1>2, <1>6, <2>2, <2>4, <2>7, <2>10
  <2>12. QED
    BY <2>4, <2>5, <2>6, <2>7, <2>8, <2>9, <2>11 DEF Reads, In, n
<1>7. ASSUME i <= n, d[i] \notin Document!CComment \cup {"//"} PROVE Reads(d, s, t)
  <2> DEFINE k == Document!TokenType(d[i])
  <2>1. t = AtLex(s, i + 1, k, d[i])
    BY <1>1, <1>2, <1>3, <1>7 DEF AtLex
  <2>2. d[i] \in Lexeme
    BY <1>1, <1>2, <1>7 DEF Words, n
  <2>3. /\ k \in Tok /\ k \notin {"none", "end", "comment"}
        /\ Weight(k) = Weight(d[i])
        /\ k \in Document!Marks => k = d[i]
    BY TokenIs
  <2>4. Document!Depth(d, i) = Document!Depth(d, s.pos - 1) + Weight(d[i])
    <3>1. i - 1 \in Nat /\ (i - 1) + 1 = i /\ \A m \in i .. i - 1 : FALSE
      BY <1>1, <1>2
    <3>2. Document!Depth(d, i - 1) = Document!Depth(d, s.pos - 1)
      BY <1>4, <3>1
    <3>3. QED
      BY <3>1, <3>2, DepthIs
  <2> HIDE DEF k
  <2>5. In(d, t) /\ Same(s, t)
    <3>1. i + 1 \in Nat /\ t \in State /\ Same(s, t) /\ t.pos = i + 1
      BY <1>1, <1>2, <2>1, <2>2, <2>3, Lexed
    <3>2. QED
      BY <1>1, <1>2, <1>7, <3>1 DEF In, n
  <2>6. t.pos - 1 = i /\ t.tok = k /\ t.pos > s.pos /\ t.pos >= s.pos
    BY <1>1, <1>2, <2>1, <2>2, <2>3, Lexed
  <2>7. t.pos - 2 = i - 1
    <3>1. i \in Nat /\ t.pos \in Nat
      BY <1>1, <1>2, <2>5 DEF In
    <3>2. QED
      BY <2>6, <3>1
  <2>8. QED
    BY <1>2, <2>3, <2>4, <2>5, <2>6, <2>7 DEF Reads
<1>8. i > n \/ i <= n
  BY <1>1, <1>2
<1>9. QED
  BY <1>5, <1>6, <1>7, <1>8 DEF t

(* One token after another, the first of which was a comment.              *)
LEMMA ReadsOn ==
    ASSUME NEW d \in Words, NEW s, NEW t, NEW u,
           In(d, s), Reads(d, s, t), t.tok = "comment", Reads(d, t, u)
    PROVE  Reads(d, s, u)
<1>1. /\ s.pos \in Nat /\ t.pos \in Nat /\ u.pos \in Nat
      /\ s.pos < t.pos /\ t.pos <= u.pos /\ u.tok # "none"
      /\ u.tok # "end" => u.pos > t.pos
      /\ u.tok \in Document!Marks => d[u.pos - 1] = u.tok
  BY DEF Reads, In
<1>2. In(d, u) /\ Same(s, u)
  BY DEF Reads, Same
<1>3. Weight(t.tok) = 0 /\ Weight(u.tok) \in Int
  <2>1. t.tok \notin Opening /\ t.tok \notin Closing
    BY Zenon DEF Opening, Closing
  <2>2. QED
    BY <2>1 DEF Weight
<1>4. Document!Depth(d, s.pos - 1) \in Int
  <2>1. s.pos - 1 \in Nat
    BY DEF In
  <2>2. QED
    BY <2>1, DepthIs
<1>5. Silent(d) => Document!Depth(d, u.pos - 1) = Document!Depth(d, s.pos - 1) + Weight(u.tok)
  BY <1>3, <1>4 DEF Reads
<1>6. Silent(d) => \A k \in s.pos .. u.pos - 2 : d[k] \in Document!Trivia
  <2> SUFFICES ASSUME Silent(d), NEW k \in s.pos .. u.pos - 2 PROVE d[k] \in Document!Trivia
    OBVIOUS
  <2>1. CASE k <= t.pos - 2
    BY <1>1, <2>1 DEF Reads
  <2>2. CASE k = t.pos - 1
    BY <2>2 DEF Reads
  <2>3. CASE k >= t.pos
    BY <1>1, <2>3 DEF Reads
  <2>4. QED
    BY <1>1, <2>1, <2>2, <2>3
<1>7. ASSUME u.tok = "comment"
      PROVE  /\ \E k \in s.pos .. u.pos - 1 : d[k] \in Document!CComment \cup {"//"}
             /\ Silent(d) => d[u.pos - 1] \in Document!Trivia
  <2>1. PICK k \in t.pos .. u.pos - 1 : d[k] \in Document!CComment \cup {"//"}
    BY <1>7 DEF Reads
  <2>2. k \in s.pos .. u.pos - 1
    BY <1>1, <2>1
  <2>3. QED
    BY <1>7, <2>1, <2>2 DEF Reads
<1>8. QED
  BY <1>1, <1>2, <1>5, <1>6, <1>7 DEF Reads

(* Comments are skipped token by token.                                    *)
SkipNext(d, F, v) == IF v.tok = "comment" THEN Document!readToken(d, F, v) ELSE v

SkipsBy(d, F, t, f, u) ==
    /\ f[0] = t
    /\ \A k \in 0 .. Len(d) : In(d, f[k])
    /\ \A k \in 1 .. Len(d) : f[k] = SkipNext(d, F, f[k - 1])
    /\ u = IF t.tok = "comment" THEN f[Len(d)] ELSE t

(* skipComments reads as long as there are comments.                       *)
LEMMA SkipRuns ==
    ASSUME NEW d \in Words, NEW F, NEW t, In(d, t)
    PROVE  \E f : SkipsBy(d, F, t, f, Document!skipComments(d, F, t))
<1> DEFINE n == Len(d)
           u == Document!skipComments(d, F, t)
           Body(f) == [k \in 0 .. n |->
                          IF k = 0 THEN t
                          ELSE LET v == f[k - 1]
                               IN  IF v.tok = "comment" THEN Document!readToken(d, F, v) ELSE v]
           past == CHOOSE f : f = Body(f)
           W == {v \in State : v.pos \in 1 .. n + 1}
           step == [q \in (1 .. n) \X W |-> SkipNext(d, F, q[2])]
<1>1. n \in Nat
  BY DEF Words
<1>2. \A v : In(d, v) <=> v \in W
  BY DEF In
<1>3. t \in W
  BY <1>2
<1>4. \A v \in W : SkipNext(d, F, v) \in W
  BY <1>2, TokenReads DEF Reads, SkipNext
<1>5. u = IF t.tok = "comment" THEN past[n] ELSE t
  BY DEF Document!skipComments
<1> HIDE DEF W, u
<1>6. step \in [(1 .. n) \X W -> W]
  BY <1>4
<1>7. Runs(W, t, n, step)
  <2> HIDE DEF step
  <2>1. QED
    BY <1>1, <1>3, <1>6, Recursion
<1>8. PICK f \in [0 .. n -> W] : f[0] = t /\ \A k \in 1 .. n : f[k] = step[<<k, f[k - 1]>>]
  <2> HIDE DEF step
  <2>1. QED
    BY <1>7 DEF Runs
<1>9. \A k \in 1 .. n : f[k] = SkipNext(d, F, f[k - 1])
  <2> SUFFICES ASSUME NEW k \in 1 .. n PROVE f[k] = SkipNext(d, F, f[k - 1])
    OBVIOUS
  <2> HIDE DEF step
  <2>1. k - 1 \in 0 .. n
    BY <1>1
  <2>2. f[k - 1] \in W /\ f[k] = step[<<k, f[k - 1]>>]
    BY <1>8, <2>1
  <2>3. step[<<k, f[k - 1]>>] = SkipNext(d, F, f[k - 1])
    BY <2>2 DEF step
  <2>4. QED
    BY <2>2, <2>3
<1>10. f = Body(f)
  BY <1>1, <1>8, <1>9 DEF SkipNext
<1>11. past = Body(past)
  <2> HIDE DEF Body
  <2>1. QED
    BY <1>10
<1>12. past[0] = t /\ \A k \in 1 .. n : past[k] = SkipNext(d, F, past[k - 1])
  <2> HIDE DEF past
  <2>1. QED
    BY <1>1, <1>11 DEF SkipNext
<1> HIDE DEF past, Body, step
<1>13. \A k \in 0 .. n : f[k] = past[k]
  <2>1. GoesOnLike(f, past, n)
    BY <1>8, <1>9, <1>12 DEF GoesOnLike
  <2>2. QED
    BY <1>1, <2>1, Alike
<1>14. \A k \in 0 .. n : In(d, past[k])
  BY <1>2, <1>8, <1>13
<1>15. QED
  BY <1>5, <1>12, <1>14 DEF SkipsBy, u

(* Behind the comments stands another token.                               *)
LEMMA SkipsComments ==
    ASSUME NEW d \in Words, NEW F, NEW s, NEW t, In(d, s), Reads(d, s, t)
    PROVE  LET u == Document!skipComments(d, F, t)
           IN  /\ t.tok # "comment" => u = t
               /\ Reads(d, s, u) /\ u.tok # "comment" /\ u.pos >= t.pos
<1> DEFINE n == Len(d)
           u == Document!skipComments(d, F, t)
           Next1(v) == SkipNext(d, F, v)
<1>1. n \in Nat
  BY DEF Words
<1>2. In(d, t)
  BY DEF Reads
<1>3. PICK past : SkipsBy(d, F, t, past, u)
  BY <1>2, SkipRuns
<1>11. past[0] = t /\ \A k \in 1 .. n : past[k] = Next1(past[k - 1])
  BY <1>3 DEF SkipsBy
<1>12. u = IF t.tok = "comment" THEN past[n] ELSE t
  BY <1>3 DEF SkipsBy
<1> HIDE DEF u, Next1
<1> DEFINE T == {k \in Nat : k <= n =>
                    /\ Reads(d, s, past[k])
                    /\ past[k].pos >= t.pos
                    /\ past[k].tok = "comment" => past[k].pos >= t.pos + k}
<1>13. 0 \in T
  BY <1>11 DEF Reads, In, State
<1>14. ASSUME NEW k \in Nat, k \in T PROVE k + 1 \in T
  <2> SUFFICES ASSUME k + 1 <= n
               PROVE  /\ Reads(d, s, past[k + 1])
                      /\ past[k + 1].pos >= t.pos
                      /\ past[k + 1].tok = "comment" => past[k + 1].pos >= t.pos + (k + 1)
    OBVIOUS
  <2> DEFINE v == past[k]
             w == past[k + 1]
  <2>1. Reads(d, s, v) /\ (v.tok = "comment" => v.pos >= t.pos + k) /\ v.pos >= t.pos
    BY <1>14
  <2>2. w = Next1(v)
    BY <1>1, <1>11
  <2>3. t.pos \in Nat /\ v.pos \in Nat /\ In(d, v)
    BY <2>1 DEF Reads, In, State
  <2> HIDE DEF v, w
  <2>4. CASE v.tok = "comment"
    <3>1. w = Document!readToken(d, F, v)
      BY <2>2, <2>4 DEF Next1, SkipNext
    <3>2. Reads(d, v, w)
      BY <2>3, <3>1, TokenReads
    <3>3. Reads(d, s, w)
      BY <2>1, <2>4, <3>2, ReadsOn
    <3>4. (w.tok = "comment" => w.pos > v.pos) /\ w.pos >= v.pos /\ w.pos \in Nat
      BY <3>2 DEF Reads, In, State
    <3>5. w.tok = "comment" => w.pos >= t.pos + (k + 1)
      BY <2>1, <2>3, <2>4, <3>4
    <3>6. w.pos >= t.pos
      BY <2>1, <2>3, <3>4
    <3>7. QED
      BY <3>3, <3>5, <3>6 DEF w
  <2>5. CASE v.tok # "comment"
    <3>1. w = v
      BY <2>2, <2>5 DEF Next1, SkipNext
    <3>2. QED
      BY <2>1, <2>5, <3>1 DEF w
  <2>6. QED
    BY <2>4, <2>5
<1>15. n \in T
  <2> HIDE DEF T
  <2>1. QED
    BY <1>1, <1>13, <1>14, Induction
<1>16. Reads(d, s, past[n]) /\ past[n].pos >= t.pos
  BY <1>1, <1>15
<1>17. ASSUME t.tok = "comment" PROVE past[n].tok # "comment"
  <2> SUFFICES ASSUME past[n].tok = "comment" PROVE FALSE
    OBVIOUS
  <2>1. past[n].pos >= t.pos + n /\ past[n].pos \in 1 .. n + 1
    BY <1>1, <1>15, <1>16 DEF Reads, In
  <2>2. t.pos > s.pos /\ s.pos \in Nat /\ s.pos >= 1 /\ t.pos \in Nat
    BY <1>17 DEF Reads, In
  <2>3. QED
    BY <1>1, <2>1, <2>2
<1>18. t.pos \in Nat
  BY DEF Reads, In
<1>19. QED
  BY <1>12, <1>16, <1>17, <1>18 DEF u

-----------------------------------------------------------------------------
(* What becomes of the reader when a value is put, begun or returned to.   *)
Keeps(s, r) ==
    /\ r \in State
    /\ r.pos = s.pos /\ r.tok = s.tok /\ r.lex = s.lex /\ r.depth = s.depth
    /\ r.last = s.last /\ r.alive = s.alive /\ r.out = s.out

(* Put leaves lastValue_ dangling only if that is deeper in the tree.      *)
LEMMA PutIs ==
    ASSUME NEW s \in State, NEW kind \in {"null", "leaf", "array", "object"},
           NEW leaf \in Lexeme
    PROVE  LET r == Document!Put(s, kind, leaf)
           IN  /\ Keeps(s, r)
               /\ r.p = s.p /\ r.calls = s.calls /\ r.next = s.next
               /\ ~s.dangles /\ Len(s.last) <= Len(s.p) => ~r.dangles
<1> DEFINE r == Document!Put(s, kind, leaf)
           u == Document!SwapPayload(s.tree, s.p, kind, leaf)
           b == s.dangles \/ Document!IsStrictPrefix(s.p, s.last)
<1>1. r = [s EXCEPT !.tree = u, !.dangles = b]
  BY DEF Document!Put
<1>2. s.tree \in Tree /\ s.p \in Path /\ s.last \in Path
  BY DEF State
<1>3. u \in Tree
  BY <1>2, PayloadIs
<1>4. b \in BOOLEAN
  BY Zenon DEF Document!IsStrictPrefix
<1>5. ~s.dangles /\ Len(s.last) <= Len(s.p) => ~b
  BY <1>2, Longer
<1> HIDE DEF u, b, r
<1>6. /\ Keeps(s, r)
      /\ r.p = s.p /\ r.calls = s.calls /\ r.next = s.next /\ r.dangles = b
  BY <1>1, <1>3, <1>4 DEF State, Keeps
<1>7. QED
  BY <1>5, <1>6 DEF r

(* Reading a child begins one level down.                                  *)
LEMMA ChildRead ==
    ASSUME NEW s \in State, NEW key \in Key
    PROVE  LET r == Document!readChild(s, key)
           IN  /\ Keeps(s, r)
               /\ r.p \in Path /\ Len(r.p) = Len(s.p) + 1 /\ r.calls = s.calls
               /\ r.next = "value" /\ r.dangles = s.dangles
<1> DEFINE r == Document!readChild(s, key)
           u == Document!Child(s.tree, s.p, key)
           q == Append(s.p, key)
<1>1. r = [s EXCEPT !.tree = u, !.p = q, !.next = "value"]
  BY DEF Document!readChild
<1>2. s.tree \in Tree /\ s.p \in Path
  BY DEF State
<1>3. u \in Tree
  BY <1>2, ChildIs
<1>4. q \in Path /\ Len(q) = Len(s.p) + 1
  BY <1>2 DEF Path
<1> HIDE DEF u, q, r
<1>5. /\ Keeps(s, r)
      /\ r.p = q /\ r.calls = s.calls /\ r.next = "value" /\ r.dangles = s.dangles
  BY <1>1, <1>3, <1>4 DEF State, Keeps
<1>6. QED
  BY <1>4, <1>5 DEF r

(* A return pops one call.                                                 *)
LEMMA ReturnIs ==
    ASSUME NEW s \in State, s.calls # <<>>
    PROVE  LET r == Document!Return(s)
           IN  /\ Keeps(s, r)
               /\ r.p = s.p /\ Len(r.calls) = Len(s.calls) - 1
               /\ r.next = "behind" /\ r.dangles = s.dangles
<1> DEFINE r == Document!Return(s)
           c == Document!Front(s.calls)
<1>1. r = [s EXCEPT !.calls = c, !.next = "behind"]
  BY DEF Document!Return
<1>2. s.calls \in Seq(Frame)
  BY DEF State
<1>3. c \in Seq(Frame) /\ Len(c) = Len(s.calls) - 1
  BY <1>2 DEF Document!Front
<1> HIDE DEF c, r
<1>4. /\ Keeps(s, r)
      /\ r.p = s.p /\ r.calls = c /\ r.next = "behind" /\ r.dangles = s.dangles
  BY <1>1, <1>3 DEF State, Keeps
<1>5. QED
  BY <1>3, <1>4 DEF r

(* A call pushes one, and puts an empty container.                         *)
LEMMA CallIs ==
    ASSUME NEW s \in State, NEW kind \in {"array", "object"}
    PROVE  LET r == Document!Call(s, kind)
           IN  /\ Keeps(s, r)
               /\ r.p = s.p /\ Len(r.calls) = Len(s.calls) + 1 /\ r.next = s.next
               /\ ~s.dangles /\ Len(s.last) <= Len(s.p) => ~r.dangles
<1> DEFINE r == Document!Call(s, kind)
           e == ""
           v == Document!Put(s, kind, e)
           frame == [kind |-> kind, index |-> 0, name |-> e]
           c == Append(v.calls, frame)
<1>1. r = [v EXCEPT !.calls = c]
  BY DEF Document!Call
<1>2. e \in Lexeme /\ e \in Key
  BY DEF Lexeme, Key
<1>3. /\ Keeps(s, v)
      /\ v.p = s.p /\ v.calls = s.calls /\ v.next = s.next
      /\ ~s.dangles /\ Len(s.last) <= Len(s.p) => ~v.dangles
  <2>1. kind \in {"null", "leaf", "array", "object"}
    BY Zenon
  <2> HIDE DEF e
  <2>2. QED
    BY <1>2, <2>1, PutIs
<1> HIDE DEF v, e, r
<1>4. frame \in Frame
  BY <1>2 DEF Frame
<1> HIDE DEF frame
<1>5. v \in State /\ v.calls \in Seq(Frame)
  BY <1>3 DEF Keeps, State
<1>6. c \in Seq(Frame) /\ Len(c) = Len(v.calls) + 1
  BY <1>4, <1>5
<1> HIDE DEF c
<1>7. /\ Keeps(v, r)
      /\ r.p = v.p /\ r.calls = c /\ r.next = v.next /\ r.dangles = v.dangles
  BY <1>1, <1>5, <1>6 DEF State, Keeps
<1>8. QED
  BY <1>3, <1>6, <1>7 DEF Keeps, r

(* A reader that has failed has an error.                                  *)
LEMMA FailedIs ==
    ASSUME NEW s \in State
    PROVE  LET r == Document!Failed(s)
           IN  /\ r \in State /\ r.pos = s.pos /\ r.last = s.last /\ r.out = "error"
               /\ r.dangles = s.dangles /\ r.alive = s.alive
<1> DEFINE r == Document!Failed(s)
<1>1. r = [s EXCEPT !.out = "error"]
  BY DEF Document!Failed
<1> HIDE DEF r
<1>2. /\ r \in State /\ r.pos = s.pos /\ r.last = s.last /\ r.out = "error"
      /\ r.dangles = s.dangles /\ r.alive = s.alive
  BY <1>1 DEF State
<1>3. QED
  BY <1>2 DEF r

(* Comments given to a value change none of its data.                      *)
LEMMA CommentsTaken ==
    ASSUME NEW s \in State, NEW placement \in {"before", "same", "after"}
    PROVE  LET r == Document!TakeComments(placement, s)
           IN  /\ Keeps(s, r)
               /\ r.p = s.p /\ r.calls = s.calls /\ r.next = s.next /\ r.dangles = s.dangles
               /\ Document!Data(r.tree) = Document!Data(s.tree)
<1> DEFINE r == Document!TakeComments(placement, s)
           u == Document!SetComment(s.tree, s.p, placement, s.before)
           none == Document!NoComment
           Ok == /\ Keeps(s, r)
                 /\ r.p = s.p /\ r.calls = s.calls /\ r.next = s.next /\ r.dangles = s.dangles
                 /\ Document!Data(r.tree) = Document!Data(s.tree)
<1>1. r = s \/ r = [s EXCEPT !.tree = u, !.before = none]
  BY DEF Document!TakeComments
<1>2. s.tree \in Tree /\ s.p \in Path /\ s.before \in Words
  BY DEF State
<1>3. u \in Tree /\ Document!Data(u) = Document!Data(s.tree)
  BY <1>2, CommentIsNoData
<1>4. none \in Words
  <2>1. <<>> \in Words
    BY DEF Words
  <2>2. QED
    BY <2>1 DEF Document!NoComment
<1> HIDE DEF u, r, none
<1>5. r = s => Ok
  BY DEF Keeps
<1>6. r = [s EXCEPT !.tree = u, !.before = none] => Ok
  BY <1>3, <1>4 DEF State, Keeps
<1>7. QED
  BY <1>1, <1>5, <1>6 DEF r

(* The reader in its innermost call, at another index or name.             *)
AtIndex(s, i) == [s EXCEPT !.calls[Len(s.calls)].index = i]
AtName(s, name) == [s EXCEPT !.calls[Len(s.calls)].name = name]

(* The innermost call at another index or name: nothing else changes.      *)
LEMMA FrameIs ==
    ASSUME NEW s \in State, NEW i \in Nat, NEW name \in Key, s.calls # <<>>
    PROVE  /\ LET r == AtIndex(s, i)
              IN  /\ Keeps(s, r) /\ r.p = s.p /\ Len(r.calls) = Len(s.calls)
                  /\ r.next = s.next /\ r.dangles = s.dangles
           /\ LET r == AtName(s, name)
              IN  /\ Keeps(s, r) /\ r.p = s.p /\ Len(r.calls) = Len(s.calls)
                  /\ r.next = s.next /\ r.dangles = s.dangles
<1> DEFINE n == Len(s.calls)
           f == s.calls[n]
           c == [s.calls EXCEPT ![n] = [f EXCEPT !.index = i]]
           e == [s.calls EXCEPT ![n] = [f EXCEPT !.name = name]]
           Ok(r) == /\ Keeps(s, r) /\ r.p = s.p /\ Len(r.calls) = Len(s.calls)
                    /\ r.next = s.next /\ r.dangles = s.dangles
           r1 == AtIndex(s, i)
           r2 == AtName(s, name)
<1>1. s.calls \in Seq(Frame) /\ n \in Nat /\ n >= 1
  BY DEF State
<1>2. f \in Frame
  BY <1>1
<1> HIDE DEF f
<1>3. [f EXCEPT !.index = i] \in Frame /\ [f EXCEPT !.name = name] \in Frame
  BY <1>2 DEF Frame
<1>4. c \in Seq(Frame) /\ Len(c) = n /\ e \in Seq(Frame) /\ Len(e) = n
  BY <1>1, <1>3, ExceptSeq
<1>5. r1 = [s EXCEPT !.calls = c] /\ r2 = [s EXCEPT !.calls = e]
  BY DEF f, AtIndex, AtName
<1> HIDE DEF c, e, r1, r2, n
<1>6. Ok(r1)
  BY <1>4, <1>5 DEF State, Keeps, n
<1>7. Ok(r2)
  BY <1>4, <1>5 DEF State, Keeps, n
<1>8. QED
  BY <1>6, <1>7 DEF r1, r2

-----------------------------------------------------------------------------
(* The invariant of the reader.  Between two steps it is in front of a     *)
(* value, behind one, at a name, or done; w is what the last token adds to *)
(* the depth of the brackets, as long as it has not been acted on.         *)
Fine(d) == Silent(d) /\ Document!BracketsSeen(d)

Basic(d, F, s) ==
    /\ In(d, s) /\ ~s.dangles /\ s.alive
    /\ F.collectComments \/ s.last = <<>>

Bracketed(d, s, w) == Fine(d) => Document!Depth(d, s.pos - 1) = Len(s.calls) + w

Before(d, F, s, w) ==
    /\ Basic(d, F, s) /\ s.out = "ok" /\ Bracketed(d, s, w)
    /\ s.depth = Len(s.calls) /\ Len(s.p) = Len(s.calls)
    /\ Len(s.last) <= Len(s.calls) /\ Len(s.calls) <= F.stackLimit

Within(d, F, s, w) ==
    /\ Basic(d, F, s) /\ s.out = "ok" /\ Bracketed(d, s, w)
    /\ s.depth = Len(s.calls) /\ Len(s.p) + 1 = Len(s.calls)
    /\ Len(s.last) <= Len(s.calls) /\ Len(s.calls) <= F.stackLimit

(* In the middle of readValue.                                             *)
Amid(d, F, s, w) ==
    /\ Basic(d, F, s) /\ s.out = "ok" /\ Bracketed(d, s, w)
    /\ s.depth = Len(s.calls) + 1 /\ Len(s.p) = Len(s.calls)
    /\ Len(s.calls) + 1 <= F.stackLimit

Good(d, F, s) ==
    /\ Basic(d, F, s)
    /\ s.out = "throw" =>
          s.depth = F.stackLimit /\ Len(s.calls) = F.stackLimit /\ Bracketed(d, s, 0)
    /\ s.out = "ok" =>
          \/ s.next = "value" /\ Before(d, F, s, 0)
          \/ s.next = "behind" /\ Amid(d, F, s, 0)
          \/ s.next = "name" /\ Within(d, F, s, 0)
          \/ s.next = "none" /\ s.depth = 0 /\ s.calls = <<>>

(* What makes the reading end.                                             *)
Moves(s, r) ==
    \/ Document!Ended(r) \/ r.pos > s.pos
    \/ s.next = "value" /\ r.next # "value" /\ r.pos >= s.pos

(* The types of the fields that the steps below need.                      *)
LEMMA StateIs ==
    ASSUME NEW s \in State
    PROVE  /\ s.pos \in Nat /\ s.depth \in Nat /\ s.tree \in Tree /\ s.calls \in Seq(Frame)
           /\ Len(s.calls) \in Nat /\ Len(s.p) \in Nat /\ Len(s.last) \in Nat
           /\ s.p \in Path /\ s.last \in Path /\ s.lex \in Lexeme /\ s.tok \in Tok
           /\ s.calls = <<>> <=> Len(s.calls) = 0
  BY DEF State, Path

(* What Reads says of a step's reader.                                     *)
LEMMA ReadWithin ==
    ASSUME NEW d \in Words, NEW F, NEW s, NEW t, Reads(d, s, t)
    PROVE  /\ Basic(d, F, s) => Basic(d, F, t)
           /\ Within(d, F, s, 0) => Within(d, F, t, Weight(t.tok))
           /\ Basic(d, F, s) /\ Bracketed(d, s, 0) => Bracketed(d, t, Weight(t.tok))
<1>1. Basic(d, F, s) => Basic(d, F, t)
  BY DEF Basic, Reads, Same
<1>2. ASSUME Bracketed(d, s, 0), In(d, s) PROVE Bracketed(d, t, Weight(t.tok))
  BY <1>2, StateIs DEF Reads, Same, Bracketed, Fine, In
<1>3. QED
  BY <1>1, <1>2 DEF Within, Basic, Reads, Same

(* The steps' last parts.                                                  *)
LEMMA FailedGood ==
    ASSUME NEW d \in Words, NEW F, NEW s, Basic(d, F, s)
    PROVE  Good(d, F, Document!Failed(s)) /\ Document!Ended(Document!Failed(s))
<1> DEFINE r == Document!Failed(s)
<1>1. /\ r \in State /\ r.pos = s.pos /\ r.last = s.last /\ r.out = "error"
      /\ r.dangles = s.dangles /\ r.alive = s.alive
  BY FailedIs DEF Basic, In
<1> HIDE DEF r
<1>2. Good(d, F, r) /\ Document!Ended(r)
  BY <1>1 DEF Basic, In, Good, Document!Ended
<1>3. QED
  BY <1>2 DEF r

(* Where a closing bracket was read, a return keeps the invariant.         *)
LEMMA ReturnGood ==
    ASSUME NEW d \in Words, NEW F, NEW s, Within(d, F, s, 0 - 1)
    PROVE  LET r == Document!Return(s)
           IN  Good(d, F, r) /\ r.pos = s.pos /\ r.next = "behind"
<1> DEFINE r == Document!Return(s)
<1>1. s \in State /\ s.calls # <<>>
  BY StateIs DEF Within, Basic, In
<1>2. /\ Keeps(s, r)
      /\ r.p = s.p /\ Len(r.calls) = Len(s.calls) - 1
      /\ r.next = "behind" /\ r.dangles = s.dangles
  BY <1>1, ReturnIs
<1> HIDE DEF r
<1>3. Len(s.calls) \in Nat /\ Len(s.p) \in Nat /\ s.depth \in Nat
  BY <1>1, StateIs
<1>4. Basic(d, F, r)
  BY <1>2 DEF Within, Basic, In, Keeps
<1>5. Bracketed(d, r, 0)
  BY <1>2, <1>3 DEF Within, Bracketed, Keeps
<1>6. Amid(d, F, r, 0)
  BY <1>2, <1>3, <1>4, <1>5 DEF Within, Amid, Keeps
<1>7. QED
  BY <1>2, <1>4, <1>6 DEF Good, Amid, Keeps, r

(* A child is begun.                                                       *)
LEMMA ChildGood ==
    ASSUME NEW d \in Words, NEW F, NEW s, NEW key \in Key, Within(d, F, s, 0)
    PROVE  LET r == Document!readChild(s, key)
           IN  Good(d, F, r) /\ r.pos = s.pos /\ r.next = "value"
<1> DEFINE r == Document!readChild(s, key)
<1>1. s \in State
  BY DEF Within, Basic, In
<1>2. /\ Keeps(s, r)
      /\ r.p \in Path /\ Len(r.p) = Len(s.p) + 1 /\ r.calls = s.calls
      /\ r.next = "value" /\ r.dangles = s.dangles
  BY <1>1, ChildRead
<1> HIDE DEF r
<1>3. Len(s.calls) \in Nat /\ Len(s.p) \in Nat /\ s.depth \in Nat
  BY <1>1, StateIs
<1>4. Basic(d, F, r)
  BY <1>2 DEF Within, Basic, In, Keeps
<1>5. Bracketed(d, r, 0)
  BY <1>2, <1>3 DEF Within, Bracketed, Keeps
<1>6. Before(d, F, r, 0)
  BY <1>2, <1>3, <1>4, <1>5 DEF Within, Before, Keeps
<1>7. QED
  BY <1>2, <1>4, <1>6 DEF Good, Before, Keeps, r

(* The invariant does not depend on the index or name.                     *)
LEMMA FrameWithin ==
    ASSUME NEW d \in Words, NEW F, NEW s, NEW i \in Nat, NEW name \in Key, Within(d, F, s, 0)
    PROVE  /\ LET r == AtIndex(s, i)
              IN  Within(d, F, r, 0) /\ r.pos = s.pos
           /\ LET r == AtName(s, name)
              IN  Within(d, F, r, 0) /\ r.pos = s.pos
<1> DEFINE r1 == AtIndex(s, i)
           r2 == AtName(s, name)
           Ok(r) == /\ Keeps(s, r) /\ r.p = s.p /\ Len(r.calls) = Len(s.calls)
                    /\ r.next = s.next /\ r.dangles = s.dangles
<1>1. s \in State /\ s.calls # <<>>
  BY StateIs DEF Within, Basic, In
<1>2. Ok(r1) /\ Ok(r2)
  BY <1>1, FrameIs
<1> HIDE DEF r1, r2
<1>3. ASSUME NEW r, Ok(r) PROVE Within(d, F, r, 0) /\ r.pos = s.pos
  BY <1>3 DEF Within, Basic, In, Keeps, Bracketed
<1>4. QED
  BY <1>2, <1>3 DEF r1, r2

(* The next element of an array (readArray).                               *)
LEMMA ElementGood ==
    ASSUME NEW d \in Words, NEW F, NEW s, NEW i \in Nat, Within(d, F, s, 0)
    PROVE  LET r == Document!readElement(s, i)
           IN  Good(d, F, r) /\ r.pos = s.pos /\ r.next = "value"
<1> DEFINE t == AtIndex(s, i)
           k == Document!ToString(i)
<1>1. "" \in Key /\ k \in Key
  BY DEF Key, Lexeme
<1>2. Within(d, F, t, 0) /\ t.pos = s.pos
  <2> DEFINE e == ""
  <2>1. e \in Key
    BY <1>1
  <2> HIDE DEF e
  <2>2. QED
    BY <2>1, FrameWithin
<1> DEFINE r == Document!readElement(s, i)
<1>3. r = Document!readChild(t, k)
  BY DEF Document!readElement, AtIndex
<1> HIDE DEF t, k, r
<1>4. Good(d, F, r) /\ r.pos = t.pos /\ r.next = "value"
  BY <1>1, <1>2, <1>3, ChildGood
<1>5. QED
  BY <1>2, <1>4 DEF r

(* The next member of an object: its colon and its value.                  *)
LEMMA MemberGood ==
    ASSUME NEW d \in Words, NEW F, NEW t, NEW name \in Key, Within(d, F, t, 0)
    PROVE  LET r == Document!readMember(d, F, t, name)
           IN  Good(d, F, r) /\ (Document!Ended(r) \/ r.pos >= t.pos)
<1> DEFINE r == Document!readMember(d, F, t, name)
           colon == Document!readToken(d, F, t)
           c == [colon EXCEPT !.calls[Len(t.calls)].name = name]
           Ok == Good(d, F, r) /\ (Document!Ended(r) \/ r.pos >= t.pos)
<1>1. In(d, t)
  BY DEF Within, Basic
<1>2. Reads(d, t, colon)
  BY <1>1, TokenReads
<1>3. \/ r = Document!Failed(colon)
      \/ r = Document!readChild(c, name) /\ colon.tok = ":"
  BY Zenon DEF Document!readMember
<1>4. colon.tok = ":" => Weight(colon.tok) = 0
  <2>1. ":" \notin Opening /\ ":" \notin Closing
    BY Zenon DEF Opening, Closing
  <2>2. colon.tok = ":" => colon.tok \notin Opening /\ colon.tok \notin Closing
    BY <2>1, Zenon
  <2>3. QED
    BY <2>2 DEF Weight
<1> DEFINE isColon == colon.tok = ":"
<1>5. Within(d, F, colon, Weight(colon.tok)) /\ Basic(d, F, colon)
  BY <1>2, ReadWithin DEF Within
<1>6. colon.calls = t.calls /\ colon.pos >= t.pos
  BY <1>2 DEF Reads, Same
<1> HIDE DEF colon, c, r, isColon
<1>7. r = Document!Failed(colon) => Ok
  BY <1>5, FailedGood
<1>8. r = Document!readChild(c, name) /\ isColon => Ok
  <2> SUFFICES ASSUME r = Document!readChild(c, name), isColon PROVE Ok
    OBVIOUS
  <2>1. Within(d, F, colon, 0)
    BY <1>4, <1>5, Zenon DEF isColon
  <2>2. c = AtName(colon, name)
    BY <1>6, Zenon DEF c, AtName
  <2>3. Within(d, F, c, 0) /\ c.pos = colon.pos
    <3>1. 0 \in Nat
      OBVIOUS
    <3>2. QED
      BY <2>1, <2>2, <3>1, FrameWithin
  <2>4. Good(d, F, r) /\ r.pos = c.pos
    BY <2>3, ChildGood
  <2>5. QED
    BY <1>6, <2>3, <2>4
<1>9. QED
  BY <1>3, <1>7, <1>8, Zenon DEF r, isColon

-----------------------------------------------------------------------------
(* The steps.                                                              *)
LEMMA SeparatorGood ==
    ASSUME NEW d \in Words, NEW F, NEW c, Within(d, F, c, Weight(c.tok))
    PROVE  LET r == Document!OnSeparator(c)
           IN  /\ Good(d, F, r)
               /\ Document!Ended(r) \/ (r.pos = c.pos /\ c.tok # "end")
<1> DEFINE r == Document!OnSeparator(c)
           i == Document!Last(c.calls).index + 1
           Ok == /\ Good(d, F, r)
                 /\ Document!Ended(r) \/ (r.pos = c.pos /\ c.tok # "end")
           closes == c.tok = "]"
           goesOn == c.tok = ","
<1>1. \/ closes /\ r = Document!Return(c)
      \/ goesOn /\ r = Document!readElement(c, i)
      \/ r = Document!Failed(c)
  BY Zenon DEF Document!OnSeparator
<1>2. closes => Weight(c.tok) = 0 - 1 /\ c.tok # "end"
  <2>1. closes => c.tok \in Closing /\ c.tok \notin Opening /\ c.tok # "end"
    BY Zenon DEF Opening, Closing
  <2> HIDE DEF closes
  <2>2. QED
    BY <2>1 DEF Weight
<1>3. goesOn => Weight(c.tok) = 0 /\ c.tok # "end"
  <2>1. goesOn => c.tok \notin Closing /\ c.tok \notin Opening /\ c.tok # "end"
    BY Zenon DEF Opening, Closing
  <2> HIDE DEF goesOn
  <2>2. QED
    BY <2>1 DEF Weight
<1>4. Basic(d, F, c) /\ c \in State /\ c.calls # <<>>
  BY StateIs DEF Within, Basic, In
<1>5. i \in Nat
  <2>1. c.calls \in Seq(Frame) /\ Len(c.calls) >= 1
    BY <1>4, StateIs
  <2>2. c.calls[Len(c.calls)] \in Frame
    BY <2>1
  <2>3. QED
    BY <2>2 DEF Document!Last, Frame
<1> HIDE DEF r, i, closes, goesOn
<1>6. closes /\ r = Document!Return(c) => Ok
  BY <1>2, ReturnGood
<1>7. goesOn /\ r = Document!readElement(c, i) => Ok
  BY <1>3, <1>5, ElementGood
<1>8. r = Document!Failed(c) => Ok
  BY <1>4, FailedGood
<1>9. QED
  BY <1>1, <1>6, <1>7, <1>8 DEF r

(* An array goes on behind an element.                                     *)
LEMMA AfterElementGood ==
    ASSUME NEW d \in Words, NEW F, NEW v, Within(d, F, v, 0)
    PROVE  LET r == Document!AfterElement(d, F, v)
           IN  Good(d, F, r) /\ (Document!Ended(r) \/ r.pos > v.pos)
<1> DEFINE r == Document!AfterElement(d, F, v)
           t == Document!readToken(d, F, v)
           c == Document!skipComments(d, F, t)
<1>1. In(d, v)
  BY DEF Within, Basic
<1>2. Reads(d, v, t)
  BY <1>1, TokenReads
<1>3. Reads(d, v, c)
  BY <1>1, <1>2, SkipsComments
<1>4. Within(d, F, c, Weight(c.tok))
  BY <1>3, ReadWithin
<1>5. r = Document!OnSeparator(c)
  BY DEF Document!AfterElement
<1> HIDE DEF r, t, c
<1>6. Good(d, F, r) /\ (Document!Ended(r) \/ (r.pos = c.pos /\ c.tok # "end"))
  BY <1>4, <1>5, SeparatorGood
<1>7. Good(d, F, r) /\ (Document!Ended(r) \/ r.pos > v.pos)
  BY <1>3, <1>6 DEF Reads
<1>8. QED
  BY <1>7 DEF r

(* Behind a comment a closing brace ends the object; any other bracket     *)
(* would not have been counted.                                            *)
LEMMA BehindComment ==
    ASSUME NEW d \in Words, NEW s, NEW t, In(d, s), Reads(d, s, t), Fine(d),
           \E k \in s.pos .. t.pos - 1 : d[k] \in Document!CComment \cup {"//"}
    PROVE  Weight(t.tok) = 0 \/ t.tok = "}"
<1> DEFINE brace == "}"
           Counted == {"{", "[", "]"}
<1> SUFFICES ASSUME Weight(t.tok) # 0, t.tok # brace PROVE FALSE
  OBVIOUS
<1>1. t.tok \in Opening \cup Closing
  BY DEF Weight
<1>2. t.tok \in Document!Marks /\ t.tok \in Counted
  BY <1>1, Zenon DEF Opening, Closing, Document!Marks
<1>3. t.tok \notin Document!CComment \cup {"//"} /\ t.tok # "end"
  BY <1>2, Zenon DEF Document!Marks, Document!CComment
<1> HIDE DEF brace
<1> DEFINE j == t.pos - 1
<1>4. d[j] = t.tok /\ t.pos > s.pos
  BY <1>2, <1>3 DEF Reads
<1>5. /\ s.pos \in 1 .. Len(d) + 1 /\ t.pos \in 1 .. Len(d) + 1
      /\ DOMAIN d = 1 .. Len(d) /\ Len(d) \in Nat
  <2>1. s.pos \in 1 .. Len(d) + 1 /\ t.pos \in 1 .. Len(d) + 1
    BY DEF Reads, In
  <2>2. DOMAIN d = 1 .. Len(d) /\ Len(d) \in Nat
    BY DEF Words
  <2>3. QED
    BY <2>1, <2>2
<1>6. PICK i \in s.pos .. t.pos - 1 : d[i] \in Document!CComment \cup {"//"}
  OBVIOUS
<1>7. i # j
  BY <1>3, <1>4, <1>6
<1>8. i \in DOMAIN d /\ j \in DOMAIN d /\ i < j
  BY <1>4, <1>5, <1>6, <1>7
<1>9. \A k \in i + 1 .. j - 1 : d[k] \in Document!Trivia
  <2>1. \A k \in s.pos .. t.pos - 2 : d[k] \in Document!Trivia
    BY DEF Reads, Fine
  <2>2. ASSUME NEW k \in i + 1 .. j - 1 PROVE k \in s.pos .. t.pos - 2
    <3>1. i \in Int /\ s.pos \in Int /\ t.pos \in Int /\ s.pos <= i /\ j = t.pos - 1
      BY <1>5, <1>6
    <3> HIDE DEF j
    <3>2. QED
      BY <3>1
  <2>3. QED
    BY <2>1, <2>2
<1>10. d[j] \notin Counted
  <2> HIDE DEF j
  <2>1. QED
    BY <1>6, <1>8, <1>9, Zenon DEF Fine, Document!BracketsSeen
<1>11. QED
  BY <1>2, <1>4, <1>10, Zenon

(* An object goes on behind a member.                                      *)
LEMMA AfterMemberGood ==
    ASSUME NEW d \in Words, NEW F, NEW v, Within(d, F, v, 0)
    PROVE  LET r == Document!AfterMember(d, F, v)
           IN  Good(d, F, r) /\ (Document!Ended(r) \/ r.pos > v.pos)
<1> DEFINE r == Document!AfterMember(d, F, v)
           comma == Document!readToken(d, F, v)
           next == Document!skipComments(d, F, comma)
           named == [next EXCEPT !.next = "name"]
           brace == "}"
           sep == ","
           known == comma.tok \in {"}", ",", "comment"}
           Ok == Good(d, F, r) /\ (Document!Ended(r) \/ r.pos > v.pos)
<1>1. In(d, v)
  BY DEF Within, Basic
<1>2. Reads(d, v, comma)
  BY <1>1, TokenReads
<1>3. /\ Reads(d, v, next) /\ next.pos >= comma.pos
      /\ comma.tok # "comment" => next = comma
  BY <1>1, <1>2, SkipsComments
<1>4. Within(d, F, next, Weight(next.tok)) /\ Basic(d, F, next) /\ Basic(d, F, comma)
  <2>1. Basic(d, F, v)
    BY DEF Within
  <2>2. QED
    BY <1>2, <1>3, <2>1, ReadWithin
<1>5. \/ r = Document!Failed(comma)
      \/ next.tok = brace /\ r = Document!Return(next) /\ known
      \/ next.tok # brace /\ r = named /\ known
  BY Zenon DEF Document!AfterMember
<1>6. known => comma.tok # "end"
  BY Zenon
<1>7. Weight(brace) = 0 - 1 /\ Weight(sep) = 0
  <2>1. brace \in Closing /\ brace \notin Opening /\ sep \notin Closing /\ sep \notin Opening
    BY Zenon DEF Opening, Closing
  <2> HIDE DEF brace, sep
  <2>2. QED
    BY <2>1 DEF Weight
<1>8. known => comma.tok \in {brace, sep, "comment"}
  BY Zenon
<1>9. ASSUME Fine(d), comma.tok = "comment" PROVE Weight(next.tok) = 0 \/ next.tok = brace
  <2>1. PICK k \in v.pos .. comma.pos - 1 : d[k] \in Document!CComment \cup {"//"}
    BY <1>2, <1>9 DEF Reads
  <2>2. k \in v.pos .. next.pos - 1
    BY <1>1, <1>2, <1>3, <2>1 DEF Reads, In
  <2>3. QED
    BY <1>1, <1>3, <1>9, <2>1, <2>2, BehindComment, Zenon
<1> HIDE DEF comma, next, brace, sep, known, r, named
<1>10. known => next.pos > v.pos
  <2>1. v.pos \in Nat /\ comma.pos \in Nat /\ next.pos \in Nat
    BY <1>1, <1>2, <1>3 DEF Reads, In
  <2>2. QED
    BY <1>2, <1>3, <1>6, <2>1 DEF Reads
<1>11. r = Document!Failed(comma) => Ok
  BY <1>4, FailedGood
<1>12. next.tok = brace /\ r = Document!Return(next) /\ known => Ok
  BY <1>4, <1>7, <1>10, ReturnGood
<1>13. ASSUME next.tok # brace, r = named, known PROVE Ok
  <2>1. Fine(d) => Weight(next.tok) = 0
    <3>1. CASE comma.tok = "comment"
      BY <1>9, <1>13, <3>1
    <3>2. CASE comma.tok # "comment"
      BY <1>3, <1>7, <1>8, <1>13, <3>2
    <3>3. QED
      BY <3>1, <3>2
  <2>2. Within(d, F, next, 0)
    <3>1. Bracketed(d, next, 0)
      BY <1>4, <2>1 DEF Within, Bracketed
    <3>2. QED
      BY <1>4, <3>1 DEF Within
  <2>3. /\ Keeps(next, r) /\ r.p = next.p /\ r.calls = next.calls
        /\ r.next = "name" /\ r.dangles = next.dangles
    <3>1. next \in State
      BY <1>4 DEF Basic, In
    <3>2. r = [next EXCEPT !.next = "name"]
      BY <1>13 DEF named
    <3>3. QED
      BY <3>1, <3>2 DEF State, Keeps
  <2>4. Within(d, F, r, 0)
    BY <2>2, <2>3 DEF Within, Basic, In, Keeps, Bracketed
  <2>5. Good(d, F, r)
    BY <2>3, <2>4 DEF Good, Within
  <2>6. QED
    BY <1>10, <1>13, <2>3, <2>5 DEF Keeps
<1>14. QED
  BY <1>5, <1>11, <1>12, <1>13 DEF r

(* What stands where a name should.                                        *)
LEMMA OnNameGood ==
    ASSUME NEW d \in Words, NEW F, NEW t, Within(d, F, t, Weight(t.tok))
    PROVE  LET r == Document!OnName(d, F, t)
           IN  /\ Good(d, F, r)
               /\ Document!Ended(r) \/ (r.pos >= t.pos /\ t.tok # "end")
<1> DEFINE r == Document!OnName(d, F, t)
           name == Document!NameOf[t.lex]
           brace == "}"
           Ok == /\ Good(d, F, r)
                 /\ Document!Ended(r) \/ (r.pos >= t.pos /\ t.tok # "end")
           plain == t.tok = "string" \/ t.tok = "number"
<1>1. \/ t.tok = brace /\ r = Document!Return(t)
      \/ plain /\ r = Document!readMember(d, F, t, name)
      \/ plain /\ r = Document!readMember(d, F, t, t.lex)
      \/ r = Document!Failed(t)
  BY Zenon DEF Document!OnName
<1>2. Weight(brace) = 0 - 1 /\ brace # "end"
  <2>1. brace \in Closing /\ brace \notin Opening /\ brace # "end"
    BY Zenon DEF Opening, Closing
  <2> HIDE DEF brace
  <2>2. QED
    BY <2>1 DEF Weight
<1>3. plain => Weight(t.tok) = 0 /\ t.tok # "end"
  <2>1. plain => t.tok \notin Opening /\ t.tok \notin Closing /\ t.tok # "end"
    BY Zenon DEF Opening, Closing
  <2> HIDE DEF plain
  <2>2. QED
    BY <2>1 DEF Weight
<1>4. t \in State /\ Basic(d, F, t) /\ t.pos \in Nat
  BY StateIs DEF Within, Basic, In
<1>5. name \in Key /\ t.lex \in Key
  <2>1. t.lex \in Lexeme
    BY <1>4, StateIs
  <2>2. QED
    BY <2>1, Zenon DEF Key
<1> HIDE DEF r, name, brace, plain
<1>6. t.tok = brace /\ r = Document!Return(t) => Ok
  BY <1>2, <1>4, ReturnGood
<1>7. plain /\ r = Document!readMember(d, F, t, name) => Ok
  BY <1>3, <1>5, MemberGood
<1>8. plain /\ r = Document!readMember(d, F, t, t.lex) => Ok
  BY <1>3, <1>5, MemberGood
<1>9. r = Document!Failed(t) => Ok
  BY <1>4, FailedGood
<1>10. QED
  BY <1>1, <1>6, <1>7, <1>8, <1>9 DEF r

(* And with the comments in front of it.                                   *)
LEMMA NameGood ==
    ASSUME NEW d \in Words, NEW F, NEW v, Within(d, F, v, 0)
    PROVE  LET r == Document!readName(d, F, v)
           IN  Good(d, F, r) /\ (Document!Ended(r) \/ r.pos > v.pos)
<1> DEFINE r == Document!readName(d, F, v)
           t == Document!readToken(d, F, v)
           c == Document!skipComments(d, F, t)
<1>1. In(d, v)
  BY DEF Within, Basic
<1>2. Reads(d, v, t)
  BY <1>1, TokenReads
<1>3. Reads(d, v, c)
  BY <1>1, <1>2, SkipsComments
<1>4. Within(d, F, c, Weight(c.tok))
  BY <1>3, ReadWithin
<1>5. r = Document!OnName(d, F, c)
  BY DEF Document!readName
<1> HIDE DEF r, t, c
<1>6. /\ Good(d, F, r)
      /\ Document!Ended(r) \/ (r.pos >= c.pos /\ c.tok # "end")
  BY <1>4, <1>5, OnNameGood
<1>7. r.pos \in Nat /\ c.pos \in Nat /\ v.pos \in Nat
  BY <1>1, <1>3, <1>6 DEF Good, Basic, In, Reads
<1>8. Good(d, F, r) /\ (Document!Ended(r) \/ r.pos > v.pos)
  BY <1>3, <1>6, <1>7 DEF Reads
<1>9. QED
  BY <1>8 DEF r

(* Amid a value the last token is one that begins or is a value.           *)
LEMMA ObjectGood ==
    ASSUME NEW d \in Words, NEW F, NEW s, Amid(d, F, s, 1), Len(s.last) <= Len(s.p)
    PROVE  LET r == Document!readObject(s)
           IN  Good(d, F, r) /\ r.pos = s.pos /\ r.next = "name"
<1> DEFINE r == Document!readObject(s)
           v == Document!Call(s, "object")
<1>1. r = [v EXCEPT !.next = "name"]
  BY DEF Document!readObject
<1>2. s \in State /\ ~s.dangles
  BY DEF Amid, Basic, In
<1>3. /\ Keeps(s, v)
      /\ v.p = s.p /\ Len(v.calls) = Len(s.calls) + 1 /\ ~v.dangles
  BY <1>2, CallIs
<1> HIDE DEF v, r
<1>4. Keeps(v, r) /\ r.p = v.p /\ r.calls = v.calls /\ r.next = "name" /\ r.dangles = v.dangles
  BY <1>1, <1>3 DEF Keeps, State
<1>5. Len(s.calls) \in Nat /\ Len(s.p) \in Nat /\ s.depth \in Nat /\ Len(s.last) \in Nat
  BY <1>2, StateIs
<1>6. Basic(d, F, r)
  BY <1>3, <1>4 DEF Amid, Basic, In, Keeps
<1>7. Bracketed(d, r, 0)
  BY <1>3, <1>4, <1>5 DEF Amid, Bracketed, Keeps
<1>8. Within(d, F, r, 0)
  BY <1>3, <1>4, <1>5, <1>6, <1>7 DEF Amid, Within, Keeps
<1>9. QED
  BY <1>3, <1>4, <1>6, <1>8 DEF Good, Within, Keeps, r

(* A value put, with the reader at i behind it.                            *)
Puts(s, kind, leaf, i) == [Document!Put(s, kind, leaf) EXCEPT !.pos = i, !.next = "behind"]

Level(d, s, i) == Fine(d) => Document!Depth(d, i - 1) = Len(s.calls)

Putting(d, F, s, kind, leaf, i) ==
    /\ kind \in {"null", "leaf", "array", "object"} /\ leaf \in Lexeme /\ i \in 1 .. Len(d) + 1
    /\ Len(s.last) <= Len(s.p) /\ Level(d, s, i)
    /\ \E w \in Int : Amid(d, F, s, w)

HasPut(d, F, r, i) == Good(d, F, r) /\ r.pos = i /\ r.next = "behind"

(* A value that is not a container has been read when it is put.           *)
LEMMA LeafGood ==
    ASSUME NEW d \in Words, NEW F, NEW s, NEW kind, NEW leaf, NEW i,
           Putting(d, F, s, kind, leaf, i)
    PROVE  HasPut(d, F, Puts(s, kind, leaf, i), i)
<1> DEFINE r == Puts(s, kind, leaf, i)
           v == Document!Put(s, kind, leaf)
<1>0. PICK w \in Int : Amid(d, F, s, w)
  BY DEF Putting
<1>1. r = [v EXCEPT !.pos = i, !.next = "behind"]
  BY DEF Puts
<1>2. s \in State /\ ~s.dangles
  BY <1>0 DEF Amid, Basic, In
<1>3. /\ Keeps(s, v)
      /\ v.p = s.p /\ v.calls = s.calls /\ ~v.dangles
  <2>1. /\ kind \in {"null", "leaf", "array", "object"} /\ leaf \in Lexeme
        /\ Len(s.last) <= Len(s.p)
    BY DEF Putting
  <2>2. QED
    BY <1>2, <2>1, PutIs
<1>4. i \in Nat /\ i \in 1 .. Len(d) + 1 /\ Level(d, s, i)
  BY DEF Words, Putting
<1> HIDE DEF v, r
<1>5. /\ r \in State /\ r.pos = i /\ r.depth = v.depth /\ r.last = v.last
      /\ r.alive = v.alive /\ r.out = v.out
      /\ r.p = v.p /\ r.calls = v.calls /\ r.next = "behind" /\ r.dangles = v.dangles
  BY <1>1, <1>3, <1>4 DEF Keeps, State
<1>6. Len(s.calls) \in Nat
  BY <1>2, StateIs
<1>7. Basic(d, F, r)
  BY <1>0, <1>3, <1>4, <1>5 DEF Amid, Basic, In, Keeps
<1>8. Bracketed(d, r, 0)
  BY <1>3, <1>4, <1>5, <1>6 DEF Level, Bracketed, Keeps
<1>9. Amid(d, F, r, 0)
  BY <1>0, <1>3, <1>5, <1>7, <1>8 DEF Amid, Keeps
<1>10. QED
  BY <1>0, <1>3, <1>5, <1>7, <1>9 DEF Good, Amid, Keeps, r, HasPut

(* An array begins, or is empty.                                           *)
LEMMA ArrayGood ==
    ASSUME NEW d \in Words, NEW F, NEW s, Amid(d, F, s, 1), Len(s.last) <= Len(s.p)
    PROVE  LET r == Document!readArray(d, s)
           IN  Good(d, F, r) /\ r.pos >= s.pos
<1> DEFINE r == Document!readArray(d, s)
           i == Document!skipSpaces(d, s.pos)
           v == Document!Call(s, "array")
           e == ""
           array == "array"
           bracket == "]"
           n == Len(d)
           Ok == Good(d, F, r) /\ r.pos >= s.pos
<1>1. s \in State /\ ~s.dangles /\ In(d, s)
  BY DEF Amid, Basic, In
<1>2. n \in Nat /\ s.pos \in 1 .. n + 1
  BY <1>1 DEF Words, In
<1>3. /\ i \in s.pos .. n + 1
      /\ \A k \in s.pos .. i - 1 : d[k] \in Document!Trivia
  BY <1>2, SkipIs, Zenon DEF Document!Trivia
<1>4. \/ i <= n /\ d[i] = bracket /\ r = Puts(s, array, e, i + 1)
      \/ r = Document!readElement(v, 0)
  BY Zenon DEF Document!readArray, Puts
<1>5. Weight(bracket) = 0 - 1
  <2>1. bracket \in Closing /\ bracket \notin Opening
    BY Zenon DEF Opening, Closing
  <2> HIDE DEF bracket
  <2>2. QED
    BY <2>1 DEF Weight
<1>6. e \in Lexeme
  BY DEF Lexeme
<1>7. Len(s.calls) \in Nat /\ Len(s.p) \in Nat /\ s.depth \in Nat
  BY <1>1, StateIs
<1> HIDE DEF r, i, v, e, bracket, n, array
<1>8. ASSUME i <= n, d[i] = bracket, r = Puts(s, array, e, i + 1) PROVE Ok
  <2>1. Document!Depth(d, i - 1) = Document!Depth(d, s.pos - 1)
    <3>1. s.pos - 1 \in Nat /\ i - 1 \in Nat /\ s.pos - 1 <= i - 1 /\ (s.pos - 1) + 1 = s.pos
      BY <1>2, <1>3
    <3>2. \A k \in s.pos .. i - 1 : Weight(d[k]) = 0
      BY <1>3, TriviaWeigh
    <3>3. QED
      BY <3>1, <3>2, DepthStaysAt
  <2>2. i - 1 \in Nat /\ (i - 1) + 1 = i /\ (i + 1) - 1 = i
    BY <1>2, <1>3
  <2>3. /\ Document!Depth(d, i - 1) \in Int
        /\ Document!Depth(d, i) = Document!Depth(d, i - 1) + Weight(d[i])
    BY <2>2, DepthIs
  <2>4. Level(d, s, i + 1)
    BY <1>5, <1>7, <1>8, <2>1, <2>2, <2>3 DEF Amid, Bracketed, Level
  <2>5. i + 1 \in 1 .. Len(d) + 1 /\ i + 1 >= s.pos
    BY <1>2, <1>3, <1>8 DEF n
  <2>6. array \in {"null", "leaf", "array", "object"} /\ 1 \in Int
    BY DEF array
  <2> DEFINE j == i + 1
  <2> HIDE DEF j
  <2>7. r = Puts(s, array, e, j) /\ j \in 1 .. Len(d) + 1 /\ j >= s.pos /\ Level(d, s, j)
    BY <1>8, <2>4, <2>5 DEF j
  <2>8. Good(d, F, r) /\ r.pos = j
    <3>1. Putting(d, F, s, array, e, j)
      BY <1>6, <2>6, <2>7 DEF Putting
    <3>2. QED
      BY <2>7, <3>1, LeafGood DEF HasPut
  <2>9. QED
    BY <2>7, <2>8
<1>9. ASSUME r = Document!readElement(v, 0) PROVE Ok
  <2>1. /\ Keeps(s, v) /\ v.p = s.p /\ Len(v.calls) = Len(s.calls) + 1 /\ ~v.dangles
    BY <1>1, CallIs DEF v
  <2>2. Basic(d, F, v)
    BY <2>1 DEF Amid, Basic, In, Keeps
  <2>3. Bracketed(d, v, 0)
    BY <1>7, <2>1 DEF Amid, Bracketed, Keeps
  <2>4. Within(d, F, v, 0)
    <3>1. Len(s.last) \in Nat
      BY <1>1, StateIs
    <3>2. QED
      BY <1>7, <2>1, <2>2, <2>3, <3>1 DEF Amid, Within, Keeps
  <2>5. Good(d, F, r) /\ r.pos = v.pos
    BY <1>9, <2>4, ElementGood
  <2>6. QED
    BY <1>2, <2>1, <2>5 DEF Keeps
<1>10. QED
  BY <1>4, <1>8, <1>9 DEF r

(* The last token stands just before the reader.                           *)
Marked(d, s) == s.tok \in Document!Marks => s.pos > 1 /\ d[s.pos - 1] = s.tok

(* Every case of the switch of readValue keeps the invariant, and moves on *)
(* unless it un-reads its token behind a value.                            *)
LEMMA PayloadGood ==
    ASSUME NEW d \in Words, NEW F, NEW s, Amid(d, F, s, Weight(s.tok)), Len(s.last) <= Len(s.p),
           Marked(d, s)
    PROVE  LET r == Document!readPayload(d, F, s)
           IN  /\ Good(d, F, r)
               /\ \/ Document!Ended(r)
                  \/ s.tok # "end" /\ r.pos >= s.pos
                  \/ s.tok # "end" /\ r.pos >= s.pos - 1 /\ r.next # "value"
<1> DEFINE r == Document!readPayload(d, F, s)
           Ok == /\ Good(d, F, r)
                 /\ \/ Document!Ended(r)
                    \/ s.tok # "end" /\ r.pos >= s.pos
                    \/ s.tok # "end" /\ r.pos >= s.pos - 1 /\ r.next # "value"
           kind == IF s.lex = "null" THEN "null" ELSE "leaf"
           null == "null"
           leafy == s.tok \in {"number", "string", "literal"}
           dropped == s.tok \in {",", "}", "]"}
           opens == s.tok = "{" \/ s.tok = "["
           put == Document!Put(s, kind, s.lex)
           none == Document!Put(s, null, null)
<1>1. \/ opens /\ r = Document!readObject(s)
      \/ opens /\ r = Document!readArray(d, s)
      \/ leafy /\ r = [put EXCEPT !.next = "behind"]
      \/ dropped /\ r = [none EXCEPT !.pos = @ - 1, !.next = "behind"]
      \/ r = Document!Failed(s)
  BY Zenon DEF Document!readPayload, Document!readLeaf
<1>2. s \in State /\ Basic(d, F, s) /\ In(d, s) /\ s.pos \in Nat
  BY DEF Amid, Basic, In, State
<1>3. opens => Weight(s.tok) = 1 /\ s.tok # "end"
  <2>1. opens => s.tok \in Opening /\ s.tok # "end"
    BY Zenon DEF Opening
  <2> HIDE DEF opens
  <2>2. QED
    BY <2>1 DEF Weight
<1>4. leafy => Weight(s.tok) = 0 /\ s.tok # "end"
  <2>1. leafy => s.tok \notin Opening /\ s.tok \notin Closing /\ s.tok # "end"
    BY Zenon DEF Opening, Closing
  <2> HIDE DEF leafy
  <2>2. QED
    BY <2>1 DEF Weight
<1>5. dropped => s.tok \in Document!Marks /\ s.tok # "end"
  BY Zenon DEF Document!Marks
<1>6. /\ kind \in {"null", "leaf", "array", "object"} /\ null \in {"null", "leaf", "array", "object"}
      /\ null \in Lexeme
  BY DEF Lexeme
<1>7. Weight(s.tok) \in Int /\ 0 \in Int
  BY DEF Weight
<1>8. Len(s.calls) \in Nat /\ s.lex \in Lexeme
  BY <1>2, StateIs
<1> HIDE DEF r, kind, null, leafy, dropped, opens, put, none
<1>9. opens /\ r = Document!readObject(s) => Ok
  BY <1>2, <1>3, ObjectGood
<1>10. opens /\ r = Document!readArray(d, s) => Ok
  BY <1>2, <1>3, ArrayGood
<1>11. ASSUME leafy, r = [put EXCEPT !.next = "behind"] PROVE Ok
  <2>1. Keeps(s, put)
    BY <1>2, <1>6, <1>8, PutIs DEF put
  <2>2. put \in State /\ put.pos = s.pos
    BY <2>1 DEF Keeps
  <2>3. [put EXCEPT !.pos = s.pos, !.next = "behind"] = [put EXCEPT !.next = "behind"]
    BY <2>2 DEF State
  <2>4. r = Puts(s, kind, s.lex, s.pos)
    BY <1>11, <2>3, Zenon DEF Puts, put
  <2>5. Level(d, s, s.pos)
    BY <1>4, <1>8, <1>11 DEF Amid, Bracketed, Level
  <2>6. s.pos \in 1 .. Len(d) + 1
    BY <1>2 DEF In
  <2>7. Good(d, F, r) /\ r.pos = s.pos
    <3> DEFINE w == Weight(s.tok)
    <3>1. w \in Int /\ Amid(d, F, s, w)
      BY <1>7
    <3> HIDE DEF w
    <3>2. Putting(d, F, s, kind, s.lex, s.pos)
      BY <1>6, <1>8, <2>5, <2>6, <3>1 DEF Putting
    <3>3. QED
      BY <2>4, <3>2, LeafGood DEF HasPut
  <2>8. QED
    BY <1>2, <1>4, <1>11, <2>7
<1>12. ASSUME dropped, r = [none EXCEPT !.pos = @ - 1, !.next = "behind"] PROVE Ok
  <2> DEFINE i == s.pos - 1
  <2>1. Keeps(s, none)
    BY <1>2, <1>6, PutIs DEF none
  <2>2. none \in State /\ none.pos = s.pos
    BY <2>1 DEF Keeps
  <2>3. [none EXCEPT !.pos = @ - 1, !.next = "behind"] = [none EXCEPT !.pos = i, !.next = "behind"]
    BY <2>2
  <2>4. r = Puts(s, null, null, i)
    BY <1>12, <2>3, Zenon DEF Puts, none
  <2>5. s.pos > 1 /\ d[s.pos - 1] = s.tok
    BY <1>5, <1>12 DEF Marked
  <2>6. i - 1 \in Nat /\ (i - 1) + 1 = s.pos - 1
    BY <1>2, <2>5
  <2>7. /\ Document!Depth(d, i - 1) \in Int
        /\ Document!Depth(d, s.pos - 1) = Document!Depth(d, i - 1) + Weight(s.tok)
    BY <2>5, <2>6, DepthIs
  <2>8. Level(d, s, i)
    BY <1>7, <1>8, <2>7 DEF Amid, Bracketed, Level
  <2>9. i \in 1 .. Len(d) + 1
    BY <1>2, <2>5 DEF In
  <2> HIDE DEF i
  <2>10. Good(d, F, r) /\ r.pos = i /\ r.next = "behind"
    <3> DEFINE w == Weight(s.tok)
    <3>1. w \in Int /\ Amid(d, F, s, w)
      BY <1>7
    <3> HIDE DEF w
    <3>2. Putting(d, F, s, null, null, i)
      BY <1>6, <2>8, <2>9, <3>1 DEF Putting
    <3>3. QED
      BY <2>4, <3>2, LeafGood DEF HasPut
  <2>11. QED
    BY <1>2, <1>5, <1>12, <2>10 DEF i
<1>13. r = Document!Failed(s) => Ok
  BY <1>2, FailedGood
<1>14. QED
  BY <1>1, <1>9, <1>10, <1>11, <1>12, <1>13 DEF r

(* The token in front of a value, comments skipped or not.                 *)
LEMMA SkipTokenReads ==
    ASSUME NEW d \in Words, NEW F, NEW s, In(d, s)
    PROVE  Reads(d, s, Document!skipCommentTokens(d, F, s))
<1> DEFINE r == Document!skipCommentTokens(d, F, s)
           t == Document!readToken(d, F, s)
           u == Document!skipComments(d, F, t)
<1>1. Reads(d, s, t)
  BY TokenReads
<1>2. Reads(d, s, u)
  BY <1>1, SkipsComments
<1>3. r = t \/ r = u
  BY DEF Document!skipCommentTokens
<1> HIDE DEF r, t, u
<1>4. QED
  BY <1>1, <1>2, <1>3 DEF r

(* readValue keeps the invariant, whether the nesting is too deep or not.  *)
LEMMA ValueGood ==
    ASSUME NEW d \in Words, NEW F, F.stackLimit \in Nat, NEW s,
           Before(d, F, s, 0), s.next = "value"
    PROVE  LET r == Document!readValue(d, F, s)
           IN  Good(d, F, r) /\ Moves(s, r)
<1> DEFINE r == Document!readValue(d, F, s)
           v == [s EXCEPT !.depth = @ + 1]
           t == Document!skipCommentTokens(d, F, v)
           u == Document!TakeComments("before", t)
           Ok == Good(d, F, r) /\ Moves(s, r)
           w == Weight(t.tok)
<1>1. s \in State /\ In(d, s) /\ Basic(d, F, s) /\ s.pos \in Nat
  BY DEF Before, Basic, In, State
<1>2. \/ s.depth >= F.stackLimit /\ r = [s EXCEPT !.out = "throw"]
      \/ ~(s.depth >= F.stackLimit) /\ r = Document!readPayload(d, F, u)
  BY DEF Document!readValue
<1>3. /\ Len(s.calls) \in Nat /\ Len(s.p) \in Nat /\ s.depth \in Nat /\ Len(s.last) \in Nat
  BY <1>1, StateIs
<1>4. /\ v \in State /\ v.depth = s.depth + 1 /\ v.pos = s.pos /\ v.calls = s.calls /\ v.p = s.p
      /\ v.last = s.last /\ v.out = s.out /\ v.dangles = s.dangles /\ v.alive = s.alive
  BY <1>1, <1>3 DEF State
<1> HIDE DEF v
<1>5. Basic(d, F, v) /\ Bracketed(d, v, 0) /\ In(d, v)
  BY <1>4 DEF Before, Basic, In, Bracketed
<1>6. Reads(d, v, t)
  BY <1>5, SkipTokenReads
<1> HIDE DEF t
<1>7. Basic(d, F, t) /\ Bracketed(d, t, w) /\ t \in State
  BY <1>5, <1>6, ReadWithin DEF Reads, In
<1>8. /\ Keeps(t, u)
      /\ u.p = t.p /\ u.calls = t.calls /\ u.next = t.next /\ u.dangles = t.dangles
  BY <1>7, CommentsTaken
<1> HIDE DEF u, w, r
<1>9. ASSUME s.depth >= F.stackLimit, r = [s EXCEPT !.out = "throw"] PROVE Ok
  <2>1. /\ r \in State /\ r.out = "throw" /\ r.depth = s.depth /\ r.pos = s.pos
        /\ r.calls = s.calls /\ r.p = s.p
        /\ r.last = s.last /\ r.dangles = s.dangles /\ r.alive = s.alive
    BY <1>1, <1>9 DEF State
  <2>2. Basic(d, F, r)
    BY <1>1, <2>1 DEF Basic, In
  <2>3. r.depth = F.stackLimit /\ Len(r.calls) = F.stackLimit
    BY <1>3, <1>9, <2>1 DEF Before
  <2>4. Bracketed(d, r, 0)
    BY <2>1 DEF Before, Bracketed
  <2>5. QED
    BY <2>1, <2>2, <2>3, <2>4 DEF Good, Moves, Document!Ended
<1>10. ASSUME ~(s.depth >= F.stackLimit), r = Document!readPayload(d, F, u) PROVE Ok
  <2>1. /\ t.depth = s.depth + 1 /\ t.calls = s.calls /\ t.p = s.p /\ t.out = "ok"
        /\ t.last = s.last /\ t.pos >= s.pos /\ (t.tok # "end" => t.pos > s.pos)
        /\ t.tok \in Document!Marks => d[t.pos - 1] = t.tok
    BY <1>4, <1>6 DEF Reads, Same, Before
  <2>2. Basic(d, F, u) /\ u.pos = t.pos /\ u.tok = t.tok /\ u.pos \in Nat
    BY <1>7, <1>8 DEF Basic, In, Keeps, State
  <2>3. Bracketed(d, u, w)
    BY <1>7, <1>8 DEF Bracketed, Keeps
  <2>4. Amid(d, F, u, Weight(u.tok)) /\ Len(u.last) <= Len(u.p)
    BY <1>3, <1>8, <1>10, <2>1, <2>2, <2>3 DEF Amid, Before, Keeps, w
  <2>5. Marked(d, u)
    <3>1. "end" \notin Document!Marks
      BY Zenon DEF Document!Marks
    <3>2. s.pos >= 1
      BY <1>1 DEF In
    <3>3. QED
      BY <1>1, <2>1, <2>2, <3>1, <3>2 DEF Marked
  <2>6. /\ Good(d, F, r)
        /\ \/ Document!Ended(r)
           \/ u.tok # "end" /\ r.pos >= u.pos
           \/ u.tok # "end" /\ r.pos >= u.pos - 1 /\ r.next # "value"
    BY <1>10, <2>4, <2>5, PayloadGood
  <2>7. r.pos \in Nat
    BY <2>6 DEF Good, Basic, In, State
  <2>8. Moves(s, r)
    BY <1>1, <2>1, <2>2, <2>6, <2>7 DEF Moves
  <2>9. QED
    BY <2>6, <2>8
<1>11. QED
  BY <1>2, <1>9, <1>10 DEF r

(* The end of readValue and what follows it keep the invariant.            *)
LEMMA BehindGood ==
    ASSUME NEW d \in Words, NEW F, F.stackLimit \in Nat, NEW s, Amid(d, F, s, 0)
    PROVE  LET r == Document!Behind(d, F, Document!AfterValue(F, s))
           IN  Good(d, F, r) /\ (Document!Ended(r) \/ r.pos > s.pos)
<1> DEFINE v == Document!AfterValue(F, s)
           r == Document!Behind(d, F, v)
           c == [v EXCEPT !.p = Document!Front(@)]
           Ok == Good(d, F, r) /\ (Document!Ended(r) \/ r.pos > s.pos)
<1>1. s \in State /\ In(d, s) /\ Basic(d, F, s) /\ s.pos \in Nat
  BY DEF Amid, Basic, In, State
<1>2. /\ Len(s.calls) \in Nat /\ Len(s.p) \in Nat /\ s.depth \in Nat /\ s.p \in Path
      /\ s.calls = <<>> <=> Len(s.calls) = 0
  BY <1>1, StateIs
<1>3. /\ v \in State /\ v.depth = s.depth - 1 /\ v.pos = s.pos /\ v.calls = s.calls /\ v.p = s.p
      /\ v.out = s.out /\ ~v.dangles /\ v.alive
      /\ v.last = s.p \/ (v.last = <<>> /\ Len(v.last) = 0)
      /\ F.collectComments \/ v.last = <<>>
  <2>0. s.depth - 1 \in Nat /\ ~s.dangles /\ s.alive
    BY <1>2 DEF Amid, Basic
  <2>1. CASE F.collectComments
    <3>1. v = [s EXCEPT !.depth = @ - 1, !.last = s.p, !.lastEnd = s.pos, !.dangles = FALSE]
      BY <2>1 DEF Document!AfterValue
    <3> HIDE DEF v
    <3>2. QED
      BY <1>1, <2>0, <2>1, <3>1 DEF State
  <2>2. CASE ~F.collectComments
    <3>1. v = [s EXCEPT !.depth = @ - 1]
      BY <2>2 DEF Document!AfterValue
    <3>2. s.last = <<>>
      BY <1>1, <2>2 DEF Basic
    <3> HIDE DEF v
    <3>3. QED
      BY <1>1, <2>0, <3>1, <3>2 DEF State
  <2>3. QED
    BY <2>1, <2>2
<1>4. \/ v.calls = <<>> /\ r = [v EXCEPT !.next = "none"]
      \/ v.calls # <<>> /\ r = Document!AfterElement(d, F, c)
      \/ v.calls # <<>> /\ r = Document!AfterMember(d, F, c)
  BY DEF Document!Behind
<1> HIDE DEF v, r
<1>5. Basic(d, F, v) /\ Bracketed(d, v, 0)
  BY <1>1, <1>3 DEF Amid, Basic, In, Bracketed
<1>6. ASSUME v.calls = <<>>, r = [v EXCEPT !.next = "none"] PROVE Ok
  <2>1. /\ r \in State /\ r.next = "none" /\ r.depth = v.depth /\ r.pos = v.pos /\ r.out = v.out
        /\ r.calls = v.calls /\ r.last = v.last /\ r.dangles = v.dangles /\ r.alive = v.alive
    BY <1>3, <1>6 DEF State
  <2>2. Basic(d, F, r)
    BY <1>5, <2>1 DEF Basic, In
  <2>3. r.depth = 0 /\ r.out = "ok"
    BY <1>2, <1>3, <1>6, <2>1 DEF Amid
  <2>4. QED
    BY <1>6, <2>1, <2>2, <2>3 DEF Good, Document!Ended
<1>7. ASSUME v.calls # <<>> PROVE Within(d, F, c, 0) /\ c.pos = s.pos
  <2> DEFINE q == Document!Front(v.p)
  <2>1. Len(v.p) >= 1 /\ Len(v.p) = Len(v.calls) /\ v.p \in Path
    BY <1>2, <1>3, <1>7 DEF Amid
  <2>2. q \in Path /\ Len(q) = Len(v.p) - 1
    BY <2>1 DEF Document!Front, Path
  <2>3. c = [v EXCEPT !.p = q]
    OBVIOUS
  <2> HIDE DEF q, c
  <2>4. /\ c \in State /\ c.p = q /\ c.depth = v.depth /\ c.pos = v.pos /\ c.out = v.out
        /\ c.calls = v.calls /\ c.last = v.last /\ c.dangles = v.dangles /\ c.alive = v.alive
    BY <1>3, <2>2, <2>3 DEF State
  <2>5. Basic(d, F, c) /\ Bracketed(d, c, 0)
    BY <1>5, <2>4 DEF Basic, In, Bracketed
  <2>6. Len(c.last) <= Len(c.calls)
    BY <1>2, <1>3, <2>1, <2>4 DEF Amid
  <2>7. c.depth = Len(c.calls) /\ Len(c.p) + 1 = Len(c.calls) /\ c.out = "ok"
        /\ Len(c.calls) <= F.stackLimit
    BY <1>2, <1>3, <2>1, <2>2, <2>4 DEF Amid
  <2>8. QED
    BY <1>3, <2>4, <2>5, <2>6, <2>7 DEF Within
<1> HIDE DEF c
<1>8. v.calls # <<>> /\ r = Document!AfterElement(d, F, c) => Ok
  BY <1>7, AfterElementGood
<1>9. v.calls # <<>> /\ r = Document!AfterMember(d, F, c) => Ok
  BY <1>7, AfterMemberGood
<1>10. QED
  BY <1>4, <1>6, <1>8, <1>9 DEF r, v

(* A step keeps the invariant, and the reader moves on.                    *)
LEMMA StepGood ==
    ASSUME NEW d \in Words, NEW F, F.stackLimit \in Nat, NEW s,
           Good(d, F, s), ~Document!Ended(s)
    PROVE  LET r == Document!Step(d, F, s)
           IN  Good(d, F, r) /\ Moves(s, r)
<1> DEFINE r == Document!Step(d, F, s)
           Ok == Good(d, F, r) /\ Moves(s, r)
<1>1. \/ s.next = "value" /\ Before(d, F, s, 0)
      \/ s.next = "behind" /\ Amid(d, F, s, 0)
      \/ s.next = "name" /\ Within(d, F, s, 0)
  BY DEF Good, Document!Ended
<1>2. ASSUME s.next = "value", Before(d, F, s, 0) PROVE Ok
  <2>1. r = Document!readValue(d, F, s)
    BY <1>2, Zenon DEF Document!Step
  <2> HIDE DEF r
  <2>2. QED
    BY <1>2, <2>1, ValueGood
<1>3. ASSUME s.next = "behind", Amid(d, F, s, 0) PROVE Ok
  <2>1. r = Document!Behind(d, F, Document!AfterValue(F, s))
    BY <1>3, Zenon DEF Document!Step
  <2> HIDE DEF r
  <2>2. QED
    BY <1>3, <2>1, BehindGood DEF Moves
<1>4. ASSUME s.next = "name", Within(d, F, s, 0) PROVE Ok
  <2>1. r = Document!readName(d, F, s)
    BY <1>4, Zenon DEF Document!Step
  <2> HIDE DEF r
  <2>2. QED
    BY <1>4, <2>1, NameGood DEF Moves
<1>5. QED
  BY <1>1, <1>2, <1>3, <1>4

-----------------------------------------------------------------------------
(* The reader step by step, until it has ended.                            *)
Turn(d, F, s) == IF Document!Ended(s) THEN s ELSE Document!Step(d, F, s)

Turns(d, F, f, r) ==
    /\ f[0] = Document!Start /\ f[2 * Len(d) + 2] = r
    /\ \A k \in 0 .. 2 * Len(d) + 2 : Good(d, F, f[k])
    /\ \A k \in 1 .. 2 * Len(d) + 2 : f[k] = Turn(d, F, f[k - 1])

(* The reader starts with the invariant.                                   *)
LEMMA StartGood ==
    ASSUME NEW d \in Words, NEW F, F.stackLimit \in Nat
    PROVE  Good(d, F, Document!Start) /\ Document!Start.pos = 1 /\ Document!Start.next = "value"
<1> DEFINE s == Document!Start
           root == Document!Root
           e == ""
           none == <<>>
<1>1. s = [pos |-> 1, tok |-> "none", lex |-> e, depth |-> 0, tree |-> root,
           before |-> none, last |-> none, lastEnd |-> 0, dangles |-> FALSE,
           out |-> "ok", alive |-> TRUE, p |-> none, calls |-> none, next |-> "value"]
  BY Zenon DEF Document!Start, Document!NoComment
<1>2. e \in Lexeme
  BY DEF Lexeme
<1>3. none \in Words /\ none \in Path /\ none \in Seq(Frame) /\ Len(none) = 0
  BY DEF Words, Path
<1>4. "none" \in Tok
  BY Zenon DEF Tok
<1>5. root \in Tree
  <2> DEFINE nd == Document!NewNode
  <2>1. root = [q \in {none} |-> nd] /\ {none} \in Paths
    BY <1>3 DEF Document!Root, Paths
  <2>2. nd \in Node
    BY NewNodeIs
  <2> HIDE DEF root, nd, none
  <2>3. root \in [{none} -> Node]
    BY <2>1, <2>2
  <2>4. QED
    BY <2>1, <2>3 DEF Tree
<1>6. Document!Depth(d, 0) = 0 /\ Len(d) \in Nat
  BY DepthIs DEF Words
<1> DEFINE at == "none"
<1>7. s.tok = at
  BY <1>1
<1> HIDE DEF s, root, e, none
<1>8. s \in State
  BY <1>1, <1>2, <1>3, <1>4, <1>5 DEF State
<1>9. /\ s.pos = 1 /\ s.depth = 0 /\ s.last = none /\ ~s.dangles /\ s.out = "ok" /\ s.alive
      /\ s.p = none /\ s.calls = none /\ s.next = "value"
  BY <1>1
<1>10. Basic(d, F, s)
  BY <1>6, <1>8, <1>9 DEF Basic, In, none
<1>11. Bracketed(d, s, 0)
  BY <1>3, <1>6, <1>9 DEF Bracketed
<1>12. Before(d, F, s, 0)
  BY <1>3, <1>9, <1>10, <1>11 DEF Before
<1>13. QED
  BY <1>9, <1>10, <1>12 DEF Good, s

(* readRoot is the last of as many turns as it allows, all of which keep   *)
(* the invariant.                                                          *)
LEMMA RootTurns ==
    ASSUME NEW d \in Words, NEW F, F.stackLimit \in Nat
    PROVE  \E f : Turns(d, F, f, Document!readRoot(d, F))
<1> DEFINE n == 2 * Len(d) + 2
           start == Document!Start
           Body(f) == [k \in 0 .. n |->
                          IF k = 0 THEN start
                          ELSE LET s == f[k - 1]
                               IN  IF Document!Ended(s) THEN s ELSE Document!Step(d, F, s)]
           after == CHOOSE f : f = Body(f)
           W == {s \in State : Good(d, F, s)}
           step == [q \in (1 .. n) \X W |-> Turn(d, F, q[2])]
<1>1. n \in Nat
  BY DEF Words
<1>2. \A s : Good(d, F, s) <=> s \in W
  BY DEF Good, Basic, In
<1>3. start \in W
  BY <1>2, StartGood
<1>4. \A s \in W : Turn(d, F, s) \in W
  BY <1>2, StepGood DEF Turn
<1>5. Document!readRoot(d, F) = after[n]
  BY DEF Document!readRoot
<1> HIDE DEF W, start
<1>6. step \in [(1 .. n) \X W -> W]
  BY <1>4
<1>7. Runs(W, start, n, step)
  <2> HIDE DEF step, n
  <2>1. QED
    BY <1>1, <1>3, <1>6, Recursion
<1>8. PICK f \in [0 .. n -> W] : f[0] = start /\ \A k \in 1 .. n : f[k] = step[<<k, f[k - 1]>>]
  <2> HIDE DEF step
  <2>1. QED
    BY <1>7 DEF Runs
<1>9. \A k \in 1 .. n : f[k] = Turn(d, F, f[k - 1])
  <2> SUFFICES ASSUME NEW k \in 1 .. n PROVE f[k] = Turn(d, F, f[k - 1])
    OBVIOUS
  <2> HIDE DEF step
  <2>1. k - 1 \in 0 .. n
    BY <1>1
  <2>2. f[k - 1] \in W /\ f[k] = step[<<k, f[k - 1]>>]
    BY <1>8, <2>1
  <2>3. step[<<k, f[k - 1]>>] = Turn(d, F, f[k - 1])
    BY <2>2 DEF step
  <2>4. QED
    BY <2>2, <2>3
<1>10. f = Body(f)
  BY <1>1, <1>8, <1>9 DEF Turn
<1>11. after = Body(after)
  <2> HIDE DEF Body
  <2>1. QED
    BY <1>10
<1>12. after[0] = start /\ \A k \in 1 .. n : after[k] = Turn(d, F, after[k - 1])
  <2> HIDE DEF after
  <2>1. QED
    BY <1>1, <1>11 DEF Turn
<1> HIDE DEF after, Body, step
<1>13. \A k \in 0 .. n : f[k] = after[k]
  <2>1. GoesOnLike(f, after, n)
    BY <1>8, <1>9, <1>12 DEF GoesOnLike
  <2>2. QED
    BY <1>1, <2>1, Alike
<1>14. \A k \in 0 .. n : Good(d, F, after[k])
  BY <1>2, <1>8, <1>13
<1>15. Turns(d, F, after, after[n])
  BY <1>12, <1>14 DEF Turns, start
<1>16. QED
  BY <1>5, <1>15

(* Each lexeme is met by two turns at most, so that the reading ends.      *)
Left(d, s) == 2 * (Len(d) + 1 - s.pos) + IF s.next = "value" THEN 1 ELSE 0

(* As many turns are enough.                                               *)
LEMMA RootEnds ==
    ASSUME NEW d \in Words, NEW F, F.stackLimit \in Nat
    PROVE  Good(d, F, Document!readRoot(d, F)) /\ Document!Ended(Document!readRoot(d, F))
<1> DEFINE n == 2 * Len(d) + 2
           r == Document!readRoot(d, F)
<1>1. PICK f : Turns(d, F, f, r)
  BY RootTurns
<1>2. n \in Nat /\ Len(d) \in Nat
  BY DEF Words
<1> HIDE DEF r
<1> DEFINE T == {k \in Nat : k <= n =>
                    Document!Ended(f[k]) \/ Left(d, f[k]) + k <= 2 * Len(d) + 1}
<1>3. 0 \in T
  <2>1. f[0] = Document!Start
    BY <1>1 DEF Turns
  <2>2. f[0].pos = 1 /\ f[0].next = "value"
    BY <2>1, StartGood
  <2>3. QED
    BY <1>2, <2>2 DEF Left
<1>4. ASSUME NEW k \in Nat, k \in T PROVE k + 1 \in T
  <2> SUFFICES ASSUME k + 1 <= n
               PROVE  Document!Ended(f[k + 1]) \/ Left(d, f[k + 1]) + (k + 1) <= 2 * Len(d) + 1
    OBVIOUS
  <2> DEFINE s == f[k]
             t == f[k + 1]
  <2>1. Good(d, F, s) /\ Good(d, F, t) /\ t = Turn(d, F, s)
    <3>1. k \in 0 .. n /\ k + 1 \in 1 .. n /\ k + 1 \in 0 .. n /\ (k + 1) - 1 = k
      BY <1>2
    <3>2. QED
      BY <1>1, <3>1 DEF Turns
  <2>2. Document!Ended(s) \/ Left(d, s) + k <= 2 * Len(d) + 1
    BY <1>4
  <2> HIDE DEF s, t
  <2>3. CASE Document!Ended(s)
    BY <2>1, <2>3 DEF Turn, t
  <2>4. CASE ~Document!Ended(s)
    <3>1. Moves(s, t)
      BY <2>1, <2>4, StepGood DEF Turn
    <3>2. s.pos \in Nat /\ t.pos \in Nat
      BY <2>1 DEF Good, Basic, In, State
    <3> DEFINE a == IF s.next = "value" THEN 1 ELSE 0
               b == IF t.next = "value" THEN 1 ELSE 0
               n0 == Len(d)
    <3>a. /\ a \in {0, 1} /\ b \in {0, 1}
          /\ s.next = "value" => a = 1
          /\ t.next # "value" => b = 0
      OBVIOUS
    <3>b. Left(d, s) = 2 * (n0 + 1 - s.pos) + a /\ Left(d, t) = 2 * (n0 + 1 - t.pos) + b
      BY DEF Left
    <3>c. n0 \in Nat
      BY <1>2
    <3> DEFINE x == Left(d, s)
               y == Left(d, t)
               i == s.pos
               j == t.pos
               done == Document!Ended(t)
    <3>d. done \/ (j > i) \/ (j >= i /\ a = 1 /\ b = 0)
      BY <3>1, <3>a DEF Moves
    <3>e. x = 2 * (n0 + 1 - i) + a /\ y = 2 * (n0 + 1 - j) + b
      BY <3>b
    <3>f. i \in Nat /\ j \in Nat
      BY <3>2
    <3> HIDE DEF a, b, n0, x, y, i, j, done
    <3>g. x \in Int /\ y \in Int
      BY <3>a, <3>c, <3>e, <3>f
    <3>h. done \/ y + 1 <= x
      BY <3>a, <3>c, <3>d, <3>e, <3>f
    <3>3. Document!Ended(t) \/ Left(d, t) + 1 <= Left(d, s)
      BY <3>h DEF done, x, y
    <3>4. Left(d, s) \in Int /\ Left(d, t) \in Int
      BY <3>g DEF x, y
    <3>5. Document!Ended(t) \/ Left(d, t) + (k + 1) <= 2 * Len(d) + 1
      BY <1>2, <2>2, <2>4, <3>3, <3>4
    <3>6. QED
      BY <3>5 DEF t
  <2>5. QED
    BY <2>3, <2>4
<1>5. n \in T
  <2> HIDE DEF T, n
  <2>1. QED
    BY <1>2, <1>3, <1>4, Induction
<1>6. f[n] = r /\ Good(d, F, f[n])
  BY <1>1, <1>2 DEF Turns
<1>7. r.pos \in 1 .. Len(d) + 1
  BY <1>6 DEF Good, Basic, In
<1>8. ~ (Left(d, r) + n <= 2 * Len(d) + 1)
  <2>1. Left(d, r) >= 0 /\ Left(d, r) \in Int
    BY <1>2, <1>7 DEF Left
  <2>2. QED
    BY <1>2, <2>1
<1>9. QED
  BY <1>5, <1>6, <1>8 DEF r

(* What holds of all that was read, for all documents and features.        *)
Safe(d, F, r) ==
    /\ Document!Ended(r) /\ r.alive
    /\ r.out = "ok" => r.depth = 0 /\ r.calls = <<>>
    /\ r.out = "throw" =>
          r.depth = F.stackLimit /\ Len(r.calls) = F.stackLimit /\ Bracketed(d, r, 0)

(* For every document and all features: Reader comes to an end, gives      *)
(* comments only to values that still exist, has as many calls as it       *)
(* counts when it gives up, and none is left when it accepts               *)
(* (Reader::parse, stackDepth_g, lastValue_).                              *)
THEOREM ParsesSafely ==
    ASSUME NEW d \in Words, NEW F, F.stackLimit \in Nat
    PROVE  Safe(d, F, Document!parse(d, F))
<1> DEFINE v == Document!readRoot(d, F)
           t == Document!skipCommentTokens(d, F, v)
           u == Document!TakeComments("after", t)
           r == Document!parse(d, F)
<1>1. Good(d, F, v) /\ Document!Ended(v)
  BY RootEnds
<1>2. \/ v.out # "ok" /\ r = v
      \/ v.out = "ok" /\ r = Document!Failed(t)
      \/ v.out = "ok" /\ r = u
  BY DEF Document!parse, Document!AfterRoot, Document!BehindRoot
<1> HIDE DEF v, r
<1>3. In(d, v) /\ Basic(d, F, v) /\ v.alive
  BY <1>1 DEF Good, Basic
<1>4. Reads(d, v, t)
  BY <1>3, SkipTokenReads
<1> HIDE DEF t
<1>5. Basic(d, F, t) /\ t \in State
  BY <1>3, <1>4, ReadWithin DEF Reads, In
<1>6. Keeps(t, u) /\ u.calls = t.calls /\ u.next = t.next
  BY <1>5, CommentsTaken
<1> HIDE DEF u
<1>7. v.out # "ok" /\ r = v => Safe(d, F, r)
  BY <1>1, <1>3 DEF Safe, Good
<1>8. v.out = "ok" /\ r = Document!Failed(t) => Safe(d, F, r)
  <2> DEFINE x == Document!Failed(t)
  <2>1. x.out = "error" /\ x.alive = t.alive /\ t.alive
    BY <1>5, FailedIs DEF Basic
  <2> HIDE DEF x
  <2>2. Safe(d, F, x)
    BY <2>1 DEF Safe, Document!Ended
  <2>3. QED
    BY <2>2 DEF x
<1>9. v.out = "ok" /\ r = u => Safe(d, F, r)
  <2> SUFFICES ASSUME v.out = "ok", r = u PROVE Safe(d, F, r)
    OBVIOUS
  <2>1. v.next = "none" /\ v.depth = 0 /\ v.calls = <<>>
    BY <1>1 DEF Good, Document!Ended
  <2>2. t.next = "none" /\ t.depth = 0 /\ t.calls = <<>> /\ t.out = "ok" /\ t.alive
    BY <1>4, <1>5, <2>1 DEF Reads, Same, Basic
  <2>3. u.next = "none" /\ u.depth = 0 /\ u.calls = <<>> /\ u.out = "ok" /\ u.alive
    BY <1>6, <2>2 DEF Keeps
  <2>4. QED
    BY <2>3 DEF Safe, Document!Ended
<1>10. QED
  BY <1>2, <1>7, <1>8, <1>9 DEF r

-----------------------------------------------------------------------------
(* Two readers of the same document that differ in comments alone.         *)
Match(d, s, t) ==
    /\ In(d, s) /\ In(d, t)
    /\ t.pos = s.pos /\ t.tok = s.tok /\ t.lex = s.lex /\ t.depth = s.depth
    /\ t.p = s.p /\ t.calls = s.calls /\ t.next = s.next /\ t.out = s.out
    /\ Document!Data(t.tree) = Document!Data(s.tree)

(* Which token and lexeme is read does not depend on the features.         *)
LEMMA TokenLex ==
    ASSUME NEW d \in Words, NEW F, NEW s, In(d, s)
    PROVE  LET i == Document!skipSpaces(d, s.pos)
               t == Document!readToken(d, F, s)
           IN  IF i > Len(d) THEN t.pos = i /\ t.tok = "end" /\ t.lex = s.lex
               ELSE IF d[i] \in Document!CComment \cup {"//"}
               THEN t.pos = Document!CommentEnd(d, i) /\ t.tok = "comment" /\ t.lex = s.lex
               ELSE t.pos = i + 1 /\ t.tok = Document!TokenType(d[i]) /\ t.lex = d[i]
<1> DEFINE n == Len(d)
           i == Document!skipSpaces(d, s.pos)
           t == Document!readToken(d, F, s)
           e == Document!CommentEnd(d, i)
           r == At(s, e, "comment")
           u == Document!SetComment(r.tree, r.last, "same", SubSeq(d, i, e - 1))
           c == r.before \o SubSeq(d, i, e - 1)
           k == Document!TokenType(d[i])
           x == Document!readComment(d, F, s, i)
<1>1. t = IF i > n THEN At(s, i, "end")
          ELSE IF d[i] \in Document!CComment \cup {"//"} THEN x ELSE AtLex(s, i + 1, k, d[i])
  BY Zenon DEF Document!readToken, At, AtLex
<1>2. \/ x = r \/ x = [r EXCEPT !.alive = FALSE]
      \/ x = [r EXCEPT !.tree = u] \/ x = [r EXCEPT !.before = c]
  BY Zenon DEF Document!readComment, Document!addComment, At
<1>3. s \in State /\ n \in Nat /\ s.pos \in 1 .. n + 1 /\ i \in s.pos .. n + 1
  BY SkipIs DEF In, Words
<1>4. At(s, i, "end").pos = i /\ At(s, i, "end").tok = "end" /\ At(s, i, "end").lex = s.lex
  BY <1>3 DEF At, State
<1>5. ASSUME i <= n, d[i] \in Document!CComment \cup {"//"}
      PROVE  x.pos = e /\ x.tok = "comment" /\ x.lex = s.lex
  <2>1. e \in Nat
    BY <1>3, <1>5, CommentEndIs
  <2> HIDE DEF e, x, u, c
  <2>2. r \in State /\ r.pos = e /\ r.tok = "comment" /\ r.lex = s.lex
    <3>1. "comment" \in Tok
      BY Zenon DEF Tok
    <3>2. r \in State /\ r.pos = e /\ r.tok = "comment"
      BY <1>3, <2>1, <3>1, Moved
    <3>3. r.lex = s.lex
      BY <1>3 DEF At, State
    <3>4. QED
      BY <3>2, <3>3
  <2> HIDE DEF r
  <2>3. QED
    BY <1>2, <2>2 DEF State
<1>6. LET y == AtLex(s, i + 1, k, d[i]) IN y.pos = i + 1 /\ y.tok = k /\ y.lex = d[i]
  BY <1>3 DEF AtLex, State
<1> HIDE DEF x, e, k, i, t
<1>7. IF i > n THEN t.pos = i /\ t.tok = "end" /\ t.lex = s.lex
      ELSE IF d[i] \in Document!CComment \cup {"//"}
      THEN t.pos = e /\ t.tok = "comment" /\ t.lex = s.lex
      ELSE t.pos = i + 1 /\ t.tok = k /\ t.lex = d[i]
  <2>1. CASE i > n
    BY <1>1, <1>4, <2>1
  <2>2. CASE ~(i > n) /\ d[i] \in Document!CComment \cup {"//"}
    BY <1>1, <1>3, <1>5, <2>2
  <2>3. CASE ~(i > n) /\ ~(d[i] \in Document!CComment \cup {"//"})
    BY <1>1, <1>6, <2>3
  <2>4. QED
    BY <2>1, <2>2, <2>3
<1>8. QED
  BY <1>7, Zenon DEF i, t, e, k

(* Alike readers read the same token.                                      *)
LEMMA TokenMatch ==
    ASSUME NEW d \in Words, NEW F, NEW G, NEW s, NEW t, Match(d, s, t)
    PROVE  Match(d, Document!readToken(d, F, s), Document!readToken(d, G, t))
<1> DEFINE u == Document!readToken(d, F, s)
           v == Document!readToken(d, G, t)
<1>1. In(d, s) /\ In(d, t) /\ t.pos = s.pos /\ t.lex = s.lex
  BY DEF Match
<1>2. Reads(d, s, u) /\ Reads(d, t, v)
  BY <1>1, TokenReads
<1>3. v.pos = u.pos /\ v.tok = u.tok /\ v.lex = u.lex
  <2>1. LET i == Document!skipSpaces(d, s.pos)
        IN  IF i > Len(d) THEN u.pos = i /\ u.tok = "end" /\ u.lex = s.lex
            ELSE IF d[i] \in Document!CComment \cup {"//"}
            THEN u.pos = Document!CommentEnd(d, i) /\ u.tok = "comment" /\ u.lex = s.lex
            ELSE u.pos = i + 1 /\ u.tok = Document!TokenType(d[i]) /\ u.lex = d[i]
    BY <1>1, TokenLex
  <2>2. LET i == Document!skipSpaces(d, t.pos)
        IN  IF i > Len(d) THEN v.pos = i /\ v.tok = "end" /\ v.lex = t.lex
            ELSE IF d[i] \in Document!CComment \cup {"//"}
            THEN v.pos = Document!CommentEnd(d, i) /\ v.tok = "comment" /\ v.lex = t.lex
            ELSE v.pos = i + 1 /\ v.tok = Document!TokenType(d[i]) /\ v.lex = d[i]
    BY <1>1, TokenLex
  <2> HIDE DEF u, v
  <2>3. QED
    BY <1>1, <2>1, <2>2, Zenon
<1> HIDE DEF u, v
<1>4. Match(d, u, v)
  BY <1>2, <1>3 DEF Match, Reads, Same
<1>5. QED
  BY <1>4 DEF u, v

(* And skip the same comments.                                             *)
LEMMA SkipMatch ==
    ASSUME NEW d \in Words, NEW F, NEW G, NEW s, NEW t, Match(d, s, t)
    PROVE  Match(d, Document!skipComments(d, F, s), Document!skipComments(d, G, t))
<1> DEFINE n == Len(d)
           u == Document!skipComments(d, F, s)
           v == Document!skipComments(d, G, t)
<1>1. In(d, s) /\ In(d, t) /\ t.tok = s.tok /\ n \in Nat
  BY DEF Match, Words
<1>2. PICK f : SkipsBy(d, F, s, f, u)
  BY <1>1, SkipRuns
<1>3. PICK g : SkipsBy(d, G, t, g, v)
  BY <1>1, SkipRuns
<1> HIDE DEF u, v
<1> DEFINE T == {k \in Nat : k <= n => Match(d, f[k], g[k])}
<1>4. 0 \in T
  BY <1>2, <1>3 DEF SkipsBy
<1>5. ASSUME NEW k \in Nat, k \in T PROVE k + 1 \in T
  <2> SUFFICES ASSUME k + 1 <= n PROVE Match(d, f[k + 1], g[k + 1])
    OBVIOUS
  <2>1. Match(d, f[k], g[k])
    BY <1>5
  <2>2. f[k + 1] = SkipNext(d, F, f[k]) /\ g[k + 1] = SkipNext(d, G, g[k])
    <3>1. k + 1 \in 1 .. n /\ (k + 1) - 1 = k
      BY <1>1
    <3>2. QED
      BY <1>2, <1>3, <3>1 DEF SkipsBy
  <2>3. f[k].tok = g[k].tok
    BY <2>1 DEF Match
  <2>4. Match(d, Document!readToken(d, F, f[k]), Document!readToken(d, G, g[k]))
    BY <2>1, TokenMatch
  <2>5. QED
    BY <2>1, <2>2, <2>3, <2>4 DEF SkipNext
<1>6. n \in T
  <2> HIDE DEF T
  <2>1. QED
    BY <1>1, <1>4, <1>5, Induction
<1>7. Match(d, f[n], g[n])
  BY <1>1, <1>6
<1>8. QED
  BY <1>1, <1>2, <1>3, <1>7 DEF SkipsBy, u, v

(* The readers stay alike when both do the same.                           *)
LEMMA PutMatch ==
    ASSUME NEW d \in Words, NEW s, NEW t, Match(d, s, t),
           NEW kind \in {"null", "leaf", "array", "object"}, NEW leaf \in Lexeme
    PROVE  Match(d, Document!Put(s, kind, leaf), Document!Put(t, kind, leaf))
<1> DEFINE u == Document!Put(s, kind, leaf)
           v == Document!Put(t, kind, leaf)
           x == Document!SwapPayload(s.tree, s.p, kind, leaf)
           y == Document!SwapPayload(t.tree, t.p, kind, leaf)
           a == s.dangles \/ Document!IsStrictPrefix(s.p, s.last)
           b == t.dangles \/ Document!IsStrictPrefix(t.p, t.last)
<1>1. s \in State /\ t \in State
  BY DEF Match, In
<1>2. /\ Keeps(s, u) /\ u.p = s.p /\ u.calls = s.calls /\ u.next = s.next
      /\ Keeps(t, v) /\ v.p = t.p /\ v.calls = t.calls /\ v.next = t.next
  BY <1>1, PutIs
<1>3. u = [s EXCEPT !.tree = x, !.dangles = a] /\ v = [t EXCEPT !.tree = y, !.dangles = b]
  BY DEF Document!Put
<1>4. s.tree \in Tree /\ t.tree \in Tree /\ s.p \in Path /\ t.p = s.p
      /\ Document!Data(t.tree) = Document!Data(s.tree)
  BY <1>1 DEF State, Match
<1>5. Document!Data(y) = Document!Data(x)
  BY <1>4, PayloadIs
<1> HIDE DEF u, v, x, y, a, b
<1>6. u.tree = x /\ v.tree = y
  BY <1>1, <1>3 DEF State
<1>7. Match(d, u, v)
  BY <1>2, <1>5, <1>6 DEF Match, In, Keeps
<1>8. QED
  BY <1>7 DEF u, v

(* They read the same child,                                               *)
LEMMA ChildMatch ==
    ASSUME NEW d \in Words, NEW s, NEW t, Match(d, s, t), NEW key \in Key
    PROVE  Match(d, Document!readChild(s, key), Document!readChild(t, key))
<1> DEFINE u == Document!readChild(s, key)
           v == Document!readChild(t, key)
           x == Document!Child(s.tree, s.p, key)
           y == Document!Child(t.tree, t.p, key)
           a == Append(s.p, key)
           b == Append(t.p, key)
<1>1. s \in State /\ t \in State
  BY DEF Match, In
<1>2. /\ Keeps(s, u) /\ u.calls = s.calls /\ u.next = "value"
      /\ Keeps(t, v) /\ v.calls = t.calls /\ v.next = "value"
  BY <1>1, ChildRead
<1>3. /\ u = [s EXCEPT !.tree = x, !.p = a, !.next = "value"]
      /\ v = [t EXCEPT !.tree = y, !.p = b, !.next = "value"]
  BY DEF Document!readChild
<1>4. s.tree \in Tree /\ t.tree \in Tree /\ s.p \in Path /\ t.p = s.p
      /\ Document!Data(t.tree) = Document!Data(s.tree)
  BY <1>1 DEF State, Match
<1>5. Document!Data(y) = Document!Data(x) /\ a = b
  BY <1>4, ChildIs
<1> HIDE DEF u, v, x, y, a, b
<1>6. u.tree = x /\ v.tree = y /\ u.p = a /\ v.p = b
  BY <1>1, <1>3 DEF State
<1>7. Match(d, u, v)
  BY <1>2, <1>5, <1>6 DEF Match, In, Keeps
<1>8. QED
  BY <1>7 DEF u, v

(* return from the same call,                                              *)
LEMMA ReturnMatch ==
    ASSUME NEW d \in Words, NEW s, NEW t, Match(d, s, t), s.calls # <<>>
    PROVE  Match(d, Document!Return(s), Document!Return(t))
<1> DEFINE u == Document!Return(s)
           v == Document!Return(t)
           a == Document!Front(s.calls)
           b == Document!Front(t.calls)
<1>1. s \in State /\ t \in State /\ t.calls = s.calls
  BY DEF Match, In
<1>2. /\ Keeps(s, u) /\ u.p = s.p /\ u.next = "behind"
      /\ Keeps(t, v) /\ v.p = t.p /\ v.next = "behind"
  BY <1>1, ReturnIs
<1>3. u = [s EXCEPT !.calls = a, !.next = "behind"] /\ v = [t EXCEPT !.calls = b, !.next = "behind"]
  BY DEF Document!Return
<1>4. a = b
  BY <1>1
<1> HIDE DEF u, v, a, b
<1>5. u.tree = s.tree /\ v.tree = t.tree /\ u.calls = a /\ v.calls = b
  BY <1>1, <1>3 DEF State
<1>6. Match(d, u, v)
  BY <1>2, <1>4, <1>5 DEF Match, In, Keeps
<1>7. QED
  BY <1>6 DEF u, v

(* make the same call,                                                     *)
LEMMA CallMatch ==
    ASSUME NEW d \in Words, NEW s, NEW t, Match(d, s, t), NEW kind \in {"array", "object"}
    PROVE  Match(d, Document!Call(s, kind), Document!Call(t, kind))
<1> DEFINE u == Document!Call(s, kind)
           v == Document!Call(t, kind)
           e == ""
           x == Document!Put(s, kind, e)
           y == Document!Put(t, kind, e)
           frame == [kind |-> kind, index |-> 0, name |-> e]
           a == Append(x.calls, frame)
           b == Append(y.calls, frame)
<1>1. s \in State /\ t \in State
  BY DEF Match, In
<1>2. e \in Lexeme
  BY DEF Lexeme
<1>3. u = [x EXCEPT !.calls = a] /\ v = [y EXCEPT !.calls = b]
  BY DEF Document!Call
<1>4. Match(d, x, y)
  <2>1. kind \in {"null", "leaf", "array", "object"}
    BY Zenon
  <2> HIDE DEF e
  <2>2. QED
    BY <1>2, <2>1, PutMatch
<1>5. u \in State /\ v \in State
  BY <1>1, CallIs DEF Keeps
<1> HIDE DEF u, v, e, x, y, frame
<1>6. x \in State /\ y \in State /\ a = b
  BY <1>4 DEF Match, In
<1> HIDE DEF a, b
<1>7. Match(d, u, v)
  BY <1>3, <1>4, <1>5, <1>6 DEF Match, In, State
<1>8. QED
  BY <1>7 DEF u, v

(* are at the same index or name,                                          *)
LEMMA FrameMatch ==
    ASSUME NEW d \in Words, NEW s, NEW t, Match(d, s, t), NEW i \in Nat, NEW name \in Key,
           s.calls # <<>>
    PROVE  Match(d, AtIndex(s, i), AtIndex(t, i)) /\ Match(d, AtName(s, name), AtName(t, name))
<1>1. s \in State /\ t \in State /\ t.calls = s.calls
  BY DEF Match, In
<1> DEFINE n == Len(s.calls)
           f == s.calls[n]
           c == [s.calls EXCEPT ![n] = [f EXCEPT !.index = i]]
           e == [s.calls EXCEPT ![n] = [f EXCEPT !.name = name]]
           u == AtIndex(s, i)
           v == AtIndex(t, i)
           x == AtName(s, name)
           y == AtName(t, name)
<1>2. /\ u = [s EXCEPT !.calls = c] /\ v = [t EXCEPT !.calls = c]
      /\ x = [s EXCEPT !.calls = e] /\ y = [t EXCEPT !.calls = e]
  BY <1>1 DEF AtIndex, AtName
<1>3. u \in State /\ v \in State /\ x \in State /\ y \in State
  BY <1>1, FrameIs DEF Keeps
<1> HIDE DEF u, v, x, y, c, e
<1>4. Match(d, u, v)
  BY <1>1, <1>2, <1>3 DEF Match, In, State
<1>5. Match(d, x, y)
  BY <1>1, <1>2, <1>3 DEF Match, In, State
<1>6. QED
  BY <1>4, <1>5 DEF u, v, x, y

(* and stay alike when one of them has comments to give.                   *)
LEMMA TakenMatch ==
    ASSUME NEW d \in Words, NEW s, NEW t, Match(d, s, t),
           NEW placement \in {"before", "same", "after"}
    PROVE  Match(d, Document!TakeComments(placement, s), Document!TakeComments(placement, t))
<1> DEFINE u == Document!TakeComments(placement, s)
           v == Document!TakeComments(placement, t)
<1>1. s \in State /\ t \in State
  BY DEF Match, In
<1>2. /\ Keeps(s, u) /\ u.p = s.p /\ u.calls = s.calls /\ u.next = s.next
      /\ Document!Data(u.tree) = Document!Data(s.tree)
      /\ Keeps(t, v) /\ v.p = t.p /\ v.calls = t.calls /\ v.next = t.next
      /\ Document!Data(v.tree) = Document!Data(t.tree)
  BY <1>1, CommentsTaken
<1> HIDE DEF u, v
<1>3. Match(d, u, v)
  BY <1>2 DEF Match, In, Keeps
<1>4. QED
  BY <1>3 DEF u, v

(* F is as strict as G in all that makes a reader fail, or stricter.       *)
Stricter(F, G) ==
    /\ G.stackLimit = F.stackLimit
    /\ F.allowComments => G.allowComments
    /\ F.allowDroppedNullPlaceholders => G.allowDroppedNullPlaceholders
    /\ F.allowNumericKeys => G.allowNumericKeys
    /\ G.strictRoot => F.strictRoot
    /\ G.failIfExtra => F.failIfExtra
    /\ G.rejectDupKeys => F.rejectDupKeys

Agrees(d, r, q) == r.out = "ok" => Match(d, r, q)

(* A stricter reader may fail.                                             *)
LEMMA FailedAgrees ==
    ASSUME NEW d, NEW s, In(d, s), NEW q
    PROVE  Agrees(d, Document!Failed(s), q)
<1>1. Document!Failed(s).out = "error"
  BY FailedIs DEF In
<1>2. QED
  BY <1>1 DEF Agrees

(* The next element is the same for both.                                  *)
LEMMA ElementMatch ==
    ASSUME NEW d \in Words, NEW s, NEW t, Match(d, s, t), NEW i \in Nat, s.calls # <<>>
    PROVE  Match(d, Document!readElement(s, i), Document!readElement(t, i))
<1> DEFINE k == Document!ToString(i)
           e == ""
           u == AtIndex(s, i)
           v == AtIndex(t, i)
           r == Document!readElement(s, i)
           q == Document!readElement(t, i)
<1>1. e \in Key /\ k \in Key
  BY DEF Key, Lexeme
<1>2. r = Document!readChild(u, k) /\ q = Document!readChild(v, k)
  BY DEF Document!readElement, AtIndex
<1> HIDE DEF k, e, u, v, r, q
<1>3. Match(d, u, v)
  BY <1>1, FrameMatch DEF u, v
<1>4. Match(d, r, q)
  BY <1>1, <1>2, <1>3, ChildMatch
<1>5. QED
  BY <1>4 DEF r, q

(* So is the next member, unless the stricter one refuses a name it has    *)
(* met.                                                                    *)
LEMMA MemberAgrees ==
    ASSUME NEW d \in Words, NEW F, NEW G, Stricter(F, G), NEW s, NEW t, Match(d, s, t),
           NEW name \in Key, s.calls # <<>>
    PROVE  Agrees(d, Document!readMember(d, F, s, name), Document!readMember(d, G, t, name))
<1> DEFINE r == Document!readMember(d, F, s, name)
           q == Document!readMember(d, G, t, name)
           u == Document!readToken(d, F, s)
           v == Document!readToken(d, G, t)
           a == AtName(u, name)
           b == AtName(v, name)
           no(x) == x.tok # ":"
           dup(x, y) == Append(x.p, name) \in DOMAIN y.tree
<1>1. In(d, s) /\ In(d, t)
  BY DEF Match
<1>2. Match(d, u, v)
  BY TokenMatch
<1>3. Reads(d, s, u) /\ Reads(d, t, v)
  BY <1>1, TokenReads
<1>4. u.calls = s.calls /\ v.calls = t.calls
  BY <1>3 DEF Reads, Same
<1>5. /\ r = IF no(u) \/ (F.rejectDupKeys /\ dup(s, u)) THEN Document!Failed(u)
              ELSE Document!readChild(a, name)
      /\ q = IF no(v) \/ (G.rejectDupKeys /\ dup(t, v)) THEN Document!Failed(v)
              ELSE Document!readChild(b, name)
  <2> HIDE DEF u, v
  <2>1. [u EXCEPT !.calls[Len(s.calls)].name = name] = a
    BY <1>4, Zenon DEF AtName
  <2>2. [v EXCEPT !.calls[Len(t.calls)].name = name] = b
    BY <1>4, Zenon DEF AtName
  <2> HIDE DEF a, b
  <2>3. QED
    BY <2>1, <2>2, Zenon DEF Document!readMember, u, v
<1> HIDE DEF u, v
<1>6. no(u) <=> no(v)
  BY <1>2, Zenon DEF Match
<1>7. dup(s, u) <=> dup(t, v)
  <2>1. t.p = s.p /\ Document!Data(u.tree) = Document!Data(v.tree)
    BY <1>2 DEF Match
  <2>2. DOMAIN u.tree = DOMAIN v.tree
    BY <2>1 DEF Document!Data
  <2>3. QED
    BY <2>1, <2>2
<1> HIDE DEF r, q, no, dup
<1>8. In(d, u)
  BY <1>2 DEF Match
<1>9. CASE no(u) \/ (F.rejectDupKeys /\ dup(s, u))
  <2>1. r = Document!Failed(u)
    BY <1>5, <1>9
  <2>2. Agrees(d, r, q)
    BY <1>8, <2>1, FailedAgrees
  <2>3. QED
    BY <2>2 DEF r, q
<1>10. CASE ~(no(u) \/ (F.rejectDupKeys /\ dup(s, u)))
  <2>1. r = Document!readChild(a, name)
    BY <1>5, <1>10
  <2>2. q = Document!readChild(b, name)
    BY <1>5, <1>6, <1>7, <1>10 DEF Stricter
  <2>3. Match(d, a, b)
    <3>1. 0 \in Nat /\ u.calls # <<>>
      BY <1>4
    <3>2. QED
      BY <1>2, <3>1, FrameMatch
  <2> HIDE DEF a, b
  <2>4. Match(d, r, q)
    BY <2>1, <2>2, <2>3, ChildMatch
  <2>5. QED
    BY <2>4 DEF Agrees, r, q
<1>11. QED
  BY <1>9, <1>10

(* The cases of OnSeparator exclude each other.                            *)
LEMMA SeparatorIs ==
    \A c : Document!OnSeparator(c) =
             IF c.tok = "]" THEN Document!Return(c)
             ELSE IF c.tok = "," THEN Document!readElement(c, Document!Last(c.calls).index + 1)
             ELSE Document!Failed(c)
<1>1. "]" # ","
  BY Zenon
<1>2. QED
  BY <1>1, Zenon DEF Document!OnSeparator

(* What separates the elements does so for both.                           *)
LEMMA SeparatorAgrees ==
    ASSUME NEW d \in Words, NEW s, NEW t, Match(d, s, t), s.calls # <<>>
    PROVE  Agrees(d, Document!OnSeparator(s), Document!OnSeparator(t))
<1> DEFINE closes(c) == c.tok = "]"
           goesOn(c) == c.tok = ","
           i == Document!Last(s.calls).index + 1
           r == Document!OnSeparator(s)
           q == Document!OnSeparator(t)
<1>1. t.tok = s.tok /\ t.calls = s.calls /\ s \in State /\ In(d, s)
  BY DEF Match, In
<1>2. /\ r = IF closes(s) THEN Document!Return(s)
              ELSE IF goesOn(s) THEN Document!readElement(s, i) ELSE Document!Failed(s)
      /\ q = IF closes(t) THEN Document!Return(t)
              ELSE IF goesOn(t) THEN Document!readElement(t, i) ELSE Document!Failed(t)
  BY <1>1, SeparatorIs, Zenon
<1>3. (closes(t) <=> closes(s)) /\ (goesOn(t) <=> goesOn(s))
  BY <1>1, Zenon
<1>4. i \in Nat
  <2>1. s.calls \in Seq(Frame) /\ Len(s.calls) >= 1
    BY <1>1, StateIs
  <2>2. s.calls[Len(s.calls)] \in Frame
    BY <2>1
  <2>3. QED
    BY <2>2 DEF Document!Last, Frame
<1>5. Match(d, Document!Return(s), Document!Return(t))
  BY ReturnMatch
<1>6. Match(d, Document!readElement(s, i), Document!readElement(t, i))
  BY <1>4, ElementMatch
<1> HIDE DEF closes, goesOn, i, r, q
<1>7. Agrees(d, Document!Failed(s), q)
  BY <1>1, FailedAgrees
<1>8. Agrees(d, r, q)
  BY <1>2, <1>3, <1>5, <1>6, <1>7 DEF Agrees
<1>9. QED
  BY <1>8 DEF r, q

(* An array goes on alike.                                                 *)
LEMMA AfterElementAgrees ==
    ASSUME NEW d \in Words, NEW F, NEW G, NEW s, NEW t, Match(d, s, t), s.calls # <<>>
    PROVE  Agrees(d, Document!AfterElement(d, F, s), Document!AfterElement(d, G, t))
<1> DEFINE u == Document!readToken(d, F, s)
           v == Document!readToken(d, G, t)
           a == Document!skipComments(d, F, u)
           b == Document!skipComments(d, G, v)
<1>1. In(d, s)
  BY DEF Match
<1>2. Reads(d, s, u)
  BY <1>1, TokenReads
<1>3. Reads(d, s, a)
  BY <1>1, <1>2, SkipsComments
<1>4. Match(d, u, v)
  BY TokenMatch
<1>5. Document!AfterElement(d, F, s) = Document!OnSeparator(a)
      /\ Document!AfterElement(d, G, t) = Document!OnSeparator(b)
  BY Zenon DEF Document!AfterElement
<1> HIDE DEF u, v
<1>6. Match(d, a, b)
  BY <1>4, SkipMatch
<1> HIDE DEF a, b
<1>7. a.calls # <<>>
  BY <1>3 DEF Reads, Same
<1>8. Agrees(d, Document!OnSeparator(a), Document!OnSeparator(b))
  BY <1>6, <1>7, SeparatorAgrees
<1>9. QED
  BY <1>5, <1>8

Named(s) == [s EXCEPT !.next = "name"]

(* Both look for a name.                                                   *)
LEMMA NamedMatch ==
    ASSUME NEW d \in Words, NEW s, NEW t, Match(d, s, t)
    PROVE  Match(d, Named(s), Named(t))
<1> DEFINE u == Named(s)
           v == Named(t)
<1>1. s \in State /\ t \in State
  BY DEF Match, In
<1>2. u = [s EXCEPT !.next = "name"] /\ v = [t EXCEPT !.next = "name"]
  BY DEF Named
<1> HIDE DEF u, v
<1>3. Match(d, u, v)
  BY <1>1, <1>2 DEF Match, In, State
<1>4. QED
  BY <1>3 DEF u, v

(* An object goes on alike.                                                *)
LEMMA AfterMemberAgrees ==
    ASSUME NEW d \in Words, NEW F, NEW G, NEW s, NEW t, Match(d, s, t), s.calls # <<>>
    PROVE  Agrees(d, Document!AfterMember(d, F, s), Document!AfterMember(d, G, t))
<1> DEFINE u == Document!readToken(d, F, s)
           v == Document!readToken(d, G, t)
           a == Document!skipComments(d, F, u)
           b == Document!skipComments(d, G, v)
           known(c) == c.tok \in {"}", ",", "comment"}
           closes(c) == c.tok = "}"
           r == Document!AfterMember(d, F, s)
           q == Document!AfterMember(d, G, t)
<1>1. In(d, s)
  BY DEF Match
<1>2. Reads(d, s, u)
  BY <1>1, TokenReads
<1>3. Reads(d, s, a)
  BY <1>1, <1>2, SkipsComments
<1>4. Match(d, u, v)
  BY TokenMatch
<1>5. /\ r = IF ~known(u) THEN Document!Failed(u)
             ELSE IF closes(a) THEN Document!Return(a) ELSE Named(a)
      /\ q = IF ~known(v) THEN Document!Failed(v)
             ELSE IF closes(b) THEN Document!Return(b) ELSE Named(b)
  BY Zenon DEF Document!AfterMember, Named
<1> HIDE DEF u, v, r, q
<1>6. Match(d, a, b)
  BY <1>4, SkipMatch
<1> HIDE DEF a, b
<1>7. (known(u) <=> known(v)) /\ (closes(a) <=> closes(b))
  BY <1>4, <1>6, Zenon DEF Match
<1> HIDE DEF known, closes
<1>8. a.calls # <<>>
  BY <1>3 DEF Reads, Same
<1>9. Match(d, Document!Return(a), Document!Return(b)) /\ Match(d, Named(a), Named(b))
  BY <1>6, <1>8, ReturnMatch, NamedMatch
<1>10. Agrees(d, Document!Failed(u), q)
  BY <1>4, FailedAgrees DEF Match
<1>11. Agrees(d, r, q)
  BY <1>5, <1>7, <1>9, <1>10 DEF Agrees
<1>12. QED
  BY <1>11 DEF r, q

(* The cases of OnName exclude each other.                                 *)
LEMMA NameIs ==
    \A d, F, t : Document!OnName(d, F, t) =
        IF t.tok = "}" /\ Document!Last(t.calls).name = "" THEN Document!Return(t)
        ELSE IF t.tok = "string" /\ t.lex # Document!BadString
        THEN Document!readMember(d, F, t, Document!NameOf[t.lex])
        ELSE IF t.tok = "number" /\ F.allowNumericKeys
        THEN Document!readMember(d, F, t, t.lex)
        ELSE Document!Failed(t)
<1>1. "}" # "string" /\ "}" # "number" /\ "string" # "number"
  BY Zenon
<1>2. QED
  BY <1>1, Zenon DEF Document!OnName

(* A name of the stricter reader is one of the other.                      *)
LEMMA OnNameAgrees ==
    ASSUME NEW d \in Words, NEW F, NEW G, Stricter(F, G), NEW s, NEW t, Match(d, s, t),
           s.calls # <<>>
    PROVE  Agrees(d, Document!OnName(d, F, s), Document!OnName(d, G, t))
<1> DEFINE closes(c) == c.tok = "}" /\ Document!Last(c.calls).name = ""
           named(c) == c.tok = "string" /\ c.lex # Document!BadString
           numeric(c) == c.tok = "number"
           name == Document!NameOf[s.lex]
           r == Document!OnName(d, F, s)
           q == Document!OnName(d, G, t)
<1>1. t.lex = s.lex /\ t.tok = s.tok /\ t.calls = s.calls /\ In(d, s) /\ s \in State
  BY DEF Match, In
<1>2. r = IF closes(s) THEN Document!Return(s)
          ELSE IF named(s) THEN Document!readMember(d, F, s, name)
          ELSE IF numeric(s) /\ F.allowNumericKeys THEN Document!readMember(d, F, s, s.lex)
          ELSE Document!Failed(s)
  BY NameIs, Zenon
<1>3. q = IF closes(t) THEN Document!Return(t)
          ELSE IF named(t) THEN Document!readMember(d, G, t, name)
          ELSE IF numeric(t) /\ G.allowNumericKeys THEN Document!readMember(d, G, t, s.lex)
          ELSE Document!Failed(t)
  BY <1>1, NameIs, Zenon
<1>4. (closes(t) <=> closes(s)) /\ (named(t) <=> named(s)) /\ (numeric(t) <=> numeric(s))
  BY <1>1, Zenon
<1>5. name \in Key /\ s.lex \in Key
  <2>1. s.lex \in Lexeme
    BY <1>1, StateIs
  <2>2. QED
    BY <2>1, Zenon DEF Key
<1> HIDE DEF closes, named, numeric, name, r, q
<1>6. Match(d, Document!Return(s), Document!Return(t))
  BY ReturnMatch
<1>7. /\ Agrees(d, Document!readMember(d, F, s, name), Document!readMember(d, G, t, name))
      /\ Agrees(d, Document!readMember(d, F, s, s.lex), Document!readMember(d, G, t, s.lex))
  BY <1>5, MemberAgrees
<1>8. Agrees(d, Document!Failed(s), q)
  BY <1>1, FailedAgrees
<1>9. Agrees(d, r, q)
  BY <1>2, <1>3, <1>4, <1>6, <1>7, <1>8 DEF Agrees, Stricter
<1>10. QED
  BY <1>9 DEF r, q

(* And with the comments in front of it.                                   *)
LEMMA NameAgrees ==
    ASSUME NEW d \in Words, NEW F, NEW G, Stricter(F, G), NEW s, NEW t, Match(d, s, t),
           s.calls # <<>>
    PROVE  Agrees(d, Document!readName(d, F, s), Document!readName(d, G, t))
<1> DEFINE u == Document!readToken(d, F, s)
           v == Document!readToken(d, G, t)
           a == Document!skipComments(d, F, u)
           b == Document!skipComments(d, G, v)
<1>1. In(d, s)
  BY DEF Match
<1>2. Reads(d, s, u)
  BY <1>1, TokenReads
<1>3. Reads(d, s, a)
  BY <1>1, <1>2, SkipsComments
<1>4. Match(d, u, v)
  BY TokenMatch
<1>5. Document!readName(d, F, s) = Document!OnName(d, F, a)
      /\ Document!readName(d, G, t) = Document!OnName(d, G, b)
  BY Zenon DEF Document!readName
<1> HIDE DEF u, v
<1>6. Match(d, a, b)
  BY <1>4, SkipMatch
<1> HIDE DEF a, b
<1>7. a.calls # <<>>
  BY <1>3 DEF Reads, Same
<1>8. Agrees(d, Document!OnName(d, F, a), Document!OnName(d, G, b))
  BY <1>6, <1>7, OnNameAgrees
<1>9. QED
  BY <1>5, <1>8

(* An object begins alike.                                                 *)
LEMMA ObjectMatch ==
    ASSUME NEW d \in Words, NEW s, NEW t, Match(d, s, t)
    PROVE  Match(d, Document!readObject(s), Document!readObject(t))
<1> DEFINE object == "object"
           u == Document!Call(s, object)
           v == Document!Call(t, object)
<1>1. Match(d, u, v)
  BY CallMatch
<1>2. Document!readObject(s) = Named(u) /\ Document!readObject(t) = Named(v)
  BY Zenon DEF Document!readObject, Named
<1> HIDE DEF u, v
<1>3. Match(d, Named(u), Named(v))
  BY <1>1, NamedMatch
<1>4. QED
  BY <1>2, <1>3

(* The same value is put.                                                  *)
LEMMA PutsMatch ==
    ASSUME NEW d \in Words, NEW s, NEW t, Match(d, s, t),
           NEW kind \in {"null", "leaf", "array", "object"}, NEW leaf \in Lexeme,
           NEW i \in 1 .. Len(d) + 1
    PROVE  Match(d, Puts(s, kind, leaf, i), Puts(t, kind, leaf, i))
<1> DEFINE x == Document!Put(s, kind, leaf)
           y == Document!Put(t, kind, leaf)
           u == Puts(s, kind, leaf, i)
           v == Puts(t, kind, leaf, i)
<1>1. Match(d, x, y)
  BY PutMatch
<1>2. u = [x EXCEPT !.pos = i, !.next = "behind"] /\ v = [y EXCEPT !.pos = i, !.next = "behind"]
  BY DEF Puts
<1>3. i \in Nat
  BY DEF Words
<1> HIDE DEF x, y, u, v
<1>4. x \in State /\ y \in State
  BY <1>1 DEF Match, In
<1>5. Match(d, u, v)
  BY <1>1, <1>2, <1>3, <1>4 DEF Match, In, State
<1>6. QED
  BY <1>5 DEF u, v

(* An array begins alike, or is empty for both.                            *)
LEMMA ArrayMatch ==
    ASSUME NEW d \in Words, NEW s, NEW t, Match(d, s, t)
    PROVE  Match(d, Document!readArray(d, s), Document!readArray(d, t))
<1> DEFINE i == Document!skipSpaces(d, s.pos)
           array == "array"
           e == ""
           n == Len(d)
           u == Document!Call(s, array)
           v == Document!Call(t, array)
           empty == i <= n /\ d[i] = "]"
           r == Document!readArray(d, s)
           q == Document!readArray(d, t)
<1>1. t.pos = s.pos /\ s \in State /\ s.pos \in 1 .. n + 1 /\ n \in Nat
  BY DEF Match, In, Words
<1>2. /\ r = IF empty THEN Puts(s, array, e, i + 1) ELSE Document!readElement(u, 0)
      /\ q = IF empty THEN Puts(t, array, e, i + 1) ELSE Document!readElement(v, 0)
  BY <1>1, Zenon DEF Document!readArray, Puts
<1>3. i \in s.pos .. n + 1
  BY <1>1, SkipIs
<1>4. Match(d, u, v)
  BY CallMatch
<1>5. u.calls # <<>>
  <2>1. Len(u.calls) = Len(s.calls) + 1 /\ Len(s.calls) \in Nat
    BY <1>1, CallIs, StateIs
  <2> HIDE DEF u
  <2>2. QED
    BY <2>1
<1>6. e \in Lexeme /\ array \in {"null", "leaf", "array", "object"}
  BY DEF Lexeme
<1>7. empty => i + 1 \in 1 .. n + 1
  <2> DEFINE full == i <= n
  <2>1. empty => full
    BY Zenon
  <2> HIDE DEF empty
  <2>2. full => i + 1 \in 1 .. n + 1
    BY <1>1, <1>3
  <2>3. QED
    BY <2>1, <2>2
<1> HIDE DEF i, array, e, u, v, empty, r, q
<1>8. empty => Match(d, Puts(s, array, e, i + 1), Puts(t, array, e, i + 1))
  BY <1>6, <1>7, PutsMatch
<1>9. Match(d, Document!readElement(u, 0), Document!readElement(v, 0))
  BY <1>4, <1>5, ElementMatch
<1>10. Match(d, r, q)
  BY <1>2, <1>8, <1>9
<1>11. QED
  BY <1>10 DEF r, q

(* A leaf is the same, or refused by both.                                 *)
LEMMA LeafAgrees ==
    ASSUME NEW d \in Words, NEW s, NEW t, Match(d, s, t)
    PROVE  Agrees(d, Document!readLeaf(s), Document!readLeaf(t))
<1> DEFINE kind == IF s.lex = "null" THEN "null" ELSE "leaf"
           x == Document!Put(s, kind, s.lex)
           y == Document!Put(t, kind, t.lex)
           bad == s.lex = Document!BadString
           r == Document!readLeaf(s)
           q == Document!readLeaf(t)
<1>1. t.lex = s.lex /\ t.pos = s.pos /\ In(d, s) /\ s \in State /\ t \in State
  BY DEF Match, In
<1>2. /\ r = IF bad THEN Document!Failed(s) ELSE [x EXCEPT !.next = "behind"]
      /\ q = IF bad THEN Document!Failed(t) ELSE [y EXCEPT !.next = "behind"]
  BY <1>1, Zenon DEF Document!readLeaf
<1>3. kind \in {"null", "leaf", "array", "object"} /\ s.lex \in Lexeme
  BY <1>1, StateIs
<1>4. Match(d, x, y)
  <2> HIDE DEF kind
  <2>1. QED
    BY <1>1, <1>3, PutMatch
<1> HIDE DEF kind, x, y, bad, r, q
<1>5. Match(d, [x EXCEPT !.next = "behind"], [y EXCEPT !.next = "behind"])
  <2> DEFINE u == [x EXCEPT !.next = "behind"]
             v == [y EXCEPT !.next = "behind"]
  <2>1. x \in State /\ y \in State
    BY <1>4 DEF Match, In
  <2>2. Match(d, u, v)
    BY <1>4, <2>1 DEF Match, In, State
  <2>3. QED
    BY <2>2
<1>6. Agrees(d, Document!Failed(s), q)
  BY <1>1, FailedAgrees
<1>7. Agrees(d, r, q)
  BY <1>2, <1>5, <1>6 DEF Agrees
<1>8. QED
  BY <1>7 DEF r, q

(* What dropped elements leave.                                            *)
Dropped(s) == [Document!Put(s, "null", "null") EXCEPT !.pos = @ - 1, !.next = "behind"]

(* The cases of the switch of readValue exclude each other.                *)
LEMMA SwitchIs ==
    \A d, F, s : Document!readPayload(d, F, s) =
        IF s.tok = "{" THEN Document!readObject(s)
        ELSE IF s.tok = "[" THEN Document!readArray(d, s)
        ELSE IF s.tok \in {"number", "string", "literal"} THEN Document!readLeaf(s)
        ELSE IF s.tok \in {",", "}", "]"} /\ F.allowDroppedNullPlaceholders THEN Dropped(s)
        ELSE Document!Failed(s)
<1>1. /\ "{" # "[" /\ "{" \notin {"number", "string", "literal"} /\ "{" \notin {",", "}", "]"}
      /\ "[" \notin {"number", "string", "literal"} /\ "[" \notin {",", "}", "]"}
      /\ \A x \in {"number", "string", "literal"} : x \notin {",", "}", "]"}
  BY Zenon
<1>2. QED
  BY <1>1, Zenon DEF Document!readPayload, Dropped

(* A dropped element is null for both.                                     *)
LEMMA DroppedMatch ==
    ASSUME NEW d \in Words, NEW s, NEW t, Match(d, s, t), s.pos > 1
    PROVE  Match(d, Dropped(s), Dropped(t))
<1> DEFINE null == "null"
           x == Document!Put(s, null, null)
           y == Document!Put(t, null, null)
           u == Dropped(s)
           v == Dropped(t)
<1>1. Match(d, x, y) /\ x.pos = s.pos
  <2>1. null \in Lexeme /\ null \in {"null", "leaf", "array", "object"} /\ s \in State
    BY DEF Lexeme, Match, In
  <2> HIDE DEF null
  <2>2. QED
    BY <2>1, PutMatch, PutIs DEF Keeps
<1>2. u = [x EXCEPT !.pos = @ - 1, !.next = "behind"] /\ v = [y EXCEPT !.pos = @ - 1, !.next = "behind"]
  BY DEF Dropped
<1> HIDE DEF null, x, y, u, v
<1>3. x \in State /\ y \in State /\ x.pos \in 1 .. Len(d) + 1 /\ Len(d) \in Nat
  BY <1>1 DEF Match, In, Words
<1>4. x.pos - 1 \in Nat /\ x.pos - 1 \in 1 .. Len(d) + 1
  BY <1>1, <1>3
<1>5. Match(d, u, v)
  BY <1>1, <1>2, <1>3, <1>4 DEF Match, In, State
<1>6. QED
  BY <1>5 DEF u, v

(* What the stricter reader takes for a value the other one takes for the  *)
(* same.                                                                   *)
LEMMA PayloadAgrees ==
    ASSUME NEW d \in Words, NEW F, NEW G, Stricter(F, G), NEW s, NEW t, Match(d, s, t),
           Marked(d, s)
    PROVE  Agrees(d, Document!readPayload(d, F, s), Document!readPayload(d, G, t))
<1> DEFINE object(c) == c.tok = "{"
           array(c) == c.tok = "["
           leaf(c) == c.tok \in {"number", "string", "literal"}
           dropped(c) == c.tok \in {",", "}", "]"}
           r == Document!readPayload(d, F, s)
           q == Document!readPayload(d, G, t)
<1>1. t.tok = s.tok /\ In(d, s)
  BY DEF Match
<1>2. /\ r = IF object(s) THEN Document!readObject(s)
             ELSE IF array(s) THEN Document!readArray(d, s)
             ELSE IF leaf(s) THEN Document!readLeaf(s)
             ELSE IF dropped(s) /\ F.allowDroppedNullPlaceholders THEN Dropped(s)
             ELSE Document!Failed(s)
      /\ q = IF object(t) THEN Document!readObject(t)
             ELSE IF array(t) THEN Document!readArray(d, t)
             ELSE IF leaf(t) THEN Document!readLeaf(t)
             ELSE IF dropped(t) /\ G.allowDroppedNullPlaceholders THEN Dropped(t)
             ELSE Document!Failed(t)
  BY SwitchIs, Zenon
<1>3. /\ (object(t) <=> object(s)) /\ (array(t) <=> array(s))
      /\ (leaf(t) <=> leaf(s)) /\ (dropped(t) <=> dropped(s))
  BY <1>1, Zenon
<1>4. dropped(s) => s.pos > 1
  <2>1. dropped(s) => s.tok \in Document!Marks
    BY Zenon DEF Document!Marks
  <2> HIDE DEF dropped
  <2>2. QED
    BY <2>1 DEF Marked
<1> HIDE DEF object, array, leaf, dropped, r, q
<1>5. /\ Match(d, Document!readObject(s), Document!readObject(t))
      /\ Match(d, Document!readArray(d, s), Document!readArray(d, t))
      /\ Agrees(d, Document!readLeaf(s), Document!readLeaf(t))
      /\ dropped(s) => Match(d, Dropped(s), Dropped(t))
  BY <1>4, ObjectMatch, ArrayMatch, LeafAgrees, DroppedMatch
<1>6. Agrees(d, Document!Failed(s), q)
  BY <1>1, FailedAgrees
<1>7. Agrees(d, r, q)
  BY <1>2, <1>3, <1>5, <1>6 DEF Agrees, Stricter
<1>8. QED
  BY <1>7 DEF r, q

(* The first token that is no comment is the same, if the stricter reader  *)
(* does not stop at a comment.                                             *)
LEMMA SkipTokenAgrees ==
    ASSUME NEW d \in Words, NEW F, NEW G, Stricter(F, G), NEW s, NEW t, Match(d, s, t)
    PROVE  LET u == Document!skipCommentTokens(d, F, s)
               v == Document!skipCommentTokens(d, G, t)
           IN  (F.allowComments \/ u.tok # "comment") => Match(d, u, v)
<1> DEFINE x == Document!readToken(d, F, s)
           y == Document!readToken(d, G, t)
           a == Document!skipComments(d, F, x)
           b == Document!skipComments(d, G, y)
           u == Document!skipCommentTokens(d, F, s)
           v == Document!skipCommentTokens(d, G, t)
<1>1. /\ u = IF F.allowComments THEN a ELSE x
      /\ v = IF G.allowComments THEN b ELSE y
  BY DEF Document!skipCommentTokens
<1>2. Match(d, x, y)
  BY TokenMatch
<1>3. x.tok # "comment" => b = y
  <2>1. x.tok = y.tok
    BY <1>2 DEF Match
  <2> HIDE DEF x, y
  <2>2. QED
    BY <2>1 DEF Document!skipComments
<1> HIDE DEF x, y, u, v
<1>4. Match(d, a, b)
  BY <1>2, SkipMatch
<1> HIDE DEF a, b
<1>5. (F.allowComments \/ u.tok # "comment") => Match(d, u, v)
  BY <1>1, <1>2, <1>3, <1>4 DEF Stricter
<1>6. QED
  BY <1>5 DEF u, v

(* readValue agrees.                                                       *)
LEMMA ValueAgrees ==
    ASSUME NEW d \in Words, NEW F, NEW G, Stricter(F, G), NEW s, NEW t, Match(d, s, t)
    PROVE  Agrees(d, Document!readValue(d, F, s), Document!readValue(d, G, t))
<1> DEFINE x == [s EXCEPT !.depth = @ + 1]
           y == [t EXCEPT !.depth = @ + 1]
           u == Document!skipCommentTokens(d, F, x)
           v == Document!skipCommentTokens(d, G, y)
           a == Document!TakeComments("before", u)
           b == Document!TakeComments("before", v)
           r == Document!readValue(d, F, s)
           q == Document!readValue(d, G, t)
           stop == [s EXCEPT !.out = "throw"]
<1>1. s \in State /\ t \in State /\ t.depth = s.depth /\ G.stackLimit = F.stackLimit
  BY DEF Match, In, Stricter
<1>2. /\ r = IF s.depth >= F.stackLimit THEN stop ELSE Document!readPayload(d, F, a)
      /\ s.depth >= F.stackLimit \/ q = Document!readPayload(d, G, b)
  BY <1>1 DEF Document!readValue
<1>3. stop.out # "ok"
  BY <1>1 DEF State
<1>4. Match(d, x, y) /\ x \in State /\ In(d, x)
  <2>1. /\ x = [s EXCEPT !.depth = s.depth + 1] /\ y = [t EXCEPT !.depth = s.depth + 1]
        /\ s.depth + 1 \in Nat
    BY <1>1, StateIs
  <2> HIDE DEF x, y
  <2>2. QED
    BY <1>1, <2>1 DEF Match, In, State
<1> HIDE DEF x, y, r, q, stop
<1>5. Reads(d, x, u)
  BY <1>4, SkipTokenReads
<1>6. (F.allowComments \/ u.tok # "comment") => Match(d, u, v)
  BY <1>4, SkipTokenAgrees
<1>7. u \in State /\ In(d, u)
  BY <1>5 DEF Reads, In
<1> HIDE DEF u, v
<1>8. Keeps(u, a)
  BY <1>7, CommentsTaken
<1>9. Match(d, u, v) => Match(d, a, b)
  BY TakenMatch
<1> HIDE DEF a, b
<1>10. Marked(d, a)
  <2>1. "end" \notin Document!Marks
    BY Zenon DEF Document!Marks
  <2>2. x.pos >= 1 /\ x.pos \in Nat /\ u.pos \in Nat /\ a.pos = u.pos /\ a.tok = u.tok
    BY <1>4, <1>7, <1>8 DEF In, State, Keeps
  <2>3. QED
    BY <1>5, <2>1, <2>2 DEF Reads, Marked
<1>11. Match(d, a, b) => Agrees(d, Document!readPayload(d, F, a), Document!readPayload(d, G, b))
  BY <1>10, PayloadAgrees
<1>12. u.tok = "comment" => Document!readPayload(d, F, a) = Document!Failed(a)
  <2> DEFINE comment == "comment"
  <2>1. a.tok = u.tok
    BY <1>8 DEF Keeps
  <2>2. /\ comment # "{" /\ comment # "[" /\ comment \notin {"number", "string", "literal"}
        /\ comment \notin {",", "}", "]"}
    BY Zenon
  <2>3. QED
    BY <2>1, <2>2, SwitchIs, Zenon
<1>13. In(d, a)
  BY <1>7, <1>8 DEF In, Keeps
<1>14. Agrees(d, Document!Failed(a), q)
  BY <1>13, FailedAgrees
<1>15. Agrees(d, r, q)
  <2>1. CASE s.depth >= F.stackLimit
    BY <1>2, <1>3, <2>1 DEF Agrees
  <2>2. CASE ~(s.depth >= F.stackLimit) /\ u.tok = "comment"
    BY <1>2, <1>12, <1>14, <2>2
  <2>3. CASE ~(s.depth >= F.stackLimit) /\ u.tok # "comment"
    BY <1>2, <1>6, <1>9, <1>11, <2>3
  <2>4. QED
    BY <2>1, <2>2, <2>3
<1>16. QED
  BY <1>15 DEF r, q

(* The end of readValue agrees, although the readers may not both collect  *)
(* comments.                                                               *)
LEMMA AfterValueMatch ==
    ASSUME NEW d \in Words, NEW F, NEW G, NEW s, NEW t, Match(d, s, t), s.depth > 0
    PROVE  Match(d, Document!AfterValue(F, s), Document!AfterValue(G, t))
<1>1. ASSUME NEW H, NEW x \in State, x.depth > 0
      PROVE  LET y == Document!AfterValue(H, x)
             IN  /\ y \in State /\ y.depth = x.depth - 1 /\ y.pos = x.pos /\ y.tok = x.tok
                 /\ y.lex = x.lex /\ y.p = x.p /\ y.calls = x.calls /\ y.next = x.next
                 /\ y.out = x.out /\ y.tree = x.tree
  <2> DEFINE y == Document!AfterValue(H, x)
             n == x.depth - 1
             u == [x EXCEPT !.depth = n, !.last = x.p, !.lastEnd = x.pos, !.dangles = FALSE]
             v == [x EXCEPT !.depth = n]
             Ok == /\ y \in State /\ y.depth = n /\ y.pos = x.pos /\ y.tok = x.tok
                   /\ y.lex = x.lex /\ y.p = x.p /\ y.calls = x.calls /\ y.next = x.next
                   /\ y.out = x.out /\ y.tree = x.tree
  <2>1. y = u \/ y = v
    BY DEF Document!AfterValue
  <2>2. n \in Nat
    BY <1>1, StateIs
  <2> HIDE DEF y, n
  <2>3. y = u => Ok
    BY <2>2 DEF State
  <2>4. y = v => Ok
    BY <2>2 DEF State
  <2> HIDE DEF u, v
  <2>5. QED
    BY <2>1, <2>3, <2>4 DEF y, n
<1> DEFINE u == Document!AfterValue(F, s)
           v == Document!AfterValue(G, t)
<1>2. s \in State /\ t \in State /\ t.depth = s.depth
  BY DEF Match, In
<1>3. /\ u \in State /\ u.depth = s.depth - 1 /\ u.pos = s.pos /\ u.tok = s.tok
      /\ u.lex = s.lex /\ u.p = s.p /\ u.calls = s.calls /\ u.next = s.next
      /\ u.out = s.out /\ u.tree = s.tree
  BY <1>1, <1>2
<1>4. /\ v \in State /\ v.depth = t.depth - 1 /\ v.pos = t.pos /\ v.tok = t.tok
      /\ v.lex = t.lex /\ v.p = t.p /\ v.calls = t.calls /\ v.next = t.next
      /\ v.out = t.out /\ v.tree = t.tree
  BY <1>1, <1>2
<1> HIDE DEF u, v
<1>5. Match(d, u, v)
  BY <1>3, <1>4 DEF Match, In
<1>6. QED
  BY <1>5 DEF u, v

(* What follows a value agrees.                                            *)
LEMMA BehindAgrees ==
    ASSUME NEW d \in Words, NEW F, NEW G, NEW s, NEW t, Match(d, s, t), Len(s.p) = Len(s.calls)
    PROVE  Agrees(d, Document!Behind(d, F, s), Document!Behind(d, G, t))
<1> DEFINE a == Document!Front(s.p)
           u == [s EXCEPT !.p = a]
           v == [t EXCEPT !.p = a]
           array == Document!Last(s.calls).kind = "array"
           x == [s EXCEPT !.next = "none"]
           y == [t EXCEPT !.next = "none"]
           r == Document!Behind(d, F, s)
           q == Document!Behind(d, G, t)
<1>1. s \in State /\ t \in State /\ t.p = s.p /\ t.calls = s.calls
  BY DEF Match, In
<1>2. /\ r = IF s.calls = <<>> THEN x
             ELSE IF array THEN Document!AfterElement(d, F, u) ELSE Document!AfterMember(d, F, u)
      /\ q = IF s.calls = <<>> THEN y
             ELSE IF array THEN Document!AfterElement(d, G, v) ELSE Document!AfterMember(d, G, v)
  BY <1>1 DEF Document!Behind
<1>3. s.calls = <<>> => Match(d, x, y)
  <2> HIDE DEF r, q
  <2>1. QED
    BY <1>1 DEF Match, In, State
<1>4. s.calls # <<>> => Match(d, u, v) /\ u.calls # <<>>
  <2> SUFFICES ASSUME s.calls # <<>> PROVE Match(d, u, v) /\ u.calls # <<>>
    OBVIOUS
  <2>1. Len(s.p) >= 1 /\ s.p \in Path
    BY <1>1, StateIs
  <2>2. a \in Path
    BY <2>1 DEF Document!Front, Path
  <2> HIDE DEF r, q, a
  <2>3. QED
    BY <1>1, <2>2 DEF Match, In, State
<1> HIDE DEF a, u, v, array, x, y, r, q
<1>5. s.calls # <<>> => /\ Agrees(d, Document!AfterElement(d, F, u), Document!AfterElement(d, G, v))
                        /\ Agrees(d, Document!AfterMember(d, F, u), Document!AfterMember(d, G, v))
  BY <1>4, AfterElementAgrees, AfterMemberAgrees
<1>6. Agrees(d, r, q)
  BY <1>2, <1>3, <1>5 DEF Agrees
<1>7. QED
  BY <1>6 DEF r, q

(* Whatever step the stricter reader takes the other one takes, too.       *)
LEMMA StepAgrees ==
    ASSUME NEW d \in Words, NEW F, NEW G, Stricter(F, G), NEW s, NEW t, Match(d, s, t),
           Good(d, F, s), ~Document!Ended(s)
    PROVE  Agrees(d, Document!Step(d, F, s), Document!Step(d, G, t))
<1> DEFINE r == Document!Step(d, F, s)
           q == Document!Step(d, G, t)
<1>1. \/ s.next = "value"
      \/ s.next = "behind" /\ Amid(d, F, s, 0)
      \/ s.next = "name" /\ Within(d, F, s, 0)
  BY DEF Good, Document!Ended
<1>2. t.next = s.next /\ s \in State
  BY DEF Match, In
<1>3. ASSUME s.next = "value" PROVE Agrees(d, r, q)
  <2>1. r = Document!readValue(d, F, s) /\ q = Document!readValue(d, G, t)
    BY <1>2, <1>3, Zenon DEF Document!Step
  <2> HIDE DEF r, q
  <2>2. QED
    BY <2>1, ValueAgrees
<1>4. ASSUME s.next = "behind", Amid(d, F, s, 0) PROVE Agrees(d, r, q)
  <2> DEFINE u == Document!AfterValue(F, s)
             v == Document!AfterValue(G, t)
  <2>1. r = Document!Behind(d, F, u) /\ q = Document!Behind(d, G, v)
    BY <1>2, <1>4, Zenon DEF Document!Step
  <2>2. s.depth > 0 /\ Len(s.p) = Len(s.calls)
    BY <1>2, <1>4, StateIs DEF Amid
  <2>3. Match(d, u, v)
    BY <2>2, AfterValueMatch
  <2>4. u.p = s.p /\ u.calls = s.calls
    BY <1>2 DEF Document!AfterValue, State
  <2> HIDE DEF r, q, u, v
  <2>5. QED
    BY <2>1, <2>2, <2>3, <2>4, BehindAgrees
<1>5. ASSUME s.next = "name", Within(d, F, s, 0) PROVE Agrees(d, r, q)
  <2>1. r = Document!readName(d, F, s) /\ q = Document!readName(d, G, t)
    BY <1>2, <1>5, Zenon DEF Document!Step
  <2>2. s.calls # <<>>
    BY <1>2, <1>5, StateIs DEF Within
  <2> HIDE DEF r, q
  <2>3. QED
    BY <2>1, <2>2, NameAgrees
<1>6. QED
  BY <1>1, <1>3, <1>4, <1>5

(* So that it has read the same root, if that is any.                      *)
LEMMA RootAgrees ==
    ASSUME NEW d \in Words, NEW F, NEW G, Stricter(F, G), F.stackLimit \in Nat
    PROVE  Agrees(d, Document!readRoot(d, F), Document!readRoot(d, G))
<1> DEFINE n == 2 * Len(d) + 2
           r == Document!readRoot(d, F)
           q == Document!readRoot(d, G)
<1>1. PICK f : Turns(d, F, f, r)
  BY RootTurns
<1>2. G.stackLimit \in Nat
  BY DEF Stricter
<1>3. PICK g : Turns(d, G, g, q)
  BY <1>2, RootTurns
<1>4. n \in Nat
  BY DEF Words
<1> HIDE DEF r, q
<1> DEFINE T == {k \in Nat : k <= n => Agrees(d, f[k], g[k])}
<1>5. 0 \in T
  <2>1. f[0] = Document!Start /\ g[0] = Document!Start
    BY <1>1, <1>3 DEF Turns
  <2>2. In(d, Document!Start)
    BY StartGood DEF Good, Basic
  <2>3. Agrees(d, f[0], g[0])
    BY <2>1, <2>2 DEF Agrees, Match
  <2>4. QED
    BY <2>3
<1>6. ASSUME NEW k \in Nat, k \in T PROVE k + 1 \in T
  <2> SUFFICES ASSUME k + 1 <= n PROVE Agrees(d, f[k + 1], g[k + 1])
    OBVIOUS
  <2> DEFINE s == f[k]
             t == g[k]
             u == f[k + 1]
             v == g[k + 1]
  <2>1. Good(d, F, s) /\ u = Turn(d, F, s) /\ v = Turn(d, G, t)
    <3>1. k \in 0 .. n /\ k + 1 \in 1 .. n /\ (k + 1) - 1 = k
      BY <1>4
    <3>2. QED
      BY <1>1, <1>3, <3>1 DEF Turns
  <2>2. Agrees(d, s, t)
    BY <1>6
  <2> HIDE DEF s, t, u, v
  <2>3. CASE s.out # "ok"
    BY <2>1, <2>3 DEF Turn, Document!Ended, Agrees, u, v
  <2>4. CASE s.out = "ok" /\ Document!Ended(s)
    <3>1. Match(d, s, t)
      BY <2>2, <2>4 DEF Agrees
    <3>2. u = s /\ v = t
      BY <2>1, <2>4, <3>1 DEF Turn, Document!Ended, Match
    <3>3. QED
      BY <3>1, <3>2 DEF Agrees, u, v
  <2>5. CASE ~Document!Ended(s)
    <3>1. Match(d, s, t)
      BY <2>2, <2>5 DEF Agrees, Document!Ended
    <3>2. ~Document!Ended(t)
      BY <2>5, <3>1 DEF Document!Ended, Match
    <3>3. u = Document!Step(d, F, s) /\ v = Document!Step(d, G, t)
      BY <2>1, <2>5, <3>2 DEF Turn
    <3>4. Agrees(d, Document!Step(d, F, s), Document!Step(d, G, t))
      BY <2>1, <2>5, <3>1, StepAgrees
    <3>5. QED
      BY <3>3, <3>4 DEF u, v
  <2>6. QED
    BY <2>3, <2>4, <2>5
<1>7. n \in T
  <2> HIDE DEF T, n
  <2>1. QED
    BY <1>4, <1>5, <1>6, Induction
<1>8. f[n] = r /\ g[n] = q
  BY <1>1, <1>3 DEF Turns
<1>9. Agrees(d, r, q)
  <2>1. Agrees(d, f[n], g[n])
    BY <1>4, <1>7
  <2>2. QED
    BY <1>8, <2>1
<1>10. QED
  BY <1>9 DEF r, q

(* The root is a container in both or in none.                             *)
LEMMA SameRoot ==
    ASSUME NEW t \in Tree, NEW u \in Tree, Document!Data(t) = Document!Data(u)
    PROVE  Document!IsContainer(t, <<>>) <=> Document!IsContainer(u, <<>>)
<1> DEFINE none == <<>>
<1>1. none \in DOMAIN t /\ none \in DOMAIN u
  BY DEF Tree, Paths
<1> HIDE DEF none
<1>2. <<t[none].kind, t[none].leaf>> = <<u[none].kind, u[none].leaf>>
  BY <1>1 DEF Document!Data
<1>3. t[none].kind = u[none].kind
  BY <1>2
<1>4. QED
  BY <1>3 DEF Document!IsContainer, none

(* What a reader accepts, one that is not stricter accepts, too, and takes *)
(* for the same value: for all documents and features.                     *)
THEOREM StricterAgrees ==
    ASSUME NEW d \in Words, NEW F, NEW G, Stricter(F, G), F.stackLimit \in Nat,
           Document!parse(d, F).out = "ok"
    PROVE  /\ Document!parse(d, G).out = "ok"
           /\ Document!Data(Document!parse(d, F).tree) = Document!Data(Document!parse(d, G).tree)
<1> DEFINE v == Document!readRoot(d, F)
           w == Document!readRoot(d, G)
           t == Document!skipCommentTokens(d, F, v)
           x == Document!skipCommentTokens(d, G, w)
           u == Document!TakeComments("after", t)
           y == Document!TakeComments("after", x)
           refused(H, c) == \/ H.failIfExtra /\ c.tok \notin {"error", "end"}
                            \/ H.strictRoot /\ ~Document!IsContainer(c.tree, <<>>)
           r == Document!parse(d, F)
           q == Document!parse(d, G)
<1>1. /\ r = IF v.out # "ok" THEN v ELSE IF refused(F, t) THEN Document!Failed(t) ELSE u
      /\ q = IF w.out # "ok" THEN w ELSE IF refused(G, x) THEN Document!Failed(x) ELSE y
  BY DEF Document!parse, Document!AfterRoot, Document!BehindRoot
<1>2. r.out = "ok"
  OBVIOUS
<1>3. v.out = "ok"
  <2> HIDE DEF v, t, u, r
  <2>1. QED
    BY <1>1, <1>2
<1>4. Match(d, v, w)
  BY <1>3, RootAgrees DEF Agrees
<1> HIDE DEF v, w, r, q
<1>5. In(d, v) /\ In(d, w) /\ w.out = "ok" /\ Document!Data(w.tree) = Document!Data(v.tree)
  BY <1>3, <1>4 DEF Match
<1>6. Reads(d, v, t) /\ Reads(d, w, x)
  BY <1>5, SkipTokenReads
<1>7. (F.allowComments \/ t.tok # "comment") => Match(d, t, x)
  BY <1>4, SkipTokenAgrees
<1> HIDE DEF t, x
<1>8. /\ t \in State /\ x \in State /\ x.out = "ok" /\ t.out = "ok"
      /\ Document!Data(t.tree) = Document!Data(x.tree)
      /\ t.tree \in Tree /\ x.tree \in Tree
  BY <1>3, <1>5, <1>6, StateIs DEF Reads, Same, In
<1>9. Keeps(t, u) /\ Keeps(x, y) /\ Document!Data(u.tree) = Document!Data(t.tree)
      /\ Document!Data(y.tree) = Document!Data(x.tree)
  BY <1>8, CommentsTaken
<1> HIDE DEF u, y
<1>10. ~refused(F, t)
  <2> HIDE DEF refused
  <2>1. Document!Failed(t).out = "error"
    BY <1>8, FailedIs
  <2>2. QED
    BY <1>1, <1>2, <1>3, <2>1
<1>11. ~refused(G, x)
  <2>1. ~(G.strictRoot /\ ~Document!IsContainer(x.tree, <<>>))
    BY <1>8, <1>10, SameRoot DEF Stricter
  <2>2. ~(G.failIfExtra /\ x.tok \notin {"error", "end"})
    <3> SUFFICES ASSUME G.failIfExtra PROVE x.tok \in {"error", "end"}
      OBVIOUS
    <3>1. t.tok \in {"error", "end"}
      BY <1>10 DEF Stricter
    <3>2. Match(d, t, x)
      BY <1>7, <3>1
    <3>3. QED
      BY <3>1, <3>2 DEF Match
  <2>3. QED
    BY <2>1, <2>2
<1> HIDE DEF refused
<1>12. r = u /\ q = y
  BY <1>1, <1>3, <1>5, <1>10, <1>11
<1>13. q.out = "ok" /\ Document!Data(r.tree) = Document!Data(q.tree)
  BY <1>8, <1>9, <1>12 DEF Keeps
<1>14. QED
  BY <1>13 DEF r, q

(* The strict readers are stricter than the default one.                   *)
LEMMA StrictIsStricter ==
    /\ Stricter(Document!StrictMode(StackLimit), Document!Default)
    /\ Stricter(Document!BuilderStrictMode(StackLimit), Document!Default)
    /\ Document!Default.stackLimit = StackLimit
    /\ Document!StrictMode(StackLimit).stackLimit = StackLimit
    /\ Document!BuilderStrictMode(StackLimit).stackLimit = StackLimit
<1> DEFINE G == Document!Default
           F == Document!StrictMode(StackLimit)
           H == Document!BuilderStrictMode(StackLimit)
<1>1. G = [allowComments |-> TRUE, collectComments |-> TRUE, strictRoot |-> FALSE,
           allowDroppedNullPlaceholders |-> FALSE, allowNumericKeys |-> FALSE,
           failIfExtra |-> FALSE, rejectDupKeys |-> FALSE, stackLimit |-> StackLimit]
  BY DEF Document!Default, Document!AllFeatures
<1>2. F = [G EXCEPT !.allowComments = FALSE, !.collectComments = FALSE, !.strictRoot = TRUE]
  BY DEF Document!StrictMode, Document!Default
<1>3. H = [F EXCEPT !.failIfExtra = TRUE, !.rejectDupKeys = TRUE]
  BY DEF Document!BuilderStrictMode
<1> HIDE DEF F, G, H
<1>4. F = [allowComments |-> FALSE, collectComments |-> FALSE, strictRoot |-> TRUE,
           allowDroppedNullPlaceholders |-> FALSE, allowNumericKeys |-> FALSE,
           failIfExtra |-> FALSE, rejectDupKeys |-> FALSE, stackLimit |-> StackLimit]
  BY <1>1, <1>2
<1>5. H = [allowComments |-> FALSE, collectComments |-> FALSE, strictRoot |-> TRUE,
           allowDroppedNullPlaceholders |-> FALSE, allowNumericKeys |-> FALSE,
           failIfExtra |-> TRUE, rejectDupKeys |-> TRUE, stackLimit |-> StackLimit]
  BY <1>3, <1>4
<1>6. /\ Stricter(F, G) /\ Stricter(H, G) /\ G.stackLimit = StackLimit
      /\ F.stackLimit = StackLimit /\ H.stackLimit = StackLimit
  BY <1>1, <1>4, <1>5 DEF Stricter
<1>7. QED
  BY <1>6 DEF F, G, H

(* What is typed stays a word, with nothing in its line comments.          *)
Typing ==
    /\ keyboard \in Keyboards /\ doc \in Words /\ Silent(doc)
    /\ got = Document!parse(doc, Document!Default)

(* Nothing is typed into a line comment but blanks.                        *)
LEMMA TypingIsClean ==
    ASSUME NEW d \in Words, Silent(d), NEW l \in Lexeme, Document!Fits(d, l)
    PROVE  Append(d, l) \in Words /\ Silent(Append(d, l))
<1> DEFINE e == Append(d, l)
           n == Len(d)
<1>1. /\ e \in Words /\ n \in Nat /\ DOMAIN d = 1 .. n /\ DOMAIN e = 1 .. n + 1
      /\ \A i \in 1 .. n : e[i] = d[i]
      /\ e[n + 1] = l
  BY DEF Words
<1> HIDE DEF e, n
<1>2. ASSUME NEW i \in DOMAIN e, NEW k \in DOMAIN e, i < k, e[i] = "//",
             \A j \in i .. k - 1 : e[j] # "\n"
      PROVE  e[k] \in Document!Blank
  <2>1. i \in 1 .. n /\ d[i] = "//" /\ k \in 1 .. n + 1
    BY <1>1, <1>2
  <2>2. \A j \in i .. k - 1 : d[j] # "\n"
    BY <1>1, <1>2, <2>1
  <2>3. CASE k \in 1 .. n
    BY <1>1, <1>2, <2>1, <2>2, <2>3 DEF Silent
  <2>4. CASE k = n + 1
    <3>1. \A j \in i .. n : d[j] # "\n"
      BY <1>1, <2>2, <2>4
    <3>2. Document!InLineComment(d)
      BY <1>1, <2>1, <3>1 DEF Document!InLineComment, n
    <3>3. l \in Document!Blank
      BY <3>2 DEF Document!Fits
    <3>4. QED
      BY <1>1, <2>4, <3>3
  <2>5. QED
    BY <1>1, <2>1, <2>3, <2>4
<1>3. Silent(e)
  BY <1>2 DEF Silent
<1>4. QED
  BY <1>1, <1>3 DEF e

(* The invariant implies what the run checks.                              *)
LEMMA TypedReads ==
    ASSUME Document!DocumentAssumption, Typing
    PROVE  EchoReads
<1> DEFINE F == Document!StrictMode(StackLimit)
           G == Document!Default
           H == Document!BuilderStrictMode(StackLimit)
<1>1. /\ Stricter(F, G) /\ Stricter(H, G) /\ G.stackLimit = StackLimit
      /\ F.stackLimit = StackLimit /\ H.stackLimit = StackLimit
  BY StrictIsStricter
<1>2. StackLimit \in Nat /\ doc \in Words /\ Silent(doc)
  BY DEF Document!DocumentAssumption, Typing
<1> HIDE DEF F, G, H
<1>3. got = Document!parse(doc, G)
  BY DEF Typing, G
<1>4. Safe(doc, G, got)
  BY <1>1, <1>2, <1>3, ParsesSafely
<1>5. Document!ReadingEnds /\ Document!CommentTargetsAlive
  BY <1>4 DEF Safe, Document!ReadingEnds, Document!CommentTargetsAlive
<1>6. Document!NestingIsCounted
  <2>1. Document!Accepted => got.depth = 0 /\ got.calls = <<>>
    BY <1>4 DEF Safe, Document!Accepted
  <2>2. ASSUME got.out = "throw"
        PROVE  /\ got.depth = StackLimit /\ Len(got.calls) = StackLimit
               /\ Document!BracketsSeen(doc) => Document!Depth(doc, got.pos - 1) = StackLimit
    <3>1. got.depth = StackLimit /\ Len(got.calls) = StackLimit /\ Bracketed(doc, got, 0)
      BY <1>1, <1>4, <2>2 DEF Safe
    <3>2. QED
      BY <1>2, <3>1 DEF Bracketed, Fine
  <2>3. QED
    BY <2>1, <2>2 DEF Document!NestingIsCounted
<1>7. ASSUME NEW K \in {F, H}, Document!parse(doc, K).out = "ok"
      PROVE  /\ Document!Accepted
             /\ Document!Data(Document!parse(doc, K).tree) = Document!Data(got.tree)
  <2>1. Stricter(K, G) /\ K.stackLimit \in Nat
    BY <1>1, <1>2
  <2>2. QED
    BY <1>2, <1>3, <1>7, <2>1, StricterAgrees DEF Document!Accepted
<1>8. Document!StrictAgrees
  BY <1>7 DEF Document!StrictAgrees, F, H
<1>9. QED
  BY <1>5, <1>6, <1>8 DEF EchoReads, Document!ReadsSafely

(* Whatever is typed is read safely.                                       *)
THEOREM DocumentsAreRead == Document!DocumentAssumption /\ Document!Spec => []EchoReads
<1>1. Document!Init => Typing
  <2>1. <<>> \in Words /\ Silent(<<>>)
    BY DEF Words, Silent
  <2>2. QED
    BY <2>1 DEF Document!Init, Typing
<1>2. Typing /\ [Document!Next]_(Document!vars) => Typing'
  <2> SUFFICES ASSUME Typing, [Document!Next]_(Document!vars) PROVE Typing'
    OBVIOUS
  <2>1. CASE UNCHANGED Document!vars
    BY <2>1 DEF Typing, Document!vars
  <2>2. ASSUME NEW l \in keyboard.lexemes, Document!Type(l) PROVE Typing'
    <3>1. l \in Lexeme
      BY DEF Typing, Lexeme
    <3>2. /\ Document!Fits(doc, l) /\ doc' = Append(doc, l) /\ keyboard' = keyboard
          /\ got' = Document!parse(doc', Document!Default)
      BY <2>2 DEF Document!Type
    <3>3. doc' \in Words /\ Silent(doc')
      BY <3>1, <3>2, TypingIsClean DEF Typing
    <3>4. QED
      BY <3>2, <3>3 DEF Typing
  <2>3. QED
    BY <2>1, <2>2 DEF Document!Next
<1>3. Document!DocumentAssumption /\ Typing => EchoReads
  BY TypedReads
<1>4. Document!DocumentAssumption => Document!DocumentAssumption'
  BY DEF Document!DocumentAssumption
<1>5. QED
  BY <1>1, <1>2, <1>3, <1>4, PTL DEF Document!Spec
=============================================================================
