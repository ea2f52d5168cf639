----------------------------- MODULE TageProofs -----------------------------
(***************************************************************************)
(* Proofs about the TAGE predictor of Tage: the ranges of its indices, the  *)
(* folded histories, the protection of useful entries, and what the loop    *)
(* that reads a register as a decimal number keeps of it, for any number of *)
(* tables, history lengths and widths.                                      *)
(*                                                                         *)
(* Facts about all natural numbers are proved through the set of those for  *)
(* which they hold, which Induction shows to be Nat.                        *)
(***************************************************************************)
EXTENDS Tage, FiniteSetTheorems, TLAPS

-----------------------------------------------------------------------------
(* Natural numbers, and sets of them.                                       *)

(* A set that has 0, and the successor of each of its elements, is Nat: if  *)
(* n were missing, x |-> x + 1 would map its elements below n one-to-one to *)
(* all of them but 0.                                                       *)
LEMMA Induction ==
    ASSUME NEW S \in SUBSET Nat, 0 \in S, \A n \in S : n + 1 \in S
    PROVE  S = Nat
<1>1. SUFFICES ASSUME NEW n \in Nat, n \notin S PROVE FALSE
  OBVIOUS
<1> DEFINE B == S \cap (0 .. n)
           R == B \ {0}
           f == [x \in B |-> x + 1]
<1>2. IsFiniteSet(B) /\ Cardinality(B) \in Nat
  <2>1. IsFiniteSet(0 .. n)
    BY FS_Interval
  <2>2. IsFiniteSet(B)
    BY <2>1, FS_Subset
  <2> QED BY <2>2, FS_CardinalityType
<1>3. 0 \in B
  OBVIOUS
<1>4. IsFiniteSet(R) /\ Cardinality(R) = Cardinality(B) - 1
  BY <1>2, <1>3, FS_RemoveElement
<1>5. f \in Injection(B, R)
  <2>1. \A x \in B : x + 1 \in R
    BY <1>1
  <2>2. f \in [B -> R]
    BY <2>1
  <2>3. IsInjective(f)
    BY DEF IsInjective
  <2> QED BY <2>2, <2>3 DEF Injection
<1> HIDE DEF B, R, f
<1>6. Cardinality(B) <= Cardinality(R)
  BY <1>2, <1>4, <1>5, FS_Injection
<1> QED BY <1>2, <1>4, <1>6

(* The greatest and the least element of a set of numbers below a bound.    *)
LEMMA Greatest ==
    ASSUME NEW n \in Nat, NEW S \in SUBSET (0 .. n), S # {}
    PROVE  Max(S) \in S /\ \A x \in S : x <= Max(S)
<1> DEFINE Has(k) == (\A x \in S : x <= k)
                       => \E m \in S : \A x \in S : x <= m
           H == {k \in Nat : Has(k)}
<1>1. Has(0)
  <2>1. PICK s \in S : TRUE
    OBVIOUS
  <2> QED BY <2>1
<1>2. ASSUME NEW k \in H PROVE k + 1 \in H
  <2>1. SUFFICES ASSUME \A x \in S : x <= k + 1
                 PROVE  \E m \in S : \A x \in S : x <= m
    OBVIOUS
  <2>2. CASE k + 1 \in S
    BY <2>1, <2>2
  <2>3. CASE k + 1 \notin S
    <3>1. \A x \in S : x <= k
      BY <2>1, <2>3
    <3> QED BY <3>1
  <2> QED BY <2>2, <2>3
<1>3. H = Nat
  <2> HIDE DEF Has
  <2>1. 0 \in H
    BY <1>1
  <2> QED BY <2>1, <1>2, Induction
<1>4. \E m \in S : \A x \in S : x <= m
  <2>1. n \in H
    BY <1>3
  <2> QED BY <2>1
<1>5. PICK m \in S : \A x \in S : m >= x
  BY <1>4
<1> QED BY <1>5 DEF Max

LEMMA Least ==
    ASSUME NEW n \in Nat, NEW S \in SUBSET (0 .. n), S # {}
    PROVE  Min(S) \in S /\ \A x \in S : Min(S) <= x
<1> DEFINE Has(k) == (\E x \in S : x <= k)
                       => \E m \in S : \A x \in S : m <= x
           H == {k \in Nat : Has(k)}
<1>1. Has(0)
  <2>1. PICK s \in S : TRUE
    OBVIOUS
  <2> QED BY <2>1
<1>2. ASSUME NEW k \in H PROVE k + 1 \in H
  <2>1. SUFFICES ASSUME \E x \in S : x <= k + 1
                 PROVE  \E m \in S : \A x \in S : m <= x
    OBVIOUS
  <2>2. CASE \E x \in S : x <= k
    BY <2>2
  <2>3. CASE \A x \in S : x > k
    BY <2>1, <2>3
  <2> QED BY <2>2, <2>3
<1>3. H = Nat
  <2> HIDE DEF Has
  <2>1. 0 \in H
    BY <1>1
  <2> QED BY <2>1, <1>2, Induction
<1>4. \E m \in S : \A x \in S : m <= x
  <2>1. n \in H
    BY <1>3
  <2>2. PICK s \in S : TRUE
    OBVIOUS
  <2>3. s \in 0 .. n
    OBVIOUS
  <2> QED BY <2>1, <2>3
<1>5. PICK m \in S : \A x \in S : m <= x
  BY <1>4
<1> QED BY <1>5 DEF Min

-----------------------------------------------------------------------------
(* What the recursive definitions compute, step by step.                    *)

(* f starts with s and goes on with b * f[k - 1] + d[k] until n.            *)
GoesOn(f, n, b, s, d) ==
    /\ f[0] = s
    /\ \A k \in 1 .. n : f[k] = b * f[k - 1] + d[k]

(* There is such a function on 0 .. n.                                      *)
LEMMA LinearRecursion ==
    ASSUME NEW n \in Nat, NEW b \in Int, NEW s \in Int, NEW d,
           \A k \in 1 .. n : d[k] \in Int
    PROVE  \E f \in [0 .. n -> Int] : GoesOn(f, n, b, s, d)
<1> DEFINE Is(f, m) == /\ f[0] = s
                       /\ \A k \in 1 .. m : f[k] = b * f[k - 1] + d[k]
           H == {m \in Nat : m <= n => \E f \in [0 .. m -> Int] : Is(f, m)}
<1>1. 0 \in H
  <2>1. [k \in 0 .. 0 |-> s] \in [0 .. 0 -> Int] /\ Is([k \in 0 .. 0 |-> s], 0)
    OBVIOUS
  <2> HIDE DEF Is
  <2> QED BY <2>1
<1>2. ASSUME NEW m \in H PROVE m + 1 \in H
  <2>1. SUFFICES ASSUME m + 1 <= n
                 PROVE  \E f \in [0 .. m + 1 -> Int] : Is(f, m + 1)
    <3> HIDE DEF Is
    <3> QED OBVIOUS
  <2>2. PICK f \in [0 .. m -> Int] : Is(f, m)
    BY <2>1
  <2> DEFINE v == b * f[m] + d[m + 1]
             g == [k \in 0 .. m + 1 |-> IF k = m + 1 THEN v ELSE f[k]]
  <2>3. v \in Int
    <3>1. m + 1 \in 1 .. n
      BY <2>1
    <3>2. d[m + 1] \in Int /\ f[m] \in Int
      BY <3>1, <2>2
    <3> QED BY <3>2
  <2>4. g \in [0 .. m + 1 -> Int]
    <3> HIDE DEF v
    <3> QED BY <2>2, <2>3
  <2>5. Is(g, m + 1)
    <3>1. g[0] = s
      BY <2>2
    <3>2. ASSUME NEW k \in 1 .. m + 1 PROVE g[k] = b * g[k - 1] + d[k]
      <4>1. CASE k = m + 1
        <5>1. g[k] = v /\ g[k - 1] = f[m]
          BY <4>1
        <5> HIDE DEF g
        <5> QED BY <5>1, <4>1
      <4>2. CASE k \in 1 .. m
        <5>1. g[k] = f[k] /\ g[k - 1] = f[k - 1]
          BY <4>2
        <5>2. f[k] = b * f[k - 1] + d[k]
          BY <4>2, <2>2
        <5> QED BY <5>1, <5>2
      <4> QED BY <4>1, <4>2
    <3> HIDE DEF g
    <3> QED BY <3>1, <3>2
  <2> HIDE DEF g, Is
  <2> QED BY <2>4, <2>5
<1>3. H = Nat
  <2> HIDE DEF Is
  <2> QED BY <1>1, <1>2, Induction
<1>4. \E f \in [0 .. n -> Int] : Is(f, n)
  <2>1. n \in H
    BY <1>3
  <2> QED BY <2>1
<1> QED BY <1>4 DEF GoesOn

(* Whatever goes on like that is a number throughout.                       *)
LEMMA RecursionInt ==
    ASSUME NEW n \in Nat, NEW b \in Int, NEW s \in Int, NEW d, NEW f,
           \A k \in 1 .. n : d[k] \in Int, GoesOn(f, n, b, s, d)
    PROVE  \A k \in 0 .. n : f[k] \in Int
<1> DEFINE H == {k \in Nat : k <= n => f[k] \in Int}
<1>1. 0 \in H
  BY DEF GoesOn
<1>2. ASSUME NEW k \in H PROVE k + 1 \in H
  <2>1. SUFFICES ASSUME k + 1 <= n PROVE f[k + 1] \in Int
    OBVIOUS
  <2>2. k + 1 \in 1 .. n /\ f[k] \in Int /\ (k + 1) - 1 = k
    BY <2>1
  <2>3. f[k + 1] = b * f[k] + d[k + 1] /\ d[k + 1] \in Int
    BY <2>2 DEF GoesOn
  <2> QED BY <2>2, <2>3
<1>3. H = Nat
  BY <1>1, <1>2, Induction
<1> QED BY <1>3

LEMMA Pow2Step ==
    /\ Pow2[0] = 1
    /\ \A k \in 0 .. TAG_WIDTH : Pow2[k] \in Nat /\ Pow2[k] > 0
    /\ \A k \in 1 .. TAG_WIDTH : Pow2[k] = 2 * Pow2[k - 1]
<1> DEFINE Def(f) == [k \in 0 .. TAG_WIDTH |-> IF k = 0 THEN 1 ELSE 2 * f[k - 1]]
           n == TAG_WIDTH
           zero == [k \in 1 .. n |-> 0]
<1>1. n \in Nat
  BY TageAssumption
<1>2. PICK f \in [0 .. n -> Int] :
             /\ f[0] = 1
             /\ \A k \in 1 .. n : f[k] = 2 * f[k - 1] + zero[k]
  <2> DEFINE b == 2
             s == 1
  <2>1. \A k \in 1 .. n : zero[k] \in Int
    OBVIOUS
  <2>2. b \in Int /\ s \in Int
    OBVIOUS
  <2> HIDE DEF zero, n, b, s
  <2>3. \E f \in [0 .. n -> Int] : GoesOn(f, n, b, s, zero)
    BY <1>1, <2>1, <2>2, LinearRecursion
  <2> QED BY <2>3 DEF b, s, GoesOn
<1>3. f = Def(f)
  <2>1. \A k \in 0 .. n : f[k] = Def(f)[k]
    BY <1>1, <1>2
  <2> QED BY <1>1, <1>2, <2>1
<1>4. Pow2 = Def(Pow2)
  <2> HIDE DEF Def
  <2>1. Pow2 = CHOOSE g : g = Def(g)
    BY DEF Pow2, Def
  <2> QED BY <1>3, <2>1
<1>5. Pow2[0] = 1 /\ \A k \in 1 .. n : Pow2[k] = 2 * Pow2[k - 1]
  BY <1>1, <1>4
<1> DEFINE H == {k \in Nat : k <= n => Pow2[k] \in Nat /\ Pow2[k] > 0}
<1>6. 0 \in H
  BY <1>5
<1>7. ASSUME NEW k \in H PROVE k + 1 \in H
  <2>1. SUFFICES ASSUME k + 1 <= n PROVE Pow2[k + 1] \in Nat /\ Pow2[k + 1] > 0
    OBVIOUS
  <2>2. k + 1 \in 1 .. n /\ Pow2[k] \in Nat /\ Pow2[k] > 0 /\ (k + 1) - 1 = k
    BY <2>1, <1>1
  <2>3. Pow2[k + 1] = 2 * Pow2[k]
    BY <2>2, <1>5
  <2> QED BY <2>2, <2>3
<1>8. H = Nat
  BY <1>6, <1>7, Induction
<1> QED BY <1>1, <1>5, <1>8

(* The loop of getCSR, for any digits: sum[k] is the number with the k      *)
(* highest ones.                                                            *)
AddsUp(sum, base, digit, n) ==
    /\ sum[0] = 0
    /\ \A k \in 1 .. n : sum[k] = base * sum[k - 1] + digit[n - k]
LEMMA ValueSteps ==
    ASSUME NEW base \in Int, NEW n \in Nat, NEW digit,
           \A k \in 0 .. n - 1 : digit[k] \in Int
    PROVE  \E sum \in [0 .. n -> Int] :
             AddsUp(sum, base, digit, n) /\ Value(base, digit, n) = sum[n]
<1> DEFINE Def(f) == [k \in 0 .. n |->
                        IF k = 0 THEN 0 ELSE base * f[k - 1] + digit[n - k]]
           d == [k \in 1 .. n |-> digit[n - k]]
           sum == CHOOSE f : f = Def(f)
           zero == 0
<1>1. \A k \in 1 .. n : d[k] \in Int
  OBVIOUS
<1>2. \A k \in 1 .. n : d[k] = digit[n - k]
  OBVIOUS
<1>3. zero \in Int
  OBVIOUS
<1> HIDE DEF d
<1>4. PICK f \in [0 .. n -> Int] : GoesOn(f, n, base, zero, d)
  <2> HIDE DEF zero
  <2> QED BY <1>1, <1>3, LinearRecursion
<1>5. f = Def(f)
  <2>1. \A k \in 0 .. n : f[k] = Def(f)[k]
    BY <1>2, <1>4 DEF GoesOn
  <2> QED BY <1>4, <2>1
<1>6. sum = Def(sum)
  <2> HIDE DEF Def
  <2> QED BY <1>5
<1>7. Value(base, digit, n) = sum[n]
  BY DEF Value
<1> HIDE DEF sum
<1>8. DOMAIN sum = 0 .. n /\ sum = [k \in 0 .. n |-> sum[k]]
  BY <1>6
<1>9. sum[0] = 0 /\ \A k \in 1 .. n : sum[k] = base * sum[k - 1] + digit[n - k]
  BY <1>6
<1>10. \A k \in 0 .. n : sum[k] \in Int
  <2>1. GoesOn(sum, n, base, zero, d)
    BY <1>2, <1>9 DEF GoesOn
  <2> HIDE DEF zero
  <2> QED BY <1>1, <1>3, <2>1, RecursionInt
<1>11. sum \in [0 .. n -> Int]
  BY <1>8, <1>10
<1> QED BY <1>7, <1>9, <1>11 DEF AddsUp

(* So it always is a number, and below NUM_TAGE_ENTRIES when it is masked.  *)
LEMMA MaskedValue ==
    ASSUME NEW base \in Int, NEW n \in Nat, NEW digit,
           \A k \in 0 .. n - 1 : digit[k] \in Int
    PROVE  /\ Value(base, digit, n) \in Int
           /\ Value(base, digit, n) % NUM_TAGE_ENTRIES \in Entries
<1>1. Value(base, digit, n) \in Int
  BY ValueSteps
<1>2. NUM_TAGE_ENTRIES \in Nat /\ NUM_TAGE_ENTRIES > 0
  <2>1. TAG_WIDTH - 1 \in 0 .. TAG_WIDTH /\ NUM_TAGE_ENTRIES = Pow2[TAG_WIDTH - 1]
    BY TageAssumption
  <2> QED BY <2>1, Pow2Step
<1> QED BY <1>1, <1>2 DEF Entries

-----------------------------------------------------------------------------
(* The ranges of tags, indices, history lengths and registers.              *)

LEMMA XorMaskedType ==
    ASSUME NEW a, NEW b, NEW c
    PROVE  XorMasked(a, b, c) \in Entries
<1> DEFINE odd(k) == (Bit(a, k) + Bit(b, k) + Bit(c, k)) % 2 = 1
           d == [k \in 0 .. TAG_WIDTH - 2 |-> IF odd(k) THEN 1 ELSE 0]
           n == TAG_WIDTH - 1
           two == 2
<1>1. n \in Nat /\ two \in Int
  BY TageAssumption
<1>2. \A k \in 0 .. n - 1 : d[k] \in Int
  <2>1. 0 .. n - 1 = 0 .. TAG_WIDTH - 2
    BY TageAssumption
  <2>2. \A k \in 0 .. TAG_WIDTH - 2 : d[k] \in Int
    <3> HIDE DEF odd
    <3> QED OBVIOUS
  <2> HIDE DEF d, n
  <2> QED BY <2>1, <2>2
<1>3. XorMasked(a, b, c) = Value(two, d, n) % NUM_TAGE_ENTRIES
  BY DEF XorMasked
<1> HIDE DEF d, n, two
<1> QED BY <1>1, <1>2, <1>3, MaskedValue

LEMMA TagInd ==
    ASSUME NEW t, NEW PC PROVE tag(t, PC) \in Entries /\ ind(t, PC) \in Entries
BY XorMaskedType DEF tag, ind

LEMMA TablesRange ==
    /\ NUM_TAGE_TABLES \in Nat \ {0} /\ Tables # {}
    /\ \A t \in Tables : t \in Nat \ {0} /\ HIS_BITS[t] \in Nat \ {0}
<1>1. HIS_BITS \in Seq(Nat \ {0}) /\ HIS_BITS # <<>>
  BY TageAssumption
<1>2. Len(HIS_BITS) \in Nat /\ Len(HIS_BITS) # 0
  BY <1>1
<1>3. \A t \in 1 .. Len(HIS_BITS) : HIS_BITS[t] \in Nat \ {0}
  BY <1>1
<1> QED BY <1>2, <1>3 DEF NUM_TAGE_TABLES, Tables

(* The history register is as long as the longest history.                  *)
LEMMA HistoryLengths ==
    /\ NUM_GHR_BITS \in Nat \ {0}
    /\ \A t \in Tables : HIS_BITS[t] <= NUM_GHR_BITS
<1> DEFINE H == {k \in Nat : \E m \in Nat :
                   \A t \in Tables : t <= k => HIS_BITS[t] <= m}
           L == {HIS_BITS[t] : t \in Tables}
<1>1. 0 \in H
  BY TablesRange
<1>2. ASSUME NEW k \in H PROVE k + 1 \in H
  <2>1. PICK m \in Nat : \A t \in Tables : t <= k => HIS_BITS[t] <= m
    OBVIOUS
  <2>2. CASE k + 1 \in Tables
    <3> DEFINE M == IF HIS_BITS[k + 1] <= m THEN m ELSE HIS_BITS[k + 1]
    <3>1. M \in Nat /\ m <= M /\ HIS_BITS[k + 1] <= M
      BY <2>2, TablesRange
    <3>2. \A t \in Tables : t <= k + 1 => HIS_BITS[t] <= M
      <4> SUFFICES ASSUME NEW t \in Tables, t <= k + 1 PROVE HIS_BITS[t] <= M
        OBVIOUS
      <4>1. t = k + 1 \/ t <= k
        BY TablesRange
      <4>2. HIS_BITS[t] \in Nat
        BY TablesRange
      <4> HIDE DEF M
      <4> QED BY <2>1, <3>1, <4>1, <4>2
    <3> HIDE DEF M
    <3> QED BY <3>1, <3>2
  <2>3. CASE k + 1 \notin Tables
    <3>1. \A t \in Tables : t <= k + 1 => t <= k
      BY <2>3, TablesRange
    <3> QED BY <2>1, <3>1
  <2> QED BY <2>2, <2>3
<1>3. H = Nat
  BY <1>1, <1>2, Induction
<1>4. PICK m \in Nat : \A t \in Tables : t <= NUM_TAGE_TABLES => HIS_BITS[t] <= m
  <2>1. NUM_TAGE_TABLES \in H
    BY <1>3, TablesRange
  <2> QED BY <2>1
<1>5. L # {} /\ L \in SUBSET (0 .. m)
  BY <1>4, TablesRange DEF Tables
<1>6. Max(L) \in L /\ \A x \in L : x <= Max(L)
  <2> HIDE DEF L
  <2> QED BY <1>5, Greatest
<1> QED BY <1>6, TablesRange DEF NUM_GHR_BITS

(* The history of T0 stays below T0_PHT_ENTRIES, which is even.             *)
LEMMA ShiftedHistory ==
    ASSUME NEW n \in Nat, n > 0, n % 2 = 0, NEW x \in 0 .. n - 1, NEW d \in {0, 1}
    PROVE  ((x * 2) % n) + d \in 0 .. n - 1
<1>1. PICK m \in Nat : n = 2 * m
  <2>1. n = 2 * (n \div 2) /\ n \div 2 \in Nat
    OBVIOUS
  <2> QED BY <2>1
<1>2. CASE x * 2 < n
  <2>1. (x * 2) % n = x * 2
    BY <1>2
  <2> QED BY <1>1, <1>2, <2>1
<1>3. CASE x * 2 >= n
  <2>1. (x * 2) % n = x * 2 - n
    BY <1>3
  <2> QED BY <1>1, <1>3, <2>1
<1> QED BY <1>2, <1>3

-----------------------------------------------------------------------------
(* The circular shift registers.                                            *)

(* The bit that moves to bit k of a register of w bits.                     *)
Before(k, w) == IF k = 0 THEN w - 1 ELSE k - 1

LEMMA ModSuccessor ==
    ASSUME NEW w \in Nat \ {0}, NEW i \in Nat, NEW k \in 0 .. w - 1
    PROVE  ((i + 1) % w = k) <=> (i % w = Before(k, w))
<1> DEFINE r == i % w
           q == i \div w
<1>1. r \in 0 .. w - 1 /\ q \in Nat /\ i = w * q + r
  OBVIOUS
<1>2. (i + 1) % w = IF r = w - 1 THEN 0 ELSE r + 1
  <2> HIDE DEF r, q
  <2>1. CASE r = w - 1
    <3>1. i + 1 = w * (q + 1)
      BY <1>1, <2>1
    <3> QED BY <1>1, <2>1, <3>1
  <2>2. CASE r # w - 1
    <3>1. i + 1 = w * q + (r + 1)
      BY <1>1
    <3> QED BY <1>1, <2>2, <3>1
  <2> QED BY <2>1, <2>2
<1> HIDE DEF r, q
<1>3. ((i + 1) % w = k) <=> (r = Before(k, w))
  BY <1>1, <1>2 DEF Before
<1> QED BY <1>3 DEF r

(* The parity of a finite set changes with every element taken out.         *)
LEMMA Without ==
    ASSUME NEW S, IsFiniteSet(S), NEW x
    PROVE  /\ IsFiniteSet(S \ {x}) /\ Cardinality(S \ {x}) \in Nat
           /\ Cardinality(S) = Cardinality(S \ {x}) + (IF x \in S THEN 1 ELSE 0)
<1>1. Cardinality(S) \in Nat
  BY FS_CardinalityType
<1>2. CASE x \in S
  <2>1. /\ IsFiniteSet(S \ {x})
        /\ Cardinality(S \ {x}) = Cardinality(S) - 1
    BY <1>2, FS_RemoveElement
  <2>2. Cardinality(S \ {x}) \in Nat
    BY <2>1, FS_CardinalityType
  <2> QED BY <1>1, <1>2, <2>1, <2>2
<1>3. CASE x \notin S
  <2>1. S \ {x} = S
    BY <1>3
  <2> QED BY <1>1, <1>3, <2>1
<1> QED BY <1>2, <1>3

LEMMA OnesFinite ==
    ASSUME NEW ghr, NEW length \in Nat, NEW width, NEW k
    PROVE  /\ IsFiniteSet(Ones(ghr, length, width, k))
           /\ Cardinality(Ones(ghr, length, width, k)) \in Nat
<1>1. IsFiniteSet(0 .. length - 1)
  BY FS_Interval
<1>2. Ones(ghr, length, width, k) \subseteq 0 .. length - 1
  BY DEF Ones
<1> QED BY <1>1, <1>2, FS_Subset, FS_CardinalityType

(* One more outcome shifted into the history: up to the oldest and the      *)
(* newest, the ones of position k are those of the position before.         *)
LEMMA OnesShift ==
    ASSUME NEW n \in Nat \ {0}, NEW w \in Nat \ {0}, NEW k \in 0 .. w - 1,
           NEW ghr, NEW new, \A i \in 1 .. n : new[i] = ghr[i - 1]
    PROVE  Cardinality(Ones(new, n, w, k) \ {0})
             = Cardinality(Ones(ghr, n, w, Before(k, w)) \ {n - 1})
<1> DEFINE p == Before(k, w)
           A == Ones(new, n, w, k) \ {0}
           B == Ones(ghr, n, w, p) \ {n - 1}
           up == [i \in B |-> i + 1]
           down == [i \in A |-> i - 1]
<1>1. \A i \in 0 .. n - 1 : i + 1 \in 1 .. n /\ new[i + 1] = ghr[i]
  <2> SUFFICES ASSUME NEW i \in 0 .. n - 1
               PROVE  i + 1 \in 1 .. n /\ new[i + 1] = ghr[i]
    OBVIOUS
  <2>1. i + 1 \in 1 .. n /\ (i + 1) - 1 = i
    OBVIOUS
  <2> QED BY <2>1
<1>2. \A i \in Nat : ((i + 1) % w = k) <=> (i % w = p)
  BY ModSuccessor
<1> HIDE DEF p
<1>3. \A i \in 0 .. n - 2 : i + 1 \in A <=> i \in B
  BY <1>1, <1>2 DEF Ones
<1>4. A \subseteq 1 .. n - 1 /\ B \subseteq 0 .. n - 2
  BY DEF Ones
<1>5. IsFiniteSet(A) /\ IsFiniteSet(B)
      /\ Cardinality(A) \in Nat /\ Cardinality(B) \in Nat
  BY OnesFinite, Without
<1> HIDE DEF A, B
<1>6. up \in Injection(B, A)
  <2>1. \A i \in B : i + 1 \in A
    BY <1>3, <1>4
  <2>2. up \in [B -> A]
    BY <2>1
  <2>3. IsInjective(up)
    BY <1>4 DEF IsInjective
  <2> QED BY <2>2, <2>3 DEF Injection
<1>7. down \in Injection(A, B)
  <2>1. \A i \in A : i - 1 \in B
    <3> SUFFICES ASSUME NEW i \in A PROVE i - 1 \in B
      OBVIOUS
    <3>1. i - 1 \in 0 .. n - 2 /\ (i - 1) + 1 = i
      BY <1>4
    <3> QED BY <1>3, <3>1
  <2>2. down \in [A -> B]
    BY <2>1
  <2>3. IsInjective(down)
    BY <1>4 DEF IsInjective
  <2> QED BY <2>2, <2>3 DEF Injection
<1> HIDE DEF up, down
<1>8. Cardinality(A) <= Cardinality(B) /\ Cardinality(B) <= Cardinality(A)
  BY <1>5, <1>6, <1>7, FS_Injection
<1>9. Cardinality(A) = Cardinality(B)
  BY <1>5, <1>8
<1> QED BY <1>9 DEF A, B, p

(* Taking an outcome out of a parity, and putting one in.                   *)
LEMMA Parities ==
    ASSUME NEW c \in Nat, NEW a \in {0, 1}, NEW b \in {0, 1}
    PROVE  /\ Xor((c + b) % 2, b) = c % 2
           /\ Xor(a, (c + b) % 2) = (c + a + b) % 2
           /\ Xor(Xor(a, (c + b) % 2), b) = (c + a) % 2
<1>1. CASE c % 2 = 0
  BY <1>1 DEF Xor
<1>2. CASE c % 2 = 1
  BY <1>2 DEF Xor
<1> QED BY <1>1, <1>2

(* The lowest w bits of a register hold the folded history.                 *)
Holds(reg, ghr, h, w) ==
    \A k \in 0 .. w - 1 : reg[k] = Cardinality(Ones(ghr, h, w, k)) % 2
IsShifted(new, ghr, g) == \A i \in 1 .. g - 1 : new[i] = ghr[i - 1]
SameAbove(new, reg, w) == \A k \in w .. TAG_WIDTH - 1 : new[k] = reg[k]
Register == [0 .. TAG_WIDTH - 1 -> Bit01]

(* A register that holds the folded history holds it after the update, too: *)
(* the newest outcome goes in at bit 0, the one that leaves at h % width.   *)
LEMMA ShiftFolds ==
    ASSUME NEW w \in 1 .. TAG_WIDTH, NEW h \in Nat, NEW g \in Nat, h < g,
           NEW reg \in Register,
           NEW ghr \in [0 .. g - 1 -> Bit01], NEW new \in [0 .. g - 1 -> Bit01],
           IsShifted(new, ghr, g), Holds(reg, ghr, h, w)
    PROVE  /\ Shifted(reg, w, h, new[0], new[h]) \in Register
           /\ Holds(Shifted(reg, w, h, new[0], new[h]), new, h, w)
           /\ SameAbove(Shifted(reg, w, h, new[0], new[h]), reg, w)
<1> USE DEF Register, IsShifted, Holds
<1> DEFINE s == Shifted(reg, w, h, new[0], new[h])
           p(k) == Before(k, w)
           bit(k) == IF k = 0 THEN Xor(new[0], reg[w - 1]) ELSE reg[k - 1]
<1>1. TAG_WIDTH \in Nat /\ w \in Nat \ {0} /\ h % w \in 0 .. w - 1
  BY TageAssumption
<1>2. new[0] \in Bit01 /\ new[h] \in Bit01
  OBVIOUS
<1>3. \A a, b \in Bit01 : Xor(a, b) \in Bit01
  BY DEF Xor, Bit01
<1>4. DOMAIN s = 0 .. TAG_WIDTH - 1
  BY DEF Shifted
<1>5. \A k \in w .. TAG_WIDTH - 1 : s[k] = reg[k]
  BY <1>1 DEF Shifted
<1>6. ASSUME NEW k \in 0 .. w - 1
      PROVE  /\ s[k] = IF k = h % w THEN Xor(bit(k), new[h]) ELSE bit(k)
             /\ bit(k) = IF k = 0 THEN Xor(new[0], reg[p(k)]) ELSE reg[p(k)]
             /\ bit(k) \in Bit01 /\ s[k] \in Bit01
  <2>1. s[k] = IF k = h % w THEN Xor(bit(k), new[h]) ELSE bit(k)
    BY <1>1 DEF Shifted
  <2>2. reg[w - 1] \in Bit01 /\ (k # 0 => reg[k - 1] \in Bit01)
    BY <1>1
  <2>3. bit(k) \in Bit01
    BY <1>2, <1>3, <2>2
  <2> QED BY <1>2, <1>3, <2>1, <2>3 DEF Before
<1>7. s \in [0 .. TAG_WIDTH - 1 -> Bit01]
  <2>1. \A k \in 0 .. TAG_WIDTH - 1 : s[k] \in Bit01
    <3> SUFFICES ASSUME NEW k \in 0 .. TAG_WIDTH - 1 PROVE s[k] \in Bit01
      OBVIOUS
    <3>1. CASE k \in 0 .. w - 1
      BY <1>6, <3>1
    <3>2. CASE k \in w .. TAG_WIDTH - 1
      BY <1>5, <3>2
    <3> QED BY <1>1, <3>1, <3>2
  <2>2. s = [k \in 0 .. TAG_WIDTH - 1 |-> s[k]]
    BY DEF Shifted
  <2> HIDE DEF s
  <2> QED BY <2>1, <2>2
<1>8. ASSUME NEW k \in 0 .. w - 1
      PROVE  s[k] = Cardinality(Ones(new, h, w, k)) % 2
  <2> DEFINE A == Ones(new, h, w, k)
             B == Ones(ghr, h, w, p(k))
  <2>1. p(k) \in 0 .. w - 1 /\ reg[p(k)] = Cardinality(B) % 2
    <3>1. p(k) \in 0 .. w - 1
      BY <1>1 DEF Before
    <3> HIDE DEF p
    <3> QED BY <3>1
  <2>2. CASE h = 0
    <3>1. A = {} /\ B = {}
      BY <2>2 DEF Ones
    <3>2. reg[p(k)] = 0 /\ Cardinality(A) % 2 = 0
      <4>1. Cardinality(A) = 0 /\ Cardinality(B) = 0
        BY <3>1, FS_EmptySet
      <4> HIDE DEF A, B
      <4> QED BY <2>1, <4>1
    <3>3. h % w = 0
      BY <1>1, <2>2
    <3> QED BY <1>2, <1>6, <2>2, <3>2, <3>3 DEF Xor, Bit01
  <2>3. CASE h > 0
    <3>1. IsFiniteSet(A) /\ IsFiniteSet(B)
      BY OnesFinite
    <3>2. \A i \in 1 .. h : new[i] = ghr[i - 1]
      OBVIOUS
    <3>3. Cardinality(A \ {0}) = Cardinality(B \ {h - 1})
      <4>1. h \in Nat \ {0} /\ w \in Nat \ {0}
        BY <1>1, <2>3
      <4> HIDE DEF s, bit
      <4> QED BY <4>1, <3>2, OnesShift
    <3>4. (0 \in A) <=> (k = 0 /\ new[0] = 1)
      <4>1. 0 % w = 0
        BY <1>1
      <4> QED BY <2>3, <4>1 DEF Ones
    <3>5. (h - 1 \in B) <=> (k = h % w /\ new[h] = 1)
      <4> DEFINE j == h - 1
      <4>1. j \in Nat /\ j + 1 = h /\ j \in 0 .. h - 1 /\ new[h] = ghr[j]
        BY <2>3, <3>2
      <4> HIDE DEF j, p, s, bit
      <4>2. ((j + 1) % w = k) <=> (j % w = Before(k, w))
        BY <1>1, <4>1, ModSuccessor
      <4>3. (j \in B) <=> (k = h % w /\ new[h] = 1)
        BY <4>1, <4>2 DEF Ones, p
      <4> QED BY <4>3 DEF j
    <3> HIDE DEF A, B, p, bit, s
    <3>6. PICK c \in Nat :
            /\ Cardinality(A) = c + (IF 0 \in A THEN 1 ELSE 0)
            /\ Cardinality(B) = c + (IF h - 1 \in B THEN 1 ELSE 0)
      <4>1. /\ Cardinality(A) = Cardinality(A \ {0}) + (IF 0 \in A THEN 1 ELSE 0)
            /\ Cardinality(A \ {0}) \in Nat
        BY <3>1, Without
      <4>2. Cardinality(B) = Cardinality(B \ {h - 1})
                               + (IF h - 1 \in B THEN 1 ELSE 0)
        BY <3>1, Without
      <4> QED BY <3>3, <4>1, <4>2
    <3>7. /\ s[k] = IF k = h % w THEN Xor(bit(k), new[h]) ELSE bit(k)
          /\ bit(k) = IF k = 0 THEN Xor(new[0], reg[p(k)]) ELSE reg[p(k)]
      BY <1>6
    <3>8. new[h] \in {0, 1} /\ new[0] \in {0, 1}
      BY <1>2 DEF Bit01
    <3>9. s[k] = Cardinality(A) % 2
      <4> DEFINE a == IF 0 \in A THEN 1 ELSE 0
                 b == IF h - 1 \in B THEN 1 ELSE 0
      <4>1. /\ a \in {0, 1} /\ (k = 0 => a = new[0]) /\ (k # 0 => a = 0)
            /\ b \in {0, 1} /\ (k = h % w => b = new[h]) /\ (k # h % w => b = 0)
        BY <3>4, <3>5, <3>8
      <4> HIDE DEF a, b
      <4>2. Cardinality(A) = c + a /\ reg[p(k)] = (c + b) % 2
        BY <2>1, <3>6 DEF a, b
      <4>3. /\ Xor((c + b) % 2, b) = c % 2
            /\ Xor(a, (c + b) % 2) = (c + a + b) % 2
            /\ Xor(Xor(a, (c + b) % 2), b) = (c + a) % 2
        BY <4>1, Parities
      <4>4. CASE k = h % w
        <5>1. s[k] = IF k = 0 THEN Xor(Xor(a, (c + b) % 2), b) ELSE Xor((c + b) % 2, b)
          BY <3>7, <4>1, <4>2, <4>4
        <5> QED BY <4>1, <4>2, <4>3, <5>1
      <4>5. CASE k # h % w
        <5>1. s[k] = IF k = 0 THEN Xor(a, (c + b) % 2) ELSE (c + b) % 2
          BY <3>7, <4>1, <4>2, <4>5
        <5> QED BY <4>1, <4>2, <4>3, <4>5, <5>1
      <4> QED BY <4>4, <4>5
    <3> QED BY <3>9 DEF A
  <2> QED BY <2>2, <2>3
<1> QED BY <1>5, <1>7, <1>8 DEF SameAbove

-----------------------------------------------------------------------------
(* The tagged tables: what the parts of an update do to them.               *)

TaggedTables == [Tables -> [Entries -> EntryType]]
SameTag(new, old, t, i) == new[t][i].tag = old[t][i].tag

LEMMA TrainType ==
    ASSUME NEW mode \in 0 .. 7, NEW dir PROVE Train(mode, dir) \in 0 .. 7
BY DEF Train

(* Training the provider leaves every tag alone.                            *)
LEMMA TrainedTables ==
    ASSUME TypeOK, NEW dir \in Bit01
    PROVE  /\ ProviderTrained(dir) \in TaggedTables
           /\ \A t \in Tables, i \in Entries : SameTag(ProviderTrained(dir), T, t, i)
<1>1. T \in TaggedTables
  BY DEF TypeOK, TaggedTables
<1>2. CASE providerComp = 0
  BY <1>1, <1>2 DEF ProviderTrained, SameTag
<1>3. CASE providerComp # 0
  <2> DEFINE e == T[providerComp][providerIndex]
             new == Trained(e, dir)
  <2>1. providerComp \in Tables /\ providerIndex \in Entries
    BY <1>3, TablesRange DEF TypeOK, Tables
  <2>2. e \in EntryType
    BY <1>1, <2>1 DEF TaggedTables
  <2>3. new \in EntryType /\ new.tag = e.tag
    <3>1. e.pred \in 0 .. 7 /\ e.useful \in Bit01
      BY <2>2 DEF EntryType
    <3>2. Train(e.pred, dir) \in 0 .. 7
      BY <3>1, TrainType
    <3>3. Useful(dir, e.useful) \in Bit01
      BY <3>1 DEF Useful, Bit01
    <3> HIDE DEF e
    <3> QED BY <2>2, <3>2, <3>3 DEF EntryType, Trained
  <2>4. ProviderTrained(dir) = [T EXCEPT ![providerComp][providerIndex] = new]
    BY <1>3 DEF ProviderTrained
  <2> HIDE DEF new
  <2> QED BY <1>1, <2>1, <2>3, <2>4 DEF TaggedTables, SameTag
<1> QED BY <1>2, <1>3

(* So does clearing the useful bits of any of the tables.                   *)
LEMMA NotUsefulTables ==
    ASSUME NEW tables \in TaggedTables, NEW S
    PROVE  /\ NotUseful(tables, S) \in TaggedTables
           /\ \A t \in Tables, i \in Entries : SameTag(NotUseful(tables, S), tables, t, i)
<1>1. ASSUME NEW t \in Tables, NEW i \in Entries
      PROVE  [tables[t][i] EXCEPT !.useful = 0] \in EntryType
  <2>1. tables[t][i] \in EntryType
    BY DEF TaggedTables
  <2> QED BY <2>1 DEF EntryType, Bit01
<1>2. ASSUME NEW t \in Tables, NEW i \in Entries
      PROVE  [tables[t][i] EXCEPT !.useful = 0].tag = tables[t][i].tag
  <2>1. tables[t][i] \in EntryType
    BY DEF TaggedTables
  <2> QED BY <2>1 DEF EntryType
<1>3. NotUseful(tables, S) \in TaggedTables
  BY <1>1 DEF NotUseful, TaggedTables
<1>4. ASSUME NEW t \in Tables, NEW i \in Entries
      PROVE  SameTag(NotUseful(tables, S), tables, t, i)
  BY <1>2 DEF NotUseful, SameTag
<1> QED BY <1>3, <1>4

(* An allocation changes the tag of one entry.                              *)
LEMMA AllocatedTables ==
    ASSUME NEW tables \in TaggedTables, NEW t \in Tables, NEW PC, NEW dir
    PROVE  /\ Allocated(tables, t, PC, dir) \in TaggedTables
           /\ \A u \in Tables, i \in Entries :
                <<u, i>> # <<t, ind(t, PC)>>
                  => SameTag(Allocated(tables, t, PC, dir), tables, u, i)
<1> DEFINE new == [pred |-> IF dir = TAKEN THEN 4 ELSE 3, tag |-> tag(t, PC),
                   useful |-> 0]
<1>1. new \in EntryType
  BY TagInd DEF EntryType, Bit01
<1>2. ind(t, PC) \in Entries
  BY TagInd
<1>3. Allocated(tables, t, PC, dir) = [tables EXCEPT ![t][ind(t, PC)] = new]
  BY DEF Allocated
<1> HIDE DEF new
<1> QED BY <1>1, <1>2, <1>3 DEF TaggedTables, SameTag

(* The table that is chosen among the candidates is one of them.            *)
LEMMA Candidates ==
    ASSUME NEW PC, Found(PC) # {}
    PROVE  Max(Found(PC)) \in Free(PC) /\ Min(Found(PC)) \in Free(PC)
<1>1. Found(PC) \subseteq Free(PC) /\ Free(PC) \subseteq Tables
  BY DEF Found, Free
<1>2. Found(PC) \in SUBSET (0 .. NUM_TAGE_TABLES)
  BY <1>1, TablesRange DEF Tables
<1>3. Max(Found(PC)) \in Found(PC) /\ Min(Found(PC)) \in Found(PC)
  BY <1>2, TablesRange, Greatest, Least
<1> QED BY <1>1, <1>3

(* The whole allocation: at most the tag of one free entry changes.         *)
GivenAway(new, old, t, i) ==
    \A u \in Tables, j \in Entries : <<u, j>> # <<t, i>> => SameTag(new, old, u, j)
LEMMA Allocation ==
    ASSUME NEW tables \in TaggedTables, NEW PC, NEW dir
    PROVE  LET new == AfterAllocation(tables, PC, dir)
           IN /\ new \in TaggedTables
              /\ \/ \A u \in Tables, j \in Entries : SameTag(new, tables, u, j)
                 \/ /\ Allocates(dir)
                    /\ \E t \in Free(PC) : GivenAway(new, tables, t, ind(t, PC))
<1> DEFINE new == AfterAllocation(tables, PC, dir)
<1>1. CASE ~Allocates(dir)
  <2>1. new = tables
    BY <1>1 DEF AfterAllocation
  <2> QED BY <2>1 DEF SameTag
<1>2. CASE Allocates(dir) /\ Found(PC) = {}
  <2>1. new = NotUseful(tables, {t \in Tables : t > providerComp})
    BY <1>2 DEF AfterAllocation
  <2> QED BY <2>1, NotUsefulTables
<1>3. CASE Allocates(dir) /\ Found(PC) # {}
  <2>1. PICK t \in Free(PC) : new = Allocated(tables, t, PC, dir)
    BY <1>3, Candidates DEF AfterAllocation
  <2>2. t \in Tables
    BY DEF Free
  <2>3. new \in TaggedTables /\ GivenAway(new, tables, t, ind(t, PC))
    BY <2>1, <2>2, AllocatedTables DEF GivenAway
  <2> QED BY <1>3, <2>3
<1> QED BY <1>1, <1>2, <1>3

-----------------------------------------------------------------------------
(* The inductive invariant.                                                 *)

LEMMA InitInv == Init => IInv
<1> SUFFICES ASSUME Init PROVE IInv
  OBVIOUS
<1> USE DEF Init, InitPredictor_openend, Bit01
<1>1. TypeOK
  <2>1. 0 \in Entries /\ \A i \in Entries : i \in Nat
    <3>1. TAG_WIDTH - 1 \in 0 .. TAG_WIDTH /\ NUM_TAGE_ENTRIES = Pow2[TAG_WIDTH - 1]
      BY TageAssumption
    <3> QED BY <3>1, Pow2Step DEF Entries
  <2>2. /\ T0_PHRT_ENTRIES \in Nat \ {0} /\ T0_PHT_TABLES \in Nat \ {0}
        /\ T0_PHT_ENTRIES \in Nat \ {0}
        /\ USE_INIT \in 1 .. USE_MAX /\ NUM_TAGE_TABLES \in Nat
    BY TageAssumption, TablesRange
  <2>3. /\ T0Phrt \in [0 .. T0_PHRT_ENTRIES - 1 -> 0 .. T0_PHT_ENTRIES - 1]
        /\ T0Pht \in [0 .. T0_PHT_TABLES - 1 -> [0 .. T0_PHT_ENTRIES - 1 -> 0 .. 7]]
        /\ GHR \in [0 .. NUM_GHR_BITS - 1 -> Bit01]
    BY <2>2
  <2>4. CSR \in [Tables -> [1 .. 2 -> [0 .. TAG_WIDTH - 1 -> Bit01]]]
    OBVIOUS
  <2>5. T \in [Tables -> [Entries -> EntryType]]
    <3>1. [pred |-> 3, tag |-> 0, useful |-> 0] \in EntryType
      BY <2>1 DEF EntryType
    <3> QED BY <3>1
  <2>6. /\ providerComp \in 0 .. NUM_TAGE_TABLES /\ providerComp = 0
        /\ {providerPred, altPred, predDir} \subseteq Bit01
        /\ probability \in 0 .. 2 /\ useCounter \in 1 .. USE_MAX
        /\ branch \in PCs \cup {NoBranch} /\ branches \in Nat
    BY <2>2 DEF NOT_TAKEN
  <2> QED BY <2>3, <2>4, <2>5, <2>6 DEF TypeOK
<1>2. FoldExact
  <2>1. ASSUME NEW length \in Nat, length < NUM_GHR_BITS, NEW width, NEW k
        PROVE  Folded(length, width, k) = 0
    <3>1. \A i \in 0 .. length - 1 : GHR[i] # 1
      BY <2>1, HistoryLengths
    <3>2. Ones(GHR, length, width, k) = {}
      BY <3>1, Zenon DEF Ones
    <3>3. Cardinality(Ones(GHR, length, width, k)) = 0
      BY <3>2, FS_EmptySet
    <3> QED BY <3>3 DEF Folded
  <2> SUFFICES ASSUME NEW t \in Tables
               PROVE  /\ \A k \in 0 .. TAG_WIDTH - 1 :
                           CSR[t][1][k] = Folded(HIS_BITS[t] - 1, TAG_WIDTH, k)
                      /\ \A k \in 0 .. TAG_WIDTH - 2 :
                           CSR[t][2][k] = Folded(HIS_BITS[t] - 1, TAG_WIDTH - 1, k)
                      /\ CSR[t][2][TAG_WIDTH - 1] = 0
    BY DEF FoldExact
  <2>2. HIS_BITS[t] - 1 \in Nat /\ HIS_BITS[t] - 1 < NUM_GHR_BITS
    BY TablesRange, HistoryLengths
  <2>3. \A width, k : Folded(HIS_BITS[t] - 1, width, k) = 0
    BY <2>1, <2>2
  <2>4. TAG_WIDTH \in Nat /\ TAG_WIDTH > 2
    BY TageAssumption
  <2>5. \A k \in 0 .. TAG_WIDTH - 1 : CSR[t][1][k] = 0 /\ CSR[t][2][k] = 0
    OBVIOUS
  <2> HIDE DEF Init
  <2> QED BY <2>3, <2>4, <2>5
<1>3. PredictedByProvider
  BY DEF PredictedByProvider
<1> QED BY <1>1, <1>2, <1>3 DEF IInv

(* A prediction only sets the provider and the branch.                      *)
LEMMA DirectionType == \A mode : Direction(mode) \in Bit01
BY DEF Direction, NOT_TAKEN, TAKEN, Bit01

LEMMA Predicts ==
    ASSUME IInv, NEW PC \in PCs, GetPrediction(PC)
    PROVE  IInv'
<1> USE DEF IInv
<1> DEFINE i == IF Matches(PC) = {} THEN 0 ELSE Max(Matches(PC))
<1>1. i = 0 \/ i \in Tables
  <2>1. Matches(PC) \in SUBSET (0 .. NUM_TAGE_TABLES)
    BY TablesRange DEF Matches, Tables
  <2>2. Matches(PC) # {} => Max(Matches(PC)) \in Matches(PC)
    BY <2>1, TablesRange, Greatest
  <2> QED BY <2>2 DEF Matches
<1>2. getT0(PC) \in Bit01
  BY DirectionType DEF getT0
<1>3. /\ UNCHANGED <<T0Phrt, T0Pht, GHR, CSR, T, probability, useCounter>>
      /\ branch' = PC /\ branches' = branches + 1
  BY DEF GetPrediction
<1>4. CASE i = 0
  <2>1. /\ providerComp' = 0 /\ providerPred' \in Bit01
        /\ altPred' \in Bit01 /\ predDir' \in Bit01
    BY <1>2, <1>4 DEF GetPrediction
  <2>2. TypeOK'
    BY <1>3, <2>1, TablesRange DEF TypeOK
  <2> QED BY <1>3, <2>1, <2>2 DEF FoldExact, Folded, PredictedByProvider
<1>5. CASE i \in Tables
  <2>1. i # 0 /\ i \in 0 .. NUM_TAGE_TABLES
    BY <1>5, TablesRange DEF Tables
  <2>2. /\ providerComp' = i /\ providerIndex' = ind(i, PC)
        /\ providerPred' = Direction(T[i][ind(i, PC)].pred)
        /\ altPred' = AltPred(PC, i)
        /\ predDir' = IF Weak(Entry(i, PC)) THEN altPred' ELSE providerPred'
    <3> HIDE DEF IInv
    <3> QED BY <2>1 DEF GetPrediction, Entry
  <2> HIDE DEF i
  <2>3. ind(i, PC) \in Entries
    BY TagInd
  <2>4. AltPred(PC, i) \in Bit01
    BY <1>2, DirectionType DEF AltPred
  <2>5. providerPred' \in Bit01 /\ altPred' \in Bit01 /\ predDir' \in Bit01
    BY <2>2, <2>4, DirectionType
  <2>6. TypeOK'
    BY <1>3, <2>1, <2>2, <2>3, <2>5 DEF TypeOK
  <2>7. PredictedByProvider'
    BY <1>3, <2>2 DEF PredictedByProvider
  <2> QED BY <1>3, <2>6, <2>7 DEF FoldExact, Folded
<1> QED BY <1>1, <1>4, <1>5

(* An update: the default predictor, the history, the registers, the tables. *)
LEMMA UpdatesT0 ==
    ASSUME TypeOK, NEW PC \in PCs, NEW dir \in Bit01, updateT0(PC, dir)
    PROVE  /\ T0Phrt' \in [0 .. T0_PHRT_ENTRIES - 1 -> 0 .. T0_PHT_ENTRIES - 1]
           /\ T0Pht' \in [0 .. T0_PHT_TABLES - 1 -> [0 .. T0_PHT_ENTRIES - 1 -> 0 .. 7]]
<1> DEFINE p == phrtIndex(PC)
           q == phtIndex(PC)
           h == T0Phrt[p]
<1>1. /\ T0_PHRT_ENTRIES \in Nat /\ T0_PHRT_ENTRIES > 0
      /\ T0_PHT_TABLES \in Nat /\ T0_PHT_TABLES > 0
      /\ T0_PHT_ENTRIES \in Nat /\ T0_PHT_ENTRIES > 0 /\ T0_PHT_ENTRIES % 2 = 0
      /\ PC \in Nat
  BY TageAssumption
<1>2. p \in 0 .. T0_PHRT_ENTRIES - 1 /\ q \in 0 .. T0_PHT_TABLES - 1
  BY <1>1 DEF phrtIndex, phtIndex
<1> HIDE DEF p, q
<1>3. /\ T0Phrt \in [0 .. T0_PHRT_ENTRIES - 1 -> 0 .. T0_PHT_ENTRIES - 1]
      /\ T0Pht \in [0 .. T0_PHT_TABLES - 1 -> [0 .. T0_PHT_ENTRIES - 1 -> 0 .. 7]]
  BY DEF TypeOK
<1>4. h \in 0 .. T0_PHT_ENTRIES - 1
  BY <1>2, <1>3
<1> HIDE DEF h
<1>5. Train(T0Pht[q][h], dir) \in 0 .. 7
  BY <1>2, <1>3, <1>4, TrainType
<1>6. ((h * 2) % T0_PHT_ENTRIES) + dir \in 0 .. T0_PHT_ENTRIES - 1
  BY <1>1, <1>4, ShiftedHistory DEF Bit01
<1>7. /\ T0Pht' = [T0Pht EXCEPT ![q][h] = Train(T0Pht[q][h], dir)]
      /\ T0Phrt' = [T0Phrt EXCEPT ![p] = ((h * 2) % T0_PHT_ENTRIES) + dir]
  BY DEF updateT0, p, q, h
<1> QED BY <1>2, <1>3, <1>4, <1>5, <1>6, <1>7

LEMMA UpdatesHistory ==
    ASSUME TypeOK, NEW dir \in Bit01
    PROVE  /\ NewGHR(dir) \in [0 .. NUM_GHR_BITS - 1 -> Bit01]
           /\ NewGHR(dir)[0] = dir
           /\ \A i \in 1 .. NUM_GHR_BITS - 1 : NewGHR(dir)[i] = GHR[i - 1]
<1>1. GHR \in [0 .. NUM_GHR_BITS - 1 -> Bit01] /\ NUM_GHR_BITS \in Nat \ {0}
  BY HistoryLengths DEF TypeOK
<1> QED BY <1>1 DEF NewGHR

LEMMA UpdatesCSR ==
    ASSUME TypeOK, FoldExact, NEW dir \in Bit01, NEW t \in Tables
    PROVE  LET new == NewGHR(dir)
               h   == HIS_BITS[t] - 1
               csr == updateCSR(CSR[t], new, h)
           IN /\ csr \in [1 .. 2 -> Register]
              /\ Holds(csr[1], new, h, TAG_WIDTH)
              /\ Holds(csr[2], new, h, TAG_WIDTH - 1)
              /\ csr[2][TAG_WIDTH - 1] = 0
<1> DEFINE new == NewGHR(dir)
           h   == HIS_BITS[t] - 1
           w   == TAG_WIDTH - 1
           g   == NUM_GHR_BITS
           a   == CSR[t][1]
           b   == CSR[t][2]
           s1  == Shifted(a, TAG_WIDTH, h, new[0], new[h])
           s2  == Shifted(b, w, h, new[0], new[h])
<1>1. h \in Nat /\ g \in Nat /\ h < g
  BY TablesRange, HistoryLengths
<1>2. TAG_WIDTH \in 1 .. TAG_WIDTH /\ w \in 1 .. TAG_WIDTH
      /\ TAG_WIDTH - 2 = w - 1 /\ TAG_WIDTH - 1 \in w .. TAG_WIDTH - 1
  BY TageAssumption
<1>3. a \in Register /\ b \in Register
  BY DEF TypeOK, Register
<1>4. GHR \in [0 .. g - 1 -> Bit01] /\ new \in [0 .. g - 1 -> Bit01]
  BY UpdatesHistory DEF TypeOK
<1>5. IsShifted(new, GHR, g)
  BY UpdatesHistory DEF IsShifted
<1>6. Holds(a, GHR, h, TAG_WIDTH) /\ Holds(b, GHR, h, w) /\ b[TAG_WIDTH - 1] = 0
  <2>1. /\ \A k \in 0 .. TAG_WIDTH - 1 : a[k] = Folded(h, TAG_WIDTH, k)
        /\ \A k \in 0 .. TAG_WIDTH - 2 : b[k] = Folded(h, w, k)
        /\ b[TAG_WIDTH - 1] = 0
    BY DEF FoldExact
  <2> HIDE DEF a, b, h, w
  <2> QED BY <1>2, <2>1 DEF Folded, Holds
<1>7. updateCSR(CSR[t], new, h) = <<s1, s2>>
  BY DEF updateCSR
<1> DEFINE W == TAG_WIDTH
<1> HIDE DEF a, b, h, w, g, new, W
<1>8. s1 \in Register /\ Holds(s1, new, h, TAG_WIDTH)
  <2>1. W \in 1 .. TAG_WIDTH /\ Holds(a, GHR, h, W)
    BY <1>2, <1>6 DEF W
  <2>2. /\ Shifted(a, W, h, new[0], new[h]) \in Register
        /\ Holds(Shifted(a, W, h, new[0], new[h]), new, h, W)
    BY <1>1, <1>3, <1>4, <1>5, <2>1, ShiftFolds
  <2> QED BY <2>2 DEF W
<1>9. s2 \in Register /\ Holds(s2, new, h, w) /\ SameAbove(s2, b, w)
  BY <1>1, <1>2, <1>3, <1>4, <1>5, <1>6, ShiftFolds
<1>10. s2[TAG_WIDTH - 1] = 0
  BY <1>2, <1>6, <1>9 DEF SameAbove
<1> HIDE DEF s1, s2
<1>11. <<s1, s2>> \in [1 .. 2 -> Register]
  BY <1>8, <1>9
<1>12. <<s1, s2>>[1] = s1 /\ <<s1, s2>>[2] = s2
  OBVIOUS
<1> QED BY <1>7, <1>8, <1>9, <1>10, <1>11, <1>12 DEF new, h, w

(* The tables after an update, and whose tag it may have changed.           *)
LEMMA UpdatesTables ==
    ASSUME TypeOK, NEW dir \in Bit01, UpdatePredictor(dir)
    PROVE  /\ T' \in TaggedTables
           /\ \/ \A t \in Tables, i \in Entries : SameTag(T', T, t, i)
              \/ /\ Allocates(dir)
                 /\ \E t \in Free(branch) : GivenAway(T', T, t, ind(t, branch))
<1> DEFINE trained == ProviderTrained(dir)
           tables  == AfterAllocation(trained, branch, dir)
<1>1. T' = tables \/ T' = NotUseful(tables, Tables)
  BY DEF UpdatePredictor
<1>2. /\ trained \in TaggedTables
      /\ \A t \in Tables, i \in Entries : SameTag(trained, T, t, i)
  BY TrainedTables
<1> HIDE DEF trained
<1>3. /\ tables \in TaggedTables
      /\ \/ \A t \in Tables, i \in Entries : SameTag(tables, trained, t, i)
         \/ /\ Allocates(dir)
            /\ \E t \in Free(branch) : GivenAway(tables, trained, t, ind(t, branch))
  BY <1>2, Allocation
<1> HIDE DEF tables
<1>4. /\ T' \in TaggedTables
      /\ \A t \in Tables, i \in Entries : SameTag(T', tables, t, i)
  BY <1>1, <1>3, NotUsefulTables DEF SameTag
<1>5. CASE \A t \in Tables, i \in Entries : SameTag(tables, trained, t, i)
  BY <1>2, <1>4, <1>5 DEF SameTag
<1>6. ASSUME Allocates(dir), NEW t \in Free(branch),
             GivenAway(tables, trained, t, ind(t, branch))
      PROVE  GivenAway(T', T, t, ind(t, branch))
  BY <1>2, <1>4, <1>6 DEF SameTag, GivenAway
<1> QED BY <1>3, <1>4, <1>5, <1>6

LEMMA Updates ==
    ASSUME IInv, NEW dir \in Bit01, UpdatePredictor(dir)
    PROVE  IInv'
<1>1. TypeOK /\ FoldExact
  BY DEF IInv
<1>2. branch \in PCs /\ branch' = NoBranch
      /\ UNCHANGED <<provider, predDir, branches>>
  BY <1>1 DEF UpdatePredictor, TypeOK
<1>3. /\ GHR' = NewGHR(dir)
      /\ CSR' = [t \in Tables |-> updateCSR(CSR[t], NewGHR(dir), HIS_BITS[t] - 1)]
  BY DEF UpdatePredictor
<1>4. /\ T0Phrt' \in [0 .. T0_PHRT_ENTRIES - 1 -> 0 .. T0_PHT_ENTRIES - 1]
      /\ T0Pht' \in [0 .. T0_PHT_TABLES - 1 -> [0 .. T0_PHT_ENTRIES - 1 -> 0 .. 7]]
  <2>1. updateT0(branch, dir)
    BY DEF UpdatePredictor
  <2> QED BY <1>1, <1>2, <2>1, UpdatesT0
<1>5. GHR' \in [0 .. NUM_GHR_BITS - 1 -> Bit01]
  BY <1>1, <1>3, UpdatesHistory
<1>6. CSR' \in [Tables -> [1 .. 2 -> Register]]
  BY <1>1, <1>3, UpdatesCSR
<1>7. T' \in TaggedTables
  BY <1>1, UpdatesTables
<1>8. useCounter' \in 1 .. USE_MAX
  <2>1. CounterAfter(dir) \in 0 .. USE_MAX
    <3>1. useCounter \in 1 .. USE_MAX /\ USE_MAX \in Nat
      BY <1>1, TageAssumption DEF TypeOK
    <3> QED BY <3>1 DEF CounterAfter
  <2>2. useCounter' = IF CounterAfter(dir) = 0 THEN USE_INIT ELSE CounterAfter(dir)
    BY DEF UpdatePredictor
  <2> QED BY <2>1, <2>2, TageAssumption
<1>9. probability' \in 0 .. 2
  <2>1. probability' = ProbabilityAfter(branch, dir) /\ probability \in 0 .. 2
    BY <1>1 DEF UpdatePredictor, TypeOK
  <2> QED BY <2>1 DEF ProbabilityAfter
<1>10. TypeOK'
  <2>1. /\ providerComp' \in 0 .. NUM_TAGE_TABLES
        /\ providerComp' # 0 => providerIndex' \in Entries
        /\ {providerPred', altPred', predDir'} \subseteq Bit01
        /\ branch' \in PCs \cup {NoBranch} /\ branches' \in Nat
    BY <1>1, <1>2 DEF TypeOK, provider
  <2> QED BY <1>4, <1>5, <1>6, <1>7, <1>8, <1>9, <2>1
          DEF TypeOK, TaggedTables, Register
<1>11. FoldExact'
  <2> SUFFICES ASSUME NEW t \in Tables
               PROVE  /\ \A k \in 0 .. TAG_WIDTH - 1 :
                           CSR'[t][1][k] = Folded(HIS_BITS[t] - 1, TAG_WIDTH, k)'
                      /\ \A k \in 0 .. TAG_WIDTH - 2 :
                           CSR'[t][2][k] = Folded(HIS_BITS[t] - 1, TAG_WIDTH - 1, k)'
                      /\ CSR'[t][2][TAG_WIDTH - 1] = 0
    BY DEF FoldExact
  <2> DEFINE h == HIS_BITS[t] - 1
  <2>1. CSR'[t] = updateCSR(CSR[t], NewGHR(dir), h)
    BY <1>3
  <2>2. /\ Holds(CSR'[t][1], GHR', h, TAG_WIDTH)
        /\ Holds(CSR'[t][2], GHR', h, TAG_WIDTH - 1)
        /\ CSR'[t][2][TAG_WIDTH - 1] = 0
    BY <1>1, <1>3, <2>1, UpdatesCSR
  <2>3. 0 .. TAG_WIDTH - 2 = 0 .. (TAG_WIDTH - 1) - 1
    BY TageAssumption
  <2> QED BY <2>2, <2>3 DEF Holds, Folded
<1>12. PredictedByProvider'
  BY <1>2 DEF PredictedByProvider
<1> QED BY <1>10, <1>11, <1>12 DEF IInv

LEMMA Stutters == IInv /\ UNCHANGED vars => IInv'
BY DEF IInv, TypeOK, FoldExact, Folded, PredictedByProvider, vars, provider

THEOREM Invariance == Spec => []IInv
<1>1. IInv /\ [Next]_vars => IInv'
  <2> SUFFICES ASSUME IInv, [Next]_vars PROVE IInv'
    OBVIOUS
  <2>1. ASSUME NEW PC \in PCs, GetPrediction(PC) PROVE IInv'
    BY <2>1, Predicts
  <2>2. ASSUME NEW dir \in {TAKEN, NOT_TAKEN}, UpdatePredictor(dir) PROVE IInv'
    BY <2>2, Updates DEF Bit01, TAKEN, NOT_TAKEN
  <2> QED BY <2>1, <2>2, Stutters DEF Next
<1> QED BY <1>1, InitInv, PTL DEF Spec

-----------------------------------------------------------------------------
(* The properties.                                                          *)

(* Tags, indices, histories and counters stay in their ranges: the arrays   *)
(* of predictor.cc are never read or written outside of their bounds.       *)
THEOREM TypeCorrect == Spec => []TypeOK
<1>1. IInv => TypeOK
  BY DEF IInv
<1> QED BY <1>1, Invariance, PTL

(* The registers hold the folded history, whatever its length and their     *)
(* width (updateCSR, cc:226).                                               *)
THEOREM HistoryFolded == Spec => []FoldExact
<1>1. IInv => FoldExact
  BY DEF IInv
<1> QED BY <1>1, Invariance, PTL

(* After a misprediction the provider's counter moves, so that the          *)
(* condition to allocate reads values of this branch (cc:408, 451).         *)
THEOREM CounterMoves == Spec => []MispredictionMoves
<1>1. IInv => MispredictionMoves
  <2> SUFFICES ASSUME IInv, branch # NoBranch, providerComp # 0,
                      NEW dir \in Bit01, dir # providerPred
               PROVE  Moved(dir)
    BY DEF MispredictionMoves
  <2> DEFINE p == T[providerComp][providerIndex].pred
  <2>1. providerComp \in Tables /\ providerIndex \in Entries
    BY TablesRange DEF IInv, TypeOK, Tables
  <2>2. p \in 0 .. 7
    <3>1. T[providerComp][providerIndex] \in EntryType
      BY <2>1 DEF IInv, TypeOK
    <3> QED BY <3>1 DEF EntryType
  <2>3. providerPred = Direction(p)
    BY DEF IInv, PredictedByProvider
  <2> HIDE DEF p
  <2>4. Train(p, dir) # p
    BY <2>2, <2>3 DEF Train, Direction, TAKEN, NOT_TAKEN, Bit01
  <2> QED BY <2>4 DEF Moved, p
<1> QED BY <1>1, Invariance, PTL

(* A useful entry is never given to another branch, and an entry is given   *)
(* away only after a misprediction, behind the provider (cc:451-576).       *)
THEOREM UsefulKept == Spec => UsefulProtected
<1> DEFINE changed == {ti \in Tables \X Entries :
                         T'[ti[1]][ti[2]].tag # T[ti[1]][ti[2]].tag}
           Protects == /\ Cardinality(changed) <= 1
                       /\ \A ti \in changed : /\ T[ti[1]][ti[2]].useful = 0
                                              /\ ti[1] > providerComp
                                              /\ GHR'[0] # providerPred
<1>1. changed = {} => Protects
  BY FS_EmptySet
<1>2. ASSUME IInv, NEW dir \in Bit01, UpdatePredictor(dir) PROVE Protects
  <2>1. TypeOK
    BY <1>2 DEF IInv
  <2>2. CASE \A t \in Tables, i \in Entries : SameTag(T', T, t, i)
    <3>1. changed = {}
      BY <2>2 DEF SameTag
    <3> HIDE DEF changed, Protects
    <3> QED BY <1>1, <3>1
  <2>3. ASSUME Allocates(dir), NEW t \in Free(branch),
               GivenAway(T', T, t, ind(t, branch))
        PROVE  Protects
    <3> DEFINE x == <<t, ind(t, branch)>>
    <3>1. t \in Tables /\ t > providerComp /\ T[t][ind(t, branch)].useful = 0
      BY DEF Free, Entry
    <3>2. \A ti \in changed : ti = x
      <4> SUFFICES ASSUME NEW u \in Tables, NEW j \in Entries,
                          T'[u][j].tag # T[u][j].tag
                   PROVE  <<u, j>> = x
        OBVIOUS
      <4> QED BY <2>3 DEF GivenAway, SameTag
    <3>3. GHR'[0] # providerPred
      <4>1. GHR'[0] = dir
        BY <1>2, <2>1, UpdatesHistory DEF UpdatePredictor
      <4>2. dir # providerPred
        BY <2>3 DEF Allocates
      <4> QED BY <4>1, <4>2
    <3>4. \A ti \in changed : /\ T[ti[1]][ti[2]].useful = 0
                              /\ ti[1] > providerComp
                              /\ GHR'[0] # providerPred
      BY <3>1, <3>2, <3>3
    <3>5. Cardinality(changed) <= 1
      <4> HIDE DEF changed, x
      <4>1. IsFiniteSet({x}) /\ Cardinality({x}) = 1
        BY FS_Singleton
      <4>2. changed \subseteq {x}
        BY <3>2
      <4> QED BY <4>1, <4>2, FS_Subset
    <3> QED BY <3>4, <3>5
  <2> QED BY <1>2, <2>1, <2>2, <2>3, UpdatesTables
<1>3. IInv /\ [Next]_vars => [Protects]_vars
  <2> SUFFICES ASSUME IInv, Next PROVE Protects
    OBVIOUS
  <2>1. ASSUME NEW PC \in PCs, GetPrediction(PC) PROVE Protects
    <3>1. T' = T
      BY <2>1 DEF GetPrediction
    <3>2. changed = {}
      BY <3>1
    <3> HIDE DEF changed, Protects
    <3> QED BY <1>1, <3>2
  <2>2. ASSUME NEW dir \in {TAKEN, NOT_TAKEN}, UpdatePredictor(dir) PROVE Protects
    <3>1. dir \in Bit01
      BY DEF Bit01, TAKEN, NOT_TAKEN
    <3> HIDE DEF Protects
    <3> QED BY <1>2, <2>2, <3>1
  <2> HIDE DEF Protects
  <2> QED BY <2>1, <2>2 DEF Next
<1> QED BY <1>3, Invariance, PTL DEF Spec, UsefulProtected

-----------------------------------------------------------------------------
(* What is left of a register read as a decimal number, modulo a power of   *)
(* two.  Read from its lowest digit that differs on, the difference of two  *)
(* registers is odd; every digit below it multiplies it by ten, that is by  *)
(* two and by an odd number.                                                *)

IsOdd(c) == \E m \in Int : c = 2 * m + 1
Multiple(x, n) == \E y \in Int : x = n * y
DiffersFrom(a, b, q) == \E p \in q .. TAG_WIDTH - 2 : a[p] # b[p]
NoneDivides(x, n) == \A c \in Int : IsOdd(c) => ~Multiple(c * x, n)

(* The digit that differs is the lowest.                                    *)
LEMMA LowestDiffers ==
    ASSUME NEW d \in Int, NEW e \in {-1, 1}, NEW n \in Int
    PROVE  NoneDivides(10 * d + e, 2 * n)
<1> SUFFICES ASSUME NEW c \in Int, NEW m \in Int, c = 2 * m + 1,
                    NEW y \in Int, c * (10 * d + e) = (2 * n) * y
             PROVE  FALSE
  BY DEF NoneDivides, IsOdd, Multiple
<1> DEFINE z == c * d
           u == n * y
<1>1. z \in Int /\ u \in Int
  OBVIOUS
<1>2. c * (10 * d + e) = 10 * z + c * e /\ (2 * n) * y = 2 * u
  OBVIOUS
<1> HIDE DEF z, u
<1>3. c * e = c \/ c * e = 0 - c
  OBVIOUS
<1> QED BY <1>1, <1>2, <1>3

(* The lowest digit is the same.                                            *)
LEMMA LowestSame ==
    ASSUME NEW d \in Int, NEW n \in Int, NoneDivides(d, n)
    PROVE  NoneDivides(10 * d, 2 * n)
<1> SUFFICES ASSUME NEW c \in Int, NEW m \in Int, c = 2 * m + 1,
                    NEW y \in Int, c * (10 * d) = (2 * n) * y
             PROVE  FALSE
  BY DEF NoneDivides, IsOdd, Multiple
<1> DEFINE f == 5 * c
           u == n * y
           v == f * d
<1>1. f \in Int /\ f = 2 * (5 * m + 2) + 1 /\ 5 * m + 2 \in Int
  OBVIOUS
<1>2. u \in Int /\ v \in Int /\ c * (10 * d) = 2 * v /\ (2 * n) * y = 2 * u
  OBVIOUS
<1>3. IsOdd(f)
  <2> HIDE DEF f
  <2> QED BY <1>1 DEF IsOdd
<1>4. ~Multiple(f * d, n)
  <2> HIDE DEF f
  <2> QED BY <1>1, <1>3 DEF NoneDivides
<1>5. v = u
  <2> HIDE DEF v, u
  <2> QED BY <1>2
<1>6. f * d = n * y
  BY <1>5
<1> HIDE DEF f
<1> QED BY <1>4, <1>6 DEF Multiple

LEMMA DigitsDiffer ==
    ASSUME NEW n \in {TAG_WIDTH - 1, TAG_WIDTH}, NEW a, NEW b,
           \A k \in 0 .. n - 1 : a[k] \in {0, 1} /\ b[k] \in {0, 1},
           DiffersFrom(a, b, 0)
    PROVE  Value(10, a, n) % NUM_TAGE_ENTRIES # Value(10, b, n) % NUM_TAGE_ENTRIES
<1> DEFINE N == NUM_TAGE_ENTRIES
           w == TAG_WIDTH - 1
           ten == 10
<1>1. n \in Nat /\ w \in Nat /\ w > 1 /\ w <= n /\ n <= w + 1 /\ ten \in Int
      /\ TAG_WIDTH = w + 1
  BY TageAssumption
<1>2. \A k \in 0 .. n - 1 : a[k] \in Int /\ b[k] \in Int
  OBVIOUS
<1> HIDE DEF ten, w
<1>3. PICK x \in [0 .. n -> Int] :
             AddsUp(x, ten, a, n) /\ Value(ten, a, n) = x[n]
  BY <1>1, <1>2, ValueSteps
<1>4. PICK y \in [0 .. n -> Int] :
             AddsUp(y, ten, b, n) /\ Value(ten, b, n) = y[n]
  BY <1>1, <1>2, ValueSteps
<1> DEFINE Goal(k) == k <= n /\ DiffersFrom(a, b, n - k)
                        => NoneDivides(x[k] - y[k], Pow2[w - (n - k)])
           H == {k \in Nat : Goal(k)}
<1>5. 0 \in H
  BY <1>1 DEF DiffersFrom
<1>6. ASSUME NEW k \in H PROVE k + 1 \in H
  <2> SUFFICES ASSUME k + 1 <= n, DiffersFrom(a, b, n - (k + 1))
               PROVE  NoneDivides(x[k + 1] - y[k + 1], Pow2[w - (n - (k + 1))])
    OBVIOUS
  <2> DEFINE q == n - (k + 1)
             j == w - (n - k)
             d == x[k] - y[k]
             e == a[q] - b[q]
             P == Pow2[j]
  <2>1. q \in 0 .. n - 1 /\ n - k = q + 1 /\ k \in 0 .. n /\ k + 1 \in 1 .. n
        /\ (k + 1) - 1 = k
    BY <1>1
  <2>2. PICK p \in q .. w - 1 : a[p] # b[p]
    BY <1>1, <2>1 DEF DiffersFrom
  <2>3. w - q \in 1 .. TAG_WIDTH /\ (w - q) - 1 = j /\ j \in 0 .. TAG_WIDTH
    BY <1>1, <2>1, <2>2
  <2>4. Pow2[w - q] = 2 * P /\ P \in Int
    <3> DEFINE m == w - q
    <3> HIDE DEF j, q, m
    <3>1. m \in 1 .. TAG_WIDTH /\ m - 1 = j /\ j \in 0 .. TAG_WIDTH
      BY <2>3 DEF m
    <3>2. Pow2[m] = 2 * Pow2[m - 1] /\ Pow2[j] \in Nat
      BY <3>1, Pow2Step
    <3> QED BY <3>1, <3>2 DEF m
  <2>5. d \in Int
    BY <2>1
  <2>6. a[q] \in {0, 1} /\ b[q] \in {0, 1}
    BY <2>1
  <2>7. x[k + 1] - y[k + 1] = 10 * d + e
    <3>1. x[k + 1] = ten * x[k] + a[q] /\ y[k + 1] = ten * y[k] + b[q]
      BY <1>3, <1>4, <2>1 DEF AddsUp
    <3> DEFINE X == x[k]
               Y == y[k]
               A == a[q]
               B == b[q]
    <3>2. X \in Int /\ Y \in Int /\ A \in Int /\ B \in Int
      BY <2>1, <2>6
    <3>3. x[k + 1] = 10 * X + A /\ y[k + 1] = 10 * Y + B
      BY <3>1 DEF ten
    <3>4. d = X - Y /\ e = A - B
      OBVIOUS
    <3> HIDE DEF X, Y, A, B, d, e
    <3> QED BY <3>2, <3>3, <3>4
  <2>8. CASE a[q] # b[q]
    <3>1. e \in {-1, 1}
      BY <2>6, <2>8
    <3> HIDE DEF d, e, P
    <3>2. NoneDivides(10 * d + e, 2 * P)
      BY <2>4, <2>5, <3>1, LowestDiffers
    <3> QED BY <2>4, <2>7, <3>2
  <2>9. CASE a[q] = b[q]
    <3>1. p \in q + 1 .. w - 1
      BY <1>1, <2>1, <2>2, <2>9
    <3>2. DiffersFrom(a, b, n - k)
      BY <1>1, <2>1, <2>2, <3>1 DEF DiffersFrom
    <3>3. NoneDivides(d, P)
      BY <2>1, <3>2
    <3>4. 10 * d + e = 10 * d
      BY <2>5, <2>6, <2>9
    <3> HIDE DEF d, e, P
    <3>5. NoneDivides(10 * d, 2 * P)
      BY <2>4, <2>5, <3>3, LowestSame
    <3> QED BY <2>4, <2>7, <3>4, <3>5
  <2> QED BY <2>8, <2>9
<1>7. H = Nat
  <2> HIDE DEF Goal
  <2> QED BY <1>5, <1>6, Induction
<1>8. NoneDivides(x[n] - y[n], N)
  <2>1. N = Pow2[w]
    BY TageAssumption DEF w
  <2>2. Goal(n)
    <3> HIDE DEF Goal
    <3> QED BY <1>1, <1>7
  <2>3. n - n = 0 /\ w - 0 = w /\ n <= n
    BY <1>1
  <2> HIDE DEF N
  <2> QED BY <2>1, <2>2, <2>3
<1>9. x[n] \in Int /\ y[n] \in Int /\ N \in Nat /\ N > 0
  <2>1. w \in 0 .. TAG_WIDTH /\ N = Pow2[w]
    BY <1>1, TageAssumption DEF w
  <2> QED BY <1>1, <2>1, Pow2Step
<1>10. ASSUME x[n] % N = y[n] % N PROVE FALSE
  <2> DEFINE X == x[n]
             Y == y[n]
             i == X \div N
             j == Y \div N
             r == X % N
  <2> HIDE DEF X, Y, N
  <2>1. /\ X = (N * i) + r /\ Y = (N * j) + r
        /\ i \in Int /\ j \in Int /\ r \in Int /\ X \in Int /\ Y \in Int /\ N \in Int
    <3>1. X \in Int /\ Y \in Int /\ N \in Nat /\ N > 0 /\ X % N = Y % N
      BY <1>9, <1>10 DEF X, Y
    <3> QED BY <3>1
  <2> HIDE DEF i, j, r
  <2>2. X - Y = N * (i - j)
    <3> DEFINE u == N * i
               v == N * j
    <3>1. N * (i - j) = u - v /\ u \in Int /\ v \in Int
      BY <2>1
    <3>2. X = u + r /\ Y = v + r
      BY <2>1
    <3> HIDE DEF u, v
    <3> QED BY <2>1, <3>1, <3>2
  <2>3. 1 * (X - Y) = X - Y /\ i - j \in Int
    BY <2>1
  <2>4. Multiple(1 * (X - Y), N)
    BY <2>2, <2>3 DEF Multiple
  <2>5. IsOdd(1)
    BY 1 = 2 * 0 + 1 DEF IsOdd
  <2>6. NoneDivides(X - Y, N)
    BY <1>8 DEF X, Y
  <2> QED BY <2>4, <2>5, <2>6 DEF NoneDivides
<1> QED BY <1>3, <1>4, <1>10 DEF ten

(* Registers that differ below their highest bit give numbers that differ   *)
(* below NUM_TAGE_ENTRIES, although they are added up in decimal (cc:244).  *)
THEOREM DecimalLosesNothing == Spec => []DigitsKept
<1>1. IInv => DigitsKept
  <2> SUFFICES ASSUME IInv, NEW t \in Tables, NEW num \in {0, 1},
                      NEW S \in SUBSET (0 .. TAG_WIDTH - 2), S # {}
               PROVE  getCSR([CSR[t] EXCEPT ![num + 1] = Flipped(@, S)], num)
                        # getCSR(CSR[t], num)
    BY DEF DigitsKept
  <2> DEFINE a == CSR[t][num + 1]
             b == Flipped(a, S)
             n == TAG_WIDTH - 1 + num
  <2>1. CSR[t] \in [1 .. 2 -> Register] /\ num + 1 \in 1 .. 2
    BY DEF IInv, TypeOK, Register
  <2>2. a \in [0 .. TAG_WIDTH - 1 -> {0, 1}]
    BY <2>1 DEF Register, Bit01
  <2>3. [CSR[t] EXCEPT ![num + 1] = Flipped(@, S)][num + 1] = b
    BY <2>1
  <2> HIDE DEF a
  <2>4. n \in {TAG_WIDTH - 1, TAG_WIDTH} /\ 0 .. n - 1 \subseteq 0 .. TAG_WIDTH - 1
    BY TageAssumption
  <2>5. \A k \in 0 .. TAG_WIDTH - 1 : b[k] = IF k \in S THEN 1 - a[k] ELSE a[k]
    BY <2>2 DEF Flipped
  <2> HIDE DEF b
  <2>6. \A k \in 0 .. TAG_WIDTH - 1 : a[k] \in {0, 1} /\ b[k] \in {0, 1}
    BY <2>2, <2>5
  <2>7. DiffersFrom(b, a, 0)
    <3>1. PICK p \in S : TRUE
      OBVIOUS
    <3>2. p \in 0 .. TAG_WIDTH - 2 /\ p \in 0 .. TAG_WIDTH - 1
      BY TageAssumption
    <3>3. b[p] # a[p]
      BY <2>5, <2>6, <3>1, <3>2
    <3> QED BY <3>2, <3>3 DEF DiffersFrom
  <2> HIDE DEF n
  <2>8. Value(10, b, n) % NUM_TAGE_ENTRIES # Value(10, a, n) % NUM_TAGE_ENTRIES
    BY <2>4, <2>6, <2>7, DigitsDiffer
  <2> QED BY <2>3, <2>8 DEF getCSR, a, n
<1> QED BY <1>1, Invariance, PTL
=============================================================================
