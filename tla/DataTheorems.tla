---------------------------- MODULE DataTheorems ----------------------------
(***************************************************************************)
(* Facts about data that the proofs of several modules need.  Induction is *)
(* stated over a set P, the set of the values for which a fact holds, as   *)
(* the provers cannot instantiate theorems about an operator.              *)
(***************************************************************************)
EXTENDS FiniteSetTheorems, SequenceTheorems, FiniteSetsExt, TLAPS

\* Every set of natural numbers that is not empty has a least element.
LEMMA LeastNumber ==
  ASSUME NEW T, T \subseteq Nat, T # {}
  PROVE  \E m \in T : \A k \in T : m <= k
<1> DEFINE R == {p \in Nat \X Nat : p[1] < p[2]}
<1>1. IsWellFoundedOn(R, Nat)
  <2>1. R = OpToRel(<, Nat)
    BY Zenon DEF OpToRel
  <2> QED
    BY <2>1, NatLessThanWellFounded
<1>2. PICK m \in T : \A k \in T : ~(<<k, m>> \in R)
  <2> HIDE DEF R
  <2> QED
    BY <1>1, WFMin
<1>3. ASSUME NEW k \in T
      PROVE  m <= k
  <2>1. ~(<<k, m>> \in R) /\ k \in Nat /\ m \in Nat
    BY <1>2
  <2> QED
    BY <2>1
<1> QED
  BY <1>3

\* Induction up to a number.
LEMMA UpTo ==
  ASSUME NEW N \in Nat, NEW P, 0 \in P,
         \A n \in 0..(N - 1) : n \in P => n + 1 \in P
  PROVE  0..N \subseteq P
<1> DEFINE bad == {n \in 0..N : n \notin P}
<1> SUFFICES ASSUME bad # {}
             PROVE  FALSE
  OBVIOUS
<1>1. bad \subseteq Nat
  OBVIOUS
<1>2. PICK m \in bad : \A k \in bad : m <= k
  <2> HIDE DEF bad
  <2> QED
    BY <1>1, LeastNumber
<1>3. m \in 0..N /\ m \notin P /\ m # 0
  BY <1>2
<1>4. m - 1 \in 0..(N - 1) /\ m - 1 \notin bad
  BY <1>2, <1>3
<1>5. m - 1 \in P
  BY <1>4
<1>6. (m - 1) + 1 \in P
  BY <1>4, <1>5
<1> QED
  BY <1>3, <1>6

\* Every set of subsets of a finite set that is not empty has a minimal one.
LEMMA MinimalSet ==
  ASSUME NEW S, IsFiniteSet(S), NEW F, F \subseteq SUBSET S, F # {}
  PROVE  \E m \in F : \A k \in F : k \subseteq m => k = m
<1>1. IsWellFoundedOn(StrictSubsetOrdering(S), FiniteSubsetsOf(S))
  BY FS_StrictSubsetOrderingWellFounded
<1>2. F \subseteq FiniteSubsetsOf(S)
  BY FS_FiniteSubsetsOfFinite
<1>3. PICK m \in F : \A k \in F : ~(<<k, m>> \in StrictSubsetOrdering(S))
  BY <1>1, <1>2, WFMin
<1> QED
  BY <1>3 DEF StrictSubsetOrdering

\* Induction over the subsets of a finite set.
LEMMA Subsets ==
  ASSUME NEW S, IsFiniteSet(S), NEW P, {} \in P,
         \A s \in SUBSET S : s # {} /\ (\A x \in s : s \ {x} \in P) => s \in P
  PROVE  SUBSET S \subseteq P
<1> DEFINE bad == {s \in SUBSET S : s \notin P}
<1> SUFFICES ASSUME bad # {}
             PROVE  FALSE
  OBVIOUS
<1>1. bad \subseteq SUBSET S
  OBVIOUS
<1>2. PICK m \in bad : \A k \in bad : k \subseteq m => k = m
  <2> HIDE DEF bad
  <2> QED
    BY <1>1, MinimalSet
<1>3. m \in SUBSET S /\ m \notin P /\ m # {}
  BY <1>2
<1>4. ASSUME NEW x \in m
      PROVE  m \ {x} \in P
  <2>1. m \ {x} \in SUBSET S /\ m \ {x} # m
    BY <1>3
  <2>2. m \ {x} \notin bad
    BY <1>2, <2>1
  <2> QED
    BY <2>1, <2>2
<1> QED
  BY <1>3, <1>4
-----------------------------------------------------------------------------
(* Sums of integers over a finite set, in whatever order they are added.   *)
IsSum(h, S, f) ==
  /\ h \in [SUBSET S -> Int]
  /\ h[{}] = 0
  /\ \A s \in SUBSET S : \A x \in s : h[s] = f[x] + h[s \ {x}]

\* There is a sum.
LEMMA SumExists ==
  ASSUME NEW S, IsFiniteSet(S), NEW f \in [S -> Int]
  PROVE  \E h : IsSum(h, S, f)
<1> DEFINE P == {t \in SUBSET S : \E h : IsSum(h, t, f)}
<1>1. {} \in P
  <2> DEFINE h == [s \in SUBSET {} |-> 0]
  <2>1. IsSum(h, {}, f)
    BY DEF IsSum
  <2> HIDE DEF h
  <2> QED
    BY <2>1
<1>2. ASSUME NEW t \in SUBSET S, t # {}, \A x \in t : t \ {x} \in P
      PROVE  t \in P
  <2>1. PICK x \in t : TRUE
    BY <1>2
  <2>2. PICK g : IsSum(g, t \ {x}, f)
    BY <1>2
  <2> DEFINE h == [s \in SUBSET t |-> IF x \in s THEN f[x] + g[s \ {x}] ELSE g[s]]
  <2>3. \A s \in SUBSET t : s \ {x} \in SUBSET (t \ {x}) /\ g[s \ {x}] \in Int
    BY <2>2 DEF IsSum
  <2>4. \A y \in t : f[y] \in Int
    OBVIOUS
  <2>5. \A s \in SUBSET t : x \notin s => s \in SUBSET (t \ {x}) /\ g[s] \in Int
    BY <2>2 DEF IsSum
  <2>6. h \in [SUBSET t -> Int]
    BY <2>3, <2>4, <2>5
  <2>7. h[{}] = 0
    BY <2>2 DEF IsSum
  <2>8. ASSUME NEW s \in SUBSET t, NEW y \in s
        PROVE  h[s] = f[y] + h[s \ {y}]
    <3>1. CASE y = x
      BY <3>1
    <3>2. CASE y # x /\ x \in s
      <4>1. h[s] = f[x] + g[s \ {x}] /\ h[s \ {y}] = f[x] + g[(s \ {y}) \ {x}]
        BY <3>2
      <4>2. (s \ {y}) \ {x} = (s \ {x}) \ {y}
        OBVIOUS
      <4>3. g[s \ {x}] = f[y] + g[(s \ {x}) \ {y}]
        BY <2>2, <2>3, <3>2 DEF IsSum
      <4>4. g[(s \ {x}) \ {y}] \in Int /\ f[x] \in Int /\ f[y] \in Int
        BY <2>3, <2>4, <4>2
      <4>5. ASSUME NEW a \in Int, NEW b \in Int, NEW c \in Int
            PROVE  a + (b + c) = b + (a + c)
        OBVIOUS
      <4>6. h[s] = f[x] + (f[y] + g[(s \ {x}) \ {y}])
        BY <4>1, <4>3
      <4>7. f[y] + h[s \ {y}] = f[y] + (f[x] + g[(s \ {x}) \ {y}])
        BY <4>1, <4>2
      <4> HIDE DEF h
      <4> QED
        BY <4>4, <4>5, <4>6, <4>7
    <3>3. CASE y # x /\ x \notin s
      <4>1. h[s] = g[s] /\ h[s \ {y}] = g[s \ {y}]
        BY <3>3
      <4>2. g[s] = f[y] + g[s \ {y}]
        BY <2>2, <2>5, <3>3 DEF IsSum
      <4> QED
        BY <4>1, <4>2
    <3> QED
      BY <3>1, <3>2, <3>3
  <2>9. IsSum(h, t, f)
    <3> HIDE DEF h
    <3> QED
      BY <2>6, <2>7, <2>8 DEF IsSum
  <2> HIDE DEF h
  <2> QED
    BY <2>9
<1>3. SUBSET S \subseteq P
  <2> HIDE DEF P
  <2> QED
    BY <1>1, <1>2, Subsets
<1>4. S \in P
  <2> HIDE DEF P
  <2> QED BY <1>3
<1> QED
  BY <1>4

\* A fold adds one element after the other, ch[s] last of s.
IsAdder(g, S, f, ch) ==
  g = [s \in SUBSET S |-> IF s = {} THEN 0 ELSE f[ch[s]] + g[s \ {ch[s]}]]

Chooses(ch, S) == \A s \in SUBSET S : s # {} => ch[s] \in s

\* The sum can be computed by such a fold.
LEMMA SumIsAdder ==
  ASSUME NEW S, NEW f, NEW h, IsSum(h, S, f), NEW ch, Chooses(ch, S)
  PROVE  IsAdder(h, S, f, ch)
<1>1. h = [s \in SUBSET S |-> h[s]]
  BY DEF IsSum
<1>2. ASSUME NEW s \in SUBSET S
      PROVE  h[s] = IF s = {} THEN 0 ELSE f[ch[s]] + h[s \ {ch[s]}]
  BY DEF IsSum, Chooses
<1> QED
  BY <1>1, <1>2 DEF IsAdder

\* Such a fold computes the sum.
LEMMA AdderIsSum ==
  ASSUME NEW S, IsFiniteSet(S), NEW f, NEW h, IsSum(h, S, f),
         NEW ch, Chooses(ch, S), NEW g, IsAdder(g, S, f, ch)
  PROVE  g = h
<1> DEFINE P == {s \in SUBSET S : g[s] = h[s]}
           G == [s \in SUBSET S |-> IF s = {} THEN 0 ELSE f[ch[s]] + g[s \ {ch[s]}]]
<1>1. g = G
  BY DEF IsAdder
<1>2. ASSUME NEW s \in SUBSET S
      PROVE  g[s] = IF s = {} THEN 0 ELSE f[ch[s]] + g[s \ {ch[s]}]
  <2>1. G[s] = IF s = {} THEN 0 ELSE f[ch[s]] + g[s \ {ch[s]}]
    OBVIOUS
  <2> HIDE DEF G
  <2> QED
    BY <1>1, <2>1
<1> HIDE DEF G
<1>3. {} \in P
  BY <1>2 DEF IsSum
<1>4. ASSUME NEW s \in SUBSET S, s # {}, \A x \in s : s \ {x} \in P
      PROVE  s \in P
  <2>1. ch[s] \in s
    BY <1>4 DEF Chooses
  <2>2. g[s \ {ch[s]}] = h[s \ {ch[s]}]
    BY <1>4, <2>1
  <2>3. h[s] = f[ch[s]] + h[s \ {ch[s]}]
    BY <2>1 DEF IsSum
  <2>4. g[s] = h[s]
    BY <1>2, <1>4, <2>2, <2>3
  <2> QED
    BY <2>4
<1>5. SUBSET S \subseteq P
  <2> HIDE DEF P
  <2> QED
    BY <1>3, <1>4, Subsets
<1>6. \A s \in SUBSET S : g[s] = h[s]
  BY <1>5
<1>7. h = [s \in SUBSET S |-> h[s]]
  BY DEF IsSum
<1>8. g = [s \in SUBSET S |-> g[s]]
  BY <1>1 DEF G
<1> QED
  BY <1>6, <1>7, <1>8

\* The sum of f's values over S, as the community modules compute it.
SumOf(f, S) == MapThenSumSet(LAMBDA n : f[n], S)

LEMMA SumOfIsSum ==
  ASSUME NEW T, NEW S \in SUBSET T, IsFiniteSet(S), NEW f, NEW h, IsSum(h, T, f)
  PROVE  SumOf(f, S) = h[S]
<1> DEFINE Eq(g) == g = [s \in SUBSET S |-> IF s = {} THEN 0
                              ELSE (LET x == CHOOSE x \in s : TRUE
                                    IN  f[x] + g[s \ {x}])]
           iter  == CHOOSE g : Eq(g)
           ch    == [s \in SUBSET S |-> CHOOSE x \in s : TRUE]
           k     == [s \in SUBSET S |-> h[s]]
<1>1. SumOf(f, S) = iter[S]
  BY DEF SumOf, MapThenSumSet, MapThenFoldSet
<1>2. Chooses(ch, S)
  BY DEF Chooses
<1>3. ASSUME NEW g
      PROVE  Eq(g) <=> IsAdder(g, S, f, ch)
  <2>1. ASSUME NEW s \in SUBSET S
        PROVE  (IF s = {} THEN 0 ELSE (LET x == CHOOSE x \in s : TRUE
                                       IN  f[x] + g[s \ {x}]))
               = (IF s = {} THEN 0 ELSE f[ch[s]] + g[s \ {ch[s]}])
    OBVIOUS
  <2> QED
    BY <2>1 DEF IsAdder
<1>4. IsSum(k, S, f)
  <2>1. ASSUME NEW s \in SUBSET S
        PROVE  s \in SUBSET T /\ k[s] = h[s] /\ h[s] \in Int
    BY DEF IsSum
  <2>2. k \in [SUBSET S -> Int] /\ k[{}] = 0
    BY <2>1 DEF IsSum
  <2>3. ASSUME NEW s \in SUBSET S, NEW x \in s
        PROVE  k[s] = f[x] + k[s \ {x}]
    <3>1. s \ {x} \in SUBSET S
      OBVIOUS
    <3>2. k[s] = h[s] /\ k[s \ {x}] = h[s \ {x}]
      BY <3>1
    <3>3. h[s] = f[x] + h[s \ {x}]
      BY <2>1 DEF IsSum
    <3> QED
      BY <3>2, <3>3
  <2> HIDE DEF k
  <2> QED
    BY <2>2, <2>3 DEF IsSum
<1>5. k[S] = h[S]
  OBVIOUS
<1> HIDE DEF Eq, ch, k
<1>6. Eq(k)
  BY <1>2, <1>3, <1>4, SumIsAdder
<1>7. Eq(iter)
  BY <1>6
<1> HIDE DEF iter
<1>8. iter = k
  BY <1>2, <1>3, <1>4, <1>7, AdderIsSum
<1> QED
  BY <1>1, <1>5, <1>8

\* Nothing adds up to 0.
LEMMA SumOfEmpty ==
  ASSUME NEW f
  PROVE  SumOf(f, {}) = 0
<1> DEFINE h == [s \in SUBSET {} |-> 0]
<1>1. IsSum(h, {}, f) /\ h[{}] = 0
  BY DEF IsSum
<1>2. IsFiniteSet({}) /\ {} \in SUBSET {}
  BY FS_EmptySet
<1> HIDE DEF h
<1> QED
  BY <1>1, <1>2, SumOfIsSum

\* How a sum begins and how it grows.
LEMMA SumOfFacts ==
  ASSUME NEW T, IsFiniteSet(T), NEW f \in [T -> Int], NEW S \in SUBSET T
  PROVE  /\ SumOf(f, {}) = 0
         /\ SumOf(f, S) \in Int
         /\ \A x \in S : SumOf(f, S) = f[x] + SumOf(f, S \ {x})
         /\ \A x \in T \ S : SumOf(f, S \cup {x}) = f[x] + SumOf(f, S)
<1>1. PICK h : IsSum(h, T, f)
  BY SumExists
<1>2. ASSUME NEW s \in SUBSET T
      PROVE  SumOf(f, s) = h[s] /\ h[s] \in Int
  <2>1. IsFiniteSet(s)
    BY FS_Subset
  <2>2. SumOf(f, s) = h[s]
    BY <1>1, <2>1, SumOfIsSum
  <2>3. h[s] \in Int
    BY <1>1 DEF IsSum
  <2> QED
    BY <2>2, <2>3
<1>3. SumOf(f, {}) = 0
  BY <1>1, <1>2 DEF IsSum
<1>4. ASSUME NEW x \in S
      PROVE  SumOf(f, S) = f[x] + SumOf(f, S \ {x})
  <2>1. S \ {x} \in SUBSET T
    OBVIOUS
  <2>2. h[S] = f[x] + h[S \ {x}]
    BY <1>1 DEF IsSum
  <2> QED
    BY <1>2, <2>1, <2>2
<1>5. ASSUME NEW x \in T \ S
      PROVE  SumOf(f, S \cup {x}) = f[x] + SumOf(f, S)
  <2>1. S \cup {x} \in SUBSET T /\ (S \cup {x}) \ {x} = S
    OBVIOUS
  <2>2. h[S \cup {x}] = f[x] + h[(S \cup {x}) \ {x}]
    BY <1>1, <2>1 DEF IsSum
  <2> QED
    BY <1>2, <2>1, <2>2
<1> QED
  BY <1>2, <1>3, <1>4, <1>5

\* The sum of numbers that are not negative is none.
LEMMA SumOfNat ==
  ASSUME NEW T, IsFiniteSet(T), NEW f \in [T -> Int],
         NEW S \in SUBSET T, \A x \in S : f[x] >= 0
  PROVE  SumOf(f, S) \in Nat
<1> DEFINE P == {s \in SUBSET S : SumOf(f, s) \in Nat}
<1>1. {} \in P
  BY SumOfFacts
<1>2. ASSUME NEW s \in SUBSET S, s # {}, \A x \in s : s \ {x} \in P
      PROVE  s \in P
  <2>1. PICK x \in s : TRUE
    BY <1>2
  <2>2. SumOf(f, s \ {x}) \in Nat
    BY <1>2, <2>1
  <2>3. SumOf(f, s) = f[x] + SumOf(f, s \ {x}) /\ f[x] \in Nat
    BY SumOfFacts
  <2> QED
    BY <2>2, <2>3
<1>3. IsFiniteSet(S)
  BY FS_Subset
<1> HIDE DEF P
<1>4. S \in P
  BY <1>1, <1>2, <1>3, Subsets
<1> QED
  BY <1>4 DEF P
-----------------------------------------------------------------------------
(* Arithmetic modulo P.                                                    *)

\* Division with remainder, and that the remainder is the only one.
LEMMA Division ==
  ASSUME NEW P \in Nat, P > 0, NEW a \in Int
  PROVE  /\ a % P \in 0..(P - 1)
         /\ \E q \in Int : a = q * P + (a % P)
<1>1. a \div P \in Int /\ a = P * (a \div P) + (a % P)
  OBVIOUS
<1>2. P * (a \div P) = (a \div P) * P
  OBVIOUS
<1> QED
  BY <1>1, <1>2

LEMMA UniqueRemainder ==
  ASSUME NEW P \in Nat, P > 0, NEW q \in Int, NEW r \in 0..(P - 1)
  PROVE  (q * P + r) % P = r
OBVIOUS

\* Multiples of P do not matter.
LEMMA ModMultiple ==
  ASSUME NEW P \in Nat, P > 0, NEW q \in Int, NEW a \in Int
  PROVE  (q * P + a) % P = a % P
<1>1. PICK p \in Int : a = p * P + (a % P)
  BY Division
<1>2. a % P \in 0..(P - 1)
  BY Division
<1>3. q * P + a = (q + p) * P + (a % P)
  <2>1. ASSUME NEW r \in Int
        PROVE  q * P + (p * P + r) = (q + p) * P + r
    OBVIOUS
  <2> QED
    BY <1>1, <1>2, <2>1
<1>4. (q + p) \in Int
  OBVIOUS
<1> QED
  BY <1>2, <1>3, <1>4, UniqueRemainder

\* A summand or a factor may be reduced first.
LEMMA ModAdd ==
  ASSUME NEW P \in Nat, P > 0, NEW a \in Int, NEW b \in Int
  PROVE  /\ ((a % P) + b) % P = (a + b) % P
         /\ (b + (a % P)) % P = (b + a) % P
<1>1. PICK q \in Int : a = q * P + (a % P)
  BY Division
<1>2. a % P \in Int
  BY Division
<1>3. a + b = q * P + ((a % P) + b)
  <2>1. ASSUME NEW r \in Int, NEW m \in Int
        PROVE  (m + r) + b = m + (r + b)
    OBVIOUS
  <2> QED
    BY <1>1, <1>2, <2>1
<1>4. (a + b) % P = ((a % P) + b) % P
  <2> DEFINE x == (a % P) + b
  <2>1. x \in Int
    BY <1>2
  <2> HIDE DEF x
  <2>2. (q * P + x) % P = x % P
    BY ONLY q \in Int, P \in Nat, P > 0, <2>1, ModMultiple
  <2> QED
    BY <1>3, <2>2, Zenon DEF x
<1>5. b + a = a + b /\ b + (a % P) = (a % P) + b
  BY <1>2
<1> QED
  BY <1>4, <1>5

LEMMA ModMul ==
  ASSUME NEW P \in Nat, P > 0, NEW a \in Int, NEW b \in Int
  PROVE  /\ ((a % P) * b) % P = (a * b) % P
         /\ (b * (a % P)) % P = (b * a) % P
<1>1. PICK q \in Int : a = q * P + (a % P)
  BY Division
<1>2. a % P \in Int
  BY Division
<1>3. a * b = (q * b) * P + ((a % P) * b)
  <2>1. ASSUME NEW r \in Int
        PROVE  (q * P + r) * b = (q * b) * P + (r * b)
    OBVIOUS
  <2> QED
    BY <1>1, <1>2, <2>1
<1>4. q * b \in Int /\ (a % P) * b \in Int
  BY <1>2
<1>5. (a * b) % P = ((a % P) * b) % P
  <2> DEFINE n == q * b
             x == (a % P) * b
  <2>1. n \in Int /\ x \in Int
    BY <1>4
  <2> HIDE DEF n, x
  <2>2. (n * P + x) % P = x % P
    BY ONLY P \in Nat, P > 0, <2>1, ModMultiple
  <2> QED
    BY <1>3, <2>2, Zenon DEF n, x
<1>6. b * a = a * b /\ b * (a % P) = (a % P) * b
  BY <1>2
<1> QED
  BY <1>5, <1>6

\* Numbers with one remainder differ by a multiple.
LEMMA ModCongruent ==
  ASSUME NEW P \in Nat, P > 0, NEW a \in Int, NEW b \in Int
  PROVE  (a % P = b % P) <=> (\E q \in Int : a = q * P + b)
<1>1. ASSUME a % P = b % P
      PROVE  \E q \in Int : a = q * P + b
  <2>1. PICK q1 \in Int : a = q1 * P + (a % P)
    BY Division
  <2>2. PICK q2 \in Int : b = q2 * P + (b % P)
    BY Division
  <2>3. b % P \in Int
    BY Division
  <2>4. ASSUME NEW r \in Int
        PROVE  q1 * P + r = (q1 - q2) * P + (q2 * P + r)
    OBVIOUS
  <2>5. a = (q1 - q2) * P + b /\ q1 - q2 \in Int
    BY <1>1, <2>1, <2>2, <2>3, <2>4
  <2> QED
    BY <2>5
<1>2. ASSUME NEW q \in Int, a = q * P + b
      PROVE  a % P = b % P
  BY <1>2, ModMultiple
<1> QED
  BY <1>1, <1>2
-----------------------------------------------------------------------------
(* More about sums: each of these is an induction over the subsets of T.   *)

\* A sum of ones counts.
LEMMA SumOfOnes ==
  ASSUME NEW T, IsFiniteSet(T), NEW f \in [T -> Int], NEW S \in SUBSET T,
         \A x \in S : f[x] = 1
  PROVE  SumOf(f, S) = Cardinality(S)
<1> DEFINE P == {s \in SUBSET S : SumOf(f, s) = Cardinality(s)}
<1>1. {} \in P
  BY SumOfFacts, FS_EmptySet
<1>2. ASSUME NEW s \in SUBSET S, s # {}, \A x \in s : s \ {x} \in P
      PROVE  s \in P
  <2>1. PICK x \in s : TRUE
    BY <1>2
  <2>2. SumOf(f, s \ {x}) = Cardinality(s \ {x})
    BY <1>2, <2>1
  <2>3. SumOf(f, s) = 1 + SumOf(f, s \ {x})
    BY SumOfFacts
  <2>4. IsFiniteSet(s)
    BY FS_Subset
  <2>5. Cardinality(s \ {x}) = Cardinality(s) - 1 /\ Cardinality(s) \in Nat
    BY <2>4, FS_RemoveElement, FS_CardinalityType
  <2> QED
    BY <2>2, <2>3, <2>5
<1>3. IsFiniteSet(S)
  BY FS_Subset
<1> HIDE DEF P
<1>4. S \in P
  BY <1>1, <1>2, <1>3, Subsets
<1> QED
  BY <1>4 DEF P

\* g is f where C selects, and nothing elsewhere.
Selects(T, f, C, g) ==
  /\ IsFiniteSet(T) /\ f \in [T -> Int]
  /\ g = [x \in T |-> IF x \in C THEN f[x] ELSE 0]

\* What is left out of a sum may count as nothing instead.
LEMMA SumOfSelected ==
  ASSUME NEW T, NEW f, NEW C, NEW g, Selects(T, f, C, g), NEW S \in SUBSET T
  PROVE  SumOf(g, S) = SumOf(f, S \cap C)
<1>0. /\ IsFiniteSet(T) /\ f \in [T -> Int] /\ g \in [T -> Int]
      /\ \A x \in T : g[x] = IF x \in C THEN f[x] ELSE 0
  BY DEF Selects
<1> DEFINE P == {s \in SUBSET S : SumOf(g, s) = SumOf(f, s \cap C)}
<1>1. {} \in P
  <2>1. {} \cap C = {}
    BY <1>0
  <2> QED
    BY <1>0, <2>1, SumOfFacts
<1>2. ASSUME NEW s \in SUBSET S, s # {}, \A x \in s : s \ {x} \in P
      PROVE  s \in P
  <2>1. PICK x \in s : TRUE
    BY <1>2
  <2>2. SumOf(g, s \ {x}) = SumOf(f, (s \ {x}) \cap C)
    BY <1>2, <2>1
  <2>3. SumOf(g, s) = g[x] + SumOf(g, s \ {x}) /\ SumOf(g, s \ {x}) \in Int
    BY <1>0, SumOfFacts
  <2>4. CASE x \in C
    <3>1. (s \ {x}) \cap C = (s \cap C) \ {x} /\ s \cap C \in SUBSET T /\ x \in s \cap C
      BY <1>0, <2>4
    <3>2. SumOf(f, s \cap C) = f[x] + SumOf(f, (s \cap C) \ {x})
      BY <1>0, <3>1, SumOfFacts
    <3>3. g[x] = f[x]
      BY <1>0, <2>4
    <3> QED
      BY <2>2, <2>3, <3>1, <3>2, <3>3
  <2>5. CASE x \notin C
    <3>1. (s \ {x}) \cap C = s \cap C
      BY <1>0, <2>5
    <3>2. g[x] = 0
      BY <1>0, <2>5
    <3>3. SumOf(g, s) = SumOf(g, s \ {x})
      BY <2>3, <3>2
    <3> QED
      BY <2>2, <3>1, <3>3
  <2> QED
    BY <2>4, <2>5
<1>3. IsFiniteSet(S)
  BY <1>0, FS_Subset
<1> HIDE DEF P
<1>4. S \in P
  BY <1>1, <1>2, <1>3, Subsets
<1> QED
  BY <1>4 DEF P

\* A sum of numbers that are not negative grows with the set.
LEMMA SumOfGrows ==
  ASSUME NEW T, IsFiniteSet(T), NEW f \in [T -> Int],
         NEW S \in SUBSET T, \A x \in S : f[x] >= 0, NEW R \in SUBSET S
  PROVE  SumOf(f, R) <= SumOf(f, S)
<1> DEFINE D == S \ R
           P == {s \in SUBSET D : SumOf(f, R) <= SumOf(f, R \cup s)}
<1>1. {} \in P
  <2>1. R \cup {} = R /\ SumOf(f, R) \in Int
    BY SumOfFacts
  <2> QED
    BY <2>1
<1>2. ASSUME NEW s \in SUBSET D, s # {}, \A x \in s : s \ {x} \in P
      PROVE  s \in P
  <2>1. PICK x \in s : TRUE
    BY <1>2
  <2>2. SumOf(f, R) <= SumOf(f, R \cup (s \ {x}))
    BY <1>2, <2>1
  <2>3. R \cup (s \ {x}) = (R \cup s) \ {x} /\ R \cup s \in SUBSET T /\ x \in R \cup s
    OBVIOUS
  <2>4. SumOf(f, R \cup s) = f[x] + SumOf(f, (R \cup s) \ {x})
    BY <2>3, SumOfFacts
  <2>5. SumOf(f, R) \in Int /\ SumOf(f, (R \cup s) \ {x}) \in Int /\ f[x] \in Nat
    <3>1. (R \cup s) \ {x} \in SUBSET T
      OBVIOUS
    <3> QED
      BY <3>1, SumOfFacts
  <2> QED
    BY <2>2, <2>3, <2>4, <2>5
<1>3. IsFiniteSet(D)
  BY FS_Subset
<1>4. R \cup D = S
  OBVIOUS
<1> HIDE DEF P, D
<1>5. D \in P
  BY <1>1, <1>2, <1>3, Subsets
<1> QED
  BY <1>4, <1>5 DEF P

\* f and g add up, one by one, to e times p modulo M.
AddUp(f, g, e, p, M, T) ==
  /\ M \in Nat /\ M > 0 /\ p \in Int /\ IsFiniteSet(T)
  /\ f \in [T -> Int] /\ g \in [T -> Int] /\ e \in [T -> Int]
  /\ \A x \in T : \E q \in Int : f[x] + g[x] = q * M + p * e[x]

\* Then so do their sums.
LEMMA SumsModulo ==
  ASSUME NEW M, NEW p, NEW T, NEW f, NEW g, NEW e, AddUp(f, g, e, p, M, T),
         NEW S \in SUBSET T
  PROVE  \E q \in Int : SumOf(f, S) + SumOf(g, S) = q * M + p * SumOf(e, S)
<1>0. /\ M \in Nat /\ M > 0 /\ p \in Int /\ IsFiniteSet(T)
      /\ f \in [T -> Int] /\ g \in [T -> Int] /\ e \in [T -> Int]
      /\ \A x \in T : \E q \in Int : f[x] + g[x] = q * M + p * e[x]
  BY DEF AddUp
<1> DEFINE P == {s \in SUBSET S : \E q \in Int :
                   SumOf(f, s) + SumOf(g, s) = q * M + p * SumOf(e, s)}
<1>1. {} \in P
  <2>1. SumOf(f, {}) = 0 /\ SumOf(g, {}) = 0 /\ SumOf(e, {}) = 0
    BY <1>0, SumOfFacts
  <2>2. SumOf(f, {}) + SumOf(g, {}) = 0 * M + p * SumOf(e, {})
    BY <1>0, <2>1
  <2>3. 0 \in Int
    BY <1>0
  <2> QED
    BY <2>2, <2>3, Zenon
<1>2. ASSUME NEW s \in SUBSET S, s # {}, \A x \in s : s \ {x} \in P
      PROVE  s \in P
  <2>1. PICK x \in s : TRUE
    BY <1>2
  <2> DEFINE a == SumOf(f, s \ {x})
             b == SumOf(g, s \ {x})
             c == SumOf(e, s \ {x})
             i == f[x]
             j == g[x]
             k == e[x]
  <2>2. PICK q \in Int : a + b = q * M + p * c
    BY <1>2, <2>1
  <2>3. PICK r \in Int : i + j = r * M + p * k
    BY <1>0
  <2>4. SumOf(f, s) = i + a /\ SumOf(g, s) = j + b /\ SumOf(e, s) = k + c
    BY <1>0, SumOfFacts
  <2>5. a \in Int /\ b \in Int /\ c \in Int
    <3>1. s \ {x} \in SUBSET T
      BY <1>0
    <3> QED
      BY <1>0, <3>1, SumOfFacts
  <2>6. i \in Int /\ j \in Int /\ k \in Int
    BY <1>0
  <2> HIDE DEF a, b, c, i, j, k
  <2>7. (i + a) + (j + b) = (r + q) * M + p * (k + c)
    BY <1>0, <2>2, <2>3, <2>5, <2>6
  <2>8. r + q \in Int
    BY <1>0
  <2> QED
    BY <2>4, <2>7, <2>8
<1>3. IsFiniteSet(S)
  BY <1>0, FS_Subset
<1> HIDE DEF P
<1>4. S \in P
  BY <1>1, <1>2, <1>3, Subsets
<1> QED
  BY <1>4 DEF P
-----------------------------------------------------------------------------
(* Sums of products, as in a product of matrices.                           *)

\* h is f + p * g on T.
Summable(f, T) == IsFiniteSet(T) /\ f \in [T -> Int]

IsLinear(h, f, p, g, T) == /\ Summable(f, T) /\ Summable(g, T) /\ Summable(h, T)
                           /\ p \in Int
                           /\ \A x \in T : h[x] = f[x] + p * g[x]

\* A sum is linear.
LEMMA SumOfAllLinear ==
  ASSUME NEW T, NEW f, NEW g, NEW p, NEW h, IsLinear(h, f, p, g, T)
  PROVE  SumOf(h, T) = SumOf(f, T) + p * SumOf(g, T)
<1>0. /\ IsFiniteSet(T) /\ p \in Int
      /\ f \in [T -> Int] /\ g \in [T -> Int] /\ h \in [T -> Int]
      /\ \A x \in T : h[x] = f[x] + p * g[x]
  BY DEF IsLinear, Summable
<1> DEFINE P == {s \in SUBSET T : SumOf(h, s) = SumOf(f, s) + p * SumOf(g, s)}
<1>1. {} \in P
  <2>1. SumOf(f, {}) = 0 /\ SumOf(g, {}) = 0 /\ SumOf(h, {}) = 0
    BY <1>0, SumOfFacts
  <2>2. 0 = 0 + p * 0
    BY <1>0
  <2> QED
    BY <2>1, <2>2
<1>2. ASSUME NEW s \in SUBSET T, s # {}, \A x \in s : s \ {x} \in P
      PROVE  s \in P
  <2>1. PICK x \in s : TRUE
    BY <1>2
  <2> DEFINE a == SumOf(f, s \ {x})
             b == SumOf(g, s \ {x})
             i == f[x]
             j == g[x]
  <2>2. SumOf(h, s \ {x}) = a + p * b
    BY <1>2, <2>1
  <2>3. SumOf(f, s) = i + a /\ SumOf(g, s) = j + b /\ SumOf(h, s) = (i + p * j) + (a + p * b)
    BY <1>0, <2>2, SumOfFacts
  <2>4. a \in Int /\ b \in Int
    <3>1. s \ {x} \in SUBSET T
      OBVIOUS
    <3> QED
      BY <1>0, <3>1, SumOfFacts
  <2>5. i \in Int /\ j \in Int
    BY <1>0
  <2> HIDE DEF a, b, i, j
  <2>6. (i + p * j) + (a + p * b) = (i + a) + p * (j + b)
    BY <1>0, <2>4, <2>5
  <2> QED
    BY <2>3, <2>6
<1> HIDE DEF P
<1>3. T \in P
  BY <1>0, <1>1, <1>2, Subsets
<1> QED
  BY <1>3 DEF P

Adds(f, S, x) == /\ SumOf(f, S) = f[x] + SumOf(f, S \ {x})
                 /\ SumOf(f, S) \in Int /\ SumOf(f, S \ {x}) \in Int

LEMMA SumOfStep ==
  ASSUME NEW T, NEW f, Summable(f, T), NEW S \in SUBSET T, NEW x \in S
  PROVE  Adds(f, S, x)
<1>1. S \ {x} \in SUBSET T /\ IsFiniteSet(T) /\ f \in [T -> Int]
  BY DEF Summable
<1> QED
  BY <1>1, SumOfFacts DEF Adds

LEMMA SumOfAllInt ==
  ASSUME NEW T, NEW f, Summable(f, T)
  PROVE  SumOf(f, T) \in Int
<1>1. T \in SUBSET T
  OBVIOUS
<1> QED
  BY <1>1, SumOfFacts DEF Summable

\* Bounds of the summands bound the sum.
LEMMA SumOfBounds ==
  ASSUME NEW T, IsFiniteSet(T), NEW f \in [T -> Int], NEW S \in SUBSET T,
         NEW lo \in Int, NEW hi \in Int, \A x \in S : lo <= f[x] /\ f[x] <= hi
  PROVE  Cardinality(S) * lo <= SumOf(f, S) /\ SumOf(f, S) <= Cardinality(S) * hi
<1> DEFINE P == {s \in SUBSET S : /\ Cardinality(s) * lo <= SumOf(f, s)
                                  /\ SumOf(f, s) <= Cardinality(s) * hi}
<1>1. {} \in P
  <2>1. SumOf(f, {}) = 0 /\ Cardinality({}) = 0
    BY SumOfFacts, FS_EmptySet
  <2>2. 0 * lo = 0 /\ 0 * hi = 0
    OBVIOUS
  <2> QED
    BY <2>1, <2>2
<1>2. ASSUME NEW s \in SUBSET S, s # {}, \A x \in s : s \ {x} \in P
      PROVE  s \in P
  <2>1. PICK x \in s : TRUE
    BY <1>2
  <2> DEFINE a == SumOf(f, s \ {x})
             n == Cardinality(s \ {x})
             i == f[x]
  <2>2. n * lo <= a /\ a <= n * hi
    BY <1>2, <2>1
  <2>3. SumOf(f, s) = i + a
    BY SumOfFacts
  <2>4. a \in Int
    <3>1. s \ {x} \in SUBSET T
      OBVIOUS
    <3> QED
      BY <3>1, SumOfFacts
  <2>5. i \in Int /\ lo <= i /\ i <= hi
    OBVIOUS
  <2>6. n \in Nat /\ Cardinality(s) = n + 1
    <3>1. IsFiniteSet(s)
      BY FS_Subset
    <3>2. Cardinality(s \ {x}) = Cardinality(s) - 1 /\ IsFiniteSet(s \ {x})
      BY <3>1, FS_RemoveElement
    <3> QED
      BY <3>1, <3>2, FS_CardinalityType
  <2> HIDE DEF a, n, i
  <2>7. (n + 1) * lo = n * lo + lo /\ (n + 1) * hi = n * hi + hi
    BY <2>6
  <2>8. n * lo \in Int /\ n * hi \in Int
    BY <2>6
  <2> DEFINE u == n * lo
             v == n * hi
  <2> HIDE DEF u, v
  <2>9. u + lo <= i + a /\ i + a <= v + hi
    BY <2>2, <2>4, <2>5, <2>8 DEF u, v
  <2> QED
    BY <2>3, <2>6, <2>7, <2>9 DEF u, v
<1>3. IsFiniteSet(S)
  BY FS_Subset
<1> HIDE DEF P
<1>4. S \in P
  BY <1>1, <1>2, <1>3, Subsets
<1> QED
  BY <1>4 DEF P

\* Only one summand counts.
LEMMA SumOfSingle ==
  ASSUME NEW T, IsFiniteSet(T), NEW f \in [T -> Int], NEW i \in T,
         \A x \in T : x # i => f[x] = 0
  PROVE  SumOf(f, T) = f[i]
<1>1. SumOf(f, T) = f[i] + SumOf(f, T \ {i}) /\ T \ {i} \in SUBSET T
  BY SumOfFacts
<1>2. Cardinality(T \ {i}) * 0 <= SumOf(f, T \ {i}) /\ SumOf(f, T \ {i}) <= Cardinality(T \ {i}) * 0
  <2>1. \A x \in T \ {i} : 0 <= f[x] /\ f[x] <= 0
    OBVIOUS
  <2> QED
    BY <1>1, <2>1, SumOfBounds
<1>3. Cardinality(T \ {i}) \in Nat
  BY FS_RemoveElement, FS_CardinalityType
<1>4. SumOf(f, T \ {i}) \in Int
  BY <1>1, SumOfFacts
<1>5. SumOf(f, T \ {i}) = 0
  BY <1>2, <1>3, <1>4
<1> QED
  BY <1>1, <1>5

\* Summands that are equal modulo M have sums that are.
LEMMA ModSum ==
  ASSUME NEW M \in Nat, M > 0, NEW i \in Int, NEW j \in Int, NEW a \in Int, NEW b \in Int,
         i % M = j % M, a % M = b % M
  PROVE  (i + a) % M = (j + b) % M
<1>1. ((i % M) + a) % M = (i + a) % M /\ ((j % M) + a) % M = (j + a) % M
  BY ModAdd
<1>2. (j + (a % M)) % M = (j + a) % M /\ (j + (b % M)) % M = (j + b) % M
  BY ModAdd
<1> QED
  BY <1>1, <1>2

LEMMA SumOfCongruent ==
  ASSUME NEW M \in Nat, M > 0, NEW T, IsFiniteSet(T), NEW f \in [T -> Int], NEW g \in [T -> Int],
         \A x \in T : f[x] % M = g[x] % M
  PROVE  SumOf(f, T) % M = SumOf(g, T) % M
<1> DEFINE P == {s \in SUBSET T : SumOf(f, s) % M = SumOf(g, s) % M}
<1>1. {} \in P
  BY SumOfEmpty
<1>2. ASSUME NEW s \in SUBSET T, s # {}, \A x \in s : s \ {x} \in P
      PROVE  s \in P
  <2>1. PICK x \in s : TRUE
    BY <1>2
  <2> DEFINE a == SumOf(f, s \ {x})
             b == SumOf(g, s \ {x})
             i == f[x]
             j == g[x]
  <2>2. a % M = b % M /\ i % M = j % M
    BY <1>2, <2>1
  <2>3. SumOf(f, s) = i + a /\ SumOf(g, s) = j + b /\ a \in Int /\ b \in Int
    <3>1. SumOf(f, s) = i + a /\ a \in Int
      <4>1. Summable(f, T)
        BY DEF Summable
      <4>2. Adds(f, s, x)
        BY <4>1, SumOfStep, Zenon
      <4> QED
        BY <4>2 DEF Adds
    <3>2. SumOf(g, s) = j + b /\ b \in Int
      <4>1. Summable(g, T)
        BY DEF Summable
      <4>2. Adds(g, s, x)
        BY <4>1, SumOfStep, Zenon
      <4> QED
        BY <4>2 DEF Adds
    <3> QED
      BY <3>1, <3>2
  <2>4. i \in Int /\ j \in Int
    OBVIOUS
  <2> HIDE DEF a, b, i, j
  <2>5. (i + a) % M = (j + b) % M
    BY <2>2, <2>3, <2>4, ModSum, SMTT(60)
  <2> QED
    BY <2>3, <2>5
<1> HIDE DEF P
<1>3. T \in P
  BY <1>1, <1>2, Subsets
<1> QED
  BY <1>3 DEF P

\* The sums of the rows and those of the columns of a table.
RowSums(h, S, T)    == [s \in S |-> SumOf([t \in T |-> h[s][t]], T)]
ColumnSums(h, S, T) == [t \in T |-> SumOf([s \in S |-> h[s][t]], S)]

LEMMA RowsType ==
  ASSUME NEW S, NEW T, IsFiniteSet(T), NEW h \in [S -> [T -> Int]]
  PROVE  RowSums(h, S, T) \in [S -> Int]
<1>1. ASSUME NEW s \in S
      PROVE  SumOf([t \in T |-> h[s][t]], T) \in Int
  <2>1. [t \in T |-> h[s][t]] \in [T -> Int]
    OBVIOUS
  <2> QED
    BY <2>1, SumOfFacts
<1> QED
  BY <1>1 DEF RowSums

LEMMA SumOfExchange ==
  ASSUME NEW S, IsFiniteSet(S), NEW T, IsFiniteSet(T), NEW h \in [S -> [T -> Int]]
  PROVE  SumOf(RowSums(h, S, T), S) = SumOf(ColumnSums(h, S, T), T)
<1> DEFINE col(s) == [t \in T |-> SumOf([x \in S |-> h[x][t]], s)]
           P == {s \in SUBSET S : SumOf(RowSums(h, S, T), s) = SumOf(col(s), T)}
<1>0. RowSums(h, S, T) \in [S -> Int]
  BY RowsType
<1>a. ASSUME NEW t \in T
      PROVE  [x \in S |-> h[x][t]] \in [S -> Int]
  OBVIOUS
<1>b. ASSUME NEW s \in SUBSET S
      PROVE  col(s) \in [T -> Int]
  <2>1. \A t \in T : SumOf([x \in S |-> h[x][t]], s) \in Int
    BY <1>a, SumOfFacts
  <2> QED
    BY <2>1
<1>1. {} \in P
  <2>1. SumOf(RowSums(h, S, T), {}) = 0
    BY SumOfEmpty
  <2>2. \A t \in T : 0 <= col({})[t] /\ col({})[t] <= 0
    <3> TAKE t \in T
    <3> DEFINE f == [x \in S |-> h[x][t]]
    <3>1. SumOf(f, {}) = 0
      BY SumOfEmpty, Zenon
    <3>2. col({})[t] = 0
      BY <3>1
    <3> HIDE DEF col
    <3> QED
      BY <3>2
  <2>3. col({}) \in [T -> Int]
    BY <1>b
  <2> HIDE DEF col
  <2>4. Cardinality(T) * 0 <= SumOf(col({}), T) /\ SumOf(col({}), T) <= Cardinality(T) * 0
    BY <2>2, <2>3, SumOfBounds
  <2>5. Cardinality(T) \in Nat /\ SumOf(col({}), T) \in Int
    BY <2>3, SumOfFacts, FS_CardinalityType
  <2>6. SumOf(col({}), T) = 0
    BY <2>4, <2>5
  <2> QED
    BY <2>1, <2>6
<1>2. ASSUME NEW s \in SUBSET S, s # {}, \A x \in s : s \ {x} \in P
      PROVE  s \in P
  <2>1. PICK x \in s : TRUE
    BY <1>2
  <2> DEFINE r == [t \in T |-> h[x][t]]
  <2>2. r \in [T -> Int]
    OBVIOUS
  <2>3. SumOf(RowSums(h, S, T), s) = SumOf(r, T) + SumOf(RowSums(h, S, T), s \ {x})
    <3>1. SumOf(RowSums(h, S, T), s) = RowSums(h, S, T)[x] + SumOf(RowSums(h, S, T), s \ {x})
      BY <1>0, SumOfFacts
    <3>2. RowSums(h, S, T)[x] = SumOf(r, T)
      BY DEF RowSums
    <3> QED
      BY <3>1, <3>2
  <2>4. SumOf(RowSums(h, S, T), s \ {x}) = SumOf(col(s \ {x}), T)
    BY <1>2, <2>1
  <2>5. \A t \in T : col(s)[t] = r[t] + 1 * col(s \ {x})[t]
    <3> TAKE t \in T
    <3> DEFINE f == [y \in S |-> h[y][t]]
    <3>1. f \in [S -> Int] /\ f[x] = h[x][t]
      OBVIOUS
    <3> HIDE DEF f
    <3>2. SumOf(f, s) = f[x] + SumOf(f, s \ {x}) /\ SumOf(f, s \ {x}) \in Int
      <4>1. s \in SUBSET S /\ s \ {x} \in SUBSET S /\ IsFiniteSet(S) /\ x \in s
        BY <2>1
      <4>2. Summable(f, S)
        BY <3>1, <4>1 DEF Summable
      <4>3. Adds(f, s, x)
        BY <4>1, <4>2, SumOfStep, Zenon
      <4> QED
        BY <4>3 DEF Adds
    <3>3. SumOf(f, s) = h[x][t] + 1 * SumOf(f, s \ {x})
      <4>1. SumOf(f, s \ {x}) = 1 * SumOf(f, s \ {x})
        BY <3>2
      <4> QED
        BY <3>1, <3>2, <4>1
    <3>4. col(s)[t] = SumOf(f, s) /\ col(s \ {x})[t] = SumOf(f, s \ {x}) /\ r[t] = h[x][t]
      BY DEF f
    <3> QED
      BY <3>3, <3>4
  <2>6. col(s) \in [T -> Int] /\ col(s \ {x}) \in [T -> Int]
    <3>1. s \in SUBSET S /\ s \ {x} \in SUBSET S
      OBVIOUS
    <3> QED
      BY <3>1, <1>b
  <2> HIDE DEF col, r
  <2>7. SumOf(col(s), T) = SumOf(r, T) + 1 * SumOf(col(s \ {x}), T)
    <3> DEFINE u == col(s)
               v == col(s \ {x})
               p == 1
    <3>1. u \in [T -> Int] /\ v \in [T -> Int]
      BY <2>6, Zenon
    <3>2. \A t \in T : u[t] = r[t] + p * v[t]
      BY <2>5, Zenon
    <3>a. p \in Int
      OBVIOUS
    <3> HIDE DEF u, v, p
    <3>3. IsLinear(u, r, p, v, T)
      BY <2>2, <3>1, <3>2, <3>a, Zenon DEF IsLinear, Summable
    <3>4. SumOf(u, T) = SumOf(r, T) + p * SumOf(v, T)
      BY ONLY <3>3, SumOfAllLinear
    <3> QED
      BY <3>4 DEF u, v, p
  <2>8. SumOf(col(s \ {x}), T) \in Int
    BY <2>6, SumOfFacts
  <2> QED
    BY <2>3, <2>4, <2>7, <2>8
<1> HIDE DEF P
<1>3. S \in P
  BY <1>1, <1>2, Subsets
<1> QED
  BY <1>3 DEF P, ColumnSums
-----------------------------------------------------------------------------
(* The greatest number of a finite set, and the least as Min takes it.      *)

LEMMA GreatestNumber ==
  ASSUME NEW S, IsFiniteSet(S), S \subseteq Int, S # {}
  PROVE  \E m \in S : \A k \in S : k <= m
<1> DEFINE P == {s \in SUBSET S : s # {} => \E m \in s : \A k \in s : k <= m}
<1>1. {} \in P
  OBVIOUS
<1>2. ASSUME NEW s \in SUBSET S, s # {}, \A x \in s : s \ {x} \in P
      PROVE  s \in P
  <2>1. PICK x \in s : TRUE
    BY <1>2
  <2>2. CASE s \ {x} = {}
    <3>1. \A k \in s : k = x
      BY <2>2
    <3> QED
      BY <2>1, <3>1
  <2>3. CASE s \ {x} # {}
    <3>1. PICK m \in s \ {x} : \A k \in s \ {x} : k <= m
      BY <1>2, <2>1, <2>3
    <3>2. CASE x <= m
      BY <3>1, <3>2
    <3>3. CASE ~(x <= m)
      <4>1. \A k \in s : k <= x
        BY <3>1, <3>3
      <4> QED
        BY <2>1, <4>1
    <3> QED
      BY <3>2, <3>3
  <2> QED
    BY <2>2, <2>3
<1> HIDE DEF P
<1>3. SUBSET S \subseteq P
  BY <1>1, <1>2, Subsets
<1> QED
  BY <1>3 DEF P

LEMMA MinFacts ==
  ASSUME NEW S, S \subseteq Nat, S # {}
  PROVE  Min(S) \in S /\ \A k \in S : Min(S) <= k
<1>1. PICK m \in S : \A k \in S : m <= k
  BY LeastNumber
<1> QED
  BY <1>1 DEF Min

-----------------------------------------------------------------------------
(* Sequences of sequences, one after the other.                             *)

IsFlattening(f, s, n) ==
  f = [i \in 1..n |-> IF i = 1 THEN s[i] ELSE f[i - 1] \o s[i]]

\* As FlattenSeq of SequencesExt is defined.
Flattening(s) ==
  IF Len(s) = 0 THEN s ELSE (CHOOSE f : IsFlattening(f, s, Len(s)))[Len(s)]

LEMMA FlatteningExists ==
  ASSUME NEW s, NEW N \in Nat
  PROVE  \E f : IsFlattening(f, s, N)
<1> DEFINE P == {n \in 0..N : \E f : IsFlattening(f, s, n)}
<1>1. 0 \in P
  <2> DEFINE f == [i \in 1..0 |-> s]
  <2>1. f = [i \in 1..0 |-> IF i = 1 THEN s[i] ELSE f[i - 1] \o s[i]]
    OBVIOUS
  <2>2. IsFlattening(f, s, 0)
    BY <2>1 DEF IsFlattening
  <2> HIDE DEF f
  <2> QED
    BY <2>2
<1>2. ASSUME NEW n \in 0..(N - 1), n \in P
      PROVE  n + 1 \in P
  <2>1. PICK f : IsFlattening(f, s, n)
    BY <1>2
  <2> DEFINE next == IF n = 0 THEN s[1] ELSE f[n] \o s[n + 1]
             G == [i \in 1..n |-> IF i = 1 THEN s[i] ELSE f[i - 1] \o s[i]]
             g == [i \in 1..(n + 1) |-> IF i = n + 1 THEN next ELSE f[i]]
             H == [i \in 1..(n + 1) |-> IF i = 1 THEN s[i] ELSE g[i - 1] \o s[i]]
  <2>2. f = G
    BY <2>1 DEF IsFlattening
  <2>3. ASSUME NEW i \in 1..n
        PROVE  f[i] = IF i = 1 THEN s[i] ELSE f[i - 1] \o s[i]
    <3>1. G[i] = IF i = 1 THEN s[i] ELSE f[i - 1] \o s[i]
      OBVIOUS
    <3> HIDE DEF G
    <3> QED
      BY <2>2, <3>1
  <2> HIDE DEF G
  <2>4. ASSUME NEW i \in 1..(n + 1)
        PROVE  g[i] = H[i]
    <3>1. CASE i = n + 1 /\ n = 0
      BY <3>1
    <3>2. CASE i = n + 1 /\ n # 0
      <4>1. i - 1 \in 1..(n + 1) /\ i - 1 # n + 1 /\ i - 1 = n /\ i # 1
        BY <3>2
      <4> HIDE DEF next
      <4>2. g[i] = next /\ g[i - 1] = f[n]
        BY <3>2, <4>1
      <4> HIDE DEF g
      <4>3. H[i] = g[i - 1] \o s[i]
        BY <4>1
      <4>4. next = f[n] \o s[n + 1]
        BY <3>2 DEF next
      <4> QED
        BY <3>2, <4>2, <4>3, <4>4
    <3>3. CASE i \in 1..n /\ i # 1
      <4>1. g[i] = f[i] /\ g[i - 1] = f[i - 1]
        BY <3>3
      <4>2. H[i] = g[i - 1] \o s[i]
        BY <3>3
      <4> QED
        BY <2>3, <3>3, <4>1, <4>2
    <3>4. CASE i = 1 /\ i \in 1..n
      BY <2>3, <3>4
    <3> QED
      BY <3>1, <3>2, <3>3, <3>4
  <2>5. g = H
    BY <2>4
  <2>6. IsFlattening(g, s, n + 1)
    BY <2>5 DEF IsFlattening
  <2> HIDE DEF g
  <2> QED
    BY <2>6
<1> HIDE DEF P
<1>3. 0..N \subseteq P
  BY <1>1, <1>2, UpTo
<1> QED
  BY <1>3 DEF P

\* Where two sequences agree, so do their flattenings.
LEMMA FlatteningUnique ==
  ASSUME NEW s, NEW t, NEW f, NEW g, NEW M \in Nat, NEW N \in Nat, N <= M,
         IsFlattening(f, s, N), IsFlattening(g, t, M),
         \A i \in 1..N : s[i] = t[i]
  PROVE  \A i \in 1..N : f[i] = g[i]
<1> DEFINE P == {n \in 0..N : n = 0 \/ f[n] = g[n]}
           F == [i \in 1..N |-> IF i = 1 THEN s[i] ELSE f[i - 1] \o s[i]]
           G == [i \in 1..M |-> IF i = 1 THEN t[i] ELSE g[i - 1] \o t[i]]
<1>1. f = F /\ g = G
  BY DEF IsFlattening
<1>2. ASSUME NEW i \in 1..N
      PROVE  /\ f[i] = IF i = 1 THEN s[i] ELSE f[i - 1] \o s[i]
             /\ g[i] = IF i = 1 THEN t[i] ELSE g[i - 1] \o t[i]
  <2>1. /\ F[i] = IF i = 1 THEN s[i] ELSE f[i - 1] \o s[i]
        /\ G[i] = IF i = 1 THEN t[i] ELSE g[i - 1] \o t[i]
    OBVIOUS
  <2> HIDE DEF F, G
  <2> QED
    BY <1>1, <2>1
<1> HIDE DEF F, G
<1>3. 0 \in P
  OBVIOUS
<1>4. ASSUME NEW n \in 0..(N - 1), n \in P
      PROVE  n + 1 \in P
  <2>1. n + 1 \in 1..N /\ (n + 1) - 1 = n
    OBVIOUS
  <2>2. CASE n = 0
    BY <1>2, <2>1, <2>2
  <2>3. CASE n # 0
    <3>0. n + 1 # 1 /\ n \in 1..N
      BY <2>3
    <3>1. f[n + 1] = f[n] \o s[n + 1] /\ g[n + 1] = g[n] \o t[n + 1]
      BY <1>2, <2>1, <3>0, Zenon
    <3>2. f[n] = g[n]
      BY <1>4, <2>3
    <3>3. f[n + 1] = g[n + 1]
      BY <2>1, <3>1, <3>2, Zenon
    <3>4. n + 1 \in 0..N
      BY <2>1
    <3> QED
      BY <3>3, <3>4
  <2> QED
    BY <2>1, <2>2, <2>3
<1> HIDE DEF P
<1>5. 0..N \subseteq P
  BY <1>3, <1>4, UpTo
<1> QED
  BY <1>5 DEF P

LEMMA FlattenLast ==
  ASSUME NEW s, NEW t, NEW n \in Nat, NEW m \in Nat, m = n + 1, Len(s) = n, Len(t) = m,
         \A i \in 1..n : s[i] = t[i]
  PROVE  Flattening(t) = IF n = 0 THEN t[m] ELSE Flattening(s) \o t[m]
<1> DEFINE flat == CHOOSE flat : IsFlattening(flat, s, n)
           grown == CHOOSE grown : IsFlattening(grown, t, m)
<1>1. Flattening(t) = grown[m] /\ (n # 0 => Flattening(s) = flat[n])
  BY DEF Flattening
<1>2. IsFlattening(flat, s, n)
  BY FlatteningExists
<1>3. IsFlattening(grown, t, m)
  BY FlatteningExists
<1> HIDE DEF flat, grown
<1>4. \A i \in 1..n : flat[i] = grown[i]
  <2>1. n <= m
    OBVIOUS
  <2> QED
    BY <1>2, <1>3, <2>1, FlatteningUnique
<1>5. grown[m] = IF m = 1 THEN t[m] ELSE grown[m - 1] \o t[m]
  <2> DEFINE G == [i \in 1..m |-> IF i = 1 THEN t[i] ELSE grown[i - 1] \o t[i]]
  <2>1. G[m] = IF m = 1 THEN t[m] ELSE grown[m - 1] \o t[m]
    OBVIOUS
  <2>2. grown = G
    BY <1>3 DEF IsFlattening
  <2> HIDE DEF G
  <2> QED
    BY <2>1, <2>2
<1>6. CASE n = 0
  BY <1>1, <1>5, <1>6
<1>7. CASE n # 0
  <2>1. m - 1 = n /\ n \in 1..n /\ m # 1
    BY <1>7
  <2>2. grown[m] = flat[n] \o t[m]
    BY <1>4, <1>5, <2>1
  <2> QED
    BY <1>1, <1>7, <2>2
<1> QED
  BY <1>6, <1>7

LEMMA PrefixStep ==
  ASSUME NEW S, NEW s \in Seq(S), NEW n \in 0..(Len(s) - 1)
  PROVE  /\ SubSeq(s, 1, n) \in Seq(S) /\ s[n + 1] \in S
         /\ SubSeq(s, 1, n + 1) = Append(SubSeq(s, 1, n), s[n + 1])
OBVIOUS

LEMMA PrefixEnds ==
  ASSUME NEW S, NEW s \in Seq(S)
  PROVE  Len(s) \in Nat /\ SubSeq(s, 1, 0) = <<>> /\ SubSeq(s, 1, Len(s)) = s
OBVIOUS

LEMMA AppendConcat ==
  ASSUME NEW S, NEW s \in Seq(S), NEW t \in Seq(S), NEW u \in S
  PROVE  s \o Append(t, u) = Append(s \o t, u) /\ s \o t \in Seq(S) /\ s \o <<>> = s
OBVIOUS

\* What Flattening does to a sequence that grows at its end.
LEMMA FlattenEmpty == Flattening(<<>>) = <<>>
BY DEF Flattening

LEMMA FlattenAppend ==
  ASSUME NEW X, NEW s \in Seq(Seq(X)), NEW u \in Seq(X)
  PROVE  Flattening(Append(s, u)) = Flattening(s) \o u
<1> DEFINE n == Len(s)
           m == n + 1
           t == Append(s, u)
<1>1. n \in Nat /\ m \in Nat /\ Len(t) = m /\ t[m] = u
  OBVIOUS
<1>2. \A i \in 1..n : s[i] = t[i]
  OBVIOUS
<1>3. n = 0 => s = <<>>
  OBVIOUS
<1>4. Len(s) = n /\ m = n + 1
  OBVIOUS
<1> HIDE DEF n, m, t
<1>5. Flattening(t) = IF n = 0 THEN t[m] ELSE Flattening(s) \o t[m]
  BY ONLY <1>1, <1>2, <1>4, FlattenLast, Zenon
<1>6. <<>> \o u = u
  OBVIOUS
<1>7. Flattening(t) = Flattening(s) \o u
  BY <1>1, <1>3, <1>5, <1>6, FlattenEmpty, Zenon
<1> QED
  BY <1>7, Zenon DEF t

LEMMA FlattenType ==
  ASSUME NEW X, NEW s \in Seq(Seq(X))
  PROVE  Flattening(s) \in Seq(X)
<1> DEFINE front(n) == SubSeq(s, 1, n)
           P == {n \in 0..Len(s) : Flattening(front(n)) \in Seq(X)}
<1>1. Len(s) \in Nat /\ front(0) = <<>> /\ front(Len(s)) = s
  BY PrefixEnds
<1>2. \A n \in 0..(Len(s) - 1) :
         front(n) \in Seq(Seq(X)) /\ s[n + 1] \in Seq(X) /\ front(n + 1) = Append(front(n), s[n + 1])
  BY PrefixStep, Zenon
<1> HIDE DEF front
<1>3. 0 \in P
  <2>1. <<>> \in Seq(X) /\ 0 \in 0..Len(s)
    BY <1>1
  <2>2. Flattening(front(0)) \in Seq(X)
    BY <1>1, <2>1, FlattenEmpty, Zenon
  <2> QED
    BY <2>1, <2>2, Zenon
<1>4. ASSUME NEW n \in 0..(Len(s) - 1), n \in P
      PROVE  n + 1 \in P
  <2>1. Flattening(front(n)) \in Seq(X)
    BY <1>4
  <2>2. Flattening(front(n + 1)) = Flattening(front(n)) \o s[n + 1]
    BY <1>2, FlattenAppend, Zenon
  <2>3. Flattening(front(n)) \o s[n + 1] \in Seq(X)
    BY <1>2, <2>1, ConcatProperties, Zenon
  <2>4. n + 1 \in 0..Len(s)
    BY <1>1
  <2> QED
    BY <2>2, <2>3, <2>4
<1> HIDE DEF P
<1>5. 0..Len(s) \subseteq P
  BY <1>1, <1>3, <1>4, UpTo
<1>6. Len(s) \in 0..Len(s)
  BY <1>1
<1> QED
  BY <1>1, <1>5, <1>6 DEF P

\* Concatenation associates, in a form that is cited as one fact.
Regroups(a, b, c) == (a \o b) \o c = a \o (b \o c)

LEMMA ConcatRegroups ==
  ASSUME NEW X, NEW a \in Seq(X), NEW b \in Seq(X), NEW c \in Seq(X)
  PROVE  Regroups(a, b, c)
BY ConcatAssociative DEF Regroups

LEMMA FlattenConcat ==
  ASSUME NEW X, NEW s \in Seq(Seq(X)), NEW t \in Seq(Seq(X))
  PROVE  Flattening(s \o t) = Flattening(s) \o Flattening(t)
<1> DEFINE front(n) == SubSeq(t, 1, n)
           P == {n \in 0..Len(t) : Flattening(s \o front(n)) = Flattening(s) \o Flattening(front(n))}
<1>1. Len(t) \in Nat /\ front(0) = <<>> /\ front(Len(t)) = t
  BY PrefixEnds
<1>2. \A n \in 0..(Len(t) - 1) :
         front(n) \in Seq(Seq(X)) /\ t[n + 1] \in Seq(X) /\ front(n + 1) = Append(front(n), t[n + 1])
  BY PrefixStep, Zenon
<1>3. Flattening(s) \in Seq(X)
  BY FlattenType
<1> HIDE DEF front
<1>4. 0 \in P
  <2>1. s \o <<>> = s
    OBVIOUS
  <2>2. Flattening(s) \o <<>> = Flattening(s)
    BY <1>3
  <2>3. Flattening(s \o front(0)) = Flattening(s) \o Flattening(front(0))
    BY <1>1, <2>1, <2>2, FlattenEmpty, Zenon
  <2> QED
    BY <1>1, <2>3
<1>5. ASSUME NEW n \in 0..(Len(t) - 1), n \in P
      PROVE  n + 1 \in P
  <2> DEFINE u == t[n + 1]
             r == front(n)
  <2>1. r \in Seq(Seq(X)) /\ u \in Seq(X) /\ front(n + 1) = Append(r, u)
    BY <1>2
  <2>2. Flattening(s \o r) = Flattening(s) \o Flattening(r)
    BY <1>5
  <2> HIDE DEF u, r
  <2>3. s \o Append(r, u) = Append(s \o r, u) /\ s \o r \in Seq(Seq(X))
    <3> DEFINE S == Seq(X)
    <3>1. s \in Seq(S) /\ r \in Seq(S) /\ u \in S
      BY <2>1
    <3> HIDE DEF S
    <3>2. s \o Append(r, u) = Append(s \o r, u) /\ s \o r \in Seq(S)
      BY ONLY <3>1, AppendConcat
    <3> QED
      BY <3>2, Zenon DEF S
  <2>4. Flattening(r) \in Seq(X)
    BY <2>1, FlattenType, Zenon
  <2>5. /\ Flattening(Append(r, u)) = Flattening(r) \o u
        /\ Flattening(Append(s \o r, u)) = Flattening(s \o r) \o u
    BY <2>1, <2>3, FlattenAppend, Zenon
  <2>6. (Flattening(s) \o Flattening(r)) \o u = Flattening(s) \o (Flattening(r) \o u)
    <3> DEFINE a == Flattening(s)
               b == Flattening(r)
    <3>1. a \in Seq(X) /\ b \in Seq(X) /\ u \in Seq(X)
      BY <1>3, <2>1, <2>4
    <3> HIDE DEF a, b
    <3>2. Regroups(a, b, u)
      BY <3>1, ConcatRegroups, Zenon
    <3> QED
      BY <3>2, Zenon DEF a, b, Regroups
  <2>7. Flattening(s \o front(n + 1)) = Flattening(s) \o Flattening(front(n + 1))
    BY <2>1, <2>2, <2>3, <2>5, <2>6, Zenon
  <2>8. n + 1 \in 0..Len(t)
    BY <1>1
  <2> QED
    BY <2>7, <2>8
<1> HIDE DEF P
<1>6. 0..Len(t) \subseteq P
  BY <1>1, <1>4, <1>5, UpTo
<1>7. Len(t) \in 0..Len(t)
  BY <1>1
<1> QED
  BY <1>1, <1>6, <1>7 DEF P

LEMMA FlattenOne ==
  ASSUME NEW X, NEW u \in Seq(X)
  PROVE  Flattening(<<u>>) = u
<1>1. <<>> \in Seq(Seq(X)) /\ Append(<<>>, u) = <<u>>
  OBVIOUS
<1>2. Flattening(Append(<<>>, u)) = Flattening(<<>>) \o u
  BY <1>1, FlattenAppend, Zenon
<1>3. <<>> \o u = u
  OBVIOUS
<1> QED
  BY <1>1, <1>2, <1>3, FlattenEmpty, Zenon

\* Pieces of one length: where an entry of a piece is in the whole.
Pieces(s, n, f) ==
  /\ Len(f) = Len(s) * n
  /\ \A i \in 1..Len(s) : \A k \in 1..n : f[(i - 1) * n + k] = s[i][k]

LEMMA PieceStep ==
  ASSUME NEW X, NEW s \in Seq(Seq(X)), NEW u \in Seq(X), NEW f \in Seq(X), NEW n \in Nat,
         Len(u) = n, Pieces(s, n, f)
  PROVE  Pieces(Append(s, u), n, f \o u)
<1> DEFINE m == Len(s)
           L == m * n
           t == Append(s, u)
           g == f \o u
<1>1. m \in Nat /\ L \in Nat /\ Len(f) = L
  <2>1. m \in Nat
    BY LenProperties
  <2> QED
    BY <2>1 DEF Pieces
<1>2. Len(t) = m + 1 /\ t[m + 1] = u /\ \A i \in 1..m : t[i] = s[i]
  <2> DEFINE S == Seq(X)
  <2>1. s \in Seq(S) /\ u \in S
    OBVIOUS
  <2> HIDE DEF S
  <2> QED
    BY ONLY <2>1, AppendProperties
<1>3. Len(g) = L + n /\ (\A k \in 1..L : g[k] = f[k]) /\ (\A k \in 1..n : g[L + k] = u[k])
  <2> HIDE DEF L
  <2>1. f \in Seq(X) /\ u \in Seq(X) /\ Len(f) = L /\ Len(u) = n /\ L \in Nat /\ n \in Nat
    BY <1>1
  <2>2. /\ Len(f \o u) = Len(f) + Len(u)
        /\ \A k \in 1..(Len(f) + Len(u)) : (f \o u)[k] = IF k <= Len(f) THEN f[k] ELSE u[k - Len(f)]
    BY <2>1, ConcatProperties
  <2>3. \A k \in 1..L : g[k] = f[k]
    BY <2>1, <2>2
  <2>4. \A k \in 1..n : g[L + k] = u[k]
    <3> TAKE k \in 1..n
    <3>1. L + k \in 1..(L + n) /\ ~(L + k <= L) /\ (L + k) - L = k
      BY <2>1
    <3> QED
      BY <2>1, <2>2, <3>1
  <2> QED
    BY <2>1, <2>2, <2>3, <2>4
<1>4. \A i \in 1..m : \A k \in 1..n : f[(i - 1) * n + k] = s[i][k]
  BY DEF Pieces
<1> HIDE DEF m, t, g
<1>5. L + n = (m + 1) * n /\ ((m + 1) - 1) * n = L
  BY <1>1
<1>6. ASSUME NEW i \in 1..m, NEW k \in 1..n
      PROVE  (i - 1) * n + k \in 1..L
  <2>1. i - 1 \in Nat /\ m - i \in Nat /\ m = ((i - 1) + 1) + (m - i)
    BY <1>1
  <2>2. \A a, b \in Nat : ((a + 1) + b) * n = (a * n + n) + b * n /\ a * n \in Nat /\ b * n \in Nat
    OBVIOUS
  <2>3. L = ((i - 1) * n + n) + (m - i) * n /\ (i - 1) * n \in Nat /\ (m - i) * n \in Nat
    BY <2>1, <2>2
  <2> DEFINE p == (i - 1) * n
             q == (m - i) * n
  <2>4. p \in Nat /\ q \in Nat /\ L = (p + n) + q /\ L \in Nat
    BY <1>1, <2>3
  <2> HIDE DEF p, q, L
  <2>5. p + k \in 1..L
    BY ONLY <2>4, n \in Nat, k \in 1..n
  <2> QED
    BY <2>5 DEF p
<1>7. ASSUME NEW i \in 1..(m + 1), NEW k \in 1..n
      PROVE  g[(i - 1) * n + k] = t[i][k]
  <2>1. CASE i = m + 1
    <3> HIDE DEF L
    <3>1. (i - 1) * n = L
      BY <1>5, <2>1
    <3>2. g[L + k] = u[k] /\ t[i] = u
      BY <1>2, <1>3, <2>1
    <3> QED
      BY <3>1, <3>2
  <2>2. CASE i \in 1..m
    <3>1. (i - 1) * n + k \in 1..L
      BY <1>6, <2>2
    <3>2. g[(i - 1) * n + k] = f[(i - 1) * n + k]
      BY <1>3, <3>1
    <3>3. f[(i - 1) * n + k] = s[i][k] /\ t[i] = s[i]
      BY <1>2, <1>4, <2>2
    <3> QED
      BY <3>2, <3>3
  <2> QED
    BY <1>1, <2>1, <2>2
<1>8. Len(g) = Len(t) * n /\ \A i \in 1..Len(t) : \A k \in 1..n : g[(i - 1) * n + k] = t[i][k]
  BY <1>2, <1>3, <1>5, <1>7
<1> QED
  BY <1>8 DEF Pieces, g, t

LEMMA FlattenPieces ==
  ASSUME NEW X, NEW s \in Seq(Seq(X)), NEW n \in Nat, \A i \in 1..Len(s) : Len(s[i]) = n
  PROVE  Pieces(s, n, Flattening(s))
<1> DEFINE front(m) == SubSeq(s, 1, m)
           P == {m \in 0..Len(s) : Pieces(front(m), n, Flattening(front(m)))}
<1>1. Len(s) \in Nat /\ front(0) = <<>> /\ front(Len(s)) = s
  BY PrefixEnds
<1>2. \A m \in 0..(Len(s) - 1) :
         front(m) \in Seq(Seq(X)) /\ s[m + 1] \in Seq(X) /\ front(m + 1) = Append(front(m), s[m + 1])
  BY PrefixStep, Zenon
<1> HIDE DEF front
<1>3. 0 \in P
  <2>1. Pieces(<<>>, n, <<>>)
    BY DEF Pieces
  <2>2. 0 \in 0..Len(s)
    BY <1>1
  <2> QED
    BY <1>1, <2>1, <2>2, FlattenEmpty
<1>4. ASSUME NEW m \in 0..(Len(s) - 1), m \in P
      PROVE  m + 1 \in P
  <2> DEFINE r == front(m)
             u == s[m + 1]
  <2>1. r \in Seq(Seq(X)) /\ u \in Seq(X) /\ front(m + 1) = Append(r, u)
    BY <1>2
  <2>2. Len(u) = n /\ m + 1 \in 0..Len(s)
    BY <1>1
  <2>3. Pieces(r, n, Flattening(r))
    BY <1>4
  <2> HIDE DEF r, u
  <2>4. Flattening(r) \in Seq(X)
    BY <2>1, FlattenType, Zenon
  <2>5. Flattening(Append(r, u)) = Flattening(r) \o u
    BY <2>1, FlattenAppend, Zenon
  <2>6. Pieces(Append(r, u), n, Flattening(r) \o u)
    BY ONLY n \in Nat, <2>1, <2>2, <2>3, <2>4, PieceStep
  <2> QED
    BY <2>1, <2>2, <2>5, <2>6
<1> HIDE DEF P
<1>5. 0..Len(s) \subseteq P
  BY <1>1, <1>3, <1>4, UpTo
<1>6. Len(s) \in 0..Len(s)
  BY <1>1
<1> QED
  BY <1>1, <1>5, <1>6 DEF P
-----------------------------------------------------------------------------
(* Where an entry of a sequence comes when the greatest is the first.       *)

Before(id, m) == {k \in DOMAIN id : id[k] > id[m] \/ (id[k] = id[m] /\ k < m)}
Place(id, m)  == 1 + Cardinality(Before(id, m))

LEMMA PlaceOrder ==
  ASSUME NEW N \in Nat, NEW id \in [1..N -> Int],
         NEW m \in 1..N
  PROVE  /\ Place(id, m) \in 1..N
         /\ \A k \in Before(id, m) : Place(id, k) < Place(id, m)
<1>1. \A n \in 1..N : /\ Before(id, n) \in SUBSET ((1..N) \ {n})
                      /\ Place(id, n) = 1 + Cardinality(Before(id, n))
  BY DEF Before, Place
<1>2. IsFiniteSet((1..N) \ {m}) /\ Cardinality((1..N) \ {m}) = N - 1
  <2>1. IsFiniteSet(1..N) /\ Cardinality(1..N) = N
    BY FS_Interval
  <2>2. /\ IsFiniteSet((1..N) \ {m})
        /\ Cardinality((1..N) \ {m}) = Cardinality(1..N) - 1
    BY <2>1, FS_RemoveElement
  <2> QED
    BY <2>1, <2>2
<1>3. /\ IsFiniteSet(Before(id, m)) /\ Cardinality(Before(id, m)) \in Nat
      /\ Cardinality(Before(id, m)) <= N - 1
  BY <1>1, <1>2, FS_Subset, FS_CardinalityType
<1>4. ASSUME NEW k \in Before(id, m)
      PROVE  Place(id, k) < Place(id, m)
  <2>1. k \in 1..N /\ k \notin Before(id, k)
    BY <1>1, <1>4
  <2>2. Before(id, k) \cup {k} \in SUBSET Before(id, m)
    BY <1>4, <2>1 DEF Before
  <2>3. /\ IsFiniteSet(Before(id, k) \cup {k})
        /\ Cardinality(Before(id, k) \cup {k}) <= Cardinality(Before(id, m))
    BY <1>3, <2>2, FS_Subset
  <2>4. IsFiniteSet(Before(id, k))
    BY <1>3, <2>2, FS_Subset
  <2>5. /\ Cardinality(Before(id, k)) \in Nat
        /\ Cardinality(Before(id, k) \cup {k}) = Cardinality(Before(id, k)) + 1
    BY <2>1, <2>4, FS_AddElement, FS_CardinalityType
  <2> QED
    BY <1>1, <1>3, <2>1, <2>3, <2>5
<1> QED
  BY <1>1, <1>3, <1>4

LEMMA PlaceOnto ==
  ASSUME NEW N \in Nat, NEW id \in [1..N -> Int],
         NEW n \in 1..N
  PROVE  \E m \in 1..N : Place(id, m) = n
<1> DEFINE f == [m \in 1..N |-> Place(id, m)]
<1>1. f \in [1..N -> 1..N]
  BY PlaceOrder
<1>2. ASSUME NEW j \in 1..N, NEW k \in 1..N, f[j] = f[k]
      PROVE  j = k
  <2>1. Place(id, j) = Place(id, k) /\ Place(id, j) \in Int
    BY <1>2, PlaceOrder
  <2>2. j \notin Before(id, k) /\ k \notin Before(id, j)
    BY <2>1, PlaceOrder
  <2> QED
    BY <1>2, <2>2 DEF Before
<1>3. f \in Injection(1..N, 1..N)
  <2> HIDE DEF f
  <2> QED
    BY <1>1, <1>2 DEF Injection, IsInjective
<1>4. f \in Surjection(1..N, 1..N)
  <2> HIDE DEF f
  <2> QED
    BY <1>3, FS_Injection, FS_Interval
<1>5. PICK m \in 1..N : f[m] = n
  <2> HIDE DEF f
  <2> QED
    BY <1>4 DEF Surjection
<1> QED
  BY <1>5
-----------------------------------------------------------------------------
(* The greatest element, quotients, and pieces of one length.               *)

LEMMA MaxFacts ==
  ASSUME NEW S, IsFiniteSet(S), S \subseteq Int, S # {}
  PROVE  Max(S) \in S /\ \A k \in S : k <= Max(S)
<1>1. PICK m \in S : \A k \in S : m >= k
  BY GreatestNumber
<1> QED
  BY <1>1 DEF Max

LEMMA MaxIs ==
  ASSUME NEW S, S \subseteq Int, NEW m \in S, \A k \in S : k <= m
  PROVE  Max(S) = m
<1>1. \E x \in S : \A k \in S : x >= k
  OBVIOUS
<1>2. Max(S) \in S /\ \A k \in S : Max(S) >= k
  BY <1>1 DEF Max
<1>3. Max(S) \in Int /\ m \in Int /\ Max(S) >= m /\ Max(S) <= m
  BY <1>2
<1> QED
  BY <1>3

LEMMA QuotientOfSum ==
  ASSUME NEW B \in Nat, B > 0, NEW q \in Nat, NEW r \in 0..(B - 1)
  PROVE  (q * B + r) \div B = q /\ ((q * B + r) % B) = r
<1> DEFINE x == q * B + r
           p == x \div B
           s == x % B
<1>1. q * B \in Nat
  OBVIOUS
<1>2. x \in Nat
  BY <1>1
<1>3. p \in Int /\ s \in 0..(B - 1) /\ x = B * p + s
  <2> HIDE DEF x
  <2> QED
    BY <1>2
<1> HIDE DEF p, s
<1>4. B * p + s = B * q + r
  <2>1. q * B = B * q
    OBVIOUS
  <2> QED
    BY <1>3, <2>1
<1>5. ASSUME p > q
      PROVE  FALSE
  <2>1. B * p = B * q + B + B * (p - q - 1) /\ p - q - 1 \in Nat
    BY <1>3, <1>5
  <2>2. B * (p - q - 1) \in Nat /\ B * q \in Nat
    BY <2>1
  <2> QED
    BY <1>3, <1>4, <2>1, <2>2
<1>6. ASSUME p < q
      PROVE  FALSE
  <2>1. B * q = B * p + B + B * (q - p - 1) /\ q - p - 1 \in Nat
    BY <1>3, <1>6
  <2>2. B * (q - p - 1) \in Nat /\ B * p \in Int
    BY <1>3, <2>1
  <2> QED
    BY <1>3, <1>4, <2>1, <2>2
<1>7. p = q
  BY <1>3, <1>5, <1>6
<1>8. s = r
  <2>1. B * q \in Int /\ B * q + s = B * q + r
    BY <1>4, <1>7
  <2> QED
    BY <1>3, <2>1
<1> QED
  BY <1>7, <1>8 DEF p, s

LEMMA Multiple ==
  ASSUME NEW L \in Nat, L > 0, NEW c \in Nat
  PROVE  ((c * L) % L) = 0 /\ (c * L) \div L = c
<1>1. 0 \in 0..(L - 1) /\ c * L \in Nat
  OBVIOUS
<1>2. (c * L + 0) \div L = c /\ ((c * L + 0) % L) = 0
  BY <1>1, QuotientOfSum
<1>3. c * L + 0 = c * L
  BY <1>1
<1> QED
  BY <1>2, <1>3

LEMMA QuotientBelow ==
  ASSUME NEW C \in Nat, NEW B \in Nat, B > 0, NEW x \in Nat, x < C * B
  PROVE  x \div B \in 0..(C - 1)
<1> DEFINE q == x \div B
           r == x % B
<1>1. q \in Nat /\ r \in 0..(B - 1) /\ x = B * q + r
  OBVIOUS
<1> HIDE DEF q, r
<1>2. ASSUME q >= C
      PROVE  FALSE
  <2>1. B * q = C * B + B * (q - C) /\ q - C \in Nat
    BY <1>1, <1>2
  <2>2. B * (q - C) \in Nat
    BY <2>1
  <2> QED
    BY <1>1, <2>1, <2>2
<1> QED
  BY <1>1, <1>2 DEF q

LEMMA PacketPlace ==
  ASSUME NEW L \in Nat, L > 0, NEW c \in Nat, NEW p \in 1..c
  PROVE  /\ (p - 1) * L + 1 \in 1..(c * L)
         /\ p * L \in 1..(c * L)
         /\ (p - 1) * L + 1 <= p * L
         /\ p * L - ((p - 1) * L + 1) + 1 = L
<1>1. p * L = (p - 1) * L + L /\ c * L = p * L + (c - p) * L
  OBVIOUS
<1>2. (p - 1) * L \in Nat /\ (c - p) * L \in Nat /\ p * L \in Nat
  <2>1. \A a \in Nat : a * L \in Nat
    OBVIOUS
  <2>2. p - 1 \in Nat /\ c - p \in Nat /\ p \in Nat
    OBVIOUS
  <2> QED
    BY <2>1, <2>2
<1> QED
  BY <1>1, <1>2
-----------------------------------------------------------------------------
(* Powers of two.                                                           *)

\* Sets between which there is a bijection have one size.
LEMMA SameSize ==
  ASSUME NEW S, NEW T, IsFiniteSet(S), NEW f \in [S -> T],
         \A x, y \in S : f[x] = f[y] => x = y, \A t \in T : \E x \in S : f[x] = t
  PROVE  IsFiniteSet(T) /\ Cardinality(T) = Cardinality(S)
<1>1. f \in Bijection(S, T)
  BY DEF Bijection, Injection, Surjection, IsInjective
<1> QED
  BY <1>1, FS_Bijection DEF ExistsBijection

LEMMA PowerType ==
  ASSUME NEW n \in Nat
  PROVE  2 ^ n \in Nat /\ Cardinality(SUBSET (1..n)) = 2 ^ n
<1>1. IsFiniteSet(1..n) /\ Cardinality(1..n) = n
  BY FS_Interval
<1>2. IsFiniteSet(SUBSET (1..n)) /\ Cardinality(SUBSET (1..n)) = 2 ^ Cardinality(1..n)
  BY <1>1, FS_SUBSET
<1>3. Cardinality(SUBSET (1..n)) \in Nat
  BY <1>2, FS_CardinalityType
<1> QED
  BY <1>1, <1>2, <1>3

\* A set of subsets of 1 .. n + 1 is one of 1 .. n, with n + 1 or without it.
LEMMA PowerDoubles ==
  ASSUME NEW n \in Nat
  PROVE  2 ^ (n + 1) = 2 ^ n + 2 ^ n
<1> DEFINE A == SUBSET (1..n)
           f == [s \in A |-> s \cup {n + 1}]
           B == {f[s] : s \in A}
<1>1. SUBSET (1..(n + 1)) = A \cup B
  <2>1. 1..(n + 1) = (1..n) \cup {n + 1}
    OBVIOUS
  <2>2. ASSUME NEW t \in SUBSET (1..(n + 1))
        PROVE  t \in A \cup B
    <3>1. CASE n + 1 \in t
      <4>1. t \ {n + 1} \in A /\ f[t \ {n + 1}] = t
        BY <2>1, <3>1
      <4> QED
        BY <4>1
    <3>2. CASE n + 1 \notin t
      BY <2>1, <3>2
    <3> QED
      BY <3>1, <3>2
  <2>3. A \cup B \subseteq SUBSET (1..(n + 1))
    BY <2>1
  <2> QED
    BY <2>2, <2>3
<1>2. A \cap B = {}
  <2>1. n + 1 \notin 1..n
    OBVIOUS
  <2> QED
    BY <2>1
<1>3. IsFiniteSet(A)
  <2>1. IsFiniteSet(1..n)
    BY FS_Interval
  <2> QED
    BY <2>1, FS_SUBSET
<1>4. f \in [A -> B] /\ (\A s, t \in A : f[s] = f[t] => s = t) /\ \A b \in B : \E s \in A : f[s] = b
  <2>1. n + 1 \notin 1..n
    OBVIOUS
  <2>2. \A s \in A : f[s] \ {n + 1} = s
    BY <2>1
  <2> QED
    BY <2>2
<1> HIDE DEF A, B, f
<1>5. IsFiniteSet(B) /\ Cardinality(B) = Cardinality(A)
  BY <1>3, <1>4, SameSize
<1>6. Cardinality(A \cup B) = Cardinality(A) + Cardinality(B)
  <2>1. Cardinality(A \cup B) = Cardinality(A) + Cardinality(B) - Cardinality(A \cap B)
    BY <1>3, <1>5, FS_Union
  <2>2. Cardinality(A \cap B) = 0
    BY <1>2, FS_EmptySet
  <2>3. Cardinality(A) \in Nat
    BY <1>3, FS_CardinalityType
  <2> DEFINE a == Cardinality(A)
             b == Cardinality(B)
             c == Cardinality(A \cap B)
             u == Cardinality(A \cup B)
  <2>4. u = a + b - c /\ c = 0 /\ a \in Nat /\ b = a
    BY <1>5, <2>1, <2>2, <2>3
  <2> HIDE DEF a, b, c, u
  <2>5. u = a + b
    BY <2>4
  <2> QED
    BY <2>5 DEF a, b, u
<1>7. Cardinality(A) = 2 ^ n /\ Cardinality(SUBSET (1..(n + 1))) = 2 ^ (n + 1)
  <2>1. n + 1 \in Nat
    OBVIOUS
  <2> QED
    BY <2>1, PowerType DEF A
<1> QED
  BY <1>1, <1>5, <1>6, <1>7

LEMMA PowerGrows ==
  ASSUME NEW n \in Nat
  PROVE  2 ^ n > n
<1> DEFINE P == {m \in 0..n : 2 ^ m > m}
<1>1. 0 \in P
  <2>1. 2 ^ 0 = 1
    OBVIOUS
  <2> QED
    BY <2>1
<1>2. ASSUME NEW m \in 0..(n - 1), m \in P
      PROVE  m + 1 \in P
  <2>1. m \in Nat /\ 2 ^ m \in Nat /\ 2 ^ (m + 1) = 2 ^ m + 2 ^ m /\ 2 ^ m > m
    BY <1>2, PowerType, PowerDoubles
  <2> DEFINE p == 2 ^ m
             q == 2 ^ (m + 1)
  <2> HIDE DEF p, q
  <2>2. q > m + 1
    BY <2>1 DEF p, q
  <2> QED
    BY <2>2 DEF q
<1> HIDE DEF P
<1>3. 0..n \subseteq P
  BY <1>1, <1>2, UpTo
<1> QED
  BY <1>3 DEF P

LEMMA PowerOrder ==
  ASSUME NEW m \in Nat, NEW n \in Nat, m < n
  PROVE  2 ^ m < 2 ^ n
<1> DEFINE P == {k \in 0..n : m < k => 2 ^ m < 2 ^ k}
<1>1. 0 \in P
  OBVIOUS
<1>2. ASSUME NEW k \in 0..(n - 1), k \in P
      PROVE  k + 1 \in P
  <2> DEFINE p == 2 ^ k
             q == 2 ^ (k + 1)
             r == 2 ^ m
  <2>1. k \in Nat /\ p \in Nat /\ q = p + p /\ p > k /\ r \in Nat
    BY PowerType, PowerDoubles, PowerGrows
  <2>2. m < k => r < p
    BY <1>2
  <2>3. m = k => r = p
    OBVIOUS
  <2> HIDE DEF p, q, r
  <2>4. m < k + 1 => r < q
    BY <2>1, <2>2, <2>3
  <2> QED
    BY <2>4 DEF q, r
<1> HIDE DEF P
<1>3. 0..n \subseteq P
  BY <1>1, <1>2, UpTo
<1> QED
  BY <1>3 DEF P

\* The values of a function on a finite set.
LEMMA ImageSize ==
  ASSUME NEW S, IsFiniteSet(S), NEW f
  PROVE  /\ IsFiniteSet({f[x] : x \in S})
         /\ Cardinality({f[x] : x \in S}) <= Cardinality(S)
<1> DEFINE T == {f[x] : x \in S}
           g == [x \in S |-> f[x]]
<1>1. g \in Surjection(S, T)
  BY DEF Surjection
<1> HIDE DEF T, g
<1>2. IsFiniteSet(T) /\ Cardinality(T) <= Cardinality(S)
  BY <1>1, FS_Surjection
<1> QED
  BY <1>2 DEF T
=============================================================================
