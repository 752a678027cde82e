-------------------------- MODULE SimulationProofs --------------------------
(***************************************************************************)
(* That a simulation ends, and with all its results; that the digest of an *)
(* elliptic database is that of its rows; and what a client makes of an    *)
(* answer, honest or not, in all three schemes: for any configurations,    *)
(* databases, draws, moduli and numbers of goroutines.  Before that, what  *)
(* the loops of matrix.c compute for any dimensions, and what is left of a *)
(* query when the secret is taken out of it.                               *)
(***************************************************************************)
EXTENDS Simulation, DataTheorems

IsMatrix(m, r, c, S) == m.rows = r /\ m.cols = c /\ m.data \in [1..(r * c) -> S]
Bits == {0, 1}
-----------------------------------------------------------------------------
(* Matrices: an entry of a product is a sum of products.                    *)

LEMMA WholeSeq ==
  ASSUME NEW n \in Nat, NEW S, NEW f \in [1..n -> S]
  PROVE  SubSeq(f, 1, n) = f /\ f \in Seq(S) /\ Len(f) = n
OBVIOUS

LEMMA Position ==
  ASSUME NEW r \in Nat, NEW c \in Nat, NEW i \in 0..(r - 1), NEW j \in 0..(c - 1)
  PROVE  /\ c * i + j + 1 \in 1..(r * c)
         /\ ((c * i + j + 1) - 1) \div c = i
         /\ ((c * i + j + 1) - 1) % c = j
<1>1. c > 0 /\ i \in Nat /\ j \in Nat /\ j < c /\ (r - 1) - i \in Nat /\ r = (i + 1) + ((r - 1) - i)
  OBVIOUS
<1> DEFINE p == c * i
           q == c * ((r - 1) - i)
<1>2. p \in Nat /\ q \in Nat /\ r * c = (p + c) + q
  <2>1. \A a, b \in Nat : ((a + 1) + b) * c = (c * a + c) + c * b /\ c * a \in Nat
    OBVIOUS
  <2> QED
    BY <1>1, <2>1
<1> HIDE DEF q
<1>3. (p + j + 1) - 1 = i * c + j
  BY <1>1, <1>2
<1>4. (i * c + j) % c = j
  BY <1>1, UniqueRemainder
<1>5. (i * c + j) \div c = i
  <2> DEFINE d == (i * c + j) \div c
  <2>1. d \in Int /\ i * c + j = c * d + ((i * c + j) % c)
    BY <1>1
  <2>2. c * i = c * d
    BY <1>1, <1>4, <2>1
  <2> HIDE DEF d
  <2>3. i = d
    BY <1>1, <2>1, <2>2
  <2> QED
    BY <2>3 DEF d
<1>6. p + j + 1 \in 1..(r * c)
  <2> HIDE DEF p
  <2> QED
    BY <1>1, <1>2
<1> QED
  BY <1>3, <1>4, <1>5, <1>6

LEMMA SumOverIs ==
  ASSUME NEW f
  PROVE  SumOver(f) = SumOf(f, DOMAIN f)
BY DEF SumOver, SumOf, MapThenSumSet, MapThenFoldSet

\* The summands of an entry of a product.
Products(a, b, i, j) == [k \in 0..(a.cols - 1) |-> Get(a, i, k) * Get(b, k, j)]
MaskedProducts(a, b, i, j) == [k \in 0..(a.cols - 1) |-> Masked(Get(a, i, k), Get(b, k, j))]

LEMMA EntryOf ==
  ASSUME NEW r \in Nat, NEW c \in Nat, NEW S, NEW m, IsMatrix(m, r, c, S),
         NEW i \in 0..(r - 1), NEW j \in 0..(c - 1)
  PROVE  Get(m, i, j) \in S
<1>1. c * i + j + 1 \in 1..(r * c)
  BY Position
<1> QED
  BY <1>1 DEF IsMatrix, Get

LEMMA PositionOf ==
  ASSUME NEW r \in Nat, NEW c \in Nat, NEW x \in 1..(r * c)
  PROVE  /\ (x - 1) \div c \in 0..(r - 1)
         /\ (x - 1) % c \in 0..(c - 1)
<1>1. c > 0 /\ x - 1 \in Nat /\ r * c \in Nat /\ x <= r * c
  <2>1. c # 0
    BY r * 0 = 0
  <2> QED
    BY <2>1
<1> DEFINE i == (x - 1) \div c
           j == (x - 1) % c
<1>2. i \in Int /\ j \in 0..(c - 1) /\ x - 1 = c * i + j
  BY <1>1
<1> HIDE DEF i, j
<1>3. i >= 0
  <2> SUFFICES ASSUME i < 0 PROVE FALSE
    BY <1>2
  <2>1. -i - 1 \in Nat /\ i = -1 - (-i - 1)
    BY <1>2
  <2>2. \A a \in Nat : c * (-1 - a) = -c - c * a /\ c * a \in Nat
    OBVIOUS
  <2>3. c * i = -c - c * (-i - 1) /\ c * (-i - 1) \in Nat
    BY <2>1, <2>2
  <2> DEFINE y == c * i
             z == c * (-i - 1)
  <2> HIDE DEF y, z
  <2>4. y = -c - z /\ z \in Nat /\ x - 1 = y + j
    BY <1>2, <2>3 DEF y, z
  <2> QED
    BY <1>1, <1>2, <2>4
<1>4. i < r
  <2> SUFFICES ASSUME i >= r PROVE FALSE
    BY <1>2
  <2>1. i - r \in Nat /\ i = r + (i - r)
    BY <1>2
  <2>2. \A a \in Nat : c * (r + a) = r * c + c * a /\ c * a \in Nat
    OBVIOUS
  <2>3. c * i = r * c + c * (i - r) /\ c * (i - r) \in Nat
    BY <2>1, <2>2
  <2> DEFINE y == c * i
             z == c * (i - r)
             w == r * c
  <2> HIDE DEF y, z, w
  <2>4. y = w + z /\ z \in Nat /\ x - 1 = y + j /\ x <= w /\ w \in Nat
    BY <1>1, <1>2, <2>3 DEF y, z, w
  <2> QED
    BY <1>1, <1>2, <2>4
<1> QED
  BY <1>2, <1>3, <1>4 DEF i, j

LEMMA Reduced ==
  ASSUME NEW x \in Int
  PROVE  x % Q \in Word
BY MatrixAssumption, Division DEF Word

LEMMA ProductsType ==
  ASSUME NEW r \in Nat, NEW n \in Nat, NEW c \in Nat,
         NEW a, NEW b, IsMatrix(a, r, n, Int), IsMatrix(b, n, c, Int),
         NEW i \in 0..(r - 1), NEW j \in 0..(c - 1)
  PROVE  /\ Products(a, b, i, j) \in [0..(n - 1) -> Int]
         /\ SumOf(Products(a, b, i, j), 0..(n - 1)) \in Int
<1>1. \A k \in 0..(n - 1) : Get(a, i, k) \in Int /\ Get(b, k, j) \in Int
  BY EntryOf
<1>2. Products(a, b, i, j) \in [0..(n - 1) -> Int]
  BY <1>1 DEF Products, IsMatrix
<1>3. IsFiniteSet(0..(n - 1)) /\ 0..(n - 1) \in SUBSET (0..(n - 1))
  BY FS_Interval
<1>4. SumOf(Products(a, b, i, j), 0..(n - 1)) \in Int
  BY <1>2, <1>3, SumOfFacts
<1> QED
  BY <1>2, <1>4

LEMMA multiplyIs ==
  ASSUME NEW r \in Nat, NEW n \in Nat, NEW c \in Nat,
         NEW a, NEW b, IsMatrix(a, r, n, Int), IsMatrix(b, n, c, Int),
         NEW e, e = multiply(a.rows, a.cols, b.cols, a.data, b.data)
  PROVE  /\ e \in [1..(r * c) -> Word]
         /\ \A i \in 0..(r - 1), j \in 0..(c - 1) :
              e[c * i + j + 1] = SumOf(Products(a, b, i, j), 0..(n - 1)) % Q
<1> DEFINE f(x) == SumOf(Products(a, b, (x - 1) \div c, (x - 1) % c), 0..(n - 1)) % Q
           g    == [x \in 1..(r * c) |-> f(x)]
<1>1. r * c \in Nat
  OBVIOUS
<1>2. a.rows = r /\ a.cols = n /\ b.cols = c
  BY DEF IsMatrix
<1>3. e = SubSeq(g, 1, r * c)
  BY <1>2, SumOverIs DEF multiply, Entries, Products, Get
<1>4. ASSUME NEW x \in 1..(r * c)
      PROVE  f(x) \in Word
  <2> DEFINE i == (x - 1) \div c
             j == (x - 1) % c
  <2>1. i \in 0..(r - 1) /\ j \in 0..(c - 1)
    BY PositionOf
  <2> HIDE DEF i, j
  <2>2. SumOf(Products(a, b, i, j), 0..(n - 1)) \in Int
    BY <2>1, ProductsType
  <2>3. SumOf(Products(a, b, i, j), 0..(n - 1)) % Q \in Word
    BY <2>2, Reduced
  <2> QED
    BY <2>3 DEF i, j
<1>5. g \in [1..(r * c) -> Word]
  BY <1>4
<1> HIDE DEF g
<1>6. e = g
  BY ONLY <1>1, <1>3, <1>5, WholeSeq
<1>7. ASSUME NEW i \in 0..(r - 1), NEW j \in 0..(c - 1)
      PROVE  g[c * i + j + 1] = SumOf(Products(a, b, i, j), 0..(n - 1)) % Q
  <2> DEFINE x == c * i + j + 1
  <2>1. x \in 1..(r * c) /\ (x - 1) \div c = i /\ (x - 1) % c = j
    BY Position
  <2> HIDE DEF x
  <2>2. g[x] = f(x)
    BY <2>1 DEF g
  <2> QED
    BY <2>1, <2>2 DEF x
<1> QED
  BY <1>5, <1>6, <1>7

LEMMA MaskedIs ==
  ASSUME NEW r \in Nat, NEW n \in Nat, NEW c \in Nat,
         NEW a, NEW b, IsMatrix(a, r, n, Int), IsMatrix(b, n, c, Bits),
         NEW i \in 0..(r - 1), NEW j \in 0..(c - 1)
  PROVE  MaskedProducts(a, b, i, j) = Products(a, b, i, j)
<1>1. ASSUME NEW k \in 0..(n - 1)
      PROVE  Masked(Get(a, i, k), Get(b, k, j)) = Get(a, i, k) * Get(b, k, j)
  <2>1. Get(a, i, k) \in Int /\ Get(b, k, j) \in Bits
    BY EntryOf
  <2> QED
    BY <2>1 DEF Masked, Bits
<1> QED
  BY <1>1 DEF MaskedProducts, Products, IsMatrix

LEMMA BitsAreInt ==
  ASSUME NEW m, NEW r, NEW c, IsMatrix(m, r, c, Bits)
  PROVE  IsMatrix(m, r, c, Int)
BY DEF IsMatrix, Bits

LEMMA WordsAreInt ==
  ASSUME NEW m, NEW r, NEW c, IsMatrix(m, r, c, Word)
  PROVE  IsMatrix(m, r, c, Int)
BY MatrixAssumption DEF IsMatrix, Word

LEMMA binary_multiplyIs ==
  ASSUME NEW r \in Nat, NEW n \in Nat, NEW c \in Nat,
         NEW a, NEW b, IsMatrix(a, r, n, Int), IsMatrix(b, n, c, Bits),
         NEW e, e = binary_multiply(a.rows, a.cols, b.cols, a.data, b.data)
  PROVE  /\ e \in [1..(r * c) -> Word]
         /\ \A i \in 0..(r - 1), j \in 0..(c - 1) :
              e[c * i + j + 1] = SumOf(Products(a, b, i, j), 0..(n - 1)) % Q
<1> DEFINE f(x) == SumOf(MaskedProducts(a, b, (x - 1) \div c, (x - 1) % c), 0..(n - 1)) % Q
           g    == [x \in 1..(r * c) |-> f(x)]
<1>1. r * c \in Nat
  OBVIOUS
<1>2. a.rows = r /\ a.cols = n /\ b.cols = c /\ IsMatrix(b, n, c, Int)
  BY BitsAreInt DEF IsMatrix
<1>3. e = SubSeq(g, 1, r * c)
  BY <1>2, SumOverIs DEF binary_multiply, Entries, MaskedProducts, Get
<1>4. ASSUME NEW x \in 1..(r * c)
      PROVE  /\ f(x) = SumOf(Products(a, b, (x - 1) \div c, (x - 1) % c), 0..(n - 1)) % Q
             /\ f(x) \in Word
  <2> DEFINE i == (x - 1) \div c
             j == (x - 1) % c
  <2>1. i \in 0..(r - 1) /\ j \in 0..(c - 1)
    BY PositionOf
  <2> HIDE DEF i, j
  <2>2. MaskedProducts(a, b, i, j) = Products(a, b, i, j)
    BY <2>1, MaskedIs
  <2>3. SumOf(Products(a, b, i, j), 0..(n - 1)) % Q \in Word
    BY <1>2, <2>1, ProductsType, Reduced
  <2> QED
    BY <2>2, <2>3 DEF i, j
<1>5. g \in [1..(r * c) -> Word]
  BY <1>4
<1> HIDE DEF g
<1>6. e = g
  BY ONLY <1>1, <1>3, <1>5, WholeSeq
<1>7. ASSUME NEW i \in 0..(r - 1), NEW j \in 0..(c - 1)
      PROVE  g[c * i + j + 1] = SumOf(Products(a, b, i, j), 0..(n - 1)) % Q
  <2> DEFINE x == c * i + j + 1
  <2>1. x \in 1..(r * c) /\ (x - 1) \div c = i /\ (x - 1) % c = j
    BY Position
  <2> HIDE DEF x
  <2>2. g[x] = f(x)
    BY <2>1 DEF g
  <2> QED
    BY <1>4, <2>1, <2>2 DEF x
<1> QED
  BY <1>5, <1>6, <1>7

\* Matrix m is the product of a and b.
IsProduct(m, a, b, r, n, c) ==
  /\ IsMatrix(m, r, c, Word)
  /\ \A i \in 0..(r - 1), j \in 0..(c - 1) :
       Get(m, i, j) = SumOf(Products(a, b, i, j), 0..(n - 1)) % Q

LEMMA ProductOf ==
  ASSUME NEW r \in Nat, NEW n \in Nat, NEW c \in Nat, NEW a, NEW b,
         NEW m, m.rows = r, m.cols = c, m.data \in [1..(r * c) -> Word],
         \A i \in 0..(r - 1), j \in 0..(c - 1) :
           m.data[c * i + j + 1] = SumOf(Products(a, b, i, j), 0..(n - 1)) % Q
  PROVE  IsProduct(m, a, b, r, n, c)
BY DEF IsProduct, IsMatrix, Get

LEMMA MulIs ==
  ASSUME NEW r \in Nat, NEW n \in Nat, NEW c \in Nat,
         NEW a, NEW b, IsMatrix(a, r, n, Int), IsMatrix(b, n, c, Int)
  PROVE  IsProduct(Mul(a, b), a, b, r, n, c) /\ IsProduct(Mul128(a, b), a, b, r, n, c)
<1> DEFINE e == multiply(a.rows, a.cols, b.cols, a.data, b.data)
<1>1. /\ e \in [1..(r * c) -> Word]
      /\ \A i \in 0..(r - 1), j \in 0..(c - 1) :
           e[c * i + j + 1] = SumOf(Products(a, b, i, j), 0..(n - 1)) % Q
  BY multiplyIs
<1>2. a.rows = r /\ b.cols = c
  BY DEF IsMatrix
<1> HIDE DEF e
<1>3. Mul(a, b).rows = r /\ Mul(a, b).cols = c /\ Mul(a, b).data = e
  BY <1>2 DEF Mul, New, e
<1>4. Mul128(a, b).rows = r /\ Mul128(a, b).cols = c /\ Mul128(a, b).data = e
  BY <1>2 DEF Mul128, New128, e
<1>5. IsProduct(Mul(a, b), a, b, r, n, c)
  BY <1>1, <1>3, ProductOf, ZenonT(40)
<1>6. IsProduct(Mul128(a, b), a, b, r, n, c)
  BY <1>1, <1>4, ProductOf, ZenonT(40)
<1> QED
  BY <1>5, <1>6

LEMMA BinaryMulIs ==
  ASSUME NEW r \in Nat, NEW n \in Nat, NEW c \in Nat,
         NEW a, NEW b, IsMatrix(a, r, n, Int), IsMatrix(b, n, c, Bits)
  PROVE  IsProduct(BinaryMul(a, b), a, b, r, n, c) /\ IsProduct(BinaryMul128(a, b), a, b, r, n, c)
<1> DEFINE e == binary_multiply(a.rows, a.cols, b.cols, a.data, b.data)
<1>1. /\ e \in [1..(r * c) -> Word]
      /\ \A i \in 0..(r - 1), j \in 0..(c - 1) :
           e[c * i + j + 1] = SumOf(Products(a, b, i, j), 0..(n - 1)) % Q
  BY binary_multiplyIs
<1>2. a.rows = r /\ b.cols = c
  BY DEF IsMatrix
<1> HIDE DEF e
<1>3. BinaryMul(a, b).rows = r /\ BinaryMul(a, b).cols = c /\ BinaryMul(a, b).data = e
  BY <1>2 DEF BinaryMul, New, e
<1>4. BinaryMul128(a, b).rows = r /\ BinaryMul128(a, b).cols = c /\ BinaryMul128(a, b).data = e
  BY <1>2 DEF BinaryMul128, New128, e
<1>5. IsProduct(BinaryMul(a, b), a, b, r, n, c)
  BY <1>1, <1>3, ProductOf, ZenonT(40)
<1>6. IsProduct(BinaryMul128(a, b), a, b, r, n, c)
  BY <1>1, <1>4, ProductOf, ZenonT(40)
<1> QED
  BY <1>5, <1>6
-----------------------------------------------------------------------------
(* What is left of an answer when the digest is taken away from it.         *)

LEMMA SumOfScaled ==
  ASSUME NEW T, IsFiniteSet(T), NEW g \in [T -> Int], NEW p \in Int,
         NEW h \in [T -> Int], \A x \in T : h[x] = p * g[x]
  PROVE  SumOf(h, T) = p * SumOf(g, T)
<1> DEFINE z == [x \in T |-> 0]
<1>1. z \in [T -> Int] /\ \A x \in T : z[x] = 0
  OBVIOUS
<1>2. SumOf(z, T) = 0
  <2> HIDE DEF z
  <2>1. T \in SUBSET T /\ (\A x \in T : 0 <= z[x] /\ z[x] <= 0)
    BY <1>1
  <2>2. Cardinality(T) * 0 <= SumOf(z, T) /\ SumOf(z, T) <= Cardinality(T) * 0
    BY <1>1, <2>1, SumOfBounds
  <2>3. Cardinality(T) \in Nat /\ SumOf(z, T) \in Int
    BY <1>1, <2>1, SumOfFacts, FS_CardinalityType
  <2> QED
    BY <2>2, <2>3
<1>3. \A x \in T : h[x] = z[x] + p * g[x]
  <2> TAKE x \in T
  <2>1. p * g[x] \in Int
    OBVIOUS
  <2> QED
    BY <1>1, <2>1
<1> HIDE DEF z
<1>4. SumOf(h, T) = SumOf(z, T) + p * SumOf(g, T)
  <2>1. IsLinear(h, z, p, g, T)
    BY <1>1, <1>3 DEF IsLinear, Summable
  <2> QED
    BY ONLY <2>1, SumOfAllLinear
<1>5. p * SumOf(g, T) \in Int
  <2>1. SumOf(g, T) \in Int
    BY SumOfFacts
  <2> QED
    BY <2>1
<1> QED
  BY <1>2, <1>4, <1>5

LEMMA SumOfTwo ==
  ASSUME NEW T, IsFiniteSet(T), NEW f \in [T -> Int], NEW g \in [T -> Int],
         NEW h \in [T -> Int], \A x \in T : h[x] = f[x] + g[x]
  PROVE  SumOf(h, T) = SumOf(f, T) + SumOf(g, T)
<1> DEFINE p == 1
<1>1. \A x \in T : h[x] = f[x] + p * g[x]
  OBVIOUS
<1>2. p \in Int
  OBVIOUS
<1>3. SumOf(g, T) \in Int
  BY SumOfFacts
<1> HIDE DEF p
<1>4. SumOf(h, T) = SumOf(f, T) + p * SumOf(g, T)
  <2>1. IsLinear(h, f, p, g, T)
    BY <1>1, <1>2 DEF IsLinear, Summable
  <2> QED
    BY ONLY <2>1, SumOfAllLinear
<1> QED
  BY <1>3, <1>4 DEF p

\* A vector times a matrix: entry l of s * A, and s * (A * d).
VecMat(s, A, K, l)  == SumOf([k \in K |-> s[k] * A[k][l]], K)
MatVec(A, d, L, k)  == SumOf([l \in L |-> A[k][l] * d[l]], L)

LEMMA VecMatType ==
  ASSUME NEW K, IsFiniteSet(K), NEW L, IsFiniteSet(L), NEW s \in [K -> Int],
         NEW A \in [K -> [L -> Int]], NEW d \in [L -> Int]
  PROVE  /\ \A l \in L : VecMat(s, A, K, l) \in Int
         /\ \A k \in K : MatVec(A, d, L, k) \in Int
<1>1. ASSUME NEW l \in L
      PROVE  VecMat(s, A, K, l) \in Int
  <2>1. [k \in K |-> s[k] * A[k][l]] \in [K -> Int]
    OBVIOUS
  <2> QED
    BY <2>1, SumOfFacts DEF VecMat
<1>2. ASSUME NEW k \in K
      PROVE  MatVec(A, d, L, k) \in Int
  <2>1. [l \in L |-> A[k][l] * d[l]] \in [L -> Int]
    OBVIOUS
  <2> QED
    BY <2>1, SumOfFacts DEF MatVec
<1> QED
  BY <1>1, <1>2

\* (s * A) * d = s * (A * d).
LEMMA Associates ==
  ASSUME NEW K, IsFiniteSet(K), NEW L, IsFiniteSet(L), NEW s \in [K -> Int],
         NEW A \in [K -> [L -> Int]], NEW d \in [L -> Int]
  PROVE  SumOf([l \in L |-> VecMat(s, A, K, l) * d[l]], L) = SumOf([k \in K |-> s[k] * MatVec(A, d, L, k)], K)
<1> DEFINE h == [l \in L |-> [k \in K |-> (s[k] * A[k][l]) * d[l]]]
<1>1. h \in [L -> [K -> Int]] /\ \A l \in L, k \in K : h[l][k] = (s[k] * A[k][l]) * d[l]
  OBVIOUS
<1> HIDE DEF h
<1>2. ASSUME NEW l \in L
      PROVE  SumOf([k \in K |-> h[l][k]], K) = VecMat(s, A, K, l) * d[l]
  <2> DEFINE f == [k \in K |-> h[l][k]]
             g == [k \in K |-> s[k] * A[k][l]]
             p == d[l]
  <2>1. f \in [K -> Int] /\ g \in [K -> Int] /\ p \in Int
    BY <1>1
  <2>2. \A k \in K : f[k] = p * g[k]
    <3> TAKE k \in K
    <3> DEFINE y == s[k] * A[k][l]
    <3>1. y \in Int /\ f[k] = y * p /\ g[k] = y
      BY <1>1
    <3> HIDE DEF f, g, p, y
    <3> QED
      BY <2>1, <3>1
  <2> HIDE DEF f, g, p
  <2>3. SumOf(f, K) = p * SumOf(g, K) /\ SumOf(g, K) \in Int
    <3>1. SumOf(f, K) = p * SumOf(g, K)
      BY <2>1, <2>2, SumOfScaled
    <3>2. SumOf(g, K) \in Int
      BY <2>1, SumOfFacts
    <3> QED
      BY <3>1, <3>2
  <2>4. SumOf(f, K) = SumOf(g, K) * p
    BY <2>1, <2>3
  <2> QED
    BY <2>4 DEF f, g, p, VecMat
<1>3. ASSUME NEW k \in K
      PROVE  SumOf([l \in L |-> h[l][k]], L) = s[k] * MatVec(A, d, L, k)
  <2> DEFINE f == [l \in L |-> h[l][k]]
             g == [l \in L |-> A[k][l] * d[l]]
             p == s[k]
  <2>1. f \in [L -> Int] /\ g \in [L -> Int] /\ p \in Int
    BY <1>1
  <2>2. \A l \in L : f[l] = p * g[l]
    <3> TAKE l \in L
    <3> DEFINE y == A[k][l]
               z == d[l]
    <3>1. y \in Int /\ z \in Int /\ f[l] = (p * y) * z /\ g[l] = y * z
      BY <1>1
    <3> HIDE DEF f, g, p, y, z
    <3> QED
      BY <2>1, <3>1
  <2> HIDE DEF f, g, p
  <2>3. SumOf(f, L) = p * SumOf(g, L)
    BY <2>1, <2>2, SumOfScaled
  <2> QED
    BY <2>3 DEF f, g, p, MatVec
<1>4. RowSums(h, L, K) = [l \in L |-> VecMat(s, A, K, l) * d[l]]
  BY <1>2 DEF RowSums
<1>5. ColumnSums(h, L, K) = [k \in K |-> s[k] * MatVec(A, d, L, k)]
  BY <1>3 DEF ColumnSums
<1>6. SumOf(RowSums(h, L, K), L) = SumOf(ColumnSums(h, L, K), K)
  BY <1>1, SumOfExchange
<1> QED
  BY <1>4, <1>5, <1>6
-----------------------------------------------------------------------------
(* Sequences.                                                               *)

LEMMA EqualSequences ==
  ASSUME NEW S, NEW s \in Seq(S), NEW t \in Seq(S), Len(s) = Len(t),
         \A i \in 1..Len(s) : s[i] = t[i]
  PROVE  s = t
OBVIOUS

LEMMA SequenceOfMore ==
  ASSUME NEW S, NEW T, S \subseteq T, NEW s \in Seq(S)
  PROVE  s \in Seq(T)
OBVIOUS

LEMMA FlattenSeqIs ==
  ASSUME NEW s
  PROVE  FlattenSeq(s) = Flattening(s)
BY DEF FlattenSeq, Flattening, IsFlattening
-----------------------------------------------------------------------------
(* Group elements, and the product of some of them that a row of a database *)
(* selects.                                                                 *)
Exponent   == 0..(P - 1)
Element(c) == [0..(c - 1) -> Exponent]

LEMMA ElementFacts ==
  ASSUME NEW c \in Nat
  PROVE  /\ Identity(c) \in Element(c)
         /\ \A j \in 0..(c - 1) : HashIndexToGroup(j, c) \in Element(c)
         /\ \A a, b \in Element(c) : AddElements(a, b) \in Element(c)
         /\ \A a \in Element(c), x \in Int : MulScalar(a, x) \in Element(c)
<1>1. P \in Nat /\ P > 1 /\ 0 \in Exponent /\ 1 \in Exponent
  BY SingleServerAssumption DEF Exponent
<1>2. \A x \in Int : x % P \in Exponent
  BY <1>1, Division DEF Exponent
<1>3. Identity(c) \in Element(c)
  BY <1>1 DEF Identity, Element
<1>4. \A j \in 0..(c - 1) : HashIndexToGroup(j, c) \in Element(c)
  BY <1>1, <1>3 DEF HashIndexToGroup, Element
<1>5. ASSUME NEW a \in Element(c), NEW b \in Element(c)
      PROVE  AddElements(a, b) \in Element(c)
  <2>1. \A i \in 0..(c - 1) : a[i] + b[i] \in Int
    BY DEF Element, Exponent
  <2> QED
    BY <1>2, <2>1 DEF AddElements, Element
<1>6. ASSUME NEW a \in Element(c), NEW x \in Int
      PROVE  MulScalar(a, x) \in Element(c)
  <2>1. \A i \in 0..(c - 1) : a[i] * x \in Int
    BY DEF Element, Exponent
  <2> QED
    BY <1>2, <2>1 DEF MulScalar, Element
<1> QED
  BY <1>3, <1>4, <1>5, <1>6

\* The product over the first j columns, if prev is the one over j - 1.
WithColumn(m, row, in, prev, j) ==
  IF j = 0 THEN Identity(m.cols)
  ELSE IF Get(m, row, j - 1) = 1 THEN AddElements(prev, in[j - 1])
  ELSE prev

IsPartial(f, m, row, in, n) == f = [j \in 0..n |-> WithColumn(m, row, in, f[j - 1], j)]

LEMMA PartialExists ==
  ASSUME NEW m, NEW row, NEW in, NEW M \in Nat
  PROVE  \E f : IsPartial(f, m, row, in, M)
<1> DEFINE S == {n \in 0..M : \E f : IsPartial(f, m, row, in, n)}
<1>1. 0 \in S
  <2> DEFINE f == [j \in 0..0 |-> Identity(m.cols)]
  <2>1. IsPartial(f, m, row, in, 0)
    BY DEF IsPartial, WithColumn
  <2> HIDE DEF f
  <2> QED
    BY <2>1
<1>2. ASSUME NEW n \in 0..(M - 1), n \in S
      PROVE  n + 1 \in S
  <2>1. PICK f : IsPartial(f, m, row, in, n)
    BY <1>2
  <2> DEFINE W(prev, j) == WithColumn(m, row, in, prev, j)
             g == [j \in 0..(n + 1) |-> IF j = n + 1 THEN W(f[n], n + 1) ELSE f[j]]
  <2>2. W(g[0 - 1], 0) = W(f[0 - 1], 0)
    BY DEF WithColumn
  <2>3. \A j \in 0..n : f[j] = W(f[j - 1], j)
    <3> HIDE DEF W
    <3>1. f = [j \in 0..n |-> W(f[j - 1], j)]
      BY <2>1 DEF IsPartial, W
    <3> QED
      BY <3>1
  <2> HIDE DEF W
  <2>4. ASSUME NEW j \in 0..(n + 1)
        PROVE  g[j] = W(g[j - 1], j)
    <3>1. CASE j = n + 1
      <4>1. g[j - 1] = f[n] /\ g[j] = W(f[n], n + 1)
        BY <3>1
      <4> HIDE DEF g
      <4> QED
        BY <3>1, <4>1
    <3>2. CASE j \in 1..n
      <4>1. g[j - 1] = f[j - 1] /\ g[j] = f[j]
        BY <3>2
      <4> HIDE DEF g
      <4> QED
        BY <2>3, <3>2, <4>1
    <3>3. CASE j = 0
      <4>1. g[0] = f[0]
        OBVIOUS
      <4> HIDE DEF g
      <4> QED
        BY <2>2, <2>3, <3>3, <4>1
    <3> QED
      BY <3>1, <3>2, <3>3
  <2>5. g = [j \in 0..(n + 1) |-> W(g[j - 1], j)]
    BY <2>4
  <2>6. IsPartial(g, m, row, in, n + 1)
    BY <2>5 DEF IsPartial, W
  <2> HIDE DEF g
  <2> QED
    BY <2>6
<1> HIDE DEF S
<1>3. 0..M \subseteq S
  BY <1>1, <1>2, UpTo
<1> QED
  BY <1>3 DEF S

LEMMA RowProductIs ==
  ASSUME NEW m, NEW row, NEW in, m.cols \in Nat
  PROVE  \E f : IsPartial(f, m, row, in, m.cols) /\ RowProduct(m, row, in) = f[m.cols]
<1> DEFINE f == CHOOSE f : IsPartial(f, m, row, in, m.cols)
<1>1. RowProduct(m, row, in) = f[m.cols]
  BY DEF RowProduct, IsPartial, WithColumn
<1>2. IsPartial(f, m, row, in, m.cols)
  BY PartialExists
<1> HIDE DEF f
<1> QED
  BY <1>1, <1>2

LEMMA RowProductType ==
  ASSUME NEW c \in Nat, NEW m, m.cols = c, NEW row, NEW in,
         \A j \in 0..(c - 1) : in[j] \in Element(c)
  PROVE  RowProduct(m, row, in) \in Element(c)
<1>1. PICK f : IsPartial(f, m, row, in, c) /\ RowProduct(m, row, in) = f[c]
  BY RowProductIs
<1> DEFINE W(prev, j) == WithColumn(m, row, in, prev, j)
           S == {j \in 0..c : f[j] \in Element(c)}
<1>2. \A prev \in Element(c), j \in 0..c : W(prev, j) \in Element(c)
  BY ElementFacts DEF WithColumn
<1>3. W(f[0 - 1], 0) \in Element(c)
  BY ElementFacts DEF WithColumn
<1>4. f = [j \in 0..c |-> W(f[j - 1], j)]
  BY <1>1 DEF IsPartial
<1> HIDE DEF W
<1>5. \A j \in 0..c : f[j] = W(f[j - 1], j)
  BY <1>4
<1>6. 0 \in S
  BY <1>3, <1>5
<1>7. ASSUME NEW j \in 0..(c - 1), j \in S
      PROVE  j + 1 \in S
  <2>1. j + 1 \in 0..c /\ (j + 1) - 1 = j /\ f[j] \in Element(c)
    BY <1>7
  <2>2. f[j + 1] = W(f[j], j + 1)
    BY <1>5, <2>1
  <2> QED
    BY <1>2, <2>1, <2>2
<1> HIDE DEF S
<1>8. 0..c \subseteq S
  BY <1>6, <1>7, UpTo
<1>9. c \in S
  BY <1>8
<1> QED
  BY <1>1, <1>9 DEF S

\* The bytes of an element.
Exponents(a, c) == [k \in 1..c |-> a[k - 1]]
Bytes(a, c)     == IF a = Identity(c) THEN <<0>> ELSE <<Sign>> \o Exponents(a, c)

\* What the encoding of an element looks like.
Encoded(p, a, c) ==
  /\ p \in Seq(Exponent)
  /\ a = Identity(c) => Len(p) = 1 /\ p[1] = 0
  /\ a # Identity(c) => /\ Len(p) = c + 1 /\ p[1] = Sign
                        /\ \A k \in 0..(c - 1) : p[k + 2] = a[k]

LEMMA BytesType ==
  ASSUME NEW c \in Nat, NEW a \in Element(c)
  PROVE  Encoded(Bytes(a, c), a, c)
<1>1. 0 \in Exponent /\ Sign \in Exponent
  BY SingleServerAssumption DEF Exponent, Sign
<1>2. \A k \in 1..c : a[k - 1] \in Exponent
  BY DEF Element
<1>3. Exponents(a, c) \in [1..c -> Exponent] /\ \A k \in 1..c : Exponents(a, c)[k] = a[k - 1]
  BY <1>2 DEF Exponents
<1> DEFINE e == Exponents(a, c)
<1> HIDE DEF e
<1>4. e \in Seq(Exponent) /\ Len(e) = c
  BY ONLY <1>3, c \in Nat, WholeSeq DEF e
<1>5. CASE a = Identity(c)
  <2>1. Bytes(a, c) = <<0>>
    BY <1>5 DEF Bytes
  <2> QED
    BY <1>1, <1>5, <2>1 DEF Encoded
<1>6. CASE a # Identity(c)
  <2> DEFINE p == <<Sign>> \o e
  <2>1. Bytes(a, c) = p
    BY <1>6 DEF Bytes, e
  <2>2. /\ p \in Seq(Exponent) /\ Len(p) = c + 1 /\ p[1] = Sign
        /\ \A k \in 1..c : p[k + 1] = e[k]
    BY <1>1, <1>4
  <2> HIDE DEF p
  <2>3. ASSUME NEW k \in 0..(c - 1)
        PROVE  p[k + 2] = a[k]
    <3>1. k + 1 \in 1..c /\ (k + 1) + 1 = k + 2 /\ (k + 1) - 1 = k
      OBVIOUS
    <3> QED
      BY <1>3, <2>2, <3>1 DEF e
  <2> QED
    BY <1>6, <2>1, <2>2, <2>3 DEF Encoded
<1> QED
  BY <1>5, <1>6

LEMMA MarshalIs ==
  ASSUME NEW c \in Nat, NEW n \in Nat, NEW items, DOMAIN items = 1..n,
         \A x \in 1..n : items[x] \in Element(c)
  PROVE  /\ MarshalGroupElements(items) = Flattening([x \in 1..n |-> Bytes(items[x], c)])
         /\ [x \in 1..n |-> Bytes(items[x], c)] \in Seq(Seq(Exponent))
<1> DEFINE parts == [x \in 1..n |-> Bytes(items[x], c)]
<1>1. ASSUME NEW x \in 1..n
      PROVE  MarshalBinaryCompress(items[x]) = Bytes(items[x], c)
  <2>1. items[x] \in Element(c) /\ DOMAIN items[x] = 0..(c - 1)
    BY DEF Element
  <2>2. Cardinality(0..(c - 1)) = IF 0 > c - 1 THEN 0 ELSE (c - 1) - 0 + 1
    BY FS_Interval
  <2>3. Cardinality(DOMAIN items[x]) = c
    BY <2>1, <2>2
  <2>4. (\A k \in DOMAIN items[x] : items[x][k] = 0) <=> items[x] = Identity(c)
    BY <2>1 DEF Identity, Element
  <2> QED
    BY <2>3, <2>4 DEF MarshalBinaryCompress, Bytes, Exponents
<1>2. [x \in DOMAIN items |-> MarshalBinaryCompress(items[x])] = parts
  BY <1>1
<1>3. MarshalGroupElements(items) = Flattening(parts)
  BY <1>2, FlattenSeqIs DEF MarshalGroupElements
<1>4. parts \in [1..n -> Seq(Exponent)]
  BY BytesType DEF Encoded
<1> HIDE DEF parts
<1>5. parts \in Seq(Seq(Exponent))
  <2> DEFINE S == Seq(Exponent)
  <2>1. parts \in [1..n -> S]
    BY <1>4
  <2> HIDE DEF S
  <2>2. parts \in Seq(S)
    BY ONLY <2>1, n \in Nat, WholeSeq
  <2> QED
    BY <2>2 DEF S
<1> QED
  BY <1>3, <1>5 DEF parts
-----------------------------------------------------------------------------
(* The digest of an elliptic database, in chunks of rows.                   *)

Generators(c) == [j \in 0..(c - 1) |-> HashIndexToGroup(j, c)]
RowDigest(m, r) == Bytes(RowProduct(m, r, Generators(m.cols)), m.cols)
Chunk(m, begin, end) == [x \in 1..(end - begin) |-> RowDigest(m, begin + x - 1)]

LEMMA ChunkIs ==
  ASSUME NEW c \in Nat, NEW m, m.cols = c, NEW begin \in Nat, NEW end \in Nat, begin <= end
  PROVE  /\ computeDigests(begin, end, m) = Flattening(Chunk(m, begin, end))
         /\ Chunk(m, begin, end) \in Seq(Seq(Exponent))
         /\ Len(Chunk(m, begin, end)) = end - begin
<1> DEFINE n == end - begin
           items == [x \in 1..n |-> RowProduct(m, begin + x - 1, Generators(c))]
<1>1. n \in Nat
  OBVIOUS
<1>2. \A x \in 1..n : items[x] \in Element(c)
  <2>1. \A j \in 0..(c - 1) : Generators(c)[j] \in Element(c)
    BY ElementFacts DEF Generators
  <2> QED
    BY <2>1, RowProductType
<1>3. computeDigests(begin, end, m) = MarshalGroupElements(items)
  BY DEF computeDigests, Generators
<1>4. Chunk(m, begin, end) = [x \in 1..n |-> Bytes(items[x], c)]
  BY DEF Chunk, RowDigest
<1>5. DOMAIN items = 1..n
  OBVIOUS
<1> HIDE DEF items, n
<1>6. /\ MarshalGroupElements(items) = Flattening([x \in 1..n |-> Bytes(items[x], c)])
      /\ [x \in 1..n |-> Bytes(items[x], c)] \in Seq(Seq(Exponent))
  BY <1>1, <1>2, <1>5, MarshalIs
<1>7. Len([x \in 1..n |-> Bytes(items[x], c)]) = n
  BY <1>1
<1> QED
  BY <1>3, <1>4, <1>6, <1>7 DEF n

\* The rows up to middle, and then the others.
Joins(m, begin, middle, end) ==
  Chunk(m, begin, end) = Chunk(m, begin, middle) \o Chunk(m, middle, end)

LEMMA ChunksJoin ==
  ASSUME NEW c \in Nat, NEW m, m.cols = c,
         NEW begin \in Nat, NEW middle \in Nat, NEW end \in Nat, begin <= middle, middle <= end
  PROVE  Joins(m, begin, middle, end)
<1> DEFINE S == Seq(Exponent)
           a == Chunk(m, begin, middle)
           b == Chunk(m, middle, end)
           w == Chunk(m, begin, end)
<1>1. /\ a \in Seq(S) /\ Len(a) = middle - begin
      /\ b \in Seq(S) /\ Len(b) = end - middle
      /\ w \in Seq(S) /\ Len(w) = end - begin
  <2>1. begin <= end
    OBVIOUS
  <2> HIDE DEF a, b, w
  <2>2. a \in Seq(S) /\ Len(a) = middle - begin
    BY ChunkIs, ZenonT(60) DEF a
  <2>3. b \in Seq(S) /\ Len(b) = end - middle
    BY ChunkIs, ZenonT(60) DEF b
  <2>4. w \in Seq(S) /\ Len(w) = end - begin
    BY <2>1, ChunkIs, ZenonT(60) DEF w
  <2> QED
    BY <2>2, <2>3, <2>4, Zenon
<1>2. /\ \A x \in 1..(middle - begin) : a[x] = w[x]
      /\ \A x \in 1..(end - middle) : b[x] = w[(middle - begin) + x]
  <2>1. \A x \in 1..(middle - begin) : x \in 1..(end - begin)
    OBVIOUS
  <2>2. \A x \in 1..(end - middle) : /\ (middle - begin) + x \in 1..(end - begin)
                                     /\ begin + ((middle - begin) + x) - 1 = middle + x - 1
    OBVIOUS
  <2> QED
    BY <2>1, <2>2 DEF Chunk
<1> HIDE DEF a, b, w, S
<1>3. w = a \o b
  <2> DEFINE p == middle - begin
             q == end - middle
  <2>1. p \in Nat /\ q \in Nat /\ end - begin = p + q
    OBVIOUS
  <2>2. /\ Len(a) = p /\ Len(b) = q /\ Len(w) = p + q
        /\ \A x \in 1..p : a[x] = w[x]
        /\ \A x \in 1..q : b[x] = w[p + x]
    BY ONLY <1>1, <1>2, <2>1
  <2> HIDE DEF p, q
  <2>3. /\ a \o b \in Seq(S) /\ Len(a \o b) = p + q
        /\ \A x \in 1..(p + q) : (a \o b)[x] = IF x <= p THEN a[x] ELSE b[x - p]
    <3>1. /\ a \o b \in Seq(S)
          /\ Len(a \o b) = Len(a) + Len(b)
          /\ \A x \in 1..(Len(a) + Len(b)) : (a \o b)[x] = IF x <= Len(a) THEN a[x] ELSE b[x - Len(a)]
      BY <1>1, ConcatProperties, Zenon
    <3> QED
      BY <2>2, <3>1, Zenon
  <2>4. ASSUME NEW x \in 1..(p + q)
        PROVE  w[x] = (a \o b)[x]
    <3>1. CASE x <= p
      BY ONLY <2>1, <2>2, <2>3, <3>1, x \in 1..(p + q)
    <3>2. CASE ~(x <= p)
      <4>1. x - p \in 1..q /\ p + (x - p) = x
        BY ONLY <2>1, <3>2, x \in 1..(p + q)
      <4> QED
        BY ONLY <2>2, <2>3, <3>2, <4>1, x \in 1..(p + q)
    <3> QED
      BY <3>1, <3>2
  <2> QED
    BY ONLY <1>1, <2>2, <2>3, <2>4, EqualSequences
<1> QED
  BY <1>3, Zenon DEF a, b, w, Joins

\* The shares of the goroutines, rounded up, cover the rows: rows is how many
\* there are, n the goroutines, share what rowsPerRoutine is.
LEMMA SharesCover ==
  ASSUME NEW rows \in Nat, NEW n \in Nat, n > 0
  PROVE  LET share == (rows + n - 1) \div n IN
         /\ share \in Nat /\ n * share >= rows
         /\ \A i \in 0..n : i * share \in Nat
<1> DEFINE share == (rows + n - 1) \div n
           rest  == (rows + n - 1) % n
<1>1. share \in Int /\ rest \in 0..(n - 1) /\ rows + n - 1 = n * share + rest
  OBVIOUS
<1> HIDE DEF share, rest
<1>2. share >= 0
  <2> SUFFICES ASSUME share < 0 PROVE FALSE
    BY <1>1
  <2>1. -share - 1 \in Nat /\ share = -1 - (-share - 1)
    BY <1>1
  <2>2. \A a \in Nat : n * (-1 - a) = -n - n * a /\ n * a \in Nat
    OBVIOUS
  <2> DEFINE y == n * share
             z == n * (-share - 1)
  <2>3. y = -n - z /\ z \in Nat
    BY <2>1, <2>2
  <2> HIDE DEF y, z
  <2> QED
    BY <1>1, <2>3 DEF y
<1>3. n * share >= rows
  <2> DEFINE y == n * share
  <2>1. y \in Int /\ rows + n - 1 = y + rest
    BY <1>1
  <2> HIDE DEF y
  <2>2. y >= rows
    BY <1>1, <2>1
  <2> QED
    BY <2>2 DEF y
<1>4. \A i \in 0..n : i * share \in Nat
  BY <1>1, <1>2
<1> QED
  BY <1>1, <1>2, <1>3, <1>4 DEF share

Covers(n, share, rows) ==
  /\ rows \in Nat /\ n \in Nat /\ n > 0 /\ share \in Nat /\ n * share >= rows
  /\ \A i \in 0..n : i * share \in Nat

Sent(sent, n, share, rows, m) ==
  /\ sent = [i \in 1..n |-> sent[i]]
  /\ \A i \in 1..n : /\ (i - 1) * share <= Least(i * share, rows)
                     /\ sent[i] = computeDigests((i - 1) * share, Least(i * share, rows), m)

LEMMA ChunksCover ==
  ASSUME NEW rows, NEW n, NEW m, m.cols \in Nat, NEW share, NEW sent,
         Covers(n, share, rows), Sent(sent, n, share, rows, m)
  PROVE  FlattenSeq(sent) = computeDigests(0, rows, m)
<1> DEFINE c == m.cols
<1>a. /\ rows \in Nat /\ n \in Nat /\ n > 0 /\ c \in Nat /\ m.cols = c
      /\ share \in Nat /\ n * share >= rows /\ \A i \in 0..n : i * share \in Nat
  BY Zenon DEF Covers
<1>b. /\ sent = [i \in 1..n |-> sent[i]]
      /\ \A i \in 1..n : /\ (i - 1) * share <= Least(i * share, rows)
                         /\ sent[i] = computeDigests((i - 1) * share, Least(i * share, rows), m)
  BY Zenon DEF Sent
<1> USE <1>a, <1>b
<1> HIDE DEF c
<1> DEFINE S == Seq(Exponent)
           F(i) == Least(i * share, rows)
           front(i) == SubSeq(sent, 1, i)
           T == {i \in 0..n : Flattening(front(i)) = Flattening(Chunk(m, 0, F(i)))}
<1>1. \A i \in 0..n : F(i) \in Nat /\ F(i) <= i * share /\ F(i) <= rows
  BY DEF Least
<1>2. ASSUME NEW i \in 0..(n - 1)
      PROVE  /\ F(i) \in Nat /\ F(i + 1) \in Nat /\ F(i) <= F(i + 1)
             /\ sent[i + 1] = computeDigests(F(i), F(i + 1), m)
  <2> DEFINE y == i * share
  <2>1. i + 1 \in 1..n /\ i \in 0..n /\ i + 1 \in 0..n /\ (i + 1) - 1 = i
    OBVIOUS
  <2>2. y <= F(i + 1) /\ sent[i + 1] = computeDigests(y, F(i + 1), m)
    BY <2>1
  <2>3. F(i + 1) \in Nat /\ F(i + 1) <= rows /\ y \in Nat
    BY <1>1, <2>1
  <2>4. F(i) = y
    <3> HIDE DEF y
    <3>1. F(i) = Least(y, rows)
      BY DEF y
    <3> HIDE DEF F
    <3> QED
      BY <2>2, <2>3, <3>1 DEF Least
  <2> QED
    BY <2>2, <2>3, <2>4
<1>3. F(0) = 0 /\ F(n) = rows
  <2> DEFINE y == n * share
  <2>1. F(0) = 0
    BY DEF Least
  <2>2. y \in Nat /\ y >= rows
    OBVIOUS
  <2>3. F(n) = Least(y, rows)
    OBVIOUS
  <2> HIDE DEF y, F
  <2> QED
    BY <2>1, <2>2, <2>3 DEF Least
<1> HIDE DEF F
<1>4. ASSUME NEW i \in 1..n
      PROVE  sent[i] \in S
  <2> DEFINE j == i - 1
  <2>1. j \in 0..(n - 1) /\ j + 1 = i
    OBVIOUS
  <2> HIDE DEF j
  <2>2. F(j) \in Nat /\ F(i) \in Nat /\ F(j) <= F(i) /\ sent[i] = computeDigests(F(j), F(i), m)
    <3>1. /\ F(j) \in Nat /\ F(j + 1) \in Nat /\ F(j) <= F(j + 1)
          /\ sent[j + 1] = computeDigests(F(j), F(j + 1), m)
      BY <1>2, <2>1, Zenon
    <3> QED
      BY <2>1, <3>1, Zenon
  <2>3. Chunk(m, F(j), F(i)) \in Seq(S) /\ sent[i] = Flattening(Chunk(m, F(j), F(i)))
    BY <2>2, ChunkIs, Zenon
  <2> QED
    BY <2>3, FlattenType, Zenon
<1>5. sent \in Seq(S) /\ Len(sent) = n
  <2> HIDE DEF S
  <2>1. sent \in [1..n -> S]
    BY <1>4
  <2> QED
    BY ONLY <2>1, n \in Nat, WholeSeq
<1>6. front(0) = <<>> /\ front(n) = sent
  <2> HIDE DEF S
  <2> QED
    BY <1>5, PrefixEnds
<1>7. 0 \in T
  <2>1. Chunk(m, 0, 0) = <<>>
    <3> DEFINE At(x) == RowDigest(m, 0 + x - 1)
    <3>1. Chunk(m, 0, 0) = [x \in 1..(0 - 0) |-> At(x)]
      BY DEF Chunk
    <3> HIDE DEF At
    <3> QED
      BY ONLY <3>1
  <2>2. 0 \in 0..n
    OBVIOUS
  <2> HIDE DEF front
  <2> QED
    BY <1>3, <1>6, <2>1, <2>2, Zenon
<1>8. ASSUME NEW i \in 0..(n - 1), i \in T
      PROVE  i + 1 \in T
  <2> DEFINE a == Chunk(m, 0, F(i))
             b == Chunk(m, F(i), F(i + 1))
             u == sent[i + 1]
  <2>0. F(i) \in Nat /\ F(i + 1) \in Nat /\ F(i) <= F(i + 1) /\ u = computeDigests(F(i), F(i + 1), m)
    BY <1>2, Zenon
  <2>1. 0 \in Nat /\ 0 <= F(i) /\ 0 <= F(i + 1)
    BY ONLY <2>0
  <2>2. a \in Seq(S) /\ b \in Seq(S) /\ u = Flattening(b) /\ Chunk(m, 0, F(i + 1)) = a \o b
    <3>1. a \in Seq(S)
      BY <2>0, <2>1, ChunkIs, ZenonT(60)
    <3>2. b \in Seq(S) /\ u = Flattening(b)
      BY <2>0, <2>1, ChunkIs, ZenonT(60)
    <3>3. Chunk(m, 0, F(i + 1)) = a \o b
      <4>1. Joins(m, 0, F(i), F(i + 1))
        BY <2>0, <2>1, ChunksJoin, ZenonT(60)
      <4> QED
        BY <4>1, Zenon DEF Joins
    <3> QED
      BY <3>1, <3>2, <3>3, Zenon
  <2>3. front(i) \in Seq(S) /\ u \in S /\ front(i + 1) = Append(front(i), u)
    <3> HIDE DEF S
    <3> QED
      BY <1>5, PrefixStep, Zenon
  <2>4. Flattening(front(i)) = Flattening(a)
    BY <1>8
  <2> HIDE DEF a, b, u, front
  <2>5. Flattening(front(i + 1)) = Flattening(front(i)) \o u
    BY <2>3, FlattenAppend, Zenon
  <2>6. Flattening(a \o b) = Flattening(a) \o Flattening(b)
    BY <2>2, FlattenConcat, Zenon
  <2>7. i + 1 \in 0..n
    OBVIOUS
  <2> QED
    BY <2>2, <2>4, <2>5, <2>6, <2>7, Zenon
<1> HIDE DEF T
<1>9. 0..n \subseteq T
  BY <1>7, <1>8, UpTo
<1>10. n \in T
  BY <1>9
<1>11. Flattening(sent) = Flattening(Chunk(m, 0, rows))
  BY <1>3, <1>6, <1>10 DEF T
<1> QED
  BY <1>11, ChunkIs, FlattenSeqIs
-----------------------------------------------------------------------------
(* The course of a simulation: lengths, repetitions and goroutines.         *)

UnderWay == {"asked", "answered", "reconstructed"}
Busy     == {"digest", "retrieve"} \cup UnderWay

\* The retrievals of the lengths that are over have been recorded; a length
\* that occurs again is counted again from nothing.
Skipped(length) == primitive = "cmp-vpir-dh" /\ length = HugeDB
Complete(length) == length \in DOMAIN results /\ results[length] = Repeats

CourseInv ==
  /\ pc \in {"config", "length"} \cup Busy \cup Ended
  /\ lengths \in Configs
  /\ next \in 1..(Len(lengths) + 1)
  /\ results \in [DOMAIN results -> 0..Repeats]
  /\ pc \in Busy => next \in 1..Len(lengths) /\ DBLen \in DOMAIN results
  /\ pc \in UnderWay => results[DBLen] < Repeats
  /\ pc \in Busy \cup {"length", "done"} =>
       \A i \in 1..(next - 1) : \/ Skipped(lengths[i])
                                \/ Complete(lengths[i])
                                \/ pc \in Busy /\ lengths[i] = DBLen
  /\ pc = "config" => next = 1
  /\ pc = "done" => next = Len(lengths) + 1

\* As many goroutines as there may be, each with its reply or none.
Sizes == {SmallRoutines} \cup NumCPUs
ReplyInv ==
  pc = "digest" => \E n \in Sizes : /\ DOMAIN replies = 1..n
                                    /\ replies = [i \in 1..n |-> replies[i]]

LEMMA LengthsType ==
  ASSUME CourseInv
  PROVE  /\ Len(lengths) \in Nat /\ Repeats \in Nat /\ Repeats > 0
         /\ \A i \in 1..Len(lengths) : lengths[i] \in Nat /\ lengths[i] > 0
<1>1. lengths \in Seq(Nat \ {0})
  BY SimulationAssumption DEF CourseInv
<1> QED
  BY <1>1, SimulationAssumption

LEMMA RecordedFacts ==
  ASSUME CourseInv, NEW n \in 0..Repeats
  PROVE  /\ Recorded(n) \in [DOMAIN Recorded(n) -> 0..Repeats]
         /\ DOMAIN Recorded(n) = DOMAIN results \cup {DBLen}
         /\ Recorded(n)[DBLen] = n
         /\ \A l \in DOMAIN results : l # DBLen => Recorded(n)[l] = results[l]
BY DEF Recorded, CourseInv

LEMMA InitCourse ==
  ASSUME Init
  PROVE  CourseInv /\ ReplyInv
<1>1. lengths \in Seq(Nat \ {0})
  BY SimulationAssumption DEF Init
<1>2. Len(lengths) \in Nat
  BY <1>1
<1> QED
  BY <1>2, SimulationAssumption DEF Init, CourseInv, ReplyInv, Busy, UnderWay, Ended

Creates == CreateRandomBinaryLWE \/ CreateRandomBinaryLWE128 \/ CreateRandomEllipticWithDigest

LEMMA CreateCourse ==
  ASSUME CourseInv, Creates
  PROVE  CourseInv'
<1>1. /\ pc = "length" /\ next \in 1..Len(lengths)
      /\ results' = Recorded(0) /\ UNCHANGED <<config, next>>
      /\ pc' \in {"digest", "retrieve", "panic"}
  <2>1. pc = "length" /\ next <= Len(lengths) /\ results' = Recorded(0) /\ UNCHANGED <<config, next>>
        /\ pc' \in {"digest", "retrieve", "panic"}
    BY DEF Creates, CreateRandomBinaryLWE, CreateRandomBinaryLWE128, CreateRandomEllipticWithDigest
  <2> QED
    BY <2>1, LengthsType DEF CourseInv
<1>2. primitive' = primitive /\ lengths' = lengths /\ next' = next /\ DBLen' = DBLen
  BY <1>1 DEF config, DBLen
<1>3. 0 \in 0..Repeats /\ Len(lengths) \in Nat
  BY LengthsType
<1>4. /\ results' \in [DOMAIN results' -> 0..Repeats]
      /\ DOMAIN results' = DOMAIN results \cup {DBLen}
      /\ \A l \in DOMAIN results : l # DBLen => results'[l] = results[l]
  BY <1>1, <1>3, RecordedFacts
<1>5. pc' \in Busy => \A i \in 1..(next - 1) : \/ Skipped(lengths[i])'
                                               \/ Complete(lengths[i])'
                                               \/ lengths[i] = DBLen
  <2> SUFFICES ASSUME NEW i \in 1..(next - 1)
               PROVE  Skipped(lengths[i])' \/ Complete(lengths[i])' \/ lengths[i] = DBLen
    OBVIOUS
  <2>1. Skipped(lengths[i]) \/ Complete(lengths[i])
    BY <1>1 DEF CourseInv, Busy, UnderWay
  <2>2. Skipped(lengths[i]) => Skipped(lengths[i])'
    BY <1>2 DEF Skipped
  <2>3. Complete(lengths[i]) /\ lengths[i] # DBLen => Complete(lengths[i])'
    BY <1>2, <1>4 DEF Complete
  <2> QED
    BY <2>1, <2>2, <2>3
<1> QED
  BY <1>1, <1>2, <1>3, <1>4, <1>5 DEF CourseInv, Busy, UnderWay, Ended

\* The steps that leave lengths and results alone.
LEMMA QuietCourse ==
  ASSUME CourseInv, UNCHANGED <<config, next, results>>, pc \in Busy,
         pc' \in Busy \cup {"fatal", "panic"},
         pc' \in UnderWay => results[DBLen] < Repeats
  PROVE  CourseInv'
<1>1. primitive' = primitive /\ lengths' = lengths /\ next' = next /\ DBLen' = DBLen /\ results' = results
  BY DEF config, DBLen
<1>2. ASSUME NEW i \in 1..(next - 1)
      PROVE  Skipped(lengths[i])' \/ Complete(lengths[i])' \/ lengths[i] = DBLen
  BY <1>1, <1>2 DEF CourseInv, Skipped, Complete, Busy, UnderWay
<1> QED
  BY <1>1, <1>2 DEF CourseInv, Busy, UnderWay, Ended

LEMMA QuietSteps ==
  ASSUME CourseInv,
         \/ CollectDigests
         \/ \E i \in DOMAIN replies : ComputeDigests(i) \/ RoutinePanics(i)
         \/ AmplifyQueryBytes \/ AmplifyAnswerBytes \/ AmplifyReconstructBytes
         \/ LWE128QueryBytes \/ LWE128AnswerBytes \/ LWE128ReconstructBytes
         \/ DHQueryBytes \/ DHAnswerBytes \/ DHReconstructBytes
  PROVE  CourseInv'
<1>1. CASE CollectDigests
  BY <1>1, QuietCourse DEF CollectDigests, Busy, UnderWay
<1>2. CASE \E i \in DOMAIN replies : ComputeDigests(i) \/ RoutinePanics(i)
  BY <1>2, QuietCourse DEF ComputeDigests, RoutinePanics, Busy, UnderWay, base
<1>3. ASSUME NEW draws, Asks(draws)
      PROVE  CourseInv'
  BY <1>3, QuietCourse DEF Asks, Busy, UnderWay
<1>4. ASSUME NEW a, Answers(a), pc = "asked"
      PROVE  CourseInv'
  BY <1>4, QuietCourse DEF Answers, Busy, UnderWay, CourseInv
<1>9. ASSUME pc = "asked", pc' = "fatal", UNCHANGED <<config, next, results>>
      PROVE  CourseInv'
  BY <1>9, QuietCourse DEF Busy, UnderWay, CourseInv
<1>5. ASSUME NEW r, Reconstructs(r), pc = "answered"
      PROVE  CourseInv'
  BY <1>5, QuietCourse DEF Reconstructs, Busy, UnderWay, CourseInv
<1>6. CASE AmplifyQueryBytes \/ LWE128QueryBytes \/ DHQueryBytes
  BY <1>3, <1>6 DEF AmplifyQueryBytes, LWE128QueryBytes, DHQueryBytes
<1>7. CASE AmplifyAnswerBytes \/ LWE128AnswerBytes \/ DHAnswerBytes
  <2>1. CASE AmplifyAnswerBytes \/ LWE128AnswerBytes
    BY <1>4, <2>1 DEF AmplifyAnswerBytes, LWE128AnswerBytes
  <2>2. CASE DHAnswerBytes
    <3>1. pc = "asked"
      BY <2>2 DEF DHAnswerBytes
    <3>2. \/ pc' = "fatal" /\ UNCHANGED <<config, next, results>>
          \/ Answers(DHAnswer(query, held))
      BY <2>2 DEF DHAnswerBytes
    <3> QED
      BY <1>4, <1>9, <3>1, <3>2
  <2> QED
    BY <1>7, <2>1, <2>2
<1>8. CASE AmplifyReconstructBytes \/ LWE128ReconstructBytes \/ DHReconstructBytes
  BY <1>5, <1>8 DEF AmplifyReconstructBytes, LWE128ReconstructBytes, DHReconstructBytes
<1> QED
  BY <1>1, <1>2, <1>6, <1>7, <1>8

LEMMA StoreCourse ==
  ASSUME CourseInv, StoreResults
  PROVE  CourseInv'
<1>1. pc = "reconstructed" /\ UNCHANGED <<config, next, base, trip>>
  BY DEF StoreResults
<1>2. primitive' = primitive /\ lengths' = lengths /\ next' = next /\ DBLen' = DBLen
  BY <1>1 DEF config, DBLen
<1>3. CASE pc' = "fatal" /\ UNCHANGED results
  BY <1>1, <1>3, QuietCourse DEF Busy, UnderWay
<1>4. CASE pc' = "retrieve" /\ results' = [results EXCEPT ![DBLen] = @ + 1]
  <2>1. /\ DBLen \in DOMAIN results /\ results[DBLen] \in 0..Repeats /\ results[DBLen] < Repeats
        /\ next \in 1..Len(lengths)
    BY <1>1 DEF CourseInv, Busy, UnderWay
  <2>2. Repeats \in Nat
    BY LengthsType
  <2>3. /\ results' \in [DOMAIN results' -> 0..Repeats] /\ DOMAIN results' = DOMAIN results
        /\ \A l \in DOMAIN results : l # DBLen => results'[l] = results[l]
    BY <1>4, <2>1, <2>2 DEF CourseInv
  <2>4. ASSUME NEW i \in 1..(next - 1)
        PROVE  Skipped(lengths[i])' \/ Complete(lengths[i])' \/ lengths[i] = DBLen
    <3>1. Skipped(lengths[i]) \/ Complete(lengths[i]) \/ lengths[i] = DBLen
      BY <1>1 DEF CourseInv, Busy, UnderWay
    <3> QED
      BY <1>2, <2>3, <3>1 DEF Skipped, Complete
  <2> QED
    BY <1>2, <1>4, <2>1, <2>3, <2>4 DEF CourseInv, Busy, UnderWay, Ended
<1> QED
  BY <1>3, <1>4 DEF StoreResults

\* Steps to the next length, or to the first or after the last.
LEMMA LengthCourse ==
  ASSUME CourseInv, Configure \/ SkipLength \/ NextLength \/ Finish
  PROVE  CourseInv'
<1> USE DEF Busy, UnderWay, Ended
<1>1. UNCHANGED <<config, results>>
  BY DEF Configure, SkipLength, NextLength, Finish
<1>2. /\ primitive' = primitive /\ lengths' = lengths /\ results' = results
      /\ \A l : (Skipped(l)' <=> Skipped(l)) /\ (Complete(l)' <=> Complete(l))
  BY <1>1 DEF config, Skipped, Complete
<1>3. Len(lengths) \in Nat
  BY LengthsType
<1>4. CASE Configure
  <2>1. next' = next /\ pc' \in {"length", "fatal"} /\ pc = "config"
    BY <1>4 DEF Configure
  <2>2. next = 1
    BY <2>1 DEF CourseInv
  <2> QED
    BY <1>2, <1>3, <2>1 DEF CourseInv
<1>5. CASE SkipLength
  <2>1. /\ pc = "length" /\ pc' = "length" /\ next <= Len(lengths) /\ next' = next + 1
        /\ Skipped(lengths[next])
    BY <1>5 DEF SkipLength, Skipped, DBLen
  <2>2. ASSUME NEW i \in 1..(next' - 1)
        PROVE  Skipped(lengths[i])' \/ Complete(lengths[i])'
    <3>1. i \in 1..(next - 1) \/ i = next
      BY <2>1 DEF CourseInv
    <3> QED
      BY <1>2, <2>1, <3>1 DEF CourseInv
  <2> QED
    BY <1>2, <1>3, <2>1, <2>2 DEF CourseInv
<1>6. CASE NextLength
  <2>1. /\ pc = "retrieve" /\ pc' = "length" /\ next' = next + 1
        /\ next \in 1..Len(lengths) /\ Complete(DBLen)
    BY <1>6 DEF NextLength, Complete, CourseInv
  <2>2. ASSUME NEW i \in 1..(next' - 1)
        PROVE  Skipped(lengths[i])' \/ Complete(lengths[i])'
    <3>1. i \in 1..(next - 1) \/ lengths[i] = DBLen
      BY <2>1 DEF CourseInv, DBLen
    <3>2. Skipped(lengths[i]) \/ Complete(lengths[i]) \/ lengths[i] = DBLen
      BY <2>1, <3>1 DEF CourseInv
    <3> QED
      BY <1>2, <2>1, <3>2
  <2> QED
    BY <1>2, <1>3, <2>1, <2>2 DEF CourseInv
<1>7. CASE Finish
  <2>1. pc = "length" /\ pc' = "done" /\ next' = next /\ next > Len(lengths)
    BY <1>7 DEF Finish
  <2>2. next = Len(lengths) + 1
    BY <1>3, <2>1 DEF CourseInv
  <2> QED
    BY <1>2, <1>3, <2>1, <2>2 DEF CourseInv
<1> QED
  BY <1>4, <1>5, <1>6, <1>7

\* The measurement of the Merkle trees ends the program, or records all of its
\* repetitions at once.
LEMMA MerkleCourse ==
  ASSUME CourseInv, RandomMerkleDB
  PROVE  CourseInv'
<1> USE DEF Busy, UnderWay, Ended
<1>1. /\ pc = "length" /\ next \in 1..Len(lengths) /\ UNCHANGED config
      /\ \/ pc' \in {"fatal", "panic"} /\ UNCHANGED <<next, results>>
         \/ pc' = "length" /\ next' = next + 1 /\ results' = Recorded(Repeats)
  <2>1. pc = "length" /\ next <= Len(lengths) /\ UNCHANGED config
    BY DEF RandomMerkleDB
  <2>2. \/ pc' \in {"fatal", "panic"} /\ UNCHANGED <<next, results>>
        \/ pc' = "length" /\ next' = next + 1 /\ results' = Recorded(Repeats)
    BY DEF RandomMerkleDB
  <2> QED
    BY <2>1, <2>2, LengthsType DEF CourseInv
<1>2. primitive' = primitive /\ lengths' = lengths
  BY <1>1 DEF config
<1>3. CASE pc' \in {"fatal", "panic"} /\ UNCHANGED <<next, results>>
  BY <1>1, <1>2, <1>3 DEF CourseInv
<1>4. CASE pc' = "length" /\ next' = next + 1 /\ results' = Recorded(Repeats)
  <2>1. Repeats \in 0..Repeats /\ Len(lengths) \in Nat
    BY LengthsType
  <2>2. /\ results' \in [DOMAIN results' -> 0..Repeats]
        /\ DOMAIN results' = DOMAIN results \cup {DBLen}
        /\ results'[DBLen] = Repeats
        /\ \A l \in DOMAIN results : l # DBLen => results'[l] = results[l]
    BY <1>4, <2>1, RecordedFacts
  <2>3. ASSUME NEW i \in 1..(next' - 1)
        PROVE  Skipped(lengths[i])' \/ Complete(lengths[i])'
    <3>1. i \in 1..(next - 1) \/ i = next
      BY <1>1, <1>4
    <3>2. Skipped(lengths[i]) \/ Complete(lengths[i]) \/ lengths[i] = DBLen
      BY <1>1, <3>1 DEF CourseInv, DBLen
    <3> QED
      BY <1>2, <2>2, <3>2 DEF Skipped, Complete
  <2>4. next' \in 1..(Len(lengths) + 1)
    BY <1>1, <1>4, <2>1
  <2> QED
    BY <1>2, <1>4, <2>2, <2>3, <2>4 DEF CourseInv
<1> QED
  BY <1>1, <1>3, <1>4

LEMMA NextCourse ==
  ASSUME CourseInv, [Next]_vars
  PROVE  CourseInv'
<1>1. CASE Step
  BY <1>1, CreateCourse, QuietSteps, StoreCourse, LengthCourse, MerkleCourse, Zenon DEF Step, Retrieval, Creates
<1>2. CASE UNCHANGED vars
  BY <1>2 DEF vars, config, CourseInv, Skipped, Complete, DBLen
<1> QED
  BY <1>1, <1>2 DEF Next, Terminated

LEMMA NextReply ==
  ASSUME CourseInv, ReplyInv, [Next]_vars
  PROVE  ReplyInv'
<1>1. CASE CreateRandomEllipticWithDigest
  <2>1. PICK n \in NGoRoutines : replies' = [i \in 1..n |-> None]
    BY <1>1 DEF CreateRandomEllipticWithDigest
  <2>2. n \in Sizes
    BY <2>1 DEF NGoRoutines, Sizes
  <2> QED
    BY <2>1, <2>2 DEF ReplyInv
<1>2. CASE \E j \in DOMAIN replies : ComputeDigests(j)
  BY <1>2 DEF ComputeDigests, ReplyInv
<1>3. CASE pc' # "digest"
  BY <1>3 DEF ReplyInv
<1>4. CASE pc' = "digest" /\ UNCHANGED <<pc, replies>>
  BY <1>4 DEF ReplyInv
<1>5. \/ CreateRandomEllipticWithDigest
      \/ \E j \in DOMAIN replies : ComputeDigests(j)
      \/ pc' # "digest"
      \/ pc' = "digest" /\ UNCHANGED <<pc, replies>>
  <2>1. CASE Step
    BY <2>1 DEF Step, Retrieval, Configure, SkipLength, NextLength, Finish, RandomMerkleDB, CreateRandomBinaryLWE,
      CreateRandomBinaryLWE128, CollectDigests, RoutinePanics, AmplifyQueryBytes, LWE128QueryBytes,
      DHQueryBytes, Asks, AmplifyAnswerBytes, LWE128AnswerBytes, DHAnswerBytes, Answers,
      AmplifyReconstructBytes, LWE128ReconstructBytes, DHReconstructBytes, Reconstructs, StoreResults
  <2>2. CASE UNCHANGED vars
    BY <2>2 DEF vars, base
  <2> QED
    BY <2>1, <2>2 DEF Next, Terminated
<1> QED
  BY <1>1, <1>2, <1>3, <1>4, <1>5

\* The lengths and repetitions that are over are the ones recorded.
LEMMA CourseInvariant == Spec => [](CourseInv /\ ReplyInv)
<1>1. CourseInv /\ ReplyInv /\ [Next]_vars => (CourseInv /\ ReplyInv)'
  BY NextCourse, NextReply
<1> QED
  BY <1>1, InitCourse, PTL DEF Spec

\* ResultsAreComplete of Simulation: a simulation that says it terminated
\* successfully has recorded every repetition for every length of its
\* configuration but the skipped ones, in whatever order and however often the
\* configuration lists them.
THEOREM SimulationsAreComplete == Spec => []ResultsAreComplete
<1>1. CourseInv => ResultsAreComplete
  <2> SUFFICES ASSUME CourseInv, pc = "done", NEW i \in DOMAIN lengths
               PROVE  \/ lengths[i] \in DOMAIN results /\ results[lengths[i]] = Repeats
                      \/ primitive = "cmp-vpir-dh" /\ lengths[i] = HugeDB
    BY DEF ResultsAreComplete
  <2>1. next = Len(lengths) + 1
    BY DEF CourseInv
  <2>2. i \in 1..(next - 1)
    <3>1. lengths \in Seq(Nat \ {0})
      BY SimulationAssumption DEF CourseInv
    <3> QED
      BY <2>1, <3>1
  <2> QED
    BY <2>2 DEF CourseInv, Skipped, Complete, Busy, UnderWay
<1> QED
  BY <1>1, CourseInvariant, PTL
-----------------------------------------------------------------------------
(* The database of a length, the one that the server holds, and the digest. *)

LEMMA SideFacts ==
  ASSUME NEW num \in Nat
  PROVE  SquareSide(num) \in Nat
<1> DEFINE T == {s \in Nat : s * s >= num}
<1>1. num \in T
  <2>1. num = 0 \/ num >= 1
    OBVIOUS
  <2>2. num * num >= num
    <3>1. CASE num = 0
      BY <3>1
    <3>2. CASE num >= 1
      <4>1. \A a \in Nat : num * (a + 1) = num * a + num /\ num * a \in Nat
        OBVIOUS
      <4>2. num - 1 \in Nat /\ num = (num - 1) + 1
        BY <3>2
      <4> DEFINE y == num * (num - 1)
      <4>3. num * num = y + num /\ y \in Nat
        BY <4>1, <4>2
      <4> HIDE DEF y
      <4> QED
        BY <4>3
    <3> QED
      BY <2>1, <3>1, <3>2
  <2> QED
    BY <2>2
<1>2. T \subseteq Nat
  OBVIOUS
<1> HIDE DEF T
<1>3. PICK m \in T : \A k \in T : m <= k
  BY <1>1, <1>2, LeastNumber
<1>4. m \in 0..num /\ m * m >= num
  BY <1>1, <1>3 DEF T
<1>5. m = 0 \/ (m - 1) * (m - 1) < num
  <2> SUFFICES ASSUME m # 0, ~((m - 1) * (m - 1) < num) PROVE FALSE
    OBVIOUS
  <2>1. m - 1 \in Nat
    BY <1>4
  <2>2. (m - 1) * (m - 1) \in Nat
    BY <2>1
  <2>3. m - 1 \in T
    BY <2>1, <2>2 DEF T
  <2> QED
    BY <1>3, <1>4, <2>3
<1>6. \E s \in 0..num : s * s >= num /\ (s = 0 \/ (s - 1) * (s - 1) < num)
  BY <1>4, <1>5
<1>7. SquareSide(num) \in 0..num
  BY ONLY <1>6 DEF SquareSide
<1> QED
  BY <1>7

LEMMA SideIs ==
  ASSUME CourseInv, next \in 1..Len(lengths)
  PROVE  Side.rows \in Nat /\ Side.columns = Side.rows
<1>1. DBLen \in Nat
  BY LengthsType DEF DBLen
<1> QED
  BY <1>1, SideFacts DEF Side, CalculateNumRowsAndColumns

IsDatabase(m, side) == IsMatrix(m, side, side, Bits)

LEMMA NewDatabaseIs ==
  ASSUME NEW s \in Nat, NewDatabase(s, s)
  PROVE  IsDatabase(db', s) /\ IsDatabase(held', s)
<1>1. \A bits \in BitMatrices(s * s) : IsDatabase(NewBytes(s, s, bits), s)
  BY DEF NewBytes, BitMatrices, IsDatabase, IsMatrix, Bits
<1>2. /\ \E bits \in BitMatrices(s * s) : db' = NewBytes(s, s, bits)
      /\ \E bits \in BitMatrices(s * s) : held' = NewBytes(s, s, bits)
  BY DEF NewDatabase
<1> QED
  BY <1>1, <1>2

Ready == {"retrieve"} \cup UnderWay

\* The chunks that goroutines have sent, and the digest of the database.
DigestInv ==
  /\ pc \in Busy => IsDatabase(db, Side.rows) /\ IsDatabase(held, Side.rows)
  /\ pc = "digest" =>
       /\ primitive = "cmp-vpir-dh"
       /\ \A i \in DOMAIN replies : replies[i] # None =>
            Begin(i) <= End(i) /\ replies[i] = computeDigests(Begin(i), End(i), db)
  /\ pc \in Ready =>
       digest = CASE primitive = "cmp-vpir-lwe"     -> Digest(db, db.rows)
                  [] primitive = "cmp-vpir-lwe-128" -> Digest128(db, db.rows)
                  [] OTHER                          -> computeDigests(0, db.rows, db)

LEMMA RepliesLen ==
  ASSUME ReplyInv, pc = "digest"
  PROVE  \E n \in Sizes : /\ n \in Nat /\ n > 0 /\ DOMAIN replies = 1..n /\ Len(replies) = n
                          /\ replies = [i \in 1..n |-> replies[i]]
<1>1. PICK n \in Sizes : DOMAIN replies = 1..n /\ replies = [i \in 1..n |-> replies[i]]
  BY DEF ReplyInv
<1>2. n \in Nat /\ n > 0
  BY SimulationAssumption DEF Sizes
<1> DEFINE S == {replies[i] : i \in 1..n}
<1>3. replies \in [1..n -> S]
  BY <1>1
<1> HIDE DEF S
<1>4. Len(replies) = n
  BY ONLY <1>2, <1>3, WholeSeq
<1> QED
  BY <1>1, <1>2, <1>4

LEMMA CreateDigest ==
  ASSUME CourseInv, Creates
  PROVE  DigestInv'
<1>1. /\ pc = "length" /\ next \in 1..Len(lengths) /\ UNCHANGED <<config, next>>
      /\ NewDatabase(Side.rows, Side.columns)
  <2>1. pc = "length" /\ next <= Len(lengths) /\ UNCHANGED <<config, next>>
        /\ NewDatabase(Side.rows, Side.columns)
    BY DEF Creates, CreateRandomBinaryLWE, CreateRandomBinaryLWE128, CreateRandomEllipticWithDigest
  <2> QED
    BY <2>1, LengthsType DEF CourseInv
<1>2. IsDatabase(db', Side.rows) /\ IsDatabase(held', Side.rows)
  BY <1>1, SideIs, NewDatabaseIs
<1>3. primitive' = primitive /\ Side' = Side
  BY <1>1 DEF config, Side, DBLen
<1>4. CASE CreateRandomBinaryLWE
  <2>1. primitive = "cmp-vpir-lwe" /\ digest' = Digest(db', db'.rows) /\ pc' # "digest"
    BY <1>4 DEF CreateRandomBinaryLWE
  <2> QED
    BY <1>2, <1>3, <2>1 DEF DigestInv
<1>5. CASE CreateRandomBinaryLWE128
  <2>1. primitive = "cmp-vpir-lwe-128" /\ digest' = Digest128(db', db'.rows) /\ pc' # "digest"
    BY <1>5 DEF CreateRandomBinaryLWE128
  <2> QED
    BY <1>2, <1>3, <2>1 DEF DigestInv
<1>6. CASE CreateRandomEllipticWithDigest
  <2>1. primitive = "cmp-vpir-dh" /\ pc' = "digest" /\ \E n \in NGoRoutines : replies' = [i \in 1..n |-> None]
    BY <1>6 DEF CreateRandomEllipticWithDigest
  <2> QED
    BY <1>2, <1>3, <2>1 DEF DigestInv, Ready, UnderWay
<1> QED
  BY <1>4, <1>5, <1>6 DEF Creates

\* The steps that leave database and digest alone.
LEMMA QuietDigest ==
  ASSUME DigestInv, UNCHANGED <<config, next, db, held, digest>>,
         pc' \in Busy => pc' \in Ready /\ pc \in Ready
  PROVE  DigestInv'
<1>1. primitive' = primitive /\ Side' = Side /\ db' = db /\ held' = held /\ digest' = digest
  BY DEF config, Side, DBLen
<1> QED
  BY <1>1 DEF DigestInv, Ready, Busy, UnderWay

LEMMA ComputesDigest ==
  ASSUME ReplyInv, DigestInv, NEW j \in DOMAIN replies, ComputeDigests(j)
  PROVE  DigestInv'
<1>1. /\ pc = "digest" /\ pc' = "digest" /\ Begin(j) <= End(j)
      /\ replies' = [replies EXCEPT ![j] = computeDigests(Begin(j), End(j), db)]
      /\ primitive' = primitive /\ Side' = Side /\ db' = db /\ held' = held
  BY DEF ComputeDigests, config, Side, DBLen
<1>2. PICK n \in Sizes : /\ n \in Nat /\ n > 0 /\ DOMAIN replies = 1..n /\ Len(replies) = n
                         /\ replies = [i \in 1..n |-> replies[i]]
  BY <1>1, RepliesLen
<1>3. DOMAIN replies' = 1..n /\ Len(replies') = n
  <2>1. replies' = [i \in 1..n |-> replies'[i]]
    BY <1>1, <1>2
  <2> DEFINE S == {replies'[i] : i \in 1..n}
  <2>2. replies' \in [1..n -> S]
    BY <2>1
  <2> HIDE DEF S
  <2> QED
    BY ONLY <1>2, <2>2, WholeSeq
<1>4. \A i \in DOMAIN replies : Begin(i)' = Begin(i) /\ End(i)' = End(i)
  BY <1>1, <1>2, <1>3 DEF Begin, End, rowsPerRoutine
<1>5. ASSUME NEW i \in DOMAIN replies', replies'[i] # None
      PROVE  Begin(i)' <= End(i)' /\ replies'[i] = computeDigests(Begin(i)', End(i)', db')
  <2>1. i \in DOMAIN replies
    BY <1>2, <1>3
  <2>2. CASE i = j
    <3>1. replies'[i] = computeDigests(Begin(j), End(j), db)
      BY <1>1, <2>1, <2>2
    <3> QED
      BY <1>1, <1>4, <2>1, <2>2, <3>1
  <2>3. CASE i # j
    <3>1. replies'[i] = replies[i]
      BY <1>1, <2>1, <2>3
    <3>2. Begin(i) <= End(i) /\ replies[i] = computeDigests(Begin(i), End(i), db)
      BY <1>1, <1>5, <2>1, <3>1 DEF DigestInv
    <3> QED
      BY <1>1, <1>4, <2>1, <3>1, <3>2
  <2> QED
    BY <2>2, <2>3
<1> QED
  BY <1>1, <1>5 DEF DigestInv, Busy, Ready, UnderWay

LEMMA CollectsDigest ==
  ASSUME CourseInv, ReplyInv, DigestInv, CollectDigests
  PROVE  DigestInv'
<1>1. /\ pc = "digest" /\ pc' = "retrieve" /\ \A i \in DOMAIN replies : replies[i] # None
      /\ digest' = FlattenSeq(replies)
      /\ primitive' = primitive /\ Side' = Side /\ db' = db /\ held' = held
  BY DEF CollectDigests, config, Side, DBLen
<1>2. PICK n \in Sizes : /\ n \in Nat /\ n > 0 /\ DOMAIN replies = 1..n /\ Len(replies) = n
                         /\ replies = [i \in 1..n |-> replies[i]]
  BY <1>1, RepliesLen
<1>3. db.rows \in Nat /\ db.cols \in Nat
  <2>1. next \in 1..Len(lengths)
    BY <1>1 DEF CourseInv, Busy
  <2>2. Side.rows \in Nat
    BY <2>1, SideIs
  <2> QED
    BY <1>1, <2>2 DEF DigestInv, IsDatabase, IsMatrix, Busy
<1> DEFINE rows == db.rows
           share == (rows + n - 1) \div n
<1>4. share \in Nat /\ n * share >= rows /\ \A i \in 0..n : i * share \in Nat
  BY <1>2, <1>3, SharesCover
<1>5. ASSUME NEW i \in 1..n
      PROVE  /\ (i - 1) * share <= Least(i * share, rows)
             /\ replies[i] = computeDigests((i - 1) * share, Least(i * share, rows), db)
  BY <1>1, <1>2 DEF DigestInv, Begin, End, rowsPerRoutine
<1>6. Covers(n, share, rows) /\ Sent(replies, n, share, rows, db) /\ db.cols \in Nat
  BY <1>2, <1>3, <1>4, <1>5, Zenon DEF Covers, Sent
<1> HIDE DEF share, rows
<1>7. FlattenSeq(replies) = computeDigests(0, rows, db)
  BY <1>6, ChunksCover, Zenon
<1> QED
  BY <1>1, <1>7 DEF DigestInv, Busy, Ready, UnderWay, rows

LEMMA NextDigest ==
  ASSUME CourseInv, ReplyInv, DigestInv, [Next]_vars
  PROVE  DigestInv'
<1>1. CASE Creates
  BY <1>1, CreateDigest
<1>2. CASE \E j \in DOMAIN replies : ComputeDigests(j)
  BY <1>2, ComputesDigest
<1>3. CASE CollectDigests
  BY <1>3, CollectsDigest
<1>4. CASE \/ Configure \/ SkipLength \/ NextLength \/ Finish \/ RandomMerkleDB
           \/ \E j \in DOMAIN replies : RoutinePanics(j)
  <2>1. pc' \notin Busy
    BY <1>4 DEF Configure, SkipLength, NextLength, Finish, RandomMerkleDB, RoutinePanics, Busy, UnderWay
  <2> QED
    BY <2>1 DEF DigestInv, Busy, Ready
<1>5. CASE Retrieval
  <2>1. UNCHANGED <<config, next, db, held, digest>> /\ pc \in Ready
    BY <1>5 DEF Retrieval, AmplifyQueryBytes, LWE128QueryBytes,
      DHQueryBytes, Asks, AmplifyAnswerBytes, LWE128AnswerBytes, DHAnswerBytes, Answers,
      AmplifyReconstructBytes, LWE128ReconstructBytes, DHReconstructBytes, Reconstructs, StoreResults,
      base, Ready, UnderWay
  <2>2. pc' \in Ready \cup {"fatal"}
    BY <1>5 DEF Retrieval, AmplifyQueryBytes, LWE128QueryBytes,
      DHQueryBytes, Asks, AmplifyAnswerBytes, LWE128AnswerBytes, DHAnswerBytes, Answers,
      AmplifyReconstructBytes, LWE128ReconstructBytes, DHReconstructBytes, Reconstructs, StoreResults,
      Ready, UnderWay
  <2> QED
    BY <2>1, <2>2, QuietDigest DEF Busy, Ready, UnderWay
<1>6. CASE UNCHANGED vars
  BY <1>6 DEF vars, config, base, DigestInv, Side, DBLen, Begin, End, rowsPerRoutine
<1> QED
  BY <1>1, <1>2, <1>3, <1>4, <1>5, <1>6 DEF Next, Step, Creates, Terminated

\* The digest is the one of the database, by whatever way it was computed.
LEMMA DigestInvariant == Spec => [](CourseInv /\ ReplyInv /\ DigestInv)
<1>1. Init => CourseInv /\ ReplyInv /\ DigestInv
  <2>1. Init => DigestInv
    BY DEF Init, DigestInv, Busy, Ready, UnderWay
  <2> QED
    BY <2>1, InitCourse
<1>2. (CourseInv /\ ReplyInv /\ DigestInv) /\ [Next]_vars => (CourseInv /\ ReplyInv /\ DigestInv)'
  BY NextCourse, NextReply, NextDigest
<1> QED
  BY <1>1, <1>2, PTL DEF Spec

\* DigestsInOrder of Simulation: the digest of an elliptic database lists the
\* digests of its rows once and in order, for any number of rows and of
\* goroutines and whichever goroutine ends first.
THEOREM DigestsAreInOrder == Spec => []DigestsInOrder
<1>1. DigestInv => DigestsInOrder
  BY DEF DigestInv, DigestsInOrder, Ready
<1> QED
  BY <1>1, DigestInvariant, PTL
-----------------------------------------------------------------------------
(* How much is left of a simulation.                                        *)

Goroutines == SmallRoutines + Cardinality(UNION {1..n : n \in NumCPUs})

LEMMA GoroutinesBound ==
  /\ SmallRoutines \in Nat /\ Goroutines \in Nat
  /\ Cardinality(UNION {1..n : n \in NumCPUs}) \in Nat
  /\ \A n \in Sizes : n \in Nat /\ n > 0 /\ n <= Goroutines
<1> DEFINE U == UNION {1..n : n \in NumCPUs}
<1>1. /\ SmallRoutines \in Nat /\ SmallRoutines > 0 /\ IsFiniteSet(NumCPUs)
      /\ \A n \in NumCPUs : n \in Nat /\ n > 0
  BY SimulationAssumption
<1>2. IsFiniteSet(U)
  <2>1. CASE NumCPUs = {}
    <3>1. U = {}
      BY <2>1
    <3> QED
      BY <3>1, FS_EmptySet
  <2>2. CASE NumCPUs # {}
    <3>1. NumCPUs \subseteq Int
      BY <1>1
    <3>2. PICK m \in NumCPUs : \A n \in NumCPUs : n <= m
      BY <1>1, <2>2, <3>1, GreatestNumber
    <3>3. U \subseteq 1..m
      BY <1>1, <3>2
    <3>4. IsFiniteSet(1..m)
      BY <1>1, <3>2, FS_Interval
    <3> HIDE DEF U
    <3> QED
      BY <3>3, <3>4, FS_Subset
  <2> QED
    BY <2>1, <2>2
<1>3. Cardinality(U) \in Nat
  BY <1>2, FS_CardinalityType
<1>4. ASSUME NEW n \in NumCPUs
      PROVE  n <= Cardinality(U)
  <2>1. 1..n \in SUBSET U
    OBVIOUS
  <2>2. Cardinality(1..n) = n
    <3>1. Cardinality(1..n) = IF 1 > n THEN 0 ELSE n - 1 + 1
      BY <1>1, FS_Interval
    <3> QED
      BY <1>1, <3>1
  <2> HIDE DEF U
  <2> QED
    BY <1>2, <2>1, <2>2, FS_Subset
<1> HIDE DEF U
<1>5. Goroutines = SmallRoutines + Cardinality(U)
  BY DEF Goroutines, U
<1>6. Goroutines \in Nat /\ \A n \in Sizes : n \in Nat /\ n > 0 /\ n <= Goroutines
  BY <1>1, <1>3, <1>4, <1>5 DEF Sizes
<1> QED
  BY <1>1, <1>3, <1>6, Zenon DEF U

NotSent(sent) == {i \in DOMAIN sent : sent[i] = None}

LEMMA NotSentBound ==
  ASSUME NEW n \in Sizes, NEW sent, DOMAIN sent = 1..n
  PROVE  /\ IsFiniteSet(NotSent(sent))
         /\ Cardinality(NotSent(sent)) \in Nat /\ Cardinality(NotSent(sent)) <= Goroutines
<1>1. n \in Nat /\ n > 0 /\ n <= Goroutines /\ Goroutines \in Nat
  BY GoroutinesBound
<1> DEFINE S == NotSent(sent)
<1>2. S \in SUBSET (1..n)
  BY DEF NotSent
<1> HIDE DEF S
<1>3. IsFiniteSet(1..n) /\ Cardinality(1..n) = n
  <2>1. IsFiniteSet(1..n) /\ Cardinality(1..n) = IF 1 > n THEN 0 ELSE n - 1 + 1
    BY <1>1, FS_Interval
  <2> QED
    BY <1>1, <2>1
<1>4. IsFiniteSet(S) /\ Cardinality(S) <= n
  <2>1. IsFiniteSet(S) /\ Cardinality(S) <= Cardinality(1..n)
    BY ONLY <1>2, <1>3, FS_Subset
  <2> QED
    BY <1>3, <2>1
<1>5. Cardinality(S) \in Nat
  BY <1>4, FS_CardinalityType
<1> QED
  BY <1>1, <1>4, <1>5 DEF S

LEMMA PendingIs == Pending = Cardinality(NotSent(replies))
BY DEF Pending, NotSent

\* One length counts for more than all its steps.
LEMMA PerLengthFacts ==
  ASSUME CourseInv
  PROVE  /\ PerLength \in Nat /\ PerLength = 4 * Repeats + Goroutines + 3
         /\ Repeats \in Nat /\ Repeats > 0 /\ Goroutines \in Nat
         /\ \A a \in Nat : a * PerLength \in Nat /\ (a + 1) * PerLength = a * PerLength + PerLength
<1>1. Repeats \in Nat /\ Repeats > 0 /\ Goroutines \in Nat /\ SmallRoutines \in Nat
  BY LengthsType, GoroutinesBound
<1> DEFINE u == Cardinality(UNION {1..n : n \in NumCPUs})
<1>2. Goroutines = SmallRoutines + u /\ PerLength = 4 * Repeats + SmallRoutines + u + 3
  BY DEF Goroutines, PerLength
<1>3. u \in Nat
  BY GoroutinesBound
<1> HIDE DEF u
<1>4. PerLength \in Nat /\ PerLength = 4 * Repeats + Goroutines + 3
  BY <1>1, <1>2, <1>3
<1>5. \A a \in Nat : a * PerLength \in Nat /\ (a + 1) * PerLength = a * PerLength + PerLength
  BY <1>4
<1> QED
  BY <1>1, <1>4, <1>5

\* What is left to do before the lengths that are not under way.
LengthsLeft == (Len(lengths) - next) * PerLength

LEMMA LeftFacts ==
  ASSUME CourseInv
  PROVE  /\ next <= Len(lengths) => /\ LengthsLeft \in Nat
                                    /\ (Len(lengths) + 1 - next) * PerLength = LengthsLeft + PerLength
         /\ (Len(lengths) + 1 - next) * PerLength \in Nat
<1>1. next \in Nat /\ Len(lengths) \in Nat /\ next <= Len(lengths) + 1
  BY LengthsType DEF CourseInv
<1>2. Len(lengths) + 1 - next \in Nat
  BY <1>1
<1>3. ASSUME next <= Len(lengths)
      PROVE  /\ LengthsLeft \in Nat
             /\ (Len(lengths) + 1 - next) * PerLength = LengthsLeft + PerLength
  <2>1. Len(lengths) - next \in Nat /\ (Len(lengths) - next) + 1 = Len(lengths) + 1 - next
    BY <1>1, <1>3
  <2> QED
    BY <2>1, PerLengthFacts DEF LengthsLeft
<1> QED
  BY <1>2, <1>3, PerLengthFacts

\* What is left under way is positive, whatever remains of the length.
LEMMA BusyLeft ==
  ASSUME CourseInv, ReplyInv, pc \in Busy
  PROVE  /\ LengthsLeft \in Nat /\ results[DBLen] \in 0..Repeats
         /\ ToRetrieve = LengthsLeft + 4 * (Repeats - results[DBLen]) /\ ToRetrieve \in Nat
         /\ pc = "digest" => Remaining = ToRetrieve + 3 + Pending
         /\ pc = "retrieve" => Remaining = ToRetrieve + 2
         /\ pc = "asked" => Remaining = ToRetrieve + 1
         /\ pc = "answered" => Remaining = ToRetrieve
         /\ pc = "reconstructed" => Remaining = ToRetrieve - 1
<1>1. next <= Len(lengths) /\ results[DBLen] \in 0..Repeats
  BY DEF CourseInv
<1>2. Repeats \in Nat /\ LengthsLeft \in Nat
  BY <1>1, LengthsType, LeftFacts
<1>3. ToRetrieve = LengthsLeft + 4 * (Repeats - results[DBLen])
  BY DEF ToRetrieve, LengthsLeft
<1>4. ToRetrieve \in Nat
  BY <1>1, <1>2, <1>3
<1>5. /\ pc = "digest" => Remaining = ToRetrieve + 3 + Pending
      /\ pc = "retrieve" => Remaining = ToRetrieve + 2
      /\ pc = "asked" => Remaining = ToRetrieve + 1
      /\ pc = "answered" => Remaining = ToRetrieve
      /\ pc = "reconstructed" => Remaining = ToRetrieve - 1
  BY DEF Remaining, Ended
<1> QED
  BY <1>1, <1>2, <1>3, <1>4, <1>5

LEMMA LengthLeft ==
  ASSUME CourseInv
  PROVE  /\ pc = "config" => Remaining = (Len(lengths) + 2) * PerLength
         /\ pc = "length" => Remaining = (Len(lengths) + 1 - next) * PerLength + 1
         /\ pc \in Ended => Remaining = 0
BY DEF Remaining, Ended

LEMMA CreateCounts ==
  ASSUME CourseInv, Creates, CourseInv', ReplyInv'
  PROVE  Remaining' < Remaining
<1>1. /\ pc = "length" /\ next <= Len(lengths) /\ UNCHANGED <<config, next>> /\ results' = Recorded(0)
      /\ pc' \in {"digest", "retrieve", "panic"}
  BY DEF Creates, CreateRandomBinaryLWE, CreateRandomBinaryLWE128, CreateRandomEllipticWithDigest
<1>2. Remaining = LengthsLeft + PerLength + 1 /\ LengthsLeft \in Nat
  BY <1>1, LengthLeft, LeftFacts
<1>3. /\ PerLength = 4 * Repeats + Goroutines + 3
      /\ Repeats \in Nat /\ Goroutines \in Nat /\ PerLength \in Nat
  BY PerLengthFacts
<1>4. LengthsLeft' = LengthsLeft /\ DBLen' = DBLen /\ results'[DBLen'] = 0
  <2>1. DBLen' = DBLen /\ LengthsLeft' = LengthsLeft
    BY <1>1 DEF LengthsLeft, DBLen, config, PerLength
  <2>2. 0 \in 0..Repeats
    BY <1>3
  <2> QED
    BY <1>1, <2>1, <2>2, RecordedFacts
<1>5. CASE pc' = "panic"
  <2>1. Remaining' = 0
    BY <1>5 DEF Remaining, Ended
  <2> QED
    BY <1>2, <1>3, <2>1
<1>6. CASE pc' = "retrieve"
  <2>1. Remaining' = ToRetrieve' + 2 /\ ToRetrieve' = LengthsLeft' + 4 * (Repeats - results'[DBLen'])
    BY <1>6 DEF Remaining, ToRetrieve, LengthsLeft, Ended
  <2> QED
    BY <1>2, <1>3, <1>4, <2>1
<1>7. CASE pc' = "digest"
  <2>1. Remaining' = ToRetrieve' + 3 + Pending' /\ ToRetrieve' = LengthsLeft' + 4 * (Repeats - results'[DBLen'])
    BY <1>7 DEF Remaining, ToRetrieve, LengthsLeft, Ended
  <2> DEFINE p == Cardinality(NotSent(replies'))
             left == LengthsLeft
  <2>2. p \in Nat /\ p <= Goroutines
    <3>1. \E n \in Sizes : DOMAIN replies' = 1..n
      BY <1>7 DEF ReplyInv
    <3> QED
      BY <3>1, NotSentBound
  <2>3. Pending' = p
    BY DEF Pending, NotSent
  <2> HIDE DEF p
  <2>4. Remaining' = left + 4 * Repeats + 3 + p
    BY <1>2, <1>3, <1>4, <2>1, <2>2, <2>3
  <2> QED
    BY <1>2, <1>3, <2>2, <2>4
<1> QED
  BY <1>1, <1>5, <1>6, <1>7

LEMMA ComputeCounts ==
  ASSUME CourseInv, ReplyInv, DigestInv, NEW j \in DOMAIN replies, ComputeDigests(j), CourseInv', ReplyInv'
  PROVE  Remaining' < Remaining
<1>1. /\ pc = "digest" /\ pc' = "digest" /\ replies[j] = None /\ Begin(j) <= End(j)
      /\ replies' = [replies EXCEPT ![j] = computeDigests(Begin(j), End(j), db)]
      /\ UNCHANGED <<config, next, results>>
  BY DEF ComputeDigests
<1>2. PICK n \in Sizes : /\ n \in Nat /\ n > 0 /\ DOMAIN replies = 1..n /\ Len(replies) = n
                         /\ replies = [i \in 1..n |-> replies[i]]
  BY <1>1, RepliesLen
<1>3. computeDigests(Begin(j), End(j), db) # None
  <2>1. db.rows \in Nat /\ db.cols \in Nat
    <3>1. next \in 1..Len(lengths)
      BY <1>1 DEF CourseInv, Busy
    <3>2. Side.rows \in Nat
      BY <3>1, SideIs
    <3> QED
      BY <1>1, <3>2 DEF DigestInv, IsDatabase, IsMatrix, Busy
  <2>2. Begin(j) \in Nat /\ End(j) \in Nat
    <3> DEFINE rows == db.rows
               share == (rows + n - 1) \div n
    <3>1. share \in Nat /\ \A i \in 0..n : i * share \in Nat
      BY <1>2, <2>1, SharesCover
    <3>2. j - 1 \in 0..n /\ j \in 0..n
      BY <1>2
    <3>3. rowsPerRoutine = share
      BY <1>2 DEF rowsPerRoutine
    <3> HIDE DEF share
    <3>4. (j - 1) * share \in Nat /\ j * share \in Nat
      BY <3>1, <3>2
    <3>5. Begin(j) \in Nat
      BY <3>3, <3>4 DEF Begin
    <3>6. End(j) \in Nat
      BY <2>1, <3>3, <3>4 DEF End, Least
    <3> QED
      BY <3>5, <3>6
  <2> DEFINE begin == Begin(j)
             end == End(j)
             c == db.cols
  <2>3. begin \in Nat /\ end \in Nat /\ begin <= end /\ c \in Nat /\ db.cols = c
    BY <1>1, <2>1, <2>2
  <2> HIDE DEF begin, end, c
  <2>4. computeDigests(begin, end, db) \in Seq(Exponent)
    <3>1. /\ computeDigests(begin, end, db) = Flattening(Chunk(db, begin, end))
          /\ Chunk(db, begin, end) \in Seq(Seq(Exponent))
      BY <2>3, ChunkIs, Zenon
    <3> QED
      BY <3>1, FlattenType, Zenon
  <2>5. computeDigests(begin, end, db) \in Seq(Nat)
    <3>1. Exponent \subseteq Nat
      BY SingleServerAssumption DEF Exponent
    <3> QED
      BY ONLY <2>4, <3>1, SequenceOfMore, Zenon
  <2>6. None \notin Seq(Nat)
    BY SimulationAssumption
  <2> QED
    BY <2>5, <2>6, Zenon DEF begin, end
<1>4. NotSent(replies') = NotSent(replies) \ {j} /\ j \in NotSent(replies)
  BY <1>1, <1>2, <1>3 DEF NotSent
<1> DEFINE S == NotSent(replies)
<1>5. IsFiniteSet(S) /\ Cardinality(S) \in Nat
  BY <1>2, NotSentBound
<1>6. Cardinality(S \ {j}) = Cardinality(S) - 1
  <2> HIDE DEF S
  <2> QED
    BY <1>4, <1>5, FS_RemoveElement DEF S
<1>7. Pending = Cardinality(S) /\ Pending' = Cardinality(S \ {j})
  <2>1. Pending' = Cardinality(NotSent(replies'))
    BY DEF Pending, NotSent
  <2> QED
    BY <1>4, <2>1, PendingIs
<1>8. ToRetrieve' = ToRetrieve
  BY <1>1 DEF ToRetrieve, config, DBLen, PerLength
<1>9. Remaining' = ToRetrieve' + 3 + Pending'
  BY <1>1 DEF Remaining, Ended
<1>10. Remaining = ToRetrieve + 3 + Pending /\ ToRetrieve \in Nat
  BY <1>1, BusyLeft DEF Busy
<1> HIDE DEF S
<1> QED
  BY <1>5, <1>6, <1>7, <1>8, <1>9, <1>10

LEMMA RetrievalCounts ==
  ASSUME CourseInv, ReplyInv, Retrieval
  PROVE  Remaining' < Remaining
<1>1. /\ pc \in {"retrieve"} \cup UnderWay /\ UNCHANGED <<config, next>>
      /\ LengthsLeft' = LengthsLeft /\ DBLen' = DBLen
  <2>1. pc \in {"retrieve"} \cup UnderWay /\ UNCHANGED <<config, next>>
    BY DEF Retrieval, AmplifyQueryBytes, LWE128QueryBytes,
      DHQueryBytes, Asks, AmplifyAnswerBytes, LWE128AnswerBytes, DHAnswerBytes, Answers,
      AmplifyReconstructBytes, LWE128ReconstructBytes, DHReconstructBytes, Reconstructs, StoreResults,
      UnderWay
  <2> QED
    BY <2>1 DEF LengthsLeft, config, DBLen, PerLength
<1>2. /\ LengthsLeft \in Nat /\ results[DBLen] \in 0..Repeats /\ ToRetrieve \in Nat
      /\ ToRetrieve = LengthsLeft + 4 * (Repeats - results[DBLen])
      /\ Repeats \in Nat
  BY <1>1, BusyLeft, LengthsType DEF Busy
<1>3. ToRetrieve' = LengthsLeft + 4 * (Repeats - results'[DBLen])
  BY <1>1 DEF ToRetrieve, LengthsLeft, DBLen, config, PerLength
<1>6. CASE pc = "asked" /\ pc' = "fatal"
  <2>1. Remaining' = 0
    BY <1>6 DEF Remaining, Ended
  <2>2. Remaining = ToRetrieve + 1
    BY <1>1, <1>6, BusyLeft DEF Busy
  <2> QED
    BY <1>2, <2>1, <2>2
<1>4. CASE UNCHANGED results /\ \/ pc = "retrieve" /\ pc' = "asked"
                                \/ pc = "asked" /\ pc' = "answered"
                                \/ pc = "answered" /\ pc' = "reconstructed"
  <2>1. ToRetrieve' = ToRetrieve
    BY <1>2, <1>3, <1>4
  <2>2. /\ pc = "retrieve" => Remaining = ToRetrieve + 2
        /\ pc = "asked" => Remaining = ToRetrieve + 1
        /\ pc = "answered" => Remaining = ToRetrieve
    BY <1>1, BusyLeft DEF Busy
  <2>3. /\ pc' = "asked" => Remaining' = ToRetrieve' + 1
        /\ pc' = "answered" => Remaining' = ToRetrieve'
        /\ pc' = "reconstructed" => Remaining' = ToRetrieve' - 1
    BY DEF Remaining, Ended
  <2> QED
    BY <1>2, <1>4, <2>1, <2>2, <2>3
<1>5. CASE StoreResults
  <2>1. /\ pc = "reconstructed"
        /\ \/ pc' = "retrieve" /\ results' = [results EXCEPT ![DBLen] = @ + 1]
           \/ pc' = "fatal"
    BY <1>5 DEF StoreResults
  <2>2. Remaining = ToRetrieve - 1 /\ results[DBLen] < Repeats /\ DBLen \in DOMAIN results
    BY <2>1, BusyLeft DEF CourseInv, Busy, UnderWay
  <2>3. CASE pc' = "fatal"
    <3>1. Remaining' = 0
      BY <2>3 DEF Remaining, Ended
    <3> QED
      BY <1>2, <2>2, <3>1
  <2>4. CASE pc' = "retrieve" /\ results' = [results EXCEPT ![DBLen] = @ + 1]
    <3>1. Remaining' = ToRetrieve' + 2
      BY <2>4 DEF Remaining, Ended
    <3>2. results'[DBLen] = results[DBLen] + 1
      BY <2>2, <2>4 DEF CourseInv
    <3> QED
      BY <1>2, <1>3, <2>2, <3>1, <3>2
  <2> QED
    BY <2>1, <2>3, <2>4
<1> QED
  BY <1>4, <1>5, <1>6 DEF Retrieval, AmplifyQueryBytes, LWE128QueryBytes,
      DHQueryBytes, Asks, AmplifyAnswerBytes, LWE128AnswerBytes, DHAnswerBytes, Answers,
      AmplifyReconstructBytes, LWE128ReconstructBytes, DHReconstructBytes, Reconstructs

LEMMA MerkleCounts ==
  ASSUME CourseInv, RandomMerkleDB
  PROVE  Remaining' < Remaining
<1>1. /\ PerLength = 4 * Repeats + Goroutines + 3
      /\ Repeats \in Nat /\ Goroutines \in Nat /\ PerLength \in Nat
  BY PerLengthFacts
<1>2. pc = "length" /\ next <= Len(lengths) /\ UNCHANGED config
      /\ (pc' \in {"fatal", "panic"} \/ (pc' = "length" /\ next' = next + 1))
  BY DEF RandomMerkleDB
<1>3. Len(lengths) \in Nat /\ next \in Nat
  BY LengthsType DEF CourseInv
<1>4. LengthsLeft \in Nat /\ (Len(lengths) + 1 - next) * PerLength = LengthsLeft + PerLength
  BY <1>2, LeftFacts
<1>5. Remaining = LengthsLeft + PerLength + 1
  BY <1>2, <1>4, LengthLeft
<1>6. CASE pc' \in {"fatal", "panic"}
  <2>1. Remaining' = 0
    BY <1>6 DEF Remaining, Ended
  <2> QED
    BY <1>1, <1>4, <1>5, <2>1
<1>7. CASE pc' = "length" /\ next' = next + 1
  <2>1. Remaining' = (Len(lengths') + 1 - next') * PerLength' + 1
    BY <1>7 DEF Remaining, Ended
  <2>2. lengths' = lengths /\ PerLength' = PerLength
    BY <1>2 DEF config, PerLength
  <2>3. Len(lengths) + 1 - next' = Len(lengths) - next
    BY <1>3, <1>7
  <2>4. Remaining' = LengthsLeft + 1
    BY <2>1, <2>2, <2>3 DEF LengthsLeft
  <2> QED
    BY <1>1, <1>4, <1>5, <2>4
<1> QED
  BY <1>2, <1>6, <1>7

LEMMA LengthCounts ==
  ASSUME CourseInv, ReplyInv,
         \/ Configure \/ SkipLength \/ NextLength \/ Finish \/ CollectDigests
         \/ \E j \in DOMAIN replies : RoutinePanics(j)
  PROVE  Remaining' < Remaining
<1>1. /\ PerLength = 4 * Repeats + Goroutines + 3
      /\ Repeats \in Nat /\ Goroutines \in Nat /\ PerLength \in Nat
  BY PerLengthFacts
<1>2. Len(lengths) \in Nat /\ next \in Nat
  BY LengthsType DEF CourseInv
<1>3. CASE Configure
  <2>1. pc = "config" /\ next = 1 /\ UNCHANGED <<config, next>> /\ pc' \in {"length", "fatal"}
    BY <1>3 DEF Configure, CourseInv
  <2> DEFINE n == Len(lengths)
             y == n * PerLength
  <2>2. Remaining = (n + 2) * PerLength
    BY <2>1, LengthLeft
  <2>3. y \in Nat /\ (n + 1) * PerLength = y + PerLength
    BY <1>2, PerLengthFacts
  <2>4. (n + 2) * PerLength = (n + 1) * PerLength + PerLength
    <3>1. n + 1 \in Nat /\ (n + 1) + 1 = n + 2
      BY <1>2
    <3> QED
      BY <3>1, PerLengthFacts
  <2>5. pc' = "fatal" => Remaining' = 0
    BY DEF Remaining, Ended
  <2>6. pc' = "length" => Remaining' = y + 1
    <3>1. pc' = "length" => Remaining' = (Len(lengths') + 1 - next') * PerLength' + 1
      BY DEF Remaining, Ended
    <3>2. lengths' = lengths /\ next' = 1 /\ PerLength' = PerLength
      BY <2>1 DEF config, PerLength
    <3>3. Len(lengths) + 1 - 1 = n
      BY <1>2
    <3> QED
      BY <3>1, <3>2, <3>3
  <2> HIDE DEF n, y
  <2> QED
    BY <1>1, <2>1, <2>2, <2>3, <2>4, <2>5, <2>6
<1>4. CASE SkipLength \/ NextLength
  <2>1. /\ pc \in {"length", "retrieve"} /\ pc' = "length" /\ next <= Len(lengths) /\ next' = next + 1
        /\ UNCHANGED <<config, results>>
        /\ (pc = "retrieve" => results[DBLen] = Repeats)
    BY <1>2, <1>4 DEF SkipLength, NextLength, CourseInv, Busy
  <2>2. LengthsLeft \in Nat /\ (Len(lengths) + 1 - next) * PerLength = LengthsLeft + PerLength
    BY <2>1, LeftFacts
  <2>3. Remaining' = LengthsLeft + 1
    <3>1. Remaining' = (Len(lengths') + 1 - next') * PerLength' + 1
      BY <2>1 DEF Remaining, Ended
    <3>2. lengths' = lengths /\ PerLength' = PerLength
      BY <2>1 DEF config, PerLength
    <3>3. Len(lengths) + 1 - next' = Len(lengths) - next
      BY <1>2, <2>1
    <3> QED
      BY <3>1, <3>2, <3>3 DEF LengthsLeft
  <2>4. CASE pc = "length"
    <3>1. Remaining = LengthsLeft + PerLength + 1
      BY <2>2, <2>4, LengthLeft
    <3> QED
      BY <1>1, <2>2, <2>3, <3>1
  <2>5. CASE pc = "retrieve"
    <3>1. Remaining = ToRetrieve + 2 /\ ToRetrieve = LengthsLeft + 4 * (Repeats - results[DBLen])
      BY <2>5, BusyLeft DEF Busy
    <3>2. Remaining = LengthsLeft + 2
      BY <1>1, <2>1, <2>2, <2>5, <3>1
    <3> QED
      BY <2>2, <2>3, <3>2
  <2> QED
    BY <2>1, <2>4, <2>5
<1>5. CASE Finish
  <2>1. pc = "length" /\ pc' = "done"
    BY <1>5 DEF Finish
  <2>2. Remaining = (Len(lengths) + 1 - next) * PerLength + 1 /\ (Len(lengths) + 1 - next) * PerLength \in Nat
    BY <2>1, LengthLeft, LeftFacts
  <2>3. Remaining' = 0
    BY <2>1 DEF Remaining, Ended
  <2> DEFINE y == (Len(lengths) + 1 - next) * PerLength
  <2> HIDE DEF y
  <2>4. Remaining = y + 1 /\ y \in Nat
    BY <2>2 DEF y
  <2> QED
    BY <2>3, <2>4
<1>6. CASE CollectDigests
  <2>1. pc = "digest" /\ pc' = "retrieve" /\ UNCHANGED <<config, next, results>>
    BY <1>6 DEF CollectDigests
  <2>2. Remaining = ToRetrieve + 3 + Pending /\ ToRetrieve \in Nat
    BY <2>1, BusyLeft DEF Busy
  <2>3. Pending \in Nat
    BY <2>1, NotSentBound, PendingIs DEF ReplyInv
  <2>4. Remaining' = ToRetrieve' + 2 /\ ToRetrieve' = ToRetrieve
    BY <2>1 DEF Remaining, Ended, ToRetrieve, config, DBLen, PerLength
  <2> QED
    BY <2>2, <2>3, <2>4
<1>7. CASE \E j \in DOMAIN replies : RoutinePanics(j)
  <2>1. pc = "digest" /\ pc' = "panic"
    BY <1>7 DEF RoutinePanics
  <2>2. Remaining = ToRetrieve + 3 + Pending /\ ToRetrieve \in Nat
    BY <2>1, BusyLeft DEF Busy
  <2>3. Pending \in Nat
    BY <2>1, NotSentBound, PendingIs DEF ReplyInv
  <2>4. Remaining' = 0
    BY <2>1 DEF Remaining, Ended
  <2> QED
    BY <2>2, <2>3, <2>4
<1> QED
  BY <1>3, <1>4, <1>5, <1>6, <1>7

\* StepsCountDown of Simulation: every step brings the simulation nearer to its
\* end, for any configuration, repetitions and numbers of goroutines, so that
\* none can go on for ever.
THEOREM StepsDoCountDown == Spec => StepsCountDown
<1>1. ASSUME CourseInv, ReplyInv, DigestInv, CourseInv', ReplyInv', Step
      PROVE  Remaining' < Remaining
  <2>1. CASE Creates
    BY <1>1, <2>1, CreateCounts
  <2>2. CASE \E j \in DOMAIN replies : ComputeDigests(j)
    BY <1>1, <2>2, ComputeCounts
  <2>3. CASE Retrieval
    BY <1>1, <2>3, RetrievalCounts
  <2>4. CASE \/ Configure \/ SkipLength \/ NextLength \/ Finish \/ CollectDigests
             \/ \E j \in DOMAIN replies : RoutinePanics(j)
    BY <1>1, <2>4, LengthCounts
  <2>5. CASE RandomMerkleDB
    BY <1>1, <2>5, MerkleCounts
  <2> QED
    BY <1>1, <2>1, <2>2, <2>3, <2>4, <2>5, Zenon DEF Step, Creates
<1>2. /\ (CourseInv /\ ReplyInv /\ DigestInv) /\ (CourseInv /\ ReplyInv /\ DigestInv)' /\ [Next]_vars
      => [Remaining' < Remaining]_vars
  BY <1>1 DEF Next, Terminated
<1> QED
  BY <1>2, DigestInvariant, PTL DEF Spec, StepsCountDown

-----------------------------------------------------------------------------
(* Words modulo Q, and matrices as records.                                 *)

\* Equal modulo Q.
Congruent(a, b) == a % Q = b % Q

LEMMA CongruentIs ==
  ASSUME NEW a \in Int, NEW b \in Int
  PROVE  /\ Congruent(a % Q, a)
         /\ Congruent(a, b) => Congruent(b, a)
         /\ \A c \in Int : Congruent(a, b) /\ Congruent(b, c) => Congruent(a, c)
<1>1. Q \in Nat /\ Q > 0
  BY MatrixAssumption
<1>2. (0 + (a % Q)) % Q = (0 + a) % Q
  BY <1>1, ModAdd
<1>3. 0 + (a % Q) = a % Q /\ 0 + a = a
  BY <1>1, Division
<1> QED
  BY <1>2, <1>3 DEF Congruent

LEMMA CongruentSum ==
  ASSUME NEW a \in Int, NEW b \in Int, Congruent(a, b), NEW c \in Int, NEW e \in Int, Congruent(c, e)
  PROVE  Congruent(a + c, b + e) /\ Congruent(a - c, b - e) /\ Congruent(a * c, b * e)
<1>1. Q \in Nat /\ Q > 0
  BY MatrixAssumption
<1>2. PICK k \in Int : a = k * Q + b
  BY <1>1, ModCongruent DEF Congruent
<1>3. PICK l \in Int : c = l * Q + e
  BY <1>1, ModCongruent DEF Congruent
<1>4. a + c = (k + l) * Q + (b + e) /\ k + l \in Int /\ b + e \in Int /\ a + c \in Int
  BY <1>1, <1>2, <1>3
<1>5. a - c = (k - l) * Q + (b - e) /\ k - l \in Int /\ b - e \in Int /\ a - c \in Int
  BY <1>1, <1>2, <1>3
<1>6. a * c = (k * l * Q + k * e + b * l) * Q + (b * e) /\ k * l * Q + k * e + b * l \in Int /\ b * e \in Int /\ a * c \in Int
  BY <1>1, <1>2, <1>3
<1>7. ASSUME NEW u \in Int, NEW v \in Int, NEW q \in Int, u = q * Q + v
      PROVE  Congruent(u, v)
  BY <1>1, <1>7, ModMultiple DEF Congruent
<1> QED
  BY <1>4, <1>5, <1>6, <1>7
-----------------------------------------------------------------------------
(* One query of LWE or LWE128: what its entries are.                        *)

\* A matrix of words, with its data.
Filled(r, c, w, data) == [rows |-> r, cols |-> c, word |-> w, data |-> data]

LEMMA FilledIs ==
  ASSUME NEW r, NEW c, NEW w, NEW S, NEW data \in [1..(r * c) -> S]
  PROVE  IsMatrix(Filled(r, c, w, data), r, c, S)
BY DEF IsMatrix, Filled

LEMMA WithData ==
  ASSUME NEW r, NEW c, NEW w, NEW d, NEW e
  PROVE  [Filled(r, c, w, d) EXCEPT !.data = e] = Filled(r, c, w, e)
BY DEF Filled

LEMMA PrefixIs ==
  ASSUME NEW S, NEW s \in Seq(S), NEW n \in Nat, n <= Len(s)
  PROVE  SubSeq(s, 1, n) \in [1..n -> S] /\ \A x \in 1..n : SubSeq(s, 1, n)[x] = s[x]
<1>1. \A i \in 1..n : s[i] \in S
  OBVIOUS
<1>2. \A i \in 1..n : 1 + i - 1 = i
  OBVIOUS
<1>3. n - 1 + 1 = n
  OBVIOUS
<1>4. SubSeq(s, 1, n) \in Seq(S) /\ Len(SubSeq(s, 1, n)) = n /\ \A x \in 1..n : SubSeq(s, 1, n)[x] = s[x]
  BY <1>1, <1>2, <1>3, SubSeqProperties
<1> DEFINE u == SubSeq(s, 1, n)
<1>5. u \in Seq(S) /\ Len(u) = n
  BY <1>4
<1> HIDE DEF u
<1>6. u \in [1..n -> S]
  BY <1>5
<1> QED
  BY <1>4, <1>6 DEF u

LEMMA RandomIs ==
  ASSUME NEW r \in Nat, NEW c \in Nat, NEW words \in Seq(Word), Len(words) >= r * c
  PROVE  \E data \in [1..(r * c) -> Word] :
           /\ NewRandom(words, r, c) = Filled(r, c, 4, data)
           /\ NewRandom128(words, r, c) = Filled(r, c, 16, data)
           /\ \A x \in 1..(r * c) : data[x] = words[x]
<1> DEFINE n == r * c
           s == SubSeq(words, 1, n)
<1>1. n \in Nat /\ n <= Len(words)
  OBVIOUS
<1>2. /\ NewRandom(words, r, c) = Filled(r, c, 4, s)
      /\ NewRandom128(words, r, c) = Filled(r, c, 16, s)
  <2> DEFINE d == [x \in 1..(r * c) |-> 0]
  <2>1. /\ NewRandom(words, r, c) = [Filled(r, c, 4, d) EXCEPT !.data = s]
        /\ NewRandom128(words, r, c) = [Filled(r, c, 16, d) EXCEPT !.data = s]
    BY DEF NewRandom, NewRandom128, New, New128, Filled
  <2> HIDE DEF s, d
  <2> QED
    BY <2>1, WithData
<1> HIDE DEF n
<1>3. s \in [1..n -> Word] /\ \A x \in 1..n : s[x] = words[x]
  BY <1>1, PrefixIs
<1> QED
  BY <1>2, <1>3 DEF n

\* Entry by entry.
Plus(n, f, g)  == [x \in 1..n |-> (f[x] + g[x]) % Q]
Minus(n, f, g) == [x \in 1..n |-> (f[x] - g[x]) % Q]

AddsUp(n, r, c, w, f, g) ==
  /\ Add(Filled(r, c, w, f), Filled(r, c, w, g)) = Filled(r, c, w, Plus(n, f, g))
  /\ Sub(Filled(r, c, w, f), Filled(r, c, w, g)) = Filled(r, c, w, Minus(n, f, g))

LEMMA AddIs ==
  ASSUME NEW n \in Nat, NEW r, NEW c, NEW w, NEW f \in [1..n -> Int],
         NEW g \in [1..n -> Int]
  PROVE  /\ Plus(n, f, g) \in [1..n -> Word] /\ Minus(n, f, g) \in [1..n -> Word]
         /\ AddsUp(n, r, c, w, f, g)
<1> DEFINE a == Filled(r, c, w, f)
           b == Filled(r, c, w, g)
           p == [x \in 1..n |-> (f[x] + g[x]) % Q]
           m == [x \in 1..n |-> (f[x] - g[x]) % Q]
<1>1. a.data = f /\ b.data = g /\ Len(f) = n
  BY DEF Filled
<1>2. \A x \in 1..n : (f[x] + g[x]) % Q \in Word /\ (f[x] - g[x]) % Q \in Word
  <2> TAKE x \in 1..n
  <2> DEFINE y == f[x] + g[x]
             z == f[x] - g[x]
  <2>1. y \in Int /\ z \in Int
    OBVIOUS
  <2> HIDE DEF y, z
  <2>2. y % Q \in Word /\ z % Q \in Word
    BY <2>1, Reduced
  <2> QED
    BY <2>2 DEF y, z
<1>3. p \in [1..n -> Word] /\ m \in [1..n -> Word]
  BY <1>2
<1>4. /\ Entries(Len(a.data), LAMBDA x : (a.data[x] + b.data[x]) % Q) = SubSeq(p, 1, n)
      /\ Entries(Len(a.data), LAMBDA x : (a.data[x] - b.data[x]) % Q) = SubSeq(m, 1, n)
  BY <1>1 DEF Entries
<1>5. Add(a, b) = Filled(r, c, w, SubSeq(p, 1, n)) /\ Sub(a, b) = Filled(r, c, w, SubSeq(m, 1, n))
  <2> DEFINE u == SubSeq(p, 1, n)
             v == SubSeq(m, 1, n)
  <2>1. /\ Add(a, b) = [Filled(r, c, w, f) EXCEPT !.data = u]
        /\ Sub(a, b) = [Filled(r, c, w, f) EXCEPT !.data = v]
    BY <1>4 DEF Add, Sub
  <2> HIDE DEF u, v, a, b
  <2>2. Add(a, b) = Filled(r, c, w, u) /\ Sub(a, b) = Filled(r, c, w, v)
    BY <2>1, WithData DEF a
  <2> QED
    BY <2>2 DEF u, v
<1> HIDE DEF p, m
<1>6. SubSeq(p, 1, n) = p /\ SubSeq(m, 1, n) = m
  BY <1>3, WholeSeq
<1> QED
  BY <1>3, <1>5, <1>6 DEF p, m, Plus, Minus, AddsUp

\* The error that a sample adds to an entry, and the entry that holds it.
Noise(sample)    == sample
Noise128(sample) == IF sample >= 0 THEN sample ELSE sample - 1

LEMMA GaussIs ==
  ASSUME NEW n \in Nat, NEW e \in Seq(GaussSample), Len(e) >= n
  PROVE  \E f \in [1..n -> Int], g \in [1..n -> Int] :
           /\ NewGauss(e, 1, n) = Filled(1, n, 4, f)
           /\ NewGauss128(e, 1, n) = Filled(1, n, 16, g)
           /\ \A x \in 1..n : /\ e[x] \in GaussSample
                              /\ f[x] % Q = Noise(e[x]) % Q
                              /\ g[x] % Q = Noise128(e[x]) % Q
<1> DEFINE f == [x \in 1..n |-> e[x] % Q]
           g == [x \in 1..n |-> IF e[x] >= 0 THEN e[x] ELSE (Q - 1) + e[x]]
<1>1. \A x \in 1..n : e[x] \in GaussSample /\ e[x] \in Int
  <2>1. GaussSample \subseteq Int
    BY MatrixAssumption DEF GaussSample
  <2>2. \A x \in 1..n : x \in 1..Len(e)
    OBVIOUS
  <2>3. \A x \in 1..Len(e) : e[x] \in GaussSample
    OBVIOUS
  <2> QED
    BY ONLY <2>1, <2>2, <2>3
<1>2. Q \in Nat /\ Q > 0
  BY MatrixAssumption
<1>3. \A x \in 1..n : /\ e[x] % Q \in Int /\ (e[x] % Q) % Q = e[x] % Q
  <2> TAKE x \in 1..n
  <2> DEFINE y == e[x]
  <2>1. y \in Int
    BY <1>1
  <2> HIDE DEF y
  <2>2. y % Q \in 0..(Q - 1)
    BY <1>2, <2>1, Division
  <2>3. (0 * Q + (y % Q)) % Q = y % Q
    BY <1>2, <2>2, UniqueRemainder, 0 \in Int
  <2>4. 0 * Q + (y % Q) = y % Q
    BY <1>2, <2>2
  <2> QED
    BY <2>2, <2>3, <2>4 DEF y
<1>4. f \in [1..n -> Int] /\ g \in [1..n -> Int]
  BY <1>1, <1>2, <1>3
<1>5. ASSUME NEW x \in 1..n
      PROVE  f[x] % Q = Noise(e[x]) % Q /\ g[x] % Q = Noise128(e[x]) % Q
  <2>1. f[x] % Q = Noise(e[x]) % Q
    BY <1>3 DEF Noise
  <2>2. CASE e[x] >= 0
    BY <2>1, <2>2 DEF Noise128
  <2>3. CASE ~(e[x] >= 0)
    <3> DEFINE y == e[x] - 1
    <3>1. y \in Int /\ g[x] = 1 * Q + y /\ Noise128(e[x]) = y
      BY <1>1, <1>2, <2>3 DEF Noise128
    <3> HIDE DEF y, g
    <3>2. (1 * Q + y) % Q = y % Q
      BY <1>2, <3>1, ModMultiple, 1 \in Int
    <3> QED
      BY <2>1, <3>1, <3>2
  <2> QED
    BY <2>2, <2>3
<1>6. NewGauss(e, 1, n) = Filled(1, n, 4, f) /\ NewGauss128(e, 1, n) = Filled(1, n, 16, g)
  <2>1. 1 * n = n
    OBVIOUS
  <2>2. /\ NewGauss(e, 1, n) = Filled(1, n, 4, SubSeq(f, 1, n))
        /\ NewGauss128(e, 1, n) = Filled(1, n, 16, SubSeq(g, 1, n))
    <3> DEFINE d == [x \in 1..n |-> 0]
               u == SubSeq(f, 1, n)
               v == SubSeq(g, 1, n)
    <3>1. New(1, n) = Filled(1, n, 4, d) /\ New128(1, n) = Filled(1, n, 16, d)
      BY <2>1 DEF New, New128, Filled
    <3>2. /\ NewGauss(e, 1, n) = [Filled(1, n, 4, d) EXCEPT !.data = u]
          /\ NewGauss128(e, 1, n) = [Filled(1, n, 16, d) EXCEPT !.data = v]
      BY <2>1, <3>1 DEF NewGauss, NewGauss128, Entries
    <3> HIDE DEF d, u, v
    <3>3. NewGauss(e, 1, n) = Filled(1, n, 4, u) /\ NewGauss128(e, 1, n) = Filled(1, n, 16, v)
      BY <3>2, WithData
    <3> QED
      BY <3>3 DEF u, v
  <2> HIDE DEF f, g
  <2>3. SubSeq(f, 1, n) = f /\ SubSeq(g, 1, n) = g
    BY <1>4, WholeSeq
  <2> QED
    BY <2>2, <2>3
<1> HIDE DEF f, g
<1> QED
  BY <1>1, <1>4, <1>5, <1>6

LEMMA SetIs ==
  ASSUME NEW n \in Nat, NEW i \in 0..(n - 1), NEW t
  PROVE  /\ Set(New(1, n), 0, i, t) = Filled(1, n, 4, [x \in 1..n |-> IF x = i + 1 THEN t ELSE 0])
         /\ Set(New128(1, n), 0, i, t) = Filled(1, n, 16, [x \in 1..n |-> IF x = i + 1 THEN t ELSE 0])
<1>1. 1 * n = n /\ n * 0 + i + 1 = i + 1
  OBVIOUS
<1> DEFINE d == [x \in 1..n |-> 0]
           f == [x \in 1..n |-> IF x = i + 1 THEN t ELSE 0]
<1>2. New(1, n) = Filled(1, n, 4, d) /\ New128(1, n) = Filled(1, n, 16, d)
  BY <1>1 DEF New, New128, Filled
<1>3. /\ Filled(1, n, 4, d).cols = n /\ Filled(1, n, 16, d).cols = n
      /\ Filled(1, n, 4, d).data = d /\ Filled(1, n, 16, d).data = d
  BY DEF Filled
<1>4. [d EXCEPT ![i + 1] = t] = f
  OBVIOUS
<1>5. /\ Set(New(1, n), 0, i, t) = [Filled(1, n, 4, d) EXCEPT !.data = f]
      /\ Set(New128(1, n), 0, i, t) = [Filled(1, n, 16, d) EXCEPT !.data = f]
  <2> DEFINE a == Filled(1, n, 4, d)
             b == Filled(1, n, 16, d)
  <2>1. a.cols * 0 + i + 1 = i + 1 /\ b.cols * 0 + i + 1 = i + 1
    BY <1>1, <1>3
  <2> HIDE DEF d, f
  <2> QED
    BY <1>2, <1>3, <1>4, <2>1 DEF Set, Filled
<1> HIDE DEF d, f
<1>6. /\ Set(New(1, n), 0, i, t) = Filled(1, n, 4, f)
      /\ Set(New128(1, n), 0, i, t) = Filled(1, n, 16, f)
  BY <1>5, WithData
<1> QED
  BY <1>6 DEF f
LEMMA MulFilled ==
  ASSUME NEW a, NEW b
  PROVE  /\ Mul(a, b) = Filled(a.rows, b.cols, 4, Mul(a, b).data)
         /\ Mul128(a, b) = Filled(a.rows, b.cols, 16, Mul128(a, b).data)
<1> DEFINE e == multiply(a.rows, a.cols, b.cols, a.data, b.data)
           r == a.rows
           c == b.cols
           d == [x \in 1..(r * c) |-> 0]
<1>1. Mul(a, b) = [Filled(r, c, 4, d) EXCEPT !.data = e] /\ Mul128(a, b) = [Filled(r, c, 16, d) EXCEPT !.data = e]
  BY DEF Mul, Mul128, New, New128, Filled
<1> HIDE DEF e, d
<1>2. Mul(a, b) = Filled(r, c, 4, e) /\ Mul128(a, b) = Filled(r, c, 16, e)
  BY <1>1, WithData
<1>3. Mul(a, b).data = e /\ Mul128(a, b).data = e
  BY <1>2 DEF Filled
<1> QED
  BY <1>2, <1>3

\* The secret, the lattice, and what the query adds to their product.
Dims == 0..(N - 1)
Secret(d) == [k \in Dims |-> d.secret[k + 1]]
Lattice(n) == [k \in Dims |-> [j \in 0..(n - 1) |-> SeedStream[n * k + j + 1]]]
Blind(d, i, j) == IF j = i THEN d.t ELSE 0

\* Query q of words of w bytes asks for row i, with errors f.
IsQuery(q, w, n, d, i, f) ==
  /\ q = Filled(1, n, w, q.data) /\ q.data \in [1..n -> Word]
  /\ f \in [0..(n - 1) -> Int]
  /\ \A j \in 0..(n - 1) :
       Congruent(q.data[j + 1], VecMat(Secret(d), Lattice(n), Dims, j) + f[j] + Blind(d, i, j))

Noises(d, n)    == [j \in 0..(n - 1) |-> Noise(d.e[j + 1])]
Noises128(d, n) == [j \in 0..(n - 1) |-> Noise128(d.e[j + 1])]

LEMMA LatticeType ==
  ASSUME NEW n \in Nat, Len(SeedStream) >= N * n, NEW d, IsDraw(d, n)
  PROVE  /\ Lattice(n) \in [Dims -> [0..(n - 1) -> Int]]
         /\ Secret(d) \in [Dims -> Int]
         /\ IsFiniteSet(Dims) /\ N \in Nat
<1>1. N \in Nat /\ SeedStream \in Seq(Word) /\ d.secret \in Seq(Word) /\ Len(d.secret) >= N
  BY SingleServerAssumption DEF IsDraw
<1>2. Word \subseteq Int
  BY MatrixAssumption DEF Word
<1>3. ASSUME NEW k \in Dims, NEW j \in 0..(n - 1)
      PROVE  SeedStream[n * k + j + 1] \in Int
  <2> DEFINE x == n * k + j + 1
  <2>1. x \in 1..(N * n)
    BY <1>1, Position DEF Dims
  <2> HIDE DEF x
  <2>2. x \in 1..Len(SeedStream)
    <3> DEFINE y == N * n
    <3>1. y \in Nat /\ y <= Len(SeedStream) /\ x \in 1..y
      BY <1>1, <2>1
    <3> HIDE DEF y
    <3> QED
      BY <1>1, <3>1
  <2>3. SeedStream[x] \in Word
    BY <1>1, <2>2
  <2> QED
    BY <1>2, <2>3 DEF x
<1>4. ASSUME NEW k \in Dims
      PROVE  d.secret[k + 1] \in Int
  <2> DEFINE words == d.secret
  <2>1. words \in Seq(Word) /\ Len(words) >= N /\ N \in Nat
    BY <1>1
  <2> HIDE DEF words
  <2>2. k + 1 \in 1..Len(words)
    BY <2>1 DEF Dims
  <2>3. words[k + 1] \in Word
    BY ONLY <2>1, <2>2
  <2> QED
    BY <1>2, <2>3 DEF words
<1>5. IsFiniteSet(Dims)
  BY <1>1, FS_Interval DEF Dims
<1> QED
  BY <1>1, <1>3, <1>4, <1>5 DEF Lattice, Secret

\* The product of the secret and a matrix.
SecretSum(d, a, j) == SumOf([k \in Dims |-> Secret(d)[k] * Get(a, k, j)], Dims)
IsTimes(data, n, d, a) ==
  /\ data \in [1..n -> Word]
  /\ \A j \in 0..(n - 1) : data[j + 1] = SecretSum(d, a, j) % Q

LEMMA SecretTimes ==
  ASSUME NEW n \in Nat, NEW d, d.secret \in Seq(Word), Len(d.secret) >= N,
         NEW a, IsMatrix(a, N, n, Int)
  PROVE  /\ \E data : /\ Mul(NewRandom(d.secret, 1, N), a) = Filled(1, n, 4, data)
                      /\ IsTimes(data, n, d, a)
         /\ \E data : /\ Mul128(NewRandom128(d.secret, 1, N), a) = Filled(1, n, 16, data)
                      /\ IsTimes(data, n, d, a)
<1> DEFINE words == d.secret
<1>1. /\ N \in Nat /\ words \in Seq(Word) /\ Len(words) >= 1 * N
      /\ 1 * n = n /\ 1 * N = N /\ 1 \in Nat
  BY SingleServerAssumption
<1> HIDE DEF words
<1>2. PICK s \in [1..(1 * N) -> Word] :
        /\ NewRandom(words, 1, N) = Filled(1, N, 4, s)
        /\ NewRandom128(words, 1, N) = Filled(1, N, 16, s)
        /\ \A x \in 1..(1 * N) : s[x] = words[x]
  BY <1>1, RandomIs
<1>3. ASSUME NEW v, NEW j \in 0..(n - 1)
      PROVE  SumOf(Products(Filled(1, N, v, s), a, 0, j), Dims) = SecretSum(d, a, j)
  <2>1. ASSUME NEW k \in Dims
        PROVE  Get(Filled(1, N, v, s), 0, k) = Secret(d)[k]
    <3>1. N * 0 + k + 1 = k + 1 /\ k + 1 \in 1..(1 * N)
      BY <1>1 DEF Dims
    <3> QED
      BY <1>2, <3>1 DEF Get, Filled, Secret, words
  <2>2. Filled(1, N, v, s).cols = N
    BY DEF Filled
  <2>3. Products(Filled(1, N, v, s), a, 0, j) = [k \in Dims |-> Secret(d)[k] * Get(a, k, j)]
    BY <2>1, <2>2 DEF Products, Dims
  <2> QED
    BY <2>3 DEF SecretSum
<1>4. ASSUME NEW v
      PROVE  IsMatrix(Filled(1, N, v, s), 1, N, Int)
  BY <1>2, WordsAreInt, FilledIs
<1>5. ASSUME NEW m, NEW v, IsProduct(m, Filled(1, N, v, s), a, 1, N, n)
      PROVE  IsTimes(m.data, n, d, a)
  <2>1. m.data \in [1..n -> Word] /\ m.cols = n
    BY <1>1, <1>5 DEF IsProduct, IsMatrix
  <2>2. ASSUME NEW j \in 0..(n - 1)
        PROVE  m.data[j + 1] = SecretSum(d, a, j) % Q
    <3>1. n * 0 + j + 1 = j + 1 /\ 0 \in 0..(1 - 1)
      OBVIOUS
    <3>2. Get(m, 0, j) = SumOf(Products(Filled(1, N, v, s), a, 0, j), Dims) % Q
      BY <1>5, <3>1 DEF IsProduct, Dims
    <3>3. Get(m, 0, j) = m.data[j + 1]
      BY <2>1, <3>1 DEF Get
    <3> QED
      BY <1>3, <3>2, <3>3
  <2> QED
    BY <2>1, <2>2 DEF IsTimes
<1>6. /\ Mul(Filled(1, N, 4, s), a) = Filled(1, n, 4, Mul(Filled(1, N, 4, s), a).data)
      /\ Mul128(Filled(1, N, 16, s), a) = Filled(1, n, 16, Mul128(Filled(1, N, 16, s), a).data)
  <2>1. ASSUME NEW v
        PROVE  Filled(1, N, v, s).rows = 1 /\ a.cols = n
    BY DEF Filled, IsMatrix
  <2> QED
    BY <2>1, MulFilled
<1>7. /\ IsProduct(Mul(Filled(1, N, 4, s), a), Filled(1, N, 4, s), a, 1, N, n)
      /\ IsProduct(Mul128(Filled(1, N, 16, s), a), Filled(1, N, 16, s), a, 1, N, n)
  BY <1>1, <1>4, MulIs
<1> QED
  BY <1>2, <1>5, <1>6, <1>7 DEF words

\* The lattice as a matrix, in either width.
LEMMA LatticeIs ==
  ASSUME NEW n \in Nat, Len(SeedStream) >= N * n, NEW A,
         A \in {NewRandom(SeedStream, N, n), NewRandom128(SeedStream, N, n)}
  PROVE  /\ IsMatrix(A, N, n, Int)
         /\ \A k \in Dims, j \in 0..(n - 1) : Get(A, k, j) = Lattice(n)[k][j]
<1>1. N \in Nat /\ SeedStream \in Seq(Word)
  BY SingleServerAssumption
<1>2. PICK a \in [1..(N * n) -> Word] :
        /\ NewRandom(SeedStream, N, n) = Filled(N, n, 4, a)
        /\ NewRandom128(SeedStream, N, n) = Filled(N, n, 16, a)
        /\ \A x \in 1..(N * n) : a[x] = SeedStream[x]
  BY <1>1, RandomIs
<1>3. PICK w : A = Filled(N, n, w, a)
  BY <1>2
<1>4. IsMatrix(A, N, n, Int)
  BY <1>3, FilledIs, WordsAreInt
<1>5. ASSUME NEW k \in Dims, NEW j \in 0..(n - 1)
      PROVE  Get(A, k, j) = Lattice(n)[k][j]
  <2>1. n * k + j + 1 \in 1..(N * n)
    BY <1>1, Position DEF Dims
  <2> QED
    BY <1>2, <1>3, <2>1 DEF Get, Filled, Lattice
<1> QED
  BY <1>4, <1>5

\* The product of secret and lattice, in either width.
LEMMA MaskIs ==
  ASSUME NEW n \in Nat, Len(SeedStream) >= N * n, NEW d, IsDraw(d, n)
  PROVE  /\ \E data \in [1..n -> Word] :
              /\ Mul(NewRandom(d.secret, 1, N), NewRandom(SeedStream, N, n)) = Filled(1, n, 4, data)
              /\ \A j \in 0..(n - 1) : data[j + 1] = VecMat(Secret(d), Lattice(n), Dims, j) % Q
         /\ \E data \in [1..n -> Word] :
              /\ Mul128(NewRandom128(d.secret, 1, N), NewRandom128(SeedStream, N, n)) = Filled(1, n, 16, data)
              /\ \A j \in 0..(n - 1) : data[j + 1] = VecMat(Secret(d), Lattice(n), Dims, j) % Q
<1> DEFINE A == NewRandom(SeedStream, N, n)
           B == NewRandom128(SeedStream, N, n)
<1>1. A \in {A, B} /\ B \in {A, B} /\ d.secret \in Seq(Word) /\ Len(d.secret) >= N
  BY DEF IsDraw
<1>2. ASSUME NEW a \in {A, B}
      PROVE  /\ IsMatrix(a, N, n, Int)
             /\ \A j \in 0..(n - 1) : SecretSum(d, a, j) = VecMat(Secret(d), Lattice(n), Dims, j)
  <2>1. /\ IsMatrix(a, N, n, Int)
        /\ \A k \in Dims, j \in 0..(n - 1) : Get(a, k, j) = Lattice(n)[k][j]
    BY LatticeIs
  <2>2. ASSUME NEW j \in 0..(n - 1)
        PROVE  SecretSum(d, a, j) = VecMat(Secret(d), Lattice(n), Dims, j)
    <3>1. [k \in Dims |-> Secret(d)[k] * Get(a, k, j)] = [k \in Dims |-> Secret(d)[k] * Lattice(n)[k][j]]
      BY <2>1
    <3> QED
      BY <3>1 DEF SecretSum, VecMat
  <2> QED
    BY <2>1, <2>2
<1> HIDE DEF A, B
<1>3. PICK data : Mul(NewRandom(d.secret, 1, N), A) = Filled(1, n, 4, data) /\ IsTimes(data, n, d, A)
  BY <1>1, <1>2, SecretTimes
<1>4. PICK data2 : Mul128(NewRandom128(d.secret, 1, N), B) = Filled(1, n, 16, data2) /\ IsTimes(data2, n, d, B)
  BY <1>1, <1>2, SecretTimes
<1>5. /\ data \in [1..n -> Word]
      /\ \A j \in 0..(n - 1) : data[j + 1] = VecMat(Secret(d), Lattice(n), Dims, j) % Q
  BY <1>1, <1>2, <1>3 DEF IsTimes
<1>6. /\ data2 \in [1..n -> Word]
      /\ \A j \in 0..(n - 1) : data2[j + 1] = VecMat(Secret(d), Lattice(n), Dims, j) % Q
  BY <1>1, <1>2, <1>4 DEF IsTimes
<1> QED
  BY <1>3, <1>4, <1>5, <1>6 DEF A, B

LEMMA AddedIs ==
  ASSUME NEW n \in Nat, Len(SeedStream) >= N * n, NEW d, IsDraw(d, n), NEW i \in 0..(n - 1), NEW w,
         NEW data \in [1..n -> Word], NEW g \in [1..n -> Int], NEW f \in [0..(n - 1) -> Int],
         \A j \in 0..(n - 1) : /\ data[j + 1] = VecMat(Secret(d), Lattice(n), Dims, j) % Q
                              /\ g[j + 1] % Q = f[j] % Q
  PROVE  IsQuery(Add(Add(Filled(1, n, w, data), Filled(1, n, w, g)),
                     Filled(1, n, w, [x \in 1..n |-> IF x = i + 1 THEN d.t ELSE 0])), w, n, d, i, f)
<1> DEFINE e == [x \in 1..n |-> IF x = i + 1 THEN d.t ELSE 0]
           p == Plus(n, data, g)
           z == Plus(n, p, e)
<1>1. Word \subseteq Int /\ d.t \in Int
  BY MatrixAssumption DEF Word, IsDraw
<1>2. data \in [1..n -> Int] /\ e \in [1..n -> Int]
  <2>1. data \in [1..n -> Int]
    BY <1>1
  <2>2. \A x \in 1..n : (IF x = i + 1 THEN d.t ELSE 0) \in Int
    BY <1>1
  <2> QED
    BY <2>1, <2>2
<1> HIDE DEF e
<1>4. Add(Filled(1, n, w, data), Filled(1, n, w, g)) = Filled(1, n, w, Plus(n, data, g))
  <2>1. AddsUp(n, 1, n, w, data, g)
    BY <1>2, AddIs
  <2> QED
    BY <2>1 DEF AddsUp
<1>5. p \in [1..n -> Int]
  <2>1. p \in [1..n -> Word]
    BY ONLY <1>2, AddIs, n \in Nat, g \in [1..n -> Int]
  <2> HIDE DEF p
  <2> QED
    BY <1>1, <2>1
<1> HIDE DEF p
<1>6. Add(Filled(1, n, w, p), Filled(1, n, w, e)) = Filled(1, n, w, Plus(n, p, e))
  <2>1. AddsUp(n, 1, n, w, p, e)
    BY <1>2, <1>5, AddIs
  <2> QED
    BY <2>1 DEF AddsUp
<1>7. z \in [1..n -> Word]
  BY ONLY <1>2, <1>5, AddIs, n \in Nat
<1>8. ASSUME NEW j \in 0..(n - 1)
      PROVE  Congruent(z[j + 1], VecMat(Secret(d), Lattice(n), Dims, j) + f[j] + Blind(d, i, j))
  <2> DEFINE a == VecMat(Secret(d), Lattice(n), Dims, j)
             b == f[j]
             c == Blind(d, i, j)
             x == data[j + 1]
             y == g[j + 1]
  <2>0. j + 1 \in 1..n
    OBVIOUS
  <2>1. a \in Int
    <3>1. IsFiniteSet(0..(n - 1))
      BY FS_Interval
    <3>2. [l \in 0..(n - 1) |-> 0] \in [0..(n - 1) -> Int]
      OBVIOUS
    <3> QED
      BY <3>1, <3>2, LatticeType, VecMatType
  <2>2. b \in Int /\ x \in Int /\ y \in Int
    BY <1>2, <2>0
  <2>3. c \in Int /\ e[j + 1] = c
    BY <1>1, <2>0 DEF Blind, e
  <2>4. x = a % Q /\ Congruent(y, b)
    BY DEF Congruent
  <2>5. z[j + 1] = (((x + y) % Q) + c) % Q
    BY <2>0, <2>3 DEF p, Plus
  <2> HIDE DEF a, b, c, x, y, z
  <2>6. Congruent(z[j + 1], a + b + c)
    <3> DEFINE u == (x + y) % Q
               v == u + c
    <3>0. x + y \in Int /\ a + b \in Int /\ (a + b) + c \in Int
      BY <2>1, <2>2, <2>3
    <3>1. u \in Int /\ Congruent(u, x + y)
      BY ONLY <1>1, <3>0, Reduced, CongruentIs
    <3>9. v \in Int
      BY <2>3, <3>1
    <3>2. Congruent(x, a)
      BY <2>1, <2>4, CongruentIs
    <3>3. Congruent(x + y, a + b)
      BY <2>1, <2>2, <2>4, <3>2, CongruentSum
    <3>4. Congruent(c, c)
      BY DEF Congruent
    <3>5. Congruent(u, a + b)
      BY <3>0, <3>1, <3>3, CongruentIs
    <3>6. Congruent(v, (a + b) + c)
      BY <2>3, <3>0, <3>1, <3>4, <3>5, CongruentSum
    <3>7. Congruent(v % Q, v) /\ v % Q \in Int /\ (a + b) + c \in Int
      BY ONLY <1>1, <3>0, <3>9, Reduced, CongruentIs
    <3> HIDE DEF v
    <3>8. Congruent(v % Q, (a + b) + c)
      BY <3>9, <3>6, <3>7, CongruentIs
    <3> QED
      BY <2>5, <3>8 DEF u, v
  <2> QED
    BY <2>6 DEF a, b, c
<1>9. Filled(1, n, w, z).data = z
  BY DEF Filled
<1> HIDE DEF z
<1>10. IsQuery(Filled(1, n, w, z), w, n, d, i, f)
  BY <1>7, <1>8, <1>9 DEF IsQuery
<1> QED
  BY <1>4, <1>6, <1>10 DEF e, p, z

\* The samples that the bound is made for.
TypicalDraw(d, n) == \A x \in 1..n : d.e[x] \in -(BoundPerRow - 1)..(BoundPerRow - 1)

LEMMA NoisesType ==
  ASSUME NEW n \in Nat, NEW d, IsDraw(d, n)
  PROVE  Noises(d, n) \in [0..(n - 1) -> Int] /\ Noises128(d, n) \in [0..(n - 1) -> Int]
<1>1. MaxSample \in Nat
  BY MatrixAssumption
<1>2. ASSUME NEW j \in 0..(n - 1)
      PROVE  d.e[j + 1] \in GaussSample
  <2> DEFINE s == d.e
  <2>1. s \in Seq(GaussSample) /\ Len(s) >= n
    BY DEF IsDraw
  <2> HIDE DEF s
  <2>2. j + 1 \in 1..Len(s)
    BY <2>1
  <2>3. s[j + 1] \in GaussSample
    BY ONLY <2>1, <2>2
  <2> QED
    BY <2>3 DEF s
<1>3. ASSUME NEW j \in 0..(n - 1)
      PROVE  Noise(d.e[j + 1]) \in Int /\ Noise128(d.e[j + 1]) \in Int
  BY <1>1, <1>2 DEF GaussSample, Noise, Noise128
<1> QED
  BY <1>3 DEF Noises, Noises128

\* In LWE128 a negative sample counts for one less.
LEMMA TypicalNoises ==
  ASSUME NEW n \in Nat, n > 0, NEW d, TypicalDraw(d, n)
  PROVE  /\ BoundPerRow \in Nat /\ BoundPerRow > 0
         /\ \A j \in 0..(n - 1) :
              /\ -(BoundPerRow - 1) <= Noises(d, n)[j] /\ Noises(d, n)[j] <= BoundPerRow - 1
              /\ -BoundPerRow <= Noises128(d, n)[j] /\ Noises128(d, n)[j] <= BoundPerRow - 1
<1>1. BoundPerRow \in Nat
  BY SingleServerAssumption
<1>2. ASSUME NEW j \in 0..(n - 1)
      PROVE  d.e[j + 1] \in -(BoundPerRow - 1)..(BoundPerRow - 1)
  <2>1. j + 1 \in 1..n
    OBVIOUS
  <2> QED
    BY <2>1 DEF TypicalDraw
<1>3. BoundPerRow > 0
  <2>1. 0 \in 0..(n - 1)
    OBVIOUS
  <2> QED
    BY <1>1, <1>2, <2>1
<1>4. ASSUME NEW j \in 0..(n - 1)
      PROVE  /\ -(BoundPerRow - 1) <= Noise(d.e[j + 1]) /\ Noise(d.e[j + 1]) <= BoundPerRow - 1
             /\ -BoundPerRow <= Noise128(d.e[j + 1]) /\ Noise128(d.e[j + 1]) <= BoundPerRow - 1
  BY <1>1, <1>2 DEF Noise, Noise128
<1> QED
  BY <1>1, <1>3, <1>4 DEF Noises, Noises128

LEMMA QueryIs ==
  ASSUME NEW n \in Nat, Len(SeedStream) >= N * n, NEW d, IsDraw(d, n), NEW i \in 0..(n - 1),
         NEW p, p.L = n
  PROVE  /\ IsQuery(LWEQuery(p, i, d), 4, n, d, i, Noises(d, n))
         /\ IsQuery(LWE128Query(p, i, d), 16, n, d, i, Noises128(d, n))
<1> DEFINE e == d.e
<1>0. e \in Seq(GaussSample) /\ Len(e) >= n
  BY DEF IsDraw
<1> HIDE DEF e
<1>1. PICK f \in [1..n -> Int], g \in [1..n -> Int] :
        /\ NewGauss(e, 1, n) = Filled(1, n, 4, f)
        /\ NewGauss128(e, 1, n) = Filled(1, n, 16, g)
        /\ \A x \in 1..n : /\ e[x] \in GaussSample
                           /\ f[x] % Q = Noise(e[x]) % Q
                           /\ g[x] % Q = Noise128(e[x]) % Q
  BY <1>0, GaussIs
<1>2. /\ Set(New(1, n), 0, i, d.t) = Filled(1, n, 4, [x \in 1..n |-> IF x = i + 1 THEN d.t ELSE 0])
      /\ Set(New128(1, n), 0, i, d.t) = Filled(1, n, 16, [x \in 1..n |-> IF x = i + 1 THEN d.t ELSE 0])
  BY SetIs
<1>3. /\ Noises(d, n) \in [0..(n - 1) -> Int] /\ Noises128(d, n) \in [0..(n - 1) -> Int]
      /\ \A j \in 0..(n - 1) : /\ j + 1 \in 1..n
                               /\ Noises(d, n)[j] = Noise(e[j + 1])
                               /\ Noises128(d, n)[j] = Noise128(e[j + 1])
  BY NoisesType DEF Noises, Noises128, e
<1>4. IsQuery(LWEQuery(p, i, d), 4, n, d, i, Noises(d, n))
  <2>1. PICK data \in [1..n -> Word] :
          /\ Mul(NewRandom(d.secret, 1, N), NewRandom(SeedStream, N, n)) = Filled(1, n, 4, data)
          /\ \A j \in 0..(n - 1) : data[j + 1] = VecMat(Secret(d), Lattice(n), Dims, j) % Q
    BY ONLY n \in Nat, Len(SeedStream) >= N * n, IsDraw(d, n), MaskIs
  <2>2. \A j \in 0..(n - 1) : f[j + 1] % Q = Noises(d, n)[j] % Q
    BY <1>1, <1>3
  <2>3. LWEQuery(p, i, d) = Add(Add(Filled(1, n, 4, data), Filled(1, n, 4, f)),
                               Filled(1, n, 4, [x \in 1..n |-> IF x = i + 1 THEN d.t ELSE 0]))
    BY <1>1, <1>2, <2>1 DEF LWEQuery, e
  <2> DEFINE h == Noises(d, n)
             q == LWEQuery(p, i, d)
  <2>4. h \in [0..(n - 1) -> Int]
    BY <1>3
  <2>5. \A j \in 0..(n - 1) : /\ data[j + 1] = VecMat(Secret(d), Lattice(n), Dims, j) % Q
                            /\ f[j + 1] % Q = h[j] % Q
    BY <2>1, <2>2
  <2> HIDE DEF h
  <2>6. IsQuery(Add(Add(Filled(1, n, 4, data), Filled(1, n, 4, f)),
                    Filled(1, n, 4, [x \in 1..n |-> IF x = i + 1 THEN d.t ELSE 0])), 4, n, d, i, h)
    BY ONLY n \in Nat, Len(SeedStream) >= N * n, IsDraw(d, n), i \in 0..(n - 1), <1>1, <2>1, <2>4, <2>5, AddedIs
  <2> QED
    BY <2>3, <2>6 DEF h
<1>5. IsQuery(LWE128Query(p, i, d), 16, n, d, i, Noises128(d, n))
  <2>1. PICK data \in [1..n -> Word] :
          /\ Mul128(NewRandom128(d.secret, 1, N), NewRandom128(SeedStream, N, n)) = Filled(1, n, 16, data)
          /\ \A j \in 0..(n - 1) : data[j + 1] = VecMat(Secret(d), Lattice(n), Dims, j) % Q
    BY ONLY n \in Nat, Len(SeedStream) >= N * n, IsDraw(d, n), MaskIs
  <2>2. \A j \in 0..(n - 1) : g[j + 1] % Q = Noises128(d, n)[j] % Q
    BY <1>1, <1>3
  <2>3. LWE128Query(p, i, d) = Add(Add(Filled(1, n, 16, data), Filled(1, n, 16, g)),
                                  Filled(1, n, 16, [x \in 1..n |-> IF x = i + 1 THEN d.t ELSE 0]))
    BY <1>1, <1>2, <2>1 DEF LWE128Query, e
  <2> DEFINE h == Noises128(d, n)
             q == LWE128Query(p, i, d)
  <2>4. h \in [0..(n - 1) -> Int]
    BY <1>3
  <2>5. \A j \in 0..(n - 1) : /\ data[j + 1] = VecMat(Secret(d), Lattice(n), Dims, j) % Q
                            /\ g[j + 1] % Q = h[j] % Q
    BY <2>1, <2>2
  <2> HIDE DEF h
  <2>6. IsQuery(Add(Add(Filled(1, n, 16, data), Filled(1, n, 16, g)),
                    Filled(1, n, 16, [x \in 1..n |-> IF x = i + 1 THEN d.t ELSE 0])), 16, n, d, i, h)
    BY ONLY n \in Nat, Len(SeedStream) >= N * n, IsDraw(d, n), i \in 0..(n - 1), <1>1, <2>1, <2>4, <2>5, AddedIs
  <2> QED
    BY <2>3, <2>6 DEF h
<1> QED
  BY <1>4, <1>5
-----------------------------------------------------------------------------
(* Digests and answers, and what is left when the one is taken away.        *)
Bit(b, n, c) == [l \in 0..(n - 1) |-> Get(b, l, c)]

LEMMA BitIs ==
  ASSUME NEW n \in Nat, NEW b, IsDatabase(b, n), NEW c \in 0..(n - 1)
  PROVE  /\ Bit(b, n, c) \in [0..(n - 1) -> Int]
         /\ \A l \in 0..(n - 1) : Bit(b, n, c)[l] = Get(b, l, c) /\ Get(b, l, c) \in {0, 1}
<1>1. \A l \in 0..(n - 1) : Get(b, l, c) \in {0, 1}
  BY EntryOf DEF IsDatabase, Bits
<1> QED
  BY <1>1 DEF Bit

IsDigest(m, b, n) ==
  /\ IsMatrix(m, N, n, Word)
  /\ \A k \in Dims, c \in 0..(n - 1) :
       Get(m, k, c) = MatVec(Lattice(n), Bit(b, n, c), 0..(n - 1), k) % Q

LEMMA DigestIs ==
  ASSUME NEW n \in Nat, Len(SeedStream) >= N * n, NEW b, IsDatabase(b, n)
  PROVE  IsDigest(Digest(b, n), b, n) /\ IsDigest(Digest128(b, n), b, n)
<1> DEFINE A == NewRandom(SeedStream, N, n)
           B == NewRandom128(SeedStream, N, n)
<1>1. A \in {A, B} /\ B \in {A, B} /\ N \in Nat /\ IsMatrix(b, n, n, Bits)
  BY SingleServerAssumption DEF IsDatabase
<1>2. ASSUME NEW a \in {A, B}, NEW m, IsProduct(m, a, b, N, n, n)
      PROVE  IsDigest(m, b, n)
  <2>1. IsMatrix(a, N, n, Int) /\ \A k \in Dims, j \in 0..(n - 1) : Get(a, k, j) = Lattice(n)[k][j]
    BY LatticeIs
  <2>2. ASSUME NEW k \in Dims, NEW c \in 0..(n - 1)
        PROVE  Get(m, k, c) = MatVec(Lattice(n), Bit(b, n, c), 0..(n - 1), k) % Q
    <3>1. Get(m, k, c) = SumOf(Products(a, b, k, c), 0..(n - 1)) % Q
      BY <1>2 DEF IsProduct, Dims
    <3>2. Products(a, b, k, c) = [l \in 0..(n - 1) |-> Lattice(n)[k][l] * Bit(b, n, c)[l]]
      <4>1. a.cols = n
        BY <2>1 DEF IsMatrix
      <4>2. \A l \in 0..(n - 1) : Get(a, k, l) * Get(b, l, c) = Lattice(n)[k][l] * Bit(b, n, c)[l]
        <5>1. \A l \in 0..(n - 1) : Get(a, k, l) = Lattice(n)[k][l]
          BY <2>1
        <5>2. \A l \in 0..(n - 1) : Bit(b, n, c)[l] = Get(b, l, c)
          BY BitIs
        <5> QED
          BY <5>1, <5>2
      <4> QED
        BY <4>1, <4>2 DEF Products
    <3> QED
      BY <3>1, <3>2 DEF MatVec
  <2> QED
    BY <1>2, <2>2 DEF IsDigest, IsProduct
<1>3. \A a \in {A, B} : IsMatrix(a, N, n, Int)
  BY LatticeIs
<1> HIDE DEF A, B
<1>4. IsProduct(BinaryMul(A, b), A, b, N, n, n) /\ IsProduct(BinaryMul128(B, b), B, b, N, n, n)
  BY <1>1, <1>3, BinaryMulIs
<1>5. IsDigest(BinaryMul(A, b), b, n) /\ IsDigest(BinaryMul128(B, b), b, n)
  BY <1>1, <1>2, <1>4
<1> QED
  BY <1>5 DEF Digest, Digest128, A, B

\* The answer to a query.
AnswerSum(data, b, n, c) == SumOf([l \in 0..(n - 1) |-> data[l + 1] * Get(b, l, c)], 0..(n - 1))
IsAnswer(e, data, b, n) ==
  /\ e \in [1..n -> Word]
  /\ \A c \in 0..(n - 1) : e[c + 1] = AnswerSum(data, b, n, c) % Q

LEMMA AnswerIs ==
  ASSUME NEW n \in Nat, NEW w, NEW data \in [1..n -> Word], NEW b, IsDatabase(b, n)
  PROVE  \E e : /\ BinaryMul(Filled(1, n, w, data), b) = Filled(1, n, 4, e)
                /\ BinaryMul128(Filled(1, n, w, data), b) = Filled(1, n, 16, e)
                /\ IsAnswer(e, data, b, n)
<1> DEFINE q == Filled(1, n, w, data)
<1>1. 1 * n = n /\ q.rows = 1 /\ q.cols = n /\ q.data = data /\ b.cols = n /\ 1 \in Nat
  BY DEF Filled, IsDatabase, IsMatrix
<1>2. IsMatrix(q, 1, n, Int) /\ IsMatrix(b, n, n, Bits)
  BY <1>1, WordsAreInt DEF IsMatrix, IsDatabase
<1> HIDE DEF q
<1>3. ASSUME NEW m, IsProduct(m, q, b, 1, n, n)
      PROVE  IsAnswer(m.data, data, b, n)
  <2>1. m.data \in [1..n -> Word] /\ m.cols = n
    BY <1>1, <1>3 DEF IsProduct, IsMatrix
  <2>2. ASSUME NEW c \in 0..(n - 1)
        PROVE  m.data[c + 1] = AnswerSum(data, b, n, c) % Q
    <3>1. n * 0 + c + 1 = c + 1 /\ 0 \in 0..(1 - 1) /\ \A l \in 0..(n - 1) : n * 0 + l + 1 = l + 1
      OBVIOUS
    <3>2. Get(m, 0, c) = SumOf(Products(q, b, 0, c), 0..(n - 1)) % Q
      BY <1>3, <3>1 DEF IsProduct
    <3>3. Get(m, 0, c) = m.data[c + 1]
      BY <2>1, <3>1 DEF Get
    <3>4. Products(q, b, 0, c) = [l \in 0..(n - 1) |-> data[l + 1] * Get(b, l, c)]
      <4>1. \A l \in 0..(n - 1) : Get(q, 0, l) = data[l + 1]
        BY <1>1, <3>1 DEF Get
      <4> QED
        BY <1>1, <4>1 DEF Products
    <3> QED
      BY <3>2, <3>3, <3>4 DEF AnswerSum
  <2> QED
    BY <2>1, <2>2 DEF IsAnswer
<1> DEFINE e == binary_multiply(q.rows, q.cols, b.cols, q.data, b.data)
<1>4. IsProduct(BinaryMul(q, b), q, b, 1, n, n)
  BY <1>1, <1>2, BinaryMulIs
<1>5. BinaryMul(q, b) = Filled(1, n, 4, e) /\ BinaryMul128(q, b) = Filled(1, n, 16, e)
  <2> DEFINE z == [x \in 1..(1 * n) |-> 0]
  <2>1. /\ BinaryMul(q, b) = [Filled(1, n, 4, z) EXCEPT !.data = e]
        /\ BinaryMul128(q, b) = [Filled(1, n, 16, z) EXCEPT !.data = e]
    BY <1>1 DEF BinaryMul, BinaryMul128, New, New128, Filled
  <2> HIDE DEF e, z
  <2> QED
    BY <2>1, WithData
<1>6. BinaryMul(q, b).data = e
  BY <1>5 DEF Filled
<1> HIDE DEF e
<1>7. IsAnswer(e, data, b, n)
  BY <1>3, <1>4, <1>6
<1> QED
  BY <1>5, <1>7 DEF q

\* The errors that reach column c, and what is left with the blind.
ErrorSum(f, b, n, c) == SumOf([l \in 0..(n - 1) |-> f[l] * Bit(b, n, c)[l]], 0..(n - 1))
Left(d, i, f, b, n, c) == ErrorSum(f, b, n, c) + d.t * Get(b, i, c)

LEMMA ErrorSumType ==
  ASSUME NEW n \in Nat, NEW b, IsDatabase(b, n), NEW c \in 0..(n - 1), NEW f \in [0..(n - 1) -> Int]
  PROVE  ErrorSum(f, b, n, c) \in Int
<1>1. IsFiniteSet(0..(n - 1))
  BY FS_Interval
<1> DEFINE L == 0..(n - 1)
           z == Bit(b, n, c)
           h == [l \in L |-> f[l] * z[l]]
<1>2. z \in [L -> Int]
  BY BitIs
<1> HIDE DEF z
<1>3. h \in [L -> Int]
  BY <1>2
<1> HIDE DEF h
<1>4. SumOf(h, L) \in Int
  BY <1>1, <1>3, SumOfFacts
<1> QED
  BY <1>4 DEF ErrorSum, h, z

LEMMA SumsCongruent ==
  ASSUME NEW T, IsFiniteSet(T), NEW f \in [T -> Int], NEW g \in [T -> Int],
         \A x \in T : Congruent(f[x], g[x])
  PROVE  Congruent(SumOf(f, T), SumOf(g, T))
<1>1. Q \in Nat /\ Q > 0
  BY MatrixAssumption
<1>2. \A x \in T : f[x] % Q = g[x] % Q
  BY DEF Congruent
<1>3. SumOf(f, T) % Q = SumOf(g, T) % Q
  BY ONLY <1>1, <1>2, IsFiniteSet(T), f \in [T -> Int], g \in [T -> Int], SumOfCongruent
<1> QED
  BY <1>3 DEF Congruent

Associated(s, A, d, K, L) ==
  SumOf([l \in L |-> VecMat(s, A, K, l) * d[l]], L) = SumOf([k \in K |-> s[k] * MatVec(A, d, L, k)], K)

LEMMA IsAssociated ==
  ASSUME NEW K, IsFiniteSet(K), NEW L, IsFiniteSet(L), NEW s \in [K -> Int],
         NEW A \in [K -> [L -> Int]], NEW d \in [L -> Int]
  PROVE  Associated(s, A, d, K, L)
BY Associates DEF Associated

\* q hides t at i behind s * A and f; and, when that is multiplied by z, what
\* is left beside s * (A * z).
Hides(q, s, A, f, i, t, K, L) ==
  \A l \in L : Congruent(q[l], VecMat(s, A, K, l) + f[l] + (IF l = i THEN t ELSE 0))

Leaves(q, s, A, f, z, i, t, K, L) ==
  Congruent(SumOf([l \in L |-> q[l] * z[l]], L),
            SumOf([k \in K |-> s[k] * MatVec(A, z, L, k)], K)
              + (SumOf([l \in L |-> f[l] * z[l]], L) + t * z[i]))

LEMMA Expanded ==
  ASSUME NEW L, IsFiniteSet(L), NEW K, IsFiniteSet(K), NEW s \in [K -> Int], NEW A \in [K -> [L -> Int]],
         NEW f \in [L -> Int], NEW z \in [L -> Int], NEW i \in L, NEW t \in Int,
         NEW q \in [L -> Int], Hides(q, s, A, f, i, t, K, L)
  PROVE  Leaves(q, s, A, f, z, i, t, K, L)
<1> DEFINE v(l)  == VecMat(s, A, K, l)
           e(l)  == IF l = i THEN t ELSE 0
           lhs   == [l \in L |-> q[l] * z[l]]
           vz    == [l \in L |-> v(l) * z[l]]
           fz    == [l \in L |-> f[l] * z[l]]
           ez    == [l \in L |-> e(l) * z[l]]
           fez   == [l \in L |-> fz[l] + ez[l]]
           all   == [l \in L |-> vz[l] + fez[l]]
<1>1. \A l \in L : v(l) \in Int
  BY VecMatType
<1>2. /\ lhs \in [L -> Int] /\ fz \in [L -> Int] /\ ez \in [L -> Int] /\ vz \in [L -> Int]
  BY <1>1
<1>3. fez \in [L -> Int] /\ all \in [L -> Int]
  <2> HIDE DEF fz, ez, vz
  <2>1. fez \in [L -> Int]
    BY <1>2
  <2> HIDE DEF fez
  <2> QED
    BY <1>2, <2>1
<1>4. \A l \in L : Congruent(lhs[l], all[l])
  <2> TAKE l \in L
  <2> DEFINE sum == v(l) + f[l] + e(l)
  <2>1. sum \in Int /\ q[l] \in Int /\ z[l] \in Int /\ Congruent(q[l], sum) /\ Congruent(z[l], z[l])
    <3>1. Congruent(q[l], sum)
      BY DEF Hides
    <3>2. sum \in Int
      BY <1>1
    <3> QED
      BY <3>1, <3>2 DEF Congruent
  <2>2. all[l] = sum * z[l]
    <3> DEFINE x == v(l)
               y == f[l]
               w == e(l)
               u == z[l]
    <3>1. x \in Int /\ y \in Int /\ w \in Int /\ u \in Int
      BY <1>1
    <3>2. all[l] = x * u + (y * u + w * u)
      OBVIOUS
    <3> HIDE DEF x, y, w, u, all
    <3>3. x * u + (y * u + w * u) = (x + y + w) * u
      BY <3>1
    <3> QED
      BY <3>2, <3>3 DEF x, y, w, u
  <2> HIDE DEF sum, all
  <2>3. Congruent(q[l] * z[l], sum * z[l])
    BY <2>1, CongruentSum
  <2> QED
    BY <2>2, <2>3
<1>5. Congruent(SumOf(lhs, L), SumOf(all, L))
  <2> HIDE DEF lhs, all
  <2> QED
    BY <1>2, <1>3, <1>4, SumsCongruent
<1>6. SumOf(all, L) = SumOf(vz, L) + SumOf(fez, L)
  <2>1. \A l \in L : all[l] = vz[l] + fez[l]
    OBVIOUS
  <2> HIDE DEF all, vz, fez
  <2> QED
    BY <1>2, <1>3, <2>1, SumOfTwo
<1>7. SumOf(fez, L) = SumOf(fz, L) + SumOf(ez, L)
  <2>1. \A l \in L : fez[l] = fz[l] + ez[l]
    OBVIOUS
  <2> HIDE DEF fez, fz, ez
  <2> QED
    BY <1>2, <1>3, <2>1, SumOfTwo
<1>8. SumOf(ez, L) = t * z[i]
  <2>1. (\A l \in L : l # i => ez[l] = 0) /\ ez[i] = t * z[i]
    OBVIOUS
  <2> HIDE DEF ez
  <2> QED
    BY <1>2, <2>1, SumOfSingle
<1>9. SumOf(vz, L) = SumOf([k \in K |-> s[k] * MatVec(A, z, L, k)], K)
  <2>1. Associated(s, A, z, K, L)
    BY IsAssociated
  <2> QED
    BY <2>1 DEF Associated
<1> QED
  BY <1>5, <1>6, <1>7, <1>8, <1>9 DEF Leaves

\* What the client subtracts from an answer.
LEMMA SecretSumIs ==
  ASSUME NEW n \in Nat, Len(SeedStream) >= N * n, NEW d, IsDraw(d, n),
         NEW b, IsDatabase(b, n), NEW m, IsDigest(m, b, n), NEW c \in 0..(n - 1)
  PROVE  /\ SecretSum(d, m, c) \in Int
         /\ SumOf([k \in Dims |-> Secret(d)[k] * MatVec(Lattice(n), Bit(b, n, c), 0..(n - 1), k)], Dims) \in Int
         /\ Congruent(SecretSum(d, m, c),
                      SumOf([k \in Dims |-> Secret(d)[k] * MatVec(Lattice(n), Bit(b, n, c), 0..(n - 1), k)], Dims))
<1> DEFINE v(k) == MatVec(Lattice(n), Bit(b, n, c), 0..(n - 1), k)
           s == Secret(d)
           f == [k \in Dims |-> s[k] * Get(m, k, c)]
           g == [k \in Dims |-> s[k] * v(k)]
<1>1. s \in [Dims -> Int] /\ Lattice(n) \in [Dims -> [0..(n - 1) -> Int]] /\ IsFiniteSet(Dims)
      /\ Bit(b, n, c) \in [0..(n - 1) -> Int] /\ IsFiniteSet(0..(n - 1)) /\ N \in Nat
  <2>1. /\ Secret(d) \in [Dims -> Int] /\ Lattice(n) \in [Dims -> [0..(n - 1) -> Int]]
        /\ IsFiniteSet(Dims) /\ N \in Nat
    BY LatticeType
  <2>2. Bit(b, n, c) \in [0..(n - 1) -> Int]
    BY BitIs
  <2>3. IsFiniteSet(0..(n - 1))
    BY FS_Interval
  <2> QED
    BY <2>1, <2>2, <2>3
<1>2. \A k \in Dims : v(k) \in Int
  BY <1>1, VecMatType
<1>3. \A k \in Dims : Get(m, k, c) \in Int /\ Get(m, k, c) = v(k) % Q
  <2>1. \A k \in Dims : Get(m, k, c) = v(k) % Q
    BY DEF IsDigest
  <2>2. \A k \in Dims : v(k) % Q \in Word
    BY <1>2, Reduced
  <2>3. Word \subseteq Int
    BY MatrixAssumption DEF Word
  <2> QED
    BY <2>1, <2>2, <2>3
<1> HIDE DEF s, v
<1>4. f \in [Dims -> Int] /\ g \in [Dims -> Int]
  BY <1>1, <1>2, <1>3
<1>5. \A k \in Dims : Congruent(f[k], g[k])
  <2> TAKE k \in Dims
  <2>1. Congruent(Get(m, k, c), v(k))
    BY <1>2, <1>3, CongruentIs
  <2>2. Congruent(s[k], s[k])
    BY DEF Congruent
  <2>3. Congruent(s[k] * Get(m, k, c), s[k] * v(k))
    BY <1>1, <1>2, <1>3, <2>1, <2>2, CongruentSum
  <2> QED
    BY <2>3
<1>6. SumOf(f, Dims) \in Int /\ SumOf(g, Dims) \in Int /\ Congruent(SumOf(f, Dims), SumOf(g, Dims))
  <2> HIDE DEF f, g
  <2>1. Congruent(SumOf(f, Dims), SumOf(g, Dims))
    BY <1>1, <1>4, <1>5, SumsCongruent
  <2> QED
    BY <1>1, <1>4, <2>1, SumOfFacts
<1> QED
  BY <1>6 DEF s, v, SecretSum

LEMMA AnswerLeaves ==
  ASSUME NEW n \in Nat, Len(SeedStream) >= N * n, NEW d, IsDraw(d, n), NEW i \in 0..(n - 1),
         NEW f, NEW w, NEW q, IsQuery(q, w, n, d, i, f), NEW b, IsDatabase(b, n),
         NEW m, IsDigest(m, b, n), NEW c \in 0..(n - 1)
  PROVE  /\ AnswerSum(q.data, b, n, c) \in Int /\ Left(d, i, f, b, n, c) \in Int
         /\ Congruent(AnswerSum(q.data, b, n, c) - SecretSum(d, m, c), Left(d, i, f, b, n, c))
<1> DEFINE L == 0..(n - 1)
           s == Secret(d)
           A == Lattice(n)
           z == Bit(b, n, c)
           h == [l \in L |-> q.data[l + 1]]
           r == SumOf([k \in Dims |-> s[k] * MatVec(A, z, L, k)], Dims)
           e == ErrorSum(f, b, n, c)
           u == d.t * Get(b, i, c)
           a == AnswerSum(q.data, b, n, c)
           x == SecretSum(d, m, c)
<1>1. s \in [Dims -> Int] /\ A \in [Dims -> [L -> Int]] /\ IsFiniteSet(Dims) /\ N \in Nat
  BY LatticeType
<1>2. z \in [L -> Int] /\ \A l \in L : z[l] = Get(b, l, c) /\ Get(b, l, c) \in {0, 1}
  BY BitIs
<1>3. IsFiniteSet(L) /\ f \in [L -> Int]
  <2>1. f \in [L -> Int]
    BY DEF IsQuery
  <2>2. IsFiniteSet(L)
    BY ONLY n \in Nat, FS_Interval
  <2> QED
    BY <2>1, <2>2
<1>4. Word \subseteq Int /\ d.t \in Int
  BY MatrixAssumption DEF Word, IsDraw
<1>5. h \in [L -> Int]
  <2>1. \A l \in L : l + 1 \in 1..n
    OBVIOUS
  <2>2. q.data \in [1..n -> Word]
    BY DEF IsQuery
  <2> QED
    BY <1>4, <2>1, <2>2
<1>6. Hides(h, s, A, f, i, d.t, Dims, L)
  BY DEF IsQuery, Blind, Hides
<1>7. a = SumOf([l \in L |-> h[l] * z[l]], L)
  <2>1. [l \in L |-> h[l] * z[l]] = [l \in L |-> q.data[l + 1] * Get(b, l, c)]
    BY <1>2
  <2> QED
    BY <2>1 DEF AnswerSum
<1>8. u \in Int /\ u = d.t * z[i] /\ e = SumOf([l \in L |-> f[l] * z[l]], L) /\ e \in Int
  <2>1. u \in Int /\ u = d.t * z[i]
    <3> HIDE DEF z
    <3>1. z[i] = Get(b, i, c) /\ Get(b, i, c) \in Int
      BY <1>2
    <3> QED
      BY <1>4, <3>1
  <2>2. e \in Int
    BY <1>3, ErrorSumType
  <2> QED
    BY <2>1, <2>2 DEF ErrorSum
<1>9. r \in Int /\ x \in Int /\ Congruent(x, r)
  BY SecretSumIs
<1>10. a \in Int
  <2> DEFINE g == [l \in L |-> h[l] * z[l]]
  <2>1. g \in [L -> Int]
    BY <1>2, <1>5
  <2> HIDE DEF g
  <2>2. SumOf(g, L) \in Int
    BY <1>3, <2>1, SumOfFacts
  <2> QED
    BY <1>7, <2>2 DEF g
<1> HIDE DEF L, s, A, z, h, r, e, u, a, x
<1>11. Congruent(a, r + (e + u))
  <2>1. Leaves(h, s, A, f, z, i, d.t, Dims, L)
    BY <1>1, <1>2, <1>3, <1>4, <1>5, <1>6, Expanded DEF L
  <2> QED
    BY <1>7, <1>8, <2>1 DEF Leaves, r
<1>12. Congruent(a - x, (r + (e + u)) - r)
  <2>1. r + (e + u) \in Int
    BY <1>8, <1>9
  <2> QED
    BY <1>9, <1>10, <1>11, <2>1, CongruentSum
<1>13. (r + (e + u)) - r = e + u /\ e + u \in Int
  BY <1>8, <1>9
<1> QED
  BY <1>9, <1>10, <1>12, <1>13 DEF Left, a, x, e, u

\* By how much an answer from h is off one from b, and what remains of it.
Off(q, b, h, c) == Get(BinaryMul(q, h), 0, c) - Get(BinaryMul(q, b), 0, c)

RemainsAt(v, d, i, f, q, b, h, n, c) ==
  /\ Get(v, 0, c) \in Word
  /\ Left(d, i, f, b, n, c) \in Int /\ Off(q, b, h, c) \in Int
  /\ (h = b => Off(q, b, h, c) = 0)
  /\ Congruent(Get(v, 0, c), Left(d, i, f, b, n, c) + Off(q, b, h, c))

Remains(v, d, i, f, q, b, h, n) == \A c \in 0..(n - 1) : RemainsAt(v, d, i, f, q, b, h, n, c)

LEMMA EntryIs ==
  ASSUME NEW n \in Nat, NEW w, NEW e \in [1..n -> Word], NEW c \in 0..(n - 1)
  PROVE  Get(Filled(1, n, w, e), 0, c) = e[c + 1] /\ e[c + 1] \in Word /\ e[c + 1] \in Int
<1>1. n * 0 + c + 1 = c + 1 /\ c + 1 \in 1..n
  OBVIOUS
<1>2. e[c + 1] \in Word /\ Word \subseteq Int
  BY <1>1, MatrixAssumption DEF Word
<1> QED
  BY <1>1, <1>2 DEF Get, Filled

LEMMA RemainderIs ==
  ASSUME NEW n \in Nat, Len(SeedStream) >= N * n, NEW d, IsDraw(d, n), NEW i \in 0..(n - 1),
         NEW f, NEW w, NEW q, IsQuery(q, w, n, d, i, f), NEW b, IsDatabase(b, n), NEW h, IsDatabase(h, n),
         NEW m, IsDigest(m, b, n)
  PROVE  /\ Remains(Sub(BinaryMul(q, h), Mul(NewRandom(d.secret, 1, N), m)), d, i, f, q, b, h, n)
         /\ Remains(Sub(BinaryMul128(q, h), Mul128(NewRandom128(d.secret, 1, N), m)), d, i, f, q, b, h, n)
<1>1. q = Filled(1, n, w, q.data) /\ q.data \in [1..n -> Word]
  BY DEF IsQuery
<1>2. PICK e : /\ BinaryMul(q, h) = Filled(1, n, 4, e) /\ BinaryMul128(q, h) = Filled(1, n, 16, e)
               /\ IsAnswer(e, q.data, h, n)
  BY <1>1, AnswerIs
<1>3. PICK a : /\ BinaryMul(q, b) = Filled(1, n, 4, a)
               /\ IsAnswer(a, q.data, b, n)
  BY <1>1, AnswerIs
<1>4. d.secret \in Seq(Word) /\ Len(d.secret) >= N /\ IsMatrix(m, N, n, Int)
  BY WordsAreInt DEF IsDraw, IsDigest
<1>5. PICK x : Mul(NewRandom(d.secret, 1, N), m) = Filled(1, n, 4, x) /\ IsTimes(x, n, d, m)
  BY <1>4, SecretTimes
<1>6. PICK y : Mul128(NewRandom128(d.secret, 1, N), m) = Filled(1, n, 16, y) /\ IsTimes(y, n, d, m)
  BY <1>4, SecretTimes
<1>7. e \in [1..n -> Word] /\ a \in [1..n -> Word] /\ x \in [1..n -> Word] /\ y \in [1..n -> Word]
  BY <1>2, <1>3, <1>5, <1>6 DEF IsAnswer, IsTimes
<1>8. ASSUME NEW u, NEW z, IsTimes(z, n, d, m)
      PROVE  Remains(Sub(Filled(1, n, u, e), Filled(1, n, u, z)), d, i, f, q, b, h, n)
  <2>1. z \in [1..n -> Word]
    BY <1>8 DEF IsTimes
  <2>2. z \in [1..n -> Int] /\ e \in [1..n -> Int]
    BY <1>7, <2>1, MatrixAssumption DEF Word
  <2>3. AddsUp(n, 1, n, u, e, z) /\ Minus(n, e, z) \in [1..n -> Word]
    BY <2>2, AddIs
  <2>4. Sub(Filled(1, n, u, e), Filled(1, n, u, z)) = Filled(1, n, u, Minus(n, e, z))
    BY <2>3 DEF AddsUp
  <2>5. ASSUME NEW c \in 0..(n - 1)
        PROVE  RemainsAt(Filled(1, n, u, Minus(n, e, z)), d, i, f, q, b, h, n, c)
    <3> DEFINE ec == e[c + 1]
               ac == a[c + 1]
               zc == z[c + 1]
               aa == AnswerSum(q.data, b, n, c)
               ss == SecretSum(d, m, c)
               ll == Left(d, i, f, b, n, c)
               oo == Off(q, b, h, c)
               gg == Get(Filled(1, n, u, Minus(n, e, z)), 0, c)
    <3>1. /\ ec \in Int /\ Get(Filled(1, n, 4, e), 0, c) = ec
          /\ ac \in Int /\ Get(Filled(1, n, 4, a), 0, c) = ac
          /\ zc \in Int
          /\ gg \in Word /\ gg \in Int /\ gg = Minus(n, e, z)[c + 1]
      <4>1. ec \in Int /\ Get(Filled(1, n, 4, e), 0, c) = ec
        BY <1>7, EntryIs
      <4>2. ac \in Int /\ Get(Filled(1, n, 4, a), 0, c) = ac
        BY <1>7, EntryIs
      <4>3. zc \in Int
        BY <2>1, EntryIs
      <4>4. gg = Minus(n, e, z)[c + 1] /\ gg \in Word /\ gg \in Int
        BY <2>3, EntryIs
      <4> QED
        BY <4>1, <4>2, <4>3, <4>4
    <3>2. oo = ec - ac /\ oo \in Int
      BY <1>2, <1>3, <3>1 DEF Off
    <3>14. h = b => oo = 0
      BY <1>2, <1>3, <3>1, <3>2
    <3>3. gg = (ec - zc) % Q
      <4>1. c + 1 \in 1..n
        OBVIOUS
      <4> QED
        BY <3>1, <4>1 DEF Minus
    <3>4. /\ aa \in Int /\ ll \in Int /\ Congruent(aa - ss, ll)
      BY AnswerLeaves
    <3>5. ss \in Int
      BY SecretSumIs
    <3>6. ac = aa % Q /\ zc = ss % Q
      BY <1>3, <1>8 DEF IsAnswer, IsTimes
    <3> HIDE DEF ec, ac, zc, aa, ss, ll, oo, gg
    <3>7. Congruent(ac, aa) /\ Congruent(zc, ss)
      BY <3>4, <3>5, <3>6, CongruentIs
    <3>8. Congruent(ac - zc, aa - ss)
      BY <3>1, <3>4, <3>5, <3>7, CongruentSum
    <3>9. Congruent(ac - zc, ll)
      <4>1. ac - zc \in Int /\ aa - ss \in Int
        BY <3>1, <3>4, <3>5
      <4> QED
        BY <3>4, <3>8, <4>1, CongruentIs
    <3>10. Congruent((ac - zc) + oo, ll + oo)
      <4>1. ac - zc \in Int /\ Congruent(oo, oo)
        BY <3>1 DEF Congruent
      <4> QED
        BY <3>2, <3>4, <3>9, <4>1, CongruentSum
    <3>11. (ac - zc) + oo = ec - zc /\ ec - zc \in Int /\ ll + oo \in Int
      BY <3>1, <3>2, <3>4
    <3>12. Congruent(gg, ec - zc)
      BY <3>3, <3>11, CongruentIs
    <3>13. Congruent(gg, ll + oo)
      BY <3>1, <3>10, <3>11, <3>12, CongruentIs
    <3> QED
      BY <3>1, <3>2, <3>4, <3>13, <3>14 DEF ll, oo, gg, RemainsAt
  <2> QED
    BY <2>4, <2>5 DEF Remains
<1> QED
  BY <1>2, <1>5, <1>6, <1>8
-----------------------------------------------------------------------------
(* Entries near zero.                                                       *)

LEMMA CongruentTo ==
  ASSUME NEW a \in Int, NEW b \in Int
  PROVE  Congruent(a, b) <=> \E k \in Int : a = k * Q + b
<1>1. Q \in Nat /\ Q > 0
  BY MatrixAssumption
<1>2. (a % Q = b % Q) <=> (\E k \in Int : a = k * Q + b)
  BY <1>1, ModCongruent
<1> QED
  BY <1>2 DEF Congruent

\* An entry that differs from one of lo..hi by a multiple of Q.
Close(val, lo, hi) == \E z \in lo..hi : Congruent(val, z)

LEMMA SmallMultiple ==
  ASSUME NEW k \in Int, NEW x \in Int, -Q < k * Q + x, k * Q + x < Q
  PROVE  (x >= 0 => k <= 0) /\ (x <= 0 => k >= 0) /\ (x > -Q => k <= 1) /\ (x < Q => k >= -1)
<1>1. Q \in Int /\ Q > 0
  BY MatrixAssumption
<1>2. ASSUME x >= 0, k >= 1
      PROVE  FALSE
  <2> DEFINE y == (k - 1) * Q
  <2>1. y \in Int /\ y >= 0 /\ k * Q = y + Q
    BY <1>1, <1>2
  <2> QED
    BY <1>1, <1>2, <2>1
<1>3. ASSUME x <= 0, k <= -1
      PROVE  FALSE
  <2> DEFINE y == (-k - 1) * Q
  <2>1. y \in Int /\ y >= 0 /\ k * Q = -y - Q
    BY <1>1, <1>3
  <2> QED
    BY <1>1, <1>3, <2>1
<1>4. ASSUME x > -Q, k >= 2
      PROVE  FALSE
  <2> DEFINE y == (k - 2) * Q
  <2>1. y \in Int /\ y >= 0 /\ k * Q = y + 2 * Q
    BY <1>1, <1>4
  <2> QED
    BY <1>1, <1>4, <2>1
<1>5. ASSUME x < Q, k <= -2
      PROVE  FALSE
  <2> DEFINE y == (-k - 2) * Q
  <2>1. y \in Int /\ y >= 0 /\ k * Q = -y - 2 * Q
    BY <1>1, <1>5
  <2> QED
    BY <1>1, <1>5, <2>1
<1> QED
  BY <1>2, <1>3, <1>4, <1>5

LEMMA WrappedBound ==
  ASSUME NEW B \in Nat, B > 0, B < Q
  PROVE  (-B) % Q = Q - B
<1>1. Q \in Nat /\ Q > 0 /\ Q - B \in 0..(Q - 1) /\ -1 \in Int
  BY MatrixAssumption
<1>2. ((-1) * Q + (Q - B)) % Q = Q - B
  BY <1>1, UniqueRemainder
<1>3. (-1) * Q + (Q - B) = -B
  BY <1>1
<1> QED
  BY <1>2, <1>3

LEMMA inRangeIs ==
  ASSUME NEW p, p.B \in Nat, p.B > 0, NEW val \in Word
  PROVE  inRange(p, val) <=> Close(val, -(p.B - 1), p.B - 1)
<1> DEFINE B == p.B
<1>1. Q \in Nat /\ Q > 0 /\ val \in Int /\ 0 <= val /\ val < Q
  BY MatrixAssumption DEF Word
<1>2. CASE B >= Q
  <2>1. val \in (-(B - 1))..(B - 1) /\ Congruent(val, val) /\ val < B
    BY <1>1, <1>2 DEF Congruent
  <2> QED
    BY <2>1 DEF inRange, Close
<1>3. CASE B < Q
  <2>1. (-B) % Q = Q - B
    BY <1>3, WrappedBound
  <2>2. ASSUME inRange(p, val)
        PROVE  Close(val, -(B - 1), B - 1)
    <3>1. CASE val < B
      <4>1. val \in (-(B - 1))..(B - 1) /\ Congruent(val, val)
        BY <1>1, <3>1 DEF Congruent
      <4> QED
        BY <4>1 DEF Close
    <3>2. CASE val > Q - B
      <4>1. val - Q \in (-(B - 1))..(B - 1) /\ val = 1 * Q + (val - Q) /\ 1 \in Int /\ val - Q \in Int
        BY <1>1, <1>3, <3>2
      <4>2. Congruent(val, val - Q)
        BY ONLY <1>1, <4>1, CongruentTo
      <4> QED
        BY <4>1, <4>2 DEF Close
    <3> QED
      BY <2>1, <2>2, <3>1, <3>2 DEF inRange
  <2>3. ASSUME NEW z \in (-(B - 1))..(B - 1), Congruent(val, z)
        PROVE  val < B \/ val > Q - B
    <3>1. PICK k \in Int : val = k * Q + z
      BY <1>1, <2>3, CongruentTo
    <3>2. k <= 1 /\ k >= -1 /\ (z >= 0 => k <= 0) /\ (z <= 0 => k >= 0)
      BY <1>1, <1>3, <3>1, SmallMultiple
    <3>3. k \in {-1, 0, 1}
      BY <3>2
    <3> QED
      BY <1>1, <1>3, <3>1, <3>2, <3>3
  <2> QED
    BY <2>1, <2>2, <2>3 DEF inRange, Close
<1> QED
  BY <1>1, <1>2, <1>3

LEMMA inRange128Is ==
  ASSUME NEW p, p.B \in Nat, p.B > 0, NEW val \in Word
  PROVE  /\ inRange128(p, val) => Close(val, -(p.B + 1), p.B - 1)
         /\ Close(val, -p.B, p.B - 1) => inRange128(p, val)
<1> DEFINE B == p.B
<1>1. Q \in Nat /\ Q > 0 /\ val \in Int /\ 0 <= val /\ val < Q
  BY MatrixAssumption DEF Word
<1>2. ASSUME inRange128(p, val)
      PROVE  Close(val, -(B + 1), B - 1)
  <2>1. CASE val < B
    <3>1. val \in (-(B + 1))..(B - 1) /\ Congruent(val, val)
      BY <1>1, <2>1 DEF Congruent
    <3> QED
      BY <3>1 DEF Close
  <2>2. CASE val > (Q - 1) - (B + 1)
    <3>1. val - Q \in (-(B + 1))..(B - 1) /\ val = 1 * Q + (val - Q) /\ 1 \in Int /\ val - Q \in Int
      BY <1>1, <2>2
    <3>2. Congruent(val, val - Q)
      BY ONLY <1>1, <3>1, CongruentTo
    <3> QED
      BY <3>1, <3>2 DEF Close
  <2> QED
    BY <1>2, <2>1, <2>2 DEF inRange128
<1>3. ASSUME NEW z \in (-B)..(B - 1), Congruent(val, z), B < Q
      PROVE  val < B \/ val > (Q - 1) - (B + 1)
  <2>0. z \in Int /\ val \in Int
    BY <1>1
  <2>1. PICK k \in Int : val = k * Q + z
    BY ONLY <1>3, <2>0, CongruentTo
  <2>2. k <= 1 /\ k >= -1 /\ (z >= 0 => k <= 0) /\ (z <= 0 => k >= 0)
    BY <1>1, <1>3, <2>1, SmallMultiple
  <2>3. k \in {-1, 0, 1}
    BY <2>2
  <2> QED
    BY <1>1, <1>3, <2>1, <2>2, <2>3
<1>4. B >= Q => val < B
  BY <1>1
<1> QED
  BY <1>1, <1>2, <1>3, <1>4 DEF inRange128, Close

LEMMA DistanceIs ==
  ASSUME NEW x \in Int, NEW y \in Int, NEW R \in Int, Congruent(x, y), -R <= y, y <= R
  PROVE  Distance(x) <= R
<1>1. Q \in Nat /\ Q > 0
  BY MatrixAssumption
<1>2. ASSUME NEW u \in Nat
      PROVE  u % Q <= u
  BY <1>1
<1>3. /\ x % Q \in Int /\ (-x) % Q \in Int /\ y % Q \in Int /\ (-y) % Q \in Int
      /\ 0 <= x % Q /\ 0 <= (-x) % Q
  BY <1>1, Division
<1>4. x % Q = y % Q
  BY DEF Congruent
<1>5. (-x) % Q = (-y) % Q
  <2>1. Congruent(0, 0) /\ 0 \in Int
    BY DEF Congruent
  <2>2. Congruent(0 - x, 0 - y)
    BY <2>1, CongruentSum
  <2>3. 0 - x = -x /\ 0 - y = -y
    OBVIOUS
  <2> QED
    BY <2>2, <2>3 DEF Congruent
<1>6. CASE y >= 0
  <2>1. y % Q <= y
    BY <1>2, <1>6
  <2> QED
    BY <1>3, <1>4, <2>1 DEF Distance, Least
<1>7. CASE y < 0
  <2>1. (-y) % Q <= -y
    BY <1>2, <1>7
  <2> QED
    BY <1>3, <1>5, <2>1 DEF Distance, Least
<1> QED
  BY <1>6, <1>7
-----------------------------------------------------------------------------
(* What a client makes of an answer.                                        *)

LEMMA ErrorSumBounds ==
  ASSUME NEW n \in Nat, NEW b, IsDatabase(b, n), NEW c \in 0..(n - 1), NEW f \in [0..(n - 1) -> Int],
         NEW lo \in Int, NEW hi \in Int, lo <= 0, 0 <= hi,
         \A l \in 0..(n - 1) : lo <= f[l] /\ f[l] <= hi
  PROVE  n * lo <= ErrorSum(f, b, n, c) /\ ErrorSum(f, b, n, c) <= n * hi
<1> DEFINE L == 0..(n - 1)
           z == Bit(b, n, c)
           h == [l \in L |-> f[l] * z[l]]
<1>1. IsFiniteSet(L) /\ Cardinality(L) = n
  BY FS_Interval
<1>2. \A l \in L : z[l] \in {0, 1}
  <2>1. \A l \in L : z[l] = Get(b, l, c) /\ Get(b, l, c) \in {0, 1}
    BY BitIs
  <2> QED
    BY <2>1
<1> HIDE DEF z
<1>3. \A l \in L : h[l] \in Int /\ lo <= h[l] /\ h[l] <= hi
  BY <1>2
<1>4. h \in [L -> Int] /\ L \in SUBSET L
  BY <1>3
<1> HIDE DEF h, L
<1>5. Cardinality(L) * lo <= SumOf(h, L) /\ SumOf(h, L) <= Cardinality(L) * hi
  BY <1>1, <1>3, <1>4, SumOfBounds
<1> QED
  BY <1>1, <1>5 DEF ErrorSum, h, z, L

\* What LWEReconstruct and LWE128Reconstruct return, if A is what they take
\* for zero.
Accepts(v, A, t, c) == Get(v, 0, c) \in A \/ (Get(v, 0, c) - t) % Q \in A
Judge(v, A, n, j, t) ==
  IF \E c \in 0..(n - 1) : ~Accepts(v, A, t, c) THEN Reject
  ELSE IF Get(v, 0, j) \in A THEN 0 ELSE 1

\* The margins: errors are in lo..hi, these are accepted, and what is accepted
\* is in la..ha; R is the largest difference of the two.
Margins(A, lo, hi, la, ha, R) ==
  /\ lo \in Int /\ hi \in Int /\ la \in Int /\ ha \in Int /\ R \in Int
  /\ \A val \in Word : val \in A => Close(val, la, ha)
  /\ \A val \in Word : Close(val, lo, hi) => val \in A
  /\ -R <= la - hi /\ ha - lo <= R

\* Deviations that an accepted answer may have, and what an honest one yields.
Deviates(off, t, R) == \E shift \in {0, t, -t} : Distance(off + shift) <= R
Reads(r, bit, t, R) == /\ r # Reject
                       /\ r \in {0, 1}
                       /\ r # bit => r = 0 /\ Distance(t) <= R

ColumnReads(g, t, bit, off, A, R) ==
  /\ g \in A => Distance(off + t * bit) <= R
  /\ (g - t) % Q \in A => Distance(off + (t * bit - t)) <= R
  /\ off = 0 => IF bit = 0 THEN g \in A ELSE (g - t) % Q \in A

LEMMA ColumnIs ==
  ASSUME NEW g \in Word, NEW e \in Int, NEW t \in Int, NEW bit \in {0, 1}, NEW off \in Int,
         Congruent(g, (e + t * bit) + off),
         NEW A, NEW lo, NEW hi, NEW la, NEW ha, NEW R, Margins(A, lo, hi, la, ha, R), lo <= e, e <= hi
  PROVE  ColumnReads(g, t, bit, off, A, R)
<1> DEFINE x == t * bit
           m == (g - t) % Q
<1>1. x \in Int /\ g \in Int /\ g - t \in Int /\ (e + x) + off \in Int /\ (bit = 0 => x = 0) /\ (bit = 1 => x = t)
  BY MatrixAssumption DEF Word
<1>2. m \in Word /\ m \in Int /\ Congruent(m, g - t)
  <2>1. m \in Word
    BY <1>1, Reduced
  <2>2. Word \subseteq Int
    BY MatrixAssumption DEF Word
  <2>3. Congruent(m, g - t)
    BY <1>1, CongruentIs
  <2> QED
    BY <2>1, <2>2, <2>3
<1>3. lo \in Int /\ hi \in Int /\ la \in Int /\ ha \in Int /\ R \in Int /\ -R <= la - hi /\ ha - lo <= R
  BY DEF Margins
<1> HIDE DEF x, m
<1>4. ASSUME NEW u \in Int, NEW z \in la..ha, Congruent((e + u), z)
      PROVE  Distance(u) <= R
  <2>1. z \in Int /\ e + u \in Int /\ Congruent(e, e)
    BY <1>3 DEF Congruent
  <2>2. Congruent((e + u) - e, z - e)
    BY <1>4, <2>1, CongruentSum
  <2>3. (e + u) - e = u /\ z - e \in Int /\ -R <= z - e /\ z - e <= R
    BY <1>3, <2>1
  <2> QED
    BY <1>3, <2>2, <2>3, DistanceIs
<1>5. ASSUME g \in A
      PROVE  Distance(off + x) <= R
  <2>1. PICK z \in la..ha : Congruent(g, z)
    BY <1>5 DEF Margins, Close
  <2>2. z \in Int /\ (e + x) + off = e + (off + x) /\ off + x \in Int
    BY <1>1, <1>3
  <2>3. Congruent((e + x) + off, g)
    BY <1>1, CongruentIs DEF x
  <2>4. Congruent((e + x) + off, z)
    BY <1>1, <2>1, <2>2, <2>3, CongruentIs
  <2> QED
    BY <1>4, <2>2, <2>4
<1>6. Congruent(m, ((e + x) + off) - t)
  <2>1. Congruent(g, (e + x) + off) /\ Congruent(t, t)
    BY DEF Congruent, x
  <2>2. Congruent(g - t, ((e + x) + off) - t)
    BY <1>1, <2>1, CongruentSum
  <2>3. ((e + x) + off) - t \in Int
    BY <1>1
  <2> QED
    BY <1>1, <1>2, <2>2, <2>3, CongruentIs
<1>7. ASSUME m \in A
      PROVE  Distance(off + (x - t)) <= R
  <2>1. PICK z \in la..ha : Congruent(m, z)
    BY <1>2, <1>7 DEF Margins, Close
  <2>2. z \in Int /\ ((e + x) + off) - t = e + (off + (x - t)) /\ off + (x - t) \in Int /\ ((e + x) + off) - t \in Int
    BY <1>1, <1>3
  <2>3. Congruent(((e + x) + off) - t, m)
    BY <1>2, <1>6, <2>2, CongruentIs
  <2>4. Congruent(((e + x) + off) - t, z)
    BY <1>2, <2>1, <2>2, <2>3, CongruentIs
  <2> QED
    BY <1>4, <2>2, <2>4
<1>8. ASSUME off = 0, bit = 0
      PROVE  g \in A
  <2>1. (e + x) + off = e
    BY <1>1, <1>8
  <2>2. Congruent(g, e)
    BY <2>1 DEF x
  <2>3. e \in lo..hi
    BY <1>3
  <2> QED
    BY <2>2, <2>3 DEF Margins, Close
<1>9. ASSUME off = 0, bit = 1
      PROVE  m \in A
  <2>1. ((e + x) + off) - t = e
    BY <1>1, <1>9
  <2>2. Congruent(m, e)
    BY <1>6, <2>1
  <2>3. e \in lo..hi
    BY <1>3
  <2> QED
    BY <1>2, <2>2, <2>3 DEF Margins, Close
<1> QED
  BY <1>5, <1>7, <1>8, <1>9 DEF x, m, ColumnReads

Outcome(r, q, b, h, i, j, t, n, R) ==
  /\ r \in {0, 1, Reject}
  /\ (r # Reject => \A c \in 0..(n - 1) : Deviates(Off(q, b, h, c), t, R))
  /\ (h = b => Reads(r, Get(b, i, j), t, R))

LEMMA JudgeIs ==
  ASSUME NEW n \in Nat, NEW b, IsDatabase(b, n), NEW h, NEW i \in 0..(n - 1), NEW j \in 0..(n - 1),
         NEW d, d.t \in Int, NEW q, NEW f \in [0..(n - 1) -> Int],
         NEW v, Remains(v, d, i, f, q, b, h, n),
         NEW A, NEW lo, NEW hi, NEW la, NEW ha, NEW R, Margins(A, lo, hi, la, ha, R),
         \A c \in 0..(n - 1) : lo <= ErrorSum(f, b, n, c) /\ ErrorSum(f, b, n, c) <= hi
  PROVE  Outcome(Judge(v, A, n, j, d.t), q, b, h, i, j, d.t, n, R)
<1> DEFINE t == d.t
<1>1. ASSUME NEW c \in 0..(n - 1)
      PROVE  LET g == Get(v, 0, c) off == Off(q, b, h, c) bit == Get(b, i, c) IN
             /\ bit \in {0, 1} /\ off \in Int
             /\ g \in A => Distance(off + t * bit) <= R
             /\ (g - t) % Q \in A => Distance(off + (t * bit - t)) <= R
             /\ off = 0 => IF bit = 0 THEN g \in A ELSE (g - t) % Q \in A
  <2> DEFINE g == Get(v, 0, c)
             off == Off(q, b, h, c)
             bit == Get(b, i, c)
             e == ErrorSum(f, b, n, c)
  <2>1. bit \in {0, 1}
    BY BitIs
  <2>2. e \in Int /\ lo <= e /\ e <= hi
    BY ErrorSumType
  <2>3. g \in Word /\ off \in Int /\ Congruent(g, (e + t * bit) + off)
    BY DEF Remains, RemainsAt, Left
  <2> HIDE DEF g, off, bit, e
  <2>4. ColumnReads(g, t, bit, off, A, R)
    BY <2>1, <2>2, <2>3, ColumnIs
  <2> QED
    BY <2>1, <2>3, <2>4 DEF g, off, bit, ColumnReads
<1>2. ASSUME NEW c \in 0..(n - 1), Accepts(v, A, t, c)
      PROVE  Deviates(Off(q, b, h, c), t, R)
  <2> DEFINE g == Get(v, 0, c)
             off == Off(q, b, h, c)
             bit == Get(b, i, c)
  <2>1. /\ bit \in {0, 1} /\ off \in Int
        /\ g \in A => Distance(off + t * bit) <= R
        /\ (g - t) % Q \in A => Distance(off + (t * bit - t)) <= R
    BY <1>1
  <2>2. g \in A \/ (g - t) % Q \in A
    BY <1>2 DEF Accepts
  <2> HIDE DEF g, off, bit
  <2>3. t * bit \in {0, t} /\ t * bit - t \in {0, -t}
    BY <2>1
  <2> QED
    BY <2>1, <2>2, <2>3 DEF Deviates, off
<1>3. ASSUME h = b
      PROVE  Reads(Judge(v, A, n, j, t), Get(b, i, j), t, R)
  <2>1. \A c \in 0..(n - 1) : Off(q, b, h, c) = 0
    BY <1>3 DEF Remains, RemainsAt
  <2>2. \A c \in 0..(n - 1) : Accepts(v, A, t, c)
    <3> TAKE c \in 0..(n - 1)
    <3> QED
      BY <1>1, <2>1 DEF Accepts
  <2> DEFINE g == Get(v, 0, j)
             bit == Get(b, i, j)
  <2>3. Judge(v, A, n, j, t) = IF g \in A THEN 0 ELSE 1
    BY <2>2 DEF Judge
  <2>4. /\ bit \in {0, 1}
        /\ g \in A => Distance(0 + t * bit) <= R
        /\ bit = 0 => g \in A
    BY <1>1, <2>1
  <2>5. 0 \notin {Reject} /\ 1 \notin {Reject}
    BY SimulationAssumption
  <2> HIDE DEF g, bit
  <2>6. bit = 1 => 0 + t * bit = t
    OBVIOUS
  <2> QED
    BY <2>3, <2>4, <2>5, <2>6 DEF Reads, bit
<1>4. Judge(v, A, n, j, t) # Reject => \A c \in 0..(n - 1) : Accepts(v, A, t, c)
  BY DEF Judge
<1> QED
  BY <1>2, <1>3, <1>4 DEF Judge, Outcome

\* The bound of a database of n rows: no sum of n typical errors reaches it.
Bound(n) == n * BoundPerRow

LEMMA BoundIs ==
  ASSUME NEW n \in Nat, n > 0, BoundPerRow > 0
  PROVE  /\ Bound(n) \in Nat /\ Bound(n) > 0
         /\ n * (-(BoundPerRow - 1)) >= -(Bound(n) - 1) /\ n * (-BoundPerRow) >= -Bound(n)
         /\ n * (BoundPerRow - 1) <= Bound(n) - 1
         /\ n * (-(BoundPerRow - 1)) \in Int /\ n * (-BoundPerRow) \in Int /\ n * (BoundPerRow - 1) \in Int
<1>1. BoundPerRow \in Nat
  BY SingleServerAssumption
<1> DEFINE x == n * (BoundPerRow - 1)
<1>2. x \in Nat
  BY <1>1
<1>3. Bound(n) = x + n
  BY <1>1 DEF Bound
<1>4. n * (-(BoundPerRow - 1)) = -x /\ n * (-BoundPerRow) = -x - n
  BY <1>1
<1> HIDE DEF x
<1> QED
  BY <1>2, <1>3, <1>4 DEF x

Zero(p)    == {val \in Word : inRange(p, val)}
Zero128(p) == {val \in Word : inRange128(p, val)}

LEMMA MarginsAre ==
  ASSUME NEW n \in Nat, n > 0, BoundPerRow > 0, NEW p, p.B = Bound(n)
  PROVE  /\ Margins(Zero(p), -(p.B - 1), p.B - 1, -(p.B - 1), p.B - 1, 2 * p.B)
         /\ Margins(Zero128(p), -p.B, p.B - 1, -(p.B + 1), p.B - 1, 2 * p.B)
<1> DEFINE B == p.B
<1>1. B \in Nat /\ B > 0
  BY BoundIs
<1>2. ASSUME NEW val \in Word
      PROVE  /\ val \in Zero(p) <=> Close(val, -(B - 1), B - 1)
             /\ val \in Zero128(p) => Close(val, -(B + 1), B - 1)
             /\ Close(val, -B, B - 1) => val \in Zero128(p)
  BY <1>1, inRangeIs, inRange128Is DEF Zero, Zero128
<1> HIDE DEF B
<1>3. /\ Margins(Zero(p), -(B - 1), B - 1, -(B - 1), B - 1, 2 * B)
      /\ Margins(Zero128(p), -B, B - 1, -(B + 1), B - 1, 2 * B)
  BY <1>1, <1>2 DEF Margins
<1> QED
  BY <1>3 DEF B

LEMMA Judges ==
  ASSUME NEW n, NEW p, p.M = n, NEW m, NEW d, d.t \in Int, NEW a, NEW j \in 0..(n - 1),
         NEW v, v = Sub(a, Mul(NewRandom(d.secret, 1, N), m)),
         \A c \in 0..(n - 1) : Get(v, 0, c) \in Word
  PROVE  LWEReconstruct(p, m, j, d, a) = Judge(v, Zero(p), n, j, d.t)
<1>1. ASSUME NEW x \in Word
      PROVE  (x - d.t) % Q \in Word
  <2>1. x - d.t \in Int
    BY MatrixAssumption DEF Word
  <2> QED
    BY <2>1, Reduced
<1>2. LWEReconstruct(p, m, j, d, a) =
        IF \E c \in 0..(n - 1) : ~inRange(p, Get(v, 0, c)) /\ ~inRange(p, (Get(v, 0, c) - d.t) % Q)
        THEN Reject ELSE IF inRange(p, Get(v, 0, j)) THEN 0 ELSE 1
  BY DEF LWEReconstruct
<1>3. \A c \in 0..(n - 1) : /\ (Get(v, 0, c) \in Zero(p) <=> inRange(p, Get(v, 0, c)))
                           /\ ((Get(v, 0, c) - d.t) % Q \in Zero(p) <=> inRange(p, (Get(v, 0, c) - d.t) % Q))
  BY <1>1 DEF Zero
<1> QED
  BY <1>2, <1>3 DEF Judge, Accepts

LEMMA Judges128 ==
  ASSUME NEW n, NEW p, p.M = n, NEW m, NEW d, d.t \in Int, NEW a, NEW j \in 0..(n - 1),
         NEW v, v = Sub(a, Mul128(NewRandom128(d.secret, 1, N), m)),
         \A c \in 0..(n - 1) : Get(v, 0, c) \in Word
  PROVE  LWE128Reconstruct(p, m, j, d, a) = Judge(v, Zero128(p), n, j, d.t)
<1>1. ASSUME NEW x \in Word
      PROVE  (x - d.t) % Q \in Word
  <2>1. x - d.t \in Int
    BY MatrixAssumption DEF Word
  <2> QED
    BY <2>1, Reduced
<1>2. LWE128Reconstruct(p, m, j, d, a) =
        IF \E c \in 0..(n - 1) : ~inRange128(p, Get(v, 0, c)) /\ ~inRange128(p, (Get(v, 0, c) - d.t) % Q)
        THEN Reject ELSE IF inRange128(p, Get(v, 0, j)) THEN 0 ELSE 1
  BY DEF LWE128Reconstruct
<1>3. \A c \in 0..(n - 1) : /\ (Get(v, 0, c) \in Zero128(p) <=> inRange128(p, Get(v, 0, c)))
                           /\ ((Get(v, 0, c) - d.t) % Q \in Zero128(p) <=> inRange128(p, (Get(v, 0, c) - d.t) % Q))
  BY <1>1 DEF Zero128
<1> QED
  BY <1>2, <1>3 DEF Judge, Accepts

\* One query, its answer from h, and what the client reconstructs with the
\* digest of b.
LEMMA LWEOutcome ==
  ASSUME NEW n \in Nat, Len(SeedStream) >= N * n, NEW d, IsDraw(d, n), TypicalDraw(d, n),
         NEW i \in 0..(n - 1), NEW j \in 0..(n - 1), NEW b, IsDatabase(b, n), NEW h, IsDatabase(h, n),
         NEW p, p = ParamsWithDatabaseSize(n, n), NEW q, q = LWEQuery(p, i, d)
  PROVE  Outcome(LWEReconstruct(p, Digest(b, n), j, d, BinaryMul(q, h)), q, b, h, i, j, d.t, n, 2 * p.B)
<1> DEFINE f == Noises(d, n)
           m == Digest(b, n)
           v == Sub(BinaryMul(q, h), Mul(NewRandom(d.secret, 1, N), m))
<1>1. n > 0 /\ p.L = n /\ p.M = n /\ p.B = Bound(n)
  BY DEF ParamsWithDatabaseSize, computeB, Bound
<1>2. IsQuery(q, 4, n, d, i, f) /\ IsDigest(m, b, n)
  BY <1>1, QueryIs, DigestIs
<1>3. Remains(v, d, i, f, q, b, h, n)
  BY <1>2, RemainderIs
<1>4. d.t \in Int /\ f \in [0..(n - 1) -> Int] /\ BoundPerRow \in Nat /\ BoundPerRow > 0
      /\ \A l \in 0..(n - 1) : -(BoundPerRow - 1) <= f[l] /\ f[l] <= BoundPerRow - 1
  <2>1. d.t \in Int
    BY MatrixAssumption DEF IsDraw, Word
  <2>2. f \in [0..(n - 1) -> Int]
    BY NoisesType
  <2> QED
    BY <1>1, <2>1, <2>2, TypicalNoises
<1> HIDE DEF f, v, m
<1>5. Margins(Zero(p), -(p.B - 1), p.B - 1, -(p.B - 1), p.B - 1, 2 * p.B)
  BY <1>1, <1>4, MarginsAre
<1>6. ASSUME NEW c \in 0..(n - 1)
      PROVE  -(p.B - 1) <= ErrorSum(f, b, n, c) /\ ErrorSum(f, b, n, c) <= p.B - 1
  <2> DEFINE e == ErrorSum(f, b, n, c)
             lo == -(BoundPerRow - 1)
             hi == BoundPerRow - 1
  <2>1. lo \in Int /\ lo <= 0 /\ 0 <= hi /\ hi \in Int
    BY <1>4
  <2>2. n * lo <= e /\ e <= n * hi
    BY <1>4, <2>1, ErrorSumBounds
  <2>3. e \in Int
    BY <1>4, ErrorSumType
  <2>4. n * lo >= -(p.B - 1) /\ n * hi <= p.B - 1
        /\ n * lo \in Int /\ n * hi \in Int /\ p.B \in Int
    BY <1>1, <1>4, BoundIs
  <2> HIDE DEF e, lo, hi
  <2>5. \A x, y \in Int : x <= e /\ e <= y /\ x >= -(p.B - 1) /\ y <= p.B - 1 => -(p.B - 1) <= e /\ e <= p.B - 1
    BY <2>3, <2>4
  <2> QED
    BY <2>2, <2>4, <2>5 DEF e
<1>7. Outcome(Judge(v, Zero(p), n, j, d.t), q, b, h, i, j, d.t, n, 2 * p.B)
  BY <1>3, <1>4, <1>5, <1>6, JudgeIs
<1>8. \A c \in 0..(n - 1) : Get(v, 0, c) \in Word
  BY <1>3 DEF Remains, RemainsAt
<1>9. LWEReconstruct(p, m, j, d, BinaryMul(q, h)) = Judge(v, Zero(p), n, j, d.t)
  <2> DEFINE a == BinaryMul(q, h)
  <2>1. v = Sub(a, Mul(NewRandom(d.secret, 1, N), m))
    BY DEF v
  <2> HIDE DEF a
  <2>2. LWEReconstruct(p, m, j, d, a) = Judge(v, Zero(p), n, j, d.t)
    <3>1. p.M = n /\ d.t \in Int /\ j \in 0..(n - 1)
      BY <1>1, <1>4
    <3> QED
      BY ONLY <1>8, <2>1, <3>1, Judges
  <2> QED
    BY <2>2 DEF a
<1> QED
  BY <1>7, <1>9 DEF m

LEMMA LWE128Outcome ==
  ASSUME NEW n \in Nat, Len(SeedStream) >= N * n, NEW d, IsDraw(d, n), TypicalDraw(d, n),
         NEW i \in 0..(n - 1), NEW j \in 0..(n - 1), NEW b, IsDatabase(b, n), NEW h, IsDatabase(h, n),
         NEW p, p = ParamsWithDatabaseSize(n, n), NEW q, q = LWE128Query(p, i, d)
  PROVE  Outcome(LWE128Reconstruct(p, Digest128(b, n), j, d, BinaryMul128(q, h)), q, b, h, i, j, d.t, n, 2 * p.B)
<1> DEFINE f == Noises128(d, n)
           m == Digest128(b, n)
           v == Sub(BinaryMul128(q, h), Mul128(NewRandom128(d.secret, 1, N), m))
<1>1. n > 0 /\ p.L = n /\ p.M = n /\ p.B = Bound(n)
  BY DEF ParamsWithDatabaseSize, computeB, Bound
<1>2. IsQuery(q, 16, n, d, i, f) /\ IsDigest(m, b, n)
  BY <1>1, QueryIs, DigestIs
<1>3. Remains(v, d, i, f, q, b, h, n)
  BY <1>2, RemainderIs
<1>4. d.t \in Int /\ f \in [0..(n - 1) -> Int] /\ BoundPerRow \in Nat /\ BoundPerRow > 0
      /\ \A l \in 0..(n - 1) : -BoundPerRow <= f[l] /\ f[l] <= BoundPerRow - 1
  <2>1. d.t \in Int
    BY MatrixAssumption DEF IsDraw, Word
  <2>2. f \in [0..(n - 1) -> Int]
    BY NoisesType
  <2> QED
    BY <1>1, <2>1, <2>2, TypicalNoises
<1> HIDE DEF f, v, m
<1>5. Margins(Zero128(p), -p.B, p.B - 1, -(p.B + 1), p.B - 1, 2 * p.B)
  BY <1>1, <1>4, MarginsAre
<1>6. ASSUME NEW c \in 0..(n - 1)
      PROVE  -p.B <= ErrorSum(f, b, n, c) /\ ErrorSum(f, b, n, c) <= p.B - 1
  <2> DEFINE e == ErrorSum(f, b, n, c)
             lo == -BoundPerRow
             hi == BoundPerRow - 1
  <2>1. lo \in Int /\ lo <= 0 /\ 0 <= hi /\ hi \in Int
    BY <1>4
  <2>2. n * lo <= e /\ e <= n * hi
    BY <1>4, <2>1, ErrorSumBounds
  <2>3. e \in Int
    BY <1>4, ErrorSumType
  <2>4. n * lo >= -p.B /\ n * hi <= p.B - 1
        /\ n * lo \in Int /\ n * hi \in Int /\ p.B \in Int
    BY <1>1, <1>4, BoundIs
  <2> HIDE DEF e, lo, hi
  <2>5. \A x, y \in Int : x <= e /\ e <= y /\ x >= -p.B /\ y <= p.B - 1 => -p.B <= e /\ e <= p.B - 1
    BY <2>3, <2>4
  <2> QED
    BY <2>2, <2>4, <2>5 DEF e
<1>7. Outcome(Judge(v, Zero128(p), n, j, d.t), q, b, h, i, j, d.t, n, 2 * p.B)
  BY <1>3, <1>4, <1>5, <1>6, JudgeIs
<1>8. \A c \in 0..(n - 1) : Get(v, 0, c) \in Word
  BY <1>3 DEF Remains, RemainsAt
<1>9. LWE128Reconstruct(p, m, j, d, BinaryMul128(q, h)) = Judge(v, Zero128(p), n, j, d.t)
  <2> DEFINE a == BinaryMul128(q, h)
  <2>1. v = Sub(a, Mul128(NewRandom128(d.secret, 1, N), m))
    BY DEF v
  <2> HIDE DEF a
  <2>2. LWE128Reconstruct(p, m, j, d, a) = Judge(v, Zero128(p), n, j, d.t)
    <3>1. p.M = n /\ d.t \in Int /\ j \in 0..(n - 1)
      BY <1>1, <1>4
    <3> QED
      BY ONLY <1>8, <2>1, <3>1, Judges128
  <2> QED
    BY <2>2 DEF a
<1> QED
  BY <1>7, <1>9 DEF m
-----------------------------------------------------------------------------
(* Matrices on the wire.                                                    *)

LEMMA AfterTwo ==
  ASSUME NEW S, NEW a \in S, NEW b \in S, NEW s \in Seq(S)
  PROVE  LET x == <<a, b>> \o s IN
         /\ x \in Seq(S) /\ Len(x) = Len(s) + 2 /\ x[1] = a /\ x[2] = b
         /\ SubSeq(x, 3, Len(x)) = s
<1> DEFINE u == <<a, b>>
           x == u \o s
<1>1. u \in Seq(S) /\ Len(u) = 2 /\ u[1] = a /\ u[2] = b
  OBVIOUS
<1> HIDE DEF u
<1>2. /\ x \in Seq(S) /\ Len(x) = 2 + Len(s)
      /\ \A i \in 1..(2 + Len(s)) : x[i] = IF i <= 2 THEN u[i] ELSE s[i - 2]
  <2>1. /\ u \o s \in Seq(S) /\ Len(u \o s) = Len(u) + Len(s)
        /\ \A i \in 1..(Len(u) + Len(s)) : (u \o s)[i] = IF i <= Len(u) THEN u[i] ELSE s[i - Len(u)]
    BY ONLY <1>1, s \in Seq(S), ConcatProperties
  <2>2. Len(u) = 2
    BY <1>1
  <2> HIDE DEF x
  <2> QED
    BY <2>1, <2>2, Zenon DEF x
<1>3. Len(s) \in Nat
  OBVIOUS
<1>4. x[1] = a /\ x[2] = b
  <2>1. 1 \in 1..(2 + Len(s)) /\ 2 \in 1..(2 + Len(s))
    BY <1>3
  <2> HIDE DEF x
  <2> QED
    BY <1>1, <1>2, <2>1
<1> HIDE DEF x
<1> DEFINE k == Len(x)
           t == SubSeq(x, 3, k)
<1>5. k \in Nat /\ k = 2 + Len(s) /\ \A i \in 3..k : x[i] \in S
  BY <1>2, <1>3
<1>6. t \in Seq(S) /\ Len(t) = Len(s) /\ \A i \in 1..Len(s) : t[i] = x[3 + i - 1]
  <2>1. /\ t \in Seq(S)
        /\ Len(t) = IF 3 <= k THEN k - 3 + 1 ELSE 0
        /\ \A i \in 1..(k - 3 + 1) : t[i] = x[3 + i - 1]
    BY <1>2, <1>5, SubSeqProperties
  <2> HIDE DEF t
  <2>2. Len(t) = Len(s)
    BY <1>3, <1>5, <2>1
  <2>3. k - 3 + 1 = Len(s)
    BY <1>3, <1>5
  <2> QED
    BY <2>1, <2>2, <2>3
<1>7. \A i \in 1..Len(s) : t[i] = s[i]
  <2> TAKE i \in 1..Len(s)
  <2>1. 3 + i - 1 = i + 2 /\ i + 2 \in 1..(2 + Len(s)) /\ ~(i + 2 <= 2) /\ (i + 2) - 2 = i
    BY <1>3
  <2> QED
    BY <1>2, <1>6, <2>1
<1> HIDE DEF t
<1>8. t = s
  BY ONLY <1>6, <1>7, EqualSequences, s \in Seq(S)
<1> QED
  BY <1>2, <1>4, <1>8 DEF x, u, t, k

\* A matrix of words on the wire.
Wired(n, data) == <<1, n>> \o data

LEMMA WiredIs ==
  ASSUME NEW n \in Nat, NEW data \in [1..n -> Word], NEW w
  PROVE  /\ MatrixToBytes(Filled(1, n, w, data)) = Wired(n, data)
         /\ Matrix128ToBytes(Filled(1, n, w, data)) = Wired(n, data)
         /\ Wired(n, data) \in Seq(Int) /\ Len(Wired(n, data)) = n + 2
         /\ BytesToMatrix(Wired(n, data)) = Filled(1, n, 4, data)
         /\ BytesToMatrix128(Wired(n, data)) = Filled(1, n, 16, data)
<1>1. data \in Seq(Word) /\ Len(data) = n /\ Word \subseteq Int
  BY WholeSeq, MatrixAssumption DEF Word
<1>2. data \in Seq(Int) /\ 1 \in Int /\ n \in Int
  <2>1. data \in Seq(Int)
    BY ONLY <1>1, SequenceOfMore
  <2> QED
    BY <2>1
<1> DEFINE x == Wired(n, data)
<1>3. /\ x \in Seq(Int) /\ Len(x) = Len(data) + 2 /\ x[1] = 1 /\ x[2] = n
      /\ SubSeq(x, 3, Len(x)) = data
  BY <1>2, AfterTwo DEF Wired
<1>4. MatrixToBytes(Filled(1, n, w, data)) = x /\ Matrix128ToBytes(Filled(1, n, w, data)) = x
  BY DEF MatrixToBytes, Matrix128ToBytes, Filled, Wired
<1> HIDE DEF x
<1>5. BytesToMatrix(x) = Filled(1, n, 4, data) /\ BytesToMatrix128(x) = Filled(1, n, 16, data)
  BY <1>3 DEF BytesToMatrix, BytesToMatrix128, Filled
<1> QED
  BY <1>1, <1>3, <1>4, <1>5 DEF x

\* One piece of a sequence of equal ones, behind its first entry.
IsPiece(a, f, len, R, i, part) ==
  LET x == <<a>> \o f IN
  /\ x[1] = a /\ (Len(x) - 1) \div len = R
  /\ SubSeq(x, 2 + (i - 1) * len, 1 + i * len) = part

LEMMA PieceIs ==
  ASSUME NEW S, NEW a \in S, NEW parts \in Seq(Seq(S)), NEW len \in Nat, len > 0,
         NEW f \in Seq(S), Pieces(parts, len, f), NEW R \in Nat, Len(parts) = R,
         NEW part \in Seq(S), NEW i \in 1..R, part = parts[i], Len(part) = len
  PROVE  IsPiece(a, f, len, R, i, part)
<1> DEFINE u == <<a>>
           x == u \o f
           m == R * len
           o == (i - 1) * len
<1>1. u \in Seq(S) /\ Len(u) = 1 /\ u[1] = a
  OBVIOUS
<1>2. Len(f) = m /\ \A k \in 1..len : f[o + k] = part[k]
  BY DEF Pieces
<1> HIDE DEF u
<1>4. m \in Nat /\ o \in Nat /\ o + len <= m /\ i * len = o + len
  <2> DEFINE z == (R - i) * len
  <2>1. z \in Nat /\ o \in Nat /\ m = o + len + z /\ i * len = o + len
    OBVIOUS
  <2> HIDE DEF z, m, o
  <2> QED
    BY <2>1
<1> HIDE DEF m
<1>3. /\ x \in Seq(S) /\ Len(x) = 1 + m
      /\ \A k \in 1..(1 + m) : x[k] = IF k <= 1 THEN u[k] ELSE f[k - 1]
  <2>1. /\ u \o f \in Seq(S) /\ Len(u \o f) = Len(u) + Len(f)
        /\ \A k \in 1..(Len(u) + Len(f)) : (u \o f)[k] = IF k <= Len(u) THEN u[k] ELSE f[k - Len(u)]
    BY ONLY <1>1, f \in Seq(S), ConcatProperties
  <2>2. Len(u) = 1 /\ Len(f) = m
    BY <1>1, <1>2
  <2> HIDE DEF x
  <2> QED
    BY <2>1, <2>2, Zenon DEF x
<1> HIDE DEF x
<1>5. x[1] = a
  BY <1>1, <1>3, <1>4
<1>6. (Len(x) - 1) \div len = R
  <2>1. Len(x) - 1 = m
    BY <1>3, <1>4
  <2>2. m \div len = R
    <3>1. m = len * R
      BY DEF m
    <3> QED
      BY <3>1
  <2> QED
    BY <2>1, <2>2
<1> HIDE DEF o
<1> DEFINE p == 2 + o
           q == 1 + (o + len)
           t == SubSeq(x, p, q)
<1>7. p \in Int /\ q \in Int /\ q - p + 1 = len /\ p <= q
  BY <1>4
<1>8. ASSUME NEW k \in 1..len
      PROVE  p + k - 1 \in 1..(1 + m) /\ x[p + k - 1] = part[k]
  <2>1. p + k - 1 \in 1..(1 + m) /\ ~(p + k - 1 <= 1) /\ (p + k - 1) - 1 = o + k
    BY <1>4
  <2> HIDE DEF p
  <2> QED
    BY <1>2, <1>3, <2>1
<1>9. \A j \in p..q : x[j] \in S
  <2>1. \A j \in p..q : j \in 1..(1 + m)
    BY <1>4
  <2>2. \A j \in 1..(1 + m) : x[j] \in S
    BY ONLY <1>3, <1>4
  <2> QED
    BY <2>1, <2>2
<1> HIDE DEF p, q
<1>10. /\ t \in Seq(S) /\ Len(t) = (IF p <= q THEN q - p + 1 ELSE 0)
       /\ \A k \in 1..(q - p + 1) : t[k] = x[p + k - 1]
  BY <1>7, <1>9, SubSeqProperties
<1> HIDE DEF t
<1>11. Len(t) = len /\ \A k \in 1..len : t[k] = part[k]
  BY <1>7, <1>8, <1>10
<1>12. t = part
  BY ONLY <1>10, <1>11, EqualSequences, part \in Seq(S), Len(part) = len
<1>13. x[1] = a /\ (Len(x) - 1) \div len = R /\ SubSeq(x, 2 + o, 1 + i * len) = part
  BY <1>4, <1>5, <1>6, <1>12 DEF t, p, q
<1> QED
  BY <1>13 DEF x, u, o, IsPiece

\* Several matrices of one row.
AreRows(ms, R, n) ==
  /\ DOMAIN ms = 1..R
  /\ \A k \in 1..R : /\ ms[k] = Filled(1, n, 4, ms[k].data)
                     /\ ms[k].data \in [1..n -> Word]

LEMMA MatricesIs ==
  ASSUME NEW R \in Nat, R > 0, NEW n \in Nat, NEW ms, AreRows(ms, R, n)
  PROVE  /\ DOMAIN BytesToMatrices(MatricesToBytes(ms)) = 1..R
         /\ \A k \in 1..R : BytesToMatrices(MatricesToBytes(ms))[k] = ms[k]
<1> DEFINE len == n + 2
           parts == [k \in 1..R |-> Wired(n, ms[k].data)]
           f == Flattening(parts)
           x == <<len>> \o f
           S == Seq(Int)
<1>1. DOMAIN ms = 1..R /\ 1 \in 1..R /\ len \in Nat /\ len > 0 /\ len \in Int
  BY DEF AreRows
<1>2. ASSUME NEW k \in 1..R
      PROVE  /\ MatrixToBytes(ms[k]) = Wired(n, ms[k].data)
             /\ Wired(n, ms[k].data) \in S /\ Len(Wired(n, ms[k].data)) = len
             /\ BytesToMatrix(Wired(n, ms[k].data)) = ms[k]
  <2> DEFINE data == ms[k].data
  <2>1. ms[k] = Filled(1, n, 4, data) /\ data \in [1..n -> Word]
    BY DEF AreRows
  <2> HIDE DEF data
  <2>2. /\ MatrixToBytes(Filled(1, n, 4, data)) = Wired(n, data)
        /\ Wired(n, data) \in Seq(Int) /\ Len(Wired(n, data)) = n + 2
        /\ BytesToMatrix(Wired(n, data)) = Filled(1, n, 4, data)
    BY <2>1, WiredIs
  <2> QED
    BY <2>1, <2>2 DEF data
<1>3. MatricesToBytes(ms) = x
  <2>1. [k \in DOMAIN ms |-> MatrixToBytes(ms[k])] = parts
    BY <1>1, <1>2
  <2>2. Len(MatrixToBytes(ms[1])) = len
    BY <1>1, <1>2
  <2> HIDE DEF parts, len
  <2>3. FlattenSeq([k \in DOMAIN ms |-> MatrixToBytes(ms[k])]) = Flattening(parts)
    BY <2>1, FlattenSeqIs
  <2> QED
    BY <2>2, <2>3 DEF MatricesToBytes
<1> HIDE DEF S
<1>4. parts \in Seq(S) /\ Len(parts) = R
  <2>1. parts \in [1..R -> S]
    BY <1>2
  <2> HIDE DEF parts
  <2> QED
    BY ONLY <2>1, R \in Nat, WholeSeq
<1>5. \A k \in 1..R : parts[k] = Wired(n, ms[k].data)
  OBVIOUS
<1> HIDE DEF parts, len
<1>6. Pieces(parts, len, f) /\ f \in Seq(Int)
  <2>1. parts \in Seq(Seq(Int)) /\ \A k \in 1..Len(parts) : Len(parts[k]) = len
    BY <1>2, <1>4, <1>5 DEF S
  <2> QED
    BY <1>1, <2>1, FlattenPieces, FlattenType
<1> HIDE DEF f
<1>7. ASSUME NEW k \in 1..R
      PROVE  /\ x[1] = len /\ (Len(x) - 1) \div len = R
             /\ SubSeq(x, 2 + (k - 1) * len, 1 + k * len) = parts[k]
  <2>1. parts[k] \in Seq(Int) /\ Len(parts[k]) = len /\ parts \in Seq(Seq(Int))
    BY <1>2, <1>4, <1>5 DEF S
  <2>2. IsPiece(len, f, len, R, k, parts[k])
    BY <1>1, <1>4, <1>6, <2>1, PieceIs
  <2> QED
    BY <2>2 DEF IsPiece
<1>9. BytesToMatrices(x) = [k \in 1..R |-> BytesToMatrix(SubSeq(x, 2 + (k - 1) * len, 1 + k * len))]
  <2>1. x[1] = len /\ (Len(x) - 1) \div len = R
    BY <1>1, <1>7
  <2> HIDE DEF x
  <2> QED
    BY <2>1 DEF BytesToMatrices
<1> QED
  <2>1. \A k \in 1..R : BytesToMatrix(SubSeq(x, 2 + (k - 1) * len, 1 + k * len)) = ms[k]
    BY <1>2, <1>5, <1>7
  <2> HIDE DEF x
  <2> QED
    BY <1>3, <1>9, <2>1
-----------------------------------------------------------------------------
(* DH: group elements on the wire, and one query.                           *)
SumP(a, b) == IF a + b < P THEN a + b ELSE a + b - P
NegP(a)    == IF a = 0 THEN 0 ELSE P - a

LEMMA ModSmall ==
  ASSUME NEW a \in Exponent, NEW b \in Exponent
  PROVE  /\ a % P = a
         /\ (a + b) % P = SumP(a, b) /\ SumP(a, b) \in Exponent
         /\ (-a) % P = NegP(a) /\ NegP(a) \in Exponent
         /\ 0 \in Exponent /\ 1 \in Exponent
<1>1. P \in Nat /\ P > 1 /\ a \in 0..(P - 1) /\ b \in 0..(P - 1)
  BY SingleServerAssumption DEF Exponent
<1>2. ASSUME NEW k \in Int, NEW y \in 0..(P - 1), NEW z \in Int, z = k * P + y
      PROVE  z % P = y
  BY <1>1, <1>2, UniqueRemainder
<1>3. a % P = a
  BY <1>1, <1>2
<1>4. (a + b) % P = SumP(a, b)
  <2>1. CASE a + b < P
    <3>1. a + b = 0 * P + (a + b) /\ a + b \in 0..(P - 1)
      BY <1>1, <2>1
    <3> QED
      BY ONLY <1>2, <2>1, <3>1, 0 \in Int DEF SumP
  <2>2. CASE ~(a + b < P)
    <3>1. a + b = 1 * P + (a + b - P) /\ a + b - P \in 0..(P - 1) /\ a + b \in Int
      BY <1>1, <2>2
    <3> QED
      BY ONLY <1>2, <2>2, <3>1, 1 \in Int DEF SumP
  <2> QED
    BY <2>1, <2>2
<1>5. (-a) % P = NegP(a)
  <2>1. CASE a = 0
    BY <1>3, <2>1 DEF NegP
  <2>2. CASE a # 0
    <3>1. -a = (-1) * P + (P - a) /\ P - a \in 0..(P - 1) /\ -a \in Int /\ -1 \in Int
      BY <1>1, <2>2
    <3> QED
      BY ONLY <1>2, <2>2, <3>1 DEF NegP
  <2> QED
    BY <2>1, <2>2
<1> QED
  BY <1>1, <1>3, <1>4, <1>5 DEF SumP, NegP, Exponent

\* The slices of the encoding f of n elements: up to the first identity every
\* slice is the element of its position, and the slice at the identity is none;
\* without an identity the slices are all of the elements.
SliceOf(f, x, item, c) ==
  IF item = Identity(c) THEN ~IsElement(f, x, c + 1)
  ELSE IsElement(f, x, c + 1) /\ UnmarshalBinary(f, x, c + 1) = item

ReadsAs(f, items, c, n) ==
  /\ f \in Seq(Exponent)
  /\ \A x \in 0..(n - 1) : (\A y \in 1..x : items[y] # Identity(c)) => SliceOf(f, x, items[x + 1], c)
  /\ (\A x \in 1..n : items[x] # Identity(c)) =>
       /\ ~UnmarshalFails(f, c + 1)
       /\ UnmarshalGroupElements(f, c + 1) = [x \in 0..(n - 1) |-> items[x + 1]]
  /\ (\E x \in 1..n : items[x] = Identity(c)) => UnmarshalFails(f, c + 1)

\* A piece of a sequence, of which everything before has been counted.
LEMMA PieceAt ==
  ASSUME NEW a \in Seq(Exponent), NEW p \in Seq(Exponent), NEW r \in Seq(Exponent)
  PROVE  /\ (a \o p) \o r \in Seq(Exponent)
         /\ Len((a \o p) \o r) >= Len(a) + Len(p)
         /\ \A k \in 1..Len(p) : ((a \o p) \o r)[Len(a) + k] = p[k]
OBVIOUS

\* How many slices there are.
LEMMA SlicesAre ==
  ASSUME NEW size \in Nat, size > 0, NEW n \in Nat, NEW f, Len(f) \in Nat
  PROVE  /\ Len(f) = n * size => Slices(f, size) = 0..(n - 1)
         /\ Len(f) >= n * size + 1 => n \in Slices(f, size)
<1> DEFINE y == n * size
           q == (Len(f) + size - 1) \div size
           r == (Len(f) + size - 1) % size
<1>1. y \in Nat
  OBVIOUS
<1>2. ASSUME Len(f) = y
      PROVE  q = n
  <2>1. size - 1 \in 0..(size - 1) /\ Len(f) + size - 1 = n * size + (size - 1)
    BY <1>2
  <2> QED
    BY <2>1, QuotientOfSum
<1>3. ASSUME Len(f) >= y + 1
      PROVE  n \in 0..(q - 1)
  <2>1. q \in Int /\ r \in 0..(size - 1) /\ Len(f) + size - 1 = size * q + r
    BY <1>1
  <2>2. size * q > y - 1 /\ y = size * n
    <3>1. size * q \in Int /\ y = size * n
      BY <2>1
    <3> HIDE DEF y, q, r
    <3> QED
      BY <1>1, <1>3, <2>1, <3>1
  <2> HIDE DEF y, q, r
  <2>3. Len(f) + size - 1 >= size * n + size
    BY <1>3, <2>2
  <2>4. q >= n + 1
    <3> SUFFICES ASSUME q < n + 1 PROVE FALSE
      BY <2>1
    <3>1. n - q \in Nat /\ n = q + (n - q)
      BY <2>1
    <3>2. size * n = size * q + size * (n - q) /\ size * (n - q) \in Nat /\ size * q \in Int
      <4>1. \A g \in Int, h \in Nat : size * (g + h) = size * g + size * h /\ size * h \in Nat /\ size * g \in Int
        OBVIOUS
      <4> QED
        BY <2>1, <3>1, <4>1
    <3> QED
      BY <2>1, <2>3, <3>2
  <2> QED
    BY <2>1, <2>4
<1> QED
  BY <1>2, <1>3 DEF Slices

LEMMA SliceIs ==
  ASSUME NEW c \in Nat, NEW n \in Nat, NEW items, DOMAIN items = 1..n,
         \A x \in 1..n : items[x] \in Element(c),
         NEW x \in 0..(n - 1), \A y \in 1..x : items[y] # Identity(c)
  PROVE  /\ SliceOf(MarshalGroupElements(items), x, items[x + 1], c)
         /\ Len(MarshalGroupElements(items)) >= x * (c + 1) + 1
<1> DEFINE parts == [y \in 1..n |-> Bytes(items[y], c)]
           f == MarshalGroupElements(items)
           S == Seq(Exponent)
           front == SubSeq(parts, 1, x)
           rest == SubSeq(parts, x + 2, n)
           p == parts[x + 1]
           item == items[x + 1]
<1>1. f = Flattening(parts) /\ parts \in Seq(S)
  BY MarshalIs
<1>2. ASSUME NEW y \in 1..n
      PROVE  Encoded(parts[y], items[y], c)
  BY BytesType
<1>3. DOMAIN parts = 1..n /\ x + 1 \in 1..n
  OBVIOUS
<1> HIDE DEF parts, f, S
<1>4. Len(parts) = n
  BY <1>1, <1>3
<1>5. /\ front \in Seq(S) /\ Len(front) = x /\ \A y \in 1..x : front[y] = parts[y]
      /\ rest \in Seq(S) /\ p \in S
      /\ parts = Append(front, p) \o rest /\ Append(front, p) \in Seq(S)
  BY <1>1, <1>4
<1>6. ASSUME NEW y \in 1..Len(front)
      PROVE  Len(front[y]) = c + 1
  <2>1. y \in 1..x /\ y \in 1..n
    BY <1>5
  <2> QED
    BY <1>2, <1>5, <2>1 DEF Encoded
<1> DEFINE a == Flattening(front)
           b == Flattening(rest)
<1> HIDE DEF front, rest, p, item
<1>7. a \in Seq(Exponent) /\ Len(a) = x * (c + 1)
  <2>1. front \in Seq(Seq(Exponent)) /\ c + 1 \in Nat
    BY <1>5 DEF S
  <2>2. Pieces(front, c + 1, a) /\ a \in Seq(Exponent)
    BY <1>6, <2>1, FlattenPieces, FlattenType
  <2> QED
    BY <1>5, <2>2 DEF Pieces
<1>8. f = (a \o p) \o b /\ b \in Seq(Exponent) /\ p \in Seq(Exponent)
  <2>1. front \in Seq(Seq(Exponent)) /\ rest \in Seq(Seq(Exponent)) /\ p \in Seq(Exponent)
        /\ Append(front, p) \in Seq(Seq(Exponent))
    BY <1>5 DEF S
  <2>2. f = Flattening(Append(front, p)) \o b
    BY <1>1, <1>5, <2>1, FlattenConcat
  <2>3. Flattening(Append(front, p)) = a \o p
    BY <2>1, FlattenAppend
  <2> QED
    BY <2>1, <2>2, <2>3, FlattenType
<1>9. Encoded(p, item, c)
  BY <1>2, <1>3 DEF p, item
<1> DEFINE at == x * (c + 1)
<1>10. at \in Nat
  OBVIOUS
<1> HIDE DEF a, b, at
<1>11. /\ f \in Seq(Exponent) /\ Len(f) >= at + Len(p)
       /\ \A k \in 1..Len(p) : f[at + k] = p[k]
  <2>1. /\ (a \o p) \o b \in Seq(Exponent)
        /\ Len((a \o p) \o b) >= Len(a) + Len(p)
        /\ \A k \in 1..Len(p) : ((a \o p) \o b)[Len(a) + k] = p[k]
    BY <1>7, <1>8, PieceAt
  <2>2. Len(a) = at
    BY <1>7 DEF at
  <2> QED
    BY <1>8, <2>1, <2>2
<1>12. Len(p) >= 1 /\ (item # Identity(c) => Len(p) = c + 1)
  BY <1>9 DEF Encoded
<1>13. Len(f) >= at + 1 /\ ByteAt(f, at + 1) = p[1]
  <2>1. Len(f) \in Nat /\ Len(p) \in Nat
    BY <1>11, <1>9 DEF Encoded
  <2>2. at + 1 \in 1..Len(f) /\ 1 \in 1..Len(p)
    BY <1>10, <1>11, <1>12, <2>1
  <2> QED
    BY <1>11, <2>1, <2>2 DEF ByteAt
<1>14. SliceOf(f, x, item, c)
  <2>1. CASE item = Identity(c)
    <3>1. p[1] = 0
      BY <1>9, <2>1 DEF Encoded
    <3> QED
      BY <1>13, <2>1, <3>1 DEF SliceOf, IsElement, Sign, at
  <2>2. CASE item # Identity(c)
    <3>1. p[1] = Sign /\ Len(p) = c + 1 /\ \A k \in 0..(c - 1) : p[k + 2] = item[k]
      BY <1>9, <2>2 DEF Encoded
    <3>2. IsElement(f, x, c + 1)
      BY <1>13, <3>1 DEF IsElement, at
    <3>3. ASSUME NEW k \in 0..(c - 1)
          PROVE  ByteAt(f, at + k + 2) = item[k]
      <4>1. k + 2 \in 1..Len(p) /\ at + (k + 2) = at + k + 2 /\ at + k + 2 \in 1..Len(f)
        BY <1>10, <1>11, <3>1
      <4> QED
        BY <1>11, <3>1, <4>1 DEF ByteAt
    <3>4. (c + 1) - 2 = c - 1
      OBVIOUS
    <3>5. item \in [0..(c - 1) -> Exponent]
      BY <1>3 DEF item, Element
    <3>6. UnmarshalBinary(f, x, c + 1) = [k \in 0..(c - 1) |-> ByteAt(f, at + k + 2)]
      BY <3>4 DEF UnmarshalBinary, at
    <3>7. UnmarshalBinary(f, x, c + 1) = item
      BY <3>3, <3>5, <3>6
    <3> QED
      BY <2>2, <3>2, <3>7 DEF SliceOf
  <2> QED
    BY <2>1, <2>2
<1> QED
  BY <1>13, <1>14 DEF item, f, at

\* The first of the identities, if there is one.
LEMMA FirstIdentity ==
  ASSUME NEW c, NEW n \in Nat, NEW items, \E x \in 1..n : items[x] = Identity(c)
  PROVE  \E x \in 0..(n - 1) : /\ items[x + 1] = Identity(c)
                               /\ \A y \in 1..x : items[y] # Identity(c)
<1> DEFINE T == {x \in 1..n : items[x] = Identity(c)}
<1>1. T \subseteq Nat /\ T # {}
  OBVIOUS
<1>2. PICK m \in T : \A k \in T : m <= k
  BY <1>1, LeastNumber
<1>3. m - 1 \in 0..(n - 1) /\ (m - 1) + 1 = m
  OBVIOUS
<1>4. items[m] = Identity(c)
  OBVIOUS
<1>5. ASSUME NEW y \in 1..(m - 1)
      PROVE  items[y] # Identity(c)
  BY <1>2
<1> QED
  BY <1>3, <1>4, <1>5

LEMMA UnmarshalIs ==
  ASSUME NEW c \in Nat, NEW n \in Nat, NEW items, DOMAIN items = 1..n,
         \A x \in 1..n : items[x] \in Element(c)
  PROVE  ReadsAs(MarshalGroupElements(items), items, c, n)
<1> DEFINE f == MarshalGroupElements(items)
           parts == [x \in 1..n |-> Bytes(items[x], c)]
           size == c + 1
<1>0. size \in Nat /\ size > 0
  OBVIOUS
<1>1. f = Flattening(parts) /\ parts \in Seq(Seq(Exponent))
  BY MarshalIs
<1>2. f \in Seq(Exponent) /\ Len(f) \in Nat
  <2>1. f \in Seq(Exponent)
    BY <1>1, FlattenType
  <2> HIDE DEF f
  <2> QED
    BY <2>1
<1>3. ASSUME NEW x \in 0..(n - 1), \A y \in 1..x : items[y] # Identity(c)
      PROVE  SliceOf(f, x, items[x + 1], c) /\ Len(f) >= x * size + 1
  BY <1>3, SliceIs
<1>4. ASSUME \A x \in 1..n : items[x] # Identity(c)
      PROVE  /\ ~UnmarshalFails(f, size)
             /\ UnmarshalGroupElements(f, size) = [x \in 0..(n - 1) |-> items[x + 1]]
  <2>1. ASSUME NEW x \in 1..n
        PROVE  Len(parts[x]) = size
    BY <1>4, BytesType DEF Encoded
  <2>2. Len(parts) = n
    OBVIOUS
  <2> HIDE DEF parts, f, size
  <2>3. Len(f) = n * size
    <3>1. Pieces(parts, size, f)
      BY <1>0, <1>1, <2>1, <2>2, FlattenPieces
    <3> QED
      BY <2>2, <3>1 DEF Pieces
  <2>4. Slices(f, size) = 0..(n - 1)
    BY <1>0, <1>2, <2>3, SlicesAre
  <2>5. ASSUME NEW x \in 0..(n - 1)
        PROVE  IsElement(f, x, size) /\ UnmarshalBinary(f, x, size) = items[x + 1]
    <3>1. x + 1 \in 1..n /\ \A y \in 1..x : y \in 1..n
      OBVIOUS
    <3>2. SliceOf(f, x, items[x + 1], c)
      BY <1>3, <1>4, <3>1
    <3> QED
      BY <1>4, <3>1, <3>2 DEF SliceOf, size
  <2> QED
    BY <2>4, <2>5 DEF UnmarshalFails, UnmarshalGroupElements
<1>5. ASSUME \E x \in 1..n : items[x] = Identity(c)
      PROVE  UnmarshalFails(f, size)
  <2>1. PICK x \in 0..(n - 1) : /\ items[x + 1] = Identity(c)
                               /\ \A y \in 1..x : items[y] # Identity(c)
    BY <1>5, FirstIdentity
  <2>2. SliceOf(f, x, items[x + 1], c) /\ Len(f) >= x * size + 1
    BY <1>3, <2>1
  <2> HIDE DEF f, size
  <2>3. x \in Slices(f, size)
    BY <1>0, <1>2, <2>2, SlicesAre
  <2>4. ~IsElement(f, x, size)
    BY <2>1, <2>2 DEF SliceOf, size
  <2> QED
    BY <2>3, <2>4 DEF UnmarshalFails
<1> QED
  BY <1>2, <1>3, <1>4, <1>5 DEF ReadsAs

\* The element that holds s in column j.
Diag(c, j, s) == [k \in 0..(c - 1) |-> IF k = j THEN s ELSE 0]
Chosen(m, row, s, c) == [k \in 0..(c - 1) |-> IF Get(m, row, k) = 1 THEN s[k] ELSE 0]

LEMMA CommitIs ==
  ASSUME NEW c \in Nat, NEW x \in Exponent, NEW j \in 0..(c - 1)
  PROVE  CommitScalarToIndex(x, j, c) = Diag(c, j, x)
<1>1. P \in Nat /\ P > 0 /\ x \in Int /\ 0 * x = 0 /\ 1 * x = x
  BY SingleServerAssumption DEF Exponent
<1>2. (0 * x) % P = 0 /\ (1 * x) % P = x
  BY <1>1, ModSmall
<1>3. HashIndexToGroup(j, c) = [k \in 0..(c - 1) |-> IF k = j THEN 1 ELSE 0]
  BY DEF HashIndexToGroup, Identity
<1> QED
  BY <1>2, <1>3 DEF CommitScalarToIndex, MulScalar, Diag

LEMMA ChosenType ==
  ASSUME NEW c \in Nat, NEW m, NEW row, NEW s \in Element(c)
  PROVE  Chosen(m, row, s, c) \in Element(c)
BY ModSmall DEF Chosen, Element

\* The product of a row over elements of one column each.
LEMMA ChosenIs ==
  ASSUME NEW c \in Nat, NEW m, m.cols = c, NEW row, NEW s \in Element(c), NEW in,
         \A x \in 0..(c - 1) : in[x] = Diag(c, x, s[x])
  PROVE  RowProduct(m, row, in) = Chosen(m, row, s, c)
<1>1. PICK f : IsPartial(f, m, row, in, c) /\ RowProduct(m, row, in) = f[c]
  BY RowProductIs
<1> DEFINE upto(j) == [k \in 0..(c - 1) |-> IF k < j /\ Get(m, row, k) = 1 THEN s[k] ELSE 0]
           T == {j \in 0..c : f[j] = upto(j)}
<1>2. \A j \in 0..c : f[j] = WithColumn(m, row, in, f[j - 1], j)
  BY <1>1 DEF IsPartial
<1>3. 0 \in T
  <2>1. f[0] = Identity(c)
    BY <1>2 DEF WithColumn
  <2>2. Identity(c) = upto(0)
    BY DEF Identity
  <2> QED
    BY <2>1, <2>2
<1>4. ASSUME NEW j \in 0..(c - 1), j \in T
      PROVE  j + 1 \in T
  <2>1. f[j] = upto(j) /\ j + 1 \in 0..c /\ (j + 1) - 1 = j /\ j + 1 # 0
    BY <1>4
  <2>2. f[j + 1] = IF Get(m, row, j) = 1 THEN AddElements(upto(j), in[j]) ELSE upto(j)
    <3>1. f[j + 1] = WithColumn(m, row, in, f[(j + 1) - 1], j + 1)
      BY ONLY <1>2, <2>1
    <3>2. f[(j + 1) - 1] = upto(j)
      BY <2>1
    <3> HIDE DEF upto
    <3>3. f[j + 1] = WithColumn(m, row, in, upto(j), j + 1)
      BY ONLY <3>1, <3>2
    <3> QED
      BY ONLY <2>1, <3>3 DEF WithColumn
  <2>3. CASE Get(m, row, j) = 1
    <3>1. AddElements(upto(j), in[j]) = [k \in 0..(c - 1) |-> (upto(j)[k] + Diag(c, j, s[j])[k]) % P]
      BY DEF AddElements
    <3>2. ASSUME NEW k \in 0..(c - 1)
          PROVE  (upto(j)[k] + Diag(c, j, s[j])[k]) % P = upto(j + 1)[k]
      <4>1. s[k] \in Exponent /\ s[j] \in Exponent
        BY DEF Element
      <4>2. ASSUME NEW a \in Exponent
            PROVE  (a + 0) % P = a /\ (0 + a) % P = a
        <5>1. a + 0 = a /\ 0 + a = a
          BY SingleServerAssumption DEF Exponent
        <5> QED
          BY <5>1, ModSmall
      <4>3. 0 \in Exponent
        BY SingleServerAssumption DEF Exponent
      <4>4. CASE k = j
        <5>1. upto(j)[k] = 0 /\ Diag(c, j, s[j])[k] = s[k] /\ upto(j + 1)[k] = s[k]
          BY <2>3, <4>4 DEF Diag
        <5> QED
          BY <4>1, <4>2, <5>1
      <4>5. CASE k # j
        <5>1. Diag(c, j, s[j])[k] = 0 /\ upto(j + 1)[k] = upto(j)[k] /\ upto(j)[k] \in Exponent
          BY <4>1, <4>3, <4>5 DEF Diag
        <5> QED
          BY <4>2, <5>1
      <4> QED
        BY <4>4, <4>5
    <3> QED
      BY <2>1, <2>2, <2>3, <3>1, <3>2
  <2>4. CASE Get(m, row, j) # 1
    <3>1. upto(j) = upto(j + 1)
      BY <2>4
    <3> QED
      BY <2>1, <2>2, <2>4, <3>1
  <2> QED
    BY <2>3, <2>4
<1> HIDE DEF T
<1>5. 0..c \subseteq T
  BY <1>3, <1>4, UpTo
<1>6. f[c] = upto(c)
  BY <1>5 DEF T
<1>7. upto(c) = Chosen(m, row, s, c)
  BY DEF Chosen
<1> QED
  BY <1>1, <1>6, <1>7

LEMMA DiagFacts ==
  ASSUME NEW c \in Nat, NEW j \in 0..(c - 1), NEW a \in Exponent, NEW b \in Exponent
  PROVE  /\ Diag(c, j, a) \in Element(c)
         /\ AddElements(Diag(c, j, a), Diag(c, j, b)) = Diag(c, j, SumP(a, b))
<1>1. 0 \in Exponent /\ (a + b) % P = SumP(a, b) /\ (0 + 0) % P = 0
  <2>1. 0 \in Exponent /\ 0 + 0 = 0
    BY ModSmall
  <2> QED
    BY <2>1, ModSmall
<1>2. Diag(c, j, a) \in Element(c)
  BY <1>1 DEF Diag, Element
<1>3. \A k \in 0..(c - 1) : (Diag(c, j, a)[k] + Diag(c, j, b)[k]) % P = Diag(c, j, SumP(a, b))[k]
  BY <1>1 DEF Diag
<1>4. AddElements(Diag(c, j, a), Diag(c, j, b)) = [k \in 0..(c - 1) |-> (Diag(c, j, a)[k] + Diag(c, j, b)[k]) % P]
  BY DEF AddElements, Diag
<1>5. AddElements(Diag(c, j, a), Diag(c, j, b)) = [k \in 0..(c - 1) |-> Diag(c, j, SumP(a, b))[k]]
  BY <1>3, <1>4
<1>6. Diag(c, j, SumP(a, b)) = [k \in 0..(c - 1) |-> Diag(c, j, SumP(a, b))[k]]
  BY DEF Diag
<1> QED
  BY <1>2, <1>5, <1>6

\* The scalars of a query, by column.
Scalars(d, iy, c) == [x \in 0..(c - 1) |-> IF x = iy THEN SumP(d.r, d.t) ELSE d.r]
Ones(c)           == [x \in 0..(c - 1) |-> 1]

IsDHDraw(d) == d.r \in Exponent /\ d.t \in Exponent

\* One element per column.
Columns(in, s, c) == \A x \in 0..(c - 1) : in[x] = Diag(c, x, s[x])

\* A query that the server can read has no scalar that is zero, and is read
\* as one element per column.
QueryFor(q, s, c) ==
  /\ q \in Seq(Exponent)
  /\ s \in Element(c)
  /\ ~UnmarshalFails(q, c + 1) => /\ \A x \in 0..(c - 1) : s[x] # 0
                                  /\ Columns(UnmarshalGroupElements(q, c + 1), s, c)

LEMMA DHQueryIs ==
  ASSUME NEW c \in Nat, c > 0, NEW iy \in 0..(c - 1), NEW d, IsDHDraw(d)
  PROVE  QueryFor(DHQuery(c, iy, d), Scalars(d, iy, c), c)
<1> DEFINE s == Scalars(d, iy, c)
           items == [x \in 1..c |-> Diag(c, x - 1, s[x - 1])]
           made == [x \in 1..c |->
                      LET blinded == CommitScalarToIndex(d.r, x - 1, c)
                      IN IF x - 1 = iy
                         THEN AddElements(blinded, CommitScalarToIndex(d.t, iy, c))
                         ELSE blinded]
           q == MarshalGroupElements(items)
<1>1. d.r \in Exponent /\ d.t \in Exponent /\ SumP(d.r, d.t) \in Exponent
  BY ModSmall DEF IsDHDraw
<1>2. s \in Element(c)
  BY <1>1 DEF Scalars, Element
<1>3. ASSUME NEW x \in 1..c
      PROVE  made[x] = Diag(c, x - 1, s[x - 1])
  <2>1. x - 1 \in 0..(c - 1)
    OBVIOUS
  <2>2. CommitScalarToIndex(d.r, x - 1, c) = Diag(c, x - 1, d.r)
    BY <1>1, <2>1, CommitIs
  <2>3. CommitScalarToIndex(d.t, iy, c) = Diag(c, iy, d.t)
    BY <1>1, CommitIs
  <2>4. s[x - 1] = IF x - 1 = iy THEN SumP(d.r, d.t) ELSE d.r
    BY <2>1 DEF Scalars
  <2>5. x - 1 = iy => AddElements(Diag(c, x - 1, d.r), Diag(c, iy, d.t)) = Diag(c, x - 1, SumP(d.r, d.t))
    BY <1>1, DiagFacts
  <2> HIDE DEF s
  <2> QED
    BY <2>2, <2>3, <2>4, <2>5
<1>4. made = items
  BY <1>3
<1>5. DHQuery(c, iy, d) = MarshalGroupElements(made)
  BY DEF DHQuery
<1>6. \A x \in 1..c : items[x] \in Element(c)
  <2> TAKE x \in 1..c
  <2>1. x - 1 \in 0..(c - 1)
    OBVIOUS
  <2>2. s[x - 1] \in Exponent
    BY <1>2, <2>1 DEF Element
  <2> HIDE DEF s
  <2> QED
    BY <2>1, <2>2, DiagFacts
<1> HIDE DEF made, s
<1>7. DOMAIN items = 1..c /\ \A x \in 0..(c - 1) : x + 1 \in 1..c /\ (x + 1) - 1 = x
  OBVIOUS
<1>8. \A x \in 0..(c - 1) : items[x + 1] = Diag(c, x, s[x])
  BY <1>7
<1> HIDE DEF items
<1>9. ReadsAs(q, items, c, c)
  BY <1>6, <1>7, UnmarshalIs
<1>10. ASSUME ~UnmarshalFails(q, c + 1)
       PROVE  (\A x \in 0..(c - 1) : s[x] # 0) /\ Columns(UnmarshalGroupElements(q, c + 1), s, c)
  <2>1. \A x \in 1..c : items[x] # Identity(c)
    BY <1>9, <1>10 DEF ReadsAs
  <2>2. UnmarshalGroupElements(q, c + 1) = [x \in 0..(c - 1) |-> items[x + 1]]
    BY <1>9, <2>1 DEF ReadsAs
  <2>3. ASSUME NEW x \in 0..(c - 1), s[x] = 0
        PROVE  FALSE
    <3>1. items[x + 1] = Identity(c)
      BY <1>8, <2>3 DEF Diag, Identity
    <3> QED
      BY <1>7, <2>1, <3>1
  <2> QED
    BY <1>8, <2>2, <2>3 DEF Columns
<1>11. q \in Seq(Exponent)
  BY <1>9 DEF ReadsAs
<1>12. DHQuery(c, iy, d) = q
  BY <1>4, <1>5
<1> HIDE DEF q
<1> QED
  BY <1>2, <1>10, <1>11, <1>12 DEF QueryFor, s

\* A row without a bit: the product over it is the identity.
EmptyRow(m, i, c) == \A k \in 0..(c - 1) : Get(m, i, k) # 1

LEMMA ChosenIdentity ==
  ASSUME NEW c \in Nat, NEW m, NEW i, NEW s, \A k \in 0..(c - 1) : s[k] # 0
  PROVE  Chosen(m, i, s, c) = Identity(c) <=> EmptyRow(m, i, c)
<1>1. ASSUME EmptyRow(m, i, c)
      PROVE  Chosen(m, i, s, c) = Identity(c)
  BY <1>1 DEF Chosen, Identity, EmptyRow
<1>2. ASSUME Chosen(m, i, s, c) = Identity(c), NEW k \in 0..(c - 1)
      PROVE  Get(m, i, k) # 1
  <2>1. Chosen(m, i, s, c)[k] = 0
    BY <1>2 DEF Identity
  <2> QED
    BY <2>1 DEF Chosen
<1> QED
  BY <1>1, <1>2 DEF EmptyRow

\* The rows of a database, applied to one element per column, and what can be
\* read of their encoding f: up to the first row without a bit, and all of
\* them if there is no such row.
RowsOf(m, s, c, n) == [x \in 0..(n - 1) |-> Chosen(m, x, s, c)]

RowsRead(f, m, s, c, n) ==
  /\ f \in Seq(Exponent)
  /\ \A x \in 0..(n - 1) : (\A y \in 0..(x - 1) : ~EmptyRow(m, y, c)) =>
       IF EmptyRow(m, x, c) THEN ~IsElement(f, x, c + 1)
       ELSE IsElement(f, x, c + 1) /\ UnmarshalBinary(f, x, c + 1) = Chosen(m, x, s, c)
  /\ (\A x \in 0..(n - 1) : ~EmptyRow(m, x, c)) =>
       ~UnmarshalFails(f, c + 1) /\ UnmarshalGroupElements(f, c + 1) = RowsOf(m, s, c, n)
  /\ (\E x \in 0..(n - 1) : EmptyRow(m, x, c)) => UnmarshalFails(f, c + 1)

LEMMA RowsIs ==
  ASSUME NEW c \in Nat, c > 0, NEW n \in Nat, NEW m, m.cols = c, NEW s \in Element(c), NEW in, Columns(in, s, c),
         \A k \in 0..(c - 1) : s[k] # 0,
         NEW items, items = [x \in 1..n |-> RowProduct(m, 0 + x - 1, in)]
  PROVE  RowsRead(MarshalGroupElements(items), m, s, c, n)
<1> DEFINE f == MarshalGroupElements(items)
<1>1. ASSUME NEW x \in 1..n
      PROVE  items[x] = Chosen(m, x - 1, s, c) /\ items[x] \in Element(c)
  <2>1. items[x] = RowProduct(m, x - 1, in)
    <3>1. 0 + x - 1 = x - 1
      OBVIOUS
    <3> QED
      BY <3>1
  <2>2. RowProduct(m, x - 1, in) = Chosen(m, x - 1, s, c)
    BY ChosenIs DEF Columns
  <2> QED
    BY <2>1, <2>2, ChosenType
<1>2. DOMAIN items = 1..n
  OBVIOUS
<1>3. ReadsAs(f, items, c, n)
  BY <1>1, <1>2, UnmarshalIs
<1>4. ASSUME NEW x \in 1..n
      PROVE  items[x] = Identity(c) <=> EmptyRow(m, x - 1, c)
  BY <1>1, ChosenIdentity
<1>5. ASSUME NEW x \in 0..(n - 1)
      PROVE  /\ x + 1 \in 1..n /\ items[x + 1] = Chosen(m, x, s, c)
             /\ items[x + 1] = Identity(c) <=> EmptyRow(m, x, c)
  <2>1. x + 1 \in 1..n /\ (x + 1) - 1 = x
    OBVIOUS
  <2> QED
    BY <1>1, <1>4, <2>1
<1> HIDE DEF f
<1>6. ASSUME NEW x \in 0..(n - 1), \A y \in 0..(x - 1) : ~EmptyRow(m, y, c)
      PROVE  IF EmptyRow(m, x, c) THEN ~IsElement(f, x, c + 1)
             ELSE IsElement(f, x, c + 1) /\ UnmarshalBinary(f, x, c + 1) = Chosen(m, x, s, c)
  <2>1. ASSUME NEW y \in 1..x
        PROVE  items[y] # Identity(c)
    <3>1. y \in 1..n /\ y - 1 \in 0..(x - 1)
      OBVIOUS
    <3> QED
      BY <1>4, <1>6, <3>1
  <2>2. SliceOf(f, x, items[x + 1], c)
    BY <1>3, <2>1 DEF ReadsAs
  <2> QED
    BY <1>5, <2>2 DEF SliceOf
<1>7. ASSUME \A x \in 0..(n - 1) : ~EmptyRow(m, x, c)
      PROVE  ~UnmarshalFails(f, c + 1) /\ UnmarshalGroupElements(f, c + 1) = RowsOf(m, s, c, n)
  <2>1. ASSUME NEW x \in 1..n
        PROVE  items[x] # Identity(c)
    <3>1. x - 1 \in 0..(n - 1)
      OBVIOUS
    <3> QED
      BY <1>4, <1>7, <3>1
  <2>2. /\ ~UnmarshalFails(f, c + 1)
        /\ UnmarshalGroupElements(f, c + 1) = [x \in 0..(n - 1) |-> items[x + 1]]
    BY <1>3, <2>1 DEF ReadsAs
  <2>3. [x \in 0..(n - 1) |-> items[x + 1]] = RowsOf(m, s, c, n)
    BY <1>5 DEF RowsOf
  <2> QED
    BY <2>2, <2>3
<1>8. ASSUME NEW x \in 0..(n - 1), EmptyRow(m, x, c)
      PROVE  UnmarshalFails(f, c + 1)
  <2>1. x + 1 \in 1..n /\ items[x + 1] = Identity(c)
    BY <1>5, <1>8
  <2> QED
    BY <1>3, <2>1 DEF ReadsAs
<1>9. f \in Seq(Exponent)
  BY <1>3 DEF ReadsAs
<1>10. RowsRead(f, m, s, c, n)
  BY <1>6, <1>7, <1>8, <1>9 DEF RowsRead
<1> QED
  BY <1>10 DEF f

LEMMA DHDigestIs ==
  ASSUME NEW n \in Nat, n > 0, NEW b, b.cols = n
  PROVE  RowsRead(computeDigests(0, n, b), b, Ones(n), n, n)
<1> DEFINE in == [j \in 0..(b.cols - 1) |-> HashIndexToGroup(j, b.cols)]
           items == [x \in 1..(n - 0) |-> RowProduct(b, 0 + x - 1, in)]
<1>1. computeDigests(0, n, b) = MarshalGroupElements(items)
  BY DEF computeDigests
<1>2. Ones(n) \in Element(n) /\ \A k \in 0..(n - 1) : Ones(n)[k] # 0
  <2>1. 1 \in Exponent
    BY SingleServerAssumption DEF Exponent
  <2> QED
    BY <2>1 DEF Ones, Element
<1>3. Columns(in, Ones(n), n)
  <2>1. ASSUME NEW x \in 0..(n - 1)
        PROVE  in[x] = Diag(n, x, Ones(n)[x])
    BY DEF Ones, HashIndexToGroup, Identity, Diag
  <2> QED
    BY <2>1 DEF Columns
<1> HIDE DEF in
<1>4. items = [x \in 1..n |-> RowProduct(b, 0 + x - 1, in)]
  BY n - 0 = n
<1> HIDE DEF items
<1> QED
  BY <1>1, <1>2, <1>3, <1>4, RowsIs

LEMMA DHAnswerIs ==
  ASSUME NEW n \in Nat, n > 0, NEW h, h.cols = n, h.rows = n, NEW q, NEW s, QueryFor(q, s, n),
         ~UnmarshalFails(q, n + 1)
  PROVE  RowsRead(DHAnswer(q, h), h, s, n, n)
<1> DEFINE in == UnmarshalGroupElements(q, n + 1)
           items == [x \in 1..(n - 0) |-> RowProduct(h, 0 + x - 1, in)]
<1>1. DHAnswer(q, h) = MarshalGroupElements(items)
  BY DEF DHAnswer, processRows, ElementSize
<1> HIDE DEF in
<1>2. items = [x \in 1..n |-> RowProduct(h, 0 + x - 1, in)]
  BY n - 0 = n
<1>3. Columns(in, s, n) /\ s \in Element(n) /\ \A k \in 0..(n - 1) : s[k] # 0
  BY DEF in, QueryFor
<1> HIDE DEF items
<1> QED
  BY <1>1, <1>2, <1>3, RowsIs

\* What is left in column k of a row, if the database of the digest holds the
\* bit x there and the database of the answer the bit y.
TagAt(x, y, r, s) == SumP(IF x = 1 THEN NegP(r) ELSE 0, IF y = 1 THEN s ELSE 0)
Tag(b, h, i, d, iy, n) ==
  [k \in 0..(n - 1) |-> TagAt(Get(b, i, k), Get(h, i, k), d.r, Scalars(d, iy, n)[k])]

LEMMA TagIs ==
  ASSUME NEW n \in Nat, n > 0, NEW b, NEW h, NEW i \in 0..(n - 1), NEW iy \in 0..(n - 1), NEW d, IsDHDraw(d),
         NEW dg, UnmarshalBinary(dg, i, n + 1) = Chosen(b, i, Ones(n), n),
         NEW a, a = RowsOf(h, Scalars(d, iy, n), n, n),
         Scalars(d, iy, n) \in Element(n)
  PROVE  RowTag(dg, d, n, a, i) = Tag(b, h, i, d, iy, n)
<1> DEFINE s == Scalars(d, iy, n)
           x == Chosen(b, i, Ones(n), n)
           y == Chosen(h, i, s, n)
           z == (-d.r) % P
<1>1. RowTag(dg, d, n, a, i) = AddElements(MulScalar(x, z), y)
  BY DEF RowTag, RowsOf, ElementSize
<1>2. z = NegP(d.r) /\ z \in Exponent /\ d.r \in Exponent /\ P \in Nat /\ z \in Int
  <2>1. d.r \in Exponent
    BY DEF IsDHDraw
  <2>2. z = NegP(d.r) /\ NegP(d.r) \in Exponent
    BY <2>1, ModSmall
  <2> HIDE DEF z
  <2>3. \A g \in Exponent : g \in Int
    BY SingleServerAssumption DEF Exponent
  <2> QED
    BY <2>1, <2>2, <2>3, SingleServerAssumption
<1>3. ASSUME NEW k \in 0..(n - 1)
      PROVE  (((x[k] * z) % P) + y[k]) % P = TagAt(Get(b, i, k), Get(h, i, k), d.r, s[k])
  <2> DEFINE u == IF Get(b, i, k) = 1 THEN z ELSE 0
             v == IF Get(h, i, k) = 1 THEN s[k] ELSE 0
  <2>1. s[k] \in Exponent
    BY DEF Element
  <2>2. 0 \in Exponent /\ u \in Exponent /\ v \in Exponent /\ y[k] = v
    BY <1>2, <2>1, ModSmall DEF Chosen
  <2>3. (x[k] * z) % P = u
    <3>1. x[k] = IF Get(b, i, k) = 1 THEN 1 ELSE 0
      BY DEF Chosen, Ones
    <3> HIDE DEF x, z
    <3>2. 1 * z = z /\ 0 * z = 0
      BY <1>2
    <3>3. z % P = z /\ 0 % P = 0
      BY <1>2, <2>2, ModSmall
    <3> QED
      BY <3>1, <3>2, <3>3
  <2> HIDE DEF u, v, x, y, z, s
  <2>4. (u + v) % P = SumP(u, v)
    BY <2>2, ModSmall
  <2> QED
    BY <1>2, <2>2, <2>3, <2>4 DEF u, v, TagAt
<1>4. DOMAIN x = 0..(n - 1)
  BY DEF Chosen
<1> HIDE DEF x, y, z, s
<1>5. AddElements(MulScalar(x, z), y) = [k \in 0..(n - 1) |-> (((x[k] * z) % P) + y[k]) % P]
  BY <1>4 DEF AddElements, MulScalar
<1> QED
  BY <1>1, <1>3, <1>5 DEF Tag, s

LEMMA TagFacts ==
  ASSUME NEW r \in Exponent, NEW t \in Exponent
  PROVE  /\ TagAt(0, 0, r, r) = 0 /\ TagAt(0, 0, r, SumP(r, t)) = 0
         /\ TagAt(1, 1, r, r) = 0 /\ TagAt(1, 1, r, SumP(r, t)) = t
         /\ TagAt(0, 1, r, r) = 0 \/ TagAt(1, 0, r, r) = 0 => r = 0
         /\ TagAt(0, 1, r, SumP(r, t)) \in {0, t} \/ TagAt(1, 0, r, SumP(r, t)) \in {0, t} =>
              r = 0 \/ (r + t) % P = 0
<1>1. P \in Nat /\ P > 1 /\ r \in 0..(P - 1) /\ t \in 0..(P - 1) /\ (r + t) % P = SumP(r, t)
  BY ModSmall, SingleServerAssumption DEF Exponent
<1> QED
  BY <1>1 DEF TagAt, SumP, NegP

\* The outcome of a retrieval in the group, of a query that the server reads.
SameDatabase(b, h, n) == \A i \in 0..(n - 1), k \in 0..(n - 1) : Get(h, i, k) = Get(b, i, k)
ZeroIn(b, i, n)       == \A k \in 0..(n - 1) : Get(b, i, k) = 0
DHOutcome(r, b, h, ix, iy, d, n) ==
  /\ r \in {0, 1, Reject, Invalid}
  /\ r \notin {Reject, Invalid} => SameDatabase(b, h, n)
  /\ h = b => /\ r # Reject
              /\ r = Invalid => \E i \in 0..(n - 1) : ZeroIn(b, i, n)
              /\ r \in {0, 1} /\ r # Get(b, ix, iy) => r = 0 /\ d.t = 0

LEMMA EmptyIsZero ==
  ASSUME NEW n \in Nat, n > 0, NEW b, IsDatabase(b, n), NEW i \in 0..(n - 1)
  PROVE  EmptyRow(b, i, n) <=> ZeroIn(b, i, n)
<1>1. \A k \in 0..(n - 1) : Get(b, i, k) \in {0, 1}
  BY BitIs
<1> QED
  BY <1>1 DEF EmptyRow, ZeroIn

\* The first row without a bit cannot be read: no bit is reconstructed.
LEMMA FirstEmptyRow ==
  ASSUME NEW n \in Nat, NEW b, \E i \in 0..(n - 1) : EmptyRow(b, i, n)
  PROVE  \E i \in 0..(n - 1) : EmptyRow(b, i, n) /\ \A y \in 0..(i - 1) : ~EmptyRow(b, y, n)
<1> DEFINE T == {i \in 0..(n - 1) : EmptyRow(b, i, n)}
<1>1. T \subseteq Nat /\ T # {}
  OBVIOUS
<1>2. PICK m \in T : \A k \in T : m <= k
  BY <1>1, LeastNumber
<1>3. ASSUME NEW y \in 0..(m - 1)
      PROVE  ~EmptyRow(b, y, n)
  BY <1>2
<1> QED
  BY <1>3

\* All rows of both databases have a bit, and so all of them are read.
LEMMA DHReads ==
  ASSUME NEW n \in Nat, n > 0, NEW b, IsDatabase(b, n), NEW h, IsDatabase(h, n),
         \A i \in 0..(n - 1) : ~EmptyRow(b, i, n) /\ ~EmptyRow(h, i, n),
         NEW ix \in 0..(n - 1), NEW iy \in 0..(n - 1), NEW d, IsDHDraw(d),
         NEW digests, RowsRead(digests, b, Ones(n), n, n),
         NEW bytes, RowsRead(bytes, h, Scalars(d, iy, n), n, n),
         Scalars(d, iy, n) \in Element(n)
  PROVE  LET ht == CommitScalarToIndex(d.t, iy, n)
             r == DHReconstruct(n, n, digests, ix, iy, d, bytes)
         IN  /\ r = Reject \/ \A i \in 0..(n - 1) : Tag(b, h, i, d, iy, n) \in {Identity(n), ht}
             /\ (\A i \in 0..(n - 1) : Tag(b, h, i, d, iy, n) \in {Identity(n), ht}) =>
                  r = IF Tag(b, h, ix, d, iy, n) = Identity(n) THEN 0 ELSE 1
<1> DEFINE a == UnmarshalGroupElements(bytes, n + 1)
           ht == CommitScalarToIndex(d.t, iy, n)
           id == Identity(n)
           m(i) == RowTag(digests, d, n, a, i)
           read(i) == IsElement(digests, i, n + 1)
           good(i) == read(i) /\ m(i) \in {id, ht}
           r == DHReconstruct(n, n, digests, ix, iy, d, bytes)
<1>1. ~UnmarshalFails(bytes, n + 1) /\ a = RowsOf(h, Scalars(d, iy, n), n, n)
  BY DEF RowsRead
<1>2. ASSUME NEW i \in 0..(n - 1)
      PROVE  read(i) /\ UnmarshalBinary(digests, i, n + 1) = Chosen(b, i, Ones(n), n)
  <2>1. \A y \in 0..(i - 1) : ~EmptyRow(b, y, n)
    OBVIOUS
  <2> QED
    BY <2>1 DEF RowsRead
<1>3. r = IF UnmarshalFails(bytes, n + 1) THEN Invalid
          ELSE IF \E i \in 0..(n - 1) : ~read(i) /\ \A y \in 0..(i - 1) : good(y) THEN Invalid
          ELSE IF \E i \in 0..(n - 1) : ~good(i) THEN Reject
          ELSE IF m(ix) = id THEN 0 ELSE 1
  BY DEF DHReconstruct, ElementSize
<1> HIDE DEF a
<1>4. ASSUME NEW i \in 0..(n - 1)
      PROVE  m(i) = Tag(b, h, i, d, iy, n)
  BY <1>1, <1>2, TagIs
<1> HIDE DEF m, read, id, ht, r
<1>5. \A i \in 0..(n - 1) : good(i) <=> Tag(b, h, i, d, iy, n) \in {id, ht}
  BY <1>2, <1>4
<1> HIDE DEF good
<1>6. r = IF \E i \in 0..(n - 1) : ~good(i) THEN Reject ELSE IF m(ix) = id THEN 0 ELSE 1
  BY <1>1, <1>2, <1>3
<1> QED
  BY <1>4, <1>5, <1>6 DEF r, id, ht

LEMMA DHOutcomeIs ==
  ASSUME NEW n \in Nat, n > 0, NEW b, IsDatabase(b, n), NEW h, IsDatabase(h, n),
         NEW ix \in 0..(n - 1), NEW iy \in 0..(n - 1), NEW d, IsDHDraw(d),
         ~UnmarshalFails(DHQuery(n, iy, d), n + 1)
  PROVE  DHOutcome(DHReconstruct(n, n, computeDigests(0, n, b), ix, iy, d, DHAnswer(DHQuery(n, iy, d), h)),
                   b, h, ix, iy, d, n)
<1> DEFINE digests == computeDigests(0, n, b)
           q == DHQuery(n, iy, d)
           bytes == DHAnswer(q, h)
           s == Scalars(d, iy, n)
           ht == CommitScalarToIndex(d.t, iy, n)
           id == Identity(n)
           r == DHReconstruct(n, n, digests, ix, iy, d, bytes)
           tag(i) == Tag(b, h, i, d, iy, n)
<1>1. b.cols = n /\ h.cols = n /\ h.rows = n
  BY DEF IsDatabase, IsMatrix
<1>2. QueryFor(q, s, n)
  BY DHQueryIs
<1>3. s \in Element(n) /\ \A x \in 0..(n - 1) : s[x] # 0
  BY <1>2 DEF QueryFor
<1>4. RowsRead(digests, b, Ones(n), n, n)
  BY <1>1, DHDigestIs
<1>5. RowsRead(bytes, h, s, n, n)
  <2> HIDE DEF q, s
  <2> QED
    BY <1>1, <1>2, DHAnswerIs DEF q
<1>6. d.r \in Exponent /\ d.t \in Exponent
      /\ 0 # Reject /\ 1 # Reject /\ Invalid # Reject /\ 0 # Invalid /\ 1 # Invalid
  BY SimulationAssumption DEF IsDHDraw
<1>7. \A i \in 0..(n - 1) : (EmptyRow(b, i, n) <=> ZeroIn(b, i, n))
  BY EmptyIsZero
<1>8. CASE \E i \in 0..(n - 1) : EmptyRow(h, i, n)
  <2>1. UnmarshalFails(bytes, n + 1)
    BY <1>5, <1>8 DEF RowsRead
  <2>2. r = Invalid
    BY <2>1 DEF DHReconstruct, ElementSize
  <2> HIDE DEF r
  <2> QED
    BY <1>6, <1>7, <1>8, <2>2 DEF DHOutcome, r, digests, bytes, q
<1>9. CASE (\A i \in 0..(n - 1) : ~EmptyRow(h, i, n)) /\ \E i \in 0..(n - 1) : EmptyRow(b, i, n)
  <2>1. PICK e \in 0..(n - 1) : EmptyRow(b, e, n) /\ \A y \in 0..(e - 1) : ~EmptyRow(b, y, n)
    BY <1>9, FirstEmptyRow
  <2>2. ~IsElement(digests, e, n + 1)
    BY <1>4, <2>1 DEF RowsRead
  <2>3. r \in {Reject, Invalid}
    <3> HIDE DEF digests, bytes
    <3> QED
      BY <2>2 DEF DHReconstruct, ElementSize
  <2>4. h # b
    BY <1>9
  <2> HIDE DEF r
  <2> QED
    BY <1>6, <2>3, <2>4 DEF DHOutcome, r, digests, bytes, q
<1>10. CASE \A i \in 0..(n - 1) : ~EmptyRow(b, i, n) /\ ~EmptyRow(h, i, n)
  <2>1. /\ r = Reject \/ \A i \in 0..(n - 1) : tag(i) \in {id, ht}
        /\ (\A i \in 0..(n - 1) : tag(i) \in {id, ht}) => r = IF tag(ix) = id THEN 0 ELSE 1
    <3> HIDE DEF digests, bytes
    <3> QED
      BY <1>3, <1>4, <1>5, <1>10, DHReads
  <2>2. ht = Diag(n, iy, d.t) /\ id = [k \in 0..(n - 1) |-> 0]
    BY <1>6, CommitIs DEF Identity
  <2>3. ASSUME NEW i \in 0..(n - 1), NEW k \in 0..(n - 1)
        PROVE  /\ Get(b, i, k) \in {0, 1} /\ Get(h, i, k) \in {0, 1}
               /\ tag(i)[k] = TagAt(Get(b, i, k), Get(h, i, k), d.r, IF k = iy THEN SumP(d.r, d.t) ELSE d.r)
               /\ ht[k] = (IF k = iy THEN d.t ELSE 0) /\ id[k] = 0
    BY <2>2, BitIs DEF Tag, Scalars, Diag
  <2>4. /\ \A k \in 0..(n - 1) : k # iy => d.r # 0
        /\ SumP(d.r, d.t) # 0
    BY <1>3 DEF Scalars
  <2> HIDE DEF ht, id, s, r
  <2>5. ASSUME r # Reject, NEW i \in 0..(n - 1), NEW k \in 0..(n - 1)
        PROVE  Get(h, i, k) = Get(b, i, k)
    <3> SUFFICES ASSUME Get(h, i, k) # Get(b, i, k)
                 PROVE  FALSE
      OBVIOUS
    <3>1. tag(i) \in {id, ht}
      BY <2>1, <2>5
    <3>2. tag(i)[k] \in {0, IF k = iy THEN d.t ELSE 0}
      BY <2>3, <3>1
    <3> HIDE DEF tag
    <3>3. d.r = 0 \/ (d.r + d.t) % P = 0
      <4>1. CASE k = iy
        BY <1>6, <2>3, <2>5, <3>2, <4>1, TagFacts
      <4>2. CASE k # iy
        BY <1>6, <2>3, <2>5, <3>2, <4>2, TagFacts
      <4> QED
        BY <4>1, <4>2
    <3>4. (d.r + d.t) % P # 0
      BY <1>6, <2>4, ModSmall
    <3>5. \A g \in 0..(n - 1) : g = iy
      BY <2>4, <3>3, <3>4
    <3>6. \A g \in 0..(n - 1) : Get(b, i, g) = 1 /\ Get(h, i, g) = 1
      <4>1. \E g \in 0..(n - 1) : Get(b, i, g) = 1
        BY <1>10 DEF EmptyRow
      <4>2. \E g \in 0..(n - 1) : Get(h, i, g) = 1
        BY <1>10 DEF EmptyRow
      <4> QED
        BY ONLY <3>5, <4>1, <4>2
    <3> QED
      BY <3>6
  <2>6. ASSUME h = b, NEW i \in 0..(n - 1)
        PROVE  tag(i) = IF Get(b, i, iy) = 1 THEN ht ELSE id
    <3>1. ASSUME NEW k \in 0..(n - 1)
          PROVE  tag(i)[k] = IF k = iy /\ Get(b, i, iy) = 1 THEN d.t ELSE 0
      <4>1. Get(b, i, k) = 0 \/ Get(b, i, k) = 1
        BY <2>3
      <4>2. tag(i)[k] = TagAt(Get(b, i, k), Get(b, i, k), d.r, IF k = iy THEN SumP(d.r, d.t) ELSE d.r)
        BY <2>3, <2>6
      <4> HIDE DEF tag
      <4> QED
        BY <1>6, <4>1, <4>2, TagFacts
    <3>2. tag(i) = [k \in 0..(n - 1) |-> IF k = iy /\ Get(b, i, iy) = 1 THEN d.t ELSE 0]
      BY <3>1 DEF Tag
    <3> HIDE DEF tag
    <3>3. CASE Get(b, i, iy) = 1
      BY <2>2, <3>2, <3>3 DEF Diag
    <3>4. CASE Get(b, i, iy) # 1
      BY <2>2, <3>2, <3>4
    <3> QED
      BY <3>3, <3>4
  <2> HIDE DEF tag
  <2>7. ASSUME h = b
        PROVE  r # Reject /\ r # Invalid /\ (r # Get(b, ix, iy) => r = 0 /\ d.t = 0)
    <3>1. \A i \in 0..(n - 1) : tag(i) \in {id, ht}
      BY <2>6, <2>7
    <3>2. r = IF tag(ix) = id THEN 0 ELSE 1
      BY <2>1, <3>1
    <3>3. tag(ix) = IF Get(b, ix, iy) = 1 THEN ht ELSE id
      BY <2>6, <2>7
    <3>4. Get(b, ix, iy) \in {0, 1}
      BY <2>3
    <3>5. ht = id => d.t = 0
      BY <2>3
    <3> QED
      BY <1>6, <3>2, <3>3, <3>4, <3>5
  <2>8. r \in {0, 1, Reject}
    BY <2>1
  <2>9. DHOutcome(r, b, h, ix, iy, d, n)
    BY <2>5, <2>7, <2>8 DEF DHOutcome, SameDatabase
  <2> QED
    BY <2>9 DEF r, digests, bytes, q
<1> QED
  BY <1>8, <1>9, <1>10

-----------------------------------------------------------------------------
(* The repetitions of Amplify, and their decoding.                          *)

\* Matrices of one row, and as many of them as there are repetitions.
IsRow(m, w, n) == m = Filled(1, n, w, m.data) /\ m.data \in [1..n -> Word]

LEMMA QueryRow ==
  ASSUME NEW n \in Nat, Len(SeedStream) >= N * n, NEW d, IsDraw(d, n), NEW i \in 0..(n - 1),
         NEW p, p.L = n, NEW h, IsDatabase(h, n)
  PROVE  /\ IsRow(LWEQuery(p, i, d), 4, n) /\ IsRow(LWE128Query(p, i, d), 16, n)
         /\ IsRow(BinaryMul(LWEQuery(p, i, d), h), 4, n)
         /\ IsRow(BinaryMul128(LWE128Query(p, i, d), h), 16, n)
<1> DEFINE q == LWEQuery(p, i, d)
           u == LWE128Query(p, i, d)
<1>1. IsRow(q, 4, n) /\ IsRow(u, 16, n)
  BY QueryIs DEF IsQuery, IsRow
<1> HIDE DEF q, u
<1> DEFINE f == q.data
           g == u.data
<1>2. q = Filled(1, n, 4, f) /\ f \in [1..n -> Word] /\ u = Filled(1, n, 16, g) /\ g \in [1..n -> Word]
  BY <1>1 DEF IsRow
<1> HIDE DEF f, g
<1>3. IsRow(BinaryMul(q, h), 4, n)
  <2>1. PICK e : BinaryMul(Filled(1, n, 4, f), h) = Filled(1, n, 4, e) /\ IsAnswer(e, f, h, n)
    BY <1>2, AnswerIs
  <2> QED
    BY <1>2, <2>1 DEF IsRow, IsAnswer, Filled
<1>4. IsRow(BinaryMul128(u, h), 16, n)
  <2>1. PICK e : BinaryMul128(Filled(1, n, 16, g), h) = Filled(1, n, 16, e) /\ IsAnswer(e, g, h, n)
    BY <1>2, AnswerIs
  <2> QED
    BY <1>2, <2>1 DEF IsRow, IsAnswer, Filled
<1> QED
  BY <1>1, <1>3, <1>4 DEF q, u

LEMMA RowWired ==
  ASSUME NEW n \in Nat, NEW m, IsRow(m, 16, n)
  PROVE  BytesToMatrix128(Matrix128ToBytes(m)) = m
<1>1. m = Filled(1, n, 16, m.data) /\ m.data \in [1..n -> Word]
  BY DEF IsRow
<1> DEFINE f == m.data
<1> HIDE DEF f
<1>2. m = Filled(1, n, 16, f) /\ f \in [1..n -> Word]
  BY <1>1 DEF f
<1>3. /\ Matrix128ToBytes(Filled(1, n, 16, f)) = Wired(n, f)
      /\ BytesToMatrix128(Wired(n, f)) = Filled(1, n, 16, f)
  BY <1>2, WiredIs
<1> QED
  BY <1>2, <1>3

\* The repetitions of Amplify on the wire.
CarriesQueries(qq, p, i, ds, R, n) ==
  \A k \in 1..R : LET m == BytesToMatrices(qq)[k] IN m = LWEQuery(p, i, ds[k]) /\ IsRow(m, 4, n)
CarriesAnswers(aa, p, i, ds, R, n, h) ==
  \A k \in 1..R : LET m == BytesToMatrices(aa)[k] IN
                  m = BinaryMul(LWEQuery(p, i, ds[k]), h) /\ IsRow(m, 4, n)

AreDraws(ds, R, n) == DOMAIN ds = 1..R /\ \A k \in 1..R : IsDraw(ds[k], n)

LEMMA AmplifyIs ==
  ASSUME NEW n \in Nat, Len(SeedStream) >= N * n, NEW R \in Nat, R > 0, NEW ds, AreDraws(ds, R, n),
         NEW i \in 0..(n - 1), NEW p, p.L = n, NEW h, IsDatabase(h, n)
  PROVE  /\ CarriesQueries(AmplifyQuery(p, i, ds), p, i, ds, R, n)
         /\ CarriesAnswers(AmplifyAnswer(AmplifyQuery(p, i, ds), h), p, i, ds, R, n, h)
<1> DEFINE qs == [k \in DOMAIN ds |-> LWEQuery(p, i, ds[k])]
           qq == MatricesToBytes(qs)
           ms == BytesToMatrices(qq)
           as == [k \in DOMAIN ms |-> BinaryMul(ms[k], h)]
           aa == MatricesToBytes(as)
<1>1. ASSUME NEW k \in 1..R
      PROVE  IsRow(LWEQuery(p, i, ds[k]), 4, n) /\ IsRow(BinaryMul(LWEQuery(p, i, ds[k]), h), 4, n)
  BY QueryRow DEF AreDraws
<1>2. DOMAIN qs = 1..R /\ \A k \in 1..R : qs[k] = LWEQuery(p, i, ds[k])
  BY DEF AreDraws
<1>3. AmplifyQuery(p, i, ds) = qq
  BY DEF AmplifyQuery
<1> HIDE DEF qs
<1>4. AreRows(qs, R, n)
  BY <1>1, <1>2 DEF AreRows, IsRow
<1>5. DOMAIN ms = 1..R /\ \A k \in 1..R : ms[k] = qs[k]
  BY <1>4, MatricesIs
<1>6. AmplifyAnswer(qq, h) = aa
  BY DEF AmplifyAnswer
<1> HIDE DEF ms
<1>7. DOMAIN as = 1..R /\ \A k \in 1..R : as[k] = BinaryMul(LWEQuery(p, i, ds[k]), h)
  BY <1>2, <1>5
<1> HIDE DEF as
<1>8. AreRows(as, R, n)
  BY <1>1, <1>7 DEF AreRows, IsRow
<1>9. \A k \in 1..R : BytesToMatrices(aa)[k] = as[k]
  BY <1>8, MatricesIs
<1> HIDE DEF aa, qq
<1>10. CarriesQueries(qq, p, i, ds, R, n)
  BY <1>1, <1>2, <1>5 DEF CarriesQueries, ms
<1>11. CarriesAnswers(aa, p, i, ds, R, n, h)
  BY <1>1, <1>7, <1>9 DEF CarriesAnswers
<1> QED
  BY <1>3, <1>6, <1>10, <1>11

\* What the repetitions reconstruct, one by one.
Words(p, m, j, ds, aa, R) ==
  [k \in 1..R |-> LWEReconstruct(p, m, j, ds[k], BytesToMatrices(aa)[k])]

\* The outcome of a repetition is known if its samples are typical.
Votes(w, p, b, h, i, j, ds, R, n) ==
  \A k \in 1..R :
    /\ w[k] \in {0, 1, Reject}
    /\ TypicalDraw(ds[k], n) =>
         Outcome(w[k], LWEQuery(p, i, ds[k]), b, h, i, j, ds[k].t, n, 2 * p.B)

LEMMA ReconstructIs ==
  ASSUME NEW p, NEW m, NEW j, NEW d, NEW a
  PROVE  /\ LWEReconstruct(p, m, j, d, a) \in {0, 1, Reject}
         /\ LWE128Reconstruct(p, m, j, d, a) \in {0, 1, Reject}
BY DEF LWEReconstruct, LWE128Reconstruct

LEMMA AmplifyVotes ==
  ASSUME NEW n \in Nat, Len(SeedStream) >= N * n, NEW R \in Nat, NEW ds, AreDraws(ds, R, n),
         NEW i \in 0..(n - 1), NEW j \in 0..(n - 1), NEW b, IsDatabase(b, n), NEW h, IsDatabase(h, n),
         NEW p, p = ParamsWithDatabaseSize(n, n), NEW aa, CarriesAnswers(aa, p, i, ds, R, n, h)
  PROVE  Votes(Words(p, Digest(b, n), j, ds, aa, R), p, b, h, i, j, ds, R, n)
<1>1. ASSUME NEW k \in 1..R, TypicalDraw(ds[k], n)
      PROVE  Outcome(LWEReconstruct(p, Digest(b, n), j, ds[k], BytesToMatrices(aa)[k]),
                     LWEQuery(p, i, ds[k]), b, h, i, j, ds[k].t, n, 2 * p.B)
  <2>1. IsDraw(ds[k], n)
    BY DEF AreDraws
  <2>2. BytesToMatrices(aa)[k] = BinaryMul(LWEQuery(p, i, ds[k]), h)
    BY DEF CarriesAnswers
  <2> DEFINE q == LWEQuery(p, i, ds[k])
             d == ds[k]
  <2> HIDE DEF q, d
  <2>3. IsDraw(d, n) /\ TypicalDraw(d, n) /\ q = LWEQuery(p, i, d)
    BY <1>1, <2>1 DEF q, d
  <2>4. Outcome(LWEReconstruct(p, Digest(b, n), j, d, BinaryMul(q, h)), q, b, h, i, j, d.t, n, 2 * p.B)
    BY <2>3, LWEOutcome
  <2> QED
    BY <2>2, <2>4 DEF q, d
<1> QED
  BY <1>1, ReconstructIs DEF Votes, Words

LEMMA AmplifyReads ==
  ASSUME NEW R, NEW ds, DOMAIN ds = 1..R, NEW p, NEW m, NEW j, NEW aa
  PROVE  AmplifyReconstruct(p, m, j, ds, aa) =
           LET w == Words(p, m, j, ds, aa, R) IN
           IF \E k \in 1..R : w[k] = Reject THEN Reject ELSE Decode(w)
BY DEF AmplifyReconstruct, Words

\* Decoding 2 t + 1 words.
IsVector(w, R) == w = [k \in 1..R |-> w[k]]
With(w, R, word) == {k \in 1..R : w[k] = word}

LEMMA DecodeIs ==
  ASSUME NEW t \in Nat, NEW R, R = 2 * t + 1, NEW w, IsVector(w, R)
  PROVE  Decode(w) = IF Cardinality(With(w, R, w[1])) > t THEN w[1] ELSE Undecoded
<1>0. w = [k \in 1..R |-> w[k]]
  BY DEF IsVector
<1>1. R \in Nat /\ R \div 2 = t /\ DOMAIN w = 1..R
  BY <1>0
<1> DEFINE S == {w[k] : k \in 1..R}
<1>2. w \in [1..R -> S]
  BY <1>0
<1> HIDE DEF S
<1>3. Len(w) = R
  BY ONLY <1>1, <1>2, WholeSeq
<1> QED
  BY <1>1, <1>3 DEF Decode, Count, With

LEMMA WithFacts ==
  ASSUME NEW t \in Nat, NEW R, R = 2 * t + 1, NEW S \in SUBSET (1..R)
  PROVE  /\ Cardinality(S) \in Nat /\ Cardinality(1..R) = R /\ IsFiniteSet(S)
         /\ Cardinality((1..R) \ S) = R - Cardinality(S)
         /\ \A T \in SUBSET S : Cardinality(T) <= Cardinality(S) /\ Cardinality(T) \in Nat
<1>1. IsFiniteSet(1..R) /\ Cardinality(1..R) = R
  BY FS_Interval
<1>2. IsFiniteSet(S)
  BY <1>1, FS_Subset
<1>3. Cardinality(S) \in Nat
  BY <1>2, FS_CardinalityType
<1>4. Cardinality((1..R) \ S) = Cardinality(1..R) - Cardinality((1..R) \cap S) /\ (1..R) \cap S = S
  BY <1>1, FS_Difference
<1>5. \A T \in SUBSET S : Cardinality(T) <= Cardinality(S) /\ IsFiniteSet(T)
  BY <1>2, FS_Subset
<1> QED
  BY <1>1, <1>2, <1>3, <1>4, <1>5, FS_CardinalityType

LEMMA OthersAre ==
  ASSUME NEW t \in Nat, NEW R, R = 2 * t + 1, NEW S \in SUBSET (1..R)
  PROVE  Cardinality((1..R) \ S) = R - Cardinality(S)
BY WithFacts

\* Words that are right but for the unclear ones.
Wrong(w, R, bit) == {k \in 1..R : w[k] # bit}
DecodesTo(r, stored, unclear, R) ==
  /\ r \in {0, 1, Undecoded}
  /\ r = Undecoded => 1 \in unclear \/ 2 * Cardinality(unclear) > R
  /\ r \in {0, 1} /\ r # stored => 2 * Cardinality(unclear) > R

LEMMA DecodesHonest ==
  ASSUME NEW t \in Nat, NEW R, R = 2 * t + 1, NEW w, IsVector(w, R), NEW stored \in {0, 1},
         NEW unclear \in SUBSET (1..R),
         \A k \in 1..R : w[k] \in {0, 1} /\ (w[k] # stored => k \in unclear)
  PROVE  DecodesTo(Decode(w), stored, unclear, R)
<1> DEFINE wrong == Wrong(w, R, stored)
<1>1. 1 \in 1..R /\ w[1] \in {0, 1} /\ Undecoded # 0 /\ Undecoded # 1
  <2>1. 1 \in 1..R
    OBVIOUS
  <2>2. Undecoded # 0 /\ Undecoded # 1
    BY SimulationAssumption
  <2> QED
    BY <2>1, <2>2
<1>2. Decode(w) = IF Cardinality(With(w, R, w[1])) > t THEN w[1] ELSE Undecoded
  BY DecodeIs
<1>3. wrong \in SUBSET unclear /\ wrong \in SUBSET (1..R)
  BY DEF Wrong
<1>4. /\ Cardinality(wrong) <= Cardinality(unclear)
      /\ Cardinality(wrong) \in Nat /\ Cardinality(unclear) \in Nat
  BY <1>3, WithFacts
<1>5. CASE w[1] = stored
  <2>1. With(w, R, w[1]) = (1..R) \ wrong
    BY <1>5 DEF With, Wrong
  <2> HIDE DEF wrong
  <2>2. Cardinality((1..R) \ wrong) = R - Cardinality(wrong)
    BY ONLY <1>3, t \in Nat, R = 2 * t + 1, OthersAre
  <2>3. Cardinality(With(w, R, w[1])) = R - Cardinality(wrong)
    BY ONLY <2>1, <2>2
  <2>4. ~(R - Cardinality(wrong) > t) => 2 * Cardinality(unclear) > R
    BY <1>4
  <2> QED
    BY <1>1, <1>2, <1>5, <2>3, <2>4 DEF DecodesTo
<1>6. CASE w[1] # stored
  <2>1. 1 \in unclear
    BY <1>1, <1>6
  <2>2. With(w, R, w[1]) \in SUBSET wrong
    BY <1>6 DEF With, Wrong
  <2>3. /\ Cardinality(With(w, R, w[1])) <= Cardinality(wrong)
        /\ Cardinality(With(w, R, w[1])) \in Nat
    BY <1>3, <2>2, WithFacts
  <2> HIDE DEF wrong
  <2>4. Cardinality(With(w, R, w[1])) > t => 2 * Cardinality(unclear) > R
    BY <1>4, <2>3
  <2> QED
    BY <1>1, <1>2, <2>1, <2>4 DEF DecodesTo
<1> QED
  BY <1>5, <1>6

-----------------------------------------------------------------------------
(* One retrieval of a simulation.                                           *)
\* What an action puts on the wire, and what it is put on the wire from.
Drawable ==
  CASE primitive = "cmp-vpir-lwe"     -> [1..Reps -> Draws[Reps]]
    [] primitive = "cmp-vpir-lwe-128" -> Draws128
    [] OTHER                          -> [r : 0..(P - 1), t : 0..(P - 1)]

QueryMade ==
  CASE primitive = "cmp-vpir-lwe"     -> AmplifyQuery(Params, Row(index), draw)
    [] primitive = "cmp-vpir-lwe-128" -> Matrix128ToBytes(LWE128Query(Params128, Row(index), draw))
    [] OTHER                          -> DHQuery(db.cols, Column(index), draw)

AnswerMade ==
  CASE primitive = "cmp-vpir-lwe"     -> AmplifyAnswer(query, held)
    [] primitive = "cmp-vpir-lwe-128" ->
         Matrix128ToBytes(LWE128Answer(BytesToMatrix128(query), held))
    [] OTHER                          -> DHAnswer(query, held)

ResultMade ==
  CASE primitive = "cmp-vpir-lwe"     ->
         AmplifyReconstruct(Params, digest, Column(index), draw, answer)
    [] primitive = "cmp-vpir-lwe-128" ->
         LWE128Reconstruct(Params128, digest, Column(index), draw, BytesToMatrix128(answer))
    [] OTHER                          ->
         DHReconstruct(db.rows, db.cols, digest, Row(index), Column(index), draw, answer)

Returned == {"answered", "reconstructed"}
Schemes  == {"cmp-vpir-dh", "cmp-vpir-lwe", "cmp-vpir-lwe-128"}

\* A retrieval under way has drawn what its scheme may draw; its query, its
\* answer and its result are made of what was drawn, of the database that the
\* server holds, and of the digest.
TripInv ==
  /\ db # None => /\ db.rows \in Nat
                  /\ IsDatabase(db, db.rows) /\ IsDatabase(held, db.rows)
  /\ pc \in Ready /\ primitive = "cmp-vpir-lwe" => DBLen \in DOMAIN tECC
  /\ pc \in UnderWay => /\ primitive \in Schemes
                        /\ index \in 0..(db.rows * db.cols - 1)
                        /\ draw \in Drawable
                        /\ query = QueryMade
  /\ pc = "asked" => answer = <<>>
  /\ pc \in Returned => /\ answer = AnswerMade
                        /\ primitive = "cmp-vpir-dh" => ~UnmarshalFails(query, ElementSize(held.cols))
  /\ pc = "reconstructed" => result = ResultMade

Results   == {0, 1, Reject, Undecoded, Invalid}
ResultInv == result \in {None} \cup Results

\* The dimensions, databases and draws of the length under way.
Settled(n) ==
  /\ n \in Nat /\ db.rows = n /\ db.cols = n
  /\ IsDatabase(db, n) /\ IsDatabase(held, n)
  /\ Len(SeedStream) >= N * n
  /\ DBLen \in DOMAIN tECC => /\ tECC[DBLen] \in Nat
                              /\ \A d \in Draws[Reps] : IsDraw(d, n)
  /\ \A d \in Draws128 : IsDraw(d, n)
  /\ Params = ParamsWithDatabaseSize(n, n) /\ Params128 = Params

LEMMA SettledIs ==
  ASSUME CourseInv, DigestInv, pc \in Ready
  PROVE  Settled(db.rows)
<1> DEFINE n == Side.rows
<1>1. next \in 1..Len(lengths) /\ lengths \in Configs /\ lengths \in Seq(Nat \ {0})
  BY SimulationAssumption DEF CourseInv, Busy, Ready, UnderWay
<1>2. n \in Nat
  BY <1>1, SideIs
<1>3. IsDatabase(db, n) /\ IsDatabase(held, n)
  BY DEF DigestInv, Busy, Ready, UnderWay
<1>4. db.rows = n /\ db.cols = n
  BY <1>3 DEF IsDatabase, IsMatrix
<1>5. next \in DOMAIN lengths
  BY <1>1
<1>6. /\ Len(SeedStream) >= N * n
      /\ \A d \in Draws128 \cup UNION {Draws[m] : m \in DOMAIN Draws} : IsDraw(d, n)
  BY <1>1, <1>5, DrawsAssumption DEF Side, DBLen
<1>7. DBLen \in DOMAIN tECC => tECC[DBLen] \in Nat /\ Reps \in DOMAIN Draws
  BY DrawsAssumption DEF Reps
<1>8. Params = ParamsWithDatabaseSize(n, n) /\ Params128 = Params
  BY <1>4 DEF Params, Params128, ParamsWithDatabaseSize128
<1> HIDE DEF n
<1> QED
  BY <1>2, <1>3, <1>4, <1>6, <1>7, <1>8 DEF Settled

\* The block asked for lies in the database.
Placed(n, i) == /\ n > 0 /\ Row(i) \in 0..(n - 1) /\ Column(i) \in 0..(n - 1)
                /\ db.data[i + 1] = Get(db, Row(i), Column(i))
                /\ Get(db, Row(i), Column(i)) \in {0, 1}

LEMMA PlacedIs ==
  ASSUME NEW n, Settled(n), NEW i \in 0..(db.rows * db.cols - 1)
  PROVE  Placed(n, i)
<1>1. n \in Nat /\ db.cols = n /\ i \in 0..(n * n - 1) /\ IsDatabase(db, n)
  BY DEF Settled
<1>2. n > 0
  BY <1>1, 0 * 0 = 0
<1> DEFINE r == i \div n
           c == i % n
<1>3. Row(i) = r /\ Column(i) = c
  BY <1>1 DEF Row, Column, VectorToMatrixIndices
<1>4. r \in 0..(n - 1) /\ c \in 0..(n - 1)
  <2>1. n * n \in Nat
    BY <1>1
  <2>2. i + 1 \in 1..(n * n) /\ (i + 1) - 1 = i
    BY <1>1, <2>1
  <2> QED
    BY <1>1, <2>2, PositionOf
<1>5. n * r + c = i
  BY <1>1, <1>2
<1> HIDE DEF r, c
<1>6. Get(db, r, c) = db.data[i + 1]
  BY <1>1, <1>5 DEF Get
<1>7. Get(db, r, c) \in {0, 1}
  BY <1>1, <1>4, BitIs
<1> QED
  BY <1>2, <1>3, <1>4, <1>6, <1>7 DEF Placed

LEMMA RepetitionsAre ==
  ASSUME NEW n, Settled(n), DBLen \in DOMAIN tECC, NEW ds \in [1..Reps -> Draws[Reps]]
  PROVE  /\ tECC[DBLen] \in Nat /\ Reps = 2 * tECC[DBLen] + 1 /\ Reps \in Nat /\ Reps > 0
         /\ AreDraws(ds, Reps, n)
<1>1. tECC[DBLen] \in Nat /\ \A d \in Draws[Reps] : IsDraw(d, n)
  BY DEF Settled
<1>2. Reps = 2 * tECC[DBLen] + 1
  BY DEF Reps, Repetitions
<1>3. Reps \in Nat /\ Reps > 0
  BY <1>1, <1>2
<1>4. AreDraws(ds, Reps, n)
  BY <1>1 DEF AreDraws
<1> QED
  BY <1>1, <1>2, <1>3, <1>4

\* What a retrieval of each scheme has come to.
LWECame(n) ==
  LET w == Words(Params, digest, Column(index), draw, answer, Reps) IN
  /\ tECC[DBLen] \in Nat /\ Reps = 2 * tECC[DBLen] + 1 /\ AreDraws(draw, Reps, n)
  /\ CarriesQueries(query, Params, Row(index), draw, Reps, n)
  /\ pc \in Returned => /\ CarriesAnswers(answer, Params, Row(index), draw, Reps, n, held)
                        /\ Votes(w, Params, db, held, Row(index), Column(index), draw, Reps, n)
  /\ pc = "reconstructed" =>
       result = IF \E k \in 1..Reps : w[k] = Reject THEN Reject ELSE Decode(w)

LEMMA LWEComes ==
  ASSUME NEW n, Settled(n), TripInv, DigestInv, pc \in UnderWay, primitive = "cmp-vpir-lwe"
  PROVE  LWECame(n)
<1> DEFINE R == Reps
           ds == draw
           p == Params
           i == Row(index)
           j == Column(index)
<1>1. n \in Nat /\ IsDatabase(db, n) /\ IsDatabase(held, n) /\ Len(SeedStream) >= N * n
      /\ p = ParamsWithDatabaseSize(n, n) /\ db.rows = n
  BY DEF Settled
<1>2. DBLen \in DOMAIN tECC /\ ds \in [1..R -> Draws[R]] /\ query = AmplifyQuery(p, i, ds)
  BY DEF TripInv, Ready, Drawable, QueryMade
<1>3. tECC[DBLen] \in Nat /\ R = 2 * tECC[DBLen] + 1 /\ R \in Nat /\ R > 0 /\ AreDraws(ds, R, n)
  BY <1>2, RepetitionsAre
<1>4. i \in 0..(n - 1) /\ j \in 0..(n - 1)
  BY PlacedIs DEF TripInv, Placed
<1>5. digest = Digest(db, n)
  BY <1>1 DEF DigestInv, Ready
<1>6. pc \in Returned => answer = AmplifyAnswer(query, held)
  BY DEF TripInv, AnswerMade
<1>7. pc = "reconstructed" => result = AmplifyReconstruct(p, digest, j, ds, answer)
  BY DEF TripInv, ResultMade
<1>8. p.L = n
  BY <1>1 DEF ParamsWithDatabaseSize
<1> HIDE DEF R, ds, p, i, j
<1>9. CarriesQueries(query, p, i, ds, R, n)
  BY <1>1, <1>2, <1>3, <1>4, <1>8, AmplifyIs
<1>10. pc \in Returned => CarriesAnswers(answer, p, i, ds, R, n, held)
  BY <1>1, <1>2, <1>3, <1>4, <1>6, <1>8, AmplifyIs
<1>11. pc \in Returned => Votes(Words(p, digest, j, ds, answer, R), p, db, held, i, j, ds, R, n)
  BY <1>1, <1>3, <1>4, <1>5, <1>10, AmplifyVotes
<1>12. pc = "reconstructed" =>
         result = LET w == Words(p, digest, j, ds, answer, R) IN
                  IF \E k \in 1..R : w[k] = Reject THEN Reject ELSE Decode(w)
  <2>1. DOMAIN ds = 1..R
    BY <1>3 DEF AreDraws
  <2> QED
    BY <1>7, <2>1, AmplifyReads
<1> QED
  BY <1>3, <1>9, <1>10, <1>11, <1>12 DEF LWECame, R, ds, p, i, j

LWE128Came(n) ==
  LET q == BytesToMatrix128(query) IN
  /\ IsRow(q, 16, n)
  /\ pc \in Returned => IsRow(BytesToMatrix128(answer), 16, n)
  /\ pc = "reconstructed" =>
       /\ result \in {0, 1, Reject}
       /\ TypicalDraw(draw, n) =>
            Outcome(result, q, db, held, Row(index), Column(index), draw.t, n, 2 * Params.B)

LEMMA LWE128Comes ==
  ASSUME NEW n, Settled(n), TripInv, DigestInv, pc \in UnderWay, primitive = "cmp-vpir-lwe-128"
  PROVE  LWE128Came(n)
<1> DEFINE d == draw
           p == Params
           i == Row(index)
           j == Column(index)
           q == LWE128Query(p, i, d)
           a == BinaryMul128(q, held)
<1>1. n \in Nat /\ IsDatabase(db, n) /\ IsDatabase(held, n) /\ Len(SeedStream) >= N * n
      /\ p = ParamsWithDatabaseSize(n, n) /\ db.rows = n /\ Params128 = p
  BY DEF Settled
<1>2. d \in Draws128 /\ query = Matrix128ToBytes(LWE128Query(Params128, i, d))
  BY DEF TripInv, Drawable, QueryMade
<1>3. IsDraw(d, n)
  BY <1>2 DEF Settled
<1>4. i \in 0..(n - 1) /\ j \in 0..(n - 1)
  BY PlacedIs DEF TripInv, Placed
<1>5. digest = Digest128(db, n)
  BY <1>1 DEF DigestInv, Ready
<1>6. pc \in Returned => answer = Matrix128ToBytes(LWE128Answer(BytesToMatrix128(query), held))
  BY DEF TripInv, AnswerMade
<1>7. pc = "reconstructed" => result = LWE128Reconstruct(Params128, digest, j, d, BytesToMatrix128(answer))
  BY DEF TripInv, ResultMade
<1>8. p.L = n
  BY <1>1 DEF ParamsWithDatabaseSize
<1> HIDE DEF d, p, i, j
<1>9. IsRow(q, 16, n) /\ IsRow(a, 16, n)
  BY <1>1, <1>3, <1>4, <1>8, QueryRow
<1>10. BytesToMatrix128(query) = q
  <2>1. query = Matrix128ToBytes(q)
    BY <1>1, <1>2
  <2> HIDE DEF q
  <2> QED
    BY <1>1, <1>9, <2>1, RowWired
<1>11. pc \in Returned => BytesToMatrix128(answer) = a
  <2> HIDE DEF q
  <2>1. pc \in Returned => answer = Matrix128ToBytes(a)
    BY <1>6, <1>10 DEF LWE128Answer
  <2> HIDE DEF a
  <2> QED
    BY <1>1, <1>9, <2>1, RowWired
<1>12. TypicalDraw(d, n) =>
         Outcome(LWE128Reconstruct(p, digest, j, d, a), q, db, held, i, j, d.t, n, 2 * p.B)
  BY <1>1, <1>3, <1>4, <1>5, LWE128Outcome
<1> HIDE DEF q, a
<1>13. pc = "reconstructed" =>
         /\ result \in {0, 1, Reject}
         /\ TypicalDraw(d, n) => Outcome(result, q, db, held, i, j, d.t, n, 2 * p.B)
  BY <1>1, <1>7, <1>11, <1>12, ReconstructIs DEF Returned
<1> QED
  BY <1>9, <1>10, <1>11, <1>13 DEF LWE128Came, d, p, i, j

DHCame(n) ==
  /\ query \in Seq(Exponent)
  /\ pc \in Returned => answer \in Seq(Exponent)
  /\ pc = "reconstructed" => DHOutcome(result, db, held, Row(index), Column(index), draw, n)

LEMMA DHComes ==
  ASSUME NEW n, Settled(n), TripInv, DigestInv, pc \in UnderWay, primitive = "cmp-vpir-dh"
  PROVE  DHCame(n)
<1> DEFINE d == draw
           i == Row(index)
           j == Column(index)
<1>1. n \in Nat /\ IsDatabase(db, n) /\ IsDatabase(held, n) /\ db.rows = n /\ db.cols = n
  BY DEF Settled
<1>2. d \in [r : 0..(P - 1), t : 0..(P - 1)] /\ query = DHQuery(n, j, d)
  BY <1>1 DEF TripInv, Drawable, QueryMade
<1>3. IsDHDraw(d)
  BY <1>2 DEF IsDHDraw, Exponent
<1>4. i \in 0..(n - 1) /\ j \in 0..(n - 1) /\ n > 0
  BY PlacedIs DEF TripInv, Placed
<1>5. digest = computeDigests(0, n, db)
  BY <1>1 DEF DigestInv, Ready
<1>6. pc \in Returned => answer = DHAnswer(query, held)
  BY DEF TripInv, AnswerMade
<1>7. pc = "reconstructed" => result = DHReconstruct(n, n, digest, i, j, d, answer)
  BY <1>1 DEF TripInv, ResultMade
<1> HIDE DEF d, i, j
<1>8. QueryFor(query, Scalars(d, j, n), n) /\ query \in Seq(Exponent)
  <2>1. QueryFor(query, Scalars(d, j, n), n)
    BY <1>1, <1>2, <1>3, <1>4, DHQueryIs
  <2> QED
    BY <2>1 DEF QueryFor
<1>9. pc \in Returned => ~UnmarshalFails(query, n + 1)
  <2>1. held.cols = n
    BY <1>1 DEF IsDatabase, IsMatrix
  <2> QED
    BY <2>1 DEF TripInv, ElementSize
<1>10. ASSUME pc \in Returned
       PROVE  DHAnswer(query, held) \in Seq(Exponent)
  <2>1. held.cols = n /\ held.rows = n
    BY <1>1 DEF IsDatabase, IsMatrix
  <2>2. RowsRead(DHAnswer(query, held), held, Scalars(d, j, n), n, n)
    BY <1>1, <1>4, <1>8, <1>9, <1>10, <2>1, DHAnswerIs
  <2> QED
    BY <2>2 DEF RowsRead
<1>11. ASSUME pc = "reconstructed"
       PROVE  DHOutcome(result, db, held, i, j, d, n)
  <2>1. ~UnmarshalFails(DHQuery(n, j, d), n + 1)
    BY <1>2, <1>9, <1>11 DEF Returned
  <2>2. DHOutcome(DHReconstruct(n, n, computeDigests(0, n, db), i, j, d, DHAnswer(DHQuery(n, j, d), held)),
                  db, held, i, j, d, n)
    BY <1>1, <1>3, <1>4, <2>1, DHOutcomeIs
  <2> QED
    BY <1>2, <1>5, <1>6, <1>7, <1>11, <2>2 DEF Returned
<1> QED
  BY <1>6, <1>8, <1>10, <1>11 DEF DHCame, d, i, j

-----------------------------------------------------------------------------
(* A retrieval stays the one that was asked for.                            *)

LEMMA InitTrip ==
  ASSUME Init
  PROVE  TripInv /\ ResultInv
BY DEF Init, TripInv, ResultInv, Ready, UnderWay, Returned

LEMMA CreateTrip ==
  ASSUME CourseInv, Creates
  PROVE  TripInv'
<1>1. /\ pc = "length" /\ next \in 1..Len(lengths) /\ UNCHANGED <<config, next>>
      /\ NewDatabase(Side.rows, Side.columns)
      /\ pc' \in {"retrieve", "digest", "panic"}
  <2>1. pc = "length" /\ next <= Len(lengths) /\ UNCHANGED <<config, next>>
        /\ NewDatabase(Side.rows, Side.columns) /\ pc' \in {"retrieve", "digest", "panic"}
    BY DEF Creates, CreateRandomBinaryLWE, CreateRandomBinaryLWE128, CreateRandomEllipticWithDigest
  <2> QED
    BY <2>1, LengthsType DEF CourseInv
<1>2. Side.rows \in Nat /\ IsDatabase(db', Side.rows) /\ IsDatabase(held', Side.rows)
  BY <1>1, SideIs, NewDatabaseIs
<1>3. db'.rows = Side.rows
  BY <1>2 DEF IsDatabase, IsMatrix
<1>4. primitive' = primitive /\ DBLen' = DBLen
  BY <1>1 DEF config, DBLen
<1>5. pc' = "retrieve" /\ primitive' = "cmp-vpir-lwe" => DBLen' \in DOMAIN tECC
  BY <1>4 DEF Creates, CreateRandomBinaryLWE, CreateRandomBinaryLWE128, CreateRandomEllipticWithDigest
<1> QED
  BY <1>1, <1>2, <1>3, <1>5 DEF TripInv, Ready, UnderWay, Returned

\* The steps between retrievals leave the databases alone.
LEMMA QuietTrip ==
  ASSUME TripInv, UNCHANGED <<config, db, held>>, pc' \notin UnderWay,
         pc' = "retrieve" => next' = next /\ (pc \in Ready \/ primitive # "cmp-vpir-lwe")
  PROVE  TripInv'
<1>1. primitive' = primitive /\ lengths' = lengths /\ db' = db /\ held' = held
  BY DEF config
<1>2. pc' = "retrieve" /\ primitive' = "cmp-vpir-lwe" => DBLen' \in DOMAIN tECC
  BY <1>1 DEF TripInv, DBLen
<1> QED
  BY <1>1, <1>2 DEF TripInv, Ready, UnderWay, Returned

LEMMA AsksTrip ==
  ASSUME DigestInv, TripInv, AmplifyQueryBytes \/ LWE128QueryBytes \/ DHQueryBytes
  PROVE  TripInv'
<1>1. /\ pc = "retrieve" /\ pc' = "asked" /\ UNCHANGED <<config, next, results, base>>
      /\ index' \in 0..(db.rows * db.cols - 1) /\ answer' = <<>>
  BY DEF AmplifyQueryBytes, LWE128QueryBytes, DHQueryBytes, Asks
<1>2. primitive' = primitive /\ DBLen' = DBLen /\ db' = db /\ held' = held
  BY <1>1 DEF config, base, DBLen
<1>3. Reps' = Reps /\ Params' = Params /\ Params128' = Params128
  BY <1>2 DEF Reps, Params, Params128
<1>4. \A i : Row(i)' = Row(i)
  BY <1>2 DEF Row
<1>5. primitive' \in Schemes /\ draw' \in Drawable' /\ query' = QueryMade'
  <2>1. CASE AmplifyQueryBytes
    <3>1. /\ primitive = "cmp-vpir-lwe" /\ draw' \in [1..Reps -> Draws[Reps]]
          /\ query' = AmplifyQuery(Params, Row(index'), draw')
      BY <2>1 DEF AmplifyQueryBytes, Asks
    <3>2. Row(index)' = Row(index')
      BY <1>2 DEF Row
    <3> QED
      BY <1>2, <1>3, <3>1, <3>2 DEF Drawable, QueryMade, Schemes
  <2>2. CASE LWE128QueryBytes
    <3>1. /\ primitive = "cmp-vpir-lwe-128" /\ draw' \in Draws128
          /\ query' = Matrix128ToBytes(LWE128Query(Params128, Row(index'), draw'))
      BY <2>2 DEF LWE128QueryBytes, Asks
    <3>2. Row(index)' = Row(index')
      BY <1>2 DEF Row
    <3> QED
      BY <1>2, <1>3, <3>1, <3>2 DEF Drawable, QueryMade, Schemes
  <2>3. CASE DHQueryBytes
    <3>1. /\ primitive = "cmp-vpir-dh" /\ draw' \in [r : 0..(P - 1), t : 0..(P - 1)]
          /\ query' = DHQuery(db.cols, Column(index'), draw')
      BY <2>3 DEF DHQueryBytes, Asks
    <3>2. Column(index)' = Column(index')
      BY <1>2 DEF Column
    <3> QED
      BY <1>2, <3>1, <3>2 DEF Drawable, QueryMade, Schemes
  <2> QED
    BY <2>1, <2>2, <2>3
<1> QED
  BY <1>1, <1>2, <1>5 DEF TripInv, Ready, UnderWay, Returned

\* A retrieval that goes on is still the one that was asked for.
LEMMA GoesOn ==
  ASSUME UNCHANGED <<config, next, results, base, index, draw, query>>
  PROVE  /\ Drawable' = Drawable /\ QueryMade' = QueryMade
         /\ AnswerMade' = AnswerMade /\ DBLen' = DBLen /\ primitive' = primitive
         /\ db' = db /\ held' = held /\ index' = index /\ draw' = draw /\ query' = query
         /\ (answer' = answer => ResultMade' = ResultMade)
<1>1. /\ primitive' = primitive /\ DBLen' = DBLen /\ db' = db /\ held' = held /\ digest' = digest
      /\ index' = index /\ draw' = draw /\ query' = query
  BY DEF config, base, DBLen
<1>2. Reps' = Reps /\ Params' = Params /\ Params128' = Params128 /\ Row(index)' = Row(index)
      /\ Column(index)' = Column(index)
  BY <1>1 DEF Reps, Params, Params128, Row, Column
<1>4. Drawable' = Drawable
  BY <1>1, <1>2 DEF Drawable
<1>5. QueryMade' = QueryMade
  BY <1>1, <1>2 DEF QueryMade
<1>6. AnswerMade' = AnswerMade
  BY <1>1 DEF AnswerMade
<1>7. answer' = answer => ResultMade' = ResultMade
  BY <1>1, <1>2 DEF ResultMade
<1> QED
  BY <1>1, <1>4, <1>5, <1>6, <1>7

LEMMA AnswersTrip ==
  ASSUME TripInv, AmplifyAnswerBytes \/ LWE128AnswerBytes \/ DHAnswerBytes
  PROVE  TripInv'
<1>1. pc = "asked"
  BY DEF AmplifyAnswerBytes, LWE128AnswerBytes, DHAnswerBytes
<1>2. ASSUME Answers(AnswerMade),
             primitive = "cmp-vpir-dh" => ~UnmarshalFails(query, ElementSize(held.cols))
      PROVE  TripInv'
  <2>1. /\ pc' = "answered" /\ answer' = AnswerMade
        /\ UNCHANGED <<config, next, results, base, index, draw, query>>
    BY <1>2 DEF Answers
  <2> QED
    BY <1>1, <1>2, <2>1, GoesOn DEF TripInv, Ready, UnderWay, Returned
<1>3. CASE AmplifyAnswerBytes \/ LWE128AnswerBytes
  <2>1. Answers(AnswerMade) /\ primitive # "cmp-vpir-dh"
    BY <1>3 DEF AmplifyAnswerBytes, LWE128AnswerBytes, AnswerMade
  <2> QED
    BY <1>2, <2>1
<1>4. CASE DHAnswerBytes
  <2>1. CASE UnmarshalFails(query, ElementSize(held.cols))
    <3>1. pc' = "fatal" /\ UNCHANGED <<config, db, held>>
      BY <1>4, <2>1 DEF DHAnswerBytes, base
    <3> QED
      BY <3>1, QuietTrip DEF UnderWay
  <2>2. CASE ~UnmarshalFails(query, ElementSize(held.cols))
    <3>1. Answers(AnswerMade)
      BY <1>4, <2>2 DEF DHAnswerBytes, AnswerMade
    <3> QED
      BY <1>2, <2>2, <3>1
  <2> QED
    BY <2>1, <2>2
<1> QED
  BY <1>3, <1>4

LEMMA ReconstructsTrip ==
  ASSUME TripInv, AmplifyReconstructBytes \/ LWE128ReconstructBytes \/ DHReconstructBytes
  PROVE  TripInv'
<1>1. /\ pc = "answered" /\ pc' = "reconstructed"
      /\ UNCHANGED <<config, next, results, base, index, draw, query>> /\ answer' = answer
  BY DEF AmplifyReconstructBytes, LWE128ReconstructBytes, DHReconstructBytes, Reconstructs
<1>2. result' = ResultMade
  BY DEF AmplifyReconstructBytes, LWE128ReconstructBytes, DHReconstructBytes, Reconstructs, ResultMade
<1> QED
  BY <1>1, <1>2, GoesOn DEF TripInv, Ready, UnderWay, Returned

LEMMA NextTrip ==
  ASSUME CourseInv, DigestInv, TripInv, [Next]_vars
  PROVE  TripInv'
<1>1. CASE Creates
  BY <1>1, CreateTrip
<1>2. CASE \/ Configure \/ SkipLength \/ NextLength \/ Finish \/ CollectDigests \/ StoreResults
           \/ RandomMerkleDB
           \/ \E j \in DOMAIN replies : ComputeDigests(j) \/ RoutinePanics(j)
  <2>1. UNCHANGED <<config, db, held>> /\ pc' \notin UnderWay
    BY <1>2 DEF Configure, SkipLength, NextLength, Finish, CollectDigests, StoreResults, ComputeDigests,
      RandomMerkleDB, RoutinePanics, base, UnderWay
  <2>2. pc' = "retrieve" => next' = next /\ (pc \in Ready \/ pc = "digest")
    BY <1>2 DEF Configure, SkipLength, NextLength, Finish, CollectDigests, StoreResults, ComputeDigests,
      RandomMerkleDB, RoutinePanics, Ready, UnderWay
  <2>3. pc = "digest" => primitive # "cmp-vpir-lwe"
    BY DEF DigestInv
  <2> QED
    BY <2>1, <2>2, <2>3, QuietTrip
<1>3. CASE AmplifyQueryBytes \/ LWE128QueryBytes \/ DHQueryBytes
  BY <1>3, AsksTrip
<1>4. CASE AmplifyAnswerBytes \/ LWE128AnswerBytes \/ DHAnswerBytes
  BY <1>4, AnswersTrip
<1>5. CASE AmplifyReconstructBytes \/ LWE128ReconstructBytes \/ DHReconstructBytes
  BY <1>5, ReconstructsTrip
<1>6. CASE UNCHANGED vars
  <2>1. UNCHANGED <<config, next, results, base, index, draw, query>> /\ pc' = pc /\ answer' = answer
        /\ result' = result
    BY <1>6 DEF vars, trip
  <2> QED
    BY <2>1, GoesOn DEF TripInv
<1> QED
  BY <1>1, <1>2, <1>3, <1>4, <1>5, <1>6 DEF Next, Step, Retrieval, Creates, Terminated

TripInvs == CourseInv /\ ReplyInv /\ DigestInv /\ TripInv

LEMMA TripInvariant == Spec => []TripInvs
<1>1. Init => TripInv
  BY InitTrip
<1>2. CourseInv /\ DigestInv /\ TripInv /\ [Next]_vars => TripInv'
  BY NextTrip
<1>3. TripInvs <=> CourseInv /\ ReplyInv /\ DigestInv /\ TripInv
  BY DEF TripInvs
<1> QED
  BY <1>1, <1>2, <1>3, DigestInvariant, PTL DEF Spec

\* A reconstruction returns a bit or one of its errors.
Came == pc = "reconstructed" => result \in Results

LEMMA ItCame ==
  ASSUME TripInvs
  PROVE  Came
<1> SUFFICES ASSUME pc = "reconstructed"
             PROVE  result \in Results
  BY DEF Came
<1> DEFINE n == db.rows
<1>1. Settled(n) /\ DigestInv /\ TripInv /\ pc \in UnderWay
  BY SettledIs DEF TripInvs, Ready, UnderWay
<1> HIDE DEF n
<1>2. primitive \in {"cmp-vpir-dh", "cmp-vpir-lwe", "cmp-vpir-lwe-128"}
  BY <1>1 DEF TripInv, Schemes
<1>3. CASE primitive = "cmp-vpir-dh"
  <2>1. DHCame(n)
    BY <1>1, <1>3, DHComes
  <2> QED
    BY <2>1 DEF DHCame, DHOutcome, Results
<1>4. CASE primitive = "cmp-vpir-lwe-128"
  <2>1. LWE128Came(n)
    BY <1>1, <1>4, LWE128Comes
  <2> QED
    BY <2>1 DEF LWE128Came, Results
<1>5. CASE primitive = "cmp-vpir-lwe"
  <2> DEFINE R == Reps
             w == Words(Params, digest, Column(index), draw, answer, R)
  <2>1. LWECame(n)
    BY <1>1, <1>5, LWEComes
  <2>2. /\ tECC[DBLen] \in Nat /\ R = 2 * tECC[DBLen] + 1
        /\ \A k \in 1..R : w[k] \in {0, 1, Reject}
        /\ result = IF \E k \in 1..R : w[k] = Reject THEN Reject ELSE Decode(w)
    BY <2>1 DEF LWECame, Votes, Returned
  <2>3. IsVector(w, R)
    BY DEF Words, IsVector
  <2> HIDE DEF w, R
  <2>4. Decode(w) \in {w[1], Undecoded}
    <3> DEFINE t == tECC[DBLen]
    <3> HIDE DEF t
    <3>1. t \in Nat /\ R = 2 * t + 1
      BY <2>2 DEF t
    <3> QED
      BY <2>3, <3>1, DecodeIs
  <2>5. 1 \in 1..R
    BY <2>2
  <2> QED
    BY <2>2, <2>4, <2>5 DEF Results
<1> QED
  BY <1>2, <1>3, <1>4, <1>5

LEMMA NextResult ==
  ASSUME ResultInv, [Next]_vars, Came'
  PROVE  ResultInv'
<1>1. result' = result \/ result' = None \/ pc' = "reconstructed"
  <2>1. CASE Step
    BY <2>1 DEF Step, Retrieval, Configure, SkipLength, NextLength, Finish, RandomMerkleDB, CreateRandomBinaryLWE,
      CreateRandomBinaryLWE128, CreateRandomEllipticWithDigest, CollectDigests, ComputeDigests, RoutinePanics,
      AmplifyQueryBytes, LWE128QueryBytes, DHQueryBytes, Asks, AmplifyAnswerBytes, LWE128AnswerBytes,
      DHAnswerBytes, Answers, AmplifyReconstructBytes, LWE128ReconstructBytes, DHReconstructBytes,
      Reconstructs, StoreResults, trip
  <2>2. CASE UNCHANGED vars
    BY <2>2 DEF vars, trip
  <2> QED
    BY <2>1, <2>2 DEF Next, Terminated
<1> QED
  BY <1>1 DEF ResultInv, Came

LEMMA ResultInvariant == Spec => [](TripInvs /\ ResultInv)
<1>1. Init => ResultInv
  BY InitTrip
<1>2. TripInvs => Came
  BY ItCame
<1>3. ResultInv /\ [Next]_vars /\ Came' => ResultInv'
  BY NextResult
<1> QED
  BY <1>1, <1>2, <1>3, TripInvariant, PTL DEF Spec

-----------------------------------------------------------------------------
(* What honest answers and deviations come to.                              *)

LEMMA JudgedIs ==
  ASSUME TripInvs, pc \in UnderWay
  PROVE  /\ Settled(db.rows) /\ DigestInv /\ TripInv /\ Placed(db.rows, index)
         /\ primitive \in {"cmp-vpir-dh", "cmp-vpir-lwe", "cmp-vpir-lwe-128"}
<1>1. Settled(db.rows) /\ DigestInv /\ TripInv
  BY SettledIs DEF TripInvs, Ready
<1>2. index \in 0..(db.rows * db.cols - 1) /\ primitive \in Schemes
  BY <1>1 DEF TripInv
<1> QED
  BY <1>1, <1>2, PlacedIs DEF Schemes

\* What an honest retrieval comes to.
Honest(r, stored) ==
  /\ r = Reject => primitive \in LWEBased /\ \E k \in DOMAIN Repetition : ~Typical(Repetition[k])
  /\ r = Undecoded => 1 \in Unclear \/ MostlyUnclear
  /\ r = Invalid => primitive = "cmp-vpir-dh" /\ \E i \in 0..(db.rows - 1) : ZeroRow(i)
  /\ r \in {0, 1} /\ r # stored => \/ primitive = "cmp-vpir-dh" /\ r = 0 /\ draw.t = 0
                                   \/ primitive \in LWEBased /\ MostlyUnclear

LEMMA Distinct == /\ 0 # Reject /\ 1 # Reject /\ Undecoded # Reject /\ Invalid # Reject
                  /\ 0 # Undecoded /\ 1 # Undecoded /\ Invalid # Undecoded
                  /\ 0 # Invalid /\ 1 # Invalid
BY SimulationAssumption

LEMMA HonestLWE ==
  ASSUME TripInvs, Judged, primitive = "cmp-vpir-lwe"
  PROVE  Honest(result, Stored)
<1> DEFINE n == db.rows
           R == Reps
           t == tECC[DBLen]
           w == Words(Params, digest, Column(index), draw, answer, R)
           stored == Get(db, Row(index), Column(index))
<1>1. Settled(n) /\ DigestInv /\ TripInv /\ Placed(n, index) /\ pc = "reconstructed" /\ held = db
  BY JudgedIs DEF Judged, UnderWay
<1>2. LWECame(n)
  BY <1>1, LWEComes DEF UnderWay
<1>3. t \in Nat /\ R = 2 * t + 1 /\ DOMAIN draw = 1..R
  BY <1>2 DEF LWECame, AreDraws
<1>4. result = IF \E k \in 1..R : w[k] = Reject THEN Reject ELSE Decode(w)
  BY <1>1, <1>2 DEF LWECame
<1>5. \A k \in 1..R : /\ w[k] \in {0, 1, Reject}
                      /\ Typical(draw[k]) => Reads(w[k], stored, draw[k].t, 2 * Params.B)
  BY <1>1, <1>2 DEF LWECame, Votes, Outcome, Returned, Typical, TypicalDraw
<1>6. IsVector(w, R)
  BY DEF Words, IsVector
<1>7. stored \in {0, 1} /\ Stored = stored
  BY <1>1 DEF Placed, Stored
<1>8. /\ Unclear = {k \in 1..R : \/ ~Typical(draw[k])
                                 \/ stored = 1 /\ Distance(draw[k].t) <= 2 * Params.B}
      /\ Repetition = draw /\ Len(Repetition) = R
  <2>1. Repetition = draw /\ DOMAIN draw = 1..R
    BY <1>3 DEF Repetition
  <2>2. draw = [k \in 1..R |-> draw[k]]
    <3>1. draw \in [1..R -> Draws[R]]
      BY <1>1 DEF TripInv, Drawable, UnderWay
    <3> QED
      BY <3>1
  <2>3. Len(draw) = R
    <3> DEFINE S == {draw[k] : k \in 1..R}
               d == draw
    <3> HIDE DEF R, d
    <3>1. d \in [1..R -> S] /\ R \in Nat
      BY <1>3, <2>2 DEF d
    <3> HIDE DEF S
    <3>2. Len(d) = R
      BY ONLY <3>1, WholeSeq
    <3> QED
      BY <3>2 DEF d
  <2> QED
    BY <1>7, <2>1, <2>3 DEF Unclear, Ambiguous
<1> HIDE DEF w, R, t, stored
<1>9. ASSUME NEW k \in 1..R, w[k] # Reject
      PROVE  w[k] \in {0, 1} /\ (w[k] # stored => k \in Unclear)
  BY <1>5, <1>7, <1>8, <1>9 DEF Reads
<1>10. Unclear \in SUBSET (1..R)
  BY <1>8
<1>11. MostlyUnclear <=> 2 * Cardinality(Unclear) > R
  BY <1>8 DEF MostlyUnclear
<1>12. CASE \E k \in 1..R : w[k] = Reject
  <2>1. result = Reject /\ \E k \in 1..R : ~Typical(draw[k])
    BY <1>4, <1>5, <1>12 DEF Reads
  <2> QED
    BY <1>3, <1>8, <2>1, Distinct DEF Honest, LWEBased
<1>13. CASE \A k \in 1..R : w[k] # Reject
  <2>1. DecodesTo(Decode(w), stored, Unclear, R)
    BY <1>3, <1>6, <1>7, <1>9, <1>10, <1>13, DecodesHonest
  <2>2. result = Decode(w)
    BY <1>4, <1>13
  <2> QED
    BY <1>7, <1>11, <2>1, <2>2, Distinct DEF DecodesTo, Honest, LWEBased
<1> QED
  BY <1>12, <1>13

LEMMA HonestLWE128 ==
  ASSUME TripInvs, Judged, primitive = "cmp-vpir-lwe-128"
  PROVE  Honest(result, Stored)
<1> DEFINE n == db.rows
           stored == Get(db, Row(index), Column(index))
<1>1. Settled(n) /\ DigestInv /\ TripInv /\ Placed(n, index) /\ pc = "reconstructed" /\ held = db
  BY JudgedIs DEF Judged, UnderWay
<1>2. LWE128Came(n)
  BY <1>1, LWE128Comes DEF UnderWay
<1>3. /\ result \in {0, 1, Reject}
      /\ Typical(draw) => Reads(result, stored, draw.t, 2 * Params.B)
      /\ Stored = stored /\ stored \in {0, 1}
  BY <1>1, <1>2 DEF LWE128Came, Outcome, Placed, Stored, Typical, TypicalDraw
<1>4. Repetition = <<draw>> /\ Len(Repetition) = 1 /\ DOMAIN Repetition = {1} /\ Repetition[1] = draw
  BY DEF Repetition
<1>5. ~Typical(draw) \/ (stored = 1 /\ Distance(draw.t) <= 2 * Params.B) => MostlyUnclear
  <2> SUFFICES ASSUME ~Typical(draw) \/ (stored = 1 /\ Distance(draw.t) <= 2 * Params.B)
               PROVE  MostlyUnclear
    OBVIOUS
  <2>1. Unclear = {1}
    BY <1>3, <1>4 DEF Unclear, Ambiguous
  <2>2. Cardinality({1}) = 1
    BY FS_Singleton
  <2> QED
    BY <1>4, <2>1, <2>2 DEF MostlyUnclear
<1> HIDE DEF stored
<1>6. result = Reject => \E k \in DOMAIN Repetition : ~Typical(Repetition[k])
  BY <1>3, <1>4 DEF Reads
<1>7. result \in {0, 1} /\ result # stored => MostlyUnclear
  BY <1>3, <1>5 DEF Reads
<1> QED
  BY <1>3, <1>6, <1>7, Distinct DEF Honest, LWEBased

LEMMA HonestDH ==
  ASSUME TripInvs, Judged, primitive = "cmp-vpir-dh"
  PROVE  Honest(result, Stored)
<1> DEFINE n == db.rows
<1>1. Settled(n) /\ DigestInv /\ TripInv /\ Placed(n, index) /\ pc = "reconstructed" /\ held = db
  BY JudgedIs DEF Judged, UnderWay
<1>2. DHCame(n)
  BY <1>1, DHComes DEF UnderWay
<1>3. DHOutcome(result, db, held, Row(index), Column(index), draw, n)
      /\ Stored = Get(db, Row(index), Column(index)) /\ db.cols = n
  BY <1>1, <1>2 DEF DHCame, Placed, Stored, Settled
<1>4. result = Invalid => \E i \in 0..(n - 1) : ZeroRow(i)
  BY <1>1, <1>3 DEF DHOutcome, ZeroIn, ZeroRow
<1> QED
  BY <1>1, <1>3, <1>4, Distinct DEF DHOutcome, Honest

LEMMA HonestIs ==
  ASSUME TripInvs, Judged
  PROVE  Honest(result, Stored)
BY JudgedIs, HonestLWE, HonestLWE128, HonestDH DEF Judged, UnderWay

\* HonestIsAccepted of Simulation: for every lattice dimension, modulus,
\* database and draw, typical samples never make a client reject a server that
\* answers from the database of the digest, the decoding fails only if the
\* first repetition or most of them are unclear, and an encoding cannot be
\* read only if a row has no bit.  Nothing is assumed of the samples.
THEOREM HonestServersAreAccepted == Spec => []HonestIsAccepted
<1>1. TripInvs => HonestIsAccepted
  BY HonestIs DEF HonestIsAccepted, Honest
<1> QED
  BY <1>1, TripInvariant, PTL

\* HonestIsStored of Simulation: what a client reconstructs from an honest
\* answer is the bit stored at the index it asked for, but for a zero blind in
\* the group, and for draws most of which have samples beyond the bound or,
\* for a stored 1, a blind within noise of zero.
THEOREM HonestBitsAreStored == Spec => []HonestIsStored
<1>1. TripInvs => HonestIsStored
  BY HonestIs DEF HonestIsStored, Honest
<1> QED
  BY <1>1, TripInvariant, PTL

LEMMA OffType ==
  ASSUME NEW n \in Nat, NEW w, NEW q, IsRow(q, w, n), NEW b, IsDatabase(b, n), NEW h, IsDatabase(h, n),
         NEW c \in 0..(n - 1)
  PROVE  Off(q, b, h, c) \in Int
<1> DEFINE f == q.data
<1>1. q = Filled(1, n, w, f) /\ f \in [1..n -> Word]
  BY DEF IsRow
<1> HIDE DEF f
<1>2. ASSUME NEW m, IsDatabase(m, n)
      PROVE  Get(BinaryMul(q, m), 0, c) \in Int
  <2>1. PICK e : BinaryMul(Filled(1, n, w, f), m) = Filled(1, n, 4, e) /\ IsAnswer(e, f, m, n)
    BY <1>1, <1>2, AnswerIs
  <2>2. e \in [1..n -> Word]
    BY <2>1 DEF IsAnswer
  <2>3. Get(Filled(1, n, 4, e), 0, c) \in Int
    BY <2>2, EntryIs
  <2> QED
    BY <1>1, <2>1, <2>3
<1>3. Get(BinaryMul(q, b), 0, c) \in Int /\ Get(BinaryMul(q, h), 0, c) \in Int
  BY <1>2
<1> QED
  BY <1>3 DEF Off

\* Less than the model allows an accepted answer to be off.
LEMMA UndetectableIs ==
  ASSUME NEW q, NEW t \in Int, NEW c, Params.B \in Int, Off(q, db, held, c) \in Int,
         Deviates(Off(q, db, held, c), t, 2 * Params.B)
  PROVE  Undetectable(q, t, c)
<1> DEFINE off == Off(q, db, held, c)
<1>1. PICK shift \in {0, t, -t} : Distance(off + shift) <= 2 * Params.B
  BY DEF Deviates
<1>2. Deviation(q, c) = off
  BY DEF Deviation, Off
<1> DEFINE x == off + shift
<1>3. x \in Int /\ -x \in Int
  OBVIOUS
<1> HIDE DEF off, x
<1>4. Distance(x) \in Int
  <2>1. x % Q \in Word /\ (-x) % Q \in Word
    BY <1>3, Reduced
  <2> QED
    BY <2>1, MatrixAssumption DEF Distance, Least, Word
<1>5. Distance(x) <= 2 * Params.B + 1
  BY <1>1, <1>4 DEF x
<1> QED
  BY <1>2, <1>5 DEF Undetectable, x

LEMMA BoundType ==
  ASSUME NEW n, Settled(n), n > 0
  PROVE  Params.B \in Int
BY SingleServerAssumption DEF Settled, ParamsWithDatabaseSize, computeB

LEMMA CaughtLWE128 ==
  ASSUME TripInvs, pc = "reconstructed", result # Reject, primitive = "cmp-vpir-lwe-128", Typical(draw)
  PROVE  \A c \in 0..(db.cols - 1) : Undetectable(BytesToMatrix128(query), draw.t, c)
<1> DEFINE n == db.rows
           q == BytesToMatrix128(query)
<1>1. Settled(n) /\ DigestInv /\ TripInv /\ Placed(n, index)
  BY JudgedIs DEF UnderWay
<1>2. IsRow(q, 16, n) /\ \A c \in 0..(n - 1) : Deviates(Off(q, db, held, c), draw.t, 2 * Params.B)
  <2>1. LWE128Came(n)
    BY <1>1, LWE128Comes DEF UnderWay
  <2> QED
    BY <2>1 DEF LWE128Came, Outcome, Typical, TypicalDraw
<1>3. db.cols = n /\ n \in Nat /\ IsDatabase(db, n) /\ IsDatabase(held, n)
  BY <1>1 DEF Settled
<1>4. draw.t \in Int
  <2>1. IsDraw(draw, n)
    BY <1>1 DEF Settled, TripInv, Drawable, UnderWay
  <2> QED
    BY <2>1, MatrixAssumption DEF IsDraw, Word
<1>5. Params.B \in Int
  BY <1>1, BoundType DEF Placed
<1> SUFFICES ASSUME NEW c \in 0..(n - 1)
             PROVE  Undetectable(q, draw.t, c)
  BY <1>3
<1> HIDE DEF q, n
<1>6. Off(q, db, held, c) \in Int
  BY <1>2, <1>3, OffType
<1> QED
  BY <1>2, <1>4, <1>5, <1>6, UndetectableIs

LEMMA CaughtLWE ==
  ASSUME TripInvs, pc = "reconstructed", result # Reject, primitive = "cmp-vpir-lwe"
  PROVE  \A c \in 0..(db.cols - 1), k \in 1..Reps :
           Typical(draw[k]) => Undetectable(BytesToMatrices(query)[k], draw[k].t, c)
<1> DEFINE n == db.rows
           R == Reps
<1>1. Settled(n) /\ DigestInv /\ TripInv /\ Placed(n, index)
  BY JudgedIs DEF UnderWay
<1>2. LWECame(n)
  BY <1>1, LWEComes DEF UnderWay
<1>3. db.cols = n /\ n \in Nat /\ IsDatabase(db, n) /\ IsDatabase(held, n)
  BY <1>1 DEF Settled
<1>4. Params.B \in Int
  BY <1>1, BoundType DEF Placed
<1> SUFFICES ASSUME NEW c \in 0..(n - 1), NEW k \in 1..R, Typical(draw[k])
             PROVE  Undetectable(BytesToMatrices(query)[k], draw[k].t, c)
  BY <1>3
<1>0. TypicalDraw(draw[k], n)
  BY DEF Typical, TypicalDraw
<1> DEFINE q == BytesToMatrices(query)[k]
           u == LWEQuery(Params, Row(index), draw[k])
           w == Words(Params, digest, Column(index), draw, answer, R)
<1>5. q = u /\ IsRow(q, 4, n)
  BY <1>2 DEF LWECame, CarriesQueries
<1>6. Outcome(w[k], u, db, held, Row(index), Column(index), draw[k].t, n, 2 * Params.B) /\ w[k] # Reject
  <2>1. pc \in Returned
    BY DEF Returned
  <2>2. Votes(w, Params, db, held, Row(index), Column(index), draw, R, n)
    BY <1>2, <2>1 DEF LWECame
  <2>3. w[k] # Reject
    BY <1>2 DEF LWECame
  <2> QED
    BY <1>0, <2>2, <2>3 DEF Votes
<1>7. Deviates(Off(u, db, held, c), draw[k].t, 2 * Params.B)
  BY <1>6 DEF Outcome
<1>8. draw[k].t \in Int
  <2>1. IsDraw(draw[k], n)
    BY <1>2 DEF LWECame, AreDraws
  <2> QED
    BY <2>1, MatrixAssumption DEF IsDraw, Word
<1> HIDE DEF q, u, w, n
<1>9. Off(q, db, held, c) \in Int
  BY <1>3, <1>5, OffType
<1>10. Undetectable(q, draw[k].t, c)
  BY <1>4, <1>5, <1>7, <1>8, <1>9, UndetectableIs
<1> QED
  BY <1>10 DEF q

LEMMA CaughtDH ==
  ASSUME TripInvs, pc = "reconstructed", result \notin {Reject, Invalid}, primitive = "cmp-vpir-dh"
  PROVE  \A r \in 0..(db.rows - 1) : SameRow(r)
<1> DEFINE n == db.rows
<1>1. Settled(n) /\ DigestInv /\ TripInv
  BY JudgedIs DEF UnderWay
<1>2. DHCame(n)
  BY <1>1, DHComes DEF UnderWay
<1>3. DHOutcome(result, db, held, Row(index), Column(index), draw, n) /\ db.cols = n
  BY <1>1, <1>2 DEF DHCame, Settled
<1> QED
  BY <1>3 DEF DHOutcome, SameDatabase, SameRow

\* DeviationIsCaught of Simulation: whatever bits the server's database and the
\* one of the digest hold, an accepted answer to a query with typical samples
\* is off by noise or by the blind in every column; in the group, the two
\* databases are the same.
THEOREM DeviationsAreCaught == Spec => []DeviationIsCaught
<1>1. TripInvs => DeviationIsCaught
  <2> SUFFICES ASSUME TripInvs, pc = "reconstructed", result \notin {Reject, Invalid}
               PROVE  DeviationIsCaught
    BY DEF DeviationIsCaught
  <2>1. primitive \in {"cmp-vpir-dh", "cmp-vpir-lwe", "cmp-vpir-lwe-128"}
    BY JudgedIs DEF UnderWay
  <2>2. CASE primitive = "cmp-vpir-dh"
    BY <2>2, CaughtDH DEF DeviationIsCaught
  <2>3. CASE primitive = "cmp-vpir-lwe"
    BY <2>3, CaughtLWE DEF DeviationIsCaught
  <2>4. CASE primitive = "cmp-vpir-lwe-128"
    BY <2>4, CaughtLWE128 DEF DeviationIsCaught
  <2> QED
    BY <2>1, <2>2, <2>3, <2>4
<1> QED
  BY <1>1, TripInvariant, PTL
-----------------------------------------------------------------------------
(* Types.                                                                   *)

LEMMA RowType ==
  ASSUME NEW n, NEW w, NEW m, IsRow(m, w, n)
  PROVE  m.rows = 1 /\ m.cols = n /\ HoldsWords(m)
<1> DEFINE f == m.data
<1>1. m = Filled(1, n, w, f) /\ f \in [1..n -> Word]
  BY DEF IsRow
<1>2. \A x \in DOMAIN f : f[x] \in Word
  BY <1>1
<1>3. HoldsWords(m)
  BY <1>2 DEF HoldsWords
<1> HIDE DEF f
<1> QED
  BY <1>1, <1>3 DEF Filled

LEMMA DigestType ==
  ASSUME TripInvs, pc = "retrieve", primitive \in LWEBased
  PROVE  digest.rows = N /\ digest.cols = db.cols /\ HoldsWords(digest)
<1> DEFINE n == db.rows
<1>1. Settled(n)
  BY SettledIs DEF TripInvs, Ready
<1>2. n \in Nat /\ Len(SeedStream) >= N * n /\ IsDatabase(db, n) /\ db.cols = n
  BY <1>1 DEF Settled
<1>3. digest = Digest(db, n) \/ digest = Digest128(db, n)
  BY DEF TripInvs, DigestInv, Ready, LWEBased
<1>4. IsDigest(digest, db, n)
  BY <1>2, <1>3, DigestIs
<1> QED
  BY <1>2, <1>4 DEF IsDigest, IsMatrix, HoldsWords

LEMMA RetrievalType ==
  ASSUME TripInvs, pc \in {"asked", "answered"}
  PROVE  /\ pc = "asked" /\ primitive = "cmp-vpir-lwe-128" =>
              LET m == BytesToMatrix128(query) IN Conform(m, held) /\ HoldsWords(m)
         /\ pc = "answered" /\ primitive = "cmp-vpir-lwe-128" =>
              LET m == BytesToMatrix128(answer) IN m.cols = db.cols /\ HoldsWords(m)
         /\ pc = "asked" /\ primitive = "cmp-vpir-lwe" =>
              \A k \in 1..Reps : LET m == BytesToMatrices(query)[k] IN Conform(m, held) /\ HoldsWords(m)
         /\ pc = "answered" /\ primitive = "cmp-vpir-lwe" =>
              \A k \in 1..Reps : LET m == BytesToMatrices(answer)[k] IN m.cols = db.cols /\ HoldsWords(m)
         /\ primitive = "cmp-vpir-dh" => /\ \A x \in DOMAIN query : query[x] \in 0..(P - 1)
                                         /\ \A x \in DOMAIN answer : answer[x] \in 0..(P - 1)
<1> DEFINE n == db.rows
<1>1. Settled(n) /\ DigestInv /\ TripInv /\ pc \in UnderWay
  BY JudgedIs DEF UnderWay
<1>2. db.cols = n /\ held.rows = n
  BY <1>1 DEF Settled, IsDatabase, IsMatrix
<1> HIDE DEF n
<1>3. CASE primitive = "cmp-vpir-lwe-128"
  <2>1. LWE128Came(n)
    BY <1>1, <1>3, LWE128Comes
  <2> QED
    BY <1>2, <1>3, <2>1, RowType DEF LWE128Came, Returned, Conform
<1>4. CASE primitive = "cmp-vpir-lwe"
  <2>1. LWECame(n)
    BY <1>1, <1>4, LWEComes
  <2>2. ASSUME NEW k \in 1..Reps
        PROVE  LET m == BytesToMatrices(query)[k] IN m.cols = n /\ HoldsWords(m)
    <3>1. IsRow(BytesToMatrices(query)[k], 4, n)
      BY <2>1 DEF LWECame, CarriesQueries
    <3> QED
      BY <3>1, RowType
  <2>3. ASSUME NEW k \in 1..Reps, pc = "answered"
        PROVE  LET m == BytesToMatrices(answer)[k] IN m.cols = n /\ HoldsWords(m)
    <3>1. IsRow(BytesToMatrices(answer)[k], 4, n)
      BY <2>1, <2>3 DEF LWECame, CarriesAnswers, Returned
    <3> QED
      BY <3>1, RowType
  <2>4. \A k \in 1..Reps : LET m == BytesToMatrices(query)[k] IN Conform(m, held) /\ HoldsWords(m)
    BY <1>2, <2>2 DEF Conform
  <2>5. pc = "answered" =>
          \A k \in 1..Reps : LET m == BytesToMatrices(answer)[k] IN m.cols = db.cols /\ HoldsWords(m)
    BY <1>2, <2>3
  <2> QED
    BY <1>4, <2>4, <2>5
<1>5. CASE primitive = "cmp-vpir-dh"
  <2>1. DHCame(n)
    BY <1>1, <1>5, DHComes
  <2>2. query \in Seq(Exponent) /\ (answer = <<>> \/ answer \in Seq(Exponent))
    BY <1>1, <2>1 DEF DHCame, TripInv, Returned
  <2>3. \A x \in DOMAIN query : query[x] \in Exponent
    BY <2>2
  <2>4. \A x \in DOMAIN answer : answer[x] \in Exponent
    BY <2>2
  <2> QED
    BY ONLY <1>5, <2>3, <2>4 DEF Exponent
<1> QED
  BY <1>3, <1>4, <1>5

\* TypeOK of Simulation: for any moduli, dimensions and lengths, words are
\* reduced, matrices conform to each other on both sides of the wire, and no
\* length has more results than repetitions.
THEOREM SimulationTypes == Spec => []TypeOK
<1>1. TripInvs /\ ResultInv => TypeOK
  <2> SUFFICES ASSUME TripInvs, ResultInv
               PROVE  TypeOK
    OBVIOUS
  <2>1. pc \in {"config", "length", "digest", "retrieve", "asked", "answered", "reconstructed"} \cup Ended
        /\ next \in 1..(Len(lengths) + 1)
        /\ \A n \in DOMAIN results : results[n] \in 0..Repeats
    BY DEF TripInvs, CourseInv, Busy, UnderWay
  <2>2. db # None => /\ db.rows = db.cols
                     /\ Len(db.data) = db.rows * db.cols
                     /\ DOMAIN held.data = DOMAIN db.data
    <3> SUFFICES ASSUME db # None
                 PROVE  db.rows = db.cols /\ Len(db.data) = db.rows * db.cols /\ DOMAIN held.data = DOMAIN db.data
      OBVIOUS
    <3> DEFINE n == db.rows
               size == n * n
               f == db.data
    <3>1. n \in Nat /\ db.cols = n /\ f \in [1..size -> Bits] /\ held.data \in [1..size -> Bits]
      BY DEF TripInvs, TripInv, IsDatabase, IsMatrix
    <3>2. size \in Nat
      BY <3>1
    <3> HIDE DEF n, size, f
    <3>3. Len(f) = size
      BY ONLY <3>1, <3>2, WholeSeq
    <3> QED
      BY <3>1, <3>3 DEF n, size, f
  <2>3. result \in {None, 0, 1, Reject, Undecoded, Invalid}
    BY DEF ResultInv, Results
  <2> QED
    BY <2>1, <2>2, <2>3, DigestType, RetrievalType DEF TypeOK
<1> QED
  BY <1>1, ResultInvariant, PTL
=============================================================================
