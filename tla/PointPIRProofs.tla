--------------------------- MODULE PointPIRProofs ---------------------------
(***************************************************************************)
(* What a retrieval of one key does, for any key files, deployments and    *)
(* restarts.  Bytes are added by symmetric difference: an atom is in a sum *)
(* if it is in an odd number of the summands.  The column that the client  *)
(* wants is the only one that an odd number of the servers is asked for    *)
(* (QueryAsks); counting the pairs of a server and a column by rows and by *)
(* columns (OddExchange) shows that the servers' answers add up to the     *)
(* wanted entry (SharesCancel, HonestSum).  The entry is undone to the     *)
(* bucket it was made of (UnPadded), and the bucket is a ring with every   *)
(* key that hashes there (TableRings, RingLookup).                         *)
(*                                                                         *)
(* When the servers have different files the sum may be anything, but what *)
(* it holds of proofs was made by a server (SumProofs), so that a proof    *)
(* that verifies gives one of the blocks of the root (VerifiedBlock).      *)
(***************************************************************************)
EXTENDS PointPIR, DataTheorems, SequenceTheorems

-----------------------------------------------------------------------------
(* Parity: XOR counts how often an atom occurs, modulo two.                 *)

LEMMA OddEmpty == ~Odd({})
<1>1. Cardinality({}) = 0
  BY FS_EmptySet
<1> QED
  BY <1>1 DEF Odd

LEMMA OddGrows ==
  ASSUME NEW S, IsFiniteSet(S), NEW x, x \notin S
  PROVE  Odd(S \cup {x}) <=> ~Odd(S)
<1>1. Cardinality(S) \in Nat /\ Cardinality(S \cup {x}) = Cardinality(S) + 1
  BY FS_AddElement, FS_CardinalityType
<1>2. ASSUME NEW n \in Nat
      PROVE  ((n + 1) % 2 = 1) <=> ~((n % 2) = 1)
  OBVIOUS
<1> QED
  BY <1>1, <1>2 DEF Odd

LEMMA OddShrinks ==
  ASSUME NEW S, IsFiniteSet(S), NEW x \in S
  PROVE  Odd(S \ {x}) <=> ~Odd(S)
<1>1. IsFiniteSet(S \ {x}) /\ x \notin S \ {x} /\ (S \ {x}) \cup {x} = S
  BY FS_RemoveElement
<1>2. Odd((S \ {x}) \cup {x}) <=> ~Odd(S \ {x})
  BY <1>1, OddGrows
<1> QED
  BY <1>1, <1>2

LEMMA OddUnion ==
  ASSUME NEW S, NEW T, IsFiniteSet(S), IsFiniteSet(T), S \cap T = {}
  PROVE  Odd(S \cup T) <=> ~(Odd(S) <=> Odd(T))
<1>1. /\ Cardinality(S) \in Nat /\ Cardinality(T) \in Nat
      /\ Cardinality(S \cup T) = Cardinality(S) + Cardinality(T) - Cardinality(S \cap T)
  BY FS_Union, FS_CardinalityType
<1>2. Cardinality(S \cap T) = 0
  BY FS_EmptySet
<1>3. ASSUME NEW m \in Nat, NEW n \in Nat
      PROVE  ((m + n - 0) % 2 = 1) <=> ~(((m % 2) = 1) <=> ((n % 2) = 1))
  OBVIOUS
<1> QED
  BY <1>1, <1>2, <1>3 DEF Odd

LEMMA OddBijection ==
  ASSUME NEW S, NEW T, IsFiniteSet(S), NEW f \in Bijection(S, T)
  PROVE  IsFiniteSet(T) /\ (Odd(T) <=> Odd(S))
<1>1. IsFiniteSet(T) /\ Cardinality(T) = Cardinality(S)
  BY FS_Bijection DEF ExistsBijection
<1> QED
  BY <1>1 DEF Odd

\* A relation has an odd number of pairs if and only if an odd number of rows
\* have an odd number of pairs.
Row(R, k) == {r \in R : r[1] = k}

LEMMA OddRows ==
  ASSUME NEW K, IsFiniteSet(K), NEW R, IsFiniteSet(R), \A r \in R : r[1] \in K
  PROVE  Odd(R) <=> Odd({k \in K : Odd(Row(R, k))})
<1> DEFINE Part(s) == {r \in R : r[1] \in s}
           rows(s) == {k \in s : Odd(Row(R, k))}
           P == {s \in SUBSET K : Odd(Part(s)) <=> Odd(rows(s))}
<1>1. {} \in P
  <2>1. Part({}) = {} /\ rows({}) = {}
    OBVIOUS
  <2> QED
    BY <2>1
<1>2. ASSUME NEW s \in SUBSET K, s # {}, \A x \in s : s \ {x} \in P
      PROVE  s \in P
  <2>1. PICK x \in s : TRUE
    BY <1>2
  <2>2. Odd(Part(s \ {x})) <=> Odd(rows(s \ {x}))
    BY <1>2, <2>1
  <2>3. Odd(Part(s)) <=> ~(Odd(Part(s \ {x})) <=> Odd(Row(R, x)))
    <3>1. Part(s) = Part(s \ {x}) \cup Row(R, x) /\ Part(s \ {x}) \cap Row(R, x) = {}
      BY <2>1 DEF Row
    <3>2. IsFiniteSet(Part(s \ {x})) /\ IsFiniteSet(Row(R, x))
      BY FS_Subset DEF Row
    <3> HIDE DEF Part
    <3>3. Odd(Part(s \ {x}) \cup Row(R, x)) <=> ~(Odd(Part(s \ {x})) <=> Odd(Row(R, x)))
      BY <3>1, <3>2, OddUnion
    <3> QED
      BY Zenon, <3>1, <3>3
  <2>4. Odd(rows(s)) <=> ~(Odd(rows(s \ {x})) <=> Odd(Row(R, x)))
    <3>1. IsFiniteSet(s) /\ IsFiniteSet(rows(s \ {x})) /\ x \notin rows(s \ {x})
      <4>1. rows(s \ {x}) \in SUBSET K
        OBVIOUS
      <4> QED
        BY <4>1, FS_Subset
    <3>2. ASSUME Odd(Row(R, x))
          PROVE  Odd(rows(s)) <=> ~Odd(rows(s \ {x}))
      <4>1. rows(s) = rows(s \ {x}) \cup {x}
        BY <2>1, <3>2
      <4> HIDE DEF rows
      <4>2. Odd(rows(s \ {x}) \cup {x}) <=> ~Odd(rows(s \ {x}))
        BY <3>1, OddGrows
      <4> QED
        BY Zenon, <4>1, <4>2
    <3>3. ASSUME ~Odd(Row(R, x))
          PROVE  Odd(rows(s)) <=> Odd(rows(s \ {x}))
      <4>1. rows(s) = rows(s \ {x})
        BY <2>1, <3>3
      <4> HIDE DEF rows
      <4> QED
        BY <3>3, <4>1
    <3> HIDE DEF rows
    <3> QED
      BY <3>2, <3>3
  <2> HIDE DEF Part, rows
  <2> QED
    BY <2>2, <2>3, <2>4
<1>3. K \in P
  <2> HIDE DEF P
  <2>1. SUBSET K \subseteq P
    BY <1>1, <1>2, Subsets
  <2> QED
    BY <2>1
<1>4. Part(K) = R
  OBVIOUS
<1> HIDE DEF Part
<1> QED
  BY <1>3, <1>4

OddFirsts(R, K, J)  == {k \in K : Odd({j \in J : <<k, j>> \in R})}
OddSeconds(R, K, J) == {j \in J : Odd({k \in K : <<k, j>> \in R})}

\* The order of two sums modulo two does not matter.
LEMMA OddExchange ==
  ASSUME NEW K, IsFiniteSet(K), NEW J, IsFiniteSet(J), NEW R \in SUBSET (K \X J)
  PROVE  Odd(OddFirsts(R, K, J)) <=> Odd(OddSeconds(R, K, J))
<1> DEFINE Q == {p \in J \X K : <<p[2], p[1]>> \in R}
<1>1. IsFiniteSet(R) /\ IsFiniteSet(Q)
  <2>1. IsFiniteSet(K \X J) /\ IsFiniteSet(J \X K)
    BY FS_Product
  <2> QED
    BY <2>1, FS_Subset
<1>2. Odd(Q) <=> Odd(R)
  <2> DEFINE f == [r \in R |-> <<r[2], r[1]>>]
  <2>1. f \in Bijection(R, Q)
    <3>1. f \in [R -> Q]
      OBVIOUS
    <3>2. \A r, s \in R : f[r] = f[s] => r = s
      OBVIOUS
    <3>3. \A q \in Q : \E r \in R : f[r] = q
      <4> TAKE q \in Q
      <4>1. <<q[2], q[1]>> \in R /\ q = <<q[1], q[2]>>
        OBVIOUS
      <4>2. f[<<q[2], q[1]>>] = q
        BY <4>1
      <4> QED
        BY <4>1, <4>2
    <3> HIDE DEF f, Q
    <3> QED
      BY <3>1, <3>2, <3>3 DEF Bijection, Injection, Surjection, IsInjective
  <2> HIDE DEF f, Q
  <2> QED
    BY <1>1, <2>1, OddBijection
<1>3. \A k \in K : Odd(Row(R, k)) <=> Odd({j \in J : <<k, j>> \in R})
  <2> TAKE k \in K
  <2> DEFINE f == [j \in {j \in J : <<k, j>> \in R} |-> <<k, j>>]
  <2>1. f \in Bijection({j \in J : <<k, j>> \in R}, Row(R, k))
    <3>1. f \in [{j \in J : <<k, j>> \in R} -> Row(R, k)]
      BY DEF Row
    <3>2. \A i, j \in {j \in J : <<k, j>> \in R} : f[i] = f[j] => i = j
      OBVIOUS
    <3>3. \A r \in Row(R, k) : \E j \in {j \in J : <<k, j>> \in R} : f[j] = r
      BY DEF Row
    <3> HIDE DEF f
    <3> QED
      BY <3>1, <3>2, <3>3 DEF Bijection, Injection, Surjection, IsInjective
  <2>2. IsFiniteSet({j \in J : <<k, j>> \in R})
    BY FS_Subset
  <2> HIDE DEF f
  <2> QED
    BY <2>1, <2>2, OddBijection
<1>4. \A j \in J : Odd(Row(Q, j)) <=> Odd({k \in K : <<k, j>> \in R})
  <2> TAKE j \in J
  <2> DEFINE f == [k \in {k \in K : <<k, j>> \in R} |-> <<j, k>>]
  <2>1. f \in Bijection({k \in K : <<k, j>> \in R}, Row(Q, j))
    <3>1. f \in [{k \in K : <<k, j>> \in R} -> Row(Q, j)]
      BY DEF Row
    <3>2. \A i, k \in {k \in K : <<k, j>> \in R} : f[i] = f[k] => i = k
      OBVIOUS
    <3>3. \A r \in Row(Q, j) : \E k \in {k \in K : <<k, j>> \in R} : f[k] = r
      BY DEF Row
    <3> HIDE DEF f
    <3> QED
      BY <3>1, <3>2, <3>3 DEF Bijection, Injection, Surjection, IsInjective
  <2>2. IsFiniteSet({k \in K : <<k, j>> \in R})
    BY FS_Subset
  <2> HIDE DEF f
  <2> QED
    BY <2>1, <2>2, OddBijection
<1>5. Odd(R) <=> Odd({k \in K : Odd(Row(R, k))})
  BY <1>1, OddRows
<1>6. Odd(Q) <=> Odd({j \in J : Odd(Row(Q, j))})
  <2>1. \A q \in Q : q[1] \in J
    OBVIOUS
  <2> HIDE DEF Q
  <2> QED
    BY <1>1, <2>1, OddRows
<1>7. {k \in K : Odd(Row(R, k))} = {k \in K : Odd({j \in J : <<k, j>> \in R})}
  BY <1>3
<1>8. {j \in J : Odd(Row(Q, j))} = {j \in J : Odd({k \in K : <<k, j>> \in R})}
  BY <1>4
<1> HIDE DEF Q
<1>9. Odd({k \in K : Odd(Row(R, k))}) <=> Odd(OddFirsts(R, K, J))
  BY <1>7 DEF OddFirsts
<1>10. Odd({j \in J : Odd(Row(Q, j))}) <=> Odd(OddSeconds(R, K, J))
  BY <1>8 DEF OddSeconds
<1> QED
  BY <1>2, <1>5, <1>6, <1>9, <1>10

\* An atom is in a sum if and only if it is in an odd number of summands.
LEMMA InXorSum ==
  ASSUME NEW J, IsFiniteSet(J), NEW f, DOMAIN f = J, NEW a
  PROVE  a \in XorSum(f) <=> Odd({j \in J : a \in f[j]})
<1>1. ASSUME Odd({j \in J : a \in f[j]})
      PROVE  a \in UNION {f[j] : j \in J}
  <2>1. {j \in J : a \in f[j]} # {}
    BY <1>1, OddEmpty
  <2> QED
    BY <2>1
<1> QED
  BY <1>1 DEF XorSum

\* The servers of K that are asked for the column j.
Askers(K, q, j) == {k \in K : j \in q[k]}

\* The servers share the column iy: only it is asked of an odd number of them.
IsShared(K, J, q, iy) == \A j \in J : Odd(Askers(K, q, j)) <=> j = iy

\* The sum of what the servers answer, each about the columns it is asked for.
SumOfSums(K, J, q, B) == XorSum([k \in K |-> XorSum([j \in q[k] \cap J |-> B[j]])])

\* The sum of the servers' sums is the block of the column that was shared.
LEMMA SharesCancel ==
  ASSUME NEW K, IsFiniteSet(K), NEW J, IsFiniteSet(J), NEW q, NEW B, NEW iy \in J,
         IsShared(K, J, q, iy)
  PROVE  SumOfSums(K, J, q, B) = B[iy]
<1> DEFINE S(k) == XorSum([j \in q[k] \cap J |-> B[j]])
           T == XorSum([k \in K |-> S(k)])
<1> SUFFICES ASSUME NEW a
             PROVE  a \in T <=> a \in B[iy]
  BY DEF SumOfSums
<1> DEFINE R == {r \in K \X J : r[2] \in q[r[1]] /\ a \in B[r[2]]}
<1>1. a \in T <=> Odd({k \in K : a \in S(k)})
  <2> HIDE DEF S
  <2> DEFINE g == [k \in K |-> S(k)]
  <2>1. DOMAIN g = K /\ {k \in K : a \in g[k]} = {k \in K : a \in S(k)}
    OBVIOUS
  <2> HIDE DEF g
  <2>2. a \in XorSum(g) <=> Odd({k \in K : a \in g[k]})
    BY <2>1, InXorSum
  <2> QED
    BY <2>1, <2>2 DEF g
<1>2. \A k \in K : a \in S(k) <=> Odd({j \in J : <<k, j>> \in R})
  <2> TAKE k \in K
  <2> DEFINE g == [j \in q[k] \cap J |-> B[j]]
  <2>1. DOMAIN g = q[k] \cap J /\ {j \in q[k] \cap J : a \in g[j]} = {j \in J : <<k, j>> \in R}
    OBVIOUS
  <2>2. IsFiniteSet(q[k] \cap J)
    BY FS_Intersection
  <2> HIDE DEF g, R
  <2>3. a \in XorSum(g) <=> Odd({j \in q[k] \cap J : a \in g[j]})
    BY <2>1, <2>2, InXorSum
  <2> QED
    BY <2>1, <2>3 DEF g
<1>3. \A j \in J : Odd({k \in K : <<k, j>> \in R}) <=> (a \in B[j] /\ j = iy)
  <2> TAKE j \in J
  <2>1. CASE a \in B[j]
    <3>1. {k \in K : <<k, j>> \in R} = Askers(K, q, j)
      BY <2>1 DEF Askers
    <3> HIDE DEF R
    <3> QED
      BY <2>1, <3>1 DEF IsShared
  <2>2. CASE a \notin B[j]
    <3>1. {k \in K : <<k, j>> \in R} = {}
      BY <2>2
    <3> HIDE DEF R
    <3> QED
      BY <2>2, <3>1, OddEmpty
  <2> QED
    BY <2>1, <2>2
<1> HIDE DEF S, T
<1>0. R \in SUBSET (K \X J)
  OBVIOUS
<1>5. OddFirsts(R, K, J) = {k \in K : a \in S(k)}
  BY <1>2 DEF OddFirsts
<1>6. OddSeconds(R, K, J) = {j \in J : a \in B[j] /\ j = iy}
  BY <1>3 DEF OddSeconds
<1>7. Odd({j \in J : a \in B[j] /\ j = iy}) <=> a \in B[iy]
  <2>1. CASE a \in B[iy]
    <3>1. {j \in J : a \in B[j] /\ j = iy} = {} \cup {iy}
      BY <2>1
    <3>2. Odd({} \cup {iy})
      BY OddGrows, OddEmpty, FS_EmptySet
    <3> QED
      BY <2>1, <3>1, <3>2
  <2>2. CASE a \notin B[iy]
    <3>1. {j \in J : a \in B[j] /\ j = iy} = {}
      BY <2>2
    <3> QED
      BY <2>2, <3>1, OddEmpty
  <2> QED
    BY <2>1, <2>2
<1> HIDE DEF R
<1>8. Odd(OddFirsts(R, K, J)) <=> Odd(OddSeconds(R, K, J))
  BY <1>0, OddExchange
<1> QED
  BY <1>1, <1>5, <1>6, <1>7, <1>8
-----------------------------------------------------------------------------
(* Sorting rearranges the keys.                                             *)

\* A sequence of keys as a server loads it.
Loadable(keys) ==
  /\ keys \in Seq({keys[n] : n \in 1..Len(keys)})
  /\ \A n \in 1..Len(keys) : IsKey(keys[n])

Ahead(keys, m) == {k \in DOMAIN keys : \/ keys[k].ID > keys[m].ID
                                       \/ keys[k].ID = keys[m].ID /\ k < m}

IdsOf(keys) == [n \in DOMAIN keys |-> keys[n].ID]

LEMMA RankIsPlace ==
  ASSUME NEW N \in Nat, NEW keys, DOMAIN keys = 1..N, \A n \in 1..N : keys[n].ID \in Int
  PROVE  /\ IdsOf(keys) \in [1..N -> Int]
         /\ \A m \in 1..N : /\ Rank(keys, m) = Place(IdsOf(keys), m)
                            /\ Ahead(keys, m) = Before(IdsOf(keys), m)
<1> DEFINE ids == IdsOf(keys)
<1>1. ids \in [1..N -> Int] /\ DOMAIN ids = 1..N /\ \A n \in 1..N : ids[n] = keys[n].ID
  BY DEF IdsOf
<1> HIDE DEF ids
<1>2. \A m \in 1..N : Ahead(keys, m) = Before(ids, m)
  BY <1>1 DEF Ahead, Before
<1>3. \A m \in 1..N : Rank(keys, m) = 1 + Cardinality(Ahead(keys, m))
  BY DEF Rank, Ahead
<1>4. \A m \in 1..N : Rank(keys, m) = Place(ids, m)
  BY <1>2, <1>3 DEF Place
<1> QED
  BY <1>1, <1>2, <1>4 DEF ids

LEMMA RankOrder ==
  ASSUME NEW N \in Nat, NEW keys, DOMAIN keys = 1..N, \A n \in 1..N : keys[n].ID \in Int,
         NEW m \in 1..N
  PROVE  /\ Rank(keys, m) \in 1..N
         /\ \A k \in Ahead(keys, m) : Rank(keys, k) < Rank(keys, m)
<1>1. Ahead(keys, m) \subseteq 1..N
  BY DEF Ahead
<1>2. /\ IdsOf(keys) \in [1..N -> Int]
      /\ \A k \in 1..N : /\ Rank(keys, k) = Place(IdsOf(keys), k)
                         /\ Ahead(keys, k) = Before(IdsOf(keys), k)
  BY RankIsPlace
<1> QED
  BY <1>1, <1>2, PlaceOrder

LEMMA RankOnto ==
  ASSUME NEW N \in Nat, NEW keys, DOMAIN keys = 1..N, \A n \in 1..N : keys[n].ID \in Int,
         NEW n \in 1..N
  PROVE  \E m \in 1..N : Rank(keys, m) = n
<1>1. /\ IdsOf(keys) \in [1..N -> Int]
      /\ \A k \in 1..N : Rank(keys, k) = Place(IdsOf(keys), k)
  BY RankIsPlace
<1> QED
  BY <1>1, PlaceOnto

LEMMA Sorted ==
  ASSUME NEW keys, Loadable(keys)
  PROVE  /\ Loadable(sortById(keys)) /\ Len(sortById(keys)) = Len(keys)
         /\ \A n \in 1..Len(keys) : \E m \in 1..Len(keys) : sortById(keys)[n] = keys[m]
         /\ \A m \in 1..Len(keys) : \E n \in 1..Len(keys) : sortById(keys)[n] = keys[m]
<1> DEFINE N == Len(keys)
           at == [n \in 1..N |-> CHOOSE m \in 1..N : Rank(keys, m) = n]
           sorted == [n \in 1..N |-> keys[at[n]]]
<1>1. N \in Nat /\ DOMAIN keys = 1..N /\ \A n \in 1..N : keys[n].ID \in Int
  <2>1. N \in Nat /\ DOMAIN keys = 1..N
    <3>1. keys \in Seq({keys[n] : n \in 1..Len(keys)})
      BY DEF Loadable
    <3> DEFINE S == {keys[n] : n \in 1..Len(keys)}
    <3> HIDE DEF S
    <3>2. keys \in Seq(S)
      BY <3>1 DEF S
    <3> QED
      BY <3>2
  <2>2. \A n \in 1..N : IsKey(keys[n])
    BY DEF Loadable
  <2>3. \A n \in 1..N : keys[n].ID \in Int
    BY <2>2 DEF IsKey
  <2> QED
    BY <2>1, <2>3
<1>2. sortById(keys) = sorted
  BY <1>1 DEF sortById
<1> HIDE DEF N
<1>3. \A n \in 1..N : at[n] \in 1..N /\ Rank(keys, at[n]) = n
  <2> TAKE n \in 1..N
  <2>1. \E m \in 1..N : Rank(keys, m) = n
    BY ONLY <1>1, n \in 1..N, RankOnto
  <2>2. at[n] = CHOOSE m \in 1..N : Rank(keys, m) = n
    OBVIOUS
  <2> QED
    BY <2>1, <2>2, Zenon
<1>4. \A m \in 1..N : Rank(keys, m) \in 1..N
  BY <1>1, RankOrder
<1>5. ASSUME NEW j \in 1..N, NEW k \in 1..N, Rank(keys, j) = Rank(keys, k)
      PROVE  j = k
  <2>1. Rank(keys, j) \in Int
    BY <1>4
  <2>2. j \notin Ahead(keys, k) /\ k \notin Ahead(keys, j)
    BY <1>1, <1>5, <2>1, RankOrder
  <2> QED
    BY <1>1, <2>2 DEF Ahead
<1>6. \A m \in 1..N : at[Rank(keys, m)] = m
  BY <1>3, <1>4, <1>5
<1> HIDE DEF at
<1>7. \A n \in 1..N : sorted[n] = keys[at[n]]
  OBVIOUS
<1>8. sorted \in Seq({sorted[n] : n \in 1..N}) /\ Len(sorted) = N
  BY <1>1
<1> HIDE DEF sorted
<1>9. \A n \in 1..N : IsKey(sorted[n])
  BY <1>3, <1>7 DEF Loadable, N
<1>10. Loadable(sorted)
  BY <1>8, <1>9 DEF Loadable
<1>11. Loadable(sortById(keys)) /\ Len(sortById(keys)) = N
  BY Zenon, <1>2, <1>8, <1>10
<1>12. \A n \in 1..N : \E m \in 1..N : sorted[n] = keys[m]
  BY <1>3, <1>7
<1>13. \A m \in 1..N : \E n \in 1..N : sorted[n] = keys[m]
  BY <1>4, <1>6, <1>7
<1> QED
  BY Zenon, <1>2, <1>11, <1>12, <1>13 DEF N
-----------------------------------------------------------------------------
(* A bucket holds the packets of its keys, one after the other.             *)

BytesOf(keys) == {keys[p[1]].Packet[p[2]] : p \in (1..Len(keys)) \X (1..PacketLen)}

\* The packets that a sequence of bytes from B consists of.
IsRing(ring, B, packets) ==
  \E c \in Nat : /\ ring \in Seq(B) /\ Len(ring) = c * PacketLen
                 /\ \A p \in 1..c : Packet(ring, p) \in packets
                 /\ \A x \in packets : \E p \in 1..c : Packet(ring, p) = x

LEMMA EmptyRing ==
  ASSUME NEW B
  PROVE  IsRing(<<>>, B, {})
<1>1. /\ <<>> \in Seq(B) /\ Len(<<>>) = 0 * PacketLen
      /\ \A p \in 1..0 : Packet(<<>>, p) \in {}
  BY LengthsAssumption
<1> QED
  BY <1>1 DEF IsRing

LEMMA RingGrows ==
  ASSUME NEW ring, NEW B, NEW packets, IsRing(ring, B, packets),
         NEW packet \in Seq(B), Len(packet) = PacketLen
  PROVE  IsRing(ring \o packet, B, packets \cup {packet})
<1> DEFINE L == PacketLen
           longer == ring \o packet
<1>0. L \in Nat /\ L > 0
  BY LengthsAssumption
<1>1. PICK c \in Nat : /\ ring \in Seq(B) /\ Len(ring) = c * L
                       /\ \A p \in 1..c : Packet(ring, p) \in packets
                       /\ \A x \in packets : \E p \in 1..c : Packet(ring, p) = x
  BY DEF IsRing
<1> HIDE DEF L
<1>2. longer \in Seq(B) /\ Len(longer) = (c + 1) * L
  <2>1. (c + 1) * L = c * L + L /\ c * L \in Nat
    BY <1>0
  <2>2. Len(packet) = L
    BY DEF L
  <2>3. longer \in Seq(B) /\ Len(longer) = Len(ring) + Len(packet)
    BY <1>1, ConcatProperties
  <2> HIDE DEF longer
  <2> QED
    BY <1>1, <2>1, <2>2, <2>3
<1>3. ASSUME NEW p \in 1..c
      PROVE  Packet(longer, p) = Packet(ring, p)
  <2>1. /\ (p - 1) * L + 1 \in 1..Len(ring) /\ p * L \in 1..Len(ring)
    BY <1>0, <1>1, PacketPlace
  <2>2. SubSeq(ring \o packet, (p - 1) * L + 1, p * L) = SubSeq(ring, (p - 1) * L + 1, p * L)
    <3> DEFINE a == (p - 1) * L + 1
               b == p * L
    <3>1. a \in 1..Len(ring) /\ b \in 1..Len(ring)
      BY <2>1
    <3> HIDE DEF a, b
    <3>2. SubSeq(ring \o packet, a, b) = SubSeq(ring, a, b)
      BY <1>1, <3>1, SubSeqOfConcat1
    <3> QED
      BY <3>2 DEF a, b
  <2> QED
    BY <2>2 DEF Packet, L
<1>4. Packet(longer, c + 1) = packet
  <2>1. ((c + 1) - 1) * L + 1 = Len(ring) + 1 /\ (c + 1) * L = Len(ring) + Len(packet)
        /\ Len(ring) \in Nat
    <3>1. (c + 1) - 1 = c /\ (c + 1) * L = c * L + L /\ c * L \in Nat
      BY <1>0
    <3> QED
      BY <1>1, <3>1 DEF L
  <2>2. Packet(longer, c + 1) = SubSeq(ring \o packet, Len(ring) + 1, Len(ring) + Len(packet))
    BY <2>1 DEF Packet, L
  <2>3. SubSeq(ring \o packet, Len(ring) + 1, Len(ring) + Len(packet))
          = SubSeq(packet, 1, Len(packet))
    <3>1. Len(packet) \in Nat /\ Len(packet) > 0
      BY <1>0 DEF L
    <3>2. /\ Len(ring) + 1 \in (Len(ring) + 1)..(Len(ring) + Len(packet))
          /\ Len(ring) + Len(packet) \in (Len(ring) + 1)..(Len(ring) + Len(packet))
          /\ (Len(ring) + 1) - Len(ring) = 1
          /\ (Len(ring) + Len(packet)) - Len(ring) = Len(packet)
      BY <2>1, <3>1
    <3> DEFINE a == Len(ring) + 1
               b == Len(ring) + Len(packet)
    <3> HIDE DEF a, b
    <3>3. SubSeq(ring \o packet, a, b) = SubSeq(packet, a - Len(ring), b - Len(ring))
      <4>1. /\ a \in (Len(ring) + 1)..(Len(ring) + Len(packet))
            /\ b \in (Len(ring) + 1)..(Len(ring) + Len(packet))
        BY <3>2 DEF a, b
      <4> QED
        BY ONLY <1>1, <4>1, SubSeqOfConcat2
    <3> QED
      BY <3>2, <3>3 DEF a, b
  <2>4. SubSeq(packet, 1, Len(packet)) = packet
    BY ONLY <1>1, SubSeqFull
  <2> QED
    BY <2>2, <2>3, <2>4, Zenon
<1>5. \A p \in 1..(c + 1) : p \in 1..c \/ p = c + 1
  OBVIOUS
<1>6. \A p \in 1..(c + 1) : Packet(longer, p) \in packets \cup {packet}
  BY <1>1, <1>3, <1>4, <1>5
<1>7. \A x \in packets \cup {packet} : \E p \in 1..(c + 1) : Packet(longer, p) = x
  <2>1. 1..c \subseteq 1..(c + 1) /\ c + 1 \in 1..(c + 1)
    OBVIOUS
  <2> QED
    BY <1>1, <1>3, <1>4, <2>1
<1>8. c + 1 \in Nat
  OBVIOUS
<1> HIDE DEF longer
<1> QED
  BY <1>2, <1>6, <1>7, <1>8 DEF IsRing, longer, L

\* The packets of the first n keys that belong in bucket i.
Bucket(keys, L, n, i) ==
  {keys[m].Packet : m \in {k \in 1..n : HashToIndex(keys[k].ID, L) = i}}

IsTable(t, keys, L, n) ==
  t = [m \in 0..n |-> IF m = 0 THEN [i \in 0..(L - 1) |-> <<>>]
                      ELSE AddKey(t[m - 1], keys[m], L)]

LEMMA TableExists ==
  ASSUME NEW keys, NEW L, NEW N \in Nat
  PROVE  \E t : IsTable(t, keys, L, N)
<1> DEFINE P == {n \in 0..N : \E t : IsTable(t, keys, L, n)}
           empty == [i \in 0..(L - 1) |-> <<>>]
<1>1. 0 \in P
  <2> DEFINE t == [m \in 0..0 |-> empty]
  <2>1. IsTable(t, keys, L, 0)
    BY DEF IsTable
  <2> HIDE DEF t
  <2> QED
    BY <2>1
<1>2. ASSUME NEW n \in 0..(N - 1), n \in P
      PROVE  n + 1 \in P
  <2>1. PICK t : IsTable(t, keys, L, n)
    BY <1>2
  <2> DEFINE next == AddKey(t[n], keys[n + 1], L)
             s == [m \in 0..(n + 1) |-> IF m = n + 1 THEN next ELSE t[m]]
             G == [m \in 0..n |-> IF m = 0 THEN empty ELSE AddKey(t[m - 1], keys[m], L)]
             H == [m \in 0..(n + 1) |-> IF m = 0 THEN empty ELSE AddKey(s[m - 1], keys[m], L)]
  <2>2. t = G
    BY <2>1 DEF IsTable
  <2>3. ASSUME NEW m \in 0..n
        PROVE  t[m] = IF m = 0 THEN empty ELSE AddKey(t[m - 1], keys[m], L)
    <3>1. G[m] = IF m = 0 THEN empty ELSE AddKey(t[m - 1], keys[m], L)
      OBVIOUS
    <3> HIDE DEF G
    <3> QED
      BY <2>2, <3>1
  <2> HIDE DEF empty, next, G
  <2>4. ASSUME NEW m \in 0..(n + 1)
        PROVE  s[m] = H[m]
    <3>1. CASE m = n + 1
      <4>1. s[m] = next /\ s[m - 1] = t[n] /\ m # 0 /\ m - 1 = n
        BY <3>1
      <4>2. H[m] = AddKey(s[m - 1], keys[m], L)
        BY <4>1
      <4> QED
        BY <3>1, <4>1, <4>2 DEF next
    <3>2. CASE m \in 0..n /\ m # 0
      <4>1. s[m] = t[m] /\ s[m - 1] = t[m - 1]
        BY <3>2
      <4>2. H[m] = AddKey(s[m - 1], keys[m], L)
        BY <3>2
      <4> QED
        BY <2>3, <3>2, <4>1, <4>2
    <3>3. CASE m = 0
      BY <2>3, <3>3
    <3> QED
      BY <3>1, <3>2, <3>3
  <2>5. s = H
    BY <2>4
  <2>6. IsTable(s, keys, L, n + 1)
    BY <2>5 DEF IsTable, empty
  <2> HIDE DEF s
  <2> QED
    BY <2>6
<1> HIDE DEF P
<1>3. 0..N \subseteq P
  BY <1>1, <1>2, UpTo
<1> QED
  BY <1>3 DEF P

LEMMA TableRings ==
  ASSUME NEW keys, Loadable(keys), NEW L \in Nat, L > 0
  PROVE  /\ DOMAIN makeHashTable(keys, L) = 0..(L - 1)
         /\ \A i \in 0..(L - 1) :
              IsRing(makeHashTable(keys, L)[i], BytesOf(keys), Bucket(keys, L, Len(keys), i))
<1> DEFINE N == Len(keys)
           t == CHOOSE t : IsTable(t, keys, L, N)
           Good(n) == /\ DOMAIN t[n] = 0..(L - 1)
                      /\ \A i \in 0..(L - 1) :
                           IsRing(t[n][i], BytesOf(keys), Bucket(keys, L, n, i))
           P == {n \in 0..N : Good(n)}
<1>0. N \in Nat
  BY DEF Loadable
<1>1. makeHashTable(keys, L) = t[N]
  BY DEF makeHashTable, IsTable
<1>2. IsTable(t, keys, L, N)
  BY <1>0, TableExists
<1> HIDE DEF t, N
<1>3. t[0] = [i \in 0..(L - 1) |-> <<>>]
      /\ \A n \in 1..N : t[n] = AddKey(t[n - 1], keys[n], L)
  BY <1>0, <1>2 DEF IsTable
<1>4. 0 \in P
  <2>1. \A i \in 0..(L - 1) : Bucket(keys, L, 0, i) = {}
    BY DEF Bucket
  <2>2. DOMAIN t[0] = 0..(L - 1) /\ \A i \in 0..(L - 1) : t[0][i] = <<>>
    BY <1>3
  <2>3. Good(0)
    BY <2>1, <2>2, EmptyRing
  <2> HIDE DEF Good
  <2> QED
    BY <1>0, <2>3
<1>5. ASSUME NEW n \in 0..(N - 1), n \in P
      PROVE  n + 1 \in P
  <2> DEFINE key == keys[n + 1]
             h == HashToIndex(key.ID, L)
             packet == key.Packet
  <2>1. n + 1 \in 1..N /\ t[n + 1] = AddKey(t[n], key, L)
    BY <1>0, <1>3
  <2>2. IsKey(key)
    BY <2>1 DEF Loadable, N
  <2>3. h \in 0..(L - 1)
    BY <2>2 DEF IsKey, HashToIndex
  <2>4. packet \in Seq(BytesOf(keys)) /\ Len(packet) = PacketLen
    <3>1. packet \in Seq({packet[m] : m \in 1..PacketLen}) /\ Len(packet) = PacketLen
      BY <2>2 DEF IsKey
    <3>2. {packet[m] : m \in 1..PacketLen} \subseteq BytesOf(keys)
      <4> SUFFICES ASSUME NEW m \in 1..PacketLen
                   PROVE  packet[m] \in BytesOf(keys)
        OBVIOUS
      <4> DEFINE p == <<n + 1, m>>
      <4>1. p \in (1..Len(keys)) \X (1..PacketLen) /\ packet[m] = keys[p[1]].Packet[p[2]]
        BY <2>1 DEF N
      <4> HIDE DEF p, packet
      <4> QED
        BY <4>1 DEF BytesOf
    <3> HIDE DEF packet
    <3> QED
      BY <3>1, <3>2, SeqMonotonic
  <2>5. Good(n)
    BY <1>5
  <2> HIDE DEF h
  <2>6. t[n + 1] = [t[n] EXCEPT ![h] = t[n][h] \o packet]
    BY <2>1 DEF AddKey, h
  <2>7. DOMAIN t[n + 1] = 0..(L - 1)
    BY <2>5, <2>6
  <2>8. ASSUME NEW i \in 0..(L - 1)
        PROVE  Bucket(keys, L, n + 1, i)
                 = IF i = h THEN Bucket(keys, L, n, i) \cup {packet} ELSE Bucket(keys, L, n, i)
    <3>1. 1..(n + 1) = (1..n) \cup {n + 1}
      OBVIOUS
    <3> QED
      BY <3>1 DEF Bucket, h
  <2>9. ASSUME NEW i \in 0..(L - 1)
        PROVE  IsRing(t[n + 1][i], BytesOf(keys), Bucket(keys, L, n + 1, i))
    <3>1. IsRing(t[n][i], BytesOf(keys), Bucket(keys, L, n, i))
      BY <2>5
    <3>2. CASE i = h
      <4>1. t[n + 1][i] = t[n][i] \o packet
        BY <2>3, <2>5, <2>6, <3>2
      <4>2. IsRing(t[n][i] \o packet, BytesOf(keys), Bucket(keys, L, n, i) \cup {packet})
        BY <2>4, <3>1, RingGrows
      <4> QED
        BY <2>8, <3>2, <4>1, <4>2
    <3>3. CASE i # h
      <4>1. t[n + 1][i] = t[n][i]
        BY <2>5, <2>6, <3>3
      <4> QED
        BY <2>8, <3>1, <3>3, <4>1
    <3> QED
      BY <3>2, <3>3
  <2>10. Good(n + 1)
    BY <2>7, <2>9
  <2> HIDE DEF Good
  <2> QED
    BY <1>0, <2>10
<1>6. N \in P
  <2> HIDE DEF P
  <2>1. 0..N \subseteq P
    BY <1>0, <1>4, <1>5, UpTo
  <2> QED
    BY <1>0, <2>1
<1> QED
  BY <1>1, <1>6 DEF N
-----------------------------------------------------------------------------
(* Padding is undone exactly, also behind the zeros of a sum.               *)

\* t is s with the mark behind it, and then zeros.
IsPadded(t, s) ==
  /\ Len(s) < Len(t)
  /\ \A m \in 1..Len(s) : t[m] = s[m]
  /\ t[Len(s) + 1] = Mark
  /\ \A m \in 1..Len(t) : m > Len(s) + 1 => t[m] = Zero

LEMMA UnPadded ==
  ASSUME NEW S, NEW s \in Seq(S), NEW R, NEW t \in Seq(R), IsPadded(t, s)
  PROVE  ~UnPadPanics(t) /\ UnPadBlock(t) = s
<1>1. Len(s) \in Nat /\ Len(t) \in Nat /\ Len(s) < Len(t)
  BY DEF IsPadded
<1>2. Mark # Zero
  BY DEF Mark, Zero
<1>3. Len(s) + 1 \in Significant(t)
  BY <1>1, <1>2 DEF IsPadded, Significant
<1>4. \A m \in Significant(t) : m <= Len(s) + 1
  BY <1>1 DEF IsPadded, Significant
<1>5. Max(Significant(t)) = Len(s) + 1
  <2>1. Significant(t) \subseteq Int
    BY DEF Significant
  <2>2. Len(s) + 1 \in Int
    BY <1>1
  <2> QED
    BY <1>3, <1>4, <2>1, <2>2, MaxIs
<1>6. UnPadBlock(t) = SubSeq(t, 1, Len(s))
  <2>1. (Len(s) + 1) - 1 = Len(s)
    BY <1>1
  <2> QED
    BY <1>5, <2>1 DEF UnPadBlock
<1>7. SubSeq(t, 1, Len(s)) = s
  <2>1. \A m \in 1..Len(s) : t[m] = s[m]
    BY DEF IsPadded
  <2>2. SubSeq(t, 1, Len(s)) \in Seq(R) /\ Len(SubSeq(t, 1, Len(s))) = Len(s)
        /\ \A m \in 1..Len(s) : SubSeq(t, 1, Len(s))[m] = t[m]
    BY <1>1
  <2> DEFINE u == SubSeq(t, 1, Len(s))
             A == R \cup S
  <2>3. u \in Seq(A) /\ s \in Seq(A)
    BY <2>2, SeqMonotonic
  <2>4. Len(u) = Len(s) /\ \A m \in 1..Len(u) : u[m] = s[m]
    BY <2>1, <2>2
  <2> HIDE DEF u, A
  <2>5. u = s
    BY <2>3, <2>4, SeqEqual
  <2> QED
    BY <2>5 DEF u
<1> QED
  BY <1>3, <1>6, <1>7 DEF UnPadPanics
-----------------------------------------------------------------------------
(* The dimensions of a table.                                               *)

LEMMA SideExists ==
  ASSUME NEW num \in Nat, num > 0
  PROVE  SquareSide(num) \in Nat /\ SquareSide(num) > 0
<1> DEFINE T == {s \in Nat : s * s >= num}
<1>1. num \in T
  <2>1. num * num = num + num * (num - 1) /\ num * (num - 1) \in Nat
    <3>1. num - 1 \in Nat
      OBVIOUS
    <3> QED
      BY <3>1
  <2> QED
    BY <2>1
<1>2. PICK s \in T : \A k \in T : s <= k
  BY <1>1, LeastNumber
<1>3. s \in 0..num
  BY <1>1, <1>2
<1>4. s = 0 \/ (s - 1) * (s - 1) < num
  <2>1. ASSUME s # 0
        PROVE  (s - 1) * (s - 1) < num
    <3>1. s - 1 \in Nat /\ s - 1 \notin T
      BY <1>2, <2>1
    <3>2. (s - 1) * (s - 1) \in Int
      BY <3>1
    <3> QED
      BY <3>1, <3>2
  <2> QED
    BY <2>1
<1>5. /\ SquareSide(num) \in 0..num
      /\ SquareSide(num) * SquareSide(num) >= num
  BY <1>2, <1>3, <1>4 DEF SquareSide
<1>6. SquareSide(num) # 0
  <2>1. 0 * 0 = 0
    OBVIOUS
  <2> QED
    BY <1>5, <2>1
<1> QED
  BY <1>5, <1>6

-----------------------------------------------------------------------------
(* The database of a server.                                                *)

Side(keys)      == SquareSide(Len(keys) \div KeysPerBlock)
Places(keys)    == 0..(Side(keys) * Side(keys) - 1)
TableOf(keys)   == makeHashTable(sortById(keys), Side(keys) * Side(keys))
BlocksOf(keys)  == Blocks(TableOf(keys))
ProofOf(keys, i) == ProofByte(GenerateProof(BlocksOf(keys), i))

\* The packets of the keys that belong in a place.
PacketsAt(keys, i) ==
  {keys[m].Packet : m \in {k \in 1..Len(keys) :
     HashToIndex(keys[k].ID, Side(keys) * Side(keys)) = i}}

\* What can be served: there is at least one block.
Servable(keys) == Loadable(keys) /\ Len(keys) >= KeysPerBlock

LEMMA SideFacts ==
  ASSUME NEW keys, Servable(keys)
  PROVE  /\ Len(keys) \in Nat
         /\ Side(keys) \in Nat /\ Side(keys) > 0
         /\ Side(keys) * Side(keys) \in Nat /\ Side(keys) * Side(keys) > 0
         /\ Places(keys) # {} /\ IsFiniteSet(Places(keys)) /\ Places(keys) \subseteq Nat
<1>1. Len(keys) \in Nat /\ Len(keys) >= KeysPerBlock
  BY DEF Servable, Loadable
<1>2. KeysPerBlock \in Nat /\ KeysPerBlock > 0
  BY LengthsAssumption
<1>3. Len(keys) \div KeysPerBlock \in Nat /\ Len(keys) \div KeysPerBlock > 0
  BY <1>1, <1>2
<1>4. Side(keys) \in Nat /\ Side(keys) > 0
  BY <1>3, SideExists DEF Side
<1>5. Side(keys) * Side(keys) \in Nat /\ Side(keys) * Side(keys) > 0
  <2>1. \A s \in Nat : s > 0 => s * s \in Nat /\ s * s > 0
    <3> TAKE s \in Nat
    <3>1. s * s = s + s * (s - 1)
      OBVIOUS
    <3>2. s > 0 => s * (s - 1) \in Nat
      OBVIOUS
    <3> QED
      BY <3>1, <3>2
  <2> QED
    BY <1>4, <2>1
<1>6. Places(keys) # {} /\ Places(keys) \subseteq Nat
  BY <1>5 DEF Places
<1>7. IsFiniteSet(Places(keys))
  BY <1>5, FS_Interval DEF Places
<1> QED
  BY <1>1, <1>4, <1>5, <1>6, <1>7

LEMMA TableFacts ==
  ASSUME NEW keys, Servable(keys)
  PROVE  /\ DOMAIN TableOf(keys) = Places(keys)
         /\ \A i \in Places(keys) : IsRing(TableOf(keys)[i], BytesOf(keys), PacketsAt(keys, i))
<1> DEFINE L == Side(keys) * Side(keys)
           s == sortById(keys)
<1>1. L \in Nat /\ L > 0
  BY SideFacts
<1>2. /\ Loadable(s) /\ Len(s) = Len(keys) /\ Len(keys) \in Nat
      /\ \A n \in 1..Len(keys) : \E m \in 1..Len(keys) : s[n] = keys[m]
      /\ \A m \in 1..Len(keys) : \E n \in 1..Len(keys) : s[n] = keys[m]
  BY Sorted, SideFacts DEF Servable
<1> HIDE DEF L, s
<1>3. /\ DOMAIN makeHashTable(s, L) = 0..(L - 1)
      /\ \A i \in 0..(L - 1) :
           IsRing(makeHashTable(s, L)[i], BytesOf(s), Bucket(s, L, Len(s), i))
  BY <1>1, <1>2, TableRings
<1>4. BytesOf(s) = BytesOf(keys)
  <2>1. ASSUME NEW m \in 1..PacketLen, NEW n \in 1..Len(keys)
        PROVE  s[n].Packet[m] \in BytesOf(keys) /\ keys[n].Packet[m] \in BytesOf(s)
    <3>1. PICK k \in 1..Len(keys) : s[n] = keys[k]
      BY <1>2
    <3>2. PICK j \in 1..Len(keys) : s[j] = keys[n]
      BY <1>2
    <3> DEFINE p == <<k, m>>
               q == <<j, m>>
    <3>3. /\ p \in (1..Len(keys)) \X (1..PacketLen) /\ p[1] = k /\ p[2] = m
          /\ q \in (1..Len(s)) \X (1..PacketLen) /\ q[1] = j /\ q[2] = m
      BY <1>2
    <3> HIDE DEF p, q
    <3>4. keys[p[1]].Packet[p[2]] \in BytesOf(keys) /\ s[q[1]].Packet[q[2]] \in BytesOf(s)
      BY <3>3 DEF BytesOf
    <3> QED
      BY <3>1, <3>2, <3>3, <3>4
  <2>2. ASSUME NEW b \in BytesOf(s)
        PROVE  b \in BytesOf(keys)
    <3>1. PICK p \in (1..Len(s)) \X (1..PacketLen) : b = s[p[1]].Packet[p[2]]
      BY DEF BytesOf
    <3>2. p[1] \in 1..Len(keys) /\ p[2] \in 1..PacketLen
      BY <1>2
    <3> QED
      BY <2>1, <3>1, <3>2
  <2>3. ASSUME NEW b \in BytesOf(keys)
        PROVE  b \in BytesOf(s)
    <3>1. PICK p \in (1..Len(keys)) \X (1..PacketLen) : b = keys[p[1]].Packet[p[2]]
      BY DEF BytesOf
    <3>2. p[1] \in 1..Len(keys) /\ p[2] \in 1..PacketLen
      OBVIOUS
    <3> QED
      BY <2>1, <3>1, <3>2
  <2> QED
    BY <2>2, <2>3
<1>5. ASSUME NEW i \in 0..(L - 1)
      PROVE  Bucket(s, L, Len(s), i) = PacketsAt(keys, i)
  <2>1. ASSUME NEW x \in Bucket(s, L, Len(s), i)
        PROVE  x \in PacketsAt(keys, i)
    <3>1. PICK n \in 1..Len(keys) : x = s[n].Packet /\ HashToIndex(s[n].ID, L) = i
      BY <1>2 DEF Bucket
    <3>2. PICK m \in 1..Len(keys) : s[n] = keys[m]
      BY <1>2
    <3> QED
      BY <3>1, <3>2 DEF PacketsAt, L
  <2>2. ASSUME NEW x \in PacketsAt(keys, i)
        PROVE  x \in Bucket(s, L, Len(s), i)
    <3>1. PICK m \in 1..Len(keys) : x = keys[m].Packet /\ HashToIndex(keys[m].ID, L) = i
      BY DEF PacketsAt, L
    <3>2. PICK n \in 1..Len(keys) : s[n] = keys[m]
      BY <1>2
    <3> QED
      BY <1>2, <3>1, <3>2 DEF Bucket
  <2> QED
    BY <2>1, <2>2
<1>6. TableOf(keys) = makeHashTable(s, L) /\ Places(keys) = 0..(L - 1)
  BY DEF TableOf, Places, s, L
<1> QED
  BY <1>3, <1>4, <1>5, <1>6

\* The bytes and the atoms that a database may hold.
Alphabet(keys) == BytesOf(keys) \cup {Mark} \cup {ProofOf(keys, i) : i \in Places(keys)}

LEMMA BlockFacts ==
  ASSUME NEW keys, Servable(keys), NEW i \in Places(keys)
  PROVE  /\ DOMAIN BlocksOf(keys) = Places(keys)
         /\ BlocksOf(keys)[i] = IF TableOf(keys)[i] = <<>> THEN <<>>
                                ELSE Append(TableOf(keys)[i], Mark)
         /\ BlocksOf(keys)[i] \in Seq(Alphabet(keys))
         /\ TableOf(keys)[i] \in Seq(Alphabet(keys))
<1>1. DOMAIN TableOf(keys) = Places(keys)
  BY TableFacts
<1>2. DOMAIN BlocksOf(keys) = Places(keys)
  BY <1>1 DEF BlocksOf, Blocks
<1>3. BlocksOf(keys)[i] = IF TableOf(keys)[i] = <<>> THEN <<>>
                          ELSE Append(TableOf(keys)[i], Mark)
  BY <1>1 DEF BlocksOf, Blocks, PadWithSignalByte
<1>4. TableOf(keys)[i] \in Seq(BytesOf(keys))
  BY TableFacts DEF IsRing
<1>5. TableOf(keys)[i] \in Seq(Alphabet(keys)) /\ Mark \in Alphabet(keys)
  BY <1>4, SeqMonotonic DEF Alphabet
<1>6. BlocksOf(keys)[i] \in Seq(Alphabet(keys))
  BY <1>3, <1>5
<1> QED
  BY <1>2, <1>3, <1>5, <1>6

LEMMA ProofFacts ==
  ASSUME NEW keys, Servable(keys), NEW i \in Places(keys)
  PROVE  \E index \in Places(keys) : \E hashes :
           /\ DOMAIN hashes = Places(keys)
           /\ ProofOf(keys, i) = {<<"proof", index, hashes>>}
           /\ [hashes EXCEPT ![index] = BlocksOf(keys)[i]] = BlocksOf(keys)
<1> DEFINE blocks == BlocksOf(keys)
           equal == {j \in DOMAIN blocks : blocks[j] = blocks[i]}
           index == Max(equal)
           hashes == [blocks EXCEPT ![index] = <<>>]
<1>1. DOMAIN blocks = Places(keys)
  BY BlockFacts
<1>2. index \in equal
  <2>1. equal \subseteq Places(keys) /\ i \in equal
    BY <1>1
  <2>2. IsFiniteSet(equal) /\ equal \subseteq Int
    BY <2>1, SideFacts, FS_Subset
  <2> HIDE DEF equal
  <2> QED
    BY <2>1, <2>2, MaxFacts
<1>3. ProofOf(keys, i) = {<<"proof", index, hashes>>}
  BY DEF ProofOf, ProofByte, GenerateProof
<1>4. index \in Places(keys) /\ blocks[index] = blocks[i]
  BY <1>1, <1>2
<1> HIDE DEF index
<1>5. DOMAIN hashes = Places(keys)
  BY <1>1
<1>6. blocks = [j \in Places(keys) |-> blocks[j]]
  BY <1>1 DEF BlocksOf, Blocks
<1>7. [hashes EXCEPT ![index] = blocks[i]] = blocks
  <2> DEFINE h == [hashes EXCEPT ![index] = blocks[i]]
  <2>1. h = [j \in Places(keys) |-> h[j]]
    BY <1>5
  <2>2. \A j \in Places(keys) : h[j] = blocks[j]
    BY <1>1, <1>4, <1>5
  <2> HIDE DEF h, blocks
  <2> QED
    BY <1>6, <2>1, <2>2 DEF h
<1> HIDE DEF hashes, blocks
<1> QED
  BY <1>3, <1>4, <1>5, <1>7 DEF blocks

EntryOf(keys, merkle, i) ==
  IF merkle THEN PadWithSignalByte(Append(BlocksOf(keys)[i], ProofOf(keys, i)))
            ELSE BlocksOf(keys)[i]

LEMMA EntryFacts ==
  ASSUME NEW keys, Servable(keys), NEW merkle \in BOOLEAN, NEW i \in Places(keys)
  PROVE  EntryOf(keys, merkle, i) \in Seq(Alphabet(keys))
<1>1. /\ BlocksOf(keys)[i] \in Seq(Alphabet(keys))
      /\ ProofOf(keys, i) \in Alphabet(keys) /\ Mark \in Alphabet(keys)
  BY BlockFacts DEF Alphabet
<1> QED
  BY <1>1 DEF EntryOf, PadWithSignalByte

LEMMA DatabaseFacts ==
  ASSUME NEW keys, Servable(keys), NEW merkle \in BOOLEAN
  PROVE  LET d == Database(keys, merkle, TRUE)
         IN  /\ d.NumRows = Side(keys) /\ d.NumColumns = Side(keys) /\ d.merkle = merkle
             /\ d.Root = IF merkle THEN BlocksOf(keys) ELSE <<>>
             /\ \A i \in Places(keys) : d.Entries[i] = EntryOf(keys, merkle, i)
             /\ d.BlockSize \in Nat
             /\ \A i \in Places(keys) : Len(d.Entries[i]) <= d.BlockSize
<1> DEFINE d == Database(keys, merkle, TRUE)
           e == [i \in Places(keys) |-> EntryOf(keys, merkle, i)]
           lengths == {Len(e[i]) : i \in Places(keys)}
<1>1. DOMAIN BlocksOf(keys) = Places(keys)
  BY SideFacts, BlockFacts
<1>2. d = [NumRows |-> Side(keys), NumColumns |-> Side(keys), BlockSize |-> MaxLen(e),
           merkle |-> merkle, Root |-> IF merkle THEN BlocksOf(keys) ELSE <<>>, Entries |-> e]
  <2>1. CASE merkle = TRUE
    <3>1. [i \in DOMAIN BlocksOf(keys) |->
             PadWithSignalByte(Append(BlocksOf(keys)[i], ProofByte(GenerateProof(BlocksOf(keys), i))))]
            = e
      BY <1>1, <2>1 DEF EntryOf, ProofOf
    <3> HIDE DEF e
    <3> QED
      BY <2>1, <3>1 DEF Database, CalculateNumRowsAndColumns, Side, BlocksOf, TableOf
  <2>2. CASE merkle = FALSE
    <3>1. BlocksOf(keys) = e
      <4>1. BlocksOf(keys) = [i \in Places(keys) |-> BlocksOf(keys)[i]]
        BY <1>1 DEF BlocksOf, Blocks
      <4> QED
        BY <2>2, <4>1 DEF EntryOf
    <3> HIDE DEF e
    <3> QED
      BY <2>2, <3>1 DEF Database, CalculateNumRowsAndColumns, Side, BlocksOf, TableOf
  <2> QED
    BY <2>1, <2>2
<1>3. MaxLen(e) = Max(lengths)
  BY DEF MaxLen
<1>4. lengths \subseteq Nat /\ lengths # {}
  <2>1. \A i \in Places(keys) : Len(e[i]) \in Nat
    <3>1. \A i \in Places(keys) : e[i] \in Seq(Alphabet(keys))
      BY EntryFacts
    <3> HIDE DEF e
    <3> QED
      BY <3>1
  <2>2. Places(keys) # {}
    BY SideFacts
  <2> HIDE DEF e
  <2> QED
    BY <2>1, <2>2
<1>5. IsFiniteSet(lengths)
  <2> DEFINE f == [i \in Places(keys) |-> Len(e[i])]
  <2>1. f \in Surjection(Places(keys), lengths)
    BY DEF Surjection
  <2>2. IsFiniteSet(Places(keys))
    BY SideFacts
  <2> HIDE DEF f, lengths
  <2> QED
    BY <2>1, <2>2, FS_Surjection
<1>6. Max(lengths) \in lengths /\ \A k \in lengths : k <= Max(lengths)
  <2>1. lengths \subseteq Int
    BY <1>4
  <2> HIDE DEF lengths
  <2> QED
    BY <1>4, <1>5, <2>1, MaxFacts
<1>7. \A i \in Places(keys) : e[i] = EntryOf(keys, merkle, i)
  OBVIOUS
<1>8. MaxLen(e) \in Nat /\ \A i \in Places(keys) : Len(e[i]) <= MaxLen(e)
  <2> HIDE DEF e
  <2> QED
    BY <1>3, <1>4, <1>6
<1> HIDE DEF d, e
<1>9. /\ d.NumRows = Side(keys) /\ d.NumColumns = Side(keys) /\ d.merkle = merkle
      /\ d.Root = IF merkle THEN BlocksOf(keys) ELSE <<>>
      /\ d.Entries = e /\ d.BlockSize = MaxLen(e)
  BY <1>2
<1> QED
  BY <1>7, <1>8, <1>9 DEF d

-----------------------------------------------------------------------------
(* Looking for a key in a ring.                                             *)

LEMMA RingLookup ==
  ASSUME NEW keys, Loadable(keys), NEW i, NEW B, NEW ring,
         IsRing(ring, B, PacketsAt(keys, i)), NEW email
  PROVE  /\ IsKeyRing(ring)
         /\ Holders(ring, email) # {} =>
              \E m \in 1..Len(keys) :
                 keys[m] = [ID |-> email, Packet |-> RecoverKeyFromBlock(ring, email)]
         /\ (\E m \in 1..Len(keys) :
               keys[m].ID = email /\ HashToIndex(email, Side(keys) * Side(keys)) = i)
              => Holders(ring, email) # {}
<1>1. PICK c \in Nat : /\ ring \in Seq(B) /\ Len(ring) = c * PacketLen
                       /\ \A p \in 1..c : Packet(ring, p) \in PacketsAt(keys, i)
                       /\ \A x \in PacketsAt(keys, i) : \E p \in 1..c : Packet(ring, p) = x
  BY DEF IsRing
<1>2. NumPackets(ring) = c /\ (Len(ring) % PacketLen) = 0
  <2>1. PacketLen \in Nat /\ PacketLen > 0
    BY LengthsAssumption
  <2>2. ((c * PacketLen) % PacketLen) = 0 /\ (c * PacketLen) \div PacketLen = c
    BY <2>1, Multiple
  <2> QED
    BY Zenon, <1>1, <2>2 DEF NumPackets
<1>3. \A x \in PacketsAt(keys, i) :
         \E m \in 1..Len(keys) : /\ keys[m] = [ID |-> EmailOf[x], Packet |-> x]
                                 /\ x \in DOMAIN EmailOf
  <2> TAKE x \in PacketsAt(keys, i)
  <2>1. PICK m \in 1..Len(keys) : x = keys[m].Packet
    BY DEF PacketsAt
  <2>2. IsKey(keys[m])
    BY DEF Loadable
  <2>3. keys[m] = [ID |-> EmailOf[x], Packet |-> x] /\ x \in DOMAIN EmailOf
    BY <2>1, <2>2 DEF IsKey
  <2> QED
    BY <2>3
<1>4. IsKeyRing(ring)
  BY <1>1, <1>2, <1>3 DEF IsKeyRing
<1>5. ASSUME Holders(ring, email) # {}
      PROVE  \E m \in 1..Len(keys) :
                keys[m] = [ID |-> email, Packet |-> RecoverKeyFromBlock(ring, email)]
  <2> DEFINE p == Min(Holders(ring, email))
  <2>1. Holders(ring, email) \subseteq Nat
    BY <1>2 DEF Holders
  <2>2. p \in Holders(ring, email)
    BY <1>5, <2>1, MinFacts
  <2> HIDE DEF p
  <2>3. p \in 1..c /\ EmailOf[Packet(ring, p)] = email
    BY <1>2, <2>2 DEF Holders
  <2>4. RecoverKeyFromBlock(ring, email) = Packet(ring, p)
    BY DEF RecoverKeyFromBlock, p
  <2> QED
    BY <1>1, <1>3, <2>3, <2>4
<1>6. ASSUME NEW m \in 1..Len(keys), keys[m].ID = email,
             HashToIndex(email, Side(keys) * Side(keys)) = i
      PROVE  Holders(ring, email) # {}
  <2>1. IsKey(keys[m])
    BY DEF Loadable
  <2> DEFINE x == keys[m].Packet
  <2>2. x \in DOMAIN EmailOf /\ EmailOf[x] = email
    <3>1. keys[m] = [ID |-> EmailOf[x], Packet |-> x] /\ x \in DOMAIN EmailOf
      BY <2>1 DEF IsKey
    <3> HIDE DEF x
    <3> QED
      BY <1>6, <3>1
  <2>3. x \in PacketsAt(keys, i)
    BY <1>6 DEF PacketsAt
  <2> HIDE DEF x
  <2>4. PICK p \in 1..c : Packet(ring, p) = x
    BY <1>1, <2>3
  <2> QED
    BY <1>2, <2>2, <2>4 DEF Holders
<1> QED
  BY <1>4, <1>5, <1>6
-----------------------------------------------------------------------------
(* The inductive invariant.                                                 *)

Columns(v) == 0..(Side(Files[v]) - 1)
Infos      == [server : Servers, version : Versions, info : {DBInfo(DbOf(v)) : v \in Versions}]

\* A server has the database of the files it has loaded last.
NetInv ==
  /\ deployment \in Deployments /\ id \in Ids
  /\ version \in [Servers -> Versions]
  /\ db = [k \in Servers |-> DbOf(version[k])]
  /\ crashed \subseteq Servers /\ reloaded \in BOOLEAN
  /\ client \in {"infos", "query", "answers", "done"}

\* The client has compared the infos of all servers.
Compared == client \in {"query", "answers"} \/ block # Nil

\* The infos are of different servers, each of a version the server has had,
\* and the client goes on when it has all.
InfosInv ==
  /\ infos \in Seq(Infos)
  /\ \A n \in 1..Len(infos) :
       /\ infos[n].info = DBInfo(DbOf(infos[n].version))
       /\ reloaded \/ infos[n].version = version[infos[n].server]
  /\ \A m, n \in 1..Len(infos) : infos[m].server = infos[n].server => m = n
  /\ Compared => Len(infos) = deployment.n
  /\ client = "infos" => block = Nil

\* The column is shared: it is the one that an odd number of servers is asked for.
Asked ==
  /\ queries # <<>> /\ DOMAIN queries = Servers
  /\ state.ix = HashToIndex(id, dbInfo.NumRows * dbInfo.NumColumns) \div dbInfo.NumColumns
  /\ state.iy = HashToIndex(id, dbInfo.NumRows * dbInfo.NumColumns) % dbInfo.NumColumns
  /\ \A k \in Servers :
       IF deployment.n = 2 THEN queries[k].dpf /\ queries[k].depth = BitsLen(dbInfo.NumColumns)
                           ELSE /\ ~queries[k].dpf
                                /\ queries[k].length \in Nat /\ queries[k].length >= dbInfo.NumColumns
  /\ \A j \in 0..(dbInfo.NumColumns - 1) :
       Odd({k \in Servers : j \in queries[k].bits}) <=> j = state.iy

CallInv ==
  /\ DOMAIN answers = Servers
  /\ client \in {"infos", "query"} => \A k \in Servers : answers[k] = <<>>
  /\ client = "answers" \/ (\E k \in Servers : answers[k] # <<>>) => Asked
  /\ (client = "done") = (result # Nil)
  /\ client = "done" => result.outcome \in Outcomes
  /\ block # Nil => client = "done"

\* An answer is computed from some version's database and some columns.
AnswersInv ==
  \A k \in Servers : answers[k] # <<>> =>
    \E v \in Versions : \E bits \in SUBSET Columns(v) : answers[k] = AnswerTo(DbOf(v), bits)

\* Servers that understand their queries and have the same files do not fail,
\* and answer about the columns that the client has asked them for.
Understanding == deployment.two = (deployment.n = 2)

ExactInv ==
  SameFile /\ Understanding =>
    /\ crashed = {}
    /\ \A k \in Servers : answers[k] # <<>> =>
         answers[k] = AnswerTo(DbOf(version[0]), queries[k].bits \cap Columns(version[0]))

\* A block that the client has verified is one of the first server's blocks.
FirstKeys == Files[infos[1].version]
BlockInv ==
  block # Nil /\ block.outcome = "block" /\ deployment.merkle =>
    \E i \in Places(FirstKeys) : block.data = BlocksOf(FirstKeys)[i]

IInv == NetInv /\ InfosInv /\ CallInv /\ AnswersInv /\ ExactInv /\ BlockInv

-----------------------------------------------------------------------------
(* What the constants are.                                                  *)

LEMMA VersionFacts ==
  ASSUME NEW v \in Versions
  PROVE  Servable(Files[v]) /\ \A n \in 1..Len(Files[v]) : IsKey(Files[v][n])
BY FilesAssumption, KeysAssumption DEF Servable, Loadable

LEMMA DeploymentFacts ==
  ASSUME NetInv
  PROVE  /\ deployment.n \in Nat /\ deployment.n >= 2
         /\ deployment.merkle \in BOOLEAN /\ deployment.two \in BOOLEAN
         /\ Servers # {} /\ 0 \in Servers /\ IsFiniteSet(Servers)
         /\ Cardinality(Servers) = deployment.n
<1>1. /\ deployment.n \in Nat /\ deployment.n >= 2
      /\ deployment.merkle \in BOOLEAN /\ deployment.two \in BOOLEAN
  BY DeploymentsAssumption DEF NetInv
<1>2. 0 \in Servers
  BY <1>1 DEF Servers
<1>3. IsFiniteSet(Servers) /\ Cardinality(Servers) = deployment.n
  <2> DEFINE b == deployment.n - 1
  <2>1. b \in Int /\ 0 \in Int /\ ~(0 > b) /\ b - 0 + 1 = deployment.n
    BY <1>1
  <2> HIDE DEF b
  <2>2. IsFiniteSet(0..b) /\ Cardinality(0..b) = b - 0 + 1
    BY <2>1, FS_Interval
  <2> QED
    BY <2>1, <2>2 DEF Servers, b
<1> QED
  BY <1>1, <1>2, <1>3

\* The database of a version, as the client and the servers see it.
LEMMA DbFacts ==
  ASSUME NetInv, NEW v \in Versions
  PROVE  /\ DbOf(v).NumRows = Side(Files[v]) /\ DbOf(v).NumColumns = Side(Files[v])
         /\ DbOf(v).merkle = deployment.merkle
         /\ DbOf(v).Root = IF deployment.merkle THEN BlocksOf(Files[v]) ELSE <<>>
         /\ \A i \in Places(Files[v]) : DbOf(v).Entries[i] = EntryOf(Files[v], deployment.merkle, i)
         /\ DbOf(v).BlockSize \in Nat
         /\ \A i \in Places(Files[v]) : Len(DbOf(v).Entries[i]) <= DbOf(v).BlockSize
         /\ Side(Files[v]) \in Nat /\ Side(Files[v]) > 0
         /\ Servable(Files[v])
<1>1. Servable(Files[v]) /\ deployment.merkle \in BOOLEAN
  BY VersionFacts, DeploymentFacts
<1>2. Side(Files[v]) \in Nat /\ Side(Files[v]) > 0
  BY <1>1, SideFacts
<1> QED
  BY <1>1, <1>2, DatabaseFacts DEF DbOf

-----------------------------------------------------------------------------
(* The initial state.                                                       *)

LEMMA InitInv ==
  ASSUME Init
  PROVE  IInv
<1>1. NetInv
  <2>1. version \in [Servers -> Versions]
    BY DEF Init
  <2> QED
    BY <2>1 DEF Init, NetInv
<1>2. InfosInv
  <2>1. infos = <<>> /\ client = "infos" /\ block = Nil
    BY DEF Init
  <2> QED
    BY <2>1 DEF InfosInv, Compared
<1>3. CallInv
  <2>1. /\ DOMAIN answers = Servers /\ \A k \in Servers : answers[k] = <<>>
        /\ result = Nil /\ block = Nil /\ client = "infos"
    BY DEF Init
  <2> QED
    BY <2>1 DEF CallInv
<1>4. AnswersInv /\ ExactInv /\ BlockInv
  <2>1. /\ \A k \in Servers : answers[k] = <<>>
        /\ block = Nil /\ crashed = {}
    BY DEF Init
  <2> QED
    BY <2>1 DEF AnswersInv, ExactInv, BlockInv
<1> QED
  BY <1>1, <1>2, <1>3, <1>4 DEF IInv

-----------------------------------------------------------------------------
(* The steps preserve each part of the invariant.                           *)

LEMMA NetStep ==
  ASSUME NetInv, [Next]_vars
  PROVE  NetInv'
<1>0. /\ deployment \in Deployments /\ id \in Ids
      /\ version \in [Servers -> Versions]
      /\ db = [k \in Servers |-> DbOf(version[k])]
      /\ crashed \subseteq Servers /\ reloaded \in BOOLEAN
      /\ client \in {"infos", "query", "answers", "done"}
  BY DEF NetInv
<1>1. CASE UNCHANGED vars
  BY <1>0, <1>1 DEF vars, NetInv, Servers, DbOf
<1>2. ASSUME NEW k \in Servers, GetInfo(k)
      PROVE  NetInv'
  BY <1>0, <1>2 DEF GetInfo, net, loaded, NetInv, Servers, DbOf
<1>3. ASSUME NEW k \in Servers, RpcFails(k)
      PROVE  NetInv'
  BY <1>0, <1>3 DEF RpcFails, Finish, net, loaded, NetInv, Servers, DbOf
<1>4. CASE CompareInfos
  BY <1>0, <1>4 DEF CompareInfos, Finish, net, loaded, NetInv, Servers, DbOf
<1>5. CASE Query
  BY <1>0, <1>5 DEF Query, net, loaded, NetInv, Servers, DbOf
<1>6. CASE Reconstruct
  <2>1. UNCHANGED <<net, loaded, crashed, reloaded>> /\ client' = "done"
    BY <1>6 DEF Reconstruct, Finish
  <2> QED
    BY <1>0, <2>1 DEF net, loaded, NetInv, Servers, DbOf
<1>7. ASSUME NEW k \in Servers, Answer(k)
      PROVE  NetInv'
  <2>1. UNCHANGED <<net, loaded, client, crashed, reloaded>>
    BY <1>7 DEF Answer
  <2> QED
    BY <1>0, <2>1 DEF net, loaded, NetInv, Servers, DbOf
<1>8. ASSUME NEW k \in Servers, AnswerPanics(k)
      PROVE  NetInv'
  <2>1. UNCHANGED <<net, loaded, client, reloaded>> /\ crashed' = crashed \cup {k}
    BY <1>8 DEF AnswerPanics
  <2> QED
    BY <1>0, <2>1 DEF net, loaded, NetInv, Servers, DbOf
<1>9. ASSUME NEW k \in Servers, Reload(k)
      PROVE  NetInv'
  <2>1. PICK v \in Versions : /\ version' = [version EXCEPT ![k] = v]
                              /\ db' = [db EXCEPT ![k] = DbOf(v)]
    BY <1>9 DEF Reload
  <2>2. UNCHANGED <<net, client, crashed>> /\ reloaded' = TRUE
    BY <1>9 DEF Reload
  <2>3. deployment' = deployment /\ id' = id /\ Servers' = Servers
        /\ \A w : DbOf(w)' = DbOf(w)
    BY <2>2 DEF net, Servers, DbOf
  <2>4. version' \in [Servers -> Versions]
    BY <1>0, <2>1
  <2>5. db' = [j \in Servers |-> DbOf(version'[j])]
    <3>1. \A j \in Servers : db'[j] = DbOf(version'[j])
      BY <1>0, <2>1
    <3>2. db' = [j \in Servers |-> db'[j]]
      BY <1>0, <2>1
    <3> QED
      BY <3>1, <3>2
  <2> QED
    BY <1>0, <2>2, <2>3, <2>4, <2>5 DEF NetInv
<1> QED
  BY <1>1, <1>2, <1>3, <1>4, <1>5, <1>6, <1>7, <1>8, <1>9
     DEF Next, ClientStep, ServerStep, Terminated

\* A step that keeps the infos and the files keeps what is known of the infos.
LEMMA InfosKept ==
  ASSUME NetInv, InfosInv, UNCHANGED <<infos, deployment>>,
         reloaded' \/ (version' = version /\ (reloaded' <=> reloaded)),
         Compared' => Len(infos) = deployment.n, client' = "infos" => block' = Nil
  PROVE  InfosInv'
<1>1. Infos' = Infos /\ \A v : DbOf(v)' = DbOf(v)
  BY DEF Infos, Servers, DbOf
<1>2. infos' = infos
  OBVIOUS
<1>3. /\ infos' \in Seq(Infos')
      /\ \A m, n \in 1..Len(infos') : infos'[m].server = infos'[n].server => m = n
      /\ Compared' => Len(infos') = deployment'.n
      /\ client' = "infos" => block' = Nil
  BY <1>1, <1>2 DEF InfosInv
<1>4. \A n \in 1..Len(infos') : /\ infos'[n].info = DBInfo(DbOf(infos'[n].version))
                                /\ reloaded' \/ infos'[n].version = version'[infos'[n].server]
  <2>1. \A n \in 1..Len(infos) : /\ infos[n].info = DBInfo(DbOf(infos[n].version))
                                 /\ reloaded \/ infos[n].version = version[infos[n].server]
    BY DEF InfosInv
  <2> QED
    BY <1>2, <2>1
<1> QED
  BY <1>1, <1>3, <1>4 DEF InfosInv

LEMMA InfosStep ==
  ASSUME NetInv, InfosInv, [Next]_vars
  PROVE  InfosInv'
<1>0. /\ client \in {"query", "answers"} \/ block # Nil => Len(infos) = deployment.n
      /\ client = "infos" => block = Nil
  BY DEF InfosInv, Compared
<1>1. CASE UNCHANGED vars
  BY <1>0, <1>1, InfosKept DEF Compared, vars
<1>2. ASSUME NEW k \in Servers, GetInfo(k)
      PROVE  InfosInv'
  <2> DEFINE new == [server |-> k, version |-> version[k], info |-> DBInfo(db[k])]
  <2>1. /\ client = "infos" /\ UNCHANGED <<client, version, block>>
        /\ deployment' = deployment /\ reloaded' = reloaded
        /\ \A n \in DOMAIN infos : infos[n].server # k
        /\ infos' = Append(infos, new)
    BY <1>2 DEF GetInfo, net, loaded
  <2>2. Infos' = Infos /\ \A v : DbOf(v)' = DbOf(v)
    BY <2>1 DEF Infos, Servers, DbOf
  <2>3. version[k] \in Versions /\ db[k] = DbOf(version[k])
    BY DEF NetInv
  <2>4. new \in Infos /\ new.server = k /\ new.version = version[k]
        /\ new.info = DBInfo(DbOf(new.version))
    BY <2>3 DEF Infos
  <2> HIDE DEF new
  <2>5. infos \in Seq(Infos) /\ Len(infos) \in Nat /\ DOMAIN infos = 1..Len(infos)
    BY DEF InfosInv
  <2>6. /\ infos' \in Seq(Infos) /\ Len(infos') = Len(infos) + 1
        /\ infos'[Len(infos) + 1] = new
        /\ \A n \in 1..Len(infos) : infos'[n] = infos[n]
    BY <2>1, <2>4, <2>5
  <2>7. \A n \in 1..Len(infos') : n \in 1..Len(infos) \/ n = Len(infos) + 1
    BY <2>5, <2>6
  <2>8. \A n \in 1..Len(infos') :
          /\ infos'[n].info = DBInfo(DbOf(infos'[n].version))
          /\ reloaded \/ infos'[n].version = version[infos'[n].server]
    BY <2>4, <2>6, <2>7 DEF InfosInv
  <2>9. \A m, n \in 1..Len(infos') : infos'[m].server = infos'[n].server => m = n
    BY <2>1, <2>4, <2>5, <2>6, <2>7 DEF InfosInv
  <2> QED
    BY <1>0, <2>1, <2>2, <2>6, <2>8, <2>9 DEF InfosInv, Compared
<1>3. ASSUME NEW k \in Servers, RpcFails(k)
      PROVE  InfosInv'
  BY <1>0, <1>3, InfosKept DEF Compared, RpcFails, Finish, net, loaded
<1>4. CASE CompareInfos
  BY <1>0, <1>4, InfosKept DEF Compared, CompareInfos, Finish, net, loaded
<1>5. CASE Query
  BY <1>0, <1>5, InfosKept DEF Compared, Query, net, loaded
<1>6. CASE Reconstruct
  <2>1. UNCHANGED <<net, loaded, infos, reloaded>> /\ client = "answers" /\ client' = "done"
    BY <1>6 DEF Reconstruct, Finish
  <2> QED
    BY <1>0, <2>1, InfosKept DEF Compared, net, loaded
<1>7. ASSUME NEW k \in Servers, Answer(k)
      PROVE  InfosInv'
  <2>1. UNCHANGED <<net, loaded, infos, reloaded, client, block>> /\ client = "answers"
    BY <1>7 DEF Answer, Waiting
  <2> QED
    BY <1>0, <2>1, InfosKept DEF Compared, net, loaded
<1>8. ASSUME NEW k \in Servers, AnswerPanics(k)
      PROVE  InfosInv'
  <2>1. UNCHANGED <<net, loaded, infos, reloaded, client, block>> /\ client = "answers"
    BY <1>8 DEF AnswerPanics, Waiting
  <2> QED
    BY <1>0, <2>1, InfosKept DEF Compared, net, loaded
<1>9. ASSUME NEW k \in Servers, Reload(k)
      PROVE  InfosInv'
  <2>1. UNCHANGED <<net, infos, client, block>> /\ reloaded' = TRUE
    BY <1>9 DEF Reload
  <2> QED
    BY <1>0, <2>1, InfosKept DEF Compared, net
<1> QED
  BY <1>1, <1>2, <1>3, <1>4, <1>5, <1>6, <1>7, <1>8, <1>9
     DEF Next, ClientStep, ServerStep, Terminated

-----------------------------------------------------------------------------
(* Sharing a column.                                                        *)

\* What the client goes by once it has all infos.
LEMMA FirstInfo ==
  ASSUME NetInv, InfosInv, client \in {"query", "answers"} \/ block # Nil
  PROVE  /\ infos[1].version \in Versions /\ infos[1].server \in Servers
         /\ dbInfo = DBInfo(DbOf(infos[1].version))
         /\ dbInfo.NumRows = Side(FirstKeys) /\ dbInfo.NumColumns = Side(FirstKeys)
         /\ dbInfo.BlockSize = DbOf(infos[1].version).BlockSize
         /\ dbInfo.merkle = deployment.merkle
         /\ dbInfo.Root = DbOf(infos[1].version).Root
         /\ reloaded \/ infos[1].version = version[infos[1].server]
<1>1. Len(infos) = deployment.n /\ infos \in Seq(Infos)
  BY DEF InfosInv, Compared
<1>2. 1 \in 1..Len(infos)
  BY <1>1, DeploymentFacts
<1>3. infos[1] \in Infos
  BY <1>1, <1>2
<1>4. infos[1].version \in Versions /\ infos[1].server \in Servers
  BY <1>3 DEF Infos
<1>5. /\ dbInfo = DBInfo(DbOf(infos[1].version))
      /\ reloaded \/ infos[1].version = version[infos[1].server]
  BY <1>2 DEF InfosInv, dbInfo
<1>6. /\ DbOf(infos[1].version).NumRows = Side(FirstKeys)
      /\ DbOf(infos[1].version).NumColumns = Side(FirstKeys)
      /\ DbOf(infos[1].version).merkle = deployment.merkle
  BY <1>4, DbFacts DEF FirstKeys
<1>7. /\ dbInfo.NumRows = DbOf(infos[1].version).NumRows
      /\ dbInfo.NumColumns = DbOf(infos[1].version).NumColumns
      /\ dbInfo.BlockSize = DbOf(infos[1].version).BlockSize
      /\ dbInfo.merkle = DbOf(infos[1].version).merkle
      /\ dbInfo.Root = DbOf(infos[1].version).Root
  BY <1>5 DEF DBInfo
<1> QED
  BY <1>4, <1>5, <1>6, <1>7

LEMMA FirstPlace ==
  ASSUME NetInv, InfosInv, client \in {"query", "answers"} \/ block # Nil
  PROVE  LET C == Side(FirstKeys)
             index == HashToIndex(id, C * C)
         IN  /\ index \in Places(FirstKeys)
             /\ index \div C \in 0..(C - 1) /\ (index % C) \in 0..(C - 1)
             /\ (index \div C) * C + (index % C) = index
<1> DEFINE C == Side(FirstKeys)
           index == HashToIndex(id, C * C)
<1>1. Servable(FirstKeys)
  BY FirstInfo, VersionFacts DEF FirstKeys
<1>2. C \in Nat /\ C > 0 /\ C * C \in Nat /\ C * C > 0
  BY <1>1, SideFacts
<1>3. Hash[id] \in Nat
  BY IdsAssumption DEF NetInv
<1>4. Places(FirstKeys) = 0..(C * C - 1)
  BY DEF Places
<1> HIDE DEF C
<1>5. index \in 0..(C * C - 1)
  <2> DEFINE P == C * C
  <2>1. P \in Nat /\ P > 0
    BY <1>2
  <2> HIDE DEF P
  <2>2. (Hash[id] % P) \in 0..(P - 1)
    BY <1>3, <2>1
  <2> QED
    BY <2>2 DEF P, HashToIndex
<1> HIDE DEF index
<1>6. index \in Nat /\ index < C * C
  BY <1>2, <1>5
<1>7. /\ index \div C \in Nat /\ (index % C) \in 0..(C - 1)
      /\ index = C * (index \div C) + (index % C)
  BY <1>2, <1>6
<1>8. index \div C \in 0..(C - 1)
  BY <1>2, <1>6, QuotientBelow
<1>9. C * (index \div C) = (index \div C) * C
  BY <1>2, <1>7
<1>10. /\ index \in Places(FirstKeys)
       /\ index \div C \in 0..(C - 1) /\ (index % C) \in 0..(C - 1)
       /\ (index \div C) * C + (index % C) = index
  BY <1>2, <1>4, <1>5, <1>7, <1>8, <1>9
<1> QED
  BY <1>10 DEF index, C

LEMMA OddSingle == \A x : Odd({x})
<1>1. \A x : Odd({} \cup {x})
  BY OddGrows, OddEmpty, FS_EmptySet
<1>2. \A x : {} \cup {x} = {x}
  OBVIOUS
<1> QED
  BY <1>1, <1>2

\* Two point functions that differ at iy.
LEMMA TwoShares ==
  ASSUME NEW share, NEW iy, NEW j, NEW q, DOMAIN q = {0, 1},
         q[0] = share, q[1] = Flip(share, iy)
  PROVE  Odd(Askers({0, 1}, q, j)) <=> j = iy
<1> DEFINE S == Askers({0, 1}, q, j)
<1>1. ASSUME j = iy
      PROVE  Odd(S)
  <2>1. S = {0} \/ S = {1}
    BY <1>1 DEF Flip, Askers
  <2> HIDE DEF S
  <2>2. ASSUME S = {0} PROVE Odd(S)
    BY Zenon, <2>2, OddSingle
  <2>3. ASSUME S = {1} PROVE Odd(S)
    BY Zenon, <2>3, OddSingle
  <2> QED
    BY <2>1, <2>2, <2>3
<1>2. ASSUME j # iy
      PROVE  ~Odd(S)
  <2>1. S = {} \/ S = {0, 1}
    BY <1>2 DEF Flip, Askers
  <2>2. ~Odd({0, 1})
    <3>1. {0} \cup {1} = {0, 1} /\ 1 \notin {0}
      OBVIOUS
    <3>2. IsFiniteSet({0})
      BY FS_Singleton
    <3>3. Odd({0} \cup {1}) <=> ~Odd({0})
      BY <3>1, <3>2, OddGrows
    <3> QED
      BY Zenon, <3>1, <3>3, OddSingle
  <2> HIDE DEF S
  <2>3. ASSUME S = {} PROVE ~Odd(S)
    BY Zenon, <2>3, OddEmpty
  <2>4. ASSUME S = {0, 1} PROVE ~Odd(S)
    BY Zenon, <2>2, <2>4
  <2> QED
    BY <2>1, <2>3, <2>4
<1> HIDE DEF S
<1>3. Odd(S) <=> j = iy
  BY <1>1, <1>2
<1> QED
  BY <1>3 DEF S

Summands(rand, iy, last) == [s \in 0..last |-> IF s < last THEN rand[s] ELSE {iy}]

\* Random vectors, and their sum with the vector of iy.
LEMMA ManyShares ==
  ASSUME NEW last \in Nat, NEW rand, NEW iy, NEW j, NEW q, DOMAIN q = 0..last,
         \A k \in 0..(last - 1) : q[k] = rand[k],
         q[last] = XorSum(Summands(rand, iy, last))
  PROVE  Odd(Askers(0..last, q, j)) <=> j = iy
<1> DEFINE f == Summands(rand, iy, last)
           A == {k \in 0..(last - 1) : j \in rand[k]}
           T == {s \in 0..last : j \in f[s]}
           S == Askers(0..last, q, j)
<1>1. IsFiniteSet(A) /\ last \notin A /\ IsFiniteSet(0..last)
  <2>1. IsFiniteSet(0..(last - 1)) /\ IsFiniteSet(0..last)
    BY FS_Interval
  <2>2. A \in SUBSET (0..(last - 1)) /\ last \notin 0..(last - 1)
    OBVIOUS
  <2> HIDE DEF A
  <2> QED
    BY <2>1, <2>2, FS_Subset
<1>2. \A k \in 0..last : k \in 0..(last - 1) \/ k = last
  OBVIOUS
<1>3. j \in q[last] <=> Odd(T)
  <2>1. DOMAIN f = 0..last /\ q[last] = XorSum(f)
    BY DEF Summands
  <2> HIDE DEF f
  <2> QED
    BY <1>1, <2>1, InXorSum
<1>4. Odd(T) <=> ~(Odd(A) <=> j = iy)
  <2>1. ASSUME j = iy
        PROVE  Odd(T) <=> ~Odd(A)
    <3>1. T = A \cup {last}
      BY <1>2, <2>1 DEF Summands
    <3> HIDE DEF T, A
    <3>2. Odd(A \cup {last}) <=> ~Odd(A)
      BY <1>1, OddGrows
    <3> QED
      BY Zenon, <3>1, <3>2
  <2>2. ASSUME j # iy
        PROVE  Odd(T) <=> Odd(A)
    <3>1. T = A
      BY <1>2, <2>2 DEF Summands
    <3> QED
      BY <3>1
  <2> HIDE DEF T, A
  <2> QED
    BY <2>1, <2>2
<1>5. Odd(S) <=> ~(Odd(A) <=> Odd(T))
  <2>1. ASSUME Odd(T)
        PROVE  Odd(S) <=> ~Odd(A)
    <3>1. j \in q[last]
      BY <1>3, <2>1
    <3>2. S = A \cup {last}
      BY <1>2, <3>1 DEF Askers
    <3> HIDE DEF S, A
    <3>3. Odd(A \cup {last}) <=> ~Odd(A)
      BY <1>1, OddGrows
    <3> QED
      BY Zenon, <3>2, <3>3
  <2>2. ASSUME ~Odd(T)
        PROVE  Odd(S) <=> Odd(A)
    <3>1. j \notin q[last]
      BY <1>3, <2>2
    <3>2. S = A
      BY <1>2, <3>1 DEF Askers
    <3> QED
      BY <3>2
  <2> HIDE DEF S, T, A
  <2> QED
    BY <2>1, <2>2
<1> HIDE DEF A, T, S
<1> QED
  BY <1>4, <1>5 DEF S

\* The vectors of one byte more than needed reach over all columns.
LEMMA PositionsFacts ==
  ASSUME NEW C \in Nat
  PROVE  Cardinality(Positions(C)) \in Nat /\ Cardinality(Positions(C)) >= C
<1> DEFINE q == C \div ByteBits
           r == C % ByteBits
           b == (q + 1) * ByteBits - 1
<1>1. ByteBits \in Nat /\ ByteBits > 0
  BY ByteBitsAssumption
<1>2. q \in Nat /\ r \in 0..(ByteBits - 1) /\ C = ByteBits * q + r
  BY <1>1
<1> HIDE DEF q, r
<1>3. (q + 1) * ByteBits = ByteBits * q + ByteBits /\ ByteBits * q \in Nat
  BY <1>1, <1>2
<1>4. b \in Int /\ 0 \in Int /\ ~(0 > b) /\ b - 0 + 1 >= C
  BY <1>1, <1>2, <1>3
<1> HIDE DEF b
<1>5. Cardinality(0..b) = b - 0 + 1
  BY <1>4, FS_Interval
<1> QED
  BY <1>4, <1>5 DEF Positions, b, q

Shares(q, iy, C) ==
  /\ DOMAIN q = Servers
  /\ \A k \in Servers : IF deployment.n = 2 THEN q[k].dpf /\ q[k].depth = BitsLen(C)
                                             ELSE ~q[k].dpf /\ q[k].length \in Nat /\ q[k].length >= C
  /\ \A j : Odd({k \in Servers : j \in q[k].bits}) <=> j = iy

\* Every server is asked for its share, and the shares add up to the column.
LEMMA QueryAsks ==
  ASSUME NetInv, InfosInv, Query
  PROVE  Asked'
<1> DEFINE C == dbInfo.NumColumns
           index == HashToIndex(id, dbInfo.NumRows * dbInfo.NumColumns)
           iy == index % C
<1>1. /\ client = "query" /\ UNCHANGED <<net, infos>>
      /\ state' = [ix |-> index \div C, iy |-> iy]
      /\ queries' \in IF deployment.n = 2 THEN dpfGen(iy, BitsLen(C)) ELSE secretShare(iy, C)
  BY DEF Query
<1>2. /\ deployment' = deployment /\ id' = id /\ dbInfo' = dbInfo /\ Servers' = Servers
      /\ state'.ix = index \div C /\ state'.iy = iy
  BY <1>1 DEF net, dbInfo, Servers
<1>3. C \in Nat
  <2>1. infos[1].version \in Versions /\ C = Side(FirstKeys)
    BY <1>1, FirstInfo
  <2> QED
    BY <2>1, DbFacts DEF FirstKeys
<1>4. deployment.n \in Nat /\ deployment.n >= 2 /\ 0 \in Servers
  BY DeploymentFacts
<1> HIDE DEF index, iy
<1>5. Shares(queries', iy, C)
  <2>1. ASSUME deployment.n = 2
        PROVE  Shares(queries', iy, C)
    <3>1. queries' \in dpfGen(iy, BitsLen(C)) /\ Servers = {0, 1}
      BY <1>1, <2>1 DEF Servers
    <3> HIDE DEF C
    <3>2. PICK share :
            queries' = [k \in Servers |-> [dpf |-> TRUE, depth |-> BitsLen(C), length |-> 2 ^ BitsLen(C),
                                           bits |-> IF k = 0 THEN share ELSE Flip(share, iy)]]
      BY <3>1 DEF dpfGen
    <3>3. /\ DOMAIN queries' = Servers
          /\ \A k \in Servers : queries'[k].dpf /\ queries'[k].depth = BitsLen(C)
          /\ queries'[0].bits = share /\ queries'[1].bits = Flip(share, iy)
      BY <3>1, <3>2
    <3> DEFINE q == [k \in {0, 1} |-> queries'[k].bits]
    <3>4. DOMAIN q = {0, 1} /\ q[0] = share /\ q[1] = Flip(share, iy)
      BY <3>3
    <3>5. \A k \in {0, 1} : q[k] = queries'[k].bits
      OBVIOUS
    <3> HIDE DEF q
    <3>6. ASSUME NEW j
          PROVE  Odd({k \in Servers : j \in queries'[k].bits}) <=> j = iy
      <4>1. {k \in Servers : j \in queries'[k].bits} = Askers({0, 1}, q, j)
        BY <3>1, <3>5 DEF Askers
      <4>2. Odd(Askers({0, 1}, q, j)) <=> j = iy
        BY <3>4, TwoShares
      <4> QED
        BY Zenon, <4>1, <4>2
    <3> QED
      BY <2>1, <3>3, <3>6 DEF Shares
  <2>2. ASSUME deployment.n # 2
        PROVE  Shares(queries', iy, C)
    <3> DEFINE last == deployment.n - 1
    <3>1. queries' \in secretShare(iy, C) /\ Servers = 0..last /\ last \in Nat
      BY <1>1, <1>4, <2>2 DEF Servers
    <3>2. Cardinality(Positions(C)) \in Nat /\ Cardinality(Positions(C)) >= C
      BY <1>3, PositionsFacts
    <3> HIDE DEF C
    <3>3. PICK rand :
            queries' = [k \in Servers |->
                          [dpf |-> FALSE, depth |-> 0, length |-> Cardinality(Positions(C)),
                           bits |-> IF k < last THEN rand[k]
                                    ELSE XorSum([s \in Servers |-> IF s < last THEN rand[s] ELSE {iy}])]]
      BY <3>1 DEF secretShare
    <3> HIDE DEF last
    <3>4. /\ DOMAIN queries' = Servers
          /\ \A k \in Servers : ~queries'[k].dpf /\ queries'[k].length \in Nat /\ queries'[k].length >= C
      BY <3>2, <3>3
    <3> DEFINE q == [k \in 0..last |-> queries'[k].bits]
    <3>5. \A k \in 0..(last - 1) : k \in 0..last /\ k < last
      BY <3>1
    <3>6. /\ last \in 0..last /\ ~(last < last)
          /\ \A k \in 0..last : q[k] = queries'[k].bits
      BY <3>1
    <3>7. /\ DOMAIN q = 0..last
          /\ \A k \in 0..(last - 1) : q[k] = rand[k]
          /\ q[last] = XorSum(Summands(rand, iy, last))
      <4>1. \A k \in 0..last : queries'[k].bits = IF k < last THEN rand[k]
                    ELSE XorSum(Summands(rand, iy, last))
        BY <3>1, <3>3 DEF Summands
      <4> QED
        BY <3>5, <3>6, <4>1
    <3> HIDE DEF q
    <3>8. ASSUME NEW j
          PROVE  Odd({k \in Servers : j \in queries'[k].bits}) <=> j = iy
      <4>1. {k \in Servers : j \in queries'[k].bits} = Askers(0..last, q, j)
        BY <3>1, <3>6 DEF Askers
      <4>2. Odd(Askers(0..last, q, j)) <=> j = iy
        BY <3>1, <3>7, ManyShares
      <4> QED
        BY Zenon, <4>1, <4>2
    <3> QED
      BY <2>2, <3>4, <3>8 DEF Shares
  <2> QED
    BY <2>1, <2>2
<1>6. queries' # <<>>
  BY <1>4, <1>5 DEF Shares
<1> QED
  BY <1>2, <1>5, <1>6 DEF Asked, Shares, index, iy, C

-----------------------------------------------------------------------------
(* The call.                                                                *)

LEMMA ReconstructOutcomes ==
  ASSUME NEW sum, NEW b \in reconstructPIR(sum)
  PROVE  /\ b # Nil /\ b.outcome \in {"block", "panic", "rejected"}
         /\ b.outcome = "block" => \E data : b = [outcome |-> "block", data |-> data]
<1>1. b = Panic \/ b = Rejected \/ \E data : b = [outcome |-> "block", data |-> data]
  BY DEF reconstructPIR
<1>2. \A data : [outcome |-> "block", data |-> data] # Nil
  BY DEF Nil
<1>3. Panic # Nil /\ Rejected # Nil /\ Panic.outcome = "panic" /\ Rejected.outcome = "rejected"
  BY DEF Panic, Rejected, Nil
<1> QED
  BY <1>1, <1>2, <1>3

LEMMA FindKeyOutcomes ==
  ASSUME NEW data, NEW r \in FindKey(data)
  PROVE  r # Nil /\ r.outcome \in Outcomes
<1>1. \/ r = Panic \/ r = [outcome |-> "notFound"] \/ r = [outcome |-> "invalid"]
      \/ r = [outcome |-> "key", key |-> RecoverKeyFromBlock(UnPadBlock(data), id)]
  BY DEF FindKey
<1> DEFINE key == RecoverKeyFromBlock(UnPadBlock(data), id)
<1> HIDE DEF key
<1>2. [outcome |-> "key", key |-> key] # Nil /\ [outcome |-> "key", key |-> key].outcome = "key"
  BY DEF Nil
<1>3. /\ [outcome |-> "notFound"] # Nil /\ [outcome |-> "invalid"] # Nil
      /\ Panic # Nil /\ Panic.outcome = "panic"
  BY DEF Nil, Panic
<1> QED
  BY <1>1, <1>2, <1>3 DEF key, Outcomes

LEMMA ReconstructEnds ==
  ASSUME Reconstruct
  PROVE  /\ client = "answers" /\ client' = "done"
         /\ block' # Nil /\ result' # Nil /\ result'.outcome \in Outcomes
<1>1. client = "answers" /\ client' = "done"
  BY DEF Reconstruct, Finish
<1>2. block' # Nil /\ block'.outcome \in {"block", "panic", "rejected"}
  <2>1. block' = Panic \/ \E sum : block' \in reconstructPIR(sum)
    BY DEF Reconstruct
  <2>2. Panic # Nil /\ Panic.outcome = "panic"
    BY DEF Panic, Nil
  <2> QED
    BY <2>1, <2>2, ReconstructOutcomes
<1>3. \/ block'.outcome # "block" /\ result' = block'
      \/ block'.outcome = "block" /\ \E r \in FindKey(block'.data) : result' = r
  BY DEF Reconstruct, Finish
<1>4. (\E r \in FindKey(block'.data) : result' = r)
        => result' # Nil /\ result'.outcome \in Outcomes
  BY FindKeyOutcomes
<1> QED
  BY <1>1, <1>2, <1>3, <1>4 DEF Outcomes

LEMMA AskedKept ==
  ASSUME Asked, UNCHANGED <<deployment, id, infos, state, queries>>
  PROVE  Asked'
BY DEF Asked, Servers, dbInfo

LEMMA CallStep ==
  ASSUME NetInv, InfosInv, CallInv, [Next]_vars
  PROVE  CallInv'
<1>0. /\ DOMAIN answers = Servers
      /\ client \in {"infos", "query"} => \A k \in Servers : answers[k] = <<>>
      /\ client = "answers" \/ (\E k \in Servers : answers[k] # <<>>) => Asked
      /\ (client = "done") = (result # Nil)
      /\ client = "done" => result.outcome \in Outcomes
      /\ block # Nil => client = "done"
      /\ client \in {"infos", "query", "answers", "done"}
  BY DEF CallInv, NetInv
<1>1. CASE UNCHANGED vars
  <2>1. UNCHANGED <<deployment, id, infos, state, queries>>
    BY <1>1 DEF vars
  <2>2. Asked => Asked'
    BY <2>1, AskedKept
  <2> QED
    BY <1>0, <1>1, <2>2 DEF vars, CallInv, Servers
<1>2. ASSUME NEW k \in Servers, GetInfo(k)
      PROVE  CallInv'
  <2>1. client = "infos" /\ UNCHANGED <<deployment, answers, client, block, result>>
    BY <1>2 DEF GetInfo, net
  <2> QED
    BY <1>0, <2>1 DEF CallInv, Servers
<1>3. ASSUME NEW k \in Servers, RpcFails(k)
      PROVE  CallInv'
  <2>1. /\ client \in {"infos", "answers"} /\ client' = "done"
        /\ UNCHANGED <<deployment, id, infos, state, queries, answers, block>>
        /\ result' = [outcome |-> "failed"]
    BY <1>3 DEF RpcFails, InfoAwaited, Waiting, Finish, net
  <2>2. Asked \/ \A s \in Servers : answers[s] = <<>>
    BY <1>0, <2>1 DEF CallInv
  <2>4. Asked => Asked'
    BY <1>0, <2>1, AskedKept
  <2>3. result' # Nil /\ result'.outcome \in Outcomes
    BY <2>1 DEF Nil, Outcomes
  <2> QED
    BY <1>0, <2>1, <2>2, <2>4, <2>3 DEF CallInv, Servers
<1>4. CASE CompareInfos
  <2>1. /\ client = "infos" /\ UNCHANGED <<deployment, answers, block>>
        /\ \/ client' = "query" /\ result' = result
           \/ client' = "done" /\ result' = [outcome |-> "unequal"]
    BY <1>4 DEF CompareInfos, Finish, net
  <2>2. [outcome |-> "unequal"] # Nil /\ [outcome |-> "unequal"].outcome \in Outcomes
    BY DEF Nil, Outcomes
  <2> QED
    BY <1>0, <2>1, <2>2 DEF CallInv, Servers
<1>5. CASE Query
  <2>1. /\ client = "query" /\ client' = "answers"
        /\ UNCHANGED <<deployment, answers, block, result>>
    BY <1>5 DEF Query, net
  <2>2. Asked'
    BY <1>5, QueryAsks
  <2> QED
    BY <1>0, <2>1, <2>2 DEF CallInv, Servers
<1>6. CASE Reconstruct
  <2>1. UNCHANGED <<deployment, id, infos, state, queries, answers>>
    BY <1>6 DEF Reconstruct, net
  <2>2. /\ client = "answers" /\ client' = "done"
        /\ result' # Nil /\ result'.outcome \in Outcomes
    BY <1>6, ReconstructEnds
  <2>3. Asked'
    BY <1>0, <2>1, <2>2, AskedKept
  <2> QED
    BY <1>0, <2>1, <2>2, <2>3 DEF CallInv, Servers
<1>7. ASSUME NEW k \in Servers, Answer(k)
      PROVE  CallInv'
  <2>1. /\ client = "answers" /\ UNCHANGED <<deployment, id, infos, state, queries, client, block, result>>
        /\ DOMAIN answers' = DOMAIN answers
    BY <1>7 DEF Answer, Waiting, net
  <2>2. Asked'
    BY <1>0, <2>1, AskedKept
  <2> QED
    BY <1>0, <2>1, <2>2 DEF CallInv, Servers
<1>8. ASSUME NEW k \in Servers, AnswerPanics(k)
      PROVE  CallInv'
  <2>1. /\ client = "answers"
        /\ UNCHANGED <<deployment, id, infos, state, queries, answers, client, block, result>>
    BY <1>8 DEF AnswerPanics, Waiting, net
  <2>2. Asked'
    BY <1>0, <2>1, AskedKept
  <2> QED
    BY <1>0, <2>1, <2>2 DEF CallInv, Servers
<1>9. ASSUME NEW k \in Servers, Reload(k)
      PROVE  CallInv'
  <2>1. UNCHANGED <<deployment, id, infos, state, queries, answers, client, block, result>>
    BY <1>9 DEF Reload, net
  <2>2. Asked => Asked'
    BY <2>1, AskedKept
  <2> QED
    BY <1>0, <2>1, <2>2 DEF CallInv, Servers
<1> QED
  BY <1>1, <1>2, <1>3, <1>4, <1>5, <1>6, <1>7, <1>8, <1>9
     DEF Next, ClientStep, ServerStep, Terminated

-----------------------------------------------------------------------------
(* The answers.                                                             *)

\* The answer of a server, from the files it has loaded.
LEMMA AnswerIs ==
  ASSUME NetInv, NEW k \in Servers, Answer(k)
  PROVE  \E bits \in Vectors(k) : /\ bits \subseteq Columns(version[k])
                                  /\ answers' = [answers EXCEPT ![k] = AnswerTo(DbOf(version[k]), bits)]
<1>1. version[k] \in Versions /\ db[k] = DbOf(version[k])
  BY DEF NetInv
<1>2. DbOf(version[k]).NumColumns = Side(Files[version[k]])
  BY <1>1, DbFacts
<1>3. PICK bits \in Vectors(k) : answers' = [answers EXCEPT ![k] = AnswerTo(db[k], bits)]
  BY DEF Answer
<1>4. bits \subseteq Columns(version[k])
  BY <1>1, <1>2 DEF Vectors, Columns
<1> QED
  BY <1>1, <1>3, <1>4

LEMMA AnswersStep ==
  ASSUME NetInv, CallInv, AnswersInv, [Next]_vars
  PROVE  AnswersInv'
<1>1. ASSUME UNCHANGED <<deployment, answers>>
      PROVE  AnswersInv'
  <2>1. /\ Servers' = Servers /\ answers' = answers
        /\ \A v : DbOf(v)' = DbOf(v) /\ Columns(v)' = Columns(v)
    BY <1>1 DEF Servers, DbOf, Columns, Side
  <2> QED
    BY <2>1 DEF AnswersInv
<1>2. ASSUME NEW k \in Servers, Answer(k)
      PROVE  AnswersInv'
  <2>1. deployment' = deployment
    BY <1>2 DEF Answer, net
  <2>2. Servers' = Servers /\ \A v : DbOf(v)' = DbOf(v) /\ Columns(v)' = Columns(v)
    BY <2>1 DEF Servers, DbOf, Columns, Side
  <2>3. PICK bits : /\ bits \subseteq Columns(version[k])
                    /\ answers' = [answers EXCEPT ![k] = AnswerTo(DbOf(version[k]), bits)]
    BY <1>2, AnswerIs
  <2>4. version[k] \in Versions /\ DOMAIN answers = Servers
    BY DEF NetInv, CallInv
  <2>5. ASSUME NEW s \in Servers, answers'[s] # <<>>
        PROVE  \E v \in Versions : \E c \in SUBSET Columns(v) : answers'[s] = AnswerTo(DbOf(v), c)
    <3>1. ASSUME s = k
          PROVE  answers'[s] = AnswerTo(DbOf(version[k]), bits)
      BY <2>3, <2>4, <3>1
    <3>2. ASSUME s # k
          PROVE  answers'[s] = answers[s]
      BY <2>3, <2>4, <3>2
    <3> QED
      BY <2>3, <2>4, <2>5, <3>1, <3>2 DEF AnswersInv
  <2> QED
    BY <2>2, <2>5 DEF AnswersInv
<1>3. ASSUME ~(\E k \in Servers : Answer(k))
      PROVE  UNCHANGED <<deployment, answers>>
  BY <1>3 DEF Next, ClientStep, ServerStep, Terminated, vars, net, GetInfo, RpcFails, CompareInfos,
              Query, Reconstruct, AnswerPanics, Reload
<1> QED
  BY <1>1, <1>2, <1>3

\* With the same files everywhere, the servers understand their queries.
LEMMA QueryUnderstood ==
  ASSUME NetInv, InfosInv, CallInv, SameFile, Understanding, client = "answers", NEW k \in Servers
  PROVE  /\ version[k] = version[0] /\ infos[1].version = version[0] /\ version[0] \in Versions
         /\ Vectors(k) = {queries[k].bits \cap Columns(version[0])}
         /\ ~MayOverrun(k)
<1>1. /\ version[k] = version[0] /\ version[k] \in Versions /\ db[k] = DbOf(version[k])
      /\ ~reloaded
  BY DEF NetInv, SameFile
<1>2. infos[1].version = version[0]
  BY <1>1, FirstInfo DEF SameFile
<1> DEFINE C == Side(Files[version[0]])
<1>3. /\ db[k].NumColumns = C /\ dbInfo.NumColumns = C /\ C \in Nat /\ C > 0
      /\ 0..(db[k].NumColumns - 1) = Columns(version[0])
  BY <1>1, <1>2, DbFacts, FirstInfo DEF FirstKeys, Columns
<1>4. Cardinality(0..(db[k].NumColumns - 1)) = C
  <2> DEFINE b == C - 1
  <2>1. b \in Int /\ 0 \in Int /\ ~(0 > b) /\ b - 0 + 1 = C
    BY <1>3
  <2> HIDE DEF b
  <2>2. Cardinality(0..b) = b - 0 + 1
    BY <2>1, FS_Interval
  <2> QED
    BY <1>3, <2>1, <2>2 DEF b
<1>5. Asked
  BY DEF CallInv
<1>6. IF deployment.n = 2 THEN queries[k].dpf /\ queries[k].depth = BitsLen(C)
                          ELSE ~queries[k].dpf /\ queries[k].length \in Nat /\ queries[k].length >= C
  BY <1>3, <1>5 DEF Asked
<1>7. Understood(queries[k], C)
  BY <1>6 DEF Understood, Understanding
<1>8. ~MayOverrun(k)
  BY <1>3, <1>6, <1>7 DEF MayOverrun, Understanding
<1>9. Vectors(k) = {queries[k].bits \cap Columns(version[0])}
  BY <1>3, <1>4, <1>7 DEF Vectors
<1> QED
  BY <1>1, <1>2, <1>8, <1>9

LEMMA ExactStep ==
  ASSUME NetInv, InfosInv, CallInv, ExactInv, [Next]_vars
  PROVE  ExactInv'
<1> SUFFICES ASSUME SameFile', Understanding'
             PROVE  /\ crashed' = {}
                    /\ \A k \in Servers' : answers'[k] # <<>> =>
                         answers'[k] = AnswerTo(DbOf(version[0])', queries'[k].bits \cap Columns(version[0])')
  BY DEF ExactInv
<1>1. /\ deployment' = deployment /\ version' = version /\ reloaded' = reloaded
  BY DEF SameFile, Next, ClientStep, ServerStep, Terminated, vars, net, loaded, GetInfo, RpcFails,
         CompareInfos, Query, Reconstruct, Answer, AnswerPanics, Reload
<1>2. /\ Servers' = Servers /\ DbOf(version[0])' = DbOf(version[0])
      /\ Columns(version[0])' = Columns(version[0]) /\ SameFile /\ Understanding
  BY <1>1 DEF Servers, DbOf, Columns, Side, SameFile, Understanding
<1>3. /\ crashed = {}
      /\ \A k \in Servers : answers[k] # <<>> =>
           answers[k] = AnswerTo(DbOf(version[0]), queries[k].bits \cap Columns(version[0]))
  BY <1>2 DEF ExactInv
<1>4. ASSUME UNCHANGED <<answers, queries, crashed>>
      PROVE  /\ crashed' = {}
             /\ \A k \in Servers : answers'[k] # <<>> =>
                  answers'[k] = AnswerTo(DbOf(version[0]), queries'[k].bits \cap Columns(version[0]))
  BY <1>3, <1>4
<1>5. ASSUME Query
      PROVE  crashed' = {} /\ \A k \in Servers : answers'[k] = <<>>
  BY <1>3, <1>5 DEF Query, CallInv
<1>6. ASSUME NEW s \in Servers, Answer(s)
      PROVE  /\ crashed' = {}
             /\ \A k \in Servers : answers'[k] # <<>> =>
                  answers'[k] = AnswerTo(DbOf(version[0]), queries'[k].bits \cap Columns(version[0]))
  <2>1. client = "answers" /\ UNCHANGED <<queries, crashed>> /\ DOMAIN answers = Servers
    BY <1>6 DEF Answer, Waiting, CallInv
  <2>2. Vectors(s) = {queries[s].bits \cap Columns(version[0])} /\ version[s] = version[0]
    BY <1>2, <2>1, QueryUnderstood
  <2>3. answers' = [answers EXCEPT ![s] = AnswerTo(DbOf(version[0]), queries[s].bits \cap Columns(version[0]))]
    BY <1>6, <2>2, AnswerIs
  <2> QED
    BY <1>3, <2>1, <2>3
<1>7. ASSUME NEW s \in Servers, AnswerPanics(s)
      PROVE  FALSE
  BY <1>2, <1>7, QueryUnderstood DEF AnswerPanics, Waiting
<1>8. ASSUME ~Query, ~(\E k \in Servers : Answer(k) \/ AnswerPanics(k))
      PROVE  UNCHANGED <<answers, queries, crashed>>
  BY <1>8 DEF Next, ClientStep, ServerStep, Terminated, vars, GetInfo, RpcFails, CompareInfos,
              Reconstruct, Reload
<1> QED
  BY <1>2, <1>4, <1>5, <1>6, <1>7, <1>8

-----------------------------------------------------------------------------
(* What the answers are made of.                                            *)

LEMMA PlaceInTable ==
  ASSUME NEW C \in Nat, NEW row \in 0..(C - 1), NEW j \in 0..(C - 1)
  PROVE  row * C + j \in 0..(C * C - 1)
<1>1. row * C \in Nat /\ (C - 1 - row) * C \in Nat
  OBVIOUS
<1>2. C * C = row * C + (C - 1 - row) * C + C
  OBVIOUS
<1> QED
  BY <1>1, <1>2

\* An answer has a block for every row.
LEMMA AnswerShape ==
  ASSUME NetInv, NEW v \in Versions, NEW bits
  PROVE  /\ Side(Files[v]) * DbOf(v).BlockSize \in Nat
         /\ DOMAIN AnswerTo(DbOf(v), bits) = 1..(Side(Files[v]) * DbOf(v).BlockSize)
         /\ Len(AnswerTo(DbOf(v), bits)) = Side(Files[v]) * DbOf(v).BlockSize
<1> DEFINE N == Side(Files[v]) * DbOf(v).BlockSize
           a == AnswerTo(DbOf(v), bits)
<1>1. DbOf(v).NumRows = Side(Files[v]) /\ DbOf(v).BlockSize \in Nat /\ Side(Files[v]) \in Nat
  BY DbFacts
<1>2. N \in Nat
  BY <1>1
<1>3. DOMAIN a = 1..N /\ a = [n \in 1..N |-> a[n]]
  BY <1>1 DEF AnswerTo
<1> HIDE DEF N, a
<1>4. a \in Seq({a[n] : n \in 1..N}) /\ Len(a) = N
  BY <1>2, <1>3
<1> QED
  BY <1>2, <1>3, <1>4 DEF N, a

\* An entry's byte, at a place of its block.
LEMMA AnswerByte ==
  ASSUME NetInv, NEW v \in Versions, NEW bits \in SUBSET Columns(v),
         NEW n \in 1..(Side(Files[v]) * DbOf(v).BlockSize)
  PROVE  \E row \in Columns(v), m \in 1..DbOf(v).BlockSize :
            /\ n = row * DbOf(v).BlockSize + m
            /\ AnswerTo(DbOf(v), bits)[n] =
                 XorSum([j \in bits |-> Byte(DbOf(v).Entries[row * Side(Files[v]) + j], m)])
<1> DEFINE C == Side(Files[v])
           B == DbOf(v).BlockSize
           row == (n - 1) \div B
           m == ((n - 1) % B) + 1
<1>1. /\ DbOf(v).NumRows = C /\ DbOf(v).NumColumns = C /\ B \in Nat /\ C \in Nat /\ C * B \in Nat
  BY DbFacts
<1>2. AnswerTo(DbOf(v), bits)[n] =
         XorSum([j \in bits |-> Byte(DbOf(v).Entries[row * C + j], m)])
  BY <1>1 DEF AnswerTo
<1>3. n \in 1..(C * B) /\ Columns(v) = 0..(C - 1)
  BY DEF Columns
<1> HIDE DEF B, C
<1>4. B > 0
  BY <1>1, <1>3
<1>5. n - 1 \in Nat /\ n - 1 < C * B
  BY <1>1, <1>3
<1> DEFINE x == n - 1
<1>6. x \in Nat /\ x < C * B /\ n = x + 1 /\ row = x \div B /\ m = (x % B) + 1
  BY <1>5
<1> HIDE DEF x, row, m
<1>7. row \in 0..(C - 1)
  BY <1>1, <1>4, <1>6, QuotientBelow
<1>8. (x % B) \in 0..(B - 1) /\ x = B * (x \div B) + (x % B) /\ x \div B \in Int
  BY <1>1, <1>4, <1>6
<1>9. m \in 1..B /\ x = B * row + (m - 1)
  BY <1>1, <1>6, <1>8
<1>10. n = row * B + m
  <2>1. B * row = row * B /\ row * B \in Int
    BY <1>1, <1>7
  <2> QED
    BY <1>1, <1>6, <1>9, <2>1
<1> QED
  BY <1>2, <1>3, <1>7, <1>9, <1>10 DEF B, C, row, m

\* Nothing in an answer is taken for a proof but proofs, and these have a place.
LEMMA ProofAtoms ==
  ASSUME NetInv, NEW v \in Versions, NEW bits \in SUBSET Columns(v),
         NEW n \in 1..(Side(Files[v]) * DbOf(v).BlockSize),
         NEW a \in AnswerTo(DbOf(v), bits)[n], a[1] = "proof"
  PROVE  a[2] \in DOMAIN a[3]
<1> DEFINE C == Side(Files[v])
           keys == Files[v]
<1>1. PICK row \in Columns(v), m \in 1..DbOf(v).BlockSize :
         AnswerTo(DbOf(v), bits)[n] = XorSum([j \in bits |-> Byte(DbOf(v).Entries[row * C + j], m)])
  BY AnswerByte
<1>2. PICK j \in bits : a \in Byte(DbOf(v).Entries[row * C + j], m)
  BY <1>1 DEF XorSum
<1>3. C \in Nat /\ row \in 0..(C - 1) /\ j \in 0..(C - 1)
  BY DbFacts DEF Columns
<1> DEFINE i == row * C + j
<1>4. i \in Places(keys)
  <2>1. i \in 0..(C * C - 1)
    BY <1>3, PlaceInTable
  <2> QED
    BY <2>1 DEF Places
<1> HIDE DEF i, keys
<1>5. Servable(keys) /\ deployment.merkle \in BOOLEAN
  BY VersionFacts, DeploymentFacts DEF keys
<1>6. DbOf(v).Entries[i] = EntryOf(keys, deployment.merkle, i)
  BY <1>4, DbFacts DEF keys
<1>7. EntryOf(keys, deployment.merkle, i) \in Seq(Alphabet(keys))
  BY <1>4, <1>5, EntryFacts
<1>8. PICK byte \in Alphabet(keys) : a \in byte
  <2>1. DbOf(v).BlockSize \in Nat /\ a \in Byte(DbOf(v).Entries[i], m)
    BY <1>2, DbFacts DEF i
  <2> DEFINE e == DbOf(v).Entries[i]
  <2>2. e \in Seq(Alphabet(keys)) /\ a \in Byte(e, m)
    BY <1>6, <1>7, <2>1
  <2> HIDE DEF e
  <2>3. m <= Len(e) /\ a \in e[m]
    BY <2>2 DEF Byte, Zero
  <2> QED
    BY <2>1, <2>2, <2>3
<1>9. CASE byte \in BytesOf(keys)
  <2>1. PICK p \in (1..Len(keys)) \X (1..PacketLen) : byte = keys[p[1]].Packet[p[2]]
    BY <1>9 DEF BytesOf
  <2>2. IsKey(keys[p[1]]) /\ p[2] \in 1..PacketLen
    BY <1>5 DEF Servable, Loadable
  <2> QED
    BY <1>8, <2>1, <2>2 DEF IsKey
<1>10. CASE byte = Mark
  BY <1>8, <1>10 DEF Mark
<1>11. ASSUME NEW k \in Places(keys), byte = ProofOf(keys, k)
       PROVE  a[2] \in DOMAIN a[3]
  <2>1. \E index \in Places(keys) : \E hashes :
           /\ DOMAIN hashes = Places(keys)
           /\ ProofOf(keys, k) = {<<"proof", index, hashes>>}
    BY <1>5, ProofFacts
  <2> QED
    BY <1>8, <1>11, <2>1
<1> QED
  BY <1>8, <1>9, <1>10, <1>11 DEF Alphabet

-----------------------------------------------------------------------------
(* The block.                                                               *)

\* When all have answered, the client reads within the answers.
LEMMA SumRead ==
  ASSUME NetInv, InfosInv, CallInv, AnswersInv, client = "answers",
         \A k \in Servers : answers[k] # <<>>, ~TooShort
  PROVE  /\ dbInfo.BlockSize \in Nat /\ Offset \in Nat
         /\ \A k \in Servers :
              \E v \in Versions : \E bits \in SUBSET Columns(v) :
                 /\ answers[k] = AnswerTo(DbOf(v), bits)
                 /\ \A m \in 1..dbInfo.BlockSize : Offset + m \in 1..(Side(Files[v]) * DbOf(v).BlockSize)
<1> DEFINE C == Side(FirstKeys)
           index == HashToIndex(id, C * C)
           B == dbInfo.BlockSize
<1>1. index \div C \in 0..(C - 1) /\ dbInfo.NumRows = C /\ dbInfo.NumColumns = C
  BY FirstPlace, FirstInfo
<1>2. state.ix = index \div C
  BY <1>1 DEF CallInv, Asked
<1>3. infos[1].version \in Versions /\ B = DbOf(infos[1].version).BlockSize
  BY FirstInfo
<1>4. B \in Nat
  BY <1>3, DbFacts
<1>5. state.ix \in Nat
  BY <1>1, <1>2
<1>6. Offset \in Nat
  <2>1. state.ix * B \in Nat
    BY <1>4, <1>5
  <2> QED
    BY <2>1 DEF Offset
<1> HIDE DEF B
<1>7. ASSUME NEW k \in Servers
      PROVE  \E v \in Versions : \E bits \in SUBSET Columns(v) :
                /\ answers[k] = AnswerTo(DbOf(v), bits)
                /\ \A m \in 1..B : Offset + m \in 1..(Side(Files[v]) * DbOf(v).BlockSize)
  <2>1. PICK v \in Versions : \E bits \in SUBSET Columns(v) : answers[k] = AnswerTo(DbOf(v), bits)
    BY DEF AnswersInv
  <2>2. PICK bits \in SUBSET Columns(v) : answers[k] = AnswerTo(DbOf(v), bits)
    BY <2>1
  <2> DEFINE N == Side(Files[v]) * DbOf(v).BlockSize
  <2>3. N \in Nat /\ Len(answers[k]) = N
    BY <2>2, AnswerShape
  <2>4. ~(Len(answers[k]) < Offset + B)
    BY DEF TooShort, B
  <2> HIDE DEF N
  <2>5. \A m \in 1..B : Offset + m \in 1..N
    BY <1>4, <1>6, <2>3, <2>4
  <2> QED
    BY <2>2, <2>5 DEF N
<1> QED
  BY <1>4, <1>6, <1>7 DEF B

\* Nothing in the sum is taken for a proof but what an answer has as one.
LEMMA SumProofs ==
  ASSUME NetInv, InfosInv, CallInv, AnswersInv, client = "answers",
         \A k \in Servers : answers[k] # <<>>, ~TooShort,
         NEW m \in 1..dbInfo.BlockSize, NEW a \in Sum[m], a[1] = "proof"
  PROVE  a[2] \in DOMAIN a[3]
<1>1. PICK k \in Servers : a \in answers[k][Offset + m]
  BY DEF Sum, XorSum
<1>2. PICK v \in Versions :
         \E bits \in SUBSET Columns(v) :
            /\ answers[k] = AnswerTo(DbOf(v), bits)
            /\ Offset + m \in 1..(Side(Files[v]) * DbOf(v).BlockSize)
  BY SumRead
<1>3. PICK bits \in SUBSET Columns(v) :
         /\ answers[k] = AnswerTo(DbOf(v), bits)
         /\ Offset + m \in 1..(Side(Files[v]) * DbOf(v).BlockSize)
  BY <1>2
<1> QED
  BY <1>1, <1>3, ProofAtoms

\* What the verification of a proof in the sum accepts is a block.
LEMMA VerifiedBlock ==
  ASSUME NetInv, InfosInv, CallInv, AnswersInv, Reconstruct, deployment.merkle,
         block'.outcome = "block"
  PROVE  \E i \in Places(FirstKeys) : block'.data = BlocksOf(FirstKeys)[i]
<1>1. /\ client = "answers" /\ \A k \in Servers : answers[k] # <<>>
      /\ IF TooShort THEN block' = Panic ELSE block' \in reconstructPIR(Sum)
  BY DEF Reconstruct
<1>2. ~TooShort /\ block' \in reconstructPIR(Sum)
  BY <1>1 DEF Panic
<1>3. /\ infos[1].version \in Versions /\ dbInfo.merkle = deployment.merkle
      /\ dbInfo.Root = DbOf(infos[1].version).Root
  BY <1>1, FirstInfo
<1>4. dbInfo.Root = BlocksOf(FirstKeys) /\ DOMAIN dbInfo.Root = Places(FirstKeys)
  <2>1. dbInfo.Root = BlocksOf(FirstKeys) /\ Servable(FirstKeys)
    BY <1>3, DbFacts DEF FirstKeys
  <2>2. DOMAIN BlocksOf(FirstKeys) = Places(FirstKeys)
    BY <2>1, SideFacts, BlockFacts
  <2> QED
    BY <2>1, <2>2
<1> DEFINE unpadded == UnPadBlock(Sum)
           data == SubSeq(unpadded, 1, Len(unpadded) - ProofLen)
           proof == unpadded[Len(unpadded)]
<1>5. /\ ~UnPadPanics(Sum) /\ ~(Len(unpadded) < ProofLen) /\ IsProof(proof)
      /\ VerifyProof(data, proof, dbInfo.Root) /\ block'.data = data
  <2> HIDE DEF data, proof
  <2>1. \A b \in {Panic, Rejected} : b.outcome # "block"
    BY DEF Panic, Rejected
  <2> QED
    BY <1>2, <1>3, <2>1 DEF reconstructPIR, data, proof
<1>6. \E m \in 1..dbInfo.BlockSize : proof = Sum[m]
  <2> DEFINE B == dbInfo.BlockSize
             last == Max(Significant(Sum))
  <2>1. B \in Nat
    BY <1>1, <1>2, SumRead
  <2> HIDE DEF B
  <2>2. Len(Sum) = B /\ DOMAIN Sum = 1..B
    <3>1. Sum = [m \in 1..B |-> Sum[m]]
      BY DEF Sum, B
    <3> DEFINE s == Sum
    <3> HIDE DEF s
    <3>2. s = [m \in 1..B |-> s[m]]
      BY <3>1 DEF s
    <3>3. s \in Seq({s[m] : m \in 1..B}) /\ Len(s) = B /\ DOMAIN s = 1..B
      BY <2>1, <3>2
    <3> QED
      BY <3>3 DEF s
  <2>3. Significant(Sum) \subseteq 1..B /\ Significant(Sum) # {}
    BY <1>5, <2>2 DEF Significant, UnPadPanics
  <2>4. IsFiniteSet(Significant(Sum)) /\ Significant(Sum) \subseteq Int
    <3>1. IsFiniteSet(1..B)
      BY <2>1, FS_Interval
    <3> QED
      BY <2>1, <2>3, <3>1, FS_Subset
  <2>5. last \in 1..B
    BY <2>3, <2>4, MaxFacts
  <2> HIDE DEF last
  <2>6. unpadded = SubSeq(Sum, 1, last - 1)
    BY DEF UnPadBlock, last
  <2>7. /\ Len(unpadded) = last - 1
        /\ \A n \in 1..(last - 1) : unpadded[n] = Sum[n]
    <3> DEFINE s == Sum
    <3>1. s \in Seq({s[m] : m \in 1..B}) /\ Len(s) = B
      <4>1. s = [m \in 1..B |-> s[m]]
        BY DEF Sum, B
      <4> HIDE DEF s
      <4> QED
        BY <2>1, <4>1
    <3> HIDE DEF s
    <3>2. /\ Len(SubSeq(s, 1, last - 1)) = last - 1
          /\ \A n \in 1..(last - 1) : SubSeq(s, 1, last - 1)[n] = s[n]
      BY <2>1, <2>5, <3>1
    <3> QED
      BY <2>6, <3>2 DEF s
  <2>8. last - 1 \in 1..(last - 1) /\ last - 1 \in 1..B
    BY <1>5, <2>1, <2>5, <2>7 DEF ProofLen
  <2>9. proof = Sum[last - 1]
    BY <2>7, <2>8
  <2> QED
    BY <2>8, <2>9 DEF B
<1> HIDE DEF data, proof
<1>7. PICK a \in proof : [a[3] EXCEPT ![a[2]] = data] = dbInfo.Root
  BY <1>5 DEF VerifyProof
<1>8. a[1] = "proof"
  BY <1>5, <1>7 DEF IsProof
<1>9. a[2] \in DOMAIN a[3]
  BY <1>1, <1>2, <1>6, <1>7, <1>8, SumProofs
<1>10. a[2] \in DOMAIN dbInfo.Root /\ dbInfo.Root[a[2]] = data
  BY <1>7, <1>9
<1> QED
  BY <1>4, <1>5, <1>10

LEMMA BlockStep ==
  ASSUME NetInv, InfosInv, CallInv, AnswersInv, BlockInv, [Next]_vars
  PROVE  BlockInv'
<1>1. ASSUME UNCHANGED <<infos, block, deployment>>
      PROVE  BlockInv'
  BY <1>1 DEF BlockInv, FirstKeys, Places, BlocksOf
<1>2. ASSUME NEW k \in Servers, GetInfo(k)
      PROVE  BlockInv'
  BY <1>2 DEF GetInfo, CallInv, BlockInv
<1>3. CASE Reconstruct
  <2>1. infos' = infos /\ deployment' = deployment
    BY <1>3 DEF Reconstruct, net
  <2>2. FirstKeys' = FirstKeys
    BY <2>1 DEF FirstKeys
  <2>3. block'.outcome = "block" /\ deployment.merkle =>
           \E i \in Places(FirstKeys) : block'.data = BlocksOf(FirstKeys)[i]
    BY <1>3, VerifiedBlock
  <2> QED
    BY <2>1, <2>2, <2>3 DEF BlockInv
<1>4. ASSUME ~Reconstruct, ~(\E k \in Servers : GetInfo(k))
      PROVE  UNCHANGED <<infos, block, deployment>>
  BY <1>4 DEF Next, ClientStep, ServerStep, Terminated, vars, net, RpcFails, CompareInfos, Query,
              Answer, AnswerPanics, Reload
<1> QED
  BY <1>1, <1>2, <1>3, <1>4

-----------------------------------------------------------------------------
(* What holds whatever the servers have loaded.                             *)

LEMMA NextInv ==
  ASSUME IInv, [Next]_vars
  PROVE  IInv'
BY NetStep, InfosStep, CallStep, AnswersStep, ExactStep, BlockStep DEF IInv

LEMMA AlwaysInv == Spec => []IInv
BY InitInv, NextInv, PTL DEF Spec

\* There are never more infos than servers.
LEMMA InfosBound ==
  ASSUME NetInv, InfosInv
  PROVE  Len(infos) <= deployment.n
<1> DEFINE f == [m \in 1..Len(infos) |-> infos[m].server]
<1>1. f \in [1..Len(infos) -> Servers]
  <2>1. \A m \in 1..Len(infos) : infos[m] \in Infos
    BY DEF InfosInv
  <2> QED
    BY <2>1 DEF Infos
<1>2. \A m, n \in 1..Len(infos) : f[m] = f[n] => m = n
  BY DEF InfosInv
<1> HIDE DEF f
<1>3. f \in Injection(1..Len(infos), Servers)
  BY <1>1, <1>2 DEF Injection, IsInjective
<1>4. IsFiniteSet(Servers) /\ Cardinality(Servers) = deployment.n /\ deployment.n \in Nat
  BY DeploymentFacts
<1>5. Cardinality(1..Len(infos)) <= Cardinality(Servers)
  BY <1>3, <1>4, FS_Injection
<1>6. Len(infos) \in Nat
  BY DEF InfosInv
<1>7. Cardinality(1..Len(infos)) = Len(infos)
  <2> DEFINE b == Len(infos)
  <2>1. b \in Nat
    BY <1>6
  <2> HIDE DEF b
  <2>2. Cardinality(1..b) = IF 1 > b THEN 0 ELSE b - 1 + 1
    BY <2>1, FS_Interval
  <2>3. Cardinality(1..b) = b
    BY <2>1, <2>2
  <2> QED
    BY <2>3 DEF b
<1> QED
  BY <1>4, <1>5, <1>7

\* The retrieval has the shape the code gives it: queries exist once the client
\* has shared the column, no server is asked twice, and a client that has ended
\* has an outcome.
THEOREM TypeCorrect == Spec => []TypeOK
<1>1. ASSUME IInv
      PROVE  TypeOK
  <2>1. NetInv /\ InfosInv /\ CallInv
    BY <1>1 DEF IInv
  <2>2. Len(infos) <= deployment.n
    BY <2>1, InfosBound
  <2>3. client = "answers" => DOMAIN queries = Servers
    BY <2>1 DEF CallInv, Asked
  <2>4. \A k \in Servers : answers[k] # <<>> => queries # <<>>
    BY <2>1 DEF CallInv, Asked
  <2>5. DOMAIN db = Servers
    BY <2>1 DEF NetInv
  <2> QED
    BY <2>1, <2>2, <2>3, <2>4, <2>5 DEF TypeOK, NetInv, CallInv
<1> QED
  BY <1>1, AlwaysInv, PTL

\* Whatever files the servers have loaded meanwhile, a block whose Merkle proof
\* the client accepts is a block of the database whose root it was first given:
\* nothing a sum of answers contains verifies as another block.
THEOREM AcceptedStored == Spec => []AcceptedIsStored
<1>1. ASSUME IInv
      PROVE  AcceptedIsStored
  <2> SUFFICES ASSUME deployment.merkle, block # Nil, block.outcome = "block"
               PROVE  \E i \in DOMAIN dbInfo.Root : block.data = dbInfo.Root[i]
    BY DEF AcceptedIsStored
  <2>1. NetInv /\ InfosInv /\ CallInv /\ BlockInv
    BY <1>1 DEF IInv
  <2>3. infos[1].version \in Versions /\ dbInfo.Root = DbOf(infos[1].version).Root
    BY <2>1, FirstInfo
  <2>4. dbInfo.Root = BlocksOf(FirstKeys) /\ Servable(FirstKeys)
    BY <2>1, <2>3, DbFacts DEF FirstKeys
  <2>5. DOMAIN BlocksOf(FirstKeys) = Places(FirstKeys)
    BY <2>4, SideFacts, BlockFacts
  <2> QED
    BY <2>1, <2>4, <2>5 DEF BlockInv
<1> QED
  BY <1>1, AlwaysInv, PTL

-----------------------------------------------------------------------------
(* The key in the block.                                                    *)

\* A block gives back the bucket that was padded.
LEMMA BlockUnpads ==
  ASSUME NEW keys, Servable(keys), NEW i \in Places(keys)
  PROVE  IF TableOf(keys)[i] = <<>>
         THEN BlocksOf(keys)[i] = <<>> /\ UnPadPanics(BlocksOf(keys)[i])
         ELSE ~UnPadPanics(BlocksOf(keys)[i]) /\ UnPadBlock(BlocksOf(keys)[i]) = TableOf(keys)[i]
<1> DEFINE s == TableOf(keys)[i]
           t == BlocksOf(keys)[i]
           A == Alphabet(keys)
<1>1. t = (IF s = <<>> THEN <<>> ELSE Append(s, Mark)) /\ t \in Seq(A) /\ s \in Seq(A)
  BY BlockFacts
<1> HIDE DEF s, t, A
<1>2. ASSUME s = <<>>
      PROVE  t = <<>> /\ UnPadPanics(t)
  BY <1>1, <1>2 DEF UnPadPanics, Significant
<1>3. ASSUME s # <<>>
      PROVE  ~UnPadPanics(t) /\ UnPadBlock(t) = s
  <2>1. t = Append(s, Mark)
    BY <1>1, <1>3
  <2>2. Len(s) \in Nat /\ Len(t) = Len(s) + 1 /\ t[Len(s) + 1] = Mark
        /\ \A m \in 1..Len(s) : t[m] = s[m]
    BY <1>1, <2>1
  <2>3. IsPadded(t, s)
    BY <2>2 DEF IsPadded
  <2> QED
    BY <1>1, <2>3, UnPadded
<1> QED
  BY <1>2, <1>3 DEF s, t

LEMMA KeyFound ==
  ASSUME NEW data, NEW r \in FindKey(data), r.outcome = "key"
  PROVE  /\ ~UnPadPanics(data) /\ Holders(UnPadBlock(data), id) # {}
         /\ r.key = RecoverKeyFromBlock(UnPadBlock(data), id)
<1> DEFINE ring == UnPadBlock(data)
           key == RecoverKeyFromBlock(ring, id)
<1> HIDE DEF ring, key
<1>1. /\ Panic.outcome # "key"
      /\ [outcome |-> "notFound"].outcome # "key" /\ [outcome |-> "invalid"].outcome # "key"
      /\ [outcome |-> "key", key |-> key].key = key
  BY DEF Panic
<1>2. \/ r = Panic \/ r = [outcome |-> "notFound"] \/ r = [outcome |-> "invalid"]
      \/ /\ ~UnPadPanics(data) /\ Holders(ring, id) # {}
         /\ r = [outcome |-> "key", key |-> key]
  BY DEF FindKey, ring, key
<1>3. /\ ~UnPadPanics(data) /\ Holders(ring, id) # {}
      /\ r = [outcome |-> "key", key |-> key]
  BY <1>1, <1>2
<1> QED
  BY <1>1, <1>3 DEF ring, key

\* A key of a ring is one that is stored.
LEMMA AnyStored ==
  ASSUME NEW ring, NEW email, Holders(ring, email) # {}
  PROVE  \E v \in Versions : \E n \in DOMAIN Files[v] :
            Files[v][n] = [ID |-> email, Packet |-> RecoverKeyFromBlock(ring, email)]
<1> DEFINE p == Min(Holders(ring, email))
           x == Packet(ring, p)
<1>1. Holders(ring, email) \subseteq Nat
  BY DEF Holders
<1>2. p \in Holders(ring, email)
  BY <1>1, MinFacts
<1> HIDE DEF p
<1>3. x \in DOMAIN EmailOf /\ EmailOf[x] = email /\ x = RecoverKeyFromBlock(ring, email)
  BY <1>2 DEF Holders, RecoverKeyFromBlock, p
<1>4. PICK v \in Versions : \E n \in 1..Len(Files[v]) : Files[v][n].Packet = x
  BY <1>3, EmailsAssumption
<1>5. PICK n \in 1..Len(Files[v]) : Files[v][n].Packet = x
  BY <1>4
<1>6. n \in DOMAIN Files[v] /\ IsKey(Files[v][n])
  <2> DEFINE keys == Files[v]
  <2>1. Servable(keys) /\ \A m \in 1..Len(keys) : IsKey(keys[m])
    BY VersionFacts
  <2> HIDE DEF keys
  <2>2. DOMAIN keys = 1..Len(keys)
    BY <2>1 DEF Servable, Loadable
  <2> QED
    BY <2>1, <2>2 DEF keys
<1>7. Files[v][n] = [ID |-> EmailOf[x], Packet |-> x]
  BY <1>5, <1>6 DEF IsKey
<1> QED
  BY <1>3, <1>6, <1>7

\* A key found in a block of a file is a key of that file.
LEMMA BlockStored ==
  ASSUME NEW keys, Servable(keys), NEW i \in Places(keys), NEW email,
         ~UnPadPanics(BlocksOf(keys)[i]),
         Holders(UnPadBlock(BlocksOf(keys)[i]), email) # {}
  PROVE  \E n \in DOMAIN keys :
            keys[n] = [ID |-> email,
                       Packet |-> RecoverKeyFromBlock(UnPadBlock(BlocksOf(keys)[i]), email)]
<1> DEFINE ring == UnPadBlock(BlocksOf(keys)[i])
<1>1. ring = TableOf(keys)[i]
  BY BlockUnpads
<1>2. IsRing(ring, BytesOf(keys), PacketsAt(keys, i)) /\ Loadable(keys)
  BY <1>1, TableFacts DEF Servable
<1> HIDE DEF ring
<1>3. \E m \in 1..Len(keys) : keys[m] = [ID |-> email, Packet |-> RecoverKeyFromBlock(ring, email)]
  <2>1. Holders(ring, email) # {}
    BY DEF ring
  <2> QED
    BY <1>2, <2>1, RingLookup
<1>4. DOMAIN keys = 1..Len(keys)
  BY <1>2 DEF Loadable
<1> QED
  BY <1>3, <1>4 DEF ring

LEMMA DeliveredStep ==
  ASSUME IInv, IInv', DeliveredIsStored, [Next]_vars
  PROVE  DeliveredIsStored'
<1>0. NetInv /\ InfosInv /\ CallInv /\ AnswersInv
  BY DEF IInv
<1>1. ASSUME client = "done"
      PROVE  DeliveredIsStored'
  <2>1. UNCHANGED <<deployment, id, infos, client, result>>
    BY <1>1 DEF Next, ClientStep, ServerStep, Terminated, vars, net, GetInfo, RpcFails, InfoAwaited, Waiting,
                CompareInfos, Query, Reconstruct, Answer, AnswerPanics, Reload
  <2> QED
    BY <2>1 DEF DeliveredIsStored
<1>2. ASSUME client # "done", client' = "done", result'.outcome = "key"
      PROVE  DeliveredIsStored'
  <2>1. Reconstruct
    <3>1. [outcome |-> "failed"].outcome # "key" /\ [outcome |-> "unequal"].outcome # "key"
      OBVIOUS
    <3> QED
      BY <1>2, <3>1 DEF Next, ClientStep, ServerStep, Terminated, vars, GetInfo, RpcFails, Finish,
                        CompareInfos, Query, Answer, AnswerPanics, Reload
  <2>2. /\ deployment' = deployment /\ id' = id /\ infos' = infos
        /\ \/ block'.outcome # "block" /\ result' = block'
           \/ block'.outcome = "block" /\ result' \in FindKey(block'.data)
    BY <2>1 DEF Reconstruct, net, Finish
  <2>3. block'.outcome = "block" /\ result' \in FindKey(block'.data)
    <3>1. block' = Panic \/ \E sum : block' \in reconstructPIR(sum)
      BY <2>1 DEF Reconstruct
    <3>2. Panic.outcome = "panic"
      BY DEF Panic
    <3> QED
      BY <1>2, <2>2, <3>1, <3>2, ReconstructOutcomes
  <2> DEFINE data == block'.data
             ring == UnPadBlock(data)
  <2>4. /\ ~UnPadPanics(data) /\ Holders(ring, id) # {}
        /\ result'.key = RecoverKeyFromBlock(ring, id)
    BY <1>2, <2>3, KeyFound
  <2>5. ASSUME deployment.merkle
        PROVE  \E n \in DOMAIN FirstKeys : FirstKeys[n] = [ID |-> id, Packet |-> result'.key]
    <3>1. PICK i \in Places(FirstKeys) : data = BlocksOf(FirstKeys)[i]
      BY <1>0, <2>1, <2>3, <2>5, VerifiedBlock
    <3>2. Servable(FirstKeys)
      <4>1. client = "answers"
        BY <2>1 DEF Reconstruct
      <4> QED
        BY <1>0, <4>1, FirstInfo, VersionFacts DEF FirstKeys
    <3> HIDE DEF data
    <3> QED
      BY <2>4, <3>1, <3>2, BlockStored
  <2>6. \E v \in Versions : \E n \in DOMAIN Files[v] :
           Files[v][n] = [ID |-> id, Packet |-> result'.key]
    <3> HIDE DEF ring
    <3> QED
      BY <2>4, AnyStored
  <2> QED
    BY <2>2, <2>5, <2>6 DEF DeliveredIsStored, FirstKeys
<1> QED
  BY <1>1, <1>2 DEF DeliveredIsStored

\* A key that the client prints is a key some server has had under the email;
\* with Merkle proofs, it is in the very files the client's root is of.
THEOREM DeliveredStored == Spec => []DeliveredIsStored
<1>1. ASSUME Init
      PROVE  DeliveredIsStored
  BY <1>1 DEF Init, DeliveredIsStored
<1> QED
  BY <1>1, AlwaysInv, DeliveredStep, PTL DEF Spec

-----------------------------------------------------------------------------
(* A retrieval from servers with the same files.                            *)

\* The byte of the row and the place that a client looks at.
LEMMA AnswerAt ==
  ASSUME NetInv, NEW v \in Versions, NEW bits, NEW row \in Columns(v), NEW m \in 1..DbOf(v).BlockSize
  PROVE  AnswerTo(DbOf(v), bits)[row * DbOf(v).BlockSize + m] =
            XorSum([j \in bits |-> Byte(DbOf(v).Entries[row * Side(Files[v]) + j], m)])
<1> DEFINE C == Side(Files[v])
           B == DbOf(v).BlockSize
           n == row * B + m
<1>1. /\ DbOf(v).NumRows = C /\ DbOf(v).NumColumns = C /\ B \in Nat /\ C \in Nat
      /\ row \in 0..(C - 1) /\ m \in 1..B
  BY DbFacts DEF Columns
<1>2. \A k \in 1..(C * B) :
        AnswerTo(DbOf(v), bits)[k] =
          XorSum([j \in bits |-> Byte(DbOf(v).Entries[((k - 1) \div B) * C + j], ((k - 1) % B) + 1)])
  BY <1>1 DEF AnswerTo
<1> HIDE DEF C, B
<1>3. row * B \in Nat /\ (C - 1 - row) * B \in Nat /\ C * B = row * B + (C - 1 - row) * B + B
  BY <1>1
<1>4. n \in 1..(C * B) /\ n - 1 = row * B + (m - 1) /\ m - 1 \in 0..(B - 1) /\ B > 0
  BY <1>1, <1>3
<1>5. (n - 1) \div B = row /\ ((n - 1) % B) = m - 1
  <2>1. row \in Nat
    BY <1>1
  <2> DEFINE r == m - 1
  <2>2. r \in 0..(B - 1) /\ n - 1 = row * B + r
    BY <1>4
  <2> HIDE DEF r, n
  <2>3. (row * B + r) \div B = row /\ ((row * B + r) % B) = r
    BY <1>1, <1>4, <2>1, <2>2, QuotientOfSum
  <2> QED
    BY <2>2, <2>3 DEF r
<1>6. (m - 1) + 1 = m
  BY <1>1
<1> HIDE DEF n
<1> QED
  BY <1>2, <1>4, <1>5, <1>6 DEF B, C, n

AllAnswered == client = "answers" /\ \A k \in Servers : answers[k] # <<>>

\* With the same files everywhere, nothing is read beyond an answer, and the sum
\* of the answers is the wanted entry, with zeros behind it.
LEMMA HonestSum ==
  ASSUME IInv, SameFile, Understanding, AllAnswered
  PROVE  LET keys  == Files[version[0]]
             entry == EntryOf(keys, deployment.merkle, HashToIndex(id, Side(keys) * Side(keys)))
         IN  /\ ~TooShort
             /\ dbInfo.BlockSize \in Nat /\ Len(entry) <= dbInfo.BlockSize
             /\ Sum = [m \in 1..dbInfo.BlockSize |-> Byte(entry, m)]
<1> DEFINE v == version[0]
           keys == Files[v]
           C == Side(keys)
           B == dbInfo.BlockSize
           index == HashToIndex(id, C * C)
           entry == EntryOf(keys, deployment.merkle, index)
<1>1. NetInv /\ InfosInv /\ CallInv /\ AnswersInv /\ ExactInv
  BY DEF IInv
<1>2. 0 \in Servers /\ IsFiniteSet(Servers) /\ deployment.merkle \in BOOLEAN
  BY <1>1, DeploymentFacts
<1>3. v \in Versions /\ infos[1].version = v
  BY <1>1, <1>2, QueryUnderstood DEF AllAnswered
<1>4. FirstKeys = keys
  BY <1>3 DEF FirstKeys
<1>5. /\ DbOf(v).BlockSize = B /\ B \in Nat /\ C \in Nat /\ C > 0
      /\ dbInfo.NumRows = C /\ dbInfo.NumColumns = C /\ dbInfo.merkle = deployment.merkle
  BY <1>1, <1>3, <1>4, DbFacts, FirstInfo DEF AllAnswered
<1>6. /\ index \in Places(keys) /\ index \div C \in 0..(C - 1) /\ (index % C) \in 0..(C - 1)
      /\ (index \div C) * C + (index % C) = index
  BY <1>1, <1>4, FirstPlace DEF AllAnswered
<1> DEFINE ix == index \div C
           iy == index % C
           q == [k \in Servers |-> queries[k].bits]
           J == Columns(v)
<1>7. /\ state.ix = ix /\ state.iy = iy
      /\ \A j \in J : Odd({k \in Servers : j \in queries[k].bits}) <=> j = iy
  BY <1>1, <1>5 DEF AllAnswered, CallInv, Asked, Columns
<1>8. \A k \in Servers : answers[k] = AnswerTo(DbOf(v), q[k] \cap J)
  BY <1>1 DEF AllAnswered, ExactInv
<1>9. IsFiniteSet(J) /\ J = 0..(C - 1)
  BY <1>5, FS_Interval DEF Columns
<1>10. /\ DbOf(v).Entries[index] = entry /\ Len(entry) <= B
  BY <1>1, <1>3, <1>5, <1>6, DbFacts
<1>11. C * B \in Nat /\ \A k \in Servers : Len(answers[k]) = C * B
  BY <1>1, <1>3, <1>5, <1>8, AnswerShape
<1>12. Offset = ix * B
  BY <1>7 DEF Offset
<1> HIDE DEF v, C, B, ix, iy, index, entry
<1>13. ~TooShort
  <2>1. ix * B \in Nat /\ (C - 1 - ix) * B \in Nat /\ C * B = ix * B + (C - 1 - ix) * B + B
    <3>1. ix \in 0..(C - 1) /\ C \in Nat /\ B \in Nat
      BY <1>5, <1>6 DEF ix
    <3> QED
      BY <3>1
  <2>2. ASSUME NEW k \in Servers
        PROVE  ~(Len(answers[k]) < Offset + dbInfo.BlockSize)
    BY <1>5, <1>11, <1>12, <2>1 DEF B
  <2> QED
    BY <2>2 DEF TooShort
<1>14. ASSUME NEW m \in 1..B
       PROVE  XorSum([k \in Servers |-> answers[k][Offset + m]]) = Byte(entry, m)
  <2> DEFINE E == [j \in J |-> Byte(DbOf(v).Entries[ix * C + j], m)]
  <2>1. ASSUME NEW k \in Servers
        PROVE  answers[k][Offset + m] = XorSum([j \in q[k] \cap J |-> E[j]])
    <3>1. answers[k][Offset + m] =
             XorSum([j \in q[k] \cap J |-> Byte(DbOf(v).Entries[ix * C + j], m)])
      <4> DEFINE bits == q[k] \cap J
      <4>1. ix \in Columns(v) /\ m \in 1..DbOf(v).BlockSize /\ answers[k] = AnswerTo(DbOf(v), bits)
        BY <1>5, <1>6, <1>8, <1>9 DEF ix
      <4> HIDE DEF bits, q
      <4>2. AnswerTo(DbOf(v), bits)[ix * DbOf(v).BlockSize + m] =
               XorSum([j \in bits |-> Byte(DbOf(v).Entries[ix * Side(Files[v]) + j], m)])
        BY <1>1, <1>3, <4>1, AnswerAt
      <4> QED
        BY <1>5, <1>12, <4>1, <4>2 DEF bits, C
    <3>2. [j \in q[k] \cap J |-> Byte(DbOf(v).Entries[ix * C + j], m)] = [j \in q[k] \cap J |-> E[j]]
      OBVIOUS
    <3> QED
      BY Zenon, <3>1, <3>2
  <2>2. E[iy] = Byte(entry, m) /\ iy \in J
    BY <1>6, <1>9, <1>10 DEF ix, iy
  <2> HIDE DEF E, J, q
  <2>3. [k \in Servers |-> answers[k][Offset + m]] =
           [k \in Servers |-> XorSum([j \in q[k] \cap J |-> E[j]])]
    BY <2>1
  <2>4. IsShared(Servers, J, q, iy)
    <3>1. ASSUME NEW j \in J
          PROVE  Askers(Servers, q, j) = {k \in Servers : j \in queries[k].bits}
      BY DEF q, Askers
    <3> QED
      BY <1>7, <3>1 DEF IsShared
  <2>5. SumOfSums(Servers, J, q, E) = E[iy]
    <3>1. IsFiniteSet(Servers) /\ IsFiniteSet(J) /\ iy \in J
      BY <1>2, <1>9, <2>2
    <3> QED
      BY <2>4, <3>1, SharesCancel
  <2> QED
    BY <2>2, <2>3, <2>5 DEF SumOfSums
<1>15. Sum = [m \in 1..B |-> Byte(entry, m)]
  BY <1>14 DEF Sum, B
<1> QED
  BY <1>5, <1>10, <1>13, <1>15 DEF B, entry, index, C, v

Widened(e, B) == [m \in 1..B |-> Byte(e, m)]

\* The zeros behind an entry are lost with its padding.
LEMMA WidenedUnpads ==
  ASSUME NEW S, NEW s \in Seq(S), NEW e, e = PadWithSignalByte(s), NEW B \in Nat, Len(e) <= B
  PROVE  ~UnPadPanics(Widened(e, B)) /\ UnPadBlock(Widened(e, B)) = s
<1> DEFINE t == Widened(e, B)
<1>1. /\ Len(s) \in Nat /\ Len(e) = Len(s) + 1 /\ e[Len(s) + 1] = Mark
      /\ \A m \in 1..Len(s) : e[m] = s[m]
  BY DEF PadWithSignalByte
<1>2. t = [m \in 1..B |-> t[m]] /\ \A m \in 1..B : t[m] = Byte(e, m)
  BY DEF Widened
<1> HIDE DEF t
<1>3. t \in Seq({t[m] : m \in 1..B}) /\ Len(t) = B
  BY <1>2
<1>4. IsPadded(t, s)
  BY <1>1, <1>2, <1>3 DEF IsPadded, Byte
<1> QED
  BY <1>3, <1>4, UnPadded DEF t

\* Nothing but zeros has no padding.
LEMMA WidenedEmpty ==
  ASSUME NEW B \in Nat
  PROVE  UnPadPanics(Widened(<<>>, B))
<1> DEFINE t == Widened(<<>>, B)
<1>1. t = [m \in 1..B |-> t[m]] /\ \A m \in 1..B : t[m] = Zero
  BY DEF Widened, Byte
<1> HIDE DEF t
<1>2. Len(t) = B
  <2>1. t \in Seq({t[m] : m \in 1..B}) /\ Len(t) = B
    BY <1>1
  <2> QED
    BY <2>1
<1> QED
  BY <1>1, <1>2 DEF UnPadPanics, Significant, t

\* The block that an honest retrieval gets at is the one of the index, whose
\* proof verifies.
LEMMA HonestBlock ==
  ASSUME IInv, SameFile, Understanding, Reconstruct
  PROVE  LET keys == Files[version[0]]
             ring == TableOf(keys)[HashToIndex(id, Side(keys) * Side(keys))]
         IN  /\ block'.outcome = "block"
             /\ IF ring = <<>> THEN UnPadPanics(block'.data)
                ELSE ~UnPadPanics(block'.data) /\ UnPadBlock(block'.data) = ring
<1> DEFINE keys == Files[version[0]]
           index == HashToIndex(id, Side(keys) * Side(keys))
           ring == TableOf(keys)[index]
           blk == BlocksOf(keys)[index]
           entry == EntryOf(keys, deployment.merkle, index)
           B == dbInfo.BlockSize
<1>1. AllAnswered /\ NetInv /\ InfosInv /\ CallInv
  BY DEF Reconstruct, AllAnswered, IInv
<1>2. ~TooShort /\ B \in Nat /\ Len(entry) <= B /\ Sum = Widened(entry, B)
  BY <1>1, HonestSum DEF Widened
<1>3. block' \in reconstructPIR(Sum)
  BY <1>2 DEF Reconstruct
<1>4. version[0] \in Versions /\ infos[1].version = version[0] /\ client = "answers"
  BY <1>1, DeploymentFacts, QueryUnderstood DEF AllAnswered
<1>5. /\ dbInfo.merkle = deployment.merkle /\ deployment.merkle \in BOOLEAN
      /\ dbInfo.Root = IF deployment.merkle THEN BlocksOf(keys) ELSE <<>>
  BY <1>1, <1>4, FirstInfo, DbFacts, DeploymentFacts
<1>6. Servable(keys) /\ index \in Places(keys)
  BY <1>1, <1>4, FirstPlace, VersionFacts DEF FirstKeys
<1>7. IF ring = <<>> THEN blk = <<>> /\ UnPadPanics(blk) ELSE ~UnPadPanics(blk) /\ UnPadBlock(blk) = ring
  BY <1>6, BlockUnpads
<1>8. blk \in Seq(Alphabet(keys)) /\ ring \in Seq(Alphabet(keys))
      /\ blk = IF ring = <<>> THEN <<>> ELSE PadWithSignalByte(ring)
  BY <1>6, BlockFacts DEF PadWithSignalByte
<1>9. ASSUME ~deployment.merkle
      PROVE  /\ block'.outcome = "block"
             /\ IF ring = <<>> THEN UnPadPanics(block'.data)
                ELSE ~UnPadPanics(block'.data) /\ UnPadBlock(block'.data) = ring
  <2>1. entry = blk
    BY <1>9 DEF EntryOf
  <2>2. block' = [outcome |-> "block", data |-> Sum]
    BY <1>3, <1>5, <1>9 DEF reconstructPIR
  <2> HIDE DEF entry, blk, ring, B
  <2>3. ASSUME ring = <<>>
        PROVE  UnPadPanics(Sum)
    <3>1. Sum = Widened(<<>>, B)
      BY <1>2, <1>8, <2>1, <2>3
    <3>2. UnPadPanics(Widened(<<>>, B))
      BY <1>2, WidenedEmpty
    <3> QED
      BY Zenon, <3>1, <3>2
  <2>4. ASSUME ring # <<>>
        PROVE  ~UnPadPanics(Sum) /\ UnPadBlock(Sum) = ring
    <3>1. entry = PadWithSignalByte(ring)
      BY <1>8, <2>1, <2>4
    <3>2. ~UnPadPanics(Widened(entry, B)) /\ UnPadBlock(Widened(entry, B)) = ring
      BY <1>2, <1>8, <3>1, WidenedUnpads
    <3> QED
      BY Zenon, <1>2, <3>2
  <2> QED
    BY <2>2, <2>3, <2>4
<1>10. ASSUME deployment.merkle
       PROVE  block'.outcome = "block" /\ block'.data = blk
  <2> DEFINE proof == ProofOf(keys, index)
             s == Append(blk, proof)
  <2>1. entry = PadWithSignalByte(s)
    BY <1>10 DEF EntryOf
  <2>2. s \in Seq(Alphabet(keys) \cup {proof})
    <3> DEFINE A == Alphabet(keys) \cup {proof}
    <3>1. blk \in Seq(A)
      BY <1>8, SeqMonotonic
    <3> HIDE DEF A, blk
    <3>2. proof \in A
      BY DEF A
    <3> HIDE DEF proof
    <3> QED
      BY <3>1, <3>2 DEF A
  <2>3. PICK place \in Places(keys) : \E hashes :
           /\ DOMAIN hashes = Places(keys)
           /\ proof = {<<"proof", place, hashes>>}
           /\ [hashes EXCEPT ![place] = blk] = BlocksOf(keys)
    BY <1>6, ProofFacts
  <2>9. PICK hashes :
           /\ DOMAIN hashes = Places(keys)
           /\ proof = {<<"proof", place, hashes>>}
           /\ [hashes EXCEPT ![place] = blk] = BlocksOf(keys)
    BY <2>3
  <2> HIDE DEF entry, blk, B
  <2>4. ~UnPadPanics(Sum) /\ UnPadBlock(Sum) = s
    <3> HIDE DEF s, proof
    <3>1. ~UnPadPanics(Widened(entry, B)) /\ UnPadBlock(Widened(entry, B)) = s
      BY <1>2, <2>1, <2>2, WidenedUnpads
    <3> QED
      BY Zenon, <1>2, <3>1
  <2>5. /\ Len(s) = Len(blk) + 1 /\ Len(blk) \in Nat /\ s[Len(s)] = proof
        /\ SubSeq(s, 1, Len(s) - ProofLen) = blk
    <3>1. Len(s) = Len(blk) + 1 /\ Len(blk) \in Nat /\ s[Len(s)] = proof
          /\ \A m \in 1..Len(blk) : s[m] = blk[m]
      BY <1>8
    <3> DEFINE A == Alphabet(keys) \cup {proof}
               u == SubSeq(s, 1, Len(blk))
    <3>2. s \in Seq(A) /\ blk \in Seq(A)
      BY <1>8, <2>2, SeqMonotonic
    <3> HIDE DEF A, s, proof
    <3>3. u \in Seq(A) /\ Len(u) = Len(blk) /\ \A m \in 1..Len(u) : u[m] = blk[m]
      BY <3>1, <3>2
    <3> HIDE DEF u
    <3>4. u = blk
      BY <3>2, <3>3, SeqEqual
    <3>5. Len(s) - ProofLen = Len(blk)
      BY <3>1 DEF ProofLen
    <3> QED
      BY <3>1, <3>4, <3>5 DEF u
  <2>6. IsProof(proof) /\ VerifyProof(blk, proof, dbInfo.Root)
    <3> HIDE DEF proof
    <3>1. <<"proof", place, hashes>> \in proof /\ dbInfo.Root = BlocksOf(keys)
      BY <1>5, <1>10, <2>9
    <3> QED
      BY <2>9, <3>1 DEF IsProof, VerifyProof
  <2> HIDE DEF s, proof
  <2>7. ~(Len(s) < ProofLen)
    BY <2>5 DEF ProofLen
  <2>8. block' = [outcome |-> "block", data |-> blk]
    <3>1. reconstructPIR(Sum) = {[outcome |-> "block", data |-> blk]}
      BY Zenon, <1>5, <1>10, <2>4, <2>5, <2>6, <2>7 DEF reconstructPIR
    <3> QED
      BY <1>3, <3>1
  <2> QED
    BY <2>8
<1> QED
  BY <1>7, <1>9, <1>10

\* A bucket is empty when no key belongs to it.
LEMMA EmptyBucket ==
  ASSUME NEW ring, NEW B, NEW packets, IsRing(ring, B, packets)
  PROVE  ring = <<>> <=> packets = {}
<1>1. PICK c \in Nat : /\ ring \in Seq(B) /\ Len(ring) = c * PacketLen
                       /\ \A p \in 1..c : Packet(ring, p) \in packets
                       /\ \A x \in packets : \E p \in 1..c : Packet(ring, p) = x
  BY DEF IsRing
<1>2. PacketLen \in Nat /\ PacketLen > 0
  BY LengthsAssumption
<1>3. ASSUME packets = {}
      PROVE  ring = <<>>
  <2>1. c = 0
    BY <1>1, <1>3
  <2>2. Len(ring) = 0
    BY <1>1, <1>2, <2>1
  <2> QED
    BY <1>1, <2>2
<1>4. ASSUME ring = <<>>
      PROVE  packets = {}
  <2>1. c * PacketLen = 0
    BY <1>1, <1>4
  <2>2. c = 0
    BY <1>2, <2>1
  <2> QED
    BY <1>1, <2>2
<1> QED
  BY <1>3, <1>4

StoredIn(keys)     == {n \in DOMAIN keys : keys[n].ID = id}
NeighboursIn(keys) == {n \in DOMAIN keys : HashToIndex(keys[n].ID, Side(keys) * Side(keys))
                                              = HashToIndex(id, Side(keys) * Side(keys))}

\* What the client makes of the bucket of its email.
LEMMA BucketResult ==
  ASSUME NEW keys, Servable(keys), HashToIndex(id, Side(keys) * Side(keys)) \in Places(keys),
         NEW ring, ring = TableOf(keys)[HashToIndex(id, Side(keys) * Side(keys))],
         NEW data, IF ring = <<>> THEN UnPadPanics(data)
                   ELSE ~UnPadPanics(data) /\ UnPadBlock(data) = ring,
         NEW r \in FindKey(data)
  PROVE  IF StoredIn(keys) # {}
         THEN \E n \in StoredIn(keys) : r = [outcome |-> "key", key |-> keys[n].Packet]
         ELSE r.outcome = IF NeighboursIn(keys) = {} THEN "panic" ELSE "notFound"
<1> DEFINE index == HashToIndex(id, Side(keys) * Side(keys))
<1>1. IsRing(ring, BytesOf(keys), PacketsAt(keys, index)) /\ Loadable(keys) /\ DOMAIN keys = 1..Len(keys)
  BY TableFacts DEF Servable, Loadable
<1>2. ring = <<>> <=> NeighboursIn(keys) = {}
  <2>1. ring = <<>> <=> PacketsAt(keys, index) = {}
    BY <1>1, EmptyBucket
  <2>2. PacketsAt(keys, index) = {} <=> NeighboursIn(keys) = {}
    BY <1>1 DEF PacketsAt, NeighboursIn
  <2> QED
    BY <2>1, <2>2
<1>3. StoredIn(keys) \subseteq NeighboursIn(keys)
  BY DEF StoredIn, NeighboursIn
<1>4. ASSUME ring = <<>>
      PROVE  r.outcome = "panic" /\ StoredIn(keys) = {} /\ NeighboursIn(keys) = {}
  <2>1. UnPadPanics(data)
    BY <1>4
  <2>2. r = Panic
    BY <2>1 DEF FindKey
  <2> QED
    BY <1>2, <1>3, <1>4, <2>2 DEF Panic
<1>5. ASSUME ring # <<>>
      PROVE  IF StoredIn(keys) # {}
             THEN \E n \in StoredIn(keys) : r = [outcome |-> "key", key |-> keys[n].Packet]
             ELSE r.outcome = "notFound" /\ NeighboursIn(keys) # {}
  <2>1. ~UnPadPanics(data) /\ UnPadBlock(data) = ring
    BY <1>5
  <2>2. /\ IsKeyRing(ring)
        /\ Holders(ring, id) # {} =>
             \E m \in 1..Len(keys) : keys[m] = [ID |-> id, Packet |-> RecoverKeyFromBlock(ring, id)]
        /\ (\E m \in 1..Len(keys) : keys[m].ID = id /\ HashToIndex(id, Side(keys) * Side(keys)) = index)
             => Holders(ring, id) # {}
    BY <1>1, RingLookup
  <2>3. IF Holders(ring, id) = {} THEN r = [outcome |-> "notFound"]
        ELSE r = [outcome |-> "key", key |-> RecoverKeyFromBlock(ring, id)]
    <3> DEFINE key == RecoverKeyFromBlock(ring, id)
               found == {[outcome |-> "key", key |-> key] : n \in Holders(ring, id)}
    <3> HIDE DEF key
    <3>1. r \in IF found = {} THEN {[outcome |-> "notFound"]} ELSE found
      BY <2>1, <2>2 DEF FindKey, key
    <3> QED
      BY <3>1 DEF key
  <2>4. ASSUME StoredIn(keys) # {}
        PROVE  \E n \in StoredIn(keys) : r = [outcome |-> "key", key |-> keys[n].Packet]
    <3>1. Holders(ring, id) # {}
      BY <1>1, <2>2, <2>4 DEF StoredIn
    <3>2. PICK m \in 1..Len(keys) : keys[m] = [ID |-> id, Packet |-> RecoverKeyFromBlock(ring, id)]
      BY <2>2, <3>1
    <3>3. m \in StoredIn(keys) /\ keys[m].Packet = RecoverKeyFromBlock(ring, id)
      BY <1>1, <3>2 DEF StoredIn
    <3> QED
      BY <2>3, <3>1, <3>3
  <2>5. ASSUME StoredIn(keys) = {}
        PROVE  r.outcome = "notFound"
    <3>1. Holders(ring, id) = {}
      BY <1>1, <2>2, <2>5 DEF StoredIn
    <3> QED
      BY <2>3, <3>1
  <2> QED
    BY <1>2, <1>5, <2>4, <2>5
<1> QED
  BY <1>4, <1>5

\* No step ends a retrieval from servers with the same files but the last one.
LEMMA HonestEnds ==
  ASSUME IInv, SameFile', Understanding, [Next]_vars, client # "done", client' = "done"
  PROVE  SameFile /\ Reconstruct
<1>1. NetInv /\ InfosInv /\ CallInv /\ ExactInv
  BY DEF IInv
<1>2. SameFile
  <2>1. deployment' = deployment /\ version' = version /\ reloaded' = reloaded
    BY DEF SameFile, Next, ClientStep, ServerStep, Terminated, vars, net, loaded, GetInfo, RpcFails,
           CompareInfos, Query, Reconstruct, Answer, AnswerPanics, Reload
  <2> QED
    BY <2>1 DEF SameFile, Servers
<1>3. ~reloaded /\ crashed = {}
  BY <1>1, <1>2 DEF SameFile, ExactInv
<1>4. ASSUME NEW k \in Servers, RpcFails(k)
      PROVE  FALSE
  BY <1>3, <1>4 DEF RpcFails
<1>5. ASSUME CompareInfos
      PROVE  FALSE
  <2>1. Len(infos) = deployment.n /\ infos \in Seq(Infos)
    BY <1>1, <1>5 DEF CompareInfos, InfosInv
  <2>2. \A n \in 1..Len(infos) : infos[n].info = DBInfo(DbOf(version[0]))
    <3> TAKE n \in 1..Len(infos)
    <3>1. infos[n] \in Infos
      BY <2>1
    <3>2. infos[n].server \in Servers
      BY <3>1 DEF Infos
    <3>3. infos[n].version = version[infos[n].server] /\ infos[n].info = DBInfo(DbOf(infos[n].version))
      BY <1>1, <1>3 DEF InfosInv
    <3> QED
      BY <1>2, <3>2, <3>3 DEF SameFile
  <2>3. 1 \in 1..Len(infos) /\ DOMAIN infos = 1..Len(infos)
    BY <1>1, <2>1, DeploymentFacts
  <2>4. equalDBInfo
    BY <2>2, <2>3 DEF equalDBInfo, dbInfo
  <2> QED
    BY <1>5, <2>4 DEF CompareInfos
<1>6. Reconstruct
  BY <1>4, <1>5 DEF Next, ClientStep, ServerStep, Terminated, vars, GetInfo, Query, Answer, AnswerPanics,
                    Reload
<1> QED
  BY <1>2, <1>6

LEMMA StoredKeyStep ==
  ASSUME IInv, Understanding, StoredKeyFound, [Next]_vars
  PROVE  StoredKeyFound'
<1>0. NetInv /\ InfosInv /\ CallInv
  BY DEF IInv
<1>1. ASSUME client = "done"
      PROVE  StoredKeyFound'
  <2>1. UNCHANGED <<deployment, id, version, db, client, result, reloaded>>
    BY <1>1 DEF Next, ClientStep, ServerStep, Terminated, vars, net, loaded, GetInfo, RpcFails, InfoAwaited, Waiting,
                CompareInfos, Query, Reconstruct, Answer, AnswerPanics, Reload
  <2> QED
    BY <2>1 DEF StoredKeyFound, SameFile, Servers, Stored, Neighbours
<1>2. ASSUME client # "done", client' = "done", SameFile'
      PROVE  StoredKeyFound'
  <2>1. SameFile /\ Reconstruct
    BY <1>2, HonestEnds
  <2>2. id' = id /\ version' = version /\ db' = db
    BY <2>1 DEF Reconstruct, net, loaded
  <2> DEFINE keys == Files[version[0]]
             index == HashToIndex(id, Side(keys) * Side(keys))
             ring == TableOf(keys)[index]
  <2>3. /\ block'.outcome = "block"
        /\ IF ring = <<>> THEN UnPadPanics(block'.data)
           ELSE ~UnPadPanics(block'.data) /\ UnPadBlock(block'.data) = ring
    BY <2>1, HonestBlock
  <2>4. result' \in FindKey(block'.data)
    BY <2>1, <2>3 DEF Reconstruct, Finish
  <2>5. /\ version[0] \in Versions /\ infos[1].version = version[0] /\ client = "answers"
        /\ db[0] = DbOf(version[0])
    <3>1. client = "answers" /\ 0 \in Servers
      BY <1>0, <2>1, DeploymentFacts DEF Reconstruct
    <3> QED
      BY <1>0, <2>1, <3>1, QueryUnderstood DEF NetInv
  <2>6. Servable(keys) /\ index \in Places(keys)
    BY <1>0, <2>5, FirstPlace, VersionFacts DEF FirstKeys
  <2>7. db[0].NumRows = Side(keys) /\ db[0].NumColumns = Side(keys)
    BY <1>0, <2>5, DbFacts
  <2>8. Stored = StoredIn(keys) /\ Neighbours = NeighboursIn(keys)
    BY <2>7 DEF Stored, StoredIn, Neighbours, NeighboursIn
  <2>9. IF StoredIn(keys) # {}
        THEN \E n \in StoredIn(keys) : result' = [outcome |-> "key", key |-> keys[n].Packet]
        ELSE result'.outcome = IF NeighboursIn(keys) = {} THEN "panic" ELSE "notFound"
    <3> HIDE DEF keys
    <3> QED
      BY <2>3, <2>4, <2>6, BucketResult
  <2>10. Stored' = Stored /\ Neighbours' = Neighbours
    BY <2>2 DEF Stored, Neighbours
  <2> QED
    BY <2>2, <2>8, <2>9, <2>10 DEF StoredKeyFound
<1> QED
  BY <1>1, <1>2 DEF StoredKeyFound

\* With the same key files everywhere, a retrieval returns the key that is stored
\* under the email, and otherwise says that there is none or, when no key at all
\* hashes to the block of the email, panics; wherever two servers are given
\* point functions and more are given vectors.
THEOREM StoredKeyIsFound ==
  ASSUME \A d \in Deployments : d.two = (d.n = 2)
  PROVE  Spec => []StoredKeyFound
<1>1. ASSUME Init
      PROVE  StoredKeyFound
  BY <1>1 DEF Init, StoredKeyFound
<1>2. ASSUME IInv
      PROVE  Understanding
  BY <1>2 DEF IInv, NetInv, Understanding
<1> QED
  BY <1>1, <1>2, AlwaysInv, StoredKeyStep, PTL DEF Spec
=============================================================================
