---------------------------- MODULE SingleServer ----------------------------
(* The single-server schemes as operators: what the clients of lib/client  *)
(* ask and how they reconstruct, what the servers of lib/server answer,    *)
(* and the digests of lib/database.  Simulation runs them.                 *)
(*                                                                         *)
(* LWE and LWE128 hide a column of bits behind s*A + e and recognise an    *)
(* entry by its distance to 0 or to the blind t; Amplify repeats LWE and   *)
(* decodes the results; DH does the same in a group, without noise.        *)
(* A client's randomness is a record of what it draws:                     *)
(*   [secret, t, e] for LWE, [r, t] for DH.                                *)
EXTENDS Matrix, Dimensions

CONSTANTS
  N,            \* lattice dimension (params.N)
  SeedStream,   \* the words that the generator seeded with SeedA yields
  BoundPerRow,  \* 12 * ceil(Sigma): 84, while samples reach MaxSample, 128
  P,            \* order of the group of DH
  Reject,       \* the error of a reconstruction
  Undecoded,    \* the error of Decode: impossible to find a decoded word
  Invalid       \* the error of UnmarshalBinary: not the encoding of an element

ASSUME SingleServerAssumption ==
  /\ N \in Nat \ {0}
  /\ SeedStream \in Seq(Word)
  /\ BoundPerRow \in Nat
  /\ P \in Nat \ {0, 1}

-----------------------------------------------------------------------------
(* LWE and LWE128.                                                         *)
computeB(rows) == rows * BoundPerRow

ParamsWithDatabaseSize(rows, columns) ==
  [L |-> rows, M |-> columns, B |-> computeB(rows)]

ParamsWithDatabaseSize128(rows, columns) ==
  ParamsWithDatabaseSize(rows, columns)

\* A times the database: published before any query.
Digest(db, rows) == BinaryMul(NewRandom(SeedStream, N, rows), db)

Digest128(db, rows) == BinaryMul128(NewRandom128(SeedStream, N, rows), db)

\* s * A, an error in every entry, and the blind at row i.
LWEQuery_Dev(p, i, d) ==
  Add(Add(Mul(NewRandom(d.secret, 1, N), NewRandom(SeedStream, N, p.L)),
          NewGauss(d.e, 1, p.L)),
      Set(New(1, p.L), 0, 0, d.t))

LWEQuery(p, i, d) ==
  Add(Add(Mul(NewRandom(d.secret, 1, N), NewRandom(SeedStream, N, p.L)),
          NewGauss(d.e, 1, p.L)),
      Set(New(1, p.L), 0, i, d.t))

LWE128Query(p, i, d) ==
  Add(Add(Mul128(NewRandom128(d.secret, 1, N),
                 NewRandom128(SeedStream, N, p.L)),
          NewGauss128(d.e, 1, p.L)),
      Set(New128(1, p.L), 0, i, d.t))

LWEAnswer(q, db) == BinaryMul(q, db)

LWE128Answer(q, db) == BinaryMul128(q, db)

\* Strictly within B of zero, modulo Q.
inRange(p, val) == val < p.B \/ val > (-p.B) % Q

\* The largest word stands for zero here, and B is one larger below it.
inRange128(p, val) == val < p.B \/ val > (Q - 1) - (p.B + 1)

\* Bit c of the row, or Reject when the entry is neither noise nor blind
\* plus noise; one such entry in any column rejects the whole answer.
LWEReconstruct_Dev(p, digest, j, d, answer) ==
  LET v == Sub(answer, Mul(NewRandom(d.secret, 1, N), digest))
  IN IF inRange(p, Get(v, 0, j)) THEN 0
     ELSE IF inRange(p, (Get(v, 0, j) - d.t) % Q) THEN 1 ELSE Reject

LWEReconstruct(p, digest, j, d, answer) ==
  LET v == Sub(answer, Mul(NewRandom(d.secret, 1, N), digest))
      isZero(c) == inRange(p, Get(v, 0, c))
      isOne(c)  == inRange(p, (Get(v, 0, c) - d.t) % Q)
  IN IF \E c \in 0 .. p.M - 1 : ~isZero(c) /\ ~isOne(c) THEN Reject
     ELSE IF isZero(j) THEN 0 ELSE 1

LWE128Reconstruct_Dev(p, digest, j, d, answer) ==
  LET v == Sub(answer, Mul128(NewRandom128(d.secret, 1, N), digest))
      isZero(c) == Get(v, 0, c) < p.B
      isOne(c)  == ((Get(v, 0, c) - d.t) % Q) < p.B
  IN IF \E c \in 0 .. p.M - 1 : ~isZero(c) /\ ~isOne(c) THEN Reject
     ELSE IF isZero(j) THEN 0 ELSE 1

LWE128Reconstruct(p, digest, j, d, answer) ==
  LET v == Sub(answer, Mul128(NewRandom128(d.secret, 1, N), digest))
      isZero(c) == inRange128(p, Get(v, 0, c))
      isOne(c)  == inRange128(p, (Get(v, 0, c) - d.t) % Q)
  IN IF \E c \in 0 .. p.M - 1 : ~isZero(c) /\ ~isOne(c) THEN Reject
     ELSE IF isZero(j) THEN 0 ELSE 1

-----------------------------------------------------------------------------
(* Amplify: 2 * tECC + 1 independent repetitions of LWE.                   *)
Repetitions(tECC) == 2 * tECC + 1

Encode(in, t) == [k \in 1 .. 2 * t + 1 |-> in]

Count(in, word) == Cardinality({k \in DOMAIN in : in[k] = word})

Decode(in) ==
  IF Count(in, in[1]) > Len(in) \div 2 THEN in[1] ELSE Undecoded

AmplifyQuery(p, i, ds) ==
  MatricesToBytes([k \in DOMAIN ds |-> LWEQuery(p, i, ds[k])])

AmplifyAnswer(qq, db) ==
  LET ms == BytesToMatrices(qq)
  IN MatricesToBytes([k \in DOMAIN ms |-> BinaryMul(ms[k], db)])

\* One rejected repetition rejects; otherwise the results are decoded.
AmplifyReconstruct(p, digest, j, ds, answers) ==
  LET ms      == BytesToMatrices(answers)
      outputs == [k \in DOMAIN ds |-> LWEReconstruct(p, digest, j, ds[k], ms[k])]
  IN IF \E k \in DOMAIN outputs : outputs[k] = Reject THEN Reject
     ELSE Decode(outputs)

-----------------------------------------------------------------------------
(* DH.  The hashes of the columns to the group are independent elements:   *)
(* an element is its vector of exponents over them, one per column.        *)
Identity(columns) == [c \in 0 .. columns - 1 |-> 0]

AddElements(a, b) == [c \in DOMAIN a |-> (a[c] + b[c]) % P]

MulScalar(a, x) == [c \in DOMAIN a |-> (a[c] * x) % P]

HashIndexToGroup(j, columns) == [Identity(columns) EXCEPT ![j] = 1]

CommitScalarToIndex(x, j, columns) == MulScalar(HashIndexToGroup(j, columns), x)

\* The product of the elements in[j] over the columns whose bit is set.
RowProduct(db, row, in) ==
  LET prod[j \in 0 .. db.cols] ==
        IF j = 0 THEN Identity(db.cols)
        ELSE IF Get(db, row, j - 1) = 1 THEN AddElements(prod[j - 1], in[j - 1])
        ELSE prod[j - 1]
  IN  prod[db.cols]

\* The identity is a single zero byte; any other element is written in
\* elemSize bytes, a sign first, which is 2 or 3 in the code and 1 here, and
\* then its exponents.
Sign == 1

ElementSize(columns) == columns + 1

MarshalBinaryCompress(a) ==
  IF \A c \in DOMAIN a : a[c] = 0 THEN <<0>>
  ELSE <<Sign>> \o [k \in 1 .. Cardinality(DOMAIN a) |-> a[k - 1]]

\* One element after the other.
MarshalGroupElements(query) ==
  FlattenSeq([x \in DOMAIN query |-> MarshalBinaryCompress(query[x])])

\* The last slice may reach beyond the bytes, to the zeros of the capacity.
ByteAt(bytes, y) == IF y \in 1 .. Len(bytes) THEN bytes[y] ELSE 0

\* A slice that begins with a zero is no element: the identity has but one
\* byte.  As all elements before the first identity are whole, some slice
\* begins with the byte of the identity.
IsElement(bytes, x, elemSize) == ByteAt(bytes, x * elemSize + 1) = Sign

UnmarshalBinary(bytes, x, elemSize) ==
  [k \in 0 .. elemSize - 2 |-> ByteAt(bytes, x * elemSize + k + 2)]

Slices(bytes, elemSize) == 0 .. (Len(bytes) + elemSize - 1) \div elemSize - 1

UnmarshalFails(bytes, elemSize) ==
  \E x \in Slices(bytes, elemSize) : ~IsElement(bytes, x, elemSize)

UnmarshalGroupElements(bytes, elemSize) ==
  [x \in Slices(bytes, elemSize) |-> UnmarshalBinary(bytes, x, elemSize)]

\* The digests of the rows of one goroutine.
computeDigests(begin, end, db) ==
  MarshalGroupElements(
    [x \in 1 .. end - begin |->
       RowProduct(db, begin + x - 1,
                  [j \in 0 .. db.cols - 1 |-> HashIndexToGroup(j, db.cols)])])

DHQuery(columns, iy, d) ==
  MarshalGroupElements(
    [x \in 1 .. columns |->
       LET blinded == CommitScalarToIndex(d.r, x - 1, columns)
       IN IF x - 1 = iy
          THEN AddElements(blinded, CommitScalarToIndex(d.t, iy, columns))
          ELSE blinded])

processRows(begin, end, db, in) ==
  [x \in 1 .. end - begin |-> RowProduct(db, begin + x - 1, in)]

\* A single goroutine takes all rows; the query has been unmarshalled.
DHAnswer(q, db) ==
  MarshalGroupElements(
    processRows(0, db.rows, db, UnmarshalGroupElements(q, ElementSize(db.cols))))

\* What is left of row i: the identity for a bit 0, the blind for a bit 1.
RowTag(digests, d, columns, answer, i) ==
  AddElements(MulScalar(UnmarshalBinary(digests, i, ElementSize(columns)), (-d.r) % P),
              answer[i])

\* Every row must be the identity or the blind; the row asked for says which.
\* The answer is unmarshalled first, and the digest of a row before the row
\* is looked at; a slice beyond the capacity of the digests is a panic, which
\* counts as the error here.
DHReconstruct(rows, columns, digests, ix, iy, d, bytes) ==
  LET size    == ElementSize(columns)
      answer  == UnmarshalGroupElements(bytes, size)
      ht      == CommitScalarToIndex(d.t, iy, columns)
      m(i)    == RowTag(digests, d, columns, answer, i)
      read(i) == IsElement(digests, i, size)
      good(i) == read(i) /\ m(i) \in {Identity(columns), ht}
  IN IF UnmarshalFails(bytes, size) THEN Invalid
     ELSE IF \E i \in 0 .. rows - 1 : ~read(i) /\ \A h \in 0 .. i - 1 : good(h) THEN Invalid
     ELSE IF \E i \in 0 .. rows - 1 : ~good(i) THEN Reject
     ELSE IF m(ix) = Identity(columns) THEN 0 ELSE 1
=============================================================================
