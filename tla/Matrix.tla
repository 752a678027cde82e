------------------------------- MODULE Matrix -------------------------------
(* The matrices of lib/matrix.  Matrix holds words of 32 bits, Matrix128   *)
(* words of 128 bits; both are rings of integers modulo Q here, and a      *)
(* matrix remembers the bytes of its words.  The entries are stored row by *)
(* row in one sequence, as in the code and in matrix.c.                    *)
EXTENDS Integers, SequencesExt

CONSTANTS
  Q,          \* the modulus, 2^32 or 2^128 in the code
  MaxSample   \* the largest value the sampler can return, 128

ASSUME MatrixAssumption ==
  /\ Q \in Nat \ {0}
  /\ MaxSample \in Nat

Word == 0 .. Q - 1

\* The sequence of F(1), ..., F(n), evaluated once.
Entries(n, F(_)) == SubSeq([x \in 1 .. n |-> F(x)], 1, n)

-----------------------------------------------------------------------------
New(r, c) == [rows |-> r, cols |-> c, word |-> 4,
              data |-> [x \in 1 .. r * c |-> 0]]

New128(r, c) == [rows |-> r, cols |-> c, word |-> 16,
                 data |-> [x \in 1 .. r * c |-> 0]]

\* Matrices of bytes, for the database: one byte holds one bit.
NewBytes(r, c, bits) == [rows |-> r, cols |-> c, data |-> bits]

Get(m, r, c) == m.data[m.cols * r + c + 1]

Set(m, r, c, v) == [m EXCEPT !.data[m.cols * r + c + 1] = v]

\* The reader hands out the words of a stream.
NewRandom(words, r, c) == [New(r, c) EXCEPT !.data = SubSeq(words, 1, r * c)]

NewRandom128(words, r, c) ==
  [New128(r, c) EXCEPT !.data = SubSeq(words, 1, r * c)]

\* A sample is an index of cdf_table, 129 entries long, or its negative.  No
\* entry is zero: every index is accepted if the uniform number is 0.
GaussSample == -MaxSample .. MaxSample

\* A negative sample wraps to its residue.
NewGauss(samples, r, c) ==
  [New(r, c) EXCEPT !.data = Entries(r * c, LAMBDA x : samples[x] % Q)]

\* A negative sample is taken from the largest word, which is Q - 1: it
\* comes out as one less than its residue.
NewGauss128(samples, r, c) ==
  [New128(r, c) EXCEPT !.data =
     Entries(r * c, LAMBDA x : IF samples[x] >= 0 THEN samples[x]
                               ELSE (Q - 1) + samples[x])]

-----------------------------------------------------------------------------
(* The loops of matrix.c over flat arrays.                                 *)
SumOver(f) == MapThenSumSet(LAMBDA k : f[k], DOMAIN f)

multiply(aRows, aCols, bCols, a, b) ==
  LET sum(i, j) == SumOver([k \in 0 .. aCols - 1 |->
                              a[aCols * i + k + 1] * b[bCols * k + j + 1]])
  IN Entries(aRows * bCols,
             LAMBDA x : sum((x - 1) \div bCols, (x - 1) % bCols) % Q)

\* The mask -b of a byte is zero for 0 and all ones for 1.
Masked(word, byte) == IF byte = 0 THEN 0 ELSE word

binary_multiply(aRows, aCols, bCols, a, b) ==
  LET sum(i, j) == SumOver([k \in 0 .. aCols - 1 |->
                              Masked(a[aCols * i + k + 1], b[bCols * k + j + 1])])
  IN Entries(aRows * bCols,
             LAMBDA x : sum((x - 1) \div bCols, (x - 1) % bCols) % Q)

\* Otherwise the code panics with "Dimension mismatch".
Conform(a, b) == a.cols = b.rows

Mul(a, b) ==
  [New(a.rows, b.cols) EXCEPT !.data =
     multiply(a.rows, a.cols, b.cols, a.data, b.data)]

BinaryMul(a, b) ==
  [New(a.rows, b.cols) EXCEPT !.data =
     binary_multiply(a.rows, a.cols, b.cols, a.data, b.data)]

\* The words travel to matrix.c and back through byte buffers.
Mul128(a, b) ==
  [New128(a.rows, b.cols) EXCEPT !.data =
     multiply(a.rows, a.cols, b.cols, a.data, b.data)]

BinaryMul128(a, b) ==
  [New128(a.rows, b.cols) EXCEPT !.data =
     binary_multiply(a.rows, a.cols, b.cols, a.data, b.data)]

Add_Dev(a, b) ==
  [a EXCEPT !.data = Entries(Len(a.data), LAMBDA x : a.data[x] + b.data[x])]

Add(a, b) ==
  [a EXCEPT !.data =
     Entries(Len(a.data), LAMBDA x : (a.data[x] + b.data[x]) % Q)]

Sub(a, b) ==
  [a EXCEPT !.data =
     Entries(Len(a.data), LAMBDA x : (a.data[x] - b.data[x]) % Q)]

-----------------------------------------------------------------------------
(* Encodings, word by word: the dimensions, then the entries.              *)
MatrixToBytes(m) == <<m.rows, m.cols>> \o m.data

BytesToMatrix(in) ==
  [rows |-> in[1], cols |-> in[2], word |-> 4, data |-> SubSeq(in, 3, Len(in))]

Matrix128ToBytes(m) == <<m.rows, m.cols>> \o m.data

BytesToMatrix128(in) ==
  [rows |-> in[1], cols |-> in[2], word |-> 16, data |-> SubSeq(in, 3, Len(in))]

\* Several matrices of one size: the length of one encoding, then all of them.
MatricesToBytes(ms) ==
  <<Len(MatrixToBytes(ms[1]))>>
    \o FlattenSeq([i \in DOMAIN ms |-> MatrixToBytes(ms[i])])

BytesToMatrices(in) ==
  LET length == in[1]
      n      == (Len(in) - 1) \div length
  IN [i \in 1 .. n |->
        BytesToMatrix(SubSeq(in, 2 + (i - 1) * length, 1 + i * length))]
=============================================================================
