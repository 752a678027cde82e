----------------------------- MODULE Dimensions -----------------------------
(* How a database of numBlocks blocks is laid out in rows and columns.     *)
EXTENDS Integers

\* The smallest square that is not below num has this side.
SquareSide(num) == CHOOSE s \in 0..num : s * s >= num /\ (s = 0 \/ (s - 1) * (s - 1) < num)

CalculateNumRowsAndColumns(numBlocks, matrix) ==
   IF matrix THEN [rows |-> SquareSide(numBlocks), columns |-> SquareSide(numBlocks)]
             ELSE [rows |-> 1, columns |-> numBlocks]

\* The logarithm of n to the base 2, rounded up.
Levels(n) == CHOOSE d \in 0..n : 2 ^ d >= n /\ \A c \in 0..(d - 1) : 2 ^ c < n

VectorToMatrixIndices(i, numColumns) == <<i \div numColumns, i % numColumns>>
=============================================================================
