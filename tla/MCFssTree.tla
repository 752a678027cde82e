----------------------------- MODULE MCFssTree ------------------------------
(* Instances of FssTree for TLC: a small generator with no symmetry between *)
(* its two halves and a conversion that hits every element.                *)
EXTENDS FssTree, FiniteSetsExt

\* A seed as a number, bit n counting 2^n.
Value(s) == SumSet({2^n : n \in s})
SeedOf(v) == {n \in SeedBits : (v \div 2^n) % 2 = 1}

MCG == [s \in Seeds |->
          [side \in BOOLEAN |->
             IF side
             THEN [s |-> SeedOf(3 * Value(s) + 1), t |-> Value(s) \in {0, 3}]
             ELSE [s |-> SeedOf((Value(s) * Value(s)) + 2), t |-> Value(s) \in {1}]]]

\* Never ModP, as for all but a fraction 2^-31 of the seeds.
MCRaw == [s \in Seeds |-> (2 * Value(s) + 1) % ModP]

\* One seed whose bytes are all ones.
MCRawFull == [s \in Seeds |-> IF s = SeedBits THEN ModP ELSE Value(s) % ModP]
=============================================================================
