------------------------------ MODULE MCKeyDB ------------------------------
(* An instance of KeyDB for TLC.  Of the emails, 1 is 11 in capitals; with *)
(* four buckets, 11 and 13 share one.                                      *)
EXTENDS KeyDB, TLC

MCLower == (0 :> 0 @@ 1 :> 11 @@ 11 :> 11 @@ 12 :> 12 @@ 13 :> 13)
MCHash  == (11 :> 0 @@ 12 :> 1 @@ 13 :> 4)

Key(primary, others, created, name) ==
  [primary |-> primary, others |-> others, created |-> created, revoked |-> FALSE,
   packet |-> <<{<<name>>}>>]
Revoked(e)  == [e EXCEPT !.revoked = TRUE]
TooLarge(e) == [e EXCEPT !.packet = @ \o @]

File(entities) == [matches |-> TRUE, readable |-> TRUE, entities |-> entities]

\* 1: keys of three emails, some renewed, revoked, without a primary email or
\*    without any; 2: a key that is too large hides an older one; 3: a file
\*    that cannot be read.
MCDumps ==
  << <<[File(<<Key(13, {}, 9, "other")>>) EXCEPT !.matches = FALSE],
       File(<<Key(1, {}, 1, "ann1"), Key(12, {}, 2, "bob2")>>),
       File(<<Key(11, {12}, 2, "ann2"), Revoked(Key(12, {}, 3, "bob3")), Key(0, {0}, 5, "nobody"),
              Key(0, {0, 13}, 1, "cy1"), Key(12, {}, 2, "bob2b")>>)>>,
     <<File(<<Key(12, {}, 4, "bob4"), TooLarge(Key(12, {}, 5, "bob5")), Key(13, {}, 5, "cy5"),
              Key(1, {}, 6, "ann6")>>)>>,
     <<File(<<Key(13, {}, 7, "cy7")>>), [File(<<>>) EXCEPT !.readable = FALSE]>> >>

\* One machine is prepared anew over the files of another dump.
MCMaxCommands == (0 :> 4 @@ 1 :> 3)

B(i) == <<{<<"random", i>>}>>
MCRandomBlocks ==
  {[blocks |-> [i \in 1 .. n |-> B(i)], rows |-> rows] : n \in 1 .. 6, rows \in 1 .. 2}
    \cup {[blocks |-> [i \in 1 .. n |-> B(0)], rows |-> 1] : n \in 1 .. 3}
=============================================================================
