---------------------------- MODULE MCFrontEnds ----------------------------
(* An instance of FrontEnds for TLC: two servers of each kind, two jobs.   *)
EXTENDS FrontEnds

\* Versions 1 and 2 agree in all that infos are compared by.
MCDims == <<"a", "a", "b">>

AllOne == [s \in Servers |-> 1]

\* All files equal, or other files on one server of each kind.
MCFirstVersions ==
  {AllOne, [AllOne EXCEPT ![<<"point", 2>>] = 3, ![<<"complex", 2>>] = 3]}

\* One block of three twice, two of three once, all of two, statistics.
MCFlags ==
  {[scheme |-> "point", total |-> 3, bits |-> 4, repetitions |-> 2],
   [scheme |-> "point", total |-> 3, bits |-> 5, repetitions |-> 1],
   [scheme |-> "point", total |-> 2, bits |-> 8, repetitions |-> 1],
   [scheme |-> "complex", total |-> 3, bits |-> 4, repetitions |-> 2],
   [scheme |-> "other", total |-> 3, bits |-> 4, repetitions |-> 1]}
=============================================================================
