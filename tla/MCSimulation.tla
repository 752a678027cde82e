---------------------------- MODULE MCSimulation ----------------------------
(* An instance of Simulation for TLC: words modulo 32, lattices of         *)
(* dimension 2, databases of up to two rows and columns.                   *)
EXTENDS Simulation

MCSeedStream == <<5, 11, 26, 3>>

MCConfigs == {<<3>>, <<4, 1>>}

\* One repetition for the length 4, three for the length 3, none for 1.
MCtECC == (3 :> 1) @@ (4 :> 0)

Draw(ts, es) ==
  [secret : {<<7, 20>>}, t : ts, e : es]

\* Blinds on both sides of the bounds, errors of both signs, and samples from
\* the tail, above what the bound allows per row.
Unusual == Draw({16}, {<<6, -1>>})

MCDraws128 ==
  Draw({0, 5, 9, 16, 27}, {<<-1, -1>>, <<1, 1>>}) \cup Unusual

MCDraws ==
  (1 :> Draw({3, 9, 16, 29}, {<<-1, -1>>, <<1, 1>>}) \cup Unusual)
  @@ (3 :> Draw({2}, {<<1, 1>>, <<1, -1>>}) \cup Draw({16}, {<<1, -1>>}))
=============================================================================
