----------------------------- MODULE MCPointPIR -----------------------------
(* Instances of PointPIR for TLC.  Emails are numbers; of four buckets,    *)
(* email n goes to bucket n \div 10.                                       *)
EXTENDS PointPIR

K(email, packet) == [ID |-> email, Packet |-> <<{packet}>>]

\* "first": one key, two keys, none and one in the four buckets of a 2x2 table.
\* "next":  a row without keys, then two keys in each bucket.
\* "tiny":  a table of one block.
\* "wide":  a 3x3 table with one key in each bucket.
MCFiles == [v \in {"first", "next", "tiny", "wide"} |->
              CASE v = "first" -> <<K(1, <<"k1">>), K(11, <<"k11">>), K(12, <<"k12">>), K(31, <<"k31">>)>>
                [] v = "next" -> <<K(21, <<"k21">>), K(32, <<"k32">>), K(22, <<"k22">>), K(31, <<"k31">>)>>
                [] v = "tiny" -> <<K(11, <<"k11b">>)>>
                [] v = "wide" -> [n \in 1..9 |-> K(10 * n - 9, <<"w", n>>)]]

Keys == UNION {{MCFiles[v][n] : n \in DOMAIN MCFiles[v]} : v \in DOMAIN MCFiles}
MCEmailOf == [p \in {k.Packet : k \in Keys} |-> (CHOOSE k \in Keys : k.Packet = p).ID]
MCHash == [email \in 0..89 |-> email \div 10]

Two(merkle) == [n |-> 2, merkle |-> merkle, two |-> TRUE]
Three(merkle) == [n |-> 3, merkle |-> merkle, two |-> FALSE]
AsTested == {Two(TRUE), Two(FALSE), Three(FALSE)}

\* cmd/grpc/server/main.go builds every point server with NewPIR.
AsDeployed == {[n |-> 2, merkle |-> TRUE, two |-> FALSE], [n |-> 2, merkle |-> FALSE, two |-> FALSE]}
=============================================================================
