-------------------------- MODULE MCPredicateQuery --------------------------
(* Instances of PredicateQuery for TLC.                                    *)
EXTENDS PredicateQuery

Count(target, fromStart, fromEnd, text, algo, y) ==
   [target |-> target, fromStart |-> fromStart, fromEnd |-> fromEnd,
    and |-> FALSE, avg |-> FALSE, text |-> text, algo |-> algo, year |-> y]

Text(fromStart, fromEnd, text) == Count("UserId", fromStart, fromEnd, text, "RSA", 0)

EmailRequests == {Text(1, 0, <<"a">>), Text(0, 2, <<"b", "c">>), Text(0, 0, <<"b", "c">>),
                  Text(2, 0, <<"a">>)}        \* --from-start 2 --id a
ConjunctiveRequests == {[Text(0, 1, <<"c">>) EXCEPT !.and = TRUE]}
AverageRequests == {[Text(0, 1, <<"c">>) EXCEPT !.and = TRUE, !.avg = TRUE]}
CreationRequests == {Count("CreationTime", 0, 0, <<>>, "RSA", 2019)}
AlgoRequests == {Count("PubKeyAlgo", 0, 0, <<>>, algo, 0) : algo \in {"RSA", "ed25519"}}

MCRequests == EmailRequests \cup ConjunctiveRequests \cup AverageRequests
              \cup CreationRequests \cup AlgoRequests

\* The dates of keys are read in the zone of the host.
K(email, algo, y, day) ==
   [email |-> email, algo |-> algo, created |-> [year |-> y, day |-> day, zone |-> "Local"]]

Old == K(<<"b", "c">>, "RSA", 2018, "Nov30")
Recent == K(<<"a", "b", "c">>, "ed25519", 2022, "May1")
Short == K(<<"c">>, "RSA", 2018, "May1")
Future == K(<<"a", "c">>, "RSA", 2023, "May1")

\* A date as complex_test.go sets it.
Tested == [Old EXCEPT !.created.zone = "UTC"]

MCDatabases == {<<Old, Recent>>, <<Short, Old>>, <<Future, Recent>>, <<Recent, Future>>,
                <<Old, Short>>, <<Tested, Recent>>}
=============================================================================
