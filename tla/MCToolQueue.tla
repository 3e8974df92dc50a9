---------------------------- MODULE MCToolQueue ----------------------------
(* One host, a tool run with a pre-step, one without and a Report Card, of    *)
(* which two are asked for: any two on an idle host with a restart to come,   *)
(* or the tool runs on a host that somebody else keeps busy, so that both     *)
(* have to wait.                                                              *)
EXTENDS ToolQueue

MCHostOf == [j \in Job |-> "h"]

MCInit ==
    /\ Init
    /\ Cardinality({j \in Job : asked[j] = "no"}) = 2
    /\ \/ active["h"] = NoJob /\ crashes = 0
       \/ active["h"] = Other /\ crashes = MaxCrashes /\ asked["card"] = "answered"

MCSpec == MCInit /\ [][Next]_vars /\ Fairness
=============================================================================
