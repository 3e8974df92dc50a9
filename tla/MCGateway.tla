------------------------------ MODULE MCGateway -----------------------------
EXTENDS Gateway

CONSTANTS x, y

MCPoolOf == [p \in Provider |-> IF p = Fallback THEN {x, y} ELSE {}]

(* Either all the requests, whose route named the provider, beside an index  *)
(* that stays fresh; or one request, after a proxied one that failed, and     *)
(* an index that is still to be built.                                       *)
One(k, pc, p, out) ==
    [kind |-> k, pc |-> pc, prov |-> p, left |-> <<>>, at |-> None, late |-> FALSE, out |-> out]
Routed == {One(k, "enter", p, None) : k \in Kind \ {"proxy"}, p \in Provider}
              \cup {One("proxy", "new", None, None)}
New == {One(k, "new", None, None) : k \in Kind}

Quiet ==
    /\ active = 0 /\ inflight = [a \in Agent |-> 0] /\ clients = 0 /\ errors = 0
    /\ refreshing = FALSE /\ fan = [t \in Thread |-> "off"]

MCInit ==
    /\ Quiet
    /\ \/ /\ req \in [Req -> Routed]
          /\ index = [fresh |-> TRUE, owner |-> Fallback] /\ ages = MaxAges
       \/ /\ \E r \in Req : req \in [Req -> New \cup {One("proxy", "done", None, "none")}]
                             /\ \A s \in Req : (req[s].pc = "new") <=> (s = r)
          /\ index = [fresh |-> FALSE, owner |-> None] /\ ages = 0

MCRest ==
    /\ Quiet /\ req = [r \in Req |-> One("proxy", "done", None, "none")]
    /\ index = [fresh |-> FALSE, owner |-> None] /\ ages = 0

MCSpec == MCInit /\ [][Next]_vars /\ Fairness
=============================================================================
