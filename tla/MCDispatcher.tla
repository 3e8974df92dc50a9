---------------------------- MODULE MCDispatcher ----------------------------
EXTENDS Dispatcher

CONSTANTS a1, a2, c1, c2

MCMatches == [p \in Policy |-> {a1, a2}]
MCChannelsOf == [p \in Policy |-> {c1, c2}]
MCMinCount == [p \in Policy |-> 2]

(* The first alert has just begun an incident.                               *)
MCInit ==
    /\ status = [a \in Alert |-> IF a = a1 THEN "active" ELSE "none"]
    /\ ready = <<[alert |-> a1, event |-> "firing", status |-> "active"]>>
    /\ inc = [a \in Alert |-> a] /\ seen = [a \in Alert |-> "none"]
    /\ breach = [a \in Alert |-> 0]
    /\ first = {} /\ recent = {} /\ claims = {} /\ ok = {} /\ swept = FALSE
    /\ run = [t \in Slot |-> None] /\ told = {} /\ mixed = {} /\ acts = 0

MCSpec == MCInit /\ [][Next]_vars /\ Fairness
=============================================================================
