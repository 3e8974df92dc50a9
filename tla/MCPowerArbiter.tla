--------------------------- MODULE MCPowerArbiter ---------------------------
(* What the providers may report in the instances of PowerArbiter: a model   *)
(* that is served beside one that sleeps, and servers without one.          *)
EXTENDS PowerArbiter

MCSample ==
    {[models |-> {"loaded", "sleeping"}, servers |-> {"up"}],
     [models |-> {"unloaded"}, servers |-> {"up", "down"}]}

(* A replaced arbiter whose worker has ended decides only when a call that   *)
(* waits on it returns; states that differ in its other fields are one.      *)
MCView ==
    <<[g \in Gen |-> IF g < cur /\ thread[g] = "ended" THEN New(arb[g].mode) ELSE arb[g]],
      thread, cur, reload, host, record, cl, tick, overlap, leaked, mishaps>>
=============================================================================
