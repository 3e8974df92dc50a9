------------------------------- MODULE MCJobs -------------------------------
(* Instances of Jobs for TLC: a one-key row, a two-key row as an autotune    *)
(* batch over two hosts, and a periodic row without keys.                    *)
EXTENDS Jobs

CONSTANTS a, b, c, k1, k2

MCKeys == [j \in Job |-> CASE j = a -> {k1} [] j = b -> {k1, k2} [] OTHER -> {}]

MCRuns == [j \in Job |-> IF j = c THEN 2 ELSE 0]

MCOnce == [j \in Job |-> 0]
=============================================================================
