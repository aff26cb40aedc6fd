----------------------------- MODULE MCBalancer -----------------------------
(* Instances of Balancer for TLC.                                          *)
EXTENDS Balancer

CONSTANTS a, b

\* None at all, as in NewRandomBalancer(nil), one target, or two.
MCInitial == {<< >>, <<a>>, <<a, b>>}
OneTarget == {<<a>>}
MCWeight  == [n \in Names |-> IF n = a THEN 0 ELSE 2]
AllKinds  == {"random", "roundRobin", "static"}
RoundRobin == {"roundRobin"}
=============================================================================
