---------------------------- MODULE MCRateLimit ----------------------------
(* One client, two routes whose limits are 1 and 2, at most two requests   *)
(* in flight.                                                              *)
EXTENDS RateLimit, TLC

MCRouteMax == [p \in Routes |-> IF p = "apply" THEN 1 ELSE 2]

Symmetry == Permutations(Reqs)
============================================================================
