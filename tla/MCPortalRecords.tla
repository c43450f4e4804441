-------------------------- MODULE MCPortalRecords --------------------------
(* Two handlers, lists of two entries, a slot for one booking.           *)
EXTENDS PortalRecords, TLC

Symmetry == Permutations(Reqs) \cup Permutations(Rows)
=============================================================================
