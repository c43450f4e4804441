--------------------------- MODULE MCApplications ---------------------------
(* One student, one agent and one superadmin; two applications and two     *)
(* courses, so that a duplicate can arise by creation and by renaming; two *)
(* handlers, so that any two operations can overlap.                       *)
EXTENDS Applications, TLC

MCAgentOf == [s \in Students |-> None]

Symmetry == Permutations(Apps) \cup Permutations(Courses) \cup Permutations(Reqs)
============================================================================
