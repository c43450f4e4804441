---------------------------- MODULE MCDocuments ----------------------------
(* Three uploads by two students and two handlers: an upload can overlap a *)
(* delete, and two deletes and a review can meet on one document.          *)
EXTENDS Documents, TLC

Symmetry == Permutations(Names) \cup Permutations(Students) \cup Permutations(Reqs)
============================================================================
