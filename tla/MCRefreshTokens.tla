-------------------------- MODULE MCRefreshTokens --------------------------
(* Two handlers, two sessions, one account per session at most two, and a  *)
(* clock of three seconds: enough for a rotation to overlap a rotation, a  *)
(* reuse, a logout and a logout-all, for a token to expire, and for two    *)
(* tokens of a family to be minted in one second.                          *)
EXTENDS RefreshTokens, TLC

Symmetry == Permutations(Ids) \cup Permutations(Families)
              \cup Permutations(Reqs) \cup Permutations(Users)
============================================================================
