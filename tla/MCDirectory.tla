---------------------------- MODULE MCDirectory ----------------------------
EXTENDS Directory, TLC

CONSTANTS d1, law, law_space, k1, k2, r1, r2, s1

(* One university, a prefix typed with and without a space, two keys of    *)
(* which the cache holds one.  course_autocomplete strips the prefix for   *)
(* the key and not for the query.                                          *)
MCKey == d1 :> k1 @@ law :> k2 @@ law_space :> k2
Symmetry == Permutations({r1, r2})
=============================================================================
