----------------------------- MODULE MCChatHub -----------------------------
(* A student with two connections, so that one can displace the other, and *)
(* their agent with one.  The agent shares a second room with a student    *)
(* who is not connected.                                                   *)
EXTENDS ChatHub, TLC

CONSTANTS s1, s2, g1, c1, c2, d1, q1, q2

MCOwner == [c \in Conns |-> IF c = d1 THEN g1 ELSE s1]
MCMembers == [q \in Rooms |-> IF q = q1 THEN {s1, g1} ELSE {s2, g1}]
MCContacts == [u \in Users |-> IF u = g1 THEN {s1, s2} ELSE {g1}]
MCNoContacts == [u \in Users |-> {}] \* neither room is active

Symmetry == Permutations({c1, c2})
============================================================================
