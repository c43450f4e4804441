----------------------------- MODULE MCAccounts -----------------------------
(* Two students' addresses and two agents', one of whom is hired when the  *)
(* run begins; two requests, which race or follow each other.              *)
EXTENDS AdminLists, TLC

CONSTANTS g1, g2, p1, p2

MCAsked ==
    {[op |-> o, who |-> e, pw |-> p1] : o \in Public, e \in Emails}
    \cup {[op |-> "enlist", who |-> e, pw |-> p2, by |-> g1] : e \in Emails}
    \cup {[op |-> "password", who |-> e, pw |-> p1, new |-> p2] : e \in Emails}
    \cup {[op |-> "profile", who |-> e, by |-> g1, linked |-> l] : e \in Emails, l \in BOOLEAN}
    \cup {[op |-> "activate", who |-> e] : e \in Emails}
    \cup {[op |-> "status", who |-> e, active |-> FALSE, status |-> None] : e \in Emails}
    \cup {[op |-> "status", who |-> e, active |-> FALSE, status |-> "lead"] : e \in Emails}
    \cup {[op |-> "hire", who |-> g2], [op |-> "edit", who |-> g1, active |-> FALSE],
          [op |-> "presence", who |-> g1, online |-> TRUE]}

Symmetry == Permutations(Emails) \cup Permutations(Requests)
=============================================================================
