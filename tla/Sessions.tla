------------------------------ MODULE Sessions ------------------------------
(***************************************************************************)
(* What the refresh tokens promise.  A session is a token family: opened   *)
(* once, by one account, carrying at most one usable token at a time, and  *)
(* closed for good.  Requests on one session that overlap may fork it, and *)
(* a forked session is promised nothing but its owner.                     *)
(***************************************************************************)
CONSTANTS
    Families,  \* sessions
    Users,     \* accounts
    Tokens     \* what may be usable of a session

VARIABLES
    session,   \* family -> "new", "open", "closed" or "forked"
    owner,     \* family -> {} or the account it belongs to
    usable     \* family -> the tokens that a refresh would accept

sessions == <<session, owner, usable>>

Init ==
    /\ session = [f \in Families |-> "new"]
    /\ owner = [f \in Families |-> {}]
    /\ usable = [f \in Families |-> {}]

(* A login. *)
Begin(f) ==
    /\ session[f] = "new"
    /\ session' = [session EXCEPT ![f] = "open"]
    /\ \E u \in Users : owner' = [owner EXCEPT ![f] = {u}]
    /\ \E t \in Tokens : usable' = [usable EXCEPT ![f] = {t}]

(* A rotation gives up the token before it has the next one, and may never *)
(* get it.                                                                 *)
Spend(f) ==
    /\ session[f] = "open"
    /\ usable' = [usable EXCEPT ![f] = {}]
    /\ UNCHANGED <<session, owner>>

Renew(f) ==
    /\ session[f] = "open"
    /\ usable[f] = {}
    /\ \E t \in Tokens : usable' = [usable EXCEPT ![f] = {t}]
    /\ UNCHANGED <<session, owner>>

(* Logouts and detected reuses close sessions; those on which requests     *)
(* overlap are forked.  No step leads out of either.                       *)
Settle(closing, forking) ==
    /\ closing \cap forking = {}
    /\ \A f \in closing : session[f] \in {"open", "closed"}
    /\ \A f \in forking : session[f] = "open"
    /\ session' = [f \in Families |-> IF f \in closing THEN "closed"
                                      ELSE IF f \in forking THEN "forked" ELSE session[f]]
    /\ usable' = [f \in Families |-> IF f \in closing \cup forking THEN {} ELSE usable[f]]
    /\ UNCHANGED owner

Next ==
    \/ \E f \in Families : Begin(f) \/ Spend(f) \/ Renew(f)
    \/ \E closing, forking \in SUBSET Families : Settle(closing, forking)

Spec == Init /\ [][Next]_sessions
=============================================================================
