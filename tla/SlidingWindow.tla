--------------------------- MODULE SlidingWindow ---------------------------
(* What a rate limiter promises: of the requests it lets through, no       *)
(* window holds more than Limit of one client on one route.                *)
EXTENDS Integers, FiniteSets

CONSTANTS
    Reqs,       \* requests
    Keys,       \* clients
    Routes,     \* classes of routes with a limit of their own
    Window,     \* length of the window
    Limit,      \* route -> requests a window may hold
    MaxTime     \* bound on the clock

VARIABLE log    \* the requests let through

Entry == [req : Reqs, key : Keys, route : Routes, ts : 0 .. MaxTime]

(* No window that e falls into holds too many of its client and route. *)
Fits(l, e) ==
    \A w \in e.ts .. e.ts + Window :
       Cardinality({d \in l : /\ d.key = e.key /\ d.route = e.route
                              /\ w - Window <= d.ts /\ d.ts <= w}) <= Limit[e.route]

Init == log = {}

Admit(e) ==
    /\ \A d \in log : d.req # e.req
    /\ log' = log \cup {e}
    /\ Fits(log', e)

Next == \E e \in Entry : Admit(e)

Spec == Init /\ [][Next]_log
============================================================================
