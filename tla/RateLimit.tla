----------------------------- MODULE RateLimit -----------------------------
(***************************************************************************)
(* middleware/rate_limit.rs and the cleanup worker of db/sqlite.rs.        *)
(*                                                                         *)
(* A request reads the clock once and then runs three statements of their  *)
(* own on SQLite: a DELETE of old rows, a COUNT of its client's rows, an   *)
(* INSERT.  Other requests run between them, so the count may be out of    *)
(* date at the INSERT and the clock may have moved on.                     *)
(***************************************************************************)
EXTENDS Integers, FiniteSets

CONSTANTS
    Reqs,       \* requests; each is a row when its INSERT succeeds
    Keys,       \* auth:<header> or the client's address
    Routes,     \* POST /api/applications, and everything else
    RouteMax,   \* RATE_LIMIT_DEFAULT_MAX, RATE_LIMIT_UNIVERSITY_MAX
    Window,     \* RATE_LIMIT_WINDOW
    PurgeAge,   \* the worker's 600 s
    InFlight,   \* bound on the requests between arrival and answer
    MaxTime,    \* bound on the clock
    None        \* no client or route

ASSUME RateConstants ==
    /\ None \notin Keys \cup Routes
    /\ RouteMax \in [Routes -> Nat \ {0}]
    /\ Window \in Nat
    /\ PurgeAge \in Nat /\ PurgeAge >= Window
    /\ InFlight \in Nat \ {0}
    /\ MaxTime \in Nat

VARIABLES
    phase,   \* where each request is
    key,     \* its client
    route,   \* its class
    ts,      \* the time it read
    table,   \* rate_limits: the requests whose rows are there
    now      \* the clock

vars == <<phase, key, route, ts, table, now>>

(* The requests whose INSERT ran; a client may have hung up meanwhile. *)
passed == {r \in Reqs : phase[r] = "passed"}

Busy == {r \in Reqs : phase[r] \in {"delete", "count", "insert"}}

TypeOK ==
    /\ phase \in [Reqs -> {"new", "delete", "count", "insert", "passed", "refused", "failed"}]
    /\ key \in [Reqs -> Keys \cup {None}]
    /\ route \in [Reqs -> Routes \cup {None}]
    /\ \A r \in Busy \cup passed : key[r] # None /\ route[r] # None
    /\ ts \in [Reqs -> 0 .. now]
    /\ now \in 0 .. MaxTime
    /\ table \subseteq passed

Init ==
    /\ phase = [r \in Reqs |-> "new"]
    /\ key = [r \in Reqs |-> None]
    /\ route = [r \in Reqs |-> None]
    /\ ts = [r \in Reqs |-> 0]
    /\ table = {}
    /\ now = 0

Enter(r, p) == phase' = [phase EXCEPT ![r] = p]

Tick ==
    /\ now < MaxTime
    /\ now' = now + 1
    /\ UNCHANGED <<phase, key, route, ts, table>>

(* The key, the limit and the time are taken. *)
Arrive(r, k, p) ==
    /\ phase[r] = "new"
    /\ Cardinality(Busy) < InFlight
    /\ key' = [key EXCEPT ![r] = k]
    /\ route' = [route EXCEPT ![r] = p]
    /\ ts' = [ts EXCEPT ![r] = now]
    /\ Enter(r, "delete")
    /\ UNCHANGED <<table, now>>

(* Mutant of Old: the window is deleted with what came before it. *)
OldOrCurrent(t) == {q \in table : ts[q] <= t}

(* DELETE FROM rate_limits WHERE timestamp < t. *)
Old(t) == {q \in table : ts[q] < t}

(* A failure of the DELETE is logged and the request goes on. *)
Delete(r) ==
    /\ phase[r] = "delete"
    /\ table' \in {table, table \ Old(ts[r] - Window)}
    /\ Enter(r, "count")
    /\ UNCHANGED <<key, route, ts, now>>

(* SELECT COUNT .. WHERE key = .. AND timestamp >= cutoff: of every route. *)
Counted(r) == {q \in table : key[q] = key[r] /\ ts[q] >= ts[r] - Window}

(* Answer without serving: the request's data is forgotten. *)
Answer(r, p) ==
    /\ Enter(r, p)
    /\ key' = [key EXCEPT ![r] = None]
    /\ route' = [route EXCEPT ![r] = None]
    /\ ts' = [ts EXCEPT ![r] = 0]

Count(r) ==
    /\ phase[r] = "count"
    /\ IF Cardinality(Counted(r)) >= RouteMax[route[r]]
          THEN Answer(r, "refused")
          ELSE Enter(r, "insert") /\ UNCHANGED <<key, route, ts>>
    /\ UNCHANGED <<table, now>>

(* Mutants of Insert: a busy database answers late, the row is kept and    *)
(* the request is refused; the request does not wait for its row.          *)
InsertAndFail(r) ==
    /\ phase[r] = "insert"
    /\ table' = table \cup {r}
    /\ Enter(r, "failed")
    /\ UNCHANGED <<key, route, ts, now>>
PassUnlogged(r) ==
    /\ phase[r] = "insert"
    /\ Enter(r, "passed")
    /\ UNCHANGED <<key, route, ts, table, now>>

Insert(r) ==
    /\ phase[r] = "insert"
    /\ table' = table \cup {r}
    /\ Enter(r, "passed")
    /\ UNCHANGED <<key, route, ts, now>>

(* The COUNT or the INSERT fails (500), or the client hangs up. *)
Fail(r) ==
    /\ r \in Busy
    /\ Answer(r, "failed")
    /\ UNCHANGED <<table, now>>

(* The worker's DELETE, every five minutes. *)
Purge ==
    /\ Old(now - PurgeAge) # {}
    /\ table' = table \ Old(now - PurgeAge)
    /\ UNCHANGED <<phase, key, route, ts, now>>

Next ==
    \/ Tick \/ Purge
    \/ \E r \in Reqs : (\E k \in Keys, p \in Routes : Arrive(r, k, p))
                     \/ Delete(r) \/ Count(r) \/ Insert(r) \/ Fail(r)

Spec == Init /\ [][Next]_vars

----------------------------------------------------------------------------
(* Properties. *)

(* The row of a request let through within the last window is in the       *)
(* table: no cleanup takes a row a later count has to see.                 *)
RecentIsLogged == \A r \in passed : ts[r] >= now - Window => r \in table

(* A request is refused only when its client used the whole limit since    *)
(* the window began: refused requests do not prolong the refusal.          *)
RefusalIsEarned ==
    [][\A r \in Reqs : phase[r] = "count" /\ phase'[r] = "refused" =>
          Cardinality({q \in passed : key[q] = key[r] /\ ts[q] >= ts[r] - Window})
             >= RouteMax[route[r]]]_vars

(* The requests let through, and how far they may exceed a limit: InFlight *)
(* - 1 whose counts were taken before the last INSERT the limit allows, and *)
(* InFlight whose windows a cleanup younger than they has deleted from.     *)
Log == {[req |-> r, key |-> key[r], route |-> route[r], ts |-> ts[r]] : r \in passed}

Promised == INSTANCE SlidingWindow WITH
               log <- Log,
               Limit <- [p \in Routes |-> RouteMax[p] + 2 * InFlight - 1]

(* The limiter is a sliding window, with that slack. *)
KeepsWindow == Promised!Spec
============================================================================
