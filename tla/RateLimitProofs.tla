--------------------------- MODULE RateLimitProofs ---------------------------
(***************************************************************************)
(* RateLimit, for any requests, clients, limits, windows and clock.        *)
(*                                                                         *)
(* The argument for the refinement is an inequality for each window.       *)
(* While a window may still be counted, the requests let through in it and *)
(* those about to be number at most the limit and the requests in flight   *)
(* less one: who passes the COUNT saw fewer rows than the limit, and all   *)
(* others about to insert are in flight.  Once the clock has left the      *)
(* window its rows may go, so a COUNT may let through more; but nobody     *)
(* arrives in the window any more, and only those in flight then are left. *)
(***************************************************************************)
EXTENDS RateLimit, FiniteSetTheorems, TLAPS

USE RateConstants DEF Busy, passed

(* Each request that ran a statement is one of finitely many. *)
Started == Busy \cup passed
FewInFlight ==
    /\ IsFiniteSet(Started)
    /\ Cardinality(Busy) <= InFlight

LEMMA TypeInit == Init => TypeOK /\ FewInFlight /\ RecentIsLogged
  <1>1. Init => Busy = {} /\ passed = {}
    BY DEF Init
  <1>2. Init => TypeOK
    BY DEF Init, TypeOK
  <1>3. Init => FewInFlight
    <2>1. Init => IsFiniteSet(Started) /\ Cardinality(Busy) = 0
      BY <1>1, FS_EmptySet DEF Started
    <2>2. QED
      BY <2>1 DEF FewInFlight
  <1>4. QED
    BY <1>1, <1>2, <1>3 DEF RecentIsLogged

(* The step of one request on the sets of requests. *)
LEMMA SetsStep ==
    ASSUME TypeOK, NEW r \in Reqs, Delete(r) \/ Count(r) \/ Insert(r) \/ Fail(r)
    PROVE  /\ r \in Busy
           /\ Busy' \subseteq Busy /\ Busy \ {r} \subseteq Busy'
           /\ passed \subseteq passed' /\ passed' \subseteq passed \cup {r}
           /\ r \in passed' <=> Insert(r)
           /\ \A q \in Reqs \ {r} :
                 phase'[q] = phase[q] /\ key'[q] = key[q] /\ route'[q] = route[q] /\ ts'[q] = ts[q]
           /\ now' = now
  <1>1. CASE Delete(r)
    BY <1>1 DEF TypeOK, Delete, Enter, Insert
  <1>2. CASE Count(r)
    BY <1>2 DEF TypeOK, Count, Enter, Answer, Insert
  <1>3. CASE Insert(r)
    BY <1>3 DEF TypeOK, Insert, Enter
  <1>4. CASE Fail(r)
    <2>1. r \in Busy /\ phase' = [phase EXCEPT ![r] = "failed"]
      BY <1>4 DEF Fail, Answer, Enter
    <2>2. ~Insert(r)
      BY <2>1 DEF Insert, Enter, TypeOK
    <2>3. QED
      BY <1>4, <2>1, <2>2 DEF TypeOK, Fail, Answer, Enter
  <1>5. QED
    BY <1>1, <1>2, <1>3, <1>4

LEMMA TypeStep == ASSUME TypeOK, [Next]_vars PROVE TypeOK'
  <1>1. CASE Tick
    BY <1>1 DEF Tick, TypeOK
  <1>2. CASE Purge
    BY <1>2 DEF Purge, TypeOK
  <1>3. ASSUME NEW r \in Reqs, NEW k \in Keys, NEW p \in Routes, Arrive(r, k, p)
        PROVE  TypeOK'
    BY <1>3 DEF Arrive, Enter, TypeOK
  <1>4. ASSUME NEW r \in Reqs, Delete(r) \/ Insert(r)
        PROVE  TypeOK'
    BY <1>4 DEF Delete, Insert, Enter, TypeOK
  <1>5. ASSUME NEW r \in Reqs, NEW p \in {"refused", "failed"}, r \in Busy, Answer(r, p),
               UNCHANGED <<table, now>>
        PROVE  TypeOK'
    BY <1>5 DEF Answer, Enter, TypeOK
  <1>6. ASSUME NEW r \in Reqs, Count(r)
        PROVE  TypeOK'
    <2>1. CASE Answer(r, "refused")
      BY <1>5, <1>6, <2>1 DEF Count
    <2>2. CASE Enter(r, "insert") /\ UNCHANGED <<key, route, ts>>
      BY <1>6, <2>2 DEF Count, Enter, TypeOK
    <2>3. QED
      BY <1>6, <2>1, <2>2 DEF Count
  <1>7. ASSUME NEW r \in Reqs, Fail(r)
        PROVE  TypeOK'
    BY <1>5, <1>7 DEF Fail
  <1>8. CASE UNCHANGED vars
    BY <1>8 DEF vars, TypeOK
  <1>9. QED
    BY <1>1, <1>2, <1>3, <1>4, <1>6, <1>7, <1>8 DEF Next

(* The limiter's table and its requests are well typed in every reachable  *)
(* state: a row is of a request that was let through.                      *)
THEOREM TypeCorrect == Spec => []TypeOK
  BY TypeInit, TypeStep, PTL DEF Spec

LEMMA FlightStep ==
    ASSUME TypeOK, FewInFlight, [Next]_vars
    PROVE  FewInFlight'
  <1>1. ASSUME UNCHANGED phase
        PROVE  FewInFlight'
    BY <1>1 DEF FewInFlight, Started
  <1>2. ASSUME NEW r \in Reqs, NEW k \in Keys, NEW p \in Routes, Arrive(r, k, p)
        PROVE  FewInFlight'
    <2>1. Busy' = Busy \cup {r} /\ r \notin Busy /\ Started' = Started \cup {r}
      BY <1>2 DEF Arrive, Enter, TypeOK, Started
    <2>2. IsFiniteSet(Started')
      BY <2>1, FS_AddElement DEF FewInFlight
    <2>3. IsFiniteSet(Busy)
      BY FS_Subset DEF FewInFlight, Started
    <2>4. Cardinality(Busy') = Cardinality(Busy) + 1 /\ Cardinality(Busy) \in Nat
      BY <2>1, <2>3, FS_AddElement, FS_CardinalityType
    <2>5. Cardinality(Busy) < InFlight
      BY <1>2 DEF Arrive
    <2>6. QED
      BY <2>2, <2>4, <2>5 DEF FewInFlight
  <1>3. ASSUME NEW r \in Reqs, Delete(r) \/ Count(r) \/ Insert(r) \/ Fail(r)
        PROVE  FewInFlight'
    <2>1. Busy' \subseteq Busy /\ Started' \subseteq Started
      BY <1>3, SetsStep DEF Started
    <2>2. IsFiniteSet(Started') /\ IsFiniteSet(Busy)
      BY <2>1, FS_Subset DEF FewInFlight, Started
    <2>3. Cardinality(Busy') <= Cardinality(Busy) /\ Cardinality(Busy') \in Nat
          /\ Cardinality(Busy) \in Nat
      BY <2>1, <2>2, FS_Subset, FS_CardinalityType
    <2>4. QED
      BY <2>2, <2>3 DEF FewInFlight
  <1>4. QED
    BY <1>1, <1>2, <1>3 DEF Next, vars, Tick, Purge

LEMMA LoggedStep ==
    ASSUME TypeOK, RecentIsLogged, [Next]_vars
    PROVE  RecentIsLogged'
  <1>1. ASSUME passed' \subseteq passed, \A q \in passed : ts'[q] = ts[q], now' \in Nat, now' >= now,
               \A q \in table : q \in table' \/ ts[q] < now - Window
        PROVE  RecentIsLogged'
    BY <1>1 DEF RecentIsLogged, TypeOK
  <1>2. CASE Tick
    BY <1>1, <1>2 DEF Tick, TypeOK
  <1>3. CASE Purge
    BY <1>1, <1>3 DEF Purge, Old, TypeOK
  <1>4. ASSUME NEW r \in Reqs, NEW k \in Keys, NEW p \in Routes, Arrive(r, k, p)
        PROVE  RecentIsLogged'
    BY <1>1, <1>4 DEF Arrive, Enter, TypeOK
  <1>5. ASSUME NEW r \in Reqs, Delete(r)
        PROVE  RecentIsLogged'
    BY <1>1, <1>5 DEF Delete, Enter, Old, TypeOK
  <1>6. ASSUME NEW r \in Reqs, Insert(r)
        PROVE  RecentIsLogged'
    BY <1>6 DEF Insert, Enter, RecentIsLogged, TypeOK
  <1>7. ASSUME NEW r \in Reqs, Count(r) \/ Fail(r)
        PROVE  RecentIsLogged'
    <2>1. ~Insert(r) /\ table' = table
      BY <1>7 DEF Count, Fail, Insert, Answer, Enter, TypeOK
    <2>2. passed' = passed /\ r \notin passed /\ now' = now
      BY <1>7, <2>1, SetsStep
    <2>3. \A q \in passed : ts'[q] = ts[q]
      BY <1>7, <2>2, SetsStep
    <2>4. QED
      BY <1>1, <2>1, <2>2, <2>3 DEF TypeOK
  <1>8. CASE UNCHANGED vars
    BY <1>1, <1>8 DEF vars, TypeOK
  <1>9. QED
    BY <1>2, <1>3, <1>4, <1>5, <1>6, <1>7, <1>8 DEF Next

(* For any ages and any clock: no cleanup takes a row that a later count   *)
(* has to see.                                                             *)
THEOREM RecentRowsAreKept == Spec => []RecentIsLogged
  BY TypeInit, TypeStep, LoggedStep, PTL DEF Spec

----------------------------------------------------------------------------
(* Refusals. *)

(* A request is refused only when its client used the whole limit since    *)
(* its window began, whatever the others did meanwhile.                    *)
THEOREM RefusalsAreEarned == Spec => RefusalIsEarned
  <1> DEFINE Used(r) == {q \in passed : key[q] = key[r] /\ ts[q] >= ts[r] - Window}
             A == \A r \in Reqs : phase[r] = "count" /\ phase'[r] = "refused" =>
                     Cardinality(Used(r)) >= RouteMax[route[r]]
  <1>1. TypeOK /\ FewInFlight /\ [Next]_vars => [A]_vars
    <2> SUFFICES ASSUME TypeOK, FewInFlight, Next, NEW r \in Reqs,
                        phase[r] = "count", phase'[r] = "refused"
                 PROVE  Cardinality(Used(r)) >= RouteMax[route[r]]
      OBVIOUS
    <2>1. Count(r)
      <3>1. ASSUME NEW q \in Reqs, Delete(q) \/ Count(q) \/ Insert(q) \/ Fail(q)
            PROVE  q = r
        BY <3>1, SetsStep
      <3>2. ~(Delete(r) \/ Insert(r) \/ Fail(r))
        BY DEF Delete, Insert, Fail, Answer, Enter, TypeOK
      <3>3. phase' # phase
        OBVIOUS
      <3>4. \A q \in Reqs, k \in Keys, p \in Routes : ~Arrive(q, k, p)
        BY DEF Arrive, Enter, TypeOK
      <3>5. QED
        BY <3>1, <3>2, <3>3, <3>4 DEF Next, Tick, Purge
    <2>2. Cardinality(Counted(r)) >= RouteMax[route[r]]
      BY <2>1 DEF Count, Enter, TypeOK
    <2>3. Counted(r) \subseteq Used(r)
      BY DEF Counted, TypeOK
    <2>4. IsFiniteSet(Used(r))
      BY FS_Subset DEF FewInFlight, Started
    <2>5. IsFiniteSet(Counted(r)) /\ Cardinality(Counted(r)) <= Cardinality(Used(r))
      BY <2>3, <2>4, FS_Subset
    <2>6. Cardinality(Counted(r)) \in Nat /\ Cardinality(Used(r)) \in Nat
      BY <2>4, <2>5, FS_CardinalityType
    <2>7. RouteMax[route[r]] \in Nat
      BY DEF TypeOK
    <2>8. QED
      BY <2>2, <2>5, <2>6, <2>7
  <1>2. QED
    BY <1>1, TypeInit, TypeStep, FlightStep, PTL DEF Spec, RefusalIsEarned

----------------------------------------------------------------------------
(* The inequality of each window [w - Window, w]. *)

In(r, k, p, w) == key[r] = k /\ route[r] = p /\ w - Window <= ts[r] /\ ts[r] <= w

(* Let through, or past the COUNT. *)
Granted(k, p, w) == {r \in Reqs : phase[r] \in {"insert", "passed"} /\ In(r, k, p, w)}

(* Let through, or in flight. *)
Possible(k, p, w) == {r \in Started : In(r, k, p, w)}

WindowOK(k, p, w) ==
    /\ now <= w => Cardinality(Granted(k, p, w)) <= RouteMax[p] + InFlight - 1
    /\ now > w => Cardinality(Possible(k, p, w)) <= RouteMax[p] + 2 * InFlight - 1
Windows == \A k \in Keys, p \in Routes, w \in Nat : WindowOK(k, p, w)

LEMMA WindowsFinite ==
    ASSUME FewInFlight, NEW k, NEW p, NEW w
    PROVE  /\ IsFiniteSet(Granted(k, p, w)) /\ Cardinality(Granted(k, p, w)) \in Nat
           /\ IsFiniteSet(Possible(k, p, w)) /\ Cardinality(Possible(k, p, w)) \in Nat
  <1>1. Granted(k, p, w) \subseteq Started /\ Possible(k, p, w) \subseteq Started
    BY DEF Granted, Possible, Started
  <1>2. QED
    BY <1>1, FS_Subset, FS_CardinalityType DEF FewInFlight

(* Fewer requests keep the inequality. *)
LEMMA WindowShrinks ==
    ASSUME TypeOK, FewInFlight, Windows, now' = now, NEW k \in Keys, NEW p \in Routes, NEW w \in Nat,
           now <= w => Granted(k, p, w)' \subseteq Granted(k, p, w),
           now > w => Possible(k, p, w)' \subseteq Possible(k, p, w)
    PROVE  WindowOK(k, p, w)'
  <1>1. WindowOK(k, p, w) /\ RouteMax[p] \in Nat
    BY DEF Windows
  <1>2. CASE now <= w
    <2>1. /\ Cardinality(Granted(k, p, w)') <= Cardinality(Granted(k, p, w))
          /\ Cardinality(Granted(k, p, w)') \in Nat /\ Cardinality(Granted(k, p, w)) \in Nat
      BY <1>2, WindowsFinite, FS_Subset, FS_CardinalityType
    <2>2. QED
      BY <1>1, <1>2, <2>1 DEF WindowOK, TypeOK
  <1>3. CASE now > w
    <2>1. /\ Cardinality(Possible(k, p, w)') <= Cardinality(Possible(k, p, w))
          /\ Cardinality(Possible(k, p, w)') \in Nat /\ Cardinality(Possible(k, p, w)) \in Nat
      BY <1>3, WindowsFinite, FS_Subset, FS_CardinalityType
    <2>2. QED
      BY <1>1, <1>3, <2>1 DEF WindowOK, TypeOK
  <1>4. QED
    BY <1>2, <1>3 DEF TypeOK

(* Who passes the COUNT found room; the others about to insert are in      *)
(* flight.                                                                 *)
LEMMA CountStep ==
    ASSUME TypeOK, FewInFlight, FewInFlight', RecentIsLogged, Windows,
           NEW r \in Reqs, Count(r), NEW k \in Keys, NEW p \in Routes, NEW w \in Nat
    PROVE  WindowOK(k, p, w)'
  <1> DEFINE G == Granted(k, p, w)'
             P == {q \in passed : In(q, k, p, w)}
             C == Counted(r)
  <1>1. now' = now /\ passed' = passed /\ Busy' \subseteq Busy
    <2>1. ~Insert(r)
      BY DEF Count, Insert
    <2>2. QED
      BY <2>1, SetsStep
  <1>2. Possible(k, p, w)' \subseteq Possible(k, p, w)
    <2>1. ASSUME NEW q \in Started' PROVE q \in Started /\ (In(q, k, p, w)' => In(q, k, p, w))
      <3>1. CASE q = r
        BY <2>1, <3>1 DEF Count, Enter, Answer, In, Started, TypeOK
      <3>2. CASE q # r
        BY <1>1, <3>2, SetsStep DEF In, Started
      <3>3. QED
        BY <3>1, <3>2
    <2>2. QED
      BY <2>1 DEF Possible
  <1>3. CASE ~(r \in G /\ now <= w)
    <2>1. ASSUME now <= w PROVE Granted(k, p, w)' \subseteq Granted(k, p, w)
      BY <1>3, <2>1, SetsStep DEF Granted, In
    <2>2. QED
      BY <1>1, <1>2, <2>1, WindowShrinks
  <1>4. CASE r \in G /\ now <= w
    <2>1. /\ phase' = [phase EXCEPT ![r] = "insert"] /\ UNCHANGED <<key, route, ts>>
          /\ Cardinality(C) < RouteMax[route[r]] /\ key[r] = k /\ route[r] = p /\ ts[r] <= w
      <3>1. phase'[r] # "refused" /\ In(r, k, p, w)'
        BY <1>4 DEF Granted
      <3>2. ~Answer(r, "refused")
        BY <3>1 DEF Answer, Enter, TypeOK
      <3>3. ~(Cardinality(C) >= RouteMax[route[r]]) /\ Enter(r, "insert") /\ UNCHANGED <<key, route, ts>>
        BY <3>2 DEF Count
      <3>4. key[r] = k /\ route[r] = p /\ ts[r] <= w
        BY <3>1, <3>3 DEF In
      <3>5. Cardinality(C) \in Nat /\ RouteMax[p] \in Nat
        BY FS_Subset, FS_CardinalityType DEF Counted, FewInFlight, Started, TypeOK
      <3>6. QED
        BY <3>3, <3>4, <3>5 DEF Enter
    <2>2. P \subseteq C
      BY <1>4, <2>1 DEF In, Counted, RecentIsLogged, TypeOK
    <2>3. G \subseteq P \cup Busy'
      BY <2>1 DEF Granted, In, TypeOK
    <2>4. IsFiniteSet(C) /\ IsFiniteSet(Busy')
      BY FS_Subset DEF Counted, FewInFlight, Started, TypeOK
    <2>5. IsFiniteSet(P) /\ Cardinality(P) <= Cardinality(C)
      BY <2>2, <2>4, FS_Subset
    <2>6. /\ IsFiniteSet(P \cup Busy')
          /\ Cardinality(P \cup Busy') = Cardinality(P) + Cardinality(Busy') - Cardinality(P \cap Busy')
      BY <2>4, <2>5, FS_Union
    <2>7. Cardinality(G) <= Cardinality(P \cup Busy')
      BY <2>3, <2>6, FS_Subset
    <2>8. /\ Cardinality(G) \in Nat /\ Cardinality(P \cup Busy') \in Nat /\ Cardinality(P) \in Nat
          /\ Cardinality(C) \in Nat /\ Cardinality(Busy') \in Nat
      BY <2>3, <2>4, <2>5, <2>6, FS_Subset, FS_CardinalityType
    <2>9. Cardinality(P \cap Busy') \in Nat
      BY <2>5, FS_Intersection, FS_CardinalityType
    <2>10. RouteMax[p] \in Nat /\ Cardinality(Busy') <= InFlight
      BY DEF FewInFlight
    <2> HIDE DEF G, P, C
    <2>11. Cardinality(G) <= RouteMax[p] + InFlight - 1
      BY <2>1, <2>5, <2>6, <2>7, <2>8, <2>9, <2>10
    <2>12. ~(now' > w)
      BY <1>1, <1>4 DEF TypeOK
    <2>13. QED
      BY <2>11, <2>12 DEF WindowOK, G
  <1>5. QED
    BY <1>3, <1>4

(* The clock leaves a window: those in flight may still be let through.    *)
LEMMA TickStep ==
    ASSUME TypeOK, FewInFlight, Windows, Tick, NEW k \in Keys, NEW p \in Routes, NEW w \in Nat
    PROVE  WindowOK(k, p, w)'
  <1> DEFINE G == Granted(k, p, w)
             P == Possible(k, p, w)
  <1>1. Granted(k, p, w)' = G /\ Possible(k, p, w)' = P /\ now' = now + 1
    BY DEF Tick, Granted, Possible, Started, In
  <1>2. WindowOK(k, p, w) /\ RouteMax[p] \in Nat /\ now \in Nat
    BY DEF Windows, TypeOK
  <1>3. CASE now' <= w \/ now > w
    BY <1>1, <1>2, <1>3 DEF WindowOK
  <1>4. CASE now' > w /\ now <= w
    <2>1. IsFiniteSet(G) /\ IsFiniteSet(Busy)
      BY WindowsFinite, FS_Subset DEF FewInFlight, Started
    <2>2. P \subseteq G \cup Busy
      BY DEF Granted, Possible, Started
    <2>3. /\ IsFiniteSet(G \cup Busy)
          /\ Cardinality(G \cup Busy) = Cardinality(G) + Cardinality(Busy) - Cardinality(G \cap Busy)
      BY <2>1, FS_Union
    <2>4. Cardinality(P) <= Cardinality(G \cup Busy)
      BY <2>2, <2>3, FS_Subset
    <2>5. /\ Cardinality(G) \in Nat /\ Cardinality(P) \in Nat /\ Cardinality(Busy) \in Nat
          /\ Cardinality(G \cap Busy) \in Nat /\ Cardinality(G \cup Busy) \in Nat
      BY <2>1, <2>3, WindowsFinite, FS_CardinalityType, FS_Intersection
    <2>6. Cardinality(G) <= RouteMax[p] + InFlight - 1 /\ Cardinality(Busy) <= InFlight
      BY <1>2, <1>4 DEF WindowOK, FewInFlight
    <2> HIDE DEF G, P
    <2>7. Cardinality(P) <= RouteMax[p] + 2 * InFlight - 1
      BY <1>2, <2>3, <2>4, <2>5, <2>6
    <2>8. QED
      BY <1>1, <1>2, <1>4, <2>7 DEF WindowOK
  <1>5. QED
    BY <1>1, <1>2, <1>3, <1>4

LEMMA WindowsStep ==
    ASSUME TypeOK, FewInFlight, FewInFlight', RecentIsLogged, Windows, [Next]_vars
    PROVE  Windows'
  <1> SUFFICES ASSUME NEW k \in Keys, NEW p \in Routes, NEW w \in Nat
               PROVE  WindowOK(k, p, w)'
    BY DEF Windows
  <1>1. ASSUME UNCHANGED <<phase, key, route, ts, now>>
        PROVE  WindowOK(k, p, w)'
    BY <1>1, WindowShrinks DEF Granted, Possible, Started, In
  <1>2. ASSUME NEW r \in Reqs, NEW c \in Keys, NEW q \in Routes, Arrive(r, c, q)
        PROVE  WindowOK(k, p, w)'
    <2>1. now' = now /\ ts'[r] = now /\ phase'[r] = "delete"
      BY <1>2 DEF Arrive, Enter, TypeOK
    <2>2. \A x \in Reqs \ {r} : phase'[x] = phase[x] /\ (In(x, k, p, w)' <=> In(x, k, p, w))
      BY <1>2 DEF Arrive, Enter, In, TypeOK
    <2>3. Granted(k, p, w)' \subseteq Granted(k, p, w)
      BY <2>1, <2>2 DEF Granted
    <2>4. now > w => ~In(r, k, p, w)'
      BY <2>1 DEF In, TypeOK
    <2>5. now > w => Possible(k, p, w)' \subseteq Possible(k, p, w)
      BY <2>2, <2>4 DEF Possible, Started
    <2>6. QED
      BY <2>1, <2>3, <2>5, WindowShrinks
  <1>3. ASSUME NEW r \in Reqs, Delete(r) \/ Insert(r)
        PROVE  WindowOK(k, p, w)'
    <2>1. UNCHANGED <<key, route, ts, now>>
      BY <1>3 DEF Delete, Insert
    <2>2. \A x \in Reqs : /\ phase'[x] \in {"insert", "passed"} => phase[x] \in {"insert", "passed"}
                          /\ x \in Started' => x \in Started
      BY <1>3 DEF Delete, Insert, Enter, Started, TypeOK
    <2>3. QED
      BY <2>1, <2>2, WindowShrinks DEF Granted, Possible, Started, In
  <1>4. ASSUME NEW r \in Reqs, Fail(r)
        PROVE  WindowOK(k, p, w)'
    <2>1. now' = now /\ phase' = [phase EXCEPT ![r] = "failed"]
      BY <1>4 DEF Fail, Answer, Enter
    <2>2. \A x \in Reqs \ {r} : In(x, k, p, w)' <=> In(x, k, p, w)
      BY <1>4, SetsStep DEF In
    <2>3. QED
      BY <2>1, <2>2, WindowShrinks DEF Granted, Possible, Started, TypeOK
  <1>5. QED
    BY <1>1, <1>2, <1>3, <1>4, CountStep, TickStep DEF Next, Purge, vars

----------------------------------------------------------------------------
(* The refinement. *)

(* Entries that their request identifies are no more than the requests. *)
LEMMA EntriesOfWindow ==
    ASSUME NEW P, IsFiniteSet(P), NEW D, \A d \in D : d.req \in P,
           \A c, d \in D : c.req = d.req => c = d
    PROVE  IsFiniteSet(D) /\ Cardinality(D) <= Cardinality(P)
  <1> DEFINE f == [d \in D |-> d.req]
  <1>1. f \in Injection(D, P)
    BY DEF Injection, IsInjective
  <1>2. QED
    BY <1>1, FS_Injection

LEMMA SameCardinality == \A S : Promised!Cardinality(S) = Cardinality(S)
  BY DEF Cardinality, Promised!Cardinality

LEMMA Refines ==
    ASSUME TypeOK, TypeOK', FewInFlight', Windows', [Next]_vars
    PROVE  [Promised!Next]_Log
  <1>1. CASE passed' = passed
    <2>1. \A q \in passed : key'[q] = key[q] /\ route'[q] = route[q] /\ ts'[q] = ts[q]
      <3>1. ASSUME NEW r \in Reqs, Delete(r) \/ Count(r) \/ Insert(r) \/ Fail(r)
            PROVE  r \notin passed
        BY <3>1, SetsStep
      <3>2. ASSUME NEW r \in Reqs, NEW k \in Keys, NEW p \in Routes, Arrive(r, k, p)
            PROVE  \A q \in passed : key'[q] = key[q] /\ route'[q] = route[q] /\ ts'[q] = ts[q]
        BY <3>2 DEF Arrive, TypeOK
      <3>3. QED
        BY <3>1, <3>2, SetsStep DEF Next, Tick, Purge, vars
    <2>2. QED
      BY <1>1, <2>1 DEF Log
  <1>2. ASSUME NEW r \in Reqs, Insert(r)
        PROVE  Promised!Next
    <2> DEFINE e == [req |-> r, key |-> key[r], route |-> route[r], ts |-> ts[r]]
    <2>1. /\ passed' = passed \cup {r} /\ r \notin passed /\ UNCHANGED <<key, route, ts, now>>
          /\ r \in passed'
      BY <1>2 DEF Insert, Enter, TypeOK
    <2>2. Log' = Log \cup {e}
      BY <2>1 DEF Log
    <2>3. \A d \in Log : d.req # e.req
      BY <2>1 DEF Log
    <2>4. key[r] \in Keys /\ route[r] \in Routes /\ ts[r] \in 0 .. MaxTime
      BY <1>2 DEF Insert, TypeOK
    <2>5. e \in Promised!Entry
      BY <2>4 DEF Promised!Entry
    <2>6. Promised!Fits(Log', e)
      <3> SUFFICES ASSUME NEW w \in e.ts .. e.ts + Window
                   PROVE  Cardinality({d \in Log' : /\ d.key = e.key /\ d.route = e.route
                                                    /\ w - Window <= d.ts /\ d.ts <= w})
                             <= [p \in Routes |-> RouteMax[p] + 2 * InFlight - 1][e.route]
        BY SameCardinality DEF Promised!Fits
      <3> DEFINE P == {q \in passed' : /\ key'[q] = key[r] /\ route'[q] = route[r]
                                       /\ w - Window <= ts'[q] /\ ts'[q] <= w}
                 D == {d \in Log' : /\ d.key = key[r] /\ d.route = route[r]
                                    /\ w - Window <= d.ts /\ d.ts <= w}
      <3>1. w \in Nat /\ RouteMax[route[r]] \in Nat
        BY <2>4
      <3>2. IsFiniteSet(passed')
        BY FS_Subset DEF FewInFlight, Started
      <3>3. IsFiniteSet(D) /\ Cardinality(D) <= Cardinality(P)
        <4>1. ASSUME NEW d \in D
              PROVE  /\ d.req \in P
                     /\ d = [req |-> d.req, key |-> key'[d.req], route |-> route'[d.req], ts |-> ts'[d.req]]
          <5>1. PICK q \in passed' :
                   d = [req |-> q, key |-> key'[q], route |-> route'[q], ts |-> ts'[q]]
            BY DEF Log
          <5>2. d.req = q
            BY <5>1
          <5>3. key'[q] = key[r] /\ route'[q] = route[r] /\ w - Window <= ts'[q] /\ ts'[q] <= w
            BY <5>1
          <5>4. QED
            BY <5>1, <5>2, <5>3
        <4>2. IsFiniteSet(P)
          BY <3>2, FS_Subset
        <4>3. \A c, d \in D : c.req = d.req => c = d
          BY <4>1
        <4>4. \A d \in D : d.req \in P
          BY <4>1
        <4> HIDE DEF D, P
        <4>5. QED
          BY <4>2, <4>3, <4>4, EntriesOfWindow
      <3>4. PICK k \in Keys, p \in Routes : k = key[r] /\ p = route[r]
        BY <2>4
      <3>5. WindowOK(k, p, w)'
        BY <3>1 DEF Windows
      <3>6. /\ P \subseteq Granted(k, p, w)' /\ P \subseteq Possible(k, p, w)'
            /\ IsFiniteSet(Granted(k, p, w)') /\ IsFiniteSet(Possible(k, p, w)')
        BY <3>4, FS_Subset DEF Granted, Possible, Started, In, FewInFlight
      <3>7. /\ Cardinality(P) <= Cardinality(Granted(k, p, w)')
            /\ Cardinality(P) <= Cardinality(Possible(k, p, w)')
            /\ Cardinality(P) \in Nat /\ Cardinality(Granted(k, p, w)') \in Nat
            /\ Cardinality(Possible(k, p, w)') \in Nat /\ Cardinality(D) \in Nat
        BY <3>3, <3>6, FS_Subset, FS_CardinalityType
      <3> HIDE DEF P, D
      <3>8. Cardinality(D) <= RouteMax[p] + 2 * InFlight - 1
        BY <3>1, <3>3, <3>4, <3>5, <3>7 DEF WindowOK, TypeOK
      <3>9. QED
        BY <2>4, <3>4, <3>8 DEF D
    <2>7. QED
      BY <2>2, <2>3, <2>5, <2>6 DEF Promised!Next, Promised!Admit
  <1>3. ASSUME passed' # passed
        PROVE  \E r \in Reqs : Insert(r)
    <2>1. ASSUME NEW r \in Reqs, NEW k \in Keys, NEW p \in Routes, Arrive(r, k, p)
          PROVE  FALSE
      BY <1>3, <2>1 DEF Arrive, Enter, TypeOK
    <2>2. ASSUME NEW r \in Reqs, Delete(r) \/ Count(r) \/ Insert(r) \/ Fail(r)
          PROVE  Insert(r)
      BY <1>3, <2>2, SetsStep
    <2>3. QED
      BY <1>3, <2>1, <2>2 DEF Next, Tick, Purge, vars
  <1>4. QED
    BY <1>1, <1>2, <1>3

(* For any limits, windows and requests in flight: the limiter's           *)
(* statements implement a sliding window, with the slack of those in       *)
(* flight.                                                                 *)
THEOREM WindowIsImplemented == Spec => KeepsWindow
  <1>1. Init => Windows
    <2> SUFFICES ASSUME Init, NEW k \in Keys, NEW p \in Routes, NEW w \in Nat
                 PROVE  WindowOK(k, p, w)
      BY DEF Windows
    <2>1. Granted(k, p, w) = {} /\ Possible(k, p, w) = {}
      BY DEF Init, Granted, Possible, Started
    <2>2. Cardinality(Granted(k, p, w)) = 0 /\ Cardinality(Possible(k, p, w)) = 0
      BY <2>1, FS_EmptySet
    <2>3. QED
      BY <2>2 DEF WindowOK
  <1>2. Init => Promised!Init
    BY DEF Init, Promised!Init, Log
  <1>3. QED
    BY <1>1, <1>2, TypeInit, TypeStep, FlightStep, LoggedStep, WindowsStep, Refines, PTL
    DEF Spec, KeepsWindow, Promised!Spec
==============================================================================
