------------------------------ MODULE Directory ------------------------------
(***************************************************************************)
(* The directory of universities (app/universities.py), its answers in a   *)
(* SQLite table that the uvicorn workers share (SharedSqliteCache), and    *)
(* the shortlist of the portal, which copies what the directory answers    *)
(* (shortlist_service.rs).  An answer is abstracted to the question it was *)
(* worked out for and the time its first SELECT ran: the data were true    *)
(* then, and anybody may have changed them since.                          *)
(***************************************************************************)
EXTENDS Integers, FiniteSets

CONSTANTS
    Details,  \* universities one can ask the details of
    Searches, \* everything else: listings, course searches, typed prefixes
    Keys,     \* cache keys
    Key,      \* the key of each question, which two questions may share: a
              \* prefix is stripped and lowered, and filters are only joined
    Students,
    Reqs,     \* handlers that can be running at once
    MaxSize,  \* maxsize of the cache
    TTL,      \* its default_ttl
    Delay,    \* longest time between an answer's first SELECT and the cache
              \* write, and between the answer and its use
    MaxTime,  \* bound on the clock
    None

Questions == Details \cup Searches
Time == 0 .. MaxTime
Answer == [to : Questions, at : Time]
Entry == [value : Answer, expiry : Nat]
Item == [name : Time, facts : Time]

ASSUME DirectoryConstants ==
    /\ {MaxSize, TTL, Delay, MaxTime} \subseteq Nat
    /\ Key \in [Questions -> Keys]
    /\ None \notin Questions \cup Answer \cup Entry \cup Item \cup Students

VARIABLES
    cache,   \* rows of table cache
    rows,    \* student_shortlists: the item of a student and a university
    pc,      \* where each handler is
    asked,   \* its question
    student, \* who adds the answer to a shortlist, if the portal asks
    answer,  \* what the handler has worked out or been given
    since,   \* since when it has it
    now      \* the clock

vars == <<cache, rows, pc, asked, student, answer, since, now>>
locals == <<pc, asked, student, answer, since>>

Cached == {k \in Keys : cache[k] # None}

TypeOK ==
    /\ cache \in [Keys -> Entry \cup {None}]
    /\ rows \in [Students -> [Details -> Item \cup {None}]]
    /\ pc \in [Reqs -> {"idle", "expired", "miss", "fetched", "answered"}]
    /\ asked \in [Reqs -> Questions \cup {None}]
    /\ student \in [Reqs -> Students \cup {None}]
    /\ answer \in [Reqs -> Answer \cup {None}]
    /\ \A r \in Reqs :
          /\ (pc[r] = "idle") = (asked[r] = None)
          /\ (pc[r] \in {"fetched", "answered"}) = (answer[r] # None)
          /\ student[r] # None => asked[r] \in Details
    /\ since \in [Reqs -> 0 .. now]
    /\ now \in Time

Init ==
    /\ cache = [k \in Keys |-> None]
    /\ rows = [s \in Students |-> [d \in Details |-> None]]
    /\ pc = [r \in Reqs |-> "idle"]
    /\ asked = [r \in Reqs |-> None]
    /\ student = [r \in Reqs |-> None]
    /\ answer = [r \in Reqs |-> None]
    /\ since = [r \in Reqs |-> 0]
    /\ now = 0

Return(r) ==
    /\ pc' = [pc EXCEPT ![r] = "idle"]
    /\ asked' = [asked EXCEPT ![r] = None]
    /\ student' = [student EXCEPT ![r] = None]
    /\ answer' = [answer EXCEPT ![r] = None]
    /\ since' = [since EXCEPT ![r] = 0]

----------------------------------------------------------------------------
(* A question reaches the endpoint: from a browser (s = None), or from     *)
(* add_to_shortlist, which asks the details of a university.               *)

Begin(r, q, s, p) ==
    /\ pc[r] = "idle"
    /\ s # None => q \in Details
    /\ pc' = [pc EXCEPT ![r] = p]
    /\ asked' = [asked EXCEPT ![r] = q]
    /\ student' = [student EXCEPT ![r] = s]

(* Mutant of Expired: the age is not looked at. *)
NeverExpired(k) == FALSE

Expired(k) == now > cache[k].expiry

Hit(r, q, s) ==
    /\ cache[Key[q]] # None
    /\ ~Expired(Key[q])
    /\ Begin(r, q, s, "answered")
    /\ answer' = [answer EXCEPT ![r] = cache[Key[q]].value]
    /\ since' = [since EXCEPT ![r] = now]
    /\ UNCHANGED <<cache, rows, now>>

Expire(r, q, s) ==
    /\ cache[Key[q]] # None
    /\ Expired(Key[q])
    /\ Begin(r, q, s, "expired")
    /\ UNCHANGED <<cache, rows, answer, since, now>>

(* No entry, or the cache cannot be read. *)
Miss(r, q, s) ==
    /\ Begin(r, q, s, "miss")
    /\ UNCHANGED <<cache, rows, answer, since, now>>

(* DELETE by key: a fresh entry another worker has put there since goes    *)
(* too.  The DELETE may fail, and the entry stay.                          *)
Forget(r) ==
    /\ pc[r] = "expired"
    /\ pc' = [pc EXCEPT ![r] = "miss"]
    /\ \/ cache' = [cache EXCEPT ![Key[asked[r]]] = None]
       \/ UNCHANGED cache
    /\ UNCHANGED <<rows, asked, student, answer, since, now>>

(* The first SELECT on the directory's database. *)
Fetch(r) ==
    /\ pc[r] = "miss"
    /\ pc' = [pc EXCEPT ![r] = "fetched"]
    /\ answer' = [answer EXCEPT ![r] = [to |-> asked[r], at |-> now]]
    /\ since' = [since EXCEPT ![r] = now]
    /\ UNCHANGED <<cache, rows, asked, student, now>>

FetchList(r) == asked[r] \in Searches /\ Fetch(r)
FetchDetails(r) == asked[r] \in Details /\ Fetch(r)

(* 404, which is not cached. *)
NotFound(r) ==
    /\ pc[r] = "miss"
    /\ asked[r] \in Details
    /\ Return(r)
    /\ UNCHANGED <<cache, rows, now>>

----------------------------------------------------------------------------
(* SharedSqliteCache.set: one transaction. *)

With(r) == [cache EXCEPT ![Key[asked[r]]] = [value |-> answer[r], expiry |-> now + TTL]]
Held(c) == {k \in Keys : c[k] # None}

(* Mutant of Oldest: one entry too few is deleted. *)
OldestButOne(c, S) == S = {}

(* ORDER BY expiry ASC LIMIT count - maxsize. *)
Oldest(c, S) ==
    /\ IF Cardinality(Held(c)) > MaxSize
          THEN Cardinality(S) = Cardinality(Held(c)) - MaxSize
          ELSE S = {}
    /\ \A k \in S, l \in Held(c) \ S : c[k].expiry <= c[l].expiry

Answered(r) ==
    /\ pc' = [pc EXCEPT ![r] = "answered"]
    /\ since' = [since EXCEPT ![r] = now]
    /\ UNCHANGED <<rows, asked, student, answer, now>>

Store(r) ==
    /\ pc[r] = "fetched"
    /\ \E S \in SUBSET Held(With(r)) :
          /\ Oldest(With(r), S)
          /\ cache' = [k \in Keys |-> IF k \in S THEN None ELSE With(r)[k]]
    /\ Answered(r)

(* The write fails; it is logged and the answer given all the same. *)
StoreFails(r) ==
    /\ pc[r] = "fetched"
    /\ UNCHANGED cache
    /\ Answered(r)

(* The browser has its answer. *)
Respond(r) ==
    /\ pc[r] = "answered"
    /\ student[r] = None
    /\ Return(r)
    /\ UNCHANGED <<cache, rows, now>>

----------------------------------------------------------------------------
(* The shortlist. *)

(* What is copied from an answer; the name and the country stay as they    *)
(* were first copied.                                                      *)
Copied(item, a) == [name |-> IF item = None THEN a.at ELSE item.name, facts |-> a.at]

(* INSERT ... ON CONFLICT DO UPDATE. *)
Upsert(r) ==
    /\ pc[r] = "answered"
    /\ student[r] # None
    /\ rows' = [rows EXCEPT ![student[r]][asked[r]] = Copied(@, answer[r])]
    /\ Return(r)
    /\ UNCHANGED <<cache, now>>

RemoveFromShortlist(s, d) ==
    /\ rows[s][d] # None
    /\ rows' = [rows EXCEPT ![s][d] = None]
    /\ UNCHANGED <<cache, locals, now>>

----------------------------------------------------------------------------
(* A SELECT fails or times out, a client hangs up, or a process dies. *)
Abort(r) ==
    /\ pc[r] # "idle"
    /\ Return(r)
    /\ UNCHANGED <<cache, rows, now>>

(* The container is made anew: /tmp/api_cache.db is gone. *)
Recreate ==
    /\ Cached # {}
    /\ cache' = [k \in Keys |-> None]
    /\ pc' = [r \in Reqs |-> "idle"]
    /\ asked' = [r \in Reqs |-> None]
    /\ student' = [r \in Reqs |-> None]
    /\ answer' = [r \in Reqs |-> None]
    /\ since' = [r \in Reqs |-> 0]
    /\ UNCHANGED <<rows, now>>

(* A handler has an answer for no longer than Delay before it uses it:     *)
(* SELECTs and cache writes have time limits (command_timeout, timeout);   *)
(* for the portal's own INSERT it is assumed.                              *)
Tick ==
    /\ now < MaxTime
    /\ \A r \in Reqs : answer[r] # None => now - since[r] < Delay
    /\ now' = now + 1
    /\ UNCHANGED <<cache, rows, locals>>

Next ==
    \/ \E r \in Reqs :
          \/ \E q \in Questions, s \in Students \cup {None} :
                Hit(r, q, s) \/ Expire(r, q, s) \/ Miss(r, q, s)
          \/ Forget(r) \/ FetchList(r) \/ FetchDetails(r) \/ NotFound(r)
          \/ Store(r) \/ StoreFails(r) \/ Respond(r)
          \/ Upsert(r) \/ Abort(r)
    \/ \E s \in Students, d \in Details : RemoveFromShortlist(s, d)
    \/ Recreate
    \/ Tick

Spec == Init /\ [][Next]_vars

----------------------------------------------------------------------------
(* Properties. *)

(* Whatever is answered, or copied to a shortlist, was true no longer ago  *)
(* than the cache keeps an answer and the two delays, and belongs to the   *)
(* key that was asked for (SharedSqliteCache, 24 hours): eviction, the     *)
(* deletion of expired entries and writes of other workers never bring an  *)
(* older answer back.                                                      *)
ShelfLife ==
    \A r \in Reqs : pc[r] = "answered" =>
       /\ now - answer[r].at <= TTL + 2 * Delay
       /\ Key[answer[r].to] = Key[asked[r]]

(* However the workers' writes interleave, no worker ever sees a cache     *)
(* that holds more than its maximum.                                       *)
CacheBounded == Cardinality(Cached) <= MaxSize
=============================================================================
