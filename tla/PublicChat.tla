----------------------------- MODULE PublicChat -----------------------------
(***************************************************************************)
(* The public preview chatbot, app/main.py.  Each uvicorn worker is one    *)
(* event loop with its own sessions and its own rate-limit lists; a        *)
(* handler gives way to others only where it awaits the language models.   *)
(* A session is a dict object: a handler goes on with the object it looked *)
(* up although the table may have dropped it.                              *)
(***************************************************************************)
EXTENDS Integers, FiniteSets

CONSTANTS
    Workers,     \* processes of uvicorn --workers 3
    Sids,        \* session ids that visitors send
    Objs,        \* session dicts
    Handlers,    \* handlers that can be waiting for a model at once
    QuestionMax, \* FREE_QUESTION_LIMIT
    RateMax,     \* RATE_LIMIT_MAX, for the one address that is modelled
    RateWindow,  \* RATE_LIMIT_WINDOW
    SessionAge,  \* ONE_HOUR
    ClockMax,    \* bound on the clock
    Nothing      \* no dict, no worker

ASSUME PublicChatConstants ==
    /\ {QuestionMax, RateWindow} \subseteq Nat \ {0}
    /\ {RateMax, SessionAge, ClockMax} \subseteq Nat
    /\ IsFiniteSet(Handlers) /\ Handlers # {}
    /\ Nothing \notin Objs \cup Workers

Moments == 0 .. ClockMax

(* A request that was let through, by its time and its number among those  *)
(* of that time.                                                           *)
Request == Moments \X (1 .. RateMax)

(* history[-6:] *)
HistoryMax == 6
Cut(n) == IF n > HistoryMax THEN HistoryMax ELSE n

VARIABLES
    sessions,  \* worker -> session id -> dict
    count,     \* messageCount of each dict
    history,   \* length of its history
    createdAt, \* its creation
    hits,      \* worker -> the list ip_requests of the address
    phase,     \* where each handler is
    worker,    \* its process
    obj,       \* its dict
    clock,     \* time.time()
    served,    \* history: worker -> the requests it has let through
    shared     \* history: dicts that two handlers awaited at once

chatVars ==
    <<sessions, count, history, createdAt, hits, phase, worker, obj, clock, served, shared>>
dicts == <<count, history, createdAt>>
rates == <<hits, served>>
waits == <<phase, worker, obj>>

ChatTypeOK ==
    /\ sessions \in [Workers -> [Sids -> Objs \cup {Nothing}]]
    /\ count \in [Objs -> Nat]
    /\ createdAt \in [Objs -> 0 .. clock]
    /\ history \in [Objs -> 0 .. HistoryMax]
    /\ \A o \in Objs : history[o] = Cut(2 * count[o])
    /\ hits \in [Workers -> SUBSET Request]
    /\ served \in [Workers -> SUBSET Request]
    /\ phase \in [Handlers -> {"idle", "gemini", "openrouter"}]
    /\ worker \in [Handlers -> Workers \cup {Nothing}]
    /\ obj \in [Handlers -> Objs \cup {Nothing}]
    /\ \A r \in Handlers :
          (phase[r] = "idle") = (obj[r] = Nothing) /\ (phase[r] = "idle") = (worker[r] = Nothing)
    /\ clock \in Moments
    /\ shared \subseteq Objs

ChatInit ==
    /\ sessions = [w \in Workers |-> [s \in Sids |-> Nothing]]
    /\ count = [o \in Objs |-> 0]
    /\ history = [o \in Objs |-> 0]
    /\ createdAt = [o \in Objs |-> 0]
    /\ hits = [w \in Workers |-> {}]
    /\ served = [w \in Workers |-> {}]
    /\ phase = [r \in Handlers |-> "idle"]
    /\ worker = [r \in Handlers |-> Nothing]
    /\ obj = [r \in Handlers |-> Nothing]
    /\ clock = 0
    /\ shared = {}

Waiting == {r \in Handlers : phase[r] # "idle"}
Stored == {sessions[w][s] : w \in Workers, s \in Sids} \ {Nothing}
Garbage == Objs \ (Stored \cup {obj[r] : r \in Waiting})

----------------------------------------------------------------------------
(* check_rate_limit, for one address. *)

(* Mutant of InWindow: the window is compared the wrong way at its end. *)
InShorterWindow(t) == t <= clock /\ clock - t < RateWindow - 1

InWindow(t) == t <= clock /\ clock - t < RateWindow
Kept(w) == {h \in hits[w] : InWindow(h[1])}
Arrival(w) == <<clock, Cardinality({h \in Kept(w) : h[1] = clock}) + 1>>

(* The old times are dropped even when the request is refused. *)
RefuseRate(w) ==
    /\ Cardinality(Kept(w)) >= RateMax
    /\ hits' = [hits EXCEPT ![w] = Kept(w)]
    /\ UNCHANGED <<sessions, dicts, waits, clock, served, shared>>

PassRate(w) ==
    /\ Cardinality(Kept(w)) < RateMax
    /\ hits' = [hits EXCEPT ![w] = Kept(w) \cup {Arrival(w)}]
    /\ served' = [served EXCEPT ![w] = @ \cup {Arrival(w)}]

----------------------------------------------------------------------------
(* chat_endpoint. *)

(* 400: no session id or no message. *)
BadRequest(w) ==
    /\ PassRate(w)
    /\ UNCHANGED <<sessions, dicts, waits, clock, shared>>

(* The session in the table, or a new dict. *)
UseSession(w, s, o) ==
    \/ /\ sessions[w][s] = o
       /\ UNCHANGED <<sessions, dicts>>
       /\ shared' = IF \E r \in Waiting : obj[r] = o THEN shared \cup {o} ELSE shared
    \/ /\ sessions[w][s] = Nothing
       /\ o \in Garbage
       /\ sessions' = [sessions EXCEPT ![w][s] = o]
       /\ count' = [count EXCEPT ![o] = 0]
       /\ history' = [history EXCEPT ![o] = 0]
       /\ createdAt' = [createdAt EXCEPT ![o] = clock]
       /\ shared' = shared \ {o}

(* The free questions are used up: the visitor is asked to sign up. *)
Prompt(w, s) ==
    /\ PassRate(w)
    /\ sessions[w][s] # Nothing
    /\ count[sessions[w][s]] >= QuestionMax
    /\ UNCHANGED <<sessions, dicts, waits, clock, shared>>

(* Mutant of Ask: the limit is met one question late. *)
AskOneMore(r, w, s, o) ==
    /\ phase[r] = "idle"
    /\ PassRate(w)
    /\ UseSession(w, s, o)
    /\ count'[o] <= QuestionMax
    /\ phase' = [phase EXCEPT ![r] = "gemini"]
    /\ worker' = [worker EXCEPT ![r] = w]
    /\ obj' = [obj EXCEPT ![r] = o]
    /\ UNCHANGED clock

Ask(r, w, s, o) ==
    /\ phase[r] = "idle"
    /\ PassRate(w)
    /\ UseSession(w, s, o)
    /\ count'[o] < QuestionMax
    /\ phase' = [phase EXCEPT ![r] = "gemini"]
    /\ worker' = [worker EXCEPT ![r] = w]
    /\ obj' = [obj EXCEPT ![r] = o]
    /\ UNCHANGED clock

Finish(r) ==
    /\ phase' = [phase EXCEPT ![r] = "idle"]
    /\ worker' = [worker EXCEPT ![r] = Nothing]
    /\ obj' = [obj EXCEPT ![r] = Nothing]

(* get_chat_reply: Gemini fails, OpenRouter is asked. *)
FailOver(r) ==
    /\ phase[r] = "gemini"
    /\ phase' = [phase EXCEPT ![r] = "openrouter"]
    /\ UNCHANGED <<sessions, dicts, rates, worker, obj, clock, shared>>

(* OpenRouter fails too: 500, and the question is not counted. *)
FailBoth(r) ==
    /\ phase[r] = "openrouter"
    /\ Finish(r)
    /\ UNCHANGED <<sessions, dicts, rates, clock, shared>>

(* An answer: the pair is appended, the history cut, the question counted. *)
Reply(r) ==
    /\ phase[r] # "idle"
    /\ count' = [count EXCEPT ![obj[r]] = @ + 1]
    /\ history' = [history EXCEPT ![obj[r]] = Cut(@ + 2)]
    /\ Finish(r)
    /\ UNCHANGED <<sessions, createdAt, rates, clock, shared>>

----------------------------------------------------------------------------
(* The rest of the process. *)

Stale(o) == clock - createdAt[o] > SessionAge

(* Mutants of Cleanup: >= for >; only the addresses are cleaned. *)
CleanupEarly(w) ==
    /\ sessions' = [sessions EXCEPT ![w] = [s \in Sids |->
          IF @[s] # Nothing /\ clock - createdAt[@[s]] >= SessionAge THEN Nothing ELSE @[s]]]
    /\ hits' = [hits EXCEPT ![w] = Kept(w)]
    /\ <<sessions', hits'>> # <<sessions, hits>>
    /\ UNCHANGED <<dicts, waits, clock, served, shared>>
CleanupRatesOnly(w) ==
    /\ hits' = [hits EXCEPT ![w] = Kept(w)]
    /\ hits' # hits
    /\ UNCHANGED <<sessions, dicts, waits, clock, served, shared>>

(* cleanup_sessions_loop, every ten minutes.  It awaits nothing meanwhile. *)
Cleanup(w) ==
    /\ sessions' = [sessions EXCEPT ![w] = [s \in Sids |->
          IF @[s] # Nothing /\ Stale(@[s]) THEN Nothing ELSE @[s]]]
    /\ hits' = [hits EXCEPT ![w] = Kept(w)]
    /\ <<sessions', hits'>> # <<sessions, hits>>
    /\ UNCHANGED <<dicts, waits, clock, served, shared>>

(* A worker dies and is replaced; its tables were memory. *)
Restart(w) ==
    /\ sessions' = [sessions EXCEPT ![w] = [s \in Sids |-> Nothing]]
    /\ hits' = [hits EXCEPT ![w] = {}]
    /\ served' = [served EXCEPT ![w] = {}]
    /\ phase' = [r \in Handlers |-> IF worker[r] = w THEN "idle" ELSE phase[r]]
    /\ obj' = [r \in Handlers |-> IF worker[r] = w THEN Nothing ELSE obj[r]]
    /\ worker' = [r \in Handlers |-> IF worker[r] = w THEN Nothing ELSE worker[r]]
    /\ UNCHANGED <<dicts, clock, shared>>

ClockTicks ==
    /\ clock < ClockMax
    /\ clock' = clock + 1
    /\ UNCHANGED <<sessions, dicts, rates, waits, shared>>

ChatNext ==
    \/ \E w \in Workers :
          \/ RefuseRate(w) \/ BadRequest(w) \/ Cleanup(w) \/ Restart(w)
          \/ \E s \in Sids : Prompt(w, s) \/ \E r \in Handlers, o \in Objs : Ask(r, w, s, o)
    \/ \E r \in Handlers : FailOver(r) \/ FailBoth(r) \/ Reply(r)
    \/ ClockTicks

(* The cleanup task is the loop's own; nothing in it raises. *)
ChatSpec == ChatInit /\ [][ChatNext]_chatVars /\ \A w \in Workers : WF_chatVars(Cleanup(w))

----------------------------------------------------------------------------
(* Properties. *)

(* A session's answered questions exceed the free limit only when handlers *)
(* waited for a model at once on it, and then by no more than those that   *)
(* can wait beside the first.                                              *)
QuestionsBounded ==
    \A o \in Objs :
       /\ count[o] > QuestionMax => o \in shared
       /\ count[o] + Cardinality({r \in Waiting : obj[r] = o}) <= QuestionMax + Cardinality(Handlers) - 1

(* Since a worker started, no window holds more requests of an address     *)
(* than the limit: neither pruning nor the cleanup forgets one too early.  *)
RateKept ==
    \A w \in Workers, b \in Moments :
       Cardinality({h \in served[w] : h[1] <= b /\ b - h[1] < RateWindow}) <= RateMax

(* A handler counts its question in the session a visitor still has: only  *)
(* the cleanup of an old session can part the two.                         *)
CountedInSession ==
    \A r \in Waiting : Stale(obj[r]) \/ \E s \in Sids : sessions[worker[r]][s] = obj[r]

(* README.md:11, "automatically clearing sessions older than 1 hour": an   *)
(* expired session is cleared although visitors keep using it.             *)
SessionsExpire ==
    \A w \in Workers, s \in Sids :
       (sessions[w][s] # Nothing /\ Stale(sessions[w][s]))
          ~> (sessions[w][s] = Nothing \/ ~Stale(sessions[w][s]))
=============================================================================
