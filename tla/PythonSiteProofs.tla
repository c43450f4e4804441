-------------------------- MODULE PythonSiteProofs --------------------------
(***************************************************************************)
(* The two parts of the Python program, src/app: the public chatbot, for   *)
(* any workers, sessions, handlers and limits, and the directory's cache.  *)
(*                                                                         *)
(* The chatbot tests a limit, awaits a model and counts afterwards; so the *)
(* invariants relate what is counted to what may still be counted, and the *)
(* list of recent times to all that has ever been let through.             *)
(*                                                                         *)
(* Nothing that the directory answers is older than the cache and the      *)
(* delays allow.  The invariant dates what ShelfLife does not mention: an  *)
(* entry of the cache by its expiry, and an answer on its way by the time  *)
(* its handler has had it.                                                 *)
(***************************************************************************)
EXTENDS Directory, PublicChat, FiniteSetTheorems, TLAPS

----------------------------------------------------------------------------
(* The chatbot: types. *)

USE PublicChatConstants DEF Moments

(* There are only so many requests, so that counting them makes sense. *)
LEMMA RequestsFinite == \A S \in SUBSET Request : IsFiniteSet(S) /\ Cardinality(S) \in Nat
  <1>1. IsFiniteSet(0 .. ClockMax) /\ IsFiniteSet(1 .. RateMax)
    BY FS_Interval
  <1>2. IsFiniteSet(Request)
    BY <1>1, FS_Product DEF Request
  <1>3. QED
    BY <1>2, FS_Subset, FS_CardinalityType

(* check_rate_limit lets a request through only below the limit, so its    *)
(* number is one of 1 .. RateMax.                                          *)
LEMMA ArrivalType ==
    ASSUME ChatTypeOK, NEW w \in Workers, Cardinality(Kept(w)) < RateMax
    PROVE  /\ Arrival(w) \in Request
           /\ Arrival(w)[1] = clock
           /\ Kept(w) \in SUBSET Request
  <1> DEFINE N == {h \in Kept(w) : h[1] = clock}
  <1>1. Kept(w) \in SUBSET Request
    BY DEF ChatTypeOK, Kept
  <1>2. IsFiniteSet(Kept(w)) /\ Cardinality(Kept(w)) \in Nat /\ Cardinality(N) \in Nat
    BY <1>1, RequestsFinite
  <1>3. Cardinality(N) <= Cardinality(Kept(w))
    BY <1>2, FS_Subset
  <1>4. Cardinality(N) + 1 \in 1 .. RateMax
    BY <1>2, <1>3
  <1>5. clock \in 0 .. ClockMax
    BY DEF ChatTypeOK
  <1>6. QED
    BY <1>1, <1>4, <1>5 DEF Arrival, Request

LEMMA PassType ==
    ASSUME ChatTypeOK, NEW w \in Workers, PassRate(w)
    PROVE  hits' \in [Workers -> SUBSET Request] /\ served' \in [Workers -> SUBSET Request]
  <1>1. Arrival(w) \in Request /\ Kept(w) \in SUBSET Request
    BY ArrivalType DEF PassRate
  <1>2. hits' = [hits EXCEPT ![w] = Kept(w) \cup {Arrival(w)}]
          /\ served' = [served EXCEPT ![w] = served[w] \cup {Arrival(w)}]
    BY DEF PassRate, ChatTypeOK
  <1>3. QED
    BY <1>1, <1>2 DEF ChatTypeOK

LEMMA ChatTypeStep == ChatTypeOK /\ [ChatNext]_chatVars => ChatTypeOK'
  <1> SUFFICES ASSUME ChatTypeOK, [ChatNext]_chatVars
               PROVE  ChatTypeOK'
    OBVIOUS
  <1>1. ASSUME NEW w \in Workers, PassRate(w),
               UNCHANGED <<sessions, dicts, waits, clock, shared>>
        PROVE  ChatTypeOK'
    BY <1>1, PassType DEF ChatTypeOK, dicts, waits
  <1>2. ASSUME NEW w \in Workers, hits' = [hits EXCEPT ![w] = Kept(w)],
               sessions' \in [Workers -> [Sids -> Objs \cup {Nothing}]],
               UNCHANGED <<dicts, waits, clock, served, shared>>
        PROVE  ChatTypeOK'
    <2>1. hits' \in [Workers -> SUBSET Request]
      BY <1>2 DEF ChatTypeOK, Kept
    <2>2. QED
      BY <1>2, <2>1 DEF ChatTypeOK, dicts, waits
  <1>3. ASSUME NEW r \in Handlers, NEW w \in Workers, NEW s \in Sids, NEW o \in Objs, Ask(r, w, s, o)
        PROVE  ChatTypeOK'
    <2>1. hits' \in [Workers -> SUBSET Request] /\ served' \in [Workers -> SUBSET Request]
      BY <1>3, PassType DEF Ask
    <2>2. /\ phase' = [phase EXCEPT ![r] = "gemini"]
          /\ worker' = [worker EXCEPT ![r] = w]
          /\ obj' = [obj EXCEPT ![r] = o]
          /\ clock' = clock
      BY <1>3 DEF Ask
    <2>3. /\ phase' \in [Handlers -> {"idle", "gemini", "openrouter"}]
          /\ worker' \in [Handlers -> Workers \cup {Nothing}]
          /\ obj' \in [Handlers -> Objs \cup {Nothing}]
          /\ \A q \in Handlers :
                (phase'[q] = "idle") = (obj'[q] = Nothing) /\ (phase'[q] = "idle") = (worker'[q] = Nothing)
      BY <2>2 DEF ChatTypeOK
    <2>4. /\ sessions' \in [Workers -> [Sids -> Objs \cup {Nothing}]]
          /\ count' \in [Objs -> Nat]
          /\ createdAt' \in [Objs -> 0 .. clock]
          /\ history' \in [Objs -> 0 .. HistoryMax]
          /\ \A p \in Objs : history'[p] = Cut(2 * count'[p])
          /\ shared' \subseteq Objs
      <3>1. UseSession(w, s, o)
        BY <1>3 DEF Ask
      <3>2. CASE UNCHANGED <<sessions, dicts>> /\ shared' \in {shared, shared \cup {o}}
        BY <2>2, <3>2 DEF ChatTypeOK, dicts
      <3>3. CASE /\ sessions' = [sessions EXCEPT ![w][s] = o]
                 /\ count' = [count EXCEPT ![o] = 0]
                 /\ history' = [history EXCEPT ![o] = 0]
                 /\ createdAt' = [createdAt EXCEPT ![o] = clock]
                 /\ shared' = shared \ {o}
        <4>1. sessions' \in [Workers -> [Sids -> Objs \cup {Nothing}]]
          BY <3>3 DEF ChatTypeOK
        <4>2. count' \in [Objs -> Nat] /\ createdAt' \in [Objs -> 0 .. clock] /\ shared' \subseteq Objs
          BY <3>3 DEF ChatTypeOK
        <4>3. history' \in [Objs -> 0 .. HistoryMax] /\ \A p \in Objs : history'[p] = Cut(2 * count'[p])
          BY <3>3 DEF ChatTypeOK, Cut, HistoryMax
        <4>4. QED
          BY <4>1, <4>2, <4>3
      <3>4. QED
        BY <3>1, <3>2, <3>3 DEF UseSession
    <2>5. QED
      BY <2>1, <2>2, <2>3, <2>4 DEF ChatTypeOK
  <1>4. ASSUME NEW r \in Handlers, FailOver(r) \/ FailBoth(r)
        PROVE  ChatTypeOK'
    <2>1. CASE FailOver(r)
      BY <2>1 DEF FailOver, ChatTypeOK, dicts, rates
    <2>2. CASE FailBoth(r)
      BY <2>2 DEF FailBoth, Finish, ChatTypeOK, dicts, rates
    <2>3. QED
      BY <1>4, <2>1, <2>2
  <1>5. ASSUME NEW r \in Handlers, Reply(r)
        PROVE  ChatTypeOK'
    <2>1. obj[r] \in Objs
      BY <1>5 DEF Reply, ChatTypeOK
    <2>2. /\ count' = [count EXCEPT ![obj[r]] = count[obj[r]] + 1]
          /\ history' = [history EXCEPT ![obj[r]] = Cut(history[obj[r]] + 2)]
      BY <1>5 DEF Reply
    <2>3. /\ count' \in [Objs -> Nat]
          /\ history' \in [Objs -> 0 .. HistoryMax]
          /\ \A o \in Objs : history'[o] = Cut(2 * count'[o])
      BY <2>1, <2>2 DEF ChatTypeOK, Cut, HistoryMax
    <2>4. QED
      BY <1>5, <2>3 DEF Reply, Finish, ChatTypeOK, rates
  <1>6. ASSUME NEW w \in Workers, Restart(w)
        PROVE  ChatTypeOK'
    BY <1>6 DEF Restart, ChatTypeOK, dicts
  <1>7. CASE ClockTicks
    BY <1>7 DEF ClockTicks, ChatTypeOK, dicts, rates, waits
  <1>8. CASE UNCHANGED chatVars
    BY <1>8 DEF chatVars, ChatTypeOK
  <1>9. ASSUME NEW w \in Workers, RefuseRate(w)
        PROVE  ChatTypeOK'
    BY <1>9, <1>2 DEF RefuseRate, ChatTypeOK
  <1>10. ASSUME NEW w \in Workers, Cleanup(w)
         PROVE  ChatTypeOK'
    <2>1. sessions' \in [Workers -> [Sids -> Objs \cup {Nothing}]]
      BY <1>10 DEF Cleanup, ChatTypeOK
    <2>2. QED
      BY <1>2, <1>10, <2>1 DEF Cleanup
  <1>11. QED
    BY <1>1, <1>3, <1>4, <1>5, <1>6, <1>7, <1>8, <1>9, <1>10
    DEF ChatNext, BadRequest, Prompt

(* For any workers, sessions and limits: every variable keeps its type,    *)
(* and the history of a dict holds two entries per answered question, up   *)
(* to six.                                                                 *)
THEOREM ChatTypeCorrect == ChatSpec => []ChatTypeOK
  <1>1. ChatInit => ChatTypeOK
    BY DEF ChatInit, ChatTypeOK, Cut, HistoryMax
  <1>2. QED
    BY <1>1, ChatTypeStep, PTL DEF ChatSpec

----------------------------------------------------------------------------
(* Questions. *)

(* The handlers that wait for a model on a dict. *)
Asking(o) == {r \in Waiting : obj[r] = o}

LEMMA AskingFinite ==
    ASSUME NEW S \in SUBSET Handlers
    PROVE  /\ IsFiniteSet(S) /\ Cardinality(S) \in Nat /\ Cardinality(Handlers) \in Nat
           /\ Cardinality(S) <= Cardinality(Handlers)
           /\ Cardinality(Handlers) >= 1
           /\ S = {} => Cardinality(S) = 0
           /\ \A r \in S : Cardinality(S \ {r}) = Cardinality(S) - 1
           /\ \A r \in Handlers \ S : Cardinality(S \cup {r}) = Cardinality(S) + 1
  <1>1. IsFiniteSet(S) /\ Cardinality(S) <= Cardinality(Handlers)
    BY FS_Subset
  <1>2. Cardinality(S) \in Nat /\ Cardinality(Handlers) \in Nat
    BY <1>1, FS_CardinalityType
  <1>3. Cardinality(Handlers) # 0 /\ (S = {} => Cardinality(S) = 0)
    BY <1>1, FS_EmptySet
  <1>4. \A r \in S : Cardinality(S \ {r}) = Cardinality(S) - 1
    BY <1>1, FS_RemoveElement
  <1>5. \A r \in Handlers \ S : Cardinality(S \cup {r}) = Cardinality(S) + 1
    BY <1>1, FS_AddElement
  <1>6. QED
    BY <1>1, <1>2, <1>3, <1>4, <1>5

(* A handler that waits may still count a question; the sum of those       *)
(* counted and those that may be is what the test before the await bounds. *)
DictOK(o) ==
    /\ count[o] + Cardinality(Asking(o)) <= QuestionMax + Cardinality(Handlers) - 1
    /\ o \notin shared => count[o] + Cardinality(Asking(o)) <= QuestionMax

(* Nobody begins to wait, and nothing is counted. *)
LEMMA DictKept ==
    ASSUME ChatTypeOK, NEW o \in Objs, DictOK(o), count'[o] = count[o], shared' = shared,
           Asking(o)' \subseteq Asking(o)
    PROVE  DictOK(o)'
  <1>1. Asking(o) \in SUBSET Handlers
    BY DEF Asking, Waiting
  <1>2. IsFiniteSet(Asking(o))
    BY <1>1, AskingFinite
  <1>3. Cardinality(Asking(o)') <= Cardinality(Asking(o))
    BY <1>2, FS_Subset
  <1>4. Cardinality(Asking(o)') \in Nat /\ Cardinality(Asking(o)) \in Nat /\ Cardinality(Handlers) \in Nat
    BY <1>1, AskingFinite
  <1>5. count[o] \in Nat
    BY DEF ChatTypeOK
  <1>6. QED
    BY <1>3, <1>4, <1>5 DEF DictOK

LEMMA DictAsk ==
    ASSUME ChatTypeOK, NEW r \in Handlers, NEW w \in Workers, NEW s \in Sids, NEW p \in Objs,
           Ask(r, w, s, p), NEW o \in Objs, DictOK(o)
    PROVE  DictOK(o)'
  <1>1. /\ r \notin Waiting
        /\ phase' = [phase EXCEPT ![r] = "gemini"]
        /\ obj' = [obj EXCEPT ![r] = p]
    BY DEF Ask, Waiting
  <1>2. CASE o # p
    <2>1. Asking(o)' = Asking(o)
      BY <1>1, <1>2 DEF Asking, Waiting, ChatTypeOK
    <2>2. count'[o] = count[o] /\ (o \in shared' <=> o \in shared)
      BY <1>2 DEF Ask, UseSession, dicts, ChatTypeOK
    <2>3. QED
      BY <2>1, <2>2 DEF DictOK
  <1>3. CASE o = p
    <2>1. Asking(o)' = Asking(o) \cup {r} /\ r \notin Asking(o)
      BY <1>1, <1>3 DEF Asking, Waiting, ChatTypeOK
    <2>2. Asking(o) \in SUBSET Handlers /\ Asking(o)' \in SUBSET Handlers
      BY <2>1 DEF Asking, Waiting
    <2>3. o \notin shared' => Asking(o) = {}
      BY <1>3 DEF Ask, UseSession, Garbage, Asking, Waiting, ChatTypeOK
    <2>4. count'[o] < QuestionMax
      BY <1>3 DEF Ask
    <2>5. count'[o] \in Nat
      <3>1. count' = count \/ count' = [count EXCEPT ![o] = 0]
        BY <1>3 DEF Ask, UseSession, dicts
      <3>2. QED
        BY <3>1 DEF ChatTypeOK
    <2>6. Cardinality(Asking(o)') <= Cardinality(Handlers) /\ Cardinality(Asking(o)') \in Nat
      BY <2>2, AskingFinite
    <2>7. o \notin shared' => Cardinality(Asking(o)') = 1
      BY <2>1, <2>2, <2>3, AskingFinite
    <2>8. Cardinality(Handlers) \in Nat
      BY AskingFinite
    <2>9. QED
      BY <2>4, <2>5, <2>6, <2>7, <2>8 DEF DictOK
  <1>4. QED
    BY <1>2, <1>3

LEMMA DictReply ==
    ASSUME ChatTypeOK, NEW r \in Handlers, Reply(r), NEW o \in Objs, DictOK(o)
    PROVE  DictOK(o)'
  <1>1. /\ r \in Waiting /\ obj[r] \in Objs
        /\ phase' = [phase EXCEPT ![r] = "idle"]
        /\ obj' = [obj EXCEPT ![r] = Nothing]
        /\ count' = [count EXCEPT ![obj[r]] = count[obj[r]] + 1]
        /\ shared' = shared
    BY DEF Reply, Finish, Waiting, ChatTypeOK
  <1>2. Asking(o)' = Asking(o) \ {r} /\ Asking(o) \in SUBSET Handlers
    BY <1>1 DEF Asking, Waiting, ChatTypeOK
  <1>3. CASE o = obj[r]
    <2>1. r \in Asking(o)
      BY <1>1, <1>3 DEF Asking
    <2>2. Cardinality(Asking(o)') = Cardinality(Asking(o)) - 1 /\ Cardinality(Asking(o)) \in Nat
            /\ Cardinality(Handlers) \in Nat
      BY <1>2, <2>1, AskingFinite
    <2>3. count'[o] = count[o] + 1 /\ count[o] \in Nat
      BY <1>1, <1>3 DEF ChatTypeOK
    <2>4. QED
      BY <1>1, <2>2, <2>3 DEF DictOK
  <1>4. CASE o # obj[r]
    <2>1. count'[o] = count[o]
      BY <1>1, <1>4 DEF ChatTypeOK
    <2>2. QED
      BY <1>1, <1>2, <2>1, DictKept
  <1>5. QED
    BY <1>3, <1>4

LEMMA DictStep ==
    ASSUME ChatTypeOK, [ChatNext]_chatVars, NEW o \in Objs, DictOK(o)
    PROVE  DictOK(o)'
  <1>1. CASE UNCHANGED <<dicts, waits, shared>>
    BY <1>1, DictKept DEF dicts, waits, Asking, Waiting
  <1>2. ASSUME NEW r \in Handlers, FailOver(r) \/ FailBoth(r)
        PROVE  DictOK(o)'
    <2>1. Asking(o)' \subseteq Asking(o)
      <3>1. CASE FailOver(r)
        BY <3>1 DEF FailOver, Asking, Waiting, ChatTypeOK
      <3>2. CASE FailBoth(r)
        BY <3>2 DEF FailBoth, Finish, Asking, Waiting, ChatTypeOK
      <3>3. QED
        BY <1>2, <3>1, <3>2
    <2>2. UNCHANGED <<dicts, shared>>
      BY <1>2 DEF FailOver, FailBoth
    <2>3. QED
      BY <2>1, <2>2, DictKept DEF dicts
  <1>3. ASSUME NEW w \in Workers, Restart(w)
        PROVE  DictOK(o)'
    <2>1. Asking(o)' \subseteq Asking(o)
      BY <1>3 DEF Restart, Asking, Waiting, ChatTypeOK
    <2>2. QED
      BY <1>3, <2>1, DictKept DEF Restart, dicts
  <1>4. QED
    BY <1>1, <1>2, <1>3, DictAsk, DictReply
    DEF ChatNext, chatVars, RefuseRate, BadRequest, Prompt, Cleanup, ClockTicks, dicts, waits

(* For any limit and any number of handlers that wait at once: only those  *)
(* that waited together on one session go beyond its free questions, and   *)
(* by fewer than there can be of them.                                     *)
THEOREM QuestionsAreBounded == ChatSpec => []QuestionsBounded
  <1> DEFINE DictsOK == \A o \in Objs : DictOK(o)
  <1>1. ChatInit => DictsOK
    <2> SUFFICES ASSUME ChatInit, NEW o \in Objs
                 PROVE  DictOK(o)
      OBVIOUS
    <2>1. Asking(o) = {} /\ count[o] = 0
      BY DEF ChatInit, Asking, Waiting
    <2>2. QED
      BY <2>1, AskingFinite DEF DictOK
  <1>2. ChatTypeOK /\ DictsOK /\ [ChatNext]_chatVars => DictsOK'
    BY DictStep
  <1>3. ChatTypeOK /\ DictsOK => QuestionsBounded
    <2> SUFFICES ASSUME ChatTypeOK, NEW o \in Objs, DictOK(o)
                 PROVE  /\ count[o] > QuestionMax => o \in shared
                        /\ count[o] + Cardinality(Asking(o))
                              <= QuestionMax + Cardinality(Handlers) - 1
      BY DEF QuestionsBounded, Asking
    <2>1. Asking(o) \in SUBSET Handlers
      BY DEF Asking, Waiting
    <2>2. Cardinality(Asking(o)) \in Nat /\ count[o] \in Nat
      BY <2>1, AskingFinite DEF ChatTypeOK
    <2>3. QED
      BY <2>2 DEF DictOK
  <1> HIDE DEF DictsOK
  <1>4. QED
    BY <1>1, <1>2, <1>3, ChatTypeCorrect, PTL DEF ChatSpec

----------------------------------------------------------------------------
(* Rates. *)

Window(w, b) == {h \in served[w] : h[1] <= b /\ b - h[1] < RateWindow}
Latest(w) == {h \in hits[w] : h[1] = clock}

(* The list holds all that still counts, and its entries of this moment    *)
(* are numbered from one on.                                               *)
RatesOK(w) ==
    /\ hits[w] \subseteq served[w]
    /\ \A h \in served[w] : h[1] <= clock
    /\ \A h \in served[w] : InWindow(h[1]) => h \in hits[w]
    /\ \A h \in served[w] : h[1] = clock => h[2] <= Cardinality(Latest(w))
    /\ \A b \in Moments : Cardinality(Window(w, b)) <= RateMax

(* A request that is let through is none that was recorded before, so that *)
(* the set of them counts like the list.                                   *)
LEMMA ArrivalIsNew ==
    ASSUME ChatTypeOK, NEW w \in Workers, RatesOK(w), Cardinality(Kept(w)) < RateMax
    PROVE  /\ Arrival(w) = <<clock, Cardinality(Latest(w)) + 1>>
           /\ Cardinality(Latest(w)) \in Nat
           /\ Arrival(w) \notin served[w]
  <1>1. {h \in Kept(w) : h[1] = clock} = Latest(w)
    BY DEF Kept, Latest, InWindow, ChatTypeOK
  <1>2. Cardinality(Latest(w)) \in Nat
    BY RequestsFinite DEF Latest, ChatTypeOK
  <1>3. Arrival(w) = <<clock, Cardinality(Latest(w)) + 1>>
    BY <1>1 DEF Arrival
  <1>4. ASSUME Arrival(w) \in served[w]
        PROVE  FALSE
    BY <1>2, <1>3, <1>4 DEF RatesOK
  <1>5. QED
    BY <1>2, <1>3, <1>4

LEMMA RatesPass ==
    ASSUME ChatTypeOK, NEW w \in Workers, NEW v \in Workers, RatesOK(v), PassRate(w), clock' = clock
    PROVE  RatesOK(v)'
  <1>1. /\ hits' = [hits EXCEPT ![w] = Kept(w) \cup {Arrival(w)}]
        /\ served' = [served EXCEPT ![w] = served[w] \cup {Arrival(w)}]
        /\ Cardinality(Kept(w)) < RateMax
    BY DEF PassRate
  <1>2. CASE v # w
    <2>1. hits'[v] = hits[v] /\ served'[v] = served[v]
      BY <1>1, <1>2 DEF ChatTypeOK
    <2>2. QED
      BY <2>1 DEF RatesOK, Window, Latest, InWindow
  <1>3. CASE v = w
    <2> DEFINE a == Arrival(v)
    <2>1. hits'[v] = Kept(v) \cup {a} /\ served'[v] = served[v] \cup {a}
      BY <1>1, <1>3 DEF ChatTypeOK
    <2>2. /\ a = <<clock, Cardinality(Latest(v)) + 1>>
          /\ Cardinality(Latest(v)) \in Nat
          /\ a \notin served[v]
      BY <1>1, <1>3, ArrivalIsNew
    <2>3. Kept(v) \subseteq served[v] /\ Kept(v) \in SUBSET Request /\ clock \in Nat
      BY DEF Kept, RatesOK, ChatTypeOK
    <2>4. Latest(v)' = Latest(v) \cup {a} /\ a \notin Latest(v)
      BY <2>1, <2>2 DEF Latest, Kept, InWindow, RatesOK, ChatTypeOK
    <2>5. Cardinality(Latest(v)') = Cardinality(Latest(v)) + 1
      BY <2>4, RequestsFinite, FS_AddElement DEF Latest, ChatTypeOK
    <2>6. hits'[v] \subseteq served'[v] /\ \A h \in served'[v] : h[1] <= clock
      BY <2>1, <2>2, <2>3 DEF RatesOK
    <2>7. \A h \in served'[v] : h[1] <= clock /\ clock - h[1] < RateWindow => h \in hits'[v]
      BY <2>1 DEF RatesOK, Kept, InWindow
    <2>8. ASSUME NEW h \in served'[v], h[1] = clock
          PROVE  h[2] <= Cardinality(Latest(v)')
      <3>1. CASE h = a
        BY <2>2, <2>5, <3>1
      <3>2. CASE h \in served[v]
        <4>1. h[2] \in Nat
          BY <3>2 DEF ChatTypeOK, Request
        <4>2. h[2] <= Cardinality(Latest(v))
          BY <2>8, <3>2 DEF RatesOK
        <4>3. QED
          BY <2>2, <2>5, <4>1, <4>2
      <3>3. QED
        BY <2>1, <3>1, <3>2
    <2>9. ASSUME NEW b \in Moments
          PROVE  Cardinality(Window(v, b)') <= RateMax
      <3>1. CASE b < clock
        <4>1. Window(v, b)' = Window(v, b)
          BY <2>1, <2>2, <2>3, <3>1 DEF Window
        <4>2. QED
          BY <4>1 DEF RatesOK
      <3>2. CASE b >= clock
        <4>1. Window(v, b)' \subseteq Kept(v) \cup {a}
          <5> SUFFICES ASSUME NEW h \in served[v], b - h[1] < RateWindow
                       PROVE  h \in Kept(v)
            BY <2>1 DEF Window
          <5>1. h[1] \in Nat /\ h[1] <= clock
            BY DEF ChatTypeOK, Request, RatesOK
          <5>2. InWindow(h[1])
            BY <2>3, <3>2, <5>1 DEF InWindow
          <5>3. QED
            BY <5>2 DEF RatesOK, Kept
        <4>2. IsFiniteSet(Kept(v)) /\ Cardinality(Kept(v)) \in Nat /\ a \notin Kept(v)
          BY <2>2, <2>3, RequestsFinite
        <4>3. IsFiniteSet(Kept(v) \cup {a}) /\ Cardinality(Kept(v) \cup {a}) = Cardinality(Kept(v)) + 1
          BY <4>2, FS_AddElement
        <4>4. IsFiniteSet(Window(v, b)') /\ Cardinality(Window(v, b)') <= Cardinality(Kept(v)) + 1
          BY <4>1, <4>3, FS_Subset
        <4>5. Cardinality(Window(v, b)') \in Nat
          BY <4>4, FS_CardinalityType
        <4>6. QED
          BY <1>1, <1>3, <4>2, <4>4, <4>5
      <3>3. QED
        BY <2>3, <3>1, <3>2
    <2>10. QED
      BY <2>6, <2>7, <2>8, <2>9 DEF RatesOK, InWindow
  <1>4. QED
    BY <1>2, <1>3

(* Times that no longer count are dropped. *)
LEMMA RatesPruned ==
    ASSUME ChatTypeOK, NEW w \in Workers, NEW v \in Workers, RatesOK(v),
           hits' = [hits EXCEPT ![w] = Kept(w)], UNCHANGED <<clock, served>>
    PROVE  RatesOK(v)'
  <1>1. hits'[v] = IF v = w THEN Kept(v) ELSE hits[v]
    BY DEF ChatTypeOK
  <1>2. Latest(v)' = Latest(v)
    BY <1>1 DEF Latest, Kept, InWindow, ChatTypeOK
  <1>3. hits'[v] \subseteq served[v] /\ \A h \in served[v] : InWindow(h[1]) => h \in hits'[v]
    BY <1>1 DEF RatesOK, Kept
  <1>4. QED
    BY <1>2, <1>3 DEF RatesOK, Window, InWindow

LEMMA RatesStep ==
    ASSUME ChatTypeOK, [ChatNext]_chatVars, NEW v \in Workers, RatesOK(v)
    PROVE  RatesOK(v)'
  <1>1. CASE UNCHANGED <<rates, clock>>
    BY <1>1 DEF rates, RatesOK, Window, Latest, InWindow
  <1>2. ASSUME NEW w \in Workers, Restart(w)
        PROVE  RatesOK(v)'
    <2>1. CASE v = w
      <3>1. hits'[v] = {} /\ served'[v] = {}
        BY <1>2, <2>1 DEF Restart, ChatTypeOK
      <3>2. \A b \in Moments : Window(v, b)' = {}
        BY <3>1 DEF Window
      <3>3. Cardinality({}) = 0
        BY FS_EmptySet
      <3>4. \A b \in Moments : Cardinality(Window(v, b)') <= RateMax
        BY <3>2, <3>3
      <3>5. QED
        BY <3>1, <3>4 DEF RatesOK
    <2>2. CASE v # w
      <3>1. hits'[v] = hits[v] /\ served'[v] = served[v] /\ clock' = clock
        BY <1>2, <2>2 DEF Restart, ChatTypeOK
      <3>2. QED
        BY <3>1 DEF RatesOK, Window, Latest, InWindow
    <2>3. QED
      BY <2>1, <2>2
  <1>3. CASE ClockTicks
    <2>1. clock' = clock + 1 /\ clock \in Nat /\ UNCHANGED <<hits, served>>
      BY <1>3 DEF ClockTicks, rates, ChatTypeOK
    <2>2. \A h \in served[v] : h[1] \in Nat /\ h[1] <= clock
      BY DEF ChatTypeOK, Request, RatesOK
    <2>3. \A h \in served[v] : h[1] <= clock' /\ h[1] # clock' /\ (InWindow(h[1])' => InWindow(h[1]))
      BY <2>1, <2>2 DEF InWindow
    <2>4. \A b \in Moments : Window(v, b)' = Window(v, b)
      BY <2>1 DEF Window
    <2>5. QED
      BY <2>1, <2>3, <2>4 DEF RatesOK
  <1>4. ASSUME NEW w \in Workers, PassRate(w), clock' = clock
        PROVE  RatesOK(v)'
    BY <1>4, RatesPass
  <1>5. ASSUME NEW w \in Workers, RefuseRate(w) \/ Cleanup(w)
        PROVE  RatesOK(v)'
    BY <1>5, RatesPruned DEF RefuseRate, Cleanup
  <1>6. QED
    BY <1>1, <1>2, <1>3, <1>4, <1>5
    DEF ChatNext, chatVars, rates, BadRequest, Prompt, Ask, FailOver, FailBoth, Reply

LEMMA RatesAlwaysOK == ChatSpec => [](ChatTypeOK /\ \A w \in Workers : RatesOK(w))
  <1> DEFINE AllOK == \A w \in Workers : RatesOK(w)
  <1>1. ChatInit => AllOK
    <2> SUFFICES ASSUME ChatInit, NEW w \in Workers
                 PROVE  RatesOK(w)
      OBVIOUS
    <2>1. hits[w] = {} /\ served[w] = {}
      BY DEF ChatInit
    <2>2. Cardinality({}) = 0
      BY FS_EmptySet
    <2>3. \A b \in Moments : Window(w, b) = {}
      BY <2>1 DEF Window
    <2>4. \A b \in Moments : Cardinality(Window(w, b)) <= RateMax
      BY <2>2, <2>3
    <2>5. QED
      BY <2>1, <2>4 DEF RatesOK
  <1>2. ChatTypeOK /\ AllOK /\ [ChatNext]_chatVars => AllOK'
    BY RatesStep
  <1> HIDE DEF AllOK
  <1>3. ChatSpec => [](ChatTypeOK /\ AllOK)
    BY <1>1, <1>2, ChatTypeCorrect, PTL DEF ChatSpec
  <1>4. QED
    BY <1>3 DEF AllOK

(* For any window and limit, however long the worker runs, however often   *)
(* it prunes and whenever its cleanup comes: no window of that length      *)
(* holds more requests of the address than the limit.                      *)
THEOREM RatesAreKept == ChatSpec => []RateKept
  <1> DEFINE AllOK == ChatTypeOK /\ \A w \in Workers : RatesOK(w)
  <1>1. AllOK => RateKept
    BY DEF RatesOK, Window, RateKept
  <1> HIDE DEF AllOK
  <1>2. ChatSpec => []AllOK
    BY RatesAlwaysOK DEF AllOK
  <1>3. QED
    BY <1>1, <1>2, PTL

(* And those requests are counted, none twice for one: what a worker lets  *)
(* through is never what it has let through before.                        *)
THEOREM RequestsAreNew ==
    ChatSpec => [][\A w \in Workers : PassRate(w) => Arrival(w) \notin served[w]]_chatVars
  <1> DEFINE AllOK == ChatTypeOK /\ \A w \in Workers : RatesOK(w)
             New == \A w \in Workers : PassRate(w) => Arrival(w) \notin served[w]
  <1>1. AllOK => [New]_chatVars
    BY ArrivalIsNew DEF PassRate
  <1> HIDE DEF AllOK, New
  <1>2. ChatSpec => []AllOK
    BY RatesAlwaysOK DEF AllOK
  <1>3. ChatSpec => [][New]_chatVars
    BY <1>1, <1>2, PTL DEF ChatSpec
  <1>4. QED
    BY <1>3 DEF New

----------------------------------------------------------------------------
(* The session a question is counted in. *)

Reachable(r) == \E s \in Sids : sessions[worker[r]][s] = obj[r]

(* One handler waits on, for the dict it waited for. *)
LEMMA StaysCounted ==
    ASSUME ChatTypeOK, [ChatNext]_chatVars, NEW r \in Waiting, Stale(obj[r]) \/ Reachable(r),
           r \in Waiting', worker'[r] = worker[r], obj'[r] = obj[r]
    PROVE  Stale(obj[r])' \/ Reachable(r)'
  <1>0. r \in Handlers /\ obj[r] \in Objs /\ worker[r] \in Workers /\ obj[r] # Nothing
    BY DEF Waiting, ChatTypeOK
  <1>1. CASE UNCHANGED <<sessions, createdAt, clock>>
    BY <1>0, <1>1 DEF Stale, Reachable
  <1>2. ASSUME NEW q \in Handlers, NEW w \in Workers, NEW s \in Sids, NEW o \in Objs, Ask(q, w, s, o),
               ~ UNCHANGED <<sessions, createdAt, clock>>
        PROVE  Stale(obj[r])' \/ Reachable(r)'
    <2>1. /\ sessions[w][s] = Nothing
          /\ o \in Garbage
          /\ sessions' = [sessions EXCEPT ![w][s] = o]
          /\ createdAt' = [createdAt EXCEPT ![o] = clock]
          /\ clock' = clock
      BY <1>2 DEF Ask, UseSession, dicts
    <2>2. obj[r] # o
      BY <2>1 DEF Garbage
    <2>3. createdAt'[obj[r]] = createdAt[obj[r]]
      BY <1>0, <2>1, <2>2 DEF ChatTypeOK
    <2>4. CASE Stale(obj[r])
      BY <1>0, <2>1, <2>3, <2>4 DEF Stale
    <2>5. CASE Reachable(r)
      <3>1. PICK t \in Sids : sessions[worker[r]][t] = obj[r]
        BY <2>5 DEF Reachable
      <3>2. sessions'[worker[r]][t] = obj[r]
        BY <1>0, <2>1, <3>1 DEF ChatTypeOK
      <3>3. QED
        BY <3>2 DEF Reachable
    <2>6. QED
      BY <2>4, <2>5
  <1>3. ASSUME NEW w \in Workers, Cleanup(w)
        PROVE  Stale(obj[r])' \/ Reachable(r)'
    <2>1. createdAt' = createdAt /\ clock' = clock
      BY <1>3 DEF Cleanup, dicts
    <2>2. CASE Stale(obj[r])
      BY <1>0, <2>1, <2>2 DEF Stale
    <2>3. CASE ~Stale(obj[r])
      <3>1. PICK t \in Sids : sessions[worker[r]][t] = obj[r]
        BY <2>3 DEF Reachable
      <3>2. sessions'[worker[r]][t] = obj[r]
        BY <1>0, <1>3, <2>3, <3>1 DEF Cleanup, ChatTypeOK
      <3>3. QED
        BY <3>2 DEF Reachable
    <2>4. QED
      BY <2>2, <2>3
  <1>4. ASSUME NEW w \in Workers, Restart(w)
        PROVE  Stale(obj[r])' \/ Reachable(r)'
    <2>1. worker[r] # w
      BY <1>0, <1>4 DEF Restart, Waiting
    <2>2. sessions'[worker[r]] = sessions[worker[r]] /\ createdAt' = createdAt /\ clock' = clock
      BY <1>0, <1>4, <2>1 DEF Restart, dicts, ChatTypeOK
    <2>3. QED
      BY <2>2 DEF Stale, Reachable
  <1>5. CASE ClockTicks
    <2>1. clock' = clock + 1 /\ UNCHANGED <<sessions, createdAt>>
      BY <1>5 DEF ClockTicks, dicts
    <2>2. clock \in Nat /\ createdAt[obj[r]] \in Nat
      BY <1>0 DEF ChatTypeOK
    <2>3. QED
      BY <2>1, <2>2 DEF Stale, Reachable
  <1>6. QED
    BY <1>1, <1>2, <1>3, <1>4, <1>5
    DEF ChatNext, chatVars, dicts, RefuseRate, BadRequest, Prompt, FailOver, FailBoth, Reply

(* A handler that waits has begun to in this step, in a session of the     *)
(* table, or waited before.                                                *)
LEMMA WaitingStep ==
    ASSUME ChatTypeOK, [ChatNext]_chatVars, NEW r \in Waiting'
    PROVE  \/ r \in Waiting /\ worker'[r] = worker[r] /\ obj'[r] = obj[r]
           \/ Reachable(r)'
  <1>0. r \in Handlers
    BY DEF Waiting
  <1>1. CASE UNCHANGED waits
    BY <1>1 DEF waits, Waiting
  <1>2. ASSUME NEW q \in Handlers, NEW w \in Workers, NEW s \in Sids, NEW o \in Objs, Ask(q, w, s, o)
        PROVE  \/ r \in Waiting /\ worker'[r] = worker[r] /\ obj'[r] = obj[r]
               \/ Reachable(r)'
    <2>1. sessions'[w][s] = o
      BY <1>2 DEF Ask, UseSession, ChatTypeOK
    <2>2. CASE q = r
      <3>1. worker'[r] = w /\ obj'[r] = o
        BY <1>0, <1>2, <2>2 DEF Ask, ChatTypeOK
      <3>2. QED
        BY <2>1, <3>1 DEF Reachable
    <2>3. CASE q # r
      BY <1>0, <1>2, <2>3 DEF Ask, Waiting, ChatTypeOK
    <2>4. QED
      BY <2>2, <2>3
  <1>3. ASSUME NEW q \in Handlers, FailOver(q)
        PROVE  r \in Waiting /\ worker'[r] = worker[r] /\ obj'[r] = obj[r]
    BY <1>0, <1>3 DEF FailOver, Waiting, ChatTypeOK
  <1>4. ASSUME NEW q \in Handlers, FailBoth(q) \/ Reply(q)
        PROVE  r \in Waiting /\ worker'[r] = worker[r] /\ obj'[r] = obj[r]
    <2>1. Finish(q)
      BY <1>4 DEF FailBoth, Reply
    <2>2. QED
      BY <1>0, <2>1 DEF Finish, Waiting, ChatTypeOK
  <1>5. ASSUME NEW w \in Workers, Restart(w)
        PROVE  r \in Waiting /\ worker'[r] = worker[r] /\ obj'[r] = obj[r]
    BY <1>0, <1>5 DEF Restart, Waiting, ChatTypeOK
  <1>6. QED
    BY <1>1, <1>2, <1>3, <1>4, <1>5
    DEF ChatNext, chatVars, waits, RefuseRate, BadRequest, Prompt, Cleanup, ClockTicks

(* For any number of handlers, however long a model takes and whatever     *)
(* dict is used for a new session meanwhile: the answer is counted in a    *)
(* session that the visitor still has, or in one that had grown too old.   *)
THEOREM QuestionsCountedInSession == ChatSpec => []CountedInSession
  <1>1. ChatInit => CountedInSession
    BY DEF ChatInit, CountedInSession, Waiting
  <1>2. ChatTypeOK /\ CountedInSession /\ [ChatNext]_chatVars => CountedInSession'
    <2> SUFFICES ASSUME ChatTypeOK, CountedInSession, [ChatNext]_chatVars, NEW r \in Waiting'
                 PROVE  Stale(obj[r])' \/ Reachable(r)'
      BY DEF CountedInSession, Reachable
    <2>1. CASE r \in Waiting /\ worker'[r] = worker[r] /\ obj'[r] = obj[r]
      <3>1. Stale(obj[r]) \/ Reachable(r)
        BY <2>1 DEF CountedInSession, Reachable
      <3>2. QED
        BY <2>1, <3>1, StaysCounted
    <2>2. QED
      BY <2>1, WaitingStep
  <1>3. QED
    BY <1>1, <1>2, ChatTypeCorrect, PTL DEF ChatSpec

----------------------------------------------------------------------------
(* What the expiry of sessions rests on. *)

(* A step leaves a session its dict, creation time and count, or clears it. *)
SessionAges(w, s) ==
    LET o == sessions[w][s]
    IN o # Nothing =>
          \/ sessions'[w][s] = Nothing
          \/ sessions'[w][s] = o /\ createdAt'[o] = createdAt[o] /\ count'[o] >= count[o]

(* A stored dict is no garbage, so no new session is made of it. *)
LEMMA DictAges ==
    ASSUME ChatTypeOK, [ChatNext]_chatVars, NEW o \in Stored
    PROVE  createdAt'[o] = createdAt[o] /\ count'[o] >= count[o]
  <1>0. o \in Objs /\ count[o] \in Nat
    BY DEF Stored, ChatTypeOK
  <1>1. CASE UNCHANGED dicts
    BY <1>0, <1>1 DEF dicts
  <1>2. ASSUME NEW r \in Handlers, NEW w \in Workers, NEW s \in Sids, NEW p \in Objs, Ask(r, w, s, p)
        PROVE  createdAt'[o] = createdAt[o] /\ count'[o] >= count[o]
    <2>1. CASE UNCHANGED dicts
      BY <1>1, <2>1
    <2>2. CASE ~UNCHANGED dicts
      <3>1. /\ p \in Garbage
            /\ count' = [count EXCEPT ![p] = 0]
            /\ createdAt' = [createdAt EXCEPT ![p] = clock]
        BY <1>2, <2>2 DEF Ask, UseSession
      <3>2. p # o
        BY <3>1 DEF Garbage
      <3>3. QED
        BY <1>0, <3>1, <3>2 DEF ChatTypeOK
    <2>3. QED
      BY <2>1, <2>2
  <1>3. ASSUME NEW r \in Handlers, Reply(r)
        PROVE  createdAt'[o] = createdAt[o] /\ count'[o] >= count[o]
    BY <1>0, <1>3 DEF Reply, ChatTypeOK
  <1>4. QED
    BY <1>1, <1>2, <1>3
    DEF ChatNext, chatVars, dicts, RefuseRate, BadRequest, Prompt, FailOver, FailBoth, Cleanup, Restart, ClockTicks

LEMMA TableStep ==
    ASSUME ChatTypeOK, [ChatNext]_chatVars, NEW w \in Workers, NEW s \in Sids, sessions[w][s] # Nothing
    PROVE  sessions'[w][s] \in {sessions[w][s], Nothing}
  <1>1. CASE UNCHANGED sessions
    BY <1>1
  <1>2. ASSUME NEW r \in Handlers, NEW v \in Workers, NEW t \in Sids, NEW o \in Objs, Ask(r, v, t, o)
        PROVE  sessions'[w][s] = sessions[w][s]
    <2>1. \/ UNCHANGED sessions
          \/ sessions[v][t] = Nothing /\ sessions' = [sessions EXCEPT ![v][t] = o]
      BY <1>2 DEF Ask, UseSession
    <2>2. QED
      BY <2>1 DEF ChatTypeOK
  <1>3. ASSUME NEW v \in Workers, Cleanup(v) \/ Restart(v)
        PROVE  sessions'[w][s] \in {sessions[w][s], Nothing}
    BY <1>3 DEF Cleanup, Restart, ChatTypeOK
  <1>4. QED
    BY <1>1, <1>2, <1>3
    DEF ChatNext, chatVars, RefuseRate, BadRequest, Prompt, FailOver, FailBoth, Reply, ClockTicks

(* Until it is cleared a session keeps its dict, the time it was created   *)
(* and the questions it has counted: no use renews it, so that the cleanup *)
(* (main.py, cleanup_sessions_loop) reaches it however busy it is, and no  *)
(* visitor gets the free questions anew before that.                       *)
THEOREM SessionsOnlyAge ==
    ChatSpec => [][\A w \in Workers, s \in Sids : SessionAges(w, s)]_chatVars
  <1> DEFINE Ages == \A w \in Workers, s \in Sids : SessionAges(w, s)
  <1>1. ChatTypeOK /\ [ChatNext]_chatVars => [Ages]_chatVars
    BY DictAges, TableStep DEF SessionAges, Stored
  <1> HIDE DEF Ages
  <1>2. ChatSpec => [][Ages]_chatVars
    BY <1>1, ChatTypeCorrect, PTL DEF ChatSpec
  <1>3. QED
    BY <1>2 DEF Ages

HIDE PublicChatConstants DEF Moments

----------------------------------------------------------------------------
(* The directory. *)

USE DirectoryConstants DEF Questions, Time, Answer, Entry, Item

Types ==
    /\ cache \in [Keys -> Entry \cup {None}]
    /\ pc \in [Reqs -> {"idle", "expired", "miss", "fetched", "answered"}]
    /\ asked \in [Reqs -> Questions \cup {None}]
    /\ answer \in [Reqs -> Answer \cup {None}]
    /\ since \in [Reqs -> Nat]
    /\ now \in Time
    /\ \A r \in Reqs :
          /\ pc[r] # "idle" => asked[r] \in Questions
          /\ pc[r] \in {"fetched", "answered"} => answer[r] \in Answer

(* An entry expires before its answer is older than the lifetime and one   *)
(* delay, and is filed under the key of its question.                      *)
EntryOK(k) ==
    cache[k] # None =>
       /\ cache[k].expiry <= cache[k].value.at + TTL + Delay
       /\ Key[cache[k].value.to] = k

HandlerOK(r) ==
    /\ pc[r] = "fetched" =>
          /\ answer[r].to = asked[r]
          /\ now - answer[r].at <= Delay
          /\ answer[r].at = since[r]
    /\ pc[r] = "answered" =>
          /\ Key[answer[r].to] = Key[asked[r]]
          /\ since[r] - answer[r].at <= TTL + Delay
          /\ now - since[r] <= Delay

Inv ==
    /\ Types
    /\ \A k \in Keys : EntryOK(k)
    /\ \A r \in Reqs : HandlerOK(r)

LEMMA InitInv == Init => Inv
BY DEF Init, Inv, Types, EntryOK, HandlerOK

(* A handler that goes back to idle disturbs nobody. *)
LEMMA ReturnInv ==
    ASSUME Inv, NEW r \in Reqs, Return(r), now' = now,
           cache' = cache \/ cache' = [k \in Keys |-> None]
    PROVE  Inv'
<1>1. Types'
  BY DEF Inv, Types, Return
<1>2. \A k \in Keys : EntryOK(k)'
  BY DEF Inv, Types, EntryOK
<1>3. \A q \in Reqs : HandlerOK(q)'
  BY DEF Inv, Types, HandlerOK, Return
<1> QED BY <1>1, <1>2, <1>3 DEF Inv

LEMMA HitInv ==
    ASSUME Inv, NEW r \in Reqs, NEW q \in Questions, NEW s \in Students \cup {None}, Hit(r, q, s)
    PROVE  Inv'
<1> USE DEF Inv, Types, Hit, Begin
<1> DEFINE k == Key[q]
<1>1. k \in Keys /\ cache[k] \in Entry /\ EntryOK(k) /\ now <= cache[k].expiry
  BY DEF Expired
<1>2. cache[k].value \in Answer /\ cache[k].expiry \in Nat
  BY <1>1
<1>3. Types'
  BY <1>2
<1>4. \A l \in Keys : EntryOK(l)'
  BY DEF EntryOK
<1>5. HandlerOK(r)'
  <2>1. pc'[r] = "answered" /\ asked'[r] = q /\ answer'[r] = cache[k].value /\ since'[r] = now
    OBVIOUS
  <2>2. Key[cache[k].value.to] = k /\ now - cache[k].value.at <= TTL + Delay
    BY <1>1, <1>2 DEF EntryOK
  <2>3. now' - since'[r] <= Delay
    BY <2>1
  <2> QED BY <2>1, <2>2, <2>3 DEF HandlerOK
<1>6. \A p \in Reqs \ {r} : HandlerOK(p)'
  BY DEF HandlerOK
<1> QED BY <1>3, <1>4, <1>5, <1>6

LEMMA BeginInv ==
    ASSUME Inv, NEW r \in Reqs, NEW q \in Questions, NEW s \in Students \cup {None},
           Expire(r, q, s) \/ Miss(r, q, s)
    PROVE  Inv'
<1> USE DEF Inv, Types, Expire, Miss, Begin
<1>1. Types'
  OBVIOUS
<1>2. \A k \in Keys : EntryOK(k)'
  BY DEF EntryOK
<1>3. \A p \in Reqs : HandlerOK(p)'
  BY DEF HandlerOK
<1> QED BY <1>1, <1>2, <1>3

LEMMA ForgetInv ==
    ASSUME Inv, NEW r \in Reqs, Forget(r)
    PROVE  Inv'
<1> USE DEF Inv, Types, Forget
<1>1. Types'
  OBVIOUS
<1>2. \A k \in Keys : EntryOK(k)'
  BY DEF EntryOK
<1>3. \A p \in Reqs : HandlerOK(p)'
  BY DEF HandlerOK
<1> QED BY <1>1, <1>2, <1>3

LEMMA FetchInv ==
    ASSUME Inv, NEW r \in Reqs, Fetch(r)
    PROVE  Inv'
<1> USE DEF Inv, Types, Fetch
<1>1. Types'
  OBVIOUS
<1>2. \A k \in Keys : EntryOK(k)'
  BY DEF EntryOK
<1>3. \A p \in Reqs : HandlerOK(p)'
  BY DEF HandlerOK
<1> QED BY <1>1, <1>2, <1>3

LEMMA AnsweredInv ==
    ASSUME Inv, NEW r \in Reqs, pc[r] = "fetched", Answered(r),
           cache' \in [Keys -> Entry \cup {None}], \A k \in Keys : EntryOK(k)'
    PROVE  Inv'
<1> USE DEF Inv, Types, Answered
<1>1. Types'
  OBVIOUS
<1>2. HandlerOK(r)'
  BY DEF HandlerOK
<1>3. \A p \in Reqs \ {r} : HandlerOK(p)'
  BY DEF HandlerOK
<1> QED BY <1>1, <1>2, <1>3

LEMMA StoreInv ==
    ASSUME Inv, NEW r \in Reqs, Store(r)
    PROVE  Inv'
<1> DEFINE k == Key[asked[r]]
           new == [value |-> answer[r], expiry |-> now + TTL]
<1>1. k \in Keys /\ new \in Entry /\ pc[r] = "fetched"
  BY DEF Inv, Types, Store
<1>2. With(r) \in [Keys -> Entry \cup {None}]
  BY <1>1 DEF Inv, Types, With
<1>3. \A l \in Keys : cache'[l] \in {None, With(r)[l]}
  BY DEF Store
<1>4. cache' \in [Keys -> Entry \cup {None}]
  BY <1>2 DEF Store
<1>5. new.value.to = asked[r] /\ new.expiry <= new.value.at + TTL + Delay
  BY <1>1 DEF Inv, Types, HandlerOK
<1>6. With(r)[k] = new /\ \A l \in Keys \ {k} : With(r)[l] = cache[l]
  BY <1>1 DEF Inv, Types, With
<1>7. \A l \in Keys : EntryOK(l)'
  <2> SUFFICES ASSUME NEW l \in Keys, cache'[l] # None
               PROVE  /\ cache'[l].expiry <= cache'[l].value.at + TTL + Delay
                      /\ Key[cache'[l].value.to] = l
    BY DEF EntryOK
  <2>1. CASE l = k
    BY <2>1, <1>3, <1>5, <1>6
  <2>2. CASE l # k
    BY <2>2, <1>3, <1>6 DEF Inv, EntryOK
  <2> QED BY <2>1, <2>2
<1> QED BY <1>1, <1>4, <1>7, AnsweredInv DEF Store

LEMMA TickInv == ASSUME Inv, Tick PROVE Inv'
<1> USE DEF Inv, Types, Tick, locals
<1>1. Types'
  OBVIOUS
<1>2. \A k \in Keys : EntryOK(k)'
  BY DEF EntryOK
<1>3. ASSUME NEW r \in Reqs PROVE HandlerOK(r)'
  BY <1>3 DEF HandlerOK
<1> QED BY <1>1, <1>2, <1>3

LEMMA InvStep == Inv /\ [Next]_vars => Inv'
<1> SUFFICES ASSUME Inv, [Next]_vars PROVE Inv'
  OBVIOUS
<1>1. CASE UNCHANGED vars
  BY <1>1 DEF vars, Inv, Types, EntryOK, HandlerOK
<1>2. ASSUME NEW r \in Reqs, NEW q \in Questions, NEW s \in Students \cup {None},
             Hit(r, q, s) \/ Expire(r, q, s) \/ Miss(r, q, s)
      PROVE  Inv'
  BY <1>2, HitInv, BeginInv
<1>3. ASSUME NEW r \in Reqs, Forget(r) \/ FetchList(r) \/ FetchDetails(r)
      PROVE  Inv'
  BY <1>3, ForgetInv, FetchInv DEF FetchList, FetchDetails
<1>4. ASSUME NEW r \in Reqs, NotFound(r) \/ Respond(r) \/ Upsert(r) \/ Abort(r)
      PROVE  Inv'
  BY <1>4, ReturnInv DEF NotFound, Respond, Upsert, Abort
<1>5. ASSUME NEW r \in Reqs, Store(r)
      PROVE  Inv'
  BY <1>5, StoreInv
<1>6. ASSUME NEW r \in Reqs, StoreFails(r)
      PROVE  Inv'
  BY <1>6, AnsweredInv DEF StoreFails, Inv, Types, EntryOK
<1>7. ASSUME NEW s \in Students, NEW d \in Details, RemoveFromShortlist(s, d)
      PROVE  Inv'
  BY <1>7 DEF RemoveFromShortlist, locals, Inv, Types, EntryOK, HandlerOK
<1>8. CASE Recreate
  BY <1>8 DEF Recreate, Inv, Types, EntryOK, HandlerOK
<1>9. CASE Tick
  BY <1>9, TickInv
<1> QED BY <1>1, <1>2, <1>3, <1>4, <1>5, <1>6, <1>7, <1>8, <1>9 DEF Next

(* However workers and shortlists interleave with evictions, expiries and  *)
(* failures, no answer is older than TTL + 2 * Delay or of another key.    *)
THEOREM AnswersAreFresh == Spec => []ShelfLife
<1>1. Inv => ShelfLife
  BY DEF Inv, Types, HandlerOK, ShelfLife
<1> QED BY <1>1, InitInv, InvStep, PTL DEF Spec

----------------------------------------------------------------------------
(* The size of the cache.  Only a write adds an entry, and it evicts in    *)
(* the same transaction what is over the maximum.                          *)

Bounded == IsFiniteSet(Cached) /\ CacheBounded

LEMMA StoreBounded ==
    ASSUME Types, Bounded, NEW r \in Reqs, Store(r)
    PROVE  Bounded'
<1> DEFINE W == Held(With(r))
<1>1. PICK S \in SUBSET W : /\ Oldest(With(r), S)
                            /\ cache' = [k \in Keys |-> IF k \in S THEN None ELSE With(r)[k]]
  BY DEF Store
<1>2. Key[asked[r]] \in Keys
  BY DEF Store, Types
<1>3. With(r) \in [Keys -> Entry \cup {None}]
        /\ \A k \in Keys \ {Key[asked[r]]} : With(r)[k] = cache[k]
  BY <1>2 DEF With, Types, Store
<1>4. W \subseteq Cached \cup {Key[asked[r]]}
  BY <1>3 DEF Held, Cached
<1>5. /\ IsFiniteSet(Cached \cup {Key[asked[r]]})
      /\ Cardinality(Cached \cup {Key[asked[r]]}) <= MaxSize + 1
      /\ Cardinality(Cached) \in Nat
  <2>1. IsFiniteSet(Cached) /\ Cardinality(Cached) <= MaxSize
    BY DEF Bounded, CacheBounded
  <2>2. Cardinality(Cached) \in Nat
    BY <2>1, FS_CardinalityType
  <2>3. IsFiniteSet(Cached \cup {Key[asked[r]]})
          /\ Cardinality(Cached \cup {Key[asked[r]]}) \in {Cardinality(Cached), Cardinality(Cached) + 1}
    BY <2>1, FS_AddElement
  <2> QED BY <2>1, <2>2, <2>3
<1>6. /\ IsFiniteSet(W) /\ Cardinality(W) \in Nat
  BY <1>4, <1>5, FS_Subset, FS_CardinalityType
<1>7. Cached' = W \ S
  <2>1. \A k \in Keys : k \in Cached' <=> k \in W \ S
    <3>1. \A k \in Keys : k \in W <=> With(r)[k] # None
      BY <1>3 DEF Held
    <3>2. \A k \in Keys : k \in Cached' <=> cache'[k] # None
      BY DEF Cached
    <3> HIDE DEF W
    <3> QED BY <1>1, <3>1, <3>2
  <2>2. W \subseteq Keys /\ Cached' \subseteq Keys
    BY <1>3 DEF Held, Cached
  <2> HIDE DEF W
  <2> QED BY <2>1, <2>2
<1>12. MaxSize \in Nat
  OBVIOUS
<1>11. IF Cardinality(W) > MaxSize THEN Cardinality(S) = Cardinality(W) - MaxSize ELSE S = {}
  BY <1>1 DEF Oldest
<1> HIDE DEF W
<1>8. IsFiniteSet(W \ S) /\ Cardinality(W \ S) = Cardinality(W) - Cardinality(W \cap S)
  BY <1>6, FS_Difference
<1>9. W \cap S = S
  BY <1>1
<1>10. Cardinality(W \ S) <= MaxSize
  <2>1. CASE Cardinality(W) > MaxSize
    <3>1. Cardinality(S) = Cardinality(W) - MaxSize
      BY <1>11, <2>1
    <3>2. Cardinality(W \ S) = Cardinality(W) - Cardinality(S)
      BY <1>8, <1>9
    <3> QED BY <1>6, <1>12, <3>1, <3>2
  <2>2. CASE ~(Cardinality(W) > MaxSize)
    <3>1. S = {}
      BY <1>11, <2>2
    <3>2. W \ S = W
      BY <3>1
    <3> QED BY <1>6, <1>12, <2>2, <3>2
  <2> QED BY <2>1, <2>2
<1> QED BY <1>7, <1>8, <1>10 DEF Bounded, CacheBounded

LEMMA BoundedStep == ASSUME Types, Bounded, [Next]_vars PROVE Bounded'
<1>1. CASE cache' = cache
  BY <1>1 DEF Bounded, CacheBounded, Cached
<1>2. CASE \E r \in Reqs : Store(r)
  BY <1>2, StoreBounded
<1>3. CASE (\E r \in Reqs : Forget(r)) \/ Recreate
  <2>1. Cached' \in SUBSET Cached
    BY <1>3 DEF Forget, Recreate, Cached, Types
  <2>2. IsFiniteSet(Cached') /\ Cardinality(Cached') <= Cardinality(Cached)
          /\ Cardinality(Cached) \in Nat /\ Cardinality(Cached') \in Nat
    BY <2>1, FS_Subset, FS_CardinalityType DEF Bounded
  <2> QED BY <2>2 DEF Bounded, CacheBounded
<1> QED
  BY <1>1, <1>2, <1>3 DEF Next, vars, Hit, Expire, Miss, FetchList, FetchDetails, Fetch,
     NotFound, StoreFails, Respond, Upsert, Abort, RemoveFromShortlist, Tick

(* For any maximum and any number of workers, questions and keys, no       *)
(* worker finds more entries in the cache than its maximum.                *)
THEOREM SizeIsKept == Spec => []CacheBounded
<1>1. Init => Bounded
  <2>1. Init => Cached = {}
    BY DEF Init, Cached
  <2> QED BY <2>1, FS_EmptySet DEF Bounded, CacheBounded
<1>2. Inv => Types
  BY DEF Inv
<1>3. Types /\ Bounded /\ [Next]_vars => Bounded'
  BY BoundedStep
<1>4. Bounded => CacheBounded
  BY DEF Bounded
<1> QED BY <1>1, <1>2, <1>3, <1>4, InitInv, InvStep, PTL DEF Spec

----------------------------------------------------------------------------
(* The types of all variables, and what becomes of an answer. *)

LEMMA ReturnType ==
    ASSUME TypeOK, NEW r \in Reqs, Return(r), cache' = cache, now' = now,
           rows' \in [Students -> [Details -> Item \cup {None}]]
    PROVE  TypeOK'
  BY DEF TypeOK, Return

LEMMA StoreType ==
    ASSUME TypeOK, NEW r \in Reqs, Store(r)
    PROVE  TypeOK'
<1>1. pc[r] = "fetched" /\ Answered(r)
  BY DEF Store
<1>2. With(r) \in [Keys -> Entry \cup {None}]
  <2>1. answer[r] \in Answer
    BY <1>1 DEF TypeOK
  <2>2. now + TTL \in Nat
    BY DirectoryConstants DEF TypeOK, Time
  <2>3. [value |-> answer[r], expiry |-> now + TTL] \in Entry
    BY <2>1, <2>2 DEF Entry
  <2> QED BY <2>3 DEF With, TypeOK
<1>3. cache' \in [Keys -> Entry \cup {None}]
  <2>1. PICK S \in SUBSET Held(With(r)) :
           cache' = [k \in Keys |-> IF k \in S THEN None ELSE With(r)[k]]
    BY DEF Store
  <2> QED BY <2>1, <1>2
<1> QED BY <1>1, <1>3 DEF Answered, TypeOK

LEMMA TypeStep == TypeOK /\ [Next]_vars => TypeOK'
<1> SUFFICES ASSUME TypeOK, [Next]_vars PROVE TypeOK'
  OBVIOUS
<1>1. ASSUME NEW r \in Reqs, NEW q \in Questions, NEW s \in Students \cup {None},
             Hit(r, q, s) \/ Expire(r, q, s) \/ Miss(r, q, s)
      PROVE  TypeOK'
  <2>1. q # None /\ None \notin Answer
    BY DirectoryConstants
  <2>2. CASE Hit(r, q, s)
    <3>1. cache[Key[q]].value \in Answer
      BY <2>2, DirectoryConstants DEF Hit, TypeOK, Entry
    <3> QED BY <2>1, <2>2, <3>1 DEF Hit, Begin, TypeOK
  <2>3. CASE Expire(r, q, s)
    BY <2>1, <2>3 DEF Expire, Begin, TypeOK
  <2>4. CASE Miss(r, q, s)
    BY <2>1, <2>4 DEF Miss, Begin, TypeOK
  <2> QED BY <1>1, <2>2, <2>3, <2>4
<1>2. ASSUME NEW r \in Reqs, Forget(r) PROVE TypeOK'
  BY <1>2 DEF Forget, TypeOK
<1>3. ASSUME NEW r \in Reqs, Fetch(r) PROVE TypeOK'
  <2>1. asked[r] \in Questions /\ now \in Time
    BY <1>3 DEF Fetch, TypeOK
  <2>2. [to |-> asked[r], at |-> now] \in Answer
    BY <2>1 DEF Answer
  <2>3. None \notin Answer
    BY DirectoryConstants
  <2> QED BY <1>3, <2>2, <2>3 DEF Fetch, TypeOK, Time
<1>4. ASSUME NEW r \in Reqs, NotFound(r) \/ Respond(r) \/ Abort(r) PROVE TypeOK'
  BY <1>4, ReturnType DEF NotFound, Respond, Abort, TypeOK
<1>5. ASSUME NEW r \in Reqs, StoreFails(r) PROVE TypeOK'
  BY <1>5 DEF StoreFails, Answered, TypeOK
<1>6. ASSUME NEW r \in Reqs, Upsert(r) PROVE TypeOK'
  <2>1. /\ student[r] \in Students
        /\ asked[r] \in Details
        /\ answer[r] \in Answer
    BY <1>6 DEF Upsert, TypeOK
  <2>2. ASSUME NEW i \in Item \cup {None} PROVE Copied(i, answer[r]) \in Item
    BY <2>1 DEF Copied, Item, Answer
  <2>3. rows' \in [Students -> [Details -> Item \cup {None}]]
    BY <1>6, <2>1, <2>2 DEF Upsert, TypeOK
  <2> QED BY <1>6, <2>3, ReturnType DEF Upsert
<1>7. ASSUME NEW s \in Students, NEW d \in Details, RemoveFromShortlist(s, d) PROVE TypeOK'
  BY <1>7 DEF RemoveFromShortlist, locals, TypeOK
<1>8. ASSUME Recreate PROVE TypeOK'
  BY <1>8 DEF Recreate, TypeOK
<1>9. ASSUME Tick PROVE TypeOK'
  BY <1>9, DirectoryConstants DEF Tick, locals, TypeOK, Time
<1>10. CASE UNCHANGED vars
  BY <1>10 DEF vars, TypeOK
<1> QED
  BY <1>1, <1>2, <1>3, <1>4, <1>5, <1>6, <1>7, <1>8, <1>9, <1>10, StoreType
     DEF Next, FetchList, FetchDetails

(* Every variable keeps its type: a handler has an answer exactly when its *)
(* SELECT or the cache gave it one, and only the portal's question about a *)
(* university ends in a shortlist.                                         *)
THEOREM TypeCorrect == Spec => []TypeOK
<1>1. Init => TypeOK
  BY DirectoryConstants DEF Init, TypeOK, Time
<1> QED BY <1>1, TypeStep, PTL DEF Spec

(* A step that writes an item: how old its facts are, and whose its name. *)
CopiedFresh(s, d) ==
    rows'[s][d] \notin {rows[s][d], None} =>
       /\ now - rows'[s][d].facts <= TTL + 2 * Delay
       /\ rows[s][d] # None => rows'[s][d].name = rows[s][d].name

(* What add_to_shortlist copies was true no longer ago than the cache and  *)
(* the two delays allow, and the name first copied outlives later copies   *)
(* (shortlist_service.rs, ON CONFLICT DO UPDATE).                          *)
THEOREM CopiesAreFresh == Spec => [][\A s \in Students, d \in Details : CopiedFresh(s, d)]_vars
<1> DEFINE Fresh == \A s \in Students, d \in Details : CopiedFresh(s, d)
<1>1. TypeOK /\ ShelfLife /\ [Next]_vars => [Fresh]_vars
  <2> SUFFICES ASSUME TypeOK, ShelfLife, Next, NEW s \in Students, NEW d \in Details,
                      rows'[s][d] # rows[s][d], rows'[s][d] # None
               PROVE  CopiedFresh(s, d)
    BY DEF CopiedFresh
  <2>1. PICK r \in Reqs : Upsert(r)
    <3>1. rows' # rows
      OBVIOUS
    <3>2. ASSUME NEW t \in Students, NEW e \in Details, RemoveFromShortlist(t, e) PROVE FALSE
      BY <3>2 DEF RemoveFromShortlist, TypeOK
    <3> QED
      BY <3>1, <3>2 DEF Next, Hit, Expire, Miss, Forget, FetchList, FetchDetails, Fetch,
         NotFound, Store, StoreFails, Answered, Respond, Abort, Recreate, Tick
  <2>2. /\ pc[r] = "answered"
        /\ rows' = [rows EXCEPT ![student[r]][asked[r]] = Copied(rows[student[r]][asked[r]], answer[r])]
    BY <2>1 DEF Upsert
  <2>3. student[r] = s /\ asked[r] = d
    BY <2>2 DEF TypeOK
  <2>4. rows'[s][d] = Copied(rows[s][d], answer[r])
    BY <2>2, <2>3 DEF TypeOK
  <2>5. now - answer[r].at <= TTL + 2 * Delay
    BY <2>2 DEF ShelfLife
  <2> QED BY <2>4, <2>5 DEF Copied, CopiedFresh
<1> HIDE DEF Fresh
<1>2. Spec => [][Fresh]_vars
  BY <1>1, TypeCorrect, AnswersAreFresh, PTL DEF Spec
<1> QED BY <1>2 DEF Fresh
============================================================================
