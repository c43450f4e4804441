--------------------------- MODULE ChatHubProofs ---------------------------
(***************************************************************************)
(* Safety of the chat for any users, connections, rooms and messages.  The *)
(* hub never holds the sender of a task that has ended, and every event    *)
(* that is queued or confirmed says what the database says.  What makes    *)
(* the second inductive is WorkTrue: between the commit and the last send  *)
(* a task holds a message of which its events will be true.                *)
(***************************************************************************)
EXTENDS ChatHub, TLAPS

USE ChatConstants

(* The message has been saved under this sender, in this room. *)
Sent(m, room, u) ==
    m \in Msgs /\ room \in Rooms /\ saved[m] = [by |-> u, room |-> room]

(* If it is a message at all, this reader has marked it as far as the      *)
(* UPDATE would have it.                                                   *)
Noted(n, room, u) ==
    \A m \in Msgs \cap {n} :
       /\ saved[m] # None
       /\ saved[m].room = room /\ saved[m].by # u => m \in read

(* What an event in the channel of connection d says is so. *)
Truth(d, e) ==
    /\ e.kind = "new" => Sent(e.msg, e.room, e.by)
    /\ e.kind = "receipt" =>
          /\ {e.by, Owner[d]} \subseteq Members[e.room] /\ e.by # Owner[d]
          /\ Noted(e.msg, e.room, e.by)

EventsTrue == \A c \in Conns : \A e \in Events(c) : Truth(c, e)

WorkTrue ==
    \A c \in Conns :
       /\ phase[c] \in {"confirm", "relay"} => Sent(work[c].msg, work[c].room, Owner[c])
       /\ phase[c] = "receipt" => Noted(work[c].msg, work[c].room, Owner[c])

Inv == TypeOK /\ EntryIsLive /\ WorkTrue /\ EventsTrue

LEMMA InitInv == Init => Inv
<1> SUFFICES ASSUME Init PROVE Inv
  OBVIOUS
<1>1. TypeOK
  <2>1. <<>> \in Seq(Event)
    OBVIOUS
  <2> QED BY <2>1 DEF Init, TypeOK, Phases
<1>2. EntryIsLive /\ WorkTrue
  BY DEF Init, EntryIsLive, WorkTrue
<1>3. EventsTrue
  BY DEF Init, EventsTrue, Events
<1> QED BY <1>1, <1>2, <1>3 DEF Inv

----------------------------------------------------------------------------
(* What the operators the actions share do.                                *)

LEMMA SendToEffect ==
    ASSUME TypeOK, NEW us, NEW e \in Event, SendTo(us, e)
    PROVE  /\ queue' \in [Conns -> Seq(Event)]
           /\ \A d \in Conns :
                 \/ queue'[d] = queue[d]
                 \/ queue'[d] = Append(queue[d], e) /\ Owner[d] \in us
<1>1. \A d \in Conns : queue[d] \in Seq(Event) /\ Append(queue[d], e) \in Seq(Event)
  BY DEF TypeOK
<1> QED BY <1>1 DEF SendTo

LEMMA EndType == ASSUME TypeOK, NEW c \in Conns, phase[c] = "loop", End(c) PROVE TypeOK'
<1> <<>> \in Seq(Event)
  OBVIOUS
<1> QED BY DEF TypeOK, End, Enter, Forget, store, Phases

LEMMA AboutType ==
    ASSUME TypeOK, NEW c \in Conns, NEW k \in {"new", "receipt"},
           phase[c] \in {"confirm", "relay", "receipt"}
    PROVE  /\ work[c].msg \in Msgs \cup {Unknown} /\ work[c].room \in Rooms
           /\ About(k, c) \in Event
<1>1. work[c] \in Named
  BY DEF TypeOK
<1>2. work[c].msg \in Msgs \cup {Unknown} /\ work[c].room \in Rooms
  BY <1>1 DEF Named
<1> QED BY <1>2 DEF About, Event

LEMMA PresenceType ==
    ASSUME NEW c \in Conns, NEW k \in {"online", "offline"}
    PROVE  Presence(k, c) \in Event
BY DEF Presence, Event

LEMMA TypeStep == TypeOK /\ [Next]_vars => TypeOK'
<1> SUFFICES ASSUME TypeOK, [Next]_vars PROVE TypeOK'
  OBVIOUS
<1> USE DEF Enter, store, Phases
<1>1. CASE UNCHANGED vars
  BY <1>1 DEF TypeOK, vars
<1>2. ASSUME NEW c \in Conns, Connect(c) PROVE TypeOK'
  BY <1>2 DEF TypeOK, Connect
<1>3. ASSUME NEW c \in Conns, Vanish(c) PROVE TypeOK'
  BY <1>3 DEF TypeOK, Vanish
<1>4. ASSUME NEW c \in Conns, Deliver(c) PROVE TypeOK'
  <2>1. CASE c \in gone /\ End(c)
    BY <1>4, <2>1, EndType DEF Deliver
  <2>2. CASE /\ queue' = [queue EXCEPT ![c] = Tail(queue[c])]
             /\ UNCHANGED <<phase, hub, work, silent, gone, store, shown>>
    <3>1. Tail(queue[c]) \in Seq(Event)
      BY <1>4 DEF Deliver, TypeOK
    <3> QED BY <3>1, <2>2 DEF TypeOK
  <2> QED BY <1>4, <2>1, <2>2 DEF Deliver
<1>5. ASSUME NEW c \in Conns, Drained(c) \/ Closed(c) PROVE TypeOK'
  BY <1>5, EndType DEF Drained, Closed
<1>6. ASSUME NEW c \in Conns, Hear(c) PROVE TypeOK'
  BY <1>6 DEF TypeOK, Hear
<1>7. ASSUME NEW c \in Conns, Tick(c) PROVE TypeOK'
  <2>1. CASE End(c)
    BY <1>7, <2>1, EndType DEF Tick
  <2>2. CASE ~End(c)
    BY <1>7, <2>2 DEF TypeOK, Tick
  <2> QED BY <2>1, <2>2
<1>8. ASSUME NEW c \in Conns, NEW room \in Rooms, NEW m \in Msgs, SendMessage(c, room, m)
      PROVE  TypeOK'
  <2>1. [by |-> Owner[c], room |-> room] \in Message /\ [msg |-> m, room |-> room] \in Named
    BY DEF Message, Named
  <2>2. CASE Take(c, room, m, "confirm")
    BY <1>8, <2>1, <2>2 DEF TypeOK, SendMessage, Take
  <2>3. CASE UNCHANGED <<phase, work>>
    BY <1>8, <2>1, <2>3 DEF TypeOK, SendMessage
  <2> QED BY <1>8, <2>2, <2>3 DEF SendMessage
<1>9. ASSUME NEW c \in Conns, NEW room \in Rooms, NEW m \in Msgs \cup {Unknown},
             MarkRead(c, room, m)
      PROVE  TypeOK'
  <2>1. [msg |-> m, room |-> room] \in Named /\ Marked(c, room, m) \subseteq Msgs
    BY DEF Named, Marked
  <2>2. CASE Take(c, room, m, "receipt")
    BY <1>9, <2>1, <2>2 DEF TypeOK, MarkRead, Take
  <2>3. CASE UNCHANGED <<phase, work>>
    BY <1>9, <2>1, <2>3 DEF TypeOK, MarkRead
  <2> QED BY <1>9, <2>2, <2>3 DEF MarkRead
<1>10. ASSUME NEW c \in Conns, AnnounceOnline(c) \/ AnnounceOffline(c) PROVE TypeOK'
  <2>1. queue' \in [Conns -> Seq(Event)]
    BY <1>10, PresenceType, SendToEffect DEF AnnounceOnline, AnnounceOffline, TypeOK
  <2> QED BY <1>10, <2>1 DEF AnnounceOnline, AnnounceOffline, TypeOK
<1>11. ASSUME NEW c \in Conns, Confirm(c) PROVE TypeOK'
  <2>1. About("new", c) \in Event
    BY <1>11, AboutType DEF Confirm
  <2>2. shown' \in [Conns -> SUBSET Event]
    BY <1>11, <2>1 DEF Confirm, TypeOK
  <2> QED BY <1>11, <2>2 DEF Confirm, TypeOK
<1>12. ASSUME NEW c \in Conns, Relay(c) \/ Receipt(c) PROVE TypeOK'
  <2>1. \A k \in {"new", "receipt"} : About(k, c) \in Event
    BY <1>12, AboutType DEF Relay, Receipt
  <2>2. queue' \in [Conns -> Seq(Event)]
    <3>1. CASE UNCHANGED queue
      BY <3>1 DEF TypeOK
    <3>2. CASE SendTo(Others(c, work[c].room), About("new", c))
      BY <2>1, <3>2, SendToEffect
    <3>3. CASE SendTo(Others(c, work[c].room), About("receipt", c))
      BY <2>1, <3>3, SendToEffect
    <3> QED BY <1>12, <3>1, <3>2, <3>3 DEF Relay, Receipt
  <2>3. /\ phase' \in [Conns -> Phases] /\ phase' = [phase EXCEPT ![c] = "loop"]
        /\ work' = [work EXCEPT ![c] = None]
        /\ UNCHANGED <<hub, silent, gone, saved, read, leads, shown>>
    BY <1>12 DEF Relay, Receipt, TypeOK
  <2> QED BY <2>2, <2>3 DEF TypeOK
<1>13. CASE Crash
  <2> <<>> \in Seq(Event)
    OBVIOUS
  <2> QED BY <1>13 DEF Crash, Forget, TypeOK
<1> QED
  BY <1>1, <1>2, <1>3, <1>4, <1>5, <1>6, <1>7, <1>8, <1>9, <1>10, <1>11, <1>12, <1>13
     DEF Next, Serve

----------------------------------------------------------------------------
(* The hub.                                                                *)

LEMMA EndLive ==
    ASSUME TypeOK, EntryIsLive, NEW c \in Conns, phase[c] = "loop", End(c)
    PROVE  EntryIsLive'
<1> SUFFICES ASSUME NEW u \in Users, hub'[u] # None
             PROVE  Owner[hub'[u]] = u /\ hub'[u] \in Running'
  BY DEF EntryIsLive
<1>1. u # Owner[c] /\ hub'[u] = hub[u]
  BY DEF End, TypeOK
<1>2. Owner[hub[u]] = u /\ hub[u] \in Running
  BY <1>1 DEF EntryIsLive
<1>3. hub[u] # c
  BY <1>1, <1>2
<1>4. phase'[hub[u]] = phase[hub[u]]
  BY <1>2, <1>3 DEF End, Enter, TypeOK, Running
<1> QED BY <1>1, <1>2, <1>4 DEF Running

LEMMA LiveStep == TypeOK /\ EntryIsLive /\ [Next]_vars => EntryIsLive'
<1> SUFFICES ASSUME TypeOK, EntryIsLive, [Next]_vars PROVE EntryIsLive'
  OBVIOUS
<1>1. ASSUME hub' = hub, Running \subseteq Running' PROVE EntryIsLive'
  BY <1>1 DEF EntryIsLive
<1>2. ASSUME UNCHANGED <<phase, hub>> PROVE EntryIsLive'
  BY <1>1, <1>2 DEF Running
<1>3. CASE UNCHANGED vars
  BY <1>2, <1>3 DEF vars
<1>4. ASSUME NEW c \in Conns, Connect(c) PROVE EntryIsLive'
  <2>1. Running' = Running \cup {c}
    BY <1>4 DEF Connect, Enter, Running, TypeOK
  <2>2. \A u \in Users : hub'[u] = IF u = Owner[c] THEN c ELSE hub[u]
    BY <1>4 DEF Connect, TypeOK
  <2> QED BY <2>1, <2>2 DEF EntryIsLive
<1>5. ASSUME NEW c \in Conns, Vanish(c) \/ Hear(c) PROVE EntryIsLive'
  BY <1>2, <1>5 DEF Vanish, Hear
<1>6. ASSUME NEW c \in Conns, Deliver(c) \/ Drained(c) \/ Closed(c) \/ Tick(c) PROVE EntryIsLive'
  BY <1>2, <1>6, EndLive DEF Deliver, Drained, Closed, Tick
<1>7. ASSUME NEW c \in Conns, NEW room, NEW m, SendMessage(c, room, m) \/ MarkRead(c, room, m)
      PROVE  EntryIsLive'
  BY <1>1, <1>7 DEF SendMessage, MarkRead, Take, Enter, Running, TypeOK
<1>8. ASSUME NEW c \in Conns, Serve(c) PROVE EntryIsLive'
  BY <1>1, <1>8
     DEF Serve, AnnounceOnline, AnnounceOffline, Confirm, Relay, Receipt, Enter, Running, TypeOK
<1>9. CASE Crash
  BY <1>9 DEF Crash, EntryIsLive
<1> QED BY <1>3, <1>4, <1>5, <1>6, <1>7, <1>8, <1>9 DEF Next

----------------------------------------------------------------------------
(* What is true stays true: no row is lost or rewritten, nothing is unread.*)

LEMMA GrowStep ==
    ASSUME TypeOK, [Next]_vars
    PROVE  /\ \A m \in Msgs : saved[m] # None => saved'[m] = saved[m]
           /\ read \subseteq read'
<1> USE DEF store
<1>1. CASE UNCHANGED store
  BY <1>1
<1>2. ASSUME NEW c \in Conns, NEW room \in Rooms, NEW m \in Msgs, SendMessage(c, room, m)
      PROVE  /\ \A n \in Msgs : saved[n] # None => saved'[n] = saved[n]
             /\ read \subseteq read'
  BY <1>2 DEF SendMessage, TypeOK
<1>3. ASSUME NEW c \in Conns, NEW room, NEW m, MarkRead(c, room, m)
      PROVE  UNCHANGED saved /\ read \subseteq read'
  BY <1>3 DEF MarkRead
<1>4. ASSUME NEW c \in Conns,
             \/ Connect(c) \/ Vanish(c) \/ Deliver(c) \/ Drained(c) \/ Closed(c)
             \/ Hear(c) \/ Tick(c) \/ Serve(c)
      PROVE  UNCHANGED store
  BY <1>4 DEF Connect, Vanish, Deliver, Drained, Closed, Hear, Tick, End,
              Serve, AnnounceOnline, AnnounceOffline, Confirm, Relay, Receipt
<1>5. CASE Crash
  BY <1>1, <1>5 DEF Crash
<1>6. CASE UNCHANGED vars
  BY <1>1, <1>6 DEF vars
<1> QED BY <1>1, <1>2, <1>3, <1>4, <1>5, <1>6 DEF Next

LEMMA SentKept ==
    ASSUME TypeOK, [Next]_vars, NEW m, NEW room, NEW u \in Users, Sent(m, room, u)
    PROVE  Sent(m, room, u)'
<1>1. [by |-> u, room |-> room] \in Message
  BY DEF Message, Sent
<1> QED BY <1>1, GrowStep DEF Sent

LEMMA NotedKept ==
    ASSUME TypeOK, [Next]_vars, NEW n, NEW room, NEW u, Noted(n, room, u)
    PROVE  Noted(n, room, u)'
BY GrowStep DEF Noted

LEMMA TruthKept ==
    ASSUME TypeOK, [Next]_vars, NEW d \in Conns, NEW e \in Event, Truth(d, e)
    PROVE  Truth(d, e)'
<1>1. e.by \in Users
  BY DEF Event
<1>2. CASE e.kind = "new"
  BY <1>1, <1>2, SentKept DEF Truth
<1>3. CASE e.kind # "new"
  BY <1>3, NotedKept DEF Truth
<1> QED BY <1>2, <1>3

----------------------------------------------------------------------------
(* Every event a step queues or confirms was there before, or is true of   *)
(* the tables and of those it is sent to.                                  *)

LEMMA AppendElements ==
    ASSUME NEW s \in Seq(Event), NEW e \in Event
    PROVE  \A i \in DOMAIN Append(s, e) :
              Append(s, e)[i] = e \/ \E j \in DOMAIN s : Append(s, e)[i] = s[j]
OBVIOUS

LEMMA SendToEvents ==
    ASSUME TypeOK, NEW us, NEW e \in Event, SendTo(us, e) \/ UNCHANGED queue, UNCHANGED shown
    PROVE  \A d \in Conns : \A x \in Events(d)' : x \in Events(d) \/ (x = e /\ Owner[d] \in us)
<1> SUFFICES ASSUME NEW d \in Conns, NEW x \in Events(d)'
             PROVE  x \in Events(d) \/ (x = e /\ Owner[d] \in us)
  OBVIOUS
<1>1. CASE x \in shown'[d]
  BY <1>1 DEF Events
<1>2. CASE \E i \in DOMAIN queue'[d] : x = queue'[d][i]
  <2>1. queue[d] \in Seq(Event)
    BY DEF TypeOK
  <2>2. CASE queue'[d] = queue[d]
    BY <1>2, <2>2 DEF Events
  <2>3. CASE queue'[d] = Append(queue[d], e) /\ Owner[d] \in us
    <3>1. PICK i \in DOMAIN Append(queue[d], e) : x = Append(queue[d], e)[i]
      BY <1>2, <2>3
    <3>2. x = e \/ \E j \in DOMAIN queue[d] : x = queue[d][j]
      BY <2>1, <3>1, AppendElements
    <3> QED BY <2>3, <3>2 DEF Events
  <2> QED BY <2>2, <2>3, SendToEffect
<1> QED BY <1>1, <1>2 DEF Events

LEMMA EndEvents ==
    ASSUME TypeOK, NEW c \in Conns, End(c)
    PROVE  \A d \in Conns : Events(d)' \subseteq Events(d)
<1> SUFFICES ASSUME NEW d \in Conns PROVE Events(d)' \subseteq Events(d)
  OBVIOUS
<1>1. shown'[d] \subseteq shown[d]
  BY DEF End, Forget
<1>2. queue'[d] = queue[d] \/ queue'[d] = <<>>
  BY DEF End, TypeOK
<1> QED BY <1>1, <1>2 DEF Events

LEMMA DeliverEvents ==
    ASSUME TypeOK, NEW c \in Conns, Deliver(c)
    PROVE  \A d \in Conns : Events(d)' \subseteq Events(d)
<1>1. CASE End(c)
  BY <1>1, EndEvents
<1>2. CASE queue' = [queue EXCEPT ![c] = Tail(queue[c])] /\ UNCHANGED shown
  <2>1. queue[c] \in Seq(Event) /\ queue[c] # <<>>
    BY DEF Deliver, TypeOK
  <2>2. \A i \in DOMAIN Tail(queue[c]) :
           i + 1 \in DOMAIN queue[c] /\ Tail(queue[c])[i] = queue[c][i + 1]
    BY <2>1
  <2>3. ASSUME NEW d \in Conns, d # c PROVE Events(d)' \subseteq Events(d)
    BY <1>2, <2>3 DEF Events, TypeOK
  <2>4. Events(c)' \subseteq Events(c)
    <3>1. queue'[c] = Tail(queue[c])
      BY <1>2 DEF TypeOK
    <3> QED BY <1>2, <2>2, <3>1 DEF Events
  <2> QED BY <2>3, <2>4
<1> QED BY <1>1, <1>2 DEF Deliver

LEMMA ConfirmEvents ==
    ASSUME TypeOK, NEW c \in Conns, Confirm(c)
    PROVE  \A d \in Conns : \A x \in Events(d)' : x \in Events(d) \/ x = About("new", c)
<1>1. UNCHANGED queue /\ \A d \in Conns : shown'[d] \subseteq shown[d] \cup {About("new", c)}
  BY DEF Confirm, TypeOK
<1> QED BY <1>1 DEF Events

LEMMA EventStep == Inv /\ [Next]_vars => EventsTrue'
<1> SUFFICES ASSUME Inv, [Next]_vars PROVE EventsTrue'
  OBVIOUS
<1> USE DEF Inv
<1>1. ASSUME NEW e \in Event,
             \A d \in Conns : \A x \in Events(d)' : x \in Events(d) \/ (x = e /\ Truth(d, e))
      PROVE  EventsTrue'
  <2>1. ASSUME NEW d \in Conns, NEW x \in Events(d)' PROVE Truth(d, x)'
    <3>1. Events(d) \subseteq Event
      BY DEF Events, TypeOK
    <3>2. x \in Event /\ Truth(d, x)
      BY <1>1, <2>1, <3>1 DEF EventsTrue
    <3> QED BY <3>2, TruthKept
  <2> QED BY <2>1 DEF EventsTrue
<1>2. ASSUME \A d \in Conns : Events(d)' \subseteq Events(d) PROVE EventsTrue'
  <2>1. ASSUME NEW d \in Conns, NEW x \in Events(d)' PROVE Truth(d, x)'
    <3>1. x \in Event /\ Truth(d, x)
      BY <1>2, <2>1 DEF Events, TypeOK, EventsTrue
    <3> QED BY <3>1, TruthKept
  <2> QED BY <2>1 DEF EventsTrue
<1>3. ASSUME UNCHANGED <<queue, shown>> PROVE EventsTrue'
  BY <1>2, <1>3 DEF Events
<1>4. CASE UNCHANGED vars
  BY <1>3, <1>4 DEF vars
<1>5. ASSUME NEW c \in Conns, Connect(c) \/ Vanish(c) \/ Hear(c) PROVE EventsTrue'
  BY <1>3, <1>5 DEF Connect, Vanish, Hear, store
<1>6. ASSUME NEW c \in Conns, NEW room, NEW m, SendMessage(c, room, m) \/ MarkRead(c, room, m)
      PROVE  EventsTrue'
  BY <1>3, <1>6 DEF SendMessage, MarkRead
<1>7. ASSUME NEW c \in Conns, Drained(c) \/ Closed(c) \/ Tick(c) PROVE EventsTrue'
  BY <1>2, <1>3, <1>7, EndEvents DEF Drained, Closed, Tick
<1>8. ASSUME NEW c \in Conns, Deliver(c) PROVE EventsTrue'
  BY <1>2, <1>8, DeliverEvents
<1>9. ASSUME NEW c \in Conns, AnnounceOnline(c) \/ AnnounceOffline(c) PROVE EventsTrue'
  <2>1. PICK k \in {"online", "offline"} :
           SendTo(Contacts[Owner[c]], Presence(k, c)) \/ UNCHANGED queue
    BY <1>9 DEF AnnounceOnline, AnnounceOffline
  <2>2. UNCHANGED shown
    BY <1>9 DEF AnnounceOnline, AnnounceOffline
  <2>3. Presence(k, c) \in Event /\ \A d \in Conns : Truth(d, Presence(k, c))
    BY PresenceType DEF Presence, Truth
  <2>4. \A d \in Conns : \A x \in Events(d)' : x \in Events(d) \/ x = Presence(k, c)
    BY <2>1, <2>2, <2>3, SendToEvents
  <2> QED BY <1>1, <2>3, <2>4
<1>10. ASSUME NEW c \in Conns, Confirm(c) PROVE EventsTrue'
  <2>1. phase[c] = "confirm"
    BY <1>10 DEF Confirm
  <2>2. About("new", c) \in Event
    BY <2>1, AboutType
  <2>3. \A d \in Conns : Truth(d, About("new", c))
    BY <2>1 DEF Truth, About, WorkTrue
  <2> QED BY <1>1, <1>10, <2>2, <2>3, ConfirmEvents
<1>11. ASSUME NEW c \in Conns, Relay(c) PROVE EventsTrue'
  <2>1. /\ phase[c] = "relay"
        /\ SendTo(Others(c, work[c].room), About("new", c)) \/ UNCHANGED queue
        /\ UNCHANGED shown
    BY <1>11 DEF Relay
  <2>2. About("new", c) \in Event
    BY <2>1, AboutType
  <2>3. \A d \in Conns : Truth(d, About("new", c))
    BY <2>1 DEF Truth, About, WorkTrue
  <2>4. \A d \in Conns : \A x \in Events(d)' : x \in Events(d) \/ x = About("new", c)
    BY <2>1, <2>2, SendToEvents
  <2> QED BY <1>1, <2>2, <2>3, <2>4
<1>12. ASSUME NEW c \in Conns, Receipt(c) PROVE EventsTrue'
  <2> DEFINE us == Others(c, work[c].room)
  <2>1. /\ phase[c] = "receipt"
        /\ SendTo(us, About("receipt", c)) \/ UNCHANGED queue
        /\ UNCHANGED shown
    BY <1>12 DEF Receipt
  <2>2. About("receipt", c) \in Event /\ work[c].room \in Rooms
    BY <2>1, AboutType
  <2>3. ASSUME NEW d \in Conns, Owner[d] \in us PROVE Truth(d, About("receipt", c))
    <3>1. {Owner[c], Owner[d]} \subseteq Members[work[c].room] /\ Owner[c] # Owner[d]
      BY <2>3 DEF Others
    <3>2. Noted(work[c].msg, work[c].room, Owner[c])
      BY <2>1 DEF WorkTrue
    <3> QED BY <3>1, <3>2 DEF Truth, About
  <2> HIDE DEF us
  <2>4. \A d \in Conns : \A x \in Events(d)' :
           x \in Events(d) \/ (x = About("receipt", c) /\ Owner[d] \in us)
    BY <2>1, <2>2, SendToEvents
  <2> QED BY <1>1, <2>2, <2>3, <2>4
<1>13. CASE Crash
  BY <1>2, <1>13 DEF Crash, Forget, Events
<1> QED
  BY <1>4, <1>5, <1>6, <1>7, <1>8, <1>9, <1>10, <1>11, <1>12, <1>13 DEF Next, Serve


----------------------------------------------------------------------------
(* The message in hand.                                                    *)

LEMMA WorkStep ==
    TypeOK /\ WorkTrue /\ [Next]_vars => WorkTrue'
<1> SUFFICES ASSUME TypeOK, WorkTrue, [Next]_vars PROVE WorkTrue'
  OBVIOUS
<1> DEFINE True(d) ==
       /\ phase[d] \in {"confirm", "relay"} => Sent(work[d].msg, work[d].room, Owner[d])
       /\ phase[d] = "receipt" => Noted(work[d].msg, work[d].room, Owner[d])
<1>1. ASSUME NEW d \in Conns,
             UNCHANGED <<phase[d], work[d]>> \/ phase'[d] \notin {"confirm", "relay", "receipt"}
      PROVE  True(d)'
  <2>1. True(d) /\ Owner[d] \in Users
    BY DEF WorkTrue
  <2> QED BY <1>1, <2>1, SentKept, NotedKept
<1>2. ASSUME UNCHANGED <<phase, work>> PROVE WorkTrue'
  BY <1>1, <1>2 DEF WorkTrue
<1>3. ASSUME NEW c \in Conns, NEW p \in Phases, Enter(c, p),
             \A d \in Conns \ {c} : work'[d] = work[d], True(c)'
      PROVE  WorkTrue'
  <2>1. \A d \in Conns \ {c} : phase'[d] = phase[d]
    BY <1>3 DEF Enter, TypeOK
  <2> QED BY <1>1, <1>3, <2>1 DEF WorkTrue
<1>4. ASSUME NEW c \in Conns, Enter(c, "announce") \/ Enter(c, "loop")
                              \/ Enter(c, "farewell") \/ Enter(c, "done"),
             \A d \in Conns \ {c} : work'[d] = work[d]
      PROVE  WorkTrue'
  <2>1. phase'[c] \notin {"confirm", "relay", "receipt"}
    BY <1>4 DEF Enter, TypeOK
  <2> QED BY <1>1, <1>3, <1>4, <2>1 DEF Phases
<1>5. CASE UNCHANGED vars
  BY <1>2, <1>5 DEF vars
<1>6. ASSUME NEW c \in Conns, End(c) PROVE WorkTrue'
  BY <1>4, <1>6 DEF End
<1>7. ASSUME NEW c \in Conns, Vanish(c) \/ Hear(c) PROVE WorkTrue'
  BY <1>2, <1>7 DEF Vanish, Hear
<1>8. ASSUME NEW c \in Conns, Deliver(c) \/ Drained(c) \/ Closed(c) \/ Tick(c) PROVE WorkTrue'
  BY <1>2, <1>6, <1>8 DEF Deliver, Drained, Closed, Tick
<1>9. ASSUME NEW c \in Conns,
             Connect(c) \/ AnnounceOnline(c) \/ AnnounceOffline(c) \/ Relay(c) \/ Receipt(c)
      PROVE  WorkTrue'
  <2>1. \A d \in Conns \ {c} : work'[d] = work[d]
    BY <1>9 DEF Connect, AnnounceOnline, AnnounceOffline, Relay, Receipt, TypeOK
  <2> QED BY <1>4, <1>9, <2>1 DEF Connect, AnnounceOnline, AnnounceOffline, Relay, Receipt
<1>10. ASSUME NEW c \in Conns, Confirm(c) PROVE WorkTrue'
  <2>1. phase[c] = "confirm" /\ Enter(c, "relay") /\ UNCHANGED <<work, saved>>
    BY <1>10 DEF Confirm, store
  <2>2. Sent(work[c].msg, work[c].room, Owner[c])
    BY <2>1 DEF WorkTrue
  <2>3. True(c)'
    BY <2>1, <2>2 DEF Enter, TypeOK, Sent
  <2> QED BY <1>3, <2>1, <2>3 DEF Phases
<1>11. ASSUME NEW c \in Conns, NEW room, NEW m, NEW p \in {"confirm", "receipt"},
              Take(c, room, m, p),
              p = "confirm" => Sent(m, room, Owner[c])', p = "receipt" => Noted(m, room, Owner[c])'
       PROVE  WorkTrue'
  <2>1. /\ phase'[c] = p /\ work'[c] = [msg |-> m, room |-> room]
        /\ \A d \in Conns \ {c} : work'[d] = work[d]
    BY <1>11 DEF Take, Enter, TypeOK
  <2>2. True(c)'
    BY <1>11, <2>1
  <2> QED BY <1>3, <1>11, <2>1, <2>2 DEF Take, Phases
<1>12. ASSUME NEW c \in Conns, NEW room \in Rooms, NEW m \in Msgs, SendMessage(c, room, m)
       PROVE  WorkTrue'
  <2>1. Sent(m, room, Owner[c])'
    BY <1>12 DEF SendMessage, Sent, TypeOK
  <2> QED BY <1>2, <1>11, <1>12, <2>1 DEF SendMessage
<1>13. ASSUME NEW c \in Conns, NEW room \in Rooms, NEW m \in Msgs \cup {Unknown},
              MarkRead(c, room, m)
       PROVE  WorkTrue'
  <2>1. Noted(m, room, Owner[c])'
    BY <1>13 DEF MarkRead, Marked, Noted
  <2> QED BY <1>2, <1>11, <1>13, <2>1 DEF MarkRead
<1>14. CASE Crash
  BY <1>14 DEF Crash, WorkTrue
<1> QED
  BY <1>5, <1>7, <1>8, <1>9, <1>10, <1>12, <1>13, <1>14 DEF Next, Serve

LEMMA Invariance == Spec => []Inv
<1>1. Inv /\ [Next]_vars => Inv'
  BY TypeStep, LiveStep, WorkStep, EventStep DEF Inv
<1> QED BY InitInv, <1>1, PTL DEF Spec

----------------------------------------------------------------------------

(* Every variable keeps its type, and a task holds a message between the   *)
(* commit of its branch of select! and the last send of it, and only then. *)
THEOREM TypeCorrect == Spec => []TypeOK
<1>1. Inv => TypeOK
  BY DEF Inv
<1> QED BY <1>1, Invariance, PTL

(* Whatever order the connections of one user open, end and crash in, the  *)
(* hub (ws/hub.rs) holds only senders of running tasks of that very user.  *)
THEOREM EntriesAreLive == Spec => []EntryIsLive
<1>1. Inv => EntryIsLive
  BY DEF Inv
<1> QED BY <1>1, Invariance, PTL

(* No client is sent, and no channel carries, a NewMessage event that      *)
(* create_message has not committed under the sender and the room it names.*)
THEOREM MessagesAreSaved == Spec => []ShownIsSaved
<1>1. Inv => ShownIsSaved
  BY DEF Inv, EventsTrue, Truth, Sent, ShownIsSaved
<1> QED BY <1>1, Invariance, PTL

(* Every ReadReceipt in a channel is from the other member of the room it  *)
(* names, and a message of that room by somebody else than the reader has  *)
(* been marked; of an UPDATE that matched no row nothing more is promised  *)
(* (ws/handler.rs sends that receipt, too).                                *)
THEOREM ReceiptsAreTrue == Spec => []ReceiptIsTrue
<1>1. Inv => ReceiptIsTrue
  BY DEF Inv, EventsTrue, Truth, Noted, ReceiptIsTrue
<1> QED BY <1>1, Invariance, PTL

----------------------------------------------------------------------------
(* What the ends of connections rest on.  That they come in the end needs  *)
(* fairness; that nothing undoes what has been reached of them does not.   *)

(* A step does not bring a displaced task nearer to the hub, or its queue  *)
(* farther from empty; nor a vanished client back to be heard.             *)
DisplacedFades(c) ==
    c \in Running /\ hub[Owner[c]] # c =>
       /\ hub'[Owner[c]] # c
       /\ Len(queue'[c]) <= Len(queue[c])

GoneFades(c) ==
    c \in gone /\ hub[Owner[c]] = c =>
       \/ hub'[Owner[c]] # c
       \/ c \in gone' /\ (c \in silent => c \in silent')

(* A task whose channel has no sender gets none again. *)
LEMMA HubStep ==
    ASSUME TypeOK, [Next]_vars, NEW c \in Running, hub[Owner[c]] # c
    PROVE  hub'[Owner[c]] # c
<1>1. ASSUME NEW d \in Conns, Connect(d) PROVE hub'[Owner[c]] # c
  <2>1. d # c
    BY <1>1 DEF Connect, Running
  <2> QED BY <1>1, <2>1 DEF Connect, TypeOK
<1>2. ASSUME NEW d \in Conns, End(d) PROVE hub'[Owner[c]] # c
  BY <1>2 DEF End, TypeOK, Running
<1>3. CASE UNCHANGED hub
  BY <1>3
<1>4. CASE Crash
  BY <1>4 DEF Crash, Running
<1> QED
  BY <1>1, <1>2, <1>3, <1>4
     DEF Next, vars, Vanish, Deliver, Drained, Closed, Hear, Tick, SendMessage, MarkRead,
         Serve, AnnounceOnline, AnnounceOffline, Confirm, Relay, Receipt

(* send_to_user reaches the registered sender only. *)
LEMMA QueueStep ==
    ASSUME TypeOK, [Next]_vars, NEW c \in Conns, hub[Owner[c]] # c
    PROVE  Len(queue'[c]) <= Len(queue[c])
<1>1. queue[c] \in Seq(Event)
  BY DEF TypeOK
<1>2. Len(queue[c]) \in Nat /\ Len(<<>>) = 0
  BY <1>1
<1>3. ASSUME NEW us, NEW e, SendTo(us, e) PROVE queue'[c] = queue[c]
  BY <1>3 DEF SendTo
<1>4. ASSUME NEW d \in Conns, End(d) PROVE queue'[c] \in {queue[c], <<>>}
  BY <1>4 DEF End, TypeOK
<1>5. ASSUME NEW d \in Conns, queue[d] # <<>>, queue' = [queue EXCEPT ![d] = Tail(queue[d])]
      PROVE  Len(queue'[c]) <= Len(queue[c])
  <2>1. CASE d = c
    <3>1. Len(Tail(queue[c])) = Len(queue[c]) - 1
      BY <1>1, <1>5, <2>1
    <3> QED BY <1>2, <1>5, <2>1, <3>1 DEF TypeOK
  <2>2. CASE d # c
    BY <1>2, <1>5, <2>2 DEF TypeOK
  <2> QED BY <2>1, <2>2
<1>6. CASE UNCHANGED queue
  BY <1>2, <1>6
<1>7. ASSUME NEW d \in Conns, Deliver(d) PROVE Len(queue'[c]) <= Len(queue[c])
  BY <1>2, <1>4, <1>5, <1>7 DEF Deliver
<1>8. ASSUME NEW d \in Conns, Drained(d) \/ Closed(d) \/ Tick(d)
      PROVE  Len(queue'[c]) <= Len(queue[c])
  BY <1>2, <1>4, <1>6, <1>8 DEF Drained, Closed, Tick
<1>9. ASSUME NEW d \in Conns, Serve(d) PROVE Len(queue'[c]) <= Len(queue[c])
  BY <1>2, <1>3, <1>6, <1>9
     DEF Serve, AnnounceOnline, AnnounceOffline, Confirm, Relay, Receipt
<1>10. CASE Crash
  BY <1>2, <1>10 DEF Crash
<1> QED
  BY <1>6, <1>7, <1>8, <1>9, <1>10
     DEF Next, vars, Connect, Vanish, Hear, SendMessage, MarkRead

(* A task that has lost the hub never gets it back, and nothing is added   *)
(* to its channel (ws/hub.rs): each event it sends brings it closer to the *)
(* None that ends its loop.                                                *)
THEOREM DisplacedTasksFade == Spec => [][\A c \in Conns : DisplacedFades(c)]_vars
<1> DEFINE Fade == \A c \in Conns : DisplacedFades(c)
<1>1. TypeOK /\ [Next]_vars => [Fade]_vars
  BY HubStep, QueueStep DEF DisplacedFades, Running
<1> HIDE DEF Fade
<1>2. Spec => [][Fade]_vars
  BY <1>1, TypeCorrect, PTL DEF Spec
<1> QED BY <1>2 DEF Fade

(* A client that has vanished is not heard again (ws/handler.rs): a tick   *)
(* that has marked its silence is followed by one that ends the task, and  *)
(* no frame comes between them.                                            *)
THEOREM VanishedClientsFade == Spec => [][\A c \in Conns : GoneFades(c)]_vars
<1> DEFINE Fade == \A c \in Conns : GoneFades(c)
<1>1. TypeOK /\ [Next]_vars => [Fade]_vars
  <2> SUFFICES ASSUME TypeOK, Next, NEW c \in Conns, c \in gone, hub[Owner[c]] = c, hub'[Owner[c]] = c
               PROVE  c \in gone' /\ (c \in silent => c \in silent')
    BY DEF GoneFades
  <2>1. ASSUME NEW d \in Conns, End(d) PROVE c \in gone' /\ (c \in silent => c \in silent')
    <3>1. d # c
      BY <2>1 DEF End, TypeOK
    <3> QED BY <2>1, <3>1 DEF End, Forget
  <2>2. CASE UNCHANGED <<gone, silent>>
    BY <2>2
  <2>3. ASSUME NEW d \in Conns,
             \/ Vanish(d) \/ Hear(d)
             \/ \E room, m : SendMessage(d, room, m) \/ MarkRead(d, room, m)
        PROVE  c \in gone' /\ (c \in silent => c \in silent')
    BY <2>3 DEF Vanish, Hear, SendMessage, MarkRead
  <2>4. ASSUME NEW d \in Conns, Deliver(d) \/ Drained(d) \/ Closed(d) \/ Tick(d)
        PROVE  c \in gone' /\ (c \in silent => c \in silent')
    BY <2>1, <2>4 DEF Deliver, Drained, Closed, Tick
  <2>5. ~Crash
    BY DEF Crash
  <2> QED
    BY <2>2, <2>3, <2>4, <2>5
       DEF Next, Connect, Serve, AnnounceOnline, AnnounceOffline, Confirm, Relay, Receipt
<1> HIDE DEF Fade
<1>2. Spec => [][Fade]_vars
  BY <1>1, TypeCorrect, PTL DEF Spec
<1> QED BY <1>2 DEF Fade
=============================================================================
