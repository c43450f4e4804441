------------------------------ MODULE ChatHub ------------------------------
(***************************************************************************)
(* The chat WebSocket: ws/hub.rs and ws/handler.rs over                    *)
(* services/chat_service.rs.                                               *)
(*                                                                         *)
(* The hub keeps one sender per USER, in a map every handler writes.  A    *)
(* connection is a task whose select! loop serves one branch at a time and *)
(* never runs two branches at once; between two awaits other connections'  *)
(* tasks run.  A channel's sender lives in the hub and nowhere else, so    *)
(* overwriting or removing the entry closes the channel.                   *)
(***************************************************************************)
EXTENDS Integers, Sequences

CONSTANTS
    Students,
    Agents,
    Conns,      \* WebSocket connections; each is used once
    Owner,      \* the user each connection authenticates
    Contacts,   \* users in an active room with each user
    Rooms,      \* chat rooms
    Members,    \* the student and the agent of each room; one may be missing
    Msgs,       \* ids of chat messages
    Unknown,    \* an id that no message will ever have
    Deaf,       \* connections whose client may stop reading and stay connected
    MaxQueue,   \* bound on the events a channel holds when a client marks read
    None

Users == Students \cup Agents
Message == [by : Users, room : Rooms]
Named == [msg : Msgs \cup {Unknown}, room : Rooms]

ASSUME ChatConstants ==
    /\ Owner \in [Conns -> Users]
    /\ Contacts \in [Users -> SUBSET Users]
    /\ Members \in [Rooms -> SUBSET Users]
    /\ \A u \in Users : u \notin Contacts[u]
    /\ Unknown \notin Msgs
    /\ Deaf \subseteq Conns
    /\ None \notin Conns \cup Users \cup Msgs \cup {Unknown} \cup Rooms
    /\ None \notin Message \cup Named
    /\ MaxQueue \in Nat

(* ServerMessage.  `msg` and `room` are None in a presence event. *)
Event == [kind : {"new", "receipt", "online", "offline"}, msg : Msgs \cup {Unknown, None},
          room : Rooms \cup {None}, by : Users]

VARIABLES
    phase,   \* where each connection's task is
    hub,     \* user -> the connection whose sender is registered
    queue,   \* events in each connection's channel
    work,    \* the message and room a connection's task is handling
    silent,  \* connections not heard since the last heartbeat tick
    gone,    \* connections whose client has hung up or vanished
    saved,   \* chat_messages: id -> sender and room
    read,    \* chat_messages.is_read
    leads,   \* students whose status is 'lead'
    shown    \* history: confirmations each running connection's client has received

vars == <<phase, hub, queue, work, silent, gone, saved, read, leads, shown>>
store == <<saved, read, leads>>

Phases == {"new", "announce", "loop", "confirm", "relay", "receipt", "farewell", "done"}

TypeOK ==
    /\ phase \in [Conns -> Phases]
    /\ hub \in [Users -> Conns \cup {None}]
    /\ queue \in [Conns -> Seq(Event)]
    /\ work \in [Conns -> Named \cup {None}]
    /\ \A c \in Conns : work[c] # None <=> phase[c] \in {"confirm", "relay", "receipt"}
    /\ silent \subseteq Conns
    /\ gone \subseteq Conns
    /\ saved \in [Msgs -> Message \cup {None}]
    /\ read \subseteq Msgs
    /\ leads \subseteq Students
    /\ shown \in [Conns -> SUBSET Event]

Init ==
    /\ phase = [c \in Conns |-> "new"]
    /\ hub = [u \in Users |-> None]
    /\ queue = [c \in Conns |-> <<>>]
    /\ work = [c \in Conns |-> None]
    /\ silent = {}
    /\ gone = {}
    /\ saved = [m \in Msgs |-> None]
    /\ read = {}
    /\ leads = Students
    /\ shown = [c \in Conns |-> {}]

Running == {c \in Conns : phase[c] \in {"announce", "loop", "confirm", "relay", "receipt"}}

(* send_to_user for each user of a set: pushed when there is a sender. *)
SendTo(us, e) ==
    queue' = [c \in Conns |-> IF Owner[c] \in us /\ hub[Owner[c]] = c
                                 THEN Append(queue[c], e) ELSE queue[c]]

Enter(c, p) == phase' = [phase EXCEPT ![c] = p]

Presence(k, c) == [kind |-> k, msg |-> None, room |-> None, by |-> Owner[c]]

(* get_other_member_id: nobody, when the caller is no member of the room.  *)
Others(c, room) == IF Owner[c] \in Members[room] THEN Members[room] \ {Owner[c]} ELSE {}

----------------------------------------------------------------------------
(* The life of a connection. *)

(* ChatHub::register; an earlier connection of the user loses its sender.  *)
Connect(c) ==
    /\ phase[c] = "new"
    /\ hub' = [hub EXCEPT ![Owner[c]] = c]
    /\ Enter(c, "announce")
    /\ UNCHANGED <<queue, work, silent, gone, store, shown>>

(* The contacts are read and told, or the query fails and they are not.    *)
AnnounceOnline(c) ==
    /\ phase[c] = "announce"
    /\ \/ SendTo(Contacts[Owner[c]], Presence("online", c))
       \/ UNCHANGED queue
    /\ Enter(c, "loop")
    /\ UNCHANGED <<hub, work, silent, gone, store, shown>>

(* What a task has learnt of its client goes with it. *)
Forget(cs) ==
    /\ silent' = silent \ cs
    /\ gone' = gone \ cs
    /\ shown' = [c \in Conns |-> IF c \in cs THEN {} ELSE shown[c]]

(* Mutant of End: the entry stays. *)
EndKeepEntry(c) ==
    /\ Enter(c, "farewell")
    /\ queue' = [queue EXCEPT ![c] = <<>>]
    /\ Forget({c})
    /\ UNCHANGED <<hub, work, store>>

(* The loop breaks and ChatHub::deregister removes the user's entry,       *)
(* whichever connection it belongs to.                                     *)
End(c) ==
    /\ hub' = [hub EXCEPT ![Owner[c]] = None]
    /\ Enter(c, "farewell")
    /\ queue' = [queue EXCEPT ![c] = <<>>]
    /\ Forget({c})
    /\ UNCHANGED <<work, store>>

AnnounceOffline(c) ==
    /\ phase[c] = "farewell"
    /\ \/ SendTo(Contacts[Owner[c]], Presence("offline", c))
       \/ UNCHANGED queue
    /\ Enter(c, "done")
    /\ UNCHANGED <<hub, work, silent, gone, store, shown>>

(* The client closes, or its network goes away without a word. *)
Vanish(c) ==
    /\ c \in Running \ gone
    /\ gone' = gone \cup {c}
    /\ UNCHANGED <<phase, hub, queue, work, silent, store, shown>>

----------------------------------------------------------------------------
(* The branches of select!. *)

(* rx.recv() yields an event; a send to a client that is gone may fail.    *)
Deliver(c) ==
    /\ phase[c] = "loop"
    /\ queue[c] # <<>>
    /\ \/ /\ queue' = [queue EXCEPT ![c] = Tail(@)]
          /\ UNCHANGED <<phase, hub, work, silent, gone, store, shown>>
       \/ c \in gone /\ End(c)

(* Mutant of Drained: a closed channel is not looked at. *)
DrainedIgnored(c) ==
    /\ phase[c] = "loop"
    /\ queue[c] = <<>>
    /\ hub[Owner[c]] # c
    /\ UNCHANGED vars

(* rx.recv() yields None: the sender is gone and the channel is empty. *)
Drained(c) ==
    /\ phase[c] = "loop"
    /\ queue[c] = <<>>
    /\ hub[Owner[c]] # c
    /\ End(c)

(* socket.recv() yields None, an error or a Close frame. *)
Closed(c) ==
    /\ phase[c] = "loop"
    /\ c \in gone
    /\ End(c)

(* A frame that changes nothing but the heartbeat: Pong, Ping, Binary, a   *)
(* malformed text, a message whose INSERT fails.                           *)
Hear(c) ==
    /\ phase[c] = "loop"
    /\ c \notin gone
    /\ silent' = silent \ {c}
    /\ UNCHANGED <<phase, hub, queue, work, gone, store, shown>>

(* Mutant of Tick: pings, and no timeout. *)
TickNoTimeout(c) ==
    /\ phase[c] = "loop"
    /\ c \notin silent
    /\ silent' = silent \cup {c}
    /\ UNCHANGED <<phase, hub, queue, work, gone, store, shown>>

(* Every 30 s: more than 40 s of silence end the connection, which a whole *)
(* silent interval may or may not amount to (when it does not, this tick   *)
(* changes nothing).  The ping itself may fail.                            *)
Tick(c) ==
    /\ phase[c] = "loop"
    /\ \/ c \in silent \cup gone /\ End(c)
       \/ /\ c \notin silent
          /\ silent' = silent \cup {c}
          /\ UNCHANGED <<phase, hub, queue, work, gone, store, shown>>

Take(c, room, m, p) ==
    /\ work' = [work EXCEPT ![c] = [msg |-> m, room |-> room]]
    /\ Enter(c, p)

(* Mutant of SendMessage: the confirmation does not wait for the commit.   *)
SendUncommitted(c, room, m) ==
    /\ phase[c] = "loop" /\ c \notin gone
    /\ saved[m] = None
    /\ Take(c, room, m, "confirm")
    /\ silent' = silent \ {c}
    /\ UNCHANGED <<hub, queue, gone, store, shown>>

(* ClientMessage::SendMessage: create_message commits the message and, for *)
(* a student, the promotion.  Nobody asks whether the sender is a member.  *)
(* The answer of the commit may be lost; then an error is sent instead.    *)
SendMessage(c, room, m) ==
    /\ phase[c] = "loop" /\ c \notin gone
    /\ saved[m] = None
    /\ saved' = [saved EXCEPT ![m] = [by |-> Owner[c], room |-> room]]
    /\ leads' = leads \ {Owner[c]}
    /\ \/ Take(c, room, m, "confirm")
       \/ UNCHANGED <<phase, work>>
    /\ silent' = silent \ {c}
    /\ UNCHANGED <<hub, queue, gone, read, shown>>

About(k, c) == [kind |-> k, msg |-> work[c].msg, room |-> work[c].room, by |-> Owner[c]]

(* The confirmation goes to this socket, not through the hub, and whether  *)
(* it arrived is not looked at.                                            *)
Confirm(c) ==
    /\ phase[c] = "confirm"
    /\ shown' = [shown EXCEPT ![c] = IF c \in gone THEN @ ELSE @ \cup {About("new", c)}]
    /\ Enter(c, "relay")
    /\ UNCHANGED <<hub, queue, work, silent, gone, store>>

(* The other member is told, or get_chat_room fails. *)
Relay(c) ==
    /\ phase[c] = "relay"
    /\ SendTo(Others(c, work[c].room), About("new", c)) \/ UNCHANGED queue
    /\ work' = [work EXCEPT ![c] = None]
    /\ Enter(c, "loop")
    /\ UNCHANGED <<hub, silent, gone, store, shown>>

(* Mutant of MarkRead: the receipt does not wait for the UPDATE. *)
MarkUnwritten(c, room, m) ==
    /\ phase[c] = "loop" /\ c \notin gone
    /\ m # Unknown => saved[m] # None
    /\ \A d \in Conns : Owner[d] \in Others(c, room) => Len(queue[d]) < MaxQueue
    /\ Take(c, room, m, "receipt")
    /\ silent' = silent \ {c}
    /\ UNCHANGED <<hub, queue, gone, store, shown>>

(* UPDATE chat_messages .. WHERE id AND room_id AND sender_id != reader.   *)
Marked(c, room, m) ==
    {n \in Msgs \cap {m} : saved[n] # None /\ saved[n].room = room /\ saved[n].by # Owner[c]}

(* ClientMessage::MarkRead.  The client names a room and a message, which  *)
(* may be of another room, its own, or none; the UPDATE is Ok when it      *)
(* matches no row.  Bound: a client may mark messages read again and again.*)
MarkRead(c, room, m) ==
    /\ phase[c] = "loop" /\ c \notin gone
    /\ m # Unknown => saved[m] # None
    /\ \A d \in Conns : Owner[d] \in Others(c, room) => Len(queue[d]) < MaxQueue
    /\ read' = read \cup Marked(c, room, m)
    /\ \/ Take(c, room, m, "receipt")
       \/ UNCHANGED <<phase, work>>
    /\ silent' = silent \ {c}
    /\ UNCHANGED <<hub, queue, gone, saved, leads, shown>>

Receipt(c) ==
    /\ phase[c] = "receipt"
    /\ SendTo(Others(c, work[c].room), About("receipt", c)) \/ UNCHANGED queue
    /\ work' = [work EXCEPT ![c] = None]
    /\ Enter(c, "loop")
    /\ UNCHANGED <<hub, silent, gone, store, shown>>

(* The process dies: the hub and every task are memory, the tables are not.*)
Crash ==
    /\ Running # {}
    /\ hub' = [u \in Users |-> None]
    /\ phase' = [c \in Conns |-> IF phase[c] = "new" THEN "new" ELSE "done"]
    /\ queue' = [c \in Conns |-> <<>>]
    /\ work' = [c \in Conns |-> None]
    /\ Forget(Conns)
    /\ UNCHANGED store

(* What a branch does after its first await, and the two announcements. *)
Serve(c) ==
    \/ AnnounceOnline(c) \/ AnnounceOffline(c)
    \/ Confirm(c) \/ Relay(c) \/ Receipt(c)

Next ==
    \/ \E c \in Conns :
          \/ Connect(c) \/ Vanish(c)
          \/ Deliver(c) \/ Drained(c) \/ Closed(c) \/ Hear(c) \/ Tick(c)
          \/ \E room \in Rooms :
                \/ \E m \in Msgs : SendMessage(c, room, m)
                \/ \E m \in Msgs \cup {Unknown} : MarkRead(c, room, m)
          \/ Serve(c)
    \/ Crash

Spec == Init /\ [][Next]_vars

(* socket.send has no timeout: it ends when the client reads or, the       *)
(* client being gone, with an error of TCP.  A client that stays connected *)
(* and does not read holds up the task for as long as it likes.            *)
Reads(c) == c \notin Deaf \/ c \in gone

(* What a task does at its next poll, as long as its sends end. *)
Polled(c) ==
    \/ AnnounceOnline(c) \/ AnnounceOffline(c) \/ Relay(c) \/ Receipt(c)
    \/ Reads(c) /\ Confirm(c)

(* A task that can run is polled, and a query is answered or fails; select!*)
(* picks among the ready branches at random, so that one that is ready     *)
(* again and again runs; the interval goes on ticking.                     *)
Fairness ==
    \A c \in Conns :
       /\ WF_vars(Polled(c))
       /\ SF_vars(Reads(c) /\ (Deliver(c) \/ Drained(c)))
       /\ SF_vars(Reads(c) /\ Tick(c))

FairSpec == Spec /\ Fairness

----------------------------------------------------------------------------
(* Properties. *)

(* What a client has been sent or will be sent: what leaves the channel    *)
(* was in it.                                                              *)
Events(c) == shown[c] \cup {queue[c][i] : i \in DOMAIN queue[c]}

(* A NewMessage event, shown or on its way, is of a message the database   *)
(* has, by the sender and in the room it names: nobody sees what a failed  *)
(* or unfinished transaction would lose.                                   *)
ShownIsSaved ==
    \A c \in Conns : \A e \in Events(c) :
       e.kind = "new" => saved[e.msg] = [by |-> e.by, room |-> e.room]

(* A ReadReceipt passes between members of the room it names, and when it  *)
(* is of a message of that room by somebody else than the reader, the      *)
(* message is marked read.  (Of other ids the code relays receipts of an   *)
(* UPDATE that matched no row.)                                            *)
ReceiptIsTrue ==
    \A c \in Conns : \A e \in Events(c) :
       e.kind = "receipt" =>
          /\ {e.by, Owner[c]} \subseteq Members[e.room] /\ e.by # Owner[c]
          /\ \A m \in Msgs \cap {e.msg} :
                saved[m].room = e.room /\ saved[m].by # e.by => m \in read

(* The hub holds the sender of a running task of that very user: no entry  *)
(* outlives its connection, whatever order connections of one user end in. *)
EntryIsLive ==
    \A u \in Users : hub[u] # None => Owner[hub[u]] = u /\ hub[u] \in Running

(* A connection that has lost the hub comes to its end, so that no client  *)
(* that reads (or is gone) is left on a socket that shows nothing.         *)
DisplacedEnds ==
    \A c \in Conns : (c \in Running /\ hub[Owner[c]] # c /\ Reads(c)) ~> phase[c] = "done"

(* A client that vanished is out of the hub in the end.                    *)
GoneIsRemoved ==
    \A c \in Conns : c \in gone ~> hub[Owner[c]] # c
============================================================================
