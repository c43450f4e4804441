--------------------------- MODULE PortalRecords ---------------------------
(***************************************************************************)
(* Tables that a handler looks into and then writes, with no transaction   *)
(* around the two: lists filled on first use (visa_service.rs, and the     *)
(* pipeline stages at start-up), consultation slots (students.rs), the     *)
(* progress of an application in one stage (application_service.rs), the   *)
(* chat room of a pair and the time of its last message (chat_service.rs). *)
(* Only the lists have a UNIQUE constraint.  Any two statements may have   *)
(* other handlers' in between, and a handler may end before any of them    *)
(* (Abort).                                                                *)
(***************************************************************************)
EXTENDS Integers, FiniteSets

CONSTANTS
    Reqs,      \* handlers that can be running at once
    Size,      \* length of a list (six in the code)
    Capacity,  \* bookings a slot takes (two in the code)
    Rows,      \* primary keys of student_stage_progress
    MaxRooms,  \* bound on the rows of one slot and of one pair
    MaxTime,   \* bound on the clock
    None

Lists == {"visa", "stages"}
Index == 0 .. Size - 1
(* "not_started" stands for every status but "completed". *)
Status == {"not_started", "completed"}
Progress == [status : Status, completed_at : (1 .. MaxTime) \cup {None}]

ASSUME PortalConstants ==
    /\ {Size, Capacity} \subseteq Nat \ {0}
    /\ {MaxTime, MaxRooms} \subseteq Nat
    /\ None \notin Rows \cup Progress \cup Index \cup Lists \cup (1 .. MaxTime)

VARIABLES
    list,     \* student_visa_steps of a student, and pipeline_stages
    booked,   \* rows of consultations for one slot
    progress, \* student_stage_progress of one application and stage
    rooms,    \* rows of chat_rooms for one pair
    changed,  \* visa steps whose row a student or an agent has written
    newest,   \* the latest created_at of the room's messages, 0 for none
    marked,   \* last_message_at of the room
    pc,       \* where each handler is
    filling,  \* the list a handler fills
    next,     \* and the entry it inserts next
    found,    \* the progress row its SELECT returned
    new,      \* what it will write there
    stamp,    \* NOW() of a handler's transaction, 0 when it has none
    now,      \* the clock
    torn,     \* history: lists whose filling was broken off
    raced,    \* history: tables that two handlers checked before either wrote
    stale     \* history: handlers whose found row has been written since

room == <<rooms, newest, marked>>
vars == <<list, changed, booked, progress, room, pc, filling, next, found, new, stamp, now,
          torn, raced, stale>>
tables == <<list, changed, booked, progress, room>>

TypeOK ==
    /\ list \in [Lists -> SUBSET Index]
    /\ booked \in 0 .. MaxRooms
    /\ progress \in [Rows -> Progress \cup {None}]
    /\ rooms \in 0 .. MaxRooms
    /\ changed \subseteq list["visa"]
    /\ newest \in 0 .. now /\ marked \in 0 .. newest
    /\ pc \in [Reqs -> {"idle", "fill", "book", "stage", "room", "message"}]
    /\ filling \in [Reqs -> Lists \cup {None}]
    /\ next \in [Reqs -> Index]
    /\ found \in [Reqs -> Rows \cup {None}]
    /\ new \in [Reqs -> Progress \cup {None}]
    /\ stamp \in [Reqs -> 0 .. now]
    /\ \A r \in Reqs : (pc[r] = "stage") = (new[r] # None) /\ (pc[r] = "fill") = (filling[r] # None)
    /\ \A i \in Rows : progress[i] # None =>
          (progress[i].status = "completed") = (progress[i].completed_at # None)
    /\ now \in 0 .. MaxTime
    /\ torn \subseteq Lists
    /\ raced \subseteq {"book", "stage", "room", "message"}
    /\ stale \subseteq Reqs

(* create_application writes a row for each stage there is at the time. *)
Fresh == [status |-> "not_started", completed_at |-> None]

Init ==
    /\ list = [l \in Lists |-> {}]
    /\ booked = 0
    /\ progress \in {[i \in Rows |-> None]} \cup {[[i \in Rows |-> None] EXCEPT ![j] = Fresh] : j \in Rows}
    /\ rooms = 0
    /\ changed = {}
    /\ newest = 0 /\ marked = 0
    /\ pc = [r \in Reqs |-> "idle"]
    /\ filling = [r \in Reqs |-> None]
    /\ next = [r \in Reqs |-> 0]
    /\ found = [r \in Reqs |-> None]
    /\ new = [r \in Reqs |-> None]
    /\ stamp = [r \in Reqs |-> 0]
    /\ now = 0
    /\ torn = {}
    /\ raced = {}
    /\ stale = {}

Present == {i \in Rows : progress[i] # None}

Return(r) ==
    /\ pc' = [pc EXCEPT ![r] = "idle"]
    /\ filling' = [filling EXCEPT ![r] = None]
    /\ next' = [next EXCEPT ![r] = 0]
    /\ found' = [found EXCEPT ![r] = None]
    /\ new' = [new EXCEPT ![r] = None]
    /\ stamp' = [stamp EXCEPT ![r] = 0]
    /\ stale' = stale \ {r}

(* A handler has checked a table and goes on to write it. *)
Checked(r, p) ==
    /\ pc[r] = "idle"
    /\ pc' = [pc EXCEPT ![r] = p]
    /\ raced' = IF \E q \in Reqs : pc[q] = p THEN raced \cup {p} ELSE raced

----------------------------------------------------------------------------
(* get_or_init_visa_steps and seed_initial_data. *)

(* The SELECT finds no entry; a list with any entry is left as it is.  The *)
(* stages are filled by the one starting process.                          *)
FillBegin(r, l) ==
    /\ pc[r] = "idle"
    /\ list[l] = {}
    /\ l = "stages" => \A q \in Reqs : filling[q] # l
    /\ pc' = [pc EXCEPT ![r] = "fill"]
    /\ filling' = [filling EXCEPT ![r] = l]
    /\ UNCHANGED <<tables, next, found, new, stamp, now, torn, raced, stale>>

(* An INSERT of the entry as it is by default. *)
Default(r) ==
    /\ list' = [list EXCEPT ![filling[r]] = @ \cup {next[r]}]
    /\ changed' = IF filling[r] = "visa" THEN changed \ {next[r]} ELSE changed

(* Mutants of FillInsert: a list that is being filled is returned as it    *)
(* is; an entry that is there is written over.                             *)
FillSkip(r) ==
    /\ pc[r] = "fill"
    /\ next[r] \notin list[filling[r]]
    /\ Default(r)
    /\ Return(r)
    /\ UNCHANGED <<booked, progress, room, now, torn, raced>>
FillOver(r) ==
    /\ pc[r] = "fill"
    /\ Default(r)
    /\ IF next[r] = Size - 1
          THEN Return(r)
          ELSE next' = [next EXCEPT ![r] = @ + 1] /\ UNCHANGED <<pc, filling, found, new, stamp, stale>>
    /\ UNCHANGED <<booked, progress, room, now, torn, raced>>

(* One INSERT, and the next, until the last. *)
FillInsert(r) ==
    /\ pc[r] = "fill"
    /\ next[r] \notin list[filling[r]]
    /\ Default(r)
    /\ IF next[r] = Size - 1
          THEN Return(r)
          ELSE next' = [next EXCEPT ![r] = @ + 1] /\ UNCHANGED <<pc, filling, found, new, stamp, stale>>
    /\ UNCHANGED <<booked, progress, room, now, torn, raced>>

(* Another handler's entry is there: the UNIQUE constraint fails the       *)
(* INSERT and the handler answers 500.                                     *)
FillConflict(r) ==
    /\ pc[r] = "fill"
    /\ next[r] \in list[filling[r]]
    /\ Return(r)
    /\ UNCHANGED <<tables, now, torn, raced>>

(* update_visa_step: one UPDATE, of a row that is there (404 otherwise).   *)
UpdateVisaStep(i) ==
    /\ i \in list["visa"] \ changed
    /\ changed' = changed \cup {i}
    /\ UNCHANGED <<list, booked, progress, room, pc, filling, next, found, new, stamp, now,
                   torn, raced, stale>>

----------------------------------------------------------------------------
(* book_consultation. *)

(* Mutant of BookCheck: one booking more. *)
BookOneMore(r) ==
    /\ booked <= Capacity
    /\ Checked(r, "book")
    /\ UNCHANGED <<tables, filling, next, found, new, stamp, now, torn, stale>>

BookCheck(r) ==
    /\ booked < Capacity
    /\ Checked(r, "book")
    /\ UNCHANGED <<tables, filling, next, found, new, stamp, now, torn, stale>>

BookInsert(r) ==
    /\ pc[r] = "book"
    /\ booked < MaxRooms
    /\ booked' = booked + 1
    /\ Return(r)
    /\ UNCHANGED <<list, changed, progress, room, now, torn, raced>>

----------------------------------------------------------------------------
(* create_or_get_chat_room: rooms are never deactivated, so a room that is *)
(* found is returned as it is.                                             *)

RoomCheck(r) ==
    /\ rooms = 0
    /\ Checked(r, "room")
    /\ UNCHANGED <<tables, filling, next, found, new, stamp, now, torn, stale>>

RoomInsert(r) ==
    /\ pc[r] = "room"
    /\ rooms < MaxRooms
    /\ rooms' = rooms + 1
    /\ Return(r)
    /\ UNCHANGED <<list, changed, booked, progress, newest, marked, now, torn, raced>>

----------------------------------------------------------------------------
(* create_message, in the room of the pair: one transaction, whose NOW()   *)
(* is the time it began.                                                   *)

SendBegin(r) ==
    /\ rooms > 0
    /\ now < MaxTime
    /\ now' = now + 1
    /\ stamp' = [stamp EXCEPT ![r] = now + 1]
    /\ Checked(r, "message")
    /\ UNCHANGED <<tables, filling, next, found, new, torn, stale>>

(* The UPDATE of the room waits for the row and is visible with the        *)
(* message; it writes its own time whatever the row holds by then.         *)
SendCommit(r) ==
    /\ pc[r] = "message"
    /\ newest' = IF stamp[r] > newest THEN stamp[r] ELSE newest
    /\ marked' = stamp[r]
    /\ Return(r)
    /\ UNCHANGED <<list, changed, booked, progress, rooms, now, torn, raced>>

----------------------------------------------------------------------------
(* update_stage_progress. *)

(* Mutant of CompletedAt: a completion is dated anew. *)
CompletedAnew(ext, st) == IF st = "completed" THEN now + 1 ELSE None

(* completed_at, from the row that was read: kept when it was completed    *)
(* already, Utc::now() when it becomes so, NULL otherwise.                 *)
CompletedAt(ext, st) ==
    IF st # "completed" THEN None
    ELSE IF ext # None /\ progress[ext].status = "completed" THEN progress[ext].completed_at
    ELSE now + 1

(* The SELECT returns one of the rows, if there are any.                   *)
StageRead(r, ext, st) ==
    /\ ext \in (IF Present = {} THEN {None} ELSE Present)
    /\ now < MaxTime
    /\ now' = IF CompletedAt(ext, st) = now + 1 THEN now + 1 ELSE now
    /\ new' = [new EXCEPT ![r] = [status |-> st, completed_at |-> CompletedAt(ext, st)]]
    /\ found' = [found EXCEPT ![r] = ext]
    /\ pc[r] = "idle"
    /\ pc' = [pc EXCEPT ![r] = "stage"]
    /\ raced' = IF ext = None /\ \E q \in Reqs : pc[q] = "stage" /\ found[q] = None
                   THEN raced \cup {"stage"} ELSE raced
    /\ UNCHANGED <<tables, filling, next, stamp, torn, stale>>

(* UPDATE the row by its id. *)
StageUpdate(r) ==
    /\ pc[r] = "stage"
    /\ found[r] # None
    /\ progress' = [progress EXCEPT ![found[r]] = new[r]]
    /\ pc' = [pc EXCEPT ![r] = "idle"]
    /\ found' = [found EXCEPT ![r] = None]
    /\ new' = [new EXCEPT ![r] = None]
    /\ stale' = (stale \ {r}) \cup {q \in Reqs \ {r} : found[q] = found[r]}
    /\ UNCHANGED <<list, changed, booked, room, filling, next, stamp, now, torn, raced>>

StageInsert(r, i) ==
    /\ pc[r] = "stage"
    /\ found[r] = None
    /\ progress[i] = None
    /\ progress' = [progress EXCEPT ![i] = new[r]]
    /\ Return(r)
    /\ UNCHANGED <<list, changed, booked, room, now, torn, raced>>

----------------------------------------------------------------------------
(* The process dies, a statement fails, or the client hangs up. *)
Abort(r) ==
    /\ pc[r] # "idle"
    /\ torn' = IF pc[r] = "fill" THEN torn \cup {filling[r]} ELSE torn
    /\ Return(r)
    /\ UNCHANGED <<tables, now, raced>>

Next ==
    \/ \E i \in Index : UpdateVisaStep(i)
    \/ \E r \in Reqs :
       \/ \E l \in Lists : FillBegin(r, l)
       \/ FillInsert(r) \/ FillConflict(r)
       \/ BookCheck(r) \/ BookInsert(r)
       \/ RoomCheck(r) \/ RoomInsert(r)
       \/ SendBegin(r) \/ SendCommit(r)
       \/ \E ext \in Rows \cup {None}, st \in Status : StageRead(r, ext, st)
       \/ StageUpdate(r) \/ \E i \in Rows : StageInsert(r, i)
       \/ Abort(r)

Spec == Init /\ [][Next]_vars

----------------------------------------------------------------------------
(* Properties. *)

(* A list that is filled in part is one a running handler is filling, up   *)
(* to where it is, or one whose filling was broken off: two handlers that  *)
(* start at once never leave a hole between them.                          *)
ListWhole ==
    \A l \in Lists :
       \/ list[l] \in {{}, Index}
       \/ \E r \in Reqs : filling[r] = l /\ list[l] = 0 .. next[r] - 1
       \/ l \in torn /\ \E k \in Index : list[l] = 0 .. k

(* A slot is overbooked, a stage has two rows, a pair two rooms and a room *)
(* a last_message_at that is not its newest message's only when two        *)
(* handlers checked, or began, before either wrote.                        *)
OnlyRacesExceed ==
    /\ booked > Capacity => "book" \in raced
    /\ Cardinality(Present) > 1 => "stage" \in raced
    /\ rooms > 1 => "room" \in raced
    /\ marked # newest => "message" \in raced

(* What a student or an agent wrote to a visa step is not lost to a        *)
(* handler that is still filling the list they found it in.                *)
StepKept == [][changed \subseteq changed']_vars

(* A stage that stays completed keeps its date, unless the row was written *)
(* between the read and the write.                                         *)
CompletionDateKept ==
    [][\A i \in Present :
          progress[i].status = "completed" /\ progress'[i].status = "completed" =>
             \/ progress'[i].completed_at = progress[i].completed_at
             \/ \E r \in stale : found[r] = i /\ found'[r] = None]_vars
=============================================================================
