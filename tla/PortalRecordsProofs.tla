------------------------ MODULE PortalRecordsProofs ------------------------
(***************************************************************************)
(* The tables that are checked and then written, for any number of         *)
(* handlers, any length of a list and any capacity of a slot: what their   *)
(* interleavings can and cannot leave behind.                              *)
(***************************************************************************)
EXTENDS PortalRecords, FiniteSetTheorems, TLAPS

USE PortalConstants DEF Lists, Index, Status, Progress

(* What a handler is about to write is dated like a row, the row it found  *)
(* is still there, and it starts a list at the front.                      *)
HandlerOK ==
    \A r \in Reqs :
       /\ new[r] # None => (new[r].status = "completed") = (new[r].completed_at # None)
       /\ found[r] # None => progress[found[r]] # None /\ pc[r] = "stage"
       /\ filling[r] = None => next[r] = 0

Types == TypeOK /\ HandlerOK

LEMMA TypeInit == Init => Types
  BY DEF Init, Types, TypeOK, HandlerOK, Fresh

LEMMA ReturnType ==
    ASSUME TypeOK, NEW r \in Reqs, Return(r), now' = now,
           list' = list, changed' = changed, booked' \in 0 .. MaxRooms, progress' = progress,
           rooms' \in 0 .. MaxRooms, newest' = newest, marked' = marked,
           torn' \subseteq Lists, raced' = raced
    PROVE  TypeOK'
  BY DEF TypeOK, Return

LEMMA CheckedType ==
    ASSUME TypeOK, NEW r \in Reqs, NEW p \in {"book", "room"}, Checked(r, p),
           UNCHANGED <<tables, filling, next, found, new, stamp, now, torn, stale>>
    PROVE  TypeOK'
  BY DEF TypeOK, Checked, tables, room

LEMMA FillType ==
    ASSUME TypeOK, NEW r \in Reqs,
           (\E l \in Lists : FillBegin(r, l)) \/ FillInsert(r)
    PROVE  TypeOK'
  <1>1. ASSUME NEW l \in Lists, FillBegin(r, l)
        PROVE  TypeOK'
    BY <1>1 DEF TypeOK, FillBegin, tables, room
  <1>2. CASE FillInsert(r)
    <2>1. filling[r] \in Lists /\ next[r] \in Index
      BY <1>2 DEF FillInsert, TypeOK
    <2>2. list' \in [Lists -> SUBSET Index] /\ changed' \subseteq list'["visa"]
      <3>1. list \in [Lists -> SUBSET Index] /\ changed \subseteq list["visa"]
        BY DEF TypeOK
      <3>2. list[filling[r]] \cup {next[r]} \in SUBSET Index
        BY <2>1, <3>1
      <3>3. list' = [list EXCEPT ![filling[r]] = list[filling[r]] \cup {next[r]}]
              /\ changed' \subseteq changed
        BY <1>2 DEF FillInsert, Default
      <3>4. list["visa"] \subseteq list'["visa"]
        BY <2>1, <3>1, <3>3
      <3>5. QED
        BY <2>1, <3>1, <3>2, <3>3, <3>4
    <2>3. CASE next[r] = Size - 1
      BY <1>2, <2>2, <2>3 DEF TypeOK, FillInsert, Return, room
    <2>4. CASE next[r] # Size - 1
      <3>1. /\ next' = [next EXCEPT ![r] = next[r] + 1] /\ next[r] + 1 \in Index
            /\ UNCHANGED <<pc, filling, found, new, stamp, stale, booked, progress, rooms,
                           newest, marked, now, torn, raced>>
        BY <1>2, <2>1, <2>4 DEF FillInsert, room
      <3>2. next' \in [Reqs -> Index]
        BY <3>1 DEF TypeOK
      <3>3. QED
        BY <2>2, <3>1, <3>2 DEF TypeOK
    <2>5. QED
      BY <2>3, <2>4
  <1>3. QED
    BY <1>1, <1>2

LEMMA MessageType ==
    ASSUME TypeOK, NEW r \in Reqs, SendBegin(r) \/ SendCommit(r)
    PROVE  TypeOK'
  <1>1. CASE SendBegin(r)
    BY <1>1 DEF TypeOK, SendBegin, Checked, tables, room
  <1>2. CASE SendCommit(r)
    BY <1>2 DEF TypeOK, SendCommit, Return
  <1>3. QED
    BY <1>1, <1>2

(* A row that an update writes is dated exactly when it is completed. *)
LEMMA CompletedType ==
    ASSUME TypeOK, NEW ext \in Rows \cup {None}, NEW st \in Status,
           ext # None => progress[ext] # None, now < MaxTime
    PROVE  /\ CompletedAt(ext, st) \in (1 .. MaxTime) \cup {None}
           /\ (st = "completed") = (CompletedAt(ext, st) # None)
           /\ CompletedAt(ext, st) # now + 1 => CompletedAt(ext, st) \in (1 .. MaxTime) \cup {None}
  BY DEF TypeOK, CompletedAt

LEMMA StageType ==
    ASSUME Types, NEW r \in Reqs,
           \/ \E ext \in Rows \cup {None}, st \in Status : StageRead(r, ext, st)
           \/ StageUpdate(r) \/ \E i \in Rows : StageInsert(r, i)
    PROVE  TypeOK'
  <1> USE DEF Types
  <1>1. ASSUME NEW ext \in Rows \cup {None}, NEW st \in Status, StageRead(r, ext, st)
        PROVE  TypeOK'
    <2>1. ext # None => progress[ext] # None
      BY <1>1 DEF StageRead, Present
    <2>2. [status |-> st, completed_at |-> CompletedAt(ext, st)] \in Progress
      BY <1>1, <2>1, CompletedType DEF StageRead
    <2>3. now' \in {now, now + 1} /\ now' \in 0 .. MaxTime
      BY <1>1 DEF StageRead, TypeOK
    <2>4. QED
      BY <1>1, <2>2, <2>3 DEF TypeOK, StageRead, tables, room
  <1>2. CASE StageUpdate(r)
    <2>1. found[r] \in Rows /\ new[r] \in Progress
      BY <1>2 DEF StageUpdate, TypeOK
    <2>2. progress' = [progress EXCEPT ![found[r]] = new[r]]
      BY <1>2 DEF StageUpdate
    <2>3. progress' \in [Rows -> Progress \cup {None}]
            /\ \A i \in Rows : progress'[i] # None =>
                  (progress'[i].status = "completed") = (progress'[i].completed_at # None)
      BY <2>1, <2>2 DEF TypeOK, HandlerOK
    <2>4. QED
      BY <1>2, <2>3 DEF TypeOK, StageUpdate, room
  <1>3. ASSUME NEW i \in Rows, StageInsert(r, i)
        PROVE  TypeOK'
    <2>1. new[r] \in Progress
      BY <1>3 DEF StageInsert, TypeOK
    <2>2. progress' = [progress EXCEPT ![i] = new[r]]
      BY <1>3 DEF StageInsert
    <2>3. progress' \in [Rows -> Progress \cup {None}]
            /\ \A j \in Rows : progress'[j] # None =>
                  (progress'[j].status = "completed") = (progress'[j].completed_at # None)
      BY <2>1, <2>2 DEF TypeOK, HandlerOK
    <2>4. QED
      BY <1>3, <2>3 DEF TypeOK, StageInsert, Return, room
  <1>4. QED
    BY <1>1, <1>2, <1>3

LEMMA TypeStep == ASSUME Types, [Next]_vars PROVE Types'
  <1> USE DEF Types
  <1>1. TypeOK'
    <2>1. ASSUME NEW r \in Reqs, FillConflict(r) \/ BookInsert(r) \/ RoomInsert(r) \/ Abort(r)
          PROVE  TypeOK'
      <3>1. /\ Return(r) /\ UNCHANGED <<list, changed, progress, newest, marked, now, raced>>
            /\ booked' \in 0 .. MaxRooms /\ rooms' \in 0 .. MaxRooms
        BY <2>1 DEF FillConflict, BookInsert, RoomInsert, Abort, tables, room, TypeOK
      <3>2. torn' \subseteq Lists
        BY <2>1 DEF FillConflict, BookInsert, RoomInsert, Abort, TypeOK
      <3>3. QED
        BY <3>1, <3>2, ReturnType
    <2>2. ASSUME NEW r \in Reqs, BookCheck(r) \/ RoomCheck(r)
          PROVE  TypeOK'
      BY <2>2, CheckedType DEF BookCheck, RoomCheck
    <2>3. ASSUME NEW i \in Index, UpdateVisaStep(i)
          PROVE  TypeOK'
      BY <2>3 DEF UpdateVisaStep, TypeOK, room
    <2>4. CASE UNCHANGED vars
      BY <2>4 DEF TypeOK, vars, room
    <2>5. QED
      BY <2>1, <2>2, <2>3, <2>4, FillType, MessageType, StageType DEF Next
  <1>2. HandlerOK'
    <2>1. ASSUME NEW r \in Reqs, NEW ext \in Rows \cup {None}, NEW st \in Status,
                 StageRead(r, ext, st)
          PROVE  HandlerOK'
      <3>1. ext # None => progress[ext] # None
        BY <2>1 DEF StageRead, Present
      <3>2. (st = "completed") = (CompletedAt(ext, st) # None)
        BY <2>1, <3>1, CompletedType DEF StageRead
      <3>3. QED
        BY <2>1, <3>1, <3>2 DEF StageRead, HandlerOK, TypeOK, tables
    <2>2. ASSUME NEW r \in Reqs, StageUpdate(r) \/ \E i \in Rows : StageInsert(r, i)
          PROVE  HandlerOK'
      BY <2>2 DEF StageUpdate, StageInsert, Return, HandlerOK, TypeOK
    <2>3. ASSUME NEW r \in Reqs, Return(r), progress' = progress
          PROVE  HandlerOK'
      BY <2>3 DEF Return, HandlerOK, TypeOK
    <2>4. ASSUME UNCHANGED <<new, found, progress, filling, next>>,
                 \A q \in Reqs : pc'[q] = pc[q] \/ pc[q] = "idle"
          PROVE  HandlerOK'
      BY <2>4 DEF HandlerOK
    <2>6. ASSUME NEW r \in Reqs, (\E l \in Lists : FillBegin(r, l)) \/ FillInsert(r)
          PROVE  HandlerOK'
      BY <2>6 DEF FillBegin, FillInsert, Return, HandlerOK, TypeOK, tables
    <2>5. QED
      BY <2>1, <2>2, <2>3, <2>4, <2>6 DEF Next, vars, tables, room, FillConflict,
         BookCheck, BookInsert, RoomCheck, RoomInsert, SendBegin, SendCommit, Checked, Abort,
         UpdateVisaStep, TypeOK
  <1>3. QED
    BY <1>1, <1>2

(* The tables and the handlers hold what the schema and the code let them  *)
(* hold, in every reachable state.                                         *)
THEOREM TypeCorrect == Spec => []TypeOK
  <1>1. Types => TypeOK
    BY DEF Types
  <1>2. QED
    BY <1>1, TypeInit, TypeStep, PTL DEF Spec

----------------------------------------------------------------------------
(* The lists.  A list is filled from the front, nobody is past its end,    *)
(* and while it is short somebody is at its end, unless that handler's     *)
(* filling was broken off.                                                 *)

At(l, k) == \E r \in Reqs : filling[r] = l /\ next[r] = k

Filled(l, k) ==
    /\ list[l] = 0 .. k - 1
    /\ \A r \in Reqs : filling[r] = l => next[r] <= k
    /\ k \in {0, Size} \/ l \in torn \/ At(l, k)

FillInv == \A l \in Lists : \E k \in 0 .. Size : Filled(l, k)

LEMMA FillUnmoved ==
    ASSUME FillInv, UNCHANGED <<list, filling, next, torn>>
    PROVE  FillInv'
  BY DEF FillInv, Filled, At

LEMMA FillReturn ==
    ASSUME TypeOK, FillInv, NEW r \in Reqs, Return(r), list' = list, torn \subseteq torn',
           pc[r] = "fill" => filling[r] \in torn' \/ next[r] \in list[filling[r]]
    PROVE  FillInv'
  <1> SUFFICES ASSUME NEW l \in Lists
               PROVE  \E k \in 0 .. Size : Filled(l, k)'
    BY DEF FillInv
  <1>1. PICK k \in 0 .. Size : Filled(l, k)
    BY DEF FillInv
  <1>2. \A q \in Reqs : filling'[q] = l => q # r /\ filling[q] = l /\ next'[q] = next[q]
    BY DEF Return, TypeOK
  <1>3. l \notin torn' => (At(l, k) => At(l, k)')
    <2>1. l \notin torn' /\ filling[r] = l => next[r] \in list[l]
      BY DEF TypeOK
    <2>2. l \notin torn' /\ filling[r] = l => next[r] # k
      BY <1>1, <2>1 DEF Filled
    <2>3. \A q \in Reqs \ {r} : filling'[q] = filling[q] /\ next'[q] = next[q]
      BY DEF Return, TypeOK
    <2>4. QED
      BY <2>2, <2>3 DEF At
  <1>4. Filled(l, k)'
    BY <1>1, <1>2, <1>3 DEF Filled
  <1>5. QED
    BY <1>4

LEMMA FillBeginStep ==
    ASSUME Types, FillInv, NEW r \in Reqs, NEW m \in Lists, FillBegin(r, m)
    PROVE  FillInv'
  <1> SUFFICES ASSUME NEW l \in Lists
               PROVE  \E k \in 0 .. Size : Filled(l, k)'
    BY DEF FillInv
  <1>1. PICK k \in 0 .. Size : Filled(l, k)
    BY DEF FillInv
  <1>2. /\ list' = list /\ torn' = torn /\ next' = next /\ pc[r] = "idle"
        /\ filling' = [filling EXCEPT ![r] = m] /\ list[m] = {}
    BY DEF FillBegin, tables
  <1>3. filling \in [Reqs -> Lists \cup {None}] /\ next \in [Reqs -> Index] /\ filling[r] = None
    BY <1>2 DEF Types, TypeOK
  <1>4. CASE l # m
    BY <1>1, <1>2, <1>3, <1>4 DEF Filled, At
  <1>5. CASE l = m
    <2>1. k = 0
      <3>1. k > 0 => 0 \in 0 .. k - 1
        OBVIOUS
      <3>2. QED
        BY <1>1, <1>2, <1>5, <3>1 DEF Filled
    <2>2. next[r] = 0
      BY <1>3 DEF Types, HandlerOK
    <2>3. \A q \in Reqs : filling'[q] = l => next'[q] <= k
      BY <1>1, <1>2, <1>3, <1>5, <2>1, <2>2 DEF Filled
    <2>4. QED
      BY <1>1, <1>2, <1>5, <2>1, <2>3 DEF Filled
  <1>6. QED
    BY <1>4, <1>5

LEMMA FillInsertStep ==
    ASSUME TypeOK, FillInv, NEW r \in Reqs, FillInsert(r)
    PROVE  FillInv'
  <1> SUFFICES ASSUME NEW l \in Lists
               PROVE  \E k \in 0 .. Size : Filled(l, k)'
    BY DEF FillInv
  <1>1. PICK k \in 0 .. Size : Filled(l, k)
    BY DEF FillInv
  <1>2. /\ filling[r] \in Lists /\ next[r] \in Index /\ next[r] \notin list[filling[r]]
        /\ list' = [list EXCEPT ![filling[r]] = list[filling[r]] \cup {next[r]}]
        /\ torn' = torn
    BY DEF FillInsert, Default, TypeOK
  <1>3. /\ list \in [Lists -> SUBSET Index] /\ filling \in [Reqs -> Lists \cup {None}]
        /\ next \in [Reqs -> Index]
    BY DEF TypeOK
  <1>4. \A q \in Reqs \ {r} : filling'[q] = filling[q] /\ next'[q] = next[q]
    BY DEF FillInsert, Return, TypeOK
  <1>5. CASE filling[r] # l
    <2>1. filling'[r] # l
      BY <1>3, <1>5 DEF FillInsert, Return
    <2>2. At(l, k) => At(l, k)'
      BY <1>4, <1>5 DEF At
    <2>3. QED
      BY <1>1, <1>2, <1>3, <1>4, <1>5, <2>1, <2>2 DEF Filled
  <1>6. CASE filling[r] = l
    <2>1. next[r] = k
      BY <1>1, <1>2, <1>3, <1>6 DEF Filled
    <2>2. k + 1 \in 0 .. Size /\ list'[l] = 0 .. (k + 1) - 1
      <3>1. k \in 0 .. Size - 1 /\ (0 .. k - 1) \cup {k} = 0 .. (k + 1) - 1
        BY <1>2, <2>1
      <3>2. list'[l] = (0 .. k - 1) \cup {k}
        BY <1>1, <1>2, <1>3, <1>6, <2>1 DEF Filled
      <3>3. QED
        BY <3>1, <3>2
    <2>3. \/ k + 1 = Size /\ filling'[r] = None
          \/ k + 1 # Size /\ filling'[r] = l /\ next'[r] = k + 1
      BY <1>3, <1>6, <2>1 DEF FillInsert, Return
    <2>4. \A q \in Reqs : filling'[q] = l => next'[q] <= k + 1
      <3>1. ASSUME NEW q \in Reqs \ {r}, filling'[q] = l
            PROVE  next'[q] <= k + 1
        BY <1>1, <1>3, <1>4, <3>1 DEF Filled
      <3>2. filling'[r] = l => next'[r] <= k + 1
        BY <2>2, <2>3
      <3>3. QED
        BY <3>1, <3>2
    <2>5. k + 1 = Size \/ At(l, k + 1)'
      BY <2>3 DEF At
    <2>6. Filled(l, k + 1)'
      BY <2>2, <2>4, <2>5 DEF Filled
    <2>7. QED
      BY <2>2, <2>6
  <1>7. QED
    BY <1>5, <1>6

LEMMA FillStep == ASSUME Types, FillInv, [Next]_vars PROVE FillInv'
  <1>1. ASSUME NEW r \in Reqs,
               FillConflict(r) \/ BookInsert(r) \/ RoomInsert(r) \/ SendCommit(r) \/ Abort(r)
               \/ \E i \in Rows : StageInsert(r, i)
        PROVE  FillInv'
    <2> USE DEF Types
    <2>1. Return(r) /\ list' = list /\ torn \subseteq torn'
      BY <1>1 DEF FillConflict, BookInsert, RoomInsert, SendCommit, Abort, StageInsert, tables
    <2>2. pc[r] = "fill" => filling[r] \in torn' \/ next[r] \in list[filling[r]]
      BY <1>1 DEF FillConflict, BookInsert, RoomInsert, SendCommit, Abort, StageInsert
    <2>3. QED
      BY <2>1, <2>2, FillReturn
  <1>2. CASE UNCHANGED <<list, filling, next, torn>>
    BY <1>2, FillUnmoved
  <1>3. QED
    BY <1>1, <1>2, FillBeginStep, FillInsertStep DEF Types, Next, vars, tables, BookCheck, RoomCheck,
       SendBegin, StageRead, StageUpdate, UpdateVisaStep

(* For lists of any length and any number of handlers that start to fill   *)
(* one at once: a list that is not whole is being filled from where it     *)
(* ends, or its filling was broken off.                                    *)
THEOREM ListsAreWhole == Spec => []ListWhole
  <1>1. Init => FillInv
    <2>1. Init => \A l \in Lists : Filled(l, 0)
      BY DEF Init, Filled
    <2>2. 0 \in 0 .. Size
      OBVIOUS
    <2>3. QED
      BY <2>1, <2>2 DEF FillInv
  <1>2. FillInv => ListWhole
    <2> SUFFICES ASSUME FillInv, NEW l \in Lists
                 PROVE  \/ list[l] \in {{}, Index}
                        \/ \E r \in Reqs : filling[r] = l /\ list[l] = 0 .. next[r] - 1
                        \/ l \in torn /\ \E k \in Index : list[l] = 0 .. k
      BY DEF ListWhole
    <2>1. PICK k \in 0 .. Size : Filled(l, k)
      BY DEF FillInv
    <2>2. CASE k \in {0, Size}
      BY <2>1, <2>2 DEF Filled
    <2>3. CASE k \notin {0, Size} /\ l \in torn
      <3>1. k - 1 \in Index
        BY <2>3
      <3>2. QED
        BY <2>1, <2>3, <3>1 DEF Filled
    <2>4. CASE At(l, k)
      BY <2>1, <2>4 DEF Filled, At
    <2>5. QED
      BY <2>1, <2>2, <2>3, <2>4 DEF Filled
  <1>3. Types /\ FillInv /\ [Next]_vars => FillInv'
    BY FillStep
  <1>4. QED
    BY <1>1, <1>2, <1>3, TypeInit, TypeStep, PTL DEF Spec

----------------------------------------------------------------------------
(* The races.  Until two handlers are between check and write of a table   *)
(* at once, one at most is, and what it checked still holds.               *)

Alone(p) == \A q, r \in Reqs : pc[q] = p /\ pc[r] = p => q = r

BookOK ==
    "book" \notin raced =>
       /\ Alone("book")
       /\ booked <= Capacity
       /\ \A r \in Reqs : pc[r] = "book" => booked < Capacity
RoomOK ==
    "room" \notin raced =>
       /\ Alone("room")
       /\ rooms <= 1
       /\ \A r \in Reqs : pc[r] = "room" => rooms = 0
MessageOK ==
    "message" \notin raced =>
       /\ Alone("message")
       /\ marked = newest
       /\ \A r \in Reqs : pc[r] = "message" => stamp[r] > newest

(* A handler that found no row of the stage. *)
Lacks(r) == pc[r] = "stage" /\ found[r] = None
StageOK ==
    "stage" \notin raced =>
       /\ \A q, r \in Reqs : Lacks(q) /\ Lacks(r) => q = r
       /\ \A i, j \in Present : i = j
       /\ \A r \in Reqs : Lacks(r) => Present = {}

RaceInv == BookOK /\ RoomOK /\ MessageOK /\ StageOK

LEMMA BookStep == ASSUME TypeOK, BookOK, [Next]_vars PROVE BookOK'
  <1>1. ASSUME NEW r \in Reqs, BookCheck(r)
        PROVE  BookOK'
    BY <1>1 DEF BookCheck, Checked, BookOK, Alone, TypeOK, tables
  <1>2. ASSUME NEW r \in Reqs, BookInsert(r)
        PROVE  BookOK'
    BY <1>2 DEF BookInsert, Return, BookOK, Alone, TypeOK
  <1>3. ASSUME booked' = booked, "book" \notin raced' => "book" \notin raced,
               \A q \in Reqs : pc'[q] = "book" => pc[q] = "book"
        PROVE  BookOK'
    BY <1>3 DEF BookOK, Alone
  <1>4. QED
    BY <1>1, <1>2, <1>3 DEF Next, vars, tables, FillBegin, FillInsert, FillConflict, Return,
       RoomCheck, RoomInsert, SendBegin, SendCommit, StageRead, StageUpdate, StageInsert, Abort,
       Checked, UpdateVisaStep, TypeOK

LEMMA RoomStep == ASSUME TypeOK, RoomOK, [Next]_vars PROVE RoomOK'
  <1>1. ASSUME NEW r \in Reqs, RoomCheck(r)
        PROVE  RoomOK'
    BY <1>1 DEF RoomCheck, Checked, RoomOK, Alone, TypeOK, tables, room
  <1>2. ASSUME NEW r \in Reqs, RoomInsert(r)
        PROVE  RoomOK'
    BY <1>2 DEF RoomInsert, Return, RoomOK, Alone, TypeOK
  <1>3. ASSUME rooms' = rooms, "room" \notin raced' => "room" \notin raced,
               \A q \in Reqs : pc'[q] = "room" => pc[q] = "room"
        PROVE  RoomOK'
    BY <1>3 DEF RoomOK, Alone
  <1>4. QED
    BY <1>1, <1>2, <1>3 DEF Next, vars, tables, room, FillBegin, FillInsert, FillConflict, Return,
       BookCheck, BookInsert, SendBegin, SendCommit, StageRead, StageUpdate, StageInsert, Abort,
       Checked, UpdateVisaStep, TypeOK

LEMMA MessageStep == ASSUME TypeOK, MessageOK, [Next]_vars PROVE MessageOK'
  <1>1. ASSUME NEW r \in Reqs, SendBegin(r)
        PROVE  MessageOK'
    <2>1. newest' = newest /\ marked' = marked /\ newest <= now /\ now \in Nat
      BY <1>1 DEF SendBegin, TypeOK, tables, room
    <2>2. stamp'[r] = now + 1 /\ \A q \in Reqs \ {r} : stamp'[q] = stamp[q] /\ pc'[q] = pc[q]
      BY <1>1 DEF SendBegin, Checked, TypeOK
    <2>3. "message" \notin raced' =>
             "message" \notin raced /\ \A q \in Reqs \ {r} : pc[q] # "message"
      BY <1>1 DEF SendBegin, Checked
    <2>4. newest \in Nat
      BY DEF TypeOK
    <2>5. QED
      BY <2>1, <2>2, <2>3, <2>4 DEF MessageOK, Alone
  <1>2. ASSUME NEW r \in Reqs, SendCommit(r)
        PROVE  MessageOK'
    <2>1. pc[r] = "message" /\ raced' = raced /\ marked' = stamp[r]
            /\ newest' = IF stamp[r] > newest THEN stamp[r] ELSE newest
      BY <1>2 DEF SendCommit
    <2>2. pc'[r] = "idle" /\ \A q \in Reqs \ {r} : pc'[q] = pc[q]
      BY <1>2 DEF SendCommit, Return, TypeOK
    <2>3. QED
      BY <2>1, <2>2 DEF MessageOK, Alone
  <1>3. ASSUME newest' = newest, marked' = marked, "message" \notin raced' => "message" \notin raced,
               \A q \in Reqs : pc'[q] = "message" => pc[q] = "message" /\ stamp'[q] = stamp[q]
        PROVE  MessageOK'
    BY <1>3 DEF MessageOK, Alone
  <1>4. QED
    BY <1>1, <1>2, <1>3 DEF Next, vars, tables, room, FillBegin, FillInsert, FillConflict, Return,
       BookCheck, BookInsert, RoomCheck, RoomInsert, StageRead, StageUpdate, StageInsert, Abort,
       Checked, UpdateVisaStep, TypeOK

LEMMA StageStep == ASSUME Types, StageOK, [Next]_vars PROVE StageOK'
  <1> USE DEF Types
  <1>1. ASSUME NEW r \in Reqs, NEW ext \in Rows \cup {None}, NEW st \in Status,
               StageRead(r, ext, st)
        PROVE  StageOK'
    <2>1. /\ pc'[r] = "stage" /\ found'[r] = ext
          /\ \A q \in Reqs \ {r} : pc'[q] = pc[q] /\ found'[q] = found[q]
      BY <1>1 DEF StageRead, TypeOK
    <2>2. Present' = Present /\ (ext = None => Present = {})
      BY <1>1 DEF StageRead, Present, tables
    <2>3. "stage" \notin raced' =>
             /\ "stage" \notin raced
             /\ ext = None => \A q \in Reqs \ {r} : ~Lacks(q)
      BY <1>1 DEF StageRead, Lacks
    <2>4. QED
      BY <2>1, <2>2, <2>3 DEF StageOK, Lacks
  <1>2. ASSUME NEW r \in Reqs, StageUpdate(r)
        PROVE  StageOK'
    <2>1. found[r] \in Rows /\ progress[found[r]] # None /\ new[r] # None
      BY <1>2 DEF StageUpdate, TypeOK, HandlerOK
    <2>2. Present' = Present
      BY <1>2, <2>1 DEF StageUpdate, Present, TypeOK
    <2>3. \A q \in Reqs : Lacks(q)' => Lacks(q)
      BY <1>2 DEF StageUpdate, Lacks, TypeOK
    <2>4. QED
      BY <1>2, <2>2, <2>3 DEF StageOK, StageUpdate
  <1>3. ASSUME NEW r \in Reqs, NEW i \in Rows, StageInsert(r, i)
        PROVE  StageOK'
    <2>1. Lacks(r) /\ raced' = raced
      BY <1>3 DEF StageInsert, Lacks
    <2>2. Present' = Present \cup {i}
      BY <1>3 DEF StageInsert, Present, TypeOK
    <2>3. \A q \in Reqs : Lacks(q)' => Lacks(q) /\ q # r
      BY <1>3 DEF StageInsert, Return, Lacks, TypeOK
    <2>4. QED
      BY <2>1, <2>2, <2>3 DEF StageOK
  <1>4. ASSUME progress' = progress, "stage" \notin raced' => "stage" \notin raced,
               \A q \in Reqs : Lacks(q)' => Lacks(q)
        PROVE  StageOK'
    BY <1>4 DEF StageOK, Present
  <1>5. ASSUME NEW r \in Reqs, Return(r)
        PROVE  \A q \in Reqs : Lacks(q)' => Lacks(q)
    BY <1>5 DEF Return, Lacks, TypeOK
  <1>6. ASSUME found' = found, \A q \in Reqs : pc'[q] = "stage" => pc[q] = "stage"
        PROVE  \A q \in Reqs : Lacks(q)' => Lacks(q)
    BY <1>6 DEF Lacks
  <1>7. QED
    BY <1>1, <1>2, <1>3, <1>4, <1>5, <1>6 DEF Next, vars, tables, FillBegin, FillInsert,
       FillConflict, BookCheck, BookInsert, RoomCheck, RoomInsert, SendBegin, SendCommit,
       Abort, Checked, UpdateVisaStep, TypeOK

(* For any capacity and any number of handlers, what the missing           *)
(* constraints would forbid happens by a race only.                        *)
THEOREM ExcessIsRaced == Spec => []OnlyRacesExceed
  <1>1. Init => RaceInv
    <2>1. Init => StageOK
      BY DEF Init, StageOK, Lacks, Present, Fresh
    <2>2. QED
      BY <2>1 DEF Init, RaceInv, BookOK, RoomOK, MessageOK, Alone
  <1>2. Types /\ RaceInv => OnlyRacesExceed
    <2> SUFFICES ASSUME Types, RaceInv
                 PROVE  OnlyRacesExceed
      OBVIOUS
    <2>1. booked \in Nat /\ rooms \in Nat
      BY DEF Types, TypeOK
    <2>2. (\A i, j \in Present : i = j) => Cardinality(Present) \in {0, 1}
      <3>1. ASSUME NEW i \in Present, \A j, k \in Present : j = k
            PROVE  Cardinality(Present) = 1
        <4>1. Present = {i}
          BY <3>1
        <4>2. QED
          BY <4>1, FS_Singleton
      <3>2. QED
        BY <3>1, FS_EmptySet
    <2>3. QED
      BY <2>1, <2>2 DEF RaceInv, BookOK, RoomOK, MessageOK, StageOK, OnlyRacesExceed
  <1>3. Types /\ RaceInv /\ [Next]_vars => RaceInv'
    BY BookStep, RoomStep, MessageStep, StageStep DEF Types, RaceInv
  <1>4. QED
    BY <1>1, <1>2, <1>3, TypeInit, TypeStep, PTL DEF Spec

----------------------------------------------------------------------------
(* What a handler may not undo. *)

(* No handler that is filling the list of steps writes over a step, for    *)
(* any number of them.                                                     *)
THEOREM StepsAreKept == Spec => StepKept
  <1>1. TypeOK /\ [Next]_vars => [changed \subseteq changed']_vars
    <2> SUFFICES ASSUME TypeOK, Next
                 PROVE  changed \subseteq changed'
      OBVIOUS
    <2>1. ASSUME NEW r \in Reqs, FillInsert(r)
          PROVE  changed \subseteq changed'
      BY <2>1 DEF FillInsert, Default, TypeOK
    <2>2. QED
      BY <2>1 DEF Next, vars, tables, FillBegin, FillConflict, BookCheck, BookInsert, RoomCheck,
         RoomInsert, SendBegin, SendCommit, StageRead, StageUpdate, StageInsert, Abort,
         UpdateVisaStep
  <1>2. QED
    BY <1>1, TypeCorrect, PTL DEF Spec, StepKept

(* A handler whose row nobody has written since it read it would keep the  *)
(* date of a completion.                                                   *)
DateOK ==
    \A r \in Reqs \ stale :
       found[r] # None /\ progress[found[r]].status = "completed" /\ new[r].status = "completed"
          => new[r].completed_at = progress[found[r]].completed_at

LEMMA DateStep == ASSUME Types, DateOK, [Next]_vars PROVE DateOK'
  <1> USE DEF Types
  <1>1. ASSUME NEW r \in Reqs, NEW ext \in Rows \cup {None}, NEW st \in Status,
               StageRead(r, ext, st)
        PROVE  DateOK'
    <2>1. /\ new'[r] = [status |-> st, completed_at |-> CompletedAt(ext, st)] /\ found'[r] = ext
          /\ \A q \in Reqs \ {r} : new'[q] = new[q] /\ found'[q] = found[q]
          /\ progress' = progress /\ stale' = stale
      BY <1>1 DEF StageRead, TypeOK, tables
    <2>2. ext # None /\ progress[ext].status = "completed" /\ st = "completed"
             => CompletedAt(ext, st) = progress[ext].completed_at
      BY DEF CompletedAt
    <2>3. QED
      BY <2>1, <2>2 DEF DateOK
  <1>2. ASSUME NEW r \in Reqs, StageUpdate(r)
        PROVE  DateOK'
    <2>1. /\ found[r] \in Rows /\ progress' = [progress EXCEPT ![found[r]] = new[r]]
          /\ found' = [found EXCEPT ![r] = None] /\ new' = [new EXCEPT ![r] = None]
          /\ stale' = (stale \ {r}) \cup {q \in Reqs \ {r} : found[q] = found[r]}
      BY <1>2 DEF StageUpdate, TypeOK
    <2>2. \A q \in Reqs \ stale' : found'[q] # None =>
             /\ q # r /\ q \notin stale /\ found'[q] = found[q] /\ new'[q] = new[q]
             /\ progress'[found[q]] = progress[found[q]]
      BY <2>1 DEF TypeOK
    <2>3. QED
      BY <2>2 DEF DateOK
  <1>3. ASSUME NEW r \in Reqs, Return(r),
               \A q \in Reqs : found[q] # None => progress'[found[q]] = progress[found[q]]
        PROVE  DateOK'
    BY <1>3 DEF DateOK, Return, TypeOK
  <1>4. ASSUME NEW r \in Reqs, NEW i \in Rows, StageInsert(r, i)
        PROVE  DateOK'
    <2>1. \A q \in Reqs : found[q] # None => progress'[found[q]] = progress[found[q]]
      BY <1>4 DEF StageInsert, HandlerOK, TypeOK
    <2>2. QED
      BY <1>3, <1>4, <2>1 DEF StageInsert
  <1>5. CASE UNCHANGED <<found, new, progress, stale>>
    BY <1>5 DEF DateOK
  <1>6. QED
    BY <1>1, <1>2, <1>3, <1>4, <1>5 DEF Next, vars, tables, FillBegin, FillInsert, FillConflict,
       BookCheck, BookInsert, RoomCheck, RoomInsert, SendBegin, SendCommit, Abort,
       UpdateVisaStep

(* For any number of handlers, rows and moments: the date of a completion  *)
(* changes only under an update whose read another write has overtaken.    *)
THEOREM DatesAreKept == Spec => CompletionDateKept
  <1> DEFINE Kept == \A i \in Present :
                progress[i].status = "completed" /\ progress'[i].status = "completed" =>
                   \/ progress'[i].completed_at = progress[i].completed_at
                   \/ \E r \in stale : found[r] = i /\ found'[r] = None
  <1>1. Types /\ DateOK /\ [Next]_vars => [Kept]_vars
    <2> SUFFICES ASSUME Types, DateOK, Next
                 PROVE  Kept
      OBVIOUS
    <2> USE DEF Types
    <2>1. ASSUME NEW r \in Reqs, StageUpdate(r)
          PROVE  Kept
      <3> SUFFICES ASSUME NEW i \in Present, progress[i].status = "completed",
                          progress'[i].status = "completed"
                   PROVE  \/ progress'[i].completed_at = progress[i].completed_at
                          \/ \E q \in stale : found[q] = i /\ found'[q] = None
        OBVIOUS
      <3>1. /\ progress' = [progress EXCEPT ![found[r]] = new[r]] /\ found[r] # None
            /\ found'[r] = None
        BY <2>1 DEF StageUpdate, TypeOK
      <3>2. CASE found[r] = i /\ r \notin stale
        BY <3>1, <3>2 DEF DateOK, TypeOK, Present
      <3>3. CASE found[r] # i \/ r \in stale
        BY <3>1, <3>3 DEF TypeOK, Present
      <3>4. QED
        BY <3>2, <3>3
    <2>2. ASSUME NEW r \in Reqs, NEW i \in Rows, StageInsert(r, i)
          PROVE  Kept
      BY <2>2 DEF StageInsert, Present, TypeOK
    <2>3. CASE progress' = progress
      BY <2>3
    <2>4. QED
      BY <2>1, <2>2, <2>3 DEF Next, vars, tables, FillBegin, FillInsert, FillConflict, BookCheck,
         BookInsert, RoomCheck, RoomInsert, SendBegin, SendCommit, StageRead, Abort,
         UpdateVisaStep
  <1>2. Init => DateOK
    BY DEF Init, DateOK
  <1>3. Types /\ DateOK /\ [Next]_vars => DateOK'
    BY DateStep
  <1>4. QED
    BY <1>1, <1>2, <1>3, TypeInit, TypeStep, PTL DEF Spec, CompletionDateKept
============================================================================
