-------------------------- MODULE DocumentsProofs --------------------------
(***************************************************************************)
(* Theorems about Documents, for any number of documents, students and     *)
(* concurrent handlers.                                                    *)
(***************************************************************************)
EXTENDS Documents, TLAPS

USE DocumentConstants

Uploading == {"stream", "copied", "insert"}
Deleting == {"delete", "unlink"}

(* What each program counter says of the name its handler holds.  An       *)
(* upload owns its name until the row is written; a handler about to       *)
(* remove a file knows that no row (or only an unsure one) names it.       *)
Owner(r) ==
    /\ pc[r] # "idle" => name[r] \in used
    /\ pc[r] \in Uploading => who[r] \in Students /\ rows[name[r]] = None
    /\ pc[r] \in {"copied", "insert"} => name[r] \in store
    /\ pc[r] = "discard" => rows[name[r]] = None \/ name[r] \in unsure
    /\ pc[r] = "unlink" => rows[name[r]] = None

Apart(q, r) ==
    /\ pc[q] \in Uploading /\ pc[r] # "idle" /\ name[q] = name[r] => q = r
    /\ pc[q] = "discard" /\ pc[r] = "discard" /\ name[q] = name[r] => q = r
    /\ pc[q] = "unlink" /\ pc[r] = "unlink" /\ name[q] = name[r] => q = r

Inv ==
    /\ TypeOK
    /\ \A n \in Names : rows[n] # None => n \in used
    /\ \A r \in Reqs : Owner(r)
    /\ \A q, r \in Reqs : Apart(q, r)
    /\ RowHasFile

LEMMA InitInv == Init => Inv
  BY DEF Init, Inv, TypeOK, Owner, Apart, RowHasFile, Phases, Uploading

LEMMA InvStep == Inv /\ [Next]_vars => Inv'
  <1> SUFFICES ASSUME Inv, [Next]_vars
               PROVE  Inv'
    OBVIOUS
  <1> USE DEF Inv, TypeOK, Owner, Apart, RowHasFile, Phases, Uploading, Callers, Goto, Return,
              RemoveTemporary, RemoveStored
  <1>1. ASSUME NEW r \in Reqs, NEW n \in Names, NEW s \in Students, Upload(r, n, s)
        PROVE  Inv'
    BY <1>1 DEF Upload
  <1>2. ASSUME NEW r \in Reqs, Refuse(r)
        PROVE  Inv'
    BY <1>2 DEF Refuse
  <1>3. ASSUME NEW r \in Reqs, AssignmentQueryFails(r)
        PROVE  Inv'
    BY <1>3 DEF AssignmentQueryFails
  <1>4. ASSUME NEW r \in Reqs, Rename(r)
        PROVE  Inv'
    BY <1>4 DEF Rename
  <1>5. ASSUME NEW r \in Reqs, Copy(r)
        PROVE  Inv'
    BY <1>5 DEF Copy
  <1>6. ASSUME NEW r \in Reqs, RemoveCopied(r)
        PROVE  Inv'
    BY <1>6 DEF RemoveCopied
  <1>7. ASSUME NEW r \in Reqs, Insert(r)
        PROVE  Inv'
    BY <1>7 DEF Insert, Row, Status
  <1>8. ASSUME NEW r \in Reqs, InsertFails(r)
        PROVE  Inv'
    BY <1>8 DEF InsertFails, Row, Status
  <1>9. ASSUME NEW r \in Reqs, Discard(r)
        PROVE  Inv'
    BY <1>9 DEF Discard
  <1>10. ASSUME NEW r \in Reqs, NEW n \in Names, NEW u \in Callers, Delete(r, u, n)
        PROVE  Inv'
    BY <1>10 DEF Delete
  <1>11. ASSUME NEW r \in Reqs, DeleteRow(r)
        PROVE  Inv'
    BY <1>11 DEF DeleteRow
  <1>12. ASSUME NEW r \in Reqs, Unlink(r)
        PROVE  Inv'
    BY <1>12 DEF Unlink
  <1>13. ASSUME NEW r \in Reqs, Abort(r)
        PROVE  Inv'
    BY <1>13 DEF Abort
  <1>14. ASSUME NEW n \in Names, NEW s \in Status, Verify(n, s)
        PROVE  Inv'
    BY <1>14 DEF Verify, Row, Status
  <1>15. CASE UNCHANGED vars
    BY <1>15 DEF vars
  <1>16. QED
    BY <1>1, <1>2, <1>3, <1>4, <1>5, <1>6, <1>7, <1>8, <1>9, <1>10, <1>11, <1>12, <1>13,
       <1>14, <1>15 DEF Next

(* Types hold, and a row never names a missing file (but for an INSERT     *)
(* that committed and reported an error).                                  *)
THEOREM RowsHaveFiles == Spec => [](TypeOK /\ RowHasFile)
  <1>1. Inv => TypeOK /\ RowHasFile
    BY DEF Inv
  <1>2. QED
    BY <1>1, InitInv, InvStep, PTL DEF Spec

(* Of two deletes of one document at most one removes the file. *)
THEOREM DeletesAreExclusive == Spec => []OneUnlinker
  <1>1. Inv => OneUnlinker
    BY DEF Inv, Apart, OneUnlinker
  <1>2. QED
    BY <1>1, InitInv, InvStep, PTL DEF Spec

----------------------------------------------------------------------------
(* Leftovers: a file nobody answers for was left by a handler that ended   *)
(* early or by a removal that failed.                                      *)

LEMMA TempStep == Inv /\ TempAccounted /\ [Next]_vars => TempAccounted'
  <1> SUFFICES ASSUME Inv, TempAccounted, [Next]_vars, NEW n \in tmp' \ tmpLeft'
               PROVE  \E r \in Reqs : name'[r] = n /\ pc'[r] \in {"stream", "copied"}
    BY DEF TempAccounted
  <1> USE DEF Inv, TypeOK, Owner, Apart, Phases, Uploading, Goto, Return, RemoveTemporary
  <1>1. ASSUME NEW r \in Reqs, NEW m \in Names, NEW s \in Students, Upload(r, m, s)
        PROVE  \E q \in Reqs : name'[q] = n /\ pc'[q] \in {"stream", "copied"}
    <2>1. CASE n = m
      BY <1>1, <2>1 DEF Upload
    <2>2. CASE n # m
      <3>1. PICK q \in Reqs : name[q] = n /\ pc[q] \in {"stream", "copied"}
        BY <1>1, <2>2 DEF Upload, TempAccounted
      <3>2. QED
        BY <1>1, <3>1 DEF Upload
    <2>3. QED
      BY <2>1, <2>2
  <1>2. ASSUME n \in tmp, n \notin tmpLeft,
               NEW r \in Reqs, \A q \in Reqs \ {r} : pc'[q] = pc[q] /\ name'[q] = name[q],
               \/ pc[r] \notin {"stream", "copied"} \/ name[r] # n
               \/ name'[r] = n /\ pc'[r] \in {"stream", "copied"}
        PROVE  \E q \in Reqs : name'[q] = n /\ pc'[q] \in {"stream", "copied"}
    BY <1>2 DEF TempAccounted
  <1>3. ASSUME NEW r \in Reqs,
               \/ Refuse(r) \/ AssignmentQueryFails(r) \/ Rename(r) \/ Copy(r)
               \/ RemoveCopied(r)
        PROVE  \E q \in Reqs : name'[q] = n /\ pc'[q] \in {"stream", "copied"}
    BY <1>2, <1>3 DEF Refuse, AssignmentQueryFails, Rename, Copy, RemoveCopied
  <1>4. ASSUME NEW r \in Reqs,
               \/ Insert(r) \/ InsertFails(r) \/ Discard(r) \/ DeleteRow(r) \/ Unlink(r)
               \/ Abort(r) \/ \E m \in Names, u \in Callers : Delete(r, u, m)
        PROVE  \E q \in Reqs : name'[q] = n /\ pc'[q] \in {"stream", "copied"}
    BY <1>2, <1>4 DEF Insert, InsertFails, Discard, DeleteRow, Unlink, Abort, Delete
  <1>5. CASE UNCHANGED vars \/ \E m \in Names, s \in Status : Verify(m, s)
    BY <1>5 DEF vars, Verify, TempAccounted
  <1>6. QED
    BY <1>1, <1>3, <1>4, <1>5 DEF Next

(* For any number of uploads: a temporary file whose upload is over was    *)
(* left by an early end or by a remove_file that failed; every exit of     *)
(* upload_document moves it or removes it.                                 *)
THEOREM TemporaryFilesAccounted == Spec => []TempAccounted
  <1>1. Init => TempAccounted
    BY DEF Init, TempAccounted
  <1>2. QED
    BY <1>1, InitInv, InvStep, TempStep, PTL DEF Spec

Keeping == {"copied", "insert", "discard", "unlink"}

(* A handler that answers for a file passes it on to its row, removes it,  *)
(* or is one whose removal failed.                                         *)
LEMMA StoreStep == Inv /\ StoreAccounted /\ [Next]_vars => StoreAccounted'
  <1> SUFFICES ASSUME Inv, StoreAccounted, [Next]_vars, NEW n \in store' \ left'
               PROVE  rows'[n] # None \/ \E r \in Reqs : name'[r] = n /\ pc'[r] \in Keeping
    BY DEF StoreAccounted, Keeping
  <1> DEFINE Kept == rows'[n] # None \/ \E r \in Reqs : name'[r] = n /\ pc'[r] \in Keeping
  <1> USE DEF Inv, TypeOK, Owner, Phases, Uploading, Goto, Return, Keeping, RemoveTemporary, RemoveStored
  <1>1. ASSUME n \in store, n \notin left, rows[n] # None => rows'[n] # None,
               NEW r \in Reqs, \A q \in Reqs \ {r} : pc'[q] = pc[q] /\ name'[q] = name[q],
               pc[r] \notin Keeping \/ name[r] # n
        PROVE  Kept
    BY <1>1 DEF StoreAccounted
  <1>2. ASSUME NEW r \in Reqs, NEW m \in Names, NEW s \in Students, Upload(r, m, s)
        PROVE  Kept
    BY <1>1, <1>2 DEF Upload
  <1>3. ASSUME NEW r \in Reqs, Refuse(r) \/ AssignmentQueryFails(r) \/ Abort(r)
        PROVE  Kept
    BY <1>1, <1>3 DEF Refuse, AssignmentQueryFails, Abort
  <1>4. ASSUME NEW r \in Reqs, Rename(r) \/ Copy(r) \/ RemoveCopied(r)
        PROVE  Kept
    <2>1. CASE name[r] = n
      BY <1>1, <1>4, <2>1 DEF Rename, Copy, RemoveCopied
    <2>2. CASE name[r] # n
      BY <1>1, <1>4, <2>2 DEF Rename, Copy, RemoveCopied
    <2>3. QED
      BY <2>1, <2>2
  <1>5. ASSUME NEW r \in Reqs, Insert(r) \/ InsertFails(r)
        PROVE  Kept
    <2>1. CASE name[r] = n
      <3>1. \A s : [student_id |-> s, status |-> "pending"] # None \/ s \notin Students
        BY DEF Row, Status
      <3>2. QED
        BY <1>5, <2>1, <3>1 DEF Insert, InsertFails
    <2>2. CASE name[r] # n
      BY <1>1, <1>5, <2>2 DEF Insert, InsertFails
    <2>3. QED
      BY <2>1, <2>2
  <1>6. ASSUME NEW r \in Reqs, Discard(r) \/ Unlink(r)
        PROVE  Kept
    BY <1>1, <1>6 DEF Discard, Unlink
  <1>7. ASSUME NEW r \in Reqs, DeleteRow(r)
        PROVE  Kept
    <2>1. CASE name[r] = n /\ rows[n] # None
      BY <1>7, <2>1 DEF DeleteRow
    <2>2. CASE ~(name[r] = n /\ rows[n] # None)
      BY <1>1, <1>7, <2>2 DEF DeleteRow
    <2>3. QED
      BY <2>1, <2>2
  <1>8. ASSUME NEW r \in Reqs, NEW m \in Names, NEW u \in Callers, Delete(r, u, m)
        PROVE  Kept
    BY <1>1, <1>8 DEF Delete
  <1>9. ASSUME NEW m \in Names, NEW s \in Status, Verify(m, s)
        PROVE  Kept
    <2>1. rows'[n] = None => rows[n] = None
      BY <1>9 DEF Verify, Row, Status
    <2>2. QED
      BY <1>9, <2>1 DEF Verify, StoreAccounted
  <1>10. CASE UNCHANGED vars
    BY <1>10 DEF vars, StoreAccounted
  <1>11. QED
    BY <1>2, <1>3, <1>4, <1>5, <1>6, <1>7, <1>8, <1>9, <1>10 DEF Next

(* For any number of uploads and deletes: a file with neither a row nor a  *)
(* handler was left by an early end or by a remove_file that failed.       *)
THEOREM StoredFilesAccounted == Spec => []StoreAccounted
  <1>1. Init => StoreAccounted
    BY DEF Init, StoreAccounted
  <1>2. QED
    BY <1>1, InitInv, InvStep, StoreStep, PTL DEF Spec

----------------------------------------------------------------------------
(* The handlers implement the store of documents: each of their steps is   *)
(* one of its steps, or none that it sees.                                 *)

(* An upload leaves the open ones when its handler goes on or ends.  Its   *)
(* name was its own.                                                       *)
LEMMA OpenLeaves ==
    ASSUME Inv, NEW r \in Reqs, pc[r] \in Uploading, pc'[r] \notin Uploading,
           \A q \in Reqs \ {r} : pc'[q] = pc[q] /\ name'[q] = name[q] /\ who'[q] = who[q]
    PROVE  /\ name[r] \in Names /\ who[r] \in Students
           /\ <<name[r], who[r]>> \in Open
           /\ Open' = Open \ {<<name[r], who[r]>>}
  <1>1. name[r] \in Names /\ who[r] \in Students
    BY DEF Inv, TypeOK, Owner, Uploading
  <1>2. \A q \in Reqs : pc[q] \in Uploading /\ name[q] = name[r] => q = r
    BY DEF Inv, Apart, Uploading
  <1>3. <<name[r], who[r]>> \in Open
    BY DEF Open, Uploading
  <1>4. Open' \subseteq Open \ {<<name[r], who[r]>>}
    BY <1>2 DEF Open, Uploading
  <1>5. Open \ {<<name[r], who[r]>>} \subseteq Open'
    BY DEF Open, Uploading
  <1>6. QED
    BY <1>1, <1>3, <1>4, <1>5

(* Otherwise nothing is seen of a handler. *)
LEMMA OpenStays ==
    ASSUME Inv, NEW r \in Reqs,
           \A q \in Reqs \ {r} : pc'[q] = pc[q] /\ name'[q] = name[q] /\ who'[q] = who[q],
           \/ pc[r] \notin Uploading /\ pc'[r] \notin Uploading
           \/ pc[r] \in Uploading /\ pc'[r] \in Uploading /\ name'[r] = name[r] /\ who'[r] = who[r]
    PROVE  Open' = Open
  <1>1. \A q \in Reqs :
           \/ pc[q] \notin Uploading /\ pc'[q] \notin Uploading
           \/ pc[q] \in Uploading /\ pc'[q] \in Uploading /\ name'[q] = name[q] /\ who'[q] = who[q]
    OBVIOUS
  <1>2. QED
    BY <1>1 DEF Open, Uploading

LEMMA Refines == Inv /\ [Next]_vars => [Promised!Next]_(Promised!storeVars)
  <1> SUFFICES ASSUME Inv, [Next]_vars
               PROVE  Promised!Next \/ UNCHANGED <<rows, store, used, Open, unsure>>
    BY DEF Promised!storeVars
  <1>1. ASSUME NEW r \in Reqs, NEW n \in Names, NEW s \in Students, Upload(r, n, s)
        PROVE  Promised!Begin(n, s)
    <2>1. pc[r] = "idle" /\ pc'[r] = "stream" /\ name'[r] = n /\ who'[r] = s
      BY <1>1 DEF Upload, Goto, Inv, TypeOK
    <2>2. \A q \in Reqs \ {r} : pc'[q] = pc[q] /\ name'[q] = name[q] /\ who'[q] = who[q]
      BY <1>1 DEF Upload, Goto, Inv, TypeOK
    <2>3. Open' = Open \cup {<<n, s>>}
      BY <2>1, <2>2 DEF Open
    <2>4. QED
      BY <1>1, <2>3 DEF Upload, Promised!Begin
  <1>2. ASSUME NEW r \in Reqs, Refuse(r) \/ AssignmentQueryFails(r)
        PROVE  Promised!Fail(name[r], who[r]) /\ name[r] \in Names /\ who[r] \in Students
    <2>1. /\ pc[r] \in Uploading /\ pc'[r] \notin Uploading
          /\ \A q \in Reqs \ {r} : pc'[q] = pc[q] /\ name'[q] = name[q] /\ who'[q] = who[q]
          /\ UNCHANGED <<rows, store, used, unsure>>
      BY <1>2 DEF Refuse, AssignmentQueryFails, RemoveTemporary, Return, Goto, Inv, TypeOK, Uploading
    <2>2. QED
      BY <2>1, OpenLeaves DEF Promised!Fail
  <1>3. ASSUME NEW r \in Reqs, Rename(r)
        PROVE  Promised!Fill(name[r], who[r]) /\ name[r] \in Names /\ who[r] \in Students
    <2>1. /\ pc[r] \in Uploading /\ pc'[r] \in Uploading
          /\ \A q \in Reqs \ {r} : pc'[q] = pc[q] /\ name'[q] = name[q] /\ who'[q] = who[q]
          /\ name'[r] = name[r] /\ who'[r] = who[r]
          /\ store' = store \cup {name[r]}
          /\ UNCHANGED <<rows, used, unsure>>
      BY <1>3 DEF Rename, Goto, Inv, TypeOK, Uploading
    <2>2. name[r] \in Names /\ who[r] \in Students /\ <<name[r], who[r]>> \in Open
      BY <2>1 DEF Inv, TypeOK, Owner, Uploading, Open
    <2>3. QED
      BY <2>1, <2>2, OpenStays DEF Promised!Fill
  <1>4. ASSUME NEW r \in Reqs, Copy(r)
        PROVE  /\ Promised!Fill(name[r], who[r]) \/ Promised!Fail(name[r], who[r])
               /\ name[r] \in Names /\ who[r] \in Students
    <2>1. CASE store' = store \cup {name[r]} /\ Goto(r, "copied") /\ UNCHANGED <<name, who>>
      <3>1. /\ pc[r] \in Uploading /\ pc'[r] \in Uploading
            /\ \A q \in Reqs \ {r} : pc'[q] = pc[q] /\ name'[q] = name[q] /\ who'[q] = who[q]
            /\ name'[r] = name[r] /\ who'[r] = who[r]
            /\ UNCHANGED <<rows, used, unsure>>
        BY <1>4, <2>1 DEF Copy, Goto, Inv, TypeOK, Uploading
      <3>2. name[r] \in Names /\ who[r] \in Students /\ <<name[r], who[r]>> \in Open
        BY <3>1 DEF Inv, TypeOK, Owner, Uploading, Open
      <3>3. QED
        BY <2>1, <3>1, <3>2, OpenStays DEF Promised!Fill
    <2>2. CASE store' \in {store, store \cup {name[r]}} /\ Return(r)
      <3>1. /\ pc[r] \in Uploading /\ pc'[r] \notin Uploading
            /\ \A q \in Reqs \ {r} : pc'[q] = pc[q] /\ name'[q] = name[q] /\ who'[q] = who[q]
            /\ UNCHANGED <<rows, used, unsure>>
        BY <1>4, <2>2 DEF Copy, Return, Goto, Inv, TypeOK, Uploading
      <3>2. QED
        BY <2>2, <3>1, OpenLeaves DEF Promised!Fail
    <2>3. QED
      BY <1>4, <2>1, <2>2 DEF Copy
  <1>5. ASSUME NEW r \in Reqs, Insert(r)
        PROVE  Promised!List(name[r], who[r]) /\ name[r] \in Names /\ who[r] \in Students
    <2>1. /\ pc[r] \in Uploading /\ pc'[r] \notin Uploading
          /\ \A q \in Reqs \ {r} : pc'[q] = pc[q] /\ name'[q] = name[q] /\ who'[q] = who[q]
          /\ name[r] \in store
      BY <1>5 DEF Insert, Return, Goto, Inv, TypeOK, Owner, Uploading
    <2>2. QED
      BY <1>5, <2>1, OpenLeaves DEF Insert, Promised!List
  <1>6. ASSUME NEW r \in Reqs, InsertFails(r)
        PROVE  /\ Promised!List(name[r], who[r]) \/ Promised!Fail(name[r], who[r])
               /\ name[r] \in Names /\ who[r] \in Students
    <2>1. /\ pc[r] \in Uploading /\ pc'[r] \notin Uploading
          /\ \A q \in Reqs \ {r} : pc'[q] = pc[q] /\ name'[q] = name[q] /\ who'[q] = who[q]
          /\ name[r] \in store
      BY <1>6 DEF InsertFails, Goto, Inv, TypeOK, Owner, Uploading
    <2>2. CASE UNCHANGED <<rows, unsure>>
      BY <1>6, <2>1, <2>2, OpenLeaves DEF InsertFails, Promised!Fail
    <2>3. CASE ~UNCHANGED <<rows, unsure>>
      BY <1>6, <2>1, <2>3, OpenLeaves DEF InsertFails, Promised!List
    <2>4. QED
      BY <2>1, <2>2, <2>3, OpenLeaves
  <1>7. ASSUME NEW r \in Reqs, Discard(r) \/ Unlink(r)
        PROVE  \/ Promised!Clear(name[r]) /\ name[r] \in Names
               \/ UNCHANGED <<rows, store, used, Open, unsure>>
    <2>1. /\ pc[r] \notin Uploading /\ pc[r] # "idle" /\ pc'[r] \notin Uploading
          /\ \A q \in Reqs \ {r} : pc'[q] = pc[q] /\ name'[q] = name[q] /\ who'[q] = who[q]
          /\ store' \in {store, store \ {name[r]}}
          /\ UNCHANGED <<rows, used, unsure>>
      BY <1>7 DEF Discard, Unlink, RemoveStored, Return, Goto, Inv, TypeOK, Uploading
    <2>2. name[r] \in Names /\ (rows[name[r]] = None \/ name[r] \in unsure)
      BY <1>7 DEF Discard, Unlink, Inv, TypeOK, Owner
    <2>3. \A s \in Students : <<name[r], s>> \notin Open
      BY <2>1 DEF Open, Inv, Apart, Uploading
    <2>4. QED
      BY <2>1, <2>2, <2>3, OpenStays DEF Promised!Clear
  <1>8. ASSUME NEW r \in Reqs,
               RemoveCopied(r) \/ \E n \in Names, u \in Callers : Delete(r, u, n)
        PROVE  UNCHANGED <<rows, store, used, Open, unsure>>
    <2>1. /\ \A q \in Reqs \ {r} : pc'[q] = pc[q] /\ name'[q] = name[q] /\ who'[q] = who[q]
          /\ UNCHANGED <<rows, store, used, unsure>>
          /\ \/ pc[r] \notin Uploading /\ pc'[r] \notin Uploading
             \/ pc[r] \in Uploading /\ pc'[r] \in Uploading /\ name'[r] = name[r] /\ who'[r] = who[r]
      BY <1>8 DEF RemoveCopied, Delete, Goto, Inv, TypeOK, Uploading
    <2>2. QED
      BY <2>1, OpenStays
  <1>9. ASSUME NEW r \in Reqs, DeleteRow(r)
        PROVE  \/ Promised!Remove(name[r]) /\ name[r] \in Names
               \/ UNCHANGED <<rows, store, used, Open, unsure>>
    <2>1. /\ pc[r] \notin Uploading /\ pc'[r] \notin Uploading
          /\ \A q \in Reqs \ {r} : pc'[q] = pc[q] /\ name'[q] = name[q] /\ who'[q] = who[q]
          /\ UNCHANGED <<store, used, unsure>>
          /\ name[r] \in Names
      BY <1>9 DEF DeleteRow, Return, Goto, Inv, TypeOK, Owner, Uploading
    <2>2. QED
      BY <1>9, <2>1, OpenStays DEF DeleteRow, Promised!Remove
  <1>10. ASSUME NEW r \in Reqs, Abort(r)
         PROVE  \/ Promised!Fail(name[r], who[r]) /\ name[r] \in Names /\ who[r] \in Students
                \/ UNCHANGED <<rows, store, used, Open, unsure>>
    <2>1. /\ pc'[r] \notin Uploading
          /\ \A q \in Reqs \ {r} : pc'[q] = pc[q] /\ name'[q] = name[q] /\ who'[q] = who[q]
          /\ UNCHANGED <<rows, store, used, unsure>>
      BY <1>10 DEF Abort, Return, Goto, Inv, TypeOK, Uploading
    <2>2. CASE pc[r] \in Uploading
      BY <2>1, <2>2, OpenLeaves DEF Promised!Fail
    <2>3. CASE pc[r] \notin Uploading
      BY <2>1, <2>3, OpenStays
    <2>4. QED
      BY <2>2, <2>3
  <1>11. ASSUME NEW n \in Names, NEW s \in Status, Verify(n, s)
         PROVE  Promised!Review(n, s) /\ s \in {"verified", "rejected"}
    <2>1. Open' = Open
      BY <1>11 DEF Verify, Open
    <2>2. QED
      BY <1>11, <2>1 DEF Verify, Promised!Review
  <1>12. CASE UNCHANGED vars
    BY <1>12 DEF vars, Open
  <1>13. QED
    BY <1>1, <1>2, <1>3, <1>4, <1>5, <1>6, <1>7, <1>8, <1>9, <1>10, <1>11, <1>12
    DEF Next, Promised!Next

(* For any number of uploads, deletes and handlers that end anywhere: what *)
(* a client sees of the two systems, files and rows, is a store in which   *)
(* documents are listed once, with their content, until they are removed.  *)
THEOREM StoreIsImplemented == Spec => KeepsDocuments
  <1>1. Init => Promised!Init
    BY DEF Init, Promised!Init, Open
  <1>2. QED
    BY <1>1, InitInv, InvStep, Refines, PTL DEF Spec, KeepsDocuments, Promised!Spec
============================================================================
