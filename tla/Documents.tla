----------------------------- MODULE Documents -----------------------------
(***************************************************************************)
(* Document upload, verification and deletion: routes/documents.rs over    *)
(* services/document_service.rs.  A document is a file under upload_dir    *)
(* and a row of `documents` that names it, written by two systems with no  *)
(* transaction between them: the handlers order their steps so that a row  *)
(* never names a missing file.                                             *)
(*                                                                         *)
(* The UUIDs one upload draws (temporary name, final name, row id) are one *)
(* Name, and file contents are left out.  Abort is the end of a handler at *)
(* an await: the process dies, the client hangs up, or a statement reports *)
(* an error the handler returns.  The code drops the result of every       *)
(* remove_file, so a removal may fail and its file stays.                  *)
(***************************************************************************)
EXTENDS FiniteSets

CONSTANTS
    Names,      \* uploads
    Students,   \* students, the owners of documents
    Admin,      \* a superadmin
    Reqs,       \* handlers that can be running at once
    None        \* no row, no name, no user

Callers == Students \cup {Admin}
Status == {"pending", "verified", "rejected"}
Row == [student_id : Students, status : Status]

ASSUME DocumentConstants ==
    /\ None \notin Row
    /\ None \notin Names
    /\ None \notin Callers
    /\ Admin \notin Students

VARIABLES
    rows,    \* the documents table
    tmp,     \* files in upload_dir/tmp
    store,   \* files in their final directory
    used,    \* names drawn so far
    pc,      \* where each handler is
    name,    \* the upload or document it works on
    who,     \* the student an upload is for, or the caller of a delete
    tmpLeft, \* history: temporary files left by an early end or a failed removal
    left,    \* history: files left so in their final directory
    unsure   \* history: rows committed by an INSERT that reported an error

vars == <<rows, tmp, store, used, pc, name, who, tmpLeft, left, unsure>>

Phases == {"idle", "stream", "copied", "insert", "discard", "delete", "unlink"}

TypeOK ==
    /\ rows \in [Names -> Row \cup {None}]
    /\ tmp \subseteq used
    /\ store \subseteq used
    /\ used \subseteq Names
    /\ pc \in [Reqs -> Phases]
    /\ name \in [Reqs -> Names \cup {None}]
    /\ who \in [Reqs -> Callers \cup {None}]
    /\ tmpLeft \subseteq used
    /\ left \subseteq used
    /\ unsure \subseteq used

Init ==
    /\ rows = [n \in Names |-> None]
    /\ tmp = {}
    /\ store = {}
    /\ used = {}
    /\ pc = [r \in Reqs |-> "idle"]
    /\ name = [r \in Reqs |-> None]
    /\ who = [r \in Reqs |-> None]
    /\ tmpLeft = {}
    /\ left = {}
    /\ unsure = {}

Goto(r, p) == pc' = [pc EXCEPT ![r] = p]

(* The handler returns and forgets its locals. *)
Return(r) ==
    /\ Goto(r, "idle")
    /\ name' = [name EXCEPT ![r] = None]
    /\ who' = [who EXCEPT ![r] = None]

(* `let _ = remove_file(..)`: it may fail, and then the file stays.        *)
RemoveTemporary(n) ==
    \/ tmp' = tmp \ {n} /\ UNCHANGED tmpLeft
    \/ n \in tmp /\ tmpLeft' = tmpLeft \cup {n} /\ UNCHANGED tmp

RemoveStored(n) ==
    \/ store' = store \ {n} /\ UNCHANGED left
    \/ n \in store /\ left' = left \cup {n} /\ UNCHANGED store

----------------------------------------------------------------------------
(* upload_document. *)

(* A well-formed `file` part creates the temporary file.  A request that   *)
(* is refused before that touches nothing.                                 *)
Upload(r, n, s) ==
    /\ pc[r] = "idle"
    /\ n \notin used
    /\ used' = used \cup {n}
    /\ tmp' = tmp \cup {n}
    /\ Goto(r, "stream")
    /\ name' = [name EXCEPT ![r] = n]
    /\ who' = [who EXCEPT ![r] = s]
    /\ UNCHANGED <<rows, store, tmpLeft, left, unsure>>

(* Mutant of Refuse: the early return forgets the temporary file. *)
RefuseAndKeep(r) ==
    /\ pc[r] = "stream"
    /\ Return(r)
    /\ UNCHANGED <<rows, tmp, store, used, tmpLeft, left, unsure>>

(* A broken stream, too many bytes, no file, a bad doc_type, an agent who  *)
(* is not assigned, a missing student_id, a directory that cannot be made: *)
(* the temporary file is removed.                                          *)
Refuse(r) ==
    /\ pc[r] = "stream"
    /\ RemoveTemporary(name[r])
    /\ Return(r)
    /\ UNCHANGED <<rows, store, used, left, unsure>>

(* The one exit that removes nothing: `?` on the assignment query.         *)
AssignmentQueryFails(r) ==
    /\ pc[r] = "stream"
    /\ tmpLeft' = tmpLeft \cup {name[r]}
    /\ Return(r)
    /\ UNCHANGED <<rows, tmp, store, used, left, unsure>>

Rename(r) ==
    /\ pc[r] = "stream"
    /\ tmp' = tmp \ {name[r]}
    /\ store' = store \cup {name[r]}
    /\ Goto(r, "insert")
    /\ UNCHANGED <<rows, used, name, who, tmpLeft, left, unsure>>

(* A rename across devices fails and the file is copied instead; a copy    *)
(* that fails may leave a piece of the destination.                        *)
Copy(r) ==
    /\ pc[r] = "stream"
    /\ \/ /\ store' = store \cup {name[r]}
          /\ Goto(r, "copied")
          /\ UNCHANGED <<tmp, name, who, tmpLeft, left>>
       \/ /\ \/ UNCHANGED <<store, left>>
             \/ store' = store \cup {name[r]} /\ left' = left \cup {name[r]}
          /\ RemoveTemporary(name[r])
          /\ Return(r)
    /\ UNCHANGED <<rows, used, unsure>>

RemoveCopied(r) ==
    /\ pc[r] = "copied"
    /\ RemoveTemporary(name[r])
    /\ Goto(r, "insert")
    /\ UNCHANGED <<rows, store, used, name, who, left, unsure>>

(* create_document: the row is stored as 'pending' and the handler answers.*)
Insert(r) ==
    /\ pc[r] = "insert"
    /\ rows' = [rows EXCEPT ![name[r]] = [student_id |-> who[r], status |-> "pending"]]
    /\ Return(r)
    /\ UNCHANGED <<tmp, store, used, tmpLeft, left, unsure>>

(* The INSERT fails, or commits and its answer is lost on the way back. *)
InsertFails(r) ==
    /\ pc[r] = "insert"
    /\ \/ UNCHANGED <<rows, unsure>>
       \/ /\ rows' = [rows EXCEPT ![name[r]] = [student_id |-> who[r], status |-> "pending"]]
          /\ unsure' = unsure \cup {name[r]}
    /\ Goto(r, "discard")
    /\ UNCHANGED <<tmp, store, used, name, who, tmpLeft, left>>

(* Mutant of Discard: the wrong path is removed. *)
DiscardTemporary(r) ==
    /\ pc[r] = "discard"
    /\ tmp' = tmp \ {name[r]}
    /\ Return(r)
    /\ UNCHANGED <<rows, store, used, tmpLeft, left, unsure>>

(* "Delete file if DB insert fails": the removal may fail as well. *)
Discard(r) ==
    /\ pc[r] = "discard"
    /\ RemoveStored(name[r])
    /\ Return(r)
    /\ UNCHANGED <<rows, tmp, used, tmpLeft, unsure>>

----------------------------------------------------------------------------

(* verify_document_endpoint: one UPDATE, whatever the status was. *)
Verify(n, s) ==
    /\ rows[n] # None
    /\ s \in {"verified", "rejected"}
    /\ rows' = [rows EXCEPT ![n].status = s]
    /\ UNCHANGED <<tmp, store, used, pc, name, who, tmpLeft, left, unsure>>

----------------------------------------------------------------------------
(* delete_document. *)

MayDelete(u, row) == u = Admin \/ (u = row.student_id /\ row.status = "pending")

Delete(r, u, n) ==
    /\ pc[r] = "idle"
    /\ rows[n] # None
    /\ MayDelete(u, rows[n])
    /\ Goto(r, "delete")
    /\ name' = [name EXCEPT ![r] = n]
    /\ who' = [who EXCEPT ![r] = u]
    /\ UNCHANGED <<rows, tmp, store, used, tmpLeft, left, unsure>>

(* Mutant of DeleteRow: the file goes before the row. *)
UnlinkBeforeRow(r) ==
    /\ pc[r] = "delete"
    /\ store' = store \ {name[r]}
    /\ Goto(r, "unlink")
    /\ UNCHANGED <<rows, tmp, used, name, who, tmpLeft, left, unsure>>

(* Mutant of DeleteRow: rows_affected is not looked at. *)
DeleteUnchecked(r) ==
    /\ pc[r] = "delete"
    /\ rows' = [rows EXCEPT ![name[r]] = None]
    /\ Goto(r, "unlink")
    /\ UNCHANGED <<tmp, store, used, name, who, tmpLeft, left, unsure>>

(* DELETE .. WHERE id: with no row left, 404 and the file is not touched. *)
DeleteRow(r) ==
    /\ pc[r] = "delete"
    /\ \/ /\ rows[name[r]] # None
          /\ rows' = [rows EXCEPT ![name[r]] = None]
          /\ Goto(r, "unlink")
          /\ UNCHANGED <<name, who>>
       \/ /\ rows[name[r]] = None
          /\ Return(r)
          /\ UNCHANGED rows
    /\ UNCHANGED <<tmp, store, used, tmpLeft, left, unsure>>

Unlink(r) ==
    /\ pc[r] = "unlink"
    /\ RemoveStored(name[r])
    /\ Return(r)
    /\ UNCHANGED <<rows, tmp, used, tmpLeft, unsure>>

----------------------------------------------------------------------------
(* What the handler still had to remove, move or list is left behind.      *)
Abort(r) ==
    /\ pc[r] # "idle"
    /\ tmpLeft' = tmpLeft \cup {n \in {name[r]} : pc[r] \in {"stream", "copied"}}
    /\ left' = left \cup {n \in {name[r]} : pc[r] \in {"copied", "insert", "discard", "unlink"}}
    /\ Return(r)
    /\ UNCHANGED <<rows, tmp, store, used, unsure>>

Next ==
    \/ \E r \in Reqs :
          \/ \E n \in Names, s \in Students : Upload(r, n, s)
          \/ Refuse(r) \/ AssignmentQueryFails(r)
          \/ Rename(r) \/ Copy(r) \/ RemoveCopied(r)
          \/ Insert(r) \/ InsertFails(r) \/ Discard(r)
          \/ \E n \in Names, u \in Callers : Delete(r, u, n)
          \/ DeleteRow(r) \/ Unlink(r)
          \/ Abort(r)
    \/ \E n \in Names, s \in Status : Verify(n, s)

Spec == Init /\ [][Next]_vars

----------------------------------------------------------------------------
(* Properties. *)

(* Every row names a file that is there, so a download of a listed         *)
(* document does not end in "Physical file not found on disk"              *)
(* (documents.rs:297), through crashes, hang-ups and concurrent deletes;   *)
(* the one exception is a row whose INSERT committed and reported failure. *)
RowHasFile == \A n \in Names \ unsure : rows[n] # None => n \in store

(* A temporary file belongs to an upload still running, or was left by one *)
(* that ended early or whose remove_file failed: each of the many exits of *)
(* upload_document (documents.rs:162-237) removes it or moves it.          *)
TempAccounted ==
    \A n \in tmp \ tmpLeft :
       \E r \in Reqs : name[r] = n /\ pc[r] \in {"stream", "copied"}

(* A stored file has a row, or a handler that is about to write the row or *)
(* remove the file, or was left by a handler that ended early or whose     *)
(* remove_file failed: uploads and deletes that run to their end and whose *)
(* removals succeed leave no orphan.                                       *)
StoreAccounted ==
    \A n \in store \ left :
       \/ rows[n] # None
       \/ \E r \in Reqs : name[r] = n /\ pc[r] \in {"copied", "insert", "discard", "unlink"}

(* Of two deletes of a document, one wins: the other gets its 404 and      *)
(* never reaches the file.                                                 *)
OneUnlinker ==
    \A q, r \in Reqs :
       pc[q] = "unlink" /\ pc[r] = "unlink" /\ name[q] = name[r] => q = r

(* The uploads under way, each with its student. *)
Open == {<<name[r], who[r]>> : r \in {q \in Reqs : pc[q] \in {"stream", "copied", "insert"}}}

(* The handlers of routes/documents.rs keep what DocumentStore promises,   *)
(* whichever of their steps fail and however they interleave: no document  *)
(* comes back, and its file stays for as long as it is listed unless its   *)
(* upload was told that it had failed.                                     *)
Promised == INSTANCE DocumentStore WITH
                content <- store, begun <- used, open <- Open, doubtful <- unsure
KeepsDocuments == Promised!Spec
============================================================================
