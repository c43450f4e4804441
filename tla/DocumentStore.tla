--------------------------- MODULE DocumentStore ---------------------------
(* What the document store promises.  A document is listed once, by its    *)
(* own upload and for the student it was uploaded for, and not before its  *)
(* content is kept.  The content stays for as long as the document is      *)
(* listed, unless the upload was told that it had failed.  What has failed *)
(* or was removed is never listed again.                                   *)

CONSTANTS
    Names,      \* uploads, and the documents they make
    Students,   \* their owners
    None        \* not listed

VARIABLES
    rows,     \* document -> its entry in the list
    content,  \* documents whose content is kept
    begun,    \* uploads that have begun
    open,     \* uploads under way, each with its student
    doubtful  \* documents whose upload was told that it had failed

storeVars == <<rows, content, begun, open, doubtful>>

Init ==
    /\ rows = [n \in Names |-> None]
    /\ content = {}
    /\ begun = {}
    /\ open = {}
    /\ doubtful = {}

Begin(n, s) ==
    /\ n \notin begun
    /\ begun' = begun \cup {n}
    /\ open' = open \cup {<<n, s>>}
    /\ UNCHANGED <<rows, content, doubtful>>

Fill(n, s) ==
    /\ <<n, s>> \in open
    /\ content' = content \cup {n}
    /\ UNCHANGED <<rows, begun, open, doubtful>>

List(n, s) ==
    /\ <<n, s>> \in open
    /\ n \in content
    /\ rows' = [rows EXCEPT ![n] = [student_id |-> s, status |-> "pending"]]
    /\ open' = open \ {<<n, s>>}
    /\ doubtful' \in {doubtful, doubtful \cup {n}}
    /\ UNCHANGED <<content, begun>>

(* It may leave its content behind. *)
Fail(n, s) ==
    /\ <<n, s>> \in open
    /\ open' = open \ {<<n, s>>}
    /\ content' \in {content, content \cup {n}}
    /\ UNCHANGED <<rows, begun, doubtful>>

Review(n, status) ==
    /\ rows[n] # None
    /\ rows' = [rows EXCEPT ![n].status = status]
    /\ UNCHANGED <<content, begun, open, doubtful>>

Remove(n) ==
    /\ rows[n] # None
    /\ rows' = [rows EXCEPT ![n] = None]
    /\ UNCHANGED <<content, begun, open, doubtful>>

Clear(n) ==
    /\ rows[n] = None \/ n \in doubtful
    /\ \A s \in Students : <<n, s>> \notin open
    /\ content' = content \ {n}
    /\ UNCHANGED <<rows, begun, open, doubtful>>

Next ==
    \E n \in Names :
       \/ \E s \in Students : Begin(n, s) \/ Fill(n, s) \/ List(n, s) \/ Fail(n, s)
       \/ \E status \in {"verified", "rejected"} : Review(n, status)
       \/ Remove(n) \/ Clear(n)

Spec == Init /\ [][Next]_storeVars
============================================================================
