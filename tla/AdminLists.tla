----------------------------- MODULE AdminLists -----------------------------
(***************************************************************************)
(* The administrator's lists over the accounts: list_students, as          *)
(* list_enquiries and list_audit_logs, answers one page by two statements, *)
(* the rows and then the total.  A client walks the pages while accounts   *)
(* are registered and deactivated.                                         *)
(***************************************************************************)
EXTENDS Accounts, FiniteSets

CONSTANTS
    PageSize,  \* the `limit` of the query
    Word       \* 2^32: page and limit are u32, and a release build wraps

ASSUME ListConstants ==
    /\ PageSize \in Nat \ {0}
    /\ Word \in Nat
    /\ MaxRows + PageSize < Word

VARIABLES
    step,    \* what the walk does next
    page,    \* the page it asks for
    only,    \* whether it asks for active students only
    more,    \* whether the page was full
    need,    \* the last row of the page, counted from the first page
    total,   \* the total that came with it
    missing, \* history: students listed when the walk began and not shown since
    left     \* history: whether a student has left the list since

walk == <<step, page, only, more, need, total, missing, left>>
deskVars == <<vars, walk>>

WalkTypeOK ==
    /\ step \in {"rest", "page", "count", "over"}
    /\ page \in Nat
    /\ only \in BOOLEAN
    /\ more \in BOOLEAN
    /\ need \in Nat
    /\ total \in Nat
    /\ missing \subseteq Emails
    /\ left \in BOOLEAN

Rest ==
    /\ step = "rest"
    /\ page = 0
    /\ only = FALSE
    /\ more = FALSE
    /\ need = 0
    /\ total = 0
    /\ missing = {}
    /\ left = FALSE

(* WHERE is_active = $2 OR $2 IS NULL: places in the order of created_at,  *)
(* and the number that a place has among those that are listed.            *)
Listed(activeOnly) == {i \in DOMAIN order : activeOnly => students[order[i]].is_active}
Row(i, rows) == Cardinality({j \in rows : j <= i})

(* Mutant of Offset: the first page is page 0. *)
OffsetFromZero(p) == (p * PageSize) % Word

(* page.max(1), in 32 bits. *)
Offset(p) == (((IF p = 0 THEN 1 ELSE p) - 1) * PageSize) % Word

(* LIMIT $3 OFFSET $4. *)
OnPage(p, rows) == {i \in rows : Offset(p) < Row(i, rows) /\ Row(i, rows) <= Offset(p) + PageSize}

(* A client begins at page 1, or at page 0, which is the same. *)
StartWalk ==
    /\ step = "rest"
    /\ step' = "page"
    /\ page' \in {0, 1}
    /\ only' \in BOOLEAN
    /\ missing' = {order[i] : i \in Listed(only')}
    /\ UNCHANGED <<vars, more, need, total, left>>

ReadPage ==
    LET shown == OnPage(page, Listed(only))
    IN /\ step = "page"
       /\ step' = "count"
       /\ missing' = missing \ {order[i] : i \in shown}
       /\ more' = (Cardinality(shown) = PageSize)
       /\ need' = IF shown = {} THEN 0 ELSE Offset(page) + Cardinality(shown)
       /\ UNCHANGED <<vars, page, only, total, left>>

(* Mutant of ReadTotal: the COUNT's condition is not the page's. *)
ReadTotalActive ==
    /\ step = "count"
    /\ total' = Cardinality(Listed(TRUE))
    /\ step' = IF more THEN "page" ELSE "over"
    /\ page' = IF more THEN page + 1 ELSE page
    /\ UNCHANGED <<vars, only, more, need, missing, left>>

(* A client goes on as long as pages come back full. *)
ReadTotal ==
    /\ step = "count"
    /\ total' = Cardinality(Listed(only))
    /\ step' = IF more THEN "page" ELSE "over"
    /\ page' = IF more THEN page + 1 ELSE page
    /\ UNCHANGED <<vars, only, more, need, missing, left>>

(* It is over, or a statement failed. *)
EndWalk ==
    /\ step # "rest"
    /\ step' = "rest"
    /\ page' = 0
    /\ only' = FALSE
    /\ more' = FALSE
    /\ need' = 0
    /\ total' = 0
    /\ missing' = {}
    /\ left' = FALSE
    /\ UNCHANGED vars

(* Meanwhile a request is served. *)
Serve ==
    /\ Next
    /\ left' = (left \/ (step \in {"page", "count"} /\ only
                         /\ \E e \in Stored : students[e].is_active /\ ~students'[e].is_active))
    /\ UNCHANGED <<step, page, only, more, need, total, missing>>

DeskInit == Init /\ Rest
DeskNext == Serve \/ StartWalk \/ ReadPage \/ ReadTotal \/ EndWalk
DeskSpec == DeskInit /\ [][DeskNext]_deskVars

----------------------------------------------------------------------------
(* Properties. *)

(* A walk over all pages shows every student who was listed when it began, *)
(* although registrations push the rows on while it is under way; a list   *)
(* of active students may skip one only if another left the list.          *)
WalkMissesNothing == step = "over" /\ missing # {} => only /\ left

(* The total that comes with a page reaches at least to the page's last    *)
(* row, so that a pager never shows rows beyond its own end, unless a      *)
(* student left the list.                                                  *)
TotalCoversPage == step \in {"page", "over"} /\ ~left => need <= total
=============================================================================
