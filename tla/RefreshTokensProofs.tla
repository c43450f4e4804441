------------------------ MODULE RefreshTokensProofs ------------------------
(***************************************************************************)
(* Theorems about RefreshTokens, for every number of accounts, families,   *)
(* rows and concurrent handlers, any lifetime, leeway and clock bound.     *)
(***************************************************************************)
EXTENDS RefreshTokens, TLAPS

USE ConstantsAssumption, NoRowAssumption

----------------------------------------------------------------------------
(* What the three statements on the table do. *)

(* A minted token and the row that records it have their types. *)
LEMMA NewRowType ==
    ASSUME TypeOK, NEW u \in Users, NEW f \in Families, NEW p \in Ids \cup {NoRow}
    PROVE  /\ MintedToken(u, f) \in Token
           /\ NewRow(u, f, p) \in Row
           /\ NewRow(u, f, p) # NoRow
           /\ NewRow(u, f, p).user_id = u
           /\ NewRow(u, f, p).token_hash = MintedToken(u, f)
           /\ NewRow(u, f, p).token_family = f
           /\ ~NewRow(u, f, p).is_revoked
           /\ NewRow(u, f, p).parent = p
  <1>1. now \in Nat /\ now \in 0 .. MaxTime /\ now + TTL \in 0 .. MaxTime + TTL
    BY DEF TypeOK
  <1>2. MintedToken(u, f) \in Token
    BY <1>1 DEF MintedToken, Token
  <1>3. NewRow(u, f, p) \in Row
    BY <1>1, <1>2 DEF NewRow, Row
  <1>4. QED
    BY <1>2, <1>3 DEF NewRow

(* UPDATE .. SET is_revoked = TRUE keeps every row and every other column. *)
LEMMA RevokeEffect ==
    ASSUME TypeOK, NEW S \in SUBSET Present
    PROVE  /\ Revoke(S) \in [Ids -> Row \cup {NoRow}]
           /\ \A i \in Ids : Revoke(S)[i] = NoRow <=> table[i] = NoRow
           /\ \A i \in Present :
                 /\ Revoke(S)[i].user_id = table[i].user_id
                 /\ Revoke(S)[i].token_hash = table[i].token_hash
                 /\ Revoke(S)[i].token_family = table[i].token_family
                 /\ Revoke(S)[i].parent = table[i].parent
                 /\ Revoke(S)[i].is_revoked <=> (table[i].is_revoked \/ i \in S)
  <1>1. \A i \in Present : table[i] \in Row
    BY DEF TypeOK, Present
  <1>2. \A i \in Present : [table[i] EXCEPT !.is_revoked = TRUE] \in Row
    BY <1>1 DEF Row
  <1>3. \A i \in Ids : Revoke(S)[i] = IF i \in S THEN [table[i] EXCEPT !.is_revoked = TRUE]
                                                 ELSE table[i]
    BY DEF Revoke
  <1>4. Revoke(S) \in [Ids -> Row \cup {NoRow}]
    BY <1>2 DEF Revoke, TypeOK, Present
  <1>5. \A i \in Ids : Revoke(S)[i] = NoRow <=> table[i] = NoRow
    BY <1>2, <1>3 DEF Present
  <1>6. ASSUME NEW i \in Present
        PROVE  /\ Revoke(S)[i].user_id = table[i].user_id
               /\ Revoke(S)[i].token_hash = table[i].token_hash
               /\ Revoke(S)[i].token_family = table[i].token_family
               /\ Revoke(S)[i].parent = table[i].parent
               /\ Revoke(S)[i].is_revoked <=> (table[i].is_revoked \/ i \in S)
    <2>1. i \in Ids /\ table[i] \in Row
      BY <1>1 DEF Present
    <2>2. CASE i \in S
      <3>1. Revoke(S)[i] = [table[i] EXCEPT !.is_revoked = TRUE]
        BY <1>3, <2>1, <2>2
      <3>2. QED
        BY <3>1, <2>1, <2>2 DEF Row
    <2>3. CASE i \notin S
      BY <1>3, <2>1, <2>3
    <2>4. QED
      BY <2>2, <2>3
  <1>7. QED
    BY <1>4, <1>5, <1>6

(* An INSERT under a fresh id leaves every other row as it was. *)
LEMMA InsertEffect ==
    ASSUME TypeOK, NEW i \in Ids, NEW row \in Row
    PROVE  /\ Insert(i, row) \in [Ids -> Row \cup {NoRow}]
           /\ Insert(i, row)[i] = row
           /\ \A j \in Ids \ {i} : Insert(i, row)[j] = table[j]
  BY DEF Insert, TypeOK

----------------------------------------------------------------------------
(* Type correctness, with what a handler's program counter says of the row *)
(* it holds: that row exists, and has been revoked by the time the handler *)
(* is about to insert its successor.                                       *)

Holding == {"reuse", "revoke", "insert", "logout"}

HandlerOK ==
    \A r \in Reqs :
       /\ pc[r] \in Holding => db[r] \in Present
       /\ pc[r] = "insert" => table[db[r]].is_revoked
       /\ pc[r] = "respond" => reply[r] \in Token

(* Every step leaves the table alone, revokes a set of present rows, or    *)
(* inserts one row under an unused id; that row is a login's or replaces a *)
(* revoked row of the same account and family.                             *)
TableStep ==
    \/ UNCHANGED table
    \/ \E S \in SUBSET Present : table' = Revoke(S)
    \/ \E i \in Ids \ Present, u \in Users, f \in Families, p \in Ids \cup {NoRow} :
          /\ table' = Insert(i, NewRow(u, f, p))
          /\ \/ p = NoRow /\ RowsOf(f) = {}
             \/ /\ p \in Present
                /\ table[p].is_revoked
                /\ table[p].user_id = u
                /\ table[p].token_family = f

LEMMA StepIsTableStep ==
    ASSUME TypeOK, HandlerOK, [Next]_vars
    PROVE  TableStep
  <1>1. ASSUME NEW r \in Reqs, NEW u \in Users, NEW f \in Families, NEW i \in Ids,
               Login(r, u, f, i)
        PROVE  TableStep
    <2>1. i \in Ids \ Present
      BY <1>1 DEF Login, Present
    <2>2. RowsOf(f) = {} /\ table' = Insert(i, NewRow(u, f, NoRow))
      BY <1>1 DEF Login
    <2>3. QED
      BY <2>1, <2>2 DEF TableStep
  <1>2. ASSUME NEW r \in Reqs, NEW i \in Ids, RefreshInsert(r, i)
        PROVE  TableStep
    <2>1. i \in Ids \ Present
      BY <1>2 DEF RefreshInsert, Present
    <2>2. db[r] \in Present /\ table[db[r]].is_revoked /\ db[r] \in Ids
      BY <1>2 DEF RefreshInsert, HandlerOK, Holding, Present
    <2>3. table[db[r]] \in Row
      BY <2>2 DEF TypeOK, Present
    <2>4. table[db[r]].user_id \in Users /\ table[db[r]].token_family \in Families
      BY <2>3 DEF Row
    <2>5. table' = Insert(i, NewRow(table[db[r]].user_id, table[db[r]].token_family, db[r]))
      BY <1>2 DEF RefreshInsert
    <2>6. QED
      BY <2>1, <2>2, <2>4, <2>5 DEF TableStep
  <1>3. ASSUME NEW r \in Reqs, RefreshReuse(r)
        PROVE  TableStep
    BY <1>3 DEF RefreshReuse, TableStep, RowsOf
  <1>4. ASSUME NEW r \in Reqs, RefreshRevoke(r)
        PROVE  TableStep
    <2>1. {db[r]} \in SUBSET Present
      BY <1>4 DEF RefreshRevoke, HandlerOK, Holding
    <2>2. QED
      BY <1>4, <2>1 DEF RefreshRevoke, TableStep
  <1>5. ASSUME NEW r \in Reqs, LogoutRevoke(r)
        PROVE  TableStep
    BY <1>5 DEF LogoutRevoke, TableStep, RowsOf
  <1>6. ASSUME NEW r \in Reqs, NEW u \in Users, LogoutAll(r, u)
        PROVE  TableStep
    BY <1>6 DEF LogoutAll, TableStep
  <1>7. ASSUME NEW r \in Reqs, NEW t \in held, NEW i \in Ids,
               RefreshFind(r, t, i) \/ LogoutFind(r, t, i)
        PROVE  TableStep
    BY <1>7 DEF RefreshFind, LogoutFind, TableStep
  <1>8. ASSUME NEW r \in Reqs, Respond(r) \/ Abort(r)
        PROVE  TableStep
    BY <1>8 DEF Respond, Abort, TableStep
  <1>9. CASE Tick \/ UNCHANGED vars
    BY <1>9 DEF Tick, vars, TableStep
  <1>10. QED
    BY <1>1, <1>2, <1>3, <1>4, <1>5, <1>6, <1>7, <1>8, <1>9 DEF Next

(* A row, once inserted, keeps its account, token, family and parent, and  *)
(* stays revoked once it is; the table keeps its type.                     *)
LEMMA RowsPersist ==
    ASSUME TypeOK, TableStep
    PROVE  /\ table' \in [Ids -> Row \cup {NoRow}]
           /\ \A i \in Present :
                 /\ i \in Present'
                 /\ table'[i].user_id = table[i].user_id
                 /\ table'[i].token_hash = table[i].token_hash
                 /\ table'[i].token_family = table[i].token_family
                 /\ table'[i].parent = table[i].parent
                 /\ table[i].is_revoked => table'[i].is_revoked
  <1>1. CASE UNCHANGED table
    BY <1>1 DEF TypeOK, Present
  <1>2. ASSUME NEW S \in SUBSET Present, table' = Revoke(S)
        PROVE  /\ table' \in [Ids -> Row \cup {NoRow}]
               /\ \A i \in Present :
                     /\ i \in Present'
                     /\ table'[i].user_id = table[i].user_id
                     /\ table'[i].token_hash = table[i].token_hash
                     /\ table'[i].token_family = table[i].token_family
                     /\ table'[i].parent = table[i].parent
                     /\ table[i].is_revoked => table'[i].is_revoked
    BY <1>2, RevokeEffect DEF Present
  <1>3. ASSUME NEW i \in Ids \ Present, NEW u \in Users, NEW f \in Families,
               NEW p \in Ids \cup {NoRow}, table' = Insert(i, NewRow(u, f, p))
        PROVE  /\ table' \in [Ids -> Row \cup {NoRow}]
               /\ \A j \in Present :
                     /\ j \in Present'
                     /\ table'[j] = table[j]
    <2>1. NewRow(u, f, p) \in Row
      BY NewRowType
    <2>2. QED
      BY <1>3, <2>1, InsertEffect DEF Present
  <1>4. QED
    BY <1>1, <1>2, <1>3 DEF TableStep

(* What the handler at `insert` mints for the account of the row it holds. *)
LEMMA RotationMints ==
    ASSUME TypeOK, HandlerOK, NEW r \in Reqs, pc[r] = "insert"
    PROVE  LET old == table[db[r]]
               new == NewRow(old.user_id, old.token_family, db[r])
           IN  db[r] \in Present /\ db[r] \in Ids /\ old \in Row /\ new \in Row
               /\ new.token_hash \in Token
  <1> DEFINE old == table[db[r]]
             new == NewRow(old.user_id, old.token_family, db[r])
  <1>1. db[r] \in Present /\ db[r] \in Ids /\ old \in Row
    BY DEF HandlerOK, Holding, Present, TypeOK
  <1>2. old.user_id \in Users /\ old.token_family \in Families
    BY <1>1 DEF Row
  <1>3. new \in Row
    <2> HIDE DEF old
    <2>1. QED
      BY <1>1, <1>2, NewRowType
  <1>4. new.token_hash \in Token
    <2> HIDE DEF new
    <2>1. QED
      BY <1>3 DEF Row
  <1>5. QED
    BY <1>1, <1>3, <1>4

LEMMA TypeStep ==
    ASSUME TypeOK, HandlerOK, [Next]_vars
    PROVE  TypeOK'
  <1>1. table' \in [Ids -> Row \cup {NoRow}]
    BY StepIsTableStep, RowsPersist
  <1>2. now' \in 0 .. MaxTime
    <2>1. CASE Tick
      BY <2>1 DEF Tick, TypeOK
    <2>2. CASE UNCHANGED now
      BY <2>2 DEF TypeOK
    <2>3. QED
      BY <2>1, <2>2 DEF Next, vars, Login, RefreshFind, RefreshReuse, RefreshRevoke,
         RefreshInsert, Respond, LogoutFind, LogoutRevoke, LogoutAll, Abort
  <1>3. pc' \in [Reqs -> Phases]
    <2>1. \/ pc' = pc
          \/ \E r \in Reqs, p \in Phases : pc' = [pc EXCEPT ![r] = p]
      BY DEF Phases, Next, vars, Tick, Login, RefreshFind, RefreshReuse,
         RefreshRevoke, RefreshInsert, Respond, LogoutFind, LogoutRevoke, LogoutAll, Abort
    <2>2. QED
      BY <2>1 DEF TypeOK
  <1>4. db' \in [Reqs -> Ids \cup {NoRow}]
    BY DEF TypeOK, Next, vars, Tick, Login, RefreshFind, RefreshReuse,
       RefreshRevoke, RefreshInsert, Respond, LogoutFind, LogoutRevoke, LogoutAll, Abort
  <1>5. ASSUME NEW r \in Reqs, NEW i \in Ids, RefreshInsert(r, i)
        PROVE  reply' \in [Reqs -> Token \cup {NoRow}] /\ reply'[r] \in Token
    <2> DEFINE t == NewRow(table[db[r]].user_id, table[db[r]].token_family, db[r]).token_hash
    <2>1. t \in Token /\ reply' = [reply EXCEPT ![r] = t]
      BY <1>5, RotationMints DEF RefreshInsert
    <2> HIDE DEF t
    <2>2. QED
      BY <2>1 DEF TypeOK
  <1>6. ASSUME NEW r \in Reqs, NEW u \in Users, NEW f \in Families, NEW i \in Ids,
               Login(r, u, f, i)
        PROVE  reply' \in [Reqs -> Token \cup {NoRow}] /\ reply'[r] \in Token
    <2>1. MintedToken(u, f) \in Token
      BY NewRowType
    <2>2. QED
      BY <1>6, <2>1 DEF Login, TypeOK
  <1>7. reply' \in [Reqs -> Token \cup {NoRow}]
    BY <1>5, <1>6 DEF TypeOK, Next, vars, Tick, RefreshFind, RefreshReuse,
       RefreshRevoke, Respond, LogoutFind, LogoutRevoke, LogoutAll, Abort
  <1>8. held' \subseteq Token
    <2>1. held' = held \/ \E r \in Reqs : pc[r] = "respond" /\ held' = held \cup {reply[r]}
      BY DEF Next, vars, Tick, Login, RefreshFind, RefreshReuse,
       RefreshRevoke, RefreshInsert, Respond, LogoutFind, LogoutRevoke, LogoutAll, Abort
    <2>2. QED
      BY <2>1 DEF HandlerOK, TypeOK
  <1>9. \A r \in Reqs : pc[r] \in Holding => table[db[r]].token_family \in Families
    BY DEF HandlerOK, TypeOK, Present, Row
  <1>10. closed' \subseteq Families
    <2>1. \A i \in Present : table[i].token_family \in Families
      BY DEF TypeOK, Present, Row
    <2>2. CASE closed' = closed
      BY <2>2 DEF TypeOK
    <2>3. ASSUME NEW r \in Reqs, RefreshReuse(r) \/ LogoutRevoke(r)
          PROVE  closed' \subseteq Families
      BY <1>9, <2>3 DEF RefreshReuse, LogoutRevoke, Holding, TypeOK
    <2>4. ASSUME NEW r \in Reqs, NEW u \in Users, LogoutAll(r, u)
          PROVE  closed' \subseteq Families
      BY <2>1, <2>4 DEF LogoutAll, TypeOK
    <2>5. QED
      BY <2>2, <2>3, <2>4 DEF Next, vars, Tick, Login, RefreshFind, RefreshRevoke,
         RefreshInsert, Respond, LogoutFind, Abort
  <1>11. raced' \subseteq Families
    <2>1. \A i \in Present : table[i].token_family \in Families
      BY DEF TypeOK, Present, Row
    <2>2. CASE raced' = raced
      BY <2>2 DEF TypeOK
    <2>3. ASSUME NEW r \in Reqs, RefreshReuse(r) \/ LogoutRevoke(r)
          PROVE  raced' \subseteq Families
      BY <1>9, <2>3 DEF RefreshReuse, LogoutRevoke, Holding, TypeOK, RacedWith
    <2>4. ASSUME NEW r \in Reqs, NEW u \in Users, LogoutAll(r, u)
          PROVE  raced' \subseteq Families
      BY <2>1, <2>4 DEF LogoutAll, TypeOK, RacedWith
    <2>5. ASSUME NEW r \in Reqs, NEW t \in held, NEW i \in Ids, RefreshFind(r, t, i)
          PROVE  raced' \subseteq Families
      BY <2>1, <2>5 DEF RefreshFind, Matching, TypeOK, RacedWith
    <2>6. QED
      BY <2>2, <2>3, <2>4, <2>5 DEF Next, vars, Tick, Login, RefreshRevoke,
         RefreshInsert, Respond, LogoutFind, Abort
  <1>12. QED
    BY <1>1, <1>2, <1>3, <1>4, <1>7, <1>8, <1>10, <1>11 DEF TypeOK

LEMMA HandlerStep ==
    ASSUME TypeOK, HandlerOK, [Next]_vars
    PROVE  HandlerOK'
  <1>1. \A i \in Present :
           i \in Present' /\ (table[i].is_revoked => table'[i].is_revoked)
    BY StepIsTableStep, RowsPersist
  <1> SUFFICES ASSUME NEW q \in Reqs
               PROVE  /\ pc'[q] \in Holding => db'[q] \in Present'
                      /\ pc'[q] = "insert" => table'[db'[q]].is_revoked
                      /\ pc'[q] = "respond" => reply'[q] \in Token
    BY DEF HandlerOK
  <1>2. CASE pc'[q] = pc[q] /\ db'[q] = db[q] /\ reply'[q] = reply[q]
    BY <1>1, <1>2 DEF HandlerOK, Holding
  <1>3. CASE pc'[q] = "idle"
    BY <1>3 DEF Holding
  <1>4. ASSUME NEW t \in held, NEW i \in Ids, RefreshFind(q, t, i) \/ LogoutFind(q, t, i)
        PROVE  pc'[q] \in {"reuse", "revoke", "logout"} /\ db'[q] \in Present'
    BY <1>1, <1>4 DEF RefreshFind, LogoutFind, Matching, TypeOK
  <1>5. ASSUME RefreshRevoke(q)
        PROVE  pc'[q] = "insert" /\ db'[q] \in Present' /\ table'[db'[q]].is_revoked
    <2>1. db[q] \in Present /\ {db[q]} \in SUBSET Present
      BY <1>5 DEF RefreshRevoke, HandlerOK, Holding
    <2>2. table' = Revoke({db[q]}) /\ db' = db /\ pc'[q] = "insert"
      BY <1>5 DEF RefreshRevoke, TypeOK
    <2>3. table'[db[q]].is_revoked
      BY <2>1, <2>2, RevokeEffect
    <2>4. QED
      BY <1>1, <2>1, <2>2, <2>3
  <1>6. ASSUME NEW i \in Ids, RefreshInsert(q, i)
        PROVE  pc'[q] = "respond" /\ reply'[q] \in Token
    <2> DEFINE t == NewRow(table[db[q]].user_id, table[db[q]].token_family, db[q]).token_hash
    <2>1. t \in Token /\ reply' = [reply EXCEPT ![q] = t] /\ pc' = [pc EXCEPT ![q] = "respond"]
      BY <1>6, RotationMints DEF RefreshInsert
    <2> HIDE DEF t
    <2>2. QED
      BY <2>1 DEF TypeOK
  <1>7. ASSUME NEW u \in Users, NEW f \in Families, NEW i \in Ids, Login(q, u, f, i)
        PROVE  pc'[q] = "respond" /\ reply'[q] \in Token
    <2>1. MintedToken(u, f) \in Token
      BY NewRowType
    <2>2. QED
      BY <1>7, <2>1 DEF Login, TypeOK
  <1>8. QED
    <2>1. CASE Tick \/ UNCHANGED vars
      BY <1>2, <2>1 DEF Tick, vars
    <2>2. ASSUME NEW r \in Reqs \ {q}, NEW u \in Users, NEW f \in Families, NEW i \in Ids,
                 Login(r, u, f, i)
          PROVE  pc'[q] = pc[q] /\ db'[q] = db[q] /\ reply'[q] = reply[q]
      BY <2>2 DEF Login, TypeOK
    <2>3. ASSUME NEW r \in Reqs \ {q}, NEW t \in held, NEW i \in Ids,
                 RefreshFind(r, t, i) \/ LogoutFind(r, t, i) \/ RefreshInsert(r, i)
          PROVE  pc'[q] = pc[q] /\ db'[q] = db[q] /\ reply'[q] = reply[q]
      BY <2>3 DEF RefreshFind, LogoutFind, RefreshInsert, TypeOK
    <2>4. ASSUME NEW r \in Reqs \ {q}, NEW i \in Ids, RefreshInsert(r, i)
          PROVE  pc'[q] = pc[q] /\ db'[q] = db[q] /\ reply'[q] = reply[q]
      BY <2>4 DEF RefreshInsert, TypeOK
    <2>5. ASSUME NEW r \in Reqs \ {q},
                 RefreshReuse(r) \/ RefreshRevoke(r) \/ Respond(r) \/ LogoutRevoke(r) \/ Abort(r)
          PROVE  pc'[q] = pc[q] /\ db'[q] = db[q] /\ reply'[q] = reply[q]
      BY <2>5 DEF RefreshReuse, RefreshRevoke, Respond, LogoutRevoke, Abort, TypeOK
    <2>6. ASSUME NEW r \in Reqs, NEW u \in Users, LogoutAll(r, u)
          PROVE  pc'[q] = pc[q] /\ db'[q] = db[q] /\ reply'[q] = reply[q]
      BY <2>6 DEF LogoutAll, TypeOK
    <2>7. ASSUME RefreshReuse(q) \/ Respond(q) \/ LogoutRevoke(q) \/ Abort(q)
          PROVE  pc'[q] = "idle"
      BY <2>7 DEF RefreshReuse, Respond, LogoutRevoke, Abort, TypeOK
    <2>8. QED
      BY <1>2, <1>3, <1>4, <1>5, <1>6, <1>7, <2>1, <2>2, <2>3, <2>4, <2>5, <2>6, <2>7
         DEF Next, Holding

(* Every variable keeps its type, and a handler never holds a row that is  *)
(* not in the table nor inserts the successor of a row still valid.        *)
THEOREM TypeCorrect == Spec => [](TypeOK /\ HandlerOK)
  <1>1. Init => TypeOK /\ HandlerOK
    <2>1. 0 \in 0 .. MaxTime
      OBVIOUS
    <2>2. QED
      BY <2>1 DEF Init, TypeOK, HandlerOK, Holding, Phases
  <1>2. TypeOK /\ HandlerOK /\ [Next]_vars => (TypeOK /\ HandlerOK)'
    BY TypeStep, HandlerStep
  <1>3. QED
    BY <1>1, <1>2, PTL DEF Spec

(* RefreshTokens!RevokedForever: no statement of the service clears        *)
(* is_revoked or removes a row.                                            *)
THEOREM RevocationIsFinal == Spec => RevokedForever
  <1>1. TypeOK /\ HandlerOK /\ [Next]_vars =>
           [\A i \in Present : table[i].is_revoked =>
               table'[i] # NoRow /\ table'[i].is_revoked]_vars
    <2> SUFFICES ASSUME TypeOK, HandlerOK, [Next]_vars, NEW i \in Present, table[i].is_revoked
                 PROVE  table'[i] # NoRow /\ table'[i].is_revoked
      OBVIOUS
    <2>1. QED
      BY StepIsTableStep, RowsPersist DEF Present
  <1>2. QED
    BY <1>1, TypeCorrect, PTL DEF Spec, RevokedForever

----------------------------------------------------------------------------
(* Rotation order and ownership: both follow from TableStep alone. *)

ParentOK ==
    \A i \in Present : table[i].parent \in Ids =>
        table[i].parent \in Present /\ table[table[i].parent].is_revoked

(* The row of an INSERT and the rows it finds, one step later. *)
LEMMA InsertStep ==
    ASSUME TypeOK, NEW i \in Ids \ Present, NEW u \in Users, NEW f \in Families,
           NEW p \in Ids \cup {NoRow}, table' = Insert(i, NewRow(u, f, p))
    PROVE  /\ Present' = Present \cup {i}
           /\ table'[i].user_id = u
           /\ table'[i].token_hash = MintedToken(u, f)
           /\ table'[i].token_family = f
           /\ ~table'[i].is_revoked
           /\ table'[i].parent = p
           /\ \A j \in Present : table'[j] = table[j]
  <1> DEFINE row == NewRow(u, f, p)
  <1>1. /\ row \in Row
        /\ row # NoRow
        /\ row.user_id = u
        /\ row.token_hash = MintedToken(u, f)
        /\ row.token_family = f
        /\ ~row.is_revoked
        /\ row.parent = p
    <2>1. row \in Row /\ row # NoRow
      BY NewRowType
    <2>2. QED
      BY <2>1 DEF NewRow
  <1> HIDE DEF row
  <1>2. table'[i] = row /\ \A j \in Ids \ {i} : table'[j] = table[j]
    BY <1>1, InsertEffect DEF row
  <1>3. Present' = Present \cup {i}
    BY <1>1, <1>2 DEF Present
  <1>4. \A j \in Present : table'[j] = table[j]
    BY <1>2 DEF Present
  <1>5. QED
    BY <1>1, <1>2, <1>3, <1>4

(* The rows of a revoking UPDATE, one step later. *)
LEMMA RevokeStep ==
    ASSUME TypeOK, NEW S \in SUBSET Present, table' = Revoke(S)
    PROVE  /\ Present' = Present
           /\ \A i \in Present :
                 /\ table'[i].user_id = table[i].user_id
                 /\ table'[i].token_hash = table[i].token_hash
                 /\ table'[i].token_family = table[i].token_family
                 /\ table'[i].parent = table[i].parent
                 /\ table'[i].is_revoked <=> (table[i].is_revoked \/ i \in S)
  BY RevokeEffect DEF Present

LEMMA OrderStep ==
    ASSUME TypeOK, HandlerOK, [Next]_vars, ParentOK, FamilyHasOneOwner
    PROVE  ParentOK' /\ FamilyHasOneOwner'
  <1>1. CASE UNCHANGED table
    BY <1>1 DEF ParentOK, FamilyHasOneOwner, Present
  <1>2. ASSUME NEW S \in SUBSET Present, table' = Revoke(S)
        PROVE  ParentOK' /\ FamilyHasOneOwner'
    BY <1>2, RevokeStep DEF ParentOK, FamilyHasOneOwner
  <1>3. ASSUME NEW i \in Ids \ Present, NEW u \in Users, NEW f \in Families,
               NEW p \in Ids \cup {NoRow}, table' = Insert(i, NewRow(u, f, p)),
               \/ p = NoRow /\ RowsOf(f) = {}
               \/ /\ p \in Present
                  /\ table[p].is_revoked
                  /\ table[p].user_id = u
                  /\ table[p].token_family = f
        PROVE  ParentOK' /\ FamilyHasOneOwner'
    <2>1. /\ Present' = Present \cup {i}
          /\ table'[i].user_id = u
          /\ table'[i].token_family = f
          /\ table'[i].parent = p
          /\ \A j \in Present : table'[j] = table[j]
      BY <1>3, InsertStep
    <2>2. ParentOK'
      BY <1>3, <2>1 DEF ParentOK
    <2>3. \A j \in Present : table[j].token_family = f => table[j].user_id = u
      BY <1>3 DEF FamilyHasOneOwner, RowsOf
    <2>4. FamilyHasOneOwner'
      BY <2>1, <2>3 DEF FamilyHasOneOwner
    <2>5. QED
      BY <2>2, <2>4
  <1>4. QED
    BY <1>1, <1>2, <1>3, StepIsTableStep DEF TableStep

(* A rotation never leaves both tokens usable, whatever interleaves. *)
THEOREM RotationRevokesParent == Spec => []ParentRevoked
  <1>1. Init => ParentOK /\ FamilyHasOneOwner
    BY DEF Init, ParentOK, FamilyHasOneOwner, Present
  <1>2. TypeOK /\ HandlerOK /\ [Next]_vars /\ ParentOK /\ FamilyHasOneOwner
           => ParentOK' /\ FamilyHasOneOwner'
    BY OrderStep
  <1>3. ParentOK => ParentRevoked
    BY DEF ParentOK, ParentRevoked
  <1>4. QED
    BY <1>1, <1>2, <1>3, TypeCorrect, PTL DEF Spec

(* The rows of a family belong to one account. *)
THEOREM FamilyOwnership == Spec => []FamilyHasOneOwner
  <1>1. Init => ParentOK /\ FamilyHasOneOwner
    BY DEF Init, ParentOK, FamilyHasOneOwner, Present
  <1>2. TypeOK /\ HandlerOK /\ [Next]_vars /\ ParentOK /\ FamilyHasOneOwner
           => ParentOK' /\ FamilyHasOneOwner'
    BY OrderStep
  <1>3. QED
    BY <1>1, <1>2, TypeCorrect, PTL DEF Spec

----------------------------------------------------------------------------
(* The response waits for the row. *)

ReplyKnown == \A r \in Reqs : pc[r] = "respond" => Matching(reply[r]) # {}

LEMMA KnownStep ==
    ASSUME TypeOK, HandlerOK, [Next]_vars, ReplyKnown, HeldTokenKnown
    PROVE  ReplyKnown' /\ HeldTokenKnown'
  <1>1. \A t : Matching(t) # {} => Matching(t)' # {}
    BY StepIsTableStep, RowsPersist DEF Matching
  <1>2. ASSUME NEW r \in Reqs, NEW i \in Ids, NEW u \in Users, NEW f \in Families,
               NEW p \in Ids \cup {NoRow}, i \notin Present,
               table' = Insert(i, NewRow(u, f, p)), held' = held,
               reply' = [reply EXCEPT ![r] = MintedToken(u, f)],
               pc' = [pc EXCEPT ![r] = "respond"]
        PROVE  ReplyKnown' /\ HeldTokenKnown'
    <2>1. i \in Present' /\ table'[i].token_hash = MintedToken(u, f)
      BY <1>2, InsertStep
    <2>2. reply'[r] = MintedToken(u, f) /\ \A q \in Reqs \ {r} : reply'[q] = reply[q] /\ pc'[q] = pc[q]
      BY <1>2 DEF TypeOK
    <2>3. Matching(reply[r])' # {}
      BY <2>1, <2>2 DEF Matching
    <2>4. QED
      BY <1>1, <1>2, <2>2, <2>3 DEF ReplyKnown, HeldTokenKnown
  <1>3. ASSUME NEW r \in Reqs, NEW u \in Users, NEW f \in Families, NEW i \in Ids,
               Login(r, u, f, i)
        PROVE  ReplyKnown' /\ HeldTokenKnown'
    BY <1>2, <1>3 DEF Login, Present
  <1>4. ASSUME NEW r \in Reqs, NEW i \in Ids, RefreshInsert(r, i)
        PROVE  ReplyKnown' /\ HeldTokenKnown'
    <2> DEFINE old == table[db[r]]
    <2>1. db[r] \in Ids /\ old \in Row
      BY <1>4, RotationMints DEF RefreshInsert
    <2>2. old.user_id \in Users /\ old.token_family \in Families
      BY <2>1 DEF Row
    <2>3. NewRow(old.user_id, old.token_family, db[r]).token_hash
             = MintedToken(old.user_id, old.token_family)
      BY DEF NewRow
    <2>4. /\ table' = Insert(i, NewRow(old.user_id, old.token_family, db[r]))
          /\ reply' = [reply EXCEPT ![r] = MintedToken(old.user_id, old.token_family)]
          /\ pc' = [pc EXCEPT ![r] = "respond"]
          /\ held' = held /\ i \notin Present
      BY <1>4, <2>3 DEF RefreshInsert, Present
    <2> HIDE DEF old
    <2>5. QED
      BY <1>2, <2>1, <2>2, <2>4
  <1>5. ASSUME NEW r \in Reqs, Respond(r)
        PROVE  ReplyKnown' /\ HeldTokenKnown'
    BY <1>1, <1>5 DEF Respond, ReplyKnown, HeldTokenKnown, TypeOK
  <1>6. ASSUME NEW r \in Reqs, Abort(r)
        PROVE  ReplyKnown' /\ HeldTokenKnown'
    BY <1>1, <1>6 DEF Abort, ReplyKnown, HeldTokenKnown, TypeOK
  <1>7. ASSUME reply' = reply, held' = held,
               \A r \in Reqs : pc'[r] = "respond" => pc[r] = "respond"
        PROVE  ReplyKnown' /\ HeldTokenKnown'
    BY <1>1, <1>7 DEF ReplyKnown, HeldTokenKnown
  <1>8. QED
    <2>1. ASSUME NEW r \in Reqs,
                 \/ RefreshReuse(r) \/ RefreshRevoke(r) \/ LogoutRevoke(r)
                 \/ \E u \in Users : LogoutAll(r, u)
                 \/ \E t \in held, i \in Ids : RefreshFind(r, t, i) \/ LogoutFind(r, t, i)
          PROVE  ReplyKnown' /\ HeldTokenKnown'
      BY <1>7, <2>1 DEF RefreshReuse, RefreshRevoke, LogoutRevoke, LogoutAll, RefreshFind,
         LogoutFind, TypeOK
    <2>2. CASE Tick \/ UNCHANGED vars
      BY <1>7, <2>2 DEF Tick, vars
    <2>3. QED
      BY <1>3, <1>4, <1>5, <1>6, <2>1, <2>2 DEF Next

(* Every token a client holds is in the table. *)
THEOREM ClientsHoldKnownTokens == Spec => []HeldTokenKnown
  <1>1. Init => ReplyKnown /\ HeldTokenKnown
    BY DEF Init, ReplyKnown, HeldTokenKnown
  <1>2. TypeOK /\ HandlerOK /\ [Next]_vars /\ ReplyKnown /\ HeldTokenKnown
           => ReplyKnown' /\ HeldTokenKnown'
    BY KnownStep
  <1>3. QED
    BY <1>1, <1>2, TypeCorrect, PTL DEF Spec

----------------------------------------------------------------------------
(* Sessions without overlapping writers.  SessionOK strengthens the two    *)
(* properties with where the single writer stands: from its UPDATE to its  *)
(* INSERT the family has no usable token, and a family that was ended has  *)
(* no writer left to bring it back.                                        *)

SessionOK(f) ==
    /\ \A q, r \in Writers(f) : q = r
    /\ \A r \in Writers(f) : pc[r] = "insert" => LiveOf(f) = {}
    /\ \A r \in Writers(f) : pc[r] = "revoke" => LiveOf(f) \subseteq {db[r]}
    /\ \A i, j \in LiveOf(f) : i = j
    /\ f \in closed => RowsOf(f) # {} /\ LiveOf(f) = {} /\ Writers(f) = {}

SessionInv == \A f \in Families \ raced : SessionOK(f)

(* A step that only takes usable tokens and writers from a family. *)
LEMMA Shrink ==
    ASSUME NEW f \in Families, SessionOK(f),
           RowsOf(f) \subseteq RowsOf(f)', LiveOf(f)' \subseteq LiveOf(f),
           Writers(f)' \subseteq Writers(f),
           \A q \in Writers(f)' : pc'[q] = pc[q] /\ db'[q] = db[q],
           f \in closed' => f \in closed
    PROVE  SessionOK(f)'
  BY DEF SessionOK

(* What a statement does to the rows and the usable rows of a family. *)
LEMMA RevokeFamilies ==
    ASSUME TypeOK, NEW S \in SUBSET Present, table' = Revoke(S), NEW f
    PROVE  RowsOf(f)' = RowsOf(f) /\ LiveOf(f)' = LiveOf(f) \ S
  <1>1. RowsOf(f)' = RowsOf(f)
    BY RevokeStep DEF RowsOf
  <1>2. Live' = Live \ S
    BY RevokeStep DEF Live
  <1>3. QED
    BY <1>1, <1>2 DEF LiveOf

LEMMA InsertFamilies ==
    ASSUME TypeOK, NEW i \in Ids \ Present, NEW u \in Users, NEW g \in Families,
           NEW p \in Ids \cup {NoRow}, table' = Insert(i, NewRow(u, g, p)), NEW f
    PROVE  /\ RowsOf(f) \subseteq RowsOf(f)'
           /\ f # g => LiveOf(f)' = LiveOf(f)
           /\ f = g => LiveOf(f)' = LiveOf(f) \cup {i}
  <1>1. /\ Present' = Present \cup {i}
        /\ table'[i].token_family = g
        /\ ~table'[i].is_revoked
        /\ \A j \in Present : table'[j] = table[j]
    BY InsertStep
  <1>2. RowsOf(f)' = RowsOf(f) \cup (IF f = g THEN {i} ELSE {})
    BY <1>1 DEF RowsOf
  <1>3. Live' = Live \cup {i}
    BY <1>1 DEF Live
  <1>4. i \notin RowsOf(f)
    BY DEF RowsOf
  <1>5. QED
    BY <1>2, <1>3, <1>4 DEF LiveOf

(* A handler whose step another takes stays a writer of its family. *)
LEMMA WritersFrame ==
    ASSUME TypeOK, HandlerOK, TableStep, NEW r \in Reqs, NEW f,
           \A q \in Reqs \ {r} : pc'[q] = pc[q] /\ db'[q] = db[q]
    PROVE  /\ Writers(f)' \ {r} = Writers(f) \ {r}
           /\ pc'[r] \notin {"revoke", "insert"} => r \notin Writers(f)'
           /\ pc[r] \notin {"revoke", "insert"} => r \notin Writers(f)
  <1>1. \A i \in Present : table'[i].token_family = table[i].token_family
    BY RowsPersist
  <1>2. \A q \in Reqs : pc[q] \in {"revoke", "insert"} => db[q] \in Present
    BY DEF HandlerOK, Holding
  <1>3. QED
    BY <1>1, <1>2 DEF Writers

(* A writer's row is one of its family's rows. *)
LEMMA WriterHasRow ==
    ASSUME HandlerOK, NEW f, NEW r \in Writers(f)
    PROVE  r \in Reqs /\ db[r] \in RowsOf(f) /\ table[db[r]].token_family = f
  BY DEF HandlerOK, Holding, Writers, RowsOf

LEMMA SessionStep ==
    ASSUME TypeOK, HandlerOK, FamilyHasOneOwner, SessionInv, [Next]_vars
    PROVE  SessionInv'
  <1> SUFFICES ASSUME NEW f \in Families, f \notin raced'
               PROVE  SessionOK(f)'
    BY DEF SessionInv
  <1>1. f \notin raced
    BY DEF RacedWith, Next, vars, Tick, Login, RefreshFind, RefreshReuse, RefreshRevoke,
       RefreshInsert, Respond, LogoutFind, LogoutRevoke, LogoutAll, Abort
  <1>2. SessionOK(f)
    BY <1>1 DEF SessionInv
  <1>3. TableStep
    BY StepIsTableStep
  <1>4. ASSUME NEW r \in Reqs, NEW u \in Users, NEW g \in Families, NEW i \in Ids,
               Login(r, u, g, i)
        PROVE  SessionOK(f)'
    <2>1. /\ table' = Insert(i, NewRow(u, g, NoRow)) /\ i \in Ids \ Present
          /\ RowsOf(g) = {} /\ closed' = closed
          /\ pc[r] = "idle" /\ pc'[r] = "respond" /\ db' = db
          /\ \A q \in Reqs \ {r} : pc'[q] = pc[q]
      BY <1>4 DEF Login, Present, TypeOK
    <2>2. Writers(f)' = Writers(f) /\ \A q \in Writers(f)' : pc'[q] = pc[q] /\ db'[q] = db[q]
      BY <1>3, <2>1, WritersFrame DEF Writers
    <2>3. CASE f # g
      BY <1>2, <2>1, <2>2, <2>3, InsertFamilies, Shrink
    <2>4. CASE f = g
      <3>1. Writers(f) = {} /\ LiveOf(f) = {} /\ f \notin closed
        BY <1>2, <2>1, <2>4, WriterHasRow DEF SessionOK, LiveOf
      <3>2. LiveOf(f)' = {i}
        BY <2>1, <2>4, <3>1, InsertFamilies
      <3>3. QED
        BY <2>1, <2>2, <3>1, <3>2 DEF SessionOK
    <2>5. QED
      BY <2>3, <2>4
  <1>5. ASSUME NEW r \in Reqs, NEW t \in held, NEW i \in Ids, RefreshFind(r, t, i)
        PROVE  SessionOK(f)'
    <2>1. /\ table' = table /\ closed' = closed
          /\ pc[r] = "idle" /\ i \in Present /\ db'[r] = i
          /\ \A q \in Reqs \ {r} : pc'[q] = pc[q] /\ db'[q] = db[q]
      BY <1>5 DEF RefreshFind, Matching, TypeOK
    <2>2. RowsOf(f)' = RowsOf(f) /\ LiveOf(f)' = LiveOf(f)
      BY <2>1 DEF RowsOf, LiveOf, Live, Present
    <2>3. Writers(f)' \ {r} = Writers(f) /\ r \notin Writers(f)
      BY <1>3, <2>1, WritersFrame
    <2>4. CASE pc'[r] = "reuse" \/ table[i].token_family # f
      <3>1. r \notin Writers(f)'
        BY <2>1, <2>4 DEF Writers
      <3>2. QED
        BY <1>2, <2>1, <2>2, <2>3, <3>1, Shrink DEF Writers
    <2>5. CASE pc'[r] # "reuse" /\ table[i].token_family = f
      <3>1. /\ pc'[r] = "revoke" /\ ~table[i].is_revoked
            /\ raced' = RacedWith({f}, r)
        BY <1>5, <2>5 DEF RefreshFind, TypeOK
      <3>2. Writers(f) = {}
        BY <2>3, <3>1 DEF RacedWith
      <3>3. i \in LiveOf(f)
        BY <2>1, <2>5, <3>1 DEF LiveOf, RowsOf, Live
      <3>4. LiveOf(f) = {i} /\ f \notin closed
        BY <1>2, <3>3 DEF SessionOK
      <3>5. Writers(f)' \subseteq {r}
        BY <2>3, <3>2
      <3>6. QED
        BY <2>1, <2>2, <3>1, <3>4, <3>5 DEF SessionOK
    <2>6. QED
      BY <2>4, <2>5
  <1>6. ASSUME NEW r \in Reqs, NEW g, NEW C, NEW S \in SUBSET Present,
               table' = Revoke(S), closed' = closed \cup C, raced' = RacedWith(C, r),
               pc[r] \notin {"revoke", "insert"}, pc'[r] \notin {"revoke", "insert"},
               \A q \in Reqs \ {r} : pc'[q] = pc[q] /\ db'[q] = db[q],
               f \in C => RowsOf(f) # {} /\ RowsOf(f) \subseteq S
        PROVE  SessionOK(f)'
    <2>1. RowsOf(f)' = RowsOf(f) /\ LiveOf(f)' = LiveOf(f) \ S
      BY <1>6, RevokeFamilies
    <2>2. Writers(f)' = Writers(f) /\ r \notin Writers(f)
      BY <1>3, <1>6, WritersFrame
    <2>3. CASE f \in C
      <3>1. Writers(f) = {}
        BY <1>6, <2>2, <2>3 DEF RacedWith
      <3>2. LiveOf(f)' = {} /\ RowsOf(f)' # {}
        BY <1>6, <2>1, <2>3 DEF LiveOf
      <3>3. QED
        BY <2>2, <3>1, <3>2 DEF SessionOK
    <2>4. CASE f \notin C
      BY <1>2, <1>6, <2>1, <2>2, <2>4, Shrink DEF Writers
    <2>5. QED
      BY <2>3, <2>4
  <1>7. ASSUME NEW r \in Reqs, RefreshReuse(r) \/ LogoutRevoke(r)
        PROVE  SessionOK(f)'
    <2> DEFINE g == table[db[r]].token_family
    <2>1. db[r] \in RowsOf(g)
      BY <1>7 DEF RefreshReuse, LogoutRevoke, HandlerOK, Holding, RowsOf
    <2>2. /\ table' = Revoke(RowsOf(g)) /\ closed' = closed \cup {g}
          /\ raced' = RacedWith({g}, r)
          /\ pc[r] \in {"reuse", "logout"} /\ pc'[r] = "idle"
          /\ \A q \in Reqs \ {r} : pc'[q] = pc[q] /\ db'[q] = db[q]
      BY <1>7 DEF RefreshReuse, LogoutRevoke, TypeOK
    <2>3. RowsOf(g) \in SUBSET Present
      BY DEF RowsOf
    <2> HIDE DEF g
    <2>4. QED
      BY <1>6, <2>1, <2>2, <2>3
  <1>8. ASSUME NEW r \in Reqs, NEW u \in Users, LogoutAll(r, u)
        PROVE  SessionOK(f)'
    <2> DEFINE S  == {i \in Present : table[i].user_id = u}
               fs == {table[i].token_family : i \in S}
    <2>1. /\ table' = Revoke(S) /\ closed' = closed \cup fs
          /\ raced' = RacedWith(fs, r) /\ pc[r] = "idle" /\ pc' = pc /\ db' = db
      BY <1>8 DEF LogoutAll
    <2>2. f \in fs => RowsOf(f) # {} /\ RowsOf(f) \subseteq S
      BY DEF FamilyHasOneOwner, RowsOf
    <2>3. S \in SUBSET Present
      OBVIOUS
    <2> HIDE DEF S, fs
    <2>4. QED
      BY <1>6, <2>1, <2>2, <2>3
  <1>9. ASSUME NEW r \in Reqs, RefreshRevoke(r)
        PROVE  SessionOK(f)'
    <2>1. /\ table' = Revoke({db[r]}) /\ closed' = closed /\ db' = db
          /\ pc[r] = "revoke" /\ pc'[r] = "insert"
          /\ \A q \in Reqs \ {r} : pc'[q] = pc[q]
      BY <1>9 DEF RefreshRevoke, TypeOK
    <2>2. {db[r]} \in SUBSET Present
      BY <2>1 DEF HandlerOK, Holding
    <2>3. RowsOf(f)' = RowsOf(f) /\ LiveOf(f)' = LiveOf(f) \ {db[r]}
      BY <2>1, <2>2, RevokeFamilies
    <2>4. Writers(f)' = Writers(f)
      <3>1. table'[db[r]].token_family = table[db[r]].token_family
        BY <2>1, <2>2, RevokeStep
      <3>2. r \in Writers(f)' <=> r \in Writers(f)
        BY <2>1, <3>1 DEF Writers
      <3>3. QED
        BY <1>3, <2>1, <3>2, WritersFrame
    <2>5. CASE r \in Writers(f)
      <3>1. LiveOf(f)' = {} /\ f \notin closed
        BY <1>2, <2>1, <2>3, <2>5 DEF SessionOK
      <3>2. QED
        BY <1>2, <2>1, <2>4, <3>1 DEF SessionOK
    <2>6. CASE r \notin Writers(f)
      BY <1>2, <2>1, <2>3, <2>4, <2>6, Shrink DEF Writers
    <2>7. QED
      BY <2>5, <2>6
  <1>10. ASSUME NEW r \in Reqs, NEW i \in Ids, RefreshInsert(r, i)
         PROVE  SessionOK(f)'
    <2> DEFINE u == table[db[r]].user_id
               g == table[db[r]].token_family
    <2>1. /\ table' = Insert(i, NewRow(u, g, db[r])) /\ i \in Ids \ Present
          /\ closed' = closed /\ pc[r] = "insert" /\ pc'[r] = "respond"
          /\ \A q \in Reqs \ {r} : pc'[q] = pc[q] /\ db'[q] = db[q]
      BY <1>10 DEF RefreshInsert, Present, TypeOK
    <2>2. u \in Users /\ g \in Families /\ db[r] \in Ids
      BY <2>1, RotationMints DEF Row
    <2>3. r \in Writers(g)
      BY <2>1 DEF Writers
    <2> HIDE DEF u, g
    <2>4. Writers(f)' = Writers(f) \ {r}
      BY <1>3, <2>1, WritersFrame
    <2>5. CASE f # g
      BY <1>2, <2>1, <2>2, <2>4, <2>5, InsertFamilies, Shrink DEF Writers
    <2>6. CASE f = g
      <3>1. Writers(f) = {r} /\ LiveOf(f) = {} /\ f \notin closed
        BY <1>2, <2>1, <2>3, <2>6 DEF SessionOK
      <3>2. LiveOf(f)' = {i} /\ Writers(f)' = {}
        BY <2>1, <2>2, <2>4, <2>6, <3>1, InsertFamilies
      <3>3. QED
        BY <2>1, <3>1, <3>2 DEF SessionOK
    <2>7. QED
      BY <2>5, <2>6
  <1>11. ASSUME NEW r \in Reqs, table' = table, closed' = closed,
                pc'[r] \notin {"revoke", "insert"},
                \A q \in Reqs \ {r} : pc'[q] = pc[q] /\ db'[q] = db[q]
         PROVE  SessionOK(f)'
    <2>1. RowsOf(f)' = RowsOf(f) /\ LiveOf(f)' = LiveOf(f)
      BY <1>11 DEF RowsOf, LiveOf, Live, Present
    <2>2. Writers(f)' = Writers(f) \ {r}
      BY <1>3, <1>11, WritersFrame
    <2>3. QED
      BY <1>2, <1>11, <2>1, <2>2, Shrink DEF Writers
  <1>12. ASSUME NEW r \in Reqs, NEW t \in held, NEW i \in Ids, LogoutFind(r, t, i)
         PROVE  SessionOK(f)'
    BY <1>11, <1>12 DEF LogoutFind, TypeOK
  <1>13. ASSUME NEW r \in Reqs, Respond(r) \/ Abort(r)
         PROVE  SessionOK(f)'
    BY <1>11, <1>13 DEF Respond, Abort, TypeOK
  <1>14. CASE Tick \/ UNCHANGED vars
    BY <1>2, <1>14 DEF Tick, vars, SessionOK, Writers, LiveOf, RowsOf, Live, Present
  <1>15. QED
    BY <1>4, <1>5, <1>7, <1>8, <1>9, <1>10, <1>12, <1>13, <1>14 DEF Next

(* As long as the writers of a family have not overlapped, the family has  *)
(* at most one usable token, and once ended it stays ended.                *)
THEOREM SerialSessions == Spec => [](SerialFamilyOneLive /\ ClosedStaysDead)
  <1>1. Init => SessionInv
    BY DEF Init, SessionInv, SessionOK, Writers, LiveOf, RowsOf, Live, Present
  <1>2. TypeOK /\ HandlerOK /\ FamilyHasOneOwner /\ SessionInv /\ [Next]_vars => SessionInv'
    BY SessionStep
  <1>3. TypeOK /\ SessionInv => SerialFamilyOneLive /\ ClosedStaysDead
    BY DEF SessionInv, SessionOK, SerialFamilyOneLive, ClosedStaysDead, TypeOK
  <1>4. QED
    BY <1>1, <1>2, <1>3, TypeCorrect, FamilyOwnership, PTL DEF Spec

(* A session that was ended has no usable token, unless a writer was in    *)
(* flight on its family: neither a late answer nor a retry revives it.     *)
THEOREM ClosedFamiliesStayDead == Spec => []ClosedStaysDead
  BY SerialSessions, PTL

----------------------------------------------------------------------------
(* The refinement.  Every step opens a family, spends or renews its token, *)
(* settles some families, or leaves all sessions as they are.              *)

RacedHaveRows == \A f \in raced : f \in Families /\ RowsOf(f) # {}

LEMMA RowsGrow ==
    ASSUME TypeOK, HandlerOK, [Next]_vars, NEW f
    PROVE  RowsOf(f) \subseteq RowsOf(f)'
  BY StepIsTableStep, RowsPersist DEF RowsOf

LEMMA RacedStep ==
    ASSUME TypeOK, HandlerOK, RacedHaveRows, [Next]_vars
    PROVE  RacedHaveRows'
  <1>1. \A f \in raced' \ raced : RowsOf(f) # {}
    <2>1. CASE raced' = raced
      BY <2>1
    <2>2. ASSUME NEW r \in Reqs, RefreshReuse(r) \/ LogoutRevoke(r)
          PROVE  \A f \in raced' \ raced : RowsOf(f) # {}
      BY <2>2 DEF RefreshReuse, LogoutRevoke, HandlerOK, Holding, RowsOf, RacedWith
    <2>3. ASSUME NEW r \in Reqs, NEW u \in Users, LogoutAll(r, u)
          PROVE  \A f \in raced' \ raced : RowsOf(f) # {}
      BY <2>3 DEF LogoutAll, RacedWith, RowsOf
    <2>4. ASSUME NEW r \in Reqs, NEW t \in held, NEW i \in Ids, RefreshFind(r, t, i)
          PROVE  \A f \in raced' \ raced : RowsOf(f) # {}
      BY <2>4 DEF RefreshFind, Matching, RacedWith, RowsOf
    <2>5. QED
      BY <2>1, <2>2, <2>3, <2>4 DEF Next, vars, Tick, Login, RefreshRevoke,
         RefreshInsert, Respond, LogoutFind, Abort
  <1>2. raced' \subseteq Families
    BY TypeStep DEF TypeOK
  <1>3. QED
    BY <1>1, <1>2, RowsGrow DEF RacedHaveRows

(* A family that has rows keeps its owner. *)
LEMMA OwnerKept ==
    ASSUME TypeOK, TableStep, FamilyHasOneOwner', NEW f \in Families, RowsOf(f) # {}
    PROVE  OwnerOf'[f] = OwnerOf[f]
  <1>1. \A i \in RowsOf(f) : i \in RowsOf(f)' /\ table'[i].user_id = table[i].user_id
    BY RowsPersist DEF RowsOf
  <1>2. \A i, j \in RowsOf(f)' : table'[i].user_id = table'[j].user_id
    BY DEF FamilyHasOneOwner, RowsOf
  <1>3. {table'[i].user_id : i \in RowsOf(f)'} = {table[i].user_id : i \in RowsOf(f)}
    BY <1>1, <1>2
  <1>4. QED
    BY <1>3 DEF OwnerOf

(* A family of which a step changes nothing that a session shows. *)
Unmoved(f) ==
    /\ SessionOf'[f] = SessionOf[f]
    /\ OwnerOf'[f] = OwnerOf[f]
    /\ UsableOf'[f] = UsableOf[f]

LEMMA SameRows ==
    ASSUME NEW f \in Families, f \in raced' <=> f \in raced, f \in closed' <=> f \in closed,
           RowsOf(f)' = {} <=> RowsOf(f) = {}, OwnerOf'[f] = OwnerOf[f],
           f \in raced \/ LiveOf(f)' = LiveOf(f)
    PROVE  Unmoved(f)
  BY DEF Unmoved, SessionOf, UsableOf

(* What changes one family only, changes one point of each function. *)
LEMMA OnePoint ==
    ASSUME NEW f \in Families, \A g \in Families \ {f} : Unmoved(g)
    PROVE  /\ SessionOf' = [SessionOf EXCEPT ![f] = SessionOf'[f]]
           /\ OwnerOf' = [OwnerOf EXCEPT ![f] = OwnerOf'[f]]
           /\ UsableOf' = [UsableOf EXCEPT ![f] = UsableOf'[f]]
  <1>1. /\ SessionOf = [g \in Families |-> SessionOf[g]]
        /\ SessionOf' = [g \in Families |-> SessionOf'[g]]
    BY DEF SessionOf
  <1>2. /\ OwnerOf = [g \in Families |-> OwnerOf[g]]
        /\ OwnerOf' = [g \in Families |-> OwnerOf'[g]]
    BY DEF OwnerOf
  <1>3. /\ UsableOf = [g \in Families |-> UsableOf[g]]
        /\ UsableOf' = [g \in Families |-> UsableOf'[g]]
    BY DEF UsableOf
  <1>4. QED
    BY <1>1, <1>2, <1>3 DEF Unmoved

LEMMA AllUnmoved ==
    ASSUME \A g \in Families : Unmoved(g)
    PROVE  UNCHANGED Abstract!sessions
  <1>1. SessionOf' = SessionOf
    BY DEF SessionOf, Unmoved
  <1>2. OwnerOf' = OwnerOf
    BY DEF OwnerOf, Unmoved
  <1>3. UsableOf' = UsableOf
    BY DEF UsableOf, Unmoved
  <1>4. QED
    BY <1>1, <1>2, <1>3 DEF Abstract!sessions
(* A statement that revokes all rows of the families C and no usable row   *)
(* of another closes those of C that no writer is at, and forks the rest.  *)
LEMMA Settles ==
    ASSUME TypeOK, SessionInv, RacedHaveRows, NEW r \in Reqs,
           NEW S \in SUBSET Present, NEW C \in SUBSET Families,
           table' = Revoke(S), closed' = closed \cup C, raced' = RacedWith(C, r),
           \A f \in C : RowsOf(f) # {} /\ RowsOf(f) \subseteq S,
           \A f \in Families \ C : LiveOf(f) \cap S = {}
    PROVE  Abstract!Next
  <1> DEFINE closing == C \ raced'
             forking == raced' \ raced
  <1>1. /\ forking \subseteq C
        /\ raced \subseteq raced'
        /\ \A f \in forking : Writers(f) # {}
    BY DEF RacedWith
  <1>2. \A f \in Families : RowsOf(f)' = RowsOf(f) /\ LiveOf(f)' = LiveOf(f) \ S
    BY RevokeFamilies
  <1>3. \A f \in closing : SessionOf[f] \in {"open", "closed"}
    BY <1>1 DEF SessionOf
  <1>4. \A f \in forking : SessionOf[f] = "open"
    <2>1. \A f \in forking : f \in Families /\ f \notin raced /\ SessionOK(f)
      BY <1>1 DEF SessionInv
    <2>2. \A f \in forking : f \notin closed
      BY <1>1, <2>1 DEF SessionOK
    <2>3. QED
      BY <1>1, <2>1, <2>2 DEF SessionOf
  <1>5. \A f \in Families :
           SessionOf'[f] = IF f \in closing THEN "closed"
                           ELSE IF f \in forking THEN "forked" ELSE SessionOf[f]
    <2>1. ASSUME NEW f \in C
          PROVE  SessionOf'[f] = IF f \in closing THEN "closed"
                           ELSE IF f \in forking THEN "forked" ELSE SessionOf[f]
      BY <1>1, <1>2, <2>1 DEF SessionOf
    <2>2. ASSUME NEW f \in Families \ C
          PROVE  SessionOf'[f] = SessionOf[f]
      BY <1>1, <1>2, <2>2 DEF SessionOf
    <2>3. QED
      BY <1>1, <2>1, <2>2
  <1>6. \A f \in Families :
           UsableOf'[f] = IF f \in closing \cup forking THEN {} ELSE UsableOf[f]
    <2>1. ASSUME NEW f \in C
          PROVE  UsableOf'[f] = IF f \in closing \cup forking THEN {} ELSE UsableOf[f]
      <3>1. LiveOf(f)' = {}
        BY <1>2, <2>1 DEF LiveOf
      <3>2. QED
        BY <1>1, <2>1, <3>1 DEF UsableOf
    <2>2. ASSUME NEW f \in Families \ C
          PROVE  UsableOf'[f] = UsableOf[f]
      BY <1>1, <1>2, <2>2 DEF UsableOf
    <2>3. QED
      BY <1>1, <2>1, <2>2
  <1>7. OwnerOf' = OwnerOf
    <2>1. \A f \in Families : {table'[i].user_id : i \in RowsOf(f)'} = {table[i].user_id : i \in RowsOf(f)}
      <3>1. \A i \in Present : table'[i].user_id = table[i].user_id
        BY RevokeStep
      <3>2. QED
        BY <1>2, <3>1 DEF RowsOf
    <2>2. QED
      BY <2>1 DEF OwnerOf
  <1>8. /\ SessionOf' = [f \in Families |-> IF f \in closing THEN "closed"
                                           ELSE IF f \in forking THEN "forked" ELSE SessionOf[f]]
        /\ UsableOf' = [f \in Families |-> IF f \in closing \cup forking THEN {} ELSE UsableOf[f]]
    <2>1. /\ SessionOf' = [f \in Families |-> SessionOf'[f]]
          /\ UsableOf' = [f \in Families |-> UsableOf'[f]]
      BY DEF SessionOf, UsableOf
    <2> HIDE DEF closing, forking
    <2>2. QED
      BY <1>5, <1>6, <2>1
  <1>9. closing \in SUBSET Families /\ forking \in SUBSET Families /\ closing \cap forking = {}
    BY <1>1
  <1> HIDE DEF closing, forking
  <1>10. Abstract!Settle(closing, forking)
    BY <1>3, <1>4, <1>7, <1>8, <1>9 DEF Abstract!Settle
  <1>11. QED
    BY <1>9, <1>10 DEF Abstract!Next

LEMMA AbstractStep ==
    ASSUME TypeOK, HandlerOK, FamilyHasOneOwner, FamilyHasOneOwner', SessionInv,
           RacedHaveRows, [Next]_vars
    PROVE  [Abstract!Next]_(Abstract!sessions)
  <1>1. TableStep
    BY StepIsTableStep
  <1>2. ASSUME NEW r \in Reqs, NEW u \in Users, NEW f \in Families, NEW i \in Ids,
               Login(r, u, f, i)
        PROVE  Abstract!Next
    <2>1. /\ table' = Insert(i, NewRow(u, f, NoRow)) /\ i \in Ids \ Present
          /\ RowsOf(f) = {} /\ closed' = closed /\ raced' = raced
      BY <1>2 DEF Login, Present
    <2>2. \A g \in Families \ {f} : LiveOf(g)' = LiveOf(g)
      BY <2>1, InsertFamilies
    <2>3. /\ Present' = Present \cup {i} /\ table'[i].token_family = f /\ table'[i].user_id = u
          /\ \A j \in Present : table'[j] = table[j]
      BY <2>1, InsertStep
    <2>4. RowsOf(f)' = {i} /\ \A g \in Families \ {f} : RowsOf(g)' = RowsOf(g)
      BY <2>1, <2>3 DEF RowsOf
    <2>5. \A g \in Families \ {f} : OwnerOf'[g] = OwnerOf[g]
      <3>1. \A g \in Families \ {f} :
               {table'[j].user_id : j \in RowsOf(g)'} = {table[j].user_id : j \in RowsOf(g)}
        BY <2>3, <2>4 DEF RowsOf
      <3>2. QED
        BY <3>1 DEF OwnerOf
    <2>6. \A g \in Families \ {f} : Unmoved(g)
      BY <2>1, <2>2, <2>4, <2>5, SameRows
    <2>7. f \notin raced /\ f \notin closed /\ LiveOf(f) = {}
      <3>1. f \notin raced
        BY <2>1 DEF RacedHaveRows
      <3>2. SessionOK(f)
        BY <3>1 DEF SessionInv
      <3>3. QED
        BY <2>1, <3>1, <3>2 DEF SessionOK, LiveOf
    <2>8. LiveOf(f)' = {i}
      BY <2>1, <2>7, InsertFamilies
    <2>9. /\ SessionOf[f] = "new" /\ SessionOf'[f] = "open"
          /\ OwnerOf'[f] = {u} /\ UsableOf'[f] = {i}
      BY <2>1, <2>3, <2>4, <2>7, <2>8 DEF SessionOf, OwnerOf, UsableOf
    <2>10. Abstract!Begin(f)
      BY <2>6, <2>9, OnePoint DEF Abstract!Begin
    <2>11. QED
      BY <2>10 DEF Abstract!Next
  <1>3. ASSUME NEW r \in Reqs, NEW t \in held, NEW i \in Ids, RefreshFind(r, t, i)
        PROVE  [Abstract!Next]_(Abstract!sessions)
    <2>0. PICK g \in Families : g = table[i].token_family
      BY <1>3 DEF RefreshFind, Matching, TypeOK, Present, Row
    <2>1. /\ table' = table /\ closed' = closed /\ i \in Present
          /\ raced' = raced \/ (raced' = RacedWith({g}, r) /\ ~table[i].is_revoked)
      BY <1>3, <2>0 DEF RefreshFind, Matching
    <2>2. i \in RowsOf(g)
      BY <2>0, <2>1 DEF RowsOf
    <2>3. \A f \in Families : /\ RowsOf(f)' = RowsOf(f) /\ LiveOf(f)' = LiveOf(f)
                              /\ OwnerOf'[f] = OwnerOf[f]
      BY <2>1 DEF RowsOf, LiveOf, Live, Present, OwnerOf
    <2>4. CASE raced' = raced
      BY <2>1, <2>3, <2>4, SameRows, AllUnmoved
    <2>5. CASE raced' # raced
      <3>1. g \notin raced /\ raced' = raced \cup {g} /\ i \in LiveOf(g)
        BY <2>1, <2>2, <2>5 DEF RacedWith, LiveOf, Live
      <3>2. g \notin closed
        BY <2>2, <3>1 DEF SessionInv, SessionOK
      <3>3. SessionOf[g] = "open" /\ SessionOf'[g] = "forked" /\ UsableOf'[g] = {}
        BY <2>1, <2>2, <2>3, <3>1, <3>2 DEF SessionOf, UsableOf
      <3>4. \A f \in Families \ {g} : Unmoved(f)
        BY <2>1, <2>3, <3>1, SameRows
      <3>5. OwnerOf' = OwnerOf
        BY <2>3 DEF OwnerOf
      <3>6. /\ SessionOf' = [f \in Families |-> IF f \in {} THEN "closed"
                                              ELSE IF f \in {g} THEN "forked" ELSE SessionOf[f]]
            /\ UsableOf' = [f \in Families |-> IF f \in {} \cup {g} THEN {} ELSE UsableOf[f]]
        <4>1. /\ SessionOf' = [f \in Families |-> SessionOf'[f]]
              /\ UsableOf' = [f \in Families |-> UsableOf'[f]]
          BY DEF SessionOf, UsableOf
        <4>2. QED
          BY <3>3, <3>4, <4>1 DEF Unmoved
      <3>7. Abstract!Settle({}, {g})
        BY <3>3, <3>5, <3>6 DEF Abstract!Settle
      <3>8. QED
        BY <2>2, <3>7 DEF Abstract!Next
    <2>6. QED
      BY <2>4, <2>5
  <1>4. ASSUME NEW r \in Reqs, RefreshReuse(r) \/ LogoutRevoke(r)
        PROVE  Abstract!Next
    <2>0. PICK g \in Families : g = table[db[r]].token_family
      BY <1>4 DEF RefreshReuse, LogoutRevoke, HandlerOK, Holding, TypeOK, Present, Row
    <2>1. /\ table' = Revoke(RowsOf(g)) /\ closed' = closed \cup {g}
          /\ raced' = RacedWith({g}, r)
      BY <1>4, <2>0 DEF RefreshReuse, LogoutRevoke
    <2>2. db[r] \in RowsOf(g)
      BY <1>4, <2>0 DEF RefreshReuse, LogoutRevoke, HandlerOK, Holding, RowsOf
    <2>3. RowsOf(g) \in SUBSET Present /\ \A f \in Families \ {g} : LiveOf(f) \cap RowsOf(g) = {}
      BY DEF RowsOf, LiveOf
    <2>4. {g} \in SUBSET Families /\ \A f \in {g} : RowsOf(f) # {} /\ RowsOf(f) \subseteq RowsOf(g)
      BY <2>2
    <2>5. QED
      BY <2>1, <2>3, <2>4, Settles
  <1>5. ASSUME NEW r \in Reqs, NEW u \in Users, LogoutAll(r, u)
        PROVE  Abstract!Next
    <2> DEFINE S  == {i \in Present : table[i].user_id = u}
               fs == {table[i].token_family : i \in S}
    <2>1. table' = Revoke(S) /\ closed' = closed \cup fs /\ raced' = RacedWith(fs, r)
      BY <1>5 DEF LogoutAll
    <2>2. S \in SUBSET Present /\ fs \in SUBSET Families
      BY DEF TypeOK, Present, Row
    <2>3. \A f \in fs : RowsOf(f) # {} /\ RowsOf(f) \subseteq S
      BY DEF FamilyHasOneOwner, RowsOf
    <2>4. \A f \in Families \ fs : LiveOf(f) \cap S = {}
      BY DEF LiveOf, RowsOf
    <2> HIDE DEF S, fs
    <2>5. QED
      BY <2>1, <2>2, <2>3, <2>4, Settles
  <1>6. ASSUME NEW r \in Reqs, RefreshRevoke(r)
        PROVE  [Abstract!Next]_(Abstract!sessions)
    <2>0. PICK g \in Families : g = table[db[r]].token_family
      BY <1>6 DEF RefreshRevoke, HandlerOK, Holding, TypeOK, Present, Row
    <2>1. /\ table' = Revoke({db[r]}) /\ closed' = closed /\ raced' = raced /\ pc[r] = "revoke"
      BY <1>6 DEF RefreshRevoke
    <2>2. /\ db[r] \in RowsOf(g) /\ r \in Writers(g)
          /\ {db[r]} \in SUBSET Present
      BY <2>0, <2>1 DEF HandlerOK, Holding, RowsOf, Writers
    <2>3. \A f \in Families : RowsOf(f)' = RowsOf(f) /\ LiveOf(f)' = LiveOf(f) \ {db[r]}
      BY <2>1, <2>2, RevokeFamilies
    <2>4. \A f \in Families : OwnerOf'[f] = OwnerOf[f]
      <3>1. \A i \in Present : table'[i].user_id = table[i].user_id
        BY <2>1, <2>2, RevokeStep
      <3>2. \A f \in Families : {table'[i].user_id : i \in RowsOf(f)'} = {table[i].user_id : i \in RowsOf(f)}
        BY <2>3, <3>1 DEF RowsOf
      <3>3. QED
        BY <3>2 DEF OwnerOf
    <2>5. \A f \in Families \ {g} : Unmoved(f)
      <3>1. \A f \in Families \ {g} : db[r] \notin LiveOf(f)
        BY <2>2 DEF LiveOf, RowsOf
      <3>2. \A f \in Families \ {g} : LiveOf(f)' = LiveOf(f)
        BY <2>3, <3>1
      <3>3. \A f \in Families \ {g} :
               /\ f \in closed' <=> f \in closed
               /\ f \in raced' <=> f \in raced
               /\ RowsOf(f)' = {} <=> RowsOf(f) = {}
        BY <2>1, <2>3
      <3> HIDE DEF Unmoved
      <3>4. QED
        BY <2>4, <3>2, <3>3, SameRows
    <2>6. CASE g \in raced
      BY <2>1, <2>2, <2>3, <2>4, <2>5, <2>6, SameRows, AllUnmoved
    <2>7. CASE g \notin raced
      <3>1. SessionOK(g)
        BY <2>2, <2>7 DEF SessionInv
      <3>2. g \notin closed /\ LiveOf(g)' = {}
        BY <2>1, <2>2, <2>3, <3>1 DEF SessionOK
      <3>3. SessionOf[g] = "open" /\ SessionOf'[g] = "open" /\ UsableOf'[g] = {}
        BY <2>1, <2>2, <2>3, <2>7, <3>2 DEF SessionOf, UsableOf
      <3>4. /\ SessionOf' = [SessionOf EXCEPT ![g] = SessionOf'[g]]
            /\ OwnerOf' = [OwnerOf EXCEPT ![g] = OwnerOf'[g]]
            /\ UsableOf' = [UsableOf EXCEPT ![g] = UsableOf'[g]]
        BY <2>2, <2>5, OnePoint
      <3>5. SessionOf' = SessionOf /\ OwnerOf' = OwnerOf
        BY <2>2, <2>4, <3>3, <3>4 DEF SessionOf, OwnerOf
      <3>6. Abstract!Spend(g)
        BY <3>3, <3>4, <3>5 DEF Abstract!Spend
      <3>7. QED
        BY <2>2, <3>6 DEF Abstract!Next
    <2>8. QED
      BY <2>6, <2>7
  <1>7. ASSUME NEW r \in Reqs, NEW i \in Ids, RefreshInsert(r, i)
        PROVE  [Abstract!Next]_(Abstract!sessions)
    <2>0. PICK u \in Users, g \in Families :
             u = table[db[r]].user_id /\ g = table[db[r]].token_family
      BY <1>7, RotationMints DEF RefreshInsert, Row
    <2>1. /\ table' = Insert(i, NewRow(u, g, db[r])) /\ i \in Ids \ Present
          /\ closed' = closed /\ raced' = raced /\ pc[r] = "insert"
      BY <1>7, <2>0 DEF RefreshInsert, Present
    <2>2. db[r] \in Ids /\ db[r] \in RowsOf(g) /\ r \in Writers(g)
      BY <2>0, <2>1, RotationMints DEF RowsOf, Writers
    <2>3. /\ Present' = Present \cup {i} /\ table'[i].token_family = g
          /\ \A j \in Present : table'[j] = table[j]
      BY <2>1, <2>2, InsertStep
    <2>4. /\ \A f \in Families \ {g} : RowsOf(f)' = RowsOf(f) /\ LiveOf(f)' = LiveOf(f)
          /\ RowsOf(g)' = RowsOf(g) \cup {i}
          /\ LiveOf(g)' = LiveOf(g) \cup {i}
      <3>1. \A f \in Families \ {g} : RowsOf(f)' = RowsOf(f)
        BY <2>1, <2>3 DEF RowsOf
      <3>2. RowsOf(g)' = RowsOf(g) \cup {i}
        BY <2>1, <2>3 DEF RowsOf
      <3>3. QED
        BY <2>1, <2>2, <3>1, <3>2, InsertFamilies
    <2>5. \A f \in Families \ {g} : OwnerOf'[f] = OwnerOf[f]
      <3>1. \A f \in Families \ {g} :
               {table'[j].user_id : j \in RowsOf(f)'} = {table[j].user_id : j \in RowsOf(f)}
        BY <2>3, <2>4 DEF RowsOf
      <3>2. QED
        BY <3>1 DEF OwnerOf
    <2>6. OwnerOf'[g] = OwnerOf[g]
      BY <1>1, <2>2, OwnerKept
    <2>7. \A f \in Families \ {g} : Unmoved(f)
      BY <2>1, <2>4, <2>5, SameRows
    <2>8. CASE g \in raced
      <3>1. Unmoved(g)
        BY <2>1, <2>2, <2>4, <2>6, <2>8, SameRows
      <3>2. QED
        BY <2>7, <3>1, AllUnmoved
    <2>9. CASE g \notin raced
      <3>1. SessionOK(g)
        BY <2>2, <2>9 DEF SessionInv
      <3>2. g \notin closed /\ LiveOf(g) = {} /\ LiveOf(g)' = {i}
        BY <2>1, <2>2, <2>4, <3>1 DEF SessionOK
      <3>3. /\ SessionOf[g] = "open" /\ SessionOf'[g] = "open"
            /\ UsableOf[g] = {} /\ UsableOf'[g] = {i}
        BY <2>1, <2>2, <2>4, <2>9, <3>2 DEF SessionOf, UsableOf
      <3>4. /\ SessionOf' = [SessionOf EXCEPT ![g] = SessionOf'[g]]
            /\ OwnerOf' = [OwnerOf EXCEPT ![g] = OwnerOf'[g]]
            /\ UsableOf' = [UsableOf EXCEPT ![g] = UsableOf'[g]]
        BY <2>2, <2>7, OnePoint
      <3>5. SessionOf' = SessionOf /\ OwnerOf' = OwnerOf
        BY <2>2, <2>6, <3>3, <3>4 DEF SessionOf, OwnerOf
      <3>6. Abstract!Renew(g)
        BY <3>3, <3>4, <3>5 DEF Abstract!Renew
      <3>7. QED
        BY <2>2, <3>6 DEF Abstract!Next
    <2>10. QED
      BY <2>8, <2>9
  <1>8. CASE table' = table /\ closed' = closed /\ raced' = raced
    BY <1>8 DEF Abstract!sessions, SessionOf, OwnerOf, UsableOf, RowsOf, LiveOf, Live, Present
  <1>9. QED
    BY <1>2, <1>3, <1>4, <1>5, <1>6, <1>7, <1>8 DEF Next, vars, Tick, LogoutFind, Respond, Abort

(* The token table implements the abstract sessions: a family is opened    *)
(* once and by one account, carries one usable token at most, and once     *)
(* closed is never opened, renewed or forked.                              *)
THEOREM SessionsAreImplemented == Spec => KeepsSessions
  <1>1. Init => Abstract!Init
    BY DEF Init, Abstract!Init, SessionOf, OwnerOf, UsableOf, RowsOf, LiveOf, Live, Present
  <1>2. Init => ParentOK /\ FamilyHasOneOwner /\ SessionInv /\ RacedHaveRows
    BY DEF Init, ParentOK, FamilyHasOneOwner, SessionInv, SessionOK, RacedHaveRows, Writers,
       LiveOf, RowsOf, Live, Present
  <1>3. TypeOK /\ HandlerOK /\ [Next]_vars /\ ParentOK /\ FamilyHasOneOwner
           /\ SessionInv /\ RacedHaveRows
           => (ParentOK /\ FamilyHasOneOwner /\ SessionInv /\ RacedHaveRows)'
    BY OrderStep, SessionStep, RacedStep
  <1>4. TypeOK /\ HandlerOK /\ [Next]_vars /\ FamilyHasOneOwner /\ FamilyHasOneOwner'
           /\ SessionInv /\ RacedHaveRows
           => [Abstract!Next]_(Abstract!sessions)
    BY AbstractStep
  <1>5. QED
    BY <1>1, <1>2, <1>3, <1>4, TypeCorrect, PTL DEF Spec, KeepsSessions, Abstract!Spec
============================================================================
