--------------------------- MODULE RefreshTokens ---------------------------
(***************************************************************************)
(* Refresh-token rotation: routes/auth.rs over services/db_auth_service.rs *)
(* and the refresh_tokens table of migration 011.                          *)
(*                                                                         *)
(* Every statement the handlers run is its own transaction on a pool of    *)
(* connections, so a handler is a little state machine with one step per   *)
(* statement, and the steps of concurrent handlers interleave.  A handler  *)
(* may stop for good before any statement: the process dies, the           *)
(* statement fails and `?` returns, or the client hangs up and axum drops  *)
(* the future (Abort).  Time is whole seconds, the resolution of a JWT's   *)
(* iat and exp.                                                            *)
(***************************************************************************)
EXTENDS Integers, FiniteSets

CONSTANTS
    Users,      \* accounts; the role is a function of the account
    Families,   \* token_family UUIDs
    Ids,        \* primary keys of refresh_tokens
    Reqs,       \* handlers that can be running at once
    NoRow,      \* no such row / no value
    TTL,        \* jwt_refresh_token_expire_days, in ticks
    Leeway,     \* leeway of jsonwebtoken's Validation::new, in ticks
    MaxTime     \* bound on the clock

ASSUME ConstantsAssumption ==
    /\ TTL \in Nat
    /\ Leeway \in Nat
    /\ MaxTime \in Nat

(* A token string is the signature of its claims: equal claims, equal      *)
(* string.  RefreshClaims has no jti.                                      *)
Token == [sub : Users, family : Families, iat : 0 .. MaxTime]

(* A row of refresh_tokens.  `parent` is a history field: the row whose    *)
(* rotation inserted this one, NoRow after a login.                        *)
Row == [user_id : Users, token_hash : Token, token_family : Families,
        expires_at : 0 .. MaxTime + TTL, is_revoked : BOOLEAN,
        parent : Ids \cup {NoRow}]

ASSUME NoRowAssumption ==
    /\ NoRow \notin Row
    /\ NoRow \notin Ids
    /\ NoRow \notin Token

VARIABLES
    table,   \* the refresh_tokens table: id -> row or NoRow
    now,     \* the clock
    pc,      \* where each handler is
    db,      \* the row id its SELECT returned
    reply,   \* the token its response will carry
    held,    \* tokens that have reached a client
    closed,  \* history: families a revoke-family or revoke-user has ended
    raced    \* history: families on which two writers were in flight at once

vars == <<table, now, pc, db, reply, held, closed, raced>>

Phases == {"idle", "reuse", "revoke", "insert", "logout", "respond"}

TypeOK ==
    /\ table \in [Ids -> Row \cup {NoRow}]
    /\ now \in 0 .. MaxTime
    /\ pc \in [Reqs -> Phases]
    /\ db \in [Reqs -> Ids \cup {NoRow}]
    /\ reply \in [Reqs -> Token \cup {NoRow}]
    /\ held \subseteq Token
    /\ closed \subseteq Families
    /\ raced \subseteq Families

Init ==
    /\ table = [i \in Ids |-> NoRow]
    /\ now = 0
    /\ pc = [r \in Reqs |-> "idle"]
    /\ db = [r \in Reqs |-> NoRow]
    /\ reply = [r \in Reqs |-> NoRow]
    /\ held = {}
    /\ closed = {}
    /\ raced = {}

----------------------------------------------------------------------------
(* The statements of db_auth_service.rs.                                   *)

Present == {i \in Ids : table[i] # NoRow}
Live == {i \in Present : ~table[i].is_revoked}
RowsOf(f) == {i \in Present : table[i].token_family = f}
LiveOf(f) == RowsOf(f) \cap Live

(* generate_refresh_token at the current second. *)
MintedToken(u, f) == [sub |-> u, family |-> f, iat |-> now]

(* find_refresh_token_by_hash: fetch_optional returns any one match. *)
Matching(t) == {i \in Present : table[i].token_hash = t}

(* create_refresh_token: never revoked, lives for TTL. *)
NewRow(u, f, p) ==
    [user_id |-> u, token_hash |-> MintedToken(u, f), token_family |-> f,
     expires_at |-> now + TTL, is_revoked |-> FALSE, parent |-> p]

(* Mutant of Insert: a rotation renews its parent's row in place. *)
InsertInPlace(i, row) ==
    IF row.parent \in Ids THEN [table EXCEPT ![row.parent] = row]
                          ELSE [table EXCEPT ![i] = row]

(* INSERT under a fresh primary key. *)
Insert(i, row) == [table EXCEPT ![i] = row]

(* UPDATE refresh_tokens SET is_revoked = TRUE WHERE the id is in S. *)
Revoke(S) ==
    [i \in Ids |-> IF i \in S THEN [table[i] EXCEPT !.is_revoked = TRUE]
                              ELSE table[i]]

----------------------------------------------------------------------------
(* History of concurrent writers.  A handler is a writer of family f from  *)
(* the SELECT that decided to rotate until its INSERT.                     *)

Writers(f) ==
    {r \in Reqs : pc[r] \in {"revoke", "insert"} /\ table[db[r]].token_family = f}

RacedWith(fs, r) == raced \cup {f \in fs : Writers(f) \ {r} # {}}

----------------------------------------------------------------------------
(* The handlers. *)

(* Mutant of Login: a family another account has used is taken again. *)
LoginReusesFamily(r, u, f, i) ==
    /\ pc[r] = "idle"
    /\ table[i] = NoRow
    /\ table' = Insert(i, NewRow(u, f, NoRow))
    /\ reply' = [reply EXCEPT ![r] = MintedToken(u, f)]
    /\ pc' = [pc EXCEPT ![r] = "respond"]
    /\ UNCHANGED <<now, db, held, closed, raced>>

(* login_student, login_agent, login_admin: the account is found, active   *)
(* and verified; the new family is a fresh UUID; the one write is the      *)
(* INSERT.  A refused login changes nothing.                               *)
Login(r, u, f, i) ==
    /\ pc[r] = "idle"
    /\ RowsOf(f) = {}
    /\ table[i] = NoRow
    /\ table' = Insert(i, NewRow(u, f, NoRow))
    /\ reply' = [reply EXCEPT ![r] = MintedToken(u, f)]
    /\ pc' = [pc EXCEPT ![r] = "respond"]
    /\ UNCHANGED <<now, db, held, closed, raced>>

(* Steps 1 to 3 of refresh_token: the JWT has not expired, its row is      *)
(* found, and is_revoked and expires_at decide what follows.  An unknown,  *)
(* undecodable or expired token is refused and changes nothing.            *)
RefreshFind(r, t, i) ==
    /\ pc[r] = "idle"
    /\ t.iat + TTL + Leeway >= now
    /\ i \in Matching(t)
    /\ \/ /\ table[i].is_revoked
          /\ pc' = [pc EXCEPT ![r] = "reuse"]
          /\ UNCHANGED raced
       \/ /\ ~table[i].is_revoked
          /\ table[i].expires_at >= now
          /\ pc' = [pc EXCEPT ![r] = "revoke"]
          /\ raced' = RacedWith({table[i].token_family}, r)
    /\ db' = [db EXCEPT ![r] = i]
    /\ UNCHANGED <<table, now, reply, held, closed>>

(* Reuse detected: the whole family is revoked and the client gets a 401. *)
RefreshReuse(r) ==
    LET f == table[db[r]].token_family IN
    /\ pc[r] = "reuse"
    /\ table' = Revoke(RowsOf(f))
    /\ closed' = closed \cup {f}
    /\ raced' = RacedWith({f}, r)
    /\ pc' = [pc EXCEPT ![r] = "idle"]
    /\ db' = [db EXCEPT ![r] = NoRow]
    /\ UNCHANGED <<now, reply, held>>

(* Mutant of RefreshRevoke: the token that was presented stays valid. *)
KeepOld(r) ==
    /\ pc[r] = "revoke"
    /\ pc' = [pc EXCEPT ![r] = "insert"]
    /\ UNCHANGED <<table, now, db, reply, held, closed, raced>>

(* Step 4: UPDATE .. WHERE id, whatever is_revoked is by now. *)
RefreshRevoke(r) ==
    /\ pc[r] = "revoke"
    /\ table' = Revoke({db[r]})
    /\ pc' = [pc EXCEPT ![r] = "insert"]
    /\ UNCHANGED <<now, db, reply, held, closed, raced>>

(* Steps 5 and 6: the pair is minted for the same user and family, and the *)
(* new refresh token recorded.                                             *)
RefreshInsert(r, i) ==
    LET old == table[db[r]]
        new == NewRow(old.user_id, old.token_family, db[r]) IN
    /\ pc[r] = "insert"
    /\ table[i] = NoRow
    /\ table' = Insert(i, new)
    /\ reply' = [reply EXCEPT ![r] = new.token_hash]
    /\ pc' = [pc EXCEPT ![r] = "respond"]
    /\ db' = [db EXCEPT ![r] = NoRow]
    /\ UNCHANGED <<now, held, closed, raced>>

(* The TokenResponse reaches the client. *)
Respond(r) ==
    /\ pc[r] = "respond"
    /\ held' = held \cup {reply[r]}
    /\ reply' = [reply EXCEPT ![r] = NoRow]
    /\ pc' = [pc EXCEPT ![r] = "idle"]
    /\ UNCHANGED <<table, now, db, closed, raced>>

(* logout: the SELECT; with no row the handler answers success at once. *)
LogoutFind(r, t, i) ==
    /\ pc[r] = "idle"
    /\ i \in Matching(t)
    /\ pc' = [pc EXCEPT ![r] = "logout"]
    /\ db' = [db EXCEPT ![r] = i]
    /\ UNCHANGED <<table, now, reply, held, closed, raced>>

(* Mutant of LogoutRevoke: only the row that was found is revoked. *)
LogoutOneToken(r) ==
    LET f == table[db[r]].token_family IN
    /\ pc[r] = "logout"
    /\ table' = Revoke({db[r]})
    /\ closed' = closed \cup {f}
    /\ raced' = RacedWith({f}, r)
    /\ pc' = [pc EXCEPT ![r] = "idle"]
    /\ db' = [db EXCEPT ![r] = NoRow]
    /\ UNCHANGED <<now, reply, held>>

(* logout: the UPDATE of the family. *)
LogoutRevoke(r) ==
    LET f == table[db[r]].token_family IN
    /\ pc[r] = "logout"
    /\ table' = Revoke(RowsOf(f))
    /\ closed' = closed \cup {f}
    /\ raced' = RacedWith({f}, r)
    /\ pc' = [pc EXCEPT ![r] = "idle"]
    /\ db' = [db EXCEPT ![r] = NoRow]
    /\ UNCHANGED <<now, reply, held>>

(* logout_all: one UPDATE over every row of the user. *)
LogoutAll(r, u) ==
    LET S  == {i \in Present : table[i].user_id = u}
        fs == {table[i].token_family : i \in S} IN
    /\ pc[r] = "idle"
    /\ table' = Revoke(S)
    /\ closed' = closed \cup fs
    /\ raced' = RacedWith(fs, r)
    /\ UNCHANGED <<now, pc, db, reply, held>>

(* The handler ends early: a crash, a failed statement, a dropped future. *)
Abort(r) ==
    /\ pc[r] # "idle"
    /\ pc' = [pc EXCEPT ![r] = "idle"]
    /\ db' = [db EXCEPT ![r] = NoRow]
    /\ reply' = [reply EXCEPT ![r] = NoRow]
    /\ UNCHANGED <<table, now, held, closed, raced>>

Tick ==
    /\ now < MaxTime
    /\ now' = now + 1
    /\ UNCHANGED <<table, pc, db, reply, held, closed, raced>>

Next ==
    \/ Tick
    \/ \E r \in Reqs :
          \/ \E u \in Users, f \in Families, i \in Ids : Login(r, u, f, i)
          \/ \E t \in held, i \in Ids : RefreshFind(r, t, i) \/ LogoutFind(r, t, i)
          \/ \E i \in Ids : RefreshInsert(r, i)
          \/ \E u \in Users : LogoutAll(r, u)
          \/ RefreshReuse(r) \/ RefreshRevoke(r) \/ Respond(r) \/ LogoutRevoke(r)
          \/ Abort(r)

Spec == Init /\ [][Next]_vars

----------------------------------------------------------------------------
(* Properties. *)

(* A rotation never leaves both tokens usable: once the new row exists the *)
(* row it replaces is revoked, whatever else ran or died in between        *)
(* (auth.rs revokes at 322 before it inserts at 344).                      *)
ParentRevoked ==
    \A i \in Present : table[i].parent \in Ids => table[table[i].parent].is_revoked

(* Every row of a family belongs to one account, so revoking a family on   *)
(* reuse or logout never ends somebody else's session.                     *)
FamilyHasOneOwner ==
    \A i, j \in Present :
       table[i].token_family = table[j].token_family => table[i].user_id = table[j].user_id

(* When the writers of a family do not overlap, the family has at most one *)
(* usable token: concurrency is the only way to fork a session.            *)
SerialFamilyOneLive ==
    \A f \in Families \ raced : \A i, j \in LiveOf(f) : i = j

(* When no rotation was in flight across it, a logout or a detected reuse  *)
(* is final: no later request brings the session back.                     *)
ClosedStaysDead == \A f \in closed \ raced : LiveOf(f) = {}

(* A token a client holds is always known to the database, so an honest    *)
(* client never meets "Refresh token not found" (auth.rs:303).             *)
HeldTokenKnown == \A t \in held : Matching(t) # {}

(* A revoked row is revoked for ever: no statement clears the flag. *)
RevokedForever ==
    [][\A i \in Present : table[i].is_revoked =>
          table'[i] # NoRow /\ table'[i].is_revoked]_vars

(* The families as sessions: opened once, by one account; at most one      *)
(* usable token; closed for good, so that neither a rotation nor a new     *)
(* login comes back to a family that was ended.                            *)
SessionOf ==
    [f \in Families |-> IF RowsOf(f) = {} THEN "new" ELSE IF f \in raced THEN "forked"
                        ELSE IF f \in closed THEN "closed" ELSE "open"]
OwnerOf == [f \in Families |-> {table[i].user_id : i \in RowsOf(f)}]
UsableOf == [f \in Families |-> IF f \in raced THEN {} ELSE LiveOf(f)]

Abstract == INSTANCE Sessions WITH
    Tokens <- Ids, session <- SessionOf, owner <- OwnerOf, usable <- UsableOf

KeepsSessions == Abstract!Spec

(* docs/phase2_implementation_summary.md: logging out blocks every later   *)
(* refresh of the session.                                                 *)
ClosedFamilyNeverLive == \A f \in closed : LiveOf(f) = {}
============================================================================
