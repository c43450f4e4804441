------------------------------ MODULE Accounts ------------------------------
(***************************************************************************)
(* Accounts and the audit trail: registration and login (routes/auth.rs,   *)
(* services/db_auth_service.rs), the students' and agents' own profiles    *)
(* (routes/students.rs, routes/agents.rs), administration (routes/admin.rs,*)
(* services/admin_service.rs), all behind middleware/audit_trail.rs.       *)
(*                                                                         *)
(* A request is served once: its handler looks at the tables (check), one  *)
(* statement of it writes (write), the write is committed before the       *)
(* handler hears of it (wrote), and the response goes out together with    *)
(* the spawning of the task that inserts the audit row.  Between any two   *)
(* of these another request is served, the client hangs up, or the process *)
(* dies.                                                                   *)
(***************************************************************************)
EXTENDS Integers, Sequences

CONSTANTS
    Emails,      \* the students' addresses, UNIQUE in the table
    AgentEmails, \* the agents' addresses, UNIQUE in theirs
    Passwords,
    Requests,    \* requests; each is served once
    Asked,       \* what they may ask for
    MaxRows,     \* bound on the students table
    None         \* NULL, and "nothing yet"

Statuses == {"lead", "in_progress", "inactive"}

(* The columns of students and agents that the handlers tell apart;        *)
(* `profile` is who wrote the profile columns last.                        *)
Student ==
    [pw : Passwords, status : Statuses, is_active : BOOLEAN,
     agent : AgentEmails \cup {None}, profile : {"student", "agent"} \cup {None}]
Agent == [is_active : BOOLEAN, is_online : BOOLEAN]

(* What a request asks for.  `by` is the agent that calls, None the        *)
(* student; the administrator needs no name.  `linked` is whether an       *)
(* application of the student's names the agent (see Applications).        *)
Calls ==
    [op : {"register", "login"}, who : Emails, pw : Passwords]
    \cup [op : {"enlist"}, who : Emails, pw : Passwords, by : AgentEmails]
    \cup [op : {"password"}, who : Emails, pw : Passwords, new : Passwords]
    \cup [op : {"profile"}, who : Emails, by : AgentEmails \cup {None}, linked : BOOLEAN]
    \cup [op : {"activate"}, who : Emails]
    \cup [op : {"status"}, who : Emails, active : BOOLEAN, status : Statuses \cup {None}]
    \cup [op : {"hire"}, who : AgentEmails]
    \cup [op : {"edit"}, who : AgentEmails, active : BOOLEAN]
    \cup [op : {"presence"}, who : AgentEmails, online : BOOLEAN]

ASSUME AccountConstants ==
    /\ Asked \subseteq Calls
    /\ None \notin Student \cup Agent \cup Calls
    /\ None \notin Emails \cup AgentEmails \cup Passwords \cup Statuses \cup {"student", "agent"}
    /\ MaxRows \in Nat

VARIABLES
    students,  \* students: email -> row
    order,     \* the students' emails by created_at, the newest first
    agents,    \* agents: email -> row
    call,      \* what each request asks for
    at,        \* where its handler is
    known,     \* the students stored when it looked
    answer,    \* what the client was told
    trail,     \* its audit row
    committed, \* history: requests whose statement was committed
    raced      \* history: requests whose account changed under them since they looked

vars == <<students, order, agents, call, at, known, answer, trail, committed, raced>>
tables == <<students, order, agents>>

Public == {"register", "login"}
Inserts == {"register", "enlist"}

TypeOK ==
    /\ students \in [Emails -> Student \cup {None}]
    /\ order \in Seq(Emails)
    /\ agents \in [AgentEmails -> Agent \cup {None}]
    /\ call \in [Requests -> Calls \cup {None}]
    /\ at \in [Requests -> {"idle", "check", "write", "wrote", "done"}]
    /\ known \in [Requests -> SUBSET Emails]
    /\ answer \in [Requests -> {"ok", "refused", "error"} \cup {None}]
    /\ trail \in [Requests -> {"none", "owed", "logged", "lost"}]
    /\ committed \subseteq Requests
    /\ raced \subseteq Requests
    /\ \A r \in Requests : at[r] # "idle" => call[r] # None

Stored == {e \in Emails : students[e] # None}
Hired == {g \in AgentEmails : agents[g] # None}

(* Registered earlier, by an agent or by themselves. *)
Registered(pw, g) ==
    [pw |-> pw, status |-> "lead", is_active |-> TRUE, agent |-> g, profile |-> None]

Init ==
    /\ order \in UNION {[1..n -> Emails] : n \in 0..MaxRows}
    /\ \A i, j \in DOMAIN order : order[i] = order[j] => i = j
    /\ \E pw \in Passwords, g \in AgentEmails :
          /\ students = [e \in Emails |->
                 IF \E i \in DOMAIN order : order[i] = e THEN Registered(pw, g) ELSE None]
          /\ agents = [h \in AgentEmails |->
                 IF h = g THEN [is_active |-> TRUE, is_online |-> FALSE] ELSE None]
    /\ call = [r \in Requests |-> None]
    /\ at = [r \in Requests |-> "idle"]
    /\ known = [r \in Requests |-> {}]
    /\ answer = [r \in Requests |-> None]
    /\ trail = [r \in Requests |-> "none"]
    /\ committed = {}
    /\ raced = {}

Enter(r, p) == at' = [at EXCEPT ![r] = p]

(* The handler returns without having written. *)
Return(r, a) ==
    /\ Enter(r, "done")
    /\ answer' = [answer EXCEPT ![r] = a]
    /\ known' = [known EXCEPT ![r] = {}]
    /\ raced' = raced \ {r}

----------------------------------------------------------------------------
(* Arrival: AuthUser and require_role.  An access token was minted by a    *)
(* login, so the caller's row was there; whether it is active is not asked.*)

CallerExists(c) ==
    CASE c.op \in {"password", "activate"} -> students[c.who] # None
      [] c.op = "profile" -> IF c.by = None THEN students[c.who] # None ELSE agents[c.by] # None
      [] c.op = "enlist" -> agents[c.by] # None
      [] c.op = "presence" -> agents[c.who] # None
      [] OTHER -> TRUE

(* Handlers that read before they write. *)
Looks(c) == c.op \in {"register", "login", "enlist", "password", "hire"} \/ (c.op = "profile" /\ c.by # None)

Arrive(r, c) ==
    /\ at[r] = "idle"
    /\ CallerExists(c)
    /\ call' = [call EXCEPT ![r] = c]
    /\ Enter(r, IF Looks(c) THEN "check" ELSE "write")
    /\ UNCHANGED <<tables, known, answer, trail, committed, raced>>

(* Mutant of Admitted: login verifies the password only. *)
AdmittedInactive(c) ==
    CASE c.op \in Inserts -> students[c.who] = None
      [] c.op = "hire" -> agents[c.who] = None
      [] c.op \in {"password", "login"} -> students[c.who] # None /\ students[c.who].pw = c.pw
      [] c.op = "profile" -> students[c.who] # None /\ (c.linked \/ students[c.who].agent = c.by)

(* SELECT EXISTS of the address; the row with its password and is_active;  *)
(* is_assigned_agent.                                                      *)
Admitted(c) ==
    CASE c.op \in Inserts -> students[c.who] = None
      [] c.op = "hire" -> agents[c.who] = None
      [] c.op = "password" -> students[c.who] # None /\ students[c.who].pw = c.pw
      [] c.op = "login" ->
            students[c.who] # None /\ students[c.who].is_active /\ students[c.who].pw = c.pw
      [] c.op = "profile" -> students[c.who] # None /\ (c.linked \/ students[c.who].agent = c.by)

Check(r) ==
    /\ at[r] = "check"
    /\ IF Admitted(call[r])
          THEN /\ Enter(r, "write")
               /\ known' = [known EXCEPT ![r] = IF call[r].op \in Inserts THEN Stored ELSE {}]
               /\ UNCHANGED <<answer, raced>>
          ELSE Return(r, "refused")
    /\ UNCHANGED <<tables, call, trail, committed>>

----------------------------------------------------------------------------
(* The statement that writes. *)

Commit(r) ==
    /\ Enter(r, "wrote")
    /\ committed' = committed \cup {r}
    /\ known' = [known EXCEPT ![r] = {}]

(* Handlers about to act on a password they verified. *)
Trusting(e) == {s \in Requests : at[s] = "write" /\ call[s].op \in {"password", "login"} /\ call[s].who = e}

(* created_at is taken when the INSERT begins, after the handler's look:   *)
(* the row goes above every row it saw, and anywhere among later ones.     *)
Placed(e, p) ==
    [i \in 1..(Len(order) + 1) |->
        IF i < p THEN order[i] ELSE IF i = p THEN e ELSE order[i - 1]]

(* Mutant of Free: the column is not UNIQUE. *)
FreeAlways(e) == TRUE

Free(e) == students[e] = None

(* create_student and create_student_by_agent.  The INSERT on an address   *)
(* that has been taken since fails on the constraint.                      *)
InsertStudent(r) ==
    LET c == call[r] IN
    /\ at[r] = "write" /\ c.op \in Inserts
    /\ IF Free(c.who)
          THEN /\ Len(order) < MaxRows
               /\ students' = [students EXCEPT ![c.who] =
                      Registered(c.pw, IF c.op = "enlist" THEN c.by ELSE None)]
               /\ \E p \in 1..(Len(order) + 1) :
                     /\ \A i \in DOMAIN order : i < p => order[i] \notin known[r]
                     /\ order' = Placed(c.who, p)
               /\ Commit(r)
               /\ UNCHANGED <<answer, raced>>
          ELSE Return(r, "error") /\ UNCHANGED <<students, order, committed>>
    /\ UNCHANGED <<agents, call, trail>>

(* update_student_status: is_active follows the status, not the payload.   *)
FinalStatus(c) ==
    IF c.status # None THEN c.status ELSE IF c.active THEN "in_progress" ELSE "inactive"

(* Mutant of Updated: any status is moved on. *)
UpdatedAny(c, row) ==
    CASE c.op = "password" -> [row EXCEPT !.pw = c.new]
      [] c.op = "profile" -> [row EXCEPT !.profile = IF c.by = None THEN "student" ELSE "agent"]
      [] c.op = "activate" -> [row EXCEPT !.status = "in_progress"]
      [] c.op = "status" ->
            [row EXCEPT !.status = FinalStatus(c), !.is_active = (FinalStatus(c) # "inactive")]

(* The UPDATEs of one student; that of `activate` is conditional and its   *)
(* row count is not looked at.                                             *)
Updated(c, row) ==
    CASE c.op = "password" -> [row EXCEPT !.pw = c.new]
      [] c.op = "profile" -> [row EXCEPT !.profile = IF c.by = None THEN "student" ELSE "agent"]
      [] c.op = "activate" -> IF row.status = "lead" THEN [row EXCEPT !.status = "in_progress"] ELSE row
      [] c.op = "status" ->
            [row EXCEPT !.status = FinalStatus(c), !.is_active = (FinalStatus(c) # "inactive")]

UpdateStudent(r) ==
    LET c == call[r] IN
    /\ at[r] = "write" /\ c.op \in {"password", "profile", "activate", "status"}
    /\ IF students[c.who] # None
          THEN /\ students' = [students EXCEPT ![c.who] = Updated(c, @)]
               /\ Commit(r)
               /\ raced' = IF c.op \in {"password", "status"} THEN raced \cup (Trusting(c.who) \ {r})
                                                              ELSE raced
               /\ UNCHANGED answer
          ELSE Return(r, "refused") /\ UNCHANGED <<students, committed>>
    /\ UNCHANGED <<order, agents, call, trail>>

(* login_student's create_refresh_token; the table is RefreshTokens'.      *)
OpenSession(r) ==
    /\ at[r] = "write" /\ call[r].op = "login"
    /\ Commit(r)
    /\ UNCHANGED <<tables, call, answer, trail, raced>>

(* create_agent. *)
InsertAgent(r) ==
    LET g == call[r].who IN
    /\ at[r] = "write" /\ call[r].op = "hire"
    /\ IF agents[g] = None
          THEN /\ agents' = [agents EXCEPT ![g] = [is_active |-> TRUE, is_online |-> FALSE]]
               /\ Commit(r)
               /\ UNCHANGED <<answer, raced>>
          ELSE Return(r, "error") /\ UNCHANGED <<agents, committed>>
    /\ UNCHANGED <<students, order, call, trail>>

(* update_agent sets is_active and leaves is_online, and fetch_one of no   *)
(* row is a database error; update_agent_status touches active agents only.*)
UpdateAgent(r) ==
    LET c == call[r] IN
    /\ at[r] = "write" /\ c.op \in {"edit", "presence"}
    /\ IF agents[c.who] # None /\ (c.op = "presence" => agents[c.who].is_active)
          THEN /\ agents' = [agents EXCEPT ![c.who] =
                      IF c.op = "edit" THEN [@ EXCEPT !.is_active = c.active]
                                       ELSE [@ EXCEPT !.is_online = c.online]]
               /\ Commit(r)
               /\ UNCHANGED <<answer, raced>>
          ELSE /\ Return(r, IF c.op = "edit" THEN "error" ELSE "refused")
               /\ UNCHANGED <<agents, committed>>
    /\ UNCHANGED <<students, order, call, trail>>

Write(r) == InsertStudent(r) \/ UpdateStudent(r) \/ OpenSession(r) \/ InsertAgent(r) \/ UpdateAgent(r)

----------------------------------------------------------------------------
(* The response and the audit trail. *)

(* create_student's RETURNING leaves out `status`, which Student asks for: *)
(* the row is committed and decoding the answer fails.                     *)
Decodes(c) == c.op # "register"

(* A request has claims when it carries an access token, which the public  *)
(* ones need not.                                                          *)
Owed(c) == IF c.op \in Public THEN {"none", "owed"} ELSE {"owed"}

(* Mutant of Respond: the audit task is spawned whatever the status. *)
RespondLogAll(r) ==
    /\ at[r] = "wrote"
    /\ Enter(r, "done")
    /\ answer' = [answer EXCEPT ![r] = IF Decodes(call[r]) THEN "ok" ELSE "error"]
    /\ \E t \in Owed(call[r]) : trail' = [trail EXCEPT ![r] = t]
    /\ raced' = raced \ {r}
    /\ UNCHANGED <<tables, call, known, committed>>

(* Mutant of Respond: the claims are decoded after the handler, from a     *)
(* token that may have expired in the meantime.                            *)
RespondLateClaims(r) ==
    /\ at[r] = "wrote"
    /\ Enter(r, "done")
    /\ answer' = [answer EXCEPT ![r] = IF Decodes(call[r]) THEN "ok" ELSE "error"]
    /\ \E t \in {"none", "owed"} : trail' = [trail EXCEPT ![r] = IF Decodes(call[r]) THEN t ELSE "none"]
    /\ raced' = raced \ {r}
    /\ UNCHANGED <<tables, call, known, committed>>

(* next.run returns; on success the task of log_action is spawned in the   *)
(* same step, and the response does not wait for it.                       *)
Respond(r) ==
    /\ at[r] = "wrote"
    /\ Enter(r, "done")
    /\ raced' = raced \ {r}
    /\ IF Decodes(call[r])
          THEN /\ answer' = [answer EXCEPT ![r] = "ok"]
               /\ \E t \in Owed(call[r]) : trail' = [trail EXCEPT ![r] = t]
          ELSE answer' = [answer EXCEPT ![r] = "error"] /\ UNCHANGED trail
    /\ UNCHANGED <<tables, call, known, committed>>

(* The audit INSERT; a failure is written to the log and forgotten. *)
LogAction(r) ==
    /\ trail[r] = "owed"
    /\ \E t \in {"logged", "lost"} : trail' = [trail EXCEPT ![r] = t]
    /\ UNCHANGED <<tables, call, at, known, answer, committed, raced>>

Serving == {r \in Requests : at[r] \in {"check", "write", "wrote"}}

(* A statement fails, its acknowledgement is lost, or the client hangs up  *)
(* and the handler is dropped at its await, the middleware with it.        *)
Break(r) ==
    /\ r \in Serving
    /\ Return(r, "error")
    /\ UNCHANGED <<tables, call, trail, committed>>

(* The process dies: handlers and audit tasks are memory.                  *)
Crash ==
    /\ Serving # {} \/ \E r \in Requests : trail[r] = "owed"
    /\ at' = [r \in Requests |-> IF r \in Serving THEN "done" ELSE at[r]]
    /\ answer' = [r \in Requests |-> IF r \in Serving THEN "error" ELSE answer[r]]
    /\ trail' = [r \in Requests |-> IF trail[r] = "owed" THEN "lost" ELSE trail[r]]
    /\ known' = [r \in Requests |-> {}]
    /\ raced' = {}
    /\ UNCHANGED <<tables, call, committed>>

Next ==
    \/ \E r \in Requests :
          \/ \E c \in Asked : Arrive(r, c)
          \/ Check(r) \/ Write(r) \/ Respond(r) \/ LogAction(r) \/ Break(r)
    \/ Crash

Spec == Init /\ [][Next]_vars

----------------------------------------------------------------------------
(* Properties. *)

Inserted(e) == {r \in committed : call[r].op \in Inserts /\ call[r].who = e}

(* Two registrations that both find an address free, or a retry of one     *)
(* whose answer failed, make one account: the second neither adds a row    *)
(* nor puts its password in the place of the first one's.                  *)
InsertedOnce ==
    \A e \in Emails : \A q, r \in Inserted(e) :
       /\ q = r
       /\ \/ students[e].pw = call[r].pw
          \/ \E s \in committed : call[s].op = "password" /\ call[s].who = e

(* is_active and status say the same of an account, though two services    *)
(* write the status and one of them the flag.                              *)
ActiveMatchesStatus ==
    \A e \in Stored : students[e].is_active <=> students[e].status # "inactive"

(* A session is opened, and a password replaced, on credentials that hold  *)
(* of the account at that moment, unless the account was changed between   *)
(* the handler's look and its statement.                                   *)
ActsOnCurrentRow ==
    [][\A r \in Requests :
          (r \in committed' \ committed /\ r \notin raced) =>
             /\ call[r].op \in {"password", "login"} => students[call[r].who].pw = call[r].pw
             /\ call[r].op = "login" => students[call[r].who].is_active]_vars

(* Only what was done is on record: an audit row, or a task that will      *)
(* write one, is of a request that was committed and answered with success.*)
LoggedIsDone ==
    \A r \in Requests : trail[r] # "none" => r \in committed /\ answer[r] = "ok"

(* What was done is on record, unless the request broke off after its      *)
(* commit, the audit INSERT was lost, or the request carried no token.     *)
DoneIsLogged ==
    \A r \in committed :
       \/ at[r] = "wrote"
       \/ trail[r] # "none"
       \/ answer[r] = "error"
       \/ call[r].op \in Public
=============================================================================
