---------------------------- MODULE Applications ----------------------------
(***************************************************************************)
(* University applications: routes/applications.rs over                    *)
(* services/application_service.rs, and the student's account status they  *)
(* move on.  An update reads the application twice (once for access        *)
(* control, once in the service) and then overwrites the whole row; a      *)
(* creation looks for a duplicate before its transaction begins; the       *)
(* account status is a statement of its own after the commit.  Between any *)
(* two of these another handler may run, or this one may end (Abort).      *)
(***************************************************************************)
EXTENDS FiniteSets

CONSTANTS
    Apps,       \* primary keys of applications
    Students,
    Agents,
    Admin,      \* a superadmin
    Courses,    \* (university, course) pairs, compared without case
    AccountStatus, \* values of students.status, with "lead" and "in_progress"
    Wishes,     \* statuses that staff put into an update
    Reqs,       \* handlers that can be running at once
    AgentOf,    \* students.assigned_agent_id, which this service never writes
    None        \* NULL

Callers == Students \cup Agents \cup {Admin}
Status == {"draft", "submitted", "Applied"}
Application ==
    [student_id : Students, agent_id : Agents \cup {None}, course : Courses,
     status : Status, submitted_at : {"null", "set"}]

ASSUME ApplicationConstants ==
    /\ None \notin Application \cup Apps \cup Agents \cup Status
    /\ None \notin Students \X Courses
    /\ AgentOf \in [Students -> Agents \cup {None}]
    /\ Students \cap (Agents \cup {Admin}) = {}
    /\ Admin \notin Agents
    /\ {"lead", "in_progress"} \subseteq AccountStatus
    /\ Wishes \subseteq Status

(* What update_application keeps of the row it reads. *)
Reading == [status : Status, submitted_at : {"null", "set"}]

VARIABLES
    apps,     \* the applications table
    account,  \* students.status
    pc,       \* where each handler is
    role,     \* "student" when the caller is one, "staff" otherwise
    target,   \* the application it updates
    key,      \* the student and course it writes
    wish,     \* the status in the payload, None when absent or a student's
    seen,     \* the status of the handler's first read
    current,  \* the status and date the service read, or the UPDATE returned
    stale,    \* history: handlers whose reads an UPDATE has overtaken
    unchecked,\* history: keys two creations checked at once, or an update wrote
    excused,  \* history: students whose promotion was lost or undone
    owed      \* history: handlers that committed a change of status and have
              \* since neither spawned its mail nor ended early

vars == <<apps, account, pc, role, target, key, wish, seen, current, stale, unchecked, excused, owed>>
locals == <<role, target, key, wish, seen, current>>

Phases == {"idle", "create", "promote", "reread", "update", "wrote", "mail"}
Window == {"reread", "update"}

TypeOK ==
    /\ apps \in [Apps -> Application \cup {None}]
    /\ account \in [Students -> AccountStatus]
    /\ pc \in [Reqs -> Phases]
    /\ role \in [Reqs -> {"student", "staff"} \cup {None}]
    /\ target \in [Reqs -> Apps \cup {None}]
    /\ key \in [Reqs -> (Students \X Courses) \cup {None}]
    /\ wish \in [Reqs -> Status \cup {None}]
    /\ seen \in [Reqs -> Status \cup {None}]
    /\ current \in [Reqs -> Reading \cup {None}]
    /\ stale \subseteq Reqs
    /\ unchecked \subseteq Students \X Courses
    /\ excused \subseteq Students
    /\ owed \subseteq Reqs

Init ==
    /\ apps = [a \in Apps |-> None]
    /\ account = [s \in Students |-> "lead"]
    /\ pc = [r \in Reqs |-> "idle"]
    /\ role = [r \in Reqs |-> None]
    /\ target = [r \in Reqs |-> None]
    /\ key = [r \in Reqs |-> None]
    /\ wish = [r \in Reqs |-> None]
    /\ seen = [r \in Reqs |-> None]
    /\ current = [r \in Reqs |-> None]
    /\ stale = {}
    /\ unchecked = {}
    /\ excused = {}
    /\ owed = {}

Present == {a \in Apps : apps[a] # None}
Key(a) == <<apps[a].student_id, apps[a].course>>

Role(u) == IF u \in Students THEN "student" ELSE "staff"

(* The handler forgets its locals. *)
Forget(r) ==
    /\ role' = [role EXCEPT ![r] = None]
    /\ target' = [target EXCEPT ![r] = None]
    /\ key' = [key EXCEPT ![r] = None]
    /\ wish' = [wish EXCEPT ![r] = None]
    /\ seen' = [seen EXCEPT ![r] = None]
    /\ current' = [current EXCEPT ![r] = None]

Return(r) ==
    /\ pc' = [pc EXCEPT ![r] = "idle"]
    /\ stale' = stale \ {r}
    /\ Forget(r)

----------------------------------------------------------------------------
(* create_application and agent_create_application. *)

AssignedTo(g, s) == AgentOf[s] = g \/ \E a \in Present : apps[a].student_id = s /\ apps[a].agent_id = g

MayCreate(u, s) == u = s \/ u = Admin \/ (u \in Agents /\ AssignedTo(u, s))

(* Mutant of CreateCheck: the duplicate check is left to the caller. *)
CreateUnchecked(r, u, s, c) ==
    /\ pc[r] = "idle"
    /\ MayCreate(u, s)
    /\ pc' = [pc EXCEPT ![r] = "create"]
    /\ role' = [role EXCEPT ![r] = Role(u)]
    /\ key' = [key EXCEPT ![r] = <<s, c>>]
    /\ UNCHANGED <<apps, account, target, wish, seen, current, stale, unchecked, excused, owed>>

(* SELECT EXISTS, outside the transaction; a duplicate is refused. *)
CreateCheck(r, u, s, c) ==
    /\ pc[r] = "idle"
    /\ MayCreate(u, s)
    /\ \A a \in Present : Key(a) # <<s, c>>
    /\ pc' = [pc EXCEPT ![r] = "create"]
    /\ role' = [role EXCEPT ![r] = Role(u)]
    /\ key' = [key EXCEPT ![r] = <<s, c>>]
    /\ unchecked' =
          IF \E q \in Reqs : pc[q] = "create" /\ key[q] = <<s, c>>
             THEN unchecked \cup {<<s, c>>} ELSE unchecked
    /\ UNCHANGED <<apps, account, target, wish, seen, current, stale, excused, owed>>

(* The transaction: the student's agent is copied into a row that is a     *)
(* draft when the student made it and "Applied" when staff did.            *)
NewApplication(by, s, c) ==
    [student_id |-> s, agent_id |-> AgentOf[s], course |-> c,
     status |-> IF by = "student" THEN "draft" ELSE "Applied", submitted_at |-> "null"]

(* Mutant of CreateCommit: the handler answers before the promotion. *)
CreateAndReturn(r, a) ==
    /\ pc[r] = "create"
    /\ apps[a] = None
    /\ apps' = [apps EXCEPT ![a] = NewApplication(role[r], key[r][1], key[r][2])]
    /\ Return(r)
    /\ UNCHANGED <<account, unchecked, excused, owed>>

CreateCommit(r, a) ==
    /\ pc[r] = "create"
    /\ apps[a] = None
    /\ apps' = [apps EXCEPT ![a] = NewApplication(role[r], key[r][1], key[r][2])]
    /\ pc' = [pc EXCEPT ![r] = "promote"]
    /\ UNCHANGED <<account, locals, stale, unchecked, excused, owed>>

(* UPDATE students SET status = 'in_progress' WHERE .. status = 'lead'. *)
Promote(r) ==
    /\ pc[r] = "promote"
    /\ account' = [account EXCEPT ![key[r][1]] = IF @ = "lead" THEN "in_progress" ELSE @]
    /\ Return(r)
    /\ UNCHANGED <<apps, unchecked, excused, owed>>

(* admin_service::update_student_status writes any status. *)
SetAccount(s, st) ==
    /\ account[s] # st
    /\ account' = [account EXCEPT ![s] = st]
    /\ excused' = excused \cup {s}
    /\ UNCHANGED <<apps, pc, locals, stale, unchecked, owed>>

----------------------------------------------------------------------------
(* update_application. *)

(* Mutant of MayUpdate: ownership is checked, the status is not. *)
MayUpdateOwn(u, a) ==
    \/ u = Admin
    \/ u = apps[a].student_id
    \/ u \in Agents /\ u \in {apps[a].agent_id, AgentOf[apps[a].student_id]}

MayUpdate(u, a) ==
    \/ u = Admin
    \/ u = apps[a].student_id /\ apps[a].status = "draft"
    \/ u \in Agents /\ u \in {apps[a].agent_id, AgentOf[apps[a].student_id]}

(* The first read and the access check.  A student's status is dropped. *)
UpdateRead(r, u, a, c, st) ==
    /\ pc[r] = "idle"
    /\ apps[a] # None
    /\ MayUpdate(u, a)
    /\ pc' = [pc EXCEPT ![r] = "reread"]
    /\ role' = [role EXCEPT ![r] = Role(u)]
    /\ target' = [target EXCEPT ![r] = a]
    /\ key' = [key EXCEPT ![r] = <<apps[a].student_id, c>>]
    /\ wish' = [wish EXCEPT ![r] = IF u \in Students THEN None ELSE st]
    /\ seen' = [seen EXCEPT ![r] = apps[a].status]
    /\ UNCHANGED <<apps, account, current, stale, unchecked, excused, owed>>

(* The service reads the row again. *)
UpdateReread(r) ==
    /\ pc[r] = "reread"
    /\ current' = [current EXCEPT ![r] =
          [status |-> apps[target[r]].status, submitted_at |-> apps[target[r]].submitted_at]]
    /\ pc' = [pc EXCEPT ![r] = "update"]
    /\ UNCHANGED <<apps, account, role, target, key, wish, seen, stale, unchecked, excused, owed>>

(* Mutant of Written: the date computed from the payload alone. *)
WrittenRedated(r) ==
    [apps[target[r]] EXCEPT !.course = key[r][2],
       !.status = IF wish[r] = None THEN current[r].status ELSE wish[r],
       !.submitted_at = IF wish[r] = "submitted" THEN "set" ELSE "null"]

(* What the UPDATE sets: every column but student_id and agent_id, from    *)
(* the payload and from the row the service read.                          *)
Written(r) ==
    LET st == IF wish[r] = None THEN current[r].status ELSE wish[r] IN
    [apps[target[r]] EXCEPT !.course = key[r][2], !.status = st,
       !.submitted_at = IF st = "submitted" /\ current[r].submitted_at = "null"
                           THEN "set" ELSE current[r].submitted_at]

(* The UPDATE of the whole row, which returns the row it wrote.  From      *)
(* here on a change of status is owed a mail, unless the reads it was      *)
(* computed from had been overtaken.                                       *)
UpdateWrite(r) ==
    LET old == apps[target[r]]
        new == Written(r)
        overtaken == {q \in Reqs \ {r} : pc[q] \in Window /\ target[q] = target[r]} IN
    /\ pc[r] = "update"
    /\ apps' = [apps EXCEPT ![target[r]] = new]
    /\ unchecked' = IF new.course # old.course THEN unchecked \cup {key[r]} ELSE unchecked
    /\ current' = [current EXCEPT ![r] = [status |-> new.status, submitted_at |-> new.submitted_at]]
    /\ pc' = [pc EXCEPT ![r] = "wrote"]
    /\ stale' = (stale \ {r}) \cup overtaken
    /\ owed' = IF r \notin stale /\ new.status # old.status THEN owed \cup {r} ELSE owed
    /\ UNCHANGED <<account, role, target, key, wish, seen, excused>>

(* Mutant of Changed: only drafts are watched. *)
ChangedFromDraft(r) == seen[r] = "draft" /\ current[r].status # "draft"

(* status_changed compares the row the UPDATE returned with the first read.*)
Changed(r) == current[r].status # seen[r]

(* Back in the route: a changed status is mailed from a spawned task.      *)
Respond(r) ==
    /\ pc[r] = "wrote"
    /\ \/ /\ Changed(r)
          /\ pc' = [pc EXCEPT ![r] = "mail"]
          /\ owed' = owed \ {r}
          /\ Forget(r)
          /\ UNCHANGED stale
       \/ /\ ~Changed(r)
          /\ Return(r)
          /\ UNCHANGED owed
    /\ UNCHANGED <<apps, account, unchecked, excused>>

(* The spawned task sends the mail, or its SELECT or SMTP call fails. *)
Mail(r) ==
    /\ pc[r] = "mail"
    /\ Return(r)
    /\ UNCHANGED <<apps, account, unchecked, excused, owed>>

(* assign_agent, by a superadmin. *)
Assign(a, g) ==
    /\ apps[a] # None
    /\ apps[a].agent_id # g
    /\ apps' = [apps EXCEPT ![a].agent_id = g]
    /\ UNCHANGED <<account, pc, locals, stale, unchecked, excused, owed>>

Abort(r) ==
    /\ pc[r] \notin {"idle", "mail"}
    /\ excused' = IF pc[r] = "promote" THEN excused \cup {key[r][1]} ELSE excused
    /\ owed' = owed \ {r}
    /\ Return(r)
    /\ UNCHANGED <<apps, account, unchecked>>

Next ==
    \/ \E r \in Reqs :
          \/ \E u \in Callers, s \in Students, c \in Courses : CreateCheck(r, u, s, c)
          \/ \E a \in Apps : CreateCommit(r, a)
          \/ Promote(r)
          \/ \E u \in Callers, a \in Apps, c \in Courses, st \in Wishes \cup {None} :
                UpdateRead(r, u, a, c, st)
          \/ UpdateReread(r) \/ UpdateWrite(r) \/ Respond(r) \/ Mail(r) \/ Abort(r)
    \/ \E a \in Apps, g \in Agents : Assign(a, g)
    \/ \E s \in Students, st \in AccountStatus : SetAccount(s, st)

Spec == Init /\ [][Next]_vars

----------------------------------------------------------------------------
(* Properties. *)

(* A student never has two applications for one course, unless two         *)
(* creations passed the check together or an update renamed the course,    *)
(* which no check guards.                                                  *)
NoDuplicates ==
    \A a, b \in Present : Key(a) = Key(b) /\ a # b => Key(a) \in unchecked

(* A student with an application is no longer a lead, unless the handler   *)
(* that owes the promotion is still running or died, or an admin set the   *)
(* status.                                                                 *)
ApplicantsPromoted ==
    \A a \in Present :
       LET s == apps[a].student_id IN
       account[s] = "lead" =>
          s \in excused \/ \E r \in Reqs : pc[r] = "promote" /\ key[r][1] = s

Writes(r) == pc[r] = "update" /\ pc'[r] = "wrote"

(* When no other update overtook its reads, a student's update changes     *)
(* only a draft and leaves it one.                                         *)
StudentEditsDraft ==
    [][\A r \in Reqs \ stale : Writes(r) /\ role[r] = "student" =>
          apps[target[r]].status = "draft" /\ apps'[target[r]].status = "draft"]_vars

(* The date of submission is cleared only by an update whose reads were    *)
(* overtaken.                                                              *)
DateKept ==
    [][\A a \in Present :
          apps[a].submitted_at = "set" /\ apps'[a].submitted_at = "null" =>
             \E r \in stale : Writes(r) /\ target[r] = a]_vars

(* Between the commit of a change of status and the spawn of its mail the  *)
(* handler has yet to return from the service and compare.  A change whose *)
(* reads nothing overtook is in the hands of the handler that committed it *)
(* until the mail is spawned: it is lost by an early end of that handler,  *)
(* never by a handler that answers.                                        *)
ChangeIsMailed == \A r \in owed : pc[r] = "wrote"

(* applications.rs:222, "Students cannot update the status directly,       *)
(* status remains unchanged": a student's update leaves the status as it   *)
(* finds it.                                                               *)
StudentKeepsStatus ==
    [][\A r \in Reqs : Writes(r) /\ role[r] = "student" =>
          apps'[target[r]].status = apps[target[r]].status]_vars
============================================================================
