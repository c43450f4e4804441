--------------------------- MODULE AccountsProofs ---------------------------
(***************************************************************************)
(* Theorems about Accounts and, at the end, about the lists of AdminLists. *)
(* The invariant of the accounts has three parts beside their types: where *)
(* a request stands decides what it has committed and what is on record of *)
(* it (Standing), an insertion that was committed is the account's         *)
(* (Insertions), and a handler about to act on a password has verified the *)
(* password the account still has (Trusted).                               *)
(***************************************************************************)
EXTENDS AdminLists, FiniteSetTheorems, TLAPS

Standing ==
    \A r \in Requests :
       /\ at[r] # "done" => trail[r] = "none"
       /\ at[r] \in {"idle", "check", "write"} => r \notin committed
       /\ at[r] = "wrote" => r \in committed

Insertions ==
    \A e \in Emails : \A r \in Inserted(e) :
       /\ students[e] # None
       /\ \/ students[e].pw = call[r].pw
          \/ \E s \in committed : call[s].op = "password" /\ call[s].who = e

Trusted ==
    \A r \in Requests :
       (at[r] = "write" /\ call[r].op \in {"password", "login"} /\ r \notin raced) =>
          /\ students[call[r].who] # None
          /\ students[call[r].who].pw = call[r].pw
          /\ call[r].op = "login" => students[call[r].who].is_active

(* What the fields of a call are. *)
LEMMA CallFields ==
    ASSUME NEW c \in Calls
    PROVE  /\ c.op \in {"register", "login", "enlist", "password", "profile", "activate",
                        "status", "hire", "edit", "presence"}
           /\ c.op \in Inserts \cup {"login", "password"} => c.who \in Emails /\ c.pw \in Passwords
           /\ c.op \in {"profile", "activate", "status"} => c.who \in Emails
           /\ c.op \in {"hire", "edit", "presence"} => c.who \in AgentEmails
           /\ c.op = "enlist" => c.by \in AgentEmails
           /\ c.op = "password" => c.new \in Passwords
           /\ c.op = "status" => c.active \in BOOLEAN /\ c.status \in Statuses \cup {None}
           /\ c.op = "edit" => c.active \in BOOLEAN
           /\ c.op = "presence" => c.online \in BOOLEAN
  <1>1. CASE c \in [op : {"register", "login"}, who : Emails, pw : Passwords]
    BY <1>1 DEF Inserts
  <1>2. CASE c \in [op : {"enlist"}, who : Emails, pw : Passwords, by : AgentEmails]
    BY <1>2 DEF Inserts
  <1>3. CASE c \in [op : {"password"}, who : Emails, pw : Passwords, new : Passwords]
    BY <1>3 DEF Inserts
  <1>4. CASE c \in [op : {"profile"}, who : Emails, by : AgentEmails \cup {None}, linked : BOOLEAN]
    BY <1>4 DEF Inserts
  <1>5. CASE c \in [op : {"activate"}, who : Emails]
    BY <1>5 DEF Inserts
  <1>6. CASE c \in [op : {"status"}, who : Emails, active : BOOLEAN, status : Statuses \cup {None}]
    BY <1>6 DEF Inserts
  <1>7. CASE c \in [op : {"hire"}, who : AgentEmails]
    BY <1>7 DEF Inserts
  <1>8. CASE c \in [op : {"edit"}, who : AgentEmails, active : BOOLEAN]
    BY <1>8 DEF Inserts
  <1>9. CASE c \in [op : {"presence"}, who : AgentEmails, online : BOOLEAN]
    BY <1>9 DEF Inserts
  <1> QED
    BY <1>1, <1>2, <1>3, <1>4, <1>5, <1>6, <1>7, <1>8, <1>9 DEF Calls

(* A new account is a row of the table. *)
LEMMA RegisteredType ==
    ASSUME NEW pw \in Passwords, NEW g \in AgentEmails \cup {None}
    PROVE  /\ Registered(pw, g) \in Student
           /\ Registered(pw, g) # None
           /\ Registered(pw, g).pw = pw
           /\ Registered(pw, g).is_active
           /\ Registered(pw, g).status = "lead"
  <1>1. Registered(pw, g) \in Student
    BY DEF Registered, Student, Statuses
  <1> QED
    BY <1>1, AccountConstants DEF Registered

(* What an UPDATE leaves of a student's row. *)
LEMMA UpdatedRow ==
    ASSUME NEW c \in Calls, NEW row \in Student,
           c.op \in {"password", "profile", "activate", "status"}
    PROVE  /\ Updated(c, row) \in Student
           /\ Updated(c, row) # None
           /\ c.op = "password" => Updated(c, row).pw = c.new
           /\ c.op # "password" => Updated(c, row).pw = row.pw
           /\ c.op # "status" => Updated(c, row).is_active = row.is_active
           /\ (row.is_active <=> row.status # "inactive") =>
                 (Updated(c, row).is_active <=> Updated(c, row).status # "inactive")
  <1>1. CASE c.op = "password"
    BY <1>1, CallFields, AccountConstants DEF Updated, Student
  <1>2. CASE c.op = "profile"
    BY <1>2, CallFields, AccountConstants DEF Updated, Student
  <1>3. CASE c.op = "activate"
    BY <1>3, CallFields, AccountConstants DEF Updated, Student, Statuses
  <1>4. CASE c.op = "status"
    <2>1. FinalStatus(c) \in Statuses
      BY <1>4, CallFields DEF FinalStatus, Statuses
    <2> DEFINE f == FinalStatus(c)
               b == f # "inactive"
               new == [row EXCEPT !.status = f, !.is_active = b]
    <2>2. Updated(c, row) = new
      BY <1>4 DEF Updated
    <2>3. b \in BOOLEAN /\ (b <=> f # "inactive") /\ f \in Statuses
      BY <2>1
    <2> HIDE DEF b, f
    <2>4. new \in Student /\ new.pw = row.pw /\ new.status = f /\ new.is_active = b
      BY <2>3 DEF Student
    <2>5. new # None
      BY <2>4, AccountConstants
    <2> QED
      BY <1>4, <2>2, <2>3, <2>4, <2>5
  <1> QED
    BY <1>1, <1>2, <1>3, <1>4

(* An inserted row goes into the order without leaving it a hole. *)
LEMMA PlacedType ==
    ASSUME order \in Seq(Emails), NEW e \in Emails, NEW p \in 1..(Len(order) + 1)
    PROVE  Placed(e, p) \in Seq(Emails) /\ Len(Placed(e, p)) = Len(order) + 1
  <1>1. Placed(e, p) \in [1..(Len(order) + 1) -> Emails]
    BY DEF Placed
  <1> QED
    BY <1>1

----------------------------------------------------------------------------
(* Types. *)

(* What Return and Commit leave behind. *)
LEMMA ReturnType ==
    ASSUME TypeOK, NEW r \in Requests, NEW a \in {"refused", "error"}, Return(r, a)
    PROVE  /\ at' \in [Requests -> {"idle", "check", "write", "wrote", "done"}]
           /\ known' \in [Requests -> SUBSET Emails]
           /\ answer' \in [Requests -> {"ok", "refused", "error"} \cup {None}]
           /\ raced' \subseteq Requests
           /\ at' = [at EXCEPT ![r] = "done"]
  BY DEF TypeOK, Return, Enter

LEMMA CommitType ==
    ASSUME TypeOK, NEW r \in Requests, Commit(r)
    PROVE  /\ at' \in [Requests -> {"idle", "check", "write", "wrote", "done"}]
           /\ known' \in [Requests -> SUBSET Emails]
           /\ committed' \subseteq Requests
           /\ at' = [at EXCEPT ![r] = "wrote"]
  BY DEF TypeOK, Commit, Enter

(* A request that is served has a call. *)
LEMMA CallKnown ==
    ASSUME TypeOK, NEW r \in Requests, at[r] # "idle"
    PROVE  call[r] \in Calls
  BY DEF TypeOK

LEMMA InitType ==
    ASSUME Init
    PROVE  TypeOK
  <1>1. order \in Seq(Emails)
    <2>1. PICK n \in 0..MaxRows : order \in [1..n -> Emails]
      BY DEF Init
    <2> QED
      BY <2>1, AccountConstants
  <1>2. PICK pw \in Passwords, g \in AgentEmails :
          /\ students = [e \in Emails |->
                 IF \E i \in DOMAIN order : order[i] = e THEN Registered(pw, g) ELSE None]
          /\ agents = [h \in AgentEmails |->
                 IF h = g THEN [is_active |-> TRUE, is_online |-> FALSE] ELSE None]
    BY DEF Init
  <1>3. students \in [Emails -> Student \cup {None}]
    BY <1>2, RegisteredType
  <1>4. agents \in [AgentEmails -> Agent \cup {None}]
    BY <1>2 DEF Agent
  <1> QED
    BY <1>1, <1>3, <1>4 DEF Init, TypeOK

LEMMA InsertStudentType ==
    ASSUME TypeOK, NEW r \in Requests, InsertStudent(r)
    PROVE  TypeOK'
  <1> DEFINE c == call[r]
  <1>1. c \in Calls /\ c.op \in Inserts
    BY CallKnown DEF InsertStudent
  <1>2. CASE Free(c.who)
    <2>1. Registered(c.pw, IF c.op = "enlist" THEN c.by ELSE None) \in Student
      BY <1>1, CallFields, RegisteredType
    <2>2. PICK p \in 1..(Len(order) + 1) : order' = Placed(c.who, p)
      BY <1>2 DEF InsertStudent
    <2>3. order' \in Seq(Emails)
      BY <1>1, <2>2, CallFields, PlacedType DEF TypeOK
    <2>4. students' \in [Emails -> Student \cup {None}]
      BY <1>2, <2>1 DEF InsertStudent, TypeOK
    <2> QED
      BY <1>2, <2>3, <2>4, CommitType DEF InsertStudent, TypeOK
  <1>3. CASE ~Free(c.who)
    BY <1>3, ReturnType DEF InsertStudent, TypeOK
  <1> QED
    BY <1>2, <1>3

LEMMA UpdateStudentType ==
    ASSUME TypeOK, NEW r \in Requests, UpdateStudent(r)
    PROVE  TypeOK'
  <1> DEFINE c == call[r]
  <1>1. c \in Calls /\ c.op \in {"password", "profile", "activate", "status"} /\ c.who \in Emails
    BY CallKnown, CallFields DEF UpdateStudent
  <1>2. CASE students[c.who] # None
    <2>1. students' = [students EXCEPT ![c.who] = Updated(c, @)]
      BY <1>2 DEF UpdateStudent
    <2>2. Updated(c, students[c.who]) \in Student
      BY <1>1, <1>2, UpdatedRow DEF TypeOK
    <2>3. students' \in [Emails -> Student \cup {None}]
      BY <2>1, <2>2 DEF TypeOK
    <2>4. raced' \subseteq Requests
      BY <1>2 DEF UpdateStudent, Trusting, TypeOK
    <2> QED
      BY <1>2, <2>3, <2>4, CommitType DEF UpdateStudent, TypeOK
  <1>3. CASE students[c.who] = None
    BY <1>3, ReturnType DEF UpdateStudent, TypeOK
  <1> QED
    BY <1>2, <1>3

LEMMA AgentsType ==
    ASSUME TypeOK, NEW r \in Requests, InsertAgent(r) \/ UpdateAgent(r)
    PROVE  TypeOK'
  <1> DEFINE c == call[r]
  <1>1. c \in Calls
    BY CallKnown DEF InsertAgent, UpdateAgent
  <1>2. CASE InsertAgent(r)
    <2>1. CASE agents[c.who] = None
      <3> DEFINE new == [is_active |-> TRUE, is_online |-> FALSE]
      <3>1. new \in Agent
        BY DEF Agent
      <3>2. agents' = [agents EXCEPT ![c.who] = new]
        BY <1>2, <2>1 DEF InsertAgent
      <3> HIDE DEF new
      <3>3. agents' \in [AgentEmails -> Agent \cup {None}]
        BY <3>1, <3>2 DEF TypeOK
      <3> QED
        BY <1>2, <2>1, <3>3, CommitType DEF InsertAgent, TypeOK
    <2>2. CASE agents[c.who] # None
      BY <1>2, <2>2, ReturnType DEF InsertAgent, TypeOK
    <2> QED
      BY <2>1, <2>2
  <1>3. CASE UpdateAgent(r)
    <2> DEFINE Touches == agents[c.who] # None /\ (c.op = "presence" => agents[c.who].is_active)
    <2>1. CASE Touches
      <3>1. agents[c.who] \in Agent
        BY <1>1, <1>3, <2>1, CallFields DEF UpdateAgent, TypeOK
      <3>2. agents' \in [AgentEmails -> Agent \cup {None}]
        <4>1. CASE c.op = "edit"
          BY <1>1, <1>3, <2>1, <3>1, <4>1, CallFields DEF UpdateAgent, TypeOK, Agent
        <4>2. CASE c.op = "presence"
          BY <1>1, <1>3, <2>1, <3>1, <4>2, CallFields DEF UpdateAgent, TypeOK, Agent
        <4> QED
          BY <1>3, <4>1, <4>2 DEF UpdateAgent
      <3> QED
        BY <1>3, <2>1, <3>2, CommitType DEF UpdateAgent, TypeOK
    <2>2. CASE ~Touches
      BY <1>3, <2>2, ReturnType DEF UpdateAgent, TypeOK
    <2> QED
      BY <2>1, <2>2
  <1> QED
    BY <1>2, <1>3

LEMMA NextType ==
    ASSUME TypeOK, [Next]_vars
    PROVE  TypeOK'
  <1>1. ASSUME NEW r \in Requests, NEW c \in Asked, Arrive(r, c)
        PROVE  TypeOK'
    <2>1. c \in Calls /\ c # None
      BY AccountConstants
    <2> QED
      BY <1>1, <2>1 DEF Arrive, Enter, TypeOK, tables
  <1>2. ASSUME NEW r \in Requests, Check(r)
        PROVE  TypeOK'
    <2>1. CASE Admitted(call[r])
      BY <1>2, <2>1 DEF Check, Enter, TypeOK, tables, Stored
    <2>2. CASE ~Admitted(call[r])
      BY <1>2, <2>2, ReturnType DEF Check, TypeOK, tables
    <2> QED
      BY <2>1, <2>2
  <1>3. ASSUME NEW r \in Requests, OpenSession(r)
        PROVE  TypeOK'
    BY <1>3, CommitType DEF OpenSession, TypeOK, tables
  <1>4. ASSUME NEW r \in Requests, Respond(r)
        PROVE  TypeOK'
    BY <1>4 DEF Respond, Enter, Owed, TypeOK, tables
  <1>5. ASSUME NEW r \in Requests, LogAction(r)
        PROVE  TypeOK'
    BY <1>5 DEF LogAction, TypeOK, tables
  <1>6. ASSUME NEW r \in Requests, Break(r)
        PROVE  TypeOK'
    BY <1>6, ReturnType DEF Break, TypeOK, tables, Serving
  <1>7. CASE Crash
    BY <1>7 DEF Crash, TypeOK, tables, Serving
  <1>8. CASE UNCHANGED vars
    BY <1>8 DEF vars, TypeOK
  <1> QED
    BY <1>1, <1>2, <1>3, <1>4, <1>5, <1>6, <1>7, <1>8,
       InsertStudentType, UpdateStudentType, AgentsType DEF Next, Write

(* Every variable keeps its type. *)
THEOREM TypeCorrect == Spec => []TypeOK
  <1>1. Init => TypeOK
    BY InitType
  <1>2. TypeOK /\ [Next]_vars => TypeOK'
    BY NextType
  <1> QED
    BY <1>1, <1>2, PTL DEF Spec

----------------------------------------------------------------------------
(* The status of an account. *)

(* All a step can do to the table: insert at a free address, or update one *)
(* row.                                                                    *)
LEMMA StudentsStep ==
    ASSUME TypeOK, [Next]_vars
    PROVE  \/ UNCHANGED students
           \/ \E r \in Requests :
                 /\ InsertStudent(r) /\ students[call[r].who] = None
                 /\ \E g \in AgentEmails \cup {None} :
                       students' = [students EXCEPT ![call[r].who] = Registered(call[r].pw, g)]
           \/ \E r \in Requests :
                 /\ UpdateStudent(r) /\ students[call[r].who] # None
                 /\ students' = [students EXCEPT ![call[r].who] = Updated(call[r], @)]
  <1>1. CASE \E r \in Requests : InsertStudent(r)
    <2>1. PICK r \in Requests : InsertStudent(r)
      BY <1>1
    <2>2. call[r] \in Calls
      BY <2>1, CallKnown DEF InsertStudent
    <2>3. (IF call[r].op = "enlist" THEN call[r].by ELSE None) \in AgentEmails \cup {None}
      BY <2>2, CallFields
    <2> QED
      BY <2>1, <2>3 DEF InsertStudent, Free
  <1>2. CASE \E r \in Requests : UpdateStudent(r)
    BY <1>2 DEF UpdateStudent
  <1>3. CASE ~ \E r \in Requests : InsertStudent(r) \/ UpdateStudent(r)
    BY <1>3 DEF Next, Write, Arrive, Check, OpenSession, InsertAgent, UpdateAgent, Respond,
                LogAction, Break, Crash, tables, vars
  <1> QED
    BY <1>1, <1>2, <1>3

(* An account is active exactly when its status is not "inactive".         *)
THEOREM StatusesAgree == Spec => []ActiveMatchesStatus
  <1>1. Init => ActiveMatchesStatus
    <2> SUFFICES ASSUME Init, NEW e \in Stored
                 PROVE  students[e].is_active <=> students[e].status # "inactive"
      BY DEF ActiveMatchesStatus
    <2>1. PICK pw \in Passwords, g \in AgentEmails :
            students = [d \in Emails |->
               IF \E i \in DOMAIN order : order[i] = d THEN Registered(pw, g) ELSE None]
      BY DEF Init
    <2>2. students[e] = Registered(pw, g)
      BY <2>1 DEF Stored
    <2> QED
      BY <2>2, RegisteredType
  <1>2. TypeOK /\ ActiveMatchesStatus /\ [Next]_vars => ActiveMatchesStatus'
    <2> SUFFICES ASSUME TypeOK, ActiveMatchesStatus, [Next]_vars,
                        NEW e \in Emails, students'[e] # None
                 PROVE  students'[e].is_active <=> students'[e].status # "inactive"
      BY DEF ActiveMatchesStatus, Stored
    <2>1. CASE UNCHANGED students
      BY <2>1 DEF ActiveMatchesStatus, Stored
    <2>2. ASSUME NEW r \in Requests, InsertStudent(r), NEW g \in AgentEmails \cup {None},
                 students' = [students EXCEPT ![call[r].who] = Registered(call[r].pw, g)]
          PROVE  students'[e].is_active <=> students'[e].status # "inactive"
      <3>1. call[r].pw \in Passwords
        BY <2>2, CallKnown, CallFields DEF InsertStudent
      <3>2. CASE e = call[r].who
        BY <2>2, <3>1, <3>2, RegisteredType DEF TypeOK
      <3>3. CASE e # call[r].who
        BY <2>2, <3>3 DEF ActiveMatchesStatus, Stored, TypeOK
      <3> QED
        BY <3>2, <3>3
    <2>3. ASSUME NEW r \in Requests, UpdateStudent(r), students[call[r].who] # None,
                 students' = [students EXCEPT ![call[r].who] = Updated(call[r], @)]
          PROVE  students'[e].is_active <=> students'[e].status # "inactive"
      <3>1. CASE e = call[r].who
        <4>1. students[e] \in Student /\ students'[e] = Updated(call[r], students[e])
          BY <2>3, <3>1 DEF TypeOK
        <4>2. call[r] \in Calls /\ call[r].op \in {"password", "profile", "activate", "status"}
          BY <2>3, CallKnown DEF UpdateStudent
        <4>3. students[e].is_active <=> students[e].status # "inactive"
          BY <2>3, <3>1 DEF ActiveMatchesStatus, Stored
        <4> QED
          BY <4>1, <4>2, <4>3, UpdatedRow
      <3>2. CASE e # call[r].who
        BY <2>3, <3>2 DEF ActiveMatchesStatus, Stored, TypeOK
      <3> QED
        BY <3>1, <3>2
    <2> QED
      BY <2>1, <2>2, <2>3, StudentsStep
  <1> QED
    BY <1>1, <1>2, TypeCorrect, PTL DEF Spec

----------------------------------------------------------------------------
(* The audit trail. *)

(* A handler that writes commits, or returns without having done so.       *)
LEMMA WriteStep ==
    ASSUME TypeOK, NEW r \in Requests, Write(r)
    PROVE  /\ at[r] = "write"
           /\ UNCHANGED <<call, trail>>
           /\ \/ /\ at' = [at EXCEPT ![r] = "wrote"]
                 /\ committed' = committed \cup {r}
                 /\ UNCHANGED answer
              \/ /\ at' = [at EXCEPT ![r] = "done"]
                 /\ \E a \in {"refused", "error"} : answer' = [answer EXCEPT ![r] = a]
                 /\ UNCHANGED committed
  BY DEF Write, InsertStudent, UpdateStudent, OpenSession, InsertAgent, UpdateAgent,
         Commit, Return, Enter

LoggedOK == Standing /\ LoggedIsDone /\ DoneIsLogged

LEMMA TrailStep ==
    ASSUME TypeOK, LoggedOK, [Next]_vars
    PROVE  LoggedOK'
  <1> USE DEF LoggedOK, Standing, LoggedIsDone, DoneIsLogged
  <1>1. ASSUME NEW r \in Requests, NEW c \in Asked, Arrive(r, c)
        PROVE  LoggedOK'
    BY <1>1 DEF Arrive, Enter, TypeOK
  <1>2. ASSUME NEW r \in Requests, Check(r)
        PROVE  LoggedOK'
    BY <1>2 DEF Check, Return, Enter, TypeOK
  <1>3. ASSUME NEW r \in Requests, Write(r)
        PROVE  LoggedOK'
    <2>1. at[r] = "write" /\ UNCHANGED <<call, trail>>
      BY <1>3, WriteStep
    <2>2. CASE committed' = committed \cup {r} /\ at' = [at EXCEPT ![r] = "wrote"] /\ UNCHANGED answer
      <3>1. Standing'
        BY <2>1, <2>2 DEF TypeOK
      <3>2. LoggedIsDone' /\ DoneIsLogged'
        BY <2>1, <2>2 DEF TypeOK
      <3> QED
        BY <3>1, <3>2
    <2>3. CASE /\ UNCHANGED committed
               /\ at' = [at EXCEPT ![r] = "done"]
               /\ \E a \in {"refused", "error"} : answer' = [answer EXCEPT ![r] = a]
      <3>1. Standing'
        BY <2>1, <2>3 DEF TypeOK
      <3>2. r \notin committed /\ trail[r] = "none"
        BY <2>1
      <3>3. LoggedIsDone'
        BY <2>1, <2>3, <3>2 DEF TypeOK
      <3>4. DoneIsLogged'
        BY <2>1, <2>3, <3>2 DEF TypeOK
      <3> QED
        BY <3>1, <3>3, <3>4
    <2> QED
      BY <1>3, <2>2, <2>3, WriteStep
  <1>4. ASSUME NEW r \in Requests, Respond(r)
        PROVE  LoggedOK'
    BY <1>4 DEF Respond, Decodes, Owed, Public, Enter, TypeOK
  <1>5. ASSUME NEW r \in Requests, LogAction(r)
        PROVE  LoggedOK'
    BY <1>5 DEF LogAction, TypeOK
  <1>6. ASSUME NEW r \in Requests, Break(r)
        PROVE  LoggedOK'
    BY <1>6 DEF Break, Serving, Return, Enter, TypeOK
  <1>7. CASE Crash
    BY <1>7 DEF Crash, Serving, TypeOK
  <1>8. CASE UNCHANGED vars
    BY <1>8 DEF vars
  <1> QED
    BY <1>1, <1>2, <1>3, <1>4, <1>5, <1>6, <1>7, <1>8 DEF Next

(* Whatever is on record, or will be, was committed and answered.          *)
THEOREM RecordIsTrue == Spec => []LoggedIsDone
  <1>1. Init => LoggedOK
    BY DEF Init, LoggedOK, Standing, LoggedIsDone, DoneIsLogged
  <1> QED
    BY <1>1, TrailStep, TypeCorrect, PTL DEF Spec, LoggedOK

(* Whatever was committed under a token is on record, or will be, unless   *)
(* the request or its audit task broke off.                                *)
THEOREM RecordIsKept == Spec => []DoneIsLogged
  <1>1. Init => LoggedOK
    BY DEF Init, LoggedOK, Standing, LoggedIsDone, DoneIsLogged
  <1> QED
    BY <1>1, TrailStep, TypeCorrect, PTL DEF Spec, LoggedOK

----------------------------------------------------------------------------
(* Registrations that race, or are tried again. *)

(* What is asked and what was committed do not change once they are set.   *)
LEMMA HistoryGrows ==
    ASSUME TypeOK, Standing, [Next]_vars
    PROVE  /\ committed \subseteq committed'
           /\ \A r \in committed : call'[r] = call[r]
           /\ \A r \in committed' \ committed : Write(r) /\ call'[r] = call[r]
  <1>1. ASSUME NEW r \in Requests, NEW c \in Asked, Arrive(r, c)
        PROVE  UNCHANGED committed /\ \A q \in committed : call'[q] = call[q]
    BY <1>1 DEF Arrive, Standing, TypeOK
  <1>2. ASSUME NEW r \in Requests, Write(r)
        PROVE  /\ committed' \in {committed, committed \cup {r}}
               /\ UNCHANGED call
    BY <1>2, WriteStep
  <1>3. ASSUME NEW r \in Requests, Check(r) \/ Respond(r) \/ LogAction(r) \/ Break(r)
        PROVE  UNCHANGED <<committed, call>>
    BY <1>3 DEF Check, Respond, LogAction, Break
  <1>4. CASE Crash \/ UNCHANGED vars
    BY <1>4 DEF Crash, vars
  <1> QED
    BY <1>1, <1>2, <1>3, <1>4 DEF Next

InsertionsOK == Insertions /\ InsertedOnce

LEMMA InsertionsStep ==
    ASSUME TypeOK, Standing, InsertionsOK, [Next]_vars
    PROVE  InsertionsOK'
  <1> SUFFICES ASSUME NEW e \in Emails, NEW q \in Inserted(e)', NEW r \in Inserted(e)'
               PROVE  /\ q = r
                      /\ students'[e] # None
                      /\ \/ students'[e].pw = call'[r].pw
                         \/ \E s \in committed' : call'[s].op = "password" /\ call'[s].who = e
    BY DEF InsertionsOK, Insertions, InsertedOnce
  <1>1. /\ Inserted(e) \subseteq Inserted(e)'
        /\ \A s \in Inserted(e)' \ Inserted(e) : Write(s) /\ call'[s] = call[s] /\ s \in Requests
    <2>1. committed' \subseteq Requests
      BY NextType DEF TypeOK
    <2>2. ASSUME NEW s \in Inserted(e)', s \notin Inserted(e)
          PROVE  s \notin committed
      BY <2>2, HistoryGrows DEF Inserted
    <2> QED
      BY <2>1, <2>2, HistoryGrows DEF Inserted
  <1>2. \A s \in Inserted(e) : call'[s] = call[s]
    BY HistoryGrows DEF Inserted
  <1>3. CASE \E s \in Requests : s \in Inserted(e)' \ Inserted(e)
    <2>1. PICK s \in Requests : s \in Inserted(e)' \ Inserted(e)
      BY <1>3
    <2>2. call[s].op \in Inserts /\ call[s].who = e /\ Write(s) /\ call'[s] = call[s]
      BY <1>1, <2>1 DEF Inserted
    <2>3. InsertStudent(s)
      BY <2>2 DEF Write, UpdateStudent, OpenSession, InsertAgent, UpdateAgent, Inserts
    <2>4. s \in committed' \ committed
      BY <2>1, <2>2, HistoryGrows DEF Inserted
    <2>5. Free(e)
      BY <2>2, <2>3, <2>4 DEF InsertStudent, Return
    <2>6. Inserted(e) = {}
      BY <2>5 DEF Free, InsertionsOK, Insertions
    <2>7. Inserted(e)' = {s}
      <3>1. committed' = committed \cup {s}
        BY <2>2, <2>4, WriteStep
      <3> QED
        BY <2>1, <2>6, <3>1, HistoryGrows DEF Inserted
    <2>8. call[s].pw \in Passwords /\ (IF call[s].op = "enlist" THEN call[s].by ELSE None) \in AgentEmails \cup {None}
      <3>1. call[s] \in Calls
        BY <2>3, CallKnown DEF InsertStudent
      <3> QED
        BY <2>2, <3>1, CallFields
    <2>9. students'[e] # None /\ students'[e].pw = call[s].pw
      <3>1. students'[e] = Registered(call[s].pw, IF call[s].op = "enlist" THEN call[s].by ELSE None)
        BY <2>2, <2>3, <2>5 DEF InsertStudent, TypeOK
      <3> QED
        BY <2>8, <3>1, RegisteredType
    <2> QED
      BY <2>2, <2>7, <2>9
  <1>4. CASE ~ \E s \in Requests : s \in Inserted(e)' \ Inserted(e)
    <2>1. q \in Inserted(e) /\ r \in Inserted(e)
      BY <1>1, <1>4
    <2>2. q = r /\ students[e] # None
      BY <2>1 DEF InsertionsOK, Insertions, InsertedOnce
    <2>3. \/ students[e].pw = call[r].pw
          \/ \E s \in committed : call[s].op = "password" /\ call[s].who = e
      BY <2>1 DEF InsertionsOK, Insertions
    <2>4. CASE students'[e] = students[e]
      BY <1>2, <2>1, <2>2, <2>3, <2>4, HistoryGrows
    <2>5. CASE students'[e] # students[e]
      <3>1. PICK s \in Requests :
              /\ UpdateStudent(s)
              /\ students[call[s].who] # None
              /\ students' = [students EXCEPT ![call[s].who] = Updated(call[s], @)]
        BY <2>2, <2>5, StudentsStep DEF TypeOK
      <3>2. call[s].who = e
        BY <2>5, <3>1 DEF TypeOK
      <3>3. call[s] \in Calls /\ call[s].op \in {"password", "profile", "activate", "status"}
        BY <3>1, CallKnown DEF UpdateStudent
      <3>4. students[e] \in Student /\ students'[e] = Updated(call[s], students[e])
        BY <2>2, <3>1, <3>2 DEF TypeOK
      <3>5. students'[e] # None /\ (call[s].op # "password" => students'[e].pw = students[e].pw)
        BY <3>3, <3>4, UpdatedRow
      <3>6. s \in committed' /\ call'[s] = call[s]
        BY <3>1 DEF UpdateStudent, Commit
      <3> QED
        BY <1>2, <2>1, <2>2, <2>3, <3>2, <3>5, <3>6, HistoryGrows
    <2> QED
      BY <2>4, <2>5
  <1> QED
    BY <1>3, <1>4

(* Two registrations of one address make one account with one password.    *)
THEOREM RegistrationIsUnique == Spec => []InsertedOnce
  <1>1. Init => LoggedOK /\ InsertionsOK
    BY DEF Init, LoggedOK, Standing, LoggedIsDone, DoneIsLogged, InsertionsOK, Insertions,
           InsertedOnce, Inserted
  <1> QED
    BY <1>1, InsertionsStep, TrailStep, TypeCorrect, PTL DEF Spec, LoggedOK, InsertionsOK

----------------------------------------------------------------------------
(* Credentials. *)

Credentialed(r) == at[r] = "write" /\ call[r].op \in {"password", "login"}

TrustedIn(r) ==
    /\ students[call[r].who] # None
    /\ students[call[r].who].pw = call[r].pw
    /\ call[r].op = "login" => students[call[r].who].is_active

(* A change of an account's password or flag is known to every handler     *)
(* that relies on them.                                                    *)
LEMMA ChangeIsNoted ==
    ASSUME TypeOK, [Next]_vars, NEW r \in Requests,
           Credentialed(r), TrustedIn(r), UNCHANGED <<at[r], call[r]>>, r \notin raced'
    PROVE  TrustedIn(r)'
  <1> DEFINE e == call[r].who
  <1>1. call[r] \in Calls /\ e \in Emails
    BY CallKnown, CallFields DEF Credentialed
  <1>2. CASE students'[e] = students[e]
    BY <1>2 DEF TrustedIn
  <1>3. CASE students'[e] # students[e]
    <2>1. PICK s \in Requests :
            /\ UpdateStudent(s)
            /\ students[call[s].who] # None
            /\ students' = [students EXCEPT ![call[s].who] = Updated(call[s], @)]
      BY <1>1, <1>3, StudentsStep DEF TrustedIn, TypeOK
    <2>2. call[s].who = e /\ students[e] \in Student /\ students'[e] = Updated(call[s], students[e])
      BY <1>1, <1>3, <2>1 DEF TypeOK
    <2>3. call[s] \in Calls /\ call[s].op \in {"password", "profile", "activate", "status"}
      BY <2>1, CallKnown DEF UpdateStudent
    <2>4. s # r /\ r \in Trusting(e)
      <3>1. at'[s] # at[s]
        BY <2>1 DEF UpdateStudent, Commit, Enter, TypeOK
      <3> QED
        BY <3>1 DEF Trusting, Credentialed
    <2>5. call[s].op \notin {"password", "status"}
      BY <2>1, <2>2, <2>4 DEF UpdateStudent
    <2> QED
      BY <2>2, <2>3, <2>5, UpdatedRow DEF TrustedIn
  <1> QED
    BY <1>2, <1>3

LEMMA TrustedStep ==
    ASSUME TypeOK, Trusted, [Next]_vars
    PROVE  Trusted'
  <1> SUFFICES ASSUME NEW r \in Requests, Credentialed(r)', r \notin raced'
               PROVE  TrustedIn(r)'
    BY DEF Trusted, Credentialed, TrustedIn
  <1>1. CASE Check(r)
    <2>1. Admitted(call[r]) /\ call'[r] = call[r] /\ UNCHANGED students
      BY <1>1 DEF Check, Credentialed, Return, Enter, TypeOK, tables
    <2>2. call[r].op \in {"password", "login"}
      BY <2>1 DEF Credentialed
    <2> QED
      BY <2>1, <2>2 DEF Admitted, TrustedIn, Inserts
  <1>2. CASE \E c \in Asked : Arrive(r, c)
    BY <1>2 DEF Arrive, Looks, Enter, Credentialed, TypeOK
  <1>3. CASE ~ (Check(r) \/ \E c \in Asked : Arrive(r, c))
    <2>1. at'[r] = at[r] /\ call'[r] = call[r]
      <3>1. ASSUME NEW q \in Requests, Write(q)
            PROVE  at'[r] = at[r] /\ call'[r] = call[r]
        BY <3>1, WriteStep DEF Credentialed, TypeOK
      <3>2. ASSUME NEW q \in Requests, NEW c \in Asked, Arrive(q, c)
            PROVE  at'[r] = at[r] /\ call'[r] = call[r]
        BY <1>3, <3>2 DEF Arrive, Enter, TypeOK
      <3>3. ASSUME NEW q \in Requests, Check(q)
            PROVE  at'[r] = at[r] /\ call'[r] = call[r]
        BY <1>3, <3>3 DEF Check, Return, Enter, TypeOK
      <3>4. ASSUME NEW q \in Requests, Respond(q) \/ LogAction(q) \/ Break(q)
            PROVE  at'[r] = at[r] /\ call'[r] = call[r]
        BY <3>4 DEF Respond, LogAction, Break, Return, Enter, Credentialed, TypeOK
      <3>5. CASE Crash \/ UNCHANGED vars
        BY <3>5 DEF Crash, Serving, Credentialed, vars, TypeOK
      <3> QED
        BY <3>1, <3>2, <3>3, <3>4, <3>5 DEF Next
    <2>2. r \notin raced
      <3>1. ASSUME NEW q \in Requests, Write(q), r \in raced
            PROVE  q = r \/ r \in raced'
        BY <3>1 DEF Write, InsertStudent, UpdateStudent, OpenSession, InsertAgent, UpdateAgent, Return
      <3>2. ASSUME NEW q \in Requests, Write(q)
            PROVE  q # r
        BY <2>1, <3>2, WriteStep DEF TypeOK
      <3>3. ASSUME NEW q \in Requests, Check(q) \/ Respond(q) \/ LogAction(q) \/ Break(q), r \in raced
            PROVE  q = r \/ r \in raced'
        BY <3>3 DEF Check, Respond, LogAction, Break, Return
      <3>4. ASSUME NEW q \in Requests, Check(q) \/ Respond(q) \/ Break(q)
            PROVE  q # r
        BY <1>3, <2>1, <3>4 DEF Check, Respond, Break, Serving, Return, Enter, Credentialed, TypeOK
      <3>5. ASSUME NEW q \in Requests, LogAction(q) \/ \E c \in Asked : Arrive(q, c)
            PROVE  UNCHANGED raced
        BY <3>5 DEF LogAction, Arrive
      <3>6. ~ Crash
        BY <2>1 DEF Crash, Serving, Credentialed, TypeOK
      <3>7. UNCHANGED vars => UNCHANGED raced
        BY DEF vars
      <3> QED
        BY <3>1, <3>2, <3>3, <3>4, <3>5, <3>6, <3>7 DEF Next
    <2>3. Credentialed(r)
      BY <2>1 DEF Credentialed
    <2>4. TrustedIn(r)
      BY <2>2, <2>3 DEF Trusted, Credentialed, TrustedIn
    <2> QED
      BY <2>1, <2>3, <2>4, ChangeIsNoted
  <1> QED
    BY <1>1, <1>2, <1>3

(* A session is opened, and a password replaced, on credentials that hold, *)
(* unless the account changed under the handler.                           *)
THEOREM CredentialsHold == Spec => ActsOnCurrentRow
  <1>1. Init => LoggedOK /\ Trusted
    BY DEF Init, LoggedOK, Standing, LoggedIsDone, DoneIsLogged, Trusted
  <1>2. ASSUME TypeOK, Standing, Trusted, [Next]_vars,
               NEW r \in Requests, r \in committed' \ committed, r \notin raced
        PROVE  /\ call[r].op \in {"password", "login"} => students[call[r].who].pw = call[r].pw
               /\ call[r].op = "login" => students[call[r].who].is_active
    <2>1. at[r] = "write"
      BY <1>2, HistoryGrows, WriteStep
    <2> QED
      BY <1>2, <2>1 DEF Trusted
  <1>3. TypeOK /\ Standing /\ Trusted /\ [Next]_vars =>
          [\A r \in Requests :
             (r \in committed' \ committed /\ r \notin raced) =>
                /\ call[r].op \in {"password", "login"} => students[call[r].who].pw = call[r].pw
                /\ call[r].op = "login" => students[call[r].who].is_active]_vars
    BY <1>2
  <1> QED
    BY <1>1, <1>3, TrustedStep, TrailStep, TypeCorrect, PTL DEF Spec, LoggedOK, ActsOnCurrentRow

----------------------------------------------------------------------------
(* Numbered rows, for any finite set R of places.                          *)

LEMMA UpTo ==
    ASSUME NEW n \in Nat
    PROVE  IsFiniteSet(1..n) /\ Cardinality(1..n) = n
  <1>1. 1 \in Int /\ n \in Int
    OBVIOUS
  <1>2. IsFiniteSet(1..n) /\ Cardinality(1..n) = IF 1 > n THEN 0 ELSE n - 1 + 1
    BY <1>1, FS_Interval
  <1> QED
    BY <1>2

LEMMA RowRange ==
    ASSUME NEW R \in SUBSET Nat, IsFiniteSet(R), NEW i \in R
    PROVE  Row(i, R) \in 1..Cardinality(R)
  <1> DEFINE upTo == {j \in R : j <= i}
  <1>1. IsFiniteSet(upTo) /\ Cardinality(upTo) <= Cardinality(R)
    BY FS_Subset
  <1>2. Cardinality(upTo) \in Nat /\ Cardinality(R) \in Nat
    BY <1>1, FS_CardinalityType
  <1>3. Cardinality(upTo) # 0
    <2>1. i \in upTo
      OBVIOUS
    <2> QED
      BY <1>1, <2>1, FS_EmptySet
  <1> QED
    BY <1>1, <1>2, <1>3 DEF Row

LEMMA RowInjective ==
    ASSUME NEW R \in SUBSET Nat, IsFiniteSet(R), NEW i \in R, NEW j \in R, Row(i, R) = Row(j, R)
    PROVE  i = j
  <1>0. \A m \in R : m \in Nat
    OBVIOUS
  <1>1. ASSUME NEW k \in R, NEW l \in R, k < l, Row(k, R) = Row(l, R)
        PROVE  FALSE
    <2> DEFINE toK == {m \in R : m <= k}
               toL == {m \in R : m <= l}
    <2>1. IsFiniteSet(toL)
      BY FS_Subset
    <2>2. \A m \in R : m <= k => m <= l
      BY <1>0, <1>1
    <2>3. toK \in SUBSET toL
      BY <2>2
    <2>4. toK = toL
      BY <1>1, <2>1, <2>3, FS_Subset DEF Row
    <2>5. l \in toL /\ l \notin toK
      BY <1>0, <1>1
    <2> QED
      BY <2>4, <2>5
  <1>2. i < j \/ j < i \/ i = j
    BY <1>0
  <1> QED
    BY <1>1, <1>2

(* Every number up to the length of the list is the number of a row. *)
LEMMA RowOnto ==
    ASSUME NEW R \in SUBSET Nat, IsFiniteSet(R), NEW n \in 1..Cardinality(R)
    PROVE  \E i \in R : Row(i, R) = n
  <1> DEFINE f == [i \in R |-> Row(i, R)]
             N == 1..Cardinality(R)
  <1>1. f \in Injection(R, N)
    BY RowRange, RowInjective DEF Injection, IsInjective
  <1>2. Cardinality(R) \in Nat
    BY FS_CardinalityType
  <1>3. IsFiniteSet(N) /\ Cardinality(N) = Cardinality(R)
    BY <1>2, UpTo
  <1>4. f \in Surjection(R, N)
    <2> HIDE DEF f, N
    <2> QED
      BY <1>1, <1>3, FS_Injection
  <1> QED
    BY <1>4 DEF Surjection

(* A page of at most n rows after the first b: it is full when a row comes *)
(* after it, and it ends with the list at the latest.                      *)
LEMMA RowsOfPage ==
    ASSUME NEW R \in SUBSET Nat, IsFiniteSet(R), NEW b \in Nat, NEW n \in Nat \ {0},
           NEW P, P = {i \in R : b < Row(i, R) /\ Row(i, R) <= b + n}
    PROVE  /\ Cardinality(P) \in 0..n
           /\ P # {} => b + Cardinality(P) <= Cardinality(R)
           /\ (\E i \in R : Row(i, R) > b + n) => Cardinality(P) = n
  <1> DEFINE f == [i \in P |-> Row(i, R)]
             N == (b + 1)..(b + n)
             M == (b + 1)..Cardinality(R)
  <1>1. Cardinality(R) \in Nat /\ \A i \in R : Row(i, R) \in 1..Cardinality(R)
    BY RowRange, FS_CardinalityType
  <1>2. IsFiniteSet(P) /\ Cardinality(P) \in Nat
    BY FS_Subset, FS_CardinalityType
  <1>3. IsFiniteSet(N) /\ Cardinality(N) = n
    BY FS_Interval
  <1>4. IsFiniteSet(M) /\ (P # {} => Cardinality(M) = Cardinality(R) - b)
    <2>1. IsFiniteSet(M) /\ Cardinality(M) = IF b + 1 > Cardinality(R) THEN 0 ELSE Cardinality(R) - b
      <3>1. b + 1 \in Int /\ Cardinality(R) \in Int
        BY <1>1
      <3>2. IsFiniteSet(M) /\ Cardinality(M) = IF b + 1 > Cardinality(R) THEN 0
                                               ELSE Cardinality(R) - (b + 1) + 1
        BY <3>1, FS_Interval
      <3> QED
        BY <1>1, <3>2
    <2>2. ASSUME P # {}
          PROVE  b + 1 <= Cardinality(R)
      <3>1. PICK i \in R : b < Row(i, R)
        BY <2>2
      <3>2. Row(i, R) \in 1..Cardinality(R)
        BY <1>1
      <3> QED
        BY <1>1, <3>1, <3>2
    <2> QED
      BY <1>1, <2>1, <2>2
  <1>5. f \in Injection(P, N) /\ f \in Injection(P, M)
    <2>1. \A i \in P : i \in R /\ Row(i, R) \in N /\ Row(i, R) \in M
      BY <1>1
    <2>2. \A i, j \in P : Row(i, R) = Row(j, R) => i = j
      BY <2>1, RowInjective
    <2> HIDE DEF N, M
    <2>3. f \in [P -> N] /\ f \in [P -> M]
      BY <2>1
    <2> QED
      BY <2>2, <2>3 DEF Injection, IsInjective
  <1>6. (\E i \in R : Row(i, R) > b + n) => f \in Surjection(P, N)
    <2> SUFFICES ASSUME NEW i \in R, Row(i, R) > b + n, NEW m \in N
                 PROVE  \E j \in P : f[j] = m
      BY <1>5 DEF Injection, Surjection
    <2>1. m \in 1..Cardinality(R)
      BY <1>1
    <2>2. PICK j \in R : Row(j, R) = m
      BY <2>1, RowOnto
    <2> QED
      BY <2>2
  <1> HIDE DEF f, N, M
  <1>7. Cardinality(P) <= n /\ ((\E i \in R : Row(i, R) > b + n) => Cardinality(P) = n)
    BY <1>3, <1>5, <1>6, FS_Injection
  <1>8. Cardinality(P) <= Cardinality(M)
    BY <1>4, <1>5, FS_Injection
  <1> QED
    BY <1>1, <1>2, <1>4, <1>7, <1>8

(* Places that are moved in order into a list, with others between them,   *)
(* come no nearer to its head.                                             *)
LEMMA RowsMoveOn ==
    ASSUME NEW R \in SUBSET Nat, NEW T \in SUBSET Nat, IsFiniteSet(T), NEW f \in [R -> T],
           \A i, j \in R : i < j => f[i] < f[j]
    PROVE  /\ \A i \in R : Row(i, R) <= Row(f[i], T)
           /\ Cardinality(R) <= Cardinality(T)
  <1>0. \A i \in R : i \in Nat /\ f[i] \in T /\ f[i] \in Nat
    OBVIOUS
  <1>1. \A i, j \in R : f[i] = f[j] => i = j
    <2> SUFFICES ASSUME NEW i \in R, NEW j \in R, i # j
                 PROVE  f[i] # f[j]
      OBVIOUS
    <2>1. i < j \/ j < i
      BY <1>0
    <2> QED
      BY <1>0, <2>1
  <1>2. Cardinality(R) <= Cardinality(T)
    BY <1>1, FS_Injection DEF Injection, IsInjective
  <1>3. ASSUME NEW i \in R
        PROVE  Row(i, R) <= Row(f[i], T)
    <2> DEFINE A == {j \in R : j <= i}
               B == {j \in T : j <= f[i]}
               g == [j \in A |-> f[j]]
    <2>1. IsFiniteSet(B)
      BY FS_Subset
    <2>2. g \in [A -> B]
      <3> SUFFICES ASSUME NEW j \in A
                   PROVE  f[j] \in B
        OBVIOUS
      <3>1. j \in R /\ (j = i \/ j < i)
        BY <1>0
      <3>2. f[j] <= f[i]
        BY <1>0, <3>1
      <3> QED
        BY <1>0, <3>1, <3>2
    <2>3. g \in Injection(A, B)
      BY <1>1, <2>2 DEF Injection, IsInjective
    <2>4. Cardinality(A) <= Cardinality(B)
      <3> HIDE DEF A, B, g
      <3> QED
        BY <2>1, <2>3, FS_Injection
    <2> QED
      BY <2>4 DEF Row
  <1> QED
    BY <1>2, <1>3

----------------------------------------------------------------------------
(* The lists.  A row that has not been shown lies beyond the pages asked   *)
(* for, whatever is inserted or activated, as long as no row has left.     *)

Base(p) == ((IF p = 0 THEN 1 ELSE p) - 1) * PageSize

Beyond(e, k) == \E i \in Listed(only) : order[i] = e /\ Row(i, Listed(only)) > k

(* While rows are read one after the other. *)
Onward ==
    /\ step = "page" => \A e \in missing : Beyond(e, Base(page))
    /\ (step = "count" /\ more) => \A e \in missing : Beyond(e, Base(page) + PageSize)
    /\ ((step = "count" /\ ~more) \/ step = "over") => missing = {}
    /\ step = "count" => need <= Cardinality(Listed(only))
    /\ step # "count" => need <= total

WalkInv ==
    /\ WalkTypeOK
    /\ Len(order) <= MaxRows
    /\ \A i \in DOMAIN order : students[order[i]] # None
    /\ step = "rest" => need = 0 /\ total = 0
    /\ step \in {"page", "count"} => Base(page) <= Len(order)
    /\ (step = "count" /\ more) => Base(page) + PageSize <= Len(order)
    /\ ~(only /\ left) => Onward

LEMMA BaseNat ==
    ASSUME NEW p \in Nat
    PROVE  /\ Base(p) \in Nat
           /\ p \in {0, 1} => Base(p) = 0
           /\ Base(p + 1) <= Base(p) + PageSize
  <1>1. CASE p = 0
    BY <1>1, ListConstants DEF Base
  <1>2. CASE p # 0
    <2>1. PageSize \in Nat /\ p - 1 \in Nat
      BY <1>2, ListConstants
    <2>2. (p - 1) * PageSize \in Nat
      BY <2>1
    <2>3. p * PageSize = (p - 1) * PageSize + PageSize
      BY <2>1
    <2> QED
      BY <1>2, <2>1, <2>2, <2>3 DEF Base
  <1> QED
    BY <1>1, <1>2

(* No page that is asked for is far enough to wrap. *)
LEMMA NoWrap ==
    ASSUME NEW p \in Nat, Base(p) <= MaxRows
    PROVE  Offset(p) = Base(p)
  BY BaseNat, ListConstants, AccountConstants DEF Offset, Base

LEMMA ListedType ==
    ASSUME order \in Seq(Emails), NEW b \in BOOLEAN
    PROVE  /\ Listed(b) \in SUBSET Nat
           /\ Listed(b) \subseteq DOMAIN order
           /\ IsFiniteSet(Listed(b))
           /\ Cardinality(Listed(b)) \in Nat
           /\ Cardinality(Listed(b)) <= Len(order)
  <1>1. DOMAIN order = 1..Len(order) /\ Len(order) \in Nat
    OBVIOUS
  <1>2. IsFiniteSet(1..Len(order)) /\ Cardinality(1..Len(order)) = Len(order)
    BY <1>1, UpTo
  <1>3. Listed(b) \in SUBSET (1..Len(order))
    BY <1>1 DEF Listed
  <1>4. IsFiniteSet(Listed(b)) /\ Cardinality(Listed(b)) <= Len(order)
    BY <1>2, <1>3, FS_Subset
  <1> QED
    BY <1>1, <1>3, <1>4, FS_CardinalityType

(* What the accounts do to the order of the rows. *)
LEMMA OrderStep ==
    ASSUME TypeOK, [Next]_vars
    PROVE  \/ UNCHANGED order
           \/ /\ Len(order) < MaxRows
              /\ \E e \in Emails, p \in 1..(Len(order) + 1) :
                    order' = Placed(e, p) /\ students'[e] # None
  <1>1. CASE \E r \in Requests : InsertStudent(r)
    <2>1. PICK r \in Requests : InsertStudent(r)
      BY <1>1
    <2>2. call[r] \in Calls /\ call[r].who \in Emails /\ call[r].pw \in Passwords
            /\ (IF call[r].op = "enlist" THEN call[r].by ELSE None) \in AgentEmails \cup {None}
      BY <2>1, CallKnown, CallFields DEF InsertStudent
    <2>3. CASE Free(call[r].who)
      <3>1. students'[call[r].who] # None
        BY <2>1, <2>2, <2>3, RegisteredType DEF InsertStudent, TypeOK
      <3> QED
        BY <2>1, <2>2, <2>3, <3>1 DEF InsertStudent
    <2>4. CASE ~Free(call[r].who)
      BY <2>1, <2>4 DEF InsertStudent
    <2> QED
      BY <2>3, <2>4
  <1>2. CASE ~ \E r \in Requests : InsertStudent(r)
    BY <1>2 DEF Next, Write, Arrive, Check, UpdateStudent, OpenSession, InsertAgent, UpdateAgent,
                Respond, LogAction, Break, Crash, tables, vars
  <1> QED
    BY <1>1, <1>2

(* No row of the table is ever removed. *)
LEMMA StudentStays ==
    ASSUME TypeOK, [Next]_vars, NEW e \in Emails, students[e] # None
    PROVE  students'[e] # None
  <1>1. ASSUME NEW r \in Requests, UpdateStudent(r),
               students' = [students EXCEPT ![call[r].who] = Updated(call[r], @)]
        PROVE  students'[e] # None
    <2>1. CASE e = call[r].who
      <3>1. students[e] \in Student /\ students'[e] = Updated(call[r], students[e])
        BY <1>1, <2>1 DEF TypeOK
      <3>2. call[r] \in Calls /\ call[r].op \in {"password", "profile", "activate", "status"}
        BY <1>1, CallKnown DEF UpdateStudent
      <3> QED
        BY <3>1, <3>2, UpdatedRow, AccountConstants
    <2>2. CASE e # call[r].who
      BY <1>1, <2>2 DEF TypeOK
    <2> QED
      BY <2>1, <2>2
  <1>2. ASSUME NEW r \in Requests, students[call[r].who] = None, NEW g,
               students' = [students EXCEPT ![call[r].who] = Registered(call[r].pw, g)]
        PROVE  students'[e] # None
    BY <1>2 DEF TypeOK
  <1> QED
    BY <1>1, <1>2, StudentsStep

(* Every row keeps its email and its place among the others. *)
LEMMA OrderMoves ==
    ASSUME TypeOK, [Next]_vars, Len(order) <= MaxRows,
           \A i \in DOMAIN order : students[order[i]] # None
    PROVE  /\ Len(order) <= Len(order') /\ Len(order') <= MaxRows
           /\ \A i \in DOMAIN order' : students'[order'[i]] # None
           /\ \E f \in [DOMAIN order -> DOMAIN order'] :
                 /\ \A i \in DOMAIN order : order'[f[i]] = order[i]
                 /\ \A i, j \in DOMAIN order : i < j => f[i] < f[j]
  <1>1. order \in Seq(Emails) /\ Len(order) \in Nat /\ DOMAIN order = 1..Len(order)
    BY DEF TypeOK
  <1>2. \A i \in DOMAIN order : order[i] \in Emails /\ students'[order[i]] # None
    BY <1>1, StudentStays
  <1>3. CASE UNCHANGED order
    <2> DEFINE f == [i \in DOMAIN order |-> i]
    <2>1. f \in [DOMAIN order -> DOMAIN order']
      BY <1>3
    <2>2. \A i \in DOMAIN order : order'[f[i]] = order[i]
      BY <1>3
    <2>3. \A i, j \in DOMAIN order : i < j => f[i] < f[j]
      OBVIOUS
    <2> HIDE DEF f
    <2> QED
      BY <1>1, <1>2, <1>3, <2>1, <2>2, <2>3
  <1>4. ASSUME Len(order) < MaxRows, NEW d \in Emails, NEW p \in 1..(Len(order) + 1),
               order' = Placed(d, p), students'[d] # None
        PROVE  /\ Len(order) <= Len(order') /\ Len(order') <= MaxRows
               /\ \A i \in DOMAIN order' : students'[order'[i]] # None
               /\ \E f \in [DOMAIN order -> DOMAIN order'] :
                     /\ \A i \in DOMAIN order : order'[f[i]] = order[i]
                     /\ \A i, j \in DOMAIN order : i < j => f[i] < f[j]
    <2> DEFINE f == [i \in DOMAIN order |-> IF i < p THEN i ELSE i + 1]
    <2>1. Len(order') = Len(order) + 1 /\ DOMAIN order' = 1..(Len(order) + 1)
      BY <1>1, <1>4, PlacedType DEF Placed
    <2>2. \A i \in DOMAIN order' :
             order'[i] = IF i < p THEN order[i] ELSE IF i = p THEN d ELSE order[i - 1]
      BY <1>1, <1>4, <2>1 DEF Placed
    <2>3. f \in [DOMAIN order -> DOMAIN order']
      BY <1>1, <2>1
    <2>4. \A i \in DOMAIN order : order'[f[i]] = order[i]
      BY <1>1, <2>1, <2>2
    <2>5. \A i, j \in DOMAIN order : i < j => f[i] < f[j]
      BY <1>1
    <2>6. \A i \in DOMAIN order' : students'[order'[i]] # None
      <3> SUFFICES ASSUME NEW i \in DOMAIN order'
                   PROVE  students'[order'[i]] # None
        OBVIOUS
      <3>1. CASE i < p
        BY <1>1, <1>2, <2>1, <2>2, <3>1
      <3>2. CASE i = p
        BY <1>4, <2>1, <2>2, <3>2
      <3>3. CASE i > p
        BY <1>1, <1>2, <2>1, <2>2, <3>3
      <3> QED
        BY <2>1, <3>1, <3>2, <3>3
    <2> HIDE DEF f
    <2> QED
      BY <1>1, <1>4, <2>1, <2>3, <2>4, <2>5, <2>6, AccountConstants
  <1> QED
    BY <1>3, <1>4, OrderStep

(* So the rows of a list that nobody leaves move away from its head only.  *)
LEMMA ListMovesOn ==
    ASSUME TypeOK, [Next]_vars, Len(order) <= MaxRows,
           \A i \in DOMAIN order : students[order[i]] # None,
           only \in BOOLEAN, only' = only,
           only => \A e \in Stored : students[e].is_active => students'[e].is_active
    PROVE  /\ \A e \in Emails, k \in Nat : Beyond(e, k) => Beyond(e, k)'
           /\ Cardinality(Listed(only)) <= Cardinality(Listed(only)')
           /\ Cardinality(Listed(only)') \in Nat
  <1> DEFINE R == Listed(only)
             T == Listed(only)'
  <1>1. PICK f \in [DOMAIN order -> DOMAIN order'] :
           /\ \A i \in DOMAIN order : order'[f[i]] = order[i]
           /\ \A i, j \in DOMAIN order : i < j => f[i] < f[j]
    BY OrderMoves
  <1>2. order \in Seq(Emails) /\ order' \in Seq(Emails)
    BY NextType DEF TypeOK
  <1>3. R \in SUBSET Nat /\ R \subseteq DOMAIN order /\ IsFiniteSet(R)
    BY <1>2, ListedType
  <1>4. T \in SUBSET Nat /\ IsFiniteSet(T)
    <2>1. DOMAIN order' = 1..Len(order') /\ Len(order') \in Nat
      BY <1>2
    <2>2. T \in SUBSET (1..Len(order'))
      BY <2>1 DEF Listed
    <2>3. IsFiniteSet(1..Len(order'))
      BY <2>1, UpTo
    <2>4. IsFiniteSet(T)
      <3> HIDE DEF T
      <3> QED
        BY <2>2, <2>3, FS_Subset
    <2> QED
      BY <2>1, <2>2, <2>4
  <1>5. \A i \in R : f[i] \in T
    <2> SUFFICES ASSUME NEW i \in R
                 PROVE  f[i] \in T
      OBVIOUS
    <2>1. i \in DOMAIN order /\ f[i] \in DOMAIN order' /\ order'[f[i]] = order[i]
      BY <1>1, <1>3
    <2>2. order[i] \in Stored
      BY <1>2, <2>1 DEF Stored
    <2>3. only => students[order[i]].is_active
      BY DEF Listed
    <2> QED
      BY <2>1, <2>2, <2>3 DEF Listed
  <1> DEFINE g == [i \in R |-> f[i]]
  <1>6. g \in [R -> T] /\ \A i, j \in R : i < j => g[i] < g[j]
    BY <1>1, <1>3, <1>5
  <1>7. (\A i \in R : Row(i, R) <= Row(g[i], T)) /\ Cardinality(R) <= Cardinality(T)
    <2> HIDE DEF g, R, T
    <2> QED
      BY <1>3, <1>4, <1>6, RowsMoveOn
  <1>8. ASSUME NEW e \in Emails, NEW k \in Nat, NEW i \in R, order[i] = e, Row(i, R) > k
        PROVE  f[i] \in T /\ order'[f[i]] = e /\ Row(f[i], T) > k
    <2>1. Row(i, R) <= Row(f[i], T)
      BY <1>7
    <2>2. Row(i, R) \in Nat /\ Row(f[i], T) \in Nat
      <3>1. Row(i, R) \in 1..Cardinality(R)
        BY <1>3, RowRange
      <3>2. Row(f[i], T) \in 1..Cardinality(T)
        BY <1>4, <1>5, RowRange
      <3> QED
        BY <3>1, <3>2
    <2> QED
      BY <1>1, <1>3, <1>5, <1>8, <2>1, <2>2
  <1>9. ASSUME NEW e \in Emails, NEW k \in Nat, Beyond(e, k)
        PROVE  Beyond(e, k)'
    <2>1. PICK i \in R : order[i] = e /\ Row(i, R) > k
      BY <1>9 DEF Beyond
    <2>2. f[i] \in T /\ order'[f[i]] = e /\ Row(f[i], T) > k
      BY <1>8, <2>1
    <2>3. Row(f[i], T) = Row(f[i], Listed(only))'
      BY DEF Row
    <2> QED
      BY <2>2, <2>3 DEF Beyond
  <1>10. Cardinality(T) \in Nat
    <2> HIDE DEF T
    <2> QED
      BY <1>4, FS_CardinalityType
  <1> QED
    BY <1>7, <1>9, <1>10

LEMMA PageStep ==
    ASSUME TypeOK, WalkInv, ReadPage
    PROVE  WalkInv'
  <1> DEFINE b == Base(page)
             rows == Listed(only)
             shown == OnPage(page, rows)
  <1>1. UNCHANGED <<students, order, page, only, total, left>> /\ step = "page" /\ step' = "count"
    BY DEF ReadPage, vars
  <1>2. b \in Nat /\ PageSize \in Nat \ {0} /\ b <= Len(order) /\ Len(order) <= MaxRows
          /\ page \in Nat /\ only \in BOOLEAN
    BY <1>1, BaseNat, ListConstants DEF WalkInv, WalkTypeOK
  <1>3. Offset(page) = b
    <2>1. Len(order) \in Nat
      BY DEF TypeOK
    <2> QED
      BY <1>2, <2>1, NoWrap, AccountConstants
  <1>4. /\ missing' = missing \ {order[i] : i \in shown}
        /\ more' = (Cardinality(shown) = PageSize)
        /\ need' = IF shown = {} THEN 0 ELSE b + Cardinality(shown)
    BY <1>3 DEF ReadPage
  <1>5. shown = {i \in rows : b < Row(i, rows) /\ Row(i, rows) <= b + PageSize}
    BY <1>3 DEF OnPage
  <1>6. /\ rows \in SUBSET Nat /\ IsFiniteSet(rows)
        /\ Cardinality(rows) \in Nat /\ Cardinality(rows) <= Len(order)
    BY <1>2, ListedType DEF TypeOK
  <1>7. Listed(only)' = rows /\ Base(page)' = b
    BY <1>1 DEF Listed, Base
  <1>8. \A e, k : Beyond(e, k)' <=> Beyond(e, k)
    BY <1>1, <1>7 DEF Beyond, Row
  <1> HIDE DEF b, rows, shown
  <1>9. /\ Cardinality(shown) \in 0..PageSize
        /\ shown # {} => b + Cardinality(shown) <= Cardinality(rows)
        /\ (\E i \in rows : Row(i, rows) > b + PageSize) => Cardinality(shown) = PageSize
    BY <1>2, <1>5, <1>6, RowsOfPage
  <1>10. more' => b + PageSize <= Cardinality(rows)
    <2>1. Cardinality(shown) = PageSize => shown # {}
      BY <1>2, FS_EmptySet
    <2> QED
      BY <1>4, <1>9, <2>1
  <1>11. need' \in Nat /\ need' <= Cardinality(rows) /\ more' \in BOOLEAN
    BY <1>2, <1>4, <1>6, <1>9
  <1>12. WalkTypeOK'
    BY <1>1, <1>4, <1>11 DEF WalkInv, WalkTypeOK
  <1>13. ~(only /\ left) => Onward'
    <2> SUFFICES ASSUME ~(only /\ left)
                 PROVE  Onward'
      OBVIOUS
    <2>1. \A e \in missing : Beyond(e, b)
      BY <1>1 DEF WalkInv, Onward, b
    <2>2. ASSUME NEW e \in missing'
          PROVE  Beyond(e, b + PageSize) /\ more'
      <3>1. PICK i \in rows : order[i] = e /\ Row(i, rows) > b
        BY <1>4, <2>1, <2>2 DEF Beyond, rows
      <3>2. i \notin shown
        BY <1>4, <2>2, <3>1
      <3>3. Row(i, rows) \in 1..Cardinality(rows)
        BY <1>6, RowRange
      <3>4. Row(i, rows) > b + PageSize
        BY <1>2, <1>5, <1>6, <3>1, <3>2, <3>3
      <3> QED
        BY <1>4, <1>9, <3>1, <3>4 DEF Beyond, rows
    <2> QED
      BY <1>1, <1>7, <1>8, <1>11, <2>2 DEF Onward, b, rows
  <1>14. b + PageSize <= Len(order) \/ ~more'
    <2>1. Len(order) \in Nat
      BY DEF TypeOK
    <2> QED
      BY <1>2, <1>6, <1>10, <2>1
  <1> QED
    BY <1>1, <1>2, <1>7, <1>12, <1>13, <1>14 DEF WalkInv

LEMMA TotalStep ==
    ASSUME TypeOK, WalkInv, ReadTotal
    PROVE  WalkInv'
  <1>1. /\ UNCHANGED <<students, order, only, more, need, missing, left>>
        /\ step = "count"
        /\ step' = IF more THEN "page" ELSE "over"
        /\ page' = IF more THEN page + 1 ELSE page
        /\ total' = Cardinality(Listed(only))
    BY DEF ReadTotal, vars
  <1>2. Cardinality(Listed(only)) \in Nat
    BY ListedType DEF TypeOK, WalkInv, WalkTypeOK
  <1>3. WalkTypeOK'
    BY <1>1, <1>2 DEF WalkInv, WalkTypeOK
  <1>4. /\ page \in Nat /\ Base(page) \in Nat /\ Base(page + 1) \in Nat
        /\ Base(page + 1) <= Base(page) + PageSize
        /\ PageSize \in Nat /\ Len(order) \in Nat
    <2>1. page \in Nat /\ page + 1 \in Nat
      BY DEF WalkInv, WalkTypeOK
    <2>2. Len(order) \in Nat /\ PageSize \in Nat
      BY ListConstants DEF TypeOK
    <2>3. Base(page) \in Nat /\ Base(page + 1) \in Nat /\ Base(page + 1) <= Base(page) + PageSize
      BY <2>1, BaseNat
    <2> QED
      BY <2>1, <2>2, <2>3
  <1>5. Base(page)' = Base(page') /\ Listed(only)' = Listed(only)
    BY <1>1 DEF Base, Listed
  <1>6. \A e, k : Beyond(e, k)' <=> Beyond(e, k)
    BY <1>1, <1>5 DEF Beyond, Row
  <1>7. step' = "page" => Base(page)' <= Len(order')
    BY <1>1, <1>4, <1>5 DEF WalkInv
  <1>8. ~(only /\ left) => Onward'
    <2> SUFFICES ASSUME ~(only /\ left)
                 PROVE  Onward'
      OBVIOUS
    <2>1. need <= Cardinality(Listed(only))
      BY <1>1 DEF WalkInv, Onward
    <2>2. CASE more
      <3>1. ASSUME NEW e \in missing
            PROVE  Beyond(e, Base(page + 1))
        <4>1. PICK i \in Listed(only) : order[i] = e /\ Row(i, Listed(only)) > Base(page) + PageSize
          BY <1>1, <2>2, <3>1 DEF WalkInv, Onward, Beyond
        <4>2. Row(i, Listed(only)) \in 1..Cardinality(Listed(only))
          BY RowRange, ListedType DEF TypeOK, WalkInv, WalkTypeOK
        <4> QED
          BY <1>2, <1>4, <4>1, <4>2 DEF Beyond
      <3> QED
        BY <1>1, <1>5, <1>6, <2>1, <2>2, <3>1 DEF Onward
    <2>3. CASE ~more
      BY <1>1, <2>1, <2>3 DEF WalkInv, Onward
    <2> QED
      BY <2>2, <2>3
  <1> QED
    BY <1>1, <1>3, <1>7, <1>8 DEF WalkInv

LEMMA ServeStep ==
    ASSUME TypeOK, WalkInv, Serve
    PROVE  WalkInv'
  <1>1. /\ [Next]_vars
        /\ UNCHANGED <<step, page, only, more, need, total, missing>>
        /\ left' = (left \/ (step \in {"page", "count"} /\ only
                             /\ \E e \in Stored : students[e].is_active /\ ~students'[e].is_active))
    BY DEF Serve
  <1>2. WalkTypeOK'
    BY <1>1 DEF WalkInv, WalkTypeOK
  <1>3. /\ Len(order) <= Len(order') /\ Len(order') <= MaxRows
        /\ \A i \in DOMAIN order' : students'[order'[i]] # None
    BY <1>1, OrderMoves DEF WalkInv
  <1>4. Len(order) \in Nat /\ Len(order') \in Nat
    BY <1>1, NextType DEF TypeOK
  <1>5. Base(page)' = Base(page) /\ Base(page) \in Nat /\ Base(page) + PageSize \in Nat
    <2>1. Base(page) \in Nat /\ PageSize \in Nat
      BY BaseNat, ListConstants DEF WalkInv, WalkTypeOK
    <2>2. Base(page)' = Base(page)
      BY <1>1 DEF Base
    <2> QED
      BY <2>1, <2>2
  <1>6. /\ step \in {"page", "count"} => Base(page)' <= Len(order')
        /\ (step = "count" /\ more) => Base(page)' + PageSize <= Len(order')
    BY <1>3, <1>4, <1>5, ListConstants DEF WalkInv
  <1>7. ~(only' /\ left') => Onward'
    <2> SUFFICES ASSUME ~(only /\ left')
                 PROVE  Onward'
      BY <1>1
    <2>1. ~(only /\ left) /\ Onward
      BY <1>1 DEF WalkInv
    <2>2. CASE step \in {"page", "count"}
      <3>1. only => \A e \in Stored : students[e].is_active => students'[e].is_active
        BY <1>1, <2>2
      <3>2. /\ \A e \in Emails, k \in Nat : Beyond(e, k) => Beyond(e, k)'
            /\ Cardinality(Listed(only)) <= Cardinality(Listed(only)')
            /\ Cardinality(Listed(only)') \in Nat
        BY <1>1, <3>1, ListMovesOn DEF WalkInv, WalkTypeOK
      <3>3. Cardinality(Listed(only)) \in Nat /\ need \in Nat
        BY ListedType DEF TypeOK, WalkInv, WalkTypeOK
      <3>4. step = "page" => \A e \in missing' : Beyond(e, Base(page))'
        BY <1>1, <1>5, <2>1, <3>2 DEF Onward, WalkInv, WalkTypeOK
      <3>5. (step = "count" /\ more) => \A e \in missing' : Beyond(e, Base(page) + PageSize)'
        BY <1>1, <1>5, <2>1, <3>2 DEF Onward, WalkInv, WalkTypeOK
      <3>6. step = "count" => need <= Cardinality(Listed(only)')
        BY <2>1, <3>2, <3>3 DEF Onward
      <3> QED
        BY <1>1, <2>1, <2>2, <3>4, <3>5, <3>6 DEF Onward
    <2>3. CASE step \notin {"page", "count"}
      BY <1>1, <2>1, <2>3 DEF Onward
    <2> QED
      BY <2>2, <2>3
  <1> QED
    BY <1>1, <1>2, <1>3, <1>6, <1>7 DEF WalkInv

LEMMA WalkStep ==
    ASSUME TypeOK, WalkInv, [DeskNext]_deskVars
    PROVE  WalkInv'
  <1>1. CASE StartWalk
    <2>1. /\ UNCHANGED <<students, order, more, need, total, left>>
          /\ page' \in {0, 1} /\ step' = "page" /\ step = "rest" /\ only' \in BOOLEAN
          /\ missing' = {order[i] : i \in Listed(only')}
      BY <1>1 DEF StartWalk, vars
    <2>2. Base(page)' = 0
      BY <2>1, BaseNat DEF Base
    <2>3. /\ Listed(only') \in SUBSET Nat /\ Listed(only') \subseteq DOMAIN order
          /\ IsFiniteSet(Listed(only'))
      BY <2>1, ListedType DEF TypeOK
    <2>4. Listed(only)' = Listed(only')
      BY <2>1 DEF Listed
    <2>5. \A e \in missing' : Beyond(e, Base(page))'
      <3> SUFFICES ASSUME NEW i \in Listed(only')
                   PROVE  Row(i, Listed(only')) > 0
        BY <2>1, <2>2, <2>4 DEF Beyond, Row
      <3>1. Row(i, Listed(only')) \in 1..Cardinality(Listed(only'))
        BY <2>3, RowRange
      <3> QED
        BY <3>1
    <2>6. missing' \subseteq Emails /\ Len(order) \in Nat
      BY <2>1, <2>3 DEF TypeOK
    <2>7. WalkTypeOK'
      BY <2>1, <2>6 DEF WalkInv, WalkTypeOK
    <2>8. Onward'
      BY <2>1, <2>5 DEF WalkInv, Onward
    <2> QED
      BY <2>1, <2>2, <2>6, <2>7, <2>8 DEF WalkInv
  <1>2. CASE EndWalk
    <2>1. /\ UNCHANGED <<students, order>> /\ step' = "rest" /\ page' = 0 /\ only' = FALSE
          /\ more' = FALSE /\ need' = 0 /\ total' = 0 /\ missing' = {} /\ left' = FALSE
      BY <1>2 DEF EndWalk, vars
    <2>2. WalkTypeOK'
      BY <2>1 DEF WalkTypeOK
    <2>3. Onward'
      BY <2>1 DEF Onward
    <2> QED
      BY <2>1, <2>2, <2>3 DEF WalkInv
  <1>3. CASE UNCHANGED deskVars
    <2>1. UNCHANGED <<students, order>> /\ UNCHANGED walk
      BY <1>3 DEF deskVars, vars
    <2>2. Listed(only)' = Listed(only) /\ Base(page)' = Base(page)
      BY <2>1 DEF Listed, Base, walk
    <2>3. \A e, k : Beyond(e, k)' <=> Beyond(e, k)
      BY <2>1, <2>2 DEF Beyond, Row
    <2>4. Onward' <=> Onward
      BY <2>1, <2>2, <2>3 DEF Onward, walk
    <2>5. WalkTypeOK' <=> WalkTypeOK
      BY <2>1 DEF WalkTypeOK, walk
    <2> QED
      BY <2>1, <2>2, <2>4, <2>5 DEF WalkInv, walk
  <1> QED
    BY <1>1, <1>2, <1>3, PageStep, TotalStep, ServeStep DEF DeskNext

(* The accounts go their way under the lists. *)
LEMMA DeskIsAccounts ==
    ASSUME [DeskNext]_deskVars
    PROVE  [Next]_vars
  BY DEF DeskNext, deskVars, Serve, StartWalk, ReadPage, ReadTotal, EndWalk

LEMMA WalkStart ==
    ASSUME DeskInit
    PROVE  TypeOK /\ WalkInv
  <1>1. TypeOK
    BY InitType DEF DeskInit
  <1>2. Len(order) <= MaxRows
    BY AccountConstants DEF DeskInit, Init
  <1>3. \A i \in DOMAIN order : students[order[i]] # None
    <2>1. PICK pw \in Passwords, g \in AgentEmails :
            students = [e \in Emails |->
               IF \E i \in DOMAIN order : order[i] = e THEN Registered(pw, g) ELSE None]
      BY DEF DeskInit, Init
    <2>2. Registered(pw, g) # None
      BY RegisteredType, AccountConstants
    <2> QED
      BY <1>1, <2>1, <2>2 DEF TypeOK
  <1>4. /\ step = "rest" /\ page = 0 /\ only = FALSE /\ more = FALSE
        /\ need = 0 /\ total = 0 /\ missing = {} /\ left = FALSE
    BY DEF DeskInit, Rest
  <1>5. WalkTypeOK
    BY <1>4 DEF WalkTypeOK
  <1>6. Onward
    BY <1>4 DEF Onward
  <1> QED
    BY <1>1, <1>2, <1>3, <1>4, <1>5, <1>6 DEF WalkInv

LEMMA DeskInvariant == DeskSpec => [](TypeOK /\ WalkInv)
  <1> QED
    BY WalkStart, WalkStep, DeskIsAccounts, NextType, PTL DEF DeskSpec

(* A walk over the list misses nobody, for any size of page and any number *)
(* of registrations meanwhile, unless somebody left the list.              *)
THEOREM WalksMissNothing == DeskSpec => []WalkMissesNothing
  <1>1. WalkInv => WalkMissesNothing
    BY DEF WalkInv, WalkTypeOK, Onward, WalkMissesNothing
  <1> QED
    BY <1>1, DeskInvariant, PTL

(* The total covers the page it comes with, unless somebody left the list. *)
THEOREM TotalsCoverPages == DeskSpec => []TotalCoversPage
  <1>1. WalkInv => TotalCoversPage
    BY DEF WalkInv, Onward, TotalCoversPage
  <1> QED
    BY <1>1, DeskInvariant, PTL
=============================================================================
