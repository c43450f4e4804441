------------------------- MODULE ApplicationsProofs -------------------------
(***************************************************************************)
(* Applications, for any students, agents, courses and handlers: what a    *)
(* handler has read stays true until an UPDATE overtakes it (Snapshot),    *)
(* and what a creation has looked for stays absent until another creation  *)
(* looks for the same (Creators).                                          *)
(***************************************************************************)
EXTENDS Applications, TLAPS

USE ApplicationConstants DEF Status, Phases, Window, Reading

(* What a handler holds in each phase. *)
HandlerOK ==
    \A r \in Reqs :
       /\ pc[r] \in {"create", "promote"} => key[r] \in Students \X Courses
       /\ pc[r] = "create" => role[r] \in {"student", "staff"}
       /\ pc[r] \in Window =>
             /\ role[r] \in {"student", "staff"}
             /\ target[r] \in Apps /\ apps[target[r]] # None
             /\ key[r] \in Students \X Courses
             /\ key[r][1] = apps[target[r]].student_id
             /\ seen[r] \in Status
       /\ pc[r] = "update" => current[r] \in Reading

Types == TypeOK /\ HandlerOK

LEMMA TypeInit == Init => Types
  BY DEF Init, Types, TypeOK, HandlerOK

LEMMA NewType ==
    ASSUME TypeOK, NEW by, NEW s \in Students, NEW c \in Courses
    PROVE  /\ NewApplication(by, s, c) \in Application
           /\ NewApplication(by, s, c) # None
           /\ NewApplication(by, s, c).student_id = s
           /\ NewApplication(by, s, c).course = c
  BY DEF NewApplication, Application

LEMMA WrittenType ==
    ASSUME Types, NEW r \in Reqs, pc[r] = "update"
    PROVE  /\ target[r] \in Apps /\ apps[target[r]] \in Application
           /\ Written(r) \in Application /\ Written(r) # None
           /\ Written(r).student_id = apps[target[r]].student_id
           /\ Written(r).course = key[r][2]
           /\ Written(r).status = IF wish[r] = None THEN current[r].status ELSE wish[r]
  <1>1. /\ target[r] \in Apps /\ apps[target[r]] \in Application
        /\ key[r][2] \in Courses /\ current[r] \in Reading /\ wish[r] \in Status \cup {None}
    BY DEF Types, TypeOK, HandlerOK
  <1>2. Written(r) \in Application
    BY <1>1 DEF Written, Application
  <1>3. QED
    BY <1>1, <1>2 DEF Written, Application

LEMMA ReturnType ==
    ASSUME Types, NEW r \in Reqs, Return(r), apps' = apps,
           account' \in [Students -> AccountStatus], unchecked' = unchecked,
           excused' \subseteq Students, owed' \subseteq Reqs
    PROVE  Types'
  <1>1. TypeOK'
    BY DEF Types, TypeOK, Return, Forget
  <1>2. HandlerOK'
    BY DEF Types, TypeOK, HandlerOK, Return, Forget
  <1>3. QED
    BY <1>1, <1>2 DEF Types

LEMMA CreateType ==
    ASSUME Types, NEW r \in Reqs,
           \/ \E u \in Callers, s \in Students, c \in Courses : CreateCheck(r, u, s, c)
           \/ \E a \in Apps : CreateCommit(r, a)
    PROVE  Types'
  <1> USE DEF Types
  <1>1. ASSUME NEW u \in Callers, NEW s \in Students, NEW c \in Courses, CreateCheck(r, u, s, c)
        PROVE  Types'
    <2>1. TypeOK'
      BY <1>1 DEF TypeOK, CreateCheck, Role
    <2>2. HandlerOK'
      BY <1>1 DEF TypeOK, HandlerOK, CreateCheck, Role
    <2>3. QED
      BY <2>1, <2>2
  <1>2. ASSUME NEW a \in Apps, CreateCommit(r, a)
        PROVE  Types'
    <2> DEFINE n == NewApplication(role[r], key[r][1], key[r][2])
    <2>1. key[r][1] \in Students /\ key[r][2] \in Courses
      BY <1>2 DEF CreateCommit, HandlerOK
    <2>2. n \in Application /\ n # None
      BY <2>1, NewType
    <2>3. apps' = [apps EXCEPT ![a] = n] /\ apps[a] = None
      BY <1>2 DEF CreateCommit
    <2> HIDE DEF n
    <2>4. TypeOK'
      BY <1>2, <2>2, <2>3 DEF TypeOK, CreateCommit, locals
    <2>5. HandlerOK'
      BY <1>2, <2>2, <2>3 DEF TypeOK, HandlerOK, CreateCommit, locals
    <2>6. QED
      BY <2>4, <2>5
  <1>3. QED
    BY <1>1, <1>2

LEMMA UpdateType ==
    ASSUME Types, NEW r \in Reqs,
           \/ \E u \in Callers, a \in Apps, c \in Courses, st \in Wishes \cup {None} :
                 UpdateRead(r, u, a, c, st)
           \/ UpdateReread(r) \/ UpdateWrite(r)
    PROVE  Types'
  <1> USE DEF Types
  <1>1. ASSUME NEW u \in Callers, NEW a \in Apps, NEW c \in Courses, NEW st \in Wishes \cup {None},
               UpdateRead(r, u, a, c, st)
        PROVE  Types'
    <2>1. apps[a] \in Application
      BY <1>1 DEF UpdateRead, TypeOK
    <2>2. apps[a].student_id \in Students /\ apps[a].status \in Status
      BY <2>1 DEF Application
    <2>3. TypeOK'
      BY <1>1, <2>2 DEF TypeOK, UpdateRead, Role
    <2>4. HandlerOK'
      BY <1>1, <2>2 DEF TypeOK, HandlerOK, UpdateRead, Role
    <2>5. QED
      BY <2>3, <2>4
  <1>2. CASE UpdateReread(r)
    <2>1. apps[target[r]] \in Application
      BY <1>2 DEF UpdateReread, TypeOK, HandlerOK
    <2>2. [status |-> apps[target[r]].status, submitted_at |-> apps[target[r]].submitted_at] \in Reading
      BY <2>1 DEF Application
    <2>3. TypeOK'
      BY <1>2, <2>2 DEF TypeOK, UpdateReread
    <2>4. HandlerOK'
      BY <1>2, <2>2 DEF TypeOK, HandlerOK, UpdateReread
    <2>5. QED
      BY <2>3, <2>4
  <1>3. CASE UpdateWrite(r)
    <2> DEFINE n == Written(r)
               m == [status |-> n.status, submitted_at |-> n.submitted_at]
    <2>1. /\ target[r] \in Apps /\ n \in Application /\ n # None
          /\ n.student_id = apps[target[r]].student_id /\ m \in Reading
      BY <1>3, WrittenType DEF UpdateWrite, Application
    <2>2. /\ apps' = [apps EXCEPT ![target[r]] = n] /\ account' = account /\ excused' = excused
          /\ unchecked' \subseteq unchecked \cup {key[r]} /\ key[r] \in Students \X Courses
          /\ pc' = [pc EXCEPT ![r] = "wrote"] /\ stale' \subseteq Reqs
          /\ current' = [current EXCEPT ![r] = m] /\ owed' \in {owed, owed \cup {r}}
          /\ UNCHANGED <<role, target, key, wish, seen>>
      BY <1>3 DEF UpdateWrite, TypeOK, HandlerOK
    <2> HIDE DEF n, m
    <2>3. TypeOK'
      BY <2>1, <2>2 DEF TypeOK
    <2>4. HandlerOK'
      BY <2>1, <2>2 DEF TypeOK, HandlerOK
    <2>5. QED
      BY <2>3, <2>4
  <1>4. QED
    BY <1>1, <1>2, <1>3

LEMMA AssignType ==
    ASSUME Types, NEW a \in Apps, NEW g \in Agents, Assign(a, g)
    PROVE  Types'
  <1>1. apps[a] \in Application /\ apps' = [apps EXCEPT ![a].agent_id = g]
    BY DEF Assign, Types, TypeOK
  <1>2. apps'[a] \in Application /\ apps'[a].student_id = apps[a].student_id
    BY <1>1 DEF Application, Types, TypeOK
  <1>3. TypeOK'
    BY <1>1, <1>2 DEF Types, TypeOK, Assign, locals
  <1>4. HandlerOK'
    <2>1. \A b \in Apps : apps[b] # None =>
             apps'[b] # None /\ apps'[b].student_id = apps[b].student_id
      BY <1>1, <1>2 DEF Types, TypeOK
    <2>2. UNCHANGED <<pc, role, target, key, seen, current>>
      BY DEF Assign, locals
    <2>3. QED
      BY <2>1, <2>2 DEF Types, HandlerOK
  <1>5. QED
    BY <1>3, <1>4 DEF Types

LEMMA RespondType ==
    ASSUME Types, NEW r \in Reqs, Respond(r)
    PROVE  Types'
  <1>1. CASE Return(r) /\ owed' = owed
    BY <1>1, ReturnType DEF Respond, Types, TypeOK
  <1>2. CASE pc' = [pc EXCEPT ![r] = "mail"] /\ Forget(r) /\ owed' = owed \ {r} /\ stale' = stale
    <2>1. TypeOK'
      BY <1>2 DEF Respond, Types, TypeOK, Forget
    <2>2. HandlerOK'
      BY <1>2 DEF Respond, Types, TypeOK, HandlerOK, Forget
    <2>3. QED
      BY <2>1, <2>2 DEF Types
  <1>3. QED
    BY <1>1, <1>2 DEF Respond

LEMMA TypeStep == ASSUME Types, [Next]_vars PROVE Types'
  <1>1. ASSUME NEW r \in Reqs, Promote(r) \/ Mail(r) \/ Abort(r)
        PROVE  Types'
    <2>1. Return(r) /\ apps' = apps /\ unchecked' = unchecked
      BY <1>1 DEF Promote, Mail, Abort
    <2>2. /\ account' \in [Students -> AccountStatus] /\ excused' \subseteq Students
          /\ owed' \subseteq Reqs
      BY <1>1 DEF Promote, Mail, Abort, Types, TypeOK, HandlerOK
    <2>3. QED
      BY <2>1, <2>2, ReturnType
  <1>2. ASSUME NEW s \in Students, NEW st \in AccountStatus, SetAccount(s, st)
        PROVE  Types'
    BY <1>2 DEF SetAccount, Types, TypeOK, HandlerOK, locals
  <1>3. CASE UNCHANGED vars
    BY <1>3 DEF Types, TypeOK, HandlerOK, vars
  <1>4. QED
    BY <1>1, <1>2, <1>3, CreateType, UpdateType, RespondType, AssignType DEF Next

(* The table and the handlers are well typed in every reachable state: an  *)
(* UPDATE composed from two rows and a payload is an application.          *)
THEOREM TypeCorrect == Spec => []TypeOK
  <1>1. Types => TypeOK
    BY DEF Types
  <1>2. QED
    BY <1>1, TypeInit, TypeStep, PTL DEF Spec

----------------------------------------------------------------------------
(* Duplicates.  What a creation has looked for is either absent, and       *)
(* looked for by nobody else, or noted in `unchecked'.                     *)

Sought(r) == pc[r] = "create"
CreatorOK(r) ==
    Sought(r) /\ key[r] \notin unchecked =>
       /\ \A a \in Present : Key(a) # key[r]
       /\ \A q \in Reqs : Sought(q) /\ key[q] = key[r] => q = r
DupInv == NoDuplicates /\ \A r \in Reqs : CreatorOK(r)

(* Steps that leave the keys alone and start no creation. *)
LEMMA DupUnmoved ==
    ASSUME DupInv, Present' = Present, \A a \in Present : Key(a)' = Key(a),
           unchecked \subseteq unchecked',
           \A q \in Reqs : Sought(q)' => Sought(q) /\ key'[q] = key[q]
    PROVE  DupInv'
  BY DEF DupInv, NoDuplicates, CreatorOK

LEMMA DupStep == ASSUME Types, DupInv, [Next]_vars PROVE DupInv'
  <1> USE DEF Types
  <1>1. ASSUME NEW r \in Reqs, NEW u \in Callers, NEW s \in Students, NEW c \in Courses,
               CreateCheck(r, u, s, c)
        PROVE  DupInv'
    <2>1. /\ apps' = apps /\ pc[r] = "idle" /\ \A a \in Present : Key(a) # <<s, c>>
          /\ key'[r] = <<s, c>> /\ unchecked \subseteq unchecked'
          /\ \A q \in Reqs \ {r} : key'[q] = key[q] /\ (Sought(q)' <=> Sought(q))
          /\ <<s, c>> \notin unchecked' => \A q \in Reqs : ~(Sought(q) /\ key[q] = <<s, c>>)
      BY <1>1 DEF CreateCheck, TypeOK, Sought
    <2>2. Present' = Present /\ \A a \in Present : Key(a)' = Key(a)
      BY <2>1 DEF Present, Key
    <2>3. QED
      BY <2>1, <2>2 DEF DupInv, NoDuplicates, CreatorOK
  <1>2. ASSUME NEW r \in Reqs, NEW a \in Apps, CreateCommit(r, a)
        PROVE  DupInv'
    <2>1. PICK s \in Students, c \in Courses : key[r] = <<s, c>>
      BY <1>2 DEF CreateCommit, HandlerOK
    <2>2. /\ apps'[a].student_id = s /\ apps'[a].course = c /\ apps'[a] # None
          /\ \A b \in Apps \ {a} : apps'[b] = apps[b]
      BY <1>2, <2>1, NewType DEF CreateCommit, TypeOK
    <2>3. Present' = Present \cup {a} /\ a \notin Present
      BY <1>2, <2>2 DEF CreateCommit, Present
    <2>4. Key(a)' = key[r] /\ \A b \in Present : Key(b)' = Key(b)
      BY <2>1, <2>2, <2>3 DEF Key, Present
    <2>5. /\ Sought(r) /\ unchecked' = unchecked /\ key' = key
          /\ \A q \in Reqs : Sought(q)' => Sought(q) /\ q # r
      BY <1>2 DEF CreateCommit, Sought, locals, TypeOK
    <2>6. NoDuplicates'
      BY <2>3, <2>4, <2>5 DEF DupInv, NoDuplicates, CreatorOK
    <2>7. \A q \in Reqs : CreatorOK(q)'
      BY <2>3, <2>4, <2>5 DEF DupInv, CreatorOK
    <2>8. QED
      BY <2>6, <2>7 DEF DupInv
  <1>3. ASSUME NEW r \in Reqs, UpdateWrite(r)
        PROVE  DupInv'
    <2>t. PICK t \in Apps : t = target[r]
      BY <1>3, WrittenType DEF UpdateWrite
    <2>1. /\ t \in Apps /\ apps[t] \in Application /\ Written(r) # None
          /\ Written(r).student_id = apps[t].student_id /\ Written(r).course = key[r][2]
          /\ key[r] \in Students \X Courses /\ key[r][1] = apps[t].student_id
          /\ apps[t] # None
      BY <1>3, <2>t, WrittenType DEF UpdateWrite, HandlerOK
    <2>2. /\ apps'[t] = Written(r) /\ \A b \in Apps \ {t} : apps'[b] = apps[b]
          /\ unchecked' = IF Written(r).course # apps[t].course
                             THEN unchecked \cup {key[r]} ELSE unchecked
      BY <1>3, <2>t, <2>1 DEF UpdateWrite, TypeOK
    <2>3. Present' = Present /\ t \in Present
      BY <2>1, <2>2 DEF Present
    <2>4. /\ Key(t)' = key[r] /\ \A b \in Present \ {t} : Key(b)' = Key(b)
          /\ key[r] \in unchecked' \/ Key(t)' = Key(t)
      <3>1. PICK s \in Students, c \in Courses : key[r] = <<s, c>>
        BY <2>1
      <3>2. /\ apps[t].student_id = s /\ apps'[t].student_id = s /\ apps'[t].course = c
            /\ key[r] \in unchecked' \/ apps[t].course = c
        BY <2>1, <2>2, <3>1
      <3>3. QED
        BY <2>2, <3>1, <3>2 DEF Key, Present
    <2>5. \A q \in Reqs : Sought(q)' => Sought(q) /\ key'[q] = key[q]
      BY <1>3 DEF UpdateWrite, Sought, TypeOK
    <2>6. unchecked \subseteq unchecked'
      BY <2>2
    <2>7. CASE key[r] \in unchecked'
      BY <2>3, <2>4, <2>5, <2>6, <2>7 DEF DupInv, NoDuplicates, CreatorOK
    <2>8. CASE Key(t)' = Key(t)
      <3>1. \A b \in Present : Key(b)' = Key(b)
        BY <2>4, <2>8
      <3>2. QED
        BY <2>3, <2>5, <2>6, <3>1, DupUnmoved
    <2>9. QED
      BY <2>4, <2>7, <2>8
  <1>4. ASSUME NEW a \in Apps, NEW g \in Agents, Assign(a, g)
        PROVE  DupInv'
    <2>1. apps[a] \in Application /\ apps' = [apps EXCEPT ![a].agent_id = g]
      BY <1>4 DEF Assign, TypeOK
    <2>2. /\ apps'[a] \in Application /\ apps'[a].student_id = apps[a].student_id
          /\ apps'[a].course = apps[a].course /\ \A b \in Apps \ {a} : apps'[b] = apps[b]
      BY <2>1 DEF Application, TypeOK
    <2>3. Present' = Present /\ \A b \in Present : Key(b)' = Key(b)
      BY <1>4, <2>2 DEF Present, Key, Assign
    <2>4. QED
      BY <1>4, <2>3, DupUnmoved DEF Assign, Sought, locals
  <1>5. ASSUME apps' = apps, unchecked' = unchecked,
               \A q \in Reqs : Sought(q)' => Sought(q) /\ key'[q] = key[q]
        PROVE  DupInv'
    BY <1>5, DupUnmoved DEF Present, Key
  <1>6. ASSUME NEW r \in Reqs, Return(r)
        PROVE  \A q \in Reqs : Sought(q)' => Sought(q) /\ key'[q] = key[q]
    BY <1>6 DEF Return, Forget, Sought, TypeOK
  <1>7. ASSUME NEW r \in Reqs, NEW u \in Callers, NEW a \in Apps, NEW c \in Courses,
               NEW st \in Wishes \cup {None}, UpdateRead(r, u, a, c, st)
        PROVE  DupInv'
    BY <1>5, <1>7 DEF UpdateRead, Sought, TypeOK
  <1>8. ASSUME NEW r \in Reqs, UpdateReread(r)
        PROVE  DupInv'
    BY <1>5, <1>8 DEF UpdateReread, Sought, TypeOK
  <1>9. ASSUME NEW r \in Reqs, Respond(r)
        PROVE  DupInv'
    BY <1>5, <1>9 DEF Respond, Return, Forget, Sought, TypeOK
  <1>10. QED
    BY <1>1, <1>2, <1>3, <1>4, <1>5, <1>6, <1>7, <1>8, <1>9
    DEF Next, vars, Promote, Mail, Abort, SetAccount, locals, Sought

(* For any students, courses and handlers: one course is applied for twice *)
(* only where two creations looked at once or an update renamed a course.  *)
THEOREM DuplicatesAreRaced == Spec => []NoDuplicates
  <1>1. Init => DupInv
    BY DEF Init, DupInv, NoDuplicates, CreatorOK, Present, Sought
  <1>2. DupInv => NoDuplicates
    BY DEF DupInv
  <1>3. QED
    BY <1>1, <1>2, DupStep, TypeInit, TypeStep, PTL DEF Spec

----------------------------------------------------------------------------
(* Promotions. *)

LEMMA PromotedStep ==
    ASSUME Types, ApplicantsPromoted, [Next]_vars
    PROVE  ApplicantsPromoted'
  <1> USE DEF Types
  <1> DEFINE Owed(s) == \E r \in Reqs : pc[r] = "promote" /\ key[r][1] = s
  <1>1. ASSUME NEW r \in Reqs, NEW a \in Apps, CreateCommit(r, a)
        PROVE  ApplicantsPromoted'
    <2>1. key[r] \in Students \X Courses /\ pc[r] = "create"
      BY <1>1 DEF CreateCommit, HandlerOK
    <2>2. /\ apps'[a].student_id = key[r][1] /\ \A b \in Apps \ {a} : apps'[b] = apps[b]
          /\ account' = account /\ excused' = excused
      BY <1>1, <2>1, NewType DEF CreateCommit, TypeOK
    <2>3. pc'[r] = "promote" /\ key' = key /\ \A q \in Reqs : pc[q] = "promote" => pc'[q] = "promote"
      BY <1>1, <2>1 DEF CreateCommit, locals, TypeOK
    <2>4. QED
      BY <2>2, <2>3 DEF ApplicantsPromoted, Present
  <1>2. ASSUME NEW r \in Reqs, Promote(r)
        PROVE  ApplicantsPromoted'
    <2>1. /\ apps' = apps /\ excused' = excused
          /\ account' = [account EXCEPT ![key[r][1]] = IF @ = "lead" THEN "in_progress" ELSE @]
          /\ \A q \in Reqs \ {r} : pc'[q] = pc[q] /\ key'[q] = key[q]
      BY <1>2 DEF Promote, Return, Forget, TypeOK
    <2>2. key[r][1] \in Students
      BY <1>2 DEF Promote, HandlerOK
    <2>3. \A s \in Students : account'[s] = "lead" => account[s] = "lead" /\ s # key[r][1]
      BY <2>1, <2>2 DEF TypeOK
    <2>4. \A a \in Present : apps[a].student_id \in Students
      BY DEF Present, TypeOK, Application
    <2>5. QED
      BY <2>1, <2>3, <2>4 DEF ApplicantsPromoted, Present
  <1>3. ASSUME NEW r \in Reqs, Abort(r)
        PROVE  ApplicantsPromoted'
    BY <1>3 DEF Abort, Return, Forget, ApplicantsPromoted, Present, TypeOK
  <1>4. ASSUME NEW s \in Students, NEW st \in AccountStatus, SetAccount(s, st)
        PROVE  ApplicantsPromoted'
    BY <1>4 DEF SetAccount, ApplicantsPromoted, Present, TypeOK, locals
  <1>5. ASSUME UNCHANGED <<account, excused>>,
               \A a \in Present' : a \in Present /\ apps'[a].student_id = apps[a].student_id,
               \A q \in Reqs : pc[q] = "promote" => pc'[q] = "promote" /\ key'[q] = key[q]
        PROVE  ApplicantsPromoted'
    BY <1>5 DEF ApplicantsPromoted
  <1>6. ASSUME NEW r \in Reqs, UpdateWrite(r)
        PROVE  ApplicantsPromoted'
    <2>1. \A a \in Present' : a \in Present /\ apps'[a].student_id = apps[a].student_id
      BY <1>6, WrittenType DEF UpdateWrite, HandlerOK, TypeOK, Present
    <2>2. \A q \in Reqs : pc[q] = "promote" => pc'[q] = "promote" /\ key'[q] = key[q]
      BY <1>6 DEF UpdateWrite, TypeOK
    <2>3. QED
      BY <1>5, <1>6, <2>1, <2>2 DEF UpdateWrite
  <1>7. ASSUME NEW a \in Apps, NEW g \in Agents, Assign(a, g)
        PROVE  ApplicantsPromoted'
    <2>1. apps[a] \in Application /\ apps' = [apps EXCEPT ![a].agent_id = g]
      BY <1>7 DEF Assign, TypeOK
    <2>2. \A b \in Present' : b \in Present /\ apps'[b].student_id = apps[b].student_id
      BY <1>7, <2>1 DEF Assign, Present, Application, TypeOK
    <2>3. QED
      BY <1>5, <1>7, <2>2 DEF Assign, locals
  <1>8. ASSUME apps' = apps, UNCHANGED <<account, excused>>,
               \A q \in Reqs : pc[q] = "promote" => pc'[q] = "promote" /\ key'[q] = key[q]
        PROVE  ApplicantsPromoted'
    BY <1>5, <1>8 DEF Present
  <1>9. ASSUME NEW r \in Reqs,
               \/ \E u \in Callers, s \in Students, c \in Courses : CreateCheck(r, u, s, c)
               \/ \E u \in Callers, a \in Apps, c \in Courses, st \in Wishes \cup {None} :
                     UpdateRead(r, u, a, c, st)
               \/ UpdateReread(r) \/ Respond(r) \/ Mail(r)
        PROVE  ApplicantsPromoted'
    BY <1>8, <1>9 DEF CreateCheck, UpdateRead, UpdateReread, Respond, Mail, Return, Forget, TypeOK
  <1>10. CASE UNCHANGED vars
    BY <1>8, <1>10 DEF vars, locals
  <1>11. QED
    BY <1>1, <1>2, <1>3, <1>4, <1>6, <1>7, <1>9, <1>10 DEF Next

(* For any students and handlers: an applicant stays a lead only while the *)
(* promotion is owed, or because it was lost or undone.                    *)
THEOREM ApplicantsArePromoted == Spec => []ApplicantsPromoted
  <1>1. Init => ApplicantsPromoted
    BY DEF Init, ApplicantsPromoted, Present
  <1>2. QED
    BY <1>1, PromotedStep, TypeInit, TypeStep, PTL DEF Spec

----------------------------------------------------------------------------
(* Updates.  Until an UPDATE overtakes it, a handler's reads are the row,  *)
(* and a student's are of a draft.                                         *)

SnapshotOK(r) ==
    /\ pc[r] \in Window /\ r \notin stale => seen[r] = apps[target[r]].status
    /\ pc[r] = "update" /\ r \notin stale =>
          /\ current[r].status = apps[target[r]].status
          /\ current[r].submitted_at = apps[target[r]].submitted_at
    /\ pc[r] \in Window /\ role[r] = "student" => wish[r] = None /\ seen[r] = "draft"
Snapshot == \A r \in Reqs : SnapshotOK(r)

LEMMA SnapshotStep == ASSUME Types, Snapshot, [Next]_vars PROVE Snapshot'
  <1> USE DEF Types
  <1>1. ASSUME NEW r \in Reqs, NEW u \in Callers, NEW a \in Apps, NEW c \in Courses,
               NEW st \in Wishes \cup {None}, UpdateRead(r, u, a, c, st)
        PROVE  Snapshot'
    <2>1. u \in Students => apps[a].status = "draft"
      BY <1>1 DEF UpdateRead, MayUpdate
    <2>2. SnapshotOK(r)'
      BY <1>1, <2>1 DEF UpdateRead, SnapshotOK, Role, TypeOK
    <2>3. \A q \in Reqs \ {r} : SnapshotOK(q)'
      BY <1>1 DEF UpdateRead, Snapshot, SnapshotOK, TypeOK
    <2>4. QED
      BY <2>2, <2>3 DEF Snapshot
  <1>2. ASSUME NEW r \in Reqs, UpdateReread(r)
        PROVE  Snapshot'
    <2>1. SnapshotOK(r)'
      BY <1>2 DEF UpdateReread, Snapshot, SnapshotOK, TypeOK
    <2>2. \A q \in Reqs \ {r} : SnapshotOK(q)'
      BY <1>2 DEF UpdateReread, Snapshot, SnapshotOK, TypeOK
    <2>3. QED
      BY <2>1, <2>2 DEF Snapshot
  <1>3. ASSUME NEW r \in Reqs, UpdateWrite(r)
        PROVE  Snapshot'
    <2>1. /\ pc'[r] \notin Window
          /\ \A q \in Reqs \ {r} :
                /\ pc'[q] = pc[q] /\ role'[q] = role[q] /\ target'[q] = target[q]
                /\ seen'[q] = seen[q] /\ wish'[q] = wish[q] /\ current'[q] = current[q]
                /\ q \notin stale' => q \notin stale /\ ~(pc[q] \in Window /\ target[q] = target[r])
      BY <1>3 DEF UpdateWrite, TypeOK
    <2>2. \A b \in Apps : b # target[r] => apps'[b] = apps[b]
      BY <1>3 DEF UpdateWrite, TypeOK
    <2>3. \A q \in Reqs : pc[q] \in Window => target[q] \in Apps
      BY DEF HandlerOK
    <2>4. QED
      BY <2>1, <2>2, <2>3 DEF Snapshot, SnapshotOK
  <1>4. ASSUME NEW a \in Apps, NEW g \in Agents, Assign(a, g)
        PROVE  Snapshot'
    <2>1. apps[a] \in Application /\ apps' = [apps EXCEPT ![a].agent_id = g]
      BY <1>4 DEF Assign, TypeOK
    <2>2. \A b \in Apps : apps[b] # None =>
             apps'[b].status = apps[b].status /\ apps'[b].submitted_at = apps[b].submitted_at
      BY <2>1 DEF Application, TypeOK
    <2>3. \A q \in Reqs : pc[q] \in Window => target[q] \in Apps /\ apps[target[q]] # None
      BY DEF HandlerOK
    <2>4. QED
      BY <1>4, <2>2, <2>3 DEF Assign, locals, Snapshot, SnapshotOK
  <1>5. ASSUME NEW r \in Reqs, NEW a \in Apps, CreateCommit(r, a)
        PROVE  Snapshot'
    <2>1. \A q \in Reqs : pc[q] \in Window => target[q] \in Apps /\ target[q] # a
      BY <1>5 DEF CreateCommit, HandlerOK
    <2>2. /\ \A b \in Apps \ {a} : apps'[b] = apps[b]
          /\ \A q \in Reqs : pc'[q] \in Window => pc'[q] = pc[q]
          /\ UNCHANGED <<role, target, seen, wish, current, stale>>
      BY <1>5 DEF CreateCommit, locals, TypeOK
    <2>3. QED
      BY <2>1, <2>2 DEF Snapshot, SnapshotOK
  <1>6. ASSUME NEW r \in Reqs, apps' = apps, Return(r)
        PROVE  Snapshot'
    BY <1>6 DEF Return, Forget, Snapshot, SnapshotOK, TypeOK
  <1>7. ASSUME NEW r \in Reqs, NEW u \in Callers, NEW s \in Students, NEW c \in Courses,
               CreateCheck(r, u, s, c)
        PROVE  Snapshot'
    BY <1>7 DEF CreateCheck, Snapshot, SnapshotOK, TypeOK
  <1>8. ASSUME UNCHANGED <<apps, pc, locals, stale>>
        PROVE  Snapshot'
    BY <1>8 DEF locals, Snapshot, SnapshotOK
  <1>9. ASSUME NEW r \in Reqs, Promote(r) \/ Mail(r) \/ Abort(r)
        PROVE  Snapshot'
    BY <1>6, <1>9 DEF Promote, Mail, Abort
  <1>10. ASSUME NEW s \in Students, NEW st \in AccountStatus, SetAccount(s, st)
         PROVE  Snapshot'
    BY <1>8, <1>10 DEF SetAccount
  <1>11. CASE UNCHANGED vars
    BY <1>8, <1>11 DEF vars, locals
  <1>12. ASSUME NEW r \in Reqs, Respond(r)
         PROVE  Snapshot'
    BY <1>12 DEF Respond, Return, Forget, Snapshot, SnapshotOK, TypeOK
  <1>13. QED
    BY <1>1, <1>2, <1>3, <1>4, <1>5, <1>7, <1>9, <1>10, <1>11, <1>12 DEF Next

(* Only an UPDATE takes a handler to "wrote", and what it writes is        *)
(* Written.                                                                *)
LEMMA WriteIsUpdate ==
    ASSUME Types, Next, NEW r \in Reqs, Writes(r)
    PROVE  /\ UpdateWrite(r) /\ apps' = [apps EXCEPT ![target[r]] = Written(r)]
           /\ Written(r).status = IF wish[r] = None THEN current[r].status ELSE wish[r]
  <1>1. pc[r] = "update" /\ pc'[r] = "wrote"
    BY DEF Writes
  <1>2. CASE UpdateWrite(r)
    BY <1>1, <1>2, WrittenType DEF UpdateWrite
  <1>3. ASSUME ~UpdateWrite(r)
        PROVE  FALSE
    BY <1>1, <1>3 DEF Types, TypeOK, Next, CreateCheck, CreateCommit, Promote, UpdateRead,
       UpdateReread, UpdateWrite, Respond, Mail, Abort, Assign, SetAccount, Return
  <1>4. QED
    BY <1>2, <1>3

LEMMA SnapshotInit == Init => Snapshot
  BY DEF Init, Snapshot, SnapshotOK

(* For any number of handlers: until another update overtakes it, a        *)
(* student's update finds a draft and leaves a draft.                      *)
THEOREM StudentsEditDrafts == Spec => StudentEditsDraft
  <1> DEFINE A == \A r \in Reqs \ stale : Writes(r) /\ role[r] = "student" =>
                     apps[target[r]].status = "draft" /\ apps'[target[r]].status = "draft"
  <1>1. Types /\ Snapshot /\ [Next]_vars => [A]_vars
    <2> SUFFICES ASSUME Types, Snapshot, Next, NEW r \in Reqs \ stale, Writes(r),
                        role[r] = "student"
                 PROVE  apps[target[r]].status = "draft" /\ apps'[target[r]].status = "draft"
      OBVIOUS
    <2>1. /\ pc[r] = "update" /\ wish[r] = None /\ target[r] \in Apps
          /\ apps[target[r]].status = "draft" /\ current[r].status = "draft"
      BY DEF Writes, Snapshot, SnapshotOK, Types, HandlerOK
    <2>2. QED
      BY <2>1, WriteIsUpdate DEF Types, TypeOK
  <1>2. QED
    BY <1>1, SnapshotInit, SnapshotStep, TypeInit, TypeStep, PTL DEF Spec, StudentEditsDraft

(* A change that is owed a mail will be seen when the handler compares: it *)
(* found the row as it had first read it, so that what its UPDATE returned *)
(* differs from that.                                                      *)
Owing == \A r \in owed : pc[r] = "wrote" /\ Changed(r)

LEMMA OwingStep == ASSUME Types, Snapshot, Owing, [Next]_vars PROVE Owing'
  <1> USE DEF Types
  <1>1. ASSUME NEW r \in Reqs, UpdateWrite(r)
        PROVE  Owing'
    <2>1. /\ pc' = [pc EXCEPT ![r] = "wrote"] /\ UNCHANGED seen
          /\ \A q \in Reqs \ {r} : current'[q] = current[q]
          /\ owed \subseteq Reqs /\ owed' \subseteq owed \cup {r}
      BY <1>1 DEF UpdateWrite, TypeOK
    <2>2. r \notin owed
      BY <1>1 DEF UpdateWrite, Owing
    <2>3. r \in owed' => Changed(r)'
      <3>1. SUFFICES ASSUME r \in owed'
                     PROVE  Changed(r)'
        OBVIOUS
      <3>2. r \notin stale /\ Written(r).status # apps[target[r]].status
        BY <1>1, <2>2, <3>1 DEF UpdateWrite
      <3>3. current'[r].status = Written(r).status
        BY <1>1 DEF UpdateWrite, TypeOK
      <3>4. seen[r] = apps[target[r]].status
        BY <1>1, <3>2 DEF UpdateWrite, Snapshot, SnapshotOK
      <3>5. QED
        BY <2>1, <3>2, <3>3, <3>4 DEF Changed
    <2>4. QED
      BY <2>1, <2>3 DEF Owing, Changed, TypeOK
  <1>2. ASSUME NEW r \in Reqs, r \notin owed', owed' \subseteq owed,
               \A q \in Reqs \ {r} : pc'[q] = pc[q] /\ seen'[q] = seen[q] /\ current'[q] = current[q]
        PROVE  Owing'
    BY <1>2 DEF Owing, Changed, TypeOK
  <1>3. ASSUME NEW r \in Reqs, Respond(r)
        PROVE  Owing'
    BY <1>2, <1>3 DEF Respond, Return, Forget, Owing, TypeOK
  <1>4. ASSUME NEW r \in Reqs, Promote(r) \/ Mail(r) \/ Abort(r)
        PROVE  Owing'
    BY <1>2, <1>4 DEF Promote, Mail, Abort, Return, Forget, Owing, TypeOK
  <1>5. ASSUME NEW r \in Reqs,
               \/ \E u \in Callers, s \in Students, c \in Courses : CreateCheck(r, u, s, c)
               \/ \E a \in Apps : CreateCommit(r, a)
               \/ \E u \in Callers, a \in Apps, c \in Courses, st \in Wishes \cup {None} :
                     UpdateRead(r, u, a, c, st)
               \/ UpdateReread(r)
        PROVE  Owing'
    BY <1>2, <1>5 DEF CreateCheck, CreateCommit, UpdateRead, UpdateReread, locals, Owing, TypeOK
  <1>6. ASSUME UNCHANGED <<pc, seen, current, owed>>
        PROVE  Owing'
    BY <1>6 DEF Owing, Changed
  <1>7. QED
    BY <1>1, <1>3, <1>4, <1>5, <1>6 DEF Next, vars, Assign, SetAccount, locals

(* For any number of handlers: a committed change of status whose reads    *)
(* nothing overtook is in the hands of its handler until its mail is       *)
(* spawned; a handler that answers has spawned it.                         *)
THEOREM ChangesAreMailed == Spec => []ChangeIsMailed
  <1>1. Init => Owing
    BY DEF Init, Owing
  <1>2. Owing => ChangeIsMailed
    BY DEF Owing, ChangeIsMailed
  <1>3. QED
    BY <1>1, <1>2, OwingStep, SnapshotInit, SnapshotStep, TypeInit, TypeStep, PTL DEF Spec

(* For any number of handlers: a date of submission is cleared only by an  *)
(* update whose reads were overtaken.                                      *)
THEOREM SubmissionDatesAreKept == Spec => DateKept
  <1> DEFINE A == \A a \in Present :
          apps[a].submitted_at = "set" /\ apps'[a].submitted_at = "null" =>
             \E r \in stale : Writes(r) /\ target[r] = a
  <1>1. Types /\ Snapshot /\ [Next]_vars => [A]_vars
    <2> SUFFICES ASSUME Types, Snapshot, Next, NEW a \in Present,
                        apps[a].submitted_at = "set", apps'[a].submitted_at = "null"
                 PROVE  \E r \in stale : Writes(r) /\ target[r] = a
      OBVIOUS
    <2> USE DEF Types
    <2>1. ASSUME NEW r \in Reqs, UpdateWrite(r)
          PROVE  r \in stale /\ Writes(r) /\ target[r] = a
      <3>1. /\ pc[r] = "update" /\ target[r] \in Apps /\ apps[target[r]] \in Application
            /\ apps'[target[r]] = Written(r) /\ \A b \in Apps \ {target[r]} : apps'[b] = apps[b]
        BY <2>1, WrittenType DEF UpdateWrite, TypeOK
      <3>2. target[r] = a
        BY <3>1 DEF Present
      <3>3. Writes(r)
        BY <2>1, <3>1, <3>2 DEF UpdateWrite, Writes, TypeOK
      <3>4. Written(r).submitted_at \in {"set", current[r].submitted_at}
        BY <3>1 DEF Written, Application
      <3>5. r \notin stale => current[r].submitted_at = "set"
        BY <3>1, <3>2 DEF Snapshot, SnapshotOK
      <3>6. QED
        BY <3>1, <3>2, <3>3, <3>4, <3>5
    <2>2. ASSUME NEW r \in Reqs, NEW b \in Apps, CreateCommit(r, b)
          PROVE  FALSE
      BY <2>2 DEF CreateCommit, Present, TypeOK
    <2>3. ASSUME NEW b \in Apps, NEW g \in Agents, Assign(b, g)
          PROVE  FALSE
      <3>1. apps[b] \in Application /\ apps' = [apps EXCEPT ![b].agent_id = g]
        BY <2>3 DEF Assign, TypeOK
      <3>2. QED
        BY <3>1 DEF Present, Application, TypeOK
    <2>4. apps' # apps
      OBVIOUS
    <2>5. QED
      BY <2>1, <2>2, <2>3, <2>4 DEF Next, CreateCheck, Promote, UpdateRead, UpdateReread, Respond,
         Mail, Abort, SetAccount
  <1>2. QED
    BY <1>1, SnapshotInit, SnapshotStep, TypeInit, TypeStep, PTL DEF Spec, DateKept
=============================================================================
