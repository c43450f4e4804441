# FF Overseas backend: TLA+ models, checks and proofs

The repository is the backend of a study-abroad consultancy. It is two programs
that share little: a Rust portal (axum, PostgreSQL, a SQLite file for rate
limits, files on disk) and a Python site (FastAPI, three uvicorn workers) with a
public chatbot and a directory of universities. Nearly everything that is hard
to get right in it has one form: **a handler runs several statements, none of
them in one transaction, and other handlers, a hang-up or a crash may come
between any two.** The models therefore give each handler a program counter with
one step per statement (or per `await`), and the properties say what survives
every interleaving.

## 1. Inventory

| Component | State | Operations | Hard behaviour | What makes it correct |
|---|---|---|---|---|
| Refresh tokens and sessions (`routes/auth.rs`, `services/db_auth_service.rs`, `auth/jwt.rs`) | table `refresh_tokens` | login, refresh (find, check, revoke, insert, respond), reuse detection, logout, logout-all | `is_revoked` is read long before it is acted on; a crash between revoke and insert; equal tokens minted in one second | one owner per family; rotation kills the parent; no live token in a closed family |
| Documents (`routes/documents.rs`, `services/document_service.rs`) | table `documents`, temporary and final files | upload, verify, delete | file and row change in different steps; copy instead of rename; acknowledgement of the INSERT lost | a row has its file; files have a row or a known reason; one delete unlinks |
| Applications (`routes/applications.rs`, `services/application_service.rs`) | table `applications`, the account status of a student | create, update, assign, promote a lead, mail | two reads and a write of the whole row; duplicate check outside the transaction | students edit drafts only; dates and agents are not lost; a handler that answers has mailed its change |
| Stage progress, visa steps, slots, rooms, seeding (`application_service.rs`, `visa_service.rs`, `routes/students.rs`, `chat_service.rs`, `db/postgres.rs`) | five tables | check, then write; a visa step is edited; a message marks its room with its time | check-then-write races; lists filled one INSERT at a time; `NOW()` is the start of a transaction | lists whole; limits exceeded by races only; edits are not written over; a completion keeps its date |
| Chat (`ws/hub.rs`, `ws/handler.rs`, `chat_service.rs`) | the hub (user to sender), a channel per connection, messages | connect, send, relay, mark read, heartbeat, end | second connection of a user; vanished client; client that does not read; receipts of no row; crash | nothing shown that is not saved; receipts between members; entries live; connections end |
| Rate limiter (`middleware/rate_limit.rs`, `db/sqlite.rs`) | SQLite table of request times | delete, count, insert; cleanup worker | requests in flight together; two cleaners with different ages | a sliding window with a bounded slack |
| Public chatbot (`app/main.py`) | sessions and request times, per worker, in memory | ask, fail over, cleanup | tests before an `await`, counts after it | question limit, rate limit, expiry |
| Directory (`app/universities.py`) and shortlist (`shortlist_service.rs`) | SQLite cache shared by workers; `student_shortlists` | get, set, evict; copy an answer to a shortlist | expired entries deleted in a second statement; answers carried over delays | cache bounded; nothing older than its lifetime allows |
| Accounts (`routes/auth.rs`, `students.rs`, `agents.rs`, `admin.rs`, `db_auth_service.rs`) | tables `students` and `agents` | register, enlist, login, change of password, profiles, activation, status, hiring, editing, presence | look and statement apart; a retry of what was committed; an account that changes after the look | one account per address; flag and status agree; credentials hold when they are relied on |
| Administration (`services/admin_service.rs`) | none of its own | pages of a list, each with a total | the table changes between pages, and between page and total; 32-bit offsets | a walk misses nobody; the total covers the page |
| Audit trail (`middleware/audit_trail.rs`) | table `audit_logs` | log the request after its response | a task nobody awaits; hang-ups; crashes | what is logged was done, what was done is logged, but for named exits |
| E-mail, guards, wiring, directory database | none, or a pool | | | see section 8 |

Interactions: the portal's handlers meet in PostgreSQL only. Every one of them runs
inside the audit middleware, which takes the claims before the handler runs and acts on the
status of its response. The chat handlers
also meet in the hub, a process-wide map. Creating a message promotes a lead,
and so does creating an application. The shortlist asks the Python directory over
HTTP and stores the answer. The uvicorn workers share the cache file and nothing
else.

The hazards, each at its line, with the properties that cover them, are in
`PROJECT.json` under `hazards`.

## 2. Modules

| Module | Models | Role |
|---|---|---|
| `RefreshTokens` | sessions | implements `Sessions` |
| `Sessions` | what a session promises | abstract specification |
| `RefreshTokensProofs` | | theorems about it |
| `Documents` | document store | implements `DocumentStore` |
| `DocumentStore` | what the document store promises | abstract specification |
| `DocumentsProofs` | | theorems about it, the refinement among them |
| `Applications` | applications and promotion | detailed specification |
| `ApplicationsProofs` | | theorems about it |
| `Accounts` | accounts, and the audit trail around them | detailed specification |
| `AdminLists` | the pages of a list | composes with `Accounts`, whose steps change the list |
| `AccountsProofs` | | theorems about both |
| `ChatHub` | WebSocket tasks, hub, messages | safety and fair specification |
| `ChatHubProofs` | | theorems about it |
| `RateLimit` | limiter and cleanup worker | implements `SlidingWindow` |
| `RateLimitProofs` | | theorems about it, the refinement among them |
| `SlidingWindow` | what a limiter promises | abstract specification |
| `PublicChat` | public chatbot | detailed specification |
| `PortalRecords` | check-then-write tables | detailed specification |
| `PortalRecordsProofs` | | theorems about it |
| `Directory` | cache, endpoints, shortlist | composes the Python cache with the Rust shortlist |
| `PythonSiteProofs` | | theorems about `PublicChat` and `Directory`, the two parts of the Python site |
| `MC*` | | instances for TLC |

How code becomes a step:

* a handler is an element of `Reqs` (or `Conns`) with a `pc` (or `phase`) that names
  the next statement; what it has read so far is in variables of its own
  (`db`, `seen`, `current`, `found`, `answer`);
* one SQL statement is atomic; statements between `begin` and `commit` are one
  step; code without `await` in Python is one step;
* early returns are guards of the step or a step back to `"idle"`;
* `Abort` is a failing statement, a client that hangs up (axum drops the
  handler's future) or a process that dies: the handler forgets everything, the
  tables keep what was written. `Crash`, `Restart` and `Recreate` are the same for state in
  memory;
* variables marked *history* record what happened and are read by properties,
  never by the guard of a step. They name the excuse a property allows: `raced` in
  `RefreshTokens` (two writers in flight on one family), `tmpLeft`, `left` and `unsure` in
  `Documents` (a file left by an early end or by a removal that failed; an INSERT that committed and reported an error), `stale`
  in `Applications` (another write since this handler's read), `raced` in `Accounts` (the account
  changed after this handler's look), and so on. A property that
  held only with an excuse shows exactly how far the code's promise goes;
* definitions whose comment begins with *Mutant* are wrong variants of the
  definition that follows them. Each property has one that it catches; they are no part of any
  specification.

Points of translation worth knowing:

* `RefreshTokens`: a token is its claims (`sub`, `family`, `iat` in seconds), since
  the claims hold no other identifier; two rows may hold the same token and the
  lookup returns any of them. Login's password check is the choice of the user. A
  token that the leeway of the JWT library still accepts may be expired in the
  table, and both tests are in `RefreshFind`.
* `Sessions` abstracts from statements, rows and expiry: a family is new, open, closed or
  forked. `RefreshTokens` maps a family on which two writers were in flight to forked, where nothing
  but the owner is promised, and any other to the live rows it has; the statement that revokes is `Spend`, the
  one that inserts `Begin` or `Renew`, and a logout closes.
* `Documents`: a file name is fresh for each upload (UUID) and identifies temporary
  file, final file and row. Type and size checks are `Refuse`. The handlers write `let _ = remove_file(..)`: each
  removal may fail, and then the file stays and nobody knows (`RemoveTemporary`, `RemoveStored`).
* `DocumentStore` abstracts from handlers, temporary files and the order of statements: an upload begins,
  its content is kept, then it is listed or fails; a listed document is reviewed or removed; content is cleared only when
  nothing lists it and no upload is about to. `Documents` maps its final files to the content, the UUIDs in use to
  the uploads begun, the handlers between `stream` and INSERT to the uploads under way (`Open`), and `unsure` to the
  documents whose upload answered an error after its INSERT had committed: of these alone the content may go while they
  are listed.
* `Applications`: course stands for the university and course that make a duplicate.
  `Written` is the whole-row UPDATE computed from the row read by the service. After its commit the handler has
  still to return to the route (`wrote`) before it compares and spawns the mail (`Respond`); `owed` is the history of
  changes that are between the two, and `Abort` may end the handler there.
* `Accounts`: a request goes through look (`check`), statement (`write`), committed (`wrote`) and
  response, and handlers that do not look begin at `write`. `CallerExists` is what an access token proves: the
  row was there when it was minted. The audit task is spawned in the step of the response, and `trail` says what became
  of it; a public request has no claims unless the client sends a token. `profile` is who wrote
  the profile last; `linked` is whether an application of the student's names the agent. A new row
  is placed by the time its INSERT began: above all rows that the handler saw, anywhere among later ones.
* `AdminLists`: a page is two statements, rows and total, and requests are served between them.
  Offsets are computed modulo `Word`. A list is the set of the places in the order of `created_at` whose rows
  the WHERE clause admits, and `Row` numbers them, as LIMIT and OFFSET do. A walk that goes on while pages are full is the client's.
* `PortalRecords`: what a visa step says is abstracted to whether somebody wrote it (`changed`).
  `stamp` is `NOW()` of a transaction, the time it began; `newest` is the latest message
  and `marked` the room's `last_message_at`.
* `ChatHub`: a channel's only sender lives in the hub, so that overwriting or
  removing an entry closes the channel (`Drained`). One select! branch runs at a time, with its
  awaits (`phase`) in it. A client names the room and the message in what it sends, and nobody asks whether it is a
  member: it may mark a message of another room, its own, or an id that no message has (`Unknown`), and the UPDATE
  that matches no row (`Marked` is empty) is followed by a receipt all the same. Others learn of it only when the
  client is a member (`Others`). `shown` records the confirmations a connection's client was sent; other events
  reach a client through the channel alone, and the properties speak of them there. `Deaf` are the connections whose
  client may stop reading while it stays connected; sends to them need not end (`Reads`).
* `RateLimit`: `ts` is read once, on arrival; DELETE and the cleanup use it or the
  clock of their own time.
* `PublicChat`: a session is a dict object, and a handler keeps the object that it
  looked up though the table may have dropped it. One client address is modelled. Its list of times is a set of
  pairs, time and number among the requests of that time: pruning goes by the time alone, and the length of the
  list is the size of the set (`RequestsAreNew`). Names are kept apart from those of `Directory`, so that one module can hold the proofs about
  both.
* `Directory`: an answer is the question it was worked out for and the time of its
  first SELECT. Eviction picks any of the entries that expire first.

## 3. Runs

Every run ends in a few minutes with two workers; the longest (`refresh`, `accounts`,
`portal_records`, `chat_live`) take one and a half to three. "Violation" runs check a statement the repository makes that the
code does not keep.

| Run | Shows |
|---|---|
| `refresh` | `KeepsSessions` (refinement of `Sessions`), `ParentRevoked`, `SerialFamilyOneLive`, `ClosedStaysDead`, `RevokedForever`: sessions are sound except for forks by overlapping writers |
| `refresh_closed` (violation) | a rotation in flight during logout leaves a live token |
| `documents` | `KeepsDocuments` (refinement of `DocumentStore`), `RowHasFile`, `TempAccounted`, `StoreAccounted`, `OneUnlinker`: only named exits and removals that failed leave files behind, and only an INSERT with a lost acknowledgement leaves a row without its file |
| `applications` | `NoDuplicates`, `ApplicantsPromoted`, `StudentEditsDraft`, `DateKept`, `ChangeIsMailed`: each holds but for updates whose reads were overtaken, creations that checked together, promotions that were lost. A change of status waits for its mail in the hands of its handler, and only an early end of that handler loses it |
| `applications_status` (violation) | a student's update undoes an agent's change of status |
| `accounts` | `InsertedOnce` (a retry of a registration that answered an error makes no second account), `ActiveMatchesStatus`, `ActsOnCurrentRow`, `LoggedIsDone`, `DoneIsLogged`, and of the lists `WalkMissesNothing`, `TotalCoversPage` |
| `chat` | `ShownIsSaved`, `ReceiptIsTrue` (of a message of the room by somebody else; a receipt of any other id says nothing), `EntryIsLive` |
| `chat_live` | `DisplacedEnds` (of clients that read or are gone), `GoneIsRemoved`, under fairness |
| `rate_limit` | `KeepsWindow` (refinement of `SlidingWindow`), `RefusalIsEarned`, `RecentIsLogged` |
| `public_chat` | `QuestionsBounded`, `RateKept`, `CountedInSession`, `SessionsExpire` |
| `portal_records` | `ListWhole`, `OnlyRacesExceed` (slots, stages, rooms, `last_message_at`), `StepKept`, `CompletionDateKept` |
| `directory` | `ShelfLife`, `CacheBounded` |

The type invariant of a module is no property of a run but a theorem: `TypeCorrect`, in `DocumentsProofs` a part of
`RowsHaveFiles`, and for the chatbot `ChatTypeCorrect`, with its law that a session's history is twice its count of questions, up to six.

### Bounds, and why they are enough

* **Two handlers** (`Reqs`) everywhere but in `RateLimit` (five requests, at most
  two in flight): the races of the code are between two handlers over one row. In
  `RateLimit` a third request is needed to see the window overfull.
* `refresh`: two families, two users, three rows, three ticks, `TTL` = `Leeway` = 1: a
  rotation overlaps a rotation, a reuse, a logout; tokens expire in the table and
  in the JWT; two are minted in one second.
* `documents`: three documents, two students: an upload overlaps a delete, and two
  deletes and a review meet.
* `applications`: two applications, one student, one agent, one administrator, two courses;
  `Wishes` is the one status asked for (`"submitted"`), `"draft"` and `"Applied"` come from creation.
* `accounts`: two students' addresses, of which none, one or both are registered at the start; two
  agents, one hired at the start; two passwords; two requests, each served once, so that they
  race, or one follows the other as its retry. `MaxRows` = 2, pages of one row, and `Word` = 8: large enough that the
  offset does not wrap, which is what `ListConstants` asks of the real 2^32 as well.
* `chat`: a student with two connections and an agent with one; two rooms, of which the student is in one, so that a
  message may be sent from outside its room and be marked read under the wrong one; one message and one unknown id;
  and one queued event at most when a client marks read (`MaxQueue`). Neither room is active, so that presence
  events, of which these properties say nothing, do not multiply the states.
* `chat_live`: one room, which is active, and receipts of the unknown id; a connection of the student may be deaf. There
  are no messages: neither property depends on them and the liveness graph stays small.
* `rate_limit`: limits 1 and 2, window 1, purge age 2, clock to 3. The slack in
  `KeepsWindow` is tight: with one less TLC finds a counterexample.
* `public_chat`: one worker (workers share nothing), one session id and two dicts so
  that a dict can outlive its entry, two questions, three requests a window, clock to 3.
* `portal_records`: lists of two (a first entry and a last), a slot for one, two rows, two messages.
* `directory`: one university and two spellings of a prefix on two keys, of which
  the cache holds one; `TTL` = `Delay` = 1, clock to 4.

The clock stops at `MaxTime` in every module, and rows are bounded by the sets
`Ids`, `Names`, `Apps`, `Rows` and by `MaxRooms` and `MaxRows`. Deadlock is checked except where a
bounded instance really comes to rest; the configuration says so.

### Fairness

Safety runs use `Init /\ [][Next]_vars`. `ChatHub!FairSpec` assumes what tokio
gives: a task that can run is polled (`WF` of the steps inside a branch, `Polled`), and
`select!` picks at random among the branches that are ready, so a branch that is ready again and
again is taken (`SF` of the branch that receives from the channel, `Deliver` or `Drained`, and of `Tick`). Of queries it
assumes that they are answered or fail, which is an assumption about PostgreSQL: the code sets no time limit. Of
`socket.send(..).await` (`handler.rs:65`, `97`, `196`) it assumes that it ends when the client reads or, the client
being gone, with an error of TCP: no send has a time limit, so a client that stays connected and does not read can
hold up its task for as long as it likes. This is the conjunct `Reads`, and `DisplacedEnds` promises the end of a
displaced task to clients that read or are gone, and to no others. `PublicChat` assumes `WF` of `Cleanup`: it is a loop of the event loop with
a sleep, and its body raises nothing.

## 4. Divergences found

1. *Logout races rotation* (`refresh_closed`). `auth.rs` checks, revokes and inserts in
   three statements; a logout between the last two leaves the new row live although
   the documents say later refreshes are blocked.
2. *A student's update writes back an old status* (`applications_status`).
   `update_application` writes every column from a row it read before; the comment at
   `applications.rs:222` says that the status remains unchanged.

Seen while reading and not turned into runs:

* a connection that closes unregisters the user, whoever is registered by then
  (`handler.rs:204`): after a reload of the page the user may have a connection that the hub does not
  know. No document promises otherwise; `EntryIsLive` and `DisplacedEnds` state what holds;
* registration answers an error after it has inserted the student, since `RETURNING` leaves out
  the column `status` (`db_auth_service.rs:38`). The statements that follow, the welcome mail among them, never run, and
  no registration is in the audit trail; the client can log in all the same (`Decodes`, `InsertedOnce`);
* the guards of an access token never ask whether the account is still active, so a
  deactivated student acts until the token expires, though
  `docs/phase2_implementation_summary.md:27` speaks of active accounts (`CallerExists`);
* `update_agent` deactivates an agent and leaves `is_online`, which only an active agent can change;
* a walk over a filtered list may skip a row when another leaves the list (`left`);
* of two messages whose transactions overlap, the older may commit last and set `last_message_at` back
  (`OnlyRacesExceed`);
* the cache key of an autocompletion is stripped while its query is not (`universities.py:224`), so
  two different questions share an answer (`ShelfLife` states the weaker fact that holds);
* a document that is verified between check and delete is deleted (`documents.rs:336`);
* a `remove_file` that fails is ignored (`documents.rs:162` to `237`, `256`, `350`), and the file stays with nothing that refers
  to it (`RemoveTemporary`, `RemoveStored`);
* a handler that ends between the commit of an update and the comparison at `applications.rs:241`, when the client
  hangs up or the acknowledgement of the UPDATE is lost, leaves a change of status that nobody mails (`ChangeIsMailed`
  says that no handler that answers does);
* a receipt is relayed on `Ok(_)` (`handler.rs:140`) and an UPDATE of no row is `Ok`: the other member is told that a
  message was read which is of another room, the reader's own, or none;
* no member of a room is asked for: whoever knows the id of a room can save a message in it (`SendMessage`);
* a connected client that does not read holds up its task, heartbeat included (`handler.rs:65`, `97`, `196`);
* the repository's `README.md:8` speaks of 20 requests per 10 minutes and IP; the lists of times are per worker, and
  `start.sh:5` starts three, so that an address may come to three times the limit (`RateKept` is per worker);
* `docs/student_portal_backend_plan.md:736` has all mutations of admins logged to the audit table; a hang-up, a
  failing INSERT or the end of the process loses the row (`DoneIsLogged` names these exits).

## 5. Proofs

The theorems hold for any sets of users, rows, handlers, connections and questions and
any clock bound (the handlers of the chatbot are any finite number); they use only the named assumptions of the constants (numbers are naturals,
the null value is in no other set, functions between the sets are well typed). What each
listed theorem states is in `PROJECT.json` under `theorems`; here is what the proofs rest on.

`RefreshTokensProofs`:

* `TypeCorrect`: `TypeOK` is strengthened with `HandlerOK` (a handler that has passed its
  SELECT holds a row that is present, and one that is about to insert holds a revoked one). `StepIsTableStep` shows that
  every action does one of few things to the table; everything after it is about those.
* `RevocationIsFinal`: the action property, from the same lemma.
* `RotationRevokesParent`: needs the order of statements (`HandlerOK`'s "insert" holds a revoked row)
  and that revocation is final.
* `FamilyOwnership`: needs that a login takes a family without rows and that a
  rotation keeps the owner (`RotationMints`).
* `ClientsHoldKnownTokens`: strengthened with `ReplyKnown`, since a token is in the table before it is in a reply.
* `SerialSessions`, `ClosedFamiliesStayDead`: the strengthening `SessionInv` speaks of a family's writers:
  outside `raced` a family has at most one writer, and a family whose writer is about to
  insert has no live row.
* `SessionsAreImplemented`: every statement is a step of `Sessions` or a stutter, from `SessionInv` and the
  ownership of families.

`DocumentsProofs`: `Inv` says for each phase which of temporary file, final file and row exist and that
two handlers never share a name while uploading or unlinking; from it follow `RowsHaveFiles` and
`DeletesAreExclusive`, and, since a handler that answers for a file passes it on or removes it,
`TemporaryFilesAccounted` and `StoredFilesAccounted`, which except only what an early end or a failed removal left. `StoreIsImplemented` takes the steps one by one: an INSERT
lists a document that is open and has its file, since the row of a file name that two handlers never share is
absent until then (`Apart`, `OpenLeaves`, `OpenStays`); a delete unlinks after it has removed the row, and what an upload unlinks is either not listed or
doubtful, so that every loss of a file is a `Clear`.

`ApplicationsProofs`: `HandlerOK` says what a handler holds in each phase. `DuplicatesAreRaced` needs
`CreatorOK`: what a creation has looked for stays absent until another creation looks for the
same, or is noted as unchecked. `ApplicantsArePromoted` is inductive with the types.
`StudentsEditDrafts` and `SubmissionDatesAreKept` follow from `Snapshot`: until an UPDATE
overtakes it, what a handler has read is the row. `ChangesAreMailed` takes one more step: `Owing` says that the handler
of a change that is owed a mail stands at `wrote` with a row whose status is not the one it saw first, since
its first read was the row (`Snapshot`) and the row it was returned is the one it wrote.

`AccountsProofs`: `Standing` ties where a request stands to what it has committed and what is on
record of it, and with it `RecordIsTrue` and `RecordIsKept` are inductive. `RegistrationIsUnique` needs
`Insertions` (a committed insertion is the account's, and its password, unless it was changed), `CredentialsHold` needs
`Trusted` (a handler about to act on a password has verified the one the account has). `WalkInv` is the
argument for the lists, of all students or of the active ones: as long as nobody leaves, rows are only inserted, so that what has not been shown is beyond the
current page and the page begins within the list. `ListMovesOn` says how a step moves the list: the places that were listed map to places
that are listed, in the same order and onto the same students (`OrderMoves`), and a map of this kind never lowers a
row's number (`RowsMoveOn`, by the injection it makes between the rows up to a place). `RowsOfPage` says what a page shows: since row numbers are one to one
and onto `1 .. Cardinality(rows)` (`RowInjective`, `RowOnto`), a full page shows `PageSize` rows and a page that is not full ends the
list. Since `MaxRows + PageSize < Word`, the offset never wraps. `WalksMissNothing` and
`TotalsCoverPages` follow.

`PortalRecordsProofs`: `FillInv` says of a list that it is filled from the front and, while it is
short, that somebody stands at its end or was broken off there. `ExcessIsRaced` has one invariant per
table: while nobody raced, one handler at most is between check and write, and what it saw still
holds. `DatesAreKept` is `DateOK`: what a handler with a current row will write keeps the row's date.

`RateLimitProofs`: the refinement is an inequality for each window. While the window may still be counted, the
requests let through in it and those past the COUNT number at most the limit and the
requests in flight less one. Once the clock has left it its rows may be deleted, but nobody arrives in it any more, so
those let through and those in flight number at most the limit and twice the requests in flight
less one. `RefusalsAreEarned` needs that the rows a COUNT sees are of requests let through, and
`RecentRowsAreKept` that no cleanup reaches into the window.

`ChatHubProofs`:

* `EntriesAreLive`: `EntryIsLive` is inductive with `TypeOK`. `End` removes the entry of the user,
  whoever is registered, so an entry that survives it is another user's (`EndLive`).
* `MessagesAreSaved`, `ReceiptsAreTrue`: not inductive alone, since a step that sends takes the
  message from the task's hands. `WorkTrue` says that what a task holds between its commit and its
  last send is in the table under its user and room (`Sent`), or marked as far as the UPDATE would have it (`Noted`, which
  says nothing of an id that no message has); `GrowStep` says that no row is lost or rewritten and nothing becomes
  unread, so what was true of an event stays true however long it is queued (`TruthKept`); `EventStep` says that a step
  adds only events that `WorkTrue` vouches for, and a receipt only to the channel of the other member (`SendToEvents`).
* `DisplacedTasksFade`, `VanishedClientsFade`: what `DisplacedEnds` and `GoneIsRemoved` rest on besides fairness. A
  displaced task never gets the hub back (`HubStep`) and its queue only shrinks (`QueueStep`); a vanished client is never
  heard, so that the second tick finds it silent.

`PythonSiteProofs`, the chatbot:

* `QuestionsAreBounded`: the invariant `DictOK` has a case for each kind of dict. One that no two handlers awaited together has been asked no
  more than the limit, the question under way included. For one that was shared, a handler goes past the
  test only while the count is below the limit, so that the count and the questions under way stay below the limit and the
  handlers together. The step that could break it takes a dict anew (`DictAsk`): a dict is taken
  from the garbage, which no handler holds.
* `RatesAreKept`: what was let through is a history that nobody prunes, the list of times is. `RatesOK` says that
  the list holds every request of the window that ends now, whatever has pruned it, and that no window so far was over the
  limit; a request passes when the list is below the limit, so the window that ends now is not over it either.
  `RequestsAreNew` shows that the count means something: a request that passes is not in the history yet.
* `QuestionsCountedInSession`: inductive with the types. A handler waits on a dict that is in its worker's table; only the
  cleanup of a dict that is too old parts the two, and one that is too old stays so (`StaysCounted`).
* `SessionsOnlyAge`: what `SessionsExpire` rests on besides fairness: no use renews a session, since a dict in the table
  is no garbage (`DictAges`).

`PythonSiteProofs`, the directory: `ShelfLife` speaks of the answer in a handler's hands; `Inv` dates where it
comes from: an entry expires before its answer is older than lifetime and one delay (`EntryOK`), and a
handler with an answer has had it for one delay at most (`HandlerOK`); `AnswersAreFresh` follows, and from it and the
types `CopiesAreFresh`, the same of what a step writes to a shortlist. `SizeIsKept`
counts: a `set` evicts as many entries as are above the limit, in the transaction of its INSERT.

Only model-checked: liveness (`DisplacedEnds`, `GoneIsRemoved`, `SessionsExpire`), which is out of the
prover's reach and stays with TLC. Every other property of a passing run is a theorem.

## 6. Plan

Written so far, in the order of importance: sessions, documents and rate limiter (each with its abstract
specification), applications, chat, public chatbot, check-then-write tables,
directory, accounts with the audit trail and the lists; and theorems about all of them.
What is left, first things first:

1. *Abstract specifications*: a mailbox that the hub and its channels implement; a register of accounts without phases.
2. *Model*: typing events in `ChatHub`; two workers in the run of `PublicChat`, which share nothing but the client's
   address; the UPDATE of an enquiry.

## 7. Files

`X.cfg` is checked with `MCX.tla`; `RefreshTokensClosed.cfg`, `ApplicationsStatus.cfg` and
`ChatHubLive.cfg` use the `MC` module of the name they begin with. `MCAccounts` extends `AdminLists`, which
extends `Accounts`. For example `tlc -config Documents.cfg MCDocuments`; `tlapm DocumentsProofs.tla`.

## 8. Not modelled, and why

* API keys, CORS, headers: functions of one request with no state. Of access tokens only what a valid one proves is
  in the models (`CallerExists`, and who may call in the guards of the other modules).
* Enquiries: the portal has one UPDATE of them that nothing else depends on. Dashboard counts, contacts, chat
  histories: reads. The lists of enquiries and of the audit trail are paged as `list_students` is, over other tables.
* The audit rows of requests on documents, applications and chat, and of requests that only read: the middleware treats
  them as it treats the requests of `Accounts`.
* The default administrator: one INSERT guarded by one SELECT at start-up, by one process.
* E-mail: pure I/O, sent from a spawned task whose failure nobody sees.
* Typing events: relayed to whoever is connected, kept nowhere.
* SQL of the directory's listings, prompts of the chatbot, HTTP calls to the models: data, abstracted to
  an answer that comes or fails. The directory's database is only read.
* Deployment files: only the number of workers and restarts matter here.
* Bodies of rows (notes, names, checklists): no property depends on them.
