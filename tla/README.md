# Formal model of the security platform

TLA+ modules, model-checking runs and machine-checked proofs for the contractor request platform
under `src/`: a FastAPI backend over PostgreSQL (`src/backend/app`) and a React client
(`src/frontend/src`). The office creates requests for work at facilities, each work type of a request
goes to the contractor responsible for it, contractors accept and report, and a generic workflow
engine keeps an instance beside every request. Everything interesting is in rows that several HTTP
handlers read and write, so the models are about those rows: what each handler reads, what it
checks, what it writes, and what happens when handlers follow each other in unusual orders or overlap.

Paths below are relative to `src/backend/app/` unless they start with `src/`.

## 1. Inventory

### The system's parts

| Part | State | Operations | What is hard about it |
|---|---|---|---|
| Contractor requests (`services/request_service.py`, `models/requests.py`, `api/v1/requests.py`) | request row (status, stamps), work types, one assignment per work type, history | create, patch, publish, change status, recalculation from assignments | two sources of the status (office, assignments); publishing again; a scope that changes while others publish |
| Contractor portal (`api/v1/contractor.py`) | uses the request's | accept all own assignments, report on one, work results | reports on requests that the office has ended; several contractors at once |
| Request workflow adapter (`services/contractor_request_workflow.py`) | the workflow instance that mirrors a request | seed definition, execute, record after a change, synchronize, verify, backfill | keeping two rows equal; changes with and without a transition code |
| Workflow engine (`services/workflow_engine.py`) | instances, executions, idempotency records, SLA timers, outbox | start, execute, record external, cancel, mark breached | retries, stale lock versions, timers of ended workflows |
| Workflow definitions (`services/workflow_definition_service.py`) | definitions, states, transitions, SLA policies | create, version, edit draft, publish, deactivate | drafts edited until published; versions in use |
| Contractor responsibility (`find_contractor_for_work_type`) | responsibility rows | search by facility, city, everywhere; priority | precedence of scopes |
| Comments and attachments (`services/comment_service.py`, `services/attachment_service.py`) | rows and stored files | create, edit, mark deleted, download | file before row; visibility; who the author is |
| Authentication (`services/auth_service.py`, `api/v1/auth.py`, `api/deps.py`) | users' lock fields, sessions in families | login, refresh, logout, change password, lock | rotation races, lost counter updates, locks with and without an end |
| Access control (`services/rbac_service.py`, `services/admin_service.py`, `api/v1/admin.py`, the contractor context of `api/deps.py`) | users, roles, permissions, memberships | seed, create, set type, roles, memberships, permissions | seeding on every request against edits; replacing rows that another call replaces |
| Password expiry, notifications (`scripts/check_password_expiry.py`, `services/notification_service.py`) | expiry marks, notifications | periodic check, read, resolve | marks that must be cleared by later changes |
| Reference data (`api/v1/reference_data.py`, `models/reference_data.py`) | cities, facilities, premises, contractors, work types, responsibilities | create, update, delete | deleting what is being referred to; references that are cleared silently |
| Connections, secrets, dashboard, audit, scripts | rows | independent create/read/update, read-only views | nothing that depends on order |
| Web client (`src/frontend/src/services/api.ts`) | one refresh in flight | retry after 401 | shared refresh, several tabs |

### How they interact

Every HTTP request is served in a thread with a database session of its own (`db/session.py:8`). A
handler checks permissions (`api/deps.py`), loads rows, changes them in memory and commits at its end (a
login, and every call that seeds roles first, also before it); when it raises, the session is closed and
what was not committed is lost. Requests call the workflow adapter, the adapter
calls the engine in the same transaction, and the engine writes executions, timers, outbox and audit
rows. No component calls back later and no message is consumed, the outbox has no reader. Components
meet in the database only.

### What makes each part correct

Requests:

- the workflow instance is where its request is, with the same end stamps;
- the request's status agrees with its assignments: completed only when everything is done, cancelled
  when everyone backed out, and then at rest;
- an assignment moves along its table, stays with its contractor and is not lost;
- no report closes a request or resumes a completed one at once; one that backs out of a completed request
  leaves a gap, and a request with a gap is open again;
- what is in the transition table is in the timeline;
- overlapping handlers do what some order of them would do, or at least never something worse.

The workflow engine:

- an instance moves along its definition's transitions, whoever calls and however calls overlap;
- a call under an idempotency key takes effect once, and its retry is answered with its own execution;
- a `lock_version` is good for one execution, timers that run are of the last execution, breaches are
  reported.

Workflow definitions: what is published is sound, stays as it is, and fits the instances that run on it.

Accounts: an administrator's lock stays, a lock for failed logins passes, a temporary password is good
for nothing but changing it, whoever is locked out has no session, a family has one.

Directory, access and portal: references hold through every deletion, deletions touch nothing else,
nobody is shut out by an edit of roles or memberships, contractors see what is shared with them, write in
their own name only, and every attachment has its file.

The hazards behind these properties are listed with their lines in `PROJECT.json` under `hazards`; those
that no property covers say why.

## 2. Modules

| Module | What it is |
|---|---|
| `RequestRules` | constant-free rules: statuses, both transition tables, permissions of each transition, `CanExecute`, and the functions that compute a request's status from its assignments |
| `RequestLifecycle` | one request, one action per handler, each handler atomic |
| `RequestConcurrency` | the same handlers as sessions that read step by step from a shared database and write back what they changed; instantiates `RequestLifecycle` as what a single thread implements |
| `WorkflowPromise` | what the engine promises about one instance: three actions |
| `WorkflowEngine` | the engine's rows and the sessions that call it; implements `WorkflowPromise` |
| `WorkflowDefinitions` | the versions of one workflow, edited, published, deactivated, seeded, and the instances on them |
| `AuthSessions` | one account: locks, password, sessions, and requests that overlap |
| `ReferenceData` | the directory's tables, writes in two steps, the search for a contractor |
| `AccessControl` | extends it with users, memberships, roles, and what a contractor's user may do |
| `ContractorPortal` | extends both with a request, its comments and attachments: the composed system |
| `MC...` | values for the constants of the runs |
| `RequestRules_proofs`, `RequestLifecycle_proofs`, `RequestConcurrency_proofs`, `WorkflowEngine_proofs`, `WorkflowDefinitions_proofs`, `AuthSessions_proofs`, `ContractorPortal_proofs` | theorems about the module of that name and those below it |
| `RequestRefinement_proofs` | that `RequestConcurrency` implements `RequestLifecycle` when handlers take turns |

### RequestLifecycle

`status`, `completedAt` and `closedAt` are columns of the request, stamps reduced to "null" or "set".
`workTypes` is the request's scope. `assignment` maps each work type to the status of its assignment or
`NoAssignment`: a unique constraint allows one assignment per request and work type
(`models/requests.py:151`). `contractorOf` is the assignment's contractor, `workResults` the work types
whose assignment has an active `WORK_RESULT` attachment. `instState`, `instCompletedAt` and
`instCancelledAt` are columns of the workflow instance, `timelineEnd` the target of its latest execution.
`responsibility` is what `find_contractor_for_work_type` would return; administrators change it at any
time.

A handler that raises commits nothing, so an action's guards are the conditions under which the handler
commits. `OfficeProfiles` is a set of permission sets: an office user holds any of them, which lets
the runs see the 403 paths (a user who may change the status but not close). Contractor users act for
any set of contractors, and their reports carry the fixed permissions of
`compatibility_permissions_for_actor`.

| Action | Handler |
|---|---|
| `CreateDraft`, `CreatePublished` | `POST /requests` with and without `save_as_draft` |
| `UpdateWorkTypes` | `PATCH /requests/{id}` with `work_type_ids` |
| `Publish` | `POST /requests/{id}/publish` |
| `ChangeStatus` | `POST /requests/{id}/status` |
| `AcceptRequest` | `POST /contractor/requests/{id}/accept` |
| `ReportAssignment` | `POST /contractor/assignments/{id}/status` |
| `UploadWorkResult`, `DeleteWorkResult` | attachments of category `WORK_RESULT` |
| `SetResponsibility` | edits of responsibilities and reference data, by their effect on the search |

`ExecuteTransition` is the office's path (check, then change, then synchronize), `RecordAfterChange` the
contractors' path (change, then check and record). They write the instance differently and the
properties below say that the results agree.

### RequestConcurrency

The database is PostgreSQL at READ COMMITTED with no `FOR UPDATE`; `lock_version` is a plain
column. So each SELECT sees the database of its moment, SQLAlchemy keeps the loaded copy for the rest
of the session, and an UPDATE sets only the columns that differ from the loaded copy. A session has
the steps `Begin…` (first SELECT and the checks on it), `ReadRequest`, `ReadScope`, `ReadInstance`, and a
commit action that computes from the copies and writes. `Flushed` merges request and instance columns into the
database row, `Saved` does so for assignments, `UniqueViolation` is the constraint that aborts the second
of two publishers. `contractorOf` is the contractor of each assignment, `responsibility` whom the directory names:
`SetResponsibility` changes it at any time, a publication keeps what it has read (`found`) until it commits, so
it can assign a work type that nobody had when a report loaded the assignments. `ActsFor` says whose users a session
serves; a contractor may have users in several. `overwritten` is history: the work types whose assignment a report
has written over a status that it had not loaded. `Abort` covers every exception, every refused constraint and a stopped server.

Flush and commit are one step: an UPDATE holds its row lock until commit, so no other session can see
or overwrite a flushed value in between. Work types, assignments and responsibilities are read in one step, and so
are work result and instance.

### WorkflowEngine and WorkflowPromise

One instance of one published definition. `instance` is its row, `executions` the rows of
`workflow_transition_executions`, `records` the idempotency records, `timer` the SLA timers, each named by
its policy and the execution that started it. `reports` counts the breach events in the outbox. `visited`
and `overlapped` are history.

| Action | Code |
|---|---|
| `BeginStart`, `CommitStart` | `start_workflow` |
| `BeginExecute`, `LoadTimers`, `CommitMove` | `execute_transition_with_callback` |
| `BeginRecord`, `LoadTimers`, `CommitMove` | `record_external_transition` |
| `BeginCancel`, `CommitCancel` | `cancel_workflow` |
| `BeginBreach`, `CommitBreach` | `mark_breached_sla_timers` |
| `Abort` | an exception, a constraint, a lost connection |

`ExecuteIsDue` holds the checks in the state they read, `KeyIsFree` the unique constraint on idempotency
records, `MovedTo` the columns that the UPDATE of a loaded instance sets. A retry is a client that calls
again with the same key, version and payload after a commit whose answer it never saw. It needs no
action of its own: any call may be made at any time, and one whose key is on record changes nothing.

`WorkflowPromise` knows a position, the states it has been in, and which transition has been accepted
under which key. It lets a step leave from any state visited, and not only from the present one, because two
overlapping sessions may both start from a state that only one of them finds at its commit: `lock_version` is
compared when the instance is loaded and never again. That is all that is promised with overlap.

### WorkflowDefinitions

`definition` is the sequence of versions. A version has its flags, its state codes with the initial and
the active ones, and its transitions as a function from codes to edges. `instance` maps a version and an
entity to the instance's state. A change (`Change`) is a payload as the API accepts it: `Fits` holds the
checks, `Changed` the rows after it. `BeginChange` and `CommitChange` are every edit, `publish` and
`deactivate`; `BeginVersion` and `CommitVersion` are `create_workflow_definition` and
`create_workflow_version`; `BeginSeed` and `CommitSeed` seed version 1. `StartWorkflow`, `EnsureInstance`,
`Execute` and `Synchronize` are the ways an instance comes to be and moves, here in one step each.
`Reachable` is the least closed set, which is what the breadth-first search of the code computes.

### AuthSessions

`user` is one row of users, with times reduced to "none", "future", "past". `sessions` are the
auth sessions that are neither revoked nor expired: nothing finds the others. `request` holds what each
request is about to write. A `Begin...` action loads, checks and computes. `CommitUser` writes the
columns that differ from those loaded, `CommitSession` ends a session and inserts another. A login commits
twice. `LockTimePasses`, `PasswordTimePasses` and `SessionTimePasses` are time.

`barred` and `ousted` remember administrators' locks and revocations. `overlapped` becomes true
when a request commits on what another had changed, `late` marks a session that was opened so.

### ReferenceData, AccessControl, ContractorPortal

Three layers of one system, over the same sessions. `rows` is the directory: a row is a record of all the
references that any table has, `None` where it has none. A write checks in one step (`Begin...`) and
commits in another. A commit fails on the database's constraints: foreign keys that restrict,
`uq_contractor_responsibility_scope`, which NULLs escape, and columns that must not be NULL. The ORM
clears a nullable reference to a row that it deletes (`Cleared`).

`users` and `roles` carry memberships and permissions. `Seeded` is what every authenticated call does
first, in a transaction of its own. Replacing roles, memberships or permissions deletes the rows it sees
and inserts others: rows that another session commits in between are `spared`.

`request`, `assignments`, `comments`, `attachments`, `files` and `events` are one request's. An upload
takes an id, stores its file (`StoreFile`) and inserts the row last. `events` are the
history rows that contractors may read, `shown` what they have been shown. `Context` is
`require_contractor_permission`, `ActsAs` the choice of `get_owned_request`, `Authors` those in whose name a
call may be made. `Responsible` is `find_contractor_for_work_type`, used by `BeginPublish`: three queries, each asked
only when the ones before it have found nothing. `Nearest` says in one definition over all responsibilities what the
search is to find, and `PublicationsAskTheNearest` that publications go by it.

| Action | Handler |
|---|---|
| `BeginCreate`, `BeginUpdate`, `BeginDelete` with `CommitSave`, `CommitDelete` | `POST`, `PATCH`, `DELETE` of the six tables |
| `BeginCreateUser`, `BeginSetType`, `BeginSetActive` with `CommitCreateUser`, `CommitSetUser` | users |
| `BeginSetRoles`, `BeginSetMemberships`, `BeginSetPermissions` with `CommitReplace` | what is replaced as a whole |
| `BeginSetRole` with `CommitSetRole` | custom roles, created, activated, deactivated |
| `Seed` | `seed_rbac` in calls that only read |
| `BeginDraft`, `BeginPublish` with their commits | `POST /requests`, `POST /requests/{id}/publish` |
| `BeginComment`, `BeginEditComment`, `BeginDeleteComment` with their commits | comments of both sides |
| `BeginUpload`, `StoreFile`, `CommitUpload`, `BeginDeleteAttachment`, `CommitDeleteAttachment` | attachments of both sides |
| `Browse` | the contractor's lists, download and history |

## 3. Runs

The state spaces are finite and explored completely, no constraint cuts them off. Sizes of constants bound
rows, keys and sessions; where a counter would grow for ever, a guard names its bound: `MaxMoves`,
`MaxVersion`, `MaxChange`, `MaxAttempts`, `MaxCalls`.

| Run | Instance | Shows |
|---|---|---|
| `lifecycle` | 2 work types, 2 contractors, 3 office profiles, work results required; symmetric; 24 429 states | ten properties of the atomic handlers |
| `serial` | 1 session that does everything, responsibilities change; 532 600 states | `HandlersAreAtomic`: reading in steps and writing changed columns refines `RequestLifecycle` |
| `overlap` | 2 sessions, each publishes, changes responsibilities and reports for the same contractor; symmetric; 1 566 794 states | `ReportedEndsAreReal`, `OnlyOverwritesAreIllegal`, `ProgressIsKept` |
| `office` | 2 office sessions that change the status; 115 749 states | `StatesAgree` |
| `engine` | 2 sessions, 1 key, 3 transitions, 1 policy, 2 moves; 903 660 states | keys and lock versions are good once, timers and breaches, and `KeepsItsPromise`, the refinement of `WorkflowPromise` |
| `definitions` | 2 sessions, 2 state codes, 1 transition, 2 versions, 4 changes; 359 566 states | what is published is sound, stays, and fits its instances |
| `accounts` | 2 requests at once, 2 sessions, 2 families; 2 233 728 states | administrators' locks, temporary passwords, revocation, families |
| `unlocking` | 1 request at a time under `FairSpec`, passwords age; 32 830 states | `LockPasses`, a liveness property |
| `portal` | 2 sessions, 3 calls, 2 contractors, 2 users, 2 responsibilities, 2 comments, 1 attachment; 1 093 830 states | references, authorship, visibility and files of the composed system, and that publications ask the contractors whose responsibility is nearest |
| `final_status`, `stale_move`, `all_done` | as above | disagreements, see section 5 |

### Why the bounds are enough

Two work types and two contractors are enough for every distinction that the rules make: all or some
work types unassigned, all or some assignments cancelled, done or open, a contractor with none, one or
both of them. A third work type adds combinations but no case of `Recalculated`; the proofs cover any number.
Two sessions are enough for lost updates and write skew, each of which needs one stale copy. In `overlap` both serve
one contractor, so that two of its users report on one assignment at once; the second work type's assignment comes
and stays ASSIGNED, as its contractor is not served, and its responsibility comes and goes. With the second contractor
served as well the instance has several million states. Reports of two contractors at once are in `all_done`, and the
three properties are theorems for any contractors and sessions.

`engine`: with two moves an instance starts, moves and moves again, so a timer can be of the last execution
or of an earlier one and a lock version can be old. Two sessions may load the same version, a retry of the first
move may come after the second. The definition has a transition that returns to its own state,
one that a clerk may not execute, and one that needs no comment.

`definitions`: four changes, each of which may be a commit of the seed, suffice to create a draft, give it
two states and a transition, or to seed, clone, edit and publish the clone. A draft has two initial states
after three changes (an initial one that is inactive, another, and the first switched on). Two
versions are needed for a clone and for two sessions that claim the same number.

`accounts`: with two failures the second failed login locks, so that a lock, an administrator's lock
over it, and a counter that two failed logins increment from the same value all happen. `unlocking` has three,
and a password that expires. Two sessions in two families let one refresh race another, and let a
login open a session while the other is revoked.

`portal`: with three writing calls, two of them at once, a third can come before, between or after: delete
a contractor while a responsibility for it is created, publish after a membership has changed and comment
on it, delete the comment's contractor while the comment is written. Calls that only read (`Seed`,
`Browse`) are not counted. Roles are as few as tell the cases apart. The search for a
contractor has one responsibility that is for the city and may become one for the facility, and another that is for
everywhere or for the same city with a higher priority, so that both the order of the queries and the order within one
decide who is asked.

### Where properties stop

`StatesAgree` is about handlers that go through the engine with
a code; with two contractors instead of two office users it fails, because a change without code is
synchronized from a stale copy. `AssignmentsMoveLegally` fails when two users of one contractor report at once:
run `stale_move` is that schedule. What holds with them is `OnlyOverwritesAreIllegal`, and `AssignmentsMoveLegally` itself
as long as the handlers of each single contractor exclude one another (`AssignmentsMoveInTurn`).

`ReportedEndsAreReal` makes two exceptions, because the code does wrong in both. An assignment that a report has
overwritten (`overwritten`) is one. The other is an assignment made since the report loaded the rest: a report that cancels
the assignment of w1, the only one, has loaded it; an administrator names a contractor for w2; the office publishes again and
commits w2 as ASSIGNED; the report commits, and the request is CANCELLED with an open assignment. Everything else that a report says about the end of a request is so in the database.

`ReportsReopenOnlyGaps` allows what two reports can do to a completed request. The office may complete a request
whose assignments are open. When a contractor then cancels one of two, the request becomes
PARTIALLY_ASSIGNED, a change without a code that needs no permission and leaves no timeline row, and accepting the other
makes it IN_PROGRESS. The permission to reopen guards the direct way only.

A draft without work types can leave the draft through the status endpoint, which, unlike publishing, does not check it
(`request_service.py:403`): `RequestLifecycle` has the step, no property denies it.

`ProgressIsKept` assumes that nobody
edits the scope: an edit that began on a draft deletes the assignments that it has loaded. None of them
is asserted for those instances. Office status changes beside reports are not in `overlap`, which they
would make too large; the theorems about its properties include them. That all of these limits are due to
overlapping is proved: handlers in turn have none of them (`NothingLostInTurn`, `StatesAgreeInTurn`).

Several properties of `WorkflowEngine`, `WorkflowDefinitions` and `AuthSessions` say "unless calls have
overlapped". `overlapped` becomes true in the commit of a call that had loaded a row which another call has
changed since, and then stays so. Up to that commit the calls may be interleaved in any way. After it, the code
promises less: nothing compares `lock_version` again at the commit, nothing keeps two edits of a draft
apart, and a failed login writes the lock it has computed over an administrator's. `OneExecutionPerKey`,
`RetriesGetTheirExecution`, `KeepsItsPromise` and the type invariants hold with overlap too, and
`LockedOutHasNoSession` and `OneSessionPerFamily` except for the sessions marked `late`.

### Fairness and liveness

`unlocking` checks `LockPasses` under `Fairness`, which has three parts. Time passes: a lock with an
end reaches it (weak fairness of `LockTimePasses`). A request that has begun ends, in a commit or
in an error (weak fairness of `Commit(r) \/ Abort(r)`), which the server's threads and the database's timeouts give. And the user keeps
trying, while not every try is rolled back (strong fairness of `BeginLogin` and of `CommitLogin`). Strong,
because other requests come and go between the tries and switch them off and on again. That is an
assumption about the user, and the property is meant so: who keeps trying gets in. Nothing is assumed of the
administrator.

No other run states fairness. A request waits for people, an instance for calls, a draft for its author; what
a stuck request looks like is stated as safety (`AllDoneIsCompleted`).

Deadlock is checked in all runs but three. In `engine` an instance that has ended stays as it is; in
`definitions` and `portal` the bound on changes or calls is reached.

## 4. Proofs

All for any values of the constants; the assumptions are the named ones of the modules, which TLC evaluates
in every run. Those about requests hold for any sets of work types and contractors, any office profiles and
both values of `RequireWorkResult`.

`RequestRules_proofs`. `TransitionTablesAgree`: a pair of statuses has a transition code exactly when the
service's table allows it, the fact that lets the office path be one path. Lemmas give the range of
`Recalculated`, when it is COMPLETED and when CANCELLED, and which transitions a contractor's permissions open.

`RequestLifecycle_proofs`. Every safety property of run `lifecycle` is a theorem. `IInv` is the
conjunction of the type invariant and the invariants of the run. They are not inductive one by one: that
the instance mirrors the request is what makes the engine accept a coded transition and what makes its
stamps come out equal; that assignments fit the scope is what makes a draft's synchronization right
and shows that an abandoned request is not a draft; that an abandoned request is cancelled is what freezes
it, because the two final statuses refuse the office, and cancelled assignments refuse the contractors.
`NextKeeps` has one step per action; under each, one per conjunct that the action can disturb. The action
properties (`CompletionAlwaysEarned`, `ReportsOnlyReopenGaps`, `AbandonedStaysFrozen`,
`AssignmentsAlwaysKept`, `CodedChangesAlwaysRecorded`) follow from `IInv` in the state before the step.

`RequestConcurrency_proofs`, for any number of sessions besides. The steps are proved to keep three
invariants:

- `Base`, which needs no assumption on the handlers: types, that nobody is at work on a request that does not
  exist, and that what a session was asked for was legal for the row it loaded first (`Asked`). It gives
  `OverlapTypeCorrect`, `ProgressIsKeptWithoutEdits`, and with `ThroughTheEngineOnly`
  `StatesAgreeThroughTheEngine`, where `TransitionTablesAgree` shows that every accepted status change
  has a code and so passes the engine's check of the instance. `OnlyOverwritesMoveIllegally` follows from `Asked`:
  a move is legal for the copy, so it is legal for the row or the row is not what was loaded.
- `Copies`, which relates what sessions have loaded to the database, for any sharing of contractors
  between sessions. `Fresh` says which copies are still right at the commit: those of assignments
  that have ended, because the table has no way out, unless they have been overwritten; and the work types, because
  nobody edits them. `ReportedEndsAreRealWithoutEdits` follows: a report ends the request only on copies
  of ended assignments.
- `OwnCopies`, which adds that a session's copies of the assignments it may write are those of the database. It needs
  `OnePerContractor`, that no contractor has two handlers at work at once, and gives `AssignmentsMoveInTurn`.

`NoEdits`, `ThroughTheEngineOnly` and `[]OnePerContractor` are hypotheses of the theorems, not assumptions of the
module: the code does not enforce them, and section 3 says what happens without them. Run `overlap` is an
instance of `NoEdits`, `office` one of `ThroughTheEngineOnly`; `[]OnePerContractor` restricts schedules, and run
`stale_move` has one outside it.

`WorkflowEngine_proofs`, for any definition, policies, actors, keys and number of sessions. `IInv` has the
types (`Typed`), what the rows are on their own (`Placed`: the instance is in a state it has visited, nothing
comes before the start, no timer before its execution), what a session has loaded beside what is there now
(`Follows`: a move leaves a visited state by a transition from there and carries the version it was asked for; without
overlap no loaded version is ahead, and a copy that is still right has seen every active timer), and the five
invariants of the run. `ChangesAreRecorded` and the refinement `EngineKeepsItsPromise` follow step by step: a commit is
a start, an acceptance or a cancellation of `WorkflowPromise`, whatever had been loaded, and everything else stutters.

`WorkflowDefinitions_proofs`, for any codes, seeded definition, number of sessions and versions. `IInv` adds to
the invariants that what a session is about to write was allowed on what it has loaded and that the rows it
refers to are there still (`Checked`): no row of a definition is ever removed. One lemma says what any commit keeps
(`CommitKeeps`), the lemmas for changes, versions and seeding each show that theirs is such a commit.
`PublishableIsSound` relates the code's search to the property: what the least closed set
covers, no smaller closed set does.

`AuthSessions_proofs`, for any number of requests, sessions and attempts. An account's safety depends on
what requests will do with what they have read, so `IInv` says it in advance: `Fine` is what a user's row must be,
`UserCallsAreFine` that a request which is not overtaken will make such a row, `SessionCallsAreFine` what it
will insert. Two facts that no run needs strengthen the invariants: a lock for failed logins has an end
(`LocksPass`), and an account whose sessions were revoked is locked still (`OustedIsLocked`).

`ContractorPortal_proofs` covers `ReferenceData`, `AccessControl` and `ContractorPortal` together, for any
directory, users, roles, request and number of sessions and calls. Its `IInv` says of every call under way
what it has checked, in two parts: `Firm` is what no other call can undo (a comment that is there stays
there, an assignment keeps its contractor), and `Current` what holds only until another call commits and
marks this one overtaken (that nothing refers to the row it deletes, that the user it makes a contractor's
has memberships). So a commit has to re-establish `Firm` for the other sessions and owes them nothing of
`Current`: `CommitKeepsSessions` proves that once, and each action's lemma only says what it leaves
(`Leaves`). Besides, an event has the visibility of its item (`EventsTell`), which is what makes the history
show the same as the lists, and no two uploads are of the same attachment (`UploadsDiffer`). References hold
because a commit checks them again, by foreign keys: `RowsOnly` needs no more than that what other tables
hold is still there. `DeletionsAreLocal` does need the earlier check, through `Current`. The assumption for
it all besides those on the start is that `None` is no row.

`DirectoryTypeOK` is also what the search for a contractor needs. `ResponsibleAreTheNearest` shows that the three
queries come out at the nearest responsibilities: a level is asked exactly when nothing reaches less far.
`SomeoneIsNearest` takes a least reach and at it a least priority, both by the well-foundedness of the natural
numbers, so nobody is left out for whom a responsibility applies. `TheNearestIsResponsible` puts the two together for
every reachable directory, and `NearestAreAsked` carries them over to the step in which a publication begins.

`RequestRefinement_proofs` shows that `RequestConcurrency` implements `RequestLifecycle`, for any number of
sessions, work types and contractors. The mapping is the one of the run, columns to variables. Loads and rollbacks are stuttering, the commit is the whole handler. The module
instantiates the *proofs* about `RequestLifecycle` with the same mapping, because a commit relies on what
the atomic handlers keep (that the instance mirrors the request is what lets the engine accept a coded
change): `Lifecycle!NextKeeps` then yields the abstract invariant after each step, once the step is shown to
be an abstract one. The inductive invariant `InTurn` has five parts:

- `Base`, from `RequestConcurrency_proofs`;
- `Accurate`, for every session: what it has loaded so far is still what the database has, and what it was let
  in for (a request that is not closed, a draft, a work result) still holds;
- `ResultsOfAssignments` and `ContractorsOfAssignments`: work results and contractors hang on assignments, without which a
  draft's edit would not be the atomic one;
- that nothing has been overwritten;
- the invariant of `RequestLifecycle` itself, in the mapped state.

The theorem has two hypotheses, about the schedule and not about the data. `OneAtATime`: no two handlers are at work
at once. `ReadingsStay`: while one is, nobody deletes a work result, where they are required, and nobody changes
a responsibility. Those changes have a single step in the model and so are not excluded by the first.
`[]OneAtATime` and `[][ReadingsStay]_vars` are satisfied by many behaviours of any number of sessions: conjoining
`OneAtATime'` and `ReadingsStay` to `Next` with two sessions that do everything for both contractors leaves 1 043 608
states, in all of which TLC finds `HandlersAreAtomic` and the properties of `NothingLostInTurn` and `StatesAgreeInTurn` to hold;
with either one left out it finds a counterexample. They are the hazards at
`services/request_service.py:366` and `:477`, which the code does nothing against.
With one session both hold by themselves (`OneThreadTakesTurns`), which gives `OneThreadIsAtomic`, the run
`serial` for every instance.

What the database keeps in turn follows: `StatesAgreeInTurn`, `NothingLostInTurn` and `AllDoneIsCompletedInTurn`.
The first two need none of the assumptions that overlapping handlers need (`ThroughTheEngineOnly`, `NoEdits`, `OnePerContractor`).
The third is the property that run `all_done` refutes: overlap is what breaks it. It is stated for offices that only
edit, since a status change or a second publication may reopen a completed request by design.

Only model-checked: `LockPasses`, because TLAPS does not prove liveness under fairness. `FinalStatusIsFinal` does not
hold, with or without overlap; `AssignmentsMoveLegally` and `AllDoneIsCompleted` do not hold with it (section 5).
## 5. Where the code and what it says disagree

Each has a run whose counterexample is the schedule.

1. `final_status`. CLOSED and CANCELLED are final in both tables and in the refusals of publish and edit,
   but a contractor's report recalculates the status from the assignments in any status. After the
   office cancels a request with an accepted assignment, the next report makes it IN_PROGRESS.
2. `stale_move`. A move of an assignment is checked on the copy that the session has loaded, and two users of one
   contractor each have one. One cancels an assignment while the other accepts it: the acceptance commits last, takes the
   assignment out of CANCELLED, and the cancelled request is IN_PROGRESS again.
3. `all_done`. Two contractors who complete the last two assignments at once: both commit, both with
   IN_PROGRESS. Nothing recalculates again.

## 6. Not modelled

| Part | Why |
|---|---|
| External connections and secrets (`services/connection_service.py`, `services/secret_service.py`, `api/v1/connections.py`) | each row is created, read and updated on its own; encryption is a library's |
| Dashboard (`services/dashboard_service.py`) | read-only counts |
| Audit log (`services/audit_service.py`) | rows that are added in the same transaction as what they record, and that nothing reads back |
| Outbox | likewise, and no code consumes it; only the SLA breach events are counted, because they must not repeat |
| Migrations, seeds of demonstration data, `scripts/platform_doctor.py` | run once by an operator on a system at rest |
| Notifications, the warning before a password expires | texts and dates; the expiry itself is in `AuthSessions` |
| Web client | views; its retry after 401 is a caller of `refresh` like any other |

Left out of what is modelled:

- names, texts, order of rows, formats, dates except for being in the past or the future, and pagination;
- CSRF tokens and password hashes, which are compared and never change what a request may do later; logins through
  a directory, which are stubs in the code;
- SLA policies in drafts, permissions and configuration of transitions: `WorkflowEngine` has them as
  constants of a published definition;
- `requires_premise` of a work type: whether a request may be published with it depends on nothing else
  in the models;
- in `ContractorPortal`, assignments' statuses, the recalculation, and edits of a draft's scope, which drop
  assignments that nobody has written for yet: `RequestLifecycle` and `RequestConcurrency` have them.
