# AI-Council: formal model

TLA+ specifications of AI-Council, model-checked with TLC, with theorems that
TLAPS proves.  This file says what the system's parts are, which of them are
modelled and how, what each check shows, what is proved, and what is left.

The code is under `src/`; line numbers below are of the files there.
`PROJECT.json` maps every definition that stands for code to its lines, and
lists the runs, the mutants that show that each property can fail, the hazards
and the theorems.

## 1. The system

AI-Council turns a requirement into a reviewed plan of patches and commands.
A *Council* server lets several language models deliberate, a user approves the
resulting plan by its hash, and a *Runner* beside the workspace executes it.

| Component | State it keeps | Operations | Talks to |
|---|---|---|---|
| Council API, `transport/council/routes.go` | `API.tasks`, `nextID`, `workspaces`, one mutex | create, start, approve, reject, cancel, execute, reads; rebuild at start | database, council, Runner (gRPC) |
| Tables, `storage/sqlite` | tasks, approvals, events, executions, runs, artifacts | single statements and a few transactions | SQLite |
| Council engine, `council/` | none across calls; results of concurrent model calls | propose, review, judge, red team, build the plan | providers |
| Providers, `provider/` | metering | one HTTP call with retries | vendors |
| Runner service, `runner/grpc` | none of its own | ExecuteApprovedPlan, GetExecution, reads of the workspace | store, files, commands |
| Idempotency store, `runner/idempotency` | `running`, `done`, table of executions, one mutex | Get, Begin, release, Complete | SQLite |
| File transaction, `runner/files` | snapshots, in memory | Apply, Restore | file system |
| Task service, `app/task`, and run repository | tasks in memory, runs with a version, audit log | Create, Start, Approve, Execute; no binary wires it | database, council, Runner |
| Event stream, `sse.go` + `event_repository.go` | events with sequence numbers | append, resume after a number | database, web client |
| Desktop runtime, `desktop/`, `cmd/aicouncil-desktop` | runtime state, two child processes, a watcher | Start, WaitReady, Stop, child exit | processes, HTTP |
| RBAC, `security/rbac`, `auth.go`, `rbac_routes.go` | users, roles, permissions, tokens; failed and pending logins | administration, bootstrap, login, logout, the middleware | database |
| TLS reloader, pairing, secrets, metrics, artifacts | small | | |

What is hard:

* **Interleaving.**  `startTask` locks three times and reads the workspace,
  analyses and deliberates in between, unlocked; other starts, cancels and
  rejects run meanwhile.  gRPC calls of one request overlap.  Two transactions
  touch the same files.  The task service has no lock at all; logins and the
  middleware read row after row outside a transaction; the desktop's Stop is
  called by three goroutines.
* **Partial failure.**  A handler makes up to four database statements, each
  of which can fail; some errors are returned, some ignored.  Memory is changed
  before the row.
* **Crash and restart.**  Both servers can die between any two statements and
  rebuild their memory from the tables.
* **Retries.**  `execute` is repeated after a lost answer; the Runner tells a
  repeat from a first call by its request id.

What makes the parts correct: only a plan that the user approved, under exactly
its hash, is executed; an approval is used once; what was stored and shown never
changes; memory is only a cache; a request is executed once and answered with
its result; a failed plan leaves the workspace as it was; the judge hears every
review; who is let in was entitled; a client of the events misses none; no child
process is left; nothing hangs.

## 2. Modules

| Module | What it is |
|---|---|
| `ApprovalGate` | abstract: what the Council promises about approvals |
| `CouncilAPI` | the task handlers with the task, approval and event tables, failures, crashes, restart |
| `MCCouncilAPI` | its instances for TLC |
| `CouncilAPI_proofs` | types, the inductive invariant, plans and final states; that CouncilAPI implements ApprovalGate; what holds under every fault, unreadable rows included |
| `ExecutionLedger` | abstract: what the Runner promises about claims, executions and answers |
| `RunnerService` | ExecuteApprovedPlan with the idempotency store and the file transaction |
| `MCRunnerService` | its instances for TLC |
| `RunnerService_proofs` | types, claims, owners, answers and reports; that RunnerService implements ExecutionLedger |
| `RunLifecycle` | abstract: what the task service promises about the history of a run |
| `TaskService`, `MCTaskService`, `TaskService_proofs` | the task service and the optimistic transitions of the run repository; that they implement RunLifecycle |
| `Deliberation`, `MCDeliberation`, `Deliberation_proofs` | the council's engine and workflow with the providers' calls |
| `EventStream`, `MCEventStream`, `EventStream_proofs` | events of a task and a client that resumes |
| `Sessions`, `MCSessions`, `Sessions_proofs` | users, roles, tokens, login, logout and the middleware |
| `LoginLimiter`, `MCLoginLimiter`, `LoginLimiter_proofs` | the limiter in front of login |
| `DesktopRuntime`, `MCDesktopRuntime`, `DesktopRuntime_proofs` | the desktop shell, its runtime and the two child processes |

Three components are composed with an abstract specification, by refinement:
`CouncilAPI` implements `ApprovalGate`, `RunnerService` implements `ExecutionLedger`, and
`TaskService` implements `RunLifecycle`.  The components
meet at one operation, which each has from its own side: a deliberation
is one action of `CouncilAPI` and `TaskService` (`Deliberated`) and the whole of
`Deliberation`; the Runner is `Send` and `ExecuteReturn` on one side and
`RunnerService` on the other; `Log` of `CouncilAPI` is `Store` of `EventStream`;
the credentials that `LoginLimiter` verifies are a login of `Sessions`.

### CouncilAPI

`mem` is `API.tasks`, `row` the task table, `approvals` the approval table and
`logged` the states that the events of each task carry.  `starts` says where each
request inside `startTask` is, `executing` which `executeTask` holds the lock.
`sent` and `stale` are history: what went to the Runner, and which rows miss the
last change of memory.

Handlers hold `API.mu`, so each is one action, with two exceptions.  `startTask`
is `StartCheck`, then `StartAnalyzing` (or `StartUnavailable`), then
`StartPublish`, `StartFailed` or `StartConflict`.  `executeTask` keeps the lock
while it waits for the Runner: `ExecuteFirst` or `ExecuteAgain` sends the
request, `RunnerUnavailable`, `RunnerFailed`, or `RunnerSucceeded` and `Finish`
end it, and no other locked action happens in between.

The database calls of a handler are in the parameter `ok`, the set of those that
succeed.  `Fate` allows any set when `"write"` is a fault: the code then skips
what it skips.  It also allows, when `"crash"` is a fault, that the process dies
after the calls in `ok`.  So an action stands for every point at which its
handler can be cut off, and `Restart` builds `mem` from `row` as
`NewPersistentAPI` does.  With the fault `"load"` that reading fails, and the
server starts empty, because the code ignores the error.

Abstractions: a hash is represented by the plan it was computed from (a
collision-free hash).  A plan carries its version.  That of a created task is
`BarePlan`, which has no steps and, in memory only, version 1 (line 218): its row
(`DraftRow`) holds no plan, and is read at a restart as `NoPlan`, with version 0
(122-130).  The version that a task has beside its plan is 1 then as before, and it is
what `executeTask` sends (462): `AsSent`.  Requirement, acceptance criteria and the Runner's
report are left out, except for whether there is a report (`verified`).  Workspaces share `nextID` with tasks in the code; here only
tasks count.  A task of the model has its workspace.  A server with no Runner
client answers 503 and changes nothing.  The branch of `startTask` for a council
that reports its progress (lines 295-303) is left out: no type of the
repository satisfies that interface (`Workflow` declares its callback with a
named type), so the branch is never taken.

### RunnerService

`done` and `running` are the maps of the store, `rec` its table, `files` the
patches that each file of the workspace contains, and `call` the calls inside
`ExecuteApprovedPlan`, each with its place in the plan and its snapshots.
A method of the store holds `Store.mu` throughout and is one action; so is reading
or replacing one file (`replaceFile` renames a complete file into place).
`Answer` and `Arrive` are the two results of `Get`, `BeginClaims`, `BeginAborts`
and `BeginFindsResult` the three of `Begin`.  `BeginFindsResult` goes on to execute:
`Begin` reports no error when it finds a completed request (store.go:45-47, 58-61),
and the service does not look again.  `Deny` is the refusal of a wrong hash.
`Restore` walks the snapshots backwards and goes on after an error, as `restore`
does.  `Complete` may fail to write its row, which the code ignores.  `Crash`
leaves the rows and the workspace as they are.

Faults: `"read"` (Get misses a row that is there), `"row"` (a row is not written),
`"file"` (a file is not replaced), `"crash"`.  A patch that does not apply and a
command that fails or times out are not faults but inputs and always possible.

Abstractions: a file's content is the set of patches that were applied to it; what a
command does to the workspace is left out; so are the texts of results, apart
from success, failure and a failed rollback.

### TaskService

`task` is the task in memory, which all calls share without a lock; `row` and
`audit` are its run record and audit log, `approvals` its approvals, and `call`
says where each call is.  `council` says whether the service has one, for a whole behaviour.
A statement of the database, or an access to the shared task, is one action.  `Start` is
`StartAsIs` without a council, or `Deliberated`, `SetVersion` and `FillAcceptance` with one, and
then a `TransitionRead` and `TransitionWrite` for each of the six states; `Approve`, whose
hash and version the client chooses independently, is `Approve`, `Invalidate`
and `Save`; `Execute`, `Mark`, the transitions and `Send` are
`Execute`, which ignores the errors of its transitions (`After`).
A plan is its content, its version (0 is one the council left out, which `SetVersion` takes
from the task) and whether it has acceptance criteria (`FillAcceptance` gives it the task's).  It is
written and read at once: what a data race could make of a half written one is not modelled.
`Commits` is the check of the state machine and of the version that was read.  SQLite would not
run two write transactions at once; the model lets the read and the write of a
transition interleave with others, as the version check is there to allow.  Any
statement can fail.  `started`, `ran` and `granted` are history.

### Deliberation

`n` is the number of seats `configuredWorkflow` makes, `stage` how far
`deliberateProgress` is, `call` the goroutine of each seat with the offset of the proposal it
reviews and the attempt of its provider's call, `errs` the goroutines that
ended with an error.  An answer of a provider is one of the things the code tells apart: `Busy`
(429 and 5xx, retried after a pause), `Refused` (everything else that is an
error, an answer cut off at `maxErrorBody` included), `Repair` (the judge's
answer is not JSON) or an artifact.  `Late` is a context that is done, which
`Deadline` (`withTimeout`, only of proposals and reviews) and `ClientGone` make it.
`Begin` is the join of a stage and the start of the next; `Build` is
`BuildExecutionPlan`.  Abstracted: texts, anonymity, usage.  A plan's checks are
one bit (`usable`), the red team's report another.

### EventStream

`stored` is how many events the table has, `memory` from which on the server
has them in memory, `answer` the request being served, `last` and `received` the client.
The events of a task are appended under `API.mu` in one transaction (`Store`), so their numbers
are 1, 2, 3 ...; the handler copies the memory's under the lock (`Connect`), and reads
the table without it (`ReadStored`) or, if that fails, uses the copy (`ReadMemory`).
`Deliver` is one event written and taken, `Drop` a connection that breaks.
The client is the one of `web/lib/events.ts` with one difference, as the
findings say: it listens for events by their names.

### Sessions and LoginLimiter

The five tables of `Sessions` are variables (`users`, `roles`, `catalog`,
`userRoles`, `rolePerms`), and `token` the sixth.  Administrative operations are single
transactions and single actions, enabled when they succeed, as they change nothing when they
fail.  `Restart` is `configureRBAC` with each way to bootstrap.  `Login` is `LoginLoad`,
`LoginIssue`, `LoginIdentity` and `LoginEnds`; the middleware is `Arrive`,
`CheckCredential`, `IdentifyUser`, `Authorize`, `TryCookie` and `RequestEnds`, between
which everything else can happen.  A cookie can be any credential, as the middleware
tries whatever value it has (auth.go:135).  The history variable `unmet` has, for each call
being served, the facts (token good, user enabled, permission granted, password right)
that never held since it began; `Observe` keeps it, beside every step.  A
password or a token is the name of what it proves.

`LoginLimiter` has `failures` and `pending` of `RBACAPI`; `Admit` and `Refuse` are
`admitLoginAttempt`, `Fail` and `Succeed` are `completeLoginAttempt` after either
result, `Tick` is the clock.  A failure is the attempt that failed, with its `age`.
A panic inside `Login` is not modelled: `completeLoginAttempt` is not deferred, so it would keep
its slot.

### DesktopRuntime

Each call of `DesktopApp.Start` is an element of `Starts` with a runtime of its
own: `start` says where the call is, `state`, `children` and `holder` are the
runtime's state, recorded children and `stopMu`, `child` what each process does, `over` the contexts
that are cancelled, `watch` the goroutine that waits for one.  `Runtime.Stop` is one set of actions
(`StopAlready`, `StopBegin`, `StopJoined`, `StopForces`) with the caller as parameter: the start that
cleans up, the watcher, or a call of `DesktopApp.Stop`; `Resume` is what each does
afterwards.  `StopForces` is both ends of a wait, the stop timeout and the caller's deadline, either of which
can be seen although the children have all ended (a `select` takes any ready case).
Abstracted: addresses, logs, environment, and the requests to the children's shutdown
routes, which are one step with the signal (`Asked`).

## 3. Runs

| Run | Question | Result |
|---|---|---|
| `council` | do the approval discipline, the cache, the events and ApprovalGate hold under write failures and crashes, is every start answered, and does a deliberating start take its task out of ANALYZING? | yes |
| `runner_safety` | are claims unique, answers final, locks owned, does one call execute, is the workspace as reported, and does ExecutionLedger hold? | yes |
| `task_service` | is the audit log a legal history, does one start succeed, is only an approved plan run, and does RunLifecycle hold? | yes |
| `deliberation` | does the judge have every review, is no call left behind, do the stages end? | yes |
| `event_stream` | do a client's events come in order, once, and all of them? | yes |
| `sessions` | was everyone who is let in entitled, are grants connected, and does a logout hold? | yes |
| `login_limiter` | are guesses and the table bounded, is no slot lost, does a lockout end? | yes |
| `desktop_safety` | is no child forgotten, does Stop return, is ready alive? | yes |
| `council_stuck` | does an interrupted stage go on after a restart? | no |
| `council_unread` | does a stored plan survive rows that cannot be read? | no |
| `runner_twice` | is a repeated request never executed again? | no |
| `desktop_stays_up` | does a runtime that was started stay up? | no |

The properties are stated, with a comment each, at the end of each component's module.
The four answers *no* are disagreements between the code and
what its documents say; `findings` in `PROJECT.json` quotes the lines, and lists
other disagreements that were met while modelling and need no run to be seen: a
cancellation of what is executing, one that is not stored, a created task of which only memory knows,
the version of a plan that a restart loses, the first of two patches to one file, a restore that erases a neighbour's work, a claim that outlives its
Runner, the branch for stages of a deliberation that is never taken, answers cut off at 2049 bytes, events that the web client does not
hear, a single seat that needs no review, and the task service's approvals
that are never used up.

The types (`TypeOK`) of every component are proved (`TypeCorrect`), for all values of the
constants, and so need no run.  `council` checks the inductive invariant of `CouncilAPI`
besides; those of `RunnerService`, `DesktopRuntime` and `Deliberation`, at the end of the modules,
were invariants of their runs while the proofs were made, and are no longer, being proved.
Add `IInv` to a .cfg before a proof is repaired after a change.

### Bounds

* `council`: one task, two plans, two starts at once, three approval rows.
  Tasks share only the lock, the id counter and the tables, and every statement
  names its task, so one task with two plans shows what a task can suffer; two
  starts are enough for each to overtake the other, or to wait while the task is executed over and over,
  and three approvals allow "approve, approve again, restart, approve" with a failure in each.
  Every reachable state is examined (no state constraint, no symmetry): 216 144 states.
* `council_stuck` needs one crash while a start deliberates; `council_unread` one read that fails after
  a plan was stored.
* `runner_safety`: two calls at once over three requests: one whose plan patches
  a file, another, and the first again, an empty plan, and one with a wrong hash.
  Two calls suffice for every race of the store, whose decisions relate one call
  to the rest; a call that has ended can come again, so a history may have
  any number of calls.  101 463 states.
* `task_service`: four calls in all, so that two starts, an approval and an execution, or any other mix,
  interleave; three plans of the council, two that differ only in their version and one without
  version and criteria; and a service with a council or without.
  117 528 states.
* `deliberation`: one to three seats and three attempts, as in the code.  8 313 states.
* `event_stream`: five events in pages of two, so that a client needs three
  answers.  2 844 states.
* `sessions`: two users, one role, two permissions of which one covers the other, one
  token, a login and a request at once, and three changes (`MaxChanges`) of the tables: enough
  to disable, enable and disable again, or to revoke and grant, within one call.  1 166 318 states.
* `login_limiter`: three addresses for a table of two, four attempts for a limit of two,
  two ticks in a minute.
* `desktop_safety`: two starts at once, as `DesktopApp.Start` lets both through until
  the first adopts its runtime, and one call of Stop, which can be made again.  209 008 states.
* `MaxTasks`, `MaxApprovals`, `MaxEvents` and `MaxChanges` are the only bounds in guards:
  they end the supply of ids, approval rows, events and changes.  The runs of `TaskService`,
  `Deliberation`, `EventStream` and `DesktopRuntime` check no deadlock, since calls are made
  once there, a deliberation ends and the supply of events does.

### Fairness

`CouncilAPI`: a request inside `startTask` goes on (`StartsGoOn`).  The lock, a Go mutex, is
handed over to a waiter that has waited for a millisecond; as it is taken and
released meanwhile, this is strong fairness of `StartStep`.  That a deliberation ends is an
assumption about the world: the code bounds proposals and reviews only, so for the judge
and the red team either the models answer or the client hangs up, which cancels the
request's context.  `StartIsAnswered` and `AnalyzingEnds` rest on it.  A call to the Runner
returns, because every command of a plan has a timeout (`BuildExecutionPlan` refuses
others): weak fairness of `ExecuteReturn` (`RunnerAnswers`).  A server that died is started
again (`ServerReturns`).  Nothing obliges a client to approve, execute or cancel.

`AnalyzingEnds` speaks of a task whose start is deliberating.  A write that fails at
lines 288-292 answers 500 and leaves the task in ANALYZING, in memory, with no start at work, and so does
a crash; nothing but a cancellation takes it from there (`council_stuck`).

`Deliberation`: deadlines pass, a done context is seen (the HTTP client and the
pause select on it), and a stage that is joined goes on.  No provider ever has to answer.
That a deliberation ends, which `CouncilAPI` assumes, is `TimedStagesEnd` for proposals and
reviews; the judge and the red team have no timeout of their own, and for
them `GoneEnds` is all there is.

`EventStream`: the client connects again (`setTimeout(connect, 1000)`), an answer goes on, the
table can be read now and then though not always, and the connection does
not break every time before an event that is news to the client: strong fairness of
`ReadStored` and of a `Deliver` that is news.

`LoginLimiter`: time passes, and a login ends, as its database calls return (the request itself has
no deadline).

`DesktopRuntime`: a goroutine that can go on does, and the timeouts of a Stop pass.  A
process that was killed ends; one that was only asked may hang.

## 4. Proofs

All theorems hold for every value of the constants that the modules'
assumptions allow, with any number of tasks, plans, starts, approvals, calls,
requests, files and patches.

**Council.**  `SentWasApproved` and the others are not inductive: that a plan
sent was approved depends on the row, not the memory, deciding at
`ConsumeAndMark`, and on memory and row agreeing about the plan by then.  `IInv` says
what that takes: a hash is always the hash of the plan beside it (`HashFitsPlan`);
a stored hash ends planning and is never departed from in memory
(`StoredHashEndsPlanning`); a task that executes has its consumed approval, in
the row (`ExecutionIsApproved`); a consumed approval is the only one of its task and
the task is past approval for good (`ConsumptionIsFinal`); and no table knows
an id that was not handed out (`FreshIDs`).  It also has what a request carries
(`RequestsAreApproved`) and that no row is in a later stage than memory (`MemoryLeads`).  `CouncilAPI_proofs` proves `IInv`
action by action and takes from it that one plan is sent per task
(`OnePlanIsSent`), that memory is what the row holds or, where a write failed, something
later (`CacheStaysCurrent`), that stored plans stay (`StoredPlansStay`) and that final
tasks are not executed (`FinalStays`).  Its second part shows that each action
is a step of `ApprovalGate` or changes nothing of it
(`CouncilImplementsGate`).  These theorems assume `"load" \notin Faults`: a server that
starts empty because the rows could not be read hands out ids again and
overwrites the stored plans (a finding), so they need to.

Its third part has what survives even that fault: `ApprovalIsReplaced`, `EventsNeverLead`,
`CacheFits` (the half of `CacheIsCurrent` that a server with nothing in memory keeps),
and `ApprovedHashIsSent`: the hash in a request was approved, with or without a
council.  That the plan in the request is the one with that hash (`OnlyApprovedIsSent`)
assumes `HasCouncil`.  Without one, a crash between create and start is enough to break it (a
finding): `startTask` hashes version 0, and `executeTask` sends version 1.  "What the row
holds" leaves out one thing, which `AsStored` names: the plan of a created task has a version in memory and
none in the row.

**Runner.**  `BaseInv`, which needs no assumption about the faults: a row exists for
whatever was ever claimed, executed or answered, and rows are not deleted
(`ClaimHasRow`); a transaction's position is within its plan and its snapshots are
complete before it writes (`CursorOK`).  It gives `ClaimsAreUnique` (no request is claimed
twice, across crashes) and `RunningIsOwned`.

`ReportsAreTrue` (`EndsAsReported`) needs to know at every step of a transaction what the files
contain, as long as no other transaction wrote (`Undisturbed`, which is `SoFar` of each call in
`alone`).  Files that a plan patches twice were read alike, because all is read before
anything is written; of the patches written so far the last one of a file is there; and
of the restoring, which goes backwards, what is done is done.  There is a lemma
for each of these steps, and no assumption about the faults.  So a success leaves the last patch of each file, not the
earlier ones (a finding), and a failure every file as it was read.

`OneCallExecutes` (`OneExecutes`): a call executes because it claimed the request, which nobody
else can be executing then, as there was no row (`ClaimHasRow`); or because `Begin` found
a result, which then was given to a caller before (`FoundIsAnswered`).  So until a request
is answered there is one call at most, whatever fails.

For `AnswersAreFinal` the
argument is about lost results.  A result can be lost (its row not written, then
a crash), but only together with all calls of its process: so no call executes a
request that was answered and whose result is not there (`LostIsLeft`), and a
call that comes later finds the row at running and is refused.  This assumes
`"read" \notin Faults`: if Get misses a row and Begin then finds it, the plan is
executed again, in the way that run `runner_twice` shows.

`RunnerImplementsLedger`, under the same assumption, puts these together: `BeginClaims` is
`Claim` of `ExecutionLedger`, `BeginFindsResult` is `Follow`, the calls that are turned away `Leave`,
`Complete` is `Answer`, and all other steps are not seen there.  A late call is not
among the ledger's `waiting`, and the proof shows that it never needs to be:
`LateFindsNothing` says that it finds no result, and `ClaimHasRow` that it cannot claim.

**Task service.**  `IInv` ties what a call has read to the record.  A record that was read
is a past one (`ReadIsPast`): its version is at most the row's, and where they
are equal so is the state.  So a commit extends the log by a legal step
(`HistoryStaysLegal`).  Of the calls of Start only one gets past ANALYZING, and it has made every
transition since (`OneWalks`), as the states'
ranks grow along the log (`Ranked`): that is `OneStart`.  `HashesAreGranted` says that the hash of an approval, from
`Approve` to `Execute`, was granted when it was the plan's; the Runner compares it
with the plan it is sent, hence `OnlyApprovedRuns`, although `Start` may replace the plan at any time.
`ServiceImplementsLifecycle` is the refinement: a commit is one `Move` of `RunLifecycle`, or its
`Start`; `Approve` is `Grant`, for which the task in memory must be known to wait for its
approval only after a Start brought it there (`Brought`); `Send` is `Run`; and everything
else, all that a call reads and the other half of a transition, is not seen there.

**Events.**  `IInv`: the client is never ahead of the table (`Behind`); what an
answer still has to send is a consecutive part of the table that begins at the
request's `after`, or what memory had (`Sending`); and what was received is in order
(`Ordered`).  `NothingIsSkipped` needs no assumption about the faults, as the
property itself names the one case in which memory is not whole.

**Sessions.**  `IInv` has the tables' links (`TablesOK`), tokens with existing users
(`TokensOK`), the calls' fields (`LoginsOK`, `RequestsOK`), that a token that ended
never lives again (`EndedStays`), and that each step of a call has shown its fact
(`RequestShown`, `LoginShown`): a fact that a read shows holds in the state of the read, so
`Observe` takes it out of `unmet`, and nothing puts it back until the call ends.  The
theorems are for any users, roles, permissions, routes and concurrent calls.

**Login limiter.**  `IInv`: `pending` counts the open attempts (`Accounted`), and is
positive where one is (`PendingIsOpen`); what `wrong` remembers the limiter does too,
until the minute is over (`WrongIsRemembered`); remembered failures and open
attempts together are within the limit (`Bounded`), and so are the addresses
(`Table`).  Failing turns an open attempt into a failure, which keeps the
sum; only `Admit` adds, under its guard.

**Desktop runtime.**  `IInv` is a conjunction for each runtime (`Sound`).  That no child is forgotten
depends on who can stop a runtime when.  Before a start has recorded its children only the start
itself can (`OwnUntilUp`): there is no watcher, and the shell has not adopted the runtime.  From
then on every child that was not asked to end is among the recorded (`Recorded`, `Made`), and
a Stop in progress looks at all of them and has the lock for itself (`OneStop`): so
where a Stop ends, none is left (`Over`), which is `EveryChildIsFound`.  A runtime on its way up or
up has seen no child end (`Unharmed`), because the report and the step to READY are both made
under the runtime's mutex: `ReadyMeansAlive`.  The theorems are for any number of starts and stops
and any faults; `DesktopAssumption` only says that the names of callers differ from each
other and from those of the goroutines.

**Deliberation.**  `IInv` follows a goroutine through its stage: one that has ended left its proposal
or an error (`ProposedOrFailed`); a reviewer at an offset has reviewed at all offsets
before (`ReviewedUpTo`, `ReviewedOrFailed`), and the offsets from 1 to n - 1 meet every other seat
once (the lemmas `Around` to `MeetsEvery`, about the remainder in `(i + p) % n`).  A stage
begins when all have ended without an error, so the judge has everything
(`JudgeHearsAll`); and what was started is joined before anything else begins
(`EveryCallIsJoined`).  The theorems are for any number of seats and attempts.

**Only model-checked:** the liveness properties `StartIsAnswered`, `AnalyzingEnds`, `LockoutEnds`,
`StopReturns`, `AbandonedEnds`, `TimedStagesEnd`, `GoneEnds` and `CatchesUp` (fairness and
ENABLED are out of the prover's reach), and the violations.  Every safety property that a passing
run checks is stated by a theorem.

## 5. What is not modelled, and the plan

In this order:

1. `ExecutionPipeline`: the Council and the Runner composed, with lost and late answers
   and both restarts, as a refinement of "each approved plan takes effect at most
   once".  Both sides are modelled; the id that is handed out again after an unreadable
   table is the case that only the composition shows.
2. Abstract specifications of the event stream (a client that reads a log in order) and of
   the limiter, with proofs that the modules implement them.
3. `FileTransaction`: unified diffs on small texts against a reference, two
   patches to one file; `ApprovalHash`: the canonical form before and after protobuf.
4. `ArtifactStore`, of which only tests use the write side so far, and `TLSReloader`.

Parts of modelled components that are left out: opening a workspace in the
desktop shell (a start in progress keeps the directory it began with), and leaving the
application while a start is in progress (the operating system ends the shell, and nothing
the children).  A call of `Runtime.Stop` between the steps of `Runtime.Start` does
not occur, because the shell stops only a runtime it has adopted.  In the Council,
workspaces, the artifact and provider-test routes, and the stages of a deliberation.
In RBAC, password hashing, the static-token gate and cookie attributes; an operation is
one transaction, and one that fails half way is rolled back by the database.

Not to be modelled: the front end but for its event client, metrics, deployment,
generated code, vendors' request formats, the Runner's single-call parts (command
executor, context collector, path guard, pairing).  They hold no state of the
protocol, or are pure input and output.
