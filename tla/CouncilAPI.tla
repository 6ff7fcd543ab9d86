------------------------------ MODULE CouncilAPI ------------------------------
(***************************************************************************)
(* The task lifecycle of the Council REST API (transport/council/routes.go *)
(* with storage/sqlite): the in-memory tasks, the rows of the task and     *)
(* approval tables, the handlers that move both, the failures of the       *)
(* database calls they make, crashes of the server and its restart.        *)
(*                                                                         *)
(* All handlers run under API.mu.  startTask releases it while the models  *)
(* deliberate, so a start is three actions; executeTask keeps it while it  *)
(* waits for the Runner, so an execution is several actions that exclude   *)
(* every other handler; each of the others is one action.                  *)
(*                                                                         *)
(* A handler makes its database calls one after the other.  The parameter  *)
(* ok of an action is the set of its calls that succeed: the effects of a  *)
(* failing call, and of those the code then skips, do not happen.  A crash *)
(* between two calls is the same set with the process gone.                *)
(***************************************************************************)
EXTENDS Naturals

CONSTANTS
  MaxTasks,      \* bound: how many task ids the server hands out
  Plans,         \* what a deliberation can produce
  BarePlan,      \* the plan of a task as it is created: no steps, version 1
  NoPlan,        \* what a row without a plan is read as: no steps, version 0
  NoHash,        \* the approval hash of a task that has none yet
  Starters,      \* requests that can be inside startTask at once
  MaxApprovals,  \* bound: rows of the approval table
  HasCouncil,    \* FALSE: no model is configured and API.council is nil
  Faults         \* which failures happen: "write", "crash", "load"

NoTask == 0
Tasks == 1..MaxTasks
AllPlans == Plans \cup {BarePlan, NoPlan}
Hashes == AllPlans \cup {NoHash}
ApprovalIDs == 1..MaxApprovals

ASSUME CouncilAssumption ==
  /\ MaxTasks \in Nat
  /\ MaxApprovals \in Nat
  /\ BarePlan \notin Plans
  /\ NoPlan \notin Plans \cup {BarePlan}
  /\ NoHash \notin Plans \cup {BarePlan, NoPlan}
  /\ HasCouncil \in BOOLEAN
  /\ Faults \subseteq {"write", "crash", "load"}

VARIABLES
  up,         \* the server process runs
  nextID,     \* API.nextID, of which only the task ids are counted
  mem,        \* API.tasks
  starts,     \* where each startTask request is, and for which task
  executing,  \* the task whose executeTask holds API.mu, or NoTask
  row,        \* table of TaskRecord
  approvals,  \* table of ApprovalRecord
  logged,     \* the states carried by each task's events in the event table
  sent,       \* history: the requests sent to the Runner, by task
  stale       \* history: tasks whose row misses the latest change of mem

process == <<up, nextID, mem, starts, executing>>
database == <<row, approvals, logged>>
history == <<sent, stale>>
vars == <<up, nextID, mem, starts, executing, row, approvals, logged, sent,
          stale>>

-----------------------------------------------------------------------------
(* The records.  An approval hash is a digest of the task and its plan: it   *)
(* is represented by the plan it was computed from.  A plan carries its      *)
(* version, so matching hashes stand for matching versions too.  The version *)
(* that a task has beside its plan is the plan's, but for the plan NoPlan,   *)
(* beside which it is 1: see AsSent.                                         *)

TaskStates == {"ABSENT", "DRAFT", "ANALYZING", "AWAITING_APPROVAL", "EXECUTING",
               "VERIFYING", "SUCCEEDED", "FAILED", "CANCELLED"}

Task == [state: TaskStates, plan: AllPlans, hash: Hashes,
         approved: BOOLEAN, verified: BOOLEAN]

Absent == [state |-> "ABSENT", plan |-> NoPlan, hash |-> NoHash,
           approved |-> FALSE, verified |-> FALSE]

\* The row of a created task, which holds no plan.
DraftRow == [Absent EXCEPT !.state = "DRAFT"]

\* The task itself: its plan has a version from the start.
Draft == [DraftRow EXCEPT !.plan = BarePlan]

Approval == [run: Tasks \cup {NoTask}, hash: Hashes,
             invalidated: BOOLEAN, consumed: BOOLEAN]

NoApproval == [run |-> NoTask, hash |-> NoHash, invalidated |-> FALSE,
               consumed |-> FALSE]

Request == [plan: AllPlans, hash: Hashes]

\* The plan a request carries: its steps, and the version beside the plan.
AsSent(plan) == IF plan = NoPlan THEN BarePlan ELSE plan

Idle == [pc |-> "idle", task |-> NoTask]

Start == {Idle} \cup [pc: {"reading", "deliberating"}, task: Tasks]

Known(t) == mem[t].state # "ABSENT"

-----------------------------------------------------------------------------
(* The database calls of a handler.                                          *)

\* The handler's calls went as ok says and it runs on, or the process died
\* after the calls in ok.  The event is always the last call of a handler.
Fate(ok, calls) ==
  \/ /\ ok = calls \/ "write" \in Faults
     /\ up' = TRUE
  \/ /\ ok # calls
     /\ "crash" \in Faults
     /\ "append" \in ok => calls \ {"append"} \subseteq ok
     /\ up' = FALSE

\* Variant: the update leaves out the column approval_granted.
PersistWithoutApproval(t, task, done) ==
  LET found == row[t].state # "ABSENT"
  IN  /\ row' = IF done /\ found
                  THEN [row EXCEPT ![t] = [task EXCEPT !.approved = row[t].approved]]
                  ELSE row
      /\ stale' = IF done /\ found THEN stale \ {t} ELSE stale \cup {t}

\* persistTask: one UPDATE of the row, which changes nothing when the row is
\* not there and reports no error for it.
Persist(t, task, done) ==
  LET found == row[t].state # "ABSENT"
  IN  /\ row' = IF done /\ found THEN [row EXCEPT ![t] = task] ELSE row
      /\ stale' = IF done /\ found THEN stale \ {t} ELSE stale \cup {t}

Log(t, state, done) ==
  logged' = IF done THEN [logged EXCEPT ![t] = @ \cup {state}] ELSE logged

\* Variant: the event is written before the row.
TransitionEventFirst(t, task, ok) ==
  /\ mem' = [mem EXCEPT ![t] = task]
  /\ Log(t, task.state, "append" \in ok)
  /\ Persist(t, task, {"persist", "append"} \subseteq ok)

\* transitionTask: memory first, then the row, then the event; an error of the
\* row's update is returned before the event is written.
Transition(t, task, ok) ==
  /\ mem' = [mem EXCEPT ![t] = task]
  /\ Persist(t, task, "persist" \in ok)
  /\ Log(t, task.state, {"persist", "append"} \subseteq ok)

TransitionCalls == {"persist", "append"}

\* No handler holds API.mu.
Unlocked == up /\ executing = NoTask

-----------------------------------------------------------------------------
Init ==
  /\ up = TRUE
  /\ nextID = 0
  /\ mem = [t \in Tasks |-> Absent]
  /\ starts = [s \in Starters |-> Idle]
  /\ executing = NoTask
  /\ row = [t \in Tasks |-> Absent]
  /\ approvals = [i \in ApprovalIDs |-> NoApproval]
  /\ logged = [t \in Tasks |-> {}]
  /\ sent = [t \in Tasks |-> {}]
  /\ stale = {}

-----------------------------------------------------------------------------
(* createTask.  The row is written with Save, which overwrites a row of the  *)
(* same id, and holds no plan; neither its error nor that of the event is    *)
(* looked at.                                                                *)

CreateCalls == {"save", "append"}

Create(ok) ==
  LET t == nextID + 1
  IN  /\ Unlocked
      /\ t \in Tasks
      /\ Fate(ok, CreateCalls)
      /\ nextID' = t
      /\ mem' = [mem EXCEPT ![t] = Draft]
      /\ row' = IF "save" \in ok THEN [row EXCEPT ![t] = DraftRow] ELSE row
      /\ stale' = IF "save" \in ok THEN stale \ {t} ELSE stale \cup {t}
      /\ Log(t, "DRAFT", "append" \in ok)
      /\ UNCHANGED <<starts, executing, approvals, sent>>

-----------------------------------------------------------------------------
(* startTask.  Its first section takes the requirement of a DRAFT task and   *)
(* unlocks; the workspace is read and the council analyses, both unlocked.   *)

StartCheck(s, t) ==
  /\ Unlocked
  /\ starts[s].pc = "idle"
  /\ mem[t].state = "DRAFT"
  /\ starts' = [starts EXCEPT ![s] = [pc |-> "reading", task |-> t]]
  /\ UNCHANGED <<up, nextID, mem, executing>>
  /\ UNCHANGED <<database, history>>

\* ReadWorkspaceContext or Analyze failed: the request ends, the task stays.
StartUnavailable(s) ==
  /\ up
  /\ starts[s].pc = "reading"
  /\ starts' = [starts EXCEPT ![s] = Idle]
  /\ UNCHANGED <<up, nextID, mem, executing>>
  /\ UNCHANGED <<database, history>>

\* The second section: only one of several starts finds the task in DRAFT.
StartAnalyzing(s, ok) ==
  LET t == starts[s].task
  IN  /\ Unlocked
      /\ HasCouncil
      /\ starts[s].pc = "reading"
      /\ mem[t].state = "DRAFT"
      /\ Fate(ok, TransitionCalls)
      /\ Transition(t, [mem[t] EXCEPT !.state = "ANALYZING"], ok)
      /\ starts' = [starts EXCEPT ![s] =
                      IF ok = TransitionCalls THEN [@ EXCEPT !.pc = "deliberating"]
                                              ELSE Idle]
      /\ UNCHANGED <<nextID, executing, approvals, sent>>

\* Either locked section answers 409 when the task has moved on meanwhile.
StartStates(s) ==
  IF HasCouncil /\ starts[s].pc = "reading" THEN {"DRAFT"} ELSE {"DRAFT", "ANALYZING"}

\* Variant: the early return forgets to unlock.
StartConflictLocked(s) ==
  /\ Unlocked
  /\ starts[s].pc # "idle"
  /\ mem[starts[s].task].state \notin StartStates(s)
  /\ starts' = [starts EXCEPT ![s] = Idle]
  /\ executing' = starts[s].task
  /\ UNCHANGED <<up, nextID, mem>>
  /\ UNCHANGED <<database, history>>

StartConflict(s) ==
  /\ Unlocked
  /\ starts[s].pc # "idle"
  /\ mem[starts[s].task].state \notin StartStates(s)
  /\ starts' = [starts EXCEPT ![s] = Idle]
  /\ UNCHANGED <<up, nextID, mem, executing>>
  /\ UNCHANGED <<database, history>>

\* Variant: a failed deliberation is only reported to the caller.
StartFailedSilently(s, ok) ==
  /\ Unlocked
  /\ starts[s].pc = "deliberating"
  /\ ok = {}
  /\ starts' = [starts EXCEPT ![s] = Idle]
  /\ UNCHANGED <<up, nextID, mem, executing>>
  /\ UNCHANGED <<database, history>>

\* Deliberation failed: the task is FAILED whatever became of it meanwhile.
StartFailed(s, ok) ==
  LET t == starts[s].task
  IN  /\ Unlocked
      /\ starts[s].pc = "deliberating"
      /\ IF mem[t].state # "FAILED"
           THEN /\ Fate(ok, TransitionCalls)
                /\ Transition(t, [mem[t] EXCEPT !.state = "FAILED"], ok)
           ELSE ok = {} /\ UNCHANGED <<up, mem, row, stale, logged>>
      /\ starts' = [starts EXCEPT ![s] = Idle]
      /\ UNCHANGED <<nextID, executing, approvals, sent>>

\* The last section: the plan and its hash are set and the task awaits approval.
\* Without a council it follows the first one at once, with the task's own plan.
StartPublish(s, p, ok) ==
  LET t == starts[s].task
  IN  /\ Unlocked
      /\ starts[s].pc = IF HasCouncil THEN "deliberating" ELSE "reading"
      /\ mem[t].state \in StartStates(s)
      /\ p \in IF HasCouncil THEN Plans ELSE {mem[t].plan}
      /\ Fate(ok, TransitionCalls)
      /\ Transition(t, [mem[t] EXCEPT !.state = "AWAITING_APPROVAL", !.plan = p,
                                      !.hash = p], ok)
      /\ starts' = [starts EXCEPT ![s] = Idle]
      /\ UNCHANGED <<nextID, executing, approvals, sent>>

-----------------------------------------------------------------------------
(* approveTask: the rows of the run are invalidated, a new one is saved, and *)
(* the task is marked; the first call to fail ends the request.              *)

ApproveCalls == {"invalidate", "save", "persist", "append"}

\* Variant: the hash of the request is taken without a comparison.
ApprovalGiven(t, h) == h # NoHash /\ mem[t].hash # NoHash

\* The request names the plan the caller has seen.
ApprovalMatches(t, h) == h # NoHash /\ mem[t].hash = h

FreeSlot(i) ==
  /\ approvals[i].run = NoTask
  /\ \A j \in ApprovalIDs : j < i => approvals[j].run # NoTask

\* Variant: earlier approvals are left as they are.
NotInvalidated(t) == approvals

\* Invalidate(run): every row of the run that is not invalidated yet.
Invalidated(t) ==
  [i \in ApprovalIDs |-> IF approvals[i].run = t
                           THEN [approvals[i] EXCEPT !.invalidated = TRUE]
                           ELSE approvals[i]]

Approve(t, h, ok) ==
  LET saved == {"invalidate", "save"} \subseteq ok
      task == [mem[t] EXCEPT !.hash = h, !.approved = TRUE]
  IN  /\ Unlocked
      /\ mem[t].state = "AWAITING_APPROVAL"
      /\ ApprovalMatches(t, h)
      /\ Fate(ok, ApproveCalls)
      /\ \E i \in ApprovalIDs :
           /\ FreeSlot(i)
           /\ approvals' =
                IF "invalidate" \notin ok THEN approvals
                ELSE IF saved
                  THEN [Invalidated(t) EXCEPT ![i] =
                          [run |-> t, hash |-> h, invalidated |-> FALSE,
                           consumed |-> FALSE]]
                  ELSE Invalidated(t)
      /\ IF saved
           THEN mem' = [mem EXCEPT ![t] = task] /\ Persist(t, task, "persist" \in ok)
           ELSE UNCHANGED <<mem, row, stale>>
      /\ UNCHANGED <<nextID, starts, executing, logged, sent>>

\* cancelTask and rejectTask differ in the event's name only.  Neither looks at
\* the state of the task or at the errors of its calls, and both answer 200.
CancelOrReject(t, ok) ==
  LET task == [mem[t] EXCEPT !.state = "CANCELLED", !.approved = FALSE]
  IN  /\ Unlocked
      /\ Known(t)
      /\ Fate(ok, TransitionCalls)
      /\ mem' = [mem EXCEPT ![t] = task]
      /\ Persist(t, task, "persist" \in ok)
      /\ Log(t, "CANCELLED", "append" \in ok)
      /\ UNCHANGED <<nextID, starts, executing, approvals, sent>>

-----------------------------------------------------------------------------
(* executeTask.                                                              *)

Consumable(t) ==
  {i \in ApprovalIDs : /\ approvals[i].run = t
                       /\ approvals[i].hash = mem[t].hash
                       /\ ~approvals[i].invalidated
                       /\ ~approvals[i].consumed}

\* Variant: the approval is consumed and the task's row is left alone.
ConsumeOnly(t) ==
  /\ \E i \in ApprovalIDs :
       /\ Consumable(t) = {i}
       /\ approvals' = [approvals EXCEPT ![i].consumed = TRUE]
  /\ row' = row

\* Variant: the task's row is moved and no approval is looked for.
MarkOnly(t) ==
  /\ row[t].state = "AWAITING_APPROVAL"
  /\ row' = [row EXCEPT ![t].state = "EXECUTING"]
  /\ UNCHANGED approvals

\* ConsumeAndMarkExecuting(run, hash) updates exactly one approval row and the
\* task's row, in one transaction, or nothing.
ConsumeAndMark(t) ==
  /\ \E i \in ApprovalIDs :
       /\ Consumable(t) = {i}
       /\ approvals' = [approvals EXCEPT ![i].consumed = TRUE]
  /\ row[t].state = "AWAITING_APPROVAL"
  /\ row[t].hash = mem[t].hash
  /\ row[t].approved
  /\ row' = [row EXCEPT ![t].state = "EXECUTING"]

Send(t) ==
  /\ executing' = t
  /\ sent' = [sent EXCEPT ![t] =
                @ \cup {[plan |-> AsSent(mem[t].plan), hash |-> mem[t].hash]}]

ExecuteCalls == {"append"}

\* An approved task: its approval is consumed, then the Runner is called.
ExecuteFirst(t, ok) ==
  /\ Unlocked
  /\ mem[t].state = "AWAITING_APPROVAL"
  /\ mem[t].approved
  /\ ConsumeAndMark(t)
  /\ Fate(ok, ExecuteCalls)
  /\ mem' = [mem EXCEPT ![t].state = "EXECUTING"]
  /\ Log(t, "EXECUTING", "append" \in ok)
  /\ IF ok = ExecuteCalls THEN Send(t) ELSE UNCHANGED <<executing, sent>>
  /\ UNCHANGED <<nextID, starts, stale>>

\* Variant: a failed execution may be requested again, too.
ExecuteFailedAgain(t) ==
  /\ Unlocked
  /\ mem[t].state \in {"EXECUTING", "FAILED"}
  /\ Send(t)
  /\ UNCHANGED <<up, nextID, mem, starts, stale>>
  /\ UNCHANGED database

\* A task left in EXECUTING: the same request goes to the Runner again.
ExecuteAgain(t) ==
  /\ Unlocked
  /\ mem[t].state = "EXECUTING"
  /\ Send(t)
  /\ UNCHANGED <<up, nextID, mem, starts, stale>>
  /\ UNCHANGED database

\* The call to the Runner returns an error; the task stays in EXECUTING.
RunnerUnavailable(t) ==
  /\ up
  /\ executing = t
  /\ mem[t].state = "EXECUTING"
  /\ executing' = NoTask
  /\ UNCHANGED <<up, nextID, mem, starts>>
  /\ UNCHANGED <<database, history>>

\* The Runner reports that the plan failed.
RunnerFailed(t, ok) ==
  /\ up
  /\ executing = t
  /\ mem[t].state = "EXECUTING"
  /\ Fate(ok, TransitionCalls)
  /\ Transition(t, [mem[t] EXCEPT !.state = "FAILED"], ok)
  /\ executing' = NoTask
  /\ UNCHANGED <<nextID, starts, approvals, sent>>

\* The Runner reports success: first VERIFYING, with the Runner's report ...
RunnerSucceeded(t, ok) ==
  /\ up
  /\ executing = t
  /\ mem[t].state = "EXECUTING"
  /\ Fate(ok, TransitionCalls)
  /\ Transition(t, [mem[t] EXCEPT !.state = "VERIFYING", !.verified = TRUE], ok)
  /\ executing' = IF ok = TransitionCalls THEN t ELSE NoTask
  /\ UNCHANGED <<nextID, starts, approvals, sent>>

\* ... then SUCCEEDED, still under the lock.
Finish(t, ok) ==
  /\ up
  /\ executing = t
  /\ mem[t].state = "VERIFYING"
  /\ Fate(ok, TransitionCalls)
  /\ Transition(t, [mem[t] EXCEPT !.state = "SUCCEEDED"], ok)
  /\ executing' = NoTask
  /\ UNCHANGED <<nextID, starts, approvals, sent>>

-----------------------------------------------------------------------------
(* The process dies at any point, and NewPersistentAPI builds the memory of  *)
(* the next one from the rows, or from nothing when reading them failed.     *)

Crash ==
  /\ up
  /\ "crash" \in Faults
  /\ up' = FALSE
  /\ UNCHANGED <<nextID, mem, starts, executing>>
  /\ UNCHANGED <<database, history>>

Stored == {t \in Tasks : row[t].state # "ABSENT"}

\* Variant: an execution that was interrupted goes back to its approval.
RehydrateRequeued(loaded) ==
  /\ mem' = [t \in Tasks |-> IF row[t].state = "EXECUTING"
                               THEN [row[t] EXCEPT !.state = "AWAITING_APPROVAL"]
                               ELSE row[t]]
  /\ \E n \in Stored \cup {0} :
       (\A t \in Stored : t <= n) /\ nextID' = n
  /\ stale' = {}

Rehydrate(loaded) ==
  IF loaded
    THEN /\ mem' = row
         /\ \E n \in Stored \cup {0} :
              (\A t \in Stored : t <= n) /\ nextID' = n
         /\ stale' = {}
    ELSE /\ mem' = [t \in Tasks |-> Absent]
         /\ nextID' = 0
         /\ stale' = Stored

Restart(loaded) ==
  /\ ~up
  /\ loaded \/ "load" \in Faults
  /\ up' = TRUE
  /\ Rehydrate(loaded)
  /\ starts' = [s \in Starters |-> Idle]
  /\ executing' = NoTask
  /\ UNCHANGED <<database, sent>>

-----------------------------------------------------------------------------
StartStep(s) ==
  \/ StartUnavailable(s)
  \/ StartConflict(s)
  \/ \E ok \in SUBSET TransitionCalls :
       \/ StartAnalyzing(s, ok)
       \/ StartFailed(s, ok)
       \/ \E p \in AllPlans : StartPublish(s, p, ok)

ExecuteReturn(t) ==
  \/ RunnerUnavailable(t)
  \/ \E ok \in SUBSET TransitionCalls :
       RunnerFailed(t, ok) \/ RunnerSucceeded(t, ok) \/ Finish(t, ok)

ClientRequest(t) ==
  \/ \E s \in Starters : StartCheck(s, t)
  \/ \E h \in Hashes, ok \in SUBSET ApproveCalls : Approve(t, h, ok)
  \/ \E ok \in SUBSET TransitionCalls : CancelOrReject(t, ok)
  \/ \E ok \in SUBSET ExecuteCalls : ExecuteFirst(t, ok)
  \/ ExecuteAgain(t)

Next ==
  \/ \E ok \in SUBSET CreateCalls : Create(ok)
  \/ \E s \in Starters : StartStep(s)
  \/ \E t \in Tasks : ClientRequest(t) \/ ExecuteReturn(t)
  \/ Crash
  \/ \E loaded \in BOOLEAN : Restart(loaded)

Spec == Init /\ [][Next]_vars

-----------------------------------------------------------------------------
(* Fairness.  Nothing obliges a client to approve, execute or cancel.        *)

\* A request inside startTask goes on, and API.mu, a sync.Mutex, does not starve
\* it, hence SF.  That its deliberation ends is an assumption: the code bounds the
\* proposals and reviews, but waits for the judge and the red team as long as the
\* client does, so either the models answer or the client hangs up, which cancels
\* the context of the request.
StartsGoOn == \A s \in Starters : SF_vars(StartStep(s))

\* A call to the Runner returns: every approved command has a timeout.
RunnerAnswers == \A t \in Tasks : WF_vars(ExecuteReturn(t))

\* A server that died is started again.
ServerReturns == WF_vars(Restart(TRUE))

Fairness == StartsGoOn /\ RunnerAnswers /\ ServerReturns

FairSpec == Spec /\ Fairness

-----------------------------------------------------------------------------
TypeOK ==
  /\ up \in BOOLEAN
  /\ nextID \in 0..MaxTasks
  /\ mem \in [Tasks -> Task]
  /\ starts \in [Starters -> Start]
  /\ executing \in Tasks \cup {NoTask}
  /\ row \in [Tasks -> Task]
  /\ approvals \in [ApprovalIDs -> Approval]
  /\ logged \in [Tasks -> SUBSET TaskStates]
  /\ sent \in [Tasks -> SUBSET Request]
  /\ stale \subseteq Tasks

Final == {"SUCCEEDED", "FAILED", "CANCELLED"}

Live(i) == ~approvals[i].invalidated /\ ~approvals[i].consumed

ConsumedFor(t, h) ==
  \E i \in ApprovalIDs : /\ approvals[i].run = t
                         /\ approvals[i].hash = h
                         /\ approvals[i].consumed

\* A request carries the plan whose hash it carries: the Runner, which computes
\* the hash again, does not refuse it.
SentFitsHash == \A t \in Tasks : \A r \in sent[t] : r.plan = r.hash

\* A request goes to the Runner only after an approval of exactly its hash, for
\* that task, was consumed.
HashWasApproved == \A t \in Tasks : \A r \in sent[t] : ConsumedFor(t, r.hash)

\* Whatever fails, a plan reaches the Runner only under its own hash and only
\* after an approval of exactly that hash, for that task, was consumed.  The
\* first half is the council's doing: without one SentFitsHash fails.
SentWasApproved == SentFitsHash /\ HashWasApproved

\* Approving again replaces the earlier approval: of the rows of a task at most
\* one can still be consumed, although Invalidate and Save are two statements.
OneLiveApproval ==
  \A i, j \in ApprovalIDs :
    /\ approvals[i].run \in Tasks
    /\ approvals[j].run = approvals[i].run
    /\ Live(i)
    /\ Live(j)
    => i = j

\* A task consumes one approval in its life, across failures and restarts, and
\* what went to the Runner is the plan that its row still holds.
OnePlanPerTask ==
  /\ \A i, j \in ApprovalIDs :
       /\ approvals[i].run = approvals[j].run
       /\ approvals[i].consumed
       /\ approvals[j].consumed
       => i = j
  /\ \A t \in Tasks :
       sent[t] \subseteq {[plan |-> AsSent(row[t].plan), hash |-> row[t].hash]}

\* What a running server has in memory is what a restart would read, but for
\* the version of a plan that was never written.
AsStored(t) ==
  \/ mem[t] = row[t]
  \/ mem[t] = Draft /\ row[t] = DraftRow

\* How far a task has come.
Stage(state) ==
  CASE state = "ABSENT" -> 0
    [] state = "DRAFT" -> 1
    [] state = "ANALYZING" -> 2
    [] state = "AWAITING_APPROVAL" -> 3
    [] state = "EXECUTING" -> 4
    [] state = "VERIFYING" -> 5
    [] OTHER -> 6

\* The memory of a running server is a cache of the row, apart from changes whose
\* write failed.
CacheFitsRow == up => \A t \in Tasks \ stale : AsStored(t)

\* A row never holds a later state than the memory: a failed write, and a crash,
\* leave the row behind, never ahead.
MemoryLeads == \A t \in Tasks : Stage(row[t].state) <= Stage(mem[t].state)

\* What the memory shows of a task is what its row holds or, when a write failed,
\* something later.
CacheIsCurrent == CacheFitsRow /\ MemoryLeads

\* Once a plan and its hash are stored they never change: neither a concurrent
\* start nor a restart puts another plan behind a hash that was shown.
StoredPlanIsImmutable ==
  [][\A t \in Tasks : row[t].hash # NoHash
       => row'[t].plan = row[t].plan /\ row'[t].hash = row[t].hash]_vars

\* A task whose row is final is never handed to the Runner, nor handed again.
FinalIsNotExecuted ==
  [][\A t \in Tasks : row[t].state \in Final /\ up'
       => executing' # t /\ sent'[t] = sent[t]]_vars

\* An event announces a state after the row has it, never before: a reader of
\* the events is not told of a state that a restart takes back.  Creation and
\* cancellation, which ignore the error of the row's write, are left out, and
\* so is a task whose row was never written.
EventsFollowRow ==
  [][\A t \in Tasks : \A s \in logged'[t] \ logged[t] :
       s \in {"DRAFT", "CANCELLED"} \/ row'[t].state \in {s, "ABSENT"}]_vars

\* Every start request is answered: no handler keeps API.mu.
StartIsAnswered ==
  \A s \in Starters : starts[s].pc # "idle" ~> starts[s].pc = "idle"

\* A task whose start is deliberating leaves ANALYZING, unless the server dies,
\* whoever else starts or cancels it and whichever write fails.  One that a failed
\* write or a crash left in ANALYZING has no start at work, and stays.
AnalyzingEnds ==
  \A t \in Tasks :
    /\ mem[t].state = "ANALYZING"
    /\ \E s \in Starters : starts[s] = [pc |-> "deliberating", task |-> t]
    ~> mem[t].state # "ANALYZING" \/ ~up

-----------------------------------------------------------------------------
(* What the documents say and the code does not do.                          *)

\* Once the server stays up, every task that a crash left in the middle of a
\* stage leaves it.
InterruptedIsRecovered ==
  <>[]up => \A t \in Tasks : \A s \in {"ANALYZING", "VERIFYING"} :
              row[t].state = s ~> row[t].state # s

\* SentFitsHash and StoredPlanIsImmutable, above, are stated by the documents too.
\* The code keeps the first only with a council, as a plan that was never written
\* comes back with another version, and the second only if the rows can be read
\* at a restart, as ids are handed out again otherwise.

-----------------------------------------------------------------------------
(* The promise about approvals, read off the tables.                         *)

LiveHashes(t) ==
  {approvals[i].hash : i \in {j \in ApprovalIDs : approvals[j].run = t /\ Live(j)}}

UsedHashes(t) ==
  {approvals[i].hash :
     i \in {j \in ApprovalIDs : approvals[j].run = t /\ approvals[j].consumed}}

Gate == INSTANCE ApprovalGate WITH
  open <- [t \in Tasks |-> LiveHashes(t)],
  used <- [t \in Tasks |-> UsedHashes(t)],
  sent <- [t \in Tasks |-> {r.hash : r \in sent[t]}]

\* The handlers, failures and restarts included, implement ApprovalGate.
ImplementsGate == Gate!Spec

-----------------------------------------------------------------------------
(* The inductive invariant behind the safety properties, as long as the rows *)
(* can be read at a restart.                                                 *)

Planning == {"ABSENT", "DRAFT", "ANALYZING"}

Used == {"EXECUTING", "VERIFYING", "SUCCEEDED", "FAILED", "CANCELLED"}

\* No table and no request knows an id that was not handed out yet.
FreshIDs ==
  /\ \A t \in Tasks : t > nextID => mem[t].state = "ABSENT" /\ row[t].state = "ABSENT"
  /\ \A s \in Starters : starts[s].task <= nextID

\* A hash is always that of the plan beside it, and with a council of a plan that
\* the council made.
HashFitsPlan ==
  \A t \in Tasks : \A task \in {mem[t], row[t]} :
    /\ task.hash \in {NoHash, task.plan}
    /\ HasCouncil => task.hash \in Plans \cup {NoHash}
    /\ task.state \in {"AWAITING_APPROVAL", "EXECUTING"} => task.hash # NoHash

\* A hash ends the planning of a task, and memory never departs from a stored one.
StoredHashEndsPlanning ==
  \A t \in Tasks :
    /\ mem[t].hash # NoHash => mem[t].state \notin Planning
    /\ row[t].hash # NoHash => /\ row[t].state \notin Planning
                               /\ mem[t].plan = row[t].plan
                               /\ mem[t].hash = row[t].hash

\* Execution begins with a consumed approval and is known to the row.
ExecutionIsApproved ==
  \A t \in Tasks :
    /\ mem[t].state = "EXECUTING" => row[t].state = "EXECUTING"
    /\ row[t].state = "EXECUTING" => ConsumedFor(t, row[t].hash)
    /\ executing = t => row[t].state \in {"EXECUTING", "VERIFYING"}

\* A consumed approval is the only one, and its task is past approval for good.
ConsumptionIsFinal ==
  \A i \in ApprovalIDs :
    /\ approvals[i].run = NoTask => approvals[i] = NoApproval
    /\ approvals[i].consumed =>
         LET t == approvals[i].run
         IN  /\ mem[t].state \in Used
             /\ row[t].state \in Used
             /\ row[t].hash = approvals[i].hash
             /\ row[t].hash # NoHash
             /\ \A j \in ApprovalIDs :
                  approvals[j].run = t /\ approvals[j].consumed => j = i

\* A request carries the plan behind a consumed approval's hash, under the version
\* beside it.
RequestsAreApproved ==
  \A t \in Tasks : \A r \in sent[t] :
    /\ r.plan = AsSent(r.hash)
    /\ HasCouncil => r.hash \in Plans
    /\ ConsumedFor(t, r.hash)

IInv ==
  /\ TypeOK
  /\ FreshIDs
  /\ HashFitsPlan
  /\ StoredHashEndsPlanning
  /\ ExecutionIsApproved
  /\ ConsumptionIsFinal
  /\ OneLiveApproval
  /\ RequestsAreApproved
  /\ MemoryLeads

=============================================================================
