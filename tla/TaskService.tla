----------------------------- MODULE TaskService -----------------------------
(***************************************************************************)
(* One task of the task service (internal/app/task/service.go) and its     *)
(* run record (internal/storage/sqlite/run_repository.go): concurrent      *)
(* calls of Start, Approve and Execute share the task in memory without a  *)
(* lock, and move the record by transactions that check the state machine  *)
(* (internal/core/runstate/state.go) and the version they have read.       *)
(*                                                                         *)
(* A statement of the database, or a read or write of the shared task, is  *)
(* an action; only t.State is written with the commit that comes before    *)
(* it.  A plan is written and read at once.  A hash is the plan it is the  *)
(* hash of.  The Runner behind RunnerPort compares the hash with the plan  *)
(* it is sent.                                                             *)
(***************************************************************************)
EXTENDS Naturals, Sequences, FiniteSets

CONSTANTS
  Calls,      \* calls that are made of the service
  Contents,   \* what a plan says, but for its version
  Versions,   \* versions of plans: 0 is one that the council left out
  Drafts      \* plans that a council may come to

None == "NONE"

\* A plan, and whether it has acceptance criteria.
Plans == [content : Contents \cup {None}, version : Versions, acceptance : BOOLEAN]

ASSUME TaskServiceAssumption ==
  /\ Versions \subseteq Nat /\ {0, 1} \subseteq Versions
  /\ Drafts \subseteq Plans

\* runstate.legalTransitions, of the states the service uses; and the walk of
\* Start.
Walk == <<"DRAFT", "ANALYZING", "PROPOSING", "REVIEWING", "JUDGING", "RED_TEAM",
          "AWAITING_APPROVAL">>
Legal ==
  {<<Walk[i], Walk[i + 1]>> : i \in 1 .. Len(Walk) - 1} \cup
  {<<"AWAITING_APPROVAL", "EXECUTING">>, <<"EXECUTING", "VERIFYING">>,
   <<"VERIFYING", "SUCCEEDED">>, <<"VERIFYING", "REPLANNING">>,
   <<"RED_TEAM", "JUDGING">>, <<"REPLANNING", "REVIEWING">>}
States == {e[1] : e \in Legal} \cup {e[2] : e \in Legal}

VARIABLES
  task,       \* the task in memory: its state, plan and plan version
  audit,      \* the states that were written with each AuditRecord of the run, which
              \* has itself only its sequence, in the order of the sequence
  row,        \* RunRecord: state and version
  approvals,  \* ApprovalRecord, in the order of created_at
  call,       \* the calls
  council,    \* whether the service has a council
  started,    \* history: calls of Start that returned no error
  ran,        \* history: plans the Runner has run
  granted     \* history: plans whose hash Approve took as the task's plan's

db == <<audit, row, approvals>>
vars == <<task, db, call, council, started, ran, granted>>

\* A call: where it is, the state it moves the record to, the record it has
\* read, its plan or approval, and what the Runner reported.
PCs == {"new", "version", "acceptance", "read", "write", "invalidate", "save", "mark",
        "send", "verify", "final", "done"}
Call == [pc : PCs, next : States \cup {None},
         read : [state : States \cup {None}, version : Nat],
         plan : Plans, passed : BOOLEAN]

\* Create makes the task in memory, with an empty plan of version 1 that has the
\* task's criteria, and has stored the run and its first audit event.
OwnPlan == [content |-> None, version |-> 1, acceptance |-> TRUE]
Created == [state |-> "DRAFT", plan |-> OwnPlan, version |-> 1]

NewCall == [pc |-> "new", next |-> None, read |-> [state |-> None, version |-> 0],
            plan |-> OwnPlan, passed |-> FALSE]

Init ==
  /\ task = Created
  /\ row = [state |-> "DRAFT", version |-> 1]
  /\ audit = <<"DRAFT">>
  /\ approvals = <<>>
  /\ call = [c \in Calls |-> NewCall]
  /\ council \in BOOLEAN
  /\ started = {} /\ ran = {} /\ granted = {}

At(c, pc) == call[c].pc = pc
Goto(c, pc) == call' = [call EXCEPT ![c].pc = pc]
GotoNext(c, pc, next) == call' = [call EXCEPT ![c].pc = pc, ![c].next = next]

-----------------------------------------------------------------------------
(* RunRepository.Transition                                                 *)

\* Where a call goes on after its transition.  Execute ignores errors.
After(c, ok) ==
  LET next == call[c].next
  IN  CASE next = "EXECUTING" -> Goto(c, "send")
        [] next = "VERIFYING" -> Goto(c, "final")
        [] next \in {"SUCCEEDED", "REPLANNING"} -> Goto(c, "done")
        [] ~ok -> Goto(c, "done")
        [] next = "AWAITING_APPROVAL" -> Goto(c, "done")
        [] OTHER -> GotoNext(c, "read", Walk[(CHOOSE i \in DOMAIN Walk : Walk[i] = next) + 1])

TransitionRead(c) ==
  /\ At(c, "read")
  /\ call' = [call EXCEPT ![c].pc = "write", ![c].read = row]
  /\ UNCHANGED <<task, db, started, ran, granted>>

\* Variant: neither the version nor the sequence of the audit is looked at.
CommitsStale(c) == <<call[c].read.state, call[c].next>> \in Legal

\* The transition is legal from the state that was read, and the record is
\* still the one that was read.  (A second audit event of a sequence would
\* break a unique index, and roll back too.)
Commits(c) ==
  /\ <<call[c].read.state, call[c].next>> \in Legal
  /\ row.version = call[c].read.version

TransitionWrite(c) ==
  /\ At(c, "write")
  /\ LET next == call[c].next
     IN  IF Commits(c)
         THEN /\ row' = [state |-> next, version |-> call[c].read.version + 1]
              /\ audit' = Append(audit, next)
              /\ task' = IF next \in {Walk[i] : i \in 2 .. Len(Walk)}
                         THEN [task EXCEPT !.state = next] ELSE task
              /\ started' = IF next = "AWAITING_APPROVAL" THEN started \cup {c} ELSE started
         ELSE UNCHANGED <<row, audit, task, started>>
  /\ After(c, Commits(c))
  /\ UNCHANGED <<approvals, ran, granted>>

\* A statement fails, or the context is done.
TransitionFails(c) ==
  /\ At(c, "read") \/ At(c, "write")
  /\ After(c, FALSE)
  /\ UNCHANGED <<task, db, started, ran, granted>>

-----------------------------------------------------------------------------
(* Start                                                                    *)

\* Without a council the task keeps the plan it has.
StartAsIs(c) ==
  /\ At(c, "new") /\ ~council
  /\ GotoNext(c, "read", "ANALYZING")
  /\ UNCHANGED <<task, db, started, ran, granted>>

\* The council comes to a plan, which takes the place of the task's, whatever
\* the task's state; then the version of the one goes to the other, and the
\* task's criteria to a plan that has none.
Deliberated(c, p) ==
  /\ At(c, "new") /\ council
  /\ task' = [task EXCEPT !.plan = p]
  /\ Goto(c, "version")
  /\ UNCHANGED <<db, started, ran, granted>>

SetVersion(c) ==
  /\ At(c, "version")
  /\ task' = IF task.plan.version = 0
             THEN [task EXCEPT !.plan.version = task.version]
             ELSE [task EXCEPT !.version = task.plan.version]
  /\ Goto(c, "acceptance")
  /\ UNCHANGED <<db, started, ran, granted>>

FillAcceptance(c) ==
  /\ At(c, "acceptance")
  /\ task' = [task EXCEPT !.plan.acceptance = TRUE]
  /\ GotoNext(c, "read", "ANALYZING")
  /\ UNCHANGED <<db, started, ran, granted>>

-----------------------------------------------------------------------------
(* Approve                                                                  *)

\* Variant: the hash is not compared with the task's plan.
VerifiesAny(hash) == TRUE

Verifies(hash) == hash = task.plan

Approve(c, hash, version) ==
  /\ At(c, "new")
  /\ task.state = "AWAITING_APPROVAL" /\ version = task.version /\ Verifies(hash)
  /\ call' = [call EXCEPT ![c].pc = "invalidate", ![c].plan = hash, ![c].read.version = version]
  /\ granted' = IF hash = task.plan THEN granted \cup {hash} ELSE granted
  /\ UNCHANGED <<task, db, started, ran>>

Invalidate(c) ==
  /\ At(c, "invalidate")
  /\ approvals' = [i \in DOMAIN approvals |-> [approvals[i] EXCEPT !.live = FALSE]]
  /\ Goto(c, "save")
  /\ UNCHANGED <<task, audit, row, started, ran, granted>>

Save(c) ==
  /\ At(c, "save")
  /\ approvals' = Append(approvals, [hash |-> call[c].plan, version |-> call[c].read.version, live |-> TRUE])
  /\ Goto(c, "done")
  /\ UNCHANGED <<task, audit, row, started, ran, granted>>

ApproveFails(c) ==
  /\ At(c, "invalidate") \/ At(c, "save")
  /\ Goto(c, "done")
  /\ UNCHANGED <<task, db, started, ran, granted>>

-----------------------------------------------------------------------------
(* Execute                                                                  *)

\* ApprovalRepository.Current: the last one that was not invalidated, whether
\* or not it was used.
Current == {i \in DOMAIN approvals :
              /\ approvals[i].live /\ approvals[i].version = task.version
              /\ \A j \in DOMAIN approvals :
                   approvals[j].live /\ approvals[j].version = task.version => j <= i}

Execute(c) ==
  /\ At(c, "new")
  /\ \E i \in Current : call' = [call EXCEPT ![c].pc = "mark", ![c].plan = approvals[i].hash]
  /\ UNCHANGED <<task, db, started, ran, granted>>

\* t.State is set, and then the record, if it can be.
Mark(c, pc, state) ==
  /\ At(c, pc)
  /\ task' = [task EXCEPT !.state = state]
  /\ GotoNext(c, "read", state)
  /\ UNCHANGED <<db, started, ran, granted>>

RunnerAccepts(hash, plan) == hash = plan

\* The task's plan is sent with the approval's hash.
Send(c) ==
  /\ At(c, "send")
  /\ RunnerAccepts(call[c].plan, task.plan)
  /\ ran' = ran \cup {task.plan}
  /\ \E b \in BOOLEAN : call' = [call EXCEPT ![c].pc = "verify", ![c].passed = b]
  /\ UNCHANGED <<task, db, started, granted>>

SendFails(c) ==
  /\ At(c, "send")
  /\ Goto(c, "done")
  /\ UNCHANGED <<task, db, started, ran, granted>>

ExecuteStep(c) ==
  \/ Mark(c, "mark", "EXECUTING")
  \/ Send(c) \/ SendFails(c)
  \/ Mark(c, "verify", "VERIFYING")
  \/ Mark(c, "final", IF call[c].passed THEN "SUCCEEDED" ELSE "REPLANNING")

-----------------------------------------------------------------------------
Next ==
  /\ UNCHANGED council
  /\ \E c \in Calls :
       \/ TransitionRead(c) \/ TransitionWrite(c) \/ TransitionFails(c)
       \/ StartAsIs(c) \/ (\E p \in Drafts : Deliberated(c, p))
       \/ SetVersion(c) \/ FillAcceptance(c)
       \/ \E h \in Plans, v \in Versions : Approve(c, h, v)
       \/ Invalidate(c) \/ Save(c) \/ ApproveFails(c)
       \/ Execute(c) \/ ExecuteStep(c)

Spec == Init /\ [][Next]_vars

-----------------------------------------------------------------------------
TypeOK ==
  /\ task \in [state : States, plan : Plans, version : Versions]
  /\ row \in [state : States, version : Nat]
  /\ audit \in Seq(States)
  /\ approvals \in Seq([hash : Plans, version : Nat, live : BOOLEAN])
  /\ call \in [Calls -> Call] /\ council \in BOOLEAN
  /\ started \subseteq Calls /\ ran \subseteq Plans /\ granted \subseteq Plans

\* Whatever calls interleave, the audit log is the run's history: one event for
\* every version, ending in the record's state, each a legal transition from
\* the one before it (Transition reads the record and writes it later).
HistoryIsLegal ==
  /\ Len(audit) = row.version /\ audit[Len(audit)] = row.state
  /\ \A i \in 1 .. Len(audit) - 1 : <<audit[i], audit[i + 1]>> \in Legal

\* Of the calls of Start at most one returns without an error, and the run has
\* only what Start and Execute did to it: no state twice.
StartedOnce ==
  /\ Cardinality(started) <= 1
  /\ \A i, j \in DOMAIN audit : audit[i] = audit[j] => i = j

\* What the Runner runs is a plan that was approved while it was the task's
\* plan, though a second Start replaces the plan before it fails, and neither
\* Approve nor Execute holds a lock.
RanWasApproved == ran \subseteq granted

\* The transactions on the record and the unlocked reads and writes of the task do
\* what RunLifecycle allows: a transition that was read and written in two steps is
\* one move of the run, made by one call or by none.
Lifecycle == INSTANCE RunLifecycle WITH history <- audit, starter <- started

ImplementsLifecycle == Lifecycle!Spec

=============================================================================
