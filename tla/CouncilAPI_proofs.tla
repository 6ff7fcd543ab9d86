-------------------------- MODULE CouncilAPI_proofs --------------------------
(***************************************************************************)
(* Proofs about CouncilAPI for every number of tasks, plans, requests and  *)
(* approvals, and for every set of faults that a theorem does not exclude. *)
(***************************************************************************)
EXTENDS CouncilAPI, TLAPS

-----------------------------------------------------------------------------
(* Types.  The helpers first: what the database calls of a handler leave.    *)

LEMMA Shapes ==
  /\ Absent \in Task
  /\ Draft \in Task
  /\ DraftRow \in Task
  /\ Idle \in Start
  /\ NoApproval \in Approval
BY DEF Absent, Draft, DraftRow, Task, TaskStates, Idle, Start, NoApproval, Approval,
       AllPlans, Hashes

\* A change of state leaves a task.
LEMMA StateOfTask ==
  ASSUME NEW task \in Task, NEW state \in TaskStates
  PROVE  [task EXCEPT !.state = state] \in Task
BY DEF Task

\* The fields of a created task and of its row.
LEMMA Drafts ==
  /\ Draft.state = "DRAFT" /\ Draft.hash = NoHash
  /\ DraftRow.state = "DRAFT" /\ DraftRow.hash = NoHash
  /\ Absent.state = "ABSENT"
BY DEF Draft, DraftRow, Absent

\* A request carries a plan that can be hashed.
LEMMA SentType == \A plan \in AllPlans : AsSent(plan) \in AllPlans
BY DEF AsSent, AllPlans

LEMMA TransitionType ==
  ASSUME TypeOK, NEW t \in Tasks, NEW task \in Task, NEW ok,
         Transition(t, task, ok)
  PROVE  /\ mem' \in [Tasks -> Task]
         /\ row' \in [Tasks -> Task]
         /\ stale' \subseteq Tasks
         /\ logged' \in [Tasks -> SUBSET TaskStates]
<1>1. task.state \in TaskStates
  BY DEF Task
<1>2. row' \in [Tasks -> Task] /\ stale' \subseteq Tasks
  BY DEF Transition, Persist, TypeOK
<1>3. logged' \in [Tasks -> SUBSET TaskStates]
  BY <1>1 DEF Transition, Log, TypeOK
<1>4. mem' \in [Tasks -> Task]
  BY DEF Transition, TypeOK
<1>5. QED
  BY <1>2, <1>3, <1>4

LEMMA InvalidatedType ==
  ASSUME TypeOK, NEW t \in Tasks
  PROVE  Invalidated(t) \in [ApprovalIDs -> Approval]
BY DEF TypeOK, Invalidated, Approval

LEMMA TypeInit == Init => TypeOK
BY Shapes, CouncilAssumption DEF Init, TypeOK

\* One step per action of Next.
LEMMA TypeNext == TypeOK /\ [Next]_vars => TypeOK'
<1> SUFFICES ASSUME TypeOK, [Next]_vars
             PROVE  TypeOK'
  OBVIOUS
<1> USE DEF TypeOK
<1>1. ASSUME NEW ok \in SUBSET CreateCalls, Create(ok)
      PROVE  TypeOK'
  <2> DEFINE t == nextID + 1
  <2>1. t \in Tasks /\ nextID' = t /\ up' \in BOOLEAN
    BY <1>1 DEF Create, Fate
  <2>2. t \in 0..MaxTasks
    BY <2>1, CouncilAssumption DEF Tasks
  <2>3. mem' \in [Tasks -> Task] /\ row' \in [Tasks -> Task] /\ stale' \subseteq Tasks
    BY <1>1, <2>1, Shapes DEF Create
  <2>4. logged' \in [Tasks -> SUBSET TaskStates]
    BY <1>1, <2>1 DEF Create, Log, TaskStates
  <2>5. QED
    BY <1>1, <2>1, <2>2, <2>3, <2>4 DEF Create
<1>2. ASSUME NEW s \in Starters, NEW t \in Tasks, StartCheck(s, t)
      PROVE  TypeOK'
  BY <1>2 DEF StartCheck, Start, database, history
<1>3. ASSUME NEW s \in Starters, StartUnavailable(s)
      PROVE  TypeOK'
  BY <1>3, Shapes DEF StartUnavailable, database, history
<1>4. ASSUME NEW s \in Starters, NEW ok, StartAnalyzing(s, ok)
      PROVE  TypeOK'
  <2>1. starts[s].task \in Tasks /\ starts[s] \in [pc: {"reading", "deliberating"}, task: Tasks]
    BY <1>4 DEF StartAnalyzing, Start, Idle
  <2>2. [mem[starts[s].task] EXCEPT !.state = "ANALYZING"] \in Task
    <3>1. mem[starts[s].task] \in Task /\ "ANALYZING" \in TaskStates
      BY <2>1 DEF TaskStates
    <3>2. QED
      BY <3>1, StateOfTask
  <2>3. starts' \in [Starters -> Start]
    BY <1>4, <2>1, Shapes DEF StartAnalyzing, Start
  <2>4. QED
    BY <1>4, <2>1, <2>2, <2>3, TransitionType DEF StartAnalyzing, Fate
<1>5. ASSUME NEW s \in Starters, StartConflict(s)
      PROVE  TypeOK'
  BY <1>5, Shapes DEF StartConflict, database, history
<1>6. ASSUME NEW s \in Starters, NEW ok, StartFailed(s, ok)
      PROVE  TypeOK'
  <2>1. starts[s].task \in Tasks
    BY <1>6 DEF StartFailed, Start, Idle
  <2>2. [mem[starts[s].task] EXCEPT !.state = "FAILED"] \in Task
    <3>1. mem[starts[s].task] \in Task /\ "FAILED" \in TaskStates
      BY <2>1 DEF TaskStates
    <3>2. QED
      BY <3>1, StateOfTask
  <2>3. starts' \in [Starters -> Start]
    BY <1>6, Shapes DEF StartFailed
  <2>4. QED
    BY <1>6, <2>1, <2>2, <2>3, TransitionType DEF StartFailed, Fate
<1>7. ASSUME NEW s \in Starters, NEW p \in AllPlans, NEW ok, StartPublish(s, p, ok)
      PROVE  TypeOK'
  <2>1. starts[s].task \in Tasks
    BY <1>7 DEF StartPublish, Start, Idle
  <2>2. [mem[starts[s].task] EXCEPT !.state = "AWAITING_APPROVAL", !.plan = p,
                                    !.hash = p] \in Task
    <3>1. p \in Hashes
      BY DEF Hashes
    <3>2. mem[starts[s].task] \in Task
      BY <2>1
    <3>3. QED
      BY <3>1, <3>2 DEF Task, TaskStates
  <2>3. starts' \in [Starters -> Start]
    BY <1>7, Shapes DEF StartPublish
  <2>4. QED
    BY <1>7, <2>1, <2>2, <2>3, TransitionType DEF StartPublish, Fate
<1>8. ASSUME NEW t \in Tasks, NEW h \in Hashes, NEW ok, Approve(t, h, ok)
      PROVE  TypeOK'
  <2> DEFINE task == [mem[t] EXCEPT !.hash = h, !.approved = TRUE]
  <2>1. task \in Task
    BY DEF Task
  <2>2. approvals' \in [ApprovalIDs -> Approval]
    BY <1>8, InvalidatedType DEF Approve, Approval
  <2>3. mem' \in [Tasks -> Task] /\ row' \in [Tasks -> Task] /\ stale' \subseteq Tasks
    BY <1>8, <2>1 DEF Approve, Persist
  <2>4. QED
    BY <1>8, <2>2, <2>3 DEF Approve, Fate
<1>9. ASSUME NEW t \in Tasks, NEW ok, CancelOrReject(t, ok)
      PROVE  TypeOK'
  <2> DEFINE task == [mem[t] EXCEPT !.state = "CANCELLED", !.approved = FALSE]
  <2>1. task \in Task
    <3>1. mem[t] \in Task /\ "CANCELLED" \in TaskStates
      BY DEF TaskStates
    <3>2. QED
      BY <3>1 DEF Task
  <2>2. mem' \in [Tasks -> Task] /\ row' \in [Tasks -> Task] /\ stale' \subseteq Tasks
    BY <1>9, <2>1 DEF CancelOrReject, Persist
  <2>3. logged' \in [Tasks -> SUBSET TaskStates]
    BY <1>9 DEF CancelOrReject, Log, TaskStates
  <2>4. QED
    BY <1>9, <2>2, <2>3 DEF CancelOrReject, Fate
<1>10. ASSUME NEW t \in Tasks, Send(t)
       PROVE  executing' \in Tasks \cup {NoTask} /\ sent' \in [Tasks -> SUBSET Request]
  BY <1>10, SentType DEF Send, Request, Task
<1>11. ASSUME NEW t \in Tasks, NEW ok, ExecuteFirst(t, ok)
       PROVE  TypeOK'
  <2>1. approvals' \in [ApprovalIDs -> Approval]
    BY <1>11 DEF ExecuteFirst, ConsumeAndMark, Approval
  <2>2. mem' \in [Tasks -> Task] /\ row' \in [Tasks -> Task]
    BY <1>11 DEF ExecuteFirst, ConsumeAndMark, Task, TaskStates
  <2>3. logged' \in [Tasks -> SUBSET TaskStates]
    BY <1>11 DEF ExecuteFirst, Log, TaskStates
  <2>4. QED
    BY <1>10, <1>11, <2>1, <2>2, <2>3 DEF ExecuteFirst, Fate
<1>12. ASSUME NEW t \in Tasks, ExecuteAgain(t)
       PROVE  TypeOK'
  BY <1>10, <1>12 DEF ExecuteAgain, database
<1>13. ASSUME NEW t \in Tasks, RunnerUnavailable(t)
       PROVE  TypeOK'
  BY <1>13 DEF RunnerUnavailable, database, history
<1>14. ASSUME NEW t \in Tasks, NEW ok, RunnerFailed(t, ok)
       PROVE  TypeOK'
  <2>1. [mem[t] EXCEPT !.state = "FAILED"] \in Task
    <3>1. mem[t] \in Task /\ "FAILED" \in TaskStates
      BY DEF TaskStates
    <3>2. QED
      BY <3>1, StateOfTask
  <2>2. QED
    BY <1>14, <2>1, TransitionType DEF RunnerFailed, Fate
<1>15. ASSUME NEW t \in Tasks, NEW ok, RunnerSucceeded(t, ok)
       PROVE  TypeOK'
  <2>1. [mem[t] EXCEPT !.state = "VERIFYING", !.verified = TRUE] \in Task
    <3>1. mem[t] \in Task /\ "VERIFYING" \in TaskStates
      BY DEF TaskStates
    <3>2. QED
      BY <3>1 DEF Task
  <2>2. QED
    BY <1>15, <2>1, TransitionType DEF RunnerSucceeded, Fate
<1>16. ASSUME NEW t \in Tasks, NEW ok, Finish(t, ok)
       PROVE  TypeOK'
  <2>1. [mem[t] EXCEPT !.state = "SUCCEEDED"] \in Task
    <3>1. mem[t] \in Task /\ "SUCCEEDED" \in TaskStates
      BY DEF TaskStates
    <3>2. QED
      BY <3>1, StateOfTask
  <2>2. QED
    BY <1>16, <2>1, TransitionType DEF Finish, Fate
<1>17. CASE Crash
  BY <1>17 DEF Crash, database, history
<1>18. ASSUME NEW loaded \in BOOLEAN, Restart(loaded)
       PROVE  TypeOK'
  BY <1>18, Shapes, CouncilAssumption DEF Restart, Rehydrate, Stored, Tasks, database
<1>19. CASE UNCHANGED vars
  BY <1>19 DEF vars
<1>20. QED
  BY <1>1, <1>2, <1>3, <1>4, <1>5, <1>6, <1>7, <1>8, <1>9, <1>11, <1>12, <1>13,
     <1>14, <1>15, <1>16, <1>17, <1>18, <1>19
     DEF Next, StartStep, ExecuteReturn, ClientRequest

\* Every variable of the server and of its tables keeps its type, whatever fails.
THEOREM TypeCorrect == Spec => []TypeOK
BY TypeInit, TypeNext, PTL DEF Spec

-----------------------------------------------------------------------------
(* The inductive invariant.  Most handlers replace one task in memory, and   *)
(* perhaps in its row, and touch no approval: Follows says what the new task *)
(* must respect, and TaskUpdate that it is enough.                           *)

Parts == /\ FreshIDs
         /\ HashFitsPlan
         /\ StoredHashEndsPlanning
         /\ ExecutionIsApproved
         /\ ConsumptionIsFinal
         /\ OneLiveApproval
         /\ RequestsAreApproved
         /\ MemoryLeads

ConsumedOf(t) == \E i \in ApprovalIDs : approvals[i].run = t /\ approvals[i].consumed

Follows(t, task) ==
  /\ task \in Task
  /\ task.state # "EXECUTING"
  /\ task.hash \in {NoHash, task.plan}
  /\ HasCouncil => task.hash \in Plans \cup {NoHash}
  /\ Stage(mem[t].state) <= Stage(task.state)
  /\ task.state = "AWAITING_APPROVAL" => task.hash # NoHash
  /\ row[t].hash # NoHash => task.plan = row[t].plan /\ task.hash = row[t].hash
  /\ row[t].hash # NoHash \/ task.hash # NoHash => task.state \notin Planning
  /\ ConsumedOf(t) => task.state \in Used

\* Of a row with a hash, no step changes the plan or the hash.
PlansKept ==
  \A t \in Tasks : row[t].hash # NoHash
    => row'[t].plan = row[t].plan /\ row'[t].hash = row[t].hash

LEMMA ConsumedHasTask ==
  ASSUME TypeOK, ConsumptionIsFinal, NEW i \in ApprovalIDs, approvals[i].consumed
  PROVE  approvals[i].run \in Tasks
BY DEF TypeOK, Approval, ConsumptionIsFinal, NoApproval

\* The states of a task are numbered in the order it goes through them.
LEMMA StageType ==
  /\ \A state : Stage(state) \in Nat /\ Stage("ABSENT") <= Stage(state)
  /\ \A state : Stage(state) <= 6
  /\ \A state : state \in {"SUCCEEDED", "FAILED", "CANCELLED"} => Stage(state) = 6
  /\ Stage("ABSENT") = 0 /\ Stage("DRAFT") = 1 /\ Stage("ANALYZING") = 2
  /\ Stage("AWAITING_APPROVAL") = 3 /\ Stage("EXECUTING") = 4
  /\ Stage("VERIFYING") = 5
BY DEF Stage

LEMMA TaskUpdate ==
  ASSUME TypeOK, Parts,
         NEW t \in Tasks, NEW task, Follows(t, task),
         t <= nextID,
         mem' = [mem EXCEPT ![t] = task],
         row' \in {row, [row EXCEPT ![t] = task]},
         UNCHANGED <<nextID, approvals, sent>>,
         \A s \in Starters : starts'[s].task \in {starts[s].task, NoTask},
         \/ executing' = NoTask
         \/ executing' = t /\ row'[t].state \in {"EXECUTING", "VERIFYING"}
  PROVE  Parts' /\ PlansKept
<1> USE DEF TypeOK, Follows, Parts
<1>1. \A u \in Tasks : /\ mem'[u] = IF u = t THEN task ELSE mem[u]
                       /\ row'[u] \in IF u = t THEN {row[u], task} ELSE {row[u]}
  OBVIOUS
<1>2. nextID \in Nat /\ NoTask \notin Tasks /\ NoTask <= nextID
  BY CouncilAssumption DEF NoTask, Tasks
<1>3. FreshIDs'
  <2>1. \A s \in Starters : starts'[s].task <= nextID
    BY <1>2 DEF FreshIDs
  <2>2. ~(t > nextID)
    BY <1>2 DEF Tasks
  <2>3. QED
    BY <1>1, <2>1, <2>2 DEF FreshIDs
<1>4. HashFitsPlan'
  BY <1>1 DEF HashFitsPlan
<1>5. StoredHashEndsPlanning'
  BY <1>1 DEF StoredHashEndsPlanning
<1>6. ExecutionIsApproved'
  BY <1>1, <1>2 DEF ExecutionIsApproved, ConsumedFor
<1>7. ConsumptionIsFinal'
  <2>1. ASSUME NEW i \in ApprovalIDs, approvals[i].consumed
        PROVE  LET u == approvals[i].run
               IN  /\ mem'[u].state \in Used
                   /\ row'[u].state \in Used
                   /\ row'[u].hash = approvals[i].hash
                   /\ row'[u].hash # NoHash
    <3> DEFINE u == approvals[i].run
    <3>1. u \in Tasks
      BY <2>1, ConsumedHasTask
    <3>2. /\ mem[u].state \in Used
          /\ row[u].state \in Used
          /\ row[u].hash = approvals[i].hash
          /\ row[u].hash # NoHash
      BY <2>1 DEF ConsumptionIsFinal
    <3>3. u = t => task.state \in Used
      BY <2>1 DEF ConsumedOf
    <3>4. QED
      BY <1>1, <3>1, <3>2, <3>3
  <2>2. QED
    BY <2>1 DEF ConsumptionIsFinal
<1>8. OneLiveApproval'
  BY DEF OneLiveApproval, Live
<1>9. RequestsAreApproved'
  BY DEF RequestsAreApproved, ConsumedFor
<1>10. PlansKept
  BY <1>1 DEF PlansKept
<1>11. MemoryLeads'
  BY <1>1, StageType DEF MemoryLeads
<1>12. QED
  BY <1>3, <1>4, <1>5, <1>6, <1>7, <1>8, <1>9, <1>10, <1>11

\* A step that leaves all of these alone, but for requests that end.
LEMMA NothingStored ==
  ASSUME TypeOK, Parts,
         UNCHANGED <<nextID, mem, row, approvals, sent>>,
         \A s \in Starters : starts'[s].task <= nextID,
         executing' \in {executing, NoTask}
  PROVE  Parts' /\ PlansKept
<1>1. NoTask \notin Tasks
  BY CouncilAssumption DEF NoTask, Tasks
<1>2. QED
  BY <1>1 DEF Parts, FreshIDs, HashFitsPlan, StoredHashEndsPlanning, ExecutionIsApproved,
     ConsumedFor, ConsumptionIsFinal, OneLiveApproval, Live, RequestsAreApproved,
     MemoryLeads, PlansKept

LEMMA PartsInit == Init => Parts
BY CouncilAssumption, StageType
   DEF Init, Parts, Absent, NoApproval, Idle, NoTask, Tasks, FreshIDs, HashFitsPlan,
       StoredHashEndsPlanning, ExecutionIsApproved, ConsumptionIsFinal, OneLiveApproval,
       RequestsAreApproved, MemoryLeads

\* What the handlers that call transitionTask have in common.
LEMMA ByTransition ==
  ASSUME TypeOK, Parts,
         NEW t \in Tasks, NEW task, NEW ok, Follows(t, task),
         t <= nextID,
         Transition(t, task, ok),
         UNCHANGED <<nextID, approvals, sent>>,
         \A s \in Starters : starts'[s].task \in {starts[s].task, NoTask},
         \/ executing' = NoTask
         \/ executing' = t /\ row'[t].state \in {"EXECUTING", "VERIFYING"}
  PROVE  Parts' /\ PlansKept
<1>1. mem' = [mem EXCEPT ![t] = task] /\ row' \in {row, [row EXCEPT ![t] = task]}
  BY DEF Transition, Persist
<1>2. QED
  BY <1>1, TaskUpdate

\* A task that is still being planned has no hash in its row and consumed nothing.
LEMMA PlanningIsUnhashed ==
  ASSUME TypeOK, Parts, NEW t \in Tasks, mem[t].state \in Planning
  PROVE  row[t].hash = NoHash /\ ~ConsumedOf(t)
<1>1. row[t].hash = NoHash
  BY DEF Parts, StoredHashEndsPlanning
<1>2. ~ConsumedOf(t)
  BY DEF Parts, ConsumptionIsFinal, ConsumedOf, Planning, Used
<1>3. QED
  BY <1>1, <1>2

LEMMA CreateParts ==
  ASSUME TypeOK, Parts, NEW ok, Create(ok)
  PROVE  Parts' /\ PlansKept
<1> DEFINE t == nextID + 1
<1>1. /\ t \in Tasks /\ nextID' = t
      /\ mem' = [mem EXCEPT ![t] = Draft]
      /\ row' \in {row, [row EXCEPT ![t] = DraftRow]}
      /\ executing = NoTask
      /\ UNCHANGED <<starts, executing, approvals, sent>>
  BY DEF Create, Unlocked
<1> HIDE DEF t
<1>2. /\ nextID \in Nat /\ t > nextID
      /\ \A u \in Tasks : u > t => u > nextID
      /\ \A u \in Tasks : u > t => u # t
      /\ \A u \in Tasks \cup {NoTask} : u <= nextID => u <= t
  BY CouncilAssumption DEF TypeOK, Tasks, NoTask, t
<1>3. mem[t].state = "ABSENT" /\ row[t].state = "ABSENT"
  BY <1>1, <1>2 DEF Parts, FreshIDs
<1>4. row[t].hash = NoHash /\ ~ConsumedOf(t)
  BY <1>1, <1>3, PlanningIsUnhashed DEF Planning
<1>5. /\ Draft.state = "DRAFT" /\ Draft.hash = NoHash
      /\ DraftRow.state = "DRAFT" /\ DraftRow.hash = NoHash
  BY Drafts
<1>6. \A u \in Tasks : /\ mem'[u] = IF u = t THEN Draft ELSE mem[u]
                       /\ row'[u] \in IF u = t THEN {row[u], DraftRow} ELSE {row[u]}
  BY <1>1 DEF TypeOK
<1>7. FreshIDs'
  <2>1. \A s \in Starters : starts[s].task \in Tasks \cup {NoTask}
    BY DEF TypeOK, Start, Idle
  <2>2. QED
    BY <1>1, <1>2, <1>6, <2>1 DEF Parts, FreshIDs
<1>8. HashFitsPlan'
  BY <1>5, <1>6 DEF Parts, HashFitsPlan
<1>9. StoredHashEndsPlanning'
  BY <1>4, <1>5, <1>6 DEF Parts, StoredHashEndsPlanning
<1>10. ExecutionIsApproved'
  <2>1. executing' \notin Tasks
    BY <1>1, CouncilAssumption DEF NoTask, Tasks
  <2>2. row[t].state # "EXECUTING"
    BY <1>3
  <2>3. ASSUME NEW u \in Tasks
        PROVE  /\ mem'[u].state = "EXECUTING" => row'[u].state = "EXECUTING"
               /\ row'[u].state = "EXECUTING" => ConsumedFor(u, row[u].hash)'
    <3>1. CASE u = t
      BY <1>5, <1>6, <2>2, <3>1
    <3>2. CASE u # t
      <4>1. mem'[u] = mem[u] /\ row'[u] = row[u] /\ approvals' = approvals
        BY <1>1, <1>6, <3>2
      <4>2. QED
        BY <4>1 DEF Parts, ExecutionIsApproved, ConsumedFor
    <3>3. QED
      BY <3>1, <3>2
  <2>4. QED
    BY <2>1, <2>3 DEF ExecutionIsApproved
<1>11. ConsumptionIsFinal'
  <2>1. \A i \in ApprovalIDs : approvals[i].consumed =>
          approvals[i].run \in Tasks /\ approvals[i].run # t
    BY <1>4, ConsumedHasTask DEF Parts, ConsumedOf
  <2>2. \A i \in ApprovalIDs : approvals[i].consumed =>
          /\ mem'[approvals[i].run] = mem[approvals[i].run]
          /\ row'[approvals[i].run] = row[approvals[i].run]
    BY <1>6, <2>1
  <2>3. QED
    BY <1>1, <2>2 DEF Parts, ConsumptionIsFinal
<1>12. OneLiveApproval' /\ RequestsAreApproved'
  BY <1>1 DEF Parts, OneLiveApproval, Live, RequestsAreApproved, ConsumedFor
<1>13. PlansKept
  BY <1>4, <1>6 DEF PlansKept
<1>14. MemoryLeads'
  <2>1. /\ Stage(Draft.state) = 1 /\ Stage(DraftRow.state) = 1
        /\ Stage(row[t].state) = 0
    BY <1>3, <1>5, StageType
  <2>2. \A u \in Tasks : Stage(row[u].state) <= Stage(mem[u].state)
    BY DEF Parts, MemoryLeads
  <2>3. ASSUME NEW u \in Tasks
        PROVE  Stage(row'[u].state) <= Stage(mem'[u].state)
    <3>1. CASE u = t
      <4>1. Stage(mem'[t].state) = 1
        BY <1>1, <1>6, <2>1
      <4>2. Stage(row'[t].state) \in {0, 1}
        BY <1>1, <1>6, <2>1
      <4>3. QED
        BY <3>1, <4>1, <4>2
    <3>2. CASE u # t
      BY <1>6, <2>2, <3>2
    <3>3. QED
      BY <3>1, <3>2
  <2>4. QED
    BY <2>3 DEF MemoryLeads
<1>15. QED
  BY <1>7, <1>8, <1>9, <1>10, <1>11, <1>12, <1>13, <1>14 DEF Parts

LEMMA StartParts ==
  ASSUME TypeOK, Parts, NEW s \in Starters, StartStep(s)
  PROVE  Parts' /\ PlansKept
<1> DEFINE t == starts[s].task
<1>1. \A r \in Starters : starts[r].task <= nextID
  BY DEF Parts, FreshIDs
<1>2. ASSUME starts[s].pc # "idle"
      PROVE  t \in Tasks
  BY <1>2 DEF TypeOK, Start, Idle
<1>3. nextID \in Nat /\ NoTask <= nextID
  BY CouncilAssumption DEF TypeOK, NoTask
<1>4. ASSUME starts' = [starts EXCEPT ![s] = Idle]
      PROVE  \A r \in Starters : /\ starts'[r].task \in {starts[r].task, NoTask}
                                 /\ starts'[r].task <= nextID
  BY <1>1, <1>3, <1>4 DEF TypeOK, Idle
<1>5. CASE StartUnavailable(s) \/ StartConflict(s)
  <2>1. /\ UNCHANGED <<nextID, mem, row, approvals, sent, executing>>
        /\ starts' = [starts EXCEPT ![s] = Idle]
    BY <1>5 DEF StartUnavailable, StartConflict, database, history
  <2>2. QED
    BY <1>4, <2>1, NothingStored
<1>6. ASSUME NEW ok, StartAnalyzing(s, ok)
      PROVE  Parts' /\ PlansKept
  <2> DEFINE task == [mem[t] EXCEPT !.state = "ANALYZING"]
  <2>1. t \in Tasks /\ mem[t].state \in Planning /\ mem[t].state # "ABSENT"
    BY <1>2, <1>6 DEF StartAnalyzing, Planning
  <2>2. row[t].hash = NoHash /\ ~ConsumedOf(t) /\ mem[t].hash = NoHash
    BY <2>1, PlanningIsUnhashed DEF Parts, StoredHashEndsPlanning
  <2>3. mem[t] \in Task /\ "ANALYZING" \in TaskStates
    BY <2>1 DEF TypeOK, TaskStates
  <2>4. Follows(t, task)
    BY <1>6, <2>2, <2>3, StageType DEF Follows, Task, StartAnalyzing
  <2>5. t <= nextID
    BY <1>1
  <2>6. \A r \in Starters : starts'[r].task \in {starts[r].task, NoTask}
    BY <1>6 DEF StartAnalyzing, TypeOK, Start, Idle
  <2>7. QED
    BY <1>6, <2>1, <2>4, <2>5, <2>6, ByTransition DEF StartAnalyzing, Unlocked
<1>7. ASSUME NEW ok, StartFailed(s, ok)
      PROVE  Parts' /\ PlansKept
  <2> DEFINE task == [mem[t] EXCEPT !.state = "FAILED"]
  <2>1. t \in Tasks
    BY <1>2, <1>7 DEF StartFailed
  <2>2. mem[t] \in Task /\ "FAILED" \in TaskStates
    BY <2>1 DEF TypeOK, TaskStates
  <2>3. Follows(t, task)
    BY <2>1, <2>2, StageType DEF Follows, Task, Planning, Used, Parts, HashFitsPlan,
                                 StoredHashEndsPlanning
  <2>4. t <= nextID
    BY <1>1
  <2>5. starts' = [starts EXCEPT ![s] = Idle] /\ executing = NoTask
        /\ UNCHANGED <<nextID, executing, approvals, sent>>
    BY <1>7 DEF StartFailed, Unlocked
  <2>6. CASE mem[t].state # "FAILED"
    BY <1>4, <1>7, <2>1, <2>3, <2>4, <2>5, <2>6, ByTransition DEF StartFailed
  <2>7. CASE mem[t].state = "FAILED"
    BY <1>4, <1>7, <2>5, <2>7, NothingStored DEF StartFailed
  <2>8. QED
    BY <2>6, <2>7
<1>8. ASSUME NEW p \in AllPlans, NEW ok, StartPublish(s, p, ok)
      PROVE  Parts' /\ PlansKept
  <2> DEFINE task == [mem[t] EXCEPT !.state = "AWAITING_APPROVAL", !.plan = p, !.hash = p]
  <2>1. t \in Tasks /\ mem[t].state \in Planning
    BY <1>2, <1>8 DEF StartPublish, StartStates, Planning
  <2>2. row[t].hash = NoHash /\ ~ConsumedOf(t)
    BY <2>1, PlanningIsUnhashed
  <2>3. /\ mem[t] \in Task /\ "AWAITING_APPROVAL" \in TaskStates
        /\ p \in Hashes /\ p # NoHash
    BY <2>1, CouncilAssumption DEF TypeOK, TaskStates, Hashes, AllPlans
  <2>4. task \in Task
    BY <2>3 DEF Task
  <2>5. task.state = "AWAITING_APPROVAL" /\ task.plan = p /\ task.hash = p
    BY <2>3 DEF Task
  <2>6. Follows(t, task)
    <3>1. HasCouncil => p \in Plans
      BY <1>8 DEF StartPublish
    <3>2. Stage(mem[t].state) <= Stage(task.state)
      BY <2>1, <2>5, StageType DEF Planning
    <3>3. QED
      BY <2>2, <2>3, <2>4, <2>5, <3>1, <3>2 DEF Follows, Planning
  <2>7. t <= nextID
    BY <1>1
  <2>8. QED
    BY <1>4, <1>8, <2>1, <2>6, <2>7, ByTransition DEF StartPublish, Unlocked
<1>9. QED
  BY <1>5, <1>6, <1>7, <1>8 DEF StartStep

LEMMA ApproveParts ==
  ASSUME TypeOK, Parts, NEW t \in Tasks, NEW h \in Hashes, NEW ok, Approve(t, h, ok)
  PROVE  Parts' /\ PlansKept
<1> DEFINE task == [mem[t] EXCEPT !.hash = h, !.approved = TRUE]
<1> DEFINE new == [run |-> t, hash |-> h, invalidated |-> FALSE, consumed |-> FALSE]
<1>1. /\ mem[t].state = "AWAITING_APPROVAL" /\ h # NoHash /\ mem[t].hash = h
      /\ executing = NoTask
      /\ UNCHANGED <<nextID, starts, executing, sent>>
  BY DEF Approve, ApprovalMatches, Unlocked
<1>2. mem[t] \in Task
  BY DEF TypeOK
<1>3. task \in Task /\ task.state = mem[t].state /\ task.plan = mem[t].plan /\ task.hash = h
  BY <1>2 DEF Task
<1>4. mem' \in {mem, [mem EXCEPT ![t] = task]} /\ row' \in {row, [row EXCEPT ![t] = task]}
  BY DEF Approve, Persist
<1> HIDE DEF task
<1>5. /\ mem' \in [Tasks -> Task]
      /\ \A u \in Tasks : /\ mem'[u].state = mem[u].state
                          /\ mem'[u].plan = mem[u].plan
                          /\ mem'[u].hash = mem[u].hash
                          /\ row'[u] = row[u] \/ (u = t /\ row'[u] = task)
  BY <1>1, <1>2, <1>3, <1>4 DEF TypeOK
<1>6. PICK i \in ApprovalIDs :
        /\ approvals[i].run = NoTask
        /\ approvals' \in {approvals, Invalidated(t), [Invalidated(t) EXCEPT ![i] = new]}
  BY DEF Approve, FreeSlot
<1>7. approvals \in [ApprovalIDs -> Approval] /\ Invalidated(t) \in [ApprovalIDs -> Approval]
  BY InvalidatedType DEF TypeOK
<1>8. \A j \in ApprovalIDs : /\ Invalidated(t)[j].run = approvals[j].run
                             /\ Invalidated(t)[j].hash = approvals[j].hash
                             /\ Invalidated(t)[j].consumed = approvals[j].consumed
                             /\ approvals[j].run = t => Invalidated(t)[j].invalidated
                             /\ approvals[j].run # t => Invalidated(t)[j] = approvals[j]
  BY <1>7 DEF Invalidated, Approval
<1> HIDE DEF new
<1>9. /\ new.run = t /\ ~new.consumed
      /\ t # NoTask
  BY CouncilAssumption DEF new, NoTask, Tasks
\* A row after the step is the new one, or that of before, perhaps invalidated.
<1>10. \A j \in ApprovalIDs :
         \/ j = i /\ approvals'[j] = new /\ approvals[j].run = NoTask
         \/ /\ approvals'[j].run = approvals[j].run
            /\ approvals'[j].hash = approvals[j].hash
            /\ approvals'[j].consumed = approvals[j].consumed
            /\ approvals[j].run # t => approvals'[j] = approvals[j]
            /\ approvals' # approvals /\ approvals[j].run = t => approvals'[j].invalidated
  BY <1>6, <1>7, <1>8
<1>11. ~ConsumedOf(t)
  BY <1>1 DEF Parts, ConsumptionIsFinal, ConsumedOf, Used
<1>12. \A j \in ApprovalIDs : approvals[j].run = NoTask => ~approvals[j].consumed
  BY DEF Parts, ConsumptionIsFinal, NoApproval
\* So consumed rows are what they were, and not those of t.
<1>13. \A j \in ApprovalIDs :
         /\ approvals'[j].consumed = approvals[j].consumed
         /\ approvals'[j].consumed => /\ approvals'[j] = approvals[j]
                                      /\ approvals[j].run \in Tasks \ {t}
  <2>1. \A j \in ApprovalIDs : approvals[j].consumed => approvals[j].run \in Tasks \ {t}
    BY <1>11, ConsumedHasTask DEF Parts, ConsumedOf
  <2>2. new.consumed = FALSE
    BY DEF new
  <2>3. \A j \in ApprovalIDs : approvals[j].run = NoTask => approvals[j].consumed = FALSE
    BY DEF Parts, ConsumptionIsFinal, NoApproval
  <2>4. QED
    BY <1>10, <2>1, <2>2, <2>3
<1>14. FreshIDs' /\ HashFitsPlan' /\ StoredHashEndsPlanning'
  <2>1. t <= nextID
    BY <1>1, CouncilAssumption DEF Parts, FreshIDs, TypeOK, Tasks
  <2>2. FreshIDs'
    BY <1>1, <1>5, <2>1, CouncilAssumption DEF Parts, FreshIDs, TypeOK, Tasks
  <2>3. HashFitsPlan'
    BY <1>1, <1>3, <1>5 DEF Parts, HashFitsPlan
  <2>4. StoredHashEndsPlanning'
    BY <1>1, <1>3, <1>5 DEF Parts, StoredHashEndsPlanning, Planning
  <2>5. QED
    BY <2>2, <2>3, <2>4
<1>15. ExecutionIsApproved'
  <2>1. executing' \notin Tasks
    BY <1>1, CouncilAssumption DEF NoTask, Tasks
  <2>2. \A u \in Tasks : \A g : ConsumedFor(u, g) => ConsumedFor(u, g)'
    BY <1>13, <1>10, <1>12 DEF ConsumedFor
  <2>3. task.state # "EXECUTING" /\ mem[t].state # "EXECUTING"
    BY <1>1, <1>3
  <2>4. ASSUME NEW u \in Tasks
        PROVE  /\ mem'[u].state = "EXECUTING" => row'[u].state = "EXECUTING"
               /\ row'[u].state = "EXECUTING" => ConsumedFor(u, row[u].hash)'
    BY <1>5, <2>2, <2>3 DEF Parts, ExecutionIsApproved
  <2>5. QED
    BY <2>1, <2>4 DEF ExecutionIsApproved
<1>16. ConsumptionIsFinal'
  <2>1. \A j \in ApprovalIDs : approvals'[j].run = NoTask => approvals'[j] = NoApproval
    BY <1>9, <1>10 DEF Parts, ConsumptionIsFinal
  <2>2. \A j \in ApprovalIDs : approvals'[j].consumed =>
          /\ mem'[approvals'[j].run].state = mem[approvals[j].run].state
          /\ row'[approvals'[j].run] = row[approvals[j].run]
          /\ approvals'[j] = approvals[j]
    BY <1>5, <1>13
  <2>3. QED
    BY <1>13, <2>1, <2>2 DEF Parts, ConsumptionIsFinal
<1>17. OneLiveApproval'
  <2> SUFFICES ASSUME NEW j \in ApprovalIDs, NEW k \in ApprovalIDs,
                      approvals'[j].run \in Tasks, approvals'[k].run = approvals'[j].run,
                      Live(j)', Live(k)'
               PROVE  j = k
    BY DEF OneLiveApproval
  <2>1. CASE approvals' = approvals
    BY <2>1 DEF Parts, OneLiveApproval, Live
  <2>2. CASE approvals' # approvals /\ approvals'[j].run = t
    BY <1>10, <2>2 DEF Live
  <2>3. CASE approvals'[j].run # t
    BY <1>9, <1>10, <2>3 DEF Parts, OneLiveApproval, Live
  <2>4. QED
    BY <2>1, <2>2, <2>3
<1>18. RequestsAreApproved'
  BY <1>1, <1>13 DEF Parts, RequestsAreApproved, ConsumedFor
<1>19. PlansKept
  BY <1>1, <1>3, <1>5 DEF PlansKept, Parts, StoredHashEndsPlanning
<1>20. MemoryLeads'
  BY <1>3, <1>5, StageType DEF Parts, MemoryLeads
<1>21. QED
  BY <1>14, <1>15, <1>16, <1>17, <1>18, <1>19, <1>20 DEF Parts

LEMMA CancelParts ==
  ASSUME TypeOK, Parts, NEW t \in Tasks, NEW ok, CancelOrReject(t, ok)
  PROVE  Parts' /\ PlansKept
<1> DEFINE task == [mem[t] EXCEPT !.state = "CANCELLED", !.approved = FALSE]
<1>1. /\ mem' = [mem EXCEPT ![t] = task]
      /\ row' \in {row, [row EXCEPT ![t] = task]}
      /\ mem[t].state # "ABSENT" /\ executing' = NoTask
      /\ UNCHANGED <<nextID, starts, approvals, sent>>
  BY DEF CancelOrReject, Persist, Unlocked, Known
<1>2. mem[t] \in Task /\ "CANCELLED" \in TaskStates
  BY DEF TypeOK, TaskStates
<1>3. /\ task \in Task /\ task.state = "CANCELLED"
      /\ task.plan = mem[t].plan /\ task.hash = mem[t].hash
  BY <1>2 DEF Task
<1>4. t <= nextID
  BY <1>1, CouncilAssumption DEF Parts, FreshIDs, TypeOK, Tasks
<1>5. Follows(t, task)
  BY <1>3, StageType DEF Follows, Planning, Used, Parts, HashFitsPlan, StoredHashEndsPlanning
<1>6. QED
  BY <1>1, <1>4, <1>5, TaskUpdate

\* Whoever executes has a consumed approval of the task's plan.
LEMMA SendParts ==
  ASSUME TypeOK, Parts, NEW t \in Tasks, Send(t), UNCHANGED approvals,
         mem[t].plan = mem[t].hash, HasCouncil => mem[t].hash \in Plans,
         ConsumedFor(t, mem[t].hash)
  PROVE  RequestsAreApproved'
BY DEF Parts, RequestsAreApproved, Send, ConsumedFor, TypeOK

LEMMA ExecuteAgainParts ==
  ASSUME TypeOK, Parts, NEW t \in Tasks, ExecuteAgain(t)
  PROVE  Parts' /\ PlansKept
<1>1. /\ mem[t].state = "EXECUTING" /\ executing' = t
      /\ UNCHANGED <<nextID, mem, starts, row, approvals>>
  BY DEF ExecuteAgain, Send, database
<1>2. /\ row[t].state = "EXECUTING" /\ ConsumedFor(t, row[t].hash)
      /\ row[t].hash # NoHash /\ mem[t].hash = row[t].hash
      /\ mem[t].plan = mem[t].hash /\ (HasCouncil => mem[t].hash \in Plans)
  BY <1>1 DEF Parts, ExecutionIsApproved, HashFitsPlan, StoredHashEndsPlanning
<1>3. RequestsAreApproved'
  BY <1>1, <1>2, SendParts DEF ExecuteAgain
<1>4. ExecutionIsApproved'
  BY <1>1, <1>2 DEF Parts, ExecutionIsApproved, ConsumedFor
<1>5. QED
  BY <1>1, <1>3, <1>4
     DEF Parts, FreshIDs, HashFitsPlan, StoredHashEndsPlanning, ConsumptionIsFinal,
         OneLiveApproval, Live, MemoryLeads, PlansKept

LEMMA ExecuteFirstParts ==
  ASSUME TypeOK, Parts, NEW t \in Tasks, NEW ok, ExecuteFirst(t, ok)
  PROVE  Parts' /\ PlansKept
<1>1. PICK i \in ApprovalIDs :
        Consumable(t) = {i} /\ approvals' = [approvals EXCEPT ![i].consumed = TRUE]
  BY DEF ExecuteFirst, ConsumeAndMark
<1>2. /\ mem[t].state = "AWAITING_APPROVAL" /\ row[t].state = "AWAITING_APPROVAL"
      /\ row[t].hash = mem[t].hash
      /\ mem' = [mem EXCEPT ![t].state = "EXECUTING"]
      /\ row' = [row EXCEPT ![t].state = "EXECUTING"]
      /\ UNCHANGED <<nextID, starts>>
  BY DEF ExecuteFirst, ConsumeAndMark
<1>3. /\ approvals[i].run = t /\ approvals[i].hash = mem[t].hash
      /\ ~approvals[i].invalidated /\ ~approvals[i].consumed
  BY <1>1 DEF Consumable
<1>4. /\ mem[t].hash # NoHash /\ mem[t].plan = mem[t].hash /\ row[t].plan = row[t].hash
      /\ HasCouncil => mem[t].hash \in Plans
  BY <1>2 DEF Parts, HashFitsPlan
<1>5. \A u \in Tasks :
        /\ mem'[u].plan = mem[u].plan /\ mem'[u].hash = mem[u].hash
        /\ row'[u].plan = row[u].plan /\ row'[u].hash = row[u].hash
        /\ mem'[u].state = IF u = t THEN "EXECUTING" ELSE mem[u].state
        /\ row'[u].state = IF u = t THEN "EXECUTING" ELSE row[u].state
  BY <1>2 DEF TypeOK, Task
<1>6. \A j \in ApprovalIDs :
        /\ approvals'[j].run = approvals[j].run
        /\ approvals'[j].hash = approvals[j].hash
        /\ approvals'[j].invalidated = approvals[j].invalidated
        /\ j # i => approvals'[j] = approvals[j]
        /\ j = i => approvals'[j].consumed
  BY <1>1 DEF TypeOK, Approval
<1>7. ~ConsumedOf(t)
  BY <1>2 DEF Parts, ConsumptionIsFinal, ConsumedOf, Used
<1>8. \A u \in Tasks : \A h : ConsumedFor(u, h) => ConsumedFor(u, h)'
  BY <1>6 DEF ConsumedFor
<1>9. ConsumedFor(t, mem[t].hash)'
  BY <1>3, <1>5, <1>6 DEF ConsumedFor
<1>10. executing' \in {t, NoTask} /\ NoTask \notin Tasks
  BY CouncilAssumption DEF ExecuteFirst, Send, Unlocked, NoTask, Tasks
<1>11. FreshIDs'
  BY <1>2, <1>5 DEF Parts, FreshIDs
<1>12. HashFitsPlan'
  <2>1. ASSUME NEW u \in Tasks
        PROVE  /\ mem'[u].hash \in {NoHash, mem'[u].plan}
               /\ row'[u].hash \in {NoHash, row'[u].plan}
               /\ HasCouncil => {mem'[u].hash, row'[u].hash} \subseteq Plans \cup {NoHash}
    BY <1>5 DEF Parts, HashFitsPlan
  <2>2. ASSUME NEW u \in Tasks
        PROVE  /\ mem'[u].state \in {"AWAITING_APPROVAL", "EXECUTING"} => mem'[u].hash # NoHash
               /\ row'[u].state \in {"AWAITING_APPROVAL", "EXECUTING"} => row'[u].hash # NoHash
    BY <1>2, <1>4, <1>5 DEF Parts, HashFitsPlan
  <2>3. QED
    BY <2>1, <2>2 DEF HashFitsPlan
<1>13. StoredHashEndsPlanning'
  BY <1>2, <1>5 DEF Parts, StoredHashEndsPlanning, Planning
<1>14. ExecutionIsApproved'
  BY <1>2, <1>5, <1>8, <1>9, <1>10 DEF Parts, ExecutionIsApproved
<1>15. ConsumptionIsFinal'
  <2>1. \A j \in ApprovalIDs : approvals'[j].run = NoTask => approvals'[j] = NoApproval
    BY <1>3, <1>6, <1>10 DEF Parts, ConsumptionIsFinal
  <2>2. \A j \in ApprovalIDs : approvals'[j].consumed =>
          j = i \/ (approvals[j].consumed /\ approvals[j].run \in Tasks \ {t})
    BY <1>6, <1>7, ConsumedHasTask DEF Parts, ConsumedOf
  <2>3. QED
    BY <1>2, <1>3, <1>4, <1>5, <1>6, <2>1, <2>2 DEF Parts, ConsumptionIsFinal, Used
<1>16. OneLiveApproval'
  BY <1>6 DEF Parts, OneLiveApproval, Live
<1>17. RequestsAreApproved'
  <2>1. \A u \in Tasks : \A r \in sent'[u] :
          \/ r \in sent[u]
          \/ u = t /\ r = [plan |-> AsSent(mem[t].plan), hash |-> mem[t].hash]
    BY DEF ExecuteFirst, Send, TypeOK
  <2>2. QED
    BY <1>4, <1>8, <1>9, <1>5, <2>1 DEF Parts, RequestsAreApproved
<1>18. PlansKept
  BY <1>5 DEF PlansKept
<1>19. MemoryLeads'
  BY <1>2, <1>5, StageType DEF Parts, MemoryLeads
<1>20. QED
  BY <1>11, <1>12, <1>13, <1>14, <1>15, <1>16, <1>17, <1>18, <1>19 DEF Parts

\* From EXECUTING and VERIFYING a task only goes on.
LEMMA StageMoves ==
  ASSUME NEW from \in {"EXECUTING", "VERIFYING"},
         NEW to \in {"FAILED", "SUCCEEDED", "VERIFYING"}
  PROVE  Stage(from) <= Stage(to)
BY StageType

LEMMA ReturnParts ==
  ASSUME TypeOK, Parts, NEW t \in Tasks, ExecuteReturn(t)
  PROVE  Parts' /\ PlansKept
<1>1. CASE RunnerUnavailable(t)
  <2>1. /\ UNCHANGED <<nextID, mem, row, approvals, sent, starts>>
        /\ executing' = NoTask
    BY <1>1 DEF RunnerUnavailable, database, history
  <2>2. QED
    BY <2>1, NothingStored DEF Parts, FreshIDs
<1>2. ASSUME NEW ok, RunnerFailed(t, ok) \/ RunnerSucceeded(t, ok) \/ Finish(t, ok)
      PROVE  Parts' /\ PlansKept
  <2>1. t # NoTask
    BY CouncilAssumption DEF Tasks, NoTask
  <2>2. PICK task :
          /\ \/ /\ executing' = NoTask
                /\ \/ task = [mem[t] EXCEPT !.state = "FAILED"]
                   \/ task = [mem[t] EXCEPT !.state = "SUCCEEDED"]
             \/ /\ executing' = IF ok = TransitionCalls THEN t ELSE NoTask
                /\ task = [mem[t] EXCEPT !.state = "VERIFYING", !.verified = TRUE]
          /\ Transition(t, task, ok)
          /\ mem[t].state \in {"EXECUTING", "VERIFYING"} /\ executing = t
          /\ UNCHANGED <<nextID, starts, approvals, sent>>
    BY <1>2 DEF RunnerFailed, RunnerSucceeded, Finish
  <2>3. mem[t] \in Task /\ {"FAILED", "SUCCEEDED", "VERIFYING"} \subseteq TaskStates
    BY DEF TypeOK, TaskStates
  <2>4. /\ task \in Task /\ task.state \in {"FAILED", "SUCCEEDED", "VERIFYING"}
        /\ task.plan = mem[t].plan /\ task.hash = mem[t].hash
    BY <2>2, <2>3 DEF Task
  <2>5. t <= nextID
    BY <2>2, CouncilAssumption DEF Parts, FreshIDs, TypeOK, Tasks
  <2>6. Follows(t, task)
    <3>1. Stage(mem[t].state) <= Stage(task.state)
      BY <1>2, <2>4, <2>2, StageMoves
    <3>2. QED
      BY <2>4, <3>1
         DEF Follows, Planning, Used, Parts, HashFitsPlan, StoredHashEndsPlanning
  <2>7. executing' = t => row'[t].state = "VERIFYING"
    <3>1. row[t].state \in {"EXECUTING", "VERIFYING"}
      BY <2>2 DEF Parts, ExecutionIsApproved
    <3>2. ok = TransitionCalls => row' = [row EXCEPT ![t] = task]
      BY <2>2, <3>1 DEF Transition, Persist, TransitionCalls
    <3>3. executing' = t => ok = TransitionCalls /\ task.state = "VERIFYING"
      BY <2>1, <2>2, <2>3 DEF Task
    <3>4. QED
      BY <3>2, <3>3 DEF TypeOK
  <2>8. QED
    BY <2>2, <2>5, <2>6, <2>7, ByTransition
<1>3. QED
  BY <1>1, <1>2 DEF ExecuteReturn

\* As long as the rows can be read, a restart starts from what they say.
LEMMA RestartParts ==
  ASSUME TypeOK, Parts, NEW loaded \in BOOLEAN, Restart(loaded), "load" \notin Faults
  PROVE  Parts' /\ PlansKept
<1>1. /\ mem' = row /\ UNCHANGED <<row, approvals, sent>>
      /\ executing' = NoTask /\ starts' = [s \in Starters |-> Idle]
      /\ nextID' \in Nat
      /\ \A t \in Stored : t <= nextID'
  BY CouncilAssumption DEF Restart, Rehydrate, database, Stored, Tasks
<1>2. NoTask \notin Tasks
  BY CouncilAssumption DEF NoTask, Tasks
<1>3. FreshIDs'
  <2>1. \A t \in Tasks : t > nextID' => row[t].state = "ABSENT"
    BY <1>1, CouncilAssumption DEF Stored, Tasks
  <2>2. \A s \in Starters : starts'[s].task <= nextID'
    BY <1>1 DEF Idle, NoTask
  <2>3. QED
    BY <1>1, <2>1, <2>2 DEF FreshIDs
<1>4. HashFitsPlan' /\ StoredHashEndsPlanning'
  BY <1>1 DEF Parts, HashFitsPlan, StoredHashEndsPlanning
<1>5. ExecutionIsApproved' /\ ConsumptionIsFinal'
  BY <1>1, <1>2 DEF Parts, ExecutionIsApproved, ConsumedFor, ConsumptionIsFinal
<1>6. OneLiveApproval' /\ RequestsAreApproved'
  BY <1>1 DEF Parts, OneLiveApproval, Live, RequestsAreApproved, ConsumedFor
<1>7. PlansKept
  BY <1>1 DEF PlansKept
<1>8. MemoryLeads'
  BY <1>1, StageType DEF MemoryLeads
<1>9. QED
  BY <1>3, <1>4, <1>5, <1>6, <1>7, <1>8 DEF Parts

\* One step per kind of step of Next.
LEMMA PartsNext ==
  ASSUME TypeOK, Parts, [Next]_vars, "load" \notin Faults
  PROVE  Parts' /\ PlansKept
<1>1. ASSUME NEW t \in Tasks, ClientRequest(t)
      PROVE  Parts' /\ PlansKept
  <2>1. ASSUME NEW s \in Starters, StartCheck(s, t)
        PROVE  Parts' /\ PlansKept
    <3>1. /\ UNCHANGED <<nextID, mem, row, approvals, sent, executing>>
          /\ mem[t].state = "DRAFT"
          /\ starts' = [starts EXCEPT ![s] = [pc |-> "reading", task |-> t]]
      BY <2>1 DEF StartCheck, database, history
    <3>2. t <= nextID
      BY <3>1, CouncilAssumption DEF Parts, FreshIDs, TypeOK, Tasks
    <3>3. \A r \in Starters : starts'[r].task <= nextID
      BY <3>1, <3>2 DEF Parts, FreshIDs, TypeOK
    <3>4. QED
      BY <3>1, <3>3, NothingStored
  <2>2. QED
    BY <1>1, <2>1, ApproveParts, CancelParts, ExecuteFirstParts, ExecuteAgainParts
       DEF ClientRequest
<1>2. CASE Crash \/ UNCHANGED vars
  <2>1. UNCHANGED <<nextID, mem, row, approvals, sent, executing, starts>>
    BY <1>2 DEF Crash, vars, database, history
  <2>2. QED
    BY <2>1, NothingStored DEF Parts, FreshIDs
<1>3. QED
  BY <1>1, <1>2, CreateParts, StartParts, ReturnParts, RestartParts DEF Next

\* The strengthened invariant is inductive and holds in every reachable state of
\* a server whose restarts can read the task table.
THEOREM Invariant ==
  ASSUME "load" \notin Faults
  PROVE  Spec => []IInv
<1>1. Init => IInv
  BY TypeInit, PartsInit DEF IInv, Parts
<1>2. IInv /\ [Next]_vars => IInv'
  BY TypeNext, PartsNext DEF IInv, Parts
<1>3. QED
  BY <1>1, <1>2, PTL DEF Spec

-----------------------------------------------------------------------------
(* What follows from the invariant.                                          *)

\* A task consumes one approval in its life and one plan of it is ever sent.
THEOREM OnePlanIsSent ==
  ASSUME "load" \notin Faults
  PROVE  Spec => []OnePlanPerTask
<1>1. IInv => OnePlanPerTask
  <2> SUFFICES ASSUME IInv
               PROVE  OnePlanPerTask
    OBVIOUS
  <2>1. ASSUME NEW i \in ApprovalIDs, NEW j \in ApprovalIDs,
               approvals[i].run = approvals[j].run,
               approvals[i].consumed, approvals[j].consumed
        PROVE  i = j
    BY <2>1 DEF IInv, ConsumptionIsFinal
  <2>2. ASSUME NEW t \in Tasks, NEW r \in sent[t]
        PROVE  r = [plan |-> AsSent(row[t].plan), hash |-> row[t].hash]
    <3>1. PICK i \in ApprovalIDs : /\ approvals[i].run = t
                                   /\ approvals[i].hash = r.hash
                                   /\ approvals[i].consumed
      BY DEF IInv, RequestsAreApproved, ConsumedFor
    <3>2. row[t].hash = r.hash /\ row[t].hash # NoHash
      BY <3>1 DEF IInv, ConsumptionIsFinal
    <3>3. row[t].plan = row[t].hash /\ r.plan = AsSent(r.hash)
      BY <3>2 DEF IInv, HashFitsPlan, RequestsAreApproved
    <3>4. r \in Request
      BY DEF IInv, TypeOK
    <3>5. QED
      BY <3>2, <3>3, <3>4 DEF Request
  <2>3. QED
    BY <2>1, <2>2 DEF OnePlanPerTask
<1>2. QED
  BY <1>1, Invariant, PTL

\* A stored plan and its hash never change.
THEOREM StoredPlansStay ==
  ASSUME "load" \notin Faults
  PROVE  Spec => StoredPlanIsImmutable
<1>1. IInv /\ [Next]_vars =>
        [\A t \in Tasks : row[t].hash # NoHash
           => row'[t].plan = row[t].plan /\ row'[t].hash = row[t].hash]_vars
  BY PartsNext DEF IInv, Parts, PlansKept
<1>2. QED
  BY <1>1, Invariant, PTL DEF StoredPlanIsImmutable, Spec

\* Which steps hand a task to the Runner, and in which state its row is then.
LEMMA Sending ==
  ASSUME IInv, [Next]_vars, NEW t \in Tasks
  PROVE  \/ sent'[t] = sent[t] /\ (executing' = t => executing = t \/ ~up')
         \/ row[t].state \in {"AWAITING_APPROVAL", "EXECUTING"}
<1> USE DEF IInv, TypeOK
<1>1. ASSUME NEW u \in Tasks, Send(u), mem[u].state = "EXECUTING" \/ row[u].state = "AWAITING_APPROVAL"
      PROVE  \/ sent'[t] = sent[t] /\ executing' # t
             \/ row[t].state \in {"AWAITING_APPROVAL", "EXECUTING"}
  BY <1>1 DEF Send, ExecutionIsApproved
<1>2. ASSUME NEW u \in Tasks, ClientRequest(u)
      PROVE  \/ UNCHANGED <<sent, executing>>
             \/ Send(u) /\ (mem[u].state = "EXECUTING" \/ row[u].state = "AWAITING_APPROVAL")
  BY <1>2 DEF ClientRequest, StartCheck, Approve, CancelOrReject, ExecuteFirst,
     ConsumeAndMark, ExecuteAgain, history
<1>3. ASSUME NEW u \in Tasks, ExecuteReturn(u)
      PROVE  UNCHANGED sent /\ executing' \in {executing, NoTask}
  BY <1>3 DEF ExecuteReturn, RunnerUnavailable, RunnerFailed, RunnerSucceeded, Finish, history
<1>4. ASSUME NEW s \in Starters, StartStep(s)
      PROVE  UNCHANGED <<sent, executing>>
  BY <1>4 DEF StartStep, StartUnavailable, StartConflict, StartAnalyzing, StartFailed,
     StartPublish, history
<1>5. ASSUME \/ \E ok \in SUBSET CreateCalls : Create(ok)
             \/ Crash
             \/ \E loaded \in BOOLEAN : Restart(loaded)
             \/ UNCHANGED vars
      PROVE  UNCHANGED sent /\ executing' \in {executing, NoTask}
  BY <1>5 DEF Create, Crash, Restart, history, vars
<1>6. NoTask \notin Tasks
  BY CouncilAssumption DEF NoTask, Tasks
<1>7. QED
  BY <1>1, <1>2, <1>3, <1>4, <1>5, <1>6 DEF Next

\* A task whose row is final is never handed to the Runner again.
THEOREM FinalStays ==
  ASSUME "load" \notin Faults
  PROVE  Spec => FinalIsNotExecuted
<1>1. IInv /\ [Next]_vars =>
        [\A t \in Tasks : row[t].state \in Final /\ up'
           => executing' # t /\ sent'[t] = sent[t]]_vars
  BY Sending DEF IInv, ExecutionIsApproved, Final
<1>2. QED
  BY <1>1, Invariant, PTL DEF FinalIsNotExecuted, Spec


-----------------------------------------------------------------------------
(* The handlers implement ApprovalGate: every step of theirs grants,         *)
(* withdraws, consumes or sends, or leaves the approvals alone.              *)

LEMMA GateInit == Init => Gate!Init
<1> SUFFICES ASSUME Init
             PROVE  Gate!Init
  OBVIOUS
<1>1. \A t \in Tasks : LiveHashes(t) = {} /\ UsedHashes(t) = {}
  BY CouncilAssumption DEF Init, LiveHashes, UsedHashes, NoApproval, NoTask, Tasks
<1>2. \A t \in Tasks : {r.hash : r \in sent[t]} = {}
  BY DEF Init
<1>3. QED
  BY <1>1, <1>2 DEF Gate!Init

\* A step that touches neither the approvals nor what was sent.
LEMMA GateStutter ==
  ASSUME UNCHANGED <<approvals, sent>>
  PROVE  UNCHANGED Gate!vars
BY DEF Gate!vars, LiveHashes, UsedHashes, Live

\* approveTask withdraws the open approval and may grant another.
LEMMA GateApprove ==
  ASSUME IInv, NEW t \in Tasks, NEW h \in Hashes, NEW ok, Approve(t, h, ok)
  PROVE  [Gate!Next]_(Gate!vars)
<1> DEFINE new == [run |-> t, hash |-> h, invalidated |-> FALSE, consumed |-> FALSE]
<1>1. /\ mem[t].state = "AWAITING_APPROVAL" /\ sent' = sent
  BY DEF Approve
<1>2. PICK i \in ApprovalIDs :
        /\ approvals[i].run = NoTask
        /\ \/ approvals' = approvals
           \/ approvals' = Invalidated(t)
           \/ approvals' = [Invalidated(t) EXCEPT ![i] = new]
  BY DEF Approve, FreeSlot
<1>3. approvals \in [ApprovalIDs -> Approval] /\ Invalidated(t) \in [ApprovalIDs -> Approval]
  BY InvalidatedType DEF IInv, TypeOK
<1>4. \A j \in ApprovalIDs : /\ Invalidated(t)[j].run = approvals[j].run
                             /\ Invalidated(t)[j].hash = approvals[j].hash
                             /\ Invalidated(t)[j].consumed = approvals[j].consumed
                             /\ approvals[j].run = t => Invalidated(t)[j].invalidated
                             /\ approvals[j].run # t => Invalidated(t)[j] = approvals[j]
  BY <1>3 DEF Invalidated, Approval
<1>5. \A j \in ApprovalIDs : approvals[j].run = t => ~approvals[j].consumed
  BY <1>1 DEF IInv, ConsumptionIsFinal, Used
<1>6. t # NoTask
  BY CouncilAssumption DEF Tasks, NoTask
<1>7. ASSUME NEW u \in Tasks
      PROVE  /\ UsedHashes(u)' = UsedHashes(u)
             /\ u # t => LiveHashes(u)' = LiveHashes(u)
  <2>1. u # NoTask
    BY CouncilAssumption DEF Tasks, NoTask
  <2>2. \A j \in ApprovalIDs :
          \/ approvals'[j] = approvals[j]
          \/ approvals'[j] = Invalidated(t)[j]
          \/ approvals[j].run = NoTask /\ approvals'[j] = new
    BY <1>2, <1>3
  <2>3. new.run = t /\ new.consumed = FALSE
    OBVIOUS
  <2> HIDE DEF new
  <2>4. \A j \in ApprovalIDs :
          /\ (approvals'[j].run = u /\ approvals'[j].consumed)
               <=> (approvals[j].run = u /\ approvals[j].consumed)
          /\ approvals[j].run = u => approvals'[j].hash = approvals[j].hash
    BY <1>4, <1>5, <2>1, <2>2, <2>3
  <2>5. ASSUME u # t
        PROVE  \A j \in ApprovalIDs :
                 /\ approvals'[j].run = u <=> approvals[j].run = u
                 /\ approvals[j].run = u => approvals'[j] = approvals[j]
    BY <1>4, <2>1, <2>2, <2>3, <2>5
  <2>6. UsedHashes(u)' = UsedHashes(u)
    BY <2>4 DEF UsedHashes
  <2>7. u # t => LiveHashes(u)' = LiveHashes(u)
    BY <2>5 DEF LiveHashes, Live
  <2>8. QED
    BY <2>6, <2>7
<1>8. UsedHashes(t) = {}
  BY <1>5 DEF UsedHashes
<1>9. CASE approvals' = approvals
  BY <1>1, <1>9, GateStutter
<1>10. CASE approvals' = Invalidated(t)
  <2>1. LiveHashes(t)' = {}
    BY <1>4, <1>10 DEF LiveHashes, Live
  <2>2. Gate!Withdraw(t)
    BY <1>1, <1>7, <2>1 DEF Gate!Withdraw
  <2>3. QED
    BY <2>2 DEF Gate!Next
<1>11. CASE approvals' = [Invalidated(t) EXCEPT ![i] = new]
  <2>1. LiveHashes(t)' = {h}
    BY <1>3, <1>4, <1>11 DEF LiveHashes, Live
  <2>2. Gate!Grant(t, h)
    BY <1>1, <1>7, <1>8, <2>1 DEF Gate!Grant
  <2>3. QED
    BY <2>2 DEF Gate!Next
<1>12. QED
  BY <1>2, <1>9, <1>10, <1>11

\* executeTask of an approved task consumes what is open, and may send it.
LEMMA GateExecuteFirst ==
  ASSUME IInv, NEW t \in Tasks, NEW ok, ExecuteFirst(t, ok)
  PROVE  Gate!Next
<1>0. PICK h \in Hashes : h = mem[t].hash
  BY DEF IInv, TypeOK, Task
<1>1. PICK i \in ApprovalIDs :
        Consumable(t) = {i} /\ approvals' = [approvals EXCEPT ![i].consumed = TRUE]
  BY DEF ExecuteFirst, ConsumeAndMark
<1>2. /\ approvals[i].run = t /\ approvals[i].hash = h /\ Live(i)
      /\ mem[t].state = "AWAITING_APPROVAL"
  BY <1>0, <1>1 DEF Consumable, Live, ExecuteFirst
<1>3. /\ approvals \in [ApprovalIDs -> Approval]
      /\ sent \in [Tasks -> SUBSET Request]
  BY DEF IInv, TypeOK
<1>4. \A j \in ApprovalIDs :
        /\ approvals'[j].run = approvals[j].run
        /\ approvals'[j].hash = approvals[j].hash
        /\ j # i => approvals'[j] = approvals[j]
        /\ j = i => approvals'[j].consumed
  BY <1>1, <1>3 DEF Approval
<1>5. \A j \in ApprovalIDs : approvals[j].run = t =>
        ~approvals[j].consumed /\ (Live(j) => j = i)
  BY <1>2 DEF IInv, ConsumptionIsFinal, OneLiveApproval, Used
<1>6. \A u \in Tasks : u # t => /\ LiveHashes(u)' = LiveHashes(u)
                                /\ UsedHashes(u)' = UsedHashes(u)
  BY <1>2, <1>4 DEF LiveHashes, UsedHashes, Live
<1>7. LiveHashes(t) = {h} /\ UsedHashes(t) = {}
  BY <1>2, <1>5 DEF LiveHashes, UsedHashes
<1>8. LiveHashes(t)' = {} /\ UsedHashes(t)' = {h}
  BY <1>2, <1>4, <1>5 DEF LiveHashes, UsedHashes, Live
<1>9. \/ sent' = sent
      \/ /\ \A u \in Tasks : u # t => sent'[u] = sent[u]
         /\ sent'[t] = sent[t] \cup {[plan |-> AsSent(mem[t].plan), hash |-> h]}
  BY <1>0, <1>3 DEF ExecuteFirst, Send
<1>10. \/ [u \in Tasks |-> {r.hash : r \in sent'[u]}] = [u \in Tasks |-> {r.hash : r \in sent[u]}]
       \/ [u \in Tasks |-> {r.hash : r \in sent'[u]}] =
            [[u \in Tasks |-> {r.hash : r \in sent[u]}] EXCEPT ![t] = @ \cup {h}]
  <2>1. CASE sent' = sent
    BY <2>1
  <2>2. CASE sent' # sent
    <3>1. {r.hash : r \in sent'[t]} = {r.hash : r \in sent[t]} \cup {h}
      <4>1. PICK q : q.hash = h /\ sent'[t] = sent[t] \cup {q}
        BY <1>9, <2>2
      <4>2. QED
        BY <4>1
    <3>2. \A u \in Tasks : u # t =>
            {r.hash : r \in sent'[u]} = {r.hash : r \in sent[u]}
      BY <1>9
    <3>3. QED
      BY <3>1, <3>2
  <2>3. QED
    BY <2>1, <2>2
<1>11. Gate!Consume(t, h)
  BY <1>6, <1>7, <1>8, <1>10 DEF Gate!Consume
<1>12. QED
  BY <1>11 DEF Gate!Next

\* executeTask of an interrupted execution sends what was consumed once more.
LEMMA GateExecuteAgain ==
  ASSUME IInv, NEW t \in Tasks, ExecuteAgain(t)
  PROVE  Gate!Next
<1>0. PICK h \in Hashes : h = mem[t].hash
  BY DEF IInv, TypeOK, Task
<1>1. /\ mem[t].state = "EXECUTING" /\ approvals' = approvals
      /\ sent' = [sent EXCEPT ![t] = @ \cup {[plan |-> AsSent(mem[t].plan), hash |-> h]}]
  BY <1>0 DEF ExecuteAgain, Send, database
<1>2. sent \in [Tasks -> SUBSET Request]
  BY DEF IInv, TypeOK
<1>3. ConsumedFor(t, h)
  BY <1>0, <1>1 DEF IInv, ExecutionIsApproved, HashFitsPlan, StoredHashEndsPlanning
<1>4. h \in UsedHashes(t)
  BY <1>3 DEF ConsumedFor, UsedHashes
<1>5. /\ \A u \in Tasks : u # t => sent'[u] = sent[u]
      /\ sent'[t] = sent[t] \cup {[plan |-> AsSent(mem[t].plan), hash |-> h]}
  BY <1>1, <1>2
<1>6. \A u \in Tasks : LiveHashes(u)' = LiveHashes(u) /\ UsedHashes(u)' = UsedHashes(u)
  BY <1>1 DEF LiveHashes, UsedHashes, Live
<1>7. [u \in Tasks |-> {r.hash : r \in sent'[u]}] =
        [[u \in Tasks |-> {r.hash : r \in sent[u]}] EXCEPT ![t] = @ \cup {h}]
  <2>1. {r.hash : r \in sent'[t]} = {r.hash : r \in sent[t]} \cup {h}
    <3>1. PICK q : q.hash = h /\ sent'[t] = sent[t] \cup {q}
      BY <1>5
    <3>2. QED
      BY <3>1
  <2>2. \A u \in Tasks : u # t =>
          {r.hash : r \in sent'[u]} = {r.hash : r \in sent[u]}
    BY <1>5
  <2>3. QED
    BY <2>1, <2>2
<1>8. Gate!Send(t, h)
  BY <1>4, <1>6, <1>7 DEF Gate!Send
<1>9. QED
  BY <1>8 DEF Gate!Next

LEMMA GateNext ==
  ASSUME IInv, [Next]_vars
  PROVE  [Gate!Next]_(Gate!vars)
<1>1. ASSUME NEW t \in Tasks, ClientRequest(t)
      PROVE  [Gate!Next]_(Gate!vars)
  <2>1. ASSUME (\E s \in Starters : StartCheck(s, t))
               \/ \E ok \in SUBSET TransitionCalls : CancelOrReject(t, ok)
        PROVE  UNCHANGED <<approvals, sent>>
    BY <2>1 DEF StartCheck, CancelOrReject, database, history
  <2>2. QED
    BY <1>1, <2>1, GateStutter, GateApprove, GateExecuteFirst, GateExecuteAgain
       DEF ClientRequest
<1>2. ASSUME NEW t \in Tasks, ExecuteReturn(t)
      PROVE  UNCHANGED <<approvals, sent>>
  BY <1>2 DEF ExecuteReturn, RunnerUnavailable, RunnerFailed, RunnerSucceeded, Finish,
     database, history
<1>3. ASSUME NEW s \in Starters, StartStep(s)
      PROVE  UNCHANGED <<approvals, sent>>
  BY <1>3 DEF StartStep, StartUnavailable, StartConflict, StartAnalyzing, StartFailed,
     StartPublish, database, history
<1>4. ASSUME \/ \E ok \in SUBSET CreateCalls : Create(ok)
             \/ Crash
             \/ \E loaded \in BOOLEAN : Restart(loaded)
             \/ UNCHANGED vars
      PROVE  UNCHANGED <<approvals, sent>>
  BY <1>4 DEF Create, Crash, Restart, database, history, vars
<1>5. QED
  BY <1>1, <1>2, <1>3, <1>4, GateStutter DEF Next

\* The Council's handlers, failures and restarts included, implement the promise
\* about approvals that ApprovalGate states.
THEOREM CouncilImplementsGate ==
  ASSUME "load" \notin Faults
  PROVE  Spec => ImplementsGate
<1>1. Spec => []IInv
  BY Invariant
<1>2. QED
  BY <1>1, GateInit, GateNext, PTL DEF Spec, ImplementsGate, Gate!Spec


-----------------------------------------------------------------------------
(* What holds of the rows, the memory, the events and the approvals under    *)
(* every set of faults, restarts that cannot read the rows included.         *)

\* A row that is not there is the blank one.
Cached == /\ \A t \in Tasks : row[t].state = "ABSENT" => row[t] = Absent
          /\ CacheFitsRow

\* A handler that replaces a task in memory and tries to write it.
LEMMA CachedWrite ==
  ASSUME TypeOK, Cached, up, NEW t \in Tasks, NEW task, NEW done,
         task.state # "ABSENT",
         mem' = [mem EXCEPT ![t] = task],
         Persist(t, task, done)
  PROVE  Cached'
<1>1. \A u \in Tasks : u # t => /\ mem'[u] = mem[u] /\ row'[u] = row[u]
                                /\ u \in stale' <=> u \in stale
  BY DEF TypeOK, Persist
<1>2. /\ mem'[t] = task
      /\ row'[t] \in {row[t], task}
      /\ t \in stale' \/ row'[t] = task
  BY DEF TypeOK, Persist
<1>3. QED
  BY <1>1, <1>2 DEF Cached, CacheFitsRow, AsStored

\* A step that leaves the memory and the rows alone, or ends the process.
LEMMA CachedKept ==
  ASSUME Cached, UNCHANGED <<mem, row, stale>>, up' => up
  PROVE  Cached'
BY DEF Cached, CacheFitsRow, AsStored

LEMMA CachedNext ==
  ASSUME TypeOK, Cached, [Next]_vars
  PROVE  Cached'
<1> USE DEF TypeOK
<1>1. ASSUME NEW ok \in SUBSET CreateCalls, Create(ok)
      PROVE  Cached'
  <2> DEFINE t == nextID + 1
  <2>1. /\ up /\ t \in Tasks
        /\ mem' = [mem EXCEPT ![t] = Draft]
        /\ \/ row' = [row EXCEPT ![t] = DraftRow] /\ stale' = stale \ {t}
           \/ row' = row /\ stale' = stale \cup {t}
    BY <1>1 DEF Create, Unlocked
  <2> HIDE DEF t
  <2>2. DraftRow.state # "ABSENT"
    BY Drafts
  <2>3. \A u \in Tasks : u # t => /\ mem'[u] = mem[u] /\ row'[u] = row[u]
                                  /\ u \in stale' <=> u \in stale
    BY <2>1
  <2>4. /\ mem'[t] = Draft /\ row'[t] \in {row[t], DraftRow}
        /\ t \in stale' \/ row'[t] = DraftRow
    BY <2>1
  <2>5. QED
    BY <2>1, <2>2, <2>3, <2>4 DEF Cached, CacheFitsRow, AsStored
<1>2. ASSUME NEW t \in Tasks, NEW task, NEW ok, up, mem[t] \in Task,
             \E state \in TaskStates \ {"ABSENT"} :
               task = [mem[t] EXCEPT !.state = state],
             Transition(t, task, ok)
      PROVE  Cached'
  <2>1. task.state # "ABSENT"
    BY <1>2 DEF Task
  <2>2. QED
    BY <1>2, <2>1, CachedWrite DEF Transition
<1>3. ASSUME NEW s \in Starters, StartStep(s)
      PROVE  Cached'
  <2> DEFINE t == starts[s].task
  <2>1. ASSUME starts[s].pc # "idle"
        PROVE  t \in Tasks
    BY <2>1 DEF Start, Idle
  <2>2. CASE StartUnavailable(s) \/ StartConflict(s)
    BY <2>2, CachedKept DEF StartUnavailable, StartConflict, database, history
  <2>3. ASSUME NEW ok, StartAnalyzing(s, ok)
        PROVE  Cached'
    BY <1>2, <2>1, <2>3 DEF StartAnalyzing, Unlocked, TaskStates
  <2>4. ASSUME NEW ok, StartFailed(s, ok)
        PROVE  Cached'
    <3>1. CASE mem[t].state # "FAILED"
      BY <1>2, <2>1, <2>4, <3>1 DEF StartFailed, Unlocked, TaskStates
    <3>2. CASE mem[t].state = "FAILED"
      BY <2>4, <3>2, CachedKept DEF StartFailed, Unlocked
    <3>3. QED
      BY <3>1, <3>2
  <2>5. ASSUME NEW p \in AllPlans, NEW ok, StartPublish(s, p, ok)
        PROVE  Cached'
    <3> DEFINE task == [mem[t] EXCEPT !.state = "AWAITING_APPROVAL", !.plan = p, !.hash = p]
    <3>1. t \in Tasks /\ up /\ Transition(t, task, ok)
      BY <2>1, <2>5 DEF StartPublish, Unlocked
    <3>2. task.state # "ABSENT"
      BY <3>1 DEF Task
    <3>3. QED
      BY <3>1, <3>2, CachedWrite DEF Transition
  <2>6. QED
    BY <1>3, <2>2, <2>3, <2>4, <2>5 DEF StartStep
<1>4. ASSUME NEW t \in Tasks, ClientRequest(t)
      PROVE  Cached'
  <2>1. ASSUME (\E s \in Starters : StartCheck(s, t)) \/ ExecuteAgain(t)
        PROVE  Cached'
    BY <2>1, CachedKept DEF StartCheck, ExecuteAgain, Unlocked, database, history
  <2>2. ASSUME NEW h \in Hashes, NEW ok, Approve(t, h, ok)
        PROVE  Cached'
    <3> DEFINE task == [mem[t] EXCEPT !.hash = h, !.approved = TRUE]
    <3>1. up /\ mem[t].state = "AWAITING_APPROVAL"
      BY <2>2 DEF Approve, Unlocked
    <3>2. task.state # "ABSENT"
      BY <3>1 DEF Task
    <3>3. CASE {"invalidate", "save"} \subseteq ok
      BY <2>2, <3>1, <3>2, <3>3, CachedWrite DEF Approve
    <3>4. CASE ~({"invalidate", "save"} \subseteq ok)
      BY <2>2, <3>1, <3>4, CachedKept DEF Approve
    <3>5. QED
      BY <3>3, <3>4
  <2>3. ASSUME NEW ok, CancelOrReject(t, ok)
        PROVE  Cached'
    <3> DEFINE task == [mem[t] EXCEPT !.state = "CANCELLED", !.approved = FALSE]
    <3>1. task.state # "ABSENT"
      BY DEF Task
    <3>2. QED
      BY <2>3, <3>1, CachedWrite DEF CancelOrReject, Unlocked
  <2>4. ASSUME NEW ok, ExecuteFirst(t, ok)
        PROVE  Cached'
    <3>1. /\ up /\ stale' = stale
          /\ mem' = [mem EXCEPT ![t].state = "EXECUTING"]
          /\ row' = [row EXCEPT ![t].state = "EXECUTING"]
      BY <2>4 DEF ExecuteFirst, ConsumeAndMark, Unlocked
    <3>2. \A u \in Tasks : u # t => mem'[u] = mem[u] /\ row'[u] = row[u]
      BY <3>1
    <3>3. /\ mem'[t] = [mem[t] EXCEPT !.state = "EXECUTING"]
          /\ row'[t] = [row[t] EXCEPT !.state = "EXECUTING"]
      BY <3>1
    <3>4. row'[t].state # "ABSENT"
      BY <3>3 DEF Task
    <3>5. t \notin stale => mem[t] = row[t]
      BY <2>4, Drafts DEF ExecuteFirst, Unlocked, Cached, CacheFitsRow, AsStored
    <3>6. QED
      BY <3>1, <3>2, <3>3, <3>4, <3>5 DEF Cached, CacheFitsRow, AsStored
  <2>5. QED
    BY <1>4, <2>1, <2>2, <2>3, <2>4 DEF ClientRequest
<1>5. ASSUME NEW t \in Tasks, ExecuteReturn(t)
      PROVE  Cached'
  <2>1. CASE RunnerUnavailable(t)
    BY <2>1, CachedKept DEF RunnerUnavailable, database, history
  <2>2. ASSUME NEW ok, RunnerFailed(t, ok) \/ Finish(t, ok)
        PROVE  Cached'
    BY <1>2, <2>2 DEF RunnerFailed, Finish, TaskStates
  <2>3. ASSUME NEW ok, RunnerSucceeded(t, ok)
        PROVE  Cached'
    <3> DEFINE task == [mem[t] EXCEPT !.state = "VERIFYING", !.verified = TRUE]
    <3>1. task.state # "ABSENT"
      BY DEF Task
    <3>2. QED
      BY <2>3, <3>1, CachedWrite DEF RunnerSucceeded, Transition
  <2>4. QED
    BY <1>5, <2>1, <2>2, <2>3 DEF ExecuteReturn
<1>6. ASSUME NEW loaded \in BOOLEAN, Restart(loaded)
      PROVE  Cached'
  <2>1. UNCHANGED row
    BY <1>6 DEF Restart, database
  <2>2. CASE loaded
    BY <1>6, <2>1, <2>2 DEF Restart, Rehydrate, Cached, CacheFitsRow, AsStored
  <2>3. CASE ~loaded
    BY <1>6, <2>1, <2>3 DEF Restart, Rehydrate, Stored, Cached, CacheFitsRow, AsStored
  <2>4. QED
    BY <2>2, <2>3
<1>7. CASE Crash \/ UNCHANGED vars
  BY <1>7, CachedKept DEF Crash, vars, database, history
<1>8. QED
  BY <1>1, <1>3, <1>4, <1>5, <1>6, <1>7 DEF Next

\* While the server runs, a task whose last write succeeded is in memory what a
\* restart would read from its row, whatever failed before; only the version of a
\* plan that was never written is another one.
THEOREM CacheFits == Spec => []CacheFitsRow
<1>1. Init => TypeOK /\ Cached
  BY TypeInit DEF Init, Cached, CacheFitsRow, AsStored
<1>2. TypeOK /\ Cached /\ [Next]_vars => (TypeOK /\ Cached)'
  BY TypeNext, CachedNext
<1>3. Cached => CacheFitsRow
  BY DEF Cached
<1>4. QED
  BY <1>1, <1>2, <1>3, PTL DEF Spec

\* And as long as the rows can be read at a restart, a task whose write failed is
\* further in memory than in its row, never behind it.
THEOREM CacheStaysCurrent ==
  ASSUME "load" \notin Faults
  PROVE  Spec => []CacheIsCurrent
<1>1. IInv /\ CacheFitsRow => CacheIsCurrent
  BY DEF IInv, CacheIsCurrent
<1>2. QED
  BY <1>1, CacheFits, Invariant, PTL

-----------------------------------------------------------------------------
(* Events.                                                                   *)

Announced ==
  \A t \in Tasks : \A s \in logged'[t] \ logged[t] :
    s \in {"DRAFT", "CANCELLED"} \/ row'[t].state \in {s, "ABSENT"}

\* transitionTask writes its event only after the row.
LEMMA TransitionAnnounces ==
  ASSUME TypeOK, NEW t \in Tasks, NEW task, NEW ok, Transition(t, task, ok)
  PROVE  Announced
<1>1. ASSUME NEW u \in Tasks, NEW s \in logged'[u] \ logged[u]
      PROVE  u = t /\ s = task.state /\ {"persist", "append"} \subseteq ok
  BY <1>1 DEF Transition, Log, TypeOK
<1>2. {"persist", "append"} \subseteq ok =>
        row'[t] = task \/ row'[t].state = "ABSENT"
  BY DEF Transition, Persist, TypeOK
<1>3. QED
  BY <1>1, <1>2 DEF Announced

LEMMA AnnouncedNext ==
  ASSUME TypeOK, [Next]_vars
  PROVE  Announced \/ UNCHANGED vars
<1>1. ASSUME UNCHANGED logged
      PROVE  Announced
  BY <1>1 DEF Announced
<1>2. ASSUME NEW ok \in SUBSET CreateCalls, Create(ok)
      PROVE  Announced
  <2>1. \A u \in Tasks : logged'[u] \ logged[u] \subseteq {"DRAFT"}
    BY <1>2 DEF Create, Log, TypeOK
  <2>2. QED
    BY <2>1 DEF Announced
<1>3. ASSUME NEW s \in Starters, StartStep(s)
      PROVE  Announced
  <2>1. starts[s].pc # "idle" => starts[s].task \in Tasks
    BY DEF TypeOK, Start, Idle
  <2>2. \/ UNCHANGED logged
        \/ \E ok, task : starts[s].pc # "idle" /\ Transition(starts[s].task, task, ok)
    BY <1>3 DEF StartStep, StartUnavailable, StartConflict, StartAnalyzing, StartFailed,
       StartPublish, database
  <2>3. QED
    BY <1>1, <2>1, <2>2, TransitionAnnounces
<1>4. ASSUME NEW t \in Tasks, ClientRequest(t)
      PROVE  Announced
  <2>1. ASSUME NEW ok, CancelOrReject(t, ok)
        PROVE  Announced
    <3>1. \A u \in Tasks : logged'[u] \ logged[u] \subseteq {"CANCELLED"}
      BY <2>1 DEF CancelOrReject, Log, TypeOK
    <3>2. QED
      BY <3>1 DEF Announced
  <2>2. ASSUME NEW ok, ExecuteFirst(t, ok)
        PROVE  Announced
    <3>1. row'[t].state = "EXECUTING"
      BY <2>2 DEF ExecuteFirst, ConsumeAndMark, TypeOK, Task
    <3>2. \A u \in Tasks : logged'[u] \ logged[u] \subseteq IF u = t THEN {"EXECUTING"} ELSE {}
      BY <2>2 DEF ExecuteFirst, Log, TypeOK
    <3>3. QED
      BY <3>1, <3>2 DEF Announced
  <2>3. ASSUME \/ \E s \in Starters : StartCheck(s, t)
               \/ \E h \in Hashes, ok \in SUBSET ApproveCalls : Approve(t, h, ok)
               \/ ExecuteAgain(t)
        PROVE  UNCHANGED logged
    BY <2>3 DEF StartCheck, Approve, ExecuteAgain, database
  <2>4. QED
    BY <1>1, <1>4, <2>1, <2>2, <2>3 DEF ClientRequest
<1>5. ASSUME NEW t \in Tasks, ExecuteReturn(t)
      PROVE  Announced
  <2>1. \/ UNCHANGED logged
        \/ \E ok, task : Transition(t, task, ok)
    BY <1>5 DEF ExecuteReturn, RunnerUnavailable, RunnerFailed, RunnerSucceeded, Finish,
       database
  <2>2. QED
    BY <1>1, <2>1, TransitionAnnounces
<1>6. ASSUME Crash \/ \E loaded \in BOOLEAN : Restart(loaded)
      PROVE  UNCHANGED logged
  BY <1>6 DEF Crash, Restart, database
<1>7. QED
  BY <1>1, <1>2, <1>3, <1>4, <1>5, <1>6 DEF Next

\* Of creation and cancellation apart, an event never runs ahead of the row.
THEOREM EventsNeverLead == Spec => EventsFollowRow
<1>1. TypeOK /\ [Next]_vars =>
        [\A t \in Tasks : \A s \in logged'[t] \ logged[t] :
           s \in {"DRAFT", "CANCELLED"} \/ row'[t].state \in {s, "ABSENT"}]_vars
  BY AnnouncedNext DEF Announced
<1>2. QED
  BY <1>1, TypeCorrect, PTL DEF EventsFollowRow, Spec

-----------------------------------------------------------------------------
(* Approvals.  Less than IInv is inductive when ids may be handed out again: *)
(* it no longer says that a task consumes one approval in its life.          *)

Approved ==
  /\ HashFitsPlan
  /\ \A t \in Tasks : /\ mem[t].state = "EXECUTING" => ConsumedFor(t, mem[t].hash)
                      /\ row[t].state = "EXECUTING" => ConsumedFor(t, row[t].hash)
  /\ \A i \in ApprovalIDs : approvals[i].run = NoTask => approvals[i] = NoApproval
  /\ OneLiveApproval
  /\ RequestsAreApproved

ConsumedKept ==
  \A i \in ApprovalIDs : approvals[i].consumed =>
    /\ approvals'[i].consumed
    /\ approvals'[i].run = approvals[i].run
    /\ approvals'[i].hash = approvals[i].hash

LEMMA ApprovedInit == Init => Approved
BY CouncilAssumption
   DEF Init, Approved, Absent, NoApproval, NoTask, Tasks, HashFitsPlan, OneLiveApproval,
       RequestsAreApproved

LEMMA ApprovedWrite ==
  ASSUME TypeOK, Approved, UNCHANGED <<approvals, sent>>,
         NEW t \in Tasks, NEW task,
         task.state # "EXECUTING",
         task.hash \in {NoHash, task.plan},
         HasCouncil => task.hash \in Plans \cup {NoHash},
         task.state = "AWAITING_APPROVAL" => task.hash # NoHash,
         mem' = [mem EXCEPT ![t] = task],
         NEW stored,
         stored.state = task.state, stored.hash = task.hash,
         task.hash = NoHash \/ stored.plan = task.plan,
         row' \in {row, [row EXCEPT ![t] = stored]}
  PROVE  Approved'
<1>1. \A u \in Tasks : /\ mem'[u] = IF u = t THEN task ELSE mem[u]
                       /\ row'[u] = row[u] \/ (u = t /\ row'[u] = stored)
  BY DEF TypeOK
<1>2. HashFitsPlan'
  <2> DEFINE Fits(x) == /\ x.hash \in {NoHash, x.plan}
                        /\ HasCouncil => x.hash \in Plans \cup {NoHash}
                        /\ x.state \in {"AWAITING_APPROVAL", "EXECUTING"} => x.hash # NoHash
  <2>1. Fits(task) /\ Fits(stored)
    OBVIOUS
  <2>2. \A u \in Tasks : Fits(mem[u]) /\ Fits(row[u])
    BY DEF Approved, HashFitsPlan
  <2>3. HashFitsPlan' <=> \A u \in Tasks : Fits(mem'[u]) /\ Fits(row'[u])
    BY DEF HashFitsPlan
  <2> HIDE DEF Fits
  <2>4. QED
    BY <1>1, <2>1, <2>2, <2>3
<1>3. \A u \in Tasks : \A h : ConsumedFor(u, h) => ConsumedFor(u, h)'
  BY DEF ConsumedFor
<1>4. ASSUME NEW u \in Tasks
      PROVE  /\ mem'[u].state = "EXECUTING" => ConsumedFor(u, mem[u].hash)'
             /\ row'[u].state = "EXECUTING" => ConsumedFor(u, row[u].hash)'
  BY <1>1, <1>3 DEF Approved
<1>5. OneLiveApproval' /\ RequestsAreApproved'
  BY DEF Approved, OneLiveApproval, Live, RequestsAreApproved, ConsumedFor
<1>6. QED
  BY <1>2, <1>4, <1>5 DEF Approved

LEMMA ApprovedKept ==
  ASSUME Approved, UNCHANGED <<mem, row, approvals, sent>>
  PROVE  Approved'
BY DEF Approved, HashFitsPlan, ConsumedFor, OneLiveApproval, Live, RequestsAreApproved

\* A task changes its state and keeps its plan and hash.
LEMMA ApprovedMove ==
  ASSUME TypeOK, Approved, UNCHANGED <<approvals, sent>>,
         NEW t \in Tasks, NEW task, NEW done,
         task.state \notin {"EXECUTING", "AWAITING_APPROVAL"},
         task.plan = mem[t].plan, task.hash = mem[t].hash,
         mem' = [mem EXCEPT ![t] = task],
         Persist(t, task, done)
  PROVE  Approved'
<1>1. /\ task.hash \in {NoHash, task.plan}
      /\ HasCouncil => task.hash \in Plans \cup {NoHash}
  BY DEF Approved, HashFitsPlan
<1>2. row' \in {row, [row EXCEPT ![t] = task]}
  BY DEF Persist
<1>3. QED
  BY <1>1, <1>2, ApprovedWrite

LEMMA ApprovedApprove ==
  ASSUME TypeOK, Approved, NEW t \in Tasks, NEW h \in Hashes, NEW ok, Approve(t, h, ok)
  PROVE  Approved'
<1> DEFINE task == [mem[t] EXCEPT !.hash = h, !.approved = TRUE]
<1> DEFINE new == [run |-> t, hash |-> h, invalidated |-> FALSE, consumed |-> FALSE]
<1>1. /\ mem[t].state = "AWAITING_APPROVAL" /\ mem[t].hash = h /\ UNCHANGED sent
      /\ mem[t] \in Task
  BY DEF Approve, ApprovalMatches, TypeOK
<1>2. task.state = mem[t].state /\ task.plan = mem[t].plan /\ task.hash = mem[t].hash
  BY <1>1 DEF Task
<1>3. mem' \in {mem, [mem EXCEPT ![t] = task]} /\ row' \in {row, [row EXCEPT ![t] = task]}
  BY DEF Approve, Persist
<1> HIDE DEF task
<1>4. \A u \in Tasks : /\ mem'[u].state = mem[u].state
                       /\ mem'[u].plan = mem[u].plan
                       /\ mem'[u].hash = mem[u].hash
                       /\ row'[u] = row[u] \/ (u = t /\ row'[u] = task)
  BY <1>2, <1>3 DEF TypeOK
<1>5. PICK i \in ApprovalIDs :
        /\ approvals[i].run = NoTask
        /\ approvals' \in {approvals, Invalidated(t), [Invalidated(t) EXCEPT ![i] = new]}
  BY DEF Approve, FreeSlot
<1>6. approvals \in [ApprovalIDs -> Approval] /\ Invalidated(t) \in [ApprovalIDs -> Approval]
  BY InvalidatedType DEF TypeOK
<1>7. \A j \in ApprovalIDs : /\ Invalidated(t)[j].run = approvals[j].run
                             /\ Invalidated(t)[j].hash = approvals[j].hash
                             /\ Invalidated(t)[j].consumed = approvals[j].consumed
                             /\ approvals[j].run = t => Invalidated(t)[j].invalidated
                             /\ approvals[j].run # t => Invalidated(t)[j] = approvals[j]
  BY <1>6 DEF Invalidated, Approval
<1>8. new.run = t /\ new.consumed = FALSE /\ t # NoTask /\ NoApproval.consumed = FALSE
  BY CouncilAssumption DEF NoTask, Tasks, NoApproval
<1> HIDE DEF new
<1>9. \A j \in ApprovalIDs :
        \/ j = i /\ approvals'[j] = new /\ approvals[j].run = NoTask
        \/ /\ approvals'[j].run = approvals[j].run
           /\ approvals'[j].hash = approvals[j].hash
           /\ approvals'[j].consumed = approvals[j].consumed
           /\ approvals[j].run # t => approvals'[j] = approvals[j]
           /\ approvals' # approvals /\ approvals[j].run = t => approvals'[j].invalidated
  BY <1>5, <1>6, <1>7
\* No consumed row is overwritten: the slot of the new one was free.
<1>10. \A u \in Tasks : \A g : ConsumedFor(u, g) => ConsumedFor(u, g)'
  <2>1. \A j \in ApprovalIDs : approvals[j].run # NoTask =>
          /\ approvals'[j].run = approvals[j].run
          /\ approvals'[j].hash = approvals[j].hash
          /\ approvals'[j].consumed = approvals[j].consumed
    BY <1>9
  <2>2. NoTask \notin Tasks
    BY CouncilAssumption DEF NoTask, Tasks
  <2>3. QED
    BY <2>1, <2>2 DEF ConsumedFor
<1>11. HashFitsPlan'
  BY <1>1, <1>2, <1>4 DEF Approved, HashFitsPlan
<1>12. ASSUME NEW u \in Tasks
       PROVE  /\ mem'[u].state = "EXECUTING" => ConsumedFor(u, mem[u].hash)'
              /\ row'[u].state = "EXECUTING" => ConsumedFor(u, row[u].hash)'
  BY <1>1, <1>2, <1>4, <1>10 DEF Approved
<1>13. \A j \in ApprovalIDs : approvals'[j].run = NoTask => approvals'[j] = NoApproval
  BY <1>8, <1>9 DEF Approved
<1>14. OneLiveApproval'
  <2> SUFFICES ASSUME NEW j \in ApprovalIDs, NEW k \in ApprovalIDs,
                      approvals'[j].run \in Tasks, approvals'[k].run = approvals'[j].run,
                      Live(j)', Live(k)'
               PROVE  j = k
    BY DEF OneLiveApproval
  <2>1. CASE approvals' = approvals
    BY <2>1 DEF Approved, OneLiveApproval, Live
  <2>2. CASE approvals' # approvals /\ approvals'[j].run = t
    BY <1>9, <2>2 DEF Live
  <2>3. CASE approvals'[j].run # t
    BY <1>8, <1>9, <2>3 DEF Approved, OneLiveApproval, Live
  <2>4. QED
    BY <2>1, <2>2, <2>3
<1>15. RequestsAreApproved'
  <2>1. ConsumedKept
    BY <1>8, <1>9 DEF Approved, ConsumedKept
  <2>2. QED
    BY <1>1, <2>1 DEF Approved, RequestsAreApproved, ConsumedFor, ConsumedKept
<1>16. QED
  BY <1>11, <1>12, <1>13, <1>14, <1>15 DEF Approved

LEMMA ApprovedSend ==
  ASSUME TypeOK, Approved, ConsumedKept, NEW t \in Tasks, Send(t),
         mem[t].plan = mem[t].hash, HasCouncil => mem[t].hash \in Plans,
         NEW i \in ApprovalIDs,
         approvals'[i].run = t, approvals'[i].hash = mem[t].hash, approvals'[i].consumed
  PROVE  RequestsAreApproved'
<1>1. \A u \in Tasks : \A r \in sent'[u] :
        \/ r \in sent[u]
        \/ u = t /\ r = [plan |-> AsSent(mem[t].plan), hash |-> mem[t].hash]
  BY DEF Send, TypeOK
<1>2. ASSUME NEW u \in Tasks, NEW r \in sent'[u]
      PROVE  /\ r.plan = AsSent(r.hash)
             /\ HasCouncil => r.hash \in Plans
             /\ \E j \in ApprovalIDs : /\ approvals'[j].run = u
                                       /\ approvals'[j].hash = r.hash
                                       /\ approvals'[j].consumed
  <2>1. CASE r \in sent[u]
    BY <2>1 DEF Approved, RequestsAreApproved, ConsumedFor, ConsumedKept
  <2>2. CASE r \notin sent[u]
    BY <1>1, <1>2, <2>2
  <2>3. QED
    BY <2>1, <2>2
<1>3. QED
  BY <1>2 DEF RequestsAreApproved, ConsumedFor

LEMMA ApprovedExecute ==
  ASSUME TypeOK, Approved, NEW t \in Tasks,
         ExecuteAgain(t) \/ \E ok \in SUBSET ExecuteCalls : ExecuteFirst(t, ok)
  PROVE  Approved'
<1>1. CASE ExecuteAgain(t)
  <2>1. /\ mem[t].state = "EXECUTING" /\ Send(t)
        /\ UNCHANGED <<mem, row, approvals>>
    BY <1>1 DEF ExecuteAgain, database
  <2>2. mem[t].plan = mem[t].hash /\ (HasCouncil => mem[t].hash \in Plans)
    BY <2>1 DEF Approved, HashFitsPlan
  <2>3. RequestsAreApproved'
    BY <2>1, <2>2, ApprovedSend DEF Approved, ConsumedFor, ConsumedKept
  <2>4. QED
    BY <2>1, <2>3 DEF Approved, HashFitsPlan, ConsumedFor, OneLiveApproval, Live
<1>2. ASSUME NEW ok, ExecuteFirst(t, ok)
      PROVE  Approved'
  <2>1. PICK i \in ApprovalIDs :
          Consumable(t) = {i} /\ approvals' = [approvals EXCEPT ![i].consumed = TRUE]
    BY <1>2 DEF ExecuteFirst, ConsumeAndMark
  <2>2. /\ mem[t].state = "AWAITING_APPROVAL" /\ row[t].state = "AWAITING_APPROVAL"
        /\ row[t].hash = mem[t].hash
        /\ mem' = [mem EXCEPT ![t].state = "EXECUTING"]
        /\ row' = [row EXCEPT ![t].state = "EXECUTING"]
        /\ Send(t) \/ UNCHANGED sent
    BY <1>2 DEF ExecuteFirst, ConsumeAndMark
  <2>3. approvals[i].run = t /\ approvals[i].hash = mem[t].hash
    BY <2>1 DEF Consumable
  <2>4. /\ mem[t].hash # NoHash /\ mem[t].plan = mem[t].hash /\ row[t].plan = row[t].hash
        /\ HasCouncil => mem[t].hash \in Plans
    BY <2>2 DEF Approved, HashFitsPlan
  <2>5. \A u \in Tasks :
          /\ mem'[u].plan = mem[u].plan /\ mem'[u].hash = mem[u].hash
          /\ row'[u].plan = row[u].plan /\ row'[u].hash = row[u].hash
          /\ mem'[u].state = IF u = t THEN "EXECUTING" ELSE mem[u].state
          /\ row'[u].state = IF u = t THEN "EXECUTING" ELSE row[u].state
    BY <2>2 DEF TypeOK, Task
  <2>6. \A j \in ApprovalIDs :
          /\ approvals'[j].run = approvals[j].run
          /\ approvals'[j].hash = approvals[j].hash
          /\ approvals'[j].invalidated = approvals[j].invalidated
          /\ j # i => approvals'[j] = approvals[j]
          /\ j = i => approvals'[j].consumed
    BY <2>1 DEF TypeOK, Approval
  <2>7. ConsumedKept
    BY <2>6 DEF ConsumedKept
  <2>8. HashFitsPlan'
    <3>1. ASSUME NEW u \in Tasks
          PROVE  /\ mem'[u].hash \in {NoHash, mem'[u].plan}
                 /\ row'[u].hash \in {NoHash, row'[u].plan}
                 /\ HasCouncil => {mem'[u].hash, row'[u].hash} \subseteq Plans \cup {NoHash}
      BY <2>5 DEF Approved, HashFitsPlan
    <3>2. ASSUME NEW u \in Tasks
          PROVE  /\ mem'[u].state \in {"AWAITING_APPROVAL", "EXECUTING"} => mem'[u].hash # NoHash
                 /\ row'[u].state \in {"AWAITING_APPROVAL", "EXECUTING"} => row'[u].hash # NoHash
      BY <2>2, <2>4, <2>5 DEF Approved, HashFitsPlan
    <3>3. QED
      BY <3>1, <3>2 DEF HashFitsPlan
  <2>9. ASSUME NEW u \in Tasks
        PROVE  /\ mem'[u].state = "EXECUTING" => ConsumedFor(u, mem[u].hash)'
               /\ row'[u].state = "EXECUTING" => ConsumedFor(u, row[u].hash)'
    <3>1. CASE u = t
      BY <2>2, <2>3, <2>5, <2>6, <3>1 DEF ConsumedFor
    <3>2. CASE u # t
      BY <2>5, <2>7, <3>2 DEF Approved, ConsumedFor, ConsumedKept
    <3>3. QED
      BY <3>1, <3>2
  <2>10. \A j \in ApprovalIDs : approvals'[j].run = NoTask => approvals'[j] = NoApproval
    BY <2>3, <2>6, CouncilAssumption DEF Approved, NoTask, Tasks
  <2>11. OneLiveApproval'
    BY <2>6 DEF Approved, OneLiveApproval, Live
  <2>12. RequestsAreApproved'
    <3>1. CASE UNCHANGED sent
      BY <2>7, <3>1 DEF Approved, RequestsAreApproved, ConsumedFor, ConsumedKept
    <3>2. CASE Send(t)
      BY <2>3, <2>4, <2>6, <2>7, <3>2, ApprovedSend
    <3>3. QED
      BY <2>2, <3>1, <3>2
  <2>13. QED
    BY <2>8, <2>9, <2>10, <2>11, <2>12 DEF Approved
<1>3. QED
  BY <1>1, <1>2

LEMMA ApprovedNext ==
  ASSUME TypeOK, Approved, [Next]_vars
  PROVE  Approved'
<1>1. ASSUME NEW ok \in SUBSET CreateCalls, Create(ok)
      PROVE  Approved'
  <2> DEFINE t == nextID + 1
  <2>1. /\ t \in Tasks /\ UNCHANGED <<approvals, sent>>
        /\ mem' = [mem EXCEPT ![t] = Draft]
        /\ row' \in {row, [row EXCEPT ![t] = DraftRow]}
    BY <1>1 DEF Create
  <2> HIDE DEF t
  <2>2. QED
    BY <2>1, Drafts, ApprovedWrite
<1>2. ASSUME NEW t \in Tasks, NEW state \in TaskStates \ {"EXECUTING", "AWAITING_APPROVAL"},
             NEW ok, Transition(t, [mem[t] EXCEPT !.state = state], ok),
             UNCHANGED <<approvals, sent>>
      PROVE  Approved'
  <2> DEFINE task == [mem[t] EXCEPT !.state = state]
  <2>1. task.state = state /\ task.plan = mem[t].plan /\ task.hash = mem[t].hash
    BY DEF TypeOK, Task
  <2>2. QED
    BY <1>2, <2>1, ApprovedMove DEF Transition
<1>3. ASSUME NEW s \in Starters, StartStep(s)
      PROVE  Approved'
  <2> DEFINE t == starts[s].task
  <2>1. ASSUME starts[s].pc # "idle"
        PROVE  t \in Tasks
    BY <2>1 DEF TypeOK, Start, Idle
  <2>2. CASE StartUnavailable(s) \/ StartConflict(s)
    BY <2>2, ApprovedKept DEF StartUnavailable, StartConflict, database, history
  <2>3. ASSUME NEW ok, StartAnalyzing(s, ok)
        PROVE  Approved'
    BY <1>2, <2>1, <2>3 DEF StartAnalyzing, TaskStates
  <2>4. ASSUME NEW ok, StartFailed(s, ok)
        PROVE  Approved'
    <3>1. CASE mem[t].state # "FAILED"
      BY <1>2, <2>1, <2>4, <3>1 DEF StartFailed, TaskStates
    <3>2. CASE mem[t].state = "FAILED"
      BY <2>4, <3>2, ApprovedKept DEF StartFailed
    <3>3. QED
      BY <3>1, <3>2
  <2>5. ASSUME NEW p \in AllPlans, NEW ok, StartPublish(s, p, ok)
        PROVE  Approved'
    <3> DEFINE task == [mem[t] EXCEPT !.state = "AWAITING_APPROVAL", !.plan = p, !.hash = p]
    <3>1. t \in Tasks /\ Transition(t, task, ok) /\ UNCHANGED <<approvals, sent>>
      BY <2>1, <2>5 DEF StartPublish
    <3>2. task.state = "AWAITING_APPROVAL" /\ task.plan = p /\ task.hash = p
      BY <3>1 DEF TypeOK, Task
    <3>3. p # NoHash /\ (HasCouncil => p \in Plans)
      BY <2>5, CouncilAssumption DEF AllPlans, StartPublish
    <3>4. row' \in {row, [row EXCEPT ![t] = task]} /\ mem' = [mem EXCEPT ![t] = task]
      BY <3>1 DEF Transition, Persist
    <3>5. QED
      BY <3>1, <3>2, <3>3, <3>4, ApprovedWrite
  <2>6. QED
    BY <1>3, <2>2, <2>3, <2>4, <2>5 DEF StartStep
<1>4. ASSUME NEW t \in Tasks, ClientRequest(t)
      PROVE  Approved'
  <2>1. ASSUME NEW s \in Starters, StartCheck(s, t)
        PROVE  Approved'
    BY <2>1, ApprovedKept DEF StartCheck, database, history
  <2>2. ASSUME NEW ok, CancelOrReject(t, ok)
        PROVE  Approved'
    <3> DEFINE task == [mem[t] EXCEPT !.state = "CANCELLED", !.approved = FALSE]
    <3>1. task.state = "CANCELLED" /\ task.plan = mem[t].plan /\ task.hash = mem[t].hash
      BY DEF TypeOK, Task
    <3>2. QED
      BY <2>2, <3>1, ApprovedMove DEF CancelOrReject
  <2>3. QED
    BY <1>4, <2>1, <2>2, ApprovedApprove, ApprovedExecute DEF ClientRequest
<1>5. ASSUME NEW t \in Tasks, ExecuteReturn(t)
      PROVE  Approved'
  <2>1. CASE RunnerUnavailable(t)
    BY <2>1, ApprovedKept DEF RunnerUnavailable, database, history
  <2>2. ASSUME NEW ok, RunnerFailed(t, ok) \/ Finish(t, ok)
        PROVE  Approved'
    BY <1>2, <2>2 DEF RunnerFailed, Finish, TaskStates
  <2>3. ASSUME NEW ok, RunnerSucceeded(t, ok)
        PROVE  Approved'
    <3> DEFINE task == [mem[t] EXCEPT !.state = "VERIFYING", !.verified = TRUE]
    <3>1. task.state = "VERIFYING" /\ task.plan = mem[t].plan /\ task.hash = mem[t].hash
      BY DEF TypeOK, Task
    <3>2. QED
      BY <2>3, <3>1, ApprovedMove DEF RunnerSucceeded, Transition
  <2>4. QED
    BY <1>5, <2>1, <2>2, <2>3 DEF ExecuteReturn
<1>6. ASSUME NEW loaded \in BOOLEAN, Restart(loaded)
      PROVE  Approved'
  <2>1. UNCHANGED <<row, approvals, sent>>
    BY <1>6 DEF Restart, database
  <2>2. CASE mem' = row
    BY <2>1, <2>2 DEF Approved, HashFitsPlan, ConsumedFor, OneLiveApproval, Live,
                      RequestsAreApproved
  <2>3. CASE mem' = [t \in Tasks |-> Absent]
    BY <2>1, <2>3 DEF Approved, Absent, HashFitsPlan, ConsumedFor, OneLiveApproval, Live,
                      RequestsAreApproved
  <2>4. QED
    BY <1>6, <2>2, <2>3 DEF Restart, Rehydrate
<1>7. CASE Crash \/ UNCHANGED vars
  BY <1>7, ApprovedKept DEF Crash, vars, database, history
<1>8. QED
  BY <1>1, <1>3, <1>4, <1>5, <1>6, <1>7 DEF Next

LEMMA AlwaysApproved == Spec => []Approved
<1>1. Init => TypeOK /\ Approved
  BY TypeInit, ApprovedInit
<1>2. TypeOK /\ Approved /\ [Next]_vars => (TypeOK /\ Approved)'
  BY TypeNext, ApprovedNext
<1>3. QED
  BY <1>1, <1>2, PTL DEF Spec

\* Whatever fails and whoever makes the plans, only a hash whose approval was
\* consumed reaches the Runner.
THEOREM ApprovedHashIsSent == Spec => []HashWasApproved
<1>1. Approved => HashWasApproved
  BY DEF Approved, RequestsAreApproved, HashWasApproved
<1>2. QED
  BY <1>1, AlwaysApproved, PTL

\* With a council, it is moreover the hash of the plan that is sent with it.  Without
\* one it need not be: a plan that was never written changes its version.
THEOREM OnlyApprovedIsSent ==
  ASSUME HasCouncil
  PROVE  Spec => []SentWasApproved
<1>1. Approved => SentFitsHash
  <2>1. NoPlan \notin Plans
    BY CouncilAssumption
  <2>2. QED
    BY <2>1 DEF Approved, RequestsAreApproved, SentFitsHash, AsSent
<1>2. Approved => SentWasApproved
  BY <1>1 DEF Approved, RequestsAreApproved, HashWasApproved, SentWasApproved
<1>3. QED
  BY <1>2, AlwaysApproved, PTL

\* Whatever fails, approving again leaves one approval that can be consumed.
THEOREM ApprovalIsReplaced == Spec => []OneLiveApproval
<1>1. Approved => OneLiveApproval
  BY DEF Approved
<1>2. QED
  BY <1>1, AlwaysApproved, PTL

=============================================================================
