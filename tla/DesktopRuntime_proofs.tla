------------------------ MODULE DesktopRuntime_proofs ------------------------
(***************************************************************************)
(* Proofs about DesktopRuntime for any number of starts and stops, and any *)
(* faults.                                                                 *)
(***************************************************************************)
EXTENDS DesktopRuntime, TLAPS

-----------------------------------------------------------------------------
(* Types.                                                                   *)

LEMMA TypeInit == Init => TypeOK
BY DEF Init, TypeOK, Services

LEMMA ChildType ==
  ASSUME TypeOK, NEW s \in Starts, NEW c \in Services,
         NEW x \in {"none", "running", "asked", "killed", "exited", "reported"},
         child' = [child EXCEPT ![s][c] = x]
  PROVE  /\ child' \in [Starts -> [Services ->
                          {"none", "running", "asked", "killed", "exited", "reported"}]]
         /\ child'[s][c] = x
         /\ \A d \in Services : d # c => child'[s][d] = child[s][d]
         /\ \A u \in Starts : u # s => child'[u] = child[u]
BY DEF TypeOK

\* What a caller does when Stop returns, and what marking a runtime stopped does.
LEMMA ResumeType ==
  ASSUME TypeOK, NEW s \in Starts, NEW by \in Callers, NEW error \in BOOLEAN,
         Resume(s, by, error)
  PROVE  /\ runtime' \in Starts \cup {None}
         /\ start' \in [Starts -> {"idle", "runner", "council", "publish", "wait", "healthy",
                                   "adopt", "cleanup", "cleaned", "undo", "up", "failed"}]
         /\ over' \subseteq Starts
         /\ watch' \in [Starts -> {"none", "waiting", "stop", "done"}]
         /\ stop' \in [Stops -> Starts \cup {None}]
<1>1. CASE by = "start"
  BY <1>1 DEF Resume, TypeOK, At, Goto, Return
<1>2. CASE by = "watch"
  BY <1>2 DEF Resume, TypeOK
<1>3. CASE by \notin {"start", "watch"}
  BY <1>3 DEF Resume, TypeOK
<1>4. QED
  BY <1>1, <1>2, <1>3

LEMMA TypeNext == TypeOK /\ [Next]_vars => TypeOK'
<1> SUFFICES ASSUME TypeOK, [Next]_vars
             PROVE  TypeOK'
  OBVIOUS
<1>1. ASSUME NEW s \in Starts, StartBegin(s) \/ StartStep(s) \/ Deadline(s)
      PROVE  TypeOK'
  <2>1. CASE StartBegin(s)
    BY <2>1 DEF TypeOK, StartBegin, Goto, SetState
  <2>2. CASE FailStart(s) \/ CleanedUp(s)
    BY <2>2 DEF TypeOK, FailStart, CleanedUp, Goto, SetState, Return
  <2>3. CASE Publish(s)
    BY <2>3 DEF TypeOK, Publish, Goto
  <2>4. CASE CouncilFails(s)
    BY <2>4 DEF TypeOK, CouncilFails, Goto, Services
  <2>5. CASE StartRunner(s)
    BY <2>5, ChildType DEF TypeOK, StartRunner, Spawn, Goto, Services
  <2>6. CASE StartCouncil(s)
    BY <2>6, ChildType DEF TypeOK, StartCouncil, Spawn, Goto, Services
  <2>7. CASE Healthy(s) \/ WaitFails(s) \/ Adopt(s) \/ Deadline(s)
    BY <2>7 DEF TypeOK, Healthy, WaitFails, Adopt, Deadline, Goto, Return, rt
  <2>8. CASE BecomeReady(s)
    BY <2>8 DEF TypeOK, BecomeReady, Goto, SetState
  <2>9. QED
    BY <1>1, <2>1, <2>2, <2>3, <2>4, <2>5, <2>6, <2>7, <2>8 DEF StartStep
<1>2. ASSUME NEW s \in Starts, NEW by \in Callers, StopStep(s, by)
      PROVE  TypeOK'
  <2>1. CASE StopAlready(s, by)
    BY <2>1, ResumeType DEF StopAlready, TypeOK, rt
  <2>2. CASE StopBegin(s, by)
    <3>1. \A c \in Services : Asked(child[s][c]) \in {"none", "running", "asked", "killed", "exited", "reported"}
      BY DEF TypeOK, Asked
    <3>2. child' \in [Starts -> [Services -> {"none", "running", "asked", "killed", "exited", "reported"}]]
      BY <2>2, <3>1 DEF StopBegin, TypeOK
    <3>3. QED
      BY <2>2, <3>2 DEF StopBegin, TypeOK, SetState
  <2>3. CASE StopJoined(s, by)
    BY <2>3, ResumeType DEF StopJoined, MarkStopped, SetState, TypeOK
  <2>4. CASE StopForces(s, by)
    <3>1. PICK error \in BOOLEAN : Resume(s, by, error)
      BY <2>4 DEF StopForces
    <3>2. child' \in [Starts -> [Services -> {"none", "running", "asked", "killed", "exited", "reported"}]]
      BY <2>4 DEF StopForces, TypeOK
    <3>3. QED
      BY <2>4, <3>1, <3>2, ResumeType DEF StopForces, MarkStopped, SetState, TypeOK
  <2>5. QED
    BY <1>2, <2>1, <2>2, <2>3, <2>4 DEF StopStep
<1>3. ASSUME NEW s \in Starts, WatchFires(s) \/ WatchEnds(s)
      PROVE  TypeOK'
  BY <1>3 DEF WatchFires, WatchEnds, TypeOK, rt
<1>4. ASSUME NEW s \in Starts, NEW c \in Services, ChildExits(s, c) \/ ChildReported(s, c)
      PROVE  TypeOK'
  <2>1. CASE ChildExits(s, c)
    BY <2>1, ChildType DEF ChildExits, SetChild, TypeOK
  <2>2. CASE ChildReported(s, c)
    <3>1. child' \in [Starts -> [Services ->
                      {"none", "running", "asked", "killed", "exited", "reported"}]]
      BY <2>2, ChildType DEF ChildReported, SetChild
    <3>2. state' \in [Starts -> {"stopped", "starting", "ready", "stopping", "failed"}]
      <4>1. state' = [state EXCEPT ![s] = "failed"] \/ state' = state
        BY <2>2 DEF ChildReported, SetState
      <4>2. state \in [Starts -> {"stopped", "starting", "ready", "stopping", "failed"}]
        BY DEF TypeOK
      <4>3. QED
        BY <4>1, <4>2
    <3>3. QED
      BY <2>2, <3>1, <3>2 DEF ChildReported, TypeOK
  <2>3. QED
    BY <1>4, <2>1, <2>2
<1>5. ASSUME NEW k \in Stops, StopCalled(k)
      PROVE  TypeOK'
  BY <1>5 DEF StopCalled, TypeOK, rt
<1>6. CASE UNCHANGED vars
  BY <1>6 DEF vars, rt, TypeOK
<1>7. QED
  BY <1>1, <1>2, <1>3, <1>4, <1>5, <1>6 DEF Next

\* Every variable of the shell, of its runtimes and of their children keeps its type.
THEOREM TypeCorrect == Spec => []TypeOK
BY TypeInit, TypeNext, PTL DEF Spec

-----------------------------------------------------------------------------
(* The inductive invariant.                                                 *)

LEMMA SoundInit == Init => \A s \in Starts : Sound(s)
<1> SUFFICES ASSUME Init, NEW s \in Starts
             PROVE  Sound(s)
  OBVIOUS
<1>1. /\ runtime # s /\ \A k \in Stops : stop[k] # s
  BY DesktopAssumption DEF Init
<1>2. QED
  BY <1>1 DEF Init, Sound, OneStop, OwnUntilUp, Made, Recorded, Over, Unharmed, Unasked, At,
              Services, None

\* A runtime that a step does not touch, and that no one comes to stop by it.
LEMMA Elsewhere ==
  ASSUME TypeOK, NEW u \in Starts, Sound(u),
         start'[u] = start[u], state'[u] = state[u], children'[u] = children[u],
         child'[u] = child[u], holder'[u] = holder[u], joining'[u] = joining[u],
         watch'[u] = watch[u],
         \A k \in Stops : stop'[k] = u <=> stop[k] = u,
         runtime' = u => runtime = u
  PROVE  Sound(u)'
<1>1. holder[u] # None => (Wants(u, holder[u])' <=> Wants(u, holder[u]))
  <2>1. holder[u] \in {"start", "watch", None} \/ holder[u] \in Stops
    BY DEF TypeOK, Callers
  <2>2. QED
    BY <2>1 DEF Wants
<1>2. OneStop(u)'
  BY <1>1 DEF Sound, OneStop, Wants
<1>3. OwnUntilUp(u)'
  BY DEF Sound, OwnUntilUp, At
<1>4. Made(u)' /\ Recorded(u)' /\ Over(u)' /\ Unharmed(u)'
  BY DEF Sound, Made, Recorded, Over, Unharmed, Unasked, At
<1>5. QED
  BY <1>2, <1>3, <1>4 DEF Sound

\* A step of the start, while no Stop is under way.
LEMMA StartSound ==
  ASSUME TypeOK, NEW s \in Starts, \A u \in Starts : Sound(u), StartBegin(s) \/ StartStep(s)
  PROVE  \A u \in Starts : Sound(u)'
<1>o. \A u \in Starts : u # s => Sound(u)'
  <2> SUFFICES ASSUME NEW u \in Starts, u # s
               PROVE  Sound(u)'
    OBVIOUS
  <2>1. /\ start'[u] = start[u] /\ state'[u] = state[u] /\ children'[u] = children[u]
        /\ child'[u] = child[u] /\ watch'[u] = watch[u]
        /\ UNCHANGED <<holder, joining, stop>>
        /\ runtime' \in {runtime, s}
    <3>1. CASE StartBegin(s) \/ FailStart(s) \/ CleanedUp(s) \/ Publish(s) \/ CouncilFails(s)
      BY <3>1 DEF TypeOK, StartBegin, FailStart, CleanedUp, Publish, CouncilFails, Goto,
                  SetState, Return
    <3>2. CASE StartRunner(s) \/ StartCouncil(s)
      BY <3>2 DEF TypeOK, StartRunner, StartCouncil, Spawn, Goto
    <3>3. CASE Healthy(s) \/ WaitFails(s) \/ Adopt(s)
      BY <3>3 DEF TypeOK, Healthy, WaitFails, Adopt, Goto, Return, rt
    <3>4. CASE BecomeReady(s)
      BY <3>4 DEF TypeOK, BecomeReady, Goto, SetState
    <3>5. QED
      BY <3>1, <3>2, <3>3, <3>4 DEF StartStep
  <2>2. QED
    BY <2>1, Elsewhere
<1>h. UNCHANGED <<holder, joining, stop>> /\ start[s] \notin {"cleanup", "undo"}
  BY DEF StartBegin, StartStep, FailStart, CleanedUp, Publish, CouncilFails, StartRunner,
         StartCouncil, Healthy, BecomeReady, WaitFails, Adopt, At, rt
<1>w. watch[s] = "stop" => watch'[s] = "stop"
  BY DEF StartBegin, StartStep, FailStart, CleanedUp, Publish, CouncilFails, StartRunner,
         StartCouncil, Healthy, BecomeReady, WaitFails, Adopt, At, rt, Sound, OwnUntilUp
<1>1. holder[s] # None => Wants(s, holder[s])'
  <2>1. holder[s] \in {"start", "watch", None} \/ holder[s] \in Stops
    BY DEF TypeOK, Callers
  <2>2. holder[s] # None => Wants(s, holder[s])
    BY DEF Sound, OneStop
  <2>3. QED
    BY <2>1, <2>2, <1>h, <1>w DEF Wants
<1>n. start[s] \in {"idle", "runner", "council", "publish", "cleaned"} =>
        holder[s] = None /\ state[s] # "stopping"
  <2>1. holder[s] \in {"start", "watch", None} \/ holder[s] \in Stops
    BY DEF TypeOK, Callers
  <2>2. QED
    BY <2>1, <1>h DEF Sound, OneStop, OwnUntilUp, Wants, At
\* The state that counts for the start: what the step makes of it.
<1>t. ASSUME state'[s] = "stopping" <=> state[s] = "stopping",
             children'[s] = children[s] \/ state[s] # "stopping",
             OwnUntilUp(s)', Made(s)', Recorded(s)', Over(s)', Unharmed(s)'
      PROVE  \A u \in Starts : Sound(u)'
  <2>1. OneStop(s)'
    BY <1>t, <1>h, <1>1 DEF Sound, OneStop
  <2>2. QED
    BY <2>1, <1>t, <1>o DEF Sound
<1>s. OwnUntilUp(s) /\ Made(s) /\ Recorded(s) /\ Over(s) /\ Unharmed(s)
  BY DEF Sound
<1>y. /\ start \in [Starts -> {"idle", "runner", "council", "publish", "wait", "healthy",
                               "adopt", "cleanup", "cleaned", "undo", "up", "failed"}]
      /\ state \in [Starts -> {"stopped", "starting", "ready", "stopping", "failed"}]
      /\ children \in [Starts -> SUBSET Services]
      /\ watch \in [Starts -> {"none", "waiting", "stop", "done"}]
  BY DEF TypeOK
<1> USE DEF OwnUntilUp, Made, Recorded, Over, Unharmed, Unasked, At, Goto, SetState, Return
<1>2. CASE StartBegin(s)
  <2>1. /\ start[s] = "idle" /\ start'[s] = "runner" /\ state'[s] = "starting"
        /\ UNCHANGED <<runtime, children, child, watch, stop>>
    BY <1>2, <1>y DEF StartBegin
  <2>2. QED
    BY <2>1, <1>s, <1>t, <1>n
<1>3. CASE FailStart(s)
  <2>1. /\ start[s] = "runner" /\ start'[s] = "failed" /\ state'[s] = "failed"
        /\ UNCHANGED <<runtime, children, child, watch, stop>>
    BY <1>3, <1>y DEF FailStart
  <2>2. state[s] # "stopping"
    BY <2>1, <1>s
  <2>3. QED
    BY <2>1, <2>2, <1>s, <1>t
<1>4. CASE CleanedUp(s)
  <2>1. /\ start[s] = "cleaned" /\ start'[s] = "failed" /\ state'[s] = "failed"
        /\ UNCHANGED <<runtime, children, child, watch, stop>>
    BY <1>4, <1>y DEF CleanedUp
  <2>2. QED
    BY <2>1, <1>s, <1>t, <1>n
<1>5. CASE Publish(s)
  <2>1. /\ start[s] = "publish" /\ start'[s] = "wait"
        /\ children'[s] = Services /\ watch'[s] = "waiting"
        /\ UNCHANGED <<runtime, state, child, stop>>
    BY <1>5, <1>y DEF Publish
  <2>2. Unasked(s)' \subseteq Services
    OBVIOUS
  <2>3. QED
    BY <2>1, <2>2, <1>s, <1>t, <1>n
<1>6. CASE CouncilFails(s)
  <2>1. /\ start[s] = "council" /\ start'[s] = "cleanup" /\ children'[s] = {"runner"}
        /\ UNCHANGED <<runtime, state, child, watch, stop>>
    BY <1>6, <1>y DEF CouncilFails
  <2>2. Unasked(s)' \subseteq {"runner"}
    BY <2>1, <1>s DEF Services
  <2>3. QED
    BY <2>1, <2>2, <1>s, <1>t, <1>n
<1>7. CASE StartRunner(s)
  <2>1. /\ start[s] = "runner" /\ start'[s] = "council"
        /\ UNCHANGED <<runtime, state, children, watch, stop>>
    BY <1>7, <1>y DEF StartRunner
  <2>2. child'[s]["runner"] = "running" /\ child'[s]["council"] = child[s]["council"]
    BY <1>7, ChildType DEF StartRunner, Spawn, Services
  <2>3. QED
    BY <2>1, <2>2, <1>s, <1>t, <1>n DEF Services
<1>8. CASE StartCouncil(s)
  <2>1. /\ start[s] = "council" /\ start'[s] = "publish"
        /\ UNCHANGED <<runtime, state, children, watch, stop>>
    BY <1>8, <1>y DEF StartCouncil
  <2>2. child'[s]["council"] = "running" /\ child'[s]["runner"] = child[s]["runner"]
    BY <1>8, ChildType DEF StartCouncil, Spawn, Services
  <2>3. QED
    BY <2>1, <2>2, <1>s, <1>t, <1>n DEF Services
<1>9. CASE Healthy(s) \/ WaitFails(s)
  <2>1. /\ start[s] = "wait" /\ start'[s] \in {"healthy", "undo"}
        /\ UNCHANGED <<runtime, state, children, child, watch, stop>>
    BY <1>9, <1>y DEF Healthy, WaitFails, rt
  <2>2. QED
    BY <2>1, <1>s, <1>t
<1>10. CASE BecomeReady(s)
  <2>1. /\ start[s] = "healthy" /\ start'[s] \in {"adopt", "wait"}
        /\ UNCHANGED <<runtime, children, child, watch, stop>>
    BY <1>10, <1>y DEF BecomeReady
  <2>2. state'[s] = state[s] \/ (state'[s] = "ready" /\ state[s] \in {"starting", "ready"})
    BY <1>10, <1>y DEF BecomeReady
  <2>3. QED
    BY <2>1, <2>2, <1>s, <1>t
<1>11. CASE Adopt(s)
  <2>1. /\ start[s] = "adopt" /\ start'[s] = "up"
        /\ UNCHANGED <<state, children, child, watch, stop>>
    BY <1>11, <1>y DEF Adopt, rt
  <2>2. QED
    BY <2>1, <1>s, <1>t
<1>12. QED
  BY <1>2, <1>3, <1>4, <1>5, <1>6, <1>7, <1>8, <1>9, <1>10, <1>11 DEF StartStep

\* What the caller of a Stop does when it returns.
LEMMA Resumed ==
  ASSUME TypeOK, NEW s \in Starts, NEW by \in Callers, NEW error \in BOOLEAN,
         Wants(s, by), Resume(s, by, error)
  PROVE  /\ <<start[s], start'[s]>> \in {<<"cleanup", "cleaned">>, <<"undo", "failed">>}
            \/ start'[s] = start[s]
         /\ watch'[s] \in {watch[s], "done"} /\ (watch[s] = "none" => watch'[s] = "none")
         /\ \A k \in Stops : stop'[k] = s => stop[k] = s
         /\ runtime' \in {runtime, None}
         /\ \A u \in Starts : u # s =>
              /\ start'[u] = start[u] /\ watch'[u] = watch[u]
              /\ \A k \in Stops : stop'[k] = u <=> stop[k] = u
<1>1. CASE by = "start"
  BY <1>1 DEF Resume, Wants, TypeOK, At, Goto, Return
<1>2. CASE by = "watch"
  BY <1>2 DEF Resume, Wants, TypeOK
<1>3. CASE by \notin {"start", "watch"}
  <2>1. by \in Stops /\ stop[by] = s
    BY <1>3 DEF Callers, Wants
  <2>2. /\ stop' = [stop EXCEPT ![by] = None] /\ UNCHANGED <<start, over, watch>>
        /\ runtime' \in {runtime, None}
    BY <1>3 DEF Resume
  <2>3. QED
    BY <2>1, <2>2, DesktopAssumption DEF TypeOK
<1>4. QED
  BY <1>1, <1>2, <1>3

\* A Stop ends with every recorded child dead or killed, and no other is left.
LEMMA MarkedSound ==
  ASSUME TypeOK, \A u \in Starts : Sound(u),
         NEW s \in Starts, NEW by \in Callers, NEW error \in BOOLEAN,
         Wants(s, by), Resume(s, by, error), MarkStopped(s),
         Unasked(s)' = {}, \A u \in Starts : u # s => child'[u] = child[u]
  PROVE  \A u \in Starts : Sound(u)'
<1>1. /\ state'[s] = "stopped" /\ holder'[s] = None
      /\ \A u \in Starts : u # s => /\ state'[u] = state[u] /\ children'[u] = children[u]
                                    /\ holder'[u] = holder[u] /\ joining'[u] = joining[u]
  BY DEF MarkStopped, SetState, TypeOK
<1>2. \A u \in Starts : u # s => Sound(u)'
  BY <1>1, Resumed, Elsewhere, DesktopAssumption
<1>3. /\ <<start[s], start'[s]>> \in {<<"cleanup", "cleaned">>, <<"undo", "failed">>}
         \/ start'[s] = start[s]
      /\ watch[s] = "none" => watch'[s] = "none"
      /\ \A k \in Stops : stop'[k] = s => stop[k] = s
      /\ runtime' = s => runtime = s
  BY Resumed, DesktopAssumption
<1>4. start[s] \notin {"idle", "runner", "council", "publish"}
  BY DEF Wants, Sound, OwnUntilUp, At, Callers
<1>5. OneStop(s)'
  BY <1>1 DEF OneStop
<1>6. OwnUntilUp(s)'
  BY <1>3 DEF Sound, OwnUntilUp, At
<1>7. Made(s)' /\ Recorded(s)' /\ Over(s)' /\ Unharmed(s)'
  BY <1>1, <1>3, <1>4 DEF Made, Recorded, Over, Unharmed, At
<1>8. QED
  BY <1>2, <1>5, <1>6, <1>7 DEF Sound

LEMMA StopSound ==
  ASSUME TypeOK, \A u \in Starts : Sound(u),
         NEW s \in Starts, NEW by \in Callers, StopStep(s, by)
  PROVE  \A u \in Starts : Sound(u)'
<1>w. holder[s] = by => Wants(s, by)
  BY DesktopAssumption DEF Sound, OneStop, Callers, None
<1>1. CASE StopAlready(s, by)
  <2>1. /\ Wants(s, by) /\ Resume(s, by, FALSE)
        /\ UNCHANGED <<state, children, child, holder, joining>>
        /\ state[s] = "stopped" /\ holder[s] = None
    BY <1>1 DEF StopAlready, rt
  <2>e. PICK error \in BOOLEAN : Resume(s, by, error)
    BY <2>1
  <2>2. \A u \in Starts : u # s => Sound(u)'
    BY <2>1, <2>e, Resumed, Elsewhere, DesktopAssumption
  <2>3. /\ <<start[s], start'[s]>> \in {<<"cleanup", "cleaned">>, <<"undo", "failed">>}
           \/ start'[s] = start[s]
        /\ watch[s] = "none" => watch'[s] = "none"
        /\ \A k \in Stops : stop'[k] = s => stop[k] = s
        /\ runtime' = s => runtime = s
    BY <2>1, <2>e, Resumed, DesktopAssumption
  <2>4. OneStop(s)'
    BY <2>1 DEF OneStop
  <2>5. OwnUntilUp(s)'
    BY <2>3 DEF Sound, OwnUntilUp, At
  <2>6. Made(s)' /\ Recorded(s)' /\ Over(s)' /\ Unharmed(s)'
    BY <2>1, <2>3 DEF Sound, Made, Recorded, Over, Unharmed, Unasked, At
  <2>7. QED
    BY <2>2, <2>4, <2>5, <2>6 DEF Sound
<1>2. CASE StopBegin(s, by)
  <2>1. /\ Wants(s, by) /\ state[s] # "stopped"
        /\ UNCHANGED <<runtime, start, children, watch, stop>>
        /\ state'[s] = "stopping" /\ holder'[s] = by /\ joining'[s] = children[s]
        /\ \A u \in Starts : u # s => /\ state'[u] = state[u] /\ holder'[u] = holder[u]
                                      /\ joining'[u] = joining[u] /\ child'[u] = child[u]
    BY <1>2 DEF StopBegin, SetState, TypeOK
  <2>2. \A u \in Starts : u # s => Sound(u)'
    BY <2>1, Elsewhere
  <2>3. /\ Wants(s, by)' /\ by # None
    BY <2>1, DesktopAssumption DEF Wants, Callers, None
  <2>4. /\ \A c \in Services : child'[s][c] \in {"running", "asked"}
                                  => child[s][c] \in {"running", "asked"}
        /\ \A c \in Services : child[s][c] = "none" => child'[s][c] = "none"
    BY <1>2 DEF StopBegin, TypeOK, Asked
  <2>5. start[s] \notin {"idle", "runner", "council", "publish"}
    BY <2>1 DEF Wants, Sound, OwnUntilUp, At, Callers
  <2>6. OneStop(s)'
    BY <2>1, <2>3 DEF OneStop
  <2>7. OwnUntilUp(s)'
    BY <2>1 DEF Sound, OwnUntilUp, At
  <2>8. Made(s)' /\ Recorded(s)' /\ Over(s)' /\ Unharmed(s)'
    BY <2>1, <2>4, <2>5 DEF Sound, Made, Recorded, Over, Unharmed, Unasked, At
  <2>9. QED
    BY <2>2, <2>6, <2>7, <2>8 DEF Sound
<1>3. CASE StopJoined(s, by) \/ StopForces(s, by)
  <2>1. /\ holder[s] = by /\ Wants(s, by) /\ MarkStopped(s)
        /\ \E error \in BOOLEAN : Resume(s, by, error)
    BY <1>3, <1>w DEF StopJoined, StopForces
  <2>2. joining[s] = children[s] /\ Recorded(s) /\ Over(s)
    BY <2>1, DesktopAssumption DEF Sound, OneStop, Callers, None
  <2>3. Unasked(s) \subseteq joining[s]
    <3>1. start[s] \notin {"idle", "runner", "council", "publish"}
      BY <2>1 DEF Wants, Sound, OwnUntilUp, At, Callers
    <3>2. start[s] \in {"cleanup", "wait", "healthy", "adopt", "undo", "up", "cleaned", "failed"}
      BY <3>1 DEF TypeOK
    <3>3. QED
      BY <2>2, <3>2 DEF Recorded, Over
  <2>4. Unasked(s)' = {} /\ \A u \in Starts : u # s => child'[u] = child[u]
    <3>1. CASE StopJoined(s, by)
      BY <3>1, <2>3 DEF StopJoined, Unasked, Alive
    <3>2. CASE StopForces(s, by)
      BY <3>2, <2>3 DEF StopForces, Unasked, Alive, TypeOK
    <3>3. QED
      BY <1>3, <3>1, <3>2
  <2>5. QED
    BY <2>1, <2>4, MarkedSound
<1>4. QED
  BY <1>1, <1>2, <1>3 DEF StopStep

\* The watcher and the ends of children.
LEMMA BackgroundSound ==
  ASSUME TypeOK, \A u \in Starts : Sound(u), NEW s \in Starts,
         WatchFires(s) \/ WatchEnds(s) \/ \E c \in Services : ChildExits(s, c) \/ ChildReported(s, c)
  PROVE  \A u \in Starts : Sound(u)'
<1>1. CASE WatchFires(s) \/ WatchEnds(s)
  <2>1. /\ UNCHANGED <<runtime, start, state, children, child, holder, joining, stop>>
        /\ watch[s] = "waiting" /\ watch'[s] \in {"stop", "done"}
        /\ \A u \in Starts : u # s => watch'[u] = watch[u]
    BY <1>1 DEF WatchFires, WatchEnds, rt, TypeOK
  <2>2. \A u \in Starts : u # s => Sound(u)'
    BY <2>1, Elsewhere
  <2>3. holder[s] # None => Wants(s, holder[s])'
    <3>1. holder[s] \in {"start", "watch", None} \/ holder[s] \in Stops
      BY DEF TypeOK, Callers
    <3>2. QED
      BY <2>1, <3>1 DEF Wants, Sound, OneStop
  <2>4. OneStop(s)' /\ OwnUntilUp(s)'
    BY <2>1, <2>3 DEF Sound, OneStop, OwnUntilUp, At
  <2>5. Made(s)' /\ Recorded(s)' /\ Over(s)' /\ Unharmed(s)'
    BY <2>1 DEF Sound, Made, Recorded, Over, Unharmed, Unasked, At
  <2>6. QED
    BY <2>2, <2>4, <2>5 DEF Sound
<1>2. ASSUME NEW c \in Services, ChildExits(s, c) \/ ChildReported(s, c)
      PROVE  \A u \in Starts : Sound(u)'
  <2>1. UNCHANGED <<runtime, start, children, holder, joining, watch, stop>>
    BY <1>2 DEF ChildExits, ChildReported
  <2>2. /\ child[s][c] \notin {"none", "reported"} /\ child'[s][c] \in {"exited", "reported"}
        /\ child'[s][c] = "reported" => state'[s] \notin {"starting", "ready"}
        /\ state'[s] # state[s] => state[s] \in {"starting", "ready"} /\ state'[s] = "failed"
        /\ \A u \in Starts : u # s => state'[u] = state[u]
    BY <1>2, ChildType DEF ChildExits, ChildReported, SetChild, SetState, TypeOK
  <2>3. /\ \A d \in Services : d # c => child'[s][d] = child[s][d]
        /\ \A u \in Starts : u # s => child'[u] = child[u]
    BY <1>2, ChildType DEF ChildExits, ChildReported, SetChild
  <2>4. \A u \in Starts : u # s => Sound(u)'
    BY <2>1, <2>2, <2>3, Elsewhere
  <2>5. OneStop(s)' /\ OwnUntilUp(s)'
    BY <2>1, <2>2 DEF Sound, OneStop, OwnUntilUp, Wants, At
  <2>6. Unasked(s)' \subseteq Unasked(s)
    BY <2>2, <2>3 DEF Unasked
  <2>7. Made(s)' /\ Recorded(s)' /\ Over(s)'
    BY <2>1, <2>2, <2>3, <2>6 DEF Sound, Made, Recorded, Over, At, Services
  <2>8. Unharmed(s)'
    BY <2>2, <2>3 DEF Sound, Unharmed
  <2>9. QED
    BY <2>4, <2>5, <2>7, <2>8 DEF Sound
<1>3. QED
  BY <1>1, <1>2

\* The user stops a runtime that the shell has adopted.
LEMMA StopCalledSound ==
  ASSUME TypeOK, \A u \in Starts : Sound(u), NEW k \in Stops, StopCalled(k)
  PROVE  \A u \in Starts : Sound(u)'
<1> SUFFICES ASSUME NEW u \in Starts
             PROVE  Sound(u)'
  OBVIOUS
<1>1. /\ UNCHANGED <<runtime, start, state, children, child, holder, joining, watch>>
      /\ stop[k] = None /\ stop' = [stop EXCEPT ![k] = runtime] /\ runtime # None
  BY DEF StopCalled, rt
<1>2. CASE runtime # u
  <2>1. \A j \in Stops : stop'[j] = u <=> stop[j] = u
    BY <1>1, <1>2, DesktopAssumption DEF TypeOK
  <2>2. QED
    BY <1>1, <2>1, Elsewhere
<1>3. CASE runtime = u
  <2>1. At(u, "up")
    BY <1>3 DEF Sound, OwnUntilUp
  <2>2. holder[u] # None => Wants(u, holder[u])'
    <3>1. holder[u] \in {"start", "watch", None} \/ holder[u] \in Stops
      BY DEF TypeOK, Callers
    <3>2. holder[u] # None => Wants(u, holder[u])
      BY DEF Sound, OneStop
    <3>3. \A j \in Stops : stop[j] = u => stop'[j] = u
      BY <1>1, DesktopAssumption DEF TypeOK
    <3>4. QED
      BY <1>1, <3>1, <3>2, <3>3 DEF Wants
  <2>3. OneStop(u)' /\ OwnUntilUp(u)'
    BY <1>1, <2>1, <2>2 DEF Sound, OneStop, OwnUntilUp, At
  <2>4. Made(u)' /\ Recorded(u)' /\ Over(u)' /\ Unharmed(u)'
    BY <1>1 DEF Sound, Made, Recorded, Over, Unharmed, Unasked, At
  <2>5. QED
    BY <2>3, <2>4 DEF Sound
<1>4. QED
  BY <1>2, <1>3

LEMMA SoundNext ==
  ASSUME TypeOK, \A s \in Starts : Sound(s), [Next]_vars
  PROVE  \A s \in Starts : Sound(s)'
<1>1. ASSUME NEW s \in Starts, Deadline(s) \/ UNCHANGED vars
      PROVE  \A u \in Starts : Sound(u)'
  <2>1. UNCHANGED <<runtime, start, state, children, child, holder, joining, watch, stop>>
    BY <1>1 DEF Deadline, vars, rt
  <2>2. QED
    BY <2>1, Elsewhere
<1>2. CASE UNCHANGED vars
  BY <1>1, <1>2
<1>3. QED
  BY <1>1, <1>2, StartSound, StopSound, BackgroundSound, StopCalledSound DEF Next

\* The inductive invariant, for any number of starts and stops and any faults.
THEOREM Invariant == Spec => []IInv
<1>1. Init => IInv
  BY TypeInit, SoundInit DEF IInv
<1>2. IInv /\ [Next]_vars => IInv'
  BY TypeNext, SoundNext DEF IInv
<1>3. QED
  BY <1>1, <1>2, PTL DEF Spec

\* However starts, stops, watchers and ends of children interleave, a runtime that
\* was stopped or given up has no child that was never asked to end.
THEOREM EveryChildIsFound == Spec => []NoChildIsForgotten
<1>1. IInv => NoChildIsForgotten
  BY DEF IInv, Sound, Over, NoChildIsForgotten, Unasked, At
<1>2. QED
  BY <1>1, Invariant, PTL

\* The report that a child has ended is never overwritten: a runtime is ready only
\* while neither of its services was seen to end.
THEOREM ReadyMeansAlive == Spec => []ReadyIsAlive
<1>1. IInv => ReadyIsAlive
  BY DEF IInv, Sound, Unharmed, ReadyIsAlive
<1>2. QED
  BY <1>1, Invariant, PTL

=============================================================================
