--------------------------- MODULE DesktopRuntime ---------------------------
(***************************************************************************)
(* The desktop shell (cmd/aicouncil-desktop/app.go) and the runtime of its *)
(* two services (internal/desktop/runtime.go).  Each call of the shell's   *)
(* Start makes a runtime of its own: starts the Runner and the Council as  *)
(* child processes, waits until both are healthy and adopts the runtime.   *)
(* Runtime.Stop is called by the shell's Stop, by a Start that fails, and  *)
(* by the goroutine that watches the context Start was given.              *)
(*                                                                         *)
(* What a goroutine does under Runtime.mu, or between two waits, is one    *)
(* action.  Children end at any time, and only after being asked or killed *)
(* if nothing goes wrong.                                                  *)
(***************************************************************************)
EXTENDS Naturals, FiniteSets

CONSTANTS
  Starts,      \* calls of DesktopApp.Start, and the runtimes they make
  Stops,       \* calls of DesktopApp.Stop that run at once
  Faults       \* what goes wrong: a start step ("start"), a child that ends by
               \* itself ("exit") or does not end when asked ("hang"), a
               \* deadline that passes ("deadline")

None == "NONE"

ASSUME DesktopAssumption ==
  /\ Faults \subseteq {"start", "exit", "hang", "deadline"}
  /\ None \notin Starts
  /\ Stops \cap {None, "start", "watch"} = {}

Services == {"runner", "council"}

VARIABLES
  runtime,    \* DesktopApp.runtime
  start,      \* where a call of DesktopApp.Start is
  state,      \* Runtime.status.State
  children,   \* Runtime.children
  child,      \* the processes
  over,       \* contexts of Start that are cancelled
  watch,      \* the goroutine that watches the context
  holder,     \* who holds Runtime.stopMu
  joining,    \* the children that the holder asked, and waits for
  stop,       \* calls of DesktopApp.Stop
  requested   \* history: runtimes that DesktopApp.Stop was called on

rt == <<state, children, child, holder, joining>>
vars == <<runtime, start, rt, over, watch, stop, requested>>

Init ==
  /\ runtime = None
  /\ start = [s \in Starts |-> "idle"]
  /\ state = [s \in Starts |-> "stopped"]
  /\ children = [s \in Starts |-> {}]
  /\ child = [s \in Starts |-> [c \in Services |-> "none"]]
  /\ over = {}
  /\ watch = [s \in Starts |-> "none"]
  /\ holder = [s \in Starts |-> None]
  /\ joining = [s \in Starts |-> {}]
  /\ stop = [k \in Stops |-> None]
  /\ requested = {}

Alive(s, c) == child[s][c] \in {"running", "asked", "killed"}
At(s, pc) == start[s] = pc
Goto(s, pc) == start' = [start EXCEPT ![s] = pc]
SetState(s, x) == state' = [state EXCEPT ![s] = x]

\* The deferred cancel of a Start that returns.
Return(s, pc) == Goto(s, pc) /\ over' = over \cup {s}

-----------------------------------------------------------------------------
(* DesktopApp.Start and Runtime.Start                                       *)

StartBegin(s) ==
  /\ At(s, "idle")
  /\ runtime = None
  /\ Goto(s, "runner")
  /\ SetState(s, "starting")
  /\ UNCHANGED <<runtime, children, child, holder, joining, over, watch, stop, requested>>

Spawn(s, c) == child' = [child EXCEPT ![s][c] = "running"]

StartRunner(s) ==
  /\ At(s, "runner")
  /\ Spawn(s, "runner")
  /\ Goto(s, "council")
  /\ UNCHANGED <<runtime, state, children, holder, joining, over, watch, stop, requested>>

\* failStart: an address, the token, a log or the Runner cannot be had.
FailStart(s) ==
  /\ "start" \in Faults
  /\ At(s, "runner")
  /\ SetState(s, "failed")
  /\ Return(s, "failed")
  /\ UNCHANGED <<runtime, children, child, holder, joining, watch, stop, requested>>

StartCouncil(s) ==
  /\ At(s, "council")
  /\ Spawn(s, "council")
  /\ Goto(s, "publish")
  /\ UNCHANGED <<runtime, state, children, holder, joining, over, watch, stop, requested>>

\* Variant: the Runner is not recorded before the clean-up.
CouncilFailsUnrecorded(s) ==
  /\ "start" \in Faults
  /\ At(s, "council")
  /\ Goto(s, "cleanup")
  /\ UNCHANGED <<runtime, state, children, child, holder, joining, over, watch, stop, requested>>

CouncilFails(s) ==
  /\ "start" \in Faults
  /\ At(s, "council")
  /\ children' = [children EXCEPT ![s] = {"runner"}]
  /\ Goto(s, "cleanup")
  /\ UNCHANGED <<runtime, state, child, holder, joining, over, watch, stop, requested>>

\* After the clean-up's Stop.
CleanedUp(s) ==
  /\ At(s, "cleaned")
  /\ SetState(s, "failed")
  /\ Return(s, "failed")
  /\ UNCHANGED <<runtime, children, child, holder, joining, watch, stop, requested>>

Publish(s) ==
  /\ At(s, "publish")
  /\ children' = [children EXCEPT ![s] = Services]
  /\ watch' = [watch EXCEPT ![s] = "waiting"]
  /\ Goto(s, "wait")
  /\ UNCHANGED <<runtime, state, child, holder, joining, over, stop, requested>>

\* WaitReady: both health checks succeed.
Healthy(s) ==
  /\ At(s, "wait")
  /\ state[s] = "starting"
  /\ \A c \in Services : Alive(s, c)
  /\ Goto(s, "healthy")
  /\ UNCHANGED <<runtime, rt, over, watch, stop, requested>>

\* Variant: what happened since the checks is not looked at.
BecomeReadyAnyway(s) ==
  /\ At(s, "healthy")
  /\ SetState(s, "ready") /\ Goto(s, "adopt")
  /\ UNCHANGED <<runtime, children, child, holder, joining, over, watch, stop, requested>>

\* The lock is taken after the checks: ready only if still starting.
BecomeReady(s) ==
  /\ At(s, "healthy")
  /\ IF state[s] \in {"starting", "ready"}
     THEN SetState(s, "ready") /\ Goto(s, "adopt")
     ELSE UNCHANGED state /\ Goto(s, "wait")
  /\ UNCHANGED <<runtime, children, child, holder, joining, over, watch, stop, requested>>

\* WaitReady gives up: the runtime is not starting any more, or time is over.
WaitFails(s) ==
  /\ At(s, "wait")
  /\ state[s] \notin {"starting", "ready"} \/ s \in over
  /\ Goto(s, "undo")
  /\ UNCHANGED <<runtime, rt, over, watch, stop, requested>>

\* The runtime is kept, and the context of its start is cancelled.
Adopt(s) ==
  /\ At(s, "adopt")
  /\ runtime' = s
  /\ Return(s, "up")
  /\ UNCHANGED <<rt, watch, stop, requested>>

\* The startup timeout.
Deadline(s) ==
  /\ "deadline" \in Faults
  /\ start[s] \notin {"idle", "up", "failed"} /\ s \notin over
  /\ over' = over \cup {s}
  /\ UNCHANGED <<runtime, start, rt, watch, stop, requested>>

StartStep(s) ==
  \/ StartRunner(s) \/ StartCouncil(s) \/ CouncilFails(s) \/ FailStart(s)
  \/ CleanedUp(s) \/ Publish(s) \/ Healthy(s) \/ BecomeReady(s) \/ WaitFails(s) \/ Adopt(s)

-----------------------------------------------------------------------------
(* Runtime.Stop, on behalf of a Start, of the watcher or of a call of Stop. *)

Wants(s, by) ==
  CASE by = "start" -> start[s] \in {"cleanup", "undo"}
    [] by = "watch" -> watch[s] = "stop"
    [] OTHER -> stop[by] = s

\* What the caller does when Stop returns; a cancelled Stop is an error.
Resume(s, by, error) ==
  CASE by = "start" ->
         /\ IF At(s, "cleanup") THEN Goto(s, "cleaned") /\ UNCHANGED over ELSE Return(s, "failed")
         /\ UNCHANGED <<runtime, watch, stop>>
    [] by = "watch" ->
         /\ watch' = [watch EXCEPT ![s] = "done"]
         /\ UNCHANGED <<runtime, start, over, stop>>
    [] OTHER ->
         /\ stop' = [stop EXCEPT ![by] = None]
         /\ runtime' = IF runtime = s /\ ~error THEN None ELSE runtime
         /\ UNCHANGED <<start, over, watch>>

\* Another Stop has done it.
StopAlready(s, by) ==
  /\ Wants(s, by) /\ holder[s] = None
  /\ state[s] = "stopped"
  /\ Resume(s, by, FALSE)
  /\ UNCHANGED <<rt, requested>>

\* Shutdown route and signal: a child that runs is asked to end.
Asked(x) == IF x = "running" THEN "asked" ELSE x

\* STOPPING, the watcher's channel closed, and the children asked to end, the
\* Council first.
StopBegin(s, by) ==
  /\ Wants(s, by) /\ holder[s] = None
  /\ state[s] # "stopped"
  /\ SetState(s, "stopping")
  /\ holder' = [holder EXCEPT ![s] = by]
  /\ joining' = [joining EXCEPT ![s] = children[s]]
  /\ child' = [child EXCEPT ![s] =
       [c \in Services |-> IF c \in children[s] THEN Asked(child[s][c]) ELSE child[s][c]]]
  /\ UNCHANGED <<runtime, start, children, over, watch, stop, requested>>

MarkStopped(s) ==
  /\ SetState(s, "stopped")
  /\ children' = [children EXCEPT ![s] = {}]
  /\ holder' = [holder EXCEPT ![s] = None]
  /\ joining' = [joining EXCEPT ![s] = {}]

StopJoined(s, by) ==
  /\ holder[s] = by
  /\ \A c \in joining[s] : ~Alive(s, c)
  /\ MarkStopped(s)
  /\ Resume(s, by, FALSE)
  /\ UNCHANGED <<child, requested>>

\* Variant: nothing ends the wait for the children.
StopNeverForces(s, by) == FALSE /\ UNCHANGED vars

\* Variant: the children that did not end are left alone.
StopGivesUp(s, by) ==
  /\ holder[s] = by
  /\ \E c \in joining[s] : Alive(s, c)
  /\ MarkStopped(s)
  /\ Resume(s, by, FALSE)
  /\ UNCHANGED <<child, requested>>

\* The stop timeout passes, or the deadline of the call of Stop, which select may
\* see though the children have ended: what is still running is killed.
StopForces(s, by) ==
  /\ holder[s] = by
  /\ joining[s] # {}
  /\ child' = [child EXCEPT ![s] =
       [c \in Services |-> IF c \in joining[s] /\ Alive(s, c) THEN "killed" ELSE child[s][c]]]
  /\ MarkStopped(s)
  /\ \E error \in IF by \in Stops THEN BOOLEAN ELSE {FALSE} : Resume(s, by, error)
  /\ UNCHANGED <<requested>>

StopStep(s, by) ==
  \/ StopAlready(s, by) \/ StopBegin(s, by) \/ StopJoined(s, by) \/ StopForces(s, by)

\* The watcher's select: the context is over, or Stop has closed the channel.
WatchFires(s) ==
  /\ watch[s] = "waiting"
  /\ s \in over
  /\ watch' = [watch EXCEPT ![s] = "stop"]
  /\ UNCHANGED <<runtime, start, rt, over, stop, requested>>

WatchEnds(s) ==
  /\ watch[s] = "waiting"
  /\ state[s] \in {"stopping", "stopped"}
  /\ watch' = [watch EXCEPT ![s] = "done"]
  /\ UNCHANGED <<runtime, start, rt, over, stop, requested>>

-----------------------------------------------------------------------------
(* The children, each with the goroutine that waits for it.                 *)

SetChild(s, c, x) == child' = [child EXCEPT ![s][c] = x]

\* A child ends: killed, or as it was asked to, or by itself.
ChildExits(s, c) ==
  /\ \/ child[s][c] \in {"asked", "killed"}
     \/ child[s][c] = "running" /\ "exit" \in Faults
  /\ SetChild(s, c, "exited")
  /\ UNCHANGED <<runtime, start, state, children, holder, joining, over, watch, stop, requested>>

ChildReported(s, c) ==
  /\ child[s][c] = "exited"
  /\ SetChild(s, c, "reported")
  /\ IF state[s] \in {"starting", "ready"} THEN SetState(s, "failed") ELSE UNCHANGED state
  /\ UNCHANGED <<runtime, start, children, holder, joining, over, watch, stop, requested>>

-----------------------------------------------------------------------------
(* The user: DesktopApp.Stop, with a runtime.                               *)

StopCalled(k) ==
  /\ stop[k] = None /\ runtime # None
  /\ stop' = [stop EXCEPT ![k] = runtime]
  /\ requested' = requested \cup {runtime}
  /\ UNCHANGED <<runtime, start, rt, over, watch>>

Callers == {"start", "watch"} \cup Stops

Next ==
  \/ \E s \in Starts :
       \/ StartBegin(s) \/ StartStep(s) \/ Deadline(s)
       \/ \E by \in Callers : StopStep(s, by)
       \/ WatchFires(s) \/ WatchEnds(s)
       \/ \E c \in Services : ChildExits(s, c) \/ ChildReported(s, c)
  \/ \E k \in Stops : StopCalled(k)

Spec == Init /\ [][Next]_vars

\* The steps of the goroutines of a runtime, each taken at most once, and the
\* end of a process that was killed.  One that was only asked may hang.
Background(s) ==
  \/ WatchFires(s) \/ WatchEnds(s)
  \/ \E c \in Services :
       \/ ChildReported(s, c)
       \/ (child[s][c] = "killed" \/ "hang" \notin Faults) /\ ChildExits(s, c)

\* A goroutine that can go on does, and timeouts pass.
Fairness ==
  \A s \in Starts :
    /\ WF_vars(StartStep(s))
    /\ \A by \in Callers : WF_vars(StopStep(s, by))
    /\ WF_vars(Background(s))

FairSpec == Spec /\ Fairness

-----------------------------------------------------------------------------
TypeOK ==
  /\ runtime \in Starts \cup {None}
  /\ start \in [Starts -> {"idle", "runner", "council", "publish", "wait", "healthy", "adopt",
                           "cleanup", "cleaned", "undo", "up", "failed"}]
  /\ state \in [Starts -> {"stopped", "starting", "ready", "stopping", "failed"}]
  /\ children \in [Starts -> SUBSET Services] /\ joining \in [Starts -> SUBSET Services]
  /\ child \in [Starts -> [Services -> {"none", "running", "asked", "killed", "exited", "reported"}]]
  /\ over \subseteq Starts /\ requested \subseteq Starts
  /\ watch \in [Starts -> {"none", "waiting", "stop", "done"}]
  /\ holder \in [Starts -> Callers \cup {None}]
  /\ stop \in [Stops -> Starts \cup {None}]

\* A runtime that a Stop has ended, or a Start has given up, has no child that
\* was never asked to end: on every way out of Start the children it made are
\* recorded before Stop looks for them, and no child is started after it.
NoChildIsForgotten ==
  \A s \in Starts :
    state[s] = "stopped" \/ At(s, "failed") =>
      \A c \in Services : child[s][c] \notin {"running", "asked"}

\* A runtime is ready only while neither service was seen to end: the report of
\* an exit, the health checks and Stop race, and an exit is not overwritten.
ReadyIsAlive ==
  \A s \in Starts : state[s] = "ready" => \A c \in Services : child[s][c] # "reported"

-----------------------------------------------------------------------------
(* The inductive invariant, runtime by runtime.                             *)

Unasked(s) == {c \in Services : child[s][c] \in {"running", "asked"}}

\* A runtime is STOPPING exactly while a Stop holds its lock, on behalf of a
\* goroutine that waits for it, and that Stop looks at every recorded child.
OneStop(s) ==
  /\ state[s] = "stopping" <=> holder[s] # None
  /\ holder[s] # None => Wants(s, holder[s]) /\ joining[s] = children[s]

\* Before a start has recorded its children nobody but itself can stop it: there
\* is no watcher yet, and the shell knows only runtimes that it has adopted.
OwnUntilUp(s) ==
  /\ start[s] \in {"idle", "runner", "council", "publish", "cleanup", "cleaned"}
       => watch[s] = "none"
  /\ ~At(s, "up") => runtime # s /\ \A k \in Stops : stop[k] # s

\* How far the start is in making its children.
Made(s) ==
  /\ start[s] \in {"idle", "runner"} => \A c \in Services : child[s][c] = "none"
  /\ At(s, "council") => child[s]["council"] = "none"
  /\ start[s] \in {"runner", "council", "publish"} => state[s] \in {"starting", "failed"}

\* Whenever a Stop may come, it finds every child that has not been asked.
Recorded(s) ==
  start[s] \in {"cleanup", "wait", "healthy", "adopt", "undo", "up"}
    => Unasked(s) \subseteq children[s]

\* What a Stop has ended, or a start has given up, has no such child.
Over(s) ==
  state[s] = "stopped" \/ start[s] \in {"cleaned", "failed"} => Unasked(s) = {}

\* A runtime on its way up, or up, has seen none of its children end.
Unharmed(s) ==
  state[s] \in {"starting", "ready"} => \A c \in Services : child[s][c] # "reported"

Sound(s) ==
  OneStop(s) /\ OwnUntilUp(s) /\ Made(s) /\ Recorded(s) /\ Over(s) /\ Unharmed(s)

IInv == TypeOK /\ \A s \in Starts : Sound(s)

-----------------------------------------------------------------------------
(* Liveness, and what is expected of a runtime that is up.                  *)

\* Stop ends within its timeouts for every caller, whoever holds the lock and
\* whatever the children do, and leaves no child: neither a hanging process nor
\* a second Stop keeps it.
Stopping == \E s \in Starts, by \in Callers : Wants(s, by)
StopReturns == Stopping ~> ~Stopping

\* A runtime that the shell does not hold, since its start failed or since a
\* second Start took its place, does not keep its processes.
Abandoned(s) ==
  start[s] \in {"up", "failed"} /\ runtime # s /\ \E c \in Services : Alive(s, c)
AbandonedEnds == (\E s \in Starts : Abandoned(s)) ~> (\A s \in Starts : ~Abandoned(s))

\* A runtime that was started stays up until the user stops it: the services
\* are stopped when the application is left.
StaysUp ==
  \A s \in Starts : At(s, "up") /\ s \notin requested => state[s] = "ready"
=============================================================================
