--------------------------- MODULE ExecutionLedger ---------------------------
(***************************************************************************)
(* What the Runner promises about the execution of approved plans, with no *)
(* database, file or failure of either in sight: of all calls about a      *)
(* request one claims it, once and for all; until it is answered no other  *)
(* call works on it; and a call that comes after the answer never does.    *)
(* Calls that were waiting when the answer was given may work on it too,   *)
(* and a crash ends all work, with or without an answer.                   *)
(***************************************************************************)
CONSTANTS Calls, Requests

VARIABLES
  status,   \* status[r]: "new", "claimed" or "answered"
  waiting,  \* calls that wait for their request, with it
  working   \* calls that execute the plan of their request, with it

vars == <<status, waiting, working>>

Init ==
  /\ status = [r \in Requests |-> "new"]
  /\ waiting = {}
  /\ working = {}

\* A call asks for the execution of a request that is not answered.
Arrive(c, r) ==
  /\ status[r] # "answered"
  /\ waiting' = waiting \cup {<<c, r>>}
  /\ UNCHANGED <<status, working>>

StartWork(c, r) ==
  /\ <<c, r>> \in waiting
  /\ waiting' = waiting \ {<<c, r>>}
  /\ working' = working \cup {<<c, r>>}

\* The first call of a new request claims it.
Claim(c, r) ==
  /\ status[r] = "new"
  /\ status' = [status EXCEPT ![r] = "claimed"]
  /\ StartWork(c, r)

\* A call that waited while the answer was given.
Follow(c, r) ==
  /\ status[r] = "answered"
  /\ StartWork(c, r)
  /\ UNCHANGED status

\* A call gives up.
Leave(c, r) ==
  /\ waiting' = waiting \ {<<c, r>>}
  /\ working' = working \ {<<c, r>>}
  /\ UNCHANGED status

\* A call that has executed the plan answers.
Answer(c, r) ==
  /\ <<c, r>> \in working
  /\ working' = working \ {<<c, r>>}
  /\ status' = [status EXCEPT ![r] = "answered"]
  /\ UNCHANGED waiting

Crash ==
  /\ waiting' = {}
  /\ working' = {}
  /\ UNCHANGED status

Next ==
  \/ \E c \in Calls, r \in Requests :
       Arrive(c, r) \/ Claim(c, r) \/ Follow(c, r) \/ Leave(c, r) \/ Answer(c, r)
  \/ Crash

Spec == Init /\ [][Next]_vars

=============================================================================
