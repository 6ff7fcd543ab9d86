---------------------------- MODULE ApprovalGate ----------------------------
(***************************************************************************)
(* What the Council promises about approvals, with no handler, table or    *)
(* failure in sight: for each task at most one approval is open at a time, *)
(* an approval is consumed at most once, a task consumes one approval in   *)
(* its life, and only a plan whose approval was consumed goes to the       *)
(* Runner (possibly more than once, as the Runner tells repeats apart).    *)
(***************************************************************************)
CONSTANTS Tasks, Hashes

VARIABLES
  open,  \* open[t]: the hashes of t that a user approved and nothing consumed
  used,  \* used[t]: the hashes of t whose approval was consumed
  sent   \* sent[t]: the hashes of the plans sent to the Runner for t

vars == <<open, used, sent>>

Init ==
  /\ open = [t \in Tasks |-> {}]
  /\ used = [t \in Tasks |-> {}]
  /\ sent = [t \in Tasks |-> {}]

\* A user approves a plan, which replaces what was approved before.
Grant(t, h) ==
  /\ used[t] = {}
  /\ open' = [open EXCEPT ![t] = {h}]
  /\ UNCHANGED <<used, sent>>

\* An approval is given up without another one in its place.
Withdraw(t) ==
  /\ open' = [open EXCEPT ![t] = {}]
  /\ UNCHANGED <<used, sent>>

\* The open approval is consumed; the plan may or may not reach the Runner.
Consume(t, h) ==
  /\ open[t] = {h}
  /\ used[t] = {}
  /\ open' = [open EXCEPT ![t] = {}]
  /\ used' = [used EXCEPT ![t] = {h}]
  /\ \/ UNCHANGED sent
     \/ sent' = [sent EXCEPT ![t] = @ \cup {h}]

\* The plan whose approval was consumed is sent, for the first time or again.
Send(t, h) ==
  /\ h \in used[t]
  /\ sent' = [sent EXCEPT ![t] = @ \cup {h}]
  /\ UNCHANGED <<open, used>>

Next ==
  \E t \in Tasks :
    \/ Withdraw(t)
    \/ \E h \in Hashes : Grant(t, h) \/ Consume(t, h) \/ Send(t, h)

Spec == Init /\ [][Next]_vars

=============================================================================
