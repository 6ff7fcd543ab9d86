----------------------------- MODULE RunLifecycle -----------------------------
(***************************************************************************)
(* What the task service promises about a run, with no table, transaction  *)
(* or reader in sight: its history grows by one legal state at a time and  *)
(* never comes back to a state; one call of Start brings it to its         *)
(* approval; plans are approved after that only; and what runs was         *)
(* approved before.                                                        *)
(***************************************************************************)
EXTENDS Naturals, Sequences

CONSTANTS
  Calls,  \* calls of Start
  Plans,
  Legal   \* the legal transitions, as pairs of states

VARIABLES
  history,  \* the states of the run, in order
  starter,  \* the calls of Start that brought the run to its approval
  granted,  \* the plans that were approved
  ran       \* the plans that the Runner has run

vars == <<history, starter, granted, ran>>

Init ==
  /\ history = <<"DRAFT">>
  /\ starter = {} /\ granted = {} /\ ran = {}

Advance(s) ==
  /\ <<history[Len(history)], s>> \in Legal
  /\ \A i \in DOMAIN history : history[i] # s
  /\ history' = Append(history, s)

Start(c) ==
  /\ starter = {}
  /\ Advance("AWAITING_APPROVAL")
  /\ starter' = {c}
  /\ UNCHANGED <<granted, ran>>

Move(s) ==
  /\ s # "AWAITING_APPROVAL"
  /\ Advance(s)
  /\ UNCHANGED <<starter, granted, ran>>

Grant(p) ==
  /\ starter # {}
  /\ granted' = granted \cup {p}
  /\ UNCHANGED <<history, starter, ran>>

Run(p) ==
  /\ p \in granted
  /\ ran' = ran \cup {p}
  /\ UNCHANGED <<history, starter, granted>>

Next ==
  \/ \E c \in Calls : Start(c)
  \/ \E e \in Legal : Move(e[2])
  \/ \E p \in Plans : Grant(p) \/ Run(p)

Spec == Init /\ [][Next]_vars

=============================================================================
