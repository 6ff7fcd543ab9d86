---------------------------- MODULE Deliberation ----------------------------
(***************************************************************************)
(* One deliberation of the council (internal/council/workflow.go and       *)
(* engine.go): every seat proposes in a goroutine of its own, every seat   *)
(* reviews the others' proposals in a goroutine of its own, then a judge   *)
(* decides and a red team objects.  A call of a provider                   *)
(* (internal/provider; the three adapters do the same) is up to Attempts   *)
(* requests with a pause between them.                                     *)
(*                                                                         *)
(* configuredWorkflow makes one seat of every API key, which proposes and  *)
(* reviews, and gives the judge and the red team the first seat's provider *)
(* under names of their own: a seat is its index, and no judge is a        *)
(* proposer.  What an answer says is told apart only as far as the engine  *)
(* looks at it.                                                            *)
(***************************************************************************)
EXTENDS Naturals, FiniteSets

CONSTANTS
  MaxSeats,    \* providers that may have a key: 3
  Attempts     \* requests of one call: 3

ASSUME DeliberationAssumption == MaxSeats \in Nat \ {0} /\ Attempts \in Nat \ {0}

VARIABLES
  n,         \* seats of the workflow
  stage,     \* the stage the workflow is in
  call,      \* the goroutine of a seat: its offset, and its call's attempts
  errs,      \* seats whose goroutine ended with an error
  proposed,  \* seats with a proposal
  reviews,   \* reviewer and proposal of the reviews
  usable,    \* the decision's plan passes BuildExecutionPlan
  blocking,  \* the red team's report has blocking findings
  over,      \* the context of the stage is done
  gone       \* the request's context is done

work == <<call, errs, proposed, reviews, usable, blocking>>
vars == <<n, stage, work, over, gone>>

Seats == 0 .. n - 1
Ended == [pc |-> "ended", offset |-> 0, tries |-> 0]
Ask(o) == [pc |-> "asking", offset |-> o, tries |-> 1]
Ends == {"planned", "failed"}
Timed == {"proposing", "reviewing"}

\* The goroutines of the stage.
Workers == IF stage \in Timed THEN Seats ELSE {0}

\* Offsets from o on at which a reviewer has a proposal of another to review.
Ahead(i, o) == {p \in o .. n : (i + p) % n # i}

Turn(i, o) ==
  IF Ahead(i, o) = {} THEN Ended
  ELSE Ask(CHOOSE p \in Ahead(i, o) : \A q \in Ahead(i, o) : p <= q)

Init ==
  /\ n \in 1 .. MaxSeats
  /\ stage = "analyzing"
  /\ call = [i \in 0 .. MaxSeats - 1 |-> Ended]
  /\ errs = {} /\ proposed = {} /\ reviews = {}
  /\ usable = FALSE /\ blocking = FALSE
  /\ over = FALSE /\ gone = FALSE

-----------------------------------------------------------------------------
(* A call of a provider                                                     *)

Working(i) == stage \notin Ends /\ call[i].pc # "ended"
Asking(i) == stage \notin Ends /\ call[i].pc = "asking"
SetCall(i, c) == call' = [call EXCEPT ![i] = c]

Err(i) ==
  /\ errs' = errs \cup {i}
  /\ SetCall(i, Ended)
  /\ UNCHANGED <<stage, proposed, reviews, usable, blocking>>

\* 429 or 5xx: a pause, and after the last attempt an APIError.
Busy(i) ==
  /\ Asking(i)
  /\ IF call[i].tries < Attempts
       THEN /\ SetCall(i, [call[i] EXCEPT !.pc = "pausing"])
            /\ UNCHANGED <<stage, errs, proposed, reviews, usable, blocking>>
       ELSE Err(i)
  /\ UNCHANGED <<n, over, gone>>

Resume(i) ==
  /\ Working(i) /\ call[i].pc = "pausing"
  /\ SetCall(i, [call[i] EXCEPT !.pc = "asking", !.tries = @ + 1])
  /\ UNCHANGED <<n, stage, errs, proposed, reviews, usable, blocking, over, gone>>

\* Variant: a call of the judge or the red team does not have the context.
LateInTimedStages(i) ==
  /\ Working(i) /\ over /\ stage \in Timed
  /\ Err(i)
  /\ UNCHANGED <<n, over, gone>>

\* The context is done, during a request or a pause.
Late(i) ==
  /\ Working(i) /\ over
  /\ Err(i)
  /\ UNCHANGED <<n, over, gone>>

\* No answer, a status of 4xx, an answer without text, one that is not JSON of
\* the schema (the judge's: of the provider), or one that is longer than
\* maxErrorBody and cut off.
Refused(i) ==
  /\ Asking(i)
  /\ Err(i)
  /\ UNCHANGED <<n, over, gone>>

\* The judge is asked once more.
Repair(i) ==
  /\ Asking(i) /\ stage = "judging"
  /\ stage' = "repairing"
  /\ SetCall(i, Ask(0))
  /\ UNCHANGED <<n, errs, proposed, reviews, usable, blocking, over, gone>>

Proposal(i) ==
  /\ Asking(i) /\ stage = "proposing"
  /\ proposed' = proposed \cup {i}
  /\ SetCall(i, Ended)
  /\ UNCHANGED <<n, stage, errs, reviews, usable, blocking, over, gone>>

Review(i) ==
  /\ Asking(i) /\ stage = "reviewing"
  /\ reviews' = reviews \cup {<<i, (i + call[i].offset) % n>>}
  /\ SetCall(i, Turn(i, call[i].offset + 1))
  /\ UNCHANGED <<n, stage, errs, proposed, usable, blocking, over, gone>>

Decision(i, ok) ==
  /\ Asking(i) /\ stage \in {"judging", "repairing"}
  /\ usable' = ok
  /\ SetCall(i, Ended)
  /\ UNCHANGED <<n, stage, errs, proposed, reviews, blocking, over, gone>>

Report(i, objects) ==
  /\ Asking(i) /\ stage = "redteam"
  /\ blocking' = objects
  /\ SetCall(i, Ended)
  /\ UNCHANGED <<n, stage, errs, proposed, reviews, usable, over, gone>>

-----------------------------------------------------------------------------
(* The workflow                                                             *)

\* Variant: the first error ends the stage.
JoinedOrFailed == errs # {} \/ \A i \in Workers : call[i].pc = "ended"

\* wg.Wait
Joined == \A i \in Workers : call[i].pc = "ended"

\* Variant: an error is returned only when every goroutine had one.
EveryCallFailed == Joined /\ errs = Workers

\* The error of the first seat, or the first error.
AnyCallFailed == Joined /\ errs # {}

\* A stage without an error; progress records it, and the next one starts.
Begin(from, to, calls) ==
  /\ stage = from /\ Joined /\ ~AnyCallFailed
  /\ stage' = to
  /\ call' = [i \in DOMAIN call |-> calls[i]]
  /\ errs' = {}
  /\ over' = gone
  /\ UNCHANGED <<n, proposed, reviews, usable, blocking, gone>>

First(i) == IF i = 0 THEN Ask(0) ELSE Ended
Propose == Begin("analyzing", "proposing",
             [i \in DOMAIN call |-> IF i \in Seats THEN Ask(0) ELSE Ended])
StartReviews == Begin("proposing", "reviewing",
             [i \in DOMAIN call |-> IF i \in Seats THEN Turn(i, 1) ELSE Ended])
Judge == Begin("reviewing", "judging", [i \in DOMAIN call |-> First(i)])
RedTeam ==
  \E s \in {"judging", "repairing"} : Begin(s, "redteam", [i \in DOMAIN call |-> First(i)])

EndIn(s) == stage' = s /\ UNCHANGED <<n, work, over, gone>>

GiveUp ==
  /\ stage \notin Ends /\ AnyCallFailed
  /\ EndIn("failed")

\* validateWorkspaceFiles: too many files, too long ones, or an unsafe path.
FilesRefused ==
  /\ stage = "analyzing"
  /\ EndIn("failed")

\* The caller's progress returns an error, of a stage that has ended well.
ProgressFails ==
  /\ stage \notin Ends /\ Joined /\ ~AnyCallFailed
  /\ EndIn("failed")

\* BuildExecutionPlan
Build ==
  /\ stage = "redteam" /\ Joined /\ ~AnyCallFailed
  /\ EndIn(IF usable /\ ~blocking THEN "planned" ELSE "failed")

\* Variant: only proposals have a deadline.
DeadlineOfProposals ==
  /\ stage = "proposing" /\ ~over
  /\ over' = TRUE
  /\ UNCHANGED <<n, stage, work, gone>>

\* withTimeout
Deadline ==
  /\ stage \in Timed /\ ~over
  /\ over' = TRUE
  /\ UNCHANGED <<n, stage, work, gone>>

ClientGone ==
  /\ stage \notin Ends /\ ~gone
  /\ gone' = TRUE /\ over' = TRUE
  /\ UNCHANGED <<n, stage, work>>

Replied(i) ==
  \/ Proposal(i) \/ Review(i) \/ Busy(i) \/ Refused(i) \/ Repair(i)
  \/ \E b \in BOOLEAN : Decision(i, b) \/ Report(i, b)

Ending == GiveUp \/ FilesRefused \/ ProgressFails \/ Build
Advance == Propose \/ StartReviews \/ Judge \/ RedTeam

Next ==
  \/ \E i \in 0 .. MaxSeats - 1 : Replied(i) \/ Resume(i) \/ Late(i)
  \/ Advance \/ Ending \/ Deadline \/ ClientGone

\* The deadline passes, a done context is seen, a joined stage goes on.  No
\* provider has to answer.
Fairness ==
  /\ WF_vars(Deadline) /\ WF_vars(Advance \/ Ending)
  /\ \A i \in 0 .. MaxSeats - 1 : WF_vars(Late(i))

Spec == Init /\ [][Next]_vars
FairSpec == Spec /\ Fairness

-----------------------------------------------------------------------------
TypeOK ==
  /\ n \in 1 .. MaxSeats
  /\ stage \in Timed \cup Ends \cup {"analyzing", "judging", "repairing", "redteam"}
  /\ call \in [0 .. MaxSeats - 1 ->
       [pc : {"asking", "pausing", "ended"}, offset : 0 .. MaxSeats, tries : 0 .. Attempts]]
  /\ errs \subseteq Seats /\ proposed \subseteq Seats /\ reviews \subseteq Seats \X Seats
  /\ {usable, blocking, over, gone} \subseteq BOOLEAN

\* The judge hears of every proposal and of every review of it by every seat
\* but its author, and a plan that comes out has no objection against it: no
\* goroutine's failure, offset or attempt loses one.
JudgedByAll ==
  /\ stage \in {"judging", "repairing", "redteam", "planned"} =>
       proposed = Seats /\ reviews = {p \in Seats \X Seats : p[1] # p[2]}
  /\ stage = "planned" => usable /\ ~blocking

\* When a deliberation is over no goroutine of it talks to a provider, nor
\* does one of an earlier stage: what wg.Wait is for.
NoCallIsLeftBehind ==
  \A i \in DOMAIN call : call[i].pc # "ended" => stage \notin Ends /\ i \in Workers

-----------------------------------------------------------------------------
(* The inductive invariant.                                                 *)

\* A pause is followed by an attempt that the call still has.
PauseHasAttempt ==
  \A i \in DOMAIN call : call[i].pc = "pausing" => call[i].tries < Attempts

\* A goroutine that ended in the stage of proposals left one, or an error.
ProposedOrFailed ==
  /\ stage = "analyzing" => \A i \in DOMAIN call : call[i].pc = "ended"
  /\ stage = "proposing" =>
       \A i \in Seats : call[i].pc = "ended" => i \in proposed \cup errs
  /\ stage = "reviewing" => proposed = Seats

\* A reviewer at an offset has reviewed at all offsets before; one that ended
\* without an error, at all.
ReviewedUpTo(i, o) == \A p \in 1 .. o - 1 : <<i, (i + p) % n>> \in reviews

ReviewedOrFailed ==
  /\ \A p \in reviews : p[1] # p[2]
  /\ stage = "reviewing" =>
       \A i \in Seats :
         IF call[i].pc = "ended"
           THEN i \in errs \/ ReviewedUpTo(i, n)
           ELSE call[i].offset \in 1 .. n - 1 /\ ReviewedUpTo(i, call[i].offset)

IInv ==
  /\ TypeOK /\ NoCallIsLeftBehind /\ PauseHasAttempt
  /\ ProposedOrFailed /\ ReviewedOrFailed /\ JudgedByAll

-----------------------------------------------------------------------------
(* Liveness.                                                                *)

\* Proposals and reviews come to an end though no provider ever answers.
TimedStagesEnd == (stage \in Timed) ~> (stage \notin Timed)

\* A deliberation whose client has gone ends in any stage, though no provider
\* ever answers: the calls of the judge and the red team have its context.
GoneEnds == gone ~> stage \in Ends
=============================================================================
