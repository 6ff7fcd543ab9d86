----------------------------- MODULE EventStream -----------------------------
(***************************************************************************)
(* The events of one task: appended to the database and to the task's      *)
(* memory under API.mu (internal/transport/council/routes.go,              *)
(* internal/storage/sqlite/event_repository.go), sent by the handler of    *)
(* sse.go to a client that reconnects after every answer with the last ID  *)
(* it has (web/lib/events.ts).  The client is taken to listen for events   *)
(* by their names, which an EventSource does not give to onmessage.        *)
(*                                                                         *)
(* An event is its sequence number, which is also its ID in memory.        *)
(***************************************************************************)
EXTENDS Naturals, Sequences

CONSTANTS
  MaxEvents,      \* bound: events of the task
  Page,           \* events of one answer: 200
  Faults          \* what goes wrong: the database cannot be read ("read"), the
                  \* server restarts ("restart"), the connection breaks ("drop")

ASSUME StreamAssumption ==
  /\ MaxEvents \in Nat /\ Page \in Nat \ {0}
  /\ Faults \subseteq {"read", "restart", "drop"}

VARIABLES
  stored,     \* rows of the table: 1 .. stored
  memory,     \* task.Events: those after it, as loading a task loads none
  answer,     \* the request being answered
  last,       \* the client's last ID
  received,   \* the events the client was given
  short       \* history: an answer was made from an incomplete memory

client == <<last, received>>
vars == <<stored, memory, answer, client, short>>

NoAnswer == [pc |-> "none", after |-> 0, copy |-> 0, events |-> <<>>]
From(a, b) == [i \in 1 .. IF a < b THEN b - a ELSE 0 |-> a + i]

Init ==
  /\ stored = 0 /\ memory = 0
  /\ answer = NoAnswer
  /\ last = 0 /\ received = <<>>
  /\ short = FALSE

-----------------------------------------------------------------------------
(* The server                                                               *)

Store ==
  /\ stored < MaxEvents
  /\ stored' = stored + 1
  /\ UNCHANGED <<memory, answer, client, short>>

\* The process ends; the tasks are loaded again without their events.
Restart ==
  /\ "restart" \in Faults
  /\ memory' = stored
  /\ answer' = NoAnswer
  /\ UNCHANGED <<stored, client, short>>

\* The handler copies the task's events under the lock ...
Connect ==
  /\ answer.pc = "none"
  /\ answer' = [pc |-> "reading", after |-> last, copy |-> stored, events |-> <<>>]
  /\ UNCHANGED <<stored, memory, client, short>>

\* Variant: the page is the first of the task.
FirstPage(after) == From(0, IF stored < Page THEN stored ELSE Page)

\* Variant: the page is the newest of the task.
NewestPage(after) == From(IF stored > after + Page THEN stored - Page ELSE after, stored)

\* EventRepository.After: at most Page events, in the order of the sequence.
PageAfter(after) == From(after, IF stored < after + Page THEN stored ELSE after + Page)

Answer(events) == answer' = [answer EXCEPT !.pc = "sending", !.events = events]

\* ... and prefers the stored ones, read without it.
ReadStored ==
  /\ answer.pc = "reading"
  /\ Answer(PageAfter(answer.after))
  /\ UNCHANGED <<stored, memory, client, short>>

ReadMemory ==
  /\ "read" \in Faults
  /\ answer.pc = "reading"
  /\ Answer(From(memory, answer.copy))
  /\ short' = (short \/ memory > 0)
  /\ UNCHANGED <<stored, memory, client>>

\* Variant: the handler sends what the client already has, and the client
\* does not look at its last ID.
AllNew(id) == TRUE

\* The handler skips e.ID <= after, the client id <= last.
New(id) == id > answer.after /\ id > last

\* The handler writes an event, and the client takes it.
Deliver ==
  /\ answer.pc = "sending" /\ answer.events # <<>>
  /\ answer' = [answer EXCEPT !.events = Tail(@)]
  /\ IF New(Head(answer.events))
       THEN /\ last' = Head(answer.events)
            /\ received' = Append(received, Head(answer.events))
       ELSE UNCHANGED client
  /\ UNCHANGED <<stored, memory, short>>

\* The answer ends with a heartbeat, and the client connects again.
Close ==
  /\ answer.pc = "sending" /\ answer.events = <<>>
  /\ answer' = NoAnswer
  /\ UNCHANGED <<stored, memory, client, short>>

Drop ==
  /\ "drop" \in Faults
  /\ answer.pc # "none"
  /\ answer' = NoAnswer
  /\ UNCHANGED <<stored, memory, client, short>>

Next == Store \/ Restart \/ Connect \/ ReadStored \/ ReadMemory \/ Deliver \/ Close \/ Drop

\* The client connects again each time, the database can be read now and then,
\* and the connection does not break before every event that is news.
Fairness ==
  /\ WF_vars(Connect) /\ WF_vars(Close) /\ WF_vars(Deliver)
  /\ SF_vars(ReadStored) /\ SF_vars(Deliver /\ New(Head(answer.events)))

Spec == Init /\ [][Next]_vars
FairSpec == Spec /\ Fairness

-----------------------------------------------------------------------------
TypeOK ==
  /\ stored \in 0 .. MaxEvents /\ memory \in 0 .. MaxEvents /\ last \in 0 .. MaxEvents
  /\ answer \in [pc : {"none", "reading", "sending"}, after : 0 .. MaxEvents,
                 copy : 0 .. MaxEvents, events : Seq(1 .. MaxEvents)]
  /\ received \in Seq(1 .. MaxEvents)
  /\ short \in BOOLEAN

\* What the client has is a part of what is stored, in its order, and nothing
\* twice: over answers that overlap, break off or come from memory.
OrderedOnce ==
  /\ last <= stored
  /\ \A i, j \in DOMAIN received : i < j => received[i] < received[j]

\* Nothing before the last ID is missing, unless an answer was made from the
\* memory of a server that had been restarted (sse.go ignores the error of
\* the table and falls back to the task's own events).
NothingSkipped == ~short => received = From(0, last)

\* Every event reaches a client that stays: more than a page of them, and
\* those stored while the client was being answered.
CatchesUp == \A k \in 1 .. MaxEvents : stored >= k ~> last >= k
=============================================================================
