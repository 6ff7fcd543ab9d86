------------------------- MODULE EventStream_proofs -------------------------
(***************************************************************************)
(* Proofs about EventStream for any number of events, any page and faults. *)
(***************************************************************************)
EXTENDS EventStream, SequenceTheorems, TLAPS

-----------------------------------------------------------------------------
(* Ranges of events                                                          *)

LEMMA FromIs ==
  ASSUME NEW a \in Nat, NEW b \in Nat
  PROVE  /\ From(a, b) \in Seq(Nat)
         /\ Len(From(a, b)) = IF a < b THEN b - a ELSE 0
         /\ \A i \in DOMAIN From(a, b) : From(a, b)[i] = a + i
<1> DEFINE n == IF a < b THEN b - a ELSE 0
<1>1. n \in Nat
  OBVIOUS
<1> HIDE DEF n
<1>2. From(a, b) = [i \in 1 .. n |-> a + i]
  BY DEF From, n
<1> QED
  BY <1>1, <1>2 DEF n

LEMMA FromType ==
  ASSUME NEW m \in Nat, NEW a \in Nat, NEW b \in 0 .. m
  PROVE  From(a, b) \in Seq(1 .. m)
<1> DEFINE n == IF a < b THEN b - a ELSE 0
<1>1. n \in Nat /\ \A i \in 1 .. n : a + i \in 1 .. m
  OBVIOUS
<1>2. From(a, b) = [i \in 1 .. n |-> a + i]
  BY DEF From
<1> HIDE DEF n
<1> QED
  BY <1>1, <1>2

\* The first of a range, and the rest of it.
LEMMA FromNext ==
  ASSUME NEW a \in Nat, NEW b \in Nat, From(a, b) # <<>>
  PROVE  a < b /\ Head(From(a, b)) = a + 1 /\ Tail(From(a, b)) = From(a + 1, b)
<1>1. a < b
  BY FromIs
<1>2. Head(From(a, b)) = a + 1
  <2>1. /\ From(a, b) \in Seq(Nat) /\ Len(From(a, b)) = b - a
        /\ \A i \in DOMAIN From(a, b) : From(a, b)[i] = a + i
    BY <1>1, FromIs
  <2>2. 1 \in DOMAIN From(a, b)
    BY <1>1, <2>1
  <2> QED
    BY <2>1, <2>2
<1>3. Tail(From(a, b)) = From(a + 1, b)
  <2> DEFINE n == b - a
  <2>1. n \in Nat /\ n >= 1
    BY <1>1
  <2>2. From(a, b) = [i \in 1 .. n |-> a + i]
    BY <1>1 DEF From
  <2>3. From(a + 1, b) = [i \in 1 .. n - 1 |-> a + 1 + i]
    BY <1>1 DEF From
  <2> HIDE DEF n
  <2>4. Tail(From(a, b)) = [i \in 1 .. n - 1 |-> a + (i + 1)]
    BY <2>1, <2>2
  <2>5. \A i \in 1 .. n - 1 : a + (i + 1) = a + 1 + i
    OBVIOUS
  <2>6. [i \in 1 .. n - 1 |-> a + (i + 1)] = [i \in 1 .. n - 1 |-> a + 1 + i]
    BY <2>5
  <2> QED
    BY <2>3, <2>4, <2>6
<1> QED
  BY <1>1, <1>2, <1>3

LEMMA FromGrows ==
  ASSUME NEW b \in Nat
  PROVE  Append(From(0, b), b + 1) = From(0, b + 1)
<1>1. From(0, b) = [i \in 1 .. b |-> i]
  BY DEF From
<1>2. From(0, b + 1) = [i \in 1 .. b + 1 |-> i]
  BY DEF From
<1> QED
  BY <1>1, <1>2

-----------------------------------------------------------------------------
(* The inductive invariant, by parts.                                        *)

\* The client is given what is stored, and the request asks for what it has.
Behind ==
  /\ memory <= stored /\ last <= stored
  /\ answer.copy <= stored /\ answer.after <= last

\* What is still to be sent is a range of what is stored; it begins where the
\* client is, or before.
ToSend(a, b) == b <= stored /\ answer.events = From(a, b) /\ (short \/ a <= last)
Sending == answer.pc = "sending" => \E a, b \in 0 .. MaxEvents : ToSend(a, b)

\* What was received is in order, and ends with the last ID.
Ordered ==
  /\ \A i \in DOMAIN received : received[i] <= last
  /\ \A i, j \in DOMAIN received : i < j => received[i] < received[j]

IInv == TypeOK /\ Behind /\ Sending /\ Ordered /\ NothingSkipped

LEMMA InitHolds == Init => IInv
<1> SUFFICES ASSUME Init PROVE IInv
  OBVIOUS
<1> USE DEF Init, NoAnswer
<1>1. TypeOK
  <2>1. 0 \in 0 .. MaxEvents /\ <<>> \in Seq(1 .. MaxEvents)
    BY StreamAssumption
  <2> QED
    BY <2>1 DEF TypeOK
<1>2. Behind /\ Sending /\ Ordered
  BY DEF Behind, Sending, Ordered
<1>3. From(0, 0) = <<>>
  BY FromIs
<1> QED
  BY <1>1, <1>2, <1>3 DEF IInv, NothingSkipped

-----------------------------------------------------------------------------
(* The steps                                                                 *)

\* The server answers with a range of what is stored.
LEMMA AnswerStep ==
  ASSUME IInv, NEW a \in 0 .. MaxEvents, NEW b \in 0 .. MaxEvents,
         b <= stored, short' \/ a <= last, short => short', short' \in BOOLEAN,
         answer.pc = "reading", Answer(From(a, b)),
         UNCHANGED <<stored, memory, client>>
  PROVE  IInv'
<1> USE DEF IInv
<1>1. From(a, b) \in Seq(1 .. MaxEvents)
  BY FromType, StreamAssumption
<1>2. /\ answer' \in [pc : {"none", "reading", "sending"}, after : 0 .. MaxEvents,
                      copy : 0 .. MaxEvents, events : Seq(1 .. MaxEvents)]
      /\ answer'.events = From(a, b) /\ answer'.after = answer.after
      /\ answer'.copy = answer.copy
  BY <1>1 DEF Answer, TypeOK
<1>3. TypeOK' /\ Behind'
  BY <1>2 DEF TypeOK, Behind, client
<1>4. Sending'
  BY <1>2 DEF Sending, ToSend, client, TypeOK
<1>5. Ordered' /\ NothingSkipped'
  BY DEF Ordered, NothingSkipped, client
<1> QED
  BY <1>3, <1>4, <1>5

\* The answer is over, or is another one; nothing else but the table grows.
LEMMA OtherStep ==
  ASSUME IInv, answer' = answer \/ answer'.pc # "sending",
         answer' \in [pc : {"none", "reading", "sending"}, after : 0 .. MaxEvents,
                      copy : 0 .. MaxEvents, events : Seq(1 .. MaxEvents)],
         answer'.copy <= stored', answer'.after <= last,
         stored' \in 0 .. MaxEvents, stored <= stored', memory' \in 0 .. stored',
         UNCHANGED <<client, short>>
  PROVE  IInv'
<1> USE DEF IInv
<1>1. TypeOK' /\ Behind'
  BY StreamAssumption DEF TypeOK, Behind, client
<1>2. Sending'
  BY DEF Sending, ToSend, client, TypeOK
<1>3. Ordered' /\ NothingSkipped'
  BY DEF Ordered, NothingSkipped, client
<1> QED
  BY <1>1, <1>2, <1>3

LEMMA DeliverStep ==
  ASSUME IInv, Deliver
  PROVE  IInv'
<1> DEFINE id == Head(answer.events)
<1> USE DEF IInv
<1>1. PICK a \in 0 .. MaxEvents, b \in 0 .. MaxEvents : ToSend(a, b)
  BY DEF Deliver, Sending
<1>2. /\ a < b /\ id = a + 1 /\ b <= stored /\ stored \in Nat
      /\ Tail(answer.events) = From(a + 1, b)
      /\ short \/ a <= last
  BY <1>1, FromNext DEF ToSend, Deliver, TypeOK
<1>3. id \in 1 .. MaxEvents /\ id <= stored
  <2> HIDE DEF id
  <2>1. stored \in 0 .. MaxEvents
    BY DEF TypeOK
  <2> QED
    BY <1>2, <2>1, StreamAssumption
<1>4. From(a + 1, b) \in Seq(1 .. MaxEvents) /\ a + 1 \in 0 .. MaxEvents
  BY <1>2, FromType, StreamAssumption
<1>5. /\ answer' \in [pc : {"none", "reading", "sending"}, after : 0 .. MaxEvents,
                      copy : 0 .. MaxEvents, events : Seq(1 .. MaxEvents)]
      /\ answer'.events = From(a + 1, b) /\ answer'.after = answer.after
      /\ answer'.copy = answer.copy
  BY <1>2, <1>4 DEF Deliver, TypeOK
<1>6. UNCHANGED <<stored, memory, short>>
  BY DEF Deliver
<1> HIDE DEF id
<1>7. CASE New(id)
  <2>1. last' = id /\ received' = Append(received, id) /\ id > last
    BY <1>7 DEF Deliver, New, id
  <2>2. received \in Seq(1 .. MaxEvents) /\ last \in 0 .. MaxEvents
    BY DEF TypeOK
  <2>3. TypeOK'
    BY <1>3, <1>5, <1>6, <2>1, <2>2 DEF TypeOK
  <2>4. Behind'
    BY <1>3, <1>5, <1>6, <2>1, <2>2 DEF Behind, TypeOK
  <2>5. Sending'
    BY <1>2, <1>4, <1>5, <1>6, <2>1, <2>2 DEF Sending, ToSend
  <2>6. Ordered'
    <3>1. /\ DOMAIN received = 1 .. Len(received) /\ Len(received) \in Nat
          /\ DOMAIN received' = 1 .. Len(received) + 1
          /\ received'[Len(received) + 1] = id
          /\ \A i \in 1 .. Len(received) : received'[i] = received[i] /\ received[i] \in Nat
      <4>1. DOMAIN received = 1 .. Len(received) /\ Len(received) \in Nat
        BY <2>2
      <4>2. \A i \in 1 .. Len(received) : received[i] \in Nat
        <5>1. \A i \in 1 .. Len(received) : received[i] \in 1 .. MaxEvents
          BY <2>2, ElementOfSeq
        <5> QED
          BY <5>1
      <4>3. /\ DOMAIN received' = 1 .. Len(received) + 1
            /\ received'[Len(received) + 1] = id
            /\ \A i \in 1 .. Len(received) : received'[i] = received[i]
        BY <1>3, <2>1, <2>2
      <4> QED
        BY <4>1, <4>2, <4>3
    <3> QED
      BY <1>3, <2>1, <2>2, <3>1 DEF Ordered
  <2>7. NothingSkipped'
    <3> SUFFICES ASSUME ~short PROVE received' = From(0, last')
      BY <1>6 DEF NothingSkipped
    <3>1. id = last + 1
      BY <1>2, <2>1, <2>2
    <3>2. received = From(0, last) /\ last \in Nat
      BY <2>2 DEF NothingSkipped
    <3>3. received' = Append(From(0, last), last + 1) /\ last' = last + 1
      BY <2>1, <3>1, <3>2
    <3> QED
      BY <3>2, <3>3, FromGrows
  <2> QED
    BY <2>3, <2>4, <2>5, <2>6, <2>7
<1>8. CASE ~New(id)
  <2>1. UNCHANGED client
    BY <1>8 DEF Deliver, id
  <2>2. last \in Nat /\ answer.after \in Nat /\ answer.after <= last /\ id <= last
    BY <1>2, <1>8 DEF New, Behind, TypeOK
  <2>3. TypeOK' /\ Behind'
    BY <1>5, <1>6, <2>1 DEF TypeOK, Behind, client
  <2>4. Sending'
    BY <1>2, <1>4, <1>5, <1>6, <2>1, <2>2 DEF Sending, ToSend, client
  <2>5. Ordered' /\ NothingSkipped'
    BY <1>6, <2>1 DEF Ordered, NothingSkipped, client
  <2> QED
    BY <2>3, <2>4, <2>5
<1> QED
  BY <1>7, <1>8

LEMMA NextStep ==
  ASSUME IInv, [Next]_vars
  PROVE  IInv'
<1> USE DEF IInv
<1>n. /\ stored \in Nat /\ memory \in Nat /\ last \in Nat /\ MaxEvents \in Nat /\ Page \in Nat
      /\ stored <= MaxEvents /\ memory <= stored /\ last <= stored
  BY StreamAssumption DEF TypeOK, Behind
<1>a. /\ NoAnswer \in [pc : {"none", "reading", "sending"}, after : 0 .. MaxEvents,
                      copy : 0 .. MaxEvents, events : Seq(1 .. MaxEvents)]
      /\ NoAnswer.pc = "none" /\ NoAnswer.copy = 0 /\ NoAnswer.after = 0
  BY <1>n DEF NoAnswer
<1>1. CASE Store
  BY <1>1, <1>n, OtherStep DEF Store, client, TypeOK, Behind
<1>2. CASE Restart
  BY <1>2, <1>n, <1>a, OtherStep DEF Restart, client
<1>3. CASE Connect
  <2>1. /\ answer' = [pc |-> "reading", after |-> last, copy |-> stored, events |-> <<>>]
        /\ UNCHANGED <<stored, memory, client, short>>
    BY <1>3 DEF Connect
  <2>2. /\ answer' \in [pc : {"none", "reading", "sending"}, after : 0 .. MaxEvents,
                      copy : 0 .. MaxEvents, events : Seq(1 .. MaxEvents)]
        /\ answer'.pc = "reading" /\ answer'.copy = stored /\ answer'.after = last
    BY <2>1, <1>n
  <2> QED
    BY <2>1, <2>2, <1>n, OtherStep
<1>4. CASE ReadStored
  <2> DEFINE a == answer.after
             b == IF stored < a + Page THEN stored ELSE a + Page
  <2>1. a \in 0 .. MaxEvents /\ a <= last
    BY DEF TypeOK, Behind
  <2>2. b \in 0 .. MaxEvents /\ b <= stored
    BY <2>1, <1>n
  <2>3. Answer(From(a, b)) /\ UNCHANGED <<stored, memory, client, short>>
    BY <1>4 DEF ReadStored, PageAfter
  <2> HIDE DEF a, b
  <2> QED
    BY <1>4, <2>1, <2>2, <2>3, AnswerStep DEF ReadStored, TypeOK
<1>5. CASE ReadMemory
  <2>1. answer.copy \in 0 .. MaxEvents /\ answer.copy <= stored /\ memory \in 0 .. MaxEvents
    BY DEF TypeOK, Behind
  <2>2. short' = (short \/ memory > 0) /\ short \in BOOLEAN
    BY <1>5 DEF ReadMemory, TypeOK
  <2>3. short' \/ memory <= last
    <3>1. CASE memory > 0
      BY <2>2, <3>1
    <3>2. CASE memory = 0
      BY <1>n, <3>2
    <3> QED
      BY <1>n, <3>1, <3>2
  <2> QED
    BY <1>5, <2>1, <2>2, <2>3, AnswerStep DEF ReadMemory
<1>6. CASE Deliver
  BY <1>6, DeliverStep
<1>7. CASE Close \/ Drop
  BY <1>7, <1>n, <1>a, OtherStep DEF Close, Drop, client
<1>8. CASE UNCHANGED vars
  BY <1>8, <1>n, OtherStep DEF vars, client, TypeOK, Behind
<1> QED
  BY <1>1, <1>2, <1>3, <1>4, <1>5, <1>6, <1>7, <1>8 DEF Next

-----------------------------------------------------------------------------
(* The theorems                                                              *)

LEMMA Invariant == Spec => []IInv
<1>1. Init => IInv
  BY InitHolds
<1>2. IInv /\ [Next]_vars => IInv'
  BY NextStep
<1> QED
  BY <1>1, <1>2, PTL DEF Spec

\* The table, the answer and the client keep their types.
THEOREM TypeCorrect == Spec => []TypeOK
<1>1. IInv => TypeOK
  BY DEF IInv
<1> QED
  BY <1>1, Invariant, PTL

\* A client never has an event that is not stored, nor one twice, nor an older
\* one after a newer one, over any answers, restarts and broken connections.
THEOREM EventsStayOrdered == Spec => []OrderedOnce
<1>1. IInv => OrderedOnce
  BY DEF IInv, Behind, Ordered, OrderedOnce
<1> QED
  BY <1>1, Invariant, PTL

\* A client has every event up to its last ID, as long as no answer was made
\* from the memory of a server that had been restarted.
THEOREM NothingIsSkipped == Spec => []NothingSkipped
<1>1. IInv => NothingSkipped
  BY DEF IInv
<1> QED
  BY <1>1, Invariant, PTL
=============================================================================
