------------------------- MODULE Deliberation_proofs -------------------------
(***************************************************************************)
(* Proofs about Deliberation for any number of seats and attempts.         *)
(***************************************************************************)
EXTENDS Deliberation, TLAPS

-----------------------------------------------------------------------------
(* The reviewers' offsets, counted modulo the number of seats.              *)

LEMMA Around ==
  ASSUME NEW m \in Nat \ {0}, NEW i \in 0 .. m - 1, NEW p \in 1 .. m
  PROVE  (i + p) % m = IF i + p < m THEN i + p ELSE i + p - m
BY Z3

\* At each offset from 1 to n - 1 a seat meets another seat, ...
LEMMA MeetsAnother ==
  ASSUME n \in Nat \ {0}, NEW i \in Seats, NEW p \in 1 .. n
  PROVE  /\ (i + p) % n \in Seats
         /\ (i + p) % n = i <=> p = n
BY Around DEF Seats

\* ... and it meets every other seat at one.
LEMMA MeetsEvery ==
  ASSUME n \in Nat \ {0}, NEW i \in Seats, NEW j \in Seats, i # j
  PROVE  \E p \in 1 .. n - 1 : (i + p) % n = j
<1> DEFINE p == IF j > i THEN j - i ELSE j - i + n
<1>1. p \in 1 .. n - 1
  BY DEF Seats
<1>2. (i + p) % n = j
  BY <1>1, Around DEF Seats
<1>3. QED
  BY <1>1, <1>2

\* The next offset of a reviewer is the next number, while it is below n.
LEMMA TurnIs ==
  ASSUME n \in Nat \ {0}, NEW i \in Seats, NEW o \in 1 .. n
  PROVE  Turn(i, o) = IF o < n THEN Ask(o) ELSE Ended
<1>1. Ahead(i, o) = o .. n - 1
  BY MeetsAnother DEF Ahead
<1>2. CASE o < n
  <2> DEFINE Least(p) == p \in Ahead(i, o) /\ \A q \in Ahead(i, o) : p <= q
  <2>1. Least(o) /\ \A p : Least(p) => p = o
    BY <1>1, <1>2
  <2>2. (CHOOSE p : Least(p)) = o
    <3> HIDE DEF Least
    <3>1. QED
      BY <2>1, Zenon
  <2>3. Turn(i, o) = Ask(CHOOSE p : Least(p))
    BY <2>1 DEF Turn
  <2>4. QED
    BY <1>2, <2>2, <2>3
<1>3. CASE ~(o < n)
  BY <1>1, <1>3 DEF Turn
<1>4. QED
  BY <1>2, <1>3

-----------------------------------------------------------------------------
(* Types.                                                                   *)

CallType ==
  [pc : {"asking", "pausing", "ended"}, offset : 0 .. MaxSeats, tries : 0 .. Attempts]

LEMMA Facts ==
  ASSUME TypeOK
  PROVE  /\ n \in Nat \ {0} /\ n <= MaxSeats /\ MaxSeats \in Nat
         /\ Attempts \in Nat \ {0}
         /\ DOMAIN call = 0 .. MaxSeats - 1
         /\ Seats \subseteq DOMAIN call /\ 0 \in Seats
         /\ Workers \subseteq Seats
         /\ Ended \in CallType
         /\ \A o \in 0 .. MaxSeats : Ask(o) \in CallType
  BY DeliberationAssumption DEF TypeOK, Seats, Workers, Ended, Ask, CallType

\* The goroutine of a seat gets a new offset, attempt or end.
LEMMA CallSet ==
  ASSUME TypeOK, NEW i \in DOMAIN call, NEW c \in CallType, SetCall(i, c)
  PROVE  /\ call' \in [DOMAIN call -> CallType]
         /\ call'[i] = c
         /\ \A j \in DOMAIN call : j # i => call'[j] = call[j]
BY DEF TypeOK, SetCall, CallType

LEMMA TypeInit == Init => TypeOK
<1> SUFFICES ASSUME Init
             PROVE  TypeOK
  OBVIOUS
<1>1. Ended \in [pc : {"asking", "pausing", "ended"}, offset : 0 .. MaxSeats, tries : 0 .. Attempts]
  BY DeliberationAssumption DEF Ended
<1>2. QED
  BY <1>1 DEF Init, TypeOK, Timed, Ends

\* What a call of seat i does.
Answered(i) == Replied(i) \/ Resume(i) \/ Late(i)

\* A call is made in a stage by one of the stage's goroutines, and a step of it
\* leaves all others alone.
LEMMA CallStep ==
  ASSUME TypeOK, NoCallIsLeftBehind, PauseHasAttempt, ReviewedOrFailed,
         NEW i \in 0 .. MaxSeats - 1, Answered(i)
  PROVE  /\ i \in Workers /\ stage \notin Ends /\ call[i].pc # "ended"
         /\ UNCHANGED <<n, over, gone>>
         /\ stage' = stage \/ (stage = "judging" /\ stage' = "repairing")
         /\ \A j \in DOMAIN call : j # i => call'[j] = call[j]
         /\ call' \in [DOMAIN call -> CallType]
         /\ call'[i].pc = "pausing" => call'[i].tries < Attempts
<1> USE Facts
<1>0. i \in DOMAIN call /\ call[i] \in CallType
  BY DEF TypeOK, CallType
<1>1. call[i].pc # "ended" /\ stage \notin Ends
  BY DEF Answered, Replied, Proposal, Review, Busy, Refused, Repair, Decision, Report, Resume,
         Late, Asking, Working
<1>2. i \in Workers
  BY <1>0, <1>1 DEF NoCallIsLeftBehind
<1>3. /\ UNCHANGED <<n, over, gone>>
      /\ stage' = stage \/ (stage = "judging" /\ stage' = "repairing")
  BY DEF Answered, Replied, Proposal, Review, Busy, Refused, Repair, Decision, Report, Resume,
         Late, Err
<1>4. \E c \in CallType : SetCall(i, c) /\ (c.pc = "pausing" => c.tries < Attempts)
  <2>1. CASE Proposal(i) \/ Refused(i) \/ Late(i) \/ \E b \in BOOLEAN : Decision(i, b) \/ Report(i, b)
    <3>1. SetCall(i, Ended)
      BY <2>1 DEF Proposal, Refused, Late, Decision, Report, Err
    <3>2. QED
      BY <3>1 DEF Ended
  <2>2. CASE Review(i)
    <3>1. SetCall(i, Turn(i, call[i].offset + 1))
      BY <2>2 DEF Review
    <3>2. call[i].offset + 1 \in 1 .. n /\ i \in Seats
      BY <2>2, <1>1, <1>2 DEF Review, ReviewedOrFailed
    <3>3. Turn(i, call[i].offset + 1) \in {Ask(call[i].offset + 1), Ended}
      BY <3>2, TurnIs
    <3>4. call[i].offset + 1 \in 0 .. MaxSeats
      BY <3>2
    <3>5. QED
      BY <3>1, <3>3, <3>4 DEF Ask, Ended
  <2>3. CASE Busy(i)
    <3>1. CASE call[i].tries < Attempts
      BY <2>3, <3>1, <1>0 DEF Busy, CallType
    <3>2. CASE ~(call[i].tries < Attempts)
      <4>1. SetCall(i, Ended)
        BY <2>3, <3>2 DEF Busy, Err
      <4>2. QED
        BY <4>1 DEF Ended
    <3>3. QED
      BY <3>1, <3>2
  <2>4. CASE Repair(i)
    <3>1. SetCall(i, Ask(0))
      BY <2>4 DEF Repair
    <3>2. QED
      BY <3>1 DEF Ask
  <2>5. CASE Resume(i)
    <3>1. call[i].tries < Attempts
      BY <2>5, <1>0 DEF Resume, PauseHasAttempt
    <3>2. call[i].tries + 1 \in 0 .. Attempts
      <4>1. call[i].tries \in 0 .. Attempts /\ Attempts \in Nat
        BY <1>0 DEF CallType
      <4>2. \A t \in 0 .. Attempts : t < Attempts => t + 1 \in 0 .. Attempts
        BY <4>1
      <4>3. QED
        BY <3>1, <4>1, <4>2
    <3> DEFINE c == [call[i] EXCEPT !.pc = "asking", !.tries = call[i].tries + 1]
    <3>3. c \in CallType /\ c.pc = "asking"
      BY <3>2, <1>0 DEF CallType
    <3>4. SetCall(i, c)
      BY <2>5 DEF Resume
    <3>5. QED
      BY <3>3, <3>4
  <2>6. QED
    BY <2>1, <2>2, <2>3, <2>4, <2>5 DEF Answered, Replied
<1>5. QED
  BY <1>0, <1>1, <1>2, <1>3, <1>4, CallSet

\* A call keeps the types of what it writes.
LEMMA CallTypes ==
  ASSUME IInv, NEW i \in 0 .. MaxSeats - 1, Answered(i)
  PROVE  TypeOK'
<1> USE Facts DEF IInv
<1>1. /\ i \in Seats /\ n' = n
      /\ call' \in [DOMAIN call -> CallType]
      /\ UNCHANGED <<over, gone>>
      /\ stage' = stage \/ (stage = "judging" /\ stage' = "repairing")
  BY CallStep
<1>2. errs' \subseteq Seats /\ proposed' \subseteq Seats
  BY <1>1 DEF Answered, Replied, Proposal, Review, Busy, Refused, Repair, Decision, Report,
              Resume, Late, Err, TypeOK
<1>3. reviews' \subseteq Seats \X Seats
  <2>1. CASE Review(i)
    <3>1. call[i].offset \in 1 .. n
      BY <2>1, <1>1 DEF Review, Asking, ReviewedOrFailed
    <3>2. (i + call[i].offset) % n \in Seats
      BY <1>1, <3>1, MeetsAnother
    <3>3. QED
      BY <2>1, <3>2, <1>1 DEF Review, TypeOK
  <2>2. CASE ~Review(i)
    BY <2>2 DEF Answered, Replied, Proposal, Busy, Refused, Repair, Decision, Report,
                Resume, Late, Err, TypeOK
  <2>3. QED
    BY <2>1, <2>2
<1>4. usable' \in BOOLEAN /\ blocking' \in BOOLEAN
  BY DEF Answered, Replied, Proposal, Review, Busy, Refused, Repair, Decision, Report,
         Resume, Late, Err, TypeOK
<1>5. Seats' = Seats
  BY <1>1 DEF Seats
<1>6. QED
  BY <1>1, <1>2, <1>3, <1>4, <1>5 DEF TypeOK, CallType

-----------------------------------------------------------------------------
(* The inductive invariant.                                                 *)

LEMMA CallKeeps ==
  ASSUME IInv, NEW i \in 0 .. MaxSeats - 1, Answered(i)
  PROVE  IInv'
<1> USE Facts
<1>i. TypeOK /\ NoCallIsLeftBehind /\ PauseHasAttempt /\ ProposedOrFailed
      /\ ReviewedOrFailed /\ JudgedByAll
  BY DEF IInv
<1>n. n \in Nat \ {0}
  BY <1>i
<1>1. TypeOK'
  BY CallTypes
<1>2. /\ i \in Workers /\ stage \notin Ends /\ call[i].pc # "ended"
      /\ UNCHANGED <<n, over, gone>>
      /\ stage' = stage \/ (stage = "judging" /\ stage' = "repairing")
      /\ \A j \in DOMAIN call : j # i => call'[j] = call[j]
      /\ call' \in [DOMAIN call -> CallType]
      /\ call'[i].pc = "pausing" => call'[i].tries < Attempts
  BY <1>i, CallStep
<1>3. DOMAIN call' = DOMAIN call /\ Seats' = Seats
  BY <1>2 DEF Seats
<1>4. Workers' = Workers /\ stage' \notin Ends
  BY <1>2, <1>3 DEF Workers, Timed, Ends
<1>5. NoCallIsLeftBehind'
  BY <1>i, <1>2, <1>3, <1>4 DEF NoCallIsLeftBehind
<1>6. PauseHasAttempt'
  BY <1>i, <1>2, <1>3 DEF PauseHasAttempt
<1>7. /\ errs \subseteq errs' /\ proposed \subseteq proposed' /\ reviews \subseteq reviews'
      /\ stage # "proposing" => proposed' = proposed
      /\ stage # "reviewing" => reviews' = reviews
  BY DEF Answered, Replied, Proposal, Review, Busy, Refused, Repair, Decision, Report,
         Resume, Late, Err
\* A call that comes to its end leaves what it was made for, or an error.
<1>e. call'[i].pc = "ended" /\ ~Review(i) /\ stage \in Timed =>
        i \in errs' \/ (Proposal(i) /\ i \in proposed')
  <2>1. CASE Busy(i) /\ call[i].tries < Attempts
    BY <2>1, <1>i DEF Busy, SetCall, TypeOK
  <2>2. CASE Busy(i) /\ ~(call[i].tries < Attempts)
    BY <2>2 DEF Busy, Err
  <2>3. CASE Resume(i)
    BY <2>3, <1>i DEF Resume, SetCall, TypeOK
  <2>4. CASE Refused(i) \/ Late(i) \/ Proposal(i)
    BY <2>4 DEF Refused, Late, Err, Proposal
  <2>5. CASE Repair(i) \/ \E b \in BOOLEAN : Decision(i, b) \/ Report(i, b)
    BY <2>5 DEF Repair, Decision, Report, Timed
  <2>6. QED
    BY <2>1, <2>2, <2>3, <2>4, <2>5 DEF Answered, Replied
<1>8. ProposedOrFailed'
  <2>1. i \in DOMAIN call
    BY <1>i, <1>2
  <2>2. stage # "analyzing"
    BY <1>i, <1>2, <2>1 DEF ProposedOrFailed
  <2>3. QED
    <3>1. stage = "proposing" /\ call'[i].pc = "ended" => i \in proposed' \cup errs'
      BY <1>e DEF Timed, Review
    <3>2. QED
      BY <1>i, <1>2, <1>3, <1>7, <2>2, <3>1 DEF ProposedOrFailed
<1>9. ReviewedOrFailed'
  <2>1. \A p \in reviews' : p[1] # p[2]
    <3>1. CASE Review(i)
      <4>1. call[i].offset \in 1 .. n - 1 /\ i \in Seats
        BY <3>1, <1>i, <1>2 DEF Review, ReviewedOrFailed
      <4>2. (i + call[i].offset) % n # i
        <5>1. call[i].offset \in 1 .. n /\ call[i].offset # n
          BY <4>1, <1>n
        <5>2. QED
          BY <4>1, <5>1, <1>n, MeetsAnother
      <4>3. QED
        BY <3>1, <4>2, <1>i DEF Review, ReviewedOrFailed
    <3>2. CASE ~Review(i)
      <4>1. reviews' = reviews
        BY <3>2 DEF Answered, Replied, Proposal, Busy, Refused, Repair, Decision, Report,
                    Resume, Late, Err
      <4>2. QED
        BY <4>1, <1>i DEF ReviewedOrFailed
    <3>3. QED
      BY <3>1, <3>2
  <2> SUFFICES ASSUME stage' = "reviewing", NEW j \in Seats
               PROVE  IF call'[j].pc = "ended"
                        THEN j \in errs' \/ ReviewedUpTo(j, n)'
                        ELSE call'[j].offset \in 1 .. n - 1 /\ ReviewedUpTo(j, call[j].offset)'
    BY <2>1, <1>2, <1>3 DEF ReviewedOrFailed
  <2>2. stage = "reviewing"
    BY <1>2
  <2>3. \A o \in Nat : ReviewedUpTo(j, o) => \A p \in 1 .. o - 1 : <<j, (j + p) % n>> \in reviews'
    BY <1>7 DEF ReviewedUpTo
  <2>4. CASE j # i
    <3>1. call'[j] = call[j]
      BY <1>i, <1>2, <2>4
    <3>2. QED
      BY <1>i, <1>2, <1>7, <2>2, <3>1 DEF ReviewedOrFailed, ReviewedUpTo
  <2>5. CASE j = i /\ Review(i)
    <3> DEFINE o == call[i].offset
    <3>1. o \in 1 .. n - 1 /\ ReviewedUpTo(i, o)
      BY <1>i, <1>2, <2>2, <2>5 DEF ReviewedOrFailed
    <3>2. \A p \in 1 .. o : <<i, (i + p) % n>> \in reviews'
      <4>1. \A p \in 1 .. o : p = o \/ p \in 1 .. o - 1
        BY <3>1
      <4>2. <<i, (i + o) % n>> \in reviews'
        BY <2>5 DEF Review
      <4>3. QED
        BY <3>1, <4>1, <4>2, <1>7 DEF ReviewedUpTo
    <3>3. call'[i] = IF o + 1 < n THEN Ask(o + 1) ELSE Ended
      <4>1. o + 1 \in 1 .. n /\ i \in Seats
        BY <3>1, <2>5, <1>n
      <4>2. Turn(i, o + 1) = IF o + 1 < n THEN Ask(o + 1) ELSE Ended
        BY <1>i, <4>1, TurnIs
      <4>3. QED
        BY <2>5, <4>2, <1>i DEF Review, SetCall, TypeOK
    <3>4. CASE o + 1 < n
      <4>1. call'[i].pc = "asking" /\ call'[i].offset = o + 1 /\ o + 1 \in 1 .. n - 1
        BY <3>1, <3>3, <3>4, <1>n DEF Ask
      <4>2. \A p \in 1 .. (o + 1) - 1 : <<i, (i + p) % n>> \in reviews'
        BY <3>1, <3>2
      <4>3. QED
        BY <4>1, <4>2, <1>2, <2>5 DEF ReviewedUpTo
    <3>5. CASE ~(o + 1 < n)
      <4>1. call'[i].pc = "ended" /\ o = n - 1
        BY <3>1, <3>3, <3>5, <1>n DEF Ended
      <4>2. QED
        BY <3>2, <4>1, <1>2, <2>5 DEF ReviewedUpTo
    <3>6. QED
      BY <3>4, <3>5
  <2>6. CASE j = i /\ ~Review(i)
    <3>1. call'[i].pc = "ended" => i \in errs'
      BY <1>e, <2>2, <2>6 DEF Timed, Proposal
    <3>2. call'[i].pc # "ended" => call'[i].offset = call[i].offset
      <4>1. CASE Busy(i) /\ call[i].tries < Attempts
        BY <4>1, <1>i DEF Busy, SetCall, TypeOK
      <4>2. CASE Resume(i)
        BY <4>2, <1>i DEF Resume, SetCall, TypeOK
      <4>3. CASE ~(Busy(i) /\ call[i].tries < Attempts) /\ ~Resume(i)
        <5>1. call' = [call EXCEPT ![i] = Ended]
          BY <4>3, <2>2, <2>6 DEF Answered, Replied, Proposal, Busy, Refused, Repair, Decision,
                                  Report, Late, Err, SetCall
        <5>2. QED
          BY <5>1, <1>i DEF Ended, TypeOK
      <4>4. QED
        BY <4>1, <4>2, <4>3
    <3>3. QED
      BY <3>1, <3>2, <1>i, <1>2, <1>7, <2>2, <2>6 DEF ReviewedOrFailed, ReviewedUpTo
  <2>7. QED
    BY <2>4, <2>5, <2>6
<1>10. JudgedByAll'
  BY <1>i, <1>2, <1>3, <1>4, <1>7 DEF JudgedByAll, Ends
<1>11. QED
  BY <1>1, <1>5, <1>6, <1>8, <1>9, <1>10 DEF IInv

\* When a stage is joined, no goroutine of any seat is left.
LEMMA AllEnded ==
  ASSUME NoCallIsLeftBehind, Joined
  PROVE  \A i \in DOMAIN call : call[i].pc = "ended"
BY DEF NoCallIsLeftBehind, Joined

\* A stage begins: all errors are new, and the calls are the ones it starts.
LEMMA BeginKeeps ==
  ASSUME IInv, NEW from, NEW to \in {"proposing", "reviewing", "judging", "redteam"},
         NEW calls \in [DOMAIN call -> CallType],
         Begin(from, to, calls),
         \A i \in DOMAIN call : calls[i].pc = "ended" \/ (calls[i].pc = "asking" /\ i \in Seats
                                  /\ (to \notin Timed => i = 0)),
         to = "proposing" => \A i \in Seats : calls[i].pc # "ended",
         to = "reviewing" => /\ proposed = Seats
                             /\ \A i \in Seats :
                                  IF calls[i].pc = "ended" THEN n = 1 ELSE calls[i].offset = 1 /\ 1 < n,
         to \notin Timed => proposed = Seats /\ reviews = {p \in Seats \X Seats : p[1] # p[2]}
  PROVE  IInv'
<1>i. TypeOK /\ NoCallIsLeftBehind /\ PauseHasAttempt /\ ProposedOrFailed
      /\ ReviewedOrFailed /\ JudgedByAll
  BY DEF IInv
<1>f. /\ DOMAIN call = 0 .. MaxSeats - 1 /\ n \in Nat \ {0}
  BY <1>i, Facts
<1>1. /\ stage' = to /\ call' = calls /\ errs' = {} /\ over' = gone
      /\ UNCHANGED <<n, proposed, reviews, usable, blocking, gone>>
      /\ DOMAIN call' = DOMAIN call /\ Seats' = Seats
  BY DEF Begin, Seats
<1>2. TypeOK'
  BY <1>i, <1>f, <1>1 DEF TypeOK, CallType, Timed
<1>3. to \notin Ends /\ Workers' = IF to \in Timed THEN Seats ELSE {0}
  BY <1>1 DEF Ends, Timed, Workers
<1>4. NoCallIsLeftBehind'
  BY <1>1, <1>3 DEF NoCallIsLeftBehind
<1>5. PauseHasAttempt'
  BY <1>1 DEF PauseHasAttempt
<1>6. Seats \subseteq DOMAIN call
  BY <1>i, Facts
<1>7. ProposedOrFailed'
  BY <1>1, <1>6 DEF ProposedOrFailed
<1>8. ReviewedOrFailed'
  <2>1. to = "reviewing" => \A i \in Seats :
          IF calls[i].pc = "ended" THEN n = 1 ELSE calls[i].offset \in 1 .. n - 1 /\ calls[i].offset = 1
    BY <1>f
  <2>2. \A i \in Seats : n = 1 => ReviewedUpTo(i, n)
    BY DEF ReviewedUpTo
  <2>3. \A i \in Seats : ReviewedUpTo(i, 1)
    BY DEF ReviewedUpTo
  <2>4. \A i \in Seats : \A o : ReviewedUpTo(i, o)' <=> \A p \in 1 .. o - 1 : <<i, (i + p) % n>> \in reviews
    BY <1>1 DEF ReviewedUpTo
  <2>5. to = "reviewing" =>
          \A i \in Seats : IF calls[i].pc = "ended"
                             THEN i \in errs' \/ ReviewedUpTo(i, n)'
                             ELSE calls[i].offset \in 1 .. n - 1 /\ ReviewedUpTo(i, call[i].offset)'
    BY <2>1, <2>2, <2>3, <1>1 DEF ReviewedUpTo
  <2>6. QED
    BY <1>i, <1>1, <2>5 DEF ReviewedOrFailed
<1>9. JudgedByAll'
  BY <1>1 DEF JudgedByAll, Timed
<1>10. QED
  BY <1>2, <1>4, <1>5, <1>7, <1>8, <1>9 DEF IInv

LEMMA AdvanceKeeps ==
  ASSUME IInv, Advance
  PROVE  IInv'
<1>i. TypeOK /\ NoCallIsLeftBehind /\ PauseHasAttempt /\ ProposedOrFailed
      /\ ReviewedOrFailed /\ JudgedByAll
  BY DEF IInv
<1>f. /\ DOMAIN call = 0 .. MaxSeats - 1 /\ n \in Nat \ {0} /\ n <= MaxSeats /\ MaxSeats \in Nat
      /\ Seats \subseteq DOMAIN call /\ 0 \in Seats
      /\ Ended \in CallType /\ \A o \in 0 .. MaxSeats : Ask(o) \in CallType
      /\ proposed \subseteq Seats /\ reviews \subseteq Seats \X Seats
  BY <1>i, Facts DEF TypeOK
<1>a. 0 \in 0 .. MaxSeats /\ 1 \in 0 .. MaxSeats
  BY <1>f
<1>0. \A o : Ask(o).pc = "asking" /\ Ask(o).offset = o /\ Ended.pc = "ended"
  BY DEF Ask, Ended
<1>1. CASE Propose
  <2> DEFINE calls == [i \in DOMAIN call |-> IF i \in Seats THEN Ask(0) ELSE Ended]
  <2>1. calls \in [DOMAIN call -> CallType] /\ Begin("analyzing", "proposing", calls)
    BY <1>1, <1>f, <1>a DEF Propose
  <2>2. \A i \in DOMAIN call : IF i \in Seats THEN calls[i].pc = "asking" ELSE calls[i].pc = "ended"
    BY <1>0
  <2> HIDE DEF calls
  <2>3. QED
    BY <2>1, <2>2, <1>f, BeginKeeps DEF Timed
<1>2. CASE StartReviews
  <2> DEFINE calls == [i \in DOMAIN call |-> IF i \in Seats THEN Turn(i, 1) ELSE Ended]
  <2>1. \A i \in Seats : Turn(i, 1) = IF 1 < n THEN Ask(1) ELSE Ended
    BY <1>f, TurnIs
  <2>2. calls \in [DOMAIN call -> CallType] /\ Begin("proposing", "reviewing", calls)
    BY <1>2, <1>f, <1>a, <2>1 DEF StartReviews
  <2>3. \A i \in DOMAIN call :
          IF i \in Seats THEN calls[i] = IF 1 < n THEN Ask(1) ELSE Ended ELSE calls[i] = Ended
    BY <2>1
  <2>4. stage = "proposing" /\ Joined /\ errs = {}
    BY <1>2 DEF StartReviews, Begin, AnyCallFailed
  <2>5. proposed = Seats
    BY <2>4, <1>i, <1>f, AllEnded DEF ProposedOrFailed
  <2> HIDE DEF calls
  <2>6. /\ \A i \in DOMAIN call : calls[i].pc = "ended" \/ (calls[i].pc = "asking" /\ i \in Seats)
        /\ \A i \in Seats : IF calls[i].pc = "ended" THEN n = 1 ELSE calls[i].offset = 1 /\ 1 < n
    BY <2>3, <1>0, <1>f
  <2>7. QED
    BY <2>2, <2>5, <2>6, BeginKeeps DEF Timed
<1> DEFINE first == [i \in DOMAIN call |-> First(i)]
<1>3. /\ first \in [DOMAIN call -> CallType]
      /\ \A i \in DOMAIN call : first[i].pc = "ended" \/ (first[i].pc = "asking" /\ i = 0)
  BY <1>f, <1>a, <1>0 DEF First
<1>4. CASE Judge
  <2>1. Begin("reviewing", "judging", first) /\ stage = "reviewing" /\ Joined /\ errs = {}
    BY <1>4 DEF Judge, Begin, AnyCallFailed
  <2>2. \A i \in Seats : ReviewedUpTo(i, n)
    BY <2>1, <1>i, <1>f, AllEnded DEF ReviewedOrFailed
  <2>3. ASSUME NEW i \in Seats, NEW j \in Seats, i # j
        PROVE  <<i, j>> \in reviews
    <3>1. PICK p \in 1 .. n - 1 : (i + p) % n = j
      BY <2>3, <1>f, MeetsEvery
    <3>2. QED
      BY <2>2, <3>1 DEF ReviewedUpTo
  <2>4. reviews = {p \in Seats \X Seats : p[1] # p[2]}
    BY <2>3, <1>f, <1>i DEF ReviewedOrFailed
  <2>5. proposed = Seats
    BY <2>1, <1>i DEF ProposedOrFailed
  <2> HIDE DEF first
  <2>6. QED
    BY <2>1, <2>4, <2>5, <1>3, <1>f, BeginKeeps DEF Timed
<1>5. CASE RedTeam
  <2>1. PICK s \in {"judging", "repairing"} : Begin(s, "redteam", first)
    BY <1>5 DEF RedTeam
  <2>2. proposed = Seats /\ reviews = {p \in Seats \X Seats : p[1] # p[2]}
    BY <2>1, <1>i DEF Begin, JudgedByAll
  <2> HIDE DEF first
  <2>3. QED
    BY <2>1, <2>2, <1>3, <1>f, BeginKeeps DEF Timed
<1>6. QED
  BY <1>1, <1>2, <1>4, <1>5 DEF Advance

LEMMA EndKeeps ==
  ASSUME IInv, Ending
  PROVE  IInv'
<1>i. TypeOK /\ NoCallIsLeftBehind /\ PauseHasAttempt /\ ProposedOrFailed
      /\ ReviewedOrFailed /\ JudgedByAll
  BY DEF IInv
<1>1. /\ stage' \in Ends /\ UNCHANGED <<n, call, errs, proposed, reviews, usable, blocking, over, gone>>
      /\ Joined \/ stage = "analyzing"
      /\ stage' = "planned" => stage = "redteam" /\ usable /\ ~blocking
  BY DEF Ending, GiveUp, FilesRefused, ProgressFails, Build, EndIn, Ends, work, AnyCallFailed
<1>2. \A i \in DOMAIN call : call[i].pc = "ended"
  BY <1>i, <1>1, AllEnded DEF ProposedOrFailed
<1>3. TypeOK'
  BY <1>i, <1>1 DEF TypeOK, Seats
<1>4. NoCallIsLeftBehind' /\ PauseHasAttempt'
  BY <1>1, <1>2 DEF NoCallIsLeftBehind, PauseHasAttempt
<1>5. ProposedOrFailed' /\ ReviewedOrFailed'
  BY <1>i, <1>1 DEF ProposedOrFailed, ReviewedOrFailed, Ends
<1>6. JudgedByAll'
  BY <1>i, <1>1 DEF JudgedByAll, Ends, Seats
<1>7. QED
  BY <1>3, <1>4, <1>5, <1>6 DEF IInv

LEMMA Inductive == IInv /\ [Next]_vars => IInv'
<1> SUFFICES ASSUME IInv, [Next]_vars
             PROVE  IInv'
  OBVIOUS
<1>1. ASSUME NEW i \in 0 .. MaxSeats - 1, Answered(i)
      PROVE  IInv'
  BY <1>1, CallKeeps
<1>2. CASE Advance \/ Ending
  BY <1>2, AdvanceKeeps, EndKeeps
<1>3. CASE Deadline \/ ClientGone \/ UNCHANGED vars
  <2>1. /\ UNCHANGED <<n, stage, call, errs, proposed, reviews, usable, blocking>>
        /\ {over', gone'} \subseteq BOOLEAN
    BY <1>3 DEF Deadline, ClientGone, vars, work, IInv, TypeOK
  <2>2. QED
    BY <2>1 DEF IInv, TypeOK, NoCallIsLeftBehind, PauseHasAttempt, ProposedOrFailed,
                ReviewedOrFailed, ReviewedUpTo, JudgedByAll, Seats, Workers
<1>4. QED
  BY <1>1, <1>2, <1>3 DEF Next, Answered

LEMMA InitHolds == Init => IInv
<1> SUFFICES ASSUME Init
             PROVE  IInv
  OBVIOUS
<1>1. TypeOK
  BY TypeInit
<1>2. NoCallIsLeftBehind /\ PauseHasAttempt /\ ProposedOrFailed /\ ReviewedOrFailed /\ JudgedByAll
  BY DEF Init, NoCallIsLeftBehind, PauseHasAttempt, ProposedOrFailed, ReviewedOrFailed,
         JudgedByAll, Ended
<1>3. QED
  BY <1>1, <1>2 DEF IInv

\* The inductive invariant, for any number of seats and of attempts.
THEOREM Invariant == Spec => []IInv
BY InitHolds, Inductive, PTL DEF Spec

\* The stage, the goroutines and what they produced keep their types.
THEOREM TypeCorrect == Spec => []TypeOK
<1>1. IInv => TypeOK
  BY DEF IInv
<1>2. QED
  BY <1>1, Invariant, PTL

\* Whatever fails, times out or is asked again, a judge that is asked has every
\* proposal and every review by every other seat, and a plan has no objection.
THEOREM JudgeHearsAll == Spec => []JudgedByAll
<1>1. IInv => JudgedByAll
  BY DEF IInv
<1>2. QED
  BY <1>1, Invariant, PTL

\* No goroutine outlives the deliberation, or the stage it was started in.
THEOREM EveryCallIsJoined == Spec => []NoCallIsLeftBehind
<1>1. IInv => NoCallIsLeftBehind
  BY DEF IInv
<1>2. QED
  BY <1>1, Invariant, PTL

=============================================================================
