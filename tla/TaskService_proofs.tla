------------------------- MODULE TaskService_proofs -------------------------
(***************************************************************************)
(* Proofs about TaskService for any calls, plans and versions.             *)
(***************************************************************************)
EXTENDS TaskService, SequenceTheorems, FiniteSetTheorems, TLAPS

-----------------------------------------------------------------------------
(* The state machine                                                         *)

\* The states Start moves the run to after ANALYZING, with the one before.
Before(s) ==
  CASE s = "PROPOSING" -> "ANALYZING"
    [] s = "REVIEWING" -> "PROPOSING"
    [] s = "JUDGING" -> "REVIEWING"
    [] s = "RED_TEAM" -> "JUDGING"
    [] s = "AWAITING_APPROVAL" -> "RED_TEAM"
    [] OTHER -> None
Later == {"PROPOSING", "REVIEWING", "JUDGING", "RED_TEAM", "AWAITING_APPROVAL"}

\* How far a run has come.
Rank(s) ==
  CASE s = "DRAFT" -> 1
    [] s = "ANALYZING" -> 2
    [] s = "PROPOSING" -> 3
    [] s = "REVIEWING" -> 4
    [] s = "JUDGING" -> 5
    [] s = "RED_TEAM" -> 6
    [] s = "AWAITING_APPROVAL" -> 7
    [] s = "EXECUTING" -> 8
    [] s = "VERIFYING" -> 9
    [] OTHER -> 10

Moves == {"ANALYZING", "EXECUTING", "VERIFYING", "SUCCEEDED", "REPLANNING"} \cup Later

LEMMA WalkIs ==
  /\ Len(Walk) = 7 /\ DOMAIN Walk = 1 .. 7
  /\ Walk[1] = "DRAFT" /\ Walk[2] = "ANALYZING" /\ Walk[3] = "PROPOSING"
  /\ Walk[4] = "REVIEWING" /\ Walk[5] = "JUDGING" /\ Walk[6] = "RED_TEAM"
  /\ Walk[7] = "AWAITING_APPROVAL"
BY DEF Walk

LEMMA LegalIs ==
  \A e : e \in Legal <=>
    e \in {<<"DRAFT", "ANALYZING">>, <<"ANALYZING", "PROPOSING">>,
           <<"PROPOSING", "REVIEWING">>, <<"REVIEWING", "JUDGING">>,
           <<"JUDGING", "RED_TEAM">>, <<"RED_TEAM", "AWAITING_APPROVAL">>,
           <<"AWAITING_APPROVAL", "EXECUTING">>, <<"EXECUTING", "VERIFYING">>,
           <<"VERIFYING", "SUCCEEDED">>, <<"VERIFYING", "REPLANNING">>,
           <<"RED_TEAM", "JUDGING">>, <<"REPLANNING", "REVIEWING">>}
<1> DEFINE F(i) == <<Walk[i], Walk[i + 1]>>
           W == {F(i) : i \in 1 .. Len(Walk) - 1}
<1>1. 1 .. Len(Walk) - 1 = {1, 2, 3, 4, 5, 6}
  BY WalkIs
<1>2. W = {<<Walk[1], Walk[2]>>, <<Walk[2], Walk[3]>>, <<Walk[3], Walk[4]>>,
           <<Walk[4], Walk[5]>>, <<Walk[5], Walk[6]>>, <<Walk[6], Walk[7]>>}
  <2>1. /\ F(1) = <<Walk[1], Walk[2]>> /\ F(2) = <<Walk[2], Walk[3]>>
        /\ F(3) = <<Walk[3], Walk[4]>> /\ F(4) = <<Walk[4], Walk[5]>>
        /\ F(5) = <<Walk[5], Walk[6]>> /\ F(6) = <<Walk[6], Walk[7]>>
    OBVIOUS
  <2> HIDE DEF F
  <2>2. W = {F(1), F(2), F(3), F(4), F(5), F(6)}
    BY <1>1
  <2> QED
    BY <2>1, <2>2
<1> QED
  BY <1>2, WalkIs DEF Legal

LEMMA StatesAre == Moves \cup {"DRAFT"} \subseteq States
<1>1. \A s, t : <<s, t>> \in Legal => s \in States /\ t \in States
  <2> SUFFICES ASSUME NEW s, NEW t, <<s, t>> \in Legal
               PROVE  s \in States /\ t \in States
    OBVIOUS
  <2>1. <<s, t>>[1] = s /\ <<s, t>>[2] = t
    OBVIOUS
  <2> QED
    BY <2>1 DEF States
<1> QED
  BY <1>1, LegalIs DEF Moves, Later

\* The one legal way to a state that the service moves a run to.
LEMMA OnlyFrom ==
  ASSUME NEW s, NEW t, <<s, t>> \in Legal
  PROVE  /\ t # "DRAFT"
         /\ t = "ANALYZING" => s = "DRAFT"
         /\ t \in Later => s = Before(t) \/ s \in {"RED_TEAM", "REPLANNING"}
         /\ t \in {"EXECUTING", "VERIFYING", "SUCCEEDED", "REPLANNING"} => Rank(s) < Rank(t)
<1>1. <<s, t>> \in {<<"DRAFT", "ANALYZING">>, <<"ANALYZING", "PROPOSING">>,
           <<"PROPOSING", "REVIEWING">>, <<"REVIEWING", "JUDGING">>,
           <<"JUDGING", "RED_TEAM">>, <<"RED_TEAM", "AWAITING_APPROVAL">>,
           <<"AWAITING_APPROVAL", "EXECUTING">>, <<"EXECUTING", "VERIFYING">>,
           <<"VERIFYING", "SUCCEEDED">>, <<"VERIFYING", "REPLANNING">>,
           <<"RED_TEAM", "JUDGING">>, <<"REPLANNING", "REVIEWING">>}
  BY LegalIs
<1>2. t # "DRAFT" /\ (t = "ANALYZING" => s = "DRAFT")
  BY <1>1
<1>3. t \in Later => s = Before(t) \/ s \in {"RED_TEAM", "REPLANNING"}
  BY <1>1 DEF Later, Before
<1>4. t \in {"EXECUTING", "VERIFYING", "SUCCEEDED", "REPLANNING"} => Rank(s) < Rank(t)
  BY <1>1 DEF Rank
<1> QED
  BY <1>2, <1>3, <1>4

\* The loop of Start goes from each state to the one after it.
LEMMA WalksOn ==
  ASSUME NEW s \in {"ANALYZING", "PROPOSING", "REVIEWING", "JUDGING", "RED_TEAM"}
  PROVE  LET t == Walk[(CHOOSE i \in DOMAIN Walk : Walk[i] = s) + 1]
         IN  t \in Later /\ Before(t) = s
<1> DEFINE k == CHOOSE i \in DOMAIN Walk : Walk[i] = s
<1>1. \E i \in DOMAIN Walk : Walk[i] = s
  BY WalkIs
<1>2. k \in DOMAIN Walk /\ Walk[k] = s
  BY <1>1
<1> HIDE DEF k
<1>3. k \in 2 .. 6
  BY <1>2, WalkIs
<1>4. CASE k = 2
  BY <1>2, <1>4, WalkIs DEF Later, Before, k
<1>5. CASE k = 3
  BY <1>2, <1>5, WalkIs DEF Later, Before, k
<1>6. CASE k = 4
  BY <1>2, <1>6, WalkIs DEF Later, Before, k
<1>7. CASE k = 5
  BY <1>2, <1>7, WalkIs DEF Later, Before, k
<1>8. CASE k = 6
  BY <1>2, <1>8, WalkIs DEF Later, Before, k
<1> QED
  BY <1>3, <1>4, <1>5, <1>6, <1>7, <1>8

-----------------------------------------------------------------------------
(* The inductive invariant, by parts.                                        *)

\* A call that moves the record moves it to a state of Moves.
CallsOK == \A c \in Calls : At(c, "read") \/ At(c, "write") => call[c].next \in Moves

\* What was read of the record is the record, unless that has moved since.
ReadIsPast ==
  \A c \in Calls : At(c, "write") =>
    /\ call[c].read.version <= row.version
    /\ call[c].read.version = row.version => call[c].read.state = row.state

\* Of the calls of Start only one gets past ANALYZING: alone on its way, it has
\* made every transition since.
Walks(c) == (At(c, "read") \/ At(c, "write")) /\ call[c].next \in Later
OneWalks ==
  /\ \A c \in Calls : Walks(c) => started = {} /\ row.state = Before(call[c].next)
  /\ \A c, d \in Calls : Walks(c) /\ Walks(d) => c = d
  /\ started # {} => Rank(row.state) >= 7
  /\ Cardinality(started) <= 1

\* The run never goes back.
Ranked == \A i, j \in DOMAIN audit : i < j => Rank(audit[i]) < Rank(audit[j])

\* The hash of an approval, and of a call that makes or uses one, was granted.
Holds(c) ==
  \/ call[c].pc \in {"invalidate", "save", "mark", "send"}
  \/ (At(c, "read") \/ At(c, "write")) /\ call[c].next = "EXECUTING"
HashesAreGranted ==
  /\ \A i \in DOMAIN approvals : approvals[i].hash \in granted
  /\ \A c \in Calls : Holds(c) => call[c].plan \in granted

IInv ==
  /\ TypeOK /\ CallsOK /\ ReadIsPast
  /\ HistoryIsLegal /\ Ranked /\ OneWalks
  /\ HashesAreGranted /\ RanWasApproved

LEMMA InitHolds == Init => IInv
<1> SUFFICES ASSUME Init PROVE IInv
  OBVIOUS
<1> USE DEF Init, Created, NewCall
<1>1. TypeOK
  <2>0. OwnPlan \in Plans /\ 1 \in Versions
    BY TaskServiceAssumption DEF OwnPlan, Plans
  <2>1. NewCall \in Call
    BY <2>0 DEF Call, PCs
  <2>2. "DRAFT" \in States
    BY StatesAre
  <2>3. audit \in Seq(States) /\ approvals \in Seq([hash : Plans, version : Nat, live : BOOLEAN])
    BY <2>2
  <2> QED
    BY <2>0, <2>1, <2>2, <2>3 DEF TypeOK
<1>2. CallsOK /\ ReadIsPast
  BY DEF CallsOK, ReadIsPast, At
<1>3. HistoryIsLegal /\ Ranked
  BY DEF HistoryIsLegal, Ranked
<1>4. OneWalks
  BY FS_EmptySet DEF OneWalks, Walks, At
<1>5. HashesAreGranted /\ RanWasApproved
  BY DEF HashesAreGranted, Holds, At, RanWasApproved
<1> QED
  BY <1>1, <1>2, <1>3, <1>4, <1>5 DEF IInv

-----------------------------------------------------------------------------
(* Where a call goes after a transition.                                     *)

LEMMA CallUpdate ==
  ASSUME TypeOK, NEW c \in Calls, NEW v \in Call, call' = [call EXCEPT ![c] = v]
  PROVE  /\ call' \in [Calls -> Call]
         /\ call'[c] = v
         /\ \A d \in Calls : d # c => call'[d] = call[d]
BY DEF TypeOK

LEMMA GotoIs ==
  ASSUME TypeOK, NEW c \in Calls, NEW pc \in PCs, NEW next \in States \cup {None},
         call' = [call EXCEPT ![c].pc = pc, ![c].next = next]
  PROVE  /\ call' \in [Calls -> Call]
         /\ call'[c] = [call[c] EXCEPT !.pc = pc, !.next = next]
         /\ \A d \in Calls : d # c => call'[d] = call[d]
<1> DEFINE v == [call[c] EXCEPT !.pc = pc, !.next = next]
<1>1. call[c] \in Call
  BY DEF TypeOK
<1>2. v \in Call
  BY <1>1 DEF Call
<1>3. call' = [call EXCEPT ![c] = v]
  OBVIOUS
<1> HIDE DEF v
<1>4. /\ call' \in [Calls -> Call]
      /\ call'[c] = v
      /\ \A d \in Calls : d # c => call'[d] = call[d]
  BY <1>2, <1>3, CallUpdate
<1> QED
  BY <1>4 DEF v

LEMMA PcIs ==
  ASSUME TypeOK, NEW c \in Calls, NEW pc \in PCs, Goto(c, pc)
  PROVE  /\ call' \in [Calls -> Call]
         /\ call'[c] = [call[c] EXCEPT !.pc = pc]
         /\ \A d \in Calls : d # c => call'[d] = call[d]
<1> DEFINE v == [call[c] EXCEPT !.pc = pc]
<1>1. call[c] \in Call
  BY DEF TypeOK
<1>2. v \in Call
  BY <1>1 DEF Call
<1>3. call' = [call EXCEPT ![c] = v]
  BY DEF Goto
<1> HIDE DEF v
<1>4. /\ call' \in [Calls -> Call]
      /\ call'[c] = v
      /\ \A d \in Calls : d # c => call'[d] = call[d]
  BY <1>2, <1>3, CallUpdate
<1> QED
  BY <1>4 DEF v

LEMMA AfterIs ==
  ASSUME TypeOK, CallsOK, NEW c \in Calls, NEW ok \in BOOLEAN,
         At(c, "read") \/ At(c, "write"), After(c, ok)
  PROVE  /\ call' \in [Calls -> Call]
         /\ \A d \in Calls : d # c => call'[d] = call[d]
         /\ call'[c].plan = call[c].plan
         /\ \/ call'[c].pc \in {"final", "done"}
            \/ call'[c].pc = "send" /\ call[c].next = "EXECUTING"
            \/ /\ ok
               /\ call'[c].pc = "read" /\ call'[c].next \in Later
               /\ Before(call'[c].next) = call[c].next
<1> DEFINE next == call[c].next
<1>1. call[c] \in Call /\ next \in Moves
  BY DEF TypeOK, CallsOK
<1>2. ASSUME NEW pc \in {"send", "final", "done"}, Goto(c, pc)
      PROVE  /\ call' \in [Calls -> Call]
             /\ \A d \in Calls : d # c => call'[d] = call[d]
             /\ call'[c].plan = call[c].plan /\ call'[c].pc = pc
  <2>1. pc \in PCs
    BY DEF PCs
  <2>2. /\ call' \in [Calls -> Call]
        /\ call'[c] = [call[c] EXCEPT !.pc = pc]
        /\ \A d \in Calls : d # c => call'[d] = call[d]
    BY <1>2, <2>1, PcIs
  <2>3. call'[c].plan = call[c].plan /\ call'[c].pc = pc
    BY <1>1, <2>2 DEF Call
  <2> QED
    BY <2>2, <2>3
<1>3. CASE next \in {"EXECUTING", "VERIFYING", "SUCCEEDED", "REPLANNING"}
  <2>1. CASE next = "EXECUTING"
    BY <2>1, <1>2 DEF After
  <2>2. CASE next = "VERIFYING"
    BY <2>2, <1>2 DEF After
  <2>3. CASE next \in {"SUCCEEDED", "REPLANNING"}
    BY <2>3, <1>2 DEF After
  <2> QED
    BY <1>3, <2>1, <2>2, <2>3
<1>4. CASE next \in Later \cup {"ANALYZING"} /\ (~ok \/ next = "AWAITING_APPROVAL")
  <2>1. Goto(c, "done")
    BY <1>4 DEF After, Later
  <2> QED
    BY <2>1, <1>2
<1>5. CASE next \in Later \cup {"ANALYZING"} /\ ok /\ next # "AWAITING_APPROVAL"
  <2> DEFINE t == Walk[(CHOOSE i \in DOMAIN Walk : Walk[i] = next) + 1]
  <2>1. GotoNext(c, "read", t)
    BY <1>5 DEF After, Later
  <2>n. next \in {"ANALYZING", "PROPOSING", "REVIEWING", "JUDGING", "RED_TEAM"}
    BY <1>5 DEF Later
  <2> HIDE DEF next
  <2>2. t \in Later /\ Before(t) = next
    BY <2>n, WalksOn
  <2> HIDE DEF t
  <2>3. t \in States \cup {None} /\ "read" \in PCs
    BY <2>2, StatesAre DEF Moves, PCs
  <2>4. call' = [call EXCEPT ![c].pc = "read", ![c].next = t]
    BY <2>1 DEF GotoNext
  <2>5. /\ call' \in [Calls -> Call]
        /\ call'[c] = [call[c] EXCEPT !.pc = "read", !.next = t]
        /\ \A d \in Calls : d # c => call'[d] = call[d]
    BY <2>3, <2>4, GotoIs
  <2>6. call'[c].plan = call[c].plan /\ call'[c].pc = "read" /\ call'[c].next = t
    BY <1>1, <2>5 DEF Call
  <2> QED
    BY <1>5, <2>2, <2>5, <2>6 DEF next
<1> QED
  BY <1>1, <1>3, <1>4, <1>5 DEF Moves

-----------------------------------------------------------------------------
(* What every step but a commit does: the record, its audit and what has     *)
(* started stay, and one call goes somewhere that the invariant allows.      *)

Task == [state : States, plan : Plans, version : Versions]
Approved == [hash : Plans, version : Nat, live : BOOLEAN]

LEMMA QuietStep ==
  ASSUME IInv, NEW c \in Calls,
         row' = row, audit' = audit, started' = started,
         task' \in Task, approvals' \in Seq(Approved),
         granted \subseteq granted', granted' \subseteq Plans, ran' \subseteq granted',
         \A i \in DOMAIN approvals' : approvals'[i].hash \in granted',
         call' \in [Calls -> Call], council' = council,
         \A d \in Calls : d # c => call'[d] = call[d],
         call'[c].pc \in {"read", "write"} => call'[c].next \in Moves,
         call'[c].pc = "write" => /\ call'[c].read.version <= row.version
                                  /\ call'[c].read.version = row.version =>
                                       call'[c].read.state = row.state,
         Walks(c)' => Walks(c) /\ call'[c].next = call[c].next,
         Holds(c)' => call'[c].plan \in granted'
  PROVE  IInv'
<1> USE DEF IInv
<1>1. TypeOK'
  <2>1. ran' \subseteq Plans /\ started' \subseteq Calls
    BY DEF TypeOK
  <2> QED
    BY <2>1 DEF TypeOK, Task, Approved
<1>2. CallsOK'
  BY DEF CallsOK, At
<1>3. ReadIsPast'
  BY DEF ReadIsPast, At
<1>4. HistoryIsLegal' /\ Ranked'
  BY DEF HistoryIsLegal, Ranked
<1>5. OneWalks'
  <2>1. \A d \in Calls : Walks(d)' => Walks(d) /\ call'[d].next = call[d].next
    BY DEF Walks, At
  <2> QED
    BY <2>1 DEF OneWalks
<1>6. HashesAreGranted'
  <2>1. \A d \in Calls : d # c => (Holds(d)' <=> Holds(d)) /\ call'[d].plan = call[d].plan
    BY DEF Holds, At
  <2> QED
    BY <2>1 DEF HashesAreGranted
<1>7. RanWasApproved'
  BY DEF RanWasApproved
<1> QED
  BY <1>1, <1>2, <1>3, <1>4, <1>5, <1>6, <1>7

\* The same when nothing but the call changes.
LEMMA CallStep ==
  ASSUME IInv, NEW c \in Calls, UNCHANGED <<task, db, started, ran, granted>>,
         call' \in [Calls -> Call], council' = council,
         \A d \in Calls : d # c => call'[d] = call[d],
         call'[c].pc \in {"read", "write"} => call'[c].next \in Moves,
         call'[c].pc = "write" => /\ call'[c].read.version <= row.version
                                  /\ call'[c].read.version = row.version =>
                                       call'[c].read.state = row.state,
         Walks(c)' => Walks(c) /\ call'[c].next = call[c].next,
         Holds(c)' => call'[c].plan \in granted
  PROVE  IInv'
<1>1. task' \in Task /\ approvals' \in Seq(Approved) /\ granted' \subseteq Plans
  BY DEF IInv, TypeOK, Task, Approved, db
<1>2. \A i \in DOMAIN approvals' : approvals'[i].hash \in granted'
  BY DEF IInv, HashesAreGranted, db
<1>3. ran' \subseteq granted'
  BY DEF IInv, RanWasApproved
<1> QED
  BY <1>1, <1>2, <1>3, QuietStep DEF db

-----------------------------------------------------------------------------
(* The actions, but for a commit                                             *)

LEMMA TransitionReadStep ==
  ASSUME IInv, UNCHANGED council, NEW c \in Calls, TransitionRead(c)
  PROVE  IInv'
<1> DEFINE v == [call[c] EXCEPT !.pc = "write", !.read = row]
<1>1. call[c] \in Call /\ call[c].next \in Moves /\ TypeOK
  BY DEF IInv, TypeOK, CallsOK, TransitionRead
<1>2. v \in Call
  BY <1>1 DEF Call, PCs, TypeOK
<1>3. call' = [call EXCEPT ![c] = v]
  BY DEF TransitionRead
<1>4. v.pc = "write" /\ v.next = call[c].next /\ v.plan = call[c].plan /\ v.read = row
  BY <1>1 DEF Call
<1> HIDE DEF v
<1>5. /\ call' \in [Calls -> Call]
      /\ call'[c] = v
      /\ \A d \in Calls : d # c => call'[d] = call[d]
  BY <1>1, <1>2, <1>3, CallUpdate
<1>6. row.version \in Nat
  BY <1>1 DEF TypeOK
<1>7. Walks(c)' => Walks(c) /\ call'[c].next = call[c].next
  BY <1>4, <1>5 DEF Walks, At, TransitionRead
<1>8. Holds(c)' => call'[c].plan \in granted
  BY <1>4, <1>5 DEF Holds, At, TransitionRead, IInv, HashesAreGranted
<1> QED
  BY <1>1, <1>4, <1>5, <1>6, <1>7, <1>8, CallStep DEF TransitionRead

LEMMA TransitionFailsStep ==
  ASSUME IInv, UNCHANGED council, NEW c \in Calls, TransitionFails(c)
  PROVE  IInv'
<1>1. /\ call' \in [Calls -> Call]
      /\ \A d \in Calls : d # c => call'[d] = call[d]
      /\ call'[c].plan = call[c].plan
      /\ \/ call'[c].pc \in {"final", "done"}
         \/ call'[c].pc = "send" /\ call[c].next = "EXECUTING"
  BY AfterIs DEF TransitionFails, IInv
<1>2. Holds(c)' => call'[c].plan \in granted
  BY <1>1 DEF Holds, At, TransitionFails, IInv, HashesAreGranted
<1> QED
  BY <1>1, <1>2, CallStep DEF TransitionFails, Walks, At

\* A step of a call to another place than a transition.
LEMMA PcStep ==
  ASSUME IInv, NEW c \in Calls, NEW pc \in PCs \ {"read", "write"}, Goto(c, pc)
  PROVE  /\ call' \in [Calls -> Call]
         /\ \A d \in Calls : d # c => call'[d] = call[d]
         /\ call'[c].pc = pc /\ call'[c].plan = call[c].plan
         /\ ~Walks(c)'
         /\ Holds(c)' <=> pc \in {"invalidate", "save", "mark", "send"}
<1>1. /\ call' \in [Calls -> Call]
      /\ call'[c] = [call[c] EXCEPT !.pc = pc]
      /\ \A d \in Calls : d # c => call'[d] = call[d]
  BY PcIs DEF IInv
<1>2. call[c] \in Call
  BY DEF IInv, TypeOK
<1>3. call'[c].pc = pc /\ call'[c].plan = call[c].plan
  BY <1>1, <1>2 DEF Call
<1> QED
  BY <1>1, <1>3 DEF Walks, Holds, At

LEMMA DeliberatedStep ==
  ASSUME IInv, UNCHANGED council, NEW c \in Calls, NEW p \in Drafts, Deliberated(c, p)
  PROVE  IInv'
<1>1. TypeOK /\ p \in Plans /\ "version" \in PCs \ {"read", "write"}
  BY TaskServiceAssumption DEF IInv, PCs
<1>2. /\ call' \in [Calls -> Call]
      /\ \A d \in Calls : d # c => call'[d] = call[d]
      /\ call'[c].pc = "version"
      /\ ~Walks(c)' /\ ~Holds(c)'
  BY <1>1, PcStep DEF Deliberated
<1>3. task' \in Task
  BY <1>1 DEF Deliberated, TypeOK, Task
<1>4. /\ approvals' \in Seq(Approved) /\ granted' = granted /\ granted \subseteq Plans
      /\ \A i \in DOMAIN approvals' : approvals'[i].hash \in granted'
      /\ ran' \subseteq granted'
      /\ row' = row /\ audit' = audit /\ started' = started
  BY <1>1 DEF Deliberated, db, TypeOK, Approved, IInv, HashesAreGranted, RanWasApproved
<1> QED
  BY <1>2, <1>3, <1>4, QuietStep

LEMMA SetVersionStep ==
  ASSUME IInv, UNCHANGED council, NEW c \in Calls, SetVersion(c)
  PROVE  IInv'
<1>1. TypeOK /\ "acceptance" \in PCs \ {"read", "write"}
  BY DEF IInv, PCs
<1>2. /\ call' \in [Calls -> Call]
      /\ \A d \in Calls : d # c => call'[d] = call[d]
      /\ call'[c].pc = "acceptance"
      /\ ~Walks(c)' /\ ~Holds(c)'
  BY <1>1, PcStep DEF SetVersion
<1>3. task' \in Task
  BY <1>1 DEF SetVersion, TypeOK, Task, Plans
<1>4. /\ approvals' \in Seq(Approved) /\ granted' = granted /\ granted \subseteq Plans
      /\ \A i \in DOMAIN approvals' : approvals'[i].hash \in granted'
      /\ ran' \subseteq granted'
      /\ row' = row /\ audit' = audit /\ started' = started
  BY <1>1 DEF SetVersion, db, TypeOK, Approved, IInv, HashesAreGranted, RanWasApproved
<1> QED
  BY <1>2, <1>3, <1>4, QuietStep

\* Start goes on to its first transition.
LEMMA WalkBegins ==
  ASSUME IInv, UNCHANGED council, NEW c \in Calls, StartAsIs(c) \/ FillAcceptance(c)
  PROVE  IInv'
<1>1. TypeOK /\ call[c] \in Call
  BY DEF IInv, TypeOK
<1>2. "ANALYZING" \in States \cup {None} /\ "read" \in PCs /\ "ANALYZING" \in Moves
  BY StatesAre DEF Moves, PCs
<1>3. /\ call' \in [Calls -> Call]
      /\ call'[c] = [call[c] EXCEPT !.pc = "read", !.next = "ANALYZING"]
      /\ \A d \in Calls : d # c => call'[d] = call[d]
  BY <1>1, <1>2, GotoIs DEF StartAsIs, FillAcceptance, GotoNext
<1>4. call'[c].pc = "read" /\ call'[c].next = "ANALYZING"
  BY <1>1, <1>3 DEF Call
<1>5. ~Walks(c)' /\ ~Holds(c)'
  BY <1>4 DEF Walks, Holds, At, Later
<1>6. task' \in Task
  <2>1. CASE StartAsIs(c)
    BY <1>1, <2>1 DEF StartAsIs, TypeOK, Task
  <2>2. CASE FillAcceptance(c)
    BY <1>1, <2>2 DEF FillAcceptance, TypeOK, Task, Plans
  <2> QED
    BY <2>1, <2>2
<1>7. /\ approvals' \in Seq(Approved) /\ granted' = granted /\ granted \subseteq Plans
      /\ \A i \in DOMAIN approvals' : approvals'[i].hash \in granted'
      /\ ran' \subseteq granted'
      /\ row' = row /\ audit' = audit /\ started' = started
  BY <1>1 DEF StartAsIs, FillAcceptance, db, TypeOK, Approved, IInv, HashesAreGranted,
              RanWasApproved
<1> QED
  BY <1>2, <1>3, <1>4, <1>5, <1>6, <1>7, QuietStep

LEMMA ApproveStep ==
  ASSUME IInv, UNCHANGED council, NEW c \in Calls, NEW h \in Plans, NEW n \in Versions,
         Approve(c, h, n)
  PROVE  IInv'
<1> DEFINE v == [call[c] EXCEPT !.pc = "invalidate", !.plan = h, !.read.version = n]
<1>1. TypeOK /\ call[c] \in Call /\ n \in Nat
  BY TaskServiceAssumption DEF IInv, TypeOK
<1>2. v \in Call /\ v.pc = "invalidate" /\ v.plan = h
  BY <1>1 DEF Call, PCs
<1>3. call' = [call EXCEPT ![c] = v]
  BY DEF Approve
<1> HIDE DEF v
<1>4. /\ call' \in [Calls -> Call]
      /\ call'[c] = v
      /\ \A d \in Calls : d # c => call'[d] = call[d]
  BY <1>1, <1>2, <1>3, CallUpdate
<1>5. granted' = granted \cup {h} /\ granted' \subseteq Plans
  BY <1>1 DEF Approve, Verifies, TypeOK
<1>6. ~Walks(c)'
  BY <1>2, <1>4 DEF Walks, At
<1>7. /\ approvals' \in Seq(Approved)
      /\ \A i \in DOMAIN approvals' : approvals'[i].hash \in granted'
      /\ ran' \subseteq granted'
      /\ row' = row /\ audit' = audit /\ started' = started
      /\ task' \in Task /\ task' = task
  BY <1>1, <1>5 DEF Approve, db, TypeOK, Approved, Task, IInv, HashesAreGranted, RanWasApproved
<1> QED
  BY <1>2, <1>4, <1>5, <1>6, <1>7, QuietStep

LEMMA InvalidateStep ==
  ASSUME IInv, UNCHANGED council, NEW c \in Calls, Invalidate(c)
  PROVE  IInv'
<1>1. TypeOK /\ approvals \in Seq(Approved) /\ call[c].plan \in granted
  BY DEF IInv, TypeOK, Approved, Invalidate, HashesAreGranted, Holds, At
<1>2. "save" \in PCs \ {"read", "write"}
  BY DEF PCs
<1>3. /\ call' \in [Calls -> Call]
      /\ \A d \in Calls : d # c => call'[d] = call[d]
      /\ call'[c].pc = "save" /\ call'[c].plan = call[c].plan
      /\ ~Walks(c)'
  BY <1>2, PcStep DEF Invalidate
<1>4. \A i \in DOMAIN approvals : [approvals[i] EXCEPT !.live = FALSE] \in Approved
  <2> SUFFICES ASSUME NEW i \in DOMAIN approvals
               PROVE  [approvals[i] EXCEPT !.live = FALSE] \in Approved
    OBVIOUS
  <2>1. approvals[i] \in Approved
    BY <1>1
  <2> QED
    BY <2>1 DEF Approved
<1>5. approvals' \in Seq(Approved) /\ DOMAIN approvals' = DOMAIN approvals
  <2>1. DOMAIN approvals = 1 .. Len(approvals) /\ Len(approvals) \in Nat
    BY <1>1
  <2> QED
    BY <2>1, <1>4 DEF Invalidate
<1>6. \A i \in DOMAIN approvals' : approvals'[i].hash \in granted
  <2> SUFFICES ASSUME NEW i \in DOMAIN approvals PROVE approvals'[i].hash \in granted
    BY <1>5
  <2>1. approvals[i] \in Approved /\ approvals'[i] = [approvals[i] EXCEPT !.live = FALSE]
    BY <1>1 DEF Invalidate
  <2>2. approvals'[i].hash = approvals[i].hash
    BY <2>1 DEF Approved
  <2> QED
    BY <2>2 DEF IInv, HashesAreGranted
<1>7. /\ granted' = granted /\ granted \subseteq Plans /\ ran' \subseteq granted'
      /\ row' = row /\ audit' = audit /\ started' = started
      /\ task' \in Task /\ task' = task
  BY <1>1 DEF Invalidate, TypeOK, Task, IInv, RanWasApproved
<1> QED
  BY <1>1, <1>3, <1>5, <1>6, <1>7, QuietStep

LEMMA SaveStep ==
  ASSUME IInv, UNCHANGED council, NEW c \in Calls, Save(c)
  PROVE  IInv'
<1> DEFINE a == [hash |-> call[c].plan, version |-> call[c].read.version, live |-> TRUE]
<1>1. /\ TypeOK /\ approvals \in Seq(Approved) /\ call[c] \in Call
      /\ call[c].plan \in granted /\ granted \subseteq Plans
  BY DEF IInv, TypeOK, Approved, Save, HashesAreGranted, Holds, At
<1>2. "done" \in PCs \ {"read", "write"}
  BY DEF PCs
<1>3. /\ call' \in [Calls -> Call]
      /\ \A d \in Calls : d # c => call'[d] = call[d]
      /\ call'[c].pc = "done"
      /\ ~Walks(c)' /\ ~Holds(c)'
  BY <1>2, PcStep DEF Save
<1>4. a \in Approved /\ a.hash \in granted
  BY <1>1 DEF Approved, Call
<1>5. approvals' = Append(approvals, a)
  BY DEF Save
<1> HIDE DEF a
<1>6. approvals' \in Seq(Approved)
  BY <1>1, <1>4, <1>5
<1>7. \A i \in DOMAIN approvals' : \/ approvals'[i] = a
                                   \/ i \in DOMAIN approvals /\ approvals'[i] = approvals[i]
  BY <1>1, <1>5
<1>8. \A i \in DOMAIN approvals' : approvals'[i].hash \in granted
  BY <1>4, <1>7 DEF IInv, HashesAreGranted
<1>9. /\ granted' = granted /\ ran' \subseteq granted'
      /\ row' = row /\ audit' = audit /\ started' = started
      /\ task' \in Task /\ task' = task
  BY <1>1 DEF Save, TypeOK, Task, IInv, RanWasApproved
<1> QED
  BY <1>1, <1>3, <1>6, <1>8, <1>9, QuietStep

LEMMA ApproveFailsStep ==
  ASSUME IInv, UNCHANGED council, NEW c \in Calls, ApproveFails(c)
  PROVE  IInv'
<1>1. "done" \in PCs \ {"read", "write"}
  BY DEF PCs
<1>2. /\ call' \in [Calls -> Call]
      /\ \A d \in Calls : d # c => call'[d] = call[d]
      /\ call'[c].pc = "done"
      /\ ~Walks(c)' /\ ~Holds(c)'
  BY <1>1, PcStep DEF ApproveFails
<1> QED
  BY <1>2, CallStep DEF ApproveFails

LEMMA ExecuteBegins ==
  ASSUME IInv, UNCHANGED council, NEW c \in Calls, Execute(c)
  PROVE  IInv'
<1>1. TypeOK /\ approvals \in Seq(Approved) /\ call[c] \in Call
  BY DEF IInv, TypeOK, Approved
<1>2. PICK i \in DOMAIN approvals : call' = [call EXCEPT ![c].pc = "mark", ![c].plan = approvals[i].hash]
  BY DEF Execute, Current
<1> DEFINE v == [call[c] EXCEPT !.pc = "mark", !.plan = approvals[i].hash]
<1>3. approvals[i].hash \in Plans /\ approvals[i].hash \in granted
  <2>1. approvals[i] \in Approved
    BY <1>1
  <2> QED
    BY <2>1 DEF Approved, IInv, HashesAreGranted
<1>4. v \in Call /\ v.pc = "mark" /\ v.plan \in granted
  BY <1>1, <1>3 DEF Call, PCs
<1>5. call' = [call EXCEPT ![c] = v]
  BY <1>2
<1> HIDE DEF v
<1>6. /\ call' \in [Calls -> Call]
      /\ call'[c] = v
      /\ \A d \in Calls : d # c => call'[d] = call[d]
  BY <1>1, <1>4, <1>5, CallUpdate
<1>7. ~Walks(c)'
  BY <1>4, <1>6 DEF Walks, At
<1> QED
  BY <1>4, <1>6, <1>7, CallStep DEF Execute

LEMMA MarkStep ==
  ASSUME IInv, UNCHANGED council, NEW c \in Calls, NEW pc \in {"mark", "verify", "final"},
         NEW s \in {"EXECUTING", "VERIFYING", "SUCCEEDED", "REPLANNING"},
         s = "EXECUTING" => pc = "mark", Mark(c, pc, s)
  PROVE  IInv'
<1>1. TypeOK /\ call[c] \in Call
  BY DEF IInv, TypeOK
<1>2. s \in States /\ s \in Moves /\ s \notin Later /\ "read" \in PCs
  BY StatesAre DEF Moves, Later, PCs
<1>3. /\ call' \in [Calls -> Call]
      /\ call'[c] = [call[c] EXCEPT !.pc = "read", !.next = s]
      /\ \A d \in Calls : d # c => call'[d] = call[d]
  BY <1>1, <1>2, GotoIs DEF Mark, GotoNext
<1>4. call'[c].pc = "read" /\ call'[c].next = s /\ call'[c].plan = call[c].plan
  BY <1>1, <1>3 DEF Call
<1>5. ~Walks(c)'
  BY <1>2, <1>4 DEF Walks, At
<1>6. Holds(c)' => call'[c].plan \in granted'
  BY <1>4 DEF Holds, At, Mark, IInv, HashesAreGranted
<1>7. task' \in Task /\ task'.plan = task.plan
  BY <1>1, <1>2 DEF Mark, TypeOK, Task
<1>8. /\ approvals' \in Seq(Approved) /\ granted' = granted /\ granted \subseteq Plans
      /\ \A i \in DOMAIN approvals' : approvals'[i].hash \in granted'
      /\ ran' \subseteq granted'
      /\ row' = row /\ audit' = audit /\ started' = started
  BY <1>1 DEF Mark, db, TypeOK, Approved, IInv, HashesAreGranted, RanWasApproved
<1> QED
  BY <1>2, <1>3, <1>4, <1>5, <1>6, <1>7, <1>8, QuietStep

LEMMA SendStep ==
  ASSUME IInv, UNCHANGED council, NEW c \in Calls, Send(c)
  PROVE  IInv'
<1>1. TypeOK /\ call[c] \in Call /\ call[c].plan \in granted
  BY DEF IInv, TypeOK, Send, HashesAreGranted, Holds, At
<1>2. PICK b \in BOOLEAN : call' = [call EXCEPT ![c].pc = "verify", ![c].passed = b]
  BY DEF Send
<1> DEFINE v == [call[c] EXCEPT !.pc = "verify", !.passed = b]
<1>3. v \in Call /\ v.pc = "verify"
  BY <1>1 DEF Call, PCs
<1>4. call' = [call EXCEPT ![c] = v]
  BY <1>2
<1> HIDE DEF v
<1>5. /\ call' \in [Calls -> Call]
      /\ call'[c] = v
      /\ \A d \in Calls : d # c => call'[d] = call[d]
  BY <1>1, <1>3, <1>4, CallUpdate
<1>6. ~Walks(c)' /\ ~Holds(c)'
  BY <1>3, <1>5 DEF Walks, Holds, At
<1>7. ran' \subseteq granted
  BY <1>1 DEF Send, RunnerAccepts, IInv, RanWasApproved
<1>8. /\ approvals' \in Seq(Approved) /\ granted' = granted /\ granted \subseteq Plans
      /\ \A i \in DOMAIN approvals' : approvals'[i].hash \in granted'
      /\ row' = row /\ audit' = audit /\ started' = started
      /\ task' \in Task /\ task' = task
  BY <1>1 DEF Send, db, TypeOK, Approved, Task, IInv, HashesAreGranted
<1> QED
  BY <1>3, <1>5, <1>6, <1>7, <1>8, QuietStep

LEMMA SendFailsStep ==
  ASSUME IInv, UNCHANGED council, NEW c \in Calls, SendFails(c)
  PROVE  IInv'
<1>1. "done" \in PCs \ {"read", "write"}
  BY DEF PCs
<1>2. /\ call' \in [Calls -> Call]
      /\ \A d \in Calls : d # c => call'[d] = call[d]
      /\ call'[c].pc = "done"
      /\ ~Walks(c)' /\ ~Holds(c)'
  BY <1>1, PcStep DEF SendFails
<1> QED
  BY <1>2, CallStep DEF SendFails

LEMMA ExecuteSteps ==
  ASSUME IInv, UNCHANGED council, NEW c \in Calls, ExecuteStep(c)
  PROVE  IInv'
<1>1. CASE Mark(c, "mark", "EXECUTING")
  BY <1>1, MarkStep
<1>2. CASE Send(c)
  BY <1>2, SendStep
<1>3. CASE SendFails(c)
  BY <1>3, SendFailsStep
<1>4. CASE Mark(c, "verify", "VERIFYING")
  BY <1>4, MarkStep
<1>5. CASE Mark(c, "final", IF call[c].passed THEN "SUCCEEDED" ELSE "REPLANNING")
  <2>1. CASE call[c].passed
    BY <1>5, <2>1, MarkStep
  <2>2. CASE ~call[c].passed
    BY <1>5, <2>2, MarkStep
  <2> QED
    BY <2>1, <2>2
<1> QED
  BY <1>1, <1>2, <1>3, <1>4, <1>5 DEF ExecuteStep

-----------------------------------------------------------------------------
(* A commit                                                                  *)

LEMMA CommitStep ==
  ASSUME IInv, UNCHANGED council, NEW c \in Calls, TransitionWrite(c), Commits(c)
  PROVE  IInv'
<1> DEFINE next == call[c].next
<1> USE DEF IInv
<1>1. /\ next \in Moves /\ next \in States
      /\ row.version = call[c].read.version /\ row.state = call[c].read.state
      /\ <<row.state, next>> \in Legal
      /\ row.version \in Nat /\ row.state \in States /\ audit \in Seq(States)
  BY StatesAre DEF TransitionWrite, Commits, CallsOK, ReadIsPast, TypeOK, At
<1>2. /\ row' = [state |-> next, version |-> row.version + 1]
      /\ audit' = Append(audit, next)
      /\ started' = IF next = "AWAITING_APPROVAL" THEN started \cup {c} ELSE started
      /\ UNCHANGED <<approvals, ran, granted>>
  BY <1>1 DEF TransitionWrite
<1>3. /\ call' \in [Calls -> Call]
      /\ \A d \in Calls : d # c => call'[d] = call[d]
      /\ call'[c].plan = call[c].plan
      /\ \/ call'[c].pc \in {"final", "done"}
         \/ call'[c].pc = "send" /\ next = "EXECUTING"
         \/ /\ call'[c].pc = "read" /\ call'[c].next \in Later
            /\ Before(call'[c].next) = next
  BY AfterIs DEF TransitionWrite
<1>4. task' \in Task /\ task'.plan = task.plan
  BY <1>1 DEF TransitionWrite, TypeOK, Task
<1>5. At(c, "write") /\ next # "DRAFT"
  BY <1>1 DEF TransitionWrite, Moves, Later
<1>6. TypeOK'
  BY <1>1, <1>2, <1>3, <1>4 DEF TypeOK, Task
<1>7. CallsOK'
  BY <1>3, <1>4 DEF CallsOK, At, Moves
<1>8. ReadIsPast'
  <2> SUFFICES ASSUME NEW d \in Calls, At(d, "write")'
               PROVE  call'[d].read.version <= row.version
    BY <1>1, <1>2, <1>3 DEF ReadIsPast, At, TypeOK, Call
  <2>1. d # c /\ At(d, "write") /\ call'[d] = call[d]
    BY <1>3 DEF At
  <2> QED
    BY <2>1 DEF ReadIsPast
<1> HIDE DEF next
<1>9. HistoryIsLegal'
  <2>1. Len(audit) = row.version /\ audit[Len(audit)] = row.state
    BY DEF HistoryIsLegal
  <2>2. Len(audit') = Len(audit) + 1 /\ audit'[Len(audit')] = next
    BY <1>1, <1>2
  <2>3. \A i \in 1 .. Len(audit) : audit'[i] = audit[i]
    BY <1>1, <1>2
  <2>4. ASSUME NEW i \in 1 .. Len(audit') - 1
        PROVE  <<audit'[i], audit'[i + 1]>> \in Legal
    <3>1. CASE i = Len(audit)
      <4>1. audit'[i] = row.state
        BY <1>1, <2>1, <2>3, <3>1
      <4>2. audit'[i + 1] = next
        BY <2>2, <3>1
      <4> QED
        BY <1>1, <4>1, <4>2 DEF next
    <3>2. CASE i < Len(audit)
      <4>1. i \in 1 .. Len(audit) - 1 /\ i + 1 \in 1 .. Len(audit)
        BY <1>1, <2>2, <3>2
      <4> QED
        BY <2>3, <4>1 DEF HistoryIsLegal
    <3> QED
      BY <1>1, <2>2, <3>1, <3>2
  <2> QED
    BY <1>2, <2>1, <2>2, <2>4 DEF HistoryIsLegal
\* Who moves the record has the way for itself.
<1>10. /\ next = "ANALYZING" => row.state = "DRAFT"
       /\ next \in Later => Walks(c) /\ row.state = Before(next) /\ started = {}
       /\ next \in {"EXECUTING", "VERIFYING", "SUCCEEDED", "REPLANNING"} =>
            Rank(row.state) < Rank(next)
  BY <1>1, <1>5, OnlyFrom DEF Walks, OneWalks, next
<1>11. Rank(row.state) < Rank(next)
  BY <1>1, <1>10 DEF Rank, Before, Moves, Later
<1>12. Ranked'
  <2>1. Len(audit) = row.version /\ audit[Len(audit)] = row.state
    BY DEF HistoryIsLegal
  <2>2. DOMAIN audit = 1 .. Len(audit) /\ DOMAIN audit' = 1 .. Len(audit) + 1
        /\ audit'[Len(audit) + 1] = next /\ Len(audit) \in Nat
    BY <1>1, <1>2
  <2>3. \A i \in 1 .. Len(audit) : audit'[i] = audit[i]
    BY <1>1, <1>2
  <2>4. ASSUME NEW i \in DOMAIN audit', NEW j \in DOMAIN audit', i < j
        PROVE  Rank(audit'[i]) < Rank(audit'[j])
    <3>1. CASE j = Len(audit) + 1
      <4>1. i \in 1 .. Len(audit) /\ Rank(audit'[j]) = Rank(next)
        BY <2>2, <2>4, <3>1
      <4>2. CASE i = Len(audit)
        BY <1>11, <2>1, <2>3, <4>1, <4>2
      <4>3. CASE i < Len(audit)
        <5>1. Rank(audit[i]) < Rank(audit[Len(audit)])
          BY <2>2, <4>1, <4>3 DEF Ranked
        <5>2. Rank(audit[i]) \in Nat /\ Rank(row.state) \in Nat /\ Rank(next) \in Nat
          BY DEF Rank
        <5> QED
          BY <1>11, <2>1, <2>3, <4>1, <5>1, <5>2
      <4> QED
        BY <2>2, <4>1, <4>2, <4>3
    <3>2. CASE j <= Len(audit)
      <4>1. i \in DOMAIN audit /\ j \in DOMAIN audit
        BY <2>2, <2>4, <3>2
      <4> QED
        BY <2>2, <2>3, <2>4, <4>1 DEF Ranked
    <3> QED
      BY <2>2, <3>1, <3>2
  <2> QED
    BY <2>4 DEF Ranked
<1>13. OneWalks'
  <2>1. ASSUME NEW d \in Calls, Walks(d)' PROVE d = c
    <3> SUFFICES ASSUME d # c PROVE FALSE
      OBVIOUS
    <3>1. Walks(d)
      BY <1>3, <2>1 DEF Walks, At
    <3>2. row.state = Before(call[d].next) /\ call[d].next \in Later /\ ~Walks(c)
      BY <3>1 DEF OneWalks, Walks
    <3>3. next \notin Later
      BY <1>10, <3>2
    <3>4. Rank(row.state) >= 2 /\ Rank(row.state) <= 6
      BY <3>2 DEF Before, Rank, Later
    <3>5. next \in {"EXECUTING", "VERIFYING", "SUCCEEDED", "REPLANNING"}
      BY <1>1, <1>10, <3>3, <3>4 DEF Moves, Rank
    <3> QED
      BY <1>1, <3>2, <3>5, LegalIs DEF Before, Later
  <2>2. ASSUME NEW d \in Calls, Walks(d)'
        PROVE  started' = {} /\ row'.state = Before(call'[d].next)
    <3>1. d = c /\ call'[c].next \in Later /\ Before(call'[c].next) = next
      BY <1>3, <2>1, <2>2 DEF Walks, At
    <3>2. next \in Later \cup {"ANALYZING"} /\ next # "AWAITING_APPROVAL"
      BY <3>1 DEF Before, Later
    <3>3. started = {}
      BY <1>10, <3>2 DEF OneWalks, Rank
    <3> QED
      BY <1>2, <3>1, <3>2, <3>3
  <2>3. started' # {} => Rank(row'.state) >= 7
    <3>1. Rank(row.state) \in Nat /\ Rank(next) \in Nat
      BY DEF Rank
    <3> QED
      BY <1>2, <1>11, <3>1 DEF OneWalks, Rank
  <2>4. Cardinality(started') <= 1
    <3>1. CASE next = "AWAITING_APPROVAL"
      <4>1. started' = {c}
        BY <1>2, <1>10, <3>1 DEF Later
      <4>2. Cardinality({c}) = 1
        BY FS_Singleton
      <4> QED
        BY <4>1, <4>2
    <3>2. CASE next # "AWAITING_APPROVAL"
      BY <1>2, <3>2 DEF OneWalks
    <3> QED
      BY <3>1, <3>2
  <2> QED
    BY <2>1, <2>2, <2>3, <2>4 DEF OneWalks
<1>14. HashesAreGranted' /\ RanWasApproved'
  <2>1. Holds(c)' => Holds(c)
    BY <1>3, <1>5 DEF Holds, At, Later, next
  <2>2. \A d \in Calls : d # c => (Holds(d)' <=> Holds(d))
    BY <1>3 DEF Holds, At
  <2> QED
    BY <1>2, <1>3, <2>1, <2>2 DEF HashesAreGranted, RanWasApproved
<1> QED
  BY <1>6, <1>7, <1>8, <1>9, <1>12, <1>13, <1>14

\* The record has moved, or the transition is illegal: the call ends, or
\* Execute goes on without it.
LEMMA RollbackStep ==
  ASSUME IInv, UNCHANGED council, NEW c \in Calls, TransitionWrite(c), ~Commits(c)
  PROVE  IInv'
<1>1. /\ call' \in [Calls -> Call]
      /\ \A d \in Calls : d # c => call'[d] = call[d]
      /\ call'[c].plan = call[c].plan
      /\ \/ call'[c].pc \in {"final", "done"}
         \/ call'[c].pc = "send" /\ call[c].next = "EXECUTING"
  <2>1. After(c, FALSE)
    <3>1. Commits(c) = FALSE
      BY DEF Commits
    <3> QED
      BY <3>1 DEF TransitionWrite
  <2> QED
    BY <2>1, AfterIs DEF TransitionWrite, IInv
<1>2. Holds(c)' => call'[c].plan \in granted
  BY <1>1 DEF Holds, At, TransitionWrite, IInv, HashesAreGranted
<1> QED
  BY <1>1, <1>2, CallStep DEF TransitionWrite, Walks, At, db

LEMMA NextStep ==
  ASSUME IInv, [Next]_vars
  PROVE  IInv'
<1>1. ASSUME UNCHANGED council, NEW c \in Calls, TransitionRead(c) PROVE IInv'
  BY <1>1, TransitionReadStep
<1>2. ASSUME UNCHANGED council, NEW c \in Calls, TransitionWrite(c) PROVE IInv'
  BY <1>2, CommitStep, RollbackStep
<1>3. ASSUME UNCHANGED council, NEW c \in Calls, TransitionFails(c) PROVE IInv'
  BY <1>3, TransitionFailsStep
<1>4. ASSUME UNCHANGED council, NEW c \in Calls, NEW p \in Drafts, Deliberated(c, p)
      PROVE  IInv'
  BY <1>4, DeliberatedStep
<1>5. ASSUME UNCHANGED council, NEW c \in Calls, SetVersion(c) \/ StartAsIs(c) \/ FillAcceptance(c)
      PROVE  IInv'
  BY <1>5, SetVersionStep, WalkBegins
<1>6. ASSUME UNCHANGED council, NEW c \in Calls, NEW h \in Plans, NEW v \in Versions, Approve(c, h, v)
      PROVE  IInv'
  BY <1>6, ApproveStep
<1>7. ASSUME UNCHANGED council, NEW c \in Calls, Invalidate(c) \/ Save(c) \/ ApproveFails(c)
      PROVE  IInv'
  BY <1>7, InvalidateStep, SaveStep, ApproveFailsStep
<1>8. ASSUME UNCHANGED council, NEW c \in Calls, Execute(c) \/ ExecuteStep(c)
      PROVE  IInv'
  BY <1>8, ExecuteBegins, ExecuteSteps
<1>9. CASE UNCHANGED vars
  <2> USE <1>9 DEF vars, db, IInv
  <2>1. TypeOK' /\ CallsOK' /\ ReadIsPast'
    BY DEF TypeOK, CallsOK, ReadIsPast, At
  <2>2. HistoryIsLegal' /\ Ranked' /\ OneWalks'
    BY DEF HistoryIsLegal, Ranked, OneWalks, Walks, At
  <2>3. HashesAreGranted' /\ RanWasApproved'
    BY DEF HashesAreGranted, RanWasApproved, Holds, At
  <2> QED
    BY <2>1, <2>2, <2>3
<1> QED
  BY <1>1, <1>2, <1>3, <1>4, <1>5, <1>6, <1>7, <1>8, <1>9 DEF Next

-----------------------------------------------------------------------------
(* The theorems                                                              *)

LEMMA Invariant == Spec => []IInv
<1>1. Init => IInv
  BY InitHolds
<1>2. IInv /\ [Next]_vars => IInv'
  BY NextStep
<1> QED
  BY <1>1, <1>2, PTL DEF Spec

\* The task, its record, the audit log, the approvals and the calls keep their
\* types, and every state of the record is one of the state machine.
THEOREM TypeCorrect == Spec => []TypeOK
<1>1. IInv => TypeOK
  BY DEF IInv
<1> QED
  BY <1>1, Invariant, PTL

\* RunRepository.Transition keeps the audit log a legal history of the record,
\* however many calls read it before one of them writes.
THEOREM HistoryStaysLegal == Spec => []HistoryIsLegal
<1>1. IInv => HistoryIsLegal
  BY DEF IInv
<1> QED
  BY <1>1, Invariant, PTL

\* Of any number of calls of Start one gets through, and no state comes back.
THEOREM OneStart == Spec => []StartedOnce
<1>1. ASSUME IInv PROVE StartedOnce
  <2>1. Cardinality(started) <= 1
    BY <1>1 DEF IInv, OneWalks
  <2>2. ASSUME NEW i \in DOMAIN audit, NEW j \in DOMAIN audit, audit[i] = audit[j]
        PROVE  i = j
    <3>1. i \in Int /\ j \in Int
      BY <1>1 DEF IInv, TypeOK
    <3>2. Rank(audit[i]) \in Nat
      BY DEF Rank
    <3>3. ~(i < j) /\ ~(j < i)
      BY <1>1, <2>2, <3>2 DEF IInv, Ranked
    <3> QED
      BY <3>1, <3>3
  <2> QED
    BY <2>1, <2>2 DEF StartedOnce
<1> QED
  BY <1>1, Invariant, PTL

\* Execute has the Runner run nothing but plans whose hash was approved while
\* they were the task's.
THEOREM OnlyApprovedRuns == Spec => []RanWasApproved
<1>1. IInv => RanWasApproved
  BY DEF IInv
<1> QED
  BY <1>1, Invariant, PTL

-----------------------------------------------------------------------------
(* The service implements RunLifecycle: of its steps a commit moves the run, *)
(* Approve grants, Send runs, and the others are not seen there.             *)

\* The task in memory waits for its approval only when a Start brought it there:
\* its state is written with the commit.
Brought == task.state = "AWAITING_APPROVAL" => started # {}

LEMMA BroughtNext ==
  ASSUME IInv, Brought, [Next]_vars
  PROVE  Brought'
<1>t. task \in [state : States, plan : Plans, version : Versions]
  BY DEF IInv, TypeOK
<1>k. ASSUME started \subseteq started',
             task'.state = task.state \/ task'.state # "AWAITING_APPROVAL"
      PROVE  Brought'
  BY <1>k DEF Brought
<1>1. ASSUME NEW c \in Calls, TransitionWrite(c)
      PROVE  Brought'
  <2>1. CASE Commits(c) /\ call[c].next = "AWAITING_APPROVAL"
    BY <1>1, <2>1 DEF TransitionWrite, Brought
  <2>2. CASE ~Commits(c) \/ call[c].next # "AWAITING_APPROVAL"
    BY <1>1, <2>2, <1>t, <1>k DEF TransitionWrite
  <2> QED
    BY <2>1, <2>2
<1>2. ASSUME NEW c \in Calls,
             \/ TransitionRead(c) \/ TransitionFails(c)
             \/ StartAsIs(c) \/ (\E p \in Drafts : Deliberated(c, p))
             \/ SetVersion(c) \/ FillAcceptance(c)
             \/ (\E h \in Plans, v \in Versions : Approve(c, h, v))
             \/ Invalidate(c) \/ Save(c) \/ ApproveFails(c)
             \/ Execute(c) \/ Send(c) \/ SendFails(c)
      PROVE  Brought'
  BY <1>2, <1>t, <1>k DEF TransitionRead, TransitionFails, StartAsIs, Deliberated, SetVersion,
         FillAcceptance, Approve, Invalidate, Save, ApproveFails, Execute, Send, SendFails
<1>3. ASSUME NEW c \in Calls, NEW pc, NEW s \in States \ {"AWAITING_APPROVAL"}, Mark(c, pc, s)
      PROVE  Brought'
  BY <1>3, <1>t, <1>k DEF Mark
<1>4. ASSUME NEW c \in Calls, ExecuteStep(c)
      PROVE  Brought'
  <2>1. {"EXECUTING", "VERIFYING", "SUCCEEDED", "REPLANNING"} \subseteq
          States \ {"AWAITING_APPROVAL"}
    BY StatesAre DEF Moves
  <2>2. (IF call[c].passed THEN "SUCCEEDED" ELSE "REPLANNING")
          \in {"SUCCEEDED", "REPLANNING"}
    OBVIOUS
  <2> QED
    BY <1>2, <1>3, <1>4, <2>1, <2>2 DEF ExecuteStep
<1>5. CASE UNCHANGED vars
  BY <1>5, <1>k DEF vars
<1> QED
  BY <1>1, <1>2, <1>4, <1>5 DEF Next

\* A transition that commits is one move of the run: legal from the last state,
\* to a state it never had, and to its approval once.
LEMMA LifecycleCommit ==
  ASSUME IInv, UNCHANGED council, NEW c \in Calls, TransitionWrite(c), Commits(c)
  PROVE  Lifecycle!Next
<1> DEFINE next == call[c].next
<1>1. /\ next \in Moves
      /\ row.state = call[c].read.state
      /\ <<row.state, next>> \in Legal
      /\ audit \in Seq(States) /\ next \in States
  BY StatesAre DEF IInv, TransitionWrite, Commits, CallsOK, ReadIsPast, TypeOK, At
<1>2. /\ audit' = Append(audit, next)
      /\ started' = IF next = "AWAITING_APPROVAL" THEN started \cup {c} ELSE started
      /\ UNCHANGED <<granted, ran>>
  BY DEF TransitionWrite
<1>3. audit[Len(audit)] = row.state
  BY DEF IInv, HistoryIsLegal
<1>4. ASSUME NEW i \in DOMAIN audit
      PROVE  audit[i] # next
  <2>1. Ranked'
    BY CommitStep DEF IInv
  <2>2. /\ i \in DOMAIN audit' /\ Len(audit) + 1 \in DOMAIN audit' /\ i < Len(audit) + 1
        /\ audit'[i] = audit[i] /\ audit'[Len(audit) + 1] = next
    BY <1>1, <1>2
  <2>3. Rank(audit[i]) < Rank(next)
    BY <2>1, <2>2 DEF Ranked
  <2>4. Rank(next) \in Nat
    BY DEF Rank
  <2> QED
    BY <2>3, <2>4
<1>5. Lifecycle!Advance(next)
  BY <1>1, <1>2, <1>3, <1>4 DEF Lifecycle!Advance
<1>6. CASE next = "AWAITING_APPROVAL"
  <2>1. <<row.state, next>>[2] = next
    OBVIOUS
  <2>2. started = {}
    <3>1. Walks(c)
      BY <1>6 DEF TransitionWrite, Walks, Later
    <3> QED
      BY <3>1 DEF IInv, OneWalks
  <2>3. Lifecycle!Start(c)
    BY <1>2, <1>5, <1>6, <2>2 DEF Lifecycle!Start
  <2> QED
    BY <2>3 DEF Lifecycle!Next
<1>7. CASE next # "AWAITING_APPROVAL"
  <2>1. started' = started
    BY <1>2, <1>7
  <2>2. Lifecycle!Move(next)
    BY <1>2, <1>5, <1>7, <2>1 DEF Lifecycle!Move
  <2>3. PICK e \in Legal : e[2] = next
    BY <1>1
  <2> QED
    BY <2>2, <2>3 DEF Lifecycle!Next
<1> QED
  BY <1>6, <1>7

LEMMA LifecycleNext ==
  ASSUME IInv, Brought, [Next]_vars
  PROVE  [Lifecycle!Next]_(Lifecycle!vars)
<1>s. ASSUME UNCHANGED <<audit, started, granted, ran>>
      PROVE  [Lifecycle!Next]_(Lifecycle!vars)
  BY <1>s DEF Lifecycle!vars
<1>1. ASSUME UNCHANGED council, NEW c \in Calls, TransitionWrite(c)
      PROVE  [Lifecycle!Next]_(Lifecycle!vars)
  <2>1. CASE Commits(c)
    BY <1>1, <2>1, LifecycleCommit
  <2>2. CASE ~Commits(c)
    BY <1>1, <2>2, <1>s DEF TransitionWrite
  <2> QED
    BY <2>1, <2>2
<1>2. ASSUME NEW c \in Calls, NEW h \in Plans, NEW v \in Versions, Approve(c, h, v)
      PROVE  [Lifecycle!Next]_(Lifecycle!vars)
  <2>1. started # {} /\ granted' = granted \cup {h}
    BY <1>2 DEF Approve, Verifies, Brought
  <2>2. Lifecycle!Grant(h)
    BY <1>2, <2>1 DEF Approve, db, Lifecycle!Grant
  <2> QED
    BY <2>2 DEF Lifecycle!Next
<1>3. ASSUME NEW c \in Calls, Send(c)
      PROVE  [Lifecycle!Next]_(Lifecycle!vars)
  <2>1. task.plan = call[c].plan /\ call[c].plan \in granted
    BY <1>3 DEF Send, RunnerAccepts, IInv, HashesAreGranted, Holds, At
  <2>2. task.plan \in Plans
    BY <2>1 DEF IInv, TypeOK
  <2>3. Lifecycle!Run(task.plan)
    BY <1>3, <2>1 DEF Send, db, Lifecycle!Run
  <2> QED
    BY <2>2, <2>3 DEF Lifecycle!Next
<1>4. ASSUME NEW c \in Calls,
             \/ TransitionRead(c) \/ TransitionFails(c)
             \/ StartAsIs(c) \/ (\E p \in Drafts : Deliberated(c, p))
             \/ SetVersion(c) \/ FillAcceptance(c)
             \/ Invalidate(c) \/ Save(c) \/ ApproveFails(c)
             \/ Execute(c) \/ SendFails(c)
      PROVE  [Lifecycle!Next]_(Lifecycle!vars)
  BY <1>4, <1>s DEF TransitionRead, TransitionFails, StartAsIs, Deliberated, SetVersion,
         FillAcceptance, Invalidate, Save, ApproveFails, Execute, SendFails, db
<1>5. ASSUME NEW c \in Calls, NEW pc, NEW s, Mark(c, pc, s)
      PROVE  [Lifecycle!Next]_(Lifecycle!vars)
  BY <1>5, <1>s DEF Mark, db
<1>6. CASE UNCHANGED vars
  BY <1>6, <1>s DEF vars, db
<1> QED
  BY <1>1, <1>2, <1>3, <1>4, <1>5, <1>6 DEF Next, ExecuteStep

\* However the calls interleave, and whichever of their statements fail, the run
\* they share has the life that RunLifecycle states.
THEOREM ServiceImplementsLifecycle == Spec => ImplementsLifecycle
<1>1. Init => Brought /\ Lifecycle!Init
  BY DEF Init, Created, Brought, Lifecycle!Init
<1>2. IInv /\ Brought /\ [Next]_vars => Brought' /\ [Lifecycle!Next]_(Lifecycle!vars)
  BY BroughtNext, LifecycleNext
<1> QED
  BY <1>1, <1>2, Invariant, PTL DEF Spec, ImplementsLifecycle, Lifecycle!Spec
=============================================================================
