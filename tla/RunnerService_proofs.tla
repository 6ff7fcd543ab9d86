------------------------ MODULE RunnerService_proofs ------------------------
(***************************************************************************)
(* Proofs about RunnerService for any calls, requests, files and plans.    *)
(***************************************************************************)
EXTENDS RunnerService, TLAPS

-----------------------------------------------------------------------------
(* One step of one call leaves the other calls as they are.                  *)

LEMMA OthersStay ==
  ASSUME TypeOK, NEW c \in Calls, Step(c)
  PROVE  \A d \in Calls : d # c => call'[d] = call[d]
BY DEF TypeOK, Step, BeginClaims, BeginAborts, BeginFindsResult, Deny, Accept, Read,
       ReadFails, Write, WriteFails, CommandsSucceed, CommandFails, Restore, Complete,
       End, Goto, FailAndRestore

LEMMA SavedType == TypeOK => \A r \in Requests : Saved(r) \in Results \cup {None}
BY DEF TypeOK, Saved

-----------------------------------------------------------------------------
(* Types, and where a call is in its plan.                                   *)

Base == TypeOK /\ CursorOK

LEMMA BaseInit == Init => Base
BY DEF Init, Base, TypeOK, CursorOK, Idle, Call, PCs, Entries

LEMMA PlanPath ==
  ASSUME TypeOK, NEW c \in Calls, call[c].pc # "idle"
  PROVE  /\ Req(c) \in Requests
         /\ Size(c) \in Nat
         /\ \A i \in 1 .. Size(c) : Path(c, i) \in Paths
<1>1. Req(c) \in Requests
  BY DEF TypeOK, Req
<1>2. Patches[Req(c)] \in Seq(Paths)
  BY <1>1, RunnerAssumption
<1>3. QED
  BY <1>1, <1>2 DEF Size, Path

LEMMA CallUpdate ==
  ASSUME TypeOK, NEW c \in Calls, NEW v \in Call, call' = [call EXCEPT ![c] = v]
  PROVE  call'[c] = v /\ call' \in [Calls -> Call]
BY DEF TypeOK

LEMMA BaseStep ==
  ASSUME Base, NEW c \in Calls, Step(c)
  PROVE  Base'
<1> USE DEF Base
<1>o. \A d \in Calls : d # c => call'[d] = call[d]
  BY OthersStay
<1>s. \A r \in Requests : Saved(r) \in Results \cup {None}
  BY SavedType
<1>p. call[c].pc # "idle"
  BY DEF Step, BeginClaims, BeginAborts, BeginFindsResult, Deny, Accept, Read,
         ReadFails, Write, WriteFails, CommandsSucceed, CommandFails, Restore, Complete
<1>q. /\ Req(c) \in Requests
      /\ Size(c) \in Nat
      /\ \A i \in 1 .. Size(c) : Path(c, i) \in Paths
  BY <1>p, PlanPath
<1>c. call[c] \in Call /\ call \in [Calls -> Call]
  BY DEF TypeOK
\* It is enough to look at the call that moves.
<1>t. ASSUME done' \in [Requests -> Results \cup {None}],
             running' \subseteq Requests,
             rec' \in [Requests -> Results \cup {None, "running"}],
             files' \in [Paths -> SUBSET Entries],
             claimed' \subseteq Requests, started' \subseteq Requests,
             answered' \subseteq Requests, alone' \subseteq Calls,
             call' \in [Calls -> Call],
             call'[c].pc # "idle" => call'[c].req = Req(c),
             LET pc == call'[c].pc
             IN  /\ pc \in {"read", "write", "restore"} => call'[c].next \in 1 .. Size(c)
                 /\ pc \in {"begin", "verify"} => call'[c].snapshots = <<>>
                 /\ pc = "read" => Len(call'[c].snapshots) = call'[c].next - 1
                 /\ pc \in {"write", "commands", "restore"} => Len(call'[c].snapshots) = Size(c)
                 /\ pc = "commands" => call'[c].next = Size(c) + 1
                 /\ pc \in {"restore", "complete"} => call'[c].result # None
      PROVE  Base'
  <2>1. TypeOK'
    BY <1>t, <1>q, <1>o DEF TypeOK
  <2>2. CursorOK'
    BY <1>t, <1>q, <1>o DEF CursorOK, Size, Req
  <2>3. QED
    BY <2>1, <2>2
<1>1. CASE BeginClaims(c)
  <2>1. call' = [call EXCEPT ![c] = [call[c] EXCEPT !.pc = "verify", !.owner = TRUE]]
    BY <1>1 DEF BeginClaims
  <2>2. call'[c] = [call[c] EXCEPT !.pc = "verify", !.owner = TRUE] /\ call' \in [Calls -> Call]
    <3> DEFINE v == [call[c] EXCEPT !.pc = "verify", !.owner = TRUE]
    <3>1. v \in Call
      BY <1>c DEF Call, PCs, Results
    <3>2. call' = [call EXCEPT ![c] = v]
      BY <2>1
    <3>3. QED
      BY <3>1, <3>2, CallUpdate
  <2>3. /\ call'[c].pc = "verify"
        /\ call'[c].snapshots = call[c].snapshots
        /\ call'[c].req = Req(c)
    BY <2>2, <1>c DEF Call, Req
  <2>4. call[c].snapshots = <<>>
    BY <1>1 DEF BeginClaims, CursorOK
  <2>5. /\ rec' \in [Requests -> Results \cup {None, "running"}]
        /\ running' \subseteq Requests /\ claimed' \subseteq Requests
    BY <1>1, <1>q DEF BeginClaims, TypeOK
  <2>6. UNCHANGED <<done, files, started, answered, alone>>
    BY <1>1 DEF BeginClaims
  <2>7. QED
    BY <2>2, <2>3, <2>4, <2>5, <2>6, <1>t DEF TypeOK
<1>i. Idle \in Call /\ Idle.pc = "idle"
  BY DEF Idle, Call, PCs
<1>2. CASE BeginAborts(c)
  <2>1. call'[c] = Idle /\ call' \in [Calls -> Call]
    BY <1>2, <1>i, CallUpdate DEF BeginAborts, End
  <2>2. UNCHANGED <<done, running, rec, files, claimed, started, answered, alone>>
    BY <1>2 DEF BeginAborts, history
  <2>3. QED
    BY <2>1, <2>2, <1>i, <1>t DEF TypeOK
<1>3. CASE BeginFindsResult(c)
  <2>1. call' = [call EXCEPT ![c] = [call[c] EXCEPT !.pc = "verify"]]
    BY <1>3 DEF BeginFindsResult, Goto
  <2>2. call'[c] = [call[c] EXCEPT !.pc = "verify"] /\ call' \in [Calls -> Call]
    <3> DEFINE v == [call[c] EXCEPT !.pc = "verify"]
    <3>1. v \in Call
      BY <1>c DEF Call, PCs
    <3>2. call' = [call EXCEPT ![c] = v]
      BY <2>1
    <3>3. QED
      BY <3>1, <3>2, CallUpdate
  <2>3. /\ call'[c].pc = "verify"
        /\ call'[c].snapshots = call[c].snapshots
        /\ call'[c].req = Req(c)
    BY <2>2, <1>c DEF Call, Req
  <2>4. call[c].snapshots = <<>>
    BY <1>3 DEF BeginFindsResult, CursorOK
  <2>5. done' \in [Requests -> Results \cup {None}]
    BY <1>3, <1>q, <1>s DEF BeginFindsResult, TypeOK
  <2>6. UNCHANGED <<running, rec, files, claimed, started, answered, alone>>
    BY <1>3 DEF BeginFindsResult, history
  <2>7. QED
    BY <2>2, <2>3, <2>4, <2>5, <2>6, <1>t DEF TypeOK
<1>4. CASE Deny(c)
  <2>1. call'[c] = Idle /\ call' \in [Calls -> Call]
    BY <1>4, <1>i, CallUpdate DEF Deny, End
  <2>2. running' \subseteq Requests
    BY <1>4 DEF Deny, Released, TypeOK
  <2>3. UNCHANGED <<done, rec, files, claimed, started, answered, alone>>
    BY <1>4 DEF Deny, history
  <2>4. QED
    BY <2>1, <2>2, <2>3, <1>i, <1>t DEF TypeOK
<1>5. CASE Accept(c)
  <2>1. call' = [call EXCEPT ![c] = [call[c] EXCEPT
                   !.pc = IF Size(c) > 0 THEN "read" ELSE "commands", !.next = 1]]
    BY <1>5 DEF Accept
  <2>2. call'[c] = [call[c] EXCEPT !.pc = IF Size(c) > 0 THEN "read" ELSE "commands", !.next = 1] /\ call' \in [Calls -> Call]
    <3> DEFINE v == [call[c] EXCEPT !.pc = IF Size(c) > 0 THEN "read" ELSE "commands", !.next = 1]
    <3>0. (IF Size(c) > 0 THEN "read" ELSE "commands") \in PCs
      BY DEF PCs
    <3>1. v \in Call
      BY <3>0, <1>c, <1>q DEF Call, Results
    <3>2. call' = [call EXCEPT ![c] = v]
      BY <2>1
    <3>3. QED
      BY <3>1, <3>2, CallUpdate
  <2>3. call[c].snapshots = <<>>
    BY <1>5 DEF Accept, CursorOK
  <2>4. /\ call'[c].pc = IF Size(c) > 0 THEN "read" ELSE "commands"
        /\ call'[c].next = 1
        /\ call'[c].snapshots = <<>>
        /\ call'[c].req = Req(c)
    BY <2>2, <2>3, <1>c DEF Call, Req
  <2>5. /\ call'[c].pc \in {"read", "commands"}
        /\ call'[c].pc = "read" => 1 \in 1 .. Size(c)
        /\ call'[c].pc = "commands" => Size(c) = 0
        /\ Len(call'[c].snapshots) = 0
    BY <2>4, <1>q
  <2>6. UNCHANGED <<done, running, rec, files, claimed, answered>>
    BY <1>5 DEF Accept
  <2>7. started' \subseteq Requests /\ alone' \subseteq Calls
    BY <1>5, <1>q DEF Accept, TypeOK
  <2>8. QED
    BY <2>2, <2>4, <2>5, <2>6, <2>7, <1>t DEF TypeOK
<1>6. CASE Read(c)
  <2> DEFINE i == call[c].next
  <2>1. i \in 1 .. Size(c) /\ Len(call[c].snapshots) = i - 1
    BY <1>6 DEF Read, CursorOK
  <2>2. files[Path(c, i)] \in SUBSET Entries
    BY <2>1, <1>q DEF TypeOK
  <2>3. call[c].snapshots \in Seq(SUBSET Entries)
    BY DEF TypeOK, Call
  <2> DEFINE s == Append(call[c].snapshots, files[Path(c, i)])
  <2>4. s \in Seq(SUBSET Entries) /\ Len(s) = i
    BY <2>1, <2>2, <2>3
  <2> HIDE DEF s
  <2>5. call' = [call EXCEPT ![c] = [call[c] EXCEPT !.snapshots = s,
                   !.pc = IF i = Size(c) THEN "write" ELSE "read",
                   !.next = IF i = Size(c) THEN 1 ELSE i + 1]]
    BY <1>6 DEF Read, s
  <2>6. (IF i = Size(c) THEN 1 ELSE i + 1) \in 1 .. Size(c)
    BY <2>1, <1>q
  <2>7. call'[c] = [call[c] EXCEPT !.snapshots = s,
                   !.pc = IF i = Size(c) THEN "write" ELSE "read",
                   !.next = IF i = Size(c) THEN 1 ELSE i + 1] /\ call' \in [Calls -> Call]
    <3> DEFINE v == [call[c] EXCEPT !.snapshots = s,
                   !.pc = IF i = Size(c) THEN "write" ELSE "read",
                   !.next = IF i = Size(c) THEN 1 ELSE i + 1]
    <3>0. (IF i = Size(c) THEN "write" ELSE "read") \in PCs
      BY DEF PCs
    <3>1. v \in Call
      <4>1. (IF i = Size(c) THEN 1 ELSE i + 1) \in Nat
        BY <2>6
      <4>2. QED
        BY <2>4, <4>1, <3>0, <1>c DEF Call
    <3>2. call' = [call EXCEPT ![c] = v]
      BY <2>5
    <3>3. QED
      BY <3>1, <3>2, CallUpdate
  <2>8. /\ call'[c].pc = IF i = Size(c) THEN "write" ELSE "read"
        /\ call'[c].next = IF i = Size(c) THEN 1 ELSE i + 1
        /\ call'[c].snapshots = s
        /\ call'[c].req = Req(c)
    BY <2>7, <1>c DEF Call, Req
  <2>9. Len(s) = i /\ (i # Size(c) => Len(s) = (i + 1) - 1)
    BY <2>4, <2>1
  <2>10. /\ call'[c].pc \in {"read", "write"}
         /\ call'[c].next \in 1 .. Size(c)
         /\ call'[c].pc = "read" => Len(call'[c].snapshots) = call'[c].next - 1
         /\ call'[c].pc = "write" => Len(call'[c].snapshots) = Size(c)
    BY <2>6, <2>8, <2>9
  <2>11. UNCHANGED <<done, running, rec, files, claimed, started, answered, alone>>
    BY <1>6 DEF Read, history
  <2>12. call' \in [Calls -> Call] /\ call'[c].req = Req(c)
    BY <2>7, <2>8
  <2>13. QED
    BY <2>10, <2>11, <2>12, <1>t DEF TypeOK
<1>7. CASE ReadFails(c)
  <2>1. call' = [call EXCEPT ![c] = [call[c] EXCEPT !.pc = "complete", !.result = "FAILED"]]
    BY <1>7 DEF ReadFails
  <2>2. call'[c] = [call[c] EXCEPT !.pc = "complete", !.result = "FAILED"] /\ call' \in [Calls -> Call]
    <3> DEFINE v == [call[c] EXCEPT !.pc = "complete", !.result = "FAILED"]
    <3>1. v \in Call
      BY <1>c DEF Call, PCs, Results
    <3>2. call' = [call EXCEPT ![c] = v]
      BY <2>1
    <3>3. QED
      BY <3>1, <3>2, CallUpdate
  <2>3. call'[c].pc = "complete" /\ call'[c].result # None /\ call'[c].req = Req(c)
    BY <2>2, <1>c DEF Call, Req, None
  <2>4. UNCHANGED <<done, running, rec, files, claimed, started, answered, alone>>
    BY <1>7 DEF ReadFails, history
  <2>5. QED
    BY <2>2, <2>3, <2>4, <1>t DEF TypeOK
<1>8. CASE Write(c)
  <2> DEFINE i == call[c].next
  <2>1. i \in 1 .. Size(c) /\ Len(call[c].snapshots) = Size(c)
    BY <1>8 DEF Write, CursorOK
  <2>2. call[c].snapshots \in Seq(SUBSET Entries)
    BY DEF TypeOK, Call
  <2>3. call[c].snapshots[i] \subseteq Entries /\ <<Req(c), i>> \in Entries
    BY <2>1, <2>2, <1>q DEF Entries
  <2>4. files' \in [Paths -> SUBSET Entries] /\ alone' \subseteq Calls
    BY <1>8, <2>3 DEF Write, WriteFile, TypeOK
  <2>5. call' = [call EXCEPT ![c] = [call[c] EXCEPT
                   !.pc = IF i = Size(c) THEN "commands" ELSE "write", !.next = i + 1]]
    BY <1>8 DEF Write
  <2>6. call'[c] = [call[c] EXCEPT !.pc = IF i = Size(c) THEN "commands" ELSE "write", !.next = i + 1] /\ call' \in [Calls -> Call]
    <3> DEFINE v == [call[c] EXCEPT !.pc = IF i = Size(c) THEN "commands" ELSE "write", !.next = i + 1]
    <3>0. (IF i = Size(c) THEN "commands" ELSE "write") \in PCs
      BY DEF PCs
    <3>1. v \in Call
      <4>1. i + 1 \in Nat
        BY <2>1
      <4>2. QED
        BY <4>1, <3>0, <1>c DEF Call
    <3>2. call' = [call EXCEPT ![c] = v]
      BY <2>5
    <3>3. QED
      BY <3>1, <3>2, CallUpdate
  <2>7. i # Size(c) => i + 1 \in 1 .. Size(c)
    BY <2>1, <1>q
  <2>8. /\ call'[c].pc = IF i = Size(c) THEN "commands" ELSE "write"
        /\ call'[c].next = i + 1
        /\ call'[c].snapshots = call[c].snapshots
        /\ call'[c].req = Req(c)
    BY <2>6, <1>c DEF Call, Req
  <2>9. /\ call'[c].pc \in {"write", "commands"}
        /\ call'[c].pc = "write" => call'[c].next \in 1 .. Size(c)
        /\ call'[c].pc = "commands" => call'[c].next = Size(c) + 1
    BY <2>7, <2>8
  <2>10. UNCHANGED <<done, running, rec, claimed, started, answered>>
    BY <1>8 DEF Write
  <2>11. QED
    BY <2>1, <2>4, <2>6, <2>8, <2>9, <2>10, <1>t DEF TypeOK
<1>9. CASE WriteFails(c) \/ CommandFails(c)
  <2>1. call' = [call EXCEPT ![c] = [call[c] EXCEPT
                   !.pc = IF Size(c) > 0 THEN "restore" ELSE "complete",
                   !.next = Size(c), !.result = "FAILED"]]
    BY <1>9 DEF WriteFails, CommandFails, FailAndRestore
  <2>2. call'[c] = [call[c] EXCEPT
                   !.pc = IF Size(c) > 0 THEN "restore" ELSE "complete",
                   !.next = Size(c), !.result = "FAILED"] /\ call' \in [Calls -> Call]
    <3> DEFINE v == [call[c] EXCEPT
                   !.pc = IF Size(c) > 0 THEN "restore" ELSE "complete",
                   !.next = Size(c), !.result = "FAILED"]
    <3>0. (IF Size(c) > 0 THEN "restore" ELSE "complete") \in PCs
      BY DEF PCs
    <3>1. v \in Call
      BY <3>0, <1>c, <1>q DEF Call, Results
    <3>2. call' = [call EXCEPT ![c] = v]
      BY <2>1
    <3>3. QED
      BY <3>1, <3>2, CallUpdate
  <2>3. Len(call[c].snapshots) = Size(c)
    BY <1>9 DEF WriteFails, CommandFails, CursorOK
  <2>4. Size(c) > 0 => Size(c) \in 1 .. Size(c)
    BY <1>q
  <2>5. /\ call'[c].pc = IF Size(c) > 0 THEN "restore" ELSE "complete"
        /\ call'[c].next = Size(c)
        /\ call'[c].snapshots = call[c].snapshots
        /\ call'[c].result # None
        /\ call'[c].req = Req(c)
    BY <2>2, <1>c DEF Call, Req, None
  <2>6. /\ call'[c].pc \in {"restore", "complete"}
        /\ call'[c].pc = "restore" => call'[c].next \in 1 .. Size(c)
    BY <2>4, <2>5
  <2>7. UNCHANGED <<done, running, rec, files, claimed, started, answered, alone>>
    BY <1>9 DEF WriteFails, CommandFails, history
  <2>8. QED
    BY <2>2, <2>3, <2>5, <2>6, <2>7, <1>t DEF TypeOK
<1>10. CASE CommandsSucceed(c)
  <2>1. call' = [call EXCEPT ![c] = [call[c] EXCEPT !.pc = "complete", !.result = "SUCCEEDED"]]
    BY <1>10 DEF CommandsSucceed
  <2>2. call'[c] = [call[c] EXCEPT !.pc = "complete", !.result = "SUCCEEDED"] /\ call' \in [Calls -> Call]
    <3> DEFINE v == [call[c] EXCEPT !.pc = "complete", !.result = "SUCCEEDED"]
    <3>1. v \in Call
      BY <1>c DEF Call, PCs, Results
    <3>2. call' = [call EXCEPT ![c] = v]
      BY <2>1
    <3>3. QED
      BY <3>1, <3>2, CallUpdate
  <2>3. call'[c].pc = "complete" /\ call'[c].result # None /\ call'[c].req = Req(c)
    BY <2>2, <1>c DEF Call, Req, None
  <2>4. UNCHANGED <<done, running, rec, files, claimed, started, answered, alone>>
    BY <1>10 DEF CommandsSucceed, history
  <2>5. QED
    BY <2>2, <2>3, <2>4, <1>t DEF TypeOK
<1>11. CASE Restore(c)
  <2> DEFINE i == call[c].next
             pc == IF i = 1 THEN "complete" ELSE "restore"
  <2>1. i \in 1 .. Size(c) /\ Len(call[c].snapshots) = Size(c)
    BY <1>11 DEF Restore, CursorOK
  <2>2. call[c].snapshots \in Seq(SUBSET Entries)
    BY DEF TypeOK, Call
  <2>3. call[c].snapshots[i] \subseteq Entries
    BY <2>1, <2>2, <1>q
  <2>4. files' \in [Paths -> SUBSET Entries] /\ alone' \subseteq Calls
    BY <1>11, <2>3 DEF Restore, WriteFile, TypeOK
  <2>5. PICK v \in Results \cup {None} :
          /\ call' = [call EXCEPT ![c] = [call[c] EXCEPT !.pc = pc, !.next = i - 1, !.result = v]]
          /\ v # call[c].result => v = "ROLLBACK_FAILED"
    <3>1. call[c].result \in Results \cup {None}
      BY DEF TypeOK, Call
    <3>2. CASE call' = [call EXCEPT ![c].pc = pc, ![c].next = i - 1]
      <4>1. call' = [call EXCEPT ![c] = [call[c] EXCEPT !.pc = pc, !.next = i - 1,
                                                        !.result = call[c].result]]
        BY <3>2 DEF TypeOK, Call
      <4>2. QED
        BY <3>1, <4>1
    <3>3. CASE call' = [call EXCEPT ![c].pc = pc, ![c].next = i - 1,
                                    ![c].result = "ROLLBACK_FAILED"]
      BY <3>3 DEF Results
    <3>4. QED
      BY <1>11, <3>2, <3>3 DEF Restore
  <2>6. i - 1 \in Nat /\ (i # 1 => i - 1 \in 1 .. Size(c))
    BY <2>1, <1>q
  <2>7. call'[c] = [call[c] EXCEPT !.pc = pc, !.next = i - 1, !.result = v] /\ call' \in [Calls -> Call]
    <3> DEFINE w == [call[c] EXCEPT !.pc = pc, !.next = i - 1, !.result = v]
    <3>0. pc \in PCs
      BY DEF PCs
    <3>1. w \in Call
      BY <2>6, <3>0, <1>c, <1>q DEF Call, Results
    <3>2. call' = [call EXCEPT ![c] = w]
      BY <2>5
    <3>3. QED
      BY <3>1, <3>2, CallUpdate
  <2>8. /\ call'[c].pc = pc
        /\ call'[c].next = i - 1
        /\ call'[c].snapshots = call[c].snapshots
        /\ call'[c].req = Req(c)
        /\ call'[c].result = v
    BY <2>7, <1>c DEF Call, Req
  <2>9. v # None
    <3>1. call[c].result # None
      BY <1>11 DEF Restore, CursorOK
    <3>2. QED
      BY <3>1, <2>5 DEF None
  <2>10. /\ pc = "restore" => i - 1 \in 1 .. Size(c)
         /\ pc \in {"restore", "complete"}
    BY <2>6
  <2>11. /\ UNCHANGED <<done, running, rec, claimed, started, answered>>
    BY <1>11 DEF Restore
  <2> HIDE DEF pc
  <2>12. QED
    BY <2>1, <2>4, <2>7, <2>8, <2>9, <2>10, <2>11, <1>t DEF TypeOK
<1>12. CASE Complete(c)
  <2>1. call[c].result \in Results
    BY <1>12 DEF Complete, CursorOK, TypeOK, Call
  <2>2. QED
    <3>1. done' \in [Requests -> Results \cup {None}]
      BY <1>12, <2>1 DEF Complete, TypeOK
    <3>2. rec' \in [Requests -> Results \cup {None, "running"}]
      BY <1>12, <2>1 DEF Complete, TypeOK
    <3>3. Idle \in Call
      BY DEF Idle, Call, PCs
    <3>4. call'[c] = Idle /\ call' \in [Calls -> Call]
      BY <1>12, <3>3, CallUpdate DEF Complete, End
    <3>5. QED
      BY <1>12, <3>1, <3>2, <3>4, <1>t, <1>q DEF Complete, TypeOK, Idle
<1>13. QED
  BY <1>1, <1>2, <1>3, <1>4, <1>5, <1>6, <1>7, <1>8, <1>9, <1>10, <1>11, <1>12 DEF Step

LEMMA BaseNext == Base /\ [Next]_vars => Base'
<1> SUFFICES ASSUME Base, [Next]_vars
             PROVE  Base'
  OBVIOUS
<1> USE DEF Base
<1>s. \A r \in Requests : Saved(r) \in Results \cup {None}
  BY SavedType
<1>1. ASSUME NEW r \in Requests, Answer(r)
      PROVE  Base'
  <2>1. TypeOK'
    BY <1>1, <1>s DEF Answer, Get, TypeOK
  <2>2. CursorOK'
    BY <1>1 DEF Answer, CursorOK, Size, Req
  <2>3. QED
    BY <2>1, <2>2
<1>2. ASSUME NEW c \in Calls, NEW r \in Requests, Arrive(c, r)
      PROVE  Base'
  <2> DEFINE v == [Idle EXCEPT !.pc = "begin", !.req = r, !.late = r \in answered]
  <2>1. v \in Call
    <3>1. Idle \in Call /\ "begin" \in PCs /\ (r \in answered) \in BOOLEAN
      BY DEF Idle, Call, PCs
    <3>2. QED
      BY <3>1 DEF Call
  <2>2. call' = [call EXCEPT ![c] = v]
    BY <1>2 DEF Arrive
  <2>3. call'[c] = v /\ call' \in [Calls -> Call]
    BY <2>1, <2>2, CallUpdate
  <2>4. \A d \in Calls : d # c => call'[d] = call[d]
    BY <2>2 DEF TypeOK
  <2>5. TypeOK'
    BY <1>2, <2>3, <2>4 DEF Arrive, TypeOK, Idle, history
  <2>6. CursorOK'
    BY <2>3, <2>4 DEF CursorOK, Size, Req, Idle
  <2>7. QED
    BY <2>5, <2>6
<1>3. CASE Crash
  <2>1. Idle \in Call
    BY DEF Idle, Call, PCs
  <2>2. TypeOK'
    BY <1>3, <2>1 DEF Crash, TypeOK, Idle
  <2>3. CursorOK'
    BY <1>3 DEF Crash, CursorOK, Idle
  <2>4. QED
    BY <2>2, <2>3
<1>4. CASE UNCHANGED vars
  BY <1>4 DEF vars, TypeOK, CursorOK, Size, Req
<1>5. QED
  BY <1>1, <1>2, <1>3, <1>4, BaseStep DEF Next

\* The Runner's tables, its calls and the workspace keep their types.
THEOREM TypeCorrect == Spec => []TypeOK
<1>1. Base => TypeOK
  BY DEF Base
<1>2. QED
  BY <1>1, BaseInit, BaseNext, PTL DEF Spec

-----------------------------------------------------------------------------
(* Claims.                                                                   *)

LEMMA ClaimInit == Init => ClaimHasRow /\ RunningHasOwner
BY DEF Init, ClaimHasRow, RunningHasOwner, Executing, Idle

LEMMA ClaimNext == Base /\ ClaimHasRow /\ [Next]_vars => ClaimHasRow'
<1> SUFFICES ASSUME Base, ClaimHasRow, [Next]_vars
             PROVE  ClaimHasRow'
  OBVIOUS
<1>t. TypeOK
  BY DEF Base
<1>1. ASSUME NEW r \in Requests, Answer(r)
      PROVE  ClaimHasRow'
  <2>1. r \in claimed
    BY <1>1 DEF Answer, Get, Saved, ClaimHasRow, Results, None
  <2>2. QED
    BY <1>1, <2>1, <1>t DEF Answer, ClaimHasRow, Req, TypeOK
<1>2. ASSUME NEW c \in Calls, NEW r \in Requests, Arrive(c, r)
      PROVE  ClaimHasRow'
  BY <1>2, <1>t DEF Arrive, ClaimHasRow, TypeOK, Executing, Idle, Req, history
<1>3. ASSUME NEW c \in Calls, Step(c)
      PROVE  ClaimHasRow'
  <2>o. \A d \in Calls : d # c => call'[d] = call[d]
    BY <1>3, <1>t, OthersStay
  <2>q. call[c].pc # "idle" => Req(c) \in Requests
    BY <1>t, PlanPath
  <2>1. CASE BeginClaims(c)
    <3>1. /\ rec' = [rec EXCEPT ![Req(c)] = "running"]
          /\ claimed' = claimed \cup {Req(c)}
          /\ UNCHANGED <<done, answered>>
          /\ Req(c) \in Requests
      BY <2>1, <2>q DEF BeginClaims
    <3>2. call'[c].req = Req(c)
      BY <2>1, <1>t DEF BeginClaims, TypeOK, Call, Req
    <3>3. QED
      BY <3>1, <3>2, <2>o, <1>t DEF ClaimHasRow, TypeOK, Req, None
  <2>2. CASE BeginFindsResult(c)
    <3>1. Req(c) \in claimed
      BY <2>2, <2>q DEF BeginFindsResult, Saved, ClaimHasRow, Results, None
    <3>2. call'[c].req = Req(c)
      BY <2>2, <1>t DEF BeginFindsResult, Goto, TypeOK, Call, Req
    <3>3. QED
      BY <2>2, <3>1, <3>2, <2>o, <1>t DEF BeginFindsResult, ClaimHasRow, TypeOK, Req, history
  <2>3. CASE BeginAborts(c) \/ Deny(c)
    BY <2>3, <2>o, <1>t DEF BeginAborts, Deny, End, ClaimHasRow, TypeOK, Idle, Executing, Req, history
  <2>4. CASE Accept(c) \/ Read(c) \/ ReadFails(c) \/ Write(c) \/ WriteFails(c)
             \/ CommandsSucceed(c) \/ CommandFails(c) \/ Restore(c)
    <3>1. UNCHANGED <<done, rec, claimed, answered>> /\ call[c].pc \in Executing
      BY <2>4 DEF Accept, Read, ReadFails, Write, WriteFails, CommandsSucceed, CommandFails,
                  Restore, Executing, history
    <3>2. call'[c].req = Req(c)
      BY <2>4, <1>t DEF Accept, Read, ReadFails, Write, WriteFails, CommandsSucceed,
                  CommandFails, Restore, FailAndRestore, TypeOK, Call, Req
    <3>3. QED
      BY <3>1, <3>2, <2>o DEF ClaimHasRow, Req
  <2>5. CASE Complete(c)
    <3>1. Req(c) \in claimed /\ call[c].result \in Results /\ Req(c) \in Requests
      BY <2>5, <2>q DEF Complete, ClaimHasRow, Executing, Base, CursorOK, TypeOK, Call
    <3>2. rec[Req(c)] # None
      BY <3>1 DEF ClaimHasRow
    <3>3. call'[c].pc = "idle"
      BY <2>5, <1>t DEF Complete, End, TypeOK, Idle
    <3>4. \A r \in Requests : rec'[r] # None <=> rec[r] # None
      BY <2>5, <3>1, <3>2, <1>t DEF Complete, TypeOK, Results, None
    <3>5. claimed' = claimed /\ answered' \subseteq claimed
          /\ \A r \in Requests : r # Req(c) => done'[r] = done[r]
      BY <2>5, <3>1, <1>t DEF Complete, TypeOK, ClaimHasRow
    <3>6. QED
      BY <3>1, <3>3, <3>4, <3>5, <2>o DEF ClaimHasRow, Executing, Req
  <2>6. QED
    BY <1>3, <2>1, <2>2, <2>3, <2>4, <2>5 DEF Step
<1>4. CASE Crash
  BY <1>4, <1>t DEF Crash, ClaimHasRow, TypeOK, Executing, Idle
<1>5. CASE UNCHANGED vars
  BY <1>5 DEF vars, ClaimHasRow, Req
<1>6. QED
  BY <1>1, <1>2, <1>3, <1>4, <1>5 DEF Next

\* What memory says is running: the call that releases a request is the one that
\* put it there, or one whose request is complete.
LEMMA OwnerNext == Base /\ RunningHasOwner /\ [Next]_vars => RunningHasOwner'
<1> SUFFICES ASSUME Base, RunningHasOwner, [Next]_vars
             PROVE  RunningHasOwner'
  OBVIOUS
<1>t. TypeOK
  BY DEF Base
<1>1. ASSUME NEW r \in Requests, Answer(r)
      PROVE  RunningHasOwner'
  BY <1>1 DEF Answer, RunningHasOwner
<1>2. ASSUME NEW c \in Calls, NEW r \in Requests, Arrive(c, r)
      PROVE  RunningHasOwner'
  <2>1. \A d \in Calls : call[d].pc \in Executing => d # c
    BY <1>2 DEF Arrive, Executing
  <2>2. \A d \in Calls : d # c => call'[d] = call[d]
    BY <1>2, <1>t DEF Arrive, TypeOK
  <2>3. QED
    BY <1>2, <2>1, <2>2 DEF Arrive, RunningHasOwner
<1>3. ASSUME NEW c \in Calls, Step(c)
      PROVE  RunningHasOwner'
  <2>o. \A d \in Calls : d # c => call'[d] = call[d]
    BY <1>3, <1>t, OthersStay
  <2> SUFFICES ASSUME NEW r \in running'
               PROVE  \E d \in Calls :
                        call'[d].owner /\ call'[d].req = r /\ call'[d].pc \in Executing
    BY DEF RunningHasOwner
  <2>1. CASE BeginClaims(c)
    <3>1. call'[c].owner /\ call'[c].req = Req(c) /\ call'[c].pc = "verify"
      BY <2>1, <1>t DEF BeginClaims, TypeOK, Call, Req
    <3>2. CASE r = Req(c)
      BY <3>1, <3>2 DEF Executing
    <3>3. CASE r # Req(c)
      <4>1. r \in running /\ call[c].pc \notin Executing
        BY <2>1, <3>3 DEF BeginClaims, Executing
      <4>2. QED
        BY <4>1, <2>o DEF RunningHasOwner
    <3>4. QED
      BY <3>2, <3>3
  <2>2. CASE BeginAborts(c) \/ BeginFindsResult(c)
    <3>1. r \in running /\ call[c].pc \notin Executing
      BY <2>2 DEF BeginAborts, BeginFindsResult, Executing
    <3>2. QED
      BY <3>1, <2>o DEF RunningHasOwner
  <2>3. CASE Deny(c) \/ Complete(c)
    <3>1. r \in running /\ (call[c].owner => r # Req(c))
      BY <2>3 DEF Deny, Complete, Released, Req
    <3>2. QED
      BY <3>1, <2>o DEF RunningHasOwner, Req
  <2>4. CASE Accept(c) \/ Read(c) \/ ReadFails(c) \/ Write(c) \/ WriteFails(c)
             \/ CommandsSucceed(c) \/ CommandFails(c) \/ Restore(c)
    <3>1. r \in running
      BY <2>4 DEF Accept, Read, ReadFails, Write, WriteFails, CommandsSucceed, CommandFails,
                  Restore, history
    <3>2. call'[c].req = call[c].req /\ call'[c].owner = call[c].owner
      BY <2>4, <1>t DEF Accept, Read, ReadFails, Write, WriteFails, CommandsSucceed,
                  CommandFails, Restore, FailAndRestore, TypeOK, Call
    <3>3. call'[c].pc \in Executing
      BY <2>4, <1>t DEF Accept, Read, ReadFails, Write, WriteFails, CommandsSucceed,
                  CommandFails, Restore, FailAndRestore, TypeOK, Call, Executing
    <3>4. QED
      BY <3>1, <3>2, <3>3, <2>o DEF RunningHasOwner
  <2>5. QED
    BY <1>3, <2>1, <2>2, <2>3, <2>4 DEF Step
<1>4. CASE Crash
  BY <1>4 DEF Crash, RunningHasOwner
<1>5. CASE UNCHANGED vars
  BY <1>5 DEF vars, RunningHasOwner
<1>6. QED
  BY <1>1, <1>2, <1>3, <1>4, <1>5 DEF Next

-----------------------------------------------------------------------------
(* The files of a call that no other one disturbs.                           *)

\* What is known of a call is kept while it and the files stay as they are.
LEMMA SoFarKept ==
  ASSUME NEW d \in Calls, SoFar(d), call'[d] = call[d], UNCHANGED files
  PROVE  SoFar(d)'
BY DEF SoFar, Reported, Path, Req, Size

\* A call that has read nothing, and has not got to its commands, knows nothing.
LEMMA NothingRead ==
  ASSUME NEW c \in Calls, call'[c].snapshots = <<>>,
         call'[c].pc \notin {"write", "commands", "restore"}
  PROVE  SoFar(c)'
BY DEF SoFar, Reported

\* The steps of a transaction, each on what is known of the one before.
LEMMA ReadKnown ==
  ASSUME Base, NEW c \in Calls, SoFar(c), Read(c)
  PROVE  SoFar(c)'
<1> DEFINE i == call[c].next
           old == call[c].snapshots
           new == Append(old, files[Path(c, i)])
<1>1. /\ i \in 1 .. Size(c) /\ Len(old) = i - 1
      /\ call[c].pc = "read"
      /\ old \in Seq(SUBSET Entries)
  BY DEF Read, Base, CursorOK, TypeOK, Call
<1>2. /\ call'[c].pc = IF i = Size(c) THEN "write" ELSE "read"
      /\ call'[c].next = IF i = Size(c) THEN 1 ELSE i + 1
      /\ call'[c].snapshots = new
      /\ call'[c].req = call[c].req
      /\ UNCHANGED files
  BY DEF Read, Base, TypeOK, Call
<1>3. /\ DOMAIN new = 1 .. i /\ DOMAIN old = 1 .. i - 1
      /\ \A k \in 1 .. i - 1 : new[k] = old[k]
      /\ new[i] = files[Path(c, i)]
  BY <1>1, Z3
<1>4. \A k \in DOMAIN old : old[k] = files[Path(c, k)]
  BY <1>1 DEF SoFar
<1>5. \A k \in DOMAIN new : new[k] = files[Path(c, k)]
  BY <1>1, <1>3, <1>4
<1>6. /\ \A k \in DOMAIN new : Path(c, k)' = Path(c, k)
      /\ DOMAIN call'[c].snapshots = DOMAIN new
      /\ \A k \in DOMAIN new : call'[c].snapshots[k] = new[k]
  BY <1>2 DEF Path, Req
<1> HIDE DEF new, old, i
<1>7. QED
  BY <1>2, <1>5, <1>6 DEF SoFar

LEMMA WriteKnown ==
  ASSUME Base, NEW c \in Calls, SoFar(c), Write(c)
  PROVE  SoFar(c)'
<1> DEFINE i == call[c].next
           s == call[c].snapshots
<1>1. /\ i \in 1 .. Size(c) /\ DOMAIN s = 1 .. Size(c) /\ Size(c) \in Nat
      /\ call[c].pc = "write"
      /\ \A k \in 1 .. Size(c) : Path(c, k) \in Paths
  <2>1. Size(c) \in Nat /\ \A k \in 1 .. Size(c) : Path(c, k) \in Paths
    BY PlanPath DEF Base, Write
  <2>2. s \in Seq(SUBSET Entries)
    BY DEF Base, TypeOK, Call
  <2>3. QED
    BY <2>1, <2>2 DEF Base, Write, CursorOK
<1>2. /\ call'[c].pc = IF i = Size(c) THEN "commands" ELSE "write"
      /\ call'[c].next = i + 1
      /\ call'[c].snapshots = s
      /\ call'[c].req = call[c].req
  BY DEF Write, Base, TypeOK, Call
<1>3. /\ files'[Path(c, i)] = s[i] \cup {<<Req(c), i>>}
      /\ \A p \in Paths : p # Path(c, i) => files'[p] = files[p]
  BY <1>1 DEF Write, WriteFile, Base, TypeOK
<1>4. ASSUME NEW k \in 1 .. i, \A j \in k + 1 .. i : Path(c, j) # Path(c, k)
      PROVE  files'[Path(c, k)] = s[k] \cup {<<Req(c), k>>}
  <2>1. CASE k = i
    BY <2>1, <1>3
  <2>2. CASE k # i
    <3>1. k \in 1 .. i - 1 /\ i \in k + 1 .. i
      BY <1>1, <2>2
    <3>2. Path(c, i) # Path(c, k) /\ \A j \in k + 1 .. i - 1 : Path(c, j) # Path(c, k)
      BY <1>1, <1>4, <3>1
    <3>3. files[Path(c, k)] = s[k] \cup {<<Req(c), k>>}
      BY <1>1, <3>1, <3>2 DEF SoFar
    <3>4. QED
      BY <1>1, <1>3, <3>1, <3>2, <3>3
  <2>3. QED
    BY <2>1, <2>2
<1>5. \A k, j \in DOMAIN s : Path(c, k) = Path(c, j) => s[k] = s[j]
  BY DEF SoFar
<1>6. Req(c)' = Req(c) /\ \A k : Path(c, k)' = Path(c, k)
  BY <1>2 DEF Path, Req
<1>7. call'[c].next - 1 = i /\ call'[c].pc \in {"write", "commands"}
  BY <1>1, <1>2
<1> HIDE DEF s, i
<1>8. QED
  BY <1>2, <1>4, <1>5, <1>6, <1>7 DEF SoFar

\* A plan fails with nothing restored yet, or without a file.
LEMMA FailKnown ==
  ASSUME Base, NEW c \in Calls, SoFar(c), WriteFails(c) \/ CommandFails(c)
  PROVE  SoFar(c)'
<1>1. /\ call[c].pc \in {"write", "commands"}
      /\ DOMAIN call[c].snapshots = 1 .. Size(c) /\ Size(c) \in Nat
  <2>1. Size(c) \in Nat
    BY PlanPath DEF Base, WriteFails, CommandFails
  <2>2. call[c].snapshots \in Seq(SUBSET Entries)
    BY DEF Base, TypeOK, Call
  <2>3. QED
    BY <2>1, <2>2 DEF Base, WriteFails, CommandFails, CursorOK
<1>2. /\ call'[c].pc = IF Size(c) > 0 THEN "restore" ELSE "complete"
      /\ call'[c].next = Size(c)
      /\ call'[c].snapshots = call[c].snapshots
      /\ call'[c].req = call[c].req
  BY DEF WriteFails, CommandFails, FailAndRestore, Base, TypeOK, Call
<1>3. Size(c)' = Size(c) /\ \A k : Path(c, k)' = Path(c, k)
  BY <1>2 DEF Size, Path, Req
<1>4. \A k, j \in DOMAIN call[c].snapshots :
        Path(c, k) = Path(c, j) => call[c].snapshots[k] = call[c].snapshots[j]
  BY DEF SoFar
<1>5. CASE Size(c) > 0
  <2>1. call'[c].pc = "restore" /\ call'[c].next + 1 .. Size(c)' = {}
    BY <1>1, <1>2, <1>3, <1>5
  <2>2. QED
    BY <2>1, <1>2, <1>3, <1>4 DEF SoFar
<1>6. CASE ~(Size(c) > 0)
  <2>1. call'[c].pc = "complete" /\ DOMAIN call'[c].snapshots = {}
    BY <1>1, <1>2, <1>6
  <2>2. QED
    BY <2>1 DEF SoFar, Reported
<1>7. QED
  BY <1>5, <1>6

LEMMA SucceedKnown ==
  ASSUME Base, NEW c \in Calls, SoFar(c), CommandsSucceed(c)
  PROVE  SoFar(c)'
<1> DEFINE s == call[c].snapshots
<1>1. /\ call[c].pc = "commands" /\ call[c].next - 1 = Size(c)
      /\ DOMAIN s = 1 .. Size(c) /\ Size(c) \in Nat
  <2>1. Size(c) \in Nat
    BY PlanPath DEF Base, CommandsSucceed
  <2>2. s \in Seq(SUBSET Entries)
    BY DEF Base, TypeOK, Call
  <2>3. QED
    BY <2>1, <2>2 DEF Base, CommandsSucceed, CursorOK
<1>2. /\ call'[c].pc = "complete" /\ call'[c].result = "SUCCEEDED"
      /\ call'[c].snapshots = s
      /\ call'[c].req = call[c].req
      /\ UNCHANGED files
  BY DEF CommandsSucceed, Base, TypeOK, Call
<1>3. Req(c)' = Req(c) /\ \A k : Path(c, k)' = Path(c, k)
  BY <1>2 DEF Path, Req
<1>4. ASSUME NEW k \in DOMAIN s, \A j \in DOMAIN s : j > k => Path(c, j) # Path(c, k)
      PROVE  files[Path(c, k)] = s[k] \cup {<<Req(c), k>>}
  <2>1. k \in 1 .. Size(c) /\ \A j \in k + 1 .. Size(c) : j \in DOMAIN s /\ j > k
    BY <1>1
  <2>2. \A j \in k + 1 .. Size(c) : Path(c, j) # Path(c, k)
    BY <1>4, <2>1
  <2>3. QED
    BY <1>1, <2>1, <2>2 DEF SoFar
<1>5. \A k, j \in DOMAIN s : Path(c, k) = Path(c, j) => s[k] = s[j]
  BY DEF SoFar
<1> HIDE DEF s
<1>6. Reported(c)'
  BY <1>2, <1>3, <1>4 DEF Reported
<1>7. QED
  BY <1>2, <1>3, <1>5, <1>6 DEF SoFar

\* Restoring a file keeps what was restored of it before: it was read alike.
LEMMA RestoreKnown ==
  ASSUME Base, NEW c \in Calls, SoFar(c), Restore(c)
  PROVE  SoFar(c)'
<1> DEFINE i == call[c].next
           s == call[c].snapshots
<1>1. /\ i \in 1 .. Size(c) /\ DOMAIN s = 1 .. Size(c) /\ Size(c) \in Nat
      /\ call[c].pc = "restore"
      /\ \A k \in 1 .. Size(c) : Path(c, k) \in Paths
  <2>1. Size(c) \in Nat /\ \A k \in 1 .. Size(c) : Path(c, k) \in Paths
    BY PlanPath DEF Base, Restore
  <2>2. s \in Seq(SUBSET Entries)
    BY DEF Base, TypeOK, Call
  <2>3. QED
    BY <2>1, <2>2 DEF Base, Restore, CursorOK
<1>2. /\ call'[c].pc = IF i = 1 THEN "complete" ELSE "restore"
      /\ call'[c].next = i - 1
      /\ call'[c].snapshots = s
      /\ call'[c].req = call[c].req
  BY DEF Restore, Base, TypeOK, Call
<1>3. \A k, j \in DOMAIN s : Path(c, k) = Path(c, j) => s[k] = s[j]
  BY DEF SoFar
<1>4. Req(c)' = Req(c) /\ Size(c)' = Size(c) /\ \A k : Path(c, k)' = Path(c, k)
  BY <1>2 DEF Path, Req, Size
<1>5. call'[c].result # "SUCCEEDED"
  BY <1>1 DEF Restore, Base, TypeOK, Call, CursorOK
<1>6. ASSUME call'[c].result = "FAILED", NEW k \in i .. Size(c)
      PROVE  files'[Path(c, k)] = s[k]
  <2>1. /\ call[c].result = "FAILED"
        /\ files' = [files EXCEPT ![Path(c, i)] = s[i]]
    BY <1>6 DEF Restore, WriteFile, Base, TypeOK, Call
  <2>2. k \in DOMAIN s /\ i \in DOMAIN s /\ (k # i => k \in i + 1 .. Size(c))
    BY <1>1
  <2>3. k # i => files[Path(c, k)] = s[k]
    BY <1>1, <2>1, <2>2 DEF SoFar
  <2>4. QED
    BY <1>1, <1>3, <2>1, <2>2, <2>3 DEF Base, TypeOK
<1> HIDE DEF s
<1>7. QED
  BY <1>1, <1>2, <1>3, <1>4, <1>5, <1>6 DEF SoFar, Reported

LEMMA UndisturbedInit == Init => Undisturbed
BY DEF Init, Undisturbed

\* A write of one call leaves no other undisturbed; every other step leaves the
\* files alone.
LEMMA UndisturbedNext == Base /\ Undisturbed /\ [Next]_vars => Undisturbed'
<1> SUFFICES ASSUME Base, Undisturbed, [Next]_vars
             PROVE  Undisturbed'
  OBVIOUS
<1>t. TypeOK
  BY DEF Base
<1>1. ASSUME NEW r \in Requests, Answer(r)
      PROVE  Undisturbed'
  <2>1. UNCHANGED <<call, files, alone>>
    BY <1>1 DEF Answer
  <2>2. QED
    BY <2>1, <1>t, SoFarKept DEF Undisturbed, TypeOK
<1>2. ASSUME NEW c \in Calls, NEW r \in Requests, Arrive(c, r)
      PROVE  Undisturbed'
  <2>1. UNCHANGED <<files, alone>> /\ \A d \in Calls : d # c => call'[d] = call[d]
    BY <1>2, <1>t DEF Arrive, TypeOK, history
  <2>2. call'[c].pc = "begin" /\ call'[c].snapshots = <<>>
    BY <1>2, <1>t DEF Arrive, TypeOK, Idle
  <2>3. SoFar(c)'
    BY <2>2, NothingRead
  <2>4. QED
    BY <2>1, <2>3, <1>t, SoFarKept DEF Undisturbed, TypeOK
<1>3. ASSUME NEW c \in Calls, Step(c)
      PROVE  Undisturbed'
  <2>o. \A d \in Calls : d # c => call'[d] = call[d]
    BY <1>3, <1>t, OthersStay
  \* It is enough to look at the call that moves.
  <2>t. ASSUME SoFar(c)' \/ c \notin alone',
               \/ UNCHANGED files /\ alone' \subseteq alone \cup {c}
               \/ alone' \subseteq {c}
        PROVE  Undisturbed'
    BY <2>t, <2>o, <1>t, SoFarKept DEF Undisturbed, TypeOK
  <2>1. CASE BeginClaims(c) \/ BeginFindsResult(c)
    <3>1. call'[c].snapshots = <<>> /\ call'[c].pc = "verify"
      BY <2>1, <1>t DEF BeginClaims, BeginFindsResult, Goto, TypeOK, Call, Base, CursorOK
    <3>2. UNCHANGED <<files, alone>>
      BY <2>1 DEF BeginClaims, BeginFindsResult, history
    <3>3. QED
      BY <3>1, <3>2, <2>t, NothingRead
  <2>2. CASE BeginAborts(c) \/ Deny(c) \/ Complete(c)
    <3>1. call'[c].snapshots = <<>> /\ call'[c].pc = "idle"
      BY <2>2, <1>t DEF BeginAborts, Deny, Complete, End, Idle, TypeOK
    <3>2. UNCHANGED <<files, alone>>
      BY <2>2 DEF BeginAborts, Deny, Complete, history
    <3>3. QED
      BY <3>1, <3>2, <2>t, NothingRead
  <2>3. CASE Accept(c)
    <3>1. call[c].snapshots = <<>>
      BY <2>3 DEF Accept, Base, CursorOK
    <3>2. /\ call'[c].snapshots = <<>> /\ call'[c].next - 1 = 0
          /\ call'[c].pc \in {"read", "commands"}
      BY <2>3, <3>1, <1>t DEF Accept, TypeOK, Call
    <3>3. SoFar(c)'
      BY <3>2 DEF SoFar
    <3>4. QED
      BY <2>3, <3>3, <2>t DEF Accept
  <2>4. CASE Read(c)
    <3>1. UNCHANGED <<files, alone>>
      BY <2>4 DEF Read, history
    <3>2. QED
      BY <2>4, <3>1, <2>t, ReadKnown DEF Undisturbed
  <2>5. CASE ReadFails(c)
    <3>1. /\ call[c].pc = "read"
          /\ call'[c].pc = "complete" /\ call'[c].result = "FAILED"
          /\ call'[c].snapshots = call[c].snapshots
          /\ call'[c].req = call[c].req
          /\ UNCHANGED <<files, alone>>
      BY <2>5, <1>t DEF ReadFails, TypeOK, Call, history
    <3>2. SoFar(c) => SoFar(c)'
      BY <3>1 DEF SoFar, Reported, Path, Req
    <3>3. QED
      BY <3>1, <3>2, <2>t DEF Undisturbed
  <2>6. CASE Write(c)
    <3>1. alone' = alone \cap {c}
      BY <2>6 DEF Write, WriteFile
    <3>2. QED
      BY <2>6, <3>1, <2>t, WriteKnown DEF Undisturbed
  <2>7. CASE WriteFails(c) \/ CommandFails(c)
    <3>1. UNCHANGED <<files, alone>>
      BY <2>7 DEF WriteFails, CommandFails, history
    <3>2. QED
      BY <2>7, <3>1, <2>t, FailKnown DEF Undisturbed
  <2>8. CASE CommandsSucceed(c)
    <3>1. UNCHANGED <<files, alone>>
      BY <2>8 DEF CommandsSucceed, history
    <3>2. QED
      BY <2>8, <3>1, <2>t, SucceedKnown DEF Undisturbed
  <2>9. CASE Restore(c)
    <3>1. alone' = alone \cap {c} \/ UNCHANGED <<files, alone>>
      BY <2>9 DEF Restore, WriteFile
    <3>2. QED
      BY <2>9, <3>1, <2>t, RestoreKnown DEF Undisturbed
  <2>10. QED
    BY <1>3, <2>1, <2>2, <2>3, <2>4, <2>5, <2>6, <2>7, <2>8, <2>9 DEF Step
<1>4. CASE Crash
  BY <1>4 DEF Crash, Undisturbed
<1>5. CASE UNCHANGED vars
  BY <1>5, <1>t, SoFarKept DEF vars, Undisturbed, TypeOK
<1>6. QED
  BY <1>1, <1>2, <1>3, <1>4, <1>5 DEF Next

-----------------------------------------------------------------------------
(* One call at most works on a request that is not answered.                 *)

LEMMA FoundNext == Base /\ FoundIsAnswered /\ [Next]_vars => FoundIsAnswered'
<1> SUFFICES ASSUME Base, FoundIsAnswered, [Next]_vars, NEW q \in Requests, Saved(q)' # None
             PROVE  q \in answered'
  BY DEF FoundIsAnswered
<1>t. TypeOK
  BY DEF Base
<1>k. ASSUME answered \subseteq answered',
             done'[q] # None => Saved(q) # None,
             rec'[q] \in Results => Saved(q) # None
      PROVE  q \in answered'
  BY <1>k DEF Saved, FoundIsAnswered
<1>1. ASSUME NEW r \in Requests, Answer(r)
      PROVE  q \in answered'
  BY <1>1, <1>t, <1>k DEF Answer, Get, Saved, TypeOK, Results, None
<1>2. ASSUME NEW c \in Calls, NEW r \in Requests, Arrive(c, r)
      PROVE  q \in answered'
  BY <1>2, <1>k DEF Arrive, Saved, history, Results, None
<1>3. ASSUME NEW c \in Calls, Step(c)
      PROVE  q \in answered'
  <2>1. CASE BeginClaims(c)
    BY <2>1, <1>t, <1>k DEF BeginClaims, TypeOK, Saved, Results, None
  <2>2. CASE BeginFindsResult(c)
    <3>1. Req(c) = q => Saved(q) # None
      BY <2>2 DEF BeginFindsResult
    <3>2. UNCHANGED <<rec, answered>> /\ done' = [done EXCEPT ![Req(c)] = Saved(Req(c))]
      BY <2>2 DEF BeginFindsResult, history
    <3>3. QED
      BY <3>1, <3>2, <1>t, <1>k DEF TypeOK, Saved, Results, None
  <2>3. CASE Complete(c)
    <3>1. answered' = answered \cup {Req(c)}
      BY <2>3 DEF Complete
    <3>2. Req(c) # q => done'[q] = done[q] /\ rec'[q] = rec[q]
      BY <2>3, <1>t DEF Complete, TypeOK
    <3>3. QED
      BY <3>1, <3>2, <1>k DEF Saved, Results, None
  <2>4. CASE BeginAborts(c) \/ Deny(c) \/ Accept(c) \/ Read(c) \/ ReadFails(c)
             \/ Write(c) \/ WriteFails(c) \/ CommandsSucceed(c) \/ CommandFails(c)
             \/ Restore(c)
    <3>1. UNCHANGED <<done, rec, answered>>
      BY <2>4 DEF BeginAborts, Deny, Accept, Read, ReadFails, Write, WriteFails,
                  CommandsSucceed, CommandFails, Restore, history
    <3>2. QED
      BY <3>1, <1>k DEF Saved, Results, None
  <2>5. QED
    BY <1>3, <2>1, <2>2, <2>3, <2>4 DEF Step
<1>4. CASE Crash
  BY <1>4, <1>k DEF Crash, Saved, Results, None
<1>5. CASE UNCHANGED vars
  BY <1>5, <1>k DEF vars, Saved, Results, None
<1>6. QED
  BY <1>1, <1>2, <1>3, <1>4, <1>5 DEF Next

\* The call that goes on to execute claimed the request, which then nobody can be
\* executing, or found a result of it, which then is answered.
LEMMA OneExecutesNext ==
  Base /\ ClaimHasRow /\ FoundIsAnswered /\ OneExecutes /\ [Next]_vars => OneExecutes'
<1> SUFFICES ASSUME Base, ClaimHasRow, FoundIsAnswered, OneExecutes, [Next]_vars
             PROVE  OneExecutes'
  OBVIOUS
<1>t. TypeOK
  BY DEF Base
<1>q. \A d \in Calls : call[d].pc # "idle" => Req(d) \in Requests
  BY <1>t, PlanPath
\* It is enough that whoever executes did so before, and that answers stay.
<1>k. ASSUME answered \subseteq answered',
             \A d \in Calls : call'[d].pc \in Executing =>
               call[d].pc \in Executing /\ call'[d].req = call[d].req
      PROVE  OneExecutes'
  BY <1>k DEF OneExecutes, Req
<1>1. ASSUME NEW r \in Requests, Answer(r)
      PROVE  OneExecutes'
  BY <1>1, <1>k DEF Answer
<1>2. ASSUME NEW c \in Calls, NEW r \in Requests, Arrive(c, r)
      PROVE  OneExecutes'
  <2>1. call'[c].pc \notin Executing /\ answered' = answered
    BY <1>2, <1>t DEF Arrive, TypeOK, Executing, history
  <2>2. \A d \in Calls : d # c => call'[d] = call[d]
    BY <1>2, <1>t DEF Arrive, TypeOK
  <2>3. QED
    BY <2>1, <2>2, <1>k
<1>3. ASSUME NEW c \in Calls, Step(c)
      PROVE  OneExecutes'
  <2>o. \A d \in Calls : d # c => call'[d] = call[d]
    BY <1>3, <1>t, OthersStay
  <2>1. CASE BeginClaims(c)
    <3>1. rec[Req(c)] = None /\ Req(c) \in Requests
      BY <2>1, <1>q DEF BeginClaims, Claimable
    <3>2. \A d \in Calls : call[d].pc \in Executing => Req(d) # Req(c)
      BY <3>1 DEF ClaimHasRow
    <3>3. call'[c].req = Req(c) /\ answered' = answered
      BY <2>1, <1>t DEF BeginClaims, TypeOK, Call, Req
    <3>4. QED
      BY <3>2, <3>3, <2>o DEF OneExecutes, Req
  <2>2. CASE BeginFindsResult(c)
    <3>1. Req(c) \in answered
      BY <2>2, <1>q DEF BeginFindsResult, FoundIsAnswered
    <3>2. call'[c].req = Req(c) /\ answered' = answered
      BY <2>2, <1>t DEF BeginFindsResult, Goto, history, TypeOK, Call, Req
    <3>3. QED
      BY <3>1, <3>2, <2>o DEF OneExecutes, Req
  <2>3. CASE BeginAborts(c) \/ Deny(c) \/ Complete(c)
    <3>1. call'[c].pc \notin Executing /\ answered \subseteq answered'
      BY <2>3, <1>t DEF BeginAborts, Deny, Complete, End, Idle, TypeOK, Executing, history
    <3>2. QED
      BY <3>1, <2>o, <1>k
  <2>4. CASE Accept(c) \/ Read(c) \/ ReadFails(c) \/ Write(c) \/ WriteFails(c)
             \/ CommandsSucceed(c) \/ CommandFails(c) \/ Restore(c)
    <3>1. answered' = answered /\ call[c].pc \in Executing
      BY <2>4 DEF Accept, Read, ReadFails, Write, WriteFails, CommandsSucceed, CommandFails,
                  Restore, Executing, history
    <3>2. call'[c].req = call[c].req
      BY <2>4, <1>t DEF Accept, Read, ReadFails, Write, WriteFails, CommandsSucceed,
                  CommandFails, Restore, FailAndRestore, TypeOK, Call
    <3>3. QED
      BY <3>1, <3>2, <2>o, <1>k
  <2>5. QED
    BY <1>3, <2>1, <2>2, <2>3, <2>4 DEF Step
<1>4. CASE Crash
  BY <1>4, <1>k DEF Crash, Idle, Executing
<1>5. CASE UNCHANGED vars
  BY <1>5, <1>k DEF vars
<1>6. QED
  BY <1>1, <1>2, <1>3, <1>4, <1>5 DEF Next

LEMMA OneInit == Init => FoundIsAnswered /\ OneExecutes
BY DEF Init, FoundIsAnswered, Saved, OneExecutes, Executing, Idle, Results, None

-----------------------------------------------------------------------------

LEMMA BaseInvInductive ==
  /\ Init => BaseInv /\ Base
  /\ BaseInv /\ [Next]_vars => BaseInv'
<1>1. BaseInv <=> /\ Base /\ ClaimHasRow /\ RunningHasOwner /\ Undisturbed
                  /\ FoundIsAnswered /\ OneExecutes
  BY DEF BaseInv, Base
<1>2. BaseInv' <=> /\ Base' /\ ClaimHasRow' /\ RunningHasOwner' /\ Undisturbed'
                   /\ FoundIsAnswered' /\ OneExecutes'
  BY DEF BaseInv, Base
<1>3. QED
  BY <1>1, <1>2, BaseInit, ClaimInit, UndisturbedInit, OneInit, BaseNext, ClaimNext,
     OwnerNext, UndisturbedNext, FoundNext, OneExecutesNext

THEOREM BaseInvariant == Spec => []BaseInv
BY BaseInvInductive, PTL DEF Spec

\* Of the calls about a request that is not answered one at most executes its
\* plan, whichever results are lost and however often the Runner is restarted.
THEOREM OneCallExecutes == Spec => []OneExecutes
<1>1. BaseInv => OneExecutes
  BY DEF BaseInv
<1>2. QED
  BY <1>1, BaseInvariant, PTL

\* A call that no other one disturbed reports what it left in the workspace, for
\* any plans, any calls and any failures: the last of its patches to each file is
\* there after a success, and every file is as it was read after a failure.
THEOREM ReportsAreTrue == Spec => []EndsAsReported
<1>1. BaseInv => EndsAsReported
  BY DEF BaseInv, Undisturbed, SoFar, EndsAsReported
<1>2. QED
  BY <1>1, BaseInvariant, PTL

\* A request that the Runner's memory says is running never lacks the call that
\* will release it, whichever failures happen.
THEOREM RunningIsOwned == Spec => []RunningHasOwner
<1>1. BaseInv => RunningHasOwner
  BY DEF BaseInv
<1>2. QED
  BY <1>1, BaseInvariant, PTL

LEMMA ClaimStep ==
  ASSUME BaseInv, [Next]_vars, NEW c \in Calls,
         call[c].pc = "begin", ~call[c].owner, call'[c].owner
  PROVE  call[c].req \notin claimed
<1>t. TypeOK
  BY DEF BaseInv
<1>1. CASE \E d \in Calls : Step(d)
  <2>1. PICK d \in Calls : Step(d)
    BY <1>1
  <2>2. d = c
    BY <2>1, <1>t, OthersStay
  <2>3. BeginClaims(c) \/ BeginAborts(c) \/ BeginFindsResult(c)
    BY <2>1, <2>2 DEF Step, Deny, Accept, Read, ReadFails, Write, WriteFails,
                     CommandsSucceed, CommandFails, Restore, Complete
  <2>4. ~(BeginAborts(c) \/ BeginFindsResult(c))
    <3>1. BeginAborts(c) => call'[c].owner = FALSE
      BY <1>t DEF BeginAborts, End, Idle, TypeOK
    <3>2. BeginFindsResult(c) => call'[c].owner = call[c].owner
      BY <1>t DEF BeginFindsResult, Goto, TypeOK, Call
    <3>3. QED
      BY <3>1, <3>2
  <2>5. rec[Req(c)] = None /\ Req(c) \in Requests
    BY <2>3, <2>4, <1>t DEF BeginClaims, Claimable, TypeOK, Req
  <2>6. QED
    BY <2>5 DEF BaseInv, ClaimHasRow, Req
<1>2. CASE \E d \in Calls, r \in Requests : Arrive(d, r)
  <2>1. PICK d \in Calls, r \in Requests : Arrive(d, r)
    BY <1>2
  <2>2. call'[c] = call[c]
    BY <2>1, <1>t DEF Arrive, TypeOK
  <2>3. QED
    BY <2>2
<1>3. CASE (\E r \in Requests : Answer(r)) \/ UNCHANGED vars
  BY <1>3 DEF Answer, vars
<1>4. CASE Crash
  BY <1>4 DEF Crash, Idle
<1>5. QED
  BY <1>1, <1>2, <1>3, <1>4 DEF Next

\* No two calls, of one Runner process or of one after another, ever claim the
\* same request, whichever failures happen.
THEOREM ClaimsAreUnique == Spec => ClaimedOnce
<1>1. BaseInv /\ [Next]_vars =>
        [\A c \in Calls : call[c].pc = "begin" /\ ~call[c].owner /\ call'[c].owner
           => call[c].req \notin claimed]_vars
  BY ClaimStep
<1>2. QED
  BY <1>1, BaseInvariant, PTL DEF Spec, ClaimedOnce

-----------------------------------------------------------------------------
(* Requests that were answered.                                              *)

Answers == LostIsLeft /\ LateFindsNothing /\ AnsweredIsFinal

LEMMA AnswersInit == Init => Answers
BY DEF Init, Answers, LostIsLeft, LateFindsNothing, AnsweredIsFinal, Executing, Idle

LEMMA AnswersNext ==
  ASSUME "read" \notin Faults
  PROVE  IInv /\ [Next]_vars => Answers'
<1> SUFFICES ASSUME IInv, [Next]_vars
             PROVE  Answers'
  OBVIOUS
<1>t. TypeOK /\ CursorOK /\ ClaimHasRow
  BY DEF IInv, BaseInv
<1>i. LostIsLeft /\ LateFindsNothing /\ AnsweredIsFinal
  BY DEF IInv
<1>1. ASSUME NEW r \in Requests, Answer(r)
      PROVE  Answers'
  <2>1. Saved(r) # None /\ Saved(r) \in Results
    BY <1>1, <1>t, SavedType DEF Answer, Get
  <2>2. \A q \in Requests : Saved(q)' = Saved(q)
    BY <1>1, <2>1, <1>t DEF Answer, Get, Saved, TypeOK
  <2>3. \A q \in Requests : q \in answered' => q \in answered \/ Saved(q) # None
    BY <1>1, <2>1 DEF Answer
  <2>4. \A c \in Calls : call[c].pc # "idle" => Req(c) \in Requests
    BY <1>t, PlanPath
  <2>5. call' = call /\ answered \subseteq answered'
    BY <1>1 DEF Answer
  <2>6. QED
    BY <1>i, <2>2, <2>3, <2>4, <2>5
       DEF Answers, LostIsLeft, LateFindsNothing, AnsweredIsFinal, Executing, Req
<1>2. ASSUME NEW c \in Calls, NEW r \in Requests, Arrive(c, r)
      PROVE  Answers'
  <2>1. Saved(r) = None
    BY <1>2 DEF Arrive, Get
  <2>2. \A q \in Requests : Saved(q)' = Saved(q)
    BY <1>2 DEF Arrive, Saved
  <2>3. call'[c].pc = "begin" /\ call'[c].req = r /\ call'[c].late = (r \in answered)
    BY <1>2, <1>t DEF Arrive, TypeOK, Idle
  <2>4. \A d \in Calls : d # c => call'[d] = call[d]
    BY <1>2, <1>t DEF Arrive, TypeOK
  <2>5. \A d \in Calls : call[d].pc # "idle" => Req(d) \in Requests
    BY <1>t, PlanPath
  <2>6. answered' = answered
    BY <1>2 DEF Arrive, history
  <2>7. QED
    BY <1>i, <2>1, <2>2, <2>3, <2>4, <2>5, <2>6
       DEF Answers, LostIsLeft, LateFindsNothing, AnsweredIsFinal, Executing, Req
<1>3. ASSUME NEW c \in Calls, Step(c)
      PROVE  Answers'
  <2>o. \A d \in Calls : d # c => call'[d] = call[d]
    BY <1>3, <1>t, OthersStay
  <2>q. \A d \in Calls : call[d].pc # "idle" => Req(d) \in Requests
    BY <1>t, PlanPath
  <2>1. CASE BeginClaims(c)
    <3>1. Req(c) \in Requests /\ rec[Req(c)] = None /\ done[Req(c)] = None
      BY <2>1, <2>q DEF BeginClaims, Claimable
    <3>2. Req(c) \notin claimed
      BY <3>1, <1>t DEF ClaimHasRow
    <3>3. Req(c) \notin answered
      BY <3>2, <1>t DEF ClaimHasRow
    <3>4. ~call[c].late
      BY <2>1, <3>3, <1>i DEF BeginClaims, LateFindsNothing
    <3>5. call'[c].pc = "verify" /\ call'[c].req = Req(c) /\ call'[c].late = call[c].late
      BY <2>1, <1>t DEF BeginClaims, TypeOK, Call, Req
    <3>6. \A q \in Requests : Saved(q)' = Saved(q)
      BY <2>1, <3>1, <1>t DEF BeginClaims, Saved, TypeOK, Results, None
    <3>7. answered' = answered
      BY <2>1 DEF BeginClaims
    <3>8. QED
      BY <1>i, <2>o, <2>q, <3>3, <3>4, <3>5, <3>6, <3>7
         DEF Answers, LostIsLeft, LateFindsNothing, AnsweredIsFinal, Executing, Req
  <2>2. CASE BeginFindsResult(c)
    <3>1. Req(c) \in Requests /\ Saved(Req(c)) # None
      BY <2>2, <2>q DEF BeginFindsResult
    <3>2. ~call[c].late
      BY <2>2, <3>1, <1>i DEF BeginFindsResult, LateFindsNothing
    <3>3. call'[c].pc = "verify" /\ call'[c].req = Req(c) /\ call'[c].late = call[c].late
      BY <2>2, <1>t DEF BeginFindsResult, Goto, TypeOK, Call, Req
    <3>4. \A q \in Requests : Saved(q)' = Saved(q)
      BY <2>2, <3>1, <1>t DEF BeginFindsResult, Saved, TypeOK, Results, None
    <3>5. answered' = answered
      BY <2>2 DEF BeginFindsResult, history
    <3>6. QED
      BY <1>i, <2>o, <2>q, <3>1, <3>2, <3>3, <3>4, <3>5
         DEF Answers, LostIsLeft, LateFindsNothing, AnsweredIsFinal, Executing, Req
  <2>3. CASE BeginAborts(c) \/ Deny(c)
    <3>1. call'[c].pc = "idle" /\ ~call'[c].late
      BY <2>3, <1>t DEF BeginAborts, Deny, End, Idle, TypeOK
    <3>2. UNCHANGED <<done, rec, answered>>
      BY <2>3 DEF BeginAborts, Deny, history
    <3>3. QED
      BY <1>i, <2>o, <3>1, <3>2
         DEF Answers, LostIsLeft, LateFindsNothing, AnsweredIsFinal, Executing, Req, Saved
  <2>4. CASE Accept(c) \/ Read(c) \/ ReadFails(c) \/ Write(c) \/ WriteFails(c)
             \/ CommandsSucceed(c) \/ CommandFails(c) \/ Restore(c)
    <3>1. UNCHANGED <<done, rec, answered>> /\ call[c].pc \in Executing
      BY <2>4 DEF Accept, Read, ReadFails, Write, WriteFails, CommandsSucceed, CommandFails,
                  Restore, Executing, history
    <3>2. call'[c].req = Req(c) /\ call'[c].late = call[c].late
      BY <2>4, <1>t DEF Accept, Read, ReadFails, Write, WriteFails, CommandsSucceed,
                  CommandFails, Restore, FailAndRestore, TypeOK, Call, Req
    <3>3. call'[c].pc # "begin"
      BY <2>4, <1>t DEF Accept, Read, ReadFails, Write, WriteFails, CommandsSucceed,
                  CommandFails, Restore, FailAndRestore, TypeOK, Call
    <3>4. QED
      BY <1>i, <2>o, <3>1, <3>2, <3>3
         DEF Answers, LostIsLeft, LateFindsNothing, AnsweredIsFinal, Executing, Req, Saved
  <2>5. CASE Complete(c)
    <3>1. /\ call[c].pc \in Executing
          /\ call[c].result \in Results
          /\ Req(c) \in Requests
      BY <2>5, <2>q, <1>t DEF Complete, Executing, CursorOK, TypeOK, Call
    <3>2. PICK r \in Requests : r = Req(c)
      BY <3>1
    <3>3. Saved(r)' # None
      <4>1. done'[r] = call[c].result
        BY <2>5, <3>2, <1>t DEF Complete, TypeOK
      <4>2. call[c].result # None
        BY <3>1 DEF Results, None
      <4>3. QED
        BY <4>1, <4>2 DEF Saved
    <3>4. \A q \in Requests : q # r => Saved(q)' = Saved(q)
      BY <2>5, <3>2, <1>t DEF Complete, Saved, TypeOK
    <3>5. answered' = answered \cup {r}
      BY <2>5, <3>2 DEF Complete
    <3>6. call'[c].pc = "idle" /\ ~call'[c].late
      BY <2>5, <1>t DEF Complete, End, TypeOK, Idle
    \* A late call at Begin for this request would have seen it lost, but then
    \* this call did not execute it.
    <3>7. ASSUME NEW d \in Calls, call[d].late, call[d].pc = "begin"
          PROVE  Req(d) # r
      BY <3>1, <3>2, <3>7, <1>i DEF LateFindsNothing, LostIsLeft
    <3>8. LostIsLeft'
      BY <1>i, <2>o, <2>q, <3>3, <3>4, <3>5, <3>6 DEF LostIsLeft, Executing, Req
    <3>9. LateFindsNothing'
      BY <1>i, <2>o, <2>q, <3>4, <3>5, <3>6, <3>7 DEF LateFindsNothing, Req
    <3>10. AnsweredIsFinal'
      BY <1>i, <2>o, <3>6 DEF AnsweredIsFinal
    <3>11. QED
      BY <3>8, <3>9, <3>10 DEF Answers
  <2>6. QED
    BY <1>3, <2>1, <2>2, <2>3, <2>4, <2>5 DEF Step
<1>4. CASE Crash
  BY <1>4, <1>t DEF Crash, Answers, LostIsLeft, LateFindsNothing, AnsweredIsFinal,
                    Executing, Idle, TypeOK
<1>5. CASE UNCHANGED vars
  BY <1>5, <1>i DEF vars, Answers, LostIsLeft, LateFindsNothing, AnsweredIsFinal, Req, Saved
<1>6. QED
  BY <1>1, <1>2, <1>3, <1>4, <1>5 DEF Next

\* The invariant that the answers rest on, if every row that is there is found.
THEOREM Invariant == ASSUME "read" \notin Faults PROVE Spec => []IInv
<1>1. Init => IInv
  BY BaseInvInductive, AnswersInit DEF IInv, Answers
<1>2. IInv /\ [Next]_vars => IInv'
  <2>1. IInv /\ [Next]_vars => Answers'
    BY AnswersNext
  <2>2. IInv /\ [Next]_vars => BaseInv'
    BY BaseInvInductive DEF IInv
  <2>3. QED
    BY <2>1, <2>2 DEF IInv, Answers
<1>3. QED
  BY <1>1, <1>2, PTL DEF Spec

\* A call that comes after the request was answered never executes the plan: not
\* even when the result was lost, because it could not be saved, in a crash.
THEOREM AnswersAreFinal == ASSUME "read" \notin Faults PROVE Spec => []AnsweredIsFinal
<1>1. IInv => AnsweredIsFinal
  BY DEF IInv
<1>2. QED
  BY <1>1, Invariant, PTL

-----------------------------------------------------------------------------
(* The calls implement ExecutionLedger: a step of theirs arrives, claims,    *)
(* follows, leaves or answers, or is not seen there.                         *)

Statuses == [r \in Requests |-> Status(r)]
WaitingFor == {<<c, Req(c)>> : c \in Waiting}
WorkingOn == {<<c, Req(c)>> : c \in Working}

LEMMA LedgerInit == Init => Ledger!Init
<1> SUFFICES ASSUME Init
             PROVE  Ledger!Init
  OBVIOUS
<1>1. Waiting = {} /\ Working = {}
  BY DEF Init, Waiting, Working, Executing, Idle
<1>2. \A r \in Requests : Status(r) = "new"
  BY DEF Init, Status
<1>3. QED
  BY <1>1, <1>2 DEF Ledger!Init

\* The pairs of call and request when one call, about r, changes.
LEMMA PairsOfOne ==
  ASSUME NEW c \in Calls, NEW r \in Requests,
         \A d \in Calls : d # c => call'[d] = call[d],
         call[c].pc # "idle" => Req(c) = r
  PROVE  /\ c \notin Waiting' => WaitingFor' = WaitingFor \ {<<c, r>>}
         /\ c \notin Working' => WorkingOn' = WorkingOn \ {<<c, r>>}
         /\ c \in Waiting' /\ call'[c].req = r => WaitingFor' = WaitingFor \cup {<<c, r>>}
         /\ c \in Working' /\ call'[c].req = r => WorkingOn' = WorkingOn \cup {<<c, r>>}
         /\ c \in Waiting => <<c, r>> \in WaitingFor
         /\ c \in Working => <<c, r>> \in WorkingOn
<1>1. \A d \in Calls : d # c => /\ d \in Waiting' <=> d \in Waiting
                                /\ d \in Working' <=> d \in Working
                                /\ Req(d)' = Req(d)
  BY DEF Waiting, Working, Req
<1>2. c \in Waiting \cup Working => Req(c) = r
  BY DEF Waiting, Working, Executing
<1>3. Waiting \subseteq Calls /\ Working \subseteq Calls
      /\ Waiting' \subseteq Calls /\ Working' \subseteq Calls
  BY DEF Waiting, Working
<1>4. c \notin Waiting' => WaitingFor' = WaitingFor \ {<<c, r>>}
  BY <1>1, <1>2, <1>3 DEF WaitingFor
<1>5. c \notin Working' => WorkingOn' = WorkingOn \ {<<c, r>>}
  BY <1>1, <1>2, <1>3 DEF WorkingOn
<1>6. c \in Waiting' /\ call'[c].req = r => WaitingFor' = WaitingFor \cup {<<c, r>>}
  BY <1>1, <1>2, <1>3 DEF WaitingFor, Req
<1>7. c \in Working' /\ call'[c].req = r => WorkingOn' = WorkingOn \cup {<<c, r>>}
  BY <1>1, <1>2, <1>3 DEF WorkingOn, Req
<1>8. QED
  BY <1>2, <1>4, <1>5, <1>6, <1>7 DEF WaitingFor, WorkingOn

LEMMA LedgerStutter ==
  ASSUME UNCHANGED <<claimed, answered, call>>
  PROVE  UNCHANGED Ledger!vars
BY DEF Ledger!vars, Status, Waiting, Working, Req

LEMMA LedgerArrive ==
  ASSUME IInv, NEW c \in Calls, NEW r \in Requests, Arrive(c, r)
  PROVE  Ledger!Next
<1>t. TypeOK
  BY DEF IInv, BaseInv
<1>1. /\ call[c].pc = "idle"
      /\ call'[c].pc = "begin" /\ call'[c].req = r /\ call'[c].late = (r \in answered)
      /\ \A d \in Calls : d # c => call'[d] = call[d]
      /\ UNCHANGED <<claimed, answered>>
  BY <1>t DEF Arrive, TypeOK, Idle, history
<1>2. c \notin Waiting /\ c \notin Working /\ c \notin Working'
  BY <1>1 DEF Waiting, Working, Executing
<1>3. Statuses' = Statuses
  BY <1>1 DEF Statuses, Status
<1>4. <<c, r>> \notin WorkingOn
  BY <1>2 DEF WorkingOn
<1>5. WorkingOn' = WorkingOn
  BY <1>1, <1>2, <1>4, PairsOfOne
<1>6. CASE r \in answered
  <2>1. c \notin Waiting'
    BY <1>1, <1>6 DEF Waiting
  <2>2. WaitingFor' = WaitingFor \ {<<c, r>>} /\ WorkingOn' = WorkingOn \ {<<c, r>>}
    BY <1>1, <1>2, <2>1, PairsOfOne
  <2>3. Ledger!Leave(c, r)
    BY <1>3, <2>2 DEF Ledger!Leave, Statuses, WaitingFor, WorkingOn
  <2>4. QED
    BY <2>3 DEF Ledger!Next
<1>7. CASE r \notin answered
  <2>1. c \in Waiting'
    BY <1>1, <1>7 DEF Waiting
  <2>2. WaitingFor' = WaitingFor \cup {<<c, r>>}
    BY <1>1, <2>1, PairsOfOne
  <2>3. Status(r) # "answered"
    BY <1>7 DEF Status
  <2>4. Ledger!Arrive(c, r)
    BY <1>3, <1>5, <2>2, <2>3 DEF Ledger!Arrive, Statuses, WaitingFor, WorkingOn
  <2>5. QED
    BY <2>4 DEF Ledger!Next
<1>8. QED
  BY <1>6, <1>7

\* Begin inserts the row: the request is new, and the call did not come late.
LEMMA LedgerClaim ==
  ASSUME IInv, NEW c \in Calls, BeginClaims(c)
  PROVE  Ledger!Next
<1>t. TypeOK
  BY DEF IInv, BaseInv
<1>r. PICK r \in Requests : r = Req(c)
  BY <1>t DEF BeginClaims, TypeOK, Req
<1>o. \A d \in Calls : d # c => call'[d] = call[d]
  BY <1>t DEF BeginClaims, TypeOK
<1>1. r \notin claimed /\ r \notin answered
  BY <1>r DEF BeginClaims, Claimable, IInv, BaseInv, ClaimHasRow
<1>2. ~call[c].late
  BY <1>1, <1>r DEF BeginClaims, IInv, LateFindsNothing
<1>3. call'[c].pc = "verify" /\ call'[c].req = r
  BY <1>t, <1>r DEF BeginClaims, TypeOK, Call, Req
<1>4. c \in Waiting /\ c \notin Waiting' /\ c \in Working'
  BY <1>2, <1>3 DEF BeginClaims, Waiting, Working, Executing
<1>5. /\ <<c, r>> \in WaitingFor
      /\ WaitingFor' = WaitingFor \ {<<c, r>>}
      /\ WorkingOn' = WorkingOn \cup {<<c, r>>}
  BY <1>r, <1>o, <1>3, <1>4, PairsOfOne
<1>6. Statuses[r] = "new" /\ Statuses' = [Statuses EXCEPT ![r] = "claimed"]
  <2>1. claimed' = claimed \cup {r} /\ answered' = answered
    BY <1>r DEF BeginClaims
  <2>2. \A q \in Requests : Status(q)' = IF q = r THEN "claimed" ELSE Status(q)
    BY <2>1, <1>1 DEF Status
  <2>3. Status(r) = "new"
    BY <1>1 DEF Status
  <2>4. QED
    BY <2>2, <2>3 DEF Statuses
<1>7. Ledger!Claim(c, r)
  BY <1>5, <1>6 DEF Ledger!Claim, Ledger!StartWork, Statuses, WaitingFor, WorkingOn
<1>8. QED
  BY <1>7 DEF Ledger!Next

\* Begin finds a result: the request is answered, but was not when the call came.
LEMMA LedgerFollow ==
  ASSUME IInv, NEW c \in Calls, BeginFindsResult(c)
  PROVE  Ledger!Next
<1>t. TypeOK
  BY DEF IInv, BaseInv
<1>r. PICK r \in Requests : r = Req(c)
  BY <1>t DEF BeginFindsResult, TypeOK, Req
<1>o. \A d \in Calls : d # c => call'[d] = call[d]
  BY <1>t DEF BeginFindsResult, Goto, TypeOK
<1>1. r \in answered /\ Saved(Req(c)) # None
  BY <1>r DEF BeginFindsResult, IInv, BaseInv, FoundIsAnswered
<1>2. ~call[c].late
  BY <1>1 DEF BeginFindsResult, IInv, LateFindsNothing
<1>3. call'[c].pc = "verify" /\ call'[c].req = r
  BY <1>t, <1>r DEF BeginFindsResult, Goto, TypeOK, Call, Req
<1>4. c \in Waiting /\ c \notin Waiting' /\ c \in Working'
  BY <1>2, <1>3 DEF BeginFindsResult, Waiting, Working, Executing
<1>5. /\ <<c, r>> \in WaitingFor
      /\ WaitingFor' = WaitingFor \ {<<c, r>>}
      /\ WorkingOn' = WorkingOn \cup {<<c, r>>}
  BY <1>r, <1>o, <1>3, <1>4, PairsOfOne
<1>6. Statuses[r] = "answered" /\ Statuses' = Statuses
  BY <1>1 DEF BeginFindsResult, history, Statuses, Status
<1>7. Ledger!Follow(c, r)
  BY <1>5, <1>6 DEF Ledger!Follow, Ledger!StartWork, Statuses, WaitingFor, WorkingOn
<1>8. QED
  BY <1>7 DEF Ledger!Next

\* A call that Begin turns away, or whose plan is not the approved one.
LEMMA LedgerLeave ==
  ASSUME IInv, NEW c \in Calls, BeginAborts(c) \/ Deny(c)
  PROVE  Ledger!Next
<1>t. TypeOK
  BY DEF IInv, BaseInv
<1>r. PICK r \in Requests : r = Req(c)
  BY <1>t DEF BeginAborts, Deny, TypeOK, Req
<1>o. \A d \in Calls : d # c => call'[d] = call[d]
  BY <1>t DEF BeginAborts, Deny, End, TypeOK
<1>1. c \notin Waiting' /\ c \notin Working'
  BY <1>t DEF BeginAborts, Deny, End, Idle, TypeOK, Waiting, Working, Executing
<1>2. WaitingFor' = WaitingFor \ {<<c, r>>} /\ WorkingOn' = WorkingOn \ {<<c, r>>}
  BY <1>r, <1>o, <1>1, PairsOfOne
<1>3. Statuses' = Statuses
  BY DEF BeginAborts, Deny, history, Statuses, Status
<1>4. Ledger!Leave(c, r)
  BY <1>2, <1>3 DEF Ledger!Leave, Statuses, WaitingFor, WorkingOn
<1>5. QED
  BY <1>4 DEF Ledger!Next

LEMMA LedgerAnswer ==
  ASSUME IInv, NEW c \in Calls, Complete(c)
  PROVE  Ledger!Next
<1>t. TypeOK
  BY DEF IInv, BaseInv
<1>r. PICK r \in Requests : r = Req(c)
  BY <1>t DEF Complete, TypeOK, Req
<1>o. \A d \in Calls : d # c => call'[d] = call[d]
  BY <1>t DEF Complete, End, TypeOK
<1>1. c \in Working /\ c \notin Working' /\ c \notin Waiting /\ c \notin Waiting'
  BY <1>t DEF Complete, End, Idle, TypeOK, Waiting, Working, Executing
<1>2. <<c, r>> \in WorkingOn /\ WorkingOn' = WorkingOn \ {<<c, r>>}
  BY <1>r, <1>o, <1>1, PairsOfOne
<1>3. WaitingFor' = WaitingFor
  <2>1. WaitingFor' = WaitingFor \ {<<c, r>>}
    BY <1>r, <1>o, <1>1, PairsOfOne
  <2>2. <<c, r>> \notin WaitingFor
    BY <1>1 DEF WaitingFor
  <2>3. QED
    BY <2>1, <2>2
<1>4. Statuses' = [Statuses EXCEPT ![r] = "answered"]
  <2>1. answered' = answered \cup {r} /\ claimed' = claimed
    BY <1>r DEF Complete
  <2>2. \A q \in Requests : Status(q)' = IF q = r THEN "answered" ELSE Status(q)
    BY <2>1 DEF Status
  <2>3. QED
    BY <2>2 DEF Statuses
<1>5. Ledger!Answer(c, r)
  BY <1>2, <1>3, <1>4 DEF Ledger!Answer, Statuses, WaitingFor, WorkingOn
<1>6. QED
  BY <1>5 DEF Ledger!Next

\* The steps of an execution, and a result given again, are not seen.
LEMMA LedgerWork ==
  ASSUME IInv, NEW c \in Calls,
         \/ Accept(c) \/ Read(c) \/ ReadFails(c) \/ Write(c) \/ WriteFails(c)
         \/ CommandsSucceed(c) \/ CommandFails(c) \/ Restore(c)
  PROVE  UNCHANGED Ledger!vars
<1>t. TypeOK
  BY DEF IInv, BaseInv
<1>o. \A d \in Calls : d # c => call'[d] = call[d]
  BY <1>t, OthersStay DEF Step
<1>1. UNCHANGED <<claimed, answered>> /\ call[c].pc \in Executing
  BY DEF Accept, Read, ReadFails, Write, WriteFails, CommandsSucceed, CommandFails,
         Restore, Executing, history
<1>2. call'[c].req = call[c].req /\ call'[c].pc \in Executing
  BY <1>t DEF Accept, Read, ReadFails, Write, WriteFails, CommandsSucceed,
              CommandFails, Restore, FailAndRestore, TypeOK, Call, Executing
<1>3. \A d \in Calls : /\ Req(d)' = Req(d)
                       /\ d \in Waiting' <=> d \in Waiting
                       /\ d \in Working' <=> d \in Working
  BY <1>1, <1>2, <1>o DEF Req, Waiting, Working, Executing
<1>4. Waiting' = Waiting /\ Working' = Working
      /\ Waiting \subseteq Calls /\ Working \subseteq Calls
  BY <1>3 DEF Waiting, Working
<1>5. WaitingFor' = WaitingFor /\ WorkingOn' = WorkingOn
  BY <1>3, <1>4 DEF WaitingFor, WorkingOn
<1>6. Statuses' = Statuses
  BY <1>1 DEF Statuses, Status
<1>7. QED
  BY <1>5, <1>6 DEF Ledger!vars, Statuses, WaitingFor, WorkingOn

LEMMA LedgerNext ==
  ASSUME IInv, [Next]_vars
  PROVE  [Ledger!Next]_(Ledger!vars)
<1>1. ASSUME NEW r \in Requests, Answer(r)
      PROVE  [Ledger!Next]_(Ledger!vars)
  <2>1. r \in answered
    BY <1>1 DEF Answer, Get, IInv, BaseInv, FoundIsAnswered
  <2>2. UNCHANGED <<claimed, answered, call>>
    BY <1>1, <2>1 DEF Answer
  <2>3. QED
    BY <2>2, LedgerStutter
<1>2. ASSUME NEW c \in Calls, Step(c)
      PROVE  [Ledger!Next]_(Ledger!vars)
  BY <1>2, LedgerClaim, LedgerFollow, LedgerLeave, LedgerAnswer, LedgerWork DEF Step
<1>3. CASE Crash
  <2>1. Waiting' = {} /\ Working' = {}
    BY <1>3 DEF Crash, Waiting, Working, Executing, Idle
  <2>2. Statuses' = Statuses
    BY <1>3 DEF Crash, Statuses, Status
  <2>3. Ledger!Crash
    BY <2>1, <2>2 DEF Ledger!Crash, Statuses
  <2>4. QED
    BY <2>3 DEF Ledger!Next
<1>4. CASE UNCHANGED vars
  BY <1>4, LedgerStutter DEF vars
<1>5. QED
  BY <1>1, <1>2, <1>3, <1>4, LedgerArrive DEF Next

\* The store with its two maps and its table, and the calls between their steps,
\* do what the ledger of claims and answers states, for any calls, plans, failures
\* of writes and crashes, if every row that is there is found.
THEOREM RunnerImplementsLedger ==
  ASSUME "read" \notin Faults
  PROVE  Spec => ImplementsLedger
<1>1. IInv /\ [Next]_vars => [Ledger!Next]_(Ledger!vars)
  BY LedgerNext
<1>2. QED
  BY <1>1, LedgerInit, Invariant, PTL DEF Spec, ImplementsLedger, Ledger!Spec

=============================================================================
