---------------------------- MODULE RunnerService ----------------------------
(***************************************************************************)
(* The Workspace Runner's ExecuteApprovedPlan (runner/grpc/service.go):    *)
(* concurrent calls, told apart by a request id, that claim the request    *)
(* in the idempotency store (runner/idempotency/store.go), apply its       *)
(* patches as a file transaction (runner/files/transaction.go), run its    *)
(* commands, restore the files when one fails, and record the result.      *)
(*                                                                         *)
(* A method of the store is one action, as it holds Store.mu throughout;   *)
(* so is the reading or replacing of one file.  Between them other calls   *)
(* run, and the Runner may die and start again with its database and the   *)
(* workspace as they are.                                                  *)
(***************************************************************************)
EXTENDS Naturals, Sequences

CONSTANTS
  Calls,       \* calls that the gRPC server handles at once
  Requests,    \* request ids, each with one approved plan
  Paths,       \* files of the workspace
  Patches,     \* Patches[r]: the path of each patch of r's plan, in order
  Mismatched,  \* requests whose plan does not have the approved hash
  Faults       \* failures that happen: a row is not read ("read") or not
               \* written ("row"), a file is not replaced, the Runner crashes

ASSUME RunnerAssumption ==
  /\ Patches \in [Requests -> Seq(Paths)]
  /\ Mismatched \subseteq Requests
  /\ Faults \subseteq {"read", "row", "file", "crash"}

Results == {"SUCCEEDED", "FAILED", "ROLLBACK_FAILED"}
None == "NONE"

VARIABLES
  done,      \* Store.done: results by request, or None
  running,   \* Store.running
  rec,       \* table of ExecutionRecord: None (no row), "running" or a result
  files,     \* the patches that each file of the workspace contains
  call,      \* the state of each call
  claimed,   \* history: requests whose row was ever inserted
  started,   \* history: requests whose plan ever passed the hash check
  answered,  \* history: requests of which a caller got a result
  alone      \* history: calls during which no other call wrote a file

vars == <<done, running, rec, files, call, claimed, started, answered, alone>>
history == <<claimed, started, answered, alone>>

\* The n-th patch of a request's plan.
Entries == Requests \X Nat

PCs == {"idle", "begin", "verify", "read", "write", "commands", "restore", "complete"}

Idle == [pc |-> "idle", req |-> None, owner |-> FALSE, next |-> 0, snapshots |-> <<>>,
         result |-> None, late |-> FALSE]

Call == [pc: PCs, req: Requests \cup {None}, owner: BOOLEAN, next: Nat,
         snapshots: Seq(SUBSET Entries), result: Results \cup {None}, late: BOOLEAN]

Req(c) == call[c].req
Path(c, i) == Patches[Req(c)][i]
Size(c) == Len(Patches[Req(c)])

Goto(c, pc) == call' = [call EXCEPT ![c].pc = pc]
End(c) == call' = [call EXCEPT ![c] = Idle]

-----------------------------------------------------------------------------
Init ==
  /\ done = [r \in Requests |-> None]
  /\ running = {}
  /\ rec = [r \in Requests |-> None]
  /\ files = [p \in Paths |-> {}]
  /\ call = [c \in Calls |-> Idle]
  /\ claimed = {}
  /\ started = {}
  /\ answered = {}
  /\ alone = {}

-----------------------------------------------------------------------------
(* The idempotency store.                                                    *)

\* Variant: the row's status is not looked at.
SavedAnyRow(r) == IF done[r] # None THEN done[r] ELSE rec[r]

\* The result of a request: in memory, or else in its row.
Saved(r) ==
  IF done[r] # None THEN done[r] ELSE IF rec[r] \in Results THEN rec[r] ELSE None

\* Variant: only what this process completed is looked up.
GetInMemory(r) == done[r]

Get(r) == Saved(r)

\* Get finds a result: ExecuteApprovedPlan or GetExecution returns it.
Answer(r) ==
  /\ Get(r) # None
  /\ done' = [done EXCEPT ![r] = Get(r)]
  /\ answered' = answered \cup {r}
  /\ UNCHANGED <<running, rec, files, call, claimed, started, alone>>

\* Get finds none, or does not find the row, and the call goes on to Begin.
Arrive(c, r) ==
  /\ call[c].pc = "idle"
  /\ Get(r) = None \/ ("read" \in Faults /\ done[r] = None)
  /\ call' = [call EXCEPT ![c] = [Idle EXCEPT !.pc = "begin", !.req = r,
                                              !.late = r \in answered]]
  /\ UNCHANGED <<done, running, rec, files>>
  /\ UNCHANGED history

\* Variant: a row that says "running" is left by a dead process: take it over.
ClaimableIfUnfinished(r) == done[r] = None /\ r \notin running /\ rec[r] \notin Results

\* Begin inserts a row, which the primary key allows once.
Claimable(r) == done[r] = None /\ r \notin running /\ rec[r] = None

BeginClaims(c) ==
  /\ call[c].pc = "begin"
  /\ Claimable(Req(c))
  /\ rec' = [rec EXCEPT ![Req(c)] = "running"]
  /\ running' = running \cup {Req(c)}
  /\ call' = [call EXCEPT ![c].pc = "verify", ![c].owner = TRUE]
  /\ claimed' = claimed \cup {Req(c)}
  /\ UNCHANGED <<done, files, started, answered, alone>>

\* Begin answers that the request is in progress, or could not insert its row.
BeginAborts(c) ==
  LET r == Req(c)
  IN  /\ call[c].pc = "begin"
      /\ done[r] = None
      /\ \/ r \in running
         \/ rec[r] = "running"
         \/ Claimable(r) /\ "row" \in Faults
         \/ rec[r] \in Results /\ "read" \in Faults
      /\ End(c)
      /\ UNCHANGED <<done, running, rec, files>>
      /\ UNCHANGED history

\* Begin finds the request completed since Get did not: it returns no error, and
\* the call goes on as if it had claimed the request.
BeginFindsResult(c) ==
  LET r == Req(c)
  IN  /\ call[c].pc = "begin"
      /\ Saved(r) # None
      /\ done' = [done EXCEPT ![r] = Saved(r)]
      /\ Goto(c, "verify")
      /\ UNCHANGED <<running, rec, files>>
      /\ UNCHANGED history

\* Variant: the early return does not release the request.
ReleasedNever(c) == running

Released(c) == IF call[c].owner THEN running \ {Req(c)} ELSE running

\* approval.Verify fails: the call ends, and the row stays "running".
Deny(c) ==
  /\ call[c].pc = "verify"
  /\ Req(c) \in Mismatched
  /\ running' = Released(c)
  /\ End(c)
  /\ UNCHANGED <<done, rec, files>>
  /\ UNCHANGED history

Accept(c) ==
  /\ call[c].pc = "verify"
  /\ Req(c) \notin Mismatched
  /\ call' = [call EXCEPT ![c].pc = IF Size(c) > 0 THEN "read" ELSE "commands",
                          ![c].next = 1]
  /\ started' = started \cup {Req(c)}
  /\ alone' = alone \cup {c}
  /\ UNCHANGED <<done, running, rec, files, claimed, answered>>

-----------------------------------------------------------------------------
(* Transaction.Apply: all files are read and patched in memory, then all are *)
(* replaced.                                                                 *)

Read(c) ==
  LET i == call[c].next
  IN  /\ call[c].pc = "read"
      /\ call' = [call EXCEPT ![c].snapshots = Append(@, files[Path(c, i)]),
                              ![c].pc = IF i = Size(c) THEN "write" ELSE "read",
                              ![c].next = IF i = Size(c) THEN 1 ELSE i + 1]
      /\ UNCHANGED <<done, running, rec, files>>
      /\ UNCHANGED history

\* The path is refused, or the file is not the one the patch was made for.
ReadFails(c) ==
  /\ call[c].pc = "read"
  /\ call' = [call EXCEPT ![c].pc = "complete", ![c].result = "FAILED"]
  /\ UNCHANGED <<done, running, rec, files>>
  /\ UNCHANGED history

WriteFile(c, p, content) ==
  /\ files' = [files EXCEPT ![p] = content]
  /\ alone' = alone \cap {c}

Write(c) ==
  LET i == call[c].next
  IN  /\ call[c].pc = "write"
      /\ WriteFile(c, Path(c, i), call[c].snapshots[i] \cup {<<Req(c), i>>})
      /\ call' = [call EXCEPT ![c].pc = IF i = Size(c) THEN "commands" ELSE "write",
                              ![c].next = i + 1]
      /\ UNCHANGED <<done, running, rec, claimed, started, answered>>

\* Variant: the restoring starts at the first snapshot, and so ends with it.
FailAndRestoreOne(c) ==
  call' = [call EXCEPT ![c].pc = IF Size(c) > 0 THEN "restore" ELSE "complete",
                       ![c].next = 1, ![c].result = "FAILED"]

\* The plan failed: every snapshot is restored, the last one first.
FailAndRestore(c) ==
  call' = [call EXCEPT ![c].pc = IF Size(c) > 0 THEN "restore" ELSE "complete",
                       ![c].next = Size(c), ![c].result = "FAILED"]

WriteFails(c) ==
  /\ call[c].pc = "write"
  /\ "file" \in Faults
  /\ FailAndRestore(c)
  /\ UNCHANGED <<done, running, rec, files>>
  /\ UNCHANGED history

\* Every command of the plan and of its verification succeeds ...
CommandsSucceed(c) ==
  /\ call[c].pc = "commands"
  /\ call' = [call EXCEPT ![c].pc = "complete", ![c].result = "SUCCEEDED"]
  /\ UNCHANGED <<done, running, rec, files>>
  /\ UNCHANGED history

\* ... or one fails or times out, and those after it are not run.
CommandFails(c) ==
  /\ call[c].pc = "commands"
  /\ FailAndRestore(c)
  /\ UNCHANGED <<done, running, rec, files>>
  /\ UNCHANGED history

\* restore goes on after an error.
Restore(c) ==
  LET i == call[c].next
  IN  /\ call[c].pc = "restore"
      /\ \/ /\ WriteFile(c, Path(c, i), call[c].snapshots[i])
            /\ call' = [call EXCEPT ![c].pc = IF i = 1 THEN "complete" ELSE "restore",
                                    ![c].next = i - 1]
         \/ /\ "file" \in Faults
            /\ call' = [call EXCEPT ![c].pc = IF i = 1 THEN "complete" ELSE "restore",
                                    ![c].next = i - 1,
                                    ![c].result = "ROLLBACK_FAILED"]
            /\ UNCHANGED <<files, alone>>
      /\ UNCHANGED <<done, running, rec, claimed, started, answered>>

\* Complete, whose Save may fail unnoticed, and the answer to the caller.  The
\* release that follows finds nothing left to delete.
Complete(c) ==
  LET r == Req(c)
  IN  /\ call[c].pc = "complete"
      /\ done' = [done EXCEPT ![r] = call[c].result]
      /\ \/ rec' = [rec EXCEPT ![r] = call[c].result]
         \/ "row" \in Faults /\ rec' = rec
      /\ running' = running \ {r}
      /\ answered' = answered \cup {r}
      /\ End(c)
      /\ UNCHANGED <<files, claimed, started, alone>>

\* The Runner dies and is started again.
Crash ==
  /\ "crash" \in Faults
  /\ done' = [r \in Requests |-> None]
  /\ running' = {}
  /\ call' = [c \in Calls |-> Idle]
  /\ alone' = {}
  /\ UNCHANGED <<rec, files, claimed, started, answered>>

-----------------------------------------------------------------------------
Step(c) ==
  \/ BeginClaims(c) \/ BeginAborts(c) \/ BeginFindsResult(c)
  \/ Deny(c) \/ Accept(c)
  \/ Read(c) \/ ReadFails(c)
  \/ Write(c) \/ WriteFails(c)
  \/ CommandsSucceed(c) \/ CommandFails(c)
  \/ Restore(c)
  \/ Complete(c)

Next ==
  \/ \E r \in Requests : Answer(r)
  \/ \E c \in Calls, r \in Requests : Arrive(c, r)
  \/ \E c \in Calls : Step(c)
  \/ Crash

Spec == Init /\ [][Next]_vars

-----------------------------------------------------------------------------
TypeOK ==
  /\ done \in [Requests -> Results \cup {None}]
  /\ running \subseteq Requests
  /\ rec \in [Requests -> Results \cup {None, "running"}]
  /\ files \in [Paths -> SUBSET Entries]
  /\ call \in [Calls -> Call]
  /\ \A c \in Calls : call[c].pc # "idle" => call[c].req \in Requests
  /\ claimed \subseteq Requests
  /\ started \subseteq Requests
  /\ answered \subseteq Requests
  /\ alone \subseteq Calls

Executing == {"verify", "read", "write", "commands", "restore", "complete"}

\* A request is claimed once, across concurrent calls, lost results and restarts.
ClaimedOnce ==
  [][\A c \in Calls : call[c].pc = "begin" /\ ~call[c].owner /\ call'[c].owner
       => call[c].req \notin claimed]_vars

\* A call that comes after the request was answered never executes it again, even
\* if the result was neither kept in memory nor saved.
AnsweredIsFinal ==
  \A c \in Calls : call[c].late => call[c].pc \notin Executing

\* A request that memory says is running has a call that will release it.
RunningHasOwner ==
  \A r \in running : \E c \in Calls :
    call[c].owner /\ call[c].req = r /\ call[c].pc \in Executing

\* After a failure every file is what it was when it was read.  After a success
\* every file that was patched is what it was, with the last of the call's patches
\* to it: of several to one file the earlier ones are lost, as each was made from
\* the file as it was read.
Reported(c) ==
  \A i \in DOMAIN call[c].snapshots :
    LET snapshot == call[c].snapshots[i]
        last == \A j \in DOMAIN call[c].snapshots : j > i => Path(c, j) # Path(c, i)
    IN  /\ call[c].result = "FAILED" => files[Path(c, i)] = snapshot
        /\ call[c].result = "SUCCEEDED" /\ last
             => files[Path(c, i)] = snapshot \cup {<<Req(c), i>>}

\* A call that no other one disturbed leaves the workspace as its report implies,
\* wherever its patches fail or are restored half way: as it was after FAILED, and
\* with the last patch to each file after SUCCEEDED.
EndsAsReported ==
  \A c \in alone : call[c].pc = "complete" => Reported(c)

\* Until a request is answered one call at most executes its plan, although calls
\* overlap, results are lost and the Runner is restarted.
OneExecutes ==
  \A c, d \in Calls :
    /\ call[c].pc \in Executing /\ call[d].pc \in Executing
    /\ Req(c) = Req(d) /\ Req(c) \notin answered
    => c = d

\* The store, its calls and its crashes do what ExecutionLedger allows.
Waiting == {c \in Calls : call[c].pc = "begin" /\ ~call[c].late}
Working == {c \in Calls : call[c].pc \in Executing}
Status(r) ==
  IF r \in answered THEN "answered" ELSE IF r \in claimed THEN "claimed" ELSE "new"

Ledger == INSTANCE ExecutionLedger WITH
            status <- [r \in Requests |-> Status(r)],
            waiting <- {<<c, Req(c)>> : c \in Waiting},
            working <- {<<c, Req(c)>> : c \in Working}

ImplementsLedger == Ledger!Spec

-----------------------------------------------------------------------------
(* The inductive invariant.                                                  *)

\* Rows are never deleted, and nothing is executed or answered without one.
ClaimHasRow ==
  /\ \A r \in Requests : rec[r] # None <=> r \in claimed
  /\ \A r \in Requests : done[r] # None => r \in claimed
  /\ \A c \in Calls : call[c].pc \in Executing => Req(c) \in claimed
  /\ answered \subseteq claimed

\* The transaction's position is in the plan, and what is written back was read.
CursorOK ==
  \A c \in Calls :
    LET pc == call[c].pc
    IN  /\ pc \in {"read", "write", "restore"} => call[c].next \in 1 .. Size(c)
        /\ pc \in {"begin", "verify"} => call[c].snapshots = <<>>
        /\ pc = "read" => Len(call[c].snapshots) = call[c].next - 1
        /\ pc \in {"write", "commands", "restore"} => Len(call[c].snapshots) = Size(c)
        /\ pc = "commands" => call[c].next = Size(c) + 1
        /\ pc \in {"restore", "complete"} => call[c].result # None

\* A result is lost only with the process that computed it: no call executes a
\* request that was answered and whose result is not there.
LostIsLeft ==
  \A c \in Calls : call[c].pc \in Executing /\ Req(c) \in answered => Saved(Req(c)) # None

\* A call that comes late and goes on to Begin came because the result was lost.
LateFindsNothing ==
  \A c \in Calls : call[c].late /\ call[c].pc = "begin" =>
    Req(c) \in answered /\ Saved(Req(c)) = None

\* Where a transaction is, if no other one has written since it began.  Files that
\* it patches twice were read alike; until the first write they are as they were
\* read; of the patches written so far the last one of a file is there; and of the
\* restoring, which goes backwards, what is done is done.
SoFar(c) ==
  LET pc == call[c].pc
      snapshots == call[c].snapshots
      next == call[c].next
  IN  /\ \A i, j \in DOMAIN snapshots : Path(c, i) = Path(c, j) => snapshots[i] = snapshots[j]
      /\ pc = "read" => \A i \in DOMAIN snapshots : files[Path(c, i)] = snapshots[i]
      /\ pc \in {"write", "commands"} =>
           \A i \in 1 .. next - 1 :
             (\A j \in i + 1 .. next - 1 : Path(c, j) # Path(c, i))
               => files[Path(c, i)] = snapshots[i] \cup {<<Req(c), i>>}
      /\ pc = "restore" /\ call[c].result = "FAILED" =>
           \A i \in next + 1 .. Size(c) : files[Path(c, i)] = snapshots[i]
      /\ pc = "complete" => Reported(c)

Undisturbed == \A c \in alone : SoFar(c)

\* A result that can be found was given to a caller.
FoundIsAnswered == \A r \in Requests : Saved(r) # None => r \in answered

\* What holds whatever fails ...
BaseInv ==
  /\ TypeOK /\ ClaimHasRow /\ CursorOK /\ RunningHasOwner /\ Undisturbed
  /\ FoundIsAnswered /\ OneExecutes

\* ... and what holds if a row that is there is found.
IInv == BaseInv /\ LostIsLeft /\ LateFindsNothing /\ AnsweredIsFinal

-----------------------------------------------------------------------------
(* What the documents say and the code does not do.                          *)

\* "A repeated request must return the original result and must not apply its
\* patches or commands again".
ExecutedOnce ==
  [][\A c \in Calls : call[c].pc = "verify" /\ call'[c].pc \in Executing \ {"verify"}
       => call[c].req \notin started]_vars

=============================================================================
