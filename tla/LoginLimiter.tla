---------------------------- MODULE LoginLimiter ----------------------------
(***************************************************************************)
(* The login handler of the Council and the limiter in front of it         *)
(* (internal/transport/council/rbac_routes.go): an attempt takes a pending *)
(* slot of its address under RBACAPI.mu, verifies the credentials without  *)
(* the lock, and gives the slot back as a failure or a success.            *)
(*                                                                         *)
(* A failure is the attempt that made it, together with its age; an        *)
(* attempt's name is used again once nothing remembers it.  Ages stop at   *)
(* Window, as older failures are not told apart.                           *)
(***************************************************************************)
EXTENDS Naturals, FiniteSets

CONSTANTS
  Clients,     \* addresses (clientIP)
  Attempts,    \* names of login requests
  Limit,       \* failures and pending attempts of an address: 5
  MaxClients,  \* limiterClientLimit: 1024
  Window       \* ticks of the clock in a minute

ASSUME LimiterAssumption ==
  /\ Limit \in Nat \ {0}
  /\ MaxClients \in Nat \ {0}
  /\ Window \in Nat \ {0}

None == "NONE"
ASSUME NoneIsNoClient == None \notin Clients

VARIABLES
  failures,  \* RBACAPI.failures: the failed attempts of an address
  pending,   \* RBACAPI.pending: how many attempts are being verified
  at,        \* the address whose slot an attempt holds, or None
  age,       \* ticks since an attempt failed
  wrong      \* history: failures of an address in the last Window, since it
             \* last logged in

vars == <<failures, pending, at, age, wrong>>

Init ==
  /\ failures = [c \in Clients |-> {}]
  /\ pending = [c \in Clients |-> 0]
  /\ at = [a \in Attempts |-> None]
  /\ age = [a \in Attempts |-> Window]
  /\ wrong = [c \in Clients |-> {}]

-----------------------------------------------------------------------------
\* attempt.After(cutoff)
Remembered(a) == age[a] < Window

\* pruneAllFailures: an address without failures has no entry.
Pruned(c) == {a \in failures[c] : Remembered(a)}

\* limiterClients, after pruning.
Known == {c \in Clients : Pruned(c) # {} \/ pending[c] > 0}

\* Variant: attempts that are being verified do not count.
HasRoomForFailures(c) == Cardinality(Pruned(c)) < Limit

HasRoom(c) == Cardinality(Pruned(c)) + pending[c] < Limit

\* Variant: the bound on the table of addresses is not enforced.
Anyone(c) == TRUE

MayEnter(c) == c \in Known \/ Cardinality(Known) < MaxClients

\* An attempt that nothing remembers.
Fresh(a) == at[a] = None /\ \A c \in Clients : a \notin failures[c] \cup wrong[c]

\* admitLoginAttempt takes a slot.
Admit(a, c) ==
  /\ Fresh(a)
  /\ MayEnter(c) /\ HasRoom(c)
  /\ failures' = [d \in Clients |-> Pruned(d)]
  /\ pending' = [pending EXCEPT ![c] = @ + 1]
  /\ at' = [at EXCEPT ![a] = c]
  /\ UNCHANGED <<age, wrong>>

\* admitLoginAttempt refuses: 429.
Refuse(c) ==
  /\ ~(MayEnter(c) /\ HasRoom(c))
  /\ failures' = [d \in Clients |-> Pruned(d)]
  /\ UNCHANGED <<pending, at, age, wrong>>

\* completeLoginAttempt gives the slot back.
Release(a) ==
  /\ pending' = [pending EXCEPT ![at[a]] = IF @ > 1 THEN @ - 1 ELSE 0]
  /\ at' = [at EXCEPT ![a] = None]

\* Variant: an early return of login that does not complete the attempt.
FailWithoutRelease(a) ==
  /\ at[a] # None
  /\ at' = [at EXCEPT ![a] = None]
  /\ failures' = [d \in Clients |-> Pruned(d)]
  /\ UNCHANGED <<pending, age, wrong>>

\* Login fails: no service, wrong credentials, an error of the database, or a
\* request that was cancelled.
Fail(a) ==
  /\ at[a] # None
  /\ Release(a)
  /\ failures' = [d \in Clients |->
                    IF d = at[a] THEN Pruned(d) \cup {a} ELSE Pruned(d)]
  /\ age' = [age EXCEPT ![a] = 0]
  /\ wrong' = [wrong EXCEPT ![at[a]] = @ \cup {a}]

\* Login succeeds, and the address' failures are forgotten.
Succeed(a) ==
  /\ at[a] # None
  /\ Release(a)
  /\ failures' = [d \in Clients |-> IF d = at[a] THEN {} ELSE Pruned(d)]
  /\ wrong' = [wrong EXCEPT ![at[a]] = {}]
  /\ UNCHANGED age

\* The clock (RBACAPI.now).
Older(a) == IF age[a] < Window THEN age[a] + 1 ELSE Window

Tick ==
  /\ age' = [a \in Attempts |-> Older(a)]
  /\ wrong' = [c \in Clients |-> {a \in wrong[c] : Older(a) < Window}]
  /\ UNCHANGED <<failures, pending, at>>

Next ==
  \/ \E c \in Clients, a \in Attempts : Admit(a, c)
  \/ \E c \in Clients : Refuse(c)
  \/ \E a \in Attempts : Fail(a) \/ Succeed(a)
  \/ Tick

Spec == Init /\ [][Next]_vars

\* Login returns, as the calls of the database that it makes do, and time passes.
\* (A panic in Login would skip the release, which is not deferred: not modelled.)
Fairness == WF_vars(Tick) /\ \A a \in Attempts : WF_vars(Fail(a) \/ Succeed(a))
FairSpec == Spec /\ Fairness

-----------------------------------------------------------------------------
TypeOK ==
  /\ failures \in [Clients -> SUBSET Attempts]
  /\ pending \in [Clients -> Nat]
  /\ at \in [Attempts -> Clients \cup {None}]
  /\ age \in [Attempts -> 0..Window]
  /\ wrong \in [Clients -> SUBSET Attempts]

\* No address fails more than Limit times within Window without logging in in
\* between, counting the attempts whose outcome is still open: concurrent
\* logins cannot pass the check together (admitLoginAttempt counts pending
\* attempts), whenever the failures are pruned.
GuessesAreBounded ==
  \A c \in Clients :
    Cardinality(wrong[c]) + Cardinality({a \in Attempts : at[a] = c}) <= Limit

\* The counter of an address is exactly the number of its attempts that are
\* being verified: none is lost on any way out of login, which would take the
\* address' slots away for ever, and none is given back twice.
SlotsAreAccounted ==
  \A c \in Clients : pending[c] = Cardinality({a \in Attempts : at[a] = c})

\* The limiter holds at most limiterClientLimit addresses, whichever of them
\* are held for a failure and whichever for a pending attempt.
TableIsBounded ==
  Cardinality({c \in Clients : failures[c] # {} \/ pending[c] > 0}) <= MaxClients

\* An address that is refused for its failures is not refused for ever: when
\* its attempts end and a minute passes, it has room again.
LockoutEnds == \A c \in Clients : ~HasRoom(c) ~> HasRoom(c)
=============================================================================
