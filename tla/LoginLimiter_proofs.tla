------------------------ MODULE LoginLimiter_proofs ------------------------
(***************************************************************************)
(* Proofs about LoginLimiter for any addresses, attempts, limit, table     *)
(* bound and window.                                                       *)
(***************************************************************************)
EXTENDS LoginLimiter, FiniteSetTheorems, TLAPS

Slots(c) == {a \in Attempts : at[a] = c}
Held == {c \in Clients : failures[c] # {} \/ pending[c] > 0}

-----------------------------------------------------------------------------
(* The inductive invariant, by parts.                                        *)

\* The counter of an address, with the finiteness that counting needs.
Accounted ==
  \A c \in Clients : IsFiniteSet(Slots(c)) /\ pending[c] = Cardinality(Slots(c))

\* An attempt that is being verified has not failed.
PendingIsOpen ==
  \A a \in Attempts : at[a] # None => \A c \in Clients : a \notin failures[c]

\* The failures that count are all remembered.
WrongIsRemembered == \A c \in Clients : wrong[c] \subseteq Pruned(c)

Bounded ==
  \A c \in Clients :
    IsFiniteSet(failures[c]) /\ Cardinality(Pruned(c)) + pending[c] <= Limit

Table == IsFiniteSet(Held) /\ Cardinality(Held) <= MaxClients

IInv == TypeOK /\ Accounted /\ PendingIsOpen /\ WrongIsRemembered /\ Bounded /\ Table

-----------------------------------------------------------------------------
LEMMA InitHolds == Init => IInv
<1> SUFFICES ASSUME Init PROVE IInv
  OBVIOUS
<1> USE DEF Init
<1>1. TypeOK
  BY LimiterAssumption DEF TypeOK
<1>2. Accounted
  <2>1. \A c \in Clients : Slots(c) = {}
    BY NoneIsNoClient DEF Slots
  <2> QED
    BY <2>1, FS_EmptySet DEF Accounted
<1>3. PendingIsOpen /\ WrongIsRemembered
  BY DEF PendingIsOpen, WrongIsRemembered
<1>4. Bounded
  <2>1. \A c \in Clients : Pruned(c) = {}
    BY DEF Pruned
  <2> QED
    BY <2>1, FS_EmptySet, LimiterAssumption DEF Bounded
<1>5. Table
  <2>1. Held = {}
    BY DEF Held
  <2> QED
    BY <2>1, FS_EmptySet, LimiterAssumption DEF Table
<1> QED
  BY <1>1, <1>2, <1>3, <1>4, <1>5 DEF IInv

\* What remains of the failures of an address is part of them.
LEMMA PrunedIsPart ==
  ASSUME TypeOK, Bounded, NEW c \in Clients
  PROVE  /\ Pruned(c) \subseteq failures[c]
         /\ Pruned(c) \in SUBSET Attempts
         /\ IsFiniteSet(Pruned(c)) /\ Cardinality(Pruned(c)) \in Nat
<1>1. Pruned(c) \in SUBSET failures[c] /\ IsFiniteSet(failures[c])
  BY DEF Pruned, Bounded
<1>2. IsFiniteSet(Pruned(c))
  BY <1>1, FS_Subset
<1> QED
  BY <1>1, <1>2, FS_CardinalityType DEF TypeOK

\* Pruning makes no address known, and none unknown that limiterClients counts.
LEMMA KnownIsHeld ==
  ASSUME IInv
  PROVE  /\ Known \subseteq Held
         /\ IsFiniteSet(Known) /\ Cardinality(Known) \in Nat
         /\ Cardinality(Known) <= MaxClients
<1>1. Known \in SUBSET Held
  BY DEF Known, Held, Pruned
<1>2. IsFiniteSet(Known) /\ Cardinality(Known) <= Cardinality(Held)
  BY <1>1, FS_Subset DEF IInv, Table
<1>3. Cardinality(Held) \in Nat /\ Cardinality(Known) \in Nat
  BY <1>2, FS_CardinalityType DEF IInv, Table
<1> QED
  BY <1>1, <1>2, <1>3, LimiterAssumption DEF IInv, Table

\* Fewer held addresses keep the table within its bound.
LEMMA TableShrinks ==
  ASSUME Table, NEW S \in SUBSET Held
  PROVE  IsFiniteSet(S) /\ Cardinality(S) <= MaxClients
<1>1. IsFiniteSet(S) /\ Cardinality(S) <= Cardinality(Held)
  BY FS_Subset DEF Table
<1>2. Cardinality(S) \in Nat /\ Cardinality(Held) \in Nat
  BY <1>1, FS_CardinalityType DEF Table
<1> QED
  BY <1>1, <1>2, LimiterAssumption DEF Table

-----------------------------------------------------------------------------
(* Admission                                                                 *)

LEMMA PruningKeeps ==
  ASSUME IInv, NEW d \in Clients, age' = age, wrong' = wrong,
         failures' = [c \in Clients |-> Pruned(c)]
  PROVE  /\ failures'[d] = Pruned(d) /\ Pruned(d)' = Pruned(d)
         /\ IsFiniteSet(failures[d]') /\ wrong'[d] \subseteq Pruned(d)'
<1>1. failures'[d] = Pruned(d)
  OBVIOUS
<1>2. Pruned(d)' = Pruned(d)
  BY <1>1 DEF Pruned, Remembered
<1> QED
  BY <1>1, <1>2, PrunedIsPart DEF IInv, WrongIsRemembered

LEMMA AdmitStep ==
  ASSUME IInv, NEW a \in Attempts, NEW c \in Clients, Admit(a, c)
  PROVE  IInv'
<1> USE DEF IInv
<1>p. \A d \in Clients : /\ Pruned(d) \in SUBSET Attempts
                         /\ IsFiniteSet(Pruned(d)) /\ Cardinality(Pruned(d)) \in Nat
  BY PrunedIsPart
<1>k. \A d \in Clients : /\ failures'[d] = Pruned(d) /\ Pruned(d)' = Pruned(d)
                         /\ IsFiniteSet(failures[d]') /\ wrong'[d] \subseteq Pruned(d)'
  BY PruningKeeps DEF Admit
<1>c. c # None /\ at[a] = None
  BY NoneIsNoClient DEF Admit, Fresh
<1>1. TypeOK'
  BY <1>p DEF Admit, TypeOK
<1>2. Accounted'
  <2> SUFFICES ASSUME NEW d \in Clients
               PROVE  IsFiniteSet(Slots(d))' /\ pending'[d] = Cardinality(Slots(d)')
    BY DEF Accounted
  <2>a. IsFiniteSet(Slots(d)) /\ pending[d] = Cardinality(Slots(d)) /\ a \notin Slots(d)
    BY <1>c, NoneIsNoClient DEF Accounted, Slots
  <2>1. CASE d = c
    <3>1. Slots(d)' = Slots(d) \cup {a}
      BY <2>1, <1>c DEF Admit, Slots, TypeOK
    <3>2. pending'[d] = pending[d] + 1
      BY <2>1 DEF Admit, TypeOK
    <3> QED
      BY <2>a, <3>1, <3>2, FS_AddElement
  <2>2. CASE d # c
    <3>1. Slots(d)' = Slots(d)
      BY <2>2, <1>c, NoneIsNoClient DEF Admit, Slots, TypeOK
    <3>2. pending'[d] = pending[d]
      BY <2>2 DEF Admit, TypeOK
    <3> QED
      BY <2>a, <3>1, <3>2
  <2> QED
    BY <2>1, <2>2
<1>3. PendingIsOpen'
  <2> SUFFICES ASSUME NEW b \in Attempts, at'[b] # None, NEW d \in Clients
               PROVE  b \notin failures'[d]
    BY DEF PendingIsOpen
  <2>1. CASE b = a
    BY <2>1, <1>k DEF Admit, Fresh, Pruned
  <2>2. CASE b # a
    BY <2>2, <1>k DEF Admit, TypeOK, PendingIsOpen, Pruned
  <2> QED
    BY <2>1, <2>2
<1>4. WrongIsRemembered'
  BY <1>k DEF WrongIsRemembered
<1>5. Bounded'
  <2> SUFFICES ASSUME NEW d \in Clients
               PROVE  IsFiniteSet(failures[d]') /\ Cardinality(Pruned(d)') + pending'[d] <= Limit
    BY DEF Bounded
  <2>1. Cardinality(Pruned(d)) \in Nat /\ pending[d] \in Nat /\ Limit \in Nat
    BY <1>p, LimiterAssumption DEF TypeOK
  <2>2. CASE d = c
    BY <2>1, <2>2, <1>k DEF Admit, HasRoom, TypeOK
  <2>3. CASE d # c
    BY <2>1, <2>3, <1>k DEF Admit, Bounded, TypeOK
  <2> QED
    BY <2>2, <2>3
<1>6. Table'
  <2>1. Held' \in SUBSET (Known \cup {c})
    BY <1>k DEF Held, Known, Admit, TypeOK
  <2>2. /\ IsFiniteSet(Known) /\ Cardinality(Known) \in Nat
        /\ Cardinality(Known) <= MaxClients
    BY KnownIsHeld
  <2>3. /\ IsFiniteSet(Known \cup {c})
        /\ Cardinality(Known \cup {c}) = IF c \in Known THEN Cardinality(Known)
                                         ELSE Cardinality(Known) + 1
    BY <2>2, FS_AddElement
  <2>4. Cardinality(Known \cup {c}) <= MaxClients /\ Cardinality(Known \cup {c}) \in Nat
    BY <2>2, <2>3, LimiterAssumption DEF Admit, MayEnter
  <2>5. IsFiniteSet(Held') /\ Cardinality(Held') <= Cardinality(Known \cup {c})
    BY <2>1, <2>3, FS_Subset
  <2>6. Cardinality(Held') \in Nat
    BY <2>5, FS_CardinalityType
  <2> QED
    BY <2>4, <2>5, <2>6, LimiterAssumption DEF Table
<1> QED
  BY <1>1, <1>2, <1>3, <1>4, <1>5, <1>6

LEMMA RefuseStep ==
  ASSUME IInv, NEW c \in Clients, Refuse(c)
  PROVE  IInv'
<1> USE DEF IInv
<1>p. \A d \in Clients : Pruned(d) \in SUBSET Attempts
  BY PrunedIsPart
<1>k. \A d \in Clients : /\ failures'[d] = Pruned(d) /\ Pruned(d)' = Pruned(d)
                         /\ IsFiniteSet(failures[d]') /\ wrong'[d] \subseteq Pruned(d)'
  BY PruningKeeps DEF Refuse
<1>1. TypeOK'
  BY <1>p DEF Refuse, TypeOK
<1>2. Accounted'
  BY DEF Refuse, Accounted, Slots
<1>3. PendingIsOpen'
  BY <1>k DEF Refuse, PendingIsOpen, Pruned
<1>4. WrongIsRemembered'
  BY <1>k DEF WrongIsRemembered
<1>5. Bounded'
  BY <1>k DEF Refuse, Bounded
<1>6. Table'
  <2>1. Held' \in SUBSET Held
    BY <1>k DEF Held, Pruned, Refuse
  <2> QED
    BY <2>1, TableShrinks DEF Table
<1> QED
  BY <1>1, <1>2, <1>3, <1>4, <1>5, <1>6

-----------------------------------------------------------------------------
(* An attempt ends.                                                          *)

\* A slot that is given back was counted, and leaves the count right.
LEMMA ReleaseCounts ==
  ASSUME IInv, NEW a \in Attempts, at[a] # None, Release(a)
  PROVE  /\ at[a] \in Clients /\ pending[at[a]] > 0
         /\ pending' = [pending EXCEPT ![at[a]] = @ - 1]
         /\ Accounted'
<1> DEFINE c == at[a]
<1> USE DEF IInv
<1>1. c \in Clients /\ a \in Slots(c)
  BY DEF TypeOK, Slots
<1>2. IsFiniteSet(Slots(c)) /\ pending[c] = Cardinality(Slots(c)) /\ pending[c] \in Nat
  BY <1>1 DEF Accounted, TypeOK
<1>3. pending[c] # 0
  BY <1>1, <1>2, FS_EmptySet
<1>4. pending' = [pending EXCEPT ![c] = pending[c] - 1]
  <2>1. (IF pending[c] > 1 THEN pending[c] - 1 ELSE 0) = pending[c] - 1
    BY <1>2, <1>3
  <2> QED
    BY <2>1 DEF Release
<1>5. ASSUME NEW d \in Clients
      PROVE  IsFiniteSet(Slots(d))' /\ pending'[d] = Cardinality(Slots(d)')
  <2>1. CASE d = c
    <3>1. Slots(d)' = Slots(d) \ {a}
      BY <2>1, NoneIsNoClient DEF Release, Slots, TypeOK
    <3>2. pending'[d] = pending[d] - 1
      BY <1>4, <2>1 DEF TypeOK
    <3> QED
      BY <1>1, <1>2, <2>1, <3>1, <3>2, FS_RemoveElement
  <2>2. CASE d # c
    <3>1. Slots(d)' = Slots(d)
      BY <2>2, NoneIsNoClient DEF Release, Slots, TypeOK
    <3>2. pending'[d] = pending[d]
      BY <1>4, <2>2 DEF TypeOK
    <3> QED
      BY <3>1, <3>2 DEF Accounted
  <2> QED
    BY <2>1, <2>2
<1>6. Accounted'
  BY <1>5 DEF Accounted
<1> QED
  BY <1>1, <1>2, <1>3, <1>4, <1>6

LEMMA FailStep ==
  ASSUME IInv, NEW a \in Attempts, Fail(a)
  PROVE  IInv'
<1> DEFINE c == at[a]
<1> USE DEF IInv
<1>r. /\ c \in Clients /\ c # None /\ pending[c] > 0
      /\ pending' = [pending EXCEPT ![c] = @ - 1]
      /\ Accounted'
  BY ReleaseCounts DEF Fail
<1>p. \A d \in Clients : /\ Pruned(d) \in SUBSET Attempts
                         /\ IsFiniteSet(Pruned(d)) /\ Cardinality(Pruned(d)) \in Nat
  BY PrunedIsPart
<1>n. \A d \in Clients : a \notin failures[d] /\ a \notin Pruned(d)
  BY <1>r DEF PendingIsOpen, Pruned
<1>f. \A d \in Clients : failures'[d] = IF d = c THEN Pruned(d) \cup {a} ELSE Pruned(d)
  BY DEF Fail
<1>g. \A b \in Attempts : age'[b] = IF b = a THEN 0 ELSE age[b]
  BY DEF Fail, TypeOK
<1>u. \A d \in Clients : Pruned(d)' = failures'[d]
  <2> SUFFICES ASSUME NEW d \in Clients, NEW b \in failures'[d]
               PROVE  age'[b] < Window
    BY DEF Pruned, Remembered
  <2>1. CASE b = a
    BY <2>1, <1>g, LimiterAssumption
  <2>2. CASE b # a
    <3>1. b \in Pruned(d) /\ b \in Attempts
      BY <2>2, <1>f, <1>p
    <3> QED
      BY <2>2, <3>1, <1>g DEF Pruned, Remembered
  <2> QED
    BY <2>1, <2>2
<1>1. TypeOK'
  BY <1>p, <1>r, <1>f, LimiterAssumption DEF Fail, Release, TypeOK
<1>2. PendingIsOpen'
  BY <1>f, <1>r DEF Fail, Release, PendingIsOpen, Pruned, TypeOK
<1>3. WrongIsRemembered'
  BY <1>u, <1>f DEF Fail, WrongIsRemembered, TypeOK
<1>4. Bounded'
  <2> SUFFICES ASSUME NEW d \in Clients
               PROVE  IsFiniteSet(failures[d]') /\ Cardinality(Pruned(d)') + pending'[d] <= Limit
    BY DEF Bounded
  <2>1. Cardinality(Pruned(d)) + pending[d] <= Limit /\ pending[d] \in Nat /\ Limit \in Nat
    BY LimiterAssumption DEF Bounded, TypeOK
  <2>2. CASE d = c
    <3>1. pending'[d] = pending[d] - 1
      BY <2>2, <1>r DEF TypeOK
    <3>2. Pruned(d)' = Pruned(d) \cup {a} /\ failures'[d] = Pruned(d) \cup {a}
      BY <2>2, <1>u, <1>f
    <3>3. /\ IsFiniteSet(Pruned(d) \cup {a})
          /\ Cardinality(Pruned(d) \cup {a}) = Cardinality(Pruned(d)) + 1
      BY <1>p, <1>n, FS_AddElement
    <3> QED
      BY <2>1, <3>1, <3>2, <3>3, <1>p
  <2>3. CASE d # c
    BY <2>1, <2>3, <1>p, <1>u, <1>f, <1>r DEF TypeOK
  <2> QED
    BY <2>2, <2>3
<1>5. Table'
  <2>1. Held' \in SUBSET Held
    BY <1>f, <1>r DEF Held, Pruned, TypeOK
  <2> QED
    BY <2>1, TableShrinks DEF Table
<1> QED
  BY <1>1, <1>2, <1>3, <1>4, <1>5, <1>r

LEMMA SucceedStep ==
  ASSUME IInv, NEW a \in Attempts, Succeed(a)
  PROVE  IInv'
<1> DEFINE c == at[a]
<1> USE DEF IInv
<1>r. /\ c \in Clients /\ c # None /\ pending[c] > 0
      /\ pending' = [pending EXCEPT ![c] = @ - 1]
      /\ Accounted'
  BY ReleaseCounts DEF Succeed
<1>p. \A d \in Clients : /\ Pruned(d) \in SUBSET Attempts
                         /\ IsFiniteSet(Pruned(d)) /\ Cardinality(Pruned(d)) \in Nat
  BY PrunedIsPart
<1>f. \A d \in Clients : failures'[d] = IF d = c THEN {} ELSE Pruned(d)
  BY DEF Succeed
<1>u. \A d \in Clients : Pruned(d)' = failures'[d]
  BY <1>f DEF Succeed, Pruned, Remembered
<1>1. TypeOK'
  BY <1>p, <1>r, <1>f DEF Succeed, Release, TypeOK
<1>2. PendingIsOpen'
  BY <1>f, <1>r DEF Succeed, Release, PendingIsOpen, Pruned, TypeOK
<1>3. WrongIsRemembered'
  BY <1>u, <1>f DEF Succeed, WrongIsRemembered, TypeOK
<1>4. Bounded'
  <2> SUFFICES ASSUME NEW d \in Clients
               PROVE  IsFiniteSet(failures[d]') /\ Cardinality(Pruned(d)') + pending'[d] <= Limit
    BY DEF Bounded
  <2>1. Cardinality(Pruned(d)) + pending[d] <= Limit /\ pending[d] \in Nat /\ Limit \in Nat
    BY LimiterAssumption DEF Bounded, TypeOK
  <2>2. CASE d = c
    <3>1. Pruned(d)' = {} /\ failures'[d] = {}
      BY <2>2, <1>u, <1>f
    <3>2. pending'[d] = pending[d] - 1
      BY <2>2, <1>r DEF TypeOK
    <3> QED
      BY <2>1, <3>1, <3>2, <1>p, FS_EmptySet
  <2>3. CASE d # c
    BY <2>1, <2>3, <1>p, <1>u, <1>f, <1>r DEF TypeOK
  <2> QED
    BY <2>2, <2>3
<1>5. Table'
  <2>1. Held' \in SUBSET Held
    BY <1>f, <1>r DEF Held, Pruned, TypeOK
  <2> QED
    BY <2>1, TableShrinks DEF Table
<1> QED
  BY <1>1, <1>2, <1>3, <1>4, <1>5, <1>r

-----------------------------------------------------------------------------
(* Time passes: fewer failures are remembered, and fewer are held against    *)
(* an address.                                                               *)

LEMMA TickStep ==
  ASSUME IInv, Tick
  PROVE  IInv'
<1> USE DEF IInv
<1>a. \A b \in Attempts : age'[b] = Older(b) /\ age[b] \in 0..Window /\ Older(b) >= age[b]
  BY LimiterAssumption DEF Tick, Older, TypeOK
<1>u. \A d \in Clients : Pruned(d)' \in SUBSET Pruned(d)
  BY <1>a, LimiterAssumption DEF Tick, Pruned, Remembered, Older, TypeOK
<1>1. TypeOK'
  BY <1>a, LimiterAssumption DEF Tick, Older, TypeOK
<1>2. Accounted'
  BY DEF Tick, Accounted, Slots
<1>3. PendingIsOpen'
  BY DEF Tick, PendingIsOpen
<1>4. WrongIsRemembered'
  BY <1>a DEF Tick, WrongIsRemembered, Pruned, Remembered, TypeOK
<1>5. Bounded'
  <2> SUFFICES ASSUME NEW d \in Clients
               PROVE  IsFiniteSet(failures[d]') /\ Cardinality(Pruned(d)') + pending'[d] <= Limit
    BY DEF Bounded
  <2>1. IsFiniteSet(Pruned(d)) /\ Cardinality(Pruned(d)) \in Nat
    BY PrunedIsPart
  <2>2. IsFiniteSet(Pruned(d)') /\ Cardinality(Pruned(d)') <= Cardinality(Pruned(d))
    BY <1>u, <2>1, FS_Subset
  <2>3. Cardinality(Pruned(d)') \in Nat
    BY <2>2, FS_CardinalityType
  <2> QED
    BY <2>1, <2>2, <2>3, LimiterAssumption DEF Bounded, Tick, TypeOK
<1>6. Table'
  BY DEF Tick, Table, Held
<1> QED
  BY <1>1, <1>2, <1>3, <1>4, <1>5, <1>6

LEMMA NextStep ==
  ASSUME IInv, [Next]_vars
  PROVE  IInv'
<1>1. ASSUME NEW c \in Clients, NEW a \in Attempts, Admit(a, c) PROVE IInv'
  BY <1>1, AdmitStep
<1>2. ASSUME NEW c \in Clients, Refuse(c) PROVE IInv'
  BY <1>2, RefuseStep
<1>3. ASSUME NEW a \in Attempts, Fail(a) PROVE IInv'
  BY <1>3, FailStep
<1>4. ASSUME NEW a \in Attempts, Succeed(a) PROVE IInv'
  BY <1>4, SucceedStep
<1>5. CASE Tick
  BY <1>5, TickStep
<1>6. CASE UNCHANGED vars
  <2> USE <1>6 DEF vars, IInv
  <2>1. TypeOK' /\ PendingIsOpen' /\ WrongIsRemembered'
    BY DEF TypeOK, PendingIsOpen, WrongIsRemembered, Pruned, Remembered
  <2>2. Accounted' /\ Table'
    BY DEF Accounted, Slots, Table, Held
  <2>3. Bounded'
    <3>1. \A d \in Clients : Pruned(d)' = Pruned(d)
      BY DEF Pruned, Remembered
    <3> QED
      BY <3>1 DEF Bounded
  <2> QED
    BY <2>1, <2>2, <2>3
<1> QED
  BY <1>1, <1>2, <1>3, <1>4, <1>5, <1>6 DEF Next

-----------------------------------------------------------------------------
(* The theorems                                                              *)

LEMMA Invariant == Spec => []IInv
<1>1. Init => IInv
  BY InitHolds
<1>2. IInv /\ [Next]_vars => IInv'
  BY NextStep
<1> QED
  BY <1>1, <1>2, PTL DEF Spec

\* The limiter's tables, counters and clock keep their types.
THEOREM TypeCorrect == Spec => []TypeOK
<1>1. IInv => TypeOK
  BY DEF IInv
<1> QED
  BY <1>1, Invariant, PTL

\* completeLoginAttempt gives back every slot that admitLoginAttempt takes,
\* once: the counter of an address is the number of its open attempts.
THEOREM SlotsStayAccounted == Spec => []SlotsAreAccounted
<1>1. IInv => SlotsAreAccounted
  BY DEF IInv, Accounted, Slots, SlotsAreAccounted
<1> QED
  BY <1>1, Invariant, PTL

\* However logins of an address run at once, failed and open attempts together
\* stay within the limit of the last minute.
THEOREM GuessesStayBounded == Spec => []GuessesAreBounded
<1>1. ASSUME IInv PROVE GuessesAreBounded
  <2> SUFFICES ASSUME NEW c \in Clients
               PROVE  Cardinality(wrong[c]) + Cardinality(Slots(c)) <= Limit
    BY DEF GuessesAreBounded, Slots
  <2>1. IsFiniteSet(Pruned(c)) /\ Cardinality(Pruned(c)) \in Nat
    BY <1>1, PrunedIsPart DEF IInv
  <2>2. wrong[c] \in SUBSET Pruned(c)
    BY <1>1 DEF IInv, WrongIsRemembered
  <2>3. IsFiniteSet(wrong[c]) /\ Cardinality(wrong[c]) <= Cardinality(Pruned(c))
    BY <2>1, <2>2, FS_Subset
  <2>4. Cardinality(wrong[c]) \in Nat
    BY <2>3, FS_CardinalityType
  <2>5. /\ Cardinality(Slots(c)) = pending[c] /\ pending[c] \in Nat
        /\ Cardinality(Pruned(c)) + pending[c] <= Limit
    BY <1>1 DEF IInv, Accounted, Bounded, TypeOK
  <2> QED
    BY <2>1, <2>3, <2>4, <2>5, LimiterAssumption
<1> QED
  BY <1>1, Invariant, PTL

\* The table never holds more addresses than limiterClientLimit.
THEOREM TableStaysBounded == Spec => []TableIsBounded
<1>1. IInv => TableIsBounded
  BY DEF IInv, Table, Held, TableIsBounded
<1> QED
  BY <1>1, Invariant, PTL
=============================================================================
