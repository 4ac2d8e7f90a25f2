------------------------- MODULE RetryPolicyProofs -------------------------
(***************************************************************************)
(* Proofs about RetryPolicy, for every set of handlers and every size of   *)
(* the connection pool: the budgets of request_with_retry, the refresh     *)
(* lock, and the pool that is never overdrawn.                             *)
(***************************************************************************)
EXTENDS RetryPolicy, FiniteSetTheorems, TLAPS

Budgets == [connect : 0..CONNECT_BACKOFFS, server : 0..SERVER_BACKOFFS,
            rate : 0..RATELIMIT_MAX_RETRY]

Spent(h) == tries[h].connect + tries[h].server + tries[h].rate

\* A run of request_with_retry has made one call per retry it has spent, and one
\* more once the present attempt is under way.
CallsCounted ==
  \A h \in Handlers :
    /\ at[h] # "none" <=> stage[h] \in Calling
    /\ attempts[h] = IF at[h] = "sent" THEN 1 + Spent(h) ELSE Spent(h)

\* The pool hands out no more connections than it has.
PoolInv == IsFiniteSet(Holding) /\ InUse <= PoolSize

TypeInv ==
  /\ stage \in [Handlers -> Stages]
  /\ at \in [Handlers -> {"none", "queue", "sent", "backoff"}]
  /\ tries \in [Handlers -> Budgets]
  /\ attempts \in [Handlers -> Nat]
  /\ lock \in Handlers \cup {Free}
  /\ leaked \in Nat

RetryInv == TypeInv /\ CallsCounted /\ LockOnlyInRefresh /\ PoolInv

LEMMA NoTriesType == NoTries \in Budgets
  BY DEF NoTries, Budgets, CONNECT_BACKOFFS, SERVER_BACKOFFS, RATELIMIT_MAX_RETRY

LEMMA SpentType ==
  ASSUME TypeInv, NEW h \in Handlers
  PROVE  Spent(h) \in 0..(CONNECT_BACKOFFS + SERVER_BACKOFFS + RATELIMIT_MAX_RETRY)
<1>1. tries[h] \in Budgets
  BY DEF TypeInv
<1>2. QED
  BY <1>1
  DEF Spent, Budgets, CONNECT_BACKOFFS, SERVER_BACKOFFS, RATELIMIT_MAX_RETRY

----------------------------------------------------------------------------
(* What a step does to one handler.                                        *)

LEMMA EnterEffect ==
  ASSUME TypeInv, NEW h \in Handlers, NEW s \in Stages, Enter(h, s)
  PROVE  /\ stage' = [stage EXCEPT ![h] = s]
         /\ stage' \in [Handlers -> Stages]
         /\ at' \in [Handlers -> {"none", "queue", "sent", "backoff"}]
         /\ tries' \in [Handlers -> Budgets] /\ attempts' \in [Handlers -> Nat]
         /\ at'[h] = IF s \in Calling THEN "queue" ELSE "none"
         /\ tries'[h] = NoTries /\ attempts'[h] = 0
         /\ \A g \in Handlers \ {h} : /\ at'[g] = at[g] /\ tries'[g] = tries[g]
                                      /\ attempts'[g] = attempts[g]
  BY NoTriesType DEF Enter, TypeInv

\* Entering a stage starts the count anew.
LEMMA EnterCounts ==
  ASSUME TypeInv, CallsCounted, NEW h \in Handlers, NEW s \in Stages, Enter(h, s)
  PROVE  CallsCounted'
<1>1. ASSUME NEW g \in Handlers
      PROVE  /\ at'[g] # "none" <=> stage'[g] \in Calling
             /\ attempts'[g] = IF at'[g] = "sent" THEN 1 + Spent(g)' ELSE Spent(g)'
  <2>1. CASE g = h
    BY <2>1, EnterEffect DEF TypeInv, Spent, NoTries
  <2>2. CASE g # h
    <3>1. stage'[g] = stage[g]
      BY <2>2, EnterEffect DEF TypeInv
    <3>2. QED
      BY <2>2, <3>1, EnterEffect DEF CallsCounted, Spent
  <2>3. QED
    BY <2>1, <2>2
<1>2. QED
  BY <1>1 DEF CallsCounted

\* A wait before the next attempt spends one retry of a budget that has it.
LEMMA BackoffEffect ==
  ASSUME TypeInv, NEW h \in Handlers,
         \/ Backoff(h, "connect") /\ MoreConnects(h)
         \/ Backoff(h, "server") /\ MoreServers(h)
         \/ Backoff(h, "rate") /\ MoreRates(h)
  PROVE  /\ at' = [at EXCEPT ![h] = "backoff"]
         /\ UNCHANGED <<stage, attempts, lock>>
         /\ tries' \in [Handlers -> Budgets]
         /\ Spent(h)' = Spent(h) + 1
         /\ \A g \in Handlers \ {h} : tries'[g] = tries[g]
<1> USE DEF MoreConnects, MoreServers, MoreRates, Backoff,
    CONNECT_BACKOFFS, SERVER_BACKOFFS, RATELIMIT_MAX_RETRY
<1>1. tries \in [Handlers -> Budgets] /\ tries[h] \in Budgets
  BY DEF TypeInv
<1>2. \A g \in Handlers \ {h} : tries'[g] = tries[g]
  BY <1>1
<1>3. tries'[h] \in Budgets /\ Spent(h)' = Spent(h) + 1
  <2>1. CASE Backoff(h, "connect") /\ MoreConnects(h)
    BY <1>1, <2>1 DEF Budgets, Spent
  <2>2. CASE Backoff(h, "server") /\ MoreServers(h)
    BY <1>1, <2>2 DEF Budgets, Spent
  <2>3. CASE Backoff(h, "rate") /\ MoreRates(h)
    BY <1>1, <2>3 DEF Budgets, Spent
  <2>4. QED
    BY <2>1, <2>2, <2>3
<1>4. tries' \in [Handlers -> Budgets]
  BY <1>1, <1>2, <1>3
<1>5. QED
  BY <1>2, <1>3, <1>4

----------------------------------------------------------------------------
(* The connections.                                                        *)

LEMMA HoldingKept ==
  ASSUME PoolInv, leaked' = leaked,
         \A g \in Handlers : (g \in Holding)' <=> g \in Holding
  PROVE  PoolInv'
<1>1. Holding' = Holding
  BY DEF Holding
<1>2. QED
  BY <1>1 DEF PoolInv, InUse

\* h takes a connection the pool has left.
LEMMA HoldingGrows ==
  ASSUME PoolInv, leaked \in Nat, leaked' = leaked, InUse < PoolSize,
         NEW h \in Handlers, h \in Holding',
         \A g \in Handlers \ {h} : (g \in Holding)' <=> g \in Holding
  PROVE  PoolInv'
<1>1. Holding' = Holding \cup {h}
  BY DEF Holding
<1>2. /\ IsFiniteSet(Holding')
      /\ Cardinality(Holding') \in {Cardinality(Holding), Cardinality(Holding) + 1}
  BY <1>1, FS_AddElement DEF PoolInv
<1>3. Cardinality(Holding) \in Nat
  BY FS_CardinalityType DEF PoolInv
<1>4. QED
  BY <1>2, <1>3, RetryPolicyAssumption DEF PoolInv, InUse

\* h gives its connection back, or it leaks.
LEMMA HoldingShrinks ==
  ASSUME PoolInv, leaked \in Nat, NEW h \in Handlers, h \in Holding, h \notin Holding',
         leaked' \in {leaked, leaked + 1},
         \A g \in Handlers \ {h} : (g \in Holding)' <=> g \in Holding
  PROVE  PoolInv'
<1>1. Holding' = Holding \ {h}
  BY DEF Holding
<1>2. IsFiniteSet(Holding') /\ Cardinality(Holding') = Cardinality(Holding) - 1
  BY <1>1, FS_RemoveElement DEF PoolInv
<1>3. Cardinality(Holding) \in Nat /\ Cardinality(Holding') \in Nat
  BY <1>2, FS_CardinalityType DEF PoolInv
<1>4. QED
  BY <1>2, <1>3, RetryPolicyAssumption DEF PoolInv, InUse

\* Entering any stage but the body does not take a connection.
LEMMA EnterHolding ==
  ASSUME TypeInv, PoolInv, NEW h \in Handlers, NEW s \in Stages, Enter(h, s),
         leaked' = leaked, s = "body" => at[h] = "sent"
  PROVE  PoolInv'
<1>1. \A g \in Handlers \ {h} : (g \in Holding)' <=> g \in Holding
  BY EnterEffect DEF Holding, TypeInv
<1>2. (h \in Holding)' <=> s = "body"
  BY EnterEffect DEF Holding, TypeInv
<1>3. CASE h \in Holding /\ s # "body"
  BY <1>1, <1>2, <1>3, HoldingShrinks DEF TypeInv
<1>4. CASE h \notin Holding \/ s = "body"
  <2>1. h \in Holding <=> s = "body"
    BY <1>4 DEF Holding
  <2>2. QED
    BY <1>1, <1>2, <2>1, HoldingKept
<1>5. QED
  BY <1>3, <1>4

----------------------------------------------------------------------------
(* The steps.                                                              *)

\* Entering a stage other than a refresh, with the lock let go if it was held.
LEMMA EnterUnlocked ==
  ASSUME RetryInv, NEW h \in Handlers, NEW s \in Stages \ Refreshing, Enter(h, s),
         Unlock(h), leaked' = leaked, s = "body" => at[h] = "sent"
  PROVE  RetryInv'
<1>1. TypeInv' /\ CallsCounted' /\ PoolInv'
  BY EnterEffect, EnterCounts, EnterHolding DEF RetryInv, TypeInv, Unlock
<1>2. LockOnlyInRefresh'
  <2>1. ASSUME NEW g \in Handlers PROVE lock' = g <=> stage'[g] \in Refreshing
    <3>1. stage'[g] = IF g = h THEN s ELSE stage[g]
      BY EnterEffect DEF RetryInv, TypeInv
    <3>2. QED
      BY <3>1, HandlersAssumption DEF RetryInv, LockOnlyInRefresh, Unlock
  <2>2. QED
    BY <2>1 DEF LockOnlyInRefresh
<1>3. QED
  BY <1>1, <1>2 DEF RetryInv

\* Entering a refresh with the lock, which was free.
LEMMA EnterLocked ==
  ASSUME RetryInv, NEW h \in Handlers, NEW s \in Refreshing, Enter(h, s),
         lock = Free, lock' = h, leaked' = leaked
  PROVE  RetryInv'
<1>1. s \in Stages /\ s # "body"
  BY DEF Refreshing, Stages, Calling
<1>2. TypeInv' /\ CallsCounted' /\ PoolInv'
  BY <1>1, EnterEffect, EnterCounts, EnterHolding DEF RetryInv, TypeInv
<1>3. LockOnlyInRefresh'
  <2>1. ASSUME NEW g \in Handlers PROVE lock' = g <=> stage'[g] \in Refreshing
    <3>1. stage'[g] = IF g = h THEN s ELSE stage[g]
      BY <1>1, EnterEffect DEF RetryInv, TypeInv
    <3>2. QED
      BY <3>1, HandlersAssumption DEF RetryInv, LockOnlyInRefresh
  <2>2. QED
    BY <2>1 DEF LockOnlyInRefresh
<1>4. QED
  BY <1>2, <1>3 DEF RetryInv

\* A handler outside a refresh does not hold the lock, so not touching it is
\* letting it go.
LEMMA NotHolding ==
  ASSUME RetryInv, NEW h \in Handlers, stage[h] \notin Refreshing, lock' = lock
  PROVE  Unlock(h)
  BY DEF RetryInv, LockOnlyInRefresh, Unlock

LEMMA StageNames ==
  /\ {"idle", "waitP", "waitR", "body"} \cup Streaming = Stages \ Refreshing
  /\ Streaming = {"first", "second"} /\ Refreshing = {"refreshP", "refreshR"}
  BY DEF Stages, Calling, Streaming, Refreshing

LEMMA RetryMoves ==
  ASSUME RetryInv, NEW h \in Handlers, Arrive(h) \/ Acquire(h) \/ CloseBody(h)
  PROVE  RetryInv'
<1>1. CASE Arrive(h)
  BY <1>1, NotHolding, EnterUnlocked, StageNames DEF Arrive
<1>2. CASE Acquire(h)
  BY <1>2, NotHolding, EnterUnlocked, EnterLocked, StageNames DEF Acquire
<1>3. CASE CloseBody(h)
  BY <1>3, NotHolding, EnterUnlocked, StageNames DEF CloseBody
<1>4. QED
  BY <1>1, <1>2, <1>3

LEMMA RetryRaises ==
  ASSUME RetryInv, NEW h \in Handlers, Raise(h)
  PROVE  RetryInv'
  BY EnterUnlocked, StageNames DEF Raise

LEMMA RetryConnects ==
  ASSUME RetryInv, NEW h \in Handlers, Connect(h)
  PROVE  RetryInv'
<1>1. /\ at[h] = "queue" /\ InUse < PoolSize
      /\ at' = [at EXCEPT ![h] = "sent"]
      /\ attempts' = [attempts EXCEPT ![h] = attempts[h] + 1]
      /\ UNCHANGED <<stage, tries, lock, leaked>>
  BY DEF Connect
<1>2. /\ at \in [Handlers -> {"none", "queue", "sent", "backoff"}]
      /\ attempts \in [Handlers -> Nat] /\ leaked \in Nat /\ Spent(h) \in Nat
  BY SpentType DEF RetryInv, TypeInv
<1>3. TypeInv'
  BY <1>1, <1>2 DEF RetryInv, TypeInv
<1>4. CallsCounted'
  <2>1. ASSUME NEW g \in Handlers
        PROVE  /\ at'[g] # "none" <=> stage'[g] \in Calling
               /\ attempts'[g] = IF at'[g] = "sent" THEN 1 + Spent(g)' ELSE Spent(g)'
    <3>1. Spent(g)' = Spent(g)
      BY <1>1 DEF Spent
    <3>2. CASE g = h
      BY <1>1, <1>2, <3>1, <3>2 DEF RetryInv, CallsCounted
    <3>3. CASE g # h
      BY <1>1, <1>2, <3>1, <3>3 DEF RetryInv, CallsCounted
    <3>4. QED
      BY <3>2, <3>3
  <2>2. QED
    BY <2>1 DEF CallsCounted
<1>5. PoolInv'
  <2>1. h \in Holding' /\ \A g \in Handlers \ {h} : (g \in Holding)' <=> g \in Holding
    BY <1>1, <1>2 DEF Holding
  <2>2. QED
    BY <1>1, <1>2, <2>1, HoldingGrows DEF RetryInv
<1>6. LockOnlyInRefresh'
  BY <1>1 DEF RetryInv, LockOnlyInRefresh
<1>7. QED
  BY <1>3, <1>4, <1>5, <1>6 DEF RetryInv

\* A failed attempt that is retried: the connection is back in the pool, or with
\* the dropped response of a streamed call it never will be.
LEMMA RetryBacksOff ==
  ASSUME RetryInv, NEW h \in Handlers, at[h] = "sent",
         leaked' \in {leaked, leaked + 1},
         \/ Backoff(h, "connect") /\ MoreConnects(h)
         \/ Backoff(h, "server") /\ MoreServers(h)
         \/ Backoff(h, "rate") /\ MoreRates(h)
  PROVE  RetryInv'
<1>1. /\ at' = [at EXCEPT ![h] = "backoff"]
      /\ UNCHANGED <<stage, attempts, lock>>
      /\ tries' \in [Handlers -> Budgets]
      /\ Spent(h)' = Spent(h) + 1
      /\ \A g \in Handlers \ {h} : tries'[g] = tries[g]
  BY BackoffEffect DEF RetryInv
<1>2. /\ at \in [Handlers -> {"none", "queue", "sent", "backoff"}]
      /\ leaked \in Nat /\ Spent(h) \in Nat
  BY SpentType DEF RetryInv, TypeInv
<1>3. TypeInv'
  BY <1>1, <1>2 DEF RetryInv, TypeInv
<1>4. CallsCounted'
  <2>1. ASSUME NEW g \in Handlers
        PROVE  /\ at'[g] # "none" <=> stage'[g] \in Calling
               /\ attempts'[g] = IF at'[g] = "sent" THEN 1 + Spent(g)' ELSE Spent(g)'
    <3>1. CASE g = h
      BY <1>1, <1>2, <3>1 DEF RetryInv, CallsCounted
    <3>2. CASE g # h
      <4>1. Spent(g)' = Spent(g)
        BY <1>1, <3>2 DEF Spent
      <4>2. QED
        BY <1>1, <1>2, <3>2, <4>1 DEF RetryInv, CallsCounted
    <3>3. QED
      BY <3>1, <3>2
  <2>2. QED
    BY <2>1 DEF CallsCounted
<1>5. PoolInv'
  <2>1. stage[h] # "body"
    BY DEF RetryInv, CallsCounted, Calling, Streaming, Refreshing
  <2>2. /\ h \in Holding /\ h \notin Holding'
        /\ \A g \in Handlers \ {h} : (g \in Holding)' <=> g \in Holding
    BY <1>1, <1>2, <2>1 DEF Holding
  <2>3. QED
    BY <1>2, <2>2, HoldingShrinks DEF RetryInv
<1>6. LockOnlyInRefresh'
  BY <1>1 DEF RetryInv, LockOnlyInRefresh
<1>7. QED
  BY <1>3, <1>4, <1>5, <1>6 DEF RetryInv

LEMMA RetryFails ==
  ASSUME RetryInv, NEW h \in Handlers,
         ConnectionError(h) \/ Retried(h) \/ PoolTimeout(h)
  PROVE  RetryInv'
<1>1. CASE ConnectionError(h)
  BY <1>1, RetryBacksOff, RetryRaises DEF ConnectionError
<1>2. CASE Retried(h)
  BY <1>2, RetryBacksOff DEF Retried, Dropped
<1>3. CASE PoolTimeout(h)
  BY <1>3, RetryRaises DEF PoolTimeout
<1>4. QED
  BY <1>1, <1>2, <1>3

LEMMA RetryWakes ==
  ASSUME RetryInv, NEW h \in Handlers, Wake(h)
  PROVE  RetryInv'
<1>1. /\ at[h] = "backoff" /\ at' = [at EXCEPT ![h] = "queue"]
      /\ UNCHANGED <<stage, tries, attempts, lock, leaked>>
      /\ at \in [Handlers -> {"none", "queue", "sent", "backoff"}]
  BY DEF Wake, RetryInv, TypeInv
<1>2. TypeInv' /\ CallsCounted' /\ LockOnlyInRefresh'
  BY <1>1 DEF RetryInv, TypeInv, CallsCounted, LockOnlyInRefresh, Spent
<1>3. PoolInv'
  <2>1. \A g \in Handlers : (g \in Holding)' <=> g \in Holding
    BY <1>1 DEF Holding
  <2>2. QED
    BY <1>1, <2>1, HoldingKept DEF RetryInv
<1>4. QED
  BY <1>2, <1>3 DEF RetryInv

LEMMA RetryReturns ==
  ASSUME RetryInv, NEW h \in Handlers, Return(h)
  PROVE  RetryInv'
<1>1. PICK resp \in Returned(h) :
        FirstReturns(h, resp) \/ SecondReturns(h, resp) \/ RefreshReturns(h, resp)
  BY DEF Return
<1>2. at[h] = "sent"
  BY DEF Return
<1>3. CASE FirstReturns(h, resp) \/ SecondReturns(h, resp)
  BY <1>2, <1>3, NotHolding, EnterUnlocked, StageNames DEF FirstReturns, SecondReturns
<1>4. CASE RefreshReturns(h, resp)
  BY <1>2, <1>4, EnterUnlocked, StageNames DEF RefreshReturns
<1>5. QED
  BY <1>1, <1>3, <1>4

LEMMA RetryInit == Init => RetryInv
<1> SUFFICES ASSUME Init PROVE RetryInv
  OBVIOUS
<1>1. TypeInv
  BY NoTriesType DEF Init, TypeInv, Stages
<1>2. CallsCounted
  BY DEF Init, CallsCounted, Spent, NoTries, Calling, Streaming, Refreshing
<1>3. Holding = {}
  BY DEF Init, Holding
<1>4. PoolInv
  BY <1>3, FS_EmptySet, RetryPolicyAssumption DEF Init, PoolInv, InUse
<1>5. LockOnlyInRefresh
  BY HandlersAssumption DEF Init, LockOnlyInRefresh, Refreshing
<1>6. QED
  BY <1>1, <1>2, <1>4, <1>5 DEF RetryInv

LEMMA RetryNext == RetryInv /\ [Next]_vars => RetryInv'
<1> SUFFICES ASSUME RetryInv, [Next]_vars PROVE RetryInv'
  OBVIOUS
<1>1. ASSUME NEW h \in Handlers, Arrive(h) \/ Step(h) PROVE RetryInv'
  BY <1>1, RetryMoves, RetryConnects, RetryFails, RetryWakes, RetryReturns DEF Step
<1>2. CASE UNCHANGED vars
  <2>1. TypeInv' /\ CallsCounted' /\ LockOnlyInRefresh'
    BY <1>2 DEF vars, RetryInv, TypeInv, CallsCounted, LockOnlyInRefresh, Spent
  <2>2. PoolInv'
    BY <1>2, HoldingKept DEF vars, RetryInv, Holding
  <2>3. QED
    BY <2>1, <2>2 DEF RetryInv
<1>3. QED
  BY <1>1, <1>2 DEF Next

LEMMA RetryInvariance == Spec => []RetryInv
  BY RetryInit, RetryNext, PTL DEF Spec

----------------------------------------------------------------------------
(* The theorems.                                                           *)

\* request_with_retry's counters stay in their budgets, and the connections lost
\* to dropped responses never exceed the pool.
THEOREM RetryTypes == Spec => []TypeOK
<1>1. RetryInv => TypeOK
  <2> SUFFICES ASSUME RetryInv PROVE TypeOK
    OBVIOUS
  <2>1. Cardinality(Holding) \in Nat
    BY FS_CardinalityType DEF RetryInv, PoolInv
  <2>2. leaked \in 0..PoolSize
    BY <2>1, RetryPolicyAssumption DEF RetryInv, TypeInv, PoolInv, InUse
  <2>3. QED
    BY <2>2 DEF RetryInv, TypeInv, TypeOK, Budgets
<1>2. QED
  BY <1>1, RetryInvariance, PTL

\* In any interleaving of connection errors, 5xx and 429 the three budgets are
\* spent independently, and one run makes at most 7 calls.
THEOREM CallsAreBounded == Spec => []AttemptsBounded
<1>1. RetryInv => AttemptsBounded
  <2> SUFFICES ASSUME RetryInv, NEW h \in Handlers
               PROVE  /\ attempts[h] <= 1 + CONNECT_BACKOFFS + SERVER_BACKOFFS
                                           + RATELIMIT_MAX_RETRY
                      /\ at[h] = "sent" => attempts[h] = 1 + tries[h].connect
                                            + tries[h].server + tries[h].rate
    BY DEF AttemptsBounded
  <2>1. /\ Spent(h) \in 0..(CONNECT_BACKOFFS + SERVER_BACKOFFS + RATELIMIT_MAX_RETRY)
        /\ attempts[h] = IF at[h] = "sent" THEN 1 + Spent(h) ELSE Spent(h)
        /\ tries[h] \in Budgets
    BY SpentType DEF RetryInv, TypeInv, CallsCounted
  <2>2. QED
    BY <2>1
    DEF Spent, Budgets, CONNECT_BACKOFFS, SERVER_BACKOFFS, RATELIMIT_MAX_RETRY
<1>2. QED
  BY <1>1, RetryInvariance, PTL

\* Whichever way a refresh ends, the lock is let go with it.
THEOREM LockLeftWithRefresh == Spec => []LockOnlyInRefresh
<1>1. RetryInv => LockOnlyInRefresh
  BY DEF RetryInv
<1>2. QED
  BY <1>1, RetryInvariance, PTL

\* The shared pool is never overdrawn, however many responses are dropped
\* unclosed (and however many handlers there are).
THEOREM PoolNeverOverdrawn == Spec => []PoolInv
<1>1. RetryInv => PoolInv
  BY DEF RetryInv
<1>2. QED
  BY <1>1, RetryInvariance, PTL
=============================================================================
