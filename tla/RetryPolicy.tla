---------------------------- MODULE RetryPolicy ----------------------------
(***************************************************************************)
(* request_with_retry (retry.py) and what its callers in proxy.forward     *)
(* hold while it runs: a connection of the shared httpx pool, the refresh  *)
(* lock of the provider, and an open streaming response.                   *)
(*                                                                         *)
(* A handler passes through the stages                                     *)
(*   idle, waitP, refreshP, first, waitR, refreshR, second, body           *)
(* (P: the proactive refresh of _ensure_fresh, R: the reactive one after a *)
(* 401/403).  In refreshP, first, refreshR and second it is inside         *)
(* request_with_retry, and there `at` says where:                          *)
(*   queue    the attempt waits for a connection of the pool               *)
(*   sent     the attempt is on its connection                             *)
(*   backoff  asyncio.sleep before the next attempt                        *)
(***************************************************************************)
EXTENDS Integers, FiniteSets

CONSTANTS
  Handlers,  \* concurrent runs of forward, all for one provider
  PoolSize   \* connections of the httpx client (100 by default)

ASSUME RetryPolicyAssumption == PoolSize \in Nat \ {0}

CONNECT_BACKOFFS == 3    \* len(CONNECT_BACKOFFS_S)
SERVER_BACKOFFS == 2     \* len(SERVER_BACKOFFS_S)
RATELIMIT_MAX_RETRY == 1

VARIABLES
  stage, at,
  tries,     \* tries[h]: connect_attempt, server_attempt, ratelimit_attempt
  attempts,  \* attempts[h]: calls made by this run of request_with_retry (history)
  lock,      \* who is inside `async with lock`, or Free
  leaked     \* connections held by responses nothing will ever close

vars == <<stage, at, tries, attempts, lock, leaked>>

Free == "free"
ASSUME HandlersAssumption == Free \notin Handlers

Streaming == {"first", "second"}     \* client.send(..., stream=True)
Refreshing == {"refreshP", "refreshR"} \* client.post, which reads and closes
Calling == Streaming \cup Refreshing
Stages == {"idle", "waitP", "waitR", "body"} \cup Calling
NoTries == [connect |-> 0, server |-> 0, rate |-> 0]

TypeOK ==
  /\ stage \in [Handlers -> Stages]
  /\ at \in [Handlers -> {"none", "queue", "sent", "backoff"}]
  /\ tries \in [Handlers -> [connect : 0..CONNECT_BACKOFFS,
                             server : 0..SERVER_BACKOFFS,
                             rate : 0..RATELIMIT_MAX_RETRY]]
  /\ attempts \in [Handlers -> Nat]
  /\ lock \in Handlers \cup {Free}
  /\ leaked \in 0..PoolSize

Init ==
  /\ stage = [h \in Handlers |-> "idle"] /\ at = [h \in Handlers |-> "none"]
  /\ tries = [h \in Handlers |-> NoTries]
  /\ attempts = [h \in Handlers |-> 0]
  /\ lock = Free /\ leaked = 0

Holding == {h \in Handlers : at[h] = "sent" \/ stage[h] = "body"}
InUse == leaked + Cardinality(Holding)

----------------------------------------------------------------------------
(* Moving between the stages of forward.                                   *)

Enter(h, s) ==
  /\ stage' = [stage EXCEPT ![h] = s]
  /\ at' = [at EXCEPT ![h] = IF s \in Calling THEN "queue" ELSE "none"]
  /\ tries' = [tries EXCEPT ![h] = NoTries]
  /\ attempts' = [attempts EXCEPT ![h] = 0]

\* `async with lock` is left with the block's value or exception.  A mutant:
\* acquire and release without a finally.
Unlock_NotOnError(h) == lock' = IF lock = h /\ at'[h] = "queue" THEN Free ELSE lock
Unlock(h) == lock' = IF lock = h THEN Free ELSE lock

\* A request comes in, with a fresh credential or with a stale one.
Arrive(h) ==
  /\ stage[h] = "idle"
  /\ Enter(h, "first") \/ Enter(h, "waitP")
  /\ UNCHANGED <<lock, leaked>>

\* The lock reaches h, which refreshes, or finds that another has.
Acquire(h) ==
  /\ lock = Free
  /\ \/ stage[h] = "waitP" /\ Enter(h, "refreshP") /\ lock' = h
     \/ stage[h] = "waitP" /\ Enter(h, "first") /\ UNCHANGED lock
     \/ stage[h] = "waitR" /\ Enter(h, "refreshR") /\ lock' = h
     \/ stage[h] = "waitR" /\ Enter(h, "second") /\ UNCHANGED lock
  /\ UNCHANGED leaked

\* The streamed body is over: the generator's finally closes the response.
CloseBody(h) ==
  /\ stage[h] = "body"
  /\ Enter(h, "idle")
  /\ UNCHANGED <<lock, leaked>>

----------------------------------------------------------------------------
(* One attempt, and what request_with_retry makes of it.                   *)

Connect(h) ==
  /\ at[h] = "queue" /\ InUse < PoolSize
  /\ at' = [at EXCEPT ![h] = "sent"]
  /\ attempts' = [attempts EXCEPT ![h] = @ + 1]
  /\ UNCHANGED <<stage, tries, lock, leaked>>

\* An exception leaves forward, through the lock if it is held.
Raise(h) == Enter(h, "idle") /\ Unlock(h) /\ UNCHANGED leaked

\* httpx.PoolTimeout is not among the exceptions that are retried.
PoolTimeout(h) ==
  /\ at[h] = "queue" /\ InUse >= PoolSize
  /\ Raise(h)

Backoff_NotCounted(h, counter) ==
  /\ at' = [at EXCEPT ![h] = "backoff"]
  /\ UNCHANGED <<stage, tries, attempts, lock>>

\* A wait before the next attempt.  A mutant: no counter moves.
Backoff(h, counter) ==
  /\ at' = [at EXCEPT ![h] = "backoff"]
  /\ tries' = [tries EXCEPT ![h][counter] = @ + 1]
  /\ UNCHANGED <<stage, attempts, lock>>

\* The response that is retried is dropped.  client.post has read it to its
\* end; a streamed one still occupies its connection.
Dropped(h) ==
  leaked' = IF stage[h] \in Streaming THEN leaked + 1 ELSE leaked

\* May the failure be retried once more?  A mutant: off by one.
MoreConnects_OffByOne(h) == tries[h].connect <= CONNECT_BACKOFFS
MoreConnects(h) == tries[h].connect < CONNECT_BACKOFFS
MoreServers(h) == tries[h].server < SERVER_BACKOFFS
MoreRates(h) == tries[h].rate < RATELIMIT_MAX_RETRY

\* Errors of httpx that are not listed (ReadError, WriteTimeout ...) are raised at
\* once, the listed ones when their budget is spent.
ConnectionError(h) ==
  /\ at[h] = "sent"
  /\ (MoreConnects(h) /\ Backoff(h, "connect") /\ UNCHANGED leaked) \/ Raise(h)

Retried(h) ==
  /\ at[h] = "sent"
  /\ \/ MoreServers(h) /\ Backoff(h, "server")   \* 5xx
     \/ MoreRates(h) /\ Backoff(h, "rate")       \* 429
  /\ Dropped(h)

Wake(h) ==
  /\ at[h] = "backoff"
  /\ at' = [at EXCEPT ![h] = "queue"]
  /\ UNCHANGED <<stage, tries, attempts, lock, leaked>>

----------------------------------------------------------------------------
(* What forward makes of the response request_with_retry returns.          *)

\* The kinds of response it can return; "server" and "limited" only with their
\* retries used up.
Returned(h) ==
  {"ok", "auth", "client"}
    \cup (IF MoreServers(h) THEN {} ELSE {"server"})
    \cup (IF MoreRates(h) THEN {} ELSE {"limited"})

\* First attempt: 401/403 leads to a refresh unless the token is only just
\* refreshed, and its response is closed before the lock is asked for; every
\* other response is streamed to the client.
FirstReturns(h, resp) ==
  /\ stage[h] = "first"
  /\ Enter(h, "body") \/ (resp = "auth" /\ Enter(h, "waitR"))
  /\ UNCHANGED <<lock, leaked>>

SecondReturns(h, resp) ==
  /\ stage[h] = "second"
  /\ Enter(h, "body")
  /\ UNCHANGED <<lock, leaked>>

\* refresh_credential returns, or raises RefreshError: _ensure_fresh goes on
\* with either credential, the reactive path answers 401.  An answer that is not
\* JSON, or is not persisted, raises something else, and ends the request.
RefreshReturns(h, resp) ==
  /\ \/ stage[h] = "refreshP" /\ Enter(h, "first")
     \/ stage[h] = "refreshR" /\ resp = "ok" /\ Enter(h, "second")
     \/ stage[h] = "refreshR" /\ resp # "ok" /\ Enter(h, "idle")
     \/ stage[h] \in Refreshing /\ resp = "ok" /\ Enter(h, "idle")
  /\ Unlock(h)
  /\ UNCHANGED leaked

Return(h) ==
  /\ at[h] = "sent"
  /\ \E resp \in Returned(h) :
       FirstReturns(h, resp) \/ SecondReturns(h, resp) \/ RefreshReturns(h, resp)

----------------------------------------------------------------------------
Step(h) ==
  \/ Acquire(h) \/ CloseBody(h)
  \/ Connect(h) \/ PoolTimeout(h)
  \/ ConnectionError(h) \/ Retried(h) \/ Wake(h) \/ Return(h)

Next == \E h \in Handlers : Arrive(h) \/ Step(h)

Spec == Init /\ [][Next]_vars
\* An attempt gets a connection or times out waiting (60 s), is answered or
\* fails (60 s), and the locks of asyncio are FIFO.
Fairness == \A h \in Handlers : WF_vars(Step(h)) /\ SF_vars(Acquire(h))
FairSpec == Spec /\ Fairness

----------------------------------------------------------------------------
(* Properties.                                                             *)

\* The three budgets of request_with_retry are spent independently, in any
\* interleaving of failures, and bound one run to 1 + 3 + 2 + 1 calls.  (With
\* connection errors alone that is 4 calls; retry.py's header says 3.)
AttemptsBounded ==
  \A h \in Handlers :
    /\ attempts[h] <= 1 + CONNECT_BACKOFFS + SERVER_BACKOFFS + RATELIMIT_MAX_RETRY
    /\ at[h] = "sent" =>
         attempts[h] = 1 + tries[h].connect + tries[h].server + tries[h].rate

\* However a refresh ends - answer, RefreshError, connection error, no connection
\* to be had, an answer it cannot read or persist - the lock is released with it, and it is never held
\* by a request that is past its refresh.
LockOnlyInRefresh ==
  \A h \in Handlers : lock = h <=> stage[h] \in Refreshing

\* Every request ends: no mix of retries, lock waits and pool waits is endless.
HandlersEnd == \A h \in Handlers : stage[h] # "idle" ~> stage[h] = "idle"

----------------------------------------------------------------------------
(* A claim of the documentation that the code does not keep.               *)

\* "return the response object (caller is responsible for closing)" (proxy.py,
\* _forward_once): once no request runs, no connection is taken.
ConnectionsReturned ==
  (\A h \in Handlers : stage[h] = "idle") => leaked = 0
=============================================================================
