---------------------------- MODULE TokenRefresh ----------------------------
(***************************************************************************)
(* The OAuth life of a credential: concurrent requests of proxy.forward,   *)
(* the per-provider refresh lock, refresh_credential, the two-file store   *)
(* and its watcher, with the attach writer, the token endpoint, the        *)
(* upstream API and crashes as the environment.                            *)
(*                                                                         *)
(* Everything runs on one asyncio event loop, so an action is the code     *)
(* between two suspension points: two awaits, or an await and the end of   *)
(* the handler.                                                            *)
(*                                                                         *)
(* A request's pc:                                                         *)
(*   idle    no request                                                    *)
(*   waitE   waiting for the lock in _ensure_fresh (proactive refresh)     *)
(*   postE   holding it, POST to the token endpoint in flight              *)
(*   send    first upstream attempt in flight                              *)
(*   waitR   waiting for the lock after a 401/403 (reactive refresh)       *)
(*   postR   holding it, POST in flight                                    *)
(*   resend  second upstream attempt in flight                             *)
(***************************************************************************)
EXTENDS Credentials

CONSTANTS
  Requests,  \* request slots of the proxy
  Hazards    \* which environment events happen, a subset of HazardKinds

HazardKinds == {"break", "disk", "loss", "restart"}

ASSUME TokenRefreshAssumption == Hazards \subseteq HazardKinds

VARIABLES
  file,      \* credentials.json
  minted,    \* minted[s]: how many attachments of s the user has made
  disk,      \* credentials.runtime.json
  mem,       \* _vault and _chain_seed
  armed,     \* awatch has armed its inotify watch
  event,     \* a relevant change awaits the watcher
  lock,      \* lock[s]: the holder of lock_for(s), or Free
  pc, target,
  mine,      \* mine[r]: the local `cred` of forward
  ask,       \* ask[r]: the `current` whose refresh_token r has POSTed
  answer,    \* answer[r]: what the POST has come to
  live,      \* live[s][c]: the refresh token of chain c the provider honours
  reused,    \* chains revoked because a spent refresh token was presented
  stale,     \* access tokens past expires_at - _TOKEN_EXPIRY_SKEW_S
  synced,    \* the file as it is now has been loaded (history)
  unsaved,   \* slugs whose last rotation did not reach the disk (history)
  spoiled,   \* slugs of which a rotated token was lost for good (history)
  crossed    \* slugs whose attachment changed under a request (history)

files == <<file, minted, disk>>
watch == <<armed, event>>
reqs == <<pc, target, mine, ask, answer>>
server == <<live, reused>>
history == <<synced, unsaved, spoiled, crossed>>
vars == <<files, mem, watch, lock, reqs, server, stale, history>>

Free == "free"
ASSUME FreeAssumption == Free \notin Requests

Posting == {"postE", "postR"}
PCs == {"idle", "waitE", "send", "waitR", "resend"} \cup Posting
\* "rotated": 200 with a new token pair; "kept": 200 without a refresh_token;
\* "denied": 4xx, or 200 without an access_token; "error": 5xx, or the one 429
\* that is retried; "lost": connection error or timeout.
Answers == {"none", "rotated", "kept", "denied", "error", "lost"}

Token(s, cred) == <<s, cred.chain, cred.at>>
Tokens == Slugs \X (0..MaxChains) \X Gens

TypeOK ==
  /\ file \in AttachFile /\ minted \in [Slugs -> 0..MaxChains]
  /\ disk \in Image /\ mem \in Image
  /\ armed \in BOOLEAN /\ event \in BOOLEAN /\ synced \in BOOLEAN
  /\ lock \in [Slugs -> Requests \cup {Free}]
  /\ pc \in [Requests -> PCs] /\ target \in [Requests -> Slugs]
  /\ mine \in [Requests -> Cred] /\ ask \in [Requests -> Cred]
  /\ answer \in [Requests -> Answers]
  /\ live \in [Slugs -> [0..MaxChains -> Gens]]
  /\ reused \subseteq Slugs \X (0..MaxChains)
  /\ stale \subseteq Tokens
  /\ unsaved \subseteq Slugs /\ spoiled \subseteq Slugs /\ crossed \subseteq Slugs

\* The device boots with some providers attached and no runtime file yet; the
\* store has loaded the file, the watcher task has not armed its watch.
Init ==
  /\ \E on \in SUBSET Slugs :
       file = [health |-> "ok",
               content |-> [s \in Slugs |-> IF s \in on THEN 1 ELSE 0]]
  /\ minted = file.content
  /\ disk = EmptyImage
  /\ mem = Load(file, disk)
  /\ armed = FALSE /\ event = FALSE
  /\ lock = [s \in Slugs |-> Free]
  /\ pc = [r \in Requests |-> "idle"]
  /\ target \in [Requests -> Slugs]
  /\ mine = [r \in Requests |-> NoCred]
  /\ ask = [r \in Requests |-> NoCred]
  /\ answer = [r \in Requests |-> "none"]
  /\ live = [s \in Slugs |-> [c \in 0..MaxChains |-> 0]]
  /\ reused = {} /\ stale = {}
  /\ synced = TRUE
  /\ unsaved = {} /\ spoiled = {} /\ crossed = {}

----------------------------------------------------------------------------
(* Inside a handler.                                                       *)

InFlight(s) == {r \in Requests : target[r] = s /\ pc[r] # "idle"}
Waiting(s, pcs) == {r \in InFlight(s) : pc[r] \in pcs}

\* A mutant: the credential the request read before it waited.
Current_ReadEarly(r) == mine[r]

\* store.get(cred.provider, cred.label) or cred
Current(r) ==
  IF mem.prov[target[r]] # NoCred THEN mem.prov[target[r]] ELSE mine[r]

Fresh(s, cred) == Token(s, cred) \notin stale

\* A mutant: the lock does not exclude.
LockFree_Ignored(r) == TRUE

LockFree(r) == lock[target[r]] = Free

\* A mutant: the reactive path refreshes without comparing.
VaultMovedOn_Unchecked(r) == FALSE

\* Someone else has refreshed while r waited: current.access_token differs.
VaultMovedOn(r) == ~SameAccessToken(Current(r), mine[r])

\* The new_cred of refresh_credential; a response without a refresh_token
\* keeps the old one.  A mutant: a response that counts twice.
Rotated_Twice(cred) == [chain |-> cred.chain, at |-> cred.at + 1, rt |-> cred.rt + 2]
Rotated(cred) == [chain |-> cred.chain, at |-> cred.at + 1, rt |-> cred.rt + 1]
Kept(cred) == [chain |-> cred.chain, at |-> cred.at + 1, rt |-> cred.rt]
NewCred(r) == IF answer[r] = "rotated" THEN Rotated(ask[r]) ELSE Kept(ask[r])

\* The vault as _persist writes it.  A mutant: without derived_from_attach.
Saved_NoSeed(vault) == [vault EXCEPT !.seed = EmptyImage.seed]
Saved(vault) == vault

\* A mutant: an exception inside `async with lock` leaves it held.
Released_OnSuccessOnly(r) ==
  IF answer[r] \in {"rotated", "kept"} THEN [lock EXCEPT ![target[r]] = Free]
  ELSE lock
Released(r) == [lock EXCEPT ![target[r]] = Free]

\* Enter the lock and POST the refresh token of cred.
StartRefresh(r, cred, state) ==
  /\ lock' = [lock EXCEPT ![target[r]] = r]
  /\ pc' = [pc EXCEPT ![r] = state]
  /\ ask' = [ask EXCEPT ![r] = cred]
  /\ answer' = [answer EXCEPT ![r] = "none"]

\* Leave `async with lock`, by return or by exception, and go on with cred.
Leave(r, cred, state) ==
  /\ lock' = Released(r)
  /\ pc' = [pc EXCEPT ![r] = state]
  /\ mine' = [mine EXCEPT ![r] = cred]
  /\ ask' = [ask EXCEPT ![r] = NoCred]
  /\ answer' = [answer EXCEPT ![r] = "none"]

\* The handler ends outside the lock.
End(r) ==
  /\ pc' = [pc EXCEPT ![r] = "idle"]
  /\ mine' = [mine EXCEPT ![r] = NoCred]

----------------------------------------------------------------------------
(* The request handler.                                                    *)

\* forward up to its first suspension: the credential is read from the vault,
\* and _ensure_fresh takes the lock at once when it is free and nobody queues
\* for it.  (A request in waitR queues once its response is closed.)
Arrive(r, s) ==
  LET cred == mem.prov[s] IN
  /\ pc[r] = "idle" /\ cred # NoCred
  /\ target' = [target EXCEPT ![r] = s]
  /\ mine' = [mine EXCEPT ![r] = cred]
  /\ \/ /\ Fresh(s, cred)
        /\ pc' = [pc EXCEPT ![r] = "send"]
        /\ UNCHANGED <<lock, ask, answer>>
     \/ /\ ~Fresh(s, cred) /\ lock[s] = Free /\ Waiting(s, {"waitE"}) = {}
        /\ lock' = [lock EXCEPT ![s] = r]
        /\ pc' = [pc EXCEPT ![r] = "postE"]
        /\ ask' = [ask EXCEPT ![r] = cred]
        /\ UNCHANGED answer
     \/ /\ ~Fresh(s, cred)
        /\ lock[s] # Free \/ Waiting(s, {"waitE", "waitR"}) # {}
        /\ pc' = [pc EXCEPT ![r] = "waitE"]
        /\ UNCHANGED <<lock, ask, answer>>
  /\ UNCHANGED <<files, mem, watch, server, stale, history>>

\* The lock reaches a waiter of _ensure_fresh, which checks again.
AcquireE(r) ==
  /\ pc[r] = "waitE" /\ LockFree(r)
  /\ \/ /\ Fresh(target[r], Current(r))
        /\ mine' = [mine EXCEPT ![r] = Current(r)]
        /\ pc' = [pc EXCEPT ![r] = "send"]
        /\ UNCHANGED <<lock, ask, answer>>
     \/ /\ ~Fresh(target[r], Current(r))
        /\ StartRefresh(r, Current(r), "postE")
        /\ UNCHANGED mine
  /\ UNCHANGED <<files, mem, watch, target, server, stale, history>>

\* The lock reaches a request that upstream has refused: it refreshes only if
\* the vault still holds the access token it used.
AcquireR(r) ==
  /\ pc[r] = "waitR" /\ LockFree(r)
  /\ \/ /\ ~VaultMovedOn(r)
        /\ StartRefresh(r, Current(r), "postR")
        /\ UNCHANGED mine
     \/ /\ VaultMovedOn(r)
        /\ mine' = [mine EXCEPT ![r] = Current(r)]
        /\ pc' = [pc EXCEPT ![r] = "resend"]
        /\ UNCHANGED <<lock, ask, answer>>
  /\ UNCHANGED <<files, mem, watch, target, server, stale, history>>

\* Slugs whose chain has come back to the attach file but not yet to the vault:
\* _persist, writing the vault, drops their rotated token from the runtime file.
Dropped ==
  {s \in Slugs : /\ disk.seed[s] = file.content[s] /\ mem.seed[s] # file.content[s]
                 /\ live[s][file.content[s]] # 0}

\* The tail of refresh_credential, store.update and its _persist.
Refreshed(r) ==
  LET s == target[r] IN
  /\ pc[r] \in Posting /\ answer[r] \in {"rotated", "kept"}
  /\ mem' = [prov |-> [mem.prov EXCEPT ![s] = NewCred(r)], seed |-> mem.seed]
  /\ \/ /\ disk' = Saved(mem')
        /\ unsaved' = {} /\ spoiled' = spoiled \cup Dropped
        /\ Leave(r, NewCred(r), IF pc[r] = "postE" THEN "send" ELSE "resend")
     \/ /\ "disk" \in Hazards      \* _persist raises; the request ends with 500
        /\ unsaved' = unsaved \cup {s}
        /\ Leave(r, NoCred, "idle")
        /\ UNCHANGED <<disk, spoiled>>
  /\ UNCHANGED <<file, minted, watch, target, server, stale, synced, crossed>>

\* RefreshError: _ensure_fresh goes on with the stale credential, the reactive
\* path answers 401.
Refused(r) ==
  /\ pc[r] \in Posting /\ answer[r] \in {"denied", "error"}
  /\ \/ pc[r] = "postE" /\ Leave(r, ask[r], "send")
     \/ pc[r] = "postR" /\ Leave(r, NoCred, "idle")
  /\ UNCHANGED <<files, mem, watch, target, server, stale, history>>

\* request_with_retry sends the same POST again (RetryPolicy bounds how often).
Repost(r) ==
  /\ pc[r] \in Posting /\ answer[r] \in {"error", "lost"}
  /\ answer' = [answer EXCEPT ![r] = "none"]
  /\ UNCHANGED <<files, mem, watch, lock, pc, target, mine, ask, server, stale,
                 history>>

\* The retries are exhausted and httpx's exception leaves forward: no caller
\* catches it.
GiveUp(r) ==
  /\ pc[r] \in Posting /\ answer[r] = "lost"
  /\ Leave(r, NoCred, "idle")
  /\ UNCHANGED <<files, mem, watch, target, server, stale, history>>

\* The upstream call is over: its response goes to the client, or it raises.
Finish(r) ==
  /\ pc[r] \in {"send", "resend"}
  /\ End(r)
  /\ UNCHANGED <<files, mem, watch, lock, target, ask, answer, server, stale,
                 history>>

\* The first attempt gets 401 or 403.  last_refreshed_at tells whether this
\* token was refreshed less than 30 s ago, which only a refreshed one can be.
Unauthorized(r) ==
  /\ pc[r] = "send"
  /\ \/ pc' = [pc EXCEPT ![r] = "waitR"] /\ UNCHANGED mine
     \/ mine[r].at > 0 /\ End(r)
  /\ UNCHANGED <<files, mem, watch, lock, target, ask, answer, server, stale,
                 history>>

----------------------------------------------------------------------------
(* The token endpoint, and the network between.                            *)

Honoured(r) ==
  LET s == target[r]  c == ask[r].chain
  IN  ask[r].rt = live[s][c] /\ <<s, c>> \notin reused

Pending(r) == pc[r] \in Posting /\ answer[r] = "none"

\* 200 with a new pair: the presented refresh token is spent from here on.
AnswerRotated(r) ==
  /\ Pending(r) /\ Honoured(r)
  /\ ask[r].at < MaxGen /\ ask[r].rt < MaxGen
  /\ live' = [live EXCEPT ![target[r]][ask[r].chain] = @ + 1]
  /\ answer' = [answer EXCEPT ![r] = "rotated"]
  /\ UNCHANGED <<files, mem, watch, lock, pc, target, mine, ask, reused, stale,
                 history>>

\* 200 without a refresh_token.
AnswerKept(r) ==
  /\ Pending(r) /\ Honoured(r) /\ ask[r].at < MaxGen
  /\ answer' = [answer EXCEPT ![r] = "kept"]
  /\ UNCHANGED <<files, mem, watch, lock, pc, target, mine, ask, server, stale,
                 history>>

\* 4xx.  A spent refresh token is always denied, and revokes its chain.
AnswerDenied(r) ==
  /\ Pending(r)
  /\ reused' = IF Honoured(r) THEN reused
               ELSE reused \cup {<<target[r], ask[r].chain>>}
  /\ answer' = [answer EXCEPT ![r] = "denied"]
  /\ UNCHANGED <<files, mem, watch, lock, pc, target, mine, ask, live, stale,
                 history>>

\* 5xx, without effect.
AnswerError(r) ==
  /\ Pending(r)
  /\ answer' = [answer EXCEPT ![r] = "error"]
  /\ UNCHANGED <<files, mem, watch, lock, pc, target, mine, ask, server, stale,
                 history>>

\* The connection fails or times out, before the POST arrived or after; or the answer
\* cannot be read (resp.json raises), which is never sent again.
Lose(r) ==
  /\ "loss" \in Hazards
  /\ pc[r] \in Posting /\ answer[r] \in {"none", "rotated", "kept"}
  /\ spoiled' = IF answer[r] = "rotated" THEN spoiled \cup {target[r]}
                ELSE spoiled
  /\ answer' = [answer EXCEPT ![r] = "lost"]
  /\ UNCHANGED <<files, mem, watch, lock, pc, target, mine, ask, server, stale,
                 synced, unsaved, crossed>>

\* The access token of s in the vault gets within the skew of its expiry.
Expire(s) ==
  /\ mem.prov[s] # NoCred
  /\ stale' = stale \cup {Token(s, mem.prov[s])}
  /\ UNCHANGED <<files, mem, watch, lock, reqs, server, history>>

----------------------------------------------------------------------------
(* The attach file, its watcher, and the process.                          *)

\* The rotated token of the chain of s that comes back is nowhere any more.
Gone(s) ==
  /\ file.content[s] # minted[s] /\ minted[s] \notin {disk.seed[s], mem.seed[s]}
  /\ live[s][minted[s]] # 0

\* Whatever owns credentials.json writes it: `on` is attached, `fresh` of it
\* anew, the rest is detached or lacks a field, which is the same to _load.  A chain
\* that was detached in that way comes back.  on = what is attached, fresh = {}
\* rewrites the file.
AttachWrite(on, fresh) ==
  LET content == [s \in Slugs |-> IF s \in fresh THEN minted[s] + 1
                                  ELSE IF s \in on THEN minted[s] ELSE 0]
  IN
  /\ \A s \in fresh : s \in on /\ minted[s] < MaxChains
  /\ \A s \in on \ fresh :
       file.content[s] # 0 \/ ("break" \in Hazards /\ minted[s] # 0)
  /\ file' = [health |-> "ok", content |-> content]
  /\ minted' = [s \in Slugs |-> IF s \in fresh THEN minted[s] + 1 ELSE minted[s]]
  /\ event' = (event \/ armed)
  /\ synced' = (synced /\ file' = file)
  /\ spoiled' = spoiled \cup {s \in on \ fresh : Gone(s)}
  /\ UNCHANGED <<disk, mem, armed, lock, reqs, server, stale, unsaved, crossed>>

\* It is left half-written, or with JSON of the wrong shape.
AttachBreak(health) ==
  /\ "break" \in Hazards
  /\ file.health = "ok"
  /\ file' = [health |-> health, content |-> file.content]
  /\ event' = (event \/ armed)
  /\ synced' = FALSE
  /\ UNCHANGED <<minted, disk, mem, armed, lock, reqs, server, stale, unsaved,
                 spoiled, crossed>>

\* It is deleted, a change the watcher filters out.
AttachRemove ==
  /\ "break" \in Hazards
  /\ file.health = "ok"
  /\ file' = [health |-> "unreadable", content |-> file.content]
  /\ synced' = FALSE
  /\ UNCHANGED <<minted, disk, mem, watch, lock, reqs, server, stale, unsaved,
                 spoiled, crossed>>

\* The watcher task first runs: changes are reported from here on.
Arm ==
  /\ ~armed /\ armed' = TRUE
  /\ UNCHANGED <<files, mem, event, lock, reqs, server, stale, history>>

\* A reload that changes the attachment of s under a request that is about to
\* write s back: one that has POSTed, or one whose entry is gone.
Crossing(new) ==
  {s \in Slugs : /\ new.seed[s] # mem.seed[s]
                 /\ \E r \in InFlight(s) :
                      pc[r] \in Posting \/ new.prov[s] = NoCred}

\* _load does not raise.  A mutant: reload skips its turn during a refresh.
Loadable_WhenQuiet ==
  file.health # "malformed" /\ \A s \in Slugs : lock[s] = Free
Loadable == file.health # "malformed"

\* awatch reports a relevant change: store.reload, whose exceptions are logged.
Reload ==
  /\ armed /\ event /\ event' = FALSE
  /\ \/ /\ ~Loadable
        /\ UNCHANGED <<mem, history>>
     \/ /\ Loadable
        /\ mem' = Load(file, disk)
        /\ synced' = TRUE
        /\ unsaved' = {}
        /\ spoiled' = spoiled \cup unsaved
        /\ crossed' = crossed \cup Crossing(mem')
  /\ UNCHANGED <<files, armed, lock, reqs, server, stale>>

\* The process dies, and starts again on the two files.  It does not come up
\* on a malformed attach file.
Restart ==
  /\ "restart" \in Hazards /\ Loadable
  /\ mem' = Load(file, disk)
  /\ armed' = FALSE /\ event' = FALSE
  /\ lock' = [s \in Slugs |-> Free]
  /\ pc' = [r \in Requests |-> "idle"]
  /\ mine' = [r \in Requests |-> NoCred]
  /\ ask' = [r \in Requests |-> NoCred]
  /\ answer' = [r \in Requests |-> "none"]
  /\ synced' = TRUE
  /\ unsaved' = {}
  /\ spoiled' = spoiled \cup unsaved
       \cup {target[r] : r \in {q \in Requests : answer[q] = "rotated"}}
  /\ UNCHANGED <<files, target, server, stale, crossed>>

----------------------------------------------------------------------------
Endpoint(r) ==
  AnswerRotated(r) \/ AnswerKept(r) \/ AnswerDenied(r) \/ AnswerError(r)

Handler(r) ==
  \/ AcquireE(r) \/ AcquireR(r)
  \/ Refreshed(r) \/ Refused(r) \/ Repost(r) \/ GiveUp(r)
  \/ Finish(r) \/ Unauthorized(r)

AttachWriter ==
  \/ \E on, fresh \in SUBSET Slugs : AttachWrite(on, fresh)
  \/ \E health \in {"unreadable", "malformed"} : AttachBreak(health)
  \/ AttachRemove

Next ==
  \/ \E r \in Requests :
       (\E s \in Slugs : Arrive(r, s)) \/ Handler(r) \/ Endpoint(r) \/ Lose(r)
  \/ \E s \in Slugs : Expire(s)
  \/ AttachWriter \/ Arm \/ Reload \/ Restart

Spec == Init /\ [][Next]_vars
\* asyncio runs every task that is ready, its locks are FIFO, httpx answers or
\* times out within 60 s, and request_with_retry stops after a few attempts.
Settle(r) == Refreshed(r) \/ Refused(r) \/ GiveUp(r)

Fairness ==
  /\ \A r \in Requests :
       /\ SF_vars(AcquireE(r)) /\ SF_vars(AcquireR(r))
       /\ SF_vars(Settle(r))
       /\ WF_vars(Endpoint(r)) /\ WF_vars(Finish(r))
  /\ WF_vars(Arm) /\ WF_vars(Reload)

FairSpec == Spec /\ Fairness

----------------------------------------------------------------------------
(* Properties.                                                             *)

\* The lock does its work: at most one POST per provider is in flight, and the
\* lock is held by exactly the request that has it (credentials.py, "Concurrent
\* 401s on the same provider coalesce into a single refresh").
OneRefreshAtATime ==
  \A r \in Requests : pc[r] \in Posting <=> lock[target[r]] = r

\* Nothing is refreshed without a reason: the access token a POST replaces is
\* one that was about to expire, or the very one upstream has refused to this
\* request.  A request that queued behind another's refresh takes its result
\* (the double checks of _ensure_fresh and of the reactive path).
RefreshHasCause ==
  \A r \in Requests :
    /\ pc[r] = "postE" => ~Fresh(target[r], ask[r])
    /\ pc[r] = "postR" => SameAccessToken(ask[r], mine[r])

\* The proxy never trips the provider's reuse detection by itself: a chain is
\* revoked only if a rotated token had been lost before it could be stored, or
\* the attachment had been changed under a refresh.
NoTokenReplay ==
  \A s \in Slugs, c \in Chains :
    <<s, c>> \in reused => s \in spoiled \cup crossed

\* Once loaded, the attach file decides whose credential the proxy uses, in
\* memory and (through the seed) in the runtime file.  The guard on crossed is
\* what AttachWins, below, shows to be needed.
AttachWinsUnlessCrossed ==
  synced /\ file.health = "ok" =>
    \A s \in Slugs \ crossed :
      mem.prov[s].chain = file.content[s] /\ mem.seed[s] = file.content[s]

\* Reading the files again changes nothing as long as nothing has changed: a
\* byte-identical rewrite, and a clean restart, keep the rotated tokens.
ReloadIsNoop ==
  synced => \A s \in Slugs \ (crossed \cup unsaved) :
    /\ Load(file, disk).prov[s] = mem.prov[s]
    /\ Load(file, disk).seed[s] = mem.seed[s]

\* A chain only moves forward in the vault: no reload, restart or late writer
\* brings a replaced token back, unless the newer one was lost or overwritten.
NoRollback ==
  [][\A s \in Slugs \ (spoiled' \cup crossed') :
       mem'.prov[s].chain = mem.prov[s].chain =>
         mem'.prov[s].rt >= mem.prov[s].rt /\ mem'.prov[s].at >= mem.prov[s].at]_vars

\* What the provider honours in chain c of s, with a rotation whose answer is
\* still under way not counted yet.
Rotating(s, c) ==
  \E r \in Requests : answer[r] = "rotated" /\ target[r] = s /\ ask[r].chain = c

Settled(s, c) == IF Rotating(s, c) THEN live[s][c] - 1 ELSE live[s][c]

Void == spoiled \cup crossed

\* What the proxy holds and what the provider honours, as far as promised.
Held ==
  [s \in Slugs |-> IF s \in Void THEN [chain |-> 0, gen |-> 0]
                   ELSE [chain |-> mem.prov[s].chain, gen |-> mem.prov[s].rt]]
HonouredGen ==
  [s \in Slugs |-> [c \in 0..MaxChains |->
     IF s \in Void THEN 0 ELSE Settled(s, c)]]

\* The locked double check, the POST, the store and the persist together behave
\* as one atomic rotation of vault and provider.
Atomic ==
  INSTANCE AtomicRotation WITH held <- Held, honoured <- HonouredGen, void <- Void

RotatesAtomically == Atomic!Spec

\* Every request ends, whoever else refreshes, reloads or fails meanwhile.
RequestsEnd == \A r \in Requests : pc[r] # "idle" ~> pc[r] = "idle"

\* A change the watcher has been told of gets loaded, or is unloadable.
EventsAreServed == event ~> synced \/ file.health = "malformed"

----------------------------------------------------------------------------
(* Claims of the documentation that the code does not keep.                *)

\* "next request uses the new pair" (README),
\* "An explicit {"providers": {}} is authoritative detachment" (credentials.py).
AttachWins ==
  synced /\ file.health = "ok" =>
    \A s \in Slugs : mem.prov[s].chain = file.content[s]

\* "On refresh error, returns the original (stale) cred and lets the caller's
\* upstream call surface the auth failure" (proxy.py, _ensure_fresh).
StaleTokenStillForwarded ==
  [][\A r \in Requests : pc[r] = "postE" => pc'[r] \in {"postE", "send"}]_vars

\* "Reload store whenever credentials.json is modified, added, or replaced"
\* (main.py): with the watch armed and no change left to report, the file as it
\* is has been loaded.
WatcherCaughtUp ==
  armed /\ ~event /\ file.health = "ok" => synced
=============================================================================
