--------------------------- MODULE ModelRegistry ---------------------------
(***************************************************************************)
(* Model discovery (registry.py): the per-provider cache of model lists,   *)
(* the lock that lets one lookup refresh it, the results of the fetches    *)
(* and the cache file, while accounts are re-attached, fetches fail and    *)
(* the process restarts.                                                   *)
(*                                                                         *)
(* A lookup is list_for_api or resolve_provider: both refresh the cache    *)
(* and read it without suspending in between.  Time is counted in ticks;   *)
(* the cache holds ages instead of fetched_at and the ticks left instead   *)
(* of retry_at, so that nothing grows without bound.                       *)
(***************************************************************************)
EXTENDS Naturals, FiniteSets

CONSTANTS
  Slugs, Requests,
  Names,        \* model names
  MaxAccounts,  \* bound: attachments per provider
  MaxVersion,   \* bound: discovery configurations, one per release
  TTL,          \* ttl_s, in ticks
  EmptyTTL,     \* min(ttl_s, 60), in ticks
  RetryAfter,   \* the 30 s after a failed fetch, in ticks
  Hazards       \* a subset of HazardKinds

HazardKinds == {"crossing", "disk", "fallback", "restart"}
Free == "free"

ASSUME RegistryAssumption ==
  /\ MaxAccounts \in Nat \ {0} /\ MaxVersion \in Nat \ {0}
  /\ TTL \in Nat /\ EmptyTTL \in 0..TTL /\ RetryAfter \in Nat
  /\ Hazards \subseteq HazardKinds
  /\ Free \notin Requests
  /\ IsFiniteSet(Slugs)

VARIABLES
  seed,      \* seed[s]: the account attached, which names its token chain
  account,   \* account[s]: the account whose token the vault holds
  minted,    \* minted[s]: accounts attached so far
  version,   \* the discovery configuration of this process
  cache,     \* _cache
  disk,      \* the cache file
  cooldown,  \* cooldown[s]: ticks until _retry_at[s]
  lock,      \* the holder of _fetch_lock, or Free
  pc,        \* pc[r]: "idle", "wait" for the lock, "fetch" while holding it
  fetch,     \* fetch[s]: the _fetch_one of s in the current round
  dirty,     \* the local of _maybe_refresh, across its await
  last,      \* last[s]: the last completed fetch, if no lookup has since found another
             \* account or none: its context, outcome and age (history)
  unsaved    \* the last save of the cache file failed (history)

store == <<seed, account, minted>>
vars == <<store, version, cache, disk, cooldown, lock, pc, fetch, dirty, last,
          unsaved>>

\* An entry's context: the account and the configuration it was fetched for.
None == <<0, 0>>
Contexts == (0..MaxAccounts) \X (0..MaxVersion)
Old == IF TTL > RetryAfter THEN TTL ELSE RetryAfter   \* ages stop here
Ages == 0..Old

\* `owner` is the account and the configuration the request was really made with;
\* `back` (history): an earlier account came back while it was fetched, or token and
\* seed were of two accounts when it was sent.
NoEntry == [ctx |-> None, owner |-> None, back |-> FALSE, models |-> {}, age |-> 0]
Unbound == [NoEntry EXCEPT !.models = Names]
Entry == [ctx : Contexts, owner : Contexts, back : BOOLEAN, models : SUBSET Names,
          age : Ages]

NoFetch ==
  [state |-> "none", ctx |-> None, owner |-> None, back |-> FALSE, models |-> {}]
Fetch == [state : {"none", "queued", "sent", "list", "failed"}, ctx : Contexts,
          owner : Contexts, back : BOOLEAN, models : SUBSET Names]

Never == [ctx |-> None, outcome |-> "failed", since |-> Old]

TypeOK ==
  /\ seed \in [Slugs -> 0..MaxAccounts] /\ account \in [Slugs -> 0..MaxAccounts]
  /\ minted \in [Slugs -> 0..MaxAccounts] /\ version \in 1..MaxVersion
  /\ cache \in [Slugs -> Entry] /\ disk \in [Slugs -> Entry]
  /\ cooldown \in [Slugs -> 0..RetryAfter]
  /\ lock \in Requests \cup {Free} /\ pc \in [Requests -> {"idle", "wait", "fetch"}]
  /\ fetch \in [Slugs -> Fetch] /\ dirty \in BOOLEAN /\ unsaved \in BOOLEAN
  /\ last \in [Slugs -> [ctx : Contexts, outcome : {"list", "empty", "failed"},
                         since : Ages]]

\* The first process of this release may find entries without a context.
Init ==
  /\ seed \in [Slugs -> {0, 1}] /\ account = seed /\ minted = seed
  /\ version = 1
  /\ disk \in [Slugs -> {NoEntry, Unbound}] /\ cache = disk
  /\ cooldown = [s \in Slugs |-> 0]
  /\ lock = Free /\ pc = [r \in Requests |-> "idle"]
  /\ fetch = [s \in Slugs |-> NoFetch] /\ dirty = FALSE
  /\ last = [s \in Slugs |-> Never] /\ unsaved = FALSE

----------------------------------------------------------------------------
(* Reading the cache.                                                      *)

\* A mutant: the query parameters are not part of it.
Context_NoVersion(s) == IF account[s] = 0 THEN None ELSE <<seed[s], 1>>

\* _context: discovery_identity hashes the seed of the chain, whoever's token
\* the vault holds; None when the provider is not attached.
Context(s) == IF account[s] = 0 THEN None ELSE <<seed[s], version>>

Bound(s) == Context(s) # None /\ cache[s].ctx = Context(s)

\* The providers whose lists a lookup uses.  A mutant: without the filter.
Listed_Unfiltered == {s \in Slugs : cache[s] # NoEntry}
Listed == {s \in Slugs : Bound(s)}

\* The provider a bare name is routed to: the only one that lists it.
Routed(name) ==
  LET matches == {s \in Listed : name \in cache[s].models}
  IN  IF Cardinality(matches) = 1 THEN matches ELSE {}

\* Entries of other accounts, configurations and detached providers are dropped,
\* with their back-off.
Pruned == [s \in Slugs |-> IF Bound(s) THEN cache[s] ELSE NoEntry]
Cooled ==
  [s \in Slugs |->
     IF Context(s) = None \/ (cache[s] # NoEntry /\ ~Bound(s)) THEN 0
     ELSE cooldown[s]]

\* A mutant: an empty list lives as long as any other.
Lifetime_Uniform(models) == TTL
Lifetime(models) == IF models = {} THEN EmptyTTL ELSE TTL

\* `stale` of _maybe_refresh.
Stale ==
  {s \in Slugs : /\ Context(s) # None
                 /\ \/ Pruned[s] = NoEntry
                    \/ Pruned[s].age >= Lifetime(Pruned[s].models)
                 /\ Cooled[s] = 0}

----------------------------------------------------------------------------
(* _maybe_refresh.                                                         *)

\* _persist_to_disk, if there is a reason to.  A write that fails is only logged, but
\* not a mkdir or mkstemp that does: see Raises.
Save(changed) ==
  \/ ~changed /\ UNCHANGED <<disk, unsaved>>
  \/ changed /\ disk' = cache' /\ unsaved' = FALSE
  \/ changed /\ "disk" \in Hazards /\ unsaved' = TRUE /\ UNCHANGED disk

Lookup(r) ==
  /\ pc[r] = "idle" /\ pc' = [pc EXCEPT ![r] = "wait"]
  /\ UNCHANGED <<store, version, cache, disk, cooldown, lock, fetch, dirty, last,
                 unsaved>>

\* A mutant: the lock does not exclude.
LockFree_Ignored == TRUE
LockFree == lock = Free

\* A mutant: a round without fetches leaves by an early return, past the release.
Holder_EarlyReturn(r) == r
Holder(r) == IF Stale = {} THEN Free ELSE r

\* The account a fetch was for is still attached.
Valid(s) == fetch[s].ctx = Context(s)

\* The cache file is to be written: entries were dropped or stored.
Saving(r) ==
  \/ pc[r] = "wait" /\ Stale = {} /\ Pruned # cache
  \/ pc[r] = "fetch" /\ dirty
  \/ pc[r] = "fetch" /\ \E s \in Slugs : /\ fetch[s].state # "none"
                                         /\ ~Valid(s) \/ fetch[s].state = "list"

\* What the registry remembers of s once it has looked at who is attached.
Seen(s) ==
  IF last[s].ctx = Context(s) THEN last[s] ELSE [last[s] EXCEPT !.ctx = None]

\* The lock reaches r, which ends at once when there is nothing to fetch: a
\* gather of no coroutines does not suspend.
Enter(r) ==
  /\ pc[r] = "wait" /\ LockFree
  /\ cache' = Pruned /\ cooldown' = Cooled /\ lock' = Holder(r)
  /\ \/ /\ Stale = {}
        /\ Save(Saving(r))
        /\ pc' = [pc EXCEPT ![r] = "idle"]
        /\ UNCHANGED <<fetch, dirty>>
     \/ /\ Stale # {}
        /\ pc' = [pc EXCEPT ![r] = "fetch"]
        /\ fetch' = [s \in Slugs |->
                       IF s \in Stale
                         THEN [NoFetch EXCEPT !.state = "queued", !.ctx = Context(s)]
                         ELSE NoFetch]
        /\ dirty' = (cache' # cache)
        /\ UNCHANGED <<disk, unsaved>>
  /\ last' = [s \in Slugs |-> Seen(s)]
  /\ UNCHANGED <<store, version>>

\* The request of s, with the token the vault has.
Asked(s) == [fetch[s] EXCEPT !.state = "sent", !.owner = <<account[s], version>>,
                            !.back = @ \/ account[s] # seed[s]]

\* The task of _fetch_one starts, after the contexts were computed: it takes the
\* token the vault has now, if any.
Start(s) ==
  /\ fetch[s].state = "queued"
  /\ fetch' = [fetch EXCEPT ![s] =
       IF account[s] = 0 THEN [@ EXCEPT !.state = "failed"] ELSE Asked(s)]
  /\ UNCHANGED <<store, version, cache, disk, cooldown, lock, pc, dirty, last,
                 unsaved>>

\* 200 with the models this account has at the moment.
Answer(s, models) ==
  /\ fetch[s].state = "sent"
  /\ fetch' = [fetch EXCEPT ![s].state = "list", ![s].models = models]
  /\ UNCHANGED <<store, version, cache, disk, cooldown, lock, pc, dirty, last,
                 unsaved>>

\* Anything else: a network error, another status, or not the JSON expected.
Fail(s) ==
  /\ fetch[s].state = "sent"
  /\ fetch' = [fetch EXCEPT ![s].state = "failed"]
  /\ UNCHANGED <<store, version, cache, disk, cooldown, lock, pc, dirty, last,
                 unsaved>>

\* The list of a fetch, as an entry.
Stored(s) ==
  [ctx |-> fetch[s].ctx, owner |-> fetch[s].owner, back |-> fetch[s].back,
   models |-> fetch[s].models, age |-> 0]

\* What the cache gets for s.  A mutant: a failure empties it.
NewEntry_DropsOnFailure(s) ==
  IF fetch[s].state = "list" /\ Valid(s)
    THEN Stored(s)
    ELSE IF fetch[s].state = "none" THEN cache[s] ELSE NoEntry
NewEntry(s) ==
  CASE fetch[s].state = "none" -> cache[s]
    [] fetch[s].state # "none" /\ ~Valid(s) -> NoEntry
    [] fetch[s].state = "list" /\ Valid(s) -> Stored(s)
    [] fetch[s].state = "failed" /\ Valid(s) -> cache[s]

\* And its back-off.  A mutant: one that is too long.
NewCooldown_TooLong(s) ==
  IF fetch[s].state = "failed" /\ Valid(s) THEN RetryAfter + 1
  ELSE IF fetch[s].state = "none" THEN cooldown[s] ELSE 0
NewCooldown(s) ==
  IF fetch[s].state = "failed" /\ Valid(s) THEN RetryAfter
  ELSE IF fetch[s].state = "none" THEN cooldown[s] ELSE 0

Outcome(s) ==
  [ctx |-> fetch[s].ctx, since |-> 0,
   outcome |-> IF fetch[s].state = "failed" THEN "failed"
               ELSE IF fetch[s].models = {} THEN "empty" ELSE "list"]

\* The gather is over: store what is valid, save, leave the lock and answer.
Finish(r) ==
  LET fetched == {s \in Slugs : fetch[s].state # "none"} IN
  /\ pc[r] = "fetch"
  /\ \A s \in fetched : fetch[s].state \in {"list", "failed"}
  /\ cache' = [s \in Slugs |-> NewEntry(s)]
  /\ cooldown' = [s \in Slugs |-> NewCooldown(s)]
  /\ Save(Saving(r))
  /\ last' = [s \in Slugs |-> IF s \notin fetched THEN last[s]
                              ELSE IF Valid(s) THEN Outcome(s) ELSE Seen(s)]
  /\ lock' = Free /\ pc' = [pc EXCEPT ![r] = "idle"]
  /\ fetch' = [s \in Slugs |-> NoFetch] /\ dirty' = FALSE
  /\ UNCHANGED <<store, version>>

\* mkdir and mkstemp are outside the try of _persist_to_disk: when one of them fails,
\* the lookup raises instead of answering.
Raises(r) == Saving(r) /\ unsaved'

----------------------------------------------------------------------------
(* The environment.                                                        *)

\* store.reload finds another account attached, or none.  (In Forwarding, Reattach is
\* also what a refresh does that puts a detached provider back.)
Reattach(s) ==
  /\ minted[s] < MaxAccounts
  /\ minted' = [minted EXCEPT ![s] = @ + 1]
  /\ seed' = [seed EXCEPT ![s] = minted'[s]]
  /\ account' = [account EXCEPT ![s] = minted'[s]]
  /\ UNCHANGED <<version, cache, disk, cooldown, lock, pc, fetch, dirty, last, unsaved>>

Detach(s) ==
  /\ account[s] # 0
  /\ seed' = [seed EXCEPT ![s] = 0] /\ account' = [account EXCEPT ![s] = 0]
  /\ UNCHANGED <<minted, version, cache, disk, cooldown, lock, pc, fetch, dirty, last,
                 unsaved>>

\* store.reload brings an earlier account back: the attached file cannot be read, so
\* the runtime file's entry takes its place, until the file is repaired.  (Which
\* accounts the runtime file can hold is TokenRefresh's matter.)
Return(s, earlier) ==
  /\ "fallback" \in Hazards
  /\ earlier \in 1..minted[s] /\ <<seed[s], account[s]>> # <<earlier, earlier>>
  /\ seed' = [seed EXCEPT ![s] = earlier]
  /\ account' = [account EXCEPT ![s] = earlier]
  /\ fetch' = [fetch EXCEPT ![s].back = @ \/ fetch[s].state # "none"]
  /\ UNCHANGED <<minted, version, cache, disk, cooldown, lock, pc, dirty, last, unsaved>>

\* store.update of a refresh that was started for another account (Forwarding has
\* the refresh).
Overwrite(s, other) ==
  /\ "crossing" \in Hazards
  /\ account[s] # 0 /\ other \in 1..minted[s] /\ other # account[s]
  /\ account' = [account EXCEPT ![s] = other]
  /\ UNCHANGED <<seed, minted, version, cache, disk, cooldown, lock, pc, fetch, dirty,
                 last, unsaved>>

Older(age) == IF age < Old THEN age + 1 ELSE Old
Aged(entries) ==
  [s \in Slugs |-> IF entries[s] = NoEntry THEN NoEntry
                   ELSE [entries[s] EXCEPT !.age = Older(@)]]

Tick ==
  /\ cache' = Aged(cache) /\ disk' = Aged(disk)
  /\ cooldown' = [s \in Slugs |-> IF cooldown[s] = 0 THEN 0 ELSE cooldown[s] - 1]
  /\ last' = [s \in Slugs |-> [last[s] EXCEPT !.since = Older(@)]]
  /\ UNCHANGED <<store, version, lock, pc, fetch, dirty, unsaved>>

\* What the cache file still says of the last fetch.
Recorded(s) ==
  IF disk[s].ctx = None THEN Never
  ELSE [ctx |-> disk[s].ctx, since |-> disk[s].age,
        outcome |-> IF disk[s].models = {} THEN "empty" ELSE "list"]

\* The process starts again, perhaps in a new release; _retry_at is not saved.
Restart(next) ==
  /\ "restart" \in Hazards
  /\ next \in version..MaxVersion
  /\ version' = next
  /\ cache' = disk
  /\ cooldown' = [s \in Slugs |-> 0]
  /\ lock' = Free /\ pc' = [r \in Requests |-> "idle"]
  /\ fetch' = [s \in Slugs |-> NoFetch] /\ dirty' = FALSE
  /\ last' = [s \in Slugs |-> Recorded(s)]
  /\ unsaved' = FALSE
  /\ UNCHANGED <<store, disk>>

Next ==
  \/ \E r \in Requests : Lookup(r) \/ Enter(r) \/ Finish(r)
  \/ \E s \in Slugs :
       \/ Start(s) \/ Fail(s) \/ Reattach(s) \/ Detach(s)
       \/ \E models \in SUBSET Names : Answer(s, models)
       \/ \E other \in 1..MaxAccounts : Return(s, other) \/ Overwrite(s, other)
  \/ Tick
  \/ \E next \in 1..MaxVersion : Restart(next)

Spec == Init /\ [][Next]_vars

\* Tasks that are ready run, the lock is FIFO, a fetch times out.
Fairness ==
  /\ \A r \in Requests : SF_vars(Enter(r)) /\ WF_vars(Finish(r))
  /\ \A s \in Slugs : WF_vars(Start(s)) /\ WF_vars(Fail(s))

FairSpec == Spec /\ Fairness

----------------------------------------------------------------------------
(* Properties.                                                             *)

\* r gets its answer in this step.
Answers(r) == Finish(r) \/ (Enter(r) /\ pc'[r] = "idle")

\* No provider is listed, and no bare name routed, by the models of another
\* account or of an earlier release's query: what is used was fetched with the
\* token of the account attached at the moment of the answer, however the accounts
\* changed and came back since, unless one came back during the fetch itself (see
\* DiscardsOnChange) or the token was another account's than the seed.
ServesAttachedAccount ==
  [][\A r \in Requests : Answers(r) =>
       \A s \in (Listed \cup UNION {Routed(name) : name \in Names})' :
         ~cache'[s].back => cache'[s].owner = <<seed[s], version>>]_vars

\* Nothing that happens while the account stays attached loses its last list: no
\* failed fetch, no round for other providers, no re-attachment of others, and no
\* restart if the cache file could be written.
KeepsLastGood ==
  [][\A s \in Slugs :
       Bound(s) /\ Context(s)' = Context(s) /\ ~(unsaved /\ ~unsaved')
         => Bound(s)']_vars

\* The last completed fetch of s still counts: its list has not run out, or its
\* failure is less than 30 s old.
StillCounts(s) ==
  last[s].since < CASE last[s].outcome = "list" -> TTL
                    [] last[s].outcome = "empty" -> EmptyTTL
                    [] last[s].outcome = "failed" -> RetryAfter

\* Lookups coalesce and back off: a provider is not asked while a fetch for it is
\* under way, nor while the last answer for this account still counts, across
\* rounds, waiting lookups and restarts, and also when the account was away for a
\* while and no lookup noticed.
AsksOnlyWhenDue ==
  [][\A r \in Requests : Enter(r) =>
       \A s \in Slugs : fetch'[s].state = "queued" =>
         /\ fetch[s].state = "none"
         /\ last[s].ctx = Context(s) => ~StillCounts(s)]_vars

\* And a provider that is due is asked by the next lookup: a change of account, an
\* expired list (an empty one after 60 s) or the end of the back-off is not missed.
\* A failure counts here whatever account it was for: see FirstAccessAsks.
AsksWhenDue ==
  [][\A r \in Requests : Enter(r) =>
       \A s \in Slugs :
         Context(s) # None /\ fetch'[s].state # "queued" =>
           /\ StillCounts(s)
           /\ last[s].outcome # "failed" => last[s].ctx = Context(s)]_vars

\* Every lookup, and with it every request for a bare model name, is answered,
\* whoever holds the one lock of all providers across their fetches.
LookupsEnd == \A r \in Requests : pc[r] # "idle" ~> pc[r] = "idle"

----------------------------------------------------------------------------
(* Two claims of the documentation that the code does not keep.            *)

\* "Discards discovery results if the attachment changes during the HTTP request"
\* (docs/model-discovery-regression.md): what an answer uses was fetched with the
\* token of the account attached at that moment.
DiscardsOnChange ==
  [][\A r \in Requests : Answers(r) =>
       \A s \in Listed' :
         account[s] = seed[s] => cache'[s].owner = <<seed[s], version>>]_vars

\* "a provider with no cache entry ... fetches on first access" (registry.py): the
\* first lookup that finds an account attached asks for its models.
FirstAccessAsks ==
  [][\A r \in Requests : Enter(r) =>
       \A s \in Slugs :
         Context(s) # None /\ cache[s] = NoEntry /\ last[s].ctx # Context(s)
           => fetch'[s].state = "queued"]_vars
=============================================================================
