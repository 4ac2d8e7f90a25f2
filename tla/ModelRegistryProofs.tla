------------------------ MODULE ModelRegistryProofs ------------------------
(***************************************************************************)
(* Proofs about ModelRegistry, for every set of providers, requests and    *)
(* model names, every life time and back-off, and any number of accounts   *)
(* and releases: what a lookup serves was fetched for the account that is  *)
(* attached, it is kept as long as that account stays, and a provider is   *)
(* asked when it is due and only then.                                     *)
(***************************************************************************)
EXTENDS ModelRegistry, TLAPS

\* The lock is held by the one lookup that is fetching, and no fetch outlives it.
MutexInv ==
  /\ \A r \in Requests : pc[r] = "fetch" <=> lock = r
  /\ lock = Free => \A s \in Slugs : fetch[s].state = "none"

\* What was fetched while no earlier account came back was fetched with the token of
\* the account its context names.  A fetch that is under way still needs that account
\* to be attached: the ones attached later have numbers of their own.
Owned(e) == ~e.back => e.owner = e.ctx

OwnerInv(s) ==
  /\ seed[s] <= minted[s] /\ account[s] <= minted[s] /\ (account[s] # 0 => seed[s] # 0)
  /\ Owned(cache[s]) /\ Owned(disk[s])
  /\ fetch[s].state # "none" =>
       /\ fetch[s].ctx[1] # 0 /\ fetch[s].ctx[1] <= minted[s]
       /\ fetch[s].ctx[2] = version
  /\ fetch[s].state \in {"sent", "list"} /\ seed[s] = fetch[s].ctx[1] => Owned(fetch[s])

\* While s is fetched, the cache has nothing for it that another context made, and
\* nothing that has not run out.
Expired(e) == e.age >= Lifetime(e.models)

RoundInv(s) ==
  fetch[s].state # "none" =>
    cache[s] = NoEntry \/ (cache[s].ctx = fetch[s].ctx /\ Expired(cache[s]))

\* The cache file has every entry with a context, unless the last save failed.
DiskInv(s) == ~unsaved /\ cache[s].ctx # None => disk[s] = cache[s]

\* The last completed fetch was of this list, and they are of the same age.
LastMade(s) ==
  last[s] = [ctx |-> cache[s].ctx, since |-> cache[s].age,
             outcome |-> IF cache[s].models = {} THEN "empty" ELSE "list"]

\* A list that has not run out came with the last fetch, and the last fetch is the
\* one in the cache or the one that is backed off from; this is so for whoever is
\* attached, so that an account that comes back finds it true.
DueInv(s) ==
  /\ fetch[s].state # "none" => last[s].ctx \in {None, fetch[s].ctx}
  /\ cache[s].ctx # None /\ ~Expired(cache[s]) => LastMade(s)
  /\ last[s].ctx # None /\ last[s].outcome # "failed" => LastMade(s)
  /\ last[s].ctx # None /\ last[s].outcome = "failed" =>
       /\ cache[s] = NoEntry \/ cache[s].ctx = last[s].ctx
       /\ cooldown[s] + last[s].since >= RetryAfter
  /\ cooldown[s] # 0 =>
       last[s].outcome = "failed" /\ cooldown[s] + last[s].since = RetryAfter

\* What is served and kept rests on the first, when a provider is asked on both.
CacheInv ==
  /\ TypeOK /\ MutexInv
  /\ \A s \in Slugs : OwnerInv(s) /\ RoundInv(s) /\ DiskInv(s)

RegistryInv == CacheInv /\ \A s \in Slugs : DueInv(s)

----------------------------------------------------------------------------
(* Types.                                                                  *)

LEMMA Numbers ==
  /\ MaxAccounts \in Nat /\ MaxVersion \in Nat /\ 1 \in 1..MaxVersion
  /\ TTL \in Nat /\ EmptyTTL \in Nat /\ EmptyTTL <= TTL /\ RetryAfter \in Nat
  /\ Old \in Nat /\ TTL <= Old /\ RetryAfter <= Old
  /\ None \in Contexts /\ 0 \in Ages /\ Old \in Ages
  /\ Free \notin Requests
  BY RegistryAssumption DEF Old, Ages, None, Contexts

LEMMA OlderType ==
  ASSUME NEW age \in Ages PROVE Older(age) \in Ages
  BY Numbers DEF Older, Ages

LEMMA Literals ==
  /\ NoEntry \in Entry /\ Unbound \in Entry /\ NoFetch \in Fetch
  /\ Never \in [ctx : Contexts, outcome : {"list", "empty", "failed"}, since : Ages]
  BY Numbers DEF NoEntry, Unbound, Entry, NoFetch, Fetch, Never

\* The contexts of attached providers, and of the others.
LEMMA ContextIs ==
  ASSUME TypeOK, NEW s \in Slugs
  PROVE  /\ Context(s) \in Contexts
         /\ Context(s) = None <=> account[s] = 0
         /\ account[s] # 0 => Context(s) = <<seed[s], version>>
         /\ <<account[s], version>> \in Contexts
  BY Numbers DEF TypeOK, Context, None, Contexts

\* Every context is a pair of numbers.
LEMMA PairIs ==
  ASSUME NEW c \in Contexts
  PROVE  c[1] \in Nat /\ c[2] \in Nat /\ c = <<c[1], c[2]>>
  BY Numbers DEF Contexts

LEMMA SlugTypes ==
  ASSUME TypeOK, NEW s \in Slugs
  PROVE  /\ seed[s] \in Nat /\ account[s] \in Nat /\ minted[s] \in Nat /\ version \in Nat
         /\ cache[s] \in Entry /\ disk[s] \in Entry /\ fetch[s] \in Fetch
         /\ cooldown[s] \in Nat
         /\ last[s] \in [ctx : Contexts, outcome : {"list", "empty", "failed"},
                         since : Ages]
         /\ cache[s].ctx \in Contexts /\ disk[s].ctx \in Contexts
         /\ fetch[s].ctx \in Contexts /\ last[s].ctx \in Contexts
         /\ cache[s].age \in Nat /\ disk[s].age \in Nat /\ last[s].since \in Nat
  BY Numbers DEF TypeOK, Entry, Fetch, Ages

LEMMA PrunedIs ==
  ASSUME TypeOK, NEW s \in Slugs
  PROVE  /\ Pruned[s] \in Entry
         /\ Bound(s) => Pruned[s] = cache[s]
         /\ ~Bound(s) => Pruned[s] = NoEntry
         /\ Cooled[s] \in {0, cooldown[s]}
         /\ Context(s) # None /\ (cache[s] = NoEntry \/ Bound(s)) =>
              Cooled[s] = cooldown[s]
         /\ s \in Stale <=> /\ Context(s) # None
                            /\ Pruned[s] = NoEntry \/ Expired(Pruned[s])
                            /\ Cooled[s] = 0
  BY Literals, SlugTypes DEF Pruned, Cooled, Stale, Expired

----------------------------------------------------------------------------
(* What the steps of a round do to one provider.                           *)

\* A save writes the new cache, fails, or was not called for.
Saved(s) ==
  \/ disk'[s] = cache'[s] /\ ~unsaved'
  \/ disk'[s] = disk[s] /\ unsaved'

LEMMA SaveIs ==
  ASSUME TypeOK, NEW changed, Save(changed), NEW s \in Slugs
  PROVE  Saved(s) \/ (~changed /\ disk'[s] = disk[s] /\ unsaved' = unsaved)
  BY DEF Save, Saved, TypeOK

LEMMA EnterIs ==
  ASSUME TypeOK, NEW r \in Requests, Enter(r), NEW s \in Slugs
  PROVE  /\ lock = Free /\ cache'[s] = Pruned[s] /\ cooldown'[s] = Cooled[s]
         /\ UNCHANGED <<store, version>> /\ last'[s] = Seen(s)
         /\ s \in Stale => fetch'[s] = [NoFetch EXCEPT !.state = "queued", !.ctx = Context(s)]
         /\ s \notin Stale => fetch'[s] \in {fetch[s], NoFetch}
         /\ Saved(s) \/ (disk'[s] = disk[s] /\ unsaved' = unsaved)
<1>1. Pruned = [t \in Slugs |-> Pruned[t]] /\ Cooled = [t \in Slugs |-> Cooled[t]]
  BY DEF Pruned, Cooled
<1>2. CASE Stale = {} /\ Save(Saving(r)) /\ UNCHANGED fetch
  BY <1>1, <1>2, SaveIs DEF Enter, LockFree
<1>3. CASE Stale # {} /\ UNCHANGED <<disk, unsaved>>
           /\ fetch' = [t \in Slugs |->
                IF t \in Stale
                  THEN [NoFetch EXCEPT !.state = "queued", !.ctx = Context(t)]
                  ELSE NoFetch]
  BY <1>1, <1>3 DEF Enter, LockFree
<1>4. QED
  BY <1>2, <1>3 DEF Enter

\* What is remembered of the last fetch once the context has been looked at.
LEMMA SeenIs ==
  ASSUME TypeOK, NEW s \in Slugs
  PROVE  /\ Seen(s) \in [ctx : Contexts, outcome : {"list", "empty", "failed"},
                         since : Ages]
         /\ Seen(s).outcome = last[s].outcome /\ Seen(s).since = last[s].since
         /\ Seen(s).ctx \in {Context(s), None}
         /\ Seen(s).ctx # None => Seen(s) = last[s] /\ last[s].ctx = Context(s)
         /\ last[s].ctx = Context(s) => Seen(s) = last[s]
  BY SlugTypes, Numbers DEF Seen

LEMMA FinishIs ==
  ASSUME TypeOK, NEW r \in Requests, Finish(r), NEW s \in Slugs
  PROVE  /\ fetch[s].state \in {"none", "list", "failed"}
         /\ cache'[s] = IF fetch[s].state = "none" THEN cache[s]
                        ELSE IF ~Valid(s) THEN NoEntry
                        ELSE IF fetch[s].state = "failed" THEN cache[s]
                        ELSE Stored(s)
         /\ cooldown'[s] = NewCooldown(s)
         /\ last'[s] = IF fetch[s].state = "none" THEN last[s]
                       ELSE IF Valid(s) THEN Outcome(s) ELSE Seen(s)
         /\ fetch'[s] = NoFetch
         /\ UNCHANGED <<store, version>>
         /\ \/ Saved(s)
            \/ cache'[s] = cache[s] /\ disk'[s] = disk[s] /\ unsaved' = unsaved
<1>1. fetch[s].state \in {"none", "list", "failed"}
  BY DEF Finish
<1>2. cache'[s] = IF fetch[s].state = "none" THEN cache[s]
                  ELSE IF ~Valid(s) THEN NoEntry
                  ELSE IF fetch[s].state = "failed" THEN cache[s]
                  ELSE Stored(s)
  <2>1. cache'[s] = NewEntry(s)
    BY DEF Finish
  <2>2. QED
    BY <1>1, <2>1 DEF NewEntry
<1>3. Save(Saving(r)) /\ pc[r] = "fetch"
  BY DEF Finish
<1>4. Saved(s) \/ (~Saving(r) /\ disk'[s] = disk[s] /\ unsaved' = unsaved)
  BY <1>3, SaveIs
<1>5. ~Saving(r) => cache'[s] = cache[s]
  BY <1>1, <1>2, <1>3 DEF Saving
<1>6. QED
  BY <1>1, <1>2, <1>4, <1>5 DEF Finish

\* The entry of a list says what its fetch says.
LEMMA StoredIs ==
  ASSUME TypeOK, NEW s \in Slugs
  PROVE  /\ Stored(s) \in Entry /\ Stored(s).ctx = fetch[s].ctx
         /\ Stored(s).models = fetch[s].models /\ Stored(s).age = 0
         /\ Owned(Stored(s)) <=> Owned(fetch[s])
<1>1. Stored(s) \in Entry
  BY SlugTypes, Numbers DEF Stored, Entry, Fetch
<1>2. /\ Stored(s).ctx = fetch[s].ctx /\ Stored(s).owner = fetch[s].owner
      /\ Stored(s).back = fetch[s].back
      /\ Stored(s).models = fetch[s].models /\ Stored(s).age = 0
  BY DEF Stored
<1>3. QED
  BY <1>1, <1>2 DEF Owned

\* A tick ages an entry without touching what it says.
LEMMA AgedIs ==
  ASSUME NEW entries \in [Slugs -> Entry], NEW s \in Slugs
  PROVE  LET old == entries[s]
             new == Aged(entries)[s]
         IN  /\ new \in Entry
             /\ new = NoEntry <=> old = NoEntry
             /\ new.ctx = old.ctx /\ new.owner = old.owner /\ new.models = old.models
             /\ new.back = old.back
             /\ old # NoEntry => new.age = Older(old.age)
<1>1. /\ entries[s] \in Entry /\ NoEntry \in Entry
      /\ Aged(entries)[s] = IF entries[s] = NoEntry THEN NoEntry
                            ELSE [entries[s] EXCEPT !.age = Older(@)]
  BY Literals DEF Aged
<1>2. CASE entries[s] = NoEntry
  BY <1>1, <1>2
<1>3. CASE entries[s] # NoEntry
  <2> DEFINE old == entries[s]
             new == [old EXCEPT !.age = Older(@)]
  <2>1. /\ new \in Entry /\ new.ctx = old.ctx /\ new.owner = old.owner
        /\ new.back = old.back
        /\ new.models = old.models /\ new.age = Older(old.age)
    BY <1>1, OlderType DEF Entry
  <2>2. new = NoEntry => old = NoEntry
    <3>1. Older(old.age) = 0 => old.age = 0
      BY <1>1, Numbers DEF Older, Entry, Ages
    <3>2. QED
      BY <1>1, <2>1, <3>1 DEF NoEntry, Entry
  <2>3. QED
    BY <1>1, <1>3, <2>1, <2>2
<1>4. QED
  BY <1>2, <1>3

----------------------------------------------------------------------------
(* Every step keeps the types and the lock.                                *)

LEMMA TypeInit == Init => TypeOK
<1> SUFFICES ASSUME Init PROVE TypeOK
  OBVIOUS
<1>1. seed \in [Slugs -> 0..MaxAccounts]
  <2>1. {0, 1} \subseteq 0..MaxAccounts
    BY RegistryAssumption
  <2>2. QED
    BY <2>1 DEF Init
<1>2. account \in [Slugs -> 0..MaxAccounts] /\ minted \in [Slugs -> 0..MaxAccounts]
  BY <1>1 DEF Init
<1>3. cache \in [Slugs -> Entry] /\ disk \in [Slugs -> Entry]
  BY Literals DEF Init
<1>4. cooldown \in [Slugs -> 0..RetryAfter] /\ version \in 1..MaxVersion
  BY Numbers DEF Init
<1>5. fetch \in [Slugs -> Fetch]
      /\ last \in [Slugs -> [ctx : Contexts, outcome : {"list", "empty", "failed"},
                             since : Ages]]
  BY Literals DEF Init
<1>6. /\ lock \in Requests \cup {Free} /\ pc \in [Requests -> {"idle", "wait", "fetch"}]
      /\ dirty \in BOOLEAN /\ unsaved \in BOOLEAN
  BY DEF Init
<1>7. QED
  BY <1>1, <1>2, <1>3, <1>4, <1>5, <1>6 DEF TypeOK

\* Saving keeps the cache file one of entries.
LEMMA SaveType ==
  ASSUME TypeOK, NEW changed, Save(changed), cache' \in [Slugs -> Entry]
  PROVE  disk' \in [Slugs -> Entry] /\ unsaved' \in BOOLEAN
  BY DEF Save, TypeOK

LEMMA LookupType ==
  ASSUME TypeOK, NEW r \in Requests, Lookup(r) PROVE TypeOK'
  BY DEF TypeOK, Lookup, store

LEMMA EnterType ==
  ASSUME TypeOK, NEW r \in Requests, Enter(r) PROVE TypeOK'
<1>1. cache' \in [Slugs -> Entry] /\ cooldown' \in [Slugs -> 0..RetryAfter]
  <2>1. Pruned \in [Slugs -> Entry]
    BY PrunedIs DEF Pruned
  <2>2. Cooled \in [Slugs -> 0..RetryAfter]
    BY Numbers DEF Cooled, TypeOK
  <2>3. QED
    BY <2>1, <2>2 DEF Enter
<1>2. lock' \in Requests \cup {Free} /\ pc' \in [Requests -> {"idle", "wait", "fetch"}]
  BY DEF Enter, Holder, TypeOK
<1>3. fetch' \in [Slugs -> Fetch]
  <2>1. \A s \in Slugs : [NoFetch EXCEPT !.state = "queued", !.ctx = Context(s)] \in Fetch
    BY ContextIs, Literals DEF NoFetch, Fetch
  <2>2. \/ fetch' = fetch
        \/ fetch' = [s \in Slugs |->
             IF s \in Stale THEN [NoFetch EXCEPT !.state = "queued", !.ctx = Context(s)]
             ELSE NoFetch]
    BY DEF Enter
  <2>3. fetch \in [Slugs -> Fetch]
    BY DEF TypeOK
  <2>4. QED
    BY <2>1, <2>2, <2>3, Literals
<1>4. disk' \in [Slugs -> Entry] /\ unsaved' \in BOOLEAN
  BY <1>1, SaveType DEF Enter, TypeOK
<1>5. dirty' \in BOOLEAN
  BY DEF Enter, TypeOK
<1>6. last' \in [Slugs -> [ctx : Contexts, outcome : {"list", "empty", "failed"},
                           since : Ages]]
  BY SeenIs DEF Enter
<1>7. QED
  BY <1>1, <1>2, <1>3, <1>4, <1>5, <1>6 DEF Enter, TypeOK, store

LEMMA FinishType ==
  ASSUME TypeOK, NEW r \in Requests, Finish(r) PROVE TypeOK'
<1>1. cache' \in [Slugs -> Entry]
  <2>1. cache' = [s \in Slugs |-> NewEntry(s)]
    BY DEF Finish
  <2>2. ASSUME NEW s \in Slugs PROVE cache'[s] \in Entry
    BY FinishIs, StoredIs, SlugTypes, Literals
  <2>3. QED
    BY <2>1, <2>2
<1>2. cooldown' \in [Slugs -> 0..RetryAfter]
  BY Numbers DEF Finish, NewCooldown, TypeOK
<1>3. last' \in [Slugs -> [ctx : Contexts, outcome : {"list", "empty", "failed"},
                           since : Ages]]
  <2>1. \A s \in Slugs : Outcome(s) \in [ctx : Contexts, since : Ages,
                                         outcome : {"list", "empty", "failed"}]
    BY SlugTypes, Numbers DEF Outcome
  <2>2. \A s \in Slugs : last'[s] \in [ctx : Contexts, since : Ages,
                                       outcome : {"list", "empty", "failed"}]
    BY <2>1, FinishIs, SeenIs, SlugTypes
  <2>3. QED
    BY <2>2 DEF Finish
<1>4. disk' \in [Slugs -> Entry] /\ unsaved' \in BOOLEAN
  BY <1>1, SaveType DEF Finish
<1>5. fetch' \in [Slugs -> Fetch]
  BY Literals DEF Finish
<1>6. QED
  BY <1>1, <1>2, <1>3, <1>4, <1>5 DEF Finish, TypeOK, store

LEMMA StartIs ==
  ASSUME TypeOK, NEW s \in Slugs, Start(s)
  PROVE  /\ fetch[s].state = "queued"
         /\ account[s] = 0 => fetch' = [fetch EXCEPT ![s].state = "failed"]
         /\ account[s] # 0 => fetch' = [fetch EXCEPT ![s] = Asked(s)]
         /\ UNCHANGED <<store, version, cache, disk, cooldown, lock, pc, dirty, last,
                        unsaved>>
<1>1. fetch \in [Slugs -> Fetch]
  BY DEF TypeOK
<1>2. QED
  BY <1>1 DEF Start

LEMMA AskedIs ==
  ASSUME TypeOK, NEW s \in Slugs
  PROVE  /\ Asked(s) \in Fetch /\ Asked(s).state = "sent" /\ Asked(s).ctx = fetch[s].ctx
         /\ Asked(s).owner = <<account[s], version>>
         /\ ~Asked(s).back => account[s] = seed[s]
<1>1. fetch[s] \in Fetch
  BY DEF TypeOK
<1>2. PICK b \in BOOLEAN : b = (fetch[s].back \/ account[s] # seed[s])
  OBVIOUS
<1>3. Asked(s) = [fetch[s] EXCEPT !.state = "sent", !.owner = <<account[s], version>>,
                                 !.back = b]
  BY <1>1, <1>2 DEF Asked, Fetch
<1>4. /\ Asked(s) \in Fetch /\ Asked(s).state = "sent" /\ Asked(s).ctx = fetch[s].ctx
      /\ Asked(s).owner = <<account[s], version>> /\ Asked(s).back = b
  BY <1>1, <1>3, ContextIs DEF Fetch
<1>5. QED
  BY <1>2, <1>4

LEMMA FetchType ==
  ASSUME TypeOK, NEW s \in Slugs,
         Start(s) \/ Fail(s) \/ \E models \in SUBSET Names : Answer(s, models)
  PROVE  TypeOK'
<1>1. fetch' \in [Slugs -> Fetch]
  <2>1. fetch \in [Slugs -> Fetch] /\ fetch[s] \in Fetch
    BY DEF TypeOK
  <2>2. CASE Start(s)
    <3>1. [fetch[s] EXCEPT !.state = "failed"] \in Fetch /\ Asked(s) \in Fetch
      BY <2>1, AskedIs DEF Fetch
    <3>2. QED
      BY <2>1, <2>2, <3>1, StartIs
  <2>3. CASE Fail(s)
    <3>1. [fetch[s] EXCEPT !.state = "failed"] \in Fetch
      BY <2>1 DEF Fetch
    <3>2. QED
      BY <2>1, <2>3, <3>1 DEF Fail
  <2>4. ASSUME NEW models \in SUBSET Names, Answer(s, models)
        PROVE  fetch' \in [Slugs -> Fetch]
    <3>1. [fetch[s] EXCEPT !.state = "list", !.models = models] \in Fetch
      BY <2>1 DEF Fetch
    <3>2. fetch' = [fetch EXCEPT ![s] = [fetch[s] EXCEPT !.state = "list", !.models = models]]
      BY <2>1, <2>4 DEF Answer
    <3>3. QED
      BY <2>1, <3>1, <3>2
  <2>5. QED
    BY <2>2, <2>3, <2>4
<1>2. UNCHANGED <<store, version, cache, disk, cooldown, lock, pc, dirty, last, unsaved>>
  BY DEF Start, Fail, Answer
<1>3. QED
  BY <1>1, <1>2 DEF TypeOK, store

LEMMA AttachType ==
  ASSUME TypeOK, NEW s \in Slugs,
         \/ Reattach(s) \/ Detach(s)
         \/ \E other \in 1..MaxAccounts : Return(s, other) \/ Overwrite(s, other)
  PROVE  TypeOK'
<1>1. /\ seed' \in [Slugs -> 0..MaxAccounts] /\ account' \in [Slugs -> 0..MaxAccounts]
      /\ minted' \in [Slugs -> 0..MaxAccounts]
  <2>1. CASE Reattach(s)
    BY <2>1, Numbers DEF TypeOK, Reattach
  <2>2. CASE Detach(s)
    BY <2>2, Numbers DEF TypeOK, Detach
  <2>3. ASSUME NEW other \in 1..MaxAccounts, Return(s, other) \/ Overwrite(s, other)
        PROVE  /\ seed' \in [Slugs -> 0..MaxAccounts]
               /\ account' \in [Slugs -> 0..MaxAccounts] /\ minted' = minted
    BY <2>3, Numbers DEF TypeOK, Return, Overwrite
  <2>4. QED
    BY <2>1, <2>2, <2>3 DEF TypeOK
<1>2. UNCHANGED <<version, cache, disk, cooldown, lock, pc, dirty, last, unsaved>>
  BY DEF Reattach, Detach, Return, Overwrite
<1>3. fetch' \in [Slugs -> Fetch]
  <2>1. fetch \in [Slugs -> Fetch] /\ fetch[s] \in Fetch
    BY DEF TypeOK
  <2>2. [fetch[s] EXCEPT !.back = @ \/ fetch[s].state # "none"] \in Fetch
    BY <2>1 DEF Fetch
  <2>3. fetch' \in {fetch, [fetch EXCEPT ![s] =
                              [fetch[s] EXCEPT !.back = @ \/ fetch[s].state # "none"]]}
    BY <2>1 DEF Reattach, Detach, Return, Overwrite
  <2>4. QED
    BY <2>1, <2>2, <2>3
<1>4. QED
  BY <1>1, <1>2, <1>3 DEF TypeOK

LEMMA TickType ==
  ASSUME TypeOK, Tick PROVE TypeOK'
<1>1. cache' \in [Slugs -> Entry] /\ disk' \in [Slugs -> Entry]
  BY AgedIs DEF TypeOK, Tick, Aged
<1>2. cooldown' \in [Slugs -> 0..RetryAfter]
  <2>1. ASSUME NEW s \in Slugs
        PROVE  (IF cooldown[s] = 0 THEN 0 ELSE cooldown[s] - 1) \in 0..RetryAfter
    <3>1. cooldown[s] \in 0..RetryAfter
      BY DEF TypeOK
    <3>2. QED
      BY <3>1, Numbers
  <2>2. QED
    BY <2>1 DEF Tick
<1>3. last' \in [Slugs -> [ctx : Contexts, outcome : {"list", "empty", "failed"},
                           since : Ages]]
  <2>1. \A s \in Slugs : Older(last[s].since) \in Ages
    BY OlderType DEF TypeOK
  <2>2. QED
    BY <2>1 DEF TypeOK, Tick
<1>4. QED
  BY <1>1, <1>2, <1>3 DEF TypeOK, Tick, store

LEMMA RestartType ==
  ASSUME TypeOK, NEW next \in 1..MaxVersion, Restart(next) PROVE TypeOK'
<1>1. cooldown' \in [Slugs -> 0..RetryAfter]
  BY Numbers DEF Restart
<1>2. last' \in [Slugs -> [ctx : Contexts, outcome : {"list", "empty", "failed"},
                           since : Ages]]
  <2>1. ASSUME NEW s \in Slugs
        PROVE  Recorded(s) \in [ctx : Contexts, outcome : {"list", "empty", "failed"},
                                since : Ages]
    <3>1. disk[s].ctx \in Contexts /\ disk[s].age \in Ages
      BY DEF TypeOK, Entry
    <3>2. QED
      BY <3>1, Literals DEF Recorded
  <2>2. QED
    BY <2>1 DEF Restart
<1>3. fetch' \in [Slugs -> Fetch]
  BY Literals DEF Restart
<1>4. QED
  BY <1>1, <1>2, <1>3 DEF Restart, TypeOK, store

\* The steps of the registry's own tasks, and of the accounts and clocks around them.
LEMMA TypeNext == TypeOK /\ [Next]_vars => TypeOK'
<1> SUFFICES ASSUME TypeOK, [Next]_vars PROVE TypeOK'
  OBVIOUS
<1>1. CASE UNCHANGED vars
  BY <1>1 DEF vars, store, TypeOK
<1>2. CASE Next
  BY <1>2, LookupType, EnterType, FinishType, FetchType, AttachType, TickType, RestartType
  DEF Next
<1>3. QED
  BY <1>1, <1>2

LEMMA MutexInit == Init => MutexInv
  BY Numbers DEF Init, MutexInv, NoFetch

LEMMA MutexNext == TypeOK /\ MutexInv /\ [Next]_vars => MutexInv'
<1> SUFFICES ASSUME TypeOK, MutexInv, [Next]_vars PROVE MutexInv'
  OBVIOUS
<1> USE Numbers
<1>1. ASSUME NEW r \in Requests, Lookup(r) PROVE MutexInv'
  BY <1>1 DEF TypeOK, MutexInv, Lookup
<1>2. ASSUME NEW r \in Requests, Enter(r) PROVE MutexInv'
  <2>1. /\ lock = Free /\ lock' = (IF Stale = {} THEN Free ELSE r)
        /\ pc' = [pc EXCEPT ![r] = IF Stale = {} THEN "idle" ELSE "fetch"]
        /\ Stale = {} => fetch' = fetch
    BY <1>2 DEF Enter, LockFree, Holder
  <2>2. pc \in [Requests -> {"idle", "wait", "fetch"}] /\ \A x \in Requests : pc[x] # "fetch"
    BY <2>1 DEF TypeOK, MutexInv
  <2>3. CASE Stale = {}
    BY <2>1, <2>2, <2>3 DEF MutexInv
  <2>4. CASE Stale # {}
    BY <2>1, <2>2, <2>4 DEF MutexInv
  <2>5. QED
    BY <2>3, <2>4
<1>3. ASSUME NEW r \in Requests, Finish(r) PROVE MutexInv'
  <2>1. /\ pc[r] = "fetch" /\ lock' = Free /\ pc' = [pc EXCEPT ![r] = "idle"]
        /\ fetch' = [s \in Slugs |-> NoFetch]
    BY <1>3 DEF Finish
  <2>2. QED
    BY <2>1 DEF TypeOK, MutexInv, NoFetch
<1>4. ASSUME NEW s \in Slugs,
             Start(s) \/ Fail(s) \/ \E models \in SUBSET Names : Answer(s, models)
      PROVE  MutexInv'
  <2>1. fetch[s].state # "none" /\ UNCHANGED <<lock, pc>>
    BY <1>4 DEF Start, Fail, Answer
  <2>2. QED
    BY <2>1 DEF MutexInv
<1>5. ASSUME UNCHANGED <<lock, pc, fetch>> PROVE MutexInv'
  BY <1>5 DEF MutexInv
<1>6. ASSUME NEW next \in 1..MaxVersion, Restart(next) PROVE MutexInv'
  BY <1>6 DEF MutexInv, Restart, NoFetch
<1>7. ASSUME NEW s \in Slugs,
             \/ Reattach(s) \/ Detach(s)
             \/ \E other \in 1..MaxAccounts : Return(s, other) \/ Overwrite(s, other)
      PROVE  MutexInv'
  <2>1. CASE UNCHANGED fetch
    BY <1>5, <1>7, <2>1 DEF Reattach, Detach, Return, Overwrite
  <2>2. CASE fetch' = [fetch EXCEPT ![s].back = @ \/ fetch[s].state # "none"]
             /\ UNCHANGED <<lock, pc>>
    <3>1. fetch \in [Slugs -> Fetch] /\ fetch[s] \in Fetch
      BY DEF TypeOK
    <3>2. \A t \in Slugs : fetch'[t].state = fetch[t].state
      BY <2>2, <3>1 DEF Fetch
    <3>3. QED
      BY <2>2, <3>2 DEF MutexInv
  <2>3. QED
    BY <1>7, <2>1, <2>2 DEF Reattach, Detach, Return, Overwrite
<1>8. CASE Tick \/ UNCHANGED vars
  BY <1>5, <1>8 DEF Tick, vars
<1>9. QED
  BY <1>1, <1>2, <1>3, <1>4, <1>6, <1>7, <1>8 DEF Next

----------------------------------------------------------------------------
(* Every step keeps what CacheInv says of one provider.                    *)

SlugInv(s) == OwnerInv(s) /\ RoundInv(s) /\ DiskInv(s)

\* A step that leaves this provider alone.
Quiet(s) ==
  /\ seed'[s] = seed[s] /\ account'[s] = account[s] /\ minted'[s] = minted[s]
  /\ version' = version /\ cache'[s] = cache[s] /\ disk'[s] = disk[s]
  /\ fetch'[s] = fetch[s] /\ unsaved' = unsaved

LEMMA QuietKeeps ==
  ASSUME NEW s \in Slugs, SlugInv(s), Quiet(s) PROVE SlugInv(s)'
  BY DEF Quiet, SlugInv, OwnerInv, RoundInv, DiskInv, Owned, Expired, Lifetime

LEMMA EnterKeeps ==
  ASSUME TypeOK, MutexInv, NEW r \in Requests, Enter(r), NEW s \in Slugs, SlugInv(s)
  PROVE  SlugInv(s)'
<1>1. /\ lock = Free /\ cache'[s] = Pruned[s] /\ UNCHANGED <<store, version>>
      /\ s \in Stale => /\ fetch'[s].state = "queued" /\ fetch'[s].ctx = Context(s)
      /\ s \notin Stale => fetch'[s] \in {fetch[s], NoFetch}
      /\ Saved(s) \/ (disk'[s] = disk[s] /\ unsaved' = unsaved)
  BY EnterIs DEF NoFetch
<1>2. fetch[s].state = "none" /\ (s \notin Stale => fetch'[s].state = "none")
  BY <1>1 DEF MutexInv, NoFetch
<1>3. cache'[s] = NoEntry \/ (cache'[s] = cache[s] /\ Bound(s))
  BY <1>1, PrunedIs
<1>4. NoEntry.ctx = <<0, 0>> /\ Owned(NoEntry)
  BY DEF NoEntry, None, Owned
<1>5. s \in Stale => /\ Context(s) = <<seed[s], version>>
                    /\ Context(s)[1] # 0 /\ Context(s)[1] <= minted[s]
  <2>1. seed[s] <= minted[s] /\ (s \in Stale => seed[s] # 0)
    BY ContextIs, PrunedIs DEF SlugInv, OwnerInv
  <2>2. s \in Stale => Context(s) = <<seed[s], version>>
    BY ContextIs, PrunedIs
  <2>3. <<seed[s], version>>[1] = seed[s]
    OBVIOUS
  <2>4. QED
    BY <2>1, <2>2, <2>3
<1>6. OwnerInv(s)'
  <2>1. Owned(cache'[s]) /\ Owned(disk'[s])
    BY <1>1, <1>3, <1>4 DEF SlugInv, OwnerInv, Saved
  <2>2. Owned(cache[s])' /\ Owned(disk[s])'
    BY <2>1 DEF Owned
  <2>3. fetch'[s].state # "none" =>
          /\ fetch'[s].ctx[1] # 0 /\ fetch'[s].ctx[1] <= minted'[s]
          /\ fetch'[s].ctx[2] = version' /\ fetch'[s].state \notin {"sent", "list"}
    BY <1>1, <1>2, <1>5 DEF store
  <2>4. QED
    BY <1>1, <2>2, <2>3 DEF SlugInv, OwnerInv, store
<1>7. RoundInv(s)'
  BY <1>1, <1>2, <1>3, PrunedIs DEF RoundInv, Bound, Expired
<1>8. DiskInv(s)'
  BY <1>1, <1>3, <1>4 DEF SlugInv, DiskInv, Saved, None
<1>9. QED
  BY <1>6, <1>7, <1>8 DEF SlugInv

LEMMA FinishKeeps ==
  ASSUME TypeOK, NEW r \in Requests, Finish(r), NEW s \in Slugs, SlugInv(s)
  PROVE  SlugInv(s)'
<1>1. NoFetch.state = "none" /\ Owned(NoEntry)
  BY DEF NoFetch, NoEntry, Owned
<1>2. /\ fetch'[s].state = "none" /\ UNCHANGED <<store, version>>
      /\ Saved(s) \/ (cache'[s] = cache[s] /\ disk'[s] = disk[s] /\ unsaved' = unsaved)
  BY <1>1, FinishIs
<1>3. Owned(cache'[s])
  <2>1. CASE fetch[s].state \in {"none", "failed"} \/ ~Valid(s)
    BY <1>1, <2>1, FinishIs DEF SlugInv, OwnerInv
  <2>2. CASE fetch[s].state = "list" /\ Valid(s)
    <3>1. cache'[s] = Stored(s) /\ (Owned(Stored(s)) <=> Owned(fetch[s]))
      BY <2>2, FinishIs, StoredIs
    <3>2. fetch[s].ctx[1] # 0 /\ fetch[s].ctx = Context(s)
      BY <2>2 DEF SlugInv, OwnerInv, Valid
    <3>3. None[1] = 0 /\ <<seed[s], version>>[1] = seed[s]
      BY DEF None
    <3>4. seed[s] = fetch[s].ctx[1]
      BY <3>2, <3>3 DEF Context
    <3>5. QED
      BY <2>2, <3>1, <3>4 DEF SlugInv, OwnerInv
  <2>3. QED
    BY <2>1, <2>2, FinishIs
<1>4. Owned(disk'[s])
  BY <1>2, <1>3 DEF SlugInv, OwnerInv, Saved
<1>5. Owned(cache[s])' /\ Owned(disk[s])'
  BY <1>3, <1>4 DEF Owned
<1>6. QED
  BY <1>2, <1>5 DEF SlugInv, OwnerInv, RoundInv, DiskInv, Saved, store

\* The task of a fetch: the token it takes is the attached account's, when the
\* vault holds one of that account's.
LEMMA FetchKeeps ==
  ASSUME TypeOK, NEW t \in Slugs,
         Start(t) \/ Fail(t) \/ \E models \in SUBSET Names : Answer(t, models),
         NEW s \in Slugs, SlugInv(s)
  PROVE  SlugInv(s)'
<1>1. UNCHANGED <<store, version, cache, disk, unsaved>>
  BY DEF Start, Fail, Answer
<1>2. /\ fetch[s].state = "none" => fetch'[s] = fetch[s]
      /\ fetch'[s].ctx = fetch[s].ctx
      /\ fetch'[s].state \in {"sent", "list"} =>
           \/ /\ fetch[s].state \in {"sent", "list"}
              /\ Owned(fetch'[s]) <=> Owned(fetch[s])
           \/ /\ fetch[s].state = "queued" /\ fetch'[s].owner = <<account[s], version>>
              /\ ~fetch'[s].back => account[s] = seed[s]
  <2>1. fetch \in [Slugs -> Fetch] /\ fetch[s] \in Fetch /\ fetch[t] \in Fetch
    BY DEF TypeOK
  <2>2. CASE s # t
    <3>1. fetch'[s] = fetch[s]
      BY <2>1, <2>2 DEF Start, Fail, Answer
    <3>2. QED
      BY <2>1, <3>1 DEF Fetch
  <2>3. CASE s = t /\ Start(t)
    <3>1. CASE account[s] = 0
      BY <2>1, <2>3, <3>1 DEF Start, Fetch
    <3>2. CASE account[s] # 0
      <4>1. fetch'[s] = Asked(s) /\ fetch[s].state = "queued"
        BY <2>1, <2>3, <3>2, StartIs
      <4>2. QED
        BY <4>1, AskedIs
    <3>3. QED
      BY <3>1, <3>2
  <2>4. CASE s = t /\ Fail(t)
    BY <2>1, <2>4 DEF Fail, Fetch
  <2>5. ASSUME s = t, NEW models \in SUBSET Names, Answer(t, models)
        PROVE  /\ fetch[s].state = "sent" /\ fetch'[s].ctx = fetch[s].ctx
               /\ Owned(fetch'[s]) <=> Owned(fetch[s])
    <3>1. /\ fetch'[s].ctx = fetch[s].ctx /\ fetch'[s].owner = fetch[s].owner
          /\ fetch'[s].back = fetch[s].back
      BY <2>1, <2>5 DEF Answer, Fetch
    <3>2. QED
      BY <2>5, <3>1 DEF Answer, Owned
  <2>6. QED
    BY <2>2, <2>3, <2>4, <2>5
<1>3. fetch'[s].state \in {"sent", "list"} /\ seed[s] = fetch'[s].ctx[1] => Owned(fetch'[s])
  <2>1. CASE fetch[s].state \in {"sent", "list"} /\ (Owned(fetch'[s]) <=> Owned(fetch[s]))
    BY <1>2, <2>1 DEF SlugInv, OwnerInv
  <2>2. CASE /\ fetch[s].state = "queued" /\ fetch'[s].owner = <<account[s], version>>
             /\ ~fetch'[s].back => account[s] = seed[s]
    <3>1. fetch[s].ctx = <<fetch[s].ctx[1], version>>
      BY <2>2, SlugTypes, PairIs DEF SlugInv, OwnerInv
    <3>2. QED
      BY <1>2, <2>2, <3>1 DEF Owned
  <2>3. QED
    BY <1>2, <2>1, <2>2
<1>4. (fetch[s].state \in {"sent", "list"} /\ seed[s] = fetch[s].ctx[1] => Owned(fetch[s]))'
  BY <1>1, <1>3 DEF Owned, store
<1>5. QED
  BY <1>1, <1>2, <1>4
  DEF SlugInv, OwnerInv, RoundInv, DiskInv, Owned, store, Expired, Lifetime

\* Another account, with a number of its own, or none.
LEMMA AttachKeeps ==
  ASSUME TypeOK, NEW t \in Slugs, Reattach(t) \/ Detach(t), NEW s \in Slugs, SlugInv(s)
  PROVE  SlugInv(s)'
<1>1. UNCHANGED <<version, cache, disk, fetch, unsaved>>
  BY DEF Reattach, Detach
<1>2. \/ UNCHANGED <<seed[s], account[s], minted[s]>>
      \/ /\ seed'[s] = minted[s] + 1 /\ account'[s] = minted[s] + 1
         /\ minted'[s] = minted[s] + 1
      \/ seed'[s] = 0 /\ account'[s] = 0 /\ minted'[s] = minted[s]
  BY DEF TypeOK, Reattach, Detach
<1>3. RoundInv(s)' /\ DiskInv(s)'
  BY <1>1 DEF SlugInv, RoundInv, DiskInv, Expired, Lifetime
<1>4. fetch[s].ctx[1] \in Nat /\ seed[s] \in Nat /\ minted[s] \in Nat
  BY SlugTypes, PairIs
<1>5. OwnerInv(s)'
  <2>1. Owned(cache[s])' /\ Owned(disk[s])' /\ (Owned(fetch[s])' <=> Owned(fetch[s]))
    BY <1>1 DEF SlugInv, OwnerInv, Owned
  <2>2. fetch[s].state # "none" /\ seed'[s] = fetch[s].ctx[1] => seed'[s] = seed[s]
    BY <1>2, <1>4 DEF SlugInv, OwnerInv
  <2>3. seed'[s] <= minted'[s] /\ account'[s] <= minted'[s] /\ minted[s] <= minted'[s]
        /\ (account'[s] # 0 => seed'[s] # 0)
    BY <1>2, <1>4 DEF SlugInv, OwnerInv
  <2>4. fetch[s].state # "none" => fetch[s].ctx[1] <= minted'[s]
    BY <1>2, <1>4 DEF SlugInv, OwnerInv
  <2>5. fetch'[s].state \in {"sent", "list"} /\ seed'[s] = fetch'[s].ctx[1] =>
          Owned(fetch[s])'
    BY <1>1, <2>1, <2>2 DEF SlugInv, OwnerInv
  <2>6. QED
    BY <1>1, <2>1, <2>3, <2>4, <2>5 DEF SlugInv, OwnerInv
<1>6. QED
  BY <1>3, <1>5 DEF SlugInv

\* An earlier account comes back: a fetch of this provider that is under way is
\* marked.
LEMMA ReturnKeeps ==
  ASSUME TypeOK, NEW t \in Slugs, NEW earlier \in 1..MaxAccounts, Return(t, earlier),
         NEW s \in Slugs, SlugInv(s)
  PROVE  SlugInv(s)'
<1>1. UNCHANGED <<minted, version, cache, disk, unsaved>>
  BY DEF Return
<1>2. CASE s # t
  BY <1>1, <1>2, QuietKeeps DEF TypeOK, Return, Quiet
<1>3. CASE s = t
  <2>1. seed'[s] = earlier /\ account'[s] = earlier /\ earlier <= minted[s] /\ earlier # 0
    BY <1>3, SlugTypes DEF TypeOK, Return
  <2>2. /\ fetch'[s].state = fetch[s].state /\ fetch'[s].ctx = fetch[s].ctx
        /\ fetch[s].state # "none" => fetch'[s].back
    <3>1. fetch \in [Slugs -> Fetch] /\ fetch[s] \in Fetch
      BY DEF TypeOK
    <3>2. fetch'[s] = [fetch[s] EXCEPT !.back = @ \/ fetch[s].state # "none"]
      BY <1>3, <3>1 DEF Return
    <3>3. fetch'[s].back = (fetch[s].back \/ fetch[s].state # "none")
      BY <3>1, <3>2 DEF Fetch
    <3>4. fetch'[s].state = fetch[s].state /\ fetch'[s].ctx = fetch[s].ctx
      BY <3>1, <3>2 DEF Fetch
    <3>5. QED
      BY <3>3, <3>4
  <2>3. fetch'[s].state # "none" => Owned(fetch[s])'
    BY <2>2 DEF Owned
  <2>4. Owned(cache[s])' /\ Owned(disk[s])'
    BY <1>1 DEF SlugInv, OwnerInv, Owned
  <2>5. OwnerInv(s)'
    BY <1>1, <2>1, <2>2, <2>3, <2>4 DEF SlugInv, OwnerInv
  <2>6. RoundInv(s)' /\ DiskInv(s)'
    BY <1>1, <2>2 DEF SlugInv, RoundInv, DiskInv, Expired, Lifetime
  <2>7. QED
    BY <2>5, <2>6 DEF SlugInv
<1>4. QED
  BY <1>2, <1>3

\* A refresh writes its token over the vault's: the seed, and so every context, stays.
LEMMA OverwriteKeeps ==
  ASSUME TypeOK, NEW t \in Slugs, NEW other \in 1..MaxAccounts, Overwrite(t, other),
         NEW s \in Slugs, SlugInv(s)
  PROVE  SlugInv(s)'
<1>1. UNCHANGED <<seed, minted, version, cache, disk, fetch, unsaved>>
  BY DEF Overwrite
<1>2. account'[s] <= minted[s] /\ (account'[s] # 0 => account[s] # 0)
  BY SlugTypes DEF TypeOK, Overwrite, SlugInv, OwnerInv
<1>3. QED
  BY <1>1, <1>2 DEF SlugInv, OwnerInv, RoundInv, DiskInv, Owned, Expired, Lifetime

\* An entry that has run out stays so.
LEMMA ExpiredKept ==
  ASSUME NEW entries \in [Slugs -> Entry], NEW s \in Slugs
  PROVE  entries[s] # NoEntry /\ Expired(entries[s]) => Expired(Aged(entries)[s])
<1>1. entries[s].age \in 0..Old /\ entries[s].models \in SUBSET Names
  BY DEF Entry, Ages
<1>2. Lifetime(entries[s].models) \in Nat /\ Lifetime(entries[s].models) <= Old
  BY Numbers DEF Lifetime
<1>3. QED
  BY <1>1, <1>2, AgedIs, Numbers DEF Expired, Older

LEMMA TickKeeps ==
  ASSUME TypeOK, Tick, NEW s \in Slugs, SlugInv(s)
  PROVE  SlugInv(s)'
<1>1. /\ cache' = Aged(cache) /\ disk' = Aged(disk)
      /\ UNCHANGED <<store, version, fetch, unsaved>>
  BY DEF Tick
<1>2. cache \in [Slugs -> Entry] /\ disk \in [Slugs -> Entry]
  BY DEF TypeOK
<1>3. /\ cache'[s].ctx = cache[s].ctx /\ (Owned(cache'[s]) <=> Owned(cache[s]))
      /\ disk'[s].ctx = disk[s].ctx /\ (Owned(disk'[s]) <=> Owned(disk[s]))
      /\ cache[s] = NoEntry => cache'[s] = NoEntry
  BY <1>1, <1>2, AgedIs DEF Owned
<1>4. OwnerInv(s)'
  <2>1. Owned(cache[s])' /\ Owned(disk[s])'
    BY <1>3 DEF SlugInv, OwnerInv, Owned
  <2>2. QED
    BY <1>1, <2>1 DEF SlugInv, OwnerInv, Owned, store
<1>5. RoundInv(s)'
  <2>1. cache[s] # NoEntry /\ Expired(cache[s]) => Expired(cache'[s])
    BY <1>1, <1>2, ExpiredKept
  <2>2. Expired(cache'[s]) <=> Expired(cache[s])'
    BY DEF Expired, Lifetime
  <2>3. QED
    BY <1>1, <1>3, <2>1, <2>2 DEF SlugInv, RoundInv
<1>6. DiskInv(s)'
  <2>1. disk[s] = cache[s] => disk'[s] = cache'[s]
    BY <1>1 DEF Aged
  <2>2. QED
    BY <1>1, <1>3, <2>1 DEF SlugInv, DiskInv
<1>7. QED
  BY <1>4, <1>5, <1>6 DEF SlugInv

LEMMA RestartKeeps ==
  ASSUME TypeOK, NEW next \in 1..MaxVersion, Restart(next), NEW s \in Slugs, SlugInv(s)
  PROVE  SlugInv(s)'
<1>1. /\ cache'[s] = disk[s] /\ disk'[s] = disk[s] /\ fetch'[s] = NoFetch
      /\ UNCHANGED store
  BY DEF Restart
<1>2. NoFetch.state = "none"
  BY DEF NoFetch
<1>3. QED
  BY <1>1, <1>2 DEF SlugInv, OwnerInv, RoundInv, DiskInv, Owned, store

LEMMA SlugInit == ASSUME Init, NEW s \in Slugs PROVE SlugInv(s)
<1>1. /\ seed[s] \in {0, 1} /\ minted[s] = seed[s] /\ account[s] = seed[s]
      /\ disk[s] = cache[s] /\ cache[s] \in {NoEntry, Unbound} /\ fetch[s] = NoFetch
  BY DEF Init
<1>2. NoFetch.state = "none" /\ Owned(cache[s]) /\ Owned(disk[s])
  BY <1>1 DEF NoFetch, NoEntry, Unbound, None, Owned
<1>3. QED
  BY <1>1, <1>2 DEF SlugInv, OwnerInv, RoundInv, DiskInv

LEMMA SlugNext ==
  ASSUME CacheInv, [Next]_vars, NEW s \in Slugs PROVE SlugInv(s)'
<1>1. TypeOK /\ MutexInv /\ SlugInv(s)
  BY DEF CacheInv, SlugInv
<1>2. ASSUME Quiet(s) PROVE SlugInv(s)'
  BY <1>1, <1>2, QuietKeeps
<1>3. ASSUME NEW r \in Requests, Lookup(r) PROVE SlugInv(s)'
  BY <1>2, <1>3 DEF Lookup, Quiet, store
<1>4. CASE UNCHANGED vars
  BY <1>2, <1>4 DEF vars, Quiet, store
<1>5. QED
  BY <1>1, <1>3, <1>4, EnterKeeps, FinishKeeps, FetchKeeps, AttachKeeps, ReturnKeeps,
     OverwriteKeeps, TickKeeps, RestartKeeps
  DEF Next

----------------------------------------------------------------------------
(* Every step keeps the story of the last fetch.                           *)

\* A step that leaves the story of this provider alone; who is attached is no part
\* of it.
LEMMA QuietDue ==
  ASSUME NEW s \in Slugs, DueInv(s), UNCHANGED <<cache, cooldown, last>>,
         fetch'[s].state # "none" =>
           fetch[s].state # "none" /\ fetch'[s].ctx = fetch[s].ctx
  PROVE  DueInv(s)'
  BY DEF DueInv, LastMade, Expired, Lifetime

LEMMA EnterDue ==
  ASSUME TypeOK, MutexInv, NEW r \in Requests, Enter(r), NEW s \in Slugs, DueInv(s)
  PROVE  DueInv(s)'
<1>1. /\ lock = Free /\ cache'[s] = Pruned[s] /\ cooldown'[s] = Cooled[s]
      /\ last'[s] = Seen(s)
      /\ s \in Stale => fetch'[s].ctx = Context(s)
      /\ s \notin Stale => fetch'[s] \in {fetch[s], NoFetch}
  BY EnterIs DEF NoFetch
<1>2. s \notin Stale => fetch'[s].state = "none"
  BY <1>1 DEF MutexInv, NoFetch
<1>3. /\ Bound(s) => cache'[s] = cache[s]
      /\ ~Bound(s) => cache'[s] = NoEntry
      /\ cooldown'[s] \in {0, cooldown[s]}
      /\ Context(s) # None /\ (cache[s] = NoEntry \/ Bound(s)) =>
              cooldown'[s] = cooldown[s]
  BY <1>1, PrunedIs
<1>4. NoEntry.ctx = None
  BY DEF NoEntry
<1>5. /\ last'[s].outcome = last[s].outcome /\ last'[s].since = last[s].since
      /\ last'[s].ctx \in {Context(s), None}
      /\ last'[s].ctx # None => last'[s] = last[s] /\ last[s].ctx = Context(s)
      /\ last[s].ctx = Context(s) => last'[s] = last[s]
  BY <1>1, SeenIs
<1>6. LastMade(s) /\ last[s].ctx = Context(s) /\ Context(s) # None => LastMade(s)'
  BY <1>3, <1>5 DEF LastMade, Bound
<1>7. cache'[s].ctx # None /\ ~Expired(cache[s])' => LastMade(s)'
  <2>1. cache'[s].ctx # None => Bound(s) /\ cache'[s] = cache[s]
    BY <1>3, <1>4
  <2>2. LastMade(s) /\ Bound(s) => last[s].ctx = Context(s) /\ Context(s) # None
    BY DEF LastMade, Bound
  <2>3. QED
    BY <1>6, <2>1, <2>2 DEF DueInv, Expired, Lifetime
<1>8. last'[s].ctx # None /\ last'[s].outcome # "failed" => LastMade(s)'
  BY <1>5, <1>6 DEF DueInv
<1>9. last'[s].ctx # None /\ last'[s].outcome = "failed" =>
        /\ cache'[s] = NoEntry \/ cache'[s].ctx = last'[s].ctx
        /\ cooldown'[s] + last'[s].since >= RetryAfter
  <2>1. SUFFICES ASSUME last'[s].ctx # None, last'[s].outcome = "failed"
                 PROVE  /\ cache'[s] = NoEntry \/ cache'[s].ctx = last'[s].ctx
                        /\ cooldown'[s] + last'[s].since >= RetryAfter
    OBVIOUS
  <2>2. last'[s] = last[s] /\ last[s].ctx = Context(s) /\ Context(s) # None
    BY <1>5, <2>1
  <2>3. cache[s] = NoEntry \/ Bound(s)
    BY <2>1, <2>2 DEF DueInv, Bound
  <2>4. cache'[s] = NoEntry \/ cache'[s].ctx = last'[s].ctx
    BY <1>3, <2>2 DEF Bound
  <2>5. QED
    BY <1>3, <2>1, <2>2, <2>3, <2>4 DEF DueInv
<1>10. cooldown'[s] # 0 =>
         last'[s].outcome = "failed" /\ cooldown'[s] + last'[s].since = RetryAfter
  BY <1>3, <1>5 DEF DueInv
<1>11. fetch'[s].state # "none" => last'[s].ctx \in {None, fetch'[s].ctx}
  BY <1>1, <1>2, <1>5
<1>12. QED
  BY <1>7, <1>8, <1>9, <1>10, <1>11 DEF DueInv

LEMMA FinishDue ==
  ASSUME TypeOK, NEW r \in Requests, Finish(r), NEW s \in Slugs, SlugInv(s), DueInv(s)
  PROVE  DueInv(s)'
<1>1. fetch'[s].state = "none" /\ fetch[s].state \in {"none", "list", "failed"}
  BY FinishIs DEF NoFetch
<1>2. NoEntry.ctx = None
  BY DEF NoEntry
<1>3. CASE fetch[s].state = "none"
  <2>1. cache'[s] = cache[s] /\ cooldown'[s] = cooldown[s] /\ last'[s] = last[s]
    BY <1>3, FinishIs DEF NewCooldown
  <2>2. QED
    BY <1>1, <2>1 DEF DueInv, LastMade, Expired, Lifetime
<1>4. CASE fetch[s].state # "none" /\ ~Valid(s)
  <2>1. cache'[s] = NoEntry /\ cooldown'[s] = 0 /\ last'[s] = Seen(s)
    BY <1>1, <1>4, FinishIs DEF NewCooldown
  <2>2. last'[s].ctx = None
    BY <1>4, <2>1, SeenIs DEF DueInv, Valid
  <2>3. QED
    BY <1>1, <1>2, <2>1, <2>2 DEF DueInv
<1>5. CASE fetch[s].state = "list" /\ Valid(s)
  <2>1. cache'[s] = Stored(s) /\ last'[s] = Outcome(s) /\ cooldown'[s] = 0
    BY <1>5, FinishIs DEF NewCooldown
  <2>2. LastMade(s)' /\ last'[s].outcome # "failed"
    BY <1>5, <2>1, StoredIs DEF LastMade, Outcome
  <2>3. QED
    BY <1>1, <2>1, <2>2 DEF DueInv
<1>6. CASE fetch[s].state = "failed" /\ Valid(s)
  <2>1. cache'[s] = cache[s] /\ last'[s] = Outcome(s) /\ cooldown'[s] = RetryAfter
    BY <1>6, FinishIs DEF NewCooldown
  <2>2. last'[s].outcome = "failed" /\ last'[s].ctx = fetch[s].ctx /\ last'[s].since = 0
    BY <1>6, <2>1 DEF Outcome
  <2>3. cache[s] = NoEntry \/ (cache[s].ctx = fetch[s].ctx /\ Expired(cache[s]))
    BY <1>6 DEF SlugInv, RoundInv
  <2>4. cache'[s].ctx # None => Expired(cache[s])'
    BY <1>2, <2>1, <2>3 DEF Expired, Lifetime
  <2>5. QED
    BY <1>1, <2>1, <2>2, <2>3, <2>4, Numbers DEF DueInv
<1>7. QED
  BY <1>1, <1>3, <1>4, <1>5, <1>6

LEMMA FetchDue ==
  ASSUME TypeOK, NEW t \in Slugs,
         Start(t) \/ Fail(t) \/ \E models \in SUBSET Names : Answer(t, models),
         NEW s \in Slugs, DueInv(s)
  PROVE  DueInv(s)'
<1>1. UNCHANGED <<cache, cooldown, last>> /\ fetch[t].state # "none"
  BY DEF Start, Fail, Answer
<1>2. fetch \in [Slugs -> Fetch] /\ fetch[s] \in Fetch /\ fetch[t] \in Fetch
  BY DEF TypeOK
<1>3. CASE s # t
  <2>1. fetch'[s] = fetch[s]
    BY <1>2, <1>3 DEF Start, Fail, Answer
  <2>2. QED
    BY <1>1, <2>1, QuietDue
<1>4. CASE s = t
  <2>1. CASE Start(t)
    BY <1>2, <1>4, <2>1, StartIs, AskedIs, QuietDue, <1>1 DEF Fetch
  <2>2. CASE ~Start(t)
    <3>1. fetch'[s].ctx = fetch[s].ctx
      BY <1>2, <1>4, <2>2 DEF Fail, Answer, Fetch
    <3>2. QED
      BY <1>1, <1>4, <3>1, QuietDue
  <2>3. QED
    BY <2>1, <2>2
<1>5. QED
  BY <1>3, <1>4

\* Whatever happens to the accounts, between two lookups nobody looks.
LEMMA AttachDue ==
  ASSUME TypeOK, NEW t \in Slugs,
         \/ Reattach(t) \/ Detach(t)
         \/ \E other \in 1..MaxAccounts : Return(t, other) \/ Overwrite(t, other),
         NEW s \in Slugs, DueInv(s)
  PROVE  DueInv(s)'
<1>1. UNCHANGED <<cache, cooldown, last>>
  BY DEF Reattach, Detach, Return, Overwrite
<1>2. fetch \in [Slugs -> Fetch] /\ fetch[s] \in Fetch /\ fetch[t] \in Fetch
  BY DEF TypeOK
<1>3. fetch'[s].state = fetch[s].state /\ fetch'[s].ctx = fetch[s].ctx
  <2>1. CASE fetch' = fetch
    BY <2>1
  <2>2. CASE fetch' = [fetch EXCEPT ![t].back = @ \/ fetch[t].state # "none"]
    BY <1>2, <2>2 DEF Fetch
  <2>3. QED
    BY <2>1, <2>2 DEF Reattach, Detach, Return, Overwrite
<1>4. QED
  BY <1>1, <1>3, QuietDue

LEMMA TickDue ==
  ASSUME TypeOK, Tick, NEW s \in Slugs, DueInv(s)
  PROVE  DueInv(s)'
<1>1. /\ cache' = Aged(cache) /\ UNCHANGED fetch
      /\ cooldown'[s] = (IF cooldown[s] = 0 THEN 0 ELSE cooldown[s] - 1)
  BY DEF Tick
<1>2. cache \in [Slugs -> Entry]
  BY DEF TypeOK
<1>3. /\ cache'[s].ctx = cache[s].ctx /\ cache'[s].models = cache[s].models
      /\ cache[s] # NoEntry => cache'[s].age = Older(cache[s].age)
      /\ cache[s] = NoEntry => cache'[s] = NoEntry
  BY <1>1, <1>2, AgedIs
<1>4. last'[s] = [last[s] EXCEPT !.since = Older(@)]
  BY DEF Tick
<1>5. /\ last'[s].ctx = last[s].ctx /\ last'[s].outcome = last[s].outcome
      /\ last'[s].since = Older(last[s].since)
  BY <1>4, SlugTypes
<1>6. NoEntry.ctx = None
  BY DEF NoEntry
<1>7. LastMade(s) /\ cache[s] # NoEntry => LastMade(s)'
  BY <1>3, <1>4 DEF LastMade
<1>8. cache'[s].ctx # None /\ ~Expired(cache[s])' => LastMade(s)'
  <2>1. cache[s] # NoEntry /\ Expired(cache[s]) => Expired(cache'[s])
    BY <1>1, <1>2, ExpiredKept
  <2>2. Expired(cache'[s]) <=> Expired(cache[s])'
    BY DEF Expired, Lifetime
  <2>3. QED
    BY <1>3, <1>6, <1>7, <2>1, <2>2 DEF DueInv
<1>9. last'[s].ctx # None /\ last'[s].outcome # "failed" => LastMade(s)'
  <2>1. last[s].ctx # None /\ LastMade(s) => cache[s] # NoEntry
    BY <1>6 DEF LastMade
  <2>2. QED
    BY <1>5, <1>7, <2>1 DEF DueInv
<1>10. /\ cooldown[s] \in Nat /\ last[s].since \in 0..Old
       /\ last'[s].since = IF last[s].since < Old THEN last[s].since + 1 ELSE Old
  BY <1>5, SlugTypes DEF Older, Ages
<1>11. last'[s].ctx # None /\ last'[s].outcome = "failed" =>
         /\ cache'[s] = NoEntry \/ cache'[s].ctx = last'[s].ctx
         /\ cooldown'[s] + last'[s].since >= RetryAfter
  BY <1>1, <1>3, <1>5, <1>10, Numbers DEF DueInv
<1>12. cooldown'[s] # 0 =>
         last'[s].outcome = "failed" /\ cooldown'[s] + last'[s].since = RetryAfter
  BY <1>1, <1>5, <1>10, Numbers DEF DueInv
<1>13. fetch'[s].state # "none" => last'[s].ctx \in {None, fetch'[s].ctx}
  BY <1>1, <1>5 DEF DueInv
<1>14. QED
  BY <1>8, <1>9, <1>11, <1>12, <1>13 DEF DueInv

\* After a restart the cache is the file, and so is what is known of the last fetch.
LEMMA RestartDue ==
  ASSUME TypeOK, NEW next \in 1..MaxVersion, Restart(next), NEW s \in Slugs
  PROVE  DueInv(s)'
<1>1. /\ cache'[s] = disk[s] /\ fetch'[s] = NoFetch /\ cooldown'[s] = 0
      /\ last'[s] = Recorded(s)
  BY DEF Restart
<1>2. Never.ctx = None /\ NoFetch.state = "none"
  BY DEF Never, NoFetch
<1>3. disk[s].ctx = None => last'[s].ctx = None
  BY <1>1, <1>2 DEF Recorded
<1>4. disk[s].ctx # None => LastMade(s)' /\ last'[s].outcome # "failed"
  BY <1>1 DEF Recorded, LastMade
<1>5. QED
  BY <1>1, <1>2, <1>3, <1>4 DEF DueInv

LEMMA DueInit == ASSUME Init, NEW s \in Slugs PROVE DueInv(s)
<1>1. /\ cache[s] \in {NoEntry, Unbound} /\ fetch[s] = NoFetch
      /\ last[s] = Never /\ cooldown[s] = 0
  BY DEF Init
<1>2. NoFetch.state = "none" /\ cache[s].ctx = None /\ Never.ctx = None
  BY <1>1 DEF NoFetch, NoEntry, Unbound, Never
<1>3. QED
  BY <1>1, <1>2 DEF DueInv

LEMMA DueNext ==
  ASSUME RegistryInv, [Next]_vars, NEW s \in Slugs PROVE DueInv(s)'
<1>1. TypeOK /\ MutexInv /\ SlugInv(s) /\ DueInv(s)
  BY DEF RegistryInv, CacheInv, SlugInv
<1>2. ASSUME NEW r \in Requests, Lookup(r) PROVE DueInv(s)'
  BY <1>1, <1>2, QuietDue DEF Lookup
<1>3. CASE UNCHANGED vars
  BY <1>1, <1>3, QuietDue DEF vars
<1>4. QED
  BY <1>1, <1>2, <1>3, EnterDue, FinishDue, FetchDue, AttachDue, TickDue, RestartDue
  DEF Next

----------------------------------------------------------------------------
(* The invariants of the specification.                                    *)

LEMMA RegistryInit == Init => RegistryInv
  BY TypeInit, MutexInit, SlugInit, DueInit DEF RegistryInv, CacheInv, SlugInv

LEMMA RegistryNext == RegistryInv /\ [Next]_vars => RegistryInv'
<1> SUFFICES ASSUME RegistryInv, [Next]_vars PROVE RegistryInv'
  OBVIOUS
<1>1. TypeOK' /\ MutexInv'
  BY TypeNext, MutexNext DEF RegistryInv, CacheInv
<1>2. CacheInv
  BY DEF RegistryInv
<1>3. \A s \in Slugs : SlugInv(s)'
  BY <1>2, SlugNext
<1>4. \A s \in Slugs : DueInv(s)'
  BY DueNext
<1>5. QED
  BY <1>1, <1>3, <1>4 DEF RegistryInv, CacheInv, SlugInv

LEMMA RegistryInvariance == Spec => []RegistryInv
  BY RegistryInit, RegistryNext, PTL DEF Spec

----------------------------------------------------------------------------
(* The theorems.                                                           *)

\* Whatever is attached, fetched, saved, restarted or crossed, the registry's state
\* stays within its types.
THEOREM RegistryTypes == Spec => []TypeOK
<1>1. RegistryInv => TypeOK
  BY DEF RegistryInv, CacheInv
<1>2. QED
  BY <1>1, RegistryInvariance, PTL

\* An answer's providers are of the accounts attached now, and of this release.
LEMMA AnswerIsOwned ==
  ASSUME TypeOK, NEW r \in Requests, Answers(r), CacheInv',
         NEW s \in Slugs, s \in Listed', ~cache'[s].back
  PROVE  cache'[s].owner = <<seed[s], version>>
<1>1. UNCHANGED <<store, version>>
  BY DEF Answers, Enter, Finish
<1>2. cache'[s].ctx = Context(s) /\ Context(s) # None
  BY <1>1 DEF Listed, Bound, Context, store
<1>3. Context(s) = <<seed[s], version>>
  BY <1>2, ContextIs
<1>4. Owned(cache[s])'
  BY DEF CacheInv, OwnerInv
<1>5. QED
  BY <1>2, <1>3, <1>4 DEF Owned

\* No provider is listed, and no bare name routed, by another account's models or an
\* earlier release's query, however accounts are attached, crossed, lost and brought
\* back, saves fail and processes restart, unless an earlier account came back while
\* the list was fetched (or the token was not of the seed's account to begin with).
THEOREM ServesOnlyItsAccount == Spec => ServesAttachedAccount
<1> DEFINE Used == Listed \cup UNION {Routed(name) : name \in Names}
<1>1. RegistryInv /\ RegistryInv' /\ [Next]_vars =>
        [\A r \in Requests : Answers(r) =>
           \A s \in Used' :
             ~cache'[s].back => cache'[s].owner = <<seed[s], version>>]_vars
  <2> SUFFICES ASSUME RegistryInv, RegistryInv', NEW r \in Requests, Answers(r),
                      NEW s \in Used', ~cache'[s].back
               PROVE  cache'[s].owner = <<seed[s], version>>
    OBVIOUS
  <2>1. s \in Listed'
    BY DEF Routed
  <2>2. s \in Slugs
    BY <2>1 DEF Listed
  <2>3. QED
    BY <2>1, <2>2, AnswerIsOwned DEF RegistryInv, CacheInv
<1>2. QED
  BY <1>1, RegistryInvariance, PTL DEF Spec, ServesAttachedAccount

\* A step that neither restarts nor stores or prunes leaves an entry bound; the
\* others keep the entry of the context that stays.
LEMMA StepKeepsBound ==
  ASSUME CacheInv, Next, NEW s \in Slugs, Bound(s), Context(s)' = Context(s),
         ~(unsaved /\ ~unsaved')
  PROVE  Bound(s)'
<1>1. TypeOK /\ RoundInv(s) /\ DiskInv(s) /\ Context(s) # None
      /\ cache[s].ctx = Context(s) /\ NoEntry.ctx = None
  BY DEF CacheInv, Bound, NoEntry
<1>2. ASSUME NEW r \in Requests, Enter(r) PROVE Bound(s)'
  BY <1>1, <1>2, EnterIs, PrunedIs DEF Bound
<1>3. ASSUME NEW r \in Requests, Finish(r) PROVE Bound(s)'
  <2>1. fetch[s].state # "none" => Valid(s)
    BY <1>1 DEF RoundInv, Valid
  <2>2. cache'[s].ctx = cache[s].ctx
    <3>1. CASE fetch[s].state \in {"none", "failed"}
      BY <1>1, <1>3, <2>1, <3>1, FinishIs
    <3>2. CASE fetch[s].state = "list"
      <4>1. cache'[s].ctx = fetch[s].ctx
        BY <1>1, <1>3, <2>1, <3>2, FinishIs, StoredIs
      <4>2. QED
        BY <1>1, <2>1, <3>2, <4>1 DEF Valid
    <3>3. QED
      BY <1>1, <1>3, <3>1, <3>2, FinishIs
  <2>3. QED
    BY <1>1, <2>2 DEF Bound
<1>4. CASE Tick
  <2>1. cache \in [Slugs -> Entry] /\ cache' = Aged(cache)
    BY <1>1, <1>4 DEF TypeOK, Tick
  <2>2. cache'[s].ctx = cache[s].ctx
    BY <2>1, AgedIs
  <2>3. QED
    BY <1>1, <2>2 DEF Bound
<1>5. ASSUME NEW next \in 1..MaxVersion, Restart(next) PROVE Bound(s)'
  <2>1. cache'[s] = disk[s] /\ ~unsaved'
    BY <1>5 DEF Restart
  <2>2. disk[s] = cache[s]
    BY <1>1, <2>1 DEF DiskInv
  <2>3. QED
    BY <1>1, <2>1, <2>2 DEF Bound
<1>6. CASE UNCHANGED cache
  BY <1>1, <1>6 DEF Bound
<1>7. QED
  BY <1>2, <1>3, <1>4, <1>5, <1>6
  DEF Next, Lookup, Start, Fail, Reattach, Detach, Return, Answer, Overwrite

\* What stays attached keeps its last good list, through failed fetches, rounds for
\* other providers, re-attachments of others, and restarts after a good save.
THEOREM LastGoodIsKept == Spec => KeepsLastGood
<1>1. RegistryInv /\ [Next]_vars =>
        [\A s \in Slugs :
           Bound(s) /\ Context(s)' = Context(s) /\ ~(unsaved /\ ~unsaved')
             => Bound(s)']_vars
  BY StepKeepsBound DEF RegistryInv
<1>2. QED
  BY <1>1, RegistryInvariance, PTL DEF Spec, KeepsLastGood

\* What a lookup that enters the round finds out of the last fetch of s.
LEMMA DueIsKnown ==
  ASSUME RegistryInv, NEW r \in Requests, Enter(r), NEW s \in Slugs, Context(s) # None
  PROVE  /\ s \in Stale /\ last[s].ctx = Context(s) => ~StillCounts(s)
         /\ s \notin Stale =>
              /\ StillCounts(s)
              /\ last[s].outcome # "failed" => last[s].ctx = Context(s)
<1>1. TypeOK /\ DueInv(s)
  BY DEF RegistryInv, CacheInv
<1>2. /\ last[s].since \in Nat /\ cooldown[s] \in Nat /\ cache[s].age \in Nat
      /\ last[s].outcome \in {"list", "empty", "failed"}
  BY <1>1, SlugTypes
<1>3. StillCounts(s) <=>
        last[s].since < IF last[s].outcome = "list" THEN TTL
                        ELSE IF last[s].outcome = "empty" THEN EmptyTTL ELSE RetryAfter
  <2>1. CASE last[s].outcome = "list"
    BY <2>1 DEF StillCounts
  <2>2. CASE last[s].outcome = "empty"
    BY <2>2 DEF StillCounts
  <2>3. CASE last[s].outcome = "failed"
    BY <2>3 DEF StillCounts
  <2>4. QED
    BY <1>2, <2>1, <2>2, <2>3
\* A list that came with the last fetch counts as long as it has not run out.
<1>4. LastMade(s) => /\ last[s].ctx = cache[s].ctx /\ last[s].outcome # "failed"
                     /\ StillCounts(s) <=> ~Expired(cache[s])
  BY <1>2, <1>3, Numbers DEF LastMade, Expired, Lifetime
<1>5. NoEntry.ctx = None
  BY DEF NoEntry
<1>6. ASSUME s \in Stale, last[s].ctx = Context(s) PROVE ~StillCounts(s)
  <2>1. last[s].ctx # None
    BY <1>6
  <2>2. CASE last[s].outcome = "failed"
    <3>1. cooldown[s] = 0
      BY <1>1, <1>6, <2>1, <2>2, PrunedIs DEF DueInv, Bound
    <3>2. QED
      BY <1>1, <1>2, <1>3, <2>1, <2>2, <3>1, Numbers DEF DueInv
  <2>3. CASE last[s].outcome # "failed"
    <3>1. LastMade(s)
      BY <1>1, <2>1, <2>3 DEF DueInv
    <3>2. Bound(s) /\ cache[s] # NoEntry
      BY <1>4, <1>5, <1>6, <3>1 DEF Bound
    <3>3. Expired(cache[s])
      BY <1>1, <1>6, <3>2, PrunedIs
    <3>4. QED
      BY <1>4, <3>1, <3>3
  <2>4. QED
    BY <2>2, <2>3
<1>7. ASSUME s \notin Stale
      PROVE  /\ StillCounts(s)
             /\ last[s].outcome # "failed" => last[s].ctx = Context(s)
  <2>1. CASE Pruned[s] # NoEntry /\ ~Expired(Pruned[s])
    <3>1. Bound(s) /\ ~Expired(cache[s])
      BY <1>1, <2>1, PrunedIs
    <3>2. LastMade(s)
      BY <1>1, <3>1 DEF DueInv, Bound
    <3>3. QED
      BY <1>4, <3>1, <3>2 DEF Bound
  <2>2. CASE Cooled[s] # 0
    <3>1. cooldown[s] # 0
      BY <1>1, <2>2, PrunedIs
    <3>2. QED
      BY <1>1, <1>2, <1>3, <3>1, Numbers DEF DueInv
  <2>3. QED
    BY <1>1, <1>7, <2>1, <2>2, PrunedIs
<1>8. QED
  BY <1>6, <1>7

\* Lookups coalesce and back off: no second fetch of a provider at a time, and none
\* while the last answer for its account counts.
THEOREM AsksOnlyDue == Spec => AsksOnlyWhenDue
<1>1. RegistryInv /\ [Next]_vars =>
        [\A r \in Requests : Enter(r) =>
           \A s \in Slugs : fetch'[s].state = "queued" =>
             /\ fetch[s].state = "none"
             /\ last[s].ctx = Context(s) => ~StillCounts(s)]_vars
  <2> SUFFICES ASSUME RegistryInv, NEW r \in Requests, Enter(r), NEW s \in Slugs,
                      fetch'[s].state = "queued"
               PROVE  /\ fetch[s].state = "none"
                      /\ last[s].ctx = Context(s) => ~StillCounts(s)
    OBVIOUS
  <2>1. TypeOK /\ fetch[s].state = "none"
    BY DEF RegistryInv, CacheInv, MutexInv, Enter, LockFree
  <2>2. s \in Stale
    <3>1. s \notin Stale => fetch'[s] \in {fetch[s], NoFetch}
      BY <2>1, EnterIs
    <3>2. fetch'[s] \notin {fetch[s], NoFetch}
      BY <2>1 DEF NoFetch
    <3>3. QED
      BY <3>1, <3>2
  <2>3. Context(s) # None
    BY <2>1, <2>2, PrunedIs
  <2>4. QED
    BY <2>1, <2>2, <2>3, DueIsKnown
<1>2. QED
  BY <1>1, RegistryInvariance, PTL DEF Spec, AsksOnlyWhenDue

\* A new account, a list that has run out or a back-off that is over is not missed
\* by the next lookup.
THEOREM AsksDue == Spec => AsksWhenDue
<1>1. RegistryInv /\ [Next]_vars =>
        [\A r \in Requests : Enter(r) =>
           \A s \in Slugs :
             Context(s) # None /\ fetch'[s].state # "queued" =>
               /\ StillCounts(s)
               /\ last[s].outcome # "failed" => last[s].ctx = Context(s)]_vars
  <2> SUFFICES ASSUME RegistryInv, NEW r \in Requests, Enter(r), NEW s \in Slugs,
                      Context(s) # None, fetch'[s].state # "queued"
               PROVE  /\ StillCounts(s)
                      /\ last[s].outcome # "failed" => last[s].ctx = Context(s)
    OBVIOUS
  <2>1. s \notin Stale
    BY EnterIs DEF NoFetch, RegistryInv, CacheInv
  <2>2. QED
    BY <2>1, DueIsKnown
<1>2. QED
  BY <1>1, RegistryInvariance, PTL DEF Spec, AsksWhenDue
=============================================================================
