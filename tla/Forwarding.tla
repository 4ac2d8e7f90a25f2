----------------------------- MODULE Forwarding -----------------------------
(***************************************************************************)
(* The way of a request through forward, with the credentials and model    *)
(* lists of several providers changing under it: routing by prefix or by   *)
(* the registry's lists, the proactive refresh, the upstream call and the  *)
(* one resend after a 401 or 403.                                          *)
(*                                                                         *)
(* Tokens are known by their account: TokenRefresh has their generations.  *)
(* To the registry all this is only its environment (ImplementsRegistry).  *)
(***************************************************************************)
EXTENDS ModelRegistry

CONSTANT Bare   \* "no prefix"

\* The refreshes that cross an attachment are forward's.
ASSUME ForwardingAssumption == Bare \notin Slugs /\ "crossing" \in Hazards

VARIABLES
  fw,       \* fw[f]: the locals of forward
  seedless  \* providers in the vault without an entry in _chain_seed

outside == <<vars, seedless>>
forwardVars == <<outside, fw>>

\* stage: "resolve" (in the registry), "ensure" and "reauth" (waiting for the
\* provider's lock), "post" and "repost" (refreshing under it), "sent", "resent".
\* attached: the snapshot of _resolve_provider; cred: the credential in hand.
Idle == [stage |-> "idle", name |-> Bare, attached |-> {}, target |-> Bare, cred |-> 0]
Posting == {"post", "repost"}
Sent == {"sent", "resent"}

ForwardTypeOK ==
  /\ TypeOK /\ seedless \subseteq Slugs
  /\ fw \in [Requests ->
       [stage : {"idle", "resolve", "ensure", "reauth"} \cup Posting \cup Sent,
        name : Names \cup {Bare}, attached : SUBSET Slugs, target : Slugs \cup {Bare},
        cred : 0..MaxAccounts]]
  /\ \A f \in Requests :
       /\ fw[f].stage = "resolve" <=> pc[f] # "idle"
       /\ fw[f].stage \in Posting \cup Sent => fw[f].target # Bare /\ fw[f].cred # 0

ForwardInit == Init /\ fw = [f \in Requests |-> Idle] /\ seedless = {}

----------------------------------------------------------------------------
(* One provider and one credential.                                        *)

\* store.get, or the credential the request has already.  Two mutants: only one of
\* the two.
Current_Vault(f) == account[fw[f].target]
Current_Kept(f) == fw[f].cred
Current(f) ==
  IF account[fw[f].target] # 0 THEN account[fw[f].target] ELSE fw[f].cred

Unlocked(f) ==
  \A g \in Requests : fw[g].target = fw[f].target => fw[g].stage \notin Posting

\* _forward_once with a credential for s.
Send(f, s, cred, stage) ==
  fw' = [fw EXCEPT ![f] = [Idle EXCEPT !.stage = stage, !.target = s, !.cred = cred]]

\* forward from store.get to its next suspension: its token is fresh enough, or has
\* to wait for the lock.
Open(f, s, cred) ==
  \/ Send(f, s, cred, "sent")
  \/ fw' = [fw EXCEPT ![f] = [Idle EXCEPT !.stage = "ensure", !.target = s, !.cred = cred]]

End(f) == fw' = [fw EXCEPT ![f] = Idle]

----------------------------------------------------------------------------
(* Routing.                                                                *)

Attached == {s \in Slugs : account[s] # 0}

\* Without asking the registry: the only provider, or the one of the prefix.
Direct(prefix) == IF Cardinality(Attached) = 1 THEN Attached ELSE {prefix} \cap Attached

\* A request comes in; a 503 in the same step would change nothing.
Receive(f, prefix, name) ==
  /\ fw[f].stage = "idle"
  /\ \/ \E s \in Direct(prefix) : Open(f, s, account[s]) /\ UNCHANGED outside
     \/ /\ Direct(prefix) = {} /\ Attached # {} /\ prefix = Bare
        /\ fw' = [fw EXCEPT ![f] = [Idle EXCEPT !.stage = "resolve", !.name = name,
                                                !.attached = Attached]]
        /\ Lookup(f) /\ UNCHANGED seedless

\* Where the registry's answer sends a bare name: only to a provider that was
\* attached when the request came, too.
Matches(f) ==
  {s \in fw[f].attached : \E name \in Names : name = fw[f].name /\ s \in Routed(name)'}

\* A lookup goes on in the registry; when f has its answer, forward goes on in the
\* same step, with a token or a 503, unless the lookup raised.
RegistryStep(f) ==
  /\ Enter(f) \/ Finish(f)
  /\ UNCHANGED seedless
  /\ \/ pc'[f] # "idle" /\ UNCHANGED fw
     \/ pc'[f] = "idle" /\ (Raises(f) \/ Matches(f) = {}) /\ End(f)
     \/ pc'[f] = "idle" /\ \E s \in Matches(f) : Open(f, s, account[s])

----------------------------------------------------------------------------
(* Refreshing and resending.                                               *)

Stay(f, stage, cred) == fw' = [fw EXCEPT ![f].stage = stage, ![f].cred = cred]

\* _ensure_fresh has the lock: another request has refreshed, or it does so itself.
Acquire(f) ==
  /\ fw[f].stage = "ensure" /\ Unlocked(f)
  /\ Send(f, fw[f].target, Current(f), "sent") \/ Stay(f, "post", Current(f))
  /\ UNCHANGED outside

\* store.update in refresh_credential, over whatever is attached by now; cred is what
\* forward goes on with.  A provider that has been detached meanwhile has no seed:
\* discovery_identity falls back to the refresh token, which is new each time, so
\* what is put back is another account to the registry.  A mutant: update records
\* the token as the seed of its chain.
Updated_Anchors(f, cred) ==
  /\ cred = fw[f].cred
  /\ account' = [account EXCEPT ![fw[f].target] = cred]
  /\ seed' = [seed EXCEPT ![fw[f].target] = cred]
  /\ UNCHANGED <<minted, version, cache, disk, cooldown, lock, pc, fetch, dirty, last,
                 unsaved, seedless>>
Updated(f, cred) ==
  LET s == fw[f].target IN
  \/ /\ account[s] # 0 /\ cred = fw[f].cred
     /\ account' = [account EXCEPT ![s] = cred]
     /\ UNCHANGED <<seed, minted, version, cache, disk, cooldown, lock, pc, fetch, dirty,
                    last, unsaved, seedless>>
  \/ /\ account[s] = 0 \/ s \in seedless
     /\ Reattach(s) /\ cred = minted'[s] /\ seedless' = seedless \cup {s}

\* The refresh succeeds; if _persist fails then, its OSError ends the request with the
\* vault already updated.
Answered(f, stage) ==
  \E cred \in 1..MaxAccounts :
    /\ Updated(f, cred)
    /\ Send(f, fw[f].target, cred, stage) \/ ("disk" \in Hazards /\ End(f))

\* A refused refresh ends in the token there is; another exception ends the request.
Refreshed(f) ==
  /\ fw[f].stage = "post"
  /\ \/ Answered(f, "sent")
     \/ Send(f, fw[f].target, fw[f].cred, "sent") /\ UNCHANGED outside
     \/ End(f) /\ UNCHANGED outside

\* 401 or 403, for a token that has not just been refreshed.
Unauthorized(f) ==
  /\ fw[f].stage = "sent" /\ Stay(f, "reauth", fw[f].cred)
  /\ UNCHANGED outside

\* The reactive path has the lock: it takes the token someone else has refreshed
\* or attached, or refreshes its own.
AcquireAgain(f) ==
  /\ fw[f].stage = "reauth" /\ Unlocked(f)
  /\ \/ Send(f, fw[f].target, Current(f), "resent")
     \/ Current(f) = fw[f].cred /\ Stay(f, "repost", fw[f].cred)
  /\ UNCHANGED outside

RefreshedAgain(f) ==
  /\ fw[f].stage = "repost"
  /\ Answered(f, "resent") \/ (End(f) /\ UNCHANGED outside)

\* Upstream's answer is passed on.
Passed(f) == fw[f].stage \in Sent /\ End(f) /\ UNCHANGED outside

----------------------------------------------------------------------------

\* Everything else goes on meanwhile.  What the attached file puts in the vault has its
\* seed; what the fallback puts there has one if _load finds a seed on disk.
Elsewhere ==
  /\ \/ /\ \E s \in Slugs : \/ Start(s) \/ Fail(s)
                             \/ \E models \in SUBSET Names : Answer(s, models)
        /\ UNCHANGED seedless
     \/ \E s \in Slugs : /\ Reattach(s) \/ Detach(s)
                         /\ seedless' = seedless \ {s}
     \/ \E s \in Slugs, earlier \in 1..MaxAccounts :
          /\ Return(s, earlier)
          /\ seedless' \in {seedless \ {s}, seedless \cup {s}}
     \/ Tick /\ UNCHANGED seedless
  /\ UNCHANGED fw

ForwardNext ==
  \/ \E f \in Requests :
       \/ \E prefix \in Slugs \cup {Bare}, name \in Names : Receive(f, prefix, name)
       \/ Acquire(f) \/ Refreshed(f) \/ Unauthorized(f) \/ AcquireAgain(f)
       \/ RefreshedAgain(f) \/ Passed(f) \/ RegistryStep(f)
  \/ Elsewhere

ForwardSpec == ForwardInit /\ [][ForwardNext]_forwardVars

----------------------------------------------------------------------------
(* Properties.                                                             *)

\* All that forward and its refreshes do to the vault, ModelRegistry does without
\* them: what it promises of its lists and of when it asks holds here too.
ImplementsRegistry == Spec

Attempts(f) == fw'[f].stage \in Sent /\ fw'[f] # fw[f]

\* "resolved via dynamic registry" (README), across the fetches of a lookup: the token
\* a bare name is routed with is the one whose models were asked for, unless they were
\* asked while accounts were coming back (ModelRegistry!DiscardsOnChange) or the vault
\* holds another account's token than its seed says.
RoutedByItsList ==
  [][\A f \in Requests :
       fw[f].stage = "resolve" /\ fw'[f].stage \in {"ensure", "sent"} =>
         LET s == fw'[f].target IN
         ~cache'[s].back /\ account'[s] = seed'[s] =>
           /\ cache'[s].owner = <<fw'[f].cred, version>>
           /\ fw[f].name \in cache'[s].models]_forwardVars

\* Each attempt presents the token the vault has at that moment, whatever was
\* attached while the request was in the registry, waited or refreshed; only after
\* a refused refresh, or a detachment, does it present the one it had.
PresentsVaultToken ==
  [][\A f \in Requests :
       Attempts(f) => \/ account'[fw'[f].target] \in {0, fw'[f].cred}
                      \/ fw[f].stage = "post" /\ account' = account]_forwardVars
=============================================================================
