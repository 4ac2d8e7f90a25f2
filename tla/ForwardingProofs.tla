-------------------------- MODULE ForwardingProofs --------------------------
(***************************************************************************)
(* Proofs about Forwarding, for any number of requests, providers, models  *)
(* and re-attachments: which provider and which token a request is sent    *)
(* with, and that all it does, its refreshes too, are steps of             *)
(* ModelRegistry, whose theorems hold of it for that reason.               *)
(***************************************************************************)
EXTENDS Forwarding, ModelRegistryProofs

Locals == [stage : {"idle", "resolve", "ensure", "reauth"} \cup Posting \cup Sent,
           name : Names \cup {Bare}, attached : SUBSET Slugs, target : Slugs \cup {Bare},
           cred : 0..MaxAccounts]

\* The request has a provider and a credential of it.
HasToken(f) == fw[f].stage \notin {"idle", "resolve"}

\* A request that has a token has it of an account that its provider has had.
RequestInv(f) ==
  /\ fw[f].stage = "resolve" <=> pc[f] # "idle"
  /\ HasToken(f) => /\ fw[f].target \in Slugs /\ fw[f].cred # 0
                    /\ fw[f].cred <= minted[fw[f].target]

HandlersInv ==
  /\ fw \in [Requests -> Locals] /\ seedless \subseteq Slugs
  /\ \A f \in Requests : RequestInv(f)

ForwardInv == RegistryInv /\ HandlersInv

----------------------------------------------------------------------------
(* What the steps do to the locals of one request.                         *)

\* Only f's locals change, and stay of their type.
Only(f) == fw' \in [Requests -> Locals] /\ \A g \in Requests \ {f} : fw'[g] = fw[g]

LEMMA StageNames ==
  Posting = {"post", "repost"} /\ Sent = {"sent", "resent"}
  BY DEF Posting, Sent

LEMMA IdleType == Idle \in Locals
  BY Numbers DEF Idle, Locals

LEMMA WaitingRecord ==
  ASSUME NEW stage \in {"resolve", "ensure"}, NEW s \in Slugs, NEW cred \in 0..MaxAccounts
  PROVE  LET new == [Idle EXCEPT !.stage = stage, !.target = s, !.cred = cred]
         IN  new \in Locals /\ new.stage = stage /\ new.target = s /\ new.cred = cred
  BY IdleType DEF Locals

LEMMA ResolvingRecord ==
  ASSUME NEW stage \in {"resolve", "ensure"}, NEW name \in Names,
         NEW attached \in SUBSET Slugs
  PROVE  LET new == [Idle EXCEPT !.stage = stage, !.name = name, !.attached = attached]
         IN  new \in Locals /\ new.stage = stage
  BY IdleType DEF Locals

LEMMA SendIs ==
  ASSUME fw \in [Requests -> Locals], NEW f \in Requests, NEW s \in Slugs,
         NEW cred \in 0..MaxAccounts, NEW stage \in Sent, Send(f, s, cred, stage)
  PROVE  Only(f) /\ fw'[f].stage = stage /\ fw'[f].target = s /\ fw'[f].cred = cred
<1> DEFINE new == [Idle EXCEPT !.stage = stage, !.target = s, !.cred = cred]
<1>1. new \in Locals /\ new.stage = stage /\ new.target = s /\ new.cred = cred
  BY IdleType DEF Locals
<1>2. fw' = [fw EXCEPT ![f] = new]
  BY DEF Send
<1> HIDE DEF new
<1>3. QED
  BY <1>1, <1>2 DEF Only

LEMMA OpenIs ==
  ASSUME fw \in [Requests -> Locals], NEW f \in Requests, NEW s \in Slugs,
         NEW cred \in 0..MaxAccounts, Open(f, s, cred)
  PROVE  /\ Only(f) /\ fw'[f].stage \in {"sent", "ensure"} /\ fw'[f].target = s
         /\ fw'[f].cred = cred
<1>1. CASE Send(f, s, cred, "sent")
  BY <1>1, SendIs, StageNames
<1>2. CASE fw' = [fw EXCEPT ![f] = [Idle EXCEPT !.stage = "ensure", !.target = s,
                                                 !.cred = cred]]
  <2> DEFINE new == [Idle EXCEPT !.stage = "ensure", !.target = s, !.cred = cred]
  <2>1. /\ new \in Locals /\ new.stage = "ensure" /\ new.target = s /\ new.cred = cred
    BY WaitingRecord
  <2>2. fw' = [fw EXCEPT ![f] = new]
    BY <1>2
  <2> HIDE DEF new
  <2>3. QED
    BY <2>1, <2>2 DEF Only
<1>3. QED
  BY <1>1, <1>2 DEF Open

LEMMA StayIs ==
  ASSUME fw \in [Requests -> Locals], NEW f \in Requests, NEW cred \in 0..MaxAccounts,
         NEW stage \in {"reauth"} \cup Posting, Stay(f, stage, cred)
  PROVE  /\ Only(f) /\ fw'[f].stage = stage /\ fw'[f].cred = cred
         /\ fw'[f].target = fw[f].target
<1> DEFINE new == [fw[f] EXCEPT !.stage = stage, !.cred = cred]
<1>1. fw[f] \in Locals
  OBVIOUS
<1>2. /\ new \in Locals /\ new.stage = stage /\ new.cred = cred
      /\ new.target = fw[f].target
  BY <1>1 DEF Locals
<1>3. fw' = [fw EXCEPT ![f] = new]
  BY <1>1 DEF Stay
<1> HIDE DEF new
<1>4. QED
  BY <1>2, <1>3 DEF Only

LEMMA EndIs ==
  ASSUME fw \in [Requests -> Locals], NEW f \in Requests, End(f)
  PROVE  Only(f) /\ fw'[f].stage = "idle"
<1>1. Idle.stage = "idle"
  BY DEF Idle
<1>2. QED
  BY <1>1, IdleType DEF End, Only

LEMMA ResolveIs ==
  ASSUME fw \in [Requests -> Locals], NEW f \in Requests, NEW name \in Names,
         fw' = [fw EXCEPT ![f] = [Idle EXCEPT !.stage = "resolve", !.name = name,
                                              !.attached = Attached]]
  PROVE  Only(f) /\ fw'[f].stage = "resolve"
<1> DEFINE new == [Idle EXCEPT !.stage = "resolve", !.name = name, !.attached = Attached]
<1>1. new \in Locals /\ new.stage = "resolve"
  <2>1. Attached \in SUBSET Slugs
    BY DEF Attached
  <2>2. QED
    BY <2>1, ResolvingRecord
<1>2. fw' = [fw EXCEPT ![f] = new]
  OBVIOUS
<1> HIDE DEF new
<1>3. QED
  BY <1>1, <1>2 DEF Only

----------------------------------------------------------------------------
(* The other requests.                                                     *)

LEMMA InvIs ==
  ASSUME ForwardInv
  PROVE  /\ CacheInv /\ TypeOK
         /\ pc \in [Requests -> {"idle", "wait", "fetch"}]
         /\ fw \in [Requests -> Locals]
         /\ \A s \in Slugs : /\ account[s] \in Nat /\ seed[s] \in Nat /\ minted[s] \in Nat
                             /\ account[s] <= MaxAccounts /\ account[s] <= minted[s]
                             /\ minted[s] <= MaxAccounts
  BY Numbers DEF ForwardInv, HandlersInv, RegistryInv, CacheInv, OwnerInv, TypeOK

LEMMA HoldsToken ==
  ASSUME ForwardInv, NEW f \in Requests, HasToken(f)
  PROVE  /\ fw[f].target \in Slugs /\ fw[f].cred \in 0..MaxAccounts
         /\ fw[f].cred # 0 /\ fw[f].cred <= minted[fw[f].target]
         /\ fw[f].stage # "resolve" => pc[f] = "idle"
  BY InvIs DEF ForwardInv, HandlersInv, RequestInv, Locals

\* Accounts are counted up.
Counted == \A t \in Slugs : minted[t] \in Nat /\ minted'[t] \in Nat /\ minted[t] <= minted'[t]

LEMMA OthersKeep ==
  ASSUME fw \in [Requests -> Locals], NEW g \in Requests, RequestInv(g), fw'[g] = fw[g],
         pc'[g] = pc[g], Counted
  PROVE  RequestInv(g)'
<1>1. fw[g].cred \in Nat
  BY Numbers DEF Locals
<1>2. QED
  BY <1>1 DEF RequestInv, HasToken, Counted

LEMMA ForwardKeeps ==
  ASSUME HandlersInv, NEW f \in Requests, Only(f), RequestInv(f)', Counted,
         seedless' \subseteq Slugs, \A g \in Requests \ {f} : pc'[g] = pc[g]
  PROVE  HandlersInv'
<1>1. \A g \in Requests \ {f} : RequestInv(g)'
  BY OthersKeep DEF HandlersInv, Only
<1>2. QED
  BY <1>1 DEF HandlersInv, Only

\* A step of forward that leaves the vault and the registry alone.
LEMMA LocalKeeps ==
  ASSUME ForwardInv, NEW f \in Requests, Only(f), RequestInv(f)', UNCHANGED outside
  PROVE  HandlersInv'
<1>1. Counted /\ seedless' \subseteq Slugs
  BY InvIs DEF Counted, outside, vars, store, ForwardInv, HandlersInv
<1>2. QED
  BY <1>1, ForwardKeeps DEF ForwardInv, vars, outside

----------------------------------------------------------------------------
(* The steps.                                                              *)

\* An answer of the vault gives the request a token of the provider.
LEMMA OpenKeeps ==
  ASSUME ForwardInv, NEW f \in Requests, NEW s \in Slugs, account[s] # 0,
         Open(f, s, account[s]), UNCHANGED store, pc'[f] = "idle"
  PROVE  Only(f) /\ RequestInv(f)'
<1>1. account[s] \in 0..MaxAccounts /\ account[s] <= minted[s]
  BY InvIs, Numbers
<1>2. /\ Only(f) /\ fw'[f].stage \in {"sent", "ensure"} /\ fw'[f].target = s
      /\ fw'[f].cred = account[s]
  BY <1>1, InvIs, OpenIs
<1>3. RequestInv(f)'
  BY <1>1, <1>2 DEF RequestInv, HasToken, store
<1>4. QED
  BY <1>2, <1>3

LEMMA EndKeeps ==
  ASSUME ForwardInv, NEW f \in Requests, End(f), pc'[f] = "idle"
  PROVE  Only(f) /\ RequestInv(f)'
  BY InvIs, EndIs DEF RequestInv, HasToken

LEMMA ReceiveKeeps ==
  ASSUME ForwardInv, NEW f \in Requests, NEW prefix, NEW name \in Names,
         Receive(f, prefix, name)
  PROVE  HandlersInv'
<1>1. /\ fw[f].stage = "idle" /\ pc[f] = "idle" /\ HandlersInv
      /\ fw \in [Requests -> Locals] /\ pc \in [Requests -> {"idle", "wait", "fetch"}]
  BY InvIs DEF Receive, ForwardInv, HandlersInv, RequestInv
<1>2. ASSUME NEW s \in Direct(prefix), Open(f, s, account[s]), UNCHANGED outside
      PROVE  HandlersInv'
  <2>1. s \in Slugs /\ account[s] # 0
    BY DEF Direct, Attached
  <2>2. QED
    BY <1>1, <1>2, <2>1, OpenKeeps, LocalKeeps DEF outside, vars
<1>3. CASE /\ fw' = [fw EXCEPT ![f] = [Idle EXCEPT !.stage = "resolve", !.name = name,
                                                   !.attached = Attached]]
           /\ Lookup(f) /\ UNCHANGED seedless
  <2>1. Only(f) /\ fw'[f].stage = "resolve"
    BY <1>1, <1>3, ResolveIs
  <2>2. pc' = [pc EXCEPT ![f] = "wait"] /\ UNCHANGED store
    BY <1>3 DEF Lookup
  <2>3. RequestInv(f)' /\ Counted
    BY <1>1, <2>1, <2>2, InvIs DEF RequestInv, HasToken, Counted, store
  <2>4. QED
    BY <1>1, <1>3, <2>1, <2>2, <2>3, ForwardKeeps DEF HandlersInv
<1>4. QED
  BY <1>2, <1>3 DEF Receive

\* Where the registry's answer sends a name, a provider is attached.
LEMMA MatchIsAttached ==
  ASSUME TypeOK, NEW f \in Requests, Enter(f) \/ Finish(f), NEW s \in Matches(f)
  PROVE  s \in Slugs /\ s \in Listed' /\ account[s] # 0
<1>1. UNCHANGED <<store, version>>
  BY DEF Enter, Finish
<1>2. s \in Listed'
  BY DEF Matches, Routed
<1>3. QED
  BY <1>1, <1>2 DEF Listed, Bound, Context, store

LEMMA RegistryStepKeeps ==
  ASSUME ForwardInv, NEW f \in Requests, RegistryStep(f) PROVE HandlersInv'
<1>1. TypeOK /\ HandlersInv /\ pc \in [Requests -> {"idle", "wait", "fetch"}]
  BY InvIs DEF ForwardInv
<1>2. /\ UNCHANGED store /\ \A g \in Requests \ {f} : pc'[g] = pc[g]
      /\ pc[f] # "idle" /\ UNCHANGED seedless
  BY <1>1 DEF RegistryStep, Enter, Finish
<1>3. Counted /\ seedless' \subseteq Slugs
  BY <1>1, <1>2, InvIs DEF Counted, store, HandlersInv
<1>4. CASE pc'[f] # "idle" /\ UNCHANGED fw
  <2>1. Only(f)
    BY <1>1, <1>4 DEF Only, HandlersInv
  <2>2. RequestInv(f)'
    BY <1>1, <1>2, <1>4 DEF HandlersInv, RequestInv, HasToken, store
  <2>3. QED
    BY <1>1, <1>2, <1>3, <2>1, <2>2, ForwardKeeps
<1>5. CASE pc'[f] = "idle" /\ End(f)
  BY <1>1, <1>2, <1>3, <1>5, EndKeeps, ForwardKeeps
<1>6. ASSUME pc'[f] = "idle", NEW s \in Matches(f), Open(f, s, account[s])
      PROVE  HandlersInv'
  <2>1. s \in Slugs /\ account[s] # 0
    BY <1>1, MatchIsAttached DEF RegistryStep
  <2>2. QED
    BY <1>1, <1>2, <1>3, <1>6, <2>1, OpenKeeps, ForwardKeeps
<1>7. QED
  BY <1>4, <1>5, <1>6 DEF RegistryStep

\* The credential a request goes on with after its wait.
LEMMA CurrentIs ==
  ASSUME ForwardInv, NEW f \in Requests, HasToken(f)
  PROVE  LET s == fw[f].target
         IN  /\ s \in Slugs /\ Current(f) \in 0..MaxAccounts /\ Current(f) # 0
             /\ Current(f) <= minted[s]
             /\ account[s] # 0 => Current(f) = account[s]
<1>1. /\ fw[f].target \in Slugs /\ fw[f].cred \in 0..MaxAccounts
      /\ fw[f].cred # 0 /\ fw[f].cred <= minted[fw[f].target]
  BY HoldsToken
<1>2. account[fw[f].target] \in 0..MaxAccounts
  BY <1>1, InvIs, Numbers
<1>3. QED
  BY <1>1, <1>2, InvIs DEF Current

LEMMA AcquireKeeps ==
  ASSUME ForwardInv, NEW f \in Requests, Acquire(f) \/ AcquireAgain(f)
  PROVE  HandlersInv'
<1>1. /\ HasToken(f) /\ fw[f].stage # "resolve" /\ UNCHANGED outside
      /\ fw \in [Requests -> Locals] /\ "post" \in Posting /\ "repost" \in Posting
      /\ "sent" \in Sent /\ "resent" \in Sent
  BY InvIs, StageNames DEF Acquire, AcquireAgain, HasToken
<1>2. /\ fw[f].target \in Slugs /\ Current(f) \in 0..MaxAccounts /\ Current(f) # 0
      /\ Current(f) <= minted[fw[f].target]
  BY <1>1, CurrentIs
<1>3. \/ \E stage \in Sent : Send(f, fw[f].target, Current(f), stage)
      \/ \E stage \in Posting : Stay(f, stage, Current(f))
  BY <1>1 DEF Acquire, AcquireAgain
<1>4. /\ Only(f) /\ fw'[f].target = fw[f].target /\ fw'[f].cred = Current(f)
      /\ fw'[f].stage \in Posting \cup Sent
  <2>1. ASSUME NEW stage \in Sent, Send(f, fw[f].target, Current(f), stage)
        PROVE  /\ Only(f) /\ fw'[f].target = fw[f].target /\ fw'[f].cred = Current(f)
               /\ fw'[f].stage \in Sent
    BY <1>1, <1>2, <2>1, SendIs
  <2>2. ASSUME NEW stage \in Posting, Stay(f, stage, Current(f))
        PROVE  /\ Only(f) /\ fw'[f].target = fw[f].target /\ fw'[f].cred = Current(f)
               /\ fw'[f].stage \in Posting
    <3>1. stage \in {"reauth"} \cup Posting
      BY <2>2
    <3>2. QED
      BY <1>1, <1>2, <2>2, <3>1, StayIs
  <2>3. QED
    BY <1>3, <2>1, <2>2
<1>5. pc'[f] = "idle" /\ UNCHANGED store
  BY <1>1, HoldsToken DEF outside, vars
<1>6. RequestInv(f)'
  BY <1>2, <1>4, <1>5, StageNames DEF RequestInv, HasToken, store
<1>7. QED
  BY <1>1, <1>4, <1>6, LocalKeeps

----------------------------------------------------------------------------
(* The write of a refresh.                                                 *)

\* What it does to the vault: it writes the token that was posted, or puts back a
\* provider as a new account.
LEMMA UpdatedIs ==
  ASSUME ForwardInv, NEW f \in Requests, fw[f].stage \in Posting,
         NEW cred \in 1..MaxAccounts, Updated(f, cred)
  PROVE  LET s == fw[f].target
         IN  /\ s \in Slugs /\ UNCHANGED pc /\ seedless' \subseteq Slugs
             /\ account' = [account EXCEPT ![s] = cred] /\ cred <= minted'[s]
             /\ minted'[s] \in Nat /\ minted[s] <= minted'[s]
             /\ \A t \in Slugs \ {s} : seed'[t] = seed[t] /\ minted'[t] = minted[t]
<1> DEFINE s == fw[f].target
<1>1. /\ s \in Slugs /\ fw[f].cred <= minted[s] /\ minted[s] \in Nat
      /\ seedless \subseteq Slugs /\ TypeOK
  BY StageNames, HoldsToken, InvIs DEF HasToken, ForwardInv, HandlersInv
<1>2. CASE /\ account[s] # 0 /\ cred = fw[f].cred
           /\ account' = [account EXCEPT ![s] = cred]
           /\ UNCHANGED <<seed, minted, pc, seedless>>
  BY <1>1, <1>2
<1>3. CASE Reattach(s) /\ cred = minted'[s] /\ seedless' = seedless \cup {s}
  BY <1>1, <1>3 DEF Reattach, TypeOK
<1>4. QED
  BY <1>2, <1>3 DEF Updated

\* To the registry it is nothing new: a refresh that crossed an attachment, the
\* attachment of another account, or no change at all.
LEMMA UpdatedIsNext ==
  ASSUME ForwardInv, NEW f \in Requests, fw[f].stage \in Posting,
         NEW cred \in 1..MaxAccounts, Updated(f, cred)
  PROVE  [Next]_vars
<1> DEFINE s == fw[f].target
<1>1. /\ s \in Slugs /\ fw[f].cred \in 0..MaxAccounts /\ fw[f].cred # 0
      /\ fw[f].cred <= minted[s] /\ minted[s] \in Nat
  BY StageNames, HoldsToken, InvIs DEF HasToken
<1>2. account \in [Slugs -> 0..MaxAccounts]
  BY InvIs DEF TypeOK
<1>3. CASE /\ account[s] # 0 /\ cred = fw[f].cred
           /\ account' = [account EXCEPT ![s] = cred]
           /\ UNCHANGED <<seed, minted, version, cache, disk, cooldown, lock, pc, fetch,
                          dirty, last, unsaved, seedless>>
  <2>1. CASE cred = account[s]
    BY <1>2, <1>3, <2>1 DEF vars, store
  <2>2. CASE cred # account[s]
    <3>1. cred \in 1..minted[s]
      BY <1>1, <1>3, Numbers
    <3>2. Overwrite(s, cred)
      BY <1>3, <2>2, <3>1, ForwardingAssumption DEF Overwrite
    <3>3. QED
      BY <1>1, <3>2 DEF Next
  <2>3. QED
    BY <2>1, <2>2
<1>4. CASE Reattach(s)
  BY <1>1, <1>4 DEF Next
<1>5. QED
  BY <1>3, <1>4 DEF Updated

LEMMA UpdatedKeeps ==
  ASSUME ForwardInv, NEW f \in Requests, fw[f].stage \in Posting,
         NEW cred \in 1..MaxAccounts, Updated(f, cred), Only(f),
         \/ fw'[f].stage = "idle"
         \/ /\ fw'[f].stage \in Sent /\ fw'[f].target = fw[f].target
            /\ fw'[f].cred = cred
  PROVE  HandlersInv'
<1> DEFINE s == fw[f].target
<1>1. /\ s \in Slugs /\ UNCHANGED pc /\ seedless' \subseteq Slugs /\ cred <= minted'[s]
      /\ minted'[s] \in Nat /\ minted[s] <= minted'[s]
      /\ \A t \in Slugs \ {s} : minted'[t] = minted[t]
  BY UpdatedIs
<1>2. pc[f] = "idle" /\ HandlersInv
  BY StageNames, HoldsToken DEF HasToken, ForwardInv
<1>3. Counted
  BY <1>1, InvIs DEF Counted
<1>4. RequestInv(f)'
  BY <1>1, <1>2, StageNames DEF RequestInv, HasToken
<1>5. QED
  BY <1>1, <1>2, <1>3, <1>4, ForwardKeeps

\* How a refresh ends.
LEMMA RefreshedIs ==
  ASSUME ForwardInv, NEW f \in Requests, Refreshed(f) \/ RefreshedAgain(f)
  PROVE  /\ fw[f].stage \in Posting
         /\ \/ End(f) /\ UNCHANGED outside
            \/ /\ fw[f].stage = "post" /\ UNCHANGED outside
               /\ Send(f, fw[f].target, fw[f].cred, "sent")
            \/ \E stage \in Sent : Answered(f, stage)
  BY StageNames DEF Refreshed, RefreshedAgain

LEMMA RefreshedKeeps ==
  ASSUME ForwardInv, NEW f \in Requests, Refreshed(f) \/ RefreshedAgain(f)
  PROVE  HandlersInv'
<1>1. fw[f].stage \in Posting /\ "sent" \in Sent
  BY StageNames, RefreshedIs
<1>2. /\ fw[f].target \in Slugs /\ fw[f].cred \in 0..MaxAccounts /\ pc[f] = "idle"
      /\ fw[f].cred # 0 /\ fw[f].cred <= minted[fw[f].target]
      /\ fw \in [Requests -> Locals]
  BY <1>1, StageNames, HoldsToken, InvIs DEF HasToken
<1>3. CASE End(f) /\ UNCHANGED outside
  BY <1>2, <1>3, EndKeeps, LocalKeeps DEF vars, outside
<1>4. CASE Send(f, fw[f].target, fw[f].cred, "sent") /\ UNCHANGED outside
  <2>1. /\ Only(f) /\ fw'[f].stage = "sent" /\ fw'[f].target = fw[f].target
        /\ fw'[f].cred = fw[f].cred
    BY <1>1, <1>2, <1>4, SendIs
  <2>2. RequestInv(f)'
    BY <1>2, <1>4, <2>1 DEF RequestInv, HasToken, outside, vars, store
  <2>3. QED
    BY <1>4, <2>1, <2>2, LocalKeeps
<1>5. ASSUME NEW stage \in Sent, Answered(f, stage) PROVE HandlersInv'
  <2>1. PICK cred \in 1..MaxAccounts :
          Updated(f, cred) /\ (Send(f, fw[f].target, cred, stage) \/ End(f))
    BY <1>5 DEF Answered
  <2>2. cred \in 0..MaxAccounts
    BY Numbers
  <2>3. CASE Send(f, fw[f].target, cred, stage)
    <3>1. /\ Only(f) /\ fw'[f].stage \in Sent /\ fw'[f].target = fw[f].target
          /\ fw'[f].cred = cred
      BY <1>2, <2>2, <2>3, SendIs
    <3>2. QED
      BY <1>1, <2>1, <3>1, UpdatedKeeps
  <2>4. CASE End(f)
    BY <1>1, <1>2, <2>1, <2>4, EndIs, UpdatedKeeps
  <2>5. QED
    BY <2>1, <2>3, <2>4
<1>6. QED
  BY <1>3, <1>4, <1>5, RefreshedIs

LEMMA AnsweredKeeps ==
  ASSUME ForwardInv, NEW f \in Requests, Unauthorized(f) \/ Passed(f)
  PROVE  HandlersInv'
<1>1. fw[f].stage \in Sent /\ UNCHANGED outside
  BY StageNames DEF Unauthorized, Passed
<1>2. /\ fw[f].target \in Slugs /\ fw[f].cred \in 0..MaxAccounts /\ pc[f] = "idle"
      /\ fw[f].cred # 0 /\ fw[f].cred <= minted[fw[f].target]
      /\ fw \in [Requests -> Locals]
  BY <1>1, StageNames, HoldsToken, InvIs DEF HasToken
<1>3. CASE Stay(f, "reauth", fw[f].cred)
  <2>1. /\ Only(f) /\ fw'[f].stage = "reauth" /\ fw'[f].cred = fw[f].cred
        /\ fw'[f].target = fw[f].target
    BY <1>2, <1>3, StayIs
  <2>2. RequestInv(f)'
    BY <1>1, <1>2, <2>1 DEF RequestInv, HasToken, outside, vars, store
  <2>3. QED
    BY <1>1, <2>1, <2>2, LocalKeeps
<1>4. CASE End(f)
  BY <1>1, <1>2, <1>4, EndKeeps, LocalKeeps DEF vars, outside
<1>5. QED
  BY <1>3, <1>4 DEF Unauthorized, Passed

\* What goes on elsewhere: it counts accounts up, at most.
LEMMA ElsewhereKeeps ==
  ASSUME ForwardInv, Elsewhere PROVE HandlersInv'
<1>1. TypeOK /\ HandlersInv
  BY InvIs DEF ForwardInv
<1>2. UNCHANGED <<fw, pc>> /\ seedless' \subseteq Slugs
  <2>1. CASE \E s \in Slugs, earlier \in 1..MaxAccounts :
               /\ Return(s, earlier)
               /\ seedless' \in {seedless \ {s}, seedless \cup {s}}
    BY <1>1, <2>1 DEF Elsewhere, Return, HandlersInv
  <2>2. CASE \E s \in Slugs : /\ Reattach(s) \/ Detach(s)
                              /\ seedless' = seedless \ {s}
    BY <1>1, <2>2 DEF Elsewhere, Reattach, Detach, HandlersInv
  <2>3. CASE /\ UNCHANGED seedless
             /\ \/ Tick
                \/ \E s \in Slugs : \/ Start(s) \/ Fail(s)
                                    \/ \E models \in SUBSET Names : Answer(s, models)
    BY <1>1, <2>3 DEF Elsewhere, Start, Fail, Answer, Tick, HandlersInv
  <2>4. QED
    BY <2>1, <2>2, <2>3 DEF Elsewhere
<1>3. Counted
  <2>1. UNCHANGED minted \/ \E s \in Slugs : Reattach(s)
    BY DEF Elsewhere, Start, Fail, Answer, Detach, Return, Tick, store
  <2>2. CASE UNCHANGED minted
    BY <2>2, InvIs DEF Counted
  <2>3. ASSUME NEW s \in Slugs, Reattach(s) PROVE Counted
    <3>1. minted \in [Slugs -> 0..MaxAccounts] /\ minted' = [minted EXCEPT ![s] = @ + 1]
      BY <1>1, <2>3 DEF TypeOK, Reattach
    <3>2. QED
      BY <3>1, InvIs DEF Counted
  <2>4. QED
    BY <2>1, <2>2, <2>3
<1>4. QED
  BY <1>1, <1>2, <1>3, OthersKeep DEF HandlersInv

----------------------------------------------------------------------------
(* Every step is one of the registry, or none.                             *)

LEMMA ForwardIsNext ==
  ASSUME ForwardInv, [ForwardNext]_forwardVars PROVE [Next]_vars
<1>1. CASE UNCHANGED vars
  BY <1>1
<1>2. ASSUME NEW f \in Requests, NEW prefix, NEW name \in Names, Receive(f, prefix, name)
      PROVE  [Next]_vars
  BY <1>2 DEF Receive, Next, outside
<1>3. ASSUME NEW f \in Requests, Refreshed(f) \/ RefreshedAgain(f) PROVE [Next]_vars
  <2>1. /\ fw[f].stage \in Posting
        /\ UNCHANGED vars \/ \E cred \in 1..MaxAccounts : Updated(f, cred)
    BY <1>3, RefreshedIs DEF Answered, outside
  <2>2. QED
    BY <2>1, UpdatedIsNext
<1>4. ASSUME NEW f \in Requests,
             Acquire(f) \/ Unauthorized(f) \/ AcquireAgain(f) \/ Passed(f)
      PROVE  [Next]_vars
  BY <1>4 DEF Acquire, Unauthorized, AcquireAgain, Passed, outside
<1>5. ASSUME NEW f \in Requests, RegistryStep(f) PROVE [Next]_vars
  BY <1>5 DEF RegistryStep, Next
<1>6. CASE Elsewhere
  BY <1>6 DEF Elsewhere, Next
<1>7. QED
  BY <1>1, <1>2, <1>3, <1>4, <1>5, <1>6 DEF ForwardNext, forwardVars, outside

LEMMA ForwardInitInv == ForwardInit => ForwardInv
<1> SUFFICES ASSUME ForwardInit PROVE ForwardInv
  OBVIOUS
<1>1. /\ Init /\ fw = [f \in Requests |-> Idle] /\ seedless = {} /\ Idle.stage = "idle"
  BY DEF ForwardInit, Idle
<1>2. RegistryInv
  BY <1>1, RegistryInit
<1>3. fw \in [Requests -> Locals]
  BY <1>1, IdleType
<1>4. \A f \in Requests : RequestInv(f)
  BY <1>1 DEF Init, RequestInv, HasToken
<1>5. QED
  BY <1>1, <1>2, <1>3, <1>4 DEF ForwardInv, HandlersInv

LEMMA ForwardNextInv == ForwardInv /\ [ForwardNext]_forwardVars => ForwardInv'
<1> SUFFICES ASSUME ForwardInv, [ForwardNext]_forwardVars PROVE ForwardInv'
  OBVIOUS
<1>1. RegistryInv'
  BY ForwardIsNext, RegistryNext DEF ForwardInv
<1>2. CASE UNCHANGED forwardVars
  <2>1. HandlersInv'
    BY <1>2
    DEF forwardVars, outside, vars, store, ForwardInv, HandlersInv, RequestInv, HasToken
  <2>2. QED
    BY <1>1, <2>1 DEF ForwardInv
<1>3. CASE ForwardNext
  <2>1. HandlersInv'
    BY <1>3, ReceiveKeeps, AcquireKeeps, RefreshedKeeps, AnsweredKeeps, RegistryStepKeeps,
       ElsewhereKeeps
    DEF ForwardNext
  <2>2. QED
    BY <1>1, <2>1 DEF ForwardInv
<1>4. QED
  BY <1>2, <1>3

LEMMA ForwardInvariance == ForwardSpec => []ForwardInv
  BY ForwardInitInv, ForwardNextInv, PTL DEF ForwardSpec

----------------------------------------------------------------------------
(* The theorems.                                                           *)

\* The locals of forward and the registry's state stay within their types, and a
\* request that refreshes or sends has a provider and a token.
THEOREM ForwardTypes == ForwardSpec => []ForwardTypeOK
<1>1. ForwardInv => ForwardTypeOK
  <2> SUFFICES ASSUME ForwardInv PROVE ForwardTypeOK
    OBVIOUS
  <2>1. \A f \in Requests : fw[f].stage \in Posting \cup Sent =>
                              fw[f].target # Bare /\ fw[f].cred # 0
    BY HoldsToken, StageNames, ForwardingAssumption DEF HasToken
  <2>2. QED
    BY <2>1, InvIs DEF ForwardInv, HandlersInv, ForwardTypeOK, Locals, RequestInv
<1>2. QED
  BY <1>1, ForwardInvariance, PTL

\* A request that leaves the registry, leaves it by its own step with a match.
LEMMA RoutingStep ==
  ASSUME ForwardInv, [ForwardNext]_forwardVars, NEW f \in Requests,
         fw[f].stage = "resolve", fw'[f].stage \in {"ensure", "sent"}
  PROVE  RegistryStep(f) /\ \E s \in Matches(f) : Open(f, s, account[s])
<1>1. fw \in [Requests -> Locals] /\ fw'[f] # fw[f]
  BY InvIs
<1>2. ASSUME NEW g \in Requests, Only(g) PROVE g = f
  BY <1>1, <1>2 DEF Only
<1>3. ~Elsewhere /\ ~UNCHANGED forwardVars
  BY <1>1 DEF Elsewhere, forwardVars
<1>4. PICK g \in Requests :
        \/ \E prefix \in Slugs \cup {Bare}, name \in Names : Receive(g, prefix, name)
        \/ Acquire(g) \/ Refreshed(g) \/ Unauthorized(g) \/ AcquireAgain(g)
        \/ RefreshedAgain(g) \/ Passed(g) \/ RegistryStep(g)
  BY <1>3 DEF ForwardNext
<1>5. g = f
  BY <1>1, <1>4
  DEF Receive, Acquire, Refreshed, Unauthorized, AcquireAgain, RefreshedAgain, Passed,
      RegistryStep, Answered, Open, Send, Stay, End
<1>6. RegistryStep(f)
  BY <1>4, <1>5, StageNames
  DEF Receive, Acquire, Refreshed, Unauthorized, AcquireAgain, RefreshedAgain, Passed
<1>7. ~End(f)
  BY <1>1, EndIs
<1>8. QED
  BY <1>1, <1>6, <1>7 DEF RegistryStep

\* A bare name is routed with the token whose account's list has it, across the
\* fetches the lookup waits for and whatever becomes of the accounts meanwhile, unless
\* an earlier one came back while its list was fetched.
THEOREM RoutesByList == ForwardSpec => RoutedByItsList
<1>1. ASSUME ForwardInv, ForwardInv', [ForwardNext]_forwardVars, NEW f \in Requests,
             fw[f].stage = "resolve", fw'[f].stage \in {"ensure", "sent"},
             ~cache'[fw'[f].target].back, account'[fw'[f].target] = seed'[fw'[f].target]
      PROVE  /\ cache'[fw'[f].target].owner = <<fw'[f].cred, version>>
             /\ fw[f].name \in cache'[fw'[f].target].models
  <2>1. PICK s \in Matches(f) : Open(f, s, account[s])
    BY <1>1, RoutingStep
  <2>2. Enter(f) \/ Finish(f)
    BY <1>1, RoutingStep DEF RegistryStep
  <2>3. /\ TypeOK /\ CacheInv' /\ fw \in [Requests -> Locals]
        /\ UNCHANGED <<store, version>>
    BY <1>1, <2>2, InvIs DEF ForwardInv, RegistryInv, Enter, Finish
  <2>4. s \in Slugs /\ s \in Listed' /\ account[s] # 0 /\ account[s] \in 0..MaxAccounts
    BY <2>2, <2>3, MatchIsAttached DEF TypeOK
  <2>5. fw'[f].target = s /\ fw'[f].cred = account[s]
    BY <2>1, <2>3, <2>4, OpenIs
  <2>6. fw[f].name \in cache'[s].models
    BY <2>1 DEF Matches, Routed
  <2>7. Owned(cache[s])' /\ cache'[s].ctx = Context(s) /\ Context(s) # None
    BY <2>3, <2>4 DEF CacheInv, OwnerInv, Listed, Bound, Context, store
  <2>8. Context(s) = <<seed[s], version>> /\ account[s] = seed[s]
    BY <1>1, <2>3, <2>4, <2>5, ContextIs DEF store
  <2>9. QED
    BY <1>1, <2>5, <2>6, <2>7, <2>8 DEF Owned
<1>2. ForwardInv /\ ForwardInv' /\ [ForwardNext]_forwardVars =>
        [\A f \in Requests :
           fw[f].stage = "resolve" /\ fw'[f].stage \in {"ensure", "sent"} =>
             LET s == fw'[f].target IN
             ~cache'[s].back /\ account'[s] = seed'[s] =>
               /\ cache'[s].owner = <<fw'[f].cred, version>>
               /\ fw[f].name \in cache'[s].models]_forwardVars
  BY <1>1
<1>3. QED
  BY <1>2, ForwardInvariance, PTL DEF ForwardSpec, RoutedByItsList

\* The token of an attempt, by the step that makes it.
LEMMA AttemptStep ==
  ASSUME ForwardInv, [ForwardNext]_forwardVars, NEW f \in Requests, Attempts(f)
  PROVE  \/ account'[fw'[f].target] \in {0, fw'[f].cred}
         \/ fw[f].stage = "post" /\ account' = account
<1>1. fw \in [Requests -> Locals] /\ fw'[f] # fw[f] /\ fw'[f].stage \in Sent
      /\ \A s \in Slugs : account[s] \in 0..MaxAccounts
  BY InvIs, Numbers DEF Attempts
<1>2. PICK g \in Requests :
        \/ \E prefix \in Slugs \cup {Bare}, name \in Names : Receive(g, prefix, name)
        \/ Acquire(g) \/ Refreshed(g) \/ Unauthorized(g) \/ AcquireAgain(g)
        \/ RefreshedAgain(g) \/ Passed(g) \/ RegistryStep(g)
  BY <1>1 DEF ForwardNext, Elsewhere, forwardVars
<1>3. g = f
  BY <1>1, <1>2
  DEF Receive, Acquire, Refreshed, Unauthorized, AcquireAgain, RefreshedAgain, Passed,
      RegistryStep, Answered, Open, Send, Stay, End
\* An answer of the vault is presented as it is.
<1>4. ASSUME NEW s \in Slugs, Open(f, s, account[s]), UNCHANGED store
      PROVE  account'[fw'[f].target] \in {0, fw'[f].cred}
  BY <1>1, <1>4, OpenIs DEF store
<1>5. ~End(f)
  BY <1>1, EndIs, StageNames
<1>6. CASE \E prefix \in Slugs \cup {Bare}, name \in Names : Receive(f, prefix, name)
  <2>1. PICK prefix \in Slugs \cup {Bare}, name \in Names : Receive(f, prefix, name)
    BY <1>6
  <2>2. fw' # [fw EXCEPT ![f] = [Idle EXCEPT !.stage = "resolve", !.name = name,
                                             !.attached = Attached]]
    BY <1>1, ResolveIs, StageNames
  <2>3. PICK s \in Direct(prefix) : Open(f, s, account[s]) /\ UNCHANGED outside
    BY <2>1, <2>2 DEF Receive
  <2>4. s \in Slugs
    BY DEF Direct, Attached
  <2>5. QED
    BY <1>4, <2>3, <2>4 DEF outside, vars
<1>7. CASE RegistryStep(f)
  <2>1. /\ Enter(f) \/ Finish(f)
        /\ fw' # fw
    BY <1>1, <1>7 DEF RegistryStep
  <2>2. PICK s \in Matches(f) : Open(f, s, account[s])
    BY <1>5, <1>7, <2>1 DEF RegistryStep
  <2>3. s \in Slugs /\ UNCHANGED store
    BY <2>1, InvIs, MatchIsAttached DEF Enter, Finish
  <2>4. QED
    BY <1>4, <2>2, <2>3
\* What a request waited for, it takes from the vault, unless that is empty.
<1>8. CASE Acquire(f) \/ AcquireAgain(f)
  <2>1. HasToken(f) /\ account' = account /\ "sent" \in Sent /\ "resent" \in Sent
    BY <1>8, StageNames DEF Acquire, AcquireAgain, HasToken, outside, vars, store
  <2>2. /\ fw[f].target \in Slugs /\ Current(f) \in 0..MaxAccounts
        /\ account[fw[f].target] # 0 => Current(f) = account[fw[f].target]
    BY <2>1, CurrentIs
  <2>3. \/ \E stage \in Sent : Send(f, fw[f].target, Current(f), stage)
        \/ \E stage \in Posting, cred \in {Current(f), fw[f].cred} : Stay(f, stage, cred)
    BY <1>8, <2>1, StageNames DEF Acquire, AcquireAgain
  <2>4. ~\E stage \in Posting, cred \in {Current(f), fw[f].cred} : Stay(f, stage, cred)
    <3>1. ASSUME NEW stage \in Posting, NEW cred, Stay(f, stage, cred) PROVE FALSE
      BY <1>1, <3>1, StageNames DEF Stay, Locals
    <3>2. QED
      BY <3>1
  <2>5. PICK stage \in Sent : Send(f, fw[f].target, Current(f), stage)
    BY <2>3, <2>4
  <2>6. fw'[f].target = fw[f].target /\ fw'[f].cred = Current(f)
    BY <1>1, <2>2, <2>5, SendIs
  <2>7. QED
    BY <2>1, <2>2, <2>6
\* What a request has refreshed, it has written, but for a refused refresh.
<1>9. CASE Refreshed(f) \/ RefreshedAgain(f)
  <2>1. /\ fw[f].target \in Slugs /\ fw[f].cred \in 0..MaxAccounts
        /\ fw[f].stage \in Posting /\ "sent" \in Sent
    BY <1>9, StageNames, RefreshedIs, HoldsToken DEF HasToken
  <2>2. CASE /\ fw[f].stage = "post" /\ UNCHANGED outside
    BY <2>2 DEF outside, vars, store
  <2>3. ASSUME NEW stage \in Sent, Answered(f, stage)
        PROVE  account'[fw'[f].target] = fw'[f].cred
    <3>1. PICK cred \in 1..MaxAccounts : /\ Updated(f, cred)
                                         /\ Send(f, fw[f].target, cred, stage)
      BY <1>5, <2>3 DEF Answered
    <3>2. cred \in 0..MaxAccounts
      BY Numbers
    <3>3. fw'[f].target = fw[f].target /\ fw'[f].cred = cred
      BY <1>1, <2>1, <3>1, <3>2, SendIs
    <3>4. account' = [account EXCEPT ![fw[f].target] = cred] /\ DOMAIN account = Slugs
      BY <2>1, <3>1, UpdatedIs, InvIs DEF TypeOK
    <3>5. QED
      BY <2>1, <3>3, <3>4
  <2>4. QED
    BY <1>5, <1>9, <2>2, <2>3, RefreshedIs
<1>10. CASE Unauthorized(f) \/ Passed(f)
  <2>1. Stay(f, "reauth", fw[f].cred)
    BY <1>5, <1>10 DEF Unauthorized, Passed
  <2>2. fw'[f].stage = "reauth"
    BY <1>1, <2>1 DEF Stay, Locals
  <2>3. QED
    BY <1>1, <2>2, StageNames
<1>11. QED
  BY <1>2, <1>3, <1>6, <1>7, <1>8, <1>9, <1>10

\* Whatever is attached while a request looks up its model, waits or refreshes, each
\* attempt presents the vault's token; after a refused refresh, the one it had.
THEOREM PresentsWhatVaultHas == ForwardSpec => PresentsVaultToken
<1>1. ForwardInv /\ [ForwardNext]_forwardVars =>
        [\A f \in Requests :
           Attempts(f) => \/ account'[fw'[f].target] \in {0, fw'[f].cred}
                          \/ fw[f].stage = "post" /\ account' = account]_forwardVars
  BY AttemptStep
<1>2. QED
  BY <1>1, ForwardInvariance, PTL DEF ForwardSpec, PresentsVaultToken

\* Whatever requests route, refresh and resend, and whatever their refreshes write
\* over or put back in the vault, the registry sees no behaviour that ModelRegistry
\* does not have.
THEOREM ForwardingImplementsRegistry == ForwardSpec => ImplementsRegistry
<1>1. ForwardInit => Init
  BY DEF ForwardInit
<1>2. ForwardInv /\ [ForwardNext]_forwardVars => [Next]_vars
  BY ForwardIsNext
<1>3. QED
  BY <1>1, <1>2, ForwardInvariance, PTL DEF ForwardSpec, ImplementsRegistry, Spec

\* So the registry's promises survive those refreshes: a list is still only served
\* for the account it was fetched with,
THEOREM ForwardServesOnlyItsAccount == ForwardSpec => ServesAttachedAccount
  BY ForwardingImplementsRegistry, ServesOnlyItsAccount DEF ImplementsRegistry

\* last-good lists are kept as long as their account stays attached,
THEOREM ForwardKeepsLastGood == ForwardSpec => KeepsLastGood
  BY ForwardingImplementsRegistry, LastGoodIsKept DEF ImplementsRegistry

\* and a provider is asked for its models when it is due, and only then.
THEOREM ForwardAsksWhenDue == ForwardSpec => AsksOnlyWhenDue /\ AsksWhenDue
  BY ForwardingImplementsRegistry, AsksOnlyDue, AsksDue DEF ImplementsRegistry
=============================================================================
