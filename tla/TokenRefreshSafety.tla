------------------------- MODULE TokenRefreshSafety -------------------------
(***************************************************************************)
(* Proof that Inv is an invariant of TokenRefresh, and of what follows     *)
(* from it: no token is replayed, the attach file wins, reading the files  *)
(* again changes nothing, no token comes back, and a refresh is atomic:    *)
(* TokenRefresh implements AtomicRotation.                                 *)
(*                                                                         *)
(* The argument is one slug at a time: Inv says nothing that relates two   *)
(* slugs, and everything it says of a slug is void once the slug is.  Most *)
(* steps leave the store alone and move only a request (Quiet, below); the *)
(* three that do not are the end of a refresh, the writer of the attach    *)
(* file, and _load, which runs in a reload and in a restart.               *)
(***************************************************************************)
EXTENDS TokenRefreshProofs, Integers

\* The requests of which the provider has taken a rotation that the store has
\* not; they are what Settled depends on besides live.
Rotates(q, s) == answer[q] = "rotated" /\ target[q] = s

\* A step that settles nothing and takes no new rotation, where it matters.
SettledSame ==
  \A s \in Slugs \ Void', c \in 0..MaxChains : Settled(s, c)' = Settled(s, c)

----------------------------------------------------------------------------
(* Who is rotating what.                                                   *)

\* Two requests that have POSTed for one provider are one.
LEMMA SoloPost ==
  ASSUME TypeOK, LockInv, NEW q \in Requests, NEW r \in Requests,
         pc[q] \in Posting, pc[r] \in Posting, target[q] = target[r]
  PROVE  q = r
BY DEF TypeOK, LockInv

\* So the only rotation under way for a provider is that of the lock's holder.
LEMMA RotatingOne ==
  ASSUME TypeInv, LockInv, NEW r \in Requests, pc[r] \in Posting, NEW c
  PROVE  Rotating(target[r], c) <=> answer[r] = "rotated" /\ ask[r].chain = c
<1>1. ASSUME NEW q \in Requests, answer[q] = "rotated", target[q] = target[r]
      PROVE  q = r
  BY <1>1, SoloPost DEF TypeInv, RotationsBounded
<1>2. QED
  BY <1>1 DEF Rotating

LEMMA SettledKept ==
  ASSUME NEW s \in Slugs, live'[s] = live[s],
         \A q \in Requests :
           /\ Rotates(q, s)' <=> Rotates(q, s)
           /\ Rotates(q, s) => ask'[q].chain = ask[q].chain
  PROVE  \A c : Settled(s, c)' = Settled(s, c)
<1>1. SUFFICES ASSUME NEW c PROVE Settled(s, c)' = Settled(s, c)
  OBVIOUS
<1>2. Rotating(s, c)' <=> Rotating(s, c)
  BY DEF Rotating, Rotates
<1>3. QED
  BY <1>2 DEF Settled

\* What a request in flight has POSTed is the vault's entry, of a real chain.
LEMMA PostOfVault ==
  ASSUME TypeInv, Inv, NEW r \in Requests, pc[r] \in Posting,
         target[r] \notin Void
  PROVE  /\ ask[r] = mem.prov[target[r]]
         /\ ask[r].chain = mem.seed[target[r]]
         /\ ask[r].chain \in Chains
<1>1. target[r] \in Slugs /\ ask[r] \in Cred
  BY DEF TypeInv, TypeOK
<1>2. /\ ask[r] = mem.prov[target[r]]
      /\ ask[r].chain = mem.seed[target[r]]
  BY DEF Inv, RequestInv, PostsVault, Void
<1>3. mem.seed[target[r]] # 0
  BY DEF Inv, RequestInv, InFlightAttached, Void, Posting
<1>4. QED
  BY <1>1, <1>2, <1>3, CredentialsAssumption DEF Cred, Chains

\* A chain the vault does not hold is not being rotated.
LEMMA NotRotated ==
  ASSUME TypeInv, Inv, NEW s \in Slugs \ Void, NEW c \in 0..MaxChains,
         c # mem.seed[s], live[s][c] = 0
  PROVE  Settled(s, c) = 0
<1>1. ~Rotating(s, c)
  <2>1. SUFFICES ASSUME NEW q \in Requests, answer[q] = "rotated", target[q] = s,
                        ask[q].chain = c
                 PROVE  FALSE
    BY DEF Rotating
  <2>2. pc[q] \in Posting
    BY <2>1 DEF TypeInv, RotationsBounded
  <2>3. ask[q].chain = mem.seed[s]
    BY <2>1, <2>2 DEF Inv, RequestInv, PostsVault, Void
  <2>4. QED
    BY <2>1, <2>3
<1>2. QED
  BY <1>1 DEF Settled

----------------------------------------------------------------------------
(* Steps that leave the store alone.                                       *)

store == <<file, minted, disk, mem, synced, unsaved, crossed>>

LEMMA StoreKept ==
  ASSUME StoreInv, UNCHANGED store, spoiled \subseteq spoiled'
  PROVE  StoreInv'
<1> USE DEF store, StoreInv
<1>1. AnchoredInv'
  BY DEF AnchoredInv, Anchored
<1>2. MintedInv' /\ SyncedSeeds'
  BY DEF MintedInv, SyncedSeeds
<1>3. DiskFollows'
  BY DEF DiskFollows, Resumed
<1>4. QED
  BY <1>1, <1>2, <1>3

\* Nothing rotates and nothing is revoked, but perhaps in a slug that is void.
LEMMA ServerKept ==
  ASSUME TypeOK, ServerInv, UNCHANGED store, spoiled \subseteq spoiled',
         SettledSame,
         \A s \in Slugs \ Void', c \in Chains :
           <<s, c>> \in reused' => <<s, c>> \in reused
  PROVE  ServerInv'
<1> USE DEF store, ServerInv, SettledSame
<1>1. Void \subseteq Void'
  BY DEF Void
<1> mem.seed \in [Slugs -> 0..MaxChains] /\ disk.seed \in [Slugs -> 0..MaxChains]
  BY DEF TypeOK, Image
<1>2. VaultHonoured'
  BY <1>1 DEF VaultHonoured
<1>3. DiskHonoured'
  BY <1>1 DEF DiskHonoured
<1>4. Unrotated'
  BY <1>1 DEF Unrotated, Untouched
<1>5. NoTokenReplay'
  BY <1>1 DEF NoTokenReplay, Void
<1>6. QED
  BY <1>2, <1>3, <1>4, <1>5

\* What has to be said of the one request a step moves.
RequestOK(r) ==
  /\ pc[r] # "idle" /\ target[r] \notin crossed => mem.seed[target[r]] # 0
  /\ pc[r] \in Posting =>
       /\ target[r] \notin crossed => ask[r].chain = mem.seed[target[r]]
       /\ target[r] \notin Void => ask[r] = mem.prov[target[r]]

LEMMA RequestStep ==
  ASSUME RequestInv, UNCHANGED store, spoiled \subseteq spoiled',
         NEW r \in Requests,
         \A q \in Requests \ {r} :
           pc'[q] = pc[q] /\ target'[q] = target[q] /\ ask'[q] = ask[q],
         RequestOK(r)'
  PROVE  RequestInv'
<1>1. \A q \in Requests : RequestOK(q)
  BY DEF RequestOK, RequestInv, InFlightAttached, PostsVault
<1>2. ASSUME NEW q \in Requests \ {r} PROVE RequestOK(q)'
  BY <1>1, <1>2 DEF RequestOK, store, Void
<1>3. \A q \in Requests : RequestOK(q)'
  BY <1>2
<1>4. QED
  BY <1>3 DEF RequestOK, RequestInv, InFlightAttached, PostsVault

\* One request moves; if it is, or becomes, the one that rotates a slug, then
\* that slug is void now.
LEMMA QuietStep ==
  ASSUME TypeInv, Inv, LockInv', UNCHANGED <<store, live>>,
         spoiled \subseteq spoiled',
         NEW r \in Requests,
         \A q \in Requests \ {r} :
           /\ pc'[q] = pc[q] /\ target'[q] = target[q]
           /\ ask'[q] = ask[q] /\ answer'[q] = answer[q],
         RequestOK(r)',
         \A s \in Slugs \ Void' :
           /\ Rotates(r, s)' <=> Rotates(r, s)
           /\ Rotates(r, s) => ask'[r].chain = ask[r].chain
           /\ \A c \in Chains : <<s, c>> \in reused' => <<s, c>> \in reused
  PROVE  Inv' /\ SettledSame
<1>1. StoreInv'
  BY StoreKept DEF Inv
<1>2. RequestInv'
  BY RequestStep DEF Inv
<1>3. ASSUME NEW s \in Slugs \ Void' PROVE \A c : Settled(s, c)' = Settled(s, c)
  <2>1. ASSUME NEW q \in Requests
        PROVE  /\ Rotates(q, s)' <=> Rotates(q, s)
               /\ Rotates(q, s) => ask'[q].chain = ask[q].chain
    BY DEF Rotates
  <2>2. QED
    BY <2>1, SettledKept
<1>4. SettledSame
  BY <1>3 DEF SettledSame
<1>5. ServerInv'
  BY <1>4, ServerKept DEF Inv, TypeInv
<1>6. QED
  BY <1>1, <1>2, <1>4, <1>5 DEF Inv

\* A slug of which the vault has an entry is attached.
LEMMA EntryIsAttached ==
  ASSUME Inv, NEW s \in Slugs \ crossed
  PROVE  mem.prov[s] # NoCred <=> mem.seed[s] # 0
BY CredentialsAssumption
DEF Inv, StoreInv, AnchoredInv, Anchored, NoCred

LEMMA InvArrive ==
  ASSUME TypeInv, Inv, LockInv', NEW r \in Requests, NEW s \in Slugs, Arrive(r, s)
  PROVE  Inv' /\ SettledSame
<1>1. /\ pc \in [Requests -> PCs] /\ target \in [Requests -> Slugs]
      /\ ask \in [Requests -> Cred] /\ answer[r] = "none"
  BY DEF TypeInv, TypeOK, RotationsBounded, Arrive, Posting, Answers
<1>2. /\ mem.prov[s] # NoCred
      /\ target' = [target EXCEPT ![r] = s]
      /\ \/ ask' = ask /\ \E x \in {"send", "waitE"} : pc' = [pc EXCEPT ![r] = x]
         \/ /\ ask' = [ask EXCEPT ![r] = mem.prov[s]]
            /\ pc' = [pc EXCEPT ![r] = "postE"]
      /\ UNCHANGED <<store, live, reused, spoiled, answer>>
  BY DEF Arrive, store, files, server, history
<1>3. RequestOK(r)'
  <2>1. s \notin crossed => mem.seed[s] # 0 /\ mem.prov[s].chain = mem.seed[s]
    BY <1>2, EntryIsAttached DEF Inv, StoreInv, AnchoredInv, Anchored
  <2>2. target'[r] = s /\ (pc'[r] \in Posting => ask'[r] = mem.prov[s])
    BY <1>1, <1>2 DEF Posting
  <2>3. QED
    BY <1>2, <2>1, <2>2 DEF RequestOK, store, Void
<1>4. QED
  BY <1>1, <1>2, <1>3, QuietStep DEF Rotates

LEMMA InvAcquire ==
  ASSUME TypeInv, Inv, LockInv', NEW r \in Requests, AcquireE(r) \/ AcquireR(r)
  PROVE  Inv' /\ SettledSame
<1>1. /\ pc \in [Requests -> PCs] /\ target \in [Requests -> Slugs]
      /\ ask \in [Requests -> Cred] /\ answer \in [Requests -> Answers]
      /\ pc[r] \in {"waitE", "waitR"} /\ answer[r] = "none"
  BY DEF TypeInv, TypeOK, RotationsBounded, AcquireE, AcquireR, Posting, Answers
<1>2. /\ target' = target
      /\ \/ /\ ask' = ask /\ answer' = answer
            /\ \E x \in {"send", "resend"} : pc' = [pc EXCEPT ![r] = x]
         \/ /\ ask' = [ask EXCEPT ![r] = Current(r)]
            /\ answer' = [answer EXCEPT ![r] = "none"]
            /\ \E x \in Posting : pc' = [pc EXCEPT ![r] = x]
      /\ UNCHANGED <<store, live, reused, spoiled>>
  BY DEF AcquireE, AcquireR, StartRefresh, Posting, store, files, server, history
<1>3. RequestOK(r)'
  <2>1. target[r] \notin crossed =>
          /\ mem.seed[target[r]] # 0
          /\ Current(r) = mem.prov[target[r]]
          /\ Current(r).chain = mem.seed[target[r]]
    BY <1>1, EntryIsAttached
    DEF Inv, StoreInv, AnchoredInv, Anchored, RequestInv, InFlightAttached, Current
  <2>2. pc'[r] \in Posting => ask'[r] = Current(r)
    BY <1>1, <1>2 DEF Posting
  <2>3. QED
    BY <1>2, <2>1, <2>2 DEF RequestOK, store, Void
<1>4. QED
  BY <1>1, <1>2, <1>3, QuietStep DEF Rotates

LEMMA InvGivenUp ==
  ASSUME TypeInv, Inv, LockInv', NEW r \in Requests, Refused(r) \/ GiveUp(r)
  PROVE  Inv' /\ SettledSame
<1>1. /\ pc \in [Requests -> PCs] /\ ask \in [Requests -> Cred]
      /\ answer \in [Requests -> Answers]
      /\ pc[r] \in Posting /\ answer[r] # "rotated"
  BY DEF TypeInv, TypeOK, Refused, GiveUp
<1>2. /\ UNCHANGED <<store, live, reused, spoiled, target>>
      /\ ask' = [ask EXCEPT ![r] = NoCred]
      /\ answer' = [answer EXCEPT ![r] = "none"]
      /\ \E x \in {"idle", "send"} : pc' = [pc EXCEPT ![r] = x]
  BY DEF Refused, GiveUp, Leave, store, files, server, history
<1>3. RequestOK(r)'
  BY <1>1, <1>2
  DEF RequestOK, Posting, store, Inv, RequestInv, InFlightAttached
<1>4. QED
  BY <1>1, <1>2, <1>3, QuietStep DEF Rotates

LEMMA InvUpstream ==
  ASSUME TypeInv, Inv, LockInv', NEW r \in Requests, Finish(r) \/ Unauthorized(r)
  PROVE  Inv' /\ SettledSame
<1>1. pc \in [Requests -> PCs] /\ pc[r] \in {"send", "resend"}
  BY DEF TypeInv, TypeOK, Finish, Unauthorized
<1>2. /\ UNCHANGED <<store, live, reused, spoiled, target, ask, answer>>
      /\ \E x \in {"idle", "waitR"} : pc' = [pc EXCEPT ![r] = x]
  BY DEF Finish, Unauthorized, End, store, files, server, history
<1>3. RequestOK(r)'
  BY <1>1, <1>2
  DEF RequestOK, Posting, store, Inv, RequestInv, InFlightAttached
<1>4. QED
  BY <1>1, <1>2, <1>3, QuietStep DEF Rotates

\* A POST in flight gets an answer that is not a new pair, or loses it.
LEMMA InvAnswer ==
  ASSUME TypeInv, Inv, LockInv', NEW r \in Requests, pc[r] \in Posting,
         UNCHANGED <<store, live, pc, target, ask>>, spoiled \subseteq spoiled',
         NEW a \in Answers, a # "rotated",
         answer' = [answer EXCEPT ![r] = a],
         answer[r] = "rotated" => target[r] \in spoiled',
         \A s \in Slugs \ Void, c \in Chains :
           <<s, c>> \in reused' => <<s, c>> \in reused
  PROVE  Inv' /\ SettledSame
<1>1. answer \in [Requests -> Answers] /\ target \in [Requests -> Slugs]
  BY DEF TypeInv, TypeOK
<1>2. Void \subseteq Void'
  BY DEF Void, store
<1>3. RequestOK(r)'
  BY <1>2 DEF RequestOK, store, Inv, RequestInv, InFlightAttached, PostsVault
<1>4. \A s \in Slugs \ Void' : Rotates(r, s)' <=> Rotates(r, s)
  BY <1>1 DEF Rotates, Void
<1>5. QED
  BY <1>1, <1>2, <1>3, <1>4, QuietStep

\* A pending POST presents a token the provider honours, unless the slug is
\* void: this is where a replay would happen.
LEMMA PostIsHonoured ==
  ASSUME TypeInv, Inv, NEW r \in Requests, Pending(r), target[r] \notin Void
  PROVE  Honoured(r)
<1>1. pc[r] \in Posting /\ answer[r] = "none" /\ target[r] \in Slugs
  BY DEF Pending, TypeInv, TypeOK
<1>2. /\ ask[r] = mem.prov[target[r]]
      /\ ask[r].chain = mem.seed[target[r]]
      /\ ask[r].chain \in Chains
  BY <1>1, PostOfVault
<1>3. ~Rotating(target[r], ask[r].chain)
  BY <1>1, RotatingOne DEF Inv
<1>4. live[target[r]][ask[r].chain] = ask[r].rt
  BY <1>1, <1>2, <1>3 DEF Inv, ServerInv, VaultHonoured, Settled
<1>5. <<target[r], ask[r].chain>> \notin reused
  BY <1>1, <1>2 DEF Inv, ServerInv, NoTokenReplay, Void
<1>6. QED
  BY <1>4, <1>5 DEF Honoured

LEMMA InvEndpoint ==
  ASSUME TypeInv, Inv, LockInv', NEW r \in Requests,
         AnswerKept(r) \/ AnswerDenied(r) \/ AnswerError(r) \/ Lose(r) \/ Repost(r)
  PROVE  Inv' /\ SettledSame
<1>1. ASSUME AnswerDenied(r), NEW s \in Slugs \ Void, NEW c \in Chains,
             <<s, c>> \in reused'
      PROVE  <<s, c>> \in reused
  BY <1>1, PostIsHonoured DEF AnswerDenied
<1>2. /\ pc[r] \in Posting
      /\ UNCHANGED <<store, live, pc, target, ask>>
      /\ spoiled \subseteq spoiled'
      /\ \E a \in Answers \ {"rotated"} : answer' = [answer EXCEPT ![r] = a]
      /\ answer[r] = "rotated" => target[r] \in spoiled'
      /\ AnswerDenied(r) \/ reused' = reused
  BY DEF AnswerKept, AnswerDenied, AnswerError, Lose, Repost, Pending, Answers,
     store, files, server, history
<1>3. QED
  BY <1>1, <1>2, InvAnswer

\* A new pair: the provider moves on, and the answer under way says so.
LEMMA InvAnswerRotated ==
  ASSUME TypeInv, Inv, LockInv', NEW r \in Requests, AnswerRotated(r)
  PROVE  Inv' /\ SettledSame
<1>1. /\ pc[r] \in Posting /\ answer[r] = "none"
      /\ target[r] \in Slugs /\ ask[r].chain \in 0..MaxChains
      /\ answer \in [Requests -> Answers]
      /\ live \in [Slugs -> [0..MaxChains -> Gens]]
  BY DEF AnswerRotated, Pending, TypeInv, TypeOK, Cred
<1>2. /\ UNCHANGED <<store, pc, target, ask, reused, spoiled>>
      /\ answer' = [answer EXCEPT ![r] = "rotated"]
      /\ live' = [live EXCEPT ![target[r]][ask[r].chain] = @ + 1]
  BY DEF AnswerRotated, store, files, history
<1>3. \A s \in Slugs : \A c : Rotating(s, c)' <=>
        Rotating(s, c) \/ (s = target[r] /\ c = ask[r].chain)
  BY <1>1, <1>2 DEF Rotating
<1>4. \A c : ~Rotating(target[r], c)
  BY <1>1, RotatingOne DEF Inv
<1>5. ASSUME NEW s \in Slugs, NEW c \in 0..MaxChains
      PROVE  Settled(s, c)' = Settled(s, c)
  <2>1. CASE s = target[r] /\ c = ask[r].chain
    <3>1. live'[s][c] = live[s][c] + 1
      BY <1>1, <1>2, <2>1
    <3>2. live[s][c] \in Nat
      BY <1>1, CredentialsAssumption DEF Gens
    <3>3. QED
      BY <1>3, <1>4, <2>1, <3>1, <3>2 DEF Settled
  <2>2. CASE s # target[r] \/ c # ask[r].chain
    <3>1. live'[s][c] = live[s][c]
      BY <1>1, <1>2, <2>2
    <3>2. QED
      BY <1>3, <2>2, <3>1 DEF Settled
  <2>3. QED
    BY <2>1, <2>2
<1>6. StoreInv'
  BY <1>2, StoreKept DEF Inv
<1>7. RequestInv'
  BY <1>2 DEF Inv, RequestInv, InFlightAttached, PostsVault, Void, store
<1>8. SettledSame
  BY <1>5 DEF SettledSame
<1>9. ServerInv'
  BY <1>2, <1>8, ServerKept DEF Inv, TypeInv
<1>10. QED
  BY <1>6, <1>7, <1>8, <1>9 DEF Inv

\* Expiry, and the watch being armed, touch none of this.
LEMMA InvAside ==
  ASSUME TypeInv, Inv, LockInv', UNCHANGED <<store, reqs, server, spoiled>>
  PROVE  Inv' /\ SettledSame
<1>1. StoreInv'
  BY StoreKept DEF Inv
<1>2. RequestInv'
  BY DEF Inv, RequestInv, InFlightAttached, PostsVault, Void, store, reqs
<1>3. SettledSame
  BY DEF SettledSame, Settled, Rotating, reqs, server
<1>4. ServerInv'
  BY <1>3, ServerKept DEF Inv, TypeInv, server
<1>5. QED
  BY <1>1, <1>2, <1>3, <1>4 DEF Inv

----------------------------------------------------------------------------
(* The end of a refresh: update and _persist.                              *)

\* What it does to the store: the vault has the new pair, and the runtime file
\* has the vault, or the slug is known not to have been saved.
LEMMA RefreshedStore ==
  ASSUME TypeInv, NEW r \in Requests, Refreshed(r)
  PROVE  /\ mem' \in Image /\ mem'.seed = mem.seed
         /\ mem'.prov[target[r]] = NewCred(r)
         /\ \A t \in Slugs \ {target[r]} : mem'.prov[t] = mem.prov[t]
         /\ \/ disk' = mem' /\ unsaved' = {} /\ spoiled' = spoiled \cup Dropped
            \/ disk' = disk /\ unsaved' = unsaved \cup {target[r]} /\ spoiled' = spoiled
         /\ UNCHANGED <<file, minted, synced, crossed, live, reused>>
         /\ Void \subseteq Void'
<1>1. target[r] \in Slugs /\ mem.prov \in [Slugs -> Cred]
  BY DEF TypeInv, TypeOK, Image
<1>2. mem' = [prov |-> [mem.prov EXCEPT ![target[r]] = NewCred(r)],
              seed |-> mem.seed]
  BY DEF Refreshed
<1>3. mem' \in Image
  BY TypeRefreshed DEF TypeInv, TypeOK
<1>4. QED
  BY <1>1, <1>2, <1>3 DEF Refreshed, Saved, server, Void

\* ... and to the request, which leaves the lock.
LEMMA RefreshedRequest ==
  ASSUME TypeInv, NEW r \in Requests, Refreshed(r)
  PROVE  /\ pc[r] \in Posting /\ answer[r] \in {"rotated", "kept"}
         /\ pc'[r] \notin Posting /\ answer'[r] = "none" /\ target' = target
         /\ \A q \in Requests \ {r} : /\ pc'[q] = pc[q] /\ ask'[q] = ask[q]
                                      /\ answer'[q] = answer[q]
<1>1. /\ pc \in [Requests -> PCs] /\ ask \in [Requests -> Cred]
      /\ answer \in [Requests -> Answers]
  BY DEF TypeInv, TypeOK
<1>2. /\ \E x \in {"idle", "send", "resend"} : pc' = [pc EXCEPT ![r] = x]
      /\ ask' = [ask EXCEPT ![r] = NoCred]
      /\ answer' = [answer EXCEPT ![r] = "none"]
      /\ pc[r] \in Posting /\ answer[r] \in {"rotated", "kept"}
      /\ target' = target
  BY DEF Refreshed, Leave
<1>3. QED
  BY <1>1, <1>2 DEF Posting

\* The new pair is of the chain that was POSTed, one rotation on if the provider
\* has rotated.
LEMMA NewCredFields ==
  ASSUME TypeInv, NEW r \in Requests
  PROVE  /\ NewCred(r).chain = ask[r].chain /\ NewCred(r).at = ask[r].at + 1
         /\ NewCred(r).rt = IF answer[r] = "rotated" THEN ask[r].rt + 1 ELSE ask[r].rt
BY DEF NewCred, Rotated, Kept

\* It settles what the rotation owed, and nothing else.
LEMMA RefreshedSettles ==
  ASSUME TypeInv, LockInv, NEW r \in Requests, Refreshed(r), NEW s \in Slugs,
         NEW c \in 0..MaxChains
  PROVE  Settled(s, c)' =
           IF s = target[r] /\ answer[r] = "rotated" /\ c = ask[r].chain
             THEN Settled(s, c) + 1 ELSE Settled(s, c)
<1>1. live' = live
  BY RefreshedStore
<1>2. CASE s # target[r]
  <2>1. ASSUME NEW q \in Requests
        PROVE  /\ Rotates(q, s)' <=> Rotates(q, s)
               /\ Rotates(q, s) => ask'[q].chain = ask[q].chain
    BY <1>2, RefreshedRequest DEF Rotates
  <2>2. \A x : Settled(s, x)' = Settled(s, x)
    <3>1. live'[s] = live[s]
      BY <1>1
    <3>2. QED
      BY <2>1, <3>1, SettledKept
  <2>3. QED
    BY <1>2, <2>2
<1>3. CASE s = target[r]
  <2>1. Rotating(s, c) <=> answer[r] = "rotated" /\ ask[r].chain = c
    BY <1>3, RotatingOne, RefreshedRequest
  <2>2. ~Rotating(s, c)'
    <3>1. ASSUME NEW q \in Requests, answer[q] = "rotated", target[q] = s PROVE q = r
      BY <1>3, <3>1, SoloPost, RefreshedRequest DEF TypeInv, RotationsBounded
    <3>2. \A q \in Requests : ~(answer'[q] = "rotated" /\ target'[q] = s)
      BY <3>1, RefreshedRequest
    <3>3. QED
      BY <3>2 DEF Rotating
  <2>3. live[s][c] \in Nat
    BY CredentialsAssumption DEF TypeInv, TypeOK, Gens
  <2>4. QED
    BY <1>1, <1>3, <2>1, <2>2, <2>3 DEF Settled
<1>4. QED
  BY <1>2, <1>3

LEMMA RefreshedKeepsStore ==
  ASSUME TypeInv, Inv, NEW r \in Requests, Refreshed(r)
  PROVE  StoreInv'
<1> DEFINE s == target[r]
<1>0. s \in Slugs /\ pc[r] \in Posting
  BY RefreshedRequest DEF TypeInv, TypeOK
<1>1. s \notin crossed => /\ NewCred(r).chain = mem.seed[s]
                         /\ mem.seed[s] # 0
  BY <1>0, NewCredFields
  DEF Inv, RequestInv, PostsVault, InFlightAttached, Posting
<1>2. AnchoredInv'
  <2>1. \A t \in Slugs \ crossed : Anchored(mem', t)
    BY <1>1, RefreshedStore DEF Inv, StoreInv, AnchoredInv, Anchored
  <2>2. \A t \in Slugs \ crossed : Anchored(disk', t)
    BY <2>1, RefreshedStore DEF Inv, StoreInv, AnchoredInv, Anchored
  <2>3. QED
    BY <2>1, <2>2, RefreshedStore DEF AnchoredInv, Anchored
<1>3. MintedInv'
  BY RefreshedStore DEF Inv, StoreInv, MintedInv
<1>4. SyncedSeeds'
  BY RefreshedStore DEF Inv, StoreInv, SyncedSeeds
<1>5. DiskFollows'
  BY RefreshedStore DEF Inv, StoreInv, DiskFollows, Resumed
<1>6. QED
  BY <1>2, <1>3, <1>4, <1>5 DEF StoreInv

LEMMA RefreshedKeepsRequests ==
  ASSUME TypeInv, Inv, NEW r \in Requests, Refreshed(r)
  PROVE  RequestInv'
<1>1. InFlightAttached'
  BY RefreshedStore, RefreshedRequest
  DEF Inv, RequestInv, InFlightAttached, Posting
<1>2. ASSUME NEW q \in Requests, pc'[q] \in Posting
      PROVE  q # r /\ target[q] \in Slugs \ {target[r]} /\ pc[q] \in Posting
  BY <1>2, RefreshedRequest, SoloPost DEF Inv, TypeInv, TypeOK
<1>3. PostsVault'
  BY <1>2, RefreshedStore, RefreshedRequest
  DEF Inv, RequestInv, PostsVault, Void
<1>4. QED
  BY <1>1, <1>3 DEF RequestInv

LEMMA RefreshedKeepsServer ==
  ASSUME TypeInv, Inv, NEW r \in Requests, Refreshed(r)
  PROVE  ServerInv'
<1> DEFINE s == target[r]
<1>0. /\ s \in Slugs /\ pc[r] \in Posting /\ Void \subseteq Void'
      /\ mem.seed \in [Slugs -> 0..MaxChains] /\ mem.prov \in [Slugs -> Cred]
      /\ disk.seed \in [Slugs -> 0..MaxChains]
  BY RefreshedRequest, RefreshedStore DEF TypeInv, TypeOK, Image, Void
<1>1. s \notin Void => ask[r] = mem.prov[s] /\ ask[r].chain = mem.seed[s]
                       /\ mem.seed[s] # 0
  BY <1>0, PostOfVault DEF Chains
<1>2. VaultHonoured'
  <2>1. ASSUME NEW t \in Slugs \ Void
        PROVE  Settled(t, mem.seed[t])' = mem'.prov[t].rt
    <3>1. Settled(t, mem.seed[t]) = mem.prov[t].rt
      BY DEF Inv, ServerInv, VaultHonoured
    <3>2. \A c \in 0..MaxChains : Settled(t, c)' =
            IF t = s /\ answer[r] = "rotated" /\ c = ask[r].chain
              THEN Settled(t, c) + 1 ELSE Settled(t, c)
      BY RefreshedSettles DEF Inv
    <3>3. mem'.seed = mem.seed
      BY RefreshedStore
    <3>4. CASE t = s
      BY <1>0, <1>1, <3>1, <3>2, <3>3, <3>4, RefreshedStore, NewCredFields
    <3>5. CASE t # s
      BY <1>0, <3>1, <3>2, <3>3, <3>5, RefreshedStore
    <3>6. QED
      BY <3>4, <3>5
  <2>2. QED
    BY <1>0, <2>1 DEF VaultHonoured
<1>3. DiskHonoured'
  <2>1. CASE disk' = mem'
    BY <1>2, <2>1 DEF VaultHonoured, DiskHonoured
  <2>2. CASE disk' = disk /\ unsaved' = unsaved \cup {s}
    <3>1. \A t \in Slugs \ {s}, c \in 0..MaxChains : Settled(t, c)' = Settled(t, c)
      BY RefreshedSettles DEF Inv
    <3>2. QED
      BY <1>0, <2>2, <3>1 DEF Inv, ServerInv, DiskHonoured
  <2>3. QED
    BY <2>1, <2>2, RefreshedStore
<1>4. Unrotated'
  <2>1. ASSUME NEW t \in Slugs \ Void', NEW c \in 0..MaxChains,
               c = 0 \/ Untouched(t, c)'
        PROVE  Settled(t, c) = 0
    <3>1. /\ file.content[t] \in Nat /\ minted[t] \in Nat /\ disk.seed[t] \in Nat
          /\ t \in Slugs \ Void
      BY <1>0 DEF TypeInv, TypeOK, AttachFile
    <3>2. CASE c = 0 \/ Untouched(t, c)
      BY <3>1, <3>2 DEF Inv, ServerInv, Unrotated
    <3>3. CASE c # 0 /\ ~Untouched(t, c)
      <4>1. disk' = mem' /\ spoiled' = spoiled \cup Dropped
            /\ c = disk.seed[t] /\ c # mem.seed[t]
        BY <2>1, <3>3, RefreshedStore DEF Untouched
      <4>2. c = file.content[t]
        BY <2>1, <3>1, <3>3, <4>1, RefreshedStore
        DEF Untouched, Inv, StoreInv, MintedInv
      <4>3. live[t][c] = 0
        BY <3>1, <4>1, <4>2 DEF Dropped, Void
      <4>4. QED
        BY <3>1, <4>1, <4>3, NotRotated
    <3>4. QED
      BY <3>2, <3>3
  <2>2. ASSUME NEW t \in Slugs \ Void', NEW c \in 0..MaxChains,
               c = 0 \/ Untouched(t, c)'
        PROVE  Settled(t, c)' = 0
    <3>1. Settled(t, c) = 0
      BY <2>1, <2>2
    <3>2. ~(t = s /\ c = ask[r].chain)
      BY <1>0, <1>1, <2>2, RefreshedStore DEF Untouched
    <3>3. QED
      BY <3>1, <3>2, RefreshedSettles DEF Inv
  <2>3. QED
    BY <1>0, <2>2 DEF Unrotated
<1>5. NoTokenReplay'
  BY RefreshedStore DEF Inv, ServerInv, NoTokenReplay, Void
<1>6. QED
  BY <1>2, <1>3, <1>4, <1>5 DEF ServerInv

LEMMA InvRefreshed ==
  ASSUME TypeInv, Inv, LockInv', NEW r \in Requests, Refreshed(r)
  PROVE  Inv'
BY RefreshedKeepsStore, RefreshedKeepsRequests, RefreshedKeepsServer DEF Inv

----------------------------------------------------------------------------
(* The writer of the attach file.                                          *)

\* The attachment of a slug is kept, dropped, new, or an old chain that comes back:
\* then its rotated token can be found, or the slug is spoiled.
LEMMA WriterEffect ==
  ASSUME TypeInv, AttachWriter
  PROVE  /\ UNCHANGED <<disk, mem, reqs, server, unsaved, crossed>>
         /\ spoiled \subseteq spoiled' /\ spoiled' \subseteq Slugs
         /\ synced' => synced /\ file' = file
         /\ \A s \in Slugs :
              \/ /\ minted'[s] = minted[s]
                 /\ file'.content[s] \in {0, file.content[s]}
              \/ /\ minted'[s] = minted[s] + 1
                 /\ file'.content[s] = minted[s] + 1
              \/ /\ minted'[s] = minted[s] /\ file'.content[s] = minted[s]
                 /\ Gone(s) => s \in spoiled'
<1>1. CASE \E on, fresh \in SUBSET Slugs : AttachWrite(on, fresh)
  <2>1. PICK on \in SUBSET Slugs, fresh \in SUBSET Slugs : AttachWrite(on, fresh)
    BY <1>1
  <2>2. \A s \in Slugs :
          /\ minted'[s] = IF s \in fresh THEN minted[s] + 1 ELSE minted[s]
          /\ file'.content[s] = IF s \in fresh THEN minted[s] + 1
                                ELSE IF s \in on THEN minted[s] ELSE 0
    BY <2>1 DEF AttachWrite
  <2>3. spoiled' = spoiled \cup {s \in on \ fresh : Gone(s)} /\ spoiled \subseteq Slugs
    BY <2>1 DEF AttachWrite, TypeInv, TypeOK
  <2>4. /\ UNCHANGED <<disk, mem, reqs, server, unsaved, crossed>>
        /\ synced' => synced /\ file' = file
    BY <2>1 DEF AttachWrite
  <2>5. QED
    BY <2>2, <2>3, <2>4
<1>2. CASE \/ \E health \in {"unreadable", "malformed"} : AttachBreak(health)
           \/ AttachRemove
  BY <1>2 DEF AttachBreak, AttachRemove, TypeInv, TypeOK
<1>3. QED
  BY <1>1, <1>2 DEF AttachWriter

LEMMA InvWriter ==
  ASSUME TypeInv, Inv, LockInv', AttachWriter
  PROVE  Inv' /\ SettledSame
<1>0. /\ file.content \in [Slugs -> 0..MaxChains]
      /\ minted \in [Slugs -> 0..MaxChains]
      /\ mem.seed \in [Slugs -> 0..MaxChains]
      /\ disk.seed \in [Slugs -> 0..MaxChains]
      /\ Void \subseteq Void'
  BY WriterEffect DEF TypeInv, TypeOK, AttachFile, Image, Void
<1>1. AnchoredInv' /\ DiskFollows'
  BY WriterEffect DEF Inv, StoreInv, AnchoredInv, Anchored, DiskFollows, Resumed
<1>2. MintedInv'
  BY <1>0, WriterEffect DEF Inv, StoreInv, MintedInv
<1>3. SyncedSeeds'
  BY WriterEffect DEF Inv, StoreInv, SyncedSeeds
<1>4. RequestInv'
  BY <1>0, WriterEffect DEF Inv, RequestInv, InFlightAttached, PostsVault, reqs
<1>5. \A s \in Slugs : \A c : Settled(s, c)' = Settled(s, c)
  BY WriterEffect DEF Settled, Rotating, reqs, server
<1>6. VaultHonoured' /\ DiskHonoured'
  BY <1>0, <1>5, WriterEffect DEF Inv, ServerInv, VaultHonoured, DiskHonoured
<1>7. ASSUME NEW s \in Slugs \ Void', NEW c \in 0..MaxChains,
             c = 0 \/ Untouched(s, c)'
      PROVE  Settled(s, c) = 0
  <2>1. s \in Slugs \ Void /\ s \notin spoiled'
    BY <1>0, <1>7 DEF Void
  <2>2. CASE c = 0 \/ Untouched(s, c)
    BY <2>1, <2>2 DEF Inv, ServerInv, Unrotated
  <2>3. CASE c # 0 /\ ~Untouched(s, c)
    <3>1. c # mem.seed[s] /\ c # disk.seed[s] /\ c # file.content[s] /\ c <= minted[s]
      BY <1>0, <1>7, <2>3, WriterEffect DEF Untouched
    <3>2. c = minted[s] /\ ~Gone(s)
      BY <1>0, <1>7, <2>1, <2>3, <3>1, WriterEffect DEF Untouched
    <3>3. live[s][c] = 0
      BY <3>1, <3>2 DEF Gone
    <3>4. QED
      BY <2>1, <3>1, <3>3, NotRotated
  <2>4. QED
    BY <2>2, <2>3
<1>8. Unrotated'
  BY <1>5, <1>7 DEF Unrotated
<1>9. NoTokenReplay'
  BY <1>0, WriterEffect DEF Inv, ServerInv, NoTokenReplay, server, Void
<1>10. SettledSame
  BY <1>5 DEF SettledSame
<1>11. QED
  BY <1>1, <1>2, <1>3, <1>4, <1>6, <1>8, <1>9, <1>10 DEF Inv, StoreInv, ServerInv

----------------------------------------------------------------------------
(* _load, in a reload and in a restart.                                    *)

\* The merge rule, one slug at a time: the seed comes from the file that could
\* be read, and the entry follows the seed.
LEMMA LoadEntry ==
  ASSUME TypeInv, Inv, NEW s \in Slugs
  PROVE  /\ Load(file, disk).seed[s] =
              IF file.health = "ok" THEN file.content[s] ELSE disk.seed[s]
         /\ s \notin crossed =>
              /\ Load(file, disk).prov[s] = Resumed(s, Load(file, disk).seed[s])
              /\ Anchored(Load(file, disk), s)
<1>1. s \notin crossed => Anchored(disk, s)
  BY DEF Inv, StoreInv, AnchoredInv
<1>2. file.content \in [Slugs -> 0..MaxChains]
  BY DEF TypeInv, TypeOK, AttachFile
<1>3. CASE file.health = "ok"
  <2>1. Load(file, disk).seed[s] = file.content[s]
    BY <1>2, <1>3 DEF Load, Merge
  <2>2. Load(file, disk).prov[s] =
          IF file.content[s] # 0 /\ ChainAlive(s, file.content[s], disk)
            THEN disk.prov[s] ELSE Attached(file.content[s])
    BY <1>3 DEF Load, Merge
  <2>3. QED
    BY <1>1, <1>3, <2>1, <2>2 DEF ChainAlive, Resumed, Anchored, Attached, NoCred
<1>4. CASE file.health # "ok"
  BY <1>1, <1>4 DEF Load, Resumed
<1>5. QED
  BY <1>3, <1>4

LEMMA ResumedFields ==
  ASSUME NEW s, NEW c
  PROVE  /\ disk.seed[s] = c => Resumed(s, c) = disk.prov[s]
         /\ disk.seed[s] # c => Resumed(s, c).rt = 0 /\ Resumed(s, c).at = 0
BY DEF Resumed, Attached

\* What a reload and a restart have in common.
Loaded ==
  /\ mem' = Load(file, disk) /\ synced' = TRUE
  /\ unsaved' = {} /\ spoiled \cup unsaved \subseteq spoiled'
  /\ crossed \subseteq crossed'
  /\ UNCHANGED <<file, minted, disk, live, reused>>

LEMMA LoadedStore ==
  ASSUME TypeInv, Inv, Loaded
  PROVE  StoreInv'
<1>1. AnchoredInv'
  BY LoadEntry DEF Loaded, Inv, StoreInv, AnchoredInv, Anchored
<1>2. MintedInv'
  BY LoadEntry DEF Loaded, Inv, StoreInv, MintedInv
<1>3. SyncedSeeds'
  BY LoadEntry DEF Loaded, SyncedSeeds
<1>4. DiskFollows'
  BY LoadEntry DEF Loaded, DiskFollows, Resumed
<1>5. QED
  BY <1>1, <1>2, <1>3, <1>4 DEF StoreInv

LEMMA LoadedServer ==
  ASSUME TypeInv, Inv, Loaded, SettledSame
  PROVE  ServerInv'
<1>0. /\ file.content \in [Slugs -> 0..MaxChains]
      /\ minted \in [Slugs -> 0..MaxChains]
      /\ mem.seed \in [Slugs -> 0..MaxChains]
      /\ disk.seed \in [Slugs -> 0..MaxChains]
  BY DEF TypeInv, TypeOK, AttachFile, Image
<1>1. Void \cup unsaved \subseteq Void'
  BY DEF Loaded, Void
<1>2. ASSUME NEW s \in Slugs \ Void'
      PROVE  /\ Settled(s, mem.seed[s]) = mem.prov[s].rt
             /\ Settled(s, disk.seed[s]) = disk.prov[s].rt
             /\ \A c \in 0..MaxChains : c = 0 \/ Untouched(s, c) => Settled(s, c) = 0
             /\ mem.prov[s] = Resumed(s, mem.seed[s])
             /\ mem'.prov[s] = Resumed(s, mem'.seed[s])
             /\ mem'.seed[s] = IF file.health = "ok" THEN file.content[s]
                               ELSE disk.seed[s]
  <2>1. s \notin Void /\ s \notin unsaved /\ s \notin crossed
    BY <1>1 DEF Void
  <2>2. QED
    BY <2>1, LoadEntry
    DEF Inv, StoreInv, ServerInv, VaultHonoured, DiskHonoured, Unrotated,
        DiskFollows, Loaded
<1>3. ASSUME NEW s \in Slugs \ Void'
      PROVE  Settled(s, mem'.seed[s]) = mem'.prov[s].rt
  <2>1. CASE mem'.seed[s] = disk.seed[s]
    BY <1>2, <2>1 DEF Resumed
  <2>2. CASE mem'.seed[s] # disk.seed[s]
    <3>1. mem'.prov[s].rt = 0 /\ mem'.seed[s] = file.content[s]
      BY <1>2, <2>2, ResumedFields
    <3>2. CASE mem'.seed[s] = mem.seed[s]
      BY <1>2, <2>2, <3>1, <3>2, ResumedFields
    <3>3. CASE mem'.seed[s] # mem.seed[s]
      BY <1>0, <1>2, <2>2, <3>1, <3>3 DEF Untouched
    <3>4. QED
      BY <3>2, <3>3
  <2>3. QED
    BY <2>1, <2>2
<1>4. mem'.seed \in [Slugs -> 0..MaxChains]
  BY LoadType DEF Loaded, TypeInv, TypeOK, Image
<1>5. VaultHonoured'
  BY <1>3, <1>4 DEF VaultHonoured, SettledSame
<1>6. DiskHonoured'
  BY <1>0, <1>2 DEF DiskHonoured, Loaded, SettledSame
<1>7. ASSUME NEW s \in Slugs \ Void', NEW c \in 0..MaxChains, Untouched(s, c)'
      PROVE  Settled(s, c) = 0
  <2>1. c # disk.seed[s] /\ (c = file.content[s] \/ c > minted[s]) /\ c # mem'.seed[s]
    BY <1>7 DEF Untouched, Loaded
  <2>2. CASE c = mem.seed[s]
    BY <1>2, <2>1, <2>2, ResumedFields
  <2>3. CASE c # mem.seed[s]
    BY <1>2, <2>1, <2>3 DEF Untouched
  <2>4. QED
    BY <2>2, <2>3
<1>8. Unrotated'
  BY <1>2, <1>7 DEF Unrotated, SettledSame
<1>9. NoTokenReplay'
  BY DEF Loaded, Inv, ServerInv, NoTokenReplay
<1>10. QED
  BY <1>5, <1>6, <1>8, <1>9 DEF ServerInv

LEMMA InvReload ==
  ASSUME TypeInv, Inv, LockInv', Reload
  PROVE  Inv' /\ SettledSame
<1>1. CASE ~Loadable
  BY <1>1, InvAside DEF Reload, store, files, history
<1>2. CASE Loadable
  <2>1. /\ Loaded /\ UNCHANGED <<pc, target, ask, answer>>
        /\ crossed' = crossed \cup Crossing(mem')
    BY <1>2 DEF Reload, Loaded, files, reqs, server
  <2>2. SettledSame
    BY <2>1 DEF SettledSame, Loaded, Settled, Rotating
  <2>3. StoreInv' /\ ServerInv'
    BY <2>1, <2>2, LoadedStore, LoadedServer
  <2>4. ASSUME NEW q \in Requests, pc[q] # "idle", target[q] \notin crossed'
        PROVE  \/ mem'.seed[target[q]] = mem.seed[target[q]]
               \/ pc[q] \notin Posting /\ mem'.prov[target[q]] # NoCred
    BY <2>1, <2>4 DEF Crossing, InFlight, TypeInv, TypeOK
  <2>5. target \in [Requests -> Slugs]
    BY DEF TypeInv, TypeOK
  <2>6. InFlightAttached'
    <3>1. ASSUME NEW q \in Requests, pc[q] # "idle", target[q] \notin crossed'
          PROVE  mem'.seed[target[q]] # 0
      <4>1. Anchored(mem, target[q])' /\ mem.seed[target[q]] # 0
        BY <2>1, <2>3, <2>5, <3>1
        DEF StoreInv, AnchoredInv, Loaded, Inv, RequestInv, InFlightAttached
      <4>2. QED
        BY <2>1, <2>4, <3>1, <4>1 DEF Anchored
    <3>2. QED
      BY <2>1, <3>1 DEF InFlightAttached
  <2>7. PostsVault'
    <3>1. ASSUME NEW q \in Requests, pc[q] \in Posting, target[q] \notin crossed'
          PROVE  /\ target[q] \notin crossed
                 /\ mem'.seed[target[q]] = mem.seed[target[q]]
                 /\ ask[q].chain = mem.seed[target[q]]
      BY <2>1, <2>4, <3>1 DEF Inv, RequestInv, PostsVault, Posting
    <3>2. ASSUME NEW q \in Requests, pc[q] \in Posting, target[q] \notin Void'
          PROVE  ask[q] = mem'.prov[target[q]]
      <4>1. /\ target[q] \notin Void \cup unsaved
            /\ mem'.seed[target[q]] = mem.seed[target[q]]
        BY <2>1, <3>1, <3>2 DEF Void, Loaded
      <4>2. ask[q] = mem.prov[target[q]]
        BY <3>2, <4>1 DEF Inv, RequestInv, PostsVault
      <4>3. mem.prov[target[q]] = Resumed(target[q], mem.seed[target[q]])
        BY <2>5, <4>1 DEF Inv, StoreInv, DiskFollows, Void
      <4>4. mem'.prov[target[q]] = Resumed(target[q], mem'.seed[target[q]])
        BY <2>1, <2>5, <4>1, LoadEntry DEF Loaded, Void
      <4>5. QED
        BY <4>1, <4>2, <4>3, <4>4
    <3>3. QED
      BY <2>1, <3>1, <3>2 DEF PostsVault, Void
  <2>8. QED
    BY <2>2, <2>3, <2>6, <2>7 DEF Inv, RequestInv
<1>3. QED
  BY <1>1, <1>2

LEMMA RestartLoads ==
  ASSUME Restart
  PROVE  /\ Loaded
         /\ \A s \in Slugs \ spoiled' : \A c :
              ~Rotating(s, c) /\ ~Rotating(s, c)' /\ Settled(s, c)' = Settled(s, c)
<1>1. Loaded
  BY DEF Restart, Loaded, files, server
<1>2. ASSUME NEW s \in Slugs \ spoiled', NEW c
      PROVE  ~Rotating(s, c) /\ ~Rotating(s, c)'
  <2>1. \A q \in Requests : answer[q] = "rotated" => target[q] \in spoiled'
    BY DEF Restart
  <2>2. \A q \in Requests : answer'[q] = "none"
    BY DEF Restart
  <2>3. QED
    BY <2>1, <2>2 DEF Rotating
<1>3. QED
  BY <1>1, <1>2 DEF Settled, Loaded

LEMMA InvRestart ==
  ASSUME TypeInv, Inv, LockInv', Restart
  PROVE  Inv' /\ SettledSame
<1>1. StoreInv'
  BY RestartLoads, LoadedStore
<1>2. SettledSame
  BY RestartLoads DEF SettledSame, Void
<1>3. ServerInv'
  BY <1>2, RestartLoads, LoadedServer
<1>4. RequestInv'
  BY DEF Restart, RequestInv, InFlightAttached, PostsVault, Posting
<1>5. QED
  BY <1>1, <1>2, <1>3, <1>4 DEF Inv

----------------------------------------------------------------------------
(* The invariant.                                                          *)

LEMMA InvInit == Init => Inv
<1> SUFFICES ASSUME Init PROVE Inv
  OBVIOUS
<1>1. /\ disk = EmptyImage /\ minted = file.content /\ file.health = "ok"
      /\ \A s \in Slugs : file.content[s] \in {0, 1}
      /\ spoiled = {} /\ crossed = {} /\ unsaved = {}
  BY DEF Init
<1>2. \A s \in Slugs : disk.prov[s] = NoCred /\ disk.seed[s] = 0
  BY <1>1 DEF EmptyImage
<1>3. \A s \in Slugs : /\ mem.prov[s] = Attached(file.content[s])
                      /\ mem.seed[s] = file.content[s]
  <2>1. mem = Merge(file.content, disk)
    BY <1>1 DEF Init, Load
  <2>2. QED
    BY <1>1, <1>2, <2>1 DEF Merge, ChainAlive
<1>4. NoCred = Attached(0) /\ \A c : Attached(c).chain = c /\ Attached(c).rt = 0
  BY DEF NoCred, Attached
<1>5. StoreInv
  BY <1>1, <1>2, <1>3, <1>4
  DEF StoreInv, AnchoredInv, Anchored, MintedInv, SyncedSeeds, DiskFollows, Resumed
<1>6. RequestInv
  BY DEF Init, RequestInv, InFlightAttached, PostsVault, Posting
<1>7. \A s \in Slugs, c \in 0..MaxChains : Settled(s, c) = 0
  BY DEF Init, Settled, Rotating
<1>8. ServerInv
  <2>1. mem.seed \in [Slugs -> 0..MaxChains] /\ disk.seed \in [Slugs -> 0..MaxChains]
    BY TypeInit DEF TypeInv, TypeOK, Image
  <2>2. \A s \in Slugs : disk.prov[s].rt = 0 /\ mem.prov[s].rt = 0
    BY <1>2, <1>3, <1>4
  <2>3. NoTokenReplay
    BY DEF Init, NoTokenReplay
  <2>4. QED
    BY <1>7, <2>1, <2>2, <2>3 DEF ServerInv, VaultHonoured, DiskHonoured, Unrotated
<1>9. QED
  BY <1>5, <1>6, <1>8, LockInit DEF Inv

LEMMA InvNext ==
  TypeInv /\ Inv /\ [Next]_vars
    => Inv' /\ (SettledSame \/ \E r \in Requests : Refreshed(r))
<1> DEFINE Goal == Inv' /\ (SettledSame \/ \E r \in Requests : Refreshed(r))
<1> SUFFICES ASSUME TypeInv, Inv, [Next]_vars PROVE Goal
  OBVIOUS
<1>0. LockInv'
  BY LockNext DEF TypeInv, Inv
<1>1. ASSUME NEW r \in Requests, NEW s \in Slugs, Arrive(r, s) PROVE Goal
  BY <1>0, <1>1, InvArrive
<1>2. ASSUME NEW r \in Requests, Handler(r) PROVE Goal
  BY <1>0, <1>2, InvAcquire, InvRefreshed, InvGivenUp, InvUpstream, InvEndpoint
  DEF Handler
<1>3. ASSUME NEW r \in Requests, Endpoint(r) \/ Lose(r) PROVE Goal
  BY <1>0, <1>3, InvAnswerRotated, InvEndpoint DEF Endpoint
<1>4. ASSUME NEW s \in Slugs, Expire(s) PROVE Goal
  BY <1>0, <1>4, InvAside DEF Expire, store, files, history
<1>5. CASE AttachWriter \/ Reload \/ Restart
  BY <1>0, <1>5, InvWriter, InvReload, InvRestart
<1>6. CASE Arm \/ UNCHANGED vars
  BY <1>0, <1>6, InvAside DEF Arm, vars, store, files, history
<1>7. QED
  BY <1>1, <1>2, <1>3, <1>4, <1>5, <1>6 DEF Next

\* TypeCorrect's stronger form: the bounds on generations belong to it.
LEMMA Typed == Spec => []TypeInv
  BY TypeInit, TypeNext, PTL DEF Spec

\* Inv holds in every state: what the vault, the runtime file, the requests in
\* flight and the provider know of a chain fits together, in every slug whose
\* rotation was not lost and whose attachment was not changed under a refresh.
THEOREM Invariance == Spec => []Inv
  BY Typed, InvInit, InvNext, PTL DEF Spec

----------------------------------------------------------------------------
(* What follows from it.                                                   *)

\* The refresh code of credentials.py and proxy.py never gets a chain revoked by
\* presenting a spent refresh token: a revoked chain is one whose rotated token
\* was lost before it was stored, or whose attachment changed under a refresh.
THEOREM NeverReplays == Spec => []NoTokenReplay
<1>1. Inv => NoTokenReplay
  BY DEF Inv, ServerInv
<1>2. QED
  BY <1>1, Invariance, PTL

\* _load: once the attach file has been read, its chain is the one in the vault
\* and in the seed, whatever was on disk.
THEOREM AttachDecides == Spec => []AttachWinsUnlessCrossed
<1>1. Inv => AttachWinsUnlessCrossed
  BY DEF Inv, StoreInv, AnchoredInv, Anchored, SyncedSeeds, AttachWinsUnlessCrossed
<1>2. QED
  BY <1>1, Invariance, PTL

\* reload on an unchanged file, and a clean restart, change nothing: the rotated
\* tokens are kept, through the chain seeds _persist writes.
THEOREM ReloadKeeps == Spec => []ReloadIsNoop
<1>1. TypeInv /\ Inv => ReloadIsNoop
  <2> SUFFICES ASSUME TypeInv, Inv, synced, NEW s \in Slugs \ (crossed \cup unsaved)
               PROVE  /\ Load(file, disk).prov[s] = mem.prov[s]
                      /\ Load(file, disk).seed[s] = mem.seed[s]
    BY DEF ReloadIsNoop
  <2>1. Load(file, disk).seed[s] = mem.seed[s]
    BY LoadEntry DEF Inv, StoreInv, SyncedSeeds
  <2>2. Load(file, disk).prov[s] = Resumed(s, mem.seed[s])
    BY <2>1, LoadEntry
  <2>3. QED
    BY <2>1, <2>2 DEF Inv, StoreInv, DiskFollows
<1>2. QED
  BY <1>1, Typed, Invariance, PTL

\* The steps that write the vault are the end of a refresh and _load.
LEMMA VaultSteps ==
  ASSUME [Next]_vars
  PROVE  mem' = mem \/ Loaded \/ \E r \in Requests : Refreshed(r)
<1>1. Reload => mem' = mem \/ Loaded
  BY DEF Reload, Loaded, files, server
<1>2. Restart => Loaded
  BY DEF Restart, Loaded, files, server
<1>3. ASSUME NEW r \in Requests,
             \/ (Handler(r) /\ ~Refreshed(r)) \/ Endpoint(r) \/ Lose(r)
             \/ \E s \in Slugs : Arrive(r, s)
      PROVE  mem' = mem
  BY <1>3 DEF Handler, AcquireE, AcquireR, Refused, Repost, GiveUp, Finish,
     Unauthorized, Endpoint, AnswerRotated, AnswerKept, AnswerDenied, AnswerError,
     Lose, Arrive, files
<1>4. CASE AttachWriter \/ Arm \/ (\E s \in Slugs : Expire(s)) \/ UNCHANGED vars
  BY <1>4 DEF AttachWriter, AttachWrite, AttachBreak, AttachRemove, Arm, Expire,
     files, vars
<1>5. QED
  BY <1>1, <1>2, <1>3, <1>4 DEF Next

LEMMA RollbackStep ==
  ASSUME TypeInv, TypeInv', Inv, Inv', [Next]_vars,
         NEW s \in Slugs \ (spoiled' \cup crossed'),
         mem'.prov[s].chain = mem.prov[s].chain
  PROVE  mem'.prov[s].rt >= mem.prov[s].rt /\ mem'.prov[s].at >= mem.prov[s].at
<1>1. mem.prov[s] \in Cred /\ mem'.prov[s] \in Cred
  BY DEF TypeInv, TypeOK, Image
<1>2. /\ mem.prov[s].rt \in Nat /\ mem.prov[s].at \in Nat
      /\ mem'.prov[s].rt \in Nat /\ mem'.prov[s].at \in Nat
  BY <1>1, CredentialsAssumption DEF Cred, Gens
<1>3. CASE mem' = mem
  BY <1>2, <1>3
<1>4. CASE Loaded
  <2>1. s \notin crossed /\ s \notin unsaved
    BY <1>4 DEF Loaded
  <2>2. mem.prov[s].chain = mem.seed[s] /\ mem'.prov[s].chain = mem'.seed[s]
    BY <2>1 DEF Inv, StoreInv, AnchoredInv, Anchored
  <2>3. mem.prov[s] = Resumed(s, mem.seed[s])
    BY <2>1 DEF Inv, StoreInv, DiskFollows
  <2>4. mem'.prov[s] = Resumed(s, mem'.seed[s])
    BY <1>4, <2>1, LoadEntry DEF Loaded
  <2>5. QED
    BY <1>2, <2>2, <2>3, <2>4
<1>5. ASSUME NEW r \in Requests, Refreshed(r)
      PROVE  mem'.prov[s].rt >= mem.prov[s].rt /\ mem'.prov[s].at >= mem.prov[s].at
  <2>1. CASE s # target[r]
    BY <1>2, <1>5, <2>1, RefreshedStore
  <2>2. CASE s = target[r]
    <3>1. ask[r] = mem.prov[s]
      BY <1>5, <2>2, PostOfVault, RefreshedStore, RefreshedRequest DEF Void
    <3>2. QED
      BY <1>2, <1>5, <2>2, <3>1, NewCredFields, RefreshedStore
  <2>3. QED
    BY <2>1, <2>2
<1>6. QED
  BY <1>3, <1>4, <1>5, VaultSteps

\* No reload, restart or late writer brings a replaced token back into the vault.
THEOREM NeverRollsBack == Spec => NoRollback
<1> DEFINE Forward ==
      \A s \in Slugs \ (spoiled' \cup crossed') :
        mem'.prov[s].chain = mem.prov[s].chain =>
          mem'.prov[s].rt >= mem.prov[s].rt /\ mem'.prov[s].at >= mem.prov[s].at
<1>1. TypeInv /\ TypeInv' /\ Inv /\ Inv' /\ [Next]_vars => [Forward]_vars
  BY RollbackStep
<1>2. QED
  BY <1>1, Typed, Invariance, PTL DEF Spec, NoRollback

----------------------------------------------------------------------------
(* TokenRefresh implements AtomicRotation: seen through Held and           *)
(* HonouredGen, the end of a rotating refresh is the one step in which     *)
(* proxy and provider move, and every other step takes up a token the      *)
(* provider honours, gives up the promise for a slug, or does nothing.     *)

LEMMA HeldInSlug ==
  ASSUME NEW s \in Slugs
  PROVE  /\ s \in Void => Held[s] = Atomic!Nothing
         /\ s \notin Void => /\ Held[s].chain = mem.prov[s].chain
                             /\ Held[s].gen = mem.prov[s].rt
BY DEF Held, Atomic!Nothing

LEMMA HonouredInSlug ==
  ASSUME NEW s \in Slugs, NEW c \in 0..MaxChains
  PROVE  HonouredGen[s][c] = IF s \in Void THEN 0 ELSE Settled(s, c)
BY DEF HonouredGen

LEMMA VoidGrows == [Next]_vars => Void \subseteq Void'
<1> SUFFICES ASSUME [Next]_vars PROVE Void \subseteq Void'
  OBVIOUS
<1>1. ASSUME NEW r \in Requests,
             \/ Handler(r) \/ Endpoint(r) \/ Lose(r)
             \/ \E s \in Slugs : Arrive(r, s)
      PROVE  Void \subseteq Void'
  BY <1>1 DEF Handler, AcquireE, AcquireR, Refreshed, Refused, Repost, GiveUp, Finish,
     Unauthorized, Endpoint, AnswerRotated, AnswerKept, AnswerDenied, AnswerError,
     Lose, Arrive, history, Void
<1>2. CASE \/ AttachWriter \/ Arm \/ Reload \/ Restart
           \/ (\E s \in Slugs : Expire(s)) \/ UNCHANGED vars
  BY <1>2 DEF AttachWriter, AttachWrite, AttachBreak, AttachRemove, Arm, Expire,
     Reload, Restart, history, vars, Void
<1>3. QED
  BY <1>1, <1>2 DEF Next

LEMMA RefinesInit == Init => Atomic!Init
<1> SUFFICES ASSUME Init PROVE Atomic!Init
  OBVIOUS
<1>1. Void = {}
  BY DEF Init, Void
<1>2. Inv /\ TypeInv
  BY InvInit, TypeInit
<1>3. /\ mem.seed = file.content /\ \A s \in Slugs : file.content[s] \in {0, 1}
      /\ \A s \in Slugs, c \in 0..MaxChains : Settled(s, c) = 0
      /\ file.content \in [Slugs -> 0..MaxChains] /\ mem.seed \in [Slugs -> 0..MaxChains]
  BY <1>2 DEF Init, Load, Merge, Settled, Rotating, TypeInv, TypeOK, AttachFile, Image
<1>4. ASSUME NEW s \in Slugs
      PROVE  \E c \in {0, 1} : Held[s] = [chain |-> c, gen |-> 0]
  <2>1. s \notin crossed
    BY DEF Init
  <2>2. mem.prov[s].chain = mem.seed[s] /\ mem.prov[s].rt = Settled(s, mem.seed[s])
    BY <1>1, <1>2, <2>1
    DEF Inv, StoreInv, AnchoredInv, Anchored, ServerInv, VaultHonoured
  <2>3. Held[s] = [chain |-> mem.prov[s].chain, gen |-> mem.prov[s].rt]
    BY <1>1 DEF Held
  <2>4. QED
    BY <1>3, <2>2, <2>3
<1>5. Held \in [Slugs -> {[chain |-> c, gen |-> 0] : c \in {0, 1}}]
  BY <1>4 DEF Held
<1>6. HonouredGen = [s \in Slugs |-> [c \in 0..MaxChains |-> 0]]
  BY <1>1, <1>3 DEF HonouredGen
<1>7. QED
  BY <1>1, <1>5, <1>6 DEF Atomic!Init

\* Whatever a step that settles nothing does to the store, what the vault holds
\* afterwards is honoured: it is a (perhaps empty) Attach.
LEMMA RefinesAttach ==
  ASSUME TypeInv', Inv', Void \subseteq Void', SettledSame
  PROVE  Atomic!Attach
<1>1. \A s \in Void' : Held'[s] = Atomic!Nothing
  <2>1. Void' \subseteq Slugs
    BY DEF TypeInv, TypeOK, Void
  <2>2. QED
    BY <2>1 DEF Held, Atomic!Nothing
<1>2. ASSUME NEW s \in Slugs \ Void'
      PROVE  /\ Held'[s].gen = HonouredGen[s][Held'[s].chain]
             /\ HonouredGen'[s] = HonouredGen[s]
  <2>1. mem'.seed[s] \in 0..MaxChains
    BY DEF TypeInv, TypeOK, Image
  <2>2. /\ Held'[s].chain = mem'.seed[s]
        /\ Held'[s].gen = Settled(s, mem.seed[s])'
    BY DEF Held, Void, Inv, StoreInv, AnchoredInv, Anchored, ServerInv, VaultHonoured
  <2>3. \A c \in 0..MaxChains : HonouredGen[s][c] = Settled(s, c)
    BY HonouredInSlug
  <2>4. HonouredGen'[s] = [c \in 0..MaxChains |-> Settled(s, c)']
    BY DEF HonouredGen
  <2>5. HonouredGen[s] = [c \in 0..MaxChains |-> Settled(s, c)]
    BY DEF HonouredGen
  <2>6. \A c \in 0..MaxChains : Settled(s, c)' = Settled(s, c)
    BY DEF SettledSame
  <2>7. QED
    BY <2>1, <2>2, <2>3, <2>4, <2>5, <2>6
<1>3. QED
  BY <1>1, <1>2 DEF Atomic!Attach

\* The end of a refresh whose response rotated the token.
LEMMA RefinesRotate ==
  ASSUME TypeInv, Inv, TypeInv', NEW r \in Requests, Refreshed(r),
         answer[r] = "rotated", NEW s \in Slugs, s = target[r], s \notin Void'
  PROVE  Atomic!Rotate(s)
<1>1. /\ s \in Slugs /\ s \notin Void /\ Void \subseteq Void' /\ pc[r] \in Posting
      /\ mem.prov \in [Slugs -> Cred]
  BY RefreshedRequest, RefreshedStore DEF TypeInv, TypeOK, Image
<1>2. /\ ask[r] = mem.prov[s] /\ ask[r].chain = mem.seed[s]
      /\ ask[r].chain \in 0..MaxChains /\ ask[r].chain # 0
  BY <1>1, PostOfVault DEF Chains
<1>3. mem'.prov[s].chain = mem.prov[s].chain /\ mem'.prov[s].rt = mem.prov[s].rt + 1
  BY <1>1, <1>2, NewCredFields, RefreshedStore
<1>4. Held'[s] = [Held[s] EXCEPT !.gen = @ + 1]
  <2>1. Held[s] = [chain |-> mem.prov[s].chain, gen |-> mem.prov[s].rt]
    BY <1>1 DEF Held
  <2>2. Held'[s] = [chain |-> mem'.prov[s].chain, gen |-> mem'.prov[s].rt]
    BY <1>1 DEF Held
  <2>3. QED
    BY <1>3, <2>1, <2>2
<1>5. HonouredGen'[s] = [HonouredGen[s] EXCEPT ![Held[s].chain] = @ + 1]
  <2>1. Held[s].chain = ask[r].chain
    BY <1>1, <1>2, HeldInSlug
  <2>2. HonouredGen[s] = [c \in 0..MaxChains |-> Settled(s, c)]
    BY <1>1 DEF HonouredGen
  <2>3. HonouredGen'[s] = [c \in 0..MaxChains |-> Settled(s, c)']
    BY <1>1 DEF HonouredGen
  <2>4. \A c \in 0..MaxChains :
          Settled(s, c)' = IF c = ask[r].chain THEN Settled(s, c) + 1 ELSE Settled(s, c)
    BY <1>1, RefreshedSettles DEF Inv
  <2>5. HonouredGen'[s] = [c \in 0..MaxChains |->
                             IF c = ask[r].chain THEN Settled(s, c) + 1 ELSE Settled(s, c)]
    BY <2>3, <2>4
  <2>6. ASSUME NEW f, NEW g, NEW d, f = [c \in 0..MaxChains |-> Settled(s, c)],
               g = [c \in 0..MaxChains |->
                      IF c = d THEN Settled(s, c) + 1 ELSE Settled(s, c)]
        PROVE  g = [f EXCEPT ![d] = @ + 1]
    BY <2>6
  <2>7. HonouredGen'[s] = [HonouredGen[s] EXCEPT ![ask[r].chain] = @ + 1]
    BY <2>2, <2>5, <2>6
  <2>8. QED
    BY <2>1, <2>7
<1>6. ASSUME NEW t \in Slugs \ {s}
      PROVE  IF t \in Void' THEN Held'[t] = Atomic!Nothing
             ELSE Held'[t] = Held[t] /\ HonouredGen'[t] = HonouredGen[t]
  <2>1. CASE t \in Void'
    BY <2>1 DEF Held, Atomic!Nothing
  <2>2. CASE t \notin Void'
    <3>1. t \notin Void /\ mem'.prov[t] = mem.prov[t]
      BY <1>1, <2>2, RefreshedStore
    <3>2. \A c \in 0..MaxChains : Settled(t, c)' = Settled(t, c)
      BY <1>6, RefreshedSettles DEF Inv
    <3>3. Held'[t] = Held[t]
      BY <2>2, <3>1 DEF Held
    <3>4. HonouredGen[t] = [c \in 0..MaxChains |-> Settled(t, c)]
      BY <3>1 DEF HonouredGen
    <3>5. HonouredGen'[t] = [c \in 0..MaxChains |-> Settled(t, c)']
      BY <2>2 DEF HonouredGen
    <3>6. QED
      BY <2>2, <3>2, <3>3, <3>4, <3>5
  <2>3. QED
    BY <2>1, <2>2
<1>7. Held[s].chain # 0
  BY <1>1, <1>2, HeldInSlug
<1>8. QED
  BY <1>1, <1>4, <1>5, <1>6, <1>7 DEF Atomic!Rotate

LEMMA RefinesStep ==
  ASSUME TypeInv, TypeInv', Inv, Inv', [Next]_vars
  PROVE  Atomic!Next
<1>1. Void \subseteq Void'
  BY VoidGrows
<1>2. CASE SettledSame
  BY <1>1, <1>2, RefinesAttach DEF Atomic!Next
<1>3. ASSUME NEW r \in Requests, Refreshed(r) PROVE Atomic!Next
  <2>1. CASE answer[r] = "rotated" /\ target[r] \notin Void'
    <3>1. PICK s \in Slugs : s = target[r]
      BY DEF TypeInv, TypeOK
    <3>2. Atomic!Rotate(s)
      BY <1>3, <2>1, <3>1, RefinesRotate
    <3>3. QED
      BY <3>2 DEF Atomic!Next
  <2>2. CASE ~(answer[r] = "rotated" /\ target[r] \notin Void')
    <3>1. SettledSame
      BY <1>3, <2>2, RefreshedSettles, <1>1 DEF SettledSame, Inv
    <3>2. QED
      BY <1>2, <3>1
  <2>3. QED
    BY <2>1, <2>2
<1>4. QED
  BY <1>2, <1>3, InvNext

\* The locked double check, the POST, update and _persist are, together, one
\* atomic rotation of vault and provider (AtomicRotation), for every slug whose
\* rotated token was not lost and whose attachment did not change under it.
THEOREM RefreshIsAtomic == Spec => RotatesAtomically
<1>1. TypeInv /\ TypeInv' /\ Inv /\ Inv' /\ [Next]_vars => [Atomic!Next]_Atomic!vars
  BY RefinesStep
<1>2. QED
  BY <1>1, RefinesInit, Typed, Invariance, PTL DEF Spec, RotatesAtomically, Atomic!Spec

\* The promise spelled out: the refresh token in the vault is never a spent one,
\* but for a rotation whose answer is on its way to the lock's holder.
THEOREM HoldsHonoured == Spec => []Atomic!HeldIsHonoured
<1>1. TypeInv /\ Inv => Atomic!HeldIsHonoured
  <2> SUFFICES ASSUME TypeInv, Inv, NEW s \in Slugs \ Void
               PROVE  Held[s].gen = HonouredGen[s][Held[s].chain]
    BY DEF Atomic!HeldIsHonoured
  <2>1. mem.seed[s] \in 0..MaxChains
    BY DEF TypeInv, TypeOK, Image
  <2>2. mem.prov[s].chain = mem.seed[s] /\ mem.prov[s].rt = Settled(s, mem.seed[s])
    BY DEF Void, Inv, StoreInv, AnchoredInv, Anchored, ServerInv, VaultHonoured
  <2>3. QED
    BY <2>1, <2>2, HeldInSlug, HonouredInSlug
<1>2. QED
  BY <1>1, Typed, Invariance, PTL
=============================================================================
