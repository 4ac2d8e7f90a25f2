------------------------- MODULE TokenRefreshProofs -------------------------
(***************************************************************************)
(* Proofs about TokenRefresh, for every set of providers and of requests,  *)
(* every bound and every set of hazards.                                   *)
(***************************************************************************)
EXTENDS TokenRefreshInv, TLAPS

----------------------------------------------------------------------------
(* The merge rule stays within the type of a vault.                        *)

LEMMA AttachedType ==
  ASSUME NEW c \in 0..MaxChains
  PROVE  Attached(c) \in Cred
  BY CredentialsAssumption DEF Attached, Cred, Gens

LEMMA EmptyImageType == EmptyImage \in Image
  BY CredentialsAssumption DEF EmptyImage, Image, NoCred, Cred, Gens

\* Whatever the health of the file, _load yields a vault and its seeds.
LEMMA LoadType ==
  ASSUME NEW f \in AttachFile, NEW runtime \in Image
  PROVE  Load(f, runtime) \in Image
<1>1. f.content \in [Slugs -> 0..MaxChains]
  BY DEF AttachFile
<1>2. runtime.prov \in [Slugs -> Cred]
  BY DEF Image
<1>3. Merge(f.content, runtime) \in Image
  BY <1>1, <1>2, AttachedType DEF Merge, Image
<1>4. QED
  BY <1>3 DEF Load
\* The bounds on generations guard the answers of the token endpoint, so a new
\* credential is within them only in the states those guards lead to.
RotationsBounded ==
  \A r \in Requests :
    /\ answer[r] # "none" => pc[r] \in Posting
    /\ answer[r] \in {"rotated", "kept"} => ask[r].at < MaxGen
    /\ answer[r] = "rotated" => ask[r].rt < MaxGen

TypeInv == TypeOK /\ RotationsBounded

LEMMA NewCredType ==
  ASSUME TypeInv, NEW r \in Requests, answer[r] \in {"rotated", "kept"}
  PROVE  NewCred(r) \in Cred
<1>1. ask[r] \in Cred
  BY DEF TypeInv, TypeOK
<1>2. ask[r].at + 1 \in Gens /\ (answer[r] = "rotated" => ask[r].rt + 1 \in Gens)
  BY <1>1, CredentialsAssumption DEF TypeInv, RotationsBounded, Cred, Gens
<1>3. QED
  BY <1>1, <1>2 DEF NewCred, Rotated, Kept, Cred

LEMMA CurrentType ==
  ASSUME TypeOK, NEW r \in Requests
  PROVE  Current(r) \in Cred
  BY DEF TypeOK, Current, Image

LEMMA NoCredType == NoCred \in Cred
  BY CredentialsAssumption DEF NoCred, Cred, Gens

LEMMA TypeInit == Init => TypeInv
<1> SUFFICES ASSUME Init PROVE TypeInv
  OBVIOUS
<1>1. file \in AttachFile /\ minted \in [Slugs -> 0..MaxChains]
  BY CredentialsAssumption DEF Init, AttachFile, Health
<1>2. mem \in Image /\ disk \in Image
  BY <1>1, LoadType, EmptyImageType DEF Init
<1>3. live \in [Slugs -> [0..MaxChains -> Gens]]
  BY CredentialsAssumption DEF Init, Gens
<1>4. /\ lock \in [Slugs -> Requests \cup {Free}]
      /\ pc \in [Requests -> PCs] /\ target \in [Requests -> Slugs]
      /\ mine \in [Requests -> Cred] /\ ask \in [Requests -> Cred]
      /\ answer \in [Requests -> Answers]
  BY NoCredType DEF Init, PCs, Answers
<1>5. TypeOK
  BY <1>1, <1>2, <1>3, <1>4 DEF Init, TypeOK
<1>6. QED
  BY <1>5 DEF Init, TypeInv, RotationsBounded

\* The types of the request variables, from what a step does to request r.
LEMMA RequestTypes ==
  ASSUME TypeOK, NEW r \in Requests,
         pc' = pc \/ \E x \in PCs : pc' = [pc EXCEPT ![r] = x],
         mine' = mine \/ \E c \in Cred : mine' = [mine EXCEPT ![r] = c],
         ask' = ask \/ \E c \in Cred : ask' = [ask EXCEPT ![r] = c],
         answer' = answer \/ \E a \in Answers : answer' = [answer EXCEPT ![r] = a]
  PROVE  /\ pc' \in [Requests -> PCs]
         /\ mine' \in [Requests -> Cred] /\ ask' \in [Requests -> Cred]
         /\ answer' \in [Requests -> Answers]
<1>1. /\ pc \in [Requests -> PCs]
      /\ mine \in [Requests -> Cred] /\ ask \in [Requests -> Cred]
      /\ answer \in [Requests -> Answers]
  BY DEF TypeOK
<1>2. QED
  BY <1>1

\* What a request does, one lemma per action.
LEMMA TypeArrive ==
  ASSUME TypeInv, NEW r \in Requests, NEW s \in Slugs, Arrive(r, s)
  PROVE  TypeInv'
<1>1. mem.prov[s] \in Cred
  BY DEF TypeInv, TypeOK, Image
<1>2. /\ mine' = [mine EXCEPT ![r] = mem.prov[s]]
      /\ ask' = ask \/ ask' = [ask EXCEPT ![r] = mem.prov[s]]
      /\ answer' = answer
      /\ \/ pc' = [pc EXCEPT ![r] = "send"]
         \/ pc' = [pc EXCEPT ![r] = "postE"]
         \/ pc' = [pc EXCEPT ![r] = "waitE"]
      /\ lock' = lock \/ lock' = [lock EXCEPT ![s] = r]
      /\ target' = [target EXCEPT ![r] = s]
      /\ pc[r] = "idle"
  BY DEF Arrive
<1>3. /\ pc' \in [Requests -> PCs]
      /\ mine' \in [Requests -> Cred] /\ ask' \in [Requests -> Cred]
      /\ answer' \in [Requests -> Answers]
  BY <1>1, <1>2, RequestTypes DEF TypeInv, PCs, Posting
<1>4. lock' \in [Slugs -> Requests \cup {Free}] /\ target' \in [Requests -> Slugs]
  BY <1>2 DEF TypeInv, TypeOK
<1>5. TypeOK'
  BY <1>3, <1>4 DEF Arrive, TypeInv, TypeOK, files, watch, server, history
<1>6. RotationsBounded'
  BY <1>2 DEF TypeInv, TypeOK, RotationsBounded, Posting
<1>7. QED
  BY <1>5, <1>6 DEF TypeInv
LEMMA TypeAcquire ==
  ASSUME TypeInv, NEW r \in Requests, AcquireE(r) \/ AcquireR(r)
  PROVE  TypeInv'
<1>1. Current(r) \in Cred
  BY CurrentType DEF TypeInv
<1>2. /\ mine' = mine \/ mine' = [mine EXCEPT ![r] = Current(r)]
      /\ \/ /\ UNCHANGED <<lock, ask, answer>>
            /\ pc' = [pc EXCEPT ![r] = "send"] \/ pc' = [pc EXCEPT ![r] = "resend"]
         \/ /\ lock' = [lock EXCEPT ![target[r]] = r]
            /\ pc' = [pc EXCEPT ![r] = "postE"] \/ pc' = [pc EXCEPT ![r] = "postR"]
            /\ ask' = [ask EXCEPT ![r] = Current(r)]
            /\ answer' = [answer EXCEPT ![r] = "none"]
      /\ pc[r] = "waitE" \/ pc[r] = "waitR"
  BY DEF AcquireE, AcquireR, StartRefresh
<1>3. /\ pc' \in [Requests -> PCs]
      /\ mine' \in [Requests -> Cred] /\ ask' \in [Requests -> Cred]
      /\ answer' \in [Requests -> Answers]
  BY <1>1, <1>2, RequestTypes DEF TypeInv, PCs, Posting, Answers
<1>4. lock' \in [Slugs -> Requests \cup {Free}]
  <2>1. lock' = lock \/ lock' = [lock EXCEPT ![target[r]] = r]
    BY <1>2
  <2>2. lock \in [Slugs -> Requests \cup {Free}]
    BY DEF TypeInv, TypeOK
  <2>3. QED
    BY <2>1, <2>2
<1>5. TypeOK'
  BY <1>3, <1>4 DEF AcquireE, AcquireR, TypeInv, TypeOK, files, watch, server, history
<1>6. RotationsBounded'
  BY <1>2 DEF TypeInv, TypeOK, RotationsBounded, Posting
<1>7. QED
  BY <1>5, <1>6 DEF TypeInv

\* Leaving the lock, whatever else the step does.
LEMMA TypeLeave ==
  ASSUME TypeInv, NEW r \in Requests, NEW cred \in Cred, NEW state \in PCs,
         Leave(r, cred, state)
  PROVE  /\ pc' \in [Requests -> PCs]
         /\ mine' \in [Requests -> Cred] /\ ask' \in [Requests -> Cred]
         /\ answer' \in [Requests -> Answers]
         /\ lock' \in [Slugs -> Requests \cup {Free}]
         /\ RotationsBounded'
<1>1. /\ pc' = [pc EXCEPT ![r] = state]
      /\ mine' = [mine EXCEPT ![r] = cred]
      /\ ask' = [ask EXCEPT ![r] = NoCred]
      /\ answer' = [answer EXCEPT ![r] = "none"]
      /\ lock' = [lock EXCEPT ![target[r]] = Free]
  BY DEF Leave, Released
<1>2. /\ pc' \in [Requests -> PCs]
      /\ mine' \in [Requests -> Cred] /\ ask' \in [Requests -> Cred]
      /\ answer' \in [Requests -> Answers]
  BY <1>1, NoCredType, RequestTypes DEF TypeInv, Answers
<1>3. lock' \in [Slugs -> Requests \cup {Free}]
  BY <1>1 DEF TypeInv, TypeOK
<1>4. RotationsBounded'
  BY <1>1 DEF TypeInv, TypeOK, RotationsBounded
<1>5. QED
  BY <1>2, <1>3, <1>4

LEMMA TypeRefreshed ==
  ASSUME TypeInv, NEW r \in Requests, Refreshed(r)
  PROVE  TypeInv'
<1>1. NewCred(r) \in Cred /\ NoCred \in Cred
  BY NewCredType, NoCredType DEF Refreshed
<1>2. target[r] \in Slugs
  BY DEF TypeInv, TypeOK
<1>3. mem' \in Image
  BY <1>1, <1>2 DEF Refreshed, TypeInv, TypeOK, Image
<1>4. disk' \in Image /\ unsaved' \subseteq Slugs
  BY <1>2, <1>3 DEF Refreshed, Saved, TypeInv, TypeOK
<1>5. \E cred \in Cred, state \in PCs : Leave(r, cred, state)
  BY <1>1 DEF Refreshed, PCs
<1>6. /\ pc' \in [Requests -> PCs]
      /\ mine' \in [Requests -> Cred] /\ ask' \in [Requests -> Cred]
      /\ answer' \in [Requests -> Answers]
      /\ lock' \in [Slugs -> Requests \cup {Free}]
      /\ RotationsBounded'
  BY <1>5, TypeLeave
<1>7. TypeOK'
  BY <1>3, <1>4, <1>6 DEF Refreshed, Dropped, TypeInv, TypeOK, watch, server
<1>8. QED
  BY <1>6, <1>7 DEF TypeInv

LEMMA TypeGivenUp ==
  ASSUME TypeInv, NEW r \in Requests, Refused(r) \/ GiveUp(r)
  PROVE  TypeInv'
<1>1. ask[r] \in Cred /\ NoCred \in Cred
  BY NoCredType DEF TypeInv, TypeOK
<1>2. \E cred \in Cred, state \in PCs : Leave(r, cred, state)
  BY <1>1 DEF Refused, GiveUp, PCs
<1>3. /\ pc' \in [Requests -> PCs]
      /\ mine' \in [Requests -> Cred] /\ ask' \in [Requests -> Cred]
      /\ answer' \in [Requests -> Answers]
      /\ lock' \in [Slugs -> Requests \cup {Free}]
      /\ RotationsBounded'
  BY <1>2, TypeLeave
<1>4. TypeOK'
  BY <1>3 DEF Refused, GiveUp, TypeInv, TypeOK, files, watch, server, history
<1>5. QED
  BY <1>3, <1>4 DEF TypeInv

\* The end of a request, and the steps of the upstream call.
LEMMA TypeUpstream ==
  ASSUME TypeInv, NEW r \in Requests, Finish(r) \/ Unauthorized(r)
  PROVE  TypeInv'
<1>1. /\ pc' = [pc EXCEPT ![r] = "idle"] \/ pc' = [pc EXCEPT ![r] = "waitR"]
      /\ mine' = mine \/ mine' = [mine EXCEPT ![r] = NoCred]
      /\ pc[r] \in {"send", "resend"}
      /\ UNCHANGED <<lock, target, ask, answer>>
  BY DEF Finish, Unauthorized, End
<1>2. /\ pc' \in [Requests -> PCs] /\ mine' \in [Requests -> Cred]
  BY <1>1, NoCredType, RequestTypes DEF TypeInv, PCs
<1>3. TypeOK'
  BY <1>1, <1>2 DEF Finish, Unauthorized, TypeInv, TypeOK, files, watch, server, history
<1>4. RotationsBounded'
  BY <1>1 DEF TypeInv, TypeOK, RotationsBounded, Posting
<1>5. QED
  BY <1>3, <1>4 DEF TypeInv
\* The token endpoint and the network: only the answer under way changes, with
\* the server's own state.
LEMMA TypeAnswer ==
  ASSUME TypeInv, NEW r \in Requests, Endpoint(r) \/ Lose(r) \/ Repost(r)
  PROVE  TypeInv'
<1>1. /\ \E a \in Answers : answer' = [answer EXCEPT ![r] = a]
      /\ pc[r] \in Posting
      /\ UNCHANGED <<lock, pc, target, mine, ask>>
  BY DEF Endpoint, AnswerRotated, AnswerKept, AnswerDenied, AnswerError, Pending,
     Lose, Repost, Answers
<1>2. answer' \in [Requests -> Answers]
  BY <1>1, RequestTypes DEF TypeInv
<1>3. RotationsBounded'
  <2>1. /\ answer'[r] \in {"rotated", "kept"} => ask[r].at < MaxGen
        /\ answer'[r] = "rotated" => ask[r].rt < MaxGen
    BY DEF Endpoint, AnswerRotated, AnswerKept, AnswerDenied, AnswerError, Lose,
       Repost, TypeInv, TypeOK
  <2>2. QED
    BY <1>1, <2>1 DEF TypeInv, TypeOK, RotationsBounded
<1>4. live' \in [Slugs -> [0..MaxChains -> Gens]]
  <2>1. CASE AnswerRotated(r)
    <3>1. ask[r] \in Cred /\ target[r] \in Slugs
      BY DEF TypeInv, TypeOK
    <3>2. live[target[r]] \in [0..MaxChains -> Gens]
      BY <3>1 DEF TypeInv, TypeOK
    <3>3. live[target[r]][ask[r].chain] + 1 \in Gens
      BY <2>1, <3>1, <3>2, CredentialsAssumption
      DEF AnswerRotated, Honoured, Cred, Gens
    <3>4. QED
      BY <2>1, <3>1, <3>2, <3>3 DEF AnswerRotated, TypeInv, TypeOK
  <2>2. CASE UNCHANGED live
    BY <2>2 DEF TypeInv, TypeOK
  <2>3. QED
    BY <2>1, <2>2 DEF Endpoint, AnswerKept, AnswerDenied, AnswerError, Lose, Repost,
       server
<1>5. reused' \subseteq Slugs \X (0..MaxChains)
  <2>1. <<target[r], ask[r].chain>> \in Slugs \X (0..MaxChains)
    BY DEF TypeInv, TypeOK, Cred
  <2>2. reused' = reused \/ reused' = reused \cup {<<target[r], ask[r].chain>>}
    BY DEF Endpoint, AnswerRotated, AnswerKept, AnswerDenied, AnswerError, Lose,
       Repost, server
  <2>3. QED
    BY <2>1, <2>2 DEF TypeInv, TypeOK
<1>6. spoiled' \subseteq Slugs
  BY DEF Endpoint, AnswerRotated, AnswerKept, AnswerDenied, AnswerError, Lose,
     Repost, history, TypeInv, TypeOK
<1>7. UNCHANGED <<files, mem, watch, stale, synced, unsaved, crossed>>
  BY DEF Endpoint, AnswerRotated, AnswerKept, AnswerDenied, AnswerError, Lose,
     Repost, history
<1>8. TypeOK'
  BY <1>1, <1>2, <1>4, <1>5, <1>6, <1>7 DEF TypeInv, TypeOK, files, watch
<1>9. QED
  BY <1>3, <1>8 DEF TypeInv

LEMMA TypeExpire ==
  ASSUME TypeInv, NEW s \in Slugs, Expire(s)
  PROVE  TypeInv'
<1>1. mem.prov[s] \in Cred
  BY DEF TypeInv, TypeOK, Image
<1>2. stale' \subseteq Tokens
  BY <1>1 DEF Expire, Token, Tokens, Cred, TypeInv, TypeOK
<1>3. TypeOK' /\ RotationsBounded'
  BY <1>2 DEF Expire, TypeInv, TypeOK, RotationsBounded, files, watch, reqs,
     server, history
<1>4. QED
  BY <1>3 DEF TypeInv

\* The writer of the attach file.
LEMMA TypeWriter ==
  ASSUME TypeInv, AttachWriter
  PROVE  TypeInv'
<1>1. CASE \E on, fresh \in SUBSET Slugs : AttachWrite(on, fresh)
  <2>1. PICK on \in SUBSET Slugs, fresh \in SUBSET Slugs : AttachWrite(on, fresh)
    BY <1>1
  <2>2. minted \in [Slugs -> 0..MaxChains] /\ file.content \in [Slugs -> 0..MaxChains]
    BY DEF TypeInv, TypeOK, AttachFile
  <2>3. \A s \in fresh : minted[s] + 1 \in 0..MaxChains
    BY <2>1, <2>2, CredentialsAssumption DEF AttachWrite
  <2>4. minted' \in [Slugs -> 0..MaxChains]
    BY <2>1, <2>2, <2>3 DEF AttachWrite
  <2>5. file' \in AttachFile
    <3>1. [s \in Slugs |-> IF s \in fresh THEN minted[s] + 1
                           ELSE IF s \in on THEN minted[s] ELSE 0]
            \in [Slugs -> 0..MaxChains]
      BY <2>2, <2>3, CredentialsAssumption
    <3>2. QED
      BY <2>1, <3>1 DEF AttachWrite, AttachFile, Health
  <2>6. QED
    BY <2>1, <2>4, <2>5 DEF AttachWrite, TypeInv, TypeOK, RotationsBounded, reqs, server
<1>2. CASE \E health \in {"unreadable", "malformed"} : AttachBreak(health)
  <2>1. file' \in AttachFile
    BY <1>2 DEF AttachBreak, TypeInv, TypeOK, AttachFile, Health
  <2>2. QED
    BY <1>2, <2>1 DEF AttachBreak, TypeInv, TypeOK, RotationsBounded, reqs, server
<1>3. CASE AttachRemove
  <2>1. file' \in AttachFile
    BY <1>3 DEF AttachRemove, TypeInv, TypeOK, AttachFile, Health
  <2>2. QED
    BY <1>3, <2>1 DEF AttachRemove, TypeInv, TypeOK, RotationsBounded, watch, reqs, server
<1>4. QED
  BY <1>1, <1>2, <1>3 DEF AttachWriter

LEMMA TypeWatcher ==
  ASSUME TypeInv, Arm \/ Reload
  PROVE  TypeInv'
<1>1. Load(file, disk) \in Image
  BY LoadType DEF TypeInv, TypeOK
<1>2. CASE Arm
  BY <1>2 DEF Arm, TypeInv, TypeOK, RotationsBounded, files, reqs, server, history
<1>3. CASE Reload
  BY <1>1, <1>3 DEF Reload, Crossing, TypeInv, TypeOK, RotationsBounded, files, reqs,
     server, history
<1>4. QED
  BY <1>2, <1>3

LEMMA TypeRestart ==
  ASSUME TypeInv, Restart
  PROVE  TypeInv'
<1>1. mem' \in Image
  BY LoadType DEF Restart, TypeInv, TypeOK
<1>2. spoiled' \subseteq Slugs
  BY DEF Restart, TypeInv, TypeOK
<1>3. /\ lock' \in [Slugs -> Requests \cup {Free}]
      /\ pc' \in [Requests -> PCs]
      /\ mine' \in [Requests -> Cred] /\ ask' \in [Requests -> Cred]
      /\ answer' \in [Requests -> Answers]
      /\ RotationsBounded'
  BY NoCredType DEF Restart, PCs, Answers, RotationsBounded
<1>4. QED
  BY <1>1, <1>2, <1>3 DEF Restart, TypeInv, TypeOK, files, server

LEMMA TypeNext == TypeInv /\ [Next]_vars => TypeInv'
<1> SUFFICES ASSUME TypeInv, [Next]_vars PROVE TypeInv'
  OBVIOUS
<1>1. ASSUME NEW r \in Requests, NEW s \in Slugs, Arrive(r, s) PROVE TypeInv'
  BY <1>1, TypeArrive
<1>2. ASSUME NEW r \in Requests, Handler(r) PROVE TypeInv'
  BY <1>2, TypeAcquire, TypeRefreshed, TypeGivenUp, TypeUpstream, TypeAnswer
  DEF Handler
<1>3. ASSUME NEW r \in Requests, Endpoint(r) \/ Lose(r) PROVE TypeInv'
  BY <1>3, TypeAnswer
<1>4. ASSUME NEW s \in Slugs, Expire(s) PROVE TypeInv'
  BY <1>4, TypeExpire
<1>5. CASE AttachWriter \/ Arm \/ Reload \/ Restart
  BY <1>5, TypeWriter, TypeWatcher, TypeRestart
<1>6. CASE UNCHANGED vars
  BY <1>6 DEF vars, files, watch, reqs, server, history, TypeInv, TypeOK,
     RotationsBounded
<1>7. QED
  BY <1>1, <1>2, <1>3, <1>4, <1>5, <1>6 DEF Next

\* Type correctness: every variable keeps its type, whatever the interleaving.
THEOREM TypeCorrect == Spec => []TypeOK
<1>1. Spec => []TypeInv
  BY TypeInit, TypeNext, PTL DEF Spec
<1>2. TypeInv => TypeOK
  BY DEF TypeInv
<1>3. QED
  BY <1>1, <1>2, PTL

----------------------------------------------------------------------------
(* The lock.                                                               *)

LEMMA LockInit == Init => LockInv
  BY FreeAssumption DEF Init, LockInv, Posting, Free

\* A step that neither takes nor leaves a lock.
LEMMA LockKept ==
  ASSUME TypeOK, LockInv, NEW r \in Requests,
         UNCHANGED <<lock, target>>,
         pc' = pc \/ \E x \in PCs \ Posting : pc' = [pc EXCEPT ![r] = x],
         pc' # pc => pc[r] \notin Posting
  PROVE  LockInv'
<1>1. pc \in [Requests -> PCs]
  BY DEF TypeOK
<1>2. \A q \in Requests : pc'[q] \in Posting <=> pc[q] \in Posting
  BY <1>1
<1>3. QED
  BY <1>2 DEF LockInv

\* A step by which r takes the free lock of the provider it targets from now on.
LEMMA LockTaken ==
  ASSUME TypeOK, LockInv, NEW r \in Requests, NEW s \in Slugs, NEW x \in Posting,
         pc[r] \notin Posting, lock[s] = Free,
         lock' = [lock EXCEPT ![s] = r],
         pc' = [pc EXCEPT ![r] = x],
         target' = target \/ target' = [target EXCEPT ![r] = s],
         target'[r] = s
  PROVE  LockInv'
<1>1. /\ pc \in [Requests -> PCs] /\ target \in [Requests -> Slugs]
      /\ lock \in [Slugs -> Requests \cup {Free}]
  BY DEF TypeOK
<1>2. \A t \in Slugs : lock[t] # r
  BY DEF LockInv
<1>3. \A q \in Requests \ {r} : pc'[q] = pc[q] /\ target'[q] = target[q]
  BY <1>1
<1>4. \A q \in Requests : pc[q] \in Posting => target[q] # s
  BY FreeAssumption DEF LockInv
<1>5. SUFFICES ASSUME NEW t \in Slugs, NEW q \in Requests
               PROVE  lock'[t] = q <=> pc'[q] \in Posting /\ target'[q] = t
  BY DEF LockInv
<1>6. CASE q = r
  BY <1>1, <1>2, <1>6
<1>7. CASE q # r
  <2>1. lock[t] = q <=> pc[q] \in Posting /\ target[q] = t
    BY DEF LockInv
  <2>2. CASE t = s
    BY <1>1, <1>3, <1>4, <1>7, <2>2
  <2>3. CASE t # s
    BY <1>1, <1>3, <1>7, <2>1, <2>3
  <2>4. QED
    BY <2>2, <2>3
<1>8. QED
  BY <1>6, <1>7

\* The holder leaves the lock.
LEMMA LockLeft ==
  ASSUME TypeOK, LockInv, NEW r \in Requests, pc[r] \in Posting,
         NEW cred, NEW state \in PCs \ Posting, Leave(r, cred, state),
         UNCHANGED target
  PROVE  LockInv'
<1>1. /\ pc \in [Requests -> PCs] /\ target \in [Requests -> Slugs]
      /\ lock \in [Slugs -> Requests \cup {Free}]
  BY DEF TypeOK
<1>2. /\ lock' = [lock EXCEPT ![target[r]] = Free]
      /\ pc' = [pc EXCEPT ![r] = state]
  BY DEF Leave, Released
<1>3. lock[target[r]] = r
  BY <1>1 DEF LockInv
<1>4. SUFFICES ASSUME NEW t \in Slugs, NEW q \in Requests
               PROVE  lock'[t] = q <=> pc'[q] \in Posting /\ target[q] = t
  BY DEF LockInv
<1>5. lock[t] = q <=> pc[q] \in Posting /\ target[q] = t
  BY DEF LockInv
<1>6. CASE q = r
  BY <1>1, <1>2, <1>5, <1>6, FreeAssumption
<1>7. CASE q # r
  BY <1>1, <1>2, <1>3, <1>5, <1>7, FreeAssumption
<1>8. QED
  BY <1>6, <1>7

LEMMA LockNext == TypeOK /\ LockInv /\ [Next]_vars => LockInv'
<1> SUFFICES ASSUME TypeOK, LockInv, [Next]_vars PROVE LockInv'
  OBVIOUS
<1>1. ASSUME NEW r \in Requests, NEW s \in Slugs, Arrive(r, s) PROVE LockInv'
  <2>1. target \in [Requests -> Slugs] /\ pc \in [Requests -> PCs]
    BY DEF TypeOK
  <2>2. pc[r] = "idle" /\ target' = [target EXCEPT ![r] = s] /\ target'[r] = s
    BY <1>1, <2>1 DEF Arrive
  <2>3. CASE pc' = [pc EXCEPT ![r] = "postE"]
    <3>1. lock[s] = Free /\ lock' = [lock EXCEPT ![s] = r]
      BY <1>1, <2>1, <2>3 DEF Arrive
    <3>2. QED
      BY <2>2, <2>3, <3>1, LockTaken DEF Posting
  <2>4. CASE pc' # [pc EXCEPT ![r] = "postE"]
    <3>1. /\ lock' = lock
          /\ pc' = [pc EXCEPT ![r] = "send"] \/ pc' = [pc EXCEPT ![r] = "waitE"]
      BY <1>1, <2>4 DEF Arrive
    <3>2. \A q \in Requests : pc'[q] \in Posting => q # r /\ pc[q] \in Posting
      BY <2>1, <3>1 DEF Posting
    <3>3. \A q \in Requests : pc[q] \in Posting => q # r /\ pc'[q] \in Posting
      BY <2>1, <2>2, <3>1 DEF Posting
    <3>4. \A q \in Requests : q # r => target'[q] = target[q]
      BY <2>1, <2>2
    <3>5. \A t \in Slugs, q \in Requests :
            pc'[q] \in Posting /\ target'[q] = t <=> pc[q] \in Posting /\ target[q] = t
      BY <3>2, <3>3, <3>4
    <3>6. QED
      BY <3>1, <3>5 DEF LockInv
  <2>5. QED
    BY <2>3, <2>4
<1>2. ASSUME NEW r \in Requests, AcquireE(r) \/ AcquireR(r) PROVE LockInv'
  <2>1. /\ target' = target /\ target[r] \in Slugs
        /\ pc[r] \notin Posting /\ lock[target[r]] = Free
    BY <1>2 DEF AcquireE, AcquireR, LockFree, TypeOK, Posting
  <2>2. \/ /\ lock' = [lock EXCEPT ![target[r]] = r]
           /\ \E x \in Posting : pc' = [pc EXCEPT ![r] = x]
        \/ /\ lock' = lock
           /\ \E x \in PCs \ Posting : pc' = [pc EXCEPT ![r] = x]
    BY <1>2 DEF AcquireE, AcquireR, StartRefresh, Posting, PCs
  <2>3. QED
    BY <2>1, <2>2, LockTaken, LockKept
<1>3. ASSUME NEW r \in Requests, Refreshed(r) \/ Refused(r) \/ GiveUp(r)
      PROVE  LockInv'
  <2>1. /\ pc[r] \in Posting /\ target' = target
        /\ \E state \in {"idle", "send", "resend"} : \E cred : Leave(r, cred, state)
    BY <1>3 DEF Refreshed, Refused, GiveUp
  <2>2. {"idle", "send", "resend"} \subseteq PCs \ Posting
    BY DEF PCs, Posting
  <2>3. QED
    BY <2>1, <2>2, LockLeft
<1>4. ASSUME NEW r \in Requests, Finish(r) \/ Unauthorized(r) PROVE LockInv'
  <2>1. /\ UNCHANGED <<lock, target>> /\ pc[r] \notin Posting
        /\ pc' = [pc EXCEPT ![r] = "idle"] \/ pc' = [pc EXCEPT ![r] = "waitR"]
    BY <1>4 DEF Finish, Unauthorized, End, Posting
  <2>2. "idle" \in PCs \ Posting /\ "waitR" \in PCs \ Posting
    BY DEF PCs, Posting
  <2>3. QED
    BY <2>1, <2>2, LockKept
<1>5. ASSUME UNCHANGED <<lock, pc, target>> PROVE LockInv'
  BY <1>5 DEF LockInv
<1>6. ASSUME NEW r \in Requests, Repost(r) \/ Endpoint(r) \/ Lose(r) PROVE LockInv'
  BY <1>5, <1>6 DEF Repost, Endpoint, AnswerRotated, AnswerKept, AnswerDenied,
     AnswerError, Lose
<1>7. ASSUME NEW s \in Slugs, Expire(s) PROVE LockInv'
  BY <1>5, <1>7 DEF Expire, reqs
<1>8. CASE AttachWriter \/ Arm \/ Reload
  BY <1>5, <1>8 DEF AttachWriter, AttachWrite, AttachBreak, AttachRemove, Arm, Reload, reqs
<1>9. CASE Restart
  BY <1>9, FreeAssumption DEF Restart, LockInv, Posting
<1>10. CASE UNCHANGED vars
  BY <1>5, <1>10 DEF vars, reqs
<1>11. QED
  BY <1>1, <1>2, <1>3, <1>4, <1>6, <1>7, <1>8, <1>9, <1>10 DEF Next, Handler

\* The lock does its work (credentials.py, lock_for; proxy.py, the two `async
\* with lock` blocks): at most one POST per provider is in flight, by the holder.
THEOREM Coalesces == Spec => []OneRefreshAtATime
<1>1. Spec => []TypeOK
  BY TypeCorrect
<1>2. Spec => []LockInv
  BY <1>1, LockInit, LockNext, PTL DEF Spec
<1>3. TypeOK /\ LockInv => OneRefreshAtATime
  BY DEF TypeOK, LockInv, OneRefreshAtATime
<1>4. QED
  BY <1>1, <1>2, <1>3, PTL

----------------------------------------------------------------------------
(* The double checks.                                                      *)

Caused(r) ==
  /\ pc[r] = "postE" => Token(target[r], ask[r]) \in stale
  /\ pc[r] = "postR" => SameAccessToken(ask[r], mine[r])

LEMMA CausedIsRefreshHasCause == RefreshHasCause <=> \A r \in Requests : Caused(r)
  BY DEF RefreshHasCause, Caused, Fresh

\* A step that leaves the other requests alone, and r either outside the lock or
\* with a cause.
LEMMA CauseStep ==
  ASSUME RefreshHasCause, NEW r \in Requests, stale \subseteq stale',
         \A q \in Requests \ {r} :
           /\ pc'[q] = pc[q] /\ target'[q] = target[q]
           /\ ask'[q] = ask[q] /\ mine'[q] = mine[q],
         pc'[r] \in Posting => Caused(r)'
  PROVE  RefreshHasCause'
<1>1. \A q \in Requests : Caused(q)
  BY CausedIsRefreshHasCause
<1>2. \A q \in Requests \ {r} : Caused(q)'
  BY <1>1 DEF Caused, Token, SameAccessToken
<1>3. Caused(r)'
  BY DEF Caused, Posting
<1>4. QED
  BY <1>2, <1>3 DEF RefreshHasCause, Caused, Fresh

LEMMA CauseNext == TypeOK /\ RefreshHasCause /\ [Next]_vars => RefreshHasCause'
<1> SUFFICES ASSUME TypeOK, RefreshHasCause, [Next]_vars PROVE RefreshHasCause'
  OBVIOUS
<1>0. /\ pc \in [Requests -> PCs] /\ target \in [Requests -> Slugs]
      /\ mine \in [Requests -> Cred] /\ ask \in [Requests -> Cred]
  BY DEF TypeOK
<1>1. ASSUME NEW r \in Requests, NEW s \in Slugs, Arrive(r, s)
      PROVE  RefreshHasCause'
  <2>1. /\ stale' = stale
        /\ target' = [target EXCEPT ![r] = s]
        /\ mine' = [mine EXCEPT ![r] = mem.prov[s]]
        /\ \/ pc' = [pc EXCEPT ![r] = "send"] /\ ask' = ask
           \/ pc' = [pc EXCEPT ![r] = "waitE"] /\ ask' = ask
           \/ /\ pc' = [pc EXCEPT ![r] = "postE"]
              /\ ask' = [ask EXCEPT ![r] = mem.prov[s]]
              /\ Token(s, mem.prov[s]) \in stale
    BY <1>1 DEF Arrive, Fresh
  <2>2. pc'[r] \in Posting => Caused(r)'
    BY <1>0, <2>1 DEF Caused, Posting
  <2>3. QED
    BY <1>0, <2>1, <2>2, CauseStep
<1>2. ASSUME NEW r \in Requests, AcquireE(r) PROVE RefreshHasCause'
  <2>1. /\ stale' = stale /\ target' = target
        /\ \/ /\ pc' = [pc EXCEPT ![r] = "send"] /\ ask' = ask
              /\ mine' = [mine EXCEPT ![r] = Current(r)]
           \/ /\ pc' = [pc EXCEPT ![r] = "postE"]
              /\ ask' = [ask EXCEPT ![r] = Current(r)]
              /\ mine' = mine
              /\ Token(target[r], Current(r)) \in stale
    BY <1>2 DEF AcquireE, StartRefresh, Fresh
  <2>2. pc'[r] \in Posting => Caused(r)'
    BY <1>0, <2>1 DEF Caused, Posting
  <2>3. QED
    BY <1>0, <2>1, <2>2, CauseStep
<1>3. ASSUME NEW r \in Requests, AcquireR(r) PROVE RefreshHasCause'
  <2>1. /\ stale' = stale /\ target' = target
        /\ \/ /\ pc' = [pc EXCEPT ![r] = "resend"] /\ ask' = ask
              /\ mine' = [mine EXCEPT ![r] = Current(r)]
           \/ /\ pc' = [pc EXCEPT ![r] = "postR"]
              /\ ask' = [ask EXCEPT ![r] = Current(r)]
              /\ mine' = mine
              /\ SameAccessToken(Current(r), mine[r])
    BY <1>3 DEF AcquireR, StartRefresh, VaultMovedOn
  <2>2. pc'[r] \in Posting => Caused(r)'
    BY <1>0, <2>1 DEF Caused, Posting
  <2>3. QED
    BY <1>0, <2>1, <2>2, CauseStep
<1>4. ASSUME NEW r \in Requests, Refreshed(r) \/ Refused(r) \/ GiveUp(r)
      PROVE  RefreshHasCause'
  <2>1. /\ stale' = stale /\ target' = target
        /\ \E state \in {"idle", "send", "resend"} : \E cred : Leave(r, cred, state)
    BY <1>4 DEF Refreshed, Refused, GiveUp
  <2>2. PICK state \in {"idle", "send", "resend"} : \E cred :
          /\ pc' = [pc EXCEPT ![r] = state]
          /\ mine' = [mine EXCEPT ![r] = cred]
          /\ ask' = [ask EXCEPT ![r] = NoCred]
    BY <2>1 DEF Leave
  <2>3. pc'[r] \notin Posting
    BY <1>0, <2>2 DEF Posting
  <2>4. QED
    BY <1>0, <2>1, <2>2, <2>3, CauseStep
<1>5. ASSUME NEW r \in Requests, Finish(r) \/ Unauthorized(r)
      PROVE  RefreshHasCause'
  <2>1. /\ UNCHANGED <<stale, target, ask>>
        /\ pc' = [pc EXCEPT ![r] = "idle"] \/ pc' = [pc EXCEPT ![r] = "waitR"]
        /\ mine' = mine \/ mine' = [mine EXCEPT ![r] = NoCred]
    BY <1>5 DEF Finish, Unauthorized, End
  <2>2. pc'[r] \notin Posting
    BY <1>0, <2>1 DEF Posting
  <2>3. QED
    BY <1>0, <2>1, <2>2, CauseStep
<1>6. ASSUME UNCHANGED <<pc, target, ask, mine>>, stale \subseteq stale'
      PROVE  RefreshHasCause'
  BY <1>6 DEF RefreshHasCause, Fresh, Token, SameAccessToken
<1>7. ASSUME NEW r \in Requests, Repost(r) \/ Endpoint(r) \/ Lose(r)
      PROVE  RefreshHasCause'
  BY <1>6, <1>7 DEF Repost, Endpoint, AnswerRotated, AnswerKept, AnswerDenied,
     AnswerError, Lose
<1>8. ASSUME NEW s \in Slugs, Expire(s) PROVE RefreshHasCause'
  BY <1>6, <1>8 DEF Expire, reqs
<1>9. CASE AttachWriter \/ Arm \/ Reload
  BY <1>6, <1>9 DEF AttachWriter, AttachWrite, AttachBreak, AttachRemove, Arm, Reload, reqs
<1>10. CASE Restart
  BY <1>10 DEF Restart, RefreshHasCause
<1>11. CASE UNCHANGED vars
  BY <1>6, <1>11 DEF vars, reqs
<1>12. QED
  BY <1>1, <1>2, <1>3, <1>4, <1>5, <1>7, <1>8, <1>9, <1>10, <1>11 DEF Next, Handler

\* The double checks do theirs (_ensure_fresh, and forward after a 401/403): a
\* POST is only made to replace a token that is about to expire, or the very one
\* upstream has refused.
THEOREM OnlyWithCause == Spec => []RefreshHasCause
<1>1. Init => RefreshHasCause
  BY DEF Init, RefreshHasCause
<1>2. Spec => []TypeOK
  BY TypeCorrect
<1>3. QED
  BY <1>1, <1>2, CauseNext, PTL DEF Spec
=============================================================================
