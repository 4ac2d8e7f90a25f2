-------------------------- MODULE TokenRefreshInv --------------------------
(***************************************************************************)
(* The inductive invariant behind the safety properties of TokenRefresh:   *)
(* who holds the lock, which chain each copy of a credential belongs to,   *)
(* and how far each copy is from what the provider honours.                *)
(***************************************************************************)
EXTENDS TokenRefresh

\* A lock is held by exactly the request that is inside it.
LockInv ==
  \A s \in Slugs, r \in Requests :
    lock[s] = r <=> pc[r] \in Posting /\ target[r] = s

----------------------------------------------------------------------------
(* The store: the attach file, the runtime file and the vault.             *)

\* An entry belongs to the chain its seed names; no seed, no entry.
Anchored(image, s) ==
  /\ image.prov[s].chain = image.seed[s]
  /\ image.seed[s] = 0 => image.prov[s] = NoCred

AnchoredInv == \A s \in Slugs \ crossed : Anchored(mem, s) /\ Anchored(disk, s)

\* Chains are taken from the attach file only, and minted there.
MintedInv ==
  \A s \in Slugs : /\ file.content[s] <= minted[s]
                   /\ mem.seed[s] <= minted[s]
                   /\ disk.seed[s] <= minted[s]

\* Once the file is loaded, its chains are the vault's; those of the runtime
\* file are, when the attach file could not be read.
SyncedSeeds ==
  synced => \A s \in Slugs :
    mem.seed[s] = IF file.health = "ok" THEN file.content[s] ELSE disk.seed[s]

\* What _load makes of the runtime file for a slug whose seed is to be c.
Resumed(s, c) == IF disk.seed[s] = c THEN disk.prov[s] ELSE Attached(c)

\* The runtime file has what is in memory, or a chain that was left before the
\* one in memory was ever rotated.
DiskFollows ==
  \A s \in Slugs \ (crossed \cup unsaved) :
    mem.prov[s] = Resumed(s, mem.seed[s])

StoreInv ==
  AnchoredInv /\ MintedInv /\ SyncedSeeds /\ DiskFollows

----------------------------------------------------------------------------
(* The requests.                                                           *)

\* A request in flight has a vault entry to refresh ...
InFlightAttached ==
  \A r \in Requests :
    pc[r] # "idle" /\ target[r] \notin crossed => mem.seed[target[r]] # 0

\* ... and what it has POSTed is that entry.
PostsVault ==
  \A r \in Requests : pc[r] \in Posting =>
    /\ target[r] \notin crossed => ask[r].chain = mem.seed[target[r]]
    /\ target[r] \notin Void => ask[r] = mem.prov[target[r]]

RequestInv == InFlightAttached /\ PostsVault

----------------------------------------------------------------------------
(* The provider.                                                           *)

\* It honours the token of the vault, or has just rotated it.
VaultHonoured ==
  \A s \in Slugs \ Void : Settled(s, mem.seed[s]) = mem.prov[s].rt

\* So it does with the token on disk.
DiskHonoured ==
  \A s \in Slugs \ (Void \cup unsaved) :
    Settled(s, disk.seed[s]) = disk.prov[s].rt

\* A chain that is, or will be, in the attach file and has not been taken up
\* has not been rotated.
Untouched(s, c) ==
  /\ c = file.content[s] \/ c > minted[s]
  /\ c # mem.seed[s] /\ c # disk.seed[s]

Unrotated ==
  \A s \in Slugs \ Void, c \in 0..MaxChains :
    c = 0 \/ Untouched(s, c) => Settled(s, c) = 0

ServerInv == VaultHonoured /\ DiskHonoured /\ Unrotated /\ NoTokenReplay

Inv == LockInv /\ StoreInv /\ RequestInv /\ ServerInv
=============================================================================
