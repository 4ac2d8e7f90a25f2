---------------------------- MODULE Credentials ----------------------------
(***************************************************************************)
(* The data of the credential store (credentials.py): credentials, the two *)
(* credential files, and the chain-merge rule that turns the files into    *)
(* the in-memory vault.  No state: TokenRefresh gives these operators      *)
(* their variables.                                                        *)
(*                                                                         *)
(* A CHAIN is one attachment: the refresh_token the user obtained through  *)
(* the device-code flow, and every token rotated from it.  "A re-attach    *)
(* always mints a different refresh_token" (credentials.py), so the chains *)
(* of a provider are numbered 1, 2, ... in the order they are attached,    *)
(* and 0 means "no entry".  A refresh_token value is then a pair           *)
(* <<chain, rt>> and an access_token value a pair <<chain, at>>, where rt  *)
(* and at count the rotations since the attachment.  The attached          *)
(* refresh_token itself is <<chain, 0>>, which is why a seed, being the    *)
(* value of an attached refresh_token, is just a chain number.             *)
(***************************************************************************)
EXTENDS Naturals

CONSTANTS
  Slugs,      \* the keys of the vault: provider slugs with the default label
  MaxChains,  \* bound: attachments per provider
  MaxGen      \* bound: refreshes per chain

ASSUME CredentialsAssumption ==
  /\ MaxChains \in Nat \ {0}
  /\ MaxGen \in Nat

Chains == 1..MaxChains
Gens == 0..MaxGen

\* dataclass Credential, without the fields nothing here tells apart.
Cred == [chain : 0..MaxChains, at : Gens, rt : Gens]
NoCred == [chain |-> 0, at |-> 0, rt |-> 0]

\* The entry of credentials.json for chain c; NoCred when c = 0.
Attached(c) == [chain |-> c, at |-> 0, rt |-> 0]

\* What _persist writes and _load reads back: the vault and its chain seeds.
\* A missing credentials.runtime.json reads as the empty image.
Image == [prov : [Slugs -> Cred], seed : [Slugs -> 0..MaxChains]]
EmptyImage == [prov |-> [s \in Slugs |-> NoCred], seed |-> [s \in Slugs |-> 0]]

\* credentials.json.  "unreadable": missing, or not JSON; "malformed": JSON of
\* a shape on which _load raises.  `content` is what the user means to have
\* attached, kept while the file is broken.
Health == {"ok", "unreadable", "malformed"}
AttachFile == [health : Health, content : [Slugs -> 0..MaxChains]]

----------------------------------------------------------------------------
(* The chain-merge rule.                                                   *)

\* Two mutants: any runtime entry wins, whatever attach token it came from; and
\* the attach entry always wins.
ChainAlive_Never(s, chain, runtime) == FALSE
ChainAlive_AnySeed(s, chain, runtime) == runtime.prov[s] # NoCred

\* chain_alive: the runtime entry descends from this very attach token.
ChainAlive(s, chain, runtime) ==
  /\ runtime.prov[s] # NoCred
  /\ runtime.seed[s] = chain

\* merged and seed: per attached provider, the live runtime entry or the
\* attached one.  A provider that is not attached is in neither.
Merge(content, runtime) ==
  [prov |-> [s \in Slugs |->
               IF content[s] # 0 /\ ChainAlive(s, content[s], runtime)
                 THEN runtime.prov[s] ELSE Attached(content[s])],
   seed |-> content]

\* A mutant: the fallback forgets the seeds of the chains it takes up.
Load_FallbackSeedless(file, runtime) ==
  IF file.health = "ok" THEN Merge(file.content, runtime)
  ELSE [runtime EXCEPT !.seed = EmptyImage.seed]

\* _load on a file that does not make it raise: an unreadable attach file falls
\* back to the runtime file as it is.
Load(file, runtime) ==
  IF file.health = "ok" THEN Merge(file.content, runtime) ELSE runtime

\* The access tokens of two credentials of one provider have the same value.
SameAccessToken(a, b) == a.chain = b.chain /\ a.at = b.at
=============================================================================
