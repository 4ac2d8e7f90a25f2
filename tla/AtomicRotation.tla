--------------------------- MODULE AtomicRotation ---------------------------
(***************************************************************************)
(* What the proxy promises about a rotating refresh token: the proxy and   *)
(* the provider rotate it together, in one step, so that the token the     *)
(* vault holds is always the one the provider honours.  No lock, file,     *)
(* request or network is in sight; TokenRefresh implements this.           *)
(*                                                                         *)
(* The promise is void for a slug once a rotated token has been lost on    *)
(* its way to the disk, or the attachment was changed under a refresh;     *)
(* a void slug holds nothing here.                                         *)
(***************************************************************************)
EXTENDS Naturals

CONSTANTS Slugs, MaxChains

VARIABLES
  held,      \* held[s]: the chain of the vault's token and its generation
  honoured,  \* honoured[s][c]: the generation the provider honours in chain c
  void       \* slugs the promise no longer covers

vars == <<held, honoured, void>>

Nothing == [chain |-> 0, gen |-> 0]

Init ==
  /\ held \in [Slugs -> {[chain |-> c, gen |-> 0] : c \in {0, 1}}]
  /\ honoured = [s \in Slugs |-> [c \in 0..MaxChains |-> 0]]
  /\ void = {}

\* One refresh, seen from outside.  Others may lose the promise by its save.
Rotate(s) ==
  /\ s \notin void' /\ void \subseteq void' /\ held[s].chain # 0
  /\ held'[s] = [held[s] EXCEPT !.gen = @ + 1]
  /\ honoured'[s] = [honoured[s] EXCEPT ![held[s].chain] = @ + 1]
  /\ \A t \in Slugs \ {s} :
       IF t \in void' THEN held'[t] = Nothing
       ELSE held'[t] = held[t] /\ honoured'[t] = honoured[t]

\* The user attaches, re-attaches or detaches, or the proxy starts again: any
\* chain may be taken up, at the generation the provider honours.  The promise
\* may be given up for some slugs.
Attach ==
  /\ void \subseteq void'
  /\ \A s \in void' : held'[s] = Nothing
  /\ \A s \in Slugs \ void' :
       /\ held'[s].gen = honoured[s][held'[s].chain]
       /\ honoured'[s] = honoured[s]

Next == Attach \/ \E s \in Slugs : Rotate(s)

Spec == Init /\ [][Next]_vars

\* The promise, spelled out: the token in the vault is never a spent one.
HeldIsHonoured ==
  \A s \in Slugs \ void : held[s].gen = honoured[s][held[s].chain]
=============================================================================
