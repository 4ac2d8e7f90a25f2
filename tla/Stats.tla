------------------------------- MODULE Stats -------------------------------
(***************************************************************************)
(* The lifetime counters (stats.py) of one provider and model, with tokens *)
(* counted in usage reports, and the file they are written to with every   *)
(* increment.  A part of Exchange, which says when its actions happen.     *)
(***************************************************************************)
EXTENDS Naturals

CONSTANT Faults   \* a subset of FaultKinds

FaultKinds == {"write", "read", "restart"}
ASSUME StatsAssumption == Faults \subseteq FaultKinds

VARIABLES
  counted,  \* _requests and _tokens
  file,     \* stats.json; a missing file has no counts
  gap       \* why file may differ from counted: "unsaved" when the last write
            \* failed, "unread" when the last load did, or "none" (history)

statsVars == <<counted, file, gap>>

Counters == {"requests", "tokens"}
Zero == [c \in Counters |-> 0]

StatsTypeOK ==
  /\ counted \in [Counters -> Nat] /\ file \in [Counters -> Nat]
  /\ gap \in {"none", "unsaved", "unread"}

StatsInit == counted = Zero /\ file = Zero /\ gap = "none"

\* _persist_unlocked: the file is replaced or, when that fails, left alone.  A
\* mutant: the snapshot is taken before the increment.
Persist_Early ==
  \/ file' = counted /\ gap' = "none"
  \/ "write" \in Faults /\ gap' = (IF gap = "none" THEN "unsaved" ELSE gap) /\ UNCHANGED file
Persist ==
  \/ file' = counted' /\ gap' = "none"
  \/ "write" \in Faults /\ gap' = (IF gap = "none" THEN "unsaved" ELSE gap) /\ UNCHANGED file

\* add_request, and add_tokens of a usage report that is not all zeros.
Add(counter) == counted' = [counted EXCEPT ![counter] = @ + 1] /\ Persist

\* enable_persistence when the process starts: a file that cannot be read counts
\* as no file.  A mutant: tokens are not loaded.
Load_RequestsOnly ==
  \/ counted' = [file EXCEPT !["tokens"] = 0] /\ gap' = "none" /\ UNCHANGED file
  \/ "read" \in Faults /\ counted' = Zero /\ gap' = "unread" /\ UNCHANGED file
Load ==
  \/ counted' = file /\ gap' = "none" /\ UNCHANGED file
  \/ "read" \in Faults /\ counted' = Zero /\ gap' = "unread" /\ UNCHANGED file

----------------------------------------------------------------------------
\* "the counters survive container restarts" (README): with every increment on
\* disk, a crash at any moment loses at most what was counted since a failed write.
CountersSurvive == gap = "none" => file = counted

\* "cumulative, not since the proxy last started" (stats.py): no sequence of failed
\* writes, restarts and further counting takes anything back from the file, unless
\* it could not be read when the process started.
LifetimeGrows ==
  [][gap # "unread" => \A c \in Counters : file'[c] >= file[c]]_statsVars
=============================================================================
