---------------------------- MODULE DebugCapture ----------------------------
(***************************************************************************)
(* The request capture (debug.py): the flag that POST /internal/debug      *)
(* flips, the tee around a response stream, and what the dump makes of the *)
(* tool calls of a Responses stream.  A part of Exchange.                  *)
(***************************************************************************)
EXTENDS Naturals, Sequences, SequencesExt

VARIABLES
  enabled,   \* debug.enabled
  captured,  \* this exchange's stream is wrapped
  entered,   \* its generator has been started
  dump,      \* "none", or what became of its file: "written", "failed" (and logged)
             \* or "raised" (an exception that is no OSError)
  slots      \* tool_calls of the assembled dump, in tool_order

captureVars == <<enabled, captured, entered, dump, slots>>

CaptureTypeOK ==
  /\ enabled \in BOOLEAN /\ captured \in BOOLEAN /\ entered \in BOOLEAN
  /\ dump \in {"none", "written", "failed", "raised"}

CaptureInit ==
  enabled \in BOOLEAN /\ captured = FALSE /\ entered = FALSE /\ dump = "none" /\ slots = <<>>

\* A process starts, with the flag its environment says.
Boot ==
  enabled' \in BOOLEAN /\ captured' = FALSE /\ entered' = FALSE /\ dump' = "none" /\ slots' = <<>>

Toggle(on) == enabled' = on /\ UNCHANGED <<captured, entered, dump, slots>>

\* forward looks at the flag once, before it streams.
Wrap ==
  /\ captured' = enabled /\ entered' = FALSE /\ dump' = "none" /\ slots' = <<>>
  /\ UNCHANGED enabled

\* The flag that counts when the stream ends.  A mutant: the current one.
Capturing_Now == enabled
Capturing == captured

\* The response is under way: whoever sends it takes the generator's first chunk.
Enter == ~entered /\ entered' = TRUE /\ UNCHANGED <<enabled, captured, dump, slots>>

\* Reading the body or encoding the dump may raise what _write_dump does not catch.
WriteDump == dump' \in {"written", "failed", "raised"}

\* The finally of wrap_response_stream.
Unwrap ==
  /\ IF Capturing THEN WriteDump ELSE UNCHANGED dump
  /\ UNCHANGED <<enabled, captured, entered, slots>>

\* _assemble_responses_api_stream, event by event: an announced call opens its
\* slot anew, a delta opens one if there is none, and completions are not looked at.
Slots(i) == {n \in DOMAIN slots : slots[n].item = i}
SlotAdded(i, arguments) ==
  slots' = IF Slots(i) = {} THEN Append(slots, [item |-> i, arguments |-> arguments])
           ELSE [n \in DOMAIN slots |-> IF n \in Slots(i)
                   THEN [item |-> i, arguments |-> arguments] ELSE slots[n]]
\* A mutant: a delta starts over.
SlotDelta_Replaces(i, delta) == SlotAdded(i, delta)
SlotDelta(i, delta) ==
  slots' = IF Slots(i) = {} THEN Append(slots, [item |-> i, arguments |-> delta])
           ELSE [n \in DOMAIN slots |-> IF n \in Slots(i)
                   THEN [slots[n] EXCEPT !.arguments = @ \o delta] ELSE slots[n]]
=============================================================================
