----------------------------- MODULE CodexStream -----------------------------
(***************************************************************************)
(* One ChatCompletions request answered by the codex backend: the Responses*)
(* events of upstream, the translator (responses_sse_to_chat_sse) and the  *)
(* client's end of the stream, which is either the caller itself or        *)
(* collect_chat_sse on its behalf.                                         *)
(*                                                                         *)
(* Upstream repeats the arguments of a tool call in four kinds of events,  *)
(* and may leave out, interleave, contradict or cut off any of them.  Text *)
(* deltas pass through and are left out, and so is the framing of events   *)
(* into byte chunks: an event happens here when its blank line arrives, an *)
(* event whose blank line never arrives does not happen.                   *)
(***************************************************************************)
EXTENDS Naturals, Sequences, FiniteSets, SequencesExt

CONSTANTS
  Items,     \* item ids of tool calls
  Arguments  \* bound: what the arguments of a call may be, at any moment

ASSUME CodexAssumption ==
  /\ <<>> \in Arguments /\ Arguments \subseteq Seq(STRING)
  /\ IsFiniteSet(Items)

VARIABLES
  stream,     \* codex_client_stream
  pc,         \* "open"; "output": going through response.completed; "end": the
              \* generator is exhausted; "raised": an exception has left it
  calls,      \* tool_calls, with index 0 for an item it does not have
  output,     \* items of response.completed still to go through
  client,     \* the calls as assembled by the client, by index
  finish,     \* finish_reason as seen by the client
  answer,     \* what the HTTP client gets in the end
  said,       \* said[i]: the arguments of i by upstream's last word (history)
  conflict    \* upstream has contradicted itself (history)

vars == <<stream, pc, calls, output, client, finish, answer, said, conflict>>

Call == [index : 0..Cardinality(Items), arguments : Arguments]
NoCall == [index |-> 0, arguments |-> <<>>]

TypeOK ==
  /\ stream \in BOOLEAN /\ pc \in {"open", "output", "end", "raised"}
  /\ calls \in [Items -> Call]
  /\ output \in Seq(Items \X Arguments)
  /\ client \in Seq(Arguments) /\ Len(client) <= Cardinality(Items)
  /\ finish \in {"none", "stop", "tool_calls"}
  /\ answer \in {"none", "200", "502", "done", "broken"}
  /\ said \in [Items -> Arguments] /\ conflict \in BOOLEAN

Init ==
  /\ stream \in BOOLEAN /\ pc = "open"
  /\ calls = [i \in Items |-> NoCall] /\ output = <<>>
  /\ client = <<>> /\ finish = "none" /\ answer = "none"
  /\ said = [i \in Items |-> <<>>] /\ conflict = FALSE

\* The next request.
Reset ==
  /\ stream' \in BOOLEAN /\ pc' = "open"
  /\ calls' = [i \in Items |-> NoCall] /\ output' = <<>>
  /\ client' = <<>> /\ finish' = "none" /\ answer' = "none"
  /\ said' = [i \in Items |-> <<>>] /\ conflict' = FALSE

Known(i) == calls[i].index # 0
Count == Cardinality({i \in Items : Known(i)})   \* tool_call_idx

\* A chunk with a tool_calls delta reaches the client, whose collector appends
\* its arguments to the call of that index, or starts one.
Emit(index, arguments) ==
  client' = IF index \in DOMAIN client
              THEN [client EXCEPT ![index] = @ \o arguments]
              ELSE Append(client, arguments)

----------------------------------------------------------------------------
(* The translator.                                                         *)

\* Upstream has more events: response.completed is its last.
Talking == pc = "open" /\ finish = "none"

\* response.output_item.added of a function call, with arguments or without.
Added(i, arguments) ==
  /\ Talking /\ ~Known(i)
  /\ calls' = [calls EXCEPT ![i] = [index |-> Count + 1, arguments |-> arguments]]
  /\ Emit(Count + 1, arguments)
  /\ said' = [said EXCEPT ![i] = arguments]
  /\ UNCHANGED <<stream, pc, output, finish, answer, conflict>>

\* A mutant: a delta is passed on and not accounted for.
Accounted_Dropped(i, delta) == calls[i].arguments
Accounted(i, delta) == calls[i].arguments \o delta

\* What upstream streams to get from the arguments it has said to these.
Streams(i, arguments) == IsStrictPrefix(said[i], arguments)
Piece(i, arguments) == SubSeq(arguments, Len(said[i]) + 1, Len(arguments))

\* response.function_call_arguments.delta; ignored for an unknown item.
Delta(i, arguments) ==
  /\ Talking /\ Streams(i, arguments)
  /\ said' = [said EXCEPT ![i] = arguments]
  /\ IF Known(i)
       THEN /\ calls' = [calls EXCEPT ![i] =
                 [index |-> @.index, arguments |-> Accounted(i, Piece(i, arguments))]]
            /\ Emit(calls[i].index, Piece(i, arguments))
       ELSE UNCHANGED <<calls, client>>
  /\ UNCHANGED <<stream, pc, output, finish, answer, conflict>>

\* Two mutants: an item nobody announced, or arguments that are not a
\* continuation, go through.
Completable_KnownOnly(i, arguments) == Known(i)
Completable_PrefixOnly(i, arguments) == IsPrefix(calls[i].arguments, arguments)
Completable(i, arguments) ==
  Known(i) /\ IsPrefix(calls[i].arguments, arguments)

\* The part of the arguments the client does not have.  A mutant: all of them.
Suffix_Whole(i, arguments) == arguments
Suffix(i, arguments) ==
  SubSeq(arguments, Len(calls[i].arguments) + 1, Len(arguments))

\* complete_arguments raises a ValueError, or emits what is missing.
Complete(i, arguments) ==
  /\ said' = [said EXCEPT ![i] = arguments]
  /\ conflict' = (conflict \/ ~Known(i) \/ ~IsPrefix(said[i], arguments))
  /\ \/ /\ ~Completable(i, arguments)
        /\ pc' = "raised"
        /\ UNCHANGED <<calls, client>>
     \/ /\ Completable(i, arguments)
        /\ calls' = [calls EXCEPT ![i] = [index |-> @.index, arguments |-> arguments]]
        /\ IF Suffix(i, arguments) = <<>> THEN UNCHANGED client
           ELSE Emit(calls[i].index, Suffix(i, arguments))
        /\ UNCHANGED pc

\* response.function_call_arguments.done, and response.output_item.done.
Done(i, arguments) ==
  /\ Talking /\ Complete(i, arguments)
  /\ UNCHANGED <<stream, output, finish, answer>>

\* response.completed: its output is gone through item by item ...
Completed(items) ==
  /\ Talking
  /\ pc' = "output" /\ output' = items
  /\ UNCHANGED <<stream, calls, client, finish, answer, said, conflict>>

OutputItem ==
  /\ pc = "output" /\ output # <<>>
  /\ Complete(Head(output)[1], Head(output)[2])
  /\ output' = Tail(output)
  /\ UNCHANGED <<stream, finish, answer>>

\* ... and then the final chunk goes out, with finish_reason and usage.
FinalChunk ==
  /\ pc = "output" /\ output = <<>>
  /\ pc' = "open"
  /\ finish' = IF Count > 0 THEN "tool_calls" ELSE "stop"
  /\ UNCHANGED <<stream, calls, output, client, answer, said, conflict>>

\* Upstream closes the stream, wherever it is: [DONE] goes out.
End ==
  /\ pc = "open" /\ pc' = "end"
  /\ UNCHANGED <<stream, calls, output, client, finish, answer, said, conflict>>

\* The connection breaks or times out: httpx raises.
Break ==
  /\ pc = "open" /\ pc' = "raised"
  /\ UNCHANGED <<stream, calls, output, client, finish, answer, said, conflict>>

\* A streaming client goes away: the generator is closed, or never started.  One
\* that does not stream is not noticed to be gone.
Disconnect ==
  /\ stream /\ pc \in {"open", "output"} /\ pc' = "raised"
  /\ UNCHANGED <<stream, calls, output, client, finish, answer, said, conflict>>

----------------------------------------------------------------------------
(* The HTTP response.                                                      *)

\* collect_chat_sse has seen a terminal event.  A mutant: it has seen the end.
Terminated_AtEnd == TRUE
Terminated == finish # "none"

\* For a streaming client the response just ends or breaks off; forward turns
\* what was collected into one JSON body, or answers 502 (a 500, here the same, for an
\* exception it does not expect).
Respond ==
  /\ pc \in {"end", "raised"} /\ answer = "none"
  /\ answer' = IF stream THEN (IF pc = "end" THEN "done" ELSE "broken")
               ELSE IF pc = "end" /\ Terminated THEN "200" ELSE "502"
  /\ UNCHANGED <<stream, pc, calls, output, client, finish, said, conflict>>

Next ==
  \/ \E i \in Items, arguments \in Arguments :
       Added(i, arguments) \/ Delta(i, arguments) \/ Done(i, arguments)
  \/ \E items \in BoundedSeq(Items \X Arguments, Cardinality(Items)) :
       Completed(items)
  \/ OutputItem \/ FinalChunk \/ End \/ Break \/ Disconnect \/ Respond

Spec == Init /\ [][Next]_vars

----------------------------------------------------------------------------
(* Properties.                                                             *)

\* However upstream spreads the arguments of its calls over added, delta, done and
\* completed events, and however it interleaves the calls, the client assembles,
\* at every moment, what upstream has said last, once and under the right index
\* (test_codex_tool_arguments.py, "survive without duplication").
ClientHasWhatWasSaid ==
  pc # "raised" =>
    /\ Len(client) = Count
    /\ \A i \in Items : Known(i) => client[calls[i].index] = said[i]

\* Conflicting or unknown completions fail closed: an upstream that contradicts
\* itself never ends in an answer that looks whole, streamed or collected.
FailsClosed == conflict => answer \in {"none", "502", "broken"}

\* "never turn a truncated provider stream into success" (collect_chat_sse): a
\* collected answer has its finish_reason and every call as upstream completed it,
\* with nothing of response.completed left out.
SuccessIsWhole ==
  answer = "200" =>
    /\ finish = IF client = <<>> THEN "stop" ELSE "tool_calls"
    /\ output = <<>>
    /\ \A i \in Items : Known(i) => client[calls[i].index] = said[i]
=============================================================================
