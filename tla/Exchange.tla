------------------------------ MODULE Exchange ------------------------------
(***************************************************************************)
(* A client's conversation with the codex backend through forward: each    *)
(* turn is translated (ChatRequest) or passed on, its answer is translated *)
(* (CodexStream) or passed on, and on the way counted (Stats) and captured *)
(* (DebugCapture).  The client builds its next turn from the calls it has  *)
(* assembled.                                                              *)
(***************************************************************************)
EXTENDS CodexStream, ChatRequest, Stats, DebugCapture

CONSTANTS
  Openings,  \* the conversations a client may begin with
  MaxTurns   \* bound: turns

\* A conversation begins before any call is made, or answered.
OpeningMessages ==
  [role : Roles \ {"tool"}, content : Contents,
   calls : {<<>>}, answers : {{}}]

ASSUME ExchangeAssumption ==
  /\ MaxTurns \in Nat
  /\ \A opening \in Openings : opening \in Seq(OpeningMessages) \ {<<>>}

VARIABLES
  turn,      \* turns so far
  lane,      \* "none" before the first; "asked": upstream is being called; then
             \* how the answer comes back: "chat", "raw" or "error"
  messages,  \* of a chat/completions request, <<>> for a /responses one
  strayed,   \* a completion in a raw stream said more than the stream had
             \* ("late"), or its events contradict each other ("contradicted"),
             \* or "no" (history)
  uncounted  \* answers so far to requests that are not counted (history)

exchangeVars == <<vars, statsVars, captureVars, turn, lane, messages, strayed, uncounted>>

Answers == {"chat", "raw", "error"}
Lanes == {"none", "asked"} \cup Answers

ExchangeTypeOK ==
  /\ TypeOK /\ StatsTypeOK /\ CaptureTypeOK
  /\ turn \in 0..MaxTurns /\ lane \in Lanes
  /\ strayed \in {"no", "late", "contradicted"} /\ uncounted \in 0..turn
  /\ lane # "asked" => messages = <<>>
  /\ \A n \in DOMAIN slots :
       slots[n].item \in Items /\ slots[n].arguments \in Seq(STRING)

ExchangeInit ==
  /\ Init /\ ~stream /\ StatsInit /\ CaptureInit
  /\ turn = 0 /\ lane = "none" /\ messages = <<>> /\ strayed = "no" /\ uncounted = 0

Over == pc \in {"end", "raised"}

----------------------------------------------------------------------------
(* The request.                                                            *)

\* The client has a whole answer, with the finish_reason that says so.
Answered == lane = "chat" /\ answer \in {"200", "done"} /\ finish # "none"

\* Its calls in the order of their indices, and the turn it makes of them: it
\* answers the calls in any order.
ItemAt(index) == CHOOSE i \in Items : calls[i].index = index
Assembled ==
  [index \in DOMAIN client |-> [id |-> ItemAt(index), arguments |-> client[index]]]
Continuations ==
  {<<Assistant(content, Assembled)>> \o [n \in DOMAIN order |-> Tool(order[n])] :
     content \in {NoContent, Plain("text")},
     order \in SetToSeqs({i \in Items : Known(i)})}

\* forward up to its upstream call.
Ask ==
  /\ lane = "none" \/ answer # "none"
  /\ turn < MaxTurns /\ turn' = turn + 1
  /\ lane' = "asked"
  /\ \/ messages' = <<>>
     \/ messages' \in Openings
     \/ /\ Answered
        /\ \E opening \in Openings, next \in Continuations : messages' = opening \o next
  /\ UNCHANGED <<vars, statsVars, captureVars, strayed, uncounted>>

\* Upstream's status decides the way back.
Ways == {IF messages = <<>> THEN "raw" ELSE "chat", "error"}

\* Requests that are counted: those upstream accepts, if they name a model.  A
\* mutant: native ones.
Accepted_Raw(way, named) == way = "raw" /\ named
Accepted(way, named) == way # "error" /\ named

\* The upstream call returns, and the response is set up.
Begin(way, named) ==
  /\ lane = "asked" /\ way \in Ways
  /\ lane' = way /\ messages' = <<>> /\ strayed' = "no"
  /\ Reset /\ (way # "chat" => stream')
  /\ IF Accepted(way, named) THEN Add("requests") ELSE UNCHANGED statsVars
  /\ uncounted' = IF way = "error" \/ ~named THEN uncounted + 1 ELSE uncounted
  /\ Wrap
  /\ UNCHANGED turn

\* collect_chat_sse, or the response to a client that streams, begins to read.
Start ==
  /\ lane \in Answers /\ ~Over /\ Enter
  /\ UNCHANGED <<vars, statsVars, turn, lane, messages, strayed, uncounted>>
Reading == entered \/ Over

----------------------------------------------------------------------------
(* The response.                                                           *)

\* A usage report is counted, unless it is zero or, where the body is not translated,
\* its line is cut by the end of a chunk.
CountUsage == Add("tokens") \/ UNCHANGED statsVars

\* When the stream is over, so is the tee around it.  What its finally raises breaks
\* an answer that had come to its end.
Close ==
  IF ~Over /\ Over' THEN Unwrap /\ (dump' = "raised" => pc' = "raised")
  ELSE UNCHANGED captureVars

\* The way back of a translated answer.
ChatStep ==
  /\ lane = "chat" /\ Reading /\ Next
  /\ IF finish' # finish THEN CountUsage ELSE UNCHANGED statsVars
  /\ Close
  /\ UNCHANGED <<turn, lane, messages, strayed, uncounted>>

\* A raw answer passes as it is.
RawEvent == lane = "raw" /\ entered /\ Talking
Announced(i) == Slots(i) # {}

\* An announcement behind deltas of its call says no more than they did.
RawAdded(i, arguments) ==
  /\ RawEvent /\ SlotAdded(i, arguments)
  /\ IF Announced(i)
       THEN /\ IsPrefix(arguments, said[i]) /\ UNCHANGED said
            /\ strayed' = IF arguments = said[i] THEN strayed ELSE "contradicted"
       ELSE said' = [said EXCEPT ![i] = arguments] /\ UNCHANGED strayed
  /\ UNCHANGED <<stream, pc, calls, output, client, finish, answer, conflict, statsVars,
                 enabled, captured, entered, dump, turn, lane, messages, uncounted>>

\* Deltas behind a completion that said more contradict it.
RawDelta(i, arguments) ==
  /\ RawEvent /\ Streams(i, arguments)
  /\ SlotDelta(i, Piece(i, arguments)) /\ said' = [said EXCEPT ![i] = arguments]
  /\ strayed' = IF \A n \in Slots(i) : slots[n].arguments = said[i] THEN strayed
                ELSE "contradicted"
  /\ UNCHANGED <<stream, pc, calls, output, client, finish, answer, conflict, statsVars,
                 enabled, captured, entered, dump, turn, lane, messages, uncounted>>

\* A done event, or an item of response.completed.
RawDone(i, arguments) ==
  /\ RawEvent /\ Announced(i)
  /\ said' = [said EXCEPT ![i] = arguments]
  /\ strayed' = IF arguments = said[i] THEN strayed
                ELSE IF IsPrefix(said[i], arguments) /\ strayed # "contradicted" THEN "late"
                ELSE "contradicted"
  /\ UNCHANGED <<stream, pc, calls, output, client, finish, answer, conflict, statsVars,
                 captureVars, turn, lane, messages, uncounted>>

\* A body that is passed on reports its usage: with response.completed, the last event
\* of a raw stream, or in the one document of an error.
Reported ==
  /\ lane \in {"raw", "error"} /\ entered /\ Talking
  /\ finish' = "stop" /\ CountUsage
  /\ UNCHANGED <<stream, pc, calls, output, client, answer, said, conflict,
                 captureVars, turn, lane, messages, strayed, uncounted>>

\* Raw and error bodies end, break off or lose their client like a translated one.
PassEnd ==
  /\ lane \in {"raw", "error"} /\ Reading /\ (End \/ Break \/ Disconnect \/ Respond)
  /\ Close
  /\ UNCHANGED <<statsVars, turn, lane, messages, strayed, uncounted>>

\* The client is gone before the response starts: the generators are never entered,
\* and with them neither is the tee's finally.
NeverStarted ==
  /\ lane \in Answers /\ ~entered /\ Disconnect
  /\ UNCHANGED <<statsVars, captureVars, turn, lane, messages, strayed, uncounted>>

----------------------------------------------------------------------------

\* POST /internal/debug, at any moment.
Switch ==
  /\ Toggle(~enabled)
  /\ UNCHANGED <<vars, statsVars, turn, lane, messages, strayed, uncounted>>

\* The process dies, at any moment, and starts again.
Restart ==
  /\ "restart" \in Faults
  /\ Load
  /\ Reset /\ ~stream' /\ Boot
  /\ lane' = "none" /\ messages' = <<>> /\ strayed' = "no"
  /\ UNCHANGED <<turn, uncounted>>

ExchangeNext ==
  \/ Ask
  \/ \E way \in Lanes, named \in BOOLEAN : Begin(way, named)
  \/ Start
  \/ ChatStep
  \/ \E i \in Items, arguments \in Arguments :
       RawAdded(i, arguments) \/ RawDelta(i, arguments) \/ RawDone(i, arguments)
  \/ Reported \/ PassEnd \/ NeverStarted
  \/ Switch \/ Restart

ExchangeSpec == ExchangeInit /\ [][ExchangeNext]_exchangeVars

----------------------------------------------------------------------------
(* Properties.                                                             *)

Request == chat_to_responses(messages)
Positions(type) == {n \in DOMAIN Request.input : Request.input[n].type = type}
IdAt(n) == {call.id : call \in Request.input[n].call}

\* The calls of one turn come back to upstream in the next as upstream made them:
\* all of them, in the order they were announced, with the arguments it completed,
\* each ahead of its result, wherever the arguments came from and whatever else the
\* turn holds.
HistoryAsSaid ==
  lane = "asked" /\ (\E n \in DOMAIN messages : messages[n].calls # <<>>) =>
    /\ \E before \in 0..Len(Request.input) :
         /\ Positions("function_call") = before + 1 .. before + Count
         /\ \A i \in Items : Known(i) =>
              Request.input[before + calls[i].index].call
                = {[id |-> i, arguments |-> said[i]]}
    /\ \A n \in Positions("function_call_output") :
         \E earlier \in Positions("function_call") :
           earlier < n /\ IdAt(earlier) = IdAt(n)

\* Whatever the client sends, no text in blocks of its messages' roles is dropped or
\* doubled on the way, in the first turn or a later one.
TextKept == KeepsText(messages)

\* "records exactly once per request" (_extract_usage): no answer's usage is counted
\* twice, in memory or in what any crash leaves on disk.  Totals hold at most one
\* report for each counted request, and one for each answer whose request is not
\* counted, which the code scans too: an error, or a request that names no model.
UsageHasItsRequest ==
  /\ counted["tokens"] <= counted["requests"] + uncounted
  /\ file["tokens"] <= file["requests"] + uncounted

\* The flag as it was when the response was set up decides, whatever happened to it
\* since: of an exchange that is over, the tee's finally has run if and only if the
\* stream was captured and its reader had begun, and no exchange whose dump raised
\* has an answer that looks whole.
CapturesAreDumped ==
  answer # "none" =>
    /\ captured /\ entered <=> dump # "none"
    /\ dump = "raised" => answer \in {"502", "broken"}

\* The dump's summary of a /responses stream has one slot per call, with what the
\* stream has said of its arguments.  It misses what only a completion said, and says
\* something else only where the stream's own events contradict each other.
DumpReadsTrue ==
  lane = "raw" /\ dump = "written" =>
    /\ \A n, k \in DOMAIN slots : slots[n].item = slots[k].item => n = k
    /\ \A n \in DOMAIN slots :
         LET told == said[slots[n].item] IN
         /\ strayed = "no" => slots[n].arguments = told
         /\ strayed = "late" => IsPrefix(slots[n].arguments, told)
=============================================================================
