--------------------------- MODULE ExchangeProofs ---------------------------
(***************************************************************************)
(* Proofs about Exchange, for any conversation, any number of turns and    *)
(* any faults: the stream's promises hold from request to request, the     *)
(* counters never run ahead of the requests nor back on disk, every        *)
(* captured exchange is dumped, with what its stream has said, and what    *)
(* was said comes back, whole and in order, with the next turn.            *)
(***************************************************************************)
EXTENDS Exchange, CodexStreamProofs, ChatRequestProofs

\* A body that is passed on is not translated.
PlainInv == lane \in {"raw", "error"} => \A i \in Items : ~Known(i)

\* Every answer has one usage report to give, until its last event.
Due == IF lane \in Answers /\ finish = "none" THEN 1 ELSE 0
ReportInv ==
  /\ counted["tokens"] + Due <= counted["requests"] + uncounted
  /\ file["tokens"] <= file["requests"] + uncounted

\* What is on disk is behind what is counted at most by what a fault kept from it.
FileInv ==
  /\ gap = "none" => file = counted
  /\ gap # "unread" => \A c \in Counters : file[c] <= counted[c]

\* The tee's finally runs once, when the stream is over, and breaks it if it raises.
TeeInv ==
  IF Over THEN (captured /\ entered <=> dump # "none") /\ (dump = "raised" => pc = "raised")
  ELSE dump = "none" /\ answer = "none"

\* What a raw stream has said so far is in the slots.
Slot == [item : Items, arguments : Seq(STRING)]
SlotsInv ==
  lane = "raw" =>
    /\ \A n, k \in DOMAIN slots : slots[n].item = slots[k].item => n = k
    /\ \A i \in Items : Slots(i) = {} => said[i] = <<>>
    /\ \A n \in DOMAIN slots :
         /\ strayed = "no" => slots[n].arguments = said[slots[n].item]
         /\ strayed = "late" => IsPrefix(slots[n].arguments, said[slots[n].item])

\* A turn has one answer, which comes after it has been asked.
ReckonInv == uncounted \in 0..turn /\ (lane = "asked" => uncounted < turn)

RestTypeOK ==
  /\ StatsTypeOK /\ CaptureTypeOK /\ slots \in Seq(Slot)
  /\ turn \in 0..MaxTurns /\ lane \in Lanes
  /\ strayed \in {"no", "late", "contradicted"} /\ ReckonInv
  /\ lane # "asked" => messages = <<>>

ExchangeInv ==
  /\ CodexInv /\ RestTypeOK /\ PlainInv /\ ReportInv /\ FileInv /\ TeeInv /\ SlotsInv

\* A translated request is a conversation from its start, or the next turn of one: a
\* client that has its calls has its answer, and keeps it until upstream is called.
AskedInv ==
  lane = "asked" =>
    \/ messages = <<>>
    \/ messages \in Openings
    \/ /\ pc # "raised"
       /\ \E opening \in Openings, next \in Continuations : messages = opening \o next

----------------------------------------------------------------------------
(* The stream, under every step of the exchange.                           *)

\* Steps of a raw answer: upstream has said more, or all.
LEMMA SaidKeeps ==
  ASSUME CodexInv, PlainInv, lane = "raw", NEW i \in Items, NEW arguments \in Arguments,
         said' = [said EXCEPT ![i] = arguments],
         UNCHANGED <<stream, pc, calls, output, client, finish, answer, conflict>>
  PROVE  CodexInv'
<1>1. \A j \in Items : ~Known(j) /\ ~Known(j)'
  BY DEF PlainInv, Known
<1>2. Count' = Count
  BY DEF Count, Known
<1>3. said' \in [Items -> Arguments]
  BY DEF CodexInv, TypeOK
<1>4. TypeOK'
  BY <1>3 DEF CodexInv, TypeOK
<1>5. IndexInv' /\ SyncInv' /\ EndInv'
  BY <1>1, <1>2 DEF CodexInv, IndexInv, SyncInv, EndInv
<1>6. QED
  BY <1>4, <1>5 DEF CodexInv

LEMMA ReportedKeeps ==
  ASSUME CodexInv, PlainInv, Reported PROVE CodexInv'
<1>1. /\ lane \in {"raw", "error"} /\ pc = "open" /\ finish' = "stop"
      /\ UNCHANGED <<stream, pc, calls, output, client, answer, said, conflict>>
  BY DEF Reported, Talking
<1>2. \A i \in Items : ~Known(i)
  BY <1>1 DEF PlainInv
<1>3. Count = 0 /\ Count' = Count
  BY <1>1, <1>2, CountType DEF Count, Known
<1>4. TypeOK'
  BY <1>1 DEF CodexInv, TypeOK
<1>5. IndexInv' /\ SyncInv'
  BY <1>1, CallsStand
<1>6. EndInv'
  BY <1>1, <1>3 DEF CodexInv, EndInv
<1>7. QED
  BY <1>4, <1>5, <1>6 DEF CodexInv

LEMMA CodexPart ==
  ASSUME CodexInv, PlainInv, ExchangeNext PROVE CodexInv'
<1>1. CASE Ask \/ Start \/ Switch
  BY <1>1, CodexNext DEF Ask, Start, Switch
<1>2. ASSUME NEW way \in Lanes, NEW named \in BOOLEAN, Begin(way, named)
      PROVE  CodexInv'
  BY <1>2, CodexReset DEF Begin
<1>3. CASE ChatStep
  BY <1>3, CodexNext DEF ChatStep
<1>4. ASSUME NEW i \in Items, NEW arguments \in Arguments,
             RawAdded(i, arguments) \/ RawDelta(i, arguments) \/ RawDone(i, arguments)
      PROVE  CodexInv'
  <2>1. /\ lane = "raw"
        /\ UNCHANGED <<stream, pc, calls, output, client, finish, answer, conflict>>
    BY <1>4 DEF RawAdded, RawDelta, RawDone, RawEvent
  <2>2. said' = said \/ said' = [said EXCEPT ![i] = arguments]
    BY <1>4 DEF RawAdded, RawDelta, RawDone
  <2>3. CASE said' = said
    BY <2>1, <2>3, CodexNext DEF vars
  <2>4. CASE said' = [said EXCEPT ![i] = arguments]
    BY <2>1, <2>4, SaidKeeps
  <2>5. QED
    BY <2>2, <2>3, <2>4
<1>5. CASE Reported
  BY <1>5, ReportedKeeps
<1>6. CASE PassEnd
  BY <1>6, EndsKeep DEF PassEnd
<1>7. CASE NeverStarted
  BY <1>7, EndsKeep DEF NeverStarted
<1>8. CASE Restart
  BY <1>8, CodexReset DEF Restart
<1>9. QED
  BY <1>1, <1>2, <1>3, <1>4, <1>5, <1>6, <1>7, <1>8 DEF ExchangeNext

----------------------------------------------------------------------------
(* The counters.                                                           *)

LEMMA AddLaw ==
  ASSUME StatsTypeOK, FileInv, NEW c \in Counters, Add(c)
  PROVE  /\ StatsTypeOK' /\ FileInv'
         /\ counted' = [counted EXCEPT ![c] = counted[c] + 1]
         /\ file' = counted' \/ file' = file
         /\ gap # "unread" => \A d \in Counters : file'[d] >= file[d]
<1>1. /\ counted \in [Counters -> Nat] /\ file \in [Counters -> Nat]
      /\ gap \in {"none", "unsaved", "unread"}
  BY DEF StatsTypeOK
<1>2. counted' = [counted EXCEPT ![c] = counted[c] + 1]
  BY DEF Add
<1>3. counted' \in [Counters -> Nat] /\ \A d \in Counters : counted'[d] >= counted[d]
  BY <1>1, <1>2
<1>4. \/ file' = counted' /\ gap' = "none"
      \/ /\ file' = file
         /\ gap' = (IF gap = "none" THEN "unsaved" ELSE gap)
  BY DEF Add, Persist
<1>5. StatsTypeOK'
  BY <1>1, <1>3, <1>4 DEF StatsTypeOK
<1>6. FileInv'
  BY <1>1, <1>3, <1>4 DEF FileInv
<1>7. gap # "unread" => \A d \in Counters : file'[d] >= file[d]
  BY <1>1, <1>3, <1>4 DEF FileInv
<1>8. QED
  BY <1>2, <1>4, <1>5, <1>6, <1>7

LEMMA LoadLaw ==
  ASSUME StatsTypeOK, Load
  PROVE  /\ StatsTypeOK' /\ FileInv' /\ file' = file
         /\ counted' = file \/ counted' = Zero
<1>1. /\ file \in [Counters -> Nat] /\ file' = file
      /\ \/ counted' = file /\ gap' = "none"
         \/ counted' = Zero /\ gap' = "unread"
  BY DEF StatsTypeOK, Load
<1>2. counted' \in [Counters -> Nat]
  BY <1>1 DEF Zero
<1>3. StatsTypeOK' /\ FileInv'
  BY <1>1, <1>2 DEF StatsTypeOK, FileInv
<1>4. QED
  BY <1>1, <1>3

\* The finish_reason comes once, with the final chunk.
LEMMA FinishOnce ==
  ASSUME CodexInv, Next PROVE finish' = finish \/ (finish = "none" /\ finish' # "none")
<1>1. CASE FinalChunk
  BY <1>1 DEF CodexInv, EndInv, FinalChunk
<1>2. CASE ~FinalChunk
  BY <1>2 DEF Next, Added, Delta, Done, Completed, OutputItem, End, Break, Disconnect,
              Respond
<1>3. QED
  BY <1>1, <1>2

\* What a step of the exchange does to the counters, and to the report still due.
LEMMA StatsStep ==
  ASSUME CodexInv, ExchangeNext
  PROVE  \/ UNCHANGED <<statsVars, uncounted>> /\ Due' <= Due
         \/ UNCHANGED statsVars /\ uncounted' = uncounted + 1 /\ Due' <= Due + 1
         \/ Add("requests") /\ uncounted' \in {uncounted, uncounted + 1} /\ Due' <= Due + 1
         \/ Add("tokens") /\ UNCHANGED uncounted /\ Due = 1 /\ Due' = 0
         \/ Load /\ UNCHANGED uncounted /\ Due' = 0
<1> DEFINE Goal ==
      \/ UNCHANGED <<statsVars, uncounted>> /\ Due' <= Due
      \/ UNCHANGED statsVars /\ uncounted' = uncounted + 1 /\ Due' <= Due + 1
      \/ Add("requests") /\ uncounted' \in {uncounted, uncounted + 1} /\ Due' <= Due + 1
      \/ Add("tokens") /\ UNCHANGED uncounted /\ Due = 1 /\ Due' = 0
      \/ Load /\ UNCHANGED uncounted /\ Due' = 0
<1>0. Due \in {0, 1} /\ Due' \in {0, 1}
  BY DEF Due
<1>1. CASE Ask
  BY <1>1, <1>0 DEF Ask, Due, Answers
<1>2. ASSUME NEW way \in Lanes, NEW named \in BOOLEAN, Begin(way, named)
      PROVE  Goal
  <2>0. Due' <= Due + 1 /\ uncounted' \in {uncounted, uncounted + 1}
    BY <1>0, <1>2 DEF Begin
  <2>1. CASE Accepted(way, named)
    <3>1. Add("requests")
      BY <1>2, <2>1 DEF Begin
    <3>2. QED
      BY <2>0, <3>1
  <2>2. CASE ~Accepted(way, named)
    <3>1. UNCHANGED statsVars /\ uncounted' = uncounted + 1
      BY <1>2, <2>2 DEF Begin, Accepted
    <3>2. QED
      BY <2>0, <3>1
  <2>3. QED
    BY <2>1, <2>2
<1>3. CASE ChatStep
  <2>0. UNCHANGED uncounted
    BY <1>3 DEF ChatStep
  <2>1. CASE finish' = finish
    BY <1>3, <2>0, <2>1, <1>0 DEF ChatStep, Due
  <2>2. CASE finish' # finish
    <3>1. lane = "chat" /\ lane' = "chat" /\ Next /\ CountUsage
      BY <1>3, <2>2 DEF ChatStep
    <3>2. finish = "none" /\ finish' # "none"
      BY <3>1, <2>2, FinishOnce
    <3>3. Due = 1 /\ Due' = 0
      BY <3>1, <3>2 DEF Due, Answers
    <3>4. QED
      BY <2>0, <3>1, <3>3 DEF CountUsage
  <2>3. QED
    BY <2>1, <2>2
<1>4. ASSUME NEW i \in Items, NEW arguments \in Arguments,
             RawAdded(i, arguments) \/ RawDelta(i, arguments) \/ RawDone(i, arguments)
      PROVE  Goal
  BY <1>4, <1>0 DEF RawAdded, RawDelta, RawDone, Due, statsVars
<1>5. CASE Reported
  <2>1. /\ lane \in {"raw", "error"} /\ lane' = lane /\ finish = "none" /\ finish' = "stop"
        /\ CountUsage /\ UNCHANGED uncounted
    BY <1>5 DEF Reported, Talking
  <2>2. Due = 1 /\ Due' = 0
    BY <2>1 DEF Due, Answers
  <2>3. QED
    BY <2>1, <2>2 DEF CountUsage
<1>6. CASE PassEnd
  BY <1>6, <1>0 DEF PassEnd, End, Break, Disconnect, Respond, Due
<1>7. CASE NeverStarted
  BY <1>7, <1>0 DEF NeverStarted, Disconnect, Due
<1>8. CASE Start \/ Switch
  BY <1>8, <1>0 DEF Start, Switch, Due, vars
<1>9. CASE Restart
  BY <1>9 DEF Restart, Due, Answers
<1>10. QED
  BY <1>1, <1>2, <1>3, <1>4, <1>5, <1>6, <1>7, <1>8, <1>9 DEF ExchangeNext

LEMMA StatsPart ==
  ASSUME CodexInv, StatsTypeOK, FileInv, ReportInv, uncounted \in Nat, ExchangeNext
  PROVE  StatsTypeOK' /\ FileInv' /\ ReportInv'
<1>0. /\ "requests" \in Counters /\ "tokens" \in Counters
      /\ counted \in [Counters -> Nat] /\ file \in [Counters -> Nat]
      /\ counted["tokens"] + Due <= counted["requests"] + uncounted
      /\ file["tokens"] <= file["requests"] + uncounted
  BY DEF Counters, StatsTypeOK, ReportInv
<1>1. Due \in {0, 1} /\ Due' \in {0, 1}
  BY DEF Due
<1>2. CASE /\ UNCHANGED statsVars
           /\ \/ UNCHANGED uncounted /\ Due' <= Due
              \/ uncounted' = uncounted + 1 /\ Due' <= Due + 1
  <2>1. counted' = counted /\ file' = file /\ gap' = gap
    BY <1>2 DEF statsVars
  <2>2. StatsTypeOK' /\ FileInv'
    BY <2>1 DEF StatsTypeOK, FileInv
  <2>3. ReportInv'
    BY <2>1, <1>0, <1>1, <1>2 DEF ReportInv
  <2>4. QED
    BY <2>2, <2>3
<1>3. CASE Add("requests") /\ uncounted' \in {uncounted, uncounted + 1} /\ Due' <= Due + 1
  <2>1. /\ StatsTypeOK' /\ FileInv' /\ (file' = counted' \/ file' = file)
        /\ counted' = [counted EXCEPT !["requests"] = counted["requests"] + 1]
    BY <1>0, <1>3, AddLaw
  <2>2. counted'["requests"] = counted["requests"] + 1 /\ counted'["tokens"] = counted["tokens"]
    BY <2>1, <1>0
  <2>3. ReportInv'
    BY <2>1, <2>2, <1>0, <1>1, <1>3 DEF ReportInv
  <2>4. QED
    BY <2>1, <2>3
<1>4. CASE Add("tokens") /\ UNCHANGED uncounted /\ Due = 1 /\ Due' = 0
  <2>1. /\ StatsTypeOK' /\ FileInv' /\ (file' = counted' \/ file' = file)
        /\ counted' = [counted EXCEPT !["tokens"] = counted["tokens"] + 1]
    BY <1>0, <1>4, AddLaw
  <2>2. counted'["tokens"] = counted["tokens"] + 1 /\ counted'["requests"] = counted["requests"]
    BY <2>1, <1>0
  <2>3. ReportInv'
    BY <2>1, <2>2, <1>0, <1>1, <1>4 DEF ReportInv
  <2>4. QED
    BY <2>1, <2>3
<1>5. CASE Load /\ UNCHANGED uncounted /\ Due' = 0
  <2>1. StatsTypeOK' /\ FileInv' /\ file' = file /\ (counted' = file \/ counted' = Zero)
    BY <1>5, LoadLaw
  <2>2. counted'["tokens"] <= counted'["requests"] + uncounted
    BY <2>1, <1>0 DEF Zero
  <2>3. ReportInv'
    BY <2>1, <2>2, <1>0, <1>5 DEF ReportInv, StatsTypeOK
  <2>4. QED
    BY <2>1, <2>3
<1>6. QED
  BY <1>2, <1>3, <1>4, <1>5, StatsStep

----------------------------------------------------------------------------
(* The tee.                                                                *)

\* A step of the stream as the tee sees it: it opens nothing that is over.
LEMMA CloseLaw ==
  ASSUME CaptureTypeOK, TeeInv, Close, Over => pc' = pc, Over' \/ answer' = answer,
         Over \/ entered
  PROVE  /\ CaptureTypeOK' /\ TeeInv' /\ slots' = slots
<1>1. CASE ~Over /\ Over'
  <2>1. /\ dump = "none" /\ enabled' = enabled /\ captured' = captured
        /\ entered' = entered /\ slots' = slots /\ entered
    BY <1>1 DEF TeeInv, Close, Unwrap
  <2>2. /\ IF captured THEN dump' \in {"written", "failed", "raised"} ELSE dump' = dump
        /\ dump' = "raised" => pc' = "raised"
    BY <1>1 DEF Close, Unwrap, Capturing, WriteDump
  <2>3. CaptureTypeOK'
    BY <2>1, <2>2 DEF CaptureTypeOK
  <2>4. TeeInv'
    BY <1>1, <2>1, <2>2 DEF TeeInv
  <2>5. QED
    BY <2>1, <2>3, <2>4
<1>2. CASE ~(~Over /\ Over')
  <2>1. UNCHANGED captureVars
    BY <1>2 DEF Close
  <2>2. /\ enabled' = enabled /\ captured' = captured /\ entered' = entered
        /\ dump' = dump /\ slots' = slots
    BY <2>1 DEF captureVars
  <2>3. CaptureTypeOK'
    BY <2>2 DEF CaptureTypeOK
  <2>4. TeeInv'
    BY <1>2, <2>2 DEF TeeInv, Over
  <2>5. QED
    BY <2>2, <2>3, <2>4
<1>3. QED
  BY <1>1, <1>2

LEMMA OverStays ==
  ASSUME Next PROVE (Over => pc' = pc) /\ (Over' \/ answer' = answer)
<1>1. CASE Respond
  BY <1>1 DEF Respond, Over
<1>2. CASE OutputItem
  BY <1>2 DEF OutputItem, Complete, Over
<1>3. CASE ~Respond /\ ~OutputItem
  BY <1>3 DEF Next, Added, Delta, Done, Complete, Completed, FinalChunk, End, Break,
              Disconnect, Talking, Over
<1>4. QED
  BY <1>1, <1>2, <1>3

LEMMA TeePart ==
  ASSUME CaptureTypeOK, TeeInv, ExchangeNext PROVE CaptureTypeOK' /\ TeeInv'
<1>1. CASE Ask
  BY <1>1 DEF Ask, vars, captureVars, CaptureTypeOK, TeeInv, Over
<1>2. ASSUME NEW way \in Lanes, NEW named \in BOOLEAN, Begin(way, named)
      PROVE  CaptureTypeOK' /\ TeeInv'
  <2>1. pc' = "open" /\ answer' = "none"
    BY <1>2 DEF Begin, Reset
  <2>2. /\ captured' = enabled /\ dump' = "none" /\ enabled' = enabled
        /\ entered' = FALSE
    BY <1>2 DEF Begin, Wrap
  <2>3. QED
    BY <2>1, <2>2 DEF CaptureTypeOK, TeeInv, Over
<1>3. CASE ChatStep
  <2>1. Next /\ Close /\ (Over \/ entered)
    BY <1>3 DEF ChatStep, Reading
  <2>2. QED
    BY <2>1, OverStays, CloseLaw
<1>4. ASSUME NEW i \in Items, NEW arguments \in Arguments,
             RawAdded(i, arguments) \/ RawDelta(i, arguments) \/ RawDone(i, arguments)
      PROVE  CaptureTypeOK' /\ TeeInv'
  BY <1>4 DEF RawAdded, RawDelta, RawDone, captureVars, CaptureTypeOK, TeeInv, Over
<1>5. CASE Reported
  BY <1>5 DEF Reported, captureVars, CaptureTypeOK, TeeInv, Over
<1>6. CASE PassEnd
  <2>1. Close /\ (Over => pc' = pc) /\ (Over' \/ answer' = answer) /\ (Over \/ entered)
    BY <1>6 DEF PassEnd, Reading, End, Break, Disconnect, Respond, Over
  <2>2. QED
    BY <2>1, CloseLaw
<1>7. CASE NeverStarted
  BY <1>7 DEF NeverStarted, Disconnect, captureVars, CaptureTypeOK, TeeInv, Over
<1>8. CASE Switch
  <2>1. enabled' = ~enabled /\ UNCHANGED <<captured, entered, dump, slots, pc, answer>>
    BY <1>8 DEF Switch, Toggle, vars
  <2>2. enabled' \in BOOLEAN
    BY <2>1
  <2>3. QED
    BY <2>1, <2>2 DEF CaptureTypeOK, TeeInv, Over
<1>9. CASE Restart
  BY <1>9 DEF Restart, Reset, Boot, CaptureTypeOK, TeeInv, Over
<1>10. CASE Start
  BY <1>10 DEF Start, Enter, vars, CaptureTypeOK, TeeInv, Over
<1>11. QED
  BY <1>1, <1>2, <1>3, <1>4, <1>5, <1>6, <1>7, <1>8, <1>9, <1>10 DEF ExchangeNext

----------------------------------------------------------------------------
(* The slots.                                                              *)

LEMMA PrefixIs ==
  ASSUME NEW s \in Seq(STRING), NEW t \in Seq(STRING)
  PROVE  IsPrefix(s, t) <=> Len(s) <= Len(t) /\ \A n \in 1..Len(s) : s[n] = t[n]
<1>1. Len(s) \in Nat /\ Len(t) \in Nat
  BY LenProperties
<1>2. SubSeq(s, 1, Len(s)) = s
  BY SubSeqFull
<1> SUFFICES ASSUME Len(s) <= Len(t)
             PROVE  s = SubSeq(t, 1, Len(s)) <=> \A n \in 1..Len(s) : s[n] = t[n]
  BY <1>2 DEF IsPrefix
<1> DEFINE front == SubSeq(t, 1, Len(s))
<1>3. \A n \in 1..Len(s) : t[n] \in STRING
  BY <1>1, ElementOfSeq
<1>4. /\ front \in Seq(STRING) /\ Len(front) = Len(s)
      /\ \A n \in 1..Len(s) : front[n] = t[n]
  BY <1>1, <1>3, SubSeqProperties
<1> HIDE DEF front
<1>5. (\A n \in 1..Len(s) : s[n] = t[n]) => s = front
  BY <1>4, SeqEqual
<1>6. s = front => \A n \in 1..Len(s) : s[n] = t[n]
  BY <1>4
<1>7. QED
  BY <1>5, <1>6 DEF front

LEMMA PrefixOfItself == ASSUME NEW s \in Seq(STRING) PROVE IsPrefix(s, s)
  BY PrefixIs, LenProperties

LEMMA PrefixOfPrefix ==
  ASSUME NEW s \in Seq(STRING), NEW t \in Seq(STRING), NEW u \in Seq(STRING),
         IsPrefix(s, t), IsPrefix(t, u)
  PROVE  IsPrefix(s, u)
<1>1. Len(s) \in Nat /\ Len(t) \in Nat /\ Len(u) \in Nat
  BY LenProperties
<1>2. /\ Len(s) <= Len(t) /\ \A n \in 1..Len(s) : s[n] = t[n]
      /\ Len(t) <= Len(u) /\ \A n \in 1..Len(t) : t[n] = u[n]
  BY PrefixIs
<1>3. Len(s) <= Len(u) /\ \A n \in 1..Len(s) : s[n] = u[n]
  BY <1>1, <1>2
<1>4. QED
  BY <1>3, PrefixIs

LEMMA SlotsStand ==
  ASSUME SlotsInv, UNCHANGED <<slots, said, strayed>>, lane' = "raw" => lane = "raw"
  PROVE  SlotsInv'
  BY DEF SlotsInv, Slots

\* A new slot.
LEMMA SlotOpens ==
  ASSUME CodexInv, slots \in Seq(Slot), SlotsInv, lane = "raw",
         NEW i \in Items, NEW arguments \in Arguments, Slots(i) = {},
         slots' = Append(slots, [item |-> i, arguments |-> arguments]),
         said' = [said EXCEPT ![i] = arguments], UNCHANGED <<strayed, lane>>
  PROVE  slots' \in Seq(Slot) /\ SlotsInv'
<1> DEFINE new == [item |-> i, arguments |-> arguments]
           last == Len(slots) + 1
<1>1. new \in Slot
  BY ArgumentsAreTexts DEF Slot
<1>2. Len(slots) \in Nat /\ DOMAIN slots = 1..Len(slots)
  BY LenProperties
<1>3. /\ slots' \in Seq(Slot) /\ Len(slots') = last /\ slots'[last] = new
      /\ \A n \in 1..Len(slots) : slots'[n] = slots[n]
  BY <1>1, AppendProperties
<1>4. DOMAIN slots' = 1..last
  BY <1>3, LenProperties
<1>5. \A n \in 1..Len(slots) : slots[n].item # i
  BY <1>2 DEF Slots
<1>6. said'[i] = arguments /\ \A j \in Items \ {i} : said'[j] = said[j]
  BY DEF CodexInv, TypeOK
<1>7. \A n \in 1..Len(slots) : slots[n].item \in Items
  <2>1. \A n \in 1..Len(slots) : slots[n] \in Slot
    BY ElementOfSeq
  <2>2. QED
    BY <2>1 DEF Slot
<1>8. ASSUME NEW n \in DOMAIN slots', NEW k \in DOMAIN slots', slots'[n].item = slots'[k].item
      PROVE  n = k
  BY <1>2, <1>3, <1>4, <1>5, <1>8 DEF SlotsInv
<1>9. ASSUME NEW j \in Items, Slots(j)' = {} PROVE said'[j] = <<>>
  <2>1. last \in DOMAIN slots' /\ slots'[last].item = i
    BY <1>2, <1>3, <1>4
  <2>2. j # i
    BY <2>1, <1>9 DEF Slots
  <2>3. Slots(j) = {}
    BY <1>2, <1>3, <1>4, <1>9 DEF Slots
  <2>4. QED
    BY <2>2, <2>3, <1>6 DEF SlotsInv
<1>10. ASSUME NEW n \in DOMAIN slots'
       PROVE  /\ strayed' = "no" => slots'[n].arguments = said'[slots'[n].item]
              /\ strayed' = "late" => IsPrefix(slots'[n].arguments, said'[slots'[n].item])
  <2>1. CASE n = last
    <3>1. slots'[n].arguments = arguments /\ said'[slots'[n].item] = arguments
      BY <2>1, <1>3, <1>6
    <3>2. QED
      BY <3>1, ArgumentsAreTexts, PrefixOfItself
  <2>2. CASE n # last
    <3>1. n \in 1..Len(slots)
      BY <2>2, <1>2, <1>4
    <3>2. slots'[n] = slots[n] /\ said'[slots[n].item] = said[slots[n].item]
      BY <3>1, <1>3, <1>5, <1>6, <1>7
    <3>3. QED
      BY <3>1, <3>2, <1>2 DEF SlotsInv
  <2>3. QED
    BY <2>1, <2>2
<1>11. QED
  BY <1>3, <1>8, <1>9, <1>10 DEF SlotsInv

\* A slot is given other contents: all that is said of its call, or the stream has
\* contradicted itself.
LEMMA SlotChanges ==
  ASSUME CodexInv, slots \in Seq(Slot), SlotsInv, lane = "raw", UNCHANGED lane,
         NEW i \in Items, NEW held \in Seq(STRING), NEW told \in Arguments, Slots(i) # {},
         \A n \in Slots(i) : slots'[n] = [item |-> i, arguments |-> held],
         \A n \in DOMAIN slots \ Slots(i) : slots'[n] = slots[n],
         slots' \in Seq(Slot), DOMAIN slots' = DOMAIN slots,
         said' = [said EXCEPT ![i] = told],
         (UNCHANGED strayed /\ held = told) \/ strayed' = "contradicted"
  PROVE  SlotsInv'
<1>1. DOMAIN slots = 1..Len(slots)
  BY LenProperties
<1>2. \A n \in DOMAIN slots : slots[n] \in Slot
  BY <1>1, ElementOfSeq
<1>3. \A n \in Slots(i) : slots'[n].item = i /\ slots'[n].arguments = held
  OBVIOUS
<1>4. \A n \in DOMAIN slots : slots'[n].item = slots[n].item
  BY <1>3 DEF Slots
<1>5. \A j \in Items : Slots(j)' = Slots(j)
  BY <1>4 DEF Slots
<1>6. said'[i] = told /\ \A j \in Items \ {i} : said'[j] = said[j]
  BY DEF CodexInv, TypeOK
<1>7. ASSUME NEW n \in DOMAIN slots'
      PROVE  /\ strayed' = "no" => slots'[n].arguments = said'[slots'[n].item]
             /\ strayed' = "late" => IsPrefix(slots'[n].arguments, said'[slots'[n].item])
  <2>1. CASE strayed' = "contradicted"
    BY <2>1
  <2>2. CASE UNCHANGED strayed /\ held = told /\ n \in Slots(i)
    <3>1. slots'[n].arguments = told /\ said'[slots'[n].item] = told
      BY <2>2, <1>3, <1>6
    <3>2. QED
      BY <3>1, ArgumentsAreTexts, PrefixOfItself
  <2>3. CASE UNCHANGED strayed /\ n \notin Slots(i)
    <3>1. n \in DOMAIN slots /\ slots[n].item # i /\ slots[n].item \in Items
      BY <2>3, <1>2 DEF Slots, Slot
    <3>2. slots'[n] = slots[n] /\ said'[slots[n].item] = said[slots[n].item]
      BY <3>1, <2>3, <1>6
    <3>3. QED
      BY <2>3, <3>1, <3>2 DEF SlotsInv
  <2>4. QED
    BY <2>1, <2>2, <2>3
<1>8. \A n, k \in DOMAIN slots' : slots'[n].item = slots'[k].item => n = k
  BY <1>4 DEF SlotsInv
<1>9. \A j \in Items : Slots(j)' = {} => said'[j] = <<>>
  BY <1>5, <1>6 DEF SlotsInv
<1>10. QED
  BY <1>7, <1>8, <1>9 DEF SlotsInv

\* Slots stay slots when those of one call are replaced.
LEMMA SlotsReplaced ==
  ASSUME slots \in Seq(Slot), NEW i \in Items, NEW new \in Slot,
         slots' = [n \in DOMAIN slots |-> IF n \in Slots(i) THEN new ELSE slots[n]]
  PROVE  /\ slots' \in Seq(Slot) /\ DOMAIN slots' = DOMAIN slots
         /\ \A n \in Slots(i) : slots'[n] = new
         /\ \A n \in DOMAIN slots \ Slots(i) : slots'[n] = slots[n]
<1>1. Len(slots) \in Nat /\ DOMAIN slots = 1..Len(slots)
  BY LenProperties
<1>2. \A n \in DOMAIN slots : slots[n] \in Slot
  BY <1>1, ElementOfSeq
<1>3. slots' \in [1..Len(slots) -> Slot]
  BY <1>1, <1>2
<1>4. slots' \in Seq(Slot)
  BY <1>1, <1>3
<1>5. \A n \in Slots(i) : n \in DOMAIN slots
  BY DEF Slots
<1>6. QED
  BY <1>4, <1>5

LEMMA RawAddedSlots ==
  ASSUME CodexInv, slots \in Seq(Slot), SlotsInv, NEW i \in Items,
         NEW arguments \in Arguments, RawAdded(i, arguments)
  PROVE  slots' \in Seq(Slot) /\ SlotsInv'
<1>1. lane = "raw" /\ lane' = lane /\ SlotAdded(i, arguments)
  BY DEF RawAdded, RawEvent
<1>2. CASE Slots(i) = {}
  <2>1. said' = [said EXCEPT ![i] = arguments] /\ UNCHANGED strayed
    BY <1>2 DEF RawAdded, Announced
  <2>2. slots' = Append(slots, [item |-> i, arguments |-> arguments])
    BY <1>1, <1>2 DEF SlotAdded
  <2>3. QED
    BY <1>1, <1>2, <2>1, <2>2, SlotOpens
<1>3. CASE Slots(i) # {}
  <2>1. /\ said' = said
        /\ strayed' = IF arguments = said[i] THEN strayed ELSE "contradicted"
    BY <1>3 DEF RawAdded, Announced
  <2>2. PICK held \in Seq(STRING), told \in Arguments : held = arguments /\ told = said[i]
    BY ArgumentsAreTexts DEF CodexInv, TypeOK
  <2>3. said' = [said EXCEPT ![i] = told]
    BY <2>1, <2>2 DEF CodexInv, TypeOK
  <2>4. PICK new \in Slot : new = [item |-> i, arguments |-> held]
    BY DEF Slot
  <2>5. slots' = [n \in DOMAIN slots |-> IF n \in Slots(i) THEN new ELSE slots[n]]
    BY <1>1, <1>3, <2>2, <2>4 DEF SlotAdded
  <2>6. /\ slots' \in Seq(Slot) /\ DOMAIN slots' = DOMAIN slots
        /\ \A n \in Slots(i) : slots'[n] = new
        /\ \A n \in DOMAIN slots \ Slots(i) : slots'[n] = slots[n]
    BY <2>5, SlotsReplaced
  <2>7. (UNCHANGED strayed /\ held = told) \/ strayed' = "contradicted"
    BY <2>1, <2>2
  <2>8. QED
    BY <1>1, <1>3, <2>3, <2>4, <2>6, <2>7, SlotChanges
<1>4. QED
  BY <1>2, <1>3

LEMMA RawDeltaSlots ==
  ASSUME CodexInv, slots \in Seq(Slot), SlotsInv, NEW i \in Items,
         NEW arguments \in Arguments, RawDelta(i, arguments)
  PROVE  slots' \in Seq(Slot) /\ SlotsInv'
<1> DEFINE piece == Piece(i, arguments)
<1>1. /\ lane = "raw" /\ lane' = lane /\ Streams(i, arguments)
      /\ said' = [said EXCEPT ![i] = arguments] /\ SlotDelta(i, piece)
      /\ strayed' = IF \A n \in Slots(i) : slots[n].arguments = said[i] THEN strayed
                    ELSE "contradicted"
  BY DEF RawDelta, RawEvent
<1>2. said[i] \in Seq(STRING) /\ arguments \in Seq(STRING)
  BY ArgumentsAreTexts DEF CodexInv, TypeOK
<1>3. piece \in Seq(STRING) /\ said[i] \o piece = arguments
  BY <1>1, <1>2, PieceLaw DEF Streams, Piece, IsStrictPrefix
<1> HIDE DEF piece
<1>4. CASE Slots(i) = {}
  <2>1. said[i] = <<>> /\ UNCHANGED strayed
    BY <1>1, <1>4 DEF SlotsInv
  <2>2. piece = arguments
    BY <2>1, <1>3, ConcatEmptySeq
  <2>3. slots' = Append(slots, [item |-> i, arguments |-> arguments])
    BY <1>1, <1>4, <2>2 DEF SlotDelta
  <2>4. QED
    BY <1>1, <1>4, <2>1, <2>3, SlotOpens
<1>5. CASE Slots(i) # {}
  <2>1. PICK s \in Slots(i) : TRUE
    BY <1>5
  <2>2. /\ s \in DOMAIN slots /\ slots[s].item = i
        /\ \A n \in Slots(i) : n = s
    BY <1>1, <2>1 DEF Slots, SlotsInv
  <2>3. slots[s] \in Slot
    BY <2>2, LenProperties, ElementOfSeq
  <2>4. PICK held \in Seq(STRING) : held = slots[s].arguments \o piece
    BY <2>3, <1>3, ConcatProperties DEF Slot
  <2>5. PICK new \in Slot : new = [item |-> i, arguments |-> held]
    BY DEF Slot
  <2>6. [slots[s] EXCEPT !.arguments = slots[s].arguments \o piece] = new
    <3>1. slots[s] = [item |-> i, arguments |-> slots[s].arguments]
      BY <2>2, <2>3 DEF Slot
    <3>2. PICK rest : rest = slots[s].arguments
      OBVIOUS
    <3>3. [[item |-> i, arguments |-> rest] EXCEPT !.arguments = held]
            = [item |-> i, arguments |-> held]
      OBVIOUS
    <3>4. [slots[s] EXCEPT !.arguments = held] = [item |-> i, arguments |-> held]
      BY <3>1, <3>2, <3>3
    <3>5. QED
      BY <2>4, <2>5, <3>4
  <2>7. slots' = [n \in DOMAIN slots |-> IF n \in Slots(i) THEN new ELSE slots[n]]
    <3>1. slots' = [n \in DOMAIN slots |-> IF n \in Slots(i)
                      THEN [slots[n] EXCEPT !.arguments = slots[n].arguments \o piece]
                      ELSE slots[n]]
      BY <1>1, <1>5 DEF SlotDelta
    <3>2. \A n \in Slots(i) :
            [slots[n] EXCEPT !.arguments = slots[n].arguments \o piece] = new
      BY <2>2, <2>6, Zenon
    <3>3. QED
      BY <3>1, <3>2, Zenon
  <2>8. /\ slots' \in Seq(Slot) /\ DOMAIN slots' = DOMAIN slots
        /\ \A n \in Slots(i) : slots'[n] = new
        /\ \A n \in DOMAIN slots \ Slots(i) : slots'[n] = slots[n]
    BY <2>7, SlotsReplaced
  <2>9. (UNCHANGED strayed /\ held = arguments) \/ strayed' = "contradicted"
    <3>1. CASE slots[s].arguments = said[i]
      <4>1. UNCHANGED strayed
        BY <1>1, <2>2, <3>1, Zenon
      <4>2. held = arguments
        BY <1>3, <2>4, <3>1, Zenon
      <4>3. QED
        BY <4>1, <4>2
    <3>2. CASE slots[s].arguments # said[i]
      BY <1>1, <2>1, <3>2
    <3>3. QED
      BY <3>1, <3>2
  <2>10. QED
    BY <1>1, <1>5, <2>5, <2>8, <2>9, SlotChanges
<1>6. QED
  BY <1>4, <1>5

\* A completion adds nothing to the slots, and may leave them behind.
LEMMA RawDoneSlots ==
  ASSUME CodexInv, RestTypeOK, SlotsInv, NEW i \in Items,
         NEW arguments \in Arguments, RawDone(i, arguments)
  PROVE  slots' \in Seq(Slot) /\ SlotsInv'
<1>1. /\ slots' = slots /\ lane = "raw" /\ lane' = lane /\ Slots(i) # {}
      /\ said' = [said EXCEPT ![i] = arguments]
      /\ strayed' = IF arguments = said[i] THEN strayed
                     ELSE IF IsPrefix(said[i], arguments) /\ strayed # "contradicted"
                       THEN "late" ELSE "contradicted"
  BY DEF RawDone, RawEvent, Announced, captureVars
<1>2. /\ slots \in Seq(Slot) /\ strayed \in {"no", "late", "contradicted"}
      /\ said \in [Items -> Arguments]
  BY DEF RestTypeOK, CodexInv, TypeOK
<1>3. \A n \in DOMAIN slots : slots[n].item \in Items /\ slots[n].arguments \in Seq(STRING)
  <2>1. \A n \in DOMAIN slots : slots[n] \in Slot
    BY <1>2, LenProperties, ElementOfSeq
  <2>2. QED
    BY <2>1 DEF Slot
<1>4. \A j \in Items : Slots(j)' = Slots(j)
  BY <1>1 DEF Slots
<1>5. said'[i] = arguments /\ \A j \in Items \ {i} : said'[j] = said[j]
  BY <1>1, <1>2
<1>6. \A j \in Items : Slots(j)' = {} => said'[j] = <<>>
  BY <1>1, <1>4, <1>5 DEF SlotsInv
<1>7. ASSUME NEW n \in DOMAIN slots
      PROVE  /\ strayed' = "no" => slots[n].arguments = said'[slots[n].item]
             /\ strayed' = "late" => IsPrefix(slots[n].arguments, said'[slots[n].item])
  <2> DEFINE item == slots[n].item
             held == slots[n].arguments
  <2>1. item \in Items /\ held \in Seq(STRING) /\ said[item] \in Seq(STRING)
        /\ arguments \in Seq(STRING)
    BY <1>2, <1>3, ArgumentsAreTexts
  <2>2. /\ strayed = "no" => held = said[item]
        /\ strayed = "late" => IsPrefix(held, said[item])
    BY <1>1 DEF SlotsInv
  <2> HIDE DEF item, held
  <2>3. IsPrefix(said[item], said[item])
    BY <2>1, PrefixOfItself
  <2>4. strayed \in {"no", "late"} => IsPrefix(held, said[item])
    BY <2>2, <2>3
  <2>5. CASE arguments = said[i]
    <3>1. strayed' = strayed /\ said'[item] = said[item]
      BY <1>1, <1>5, <2>1, <2>5
    <3>2. QED
      BY <3>1, <2>2 DEF item, held
  <2>6. CASE arguments # said[i] /\ IsPrefix(said[i], arguments) /\ strayed # "contradicted"
    <3>1. strayed' = "late" /\ IsPrefix(held, said[item])
      BY <1>1, <1>2, <2>4, <2>6
    <3>2. IsPrefix(held, said'[item])
      <4>1. CASE item = i
        BY <4>1, <3>1, <2>1, <2>6, <1>5, PrefixOfPrefix
      <4>2. CASE item # i
        BY <4>2, <3>1, <2>1, <1>5
      <4>3. QED
        BY <4>1, <4>2
    <3>3. QED
      BY <3>1, <3>2 DEF item, held
  <2>7. CASE /\ arguments # said[i]
             /\ ~(IsPrefix(said[i], arguments) /\ strayed # "contradicted")
    BY <2>7, <1>1
  <2>8. QED
    BY <2>5, <2>6, <2>7
<1>8. QED
  BY <1>1, <1>2, <1>6, <1>7 DEF SlotsInv

LEMMA SlotsPart ==
  ASSUME CodexInv, RestTypeOK, TeeInv, SlotsInv, ExchangeNext
  PROVE  slots' \in Seq(Slot) /\ SlotsInv'
<1>0. slots \in Seq(Slot) /\ CaptureTypeOK
  BY DEF RestTypeOK
<1>1. CASE Ask
  <2>1. slots' = slots /\ lane' = "asked"
    BY <1>1 DEF Ask, captureVars
  <2>2. QED
    BY <2>1, <1>0 DEF SlotsInv
<1>2. ASSUME slots' = <<>>, said' = [i \in Items |-> <<>>]
      PROVE  slots' \in Seq(Slot) /\ SlotsInv'
  <2>1. slots' \in Seq(Slot) /\ DOMAIN slots' = {}
    BY <1>2, EmptySeq
  <2>2. \A i \in Items : said'[i] = <<>>
    BY <1>2
  <2>3. QED
    BY <2>1, <2>2 DEF SlotsInv
<1>3. ASSUME NEW way \in Lanes, NEW named \in BOOLEAN, Begin(way, named)
      PROVE  slots' \in Seq(Slot) /\ SlotsInv'
  BY <1>2, <1>3 DEF Begin, Wrap, Reset
<1>4. CASE ChatStep
  <2>1. slots' = slots /\ lane' # "raw"
    BY <1>0, <1>4, OverStays, CloseLaw DEF ChatStep, Reading
  <2>2. QED
    BY <2>1, <1>0 DEF SlotsInv
<1>5. ASSUME NEW i \in Items, NEW arguments \in Arguments,
             RawAdded(i, arguments) \/ RawDelta(i, arguments) \/ RawDone(i, arguments)
      PROVE  slots' \in Seq(Slot) /\ SlotsInv'
  BY <1>0, <1>5, RawAddedSlots, RawDeltaSlots, RawDoneSlots
<1>6. CASE Reported
  BY <1>0, <1>6, SlotsStand DEF Reported, captureVars
<1>7. CASE PassEnd
  <2>1. /\ Close /\ (Over => pc' = pc) /\ (Over' \/ answer' = answer) /\ (Over \/ entered)
        /\ UNCHANGED <<said, strayed, lane>>
    BY <1>7 DEF PassEnd, Reading, End, Break, Disconnect, Respond, Over
  <2>2. slots' = slots
    BY <2>1, <1>0, CloseLaw
  <2>3. QED
    BY <2>1, <2>2, <1>0, SlotsStand
<1>8. CASE NeverStarted
  BY <1>0, <1>8, SlotsStand DEF NeverStarted, Disconnect, captureVars
<1>9. CASE Start \/ Switch
  BY <1>0, <1>9, SlotsStand DEF Start, Enter, Switch, Toggle, vars
<1>10. CASE Restart
  BY <1>2, <1>10 DEF Restart, Boot, Reset
<1>11. QED
  BY <1>1, <1>3, <1>4, <1>5, <1>6, <1>7, <1>8, <1>9, <1>10 DEF ExchangeNext

----------------------------------------------------------------------------
(* The invariant.                                                          *)

LEMMA ExchangeInitially == ExchangeInit => ExchangeInv
<1> SUFFICES ASSUME ExchangeInit PROVE ExchangeInv
  OBVIOUS
<1>1. CodexInv /\ pc = "open" /\ answer = "none" /\ finish = "none"
  BY CodexInit DEF ExchangeInit, Init
<1>2. /\ counted = Zero /\ file = Zero /\ gap = "none" /\ Zero \in [Counters -> Nat]
      /\ Zero["tokens"] = 0 /\ Zero["requests"] = 0
  BY DEF ExchangeInit, StatsInit, Zero, Counters
<1>3. /\ enabled \in BOOLEAN /\ captured = FALSE /\ entered = FALSE
      /\ dump = "none" /\ slots = <<>>
  BY DEF ExchangeInit, CaptureInit
<1>4. turn = 0 /\ lane = "none" /\ messages = <<>> /\ strayed = "no" /\ uncounted = 0
  BY DEF ExchangeInit
<1>5. slots \in Seq(Slot)
  BY <1>3, EmptySeq
<1>6. RestTypeOK
  <2>1. StatsTypeOK
    BY <1>2 DEF StatsTypeOK
  <2>2. CaptureTypeOK
    BY <1>3 DEF CaptureTypeOK
  <2>3. turn \in 0..MaxTurns /\ lane \in Lanes /\ ReckonInv
    BY <1>4, ExchangeAssumption DEF Lanes, ReckonInv
  <2>4. QED
    BY <2>1, <2>2, <2>3, <1>4, <1>5 DEF RestTypeOK
<1>7. PlainInv /\ SlotsInv
  BY <1>4 DEF PlainInv, SlotsInv
<1>8. ReportInv /\ FileInv
  BY <1>2, <1>4 DEF ReportInv, FileInv, Due, Answers, StatsTypeOK
<1>9. TeeInv
  BY <1>1, <1>3 DEF TeeInv, Over
<1>10. QED
  BY <1>1, <1>6, <1>7, <1>8, <1>9 DEF ExchangeInv

LEMMA PlainPart ==
  ASSUME PlainInv, ExchangeNext PROVE PlainInv'
<1>1. ASSUME NEW way \in Lanes, NEW named \in BOOLEAN, Begin(way, named)
      PROVE  PlainInv'
  BY <1>1 DEF Begin, Reset, PlainInv, Known, NoCall
<1>2. CASE \E way \in Lanes, named \in BOOLEAN : Begin(way, named)
  BY <1>1, <1>2
<1>3. CASE ~\E way \in Lanes, named \in BOOLEAN : Begin(way, named)
  <2>1. lane' \in {"raw", "error"} => lane \in {"raw", "error"} /\ calls' = calls
    BY <1>3 DEF ExchangeNext, Ask, Start, ChatStep, RawAdded, RawDelta, RawDone, Reported,
                PassEnd, NeverStarted, End, Break, Disconnect, Respond, Switch, Restart,
                vars
  <2>2. QED
    BY <2>1 DEF PlainInv, Known
<1>4. QED
  BY <1>2, <1>3

LEMMA ScopePart ==
  ASSUME RestTypeOK, ExchangeNext
  PROVE  /\ turn' \in 0..MaxTurns /\ lane' \in Lanes
         /\ strayed' \in {"no", "late", "contradicted"} /\ ReckonInv'
         /\ lane' # "asked" => messages' = <<>>
<1>0. /\ turn \in 0..MaxTurns /\ lane \in Lanes /\ MaxTurns \in Nat
      /\ strayed \in {"no", "late", "contradicted"}
      /\ uncounted \in 0..turn /\ (lane = "asked" => uncounted < turn)
      /\ lane # "asked" => messages = <<>>
  BY ExchangeAssumption DEF RestTypeOK, ReckonInv
<1>1. CASE Ask
  BY <1>0, <1>1 DEF Ask, Lanes, ReckonInv
<1>2. ASSUME NEW way \in Lanes, NEW named \in BOOLEAN, Begin(way, named)
      PROVE  /\ turn' = turn /\ lane' \in Lanes /\ strayed' = "no" /\ messages' = <<>>
             /\ ReckonInv'
  BY <1>0, <1>2 DEF Begin, Ways, ReckonInv
<1>3. CASE Start \/ ChatStep \/ Reported \/ PassEnd \/ NeverStarted \/ Switch
  BY <1>0, <1>3 DEF Start, ChatStep, Reported, PassEnd, NeverStarted, Switch, ReckonInv
<1>4. ASSUME NEW i \in Items, NEW arguments \in Arguments,
             RawAdded(i, arguments) \/ RawDelta(i, arguments) \/ RawDone(i, arguments)
      PROVE  /\ turn' = turn /\ lane' = lane /\ messages' = messages
             /\ strayed' \in {"no", "late", "contradicted"} /\ uncounted' = uncounted
  BY <1>0, <1>4 DEF RawAdded, RawDelta, RawDone
<1>5. CASE Restart
  BY <1>0, <1>5 DEF Restart, Lanes, ReckonInv
<1>6. QED
  BY <1>0, <1>1, <1>2, <1>3, <1>4, <1>5 DEF ExchangeNext, ReckonInv

LEMMA ExchangeInvNext ==
  ASSUME ExchangeInv, [ExchangeNext]_exchangeVars PROVE ExchangeInv'
<1>0. /\ CodexInv /\ RestTypeOK /\ PlainInv /\ ReportInv /\ FileInv /\ TeeInv /\ SlotsInv
      /\ StatsTypeOK /\ CaptureTypeOK /\ uncounted \in Nat
  BY DEF ExchangeInv, RestTypeOK, ReckonInv
<1>1. CASE ExchangeNext
  <2>1. CodexInv' /\ PlainInv'
    BY <1>0, <1>1, CodexPart, PlainPart
  <2>2. StatsTypeOK' /\ FileInv' /\ ReportInv'
    BY <1>0, <1>1, StatsPart
  <2>3. CaptureTypeOK' /\ TeeInv'
    BY <1>0, <1>1, TeePart
  <2>4. slots' \in Seq(Slot) /\ SlotsInv'
    BY <1>0, <1>1, SlotsPart
  <2>5. RestTypeOK'
    BY <1>0, <1>1, <2>2, <2>3, <2>4, ScopePart DEF RestTypeOK
  <2>6. QED
    BY <2>1, <2>2, <2>3, <2>4, <2>5 DEF ExchangeInv
<1>2. CASE UNCHANGED exchangeVars
  <2>1. UNCHANGED vars /\ UNCHANGED statsVars /\ UNCHANGED captureVars
        /\ UNCHANGED <<turn, lane, messages, strayed, uncounted>>
    BY <1>2 DEF exchangeVars
  <2>2. CodexInv'
    BY <1>0, <2>1, CodexNext
  <2>3. StatsTypeOK' /\ FileInv' /\ ReportInv'
    BY <1>0, <2>1 DEF statsVars, vars, StatsTypeOK, FileInv, ReportInv, Due
  <2>4. CaptureTypeOK' /\ TeeInv' /\ SlotsInv' /\ PlainInv'
    BY <1>0, <2>1 DEF captureVars, vars, CaptureTypeOK, TeeInv, Over, SlotsInv, Slots,
                      PlainInv, Known
  <2>5. RestTypeOK'
    BY <1>0, <2>1, <2>3, <2>4 DEF captureVars, RestTypeOK, ReckonInv
  <2>6. QED
    BY <2>2, <2>3, <2>4, <2>5 DEF ExchangeInv
<1>3. QED
  BY <1>1, <1>2

LEMMA ExchangeInvariance == ExchangeSpec => []ExchangeInv
<1>1. ExchangeInv /\ [ExchangeNext]_exchangeVars => ExchangeInv'
  BY ExchangeInvNext
<1>2. QED
  BY <1>1, ExchangeInitially, PTL DEF ExchangeSpec

----------------------------------------------------------------------------
(* The next request.                                                       *)

\* The calls the client has.
Made == {i \in Items : Known(i)}

\* Nothing but the stream moves a client's next turn.
LEMMA ContinuationsStand ==
  ASSUME UNCHANGED vars PROVE Continuations' = Continuations
<1>1. calls' = calls /\ client' = client
  BY DEF vars
<1>2. Assembled' = Assembled
  BY <1>1 DEF Assembled, ItemAt
<1>3. \A i : Known(i)' <=> Known(i)
  BY <1>1 DEF Known
<1>4. Made' = Made
  BY <1>3 DEF Made
<1>5. PICK told, made : /\ told = Assembled /\ told = Assembled'
                        /\ made = Made /\ made = Made'
  BY <1>2, <1>4
<1>6. ASSUME NEW x
      PROVE  x \in Continuations <=>
               \E content \in {NoContent, Plain("text")}, order \in SetToSeqs(made) :
                 x = <<Assistant(content, told)>> \o [n \in DOMAIN order |-> Tool(order[n])]
  BY <1>5 DEF Continuations, Made
<1>7. ASSUME NEW x
      PROVE  x \in Continuations' <=>
               \E content \in {NoContent, Plain("text")}, order \in SetToSeqs(made) :
                 x = <<Assistant(content, told)>> \o [n \in DOMAIN order |-> Tool(order[n])]
  <2>1. x \in Continuations' <=>
          \E content \in {NoContent, Plain("text")},
             order \in SetToSeqs({i \in Items : Known(i)'}) :
            x = <<Assistant(content, Assembled')>> \o [n \in DOMAIN order |-> Tool(order[n])]
    BY DEF Continuations
  <2>2. {i \in Items : Known(i)'} = made
    BY <1>5 DEF Made
  <2>3. QED
    BY <1>5, <2>1, <2>2
<1>8. QED
  BY <1>6, <1>7

\* Ask writes a conversation; until the upstream call returns nothing takes it back.
LEMMA AskedNext ==
  ASSUME CodexInv, AskedInv, [ExchangeNext]_exchangeVars PROVE AskedInv'
<1>1. CASE Ask
  <2>1. UNCHANGED vars /\ pc' = pc /\ answer' = answer
    BY <1>1 DEF Ask, vars
  <2>2. Continuations' = Continuations
    BY <2>1, ContinuationsStand
  <2>3. CASE messages' = <<>> \/ messages' \in Openings
    BY <2>3 DEF AskedInv
  <2>4. CASE /\ Answered
             /\ \E opening \in Openings, next \in Continuations :
                  messages' = opening \o next
    <3>1. pc # "raised"
      BY <2>4 DEF Answered, CodexInv, EndInv
    <3>2. QED
      BY <2>1, <2>2, <2>4, <3>1 DEF AskedInv
  <2>5. QED
    BY <1>1, <2>3, <2>4 DEF Ask
<1>2. CASE Start \/ Switch \/ UNCHANGED exchangeVars
  <2>1. UNCHANGED vars /\ pc' = pc /\ lane' = lane /\ messages' = messages
    BY <1>2 DEF Start, Switch, exchangeVars, vars
  <2>2. Continuations' = Continuations
    BY <2>1, ContinuationsStand
  <2>3. QED
    BY <2>1, <2>2 DEF AskedInv
<1>3. CASE ExchangeNext /\ ~Ask /\ ~Start /\ ~Switch
  <2>1. ASSUME NEW way \in Lanes, NEW named \in BOOLEAN, Begin(way, named)
        PROVE  lane' # "asked"
    BY <2>1 DEF Begin, Ways
  <2>2. ASSUME NEW i \in Items, NEW arguments \in Arguments,
               RawAdded(i, arguments) \/ RawDelta(i, arguments) \/ RawDone(i, arguments)
        PROVE  lane' # "asked"
    BY <2>2 DEF RawAdded, RawDelta, RawDone, RawEvent
  <2>3. ASSUME ChatStep \/ Reported \/ PassEnd \/ NeverStarted \/ Restart
        PROVE  lane' # "asked"
    BY <2>3 DEF ChatStep, Reported, PassEnd, NeverStarted, Answers, Restart
  <2>4. lane' # "asked"
    BY <1>3, <2>1, <2>2, <2>3 DEF ExchangeNext
  <2>5. QED
    BY <2>4 DEF AskedInv
<1>4. QED
  BY <1>1, <1>2, <1>3

LEMMA AskedInvariance == ExchangeSpec => [](ExchangeInv /\ AskedInv)
<1>1. ExchangeInit => AskedInv
  BY DEF ExchangeInit, AskedInv
<1>2. ExchangeInv /\ AskedInv /\ [ExchangeNext]_exchangeVars => AskedInv'
  BY AskedNext DEF ExchangeInv
<1>3. QED
  BY <1>1, <1>2, ExchangeInvariance, PTL DEF ExchangeSpec

\* The conversations a request can hold.
TurnMessages == Messages([id : Made, arguments : Arguments], Made)

\* An opening has no calls and no results.
LEMMA OpeningIsQuiet ==
  ASSUME NEW Calls, NEW Ids, NEW opening \in Openings
  PROVE  /\ opening \in Seq(Quiet(Calls, Ids))
         /\ opening \in Seq(Messages(Calls, Ids))
         /\ \A n \in DOMAIN opening : opening[n].calls = <<>>
<1>1. opening \in Seq(OpeningMessages)
  BY ExchangeAssumption
<1>2. DOMAIN opening = 1..Len(opening) /\ \A n \in 1..Len(opening) : opening[n] \in OpeningMessages
  BY <1>1, LenProperties, ElementOfSeq
<1>3. <<>> \in Seq(Calls) /\ {} \in SUBSET Ids
  OBVIOUS
<1>4. \A m \in OpeningMessages : m \in Quiet(Calls, Ids) /\ m.calls = <<>>
  BY <1>3 DEF OpeningMessages, Messages, Quiet
<1>5. opening \in Seq(Quiet(Calls, Ids))
  BY <1>1, <1>4, SeqMonotonic
<1>6. opening \in Seq(Messages(Calls, Ids))
  BY <1>5, SeqMonotonic DEF Quiet
<1>7. QED
  BY <1>2, <1>4, <1>5, <1>6

\* The assembled calls are those upstream announced, in order, with all it said of each.
LEMMA AssembledLaw ==
  ASSUME ExchangeInv, pc # "raised"
  PROVE  /\ Count \in Nat /\ DOMAIN Assembled = 1..Count
         /\ Assembled \in [1..Count -> [id : Made, arguments : Arguments]]
         /\ \A n \in 1..Count :
              LET call == Assembled[n] IN
              Known(call.id) /\ calls[call.id].index = n /\ call.arguments = said[call.id]
         /\ \A i \in Items : Known(i) =>
              /\ calls[i].index \in 1..Count
              /\ Assembled[calls[i].index] = [id |-> i, arguments |-> said[i]]
<1>1. TypeOK /\ IndexInv /\ SyncInv
  BY DEF ExchangeInv, CodexInv
<1>2. Len(client) = Count /\ Count \in Nat /\ client \in Seq(Arguments)
  BY <1>1, CountType DEF TypeOK, SyncInv
<1>3. DOMAIN client = 1..Count /\ \A n \in 1..Count : client[n] \in Arguments
  BY <1>2, LenProperties, ElementOfSeq
<1>4. DOMAIN Assembled = 1..Count
  BY <1>3 DEF Assembled
<1>5. ASSUME NEW n \in 1..Count
      PROVE  /\ Known(Assembled[n].id) /\ calls[Assembled[n].id].index = n
             /\ Assembled[n] = [id |-> Assembled[n].id, arguments |-> client[n]]
             /\ Assembled[n].id \in Made
             /\ Assembled[n].arguments = said[Assembled[n].id]
  <2>1. \E i \in Items : calls[i].index = n
    BY <1>1, IndicesAreCalls
  <2>2. ItemAt(n) \in Items /\ calls[ItemAt(n)].index = n
    BY <2>1, Zenon DEF ItemAt
  <2>3. Assembled[n] = [id |-> ItemAt(n), arguments |-> client[n]]
    BY <1>3 DEF Assembled
  <2>4. Assembled[n].id = ItemAt(n) /\ Assembled[n].arguments = client[n]
    BY <2>3
  <2>5. Known(ItemAt(n))
    BY <1>2, <2>2 DEF Known
  <2>6. client[n] = said[ItemAt(n)]
    BY <1>1, <2>2, <2>5 DEF SyncInv
  <2>7. ItemAt(n) \in Made
    BY <2>2, <2>5 DEF Made
  <2>8. QED
    BY <2>2, <2>3, <2>4, <2>5, <2>6, <2>7, Zenon
<1>6. ASSUME NEW i \in Items, Known(i)
      PROVE  /\ calls[i].index \in 1..Count
             /\ Assembled[calls[i].index] = [id |-> i, arguments |-> said[i]]
  <2>1. calls[i].index \in 1..Count
    BY <1>1, <1>6 DEF IndexInv
  <2>2. PICK n \in 1..Count : n = calls[i].index
    BY <2>1
  <2>3. Assembled[n].id = i
    BY <1>1, <1>5, <1>6, <2>2 DEF IndexInv, Made
  <2>4. client[n] = said[i]
    BY <1>1, <1>6, <2>2 DEF SyncInv
  <2>5. QED
    BY <1>5, <2>1, <2>2, <2>3, <2>4, Zenon
<1>7. Assembled \in [1..Count -> [id : Made, arguments : Arguments]]
  <2>1. ASSUME NEW n \in 1..Count
        PROVE  Assembled[n] \in [id : Made, arguments : Arguments]
    <3>1. PICK i \in Made, arguments \in Arguments :
            i = Assembled[n].id /\ arguments = client[n]
      BY <1>3, <1>5
    <3>2. [id |-> i, arguments |-> arguments] \in [id : Made, arguments : Arguments]
      OBVIOUS
    <3>3. QED
      BY <1>5, <3>1, <3>2, Zenon
  <2>2. Assembled = [n \in 1..Count |-> Assembled[n]]
    BY <1>3 DEF Assembled
  <2>3. QED
    BY <2>1, <2>2, Zenon
<1>8. QED
  BY <1>2, <1>4, <1>5, <1>6, <1>7

\* A function on 1..k is a sequence of length k.
LEMMA ListOf ==
  ASSUME NEW E, NEW k \in Nat, NEW f \in [1..k -> E]
  PROVE  f \in Seq(E) /\ Len(f) = k /\ DOMAIN f = 1..k
  OBVIOUS

\* A continued conversation hands its assembled calls back.
LEMMA ContinuationInput ==
  ASSUME ExchangeInv, pc # "raised", NEW opening \in Openings, NEW next \in Continuations,
         messages = opening \o next
  PROVE  /\ messages \in Seq(TurnMessages)
         /\ HandsBack(Request.input, Assembled, Made) /\ Len(Assembled) = Count
<1> DEFINE Records == [id : Made, arguments : Arguments]
<1>1. PICK k, told, made, asked :
        /\ k = Count /\ told = Assembled /\ made = Made /\ asked = Records
        /\ k \in Nat /\ told \in [1..k -> asked]
  BY AssembledLaw
<1> HIDE DEF Records
<1>2. told \in Seq(asked) /\ Len(told) = k
  BY <1>1, ListOf
<1>3. PICK content, order :
        /\ content \in {NoContent, Plain("text")} /\ order \in SetToSeqs(made)
        /\ next = <<Assistant(content, told)>> \o [n \in DOMAIN order |-> Tool(order[n])]
  <2>1. told = Assembled /\ made = Made
    BY <1>1
  <2>2. \A x : x \in Continuations <=>
               \E content \in {NoContent, Plain("text")}, order \in SetToSeqs(made) :
                 x = <<Assistant(content, told)>> \o [n \in DOMAIN order |-> Tool(order[n])]
    BY <2>1 DEF Continuations, Made
  <2>3. next \in Continuations
    OBVIOUS
  <2>4. PICK content \in {NoContent, Plain("text")}, order \in SetToSeqs(made) :
          next = <<Assistant(content, told)>> \o [n \in DOMAIN order |-> Tool(order[n])]
    BY <2>2, <2>3, Zenon
  <2>5. QED
    BY <2>4, Zenon
<1>4. content \in Contents
  <2>1. <<>> \in Seq(Blocks) /\ <<"text">> \in Seq(Blocks) /\ Len(<<"text">>) = 1
    BY DEF Blocks
  <2>2. NoContent \in Contents
    BY <2>1 DEF Contents, NoContent
  <2>3. Plain("text") \in Contents
    BY <2>1 DEF Contents, Plain
  <2>4. QED
    BY <1>3, <2>2, <2>3
<1>5. order \in [1..k -> made] /\ DOMAIN order = 1..k
  <2>1. Cardinality(made) = k
    BY <1>1 DEF Count, Made
  <2>2. QED
    BY <1>3, <2>1 DEF SetToSeqs
<1>6. opening \in Seq(Quiet(asked, made))
  BY OpeningIsQuiet
<1>7. PICK turned :
        /\ turned = messages
        /\ turned = Then(opening, Turn(content, told, k, order))
  BY <1>3, <1>5, Zenon DEF Then, Turn
<1>8. turned \in Seq(Messages(asked, made)) /\ HandsBack(chat_to_responses(turned).input, told, made)
  <2>1. /\ opening \in Seq(Quiet(asked, made)) /\ content \in Contents
        /\ told \in Seq(asked) /\ k \in Nat /\ order \in [1..k -> made]
    BY <1>1, <1>2, <1>4, <1>5, <1>6
  <2>2. turned = Then(opening, Turn(content, told, k, order))
    BY <1>7
  <2>3. QED
    BY <2>1, <2>2, TurnInput, SMT
<1>9. messages \in Seq(TurnMessages)
  BY <1>1, <1>7, <1>8, Zenon DEF TurnMessages, Records
<1>10. HandsBack(Request.input, Assembled, Made)
  BY <1>1, <1>7, <1>8, Zenon DEF Request
<1>11. QED
  BY <1>1, <1>2, <1>9, <1>10

\* The calls handed back are those upstream announced, by their indices; each result is
\* of one of them, and behind them all.
LEMMA HistoryHolds ==
  ASSUME ExchangeInv, AskedInv, lane = "asked", \E n \in DOMAIN messages : messages[n].calls # <<>>
  PROVE  /\ \E before \in 0..Len(Request.input) :
              /\ Positions("function_call") = before + 1 .. before + Count
              /\ \A i \in Items : Known(i) =>
                   Request.input[before + calls[i].index].call
                     = {[id |-> i, arguments |-> said[i]]}
         /\ \A n \in Positions("function_call_output") :
              \E earlier \in Positions("function_call") :
                earlier < n /\ IdAt(earlier) = IdAt(n)
<1>1. pc # "raised" /\ \E opening \in Openings, next \in Continuations : messages = opening \o next
  <2>1. messages # <<>>
    OBVIOUS
  <2>2. messages \notin Openings
    BY OpeningIsQuiet
  <2>3. QED
    BY <2>1, <2>2 DEF AskedInv
<1>2. HandsBack(Request.input, Assembled, Made) /\ Len(Assembled) = Count
  BY <1>1, ContinuationInput
<1>3. PICK before \in 0..Len(Request.input) :
        /\ Positions("function_call") = before + 1 .. before + Count
        /\ \A i \in 1..Count : Request.input[before + i].call = {Assembled[i]}
        /\ \A n \in DOMAIN Request.input : Request.input[n].type = "function_call_output" =>
             /\ n > before + Count
             /\ \E id \in Made : Request.input[n].call = {[id |-> id, arguments |-> <<>>]}
  BY <1>2 DEF HandsBack, Positions
<1>4. /\ Count \in Nat
      /\ \A i \in Items : Known(i) =>
           /\ calls[i].index \in 1..Count
           /\ Assembled[calls[i].index] = [id |-> i, arguments |-> said[i]]
  BY <1>1, AssembledLaw
<1>5. ASSUME NEW i \in Items, Known(i)
      PROVE  /\ before + calls[i].index \in Positions("function_call")
             /\ before + calls[i].index <= before + Count
             /\ Request.input[before + calls[i].index].call
                  = {[id |-> i, arguments |-> said[i]]}
  <2>1. PICK k \in 1..Count : k = calls[i].index
    BY <1>4, <1>5
  <2>2. Assembled[k] = [id |-> i, arguments |-> said[i]]
    BY <1>4, <1>5, <2>1
  <2>3. Request.input[before + k].call = {[id |-> i, arguments |-> said[i]]}
    BY <1>3, <2>2
  <2>4. before + k \in Positions("function_call") /\ before + k <= before + Count
    BY <1>3, <1>4
  <2>5. QED
    BY <2>1, <2>3, <2>4
<1>6. ASSUME NEW n \in Positions("function_call_output")
      PROVE  \E earlier \in Positions("function_call") : earlier < n /\ IdAt(earlier) = IdAt(n)
  <2>1. n \in DOMAIN Request.input /\ Request.input[n].type = "function_call_output"
    BY DEF Positions
  <2>2. PICK id \in Made : Request.input[n].call = {[id |-> id, arguments |-> <<>>]}
    BY <1>3, <2>1
  <2>3. id \in Items /\ Known(id) /\ n > before + Count
    BY <1>3, <2>1 DEF Made
  <2>4. PICK earlier \in Positions("function_call") :
          /\ earlier = before + calls[id].index /\ earlier <= before + Count
          /\ Request.input[earlier].call = {[id |-> id, arguments |-> said[id]]}
    BY <1>5, <2>3
  <2>5. IdAt(n) = {id} /\ IdAt(earlier) = {id}
    BY <2>2, <2>4 DEF IdAt
  <2>6. earlier < n
    BY <1>3, <1>4, <2>3, <2>4, <2>1
  <2>7. QED
    BY <2>5, <2>6
<1>7. QED
  BY <1>3, <1>5, <1>6

----------------------------------------------------------------------------
(* What it says.                                                           *)

\* Every variable of an exchange keeps to its type, and the slots of the dump to calls
\* upstream can have made.
THEOREM ExchangeTypes == ExchangeSpec => []ExchangeTypeOK
<1>1. ExchangeInv => ExchangeTypeOK
  <2> SUFFICES ASSUME ExchangeInv PROVE ExchangeTypeOK
    OBVIOUS
  <2>1. TypeOK /\ RestTypeOK
    BY DEF ExchangeInv, CodexInv
  <2>2. \A n \in DOMAIN slots : slots[n] \in Slot
    BY <2>1, LenProperties, ElementOfSeq DEF RestTypeOK
  <2>3. \A n \in DOMAIN slots : slots[n].item \in Items /\ slots[n].arguments \in Seq(STRING)
    BY <2>2 DEF Slot
  <2>4. QED
    BY <2>1, <2>3 DEF RestTypeOK, ReckonInv, ExchangeTypeOK
<1>2. QED
  BY <1>1, ExchangeInvariance, PTL

\* In every turn of a conversation, through forward and after any restart, the client
\* has what upstream said last.
THEOREM TurnsStayInSync == ExchangeSpec => []ClientHasWhatWasSaid
<1>1. ExchangeInv => ClientHasWhatWasSaid
  BY CodexMeans DEF ExchangeInv
<1>2. QED
  BY <1>1, ExchangeInvariance, PTL

\* In every turn a contradiction of upstream ends in a failed answer.
THEOREM TurnsFailClosed == ExchangeSpec => []FailsClosed
<1>1. ExchangeInv => FailsClosed
  BY CodexMeans DEF ExchangeInv
<1>2. QED
  BY <1>1, ExchangeInvariance, PTL

\* In every turn a collected answer is complete.
THEOREM TurnsSucceedWhole == ExchangeSpec => []SuccessIsWhole
<1>1. ExchangeInv => SuccessIsWhole
  BY CodexMeans DEF ExchangeInv
<1>2. QED
  BY <1>1, ExchangeInvariance, PTL

\* The token totals of stats.py never hold more usage reports than there were answers:
\* those to the requests it counts and those to the others, whatever writes fail and
\* wherever the process dies.
THEOREM ReportsHaveRequests == ExchangeSpec => []UsageHasItsRequest
<1>1. ExchangeInv => UsageHasItsRequest
  <2> SUFFICES ASSUME ExchangeInv PROVE UsageHasItsRequest
    OBVIOUS
  <2>1. /\ "requests" \in Counters /\ "tokens" \in Counters
        /\ counted \in [Counters -> Nat] /\ ReportInv /\ uncounted \in Nat
    BY DEF ExchangeInv, RestTypeOK, ReckonInv, StatsTypeOK, Counters
  <2>2. counted["tokens"] \in Nat /\ counted["requests"] \in Nat /\ Due \in {0, 1}
    BY <2>1 DEF Due
  <2>3. QED
    BY <2>1, <2>2 DEF ReportInv, UsageHasItsRequest
<1>2. QED
  BY <1>1, ExchangeInvariance, PTL

\* Unless a write or a read has failed, stats.json holds what is counted: a crash loses
\* nothing.
THEOREM CountersAreOnDisk == ExchangeSpec => []CountersSurvive
<1>1. ExchangeInv => CountersSurvive
  BY DEF ExchangeInv, FileInv, CountersSurvive
<1>2. QED
  BY <1>1, ExchangeInvariance, PTL

\* Whatever fails, and however often the process restarts, the totals on disk only grow,
\* unless a start could not read them.
THEOREM TotalsOnlyGrow == ExchangeSpec => LifetimeGrows
<1> DEFINE Grows == gap # "unread" => \A c \in Counters : file'[c] >= file[c]
<1>1. ExchangeInv /\ [ExchangeNext]_exchangeVars => [Grows]_statsVars
  <2> SUFFICES ASSUME ExchangeInv, [ExchangeNext]_exchangeVars PROVE [Grows]_statsVars
    OBVIOUS
  <2>1. CodexInv /\ StatsTypeOK /\ FileInv /\ file \in [Counters -> Nat]
    BY DEF ExchangeInv, RestTypeOK, StatsTypeOK
  <2>2. CASE UNCHANGED exchangeVars
    BY <2>2 DEF exchangeVars
  <2>3. CASE ExchangeNext
    <3>1. \/ UNCHANGED statsVars
          \/ \E c \in Counters : Add(c)
          \/ Load
      BY <2>1, <2>3, StatsStep DEF Counters
    <3>2. CASE \E c \in Counters : Add(c)
      BY <3>2, <2>1, AddLaw
    <3>3. CASE Load
      BY <3>3, <2>1, LoadLaw
    <3>4. QED
      BY <3>1, <3>2, <3>3
  <2>4. QED
    BY <2>2, <2>3
<1>2. QED
  BY <1>1, ExchangeInvariance, PTL DEF ExchangeSpec, LifetimeGrows

\* wrap_response_stream dumps, or fails to, exactly the exchanges whose response was
\* wrapped and whose reader had begun, wherever their streams end, and a failure that
\* is not logged is seen by the client.
THEOREM CaptureIsDumped == ExchangeSpec => []CapturesAreDumped
<1>1. ExchangeInv => CapturesAreDumped
  <2> SUFFICES ASSUME ExchangeInv, answer # "none" PROVE CapturesAreDumped
    BY DEF CapturesAreDumped
  <2>1. /\ Over /\ answer \in {"200", "502", "done", "broken"}
        /\ answer \in {"200", "done"} => pc = "end"
    BY DEF ExchangeInv, TeeInv, CodexInv, TypeOK, EndInv
  <2>2. QED
    BY <2>1 DEF ExchangeInv, TeeInv, CapturesAreDumped
<1>2. QED
  BY <1>1, ExchangeInvariance, PTL

\* The dump of a /responses stream has one slot per call, with what its stream said, for
\* any number of interleaved calls.
THEOREM SlotsTellTheStream == ExchangeSpec => []DumpReadsTrue
<1>1. ExchangeInv => DumpReadsTrue
  BY DEF ExchangeInv, SlotsInv, DumpReadsTrue
<1>2. QED
  BY <1>1, ExchangeInvariance, PTL

\* The calls a client puts into its next turn, in the order of their indices: each is
\* one that upstream announced, and every one is there, at its index, with the
\* arguments upstream completed.
AssembledAsSaid ==
  pc # "raised" =>
    /\ DOMAIN Assembled = 1..Count
    /\ \A n \in 1..Count :
         LET call == Assembled[n] IN
         Known(call.id) /\ calls[call.id].index = n /\ call.arguments = said[call.id]
    /\ \A i \in Items : Known(i) => Assembled[calls[i].index].id = i

\* What collect_chat_sse and the caller hand on is all that upstream has said.
THEOREM TurnsHandOnCalls == ExchangeSpec => []AssembledAsSaid
<1>1. ASSUME ExchangeInv, pc # "raised"
      PROVE  /\ DOMAIN Assembled = 1..Count
             /\ \A n \in 1..Count :
                  LET call == Assembled[n] IN
                  Known(call.id) /\ calls[call.id].index = n /\ call.arguments = said[call.id]
             /\ \A i \in Items : Known(i) => Assembled[calls[i].index].id = i
  <2>1. /\ DOMAIN Assembled = 1..Count
        /\ \A n \in 1..Count :
             LET call == Assembled[n] IN
             Known(call.id) /\ calls[call.id].index = n /\ call.arguments = said[call.id]
    BY <1>1, AssembledLaw
  <2>2. ASSUME NEW i \in Items, Known(i) PROVE Assembled[calls[i].index].id = i
    <3>1. Assembled[calls[i].index] = [id |-> i, arguments |-> said[i]]
      BY <1>1, <2>2, AssembledLaw
    <3>2. QED
      BY <3>1
  <2>3. QED
    BY <2>1, <2>2
<1>2. ExchangeInv => AssembledAsSaid
  BY <1>1 DEF AssembledAsSaid
<1>3. QED
  BY <1>2, ExchangeInvariance, PTL

\* The calls of one turn reach upstream in the next as it made them, together, in order,
\* completed, and each ahead of its result, whatever the conversation began with and
\* whatever happened on the way.
THEOREM HistoryComesBack == ExchangeSpec => []HistoryAsSaid
<1>1. ExchangeInv /\ AskedInv => HistoryAsSaid
  BY HistoryHolds DEF HistoryAsSaid
<1>2. QED
  BY <1>1, AskedInvariance, PTL

\* chat_to_responses neither drops nor doubles what is text in its message's role, in
\* either form of a content, with or without calls, in the first turn of a conversation
\* or a later one.
THEOREM NoTextIsLost == ExchangeSpec => []TextKept
<1>1. ASSUME ExchangeInv, AskedInv PROVE TextKept
  <2>1. messages \in Seq(TurnMessages)
    <3>1. CASE messages = <<>>
      BY <3>1
    <3>2. CASE messages \in Openings
      BY <3>2, OpeningIsQuiet DEF TurnMessages
    <3>3. CASE /\ pc # "raised"
               /\ \E opening \in Openings, next \in Continuations :
                    messages = opening \o next
      BY <1>1, <3>3, ContinuationInput
    <3>4. lane # "asked" => messages = <<>>
      BY <1>1 DEF ExchangeInv, RestTypeOK
    <3>5. QED
      BY <1>1, <3>1, <3>2, <3>3, <3>4 DEF AskedInv
  <2>2. PICK told \in Seq(TurnMessages) : told = messages
    BY <2>1
  <2>3. KeepsText(told)
    BY TextIsKept DEF TurnMessages
  <2>4. QED
    BY <2>2, <2>3 DEF TextKept
<1>2. QED
  BY <1>1, AskedInvariance, PTL
=============================================================================
