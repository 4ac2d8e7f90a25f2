------------------------- MODULE CodexStreamProofs -------------------------
(***************************************************************************)
(* Proofs about CodexStream, for any number of tool calls and any          *)
(* arguments: what the client assembles is what upstream said last, a      *)
(* contradiction never ends in an answer that looks whole, and a collected *)
(* answer is complete.                                                     *)
(***************************************************************************)
EXTENDS CodexStream, FiniteSetTheorems, SequenceTheorems, TLAPS

\* The known calls have the indices of tool_call_idx, each its own.
IndexInv ==
  /\ \A i \in Items : Known(i) => calls[i].index \in 1..Count
  /\ \A i, j \in Items :
       Known(i) /\ Known(j) /\ calls[i].index = calls[j].index => i = j

\* The arguments the translator has accounted for, those the client has assembled and
\* those upstream said last are the same, until an exception leaves the generator.
SyncInv ==
  pc # "raised" =>
    /\ Len(client) = Count
    /\ \A i \in Items : Known(i) => /\ calls[i].arguments = said[i]
                                    /\ client[calls[i].index] = said[i]

\* How a stream ends: a contradiction in an exception, and a success only after
\* all of response.completed.
EndInv ==
  /\ conflict => pc = "raised"
  /\ answer \in {"200", "done"} => pc = "end"
  /\ answer = "200" => finish # "none"
  /\ pc = "output" => finish = "none"
  /\ finish # "none" => finish = IF Count > 0 THEN "tool_calls" ELSE "stop"
  /\ pc \in {"open", "end"} => output = <<>>

CodexInv == TypeOK /\ IndexInv /\ SyncInv /\ EndInv

----------------------------------------------------------------------------
(* Arguments, and pieces of them.                                          *)

LEMMA ArgumentsAreTexts ==
  ASSUME NEW a \in Arguments PROVE a \in Seq(STRING)
  BY CodexAssumption

LEMMA PieceLaw ==
  ASSUME NEW s \in Seq(STRING), NEW t \in Seq(STRING), IsPrefix(s, t)
  PROVE  /\ SubSeq(t, Len(s) + 1, Len(t)) \in Seq(STRING)
         /\ s \o SubSeq(t, Len(s) + 1, Len(t)) = t
         /\ SubSeq(t, Len(s) + 1, Len(t)) = <<>> => s = t
<1> DEFINE piece == SubSeq(t, Len(s) + 1, Len(t))
<1>1. Len(s) \in Nat /\ Len(t) \in Nat /\ Len(s) <= Len(t)
  BY LenProperties DEF IsPrefix
<1>2. s = SubSeq(t, 1, Len(s)) /\ t = SubSeq(t, 1, Len(t))
  BY SubSeqFull DEF IsPrefix
<1>3. piece \in Seq(STRING)
  BY <1>1, SubSeqProperties, ElementOfSeq
<1>4. SubSeq(t, 1, Len(s)) \o piece = SubSeq(t, 1, Len(t))
  <2>1. /\ 1 \in 1..Len(t) + 1
        /\ Len(s) \in 1 - 1..Len(t)
        /\ Len(t) \in Len(s)..Len(t)
    BY <1>1
  <2>2. QED
    BY <2>1, ConcatAdjacentSubSeq, Zenon
<1>5. s \o piece = t
  BY <1>2, <1>4
<1>6. piece = <<>> => s = t
  BY <1>5, ConcatEmptySeq
<1>7. QED
  BY <1>3, <1>5, <1>6

----------------------------------------------------------------------------
(* The client's sequence.                                                  *)

\* A chunk for a call the client has.
LEMMA EmitOld ==
  ASSUME client \in Seq(Arguments), NEW n \in 1..Len(client), NEW a,
         client[n] \o a \in Arguments, Emit(n, a)
  PROVE  /\ client' \in Seq(Arguments) /\ Len(client') = Len(client)
         /\ client'[n] = client[n] \o a
         /\ \A m \in 1..Len(client) : m # n => client'[m] = client[m]
<1>1. n \in DOMAIN client
  BY LenProperties
<1>2. client' = [client EXCEPT ![n] = client[n] \o a]
  BY <1>1 DEF Emit
<1>3. QED
  BY <1>2, ExceptSeq

\* A chunk for a new one.
LEMMA EmitNew ==
  ASSUME client \in Seq(Arguments), NEW a \in Arguments, Emit(Len(client) + 1, a)
  PROVE  /\ client' \in Seq(Arguments) /\ Len(client') = Len(client) + 1
         /\ client'[Len(client) + 1] = a
         /\ \A m \in 1..Len(client) : client'[m] = client[m]
<1>1. Len(client) + 1 \notin DOMAIN client
  BY LenProperties
<1>2. client' = Append(client, a)
  BY <1>1, Zenon DEF Emit
<1>3. QED
  BY <1>2, AppendProperties

----------------------------------------------------------------------------
(* Counting calls.                                                         *)

LEMMA CountType ==
  /\ Cardinality(Items) \in Nat /\ Count \in 0..Cardinality(Items)
  /\ Count = 0 <=> \A i \in Items : ~Known(i)
<1> DEFINE known == {i \in Items : Known(i)}
<1>1. known \in SUBSET Items
  OBVIOUS
<1>2. IsFiniteSet(known) /\ Cardinality(known) <= Cardinality(Items)
  BY <1>1, CodexAssumption, FS_Subset
<1>3. Cardinality(Items) \in Nat /\ Cardinality(known) \in Nat
  BY <1>2, CodexAssumption, FS_CardinalityType
<1>4. Cardinality(known) = 0 <=> known = {}
  BY <1>2, FS_EmptySet
<1>5. QED
  BY <1>2, <1>3, <1>4 DEF Count

LEMMA CountSame ==
  ASSUME \A i \in Items : Known(i)' <=> Known(i) PROVE Count' = Count
<1>1. {i \in Items : Known(i)}' = {i \in Items : Known(i)}
  OBVIOUS
<1>2. QED
  BY <1>1 DEF Count

LEMMA CountGrows ==
  ASSUME NEW i \in Items, ~Known(i), Known(i)',
         \A j \in Items \ {i} : Known(j)' <=> Known(j)
  PROVE  Count' = Count + 1 /\ Count + 1 <= Cardinality(Items)
<1> DEFINE known == {j \in Items : Known(j)}
<1>1. known' = known \cup {i} /\ i \notin known /\ known \in SUBSET Items
      /\ known \cup {i} \in SUBSET Items
  OBVIOUS
<1>2. IsFiniteSet(known)
  BY <1>1, CodexAssumption, FS_Subset
<1>3. Cardinality(known') = Cardinality(known) + 1
  BY <1>1, <1>2, FS_AddElement
<1>4. Cardinality(known') <= Cardinality(Items)
  BY <1>1, CodexAssumption, FS_Subset
<1>5. QED
  BY <1>3, <1>4 DEF Count

\* No index of tool_call_idx is without its call.
LEMMA IndicesAreCalls ==
  ASSUME IndexInv, NEW n \in 1..Count PROVE \E i \in Items : Known(i) /\ calls[i].index = n
<1> DEFINE known == {i \in Items : Known(i)}
           indexOf == [i \in known |-> calls[i].index]
<1>1. Count \in Nat /\ Count = Cardinality(known)
  BY CountType DEF Count
<1>2. IsFiniteSet(1..Count) /\ Cardinality(1..Count) = Cardinality(known)
  BY <1>1, FS_Interval
<1>3. indexOf \in Injection(known, 1..Count)
  BY Zenon DEF Injection, IsInjective, IndexInv
<1>4. indexOf \in Surjection(known, 1..Count)
  BY <1>2, <1>3, FS_Injection
<1>5. \E i \in known : indexOf[i] = n
  BY <1>4 DEF Surjection
<1>6. QED
  BY <1>5

----------------------------------------------------------------------------
(* The steps of the translator.                                            *)

LEMMA CodexInit == Init => CodexInv
<1> SUFFICES ASSUME Init PROVE CodexInv
  OBVIOUS
<1>1. \A i \in Items : ~Known(i)
  BY DEF Init, Known, NoCall
<1>2. Count = 0 /\ Cardinality(Items) \in Nat
  BY <1>1, CountType
<1>3. TypeOK
  <2>1. NoCall \in Call /\ <<>> \in Arguments
    BY <1>2, CodexAssumption DEF Call, NoCall
  <2>2. /\ <<>> \in Seq(Items \X Arguments) /\ <<>> \in Seq(Arguments)
        /\ Len(<<>>) = 0
    BY EmptySeq
  <2>3. calls \in [Items -> Call] /\ said \in [Items -> Arguments]
    BY <2>1 DEF Init
  <2>4. output \in Seq(Items \X Arguments) /\ client \in Seq(Arguments)
    BY <2>2 DEF Init
  <2>5. Len(client) = 0
    BY <2>2, Zenon DEF Init
  <2>6. /\ stream \in BOOLEAN /\ pc \in {"open", "output", "end", "raised"}
        /\ finish \in {"none", "stop", "tool_calls"}
        /\ answer \in {"none", "200", "502", "done", "broken"}
        /\ conflict \in BOOLEAN
    BY DEF Init
  <2>7. QED
    BY <2>3, <2>4, <2>5, <2>6, <1>2 DEF TypeOK
<1>4. IndexInv /\ SyncInv /\ EndInv
  BY <1>1, <1>2 DEF IndexInv, SyncInv, EndInv, Init
<1>5. QED
  BY <1>3, <1>4 DEF CodexInv

LEMMA CodexReset == Reset => CodexInv'
<1> SUFFICES ASSUME Reset PROVE CodexInv'
  OBVIOUS
<1>1. \A i \in Items : ~Known(i)'
  BY DEF Reset, Known, NoCall
<1>2. Count' = 0 /\ Cardinality(Items) \in Nat
  <2>1. {i \in Items : Known(i)}' = {}
    BY <1>1
  <2>2. Count' = 0
    BY <2>1, FS_EmptySet DEF Count
  <2>3. QED
    BY <2>2, CountType
<1>3. TypeOK'
  <2>1. NoCall \in Call /\ <<>> \in Arguments
    BY <1>2, CodexAssumption DEF Call, NoCall
  <2>2. /\ <<>> \in Seq(Items \X Arguments) /\ <<>> \in Seq(Arguments)
        /\ Len(<<>>) = 0
    BY EmptySeq
  <2>3. calls' \in [Items -> Call] /\ said' \in [Items -> Arguments]
    BY <2>1 DEF Reset
  <2>4. output' \in Seq(Items \X Arguments) /\ client' \in Seq(Arguments)
    BY <2>2 DEF Reset
  <2>5. Len(client') = 0
    BY <2>2, Zenon DEF Reset
  <2>6. /\ stream' \in BOOLEAN /\ pc' \in {"open", "output", "end", "raised"}
        /\ finish' \in {"none", "stop", "tool_calls"}
        /\ answer' \in {"none", "200", "502", "done", "broken"}
        /\ conflict' \in BOOLEAN
    BY DEF Reset
  <2>7. QED
    BY <2>3, <2>4, <2>5, <2>6, <1>2 DEF TypeOK
<1>4. IndexInv' /\ SyncInv' /\ EndInv'
  BY <1>1, <1>2 DEF IndexInv, SyncInv, EndInv, Reset
<1>5. QED
  BY <1>3, <1>4 DEF CodexInv

\* A new call takes the next index.
LEMMA AddedKeeps ==
  ASSUME CodexInv, NEW i \in Items, NEW arguments \in Arguments, Added(i, arguments)
  PROVE  CodexInv'
<1> DEFINE new == [index |-> Count + 1, arguments |-> arguments]
<1>1. Count \in Nat /\ Len(client) = Count /\ client \in Seq(Arguments)
  BY CountType DEF CodexInv, SyncInv, TypeOK, Added, Talking
<1>2. calls' = [calls EXCEPT ![i] = new] /\ calls \in [Items -> Call]
  BY DEF Added, CodexInv, TypeOK
<1>3. calls'[i] = new /\ \A j \in Items \ {i} : calls'[j] = calls[j]
  BY <1>2
<1>4. ~Known(i) /\ Known(i)' /\ \A j \in Items \ {i} : Known(j)' <=> Known(j)
  BY <1>1, <1>3 DEF Known, Added
<1>5. Count' = Count + 1 /\ Count + 1 <= Cardinality(Items)
  BY <1>4, CountGrows
<1>6. /\ client' \in Seq(Arguments) /\ Len(client') = Count + 1
      /\ client'[Count + 1] = arguments
      /\ \A m \in 1..Count : client'[m] = client[m]
  <2>1. Emit(Len(client) + 1, arguments)
    BY <1>1 DEF Added
  <2>2. QED
    BY <2>1, <1>1, EmitNew
<1>7. said' = [said EXCEPT ![i] = arguments] /\ said \in [Items -> Arguments]
  BY DEF Added, CodexInv, TypeOK
<1>8. \A j \in Items : Known(j) => calls[j].index \in 1..Count
  BY DEF CodexInv, IndexInv
<1>9. TypeOK'
  <2>1. new \in Call
    BY <1>1, <1>5, CountType DEF Call
  <2>2. calls' \in [Items -> Call]
    BY <2>1, <1>2
  <2>3. said' \in [Items -> Arguments]
    BY <1>7
  <2>4. QED
    BY <2>2, <2>3, <1>5, <1>6 DEF CodexInv, TypeOK, Added
<1>10. IndexInv'
  <2>1. \A j \in Items : Known(j)' => calls'[j].index \in 1..Count'
    BY <1>1, <1>3, <1>4, <1>5, <1>8
  <2>2. \A j, k \in Items :
          Known(j)' /\ Known(k)' /\ calls'[j].index = calls'[k].index => j = k
    BY <1>1, <1>3, <1>4, <1>8 DEF CodexInv, IndexInv
  <2>3. QED
    BY <2>1, <2>2 DEF IndexInv
<1>11. SyncInv'
  <2>1. ASSUME NEW j \in Items, Known(j)'
        PROVE  calls'[j].arguments = said'[j] /\ client'[calls'[j].index] = said'[j]
    <3>1. CASE j = i
      BY <3>1, <1>3, <1>6, <1>7
    <3>2. CASE j # i
      <4>1. Known(j) /\ calls'[j] = calls[j] /\ said'[j] = said[j]
        BY <3>2, <2>1, <1>3, <1>4, <1>7
      <4>2. calls[j].arguments = said[j] /\ client[calls[j].index] = said[j]
        BY <4>1 DEF CodexInv, SyncInv, Added, Talking
      <4>3. client'[calls[j].index] = client[calls[j].index]
        BY <4>1, <1>6, <1>8
      <4>4. QED
        BY <4>1, <4>2, <4>3
    <3>3. QED
      BY <3>1, <3>2
  <2>2. QED
    BY <2>1, <1>5, <1>6 DEF SyncInv
<1>12. EndInv'
  BY DEF CodexInv, EndInv, Added, Talking
<1>13. QED
  BY <1>9, <1>10, <1>11, <1>12 DEF CodexInv

\* More of a known call: the translator accounts for all of it, and emits what was
\* missing.
LEMMA ContinuedKeeps ==
  ASSUME CodexInv, NEW i \in Items, NEW arguments \in Arguments,
         Known(i), pc \in {"open", "output"}, pc' = pc,
         calls' = [calls EXCEPT ![i] = [index |-> @.index, arguments |-> arguments]],
         client' \in Seq(Arguments), Len(client') = Len(client),
         client'[calls[i].index] = arguments,
         \A m \in 1..Len(client) : m # calls[i].index => client'[m] = client[m],
         said' = [said EXCEPT ![i] = arguments],
         output' \in Seq(Items \X Arguments), pc = "open" => output' = <<>>,
         conflict' = conflict, finish = "none", UNCHANGED <<stream, finish, answer>>
  PROVE  CodexInv'
<1> DEFINE new == [index |-> calls[i].index, arguments |-> arguments]
<1>1. /\ calls \in [Items -> Call] /\ said \in [Items -> Arguments]
      /\ Len(client) = Count /\ Count \in Nat
      /\ \A j \in Items : Known(j) => calls[j].index \in 1..Count
      /\ \A j, k \in Items :
           Known(j) /\ Known(k) /\ calls[j].index = calls[k].index => j = k
  BY CountType DEF CodexInv, TypeOK, SyncInv, IndexInv
<1>2. calls'[i] = new /\ \A j \in Items \ {i} : calls'[j] = calls[j]
  BY <1>1
<1>3. \A j \in Items : calls'[j].index = calls[j].index
  BY <1>2
<1>4. \A j \in Items : Known(j)' <=> Known(j)
  BY <1>3 DEF Known
<1>5. Count' = Count
  BY <1>4, CountSame
<1>6. TypeOK'
  <2>1. new \in Call
    BY <1>1 DEF Call
  <2>2. calls' \in [Items -> Call] /\ said' \in [Items -> Arguments]
    BY <2>1, <1>1
  <2>3. QED
    BY <2>2 DEF CodexInv, TypeOK
<1>7. IndexInv'
  BY <1>1, <1>3, <1>4, <1>5 DEF IndexInv
<1>8. SyncInv'
  <2>1. ASSUME NEW j \in Items, Known(j)'
        PROVE  calls'[j].arguments = said'[j] /\ client'[calls'[j].index] = said'[j]
    <3>1. CASE j = i
      BY <3>1, <1>1, <1>2
    <3>2. CASE j # i
      <4>1. Known(j) /\ calls'[j] = calls[j] /\ said'[j] = said[j]
        BY <3>2, <2>1, <1>1, <1>2, <1>4
      <4>2. calls[j].arguments = said[j] /\ client[calls[j].index] = said[j]
        BY <4>1 DEF CodexInv, SyncInv
      <4>3. client'[calls[j].index] = client[calls[j].index]
        BY <4>1, <3>2, <1>1
      <4>4. QED
        BY <4>1, <4>2, <4>3
    <3>3. QED
      BY <3>1, <3>2
  <2>2. QED
    BY <2>1, <1>1, <1>5 DEF SyncInv
<1>9. EndInv'
  BY <1>5 DEF CodexInv, EndInv
<1>10. QED
  BY <1>6, <1>7, <1>8, <1>9 DEF CodexInv

\* What a piece makes of the client's call.
LEMMA EmitPiece ==
  ASSUME CodexInv, NEW i \in Items, NEW arguments \in Arguments,
         Known(i), pc # "raised", NEW piece, said[i] \o piece = arguments,
         Emit(calls[i].index, piece)
  PROVE  /\ client' \in Seq(Arguments) /\ Len(client') = Len(client)
         /\ client'[calls[i].index] = arguments
         /\ \A m \in 1..Len(client) : m # calls[i].index => client'[m] = client[m]
<1>1. client \in Seq(Arguments) /\ client[calls[i].index] = said[i]
  BY DEF CodexInv, TypeOK, SyncInv
<1>2. calls[i].index \in 1..Len(client)
  BY DEF CodexInv, IndexInv, SyncInv
<1>3. QED
  BY <1>1, <1>2, EmitOld

\* A delta of a known call.
LEMMA KnownDeltaKeeps ==
  ASSUME CodexInv, NEW i \in Items, NEW arguments \in Arguments, Delta(i, arguments), Known(i)
  PROVE  CodexInv'
<1> DEFINE piece == Piece(i, arguments)
<1>1. /\ Known(i) /\ pc = "open" /\ finish = "none" /\ Streams(i, arguments)
      /\ pc' = pc /\ output' = output /\ conflict' = conflict
      /\ stream' = stream /\ finish' = finish /\ answer' = answer
      /\ said' = [said EXCEPT ![i] = arguments]
      /\ Emit(calls[i].index, piece)
      /\ calls' = [calls EXCEPT ![i] =
                    [index |-> @.index, arguments |-> calls[i].arguments \o piece]]
  BY DEF Delta, Talking, Accounted
<1>2. said[i] \in Seq(STRING) /\ arguments \in Seq(STRING)
  BY ArgumentsAreTexts DEF CodexInv, TypeOK
<1>3. said[i] \o piece = arguments
  BY <1>1, <1>2, PieceLaw DEF Streams, Piece, IsStrictPrefix
<1>4. calls[i].arguments = said[i]
  BY <1>1 DEF CodexInv, SyncInv
<1>5. calls' = [calls EXCEPT ![i] = [index |-> @.index, arguments |-> arguments]]
  BY <1>1, <1>3, <1>4, Zenon
<1>6. /\ client' \in Seq(Arguments) /\ Len(client') = Len(client)
      /\ client'[calls[i].index] = arguments
      /\ \A m \in 1..Len(client) : m # calls[i].index => client'[m] = client[m]
  BY <1>1, <1>3, EmitPiece
<1>7. output' \in Seq(Items \X Arguments) /\ output' = <<>>
  BY <1>1 DEF CodexInv, TypeOK, EndInv
<1>8. QED
  BY <1>1, <1>5, <1>6, <1>7, ContinuedKeeps

\* A delta of an unknown one changes nothing but what upstream has said.
LEMMA UnknownDeltaKeeps ==
  ASSUME CodexInv, NEW i \in Items, NEW arguments \in Arguments, Delta(i, arguments), ~Known(i)
  PROVE  CodexInv'
<1>1. /\ said' = [said EXCEPT ![i] = arguments]
      /\ UNCHANGED <<stream, pc, calls, output, client, finish, answer, conflict>>
  BY DEF Delta
<1>2. Count' = Count /\ \A j \in Items : Known(j)' <=> Known(j)
  BY <1>1 DEF Count, Known
<1>3. said' \in [Items -> Arguments] /\ \A j \in Items : Known(j) => said'[j] = said[j]
  BY <1>1 DEF CodexInv, TypeOK
<1>4. TypeOK' /\ IndexInv' /\ EndInv'
  BY <1>1, <1>2, <1>3 DEF CodexInv, TypeOK, IndexInv, EndInv
<1>5. SyncInv'
  BY <1>1, <1>2, <1>3 DEF CodexInv, SyncInv
<1>6. QED
  BY <1>4, <1>5 DEF CodexInv

LEMMA DeltaKeeps ==
  ASSUME CodexInv, NEW i \in Items, NEW arguments \in Arguments, Delta(i, arguments)
  PROVE  CodexInv'
  BY KnownDeltaKeeps, UnknownDeltaKeeps

\* A completion: of a known call, or an exception.
LEMMA CompleteKeeps ==
  ASSUME CodexInv, NEW i \in Items, NEW arguments \in Arguments, Complete(i, arguments),
         pc \in {"open", "output"}, finish = "none",
         output' \in Seq(Items \X Arguments), pc = "open" => output' = <<>>,
         UNCHANGED <<stream, finish, answer>>
  PROVE  CodexInv'
<1>1. /\ calls \in [Items -> Call] /\ said \in [Items -> Arguments]
      /\ client \in Seq(Arguments)
      /\ said' = [said EXCEPT ![i] = arguments]
      /\ conflict' = (conflict \/ ~Known(i) \/ ~IsPrefix(said[i], arguments))
  BY DEF Complete, CodexInv, TypeOK
<1>2. conflict = FALSE /\ conflict' \in BOOLEAN
  BY <1>1 DEF CodexInv, TypeOK, EndInv
<1>3. said' \in [Items -> Arguments]
  BY <1>1
<1>4. CASE ~Completable(i, arguments) /\ pc' = "raised" /\ UNCHANGED <<calls, client>>
  <2>1. Count' = Count /\ \A j \in Items : Known(j)' <=> Known(j)
    BY <1>4 DEF Count, Known
  <2>2. TypeOK'
    BY <1>2, <1>3, <1>4 DEF CodexInv, TypeOK
  <2>3. IndexInv'
    BY <2>1, <1>4 DEF CodexInv, IndexInv
  <2>4. SyncInv' /\ EndInv'
    BY <2>1, <1>4 DEF CodexInv, SyncInv, EndInv
  <2>5. QED
    BY <2>2, <2>3, <2>4 DEF CodexInv
<1>5. CASE /\ Completable(i, arguments) /\ UNCHANGED pc
           /\ calls' = [calls EXCEPT ![i] = [index |-> @.index, arguments |-> arguments]]
           /\ IF Suffix(i, arguments) = <<>> THEN UNCHANGED client
              ELSE Emit(calls[i].index, Suffix(i, arguments))
  <2>1. Known(i) /\ IsPrefix(calls[i].arguments, arguments)
    BY <1>5 DEF Completable
  <2>2. calls[i].arguments = said[i] /\ client[calls[i].index] = said[i]
    BY <2>1 DEF CodexInv, SyncInv
  <2>3. conflict' = conflict
    BY <2>1, <2>2, <1>1, <1>2
  <2>4. said[i] \in Seq(STRING) /\ arguments \in Seq(STRING)
    BY <1>1, ArgumentsAreTexts
  <2>5. /\ said[i] \o Suffix(i, arguments) = arguments
        /\ Suffix(i, arguments) = <<>> => said[i] = arguments
    BY <2>1, <2>2, <2>4, PieceLaw DEF Suffix
  <2>6. /\ client' \in Seq(Arguments) /\ Len(client') = Len(client)
        /\ client'[calls[i].index] = arguments
        /\ \A m \in 1..Len(client) : m # calls[i].index => client'[m] = client[m]
    <3>1. CASE Suffix(i, arguments) = <<>>
      BY <3>1, <1>1, <1>5, <2>2, <2>5
    <3>2. CASE Suffix(i, arguments) # <<>>
      <4>1. Emit(calls[i].index, Suffix(i, arguments))
        BY <3>2, <1>5
      <4>2. QED
        BY <4>1, <2>1, <2>5, EmitPiece
    <3>3. QED
      BY <3>1, <3>2
  <2>7. QED
    BY <1>1, <1>5, <2>1, <2>3, <2>6, ContinuedKeeps
<1>6. QED
  BY <1>4, <1>5 DEF Complete

\* Steps that leave the calls alone.
LEMMA CallsStand ==
  ASSUME CodexInv, UNCHANGED <<calls, client, said>>, pc = "raised" => pc' = "raised"
  PROVE  Count' = Count /\ IndexInv' /\ SyncInv'
<1>1. Count' = Count /\ \A i \in Items : Known(i)' <=> Known(i)
  BY DEF Count, Known
<1>2. QED
  BY <1>1 DEF CodexInv, IndexInv, SyncInv

LEMMA DoneKeeps ==
  ASSUME CodexInv, NEW i \in Items, NEW arguments \in Arguments, Done(i, arguments)
  PROVE  CodexInv'
<1>1. /\ Complete(i, arguments) /\ pc = "open" /\ finish = "none"
      /\ UNCHANGED <<stream, finish, answer>> /\ output' = output
  BY DEF Done, Talking
<1>2. output' \in Seq(Items \X Arguments) /\ output' = <<>>
  BY <1>1 DEF CodexInv, TypeOK, EndInv
<1>3. QED
  BY <1>1, <1>2, CompleteKeeps

LEMMA CompletedKeeps ==
  ASSUME CodexInv, NEW items \in BoundedSeq(Items \X Arguments, Cardinality(Items)),
         Completed(items)
  PROVE  CodexInv'
<1>1. items \in Seq(Items \X Arguments)
  BY CountType DEF BoundedSeq, SeqOf
<1>2. IndexInv' /\ SyncInv' /\ Count' = Count
  BY CallsStand DEF Completed, Talking
<1>3. TypeOK'
  BY <1>1 DEF CodexInv, TypeOK, Completed
<1>4. EndInv'
  BY <1>2 DEF CodexInv, EndInv, Completed, Talking
<1>5. QED
  BY <1>2, <1>3, <1>4 DEF CodexInv

LEMMA OutputItemKeeps ==
  ASSUME CodexInv, OutputItem PROVE CodexInv'
<1>1. output \in Seq(Items \X Arguments) /\ output # <<>> /\ pc = "output"
  BY DEF OutputItem, CodexInv, TypeOK
<1>2. /\ Head(output) \in Items \X Arguments
      /\ Tail(output) \in Seq(Items \X Arguments)
  BY <1>1, HeadTailProperties
<1>3. Head(output)[1] \in Items /\ Head(output)[2] \in Arguments
  BY <1>2
<1>4. /\ Complete(Head(output)[1], Head(output)[2])
      /\ output' = Tail(output) /\ UNCHANGED <<stream, finish, answer>>
  BY DEF OutputItem
<1>5. finish = "none"
  BY <1>1 DEF CodexInv, EndInv
<1>6. QED
  BY <1>1, <1>2, <1>3, <1>4, <1>5, CompleteKeeps

LEMMA FinalChunkKeeps ==
  ASSUME CodexInv, FinalChunk PROVE CodexInv'
<1>1. IndexInv' /\ SyncInv' /\ Count' = Count
  BY CallsStand DEF FinalChunk
<1>2. TypeOK'
  BY DEF CodexInv, TypeOK, FinalChunk
<1>3. EndInv'
  BY <1>1 DEF CodexInv, EndInv, FinalChunk
<1>4. QED
  BY <1>1, <1>2, <1>3 DEF CodexInv

\* The ways a stream ends.
LEMMA EndsKeep ==
  ASSUME CodexInv, End \/ Break \/ Disconnect \/ Respond PROVE CodexInv'
<1>1. IndexInv' /\ SyncInv' /\ Count' = Count
  BY CallsStand DEF End, Break, Disconnect, Respond
<1>2. TypeOK'
  BY DEF CodexInv, TypeOK, End, Break, Disconnect, Respond
<1>3. EndInv'
  <2>1. CASE End
    BY <1>1, <2>1 DEF CodexInv, EndInv, End
  <2>2. CASE Break
    BY <1>1, <2>2 DEF CodexInv, EndInv, Break
  <2>3. CASE Disconnect
    BY <1>1, <2>3 DEF CodexInv, EndInv, Disconnect
  <2>4. CASE Respond
    BY <1>1, <2>4 DEF CodexInv, EndInv, Respond, Terminated
  <2>5. QED
    BY <2>1, <2>2, <2>3, <2>4
<1>4. QED
  BY <1>1, <1>2, <1>3 DEF CodexInv

----------------------------------------------------------------------------
(* The invariant, and what it says.                                        *)

LEMMA CodexNext ==
  ASSUME CodexInv, [Next]_vars PROVE CodexInv'
<1>1. ASSUME NEW i \in Items, NEW arguments \in Arguments,
             Added(i, arguments) \/ Delta(i, arguments) \/ Done(i, arguments)
      PROVE  CodexInv'
  BY <1>1, AddedKeeps, DeltaKeeps, DoneKeeps
<1>2. ASSUME NEW items \in BoundedSeq(Items \X Arguments, Cardinality(Items)),
             Completed(items)
      PROVE  CodexInv'
  BY <1>2, CompletedKeeps
<1>3. CASE OutputItem
  BY <1>3, OutputItemKeeps
<1>4. CASE FinalChunk
  BY <1>4, FinalChunkKeeps
<1>5. CASE End \/ Break \/ Disconnect \/ Respond
  BY <1>5, EndsKeep
<1>6. CASE UNCHANGED vars
  BY <1>6 DEF CodexInv, TypeOK, IndexInv, SyncInv, EndInv, Count, Known, vars
<1>7. QED
  BY <1>1, <1>2, <1>3, <1>4, <1>5, <1>6 DEF Next

LEMMA CodexMeans ==
  ASSUME CodexInv PROVE ClientHasWhatWasSaid /\ FailsClosed /\ SuccessIsWhole
<1>1. ClientHasWhatWasSaid
  BY DEF CodexInv, SyncInv, ClientHasWhatWasSaid
<1>2. FailsClosed
  BY DEF CodexInv, TypeOK, EndInv, FailsClosed
<1>3. SuccessIsWhole
  <2> SUFFICES ASSUME answer = "200"
               PROVE  /\ finish = IF client = <<>> THEN "stop" ELSE "tool_calls"
                      /\ output = <<>>
                      /\ \A i \in Items : Known(i) => client[calls[i].index] = said[i]
    BY DEF SuccessIsWhole
  <2>1. pc = "end" /\ finish = (IF Count > 0 THEN "tool_calls" ELSE "stop")
    BY DEF CodexInv, EndInv
  <2>2. client \in Seq(Arguments) /\ Len(client) = Count /\ Count \in Nat
    BY <2>1, CountType DEF CodexInv, TypeOK, SyncInv
  <2>3. client = <<>> <=> Count = 0
    BY <2>2, EmptySeq
  <2>4. QED
    BY <2>1, <2>2, <2>3 DEF CodexInv, SyncInv, EndInv
<1>4. QED
  BY <1>1, <1>2, <1>3

LEMMA CodexInvariance == Spec => []CodexInv
<1>1. CodexInv /\ [Next]_vars => CodexInv'
  BY CodexNext
<1>2. QED
  BY <1>1, CodexInit, PTL DEF Spec

\* Every variable of a stream keeps to its type: no call gets an index beyond the
\* items there are, whatever upstream sends in whatever order.
THEOREM StreamTypes == Spec => []TypeOK
<1>1. CodexInv => TypeOK
  BY DEF CodexInv
<1>2. QED
  BY <1>1, CodexInvariance, PTL

\* However many calls upstream interleaves, and however it splits and repeats their
\* arguments, responses_sse_to_chat_sse has given the client what upstream said last.
THEOREM ClientIsInSync == Spec => []ClientHasWhatWasSaid
<1>1. CodexInv => ClientHasWhatWasSaid
  BY CodexMeans
<1>2. QED
  BY <1>1, CodexInvariance, PTL

\* complete_arguments turns every contradiction of upstream into a failed answer.
THEOREM ContradictionsFail == Spec => []FailsClosed
<1>1. CodexInv => FailsClosed
  BY CodexMeans
<1>2. QED
  BY <1>1, CodexInvariance, PTL

\* collect_chat_sse never makes a success of a truncated or unfinished stream.
THEOREM SuccessIsComplete == Spec => []SuccessIsWhole
<1>1. CodexInv => SuccessIsWhole
  BY CodexMeans
<1>2. QED
  BY <1>1, CodexInvariance, PTL
=============================================================================
