---------------------------- MODULE ChatRequest ----------------------------
(***************************************************************************)
(* The request half of the codex translator: chat_to_responses, from       *)
(* ChatCompletions messages to the instructions and the input items of the *)
(* Responses API.  A content block is its type; what it carries passes     *)
(* through.                                                                *)
(***************************************************************************)
EXTENDS Naturals, Sequences, FiniteSets, SequencesExt

\* Those of ChatCompletions and the native ones of the Responses API.  "blank" is a
\* text block without text, "odd" one of an unknown type or without what its type says.
Blocks ==
  {"text", "image_url", "input_audio", "file", "input_text", "input_image", "input_file",
   "output_text", "blank", "odd"}

\* A message's content: absent, a plain string (its one block), or a list.
Contents ==
  {content \in [form : {"null", "string", "list"}, blocks : Seq(Blocks)] :
     /\ content.form = "null" => content.blocks = <<>>
     /\ content.form = "string" => content.blocks \in {<<"text">>, <<"blank">>}}
NoContent == [form |-> "null", blocks |-> <<>>]
Plain(block) == [form |-> "string", blocks |-> <<block>>]
List(blocks) == [form |-> "list", blocks |-> blocks]

Roles == {"system", "developer", "user", "assistant", "tool"}

\* Messages, with empty fields where a role has no use for them; a call is
\* [id, arguments], and `answers` the id of the call a tool message is about.
Message(role, content) ==
  [role |-> role, content |-> content, calls |-> <<>>, answers |-> {}]
Assistant(content, calls) == [Message("assistant", content) EXCEPT !.calls = calls]
Tool(id) == [Message("tool", Plain("text")) EXCEPT !.answers = {id}]

----------------------------------------------------------------------------
\* A list's blocks, each as the table has it; one without an entry is dropped.
Translated(blocks, table) ==
  FlattenSeq([i \in DOMAIN blocks |->
    IF blocks[i] \in DOMAIN table THEN <<table[blocks[i]]>> ELSE <<>>])

\* _translate_input_block; a native input block stays.
InputBlock ==
  [text |-> "input_text", image_url |-> "input_image", input_audio |-> "input_audio",
   file |-> "input_file", input_text |-> "input_text", input_image |-> "input_image",
   input_file |-> "input_file"]

\* _translate_assistant_content: strings stay, lists keep their text.
SpokenBlock == [text |-> "output_text", output_text |-> "output_text"]
Spoken(content) ==
  IF content.form = "string" THEN content.blocks ELSE Translated(content.blocks, SpokenBlock)

\* `if content`: null, '' and [] are false.
Truthy(content) ==
  content.form # "null" /\ content.blocks # <<>> /\ content # Plain("blank")

Item(type, blocks) == [type |-> type, blocks |-> blocks, call |-> {}]

CallItem(call) == [Item("function_call", <<>>) EXCEPT !.call = {call}]

\* An assistant turn has calls and/or content.  A mutant: content or calls.
AssistantItems_Either(m) ==
  IF Truthy(m.content) THEN <<Item("assistant", Spoken(m.content))>>
  ELSE [i \in DOMAIN m.calls |-> CallItem(m.calls[i])]
AssistantItems(m) ==
  [i \in DOMAIN m.calls |-> CallItem(m.calls[i])]
    \o (IF Truthy(m.content) THEN <<Item("assistant", Spoken(m.content))>> ELSE <<>>)

\* The loop's body: the input items a message adds.
InputItems(m) ==
  CASE m.role \in {"system", "developer"} -> <<>>
    [] m.role = "tool" ->
         <<[Item("function_call_output", m.content.blocks) EXCEPT
              !.call = {[id |-> id, arguments |-> <<>>] : id \in m.answers}]>>
    [] m.role = "assistant" -> AssistantItems(m)
    [] OTHER ->
         <<Item(m.role, IF m.content.form = "list" THEN Translated(m.content.blocks, InputBlock)
                        ELSE m.content.blocks)>>

\* _flatten_text.
TextBlock == [text |-> "text"]

\* And what it adds to the instructions: a string as it is, a list's texts.  A
\* mutant: strings only.
Instructions_StringsOnly(m) ==
  IF m.role \in {"system", "developer"} /\ m.content.form = "string"
    THEN m.content.blocks ELSE <<>>
Instructions(m) ==
  IF m.role \notin {"system", "developer"} THEN <<>>
  ELSE IF m.content.form = "list" THEN Translated(m.content.blocks, TextBlock)
  ELSE m.content.blocks

chat_to_responses(messages) ==
  [instructions |-> FlattenSeq([i \in DOMAIN messages |-> Instructions(messages[i])]),
   input |-> FlattenSeq([i \in DOMAIN messages |-> InputItems(messages[i])])]
----------------------------------------------------------------------------
(* Properties.                                                             *)

Texts(blocks, types) == Cardinality({n \in DOMAIN blocks : blocks[n] \in types})

AllBlocks(parts) == FlattenSeq([n \in DOMAIN parts |-> parts[n].blocks])

Said == {"text", "input_text", "output_text"}

\* The blocks that may carry the text of a role's message: the native types are known
\* only to the role they are meant for, and a tool's result is handed on whole.
Readable(role) ==
  CASE role \in {"system", "developer"} -> {"text"}
    [] role = "assistant" -> {"text", "output_text"}
    [] role = "tool" -> Said
    [] OTHER -> {"text", "input_text"}

\* A message's content, read so.
Heard(m) ==
  [k \in DOMAIN m.content.blocks |->
     IF m.content.blocks[k] \in Readable(m.role) THEN "text" ELSE "odd"]

\* Of the text a conversation says in blocks of its messages' roles none is dropped or
\* doubled on its way into instructions and input, in whichever of the two forms each
\* message has it; text in a native block of another role is dropped, and only that.
KeepsText(messages) ==
  LET request == chat_to_responses(messages)
  IN  Texts(FlattenSeq([n \in DOMAIN messages |-> Heard(messages[n])]), {"text"})
        = Texts(request.instructions, {"text"}) + Texts(AllBlocks(request.input), Said)
=============================================================================
