----------------------------- MODULE MCExchange -----------------------------
(* Instances of Exchange for TLC.                                          *)
EXTENDS Exchange

\* Every role, and every form and kind of content.
Samples ==
  {Message("system", Plain("text")),
   Message("developer", List(<<"text", "input_text", "odd", "text">>)),
   Message("user", Plain("text")),
   Message("user", List(<<"image_url", "text", "input_text", "output_text", "file", "odd">>)),
   Message("assistant", List(<<"output_text", "text", "input_text", "blank">>)),
   Message("assistant", Plain("blank"))}

FewOpenings ==
  {<<m>> : m \in Samples}
    \cup {<<m, n>> : m \in {s \in Samples : s.role = "developer"},
                     n \in {s \in Samples : s.role # "system" /\ s.content.form = "list"}}

\* Each a proper prefix of the next, and in conflict with the one before.
FewArguments == {<<>>, <<"a">>, <<"a", "b">>}

\* Bounds: a slot that the stream contradicts does not grow without end, and the last
\* answer has no calls: what they can do they have done before.
Bounded ==
  /\ \A n \in DOMAIN slots : Len(slots[n].arguments) <= 2
  /\ turn = MaxTurns /\ lane \in Answers =>
       \A i \in Items : ~Known(i) /\ ~Announced(i) /\ said[i] = <<>>

\* Sound: no definition tells items apart.
Symmetry == Permutations(Items)
=============================================================================
