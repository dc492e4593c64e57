----------------------------- MODULE MCPattern -----------------------------
(* Patterns and addresses for TLC: whatever can be put together of a few pieces,
   valid or not. *)
EXTENDS Pattern, SequencesExt

Pieces == {<<"/">>, <<"a">>, <<"b">>, <<"*">>, <<"?">>, <<"CLOSE">>,
           <<"OPEN", "a", "COMMA", "b", "CLOSE">>, <<"OPEN", "b", "a", "COMMA", "b", "CLOSE">>,
           <<"OPEN", "a", "OPEN", "b", "CLOSE">>, <<"OPEN", "[", "a", "CLOSE">>, <<"OPEN", "a", "COMMA", "CLOSE">>,
           <<"OPEN", "a">>}

MCPatterns == {<<"a">>} \cup {<<"/">> \o FlattenSeq(s) : s \in BoundedSeq(Pieces, 3)}

MCInputs == {<<"a">>} \cup {<<"/">> \o s : s \in BoundedSeq({"/", "a", "b"}, 3)}
            \cup {<<"/", "a", "CLOSE">>, <<"/", "CLOSE">>, <<"/", "a", "OPEN", "b">>, <<"/", "[", "a">>}
=============================================================================
