---------------------------- MODULE MCTextStreams ----------------------------
(* Instances of TextStreams. *)
EXTENDS TextStreams

\* A character by itself and one after an ASCII character.
Sources == {<<<<"lead", "e">>, <<"trail", "e">>>>,
            <<<<"one", "a">>, <<"lead", "u">>, <<"trail", "u">>>>}
=============================================================================
