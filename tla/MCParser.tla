------------------------------ MODULE MCParser ------------------------------
(* Instructions of one to three elements around a buffer of ten bytes:      *)
(* short ones, one with a character of two bytes, one with ";" within an    *)
(* element, one that fills the buffer, one that is longer and one with as   *)
(* many elements as the limit; and three that are malformed.                *)
EXTENDS Parser
Plain == {<<<<"a">>>>, <<<<"a">>, <<"w">>>>, <<<<>>, <<>>>>}
Long == {<<<<"a">>, <<"a", "b", "a">>>>, <<<<"a">>, <<"a", "b", "a", "b">>>>}
Split == {<<<<"a">>, <<";">>>>, <<<<";", "a">>>>}
Many == {<<<<>>, <<>>, <<>>>>}
MCInstructions == Plain \union Long \union Split \union Many
MCBroken == {<<"a", ";">>, <<"1", ".", "a", "a", ";">>, <<"1", "2", ".", ";">>}
=============================================================================
