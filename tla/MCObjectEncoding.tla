--------------------------- MODULE MCObjectEncoding ---------------------------
(***************************************************************************)
(* A small instance of ObjectEncoding: properties_data without content,    *)
(* with content, and of a wrong length; a status that no draft knows.      *)
(***************************************************************************)
EXTENDS ObjectEncoding

BlocksHere == {<<0>>, <<1, 7>>, <<2, 7>>, <<>>}
PayloadsHere == {<<>>, <<9, 8>>}
=============================================================================
