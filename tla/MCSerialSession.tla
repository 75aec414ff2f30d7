--------------------------- MODULE MCSerialSession ---------------------------
(* SerialSession instantiated for TLC: a file long enough for the block      *)
(* numbers to wrap, one that becomes unreadable, and an empty one.           *)
EXTENDS SerialSession

MCFiles == {<<>>, <<"a", "b", "c">>, <<"a", Unreadable>>}
=============================================================================
