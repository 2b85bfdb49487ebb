----------------------------- MODULE MCConsole -----------------------------
(***************************************************************************)
(* An instance of Console for TLC: a screen of a few cells, and strings     *)
(* that end exactly at its edge, wrap, overwrite a line and are empty.      *)
(***************************************************************************)
EXTENDS Console

SmallText == {<<>>, <<"a", "b", "\n">>, <<"c", "\r", "d">>, <<"e", "f", "g">>}

=============================================================================
