------------------------------- MODULE MCShell -------------------------------
(***************************************************************************)
(* An instance of Shell for TLC: a screen of three rows and seven columns. *)
(***************************************************************************)
EXTENDS Shell

\* The path "/".
SmallPrompts == {<<"/", ">">>}
\* "a" prints a line longer than a row, or nothing.
SmallCommands ==
    [w \in {<<"a">>} |-> {<<>>, <<"x", "x", "x", "x", "x", "x", "x", "x", "x", NewLine>>}]
ClearIt == <<"a", "a">>
EditIt == <<"/">>
NoSuch == <<"?", NewLine>>
=============================================================================
