------------------------------- MODULE MCEditor -------------------------------
(***************************************************************************)
(* An instance of Editor for TLC: three lines of three characters, a view  *)
(* of two rows and two undo slots.                                         *)
(***************************************************************************)
EXTENDS Editor

\* No text, two short lines, as many lines as fit, and a line too long.
SmallFiles ==
    { <<>>, <<"a", "b", Newline, "a">>, <<"a", Newline, "b", Newline, "b", "a">>,
      <<"a", "a", "b", "b", Newline>> }

\* Nothing, and a line too long with more newlines behind it than lines fit.
Leftovers == { <<>>, <<"b", "a", "b", "a", Newline, Newline, Newline>> }
=============================================================================
