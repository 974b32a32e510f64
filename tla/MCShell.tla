------------------------------ MODULE MCShell ------------------------------
(* The shell with five processes besides itself and two pipes: all that    *)
(* the pipeline of three programs needs, and one too few when there is a   *)
(* program in the background.                                              *)
EXTENDS Shell

Chars == {"a", " ", "|", "(", ")", ";", "&", ">"}
\* The shorter lines are those that end in spaces.
MCStrings == [1 .. 5 -> Chars]
MCLines == {<<"c", "d", " ", "a">>, <<"a", ")">>, <<"a", "&">>, <<"a", "|", "a", "|", "a">>,
            <<"a", "<", "a", ";", "a", ">", "a">>}
=============================================================================
