-------------------------- MODULE MCCustomCmdInstall --------------------------
(* CustomCmdInstall with two lists that share a name. *)
EXTENDS CustomCmdInstall

First == <<<<"n1", "x">>, <<"n2", "x">>>>
Second == <<<<"n1", "y">>>>

MCNames == {"n1", "n2"}
MCTexts == {"x", "y"}
MCLists == {First, Second}
=============================================================================
