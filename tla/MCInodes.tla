------------------------------- MODULE MCInodes -------------------------------
(***************************************************************************)
(* A small instance of FadeInodes for TLC: a file and two directories in   *)
(* the root, room for one file in each directory.                          *)
(***************************************************************************)
EXTENDS FadeInodes

InodeOrder == <<"a", "d", "e">>
InodeNames == {"a", "d", "e"}
InodeDirs == {<<"d">>, <<"e">>}
InodeFiles == {<<"a">>, <<"d", "a">>, <<"e", "a">>}
InodePaths == InodeDirs \cup InodeFiles
InodeRenames == {<<<<"d">>, <<"e">>>>, <<<<"e">>, <<"d">>>>,
                 <<<<"a">>, <<"d", "a">>>>, <<<<"d", "a">>, <<"a">>>>}
=============================================================================
