------------------------------- MODULE MCFade -------------------------------
(***************************************************************************)
(* Small instances of Fade for TLC.                                        *)
(***************************************************************************)
EXTENDS FadeRefines, TLC

Symmetry == Permutations(Ids)

Exactly(names) == {<<n, n>> : n \in names}

\* One path; a flat namespace of two paths whose files live one second and two.
OneName == {"a"}
OnePath == {<<"a">>}
OneTtl == [p \in OnePath |-> 1]
OneLike == Exactly(OneName)

FlatNames == {"a", "b"}
FlatPaths == {<<"a">>, <<"b">>}
FlatTtl == [p \in FlatPaths |-> IF p = <<"a">> THEN 1 ELSE 2]
FlatLike == Exactly(FlatNames)

\* Two directories with room for one file in each: files of d live one second,
\* files of e for ever.
TreeNames == {"d", "e", "a"}
TreeDirs == {<<"d">>, <<"e">>}
TreeFiles == {<<"d", "a">>, <<"e", "a">>}
TreePaths == TreeDirs \cup TreeFiles
TreeTtl == [p \in TreeFiles |-> IF p[1] = "d" THEN 1 ELSE Forever]
TreeLike == Exactly(TreeNames)
TreeRenames == {<<<<"d">>, <<"e">>>>, <<<<"e">>, <<"d">>>>,
                <<<<"d", "a">>, <<"e", "a">>>>, <<<<"e", "a">>, <<"d", "a">>>>}
TreeDirRename == {<<<<"d">>, <<"e">>>>}
TreeForwardRenames == {<<<<"d">>, <<"e">>>>, <<<<"d", "a">>, <<"e", "a">>>>}

\* One of the two is a default folder of developer mode.
TreeDefaults == {<<"d">>}
=============================================================================
