---------------------------- MODULE MCFileTools ----------------------------
(* An instance of FileTools for TLC. *)
EXTENDS FileTools, TLC

\* Two contents whose anchors collide.
MCLines == {"a", "b"}
MCBaseSlot == ("a" :> 0) @@ ("b" :> 0)

\* Texts with lines that repeat, move and disappear; two that share no line have
\* more lines than there are slots.
MCOthers == {<<"a", "a">>, <<"b", "a">>, <<>>}
MCWritten == {<<"b", "b">>}
MCInserted == {<<>>}

Symmetry == Permutations(Calls) \cup Permutations(Sessions)
=============================================================================
