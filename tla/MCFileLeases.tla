---------------------------- MODULE MCFileLeases ----------------------------
(* FileLeases on a directory and a file in it. *)
EXTENDS FileLeases

NestedPaths == {<<"src">>, <<"src", "lib">>}

Symmetry == Permutations(Agents) \cup Permutations(Requests)
=============================================================================
