--------------------------- MODULE MCFileStorage ---------------------------
(* Small instances of FileStorage for TLC: one project, owned by u1. *)
EXTENDS FileStorage, TLC

CONSTANTS u1, p1

MCOwnerOf == [p \in Projects |-> u1]

Symmetric == Permutations(Files) \cup Permutations(Calls) \cup Permutations(Workers)
=============================================================================
