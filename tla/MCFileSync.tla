----------------------------- MODULE MCFileSync -----------------------------
(* FileSync.tla for TLC. *)
EXTENDS FileSync, TLC
CONSTANTS a, b
MCNames == {a, b}
MCLong == {b}
Renaming == Permutations(Names)
=============================================================================
