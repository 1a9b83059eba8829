----------------------------- MODULE MCUpdater -------------------------------
(* TLC instance of Updater.                                                *)
EXTENDS Updater, TLC

CONSTANTS f1, f2, f3

MCFiles == {f1, f2, f3}
FileSymmetry == Permutations(MCFiles)

(* Release 1 updates both items, release 2 only the first.                 *)
MCWants == <<{0, 1}, {0}>>
=============================================================================
