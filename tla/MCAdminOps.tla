------------------------------- MODULE MCAdminOps -------------------------------
(***************************************************************************)
(* An instance of AdminOps for TLC.                                        *)
(***************************************************************************)
EXTENDS AdminOps, TLC

CONSTANTS s1, s2, f1, f2

\* The slots are alike, and so are the folders.
Alike == Permutations(Slot) \cup Permutations(Folder)
=============================================================================
