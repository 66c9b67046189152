---------------------------- MODULE MCEmailTriage ----------------------------
(* Small instances of EmailTriage for TLC.                                 *)
EXTENDS EmailTriage, TLC

Symmetry == Permutations(Emails) \cup Permutations(Runs)
=============================================================================
