--------------------------- MODULE MCDraftApproval ---------------------------
(* Small instances of DraftApproval for TLC.                               *)
EXTENDS DraftApproval, TLC

Symmetry == Permutations(Handlers)
=============================================================================
