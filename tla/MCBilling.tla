------------------------------ MODULE MCBilling ------------------------------
(* Small instances of Billing for TLC.                                     *)
EXTENDS Billing, TLC

Symmetry ==
  {f @@ g @@ h @@ k : f \in Permutations(Ids), g \in Permutations(Deliveries),
                      h \in Permutations(Subs), k \in Permutations(Tabs)}
=============================================================================
