---------------------------- MODULE MCSignalLink ----------------------------
(* What a user has with Signal, for TLC: the numbers and the replies       *)
(* (SignalLink), the dialog that links a phone (SignalQr) and the drafts   *)
(* that await a word (DraftQueue).  They share no state: a behaviour is of *)
(* one part.                                                               *)
EXTENDS SignalLink, SignalQr, DraftQueue, TLC

VARIABLE part

vars == <<linkVars, qrVars, queueVars, part>>

MCInit == part \in {"link", "dialog", "drafts"} /\ LinkInit /\ QrInit /\ QueueInit

MCNext ==
  /\ \/ part = "link" /\ LinkStep /\ UNCHANGED <<qrVars, queueVars>>
     \/ part = "dialog" /\ QrStep /\ UNCHANGED <<linkVars, queueVars>>
     \/ part = "drafts" /\ QueueStep /\ UNCHANGED <<linkVars, qrVars>>
  /\ UNCHANGED part

MCSpec == MCInit /\ [][MCNext]_vars

Symmetry ==
  {f @@ g : f \in Permutations(Users), g \in Permutations(Numbers)} \cup
  {f @@ g : f \in Permutations(Drafters), g \in Permutations(Codes)}
=============================================================================
