---------------------------- MODULE MCGmailLabels ----------------------------
(* GmailLabels for TLC, in two parts.  Connecting an account and labelling *)
(* an email touch nothing of each other but that a call is for an account  *)
(* that is on: the one part is checked with no call, the other with every  *)
(* mailbox connected.                                                      *)
EXTENDS GmailLabels, TLC

VARIABLE part

Connected ==
  /\ \E m \in [Connections -> Mailboxes], t \in Tabs :
       /\ \A b \in Mailboxes : \E c \in Connections : m[c] = b
       /\ connection = [c \in Connections |-> [state |-> "active", mailbox |-> m[c]]]
       /\ account = [c \in Connections |-> [address |-> m[c], label |-> t, active |-> TRUE]]
  /\ flow = [t \in Tabs |-> OnPage]
  /\ overtaken = {}

MCInit ==
  /\ LabelInit
  /\ (part = "accounts" /\ AccountInit) \/ (part = "labels" /\ Connected)

MCNext ==
  /\ \/ part = "accounts" /\ AccountStep /\ UNCHANGED labelVars
     \/ part = "labels" /\ LabelStep
  /\ UNCHANGED part

MCSpec == MCInit /\ [][MCNext]_<<vars, part>>

Symmetry == {f @@ g @@ h @@ k : f \in Permutations(Tabs), g \in Permutations(Calls),
                                h \in Permutations(Mailboxes), k \in Permutations(Names)}
=============================================================================
