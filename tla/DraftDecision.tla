--------------------------- MODULE DraftDecision ---------------------------
(***************************************************************************)
(* What the approval flow promises about each draft, whatever overlaps,    *)
(* times out or stops half way: the decision is taken once.  A draft the   *)
(* user confirmed is mailed at most once and is then settled; one that was *)
(* discarded or has expired is settled without being mailed; a decision to *)
(* send is taken back only if nothing was mailed.                          *)
(***************************************************************************)
EXTENDS Integers

CONSTANT Actions

VARIABLES
  verdict,  \* what has been decided about each draft
  mails     \* mails sent for it

Init ==
  /\ verdict = [a \in Actions |-> "open"]
  /\ mails = [a \in Actions |-> 0]

Decide(a, from, to) ==
  /\ verdict[a] = from
  /\ verdict' = [verdict EXCEPT ![a] = to]

Commit(a)   == Decide(a, "open", "committed") /\ UNCHANGED mails
TakeBack(a) == Decide(a, "committed", "open") /\ UNCHANGED mails
Discard(a)  == Decide(a, "open", "discarded") /\ UNCHANGED mails

Mail(a) ==
  /\ Decide(a, "committed", "mailed")
  /\ mails' = [mails EXCEPT ![a] = @ + 1]

(* One tick may expire several drafts.                                     *)
Expire(S) ==
  /\ \A a \in S : verdict[a] = "open"
  /\ verdict' = [a \in Actions |-> IF a \in S THEN "expired" ELSE verdict[a]]
  /\ UNCHANGED mails

Next ==
  \/ \E a \in Actions : Commit(a) \/ TakeBack(a) \/ Discard(a) \/ Mail(a)
  \/ \E S \in SUBSET Actions : Expire(S)

Spec == Init /\ [][Next]_<<verdict, mails>>
=============================================================================
