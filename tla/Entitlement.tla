----------------------------- MODULE Entitlement -----------------------------
(***************************************************************************)
(* What billing promises: a plan changes only when an event of a           *)
(* subscription takes effect, each event takes effect once at most, and    *)
(* only on the user who went through that checkout.                        *)
(***************************************************************************)
CONSTANTS Users, Nobody, Subs, Events, PlanOf(_)

VARIABLES
  plan,   \* of each user
  buyer,  \* of each subscription
  spent   \* events that have taken effect

vars == <<plan, buyer, spent>>

Init ==
  /\ plan = [u \in Users |-> "free"]
  /\ buyer = [s \in Subs |-> Nobody]
  /\ spent = {}

CheckOut(u, s) ==
  /\ buyer[s] = Nobody
  /\ buyer' = [buyer EXCEPT ![s] = u]
  /\ UNCHANGED <<plan, spent>>

TakeEffect(e) ==
  /\ e \notin spent
  /\ spent' = spent \cup {e}
  /\ plan' = [plan EXCEPT ![buyer[e.sub]] = PlanOf(e)]
  /\ UNCHANGED buyer

Next ==
  \/ \E u \in Users, s \in Subs : CheckOut(u, s)
  \/ \E e \in Events : TakeEffect(e)

Spec == Init /\ [][Next]_vars
=============================================================================
