------------------------------- MODULE Billing -------------------------------
(***************************************************************************)
(* Subscriptions and the plan they give: the checkout of                   *)
(* web/app/api/billing/subscribe, the webhook of                           *)
(* web/app/api/webhooks/razorpay and the tables both write.  Razorpay      *)
(* sends an event again until it is answered with 200, perhaps twice at    *)
(* once and in any order; the webhook claims the event id, updates the     *)
(* subscription row and then the user's plan, in three awaits.             *)
(***************************************************************************)
EXTENDS UserAccounts, SequencesExt

CONSTANTS
  Subs,        \* subscriptions Razorpay may create
  NoSub,
  Deliveries,  \* webhook requests that can be in progress at once
  Kinds,       \* of events
  Faults       \* what may go wrong

(* Faults: "throw"  an await of a handler throws, or its function is       *)
(*                  killed there.                                          *)
ActiveEvents == {"authenticated", "activated", "charged"}
EndedEvents == {"cancelled", "completed", "expired", "halted"}

ASSUME BillingAssumption ==
  /\ NoSub \notin Subs
  /\ Kinds \subseteq ActiveEvents \cup EndedEvents \cup {"pending"}
  /\ Faults \subseteq {"throw"}

VARIABLES
  subscriptions,  \* the table, by user
  claimed,        \* processed_webhook_events
  buyer,          \* the user who started each checkout, NoId before it
  linked,         \* checkouts whose payment page was opened
  sent,           \* events of each subscription, in the order they happened
  unanswered,     \* events Razorpay has no 200 for
  delivery,       \* the webhook requests under way
  finished,       \* events that were handled to the end
  spent,          \* events that have changed a plan
  orderly         \* users whose events were handled one by one, in order

tables == <<users, raced, subscriptions, claimed>>
provider == <<buyer, linked, sent, unanswered>>
ghosts == <<finished, spent, orderly>>
vars == <<tables, provider, tab, delivery, ghosts>>

Event == [sub : Subs, kind : Kinds]
SubStatus == {"created", "active", "cancelled", "expired"}
Row == [sub : Subs, plan : Plans, status : SubStatus, period : BOOLEAN]
NoEvent == [sub |-> NoSub, kind |-> "none"]
Waiting == [pc |-> "idle", event |-> NoEvent, user |-> NoId]
TabPc == {"out", "insert", "again", "in", "upsert", "save"}

TypeOK ==
  /\ users \in [Ids -> User \cup {NoRow}]
  /\ raced \subseteq Addresses
  /\ subscriptions \in [Ids -> Row \cup {NoRow}]
  /\ claimed \subseteq Event
  /\ buyer \in [Subs -> Ids \cup {NoId}]
  /\ linked \subseteq Subs
  /\ sent \in [Subs -> Seq(Kinds)]
  /\ unanswered \subseteq Event
  /\ tab \in [Tabs -> [pc : TabPc, address : Addresses, id : Ids \cup {NoId}, sub : Subs \cup {NoSub}]]
  /\ delivery \in [Deliveries -> [pc : {"idle", "update", "plan"},
                                  event : Event \cup {NoEvent}, user : Ids \cup {NoId}]]
  /\ finished \subseteq Event
  /\ spent \subseteq Event
  /\ orderly \in [Ids -> BOOLEAN]

Init ==
  /\ AccountsInit
  /\ \E home \in [Tabs -> Addresses] :
       tab = [t \in Tabs |-> [pc |-> "out", address |-> home[t], id |-> NoId, sub |-> NoSub]]
  /\ subscriptions = [i \in Ids |-> NoRow]
  /\ claimed = {}
  /\ buyer = [s \in Subs |-> NoId]
  /\ linked = {}
  /\ sent = [s \in Subs |-> <<>>]
  /\ unanswered = {}
  /\ delivery = [d \in Deliveries |-> Waiting]
  /\ finished = {}
  /\ spent = {}
  /\ orderly = [i \in Ids |-> TRUE]

-----------------------------------------------------------------------------
(* The checkout: POST /api/billing/subscribe.                              *)

(* createRazorpaySubscription.                                             *)
CreateSubscription(t) ==
  /\ TabAt(t, "in")
  /\ \E s \in Subs :
       /\ buyer[s] = NoId
       /\ buyer' = [buyer EXCEPT ![s] = tab[t].id]
       /\ tab' = [tab EXCEPT ![t].pc = "upsert", ![t].sub = s]
  /\ UNCHANGED <<tables, linked, sent, unanswered, delivery, ghosts>>

UpsertBuyer(t) ==
  /\ TabAt(t, "upsert")
  /\ users' = Upserted(tab[t].id, tab[t].address)
  /\ TabGoto(t, "save")
  /\ UNCHANGED <<raced, subscriptions, claimed, provider, delivery, ghosts>>

\* Mutation: the plan is given at once, before any payment.
SaveAndUpgrade(t) ==
  LET i == tab[t].id IN
  /\ TabAt(t, "save")
  /\ subscriptions' = [subscriptions EXCEPT
       ![i] = [sub |-> tab[t].sub, plan |-> "pro", status |-> "created", period |-> FALSE]]
  /\ users' = WithPlan(i, "pro")
  /\ linked' = linked \cup {tab[t].sub}
  /\ tab' = [tab EXCEPT ![t].pc = "in", ![t].sub = NoSub]
  /\ UNCHANGED <<raced, claimed, buyer, sent, unanswered, delivery, ghosts>>

(* saveSubscription: one row per user, so a checkout that was under way is *)
(* forgotten.  The browser then goes to the payment page.                  *)
SaveSubscription(t) ==
  LET i == tab[t].id IN
  /\ TabAt(t, "save")
  /\ subscriptions' = [subscriptions EXCEPT
       ![i] = [sub |-> tab[t].sub, plan |-> "pro", status |-> "created", period |-> FALSE]]
  /\ linked' = linked \cup {tab[t].sub}
  /\ tab' = [tab EXCEPT ![t].pc = "in", ![t].sub = NoSub]
  /\ UNCHANGED <<users, raced, claimed, buyer, sent, unanswered, delivery, ghosts>>

(* Answered with 500: the browser shows the error and stays.               *)
CheckoutFails(t) ==
  /\ "throw" \in Faults
  /\ tab[t].pc \in {"upsert", "save"}
  /\ tab' = [tab EXCEPT ![t].pc = "in", ![t].sub = NoSub]
  /\ UNCHANGED <<tables, provider, delivery, ghosts>>

-----------------------------------------------------------------------------
(* Razorpay.                                                               *)
Follows(k, past) ==
  LET before == IF past = <<>> THEN "none" ELSE Last(past) IN
  CASE k = "authenticated" -> before = "none"
    [] k = "activated" -> before \in {"none", "authenticated"}
    [] k = "charged" -> before = "activated"
    [] k = "pending" -> before \in {"activated", "charged"}
    [] k = "halted" -> before = "pending"
    [] k = "completed" -> before = "charged"
    [] k = "expired" -> before = "none"
    [] k = "cancelled" -> before \notin EndedEvents

(* Something happens to a subscription whose payment page was opened.      *)
Happen(s, k) ==
  /\ s \in linked
  /\ Follows(k, sent[s])
  /\ sent' = [sent EXCEPT ![s] = Append(@, k)]
  /\ unanswered' = unanswered \cup {[sub |-> s, kind |-> k]}
  /\ UNCHANGED <<tables, buyer, linked, tab, delivery, ghosts>>

-----------------------------------------------------------------------------
(* The webhook: POST /api/webhooks/razorpay.                               *)
(* Answered with 200.                                                      *)
Answered(e) == unanswered' = unanswered \ {e}
Return(d) == delivery' = [delivery EXCEPT ![d] = Waiting]
Begin(d, e) == delivery' = [delivery EXCEPT ![d] = [pc |-> "update", event |-> e, user |-> NoId]]

Acts(k) == k \in ActiveEvents \cup EndedEvents

\* Mutation: a halted subscription is taken for one that goes on.
PlanUnlessHalted(e) == IF e.kind \in ActiveEvents \cup {"halted"} THEN "pro" ELSE "free"

PlanFor(e) == IF e.kind \in ActiveEvents THEN "pro" ELSE "free"

\* Mutation: the status is saved as Razorpay names it.
StatusAsNamed(k) == k

StatusFor(k) ==
  CASE k \in ActiveEvents -> "active"
    [] k \in {"cancelled", "halted"} -> "cancelled"
    [] OTHER -> "expired"

(* Every earlier event of its subscription was handled, and no other event *)
(* of its buyer is being.                                                  *)
InTurn(d, e) ==
  /\ \A n, m \in 1..Len(sent[e.sub]) :
       n < m /\ sent[e.sub][m] = e.kind => [sub |-> e.sub, kind |-> sent[e.sub][n]] \in finished
  /\ \A c \in Deliveries \ {d} :
       delivery[c].pc \in {"update", "plan"} => buyer[delivery[c].event.sub] # buyer[e.sub]

(* claimWebhookEvent for an event Razorpay sends, the first time or again, *)
(* and the return of handleEvent for other kinds.                          *)
ClaimEvent(d) ==
  /\ delivery[d].pc = "idle"
  /\ \E e \in unanswered :
       /\ claimed' = claimed \cup {e}
       /\ \/ /\ e \in claimed
             /\ Answered(e)
             /\ UNCHANGED <<delivery, ghosts>>
          \/ /\ e \notin claimed /\ ~Acts(e.kind)
             /\ Answered(e)
             /\ finished' = finished \cup {e}
             /\ UNCHANGED <<delivery, spent, orderly>>
          \/ /\ e \notin claimed /\ Acts(e.kind)
             /\ Begin(d, e)
             /\ orderly' = [orderly EXCEPT ![buyer[e.sub]] = @ /\ InTurn(d, e)]
             /\ UNCHANGED <<unanswered, finished, spent>>
  /\ UNCHANGED <<users, raced, subscriptions, buyer, linked, sent, tab>>

Holders(s) == {i \in Ids : subscriptions[i] # NoRow /\ subscriptions[i].sub = s}

(* updateSubscriptionByRazorpayId; no row, and the event is over.          *)
UpdateSubscription(d) ==
  LET e == delivery[d].event IN
  /\ delivery[d].pc = "update"
  /\ \/ \E i \in Holders(e.sub) :
          /\ subscriptions' = [subscriptions EXCEPT
               ![i] = [sub |-> e.sub, plan |-> PlanFor(e), status |-> StatusFor(e.kind),
                       period |-> e.kind \in ActiveEvents]]
          /\ delivery' = [delivery EXCEPT ![d].pc = "plan", ![d].user = i]
          /\ UNCHANGED <<unanswered, finished>>
     \/ /\ Holders(e.sub) = {}
        /\ Answered(e) /\ Return(d)
        /\ finished' = finished \cup {e}
        /\ UNCHANGED subscriptions
  /\ UNCHANGED <<users, raced, claimed, buyer, linked, sent, tab, spent, orderly>>

SetUserPlan(d) ==
  LET e == delivery[d].event IN
  /\ delivery[d].pc = "plan"
  /\ users' = WithPlan(delivery[d].user, PlanFor(e))
  /\ Answered(e) /\ Return(d)
  /\ finished' = finished \cup {e}
  /\ spent' = spent \cup {e}
  /\ UNCHANGED <<raced, subscriptions, claimed, buyer, linked, sent, tab, orderly>>

(* Answered with 500, or not at all: Razorpay will send the event again.   *)
WebhookFails(d) ==
  /\ "throw" \in Faults
  /\ delivery[d].pc # "idle"
  /\ Return(d)
  /\ UNCHANGED <<tables, provider, tab, ghosts>>

-----------------------------------------------------------------------------
TabStep(t) ==
  \/ SignInStep(t) /\ UNCHANGED <<subscriptions, claimed, provider, delivery, ghosts>>
  \/ CreateSubscription(t) \/ UpsertBuyer(t) \/ SaveSubscription(t) \/ CheckoutFails(t)

WebhookStep(d) == ClaimEvent(d) \/ UpdateSubscription(d) \/ SetUserPlan(d)

(* Bound: no id is left to make up.                                        *)
IdsUsedUp == (\A i \in Ids : ~Unused(i)) /\ UNCHANGED vars

Next ==
  \/ IdsUsedUp
  \/ \E t \in Tabs : TabStep(t)
  \/ \E s \in Subs, k \in Kinds : Happen(s, k)
  \/ \E d \in Deliveries : WebhookStep(d) \/ WebhookFails(d)

Spec == Init /\ [][Next]_vars

-----------------------------------------------------------------------------
(* Properties.                                                             *)

(* The last event of a subscription that calls for a plan.                 *)
Decides(s, n) == Acts(sent[s][n]) /\ \A m \in (n + 1)..Len(sent[s]) : ~Acts(sent[s][m])
AllFinished(s) == \A n \in 1..Len(sent[s]) : [sub |-> s, kind |-> sent[s][n]] \in finished

(* Where the events of a user were handled one after the other and in      *)
(* order, none failing half way, both tables agree with Razorpay on the    *)
(* plan, however often events were sent again and checkouts started        *)
(* (handleEvent, applyPlan).                                               *)
PlanFollowsProvider ==
  \A i \in Ids :
    subscriptions[i] # NoRow =>
      LET s == subscriptions[i].sub IN
      orderly[i] /\ AllFinished(s) =>
        \A n \in 1..Len(sent[s]) : Decides(s, n) =>
          LET plan == IF sent[s][n] \in ActiveEvents THEN "pro" ELSE "free" IN
          users[i].plan = plan /\ subscriptions[i].plan = plan

(* Billing implements Entitlement: the checkout never changes a plan, and  *)
(* a webhook that is delivered twice, late or to a user whose row has      *)
(* moved on changes it once at most and for its buyer only.                *)
Promised == INSTANCE Entitlement WITH
  Users <- Ids, Nobody <- NoId, Events <- Event, PlanOf <- PlanFor,
  plan <- [i \in Ids |-> IF HasUser(i) THEN users[i].plan ELSE "free"]

PromiseKept == Promised!Spec
=============================================================================
