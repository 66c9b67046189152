----------------------------- MODULE BillingProofs -----------------------------
(***************************************************************************)
(* For any number of addresses, tabs, subscriptions, events and webhook    *)
(* requests: one user for an address, where UserAccounts says so; both     *)
(* tables have the plan that the last event calls for, where events were   *)
(* handled in turn; and Billing implements Entitlement.                    *)
(*                                                                         *)
(* All rest on what a session and a webhook request may take for granted   *)
(* between two of their awaits: the id of a session has a row of its       *)
(* address, a subscription row is of its buyer, and no two requests handle *)
(* one event.                                                              *)
(***************************************************************************)
EXTENDS Billing, TLAPS

Signed == {"again", "in", "upsert", "save"}

(* An id made up is nobody's yet; a session's id has a row of its address; *)
(* a checkout is the session's own.                                        *)
TabInv(t) ==
  /\ TabAt(t, "insert") =>
       tab[t].id \in Ids /\ ~HasUser(tab[t].id) /\ \A u \in Tabs \ {t} : tab[u].id # tab[t].id
  /\ tab[t].pc \in Signed =>
       tab[t].id \in Ids /\ HasUser(tab[t].id) /\ users[tab[t].id].email.address = tab[t].address
  /\ tab[t].pc \in {"upsert", "save"} => tab[t].sub \in Subs /\ buyer[tab[t].sub] = tab[t].id

Address(i) == users[i].email.address
SpeltInv(i) ==
  HasUser(i) => users[i].email \in {Normalized(Address(i)), Spelled(Address(i))}

(* The two ways an address comes to have two users.                        *)
Split(a) ==
  a \in raced \/ \E i \in Ids : HasUser(i) /\ Address(i) = a /\ users[i].email # Normalized(a)

AddressInv ==
  /\ \A i, j \in Ids : HasUser(i) /\ HasUser(j) /\ Address(i) = Address(j) => i = j \/ Split(Address(i))
  /\ \A t \in Tabs, i \in Ids :
       TabAt(t, "insert") /\ HasUser(i) /\ Address(i) = tab[t].address => Split(tab[t].address)
  /\ \A t, u \in Tabs :
       TabAt(t, "insert") /\ TabAt(u, "insert") /\ tab[t].address = tab[u].address
         => t = u \/ tab[t].address \in raced

(* A subscription row is of its buyer, who has a row in users.             *)
BuyerInv(i) ==
  subscriptions[i] # NoRow => HasUser(i) /\ buyer[subscriptions[i].sub] = i

Busy(d) == delivery[d].pc \in {"update", "plan"}

(* A request under way has claimed its event, which no other handles and   *)
(* which has changed no plan; the user it found is the buyer.              *)
WebhookInv ==
  /\ spent \subseteq claimed
  /\ \A d \in Deliveries :
       /\ Busy(d) => delivery[d].event \in claimed \ spent
       /\ delivery[d].pc = "plan" =>
            /\ delivery[d].user \in Ids /\ HasUser(delivery[d].user)
            /\ delivery[d].user = buyer[delivery[d].event.sub]
  /\ \A c, d \in Deliveries : Busy(c) /\ Busy(d) /\ delivery[c].event = delivery[d].event => c = d

BillingInv ==
  /\ TypeOK
  /\ \A t \in Tabs : TabInv(t)
  /\ \A i \in Ids : SpeltInv(i) /\ BuyerInv(i)
  /\ AddressInv
  /\ WebhookInv

TabState == [pc : TabPc, address : Addresses, id : Ids \cup {NoId}, sub : Subs \cup {NoSub}]
Request == [pc : {"idle", "update", "plan"}, event : Event \cup {NoEvent}, user : Ids \cup {NoId}]

(* What the steps have in common.  Users stay, with their address; an      *)
(* e-mail is spelled anew at most; a checkout keeps its buyer.             *)
Grow ==
  \A i \in Ids : HasUser(i) =>
    /\ HasUser(i)' /\ Address(i)' = Address(i)
    /\ users'[i].email = users[i].email \/ users'[i].email = Spelled(Address(i))
NoneNew == \A i \in Ids : HasUser(i)' => HasUser(i)
BuyersStay == \A s \in Subs : buyer[s] # NoId => buyer'[s] = buyer[s]

-----------------------------------------------------------------------------
(* Spelling.                                                               *)

LEMMA SplitStays ==
  ASSUME \A i \in Ids : SpeltInv(i), Grow, raced \subseteq raced', NEW a, Split(a)
  PROVE  Split(a)'
<1>1. CASE a \in raced  BY <1>1 DEF Split
<1>2. CASE \E i \in Ids : HasUser(i) /\ Address(i) = a /\ users[i].email # Normalized(a)
  <2>1. PICK i \in Ids : HasUser(i) /\ Address(i) = a /\ users[i].email # Normalized(a)  BY <1>2
  <2>2. users[i].email = Spelled(a) /\ Spelled(a) # Normalized(a)  BY <2>1 DEF SpeltInv
  <2>3. HasUser(i)' /\ Address(i)' = a /\ users'[i].email = Spelled(a)  BY <2>1, <2>2 DEF Grow
  <2> QED  BY <2>2, <2>3 DEF Split
<1> QED  BY <1>1, <1>2 DEF Split

LEMMA SpeltStays ==
  ASSUME NEW i \in Ids, SpeltInv(i), Grow, HasUser(i)
  PROVE  SpeltInv(i)'
BY DEF SpeltInv, Grow, Address

-----------------------------------------------------------------------------
(* What stays when users, sessions or requests are left alone.             *)

LEMMA AddressFrame ==
  ASSUME \A i \in Ids : SpeltInv(i), AddressInv, Grow, NoneNew, raced \subseteq raced',
         \A t \in Tabs : TabAt(t, "insert")' => TabAt(t, "insert") /\ tab'[t].address = tab[t].address
  PROVE  AddressInv'
<1>1. \A i \in Ids : HasUser(i)' => HasUser(i) /\ Address(i)' = Address(i)  BY DEF Grow, NoneNew
<1>2. \A a : Split(a) => Split(a)'  BY SplitStays
<1>3. \A i, j \in Ids : HasUser(i)' /\ HasUser(j)' /\ Address(i)' = Address(j)' => i = j \/ Split(Address(i))'
  <2> SUFFICES ASSUME NEW i \in Ids, NEW j \in Ids, HasUser(i)', HasUser(j)', Address(i)' = Address(j)', i # j
               PROVE  Split(Address(i))'
    OBVIOUS
  <2>1. Split(Address(i))  BY <1>1 DEF AddressInv
  <2>2. \A a : a = Address(i) => Split(a)'  BY <1>2, <2>1
  <2>3. Address(i)' = Address(i)  BY <1>1
  <2> QED  BY <2>2, <2>3 DEF Split
<1>4. \A t \in Tabs, i \in Ids :
        TabAt(t, "insert")' /\ HasUser(i)' /\ Address(i)' = tab'[t].address => Split(tab[t].address)'
  <2> SUFFICES ASSUME NEW t \in Tabs, NEW i \in Ids, TabAt(t, "insert")', HasUser(i)', Address(i)' = tab'[t].address
               PROVE  Split(tab[t].address)'
    OBVIOUS
  <2>1. Split(tab[t].address)  BY <1>1 DEF AddressInv
  <2>2. \A a : a = tab[t].address => Split(a)'  BY <1>2, <2>1
  <2>3. tab'[t].address = tab[t].address  OBVIOUS
  <2> QED  BY <2>2, <2>3 DEF Split
<1>5. \A t, u \in Tabs :
        TabAt(t, "insert")' /\ TabAt(u, "insert")' /\ tab'[t].address = tab'[u].address
          => t = u \/ tab'[t].address \in raced'
  BY DEF AddressInv
<1> QED  BY <1>3, <1>4, <1>5 DEF AddressInv

LEMMA TabFrame ==
  ASSUME TypeOK, NEW u \in Tabs, TabInv(u), tab'[u] = tab[u], Grow, BuyersStay,
         TabAt(u, "insert") => ~HasUser(tab[u].id)' /\ \A v \in Tabs \ {u} : tab'[v].id # tab[u].id
  PROVE  TabInv(u)'
<1>1. TabAt(u, "insert")' =>
        tab'[u].id \in Ids /\ ~HasUser(tab[u].id)' /\ \A v \in Tabs \ {u} : tab'[v].id # tab'[u].id
  BY DEF TabInv, TabAt, HasUser
<1>2. tab'[u].pc \in Signed =>
        tab'[u].id \in Ids /\ HasUser(tab[u].id)' /\ Address(tab[u].id)' = tab'[u].address
  <2> SUFFICES ASSUME tab[u].pc \in Signed
               PROVE  tab[u].id \in Ids /\ HasUser(tab[u].id)' /\ Address(tab[u].id)' = tab[u].address
    OBVIOUS
  <2>1. tab[u].id \in Ids /\ HasUser(tab[u].id) /\ Address(tab[u].id) = tab[u].address
    BY DEF TabInv, Address
  <2>2. \A i \in Ids : HasUser(i) => HasUser(i)' /\ Address(i)' = Address(i)  BY DEF Grow
  <2>3. \A i : i = tab[u].id => HasUser(i)' /\ Address(i)' = tab[u].address  BY <2>1, <2>2
  <2> QED  BY <2>1, <2>3 DEF HasUser, Address
<1>3. tab'[u].pc \in {"upsert", "save"} => tab'[u].sub \in Subs /\ buyer'[tab'[u].sub] = tab'[u].id
  BY AccountAssumption DEF TabInv, BuyersStay, Signed
<1> QED  BY <1>1, <1>2, <1>3 DEF TabInv, Address

LEMMA BuyerFrame ==
  ASSUME TypeOK, NEW i \in Ids, BuyerInv(i), subscriptions'[i] = subscriptions[i], Grow, BuyersStay
  PROVE  BuyerInv(i)'
<1>1. subscriptions[i] # NoRow => subscriptions[i].sub \in Subs  BY DEF TypeOK, Row
<1> QED  BY <1>1, AccountAssumption DEF BuyerInv, Grow, BuyersStay

LEMMA WebhookFrame ==
  ASSUME TypeOK, WebhookInv, Grow, BuyersStay, UNCHANGED <<claimed, spent, delivery>>
  PROVE  WebhookInv'
<1>1. \A d \in Deliveries : Busy(d) => delivery[d].event \in Event  BY DEF TypeOK, WebhookInv
<1>2. \A d \in Deliveries : delivery[d].pc = "plan" =>
        /\ delivery[d].user \in Ids /\ HasUser(delivery[d].user)'
        /\ delivery[d].user = buyer'[delivery[d].event.sub]
  <2> SUFFICES ASSUME NEW d \in Deliveries, delivery[d].pc = "plan"
               PROVE  /\ delivery[d].user \in Ids /\ HasUser(delivery[d].user)'
                      /\ delivery[d].user = buyer'[delivery[d].event.sub]
    OBVIOUS
  <2>1. /\ delivery[d].user \in Ids /\ HasUser(delivery[d].user)
        /\ delivery[d].user = buyer[delivery[d].event.sub]
    BY DEF WebhookInv
  <2>2. delivery[d].event.sub \in Subs  BY <1>1 DEF Busy, Event
  <2>3. \A i : i = delivery[d].user => HasUser(i)'  BY <2>1 DEF Grow
  <2>4. HasUser(delivery[d].user)'  BY <2>3 DEF HasUser
  <2> QED  BY <2>1, <2>2, <2>4, AccountAssumption DEF BuyersStay
<1> QED  BY <1>2 DEF WebhookInv, Busy

(* A step that changes no user and no session but in ways that do not      *)
(* matter to them.                                                         *)
LEMMA SessionsFrame ==
  ASSUME BillingInv, UNCHANGED <<tab, raced>>, Grow, NoneNew, BuyersStay
  PROVE  (\A t \in Tabs : TabInv(t)') /\ (\A i \in Ids : SpeltInv(i)') /\ AddressInv'
<1>1. AddressInv'  BY AddressFrame DEF BillingInv, TabAt
<1>2. ASSUME NEW i \in Ids PROVE SpeltInv(i)'
  <2>1. CASE HasUser(i)  BY <2>1, SpeltStays DEF BillingInv
  <2>2. CASE ~HasUser(i)  BY <2>2 DEF NoneNew, SpeltInv
  <2> QED  BY <2>1, <2>2
<1>3. ASSUME NEW t \in Tabs PROVE TabInv(t)'
  <2>1. TabInv(t) /\ TypeOK  BY DEF BillingInv
  <2>2. TabAt(t, "insert") => ~HasUser(tab[t].id)' /\ \A v \in Tabs \ {t} : tab'[v].id # tab[t].id
    <3> SUFFICES ASSUME TabAt(t, "insert")
                 PROVE  ~HasUser(tab[t].id)' /\ \A v \in Tabs \ {t} : tab'[v].id # tab[t].id
      OBVIOUS
    <3>1. \A i : i = tab[t].id => ~HasUser(i)'  BY <2>1 DEF TabInv, NoneNew
    <3> QED  BY <2>1, <3>1 DEF TabInv, HasUser
  <2> QED  BY <2>1, <2>2, TabFrame
<1> QED  BY <1>1, <1>2, <1>3

LEMMA SameUsers ==
  ASSUME UNCHANGED users
  PROVE  Grow /\ NoneNew /\ \A i : HasUser(i)' = HasUser(i)
BY DEF Grow, NoneNew, HasUser, Address

-----------------------------------------------------------------------------
(* One session moves on.                                                   *)
LEMMA TabMoves ==
  ASSUME TypeOK, NEW t \in Tabs, NEW new \in TabState, tab' = [tab EXCEPT ![t] = new]
  PROVE  tab' \in [Tabs -> TabState] /\ tab'[t] = new /\ \A u \in Tabs \ {t} : tab'[u] = tab[u]
BY DEF TypeOK, TabState

(* A session that is not about to insert keeps the others as they were, if *)
(* it takes no new id.                                                     *)
LEMMA OtherTabs ==
  ASSUME BillingInv, NEW t \in Tabs, \A u \in Tabs \ {t} : tab'[u] = tab[u],
         tab'[t].id \in {tab[t].id, NoId}, Grow, NoneNew, BuyersStay
  PROVE  \A u \in Tabs \ {t} : TabInv(u)'
<1> TAKE u \in Tabs \ {t}
<1>1. TabInv(u) /\ TypeOK  BY DEF BillingInv
<1>2. TabAt(u, "insert") => ~HasUser(tab[u].id)' /\ \A v \in Tabs \ {u} : tab'[v].id # tab[u].id
  <2> SUFFICES ASSUME TabAt(u, "insert")
               PROVE  ~HasUser(tab[u].id)' /\ \A v \in Tabs \ {u} : tab'[v].id # tab[u].id
    OBVIOUS
  <2>1. tab[u].id \in Ids /\ ~HasUser(tab[u].id) /\ \A v \in Tabs \ {u} : tab[v].id # tab[u].id
    BY <1>1 DEF TabInv
  <2>2. \A i : i = tab[u].id => ~HasUser(i)'  BY <2>1 DEF NoneNew
  <2>3. ~HasUser(tab[u].id)'  BY <2>2 DEF HasUser
  <2> QED  BY <2>1, <2>3, AccountAssumption
<1> QED  BY <1>1, <1>2, TabFrame

(* A session step that leaves the users alone and starts no insert.        *)
LEMMA SessionStep ==
  ASSUME BillingInv, NEW t \in Tabs, NEW new \in TabState, tab' = [tab EXCEPT ![t] = new],
         new.id \in {tab[t].id, NoId}, new.pc # "insert",
         raced' = raced, Grow, NoneNew, BuyersStay, UNCHANGED <<claimed, spent, delivery>>,
         \A i \in Ids : BuyerInv(i)', TypeOK', TabInv(t)'
  PROVE  BillingInv'
<1>1. tab'[t] = new /\ \A u \in Tabs \ {t} : tab'[u] = tab[u]  BY TabMoves DEF BillingInv
<1>2. \A u \in Tabs : TabInv(u)'  BY <1>1, OtherTabs
<1>3. \A u \in Tabs : TabAt(u, "insert")' => TabAt(u, "insert") /\ tab'[u].address = tab[u].address
  BY <1>1 DEF TabAt
<1>4. AddressInv'  BY <1>3, AddressFrame DEF BillingInv
<1>5. ASSUME NEW i \in Ids PROVE SpeltInv(i)'
  <2>1. CASE HasUser(i)  BY <2>1, SpeltStays DEF BillingInv
  <2>2. CASE ~HasUser(i)  BY <2>2 DEF NoneNew, SpeltInv
  <2> QED  BY <2>1, <2>2
<1>6. WebhookInv'  BY WebhookFrame DEF BillingInv
<1> QED  BY <1>2, <1>4, <1>5, <1>6 DEF BillingInv

-----------------------------------------------------------------------------
(* Signing in.                                                             *)

LEMMA FindKeeps == ASSUME BillingInv, NEW t \in Tabs, FindUser(t),
                          UNCHANGED <<subscriptions, claimed, provider, delivery, ghosts>>
                   PROVE  BillingInv'
<1> DEFINE a == tab[t].address
<1>0. TypeOK /\ TabAt(t, "out") /\ UNCHANGED <<users, subscriptions, claimed, provider, delivery, ghosts>>
  BY DEF BillingInv, FindUser
<1>1. Grow /\ NoneNew /\ BuyersStay /\ \A i : HasUser(i)' = HasUser(i)
  BY <1>0, SameUsers DEF BuyersStay, provider
<1>2. tab[t] \in TabState /\ a \in Addresses  BY <1>0 DEF TypeOK, TabState
<1>3. \A i \in Ids : BuyerInv(i)'  BY <1>0, <1>1, BuyerFrame DEF BillingInv
<1>4. CASE \E i \in Matching(a) : tab' = [tab EXCEPT ![t].pc = "in", ![t].id = i] /\ UNCHANGED raced
  <2>1. PICK i \in Matching(a) : tab' = [tab EXCEPT ![t].pc = "in", ![t].id = i]  BY <1>4
  <2> DEFINE new == [tab[t] EXCEPT !.pc = "in", !.id = i]
  <2>2. i \in Ids /\ HasUser(i) /\ users[i].email = Normalized(a)  BY DEF Matching
  <2>3. /\ new \in TabState /\ new.pc = "in" /\ new.id = i /\ new.address = a
    BY <1>2, <2>2 DEF TabState, TabPc
  <2>4. tab' = [tab EXCEPT ![t] = new]  BY <2>1, Zenon
  <2> HIDE DEF new, a
  <2>5. tab' \in [Tabs -> TabState] /\ tab'[t] = new /\ \A u \in Tabs \ {t} : tab'[u] = tab[u]
    BY <1>0, <2>3, <2>4, TabMoves
  <2>6. TypeOK'  BY <1>0, <1>4, <2>5 DEF TypeOK, TabState, provider, ghosts
  <2>7. users'[i].email.address = a  BY <1>0, <2>2 DEF Normalized
  <2>8. \A j : j = i => HasUser(j)'  BY <1>1, <2>2
  <2>9. TabInv(t)'
    <3>1. ~TabAt(t, "insert")' /\ tab'[t].pc \notin {"upsert", "save"}  BY <2>3, <2>5 DEF TabAt
    <3>2. tab'[t].id = i /\ HasUser(tab[t].id)' /\ tab'[t].address = a
      BY <2>3, <2>5, <2>8 DEF HasUser
    <3> QED  BY <2>2, <2>7, <3>1, <3>2 DEF TabInv
  <2>10. ASSUME NEW u \in Tabs \ {t} PROVE TabInv(u)'
    <3>1. TabInv(u) /\ tab'[u] = tab[u]  BY <2>5 DEF BillingInv
    <3>2. TabAt(u, "insert") => ~HasUser(tab[u].id)' /\ \A v \in Tabs \ {u} : tab'[v].id # tab[u].id
      <4> SUFFICES ASSUME TabAt(u, "insert")
                   PROVE  ~HasUser(tab[u].id)' /\ \A v \in Tabs \ {u} : tab'[v].id # tab[u].id
        OBVIOUS
      <4>1. tab[u].id \in Ids /\ ~HasUser(tab[u].id) /\ \A v \in Tabs \ {u} : tab[v].id # tab[u].id
        BY <3>1 DEF TabInv
      <4>2. tab[u].id # i  BY <2>2, <4>1
      <4>3. ~HasUser(tab[u].id)'  BY <1>0, <3>1, <4>1 DEF HasUser
      <4> QED  BY <2>3, <2>5, <4>1, <4>2, <4>3
    <3> QED  BY <1>0, <1>1, <3>1, <3>2, TabFrame
  <2>11. AddressInv'
    <3>1. \A u \in Tabs : TabAt(u, "insert")' => TabAt(u, "insert") /\ tab'[u].address = tab[u].address
      BY <2>3, <2>5 DEF TabAt
    <3> QED  BY <1>1, <1>4, <3>1, AddressFrame DEF BillingInv
  <2>12. \A j \in Ids : SpeltInv(j)'  BY <1>0 DEF BillingInv, SpeltInv, HasUser, Address
  <2>13. WebhookInv'  BY <1>0, <1>1, WebhookFrame DEF BillingInv, ghosts
  <2> QED  BY <1>3, <2>6, <2>9, <2>10, <2>11, <2>12, <2>13 DEF BillingInv
<1>5. CASE /\ Matching(a) = {}
           /\ \E i \in Ids : Unused(i) /\ tab' = [tab EXCEPT ![t].pc = "insert", ![t].id = i]
           /\ raced' = IF \E u \in Tabs \ {t} : TabAt(u, "insert") /\ tab[u].address = a
                       THEN raced \cup {a} ELSE raced
  <2>1. PICK i \in Ids : Unused(i) /\ tab' = [tab EXCEPT ![t].pc = "insert", ![t].id = i]  BY <1>5
  <2> DEFINE new == [tab[t] EXCEPT !.pc = "insert", !.id = i]
  <2>2. ~HasUser(i) /\ \A u \in Tabs : tab[u].id # i  BY <2>1 DEF Unused
  <2>3. /\ new \in TabState /\ new.pc = "insert" /\ new.id = i /\ new.address = a
    BY <1>2 DEF TabState, TabPc
  <2>4. tab' = [tab EXCEPT ![t] = new]  BY <2>1, Zenon
  <2>5. Matching(a) = {}  BY <1>5
  <2>6. /\ raced \subseteq raced' /\ raced' \subseteq raced \cup {a}
        /\ \A u \in Tabs \ {t} : TabAt(u, "insert") /\ tab[u].address = a => a \in raced'
    BY <1>5
  <2> HIDE DEF new, a
  <2>7. tab' \in [Tabs -> TabState] /\ tab'[t] = new /\ \A u \in Tabs \ {t} : tab'[u] = tab[u]
    BY <1>0, <2>3, <2>4, TabMoves
  <2>8. TypeOK'  BY <1>0, <1>2, <2>6, <2>7 DEF TypeOK, TabState, provider, ghosts
  <2>9. ~HasUser(i)'  BY <1>0, <2>2 DEF HasUser
  <2>10. TabInv(t)'
    <3>1. tab'[t].pc = "insert" /\ tab'[t].id = i  BY <2>3, <2>7
    <3>2. ~HasUser(tab[t].id)'  BY <2>9, <3>1 DEF HasUser
    <3>3. \A u \in Tabs \ {t} : tab'[u].id # tab'[t].id  BY <2>2, <2>7, <3>1
    <3> QED  BY <3>1, <3>2, <3>3 DEF TabInv, TabAt, Signed
  <2>11. ASSUME NEW u \in Tabs \ {t} PROVE TabInv(u)'
    <3>1. TabInv(u) /\ tab'[u] = tab[u]  BY <2>7 DEF BillingInv
    <3>2. TabAt(u, "insert") => ~HasUser(tab[u].id)' /\ \A v \in Tabs \ {u} : tab'[v].id # tab[u].id
      <4> SUFFICES ASSUME TabAt(u, "insert")
                   PROVE  ~HasUser(tab[u].id)' /\ \A v \in Tabs \ {u} : tab'[v].id # tab[u].id
        OBVIOUS
      <4>1. tab[u].id \in Ids /\ ~HasUser(tab[u].id) /\ \A v \in Tabs \ {u} : tab[v].id # tab[u].id
        BY <3>1 DEF TabInv
      <4>2. ~HasUser(tab[u].id)'  BY <1>0, <3>1, <4>1 DEF HasUser
      <4> QED  BY <2>2, <2>3, <2>7, <4>1, <4>2
    <3> QED  BY <1>0, <1>1, <3>1, <3>2, TabFrame
  <2>12. AddressInv'
    <3>1. \A b : Split(b) => Split(b)'  BY <1>1, <2>6, SplitStays DEF BillingInv
    <3>2. \A j \in Ids : HasUser(j)' = HasUser(j) /\ Address(j)' = Address(j)
      BY <1>0 DEF HasUser, Address
    <3>3. \A j, k \in Ids : HasUser(j)' /\ HasUser(k)' /\ Address(j)' = Address(k)' => j = k \/ Split(Address(j))'
      <4> SUFFICES ASSUME NEW j \in Ids, NEW k \in Ids, HasUser(j)', HasUser(k)', Address(j)' = Address(k)', j # k
                   PROVE  Split(Address(j))'
        OBVIOUS
      <4>1. Split(Address(j))  BY <3>2 DEF BillingInv, AddressInv
      <4>2. \A b : b = Address(j) => Split(b)'  BY <3>1, <4>1
      <4> QED  BY <3>2, <4>2 DEF Split
    <3>4. \A j \in Ids : HasUser(j) /\ Address(j) = a => Split(a)
      BY <2>5 DEF Matching, Split, Address
    <3>5. \A u \in Tabs, j \in Ids :
            TabAt(u, "insert")' /\ HasUser(j)' /\ Address(j)' = tab'[u].address => Split(tab[u].address)'
      <4> SUFFICES ASSUME NEW u \in Tabs, NEW j \in Ids, TabAt(u, "insert")', HasUser(j)', Address(j)' = tab'[u].address
                   PROVE  Split(tab[u].address)'
        OBVIOUS
      <4>1. CASE u = t
        <5>1. tab'[u].address = a  BY <2>3, <2>7, <4>1
        <5>2. Split(a)  BY <3>2, <3>4, <5>1
        <5>3. \A b : b = a => Split(b)'  BY <3>1, <5>2
        <5> QED  BY <5>1, <5>3 DEF Split
      <4>2. CASE u # t
        <5>1. tab'[u] = tab[u]  BY <2>7, <4>2
        <5>2. Split(tab[u].address)  BY <3>2, <5>1 DEF BillingInv, AddressInv, TabAt
        <5>3. \A b : b = tab[u].address => Split(b)'  BY <3>1, <5>2
        <5> QED  BY <5>1, <5>3 DEF Split
      <4> QED  BY <4>1, <4>2
    <3>6. \A u, v \in Tabs :
            TabAt(u, "insert")' /\ TabAt(v, "insert")' /\ tab'[u].address = tab'[v].address
              => u = v \/ tab'[u].address \in raced'
      <4>1. \A u \in Tabs \ {t} : TabAt(u, "insert")' => TabAt(u, "insert") /\ tab'[u].address = tab[u].address
        BY <2>7 DEF TabAt
      <4>2. tab'[t].address = a  BY <2>3, <2>7
      <4> QED  BY <2>6, <4>1, <4>2 DEF BillingInv, AddressInv
    <3> QED  BY <3>3, <3>5, <3>6 DEF AddressInv
  <2>13. \A j \in Ids : SpeltInv(j)'  BY <1>0 DEF BillingInv, SpeltInv, HasUser, Address
  <2>14. WebhookInv'  BY <1>0, <1>1, WebhookFrame DEF BillingInv, ghosts
  <2> QED  BY <1>3, <2>8, <2>10, <2>11, <2>12, <2>13, <2>14 DEF BillingInv
<1> QED  BY <1>4, <1>5 DEF FindUser

(* The row is added: its id was nobody's, so no other row changes.         *)
LEMMA InsertKeeps == ASSUME BillingInv, NEW t \in Tabs, InsertUser(t),
                            UNCHANGED <<subscriptions, claimed, provider, delivery, ghosts>>
                     PROVE  BillingInv'
<1> DEFINE i == tab[t].id
<1> DEFINE a == tab[t].address
<1> DEFINE row == [email |-> Normalized(a), plan |-> "free"]
<1> DEFINE new == [tab[t] EXCEPT !.pc = "again"]
<1>0. TypeOK /\ TabAt(t, "insert") /\ TabInv(t) /\ tab[t] \in TabState
      /\ UNCHANGED <<raced, subscriptions, claimed, provider, delivery, ghosts>>
  BY DEF BillingInv, InsertUser, TypeOK, TabState
<1>1. i \in Ids /\ ~HasUser(i) /\ \A u \in Tabs \ {t} : tab[u].id # i  BY <1>0 DEF TabInv
<1>2. a \in Addresses /\ row \in User /\ row # NoRow /\ row.email = Normalized(a)
  <2>1. a \in Addresses  BY <1>0 DEF TabState
  <2> HIDE DEF a
  <2>2. Normalized(a) \in Email  BY <2>1 DEF Email, Normalized
  <2>3. row \in User /\ row.email = Normalized(a)  BY <2>2 DEF User, Plans
  <2> QED  BY <2>1, <2>3, RowAssumption
<1>3. users' = [users EXCEPT ![i] = row]  BY <1>1 DEF InsertUser
<1>4. tab' = [tab EXCEPT ![t] = new]  BY Zenon DEF InsertUser, TabGoto
<1>5. new \in TabState /\ new.pc = "again" /\ new.id = i /\ new.address = a
  BY <1>0 DEF TabState, TabPc
<1> HIDE DEF i, a, row, new
<1>6. tab' \in [Tabs -> TabState] /\ tab'[t] = new /\ \A u \in Tabs \ {t} : tab'[u] = tab[u]
  BY <1>0, <1>4, <1>5, TabMoves
<1>7. users' \in [Ids -> User \cup {NoRow}] /\ users'[i] = row /\ \A j \in Ids \ {i} : users'[j] = users[j]
  BY <1>0, <1>1, <1>2, <1>3 DEF TypeOK
<1>8. TypeOK'  BY <1>0, <1>6, <1>7 DEF TypeOK, TabState, provider, ghosts
<1>9. /\ \A j \in Ids \ {i} : HasUser(j)' = HasUser(j) /\ Address(j)' = Address(j)
      /\ \A j : j = i => HasUser(j)' /\ Address(j)' = a /\ users'[j].email = Normalized(a)
  BY <1>2, <1>7 DEF HasUser, Address, Normalized
<1>10. Grow /\ BuyersStay  BY <1>0, <1>1, <1>7, <1>9 DEF Grow, BuyersStay, provider
<1>11. \A j \in Ids : SpeltInv(j)'
  BY <1>1, <1>7, <1>9 DEF BillingInv, SpeltInv, HasUser, Address
<1>12. \A j \in Ids : BuyerInv(j)'  BY <1>0, <1>10, BuyerFrame DEF BillingInv
<1>13. WebhookInv'  BY <1>0, <1>10, WebhookFrame DEF BillingInv, ghosts
<1>14. TabInv(t)'
  <2>1. tab'[t].pc = "again" /\ tab'[t].id = i /\ tab'[t].address = a  BY <1>5, <1>6
  <2>2. HasUser(tab[t].id)' /\ users'[tab'[t].id].email.address = a
    BY <1>9, <2>1 DEF HasUser, Address
  <2> QED  BY <1>1, <2>1, <2>2 DEF TabInv, TabAt
<1>15. ASSUME NEW u \in Tabs \ {t} PROVE TabInv(u)'
  <2>1. TabInv(u) /\ tab'[u] = tab[u]  BY <1>6 DEF BillingInv
  <2>2. TabAt(u, "insert") => ~HasUser(tab[u].id)' /\ \A v \in Tabs \ {u} : tab'[v].id # tab[u].id
    <3> SUFFICES ASSUME TabAt(u, "insert")
                 PROVE  ~HasUser(tab[u].id)' /\ \A v \in Tabs \ {u} : tab'[v].id # tab[u].id
      OBVIOUS
    <3>1. tab[u].id \in Ids /\ ~HasUser(tab[u].id) /\ \A v \in Tabs \ {u} : tab[v].id # tab[u].id
      BY <2>1 DEF TabInv
    <3>2. tab[u].id # i  BY <1>1
    <3>3. ~HasUser(tab[u].id)'  BY <1>7, <2>1, <3>1, <3>2 DEF HasUser
    <3>4. tab'[t].id = i  BY <1>5, <1>6
    <3> QED  BY <1>6, <3>1, <3>2, <3>3, <3>4
  <2> QED  BY <1>0, <1>10, <2>1, <2>2, TabFrame
<1>16. AddressInv'
  <2>1. \A b : Split(b) => Split(b)'  BY <1>0, <1>10, SplitStays DEF BillingInv
  <2>2. \A j \in Ids : HasUser(j) /\ Address(j) = a => Split(a)
    BY <1>0 DEF BillingInv, AddressInv, a
  <2>3. \A u \in Tabs : TabAt(u, "insert")' => u # t /\ TabAt(u, "insert") /\ tab'[u] = tab[u]
    BY <1>5, <1>6 DEF TabAt
  <2>4. \A u \in Tabs \ {t} : TabAt(u, "insert") /\ tab[u].address = a => a \in raced
    BY <1>0 DEF BillingInv, AddressInv, a
  <2>5. \A j, k \in Ids : HasUser(j)' /\ HasUser(k)' /\ Address(j)' = Address(k)' => j = k \/ Split(Address(j))'
    <3> SUFFICES ASSUME NEW j \in Ids, NEW k \in Ids, HasUser(j)', HasUser(k)', Address(j)' = Address(k)', j # k
                 PROVE  \A b : b = Address(j)' => Split(b)'
      BY DEF Split
    <3>1. CASE j = i \/ k = i
      <4>1. Address(j)' = a /\ Split(a)  BY <1>9, <2>2, <3>1
      <4> QED  BY <2>1, <4>1
    <3>2. CASE j # i /\ k # i
      <4>1. Address(j)' = Address(j) /\ Split(Address(j))
        BY <1>9, <3>2 DEF BillingInv, AddressInv
      <4> QED  BY <2>1, <4>1
    <3> QED  BY <3>1, <3>2
  <2>6. \A u \in Tabs, j \in Ids :
          TabAt(u, "insert")' /\ HasUser(j)' /\ Address(j)' = tab'[u].address => Split(tab[u].address)'
    <3> SUFFICES ASSUME NEW u \in Tabs, NEW j \in Ids, TabAt(u, "insert")', HasUser(j)', Address(j)' = tab'[u].address
                 PROVE  \A b : b = tab'[u].address => Split(b)'
      BY DEF Split
    <3>1. TabAt(u, "insert") /\ tab'[u] = tab[u] /\ u # t  BY <2>3
    <3>2. CASE j = i
      <4>1. tab[u].address = a /\ a \in raced  BY <1>9, <2>4, <3>1, <3>2
      <4>2. Split(a)  BY <4>1 DEF Split
      <4> QED  BY <2>1, <3>1, <4>1, <4>2
    <3>3. CASE j # i
      <4>1. Split(tab[u].address)  BY <1>9, <3>1, <3>3 DEF BillingInv, AddressInv
      <4> QED  BY <2>1, <3>1, <4>1
    <3> QED  BY <3>2, <3>3
  <2>7. \A u, v \in Tabs :
          TabAt(u, "insert")' /\ TabAt(v, "insert")' /\ tab'[u].address = tab'[v].address
            => u = v \/ tab'[u].address \in raced'
    BY <1>0, <2>3 DEF BillingInv, AddressInv
  <2> QED  BY <2>5, <2>6, <2>7 DEF AddressInv
<1> QED  BY <1>8, <1>11, <1>12, <1>13, <1>14, <1>15, <1>16 DEF BillingInv

LEMMA FindAgainKeeps == ASSUME BillingInv, NEW t \in Tabs, FindAgain(t),
                               UNCHANGED <<subscriptions, claimed, provider, delivery, ghosts>>
                        PROVE  BillingInv'
<1> DEFINE a == tab[t].address
<1> DEFINE M == Matching(a)
<1>0. TypeOK /\ TabAt(t, "again") /\ TabInv(t) /\ tab[t] \in TabState
      /\ UNCHANGED <<users, raced, subscriptions, claimed, provider, delivery, ghosts>>
  BY DEF BillingInv, FindAgain, TypeOK, TabState
<1>1. Grow /\ NoneNew /\ BuyersStay /\ \A i : HasUser(i)' = HasUser(i)
  BY <1>0, SameUsers DEF BuyersStay, provider
<1>2. PICK i \in IF M = {} THEN {tab[t].id} ELSE M : tab' = [tab EXCEPT ![t].pc = "in", ![t].id = i]
  BY DEF FindAgain
<1>3. i \in Ids /\ HasUser(i) /\ Address(i) = a
  <2>1. CASE M = {}  BY <1>0, <1>2, <2>1 DEF TabInv, TabAt, Signed, Address
  <2>2. CASE M # {}
    <3>1. i \in Matching(a)  BY <2>2
    <3> HIDE DEF a, M
    <3> QED  BY <3>1 DEF Matching, Address, Normalized
  <2> QED  BY <2>1, <2>2
<1> DEFINE new == [tab[t] EXCEPT !.pc = "in", !.id = i]
<1>4. new \in TabState /\ new.pc = "in" /\ new.id = i /\ new.address = a
  BY <1>0, <1>3 DEF TabState, TabPc
<1>5. tab' = [tab EXCEPT ![t] = new]  BY <1>2, Zenon
<1> HIDE DEF new, a, M
<1>6. tab' \in [Tabs -> TabState] /\ tab'[t] = new /\ \A u \in Tabs \ {t} : tab'[u] = tab[u]
  BY <1>0, <1>4, <1>5, TabMoves
<1>7. TypeOK'  BY <1>0, <1>6 DEF TypeOK, TabState, provider, ghosts
<1>8. \A j : j = i => HasUser(j)' /\ Address(j)' = a  BY <1>0, <1>1, <1>3 DEF Address
<1>9. TabInv(t)'
  <2>1. tab'[t].pc = "in" /\ tab'[t].id = i /\ tab'[t].address = a  BY <1>4, <1>6
  <2>2. HasUser(tab[t].id)' /\ users'[tab'[t].id].email.address = a
    BY <1>8, <2>1 DEF HasUser, Address
  <2> QED  BY <1>3, <2>1, <2>2 DEF TabInv, TabAt
<1>10. ASSUME NEW u \in Tabs \ {t} PROVE TabInv(u)'
  <2>1. TabInv(u) /\ tab'[u] = tab[u]  BY <1>6 DEF BillingInv
  <2>2. TabAt(u, "insert") => ~HasUser(tab[u].id)' /\ \A v \in Tabs \ {u} : tab'[v].id # tab[u].id
    <3> SUFFICES ASSUME TabAt(u, "insert")
                 PROVE  ~HasUser(tab[u].id)' /\ \A v \in Tabs \ {u} : tab'[v].id # tab[u].id
      OBVIOUS
    <3>1. tab[u].id \in Ids /\ ~HasUser(tab[u].id) /\ \A v \in Tabs \ {u} : tab[v].id # tab[u].id
      BY <2>1 DEF TabInv
    <3>2. tab[u].id # i  BY <1>3, <3>1
    <3>3. ~HasUser(tab[u].id)'  BY <1>0, <2>1, <3>1 DEF HasUser
    <3> QED  BY <1>4, <1>6, <3>1, <3>2, <3>3
  <2> QED  BY <1>0, <1>1, <2>1, <2>2, TabFrame
<1>11. AddressInv'
  <2>1. \A u \in Tabs : TabAt(u, "insert")' => TabAt(u, "insert") /\ tab'[u].address = tab[u].address
    BY <1>4, <1>6 DEF TabAt
  <2> QED  BY <1>0, <1>1, <2>1, AddressFrame DEF BillingInv
<1>12. \A j \in Ids : SpeltInv(j)'  BY <1>0 DEF BillingInv, SpeltInv, HasUser, Address
<1>13. \A j \in Ids : BuyerInv(j)'  BY <1>0, <1>1, BuyerFrame DEF BillingInv
<1>14. WebhookInv'  BY <1>0, <1>1, WebhookFrame DEF BillingInv, ghosts
<1> QED  BY <1>7, <1>9, <1>10, <1>11, <1>12, <1>13, <1>14 DEF BillingInv

(* SignInFails and SignOut: there is no session.                           *)
LEMMA SignOutKeeps == ASSUME BillingInv, NEW t \in Tabs, SignInFails(t) \/ SignOut(t),
                             UNCHANGED <<subscriptions, claimed, provider, delivery, ghosts>>
                      PROVE  BillingInv'
<1> DEFINE new == [tab[t] EXCEPT !.pc = "out", !.id = NoId]
<1>0. TypeOK /\ tab[t] \in TabState
      /\ UNCHANGED <<users, raced, subscriptions, claimed, provider, delivery, ghosts>>
  BY DEF BillingInv, SignInFails, SignOut, TypeOK, TabState
<1>1. Grow /\ NoneNew /\ BuyersStay  BY <1>0, SameUsers DEF BuyersStay, provider
<1>2. new \in TabState /\ new.pc = "out" /\ new.id = NoId  BY <1>0 DEF TabState, TabPc
<1>3. tab' = [tab EXCEPT ![t] = new]  BY Zenon DEF SignInFails, SignOut
<1> HIDE DEF new
<1>4. tab' \in [Tabs -> TabState] /\ tab'[t] = new  BY <1>0, <1>2, <1>3, TabMoves
<1>5. TypeOK'  BY <1>0, <1>4 DEF TypeOK, TabState, provider, ghosts
<1>6. TabInv(t)'  BY <1>2, <1>4 DEF TabInv, TabAt, Signed
<1>7. \A i \in Ids : BuyerInv(i)'  BY <1>0, <1>1, BuyerFrame DEF BillingInv
<1> QED  BY <1>0, <1>1, <1>2, <1>3, <1>5, <1>6, <1>7, SessionStep DEF ghosts

-----------------------------------------------------------------------------
(* The checkout.                                                           *)

LEMMA CreateKeeps == ASSUME BillingInv, NEW t \in Tabs, CreateSubscription(t) PROVE BillingInv'
<1>0. TypeOK /\ TabAt(t, "in") /\ TabInv(t) /\ tab[t] \in TabState
      /\ UNCHANGED <<users, raced, subscriptions, claimed, linked, sent, unanswered, delivery, ghosts>>
  BY DEF BillingInv, CreateSubscription, TypeOK, TabState, tables
<1>1. PICK s \in Subs : /\ buyer[s] = NoId /\ buyer' = [buyer EXCEPT ![s] = tab[t].id]
                        /\ tab' = [tab EXCEPT ![t].pc = "upsert", ![t].sub = s]
  BY DEF CreateSubscription
<1>2. /\ tab[t].id \in Ids /\ HasUser(tab[t].id) /\ Address(tab[t].id) = tab[t].address
      /\ buyer' \in [Subs -> Ids \cup {NoId}] /\ buyer'[s] = tab[t].id
  BY <1>0, <1>1 DEF TabInv, TabAt, Signed, TypeOK, Address
<1>3. Grow /\ NoneNew /\ BuyersStay /\ \A i : HasUser(i)' = HasUser(i)
  BY <1>0, <1>1, SameUsers DEF BuyersStay, TypeOK
<1> DEFINE new == [tab[t] EXCEPT !.pc = "upsert", !.sub = s]
<1>4. /\ new \in TabState /\ new.pc = "upsert" /\ new.sub = s
      /\ new.id = tab[t].id /\ new.address = tab[t].address
  BY <1>0 DEF TabState, TabPc
<1>5. tab' = [tab EXCEPT ![t] = new]  BY <1>1, Zenon
<1> HIDE DEF new
<1>6. tab' \in [Tabs -> TabState] /\ tab'[t] = new  BY <1>0, <1>4, <1>5, TabMoves
<1>7. TypeOK'  BY <1>0, <1>2, <1>6 DEF TypeOK, TabState, ghosts
<1>8. TabInv(t)'
  <2>1. /\ tab'[t].pc = "upsert" /\ tab'[t].id = tab[t].id /\ tab'[t].address = tab[t].address
        /\ tab'[t].sub = s
    BY <1>4, <1>6
  <2>2. HasUser(tab[t].id)' /\ users'[tab'[t].id].email.address = tab[t].address
    BY <1>0, <1>2, <2>1 DEF HasUser, Address
  <2> QED  BY <1>2, <2>1, <2>2 DEF TabInv, TabAt
<1>9. \A i \in Ids : BuyerInv(i)'  BY <1>0, <1>3, BuyerFrame DEF BillingInv
<1> QED  BY <1>0, <1>3, <1>4, <1>5, <1>7, <1>8, <1>9, SessionStep DEF ghosts

(* A row gets the e-mail as its session spells it.                         *)
LEMMA UpsertKeeps == ASSUME BillingInv, NEW t \in Tabs, UpsertBuyer(t) PROVE BillingInv'
<1> DEFINE i == tab[t].id
<1> DEFINE a == tab[t].address
<1> DEFINE row == [users[i] EXCEPT !.email = Spelled(a)]
<1> DEFINE new == [tab[t] EXCEPT !.pc = "save"]
<1>0. TypeOK /\ TabAt(t, "upsert") /\ TabInv(t) /\ tab[t] \in TabState
      /\ UNCHANGED <<raced, subscriptions, claimed, provider, delivery, ghosts>>
  BY DEF BillingInv, UpsertBuyer, TypeOK, TabState
<1>1. /\ i \in Ids /\ HasUser(i) /\ Address(i) = a /\ a \in Addresses
      /\ tab[t].sub \in Subs /\ buyer[tab[t].sub] = i
  BY <1>0 DEF TabInv, TabAt, Signed, Address, TabState
<1>2. users[i] \in User  BY <1>0, <1>1 DEF TypeOK, HasUser
<1>3. users' = [users EXCEPT ![i] = row]
  <2>1. users' = Upserted(i, a)  BY DEF UpsertBuyer
  <2> HIDE DEF i, a
  <2> QED  BY <1>1, <2>1 DEF Upserted
<1>4. new \in TabState /\ new.pc = "save" /\ new.id = i /\ new.address = a /\ new.sub = tab[t].sub
  BY <1>0 DEF TabState, TabPc
<1>5. tab' = [tab EXCEPT ![t] = new]  BY Zenon DEF UpsertBuyer, TabGoto
<1>6. row \in User /\ row # NoRow /\ row.email = Spelled(a) /\ Spelled(a).address = a
  <2> HIDE DEF i, a
  <2>1. Spelled(a) \in Email /\ Spelled(a).address = a  BY <1>1 DEF Email, Spelled
  <2>2. row \in User /\ row.email = Spelled(a)  BY <1>2, <2>1 DEF User
  <2> QED  BY <2>1, <2>2, RowAssumption
<1> HIDE DEF i, a, row, new
<1>7. users' \in [Ids -> User \cup {NoRow}] /\ users'[i] = row /\ \A j \in Ids \ {i} : users'[j] = users[j]
  BY <1>0, <1>1, <1>3, <1>6 DEF TypeOK
<1>8. tab' \in [Tabs -> TabState] /\ tab'[t] = new  BY <1>0, <1>4, <1>5, TabMoves
<1>9. Grow /\ NoneNew
  <2>1. \A j \in Ids \ {i} : HasUser(j)' = HasUser(j) /\ Address(j)' = Address(j)
    BY <1>7 DEF HasUser, Address
  <2>2. \A j : j = i => HasUser(j)' /\ Address(j)' = a  BY <1>6, <1>7 DEF HasUser, Address
  <2> QED  BY <1>1, <1>6, <1>7, <2>1, <2>2 DEF Grow, NoneNew
<1>10. BuyersStay  BY <1>0 DEF BuyersStay, provider
<1>11. TypeOK'  BY <1>0, <1>7, <1>8 DEF TypeOK, TabState, provider, ghosts
<1>12. TabInv(t)'
  <2>1. tab'[t].pc = "save" /\ tab'[t].id = i /\ tab'[t].address = a /\ tab'[t].sub = tab[t].sub  BY <1>4, <1>8
  <2>2. HasUser(tab[t].id)' /\ users'[tab'[t].id].email.address = a
    BY <1>6, <1>7, <2>1 DEF HasUser
  <2>3. buyer' = buyer  BY <1>0 DEF provider
  <2> QED  BY <1>1, <2>1, <2>2, <2>3 DEF TabInv, TabAt
<1>13. \A j \in Ids : BuyerInv(j)'  BY <1>0, <1>9, <1>10, BuyerFrame DEF BillingInv
<1>14. new.id = tab[t].id /\ new.pc # "insert"  BY <1>4 DEF i
<1> QED  BY <1>0, <1>4, <1>5, <1>9, <1>10, <1>11, <1>12, <1>13, <1>14, SessionStep DEF ghosts

LEMMA SaveKeeps == ASSUME BillingInv, NEW t \in Tabs, SaveSubscription(t) PROVE BillingInv'
<1> DEFINE i == tab[t].id
<1> DEFINE row == [sub |-> tab[t].sub, plan |-> "pro", status |-> "created", period |-> FALSE]
<1> DEFINE new == [tab[t] EXCEPT !.pc = "in", !.sub = NoSub]
<1>0. TypeOK /\ TabAt(t, "save") /\ TabInv(t) /\ tab[t] \in TabState
      /\ UNCHANGED <<users, raced, claimed, buyer, sent, unanswered, delivery, ghosts>>
      /\ linked' = linked \cup {tab[t].sub}
  BY DEF BillingInv, SaveSubscription, TypeOK, TabState
<1>1. /\ i \in Ids /\ HasUser(i) /\ Address(i) = tab[t].address
      /\ tab[t].sub \in Subs /\ buyer[tab[t].sub] = i
  BY <1>0 DEF TabInv, TabAt, Signed, Address
<1>2. row \in Row /\ row.sub = tab[t].sub  BY <1>1 DEF Row, Plans, SubStatus
<1>3. subscriptions' = [subscriptions EXCEPT ![i] = row]  BY DEF SaveSubscription
<1>4. new \in TabState /\ new.pc = "in" /\ new.id = i /\ new.address = tab[t].address
  BY <1>0 DEF TabState, TabPc
<1>5. tab' = [tab EXCEPT ![t] = new]  BY Zenon DEF SaveSubscription
<1> HIDE DEF i, row, new
<1>6. Grow /\ NoneNew /\ BuyersStay /\ \A j : HasUser(j)' = HasUser(j)
  BY <1>0, SameUsers DEF BuyersStay
<1>7. tab' \in [Tabs -> TabState] /\ tab'[t] = new  BY <1>0, <1>4, <1>5, TabMoves
<1>8. subscriptions' \in [Ids -> Row \cup {NoRow}] /\ subscriptions'[i] = row
      /\ \A j \in Ids \ {i} : subscriptions'[j] = subscriptions[j]
  BY <1>0, <1>1, <1>2, <1>3 DEF TypeOK
<1>9. linked' \subseteq Subs  BY <1>0, <1>1 DEF TypeOK
<1>10. TypeOK'  BY <1>0, <1>7, <1>8, <1>9 DEF TypeOK, TabState, ghosts
<1>11. TabInv(t)'
  <2>1. tab'[t].pc = "in" /\ tab'[t].id = i /\ tab'[t].address = tab[t].address  BY <1>4, <1>7
  <2>2. HasUser(tab[t].id)' /\ users'[tab'[t].id].email.address = tab[t].address
    BY <1>0, <1>1, <2>1 DEF HasUser, Address
  <2> QED  BY <1>1, <2>1, <2>2 DEF TabInv, TabAt
<1>12. ASSUME NEW j \in Ids PROVE BuyerInv(j)'
  <2>1. CASE j = i
    <3>1. subscriptions'[j].sub = tab[t].sub /\ buyer' = buyer /\ buyer[tab[t].sub] = j
      BY <1>0, <1>1, <1>2, <1>8, <2>1
    <3> QED  BY <1>1, <1>6, <2>1, <3>1 DEF BuyerInv
  <2>2. CASE j # i  BY <1>0, <1>6, <1>8, <2>2, BuyerFrame DEF BillingInv
  <2> QED  BY <2>1, <2>2
<1>13. new.id = tab[t].id /\ new.pc # "insert"  BY <1>4 DEF i
<1> QED  BY <1>0, <1>4, <1>5, <1>6, <1>10, <1>11, <1>12, <1>13, SessionStep DEF ghosts

LEMMA CheckoutFailsKeeps == ASSUME BillingInv, NEW t \in Tabs, CheckoutFails(t) PROVE BillingInv'
<1> DEFINE new == [tab[t] EXCEPT !.pc = "in", !.sub = NoSub]
<1>0. TypeOK /\ tab[t].pc \in {"upsert", "save"} /\ TabInv(t) /\ tab[t] \in TabState
      /\ UNCHANGED <<users, raced, subscriptions, claimed, provider, delivery, ghosts>>
  BY DEF BillingInv, CheckoutFails, TypeOK, TabState, tables
<1>1. Grow /\ NoneNew /\ BuyersStay  BY <1>0, SameUsers DEF BuyersStay, provider
<1>2. new \in TabState /\ new.pc = "in" /\ new.id = tab[t].id /\ new.address = tab[t].address
  BY <1>0 DEF TabState, TabPc
<1>3. tab' = [tab EXCEPT ![t] = new]  BY Zenon DEF CheckoutFails
<1> HIDE DEF new
<1>4. tab' \in [Tabs -> TabState] /\ tab'[t] = new  BY <1>0, <1>2, <1>3, TabMoves
<1>5. TypeOK'  BY <1>0, <1>4 DEF TypeOK, TabState, provider, ghosts
<1>6. TabInv(t)'
  <2>1. tab'[t].pc = "in" /\ tab'[t].id = tab[t].id /\ tab'[t].address = tab[t].address  BY <1>2, <1>4
  <2>2. /\ tab[t].id \in Ids /\ HasUser(tab[t].id)
        /\ users[tab[t].id].email.address = tab[t].address
    BY <1>0 DEF TabInv, Signed
  <2>3. HasUser(tab[t].id)'  BY <1>0, <2>1, <2>2 DEF HasUser
  <2> QED  BY <1>0, <2>1, <2>2, <2>3 DEF TabInv, TabAt
<1>7. \A i \in Ids : BuyerInv(i)'  BY <1>0, <1>1, BuyerFrame DEF BillingInv
<1> QED  BY <1>0, <1>1, <1>2, <1>3, <1>5, <1>6, <1>7, SessionStep DEF ghosts

-----------------------------------------------------------------------------
(* The webhook.                                                            *)

LEMMA Moves ==
  ASSUME TypeOK, NEW d \in Deliveries, NEW new \in Request, delivery' = [delivery EXCEPT ![d] = new]
  PROVE  /\ delivery' \in [Deliveries -> Request] /\ delivery'[d] = new
         /\ \A c \in Deliveries \ {d} : delivery'[c] = delivery[c]
BY DEF TypeOK, Request

LEMMA WaitingIsIdle == Waiting \in Request /\ Waiting.pc = "idle"
BY DEF Waiting, Request

LEMMA ClaimEventKeeps == ASSUME BillingInv, NEW d \in Deliveries, ClaimEvent(d) PROVE BillingInv'
<1>0. TypeOK /\ WebhookInv /\ delivery[d].pc = "idle"
      /\ UNCHANGED <<users, raced, subscriptions, buyer, linked, sent, tab>>
  BY DEF BillingInv, ClaimEvent
<1>1. PICK e \in unanswered :
       /\ claimed' = claimed \cup {e}
       /\ \/ /\ e \in claimed
             /\ Answered(e)
             /\ UNCHANGED <<delivery, ghosts>>
          \/ /\ e \notin claimed /\ ~Acts(e.kind)
             /\ Answered(e)
             /\ finished' = finished \cup {e}
             /\ UNCHANGED <<delivery, spent, orderly>>
          \/ /\ e \notin claimed /\ Acts(e.kind)
             /\ Begin(d, e)
             /\ orderly' = [orderly EXCEPT ![buyer[e.sub]] = @ /\ InTurn(d, e)]
             /\ UNCHANGED <<unanswered, finished, spent>>
  BY DEF ClaimEvent
<1>2. e \in Event  BY <1>0 DEF TypeOK
<1>3. /\ claimed' \subseteq Event /\ unanswered' \subseteq Event /\ finished' \subseteq Event
      /\ spent' = spent
  BY <1>0, <1>1, <1>2 DEF TypeOK, Answered, ghosts
<1>4. Grow /\ NoneNew /\ BuyersStay /\ \A i : HasUser(i)' = HasUser(i)
  BY <1>0, SameUsers DEF BuyersStay
<1>5. (\A t \in Tabs : TabInv(t)') /\ (\A i \in Ids : SpeltInv(i)') /\ AddressInv'
  BY <1>0, <1>4, SessionsFrame
<1>6. \A i \in Ids : BuyerInv(i)'  BY <1>0, <1>4, BuyerFrame DEF BillingInv
<1>7. CASE UNCHANGED <<delivery, orderly>>
  <2>1. TypeOK'  BY <1>0, <1>3, <1>7 DEF TypeOK
  <2>2. WebhookInv'  BY <1>0, <1>1, <1>3, <1>7 DEF WebhookInv, Busy, HasUser
  <2> QED  BY <1>5, <1>6, <2>1, <2>2 DEF BillingInv
<1>8. CASE /\ e \notin claimed /\ Begin(d, e)
           /\ orderly' = [orderly EXCEPT ![buyer[e.sub]] = @ /\ InTurn(d, e)]
  <2> DEFINE new == [pc |-> "update", event |-> e, user |-> NoId]
  <2> DEFINE turn == orderly[buyer[e.sub]] /\ InTurn(d, e)
  <2>1. new \in Request /\ new.pc = "update" /\ new.event = e  BY <1>2 DEF Request
  <2>2. delivery' = [delivery EXCEPT ![d] = new]  BY <1>8 DEF Begin
  <2>3. orderly' = [orderly EXCEPT ![buyer[e.sub]] = turn] /\ turn \in BOOLEAN  BY <1>8, Zenon
  <2> HIDE DEF new, turn
  <2>4. /\ delivery' \in [Deliveries -> Request] /\ delivery'[d] = new
        /\ \A c \in Deliveries \ {d} : delivery'[c] = delivery[c]
    BY <1>0, <2>1, <2>2, Moves
  <2>5. orderly' \in [Ids -> BOOLEAN]  BY <1>0, <2>3 DEF TypeOK
  <2>6. TypeOK'  BY <1>0, <1>3, <2>4, <2>5 DEF TypeOK, Request
  <2>7. e \notin spent  BY <1>0, <1>8 DEF WebhookInv
  <2>8. \A c \in Deliveries : Busy(c)' => delivery'[c].event \in claimed' \ spent'
    BY <1>0, <1>1, <1>3, <2>1, <2>4, <2>7 DEF WebhookInv, Busy
  <2>9. \A c \in Deliveries : delivery'[c].pc = "plan" =>
          /\ delivery'[c].user \in Ids /\ HasUser(delivery[c].user)'
          /\ delivery'[c].user = buyer'[delivery'[c].event.sub]
    BY <1>0, <2>1, <2>4 DEF WebhookInv, HasUser
  <2>10. \A b, c \in Deliveries : Busy(b)' /\ Busy(c)' /\ delivery'[b].event = delivery'[c].event => b = c
    BY <1>0, <1>8, <2>1, <2>4 DEF WebhookInv, Busy
  <2>11. WebhookInv'  BY <1>0, <1>1, <1>3, <2>8, <2>9, <2>10 DEF WebhookInv
  <2> QED  BY <1>5, <1>6, <2>6, <2>11 DEF BillingInv
<1> QED  BY <1>1, <1>7, <1>8 DEF ghosts

LEMMA PlanAndStatus ==
  ASSUME NEW e \in Event
  PROVE  PlanFor(e) \in Plans /\ StatusFor(e.kind) \in SubStatus
<1>1. PlanFor(e) \in Plans  BY DEF PlanFor, Plans
<1>2. StatusFor(e.kind) \in SubStatus
  <2>1. CASE e.kind \in ActiveEvents  BY <2>1 DEF StatusFor, SubStatus, ActiveEvents
  <2>2. CASE e.kind \in {"cancelled", "halted"}  BY <2>2 DEF StatusFor, SubStatus, ActiveEvents
  <2>3. CASE e.kind \notin ActiveEvents /\ e.kind \notin {"cancelled", "halted"}
    BY <2>3 DEF StatusFor, SubStatus
  <2> QED  BY <2>1, <2>2, <2>3
<1> QED  BY <1>1, <1>2

(* A request that ends leaves the others with what they have.              *)
LEMMA ReturnKeeps ==
  ASSUME TypeOK, WebhookInv, NEW d \in Deliveries, Return(d), Grow, UNCHANGED <<buyer, claimed>>,
         spent \subseteq spent', spent' \subseteq spent \cup {delivery[d].event}, Busy(d)
  PROVE  WebhookInv' /\ delivery' \in [Deliveries -> Request]
<1>1. delivery' = [delivery EXCEPT ![d] = Waiting]  BY DEF Return
<1>2. /\ delivery' \in [Deliveries -> Request] /\ delivery'[d].pc = "idle"
      /\ \A c \in Deliveries \ {d} : delivery'[c] = delivery[c]
  BY <1>1, Moves, WaitingIsIdle
<1>3. spent' \subseteq claimed'  BY DEF WebhookInv
<1>4. \A c \in Deliveries : Busy(c)' => c # d /\ Busy(c) /\ delivery'[c] = delivery[c]
  BY <1>2 DEF Busy
<1>5. \A c \in Deliveries : Busy(c)' => delivery'[c].event \in claimed' \ spent'
  BY <1>4 DEF WebhookInv
<1>6. \A c \in Deliveries : delivery'[c].pc = "plan" =>
        /\ delivery'[c].user \in Ids /\ HasUser(delivery[c].user)'
        /\ delivery'[c].user = buyer'[delivery'[c].event.sub]
  <2> SUFFICES ASSUME NEW c \in Deliveries, delivery'[c].pc = "plan"
               PROVE  /\ delivery'[c].user \in Ids /\ HasUser(delivery[c].user)'
                      /\ delivery'[c].user = buyer'[delivery'[c].event.sub]
    OBVIOUS
  <2>1. delivery'[c] = delivery[c]  BY <1>4 DEF Busy
  <2>2. /\ delivery[c].user \in Ids /\ HasUser(delivery[c].user)
        /\ delivery[c].user = buyer[delivery[c].event.sub]
    BY <2>1 DEF WebhookInv
  <2>3. \A i : i = delivery[c].user => HasUser(i)'  BY <2>2 DEF Grow
  <2>4. HasUser(delivery[c].user)'  BY <2>1, <2>3 DEF HasUser
  <2> QED  BY <2>1, <2>2, <2>4
<1>7. \A b, c \in Deliveries : Busy(b)' /\ Busy(c)' /\ delivery'[b].event = delivery'[c].event => b = c
  BY <1>4 DEF WebhookInv
<1> QED  BY <1>2, <1>3, <1>5, <1>6, <1>7 DEF WebhookInv

LEMMA UpdateKeeps == ASSUME BillingInv, NEW d \in Deliveries, UpdateSubscription(d) PROVE BillingInv'
<1> DEFINE e == delivery[d].event
<1>0. /\ TypeOK /\ WebhookInv /\ delivery[d].pc = "update" /\ delivery[d] \in Request
      /\ UNCHANGED <<users, raced, claimed, buyer, linked, sent, tab, spent, orderly>>
  BY DEF BillingInv, UpdateSubscription, TypeOK, Request
<1>1. Busy(d) /\ e \in claimed \ spent /\ e \in Event  BY <1>0 DEF Busy, WebhookInv, TypeOK
<1>2. Grow /\ NoneNew /\ BuyersStay /\ \A i : HasUser(i)' = HasUser(i)
  BY <1>0, SameUsers DEF BuyersStay
<1>3. (\A t \in Tabs : TabInv(t)') /\ (\A i \in Ids : SpeltInv(i)') /\ AddressInv'
  BY <1>0, <1>2, SessionsFrame
<1>4. CASE Holders(e.sub) = {} /\ Answered(e) /\ Return(d) /\ finished' = finished \cup {e} /\ UNCHANGED subscriptions
  <2>1. WebhookInv' /\ delivery' \in [Deliveries -> Request]  BY <1>0, <1>1, <1>2, <1>4, ReturnKeeps
  <2>2. TypeOK'  BY <1>0, <1>1, <1>4, <2>1 DEF TypeOK, Request, Answered
  <2>3. \A i \in Ids : BuyerInv(i)'  BY <1>0, <1>2, <1>4, BuyerFrame DEF BillingInv
  <2> QED  BY <1>3, <2>1, <2>2, <2>3 DEF BillingInv
<1>5. CASE \E i \in Holders(e.sub) :
          /\ subscriptions' = [subscriptions EXCEPT
               ![i] = [sub |-> e.sub, plan |-> PlanFor(e), status |-> StatusFor(e.kind),
                       period |-> e.kind \in ActiveEvents]]
          /\ delivery' = [delivery EXCEPT ![d].pc = "plan", ![d].user = i]
          /\ UNCHANGED <<unanswered, finished>>
  <2>1. PICK i \in Holders(e.sub) :
          /\ subscriptions' = [subscriptions EXCEPT
               ![i] = [sub |-> e.sub, plan |-> PlanFor(e), status |-> StatusFor(e.kind),
                       period |-> e.kind \in ActiveEvents]]
          /\ delivery' = [delivery EXCEPT ![d].pc = "plan", ![d].user = i]
          /\ UNCHANGED <<unanswered, finished>>
    BY <1>5
  <2>2. i \in Ids /\ HasUser(i) /\ buyer[e.sub] = i  BY DEF Holders, BillingInv, BuyerInv
  <2> DEFINE row == [sub |-> e.sub, plan |-> PlanFor(e), status |-> StatusFor(e.kind),
                     period |-> e.kind \in ActiveEvents]
  <2> DEFINE new == [delivery[d] EXCEPT !.pc = "plan", !.user = i]
  <2>3. row \in Row /\ row.sub = e.sub
    <3>1. (e.kind \in ActiveEvents) \in BOOLEAN  OBVIOUS
    <3>2. e.sub \in Subs /\ PlanFor(e) \in Plans /\ StatusFor(e.kind) \in SubStatus
      BY <1>1, PlanAndStatus DEF Event
    <3> QED  BY <3>1, <3>2 DEF Row
  <2>4. new \in Request /\ new.pc = "plan" /\ new.user = i /\ new.event = e
    BY <1>0, <2>2 DEF Request
  <2>5. delivery' = [delivery EXCEPT ![d] = new]  BY <2>1, Zenon
  <2>6. subscriptions' = [subscriptions EXCEPT ![i] = row]  BY <2>1
  <2> HIDE DEF row, new
  <2>7. /\ delivery' \in [Deliveries -> Request] /\ delivery'[d] = new
        /\ \A c \in Deliveries \ {d} : delivery'[c] = delivery[c]
    BY <1>0, <2>4, <2>5, Moves
  <2>8. subscriptions' \in [Ids -> Row \cup {NoRow}] /\ subscriptions'[i] = row
        /\ \A j \in Ids \ {i} : subscriptions'[j] = subscriptions[j]
    BY <1>0, <2>2, <2>3, <2>6 DEF TypeOK
  <2>9. TypeOK'  BY <1>0, <2>1, <2>7, <2>8 DEF TypeOK, Request
  <2>10. ASSUME NEW j \in Ids PROVE BuyerInv(j)'
    <3>1. CASE j = i
      <4>1. subscriptions'[j].sub = e.sub /\ buyer' = buyer /\ buyer[e.sub] = j
        BY <1>0, <2>2, <2>3, <2>8, <3>1
      <4> QED  BY <1>2, <2>2, <3>1, <4>1 DEF BuyerInv
    <3>2. CASE j # i  BY <1>0, <1>2, <2>8, <3>2, BuyerFrame DEF BillingInv
    <3> QED  BY <3>1, <3>2
  <2>11. \A c \in Deliveries : Busy(c)' => Busy(c) /\ delivery'[c].event = delivery[c].event
    BY <1>1, <2>4, <2>7 DEF Busy
  <2>12. \A c \in Deliveries : delivery'[c].pc = "plan" =>
          /\ delivery'[c].user \in Ids /\ HasUser(delivery[c].user)'
          /\ delivery'[c].user = buyer'[delivery'[c].event.sub]
    <3> SUFFICES ASSUME NEW c \in Deliveries, delivery'[c].pc = "plan"
                 PROVE  /\ delivery'[c].user \in Ids /\ HasUser(delivery[c].user)'
                        /\ delivery'[c].user = buyer'[delivery'[c].event.sub]
      OBVIOUS
    <3>1. CASE c = d  BY <1>0, <2>2, <2>4, <2>7, <3>1 DEF HasUser
    <3>2. CASE c # d  BY <1>0, <2>7, <3>2 DEF WebhookInv, HasUser
    <3> QED  BY <3>1, <3>2
  <2>13. WebhookInv'  BY <1>0, <2>11, <2>12 DEF WebhookInv
  <2> QED  BY <1>3, <2>9, <2>10, <2>13 DEF BillingInv
<1> QED  BY <1>4, <1>5 DEF UpdateSubscription

(* The plan is set, of a user who has a row.                               *)
LEMMA PlanFacts ==
  ASSUME BillingInv, NEW d \in Deliveries, SetUserPlan(d)
  PROVE  LET i == delivery[d].user
             e == delivery[d].event IN
         /\ e \in claimed \ spent /\ e \in Event
         /\ i \in Ids /\ i = buyer[e.sub] /\ HasUser(i)
         /\ users' \in [Ids -> User \cup {NoRow}]
         /\ users'[i] \in User /\ users'[i].plan = PlanFor(e) /\ users'[i].email = users[i].email
         /\ \A j \in Ids \ {i} : users'[j] = users[j]
<1> DEFINE i == delivery[d].user
<1> DEFINE e == delivery[d].event
<1>0. TypeOK /\ WebhookInv /\ delivery[d].pc = "plan"  BY DEF BillingInv, SetUserPlan
<1>1. e \in claimed \ spent /\ e \in Event /\ i \in Ids /\ i = buyer[e.sub] /\ HasUser(i)
  BY <1>0 DEF WebhookInv, Busy, TypeOK
<1>2. users[i] \in User  BY <1>0, <1>1 DEF TypeOK, HasUser
<1>3. users' = WithPlan(i, PlanFor(e))  BY DEF SetUserPlan
<1>4. PlanFor(e) \in Plans  BY <1>1, PlanAndStatus
<1> HIDE DEF i, e
<1> DEFINE p == PlanFor(e)
<1> DEFINE row == [users[i] EXCEPT !.plan = p]
<1>5. users' = [users EXCEPT ![i] = row]  BY <1>1, <1>3 DEF WithPlan
<1>6. p \in Plans  BY <1>4
<1> HIDE DEF p
<1>7. row \in User /\ row.plan = p /\ row.email = users[i].email  BY <1>2, <1>6 DEF User
<1> HIDE DEF row
<1>8. /\ users' \in [Ids -> User \cup {NoRow}] /\ users'[i] = row
      /\ \A j \in Ids \ {i} : users'[j] = users[j]
  BY <1>0, <1>1, <1>5, <1>7 DEF TypeOK
<1> QED  BY <1>1, <1>7, <1>8 DEF p, i, e

LEMMA SetPlanKeeps == ASSUME BillingInv, NEW d \in Deliveries, SetUserPlan(d) PROVE BillingInv'
<1> DEFINE i == delivery[d].user
<1> DEFINE e == delivery[d].event
<1>0. /\ TypeOK /\ WebhookInv /\ delivery[d].pc = "plan"
      /\ UNCHANGED <<raced, subscriptions, claimed, buyer, linked, sent, tab, orderly>>
      /\ Answered(e) /\ Return(d) /\ finished' = finished \cup {e} /\ spent' = spent \cup {e}
  BY DEF BillingInv, SetUserPlan
<1>1. /\ e \in claimed \ spent /\ e \in Event
      /\ i \in Ids /\ HasUser(i)
      /\ users' \in [Ids -> User \cup {NoRow}]
      /\ users'[i] \in User /\ users'[i].email = users[i].email
      /\ \A j \in Ids \ {i} : users'[j] = users[j]
  BY PlanFacts
<1>2. Busy(d) /\ spent' = spent \cup {delivery[d].event}  BY <1>0 DEF Busy
<1> HIDE DEF i, e
<1>3. \A j : j = i => HasUser(j)' /\ Address(j)' = Address(j)
  BY <1>1, RowAssumption DEF HasUser, Address
<1>4. \A j \in Ids \ {i} : HasUser(j)' = HasUser(j) /\ Address(j)' = Address(j)
  BY <1>1 DEF HasUser, Address
<1>5. Grow /\ NoneNew /\ BuyersStay
  BY <1>0, <1>1, <1>3, <1>4 DEF Grow, NoneNew, BuyersStay
<1>6. (\A t \in Tabs : TabInv(t)') /\ (\A j \in Ids : SpeltInv(j)') /\ AddressInv'
  BY <1>0, <1>5, SessionsFrame
<1>7. \A j \in Ids : BuyerInv(j)'  BY <1>0, <1>5, BuyerFrame DEF BillingInv
<1>8. WebhookInv' /\ delivery' \in [Deliveries -> Request]  BY <1>0, <1>2, <1>5, ReturnKeeps
<1>9. TypeOK'  BY <1>0, <1>1, <1>8 DEF TypeOK, Request, Answered
<1> QED  BY <1>6, <1>7, <1>8, <1>9 DEF BillingInv

LEMMA WebhookFailsKeeps == ASSUME BillingInv, NEW d \in Deliveries, WebhookFails(d) PROVE BillingInv'
<1>0. TypeOK /\ WebhookInv /\ Busy(d) /\ Return(d)
      /\ UNCHANGED <<users, raced, subscriptions, claimed, provider, tab, ghosts>>
  BY DEF BillingInv, WebhookFails, tables, Busy, TypeOK
<1>1. Grow /\ NoneNew /\ BuyersStay  BY <1>0, SameUsers DEF BuyersStay, provider
<1>2. (\A t \in Tabs : TabInv(t)') /\ (\A i \in Ids : SpeltInv(i)') /\ AddressInv'
  BY <1>0, <1>1, SessionsFrame
<1>3. \A i \in Ids : BuyerInv(i)'  BY <1>0, <1>1, BuyerFrame DEF BillingInv
<1>4. WebhookInv' /\ delivery' \in [Deliveries -> Request]
  BY <1>0, <1>1, ReturnKeeps DEF provider, ghosts
<1>5. TypeOK'  BY <1>0, <1>4 DEF TypeOK, Request, provider, ghosts
<1> QED  BY <1>2, <1>3, <1>4, <1>5 DEF BillingInv

LEMMA HappenKeeps == ASSUME BillingInv, NEW s \in Subs, NEW k \in Kinds, Happen(s, k) PROVE BillingInv'
<1>0. TypeOK /\ UNCHANGED <<users, raced, subscriptions, claimed, buyer, linked, tab, delivery, ghosts>>
      /\ sent' = [sent EXCEPT ![s] = Append(sent[s], k)]
      /\ unanswered' = unanswered \cup {[sub |-> s, kind |-> k]}
  BY DEF BillingInv, Happen, tables
<1>1. Grow /\ NoneNew /\ BuyersStay  BY <1>0, SameUsers DEF BuyersStay
<1>2. (\A t \in Tabs : TabInv(t)') /\ (\A i \in Ids : SpeltInv(i)') /\ AddressInv'
  BY <1>0, <1>1, SessionsFrame
<1>3. \A i \in Ids : BuyerInv(i)'  BY <1>0, <1>1, BuyerFrame DEF BillingInv
<1>4. WebhookInv'  BY <1>0, <1>1, WebhookFrame DEF BillingInv, ghosts
<1>5. sent' \in [Subs -> Seq(Kinds)] /\ unanswered' \subseteq Event  BY <1>0 DEF TypeOK, Event
<1>6. TypeOK'  BY <1>0, <1>5 DEF TypeOK, ghosts
<1> QED  BY <1>2, <1>3, <1>4, <1>6 DEF BillingInv

-----------------------------------------------------------------------------
LEMMA BillingInvInit == Init => BillingInv
<1> SUFFICES ASSUME Init PROVE BillingInv  OBVIOUS
<1>1. \A i \in Ids : ~HasUser(i)  BY DEF Init, AccountsInit, HasUser
<1>2. PICK home \in [Tabs -> Addresses] :
        tab = [t \in Tabs |-> [pc |-> "out", address |-> home[t], id |-> NoId, sub |-> NoSub]]
  BY DEF Init
<1>3. tab \in [Tabs -> TabState] /\ \A t \in Tabs : tab[t].pc = "out"
  BY <1>2 DEF TabState, TabPc
<1>4. delivery \in [Deliveries -> Request] /\ \A d \in Deliveries : ~Busy(d) /\ delivery[d].pc # "plan"
  BY WaitingIsIdle DEF Init, Busy
<1>5. TypeOK
  <2>1. users \in [Ids -> User \cup {NoRow}] /\ raced \subseteq Addresses  BY DEF Init, AccountsInit
  <2>2. subscriptions \in [Ids -> Row \cup {NoRow}] /\ buyer \in [Subs -> Ids \cup {NoId}]
        /\ sent \in [Subs -> Seq(Kinds)] /\ orderly \in [Ids -> BOOLEAN]
    BY DEF Init
  <2> QED  BY <1>3, <1>4, <2>1, <2>2 DEF Init, TypeOK, TabState, Request
<1>6. \A t \in Tabs : TabInv(t)  BY <1>3 DEF TabInv, TabAt, Signed
<1>7. \A i \in Ids : SpeltInv(i) /\ BuyerInv(i)  BY <1>1 DEF Init, SpeltInv, BuyerInv
<1>8. AddressInv  BY <1>1, <1>3 DEF AddressInv, TabAt
<1>9. WebhookInv  BY <1>4 DEF WebhookInv, Init
<1> QED  BY <1>5, <1>6, <1>7, <1>8, <1>9 DEF BillingInv

LEMMA BillingInvStep == BillingInv /\ [Next]_vars => BillingInv'
<1> SUFFICES ASSUME BillingInv, [Next]_vars PROVE BillingInv'  OBVIOUS
<1>1. CASE UNCHANGED vars \/ IdsUsedUp
  <2>1. UNCHANGED <<users, raced, subscriptions, claimed, buyer, linked, sent, unanswered, tab,
                    delivery, finished, spent, orderly>>
    BY <1>1 DEF vars, IdsUsedUp, tables, provider, ghosts
  <2>2. Grow /\ NoneNew /\ BuyersStay  BY <2>1, SameUsers DEF BuyersStay
  <2>3. (\A t \in Tabs : TabInv(t)') /\ (\A i \in Ids : SpeltInv(i)') /\ AddressInv'
    BY <2>1, <2>2, SessionsFrame
  <2>4. \A i \in Ids : BuyerInv(i)'  BY <2>1, <2>2, BuyerFrame DEF BillingInv
  <2>5. WebhookInv'  BY <2>1, <2>2, WebhookFrame DEF BillingInv
  <2>6. TypeOK'  BY <2>1 DEF BillingInv, TypeOK
  <2> QED  BY <2>3, <2>4, <2>5, <2>6 DEF BillingInv
<1>2. ASSUME NEW t \in Tabs, TabStep(t) PROVE BillingInv'
  BY <1>2, FindKeeps, InsertKeeps, FindAgainKeeps, SignOutKeeps, CreateKeeps, UpsertKeeps, SaveKeeps,
     CheckoutFailsKeeps DEF TabStep, SignInStep
<1>3. ASSUME NEW s \in Subs, NEW k \in Kinds, Happen(s, k) PROVE BillingInv'  BY <1>3, HappenKeeps
<1>4. ASSUME NEW d \in Deliveries, WebhookStep(d) \/ WebhookFails(d) PROVE BillingInv'
  BY <1>4, ClaimEventKeeps, UpdateKeeps, SetPlanKeeps, WebhookFailsKeeps DEF WebhookStep
<1> QED  BY <1>1, <1>2, <1>3, <1>4 DEF Next

(* Users, subscriptions, sessions and requests stay well formed.           *)
THEOREM BillingTypeTheorem == Spec => []TypeOK
<1>1. BillingInv => TypeOK  BY DEF BillingInv
<1> QED  BY <1>1, BillingInvInit, BillingInvStep, PTL DEF Spec

(* However many tabs sign in and check out at once: an address comes to    *)
(* have two users only where two sign-ins were about to insert it, or its  *)
(* e-mail was stored in another spelling (resolveUserIdByEmail).           *)
THEOREM OneUserTheorem == Spec => []OneUserPerAddress
<1>1. BillingInv => OneUserPerAddress
  BY DEF BillingInv, AddressInv, OneUserPerAddress, Split, Address
<1> QED  BY <1>1, BillingInvInit, BillingInvStep, PTL DEF Spec

-----------------------------------------------------------------------------
(* Refinement.                                                             *)

PlanShown(i) == IF HasUser(i) THEN users[i].plan ELSE "free"

(* Whoever signs in, or is stored again by a checkout, keeps the plan.     *)
LEMMA NewRowsAreFree ==
  ASSUME TypeOK, NEW i \in Ids, NEW row,
         row.plan = IF HasUser(i) THEN users[i].plan ELSE "free",
         row \in User, users' = [users EXCEPT ![i] = row]
  PROVE  \A j \in Ids : PlanShown(j)' = PlanShown(j)
<1>1. users'[i] = row /\ \A j \in Ids \ {i} : users'[j] = users[j]  BY DEF TypeOK
<1>2. \A j : j = i => HasUser(j)' /\ users'[j].plan = PlanShown(j)
  BY <1>1, RowAssumption DEF HasUser, PlanShown
<1>3. \A j \in Ids : j = i => PlanShown(j)' = PlanShown(j)  BY <1>2 DEF PlanShown, HasUser
<1>4. \A j \in Ids \ {i} : PlanShown(j)' = PlanShown(j)  BY <1>1 DEF PlanShown, HasUser
<1> QED  BY <1>3, <1>4

LEMMA InsertIsFree ==
  ASSUME BillingInv, NEW t \in Tabs, InsertUser(t)
  PROVE  \A j \in Ids : PlanShown(j)' = PlanShown(j)
<1> DEFINE i == tab[t].id
<1> DEFINE a == tab[t].address
<1> DEFINE row == [email |-> Normalized(a), plan |-> "free"]
<1>1. TypeOK /\ i \in Ids /\ ~HasUser(i) /\ a \in Addresses
  BY DEF BillingInv, InsertUser, TabInv, TypeOK
<1>2. users' = [users EXCEPT ![i] = row]  BY <1>1 DEF InsertUser
<1> HIDE DEF i, a
<1>3. Normalized(a) \in Email  BY <1>1 DEF Email, Normalized
<1>4. row \in User /\ row.plan = "free"  BY <1>3 DEF User, Plans
<1> HIDE DEF row
<1> QED  BY <1>1, <1>2, <1>4, NewRowsAreFree

LEMMA UpsertKeepsPlan ==
  ASSUME BillingInv, NEW t \in Tabs, UpsertBuyer(t)
  PROVE  \A j \in Ids : PlanShown(j)' = PlanShown(j)
<1> DEFINE i == tab[t].id
<1> DEFINE a == tab[t].address
<1>1. TypeOK /\ i \in Ids /\ HasUser(i) /\ a \in Addresses
  BY DEF BillingInv, UpsertBuyer, TabInv, TypeOK, TabAt, Signed
<1>2. users[i] \in User  BY <1>1 DEF TypeOK, HasUser
<1> DEFINE row == [users[i] EXCEPT !.email = Spelled(a)]
<1>3. users' = [users EXCEPT ![i] = row]  BY <1>1 DEF UpsertBuyer, Upserted
<1> HIDE DEF i, a
<1>4. Spelled(a) \in Email  BY <1>1 DEF Email, Spelled
<1>5. row \in User /\ row.plan = users[i].plan  BY <1>2, <1>4 DEF User
<1> HIDE DEF row
<1> QED  BY <1>1, <1>3, <1>5, NewRowsAreFree

(* What a tab does is a checkout, or nothing that Entitlement tells.       *)
LEMMA TabImplements ==
  ASSUME BillingInv, NEW t \in Tabs, TabStep(t)
  PROVE  /\ \A j \in Ids : PlanShown(j)' = PlanShown(j)
         /\ spent' = spent
         /\ \/ buyer' = buyer
            \/ \E s \in Subs : /\ tab[t].id \in Ids /\ buyer[s] = NoId
                               /\ buyer' = [buyer EXCEPT ![s] = tab[t].id]
<1>1. CASE InsertUser(t) /\ UNCHANGED <<subscriptions, claimed, provider, delivery, ghosts>>
  BY <1>1, InsertIsFree DEF provider, ghosts
<1>2. CASE UpsertBuyer(t)
  BY <1>2, UpsertKeepsPlan DEF UpsertBuyer, provider, ghosts
<1>3. CASE CreateSubscription(t)
  <2>1. tab[t].id \in Ids  BY <1>3 DEF BillingInv, TabInv, CreateSubscription, TabAt, Signed
  <2> QED  BY <1>3, <2>1 DEF CreateSubscription, tables, ghosts, PlanShown, HasUser
<1>4. CASE SaveSubscription(t) \/ CheckoutFails(t)
  BY <1>4 DEF SaveSubscription, CheckoutFails, tables, provider, ghosts, PlanShown, HasUser
<1>5. CASE /\ FindUser(t) \/ FindAgain(t) \/ SignInFails(t) \/ SignOut(t)
           /\ UNCHANGED <<subscriptions, claimed, provider, delivery, ghosts>>
  <2>1. users' = users  BY <1>5 DEF FindUser, FindAgain, SignInFails, SignOut
  <2> QED  BY <1>5, <2>1 DEF provider, ghosts, PlanShown, HasUser
<1> QED  BY <1>1, <1>2, <1>3, <1>4, <1>5 DEF TabStep, SignInStep

(* A plan is set for the buyer, by an event that had set none.             *)
LEMMA PlanImplements ==
  ASSUME BillingInv, NEW d \in Deliveries, SetUserPlan(d)
  PROVE  \E e \in Event, i \in Ids :
           /\ e \notin spent /\ spent' = spent \cup {e} /\ buyer' = buyer
           /\ i = buyer[e.sub] /\ PlanShown(i)' = PlanFor(e)
           /\ \A j \in Ids \ {i} : PlanShown(j)' = PlanShown(j)
<1>1. PICK e \in Event, i \in Ids :
        /\ e = delivery[d].event /\ e \notin spent /\ i = buyer[e.sub]
        /\ users'[i] \in User /\ users'[i].plan = PlanFor(e)
        /\ \A j \in Ids \ {i} : users'[j] = users[j]
  BY PlanFacts
<1>2. spent' = spent \cup {e} /\ buyer' = buyer  BY <1>1 DEF SetUserPlan
<1>3. PlanShown(i)' = PlanFor(e)  BY <1>1, RowAssumption DEF PlanShown, HasUser
<1>4. \A j \in Ids \ {i} : PlanShown(j)' = PlanShown(j)  BY <1>1 DEF PlanShown, HasUser
<1> QED  BY <1>1, <1>2, <1>3, <1>4

(* Sign-in, checkout, webhook and provider together do what Entitlement    *)
(* promises: no plan without an event, none twice for one event, none for  *)
(* anybody but the buyer (applyPlan, claimWebhookEvent).                   *)
THEOREM PromiseTheorem == Spec => PromiseKept
<1> DEFINE plan == [i \in Ids |-> IF HasUser(i) THEN users[i].plan ELSE "free"]
<1>0. plan = [i \in Ids |-> PlanShown(i)] /\ plan' = [i \in Ids |-> PlanShown(i)']
  BY DEF PlanShown
<1>1. Init => Promised!Init
  BY DEF Init, AccountsInit, HasUser, Promised!Init
<1>2. ASSUME BillingInv, [Next]_vars PROVE [Promised!Next]_<<plan, buyer, spent>>
  <2>1. CASE UNCHANGED vars \/ IdsUsedUp
    BY <2>1 DEF vars, IdsUsedUp, tables, provider, ghosts, HasUser
  <2>2. ASSUME NEW t \in Tabs, TabStep(t) PROVE [Promised!Next]_<<plan, buyer, spent>>
    <3>1. plan' = plan /\ spent' = spent  BY <1>0, <1>2, <2>2, TabImplements
    <3>2. CASE buyer' = buyer  BY <3>1, <3>2
    <3>3. ASSUME NEW s \in Subs, tab[t].id \in Ids, buyer[s] = NoId,
                 buyer' = [buyer EXCEPT ![s] = tab[t].id]
          PROVE  Promised!Next
      <4> HIDE DEF plan
      <4>1. Promised!CheckOut(tab[t].id, s)  BY <3>1, <3>3 DEF Promised!CheckOut, plan
      <4> QED  BY <3>3, <4>1 DEF Promised!Next
    <3> QED  BY <1>2, <2>2, <3>2, <3>3, TabImplements
  <2>3. ASSUME NEW s \in Subs, NEW k \in Kinds, Happen(s, k)
        PROVE  UNCHANGED <<plan, buyer, spent>>
    BY <2>3 DEF Happen, tables, ghosts, HasUser
  <2>4. ASSUME NEW d \in Deliveries, ClaimEvent(d) \/ UpdateSubscription(d) \/ WebhookFails(d)
        PROVE  UNCHANGED <<plan, buyer, spent>>
    BY <2>4 DEF ClaimEvent, UpdateSubscription, WebhookFails, tables, provider, ghosts, HasUser
  <2>5. ASSUME NEW d \in Deliveries, SetUserPlan(d) PROVE Promised!Next
    <3>1. PICK e \in Event, i \in Ids :
            /\ e \notin spent /\ spent' = spent \cup {e} /\ buyer' = buyer
            /\ i = buyer[e.sub] /\ PlanShown(i)' = PlanFor(e)
            /\ \A j \in Ids \ {i} : PlanShown(j)' = PlanShown(j)
      BY <1>2, <2>5, PlanImplements
    <3>2. plan' = [plan EXCEPT ![buyer[e.sub]] = PlanFor(e)]
      <4> HIDE DEF plan
      <4> QED  BY <1>0, <3>1
    <3>3. Promised!TakeEffect(e)  BY <3>1, <3>2 DEF Promised!TakeEffect
    <3> QED  BY <3>3 DEF Promised!Next
  <2> QED  BY <1>2, <2>1, <2>2, <2>3, <2>4, <2>5 DEF Next, WebhookStep
<1> QED  BY <1>1, <1>2, BillingInvInit, BillingInvStep, PTL DEF Spec, PromiseKept, Promised!Spec, Promised!vars
-----------------------------------------------------------------------------
(* The plan follows the provider.  The kinds of event of a subscription    *)
(* come in a fixed order, none twice, so the latest that was claimed is    *)
(* the one that stands for all: once every event claimed has been handled  *)
(* to its end, both tables have its plan.                                  *)

Ev(s, k) == [sub |-> s, kind |-> k]
Sent(s) == {sent[s][n] : n \in 1..Len(sent[s])}

(* The events of a subscription that change a plan and were claimed.       *)
Taken(s) == {k \in Kinds : Acts(k) /\ Ev(s, k) \in claimed}

(* Where a kind of event comes in the life of a subscription.              *)
Rank(k) ==
  CASE k = "authenticated" -> 1
    [] k = "activated" -> 2
    [] k = "charged" -> 3
    [] k = "pending" -> 4
    [] OTHER -> 5

RankInv(s) ==
  \A n, m \in 1..Len(sent[s]) : n < m => Rank(sent[s][n]) < Rank(sent[s][m])

HappenedInv ==
  /\ \A e \in unanswered \cup claimed : e.kind \in Sent(e.sub)
  /\ finished \subseteq claimed
  /\ \A d \in Deliveries :
       Busy(d) => delivery[d].event \notin finished /\ Acts(delivery[d].event.kind)

(* Nothing happens to a subscription before its checkout has been saved.   *)
Saving(t) == tab[t].pc \in {"upsert", "save"}
LinkInv ==
  /\ \A s \in Subs : s \notin linked => sent[s] = <<>>
  /\ \A s \in linked : buyer[s] \in Ids
  /\ \A t \in Tabs : Saving(t) => tab[t].sub \notin linked
  /\ \A t, u \in Tabs : Saving(t) /\ Saving(u) /\ tab[t].sub = tab[u].sub => t = u

(* An event claimed in its turn follows events that are over.              *)
TurnInv(s) ==
  buyer[s] \in Ids /\ orderly[buyer[s]] =>
    \A k \in Sent(s), l \in Taken(s) : Rank(k) < Rank(l) => Ev(s, k) \in finished

(* What a request about to set the plan of a user leaves in the user's     *)
(* row of subscription s; a row of a later subscription, of which no event *)
(* has been claimed yet, it leaves alone.                                  *)
HalfWay(i, s) ==
  \A d \in Deliveries :
    delivery[d].pc = "plan" /\ buyer[delivery[d].event.sub] = i =>
      IF delivery[d].event.sub = s
      THEN subscriptions[i].plan = PlanFor(delivery[d].event)
      ELSE Taken(s) = {}

Newest(s, k) == k \in Taken(s) /\ \A l \in Taken(s) : Rank(l) <= Rank(k)
TakenAreOver(s) == \A k \in Taken(s) : Ev(s, k) \in finished

(* With nothing half way, both tables have the plan of the newest event.   *)
BothAgree(i, s) ==
  TakenAreOver(s) =>
    \A k \in Kinds : Newest(s, k) =>
      users[i].plan = PlanFor(Ev(s, k)) /\ subscriptions[i].plan = PlanFor(Ev(s, k))

RowIs(i, s) == subscriptions[i] # NoRow /\ subscriptions[i].sub = s
RowInv(i, s) == RowIs(i, s) /\ orderly[i] => HalfWay(i, s) /\ BothAgree(i, s)

FollowInv ==
  /\ HappenedInv
  /\ LinkInv
  /\ \A s \in Subs : RankInv(s) /\ TurnInv(s)
  /\ \A i \in Ids, s \in Subs : RowInv(i, s)

(* Kinds of event.                                                         *)
LEMMA RankRange == ASSUME NEW k PROVE Rank(k) \in 1..5
BY DEF Rank

LEMMA SentFacts ==
  ASSUME TypeOK, NEW s \in Subs
  PROVE  /\ sent[s] \in Seq(Kinds) /\ Len(sent[s]) \in Nat /\ Sent(s) \subseteq Kinds
         /\ sent[s] = <<>> => Sent(s) = {}
<1>1. sent[s] \in Seq(Kinds)  BY DEF TypeOK
<1> QED  BY <1>1 DEF Sent

LEMMA EventFacts ==
  ASSUME NEW e \in Event
  PROVE  e.sub \in Subs /\ e.kind \in Kinds /\ e = Ev(e.sub, e.kind)
BY DEF Event, Ev

LEMMA RankOrders ==
  ASSUME TypeOK, NEW s \in Subs, RankInv(s), NEW k \in Sent(s), NEW l \in Sent(s), k # l
  PROVE  Rank(k) < Rank(l) \/ Rank(l) < Rank(k)
<1>1. PICK n \in 1..Len(sent[s]) : k = sent[s][n]  BY DEF Sent
<1>2. PICK m \in 1..Len(sent[s]) : l = sent[s][m]  BY DEF Sent
<1>3. n < m \/ m < n  BY <1>1, <1>2, SentFacts
<1> QED  BY <1>1, <1>2, <1>3 DEF RankInv

(* An event in its turn comes after events that are over.                  *)
LEMMA TurnFacts ==
  ASSUME TypeOK, NEW e \in Event, RankInv(e.sub), NEW d \in Deliveries, InTurn(d, e),
         NEW k \in Sent(e.sub), e.kind \in Sent(e.sub), Rank(k) < Rank(e.kind)
  PROVE  Ev(e.sub, k) \in finished
<1>0. e.sub \in Subs  BY EventFacts
<1>1. PICK n \in 1..Len(sent[e.sub]) : k = sent[e.sub][n]  BY DEF Sent
<1>2. PICK m \in 1..Len(sent[e.sub]) : e.kind = sent[e.sub][m]  BY DEF Sent
<1>3. n < m
  <2>1. n = m => Rank(k) = Rank(e.kind)  BY <1>1, <1>2
  <2>2. m < n => Rank(e.kind) < Rank(k)  BY <1>1, <1>2 DEF RankInv
  <2>3. Rank(k) \in Nat /\ Rank(e.kind) \in Nat  BY RankRange
  <2>4. ~(m < n) /\ n # m
    <3> HIDE DEF Rank
    <3> QED  BY <2>1, <2>2, <2>3
  <2> QED  BY <1>0, <2>4, SentFacts
<1> QED  BY <1>1, <1>2, <1>3 DEF InTurn, Ev

(* Of two kinds the later has the higher rank: none comes twice.           *)
LEMMA FollowsRank ==
  ASSUME NEW k, NEW past \in Seq(Kinds), past # <<>>, Follows(k, past), k \in Kinds
  PROVE  Rank(past[Len(past)]) < Rank(k)
<1> DEFINE before == past[Len(past)]
<1>1. before \in Kinds  OBVIOUS
<1>2. Kinds \subseteq {"authenticated", "activated", "charged", "pending", "cancelled", "completed",
                     "expired", "halted"}
  BY BillingAssumption DEF ActiveEvents, EndedEvents
<1>3. Last(past) = before  BY DEF Last
<1> HIDE DEF before
<1>4. before # "none"  BY <1>1, <1>2
<1>5. CASE k \in {"authenticated", "expired"}  BY <1>3, <1>4, <1>5 DEF Follows
<1>6. CASE k = "activated"
  <2>1. before = "authenticated"  BY <1>3, <1>4, <1>6 DEF Follows
  <2> QED  BY <1>6, <2>1 DEF before, Rank
<1>7. CASE k = "charged"
  <2>1. before = "activated"  BY <1>3, <1>7 DEF Follows
  <2> QED  BY <1>7, <2>1 DEF before, Rank
<1>8. CASE k = "pending"
  <2>1. before \in {"activated", "charged"}  BY <1>3, <1>8 DEF Follows
  <2> QED  BY <1>8, <2>1 DEF before, Rank
<1>9. CASE k \in {"halted", "completed", "cancelled"}
  <2>1. before \notin EndedEvents  BY <1>3, <1>9 DEF Follows, EndedEvents
  <2>2. before \in {"authenticated", "activated", "charged", "pending"}
    BY <1>1, <1>2, <2>1 DEF EndedEvents
  <2>3. Rank(before) < 5  BY <2>2 DEF Rank
  <2>4. Rank(k) = 5  BY <1>9 DEF Rank
  <2> QED  BY <2>3, <2>4 DEF before
<1> QED  BY <1>2, <1>5, <1>6, <1>7, <1>8, <1>9

-----------------------------------------------------------------------------
(* What stays.                                                             *)

LEMMA TakenHappened ==
  ASSUME TypeOK, HappenedInv, NEW s \in Subs
  PROVE  Taken(s) \subseteq Sent(s)
BY DEF HappenedInv, Taken, Ev

LEMMA LinkFrame ==
  ASSUME TypeOK, LinkInv, UNCHANGED <<linked, sent>>, BuyersStay,
         \A t \in Tabs : Saving(t)' => Saving(t) /\ tab'[t].sub = tab[t].sub
  PROVE  LinkInv'
<1>1. \A s \in linked : s \in Subs /\ buyer[s] # NoId  BY AccountAssumption DEF TypeOK, LinkInv
<1> QED  BY <1>1 DEF LinkInv, BuyersStay

LEMMA HappenedFrame ==
  ASSUME TypeOK, HappenedInv, UNCHANGED <<sent, claimed, finished>>, unanswered' \subseteq unanswered,
         \A d \in Deliveries : Busy(d)' => Busy(d) /\ delivery'[d].event = delivery[d].event
  PROVE  HappenedInv'
<1>1. \A s : Sent(s)' = Sent(s)  BY DEF Sent
<1>2. \A e \in unanswered' \cup claimed' : e.kind \in Sent(e.sub)  BY DEF HappenedInv
<1>3. \A e \in unanswered' \cup claimed' : e.kind \in Sent(e.sub)'  BY <1>1, <1>2
<1> QED  BY <1>3 DEF HappenedInv, Sent

LEMMA TurnFrame ==
  ASSUME TypeOK, NEW s \in Subs, TurnInv(s), Sent(s)' = Sent(s), Taken(s)' = Taken(s),
         finished \subseteq finished', \A i \in Ids : orderly'[i] => orderly[i],
         buyer'[s] = buyer[s] \/ Sent(s) = {}
  PROVE  TurnInv(s)'
BY DEF TurnInv

LEMMA RowFrame ==
  ASSUME NEW i \in Ids, NEW s \in Subs, RowInv(i, s),
         RowIs(i, s) => users'[i].plan = users[i].plan,
         subscriptions'[i] = subscriptions[i], orderly'[i] => orderly[i], Taken(s)' = Taken(s),
         \A k \in Taken(s) : Ev(s, k) \in finished' => Ev(s, k) \in finished,
         \A d \in Deliveries : delivery'[d].pc = "plan" /\ buyer'[delivery'[d].event.sub] = i =>
           delivery[d].pc = "plan" /\ delivery'[d].event = delivery[d].event
             /\ buyer[delivery[d].event.sub] = i
  PROVE  RowInv(i, s)'
<1> SUFFICES ASSUME RowIs(i, s)', orderly'[i] PROVE HalfWay(i, s)' /\ BothAgree(i, s)'
  BY DEF RowInv
<1>1. RowIs(i, s) /\ HalfWay(i, s) /\ BothAgree(i, s)  BY DEF RowInv, RowIs
<1>2. HalfWay(i, s)'  BY <1>1 DEF HalfWay, PlanFor
<1>3. TakenAreOver(s)' => TakenAreOver(s)  BY DEF TakenAreOver
<1>4. \A k \in Kinds : Newest(s, k)' => Newest(s, k)  BY DEF Newest
<1>5. BothAgree(i, s)'  BY <1>1, <1>3, <1>4 DEF BothAgree
<1> QED  BY <1>2, <1>5
(* A step that takes no event and changes no plan and no row: tables are   *)
(* as they were, requests end at most.                                     *)
LEMMA CalmStep ==
  ASSUME BillingInv, FollowInv, LinkInv',
         UNCHANGED <<subscriptions, claimed, sent, finished, orderly>>, unanswered' \subseteq unanswered,
         \A i \in Ids : subscriptions[i] # NoRow => users'[i].plan = users[i].plan,
         \A s \in Subs : buyer'[s] = buyer[s] \/ Sent(s) = {},
         \A d \in Deliveries : ~Busy(d)' \/ delivery'[d] = delivery[d]
  PROVE  FollowInv'
<1>0. TypeOK /\ WebhookInv /\ HappenedInv  BY DEF BillingInv, FollowInv
<1>1. \A s : Sent(s)' = Sent(s) /\ Taken(s)' = Taken(s)  BY DEF Sent, Taken
<1>2. HappenedInv'  BY <1>0, HappenedFrame DEF Busy
<1>3. \A s \in Subs : RankInv(s)' /\ TurnInv(s)'
  BY <1>0, <1>1, TurnFrame DEF FollowInv, RankInv
<1>4. ASSUME NEW d \in Deliveries, delivery'[d].pc = "plan"
      PROVE  /\ delivery'[d] = delivery[d]
             /\ buyer'[delivery[d].event.sub] = buyer[delivery[d].event.sub]
  <2>1. delivery'[d] = delivery[d] /\ Busy(d)  BY <1>4 DEF Busy
  <2>2. delivery[d].event \in claimed /\ delivery[d].event \in Event  BY <1>0, <2>1 DEF WebhookInv, TypeOK
  <2>3. Sent(delivery[d].event.sub) # {} /\ delivery[d].event.sub \in Subs
    BY <1>0, <2>2, EventFacts DEF HappenedInv
  <2> QED  BY <2>1, <2>3
<1>5. \A i \in Ids, s \in Subs : RowInv(i, s)'
  <2> TAKE i \in Ids, s \in Subs
  <2>1. RowInv(i, s) /\ (RowIs(i, s) => users'[i].plan = users[i].plan)  BY DEF FollowInv, RowIs
  <2> QED  BY <1>1, <1>4, <2>1, RowFrame
<1> QED  BY <1>2, <1>3, <1>5 DEF FollowInv

(* What a tab shows of the plan is what the table has, of a user with a    *)
(* subscription.                                                           *)
LEMMA BuyersPlan ==
  ASSUME BillingInv, BillingInv', UNCHANGED subscriptions, \A j \in Ids : PlanShown(j)' = PlanShown(j)
  PROVE  \A i \in Ids : subscriptions[i] # NoRow => users'[i].plan = users[i].plan
<1> TAKE i \in Ids
<1>1. BuyerInv(i) /\ BuyerInv(i)'  BY DEF BillingInv
<1> QED  BY <1>1 DEF BuyerInv, PlanShown, HasUser

LEMMA SignInFollows ==
  ASSUME BillingInv, BillingInv', FollowInv, NEW t \in Tabs, SignInStep(t),
         UNCHANGED <<subscriptions, claimed, provider, delivery, ghosts>>
  PROVE  FollowInv'
<1>1. UNCHANGED <<subscriptions, claimed, buyer, linked, sent, unanswered, delivery, finished, orderly>>
  BY DEF provider, ghosts
<1>2. \A j \in Ids : PlanShown(j)' = PlanShown(j)  BY TabImplements DEF TabStep
<1>3. tab \in [Tabs -> TabState]  BY DEF BillingInv, TypeOK, TabState
<1>4. \A u \in Tabs : Saving(u)' => Saving(u) /\ tab'[u].sub = tab[u].sub
  BY <1>3 DEF SignInStep, FindUser, InsertUser, FindAgain, SignInFails, SignOut, TabGoto, Saving,
              TabState
<1>5. LinkInv'  BY <1>1, <1>4, LinkFrame DEF BillingInv, FollowInv, BuyersStay
<1>6. \A i \in Ids : subscriptions[i] # NoRow => users'[i].plan = users[i].plan
  BY <1>1, <1>2, BuyersPlan
<1> QED  BY <1>1, <1>5, <1>6, CalmStep

LEMMA CreateFollows ==
  ASSUME BillingInv, BillingInv', FollowInv, NEW t \in Tabs, CreateSubscription(t)
  PROVE  FollowInv'
<1>0. TypeOK /\ LinkInv /\ TabInv(t) /\ tab \in [Tabs -> TabState]
  BY DEF BillingInv, FollowInv, TypeOK, TabState
<1>1. UNCHANGED <<users, subscriptions, claimed, linked, sent, unanswered, delivery, finished, orderly>>
  BY DEF CreateSubscription, tables, ghosts
<1>2. PICK s \in Subs : /\ buyer[s] = NoId /\ buyer' = [buyer EXCEPT ![s] = tab[t].id]
                        /\ tab' = [tab EXCEPT ![t].pc = "upsert", ![t].sub = s]
  BY DEF CreateSubscription
<1>3. s \notin linked /\ Sent(s) = {}
  <2>1. s \notin linked  BY <1>0, <1>2, AccountAssumption DEF LinkInv
  <2> QED  BY <1>0, <2>1, SentFacts DEF LinkInv
<1>4. \A r \in Subs \ {s} : buyer'[r] = buyer[r]  BY <1>0, <1>2 DEF TypeOK
<1>5. /\ Saving(t)' /\ tab'[t].sub = s
      /\ \A u \in Tabs \ {t} : tab'[u] = tab[u]
  BY <1>0, <1>2 DEF Saving, TabState
<1>6. \A u \in Tabs : Saving(u) => tab[u].sub \in Subs /\ tab[u].sub # s
  BY <1>2, AccountAssumption DEF BillingInv, TabInv, Saving, Signed
<1>7. LinkInv'
  <2>1. \A r \in Subs : r \notin linked' => sent'[r] = <<>>  BY <1>0, <1>1 DEF LinkInv
  <2>2. \A r \in linked' : buyer'[r] \in Ids  BY <1>0, <1>1, <1>3, <1>4 DEF LinkInv, TypeOK
  <2>3. \A u \in Tabs : Saving(u)' => tab'[u].sub \notin linked'
    BY <1>0, <1>1, <1>3, <1>5 DEF LinkInv, Saving
  <2>4. \A u, v \in Tabs : Saving(u)' /\ Saving(v)' /\ tab'[u].sub = tab'[v].sub => u = v
    BY <1>0, <1>5, <1>6 DEF LinkInv, Saving
  <2> QED  BY <2>1, <2>2, <2>3, <2>4 DEF LinkInv
<1> QED  BY <1>1, <1>3, <1>4, <1>7, CalmStep

LEMMA UpsertFollows ==
  ASSUME BillingInv, BillingInv', FollowInv, NEW t \in Tabs, UpsertBuyer(t)
  PROVE  FollowInv'
<1>1. UNCHANGED <<subscriptions, claimed, buyer, linked, sent, unanswered, delivery, finished, orderly>>
  BY DEF UpsertBuyer, provider, ghosts
<1>2. \A u \in Tabs : Saving(u)' => Saving(u) /\ tab'[u].sub = tab[u].sub
  BY DEF UpsertBuyer, BillingInv, TypeOK, Saving, TabAt, TabGoto
<1>3. LinkInv'  BY <1>1, <1>2, LinkFrame DEF BillingInv, FollowInv, BuyersStay
<1>4. \A i \in Ids : subscriptions[i] # NoRow => users'[i].plan = users[i].plan
  BY <1>1, UpsertKeepsPlan, BuyersPlan
<1> QED  BY <1>1, <1>3, <1>4, CalmStep

LEMMA CheckoutFailsFollows ==
  ASSUME BillingInv, FollowInv, NEW t \in Tabs, CheckoutFails(t)
  PROVE  FollowInv'
<1>1. UNCHANGED <<users, subscriptions, claimed, buyer, linked, sent, unanswered, delivery, finished, orderly>>
  BY DEF CheckoutFails, tables, provider, ghosts
<1>2. \A u \in Tabs : Saving(u)' => Saving(u) /\ tab'[u].sub = tab[u].sub
  BY DEF CheckoutFails, BillingInv, TypeOK, Saving
<1>3. LinkInv'  BY <1>1, <1>2, LinkFrame DEF BillingInv, FollowInv, BuyersStay
<1> QED  BY <1>1, <1>3, CalmStep

(* The row is of a subscription to which nothing has happened.             *)
LEMMA SaveFollows ==
  ASSUME BillingInv, BillingInv', FollowInv, NEW t \in Tabs, SaveSubscription(t)
  PROVE  FollowInv'
<1>0. TypeOK /\ LinkInv /\ HappenedInv /\ TabInv(t) /\ WebhookInv /\ TabAt(t, "save")
      /\ tab \in [Tabs -> TabState]
  BY DEF BillingInv, FollowInv, SaveSubscription, TypeOK, TabState
<1>1. UNCHANGED <<users, claimed, buyer, sent, unanswered, delivery, finished, orderly>>
  BY DEF SaveSubscription, ghosts
<1>2. PICK i \in Ids, s \in Subs : i = tab[t].id /\ s = tab[t].sub /\ buyer[s] = i
  BY <1>0 DEF TabInv, TabAt, Signed
<1>3. /\ subscriptions' = [subscriptions EXCEPT
            ![i] = [sub |-> s, plan |-> "pro", status |-> "created", period |-> FALSE]]
      /\ linked' = linked \cup {s}
      /\ tab' = [tab EXCEPT ![t].pc = "in", ![t].sub = NoSub]
  BY <1>2 DEF SaveSubscription
<1>4. s \notin linked /\ Sent(s) = {} /\ Taken(s) = {}
  <2>1. s \notin linked  BY <1>0, <1>2 DEF LinkInv, Saving, TabAt
  <2>2. Sent(s) = {}  BY <1>0, <2>1, SentFacts DEF LinkInv
  <2> QED  BY <1>0, <2>1, <2>2, TakenHappened
<1>5. LinkInv'
  <2>1. /\ ~Saving(t)' /\ Saving(t)
        /\ \A u \in Tabs \ {t} : tab'[u] = tab[u]
    BY <1>0, <1>3 DEF Saving, TabState, TabAt
  <2>2. \A u \in Tabs : Saving(u)' => u # t /\ Saving(u) /\ tab'[u].sub = tab[u].sub
    BY <2>1 DEF Saving
  <2>3. \A u \in Tabs : Saving(u)' => tab'[u].sub \notin linked'
    BY <1>0, <1>2, <1>3, <2>1, <2>2 DEF LinkInv
  <2> QED  BY <1>0, <1>1, <1>2, <1>3, <2>2, <2>3 DEF LinkInv
<1>6. \A r : Sent(r)' = Sent(r) /\ Taken(r)' = Taken(r)  BY <1>1 DEF Sent, Taken
<1>7. HappenedInv'  BY <1>0, <1>1, HappenedFrame DEF Busy
<1>8. \A r \in Subs : RankInv(r)' /\ TurnInv(r)'
  BY <1>0, <1>1, <1>6, TurnFrame DEF FollowInv, RankInv
<1>9. ASSUME NEW j \in Ids, NEW r \in Subs PROVE RowInv(j, r)'
  <2>1. CASE j = i /\ r = s
    <3>1. HalfWay(i, s)'
      <4> SUFFICES ASSUME NEW d \in Deliveries, delivery'[d].pc = "plan"
                   PROVE  delivery[d].event.sub # s
        BY <1>1, <1>4, <1>6 DEF HalfWay
      <4>1. delivery[d].event \in claimed  BY <1>0, <1>1 DEF WebhookInv, Busy
      <4> QED  BY <1>0, <1>4, <4>1 DEF HappenedInv
    <3>2. BothAgree(i, s)'  BY <1>4, <1>6 DEF BothAgree, Newest
    <3> QED  BY <2>1, <3>1, <3>2 DEF RowInv
  <2>2. CASE j = i /\ r # s  BY <1>0, <1>3, <2>2 DEF RowInv, RowIs, TypeOK
  <2>3. CASE j # i
    <3>1. RowInv(j, r) /\ subscriptions'[j] = subscriptions[j]
      BY <1>0, <1>3, <2>3 DEF FollowInv, TypeOK
    <3> QED  BY <1>1, <1>6, <3>1, RowFrame
  <2> QED  BY <2>1, <2>2, <2>3
<1> QED  BY <1>5, <1>7, <1>8, <1>9 DEF FollowInv

(* What happens comes after all that happened, and is not claimed yet.     *)
LEMMA HappenFollows ==
  ASSUME BillingInv, FollowInv, NEW s \in Subs, NEW k \in Kinds, Happen(s, k)
  PROVE  FollowInv'
<1>0. TypeOK /\ LinkInv /\ HappenedInv /\ WebhookInv /\ RankInv(s) /\ TurnInv(s)
  BY DEF BillingInv, FollowInv
<1>1. /\ UNCHANGED <<users, subscriptions, claimed, buyer, linked, tab, delivery, finished, orderly>>
      /\ s \in linked /\ Follows(k, sent[s])
      /\ sent' = [sent EXCEPT ![s] = Append(sent[s], k)]
      /\ unanswered' = unanswered \cup {Ev(s, k)}
  BY DEF Happen, tables, ghosts, Ev
<1> DEFINE past == sent[s]
<1>2. past \in Seq(Kinds) /\ Len(past) \in Nat  BY <1>0, SentFacts
<1>3. /\ sent'[s] = Append(past, k)
      /\ \A r \in Subs \ {s} : sent'[r] = sent[r] /\ Sent(r)' = Sent(r)
  BY <1>0, <1>1 DEF TypeOK, Sent
<1>4. /\ Len(Append(past, k)) = Len(past) + 1 /\ Append(past, k)[Len(past) + 1] = k
      /\ \A n \in 1..Len(past) : Append(past, k)[n] = past[n]
  BY <1>2
<1>5. Sent(s)' = Sent(s) \cup {k}
  <2>1. \A n \in 1..(Len(past) + 1) : n \in 1..Len(past) \/ n = Len(past) + 1  BY <1>2
  <2>2. \A n \in 1..Len(past) : n \in 1..(Len(past) + 1)  BY <1>2
  <2>3. Len(past) + 1 \in 1..(Len(past) + 1)  BY <1>2
  <2> QED  BY <1>3, <1>4, <2>1, <2>2, <2>3 DEF Sent
<1>6. \A n \in 1..Len(past) : Rank(past[n]) < Rank(k)
  <2> TAKE n \in 1..Len(past)
  <2>1. past # <<>> /\ Len(past) \in 1..Len(past)  BY <1>2
  <2>2. Rank(past[Len(past)]) < Rank(k)  BY <1>1, <1>2, <2>1, FollowsRank
  <2>3. n = Len(past) \/ Rank(past[n]) < Rank(past[Len(past)])
    <3>1. n = Len(past) \/ n < Len(past)  BY <1>2
    <3> QED  BY <1>0, <2>1, <3>1 DEF RankInv
  <2>4. Rank(past[n]) \in Nat /\ Rank(past[Len(past)]) \in Nat /\ Rank(k) \in Nat  BY RankRange
  <2> HIDE DEF past, Rank
  <2> QED  BY <2>2, <2>3, <2>4
<1> HIDE DEF past
<1>7. \A l \in Sent(s) : Rank(l) < Rank(k)  BY <1>6 DEF Sent, past
<1>8. k \notin Sent(s)
  <2>1. Rank(k) \in Nat  BY RankRange
  <2> HIDE DEF Rank
  <2> QED  BY <1>7, <2>1
<1>9. \A r \in Subs : Taken(r)' = Taken(r) /\ Taken(r) \subseteq Sent(r)
  BY <1>0, <1>1, TakenHappened DEF Taken
<1>10. RankInv(s)'
  <2> SUFFICES ASSUME NEW n \in 1..(Len(past) + 1), NEW m \in 1..(Len(past) + 1), n < m
               PROVE  Rank(Append(past, k)[n]) < Rank(Append(past, k)[m])
    BY <1>3, <1>4 DEF RankInv
  <2>1. n \in 1..Len(past) /\ (m \in 1..Len(past) \/ m = Len(past) + 1)  BY <1>2
  <2>2. CASE m \in 1..Len(past)  BY <1>0, <1>4, <2>1, <2>2 DEF RankInv, past
  <2>3. CASE m = Len(past) + 1  BY <1>4, <1>6, <2>1, <2>3
  <2> QED  BY <2>1, <2>2, <2>3
<1>11. TurnInv(s)'
  <2> SUFFICES ASSUME buyer[s] \in Ids, orderly[buyer[s]], NEW j \in Sent(s)', NEW l \in Taken(s),
                      Rank(j) < Rank(l)
               PROVE  Ev(s, j) \in finished
    BY <1>1, <1>9 DEF TurnInv
  <2>1. j # k
    <3>1. Rank(l) < Rank(k)  BY <1>7, <1>9
    <3>2. Rank(l) \in Nat /\ Rank(k) \in Nat  BY RankRange
    <3> HIDE DEF Rank
    <3> QED  BY <3>1, <3>2
  <2> QED  BY <1>0, <1>5, <2>1 DEF TurnInv
<1>12. \A r \in Subs : RankInv(r)' /\ TurnInv(r)'
  <2> TAKE r \in Subs
  <2>1. CASE r = s  BY <1>10, <1>11, <2>1
  <2>2. CASE r # s
    <3>1. RankInv(r) /\ TurnInv(r)  BY DEF FollowInv
    <3> QED  BY <1>0, <1>1, <1>3, <1>9, <2>2, <3>1, TurnFrame DEF RankInv
  <2> QED  BY <2>1, <2>2
<1>13. HappenedInv'
  <2>1. ASSUME NEW e \in unanswered' \cup claimed' PROVE e.kind \in Sent(e.sub)'
    <3>1. CASE e = Ev(s, k)  BY <1>5, <3>1 DEF Ev
    <3>2. CASE e \in unanswered \cup claimed
      <4>1. e.kind \in Sent(e.sub) /\ e.sub \in Subs
        BY <1>0, <3>2, EventFacts DEF HappenedInv, TypeOK
      <4>2. \A r \in Subs : Sent(r) \subseteq Sent(r)'  BY <1>3, <1>5
      <4>3. PICK r \in Subs : r = e.sub  BY <4>1
      <4>4. e.kind \in Sent(r)'  BY <4>1, <4>2, <4>3
      <4> QED  BY <4>3, <4>4
    <3> QED  BY <1>1, <2>1, <3>1, <3>2
  <2> QED  BY <1>0, <1>1, <2>1 DEF HappenedInv, Busy
<1>14. LinkInv'  BY <1>0, <1>1, <1>3 DEF LinkInv, Saving
<1>15. \A i \in Ids, r \in Subs : RowInv(i, r)'
  <2> TAKE i \in Ids, r \in Subs
  <2>1. RowInv(i, r)  BY DEF FollowInv
  <2> QED  BY <1>1, <1>9, <2>1, RowFrame
<1> QED  BY <1>12, <1>13, <1>14, <1>15 DEF FollowInv

(* An event for which nothing is done is over at once.                     *)
LEMMA IgnoredFollows ==
  ASSUME BillingInv, FollowInv, NEW d \in Deliveries, NEW e \in unanswered,
         claimed' = claimed \cup {e}, Answered(e), UNCHANGED <<delivery, spent, orderly>>,
         UNCHANGED <<users, raced, subscriptions, buyer, linked, sent, tab>>,
         \/ e \in claimed /\ finished' = finished
         \/ e \notin claimed /\ ~Acts(e.kind) /\ finished' = finished \cup {e}
  PROVE  FollowInv'
<1>0. TypeOK /\ HappenedInv /\ LinkInv /\ WebhookInv  BY DEF BillingInv, FollowInv
<1>1. \A r : Sent(r)' = Sent(r)  BY DEF Sent
<1>2. \A r : Taken(r)' = Taken(r)  BY DEF Taken, Ev
<1>3. HappenedInv'
  <2>1. unanswered' \cup claimed' \subseteq unanswered \cup claimed  BY DEF Answered
  <2>2. \A f \in unanswered' \cup claimed' : f.kind \in Sent(f.sub)  BY <1>0, <2>1 DEF HappenedInv
  <2>3. \A f \in unanswered' \cup claimed' : f.kind \in Sent(f.sub)'  BY <1>1, <2>2 DEF Sent
  <2>4. \A c \in Deliveries : Busy(c)' =>
          delivery'[c].event \notin finished' /\ Acts(delivery'[c].event.kind)
    BY <1>0 DEF HappenedInv, Busy, WebhookInv
  <2>5. finished' \subseteq claimed'  BY <1>0 DEF HappenedInv
  <2> QED  BY <2>3, <2>4, <2>5 DEF HappenedInv, Sent
<1>4. LinkInv'  BY <1>0, LinkFrame DEF BuyersStay, Saving
<1>5. \A r \in Subs : RankInv(r)' /\ TurnInv(r)'
  BY <1>0, <1>1, <1>2, TurnFrame DEF FollowInv, RankInv
<1>6. \A i \in Ids, r \in Subs : RowInv(i, r)'
  <2> TAKE i \in Ids, r \in Subs
  <2>1. RowInv(i, r)  BY DEF FollowInv
  <2>2. \A k \in Taken(r) : Ev(r, k) \in finished' => Ev(r, k) \in finished
    BY DEF Taken, Ev
  <2> QED  BY <1>2, <2>1, <2>2, RowFrame
<1> QED  BY <1>3, <1>4, <1>5, <1>6 DEF FollowInv

(* An event that is begun: in its turn, or its buyer is not orderly any    *)
(* more.                                                                   *)
LEMMA BegunFollows ==
  ASSUME BillingInv, FollowInv, NEW d \in Deliveries, NEW e \in unanswered, delivery[d].pc = "idle",
         e \notin claimed, Acts(e.kind), claimed' = claimed \cup {e}, Begin(d, e),
         orderly' = [orderly EXCEPT ![buyer[e.sub]] = @ /\ InTurn(d, e)],
         UNCHANGED <<unanswered, finished, users, raced, subscriptions, buyer, linked, sent, tab>>
  PROVE  FollowInv'
<1>0. TypeOK /\ HappenedInv /\ LinkInv /\ WebhookInv  BY DEF BillingInv, FollowInv
<1>1. /\ e \in Event /\ e.kind \in Sent(e.sub) /\ e.sub \in Subs /\ e.kind \in Kinds
      /\ e = Ev(e.sub, e.kind)
  BY <1>0, EventFacts DEF TypeOK, HappenedInv
<1>2. PICK s \in Subs : s = e.sub  BY <1>1
<1>3. PICK b \in Ids : b = buyer[s]
  <2>1. s \in linked  BY <1>0, <1>1, <1>2, SentFacts DEF LinkInv
  <2> QED  BY <1>0, <2>1 DEF LinkInv
<1>4. /\ orderly' \in [Ids -> BOOLEAN] /\ \A i \in Ids : orderly'[i] => orderly[i]
      /\ orderly'[b] => InTurn(d, e)
  <2> DEFINE turn == orderly[b] /\ InTurn(d, e)
  <2>1. orderly' = [orderly EXCEPT ![b] = turn] /\ turn \in BOOLEAN  BY <1>2, <1>3, Zenon
  <2>2. turn => orderly[b] /\ InTurn(d, e)  OBVIOUS
  <2> HIDE DEF turn
  <2> QED  BY <1>0, <2>1, <2>2 DEF TypeOK
<1>5. /\ delivery'[d].pc = "update" /\ delivery'[d].event = e
      /\ \A c \in Deliveries \ {d} : delivery'[c] = delivery[c]
  BY <1>0 DEF Begin, TypeOK
<1>6. \A r : Sent(r)' = Sent(r)  BY DEF Sent
<1>7. /\ \A r \in Subs \ {s} : Taken(r)' = Taken(r)
      /\ Taken(s)' = Taken(s) \cup {e.kind}
  BY <1>1, <1>2 DEF Taken, Ev
<1>8. HappenedInv'
  <2>1. \A f \in unanswered' \cup claimed' : f.kind \in Sent(f.sub)  BY <1>0 DEF HappenedInv
  <2>2. \A f \in unanswered' \cup claimed' : f.kind \in Sent(f.sub)'  BY <1>6, <2>1 DEF Sent
  <2>3. \A c \in Deliveries : Busy(c)' =>
          delivery'[c].event \notin finished' /\ Acts(delivery'[c].event.kind)
    BY <1>0, <1>5 DEF HappenedInv, Busy
  <2>4. finished' \subseteq claimed'  BY <1>0 DEF HappenedInv
  <2> QED  BY <2>2, <2>3, <2>4 DEF HappenedInv, Sent
<1>9. LinkInv'  BY <1>0, LinkFrame DEF BuyersStay, Saving
<1>10. TurnInv(s)'
  <2> SUFFICES ASSUME orderly'[b], NEW k \in Sent(s), NEW l \in Taken(s)', Rank(k) < Rank(l)
               PROVE  Ev(s, k) \in finished
    BY <1>3, <1>6 DEF TurnInv
  <2>1. CASE l \in Taken(s)  BY <1>3, <1>4, <2>1 DEF FollowInv, TurnInv
  <2>2. CASE l = e.kind
    <3>1. RankInv(s)  BY DEF FollowInv
    <3> QED  BY <1>0, <1>1, <1>2, <1>4, <2>2, <3>1, TurnFacts
  <2> QED  BY <1>7, <2>1, <2>2
<1>11. \A r \in Subs : RankInv(r)' /\ TurnInv(r)'
  <2> TAKE r \in Subs
  <2>1. RankInv(r) /\ TurnInv(r)  BY DEF FollowInv
  <2>2. CASE r = s  BY <1>10, <2>1, <2>2 DEF RankInv
  <2>3. CASE r # s  BY <1>0, <1>4, <1>6, <1>7, <2>1, <2>3, TurnFrame DEF RankInv
  <2> QED  BY <2>2, <2>3
<1>12. ASSUME NEW i \in Ids, NEW r \in Subs PROVE RowInv(i, r)'
  <2>1. RowInv(i, r)  BY DEF FollowInv
  <2>2. CASE r # s
    <3>1. Taken(r)' = Taken(r)  BY <1>7, <2>2
    <3>2. \A c \in Deliveries : delivery'[c].pc = "plan" => c # d  BY <1>5
    <3> QED  BY <1>4, <1>5, <2>1, <3>1, <3>2, RowFrame
  <2>3. CASE r = s
    <3> SUFFICES ASSUME RowIs(i, s), orderly'[i] PROVE HalfWay(i, s)' /\ BothAgree(i, s)'
      BY <2>3 DEF RowInv, RowIs
    <3>1. i = b /\ InTurn(d, e)  BY <1>3, <1>4 DEF BillingInv, BuyerInv, RowIs
    <3>2. HalfWay(i, s)'
      <4>1. \A c \in Deliveries \ {d} : delivery[c].pc = "plan" => buyer[delivery[c].event.sub] # b
        BY <1>2, <1>3, <3>1 DEF InTurn
      <4> QED  BY <1>5, <3>1, <4>1 DEF HalfWay
    <3>3. e.kind \in Taken(s)' /\ Ev(s, e.kind) \notin finished'
      BY <1>0, <1>1, <1>2, <1>7 DEF HappenedInv
    <3>4. BothAgree(i, s)'  BY <3>3 DEF BothAgree, TakenAreOver
    <3> QED  BY <3>2, <3>4
  <2> QED  BY <2>2, <2>3
<1> QED  BY <1>8, <1>9, <1>11, <1>12 DEF FollowInv

LEMMA ClaimFollows ==
  ASSUME BillingInv, FollowInv, NEW d \in Deliveries, ClaimEvent(d)
  PROVE  FollowInv'
<1>0. delivery[d].pc = "idle" /\ UNCHANGED <<users, raced, subscriptions, buyer, linked, sent, tab>>
  BY DEF ClaimEvent
<1>1. PICK e \in unanswered :
       /\ claimed' = claimed \cup {e}
       /\ \/ /\ e \in claimed
             /\ Answered(e)
             /\ UNCHANGED <<delivery, ghosts>>
          \/ /\ e \notin claimed /\ ~Acts(e.kind)
             /\ Answered(e)
             /\ finished' = finished \cup {e}
             /\ UNCHANGED <<delivery, spent, orderly>>
          \/ /\ e \notin claimed /\ Acts(e.kind)
             /\ Begin(d, e)
             /\ orderly' = [orderly EXCEPT ![buyer[e.sub]] = @ /\ InTurn(d, e)]
             /\ UNCHANGED <<unanswered, finished, spent>>
  BY DEF ClaimEvent
<1>2. CASE e \in claimed /\ Answered(e) /\ UNCHANGED <<delivery, ghosts>>
  BY <1>0, <1>1, <1>2, IgnoredFollows DEF ghosts
<1>3. CASE /\ e \notin claimed /\ ~Acts(e.kind) /\ Answered(e) /\ finished' = finished \cup {e}
           /\ UNCHANGED <<delivery, spent, orderly>>
  BY <1>0, <1>1, <1>3, IgnoredFollows
<1>4. CASE /\ e \notin claimed /\ Acts(e.kind) /\ Begin(d, e)
           /\ orderly' = [orderly EXCEPT ![buyer[e.sub]] = @ /\ InTurn(d, e)]
           /\ UNCHANGED <<unanswered, finished, spent>>
  BY <1>0, <1>1, <1>4, BegunFollows
<1> QED  BY <1>1, <1>2, <1>3, <1>4

(* What a request has under way: an event that was claimed, changes a plan *)
(* and is not over.                                                        *)
LEMMA UnderWay ==
  ASSUME BillingInv, FollowInv, NEW d \in Deliveries, Busy(d)
  PROVE  LET e == delivery[d].event IN
         /\ e \in Event /\ e.sub \in Subs /\ e.kind \in Kinds /\ e = Ev(e.sub, e.kind)
         /\ e.kind \in Taken(e.sub) /\ e.kind \in Sent(e.sub) /\ e \notin finished
         /\ buyer[e.sub] \in Ids
<1> DEFINE e == delivery[d].event
<1>0. TypeOK /\ HappenedInv /\ LinkInv /\ WebhookInv  BY DEF BillingInv, FollowInv
<1>1. e \in claimed /\ e \in Event /\ e \notin finished /\ Acts(e.kind)
  BY <1>0 DEF WebhookInv, HappenedInv, TypeOK
<1> HIDE DEF e
<1>2. e.sub \in Subs /\ e.kind \in Kinds /\ e = Ev(e.sub, e.kind)  BY <1>1, EventFacts
<1>3. e.kind \in Taken(e.sub) /\ e.kind \in Sent(e.sub)
  BY <1>0, <1>1, <1>2 DEF Taken, HappenedInv
<1>4. buyer[e.sub] \in Ids
  <2>1. e.sub \in linked  BY <1>0, <1>2, <1>3, SentFacts DEF LinkInv
  <2> QED  BY <1>0, <2>1 DEF LinkInv
<1> QED  BY <1>1, <1>2, <1>3, <1>4 DEF e

(* Of an orderly buyer no event of the same subscription is newer than one *)
(* that is under way, and none is under way beside it.                     *)
LEMMA NewestUnderWay ==
  ASSUME BillingInv, FollowInv, NEW d \in Deliveries, Busy(d), NEW s \in Subs,
         delivery[d].event.sub = s, orderly[buyer[s]],
         NEW k \in Taken(s), k # delivery[d].event.kind
  PROVE  Rank(k) < Rank(delivery[d].event.kind) /\ Ev(s, k) \in finished
<1> DEFINE l == delivery[d].event.kind
<1>0. TypeOK /\ HappenedInv /\ RankInv(s) /\ TurnInv(s)  BY DEF BillingInv, FollowInv
<1>1. l \in Taken(s) /\ l \in Sent(s) /\ Ev(s, l) \notin finished /\ buyer[s] \in Ids
  BY UnderWay
<1>2. k \in Sent(s)  BY <1>0, TakenHappened
<1> HIDE DEF l
<1>3. ~(Rank(l) < Rank(k))  BY <1>0, <1>1 DEF TurnInv
<1>4. k # l  BY DEF l
<1>5. Rank(k) < Rank(l)  BY <1>0, <1>1, <1>2, <1>3, <1>4, RankOrders
<1>6. Ev(s, k) \in finished  BY <1>0, <1>1, <1>2, <1>5 DEF TurnInv
<1> QED  BY <1>5, <1>6 DEF l

(* A request that ends leaves the others with what they have under way.    *)
LEMMA EndsFollows ==
  ASSUME BillingInv, FollowInv, NEW d \in Deliveries, Busy(d), Return(d),
         finished' = finished \cup {delivery[d].event}, Answered(delivery[d].event),
         UNCHANGED <<claimed, buyer, linked, sent, tab, orderly>>
  PROVE  /\ HappenedInv' /\ LinkInv' /\ \A s \in Subs : RankInv(s)' /\ TurnInv(s)'
         /\ \A s : Taken(s)' = Taken(s)
         /\ \A c \in Deliveries : delivery'[c].pc = "plan" => c # d /\ delivery'[c] = delivery[c]
<1>0. TypeOK /\ HappenedInv /\ LinkInv /\ WebhookInv  BY DEF BillingInv, FollowInv
<1>1. /\ delivery'[d].pc = "idle" /\ \A c \in Deliveries \ {d} : delivery'[c] = delivery[c]
  BY <1>0, WaitingIsIdle DEF Return, TypeOK
<1>2. \A c \in Deliveries : Busy(c)' => c # d /\ Busy(c) /\ delivery'[c] = delivery[c]
  BY <1>1 DEF Busy
<1>3. \A s : Sent(s)' = Sent(s) /\ Taken(s)' = Taken(s)  BY DEF Sent, Taken
<1>4. HappenedInv'
  <2>1. \A f \in unanswered' \cup claimed' : f.kind \in Sent(f.sub)
    BY <1>0 DEF HappenedInv, Answered
  <2>2. \A f \in unanswered' \cup claimed' : f.kind \in Sent(f.sub)'  BY <1>3, <2>1 DEF Sent
  <2>3. \A c \in Deliveries : Busy(c)' =>
          delivery'[c].event \notin finished' /\ Acts(delivery'[c].event.kind)
    BY <1>0, <1>2 DEF HappenedInv, WebhookInv
  <2>4. finished' \subseteq claimed'  BY <1>0 DEF HappenedInv, WebhookInv
  <2> QED  BY <2>2, <2>3, <2>4 DEF HappenedInv, Sent
<1>5. LinkInv'  BY <1>0, LinkFrame DEF BuyersStay, Saving
<1>6. \A s \in Subs : RankInv(s)' /\ TurnInv(s)'
  BY <1>0, <1>3, TurnFrame DEF FollowInv, RankInv
<1>7. \A c \in Deliveries : delivery'[c].pc = "plan" => c # d /\ delivery'[c] = delivery[c]
  BY <1>1
<1> QED  BY <1>3, <1>4, <1>5, <1>6, <1>7

LEMMA UpdateFollows ==
  ASSUME BillingInv, FollowInv, NEW d \in Deliveries, UpdateSubscription(d)
  PROVE  FollowInv'
<1> DEFINE e == delivery[d].event
<1>0. /\ TypeOK /\ WebhookInv /\ HappenedInv /\ LinkInv /\ delivery[d].pc = "update" /\ Busy(d)
      /\ UNCHANGED <<users, raced, claimed, buyer, linked, sent, tab, spent, orderly>>
  BY DEF BillingInv, FollowInv, UpdateSubscription, Busy
<1>1. /\ e \in Event /\ e.sub \in Subs /\ e.kind \in Kinds /\ e = Ev(e.sub, e.kind)
      /\ e.kind \in Taken(e.sub) /\ e \notin finished
  BY <1>0, UnderWay
<1>2. PICK s \in Subs : s = e.sub  BY <1>1
<1>3. CASE Holders(e.sub) = {} /\ Answered(e) /\ Return(d) /\ finished' = finished \cup {e}
           /\ UNCHANGED subscriptions
  <2>1. /\ HappenedInv' /\ LinkInv' /\ \A r \in Subs : RankInv(r)' /\ TurnInv(r)'
        /\ \A r : Taken(r)' = Taken(r)
        /\ \A c \in Deliveries : delivery'[c].pc = "plan" => c # d /\ delivery'[c] = delivery[c]
    BY <1>0, <1>3, EndsFollows
  <2>2. \A i \in Ids : ~RowIs(i, s)  BY <1>2, <1>3 DEF Holders, RowIs
  <2>3. ASSUME NEW i \in Ids, NEW r \in Subs PROVE RowInv(i, r)'
    <3>1. CASE r = s  BY <1>3, <2>2, <3>1 DEF RowInv, RowIs
    <3>2. CASE r # s
      <4>1. \A k : Ev(r, k) # e  BY <1>2, <3>2 DEF Ev
      <4>2. RowInv(i, r)  BY DEF FollowInv
      <4> QED  BY <1>0, <1>3, <2>1, <4>1, <4>2, RowFrame
    <3> QED  BY <3>1, <3>2
  <2> QED  BY <2>1, <2>3 DEF FollowInv
<1>4. CASE \E i \in Holders(e.sub) :
          /\ subscriptions' = [subscriptions EXCEPT
               ![i] = [sub |-> e.sub, plan |-> PlanFor(e), status |-> StatusFor(e.kind),
                       period |-> e.kind \in ActiveEvents]]
          /\ delivery' = [delivery EXCEPT ![d].pc = "plan", ![d].user = i]
          /\ UNCHANGED <<unanswered, finished>>
  <2>1. PICK i \in Holders(e.sub) :
          /\ subscriptions' = [subscriptions EXCEPT
               ![i] = [sub |-> e.sub, plan |-> PlanFor(e), status |-> StatusFor(e.kind),
                       period |-> e.kind \in ActiveEvents]]
          /\ delivery' = [delivery EXCEPT ![d].pc = "plan", ![d].user = i]
          /\ UNCHANGED <<unanswered, finished>>
    BY <1>4
  <2>2. i \in Ids /\ RowIs(i, s) /\ buyer[s] = i
    BY <1>2 DEF Holders, BillingInv, BuyerInv, RowIs
  <2>3. /\ subscriptions'[i].sub = s /\ subscriptions'[i].plan = PlanFor(e)
        /\ \A j \in Ids \ {i} : subscriptions'[j] = subscriptions[j]
    BY <1>0, <1>2, <2>1, <2>2 DEF TypeOK
  <2>4. /\ delivery'[d].event = e /\ \A c \in Deliveries \ {d} : delivery'[c] = delivery[c]
    BY <1>0, <2>1 DEF TypeOK
  <2>5. \A c \in Deliveries : Busy(c)' => Busy(c) /\ delivery'[c].event = delivery[c].event
    BY <1>0, <2>4 DEF Busy
  <2>6. \A r : Sent(r)' = Sent(r) /\ Taken(r)' = Taken(r)  BY <1>0 DEF Sent, Taken
  <2> HIDE DEF e
  <2>7. HappenedInv' /\ LinkInv'
    BY <1>0, <2>1, <2>5, HappenedFrame, LinkFrame DEF BuyersStay, Saving
  <2>8. \A r \in Subs : RankInv(r)' /\ TurnInv(r)'
    BY <1>0, <2>1, <2>6, TurnFrame DEF FollowInv, RankInv
  <2>9. ASSUME NEW j \in Ids, NEW r \in Subs PROVE RowInv(j, r)'
    <3>1. CASE j # i
      <4>1. \A c \in Deliveries : delivery'[c].pc = "plan" /\ buyer'[delivery'[c].event.sub] = j =>
              delivery[c].pc = "plan" /\ delivery'[c].event = delivery[c].event
                /\ buyer[delivery[c].event.sub] = j
        BY <1>0, <1>2, <2>2, <2>4, <3>1
      <4>2. RowInv(j, r)  BY DEF FollowInv
      <4> QED  BY <1>0, <2>1, <2>3, <2>6, <3>1, <4>1, <4>2, RowFrame
    <3>2. CASE j = i /\ r # s  BY <2>3, <3>2 DEF RowInv, RowIs
    <3>3. CASE j = i /\ r = s /\ orderly[i]
      <4>1. HalfWay(i, s)
        BY <2>2, <3>3 DEF FollowInv, RowInv
      <4>2. ASSUME NEW c \in Deliveries, delivery'[c].pc = "plan", buyer'[delivery'[c].event.sub] = i
            PROVE  IF delivery'[c].event.sub = s
                   THEN subscriptions'[i].plan = PlanFor(delivery'[c].event)
                   ELSE Taken(s) = {}
        <5>1. CASE c = d  BY <1>2, <2>3, <2>4, <5>1
        <5>2. CASE c # d
          <6>1. delivery'[c] = delivery[c] /\ Busy(c)  BY <2>4, <4>2, <5>2 DEF Busy
          <6>2. CASE delivery[c].event.sub = s
            <7>1. /\ delivery[c].event = Ev(s, delivery[c].event.kind)
                  /\ delivery[c].event.kind \in Taken(s) /\ delivery[c].event \notin finished
              BY <6>1, <6>2, UnderWay
            <7>2. delivery[c].event # e  BY <1>0, <5>2, <6>1 DEF WebhookInv, e
            <7>3. delivery[c].event.kind # e.kind  BY <1>1, <1>2, <7>1, <7>2
            <7> QED  BY <1>0, <1>2, <2>2, <3>3, <7>1, <7>3, NewestUnderWay DEF e
          <6>3. CASE delivery[c].event.sub # s
            BY <1>0, <4>1, <4>2, <6>1, <6>3 DEF HalfWay
          <6> QED  BY <6>2, <6>3
        <5> QED  BY <5>1, <5>2
      <4>3. HalfWay(i, s)'  BY <2>6, <4>2 DEF HalfWay, PlanFor
      <4>4. BothAgree(i, s)'
        BY <1>1, <1>2, <2>1, <2>6 DEF BothAgree, TakenAreOver
      <4> QED  BY <3>3, <4>3, <4>4 DEF RowInv
    <3>4. CASE ~orderly[i] /\ j = i  BY <1>0, <3>4 DEF RowInv
    <3> QED  BY <3>1, <3>2, <3>3, <3>4
  <2> QED  BY <2>7, <2>8, <2>9 DEF FollowInv
<1> QED  BY <1>3, <1>4 DEF UpdateSubscription

LEMMA SetPlanFollows ==
  ASSUME BillingInv, FollowInv, NEW d \in Deliveries, SetUserPlan(d)
  PROVE  FollowInv'
<1> DEFINE e == delivery[d].event
<1>0. /\ TypeOK /\ WebhookInv /\ HappenedInv /\ LinkInv /\ delivery[d].pc = "plan" /\ Busy(d)
      /\ UNCHANGED <<raced, subscriptions, claimed, buyer, linked, sent, tab, orderly>>
      /\ Answered(e) /\ Return(d) /\ finished' = finished \cup {e}
  BY DEF BillingInv, FollowInv, SetUserPlan, Busy
<1>1. /\ e \in Event /\ e.sub \in Subs /\ e.kind \in Kinds /\ e = Ev(e.sub, e.kind)
      /\ e.kind \in Taken(e.sub) /\ e \notin finished
  BY <1>0, UnderWay
<1>2. PICK i \in Ids : /\ i = buyer[e.sub] /\ users'[i].plan = PlanFor(e)
                       /\ \A j \in Ids \ {i} : users'[j] = users[j]
  BY PlanFacts
<1>3. /\ HappenedInv' /\ LinkInv' /\ \A r \in Subs : RankInv(r)' /\ TurnInv(r)'
      /\ \A r : Taken(r)' = Taken(r)
      /\ \A c \in Deliveries : delivery'[c].pc = "plan" => c # d /\ delivery'[c] = delivery[c]
  BY <1>0, EndsFollows
<1>4. ASSUME NEW j \in Ids, NEW s \in Subs PROVE RowInv(j, s)'
  <2>0. RowInv(j, s)  BY DEF FollowInv
  <2>1. CASE j # i
    <3>1. RowIs(j, s) => e.sub # s  BY <1>2, <2>1 DEF BillingInv, BuyerInv, RowIs
    <3>2. CASE RowIs(j, s)
      <4>1. \A k : Ev(s, k) # e  BY <3>1, <3>2 DEF Ev
      <4> QED  BY <1>0, <1>2, <1>3, <2>0, <2>1, <4>1, RowFrame
    <3>3. CASE ~RowIs(j, s)  BY <1>0, <3>3 DEF RowInv, RowIs
    <3> QED  BY <3>2, <3>3
  <2>2. CASE j = i /\ RowIs(i, s) /\ orderly[i]
    <3>1. HalfWay(i, s)  BY <2>0, <2>2 DEF RowInv
    <3>2. HalfWay(i, s)'  BY <1>0, <1>3, <3>1 DEF HalfWay, PlanFor
    <3>3. BothAgree(i, s)'
      <4>1. CASE e.sub = s
        <5>1. subscriptions[i].plan = PlanFor(e)  BY <1>0, <1>2, <3>1, <4>1 DEF HalfWay
        <5> SUFFICES ASSUME NEW k \in Kinds, Newest(s, k)' PROVE k = e.kind
          BY <1>0, <1>1, <1>2, <4>1, <5>1 DEF BothAgree, PlanFor
        <5>2. k \in Taken(s) /\ Rank(e.kind) <= Rank(k)
          BY <1>1, <1>3, <4>1 DEF Newest
        <5>3. k # e.kind => Rank(k) < Rank(e.kind)
          BY <1>0, <1>2, <2>2, <4>1, <5>2, NewestUnderWay
        <5>4. Rank(k) \in Nat /\ Rank(e.kind) \in Nat  BY RankRange
        <5> HIDE DEF Rank, e
        <5> QED  BY <5>2, <5>3, <5>4
      <4>2. CASE e.sub # s
        <5>1. Taken(s) = {}  BY <1>0, <1>2, <3>1, <4>2 DEF HalfWay
        <5> QED  BY <1>3, <5>1 DEF BothAgree, Newest
      <4> QED  BY <4>1, <4>2
    <3> QED  BY <2>2, <3>2, <3>3 DEF RowInv
  <2>3. CASE j = i /\ ~(RowIs(i, s) /\ orderly[i])  BY <1>0, <2>3 DEF RowInv, RowIs
  <2> QED  BY <2>1, <2>2, <2>3
<1> QED  BY <1>3, <1>4 DEF FollowInv

LEMMA WebhookFailsFollows ==
  ASSUME BillingInv, FollowInv, NEW d \in Deliveries, WebhookFails(d)
  PROVE  FollowInv'
<1>1. UNCHANGED <<users, subscriptions, claimed, buyer, linked, sent, unanswered, tab, finished, orderly>>
  BY DEF WebhookFails, tables, provider, ghosts
<1>2. \A c \in Deliveries : ~Busy(c)' \/ delivery'[c] = delivery[c]
  BY WaitingIsIdle DEF WebhookFails, Return, Busy, BillingInv, TypeOK
<1>3. LinkInv'  BY <1>1, LinkFrame DEF BillingInv, FollowInv, BuyersStay, Saving
<1> QED  BY <1>1, <1>2, <1>3, CalmStep

LEMMA FollowInvInit == Init => FollowInv
<1> SUFFICES ASSUME Init PROVE FollowInv  OBVIOUS
<1>1. \A s \in Subs : Sent(s) = {} /\ Len(sent[s]) = 0  BY DEF Init, Sent
<1>2. HappenedInv  BY WaitingIsIdle DEF Init, HappenedInv, Busy
<1>3. LinkInv
  <2>1. \A t \in Tabs : tab[t].pc = "out"  BY DEF Init
  <2> QED  BY <2>1 DEF Init, LinkInv, Saving
<1>4. \A s \in Subs : RankInv(s) /\ TurnInv(s)  BY <1>1 DEF RankInv, TurnInv
<1>5. \A i \in Ids, s \in Subs : RowInv(i, s)  BY DEF Init, RowInv, RowIs
<1> QED  BY <1>2, <1>3, <1>4, <1>5 DEF FollowInv

LEMMA FollowInvStep == BillingInv /\ BillingInv' /\ FollowInv /\ [Next]_vars => FollowInv'
<1> SUFFICES ASSUME BillingInv, BillingInv', FollowInv, [Next]_vars PROVE FollowInv'  OBVIOUS
<1>1. CASE UNCHANGED vars \/ IdsUsedUp
  <2>1. UNCHANGED <<users, subscriptions, claimed, buyer, linked, sent, unanswered, tab, delivery,
                    finished, orderly>>
    BY <1>1 DEF vars, IdsUsedUp, tables, provider, ghosts
  <2>2. LinkInv'  BY <2>1, LinkFrame DEF BillingInv, FollowInv, BuyersStay, Saving
  <2> QED  BY <2>1, <2>2, CalmStep
<1>2. ASSUME NEW t \in Tabs, TabStep(t) PROVE FollowInv'
  BY <1>2, SignInFollows, CreateFollows, UpsertFollows, SaveFollows, CheckoutFailsFollows DEF TabStep
<1>3. ASSUME NEW s \in Subs, NEW k \in Kinds, Happen(s, k) PROVE FollowInv'  BY <1>3, HappenFollows
<1>4. ASSUME NEW d \in Deliveries, WebhookStep(d) \/ WebhookFails(d) PROVE FollowInv'
  BY <1>4, ClaimFollows, UpdateFollows, SetPlanFollows, WebhookFailsFollows DEF WebhookStep
<1> QED  BY <1>1, <1>2, <1>3, <1>4 DEF Next

LEMMA FollowsProvider == BillingInv /\ FollowInv => PlanFollowsProvider
<1> SUFFICES ASSUME BillingInv, FollowInv, NEW i \in Ids, subscriptions[i] # NoRow, orderly[i],
                    NEW s, s = subscriptions[i].sub, AllFinished(s),
                    NEW n \in 1..Len(sent[s]), Decides(s, n)
             PROVE  LET plan == IF sent[s][n] \in ActiveEvents THEN "pro" ELSE "free" IN
                    users[i].plan = plan /\ subscriptions[i].plan = plan
  BY DEF PlanFollowsProvider
<1> DEFINE k == sent[s][n]
<1>0. TypeOK /\ HappenedInv  BY DEF BillingInv, FollowInv
<1>1. s \in Subs  BY <1>0 DEF TypeOK, Row
<1>2. RowIs(i, s) /\ BothAgree(i, s) /\ RankInv(s)  BY <1>1 DEF FollowInv, RowInv, RowIs
<1>3. k \in Kinds /\ Len(sent[s]) \in Nat  BY <1>0, <1>1, SentFacts DEF Sent
<1>4. k \in Taken(s)  BY <1>0, <1>3 DEF Decides, AllFinished, HappenedInv, Taken, Ev
<1>5. TakenAreOver(s)
  <2>1. \A l \in Taken(s) : l \in Sent(s)  BY <1>0, <1>1, TakenHappened
  <2> QED  BY <2>1 DEF TakenAreOver, Sent, AllFinished, Ev
<1>6. ASSUME NEW l \in Taken(s) PROVE Rank(l) <= Rank(k)
  <2>1. l \in Sent(s) /\ Acts(l)  BY <1>0, <1>1, TakenHappened DEF Taken
  <2>2. PICK m \in 1..Len(sent[s]) : l = sent[s][m]  BY <2>1 DEF Sent
  <2>3. m \notin (n + 1)..Len(sent[s])  BY <2>1, <2>2 DEF Decides
  <2>4. m = n \/ m < n  BY <1>3, <2>3
  <2>5. l = k \/ Rank(l) < Rank(k)  BY <1>2, <2>2, <2>4 DEF RankInv
  <2>6. Rank(l) \in Nat /\ Rank(k) \in Nat  BY RankRange
  <2> HIDE DEF Rank, k
  <2> QED  BY <2>5, <2>6
<1>7. users[i].plan = PlanFor(Ev(s, k)) /\ subscriptions[i].plan = PlanFor(Ev(s, k))
  <2> HIDE DEF k
  <2> QED  BY <1>2, <1>3, <1>4, <1>5, <1>6 DEF BothAgree, Newest
<1> QED  BY <1>7 DEF PlanFor, Ev

(* With a user's events handled one by one and in order, both tables have  *)
(* the plan of the last event Razorpay sent that calls for one, however    *)
(* many tabs, subscriptions and requests there are, and whatever failed,   *)
(* was sent again or was replaced by a later checkout (applyPlan).         *)
THEOREM FollowsTheorem == Spec => []PlanFollowsProvider
BY BillingInvInit, BillingInvStep, FollowInvInit, FollowInvStep, FollowsProvider, PTL DEF Spec
=============================================================================
