--------------------------- MODULE GmailLabelsProofs ---------------------------
(***************************************************************************)
(* For any number of mailboxes, tabs, connections, labels and calls, and   *)
(* every fault: the callback saves a connection the user granted, its own  *)
(* where no other flow overtook it, and an id that was learnt stands for   *)
(* its name in the mailbox it was learnt from.                             *)
(***************************************************************************)
EXTENDS GmailLabels, FiniteSetTheorems, TLAPS

(* The least and the greatest of the numbers that Gmail and Composio give. *)
LEMMA HasLeast ==
  ASSUME NEW N \in Nat, NEW T \in SUBSET (0..N), T # {}
  PROVE  \E x \in T : \A y \in T : x <= y
<1> DEFINE R == StrictSubsetOrdering(0..N)
           P == {0..x : x \in T}
<1>1. IsWellFoundedOn(R, FiniteSubsetsOf(0..N))
  BY FS_StrictSubsetOrderingWellFounded
<1>3. \A x \in T : 0..x \in SUBSET (0..N)
  OBVIOUS
<1>a. \A x \in T : 0..x \in FiniteSubsetsOf(0..N)
  <2> TAKE x \in T
  <2>1. IsFiniteSet(0..x)
    BY FS_Interval
  <2> QED  BY <1>3, <2>1 DEF FiniteSubsetsOf
<1>4. P \subseteq FiniteSubsetsOf(0..N) /\ P # {}
  BY <1>a
<1>5. PICK p \in P : \A q \in P : <<q, p>> \notin R
  BY <1>1, <1>4, WFMin
<1>6. PICK x \in T : p = 0..x
  BY <1>5
<1>7. ASSUME NEW y \in T PROVE x <= y
  <2>1. <<0..y, 0..x>> \notin R
    BY <1>5, <1>6
  <2>2. 0..y \in SUBSET (0..N) /\ 0..x \in SUBSET (0..N)
    BY <1>3
  <2>3. ~(0..y \subseteq 0..x) \/ 0..y = 0..x
    BY <2>1, <2>2 DEF StrictSubsetOrdering
  <2>4. x \in Nat /\ y \in Nat
    OBVIOUS
  <2>5. SUFFICES ASSUME y < x PROVE FALSE
    BY <2>4
  <2>6. 0..y \subseteq 0..x /\ x \in 0..x /\ x \notin 0..y
    BY <2>4, <2>5
  <2> QED  BY <2>3, <2>6
<1> QED  BY <1>7

LEMMA LeastIsOne ==
  ASSUME NEW N \in Nat, NEW T \in SUBSET (0..N), T # {}
  PROVE  Min(T) \in T
BY HasLeast DEF Min

LEMMA GreatestIsOne ==
  ASSUME NEW N \in Nat, NEW T \in SUBSET (0..N), T # {}
  PROVE  /\ Max(T) \in T
         /\ \A x \in T : x <= Max(T)
<1> DEFINE below == {N - x : x \in T}
<1>a. \A x \in T : x \in 0..N
  OBVIOUS
<1>b. \A x \in T : N - x \in 0..N
  BY <1>a
<1>1. below \in SUBSET (0..N)
  BY <1>b
<1>2. PICK z \in T : TRUE
  OBVIOUS
<1>3. below # {}
  BY <1>2
<1>4. PICK b \in below : \A y \in below : b <= y
  BY <1>1, <1>3, HasLeast
<1>5. PICK x \in T : b = N - x
  BY <1>4
<1>6. ASSUME NEW y \in T PROVE x >= y
  <2>1. N - x <= N - y
    BY <1>4, <1>5
  <2>2. x \in Nat /\ y \in Nat
    BY <1>a
  <2> QED  BY <2>1, <2>2
<1> HIDE DEF below
<1>7. \E w \in T : \A y \in T : w >= y
  BY <1>6
<1>8. Max(T) \in T /\ \A y \in T : Max(T) >= y
  BY <1>7 DEF Max
<1> QED
  <2>1. PICK g \in T : g = Max(T)
    BY <1>8
  <2>2. g \in Nat
    BY <1>a
  <2>3. ASSUME NEW y \in T PROVE y <= g
    <3>1. y \in Nat /\ g >= y
      BY <1>8, <1>a, <2>1
    <3> QED  BY <2>2, <3>1
  <2> QED  BY <2>1, <2>3

-----------------------------------------------------------------------------
(* Connections are begun one after the other, and one that is active is    *)
(* that of a mailbox.                                                      *)
BegunInOrder ==
  \A c, d \in Connections :
    d < c /\ connection[c].state # "none" => connection[d].state # "none"

Granted ==
  \A c \in Connections : connection[c].state = "active" => connection[c].mailbox \in Mailboxes

IsActive(c) == c \in Connections /\ connection[c].state = "active"

(* Where the flow of a tab stands, its own connection and the one found    *)
(* are where they should be.                                               *)
OwnInv(t) ==
  /\ FlowAt(t, "consent") =>
       flow[t].own \in Connections /\ connection[flow[t].own].state = "initiated"
  /\ flow[t].pc \in {"list", "resolve", "save"} => IsActive(flow[t].own)

FoundInv(t) ==
  /\ flow[t].pc \in {"resolve", "save"} => IsActive(flow[t].found)
  /\ FlowAt(t, "save") => flow[t].address \in {connection[flow[t].found].mailbox, NoMailbox}

(* While no other flow is begun, that connection is the newest of all.     *)
NewestInv(t) ==
  InFlow(t) /\ t \notin overtaken =>
    /\ \A c \in Connections : connection[c].state # "none" => c <= flow[t].own
    /\ flow[t].pc \in {"resolve", "save"} => flow[t].found = flow[t].own

OwnApart ==
  \A t, u \in Tabs :
    FlowAt(t, "consent") /\ FlowAt(u, "consent") /\ t # u => flow[t].own # flow[u].own

FlowInv ==
  /\ BegunInOrder
  /\ Granted
  /\ \A t \in Tabs : OwnInv(t) /\ FoundInv(t) /\ NewestInv(t)
  /\ OwnApart

AccountInv == AccountTypeOK /\ FlowInv /\ AddressIsTheMailbox

Call == [pc : {"idle", "find", "create", "modify"}, mailbox : Mailboxes \cup {NoMailbox},
         name : Names \cup {NoName}, id : 0..MaxLabels, from : Mailboxes \cup {NoMailbox}]
Applied == [mailbox : Mailboxes, name : Names, got : Names, from : Mailboxes]

LabelTypeOK ==
  /\ labels \in [Mailboxes -> [LabelIds -> Names \cup {NoName}]]
  /\ cache \in [Names -> 0..MaxLabels]
  /\ source \in [Names -> Mailboxes \cup {NoMailbox}]
  /\ deleted \subseteq Names
  /\ call \in [Calls -> Call]
  /\ applied \in Applied \cup {NoLabel}

(* An id that was remembered or handed to a call is that of the name, in   *)
(* the mailbox it was read from, until a label of that name is deleted.    *)
CacheInv(n) ==
  cache[n] # 0 =>
    /\ source[n] \in Mailboxes
    /\ n \notin deleted => labels[source[n]][cache[n]] = n

CallInv(k) ==
  /\ ~CallAt(k, "idle") => call[k].mailbox \in Mailboxes /\ call[k].name \in Names
  /\ CallAt(k, "modify") =>
       /\ call[k].id \in LabelIds
       /\ call[k].from \in Mailboxes
       /\ call[k].name \notin deleted => labels[call[k].from][call[k].id] = call[k].name

LabelInv ==
  /\ LabelTypeOK
  /\ \A n \in Names : CacheInv(n)
  /\ \A k \in Calls : CallInv(k)
  /\ WrongLabelIsForeign

Inv == AccountInv /\ LabelInv

-----------------------------------------------------------------------------
(* The next connection is one nobody has begun, and newer than all begun.  *)
Begun == {c \in Connections : connection[c].state # "none"}

LEMMA BegunIsFirst ==
  ASSUME AccountTypeOK, BegunInOrder
  PROVE  \E n \in 0..MaxConnections : Begun = 1..n
<1>0. MaxConnections \in Nat
  BY GmailAccountsAssumption
<1>1. Begun \in SUBSET (0..MaxConnections)
  BY <1>0 DEF Begun, Connections
<1>2. CASE Begun = {}
  <2>1. Begun = 1..0 /\ 0 \in 0..MaxConnections
    BY <1>0, <1>2
  <2> QED  BY <2>1
<1>3. CASE Begun # {}
  <2>1. PICK g \in Begun : \A c \in Begun : c <= g
    BY <1>0, <1>1, <1>3, GreatestIsOne
  <2>2. g \in Connections /\ connection[g].state # "none"
    BY <2>1 DEF Begun
  <2>3. \A c \in Connections : c < g => c \in Begun
    BY <2>2 DEF Begun, BegunInOrder
  <2>4. ASSUME NEW c \in Connections PROVE c \in Begun <=> c <= g
    <3>1. c <= g <=> c < g \/ c = g
      BY <2>2, <1>0 DEF Connections
    <3> QED  BY <2>1, <2>3, <3>1
  <2>5. \A c \in Begun : c \in Connections
    BY DEF Begun
  <2>6. \A c \in 1..g : c \in Connections
    BY <2>2, <1>0 DEF Connections
  <2>7. \A c \in Connections : c <= g <=> c \in 1..g
    BY <2>2, <1>0 DEF Connections
  <2>8. Begun = 1..g
    BY <2>4, <2>5, <2>6, <2>7
  <2> QED  BY <2>2, <2>8, <1>0 DEF Connections
<1> QED  BY <1>2, <1>3

LEMMA NextIsNew ==
  ASSUME AccountTypeOK, BegunInOrder,
         NEW c \in Connections, c = Cardinality(Begun) + 1
  PROVE  /\ connection[c].state = "none"
         /\ \A d \in Connections : connection[d].state # "none" <=> d < c
<1>1. PICK n \in 0..MaxConnections : Begun = 1..n
  BY BegunIsFirst
<1>2. n \in Nat
  BY <1>1, GmailAccountsAssumption
<1>3. Cardinality(1..n) = n
  BY <1>2, FS_Interval
<1>4. c = n + 1
  BY <1>1, <1>3
<1>5. \A d \in Connections : d \in Begun <=> d < c
  BY <1>1, <1>2, <1>4, GmailAccountsAssumption DEF Connections
<1>6. c \notin Begun
  BY <1>1, <1>2, <1>4
<1> QED  BY <1>5, <1>6 DEF Begun

(* The connection the callback takes is an active one, the newest.         *)
LEMMA LatestIsNewest ==
  ASSUME NEW c, IsActive(c)
  PROVE  /\ IsActive(LatestConnection)
         /\ c <= LatestConnection
<1>0. MaxConnections \in Nat
  BY GmailAccountsAssumption
<1>1. ActiveConnections \in SUBSET (0..MaxConnections)
  BY <1>0 DEF ActiveConnections, Connections
<1>2. c \in ActiveConnections
  BY DEF IsActive, ActiveConnections
<1>3. /\ Max(ActiveConnections) \in ActiveConnections
      /\ \A x \in ActiveConnections : x <= Max(ActiveConnections)
  BY <1>0, <1>1, <1>2, GreatestIsOne
<1>4. /\ LatestConnection \in ActiveConnections
      /\ c <= LatestConnection
  BY <1>2, <1>3 DEF LatestConnection
<1>5. \A x \in ActiveConnections : IsActive(x)
  BY DEF IsActive, ActiveConnections
<1> QED  BY <1>4, <1>5

(* A step that leaves the connections alone and takes one tab elsewhere    *)
(* keeps the rest.                                                         *)
LEMMA TabMoves ==
  ASSUME AccountInv, NEW t \in Tabs, NEW f \in Flow,
         flow' = [flow EXCEPT ![t] = f],
         connection' = connection, overtaken' = overtaken,
         f.pc # "consent",
         OwnInv(t)', FoundInv(t)', NewestInv(t)'
  PROVE  FlowInv'
<1>1. flow'[t] = f /\ \A u \in Tabs : u # t => flow'[u] = flow[u]
  BY DEF AccountInv, AccountTypeOK
<1>2. BegunInOrder' /\ Granted'
  BY DEF AccountInv, FlowInv, BegunInOrder, Granted
<1>3. ASSUME NEW u \in Tabs PROVE OwnInv(u)' /\ FoundInv(u)' /\ NewestInv(u)'
  <2>1. CASE u = t
    BY <2>1
  <2>2. CASE u # t
    <3>1. flow'[u] = flow[u]
      BY <1>1, <2>2
    <3>2. OwnInv(u) /\ FoundInv(u) /\ NewestInv(u)
      BY DEF AccountInv, FlowInv
    <3>3. OwnInv(u)'
      BY <3>1, <3>2 DEF OwnInv, FlowAt, IsActive
    <3>4. FoundInv(u)'
      BY <3>1, <3>2 DEF FoundInv, FlowAt, IsActive
    <3>5. NewestInv(u)'
      BY <3>1, <3>2 DEF NewestInv, InFlow, FlowAt
    <3> QED  BY <3>3, <3>4, <3>5
  <2> QED  BY <2>1, <2>2
<1>4. OwnApart'
  <2> SUFFICES ASSUME NEW u \in Tabs, NEW v \in Tabs,
                      flow'[u].pc = "consent", flow'[v].pc = "consent", u # v
               PROVE  flow'[u].own # flow'[v].own
    BY DEF OwnApart, FlowAt
  <2>1. flow'[u] = flow[u] /\ flow'[v] = flow[v]
    BY <1>1
  <2> QED  BY <2>1 DEF AccountInv, FlowInv, OwnApart, FlowAt
<1> QED  BY <1>2, <1>3, <1>4 DEF FlowInv

-----------------------------------------------------------------------------
(* The steps of the accounts.                                              *)
LEMMA InitiateKeeps ==
  ASSUME AccountInv, NEW t \in Tabs, Initiate(t)
  PROVE  AccountInv'
<1>0. MaxConnections \in Nat
  BY GmailAccountsAssumption
<1>1. PICK c \in Connections : c = Cardinality(Begun) + 1
  BY DEF Initiate, Begun
<1>2. /\ FlowAt(t, "page")
      /\ connection' = [connection EXCEPT ![c].state = "initiated"]
      /\ flow' = [flow EXCEPT ![t].pc = "consent", ![t].own = c]
      /\ overtaken' = (overtaken \ {t}) \cup {u \in Tabs \ {t} : InFlow(u)}
      /\ account' = account
  BY <1>1 DEF Initiate, Begun
<1>3. /\ connection[c].state = "none"
      /\ \A d \in Connections : connection[d].state # "none" <=> d < c
  BY <1>1, NextIsNew DEF AccountInv, FlowInv
<1>4. /\ connection'[c].state = "initiated" /\ connection'[c].mailbox = connection[c].mailbox
      /\ \A d \in Connections : d # c => connection'[d] = connection[d]
  BY <1>2 DEF AccountInv, AccountTypeOK
<1>5. /\ flow'[t].pc = "consent" /\ flow'[t].own = c
      /\ \A u \in Tabs : u # t => flow'[u] = flow[u]
  BY <1>2 DEF AccountInv, AccountTypeOK, Flow
<1>6. AccountTypeOK'
  <2>1. connection' \in [Connections -> [state : {"none", "initiated", "active"},
                                         mailbox : Mailboxes \cup {NoMailbox}]]
    BY <1>2 DEF AccountInv, AccountTypeOK
  <2>2. c \in 0..MaxConnections
    BY <1>0 DEF Connections
  <2>3. flow' \in [Tabs -> Flow]
    BY <1>2, <2>2 DEF AccountInv, AccountTypeOK, Flow
  <2>4. overtaken' \subseteq Tabs /\ account' \in [Connections -> Account \cup {NoAccount}]
    BY <1>2 DEF AccountInv, AccountTypeOK
  <2> QED  BY <2>1, <2>3, <2>4 DEF AccountTypeOK
<1>7. BegunInOrder'
  <2>1. \A d \in Connections : connection'[d].state # "none" <=> d <= c
    BY <1>3, <1>4, <1>0 DEF Connections
  <2> QED  BY <2>1, <1>0 DEF BegunInOrder, Connections
<1>8. Granted'
  BY <1>4 DEF AccountInv, FlowInv, Granted
<1>9. \A d : IsActive(d) => IsActive(d)' /\ connection'[d] = connection[d]
  BY <1>3, <1>4 DEF IsActive
<1>10. ASSUME NEW u \in Tabs PROVE OwnInv(u)' /\ FoundInv(u)' /\ NewestInv(u)'
  <2>0. OwnInv(u) /\ FoundInv(u) /\ NewestInv(u)
    BY DEF AccountInv, FlowInv
  <2>1. CASE u = t
    <3>1. OwnInv(u)' /\ FoundInv(u)'
      BY <1>4, <1>5, <2>1 DEF OwnInv, FoundInv, FlowAt
    <3>2. \A d \in Connections : connection'[d].state # "none" => d <= c
      BY <1>3, <1>4, <1>0 DEF Connections
    <3>3. NewestInv(u)'
      BY <1>5, <2>1, <3>2 DEF NewestInv
    <3> QED  BY <3>1, <3>3
  <2>2. CASE u # t
    <3>1. flow'[u] = flow[u]
      BY <1>5, <2>2
    <3>2. OwnInv(u)'
      BY <1>3, <1>4, <1>9, <2>0, <3>1 DEF OwnInv, FlowAt
    <3>3. FoundInv(u)'
      <4>1. flow[u].pc \in {"resolve", "save"} => IsActive(flow[u].found)
        BY <2>0 DEF FoundInv
      <4> QED  BY <1>9, <2>0, <3>1, <4>1 DEF FoundInv, FlowAt
    <3>4. InFlow(u)' => u \in overtaken'
      BY <1>2, <2>2, <3>1 DEF InFlow, FlowAt
    <3> QED  BY <3>2, <3>3, <3>4 DEF NewestInv
  <2> QED  BY <2>1, <2>2
<1>11. OwnApart'
  <2> SUFFICES ASSUME NEW u \in Tabs, NEW v \in Tabs,
                      flow'[u].pc = "consent", flow'[v].pc = "consent", u # v
               PROVE  flow'[u].own # flow'[v].own
    BY DEF OwnApart, FlowAt
  <2>1. \A w \in Tabs : w # t /\ flow'[w].pc = "consent" => flow'[w].own # c
    <3> TAKE w \in Tabs
    <3> HAVE w # t /\ flow'[w].pc = "consent"
    <3>1. flow'[w] = flow[w] /\ OwnInv(w)
      BY <1>5 DEF AccountInv, FlowInv
    <3> QED  BY <1>3, <3>1 DEF OwnInv, FlowAt
  <2>2. CASE u # t /\ v # t
    <3>1. flow'[u] = flow[u] /\ flow'[v] = flow[v]
      BY <1>5, <2>2
    <3> QED  BY <3>1 DEF AccountInv, FlowInv, OwnApart, FlowAt
  <2> QED  BY <1>5, <2>1, <2>2
<1>12. AddressIsTheMailbox'
  <2> SUFFICES ASSUME NEW d \in Connections, account[d] # NoAccount
               PROVE  /\ connection'[d].state = "active"
                      /\ account[d].address \in {connection'[d].mailbox, NoMailbox}
    BY <1>2 DEF AddressIsTheMailbox, HasAccount
  <2>1. connection[d].state = "active" /\ account[d].address \in {connection[d].mailbox, NoMailbox}
    BY DEF AccountInv, AddressIsTheMailbox, HasAccount
  <2> QED  BY <1>3, <1>4, <2>1
<1> QED  BY <1>6, <1>7, <1>8, <1>10, <1>11, <1>12 DEF AccountInv, FlowInv

LEMMA AuthoriseKeeps ==
  ASSUME AccountInv, NEW t \in Tabs, NEW m \in Mailboxes, Authorise(t, m)
  PROVE  AccountInv'
<1>1. /\ FlowAt(t, "consent")
      /\ connection' = [connection EXCEPT ![flow[t].own] = [state |-> "active", mailbox |-> m]]
      /\ flow' = [flow EXCEPT ![t].pc = "list"]
      /\ account' = account /\ overtaken' = overtaken
  BY DEF Authorise
<1>2. PICK c \in Connections : c = flow[t].own /\ connection[c].state = "initiated"
  BY <1>1 DEF AccountInv, FlowInv, OwnInv
<1>3. /\ connection'[c] = [state |-> "active", mailbox |-> m]
      /\ \A d \in Connections : d # c => connection'[d] = connection[d]
  BY <1>1, <1>2 DEF AccountInv, AccountTypeOK
<1>4. /\ flow'[t].pc = "list" /\ flow'[t].own = c
      /\ \A u \in Tabs : u # t => flow'[u] = flow[u]
  BY <1>1, <1>2 DEF AccountInv, AccountTypeOK, Flow
<1>5. AccountTypeOK'
  <2>1. connection' \in [Connections -> [state : {"none", "initiated", "active"},
                                         mailbox : Mailboxes \cup {NoMailbox}]]
    BY <1>1 DEF AccountInv, AccountTypeOK
  <2>2. flow' \in [Tabs -> Flow]
    BY <1>1 DEF AccountInv, AccountTypeOK, Flow
  <2> QED  BY <1>1, <2>1, <2>2 DEF AccountInv, AccountTypeOK
<1>6. \A d \in Connections : connection'[d].state # "none" <=> connection[d].state # "none"
  BY <1>2, <1>3
<1>7. BegunInOrder' /\ Granted'
  <2>1. BegunInOrder'
    BY <1>6 DEF AccountInv, FlowInv, BegunInOrder
  <2>2. Granted'
    BY <1>3 DEF AccountInv, FlowInv, Granted
  <2> QED  BY <2>1, <2>2
<1>8. \A d : IsActive(d) => IsActive(d)' /\ connection'[d] = connection[d]
  BY <1>2, <1>3 DEF IsActive
<1>9. ASSUME NEW u \in Tabs PROVE OwnInv(u)' /\ FoundInv(u)' /\ NewestInv(u)'
  <2>0. OwnInv(u) /\ FoundInv(u) /\ NewestInv(u)
    BY DEF AccountInv, FlowInv
  <2>1. CASE u = t
    <3>1. OwnInv(u)' /\ FoundInv(u)'
      BY <1>3, <1>4, <2>1 DEF OwnInv, FoundInv, FlowAt, IsActive
    <3>2. u \notin overtaken => \A d \in Connections : connection[d].state # "none" => d <= c
      BY <1>1, <1>2, <2>0, <2>1 DEF NewestInv, InFlow, FlowAt
    <3>3. NewestInv(u)'
      BY <1>1, <1>4, <1>6, <2>1, <3>2 DEF NewestInv
    <3> QED  BY <3>1, <3>3
  <2>2. CASE u # t
    <3>1. flow'[u] = flow[u]
      BY <1>4, <2>2
    <3>2. flow[u].pc = "consent" => flow[u].own # c
      BY <1>1, <1>2, <2>2 DEF AccountInv, FlowInv, OwnApart, FlowAt
    <3>3. OwnInv(u)'
      BY <1>3, <1>8, <2>0, <3>1, <3>2 DEF OwnInv, FlowAt
    <3>4. FoundInv(u)'
      <4>1. flow[u].pc \in {"resolve", "save"} => IsActive(flow[u].found)
        BY <2>0 DEF FoundInv
      <4> QED  BY <1>8, <2>0, <3>1, <4>1 DEF FoundInv, FlowAt
    <3>5. NewestInv(u)'
      BY <1>1, <1>6, <2>0, <3>1 DEF NewestInv, InFlow, FlowAt
    <3> QED  BY <3>3, <3>4, <3>5
  <2> QED  BY <2>1, <2>2
<1>10. OwnApart'
  <2> SUFFICES ASSUME NEW u \in Tabs, NEW v \in Tabs,
                      flow'[u].pc = "consent", flow'[v].pc = "consent", u # v
               PROVE  flow'[u].own # flow'[v].own
    BY DEF OwnApart, FlowAt
  <2>1. flow'[u] = flow[u] /\ flow'[v] = flow[v]
    BY <1>4
  <2> QED  BY <2>1 DEF AccountInv, FlowInv, OwnApart, FlowAt
<1>11. AddressIsTheMailbox'
  <2> SUFFICES ASSUME NEW d \in Connections, account[d] # NoAccount
               PROVE  /\ connection'[d].state = "active"
                      /\ account[d].address \in {connection'[d].mailbox, NoMailbox}
    BY <1>1 DEF AddressIsTheMailbox, HasAccount
  <2>1. connection[d].state = "active" /\ account[d].address \in {connection[d].mailbox, NoMailbox}
    BY DEF AccountInv, AddressIsTheMailbox, HasAccount
  <2> QED  BY <1>2, <1>3, <2>1
<1> QED  BY <1>5, <1>7, <1>9, <1>10, <1>11 DEF AccountInv, FlowInv

(* The steps of a tab that leave the connections alone.                    *)
LEMMA StepsHome ==
  ASSUME AccountInv, NEW t \in Tabs,
         flow' = [flow EXCEPT ![t] = OnPage],
         connection' = connection, overtaken' = overtaken
  PROVE  FlowInv' /\ flow' \in [Tabs -> Flow]
<1>0. OnPage \in Flow
  BY GmailAccountsAssumption DEF OnPage, Flow
<1>1. flow'[t] = OnPage /\ flow' \in [Tabs -> Flow]
  BY <1>0 DEF AccountInv, AccountTypeOK
<1>2. flow'[t].pc = "page"
  BY <1>1 DEF OnPage
<1>3. OwnInv(t)' /\ FoundInv(t)' /\ NewestInv(t)'
  BY <1>2 DEF OwnInv, FoundInv, NewestInv, InFlow, FlowAt
<1>4. OnPage.pc # "consent"
  BY DEF OnPage
<1>5. FlowInv'
  <2> HIDE DEF OnPage
  <2> QED  BY <1>0, <1>3, <1>4, TabMoves
<1> QED  BY <1>1, <1>5

LEMMA SameConnections ==
  ASSUME AccountInv, UNCHANGED <<connection, account>>
  PROVE  AddressIsTheMailbox'
BY DEF AccountInv, AddressIsTheMailbox, HasAccount

LEMMA ListKeeps ==
  ASSUME AccountInv, NEW t \in Tabs, ListConnections(t)
  PROVE  AccountInv'
<1>0. MaxConnections \in Nat
  BY GmailAccountsAssumption
<1>1. PICK f : f = [flow[t] EXCEPT !.pc = "resolve", !.found = LatestConnection]
  OBVIOUS
<1>2. /\ FlowAt(t, "list")
      /\ flow' = [flow EXCEPT ![t] = f]
      /\ UNCHANGED <<connection, account, overtaken>>
  BY <1>1 DEF ListConnections
<1>3. OwnInv(t) /\ NewestInv(t)
  BY DEF AccountInv, FlowInv
<1>4. IsActive(flow[t].own)
  BY <1>2, <1>3 DEF OwnInv, FlowAt
<1>5. IsActive(LatestConnection) /\ flow[t].own <= LatestConnection
  BY <1>4, LatestIsNewest
<1>6. LatestConnection \in 0..MaxConnections
  BY <1>0, <1>5 DEF IsActive, Connections
<1>7. f \in Flow /\ f.pc = "resolve" /\ f.own = flow[t].own /\ f.found = LatestConnection
  <2>1. flow[t] \in Flow
    BY DEF AccountInv, AccountTypeOK
  <2> QED  BY <1>1, <1>6, <2>1 DEF Flow
<1>8. flow'[t] = f /\ flow' \in [Tabs -> Flow]
  BY <1>2, <1>7 DEF AccountInv, AccountTypeOK
<1>9. OwnInv(t)'
  BY <1>2, <1>4, <1>7, <1>8 DEF OwnInv, FlowAt, IsActive
<1>10. FoundInv(t)'
  BY <1>2, <1>5, <1>7, <1>8 DEF FoundInv, FlowAt, IsActive
<1>11. ASSUME t \notin overtaken PROVE LatestConnection = flow[t].own
  <2>1. LatestConnection <= flow[t].own
    BY <1>2, <1>3, <1>5, <1>11 DEF NewestInv, InFlow, FlowAt, IsActive
  <2>2. LatestConnection \in Nat /\ flow[t].own \in Nat
    BY <1>0, <1>4, <1>5 DEF IsActive, Connections
  <2> QED  BY <1>5, <2>1, <2>2
<1>12. NewestInv(t)'
  BY <1>2, <1>3, <1>7, <1>8, <1>11 DEF NewestInv, InFlow, FlowAt
<1>13. FlowInv'
  BY <1>2, <1>7, <1>9, <1>10, <1>12, TabMoves
<1>14. AddressIsTheMailbox'
  BY <1>2, SameConnections
<1> QED  BY <1>2, <1>8, <1>13, <1>14 DEF AccountInv, AccountTypeOK

LEMMA ResolveKeeps ==
  ASSUME AccountInv, NEW t \in Tabs, ResolveAddress(t)
  PROVE  AccountInv'
<1>1. /\ FlowAt(t, "resolve")
      /\ UNCHANGED <<connection, account, overtaken>>
  BY DEF ResolveAddress
<1>2. OwnInv(t) /\ FoundInv(t) /\ NewestInv(t)
  BY DEF AccountInv, FlowInv
<1>3. IsActive(flow[t].found)
  BY <1>1, <1>2 DEF FoundInv, FlowAt
<1>4. connection[flow[t].found].mailbox \in Mailboxes
  BY <1>3 DEF AccountInv, FlowInv, Granted, IsActive
<1>5. PICK m \in {connection[flow[t].found].mailbox, NoMailbox} :
        flow' = [flow EXCEPT ![t].pc = "save", ![t].address = m]
  BY DEF ResolveAddress
<1>6. PICK f : f = [flow[t] EXCEPT !.pc = "save", !.address = m]
  OBVIOUS
<1>7. flow' = [flow EXCEPT ![t] = f]
  BY <1>5, <1>6
<1>8. /\ f \in Flow /\ f.pc = "save" /\ f.address = m
      /\ f.own = flow[t].own /\ f.found = flow[t].found
  <2>1. flow[t] \in Flow
    BY DEF AccountInv, AccountTypeOK
  <2> QED  BY <1>4, <1>5, <1>6, <2>1 DEF Flow
<1>9. flow'[t] = f /\ flow' \in [Tabs -> Flow]
  BY <1>7, <1>8 DEF AccountInv, AccountTypeOK
<1>10. OwnInv(t)'
  BY <1>1, <1>2, <1>8, <1>9 DEF OwnInv, FlowAt, IsActive
<1>11. FoundInv(t)'
  BY <1>1, <1>3, <1>5, <1>8, <1>9 DEF FoundInv, FlowAt, IsActive
<1>12. NewestInv(t)'
  BY <1>1, <1>2, <1>8, <1>9 DEF NewestInv, InFlow, FlowAt
<1>13. FlowInv'
  BY <1>1, <1>7, <1>8, <1>10, <1>11, <1>12, TabMoves
<1>14. AddressIsTheMailbox'
  BY <1>1, SameConnections
<1> QED  BY <1>1, <1>9, <1>13, <1>14 DEF AccountInv, AccountTypeOK

LEMMA SaveKeeps ==
  ASSUME AccountInv, NEW t \in Tabs, SaveGmailAccount(t)
  PROVE  AccountInv'
<1>1. PICK a : a = [address |-> flow[t].address, label |-> t, active |-> TRUE]
  OBVIOUS
<1>2. /\ FlowAt(t, "save")
      /\ account' = [account EXCEPT ![flow[t].found] = a]
      /\ flow' = [flow EXCEPT ![t] = OnPage]
      /\ UNCHANGED <<connection, overtaken>>
  BY <1>1 DEF SaveGmailAccount
<1>3. /\ IsActive(flow[t].found)
      /\ flow[t].address \in {connection[flow[t].found].mailbox, NoMailbox}
  BY <1>2 DEF AccountInv, FlowInv, FoundInv, FlowAt
<1>4. a \in Account /\ a.address = flow[t].address
  <2>1. flow[t] \in Flow
    BY DEF AccountInv, AccountTypeOK
  <2> QED  BY <1>1, <2>1 DEF Flow, Account
<1>5. /\ account' \in [Connections -> Account \cup {NoAccount}]
      /\ \A c \in Connections : account'[c] = IF c = flow[t].found THEN a ELSE account[c]
  BY <1>2, <1>4 DEF AccountInv, AccountTypeOK
<1>6. FlowInv' /\ flow' \in [Tabs -> Flow]
  BY <1>2, StepsHome
<1>7. AddressIsTheMailbox'
  <2> SUFFICES ASSUME NEW c \in Connections, account'[c] # NoAccount
               PROVE  /\ connection[c].state = "active"
                      /\ account'[c].address \in {connection[c].mailbox, NoMailbox}
    BY <1>2 DEF AddressIsTheMailbox, HasAccount
  <2>1. CASE c = flow[t].found
    BY <1>3, <1>4, <1>5, <2>1 DEF IsActive
  <2>2. CASE c # flow[t].found
    BY <1>5, <2>2 DEF AccountInv, AddressIsTheMailbox, HasAccount
  <2> QED  BY <2>1, <2>2
<1> QED  BY <1>2, <1>5, <1>6, <1>7 DEF AccountInv, AccountTypeOK

(* The buttons of the settings page.                                       *)
LEMMA PageKeeps ==
  ASSUME AccountInv, NEW c \in Connections, Toggle(c) \/ Remove(c)
  PROVE  AccountInv'
<1>1. UNCHANGED <<connection, flow, overtaken>>
  BY DEF Toggle, Remove
<1>2. HasAccount(c)
  BY DEF Toggle, Remove
<1>3. account[c] \in Account
  BY <1>2 DEF AccountInv, AccountTypeOK, HasAccount
<1>4. \E a \in Account \cup {NoAccount} :
        /\ account' = [account EXCEPT ![c] = a]
        /\ a # NoAccount => a.address = account[c].address
  <2>1. CASE Toggle(c)
    <3>1. PICK on \in BOOLEAN : account' = [account EXCEPT ![c].active = on]
      BY <2>1 DEF Toggle
    <3>2. PICK a : a = [account[c] EXCEPT !.active = on]
      OBVIOUS
    <3>3. a \in Account /\ a.address = account[c].address
      BY <1>3, <3>2 DEF Account
    <3>4. account' = [account EXCEPT ![c] = a]
      BY <3>1, <3>2
    <3> QED  BY <3>3, <3>4
  <2>2. CASE Remove(c)
    BY <2>2 DEF Remove
  <2> QED  BY <2>1, <2>2
<1>5. PICK a \in Account \cup {NoAccount} :
        /\ account' = [account EXCEPT ![c] = a]
        /\ a # NoAccount => a.address = account[c].address
  BY <1>4
<1>6. /\ account' \in [Connections -> Account \cup {NoAccount}]
      /\ \A d \in Connections : account'[d] = IF d = c THEN a ELSE account[d]
  BY <1>5 DEF AccountInv, AccountTypeOK
<1>7. AccountTypeOK'
  BY <1>1, <1>6 DEF AccountInv, AccountTypeOK
<1>8. FlowInv'
  <2>1. BegunInOrder' /\ Granted' /\ OwnApart'
    BY <1>1 DEF AccountInv, FlowInv, BegunInOrder, Granted, OwnApart, FlowAt
  <2>2. ASSUME NEW t \in Tabs PROVE OwnInv(t)' /\ FoundInv(t)' /\ NewestInv(t)'
    <3>1. OwnInv(t) /\ FoundInv(t) /\ NewestInv(t)
      BY DEF AccountInv, FlowInv
    <3>2. OwnInv(t)'
      BY <1>1, <3>1 DEF OwnInv, FlowAt, IsActive
    <3>3. FoundInv(t)'
      BY <1>1, <3>1 DEF FoundInv, FlowAt, IsActive
    <3>4. NewestInv(t)'
      BY <1>1, <3>1 DEF NewestInv, InFlow, FlowAt
    <3> QED  BY <3>2, <3>3, <3>4
  <2> QED  BY <2>1, <2>2 DEF FlowInv
<1>9. AddressIsTheMailbox'
  <2> SUFFICES ASSUME NEW d \in Connections, account'[d] # NoAccount
               PROVE  /\ connection[d].state = "active"
                      /\ account'[d].address \in {connection[d].mailbox, NoMailbox}
    BY <1>1 DEF AddressIsTheMailbox, HasAccount
  <2>1. CASE d = c
    BY <1>2, <1>5, <1>6, <2>1 DEF AccountInv, AddressIsTheMailbox, HasAccount
  <2>2. CASE d # c
    BY <1>6, <2>2 DEF AccountInv, AddressIsTheMailbox, HasAccount
  <2> QED  BY <2>1, <2>2
<1> QED  BY <1>7, <1>8, <1>9 DEF AccountInv

LEMMA AccountStepKeeps ==
  ASSUME AccountInv, AccountStep
  PROVE  AccountInv'
<1>1. CASE \E t \in Tabs : Decline(t) \/ CallbackFails(t)
  <2>1. PICK t \in Tabs : Decline(t) \/ CallbackFails(t)
    BY <1>1
  <2>2. flow' = [flow EXCEPT ![t] = OnPage] /\ UNCHANGED <<connection, account, overtaken>>
    BY <2>1 DEF Decline, CallbackFails
  <2>3. FlowInv' /\ flow' \in [Tabs -> Flow]
    BY <2>2, StepsHome
  <2>4. AddressIsTheMailbox'
    BY <2>2, SameConnections
  <2> QED  BY <2>2, <2>3, <2>4 DEF AccountInv, AccountTypeOK
<1> QED  BY <1>1, InitiateKeeps, AuthoriseKeeps, ListKeeps, ResolveKeeps, SaveKeeps, PageKeeps
         DEF AccountStep

-----------------------------------------------------------------------------
(* The steps of the labels.  A step of one call that leaves the mailboxes  *)
(* and what is remembered alone.                                           *)
LEMMA CallMoves ==
  ASSUME LabelInv, NEW k \in Calls, NEW f \in Call,
         call' = [call EXCEPT ![k] = f],
         UNCHANGED <<labels, cache, source, deleted>>,
         CallInv(k)', WrongLabelIsForeign', applied' \in Applied \cup {NoLabel}
  PROVE  LabelInv'
<1>1. call'[k] = f /\ call' \in [Calls -> Call] /\ \A j \in Calls : j # k => call'[j] = call[j]
  BY DEF LabelInv, LabelTypeOK
<1>2. LabelTypeOK'
  BY <1>1 DEF LabelInv, LabelTypeOK
<1>3. \A n \in Names : CacheInv(n)'
  BY DEF LabelInv, CacheInv
<1>4. ASSUME NEW j \in Calls PROVE CallInv(j)'
  <2>1. CASE j = k
    BY <2>1
  <2>2. CASE j # k
    <3>1. call'[j] = call[j] /\ CallInv(j)
      BY <1>1, <2>2 DEF LabelInv
    <3> QED  BY <3>1 DEF CallInv, CallAt
  <2> QED  BY <2>1, <2>2
<1> QED  BY <1>2, <1>3, <1>4 DEF LabelInv

LEMMA CallRests ==
  ASSUME LabelInv, NEW k \in Calls,
         call' = [call EXCEPT ![k] = Resting],
         UNCHANGED <<labels, cache, source, deleted>>,
         WrongLabelIsForeign', applied' \in Applied \cup {NoLabel}
  PROVE  LabelInv'
<1>1. Resting \in Call /\ Resting.pc = "idle"
  BY GmailLabelsAssumption DEF Resting, Call
<1>2. call'[k] = Resting
  BY DEF LabelInv, LabelTypeOK
<1>3. CallInv(k)'
  BY <1>1, <1>2 DEF CallInv, CallAt
<1> HIDE DEF Resting
<1> QED  BY <1>1, <1>3, CallMoves

LEMMA SameLabel ==
  ASSUME LabelInv, applied' = applied, deleted \subseteq deleted'
  PROVE  WrongLabelIsForeign' /\ applied' \in Applied \cup {NoLabel}
BY DEF LabelInv, LabelTypeOK, WrongLabelIsForeign

LEMMA ApplyKeeps ==
  ASSUME Inv, NEW k \in Calls, NEW n \in Names, ApplyLabel(k, n)
  PROVE  LabelInv'
<1>1. /\ UNCHANGED <<labels, cache, source, deleted, applied>>
  BY DEF ApplyLabel
<1>2. PICK c \in ActiveAccounts : call' = [call EXCEPT ![k] =
         [pc |-> IF cache[n] # 0 THEN "modify" ELSE "find", mailbox |-> connection[c].mailbox,
          name |-> n, id |-> cache[n], from |-> source[n]]]
  BY DEF ApplyLabel
<1>3. PICK f : f = [pc |-> IF cache[n] # 0 THEN "modify" ELSE "find",
                    mailbox |-> connection[c].mailbox,
                    name |-> n, id |-> cache[n], from |-> source[n]]
  OBVIOUS
<1>4. connection[c].mailbox \in Mailboxes
  <2>1. c \in Connections /\ HasAccount(c)
    BY DEF ActiveAccounts, HasAccount, NoAccount
  <2> QED  BY <2>1 DEF Inv, AccountInv, FlowInv, Granted, AddressIsTheMailbox
<1>5. cache[n] \in 0..MaxLabels /\ source[n] \in Mailboxes \cup {NoMailbox} /\ CacheInv(n)
  BY DEF Inv, LabelInv, LabelTypeOK
<1>6. f \in Call
  BY <1>3, <1>4, <1>5 DEF Call
<1>7. /\ f.mailbox \in Mailboxes /\ f.name = n /\ f.id = cache[n] /\ f.from = source[n]
      /\ f.pc = "modify" => cache[n] # 0
  BY <1>3, <1>4
<1>8. call' = [call EXCEPT ![k] = f]
  BY <1>2, <1>3
<1>9. call'[k] = f
  BY <1>6, <1>8 DEF Inv, LabelInv, LabelTypeOK
<1>10. cache[n] # 0 => cache[n] \in LabelIds
  BY <1>5, GmailLabelsAssumption DEF LabelIds
<1>11. CallInv(k)'
  BY <1>1, <1>5, <1>7, <1>9, <1>10 DEF CallInv, CallAt, CacheInv
<1>12. WrongLabelIsForeign' /\ applied' \in Applied \cup {NoLabel}
  BY <1>1, SameLabel DEF Inv
<1> QED  BY <1>1, <1>6, <1>8, <1>11, <1>12, CallMoves DEF Inv

(* What a call learns is remembered for the calls after it.                *)
LEMMA RememberKeeps ==
  ASSUME LabelInv, NEW k \in Calls, NEW i \in LabelIds, Remember(k, i),
         ~CallAt(k, "idle"),
         labels' \in [Mailboxes -> [LabelIds -> Names \cup {NoName}]],
         labels'[call[k].mailbox][i] = call[k].name,
         \A m \in Mailboxes, j \in LabelIds : labels[m][j] # NoName => labels'[m][j] = labels[m][j],
         UNCHANGED <<deleted, applied>>
  PROVE  LabelInv'
<1>1. PICK m \in Mailboxes, n \in Names : m = call[k].mailbox /\ n = call[k].name
  BY DEF LabelInv, CallInv
<1>2. /\ cache' = [cache EXCEPT ![n] = i]
      /\ source' = [source EXCEPT ![n] = m]
      /\ call' = [call EXCEPT ![k].pc = "modify", ![k].id = i, ![k].from = m]
  BY <1>1 DEF Remember
<1>3. i \in 0..MaxLabels /\ i # 0
  BY GmailLabelsAssumption DEF LabelIds
<1>4. PICK f : f = [call[k] EXCEPT !.pc = "modify", !.id = i, !.from = m]
  OBVIOUS
<1>5. call' = [call EXCEPT ![k] = f]
  BY <1>2, <1>4
<1>6. f \in Call /\ f.pc = "modify" /\ f.mailbox = m /\ f.name = n /\ f.id = i /\ f.from = m
  <2>1. call[k] \in Call
    BY DEF LabelInv, LabelTypeOK
  <2> QED  BY <1>1, <1>3, <1>4, <2>1 DEF Call
<1>7. call' \in [Calls -> Call] /\ \A j \in Calls : call'[j] = IF j = k THEN f ELSE call[j]
  BY <1>5, <1>6 DEF LabelInv, LabelTypeOK
<1>8. cache' \in [Names -> 0..MaxLabels] /\ \A o \in Names : cache'[o] = IF o = n THEN i ELSE cache[o]
  BY <1>2, <1>3 DEF LabelInv, LabelTypeOK
<1>9. /\ source' \in [Names -> Mailboxes \cup {NoMailbox}]
      /\ \A o \in Names : source'[o] = IF o = n THEN m ELSE source[o]
  BY <1>2 DEF LabelInv, LabelTypeOK
<1>10. LabelTypeOK'
  BY <1>7, <1>8, <1>9 DEF LabelInv, LabelTypeOK
<1>11. ASSUME NEW o \in Names PROVE CacheInv(o)'
  <2>1. CASE o = n
    BY <1>1, <1>8, <1>9, <2>1 DEF CacheInv
  <2>2. CASE o # n
    <3>1. cache'[o] = cache[o] /\ source'[o] = source[o] /\ CacheInv(o)
      BY <1>8, <1>9, <2>2 DEF LabelInv
    <3>2. cache[o] # 0 => cache[o] \in LabelIds
      BY GmailLabelsAssumption DEF LabelInv, LabelTypeOK, LabelIds
    <3>3. o # NoName
      BY GmailLabelsAssumption
    <3> QED  BY <3>1, <3>2, <3>3 DEF CacheInv
  <2> QED  BY <2>1, <2>2
<1>12. ASSUME NEW j \in Calls PROVE CallInv(j)'
  <2>1. CASE j = k
    BY <1>1, <1>6, <1>7, <2>1 DEF CallInv, CallAt
  <2>2. CASE j # k
    <3>1. call'[j] = call[j] /\ CallInv(j)
      BY <1>7, <2>2 DEF LabelInv
    <3>2. call[j].name \in Names => call[j].name # NoName
      BY GmailLabelsAssumption
    <3> QED  BY <3>1, <3>2 DEF CallInv, CallAt
  <2> QED  BY <2>1, <2>2
<1>13. WrongLabelIsForeign'
  BY SameLabel
<1> QED  BY <1>10, <1>11, <1>12, <1>13 DEF LabelInv

LEMMA GoesOnToCreate ==
  ASSUME LabelInv, NEW k \in Calls, CallAt(k, "find"),
         call' = [call EXCEPT ![k].pc = "create"],
         UNCHANGED <<labels, cache, source, deleted, applied>>
  PROVE  LabelInv'
<1>1. PICK f : f = [call[k] EXCEPT !.pc = "create"]
  OBVIOUS
<1>2. call' = [call EXCEPT ![k] = f]
  BY <1>1
<1>3. f \in Call /\ f.pc = "create" /\ f.mailbox = call[k].mailbox /\ f.name = call[k].name
  <2>1. call[k] \in Call
    BY DEF LabelInv, LabelTypeOK
  <2> QED  BY <1>1, <2>1 DEF Call
<1>4. call'[k] = f /\ CallInv(k)
  BY <1>2 DEF LabelInv, LabelTypeOK
<1>5. CallInv(k)'
  BY <1>3, <1>4 DEF CallInv, CallAt
<1>6. WrongLabelIsForeign' /\ applied' \in Applied \cup {NoLabel}
  BY SameLabel
<1> QED  BY <1>2, <1>3, <1>5, <1>6, CallMoves

LEMMA FindKeeps ==
  ASSUME LabelInv, NEW k \in Calls, FindLabel(k)
  PROVE  LabelInv'
<1>1. CallAt(k, "find") /\ UNCHANGED <<labels, deleted, applied>>
  BY DEF FindLabel
<1>2. CASE \E i \in WithName(call[k].mailbox, call[k].name) : Remember(k, i)
  <2>1. PICK i \in LabelIds : labels[call[k].mailbox][i] = call[k].name /\ Remember(k, i)
    BY <1>2 DEF WithName
  <2>2. ~CallAt(k, "idle")
    BY <1>1 DEF CallAt
  <2>3. labels \in [Mailboxes -> [LabelIds -> Names \cup {NoName}]]
    BY DEF LabelInv, LabelTypeOK
  <2> QED  BY <1>1, <2>1, <2>2, <2>3, RememberKeeps
<1>3. CASE call' = [call EXCEPT ![k].pc = "create"] /\ UNCHANGED <<cache, source>>
  BY <1>1, <1>3, GoesOnToCreate
<1> QED  BY <1>2, <1>3 DEF FindLabel

LEMMA CreateKeeps ==
  ASSUME LabelInv, NEW k \in Calls, CreateLabel(k)
  PROVE  LabelInv'
<1>1. PICK m \in Mailboxes, n \in Names : m = call[k].mailbox /\ n = call[k].name
  BY DEF CreateLabel, LabelInv, CallInv, CallAt
<1>2. PICK i : i = Min(Free(m))
  OBVIOUS
<1>3. /\ CallAt(k, "create") /\ Free(m) # {}
      /\ labels' = [labels EXCEPT ![m][i] = n]
      /\ Remember(k, i)
      /\ UNCHANGED <<deleted, applied>>
  BY <1>1, <1>2 DEF CreateLabel
<1>4. Free(m) \in SUBSET (0..MaxLabels)
  BY GmailLabelsAssumption DEF Free, WithName, LabelIds
<1>5. i \in Free(m)
  BY <1>2, <1>3, <1>4, GmailLabelsAssumption, LeastIsOne
<1>6. i \in LabelIds /\ labels[m][i] = NoName
  BY <1>5 DEF Free, WithName
<1>7. /\ labels' \in [Mailboxes -> [LabelIds -> Names \cup {NoName}]]
      /\ labels'[m][i] = n
      /\ \A b \in Mailboxes, j \in LabelIds : b # m \/ j # i => labels'[b][j] = labels[b][j]
  BY <1>3, <1>6 DEF LabelInv, LabelTypeOK
<1>8. \A b \in Mailboxes, j \in LabelIds : labels[b][j] # NoName => labels'[b][j] = labels[b][j]
  BY <1>6, <1>7
<1>9. ~CallAt(k, "idle")
  BY <1>3 DEF CallAt
<1> QED  BY <1>1, <1>3, <1>6, <1>7, <1>8, <1>9, RememberKeeps

LEMMA ModifyKeeps ==
  ASSUME LabelInv, NEW k \in Calls, ModifyLabels(k)
  PROVE  LabelInv'
<1>1. CallAt(k, "modify") /\ CallInv(k) /\ ~CallAt(k, "idle")
  BY DEF ModifyLabels, CallAt, LabelInv
<1>2. PICK m \in Mailboxes, n \in Names, b \in Mailboxes, i \in LabelIds :
        m = call[k].mailbox /\ n = call[k].name /\ b = call[k].from /\ i = call[k].id
  BY <1>1 DEF CallInv
<1>3. PICK got : got = labels[m][i]
  OBVIOUS
<1>4. /\ got # NoName
      /\ applied' = [mailbox |-> m, name |-> n, got |-> got, from |-> b]
      /\ call' = [call EXCEPT ![k] = Resting]
      /\ UNCHANGED <<labels, cache, source, deleted>>
  BY <1>2, <1>3 DEF ModifyLabels
<1>5. got \in Names
  BY <1>3, <1>4 DEF LabelInv, LabelTypeOK
<1>6. applied' \in Applied \cup {NoLabel}
  BY <1>4, <1>5 DEF Applied
<1>7. n \notin deleted => labels[b][i] = n
  BY <1>1, <1>2 DEF CallInv
<1>8. WrongLabelIsForeign'
  BY <1>3, <1>4, <1>7 DEF WrongLabelIsForeign
<1> QED  BY <1>4, <1>6, <1>8, CallRests

LEMMA DeleteKeeps ==
  ASSUME LabelInv, NEW m \in Mailboxes, NEW i \in LabelIds, DeleteLabel(m, i)
  PROVE  LabelInv'
<1>1. PICK n \in Names : n = labels[m][i]
  BY DEF DeleteLabel, LabelInv, LabelTypeOK
<1>2. /\ labels' = [labels EXCEPT ![m][i] = NoName]
      /\ deleted' = deleted \cup {n}
      /\ UNCHANGED <<cache, source, call, applied>>
  BY <1>1 DEF DeleteLabel
<1>3. /\ labels' \in [Mailboxes -> [LabelIds -> Names \cup {NoName}]]
      /\ \A b \in Mailboxes, j \in LabelIds : b # m \/ j # i => labels'[b][j] = labels[b][j]
  BY <1>2 DEF LabelInv, LabelTypeOK
<1>4. \A o \in Names, b \in Mailboxes, j \in LabelIds :
        o # n /\ labels[b][j] = o => labels'[b][j] = o
  BY <1>1, <1>3
<1>5. LabelTypeOK'
  BY <1>2, <1>3 DEF LabelInv, LabelTypeOK
<1>6. ASSUME NEW o \in Names PROVE CacheInv(o)'
  <2>1. CacheInv(o) /\ (cache[o] # 0 => cache[o] \in LabelIds)
    BY GmailLabelsAssumption DEF LabelInv, LabelTypeOK, LabelIds
  <2> QED  BY <1>2, <1>4, <2>1 DEF CacheInv
<1>7. ASSUME NEW j \in Calls PROVE CallInv(j)'
  <2>1. CallInv(j)
    BY DEF LabelInv
  <2> QED  BY <1>2, <1>4, <2>1 DEF CallInv, CallAt
<1>8. WrongLabelIsForeign'
  BY <1>2, SameLabel
<1> QED  BY <1>5, <1>6, <1>7, <1>8 DEF LabelInv

LEMMA RestartKeeps ==
  ASSUME LabelInv, Restart
  PROVE  LabelInv'
<1>1. /\ cache' = [n \in Names |-> 0]
      /\ source' = [n \in Names |-> NoMailbox]
      /\ UNCHANGED <<labels, deleted, call, applied>>
  BY Zenon DEF Restart
<1>2. LabelTypeOK'
  BY <1>1, GmailLabelsAssumption DEF LabelInv, LabelTypeOK
<1>3. \A n \in Names : CacheInv(n)'
  BY <1>1 DEF CacheInv
<1>4. \A k \in Calls : CallInv(k)'
  BY <1>1 DEF LabelInv, CallInv, CallAt
<1>5. WrongLabelIsForeign'
  BY <1>1, SameLabel
<1> QED  BY <1>2, <1>3, <1>4, <1>5 DEF LabelInv

LEMMA LabelStepKeeps ==
  ASSUME Inv, LabelStep
  PROVE  Inv'
<1>0. LabelInv
  BY DEF Inv
<1>1. UNCHANGED accountVars
  BY Zenon DEF LabelStep, ApplyLabel, FindLabel, CreateLabel, ModifyLabels, CallFails, DeleteLabel, Restart
<1>2. AccountInv'
  <2>1. AccountTypeOK' /\ AddressIsTheMailbox'
    BY <1>1 DEF Inv, AccountInv, AccountTypeOK, AddressIsTheMailbox, HasAccount, accountVars
  <2>2. FlowInv'
    BY <1>1 DEF Inv, AccountInv, FlowInv, BegunInOrder, Granted, OwnInv, FoundInv, NewestInv,
                OwnApart, FlowAt, InFlow, IsActive, accountVars
  <2> QED  BY <2>1, <2>2 DEF AccountInv
<1>3. LabelInv'
  <2>1. CASE \E k \in Calls : CallFails(k)
    <3>1. PICK k \in Calls : /\ call' = [call EXCEPT ![k] = Resting]
                             /\ UNCHANGED <<labels, cache, source, deleted, applied>>
      BY <2>1 DEF CallFails
    <3>2. WrongLabelIsForeign' /\ applied' \in Applied \cup {NoLabel}
      BY <1>0, <3>1, SameLabel
    <3> QED  BY <1>0, <3>1, <3>2, CallRests
  <2> QED  BY <1>0, <2>1, ApplyKeeps, FindKeeps, CreateKeeps, ModifyKeeps, DeleteKeeps, RestartKeeps
           DEF LabelStep
<1> QED  BY <1>2, <1>3 DEF Inv

-----------------------------------------------------------------------------
LEMMA InitHolds ==
  ASSUME Init
  PROVE  Inv
<1>0. OnPage \in Flow /\ OnPage.pc = "page"
  BY GmailAccountsAssumption DEF OnPage, Flow
<1>1. /\ connection = [c \in Connections |-> [state |-> "none", mailbox |-> NoMailbox]]
      /\ account = [c \in Connections |-> NoAccount]
      /\ flow = [t \in Tabs |-> OnPage]
      /\ overtaken = {}
  BY Zenon DEF Init, AccountInit
<1>2. \A t \in Tabs : flow[t].pc = "page"
  BY <1>0, <1>1
<1>3. AccountTypeOK
  BY <1>0, <1>1 DEF AccountTypeOK
<1>4. FlowInv
  <2>1. BegunInOrder /\ Granted
    BY <1>1 DEF BegunInOrder, Granted
  <2>2. \A t \in Tabs : OwnInv(t) /\ FoundInv(t) /\ NewestInv(t)
    BY <1>2 DEF OwnInv, FoundInv, NewestInv, InFlow, FlowAt
  <2>3. OwnApart
    BY <1>2 DEF OwnApart, FlowAt
  <2> QED  BY <2>1, <2>2, <2>3 DEF FlowInv
<1>5. AddressIsTheMailbox
  BY <1>1 DEF AddressIsTheMailbox, HasAccount
<1>6. /\ labels \in [Mailboxes -> [LabelIds -> Names \cup {NoName}]]
      /\ cache = [n \in Names |-> 0]
      /\ source = [n \in Names |-> NoMailbox]
      /\ deleted = {}
      /\ call = [k \in Calls |-> Resting]
      /\ applied = NoLabel
  BY Zenon DEF Init, LabelInit
<1>7. Resting \in Call /\ Resting.pc = "idle"
  BY GmailLabelsAssumption DEF Resting, Call
<1>8. LabelTypeOK
  BY <1>6, <1>7, GmailLabelsAssumption DEF LabelTypeOK
<1>9. (\A n \in Names : CacheInv(n)) /\ (\A k \in Calls : CallInv(k))
  BY <1>6, <1>7 DEF CacheInv, CallInv, CallAt
<1>10. WrongLabelIsForeign
  BY <1>6 DEF WrongLabelIsForeign
<1> QED  BY <1>3, <1>4, <1>5, <1>8, <1>9, <1>10 DEF Inv, AccountInv, LabelInv

LEMMA StepKeeps ==
  ASSUME Inv, [Next]_vars
  PROVE  Inv'
<1>1. CASE AccountStep /\ UNCHANGED labelVars
  <2>1. AccountInv'
    BY <1>1, AccountStepKeeps DEF Inv
  <2>2. LabelInv'
    BY <1>1 DEF Inv, LabelInv, LabelTypeOK, CacheInv, CallInv, CallAt, WrongLabelIsForeign, labelVars
  <2> QED  BY <2>1, <2>2 DEF Inv
<1>2. CASE LabelStep
  BY <1>2, LabelStepKeeps
<1>3. CASE UNCHANGED vars
  <2>1. AccountTypeOK' /\ AddressIsTheMailbox'
    BY <1>3 DEF Inv, AccountInv, AccountTypeOK, AddressIsTheMailbox, HasAccount, accountVars, vars
  <2>2. FlowInv'
    BY <1>3 DEF Inv, AccountInv, FlowInv, BegunInOrder, Granted, OwnInv, FoundInv, NewestInv,
                OwnApart, FlowAt, InFlow, IsActive, accountVars, vars
  <2>3. LabelInv'
    BY <1>3 DEF Inv, LabelInv, LabelTypeOK, CacheInv, CallInv, CallAt, WrongLabelIsForeign,
                labelVars, vars
  <2> QED  BY <2>1, <2>2, <2>3 DEF Inv, AccountInv
<1> QED  BY <1>1, <1>2, <1>3 DEF Next

LEMMA InvAlways == Spec => []Inv
<1>1. Init => Inv
  BY InitHolds
<1>2. Inv /\ [Next]_vars => Inv'
  BY StepKeeps
<1> QED  BY <1>1, <1>2, PTL DEF Spec

(* Every variable keeps to its type, whatever fails and however the tabs,  *)
(* the calls and the user interleave.                                      *)
THEOREM LabelsTypeTheorem == Spec => []TypeOK
<1>1. Inv => TypeOK
  BY DEF Inv, AccountInv, LabelInv, LabelTypeOK, Call, Applied, TypeOK
<1> QED  BY <1>1, InvAlways, PTL

(* An account's address is that of the mailbox it was granted, though the  *)
(* callback is not told which connection it is for.                        *)
THEOREM AddressTheorem == Spec => []AddressIsTheMailbox
<1>1. Inv => AddressIsTheMailbox
  BY DEF Inv, AccountInv
<1> QED  BY <1>1, InvAlways, PTL

(* An email gets another label than the one named only by an id that was   *)
(* read from another mailbox of the user, which the cache does not tell    *)
(* apart, or when a label of that name was deleted: never because calls    *)
(* for several names and mailboxes overlap.                                *)
THEOREM WrongLabelTheorem == Spec => []WrongLabelIsForeign
<1>1. Inv => WrongLabelIsForeign
  BY DEF Inv, LabelInv
<1> QED  BY <1>1, InvAlways, PTL

(* A flow that no other flow overtook saves its own connection, switched   *)
(* on and under its own label, whatever older connections are still        *)
(* active.                                                                 *)
THEOREM SavesItsOwnTheorem == Spec => ConnectSavesItsOwn
<1> DEFINE Saves == \A t \in Tabs :
             FlowAt(t, "save") /\ SaveGmailAccount(t) /\ t \notin overtaken =>
               /\ account'[flow[t].own].active
               /\ account'[flow[t].own].label = t
<1>1. ASSUME Inv PROVE [Saves]_accountVars
  <2> SUFFICES ASSUME NEW t \in Tabs, FlowAt(t, "save"), SaveGmailAccount(t), t \notin overtaken
               PROVE  account'[flow[t].own].active /\ account'[flow[t].own].label = t
    OBVIOUS
  <2>1. OwnInv(t) /\ NewestInv(t)
    BY <1>1 DEF Inv, AccountInv, FlowInv
  <2>2. flow[t].own \in Connections
    BY <2>1 DEF OwnInv, FlowAt, IsActive
  <2>3. flow[t].found = flow[t].own
    BY <2>1 DEF NewestInv, InFlow, FlowAt
  <2>4. account'[flow[t].own] = [address |-> flow[t].address, label |-> t, active |-> TRUE]
    BY <1>1, <2>2, <2>3 DEF SaveGmailAccount, Inv, AccountInv, AccountTypeOK
  <2> QED  BY <2>4
<1>2. Spec => [][Saves]_accountVars
  BY <1>1, InvAlways, PTL
<1> QED  BY <1>2 DEF ConnectSavesItsOwn
=============================================================================
