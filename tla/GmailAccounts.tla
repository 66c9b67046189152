---------------------------- MODULE GmailAccounts ----------------------------
(***************************************************************************)
(* The Gmail accounts of one user: the OAuth flow through Composio         *)
(* (web/app/api/auth/composio and its callback), the rows of integrations  *)
(* it saves, and the settings page on which they are switched off and      *)
(* removed.  The callback is not told which connection it is for: it takes *)
(* the newest active one, by the time the flow was begun.                  *)
(***************************************************************************)
EXTENDS Naturals, FiniteSets, FiniteSetsExt

CONSTANTS
  Mailboxes,       \* Gmail accounts the user has
  NoMailbox,
  Tabs,            \* browser tabs
  MaxConnections,  \* bound: OAuth flows begun
  AccountFaults    \* what may go wrong

(* AccountFaults: "address" the profile of a new account cannot be read;   *)
(*                "throw"   a query or a call of the callback throws.      *)
ASSUME GmailAccountsAssumption ==
  /\ NoMailbox \notin Mailboxes
  /\ MaxConnections \in Nat
  /\ AccountFaults \subseteq {"address", "throw"}

Connections == 1..MaxConnections

VARIABLES
  connection,  \* Composio: each connection, numbered in the order of initiation
  account,     \* integrations, by connected_account_id
  flow,        \* the OAuth flow of each tab
  overtaken    \* tabs during whose flow another one was begun

accountVars == <<connection, account, flow, overtaken>>

NoAccount == [address |-> NoMailbox, label |-> "none", active |-> FALSE]
Account == [address : Mailboxes \cup {NoMailbox}, label : Tabs, active : BOOLEAN]
HasAccount(c) == account[c] # NoAccount
ActiveAccounts == {c \in Connections : account[c].active}

Flow == [pc : {"page", "consent", "list", "resolve", "save"},
         own : 0..MaxConnections,      \* the connection the flow was begun for
         found : 0..MaxConnections,    \* the connection the callback took
         address : Mailboxes \cup {NoMailbox}]
OnPage == [pc |-> "page", own |-> 0, found |-> 0, address |-> NoMailbox]

AccountTypeOK ==
  /\ connection \in [Connections -> [state : {"none", "initiated", "active"},
                                     mailbox : Mailboxes \cup {NoMailbox}]]
  /\ account \in [Connections -> Account \cup {NoAccount}]
  /\ flow \in [Tabs -> Flow]
  /\ overtaken \subseteq Tabs

AccountInit ==
  /\ connection = [c \in Connections |-> [state |-> "none", mailbox |-> NoMailbox]]
  /\ account = [c \in Connections |-> NoAccount]
  /\ flow = [t \in Tabs |-> OnPage]
  /\ overtaken = {}

-----------------------------------------------------------------------------
FlowAt(t, pc) == flow[t].pc = pc
InFlow(t) == ~FlowAt(t, "page")

(* initiateGmailConnection, and the browser sent to Google.                *)
Initiate(t) ==
  LET begun == {c \in Connections : connection[c].state # "none"}
      c == Cardinality(begun) + 1 IN
  /\ FlowAt(t, "page")
  /\ c \in Connections
  /\ connection' = [connection EXCEPT ![c].state = "initiated"]
  /\ flow' = [flow EXCEPT ![t].pc = "consent", ![t].own = c]
  /\ overtaken' = (overtaken \ {t}) \cup {u \in Tabs \ {t} : InFlow(u)}
  /\ UNCHANGED account

(* The user grants access to a mailbox, and Google sends the browser back. *)
Authorise(t, m) ==
  /\ FlowAt(t, "consent")
  /\ connection' = [connection EXCEPT ![flow[t].own] = [state |-> "active", mailbox |-> m]]
  /\ flow' = [flow EXCEPT ![t].pc = "list"]
  /\ UNCHANGED <<account, overtaken>>

(* The user refuses, or leaves: the callback reports a failure or is never *)
(* called.                                                                 *)
Decline(t) ==
  /\ FlowAt(t, "consent")
  /\ flow' = [flow EXCEPT ![t] = OnPage]
  /\ UNCHANGED <<connection, account, overtaken>>

ActiveConnections == {c \in Connections : connection[c].state = "active"}

\* Mutation: the list is taken in the order Composio gives it, oldest first.
OldestConnection == Min(ActiveConnections)

LatestConnection == Max(ActiveConnections)

(* getLatestGmailConnection.                                               *)
ListConnections(t) ==
  /\ FlowAt(t, "list")
  /\ flow' = [flow EXCEPT ![t].pc = "resolve", ![t].found = LatestConnection]
  /\ UNCHANGED <<connection, account, overtaken>>

\* Mutation: the address is read of the connection the flow was begun with.
ResolveOwnAddress(t) ==
  /\ FlowAt(t, "resolve")
  /\ flow' = [flow EXCEPT ![t].pc = "save", ![t].address = connection[flow[t].own].mailbox]
  /\ UNCHANGED <<connection, account, overtaken>>

(* resolveGmailAddress: the account is saved without an address if that    *)
(* cannot be read.                                                         *)
ResolveAddress(t) ==
  /\ FlowAt(t, "resolve")
  /\ \E m \in {connection[flow[t].found].mailbox}
              \cup (IF "address" \in AccountFaults THEN {NoMailbox} ELSE {}) :
       flow' = [flow EXCEPT ![t].pc = "save", ![t].address = m]
  /\ UNCHANGED <<connection, account, overtaken>>

\* Mutation: the account is saved without the label it was given.
SaveWithoutLabel(t) ==
  /\ FlowAt(t, "save")
  /\ account' = [account EXCEPT ![flow[t].found] =
       [address |-> flow[t].address, label |-> "none", active |-> TRUE]]
  /\ flow' = [flow EXCEPT ![t] = OnPage]
  /\ UNCHANGED <<connection, overtaken>>

(* saveGmailAccount: a new row, or the one of the connection written over  *)
(* and switched on.  The label is the one asked for in this tab.           *)
SaveGmailAccount(t) ==
  /\ FlowAt(t, "save")
  /\ account' = [account EXCEPT ![flow[t].found] =
       [address |-> flow[t].address, label |-> t, active |-> TRUE]]
  /\ flow' = [flow EXCEPT ![t] = OnPage]
  /\ UNCHANGED <<connection, overtaken>>

CallbackFails(t) ==
  /\ "throw" \in AccountFaults
  /\ flow[t].pc \in {"list", "resolve", "save"}
  /\ flow' = [flow EXCEPT ![t] = OnPage]
  /\ UNCHANGED <<connection, account, overtaken>>

-----------------------------------------------------------------------------
(* The buttons of the settings page.                                       *)

(* toggleGmailAccountAction sets what the page did not show when it was    *)
(* rendered, so either value; an UPDATE, so nothing where the row is gone. *)
Toggle(c) ==
  /\ HasAccount(c)
  /\ \E on \in BOOLEAN : account' = [account EXCEPT ![c].active = on]
  /\ UNCHANGED <<connection, flow, overtaken>>

(* removeGmailAccountAction.  The connection at Composio stays active.     *)
Remove(c) ==
  /\ HasAccount(c)
  /\ account' = [account EXCEPT ![c] = NoAccount]
  /\ UNCHANGED <<connection, flow, overtaken>>

AccountStep ==
  \/ \E t \in Tabs :
       \/ Initiate(t) \/ (\E m \in Mailboxes : Authorise(t, m)) \/ Decline(t)
       \/ ListConnections(t) \/ ResolveAddress(t) \/ SaveGmailAccount(t) \/ CallbackFails(t)
  \/ \E c \in Connections : Toggle(c) \/ Remove(c)

-----------------------------------------------------------------------------
(* Properties.                                                             *)

(* A saved account is one the user has granted access to, and its address, *)
(* where there is one, is that of its own mailbox, though another tab's    *)
(* connection may have been taken for this tab's (resolveGmailAddress).    *)
AddressIsTheMailbox ==
  \A c \in Connections : HasAccount(c) =>
    /\ connection[c].state = "active"
    /\ account[c].address \in {connection[c].mailbox, NoMailbox}

(* Where no other flow was begun since, the callback saves the connection  *)
(* of its own flow under its own label, whatever older connections are     *)
(* still active and whatever was removed (getLatestGmailConnection).       *)
ConnectSavesItsOwn ==
  [][\A t \in Tabs :
       FlowAt(t, "save") /\ SaveGmailAccount(t) /\ t \notin overtaken =>
         /\ account'[flow[t].own].active
         /\ account'[flow[t].own].label = t]_accountVars
=============================================================================
