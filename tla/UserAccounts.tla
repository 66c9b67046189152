---------------------------- MODULE UserAccounts ----------------------------
(***************************************************************************)
(* The users table and the sign-in that finds or adds a row of it:         *)
(* web/db/queries/users.ts and the jwt callback of web/auth.ts.  Google    *)
(* sign-in makes up a new id every time, so the row is found by e-mail;    *)
(* the e-mail column has no unique index, and looking the e-mail up,       *)
(* inserting it and looking again are three awaits.                        *)
(***************************************************************************)
EXTENDS Naturals, FiniteSets

CONSTANTS
  Ids,        \* ids a sign-in may make up
  NoId,
  NoRow,      \* in a table, a key that has no row
  Addresses,  \* e-mail addresses, spelling apart
  Mixed,      \* those Google spells with capitals
  Tabs        \* browser tabs, each with a session of its own

ASSUME AccountAssumption ==
  /\ NoId \notin Ids
  /\ Mixed \subseteq Addresses

VARIABLES
  users,  \* the table, by id
  tab,    \* the request each tab has under way
  raced   \* addresses two sign-ins were about to insert at the same time

Plans == {"free", "pro"}
Email == [address : Addresses, plain : BOOLEAN]
User  == [email : Email, plan : Plans]

ASSUME RowAssumption == NoRow \notin User

(* The e-mail as Google spells it, and trimmed and in lower case.          *)
Spelled(a) == [address |-> a, plain |-> a \notin Mixed]
Normalized(a) == [address |-> a, plain |-> TRUE]

HasUser(i) == users[i] # NoRow

AccountsInit ==
  /\ users = [i \in Ids |-> NoRow]
  /\ raced = {}

-----------------------------------------------------------------------------
(* upsertUser: the e-mail of the session is stored as it is spelled.       *)
Upserted(i, a) ==
  [users EXCEPT ![i] = IF HasUser(i) THEN [@ EXCEPT !.email = Spelled(a)]
                       ELSE [email |-> Spelled(a), plan |-> "free"]]

(* setUserPlan: an UPDATE, so nothing where there is no row.               *)
WithPlan(i, plan) ==
  [users EXCEPT ![i] = IF HasUser(i) THEN [@ EXCEPT !.plan = plan] ELSE @]

\* Mutation: rows are looked up by the e-mail as Google spells it.
MatchingAsSpelled(a) == {i \in Ids : HasUser(i) /\ users[i].email = Spelled(a)}

(* findUserIdByEmail: any one of these, for the query has no order.        *)
Matching(a) == {i \in Ids : HasUser(i) /\ users[i].email = Normalized(a)}

-----------------------------------------------------------------------------
TabAt(t, pc) == tab[t].pc = pc
TabGoto(t, pc) == tab' = [tab EXCEPT ![t].pc = pc]

(* An id is made up: no row, and no session, has it.                       *)
Unused(i) == ~HasUser(i) /\ \A t \in Tabs : tab[t].id # i

(* Google answers, and the lookup that follows.                            *)
FindUser(t) ==
  LET a == tab[t].address IN
  /\ TabAt(t, "out")
  /\ \/ \E i \in Matching(a) :
          /\ tab' = [tab EXCEPT ![t].pc = "in", ![t].id = i]
          /\ UNCHANGED raced
     \/ /\ Matching(a) = {}
        /\ \E i \in Ids :
             Unused(i) /\ tab' = [tab EXCEPT ![t].pc = "insert", ![t].id = i]
        /\ raced' = IF \E u \in Tabs \ {t} : TabAt(u, "insert") /\ tab[u].address = a
                    THEN raced \cup {a} ELSE raced
  /\ UNCHANGED users

(* The insert does nothing if the id has a row; ids are made up, so none   *)
(* has.                                                                    *)
InsertUser(t) ==
  LET i == tab[t].id IN
  /\ TabAt(t, "insert")
  /\ users' = [users EXCEPT ![i] =
       IF HasUser(i) THEN @ ELSE [email |-> Normalized(tab[t].address), plan |-> "free"]]
  /\ TabGoto(t, "again")
  /\ UNCHANGED raced

FindAgain(t) ==
  LET M == Matching(tab[t].address) IN
  /\ TabAt(t, "again")
  /\ \E i \in IF M = {} THEN {tab[t].id} ELSE M :
       tab' = [tab EXCEPT ![t].pc = "in", ![t].id = i]
  /\ UNCHANGED <<users, raced>>

(* The query of the step throws: there is no session.                      *)
SignInFails(t) ==
  /\ tab[t].pc \in {"insert", "again"}
  /\ tab' = [tab EXCEPT ![t].pc = "out", ![t].id = NoId]
  /\ UNCHANGED <<users, raced>>

SignOut(t) ==
  /\ TabAt(t, "in")
  /\ tab' = [tab EXCEPT ![t].pc = "out", ![t].id = NoId]
  /\ UNCHANGED <<users, raced>>

SignInStep(t) ==
  FindUser(t) \/ InsertUser(t) \/ FindAgain(t) \/ SignInFails(t) \/ SignOut(t)

-----------------------------------------------------------------------------
(* Two ids come to stand for one address only if two sign-ins were about   *)
(* to insert it at once, or a request stored the e-mail in a spelling that *)
(* the lookup does not find (resolveUserIdByEmail): with neither, signing  *)
(* in again, in any number of tabs, comes back to the same user.           *)
OneUserPerAddress ==
  \A a \in Addresses :
    LET rows == {i \in Ids : HasUser(i) /\ users[i].email.address = a} IN
    (\E i, j \in rows : i # j) =>
      a \in raced \/ \E i \in rows : users[i].email # Normalized(a)
=============================================================================
