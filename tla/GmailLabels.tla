----------------------------- MODULE GmailLabels -----------------------------
(***************************************************************************)
(* The label a run of the agent puts on an email                           *)
(* (web/features/gmail/gmail-labels.ts, gmail-actions.ts).  Gmail numbers  *)
(* the labels of each mailbox; the server keeps the number of a name per   *)
(* user, for as long as its process lives, and asks Gmail only for a name  *)
(* it has not met.                                                         *)
(***************************************************************************)
EXTENDS GmailAccounts

CONSTANTS
  Calls,       \* tool calls that can be in progress at once
  Names,       \* of labels
  NoName,
  MaxLabels,   \* bound: labels of a mailbox
  LabelFaults  \* {"call"} if a call to Gmail may fail

ASSUME GmailLabelsAssumption ==
  /\ NoName \notin Names
  /\ MaxLabels \in Nat
  /\ LabelFaults \subseteq {"call"}

VARIABLES
  labels,   \* of each mailbox, the name each id stands for, NoName if none
  cache,    \* labelIdCacheByUser, for the user: the id of each name
  source,   \* the mailbox each cached id was read from
  deleted,  \* names that were deleted from some mailbox
  call,     \* the applyLabel calls under way
  applied   \* the last label put on an email

labelVars == <<labels, cache, source, deleted, call, applied>>
vars == <<accountVars, labelVars>>

LabelIds == 1..MaxLabels
Resting == [pc |-> "idle", mailbox |-> NoMailbox, name |-> NoName, id |-> 0, from |-> NoMailbox]
NoLabel == [mailbox |-> NoMailbox, name |-> NoName, got |-> NoName, from |-> NoMailbox]

TypeOK ==
  /\ AccountTypeOK
  /\ labels \in [Mailboxes -> [LabelIds -> Names \cup {NoName}]]
  /\ cache \in [Names -> 0..MaxLabels]
  /\ source \in [Names -> Mailboxes \cup {NoMailbox}]
  /\ deleted \subseteq Names
  /\ call \in [Calls -> [pc : {"idle", "find", "create", "modify"}, mailbox : Mailboxes \cup {NoMailbox},
                         name : Names \cup {NoName}, id : 0..MaxLabels,
                         from : Mailboxes \cup {NoMailbox}]]
  /\ applied \in [mailbox : Mailboxes, name : Names, got : Names, from : Mailboxes] \cup {NoLabel}

LabelInit ==
  /\ labels \in [Mailboxes -> [LabelIds -> Names \cup {NoName}]]
  /\ \A m \in Mailboxes, i, j \in LabelIds :
       labels[m][i] = labels[m][j] /\ i # j => labels[m][i] = NoName
  /\ cache = [n \in Names |-> 0]
  /\ source = [n \in Names |-> NoMailbox]
  /\ deleted = {}
  /\ call = [k \in Calls |-> Resting]
  /\ applied = NoLabel

Init == AccountInit /\ LabelInit

-----------------------------------------------------------------------------
CallAt(k, pc) == call[k].pc = pc
WithName(m, n) == {i \in LabelIds : labels[m][i] = n}
Free(m) == WithName(m, NoName)

(* A run of an account that is on, and the lookup in the cache.            *)
ApplyLabel(k, n) ==
  /\ CallAt(k, "idle")
  /\ \E c \in ActiveAccounts :
       call' = [call EXCEPT ![k] =
         [pc |-> IF cache[n] # 0 THEN "modify" ELSE "find", mailbox |-> connection[c].mailbox,
          name |-> n, id |-> cache[n], from |-> source[n]]]
  /\ UNCHANGED <<accountVars, labels, cache, source, deleted, applied>>

(* cacheLabelId.                                                           *)
Remember(k, i) ==
  LET m == call[k].mailbox IN
  /\ cache' = [cache EXCEPT ![call[k].name] = i]
  /\ source' = [source EXCEPT ![call[k].name] = m]
  /\ call' = [call EXCEPT ![k].pc = "modify", ![k].id = i, ![k].from = m]

\* Mutation: the first label of the list is taken, whatever its name.
FindFirstLabel(k) ==
  /\ CallAt(k, "find")
  /\ \/ \E i \in LabelIds \ Free(call[k].mailbox) :
          Remember(k, i)
     \/ /\ LabelIds = Free(call[k].mailbox)
        /\ call' = [call EXCEPT ![k].pc = "create"]
        /\ UNCHANGED <<cache, source>>
  /\ UNCHANGED <<accountVars, labels, deleted, applied>>

(* findExistingLabelId.                                                    *)
FindLabel(k) ==
  LET found == WithName(call[k].mailbox, call[k].name) IN
  /\ CallAt(k, "find")
  /\ \/ \E i \in found : Remember(k, i)
     \/ /\ found = {}
        /\ call' = [call EXCEPT ![k].pc = "create"]
        /\ UNCHANGED <<cache, source>>
  /\ UNCHANGED <<accountVars, labels, deleted, applied>>

(* createLabel.  Gmail refuses a name it has, which another call may have  *)
(* created meanwhile.  Bound: MaxLabels.                                   *)
CreateLabel(k) ==
  LET m == call[k].mailbox IN
  /\ CallAt(k, "create")
  /\ WithName(m, call[k].name) = {}
  /\ Free(m) # {}
  /\ labels' = [labels EXCEPT ![m][Min(Free(m))] = call[k].name]
  /\ Remember(k, Min(Free(m)))
  /\ UNCHANGED <<accountVars, deleted, applied>>

(* addLabelIds: Gmail puts on the label of that id, if there is one.       *)
ModifyLabels(k) ==
  LET got == labels[call[k].mailbox][call[k].id] IN
  /\ CallAt(k, "modify")
  /\ got # NoName
  /\ applied' = [mailbox |-> call[k].mailbox, name |-> call[k].name, got |-> got,
                 from |-> call[k].from]
  /\ call' = [call EXCEPT ![k] = Resting]
  /\ UNCHANGED <<accountVars, labels, cache, source, deleted>>

(* The tool reports a failure: a call failed, the name was taken           *)
(* meanwhile, no room was left, or the id is not one of the mailbox.       *)
CallFails(k) ==
  LET m == call[k].mailbox IN
  /\ \/ "call" \in LabelFaults /\ ~CallAt(k, "idle")
     \/ CallAt(k, "create") /\ (WithName(m, call[k].name) # {} \/ Free(m) = {})
     \/ CallAt(k, "modify") /\ labels[m][call[k].id] = NoName
  /\ call' = [call EXCEPT ![k] = Resting]
  /\ UNCHANGED <<accountVars, labels, cache, source, deleted, applied>>

(* The user deletes a label in Gmail; its number may be used again.        *)
DeleteLabel(m, i) ==
  /\ labels[m][i] # NoName
  /\ labels' = [labels EXCEPT ![m][i] = NoName]
  /\ deleted' = deleted \cup {labels[m][i]}
  /\ UNCHANGED <<accountVars, cache, source, call, applied>>

(* The process is replaced.                                                *)
Restart ==
  /\ \A k \in Calls : CallAt(k, "idle")
  /\ cache' = [n \in Names |-> 0]
  /\ source' = [n \in Names |-> NoMailbox]
  /\ UNCHANGED <<accountVars, labels, deleted, call, applied>>

LabelStep ==
  \/ \E k \in Calls :
       (\E n \in Names : ApplyLabel(k, n)) \/ FindLabel(k) \/ CreateLabel(k) \/ ModifyLabels(k)
       \/ CallFails(k)
  \/ \E m \in Mailboxes, i \in LabelIds : DeleteLabel(m, i)
  \/ Restart

Next == (AccountStep /\ UNCHANGED labelVars) \/ LabelStep

Spec == Init /\ [][Next]_vars

-----------------------------------------------------------------------------
(* An email can get another label than the one the model named: the cache  *)
(* keeps one id per user and name, though each mailbox numbers its own     *)
(* labels.  That, and the deletion of a label of that name, are the only   *)
(* ways: calls that look a name up, create it and remember it at the same  *)
(* time do not mix names up (resolveLabelId).                              *)
WrongLabelIsForeign ==
  applied # NoLabel /\ applied.got # applied.name =>
    applied.from # applied.mailbox \/ applied.name \in deleted
=============================================================================
