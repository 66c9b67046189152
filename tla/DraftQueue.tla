------------------------------ MODULE DraftQueue ------------------------------
(***************************************************************************)
(* How a draft comes to await the user's word: the drafting tool           *)
(* (web/features/agent/tools/draft-reply.ts), the ref code it is given     *)
(* (savePendingAction in web/db/queries/pending-actions.ts), and the way   *)
(* back from a reply that names a code (web/features/signal/parse-reply).  *)
(* Runs for several accounts of a user draft at once.  What a reply does   *)
(* to its draft, step by step, is DraftApproval; here it holds the row     *)
(* from its claim on, and may give it back.                                *)
(***************************************************************************)
EXTENDS Integers

CONSTANTS
  Emails,
  NoEmail,
  Drafters,  \* runs of the drafting tool at once, for one user
  Codes,     \* ref codes
  NoCode,
  MaxDrafts  \* bound: drafts ever made

ASSUME DraftQueueAssumption ==
  /\ NoEmail \notin Emails
  /\ NoCode \notin Codes
  /\ MaxDrafts \in Nat

Commands == {"send", "yes", "no", "discard", "", "edit"}

VARIABLES
  draft,     \* each Gmail draft and its pending_actions row, if it has one
  drafter,   \* where each run of the tool is
  held,      \* rows claimed by a reply that may still give them back
  exposed,   \* codes picked while another draft might yet come to have them
  redrafted  \* emails taken up while another draft of them was under way or held

queueVars == <<draft, drafter, held, exposed, redrafted>>

Drafts == 1..MaxDrafts
DraftStatus == {"none", "drafted", "pending", "confirmed", "discarded", "expired"}
Resting == [pc |-> "idle", email |-> NoEmail, code |-> NoCode, draft |-> 0]

QueueTypeOK ==
  /\ draft \in [Drafts -> [status : DraftStatus, email : Emails \cup {NoEmail},
                           code : Codes \cup {NoCode}]]
  /\ drafter \in [Drafters -> [pc : {"idle", "create", "code", "insert"},
                               email : Emails \cup {NoEmail}, code : Codes \cup {NoCode},
                               draft : 0..MaxDrafts]]
  /\ held \subseteq Drafts
  /\ exposed \subseteq Codes
  /\ redrafted \subseteq Emails

QueueInit ==
  /\ draft = [d \in Drafts |-> [status |-> "none", email |-> NoEmail, code |-> NoCode]]
  /\ drafter = [r \in Drafters |-> Resting]
  /\ held = {} /\ exposed = {} /\ redrafted = {}

-----------------------------------------------------------------------------
DrafterAt(r, pc) == drafter[r].pc = pc
IsPending(d) == draft[d].status = "pending"
PendingWith(c) == {d \in Drafts : IsPending(d) /\ draft[d].code = c}

(* getPendingActionByMessageId.                                            *)
PendingFor(e) == {d \in Drafts : IsPending(d) /\ draft[d].email = e}

UnderWay(e) ==
  \/ \E r \in Drafters : ~DrafterAt(r, "idle") /\ drafter[r].email = e
  \/ \E d \in held : draft[d].email = e

\* Mutation: an email that has a draft pending is drafted again.
BeginAnyDraft(r, e) ==
  /\ DrafterAt(r, "idle")
  /\ drafter' = [drafter EXCEPT ![r].pc = "create", ![r].email = e]
  /\ redrafted' = IF UnderWay(e) THEN redrafted \cup {e} ELSE redrafted
  /\ UNCHANGED <<draft, held, exposed>>

(* draftAndQueue, up to the summary that goes out first.                   *)
BeginDraft(r, e) ==
  /\ DrafterAt(r, "idle")
  /\ PendingFor(e) = {}
  /\ drafter' = [drafter EXCEPT ![r].pc = "create", ![r].email = e]
  /\ redrafted' = IF UnderWay(e) THEN redrafted \cup {e} ELSE redrafted
  /\ UNCHANGED <<draft, held, exposed>>

(* createDraftReply and markEmailDrafted; the answer may be lost after     *)
(* Gmail made the draft.  Bound: MaxDrafts.                                *)
CreateDraft(r) ==
  /\ DrafterAt(r, "create")
  /\ \E d \in Drafts :
       /\ \A f \in Drafts : (draft[f].status = "none") = (f >= d)
       /\ draft' = [draft EXCEPT ![d].status = "drafted", ![d].email = drafter[r].email]
       /\ drafter' \in {[drafter EXCEPT ![r].pc = "code", ![r].draft = d],
                        [drafter EXCEPT ![r] = Resting]}
  /\ UNCHANGED <<held, exposed, redrafted>>

\* Mutation: the code is not looked up among the pending ones.
PickAnyCode(r, c) ==
  /\ DrafterAt(r, "code")
  /\ drafter' = [drafter EXCEPT ![r].pc = "insert", ![r].code = c]
  /\ exposed' = IF (\E q \in Drafters : DrafterAt(q, "insert") /\ drafter[q].code = c)
                   \/ (\E d \in held : draft[d].code = c)
                THEN exposed \cup {c} ELSE exposed
  /\ UNCHANGED <<draft, held, redrafted>>

(* generateUniqueRefCode: a random code no pending action of the user has. *)
PickCode(r, c) ==
  /\ DrafterAt(r, "code")
  /\ PendingWith(c) = {}
  /\ drafter' = [drafter EXCEPT ![r].pc = "insert", ![r].code = c]
  /\ exposed' = IF (\E q \in Drafters : DrafterAt(q, "insert") /\ drafter[q].code = c)
                   \/ (\E d \in held : draft[d].code = c)
                THEN exposed \cup {c} ELSE exposed
  /\ UNCHANGED <<draft, held, redrafted>>

(* The insert, and sendDraftReadyMessage, which changes nothing here.      *)
Insert(r) ==
  /\ DrafterAt(r, "insert")
  /\ draft' = [draft EXCEPT ![drafter[r].draft].status = "pending",
                            ![drafter[r].draft].code = drafter[r].code]
  /\ drafter' = [drafter EXCEPT ![r] = Resting]
  /\ UNCHANGED <<held, exposed, redrafted>>

(* A call throws, or ten codes in a row were taken: draftReply failed.     *)
DraftFails(r) ==
  /\ ~DrafterAt(r, "idle")
  /\ drafter' = [drafter EXCEPT ![r] = Resting]
  /\ UNCHANGED <<draft, held, exposed, redrafted>>

-----------------------------------------------------------------------------
(* A reply: a ref code and the command after it.                           *)

(* classifyCommand.                                                        *)
KindOf(command) ==
  CASE command = ""                     -> "ref_usage"
    [] command \in {"send", "yes"}      -> "draft_send"
    [] command \in {"no", "discard"}    -> "draft_discard"
    [] OTHER                            -> "draft_revise"

(* parseReply finds a pending row of that code, whichever the query        *)
(* returns, and a send or a discard claims it.  A code no pending row has  *)
(* makes the reply a freeform one; usage and revision keep row and code.   *)
Answer(c, command) ==
  /\ KindOf(command) \in {"draft_send", "draft_discard"}
  /\ \E d \in PendingWith(c) :
       /\ draft' = [draft EXCEPT ![d].status =
            IF KindOf(command) = "draft_send" THEN "confirmed" ELSE "discarded"]
       /\ held' = IF KindOf(command) = "draft_send" THEN held \cup {d} ELSE held
  /\ UNCHANGED <<drafter, exposed, redrafted>>

(* releasePendingAction, after Gmail clearly refused to send.              *)
Release(d) ==
  /\ d \in held
  /\ draft' = [draft EXCEPT ![d].status = "pending"]
  /\ held' = held \ {d}
  /\ UNCHANGED <<drafter, exposed, redrafted>>

Sent(d) ==
  /\ d \in held
  /\ held' = held \ {d}
  /\ UNCHANGED <<draft, drafter, exposed, redrafted>>

(* expireStalePendingActions.                                              *)
Expire(S) ==
  /\ S # {}
  /\ \A d \in S : IsPending(d)
  /\ draft' = [d \in Drafts |-> IF d \in S THEN [draft[d] EXCEPT !.status = "expired"]
                                ELSE draft[d]]
  /\ UNCHANGED <<drafter, held, exposed, redrafted>>

QueueStep ==
  \/ \E r \in Drafters :
       (\E e \in Emails : BeginDraft(r, e)) \/ CreateDraft(r) \/ (\E c \in Codes : PickCode(r, c))
       \/ Insert(r) \/ DraftFails(r)
  \/ \E c \in Codes, command \in Commands : Answer(c, command)
  \/ \E d \in Drafts : Release(d) \/ Sent(d)
  \/ \E S \in SUBSET Drafts : Expire(S)

QueueSpec == QueueInit /\ [][QueueStep]_queueVars

-----------------------------------------------------------------------------
(* Properties.                                                             *)

(* A code names one draft that awaits the user, unless it was picked in    *)
(* the middle of another draft's insert, or for a draft whose own was      *)
(* claimed and then given back: a "send" goes to the draft it was typed    *)
(* for (generateUniqueRefCode).                                            *)
CodeNamesOneDraft ==
  \A d, f \in Drafts :
    IsPending(d) /\ IsPending(f) /\ draft[d].code = draft[f].code => d = f \/ draft[d].code \in exposed

(* An email has one draft awaiting the user, unless the tool took it up    *)
(* while another run was drafting it, or while a claimed draft of it could *)
(* still be given back (draftAndQueue).                                    *)
OneDraftPerEmail ==
  \A d, f \in Drafts :
    IsPending(d) /\ IsPending(f) /\ draft[d].email = draft[f].email => d = f \/ draft[d].email \in redrafted
=============================================================================
