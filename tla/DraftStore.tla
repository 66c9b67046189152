----------------------------- MODULE DraftStore -----------------------------
(***************************************************************************)
(* What the reply handlers and the drafting tool share: the rows of        *)
(* pending_actions (web/db/queries/pending-actions.ts), the Gmail drafts   *)
(* they name (reached through web/features/gmail/gmail-drafts.ts) and the  *)
(* Gmail calls whose caller stopped waiting.  A draft stands for its body: *)
(* Gmail gives a rewritten body a new draft id.                            *)
(***************************************************************************)
EXTENDS Integers, FiniteSets

CONSTANTS
  Actions,   \* rows of pending_actions
  RefCodes,  \* four-character ref codes
  Drafts,    \* Gmail draft ids; their number bounds the revisions explored
  NoDraft,   \* "no draft id"
  Sendable,  \* draft states in which Gmail accepts GMAIL_SEND_DRAFT
  Faults     \* what may go wrong with an awaited call

(***************************************************************************)
(* Faults: "refuse"  the call fails and has no effect;                     *)
(*         "lost"    the call takes effect but its caller sees an error    *)
(*                   whose text is not "timed out" (connection reset,      *)
(*                   successful: false, no draft id in the answer);        *)
(*         "timeout" withTimeoutAndRetry stops waiting; the call may still *)
(*                   take effect, at once, later or never;                 *)
(*         "abort"   the serverless invocation is killed, or a database    *)
(*                   call throws, between two awaits;                      *)
(*         "unsaid"  a notice to the user is not delivered.                *)
(***************************************************************************)
FaultKinds == {"refuse", "lost", "timeout", "abort", "unsaid"}

ASSUME StoreAssumption ==
  /\ NoDraft \notin Drafts
  /\ "live" \in Sendable
  /\ Sendable \subseteq {"live", "sent"}
  /\ Faults \subseteq FaultKinds

VARIABLES
  status,     \* pending_actions.status, "absent" where there is no row
  refCode,    \* pending_actions.ref_code
  payload,    \* pending_actions.payload.draftId
  aged,       \* rows created more than 24 hours ago
  drafted,    \* processed_emails.gmail_draft_id of the row's email
  gmail,      \* state of every Gmail draft
  owner,      \* the row whose email a Gmail draft answers
  delivered,  \* mails sent for a row: 0, 1, or 2 for "more than one"
  late        \* Gmail calls nobody waits for that may still take effect

rowVars   == <<status, refCode, payload, aged, drafted>>
gmailVars == <<gmail, owner, delivered>>
storeVars == <<rowVars, gmailVars, late>>

ActionStatus == {"pending", "confirmed", "discarded", "expired"}
DraftState   == {"unused", "live", "sent", "deleted"}

(***************************************************************************)
(* A Gmail call, as gmail-drafts.ts issues it.  For a "create" call the    *)
(* draft is NoDraft: Gmail chooses the id when the call takes effect.      *)
(***************************************************************************)
Calls == [op : {"send", "delete", "create"}, act : Actions,
          draft : Drafts \cup {NoDraft}]

SendCall(a, d)   == [op |-> "send",   act |-> a, draft |-> d]
DeleteCall(a, d) == [op |-> "delete", act |-> a, draft |-> d]
CreateCall(a)    == [op |-> "create", act |-> a, draft |-> NoDraft]

StoreTypeOK ==
  /\ status    \in [Actions -> ActionStatus \cup {"absent"}]
  /\ refCode   \in [Actions -> RefCodes]
  /\ payload   \in [Actions -> Drafts \cup {NoDraft}]
  /\ aged      \subseteq Actions
  /\ drafted   \in [Actions -> Drafts \cup {NoDraft}]
  /\ gmail     \in [Drafts -> DraftState]
  /\ owner     \in [Drafts -> Actions]
  /\ delivered \in [Actions -> 0..2]
  /\ late      \subseteq Calls

-----------------------------------------------------------------------------
(* The statements of pending-actions.ts.                                   *)

Matching(code) == {a \in Actions : status[a] = "pending" /\ refCode[a] = code}

\* Mutation: the claim's UPDATE without its "AND status = 'pending'".
ClaimableAnyRow(a) == status[a] # "absent"

Claimable(a)    == status[a] = "pending"
SetStatus(a, s) == status' = [status EXCEPT ![a] = s]

(* The cron's UPDATE ... WHERE status = 'pending' AND created_at < cutoff. *)
ExpireStale ==
  /\ \E a \in aged : Claimable(a)
  /\ status' = [a \in Actions |->
                  IF Claimable(a) /\ a \in aged THEN "expired" ELSE status[a]]
  /\ UNCHANGED <<refCode, payload, aged, drafted, gmailVars, late>>

(* Twenty-four hours pass since the row was created.                       *)
Age(a) ==
  /\ status[a] # "absent"
  /\ a \notin aged
  /\ aged' = aged \cup {a}
  /\ UNCHANGED <<status, refCode, payload, drafted, gmailVars, late>>

-----------------------------------------------------------------------------
(* The effect of a Gmail call on the mailbox.                              *)

Sent(a, d) ==
  /\ gmail[d] \in Sendable
  /\ gmail' = [gmail EXCEPT ![d] = "sent"]
  /\ delivered' = [delivered EXCEPT ![a] = IF @ = 0 THEN 1 ELSE 2]
  /\ UNCHANGED owner

Deleted(d) ==
  /\ gmail[d] = "live"
  /\ gmail' = [gmail EXCEPT ![d] = "deleted"]
  /\ UNCHANGED <<owner, delivered>>

Created(a, d) ==
  /\ gmail[d] = "unused"
  /\ gmail' = [gmail EXCEPT ![d] = "live"]
  /\ owner' = [owner EXCEPT ![d] = a]
  /\ UNCHANGED delivered

Applied(c) ==
  \/ c.op = "send"   /\ Sent(c.act, c.draft)
  \/ c.op = "delete" /\ Deleted(c.draft)
  \/ c.op = "create" /\ \E d \in Drafts : Created(c.act, d)

NotApplied == UNCHANGED gmailVars

(* Gmail answers an error by itself: the draft is not in the right state.  *)
Rejected(c) ==
  \/ c.op = "send"   /\ gmail[c.draft] \notin Sendable
  \/ c.op = "delete" /\ gmail[c.draft] # "live"

(* The three ways executeGmailTool ends for its caller.                    *)
Succeeds(c) == Applied(c) /\ UNCHANGED late

Fails(c) ==
  /\ \/ ("refuse" \in Faults \/ Rejected(c)) /\ NotApplied
     \/ "lost" \in Faults /\ Applied(c)
  /\ UNCHANGED late

TimesOut(c) ==
  /\ "timeout" \in Faults
  /\ late' = late \cup {c}
  /\ NotApplied

(* A call nobody waits for takes effect after all, or never will.          *)
LateCall ==
  \E c \in late :
    /\ late' = late \ {c}
    /\ Applied(c) \/ NotApplied
    /\ UNCHANGED rowVars
=============================================================================
