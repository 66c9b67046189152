--------------------------- MODULE DraftApproval ---------------------------
(***************************************************************************)
(* Applying Signal replies to drafts awaiting confirmation                 *)
(* (web/features/signal/handle-reply.ts and parse-reply.ts).  A handler is *)
(* one call of handleSignalReply; polls overlap, so several run at once,   *)
(* and every await is a point where the others, the expiry cron or a late  *)
(* Gmail call may step in.                                                 *)
(***************************************************************************)
EXTENDS DraftStore

CONSTANTS
  Handlers,  \* invocations of handleSignalReply that can be in progress
  NoAction   \* the reply of a handler matches no row

ASSUME HandlerAssumption == NoAction \notin Actions

VARIABLES
  handler,   \* where each invocation is, and what it has read
  told,      \* what the user was told became of each draft, and "unheard"
  feedback   \* agent_feedback rows of each action: 0, 1, or 2 for more

vars == <<storeVars, handler, told, feedback>>

Finished == {"acked", "silent", "threw"}
Sending  == {"send", "release"}
Revising == {"rewrite", "reviseDelete", "create", "mark", "save"}
Pc == {"idle", "claimSend", "claimDiscard", "discardDelete", "feedback",
       "notify"} \cup Sending \cup Revising \cup Finished

(* The notices that say what became of a draft, and the others.  In told,  *)
(* "unheard" is a verdict that Signal did not deliver.                     *)
Verdicts == {"sent", "unsure", "discarded"}
Notices  == Verdicts \cup {"ready", "unrevised", "usage", "freeform", "none"}

HandlerState == [pc : Pc, act : Actions \cup {NoAction},
                 draft : Drafts \cup {NoDraft}, note : Notices]

Idle == [pc |-> "idle", act |-> NoAction, draft |-> NoDraft, note |-> "none"]

TypeOK ==
  /\ StoreTypeOK
  /\ handler  \in [Handlers -> HandlerState]
  /\ told     \in [Actions -> SUBSET (Verdicts \cup {"unheard"})]
  /\ feedback \in [Actions -> 0..2]

(* Every row awaits the user's decision and has a ref code and a live      *)
(* Gmail draft of its own.                                                 *)
Init ==
  /\ status = [a \in Actions |-> "pending"]
  /\ refCode \in [Actions -> RefCodes]
  /\ payload \in [Actions -> Drafts]
  /\ \A a, b \in Actions : a # b => refCode[a] # refCode[b] /\ payload[a] # payload[b]
  /\ aged = {}
  /\ drafted = payload
  /\ gmail = [d \in Drafts |->
                IF \E a \in Actions : payload[a] = d THEN "live" ELSE "unused"]
  /\ owner \in [Drafts -> Actions]
  /\ \A a \in Actions : owner[payload[a]] = a
  /\ delivered = [a \in Actions |-> 0]
  /\ late = {}
  /\ handler = [h \in Handlers |-> Idle]
  /\ told = [a \in Actions |-> {}]
  /\ feedback = [a \in Actions |-> 0]

-----------------------------------------------------------------------------
At(h, pc) == handler[h].pc = pc
Goto(h, pc) == handler' = [handler EXCEPT ![h].pc = pc]
Say(h, note) == handler' = [handler EXCEPT ![h].pc = "notify", ![h].note = note]

(* Bound: a revision starts only if a draft id is left for what it creates.*)
SpareDraft ==
  Cardinality({d \in Drafts : gmail[d] = "unused"}) >
    Cardinality({h \in Handlers : handler[h].pc \in {"rewrite", "reviseDelete", "create"}})
    + Cardinality({c \in late : c.op = "create"})

(* parseReply: look the ref code up among the pending rows, then classify  *)
(* the rest of the text; the row read here is used to the end.             *)
Receive(h) ==
  /\ At(h, "idle")
  /\ \E code \in RefCodes, pc \in {"claimSend", "claimDiscard", "rewrite", "notify"} :
       \E a \in Matching(code) :
         /\ pc = "rewrite" => SpareDraft
         /\ handler' = [handler EXCEPT ![h] =
              [pc |-> pc, act |-> a, draft |-> payload[a],
               note |-> IF pc = "notify" THEN "usage" ELSE "none"]]
  /\ UNCHANGED <<storeVars, told, feedback>>

(* No valid ref code, or none that matches a pending row.                  *)
ReceiveFreeform(h) ==
  /\ At(h, "idle")
  /\ Say(h, "freeform")
  /\ UNCHANGED <<storeVars, told, feedback>>

(* claimPendingAction: UPDATE ... WHERE id = a AND status = 'pending'.     *)
Claim(h, from, s, next) ==
  LET a == handler[h].act IN
  /\ At(h, from)
  /\ \/ Claimable(a)  /\ SetStatus(a, s)  /\ Goto(h, next)
     \/ ~Claimable(a) /\ UNCHANGED status /\ Goto(h, "silent")
  /\ UNCHANGED <<refCode, payload, aged, drafted, gmailVars, late, told, feedback>>

ClaimSend(h)    == Claim(h, "claimSend", "confirmed", "send")
ClaimDiscard(h) == Claim(h, "claimDiscard", "discarded", "discardDelete")

\* Mutations of Send: a timeout is taken for a clean failure; the send is
\* reported without waiting to know; the uncertain outcome is not reported.
SendReleasesTimeout(h) ==
  LET c == SendCall(handler[h].act, handler[h].draft) IN
  /\ At(h, "send")
  /\ \/ Succeeds(c) /\ Say(h, "sent")
     \/ (TimesOut(c) \/ Fails(c)) /\ Goto(h, "release")
  /\ UNCHANGED <<rowVars, told, feedback>>

SendTrustsTimeout(h) ==
  LET c == SendCall(handler[h].act, handler[h].draft) IN
  /\ At(h, "send")
  /\ \/ (Succeeds(c) \/ TimesOut(c)) /\ Say(h, "sent")
     \/ Fails(c) /\ Goto(h, "release")
  /\ UNCHANGED <<rowVars, told, feedback>>

SendHidesTimeout(h) ==
  LET c == SendCall(handler[h].act, handler[h].draft) IN
  /\ At(h, "send")
  /\ \/ Succeeds(c) /\ Say(h, "sent")
     \/ TimesOut(c) /\ Goto(h, "silent")
     \/ Fails(c)    /\ Goto(h, "release")
  /\ UNCHANGED <<rowVars, told, feedback>>

(* sendDraftReply, and handleSendFailure's choice between the two errors.  *)
Send(h) ==
  LET c == SendCall(handler[h].act, handler[h].draft) IN
  /\ At(h, "send")
  /\ \/ Succeeds(c) /\ Say(h, "sent")
     \/ TimesOut(c) /\ Say(h, "unsure")
     \/ Fails(c)    /\ Goto(h, "release")
  /\ UNCHANGED <<rowVars, told, feedback>>

\* Mutation: the release writes a status the enum does not have.
ReleaseToUnknown(h) ==
  /\ At(h, "release")
  /\ SetStatus(handler[h].act, "released")
  /\ Goto(h, "threw")
  /\ UNCHANGED <<refCode, payload, aged, drafted, gmailVars, late, told, feedback>>

(* releasePendingAction has no condition on the status it overwrites.      *)
Release(h) ==
  /\ At(h, "release")
  /\ SetStatus(handler[h].act, "pending")
  /\ Goto(h, "threw")
  /\ UNCHANGED <<refCode, payload, aged, drafted, gmailVars, late, told, feedback>>

(* discardDraft's delete is best effort: every outcome goes on.            *)
DiscardDelete(h) ==
  LET c == DeleteCall(handler[h].act, handler[h].draft) IN
  /\ At(h, "discardDelete")
  /\ Succeeds(c) \/ Fails(c) \/ TimesOut(c)
  /\ Goto(h, "feedback")
  /\ UNCHANGED <<rowVars, told, feedback>>

LogDiscardFeedback(h) ==
  LET a == handler[h].act IN
  /\ At(h, "feedback")
  /\ \/ feedback' = [feedback EXCEPT ![a] = IF @ = 0 THEN 1 ELSE 2]
     \/ "refuse" \in Faults /\ UNCHANGED feedback
  /\ Say(h, "discarded")
  /\ UNCHANGED <<storeVars, told>>

(* rewriteDraftBody: a new body, nothing usable or the same body, an error.*)
Rewrite(h) ==
  /\ At(h, "rewrite")
  /\ \/ Goto(h, "reviseDelete")
     \/ Say(h, "unrevised")
     \/ "refuse" \in Faults /\ Goto(h, "threw")
  /\ UNCHANGED <<storeVars, told, feedback>>

\* Mutation: the revision's delete is best effort, like discardDraft's.
ReviseDeleteBestEffort(h) ==
  LET c == DeleteCall(handler[h].act, handler[h].draft) IN
  /\ At(h, "reviseDelete")
  /\ Succeeds(c) \/ Fails(c) \/ TimesOut(c)
  /\ Goto(h, "create")
  /\ UNCHANGED <<rowVars, told, feedback>>

ReviseDelete(h) ==
  LET c == DeleteCall(handler[h].act, handler[h].draft) IN
  /\ At(h, "reviseDelete")
  /\ \/ Succeeds(c) /\ Goto(h, "create")
     \/ (Fails(c) \/ TimesOut(c)) /\ Goto(h, "threw")
  /\ UNCHANGED <<rowVars, told, feedback>>

(* createDraftReply; from here on the handler holds the new draft's id.    *)
Create(h) ==
  LET c == CreateCall(handler[h].act) IN
  /\ At(h, "create")
  /\ \/ \E d \in Drafts :
          /\ Created(handler[h].act, d)
          /\ UNCHANGED late
          /\ handler' = [handler EXCEPT ![h].pc = "mark", ![h].draft = d]
     \/ (Fails(c) \/ TimesOut(c)) /\ Goto(h, "threw")
  /\ UNCHANGED <<rowVars, told, feedback>>

MarkEmailDrafted(h) ==
  /\ At(h, "mark")
  /\ drafted' = [drafted EXCEPT ![handler[h].act] = handler[h].draft]
  /\ Goto(h, "save")
  /\ UNCHANGED <<status, refCode, payload, aged, gmailVars, late, told, feedback>>

(* updatePendingActionPayload, whatever the status has become.             *)
UpdatePayload(h) ==
  /\ At(h, "save")
  /\ payload' = [payload EXCEPT ![handler[h].act] = handler[h].draft]
  /\ Say(h, "ready")
  /\ UNCHANGED <<status, refCode, aged, drafted, gmailVars, late, told, feedback>>

(* sendSignalNotice and sendDraftReadyMessage never throw.  When Signal is *)
(* not configured, linked or reached they return ok: false, which the      *)
(* handler does not look at.                                               *)
Notify(h) ==
  LET note == handler[h].note IN
  /\ At(h, "notify")
  /\ \E word \in {note} \cup (IF "unsaid" \in Faults THEN {"unheard"} ELSE {}) :
       told' = IF note \in Verdicts
               THEN [told EXCEPT ![handler[h].act] = @ \cup {word}] ELSE told
  /\ Goto(h, "acked")
  /\ UNCHANGED <<storeVars, feedback>>

Return(h) ==
  /\ handler[h].pc \in Finished
  /\ handler' = [handler EXCEPT ![h] = Idle]
  /\ UNCHANGED <<storeVars, told, feedback>>

(* The Gmail call a handler is waiting for, if any.                        *)
InFlight(h) ==
  LET a == handler[h].act
      d == handler[h].draft
  IN  CASE handler[h].pc = "send"          -> {SendCall(a, d)}
        [] handler[h].pc = "discardDelete" -> {DeleteCall(a, d)}
        [] handler[h].pc = "reviseDelete"  -> {DeleteCall(a, d)}
        [] handler[h].pc = "create"        -> {CreateCall(a)}
        [] OTHER -> {}

(* The invocation is killed at its 60 s limit, or a database call throws:  *)
(* nothing it would still do happens, save a Gmail call already on its way.*)
Abort(h) ==
  /\ "abort" \in Faults
  /\ handler[h].pc \notin Finished \cup {"idle"}
  /\ \E issued \in SUBSET InFlight(h) : late' = late \cup issued
  /\ Goto(h, "threw")
  /\ UNCHANGED <<rowVars, gmailVars, told, feedback>>

-----------------------------------------------------------------------------
Step(h) ==
  \/ ClaimSend(h)    \/ Send(h)          \/ Release(h)
  \/ ClaimDiscard(h) \/ DiscardDelete(h) \/ LogDiscardFeedback(h)
  \/ Rewrite(h)      \/ ReviseDelete(h)  \/ Create(h)
  \/ MarkEmailDrafted(h) \/ UpdatePayload(h)
  \/ Notify(h)       \/ Return(h)

HandlerNext(h) == Receive(h) \/ ReceiveFreeform(h) \/ Step(h) \/ Abort(h)

Environment ==
  /\ \/ ExpireStale
     \/ \E a \in Actions : Age(a)
     \/ LateCall
  /\ UNCHANGED <<handler, told, feedback>>

Next == (\E h \in Handlers : HandlerNext(h)) \/ Environment

Spec == Init /\ [][Next]_vars

(* Every await of a handler returns: Gmail calls end after 30 s at the     *)
(* latest, Signal and Groq calls have timeouts of their own.               *)
FairSpec == Spec /\ \A h \in Handlers : WF_vars(Step(h))

-----------------------------------------------------------------------------
(* Properties.                                                             *)

LiveDrafts(a) == {d \in Drafts : gmail[d] = "live" /\ owner[d] = a}

(* At most one mail is sent for a draft, however replies are retried,      *)
(* overlap, or time out (confirmDraftSend claims before it sends).         *)
AtMostOneMail == \A a \in Actions : delivered[a] <= 1

(* A row whose mail was sent, or may still be sent by a call nobody waits  *)
(* for, stays confirmed: handleSendFailure never hands such a draft back,  *)
(* and no discard or expiry claims it.                                     *)
MailedStaysConfirmed ==
  \A a \in Actions :
    (delivered[a] > 0 \/ \E c \in late : c.op = "send" /\ c.act = a)
      => status[a] = "confirmed"

(* From its claim to the release a sender is alone with its row, which is  *)
(* confirmed and for which nothing was or will be mailed by anybody else:  *)
(* what makes the unconditional releasePendingAction safe.                 *)
SenderIsAlone ==
  \A h \in Handlers :
    handler[h].pc \in Sending =>
      LET a == handler[h].act IN
      /\ status[a] = "confirmed" /\ delivered[a] = 0
      /\ \A c \in late : c.op = "send" => c.act # a
      /\ \A g \in Handlers : g # h /\ handler[g].pc \in Sending => handler[g].act # a

(* A send that timed out is the only one its row has left, and nothing was *)
(* mailed before it.                                                       *)
LateSendIsLast ==
  \A c \in late :
    c.op = "send" =>
      /\ delivered[c.act] = 0
      /\ \A e \in late : e.op = "send" /\ e.act = c.act => e = c

(* Whoever is about to send, now or late, is the only one.                 *)
OneSendAtATime == SenderIsAlone /\ LateSendIsLast

(* The inductive invariant behind AtMostOneMail.                           *)
ClaimInv ==
  AtMostOneMail /\ MailedStaysConfirmed /\ SenderIsAlone /\ LateSendIsLast

(* What the user is told is so: "sent" only of a mail that went out, and   *)
(* never "discarded" of a draft that was sent or may have been.            *)
VerdictsAreTrue ==
  \A a \in Actions :
    /\ "sent" \in told[a] => delivered[a] > 0
    /\ "discarded" \in told[a] =>
         delivered[a] = 0 /\ told[a] \cap {"sent", "unsure"} = {}

(* A draft counts as declined at most once in the feedback triage learns   *)
(* from, and only if the discard stood (logDiscardFeedback).               *)
FeedbackOnce ==
  \A a \in Actions : feedback[a] > 0 => feedback[a] = 1 /\ status[a] = "discarded"

(* What the user hears and triage learns of a draft is what became of it,  *)
(* however replies overlap and calls take effect late.                     *)
OutcomesAreTrue == VerdictsAreTrue /\ FeedbackOnce

(* However revisions, discards, timeouts and late calls interleave, an     *)
(* email never has two drafts in Gmail (reviseDraft deletes, then creates).*)
OneLiveDraft == \A a \in Actions : Cardinality(LiveDrafts(a)) <= 1

(* processed_emails and pending_actions name the same draft, except while  *)
(* a revision is between its two writes.                                   *)
TablesAgree ==
  \A a \in Actions :
    drafted[a] = payload[a] \/ \E h \in Handlers : handler[h].act = a /\ At(h, "save")

(* An email has one draft, and both tables name it, after any revisions    *)
(* (reviseDraft).                                                          *)
OneDraftEverywhere == OneLiveDraft /\ TablesAgree

(* Discarded and expired are final, and a confirmed row is only ever       *)
(* handed back to pending before anything was mailed for it.               *)
SettledIsFinal ==
  [][\A a \in Actions :
       /\ status[a] \in {"discarded", "expired"} => status'[a] = status[a]
       /\ status[a] = "confirmed" =>
            status'[a] = "confirmed" \/ (status'[a] = "pending" /\ delivered[a] = 0)]_vars

(* A confirmed send never just stays as it is: it goes out, the row is     *)
(* handed back for a retry, or the user is warned to check.  The warning   *)
(* is tried once: where Signal does not deliver it, the user hears nothing *)
(* of a mail that may or may not have gone out (handleSendFailure).        *)
SendSettles ==
  \A a \in Actions :
    status[a] = "confirmed" ~>
      (delivered[a] > 0 \/ status[a] = "pending" \/ told[a] \cap {"unsure", "unheard"} # {})

(* The reply handlers implement the decide-once specification.             *)
Verdict ==
  [a \in Actions |->
     CASE status[a] = "confirmed" -> IF delivered[a] > 0 THEN "mailed" ELSE "committed"
       [] status[a] \in {"discarded", "expired"} -> status[a]
       [] OTHER -> "open"]

Decision == INSTANCE DraftDecision WITH verdict <- Verdict, mails <- delivered
ImplementsDecision == Decision!Spec
=============================================================================
