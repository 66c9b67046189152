------------------------ MODULE DraftApprovalProofs ------------------------
(* Proofs about DraftApproval for every set of rows, drafts and handlers.  *)
EXTENDS DraftApproval, FiniteSetTheorems, TLAPS

(* The handlers past their lookup hold a row.                              *)
Busy == Pc \ (Finished \cup {"idle", "notify"})
HoldsRow == \A h \in Handlers : handler[h].pc \in Busy => handler[h].act \in Actions

LEMMA InitTyped == Init => TypeOK /\ HoldsRow
  BY HandlerAssumption, StoreAssumption
  DEF Init, TypeOK, StoreTypeOK, HoldsRow, HandlerState, Idle, Pc, Busy, Finished,
      Sending, Revising, Notices, Verdicts, ActionStatus, DraftState, Calls

(* A send call changes the mailbox or nothing, and moves its handler on.   *)
LEMMA SendTyped ==
  ASSUME TypeOK, HoldsRow, NEW h \in Handlers, Send(h)
  PROVE  TypeOK' /\ HoldsRow'
  <1> DEFINE a == handler[h].act
             d == handler[h].draft
             c == SendCall(a, d)
  <1>1. handler \in [Handlers -> HandlerState] /\ handler[h] \in HandlerState
    BY DEF TypeOK
  <1>2. /\ handler[h].pc = "send"
        /\ UNCHANGED <<rowVars, told, feedback>>
        /\ late' \in {late, late \cup {c}}
        /\ UNCHANGED gmailVars \/ Sent(a, d)
    BY DEF Send, At, Succeeds, Fails, TimesOut, Applied, NotApplied, SendCall
  <1>3. PICK n \in {"sent", "unsure"} : Say(h, n) \/ Goto(h, "release")
    BY DEF Send
  <1>4. a \in Actions /\ d \in Drafts \cup {NoDraft}
    BY <1>1, <1>2 DEF HoldsRow, HandlerState, Busy, Pc, Finished, Sending, Revising
  <1> HIDE DEF a, d
  <1>5. PICK r \in HandlerState :
          /\ handler' = [handler EXCEPT ![h] = r]
          /\ r.pc \in Busy => r.act \in Actions
    <2>1. CASE Say(h, n)
      <3> DEFINE r == [handler[h] EXCEPT !.pc = "notify", !.note = n]
      <3>1. r \in HandlerState /\ r.pc = "notify"
        BY <1>1 DEF HandlerState, Pc, Notices, Verdicts, Finished, Sending, Revising
      <3>2. handler' = [handler EXCEPT ![h] = r]
        BY <1>1, <2>1 DEF Say, HandlerState
      <3> HIDE DEF r
      <3>3. QED
        BY <3>1, <3>2 DEF Busy
    <2>2. CASE Goto(h, "release")
      <3> DEFINE r == [handler[h] EXCEPT !.pc = "release"]
      <3>1. r \in HandlerState /\ r.act = a
        BY <1>1 DEF HandlerState, Pc, Finished, Sending, Revising, a
      <3>2. handler' = [handler EXCEPT ![h] = r]
        BY <1>1, <2>2 DEF Goto, HandlerState
      <3> HIDE DEF r
      <3>3. QED
        BY <1>4, <3>1, <3>2
    <2>3. QED
      BY <1>3, <2>1, <2>2
  <1>6. handler' \in [Handlers -> HandlerState] /\ HoldsRow'
    BY <1>1, <1>5 DEF HoldsRow
  <1>7. gmail' \in [Drafts -> DraftState] /\ delivered' \in [Actions -> 0..2]
        /\ owner' = owner
    BY <1>2, <1>4 DEF TypeOK, StoreTypeOK, Sent, gmailVars, DraftState
  <1>8. late' \subseteq Calls
    BY <1>2, <1>4 DEF TypeOK, StoreTypeOK, Calls, SendCall
  <1>9. QED
    BY <1>2, <1>6, <1>7, <1>8 DEF TypeOK, StoreTypeOK, rowVars

LEMMA StepTyped ==
  ASSUME TypeOK, HoldsRow, [Next]_vars PROVE TypeOK' /\ HoldsRow'
  <1> USE StoreAssumption, HandlerAssumption
      DEF TypeOK, StoreTypeOK, HoldsRow, HandlerState, Idle, Pc, Busy, Finished,
          Sending, Revising, Notices, Verdicts, ActionStatus, DraftState, Calls,
          vars, storeVars, rowVars, gmailVars, At, Goto, Say
  <1>1. ASSUME NEW h \in Handlers, Receive(h) \/ ReceiveFreeform(h)
        PROVE  TypeOK' /\ HoldsRow'
    BY <1>1 DEF Receive, ReceiveFreeform, Matching
  <1>2. ASSUME NEW h \in Handlers, ClaimSend(h) \/ ClaimDiscard(h) \/ Release(h)
        PROVE  TypeOK' /\ HoldsRow'
    BY <1>2 DEF ClaimSend, ClaimDiscard, Release, Claim, SetStatus
  <1>3. ASSUME NEW h \in Handlers, Send(h)
        PROVE  TypeOK' /\ HoldsRow'
    BY <1>3, SendTyped
  <1>4. ASSUME NEW h \in Handlers, DiscardDelete(h) \/ ReviseDelete(h)
        PROVE  TypeOK' /\ HoldsRow'
    BY <1>4 DEF DiscardDelete, ReviseDelete, Succeeds, Fails, TimesOut, Applied,
                NotApplied, DeleteCall, Sent, Deleted, Created
  <1>5. ASSUME NEW h \in Handlers, Create(h)
        PROVE  TypeOK' /\ HoldsRow'
    <2>1. ASSUME NEW d \in Drafts, At(h, "create"), Created(handler[h].act, d),
                 late' = late, rowVars' = rowVars, told' = told, feedback' = feedback,
                 handler' = [handler EXCEPT ![h].pc = "mark", ![h].draft = d]
          PROVE  TypeOK' /\ HoldsRow'
      <3>1. handler' \in [Handlers -> HandlerState] /\ HoldsRow'
        <4>1. handler[h] \in HandlerState
          BY DEF TypeOK
        <4>2. [handler[h] EXCEPT !.pc = "mark", !.draft = d] \in HandlerState
          BY <4>1
        <4>3. handler' = [handler EXCEPT ![h] = [handler[h] EXCEPT !.pc = "mark", !.draft = d]]
          BY <2>1, <4>1
        <4>4. QED
          BY <2>1, <4>2, <4>3
      <3>2. StoreTypeOK'
        BY <2>1 DEF Created
      <3>3. QED
        BY <2>1, <3>1, <3>2
    <2>2. ASSUME NEW d \in Drafts, At(h, "create"), Created(handler[h].act, d),
                 late' = late, rowVars' = rowVars, told' = told, feedback' = feedback,
                 Goto(h, "threw")
          PROVE  TypeOK' /\ HoldsRow'
      BY <2>2 DEF Created
    <2>3. ASSUME At(h, "create"), NotApplied,
                 late' \in {late, late \cup {CreateCall(handler[h].act)}},
                 rowVars' = rowVars, told' = told, feedback' = feedback,
                 Goto(h, "threw")
          PROVE  TypeOK' /\ HoldsRow'
      BY <2>3 DEF NotApplied, CreateCall
    <2>4. QED
      BY <1>5, <2>1, <2>2, <2>3
      DEF Create, Fails, TimesOut, Applied, CreateCall, Created, Sent, Deleted
  <1>6. ASSUME NEW h \in Handlers,
               LogDiscardFeedback(h) \/ Rewrite(h) \/ MarkEmailDrafted(h)
                 \/ UpdatePayload(h) \/ Notify(h) \/ Return(h)
        PROVE  TypeOK' /\ HoldsRow'
    BY <1>6 DEF LogDiscardFeedback, Rewrite, MarkEmailDrafted, UpdatePayload,
                Notify, Return
  <1>7. ASSUME NEW h \in Handlers, Abort(h)
        PROVE  TypeOK' /\ HoldsRow'
    BY <1>7 DEF Abort, InFlight, SendCall, DeleteCall, CreateCall
  <1>8. ASSUME Environment
        PROVE  TypeOK' /\ HoldsRow'
    BY <1>8 DEF Environment, ExpireStale, Age, LateCall, Applied, NotApplied,
                Sent, Deleted, Created
  <1>9. CASE UNCHANGED vars
    BY <1>9
  <1>10. QED
    BY <1>1, <1>2, <1>3, <1>4, <1>5, <1>6, <1>7, <1>8, <1>9
    DEF Next, HandlerNext, Step

(* Every variable keeps its type, and no handler acts on a row it did not  *)
(* find (TypeOK of the runs, for every value of the constants).            *)
THEOREM TypeCorrect == Spec => [](TypeOK /\ HoldsRow)
  BY InitTyped, StepTyped, PTL DEF Spec

-----------------------------------------------------------------------------
(* A step that mails nothing, starts no send, and takes no row away from   *)
(* "confirmed".                                                            *)
Bystander ==
  /\ delivered' = delivered
  /\ \A a \in Actions : status[a] = "confirmed" => status'[a] = "confirmed"
  /\ \A c \in late' : c.op = "send" => c \in late
  /\ \A h \in Handlers :
       handler'[h].pc \in Sending =>
         handler[h].pc \in Sending /\ handler'[h].act = handler[h].act

LEMMA BystanderKeepsClaims ==
  ASSUME TypeOK, HoldsRow, ClaimInv, Bystander PROVE ClaimInv'
  <1>1. \A h \in Handlers : handler[h].pc \in Sending => handler[h].act \in Actions
    BY DEF HoldsRow, Busy, Pc, Sending, Finished, Revising
  <1>2. AtMostOneMail' /\ MailedStaysConfirmed'
    BY DEF ClaimInv, Bystander, AtMostOneMail, MailedStaysConfirmed
  <1>3. SenderIsAlone'
    BY <1>1 DEF ClaimInv, Bystander, SenderIsAlone
  <1>4. LateSendIsLast'
    BY DEF ClaimInv, Bystander, LateSendIsLast
  <1>5. QED
    BY <1>2, <1>3, <1>4 DEF ClaimInv

LEMMA ClaimSendKeepsClaims ==
  ASSUME TypeOK, HoldsRow, ClaimInv, NEW h \in Handlers, ClaimSend(h)
  PROVE  ClaimInv'
  <1> DEFINE a == handler[h].act
  <1>1. a \in Actions /\ handler[h].pc = "claimSend"
    BY DEF HoldsRow, Busy, Pc, Finished, Sending, Revising, ClaimSend, Claim, At
  <1>2. CASE ~Claimable(a)
    <2>1. Bystander
      BY <1>1, <1>2 DEF ClaimSend, Claim, Goto, Bystander, TypeOK, HandlerState,
                         Sending, gmailVars
    <2>2. QED
      BY <2>1, BystanderKeepsClaims
  <1>3. CASE Claimable(a)
    <2>1. /\ status' = [status EXCEPT ![a] = "confirmed"]
          /\ handler' = [handler EXCEPT ![h].pc = "send"]
          /\ delivered' = delivered /\ late' = late
          /\ status[a] = "pending"
      BY <1>1, <1>3 DEF ClaimSend, Claim, Goto, SetStatus, gmailVars, Claimable
    <2>2. delivered[a] = 0 /\ \A c \in late : c.op = "send" => c.act # a
      BY <1>1, <2>1 DEF ClaimInv, MailedStaysConfirmed, TypeOK, StoreTypeOK
    <2>3. AtMostOneMail' /\ MailedStaysConfirmed' /\ LateSendIsLast'
      BY <1>1, <2>1, <2>2 DEF ClaimInv, AtMostOneMail, MailedStaysConfirmed,
                               LateSendIsLast, TypeOK, StoreTypeOK
    <2>4. \A g \in Handlers : handler[g].pc \in Sending => handler[g].act # a
      BY <2>1 DEF ClaimInv, SenderIsAlone
    <2>5. \A g \in Handlers \ {h} : handler'[g] = handler[g]
      BY <2>1 DEF TypeOK
    <2>6. handler'[h].pc \in Sending /\ handler'[h].act = a
      BY <2>1 DEF TypeOK, HandlerState, Sending
    <2>7. \A g \in Handlers : handler[g].pc \in Sending => handler[g].act \in Actions
      BY DEF HoldsRow, Busy, Pc, Sending, Finished, Revising
    <2>8. SenderIsAlone'
      BY <1>1, <2>1, <2>2, <2>4, <2>5, <2>6, <2>7
      DEF ClaimInv, SenderIsAlone, TypeOK, StoreTypeOK
    <2>9. QED
      BY <2>3, <2>8 DEF ClaimInv
  <1>4. QED
    BY <1>2, <1>3

(* Sending a row's mail, or leaving its only send call behind, while its   *)
(* sender leaves the sending states.                                       *)
LEMMA LeavingSendKeepsClaims ==
  ASSUME TypeOK, HoldsRow, ClaimInv, NEW h \in Handlers, At(h, "send"),
         NEW a, a = handler[h].act,
         status' = status,
         \A g \in Handlers \ {h} : handler'[g] = handler[g],
         handler'[h].pc \notin Sending,
         \/ /\ delivered' = [delivered EXCEPT ![a] = IF @ = 0 THEN 1 ELSE 2]
            /\ late' = late
         \/ /\ delivered' = delivered
            /\ late' = late \cup {SendCall(a, handler[h].draft)}
  PROVE  ClaimInv'
  <1>1. a \in Actions
    BY DEF HoldsRow, Busy, Pc, Finished, Sending, Revising, At
  <1>2. /\ status[a] = "confirmed" /\ delivered[a] = 0
        /\ \A c \in late : c.op = "send" => c.act # a
        /\ \A g \in Handlers : g # h /\ handler[g].pc \in Sending => handler[g].act # a
    BY DEF ClaimInv, SenderIsAlone, At, Sending
  <1>3. \A g \in Handlers :
          handler'[g].pc \in Sending => g # h /\ handler'[g] = handler[g]
                                       /\ handler[g].act \in Actions
    BY DEF HoldsRow, Busy, Pc, Finished, Sending, Revising
  <1>4. AtMostOneMail'
    BY <1>1, <1>2 DEF ClaimInv, AtMostOneMail, TypeOK, StoreTypeOK
  <1>5. MailedStaysConfirmed'
    BY <1>1, <1>2 DEF ClaimInv, MailedStaysConfirmed, TypeOK, StoreTypeOK, SendCall
  <1>6. SenderIsAlone'
    <2> SUFFICES ASSUME NEW g \in Handlers, handler'[g].pc \in Sending
                 PROVE  LET b == handler'[g].act IN
                        /\ status'[b] = "confirmed" /\ delivered'[b] = 0
                        /\ \A c \in late' : c.op = "send" => c.act # b
                        /\ \A f \in Handlers :
                             f # g /\ handler'[f].pc \in Sending => handler'[f].act # b
      BY DEF SenderIsAlone
    <2>1. handler'[g] = handler[g] /\ g # h /\ handler[g].act # a
      BY <1>2, <1>3
    <2>2. /\ status[handler[g].act] = "confirmed" /\ delivered[handler[g].act] = 0
          /\ \A c \in late : c.op = "send" => c.act # handler[g].act
          /\ \A f \in Handlers :
               f # g /\ handler[f].pc \in Sending => handler[f].act # handler[g].act
      BY <2>1 DEF ClaimInv, SenderIsAlone
    <2>3. delivered'[handler[g].act] = 0
      BY <1>3, <2>1, <2>2 DEF TypeOK, StoreTypeOK
    <2>4. \A c \in late' : c.op = "send" => c.act # handler[g].act
      BY <2>1, <2>2 DEF SendCall
    <2>5. QED
      BY <1>3, <2>1, <2>2, <2>3, <2>4
  <1>7. LateSendIsLast'
    <2> SUFFICES ASSUME NEW c \in late', c.op = "send"
                 PROVE  /\ delivered'[c.act] = 0
                        /\ \A e \in late' : e.op = "send" /\ e.act = c.act => e = c
      BY DEF LateSendIsLast
    <2>1. CASE c \in late
      <3>1. c.act # a /\ delivered[c.act] = 0
            /\ \A e \in late : e.op = "send" /\ e.act = c.act => e = c
        BY <1>2, <2>1 DEF ClaimInv, LateSendIsLast
      <3>2. c.act \in Actions
        BY <2>1 DEF TypeOK, StoreTypeOK, Calls
      <3>3. QED
        BY <1>1, <3>1, <3>2 DEF SendCall, TypeOK, StoreTypeOK
    <2>2. CASE c \notin late
      BY <1>1, <1>2, <2>2 DEF SendCall, TypeOK, StoreTypeOK
    <2>3. QED
      BY <2>1, <2>2
  <1>8. QED
    BY <1>4, <1>5, <1>6, <1>7 DEF ClaimInv

LEMMA SendKeepsClaims ==
  ASSUME TypeOK, HoldsRow, ClaimInv, "lost" \notin Faults, NEW h \in Handlers, Send(h)
  PROVE  ClaimInv'
  <1> DEFINE a == handler[h].act
             c == SendCall(a, handler[h].draft)
  <1>1. At(h, "send") /\ status' = status
    BY DEF Send, rowVars
  <1>2. CASE Succeeds(c) /\ Say(h, "sent")
    <2>1. /\ delivered' = [delivered EXCEPT ![a] = IF @ = 0 THEN 1 ELSE 2]
          /\ late' = late
      BY <1>2 DEF Succeeds, Applied, SendCall, Sent
    <2>2. /\ \A g \in Handlers \ {h} : handler'[g] = handler[g]
          /\ handler'[h].pc = "notify"
      BY <1>2 DEF Say, TypeOK, HandlerState
    <2>3. QED
      BY <1>1, <2>1, <2>2, LeavingSendKeepsClaims DEF Sending
  <1>3. CASE TimesOut(c) /\ Say(h, "unsure")
    <2>1. delivered' = delivered /\ late' = late \cup {c}
      BY <1>3 DEF TimesOut, NotApplied, gmailVars
    <2>2. /\ \A g \in Handlers \ {h} : handler'[g] = handler[g]
          /\ handler'[h].pc = "notify"
      BY <1>3 DEF Say, TypeOK, HandlerState
    <2>3. QED
      BY <1>1, <2>1, <2>2, LeavingSendKeepsClaims DEF Sending
  <1>4. CASE Fails(c) /\ Goto(h, "release")
    <2>1. delivered' = delivered /\ late' = late
      BY <1>4 DEF Fails, NotApplied, gmailVars
    <2>2. Bystander
      BY <1>1, <1>4, <2>1 DEF Bystander, Goto, At, Sending, TypeOK, HandlerState
    <2>3. QED
      BY <2>2, BystanderKeepsClaims
  <1>5. QED
    BY <1>2, <1>3, <1>4 DEF Send

LEMMA ReleaseKeepsClaims ==
  ASSUME TypeOK, HoldsRow, ClaimInv, NEW h \in Handlers, Release(h)
  PROVE  ClaimInv'
  <1> DEFINE a == handler[h].act
  <1>1. /\ a \in Actions /\ handler[h].pc = "release"
        /\ status' = [status EXCEPT ![a] = "pending"]
        /\ delivered' = delivered /\ late' = late
    BY DEF Release, SetStatus, At, gmailVars, HoldsRow, Busy, Pc, Finished, Sending,
           Revising
  <1>2. /\ delivered[a] = 0
        /\ \A c \in late : c.op = "send" => c.act # a
        /\ \A g \in Handlers : g # h /\ handler[g].pc \in Sending => handler[g].act # a
    BY <1>1 DEF ClaimInv, SenderIsAlone, Sending
  <1>3. /\ \A g \in Handlers \ {h} : handler'[g] = handler[g]
        /\ handler'[h].pc \notin Sending
    BY DEF Release, Goto, TypeOK, HandlerState, Sending
  <1>4. \A g \in Handlers : handler[g].pc \in Sending => handler[g].act \in Actions
    BY DEF HoldsRow, Busy, Pc, Sending, Finished, Revising
  <1>5. AtMostOneMail' /\ LateSendIsLast'
    BY <1>1 DEF ClaimInv, AtMostOneMail, LateSendIsLast
  <1>6. MailedStaysConfirmed'
    BY <1>1, <1>2 DEF ClaimInv, MailedStaysConfirmed, TypeOK, StoreTypeOK
  <1>7. SenderIsAlone'
    BY <1>1, <1>2, <1>3, <1>4 DEF ClaimInv, SenderIsAlone, TypeOK, StoreTypeOK
  <1>8. QED
    BY <1>5, <1>6, <1>7 DEF ClaimInv

LEMMA AbortKeepsClaims ==
  ASSUME TypeOK, HoldsRow, ClaimInv, NEW h \in Handlers, Abort(h)
  PROVE  ClaimInv'
  <1>1. /\ status' = status /\ delivered' = delivered
        /\ \A g \in Handlers \ {h} : handler'[g] = handler[g]
        /\ handler'[h].pc = "threw"
    BY DEF Abort, Goto, rowVars, gmailVars, TypeOK, HandlerState
  <1>2. CASE At(h, "send")
    <2>1. late' \in {late, late \cup {SendCall(handler[h].act, handler[h].draft)}}
      BY <1>2 DEF Abort, InFlight, At
    <2>2. CASE late' = late
      <3>1. Bystander
        BY <1>1, <2>2 DEF Bystander, Sending
      <3>2. QED
        BY <3>1, BystanderKeepsClaims
    <2>3. CASE late' = late \cup {SendCall(handler[h].act, handler[h].draft)}
      BY <1>1, <1>2, <2>3, LeavingSendKeepsClaims DEF Sending
    <2>4. QED
      BY <2>1, <2>2, <2>3
  <1>3. CASE ~At(h, "send")
    <2>1. \A c \in late' : c.op = "send" => c \in late
      BY <1>3 DEF Abort, InFlight, At, DeleteCall, CreateCall
    <2>2. Bystander
      BY <1>1, <2>1 DEF Bystander, Sending
    <2>3. QED
      BY <2>2, BystanderKeepsClaims
  <1>4. QED
    BY <1>2, <1>3

(* A late send takes effect: the only one its row has left.                *)
LEMMA LateCallKeepsClaims ==
  ASSUME TypeOK, HoldsRow, ClaimInv, LateCall, UNCHANGED handler
  PROVE  ClaimInv'
  <1>1. PICK c \in late : /\ late' = late \ {c}
                          /\ Applied(c) \/ NotApplied
                          /\ status' = status
    BY DEF LateCall, rowVars
  <1>2. CASE c.op = "send" /\ Sent(c.act, c.draft)
    <2>1. /\ c.act \in Actions /\ delivered[c.act] = 0
          /\ \A e \in late' : e.op = "send" => e.act # c.act
          /\ status[c.act] = "confirmed"
      BY <1>1, <1>2 DEF ClaimInv, LateSendIsLast, MailedStaysConfirmed, TypeOK,
                         StoreTypeOK, Calls
    <2>2. delivered' = [delivered EXCEPT ![c.act] = 1]
      BY <1>2, <2>1 DEF Sent
    <2>3. \A h \in Handlers : handler[h].pc \in Sending =>
             handler[h].act # c.act /\ handler[h].act \in Actions
      BY <1>1, <1>2 DEF ClaimInv, SenderIsAlone, HoldsRow, Busy, Pc, Finished,
                         Sending, Revising
    <2>4. AtMostOneMail' /\ MailedStaysConfirmed'
      BY <1>1, <2>1, <2>2 DEF ClaimInv, AtMostOneMail, MailedStaysConfirmed,
                               TypeOK, StoreTypeOK
    <2>5. SenderIsAlone'
      BY <1>1, <2>2, <2>3 DEF ClaimInv, SenderIsAlone, TypeOK, StoreTypeOK
    <2>6. LateSendIsLast'
      BY <1>1, <2>1, <2>2 DEF ClaimInv, LateSendIsLast, TypeOK, StoreTypeOK, Calls
    <2>7. QED
      BY <2>4, <2>5, <2>6 DEF ClaimInv
  <1>3. CASE ~(c.op = "send" /\ Sent(c.act, c.draft))
    <2>1. Bystander
      BY <1>1, <1>3 DEF Bystander, Applied, NotApplied, Deleted, Created, gmailVars
    <2>2. QED
      BY <2>1, BystanderKeepsClaims
  <1>4. QED
    BY <1>2, <1>3

LEMMA StepKeepsClaims ==
  ASSUME TypeOK, HoldsRow, ClaimInv, "lost" \notin Faults, [Next]_vars
  PROVE  ClaimInv'
  <1> USE DEF vars, storeVars, rowVars, gmailVars, TypeOK, HandlerState, Sending,
              At, Goto, Say
  <1>1. ASSUME NEW h \in Handlers,
               \/ Receive(h) \/ ReceiveFreeform(h) \/ LogDiscardFeedback(h)
               \/ Rewrite(h) \/ MarkEmailDrafted(h) \/ UpdatePayload(h)
               \/ Notify(h)  \/ Return(h)
        PROVE  Bystander
    BY <1>1 DEF Bystander, Receive, ReceiveFreeform, LogDiscardFeedback, Rewrite,
                MarkEmailDrafted, UpdatePayload, Notify, Return, Idle
  <1>2. ASSUME NEW h \in Handlers, ClaimDiscard(h)
        PROVE  Bystander
    BY <1>2 DEF Bystander, ClaimDiscard, Claim, Claimable, SetStatus, StoreTypeOK
  <1>3. ASSUME NEW h \in Handlers, DiscardDelete(h) \/ ReviseDelete(h)
        PROVE  Bystander
    BY <1>3 DEF Bystander, DiscardDelete, ReviseDelete, Succeeds, Fails, TimesOut,
                Applied, NotApplied, DeleteCall, Deleted, Created
  <1>4. ASSUME NEW h \in Handlers, Create(h)
        PROVE  Bystander
    BY <1>4 DEF Bystander, Create, Fails, TimesOut, Applied, NotApplied,
                CreateCall, Created
  <1>5. ASSUME ExpireStale \/ (\E a \in Actions : Age(a)), UNCHANGED handler
        PROVE  Bystander
    BY <1>5 DEF Bystander, ExpireStale, Age, Claimable
  <1>6. CASE UNCHANGED vars
    BY <1>6, BystanderKeepsClaims DEF Bystander
  <1>7. QED
    BY <1>1, <1>2, <1>3, <1>4, <1>5, <1>6, BystanderKeepsClaims,
       ClaimSendKeepsClaims, SendKeepsClaims, ReleaseKeepsClaims, AbortKeepsClaims,
       LateCallKeepsClaims
    DEF Next, HandlerNext, Step, Environment

(* When an error without "timed out" means that nothing was mailed, the    *)
(* claim protocol is safe: AtMostOneMail, MailedStaysConfirmed and         *)
(* SenderIsAlone hold for every number of overlapping handlers, with       *)
(* refused and timed-out calls, late effects and aborts.                   *)
THEOREM ClaimsSafe ==
  ASSUME "lost" \notin Faults PROVE Spec => []ClaimInv
  <1>1. Init => ClaimInv
    BY DEF Init, ClaimInv, AtMostOneMail, MailedStaysConfirmed, SenderIsAlone,
           LateSendIsLast, Idle, Sending
  <1>2. TypeOK /\ HoldsRow /\ ClaimInv /\ [Next]_vars => ClaimInv'
    BY StepKeepsClaims
  <1>3. QED
    BY <1>1, <1>2, TypeCorrect, PTL DEF Spec

(* No draft is ever mailed twice, the point of claiming before sending.    *)
THEOREM NoDoubleSend ==
  ASSUME "lost" \notin Faults PROVE Spec => []AtMostOneMail
  <1>1. ClaimInv => AtMostOneMail
    BY DEF ClaimInv
  <1>2. QED
    BY <1>1, ClaimsSafe, PTL

(* Once a mail is out, or may still go out late, its row is confirmed for  *)
(* good: releasePendingAction never hands back a draft that was sent.      *)
THEOREM NoReleaseAfterMail ==
  ASSUME "lost" \notin Faults PROVE Spec => []MailedStaysConfirmed
  <1>1. ClaimInv => MailedStaysConfirmed
    BY DEF ClaimInv
  <1>2. QED
    BY <1>1, ClaimsSafe, PTL

(* Of all handlers applying replies to a draft, one at most is between     *)
(* claiming it and releasing it, with no earlier send outstanding.         *)
THEOREM OneSenderPerDraft ==
  ASSUME "lost" \notin Faults PROVE Spec => []OneSendAtATime
  <1>1. ClaimInv => OneSendAtATime
    BY DEF ClaimInv, OneSendAtATime
  <1>2. QED
    BY <1>1, ClaimsSafe, PTL

-----------------------------------------------------------------------------
(* Every step as the decision sees it.                                     *)
Untouched == status' = status /\ delivered' = delivered
Claims(a) ==
  /\ status[a] = "pending" /\ delivered' = delivered
  /\ \E s \in {"confirmed", "discarded"} : status' = [status EXCEPT ![a] = s]
HandsBack(a) ==
  /\ status[a] = "confirmed" /\ delivered[a] = 0 /\ delivered' = delivered
  /\ status' = [status EXCEPT ![a] = "pending"]
Mails(a) ==
  /\ status[a] = "confirmed" /\ delivered[a] = 0 /\ status' = status
  /\ delivered' = [delivered EXCEPT ![a] = 1]

DecisionStep ==
  \/ Untouched
  \/ \E a \in Actions : Claims(a) \/ HandsBack(a) \/ Mails(a)
  \/ ExpireStale

LEMMA EveryStepDecides ==
  ASSUME TypeOK, HoldsRow, ClaimInv, "lost" \notin Faults, [Next]_vars
  PROVE  DecisionStep
  <1> USE DEF vars, storeVars, rowVars, gmailVars, At
  <1>1. ASSUME NEW h \in Handlers,
               \/ Receive(h) \/ ReceiveFreeform(h) \/ LogDiscardFeedback(h)
               \/ Rewrite(h) \/ MarkEmailDrafted(h) \/ UpdatePayload(h)
               \/ Notify(h)  \/ Return(h) \/ Abort(h)
        PROVE  Untouched
    BY <1>1 DEF Untouched, Receive, ReceiveFreeform, LogDiscardFeedback, Rewrite,
                MarkEmailDrafted, UpdatePayload, Notify, Return, Abort
  <1>2. ASSUME NEW h \in Handlers, DiscardDelete(h) \/ ReviseDelete(h) \/ Create(h)
        PROVE  Untouched
    BY <1>2 DEF Untouched, DiscardDelete, ReviseDelete, Create, Succeeds, Fails,
                TimesOut, Applied, NotApplied, DeleteCall, CreateCall, Deleted, Created
  <1>3. ASSUME NEW h \in Handlers, ClaimSend(h) \/ ClaimDiscard(h)
        PROVE  Untouched \/ \E a \in Actions : Claims(a)
    BY <1>3 DEF Untouched, Claims, ClaimSend, ClaimDiscard, Claim, Claimable,
                SetStatus, HoldsRow, Busy, Pc, Finished, Sending, Revising
  <1>4. ASSUME NEW h \in Handlers, Send(h)
        PROVE  Untouched \/ \E a \in Actions : Mails(a)
    <2> DEFINE a == handler[h].act
               c == SendCall(a, handler[h].draft)
    <2>1. a \in Actions /\ status[a] = "confirmed" /\ delivered[a] = 0
      BY <1>4 DEF Send, ClaimInv, SenderIsAlone, HoldsRow, Busy, Pc, Finished,
                  Sending, Revising
    <2>2. CASE Succeeds(c)
      BY <1>4, <2>1, <2>2 DEF Send, Mails, Succeeds, Applied, SendCall, Sent
    <2>3. CASE TimesOut(c) \/ Fails(c)
      BY <1>4, <2>3 DEF Send, Untouched, TimesOut, Fails, NotApplied
    <2>4. QED
      BY <1>4, <2>2, <2>3 DEF Send
  <1>5. ASSUME NEW h \in Handlers, Release(h)
        PROVE  \E a \in Actions : HandsBack(a)
    BY <1>5 DEF Release, HandsBack, SetStatus, ClaimInv, SenderIsAlone, HoldsRow,
                Busy, Pc, Finished, Sending, Revising
  <1>6. ASSUME LateCall
        PROVE  Untouched \/ \E a \in Actions : Mails(a)
    <2>1. PICK c \in late : (Applied(c) \/ NotApplied) /\ status' = status
      BY <1>6 DEF LateCall
    <2>2. CASE c.op = "send" /\ Sent(c.act, c.draft)
      <3>1. c.act \in Actions /\ delivered[c.act] = 0 /\ status[c.act] = "confirmed"
        BY <2>1, <2>2 DEF ClaimInv, LateSendIsLast, MailedStaysConfirmed, TypeOK,
                           StoreTypeOK, Calls
      <3>2. QED
        BY <2>1, <2>2, <3>1 DEF Mails, Sent
    <2>3. CASE ~(c.op = "send" /\ Sent(c.act, c.draft))
      BY <2>1, <2>3 DEF Untouched, Applied, NotApplied, Deleted, Created
    <2>4. QED
      BY <2>2, <2>3
  <1>7. ASSUME \E a \in Actions : Age(a)
        PROVE  Untouched
    BY <1>7 DEF Untouched, Age
  <1>8. CASE UNCHANGED vars
    BY <1>8 DEF DecisionStep, Untouched
  <1>9. QED
    BY <1>1, <1>2, <1>3, <1>4, <1>5, <1>6, <1>7, <1>8
    DEF Next, HandlerNext, Step, Environment, DecisionStep

(* Discarded and expired are final; a confirmed row goes back to pending   *)
(* only before anything was mailed for it.                                 *)
THEOREM SettledRowsAreFinal ==
  ASSUME "lost" \notin Faults PROVE Spec => SettledIsFinal
  <1> DEFINE Final ==
        \A a \in Actions :
          /\ status[a] \in {"discarded", "expired"} => status'[a] = status[a]
          /\ status[a] = "confirmed" =>
               status'[a] = "confirmed" \/ (status'[a] = "pending" /\ delivered[a] = 0)
  <1>1. ASSUME TypeOK, HoldsRow, ClaimInv, [Next]_vars PROVE Final
    <2>1. DecisionStep
      BY <1>1, EveryStepDecides
    <2>2. QED
      BY <1>1, <2>1 DEF DecisionStep, Untouched, Claims, HandsBack, Mails, ExpireStale,
                        Claimable, TypeOK, StoreTypeOK
  <1>2. QED
    BY <1>1, TypeCorrect, ClaimsSafe, PTL DEF Spec, SettledIsFinal

-----------------------------------------------------------------------------
(* Refinement: a change of one row's status or mail count changes its      *)
(* verdict only.                                                           *)
VerdictOf(s, n) ==
  CASE s = "confirmed" -> IF n > 0 THEN "mailed" ELSE "committed"
    [] s \in {"discarded", "expired"} -> s
    [] OTHER -> "open"

LEMMA VerdictPointwise ==
  /\ Verdict  = [a \in Actions |-> VerdictOf(status[a], delivered[a])]
  /\ Verdict' = [a \in Actions |-> VerdictOf(status'[a], delivered'[a])]
  BY DEF Verdict, VerdictOf

(* The handlers, the expiry cron and late Gmail calls together implement   *)
(* the decide-once specification.                                          *)
THEOREM DecidesOnce ==
  ASSUME "lost" \notin Faults PROVE Spec => ImplementsDecision
  <1>1. Init => Decision!Init
    BY DEF Init, Decision!Init, Verdict
  <1>2. ASSUME TypeOK, HoldsRow, ClaimInv, [Next]_vars
        PROVE  [Decision!Next]_<<Verdict, delivered>>
    <2>1. CASE Untouched
      BY <2>1 DEF Untouched, Verdict
    <2>2. ASSUME NEW a \in Actions, Claims(a)
          PROVE  Decision!Commit(a) \/ Decision!Discard(a)
      <3>1. delivered[a] = 0
        BY <1>2, <2>2 DEF Claims, ClaimInv, MailedStaysConfirmed, TypeOK, StoreTypeOK
      <3>2. CASE status' = [status EXCEPT ![a] = "confirmed"]
        BY <1>2, <2>2, <3>1, <3>2, VerdictPointwise
        DEF Claims, Decision!Commit, Decision!Decide, VerdictOf, TypeOK, StoreTypeOK
      <3>3. CASE status' = [status EXCEPT ![a] = "discarded"]
        BY <1>2, <2>2, <3>1, <3>3, VerdictPointwise
        DEF Claims, Decision!Discard, Decision!Decide, VerdictOf, TypeOK, StoreTypeOK
      <3>4. QED
        BY <2>2, <3>2, <3>3 DEF Claims
    <2>3. ASSUME NEW a \in Actions, HandsBack(a)
          PROVE  Decision!TakeBack(a)
      BY <1>2, <2>3, VerdictPointwise
      DEF HandsBack, Decision!TakeBack, Decision!Decide, VerdictOf, TypeOK, StoreTypeOK
    <2>4. ASSUME NEW a \in Actions, Mails(a)
          PROVE  Decision!Mail(a)
      BY <1>2, <2>4, VerdictPointwise
      DEF Mails, Decision!Mail, Decision!Decide, VerdictOf, TypeOK, StoreTypeOK
    <2>5. CASE ExpireStale
      <3> DEFINE S == {a \in Actions : Claimable(a) /\ a \in aged}
      <3>1. Decision!Expire(S)
        BY <1>2, <2>5, VerdictPointwise
        DEF ExpireStale, Claimable, Decision!Expire, VerdictOf, gmailVars, TypeOK,
            StoreTypeOK
      <3>2. S \in SUBSET Actions
        OBVIOUS
      <3>3. QED
        BY <3>1, <3>2 DEF Decision!Next
    <2>6. QED
      BY <1>2, <2>1, <2>2, <2>3, <2>4, <2>5, EveryStepDecides
      DEF DecisionStep, Decision!Next
  <1>3. QED
    BY <1>1, <1>2, TypeCorrect, ClaimsSafe, PTL
    DEF Spec, ImplementsDecision, Decision!Spec
-----------------------------------------------------------------------------
(* What the user is told.  A mail whose fate is unknown leaves its row     *)
(* confirmed with no sender, and a discard leaves it discarded; neither    *)
(* can be undone, so neither can what was said of it.                      *)
Discarding == {"discardDelete", "feedback"}
Noting(h, note) == handler[h].pc = "notify" /\ handler[h].note = note

Unresolved ==
  {a \in Actions : /\ status[a] = "confirmed"
                   /\ \A h \in Handlers : handler[h].pc \in Sending => handler[h].act # a}

NoteIsTrue(h) ==
  /\ \A note \in Verdicts : Noting(h, note) => handler[h].act \in Actions
  /\ Noting(h, "sent") => delivered[handler[h].act] > 0
  /\ Noting(h, "unsure") => handler[h].act \in Unresolved
  /\ Noting(h, "discarded") => status[handler[h].act] = "discarded"

DiscardsAlone(h) ==
  handler[h].pc \in Discarding =>
    /\ status[handler[h].act] = "discarded" /\ feedback[handler[h].act] = 0
    /\ \A g \in Handlers :
         g # h /\ handler[g].pc \in Discarding => handler[g].act # handler[h].act

ToldIsTrue(a) ==
  /\ "sent" \in told[a] => delivered[a] > 0
  /\ "unsure" \in told[a] => a \in Unresolved
  /\ "discarded" \in told[a] => status[a] = "discarded"
  /\ feedback[a] > 0 => feedback[a] = 1 /\ status[a] = "discarded"

OutcomeInv ==
  /\ \A h \in Handlers : NoteIsTrue(h) /\ DiscardsAlone(h)
  /\ \A a \in Actions : ToldIsTrue(a)

(* A handler that moves on keeps what it read, and no other moves.         *)
LEMMA GotoFacts ==
  ASSUME TypeOK, NEW h \in Handlers, NEW pc, Goto(h, pc)
  PROVE  /\ handler'[h].pc = pc /\ handler'[h].act = handler[h].act
         /\ handler'[h].draft = handler[h].draft /\ handler'[h].note = handler[h].note
         /\ \A g \in Handlers \ {h} : handler'[g] = handler[g]
  BY DEF TypeOK, HandlerState, Goto

LEMMA SayFacts ==
  ASSUME TypeOK, NEW h \in Handlers, NEW note, Say(h, note)
  PROVE  /\ handler'[h].pc = "notify" /\ handler'[h].act = handler[h].act
         /\ handler'[h].note = note
         /\ \A g \in Handlers \ {h} : handler'[g] = handler[g]
  BY DEF TypeOK, HandlerState, Say

(* What a Gmail call, applied or not, never takes back.                    *)
LEMMA CallFacts ==
  ASSUME TypeOK, NEW c, c.act \in Actions, Applied(c) \/ NotApplied
  PROVE  /\ \A a \in Actions : delivered[a] > 0 => delivered'[a] > 0
         /\ \A d \in Drafts : gmail[d] # "unused" =>
              /\ gmail'[d] # "unused" /\ owner'[d] = owner[d]
              /\ gmail[d] # "live" => gmail'[d] # "live"
  <1>1. CASE NotApplied
    BY <1>1 DEF NotApplied, gmailVars
  <1>2. CASE c.op = "send" /\ Sent(c.act, c.draft)
    BY <1>2 DEF Sent, TypeOK, StoreTypeOK
  <1>3. CASE c.op = "delete" /\ Deleted(c.draft)
    BY <1>3 DEF Deleted, TypeOK, StoreTypeOK
  <1>4. CASE c.op = "create" /\ \E d \in Drafts : Created(c.act, d)
    BY <1>4 DEF Created, TypeOK, StoreTypeOK
  <1>5. QED
    BY <1>1, <1>2, <1>3, <1>4 DEF Applied

(* A step that says nothing, learns nothing, starts neither a send nor a   *)
(* discard, and reopens no row whose fate is settled or unknown.           *)
TellsNothing ==
  /\ told' = told /\ feedback' = feedback
  /\ \A a \in Actions :
       /\ delivered[a] > 0 => delivered'[a] > 0
       /\ status[a] = "discarded" => status'[a] = "discarded"
       /\ a \in Unresolved => status'[a] = "confirmed"
  /\ \A h \in Handlers :
       /\ handler'[h].pc \in Sending =>
            handler[h].pc \in Sending /\ handler'[h].act = handler[h].act
       /\ handler'[h].pc \in Discarding =>
            handler[h].pc \in Discarding /\ handler'[h].act = handler[h].act
       /\ \A note \in Verdicts : Noting(h, note)' =>
            Noting(h, note) /\ handler'[h].act = handler[h].act

LEMMA TellsNothingKeeps ==
  ASSUME TypeOK, HoldsRow, OutcomeInv, TellsNothing PROVE OutcomeInv'
  <1>1. Unresolved \subseteq Unresolved'
    BY DEF TellsNothing, Unresolved
  <1>2. \A h \in Handlers : handler[h].pc \in Discarding => handler[h].act \in Actions
    BY DEF HoldsRow, Busy, Pc, Finished, Sending, Revising, Discarding
  <1>3. ASSUME NEW h \in Handlers
        PROVE  NoteIsTrue(h)'
    <2>1. \A note \in Verdicts : Noting(h, note)' =>
            Noting(h, note) /\ handler'[h].act = handler[h].act /\ handler[h].act \in Actions
      BY DEF TellsNothing, OutcomeInv, NoteIsTrue
    <2>2. Noting(h, "sent")' => delivered'[handler'[h].act] > 0
      BY <2>1 DEF TellsNothing, OutcomeInv, NoteIsTrue, Verdicts
    <2>3. Noting(h, "unsure")' => handler'[h].act \in Unresolved'
      <3> SUFFICES ASSUME Noting(h, "unsure")' PROVE handler[h].act \in Unresolved'
        BY <2>1 DEF Verdicts
      <3>1. handler[h].act \in Actions /\ handler[h].act \in Unresolved
        BY <2>1 DEF OutcomeInv, NoteIsTrue, Verdicts
      <3>2. QED
        BY <1>1, <3>1
    <2>4. Noting(h, "discarded")' => status'[handler'[h].act] = "discarded"
      BY <2>1 DEF TellsNothing, OutcomeInv, NoteIsTrue, Verdicts
    <2>5. QED
      BY <2>1, <2>2, <2>3, <2>4 DEF NoteIsTrue
  <1>4. ASSUME NEW h \in Handlers
        PROVE  DiscardsAlone(h)'
    BY <1>2, <1>4 DEF TellsNothing, OutcomeInv, DiscardsAlone
  <1>5. ASSUME NEW a \in Actions
        PROVE  ToldIsTrue(a)'
    BY <1>1 DEF TellsNothing, OutcomeInv, ToldIsTrue
  <1>6. QED
    BY <1>3, <1>4, <1>5 DEF OutcomeInv

(* A pending row was neither mailed, nor left unresolved, nor discarded.   *)
LEMMA ClaimSendTellsTruth ==
  ASSUME TypeOK, HoldsRow, OutcomeInv, NEW h \in Handlers, ClaimSend(h)
  PROVE  OutcomeInv'
  <1> DEFINE a == handler[h].act
  <1>1. a \in Actions /\ handler[h].pc = "claimSend"
    BY DEF HoldsRow, Busy, Pc, Finished, Sending, Revising, ClaimSend, Claim, At
  <1>2. CASE ~Claimable(a)
    <2>1. TellsNothing
      BY <1>2, GotoFacts DEF ClaimSend, Claim, TellsNothing, Unresolved, Sending, Discarding,
                             Noting, gmailVars
    <2>2. QED
      BY <2>1, TellsNothingKeeps
  <1>3. CASE Claimable(a)
    <2>1. /\ status' = [status EXCEPT ![a] = "confirmed"] /\ status[a] = "pending"
          /\ delivered' = delivered /\ told' = told /\ feedback' = feedback
          /\ Goto(h, "send")
      BY <1>3 DEF ClaimSend, Claim, SetStatus, gmailVars, Claimable
    <2>2. \A b \in Actions : b # a => status'[b] = status[b]
      BY <2>1 DEF TypeOK, StoreTypeOK
    <2>3. /\ handler'[h].pc = "send" /\ handler'[h].act = a
          /\ \A g \in Handlers \ {h} : handler'[g] = handler[g]
      BY <2>1, GotoFacts
    <2>4. \A b \in Actions : b \in Unresolved => b # a /\ b \in Unresolved'
      BY <2>1, <2>2, <2>3 DEF Unresolved, Sending
    <2>5. ASSUME NEW b \in Actions
          PROVE  ToldIsTrue(b)'
      BY <2>1, <2>2, <2>4 DEF OutcomeInv, ToldIsTrue
    <2>6. ASSUME NEW g \in Handlers
          PROVE  NoteIsTrue(g)'
      <3>1. \A note \in Verdicts : Noting(g, note)' =>
              Noting(g, note) /\ handler'[g] = handler[g] /\ handler[g].act \in Actions
        BY <2>3 DEF Noting, OutcomeInv, NoteIsTrue
      <3>2. Noting(g, "unsure")' => handler'[g].act \in Unresolved'
        <4> SUFFICES ASSUME Noting(g, "unsure")' PROVE handler[g].act \in Unresolved'
          BY <3>1 DEF Verdicts
        <4>1. QED
          BY <2>4, <3>1 DEF OutcomeInv, NoteIsTrue, Verdicts
      <3>3. QED
        BY <2>1, <2>2, <3>1, <3>2 DEF OutcomeInv, NoteIsTrue, Verdicts
    <2>7. ASSUME NEW g \in Handlers
          PROVE  DiscardsAlone(g)'
      <3> SUFFICES ASSUME handler'[g].pc \in Discarding PROVE DiscardsAlone(g)'
        BY DEF DiscardsAlone
      <3>1. g # h /\ handler'[g] = handler[g] /\ handler[g].act \in Actions
        BY <2>3 DEF Discarding, HoldsRow, Busy, Pc, Finished, Sending, Revising
      <3>2. QED
        BY <2>1, <2>2, <2>3, <3>1 DEF OutcomeInv, DiscardsAlone, Discarding
    <2>8. QED
      BY <2>5, <2>6, <2>7 DEF OutcomeInv
  <1>4. QED
    BY <1>2, <1>3

LEMMA ClaimDiscardTellsTruth ==
  ASSUME TypeOK, HoldsRow, OutcomeInv, NEW h \in Handlers, ClaimDiscard(h)
  PROVE  OutcomeInv'
  <1> DEFINE a == handler[h].act
  <1>1. a \in Actions /\ handler[h].pc = "claimDiscard"
    BY DEF HoldsRow, Busy, Pc, Finished, Sending, Revising, ClaimDiscard, Claim, At
  <1>2. CASE ~Claimable(a)
    <2>1. TellsNothing
      BY <1>2, GotoFacts DEF ClaimDiscard, Claim, TellsNothing, Unresolved, Sending, Discarding,
                             Noting, gmailVars
    <2>2. QED
      BY <2>1, TellsNothingKeeps
  <1>3. CASE Claimable(a)
    <2>1. /\ status' = [status EXCEPT ![a] = "discarded"] /\ status[a] = "pending"
          /\ delivered' = delivered /\ told' = told /\ feedback' = feedback
          /\ Goto(h, "discardDelete")
      BY <1>3 DEF ClaimDiscard, Claim, SetStatus, gmailVars, Claimable
    <2>2. status'[a] = "discarded" /\ \A b \in Actions : b # a => status'[b] = status[b]
      BY <1>1, <2>1 DEF TypeOK, StoreTypeOK
    <2>3. /\ handler'[h].pc = "discardDelete" /\ handler'[h].act = a
          /\ \A g \in Handlers \ {h} : handler'[g] = handler[g]
      BY <2>1, GotoFacts
    <2>4. Unresolved \subseteq Unresolved'
      BY <2>1, <2>2, <2>3 DEF Unresolved, Sending
    <2>5. ASSUME NEW b \in Actions
          PROVE  ToldIsTrue(b)'
      BY <2>1, <2>2, <2>4 DEF OutcomeInv, ToldIsTrue
    <2>6. ASSUME NEW g \in Handlers
          PROVE  NoteIsTrue(g)'
      <3>1. \A note \in Verdicts : Noting(g, note)' =>
              Noting(g, note) /\ handler'[g] = handler[g] /\ handler[g].act \in Actions
        BY <2>3 DEF Noting, OutcomeInv, NoteIsTrue
      <3>2. QED
        BY <2>1, <2>2, <2>4, <3>1 DEF OutcomeInv, NoteIsTrue, Verdicts
    <2>7. feedback[a] = 0
      BY <1>1, <2>1 DEF OutcomeInv, ToldIsTrue, TypeOK, StoreTypeOK
    <2>8. \A g \in Handlers \ {h} : handler[g].pc \in Discarding =>
             handler[g].act \in Actions \ {a}
      BY <2>1 DEF OutcomeInv, DiscardsAlone, Discarding, HoldsRow, Busy, Pc, Finished, Sending,
                  Revising
    <2>9. ASSUME NEW g \in Handlers
          PROVE  DiscardsAlone(g)'
      <3>1. CASE g = h
        BY <2>1, <2>2, <2>3, <2>7, <2>8, <3>1 DEF DiscardsAlone
      <3>2. CASE g # h
        BY <2>1, <2>2, <2>3, <2>8, <2>9, <3>2 DEF OutcomeInv, DiscardsAlone
      <3>3. QED
        BY <3>1, <3>2
    <2>10. QED
      BY <2>5, <2>6, <2>9 DEF OutcomeInv
  <1>4. QED
    BY <1>2, <1>3

(* The sender was alone with its row: a mail that went out can be said     *)
(* so, and one whose fate is unknown leaves nobody to send or release it.  *)
LEMMA SendTellsTruth ==
  ASSUME TypeOK, HoldsRow, ClaimInv, OutcomeInv, NEW h \in Handlers, Send(h)
  PROVE  OutcomeInv'
  <1> DEFINE a == handler[h].act
             c == SendCall(a, handler[h].draft)
  <1>1. /\ handler[h].pc = "send" /\ a \in Actions
        /\ status' = status /\ told' = told /\ feedback' = feedback
    BY DEF Send, At, rowVars, HoldsRow, Busy, Pc, Finished, Sending, Revising
  <1>2. /\ status[a] = "confirmed"
        /\ \A g \in Handlers : g # h /\ handler[g].pc \in Sending => handler[g].act # a
    BY <1>1 DEF ClaimInv, SenderIsAlone, Sending
  <1>3. c.act = a /\ (Applied(c) \/ NotApplied)
    BY DEF Send, Succeeds, Fails, TimesOut, SendCall
  <1>4. \A b \in Actions : delivered[b] > 0 => delivered'[b] > 0
    BY <1>1, <1>3, CallFacts
  <1>5. CASE Goto(h, "release")
    <2>1. TellsNothing
      BY <1>1, <1>4, <1>5, GotoFacts DEF TellsNothing, Unresolved, Sending, Discarding, Noting
    <2>2. QED
      BY <2>1, TellsNothingKeeps
  <1>6. ASSUME NEW note \in {"sent", "unsure"}, Say(h, note), note = "sent" => delivered'[a] > 0
        PROVE  OutcomeInv'
    <2>1. /\ handler'[h].pc = "notify" /\ handler'[h].note = note /\ handler'[h].act = a
          /\ \A g \in Handlers \ {h} : handler'[g] = handler[g]
      BY <1>6, SayFacts
    <2>2. Unresolved \subseteq Unresolved' /\ a \in Unresolved'
      BY <1>1, <1>2, <2>1 DEF Unresolved, Sending
    <2>3. ASSUME NEW g \in Handlers
          PROVE  NoteIsTrue(g)'
      <3>1. CASE g = h
        BY <1>1, <1>6, <2>1, <2>2, <3>1 DEF NoteIsTrue, Noting
      <3>2. CASE g # h
        <4>1. \A n \in Verdicts : Noting(g, n)' =>
                Noting(g, n) /\ handler'[g] = handler[g] /\ handler[g].act \in Actions
          BY <2>1, <3>2 DEF Noting, OutcomeInv, NoteIsTrue
        <4>2. QED
          BY <1>1, <1>4, <2>2, <4>1 DEF OutcomeInv, NoteIsTrue, Verdicts
      <3>3. QED
        BY <3>1, <3>2
    <2>4. ASSUME NEW g \in Handlers
          PROVE  DiscardsAlone(g)'
      BY <1>1, <2>1, <2>4 DEF OutcomeInv, DiscardsAlone, Discarding
    <2>5. ASSUME NEW b \in Actions
          PROVE  ToldIsTrue(b)'
      BY <1>1, <1>4, <2>2 DEF OutcomeInv, ToldIsTrue
    <2>6. QED
      BY <2>3, <2>4, <2>5 DEF OutcomeInv
  <1>7. Succeeds(c) => delivered'[a] > 0
    BY <1>1 DEF Succeeds, Applied, SendCall, Sent, TypeOK, StoreTypeOK
  <1>8. QED
    BY <1>5, <1>6, <1>7 DEF Send

(* Of the handlers that discard a row there is one, and it has not         *)
(* recorded it before.                                                     *)
LEMMA FeedbackTellsTruth ==
  ASSUME TypeOK, HoldsRow, OutcomeInv, NEW h \in Handlers, LogDiscardFeedback(h)
  PROVE  OutcomeInv'
  <1> DEFINE a == handler[h].act
  <1>1. /\ handler[h].pc = "feedback" /\ a \in Actions
        /\ status' = status /\ told' = told /\ delivered' = delivered
    BY DEF LogDiscardFeedback, At, storeVars, rowVars, gmailVars, HoldsRow, Busy, Pc, Finished,
           Sending, Revising
  <1>2. /\ status[a] = "discarded" /\ feedback[a] = 0
        /\ \A g \in Handlers : g # h /\ handler[g].pc \in Discarding => handler[g].act # a
    BY <1>1 DEF OutcomeInv, DiscardsAlone, Discarding
  <1>3. /\ handler'[h].pc = "notify" /\ handler'[h].note = "discarded" /\ handler'[h].act = a
        /\ \A g \in Handlers \ {h} : handler'[g] = handler[g]
    BY SayFacts DEF LogDiscardFeedback
  <1>4. feedback'[a] \in {0, 1} /\ \A b \in Actions : b # a => feedback'[b] = feedback[b]
    BY <1>1, <1>2 DEF LogDiscardFeedback, TypeOK
  <1>5. Unresolved \subseteq Unresolved'
    BY <1>1, <1>3 DEF Unresolved, Sending
  <1>6. ASSUME NEW g \in Handlers
        PROVE  NoteIsTrue(g)'
    <2>1. CASE g = h
      BY <1>1, <1>2, <1>3, <2>1 DEF NoteIsTrue, Noting
    <2>2. CASE g # h
      <3>1. \A n \in Verdicts : Noting(g, n)' =>
              Noting(g, n) /\ handler'[g] = handler[g] /\ handler[g].act \in Actions
        BY <1>3, <2>2 DEF Noting, OutcomeInv, NoteIsTrue
      <3>2. QED
        BY <1>1, <1>5, <3>1 DEF OutcomeInv, NoteIsTrue, Verdicts
    <2>3. QED
      BY <2>1, <2>2
  <1>7. ASSUME NEW g \in Handlers
        PROVE  DiscardsAlone(g)'
    <2> SUFFICES ASSUME handler'[g].pc \in Discarding PROVE DiscardsAlone(g)'
      BY DEF DiscardsAlone
    <2>1. g # h /\ handler'[g] = handler[g]
      BY <1>3 DEF Discarding
    <2>2. handler[g].act \in Actions \ {a}
      BY <1>2, <2>1 DEF Discarding, HoldsRow, Busy, Pc, Finished, Sending, Revising
    <2>3. QED
      BY <1>1, <1>3, <1>4, <2>1, <2>2 DEF OutcomeInv, DiscardsAlone, Discarding
  <1>8. ASSUME NEW b \in Actions
        PROVE  ToldIsTrue(b)'
    BY <1>1, <1>2, <1>4, <1>5 DEF OutcomeInv, ToldIsTrue
  <1>9. QED
    BY <1>6, <1>7, <1>8 DEF OutcomeInv

LEMMA NotifyTellsTruth ==
  ASSUME TypeOK, HoldsRow, OutcomeInv, NEW h \in Handlers, Notify(h)
  PROVE  OutcomeInv'
  <1> DEFINE a == handler[h].act
             note == handler[h].note
  <1>1. /\ handler[h].pc = "notify" /\ status' = status /\ delivered' = delivered
        /\ feedback' = feedback
    BY DEF Notify, At, storeVars, rowVars, gmailVars
  <1>2. /\ handler'[h].pc = "acked" /\ \A g \in Handlers \ {h} : handler'[g] = handler[g]
    BY GotoFacts DEF Notify
  <1>3. \A b \in Actions, n \in Verdicts :
          n \in told'[b] => n \in told[b] \/ (Noting(h, n) /\ b = a)
    <2>1. PICK word \in {note, "unheard"} :
            told' = IF note \in Verdicts THEN [told EXCEPT ![a] = @ \cup {word}] ELSE told
      BY DEF Notify
    <2>2. "unheard" \notin Verdicts
      BY DEF Verdicts
    <2> QED  BY <1>1, <2>1, <2>2 DEF Noting, TypeOK
  <1>4. Unresolved \subseteq Unresolved'
    BY <1>1, <1>2 DEF Unresolved, Sending
  <1>5. ASSUME NEW b \in Actions
        PROVE  ToldIsTrue(b)'
    <2>1. /\ "sent" \in told'[b] => delivered[b] > 0
          /\ "unsure" \in told'[b] => b \in Unresolved
          /\ "discarded" \in told'[b] => status[b] = "discarded"
      BY <1>3 DEF OutcomeInv, NoteIsTrue, ToldIsTrue, Verdicts
    <2>2. QED
      BY <1>1, <1>4, <2>1 DEF OutcomeInv, ToldIsTrue
  <1>6. ASSUME NEW g \in Handlers
        PROVE  NoteIsTrue(g)'
    <2>1. \A n \in Verdicts : Noting(g, n)' =>
            Noting(g, n) /\ handler'[g] = handler[g] /\ handler[g].act \in Actions
      BY <1>2 DEF Noting, OutcomeInv, NoteIsTrue
    <2>2. QED
      BY <1>1, <1>4, <2>1 DEF OutcomeInv, NoteIsTrue, Verdicts
  <1>7. ASSUME NEW g \in Handlers
        PROVE  DiscardsAlone(g)'
    BY <1>1, <1>2, <1>7 DEF OutcomeInv, DiscardsAlone, Discarding
  <1>8. QED
    BY <1>5, <1>6, <1>7 DEF OutcomeInv

(* releasePendingAction: the row was confirmed, by this sender.            *)
LEMMA ReleaseTellsNothing ==
  ASSUME TypeOK, HoldsRow, ClaimInv, NEW h \in Handlers, Release(h)
  PROVE  TellsNothing
  <1> DEFINE a == handler[h].act
  <1>1. /\ handler[h].pc = "release" /\ a \in Actions
        /\ status' = [status EXCEPT ![a] = "pending"]
        /\ delivered' = delivered /\ told' = told /\ feedback' = feedback
    BY DEF Release, SetStatus, At, gmailVars, HoldsRow, Busy, Pc, Finished, Sending, Revising
  <1>2. status[a] = "confirmed" /\ a \notin Unresolved
    BY <1>1 DEF ClaimInv, SenderIsAlone, Sending, Unresolved
  <1>3. \A b \in Actions : /\ status[b] = "discarded" => status'[b] = "discarded"
                           /\ b \in Unresolved => status'[b] = "confirmed"
    BY <1>1, <1>2 DEF TypeOK, StoreTypeOK, Unresolved
  <1>4. /\ handler'[h].pc = "threw" /\ \A g \in Handlers \ {h} : handler'[g] = handler[g]
    BY GotoFacts DEF Release
  <1>5. QED
    BY <1>1, <1>3, <1>4 DEF TellsNothing, Sending, Discarding, Noting

LEMMA StepTellsTruth ==
  ASSUME TypeOK, HoldsRow, ClaimInv, OutcomeInv, [Next]_vars
  PROVE  OutcomeInv'
  <1> USE DEF vars, storeVars, rowVars, gmailVars, At, Sending, Discarding, Noting, Unresolved
  <1>1. ASSUME NEW h \in Handlers, Receive(h) \/ ReceiveFreeform(h) \/ Return(h)
        PROVE  TellsNothing
    BY <1>1 DEF TellsNothing, Receive, ReceiveFreeform, Return, Say, Idle, TypeOK, HandlerState,
                Verdicts
  <1>2. ASSUME NEW h \in Handlers, DiscardDelete(h) \/ ReviseDelete(h)
        PROVE  TellsNothing
    BY <1>2, GotoFacts
    DEF TellsNothing, DiscardDelete, ReviseDelete, Succeeds, Fails, TimesOut, Applied, NotApplied,
        DeleteCall, Deleted
  <1>3. ASSUME NEW h \in Handlers, Create(h)
        PROVE  TellsNothing
    <2>1. UNCHANGED <<status, told, feedback, delivered>> /\ handler[h].pc = "create"
      BY <1>3 DEF Create, Fails, TimesOut, Applied, NotApplied, CreateCall, Created
    <2>2. handler'[h].pc \in {"mark", "threw"} /\ \A g \in Handlers \ {h} : handler'[g] = handler[g]
      BY <1>3 DEF Create, Goto, TypeOK, HandlerState
    <2>3. QED
      BY <2>1, <2>2 DEF TellsNothing
  <1>4. ASSUME NEW h \in Handlers, Rewrite(h) \/ MarkEmailDrafted(h) \/ UpdatePayload(h)
        PROVE  TellsNothing
    BY <1>4, GotoFacts, SayFacts DEF TellsNothing, Rewrite, MarkEmailDrafted, UpdatePayload, Verdicts
  <1>5. ASSUME NEW h \in Handlers, Abort(h)
        PROVE  TellsNothing
    BY <1>5, GotoFacts DEF TellsNothing, Abort
  <1>6. ASSUME LateCall, UNCHANGED <<handler, told, feedback>>
        PROVE  TellsNothing
    <2>1. PICK c \in late : Applied(c) \/ NotApplied
      BY <1>6 DEF LateCall
    <2>2. c.act \in Actions
      BY DEF TypeOK, StoreTypeOK, Calls
    <2>3. QED
      BY <1>6, <2>1, <2>2, CallFacts DEF TellsNothing, LateCall
  <1>7. ASSUME ExpireStale \/ \E a \in Actions : Age(a), UNCHANGED <<handler, told, feedback>>
        PROVE  TellsNothing
    BY <1>7 DEF TellsNothing, ExpireStale, Age, Claimable
  <1>8. CASE UNCHANGED vars
    BY <1>8, TellsNothingKeeps DEF TellsNothing
  <1>9. QED
    BY <1>1, <1>2, <1>3, <1>4, <1>5, <1>6, <1>7, <1>8, TellsNothingKeeps, ClaimSendTellsTruth,
       ClaimDiscardTellsTruth, SendTellsTruth, FeedbackTellsTruth, NotifyTellsTruth,
       ReleaseTellsNothing
    DEF Next, HandlerNext, Step, Environment

(* What users are told, and what triage learns, is what became of the      *)
(* draft: "sent" only of a mail that went out, never "discarded" of one    *)
(* that was or may have been, and one feedback row for a discard           *)
(* (confirmDraftSend, discardDraft, logDiscardFeedback).                   *)
THEOREM ToldTheTruth ==
  ASSUME "lost" \notin Faults PROVE Spec => []OutcomesAreTrue
  <1>1. Init => OutcomeInv
    BY DEF Init, OutcomeInv, NoteIsTrue, DiscardsAlone, ToldIsTrue, Noting, Idle, Discarding
  <1>2. TypeOK /\ HoldsRow /\ ClaimInv /\ OutcomeInv /\ [Next]_vars => OutcomeInv'
    BY StepTellsTruth
  <1>3. TypeOK /\ ClaimInv /\ OutcomeInv => OutcomesAreTrue
    <2> SUFFICES ASSUME TypeOK, ClaimInv, OutcomeInv PROVE OutcomesAreTrue
      OBVIOUS
    <2>1. \A a \in Actions : delivered[a] > 0 => status[a] = "confirmed"
      BY DEF ClaimInv, MailedStaysConfirmed
    <2>2. VerdictsAreTrue
      BY <2>1 DEF VerdictsAreTrue, OutcomeInv, ToldIsTrue, Unresolved, TypeOK, StoreTypeOK,
                  Verdicts
    <2>3. FeedbackOnce
      BY DEF FeedbackOnce, OutcomeInv, ToldIsTrue
    <2>4. QED
      BY <2>2, <2>3 DEF OutcomesAreTrue
  <1>4. QED
    BY <1>1, <1>2, <1>3, TypeCorrect, ClaimsSafe, PTL DEF Spec

-----------------------------------------------------------------------------
(* An email's drafts.  A handler about to create one, or a call that may   *)
(* still create one, has the place of the draft that was deleted for it.   *)
Reading == {"rewrite", "reviseDelete"}
Replacing == {"create", "mark", "save"}
CreateIsLate(a) == \E c \in late : c.op = "create" /\ c.act = a

CreatesAreAlike == \A c \in late : c.op = "create" => c = CreateCall(c.act)

RowHasDraft(a) ==
  payload[a] \in Drafts /\ gmail[payload[a]] # "unused" /\ owner[payload[a]] = a

OnePlace(a) ==
  /\ \A d, e \in LiveDrafts(a) : d = e
  /\ CreateIsLate(a) => LiveDrafts(a) = {}

HoldsOwnDraft(h) ==
  handler[h].pc \in Busy =>
    /\ handler[h].draft \in Drafts
    /\ gmail[handler[h].draft] # "unused" /\ owner[handler[h].draft] = handler[h].act

(* While a handler replaces a row's draft no other does, and no other gets *)
(* past its delete: what the row names, or others read there, is not live. *)
ReplacesAlone(h, a) ==
  handler[h].act = a =>
    /\ At(h, "create") => LiveDrafts(a) = {} /\ ~CreateIsLate(a)
    /\ handler[h].pc \in Replacing =>
         /\ gmail[payload[a]] # "live"
         /\ \A g \in Handlers : g # h /\ handler[g].act = a =>
              /\ handler[g].pc \notin Replacing
              /\ handler[g].pc \in Reading => gmail[handler[g].draft] # "live"

PlaceInv ==
  /\ CreatesAreAlike
  /\ \A a \in Actions : RowHasDraft(a) /\ OnePlace(a)
  /\ \A h \in Handlers : HoldsOwnDraft(h)
  /\ \A h \in Handlers, a \in Actions : ReplacesAlone(h, a)

(* What a revision is about to write to the one table is in the other.     *)
SavesWhatItMarked ==
  \A h \in Handlers, a \in Actions :
    At(h, "save") /\ handler[h].act = a => drafted[a] = handler[h].draft

(* A step that brings no draft to life, leaves no create behind, and lets  *)
(* no handler read a row or begin to replace its draft.                    *)
CreatesNothing ==
  /\ payload' = payload
  /\ \A d \in Drafts :
       /\ gmail'[d] = "live" => gmail[d] = "live"
       /\ gmail[d] # "unused" => gmail'[d] # "unused" /\ owner'[d] = owner[d]
  /\ \A c \in late' : c.op = "create" => c \in late
  /\ \A h \in Handlers :
       handler'[h].pc \in Busy =>
         /\ handler[h].pc \in Busy
         /\ handler'[h].act = handler[h].act /\ handler'[h].draft = handler[h].draft
         /\ At(h, "create")' => At(h, "create")
         /\ handler'[h].pc \in Replacing => handler[h].pc \in Replacing
         /\ handler'[h].pc \in Reading => handler[h].pc \in Reading

LEMMA BusyPcs ==
  /\ Reading \subseteq Busy /\ Replacing \subseteq Busy /\ "create" \in Replacing
  /\ Reading \cap Replacing = {}
  BY DEF Reading, Replacing, Busy, Pc, Finished, Sending, Revising

LEMMA CreatesNothingKeeps ==
  ASSUME TypeOK, HoldsRow, PlaceInv, CreatesNothing PROVE PlaceInv'
  <1>1. \A a \in Actions : LiveDrafts(a)' \subseteq LiveDrafts(a) /\ (CreateIsLate(a)' => CreateIsLate(a))
    BY DEF CreatesNothing, LiveDrafts, CreateIsLate
  <1>2. ASSUME NEW a \in Actions PROVE RowHasDraft(a)' /\ OnePlace(a)'
    <2>1. RowHasDraft(a)'
      BY DEF CreatesNothing, PlaceInv, RowHasDraft
    <2>2. OnePlace(a)'
      BY <1>1 DEF PlaceInv, OnePlace
    <2>3. QED
      BY <2>1, <2>2
  <1>3. ASSUME NEW h \in Handlers PROVE HoldsOwnDraft(h)'
    BY DEF CreatesNothing, PlaceInv, HoldsOwnDraft
  <1>4. ASSUME NEW h \in Handlers, NEW a \in Actions PROVE ReplacesAlone(h, a)'
    <2> SUFFICES ASSUME handler'[h].act = a, handler'[h].pc \in Replacing
                 PROVE  /\ At(h, "create")' => LiveDrafts(a)' = {} /\ ~CreateIsLate(a)'
                        /\ gmail'[payload'[a]] # "live"
                        /\ \A g \in Handlers : g # h /\ handler'[g].act = a =>
                             /\ handler'[g].pc \notin Replacing
                             /\ handler'[g].pc \in Reading => gmail'[handler'[g].draft] # "live"
      BY BusyPcs DEF ReplacesAlone, At
    <2>1. /\ handler[h].act = a /\ handler[h].pc \in Replacing
          /\ At(h, "create")' => At(h, "create")
      BY BusyPcs DEF CreatesNothing
    <2>2. ReplacesAlone(h, a) /\ RowHasDraft(a)
      BY DEF PlaceInv
    <2>3. At(h, "create")' => LiveDrafts(a)' = {} /\ ~CreateIsLate(a)'
      BY <1>1, <2>1, <2>2 DEF ReplacesAlone
    <2>4. gmail'[payload'[a]] # "live"
      BY <2>1, <2>2 DEF ReplacesAlone, RowHasDraft, CreatesNothing
    <2>5. ASSUME NEW g \in Handlers, g # h, handler'[g].act = a
          PROVE  /\ handler'[g].pc \notin Replacing
                 /\ handler'[g].pc \in Reading => gmail'[handler'[g].draft] # "live"
      <3>1. handler'[g].pc \in Busy =>
              /\ handler[g].pc \in Busy /\ handler[g].act = a /\ handler'[g].draft = handler[g].draft
              /\ handler'[g].pc \in Replacing => handler[g].pc \in Replacing
              /\ handler'[g].pc \in Reading => handler[g].pc \in Reading
        BY <2>5 DEF CreatesNothing
      <3>2. handler'[g].pc \notin Replacing
        BY <2>1, <2>2, <2>5, <3>1, BusyPcs DEF ReplacesAlone
      <3>3. ASSUME handler'[g].pc \in Reading PROVE gmail'[handler'[g].draft] # "live"
        <4>1. handler[g].pc \in Reading /\ handler[g].act = a /\ handler'[g].draft = handler[g].draft
          BY <3>1, <3>3, BusyPcs
        <4>2. handler[g].draft \in Drafts /\ gmail[handler[g].draft] # "live"
          BY <2>1, <2>2, <2>5, <4>1, BusyPcs DEF ReplacesAlone, PlaceInv, HoldsOwnDraft
        <4>3. QED
          BY <4>1, <4>2 DEF CreatesNothing
      <3>4. QED
        BY <3>2, <3>3
    <2>6. QED
      BY <2>3, <2>4, <2>5
  <1>5. CreatesAreAlike'
    BY DEF CreatesNothing, PlaceInv, CreatesAreAlike
  <1>6. QED
    BY <1>2, <1>3, <1>4, <1>5 DEF PlaceInv

(* Replying handlers read the draft their row names.                       *)
LEMMA ReceiveKeepsPlaces ==
  ASSUME TypeOK, HoldsRow, PlaceInv, NEW h \in Handlers, Receive(h)
  PROVE  PlaceInv'
  <1>1. UNCHANGED <<payload, gmail, owner, late>>
    BY DEF Receive, storeVars, rowVars, gmailVars
  <1>2. PICK a \in Actions : handler'[h].act = a /\ handler'[h].draft = payload[a]
    BY DEF Receive, Matching, TypeOK
  <1>3. /\ handler'[h].pc \notin Replacing
        /\ \A g \in Handlers \ {h} : handler'[g] = handler[g]
    BY DEF Receive, TypeOK, Replacing
  <1>4. ASSUME NEW b \in Actions PROVE RowHasDraft(b)' /\ OnePlace(b)'
    BY <1>1 DEF PlaceInv, RowHasDraft, OnePlace, LiveDrafts, CreateIsLate
  <1>5. ASSUME NEW g \in Handlers PROVE HoldsOwnDraft(g)'
    BY <1>1, <1>2, <1>3 DEF PlaceInv, HoldsOwnDraft, RowHasDraft
  <1>6. ASSUME NEW g \in Handlers, NEW b \in Actions PROVE ReplacesAlone(g, b)'
    <2>1. CASE g = h
      BY <1>3, <2>1, BusyPcs DEF ReplacesAlone, At
    <2>2. CASE g # h
      <3>1. LiveDrafts(b)' = LiveDrafts(b) /\ CreateIsLate(b)' = CreateIsLate(b)
        BY <1>1 DEF LiveDrafts, CreateIsLate
      <3>2. handler'[g] = handler[g] /\ ReplacesAlone(g, b)
        BY <1>3, <2>2 DEF PlaceInv
      <3>3. QED
        BY <1>1, <1>2, <1>3, <3>1, <3>2 DEF ReplacesAlone, At
    <2>3. QED
      BY <2>1, <2>2
  <1>7. CreatesAreAlike'
    BY <1>1 DEF PlaceInv, CreatesAreAlike
  <1>8. QED
    BY <1>4, <1>5, <1>6, <1>7 DEF PlaceInv

(* reviseDraft's delete succeeds for one handler only: the draft it read   *)
(* was the row's live one.                                                 *)
LEMMA ReviseDeleteKeepsPlaces ==
  ASSUME TypeOK, HoldsRow, PlaceInv, NEW h \in Handlers, At(h, "reviseDelete"),
         Deleted(handler[h].draft), Goto(h, "create"), UNCHANGED <<payload, late>>
  PROVE  PlaceInv'
  <1>1. PICK a \in Actions, d \in Drafts : a = handler[h].act /\ d = handler[h].draft
    BY BusyPcs DEF At, HoldsRow, PlaceInv, HoldsOwnDraft, Reading
  <1>2. a \in Actions /\ d \in LiveDrafts(a)
    BY <1>1, BusyPcs DEF At, PlaceInv, HoldsOwnDraft, Reading, LiveDrafts, Deleted
  <1>3. /\ gmail'[d] = "deleted" /\ owner' = owner
        /\ \A e \in Drafts : e # d => gmail'[e] = gmail[e]
    BY <1>1, <1>2 DEF Deleted, TypeOK, StoreTypeOK, LiveDrafts
  <1>4. /\ handler'[h].pc = "create" /\ handler'[h].act = a /\ handler'[h].draft = d
        /\ \A g \in Handlers \ {h} : handler'[g] = handler[g]
    BY <1>1, GotoFacts
  <1>5. /\ \A b \in Actions : LiveDrafts(b)' = LiveDrafts(b) \ {d} /\ CreateIsLate(b)' = CreateIsLate(b)
        /\ LiveDrafts(a)' = {} /\ ~CreateIsLate(a)
    <2>1. \A b \in Actions : LiveDrafts(b)' = LiveDrafts(b) \ {d} /\ CreateIsLate(b)' = CreateIsLate(b)
      BY <1>3 DEF LiveDrafts, CreateIsLate
    <2>2. (\A e \in LiveDrafts(a) : e = d) /\ ~CreateIsLate(a)
      BY <1>2 DEF PlaceInv, OnePlace
    <2> QED
      BY <1>2, <2>1, <2>2
  <1>6. ASSUME NEW e \in Drafts, owner[e] = a PROVE gmail'[e] # "live"
    BY <1>3, <1>5, <1>6 DEF LiveDrafts
  <1>7. ASSUME NEW b \in Actions PROVE RowHasDraft(b)' /\ OnePlace(b)'
    <2>1. RowHasDraft(b)'
      BY <1>3 DEF PlaceInv, RowHasDraft
    <2>2. OnePlace(b)'
      BY <1>5 DEF PlaceInv, OnePlace
    <2>3. QED
      BY <2>1, <2>2
  <1>8. ASSUME NEW g \in Handlers PROVE HoldsOwnDraft(g)'
    BY <1>2, <1>3, <1>4 DEF PlaceInv, HoldsOwnDraft, LiveDrafts
  <1>9. ASSUME NEW g \in Handlers, NEW b \in Actions PROVE ReplacesAlone(g, b)'
    <2>1. \A f \in Handlers \ {h} : handler[f].act = a => handler[f].pc \notin Replacing
      BY <1>1, <1>2 DEF PlaceInv, ReplacesAlone, At, Reading, LiveDrafts
    <2>2. CASE g = h
      <3>1. gmail'[payload'[a]] # "live"
        BY <1>2, <1>6 DEF PlaceInv, RowHasDraft
      <3>2. \A f \in Handlers \ {h} :
              handler[f].act = a /\ handler[f].pc \in Reading => gmail'[handler[f].draft] # "live"
        BY <1>6, BusyPcs DEF PlaceInv, HoldsOwnDraft
      <3>3. QED
        BY <1>4, <1>5, <2>1, <2>2, <3>1, <3>2 DEF ReplacesAlone
    <2>3. CASE g # h
      <3>1. handler'[g] = handler[g] /\ ReplacesAlone(g, b) /\ RowHasDraft(b)
        BY <1>4, <2>3 DEF PlaceInv
      <3>2. ASSUME handler[g].act = b, handler[g].pc \in Replacing
            PROVE  /\ b # a /\ gmail'[payload'[b]] # "live"
                   /\ \A f \in Handlers : f # g /\ handler'[f].act = b =>
                        /\ handler'[f].pc \notin Replacing
                        /\ handler'[f].pc \in Reading => gmail'[handler'[f].draft] # "live"
        <4>1. b # a
          BY <2>1, <2>3, <3>2
        <4>2. gmail'[payload'[b]] # "live"
          BY <1>3, <3>1, <3>2 DEF ReplacesAlone, RowHasDraft
        <4>3. ASSUME NEW f \in Handlers, f # g, handler'[f].act = b
              PROVE  /\ handler'[f].pc \notin Replacing
                     /\ handler'[f].pc \in Reading => gmail'[handler'[f].draft] # "live"
          <5>1. handler'[f] = handler[f]
            BY <1>4, <4>1, <4>3
          <5>2. handler[f].pc \in Reading => handler[f].draft \in Drafts
            BY BusyPcs DEF PlaceInv, HoldsOwnDraft
          <5>3. QED
            BY <1>3, <3>1, <3>2, <4>3, <5>1, <5>2 DEF ReplacesAlone
        <4>4. QED
          BY <4>1, <4>2, <4>3
      <3>3. QED
        BY <1>5, <3>1, <3>2, BusyPcs DEF ReplacesAlone, At
    <2>4. QED
      BY <2>2, <2>3
  <1>10. CreatesAreAlike'
    BY DEF PlaceInv, CreatesAreAlike
  <1>11. QED
    BY <1>7, <1>8, <1>9, <1>10 DEF PlaceInv

(* A draft takes the place that was kept for it.                           *)
LEMMA CreatedKeepsPlaces ==
  ASSUME TypeOK, HoldsRow, PlaceInv, NEW a \in Actions, NEW d \in Drafts,
         Created(a, d), LiveDrafts(a) = {}, ~CreateIsLate(a)', payload' = payload,
         late' \subseteq late,
         \A g \in Handlers :
           handler'[g].pc \in Busy =>
             /\ handler[g].pc \in Busy /\ handler'[g].act = handler[g].act
             /\ \/ handler'[g].draft = handler[g].draft
                \/ At(g, "mark")' /\ handler'[g].draft = d /\ handler[g].act = a
             /\ At(g, "create")' => At(g, "create") /\ handler[g].act # a
             /\ handler'[g].pc \in Replacing => handler[g].pc \in Replacing
             /\ handler'[g].pc \in Reading => handler[g].pc \in Reading
  PROVE  PlaceInv'
  <1>1. /\ gmail[d] = "unused" /\ gmail'[d] = "live" /\ owner'[d] = a
        /\ \A e \in Drafts : e # d => gmail'[e] = gmail[e] /\ owner'[e] = owner[e]
    BY DEF Created, TypeOK, StoreTypeOK
  <1>2. /\ LiveDrafts(a)' = {d}
        /\ \A b \in Actions : b # a => LiveDrafts(b)' = LiveDrafts(b)
        /\ \A b \in Actions : CreateIsLate(b)' => CreateIsLate(b)
    BY <1>1 DEF LiveDrafts, CreateIsLate
  <1>3. ASSUME NEW b \in Actions PROVE RowHasDraft(b)' /\ OnePlace(b)'
    <2>1. RowHasDraft(b)'
      BY <1>1 DEF PlaceInv, RowHasDraft
    <2>2. OnePlace(b)'
      BY <1>2 DEF PlaceInv, OnePlace
    <2>3. QED
      BY <2>1, <2>2
  <1>4. ASSUME NEW g \in Handlers PROVE HoldsOwnDraft(g)'
    BY <1>1 DEF PlaceInv, HoldsOwnDraft
  <1>5. ASSUME NEW g \in Handlers, handler'[g].pc \in Reading
        PROVE  /\ handler[g].pc \in Reading /\ handler'[g].act = handler[g].act
               /\ handler'[g].draft = handler[g].draft /\ handler[g].draft \in Drafts \ {d}
    <2>1. /\ handler[g].pc \in Reading /\ handler'[g].act = handler[g].act
          /\ handler'[g].draft = handler[g].draft
      BY <1>5, BusyPcs DEF At, Reading
    <2>2. QED
      BY <1>1, <2>1, BusyPcs DEF PlaceInv, HoldsOwnDraft
  <1>6. ASSUME NEW g \in Handlers, NEW b \in Actions PROVE ReplacesAlone(g, b)'
    <2> SUFFICES ASSUME handler'[g].act = b, handler'[g].pc \in Replacing
                 PROVE  ReplacesAlone(g, b)'
      BY BusyPcs DEF ReplacesAlone, At
    <2>1. /\ handler[g].act = b /\ handler[g].pc \in Replacing
          /\ At(g, "create")' => At(g, "create") /\ b # a
      BY BusyPcs
    <2>2. ReplacesAlone(g, b) /\ RowHasDraft(b)
      BY DEF PlaceInv
    <2>3. At(g, "create")' => LiveDrafts(b)' = {} /\ ~CreateIsLate(b)'
      BY <1>2, <2>1, <2>2 DEF ReplacesAlone
    <2>4. gmail'[payload'[b]] # "live"
      BY <1>1, <2>1, <2>2 DEF ReplacesAlone, RowHasDraft
    <2>5. ASSUME NEW f \in Handlers, f # g, handler'[f].act = b
          PROVE  /\ handler'[f].pc \notin Replacing
                 /\ handler'[f].pc \in Reading => gmail'[handler'[f].draft] # "live"
      <3>1. handler'[f].pc \notin Replacing
        BY <2>1, <2>2, <2>5, BusyPcs DEF ReplacesAlone
      <3>2. handler'[f].pc \in Reading => gmail'[handler'[f].draft] # "live"
        BY <1>1, <1>5, <2>1, <2>2, <2>5 DEF ReplacesAlone
      <3>3. QED
        BY <3>1, <3>2
    <2>6. QED
      BY <2>3, <2>4, <2>5 DEF ReplacesAlone
  <1>7. CreatesAreAlike'
    BY DEF PlaceInv, CreatesAreAlike
  <1>8. QED
    BY <1>3, <1>4, <1>6, <1>7 DEF PlaceInv

(* Nobody waits for a create any more: its place goes with it.             *)
LEMMA LeavingCreateKeepsPlaces ==
  ASSUME TypeOK, HoldsRow, PlaceInv, NEW h \in Handlers, At(h, "create"),
         Goto(h, "threw"), late' = late \cup {CreateCall(handler[h].act)},
         UNCHANGED <<payload, gmail, owner>>
  PROVE  PlaceInv'
  <1>1. PICK a \in Actions : a = handler[h].act
    BY BusyPcs DEF HoldsRow, At
  <1>2. /\ handler'[h].pc = "threw" /\ \A g \in Handlers \ {h} : handler'[g] = handler[g]
    BY GotoFacts
  <1>3. /\ LiveDrafts(a) = {} /\ \A g \in Handlers \ {h} : handler[g].act = a => ~At(g, "create")
    BY <1>1, BusyPcs DEF PlaceInv, ReplacesAlone, At
  <1>4. \A b \in Actions : /\ LiveDrafts(b)' = LiveDrafts(b)
                           /\ b # a => CreateIsLate(b)' = CreateIsLate(b)
    BY <1>1 DEF LiveDrafts, CreateIsLate, CreateCall
  <1>5. ASSUME NEW b \in Actions PROVE RowHasDraft(b)' /\ OnePlace(b)'
    <2>1. RowHasDraft(b)'
      BY DEF PlaceInv, RowHasDraft
    <2>2. OnePlace(b)'
      BY <1>3, <1>4 DEF PlaceInv, OnePlace
    <2>3. QED
      BY <2>1, <2>2
  <1>6. ASSUME NEW g \in Handlers PROVE HoldsOwnDraft(g)'
    BY <1>2 DEF PlaceInv, HoldsOwnDraft, Busy, Finished
  <1>7. ASSUME NEW g \in Handlers, NEW b \in Actions PROVE ReplacesAlone(g, b)'
    <2>1. CASE g = h
      BY <1>2, <2>1 DEF ReplacesAlone, At, Replacing
    <2>2. CASE g # h
      <3>1. handler'[g] = handler[g] /\ ReplacesAlone(g, b)
        BY <1>2, <2>2 DEF PlaceInv
      <3>2. handler[g].act = b /\ At(g, "create") => b # a
        BY <1>3, <2>2
      <3>3. \A f \in Handlers : handler'[f] = handler[f] \/ handler'[f].pc \notin Replacing \cup Reading
        BY <1>2 DEF Replacing, Reading
      <3>4. QED
        BY <1>4, <3>1, <3>2, <3>3 DEF ReplacesAlone, At
    <2>3. QED
      BY <2>1, <2>2
  <1>8. CreatesAreAlike'
    BY DEF PlaceInv, CreatesAreAlike, CreateCall
  <1>9. QED
    BY <1>5, <1>6, <1>7, <1>8 DEF PlaceInv

(* reviseDraft's last write: whoever reads the row from now on finds the   *)
(* new draft.                                                              *)
LEMMA UpdatePayloadKeepsPlaces ==
  ASSUME TypeOK, HoldsRow, PlaceInv, NEW h \in Handlers, UpdatePayload(h)
  PROVE  PlaceInv'
  <1>1. PICK a \in Actions, d \in Drafts :
          /\ a = handler[h].act /\ d = handler[h].draft
          /\ gmail[d] # "unused" /\ owner[d] = a
    BY BusyPcs DEF UpdatePayload, At, HoldsRow, PlaceInv, HoldsOwnDraft, Replacing
  <1>2. /\ UNCHANGED <<gmail, owner, late>> /\ handler[h].pc = "save"
        /\ payload'[a] = d /\ \A b \in Actions : b # a => payload'[b] = payload[b]
    BY <1>1 DEF UpdatePayload, At, gmailVars, TypeOK, StoreTypeOK
  <1>3. /\ handler'[h].pc = "notify" /\ \A g \in Handlers \ {h} : handler'[g] = handler[g]
    BY SayFacts DEF UpdatePayload
  <1>4. ASSUME NEW b \in Actions PROVE RowHasDraft(b)' /\ OnePlace(b)'
    <2>1. RowHasDraft(b)'
      BY <1>1, <1>2 DEF PlaceInv, RowHasDraft
    <2>2. OnePlace(b)'
      BY <1>2 DEF PlaceInv, OnePlace, LiveDrafts, CreateIsLate
    <2>3. QED
      BY <2>1, <2>2
  <1>5. ASSUME NEW g \in Handlers PROVE HoldsOwnDraft(g)'
    BY <1>2, <1>3 DEF PlaceInv, HoldsOwnDraft, Busy
  <1>6. ASSUME NEW g \in Handlers, NEW b \in Actions PROVE ReplacesAlone(g, b)'
    <2>1. CASE g = h
      BY <1>3, <2>1 DEF ReplacesAlone, At, Replacing
    <2>2. CASE g # h
      <3>1. handler'[g] = handler[g] /\ ReplacesAlone(g, b)
        BY <1>3, <2>2 DEF PlaceInv
      <3>2. handler[g].act = a => handler[g].pc \notin Replacing
        BY <1>1, <1>2, <2>2 DEF PlaceInv, ReplacesAlone, Replacing
      <3>3. \A f \in Handlers : handler'[f] = handler[f] \/ handler'[f].pc \notin Replacing \cup Reading
        BY <1>3 DEF Replacing, Reading
      <3>4. LiveDrafts(b)' = LiveDrafts(b) /\ CreateIsLate(b)' = CreateIsLate(b)
        BY <1>2 DEF LiveDrafts, CreateIsLate
      <3>5. QED
        BY <1>2, <3>1, <3>2, <3>3, <3>4, BusyPcs DEF ReplacesAlone, At
    <2>3. QED
      BY <2>1, <2>2
  <1>7. CreatesAreAlike'
    BY <1>2 DEF PlaceInv, CreatesAreAlike
  <1>8. QED
    BY <1>4, <1>5, <1>6, <1>7 DEF PlaceInv

LEMMA CreateKeepsPlaces ==
  ASSUME TypeOK, HoldsRow, PlaceInv, NEW h \in Handlers, Create(h)
  PROVE  PlaceInv'
  <1>1. PICK a \in Actions : a = handler[h].act
    BY BusyPcs DEF Create, HoldsRow, At
  <1>2. At(h, "create") /\ payload' = payload
    BY DEF Create, rowVars
  <1>3. /\ LiveDrafts(a) = {} /\ ~CreateIsLate(a)
        /\ \A g \in Handlers \ {h} : handler[g].act = a => ~At(g, "create")
    BY <1>1, <1>2, BusyPcs DEF PlaceInv, ReplacesAlone, At
  <1>4. ASSUME NEW d \in Drafts, Created(a, d), late' = late,
               \/ handler' = [handler EXCEPT ![h].pc = "mark", ![h].draft = d]
               \/ Goto(h, "threw")
        PROVE  PlaceInv'
    <2>1. /\ \A g \in Handlers \ {h} : handler'[g] = handler[g]
          /\ \/ /\ At(h, "mark")' /\ handler'[h].draft = d /\ handler'[h].act = handler[h].act
             \/ At(h, "threw")'
      BY <1>4 DEF TypeOK, HandlerState, Goto, At
    <2>2. ~CreateIsLate(a)'
      BY <1>3, <1>4 DEF CreateIsLate
    <2>3. \A g \in Handlers :
            handler'[g].pc \in Busy =>
              /\ handler[g].pc \in Busy /\ handler'[g].act = handler[g].act
              /\ \/ handler'[g].draft = handler[g].draft
                 \/ At(g, "mark")' /\ handler'[g].draft = d /\ handler[g].act = a
              /\ At(g, "create")' => At(g, "create") /\ handler[g].act # a
              /\ handler'[g].pc \in Replacing => handler[g].pc \in Replacing
              /\ handler'[g].pc \in Reading => handler[g].pc \in Reading
      <3> SUFFICES ASSUME NEW g \in Handlers, handler'[g].pc \in Busy
                   PROVE  /\ handler[g].pc \in Busy /\ handler'[g].act = handler[g].act
                          /\ \/ handler'[g].draft = handler[g].draft
                             \/ At(g, "mark")' /\ handler'[g].draft = d /\ handler[g].act = a
                          /\ At(g, "create")' => At(g, "create") /\ handler[g].act # a
                          /\ handler'[g].pc \in Replacing => handler[g].pc \in Replacing
                          /\ handler'[g].pc \in Reading => handler[g].pc \in Reading
        OBVIOUS
      <3>1. CASE g = h
        BY <1>1, <1>2, <2>1, <3>1, BusyPcs DEF At, Busy, Finished, Reading, Replacing
      <3>2. CASE g # h
        BY <1>3, <2>1, <3>2 DEF At
      <3>3. QED
        BY <3>1, <3>2
    <2>4. QED
      BY <1>2, <1>3, <1>4, <2>2, <2>3, CreatedKeepsPlaces
  <1>5. ASSUME NotApplied, late' = late, Goto(h, "threw") PROVE PlaceInv'
    <2>1. /\ handler'[h].pc = "threw" /\ \A g \in Handlers \ {h} : handler'[g] = handler[g]
      BY <1>5, GotoFacts
    <2>2. CreatesNothing
      BY <1>2, <1>5, <2>1 DEF CreatesNothing, NotApplied, gmailVars, Busy, Finished, At
    <2>3. QED
      BY <2>2, CreatesNothingKeeps
  <1>6. ASSUME NotApplied, late' = late \cup {CreateCall(a)}, Goto(h, "threw") PROVE PlaceInv'
    BY <1>1, <1>2, <1>6, LeavingCreateKeepsPlaces DEF NotApplied, gmailVars
  <1>7. QED
    BY <1>1, <1>4, <1>5, <1>6 DEF Create, Fails, TimesOut, Applied, CreateCall

LEMMA AbortKeepsPlaces ==
  ASSUME TypeOK, HoldsRow, PlaceInv, NEW h \in Handlers, Abort(h)
  PROVE  PlaceInv'
  <1>1. UNCHANGED <<payload, gmail, owner>> /\ Goto(h, "threw")
    BY DEF Abort, rowVars, gmailVars
  <1>2. CASE At(h, "create") /\ late' = late \cup {CreateCall(handler[h].act)}
    BY <1>1, <1>2, LeavingCreateKeepsPlaces
  <1>3. CASE ~(At(h, "create") /\ late' = late \cup {CreateCall(handler[h].act)})
    <2>1. \A c \in late' : c.op = "create" => c \in late
      BY <1>3 DEF Abort, InFlight, At, SendCall, DeleteCall
    <2>2. /\ handler'[h].pc = "threw" /\ \A g \in Handlers \ {h} : handler'[g] = handler[g]
      BY <1>1, GotoFacts
    <2>3. CreatesNothing
      BY <1>1, <2>1, <2>2 DEF CreatesNothing, Busy, Finished, At
    <2>4. QED
      BY <2>3, CreatesNothingKeeps
  <1>4. QED
    BY <1>2, <1>3

LEMMA LateCallKeepsPlaces ==
  ASSUME TypeOK, HoldsRow, PlaceInv, LateCall, handler' = handler
  PROVE  PlaceInv'
  <1>1. PICK c \in late : late' = late \ {c} /\ (Applied(c) \/ NotApplied) /\ payload' = payload
    BY DEF LateCall, rowVars
  <1>2. c \in Calls /\ c.act \in Actions
    BY DEF TypeOK, StoreTypeOK, Calls
  <1>3. CASE c.op = "create" /\ \E d \in Drafts : Created(c.act, d)
    <2>1. PICK d \in Drafts : Created(c.act, d)
      BY <1>3
    <2>2. LiveDrafts(c.act) = {} /\ \A g \in Handlers : At(g, "create") => handler[g].act # c.act
      BY <1>2, <1>3 DEF PlaceInv, OnePlace, ReplacesAlone, CreateIsLate
    <2>3. ~CreateIsLate(c.act)'
      <3> SUFFICES ASSUME NEW e \in late', e.op = "create", e.act = c.act PROVE FALSE
        BY DEF CreateIsLate
      <3>1. QED
        BY <1>1, <1>3 DEF PlaceInv, CreatesAreAlike
    <2>4. QED
      BY <1>1, <1>2, <2>1, <2>2, <2>3, CreatedKeepsPlaces DEF At
  <1>4. CASE ~(c.op = "create" /\ \E d \in Drafts : Created(c.act, d))
    <2>1. CreatesNothing
      BY <1>1, <1>2, <1>4, CallFacts
      DEF CreatesNothing, Applied, NotApplied, Sent, Deleted, gmailVars, TypeOK, StoreTypeOK, At
    <2>2. QED
      BY <2>1, CreatesNothingKeeps
  <1>5. QED
    BY <1>3, <1>4

LEMMA StepKeepsPlaces ==
  ASSUME TypeOK, HoldsRow, PlaceInv, [Next]_vars
  PROVE  PlaceInv'
  <1> USE DEF vars, storeVars, rowVars, gmailVars, At, Reading, Replacing, Busy, Finished
  <1>1. ASSUME NEW h \in Handlers, ReceiveFreeform(h) \/ Return(h) \/ Notify(h)
        PROVE  CreatesNothing
    BY <1>1, GotoFacts, SayFacts
    DEF CreatesNothing, ReceiveFreeform, Return, Notify, Idle, TypeOK
  <1>2. ASSUME NEW h \in Handlers, NEW c \in {SendCall(handler[h].act, handler[h].draft),
                                              DeleteCall(handler[h].act, handler[h].draft)},
               Succeeds(c) \/ Fails(c) \/ TimesOut(c)
        PROVE  /\ \A d \in Drafts :
                    /\ gmail'[d] = "live" => gmail[d] = "live"
                    /\ gmail[d] # "unused" => gmail'[d] # "unused" /\ owner'[d] = owner[d]
               /\ \A e \in late' : e.op = "create" => e \in late
    BY <1>2 DEF Succeeds, Fails, TimesOut, Applied, NotApplied, SendCall, DeleteCall, Sent, Deleted,
                TypeOK, StoreTypeOK
  <1>3. ASSUME NEW h \in Handlers, Send(h)
        PROVE  CreatesNothing
    <2>1. handler[h].pc = "send" /\ payload' = payload
      BY <1>3 DEF Send
    <2>2. /\ handler'[h].pc \in {"notify", "release"} /\ \A g \in Handlers \ {h} : handler'[g] = handler[g]
          /\ handler'[h].act = handler[h].act /\ handler'[h].draft = handler[h].draft
      BY <1>3 DEF Send, Say, Goto, TypeOK, HandlerState
    <2>3. /\ \A d \in Drafts :
               /\ gmail'[d] = "live" => gmail[d] = "live"
               /\ gmail[d] # "unused" => gmail'[d] # "unused" /\ owner'[d] = owner[d]
          /\ \A e \in late' : e.op = "create" => e \in late
      BY <1>2, <1>3 DEF Send
    <2>4. QED
      BY <2>1, <2>2, <2>3 DEF CreatesNothing, Pc, Sending
  <1>4. ASSUME NEW h \in Handlers, DiscardDelete(h)
        PROVE  CreatesNothing
    BY <1>2, <1>4, GotoFacts DEF CreatesNothing, DiscardDelete, Pc
  <1>5. ASSUME NEW h \in Handlers, ReviseDelete(h)
        PROVE  PlaceInv'
    <2> DEFINE c == DeleteCall(handler[h].act, handler[h].draft)
    <2>1. CASE Deleted(handler[h].draft) /\ UNCHANGED late /\ Goto(h, "create")
      BY <1>5, <2>1, ReviseDeleteKeepsPlaces DEF ReviseDelete
    <2>2. CASE (Fails(c) \/ TimesOut(c)) /\ Goto(h, "threw")
      <3>1. CreatesNothing
        BY <1>2, <1>5, <2>2, GotoFacts DEF CreatesNothing, ReviseDelete
      <3>2. QED
        BY <3>1, CreatesNothingKeeps
    <2>3. QED
      BY <1>5, <2>1, <2>2 DEF ReviseDelete, Succeeds, Applied, DeleteCall
  <1>6. ASSUME NEW h \in Handlers, ClaimSend(h) \/ ClaimDiscard(h) \/ Release(h)
        PROVE  CreatesNothing
    BY <1>6, GotoFacts DEF CreatesNothing, ClaimSend, ClaimDiscard, Claim, Release, Pc
  <1>7. ASSUME NEW h \in Handlers, LogDiscardFeedback(h) \/ Rewrite(h) \/ MarkEmailDrafted(h)
        PROVE  CreatesNothing
    BY <1>7, GotoFacts, SayFacts
    DEF CreatesNothing, LogDiscardFeedback, Rewrite, MarkEmailDrafted, Pc, Revising
  <1>8. ASSUME ExpireStale \/ \E a \in Actions : Age(a), handler' = handler
        PROVE  CreatesNothing
    BY <1>8 DEF CreatesNothing, ExpireStale, Age
  <1>9. CASE UNCHANGED vars
    BY <1>9, CreatesNothingKeeps DEF CreatesNothing
  <1>10. QED
    BY <1>1, <1>3, <1>4, <1>5, <1>6, <1>7, <1>8, <1>9, CreatesNothingKeeps, ReceiveKeepsPlaces,
       CreateKeepsPlaces, UpdatePayloadKeepsPlaces, AbortKeepsPlaces, LateCallKeepsPlaces
    DEF Next, HandlerNext, Step, Environment

LEMMA PlacesKept == Spec => []PlaceInv
  <1>1. Init => PlaceInv
    <2> SUFFICES ASSUME Init PROVE PlaceInv
      OBVIOUS
    <2>1. CreatesAreAlike /\ \A a \in Actions : ~CreateIsLate(a)
      BY DEF Init, CreatesAreAlike, CreateIsLate
    <2>2. ASSUME NEW a \in Actions PROVE RowHasDraft(a) /\ OnePlace(a)
      <3>1. RowHasDraft(a)
        BY DEF Init, RowHasDraft
      <3>2. \A d \in LiveDrafts(a) : d = payload[a]
        BY DEF Init, LiveDrafts
      <3>3. QED
        BY <2>1, <3>1, <3>2 DEF OnePlace
    <2>3. QED
      BY <2>1, <2>2 DEF Init, PlaceInv, HoldsOwnDraft, ReplacesAlone, Idle, At, Busy, Replacing
  <1>2. TypeOK /\ HoldsRow /\ PlaceInv /\ [Next]_vars => PlaceInv'
    BY StepKeepsPlaces
  <1>3. QED
    BY <1>1, <1>2, TypeCorrect, PTL DEF Spec

(* Whatever goes wrong with whichever call, and wherever handlers are      *)
(* killed, an email never has two drafts in Gmail (reviseDraft creates     *)
(* only after its delete succeeded).                                       *)
THEOREM NeverTwoDrafts == Spec => []OneLiveDraft
  <1>1. PlaceInv => OneLiveDraft
    <2> SUFFICES ASSUME PlaceInv, NEW a \in Actions PROVE Cardinality(LiveDrafts(a)) <= 1
      BY DEF OneLiveDraft
    <2>1. LiveDrafts(a) = {} \/ \E d : LiveDrafts(a) = {d}
      BY DEF PlaceInv, OnePlace
    <2>2. CASE LiveDrafts(a) = {}
      BY <2>2, FS_EmptySet
    <2>3. ASSUME NEW d, LiveDrafts(a) = {d} PROVE Cardinality(LiveDrafts(a)) <= 1
      <3>1. Cardinality({d}) = 1
        BY FS_Singleton
      <3>2. QED
        BY <2>3, <3>1
    <2>4. QED
      BY <2>1, <2>2, <2>3
  <1>2. QED
    BY <1>1, PlacesKept, PTL

-----------------------------------------------------------------------------
(* The two tables.                                                         *)
LEMMA MarkKeepsTables ==
  ASSUME TypeOK, HoldsRow, PlaceInv, SavesWhatItMarked, TablesAgree,
         NEW h \in Handlers, MarkEmailDrafted(h)
  PROVE  SavesWhatItMarked' /\ TablesAgree'
  <1>1. PICK a \in Actions, d \in Drafts : a = handler[h].act /\ d = handler[h].draft
    BY BusyPcs DEF MarkEmailDrafted, At, HoldsRow, PlaceInv, HoldsOwnDraft, Replacing
  <1>2. /\ payload' = payload /\ drafted'[a] = d /\ handler[h].pc = "mark"
        /\ \A b \in Actions : b # a => drafted'[b] = drafted[b]
    BY <1>1 DEF MarkEmailDrafted, At, TypeOK, StoreTypeOK
  <1>3. /\ handler'[h].pc = "save" /\ handler'[h].act = a /\ handler'[h].draft = d
        /\ \A g \in Handlers \ {h} : handler'[g] = handler[g]
    BY <1>1, GotoFacts DEF MarkEmailDrafted
  <1>4. \A g \in Handlers \ {h} : At(g, "save") => handler[g].act # a
    BY <1>1, <1>2 DEF PlaceInv, ReplacesAlone, Replacing, At
  <1>5. SavesWhatItMarked'
    BY <1>2, <1>3, <1>4 DEF SavesWhatItMarked, At
  <1>6. TablesAgree'
    <2> SUFFICES ASSUME NEW b \in Actions
                 PROVE  \/ drafted'[b] = payload'[b]
                        \/ \E g \in Handlers : handler'[g].act = b /\ At(g, "save")'
      BY DEF TablesAgree
    <2>1. CASE b = a
      BY <1>3, <2>1 DEF At
    <2>2. CASE b # a
      <3>1. \A g \in Handlers : handler[g].act = b /\ At(g, "save") =>
              handler'[g].act = b /\ At(g, "save")'
        BY <1>2, <1>3 DEF At
      <3>2. QED
        BY <1>2, <2>2, <3>1 DEF TablesAgree
    <2>3. QED
      BY <2>1, <2>2
  <1>7. QED
    BY <1>5, <1>6

LEMMA UpdateKeepsTables ==
  ASSUME TypeOK, HoldsRow, PlaceInv, SavesWhatItMarked, TablesAgree,
         NEW h \in Handlers, UpdatePayload(h)
  PROVE  SavesWhatItMarked' /\ TablesAgree'
  <1>1. PICK a \in Actions, d \in Drafts : a = handler[h].act /\ d = handler[h].draft
    BY BusyPcs DEF UpdatePayload, At, HoldsRow, PlaceInv, HoldsOwnDraft, Replacing
  <1>2. /\ drafted' = drafted /\ payload'[a] = d /\ At(h, "save")
        /\ \A b \in Actions : b # a => payload'[b] = payload[b]
    BY <1>1 DEF UpdatePayload, TypeOK, StoreTypeOK
  <1>3. /\ handler'[h].pc = "notify" /\ \A g \in Handlers \ {h} : handler'[g] = handler[g]
    BY SayFacts DEF UpdatePayload
  <1>4. drafted[a] = d
    BY <1>1, <1>2 DEF SavesWhatItMarked
  <1>5. SavesWhatItMarked'
    BY <1>2, <1>3 DEF SavesWhatItMarked, At
  <1>6. \A b \in Actions, g \in Handlers : b # a /\ handler[g].act = b /\ At(g, "save") =>
          handler'[g].act = b /\ At(g, "save")'
    BY <1>1, <1>3 DEF At
  <1>7. TablesAgree'
    BY <1>2, <1>4, <1>6 DEF TablesAgree
  <1>8. QED
    BY <1>5, <1>7

(* A step that writes neither table and leaves those about to write alone. *)
LEMMA OthersKeepTables ==
  ASSUME SavesWhatItMarked, TablesAgree, UNCHANGED <<payload, drafted>>,
         \A h \in Handlers : At(h, "save") \/ At(h, "save")' => handler'[h] = handler[h]
  PROVE  SavesWhatItMarked' /\ TablesAgree'
  <1>1. SavesWhatItMarked'
    BY DEF SavesWhatItMarked, At
  <1>2. TablesAgree'
    BY DEF TablesAgree, At
  <1>3. QED
    BY <1>1, <1>2

LEMMA StepKeepsTables ==
  ASSUME TypeOK, HoldsRow, PlaceInv, SavesWhatItMarked, TablesAgree, "abort" \notin Faults,
         [Next]_vars
  PROVE  SavesWhatItMarked' /\ TablesAgree'
  <1> USE DEF vars, storeVars, rowVars, gmailVars, At
  <1>1. ASSUME NEW h \in Handlers, ~At(h, "save"), handler'[h].pc # "save",
               UNCHANGED <<payload, drafted>>, \A g \in Handlers \ {h} : handler'[g] = handler[g]
        PROVE  SavesWhatItMarked' /\ TablesAgree'
    BY <1>1, OthersKeepTables
  <1>2. ASSUME NEW h \in Handlers, Receive(h) \/ ReceiveFreeform(h) \/ Return(h)
        PROVE  SavesWhatItMarked' /\ TablesAgree'
    BY <1>1, <1>2 DEF Receive, ReceiveFreeform, Return, Say, Idle, Finished, TypeOK, HandlerState
  <1>3. ASSUME NEW h \in Handlers, ClaimSend(h) \/ ClaimDiscard(h) \/ Release(h) \/ DiscardDelete(h)
                                     \/ ReviseDelete(h) \/ Notify(h)
        PROVE  SavesWhatItMarked' /\ TablesAgree'
    <2>1. /\ ~At(h, "save") /\ UNCHANGED <<payload, drafted>>
          /\ \E pc \in Pc \ {"save"} : Goto(h, pc)
      BY <1>3 DEF ClaimSend, ClaimDiscard, Claim, Release, DiscardDelete, ReviseDelete, Notify, Pc,
                  Sending, Revising, Finished
    <2>2. QED
      BY <1>1, <2>1, GotoFacts
  <1>4. ASSUME NEW h \in Handlers, Send(h) \/ LogDiscardFeedback(h) \/ Rewrite(h)
        PROVE  SavesWhatItMarked' /\ TablesAgree'
    <2>1. /\ ~At(h, "save") /\ UNCHANGED <<payload, drafted>>
          /\ (\E pc \in Pc \ {"save"} : Goto(h, pc)) \/ \E note \in Notices : Say(h, note)
      BY <1>4 DEF Send, LogDiscardFeedback, Rewrite, Pc, Sending, Revising, Finished, Notices, Verdicts
    <2>2. QED
      BY <1>1, <2>1, GotoFacts, SayFacts
  <1>5. ASSUME NEW h \in Handlers, Create(h)
        PROVE  SavesWhatItMarked' /\ TablesAgree'
    <2>1. /\ ~At(h, "save") /\ UNCHANGED <<payload, drafted>>
          /\ handler'[h].pc \in {"mark", "threw"} /\ \A g \in Handlers \ {h} : handler'[g] = handler[g]
      BY <1>5 DEF Create, Goto, TypeOK, HandlerState
    <2>2. QED
      BY <1>1, <2>1
  <1>6. ASSUME ExpireStale \/ (\E a \in Actions : Age(a)) \/ LateCall, handler' = handler
        PROVE  SavesWhatItMarked' /\ TablesAgree'
    BY <1>6, OthersKeepTables DEF ExpireStale, Age, LateCall
  <1>7. CASE UNCHANGED vars
    BY <1>7, OthersKeepTables
  <1>8. ~\E h \in Handlers : Abort(h)
    BY DEF Abort
  <1>9. QED
    BY <1>2, <1>3, <1>4, <1>5, <1>6, <1>7, <1>8, MarkKeepsTables, UpdateKeepsTables
    DEF Next, HandlerNext, Step, Environment

(* Where invocations are not killed, an email has one draft at most and    *)
(* both tables name the same one, but between a revision's two writes      *)
(* (markEmailDrafted, updatePendingActionPayload).                         *)
THEOREM TablesNameOneDraft ==
  ASSUME "abort" \notin Faults PROVE Spec => []OneDraftEverywhere
  <1>1. Init => SavesWhatItMarked /\ TablesAgree
    BY DEF Init, SavesWhatItMarked, TablesAgree, Idle, At
  <1>2. TypeOK /\ HoldsRow /\ PlaceInv /\ SavesWhatItMarked /\ TablesAgree /\ [Next]_vars
          => SavesWhatItMarked' /\ TablesAgree'
    BY StepKeepsTables
  <1>3. OneLiveDraft /\ TablesAgree => OneDraftEverywhere
    BY DEF OneDraftEverywhere
  <1>4. QED
    BY <1>1, <1>2, <1>3, TypeCorrect, PlacesKept, NeverTwoDrafts, PTL DEF Spec
=============================================================================
