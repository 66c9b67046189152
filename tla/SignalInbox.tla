---------------------------- MODULE SignalInbox ----------------------------
(***************************************************************************)
(* The poll of Signal replies: web/app/api/cron/poll-signal-replies and    *)
(* web/db/queries/inbound-signal.ts.  A poll is one tick's work on one     *)
(* linked sender number; the scheduler starts one every minute whether or  *)
(* not the last has ended, so polls overlap.  Reading signal-cli's queue   *)
(* empties it.  handleSignalReply is seen from outside: it returns, and    *)
(* the reply has taken effect, or it throws.                               *)
(***************************************************************************)
EXTENDS Integers, FiniteSets

CONSTANTS
  Users,        \* users whose integration has this sender number
  Messages,     \* messages that may arrive; one handed out again without a
                \* timestamp is stored under another: it is another message
  UserOf,       \* whose phone a message comes from; a stranger's is no user
  Stamp,        \* signalTimestamp, the order in which replies were sent
  NoMessage,
  Polls,        \* polls that can be in progress at once
  MaxAttempts,  \* MAX_PROCESS_ATTEMPTS
  Late,         \* bound: polls overlap only before any of these is sent
  Faults        \* what may go wrong

(***************************************************************************)
(* Faults: "throw"     handleSignalReply throws;                           *)
(*         "mark"      markInboundProcessed throws, its UPDATE made or     *)
(*                     not;                                                *)
(*         "abort"     the invocation is killed (maxDuration is 60 s), or  *)
(*                     a database call throws, between two awaits;         *)
(*         "receive"   reading the queue fails, before or after signal-cli *)
(*                     emptied it;                                         *)
(*         "redeliver" signal-cli hands out a message a second time.       *)
(***************************************************************************)
ASSUME InboxAssumption ==
  /\ MaxAttempts \in Nat \ {0}
  /\ NoMessage \notin Messages
  /\ Stamp \in [Messages -> Nat]
  /\ \A m, n \in Messages : m # n /\ UserOf[m] = UserOf[n] => Stamp[m] # Stamp[n]
  /\ Faults \subseteq {"throw", "mark", "abort", "receive", "redeliver"}

VARIABLES
  unsent,    \* messages not yet sent by a phone
  queue,     \* signal-cli's queue for the sender number
  waiting,   \* users with a pending action
  row,       \* inbound_signal_messages: [status, attempts] of each message
  poll,      \* where each poll is, and what it has read
  effect,    \* whether a reply took effect, and whether that is on record
  failures,  \* attempts on it that failed, counted up to MaxAttempts
  gaveUp,    \* replies whose give-up notice was sent
  overlap    \* two polls were in progress at once

outcomes == <<effect, failures, gaveUp>>
vars == <<unsent, queue, waiting, row, poll, outcomes, overlap>>

RowStatus == {"absent", "received", "failed", "processed", "dead"}
Pc == {"idle", "drain", "persist", "load", "next", "ok", "failed", "giveUp"}
PollState == [pc : Pc, users : SUBSET Users, batch : SUBSET Messages,
              todo : SUBSET Messages, seen : [Messages -> 0..MaxAttempts],
              msg : Messages \cup {NoMessage}]

Unseen == [m \in Messages |-> 0]
Idle == [pc |-> "idle", users |-> {}, batch |-> {}, todo |-> {},
         seen |-> Unseen, msg |-> NoMessage]

TypeOK ==
  /\ unsent \subseteq Messages /\ queue \subseteq Messages
  /\ waiting \subseteq Users /\ gaveUp \subseteq Messages
  /\ row \in [Messages -> [status : RowStatus, attempts : 0..MaxAttempts]]
  /\ poll \in [Polls -> PollState]
  /\ effect \in [Messages -> {"none", "unrecorded", "recorded"}]
  /\ failures \in [Messages -> 0..MaxAttempts]
  /\ overlap \in BOOLEAN

Init ==
  /\ unsent = Messages /\ queue = {}
  /\ waiting \in SUBSET Users
  /\ row = [m \in Messages |-> [status |-> "absent", attempts |-> 0]]
  /\ poll = [p \in Polls |-> Idle]
  /\ effect = [m \in Messages |-> "none"] /\ failures = Unseen
  /\ gaveUp = {} /\ overlap = FALSE

-----------------------------------------------------------------------------
At(p, pc) == poll[p].pc = pc
Goto(p, pc) == poll' = [poll EXCEPT ![p].pc = pc]
Capped(n) == IF n < MaxAttempts THEN n + 1 ELSE n

(* The rest of the system: phones send replies; drafts come to await a     *)
(* reply, and are settled or expire.                                       *)
Arrive(m) ==
  /\ m \in unsent
  /\ m \in Late => ~overlap
  /\ unsent' = unsent \ {m}
  /\ queue' = queue \cup {m}
  /\ UNCHANGED <<waiting, row, poll, outcomes, overlap>>

Redeliver(m) ==
  /\ "redeliver" \in Faults
  /\ m \notin unsent
  /\ queue' = queue \cup {m}
  /\ UNCHANGED <<unsent, waiting, row, poll, outcomes, overlap>>

DraftQueued(u) ==
  /\ u \notin waiting
  /\ waiting' = waiting \cup {u}
  /\ UNCHANGED <<unsent, queue, row, poll, outcomes, overlap>>

DraftsSettled(u) ==
  /\ u \in waiting
  /\ waiting' = waiting \ {u}
  /\ UNCHANGED <<unsent, queue, row, poll, outcomes, overlap>>

(* getSignalIntegrationsWithPendingActions: a tick with none ends at once. *)
Start(p) ==
  /\ At(p, "idle")
  /\ waiting # {}
  /\ Late \subseteq unsent \/ \A q \in Polls : At(q, "idle")
  /\ poll' = [poll EXCEPT ![p] = [Idle EXCEPT !.pc = "drain", !.users = waiting]]
  /\ overlap' = (overlap \/ \E q \in Polls : ~At(q, "idle"))
  /\ UNCHANGED <<unsent, queue, waiting, row, outcomes>>

(* receiveSignalMessagesForSender; an error reads as no messages.          *)
Drain(p) ==
  /\ At(p, "drain")
  /\ \/ /\ poll' = [poll EXCEPT ![p].pc = "persist", ![p].batch = queue]
        /\ queue' = {}
     \/ /\ "receive" \in Faults
        /\ Goto(p, "persist")
        /\ queue' \in {queue, {}}
  /\ UNCHANGED <<unsent, waiting, row, outcomes, overlap>>

\* Mutation: the insert overwrites the row of a message already stored.
StoredUpsert(S) ==
  [m \in Messages |-> IF m \in S THEN [status |-> "received", attempts |-> 0] ELSE row[m]]

\* Mutation: the insert writes a status the enum does not have.
StoredAsPending(S) ==
  [m \in Messages |->
     IF m \in S /\ row[m].status = "absent"
     THEN [status |-> "pending", attempts |-> 0] ELSE row[m]]

(* saveInboundMessages: INSERT ... ON CONFLICT (source, timestamp) DO      *)
(* NOTHING.                                                                *)
Stored(S) ==
  [m \in Messages |->
     IF m \in S /\ row[m].status = "absent"
     THEN [status |-> "received", attempts |-> 0] ELSE row[m]]

(* persistDrainedMessages keeps what comes from the users read at the      *)
(* start and drops the rest.                                               *)
Persist(p) ==
  LET mine == {m \in poll[p].batch : UserOf[m] \in poll[p].users} IN
  /\ At(p, "persist")
  /\ row' = Stored(mine)
  /\ poll' = [poll EXCEPT ![p].pc = "load", ![p].batch = {}]
  /\ UNCHANGED <<unsent, queue, waiting, outcomes, overlap>>

\* Mutation: the query forgets the failed rows.
ProcessableReceived(m) == row[m].status = "received"

(* getProcessableInboundMessages: received, or failed and under the cap.   *)
Processable(m) ==
  \/ row[m].status = "received"
  \/ row[m].status = "failed" /\ row[m].attempts < MaxAttempts

Load(p) ==
  LET todo == {m \in Messages : Processable(m) /\ UserOf[m] \in poll[p].users} IN
  /\ At(p, "load")
  /\ poll' = [poll EXCEPT ![p].pc = "next", ![p].todo = todo,
       ![p].seen = [m \in Messages |-> IF m \in todo THEN row[m].attempts ELSE 0]]
  /\ UNCHANGED <<unsent, queue, waiting, row, outcomes, overlap>>

\* Mutation: the query orders newest first.
NextUpNewest(m, S) == \A n \in S : Stamp[m] >= Stamp[n]

NextUp(m, S) == \A n \in S : Stamp[m] <= Stamp[n]

(* The try of processOne: handleSignalReply on the oldest row left ...     *)
Fails(p, m) ==
  /\ poll' = [poll EXCEPT ![p].pc = "failed", ![p].msg = m]
  /\ failures' = [failures EXCEPT ![m] = Capped(@)]
  /\ UNCHANGED <<unsent, queue, waiting, effect, gaveUp, overlap>>

Process(p) ==
  /\ At(p, "next")
  /\ UNCHANGED row
  /\ \E m \in poll[p].todo :
       /\ NextUp(m, poll[p].todo)
       /\ \/ /\ poll' = [poll EXCEPT ![p].pc = "ok", ![p].msg = m]
             /\ effect' = [effect EXCEPT ![m] = "unrecorded"]
             /\ UNCHANGED <<unsent, queue, waiting, failures, gaveUp, overlap>>
          \/ "throw" \in Faults /\ Fails(p, m)

GoOn(p) ==
  poll' = [poll EXCEPT ![p].pc = "next", ![p].msg = NoMessage,
             ![p].todo = @ \ {poll[p].msg}, ![p].seen[poll[p].msg] = 0]

(* ... and markInboundProcessed, whatever the row has become.  If it       *)
(* throws the attempt failed, though the reply has taken effect.           *)
MarkProcessed(p) ==
  LET m == poll[p].msg
      processed == [row EXCEPT ![m].status = "processed"]
  IN
  /\ At(p, "ok")
  /\ \/ /\ row' = processed
        /\ effect' = [effect EXCEPT ![m] = "recorded"]
        /\ GoOn(p)
        /\ UNCHANGED <<unsent, queue, waiting, failures, gaveUp, overlap>>
     \/ /\ "mark" \in Faults
        /\ row' \in {row, processed}
        /\ Fails(p, m)

\* Mutation: gives up one attempt early.
ExhaustedEarly(attempts) == attempts + 1 >= MaxAttempts

Exhausted(attempts) == attempts >= MaxAttempts

(* markInboundFailed counts from the attempts this poll read.              *)
MarkFailed(p) ==
  LET m == poll[p].msg
      attempts == poll[p].seen[m] + 1
  IN
  /\ At(p, "failed")
  /\ row' = [row EXCEPT ![m] =
       [status |-> IF Exhausted(attempts) THEN "dead" ELSE "failed", attempts |-> attempts]]
  /\ IF Exhausted(attempts) THEN Goto(p, "giveUp") ELSE GoOn(p)
  /\ UNCHANGED <<unsent, queue, waiting, outcomes, overlap>>

NotifyGaveUp(p) ==
  /\ At(p, "giveUp")
  /\ gaveUp' = gaveUp \cup {poll[p].msg}
  /\ GoOn(p)
  /\ UNCHANGED <<unsent, queue, waiting, row, effect, failures, overlap>>

Over(p) == At(p, "next") /\ poll[p].todo = {}

Finish(p) ==
  /\ Over(p)
  /\ poll' = [poll EXCEPT ![p] = Idle]
  /\ UNCHANGED <<unsent, queue, waiting, row, outcomes, overlap>>

(* A poll killed before its end loses what it read and did not store.      *)
Abort(p) ==
  /\ "abort" \in Faults
  /\ ~At(p, "idle") /\ ~Over(p)
  /\ poll' = [poll EXCEPT ![p] = Idle]
  /\ UNCHANGED <<unsent, queue, waiting, row, outcomes, overlap>>

-----------------------------------------------------------------------------
Step(p) ==
  \/ Drain(p) \/ Persist(p) \/ Load(p) \/ Process(p) \/ MarkProcessed(p)
  \/ MarkFailed(p) \/ NotifyGaveUp(p) \/ Finish(p)

Next ==
  \/ \E p \in Polls : Start(p) \/ Step(p) \/ Abort(p)
  \/ \E m \in Messages : Arrive(m) \/ Redeliver(m)
  \/ \E u \in Users : DraftQueued(u) \/ DraftsSettled(u)

Spec == Init /\ [][Next]_vars

(* The scheduler keeps ticking and every await of a poll returns.          *)
FairSpec == Spec /\ \A p \in Polls : WF_vars(Start(p)) /\ WF_vars(Step(p))

-----------------------------------------------------------------------------
(* Properties.                                                             *)

Open(m) == row[m].status \in {"received", "failed"}
Settled(m) == row[m].status \in {"processed", "dead"}
Older(n, m) == UserOf[n] = UserOf[m] /\ Stamp[n] < Stamp[m]
Tried(m) == effect[m] # "none" \/ failures[m] > 0

(* A step in which handleSignalReply runs on m, and one that sends its     *)
(* give-up notice.                                                         *)
Tries(m) ==
  \E p \in Polls : At(p, "next") /\ poll'[p].pc \in {"ok", "failed"} /\ poll'[p].msg = m
Reports(m) ==
  \E p \in Polls : At(p, "giveUp") /\ poll[p].msg = m /\ poll'[p].pc = "next"

(* A reply is never given up, and its give-up notice never sent, before    *)
(* MaxAttempts attempts on it failed, in its handler or in recording that  *)
(* the handler was done, even when overlapping polls write attempt counts  *)
(* they read long ago (markInboundFailed).                                 *)
NeverGivesUpEarly ==
  \A m \in Messages :
    /\ row[m].attempts <= failures[m]
    /\ (row[m].status = "dead" \/ m \in gaveUp) => failures[m] = MaxAttempts

(* While polls have not overlapped, a reply whose effect is on record is   *)
(* not handled again, nor reported as given up, and no reply is reported   *)
(* twice, though signal-cli hands it out again and polls fail or are       *)
(* killed anywhere (saveInboundMessages, getProcessableInboundMessages).   *)
(* One whose record was lost is handled again and may even be given up.    *)
EndsOnce ==
  [][\A m \in Messages :
       /\ Tries(m) \/ Reports(m) => effect[m] # "recorded" \/ overlap
       /\ Reports(m) => m \notin gaveUp \/ overlap]_vars

(* While polls have not overlapped, a reply is first tried only when every *)
(* older stored reply of its user has been tried, whatever fails or is     *)
(* killed (getProcessableInboundMessages, ORDER BY signal_timestamp).      *)
FirstTriesInOrder ==
  [][\A m, n \in Messages :
       Tries(m) /\ ~Tried(m) /\ Older(n, m) /\ row[n].status # "absent"
         => Tried(n) \/ overlap]_vars

(* A stored reply of a user who keeps having a draft pending is applied or *)
(* given up at last, though attempts fail and polls overlap, once polls    *)
(* are no longer killed.                                                   *)
StoredIsSettled ==
  <>[][\A p \in Polls : ~Abort(p)]_vars =>
    \A m \in Messages :
      <>[](UserOf[m] \in waiting) => (Open(m) ~> Settled(m))
=============================================================================
