------------------------------ MODULE SignalLink ------------------------------
(***************************************************************************)
(* The link between a user and Signal: the two numbers a user saves        *)
(* (web/components/settings/settings-actions.ts), what is sent to them     *)
(* (web/features/signal/signal.ts), how an envelope read from signal-cli   *)
(* becomes a message (receive.ts) and whose reply it is (routing.ts and    *)
(* the poll).  Users may share a sender number, and the phone linked to it *)
(* may be the one that answers.  What a poll then does with the stored     *)
(* replies is SignalInbox, where polls overlap; here one runs at a time.   *)
(***************************************************************************)
EXTENDS Integers, FiniteSets

CONSTANTS
  Users,
  Numbers,     \* phone numbers in E.164 form, what validateNumbers lets pass
  NoNumber,
  Shapes,      \* of envelopes that signal-cli hands out
  MaxSaved,    \* bound: different links ever saved
  MaxSent,     \* bound: envelopes that arrive
  SignalFaults \* what may go wrong

AllShapes == {"data", "hidden", "sync", "blind", "receipt", "odd"}

(***************************************************************************)
(* Shapes: "data"    a text sent to the account by another phone;          *)
(*         "hidden"  the same, from a phone that does not give its number; *)
(*         "sync"    a text the account's own phone sent, perhaps to       *)
(*                   itself;                                               *)
(*         "blind"   the same, without the number of the phone;            *)
(*         "receipt" no text;                                              *)
(*         "odd"     an envelope the schema does not know.                 *)
(* SignalFaults: "receive" reading the queue fails;                        *)
(*         "save"    the drained replies cannot be written.                *)
(***************************************************************************)
ASSUME SignalLinkAssumption ==
  /\ NoNumber \notin Numbers
  /\ Shapes \subseteq AllShapes
  /\ MaxSaved \in Nat /\ MaxSent \in Nat
  /\ SignalFaults \subseteq {"receive", "save"}

Link == [sender : Numbers, recipient : Numbers]
NoLink == [sender |-> NoNumber, recipient |-> NoNumber]

(* at: the account whose queue it is in; writer: the phone it comes from;  *)
(* to: the phone a text of the account's own phone was sent to, if it was  *)
(* sent to one and not to a group.                                         *)
Envelope == [at : Numbers, shape : AllShapes, writer : Numbers, to : Numbers \cup {NoNumber}]

VARIABLES
  link,    \* signal_integrations: the numbers of each user
  saved,   \* every link that was ever saved, with its user
  sending, \* the numbers a message to each user is about to be sent to
  told,    \* users and the numbers a message about their mail went to
  queue,   \* signal-cli's queue of each account
  arrived, \* envelopes that have arrived
  poll,    \* links a poll has read, where each of its groups is, what it drained
  stored   \* replies saved in inbound_signal_messages, with their user

linkVars == <<link, saved, sending, told, queue, arrived, poll, stored>>

GroupPc == {"none", "drain", "store", "lost"}
NoPoll == [links |-> [u \in Users |-> NoLink], at |-> [s \in Numbers |-> "none"],
           batch |-> [s \in Numbers |-> {}]]

LinkTypeOK ==
  /\ link \in [Users -> Link \cup {NoLink}]
  /\ saved \subseteq Users \X Link
  /\ sending \in [Users -> Link \cup {NoLink}]
  /\ told \subseteq Users \X Link
  /\ queue \in [Numbers -> SUBSET Envelope]
  /\ arrived \in 0..MaxSent
  /\ poll \in [links : [Users -> Link \cup {NoLink}], at : [Numbers -> GroupPc],
               batch : [Numbers -> SUBSET Envelope]]
  /\ stored \subseteq Users \X Envelope

LinkInit ==
  /\ link = [u \in Users |-> NoLink] /\ saved = {}
  /\ sending = [u \in Users |-> NoLink] /\ told = {}
  /\ queue = [s \in Numbers |-> {}] /\ arrived = 0
  /\ poll = NoPoll /\ stored = {}

-----------------------------------------------------------------------------
(* Settings.  upsertSignalIntegration: one row per user.  Bound: MaxSaved. *)
SaveNumbers(u, l) ==
  /\ <<u, l>> \in saved \/ Cardinality(saved) < MaxSaved
  /\ link' = [link EXCEPT ![u] = l]
  /\ saved' = saved \cup {<<u, l>>}
  /\ UNCHANGED <<sending, told, queue, arrived, poll, stored>>

Disconnect(u) ==
  /\ link[u] # NoLink
  /\ link' = [link EXCEPT ![u] = NoLink]
  /\ UNCHANGED <<saved, sending, told, queue, arrived, poll, stored>>

(* resolveSignalNumbers; without a link the message is not sent.           *)
ResolveNumbers(u) ==
  /\ sending[u] = NoLink
  /\ link[u] # NoLink
  /\ sending' = [sending EXCEPT ![u] = link[u]]
  /\ UNCHANGED <<link, saved, told, queue, arrived, poll, stored>>

(* postSignalMessage reaches signal-cli, or does not and is reported as    *)
(* not sent.                                                               *)
Post(u) ==
  /\ sending[u] # NoLink
  /\ told' \in {told, told \cup {<<u, sending[u]>>}}
  /\ sending' = [sending EXCEPT ![u] = NoLink]
  /\ UNCHANGED <<link, saved, queue, arrived, poll, stored>>

-----------------------------------------------------------------------------
IsSync(e) == e.shape \in {"sync", "blind"}

(* signal-cli.  The account's own phone writes sync messages and no other. *)
(* Bound: MaxSent.                                                         *)
Arrive(e) ==
  /\ arrived < MaxSent
  /\ e.shape \in Shapes
  /\ e.to # NoNumber => IsSync(e)
  /\ IsSync(e) = (e.writer = e.at)
  /\ queue' = [queue EXCEPT ![e.at] = @ \cup {e}]
  /\ arrived' = arrived + 1
  /\ UNCHANGED <<link, saved, sending, told, poll, stored>>

-----------------------------------------------------------------------------
(* Reading an envelope.                                                    *)

HasText(e) == e.shape \in {"data", "hidden", "sync", "blind"}
SourceNumber(e) == IF e.shape \in {"hidden", "blind"} THEN NoNumber ELSE e.writer

(* toInboundMessage: sourceNumber, else the destination, so that a text    *)
(* without its number goes by that of the phone it was sent to; else the   *)
(* source, which for a hidden number is an identifier and no phone number. *)
From(e) == IF SourceNumber(e) # NoNumber THEN SourceNumber(e) ELSE e.to

(* extractMessages: one envelope the schema does not know, and the whole   *)
(* answer is refused.                                                      *)
Messages(batch) ==
  IF \E e \in batch : e.shape = "odd" THEN {}
  ELSE {e \in batch : HasText(e)}

-----------------------------------------------------------------------------
(* The poll.                                                               *)

Group(s) == {u \in Users : poll.links[u].sender = s}

(* getSignalIntegrationsWithPendingActions, for the linked users who have  *)
(* a draft waiting, whoever they are; groupBySender.                       *)
StartPoll ==
  /\ \A s \in Numbers : poll.at[s] \in {"none", "lost"}
  /\ \E due \in SUBSET {u \in Users : link[u] # NoLink} :
       /\ due # {}
       /\ poll' = [NoPoll EXCEPT
            !.links = [u \in Users |-> IF u \in due THEN link[u] ELSE NoLink],
            !.at = [s \in Numbers |-> IF \E u \in due : link[u].sender = s
                                     THEN "drain" ELSE "none"]]
  /\ UNCHANGED <<link, saved, sending, told, queue, arrived, stored>>

(* receiveSignalMessagesForSender: an error reads as no messages, and the  *)
(* queue may be empty by then.                                             *)
DrainSender(s) ==
  /\ poll.at[s] = "drain"
  /\ \/ /\ poll' = [poll EXCEPT !.at[s] = "store", !.batch[s] = queue[s]]
        /\ queue' = [queue EXCEPT ![s] = {}]
     \/ /\ "receive" \in SignalFaults
        /\ poll' = [poll EXCEPT !.at[s] = "store"]
        /\ queue' \in {queue, [queue EXCEPT ![s] = {}]}
  /\ UNCHANGED <<link, saved, sending, told, arrived, stored>>

\* Mutation: replies are matched with the first integration of the sender only.
OwnersFirst(s, e) == {u \in {CHOOSE v \in Group(s) : TRUE} : poll.links[u].recipient = From(e)}

\* Mutation: any user of the account owns its replies.
OwnersAll(s, e) == Group(s)

(* indexByRecipient within the group; two users with one recipient: the    *)
(* later of the query's rows, in no particular order.                      *)
Owners(s, e) == {u \in Group(s) : poll.links[u].recipient = From(e)}

(* persistDrainedMessages and saveInboundMessages.                         *)
StoreReplies(s) ==
  LET mine == {e \in Messages(poll.batch[s]) : Owners(s, e) # {}} IN
  /\ poll.at[s] = "store"
  /\ \E owner \in [mine -> Users] :
       /\ \A e \in mine : owner[e] \in Owners(s, e)
       /\ \A e, f \in mine : From(e) = From(f) => owner[e] = owner[f]
       /\ stored' = stored \cup {<<owner[e], e>> : e \in mine}
  /\ poll' = [poll EXCEPT !.at[s] = "none", !.batch[s] = {}]
  /\ UNCHANGED <<link, saved, sending, told, queue, arrived>>

(* saveInboundMessages throws: the batch, drained, is gone, and the poll   *)
(* answers with an error while its other groups go on.                     *)
SaveFails(s) ==
  /\ "save" \in SignalFaults
  /\ poll.at[s] = "store"
  /\ poll' = [poll EXCEPT !.at[s] = "lost", !.batch[s] = {}]
  /\ UNCHANGED <<link, saved, sending, told, queue, arrived, stored>>

LinkStep ==
  \/ \E u \in Users :
       (\E l \in Link : SaveNumbers(u, l)) \/ Disconnect(u) \/ ResolveNumbers(u) \/ Post(u)
  \/ \E e \in Envelope : Arrive(e)
  \/ StartPoll
  \/ \E s \in Numbers : DrainSender(s) \/ StoreReplies(s) \/ SaveFails(s)

LinkSpec == LinkInit /\ [][LinkStep]_linkVars

-----------------------------------------------------------------------------
(* Properties.                                                             *)

(* A reply is only ever taken for a user who saved, together, the account  *)
(* it was read from and the phone it goes by, however the numbers were     *)
(* changed while a poll ran and whoever else uses the account.  It goes by *)
(* the phone it was written on, but for a text of the account's own phone  *)
(* that does not give its number: that goes by the phone it was sent to,   *)
(* and is taken for a reply of a user who wrote nothing (toInboundMessage, *)
(* indexByRecipient).                                                      *)
ReplyIsOfSavedNumbers ==
  \A r \in stored :
    LET e == r[2] IN
    <<r[1], [sender |-> e.at, recipient |-> IF e.shape = "blind" THEN e.to ELSE e.writer]>> \in saved

(* What is said of a user's mail goes to a pair of numbers the user saved, *)
(* never from an old account to a new phone (dispatchSignalMessage).       *)
ToldOnSavedNumbers == told \subseteq saved

(* In either direction, nothing goes by an account of one user or time and *)
(* a phone of another.                                                     *)
NumbersStayPaired == ReplyIsOfSavedNumbers /\ ToldOnSavedNumbers

(* A poll whose save goes through keeps every reply that gives its number  *)
(* and comes from the phone of a user it polls, though users share the     *)
(* account (groupBySender).  When the save fails, all it drained is lost.  *)
GroupIsServed ==
  [][\A s \in Numbers :
       poll.at[s] = "store" /\ poll'.at[s] = "none" =>
         \A e \in Messages(poll.batch[s]) :
           (e.shape \in {"data", "sync"} /\ \E u \in Users :
              poll.links[u] = [sender |-> s, recipient |-> e.writer])
             => \E u \in Users : <<u, e>> \in stored']_linkVars
=============================================================================
