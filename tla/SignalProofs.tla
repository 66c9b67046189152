---------------------------- MODULE SignalProofs ----------------------------
(***************************************************************************)
(* What a user has with Signal: the numbers and the replies (SignalLink),  *)
(* the dialog that links a phone (SignalQr) and the drafts that await a    *)
(* word (DraftQueue).  They share no state.                                *)
(*                                                                         *)
(* For any number of users, phone numbers and envelopes: what is said of a *)
(* user's mail, and what is taken for a user's reply, only ever goes by    *)
(* two numbers that user saved together; and a poll keeps the replies it   *)
(* can read, unless its save fails.  The numbers are read long before they are used, so LinkInv   *)
(* is of every copy: in the table, in a message about to be posted and in  *)
(* a poll.  That the copies are still the user's own link is not so.       *)
(*                                                                         *)
(* However often the dialog is opened, it shows what came of the newest    *)
(* request.                                                                *)
(*                                                                         *)
(* For any number of emails, drafting runs, ref codes and drafts: a code   *)
(* names one draft that awaits the user and an email has one draft, but    *)
(* where DraftQueue says they were exposed to more.  A draft counts from   *)
(* the time its row is inserted until nobody can bring it back: a row      *)
(* claimed by a send may be released, so the invariants speak of live      *)
(* drafts, pending or held.  They also have to speak of the drafts still   *)
(* on their way to a row, for the code and the email of those were checked *)
(* before the row could be seen.                                           *)
(***************************************************************************)
EXTENDS SignalLink, SignalQr, DraftQueue, TLAPS

-----------------------------------------------------------------------------
(* The numbers and the replies.                                            *)

IsSaved(copy) == \A u \in Users : copy[u] # NoLink => <<u, copy[u]>> \in saved

(* What Arrive lets in: the account's own phone writes sync messages and   *)
(* nothing else, and only they may name whom they were sent to.            *)
WellFormed(e, s) ==
  /\ e \in Envelope
  /\ e.at = s
  /\ e.to # NoNumber => IsSync(e)
  /\ IsSync(e) = (e.writer = e.at)

LinkInv ==
  /\ LinkTypeOK
  /\ IsSaved(link) /\ IsSaved(sending) /\ IsSaved(poll.links)
  /\ \A s \in Numbers : \A e \in queue[s] \cup poll.batch[s] : WellFormed(e, s)
  /\ NumbersStayPaired

PollState == [links : [Users -> Link \cup {NoLink}], at : [Numbers -> GroupPc],
              batch : [Numbers -> SUBSET Envelope]]

USE DEF NumbersStayPaired, ReplyIsOfSavedNumbers, ToldOnSavedNumbers

-----------------------------------------------------------------------------
(* Reading an envelope.                                                    *)

LEMMA NoLinkIsNone == NoLink \notin Link
BY SignalLinkAssumption DEF NoLink, Link

(* The phone a reply goes by, where that is a phone at all.                *)
GoesBy(e) == IF e.shape = "blind" THEN e.to ELSE e.writer

(* Owners: a reply is of a user of the account who has saved the phone it  *)
(* goes by; one that hides its number, and was sent to none, is nobody's.  *)
LEMMA OwnerSavedIt ==
  ASSUME LinkInv, NEW s \in Numbers, NEW e \in poll.batch[s], HasText(e), NEW u \in Owners(s, e)
  PROVE  u \in Users /\ <<u, [sender |-> e.at, recipient |-> GoesBy(e)]>> \in saved
<1>1. u \in Users /\ poll.links[u].sender = s /\ poll.links[u].recipient = From(e)
  BY DEF Owners, Group
<1>2. poll.links[u] \in Link \cup {NoLink}  BY <1>1 DEF LinkInv, LinkTypeOK
<1>3. poll.links[u] \in Link
  BY <1>1, <1>2, SignalLinkAssumption DEF NoLink
<1>4. WellFormed(e, s)  BY DEF LinkInv
<1>5. From(e) \in Numbers  BY <1>1, <1>3 DEF Link
<1>6. From(e) = GoesBy(e)
  <2>1. CASE e.shape = "hidden"
    <3>1. From(e) = e.to /\ e.to = NoNumber
      BY <1>4, <2>1 DEF From, SourceNumber, WellFormed, IsSync
    <3> QED  BY <1>5, <3>1, SignalLinkAssumption
  <2>2. CASE e.shape = "blind"
    BY <2>2 DEF From, SourceNumber, GoesBy
  <2>3. CASE e.shape \notin {"hidden", "blind"}
    BY <1>4, <2>3, SignalLinkAssumption DEF From, SourceNumber, WellFormed, Envelope, GoesBy
  <2> QED  BY <2>1, <2>2, <2>3
<1>7. poll.links[u] = [sender |-> e.at, recipient |-> GoesBy(e)]
  BY <1>1, <1>3, <1>4, <1>6 DEF Link, WellFormed
<1>8. poll.links[u] # NoLink  BY <1>3, NoLinkIsNone
<1> QED  BY <1>1, <1>7, <1>8 DEF LinkInv, IsSaved

-----------------------------------------------------------------------------
LEMMA LinkInvInit == LinkInit => LinkInv
<1> SUFFICES ASSUME LinkInit PROVE LinkInv  OBVIOUS
<1>1. LinkTypeOK
  <2>1. NoPoll \in PollState  BY DEF NoPoll, PollState, GroupPc
  <2> QED  BY <2>1, SignalLinkAssumption DEF LinkInit, LinkTypeOK, PollState
<1>2. IsSaved(link) /\ IsSaved(sending) /\ IsSaved(poll.links)
  BY DEF LinkInit, IsSaved, NoPoll
<1>3. \A s \in Numbers : queue[s] \cup poll.batch[s] = {}  BY DEF LinkInit, NoPoll
<1> QED  BY <1>1, <1>2, <1>3 DEF LinkInv, LinkInit

LEMMA SaveKeeps ==
  ASSUME LinkInv, NEW u \in Users, NEW l \in Link, SaveNumbers(u, l)
  PROVE  LinkInv'
<1>1. link' = [link EXCEPT ![u] = l] /\ saved' = saved \cup {<<u, l>>}
      /\ UNCHANGED <<sending, told, queue, arrived, poll, stored>>
  BY DEF SaveNumbers
<1>2. LinkTypeOK'  BY <1>1 DEF LinkInv, LinkTypeOK
<1>3. IsSaved(link)' /\ IsSaved(sending)' /\ IsSaved(poll.links)'
  BY <1>1 DEF LinkInv, LinkTypeOK, IsSaved
<1>4. NumbersStayPaired'  BY <1>1 DEF LinkInv
<1> QED  BY <1>1, <1>2, <1>3, <1>4 DEF LinkInv, WellFormed

LEMMA DisconnectKeeps ==
  ASSUME LinkInv, NEW u \in Users, Disconnect(u)
  PROVE  LinkInv'
<1>1. link' = [link EXCEPT ![u] = NoLink]
      /\ UNCHANGED <<saved, sending, told, queue, arrived, poll, stored>>
  BY DEF Disconnect
<1>2. LinkTypeOK'  BY <1>1 DEF LinkInv, LinkTypeOK
<1>3. IsSaved(link)' /\ IsSaved(sending)' /\ IsSaved(poll.links)'
  BY <1>1 DEF LinkInv, LinkTypeOK, IsSaved
<1> QED  BY <1>1, <1>2, <1>3 DEF LinkInv, WellFormed

LEMMA ResolveKeeps ==
  ASSUME LinkInv, NEW u \in Users, ResolveNumbers(u)
  PROVE  LinkInv'
<1>1. link[u] # NoLink /\ sending' = [sending EXCEPT ![u] = link[u]]
      /\ UNCHANGED <<link, saved, told, queue, arrived, poll, stored>>
  BY DEF ResolveNumbers
<1>2. LinkTypeOK'  BY <1>1 DEF LinkInv, LinkTypeOK
<1>3. IsSaved(link)' /\ IsSaved(sending)' /\ IsSaved(poll.links)'
  BY <1>1 DEF LinkInv, LinkTypeOK, IsSaved
<1> QED  BY <1>1, <1>2, <1>3 DEF LinkInv, WellFormed

LEMMA PostKeeps ==
  ASSUME LinkInv, NEW u \in Users, Post(u)
  PROVE  LinkInv'
<1>1. sending[u] # NoLink /\ sending' = [sending EXCEPT ![u] = NoLink]
      /\ told' \in {told, told \cup {<<u, sending[u]>>}}
      /\ UNCHANGED <<link, saved, queue, arrived, poll, stored>>
  BY DEF Post
<1>2. told' \subseteq saved  BY <1>1 DEF LinkInv, IsSaved
<1>3. LinkTypeOK'  BY <1>1, <1>2 DEF LinkInv, LinkTypeOK
<1>4. IsSaved(link)' /\ IsSaved(sending)' /\ IsSaved(poll.links)'
  BY <1>1 DEF LinkInv, LinkTypeOK, IsSaved
<1> QED  BY <1>1, <1>2, <1>3, <1>4 DEF LinkInv, WellFormed

LEMMA ArriveKeeps ==
  ASSUME LinkInv, NEW e \in Envelope, Arrive(e)
  PROVE  LinkInv'
<1>1. /\ arrived < MaxSent /\ arrived' = arrived + 1
      /\ queue' = [queue EXCEPT ![e.at] = @ \cup {e}]
      /\ UNCHANGED <<link, saved, sending, told, poll, stored>>
  BY DEF Arrive
<1>2. e.at \in Numbers /\ WellFormed(e, e.at)  BY DEF Arrive, WellFormed, Envelope
<1>3. \A s \in Numbers : queue'[s] \subseteq queue[s] \cup {f \in {e} : e.at = s}
  BY <1>1, <1>2 DEF LinkInv, LinkTypeOK
<1>4. queue' \in [Numbers -> SUBSET Envelope]  BY <1>1, <1>2 DEF LinkInv, LinkTypeOK
<1>5. arrived' \in 0..MaxSent  BY <1>1, SignalLinkAssumption DEF LinkInv, LinkTypeOK
<1>6. LinkTypeOK'  BY <1>1, <1>4, <1>5 DEF LinkInv, LinkTypeOK
<1>7. \A s \in Numbers : \A f \in queue'[s] \cup poll'.batch[s] : WellFormed(f, s)
  BY <1>1, <1>2, <1>3 DEF LinkInv
<1>8. IsSaved(link)' /\ IsSaved(sending)' /\ IsSaved(poll.links)'
  BY <1>1 DEF LinkInv, IsSaved
<1> QED  BY <1>1, <1>6, <1>7, <1>8 DEF LinkInv, WellFormed

-----------------------------------------------------------------------------
(* The poll.                                                               *)

LEMMA StartKeeps == ASSUME LinkInv, StartPoll PROVE LinkInv'
<1>1. UNCHANGED <<link, saved, sending, told, queue, arrived, stored>>  BY DEF StartPoll
<1>2. PICK due \in SUBSET {u \in Users : link[u] # NoLink} :
        poll' = [NoPoll EXCEPT
            !.links = [u \in Users |-> IF u \in due THEN link[u] ELSE NoLink],
            !.at = [s \in Numbers |-> IF \E u \in due : link[u].sender = s THEN "drain" ELSE "none"]]
  BY DEF StartPoll
<1>3. /\ poll'.links = [u \in Users |-> IF u \in due THEN link[u] ELSE NoLink]
      /\ poll'.batch = [s \in Numbers |-> {}]
      /\ poll' \in PollState
  BY <1>2 DEF NoPoll, PollState, GroupPc, LinkInv, LinkTypeOK
<1>4. LinkTypeOK'  BY <1>1, <1>3 DEF LinkInv, LinkTypeOK, PollState
<1>5. IsSaved(link)' /\ IsSaved(sending)' /\ IsSaved(poll.links)'
  BY <1>1, <1>3 DEF LinkInv, IsSaved
<1>6. \A s \in Numbers : queue'[s] \cup poll'.batch[s] \subseteq queue[s]  BY <1>1, <1>3
<1> QED  BY <1>1, <1>4, <1>5, <1>6 DEF LinkInv, WellFormed

(* Whatever signal-cli answers: the group is at "store" with a batch that  *)
(* was in its queue, or with the one it had.                               *)
LEMMA DrainFacts ==
  ASSUME LinkInv, NEW s \in Numbers, DrainSender(s)
  PROVE  /\ UNCHANGED <<link, saved, sending, told, arrived, stored>>
         /\ poll' \in PollState /\ queue' \in [Numbers -> SUBSET Envelope]
         /\ poll'.links = poll.links
         /\ poll'.at = [poll.at EXCEPT ![s] = "store"]
         /\ \A t \in Numbers :
              queue'[t] \subseteq queue[t] /\ poll'.batch[t] \subseteq queue[t] \cup poll.batch[t]
<1>1. UNCHANGED <<link, saved, sending, told, arrived, stored>>  BY DEF DrainSender
<1>2. poll \in PollState /\ queue \in [Numbers -> SUBSET Envelope]  BY DEF LinkInv, LinkTypeOK, PollState
<1>3. "store" \in GroupPc  BY DEF GroupPc
<1>4. [queue EXCEPT ![s] = {}] \in [Numbers -> SUBSET Envelope]
      /\ \A t \in Numbers : [queue EXCEPT ![s] = {}][t] \subseteq queue[t]
  BY <1>2
<1>5. /\ queue' \in [Numbers -> SUBSET Envelope]
      /\ \A t \in Numbers : queue'[t] \subseteq queue[t]
  BY <1>2, <1>4 DEF DrainSender
<1>6. CASE poll' = [poll EXCEPT !.at[s] = "store", !.batch[s] = queue[s]]
  <2>1. /\ poll'.links = poll.links
        /\ poll'.at = [poll.at EXCEPT ![s] = "store"]
        /\ poll'.batch = [poll.batch EXCEPT ![s] = queue[s]]
        /\ poll' \in PollState
    BY <1>2, <1>3, <1>6 DEF PollState
  <2> QED  BY <1>1, <1>2, <1>5, <2>1 DEF PollState
<1>7. CASE poll' = [poll EXCEPT !.at[s] = "store"]
  <2>1. /\ poll'.links = poll.links
        /\ poll'.at = [poll.at EXCEPT ![s] = "store"]
        /\ poll'.batch = poll.batch
        /\ poll' \in PollState
    BY <1>2, <1>3, <1>7 DEF PollState
  <2> QED  BY <1>1, <1>5, <2>1
<1> QED  BY <1>6, <1>7 DEF DrainSender

LEMMA DrainKeeps ==
  ASSUME LinkInv, NEW s \in Numbers, DrainSender(s)
  PROVE  LinkInv'
<1>1. /\ UNCHANGED <<link, saved, sending, told, arrived, stored>>
      /\ poll' \in PollState /\ queue' \in [Numbers -> SUBSET Envelope]
      /\ poll'.links = poll.links
      /\ \A t \in Numbers :
           queue'[t] \subseteq queue[t] /\ poll'.batch[t] \subseteq queue[t] \cup poll.batch[t]
  BY DrainFacts
<1>2. LinkTypeOK'  BY <1>1 DEF LinkInv, LinkTypeOK, PollState
<1>3. IsSaved(link)' /\ IsSaved(sending)' /\ IsSaved(poll.links)'
  BY <1>1 DEF LinkInv, IsSaved
<1>4. \A t \in Numbers : \A e \in queue'[t] \cup poll'.batch[t] : WellFormed(e, t)
  BY <1>1 DEF LinkInv
<1> QED  BY <1>1, <1>2, <1>3, <1>4 DEF LinkInv, WellFormed

(* The replies that are stored are of owners, and all that have one are.   *)
LEMMA StoreFacts ==
  ASSUME LinkInv, NEW s \in Numbers, StoreReplies(s)
  PROVE  /\ UNCHANGED <<link, saved, sending, told, queue, arrived>>
         /\ poll' \in PollState /\ poll'.links = poll.links
         /\ poll'.at = [poll.at EXCEPT ![s] = "none"]
         /\ \A t \in Numbers : poll'.batch[t] \subseteq poll.batch[t]
         /\ stored \subseteq stored'
         /\ \A r \in stored' \ stored :
              \E e \in poll.batch[s] : HasText(e) /\ \E u \in Owners(s, e) : r = <<u, e>>
         /\ \A e \in Messages(poll.batch[s]) :
              Owners(s, e) # {} => \E u \in Owners(s, e) : <<u, e>> \in stored'
<1>1. /\ UNCHANGED <<link, saved, sending, told, queue, arrived>>
      /\ poll' = [poll EXCEPT !.at[s] = "none", !.batch[s] = {}]
  BY DEF StoreReplies
<1>2. poll \in PollState  BY DEF LinkInv, LinkTypeOK, PollState
<1>3. /\ poll'.links = poll.links
      /\ poll'.at = [poll.at EXCEPT ![s] = "none"]
      /\ poll'.batch = [poll.batch EXCEPT ![s] = {}]
      /\ poll' \in PollState
  BY <1>1, <1>2 DEF PollState, GroupPc
<1>4. \A t \in Numbers : poll'.batch[t] \subseteq poll.batch[t]  BY <1>2, <1>3 DEF PollState
<1> DEFINE mine == {e \in Messages(poll.batch[s]) : Owners(s, e) # {}}
<1>5. PICK owner \in [mine -> Users] :
        /\ \A e \in mine : owner[e] \in Owners(s, e)
        /\ stored' = stored \cup {<<owner[e], e>> : e \in mine}
  BY DEF StoreReplies
<1>6. \A e \in mine : e \in poll.batch[s] /\ HasText(e)  BY DEF Messages
<1> QED  BY <1>1, <1>3, <1>4, <1>5, <1>6

LEMMA StoreKeeps ==
  ASSUME LinkInv, NEW s \in Numbers, StoreReplies(s)
  PROVE  LinkInv'
<1>1. /\ UNCHANGED <<link, saved, sending, told, queue, arrived>>
      /\ poll' \in PollState /\ poll'.links = poll.links
      /\ \A t \in Numbers : poll'.batch[t] \subseteq poll.batch[t]
      /\ \A r \in stored' \ stored :
           \E e \in poll.batch[s] : HasText(e) /\ \E u \in Owners(s, e) : r = <<u, e>>
  BY StoreFacts
<1>2. \A r \in stored' \ stored :
        /\ r \in Users \X Envelope
        /\ <<r[1], [sender |-> r[2].at, recipient |-> GoesBy(r[2])]>> \in saved
  <2> TAKE r \in stored' \ stored
  <2>1. PICK e \in poll.batch[s] : HasText(e) /\ \E u \in Owners(s, e) : r = <<u, e>>  BY <1>1
  <2>2. PICK u \in Owners(s, e) : r = <<u, e>>  BY <2>1
  <2>3. u \in Users /\ <<u, [sender |-> e.at, recipient |-> GoesBy(e)]>> \in saved
    BY <2>1, <2>2, OwnerSavedIt
  <2>4. e \in Envelope  BY DEF LinkInv, LinkTypeOK
  <2> QED  BY <2>2, <2>3, <2>4
<1>3. LinkTypeOK'  BY <1>1, <1>2 DEF LinkInv, LinkTypeOK, PollState
<1>4. IsSaved(link)' /\ IsSaved(sending)' /\ IsSaved(poll.links)'
  BY <1>1 DEF LinkInv, IsSaved
<1>5. \A t \in Numbers : \A e \in queue'[t] \cup poll'.batch[t] : WellFormed(e, t)
  BY <1>1 DEF LinkInv
<1>6. NumbersStayPaired'  BY <1>1, <1>2 DEF LinkInv, GoesBy
<1> QED  BY <1>3, <1>4, <1>5, <1>6 DEF LinkInv, WellFormed

(* What a failed save leaves of a poll.                                    *)
LEMMA FailFacts ==
  ASSUME LinkInv, NEW s \in Numbers, SaveFails(s)
  PROVE  /\ UNCHANGED <<link, saved, sending, told, queue, arrived, stored>>
         /\ poll' \in PollState /\ poll'.links = poll.links
         /\ poll'.at = [poll.at EXCEPT ![s] = "lost"]
         /\ \A t \in Numbers : poll'.batch[t] \subseteq poll.batch[t]
<1>1. /\ UNCHANGED <<link, saved, sending, told, queue, arrived, stored>>
      /\ poll' = [poll EXCEPT !.at[s] = "lost", !.batch[s] = {}]
  BY DEF SaveFails
<1>2. poll \in PollState  BY DEF LinkInv, LinkTypeOK, PollState
<1>3. /\ poll'.links = poll.links
      /\ poll'.at = [poll.at EXCEPT ![s] = "lost"]
      /\ poll'.batch = [poll.batch EXCEPT ![s] = {}]
      /\ poll' \in PollState
  BY <1>1, <1>2 DEF PollState, GroupPc
<1> QED  BY <1>1, <1>2, <1>3 DEF PollState

LEMMA FailKeeps ==
  ASSUME LinkInv, NEW s \in Numbers, SaveFails(s)
  PROVE  LinkInv'
<1>1. /\ UNCHANGED <<link, saved, sending, told, queue, arrived, stored>>
      /\ poll' \in PollState /\ poll'.links = poll.links
      /\ \A t \in Numbers : poll'.batch[t] \subseteq poll.batch[t]
  BY FailFacts
<1>2. LinkTypeOK'  BY <1>1 DEF LinkInv, LinkTypeOK, PollState
<1>3. IsSaved(link)' /\ IsSaved(sending)' /\ IsSaved(poll.links)'
  BY <1>1 DEF LinkInv, IsSaved
<1>4. \A t \in Numbers : \A e \in queue'[t] \cup poll'.batch[t] : WellFormed(e, t)
  BY <1>1 DEF LinkInv
<1> QED  BY <1>1, <1>2, <1>3, <1>4 DEF LinkInv, WellFormed

LEMMA LinkInvStep == LinkInv /\ [LinkStep]_linkVars => LinkInv'
<1> SUFFICES ASSUME LinkInv, [LinkStep]_linkVars PROVE LinkInv'  OBVIOUS
<1>1. CASE UNCHANGED linkVars
  BY <1>1 DEF linkVars, LinkInv, LinkTypeOK, IsSaved, WellFormed
<1>2. ASSUME NEW u \in Users, NEW l \in Link, SaveNumbers(u, l) PROVE LinkInv'  BY <1>2, SaveKeeps
<1>3. ASSUME NEW u \in Users, Disconnect(u) \/ ResolveNumbers(u) \/ Post(u) PROVE LinkInv'
  BY <1>3, DisconnectKeeps, ResolveKeeps, PostKeeps
<1>4. ASSUME NEW e \in Envelope, Arrive(e) PROVE LinkInv'  BY <1>4, ArriveKeeps
<1>5. CASE StartPoll  BY <1>5, StartKeeps
<1>6. ASSUME NEW s \in Numbers, DrainSender(s) \/ StoreReplies(s) \/ SaveFails(s) PROVE LinkInv'
  BY <1>6, DrainKeeps, StoreKeeps, FailKeeps
<1> QED  BY <1>1, <1>2, <1>3, <1>4, <1>5, <1>6 DEF LinkStep

(* Integrations, queues, polls and stored replies stay well formed.        *)
THEOREM LinkTypeTheorem == LinkSpec => []LinkTypeOK
<1>1. LinkInv => LinkTypeOK  BY DEF LinkInv
<1> QED  BY <1>1, LinkInvInit, LinkInvStep, PTL DEF LinkSpec

(* However many users share accounts and phones, and however often they    *)
(* save other numbers while messages and polls are under way: nothing goes *)
(* to, or is taken from, a pair of numbers its user did not save together; *)
(* but what counts for a text of the account's own phone that hides its    *)
(* number is the phone it was sent to (dispatchSignalMessage,              *)
(* toInboundMessage, indexByRecipient).                                    *)
THEOREM PairedTheorem == LinkSpec => []NumbersStayPaired
<1>1. LinkInv => NumbersStayPaired  BY DEF LinkInv
<1> QED  BY <1>1, LinkInvInit, LinkInvStep, PTL DEF LinkSpec

-----------------------------------------------------------------------------
(* A poll whose save goes through, of any size, has stored every reply     *)
(* that gives its number and comes from the phone of a user it polls       *)
(* (pollSenderGroup).  Of one whose save fails nothing is said: it loses   *)
(* what it drained.                                                        *)
THEOREM ServedTheorem == LinkSpec => GroupIsServed
<1> DEFINE GroupServed ==
      \A s \in Numbers :
        poll.at[s] = "store" /\ poll'.at[s] = "none" =>
          \A e \in Messages(poll.batch[s]) :
            (e.shape \in {"data", "sync"} /\ \E u \in Users :
               poll.links[u] = [sender |-> s, recipient |-> e.writer])
              => \E u \in Users : <<u, e>> \in stored'
<1>1. LinkInv /\ [LinkStep]_linkVars => [GroupServed]_linkVars
  <2> SUFFICES ASSUME LinkInv, LinkStep, NEW s \in Numbers,
                      poll.at[s] = "store", poll'.at[s] = "none",
                      NEW e \in Messages(poll.batch[s]), e.shape \in {"data", "sync"},
                      NEW v \in Users, poll.links[v] = [sender |-> s, recipient |-> e.writer]
               PROVE  \E u \in Users : <<u, e>> \in stored'
    OBVIOUS
  <2>1. poll.at \in [Numbers -> GroupPc]  BY DEF LinkInv, LinkTypeOK
  <2>2. StoreReplies(s)
    <3>1. poll' # poll  BY SignalLinkAssumption
    <3>2. ~StartPoll  BY DEF StartPoll
    <3>3. \A t \in Numbers : ~DrainSender(t)
      BY <2>1, DrainFacts
    <3>4. \A t \in Numbers : StoreReplies(t) => t = s
      BY <2>1, StoreFacts
    <3>5. \A t \in Numbers : ~SaveFails(t)
      BY <2>1, FailFacts
    <3> QED  BY <3>1, <3>2, <3>3, <3>4, <3>5
      DEF LinkStep, SaveNumbers, Disconnect, ResolveNumbers, Post, Arrive
  <2>3. e \in poll.batch[s] /\ e \in Envelope  BY DEF Messages, LinkInv, LinkTypeOK
  <2>4. From(e) = e.writer
    BY <2>3, SignalLinkAssumption DEF From, SourceNumber, Envelope
  <2>5. v \in Owners(s, e)  BY <2>4 DEF Owners, Group
  <2>6. \E u \in Owners(s, e) : <<u, e>> \in stored'  BY <2>2, <2>5, StoreFacts
  <2> QED  BY <2>6 DEF Owners, Group
<1> QED  BY <1>1, LinkInvInit, LinkInvStep, PTL DEF LinkSpec, GroupIsServed

HIDE DEF NumbersStayPaired, ReplyIsOfSavedNumbers, ToldOnSavedNumbers

-----------------------------------------------------------------------------
(* The dialog.                                                             *)

(* A request is numbered when the dialog is opened; only the newest one    *)
(* can be on its way, while the dialog is open and shows nothing yet.      *)
QrInv ==
  /\ DialogIsOfNewest
  /\ \A r \in Requests : /\ r > newest => request[r] = "none"
                         /\ Live(r) => r = newest /\ isOpen /\ shown = 0 /\ failure = 0

USE DEF QrTypeOK, DialogIsOfNewest

LEMMA QrInvInit == QrInit => QrInv
<1> SUFFICES ASSUME QrInit PROVE QrInv
  OBVIOUS
<1>1. 0 \in 0..MaxOpened
  BY SignalQrAssumption
<1>2. QrTypeOK
  BY <1>1 DEF QrInit
<1>3. \A r \in Requests : request[r] = "none" /\ ~Live(r)
  BY DEF QrInit, Live
<1> QED  BY <1>2, <1>3 DEF QrInit, QrInv

(* What OpenModal and CloseModal leave of the requests: none is on its     *)
(* way, for only the newest could be.                                      *)
LEMMA AbortedNone ==
  ASSUME QrInv
  PROVE  /\ Aborted \in [Requests -> {"none", "fetching", "reading", "aborted", "over"}]
         /\ \A r \in Requests : /\ Aborted[r] \notin {"fetching", "reading"}
                                /\ r > newest => Aborted[r] = "none"
BY DEF QrInv, Aborted, Live, Requests

LEMMA OpenKeepsQr == QrInv /\ OpenModal => QrInv'
<1> SUFFICES ASSUME QrInv, OpenModal PROVE QrInv'
  OBVIOUS
<1>1. /\ newest' \in Requests /\ newest' = newest + 1 /\ newest \in Nat /\ ~isOpen
      /\ isOpen' = TRUE /\ loading' = TRUE /\ failure' = 0 /\ shown' = 0 /\ urls' = {}
  BY SignalQrAssumption DEF OpenModal, QrInv, Requests
<1>2. PICK q : q = newest'
  OBVIOUS
<1>3. request' = [Aborted EXCEPT ![q] = "fetching"]
  BY <1>2 DEF OpenModal
<1>4. /\ request' \in [Requests -> {"none", "fetching", "reading", "aborted", "over"}]
      /\ request'[q] = "fetching"
      /\ \A r \in Requests : r # q => request'[r] = Aborted[r]
  BY <1>1, <1>2, <1>3, AbortedNone
<1>5. \A r \in Requests : /\ r > q => request'[r] = "none"
                          /\ Live(r)' => r = q
  <2> SUFFICES ASSUME NEW r \in Requests
               PROVE  (r > q => request'[r] = "none") /\ (Live(r)' => r = q)
    OBVIOUS
  <2>1. r > q => r > newest /\ r # q
    BY <1>1, <1>2 DEF Requests
  <2> QED  BY <1>4, <2>1, AbortedNone DEF Live
<1>6. QrTypeOK'
  BY <1>1, <1>4, SignalQrAssumption DEF QrInv, Requests
<1>7. Live(newest)' = TRUE
  BY <1>2, <1>4 DEF Live
<1> QED  BY <1>1, <1>2, <1>5, <1>6, <1>7 DEF QrInv

LEMMA CloseKeepsQr == QrInv /\ CloseModal => QrInv'
<1> SUFFICES ASSUME QrInv, CloseModal PROVE QrInv'
  OBVIOUS
<1>1. /\ newest' = newest /\ isOpen' = FALSE /\ loading' = FALSE /\ request' = Aborted
      /\ failure' = 0 /\ shown' = 0 /\ urls' = {}
  BY DEF CloseModal
<1>2. QrTypeOK'
  BY <1>1, AbortedNone, SignalQrAssumption DEF QrInv
<1>3. \A r \in Requests : /\ r > newest => request'[r] = "none"
                          /\ ~Live(r)'
  BY <1>1, AbortedNone DEF Live
<1> QED  BY <1>1, <1>2, <1>3 DEF QrInv

(* The four ways a request goes on.                                        *)
LEMMA RequestKeepsQr ==
  ASSUME QrInv, NEW r \in Requests, Served(r) \/ ShowQr(r) \/ QrFails(r) \/ QrAborted(r)
  PROVE  QrInv'
<1>1. UNCHANGED <<isOpen, newest>>
  BY DEF Served, ShowQr, QrFails, QrAborted
<1>2. PICK s \in {"reading", "over"} : request' = [request EXCEPT ![r] = s]
  BY DEF Served, ShowQr, QrFails, QrAborted, Over
<1>3. /\ request' \in [Requests -> {"none", "fetching", "reading", "aborted", "over"}]
      /\ request'[r] = s /\ \A q \in Requests : q # r => request'[q] = request[q]
  BY <1>2 DEF QrInv
<1>4. request[r] # "none"
  BY DEF Served, ShowQr, QrFails, QrAborted, Live
<1>5. s = "reading" => request[r] = "fetching"
  BY <1>2, <1>3 DEF Served, ShowQr, QrFails, QrAborted, Over
<1>6. \A q \in Requests : /\ q > newest' => request'[q] = "none"
                          /\ Live(q)' => q = newest' /\ isOpen' /\ Live(q)
  BY <1>1, <1>2, <1>3, <1>4, <1>5 DEF QrInv, Live
<1>7. CASE Served(r)
  BY <1>1, <1>3, <1>6, <1>7 DEF Served, QrInv, Live
<1>8. CASE ShowQr(r) \/ QrFails(r)
  <2>1. r = newest /\ isOpen /\ shown = 0 /\ failure = 0 /\ r # 0 /\ r \in 0..MaxOpened
    BY <1>8, SignalQrAssumption DEF ShowQr, QrFails, QrInv, Live, Requests
  <2>2. loading' = FALSE /\ s = "over"
    BY <1>2, <1>3, <1>8, <2>1 DEF ShowQr, QrFails, Over
  <2>3. \A q \in Requests : ~Live(q)'
    BY <1>1, <1>3, <1>6, <2>1, <2>2 DEF Live
  <2>4. \/ shown' = r /\ urls' = {r} /\ failure' = 0
        \/ shown' = 0 /\ urls' = urls /\ failure' = r
    BY <1>8, <2>1 DEF ShowQr, QrFails
  <2>5. QrTypeOK'
    BY <1>1, <1>3, <2>1, <2>2, <2>4 DEF QrInv
  <2>6. loading' = Live(newest)' /\ isOpen' /\ newest' = r
    <3>1. newest' = r /\ newest' = newest /\ isOpen' = isOpen
      BY <1>1, <2>1
    <3>2. request'[newest'] = "over"
      BY <1>3, <2>2, <3>1
    <3>3. Live(newest)' = FALSE
      BY <3>2 DEF Live
    <3> QED  BY <2>1, <2>2, <3>1, <3>3
  <2>7. DialogIsOfNewest'
    BY <2>1, <2>4, <2>5, <2>6
  <2> QED  BY <1>6, <2>3, <2>7 DEF QrInv
<1>9. CASE QrAborted(r)
  BY <1>1, <1>3, <1>6, <1>9 DEF QrAborted, Over, QrInv, Live
<1> QED  BY <1>7, <1>8, <1>9

LEMMA QrInvStep == QrInv /\ [QrStep]_qrVars => QrInv'
<1>1. QrInv /\ UNCHANGED qrVars => QrInv'
  BY DEF QrInv, qrVars, Live
<1> QED  BY <1>1, OpenKeepsQr, CloseKeepsQr, RequestKeepsQr DEF QrStep

(* However often it is opened and closed and in whatever order the answers *)
(* of its requests come, the dialog shows what came of the newest one      *)
(* (loadQrCode, closeModal).                                               *)
THEOREM DialogTheorem == QrSpec => []DialogIsOfNewest
<1>1. QrInv => DialogIsOfNewest  BY DEF QrInv
<1> QED  BY <1>1, QrInvInit, QrInvStep, PTL DEF QrSpec

HIDE DEF QrTypeOK, DialogIsOfNewest

-----------------------------------------------------------------------------
(* The drafts.                                                             *)

InHand(r) == drafter[r].pc \in {"code", "insert"}
LiveDraft(d) == IsPending(d) \/ d \in held

(* A draft in hand has no row yet and is of its drafter's email; no two    *)
(* runs have one draft in hand; a held row is confirmed.                   *)
HandInv ==
  /\ \A r \in Drafters : InHand(r) =>
       /\ drafter[r].draft \in Drafts
       /\ draft[drafter[r].draft].status = "drafted"
       /\ draft[drafter[r].draft].email = drafter[r].email
  /\ \A r, q \in Drafters : InHand(r) /\ InHand(q) /\ drafter[r].draft = drafter[q].draft => r = q
  /\ \A d \in held : draft[d].status = "confirmed"

(* A code two live drafts have, or will have once the inserts under way    *)
(* are done, is exposed.                                                   *)
CodeInv ==
  /\ \A d, f \in Drafts :
       LiveDraft(d) /\ LiveDraft(f) /\ draft[d].code = draft[f].code => d = f \/ draft[d].code \in exposed
  /\ \A r \in Drafters, d \in Drafts :
       DrafterAt(r, "insert") /\ LiveDraft(d) /\ draft[d].code = drafter[r].code => drafter[r].code \in exposed
  /\ \A r, q \in Drafters :
       DrafterAt(r, "insert") /\ DrafterAt(q, "insert") /\ drafter[r].code = drafter[q].code
         => r = q \/ drafter[r].code \in exposed

(* The same of emails, from the moment a run takes one up.                 *)
EmailInv ==
  /\ \A d, f \in Drafts :
       LiveDraft(d) /\ LiveDraft(f) /\ draft[d].email = draft[f].email => d = f \/ draft[d].email \in redrafted
  /\ \A r \in Drafters, d \in Drafts :
       ~DrafterAt(r, "idle") /\ LiveDraft(d) /\ draft[d].email = drafter[r].email
         => drafter[r].email \in redrafted
  /\ \A r, q \in Drafters :
       ~DrafterAt(r, "idle") /\ ~DrafterAt(q, "idle") /\ drafter[r].email = drafter[q].email
         => r = q \/ drafter[r].email \in redrafted

QueueInv == QueueTypeOK /\ HandInv /\ CodeInv /\ EmailInv

DraftRow == [status : DraftStatus, email : Emails \cup {NoEmail}, code : Codes \cup {NoCode}]
DrafterState == [pc : {"idle", "create", "code", "insert"}, email : Emails \cup {NoEmail},
                 code : Codes \cup {NoCode}, draft : 0..MaxDrafts]

-----------------------------------------------------------------------------
(* What each action does, field by field.                                  *)

(* A run of the tool that moves on, and all others as they were.           *)
LEMMA RestFacts ==
  ASSUME QueueTypeOK, NEW r \in Drafters, drafter' = [drafter EXCEPT ![r] = Resting]
  PROVE  /\ drafter' \in [Drafters -> DrafterState]
         /\ DrafterAt(r, "idle")'
         /\ \A q \in Drafters \ {r} : drafter'[q] = drafter[q]
<1>1. Resting \in DrafterState  BY DraftQueueAssumption DEF Resting, DrafterState
<1> QED  BY <1>1 DEF QueueTypeOK, DrafterState, DrafterAt, Resting

LEMMA BeginFacts ==
  ASSUME QueueTypeOK, NEW r \in Drafters, NEW e \in Emails, BeginDraft(r, e)
  PROVE  /\ drafter' \in [Drafters -> DrafterState]
         /\ DrafterAt(r, "create")' /\ drafter'[r].email = e
         /\ \A q \in Drafters \ {r} : drafter'[q] = drafter[q]
<1> DEFINE new == [drafter[r] EXCEPT !.pc = "create", !.email = e]
<1>1. drafter[r] \in DrafterState  BY DEF QueueTypeOK, DrafterState
<1>2. new \in DrafterState /\ new.pc = "create" /\ new.email = e  BY <1>1 DEF DrafterState
<1>3. drafter' = [drafter EXCEPT ![r] = new]  BY Zenon DEF BeginDraft
<1> HIDE DEF new
<1> QED  BY <1>2, <1>3 DEF QueueTypeOK, DrafterState, DrafterAt

LEMMA PickFacts ==
  ASSUME QueueTypeOK, NEW r \in Drafters, NEW c \in Codes, PickCode(r, c)
  PROVE  /\ drafter' \in [Drafters -> DrafterState]
         /\ DrafterAt(r, "insert")' /\ drafter'[r].code = c
         /\ drafter'[r].email = drafter[r].email /\ drafter'[r].draft = drafter[r].draft
         /\ \A q \in Drafters \ {r} : drafter'[q] = drafter[q]
<1> DEFINE new == [drafter[r] EXCEPT !.pc = "insert", !.code = c]
<1>1. drafter[r] \in DrafterState  BY DEF QueueTypeOK, DrafterState
<1>2. /\ new \in DrafterState /\ new.pc = "insert" /\ new.code = c
      /\ new.email = drafter[r].email /\ new.draft = drafter[r].draft
  BY <1>1 DEF DrafterState
<1>3. drafter' = [drafter EXCEPT ![r] = new]  BY Zenon DEF PickCode
<1> HIDE DEF new
<1> QED  BY <1>2, <1>3 DEF QueueTypeOK, DrafterState, DrafterAt

(* Gmail made the draft; the run has it in hand, or knows nothing of it.   *)
LEMMA CreateFacts ==
  ASSUME QueueTypeOK, NEW r \in Drafters, CreateDraft(r)
  PROVE  /\ drafter' \in [Drafters -> DrafterState]
         /\ draft' \in [Drafts -> DraftRow]
         /\ \A q \in Drafters \ {r} : drafter'[q] = drafter[q]
         /\ \E d \in Drafts :
              /\ draft[d].status = "none"
              /\ draft'[d].status = "drafted" /\ draft'[d].email = drafter[r].email
              /\ \A f \in Drafts \ {d} : draft'[f] = draft[f]
              /\ \/ DrafterAt(r, "idle")'
                 \/ /\ DrafterAt(r, "code")' /\ drafter'[r].draft = d
                    /\ drafter'[r].email = drafter[r].email
<1>1. PICK d \in Drafts :
        /\ \A f \in Drafts : (draft[f].status = "none") = (f >= d)
        /\ draft' = [draft EXCEPT ![d].status = "drafted", ![d].email = drafter[r].email]
        /\ drafter' \in {[drafter EXCEPT ![r].pc = "code", ![r].draft = d],
                         [drafter EXCEPT ![r] = Resting]}
  BY Zenon DEF CreateDraft
<1>2. draft[d].status = "none"
  BY <1>1 DEF Drafts
<1>3. drafter[r] \in DrafterState /\ draft[d] \in DraftRow  BY DEF QueueTypeOK, DrafterState, DraftRow
<1> DEFINE row == [draft[d] EXCEPT !.status = "drafted", !.email = drafter[r].email]
<1> DEFINE new == [drafter[r] EXCEPT !.pc = "code", !.draft = d]
<1>4. row \in DraftRow /\ row.status = "drafted" /\ row.email = drafter[r].email
  BY <1>3 DEF DraftRow, DrafterState, DraftStatus
<1>5. draft' = [draft EXCEPT ![d] = row]  BY <1>1, Zenon
<1>6. /\ draft' \in [Drafts -> DraftRow]
      /\ draft'[d].status = "drafted" /\ draft'[d].email = drafter[r].email
      /\ \A f \in Drafts \ {d} : draft'[f] = draft[f]
  <2> HIDE DEF row
  <2> QED  BY <1>4, <1>5 DEF QueueTypeOK, DraftRow
<1>7. CASE drafter' = [drafter EXCEPT ![r] = Resting]
  BY <1>2, <1>6, <1>7, RestFacts
<1>8. CASE drafter' = [drafter EXCEPT ![r].pc = "code", ![r].draft = d]
  <2>0. d \in 0..MaxDrafts  BY DraftQueueAssumption DEF Drafts
  <2>1. new \in DrafterState /\ new.pc = "code" /\ new.draft = d /\ new.email = drafter[r].email
    BY <1>3, <2>0 DEF DrafterState
  <2>2. drafter' = [drafter EXCEPT ![r] = new]  BY <1>8, Zenon
  <2> HIDE DEF new
  <2>3. /\ drafter' \in [Drafters -> DrafterState]
        /\ DrafterAt(r, "code")' /\ drafter'[r].draft = d /\ drafter'[r].email = drafter[r].email
        /\ \A q \in Drafters \ {r} : drafter'[q] = drafter[q]
    BY <2>1, <2>2 DEF QueueTypeOK, DrafterState, DrafterAt
  <2> QED  BY <1>2, <1>6, <2>3
<1> QED  BY <1>1, <1>7, <1>8

(* A row that changes its status only.                                     *)
LEMMA StatusFacts ==
  ASSUME QueueTypeOK, NEW d \in Drafts, NEW s \in DraftStatus, draft' = [draft EXCEPT ![d].status = s]
  PROVE  /\ draft' \in [Drafts -> DraftRow]
         /\ draft'[d].status = s
         /\ draft'[d].email = draft[d].email /\ draft'[d].code = draft[d].code
         /\ \A f \in Drafts \ {d} : draft'[f] = draft[f]
<1> DEFINE row == [draft[d] EXCEPT !.status = s]
<1>1. draft[d] \in DraftRow  BY DEF QueueTypeOK, DraftRow
<1>2. row \in DraftRow /\ row.status = s /\ row.email = draft[d].email /\ row.code = draft[d].code
  BY <1>1 DEF DraftRow
<1>3. draft' = [draft EXCEPT ![d] = row]  BY Zenon
<1> HIDE DEF row
<1> QED  BY <1>2, <1>3 DEF QueueTypeOK, DraftRow

LEMMA InsertFacts ==
  ASSUME QueueTypeOK, NEW r \in Drafters, Insert(r), drafter[r].draft \in Drafts
  PROVE  LET d == drafter[r].draft IN
         /\ draft' \in [Drafts -> DraftRow]
         /\ draft'[d].status = "pending"
         /\ draft'[d].email = draft[d].email /\ draft'[d].code = drafter[r].code
         /\ \A f \in Drafts \ {d} : draft'[f] = draft[f]
<1> DEFINE d == drafter[r].draft
<1> DEFINE row == [draft[d] EXCEPT !.status = "pending", !.code = drafter[r].code]
<1>1. draft[d] \in DraftRow /\ drafter[r] \in DrafterState  BY DEF QueueTypeOK, DraftRow, DrafterState
<1>2. row \in DraftRow /\ row.status = "pending" /\ row.email = draft[d].email /\ row.code = drafter[r].code
  BY <1>1 DEF DraftRow, DrafterState, DraftStatus
<1>3. draft' = [draft EXCEPT ![d] = row]  BY Zenon DEF Insert
<1> HIDE DEF row
<1> QED  BY <1>2, <1>3 DEF QueueTypeOK, DraftRow

LEMMA ExpireFacts ==
  ASSUME QueueTypeOK, NEW S \in SUBSET Drafts, Expire(S)
  PROVE  /\ draft' \in [Drafts -> DraftRow]
         /\ \A d \in S : IsPending(d) /\ draft'[d].status = "expired"
         /\ \A d \in Drafts : draft'[d].email = draft[d].email /\ draft'[d].code = draft[d].code
         /\ \A d \in Drafts \ S : draft'[d] = draft[d]
<1>1. \A d \in Drafts : draft[d] \in DraftRow  BY DEF QueueTypeOK, DraftRow
<1>2. \A d \in Drafts :
        LET row == [draft[d] EXCEPT !.status = "expired"] IN
        row \in DraftRow /\ row.status = "expired" /\ row.email = draft[d].email /\ row.code = draft[d].code
  BY <1>1 DEF DraftRow, DraftStatus
<1>3. draft' = [d \in Drafts |-> IF d \in S THEN [draft[d] EXCEPT !.status = "expired"] ELSE draft[d]]
  BY DEF Expire
<1>4. \A d \in S : IsPending(d)  BY DEF Expire
<1> QED  BY <1>1, <1>2, <1>3, <1>4

-----------------------------------------------------------------------------
LEMMA QueueInvInit == QueueInit => QueueInv
<1> SUFFICES ASSUME QueueInit PROVE QueueInv  OBVIOUS
<1>1. QueueTypeOK
  BY DraftQueueAssumption DEF QueueInit, QueueTypeOK, Resting, DraftStatus
<1>2. \A d \in Drafts : ~LiveDraft(d)  BY DEF QueueInit, LiveDraft, IsPending
<1>3. \A r \in Drafters : DrafterAt(r, "idle")  BY DEF QueueInit, Resting, DrafterAt
<1> QED  BY <1>1, <1>2, <1>3 DEF QueueInv, HandInv, CodeInv, EmailInv, InHand, DrafterAt, QueueInit

(* Steps that leave the drafting runs alone and only take live drafts      *)
(* away, or keep them.                                                     *)
LEMMA RowsOnly ==
  ASSUME QueueInv, UNCHANGED <<drafter, exposed, redrafted>>,
         draft' \in [Drafts -> DraftRow], held' \subseteq Drafts,
         \A d \in Drafts : draft'[d].email = draft[d].email /\ draft'[d].code = draft[d].code,
         \A d \in Drafts : LiveDraft(d)' => LiveDraft(d),
         \A d \in Drafts : draft[d].status = "drafted" => draft'[d].status = "drafted",
         \A d \in held' : draft'[d].status = "confirmed"
  PROVE  QueueInv'
<1>1. QueueTypeOK'  BY DEF QueueInv, QueueTypeOK, DraftRow
<1>2. HandInv'  BY DEF QueueInv, HandInv, InHand
<1>3. CodeInv'  BY DEF QueueInv, CodeInv, DrafterAt
<1>4. EmailInv'  BY DEF QueueInv, EmailInv, DrafterAt
<1> QED  BY <1>1, <1>2, <1>3, <1>4 DEF QueueInv

LEMMA AnswerKeeps ==
  ASSUME QueueInv, NEW c \in Codes, NEW command \in Commands, Answer(c, command)
  PROVE  QueueInv'
<1> DEFINE s == IF KindOf(command) = "draft_send" THEN "confirmed" ELSE "discarded"
<1>1. PICK d \in PendingWith(c) :
        /\ draft' = [draft EXCEPT ![d].status = s]
        /\ held' = IF KindOf(command) = "draft_send" THEN held \cup {d} ELSE held
  BY Zenon DEF Answer
<1>2. d \in Drafts /\ IsPending(d)  BY DEF PendingWith
<1>3. s \in DraftStatus /\ (s = "confirmed" \/ held' = held)
      /\ held' \subseteq held \cup {d}
  BY <1>1 DEF DraftStatus
<1> HIDE DEF s
<1>4. /\ draft' \in [Drafts -> DraftRow]
      /\ draft'[d].status = s
      /\ draft'[d].email = draft[d].email /\ draft'[d].code = draft[d].code
      /\ \A f \in Drafts \ {d} : draft'[f] = draft[f]
  BY <1>1, <1>2, <1>3, StatusFacts DEF QueueInv
<1>5. UNCHANGED <<drafter, exposed, redrafted>>  BY DEF Answer
<1>6. held' \subseteq Drafts  BY <1>2, <1>3 DEF QueueInv, QueueTypeOK
<1>7. d \notin held  BY <1>2 DEF QueueInv, HandInv, IsPending
<1>8. \A f \in held' : draft'[f].status = "confirmed"
  BY <1>2, <1>3, <1>4, <1>6, <1>7 DEF QueueInv, HandInv
<1>9. \A f \in Drafts : LiveDraft(f)' => LiveDraft(f)
  BY <1>2, <1>3, <1>4 DEF LiveDraft, IsPending
<1>10. \A f \in Drafts : draft[f].status = "drafted" => draft'[f].status = "drafted"
  BY <1>2, <1>4 DEF IsPending
<1>11. \A f \in Drafts : draft'[f].email = draft[f].email /\ draft'[f].code = draft[f].code
  BY <1>4
<1> QED  BY <1>4, <1>5, <1>6, <1>8, <1>9, <1>10, <1>11, RowsOnly

LEMMA ReleaseKeeps ==
  ASSUME QueueInv, NEW d \in Drafts, Release(d)
  PROVE  QueueInv'
<1>1. /\ d \in held /\ held' = held \ {d}
      /\ draft' = [draft EXCEPT ![d].status = "pending"]
      /\ UNCHANGED <<drafter, exposed, redrafted>>
  BY DEF Release
<1>2. "pending" \in DraftStatus  BY DEF DraftStatus
<1>3. /\ draft' \in [Drafts -> DraftRow]
      /\ draft'[d].email = draft[d].email /\ draft'[d].code = draft[d].code
      /\ \A f \in Drafts \ {d} : draft'[f] = draft[f]
  BY <1>1, <1>2, StatusFacts DEF QueueInv
<1>4. draft[d].status = "confirmed"  BY <1>1 DEF QueueInv, HandInv
<1>5. held \subseteq Drafts  BY DEF QueueInv, QueueTypeOK
<1>6. \A f \in held' : draft'[f].status = "confirmed"
  BY <1>1, <1>3, <1>5 DEF QueueInv, HandInv
<1>7. \A f \in Drafts : LiveDraft(f)' => LiveDraft(f)  BY <1>1, <1>3 DEF LiveDraft, IsPending
<1>8. \A f \in Drafts : draft[f].status = "drafted" => draft'[f].status = "drafted"  BY <1>3, <1>4
<1>9. \A f \in Drafts : draft'[f].email = draft[f].email /\ draft'[f].code = draft[f].code  BY <1>3
<1> QED  BY <1>1, <1>3, <1>5, <1>6, <1>7, <1>8, <1>9, RowsOnly

LEMMA SentKeeps ==
  ASSUME QueueInv, NEW d \in Drafts, Sent(d)
  PROVE  QueueInv'
<1>1. held' = held \ {d} /\ UNCHANGED <<draft, drafter, exposed, redrafted>>  BY DEF Sent
<1>2. draft' \in [Drafts -> DraftRow] /\ held \subseteq Drafts  BY <1>1 DEF QueueInv, QueueTypeOK, DraftRow
<1>3. \A f \in Drafts : LiveDraft(f)' => LiveDraft(f)  BY <1>1 DEF LiveDraft, IsPending
<1>4. \A f \in held' : draft'[f].status = "confirmed"  BY <1>1 DEF QueueInv, HandInv
<1> QED  BY <1>1, <1>2, <1>3, <1>4, RowsOnly

LEMMA ExpireKeeps ==
  ASSUME QueueInv, NEW S \in SUBSET Drafts, Expire(S)
  PROVE  QueueInv'
<1>1. UNCHANGED <<drafter, held, exposed, redrafted>>  BY DEF Expire
<1>2. /\ draft' \in [Drafts -> DraftRow]
      /\ \A d \in S : IsPending(d) /\ draft'[d].status = "expired"
      /\ \A d \in Drafts : draft'[d].email = draft[d].email /\ draft'[d].code = draft[d].code
      /\ \A d \in Drafts \ S : draft'[d] = draft[d]
  BY ExpireFacts DEF QueueInv
<1>3. held \subseteq Drafts  BY DEF QueueInv, QueueTypeOK
<1>4. \A d \in held : d \notin S  BY <1>2 DEF QueueInv, HandInv, IsPending
<1>5. \A d \in held' : draft'[d].status = "confirmed"
  BY <1>1, <1>2, <1>3, <1>4 DEF QueueInv, HandInv
<1>6. \A d \in Drafts : LiveDraft(d)' => LiveDraft(d)  BY <1>1, <1>2 DEF LiveDraft, IsPending
<1>7. \A d \in Drafts : draft[d].status = "drafted" => draft'[d].status = "drafted"
  BY <1>2 DEF IsPending
<1> QED  BY <1>1, <1>2, <1>3, <1>5, <1>6, <1>7, RowsOnly

(* A run ends, whatever it had in hand: nothing is claimed of it any more. *)
LEMMA FailsKeeps ==
  ASSUME QueueInv, NEW r \in Drafters, DraftFails(r)
  PROVE  QueueInv'
<1>1. UNCHANGED <<draft, held, exposed, redrafted>>  BY DEF DraftFails
<1>2. /\ drafter' \in [Drafters -> DrafterState]
      /\ DrafterAt(r, "idle")'
      /\ \A q \in Drafters \ {r} : drafter'[q] = drafter[q]
  BY RestFacts DEF QueueInv, DraftFails
<1>3. QueueTypeOK'  BY <1>1, <1>2 DEF QueueInv, QueueTypeOK, DrafterState
<1>4. HandInv'  BY <1>1, <1>2 DEF QueueInv, HandInv, InHand, DrafterAt
<1>5. CodeInv'  BY <1>1, <1>2 DEF QueueInv, CodeInv, DrafterAt, LiveDraft, IsPending
<1>6. EmailInv'  BY <1>1, <1>2 DEF QueueInv, EmailInv, DrafterAt, LiveDraft, IsPending
<1> QED  BY <1>3, <1>4, <1>5, <1>6 DEF QueueInv

LEMMA BeginKeeps ==
  ASSUME QueueInv, NEW r \in Drafters, NEW e \in Emails, BeginDraft(r, e)
  PROVE  QueueInv'
<1>1. UNCHANGED <<draft, held, exposed>>  BY DEF BeginDraft
<1>2. DrafterAt(r, "idle") /\ PendingFor(e) = {}
      /\ redrafted' = IF UnderWay(e) THEN redrafted \cup {e} ELSE redrafted
  BY DEF BeginDraft
<1>3. /\ drafter' \in [Drafters -> DrafterState]
      /\ DrafterAt(r, "create")' /\ drafter'[r].email = e
      /\ \A q \in Drafters \ {r} : drafter'[q] = drafter[q]
  BY BeginFacts DEF QueueInv
<1>4. QueueTypeOK'  BY <1>1, <1>2, <1>3 DEF QueueInv, QueueTypeOK, DrafterState
<1>5. HandInv'  BY <1>1, <1>3 DEF QueueInv, HandInv, InHand, DrafterAt
<1>6. CodeInv'  BY <1>1, <1>3 DEF QueueInv, CodeInv, DrafterAt, LiveDraft, IsPending
<1>7. EmailInv'
  <2>1. \A d \in Drafts : LiveDraft(d) /\ draft[d].email = e => UnderWay(e)
    BY <1>2 DEF LiveDraft, PendingFor, UnderWay
  <2>2. \A q \in Drafters : ~DrafterAt(q, "idle") /\ drafter[q].email = e => UnderWay(e)
    BY DEF UnderWay
  <2>3. redrafted \subseteq redrafted' /\ (UnderWay(e) => e \in redrafted')  BY <1>2
  <2>4. \A d \in Drafts : LiveDraft(d)' = LiveDraft(d)  BY <1>1 DEF LiveDraft, IsPending
  <2> QED  BY <1>1, <1>3, <2>1, <2>2, <2>3, <2>4 DEF QueueInv, EmailInv, DrafterAt
<1> QED  BY <1>4, <1>5, <1>6, <1>7 DEF QueueInv

LEMMA CreateKeeps ==
  ASSUME QueueInv, NEW r \in Drafters, CreateDraft(r)
  PROVE  QueueInv'
<1>1. UNCHANGED <<held, exposed, redrafted>> /\ DrafterAt(r, "create")  BY DEF CreateDraft
<1>2. /\ drafter' \in [Drafters -> DrafterState]
      /\ draft' \in [Drafts -> DraftRow]
      /\ \A q \in Drafters \ {r} : drafter'[q] = drafter[q]
  BY CreateFacts DEF QueueInv
<1>3. PICK d \in Drafts :
        /\ draft[d].status = "none"
        /\ draft'[d].status = "drafted" /\ draft'[d].email = drafter[r].email
        /\ \A f \in Drafts \ {d} : draft'[f] = draft[f]
        /\ \/ DrafterAt(r, "idle")'
           \/ /\ DrafterAt(r, "code")' /\ drafter'[r].draft = d
              /\ drafter'[r].email = drafter[r].email
  BY CreateFacts DEF QueueInv
<1>4. QueueTypeOK'  BY <1>1, <1>2 DEF QueueInv, QueueTypeOK, DrafterState, DraftRow
<1>5. d \notin held  BY <1>3 DEF QueueInv, HandInv
<1>6. \A q \in Drafters : InHand(q) => drafter[q].draft # d  BY <1>3 DEF QueueInv, HandInv
<1>7. \A f \in Drafts : LiveDraft(f)' => LiveDraft(f) /\ f # d  BY <1>1, <1>3, <1>5 DEF LiveDraft, IsPending
<1>8. HandInv'
  <2>1. \A q \in Drafters : InHand(q)' =>
          /\ drafter'[q].draft \in Drafts
          /\ draft'[drafter'[q].draft].status = "drafted"
          /\ draft'[drafter'[q].draft].email = drafter'[q].email
    BY <1>2, <1>3, <1>6 DEF QueueInv, HandInv, InHand, DrafterAt
  <2>2. \A p, q \in Drafters : InHand(p)' /\ InHand(q)' /\ drafter'[p].draft = drafter'[q].draft => p = q
    BY <1>2, <1>3, <1>6 DEF QueueInv, HandInv, InHand, DrafterAt
  <2>3. \A f \in held' : draft'[f].status = "confirmed"
    BY <1>1, <1>3, <1>5 DEF QueueInv, HandInv, QueueTypeOK
  <2> QED  BY <2>1, <2>2, <2>3 DEF HandInv
<1>9. CodeInv'  BY <1>1, <1>2, <1>3, <1>7 DEF QueueInv, CodeInv, DrafterAt
<1>10. EmailInv'  BY <1>1, <1>2, <1>3, <1>7 DEF QueueInv, EmailInv, DrafterAt
<1> QED  BY <1>4, <1>8, <1>9, <1>10 DEF QueueInv

LEMMA PickKeeps ==
  ASSUME QueueInv, NEW r \in Drafters, NEW c \in Codes, PickCode(r, c)
  PROVE  QueueInv'
<1> DEFINE Open == (\E q \in Drafters : DrafterAt(q, "insert") /\ drafter[q].code = c)
                   \/ (\E d \in held : draft[d].code = c)
<1>1. UNCHANGED <<draft, held, redrafted>> /\ DrafterAt(r, "code") /\ PendingWith(c) = {}
      /\ exposed' = IF Open THEN exposed \cup {c} ELSE exposed
  BY DEF PickCode
<1>2. /\ drafter' \in [Drafters -> DrafterState]
      /\ DrafterAt(r, "insert")' /\ drafter'[r].code = c
      /\ drafter'[r].email = drafter[r].email /\ drafter'[r].draft = drafter[r].draft
      /\ \A q \in Drafters \ {r} : drafter'[q] = drafter[q]
  BY PickFacts DEF QueueInv
<1>3. QueueTypeOK'  BY <1>1, <1>2 DEF QueueInv, QueueTypeOK, DrafterState
<1>4. HandInv'  BY <1>1, <1>2 DEF QueueInv, HandInv, InHand, DrafterAt
<1>5. CodeInv'
  <2>1. \A d \in Drafts : LiveDraft(d) /\ draft[d].code = c => Open
    BY <1>1 DEF LiveDraft, PendingWith
  <2>2. \A q \in Drafters : DrafterAt(q, "insert") /\ drafter[q].code = c => Open
    OBVIOUS
  <2>3. exposed \subseteq exposed' /\ (Open => c \in exposed')  BY <1>1
  <2>4. \A d \in Drafts : LiveDraft(d)' = LiveDraft(d)  BY <1>1 DEF LiveDraft, IsPending
  <2> HIDE DEF Open
  <2> QED  BY <1>1, <1>2, <2>1, <2>2, <2>3, <2>4 DEF QueueInv, CodeInv, DrafterAt
<1>6. EmailInv'  BY <1>1, <1>2 DEF QueueInv, EmailInv, DrafterAt, LiveDraft, IsPending
<1> QED  BY <1>3, <1>4, <1>5, <1>6 DEF QueueInv

LEMMA InsertKeeps ==
  ASSUME QueueInv, NEW r \in Drafters, Insert(r)
  PROVE  QueueInv'
<1>1. UNCHANGED <<held, exposed, redrafted>> /\ DrafterAt(r, "insert")
      /\ drafter' = [drafter EXCEPT ![r] = Resting]
  BY DEF Insert
<1> DEFINE d == drafter[r].draft
<1>2. d \in Drafts /\ draft[d].status = "drafted" /\ draft[d].email = drafter[r].email
  BY <1>1 DEF QueueInv, HandInv, InHand, DrafterAt
<1>3. /\ drafter' \in [Drafters -> DrafterState]
      /\ DrafterAt(r, "idle")'
      /\ \A q \in Drafters \ {r} : drafter'[q] = drafter[q]
  BY <1>1, RestFacts DEF QueueInv
<1>4. /\ draft' \in [Drafts -> DraftRow]
      /\ draft'[d].status = "pending"
      /\ draft'[d].email = drafter[r].email /\ draft'[d].code = drafter[r].code
      /\ \A f \in Drafts \ {d} : draft'[f] = draft[f]
  BY <1>2, InsertFacts DEF QueueInv
<1>5. QueueTypeOK'  BY <1>1, <1>3, <1>4 DEF QueueInv, QueueTypeOK, DrafterState, DraftRow
<1>6. \A q \in Drafters \ {r} : InHand(q) => drafter[q].draft # d
  BY <1>1 DEF QueueInv, HandInv, InHand, DrafterAt
<1>7. d \notin held  BY <1>2 DEF QueueInv, HandInv
<1> HIDE DEF d
<1>8. HandInv'
  <2>1. \A f \in held' : draft'[f].status = "confirmed"
    BY <1>1, <1>4, <1>7 DEF QueueInv, HandInv, QueueTypeOK
  <2>2. \A q \in Drafters : InHand(q)' => q # r  BY <1>3 DEF InHand, DrafterAt
  <2> QED  BY <1>3, <1>4, <1>6, <2>1, <2>2 DEF QueueInv, HandInv, InHand
<1>9. \A f \in Drafts \ {d} : LiveDraft(f)' => LiveDraft(f)  BY <1>1, <1>4 DEF LiveDraft, IsPending
<1>10. \A q \in Drafters : ~DrafterAt(q, "idle")' => q # r  BY <1>3 DEF DrafterAt
<1>11. CodeInv'
  <2>1. \A f \in Drafts \ {d} : LiveDraft(f)' /\ draft'[f].code = drafter[r].code => drafter[r].code \in exposed
    BY <1>1, <1>4, <1>9 DEF QueueInv, CodeInv
  <2>2. \A q \in Drafters \ {r} : DrafterAt(q, "insert") /\ drafter[q].code = drafter[r].code
          => drafter[r].code \in exposed
    BY <1>1 DEF QueueInv, CodeInv
  <2>3. \A f, g \in Drafts : LiveDraft(f)' /\ LiveDraft(g)' /\ draft'[f].code = draft'[g].code
          => f = g \/ draft'[f].code \in exposed'
    BY <1>1, <1>4, <1>9, <2>1 DEF QueueInv, CodeInv
  <2>4. \A q \in Drafters, f \in Drafts :
          DrafterAt(q, "insert")' /\ LiveDraft(f)' /\ draft'[f].code = drafter'[q].code
            => drafter'[q].code \in exposed'
    BY <1>1, <1>3, <1>4, <1>9, <2>2 DEF QueueInv, CodeInv, DrafterAt
  <2>5. \A p, q \in Drafters :
          DrafterAt(p, "insert")' /\ DrafterAt(q, "insert")' /\ drafter'[p].code = drafter'[q].code
            => p = q \/ drafter'[p].code \in exposed'
    BY <1>1, <1>3 DEF QueueInv, CodeInv, DrafterAt
  <2> QED  BY <2>3, <2>4, <2>5 DEF CodeInv
<1>12. EmailInv'
  <2>1. ~DrafterAt(r, "idle")  BY <1>1 DEF DrafterAt
  <2>2. \A f \in Drafts \ {d} : LiveDraft(f)' /\ draft'[f].email = drafter[r].email => drafter[r].email \in redrafted
    BY <1>4, <1>9, <2>1 DEF QueueInv, EmailInv
  <2>3. \A q \in Drafters \ {r} : ~DrafterAt(q, "idle") /\ drafter[q].email = drafter[r].email
          => drafter[r].email \in redrafted
    BY <2>1 DEF QueueInv, EmailInv
  <2>4. \A f, g \in Drafts : LiveDraft(f)' /\ LiveDraft(g)' /\ draft'[f].email = draft'[g].email
          => f = g \/ draft'[f].email \in redrafted'
    BY <1>1, <1>4, <1>9, <2>2 DEF QueueInv, EmailInv
  <2>5. \A q \in Drafters, f \in Drafts :
          ~DrafterAt(q, "idle")' /\ LiveDraft(f)' /\ draft'[f].email = drafter'[q].email
            => drafter'[q].email \in redrafted'
    BY <1>1, <1>3, <1>4, <1>9, <2>3 DEF QueueInv, EmailInv, DrafterAt
  <2>6. \A p, q \in Drafters :
          ~DrafterAt(p, "idle")' /\ ~DrafterAt(q, "idle")' /\ drafter'[p].email = drafter'[q].email
            => p = q \/ drafter'[p].email \in redrafted'
    BY <1>1, <1>3 DEF QueueInv, EmailInv, DrafterAt
  <2> QED  BY <2>4, <2>5, <2>6 DEF EmailInv
<1> QED  BY <1>5, <1>8, <1>11, <1>12 DEF QueueInv

LEMMA QueueInvStep == QueueInv /\ [QueueStep]_queueVars => QueueInv'
<1> SUFFICES ASSUME QueueInv, [QueueStep]_queueVars PROVE QueueInv'  OBVIOUS
<1>1. CASE UNCHANGED queueVars
  BY <1>1 DEF queueVars, QueueInv, QueueTypeOK, HandInv, CodeInv, EmailInv, InHand, LiveDraft, IsPending, DrafterAt
<1>2. ASSUME NEW r \in Drafters, NEW e \in Emails, BeginDraft(r, e) PROVE QueueInv'  BY <1>2, BeginKeeps
<1>3. ASSUME NEW r \in Drafters, CreateDraft(r) PROVE QueueInv'  BY <1>3, CreateKeeps
<1>4. ASSUME NEW r \in Drafters, NEW c \in Codes, PickCode(r, c) PROVE QueueInv'  BY <1>4, PickKeeps
<1>5. ASSUME NEW r \in Drafters, Insert(r) PROVE QueueInv'  BY <1>5, InsertKeeps
<1>6. ASSUME NEW r \in Drafters, DraftFails(r) PROVE QueueInv'  BY <1>6, FailsKeeps
<1>7. ASSUME NEW c \in Codes, NEW command \in Commands, Answer(c, command) PROVE QueueInv'
  BY <1>7, AnswerKeeps
<1>8. ASSUME NEW d \in Drafts, Release(d) \/ Sent(d) PROVE QueueInv'  BY <1>8, ReleaseKeeps, SentKeeps
<1>9. ASSUME NEW S \in SUBSET Drafts, Expire(S) PROVE QueueInv'  BY <1>9, ExpireKeeps
<1> QED  BY <1>1, <1>2, <1>3, <1>4, <1>5, <1>6, <1>7, <1>8, <1>9 DEF QueueStep

(* Drafts, drafting runs and claims stay well formed, however many there   *)
(* are.                                                                    *)
THEOREM QueueTypeTheorem == QueueSpec => []QueueTypeOK
<1>1. QueueInv => QueueTypeOK  BY DEF QueueInv
<1> QED  BY <1>1, QueueInvInit, QueueInvStep, PTL DEF QueueSpec

(* However many runs draft at once, claim, give back and expire: a code    *)
(* that was not exposed when it was picked names one draft, so that the    *)
(* "send" typed with it sends that draft (savePendingAction).              *)
THEOREM CodeTheorem == QueueSpec => []CodeNamesOneDraft
<1>1. QueueInv => CodeNamesOneDraft
  BY DEF QueueInv, CodeInv, CodeNamesOneDraft, LiveDraft
<1> QED  BY <1>1, QueueInvInit, QueueInvStep, PTL DEF QueueSpec

(* However many runs draft at once, an email has one draft awaiting the    *)
(* user, unless it was taken up while another was under way (draftAndQueue).*)
THEOREM EmailTheorem == QueueSpec => []OneDraftPerEmail
<1>1. QueueInv => OneDraftPerEmail
  BY DEF QueueInv, EmailInv, OneDraftPerEmail, LiveDraft
<1> QED  BY <1>1, QueueInvInit, QueueInvStep, PTL DEF QueueSpec
=============================================================================
