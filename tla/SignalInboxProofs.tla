-------------------------- MODULE SignalInboxProofs --------------------------
(***************************************************************************)
(* Proofs about SignalInbox, for every set of users, messages and polls,   *)
(* every MaxAttempts and every fault.  A poll writes an attempt count it   *)
(* read before its handler ran and other polls may have written since, so  *)
(* NeverGivesUpEarly is not inductive: AttemptsInv adds what every poll    *)
(* holds of the attempts it read.  While polls have not overlapped,        *)
(* SerialInv says what the one in progress holds of the rows it loaded.    *)
(***************************************************************************)
EXTENDS SignalInbox, TLAPS

(* What a poll has read never claims more failures than there were, and    *)
(* leaves room for one attempt.                                            *)
ReadsTrue(p) ==
  \A m \in poll[p].todo :
    poll[p].seen[m] <= failures[m] /\ poll[p].seen[m] < MaxAttempts

(* A poll with a message in hand took it from its list; a failed one has   *)
(* been counted, and one about to give up has failed to the last.          *)
HandTrue(p) ==
  LET m == poll[p].msg IN
  /\ poll[p].pc \in {"ok", "failed", "giveUp"} => m \in poll[p].todo
  /\ poll[p].pc = "failed" => poll[p].seen[m] + 1 <= failures[m]
  /\ poll[p].pc = "giveUp" => failures[m] = MaxAttempts

(* A row that was never tried has no attempts.                             *)
UntriedRows ==
  \A m \in Messages : row[m].status \in {"absent", "received"} => row[m].attempts = 0

AttemptsInv ==
  /\ TypeOK
  /\ NeverGivesUpEarly
  /\ UntriedRows
  /\ \A p \in Polls : ReadsTrue(p) /\ HandTrue(p)

LEMMA InitAttempts == Init => AttemptsInv
  <1> SUFFICES ASSUME Init PROVE AttemptsInv
    OBVIOUS
  <1>1. /\ Idle \in PollState /\ Unseen \in [Messages -> 0..MaxAttempts]
        /\ Idle.pc = "idle" /\ Idle.todo = {}
    <2>1. Unseen \in [Messages -> 0..MaxAttempts]
      BY InboxAssumption DEF Unseen
    <2>2. QED
      BY <2>1 DEF Idle, PollState, Pc
  <1>2. TypeOK
    <2>1. 0 \in 0..MaxAttempts
      BY InboxAssumption
    <2>2. /\ row \in [Messages -> [status : RowStatus, attempts : 0..MaxAttempts]]
          /\ effect \in [Messages -> {"none", "unrecorded", "recorded"}]
      BY <2>1 DEF Init, RowStatus
    <2>3. /\ unsent \subseteq Messages /\ queue \subseteq Messages
          /\ waiting \subseteq Users /\ gaveUp \subseteq Messages /\ overlap \in BOOLEAN
      BY DEF Init
    <2>4. poll \in [Polls -> PollState] /\ failures \in [Messages -> 0..MaxAttempts]
      BY <1>1 DEF Init
    <2>5. QED
      BY <2>2, <2>3, <2>4 DEF TypeOK
  <1>3. NeverGivesUpEarly /\ UntriedRows
    BY InboxAssumption DEF Init, NeverGivesUpEarly, UntriedRows, Unseen
  <1>4. QED
    BY <1>1, <1>2, <1>3 DEF Init, AttemptsInv, ReadsTrue, HandTrue

(* A step that changes at most one poll keeps AttemptsInv, if what it      *)
(* leaves of that poll is well formed and true of rows and failures that   *)
(* are, too, and no failure is forgotten.                                  *)
LEMMA OnePollMoves ==
  ASSUME AttemptsInv, NEW p \in Polls, NEW r \in PollState,
         poll' = [poll EXCEPT ![p] = r],
         unsent' \subseteq Messages, queue' \subseteq Messages,
         waiting' \subseteq Users, gaveUp' \subseteq Messages,
         row' \in [Messages -> [status : RowStatus, attempts : 0..MaxAttempts]],
         effect' \in [Messages -> {"none", "unrecorded", "recorded"}],
         failures' \in [Messages -> 0..MaxAttempts], overlap' \in BOOLEAN,
         \A m \in Messages : failures[m] <= failures'[m],
         NeverGivesUpEarly', UntriedRows', ReadsTrue(p)', HandTrue(p)'
  PROVE  AttemptsInv'
  <1>1. poll' \in [Polls -> PollState]
    BY DEF AttemptsInv, TypeOK
  <1>2. TypeOK'
    BY <1>1 DEF TypeOK
  <1>3. ASSUME NEW q \in Polls, q # p
        PROVE  (ReadsTrue(q) /\ HandTrue(q))'
    <2>1. poll'[q] = poll[q] /\ poll[q] \in PollState
      BY <1>3 DEF AttemptsInv, TypeOK
    <2>2. /\ poll[q].seen \in [Messages -> 0..MaxAttempts]
          /\ poll[q].todo \subseteq Messages
      BY <2>1 DEF PollState
    <2>3. /\ failures \in [Messages -> 0..MaxAttempts]
          /\ ReadsTrue(q) /\ HandTrue(q)
      BY DEF AttemptsInv, TypeOK
    <2>4. ReadsTrue(q)'
      BY <2>1, <2>2, <2>3, InboxAssumption DEF ReadsTrue
    <2> DEFINE m == poll[q].msg
    <2>5. HandTrue(q)'
      <3>1. poll[q].pc = "failed" => poll[q].seen[m] + 1 <= failures'[m]
        <4>1. SUFFICES ASSUME poll[q].pc = "failed"
                       PROVE  poll[q].seen[m] + 1 <= failures'[m]
          OBVIOUS
        <4>2. m \in Messages /\ poll[q].seen[m] + 1 <= failures[m]
          BY <2>2, <2>3, <4>1 DEF HandTrue
        <4>3. /\ failures[m] <= failures'[m] /\ poll[q].seen[m] \in Int
              /\ failures[m] \in Int /\ failures'[m] \in Int
          BY <2>2, <2>3, <4>2, InboxAssumption
        <4>4. QED
          BY <4>2, <4>3
      <3>2. poll[q].pc = "giveUp" => failures'[m] = MaxAttempts
        BY <2>2, <2>3, InboxAssumption DEF HandTrue
      <3>3. poll[q].pc \in {"ok", "failed", "giveUp"} => m \in poll[q].todo
        BY <2>3 DEF HandTrue
      <3>4. QED
        BY <2>1, <3>1, <3>2, <3>3 DEF HandTrue
    <2>6. QED
      BY <2>4, <2>5
  <1>4. QED
    BY <1>2, <1>3 DEF AttemptsInv

(* The world outside writes neither rows nor polls.                        *)
LEMMA OutsideKeepsAttempts ==
  ASSUME AttemptsInv,
         UNCHANGED <<row, poll, outcomes, overlap>>,
         unsent' \subseteq Messages, queue' \subseteq Messages, waiting' \subseteq Users
  PROVE  AttemptsInv'
  <1>1. TypeOK'
    BY DEF AttemptsInv, TypeOK, outcomes
  <1>2. NeverGivesUpEarly' /\ UntriedRows'
    BY DEF AttemptsInv, outcomes, NeverGivesUpEarly, UntriedRows
  <1>3. \A q \in Polls : (ReadsTrue(q) /\ HandTrue(q))'
    BY DEF AttemptsInv, outcomes, ReadsTrue, HandTrue
  <1>4. QED
    BY <1>1, <1>2, <1>3 DEF AttemptsInv

LEMMA EndsKeepAttempts ==
  ASSUME AttemptsInv, NEW p \in Polls, Start(p) \/ Finish(p) \/ Abort(p)
  PROVE  AttemptsInv'
  <1> DEFINE begun == [Idle EXCEPT !.pc = "drain", !.users = waiting]
  <1>1. Unseen \in [Messages -> 0..MaxAttempts]
    BY InboxAssumption DEF Unseen
  <1>2. Idle \in PollState /\ Idle.todo = {} /\ Idle.pc = "idle"
    BY <1>1 DEF Idle, PollState, Pc
  <1>3. begun \in PollState /\ begun.todo = {} /\ begun.pc = "drain"
    BY <1>2 DEF AttemptsInv, TypeOK, PollState, Pc
  <1>4. poll' = [poll EXCEPT ![p] = Idle] \/ poll' = [poll EXCEPT ![p] = begun]
    BY DEF Start, Finish, Abort
  <1> HIDE DEF begun
  <1>5. PICK r : r \in PollState /\ r.todo = {} /\ r.pc \in {"idle", "drain"}
                 /\ poll' = [poll EXCEPT ![p] = r]
    BY <1>2, <1>3, <1>4
  <1>6. poll'[p] = r
    BY <1>5 DEF AttemptsInv, TypeOK
  <1>7. UNCHANGED <<unsent, queue, waiting, row, effect, failures, gaveUp>>
    BY DEF Start, Finish, Abort, outcomes
  <1>8. overlap' \in BOOLEAN
    BY DEF Start, Finish, Abort, AttemptsInv, TypeOK
  <1>9. (ReadsTrue(p) /\ HandTrue(p))'
    BY <1>5, <1>6 DEF ReadsTrue, HandTrue
  <1>10. NeverGivesUpEarly' /\ UntriedRows'
    BY <1>7 DEF AttemptsInv, NeverGivesUpEarly, UntriedRows
  <1>11. \A m \in Messages : failures[m] <= failures'[m]
    BY <1>7, InboxAssumption DEF AttemptsInv, TypeOK
  <1>12. QED
    BY <1>5, <1>7, <1>8, <1>9, <1>10, <1>11, OnePollMoves DEF AttemptsInv, TypeOK

LEMMA DrainKeepsAttempts ==
  ASSUME AttemptsInv, NEW p \in Polls, Drain(p)
  PROVE  AttemptsInv'
  <1> DEFINE read == [poll[p] EXCEPT !.pc = "persist", !.batch = queue]
             unread == [poll[p] EXCEPT !.pc = "persist"]
  <1>1. poll \in [Polls -> PollState] /\ poll[p] \in PollState /\ queue \subseteq Messages
    BY DEF AttemptsInv, TypeOK
  <1>2. /\ read \in PollState /\ read.todo = poll[p].todo /\ read.pc = "persist"
        /\ read.seen = poll[p].seen
    BY <1>1 DEF PollState, Pc
  <1>3. /\ unread \in PollState /\ unread.todo = poll[p].todo /\ unread.pc = "persist"
        /\ unread.seen = poll[p].seen
    BY <1>1 DEF PollState, Pc
  <1>4. poll' = [poll EXCEPT ![p] = read] \/ poll' = [poll EXCEPT ![p] = unread]
    BY <1>1 DEF Drain, Goto, PollState
  <1> HIDE DEF read, unread
  <1>5. PICK r : /\ r \in PollState /\ r.todo = poll[p].todo /\ r.pc = "persist"
                 /\ r.seen = poll[p].seen /\ poll' = [poll EXCEPT ![p] = r]
    BY <1>2, <1>3, <1>4
  <1>6. poll'[p] = r
    BY <1>1, <1>5
  <1>7. /\ UNCHANGED <<unsent, waiting, row, effect, failures, gaveUp, overlap>>
        /\ queue' \in {queue, {}}
    BY DEF Drain, Goto, outcomes
  <1>8. (ReadsTrue(p) /\ HandTrue(p))'
    BY <1>5, <1>6, <1>7 DEF AttemptsInv, ReadsTrue, HandTrue
  <1>9. NeverGivesUpEarly' /\ UntriedRows'
    BY <1>7 DEF AttemptsInv, NeverGivesUpEarly, UntriedRows
  <1>10. \A m \in Messages : failures[m] <= failures'[m]
    BY <1>7, InboxAssumption DEF AttemptsInv, TypeOK
  <1>11. queue' \subseteq Messages
    BY <1>7 DEF AttemptsInv, TypeOK
  <1>12. QED
    BY <1>5, <1>7, <1>8, <1>9, <1>10, <1>11, OnePollMoves DEF AttemptsInv, TypeOK

LEMMA PersistKeepsAttempts ==
  ASSUME AttemptsInv, NEW p \in Polls, Persist(p)
  PROVE  AttemptsInv'
  <1> DEFINE mine == {m \in poll[p].batch : UserOf[m] \in poll[p].users}
             r == [poll[p] EXCEPT !.pc = "load", !.batch = {}]
  <1>1. poll \in [Polls -> PollState] /\ poll[p] \in PollState
    BY DEF AttemptsInv, TypeOK
  <1>2. /\ r \in PollState /\ r.todo = poll[p].todo /\ r.pc = "load"
        /\ r.seen = poll[p].seen
    BY <1>1 DEF PollState, Pc
  <1>3. poll' = [poll EXCEPT ![p] = r]
    BY <1>1 DEF Persist, PollState
  <1>4. /\ UNCHANGED <<unsent, queue, waiting, effect, failures, gaveUp, overlap>>
        /\ row' = Stored(mine)
    BY DEF Persist, outcomes
  <1> HIDE DEF mine, r
  <1>5. \A m \in Messages :
          row'[m] = row[m] \/ row'[m] = [status |-> "received", attempts |-> 0]
    BY <1>4 DEF Stored
  <1>6. row' \in [Messages -> [status : RowStatus, attempts : 0..MaxAttempts]]
    BY <1>4, InboxAssumption DEF AttemptsInv, TypeOK, Stored, RowStatus
  <1>8. poll'[p] = r
    BY <1>1, <1>3
  <1>9. (ReadsTrue(p) /\ HandTrue(p))'
    BY <1>2, <1>4, <1>8 DEF AttemptsInv, ReadsTrue, HandTrue
  <1>10. \A m \in Messages :
           /\ failures[m] \in 0..MaxAttempts
           /\ failures[m] <= failures'[m]
    BY <1>4, InboxAssumption DEF AttemptsInv, TypeOK
  <1>11. NeverGivesUpEarly' /\ UntriedRows'
    BY <1>4, <1>5, <1>10, InboxAssumption DEF AttemptsInv, NeverGivesUpEarly, UntriedRows
  <1>12. QED
    BY <1>2, <1>3, <1>4, <1>6, <1>9, <1>10, <1>11, OnePollMoves DEF AttemptsInv, TypeOK

LEMMA LoadKeepsAttempts ==
  ASSUME AttemptsInv, NEW p \in Polls, Load(p)
  PROVE  AttemptsInv'
  <1> DEFINE todo == {m \in Messages : Processable(m) /\ UserOf[m] \in poll[p].users}
             seen == [m \in Messages |-> IF m \in todo THEN row[m].attempts ELSE 0]
             r == [poll[p] EXCEPT !.pc = "next", !.todo = todo, !.seen = seen]
  <1>1. poll \in [Polls -> PollState] /\ poll[p] \in PollState
    BY DEF AttemptsInv, TypeOK
  <1>2. seen \in [Messages -> 0..MaxAttempts] /\ todo \subseteq Messages
    BY InboxAssumption DEF AttemptsInv, TypeOK
  <1>3. \A m \in todo : seen[m] <= failures[m] /\ seen[m] < MaxAttempts
    BY InboxAssumption DEF AttemptsInv, TypeOK, NeverGivesUpEarly, UntriedRows, Processable
  <1>4. /\ poll' = [poll EXCEPT ![p].pc = "next", ![p].todo = todo, ![p].seen = seen]
        /\ UNCHANGED <<unsent, queue, waiting, row, effect, failures, gaveUp, overlap>>
    BY DEF Load, outcomes
  <1> HIDE DEF todo, seen
  <1>5. r \in PollState /\ r.todo = todo /\ r.pc = "next" /\ r.seen = seen
    BY <1>1, <1>2 DEF PollState, Pc
  <1>6. poll' = [poll EXCEPT ![p] = r]
    BY <1>1, <1>4 DEF PollState
  <1> HIDE DEF r
  <1>7. poll'[p] = r
    BY <1>1, <1>6
  <1>8. (ReadsTrue(p) /\ HandTrue(p))'
    BY <1>3, <1>4, <1>5, <1>7 DEF ReadsTrue, HandTrue
  <1>9. NeverGivesUpEarly' /\ UntriedRows'
    BY <1>4 DEF AttemptsInv, NeverGivesUpEarly, UntriedRows
  <1>10. \A m \in Messages : failures[m] <= failures'[m]
    BY <1>4, InboxAssumption DEF AttemptsInv, TypeOK
  <1>11. QED
    BY <1>4, <1>5, <1>6, <1>8, <1>9, <1>10, OnePollMoves DEF AttemptsInv, TypeOK

(* A failed attempt is counted, be it the handler's or its record's.       *)
LEMMA FailsKeepsAttempts ==
  ASSUME AttemptsInv, NEW p \in Polls, NEW m \in poll[p].todo, Fails(p, m),
         row' \in [Messages -> [status : RowStatus, attempts : 0..MaxAttempts]],
         \A n \in Messages : /\ row'[n].attempts = row[n].attempts
                             /\ row'[n].status \in {row[n].status, "processed"}
  PROVE  AttemptsInv'
  <1>1. /\ poll \in [Polls -> PollState] /\ poll[p] \in PollState
        /\ failures \in [Messages -> 0..MaxAttempts]
    BY DEF AttemptsInv, TypeOK
  <1>2. /\ m \in Messages /\ poll[p].todo \subseteq Messages
        /\ poll[p].seen \in [Messages -> 0..MaxAttempts]
        /\ \A n \in poll[p].todo :
             poll[p].seen[n] <= failures[n] /\ poll[p].seen[n] < MaxAttempts
    BY <1>1 DEF AttemptsInv, PollState, ReadsTrue
  <1>3. /\ poll' = [poll EXCEPT ![p].pc = "failed", ![p].msg = m]
        /\ failures' = [failures EXCEPT ![m] = Capped(@)]
        /\ UNCHANGED <<unsent, queue, waiting, effect, gaveUp, overlap>>
    BY DEF Fails
  <1>4. /\ Capped(failures[m]) \in 0..MaxAttempts
        /\ failures[m] <= Capped(failures[m])
        /\ failures[m] = MaxAttempts => Capped(failures[m]) = MaxAttempts
        /\ poll[p].seen[m] + 1 <= Capped(failures[m])
    BY <1>1, <1>2, InboxAssumption DEF Capped
  <1>5. /\ failures' \in [Messages -> 0..MaxAttempts]
        /\ \A n \in Messages : /\ failures[n] <= failures'[n]
                               /\ failures[n] = MaxAttempts => failures'[n] = MaxAttempts
        /\ poll[p].seen[m] + 1 <= failures'[m]
    <2> HIDE DEF Capped
    <2>1. \A n \in Messages : failures[n] <= failures[n]
      BY <1>1, InboxAssumption
    <2>2. QED
      BY <1>1, <1>2, <1>3, <1>4, <2>1
  <1> DEFINE r == [poll[p] EXCEPT !.pc = "failed", !.msg = m]
  <1>6. /\ r \in PollState /\ r.pc = "failed" /\ r.msg = m
        /\ r.todo = poll[p].todo /\ r.seen = poll[p].seen
    BY <1>1, <1>2 DEF PollState, Pc
  <1>7. poll' = [poll EXCEPT ![p] = r]
    BY <1>1, <1>3 DEF PollState
  <1> HIDE DEF r
  <1>8. poll'[p] = r
    BY <1>1, <1>7
  <1>9. ReadsTrue(p)'
    BY <1>1, <1>2, <1>5, <1>6, <1>8, InboxAssumption DEF ReadsTrue
  <1>10. HandTrue(p)'
    BY <1>5, <1>6, <1>8 DEF HandTrue
  <1>11. NeverGivesUpEarly' /\ UntriedRows'
    <2>1. \A n \in Messages : row[n].attempts <= failures'[n]
      BY <1>1, <1>5, InboxAssumption DEF AttemptsInv, TypeOK, NeverGivesUpEarly
    <2>2. QED
      BY <1>3, <1>5, <2>1 DEF AttemptsInv, NeverGivesUpEarly, UntriedRows
  <1>12. QED
    BY <1>3, <1>5, <1>6, <1>7, <1>9, <1>10, <1>11, OnePollMoves DEF AttemptsInv, TypeOK

(* What a poll takes up is in its list.                                    *)
LEMMA ProcessKeepsAttempts ==
  ASSUME AttemptsInv, NEW p \in Polls, Process(p)
  PROVE  AttemptsInv'
  <1>1. poll \in [Polls -> PollState] /\ poll[p] \in PollState /\ UNCHANGED row
    BY DEF AttemptsInv, TypeOK, Process
  <1>2. PICK m \in poll[p].todo :
          \/ /\ poll' = [poll EXCEPT ![p].pc = "ok", ![p].msg = m]
             /\ effect' = [effect EXCEPT ![m] = "unrecorded"]
             /\ UNCHANGED <<unsent, queue, waiting, failures, gaveUp, overlap>>
          \/ Fails(p, m)
    BY Zenon DEF Process
  <1>3. m \in Messages
    BY <1>1, <1>2 DEF PollState
  <1>4. CASE Fails(p, m)
    <2>1. row' \in [Messages -> [status : RowStatus, attempts : 0..MaxAttempts]]
      BY <1>1 DEF AttemptsInv, TypeOK
    <2>2. QED
      BY <1>1, <1>4, <2>1, FailsKeepsAttempts
  <1>5. CASE /\ poll' = [poll EXCEPT ![p].pc = "ok", ![p].msg = m]
             /\ effect' = [effect EXCEPT ![m] = "unrecorded"]
             /\ UNCHANGED <<unsent, queue, waiting, failures, gaveUp, overlap>>
    <2> DEFINE r == [poll[p] EXCEPT !.pc = "ok", !.msg = m]
    <2>1. /\ r \in PollState /\ r.pc = "ok" /\ r.msg = m
          /\ r.todo = poll[p].todo /\ r.seen = poll[p].seen
      BY <1>1, <1>3 DEF PollState, Pc
    <2>2. poll' = [poll EXCEPT ![p] = r]
      BY <1>1, <1>5 DEF PollState
    <2> HIDE DEF r
    <2>3. poll'[p] = r
      BY <1>1, <2>2
    <2>4. ReadsTrue(p)' /\ HandTrue(p)'
      BY <1>5, <2>1, <2>3 DEF AttemptsInv, ReadsTrue, HandTrue
    <2>5. NeverGivesUpEarly' /\ UntriedRows'
      BY <1>1, <1>5 DEF AttemptsInv, NeverGivesUpEarly, UntriedRows
    <2>6. \A n \in Messages : failures[n] <= failures'[n]
      BY <1>5, InboxAssumption DEF AttemptsInv, TypeOK
    <2>7. effect' \in [Messages -> {"none", "unrecorded", "recorded"}]
      BY <1>3, <1>5 DEF AttemptsInv, TypeOK
    <2>8. QED
      BY <1>1, <1>5, <2>1, <2>2, <2>4, <2>5, <2>6, <2>7, OnePollMoves
      DEF AttemptsInv, TypeOK
  <1>6. QED
    BY <1>2, <1>4, <1>5

(* GoOn strikes the message in hand off the list.                          *)
LEMMA GoOnStrikesOff ==
  ASSUME AttemptsInv, NEW p \in Polls, GoOn(p), UNCHANGED failures
  PROVE  /\ \E r \in PollState : poll' = [poll EXCEPT ![p] = r]
         /\ ReadsTrue(p)' /\ HandTrue(p)'
  <1> DEFINE m == poll[p].msg
             r == [poll[p] EXCEPT !.pc = "next", !.msg = NoMessage,
                     !.todo = @ \ {m}, !.seen[m] = 0]
  <1>1. poll \in [Polls -> PollState] /\ poll[p] \in PollState
    BY DEF AttemptsInv, TypeOK
  <1>2. /\ poll[p].todo \subseteq Messages
        /\ poll[p].seen \in [Messages -> 0..MaxAttempts]
        /\ \A n \in poll[p].todo :
             poll[p].seen[n] <= failures[n] /\ poll[p].seen[n] < MaxAttempts
    BY <1>1 DEF AttemptsInv, PollState, ReadsTrue
  <1> DEFINE struck == [poll[p].seen EXCEPT ![m] = 0]
  <1>0. 0 \in 0..MaxAttempts
    BY InboxAssumption
  <1>3. struck \in [Messages -> 0..MaxAttempts]
    BY <1>0, <1>2
  <1>4. /\ r \in PollState /\ r.pc = "next" /\ r.todo = poll[p].todo \ {m}
        /\ r.seen = [poll[p].seen EXCEPT ![m] = 0]
    BY <1>1, <1>3 DEF PollState, Pc
  <1>5. poll' = [poll EXCEPT ![p] = r]
    BY <1>1 DEF GoOn, PollState
  <1> HIDE DEF r
  <1>6. poll'[p] = r
    BY <1>1, <1>5
  <1>7. ReadsTrue(p)'
    BY <1>2, <1>4, <1>6 DEF ReadsTrue
  <1>8. QED
    BY <1>4, <1>5, <1>6, <1>7 DEF HandTrue

LEMMA MarkProcessedKeepsAttempts ==
  ASSUME AttemptsInv, NEW p \in Polls, MarkProcessed(p)
  PROVE  AttemptsInv'
  <1> DEFINE m == poll[p].msg
             processed == [row EXCEPT ![m].status = "processed"]
  <1>1. \/ /\ row' = processed /\ GoOn(p)
           /\ effect' = [effect EXCEPT ![m] = "recorded"]
           /\ UNCHANGED <<unsent, queue, waiting, failures, gaveUp, overlap>>
        \/ row' \in {row, processed} /\ Fails(p, m)
    BY Zenon DEF MarkProcessed
  <1>2. m \in poll[p].todo /\ m \in Messages
    BY DEF AttemptsInv, TypeOK, PollState, HandTrue, At, MarkProcessed
  <1>3. \A n \in Messages :
          /\ row'[n].attempts = row[n].attempts
          /\ row'[n].status \in {row[n].status, "processed"}
    BY <1>1, <1>2 DEF AttemptsInv, TypeOK
  <1>4. row' \in [Messages -> [status : RowStatus, attempts : 0..MaxAttempts]]
    BY <1>1, <1>2 DEF AttemptsInv, TypeOK, RowStatus
  <1>5. CASE Fails(p, m)
    BY <1>2, <1>3, <1>4, <1>5, FailsKeepsAttempts
  <1>6. CASE /\ row' = processed /\ GoOn(p)
             /\ effect' = [effect EXCEPT ![m] = "recorded"]
             /\ UNCHANGED <<unsent, queue, waiting, failures, gaveUp, overlap>>
    <2>1. NeverGivesUpEarly' /\ UntriedRows'
      BY <1>3, <1>6 DEF AttemptsInv, NeverGivesUpEarly, UntriedRows
    <2>2. \A n \in Messages : failures[n] <= failures'[n]
      BY <1>6, InboxAssumption DEF AttemptsInv, TypeOK
    <2>3. PICK r \in PollState : poll' = [poll EXCEPT ![p] = r]
      BY <1>6, GoOnStrikesOff
    <2>4. ReadsTrue(p)' /\ HandTrue(p)'
      BY <1>6, GoOnStrikesOff
    <2>5. effect' \in [Messages -> {"none", "unrecorded", "recorded"}]
      BY <1>2, <1>6 DEF AttemptsInv, TypeOK
    <2>6. QED
      BY <1>4, <1>6, <2>1, <2>2, <2>3, <2>4, <2>5, OnePollMoves DEF AttemptsInv, TypeOK
  <1>7. QED
    BY <1>1, <1>5, <1>6

(* The count written is one more than the poll read: never more than the   *)
(* failures, the last of which this poll has just counted.                 *)
LEMMA MarkFailedKeepsAttempts ==
  ASSUME AttemptsInv, NEW p \in Polls, MarkFailed(p)
  PROVE  AttemptsInv'
  <1> DEFINE m == poll[p].msg
             attempts == poll[p].seen[m] + 1
             status == IF Exhausted(attempts) THEN "dead" ELSE "failed"
  <1>1. /\ poll[p].pc = "failed"
        /\ row' = [row EXCEPT ![m] = [status |-> status, attempts |-> attempts]]
        /\ IF Exhausted(attempts) THEN Goto(p, "giveUp") ELSE GoOn(p)
        /\ UNCHANGED <<unsent, queue, waiting, effect, failures, gaveUp, overlap>>
    BY DEF MarkFailed, At, outcomes
  <1>2. poll \in [Polls -> PollState] /\ poll[p] \in PollState
    BY DEF AttemptsInv, TypeOK
  <1>3. /\ poll[p].seen \in [Messages -> 0..MaxAttempts]
        /\ poll[p].todo \subseteq Messages
        /\ failures \in [Messages -> 0..MaxAttempts]
    BY <1>2 DEF AttemptsInv, TypeOK, PollState
  <1>4. /\ m \in poll[p].todo /\ m \in Messages
        /\ attempts <= failures[m] /\ poll[p].seen[m] < MaxAttempts
    BY <1>1, <1>3 DEF AttemptsInv, HandTrue, ReadsTrue
  <1>5. /\ attempts \in 0..MaxAttempts /\ attempts # 0
        /\ Exhausted(attempts) => failures[m] = MaxAttempts
    BY <1>3, <1>4, InboxAssumption DEF Exhausted
  <1>6. status \in {"dead", "failed"} /\ (status = "dead" => Exhausted(attempts))
    OBVIOUS
  <1> HIDE DEF status, attempts, m
  <1>7. row' \in [Messages -> [status : RowStatus, attempts : 0..MaxAttempts]]
    BY <1>1, <1>4, <1>5, <1>6 DEF AttemptsInv, TypeOK, RowStatus
  <1>8. /\ row'[m].status = status /\ row'[m].attempts = attempts
        /\ \A n \in Messages : n # m => row'[n] = row[n]
    BY <1>1, <1>4 DEF AttemptsInv, TypeOK
  <1>9. UntriedRows'
    BY <1>6, <1>8 DEF AttemptsInv, UntriedRows
  <1>10. NeverGivesUpEarly'
    <2>1. SUFFICES ASSUME NEW n \in Messages
                   PROVE  /\ row'[n].attempts <= failures[n]
                          /\ row'[n].status = "dead" \/ n \in gaveUp
                                => failures[n] = MaxAttempts
      BY <1>1 DEF NeverGivesUpEarly
    <2>2. CASE n = m
      BY <1>4, <1>5, <1>6, <1>8, <2>2 DEF AttemptsInv, NeverGivesUpEarly, attempts
    <2>3. CASE n # m
      BY <1>8, <2>3 DEF AttemptsInv, NeverGivesUpEarly
    <2>4. QED
      BY <2>2, <2>3
  <1>11. \A n \in Messages : failures[n] <= failures'[n]
    BY <1>1, <1>3, InboxAssumption
  <1>12. /\ \E r \in PollState : poll' = [poll EXCEPT ![p] = r]
         /\ ReadsTrue(p)' /\ HandTrue(p)'
    <2>1. CASE ~Exhausted(attempts)
      BY <1>1, <2>1, GoOnStrikesOff
    <2>2. CASE Exhausted(attempts)
      <3> DEFINE r == [poll[p] EXCEPT !.pc = "giveUp"]
      <3>1. /\ r \in PollState /\ r.pc = "giveUp" /\ r.msg = m
            /\ r.todo = poll[p].todo /\ r.seen = poll[p].seen
        BY <1>2 DEF PollState, Pc, m
      <3>2. poll' = [poll EXCEPT ![p] = r]
        BY <1>1, <1>2, <2>2 DEF Goto, PollState
      <3> HIDE DEF r
      <3>3. poll'[p] = r
        BY <1>2, <3>2
      <3>4. ReadsTrue(p)'
        BY <1>1, <3>1, <3>3 DEF AttemptsInv, ReadsTrue
      <3>5. HandTrue(p)'
        BY <1>1, <1>4, <1>5, <2>2, <3>1, <3>3 DEF HandTrue
      <3>6. QED
        BY <3>1, <3>2, <3>4, <3>5
    <2>3. QED
      BY <2>1, <2>2
  <1>13. QED
    BY <1>1, <1>7, <1>9, <1>10, <1>11, <1>12, OnePollMoves DEF AttemptsInv, TypeOK

LEMMA NotifyGaveUpKeepsAttempts ==
  ASSUME AttemptsInv, NEW p \in Polls, NotifyGaveUp(p)
  PROVE  AttemptsInv'
  <1> DEFINE m == poll[p].msg
  <1>1. /\ poll[p].pc = "giveUp" /\ GoOn(p) /\ gaveUp' = gaveUp \cup {m}
        /\ UNCHANGED <<unsent, queue, waiting, row, effect, failures, overlap>>
    BY DEF NotifyGaveUp, At
  <1>2. m \in Messages /\ failures[m] = MaxAttempts
    BY <1>1 DEF AttemptsInv, TypeOK, PollState, HandTrue
  <1> HIDE DEF m
  <1>3. gaveUp' \subseteq Messages
    BY <1>1, <1>2 DEF AttemptsInv, TypeOK
  <1>5. NeverGivesUpEarly' /\ UntriedRows'
    BY <1>1, <1>2 DEF AttemptsInv, NeverGivesUpEarly, UntriedRows
  <1>6. \A n \in Messages : failures[n] <= failures'[n]
    BY <1>1, InboxAssumption DEF AttemptsInv, TypeOK
  <1>7. PICK r \in PollState : poll' = [poll EXCEPT ![p] = r]
    BY <1>1, GoOnStrikesOff
  <1>8. ReadsTrue(p)' /\ HandTrue(p)'
    BY <1>1, GoOnStrikesOff
  <1>9. QED
    BY <1>1, <1>3, <1>5, <1>6, <1>7, <1>8, OnePollMoves DEF AttemptsInv, TypeOK

LEMMA StepKeepsAttempts ==
  ASSUME AttemptsInv, [Next]_vars
  PROVE  AttemptsInv'
  <1>1. ASSUME NEW m \in Messages, Arrive(m) \/ Redeliver(m)
        PROVE  AttemptsInv'
    BY <1>1, OutsideKeepsAttempts DEF Arrive, Redeliver, AttemptsInv, TypeOK
  <1>2. ASSUME NEW u \in Users, DraftQueued(u) \/ DraftsSettled(u)
        PROVE  AttemptsInv'
    BY <1>2, OutsideKeepsAttempts DEF DraftQueued, DraftsSettled, AttemptsInv, TypeOK
  <1>3. ASSUME NEW p \in Polls, Step(p)
        PROVE  AttemptsInv'
    BY <1>3, DrainKeepsAttempts, PersistKeepsAttempts, LoadKeepsAttempts,
       ProcessKeepsAttempts, MarkProcessedKeepsAttempts, MarkFailedKeepsAttempts,
       NotifyGaveUpKeepsAttempts, EndsKeepAttempts DEF Step
  <1>4. CASE UNCHANGED vars
    BY <1>4, OutsideKeepsAttempts DEF vars, outcomes, AttemptsInv, TypeOK
  <1>5. QED
    BY <1>1, <1>2, <1>3, <1>4, EndsKeepAttempts DEF Next

(* Attempt counts, rows and polls stay well formed: no poll counts an      *)
(* attempt past MaxAttempts, however many polls overlap.                   *)
THEOREM InboxTypeCorrect == Spec => []TypeOK
  <1>1. AttemptsInv /\ [Next]_vars => AttemptsInv'
    BY StepKeepsAttempts
  <1>2. AttemptsInv => TypeOK
    BY DEF AttemptsInv
  <1>3. QED
    BY InitAttempts, <1>1, <1>2, PTL DEF Spec

(* Whatever polls overlap, fail or are killed, no reply is given up before *)
(* MaxAttempts attempts on it failed, in handleSignalReply or in           *)
(* recording that it was done (markInboundFailed).                         *)
THEOREM GivesUpOnlyWhenExhausted == Spec => []NeverGivesUpEarly
  <1>1. AttemptsInv /\ [Next]_vars => AttemptsInv'
    BY StepKeepsAttempts
  <1>2. AttemptsInv => NeverGivesUpEarly
    BY DEF AttemptsInv
  <1>3. QED
    BY InitAttempts, <1>1, <1>2, PTL DEF Spec

-----------------------------------------------------------------------------
(* While polls have not overlapped.                                        *)

Working == {"next", "ok", "failed", "giveUp"}

(* What was settled or failed was tried, and so was what a poll marks.     *)
RowsTried ==
  \A m \in Messages : /\ row[m].status = "processed" => effect[m] # "none"
                      /\ row[m].status \in {"failed", "dead"} => failures[m] # 0
PollTried(p) ==
  /\ poll[p].pc = "ok" => effect[poll[p].msg] # "none"
  /\ poll[p].pc \notin Working => poll[p].todo = {}

(* The poll in progress has on its list every reply of its users that was  *)
(* never tried, and nothing that is over.                                  *)
ListTrue(p) ==
  /\ poll[p].pc \in Working =>
       \A n \in Messages :
         row[n].status = "received" /\ UserOf[n] \in poll[p].users => n \in poll[p].todo
  /\ \A m \in poll[p].todo : /\ UserOf[m] \in poll[p].users
                             /\ effect[m] # "recorded" /\ m \notin gaveUp
  /\ poll[p].pc = "giveUp" => row[poll[p].msg].status = "dead"

(* What is over is not processable.                                        *)
RowsOver ==
  \A m \in Messages : /\ effect[m] = "recorded" => row[m].status = "processed"
                      /\ m \in gaveUp => row[m].status = "dead"

Alone(p) == \A q \in Polls : q # p => poll[q].pc = "idle"

SerialInv ==
  /\ RowsTried
  /\ \A p \in Polls : PollTried(p)
  /\ ~overlap => RowsOver /\ \A p \in Polls : ListTrue(p) /\ (Alone(p) \/ poll[p].pc = "idle")

(* EndsOnce and FirstTriesInOrder, of one step.                            *)
EndsOnceStep ==
  \A m \in Messages :
    /\ Tries(m) \/ Reports(m) => effect[m] # "recorded" \/ overlap
    /\ Reports(m) => m \notin gaveUp \/ overlap
InOrder ==
  \A m, n \in Messages :
    Tries(m) /\ ~Tried(m) /\ Older(n, m) /\ row[n].status # "absent" => Tried(n) \/ overlap

(* The types one poll's step starts from.                                  *)
LEMMA PollTypes ==
  ASSUME AttemptsInv, NEW p \in Polls
  PROVE  /\ poll \in [Polls -> PollState] /\ poll[p] \in PollState
         /\ poll[p].todo \subseteq Messages /\ poll[p].batch \subseteq Messages
         /\ row \in [Messages -> [status : RowStatus, attempts : 0..MaxAttempts]]
         /\ effect \in [Messages -> {"none", "unrecorded", "recorded"}]
         /\ gaveUp \subseteq Messages /\ failures \in [Messages -> 0..MaxAttempts]
<1>1. poll[p] \in PollState
  BY DEF AttemptsInv, TypeOK
<1> QED  BY <1>1 DEF AttemptsInv, TypeOK, PollState

(* A step of one poll keeps SerialInv if no other is in progress, or polls *)
(* have overlapped, and it leaves its own list and the rows true.          *)
LEMMA OnePollSerial ==
  ASSUME AttemptsInv, SerialInv, NEW p \in Polls,
         \A q \in Polls : q # p => poll'[q] = poll[q],
         \A m \in Messages : effect[m] # "none" => effect'[m] # "none",
         \A q \in Polls : poll[q].pc = "ok" => poll[q].msg \in Messages,
         RowsTried', PollTried(p)', overlap => overlap',
         ~overlap' => Alone(p) /\ RowsOver' /\ ListTrue(p)'
  PROVE  SerialInv'
<1>1. ASSUME NEW q \in Polls PROVE PollTried(q)'
  <2>1. CASE q = p
    BY <2>1
  <2>2. CASE q # p
    BY <2>2 DEF SerialInv, PollTried
  <2> QED  BY <2>1, <2>2
<1>2. ASSUME ~overlap', NEW q \in Polls
      PROVE  (ListTrue(q) /\ (Alone(q) \/ poll[q].pc = "idle"))'
  <2>1. CASE q = p
    BY <1>2, <2>1 DEF Alone
  <2>2. CASE q # p
    <3>1. poll'[q] = poll[q] /\ poll[q].pc = "idle"
      BY <1>2, <2>2 DEF Alone
    <3>2. poll[q].todo = {}
      BY <3>1 DEF SerialInv, PollTried, Working
    <3> QED  BY <3>1, <3>2 DEF ListTrue, Working
  <2> QED  BY <2>1, <2>2
<1> QED  BY <1>1, <1>2 DEF SerialInv

(* A step of one poll that neither takes up a reply nor sends a notice.    *)
LEMMA QuietStep ==
  ASSUME NEW p \in Polls, \A q \in Polls : q # p => poll'[q] = poll[q],
         ~(poll[p].pc = "next" /\ poll'[p].pc \in {"ok", "failed"}),
         ~(poll[p].pc = "giveUp" /\ poll'[p].pc = "next")
  PROVE  EndsOnceStep /\ InOrder
<1>1. ASSUME NEW m \in Messages PROVE ~Tries(m) /\ ~Reports(m)
  <2>1. ASSUME NEW q \in Polls
        PROVE  /\ ~(At(q, "next") /\ poll'[q].pc \in {"ok", "failed"})
               /\ ~(At(q, "giveUp") /\ poll'[q].pc = "next")
    BY DEF At
  <2> QED  BY <2>1 DEF Tries, Reports
<1> QED  BY <1>1 DEF EndsOnceStep, InOrder

(* What every step of a poll in progress may assume.                       *)
LEMMA InProgress ==
  ASSUME AttemptsInv, SerialInv, NEW p \in Polls
  PROVE  /\ RowsTried /\ PollTried(p)
         /\ ~overlap => RowsOver /\ ListTrue(p) /\ (poll[p].pc # "idle" => Alone(p))
         /\ \A q \in Polls : poll[q].pc = "ok" => poll[q].msg \in Messages
<1>1. ASSUME NEW q \in Polls, poll[q].pc = "ok" PROVE poll[q].msg \in Messages
  BY <1>1, PollTypes DEF AttemptsInv, HandTrue
<1> QED  BY <1>1 DEF SerialInv

(* The world outside.                                                      *)
LEMMA OutsideKeepsSerial ==
  ASSUME SerialInv, UNCHANGED <<row, poll, outcomes, overlap>>
  PROVE  SerialInv' /\ EndsOnceStep /\ InOrder
<1>1. SerialInv'
  BY DEF outcomes, SerialInv, RowsTried, PollTried, ListTrue, RowsOver, Alone
<1>2. \A m \in Messages : ~Tries(m) /\ ~Reports(m)
  BY DEF Tries, Reports, At
<1> QED  BY <1>1, <1>2 DEF EndsOnceStep, InOrder

(* A poll that starts, ends or is killed has nothing on its list.          *)
LEMMA EndsKeepSerial ==
  ASSUME AttemptsInv, SerialInv, NEW p \in Polls, Start(p) \/ Finish(p) \/ Abort(p)
  PROVE  SerialInv' /\ EndsOnceStep /\ InOrder
<1>1. /\ poll'[p].pc \in {"idle", "drain"} /\ poll'[p].todo = {}
      /\ \A q \in Polls : q # p => poll'[q] = poll[q]
  <2> DEFINE begun == [Idle EXCEPT !.pc = "drain", !.users = waiting]
  <2>1. poll' = [poll EXCEPT ![p] = Idle] \/ poll' = [poll EXCEPT ![p] = begun]
    BY DEF Start, Finish, Abort
  <2>2. Idle.pc = "idle" /\ Idle.todo = {} /\ begun.pc = "drain" /\ begun.todo = {}
    BY DEF Idle
  <2> HIDE DEF begun
  <2> QED  BY <2>1, <2>2, PollTypes
<1>2. UNCHANGED <<row, effect, failures, gaveUp>>
  BY DEF Start, Finish, Abort, outcomes
<1>3. /\ overlap => overlap'
      /\ ~overlap' => Alone(p)
  <2>1. CASE Start(p)
    BY <2>1 DEF Start, Alone, At
  <2>2. CASE Finish(p) \/ Abort(p)
    BY <2>2, InProgress DEF Finish, Abort, Over, At
  <2> QED  BY <2>1, <2>2
<1>4. PollTried(p)' /\ RowsTried'
  BY <1>1, <1>2, InProgress DEF PollTried, RowsTried
<1>5. ~overlap' => RowsOver' /\ ListTrue(p)'
  BY <1>1, <1>2, <1>3, InProgress DEF RowsOver, ListTrue, Working
<1>6. SerialInv'
  BY <1>1, <1>2, <1>3, <1>4, <1>5, InProgress, OnePollSerial
<1> QED  BY <1>1, <1>6, QuietStep

LEMMA DrainKeepsSerial ==
  ASSUME AttemptsInv, SerialInv, NEW p \in Polls, Drain(p)
  PROVE  SerialInv' /\ EndsOnceStep /\ InOrder
<1>1. /\ poll[p].pc = "drain" /\ poll'[p].pc = "persist" /\ poll'[p].todo = poll[p].todo
      /\ \A q \in Polls : q # p => poll'[q] = poll[q]
  BY PollTypes DEF Drain, Goto, At, PollState
<1>2. UNCHANGED <<row, effect, failures, gaveUp, overlap>>
  BY DEF Drain, Goto, outcomes
<1>3. poll[p].todo = {}
  BY <1>1, InProgress DEF PollTried, Working
<1>4. PollTried(p)' /\ RowsTried'
  BY <1>1, <1>2, <1>3, InProgress DEF PollTried, RowsTried
<1>5. ~overlap' => Alone(p) /\ RowsOver' /\ ListTrue(p)'
  BY <1>1, <1>2, <1>3, InProgress DEF RowsOver, ListTrue, Working
<1>6. SerialInv'
  BY <1>1, <1>2, <1>4, <1>5, InProgress, OnePollSerial
<1> QED  BY <1>1, <1>6, QuietStep

(* The insert leaves every row that is there as it is.                     *)
LEMMA PersistKeepsSerial ==
  ASSUME AttemptsInv, SerialInv, NEW p \in Polls, Persist(p)
  PROVE  SerialInv' /\ EndsOnceStep /\ InOrder
<1>1. /\ poll[p].pc = "persist" /\ poll'[p].pc = "load" /\ poll'[p].todo = poll[p].todo
      /\ \A q \in Polls : q # p => poll'[q] = poll[q]
  BY PollTypes DEF Persist, At, PollState
<1>2. /\ UNCHANGED <<effect, failures, gaveUp, overlap>>
      /\ \A m \in Messages : \/ row'[m] = row[m]
                             \/ row[m].status = "absent" /\ row'[m].status = "received"
  <2>1. UNCHANGED <<effect, failures, gaveUp, overlap>> /\ \E mine : row' = Stored(mine)
    BY DEF Persist, outcomes
  <2> QED  BY <2>1 DEF Stored
<1>3. poll[p].todo = {}
  BY <1>1, InProgress DEF PollTried, Working
<1>4. PollTried(p)' /\ RowsTried'
  BY <1>1, <1>2, <1>3, InProgress DEF PollTried, RowsTried
<1>5. ~overlap' => Alone(p) /\ RowsOver' /\ ListTrue(p)'
  BY <1>1, <1>2, <1>3, InProgress DEF RowsOver, ListTrue, Working
<1>6. SerialInv'
  BY <1>1, <1>2, <1>4, <1>5, InProgress, OnePollSerial
<1> QED  BY <1>1, <1>6, QuietStep

(* The list is every reply of the users that can be processed: none that   *)
(* is over.                                                                *)
LEMMA LoadKeepsSerial ==
  ASSUME AttemptsInv, SerialInv, NEW p \in Polls, Load(p)
  PROVE  SerialInv' /\ EndsOnceStep /\ InOrder
<1> DEFINE todo == {m \in Messages : Processable(m) /\ UserOf[m] \in poll[p].users}
<1>0. PICK seen : seen = [m \in Messages |-> IF m \in todo THEN row[m].attempts ELSE 0]
  OBVIOUS
<1>1. /\ poll' = [poll EXCEPT ![p].pc = "next", ![p].todo = todo, ![p].seen = seen]
      /\ UNCHANGED <<row, effect, failures, gaveUp, overlap>>
  BY <1>0, Zenon DEF Load, outcomes
<1>2. /\ \A m \in todo : Open(m) /\ m \in Messages /\ UserOf[m] \in poll[p].users
      /\ \A n \in Messages :
           row[n].status = "received" /\ UserOf[n] \in poll[p].users => n \in todo
  BY DEF Processable, Open
<1> HIDE DEF todo
<1>3. /\ poll[p].pc = "load" /\ poll'[p].pc = "next" /\ poll'[p].todo = todo
      /\ poll'[p].users = poll[p].users
      /\ \A q \in Polls : q # p => poll'[q] = poll[q]
  <2>1. poll' = [poll EXCEPT ![p] = [poll[p] EXCEPT !.pc = "next", !.todo = todo, !.seen = seen]]
    BY <1>1, Zenon
  <2>2. poll[p].pc = "load"
    BY Zenon DEF Load, At
  <2> QED  BY <2>1, <2>2, PollTypes DEF PollState
<1>4. PollTried(p)' /\ RowsTried'
  BY <1>1, <1>3, InProgress DEF PollTried, RowsTried, Working
<1>5. ~overlap' => Alone(p) /\ RowsOver' /\ ListTrue(p)'
  BY <1>1, <1>2, <1>3, InProgress DEF RowsOver, ListTrue, Working, Open
<1>6. SerialInv'
  BY <1>1, <1>3, <1>4, <1>5, InProgress, OnePollSerial
<1> QED  BY <1>3, <1>6, QuietStep

(* A failed attempt of a reply on the list.                                *)
LEMMA FailsKeepsSerial ==
  ASSUME AttemptsInv, SerialInv, NEW p \in Polls, NEW m \in poll[p].todo, Fails(p, m),
         poll[p].pc \in Working,
         row' = row \/ (effect[m] # "none" /\ row' = [row EXCEPT ![m].status = "processed"])
  PROVE  SerialInv'
<1>1. /\ poll' = [poll EXCEPT ![p].pc = "failed", ![p].msg = m]
      /\ failures' = [failures EXCEPT ![m] = Capped(@)]
      /\ UNCHANGED <<effect, gaveUp, overlap>> /\ m \in Messages
  BY PollTypes DEF Fails
<1>2. /\ poll'[p].pc = "failed" /\ poll'[p].todo = poll[p].todo
      /\ poll'[p].users = poll[p].users
      /\ \A q \in Polls : q # p => poll'[q] = poll[q]
  BY <1>1, PollTypes DEF PollState
<1>3. \A n \in Messages : failures[n] # 0 => failures'[n] # 0
  <2>1. failures[m] \in 0..MaxAttempts /\ MaxAttempts \in Nat
    BY <1>1, PollTypes, InboxAssumption
  <2>2. Capped(failures[m]) # 0
    BY <2>1, InboxAssumption DEF Capped
  <2> HIDE DEF Capped
  <2> QED  BY <1>1, <2>2, PollTypes
<1>4. \A n \in Messages :
        \/ row'[n] = row[n]
        \/ n = m /\ effect[m] # "none" /\ row'[m].status = "processed"
  BY <1>1, PollTypes
<1>5. PollTried(p)' /\ RowsTried'
  BY <1>1, <1>2, <1>3, <1>4, InProgress DEF PollTried, RowsTried, Working
<1>6. ~overlap' => Alone(p) /\ RowsOver' /\ ListTrue(p)'
  BY <1>1, <1>2, <1>4, InProgress DEF RowsOver, ListTrue, Working
<1> QED  BY <1>1, <1>2, <1>5, <1>6, InProgress, OnePollSerial

(* The oldest reply on the list is tried: what is older was tried before,  *)
(* and nothing on the list is over.                                        *)
LEMMA ProcessKeepsSerial ==
  ASSUME AttemptsInv, SerialInv, NEW p \in Polls, Process(p)
  PROVE  SerialInv' /\ EndsOnceStep /\ InOrder
<1>1. PICK m \in poll[p].todo :
        /\ NextUp(m, poll[p].todo)
        /\ \/ /\ poll' = [poll EXCEPT ![p].pc = "ok", ![p].msg = m]
              /\ effect' = [effect EXCEPT ![m] = "unrecorded"]
              /\ UNCHANGED <<unsent, queue, waiting, failures, gaveUp, overlap>>
           \/ Fails(p, m)
  BY Zenon DEF Process
<1>2. UNCHANGED row /\ poll[p].pc = "next" /\ m \in Messages
  BY <1>1, PollTypes DEF Process, At
<1>3. /\ poll'[p].msg = m /\ poll'[p].todo = poll[p].todo /\ poll'[p].users = poll[p].users
      /\ poll'[p].pc \in {"ok", "failed"} /\ UNCHANGED <<gaveUp, overlap>>
      /\ \A q \in Polls : q # p => poll'[q] = poll[q]
  BY <1>1, <1>2, PollTypes DEF PollState, Fails
<1>4. SerialInv'
  <2>1. CASE Fails(p, m)
    BY <1>2, <2>1, FailsKeepsSerial DEF Working
  <2>2. CASE /\ poll' = [poll EXCEPT ![p].pc = "ok", ![p].msg = m]
             /\ effect' = [effect EXCEPT ![m] = "unrecorded"]
             /\ UNCHANGED <<unsent, queue, waiting, failures, gaveUp, overlap>>
    <3>1. \A n \in Messages : \/ n # m /\ effect'[n] = effect[n]
                              \/ n = m /\ effect'[n] = "unrecorded"
      BY <1>2, <2>2, PollTypes
    <3>2. PollTried(p)' /\ RowsTried'
      BY <1>2, <1>3, <2>2, <3>1, InProgress DEF PollTried, RowsTried, Working
    <3>3. ~overlap' => Alone(p) /\ RowsOver' /\ ListTrue(p)'
      <4> SUFFICES ASSUME ~overlap' PROVE Alone(p) /\ RowsOver' /\ ListTrue(p)'
        OBVIOUS
      <4>1. Alone(p) /\ RowsOver /\ ListTrue(p)
        BY <1>2, <1>3, InProgress
      <4>2. RowsOver'
        BY <1>2, <1>3, <3>1, <4>1 DEF RowsOver
      <4>3. \A n \in poll[p].todo : n \in Messages /\ effect'[n] # "recorded"
        BY <3>1, <4>1, PollTypes DEF ListTrue
      <4>4. ListTrue(p)'
        BY <1>2, <1>3, <4>1, <4>3 DEF ListTrue, Working
      <4> QED  BY <4>1, <4>2, <4>4
    <3> QED  BY <1>2, <1>3, <3>1, <3>2, <3>3, InProgress, OnePollSerial
  <2> QED  BY <1>1, <2>1, <2>2
<1>5. \A k \in Messages : /\ Tries(k) => k = m
                          /\ ~Reports(k)
  <2>1. ASSUME NEW k \in Messages, NEW q \in Polls,
               At(q, "next") /\ poll'[q].pc \in {"ok", "failed"} /\ poll'[q].msg = k
        PROVE  k = m
    BY <1>3, <2>1 DEF At
  <2>2. ASSUME NEW q \in Polls, At(q, "giveUp"), poll'[q].pc = "next"
        PROVE  FALSE
    BY <1>2, <1>3, <2>2 DEF At
  <2> QED  BY <2>1, <2>2 DEF Tries, Reports
<1>6. EndsOnceStep
  <2>1. ~overlap => effect[m] # "recorded"
    BY <1>1, InProgress DEF ListTrue
  <2> QED  BY <1>5, <2>1 DEF EndsOnceStep
<1>7. InOrder
  <2> SUFFICES ASSUME NEW n \in Messages, Older(n, m), row[n].status # "absent",
                      ~Tried(n), ~overlap
               PROVE  FALSE
    BY <1>5 DEF InOrder
  <2>1. RowsTried /\ ListTrue(p)
    BY InProgress
  <2>2. row[n].status = "received"
    <3>1. effect[n] = "none" /\ failures[n] = 0
      <4>1. failures[n] \in 0..MaxAttempts /\ MaxAttempts \in Nat
        BY PollTypes, InboxAssumption
      <4> QED  BY <4>1 DEF Tried
    <3>2. row[n].status \in RowStatus
      BY PollTypes
    <3> QED  BY <2>1, <3>1, <3>2 DEF RowsTried, RowStatus
  <2>3. n \in poll[p].todo
    BY <1>1, <1>2, <2>1, <2>2 DEF ListTrue, Working, Older
  <2>4. Stamp[m] <= Stamp[n] /\ Stamp[n] < Stamp[m]
    BY <1>1, <2>3 DEF NextUp, Older
  <2>5. Stamp[m] \in Nat /\ Stamp[n] \in Nat
    BY <1>2, InboxAssumption
  <2> QED  BY <2>4, <2>5
<1> QED  BY <1>4, <1>6, <1>7

(* What GoOn leaves of the poll.                                           *)
LEMMA GoOnLeaves ==
  ASSUME AttemptsInv, NEW p \in Polls, GoOn(p)
  PROVE  /\ poll'[p].pc = "next" /\ poll'[p].users = poll[p].users
         /\ poll'[p].todo = poll[p].todo \ {poll[p].msg}
         /\ \A q \in Polls : q # p => poll'[q] = poll[q]
<1> DEFINE m == poll[p].msg
           seen == [poll[p].seen EXCEPT ![m] = 0]
<1>1. poll' = [poll EXCEPT ![p] = [poll[p] EXCEPT !.pc = "next", !.msg = NoMessage,
                                     !.todo = @ \ {m}, !.seen = seen]]
  BY PollTypes DEF GoOn, PollState
<1> HIDE DEF m, seen
<1>2. /\ poll'[p].pc = "next" /\ poll'[p].users = poll[p].users
      /\ poll'[p].todo = poll[p].todo \ {m}
      /\ \A q \in Polls : q # p => poll'[q] = poll[q]
  BY <1>1, PollTypes DEF PollState
<1> QED  BY <1>2 DEF m

LEMMA MarkProcessedKeepsSerial ==
  ASSUME AttemptsInv, SerialInv, NEW p \in Polls, MarkProcessed(p)
  PROVE  SerialInv' /\ EndsOnceStep /\ InOrder
<1> DEFINE m == poll[p].msg
           processed == [row EXCEPT ![m].status = "processed"]
<1>1. /\ poll[p].pc = "ok"
      /\ \/ /\ row' = processed /\ GoOn(p)
            /\ effect' = [effect EXCEPT ![m] = "recorded"]
            /\ UNCHANGED <<unsent, queue, waiting, failures, gaveUp, overlap>>
         \/ row' \in {row, processed} /\ Fails(p, m)
  BY Zenon DEF MarkProcessed, At
<1>2. m \in poll[p].todo /\ m \in Messages /\ effect[m] # "none"
  BY <1>1, PollTypes, InProgress DEF AttemptsInv, HandTrue, PollTried
<1>3. CASE row' \in {row, processed} /\ Fails(p, m)
  <2>1. SerialInv'
    BY <1>1, <1>2, <1>3, FailsKeepsSerial DEF Working
  <2>2. poll'[p].pc = "failed" /\ \A q \in Polls : q # p => poll'[q] = poll[q]
    BY <1>3, PollTypes DEF Fails, PollState
  <2> QED  BY <1>1, <2>1, <2>2, QuietStep
<1>4. CASE /\ row' = processed /\ GoOn(p)
           /\ effect' = [effect EXCEPT ![m] = "recorded"]
           /\ UNCHANGED <<unsent, queue, waiting, failures, gaveUp, overlap>>
  <2>1. /\ poll'[p].pc = "next" /\ poll'[p].users = poll[p].users
        /\ poll'[p].todo = poll[p].todo \ {m}
        /\ \A q \in Polls : q # p => poll'[q] = poll[q]
    BY <1>4, GoOnLeaves
  <2>2. /\ row'[m].status = "processed" /\ effect'[m] = "recorded"
        /\ \A n \in Messages : n # m => row'[n] = row[n] /\ effect'[n] = effect[n]
    BY <1>2, <1>4, PollTypes
  <2> HIDE DEF m
  <2>3. PollTried(p)' /\ RowsTried'
    BY <1>4, <2>1, <2>2, InProgress DEF PollTried, RowsTried, Working
  <2>4. ~overlap' => Alone(p) /\ RowsOver' /\ ListTrue(p)'
    <3> SUFFICES ASSUME ~overlap' PROVE Alone(p) /\ RowsOver' /\ ListTrue(p)'
      OBVIOUS
    <3>1. Alone(p) /\ RowsOver /\ ListTrue(p)
      BY <1>1, <1>4, InProgress
    <3>2. RowsOver'
      BY <1>2, <1>4, <2>2, <3>1 DEF RowsOver, ListTrue
    <3>3. \A n \in poll'[p].todo : n \in Messages /\ n # m /\ n \in poll[p].todo
      BY <2>1, PollTypes
    <3>4. ListTrue(p)'
      BY <1>1, <1>4, <2>1, <2>2, <3>1, <3>3 DEF ListTrue, Working
    <3> QED  BY <3>1, <3>2, <3>4
  <2>5. SerialInv'
    BY <1>4, <2>1, <2>2, <2>3, <2>4, InProgress, OnePollSerial
  <2> QED  BY <1>1, <2>1, <2>5, QuietStep
<1> QED  BY <1>1, <1>3, <1>4

LEMMA MarkFailedKeepsSerial ==
  ASSUME AttemptsInv, SerialInv, NEW p \in Polls, MarkFailed(p)
  PROVE  SerialInv' /\ EndsOnceStep /\ InOrder
<1> DEFINE m == poll[p].msg
           attempts == poll[p].seen[m] + 1
           status == IF Exhausted(attempts) THEN "dead" ELSE "failed"
<1>1. /\ poll[p].pc = "failed"
      /\ row' = [row EXCEPT ![m] = [status |-> status, attempts |-> attempts]]
      /\ IF Exhausted(attempts) THEN Goto(p, "giveUp") ELSE GoOn(p)
      /\ UNCHANGED <<effect, failures, gaveUp, overlap>>
  BY DEF MarkFailed, At, outcomes
<1>2. m \in poll[p].todo /\ m \in Messages /\ attempts <= failures[m]
  BY <1>1, PollTypes DEF AttemptsInv, HandTrue
<1>3. failures[m] # 0
  <2>1. poll[p].seen[m] \in 0..MaxAttempts /\ failures[m] \in 0..MaxAttempts /\ MaxAttempts \in Nat
    BY <1>2, PollTypes, InboxAssumption DEF PollState
  <2> QED  BY <1>2, <2>1
<1>4. status \in {"dead", "failed"} /\ (status = "dead" <=> Exhausted(attempts))
  OBVIOUS
<1> HIDE DEF status, attempts
<1>5. row'[m].status = status /\ \A n \in Messages : n # m => row'[n] = row[n]
  BY <1>1, <1>2, PollTypes
<1>6. /\ \/ /\ status = "failed" /\ poll'[p].pc = "next"
            /\ poll'[p].todo = poll[p].todo \ {m}
         \/ /\ status = "dead" /\ poll'[p].pc = "giveUp"
            /\ poll'[p].todo = poll[p].todo /\ poll'[p].msg = m
      /\ poll'[p].users = poll[p].users
      /\ \A q \in Polls : q # p => poll'[q] = poll[q]
  <2>1. CASE ~Exhausted(attempts)
    BY <1>1, <1>4, <2>1, GoOnLeaves
  <2>2. CASE Exhausted(attempts)
    BY <1>1, <1>4, <2>2, PollTypes DEF Goto, PollState
  <2> QED  BY <2>1, <2>2
<1> HIDE DEF m
<1>7. PollTried(p)' /\ RowsTried'
  BY <1>1, <1>3, <1>4, <1>5, <1>6, InProgress DEF PollTried, RowsTried, Working
<1>8. ~overlap' => Alone(p) /\ RowsOver' /\ ListTrue(p)'
  <2> SUFFICES ASSUME ~overlap' PROVE Alone(p) /\ RowsOver' /\ ListTrue(p)'
    OBVIOUS
  <2>1. Alone(p) /\ RowsOver /\ ListTrue(p)
    BY <1>1, InProgress
  <2>2. RowsOver'
    BY <1>1, <1>2, <1>5, <2>1 DEF RowsOver, ListTrue
  <2>3. \A n \in poll'[p].todo : n \in Messages /\ n \in poll[p].todo
    BY <1>6, PollTypes
  <2>4. \A n \in Messages :
          row'[n].status = "received" => n # m /\ row[n].status = "received"
    BY <1>4, <1>5
  <2>5. ListTrue(p)'
    BY <1>1, <1>2, <1>4, <1>5, <1>6, <2>1, <2>3, <2>4 DEF ListTrue, Working
  <2> QED  BY <2>1, <2>2, <2>5
<1>9. SerialInv'
  BY <1>1, <1>6, <1>7, <1>8, InProgress, OnePollSerial
<1> QED  BY <1>1, <1>6, <1>9, QuietStep

(* What is reported is on the list: it was not reported, and is not over.  *)
LEMMA NotifyKeepsSerial ==
  ASSUME AttemptsInv, SerialInv, NEW p \in Polls, NotifyGaveUp(p)
  PROVE  SerialInv' /\ EndsOnceStep /\ InOrder
<1> DEFINE m == poll[p].msg
<1>1. /\ poll[p].pc = "giveUp" /\ GoOn(p) /\ gaveUp' = gaveUp \cup {m}
      /\ UNCHANGED <<row, effect, failures, overlap>>
  BY DEF NotifyGaveUp, At
<1>2. m \in poll[p].todo /\ m \in Messages
  BY <1>1, PollTypes DEF AttemptsInv, HandTrue
<1>3. /\ poll'[p].pc = "next" /\ poll'[p].users = poll[p].users
      /\ poll'[p].todo = poll[p].todo \ {m}
      /\ \A q \in Polls : q # p => poll'[q] = poll[q]
  BY <1>1, GoOnLeaves
<1>4. PollTried(p)' /\ RowsTried'
  BY <1>1, <1>3, InProgress DEF PollTried, RowsTried, Working
<1>5. ~overlap' => Alone(p) /\ RowsOver' /\ ListTrue(p)'
  <2> SUFFICES ASSUME ~overlap' PROVE Alone(p) /\ RowsOver' /\ ListTrue(p)'
    OBVIOUS
  <2>1. Alone(p) /\ RowsOver /\ ListTrue(p) /\ row[m].status = "dead"
    BY <1>1, InProgress DEF ListTrue
  <2>2. RowsOver'
    BY <1>1, <2>1 DEF RowsOver
  <2>3. \A n \in poll'[p].todo : n # m /\ n \in poll[p].todo
    BY <1>3
  <2>4. \A n \in Messages : row[n].status = "received" => n # m
    BY <2>1
  <2> HIDE DEF m
  <2>5. ListTrue(p)'
    BY <1>1, <1>3, <2>1, <2>3, <2>4 DEF ListTrue, Working
  <2> QED  BY <2>1, <2>2, <2>5
<1>6. SerialInv'
  BY <1>1, <1>3, <1>4, <1>5, InProgress, OnePollSerial
<1>7. \A k \in Messages : /\ Reports(k) => k = m
                          /\ ~Tries(k)
  <2>1. ASSUME NEW k \in Messages, NEW q \in Polls,
               At(q, "giveUp") /\ poll[q].msg = k /\ poll'[q].pc = "next"
        PROVE  k = m
    BY <1>1, <1>3, <2>1 DEF At
  <2>2. ASSUME NEW q \in Polls, At(q, "next"), poll'[q].pc \in {"ok", "failed"}
        PROVE  FALSE
    BY <1>1, <1>3, <2>2 DEF At
  <2> QED  BY <2>1, <2>2 DEF Tries, Reports
<1>8. EndsOnceStep
  <2>1. ~overlap => effect[m] # "recorded" /\ m \notin gaveUp
    BY <1>2, InProgress DEF ListTrue
  <2> QED  BY <1>7, <2>1 DEF EndsOnceStep
<1> QED  BY <1>6, <1>7, <1>8 DEF InOrder

LEMMA StepKeepsSerial ==
  ASSUME AttemptsInv, SerialInv, [Next]_vars
  PROVE  SerialInv' /\ EndsOnceStep /\ InOrder
<1>1. CASE \E q \in Polls : Start(q) \/ Step(q) \/ Abort(q)
  <2>1. PICK p \in Polls : Start(p) \/ Step(p) \/ Abort(p)
    BY <1>1
  <2>2. CASE Start(p) \/ Finish(p) \/ Abort(p)
    BY <2>2, EndsKeepSerial
  <2>3. CASE \/ Drain(p) \/ Persist(p) \/ Load(p) \/ Process(p) \/ MarkProcessed(p)
             \/ MarkFailed(p) \/ NotifyGaveUp(p)
    BY <2>3, DrainKeepsSerial, PersistKeepsSerial, LoadKeepsSerial, ProcessKeepsSerial,
       MarkProcessedKeepsSerial, MarkFailedKeepsSerial, NotifyKeepsSerial
  <2> QED  BY <2>1, <2>2, <2>3 DEF Step
<1>2. CASE UNCHANGED <<row, poll, outcomes, overlap>>
  BY <1>2, OutsideKeepsSerial
<1> QED
  BY <1>1, <1>2 DEF Next, vars, outcomes, Arrive, Redeliver, DraftQueued, DraftsSettled

LEMMA SerialAlways == Spec => [](AttemptsInv /\ SerialInv)
<1>1. Init => SerialInv
  <2> SUFFICES ASSUME Init PROVE SerialInv
    OBVIOUS
  <2>1. \A p \in Polls : poll[p].pc = "idle" /\ poll[p].todo = {}
    BY DEF Init, Idle
  <2>2. RowsTried /\ RowsOver
    BY DEF Init, RowsTried, RowsOver
  <2> QED  BY <2>1, <2>2 DEF SerialInv, PollTried, ListTrue, Working
<1>2. AttemptsInv /\ SerialInv /\ [Next]_vars => (AttemptsInv /\ SerialInv)'
  BY StepKeepsSerial, StepKeepsAttempts
<1> QED  BY InitAttempts, <1>1, <1>2, PTL DEF Spec

(* While polls have not overlapped, a reply whose effect is on record is   *)
(* not handled again nor reported as given up, and none is reported twice, *)
(* whatever fails, is killed or is handed out again: the dedup insert and  *)
(* the status filter keep it out (saveInboundMessages,                     *)
(* getProcessableInboundMessages).  Nothing is claimed of a reply that     *)
(* took effect and whose record failed.                                    *)
THEOREM EndsOnceTheorem == Spec => EndsOnce
<1>1. AttemptsInv /\ SerialInv /\ [Next]_vars =>
        [\A m \in Messages :
           /\ Tries(m) \/ Reports(m) => effect[m] # "recorded" \/ overlap
           /\ Reports(m) => m \notin gaveUp \/ overlap]_vars
  BY StepKeepsSerial DEF EndsOnceStep
<1> QED  BY <1>1, SerialAlways, PTL DEF Spec, EndsOnce

(* While polls have not overlapped, a reply is first tried only when every *)
(* older stored reply of its user has been tried, whatever fails or is     *)
(* killed (getProcessableInboundMessages, ORDER BY signal_timestamp).      *)
THEOREM FirstTriesTheorem == Spec => FirstTriesInOrder
<1>1. AttemptsInv /\ SerialInv /\ [Next]_vars =>
        [\A m, n \in Messages :
           Tries(m) /\ ~Tried(m) /\ Older(n, m) /\ row[n].status # "absent"
             => Tried(n) \/ overlap]_vars
  BY StepKeepsSerial DEF InOrder
<1> QED  BY <1>1, SerialAlways, PTL DEF Spec, FirstTriesInOrder
=============================================================================
