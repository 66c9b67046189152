---------------------------- MODULE SyncQueueProofs ----------------------------
(***************************************************************************)
(* For any number of jobs, cron requests, accounts and attempts: whatever  *)
(* order the reports arrive in and whichever are lost, a row never claims  *)
(* of a job what is not so; and when they arrive in order, it says in the  *)
(* end where the job is.                                                   *)
(*                                                                         *)
(* A row is overwritten by any report still on its way, so the invariant   *)
(* is that every one of those is true, and stays true as the job goes on:  *)
(* a job that has ended is never touched again, and its counts only grow.  *)
(* For the second fact it is that the newest of the row and the reports on *)
(* their way speaks of the job as it is now.                               *)
(***************************************************************************)
EXTENDS SyncQueue, TLAPS

Reports(j) == {reports[j][n] : n \in 1..Len(reports[j])}

(* What RowsAreTrue asks of the row, asked of any report of a job.         *)
IsTrue(j, r) ==
  /\ r.status = "completed" => job[j].state = "done" /\ r.attempts = job[j].made
  /\ r.status = "dead" => job[j].state = "failed" /\ r.attempts = Attempts
  /\ r.status = "failed" =>
       /\ r.attempts < Attempts
       /\ r.attempts \in 1..job[j].made \/ (GivenUp(j) /\ r.attempts = job[j].made)
  /\ r.status = "active" => job[j].tries > r.attempts

(* Attempts are counted when they end; one is left for a job not yet over. *)
CountsInv(j) ==
  /\ job[j].made <= job[j].tries
  /\ job[j].state = "active" => job[j].made < job[j].tries
  /\ job[j].state \notin {"done", "failed"} => job[j].made < Attempts

(* What is posted, or run inline, is a list of accounts.                   *)
CronInv == \A c \in Crons : cron[c].pc \in {"post", "inline"} => cron[c].todo \subseteq Accounts

QueueInv ==
  /\ TypeOK
  /\ CronInv
  /\ \A j \in Jobs :
       CountsInv(j) /\ IsTrue(j, row[j]) /\ \A r \in Reports(j) : IsTrue(j, r)

JobRow == [state : JobState, account : Accounts \cup {NoAccount}, made : 0..Attempts,
           tries : Nat, stalls : Nat]

(* A job that is over stays as it is, and counts only grow.                *)
GoesOn(j) ==
  /\ job[j].state \in {"done", "failed"} =>
       job'[j].state = job[j].state /\ job'[j].made = job[j].made
  /\ job'[j].made >= job[j].made /\ job'[j].tries >= job[j].tries

-----------------------------------------------------------------------------
(* Reports on their way.                                                   *)

(* Append, and what it adds to the reports.                                *)
LEMMA AppendFacts ==
  ASSUME NEW R, NEW q \in Seq(R), NEW r \in R
  PROVE  /\ Append(q, r) \in Seq(R)
         /\ \A n \in 1..Len(Append(q, r)) :
              Append(q, r)[n] = r \/ \E m \in 1..Len(q) : Append(q, r)[n] = q[m]
OBVIOUS

(* RemoveAt takes one away and adds none.                                  *)
LEMMA RemoveFacts ==
  ASSUME NEW R, NEW q \in Seq(R), NEW n \in 1..Len(q)
  PROVE  /\ RemoveAt(q, n) \in Seq(R)
         /\ \A m \in 1..Len(RemoveAt(q, n)) : \E k \in 1..Len(q) : RemoveAt(q, n)[m] = q[k]
<1>1. SubSeq(q, 1, n - 1) \in Seq(R) /\ Len(SubSeq(q, 1, n - 1)) = n - 1
      /\ \A m \in 1..(n - 1) : SubSeq(q, 1, n - 1)[m] = q[m]
  OBVIOUS
<1>2. SubSeq(q, n + 1, Len(q)) \in Seq(R) /\ Len(SubSeq(q, n + 1, Len(q))) = Len(q) - n
      /\ \A m \in 1..(Len(q) - n) : SubSeq(q, n + 1, Len(q))[m] = q[n + m]
  OBVIOUS
<1> DEFINE a == SubSeq(q, 1, n - 1)
<1> DEFINE b == SubSeq(q, n + 1, Len(q))
<1>3. RemoveAt(q, n) = a \o b  BY DEF RemoveAt
<1>4. n \in Nat /\ Len(q) \in Nat /\ n >= 1 /\ n <= Len(q)  OBVIOUS
<1>5. a \in Seq(R) /\ b \in Seq(R)  BY <1>1, <1>2
<1>6. \A m \in 1..Len(a) : \E k \in 1..Len(q) : a[m] = q[k]  BY <1>1, <1>4
<1>7. \A m \in 1..Len(b) : \E k \in 1..Len(q) : b[m] = q[k]  BY <1>2, <1>4
<1> HIDE DEF a, b
<1>8. a \o b \in Seq(R) /\ Len(a \o b) = Len(a) + Len(b)
      /\ \A m \in 1..Len(a \o b) :
           (a \o b)[m] = IF m <= Len(a) THEN a[m] ELSE b[m - Len(a)]
  BY <1>5
<1>9. Len(a) \in Nat /\ Len(b) \in Nat  BY <1>5
<1>10. \A m \in 1..Len(a \o b) : m \notin 1..Len(a) => m - Len(a) \in 1..Len(b)
  BY <1>8, <1>9
<1>11. \A m \in 1..Len(a \o b) : \E k \in 1..Len(q) : (a \o b)[m] = q[k]
  <2> TAKE m \in 1..Len(a \o b)
  <2>1. CASE m \in 1..Len(a)  BY <1>6, <1>8, <2>1
  <2>2. CASE m \notin 1..Len(a)  BY <1>7, <1>8, <1>9, <1>10, <2>2
  <2> QED  BY <2>1, <2>2
<1> QED  BY <1>3, <1>8, <1>11

LEMMA SendFacts ==
  ASSUME TypeOK, NEW j \in Jobs, NEW s \in Status, NEW n \in 0..Attempts, Send(j, s, n)
  PROVE  /\ reports' \in [Jobs -> Seq(Report)]
         /\ \A i \in Jobs : \A r \in Reports(i)' :
              r \in Reports(i) \/ (i = j /\ r = [status |-> s, attempts |-> n])
<1> DEFINE new == [status |-> s, attempts |-> n]
<1>1. new \in Report  BY DEF Report
<1>2. reports \in [Jobs -> Seq(Report)]  BY DEF TypeOK
<1>3. reports' = [reports EXCEPT ![j] = Append(reports[j], new)]  BY DEF Send
<1> HIDE DEF new
<1>4. reports[j] \in Seq(Report)  BY <1>2
<1>5. /\ Append(reports[j], new) \in Seq(Report)
      /\ \A m \in 1..Len(Append(reports[j], new)) :
           Append(reports[j], new)[m] = new \/ \E k \in 1..Len(reports[j]) : Append(reports[j], new)[m] = reports[j][k]
  BY <1>1, <1>4, AppendFacts
<1>6. reports' \in [Jobs -> Seq(Report)] /\ reports'[j] = Append(reports[j], new)
      /\ \A i \in Jobs \ {j} : reports'[i] = reports[i]
  BY <1>2, <1>3, <1>5
<1>7. \A i \in Jobs : \A r \in Reports(i)' : r \in Reports(i) \/ (i = j /\ r = new)
  BY <1>5, <1>6 DEF Reports
<1> QED  BY <1>6, <1>7 DEF new

(* What is true of a report stays true while the job goes on.              *)
LEMMA StaysTrue ==
  ASSUME TypeOK, TypeOK', NEW j \in Jobs, GoesOn(j), NEW r, r \in Report \cup {NoRow}, IsTrue(j, r)
  PROVE  IsTrue(j, r)'
<1>1. job[j].made \in Nat /\ job'[j].made \in Nat /\ job[j].tries \in Nat /\ job'[j].tries \in Nat
  BY QueueAssumption DEF TypeOK
<1>2. r.attempts \in Nat  BY QueueAssumption DEF Report, NoRow
<1> QED  BY <1>1, <1>2 DEF GoesOn, IsTrue, GivenUp

(* A step keeps the invariant if jobs go on, its new reports are true and  *)
(* rows are overwritten by reports only.                                   *)
LEMMA StepKeeps ==
  ASSUME QueueInv, TypeOK', CronInv',
         \A j \in Jobs : CountsInv(j)' /\ GoesOn(j),
         \A j \in Jobs : \A r \in Reports(j)' : r \in Reports(j) \/ IsTrue(j, r)',
         \A j \in Jobs : row'[j] = row[j] \/ row'[j] \in Reports(j)
  PROVE  QueueInv'
<1>1. \A j \in Jobs : Reports(j) \subseteq Report /\ row[j] \in Report \cup {NoRow}
  BY DEF QueueInv, TypeOK, Reports
<1>2. ASSUME NEW j \in Jobs, NEW r \in Reports(j) \cup {row[j]} PROVE IsTrue(j, r)'
  BY <1>1, StaysTrue DEF QueueInv
<1>3. \A j \in Jobs : IsTrue(j, row[j])'
  <2> TAKE j \in Jobs
  <2>1. row'[j] \in Reports(j) \cup {row[j]}  OBVIOUS
  <2>2. \A r \in Reports(j) \cup {row[j]} : IsTrue(j, r)'  BY <1>2
  <2> QED  BY <2>1, <2>2 DEF IsTrue
<1>4. \A j \in Jobs : \A r \in Reports(j)' : IsTrue(j, r)'
  BY <1>2
<1> QED  BY <1>3, <1>4 DEF QueueInv

-----------------------------------------------------------------------------
LEMMA QueueInvInit == Init => QueueInv
<1> SUFFICES ASSUME Init PROVE QueueInv  OBVIOUS
<1>1. TypeOK
  <2>1. 0 \in 0..Attempts /\ 0 \in 0..MaxKills  BY QueueAssumption
  <2>2. job \in [Jobs -> JobRow]  BY <2>1 DEF Init, JobRow, JobState
  <2>3. cron \in [Crons -> CronState]  BY DEF Init, Resting, CronState
  <2>4. reports \in [Jobs -> Seq(Report)]  BY DEF Init
  <2> QED  BY <2>1, <2>2, <2>3, <2>4 DEF Init, TypeOK, JobRow
<1>2. \A j \in Jobs : CountsInv(j)  BY QueueAssumption DEF Init, CountsInv
<1>3. \A j \in Jobs : IsTrue(j, row[j])  BY DEF Init, IsTrue, NoRow
<1>4. \A j \in Jobs : Reports(j) = {}  BY DEF Init, Reports
<1>5. CronInv  BY DEF Init, CronInv, Resting
<1> QED  BY <1>1, <1>2, <1>3, <1>4, <1>5 DEF QueueInv

(* One job moves on and the rest stay: what is left to show of the step.   *)
LEMMA JobMoves ==
  ASSUME TypeOK, NEW j \in Jobs, NEW new \in JobRow, job' = [job EXCEPT ![j] = new]
  PROVE  job' \in [Jobs -> JobRow] /\ job'[j] = new /\ \A i \in Jobs \ {j} : job'[i] = job[i]
BY DEF TypeOK, JobRow

LEMMA TakeKeeps ==
  ASSUME QueueInv, NEW j \in Jobs, Take(j)
  PROVE  QueueInv'
<1> DEFINE more == job[j].tries + 1
<1> DEFINE new == [job[j] EXCEPT !.state = "active", !.tries = more]
<1>0. TypeOK /\ CountsInv(j)  BY DEF QueueInv
<1>1. UNCHANGED <<mode, cron, worker, row, orderly, kills>> /\ job[j].state = "waiting"
      /\ Send(j, "active", job[j].made)
  BY DEF Take, table
<1>2. job[j] \in JobRow  BY <1>0 DEF TypeOK, JobRow
<1>3. /\ new \in JobRow /\ new.state = "active" /\ new.tries = job[j].tries + 1 /\ new.made = job[j].made
  <2>1. more \in Nat  BY <1>2 DEF JobRow
  <2> HIDE DEF more
  <2>2. new \in JobRow /\ new.state = "active" /\ new.tries = more /\ new.made = job[j].made
    BY <1>2, <2>1 DEF JobRow, JobState
  <2> QED  BY <2>2 DEF more
<1>4. job' = [job EXCEPT ![j] = new]  BY Zenon DEF Take
<1> HIDE DEF new
<1>5. job' \in [Jobs -> JobRow] /\ job'[j] = new /\ \A i \in Jobs \ {j} : job'[i] = job[i]
  BY <1>0, <1>3, <1>4, JobMoves
<1>6. job[j].made \in 0..Attempts /\ "active" \in Status  BY <1>2 DEF JobRow, Status
<1>7. /\ reports' \in [Jobs -> Seq(Report)]
      /\ \A i \in Jobs : \A r \in Reports(i)' :
           r \in Reports(i) \/ (i = j /\ r = [status |-> "active", attempts |-> job[j].made])
  BY <1>0, <1>1, <1>6, SendFacts
<1>8. TypeOK'  BY <1>0, <1>1, <1>5, <1>7 DEF TypeOK, JobRow
<1>9. job[j].made \in Nat /\ job[j].tries \in Nat  BY <1>2, QueueAssumption DEF JobRow
<1>10. CountsInv(j)' /\ GoesOn(j)  BY <1>0, <1>1, <1>3, <1>5, <1>9 DEF CountsInv, GoesOn
<1>11. \A i \in Jobs \ {j} : CountsInv(i)' /\ GoesOn(i)
  BY <1>0, <1>5, QueueAssumption DEF QueueInv, CountsInv, GoesOn, TypeOK
<1>12. \A i \in Jobs : \A r \in Reports(i)' : r \in Reports(i) \/ IsTrue(i, r)'
  <2>1. \A r : r = [status |-> "active", attempts |-> job[j].made] => IsTrue(j, r)'
    BY <1>0, <1>3, <1>5, <1>9 DEF IsTrue, CountsInv
  <2> QED  BY <1>7, <2>1
<1>20. CronInv'  BY <1>1 DEF QueueInv, CronInv
<1> QED  BY <1>1, <1>8, <1>10, <1>11, <1>12, <1>20, StepKeeps

LEMMA CompleteKeeps ==
  ASSUME QueueInv, NEW j \in Jobs, job[j].state = "active", Complete(j),
         UNCHANGED <<mode, cron, worker, row, orderly, kills>>
  PROVE  QueueInv'
<1> DEFINE new == [job[j] EXCEPT !.state = "done", !.made = @ + 1]
<1> DEFINE n == job[j].made + 1
<1>0. TypeOK /\ CountsInv(j)  BY DEF QueueInv
<1>1. Send(j, "completed", n)  BY DEF Complete
<1>2. job[j] \in JobRow  BY <1>0 DEF TypeOK, JobRow
<1>3. n \in 0..Attempts /\ job[j].made \in Nat /\ job[j].tries \in Nat
  BY <1>0, <1>2, QueueAssumption DEF CountsInv, JobRow
<1>4. new \in JobRow /\ new.state = "done" /\ new.tries = job[j].tries /\ new.made = n
  BY <1>2, <1>3 DEF JobRow, JobState
<1>5. job' = [job EXCEPT ![j] = new]  BY Zenon DEF Complete
<1> HIDE DEF new
<1>6. job' \in [Jobs -> JobRow] /\ job'[j] = new /\ \A i \in Jobs \ {j} : job'[i] = job[i]
  BY <1>0, <1>4, <1>5, JobMoves
<1>7. /\ reports' \in [Jobs -> Seq(Report)]
      /\ \A i \in Jobs : \A r \in Reports(i)' :
           r \in Reports(i) \/ (i = j /\ r = [status |-> "completed", attempts |-> n])
  <2>1. "completed" \in Status  BY DEF Status
  <2> HIDE DEF n
  <2> QED  BY <1>0, <1>1, <1>3, <2>1, SendFacts
<1>8. TypeOK'  BY <1>0, <1>6, <1>7 DEF TypeOK, JobRow
<1>9. CountsInv(j)' /\ GoesOn(j)  BY <1>0, <1>3, <1>4, <1>6 DEF CountsInv, GoesOn
<1>10. \A i \in Jobs \ {j} : CountsInv(i)' /\ GoesOn(i)
  BY <1>0, <1>6, QueueAssumption DEF QueueInv, CountsInv, GoesOn, TypeOK
<1>11. \A i \in Jobs : \A r \in Reports(i)' : r \in Reports(i) \/ IsTrue(i, r)'
  <2>1. \A r : r = [status |-> "completed", attempts |-> n] => IsTrue(j, r)'
    BY <1>4, <1>6 DEF IsTrue
  <2> QED  BY <1>7, <2>1
<1>20. CronInv'  BY DEF QueueInv, CronInv
<1> QED  BY <1>8, <1>9, <1>10, <1>11, <1>20, StepKeeps

LEMMA FailKeeps ==
  ASSUME QueueInv, NEW j \in Jobs, job[j].state = "active", Fail(j),
         UNCHANGED <<mode, cron, worker, row, orderly, kills>>
  PROVE  QueueInv'
<1> DEFINE n == job[j].made + 1
<1> DEFINE s == IF n >= Attempts THEN "failed" ELSE "delayed"
<1> DEFINE new == [job[j] EXCEPT !.state = s, !.made = n]
<1> DEFINE t == IF IsDead(n) THEN "dead" ELSE "failed"
<1>0. TypeOK /\ CountsInv(j)  BY DEF QueueInv
<1>1. Send(j, t, n)  BY DEF Fail
<1>2. job[j] \in JobRow  BY <1>0 DEF TypeOK, JobRow
<1>3. n \in 0..Attempts /\ n \in Nat /\ n > 0 /\ job[j].made \in Nat /\ job[j].tries \in Nat
      /\ n = job[j].made + 1 /\ n <= job[j].tries
  BY <1>0, <1>2, QueueAssumption DEF CountsInv, JobRow
<1>4. /\ s \in JobState /\ t \in Status
      /\ \/ n = Attempts /\ s = "failed" /\ t = "dead"
         \/ n < Attempts /\ s = "delayed" /\ t = "failed"
  BY <1>3, QueueAssumption DEF IsDead, JobState, Status
<1>5. job' = [job EXCEPT ![j] = new]  BY Zenon DEF Fail
<1> HIDE DEF s, t, n
<1>6. new \in JobRow /\ new.state = s /\ new.tries = job[j].tries /\ new.made = n
  BY <1>2, <1>3, <1>4 DEF JobRow
<1> HIDE DEF new
<1>7. job' \in [Jobs -> JobRow] /\ job'[j] = new /\ \A i \in Jobs \ {j} : job'[i] = job[i]
  BY <1>0, <1>5, <1>6, JobMoves
<1>8. /\ reports' \in [Jobs -> Seq(Report)]
      /\ \A i \in Jobs : \A r \in Reports(i)' :
           r \in Reports(i) \/ (i = j /\ r = [status |-> t, attempts |-> n])
  BY <1>0, <1>1, <1>3, <1>4, SendFacts
<1>9. TypeOK'  BY <1>0, <1>7, <1>8 DEF TypeOK, JobRow
<1>10. CountsInv(j)' /\ GoesOn(j)  BY <1>0, <1>3, <1>4, <1>6, <1>7 DEF CountsInv, GoesOn
<1>11. \A i \in Jobs \ {j} : CountsInv(i)' /\ GoesOn(i)
  BY <1>0, <1>7, QueueAssumption DEF QueueInv, CountsInv, GoesOn, TypeOK
<1>12. \A i \in Jobs : \A r \in Reports(i)' : r \in Reports(i) \/ IsTrue(i, r)'
  <2>1. \A r : r = [status |-> t, attempts |-> n] => IsTrue(j, r)'
    BY <1>3, <1>4, <1>6, <1>7 DEF IsTrue
  <2> QED  BY <1>8, <2>1
<1>20. CronInv'  BY DEF QueueInv, CronInv
<1> QED  BY <1>9, <1>10, <1>11, <1>12, <1>20, StepKeeps

(* Steps that send nothing and change no counts: where a job that is not   *)
(* over is (Enqueue, Requeue, Stalled, Kill).                              *)
LEMMA QuietKeeps ==
  ASSUME QueueInv, TypeOK', CronInv', UNCHANGED <<reports, row>>,
         \A j \in Jobs :
           /\ job'[j].made = job[j].made /\ job'[j].tries = job[j].tries
           /\ \/ job'[j].state = job[j].state
              \/ /\ job[j].state \notin {"done", "failed"}
                 /\ job'[j].state \notin {"active", "done", "failed"}
  PROVE  QueueInv'
<1>1. \A j \in Jobs : CountsInv(j)' /\ GoesOn(j)
  BY QueueAssumption DEF QueueInv, CountsInv, GoesOn, TypeOK
<1>2. \A j \in Jobs : Reports(j)' = Reports(j)  BY DEF Reports
<1> QED  BY <1>1, <1>2, StepKeeps

LEMMA EnqueueKeeps ==
  ASSUME QueueInv, NEW c \in Crons, Enqueue(c)
  PROVE  QueueInv'
<1>0. TypeOK  BY DEF QueueInv
<1>1. UNCHANGED <<mode, worker, reports, row, orderly, kills>> /\ cron[c].pc = "post"
  BY DEF Enqueue, table
<1>2. PICK new \in SUBSET In({"none"}) :
        /\ \E name \in [new -> cron[c].todo] :
             job' = [j \in Jobs |->
                 IF j \in new THEN [job[j] EXCEPT !.state = "waiting", !.account = name[j]]
                 ELSE job[j]]
        /\ cron' = [cron EXCEPT ![c] = [pc |-> "report", todo |-> new]]
  BY Zenon DEF Enqueue
<1>3. PICK name \in [new -> cron[c].todo] :
        job' = [j \in Jobs |->
                 IF j \in new THEN [job[j] EXCEPT !.state = "waiting", !.account = name[j]]
                 ELSE job[j]]
  BY <1>2
<1>4. new \subseteq Jobs /\ \A j \in new : job[j].state = "none"  BY DEF In
<1>5. cron' \in [Crons -> CronState] /\ CronInv'
  BY <1>0, <1>2, <1>4 DEF TypeOK, CronState, QueueInv, CronInv
<1>6. \A j \in new : name[j] \in Accounts  BY <1>1 DEF QueueInv, CronInv
<1>7. \A j \in new :
        LET row2 == [job[j] EXCEPT !.state = "waiting", !.account = name[j]] IN
        /\ row2 \in JobRow /\ row2.state = "waiting"
        /\ row2.made = job[j].made /\ row2.tries = job[j].tries
  BY <1>0, <1>4, <1>6 DEF TypeOK, JobRow, JobState
<1>8. \A j \in Jobs :
        /\ j \in new => job'[j] = [job[j] EXCEPT !.state = "waiting", !.account = name[j]]
        /\ j \notin new => job'[j] = job[j]
  BY <1>3
<1>9. \A j \in Jobs :
        /\ job'[j] \in JobRow
        /\ job'[j].made = job[j].made /\ job'[j].tries = job[j].tries
        /\ j \in new => job[j].state = "none" /\ job'[j].state = "waiting"
        /\ j \notin new => job'[j] = job[j]
  <2> TAKE j \in Jobs
  <2>1. CASE j \in new  BY <1>4, <1>7, <1>8, <2>1
  <2>2. CASE j \notin new  BY <1>0, <1>8, <2>2 DEF TypeOK, JobRow
  <2> QED  BY <2>1, <2>2
<1>10. job' \in [Jobs -> JobRow]  BY <1>3, <1>9
<1>11. TypeOK'  BY <1>0, <1>1, <1>5, <1>10 DEF TypeOK, JobRow
<1> QED  BY <1>1, <1>5, <1>9, <1>11, QuietKeeps

LEMMA RequeueKeeps ==
  ASSUME QueueInv, NEW j \in Jobs, Requeue(j) \/ Stalled(j)
  PROVE  QueueInv'
<1> DEFINE more == job[j].stalls + 1
<1>0. TypeOK  BY DEF QueueInv
<1>1. UNCHANGED <<mode, cron, worker, reports, row, orderly, kills>>
      /\ job[j].state \in {"delayed", "stalled"}
  BY DEF Requeue, Stalled, table
<1>2. job[j] \in JobRow /\ more \in Nat  BY <1>0 DEF TypeOK, JobRow
<1>3. PICK new \in JobRow :
        /\ job' = [job EXCEPT ![j] = new]
        /\ new.state = "waiting" /\ new.tries = job[j].tries /\ new.made = job[j].made
  <2>1. CASE Requeue(j)
    <3> DEFINE new == [job[j] EXCEPT !.state = "waiting"]
    <3>1. new \in JobRow /\ new.state = "waiting" /\ new.tries = job[j].tries /\ new.made = job[j].made
      BY <1>2 DEF JobRow, JobState
    <3>2. job' = [job EXCEPT ![j] = new]  BY Zenon, <2>1 DEF Requeue
    <3> QED  BY <3>1, <3>2
  <2>2. CASE Stalled(j)
    <3> DEFINE new == [job[j] EXCEPT !.state = "waiting", !.stalls = more]
    <3>1. job' = [job EXCEPT ![j] = new]  BY Zenon, <2>2 DEF Stalled
    <3> HIDE DEF more
    <3>2. new \in JobRow /\ new.state = "waiting" /\ new.tries = job[j].tries /\ new.made = job[j].made
      BY <1>2 DEF JobRow, JobState
    <3> QED  BY <3>1, <3>2
  <2> QED  BY <2>1, <2>2
<1>4. job' \in [Jobs -> JobRow] /\ job'[j] = new /\ \A i \in Jobs \ {j} : job'[i] = job[i]
  BY <1>0, <1>3, JobMoves
<1>5. TypeOK' /\ CronInv'  BY <1>0, <1>1, <1>4 DEF TypeOK, JobRow, QueueInv, CronInv
<1> QED  BY <1>1, <1>3, <1>4, <1>5, QuietKeeps

(* A job given up has attempts left, so its report calls it failed, with   *)
(* the attempts it had.                                                    *)
LEMMA StalledOutIs ==
  ASSUME TypeOK, NEW j \in Jobs, CountsInv(j), StalledOut(j)
  PROVE  /\ job' \in [Jobs -> JobRow] /\ \A i \in Jobs \ {j} : job'[i] = job[i]
         /\ job[j].state = "stalled" /\ job'[j].state = "failed" /\ job'[j].made = job[j].made
         /\ job'[j].tries = job[j].tries /\ job'[j].made < Attempts
         /\ job[j].made \in 0..Attempts /\ Send(j, "failed", job[j].made)
<1> DEFINE more == job[j].stalls + 1
<1> DEFINE new == [job[j] EXCEPT !.state = "failed", !.stalls = more]
<1>1. job[j].state = "stalled"  BY DEF StalledOut
<1>2. job[j] \in JobRow /\ more \in Nat  BY DEF TypeOK, JobRow
<1>3. job[j].made \in 0..Attempts /\ job[j].made < Attempts
  BY <1>1, <1>2 DEF CountsInv, JobRow
<1>4. job' = [job EXCEPT ![j] = new]  BY Zenon DEF StalledOut
<1>5. ~IsDead(job[j].made)  BY <1>3, QueueAssumption DEF IsDead
<1>6. Send(j, "failed", job[j].made)  BY <1>5 DEF StalledOut
<1> HIDE DEF more
<1>7. new \in JobRow /\ new.state = "failed" /\ new.tries = job[j].tries /\ new.made = job[j].made
  BY <1>2 DEF JobRow, JobState
<1> HIDE DEF new
<1>8. job' \in [Jobs -> JobRow] /\ job'[j] = new /\ \A i \in Jobs \ {j} : job'[i] = job[i]
  BY <1>4, <1>7, JobMoves
<1> QED  BY <1>1, <1>3, <1>6, <1>7, <1>8

LEMMA StalledOutKeeps ==
  ASSUME QueueInv, NEW j \in Jobs, StalledOut(j)
  PROVE  QueueInv'
<1>0. TypeOK /\ CountsInv(j)  BY DEF QueueInv
<1>1. UNCHANGED <<mode, cron, worker, row, orderly, kills>>  BY DEF StalledOut, table
<1>2. /\ job' \in [Jobs -> JobRow] /\ \A i \in Jobs \ {j} : job'[i] = job[i]
      /\ job[j].state = "stalled" /\ job'[j].state = "failed" /\ job'[j].made = job[j].made
      /\ job'[j].tries = job[j].tries /\ job'[j].made < Attempts
      /\ job[j].made \in 0..Attempts /\ Send(j, "failed", job[j].made)
  BY <1>0, StalledOutIs
<1>3. /\ reports' \in [Jobs -> Seq(Report)]
      /\ \A i \in Jobs : \A r \in Reports(i)' :
           r \in Reports(i) \/ (i = j /\ r = [status |-> "failed", attempts |-> job[j].made])
  <2>1. "failed" \in Status  BY DEF Status
  <2> QED  BY <1>0, <1>2, <2>1, SendFacts
<1>4. TypeOK' /\ CronInv'  BY <1>0, <1>1, <1>2, <1>3 DEF TypeOK, JobRow, QueueInv, CronInv
<1>5. job[j].made \in Nat /\ job[j].tries \in Nat  BY <1>0, QueueAssumption DEF TypeOK
<1>6. CountsInv(j)' /\ GoesOn(j)  BY <1>0, <1>2, <1>5 DEF CountsInv, GoesOn
<1>7. \A i \in Jobs \ {j} : CountsInv(i)' /\ GoesOn(i)
  BY <1>0, <1>2, QueueAssumption DEF QueueInv, CountsInv, GoesOn, TypeOK
<1>8. \A i \in Jobs : \A r \in Reports(i)' : r \in Reports(i) \/ IsTrue(i, r)'
  <2>1. \A r : r = [status |-> "failed", attempts |-> job[j].made] => IsTrue(j, r)'
    BY <1>2 DEF IsTrue, GivenUp
  <2> QED  BY <1>3, <2>1
<1> QED  BY <1>1, <1>4, <1>6, <1>7, <1>8, StepKeeps

LEMMA KillKeeps == ASSUME QueueInv, Kill PROVE QueueInv'
<1>0. TypeOK  BY DEF QueueInv
<1>1. UNCHANGED <<mode, cron, reports, row, orderly>> /\ worker' = "down"
      /\ kills < MaxKills /\ kills' = kills + 1
      /\ job' = [j \in Jobs |->
           IF job[j].state = "active" THEN [job[j] EXCEPT !.state = "stalled"] ELSE job[j]]
  BY DEF Kill, table
<1>2. \A j \in Jobs :
        LET row2 == [job[j] EXCEPT !.state = "stalled"] IN
        /\ job[j] \in JobRow /\ row2 \in JobRow /\ row2.state = "stalled"
        /\ row2.made = job[j].made /\ row2.tries = job[j].tries
  BY <1>0 DEF TypeOK, JobRow, JobState
<1>3. \A j \in Jobs :
        /\ job'[j] \in JobRow
        /\ job'[j].made = job[j].made /\ job'[j].tries = job[j].tries
        /\ \/ job'[j].state = job[j].state
           \/ job[j].state = "active" /\ job'[j].state = "stalled"
  BY <1>1, <1>2
<1>4. job' \in [Jobs -> JobRow]  BY <1>1, <1>3
<1>5. kills' \in 0..MaxKills  BY <1>0, <1>1, QueueAssumption DEF TypeOK
<1>6. TypeOK' /\ CronInv'  BY <1>0, <1>1, <1>4, <1>5 DEF TypeOK, JobRow, QueueInv, CronInv
<1> QED  BY <1>1, <1>3, <1>6, QuietKeeps

(* Steps of the worker's process, and of the cron requests, that touch     *)
(* neither jobs, reports nor rows.                                         *)
LEMMA ProcessKeeps ==
  ASSUME QueueInv, UNCHANGED <<mode, cron, job, reports, row, orderly, kills>>, worker' \in {"up", "closing", "down"}
  PROVE  QueueInv'
<1>1. TypeOK' /\ CronInv'  BY DEF QueueInv, TypeOK, CronInv
<1> QED  BY <1>1, QuietKeeps

LEMMA CronKeeps ==
  ASSUME QueueInv, NEW c \in Crons, CollectSyncJobs(c) \/ RunInline(c) \/ CronFails(c)
  PROVE  QueueInv'
<1>0. TypeOK /\ CronInv  BY DEF QueueInv
<1>1. UNCHANGED <<mode, job, worker, reports, row, kills>>
  BY DEF CollectSyncJobs, RunInline, CronFails, table
<1>2. orderly' \in [Jobs -> BOOLEAN]
  <2>1. CASE CronFails(c)  BY <1>0, <2>1 DEF CronFails, TypeOK
  <2>2. CASE CollectSyncJobs(c) \/ RunInline(c)
    BY <1>0, <2>2 DEF CollectSyncJobs, RunInline, TypeOK, table
  <2> QED  BY <2>1, <2>2
<1>3. cron' \in [Crons -> CronState] /\ CronInv'
  <2>1. CASE CollectSyncJobs(c)
    <3>1. PICK S \in SUBSET Accounts :
            cron' = [cron EXCEPT ![c] = [pc |-> IF mode = "queued" THEN "post" ELSE "inline", todo |-> S]]
      BY <2>1 DEF CollectSyncJobs
    <3> QED  BY <1>0, <3>1 DEF TypeOK, CronState, CronInv
  <2>2. CASE RunInline(c)
    <3>1. PICK S \in SUBSET cron[c].todo :
            \/ cron' = [cron EXCEPT ![c] = Resting]
            \/ cron' = [cron EXCEPT ![c] = [pc |-> "inline", todo |-> S]]
      BY <2>2 DEF RunInline
    <3>2. cron[c].todo \subseteq Accounts  BY <1>0, <2>2 DEF RunInline, CronInv
    <3>3. cron[c].todo \in SUBSET (Accounts \cup Jobs)  BY <1>0 DEF TypeOK, CronState
    <3>4. \A st \in {Resting, [pc |-> "inline", todo |-> S]} :
            st \in CronState /\ (st.pc \in {"post", "inline"} => st.todo \subseteq Accounts)
      BY <3>2, <3>3 DEF Resting, CronState
    <3> QED  BY <1>0, <3>1, <3>4 DEF TypeOK, CronInv
  <2>3. CASE CronFails(c)
    BY <1>0, <2>3 DEF CronFails, TypeOK, CronState, CronInv, Resting
  <2> QED  BY <2>1, <2>2, <2>3
<1>4. TypeOK'  BY <1>0, <1>1, <1>2, <1>3 DEF TypeOK
<1> QED  BY <1>1, <1>3, <1>4, QuietKeeps

LEMMA ReportKeeps ==
  ASSUME QueueInv, NEW c \in Crons, ReportEnqueued(c)
  PROVE  QueueInv'
<1> DEFINE enqueued == [status |-> "enqueued", attempts |-> 0]
<1> DEFINE late == {j \in cron[c].todo : job[j].state # "waiting" \/ job[j].tries > 0}
<1>0. TypeOK /\ CronInv  BY DEF QueueInv
<1>1. /\ UNCHANGED <<mode, job, worker, row, kills>>
      /\ reports' = [j \in Jobs |->
           IF j \in cron[c].todo THEN Append(reports[j], enqueued) ELSE reports[j]]
      /\ orderly' = [j \in Jobs |-> orderly[j] /\ j \notin late]
      /\ cron' = [cron EXCEPT ![c] = Resting]
  BY DEF ReportEnqueued
<1>2. enqueued \in Report /\ enqueued.status = "enqueued"
  BY QueueAssumption DEF Report, Status
<1> HIDE DEF enqueued, late
<1>3. \A j \in Jobs :
        /\ Append(reports[j], enqueued) \in Seq(Report)
        /\ \A n \in 1..Len(Append(reports[j], enqueued)) :
             \/ Append(reports[j], enqueued)[n] = enqueued
             \/ \E m \in 1..Len(reports[j]) : Append(reports[j], enqueued)[n] = reports[j][m]
  <2> TAKE j \in Jobs
  <2>1. reports[j] \in Seq(Report)  BY <1>0 DEF TypeOK
  <2> QED  BY <1>2, <2>1, AppendFacts
<1>4. \A j \in Jobs : reports'[j] = reports[j] \/ reports'[j] = Append(reports[j], enqueued)  BY <1>1
<1>5. \A j \in Jobs : \A r \in Reports(j)' : r \in Reports(j) \/ r = enqueued
  BY <1>3, <1>4 DEF Reports
<1>6. reports' \in [Jobs -> Seq(Report)]  BY <1>0, <1>1, <1>3 DEF TypeOK
<1>7. cron' \in [Crons -> CronState] /\ CronInv'
  BY <1>0, <1>1 DEF TypeOK, CronState, CronInv, Resting
<1>8. orderly' \in [Jobs -> BOOLEAN]  BY <1>0, <1>1 DEF TypeOK
<1>9. TypeOK'  BY <1>0, <1>1, <1>6, <1>7, <1>8 DEF TypeOK
<1>10. \A j \in Jobs : CountsInv(j)' /\ GoesOn(j)
  BY <1>1, QueueAssumption DEF QueueInv, CountsInv, GoesOn, TypeOK
<1>11. \A j \in Jobs : IsTrue(j, enqueued)'  BY <1>2 DEF IsTrue
<1>12. \A j \in Jobs : \A r \in Reports(j)' : r \in Reports(j) \/ IsTrue(j, r)'
  BY <1>5, <1>11
<1> QED  BY <1>1, <1>7, <1>9, <1>10, <1>12, StepKeeps

(* A report arrives, or is lost: one fewer on its way.                     *)
LEMMA DeliveryKeeps ==
  ASSUME QueueInv, NEW j \in Jobs, NEW n \in 1..Len(reports[j]), Arrive(j, n) \/ Lose(j, n)
  PROVE  QueueInv'
<1>0. TypeOK  BY DEF QueueInv
<1>1. UNCHANGED <<mode, cron, job, worker, kills>>
      /\ reports' = [reports EXCEPT ![j] = RemoveAt(reports[j], n)]
  BY DEF Arrive, Lose
<1>2. reports[j] \in Seq(Report) /\ reports[j][n] \in Report  BY <1>0 DEF TypeOK
<1>3. /\ RemoveAt(reports[j], n) \in Seq(Report)
      /\ \A m \in 1..Len(RemoveAt(reports[j], n)) :
           \E k \in 1..Len(reports[j]) : RemoveAt(reports[j], n)[m] = reports[j][k]
  BY <1>2, RemoveFacts
<1>4. reports' \in [Jobs -> Seq(Report)] /\ reports'[j] = RemoveAt(reports[j], n)
      /\ \A i \in Jobs \ {j} : reports'[i] = reports[i]
  BY <1>0, <1>1, <1>3 DEF TypeOK
<1>5. \A i \in Jobs : \A r \in Reports(i)' : r \in Reports(i)
  BY <1>3, <1>4 DEF Reports
<1>6. \A i \in Jobs : row'[i] = row[i] \/ row'[i] \in Reports(i)
  BY <1>0 DEF Arrive, Lose, Reports, TypeOK
<1>7. row' \in [Jobs -> Report \cup {NoRow}] /\ orderly' \in [Jobs -> BOOLEAN]
  BY <1>0, <1>2 DEF Arrive, Lose, TypeOK
<1>8. TypeOK' /\ CronInv'  BY <1>0, <1>1, <1>4, <1>7 DEF TypeOK, QueueInv, CronInv
<1>9. \A i \in Jobs : CountsInv(i)' /\ GoesOn(i)
  BY <1>0, <1>1, QueueAssumption DEF QueueInv, CountsInv, GoesOn, TypeOK
<1> QED  BY <1>5, <1>6, <1>8, <1>9, StepKeeps

LEMMA QueueInvStep == QueueInv /\ [Next]_vars => QueueInv'
<1> SUFFICES ASSUME QueueInv, [Next]_vars PROVE QueueInv'  OBVIOUS
<1>1. CASE UNCHANGED vars \/ IdsUsedUp
  <2>1. UNCHANGED <<mode, cron, job, worker, reports, row, orderly, kills>>
    BY <1>1 DEF vars, IdsUsedUp
  <2>2. worker' \in {"up", "closing", "down"}  BY <2>1 DEF QueueInv, TypeOK
  <2> QED  BY <2>1, <2>2, ProcessKeeps
<1>2. ASSUME NEW c \in Crons, CronStep(c) \/ CronFails(c) PROVE QueueInv'
  BY <1>2, CronKeeps, EnqueueKeeps, ReportKeeps DEF CronStep
<1>3. ASSUME NEW j \in Jobs, Take(j) \/ Requeue(j) \/ Stalled(j) \/ StalledOut(j) PROVE QueueInv'
  BY <1>3, TakeKeeps, RequeueKeeps, StalledOutKeeps
<1>4. ASSUME NEW j \in Jobs, RunEnds(j) \/ TimeOut(j) PROVE QueueInv'
  BY <1>4, CompleteKeeps, FailKeeps DEF RunEnds, TimeOut, table
<1>5. CASE Close \/ Exit \/ Restart
  BY <1>5, ProcessKeeps DEF Close, Exit, Restart, table
<1>6. CASE Kill  BY <1>6, KillKeeps
<1>7. ASSUME NEW j \in Jobs, NEW n \in 1..Len(reports[j]), Arrive(j, n) \/ Lose(j, n) PROVE QueueInv'
  BY <1>7, DeliveryKeeps
<1> QED  BY <1>1, <1>2, <1>3, <1>4, <1>5, <1>6, <1>7 DEF Next

(* Queue, cron requests, reports and rows stay well formed, for any number *)
(* of jobs and attempts; no job is attempted to its end more often than    *)
(* JOB_ATTEMPTS.                                                           *)
THEOREM SyncTypeTheorem == Spec => []TypeOK
<1>1. QueueInv => TypeOK  BY DEF QueueInv
<1> QED  BY <1>1, QueueInvInit, QueueInvStep, PTL DEF Spec

(* Whatever order reports arrive in, are lost in, or overwrite one another *)
(* in, and whenever the worker is stopped or killed: what a row says of    *)
(* how a job ended, or how often it failed, is so (recordSyncJobEvent).    *)
THEOREM RowsTheorem == Spec => []RowsAreTrue
<1>1. QueueInv => RowsAreTrue  BY Zenon DEF QueueInv, IsTrue, RowsAreTrue
<1> QED  BY <1>1, QueueInvInit, QueueInvStep, PTL DEF Spec
-----------------------------------------------------------------------------
(* Where a job is, and what was last said of it: its last report sent, or  *)
(* its row when none is on its way.  As long as the reports arrive in      *)
(* order, none of them counts but that one.                                *)
Latest(j) ==
  IF reports[j] = <<>> THEN row[j].status ELSE reports[j][Len(reports[j])].status

Says(was, status) ==
  /\ was.state = "done" => status = "completed"
  /\ was.state = "failed" => status = IF was.made < Attempts THEN "failed" ELSE "dead"
  /\ was.state = "delayed" => status = "failed"
  /\ was.state \in {"active", "stalled"} => status = "active"

LatestInv == \A j \in Jobs : orderly[j] => Says(job[j], Latest(j))

LEMMA LastOfAppend ==
  ASSUME NEW R, NEW q \in Seq(R), NEW r \in R
  PROVE  Append(q, r) # <<>> /\ Append(q, r)[Len(Append(q, r))] = r
OBVIOUS

(* Without the oldest, the newest is what it was, or there is none.        *)
LEMMA LastOfRest ==
  ASSUME NEW R, NEW q \in Seq(R), 1 \in 1..Len(q)
  PROVE  \/ Len(q) = 1 /\ RemoveAt(q, 1) = <<>>
         \/ /\ Len(q) > 1 /\ RemoveAt(q, 1) # <<>>
            /\ RemoveAt(q, 1)[Len(RemoveAt(q, 1))] = q[Len(q)]
<1>1. RemoveAt(q, 1) = SubSeq(q, 1, 0) \o SubSeq(q, 2, Len(q))  BY DEF RemoveAt
<1>2. SubSeq(q, 1, 0) = <<>>  OBVIOUS
<1>3. Len(q) \in Nat /\ Len(q) >= 1  OBVIOUS
<1> DEFINE b == SubSeq(q, 2, Len(q))
<1>4. b \in Seq(R) /\ Len(b) = Len(q) - 1 /\ \A m \in 1..(Len(q) - 1) : b[m] = q[1 + m]
  <2>1. PICK n \in 1..Len(q) : n = 1  OBVIOUS
  <2>2. SubSeq(q, n + 1, Len(q)) \in Seq(R) /\ Len(SubSeq(q, n + 1, Len(q))) = Len(q) - n
        /\ \A m \in 1..(Len(q) - n) : SubSeq(q, n + 1, Len(q))[m] = q[n + m]
    OBVIOUS
  <2>3. n + 1 = 2  BY <2>1
  <2> QED  BY <2>1, <2>2, <2>3
<1> HIDE DEF b
<1>5. RemoveAt(q, 1) = b  BY <1>1, <1>2, <1>4 DEF b
<1>6. CASE Len(q) = 1  BY <1>4, <1>5, <1>6
<1>7. CASE Len(q) > 1
  <2>1. Len(b) \in 1..(Len(q) - 1) /\ b # <<>>  BY <1>3, <1>4, <1>7
  <2>2. b[Len(b)] = q[1 + Len(b)] /\ 1 + Len(b) = Len(q)  BY <1>3, <1>4, <2>1
  <2>3. b[Len(b)] = q[Len(q)]  BY <2>2
  <2> QED  BY <1>5, <1>7, <2>1, <2>3
<1>8. Len(q) = 1 \/ Len(q) > 1
  <2>1. \A n \in Nat : n >= 1 => n = 1 \/ n > 1  OBVIOUS
  <2> QED  BY Zenon, <1>3, <2>1
<1> QED  BY Zenon, <1>6, <1>7, <1>8

(* A job about which nothing is said, and which stays where it is or goes  *)
(* where nothing need be said.                                             *)
LEMMA SaysAsBefore ==
  ASSUME LatestInv, NEW j \in Jobs, orderly'[j] => orderly[j], Latest(j)' = Latest(j),
         \/ job'[j].state = job[j].state /\ job'[j].made = job[j].made
         \/ job'[j].state = "waiting"
         \/ job[j].state = "active" /\ job'[j].state = "stalled"
  PROVE  orderly'[j] => Says(job'[j], Latest(j)')
BY DEF LatestInv, Says

LEMMA SendIsLatest ==
  ASSUME TypeOK, NEW j \in Jobs, NEW s \in Status, NEW n \in 0..Attempts, Send(j, s, n),
         UNCHANGED row
  PROVE  /\ Latest(j)' = s
         /\ \A i \in Jobs \ {j} : Latest(i)' = Latest(i)
<1> DEFINE new == [status |-> s, attempts |-> n]
<1>1. new \in Report /\ new.status = s  BY DEF Report
<1>2. reports \in [Jobs -> Seq(Report)]  BY DEF TypeOK
<1>3. reports' = [reports EXCEPT ![j] = Append(reports[j], new)]  BY DEF Send
<1> HIDE DEF new
<1>4. reports'[j] = Append(reports[j], new) /\ \A i \in Jobs \ {j} : reports'[i] = reports[i]
  BY <1>2, <1>3
<1>5. reports'[j] # <<>> /\ reports'[j][Len(reports'[j])] = new
  BY <1>1, <1>2, <1>4, LastOfAppend
<1> QED  BY <1>1, <1>4, <1>5 DEF Latest

(* The job's place in the queue and the word about it change together.     *)
LEMMA SendKeepsLatest ==
  ASSUME TypeOK, LatestInv, NEW j \in Jobs, NEW s \in Status, NEW n \in 0..Attempts,
         Send(j, s, n), UNCHANGED <<row, orderly>>,
         Says(job'[j], s), \A i \in Jobs \ {j} : job'[i] = job[i]
  PROVE  LatestInv'
<1>1. Latest(j)' = s /\ \A i \in Jobs \ {j} : Latest(i)' = Latest(i)  BY SendIsLatest
<1>2. ASSUME NEW i \in Jobs PROVE orderly'[i] => Says(job'[i], Latest(i)')
  <2>1. CASE i = j  BY <1>1, <2>1
  <2>2. CASE i # j  BY <1>1, <2>2, SaysAsBefore
  <2> QED  BY <2>1, <2>2
<1> QED  BY <1>2 DEF LatestInv

LEMMA WorkerKeepsLatest ==
  ASSUME QueueInv, LatestInv, NEW j \in Jobs,
         Take(j) \/ RunEnds(j) \/ TimeOut(j) \/ StalledOut(j)
  PROVE  LatestInv'
<1>0. TypeOK /\ CountsInv(j)  BY DEF QueueInv
<1>1. job \in [Jobs -> JobRow] /\ job[j].made \in 0..Attempts /\ job[j].made \in Nat
  BY <1>0, QueueAssumption DEF TypeOK, JobRow
<1>2. UNCHANGED <<row, orderly>>  BY DEF Take, RunEnds, TimeOut, StalledOut, table
<1>3. CASE Take(j)
  <2>1. job'[j].state = "active" /\ \A i \in Jobs \ {j} : job'[i] = job[i]
    BY <1>1, <1>3 DEF Take, JobRow
  <2>2. Send(j, "active", job[j].made) /\ "active" \in Status  BY <1>3 DEF Take, Status
  <2>3. Says(job'[j], "active")  BY <2>1 DEF Says
  <2> QED  BY <1>0, <1>1, <1>2, <2>1, <2>2, <2>3, SendKeepsLatest
<1>4. CASE job[j].state = "active" /\ (Complete(j) \/ Fail(j))
  <2> DEFINE n == job[j].made + 1
  <2>1. n \in 0..Attempts  BY <1>0, <1>1, <1>4, QueueAssumption DEF CountsInv
  <2>2. CASE Complete(j)
    <3>1. job'[j].state = "done" /\ \A i \in Jobs \ {j} : job'[i] = job[i]
      BY <1>1, <2>2 DEF Complete, JobRow
    <3>2. Send(j, "completed", n) /\ "completed" \in Status  BY <2>2 DEF Complete, Status
    <3>3. Says(job'[j], "completed")  BY <3>1 DEF Says
    <3> HIDE DEF n
    <3> QED  BY <1>0, <1>2, <2>1, <3>1, <3>2, <3>3, SendKeepsLatest
  <2>3. CASE Fail(j)
    <3> DEFINE t == IF IsDead(n) THEN "dead" ELSE "failed"
    <3>1. /\ job'[j].state = IF n >= Attempts THEN "failed" ELSE "delayed"
          /\ job'[j].made = n /\ \A i \in Jobs \ {j} : job'[i] = job[i]
      BY <1>1, <2>3 DEF Fail, JobRow
    <3>2. Send(j, t, n) /\ t \in Status  BY <2>3 DEF Fail, Status
    <3>3. Says(job'[j], t)  BY <1>1, <3>1, QueueAssumption DEF Says, IsDead
    <3> HIDE DEF n, t
    <3> QED  BY <1>0, <1>2, <2>1, <3>1, <3>2, <3>3, SendKeepsLatest
  <2> QED  BY <1>4, <2>2, <2>3
<1>5. CASE StalledOut(j)
  <2>1. /\ \A i \in Jobs \ {j} : job'[i] = job[i]
        /\ job'[j].state = "failed" /\ job'[j].made < Attempts /\ Send(j, "failed", job[j].made)
    BY <1>0, <1>5, StalledOutIs
  <2>2. Says(job'[j], "failed") /\ "failed" \in Status  BY <2>1 DEF Says, Status
  <2> QED  BY <1>0, <1>1, <1>2, <2>1, <2>2, SendKeepsLatest
<1> QED  BY <1>3, <1>4, <1>5 DEF RunEnds, TimeOut

LEMMA QueueKeepsLatest ==
  ASSUME QueueInv, LatestInv, UNCHANGED <<reports, row, orderly>>,
         \A j \in Jobs :
           \/ job'[j].state = job[j].state /\ job'[j].made = job[j].made
           \/ job'[j].state = "waiting"
           \/ job[j].state = "active" /\ job'[j].state = "stalled"
  PROVE  LatestInv'
<1>1. \A j \in Jobs : Latest(j)' = Latest(j)  BY DEF Latest
<1>2. \A j \in Jobs : orderly'[j] => Says(job'[j], Latest(j)')  BY <1>1, SaysAsBefore
<1> QED  BY <1>2 DEF LatestInv

(* The report of the enqueueing is the last sent of a job that waits, or   *)
(* the job's reports are not in order any more.                            *)
LEMMA ReportKeepsLatest ==
  ASSUME QueueInv, LatestInv, NEW c \in Crons, ReportEnqueued(c)
  PROVE  LatestInv'
<1> DEFINE new == cron[c].todo
<1>1. /\ \A j \in Jobs \ new : reports'[j] = reports[j] /\ orderly'[j] = orderly[j]
      /\ \A j \in new \cap Jobs : orderly'[j] => job[j].state = "waiting"
      /\ UNCHANGED <<job, row>>
  BY DEF ReportEnqueued, QueueInv, TypeOK
<1> HIDE DEF new
<1>2. ASSUME NEW j \in Jobs PROVE orderly'[j] => Says(job'[j], Latest(j)')
  <2>1. CASE j \in new  BY <1>1, <2>1 DEF Says
  <2>2. CASE j \notin new
    <3>1. Latest(j)' = Latest(j)  BY <1>1, <2>2 DEF Latest
    <3> QED  BY <1>1, <2>2, <3>1, SaysAsBefore
  <2> QED  BY <2>1, <2>2
<1> QED  BY <1>2 DEF LatestInv

(* What arrives in its turn leaves the last word what it was: the row has  *)
(* it now, or it is still on its way.                                      *)
LEMMA DeliveryKeepsLatest ==
  ASSUME QueueInv, LatestInv, NEW j \in Jobs, NEW n \in 1..Len(reports[j]),
         Arrive(j, n) \/ Lose(j, n)
  PROVE  LatestInv'
<1>0. TypeOK  BY DEF QueueInv
<1>1. UNCHANGED job /\ reports' = [reports EXCEPT ![j] = RemoveAt(reports[j], n)]
  BY DEF Arrive, Lose
<1>2. /\ reports[j] \in Seq(Report) /\ reports'[j] = RemoveAt(reports[j], n)
      /\ \A i \in Jobs \ {j} :
           reports'[i] = reports[i] /\ row'[i] = row[i] /\ orderly'[i] = orderly[i]
  BY <1>0, <1>1 DEF TypeOK, Arrive, Lose
<1>3. orderly'[j] => /\ orderly[j] /\ n = 1
                     /\ row'[j] = reports[j][n]
  BY <1>0 DEF TypeOK, Arrive, Lose
<1>4. ASSUME NEW i \in Jobs PROVE orderly'[i] => Says(job'[i], Latest(i)')
  <2>1. CASE i = j /\ orderly'[j]
    <3>1. \/ Len(reports[j]) = 1 /\ reports'[j] = <<>>
          \/ /\ Len(reports[j]) > 1 /\ reports'[j] # <<>>
             /\ reports'[j][Len(reports'[j])] = reports[j][Len(reports[j])]
      <4>1. 1 \in 1..Len(reports[j])  BY <1>3, <2>1
      <4> QED  BY <1>2, <1>3, <2>1, <4>1, LastOfRest
    <3>2. reports[j] # <<>>  BY <1>2
    <3>3. Latest(j)' = Latest(j)  BY <1>3, <2>1, <3>1, <3>2 DEF Latest
    <3> QED  BY <1>1, <1>3, <2>1, <3>3, SaysAsBefore
  <2>2. CASE i # j
    <3>1. Latest(i)' = Latest(i)  BY <1>2, <2>2 DEF Latest
    <3> QED  BY <1>1, <1>2, <2>2, <3>1, SaysAsBefore
  <2> QED  BY <2>1, <2>2
<1> QED  BY <1>4 DEF LatestInv

LEMMA LatestInvStep == QueueInv /\ LatestInv /\ [Next]_vars => LatestInv'
<1> SUFFICES ASSUME QueueInv, LatestInv, [Next]_vars PROVE LatestInv'  OBVIOUS
<1>0. job \in [Jobs -> JobRow] /\ orderly \in [Jobs -> BOOLEAN]
  BY DEF QueueInv, TypeOK, JobRow
<1>1. CASE UNCHANGED vars \/ IdsUsedUp
  BY <1>1, QueueKeepsLatest DEF vars, IdsUsedUp
<1>2. ASSUME NEW c \in Crons, CronStep(c) PROVE LatestInv'
  <2>1. CASE CollectSyncJobs(c) \/ RunInline(c)
    BY <2>1, QueueKeepsLatest DEF CollectSyncJobs, RunInline, table
  <2>2. CASE Enqueue(c)
    <3>1. UNCHANGED <<reports, row, orderly>>  BY <2>2 DEF Enqueue, table
    <3>2. PICK new \in SUBSET In({"none"}) :
            \E name \in [new -> cron[c].todo] :
              job' = [j \in Jobs |->
                 IF j \in new THEN [job[j] EXCEPT !.state = "waiting", !.account = name[j]]
                 ELSE job[j]]
      BY Zenon, <2>2 DEF Enqueue
    <3>3. PICK name : job' = [j \in Jobs |->
                 IF j \in new THEN [job[j] EXCEPT !.state = "waiting", !.account = name[j]]
                 ELSE job[j]]
      BY <3>2
    <3>4. \A j \in Jobs :
            [job[j] EXCEPT !.state = "waiting", !.account = name[j]].state = "waiting"
      BY <1>0 DEF JobRow
    <3>5. \A j \in Jobs : job'[j].state = "waiting" \/ job'[j] = job[j]
      BY <3>3, <3>4
    <3> QED  BY <3>1, <3>5, QueueKeepsLatest
  <2>3. CASE ReportEnqueued(c)  BY <2>3, ReportKeepsLatest
  <2> QED  BY <1>2, <2>1, <2>2, <2>3 DEF CronStep
<1>3. ASSUME NEW c \in Crons, CronFails(c) PROVE LatestInv'
  <2>1. /\ UNCHANGED <<job, reports, row>>
        /\ \A j \in Jobs : orderly'[j] => orderly[j]
    BY <1>3 DEF CronFails
  <2>2. \A j \in Jobs : Latest(j)' = Latest(j)  BY <2>1 DEF Latest
  <2> QED  BY <2>1, <2>2 DEF LatestInv
<1>4. ASSUME NEW j \in Jobs, Take(j) \/ RunEnds(j) \/ TimeOut(j) \/ StalledOut(j) PROVE LatestInv'
  BY <1>4, WorkerKeepsLatest
<1>5. ASSUME NEW j \in Jobs, Requeue(j) \/ Stalled(j) PROVE LatestInv'
  <2>1. UNCHANGED <<reports, row, orderly>>  BY <1>5 DEF Requeue, Stalled, table
  <2>2. \A i \in Jobs : job'[i].state = "waiting" \/ job'[i] = job[i]
    BY <1>0, <1>5 DEF Requeue, Stalled, JobRow
  <2> QED  BY <2>1, <2>2, QueueKeepsLatest
<1>6. CASE Close \/ Exit \/ Restart
  BY <1>6, QueueKeepsLatest DEF Close, Exit, Restart, table
<1>7. CASE Kill
  <2>1. UNCHANGED <<reports, row, orderly>>  BY <1>7 DEF Kill, table
  <2>2. \A j \in Jobs :
          \/ job'[j] = job[j]
          \/ job[j].state = "active" /\ job'[j].state = "stalled"
    BY <1>0, <1>7 DEF Kill, JobRow
  <2> QED  BY <2>1, <2>2, QueueKeepsLatest
<1>8. ASSUME NEW j \in Jobs, NEW n \in 1..Len(reports[j]), Arrive(j, n) \/ Lose(j, n)
      PROVE  LatestInv'
  BY <1>8, DeliveryKeepsLatest
<1> QED  BY <1>1, <1>2, <1>3, <1>4, <1>5, <1>6, <1>7, <1>8 DEF Next

(* Once the reports of a job have all arrived in the order they were sent, *)
(* the row says where the job is, however often it was tried, failed or    *)
(* was requeued; but a job given up because it stalled too often reads     *)
(* "failed", not "dead" (startWorker, recordSyncJobEvent).                 *)
THEOREM CatchesUpTheorem == Spec => []RowCatchesUp
<1>1. Init => LatestInv  BY DEF Init, LatestInv, Says
<1>2. LatestInv => RowCatchesUp
  <2> SUFFICES ASSUME LatestInv, NEW j \in Jobs, orderly[j], reports[j] = <<>>
               PROVE  CASE job[j].state = "done" -> row[j].status = "completed"
                        [] job[j].state = "failed" -> row[j].status = IF GivenUp(j) THEN "failed" ELSE "dead"
                        [] job[j].state = "delayed" -> row[j].status = "failed"
                        [] job[j].state \in {"active", "stalled"} -> row[j].status = "active"
                        [] OTHER -> TRUE
    BY DEF RowCatchesUp
  <2>1. Says(job[j], row[j].status)  BY DEF LatestInv, Latest
  <2> QED  BY <2>1 DEF Says, GivenUp
<1> QED  BY <1>1, <1>2, QueueInvInit, QueueInvStep, LatestInvStep, PTL DEF Spec
=============================================================================
