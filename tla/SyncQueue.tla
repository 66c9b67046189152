------------------------------ MODULE SyncQueue ------------------------------
(***************************************************************************)
(* How a run of the agent is started and its outcome recorded: the         *)
(* fetch-emails cron, the intake server and the queue worker (server/), the *)
(* endpoint that runs a job, and sync_jobs, the table in which the reports  *)
(* of the two servers are kept.  Reports are HTTP requests nobody waits     *)
(* for: they overtake one another and get lost.                             *)
(***************************************************************************)
EXTENDS Integers, FiniteSets, SequencesExt

CONSTANTS
  Jobs,         \* ids BullMQ gives to jobs
  Crons,        \* cron requests that can be in progress at once
  Accounts,
  NoAccount,
  Attempts,     \* JOB_ATTEMPTS
  Concurrency,  \* WORKER_CONCURRENCY
  MaxKills,     \* bound: times the worker is killed
  Faults        \* what may go wrong

(***************************************************************************)
(* Faults: "throw"   an await of the cron or the intake server throws;     *)
(*         "fail"    the job's endpoint does not answer with 200;          *)
(*         "timeout" the worker stops waiting before the run has ended;    *)
(*         "lost"    a report does not arrive;                             *)
(*         "stop"    the worker's container is stopped and replaced.       *)
(***************************************************************************)
ASSUME QueueAssumption ==
  /\ NoAccount \notin Accounts
  /\ Attempts \in Nat \ {0} /\ Concurrency \in Nat \ {0} /\ MaxKills \in Nat
  /\ Faults \subseteq {"throw", "fail", "timeout", "lost", "stop"}

VARIABLES
  mode,      \* isQueueEnabled
  cron,      \* the cron requests under way
  job,       \* the queue in Redis
  worker,    \* the worker process
  reports,   \* of each job, the reports sent and not arrived, oldest first
  row,       \* sync_jobs
  orderly,   \* jobs whose reports have all arrived, in the order they went
  kills      \* times the worker was killed

vars == <<mode, cron, job, worker, reports, row, orderly, kills>>
table == <<row, orderly>>

Status == {"enqueued", "active", "completed", "failed", "dead"}
Report == [status : Status, attempts : 0..Attempts]
NoRow == [status |-> "none", attempts |-> 0]
JobState == {"none", "waiting", "active", "stalled", "delayed", "done", "failed"}
CronState == [pc : {"idle", "post", "report", "inline"}, todo : SUBSET (Accounts \cup Jobs)]
Resting == [pc |-> "idle", todo |-> {}]

TypeOK ==
  /\ mode \in {"queued", "inline"}
  /\ cron \in [Crons -> CronState]
  /\ job \in [Jobs -> [state : JobState, account : Accounts \cup {NoAccount},
                       made : 0..Attempts, tries : Nat, stalls : Nat]]
  /\ worker \in {"up", "closing", "down"}
  /\ reports \in [Jobs -> Seq(Report)]
  /\ row \in [Jobs -> Report \cup {NoRow}]
  /\ orderly \in [Jobs -> BOOLEAN]
  /\ kills \in 0..MaxKills

Init ==
  /\ mode \in {"queued", "inline"}
  /\ cron = [c \in Crons |-> Resting]
  /\ job = [j \in Jobs |-> [state |-> "none", account |-> NoAccount, made |-> 0,
                          tries |-> 0, stalls |-> 0]]
  /\ worker = "up"
  /\ reports = [j \in Jobs |-> <<>>]
  /\ row = [j \in Jobs |-> NoRow]
  /\ orderly = [j \in Jobs |-> TRUE]
  /\ kills = 0

-----------------------------------------------------------------------------
In(S) == {j \in Jobs : job[j].state \in S}

(* reportJobStatus sends and forgets.                                      *)
Send(j, s, n) == reports' = [reports EXCEPT ![j] = Append(@, [status |-> s, attempts |-> n])]

-----------------------------------------------------------------------------
(* The cron and the intake server.                                         *)

(* collectSyncJobs: the accounts that are active now.  Bound: while there  *)
(* are ids left for jobs.                                                  *)
CollectSyncJobs(c) ==
  /\ cron[c].pc = "idle"
  /\ \E S \in SUBSET Accounts \ {{}} :
       /\ Cardinality(S) <= Cardinality(In({"none"}))
       /\ cron' = [cron EXCEPT ![c] = [pc |-> IF mode = "queued" THEN "post" ELSE "inline", todo |-> S]]
  /\ UNCHANGED <<mode, job, worker, reports, table, kills>>

(* addBulk: all of the jobs or none.                                       *)
Enqueue(c) ==
  /\ cron[c].pc = "post"
  /\ \E new \in SUBSET In({"none"}) :
       /\ Cardinality(new) = Cardinality(cron[c].todo)
       /\ \E name \in [new -> cron[c].todo] :
            /\ \A i, j \in new : name[i] = name[j] => i = j
            /\ job' = [j \in Jobs |->
                 IF j \in new THEN [job[j] EXCEPT !.state = "waiting", !.account = name[j]]
                 ELSE job[j]]
       /\ cron' = [cron EXCEPT ![c] = [pc |-> "report", todo |-> new]]
  /\ UNCHANGED <<mode, worker, reports, table, kills>>

(* The jobs are reported as enqueued, which the worker may have taken by   *)
(* now.                                                                    *)
ReportEnqueued(c) ==
  LET new == cron[c].todo
      late == {j \in new : job[j].state # "waiting" \/ job[j].tries > 0} IN
  /\ cron[c].pc = "report"
  /\ reports' = [j \in Jobs |->
       IF j \in new THEN Append(reports[j], [status |-> "enqueued", attempts |-> 0]) ELSE reports[j]]
  /\ orderly' = [j \in Jobs |-> orderly[j] /\ j \notin late]
  /\ cron' = [cron EXCEPT ![c] = Resting]
  /\ UNCHANGED <<mode, job, worker, row, kills>>

(* runJobsInline, one account after the other.                             *)
RunInline(c) ==
  /\ cron[c].pc = "inline"
  /\ \E a \in cron[c].todo :
       LET rest == cron[c].todo \ {a} IN
       cron' = [cron EXCEPT ![c] = IF rest = {} THEN Resting ELSE [pc |-> "inline", todo |-> rest]]
  /\ UNCHANGED <<mode, job, worker, reports, table, kills>>

(* Redis or the intake server fails, a run throws, or the function is      *)
(* killed: what is left of the list is dropped.                            *)
CronFails(c) ==
  /\ "throw" \in Faults
  /\ cron[c].pc # "idle"
  /\ cron' = [cron EXCEPT ![c] = Resting]
  /\ orderly' = [j \in Jobs |-> orderly[j] /\ j \notin cron[c].todo]
  /\ UNCHANGED <<mode, job, worker, reports, row, kills>>

-----------------------------------------------------------------------------
(* The worker.                                                             *)

\* Mutation: attemptsMade is taken before BullMQ has counted the attempt.
DeadEarly(n) == n + 1 >= Attempts

\* Mutation: the last attempt is not told from the ones before it.
DeadNever(n) == n > Attempts

IsDead(n) == n >= Attempts

(* The job is taken and "active" is reported.                              *)
Take(j) ==
  /\ worker = "up"
  /\ job[j].state = "waiting"
  /\ Cardinality(In({"active"})) < Concurrency
  /\ job' = [job EXCEPT ![j].state = "active", ![j].tries = @ + 1]
  /\ Send(j, "active", job[j].made)
  /\ UNCHANGED <<mode, cron, worker, table, kills>>

Complete(j) ==
  /\ job' = [job EXCEPT ![j].state = "done", ![j].made = @ + 1]
  /\ Send(j, "completed", job[j].made + 1)

\* Mutation: the job is added without a limit of attempts.
FailAgain(j) ==
  LET n == job[j].made + 1 IN
  /\ job' = [job EXCEPT ![j].state = "delayed", ![j].made = n]
  /\ Send(j, IF IsDead(n) THEN "dead" ELSE "failed", n)

(* The "failed" event.  BullMQ has counted the attempt, and will try again *)
(* after a while if there is one left.                                     *)
Fail(j) ==
  LET n == job[j].made + 1 IN
  /\ job' = [job EXCEPT ![j].state = IF n >= Attempts THEN "failed" ELSE "delayed", ![j].made = n]
  /\ Send(j, IF IsDead(n) THEN "dead" ELSE "failed", n)

(* The endpoint answers: with 200 for any run whose summary it has, one    *)
(* that ended in an error included.                                        *)
RunEnds(j) ==
  /\ job[j].state = "active"
  /\ Complete(j) \/ ("fail" \in Faults /\ Fail(j))
  /\ UNCHANGED <<mode, cron, worker, table, kills>>

(* The worker stops waiting; the run in the web app may go on.             *)
TimeOut(j) ==
  /\ "timeout" \in Faults
  /\ job[j].state = "active"
  /\ Fail(j)
  /\ UNCHANGED <<mode, cron, worker, table, kills>>

(* BullMQ: the backoff is over.                                            *)
Requeue(j) ==
  /\ job[j].state = "delayed"
  /\ job' = [job EXCEPT ![j].state = "waiting"]
  /\ UNCHANGED <<mode, cron, worker, reports, table, kills>>

(* BullMQ's default: a job may stall once.                                 *)
MaxStalledCount == 1

(* BullMQ's checker, in a worker that is up, finds a job whose worker is   *)
(* gone.  It waits for its turn again, without an attempt being counted.   *)
Stalled(j) ==
  /\ worker = "up"
  /\ job[j].state = "stalled" /\ job[j].stalls < MaxStalledCount
  /\ job' = [job EXCEPT ![j].state = "waiting", ![j].stalls = @ + 1]
  /\ UNCHANGED <<mode, cron, worker, reports, table, kills>>

(* One that has stalled too often is over, again without an attempt being  *)
(* counted: the "failed" event finds attempts left, and says so.           *)
StalledOut(j) ==
  /\ worker = "up"
  /\ job[j].state = "stalled" /\ job[j].stalls >= MaxStalledCount
  /\ job' = [job EXCEPT ![j].state = "failed", ![j].stalls = @ + 1]
  /\ Send(j, IF IsDead(job[j].made) THEN "dead" ELSE "failed", job[j].made)
  /\ UNCHANGED <<mode, cron, worker, table, kills>>

(* registerShutdown: no new job is taken, and the process exits when the   *)
(* last one has ended.                                                     *)
Close ==
  /\ "stop" \in Faults /\ worker = "up"
  /\ worker' = "closing"
  /\ UNCHANGED <<mode, cron, job, reports, table, kills>>

\* Mutation: the queue is drained before the process exits.
ExitWhenDrained ==
  /\ worker = "closing" /\ In({"waiting", "active", "stalled", "delayed"}) = {}
  /\ worker' = "down"
  /\ UNCHANGED <<mode, cron, job, reports, table, kills>>

Exit ==
  /\ worker = "closing" /\ In({"active"}) = {}
  /\ worker' = "down"
  /\ UNCHANGED <<mode, cron, job, reports, table, kills>>

(* Bound: MaxKills.  Two of them stall a job for good.                     *)
Kill ==
  /\ worker # "down" /\ kills < MaxKills
  /\ worker' = "down"
  /\ kills' = kills + 1
  /\ job' = [j \in Jobs |->
       IF job[j].state = "active" THEN [job[j] EXCEPT !.state = "stalled"] ELSE job[j]]
  /\ UNCHANGED <<mode, cron, reports, table>>

Restart ==
  /\ worker = "down"
  /\ worker' = "up"
  /\ UNCHANGED <<mode, cron, job, reports, table, kills>>

-----------------------------------------------------------------------------
(* The reports.                                                            *)

(* recordSyncJobEvent, the last to arrive overwriting the row.             *)
Arrive(j, n) ==
  /\ n \in 1..Len(reports[j])
  /\ row' = [row EXCEPT ![j] = reports[j][n]]
  /\ orderly' = [orderly EXCEPT ![j] = @ /\ n = 1]
  /\ reports' = [reports EXCEPT ![j] = RemoveAt(@, n)]
  /\ UNCHANGED <<mode, cron, job, worker, kills>>

(* Refused, failed, timed out, or the process that sent it is gone.        *)
Lose(j, n) ==
  /\ "lost" \in Faults
  /\ n \in 1..Len(reports[j])
  /\ orderly' = [orderly EXCEPT ![j] = FALSE]
  /\ reports' = [reports EXCEPT ![j] = RemoveAt(@, n)]
  /\ UNCHANGED <<mode, cron, job, worker, row, kills>>

-----------------------------------------------------------------------------
CronStep(c) ==
  CollectSyncJobs(c) \/ Enqueue(c) \/ ReportEnqueued(c) \/ RunInline(c)

(* Bound: no id is left for another job.                                   *)
IdsUsedUp == In({"none"}) = {} /\ UNCHANGED vars

Next ==
  \/ IdsUsedUp
  \/ \E c \in Crons : CronStep(c) \/ CronFails(c)
  \/ \E j \in Jobs : Take(j) \/ RunEnds(j) \/ TimeOut(j) \/ Requeue(j)
  \/ \E j \in Jobs : Stalled(j) \/ StalledOut(j)
  \/ Close \/ Exit \/ Kill \/ Restart
  \/ \E j \in Jobs : \E n \in 1..Len(reports[j]) : Arrive(j, n) \/ Lose(j, n)

Spec == Init /\ [][Next]_vars

(* BullMQ hands jobs out in turn and looks for stalled ones again and      *)
(* again, the container is started again, and a run ends, of itself or by  *)
(* its time limit.                                                         *)
FairSpec ==
  /\ Spec
  /\ WF_vars(Exit) /\ WF_vars(Restart)
  /\ \A j \in Jobs : SF_vars(Take(j)) /\ WF_vars(RunEnds(j)) /\ WF_vars(Requeue(j))
  /\ \A j \in Jobs : SF_vars(Stalled(j)) /\ SF_vars(StalledOut(j))
  /\ \A j \in Jobs : WF_vars(Arrive(j, 1))

-----------------------------------------------------------------------------
(* Properties.                                                             *)

(* A job that is over with attempts left: it stalled too often.            *)
GivenUp(j) == job[j].state = "failed" /\ job[j].made < Attempts

(* Whatever order the reports arrive in, a row that calls a job completed, *)
(* dead or failed is right about it: the job has ended that way, or has    *)
(* failed as often as the row says, or is one that stalled too often and   *)
(* is over with the attempts the row has (recordSyncJobEvent, startWorker).*)
RowsAreTrue ==
  \A j \in Jobs :
    /\ row[j].status = "completed" => job[j].state = "done" /\ row[j].attempts = job[j].made
    /\ row[j].status = "dead" => job[j].state = "failed" /\ row[j].attempts = Attempts
    /\ row[j].status = "failed" =>
         /\ row[j].attempts < Attempts
         /\ row[j].attempts \in 1..job[j].made \/ (GivenUp(j) /\ row[j].attempts = job[j].made)
    /\ row[j].status = "active" => job[j].tries > row[j].attempts

(* Once the reports of a job have all arrived, in order, its row says      *)
(* where the job is, but for one that stalled too often: its row calls it  *)
(* failed, as that of a job which will be tried again.  The report of the  *)
(* enqueueing itself is one of those that may be late (enqueueSyncJobs).   *)
RowCatchesUp ==
  \A j \in Jobs :
    orderly[j] /\ reports[j] = <<>> =>
      CASE job[j].state = "done" -> row[j].status = "completed"
        [] job[j].state = "failed" -> row[j].status = IF GivenUp(j) THEN "failed" ELSE "dead"
        [] job[j].state = "delayed" -> row[j].status = "failed"
        [] job[j].state \in {"active", "stalled"} -> row[j].status = "active"
        [] OTHER -> TRUE

(* A job that reached the queue is completed or failed for good in the     *)
(* end, whatever fails, is stopped or killed on the way.                   *)
EveryJobEnds ==
  \A j \in Jobs : job[j].state = "waiting" ~> job[j].state \in {"done", "failed"}
=============================================================================
