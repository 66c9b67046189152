----------------------------- MODULE EmailTriage -----------------------------
(***************************************************************************)
(* The agent run on one Gmail account: run-agent.ts, collect-emails.ts and *)
(* triage.ts under web/features/agent, with the rows of processed_emails   *)
(* (web/db/queries/processed-emails.ts).  Nothing keeps one job of an      *)
(* account from starting while another is under way, so runs overlap and   *)
(* every await is a point where the other run may step in.                 *)
(***************************************************************************)
EXTENDS Integers, FiniteSets

CONSTANTS
  Emails,         \* messages that may arrive in the inbox
  NoEmail,
  Runs,           \* runs of the account that can be in progress at once
  Tools,          \* what the model may choose for an email
  MaxCalls,       \* bound: tool calls the model makes in its one turn, which
                  \* run side by side; only the prompt asks for one
  MaxResults,     \* GMAIL_MAX_RESULTS
  DefaultWindow,  \* DEFAULT_WINDOW_SECONDS, in ticks of the clock
  MaxTime,        \* bound: the last tick of the clock
  MaxSnoozes,     \* bound: times one email is snoozed
  Faults          \* what may go wrong

(***************************************************************************)
(* Faults: "throw"   an await that the run does not guard throws;          *)
(*         "refetch" fetchEmailById fails for a snoozed message;           *)
(*         "tool"    what a tool does fails;                               *)
(*         "outage"  the summary, or its Signal message, fails;            *)
(*         "write"   a write that is only logged when it fails fails: that *)
(*                   of recordHandled, or that of the run's timestamp;     *)
(*         "abort"   the function is killed before its finally block ends. *)
(***************************************************************************)
ASSUME TriageAssumption ==
  /\ NoEmail \notin Emails
  /\ Tools \subseteq {"ignore", "summary", "archive", "snooze", "draft"}
  /\ {MaxCalls, MaxResults, DefaultWindow, MaxTime} \subseteq Nat \ {0}
  /\ MaxSnoozes \in Nat
  /\ Faults \subseteq {"throw", "refetch", "tool", "outage", "write", "abort"}

VARIABLES
  clock,    \* the time
  arrived,  \* when each email came in, NotYet before that
  entry,    \* processed_emails.status, "absent" where there is no row
  until,    \* processed_emails.snoozed_until
  lastRun,  \* gmail_accounts.last_run_timestamp, Never before the first run
  run,      \* where each run is, and what it has read
  claims,   \* times each email was claimed, counted up to MaxSnoozes + 2
  snoozes,  \* times each email was snoozed
  told,     \* emails whose summary reached the user
  spared,   \* emails snoozed when a run started, by runs that had ended
  slipped   \* a run ended and left last_run_timestamp before its start, or
            \* moved it back

vars == <<clock, arrived, entry, until, lastRun, run, claims, snoozes, told, spared, slipped>>
mailbox == <<clock, arrived>>
rows == <<entry, until>>
ghosts == <<spared, slipped>>
history == <<claims, snoozes, told, ghosts>>

NotYet == -1
Never  == -1
Status == {"absent", "notified", "drafted", "archived", "snoozed", "active"}
Pc == {"idle", "resolve", "due", "resurface", "filter", "claim", "triage",
       "tools", "record", "persist"}

(* What the decision recorder holds for the email in hand: nothing yet, a  *)
(* tool that wrote its own row, one that failed to, one that leaves the    *)
(* row to recordHandled, or the fallback summary.                          *)
Decisions == {"none", "kept", "failed", "handled", "fallback"}

RunState == [pc : Pc, end : 0..MaxTime, since : (-DefaultWindow)..MaxTime,
             due : SUBSET Emails, batch : SUBSET Emails, fresh : SUBSET Emails,
             email : Emails \cup {NoEmail}, calls : SUBSET Tools, decision : Decisions,
             snoozed : SUBSET Emails]

Resting(end) ==
  [pc |-> "idle", end |-> end, since |-> 0, due |-> {}, batch |-> {}, fresh |-> {},
   email |-> NoEmail, calls |-> {}, decision |-> "none", snoozed |-> {}]

TypeOK ==
  /\ clock \in 1..MaxTime
  /\ arrived \in [Emails -> 1..MaxTime \cup {NotYet}]
  /\ entry \in [Emails -> Status]
  /\ until \in [Emails -> 0..MaxTime]
  /\ lastRun \in 0..MaxTime \cup {Never}
  /\ run \in [Runs -> RunState]
  /\ claims \in [Emails -> 0..MaxSnoozes + 2]
  /\ snoozes \in [Emails -> 0..MaxSnoozes]
  /\ told \subseteq Emails
  /\ spared \in [Runs -> SUBSET Emails]
  /\ slipped \in BOOLEAN

Init ==
  /\ clock = 1
  /\ arrived = [e \in Emails |-> NotYet]
  /\ entry = [e \in Emails |-> "absent"]
  /\ until = [e \in Emails |-> 0]
  /\ lastRun = Never
  /\ run = [r \in Runs |-> Resting(0)]
  /\ claims = [e \in Emails |-> 0]
  /\ snoozes = [e \in Emails |-> 0]
  /\ told = {}
  /\ spared = [r \in Runs |-> {}]
  /\ slipped = FALSE

-----------------------------------------------------------------------------
At(r, pc) == run[r].pc = pc
Goto(r, pc) == run' = [run EXCEPT ![r].pc = pc]

(* The statements of processed-emails.ts.                                  *)
Write(e, s, t) ==
  /\ entry' = [entry EXCEPT ![e] = s]
  /\ until' = [until EXCEPT ![e] = t]

\* Mutation: the UPDATE of the claim without its setWhere.
ClaimableAnyRow(e) == TRUE

\* Mutation: CLAIMABLE_STATUSES without "active".
ClaimableSnoozed(e) == entry[e] \in {"absent", "snoozed"}

Claimable(e) == entry[e] \in {"absent", "snoozed", "active"}

(* getHandledMessageIds leaves snoozed rows out.                           *)
Handled(e) == entry[e] \notin {"absent", "snoozed"}

\* Mutation: the query for due rows without its bound on snoozed_until.
SnoozedRows(now) == {e \in Emails : entry[e] = "snoozed"}

DueRows(now) == {e \in Emails : entry[e] = "snoozed" /\ until[e] <= now}

-----------------------------------------------------------------------------
(* The world outside.                                                      *)
(* Bound: the last tick waits for a snooze that is being written.          *)
Tick ==
  /\ clock < MaxTime
  /\ clock + 1 = MaxTime => \A r \in Runs : "snooze" \notin run[r].calls
  /\ clock' = clock + 1
  /\ UNCHANGED <<arrived, rows, lastRun, run, history>>

Arrive(e) ==
  /\ arrived[e] = NotYet
  /\ clock < MaxTime
  /\ arrived' = [arrived EXCEPT ![e] = clock]
  /\ UNCHANGED <<clock, rows, lastRun, run, history>>

(* A job is taken up; no two of the account in the same second.            *)
Start(r) ==
  /\ At(r, "idle")
  /\ \A q \in Runs : run[q].end < clock
  /\ run' = [run EXCEPT ![r] = [Resting(clock) EXCEPT !.pc = "resolve"]]
  /\ spared' = [spared EXCEPT ![r] =
       {e \in Emails : entry[e] = "snoozed" /\ \A q \in Runs : e \notin run[q].snoozed}]
  /\ UNCHANGED <<mailbox, rows, lastRun, claims, snoozes, told, slipped>>

(* resolveGmailAccount, and getWindowStart on what it read.                *)
Resolve(r) ==
  /\ At(r, "resolve")
  /\ run' = [run EXCEPT ![r].pc = "due",
       ![r].since = IF lastRun = Never THEN run[r].end - DefaultWindow ELSE lastRun]
  /\ UNCHANGED <<mailbox, rows, lastRun, history>>

ReadDue(r) ==
  /\ At(r, "due")
  /\ run' = [run EXCEPT ![r].pc = "resurface", ![r].due = DueRows(run[r].end)]
  /\ UNCHANGED <<mailbox, rows, lastRun, history>>

(* resurfaceSnoozedEmail: markEmailActive, whatever the row has become.    *)
Resurface(r) ==
  /\ At(r, "resurface")
  /\ \E e \in run[r].due :
       \/ /\ Write(e, "active", 0)
          /\ run' = [run EXCEPT ![r].due = @ \ {e}, ![r].batch = @ \cup {e}]
       \/ /\ "refetch" \in Faults
          /\ run' = [run EXCEPT ![r].due = @ \ {e}]
          /\ UNCHANGED rows
  /\ UNCHANGED <<mailbox, lastRun, history>>

(* buildTimeWindowQuery: after since, before end, at least one second.     *)
InWindow(r) ==
  {e \in Emails : /\ arrived[e] # NotYet
                  /\ run[r].since <= arrived[e]
                  /\ arrived[e] < run[r].end \/ arrived[e] = run[r].since}

(* Gmail answers with the newest ones, MaxResults at most.                 *)
Newest(S) ==
  {N \in SUBSET S :
     /\ Cardinality(N) = IF Cardinality(S) < MaxResults THEN Cardinality(S) ELSE MaxResults
     /\ \A e \in N, f \in S \ N : arrived[e] >= arrived[f]}

FetchWindow(r) ==
  /\ At(r, "resurface") /\ run[r].due = {}
  /\ \E N \in Newest(InWindow(r)) :
       run' = [run EXCEPT ![r].pc = "filter", ![r].fresh = N]
  /\ UNCHANGED <<mailbox, rows, lastRun, history>>

\* Mutation: handled emails are dropped from the resurfaced ones as well.
DropHandledFromAll(r) == {e \in run[r].batch \cup run[r].fresh : ~Handled(e)}

(* dropHandledEmails on the fresh emails, then dedupeByMessageId.          *)
Unhandled(r) == run[r].batch \cup {e \in run[r].fresh : ~Handled(e)}

DropHandled(r) ==
  /\ At(r, "filter")
  /\ run' = [run EXCEPT ![r].pc = "claim", ![r].batch = Unhandled(r), ![r].fresh = {}]
  /\ UNCHANGED <<mailbox, rows, lastRun, history>>

-----------------------------------------------------------------------------
(* processEmails.  The order within the batch is left open.                *)

\* Mutation: the claim inserts a status the enum does not have.
ClaimAsClaimed(r) ==
  /\ At(r, "claim")
  /\ \E e \in run[r].batch :
       /\ Claimable(e)
       /\ Write(e, "claimed", 0)
       /\ run' = [run EXCEPT ![r].pc = "triage", ![r].email = e, ![r].batch = @ \ {e}]
  /\ UNCHANGED <<mailbox, lastRun, history>>

(* claimEmailForProcessing; an email another run has is skipped.           *)
Claim(r) ==
  /\ At(r, "claim")
  /\ \E e \in run[r].batch :
       \/ /\ Claimable(e)
          /\ Write(e, "notified", 0)
          /\ claims' = [claims EXCEPT ![e] = IF @ > MaxSnoozes THEN MaxSnoozes + 2 ELSE @ + 1]
          /\ run' = [run EXCEPT ![r].pc = "triage", ![r].email = e, ![r].batch = @ \ {e}]
       \/ /\ ~Claimable(e)
          /\ run' = [run EXCEPT ![r].batch = @ \ {e}]
          /\ UNCHANGED <<rows, claims>>
  /\ UNCHANGED <<mailbox, lastRun, snoozes, told, ghosts>>

(* runTriageModel: one turn; no call if the model fails or picks none.     *)
(* Bound: a snooze only while MaxSnoozes and the clock leave room for it.  *)
RunTriageModel(r) ==
  /\ At(r, "triage")
  /\ \E T \in SUBSET Tools :
       /\ Cardinality(T) <= MaxCalls
       /\ "snooze" \in T => snoozes[run[r].email] < MaxSnoozes /\ clock < MaxTime
       /\ run' = [run EXCEPT ![r].pc = "tools", ![r].calls = T, ![r].decision = "none"]
  /\ UNCHANGED <<mailbox, rows, lastRun, history>>

(* createDecisionRecorder keeps the first decision.                        *)
Record(r, t, d) ==
  run' = [run EXCEPT ![r].calls = @ \ {t},
                     ![r].decision = IF @ = "none" THEN d ELSE @,
                     ![r].snoozed = IF <<t, d>> = <<"snooze", "kept">>
                                    THEN @ \cup {run[r].email} ELSE @]

(* summariseAndNotify.                                                     *)
Summarise(e) ==
  \/ told' = told \cup {e}
  \/ "outage" \in Faults /\ UNCHANGED told

(* ignore and applyLabel: a label that failed is recorded like the rest.   *)
Ignore(r) ==
  /\ Record(r, "ignore", "handled")
  /\ UNCHANGED <<rows, history>>

SummariseTool(r) ==
  /\ Record(r, "summary", "handled")
  /\ Summarise(run[r].email)
  /\ UNCHANGED <<rows, claims, snoozes, ghosts>>

Archive(r) ==
  /\ \/ Write(run[r].email, "archived", 0) /\ Record(r, "archive", "kept")
     \/ "tool" \in Faults /\ UNCHANGED rows /\ Record(r, "archive", "failed")
  /\ UNCHANGED history

(* markEmailSnoozed until a later time the model names.                    *)
Snooze(r) ==
  LET e == run[r].email IN
  /\ \/ /\ snoozes[e] < MaxSnoozes
        /\ \E t \in clock + 1..MaxTime : Write(e, "snoozed", t)
        /\ snoozes' = [snoozes EXCEPT ![e] = @ + 1]
        /\ spared' = [q \in Runs |-> spared[q] \ {e}]
        /\ Record(r, "snooze", "kept")
     \/ /\ "tool" \in Faults
        /\ UNCHANGED <<rows, snoozes, spared>>
        /\ Record(r, "snooze", "failed")
  /\ UNCHANGED <<claims, told, slipped>>

(* draftAndQueue: the summary, the draft and its row, the ready message;   *)
(* failed before markEmailDrafted or after it, or skipped because an       *)
(* earlier triage of the email left a draft awaiting confirmation.         *)
Draft(r) ==
  LET e == run[r].email IN
  /\ \/ Summarise(e) /\ Write(e, "drafted", 0) /\ Record(r, "draft", "kept")
     \/ /\ "tool" \in Faults
        /\ Summarise(e)
        /\ Write(e, "drafted", 0) \/ UNCHANGED rows
        /\ Record(r, "draft", "failed")
     \/ /\ claims[e] > 1
        /\ UNCHANGED <<rows, told>>
        /\ Record(r, "draft", "failed")
  /\ UNCHANGED <<claims, snoozes, ghosts>>

UseTool(r) ==
  /\ At(r, "tools")
  /\ \/ "ignore"  \in run[r].calls /\ Ignore(r)
     \/ "summary" \in run[r].calls /\ SummariseTool(r)
     \/ "archive" \in run[r].calls /\ Archive(r)
     \/ "snooze"  \in run[r].calls /\ Snooze(r)
     \/ "draft"   \in run[r].calls /\ Draft(r)
  /\ UNCHANGED <<mailbox, lastRun>>

(* triageEmail: fallbackToSummary if no tool recorded a decision.          *)
EndTurn(r) ==
  /\ At(r, "tools") /\ run[r].calls = {}
  /\ IF run[r].decision = "none"
     THEN /\ Summarise(run[r].email)
          /\ run' = [run EXCEPT ![r].pc = "record", ![r].decision = "fallback"]
     ELSE Goto(r, "record") /\ UNCHANGED told
  /\ UNCHANGED <<mailbox, rows, lastRun, claims, snoozes, ghosts>>

(* recordHandled.  After "failed" it inserts a row only if there is none,  *)
(* and the claim has written one.                                          *)
RecordHandled(r) ==
  LET e == run[r].email IN
  /\ At(r, "record")
  /\ \/ run[r].decision \in {"handled", "fallback"} /\ Write(e, "notified", 0)
     \/ run[r].decision = "failed" /\ entry[e] = "absent" /\ Write(e, "notified", 0)
     \/ run[r].decision = "failed" /\ entry[e] # "absent" /\ UNCHANGED rows
     \/ run[r].decision = "kept" /\ UNCHANGED rows
     \/ "write" \in Faults /\ UNCHANGED rows
  /\ run' = [run EXCEPT ![r].pc = "claim", ![r].email = NoEmail, ![r].decision = "none"]
  /\ UNCHANGED <<mailbox, lastRun, history>>

Finish(r) ==
  /\ At(r, "claim") /\ run[r].batch = {}
  /\ Goto(r, "persist")
  /\ UNCHANGED <<mailbox, rows, lastRun, history>>

(* handleRunFailure: what throws is an unguarded await of collectEmails or *)
(* of the claim.                                                           *)
Throw(r) ==
  /\ "throw" \in Faults
  /\ run[r].pc \in {"resolve", "due", "resurface", "filter", "claim"}
  /\ run' = [run EXCEPT ![r] = [Resting(@.end) EXCEPT !.pc = "persist", !.snoozed = run[r].snoozed]]
  /\ UNCHANGED <<mailbox, rows, lastRun, history>>

\* Mutation: the time of the write, not of the start of the run.
PersistNow(r) ==
  /\ At(r, "persist")
  /\ lastRun' = clock
  /\ slipped' = (slipped \/ lastRun' < run[r].end \/ lastRun' <= lastRun)
  /\ run' = [run EXCEPT ![r] = Resting(@.end)]
  /\ UNCHANGED <<mailbox, rows, claims, snoozes, told, spared>>

(* persistLastRunTimestamp, after a success and after a failure.           *)
PersistLastRun(r) ==
  /\ At(r, "persist")
  /\ \/ /\ lastRun' = run[r].end
        /\ slipped' = (slipped \/ lastRun' <= lastRun)
     \/ /\ "write" \in Faults
        /\ UNCHANGED lastRun
        /\ slipped' = TRUE
  /\ run' = [run EXCEPT ![r] = Resting(@.end)]
  /\ UNCHANGED <<mailbox, rows, claims, snoozes, told, spared>>

Abort(r) ==
  /\ "abort" \in Faults
  /\ ~At(r, "idle")
  /\ run' = [run EXCEPT ![r] = Resting(@.end)]
  /\ slipped' = TRUE
  /\ UNCHANGED <<mailbox, rows, lastRun, claims, snoozes, told, spared>>

-----------------------------------------------------------------------------
Step(r) ==
  \/ Resolve(r) \/ ReadDue(r) \/ Resurface(r) \/ FetchWindow(r) \/ DropHandled(r)
  \/ Claim(r) \/ RunTriageModel(r) \/ UseTool(r) \/ EndTurn(r) \/ RecordHandled(r)
  \/ Finish(r) \/ PersistLastRun(r)

(* Bound: every run has ended and the clock has reached its last tick.     *)
TimeIsUp ==
  /\ clock = MaxTime
  /\ \A r \in Runs : At(r, "idle")
  /\ UNCHANGED vars

Next ==
  \/ Tick \/ TimeIsUp
  \/ \E e \in Emails : Arrive(e)
  \/ \E r \in Runs : Start(r) \/ Step(r) \/ Throw(r) \/ Abort(r)

Spec == Init /\ [][Next]_vars

(* Time passes, the queue keeps starting runs, and every await of a run    *)
(* returns.                                                                *)
FairSpec ==
  /\ Spec
  /\ WF_vars(Tick)
  /\ WF_vars(\E r \in Runs : Start(r))
  /\ \A r \in Runs : WF_vars(Step(r))

-----------------------------------------------------------------------------
(* Properties.                                                             *)

(* An email that was never snoozed is taken up once: runs that overlap,    *)
(* throw or are killed do not triage it twice, whatever they read before   *)
(* its row was written (claimEmailForProcessing).                          *)
UnsnoozedClaimedOnce == \A e \in Emails : snoozes[e] = 0 => claims[e] <= 1

(* A row put back to "active" is always in the hands of a run that will    *)
(* claim it: a due email is never left where neither the query for due     *)
(* rows nor the filter on fresh ones would find it again                   *)
(* (resurfaceSnoozedEmail, dropHandledEmails).                             *)
ActiveIsInHand ==
  \A e \in Emails : entry[e] = "active" => \E r \in Runs : e \in run[r].batch

(* A run leaves an email alone that was snoozed when it started until the  *)
(* email's time has come, if the run that snoozed it had ended: whatever   *)
(* runs overlap, throw, fail in a tool or make several calls, the window   *)
(* of a later run starts where the one that snoozed the email did          *)
(* (persistLastRunTimestamp).  Only where that write slipped, in a run     *)
(* that was killed, whose write failed, or that ended after a younger one, *)
(* is the email fetched again and, its row being snoozed, claimed early    *)
(* (getHandledMessageIds).                                                 *)
SnoozeRespected ==
  [][\A r \in Runs : \A e \in spared[r] :
       run'[r] # run[r] /\ entry[e] = "snoozed" /\ entry'[e] # "snoozed"
         => until[e] <= clock \/ slipped]_vars

(* What recordHandled's comment says: it marks an email handled unless a   *)
(* tool of the turn wrote the email's row.                                 *)
ToolRowStands ==
  [][\A r \in Runs : At(r, "record") /\ run'[r].pc = "claim" =>
       LET e == run[r].email
       IN entry[e] \in {"snoozed", "archived", "drafted"} => entry'[e] = entry[e]]_vars

(* With a model that never picks "ignore", every email that comes in is at *)
(* last summarised to the user, archived or drafted, though it is snoozed  *)
(* in between.                                                             *)
NothingGoesUnreported ==
  \A e \in Emails :
    arrived[e] # NotYet ~> e \in told \/ entry[e] \in {"archived", "drafted"}

(* An email that is snoozed and in no run's hands returns to triage.       *)
SnoozedReturns ==
  \A e \in Emails :
    entry[e] = "snoozed" /\ (\A r \in Runs : run[r].email # e)
      ~> \E r \in Runs : At(r, "triage") /\ run[r].email = e
=============================================================================
