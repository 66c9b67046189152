--------------------------- MODULE EmailTriageProofs ---------------------------
(***************************************************************************)
(* For every number of runs, emails and calls in a turn, and every mix of  *)
(* faults: an email that was never snoozed is claimed once, and a run      *)
(* leaves an email alone that an ended run snoozed, until its time has     *)
(* come, unless a write of the run's timestamp slipped.  Without kills and *)
(* throws an active row is in the hands of a run.                          *)
(***************************************************************************)
EXTENDS EmailTriage, TLAPS

(* The rows of emails never snoozed, and their claims.                     *)
RowsUnsnoozed ==
  \A e \in Emails : snoozes[e] = 0 =>
    /\ entry[e] \in {"absent", "notified", "drafted", "archived"}
    /\ claims[e] = IF entry[e] = "absent" THEN 0 ELSE 1

(* What a run has in hand has a row, and what it read as due was snoozed.  *)
HandsHaveRows ==
  \A r \in Runs :
    /\ run[r].pc \in {"triage", "tools", "record"} =>
         run[r].email \in Emails /\ entry[run[r].email] # "absent"
    /\ \A e \in run[r].due : snoozes[e] > 0

ClaimInv == TypeOK /\ RowsUnsnoozed /\ HandsHaveRows

(* Only a run that is collecting or claiming has emails waiting.           *)
BatchWhileClaiming ==
  \A r \in Runs : run[r].pc \in {"idle", "resolve", "due", "persist"} => run[r].batch = {}

ActiveInv == ClaimInv /\ BatchWhileClaiming /\ ActiveIsInHand

-----------------------------------------------------------------------------
(* What the assumption says of the numbers.                                *)
LEMMA Bounds ==
  /\ DefaultWindow \in Nat \ {0} /\ MaxTime \in Nat \ {0} /\ MaxSnoozes \in Nat
  /\ 0 \in 0..MaxTime /\ 0 \in (-DefaultWindow)..MaxTime
  BY TriageAssumption

(* A run at rest is a run.                                                 *)
LEMMA RestingRun == \A end \in 0..MaxTime : Resting(end) \in RunState
  BY Bounds DEF Resting, RunState, Pc, Decisions

(* The first state is one of the invariant.                                *)
LEMMA InitClaim == Init => ClaimInv
<1> SUFFICES ASSUME Init PROVE ClaimInv
  OBVIOUS
<1>1. TypeOK
  <2>1. 1 \in 1..MaxTime /\ 0 \in 0..MaxSnoozes /\ 0 \in 0..MaxSnoozes + 2
    BY Bounds
  <2>2. run \in [Runs -> RunState]
    BY Bounds, RestingRun DEF Init
  <2> QED  BY <2>1, <2>2, Bounds DEF Init, TypeOK, Status
<1>2. RowsUnsnoozed
  BY DEF Init, RowsUnsnoozed
<1>3. HandsHaveRows
  BY DEF Init, HandsHaveRows, Resting
<1> QED  BY <1>1, <1>2, <1>3 DEF ClaimInv

(* Every step keeps the types.                                             *)
LEMMA TypeStep == ClaimInv /\ [Next]_vars => TypeOK'
<1> SUFFICES ASSUME TypeOK, HandsHaveRows, [Next]_vars PROVE TypeOK'
  BY DEF ClaimInv
<1> USE Bounds
<1>0. \A r \in Runs : run[r] \in RunState
  BY DEF TypeOK
<1>1. CASE Tick
  BY <1>1 DEF Tick, TypeOK, rows, history, ghosts
<1>2. ASSUME NEW e \in Emails, Arrive(e) PROVE TypeOK'
  BY <1>2 DEF Arrive, TypeOK, rows, history, ghosts
<1>3. ASSUME NEW r \in Runs, Start(r) PROVE TypeOK'
  <2>1. [Resting(clock) EXCEPT !.pc = "resolve"] \in RunState
    BY DEF TypeOK, Resting, RunState, Pc, Decisions
  <2>2. spared' \in [Runs -> SUBSET Emails]
    BY <1>3 DEF Start, TypeOK
  <2> QED  BY <1>3, <2>1, <2>2 DEF Start, TypeOK, mailbox, rows
<1>4. ASSUME NEW r \in Runs, Resolve(r) PROVE TypeOK'
  <2> DEFINE since == IF lastRun = Never THEN run[r].end - DefaultWindow ELSE lastRun
  <2>1. since \in (-DefaultWindow)..MaxTime
    <3>1. run[r].end \in 0..MaxTime
      BY <1>0 DEF RunState
    <3> QED  BY <3>1 DEF TypeOK, Never
  <2>2. [run[r] EXCEPT !.pc = "due", !.since = since] \in RunState
    BY <1>0, <2>1 DEF RunState, Pc
  <2>3. run' = [run EXCEPT ![r] = [run[r] EXCEPT !.pc = "due", !.since = since]]
    BY <1>4, Zenon DEF Resolve
  <2> QED  BY <1>4, <2>2, <2>3 DEF Resolve, TypeOK, mailbox, rows, history, ghosts
<1>5. ASSUME NEW r \in Runs, ReadDue(r) PROVE TypeOK'
  <2> DEFINE due == DueRows(run[r].end)
  <2>1. due \in SUBSET Emails
    BY DEF DueRows
  <2>2. [run[r] EXCEPT !.pc = "resurface", !.due = due] \in RunState
    BY <1>0, <2>1 DEF RunState, Pc
  <2>3. run' = [run EXCEPT ![r] = [run[r] EXCEPT !.pc = "resurface", !.due = due]]
    BY <1>5, Zenon DEF ReadDue
  <2> QED  BY <1>5, <2>2, <2>3 DEF ReadDue, TypeOK, mailbox, rows, history, ghosts
<1>6. ASSUME NEW r \in Runs, Resurface(r) PROVE TypeOK'
  <2>1. PICK e \in run[r].due :
          /\ run' = [run EXCEPT ![r].due = @ \ {e}, ![r].batch = @ \cup {e}]
             \/ run' = [run EXCEPT ![r].due = @ \ {e}]
          /\ Write(e, "active", 0) \/ UNCHANGED rows
    BY <1>6 DEF Resurface
  <2>2. e \in Emails
    BY <1>0, <2>1 DEF RunState
  <2>3. run' \in [Runs -> RunState]
    <3>1. /\ [run[r] EXCEPT !.due = @ \ {e}, !.batch = @ \cup {e}] \in RunState
          /\ [run[r] EXCEPT !.due = @ \ {e}] \in RunState
      BY <1>0, <2>2 DEF RunState
    <3>2. \/ run' = [run EXCEPT ![r] = [run[r] EXCEPT !.due = @ \ {e}, !.batch = @ \cup {e}]]
          \/ run' = [run EXCEPT ![r] = [run[r] EXCEPT !.due = @ \ {e}]]
      BY <2>1, Zenon
    <3> QED  BY <3>1, <3>2 DEF TypeOK
  <2> QED  BY <1>6, <2>1, <2>2, <2>3
           DEF Resurface, Write, TypeOK, mailbox, rows, history, ghosts, Status
<1>7. ASSUME NEW r \in Runs, FetchWindow(r) PROVE TypeOK'
  <2>1. PICK N \in SUBSET Emails : run' = [run EXCEPT ![r].pc = "filter", ![r].fresh = N]
    BY <1>7 DEF FetchWindow, Newest, InWindow
  <2>2. [run[r] EXCEPT !.pc = "filter", !.fresh = N] \in RunState
    BY <1>0 DEF RunState, Pc
  <2>3. run' = [run EXCEPT ![r] = [run[r] EXCEPT !.pc = "filter", !.fresh = N]]
    BY <2>1, Zenon
  <2> QED  BY <1>7, <2>2, <2>3 DEF FetchWindow, TypeOK, mailbox, rows, history, ghosts
<1>8. ASSUME NEW r \in Runs, DropHandled(r) PROVE TypeOK'
  <2> DEFINE batch == Unhandled(r)
  <2>1. batch \in SUBSET Emails
    BY <1>0 DEF Unhandled, RunState
  <2>2. [run[r] EXCEPT !.pc = "claim", !.batch = batch, !.fresh = {}] \in RunState
    BY <1>0, <2>1 DEF RunState, Pc
  <2>3. run' = [run EXCEPT ![r] = [run[r] EXCEPT !.pc = "claim", !.batch = batch, !.fresh = {}]]
    BY <1>8, Zenon DEF DropHandled
  <2> QED  BY <1>8, <2>2, <2>3 DEF DropHandled, TypeOK, mailbox, rows, history, ghosts
<1>9. ASSUME NEW r \in Runs, Claim(r) PROVE TypeOK'
  BY <1>9 DEF Claim, Write, TypeOK, mailbox, rows, ghosts, RunState, Pc, Status
<1>10. ASSUME NEW r \in Runs, RunTriageModel(r) PROVE TypeOK'
  <2>1. PICK T \in SUBSET Tools :
          run' = [run EXCEPT ![r].pc = "tools", ![r].calls = T, ![r].decision = "none"]
    BY <1>10 DEF RunTriageModel
  <2>2. [run[r] EXCEPT !.pc = "tools", !.calls = T, !.decision = "none"] \in RunState
    BY <1>0 DEF RunState, Pc, Decisions
  <2>3. run' = [run EXCEPT ![r] = [run[r] EXCEPT !.pc = "tools", !.calls = T, !.decision = "none"]]
    BY <2>1, Zenon
  <2> QED  BY <1>10, <2>2, <2>3 DEF RunTriageModel, TypeOK, mailbox, rows, history, ghosts
<1>11. ASSUME NEW r \in Runs, UseTool(r) PROVE TypeOK'
  <2>1. UNCHANGED <<clock, arrived, lastRun>>
    BY <1>11 DEF UseTool, mailbox
  <2>9. run[r].email \in Emails
    BY <1>11 DEF UseTool, At, HandsHaveRows
  <2>2. ASSUME NEW t, NEW d \in Decisions, Record(r, t, d) PROVE run' \in [Runs -> RunState]
    <3> DEFINE first == IF run[r].decision = "none" THEN d ELSE run[r].decision
    <3> DEFINE mine == IF <<t, d>> = <<"snooze", "kept">>
                       THEN run[r].snoozed \cup {run[r].email} ELSE run[r].snoozed
    <3>1. mine \in SUBSET Emails /\ first \in Decisions
      BY <1>0, <2>9, <2>2 DEF RunState
    <3>2. run' = [run EXCEPT ![r] = [run[r] EXCEPT !.calls = @ \ {t}, !.decision = first,
                                                   !.snoozed = mine]]
      BY <2>2, Zenon DEF Record
    <3> HIDE DEF mine, first
    <3>3. [run[r] EXCEPT !.calls = @ \ {t}, !.decision = first, !.snoozed = mine] \in RunState
      BY <1>0, <3>1 DEF RunState
    <3> QED  BY <3>2, <3>3 DEF TypeOK
  <2>3. run' \in [Runs -> RunState]
    BY <1>11, <2>2
    DEF UseTool, Ignore, SummariseTool, Archive, Snooze, Draft, Decisions
  <2>4. CASE Ignore(r)
    BY <2>1, <2>3, <2>4 DEF Ignore, TypeOK, rows, history, ghosts
  <2>5. CASE SummariseTool(r)
    BY <2>1, <2>3, <2>5, <2>9 DEF SummariseTool, Summarise, TypeOK, rows, ghosts
  <2>6. CASE Archive(r)
    BY <2>1, <2>3, <2>6 DEF Archive, Write, TypeOK, rows, history, ghosts, Status
  <2>7. CASE Snooze(r)
    BY <2>1, <2>3, <2>7 DEF Snooze, Write, TypeOK, rows, Status
  <2>8. CASE Draft(r)
    BY <2>1, <2>3, <2>8, <2>9 DEF Draft, Summarise, Write, TypeOK, rows, ghosts, Status
  <2> QED  BY <1>11, <2>4, <2>5, <2>6, <2>7, <2>8 DEF UseTool
<1>12. ASSUME NEW r \in Runs, EndTurn(r) PROVE TypeOK'
  BY <1>12 DEF EndTurn, Summarise, Goto, TypeOK, mailbox, rows, ghosts, RunState, Pc, Decisions
<1>13. ASSUME NEW r \in Runs, RecordHandled(r) PROVE TypeOK'
  <2>1. run' \in [Runs -> RunState]
    <3>1. [run[r] EXCEPT !.pc = "claim", !.email = NoEmail, !.decision = "none"] \in RunState
      BY <1>0 DEF RunState, Pc, Decisions
    <3>2. run' = [run EXCEPT ![r] = [run[r] EXCEPT !.pc = "claim", !.email = NoEmail,
                                                   !.decision = "none"]]
      BY <1>13, Zenon DEF RecordHandled
    <3> QED  BY <3>1, <3>2 DEF TypeOK
  <2>2. Write(run[r].email, "notified", 0) \/ UNCHANGED rows
    BY <1>13 DEF RecordHandled
  <2> QED  BY <1>13, <2>1, <2>2
           DEF RecordHandled, Write, TypeOK, mailbox, rows, history, ghosts, Status
<1>14. ASSUME NEW r \in Runs, Finish(r) PROVE TypeOK'
  <2>1. [run[r] EXCEPT !.pc = "persist"] \in RunState
    BY <1>0 DEF RunState, Pc
  <2>2. run' = [run EXCEPT ![r] = [run[r] EXCEPT !.pc = "persist"]]
    BY <1>14, Zenon DEF Finish, Goto
  <2> QED  BY <1>14, <2>1, <2>2 DEF Finish, TypeOK, mailbox, rows, history, ghosts
<1>15. ASSUME NEW r \in Runs, Throw(r) PROVE TypeOK'
  <2> DEFINE rest == [Resting(run[r].end) EXCEPT !.pc = "persist", !.snoozed = run[r].snoozed]
  <2>1. rest \in RunState
    <3>1. Resting(run[r].end) \in RunState /\ run[r].snoozed \in SUBSET Emails
      BY <1>0, RestingRun DEF RunState
    <3> QED  BY <3>1 DEF RunState, Pc
  <2>2. run' = [run EXCEPT ![r] = rest]
    BY <1>15, Zenon DEF Throw
  <2> QED  BY <1>15, <2>1, <2>2 DEF Throw, TypeOK, mailbox, rows, history, ghosts
<1>16. ASSUME NEW r \in Runs, PersistLastRun(r) PROVE TypeOK'
  <2>1. run[r].end \in 0..MaxTime
    BY <1>0 DEF RunState
  <2>2. slipped' \in BOOLEAN
    BY <1>16 DEF PersistLastRun, TypeOK
  <2> QED  BY <1>16, <2>1, <2>2, RestingRun DEF PersistLastRun, TypeOK, mailbox, rows
<1>17. ASSUME NEW r \in Runs, Abort(r) PROVE TypeOK'
  BY <1>17, RestingRun DEF Abort, TypeOK, mailbox, rows, RunState, Pc, Decisions
<1>18. CASE UNCHANGED vars
  BY <1>18 DEF vars, TypeOK
<1> QED
  BY <1>1, <1>2, <1>3, <1>4, <1>5, <1>6, <1>7, <1>8, <1>9, <1>10, <1>11, <1>12, <1>13, <1>14,
     <1>15, <1>16, <1>17, <1>18 DEF Next, Step, TimeIsUp

-----------------------------------------------------------------------------
(* What a step of run r leaves as it was: a row stays a row, an email that *)
(* was snoozed stays one, and so do the other runs.                        *)
Kept ==
  /\ RowsUnsnoozed'
  /\ \A e \in Emails : /\ entry[e] # "absent" => entry'[e] # "absent"
                       /\ snoozes[e] > 0 => snoozes'[e] > 0

Own(r) ==
  /\ \A q \in Runs \ {r} : run'[q] = run[q]
  /\ run'[r].pc \in {"triage", "tools", "record"} =>
       run'[r].email \in Emails /\ entry'[run'[r].email] # "absent"
  /\ \A e \in run'[r].due : snoozes'[e] > 0

(* Together they keep what the runs have in hand.                          *)
LEMMA HandsKept ==
  ASSUME HandsHaveRows, TypeOK, NEW r \in Runs, Kept, Own(r) PROVE HandsHaveRows'
<1> SUFFICES ASSUME NEW q \in Runs
             PROVE (/\ run[q].pc \in {"triage", "tools", "record"} =>
                         run[q].email \in Emails /\ entry[run[q].email] # "absent"
                    /\ \A e \in run[q].due : snoozes[e] > 0)'
  BY DEF HandsHaveRows
<1>1. CASE q = r
  BY <1>1 DEF Own
<1>2. CASE q # r
  <2>1. run'[q] = run[q] /\ run[q].due \subseteq Emails
    BY <1>2 DEF Own, TypeOK, RunState
  <2> QED  BY <2>1 DEF Kept, HandsHaveRows
<1> QED  BY <1>1, <1>2

(* A step that leaves the rows and the counters alone keeps the rows.      *)
LEMMA RowsKept ==
  RowsUnsnoozed /\ UNCHANGED <<entry, claims, snoozes>> => Kept
  BY DEF RowsUnsnoozed, Kept

(* Every step keeps the invariant.                                         *)
LEMMA ClaimStep == ClaimInv /\ [Next]_vars => ClaimInv'
<1> SUFFICES ASSUME ClaimInv, [Next]_vars, TypeOK' PROVE RowsUnsnoozed' /\ HandsHaveRows'
  BY TypeStep DEF ClaimInv
<1> USE DEF ClaimInv
<1>0. /\ \A r \in Runs : run[r] \in RunState
      /\ \A e \in Emails : snoozes[e] \in Nat /\ claims[e] \in Nat
      /\ MaxSnoozes \in Nat
  BY Bounds DEF TypeOK
<1>1. ASSUME NEW r \in Runs, Start(r) PROVE Kept /\ Own(r)
  BY <1>1, RowsKept DEF Start, rows, history, TypeOK, Own, Resting
<1>2. ASSUME NEW r \in Runs, Resolve(r) PROVE Kept /\ Own(r)
  <2>1. run'[r].pc = "due" /\ run'[r].due = run[r].due
    BY <1>2, <1>0 DEF Resolve, TypeOK, RunState
  <2>2. \A q \in Runs \ {r} : run'[q] = run[q]
    BY <1>2 DEF Resolve, TypeOK
  <2> QED  BY <1>2, <2>1, <2>2, RowsKept DEF Resolve, rows, history, Own, HandsHaveRows
<1>3. ASSUME NEW r \in Runs, ReadDue(r) PROVE Kept /\ Own(r)
  <2>1. run'[r].pc = "resurface" /\ run'[r].due = DueRows(run[r].end)
    BY <1>3, <1>0 DEF ReadDue, TypeOK, RunState
  <2>2. \A q \in Runs \ {r} : run'[q] = run[q]
    BY <1>3 DEF ReadDue, TypeOK
  <2>3. \A e \in DueRows(run[r].end) : snoozes[e] > 0
    BY <1>0 DEF DueRows, RowsUnsnoozed
  <2> QED  BY <1>3, <2>1, <2>2, <2>3, RowsKept DEF ReadDue, rows, history, Own
<1>4. ASSUME NEW r \in Runs, Resurface(r) PROVE Kept /\ Own(r)
  <2>1. PICK e \in run[r].due :
          /\ run' = [run EXCEPT ![r].due = @ \ {e}, ![r].batch = @ \cup {e}]
             \/ run' = [run EXCEPT ![r].due = @ \ {e}]
          /\ Write(e, "active", 0) \/ UNCHANGED rows
    BY <1>4 DEF Resurface
  <2>2. e \in Emails /\ snoozes[e] > 0
    BY <1>0, <2>1 DEF HandsHaveRows, RunState
  <2>3. run'[r].pc = "resurface" /\ run'[r].due \subseteq run[r].due
    BY <1>4, <2>1, <1>0 DEF Resurface, At, TypeOK, RunState
  <2>4. \A q \in Runs \ {r} : run'[q] = run[q]
    BY <2>1 DEF TypeOK
  <2>5. UNCHANGED <<claims, snoozes>>
    BY <1>4 DEF Resurface, history
  <2>6. Kept
    BY <2>1, <2>2, <2>5, <1>0 DEF Write, rows, Kept, RowsUnsnoozed, TypeOK
  <2> QED  BY <2>3, <2>4, <2>5, <2>6 DEF Own, HandsHaveRows
<1>5. ASSUME NEW r \in Runs, FetchWindow(r) PROVE Kept /\ Own(r)
  <2>1. PICK N : run' = [run EXCEPT ![r].pc = "filter", ![r].fresh = N]
    BY <1>5 DEF FetchWindow
  <2>2. run'[r].pc = "filter" /\ run'[r].due = run[r].due
    BY <2>1, <1>0 DEF TypeOK, RunState
  <2>3. \A q \in Runs \ {r} : run'[q] = run[q]
    BY <2>1 DEF TypeOK
  <2> QED  BY <1>5, <2>2, <2>3, RowsKept DEF FetchWindow, rows, history, Own, HandsHaveRows
<1>6. ASSUME NEW r \in Runs, DropHandled(r) PROVE Kept /\ Own(r)
  <2>1. run'[r].pc = "claim" /\ run'[r].due = run[r].due
    BY <1>6, <1>0 DEF DropHandled, TypeOK, RunState
  <2>2. \A q \in Runs \ {r} : run'[q] = run[q]
    BY <1>6 DEF DropHandled, TypeOK
  <2> QED  BY <1>6, <2>1, <2>2, RowsKept DEF DropHandled, rows, history, Own, HandsHaveRows
<1>7. ASSUME NEW r \in Runs, Claim(r) PROVE Kept /\ Own(r)
  <2>1. UNCHANGED snoozes
    BY <1>7 DEF Claim
  <2>2. PICK e \in run[r].batch :
          \/ /\ Claimable(e)
             /\ Write(e, "notified", 0)
             /\ claims' = [claims EXCEPT ![e] = IF @ > MaxSnoozes THEN MaxSnoozes + 2 ELSE @ + 1]
             /\ run' = [run EXCEPT ![r].pc = "triage", ![r].email = e, ![r].batch = @ \ {e}]
          \/ /\ run' = [run EXCEPT ![r].batch = @ \ {e}]
             /\ UNCHANGED <<rows, claims>>
    BY <1>7 DEF Claim
  <2>3. e \in Emails /\ At(r, "claim")
    BY <1>7, <1>0, <2>2 DEF RunState, Claim
  <2>4. \A q \in Runs \ {r} : run'[q] = run[q]
    BY <2>2 DEF TypeOK
  <2>5. CASE Claimable(e) /\ Write(e, "notified", 0)
             /\ claims' = [claims EXCEPT ![e] = IF @ > MaxSnoozes THEN MaxSnoozes + 2 ELSE @ + 1]
             /\ run' = [run EXCEPT ![r].pc = "triage", ![r].email = e, ![r].batch = @ \ {e}]
    <3>1. run'[r].email = e /\ run'[r].due = run[r].due /\ entry'[e] = "notified"
      BY <2>3, <2>5, <1>0 DEF TypeOK, RunState, Write
    <3>2. snoozes[e] = 0 => claims[e] = 0
      BY <2>3, <2>5 DEF Claimable, RowsUnsnoozed
    <3>3. Kept
      BY <2>1, <2>3, <2>5, <3>2, <1>0 DEF Kept, RowsUnsnoozed, Write, TypeOK
    <3> QED  BY <2>1, <2>3, <2>4, <3>1, <3>3 DEF Own, HandsHaveRows
  <2>6. CASE run' = [run EXCEPT ![r].batch = @ \ {e}] /\ UNCHANGED <<rows, claims>>
    <3>1. run'[r].pc = "claim" /\ run'[r].due = run[r].due
      BY <2>3, <2>6, <1>0 DEF TypeOK, RunState, At
    <3> QED  BY <2>1, <2>4, <2>6, <3>1, RowsKept DEF Own, HandsHaveRows, rows
  <2> QED  BY <2>2, <2>5, <2>6
<1>8. ASSUME NEW r \in Runs, RunTriageModel(r) PROVE Kept /\ Own(r)
  <2>1. PICK T : run' = [run EXCEPT ![r].pc = "tools", ![r].calls = T, ![r].decision = "none"]
    BY <1>8 DEF RunTriageModel
  <2>2. run'[r].email = run[r].email /\ run'[r].due = run[r].due
    BY <2>1, <1>0 DEF TypeOK, RunState
  <2>3. \A q \in Runs \ {r} : run'[q] = run[q]
    BY <2>1 DEF TypeOK
  <2> QED
    BY <1>8, <2>2, <2>3, RowsKept DEF RunTriageModel, At, rows, history, Own, HandsHaveRows
<1>9. ASSUME NEW r \in Runs, UseTool(r) PROVE Kept /\ Own(r)
  <2>1. /\ run[r].email \in Emails /\ entry[run[r].email] # "absent"
        /\ run[r].pc = "tools"
    BY <1>9 DEF UseTool, At, HandsHaveRows
  <2>2. PICK t, d : Record(r, t, d)
    BY <1>9 DEF UseTool, Ignore, SummariseTool, Archive, Snooze, Draft
  <2>3. run'[r].email = run[r].email /\ run'[r].due = run[r].due
    BY <2>2, <1>0 DEF Record, TypeOK, RunState
  <2>4. \A q \in Runs \ {r} : run'[q] = run[q]
    BY <2>2 DEF Record, TypeOK
  <2>5. Kept
    <3>1. CASE UNCHANGED <<entry, claims, snoozes>>
      BY <3>1, RowsKept
    <3>2. CASE Archive(r) \/ Draft(r)
      BY <3>2, <2>1, RowsKept
      DEF Archive, Draft, Write, rows, history, Kept, RowsUnsnoozed, TypeOK
    <3>3. CASE Snooze(r)
      BY <3>3, <2>1, <1>0, RowsKept DEF Snooze, Write, rows, Kept, RowsUnsnoozed, TypeOK
    <3> QED  BY <1>9, <3>1, <3>2, <3>3 DEF UseTool, Ignore, SummariseTool, rows, history
  <2>6. run[r].due \subseteq Emails
    BY <1>0 DEF RunState
  <2> QED  BY <2>1, <2>3, <2>4, <2>5, <2>6 DEF Kept, Own, HandsHaveRows
<1>10. ASSUME NEW r \in Runs, EndTurn(r) PROVE Kept /\ Own(r)
  <2>1. run' = [run EXCEPT ![r].pc = "record", ![r].decision = "fallback"]
        \/ run' = [run EXCEPT ![r].pc = "record"]
    BY <1>10 DEF EndTurn, Goto
  <2>2. run'[r].email = run[r].email /\ run'[r].due = run[r].due
    BY <2>1, <1>0 DEF TypeOK, RunState
  <2>3. \A q \in Runs \ {r} : run'[q] = run[q]
    BY <2>1 DEF TypeOK
  <2> QED  BY <1>10, <2>2, <2>3, RowsKept DEF EndTurn, At, rows, Own, HandsHaveRows
<1>11. ASSUME NEW r \in Runs, RecordHandled(r) PROVE Kept /\ Own(r)
  <2>1. run[r].email \in Emails /\ entry[run[r].email] # "absent"
    BY <1>11 DEF RecordHandled, At, HandsHaveRows
  <2>2. run'[r].pc = "claim" /\ run'[r].due = run[r].due
    BY <1>11, <1>0 DEF RecordHandled, TypeOK, RunState
  <2>3. \A q \in Runs \ {r} : run'[q] = run[q]
    BY <1>11 DEF RecordHandled, TypeOK
  <2>4. UNCHANGED <<claims, snoozes>>
    BY <1>11 DEF RecordHandled, history
  <2>5. Write(run[r].email, "notified", 0) \/ UNCHANGED rows
    BY <1>11 DEF RecordHandled
  <2>6. Kept
    BY <2>1, <2>4, <2>5, RowsKept DEF Write, rows, Kept, RowsUnsnoozed, TypeOK
  <2> QED  BY <2>2, <2>3, <2>4, <2>6 DEF Own, HandsHaveRows
<1>12. ASSUME NEW r \in Runs, Finish(r) PROVE Kept /\ Own(r)
  <2>1. run'[r].pc = "persist" /\ run'[r].due = run[r].due
    BY <1>12, <1>0 DEF Finish, Goto, TypeOK, RunState
  <2>2. \A q \in Runs \ {r} : run'[q] = run[q]
    BY <1>12 DEF Finish, Goto, TypeOK
  <2> QED  BY <1>12, <2>1, <2>2, RowsKept DEF Finish, rows, history, Own, HandsHaveRows
<1>13. ASSUME NEW r \in Runs, Throw(r) \/ PersistLastRun(r) \/ Abort(r) PROVE Kept /\ Own(r)
  <2>1. run' = [run EXCEPT ![r] = [Resting(run[r].end) EXCEPT !.pc = "persist",
                                                              !.snoozed = run[r].snoozed]]
        \/ run' = [run EXCEPT ![r] = Resting(run[r].end)]
    BY <1>13, Zenon DEF Throw, PersistLastRun, Abort
  <2>2. run'[r].pc \in {"idle", "persist"} /\ run'[r].due = {}
    <3> DEFINE rest == [Resting(run[r].end) EXCEPT !.pc = "persist", !.snoozed = run[r].snoozed]
    <3>1. rest.pc = "persist" /\ rest.due = {}
      BY DEF Resting
    <3>2. Resting(run[r].end).pc = "idle" /\ Resting(run[r].end).due = {}
      BY DEF Resting
    <3>3. run'[r] = rest \/ run'[r] = Resting(run[r].end)
      <4> HIDE DEF rest
      <4> QED  BY <2>1, Zenon DEF TypeOK, rest
    <3> QED  BY <3>1, <3>2, <3>3
  <2>3. \A q \in Runs \ {r} : run'[q] = run[q]
    BY <2>1 DEF TypeOK
  <2> QED
    BY <1>13, <2>2, <2>3, RowsKept DEF Throw, PersistLastRun, Abort, rows, history, Own
<1>14. CASE UNCHANGED <<rows, run, history>>
  BY <1>14 DEF rows, history, RowsUnsnoozed, HandsHaveRows
<1>15. ASSUME NEW r \in Runs, Kept, Own(r) PROVE RowsUnsnoozed' /\ HandsHaveRows'
  BY <1>15, HandsKept DEF Kept
<1>16. (\E r \in Runs : Kept /\ Own(r)) \/ UNCHANGED <<rows, run, history>>
  BY <1>1, <1>2, <1>3, <1>4, <1>5, <1>6, <1>7, <1>8, <1>9, <1>10, <1>11, <1>12, <1>13
  DEF Next, Step, Tick, Arrive, TimeIsUp, vars, rows, history, ghosts
<1> QED  BY <1>14, <1>15, <1>16

(* An email that was never snoozed is taken up once, however many runs     *)
(* overlap and whatever fails (claimEmailForProcessing).                   *)
THEOREM ClaimedOnceTheorem == Spec => []UnsnoozedClaimedOnce
<1>1. ClaimInv => UnsnoozedClaimedOnce
  BY DEF ClaimInv, RowsUnsnoozed, UnsnoozedClaimedOnce
<1> QED  BY InitClaim, ClaimStep, <1>1, PTL DEF Spec

(* The types hold for every number of runs, emails and faults.             *)
THEOREM TypeTheorem == Spec => []TypeOK
<1>1. ClaimInv => TypeOK
  BY DEF ClaimInv
<1> QED  BY InitClaim, ClaimStep, <1>1, PTL DEF Spec

-----------------------------------------------------------------------------
(* What a step of run r leaves active: emails it has in its batch, or that *)
(* were active before and that it did not let go.                          *)
Held(r) ==
  /\ \A q \in Runs \ {r} : run'[q] = run[q]
  /\ run'[r].pc \in {"idle", "resolve", "due", "persist"} => run'[r].batch = {}
  /\ \A e \in Emails : entry'[e] = "active" =>
       \/ e \in run'[r].batch
       \/ entry[e] = "active" /\ e \notin run[r].batch

(* Such a step keeps the invariant.                                        *)
LEMMA ActiveKept ==
  ASSUME BatchWhileClaiming, ActiveIsInHand, NEW r \in Runs, Held(r)
  PROVE  BatchWhileClaiming' /\ ActiveIsInHand'
<1>1. BatchWhileClaiming'
  <2> SUFFICES ASSUME NEW q \in Runs
               PROVE (run[q].pc \in {"idle", "resolve", "due", "persist"} => run[q].batch = {})'
    BY DEF BatchWhileClaiming
  <2> QED  BY DEF Held, BatchWhileClaiming
<1>2. ActiveIsInHand'
  <2> SUFFICES ASSUME NEW e \in Emails, entry'[e] = "active"
               PROVE \E q \in Runs : e \in run'[q].batch
    BY DEF ActiveIsInHand
  <2>1. CASE e \in run'[r].batch
    BY <2>1
  <2>2. CASE entry[e] = "active" /\ e \notin run[r].batch
    <3>1. PICK q \in Runs : e \in run[q].batch
      BY <2>2 DEF ActiveIsInHand
    <3> QED  BY <2>2, <3>1 DEF Held
  <2> QED  BY <2>1, <2>2 DEF Held
<1> QED  BY <1>1, <1>2

(* Every step of runs that neither throw nor are killed is such a step.    *)
LEMMA ActiveStep ==
  ASSUME "throw" \notin Faults, "abort" \notin Faults
  PROVE  ActiveInv /\ [Next]_vars => ActiveInv'
<1> SUFFICES ASSUME ActiveInv, [Next]_vars, ClaimInv' PROVE BatchWhileClaiming' /\ ActiveIsInHand'
  BY ClaimStep DEF ActiveInv
<1> USE DEF ActiveInv, ClaimInv
<1>0. /\ \A r \in Runs : run[r] \in RunState
      /\ \A r \in Runs : run[r].batch \subseteq Emails
  BY DEF TypeOK, RunState
<1>1. ASSUME NEW r \in Runs, Start(r) PROVE Held(r)
  <2>1. run[r].batch = {}
    BY <1>1 DEF Start, At, BatchWhileClaiming
  <2>2. run'[r].batch = {} /\ \A q \in Runs \ {r} : run'[q] = run[q]
    BY <1>1 DEF Start, Resting, TypeOK
  <2> QED  BY <1>1, <2>1, <2>2 DEF Start, rows, Held
<1>2. ASSUME NEW r \in Runs, Resolve(r) PROVE Held(r)
  <2>1. run'[r].batch = run[r].batch
    BY <1>2, <1>0 DEF Resolve, TypeOK, RunState
  <2>2. run[r].batch = {}
    BY <1>2 DEF Resolve, At, BatchWhileClaiming
  <2>3. \A q \in Runs \ {r} : run'[q] = run[q]
    BY <1>2 DEF Resolve, TypeOK
  <2> QED  BY <1>2, <2>1, <2>2, <2>3 DEF Resolve, rows, Held
<1>3. ASSUME NEW r \in Runs, ReadDue(r) PROVE Held(r)
  <2>1. run'[r].batch = run[r].batch /\ run'[r].pc = "resurface"
    BY <1>3, <1>0 DEF ReadDue, TypeOK, RunState
  <2>2. \A q \in Runs \ {r} : run'[q] = run[q]
    BY <1>3 DEF ReadDue, TypeOK
  <2> QED  BY <1>3, <2>1, <2>2 DEF ReadDue, rows, Held
<1>4. ASSUME NEW r \in Runs, Resurface(r) PROVE Held(r)
  <2>1. PICK e \in run[r].due :
          \/ /\ Write(e, "active", 0)
             /\ run' = [run EXCEPT ![r].due = @ \ {e}, ![r].batch = @ \cup {e}]
          \/ /\ run' = [run EXCEPT ![r].due = @ \ {e}]
             /\ UNCHANGED rows
    BY <1>4 DEF Resurface
  <2>2. run[r].pc = "resurface" /\ run'[r].pc = "resurface"
    BY <1>4, <2>1, <1>0 DEF Resurface, At, TypeOK, RunState
  <2>3. \A q \in Runs \ {r} : run'[q] = run[q]
    BY <2>1 DEF TypeOK
  <2>4. CASE Write(e, "active", 0)
             /\ run' = [run EXCEPT ![r].due = @ \ {e}, ![r].batch = @ \cup {e}]
    <3>1. run'[r].batch = run[r].batch \cup {e}
      BY <2>4, <1>0 DEF TypeOK, RunState
    <3> QED  BY <2>2, <2>3, <2>4, <3>1 DEF Held, Write, TypeOK
  <2>5. CASE run' = [run EXCEPT ![r].due = @ \ {e}] /\ UNCHANGED rows
    <3>1. run'[r].batch = run[r].batch
      BY <2>5, <1>0 DEF TypeOK, RunState
    <3> QED  BY <2>2, <2>3, <2>5, <3>1 DEF Held, rows
  <2> QED  BY <2>1, <2>4, <2>5
<1>5. ASSUME NEW r \in Runs, FetchWindow(r) PROVE Held(r)
  <2>1. PICK N : run' = [run EXCEPT ![r].pc = "filter", ![r].fresh = N]
    BY <1>5 DEF FetchWindow
  <2>2. run'[r].pc = "filter" /\ run'[r].batch = run[r].batch
    BY <2>1, <1>0 DEF TypeOK, RunState
  <2>3. \A q \in Runs \ {r} : run'[q] = run[q]
    BY <2>1 DEF TypeOK
  <2> QED  BY <1>5, <2>2, <2>3 DEF FetchWindow, rows, Held
<1>6. ASSUME NEW r \in Runs, DropHandled(r) PROVE Held(r)
  <2>1. run'[r].pc = "claim" /\ run'[r].batch = Unhandled(r)
    BY <1>6, <1>0 DEF DropHandled, TypeOK, RunState
  <2>2. run[r].batch \subseteq Unhandled(r)
    BY DEF Unhandled
  <2>3. \A q \in Runs \ {r} : run'[q] = run[q]
    BY <1>6 DEF DropHandled, TypeOK
  <2> QED  BY <1>6, <2>1, <2>2, <2>3 DEF DropHandled, rows, Held
<1>7. ASSUME NEW r \in Runs, Claim(r) PROVE Held(r)
  <2>1. PICK e \in run[r].batch :
          \/ /\ Write(e, "notified", 0)
             /\ run' = [run EXCEPT ![r].pc = "triage", ![r].email = e, ![r].batch = @ \ {e}]
          \/ /\ ~Claimable(e)
             /\ run' = [run EXCEPT ![r].batch = @ \ {e}]
             /\ UNCHANGED rows
    BY <1>7 DEF Claim
  <2>2. run'[r].batch = run[r].batch \ {e} /\ run'[r].pc \in {"triage", "claim"}
    BY <1>7, <2>1, <1>0 DEF Claim, At, TypeOK, RunState
  <2>3. \A q \in Runs \ {r} : run'[q] = run[q]
    BY <2>1 DEF TypeOK
  <2>4. e \in Emails
    BY <2>1, <1>0
  <2>5. \A f \in Emails : entry'[f] = "active" => entry[f] = "active" /\ f # e
    BY <2>1, <2>4 DEF Write, Claimable, rows, TypeOK
  <2> QED  BY <2>2, <2>3, <2>5 DEF Held
<1>8. ASSUME NEW r \in Runs, RunTriageModel(r) PROVE Held(r)
  <2>1. PICK T : run' = [run EXCEPT ![r].pc = "tools", ![r].calls = T, ![r].decision = "none"]
    BY <1>8 DEF RunTriageModel
  <2>2. run'[r].batch = run[r].batch /\ run'[r].pc = "tools"
    BY <2>1, <1>0 DEF TypeOK, RunState
  <2>3. \A q \in Runs \ {r} : run'[q] = run[q]
    BY <2>1 DEF TypeOK
  <2> QED  BY <1>8, <2>2, <2>3 DEF RunTriageModel, rows, Held
<1>9. ASSUME NEW r \in Runs, UseTool(r) PROVE Held(r)
  <2>1. run[r].email \in Emails /\ run[r].pc = "tools"
    BY <1>9 DEF UseTool, At, HandsHaveRows
  <2>2. PICK t, d : Record(r, t, d)
    BY <1>9 DEF UseTool, Ignore, SummariseTool, Archive, Snooze, Draft
  <2>3. run'[r].batch = run[r].batch /\ run'[r].pc = "tools"
    BY <2>1, <2>2, <1>0 DEF Record, TypeOK, RunState
  <2>4. \A q \in Runs \ {r} : run'[q] = run[q]
    BY <2>2 DEF Record, TypeOK
  <2>5. \/ UNCHANGED rows
        \/ \E w \in {"archived", "snoozed", "drafted"} : \E u : Write(run[r].email, w, u)
    BY <1>9 DEF UseTool, Ignore, SummariseTool, Archive, Snooze, Draft
  <2>6. \A e \in Emails : entry'[e] = "active" => entry[e] = "active"
    BY <2>1, <2>5 DEF Write, rows, TypeOK
  <2> QED  BY <2>3, <2>4, <2>6 DEF Held
<1>10. ASSUME NEW r \in Runs, EndTurn(r) PROVE Held(r)
  <2>1. run' = [run EXCEPT ![r].pc = "record", ![r].decision = "fallback"]
        \/ run' = [run EXCEPT ![r].pc = "record"]
    BY <1>10 DEF EndTurn, Goto
  <2>2. run'[r].batch = run[r].batch /\ run'[r].pc = "record"
    BY <2>1, <1>0 DEF TypeOK, RunState
  <2>3. \A q \in Runs \ {r} : run'[q] = run[q]
    BY <2>1 DEF TypeOK
  <2> QED  BY <1>10, <2>2, <2>3 DEF EndTurn, rows, Held
<1>11. ASSUME NEW r \in Runs, RecordHandled(r) PROVE Held(r)
  <2>1. run[r].email \in Emails
    BY <1>11 DEF RecordHandled, At, HandsHaveRows
  <2>2. run'[r].pc = "claim" /\ run'[r].batch = run[r].batch
    BY <1>11, <1>0 DEF RecordHandled, TypeOK, RunState
  <2>3. \A q \in Runs \ {r} : run'[q] = run[q]
    BY <1>11 DEF RecordHandled, TypeOK
  <2>4. Write(run[r].email, "notified", 0) \/ UNCHANGED rows
    BY <1>11 DEF RecordHandled
  <2>5. \A e \in Emails : entry'[e] = "active" => entry[e] = "active"
    BY <2>1, <2>4 DEF Write, rows, TypeOK
  <2> QED  BY <2>2, <2>3, <2>5 DEF Held
<1>12. ASSUME NEW r \in Runs, Finish(r) PROVE Held(r)
  <2>1. run[r].batch = {} /\ run'[r].batch = run[r].batch
    BY <1>12, <1>0 DEF Finish, Goto, TypeOK, RunState
  <2>2. \A q \in Runs \ {r} : run'[q] = run[q]
    BY <1>12 DEF Finish, Goto, TypeOK
  <2> QED  BY <1>12, <2>1, <2>2 DEF Finish, rows, Held
<1>13. ASSUME NEW r \in Runs, PersistLastRun(r) PROVE Held(r)
  <2>1. run[r].batch = {}
    BY <1>13 DEF PersistLastRun, At, BatchWhileClaiming
  <2>2. run'[r].batch = {} /\ \A q \in Runs \ {r} : run'[q] = run[q]
    BY <1>13 DEF PersistLastRun, Resting, TypeOK
  <2> QED  BY <1>13, <2>1, <2>2 DEF PersistLastRun, rows, Held
<1>14. CASE UNCHANGED <<rows, run>>
  BY <1>14 DEF rows, BatchWhileClaiming, ActiveIsInHand
<1>15. ASSUME NEW r \in Runs, Held(r) PROVE BatchWhileClaiming' /\ ActiveIsInHand'
  BY <1>15, ActiveKept
<1>16. (\E r \in Runs : Held(r)) \/ UNCHANGED <<rows, run>>
  BY <1>1, <1>2, <1>3, <1>4, <1>5, <1>6, <1>7, <1>8, <1>9, <1>10, <1>11, <1>12, <1>13
  DEF Next, Step, Tick, Arrive, TimeIsUp, Throw, Abort, vars, rows
<1> QED  BY <1>14, <1>15, <1>16

(* Where runs neither throw nor are killed, an active row is in the hands  *)
(* of a run that has yet to claim it (resurfaceSnoozedEmail).              *)
THEOREM ActiveTheorem ==
  ASSUME "throw" \notin Faults, "abort" \notin Faults
  PROVE  Spec => []ActiveIsInHand
<1>1. Init => ActiveInv
  <2>1. Init => BatchWhileClaiming /\ ActiveIsInHand
    BY DEF Init, BatchWhileClaiming, ActiveIsInHand, Resting
  <2> QED  BY <2>1, InitClaim DEF ActiveInv
<1>2. ActiveInv => ActiveIsInHand
  BY DEF ActiveInv
<1>3. ActiveInv /\ [Next]_vars => ActiveInv'
  BY ActiveStep
<1> QED  BY <1>1, <1>2, <1>3, PTL DEF Spec
-----------------------------------------------------------------------------
(* Snoozes.  An email that is snoozed came in before the window that will  *)
(* be read next begins, or will have once the run that snoozed it has      *)
(* written down when it started; so a run that starts when that is done    *)
(* does not fetch it.  That holds until a write of the timestamp slips.    *)

Came(e, t) == arrived[e] # NotYet /\ arrived[e] < t

(* The emails a run has read and may still claim or triage.                *)
Mine(r) == run[r].fresh \cup run[r].batch \cup {run[r].email}

(* Email e comes before run r's window ends, or r ends after a younger one *)
(* and its write will slip.                                                *)
Ahead(e, r) == Came(e, run[r].end) \/ lastRun >= run[r].end

(* A snooze lies after the email's arrival.                                *)
MailInv ==
  \A e \in Emails : arrived[e] <= clock /\ (entry[e] = "snoozed" => Came(e, until[e]))

(* What a run has read came in before it started.                          *)
ReadInv(r) ==
  /\ run[r].end <= clock
  /\ \A e \in run[r].due : Came(e, run[r].end)
  /\ run[r].pc \in {"due", "resurface"} /\ ~slipped =>
       run[r].since < run[r].end \/ lastRun >= run[r].end
  /\ \A e \in Mine(r) \cap Emails : arrived[e] # NotYet /\ (~slipped => Ahead(e, r))

(* The window that is read next begins after a snoozed email came in.      *)
Snoozer(e, q) == e \in run[q].snoozed /\ run[q].pc # "idle" /\ Ahead(e, q)
SeenInv ==
  ~slipped => \A e \in Emails : entry[e] = "snoozed" =>
    Came(e, lastRun) \/ \E q \in Runs : Snoozer(e, q)

(* An email a run is to leave alone is in its hands only to be resurfaced. *)
SparedInv(r) ==
  \A e \in spared[r] : entry[e] = "snoozed" /\ run[r].pc # "idle" =>
    /\ e \in run[r].due => until[e] <= run[r].end
    /\ ~slipped => /\ run[r].pc = "resolve" => Came(e, lastRun)
                   /\ run[r].pc \in {"due", "resurface"} => arrived[e] < run[r].since
                   /\ e \notin Mine(r)

SnoozeInv == MailInv /\ SeenInv /\ \A r \in Runs : ReadInv(r) /\ SparedInv(r)

(* The property, of one run's step.                                        *)
Respects(r) ==
  \A e \in spared[r] : entry[e] = "snoozed" /\ entry'[e] # "snoozed" => until[e] <= clock \/ slipped

(* What every step of run r does but its start and its end: a row becomes  *)
(* snoozed only by its snooze tool.                                        *)
SnoozedBy(e, r) ==
  /\ e = run[r].email /\ e \in run'[r].snoozed /\ clock < until'[e]
  /\ \A q \in Runs : e \notin spared'[q]
Goes(r) ==
  /\ UNCHANGED <<clock, arrived, lastRun, slipped>>
  /\ \A q \in Runs : spared'[q] \subseteq spared[q] /\ (q # r => run'[q] = run[q])
  /\ run[r].pc # "idle" /\ run'[r].pc # "idle" /\ run'[r].end = run[r].end
  /\ run[r].snoozed \subseteq run'[r].snoozed
  /\ \A e \in Emails : entry'[e] = "snoozed" =>
       \/ entry[e] = "snoozed" /\ until'[e] = until[e]
       \/ SnoozedBy(e, r)

-----------------------------------------------------------------------------
(* The numbers a run compares.                                             *)
LEMMA Numbers ==
  ASSUME TypeOK, NEW r \in Runs
  PROVE  /\ run[r] \in RunState /\ spared[r] \subseteq Emails
         /\ clock \in Nat /\ lastRun \in Int /\ run[r].end \in Nat /\ run[r].since \in Int
         /\ lastRun >= -1
         /\ run[r].due \subseteq Emails /\ run[r].batch \subseteq Emails
         /\ run[r].fresh \subseteq Emails
<1>1. run[r] \in RunState
  BY DEF TypeOK
<1> QED  BY <1>1, Bounds DEF RunState, TypeOK, Never

LEMMA MailNumbers ==
  ASSUME TypeOK, NEW e \in Emails
  PROVE  arrived[e] \in Int /\ until[e] \in Int /\ (arrived[e] # NotYet => arrived[e] > 0)
  BY Bounds DEF TypeOK, NotYet

(* A step of a run keeps what the invariant says of the rows and of the    *)
(* other runs.                                                             *)
LEMMA GoesKept ==
  ASSUME TypeOK, TypeOK', SnoozeInv, NEW r \in Runs, Goes(r), ReadInv(r)', SparedInv(r)'
  PROVE  SnoozeInv'
<1>0. \A e \in Emails : e = run[r].email => arrived[e] # NotYet /\ (~slipped => Ahead(e, r))
  BY DEF SnoozeInv, ReadInv, Mine
<1>1. MailInv'
  <2> SUFFICES ASSUME NEW e \in Emails
               PROVE  arrived[e] <= clock /\ (entry'[e] = "snoozed" => Came(e, until'[e]))
    BY DEF MailInv, Came, Goes
  <2>1. arrived[e] <= clock /\ (entry[e] = "snoozed" => Came(e, until[e]))
    BY DEF SnoozeInv, MailInv
  <2>2. SnoozedBy(e, r) => Came(e, until'[e])
    <3>1. arrived[e] \in Int /\ until'[e] \in Int /\ clock \in Int
      BY MailNumbers, Numbers, Bounds DEF TypeOK
    <3> QED  BY <1>0, <2>1, <3>1 DEF SnoozedBy, Came
  <2> QED  BY <2>1, <2>2 DEF Goes
<1>2. SeenInv'
  <2> SUFFICES ASSUME ~slipped, NEW e \in Emails, entry'[e] = "snoozed"
               PROVE  Came(e, lastRun) \/ \E q \in Runs : Snoozer(e, q)'
    BY DEF SeenInv, Came, Goes
  <2>1. ASSUME NEW q \in Runs, Snoozer(e, q) PROVE Snoozer(e, q)'
    BY <2>1 DEF Snoozer, Ahead, Came, Goes
  <2>2. CASE entry[e] = "snoozed"
    BY <2>1, <2>2 DEF SnoozeInv, SeenInv
  <2>3. CASE SnoozedBy(e, r)
    <3>1. Snoozer(e, r)'
      BY <1>0, <2>3 DEF SnoozedBy, Snoozer, Ahead, Came, Goes
    <3> QED  BY <3>1
  <2> QED  BY <2>2, <2>3 DEF Goes
<1>3. ASSUME NEW q \in Runs, q # r PROVE ReadInv(q)' /\ SparedInv(q)'
  <2>1. run'[q] = run[q] /\ UNCHANGED <<clock, arrived, lastRun, slipped>>
    BY <1>3 DEF Goes
  <2>2. ReadInv(q)'
    BY <2>1 DEF SnoozeInv, ReadInv, Mine, Ahead, Came
  <2>3. \A e \in spared'[q] : e \in spared[q] /\ (entry'[e] = "snoozed" =>
                                entry[e] = "snoozed" /\ until'[e] = until[e])
    BY Numbers DEF Goes, SnoozedBy
  <2>4. SparedInv(q)'
    BY <2>1, <2>3 DEF SnoozeInv, SparedInv, Mine, Came
  <2> QED  BY <2>2, <2>4
<1> QED  BY <1>1, <1>2, <1>3 DEF SnoozeInv

(* A run that has read its window only lets go of what it has.             *)
LEMMA OwnKept ==
  ASSUME TypeOK, SnoozeInv, NEW r \in Runs, Goes(r),
         run'[r].pc \notin {"resolve", "due", "resurface"}, run'[r].due \subseteq run[r].due,
         \A e \in Emails : e \in Mine(r)' => e \in Mine(r)
  PROVE  ReadInv(r)' /\ SparedInv(r)'
<1>1. ReadInv(r)'
  BY DEF SnoozeInv, ReadInv, Ahead, Came, Goes
<1>2. \A e \in spared'[r] : /\ e \in Emails /\ e \in spared[r]
                            /\ entry'[e] = "snoozed" =>
                                 entry[e] = "snoozed" /\ until'[e] = until[e]
  BY Numbers DEF Goes, SnoozedBy
<1>3. SparedInv(r)'
  BY <1>2 DEF SnoozeInv, SparedInv, Goes
<1> QED  BY <1>1, <1>3

(* A run that writes only rows of emails it has leaves the spared alone.   *)
LEMMA OwnRespects ==
  ASSUME TypeOK, SnoozeInv, NEW r \in Runs, run[r].pc # "idle",
         \A e \in Emails : e \in Mine(r) \/ entry'[e] = entry[e]
  PROVE  Respects(r)
  BY Numbers DEF SnoozeInv, SparedInv, Respects

(* A run that starts has nothing in hand, and spares what was snoozed by   *)
(* runs that have ended.                                                   *)
LEMMA StartKept ==
  ASSUME TypeOK, TypeOK', SnoozeInv, NEW r \in Runs, Start(r)
  PROVE  SnoozeInv' /\ Respects(r)
<1>1. UNCHANGED <<clock, arrived, entry, until, lastRun, slipped>> /\ run[r].pc = "idle"
  BY DEF Start, mailbox, rows, At
<1>2. /\ run'[r].pc = "resolve" /\ run'[r].end = clock /\ run'[r].email = NoEmail
      /\ run'[r].due = {} /\ run'[r].batch = {} /\ run'[r].fresh = {}
  BY DEF Start, Resting, TypeOK
<1>3. \A q \in Runs : q # r => run'[q] = run[q] /\ spared'[q] = spared[q]
  BY DEF Start, TypeOK
<1>4. spared'[r] = {e \in Emails : entry[e] = "snoozed" /\ \A q \in Runs : e \notin run[q].snoozed}
  BY DEF Start, TypeOK
<1>5. \A e \in Emails : e \notin Mine(r)'
  BY <1>2, TriageAssumption DEF Mine
<1>6. MailInv'
  BY <1>1 DEF SnoozeInv, MailInv, Came
<1>7. SeenInv'
  <2>1. ASSUME NEW e, NEW q \in Runs, Snoozer(e, q) PROVE Snoozer(e, q)'
    <3>1. q # r
      BY <1>1, <2>1 DEF Snoozer
    <3> QED  BY <1>1, <1>3, <2>1, <3>1 DEF Snoozer, Ahead, Came
  <2> QED  BY <1>1, <2>1 DEF SnoozeInv, SeenInv, Came
<1>8. ReadInv(r)'
  BY <1>1, <1>2, <1>5, Numbers DEF ReadInv
<1>9. SparedInv(r)'
  <2> SUFFICES ASSUME NEW e \in spared'[r]
               PROVE  ~slipped => Came(e, lastRun)
    BY <1>1, <1>2, <1>4, <1>5 DEF SparedInv, Came
  <2> QED  BY <1>4 DEF SnoozeInv, SeenInv, Snoozer
<1>10. ASSUME NEW q \in Runs, q # r PROVE ReadInv(q)' /\ SparedInv(q)'
  <2>1. run'[q] = run[q] /\ spared'[q] = spared[q]
    BY <1>3, <1>10
  <2> QED  BY <1>1, <2>1 DEF SnoozeInv, ReadInv, SparedInv, Mine, Ahead, Came
<1> QED  BY <1>1, <1>6, <1>7, <1>8, <1>9, <1>10 DEF SnoozeInv, Respects

(* A run that ends has written when it started, or its write has slipped.  *)
LEMMA StopKept ==
  ASSUME TypeOK, TypeOK', SnoozeInv, NEW r \in Runs, PersistLastRun(r) \/ Abort(r)
  PROVE  SnoozeInv' /\ Respects(r)
<1>1. UNCHANGED <<clock, arrived, entry, until, spared>>
  BY DEF PersistLastRun, Abort, mailbox, rows
<1>2. /\ run'[r].pc = "idle" /\ run'[r].end = run[r].end /\ run'[r].email = NoEmail
      /\ run'[r].due = {} /\ run'[r].batch = {} /\ run'[r].fresh = {}
  BY DEF PersistLastRun, Abort, Resting, TypeOK
<1>3. \A q \in Runs : q # r => run'[q] = run[q]
  BY DEF PersistLastRun, Abort, TypeOK
<1>4. ~slipped' => ~slipped /\ lastRun' = run[r].end /\ ~(lastRun' <= lastRun)
  BY DEF PersistLastRun, Abort
<1>5. lastRun \in Int /\ lastRun' \in Int /\ \A q \in Runs : run[q].end \in Int
  BY Numbers, Bounds DEF TypeOK, Never
<1>6. ~slipped' => ~slipped /\ lastRun' = run[r].end /\ lastRun < lastRun'
  BY <1>4, <1>5
<1>7. \A e \in Emails : ~slipped' /\ Came(e, lastRun) => Came(e, lastRun')
  BY <1>5, <1>6, MailNumbers DEF Came
<1>8. MailInv'
  BY <1>1 DEF SnoozeInv, MailInv, Came
<1>9. SeenInv'
  <2> SUFFICES ASSUME ~slipped', NEW e \in Emails, entry[e] = "snoozed"
               PROVE  Came(e, lastRun') \/ \E q \in Runs : Snoozer(e, q)'
    BY <1>1 DEF SeenInv, Came
  <2>1. CASE Came(e, lastRun)
    BY <1>7, <2>1
  <2>2. ASSUME NEW q \in Runs, Snoozer(e, q)
        PROVE  Came(e, lastRun') \/ \E p \in Runs : Snoozer(e, p)'
    <3>1. CASE q = r
      <4>1. Came(e, run[r].end)
        BY <1>5, <1>6, <2>2, <3>1 DEF Snoozer, Ahead
      <4> QED  BY <1>6, <4>1
    <3>2. CASE q # r
      <4>1. Ahead(e, q)'
        <5>1. lastRun >= run[q].end => lastRun' >= run[q].end
          BY <1>5, <1>6
        <5> QED  BY <1>1, <1>3, <2>2, <3>2, <5>1 DEF Snoozer, Ahead, Came
      <4> QED  BY <1>3, <2>2, <3>2, <4>1 DEF Snoozer
    <3> QED  BY <3>1, <3>2
  <2> QED  BY <1>6, <2>1, <2>2 DEF SnoozeInv, SeenInv
<1>10. ReadInv(r)' /\ SparedInv(r)'
  <2>1. \A e \in Emails : e \notin Mine(r)'
    BY <1>2, TriageAssumption DEF Mine
  <2> QED  BY <1>1, <1>2, <2>1 DEF SnoozeInv, ReadInv, SparedInv
<1>11. ASSUME NEW q \in Runs, q # r PROVE ReadInv(q)' /\ SparedInv(q)'
  <2>1. run'[q] = run[q] /\ ReadInv(q) /\ SparedInv(q)
    BY <1>3, <1>11 DEF SnoozeInv
  <2>2. ~slipped' /\ lastRun >= run[q].end => lastRun' >= run[q].end
    BY <1>5, <1>6
  <2>3. ReadInv(q)'
    BY <1>1, <1>6, <2>1, <2>2 DEF ReadInv, Mine, Ahead, Came
  <2>4. \A e \in spared[q] : ~slipped' /\ Came(e, lastRun) => Came(e, lastRun')
    BY <1>7, Numbers
  <2>5. SparedInv(q)'
    BY <1>1, <1>6, <2>1, <2>4 DEF SparedInv, Mine, Came
  <2> QED  BY <2>3, <2>5
<1> QED  BY <1>1, <1>8, <1>9, <1>10, <1>11 DEF SnoozeInv, Respects

(* The clock and new mail change nothing of what a run has seen.           *)
LEMMA MailKept ==
  ASSUME TypeOK, TypeOK', SnoozeInv, Tick \/ \E e \in Emails : Arrive(e)
  PROVE  SnoozeInv'
<1>1. UNCHANGED <<entry, until, lastRun, run, spared, slipped>>
  BY DEF Tick, Arrive, rows, history, ghosts
<1>2. clock \in Int /\ clock' \in Int /\ clock' >= clock
  BY Bounds DEF Tick, Arrive, TypeOK
<1>3. \A e \in Emails : /\ arrived[e] # NotYet => arrived'[e] = arrived[e]
                        /\ arrived'[e] = arrived[e] \/ arrived'[e] = clock'
  BY DEF Tick, Arrive, TypeOK
<1>4. \A e \in Emails, t \in Int : Came(e, t) => Came(e, t)'
  BY <1>3 DEF Came
<1>5. MailInv'
  <2> SUFFICES ASSUME NEW e \in Emails
               PROVE  arrived'[e] <= clock' /\ (entry[e] = "snoozed" => Came(e, until[e])')
    BY <1>1 DEF MailInv, Came
  <2>1. arrived[e] <= clock /\ arrived[e] \in Int /\ until[e] \in Int
    BY MailNumbers DEF SnoozeInv, MailInv
  <2>2. entry[e] = "snoozed" => Came(e, until[e])'
    BY <1>1, <1>3 DEF SnoozeInv, MailInv, Came
  <2> QED  BY <1>2, <1>3, <2>1, <2>2
<1>6. SeenInv'
  <2>1. \A e \in Emails, q \in Runs : Snoozer(e, q) => Snoozer(e, q)'
    BY <1>1, <1>3 DEF Snoozer, Ahead, Came
  <2>2. \A e \in Emails : Came(e, lastRun) => Came(e, lastRun)'
    BY <1>1, <1>3 DEF Came
  <2> QED  BY <1>1, <2>1, <2>2 DEF SnoozeInv, SeenInv
<1>7. ASSUME NEW r \in Runs PROVE ReadInv(r)' /\ SparedInv(r)'
  <2>1. ReadInv(r) /\ SparedInv(r)
    BY DEF SnoozeInv
  <2>2. run[r].end <= clock'
    BY <1>2, <2>1, Numbers DEF ReadInv
  <2>3. \A e \in run[r].due : Came(e, run[r].end)'
    BY <1>1, <1>3, <2>1, Numbers DEF ReadInv, Came
  <2>4. \A e \in Mine(r) \cap Emails : arrived'[e] # NotYet /\ (~slipped => Ahead(e, r)')
    BY <1>1, <1>3, <2>1 DEF ReadInv, Ahead, Came
  <2>5. ReadInv(r)'
    BY <1>1, <2>1, <2>2, <2>3, <2>4 DEF ReadInv, Mine
  <2>6. \A e \in spared[r] : e \in Emails /\ (entry[e] = "snoozed" => arrived'[e] = arrived[e])
    BY <1>3, Numbers DEF SnoozeInv, MailInv, Came
  <2>7. SparedInv(r)'
    BY <1>1, <2>1, <2>6 DEF SparedInv, Mine, Came
  <2> QED  BY <2>5, <2>7
<1> QED  BY <1>5, <1>6, <1>7 DEF SnoozeInv

-----------------------------------------------------------------------------
(* What a step does to the run's own record.                               *)
LEMMA OwnRun ==
  ASSUME TypeOK, NEW r \in Runs, NEW s, run' = [run EXCEPT ![r] = s]
  PROVE  run'[r] = s /\ \A q \in Runs : q # r => run'[q] = run[q]
  BY DEF TypeOK

(* The window starts where an ended run did.                               *)
LEMMA ResolveKept ==
  ASSUME TypeOK, TypeOK', SnoozeInv, NEW r \in Runs, Resolve(r)
  PROVE  SnoozeInv' /\ Respects(r)
<1> DEFINE since == IF lastRun = Never THEN run[r].end - DefaultWindow ELSE lastRun
<1>1. run' = [run EXCEPT ![r] = [run[r] EXCEPT !.pc = "due", !.since = since]]
  BY Zenon DEF Resolve
<1>2. /\ run'[r].pc = "due" /\ run'[r].since = since /\ run'[r].end = run[r].end
      /\ run'[r].due = run[r].due /\ run'[r].snoozed = run[r].snoozed
      /\ run'[r].fresh = run[r].fresh /\ run'[r].batch = run[r].batch
      /\ run'[r].email = run[r].email
  BY <1>1, Numbers DEF TypeOK, RunState
<1>3. UNCHANGED <<clock, arrived, entry, until, lastRun, spared, slipped>> /\ run[r].pc = "resolve"
  BY DEF Resolve, mailbox, rows, history, ghosts, At
<1>4. Goes(r)
  BY <1>1, <1>2, <1>3, OwnRun DEF Goes
<1>5. ReadInv(r)'
  <2>1. since < run[r].end \/ lastRun >= run[r].end
    BY Numbers, Bounds
  <2> QED  BY <1>2, <1>3, <2>1 DEF SnoozeInv, ReadInv, Mine, Ahead, Came
<1>6. SparedInv(r)'
  <2>1. \A e \in Emails : Came(e, lastRun) => arrived[e] < since
    BY Numbers, MailNumbers DEF Came, Never
  <2> QED  BY <1>2, <1>3, <2>1, Numbers DEF SnoozeInv, SparedInv, Mine
<1> QED  BY <1>3, <1>4, <1>5, <1>6, GoesKept DEF Respects

(* What is due was snoozed until the run's start at the latest, and came   *)
(* in before that.                                                         *)
LEMMA DueKept ==
  ASSUME TypeOK, TypeOK', SnoozeInv, NEW r \in Runs, ReadDue(r)
  PROVE  SnoozeInv' /\ Respects(r)
<1>1. run' = [run EXCEPT ![r] = [run[r] EXCEPT !.pc = "resurface", !.due = DueRows(run[r].end)]]
  BY Zenon DEF ReadDue
<1>2. /\ run'[r].pc = "resurface" /\ run'[r].since = run[r].since /\ run'[r].end = run[r].end
      /\ run'[r].due = DueRows(run[r].end) /\ run'[r].snoozed = run[r].snoozed
      /\ run'[r].fresh = run[r].fresh /\ run'[r].batch = run[r].batch
      /\ run'[r].email = run[r].email
  BY <1>1, Numbers DEF TypeOK, RunState
<1>3. UNCHANGED <<clock, arrived, entry, until, lastRun, spared, slipped>> /\ run[r].pc = "due"
  BY DEF ReadDue, mailbox, rows, history, ghosts, At
<1>4. Goes(r)
  BY <1>1, <1>2, <1>3, OwnRun DEF Goes
<1>5. \A e \in DueRows(run[r].end) : until[e] <= run[r].end /\ Came(e, run[r].end)
  BY Numbers, MailNumbers DEF DueRows, SnoozeInv, MailInv, Came
<1>6. ReadInv(r)'
  BY <1>2, <1>3, <1>5 DEF SnoozeInv, ReadInv, Mine, Ahead, Came
<1>7. SparedInv(r)'
  BY <1>2, <1>3, <1>5 DEF SnoozeInv, SparedInv, Mine
<1> QED  BY <1>3, <1>4, <1>6, <1>7, GoesKept DEF Respects

(* Only emails that are due are resurfaced.                                *)
LEMMA ResurfaceKept ==
  ASSUME TypeOK, TypeOK', SnoozeInv, NEW r \in Runs, Resurface(r)
  PROVE  SnoozeInv' /\ Respects(r)
<1>1. PICK e \in run[r].due :
        \/ /\ Write(e, "active", 0)
           /\ run' = [run EXCEPT ![r].due = @ \ {e}, ![r].batch = @ \cup {e}]
        \/ /\ run' = [run EXCEPT ![r].due = @ \ {e}]
           /\ UNCHANGED rows
  BY DEF Resurface
<1>2. /\ run'[r].pc = run[r].pc /\ run'[r].since = run[r].since /\ run'[r].end = run[r].end
      /\ run'[r].due = run[r].due \ {e} /\ run'[r].snoozed = run[r].snoozed
      /\ run'[r].fresh = run[r].fresh /\ run'[r].email = run[r].email
      /\ \A q \in Runs : q # r => run'[q] = run[q]
  BY <1>1, Numbers DEF TypeOK, RunState
<1>3. /\ UNCHANGED <<clock, arrived, lastRun, spared, slipped>>
      /\ run[r].pc = "resurface" /\ e \in Emails
  BY <1>1, Numbers DEF Resurface, mailbox, history, ghosts, At
<1>4. \/ /\ run'[r].batch = run[r].batch \cup {e} /\ entry'[e] = "active"
         /\ \A f \in Emails : f # e => entry'[f] = entry[f] /\ until'[f] = until[f]
      \/ run'[r].batch = run[r].batch /\ UNCHANGED rows
  BY <1>1, <1>3, Numbers DEF TypeOK, RunState, Write
<1>5. Goes(r)
  BY <1>2, <1>3, <1>4 DEF Goes, rows
<1>6. ReadInv(r)'
  <2>1. Came(e, run[r].end)
    BY <1>1 DEF SnoozeInv, ReadInv
  <2>2. Mine(r)' \subseteq Mine(r) \cup {e}
    BY <1>2, <1>4 DEF Mine
  <2> QED  BY <1>2, <1>3, <2>1, <2>2 DEF SnoozeInv, ReadInv, Ahead, Came
<1>7. SparedInv(r)'
  <2> SUFFICES ASSUME NEW f \in spared[r], entry'[f] = "snoozed"
               PROVE  /\ f \in run'[r].due => until'[f] <= run[r].end
                      /\ ~slipped => arrived[f] < run[r].since /\ f \notin Mine(r)'
    BY <1>2, <1>3 DEF SparedInv
  <2>1. f \in Emails /\ entry[f] = "snoozed" /\ until'[f] = until[f]
    BY <1>4, Numbers DEF rows
  <2>2. f \in Mine(r)' => f \in Mine(r)
    BY <1>2, <1>4 DEF Mine
  <2> QED  BY <1>2, <1>3, <2>1, <2>2 DEF SnoozeInv, SparedInv
<1>8. Respects(r)
  <2> SUFFICES ASSUME NEW f \in spared[r], entry[f] = "snoozed", entry'[f] # "snoozed"
               PROVE  until[f] <= clock
    BY DEF Respects
  <2>1. f \in Emails /\ f = e
    BY <1>4, Numbers DEF rows
  <2>2. until[f] <= run[r].end /\ run[r].end <= clock
    BY <1>1, <1>3, <2>1 DEF SnoozeInv, SparedInv, ReadInv
  <2> QED  BY <2>1, <2>2, Numbers, MailNumbers
<1> QED  BY <1>5, <1>6, <1>7, <1>8, GoesKept

(* The window begins after what the run is to spare.                       *)
LEMMA FetchKept ==
  ASSUME TypeOK, TypeOK', SnoozeInv, NEW r \in Runs, FetchWindow(r)
  PROVE  SnoozeInv' /\ Respects(r)
<1>1. PICK N \in SUBSET InWindow(r) : run' = [run EXCEPT ![r].pc = "filter", ![r].fresh = N]
  BY DEF FetchWindow, Newest
<1>2. run' = [run EXCEPT ![r] = [run[r] EXCEPT !.pc = "filter", !.fresh = N]]
  BY <1>1, Zenon
<1>3. /\ run'[r].pc = "filter" /\ run'[r].end = run[r].end /\ run'[r].due = run[r].due
      /\ run'[r].snoozed = run[r].snoozed /\ run'[r].fresh = N
      /\ run'[r].batch = run[r].batch /\ run'[r].email = run[r].email
  BY <1>2, Numbers DEF TypeOK, RunState
<1>4. /\ UNCHANGED <<clock, arrived, entry, until, lastRun, spared, slipped>>
      /\ run[r].pc = "resurface"
  BY DEF FetchWindow, mailbox, rows, history, ghosts, At
<1>5. Goes(r)
  BY <1>2, <1>3, <1>4, OwnRun DEF Goes
<1>6. \A e \in N : /\ e \in Emails /\ arrived[e] # NotYet /\ run[r].since <= arrived[e]
                   /\ arrived[e] < run[r].end \/ arrived[e] = run[r].since
  BY <1>1 DEF InWindow
<1>7. \A e \in Emails : e \in Mine(r)' => e \in Mine(r) \/ e \in N
  BY <1>3 DEF Mine
<1>8. ReadInv(r)'
  <2>1. \A e \in N : ~slipped => Ahead(e, r)
    BY <1>4, <1>6 DEF SnoozeInv, ReadInv, Ahead, Came
  <2> QED  BY <1>3, <1>4, <1>6, <1>7, <2>1 DEF SnoozeInv, ReadInv, Ahead, Came
<1>9. SparedInv(r)'
  <2>1. \A e \in spared[r] : entry[e] = "snoozed" /\ ~slipped => e \notin N
    BY <1>4, <1>6, Numbers, MailNumbers DEF SnoozeInv, SparedInv
  <2> QED  BY <1>3, <1>4, <1>7, <2>1, Numbers DEF SnoozeInv, SparedInv
<1> QED  BY <1>4, <1>5, <1>8, <1>9, GoesKept DEF Respects

(* Handled emails are dropped, the rest is the batch.                      *)
LEMMA DropKept ==
  ASSUME TypeOK, TypeOK', SnoozeInv, NEW r \in Runs, DropHandled(r)
  PROVE  SnoozeInv' /\ Respects(r)
<1>1. run' = [run EXCEPT ![r] = [run[r] EXCEPT !.pc = "claim", !.batch = Unhandled(r), !.fresh = {}]]
  BY Zenon DEF DropHandled
<1>2. /\ run'[r].pc = "claim" /\ run'[r].end = run[r].end /\ run'[r].due = run[r].due
      /\ run'[r].snoozed = run[r].snoozed /\ run'[r].email = run[r].email
      /\ run'[r].fresh = {} /\ run'[r].batch = Unhandled(r)
  BY <1>1, Numbers DEF TypeOK, RunState
<1>3. /\ UNCHANGED <<clock, arrived, entry, until, lastRun, spared, slipped>>
      /\ run[r].pc = "filter"
  BY DEF DropHandled, mailbox, rows, history, ghosts, At
<1>4. Goes(r)
  BY <1>1, <1>2, <1>3, OwnRun DEF Goes
<1>5. \A e \in Emails : e \in Mine(r)' => e \in Mine(r)
  BY <1>2 DEF Mine, Unhandled
<1> QED  BY <1>2, <1>3, <1>4, <1>5, OwnKept, GoesKept DEF Respects

(* A claim writes the row of an email in the batch.                        *)
LEMMA ClaimKept ==
  ASSUME TypeOK, TypeOK', SnoozeInv, NEW r \in Runs, Claim(r)
  PROVE  SnoozeInv' /\ Respects(r)
<1>1. PICK e \in run[r].batch :
        \/ /\ Write(e, "notified", 0)
           /\ run' = [run EXCEPT ![r].pc = "triage", ![r].email = e, ![r].batch = @ \ {e}]
        \/ /\ run' = [run EXCEPT ![r].batch = @ \ {e}]
           /\ UNCHANGED rows
  <2>1. PICK e \in run[r].batch :
          \/ /\ Claimable(e)
             /\ Write(e, "notified", 0)
             /\ claims' = [claims EXCEPT ![e] = IF @ > MaxSnoozes THEN MaxSnoozes + 2 ELSE @ + 1]
             /\ run' = [run EXCEPT ![r].pc = "triage", ![r].email = e, ![r].batch = @ \ {e}]
          \/ /\ ~Claimable(e)
             /\ run' = [run EXCEPT ![r].batch = @ \ {e}]
             /\ UNCHANGED <<rows, claims>>
    BY Zenon DEF Claim
  <2>2. UNCHANGED <<rows, claims>> => UNCHANGED rows
    OBVIOUS
  <2> QED  BY <2>1, <2>2, Zenon
<1>2. UNCHANGED <<clock, arrived, lastRun, spared, slipped>> /\ run[r].pc = "claim" /\ e \in Emails
  BY <1>1, Numbers DEF Claim, mailbox, ghosts, At
<1>3. /\ run'[r].pc \in {"claim", "triage"} /\ run'[r].end = run[r].end
      /\ run'[r].due = run[r].due /\ run'[r].snoozed = run[r].snoozed
      /\ run'[r].fresh = run[r].fresh /\ run'[r].batch = run[r].batch \ {e}
      /\ run'[r].email \in {run[r].email, e}
      /\ \A q \in Runs : q # r => run'[q] = run[q]
  BY <1>1, <1>2, Numbers DEF TypeOK, RunState
<1>4. \A f \in Emails : \/ entry'[f] = entry[f] /\ until'[f] = until[f]
                        \/ f = e /\ entry'[f] = "notified"
  BY <1>1, <1>2 DEF Write, rows, TypeOK
<1>5. Goes(r)
  BY <1>2, <1>3, <1>4 DEF Goes
<1>6. \A f \in Emails : (f \in Mine(r)' => f \in Mine(r)) /\ (f = e => f \in Mine(r))
  BY <1>1, <1>3 DEF Mine
<1>7. Respects(r)
  BY <1>2, <1>4, <1>6, OwnRespects
<1> QED  BY <1>2, <1>3, <1>5, <1>6, <1>7, OwnKept, GoesKept

(* The model's calls.                                                      *)
LEMMA ModelKept ==
  ASSUME TypeOK, TypeOK', SnoozeInv, NEW r \in Runs, RunTriageModel(r)
  PROVE  SnoozeInv' /\ Respects(r)
<1>1. PICK T : run' = [run EXCEPT ![r].pc = "tools", ![r].calls = T, ![r].decision = "none"]
  BY Zenon DEF RunTriageModel
<1>2. run' = [run EXCEPT ![r] = [run[r] EXCEPT !.pc = "tools", !.calls = T, !.decision = "none"]]
  BY <1>1, Zenon
<1>3. /\ run'[r].pc = "tools" /\ run'[r].end = run[r].end /\ run'[r].due = run[r].due
      /\ run'[r].snoozed = run[r].snoozed /\ run'[r].email = run[r].email
      /\ run'[r].fresh = run[r].fresh /\ run'[r].batch = run[r].batch
  BY <1>2, Numbers DEF TypeOK, RunState
<1>4. /\ UNCHANGED <<clock, arrived, entry, until, lastRun, spared, slipped>>
      /\ run[r].pc = "triage"
  BY DEF RunTriageModel, mailbox, rows, history, ghosts, At
<1>5. Goes(r)
  BY <1>2, <1>3, <1>4, OwnRun DEF Goes
<1>6. Mine(r)' = Mine(r)
  BY <1>3 DEF Mine
<1> QED  BY <1>3, <1>4, <1>5, <1>6, OwnKept, GoesKept DEF Respects

(* A tool writes the row of the email in hand.                             *)
LEMMA ToolKept ==
  ASSUME TypeOK, TypeOK', SnoozeInv, NEW r \in Runs, UseTool(r), run[r].email \in Emails
  PROVE  SnoozeInv' /\ Respects(r)
<1> DEFINE e == run[r].email
<1>1. UNCHANGED <<clock, arrived, lastRun, slipped>> /\ run[r].pc = "tools"
  BY DEF UseTool, Ignore, SummariseTool, Archive, Snooze, Draft, mailbox, history, ghosts, At
<1>2. PICK t, d :
        /\ Record(r, t, d)
        /\ \/ UNCHANGED <<rows, spared>>
           \/ \E w \in {"archived", "drafted"} : Write(e, w, 0) /\ UNCHANGED spared
           \/ /\ t = "snooze" /\ d = "kept"
              /\ \E u \in clock + 1..MaxTime : Write(e, "snoozed", u)
              /\ spared' = [q \in Runs |-> spared[q] \ {e}]
  BY DEF UseTool, Ignore, SummariseTool, Archive, Snooze, Draft, history, ghosts, rows
<1>3. /\ run'[r].pc = "tools" /\ run'[r].end = run[r].end /\ run'[r].due = run[r].due
      /\ run'[r].fresh = run[r].fresh /\ run'[r].batch = run[r].batch /\ run'[r].email = e
      /\ run'[r].snoozed = IF <<t, d>> = <<"snooze", "kept">>
                           THEN run[r].snoozed \cup {e} ELSE run[r].snoozed
      /\ \A q \in Runs : q # r => run'[q] = run[q]
  BY <1>1, <1>2, Numbers DEF Record, TypeOK, RunState
<1> HIDE DEF e
<1>4. /\ \A f \in Emails : f # e => entry'[f] = entry[f] /\ until'[f] = until[f]
      /\ \/ UNCHANGED <<rows, spared>>
         \/ entry'[e] \in {"archived", "drafted"} /\ UNCHANGED spared
         \/ /\ until'[e] > clock /\ e \in run'[r].snoozed
            /\ spared' = [q \in Runs |-> spared[q] \ {e}]
  BY <1>2, <1>3, Numbers, Bounds DEF Write, rows, TypeOK, e
<1>5. Goes(r)
  <2>1. \A q \in Runs : spared'[q] \subseteq spared[q]
    BY <1>4 DEF rows
  <2>2. \A f \in Emails : entry'[f] = "snoozed" =>
          (entry[f] = "snoozed" /\ until'[f] = until[f]) \/ SnoozedBy(f, r)
    BY <1>4 DEF rows, SnoozedBy, e
  <2> QED  BY <1>1, <1>3, <2>1, <2>2 DEF Goes
<1>6. Mine(r)' = Mine(r) /\ e \in Mine(r)
  BY <1>3 DEF Mine, e
<1>7. Respects(r)
  BY <1>1, <1>4, <1>6, OwnRespects
<1> QED  BY <1>1, <1>3, <1>5, <1>6, <1>7, OwnKept, GoesKept

(* The turn ends.                                                          *)
LEMMA EndTurnKept ==
  ASSUME TypeOK, TypeOK', SnoozeInv, NEW r \in Runs, EndTurn(r)
  PROVE  SnoozeInv' /\ Respects(r)
<1>1. \/ run' = [run EXCEPT ![r].pc = "record", ![r].decision = "fallback"]
      \/ run' = [run EXCEPT ![r].pc = "record"]
  BY Zenon DEF EndTurn, Goto
<1>2. /\ run'[r].pc = "record" /\ run'[r].end = run[r].end /\ run'[r].due = run[r].due
      /\ run'[r].snoozed = run[r].snoozed /\ run'[r].email = run[r].email
      /\ run'[r].fresh = run[r].fresh /\ run'[r].batch = run[r].batch
      /\ \A q \in Runs : q # r => run'[q] = run[q]
  BY <1>1, Numbers DEF TypeOK, RunState
<1>3. /\ UNCHANGED <<clock, arrived, entry, until, lastRun, spared, slipped>>
      /\ run[r].pc = "tools"
  BY DEF EndTurn, mailbox, rows, ghosts, At
<1>4. Goes(r)
  BY <1>2, <1>3 DEF Goes
<1>5. Mine(r)' = Mine(r)
  BY <1>2 DEF Mine
<1> QED  BY <1>2, <1>3, <1>4, <1>5, OwnKept, GoesKept DEF Respects

(* recordHandled writes the row of the email in hand.                      *)
LEMMA RecordKept ==
  ASSUME TypeOK, TypeOK', SnoozeInv, NEW r \in Runs, RecordHandled(r)
  PROVE  SnoozeInv' /\ Respects(r)
<1>1. UNCHANGED <<clock, arrived, lastRun, spared, slipped>> /\ run[r].pc = "record"
  BY DEF RecordHandled, mailbox, history, ghosts, At
<1>2. Write(run[r].email, "notified", 0) \/ UNCHANGED rows
  BY DEF RecordHandled
<1>3. /\ run'[r].pc = "claim" /\ run'[r].end = run[r].end /\ run'[r].due = run[r].due
      /\ run'[r].snoozed = run[r].snoozed /\ run'[r].email = NoEmail
      /\ run'[r].fresh = run[r].fresh /\ run'[r].batch = run[r].batch
      /\ \A q \in Runs : q # r => run'[q] = run[q]
  BY Numbers DEF RecordHandled, TypeOK, RunState
<1>4. \A f \in Emails : \/ entry'[f] = entry[f] /\ until'[f] = until[f]
                        \/ f = run[r].email /\ entry'[f] = "notified"
  BY <1>2 DEF Write, rows, TypeOK
<1>5. Goes(r)
  BY <1>1, <1>3, <1>4 DEF Goes
<1>6. \A f \in Emails : (f \in Mine(r)' => f \in Mine(r)) /\ (f = run[r].email => f \in Mine(r))
  BY <1>3, TriageAssumption DEF Mine
<1>7. Respects(r)
  BY <1>1, <1>4, <1>6, OwnRespects
<1> QED  BY <1>1, <1>3, <1>5, <1>6, <1>7, OwnKept, GoesKept

(* A run that has claimed all it read, or throws, is left with its end.    *)
LEMMA FinishKept ==
  ASSUME TypeOK, TypeOK', SnoozeInv, NEW r \in Runs, Finish(r) \/ Throw(r)
  PROVE  SnoozeInv' /\ Respects(r)
<1> DEFINE rest == [Resting(run[r].end) EXCEPT !.pc = "persist", !.snoozed = run[r].snoozed]
<1>1. \/ run' = [run EXCEPT ![r] = [run[r] EXCEPT !.pc = "persist"]]
      \/ run' = [run EXCEPT ![r] = rest]
  BY Zenon DEF Finish, Goto, Throw
<1>2. /\ run'[r].pc = "persist" /\ run'[r].end = run[r].end /\ run'[r].due \subseteq run[r].due
      /\ run'[r].snoozed = run[r].snoozed
      /\ run'[r].fresh \subseteq run[r].fresh /\ run'[r].batch \subseteq run[r].batch
      /\ run'[r].email \in {run[r].email, NoEmail}
  <2>1. /\ rest.pc = "persist" /\ rest.end = run[r].end /\ rest.due = {}
        /\ rest.snoozed = run[r].snoozed /\ rest.fresh = {} /\ rest.batch = {}
        /\ rest.email = NoEmail
    BY DEF Resting
  <2> HIDE DEF rest
  <2>2. CASE run' = [run EXCEPT ![r] = [run[r] EXCEPT !.pc = "persist"]]
    BY <2>2, Numbers DEF TypeOK, RunState
  <2>3. CASE run' = [run EXCEPT ![r] = rest]
    <3>1. run'[r] = rest
      BY <2>3, OwnRun
    <3> QED  BY <2>1, <3>1
  <2> QED  BY <1>1, <2>2, <2>3 DEF rest
<1>3. /\ UNCHANGED <<clock, arrived, entry, until, lastRun, spared, slipped>>
      /\ run[r].pc # "idle"
  BY DEF Finish, Throw, mailbox, rows, history, ghosts, At
<1>4. \A q \in Runs : q # r => run'[q] = run[q]
  <2> HIDE DEF rest
  <2> QED  BY <1>1, OwnRun
<1>5. Goes(r)
  BY <1>2, <1>3, <1>4 DEF Goes
<1>6. \A e \in Emails : e \in Mine(r)' => e \in Mine(r)
  BY <1>2, TriageAssumption DEF Mine
<1> QED  BY <1>2, <1>3, <1>5, <1>6, OwnKept, GoesKept DEF Respects

-----------------------------------------------------------------------------
(* Every step keeps the invariant and respects what the run is to spare.   *)
LEMMA SnoozeStep ==
  ASSUME ClaimInv, TypeOK', SnoozeInv, [Next]_vars
  PROVE  SnoozeInv' /\ \A r \in Runs : run'[r] # run[r] => Respects(r)
<1>1. TypeOK
  BY DEF ClaimInv
<1>2. ASSUME NEW r \in Runs, Start(r) \/ Step(r) \/ Throw(r) \/ Abort(r)
      PROVE  /\ SnoozeInv' /\ Respects(r)
             /\ \A q \in Runs : q # r => run'[q] = run[q]
  <2>1. UseTool(r) => run[r].email \in Emails
    BY DEF UseTool, At, ClaimInv, HandsHaveRows
  <2>2. SnoozeInv' /\ Respects(r)
    BY <1>1, <1>2, <2>1, StartKept, ResolveKept, DueKept, ResurfaceKept, FetchKept, DropKept,
       ClaimKept, ModelKept, ToolKept, EndTurnKept, RecordKept, FinishKept, StopKept, Zenon
    DEF Step
  <2>3. CASE UseTool(r)
    <3>1. PICK t, d : Record(r, t, d)
      BY <2>3 DEF UseTool, Ignore, SummariseTool, Archive, Snooze, Draft
    <3> QED  BY <1>1, <2>2, <3>1 DEF Record, TypeOK
  <2>4. CASE ~UseTool(r)
    <3>1. \A q \in Runs : q # r => run'[q] = run[q]
      BY <1>1, <1>2, <2>4
      DEF Step, Start, Resolve, ReadDue, Resurface, FetchWindow, DropHandled, Claim,
          RunTriageModel, EndTurn, RecordHandled, Finish, Throw, PersistLastRun, Abort, Goto, TypeOK
    <3> QED  BY <2>2, <3>1
  <2> QED  BY <2>3, <2>4
<1>3. CASE Tick \/ \E e \in Emails : Arrive(e)
  <2>1. UNCHANGED run
    BY <1>3 DEF Tick, Arrive
  <2> QED  BY <1>1, <1>3, <2>1, MailKept
<1>4. CASE UNCHANGED vars
  <2>1. SnoozeInv'
    BY <1>4 DEF vars, SnoozeInv, MailInv, SeenInv, Snoozer, ReadInv, SparedInv, Mine, Ahead, Came
  <2> QED  BY <1>4, <2>1 DEF vars
<1> QED  BY <1>2, <1>3, <1>4 DEF Next, TimeIsUp

(* However many runs overlap, throw, are killed or fail to write, and      *)
(* however many calls the model makes in a turn, a run leaves an email     *)
(* alone that an ended run snoozed, until its time has come, unless a      *)
(* write of last_run_timestamp has slipped (persistLastRunTimestamp).      *)
THEOREM SnoozeRespectedTheorem == Spec => SnoozeRespected
<1>1. Init => SnoozeInv
  <2>1. Init => \A e \in Emails : arrived[e] \in Int /\ arrived[e] <= clock /\ entry[e] = "absent"
    BY DEF Init, NotYet
  <2>2. Init => \A r \in Runs : /\ run[r].pc = "idle" /\ run[r].end = 0 /\ run[r].due = {}
                                /\ run[r].fresh = {} /\ run[r].batch = {}
                                /\ run[r].email = NoEmail /\ clock = 1
    BY DEF Init, Resting
  <2> QED  BY <2>1, <2>2, TriageAssumption DEF SnoozeInv, MailInv, SeenInv, ReadInv, SparedInv, Mine
<1>2. ClaimInv /\ SnoozeInv /\ [Next]_vars =>
        [\A r \in Runs : \A e \in spared[r] :
           run'[r] # run[r] /\ entry[e] = "snoozed" /\ entry'[e] # "snoozed"
             => until[e] <= clock \/ slipped]_vars
  <2>1. ClaimInv /\ [Next]_vars => TypeOK'
    BY TypeStep
  <2> QED  BY <2>1, SnoozeStep DEF Respects
<1>3. ClaimInv /\ SnoozeInv /\ [Next]_vars => ClaimInv' /\ SnoozeInv'
  BY ClaimStep, SnoozeStep DEF ClaimInv
<1> QED  BY InitClaim, <1>1, <1>2, <1>3, PTL DEF Spec, SnoozeRespected
=============================================================================
