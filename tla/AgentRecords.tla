----------------------------- MODULE AgentRecords -----------------------------
(***************************************************************************)
(* What a run leaves for the user to read: its row, its decisions, its     *)
(* share of the month's usage (the end of web/features/agent/run-agent.ts, *)
(* web/db/queries/agent-runs.ts, agent-decisions.ts and user-usage.ts),    *)
(* and the pages of the decision list (web/components/agent).  Runs end    *)
(* while the user leafs through the list.                                  *)
(***************************************************************************)
EXTENDS Integers, FiniteSetsExt

CONSTANTS
  Runs,       \* runs of the user's accounts
  Months,     \* 1..n, in which a run may start
  Times,      \* createdAt of decisions; a bulk insert gives all rows one
  DecisionIds, \* random identifiers, as numbers
  PerRun,     \* bound: decisions of a run
  PageSize,   \* DECISIONS_PER_PAGE
  RecordFaults \* {"throw"} if a query may throw

ASSUME AgentRecordsAssumption ==
  /\ Months \subseteq Nat /\ Times \subseteq Nat /\ DecisionIds \subseteq Nat
  /\ IsFiniteSet(Runs) /\ IsFiniteSet(Months) /\ IsFiniteSet(DecisionIds) /\ DecisionIds # {}
  /\ PerRun \in Nat /\ PageSize \in Nat \ {0}
  /\ RecordFaults \subseteq {"throw"}

VARIABLES
  run,       \* where each run is; the month it started in; its decisions
  decisions, \* agent_decisions: <<createdAt, id>>
  usage,     \* user_usage: emails counted in each month
  counted,   \* runs whose usage was added
  pager      \* the decision list as the user reads it

recordVars == <<run, decisions, usage, counted, pager>>

Decision == Times \X DecisionIds
Closed == [pc |-> "closed", page |-> 1, pages |-> 0, rows |-> {}, seen |-> {}, expected |-> {}]
MaxPages == Cardinality(DecisionIds)

RecordTypeOK ==
  /\ run \in [Runs -> [pc : {"busy", "row", "decisions", "usage", "over"}, month : Months,
                       found : 0..PerRun]]
  /\ decisions \subseteq Decision
  /\ usage \in [Months -> Nat]
  /\ counted \subseteq Runs
  /\ pager \in [pc : {"closed", "counted", "shown"}, page : 1..MaxPages, pages : 0..MaxPages,
                rows : SUBSET decisions, seen : SUBSET decisions, expected : SUBSET decisions]

RecordInit ==
  /\ run \in [Runs -> [pc : {"busy"}, month : Months, found : {0}]]
  /\ decisions = {} /\ counted = {}
  /\ usage = [m \in Months |-> 0]
  /\ pager = Closed

-----------------------------------------------------------------------------
RunAt(r, pc) == run[r].pc = pc
RunGoto(r, pc) == run' = [run EXCEPT ![r].pc = pc]

(* processEmails returns: a decision for each email claimed.               *)
Processed(r, n) ==
  /\ RunAt(r, "busy")
  /\ run' = [run EXCEPT ![r].pc = "row", ![r].found = n]
  /\ UNCHANGED <<decisions, usage, counted, pager>>

(* It throws: an error row is saved, with no usage.                        *)
Failed(r) ==
  /\ RunAt(r, "busy")
  /\ RunGoto(r, "over")
  /\ UNCHANGED <<decisions, usage, counted, pager>>

(* saveRunResult; without a row the decisions have nothing to refer to.    *)
SaveRun(r) ==
  /\ RunAt(r, "row")
  /\ \/ RunGoto(r, "decisions")
     \/ "throw" \in RecordFaults /\ RunGoto(r, "usage")
  /\ UNCHANGED <<decisions, usage, counted, pager>>

(* persistDecisions.                                                       *)
SaveDecisions(r) ==
  /\ RunAt(r, "decisions")
  /\ RunGoto(r, "usage")
  /\ \/ \E t \in Times, ids \in kSubset(run[r].found, DecisionIds \ {d[2] : d \in decisions}) :
          decisions' = decisions \cup ({t} \X ids)
     \/ "throw" \in RecordFaults /\ UNCHANGED decisions
  /\ UNCHANGED <<usage, counted, pager>>

(* addUserUsage: one statement, in the month the run started.              *)
Added(r) == [usage EXCEPT ![run[r].month] = @ + run[r].found]

(* persistUserUsage.                                                       *)
SaveUsage(r) ==
  /\ RunAt(r, "usage")
  /\ RunGoto(r, "over")
  /\ \/ usage' = Added(r) /\ counted' = counted \cup {r}
     \/ "throw" \in RecordFaults /\ UNCHANGED <<usage, counted>>
  /\ UNCHANGED <<decisions, pager>>

-----------------------------------------------------------------------------
\* Mutation: rows of one insert are in no order.
BeforeInTime(a, b) == a[1] > b[1]

(* ORDER BY created_at DESC, id DESC.                                      *)
Before(a, b) == a[1] > b[1] \/ (a[1] = b[1] /\ a[2] > b[2])

(* The pages of the rows S a LIMIT and OFFSET may return, given that order *)
(* and no other.                                                           *)
Ahead(S, T) == \A a \in S, b \in T : ~Before(b, a)
PagesOf(S, k) ==
  LET skipped == Min({(k - 1) * PageSize, Cardinality(S)})
      size == Min({PageSize, Cardinality(S) - skipped})
  IN {p \in kSubset(size, S) :
        \E before \in kSubset(skipped, S \ p) :
          Ahead(before, p) /\ Ahead(before \cup p, S \ (before \cup p))}

\* Mutation: the page asked for is taken as it is.
Unclamped(page, pages) == page

Clamped(page, pages) == Min({Max({page, 1}), pages})

(* countDecisions, for a page asked for by its address or by a link.  The  *)
(* reader who starts at the first page and goes on from each page to the   *)
(* next looks for what was there when he started.                          *)
OpenPage(p) ==
  LET pages == (Cardinality(decisions) + PageSize - 1) \div PageSize
      page == Clamped(p, pages)
      goesOn == pager.pc = "shown" /\ p = pager.page + 1 /\ p <= pages
  IN
  /\ decisions # {}
  /\ pager.pc # "counted"
  /\ pager' = [pc |-> "counted", page |-> page, pages |-> pages, rows |-> {},
               seen |-> IF goesOn THEN pager.seen ELSE {},
               expected |-> IF page = 1 THEN decisions
                            ELSE IF goesOn THEN pager.expected ELSE {}]
  /\ UNCHANGED <<run, decisions, usage, counted>>

(* getDecisionsPage, by when there may be more rows than were counted.     *)
FetchPage ==
  /\ pager.pc = "counted"
  /\ \E rows \in PagesOf(decisions, pager.page) :
       pager' = [pager EXCEPT !.pc = "shown", !.rows = rows, !.seen = @ \cup rows]
  /\ UNCHANGED <<run, decisions, usage, counted>>

RecordStep ==
  \/ \E r \in Runs :
       (\E n \in 0..PerRun : Processed(r, n)) \/ Failed(r) \/ SaveRun(r) \/ SaveDecisions(r)
       \/ SaveUsage(r)
  \/ \E p \in 0..MaxPages : OpenPage(p)
  \/ FetchPage

RecordSpec == RecordInit /\ [][RecordStep]_recordVars

-----------------------------------------------------------------------------
(* A reader who leafs from the first page on never passes a decision that  *)
(* was there when he began: rows that runs insert meanwhile may show him   *)
(* one twice, but hide none above what he has come to (getDecisionsPage).  *)
NoneSkipped ==
  pager.pc = "shown" =>
    \A d \in pager.expected \ pager.seen, s \in pager.rows : ~Before(d, s)

Total(f, S) == MapThenSumSet(LAMBDA x : f[x], S)

(* The usage of all months is that of the runs that were counted, though   *)
(* they end at the same time (addUserUsage, getLifetimeUsage).             *)
UsageIsTheRuns == Total(usage, Months) = Total([r \in Runs |-> run[r].found], counted)

(* What runs leave is read back whole: every decision by who leafs from    *)
(* the first page, every email in the usage.                               *)
RecordsAreWhole == NoneSkipped /\ UsageIsTheRuns
=============================================================================
