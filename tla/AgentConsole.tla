----------------------------- MODULE AgentConsole -----------------------------
(***************************************************************************)
(* The dashboard's console: the form and the list of runs                  *)
(* (web/components/dashboard/agent-console), the route behind it           *)
(* (web/app/api/agent/run), its one or two calls of the language model     *)
(* (web/features/ai/groq.ts).  The button is only disabled while the       *)
(* handler itself runs, so a second request may be sent before the first   *)
(* is answered, and answers may come in any order.                         *)
(***************************************************************************)
EXTENDS ResultParser, SequencesExt

CONSTANTS
  Tasks,     \* what the user may ask; the form is edited freely
  ShortTask, \* one of them, which the route refuses
  Texts,     \* what the model may write
  MaxAsked   \* bound: requests sent

ASSUME AgentConsoleAssumption ==
  /\ ShortTask \in Tasks
  /\ Texts \subseteq Text
  /\ MaxAsked \in Nat

VARIABLES
  task,    \* the form
  asked,   \* each request: its task, where it is, what the model wrote last
  history, \* entries shown, newest first
  failed   \* an error message is shown

consoleVars == <<task, asked, history, failed>>

Requests == 1..MaxAsked
NoText == [form |-> <<>>, reply |-> Blank]
Unsent == [pc |-> "none", task |-> ShortTask, text |-> NoText]
Entry == [request : Requests, task : Tasks, result : Result]

ConsoleTypeOK ==
  /\ task \in Tasks
  /\ asked \in [Requests -> [pc : {"none", "sent", "written", "repair", "repaired", "answered", "over"},
                             task : Tasks, text : Texts \cup {NoText}]]
  /\ history \in Seq(Entry)
  /\ failed \in BOOLEAN

ConsoleInit ==
  /\ task \in Tasks
  /\ asked = [q \in Requests |-> Unsent]
  /\ history = <<>> /\ failed = FALSE

-----------------------------------------------------------------------------
AskedAt(q, pc) == asked[q].pc = pc

Edit(t) ==
  /\ t # task
  /\ task' = t
  /\ UNCHANGED <<asked, history, failed>>

(* handleSubmit.  Bound: MaxAsked.                                         *)
Submit(q) ==
  /\ \A p \in Requests : AskedAt(p, "none") = (p >= q)
  /\ asked' = [asked EXCEPT ![q].pc = "sent", ![q].task = task]
  /\ failed' = FALSE
  /\ UNCHANGED <<task, history>>

(* createTextCompletion on the task.                                       *)
Complete(q, text) ==
  /\ AskedAt(q, "sent")
  /\ asked[q].task # ShortTask
  /\ asked' = [asked EXCEPT ![q].pc = "written", ![q].text = text]
  /\ UNCHANGED <<task, history, failed>>

(* parseAgentResult: what cannot be read goes to repairAgentResult.        *)
ParseText(q) ==
  /\ AskedAt(q, "written")
  /\ asked' = [asked EXCEPT ![q].pc = IF Readable(asked[q].text) THEN "answered" ELSE "repair"]
  /\ UNCHANGED <<task, history, failed>>

Repair(q, text) ==
  /\ AskedAt(q, "repair")
  /\ asked' = [asked EXCEPT ![q].pc = "answered", ![q].text = text]
  /\ UNCHANGED <<task, history, failed>>

ResultOf(q) == IF Readable(asked[q].text) THEN Normalized(ReplyIn(asked[q].text)) ELSE Fallback

\* Mutation: the list the handler saw when it was called is extended.
ShowStale(q) ==
  /\ AskedAt(q, "answered")
  /\ history' = <<[request |-> q, task |-> asked[q].task, result |-> ResultOf(q)]>> \o
       SelectSeq(history, LAMBDA e : e.request < q)
  /\ asked' = [asked EXCEPT ![q].pc = "over"]
  /\ UNCHANGED <<task, failed>>

(* runAgent after its await: the entry goes on top of the current list,    *)
(* with the task that was sent; an error shown meanwhile stays.            *)
Show(q) ==
  /\ AskedAt(q, "answered")
  /\ history' = <<[request |-> q, task |-> asked[q].task, result |-> ResultOf(q)]>> \o history
  /\ asked' = [asked EXCEPT ![q].pc = "over"]
  /\ UNCHANGED <<task, failed>>

(* 401, 400 for a task too short or too long, 500 when a call of the model *)
(* throws (the repairing one too), or no answer.                           *)
RunFails(q) ==
  /\ asked[q].pc \in {"sent", "repair", "answered"}
  /\ asked' = [asked EXCEPT ![q].pc = "over"]
  /\ failed' = TRUE
  /\ UNCHANGED <<task, history>>

ConsoleStep ==
  \/ \E t \in Tasks : Edit(t)
  \/ \E q \in Requests :
       \/ Submit(q) \/ ParseText(q) \/ Show(q) \/ RunFails(q)
       \/ \E text \in Texts : Complete(q, text) \/ Repair(q, text)

ConsoleSpec == ConsoleInit /\ [][ConsoleStep]_consoleVars

-----------------------------------------------------------------------------
(* An object the model wrote is shown without a second call, whatever its  *)
(* fields hold, if it stands in prose or between a pair of fences of its   *)
(* own: neither the search nor the schema loses it (extractJsonObject,     *)
(* normalizeAgentResult).  Others they may lose: a fence in a string of    *)
(* the object, or a brace in the prose, and the cut is no JSON.            *)
ObjectsAreReadable ==
  \A q \in Requests : AskedAt(q, "repair") => ~PlainObject(asked[q].text.form)

(* An answer that reached the page is never lost from the list by another  *)
(* one, however they overtake each other, and is there once, with the task *)
(* it answers (runAgent).                                                  *)
AnswersStay ==
  [][/\ \A i \in DOMAIN history :
          \E j \in DOMAIN history' : history'[j] = history[i]
     /\ \A i, j \in DOMAIN history' :
          history'[i].request = history'[j].request => i = j
     /\ \A i \in DOMAIN history' :
          history'[i].task = asked[history'[i].request].task]_consoleVars
=============================================================================
