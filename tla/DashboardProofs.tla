---------------------------- MODULE DashboardProofs ----------------------------
(***************************************************************************)
(* The console, for any number of requests and any texts the model may     *)
(* write: every object the parser normalises fits the schema it is then    *)
(* held against, and one in prose or between fences of its own is found,   *)
(* so that it is not repaired; and no answer shown is lost, doubled or put *)
(* to another task.                                                        *)
(*                                                                         *)
(* The records, for any number of runs and decisions and any page size: a  *)
(* reader passes over nothing, and the usage is that of the runs.  Facts   *)
(* about all finite sets are proved through a smallest counterexample.     *)
(***************************************************************************)
EXTENDS Dashboard, FiniteSetTheorems, TLAPS

(* An entry is of a request that is over, and of one only.                 *)
HistoryInv ==
  /\ \A i \in DOMAIN history :
       /\ asked[history[i].request].pc = "over"
       /\ history[i].task = asked[history[i].request].task
  /\ \A i, j \in DOMAIN history : history[i].request = history[j].request => i = j

ConsoleInv == ConsoleTypeOK /\ ObjectsAreReadable /\ HistoryInv

Request == [pc : {"none", "sent", "written", "repair", "repaired", "answered", "over"},
            task : Tasks, text : Texts \cup {NoText}]

-----------------------------------------------------------------------------
(* The parser.                                                             *)

(* Cut off at a limit, a number of items is between none and the limit.    *)
LEMMA MinFacts ==
  ASSUME NEW m \in Int, NEW n \in Int
  PROVE  Min({m, n}) \in {m, n} /\ Min({m, n}) <= m /\ Min({m, n}) <= n
<1>1. \E x \in {m, n} : \A y \in {m, n} : x =< y  OBVIOUS
<1>2. Min({m, n}) \in {m, n} /\ \A y \in {m, n} : Min({m, n}) =< y  BY <1>1 DEF Min
<1> QED  BY <1>2

LEMMA MaxFacts ==
  ASSUME NEW m \in Int, NEW n \in Int
  PROVE  Max({m, n}) \in {m, n} /\ Max({m, n}) >= m /\ Max({m, n}) >= n
<1>1. \E x \in {m, n} : \A y \in {m, n} : x >= y  OBVIOUS
<1>2. Max({m, n}) \in {m, n} /\ \A y \in {m, n} : Max({m, n}) >= y  BY <1>1 DEF Max
<1> QED  BY <1>2

LEMMA ListFits ==
  ASSUME NEW n \in Amounts, NEW limit \in Nat
  PROVE  StringList(n, limit) \in 0..limit
<1>1. n \in Int /\ n >= -1  BY ResultParserAssumption DEF Amounts
<1>2. CASE n = -1  BY <1>2 DEF StringList
<1>3. CASE n # -1  BY <1>1, <1>3, MinFacts DEF StringList
<1> QED  BY <1>2, <1>3

LEMMA ActionsFit ==
  ASSUME NEW n \in Amounts
  PROVE  Actions(n) \in 1..5
<1>1. n \in Int  BY ResultParserAssumption DEF Amounts
<1>2. CASE n < 1  BY <1>2 DEF Actions
<1>3. CASE ~(n < 1)
  <2>1. Min({n, 5}) \in {n, 5} /\ Min({n, 5}) <= 5  BY <1>1, MinFacts
  <2>2. Actions(n) = Min({n, 5})  BY <1>3 DEF Actions
  <2> QED  BY <1>1, <1>3, <2>1, <2>2
<1> QED  BY <1>2, <1>3

LEMMA ConfidenceFits ==
  ASSUME NEW n \in -100..200 \cup {NoAmount}
  PROVE  Confidence(n) \in 0..100
<1>1. CASE n = NoAmount  BY <1>1 DEF Confidence
<1>2. CASE n # NoAmount
  <2>1. n \in Int /\ Min({100, n}) \in Int /\ Min({100, n}) <= 100  BY <1>2, MinFacts
  <2>2. /\ Max({0, Min({100, n})}) \in {0, Min({100, n})}
        /\ Max({0, Min({100, n})}) >= 0
    BY <2>1, MaxFacts
  <2> QED  BY <1>2, <2>1, <2>2 DEF Confidence
<1> QED  BY <1>1, <1>2

(* normalizeAgentResult against syncPilotAgentResultSchema: every object,  *)
(* whatever its words, lengths and numbers, comes out fitting the schema.  *)
THEOREM EveryObjectFits == \A r \in Reply : Normalized(r) \in Result
<1> SUFFICES ASSUME NEW r \in Reply PROVE Normalized(r) \in Result  OBVIOUS
<1>1. RiskLevel(r.riskLevel) \in Levels  BY DEF RiskLevel, Levels
<1>2. AutomationReadiness(r.automationReadiness) \in Readiness  BY DEF AutomationReadiness, Readiness
<1>3. (IF r.recommendedActions < 1 THEN "operator" ELSE ActionOwner(r.owner)) \in Owners
  BY DEF ActionOwner, Owners
<1>4. Confidence(r.confidence) \in 0..100  BY ConfidenceFits DEF Reply
<1>5. StringList(r.suggestedTags, 6) \in 0..6 /\ StringList(r.missingInformation, 5) \in 0..5
  BY ListFits DEF Reply
<1>6. Actions(r.recommendedActions) \in 1..5  BY ActionsFit DEF Reply
<1> QED  BY <1>1, <1>2, <1>3, <1>4, <1>5, <1>6 DEF Normalized, Result

LEMMA FallbackFits == Fallback \in Result
BY DEF Fallback, Result, Levels, Readiness, Owners

LEMMA ResultFits == \A q \in Requests : ResultOf(q) \in Result
BY FallbackFits DEF ResultOf, Readable

(* The least and the greatest of one number, and of two.                   *)
LEMMA OneOrTwo ==
  ASSUME NEW i \in Int
  PROVE  Min({i}) = i /\ Max({i}) = i /\ Min({i - 1, i + 1}) = i - 1
<1>1. Min({i}) = i /\ Max({i}) = i  BY MinFacts, MaxFacts
<1>2. Min({i - 1, i + 1}) = i - 1
  <2>1. i - 1 \in Int /\ i + 1 \in Int  OBVIOUS
  <2>2. PICK m : m = Min({i - 1, i + 1})  OBVIOUS
  <2>3. m \in {i - 1, i + 1} /\ m <= i - 1  BY <2>1, <2>2, MinFacts
  <2> QED  BY <2>2, <2>3
<1> QED  BY <1>1, <1>2

LEMMA OnePiece ==
  ASSUME NEW f \in Seq(Piece), NEW i \in DOMAIN f
  PROVE  SubSeq(f, i, i) = <<f[i]>>
<1>1. i \in 1..Len(f)  OBVIOUS
<1>2. PICK s : s = SubSeq(f, i, i)  OBVIOUS
<1>3. SubSeq(f, i, i) \in Seq(Piece)  BY <1>1
<1>4. Len(SubSeq(f, i, i)) = 1  BY <1>1
<1>5. SubSeq(f, i, i)[1] = f[i]  BY <1>1
<1>6. s \in Seq(Piece) /\ Len(s) = 1 /\ s[1] = f[i]  BY <1>2, <1>3, <1>4, <1>5, Zenon
<1>7. s = <<s[1]>>  BY <1>6
<1> QED  BY <1>2, <1>6, <1>7

(* In prose, or between a pair of fences of its own, the object is what is *)
(* cut out.                                                                *)
LEMMA PlainIsCutOut ==
  ASSUME NEW f \in Seq(Piece), PlainObject(f)
  PROVE  ExtractJsonObject(f) = <<"object">>
<1>1. PICK i \in DOMAIN f :
        /\ f[i] = "object"
        /\ \/ \A j \in DOMAIN f \ {i} : f[j] = "prose"
           \/ /\ {i - 1, i + 1} \subseteq DOMAIN f \ {i}
              /\ \A j \in DOMAIN f \ {i} :
                   f[j] = IF j \in {i - 1, i + 1} THEN "fence" ELSE "prose"
  BY DEF PlainObject
<1>2. i \in Int /\ SubSeq(f, i, i) = <<"object">>  BY <1>1, OnePiece
<1>3. CASE \A j \in DOMAIN f \ {i} : f[j] = "prose"
  <2>1. Fences(f) = {} /\ Opens(f) = {i} /\ Closes(f) = {i}
    BY <1>1, <1>3 DEF Fences, Opens, Closes, At
  <2>2. Fenced(f) = <<>>  BY <2>1 DEF Fenced
  <2>3. ExtractJsonObject(f) = SubSeq(f, Min({i}), Max({i}))
    BY <2>1, <2>2 DEF ExtractJsonObject
  <2> QED  BY <1>2, <2>3, OneOrTwo
<1>4. CASE /\ {i - 1, i + 1} \subseteq DOMAIN f \ {i}
           /\ \A j \in DOMAIN f \ {i} :
                f[j] = IF j \in {i - 1, i + 1} THEN "fence" ELSE "prose"
  <2>1. Fences(f) = {i - 1, i + 1}
    BY <1>1, <1>4 DEF Fences, At
  <2>2. Min(Fences(f)) = i - 1  BY <1>2, <2>1, OneOrTwo
  <2>3. Fences(f) \ {i - 1} = {i + 1}  BY <1>2, <2>1
  <2>4. Min({i + 1}) = i + 1
    <3>1. PICK k \in Int : k = i + 1  BY <1>2
    <3> QED  BY <3>1, OneOrTwo
  <2>5. ~ \A a, b \in Fences(f) : a = b
    <3>1. i - 1 # i + 1  BY <1>2
    <3> QED  BY <2>1, <3>1
  <2>6. Fenced(f) = SubSeq(f, (i - 1) + 1, (i + 1) - 1)  BY <2>2, <2>3, <2>4, <2>5 DEF Fenced
  <2>7. (i - 1) + 1 = i /\ (i + 1) - 1 = i
    BY <1>2
  <2>8. Fenced(f) = <<"object">>  BY <1>2, <2>6, <2>7
  <2> QED  BY <2>8 DEF ExtractJsonObject
<1> QED  BY <1>1, <1>3, <1>4

LEMMA PlainIsReadable ==
  ASSUME NEW text \in Text, PlainObject(text.form)
  PROVE  Readable(text)
<1>1. ExtractJsonObject(text.form) = <<"object">>  BY PlainIsCutOut DEF Text
<1>2. <<"object">> # <<"value">>  OBVIOUS
<1>3. ReplyIn(text) \in Reply  BY <1>1, <1>2 DEF ReplyIn, Text
<1>4. Normalized(ReplyIn(text)) \in Result  BY <1>3, EveryObjectFits
<1> QED  BY <1>1, <1>4 DEF Readable, IsJson

-----------------------------------------------------------------------------
(* The list.                                                               *)

LEMMA OnTop ==
  ASSUME NEW e \in Entry, NEW old \in Seq(Entry)
  PROVE  /\ <<e>> \o old \in Seq(Entry)
         /\ Len(<<e>> \o old) = Len(old) + 1
         /\ (<<e>> \o old)[1] = e
         /\ \A i \in 1..Len(old) : (<<e>> \o old)[i + 1] = old[i]
OBVIOUS

(* A request moves on, and no other.                                       *)
LEMMA RequestMoves ==
  ASSUME ConsoleTypeOK, NEW q \in Requests, NEW new \in Request, asked' = [asked EXCEPT ![q] = new]
  PROVE  asked' \in [Requests -> Request] /\ asked'[q] = new /\ \A p \in Requests \ {q} : asked'[p] = asked[p]
BY DEF ConsoleTypeOK, Request

LEMMA EntriesFit ==
  ASSUME ConsoleTypeOK
  PROVE  \A i \in DOMAIN history : history[i] \in Entry /\ history[i].request \in Requests
<1>1. history \in Seq(Entry)  BY DEF ConsoleTypeOK
<1>2. \A i \in DOMAIN history : history[i] \in Entry  BY <1>1
<1> QED  BY <1>2 DEF Entry

(* What was shown stays so, as long as nothing that is over moves again.   *)
LEMMA HistoryStays ==
  ASSUME ConsoleInv, history' = history,
         NEW q \in Requests, asked[q].pc # "over", \A p \in Requests \ {q} : asked'[p] = asked[p]
  PROVE  HistoryInv'
<1>1. \A i \in DOMAIN history : history[i].request \in Requests  BY EntriesFit DEF ConsoleInv
<1>2. \A i \in DOMAIN history : history[i].request # q  BY DEF ConsoleInv, HistoryInv
<1> QED  BY <1>1, <1>2 DEF ConsoleInv, HistoryInv

(* A request that moves to a state in which it is not about to be repaired *)
(* or is so for good reason.                                               *)
LEMMA MoveKeeps ==
  ASSUME ConsoleInv, NEW q \in Requests, NEW new \in Request, asked' = [asked EXCEPT ![q] = new],
         asked[q].pc # "over", new.pc = "repair" => ~PlainObject(new.text.form),
         history' = history, task' \in Tasks, failed' \in BOOLEAN
  PROVE  ConsoleInv'
<1>1. /\ asked' \in [Requests -> Request] /\ asked'[q] = new
      /\ \A p \in Requests \ {q} : asked'[p] = asked[p]
  BY RequestMoves DEF ConsoleInv
<1>2. ConsoleTypeOK'  BY <1>1 DEF ConsoleInv, ConsoleTypeOK, Request
<1>3. ObjectsAreReadable'  BY <1>1 DEF ConsoleInv, ObjectsAreReadable, AskedAt
<1>4. HistoryInv'  BY <1>1, HistoryStays
<1> QED  BY <1>2, <1>3, <1>4 DEF ConsoleInv

LEMMA ParseKeeps == ASSUME ConsoleInv, NEW q \in Requests, ParseText(q) PROVE ConsoleInv'
<1> DEFINE new == [asked[q] EXCEPT !.pc = IF Readable(asked[q].text) THEN "answered" ELSE "repair"]
<1>1. asked[q] \in Request /\ asked[q].pc = "written"
  BY DEF ConsoleInv, ConsoleTypeOK, Request, ParseText, AskedAt
<1>2. ~Readable(asked[q].text) => ~PlainObject(asked[q].text.form)
  <2>1. ~PlainObject(NoText.form)  BY DEF PlainObject, NoText
  <2> QED  BY <1>1, <2>1, PlainIsReadable, AgentConsoleAssumption DEF Request
<1>3. new \in Request /\ (new.pc = "repair" => ~PlainObject(new.text.form))  BY <1>1, <1>2 DEF Request
<1>4. asked' = [asked EXCEPT ![q] = new]  BY Zenon DEF ParseText
<1>5. task' = task /\ history' = history /\ failed' = failed  BY DEF ParseText
<1> HIDE DEF new
<1> QED  BY <1>1, <1>3, <1>4, <1>5, MoveKeeps DEF ConsoleInv, ConsoleTypeOK

LEMMA TextKeeps ==
  ASSUME ConsoleInv, NEW q \in Requests, NEW text \in Texts,
         Complete(q, text) \/ Repair(q, text)
  PROVE  ConsoleInv'
<1>1. asked[q] \in Request /\ asked[q].pc # "over"
  BY DEF ConsoleInv, ConsoleTypeOK, Request, Complete, Repair, AskedAt
<1>2. PICK pc \in {"written", "answered"} : asked' = [asked EXCEPT ![q].pc = pc, ![q].text = text]
  BY DEF Complete, Repair
<1> DEFINE new == [asked[q] EXCEPT !.pc = pc, !.text = text]
<1>3. new \in Request /\ new.pc # "repair"  BY <1>1 DEF Request
<1>4. asked' = [asked EXCEPT ![q] = new]  BY <1>2, Zenon
<1>5. task' = task /\ history' = history /\ failed' = failed  BY DEF Complete, Repair
<1> HIDE DEF new
<1> QED  BY <1>1, <1>3, <1>4, <1>5, MoveKeeps DEF ConsoleInv, ConsoleTypeOK

LEMMA SubmitKeeps == ASSUME ConsoleInv, NEW q \in Requests, Submit(q) PROVE ConsoleInv'
<1> DEFINE new == [asked[q] EXCEPT !.pc = "sent", !.task = task]
<1>1. asked[q] \in Request /\ asked[q].pc = "none" /\ task \in Tasks
  <2>1. q \in Nat  BY AgentConsoleAssumption DEF Requests
  <2> QED  BY <2>1 DEF ConsoleInv, ConsoleTypeOK, Request, Submit, AskedAt
<1>2. new \in Request /\ new.pc = "sent"  BY <1>1 DEF Request
<1>3. asked' = [asked EXCEPT ![q] = new]  BY Zenon DEF Submit
<1>4. task' = task /\ history' = history /\ failed' = FALSE  BY DEF Submit
<1> HIDE DEF new
<1> QED  BY <1>1, <1>2, <1>3, <1>4, MoveKeeps

LEMMA FailKeeps == ASSUME ConsoleInv, NEW q \in Requests, RunFails(q) PROVE ConsoleInv'
<1> DEFINE new == [asked[q] EXCEPT !.pc = "over"]
<1>1. asked[q] \in Request /\ asked[q].pc # "over" /\ task \in Tasks
  BY DEF ConsoleInv, ConsoleTypeOK, Request, RunFails
<1>2. new \in Request /\ new.pc = "over"  BY <1>1 DEF Request
<1>3. asked' = [asked EXCEPT ![q] = new]  BY Zenon DEF RunFails
<1>4. task' = task /\ history' = history /\ failed' = TRUE  BY DEF RunFails
<1> HIDE DEF new
<1> QED  BY <1>1, <1>2, <1>3, <1>4, MoveKeeps

(* The new entry is of a request that no older one is of.                  *)
LEMMA ShowFacts ==
  ASSUME ConsoleInv, NEW q \in Requests, Show(q)
  PROVE  /\ history' \in Seq(Entry) /\ Len(history') = Len(history) + 1
         /\ history'[1].request = q /\ history'[1].task = asked[q].task
         /\ \A i \in 1..Len(history) : history'[i + 1] = history[i] /\ history[i].request # q
<1> DEFINE e == [request |-> q, task |-> asked[q].task, result |-> ResultOf(q)]
<1>1. history \in Seq(Entry) /\ asked[q].task \in Tasks /\ asked[q].pc = "answered"
  BY DEF ConsoleInv, ConsoleTypeOK, Show, AskedAt
<1>2. e \in Entry /\ e.request = q /\ e.task = asked[q].task  BY <1>1, ResultFits DEF Entry
<1>3. history' = <<e>> \o history  BY DEF Show
<1>4. \A i \in 1..Len(history) : history[i].request # q
  BY <1>1 DEF ConsoleInv, HistoryInv
<1> HIDE DEF e
<1> QED  BY <1>1, <1>2, <1>3, <1>4, OnTop

LEMMA ShowKeeps == ASSUME ConsoleInv, NEW q \in Requests, Show(q) PROVE ConsoleInv'
<1> DEFINE new == [asked[q] EXCEPT !.pc = "over"]
<1>1. asked[q] \in Request /\ history \in Seq(Entry) /\ UNCHANGED <<task, failed>>
  BY DEF ConsoleInv, ConsoleTypeOK, Request, Show
<1>2. new \in Request /\ new.pc = "over" /\ new.task = asked[q].task  BY <1>1 DEF Request
<1>3. asked' = [asked EXCEPT ![q] = new]  BY Zenon DEF Show
<1> HIDE DEF new
<1>4. /\ asked' \in [Requests -> Request] /\ asked'[q] = new
      /\ \A p \in Requests \ {q} : asked'[p] = asked[p]
  BY <1>2, <1>3, RequestMoves DEF ConsoleInv
<1>5. /\ history' \in Seq(Entry) /\ Len(history') = Len(history) + 1
      /\ history'[1].request = q /\ history'[1].task = asked[q].task
      /\ \A i \in 1..Len(history) : history'[i + 1] = history[i] /\ history[i].request # q
  BY ShowFacts
<1>6. ConsoleTypeOK'  BY <1>1, <1>4, <1>5 DEF ConsoleInv, ConsoleTypeOK, Request
<1>7. ObjectsAreReadable'  BY <1>2, <1>4 DEF ConsoleInv, ObjectsAreReadable, AskedAt
<1>8. DOMAIN history = 1..Len(history) /\ DOMAIN history' = 1..Len(history) + 1 /\ Len(history) \in Nat
  BY <1>1, <1>5
<1>9. \A i \in DOMAIN history' : i = 1 \/ \E k \in DOMAIN history : i = k + 1 /\ history'[i] = history[k]
  <2> SUFFICES ASSUME NEW i \in DOMAIN history', i # 1
               PROVE  \E k \in DOMAIN history : i = k + 1 /\ history'[i] = history[k]
    OBVIOUS
  <2>1. i - 1 \in DOMAIN history /\ i = (i - 1) + 1  BY <1>8
  <2> QED  BY <1>5, <1>8, <2>1
<1>10. \A i \in DOMAIN history : history[i].request \in Requests \ {q}
  BY <1>5, <1>8, EntriesFit DEF ConsoleInv
<1>11. HistoryInv'
  <2>1. \A i \in DOMAIN history' :
          /\ asked'[history'[i].request].pc = "over"
          /\ history'[i].task = asked'[history'[i].request].task
    BY <1>2, <1>4, <1>5, <1>9, <1>10 DEF ConsoleInv, HistoryInv
  <2>2. \A i, j \in DOMAIN history' : history'[i].request = history'[j].request => i = j
    BY <1>5, <1>9, <1>10 DEF ConsoleInv, HistoryInv
  <2> QED  BY <2>1, <2>2 DEF HistoryInv
<1> QED  BY <1>6, <1>7, <1>11 DEF ConsoleInv

-----------------------------------------------------------------------------
LEMMA ConsoleInvInit == ConsoleInit => ConsoleInv
<1> SUFFICES ASSUME ConsoleInit PROVE ConsoleInv  OBVIOUS
<1>1. Unsent \in Request /\ Unsent.pc = "none"  BY AgentConsoleAssumption DEF Unsent, Request
<1>2. asked \in [Requests -> Request] /\ \A q \in Requests : asked[q].pc = "none"
  BY <1>1 DEF ConsoleInit
<1>3. ConsoleTypeOK
  <2>1. history \in Seq(Entry)  BY DEF ConsoleInit
  <2>2. task \in Tasks /\ failed \in BOOLEAN  BY DEF ConsoleInit
  <2> QED  BY <1>2, <2>1, <2>2 DEF ConsoleTypeOK, Request
<1>4. ObjectsAreReadable  BY <1>2 DEF ObjectsAreReadable, AskedAt
<1>5. HistoryInv  BY DEF ConsoleInit, HistoryInv
<1> QED  BY <1>3, <1>4, <1>5 DEF ConsoleInv

LEMMA ConsoleInvStep == ConsoleInv /\ [ConsoleStep]_consoleVars => ConsoleInv'
<1> SUFFICES ASSUME ConsoleInv, [ConsoleStep]_consoleVars PROVE ConsoleInv'  OBVIOUS
<1>1. CASE UNCHANGED consoleVars
  BY <1>1 DEF consoleVars, ConsoleInv, ConsoleTypeOK, ObjectsAreReadable, AskedAt, HistoryInv
<1>2. ASSUME NEW t \in Tasks, Edit(t) PROVE ConsoleInv'
  BY <1>2 DEF Edit, ConsoleInv, ConsoleTypeOK, ObjectsAreReadable, AskedAt, HistoryInv
<1>3. ASSUME NEW q \in Requests, Submit(q) \/ ParseText(q) \/ Show(q) \/ RunFails(q) PROVE ConsoleInv'
  BY <1>3, SubmitKeeps, ParseKeeps, ShowKeeps, FailKeeps
<1>4. ASSUME NEW q \in Requests, NEW text \in Texts, Complete(q, text) \/ Repair(q, text)
      PROVE  ConsoleInv'
  BY <1>4, TextKeeps
<1> QED  BY <1>1, <1>2, <1>3, <1>4 DEF ConsoleStep

(* Requests, entries and what is shown of them stay well formed, so that   *)
(* every result shown fits the schema (parseAgentResult).                  *)
THEOREM ConsoleTypeTheorem == ConsoleSpec => []ConsoleTypeOK
<1>1. ConsoleInv => ConsoleTypeOK  BY DEF ConsoleInv
<1> QED  BY <1>1, ConsoleInvInit, ConsoleInvStep, PTL DEF ConsoleSpec

(* Whatever texts the model writes, the second call is never made for one  *)
(* whose object stands in prose or between a pair of fences of its own     *)
(* (tryParseAgentResult, extractJsonObject).                               *)
THEOREM ReadableTheorem == ConsoleSpec => []ObjectsAreReadable
<1>1. ConsoleInv => ObjectsAreReadable  BY DEF ConsoleInv
<1> QED  BY <1>1, ConsoleInvInit, ConsoleInvStep, PTL DEF ConsoleSpec

(* However requests overlap and answers overtake each other, every answer  *)
(* shown stays in the list, once, with its own task (runAgent).            *)
THEOREM AnswersTheorem == ConsoleSpec => AnswersStay
<1> DEFINE Stay ==
      /\ \A i \in DOMAIN history : \E j \in DOMAIN history' : history'[j] = history[i]
      /\ \A i, j \in DOMAIN history' : history'[i].request = history'[j].request => i = j
      /\ \A i \in DOMAIN history' : history'[i].task = asked[history'[i].request].task
<1>1. ASSUME ConsoleInv, [ConsoleStep]_consoleVars PROVE [Stay]_consoleVars
  <2>1. CASE history' = history  BY <1>1, <2>1 DEF ConsoleInv, HistoryInv
  <2>2. ASSUME NEW q \in Requests, Show(q) PROVE Stay
    <3>1. HistoryInv'  BY <1>1, <2>2, ShowKeeps DEF ConsoleInv
    <3>2. /\ history' \in Seq(Entry) /\ Len(history') = Len(history) + 1
          /\ history \in Seq(Entry)
          /\ history'[1].request = q /\ history'[1].task = asked[q].task
          /\ \A i \in 1..Len(history) : history'[i + 1] = history[i]
      BY <1>1, <2>2, ShowFacts DEF ConsoleInv, ConsoleTypeOK
    <3>3. DOMAIN history = 1..Len(history) /\ DOMAIN history' = 1..Len(history) + 1 /\ Len(history) \in Nat
      BY <3>2
    <3>4. \A i \in DOMAIN history : i + 1 \in DOMAIN history' /\ history'[i + 1] = history[i]
      BY <3>2, <3>3
    <3>5. \A i \in DOMAIN history' : history'[i].task = asked[history'[i].request].task
      <4> SUFFICES ASSUME NEW i \in DOMAIN history', i # 1
                   PROVE  history'[i].task = asked[history'[i].request].task
        BY <3>2
      <4>1. i - 1 \in DOMAIN history /\ (i - 1) + 1 = i  BY <3>3
      <4>2. history'[i] = history[i - 1]  BY <3>4, <4>1
      <4> QED  BY <1>1, <4>1, <4>2 DEF ConsoleInv, HistoryInv
    <3> QED  BY <3>1, <3>4, <3>5 DEF HistoryInv
  <2>3. history' = history \/ \E q \in Requests : Show(q)
    BY <1>1 DEF ConsoleStep, consoleVars, Edit, Submit, Complete, ParseText, Repair, RunFails
  <2> QED  BY <2>1, <2>2, <2>3
<1> QED  BY <1>1, ConsoleInvInit, ConsoleInvStep, PTL DEF ConsoleSpec, AnswersStay

-----------------------------------------------------------------------------
(* No two decisions have one identifier; a run is counted when it is over. *)
UniqueIds == \A a, b \in decisions : a[2] = b[2] => a = b

CountedInv == \A r \in counted : RunAt(r, "over")

(* R are the decisions the reader has come past, all of those before the   *)
(* end of his page when it was read: what he expects of them he has seen,  *)
(* and what he still expects comes after them.                             *)
ReadTo(R) ==
  /\ pager.expected \cap R \subseteq pager.seen
  /\ \A a \in R, b \in pager.expected \ R : ~Before(b, a)
  /\ \/ pager.expected \subseteq R
     \/ Cardinality(R) = (IF pager.pc = "shown" THEN pager.page ELSE pager.page - 1) * PageSize
  /\ pager.pc = "shown" => pager.rows \subseteq R

PagerInv == \E R \in SUBSET decisions : ReadTo(R)

RecordInv == RecordTypeOK /\ UniqueIds /\ CountedInv /\ UsageIsTheRuns /\ PagerInv

-----------------------------------------------------------------------------
(* The sum of a function over a finite set counts the units it gives the   *)
(* members of the set.                                                     *)
Units(f, S) == {u \in S \X Nat : 1 <= u[2] /\ u[2] <= f[u[1]]}

LEMMA SmallestSubset ==
  ASSUME NEW S, IsFiniteSet(S), NEW T \in SUBSET (SUBSET S), T # {}
  PROVE  \E s \in T : \A t \in T : ~(t \subseteq s /\ t # s)
<1>1. IsWellFoundedOn(StrictSubsetOrdering(S), FiniteSubsetsOf(S))
  BY FS_StrictSubsetOrderingWellFounded
<1>2. FiniteSubsetsOf(S) = SUBSET S
  BY FS_FiniteSubsetsOfFinite
<1>3. T \subseteq FiniteSubsetsOf(S)
  BY <1>2
<1>4. PICK s \in T : \A t \in T : <<t, s>> \notin StrictSubsetOrdering(S)
  BY <1>1, <1>3, WFMin
<1>5. \A t \in T : ~(t \subseteq s /\ t # s)
  BY <1>4 DEF StrictSubsetOrdering
<1> QED  BY <1>5

LEMMA UnitsOfOneMore ==
  ASSUME NEW s, NEW x \in s, NEW f, f[x] \in Nat, IsFiniteSet(Units(f, s \ {x}))
  PROVE  /\ IsFiniteSet(Units(f, s))
         /\ Cardinality(Units(f, s)) = f[x] + Cardinality(Units(f, s \ {x}))
<1> DEFINE own == {x} \X (1..f[x])
           rest == Units(f, s \ {x})
<1>1. IsFiniteSet({x}) /\ Cardinality({x}) = 1
  BY FS_Singleton
<1>2. IsFiniteSet(1..f[x]) /\ Cardinality(1..f[x]) = f[x]
  BY FS_Interval
<1>3. IsFiniteSet(own) /\ Cardinality(own) = Cardinality({x}) * Cardinality(1..f[x])
  BY <1>1, <1>2, FS_Product
<1>4. Cardinality(own) = f[x]
  BY <1>1, <1>2, <1>3
<1>5. Units(f, s) = own \cup rest
  BY DEF Units
<1>6. own \cap rest = {}
  BY DEF Units
<1>7. Cardinality(own \cap rest) = 0
  BY <1>6, FS_EmptySet
<1>8. /\ IsFiniteSet(own \cup rest)
      /\ Cardinality(own \cup rest) = Cardinality(own) + Cardinality(rest) - Cardinality(own \cap rest)
  BY <1>3, FS_Union
<1>9. Cardinality(rest) \in Nat
  BY FS_CardinalityType
<1> QED  BY <1>4, <1>5, <1>7, <1>8, <1>9

LEMMA UnitsOfNone ==
  ASSUME NEW f
  PROVE  IsFiniteSet(Units(f, {})) /\ Cardinality(Units(f, {})) = 0
<1>1. Units(f, {}) = {}
  BY DEF Units
<1> QED  BY <1>1, FS_EmptySet

LEMMA UnitsAreFinite ==
  ASSUME NEW S, IsFiniteSet(S), NEW f, \A x \in S : f[x] \in Nat
  PROVE  \A s \in SUBSET S : IsFiniteSet(Units(f, s))
<1> DEFINE T == {s \in SUBSET S : ~IsFiniteSet(Units(f, s))}
<1>1. SUFFICES ASSUME T # {} PROVE FALSE
  OBVIOUS
<1>2. PICK s \in T : \A t \in T : ~(t \subseteq s /\ t # s)
  <2>1. T \in SUBSET (SUBSET S)
    OBVIOUS
  <2> HIDE DEF T
  <2> QED  BY <1>1, <2>1, SmallestSubset
<1>3. s # {}
  BY UnitsOfNone
<1>4. PICK x \in s : TRUE
  BY <1>3
<1>5. s \ {x} \in SUBSET S /\ s \ {x} \subseteq s /\ s \ {x} # s
  BY <1>4
<1>6. IsFiniteSet(Units(f, s \ {x}))
  BY <1>2, <1>5
<1>7. f[x] \in Nat
  BY <1>4
<1>8. IsFiniteSet(Units(f, s))
  BY <1>6, <1>7, UnitsOfOneMore
<1> QED  BY <1>8

Sums(g, f, S) ==
  g = [s \in SUBSET S |-> IF s = {} THEN 0
                          ELSE f[CHOOSE x \in s : TRUE] + g[s \ {CHOOSE x \in s : TRUE}]]

LEMMA SumsAreCounts ==
  ASSUME NEW S, IsFiniteSet(S), NEW f, \A x \in S : f[x] \in Nat, NEW g, Sums(g, f, S)
  PROVE  \A s \in SUBSET S : g[s] = Cardinality(Units(f, s))
<1> DEFINE T == {s \in SUBSET S : g[s] # Cardinality(Units(f, s))}
<1>1. SUFFICES ASSUME T # {} PROVE FALSE
  OBVIOUS
<1>2. PICK s \in T : \A t \in T : ~(t \subseteq s /\ t # s)
  <2>1. T \in SUBSET (SUBSET S)
    OBVIOUS
  <2> HIDE DEF T
  <2> QED  BY <1>1, <2>1, SmallestSubset
<1>3. CASE s = {}
  <2>1. g[s] = 0
    BY <1>3 DEF Sums
  <2> QED  BY <1>3, <2>1, UnitsOfNone
<1>4. CASE s # {}
  <2>1. PICK x \in s : x = CHOOSE y \in s : TRUE
    BY <1>4
  <2>2. g[s] = f[x] + g[s \ {x}]
    BY <1>4, <2>1 DEF Sums
  <2>3. s \ {x} \in SUBSET S /\ s \ {x} \subseteq s /\ s \ {x} # s
    OBVIOUS
  <2>4. g[s \ {x}] = Cardinality(Units(f, s \ {x}))
    BY <1>2, <2>3
  <2>5. IsFiniteSet(Units(f, s \ {x}))
    BY <2>3, UnitsAreFinite
  <2>6. Cardinality(Units(f, s)) = f[x] + Cardinality(Units(f, s \ {x}))
    BY <2>5, UnitsOfOneMore
  <2> QED  BY <2>2, <2>4, <2>6
<1> QED  BY <1>3, <1>4

LEMMA SumsExist ==
  ASSUME NEW S, IsFiniteSet(S), NEW f, \A x \in S : f[x] \in Nat
  PROVE  \E g : Sums(g, f, S)
<1> DEFINE g == [s \in SUBSET S |-> Cardinality(Units(f, s))]
<1>1. ASSUME NEW s \in SUBSET S
      PROVE  g[s] = IF s = {} THEN 0
                    ELSE f[CHOOSE x \in s : TRUE] + g[s \ {CHOOSE x \in s : TRUE}]
  <2>1. CASE s = {}
    BY <2>1, UnitsOfNone
  <2>2. CASE s # {}
    <3>1. PICK x \in s : x = CHOOSE y \in s : TRUE
      BY <2>2
    <3>2. s \ {x} \in SUBSET S
      OBVIOUS
    <3>3. IsFiniteSet(Units(f, s \ {x}))
      BY <3>2, UnitsAreFinite
    <3>4. Cardinality(Units(f, s)) = f[x] + Cardinality(Units(f, s \ {x}))
      BY <3>3, UnitsOfOneMore
    <3> QED  BY <2>2, <3>1, <3>2, <3>4
  <2> QED  BY <2>1, <2>2
<1>2. Sums(g, f, S)
  <2>1. g = [s \in SUBSET S |-> g[s]]
    OBVIOUS
  <2> HIDE DEF g
  <2> QED  BY <1>1, <2>1 DEF Sums
<1> QED  BY <1>2

LEMMA TotalCounts ==
  ASSUME NEW S, IsFiniteSet(S), NEW f, \A x \in S : f[x] \in Nat
  PROVE  Total(f, S) = Cardinality(Units(f, S))
<1>1. Total(f, S) = (CHOOSE g : Sums(g, f, S))[S]
  BY DEF Total, MapThenSumSet, MapThenFoldSet, Sums
<1>2. PICK g : g = CHOOSE h : Sums(h, f, S)
  OBVIOUS
<1>3. Sums(g, f, S)
  BY <1>2, SumsExist
<1>4. g[S] = Cardinality(Units(f, S))
  BY <1>3, SumsAreCounts
<1> QED  BY <1>1, <1>2, <1>4

LEMMA TotalOfOneMore ==
  ASSUME NEW S, IsFiniteSet(S), NEW x, x \notin S, NEW f, \A y \in S \cup {x} : f[y] \in Nat
  PROVE  Total(f, S \cup {x}) = Total(f, S) + f[x]
<1>1. IsFiniteSet(S \cup {x})
  BY FS_AddElement
<1>2. Total(f, S \cup {x}) = Cardinality(Units(f, S \cup {x}))
  BY <1>1, TotalCounts
<1>3. Total(f, S) = Cardinality(Units(f, S)) /\ IsFiniteSet(Units(f, S))
  BY TotalCounts, UnitsAreFinite
<1>4. (S \cup {x}) \ {x} = S /\ x \in S \cup {x}
  OBVIOUS
<1>5. Cardinality(Units(f, S \cup {x})) = f[x] + Cardinality(Units(f, S))
  BY <1>3, <1>4, UnitsOfOneMore
<1>6. Cardinality(Units(f, S)) \in Nat
  BY <1>3, FS_CardinalityType
<1> QED  BY <1>2, <1>3, <1>5, <1>6

LEMMA SameTotal ==
  ASSUME NEW S, IsFiniteSet(S), NEW f, NEW g, \A x \in S : f[x] \in Nat /\ f[x] = g[x]
  PROVE  Total(f, S) = Total(g, S)
<1>1. Units(f, S) = Units(g, S)
  BY DEF Units
<1>2. Total(f, S) = Cardinality(Units(f, S)) /\ Total(g, S) = Cardinality(Units(g, S))
  BY TotalCounts
<1> QED  BY <1>1, <1>2

LEMMA TotalOfLarger ==
  ASSUME NEW S, IsFiniteSet(S), NEW x \in S, NEW n \in Nat,
         NEW f \in [S -> Nat], NEW g \in [S -> Nat],
         g[x] = f[x] + n, \A y \in S : y # x => g[y] = f[y]
  PROVE  Total(g, S) = Total(f, S) + n
<1> DEFINE R == S \ {x}
<1>1. IsFiniteSet(R)
  BY FS_Difference
<1>2. S = R \cup {x} /\ x \notin R
  OBVIOUS
<1>3. g \in [S -> Nat] /\ g[x] = f[x] + n /\ \A y \in R : g[y] = f[y]
  OBVIOUS
<1>a. f[x] \in Nat /\ \A y \in R : f[y] \in Nat /\ g[y] \in Nat
  BY <1>3
<1> HIDE DEF R
<1>4. Total(f, R \cup {x}) = Total(f, R) + f[x]
  BY <1>1, <1>2, <1>a, TotalOfOneMore
<1>5. Total(g, R \cup {x}) = Total(g, R) + g[x]
  BY <1>1, <1>2, <1>3, <1>a, TotalOfOneMore
<1>6. Total(f, R) = Total(g, R)
  BY <1>1, <1>3, <1>a, SameTotal
<1>7. Total(f, R) \in Nat
  <2>1. Total(f, R) = Cardinality(Units(f, R)) /\ IsFiniteSet(Units(f, R))
    BY <1>1, <1>a, TotalCounts, UnitsAreFinite
  <2> QED  BY <2>1, FS_CardinalityType
<1> QED  BY <1>2, <1>3, <1>4, <1>5, <1>6, <1>7, <1>a

-----------------------------------------------------------------------------
(* The runs.                                                               *)
Found == [r \in Runs |-> run[r].found]
Run == [pc : {"busy", "row", "decisions", "usage", "over"}, month : Months, found : 0..PerRun]
Pager == [pc : {"closed", "counted", "shown"}, page : 1..MaxPages, pages : 0..MaxPages,
          rows : SUBSET decisions, seen : SUBSET decisions, expected : SUBSET decisions]

LEMMA DecisionsAreFew ==
  ASSUME RecordTypeOK, UniqueIds
  PROVE  IsFiniteSet(decisions) /\ Cardinality(decisions) <= MaxPages
<1> DEFINE f == [d \in decisions |-> d[2]]
<1>1. f \in [decisions -> DecisionIds]
  BY DEF RecordTypeOK, Decision
<1>2. IsInjective(f)
  BY DEF UniqueIds, IsInjective
<1>3. f \in Injection(decisions, DecisionIds)
  BY <1>1, <1>2 DEF Injection
<1> QED  BY <1>3, AgentRecordsAssumption, FS_Injection DEF MaxPages

LEMMA FoundIsNumber == RecordTypeOK => Found \in [Runs -> Nat]
<1>1. PerRun \in Nat
  BY AgentRecordsAssumption
<1> QED  BY <1>1 DEF RecordTypeOK, Found

LEMMA CountedIsFinite == RecordTypeOK => IsFiniteSet(counted)
BY AgentRecordsAssumption, FS_Subset DEF RecordTypeOK

(* Decisions only come, and the reader's past stays what it was.           *)
LEMMA ReaderWaits ==
  ASSUME RecordTypeOK, PagerInv, pager' = pager, decisions \subseteq decisions'
  PROVE  PagerInv' /\ pager' \in Pager'
<1>1. pager' \in Pager'
  BY DEF RecordTypeOK, Pager
<1>2. PICK R \in SUBSET decisions : ReadTo(R)
  BY DEF PagerInv
<1>3. R \in SUBSET decisions' /\ ReadTo(R)'
  BY <1>2 DEF ReadTo
<1> QED  BY <1>1, <1>3 DEF PagerInv

(* A step of a run that counts nothing, and of a run not counted.          *)
LEMMA RunMoves ==
  ASSUME RecordInv, NEW r \in Runs, ~RunAt(r, "over"), NEW new \in Run,
         run' = [run EXCEPT ![r] = new],
         usage' = usage, counted' = counted, pager' = pager,
         decisions \subseteq decisions', decisions' \subseteq Decision, UniqueIds'
  PROVE  RecordInv'
<1>1. run' \in [Runs -> Run] /\ \A q \in Runs : q # r => run'[q] = run[q]
  BY DEF RecordInv, RecordTypeOK, Run
<1>2. PagerInv' /\ pager' \in Pager'
  BY ReaderWaits DEF RecordInv
<1>3. RecordTypeOK'
  BY <1>1, <1>2 DEF RecordInv, RecordTypeOK, Run, Pager
<1>4. r \notin counted
  BY DEF RecordInv, CountedInv
<1>5. counted \subseteq Runs
  BY DEF RecordInv, RecordTypeOK
<1>6. CountedInv'
  BY <1>1, <1>4, <1>5 DEF RecordInv, CountedInv, RunAt
<1>7. \A q \in counted : Found[q] \in Nat /\ Found[q] = Found'[q]
  <2>1. Found \in [Runs -> Nat]
    BY FoundIsNumber DEF RecordInv
  <2> TAKE q \in counted
  <2>2. run'[q] = run[q] /\ q \in Runs
    BY <1>1, <1>4, <1>5
  <2> QED  BY <2>1, <2>2 DEF Found
<1>8. Total(Found, counted) = Total(Found', counted)
  <2>1. IsFiniteSet(counted)
    BY CountedIsFinite DEF RecordInv
  <2> QED  BY <1>7, <2>1, SameTotal
<1>9. UsageIsTheRuns'
  <2>1. Total(usage, Months) = Total(Found, counted)
    BY DEF RecordInv, UsageIsTheRuns, Found
  <2>2. Total(usage', Months) = Total(Found', counted')
    BY <1>8, <2>1
  <2> QED  BY <2>2 DEF UsageIsTheRuns, Found
<1> QED  BY <1>2, <1>3, <1>6, <1>9 DEF RecordInv

LEMMA SaveDecisionsKeeps ==
  ASSUME RecordInv, NEW r \in Runs, SaveDecisions(r)
  PROVE  RecordInv'
<1>1. /\ RunAt(r, "decisions")
      /\ run' = [run EXCEPT ![r].pc = "usage"]
      /\ usage' = usage /\ counted' = counted /\ pager' = pager
  BY DEF SaveDecisions, RunGoto
<1>2. PICK new : new = [run[r] EXCEPT !.pc = "usage"]
  OBVIOUS
<1>3. new \in Run /\ run' = [run EXCEPT ![r] = new]
  BY <1>1, <1>2 DEF RecordInv, RecordTypeOK, Run
<1>4. decisions \subseteq Decision /\ UniqueIds
  BY DEF RecordInv, RecordTypeOK
<1>5. decisions \subseteq decisions' /\ decisions' \subseteq Decision /\ UniqueIds'
  <2>1. CASE UNCHANGED decisions
    BY <1>4, <2>1 DEF UniqueIds
  <2>2. CASE \E t \in Times, ids \in SUBSET (DecisionIds \ {d[2] : d \in decisions}) :
               decisions' = decisions \cup ({t} \X ids)
    <3>1. PICK t \in Times, ids \in SUBSET DecisionIds :
            /\ \A i \in ids, d \in decisions : d[2] # i
            /\ decisions' = decisions \cup ({t} \X ids)
      BY <2>2
    <3>2. decisions' \subseteq Decision
      BY <1>4, <3>1 DEF Decision
    <3>3. UniqueIds'
      <4> SUFFICES ASSUME NEW a \in decisions', NEW b \in decisions', a[2] = b[2] PROVE a = b
        BY DEF UniqueIds
      <4>1. CASE a \in decisions /\ b \in decisions
        BY <1>4, <4>1 DEF UniqueIds
      <4>2. CASE a \notin decisions /\ b \notin decisions
        BY <3>1, <4>2
      <4>3. CASE a \in decisions /\ b \notin decisions
        <5>1. b[2] \in ids
          BY <3>1, <4>3
        <5> QED  BY <3>1, <4>3, <5>1
      <4>4. CASE a \notin decisions /\ b \in decisions
        <5>1. a[2] \in ids
          BY <3>1, <4>4
        <5> QED  BY <3>1, <4>4, <5>1
      <4> QED
        BY <4>1, <4>2, <4>3, <4>4
    <3> QED  BY <3>1, <3>2, <3>3
  <2>3. \/ UNCHANGED decisions
        \/ \E t \in Times, ids \in SUBSET (DecisionIds \ {d[2] : d \in decisions}) :
             decisions' = decisions \cup ({t} \X ids)
    <3>1. ASSUME decisions' # decisions
          PROVE  \E t \in Times, ids \in SUBSET (DecisionIds \ {d[2] : d \in decisions}) :
                   decisions' = decisions \cup ({t} \X ids)
      <4>1. PICK t \in Times,
                 ids \in kSubset(run[r].found, DecisionIds \ {d[2] : d \in decisions}) :
              decisions' = decisions \cup ({t} \X ids)
        BY <3>1 DEF SaveDecisions
      <4>2. ids \in SUBSET (DecisionIds \ {d[2] : d \in decisions})
        BY DEF kSubset
      <4> QED  BY <4>1, <4>2
    <3> QED  BY <3>1
  <2> QED  BY <2>1, <2>2, <2>3
<1> QED  BY <1>1, <1>3, <1>5, RunMoves DEF RunAt

LEMMA RunStepKeeps ==
  ASSUME RecordInv, NEW r \in Runs,
         (\E n \in 0..PerRun : Processed(r, n)) \/ Failed(r) \/ SaveRun(r)
         \/ (SaveUsage(r) /\ UNCHANGED <<usage, counted>>)
  PROVE  RecordInv'
<1>1. ~RunAt(r, "over")
  BY DEF Processed, Failed, SaveRun, SaveUsage, RunAt
<1>2. UNCHANGED <<decisions, usage, counted, pager>>
  BY DEF Processed, Failed, SaveRun, SaveUsage
<1>3. \/ \E n \in 0..PerRun : run' = [run EXCEPT ![r].pc = "row", ![r].found = n]
      \/ \E pc \in {"over", "decisions", "usage"} : run' = [run EXCEPT ![r].pc = pc]
  BY DEF Processed, Failed, SaveRun, SaveUsage, RunGoto
<1>4. \E new \in Run : run' = [run EXCEPT ![r] = new]
  <2>0. run[r] \in Run
    BY DEF RecordInv, RecordTypeOK, Run
  <2>1. CASE \E n \in 0..PerRun : run' = [run EXCEPT ![r].pc = "row", ![r].found = n]
    <3>1. PICK n \in 0..PerRun : run' = [run EXCEPT ![r].pc = "row", ![r].found = n]
      BY <2>1
    <3>2. PICK new : new = [run[r] EXCEPT !.pc = "row", !.found = n]
      OBVIOUS
    <3>3. new \in Run
      BY <2>0, <3>2 DEF Run
    <3> QED  BY <3>1, <3>2, <3>3
  <2>2. CASE \E pc \in {"over", "decisions", "usage"} : run' = [run EXCEPT ![r].pc = pc]
    <3>1. PICK pc \in {"over", "decisions", "usage"} : run' = [run EXCEPT ![r].pc = pc]
      BY <2>2
    <3>2. PICK new : new = [run[r] EXCEPT !.pc = pc]
      OBVIOUS
    <3>3. new \in Run
      BY <2>0, <3>2 DEF Run
    <3> QED  BY <3>1, <3>2, <3>3
  <2> QED  BY <1>3, <2>1, <2>2
<1>5. decisions' \subseteq Decision /\ UniqueIds'
  BY <1>2 DEF RecordInv, RecordTypeOK, UniqueIds
<1> QED  BY <1>1, <1>2, <1>4, <1>5, RunMoves

LEMMA CountKeeps ==
  ASSUME RecordInv, NEW r \in Runs, SaveUsage(r), usage' = Added(r), counted' = counted \cup {r}
  PROVE  RecordInv'
<1>1. /\ RunAt(r, "usage")
      /\ run' = [run EXCEPT ![r].pc = "over"]
      /\ UNCHANGED <<decisions, pager>>
  BY DEF SaveUsage, RunGoto
<1>2. run[r] \in Run
  BY DEF RecordInv, RecordTypeOK, Run
<1>3. PICK m \in Months, n \in 0..PerRun : m = run[r].month /\ n = run[r].found
  BY <1>2 DEF Run
<1>4. n \in Nat
  BY <1>3, AgentRecordsAssumption
<1>5. usage' = [usage EXCEPT ![m] = @ + n]
  BY <1>3 DEF Added
<1>6. usage \in [Months -> Nat]
  BY DEF RecordInv, RecordTypeOK
<1>7. usage' \in [Months -> Nat]
  BY <1>4, <1>5, <1>6
<1>8. /\ run' \in [Runs -> Run]
      /\ run'[r].pc = "over" /\ \A q \in Runs : q # r => run'[q] = run[q]
      /\ \A q \in Runs : run'[q].found = run[q].found
  BY <1>1, <1>2 DEF RecordInv, RecordTypeOK, Run
<1>9. PagerInv' /\ pager' \in Pager'
  BY <1>1, ReaderWaits DEF RecordInv
<1>10. RecordTypeOK'
  BY <1>1, <1>7, <1>8, <1>9 DEF RecordInv, RecordTypeOK, Run, Pager
<1>11. CountedInv'
  BY <1>8 DEF RecordInv, RecordTypeOK, CountedInv, RunAt
<1>12. r \notin counted
  BY <1>1 DEF RecordInv, CountedInv, RunAt
<1>13. Found' = Found
  BY <1>8 DEF Found
<1>14. Total(usage', Months) = Total(usage, Months) + n
  <2>1. IsFiniteSet(Months)
    BY AgentRecordsAssumption
  <2>2. PICK f \in [Months -> Nat], g \in [Months -> Nat] : f = usage /\ g = usage'
    BY <1>6, <1>7
  <2>3. g[m] = f[m] + n /\ \A y \in Months : y # m => g[y] = f[y]
    BY <1>5, <2>2
  <2>4. Total(g, Months) = Total(f, Months) + n
    BY <1>4, <2>1, <2>3, TotalOfLarger
  <2> QED  BY <2>2, <2>4
<1>15. Total(Found, counted \cup {r}) = Total(Found, counted) + n
  <2>1. IsFiniteSet(counted) /\ counted \subseteq Runs
    BY CountedIsFinite DEF RecordInv, RecordTypeOK
  <2>2. \A q \in counted \cup {r} : Found[q] \in Nat
    BY <2>1, FoundIsNumber DEF RecordInv
  <2>3. Found[r] = n
    BY <1>3 DEF Found
  <2> QED  BY <1>12, <2>1, <2>2, <2>3, TotalOfOneMore
<1>16. UsageIsTheRuns'
  <2>1. Total(usage, Months) = Total(Found, counted)
    BY DEF RecordInv, UsageIsTheRuns, Found
  <2>2. Total(usage', Months) = Total(Found', counted')
    BY <1>13, <1>14, <1>15, <2>1
  <2> QED  BY <2>2 DEF UsageIsTheRuns, Found
<1>17. UniqueIds'
  BY <1>1 DEF RecordInv, UniqueIds
<1> QED  BY <1>9, <1>10, <1>11, <1>16, <1>17 DEF RecordInv

-----------------------------------------------------------------------------
(* The reader.                                                             *)

LEMMA PageFacts ==
  ASSUME NEW n \in Nat, n # 0
  PROVE  /\ (n + PageSize - 1) \div PageSize \in 1..n
         /\ \A p \in Nat : /\ Clamped(p, (n + PageSize - 1) \div PageSize) \in 1..n
                           /\ p \in 1..((n + PageSize - 1) \div PageSize) =>
                                Clamped(p, (n + PageSize - 1) \div PageSize) = p
<1>0. PageSize \in Nat \ {0}
  BY AgentRecordsAssumption
<1>1. PICK k : k = (n + PageSize - 1) \div PageSize
  OBVIOUS
<1>2. k \in 1..n
  BY <1>0, <1>1
<1>3. ASSUME NEW p \in Nat
      PROVE  Clamped(p, k) \in 1..n /\ (p \in 1..k => Clamped(p, k) = p)
  <2>1. PICK g : g = Max({p, 1})
    OBVIOUS
  <2>2. \E x \in {p, 1} : \A y \in {p, 1} : x >= y
    OBVIOUS
  <2>3. g \in {p, 1} /\ g >= 1 /\ g >= p
    BY <2>1, <2>2 DEF Max
  <2>4. \E x \in {g, k} : \A y \in {g, k} : x =< y
    BY <1>2, <2>3
  <2>5. PICK l : l = Min({g, k})
    OBVIOUS
  <2>6. l \in {g, k} /\ l <= g /\ l <= k
    BY <2>4, <2>5 DEF Min
  <2>7. l \in 1..n /\ (p \in 1..k => l = p)
    BY <1>2, <2>3, <2>6
  <2> QED  BY <2>1, <2>5, <2>7 DEF Clamped
<1> QED  BY <1>1, <1>2, <1>3

LEMMA OpenKeeps ==
  ASSUME RecordInv, NEW p \in 0..MaxPages, OpenPage(p)
  PROVE  RecordInv'
<1>0. RecordTypeOK /\ UniqueIds /\ PagerInv
  BY DEF RecordInv
<1>1. PICK n : n = Cardinality(decisions)
  OBVIOUS
<1>2. n \in Nat /\ n <= MaxPages /\ n # 0
  <2>1. IsFiniteSet(decisions) /\ Cardinality(decisions) <= MaxPages
    BY <1>0, DecisionsAreFew
  <2>2. decisions # {}
    BY DEF OpenPage
  <2> QED  BY <1>1, <2>1, <2>2, FS_CardinalityType, FS_EmptySet
<1>3. MaxPages \in Nat
  BY AgentRecordsAssumption, FS_CardinalityType DEF MaxPages
<1>4. p \in Nat
  BY <1>3
<1>5. PICK pages : pages = (n + PageSize - 1) \div PageSize
  OBVIOUS
<1>6. PICK page : page = Clamped(p, pages)
  OBVIOUS
<1>7. pages \in 1..n /\ page \in 1..n /\ (p \in 1..pages => page = p)
  BY <1>2, <1>4, <1>5, <1>6, PageFacts
<1>8. PICK goesOn \in BOOLEAN :
        goesOn = (pager.pc = "shown" /\ p = pager.page + 1 /\ p <= pages)
  OBVIOUS
<1>a. goesOn => pager.pc = "shown" /\ p = pager.page + 1 /\ p <= pages
  BY Zenon, <1>8
<1>9. PICK seen : seen = IF goesOn THEN pager.seen ELSE {}
  OBVIOUS
<1>10. PICK expected : expected = IF page = 1 THEN decisions
                                  ELSE IF goesOn THEN pager.expected ELSE {}
  OBVIOUS
<1>11. /\ pager' = [pc |-> "counted", page |-> page, pages |-> pages, rows |-> {},
                    seen |-> seen, expected |-> expected]
       /\ UNCHANGED <<run, decisions, usage, counted>>
  BY <1>1, <1>5, <1>6, <1>8, <1>9, <1>10 DEF OpenPage
<1>12. pager \in Pager
  BY <1>0 DEF RecordTypeOK, Pager
<1>13. pager.page \in Nat /\ pager.page >= 1
  BY <1>3, <1>12 DEF Pager
<1>14. seen \in SUBSET decisions /\ expected \in SUBSET decisions
  BY <1>9, <1>10, <1>12 DEF Pager
<1>15. page \in 1..MaxPages /\ pages \in 0..MaxPages
  BY <1>2, <1>3, <1>7
<1>16. RecordTypeOK'
  <2>1. pager' \in Pager
    BY <1>11, <1>14, <1>15 DEF Pager
  <2> QED  BY <1>0, <1>11, <2>1 DEF RecordTypeOK, Pager
<1>17. \E R \in SUBSET decisions :
         /\ expected \cap R \subseteq seen
         /\ \A a \in R, b \in expected \ R : ~Before(b, a)
         /\ expected \subseteq R \/ Cardinality(R) = (page - 1) * PageSize
  <2>1. CASE page = 1
    <3>1. Cardinality({}) = (page - 1) * PageSize
      BY <2>1, FS_EmptySet, AgentRecordsAssumption
    <3> QED  BY <3>1
  <2>2. CASE page # 1 /\ ~goesOn
    BY <1>10, <2>2
  <2>3. CASE page # 1 /\ goesOn
    <3>1. PICK R \in SUBSET decisions : ReadTo(R)
      BY <1>0 DEF PagerInv
    <3>2. page = pager.page + 1
      <4>1. p = pager.page + 1 /\ p <= pages
        BY <1>a, <2>3
      <4>2. p \in 1..pages
        BY <1>7, <1>13, <4>1
      <4> QED  BY <1>7, <4>1, <4>2
    <3>3. page - 1 = pager.page
      BY <1>13, <3>2
    <3>4. expected = pager.expected /\ seen = pager.seen /\ pager.pc = "shown"
      BY <1>a, <1>9, <1>10, <2>3
    <3> QED  BY <3>1, <3>3, <3>4 DEF ReadTo
  <2> QED  BY <2>1, <2>2, <2>3
<1>18. PagerInv'
  <2>1. PICK R \in SUBSET decisions :
         /\ expected \cap R \subseteq seen
         /\ \A a \in R, b \in expected \ R : ~Before(b, a)
         /\ expected \subseteq R \/ Cardinality(R) = (page - 1) * PageSize
    BY <1>17
  <2>2. /\ pager'.expected = expected /\ pager'.seen = seen
        /\ pager'.page = page /\ pager'.pc = "counted"
    BY <1>11
  <2>3. ReadTo(R)'
    BY <2>1, <2>2 DEF ReadTo, Before
  <2> QED  BY <1>11, <2>3 DEF PagerInv
<1>19. UniqueIds' /\ CountedInv' /\ UsageIsTheRuns'
  BY <1>11 DEF RecordInv, UniqueIds, CountedInv, RunAt, UsageIsTheRuns
<1> QED  BY <1>16, <1>18, <1>19 DEF RecordInv

(* Decisions are in one order.                                             *)
LEMMA OneOrder ==
  ASSUME RecordTypeOK
  PROVE  \A a, b \in decisions : a # b => (Before(a, b) <=> ~Before(b, a))
<1> SUFFICES ASSUME NEW a \in decisions, NEW b \in decisions, a # b
             PROVE  Before(a, b) <=> ~Before(b, a)
  OBVIOUS
<1>1. a \in Times \X DecisionIds /\ b \in Times \X DecisionIds
  BY DEF RecordTypeOK, Decision
<1>2. a[1] \in Nat /\ a[2] \in Nat /\ b[1] \in Nat /\ b[2] \in Nat
  BY <1>1, AgentRecordsAssumption
<1>3. a[1] # b[1] \/ a[2] # b[2]
  BY <1>1
<1> QED  BY <1>2, <1>3 DEF Before

(* A page and what it skips are the first of the decisions.                *)
LEMMA PageIsOfTheFirst ==
  ASSUME RecordTypeOK, IsFiniteSet(decisions), NEW k \in Nat \ {0}, NEW rows \in PagesOf(decisions, k)
  PROVE  \E before \in SUBSET decisions :
           /\ rows \subseteq decisions
           /\ Ahead(before, decisions \ before)
           /\ Ahead(before \cup rows, decisions \ (before \cup rows))
           /\ Cardinality(before) <= (k - 1) * PageSize
           /\ before \cup rows = decisions \/ Cardinality(before \cup rows) = k * PageSize
<1>0. PageSize \in Nat \ {0}
  BY AgentRecordsAssumption
<1>1. PICK n \in Nat : n = Cardinality(decisions)
  BY FS_CardinalityType
<1>2. PICK j \in Nat : j = (k - 1) * PageSize
  BY <1>0
<1>3. k * PageSize = j + PageSize
  BY <1>0, <1>2
<1>4. PICK skipped : skipped = Min({j, n})
  OBVIOUS
<1>5. skipped \in {j, n} /\ skipped <= j /\ skipped <= n
  <2>1. \E x \in {j, n} : \A y \in {j, n} : x =< y
    OBVIOUS
  <2> QED  BY <1>4, <2>1 DEF Min
<1>6. PICK size : size = Min({PageSize, n - skipped})
  OBVIOUS
<1>7. size \in {PageSize, n - skipped} /\ size <= PageSize /\ size <= n - skipped
  <2>1. \E x \in {PageSize, n - skipped} : \A y \in {PageSize, n - skipped} : x =< y
    BY <1>0, <1>5
  <2> QED  BY <1>6, <2>1 DEF Min
<1>8. /\ rows \in kSubset(size, decisions)
      /\ \E before \in kSubset(skipped, decisions \ rows) :
           Ahead(before, rows) /\ Ahead(before \cup rows, decisions \ (before \cup rows))
  BY <1>1, <1>2, <1>4, <1>6 DEF PagesOf
<1>9. PICK before \in kSubset(skipped, decisions \ rows) :
        Ahead(before, rows) /\ Ahead(before \cup rows, decisions \ (before \cup rows))
  BY <1>8
<1>10. /\ rows \subseteq decisions /\ Cardinality(rows) = size
       /\ before \subseteq decisions \ rows /\ Cardinality(before) = skipped
  BY <1>8, <1>9 DEF kSubset
<1>11. Ahead(before, decisions \ before)
  BY <1>9 DEF Ahead
<1>12. IsFiniteSet(rows) /\ IsFiniteSet(before)
  <2>1. before \subseteq decisions
    BY <1>10
  <2> QED  BY <1>10, <2>1, FS_Subset
<1>13. Cardinality(before \cup rows) = skipped + size
  <2>1. before \cap rows = {}
    BY <1>10
  <2>2. Cardinality(before \cap rows) = 0
    BY <2>1, FS_EmptySet
  <2>3. Cardinality(before \cup rows)
          = Cardinality(before) + Cardinality(rows) - Cardinality(before \cap rows)
    BY <1>12, FS_Union
  <2>4. skipped \in Int /\ size \in Int
    BY <1>0, <1>5, <1>7
  <2> QED  BY <1>10, <2>2, <2>3, <2>4
<1>14. before \cup rows = decisions \/ Cardinality(before \cup rows) = k * PageSize
  <2>1. skipped + size = n \/ skipped + size = j + PageSize
    BY <1>0, <1>5, <1>7
  <2>2. before \cup rows \in SUBSET decisions
    BY <1>10
  <2>3. Cardinality(decisions) = Cardinality(before \cup rows) => decisions = before \cup rows
    BY <2>2, FS_Subset
  <2> QED  BY <1>1, <1>3, <1>13, <2>1, <2>3
<1> QED  BY <1>2, <1>5, <1>9, <1>10, <1>11, <1>14

(* What is before the next page has all been seen.                         *)
LEMMA FetchKeeps ==
  ASSUME RecordInv, FetchPage
  PROVE  RecordInv'
<1>0. RecordTypeOK /\ UniqueIds /\ PagerInv /\ PageSize \in Nat \ {0}
  BY AgentRecordsAssumption DEF RecordInv
<1>1. IsFiniteSet(decisions)
  BY <1>0, DecisionsAreFew
<1>2. PICK rows \in PagesOf(decisions, pager.page) :
        pager' = [pager EXCEPT !.pc = "shown", !.rows = rows, !.seen = @ \cup rows]
  BY DEF FetchPage
<1>3. pager.pc = "counted" /\ UNCHANGED <<run, decisions, usage, counted>>
  BY DEF FetchPage
<1>4. pager \in Pager
  BY <1>0 DEF RecordTypeOK, Pager
<1>5. PICK k \in Nat \ {0} : k = pager.page
  <2>1. MaxPages \in Nat
    BY AgentRecordsAssumption, FS_CardinalityType DEF MaxPages
  <2> QED  BY <1>4, <2>1 DEF Pager
<1>6. PICK before \in SUBSET decisions :
        /\ rows \subseteq decisions
        /\ Ahead(before, decisions \ before)
        /\ Ahead(before \cup rows, decisions \ (before \cup rows))
        /\ Cardinality(before) <= (k - 1) * PageSize
        /\ before \cup rows = decisions \/ Cardinality(before \cup rows) = k * PageSize
  BY <1>0, <1>1, <1>2, <1>5, PageIsOfTheFirst
<1>7. /\ pager'.pc = "shown" /\ pager'.rows = rows /\ pager'.seen = pager.seen \cup rows
      /\ pager'.page = k /\ pager'.expected = pager.expected
      /\ pager' \in Pager
  BY <1>2, <1>4, <1>5, <1>6 DEF Pager
<1>8. pager.expected \subseteq decisions
  BY <1>4 DEF Pager
<1>9. PICK R \in SUBSET decisions : ReadTo(R)
  BY <1>0 DEF PagerInv
<1>10. ASSUME NEW d \in pager.expected, d \in before PROVE d \in pager.seen
  <2>1. CASE d \in R
    BY <1>9, <2>1 DEF ReadTo
  <2>2. CASE d \notin R
    <3>1. Cardinality(R) = (k - 1) * PageSize
      BY <1>3, <1>5, <1>9, <2>2 DEF ReadTo
    <3>2. \A a \in R : Before(a, d)
      <4> TAKE a \in R
      <4>1. ~Before(d, a) /\ a # d /\ a \in decisions /\ d \in decisions
        BY <1>8, <1>9, <2>2 DEF ReadTo
      <4> QED  BY <1>0, <4>1, OneOrder
    <3>3. R \cup {d} \in SUBSET before
      BY <1>6, <1>9, <1>10, <3>2 DEF Ahead
    <3>4. IsFiniteSet(before) /\ IsFiniteSet(R)
      BY <1>1, FS_Subset
    <3>5. Cardinality(R \cup {d}) <= Cardinality(before)
      BY <3>3, <3>4, FS_Subset
    <3>6. Cardinality(R \cup {d}) = Cardinality(R) + 1
      BY <2>2, <3>4, FS_AddElement
    <3>7. Cardinality(R) \in Nat /\ Cardinality(before) \in Nat
      BY <3>4, FS_CardinalityType
    <3>8. PICK j : j = (k - 1) * PageSize
      OBVIOUS
    <3>9. Cardinality(before) <= j /\ Cardinality(R) = j
      BY <1>6, <3>1, <3>8
    <3> QED  BY <3>5, <3>6, <3>7, <3>9
  <2> QED  BY <2>1, <2>2
<1>11. ReadTo(before \cup rows)'
  <2> DEFINE T == before \cup rows
  <2>1. pager'.expected \cap T \subseteq pager'.seen
    BY <1>7, <1>10
  <2>2. \A a \in T, b \in pager'.expected \ T : ~Before(b, a)
    BY <1>6, <1>7, <1>8 DEF Ahead
  <2>3. \/ pager'.expected \subseteq T
        \/ Cardinality(T) = k * PageSize
    BY <1>6, <1>7, <1>8
  <2>4. pager'.rows \subseteq T
    BY <1>7
  <2> HIDE DEF T
  <2>5. ReadTo(T)'
    BY <1>7, <2>1, <2>2, <2>3, <2>4 DEF ReadTo, Before
  <2> QED  BY <2>5 DEF T
<1>12. PagerInv'
  <2>1. before \cup rows \in SUBSET decisions'
    BY <1>3, <1>6
  <2> QED  BY <1>11, <2>1 DEF PagerInv
<1>13. RecordTypeOK'
  BY <1>0, <1>3, <1>7 DEF RecordTypeOK, Pager
<1>14. UniqueIds' /\ CountedInv' /\ UsageIsTheRuns'
  BY <1>3 DEF RecordInv, UniqueIds, CountedInv, RunAt, UsageIsTheRuns
<1> QED  BY <1>12, <1>13, <1>14 DEF RecordInv

-----------------------------------------------------------------------------
LEMMA RecordInitHolds ==
  ASSUME RecordInit
  PROVE  RecordInv
<1>1. /\ decisions = {} /\ counted = {} /\ pager = Closed
      /\ usage = [m \in Months |-> 0]
      /\ run \in [Runs -> [pc : {"busy"}, month : Months, found : {0}]]
  BY DEF RecordInit
<1>2. MaxPages \in Nat /\ MaxPages >= 1
  <2>1. Cardinality(DecisionIds) \in Nat /\ Cardinality(DecisionIds) # 0
    BY AgentRecordsAssumption, FS_CardinalityType, FS_EmptySet
  <2> QED  BY <2>1 DEF MaxPages
<1>3. RecordTypeOK
  <2>1. run \in [Runs -> Run]
    BY <1>1, AgentRecordsAssumption DEF Run
  <2>2. pager \in Pager
    BY <1>1, <1>2 DEF Pager, Closed
  <2> QED  BY <1>1, <2>1, <2>2 DEF RecordTypeOK, Run, Pager
<1>4. UniqueIds /\ CountedInv
  BY <1>1 DEF UniqueIds, CountedInv
<1>5. PagerInv
  BY <1>1 DEF PagerInv, ReadTo, Closed
<1>6. UsageIsTheRuns
  <2>1. Units(usage, Months) = {}
    BY <1>1 DEF Units
  <2>2. Total(usage, Months) = Cardinality(Units(usage, Months))
    BY <1>1, AgentRecordsAssumption, TotalCounts
  <2>3. Total(Found, {}) = Cardinality(Units(Found, {}))
    BY FS_EmptySet, TotalCounts
  <2>4. Units(Found, {}) = {}
    BY DEF Units
  <2>5. Total(usage, Months) = Total(Found, counted)
    BY <1>1, <2>1, <2>2, <2>3, <2>4
  <2> QED  BY <2>5 DEF UsageIsTheRuns, Found
<1> QED  BY <1>3, <1>4, <1>5, <1>6 DEF RecordInv

LEMMA RecordStepKeeps ==
  ASSUME RecordInv, [RecordStep]_recordVars
  PROVE  RecordInv'
<1>1. ASSUME NEW r \in Runs, SaveUsage(r) PROVE RecordInv'
  <2>1. CASE UNCHANGED <<usage, counted>>
    BY <1>1, <2>1, RunStepKeeps
  <2>2. CASE usage' = Added(r) /\ counted' = counted \cup {r}
    BY <1>1, <2>2, CountKeeps
  <2> QED  BY <1>1, <2>1, <2>2 DEF SaveUsage
<1>2. ASSUME NEW r \in Runs, (\E n \in 0..PerRun : Processed(r, n)) \/ Failed(r) \/ SaveRun(r)
      PROVE  RecordInv'
  BY <1>2, RunStepKeeps
<1>3. CASE UNCHANGED recordVars
  BY <1>3 DEF RecordInv, RecordTypeOK, UniqueIds, CountedInv, RunAt, UsageIsTheRuns, PagerInv, ReadTo,
              recordVars
<1> QED  BY <1>1, <1>2, <1>3, SaveDecisionsKeeps, OpenKeeps, FetchKeeps DEF RecordStep

(* The rows of runs, decisions and usage and the reader's page stay well   *)
(* formed, and there are never more pages than decisions.                  *)
THEOREM RecordTypeTheorem == RecordSpec => []RecordTypeOK
<1>1. RecordInv => RecordTypeOK
  BY DEF RecordInv
<1> QED  BY <1>1, RecordInitHolds, RecordStepKeeps, PTL DEF RecordSpec

(* Whatever runs end while the user leafs through the list, he passes over *)
(* no decision that was there when he began, and the usage of all months   *)
(* is that of the runs that were counted (getDecisionsPage, addUserUsage). *)
THEOREM WholeTheorem == RecordSpec => []RecordsAreWhole
<1>1. RecordInv => RecordsAreWhole
  <2> SUFFICES ASSUME RecordInv PROVE NoneSkipped
    BY DEF RecordInv, RecordsAreWhole
  <2> SUFFICES ASSUME pager.pc = "shown",
                      NEW d \in pager.expected \ pager.seen, NEW s \in pager.rows
               PROVE  ~Before(d, s)
    BY DEF NoneSkipped
  <2>1. PICK R \in SUBSET decisions : ReadTo(R)
    BY DEF RecordInv, PagerInv
  <2> QED  BY <2>1 DEF ReadTo
<1> QED  BY <1>1, RecordInitHolds, RecordStepKeeps, PTL DEF RecordSpec

-----------------------------------------------------------------------------
(* The dashboard is both, and every variable keeps to its type.            *)
THEOREM DashboardTypeTheorem == Spec => []TypeOK
<1>1. ASSUME ConsoleInv /\ RecordInv, [Next]_vars PROVE (ConsoleInv /\ RecordInv)'
  <2>1. [ConsoleStep]_consoleVars /\ [RecordStep]_recordVars
    BY <1>1 DEF Next, vars, consoleVars, recordVars
  <2> QED  BY <1>1, <2>1, ConsoleInvStep, RecordStepKeeps
<1>2. Init => ConsoleInv /\ RecordInv
  BY ConsoleInvInit, RecordInitHolds DEF Init
<1>3. ConsoleInv /\ RecordInv => TypeOK
  BY DEF ConsoleInv, RecordInv, TypeOK
<1> QED  BY <1>1, <1>2, <1>3, PTL DEF Spec
=============================================================================
