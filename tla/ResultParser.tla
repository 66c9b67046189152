----------------------------- MODULE ResultParser -----------------------------
(***************************************************************************)
(* What the console shows for a text the language model wrote              *)
(* (web/features/agent/result-parser.ts, web/features/ai/syncpilot-agent). *)
(* A text is a sequence of pieces, as the search for its object tells them *)
(* apart, and the reply its object is: of each field, what the parser      *)
(* tells apart.  A phrase stands for the texts that hold that word.        *)
(***************************************************************************)
EXTENDS Integers, Sequences, FiniteSetsExt

CONSTANT MaxItems  \* bound: usable items of a list in a reply

ASSUME ResultParserAssumption == MaxItems \in Nat

Levels == {"low", "medium", "high"}
Readiness == {"ready", "needs_review", "blocked"}
Owners == {"operator", "automation", "customer"}
Amounts == -1..MaxItems  \* usable items of a list; -1 if it is no array
NoAmount == -1000        \* a confidence that is no number

Reply == [riskLevel : Levels \cup {"urgent", "critical", "severe", "minor", "small", "other"},
          automationReadiness : Readiness \cup {"review", "human", "manual", "block", "wait",
                                                "missing", "other"},
          owner : Owners \cup {"auto", "system", "bot", "client", "vendor", "other"},
          confidence : -100..200 \cup {NoAmount},
          suggestedTags : Amounts, recommendedActions : Amounts, missingInformation : Amounts]

(* Pieces of a text: prose without braces or fences, a fence of three      *)
(* backquotes, a brace of the prose, an object, an object that has fences  *)
(* in its strings from its head to its tail, and JSON that is no object.   *)
Piece == {"prose", "fence", "open", "close", "object", "head", "tail", "value"}
Text == [form : Seq(Piece), reply : Reply]

(* syncPilotAgentResultSchema.                                             *)
Result == [riskLevel : Levels, automationReadiness : Readiness, owner : Owners,
           confidence : 0..100, suggestedTags : 0..6, recommendedActions : 1..5,
           missingInformation : 0..5]

-----------------------------------------------------------------------------
RiskLevel(phrase) ==
  CASE phrase \in Levels                          -> phrase
    [] phrase \in {"urgent", "critical", "severe"} -> "high"
    [] phrase \in {"minor", "small"}               -> "low"
    [] OTHER                                       -> "medium"

AutomationReadiness(phrase) ==
  CASE phrase \in Readiness                       -> phrase
    [] phrase \in {"review", "human", "manual"}   -> "needs_review"
    [] phrase \in {"block", "wait", "missing"}    -> "blocked"
    [] OTHER                                      -> "ready"

ActionOwner(phrase) ==
  CASE phrase \in Owners                     -> phrase
    [] phrase \in {"auto", "system", "bot"}  -> "automation"
    [] phrase \in {"client", "vendor"}       -> "customer"
    [] OTHER                                 -> "operator"

Confidence(n) == IF n = NoAmount THEN 70 ELSE Max({0, Min({100, n})})

\* Mutation: one more item is kept than the schema takes.
StringListLong(n, maxItems) == IF n = -1 THEN 0 ELSE Min({n, maxItems + 1})

StringList(n, maxItems) == IF n = -1 THEN 0 ELSE Min({n, maxItems})

(* normalizeActions: with no usable action, the one to review.             *)
Actions(n) == IF n < 1 THEN 1 ELSE Min({n, 5})

(* normalizeAgentResult.                                                   *)
Normalized(r) ==
  [riskLevel |-> RiskLevel(r.riskLevel),
   automationReadiness |-> AutomationReadiness(r.automationReadiness),
   owner |-> IF r.recommendedActions < 1 THEN "operator" ELSE ActionOwner(r.owner),
   confidence |-> Confidence(r.confidence),
   suggestedTags |-> StringList(r.suggestedTags, 6),
   recommendedActions |-> Actions(r.recommendedActions),
   missingInformation |-> StringList(r.missingInformation, 5)]

(* buildFallbackAgentResult.                                               *)
Fallback ==
  [riskLevel |-> "medium", automationReadiness |-> "needs_review", owner |-> "operator",
   confidence |-> 55, suggestedTags |-> 0, recommendedActions |-> 1, missingInformation |-> 0]

-----------------------------------------------------------------------------
At(f, pieces) == {i \in DOMAIN f : f[i] \in pieces}
Fences(f) == At(f, {"fence"})
Opens(f) == At(f, {"open", "object", "head"})
Closes(f) == At(f, {"close", "object", "tail"})

(* What the first two fences enclose, wherever they stand.                 *)
Fenced(f) ==
  IF \A i, j \in Fences(f) : i = j
  THEN <<>>
  ELSE LET first == Min(Fences(f))
       IN  SubSeq(f, first + 1, Min(Fences(f) \ {first}) - 1)

(* extractJsonObject: else all from the first brace to the last one.       *)
ExtractJsonObject(f) ==
  IF Fenced(f) # <<>> THEN Fenced(f)
  ELSE IF Opens(f) = {} \/ Closes(f) = {} THEN <<>>
  ELSE SubSeq(f, Min(Opens(f)), Max(Closes(f)))

(* JSON.parse takes it.                                                    *)
IsJson(c) ==
  \/ c \in {<<"object">>, <<"value">>}
  \/ /\ Len(c) > 1 /\ c[1] = "head" /\ c[Len(c)] = "tail"
     /\ \A i \in 2..Len(c) - 1 : c[i] \in {"fence", "prose", "open", "close"}

(* normalizeAgentResult: JSON that is no object is one without fields.     *)
Blank ==
  [riskLevel |-> "other", automationReadiness |-> "other", owner |-> "other",
   confidence |-> NoAmount, suggestedTags |-> -1, recommendedActions |-> -1,
   missingInformation |-> -1]

ReplyIn(text) == IF ExtractJsonObject(text.form) = <<"value">> THEN Blank ELSE text.reply

(* tryParseAgentResult: what is cut out is no JSON, or one that after all  *)
(* does not fit the schema, and the text is not read.                      *)
Readable(text) ==
  IsJson(ExtractJsonObject(text.form)) /\ Normalized(ReplyIn(text)) \in Result

(* An object with nothing but prose around it, or a pair of fences.        *)
PlainObject(f) ==
  \E i \in DOMAIN f :
    /\ f[i] = "object"
    /\ LET others == DOMAIN f \ {i}
       IN  \/ \A j \in others : f[j] = "prose"
           \/ /\ {i - 1, i + 1} \subseteq others
              /\ \A j \in others : f[j] = IF j \in {i - 1, i + 1} THEN "fence" ELSE "prose"
=============================================================================
