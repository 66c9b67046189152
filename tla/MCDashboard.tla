---------------------------- MODULE MCDashboard ----------------------------
(* Dashboard for TLC: a behaviour is of the console or of the records.     *)
EXTENDS Dashboard, TLC

VARIABLE part

Ordinary == [riskLevel |-> "low", automationReadiness |-> "ready", owner |-> "operator",
             confidence |-> 80, suggestedTags |-> 2, recommendedActions |-> 2,
             missingInformation |-> 1]

(* Objects that are ordinary but for one field.                            *)
MCReplies ==
  {[Ordinary EXCEPT !.riskLevel = x] : x \in {"low", "severe", "small", "other"}} \cup
  {[Ordinary EXCEPT !.automationReadiness = x] : x \in {"manual", "wait", "other"}} \cup
  {[Ordinary EXCEPT !.owner = x] : x \in {"bot", "vendor", "other"}} \cup
  {[Ordinary EXCEPT !.confidence = x] : x \in {-1, 101, NoAmount}} \cup
  {[Ordinary EXCEPT !.suggestedTags = x] : x \in {-1, 7}} \cup
  {[Ordinary EXCEPT !.recommendedActions = x] : x \in {-1, 0, 6}} \cup
  {[Ordinary EXCEPT !.missingInformation = x] : x \in {6}}

(* Forms in which the model may write its object, or none: plain ones,     *)
(* then ones the search cuts wrongly, and one that is JSON but no object.  *)
MCForms ==
  {<<"object">>, <<"prose", "object", "prose">>, <<"prose", "fence", "object", "fence", "prose">>,
   <<"prose">>, <<"close", "open">>, <<"prose", "object", "close">>, <<"open", "prose", "object">>,
   <<"fence", "prose", "object", "fence">>, <<"object", "object">>,
   <<"head", "fence", "tail">>, <<"head", "fence", "prose", "fence", "tail">>,
   <<"fence", "head", "fence", "tail", "fence">>, <<"fence", "value", "fence">>}

MCTexts ==
  [form : {<<"object">>}, reply : MCReplies] \cup [form : MCForms, reply : {Ordinary}]

MCInit == part \in {"console", "records"} /\ Init

MCNext ==
  /\ \/ part = "console" /\ ConsoleStep /\ UNCHANGED recordVars
     \/ part = "records" /\ RecordStep /\ UNCHANGED consoleVars
  /\ UNCHANGED part

MCSpec == MCInit /\ [][MCNext]_<<vars, part>>

Symmetry == Permutations(Runs)
=============================================================================
