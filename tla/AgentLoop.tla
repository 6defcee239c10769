------------------------------ MODULE AgentLoop ------------------------------
(***************************************************************************)
(* The deterministic agent over the turns of one conversation: the loop    *)
(* that understands, plans, calls and gathers evidence                     *)
(* (services/agent-api/app/agent/loop.py, evidence.py), and the context    *)
(* its artifact leaves for the next question (agent/conversation.py).      *)
(* This is what KaliAgentRunner runs when llm_provider is "disabled".      *)
(*                                                                         *)
(* Turns follow each other here; module Conversation treats turns that     *)
(* overlap.  A row is one item of one kind that one step of one turn       *)
(* brought.  Ranking orders rows by their figures, which are left out:     *)
(* which rows a cap drops is open.  Only QuerySpec steps have metadata.    *)
(***************************************************************************)
EXTENDS ToolPlanning

CONSTANTS
  Questions,   \* questions the user may ask, turn by turn
  Turns,       \* questions in the conversation
  Items,       \* things a tool knows of
  RowCap       \* rows of an artifact that the next question sees (conversation.py: 10)

ASSUME LoopAssumption ==
  /\ Turns \in Nat \ {0}
  /\ RowCap \in Nat \ {0}
  /\ IsFiniteSet(Items)
  /\ DOMAIN Questions = 1..Turns
  /\ \A t \in 1..Turns : \A q \in Questions[t] : IsFiniteSet(q)

VARIABLES
  turn,      \* questions asked so far
  pc,        \* "ready", "executing"
  question,  \* the question of this turn
  context,   \* the ConversationState of this turn
  intent,    \* the intent the plan is for
  talk,      \* the conversation plan
  plan,      \* the tool plan
  obs,       \* observations: one per executed step
  artifact,  \* the last artifact stored in ai.messages
  outcome    \* of the last run: "none", "answered", "failed"

vars == <<turn, pc, question, context, intent, talk, plan, obs, artifact, outcome>>

MetadataCap == 3

Kinds == {"product", "customer", "order", "sale", "loyalty", "cohort"}
Rows  == [kind : Kinds, item : Items, by : {"id", "name", "none"}, turn : 1..Turns, step : 1..8]

Statuses == {"succeeded", "failed"}

TypeOK ==
  /\ turn \in 0..Turns
  /\ pc \in {"ready", "executing"}
  /\ turn > 0 => question \in Questions[turn]
  /\ context.rows \in SUBSET Rows /\ Cardinality(context.rows) <= RowCap
  /\ Len(context.datasets) <= MetadataCap
  /\ Len(plan.steps) <= (IF HasProfile(intent) THEN ProfileSteps ELSE MaxSteps)
  /\ Len(obs) <= Len(plan.steps)
  /\ \A k \in DOMAIN obs : obs[k].status \in Statuses /\ obs[k].rows \subseteq Rows
  /\ artifact.rows \in SUBSET Rows
  /\ outcome \in {"none", "answered", "failed"}

NoIntent == [entity |-> "none", grain |-> "none", measures |-> {}, dimensions |-> {},
             operations |-> {}, dated |-> FALSE, crossTool |-> FALSE]

NoPlan     == Plan(<<>>, FALSE, "none")
NoTalk     == ConversationPlan("none", "none", FALSE, "none", "none")
NoArtifact == [stored |-> FALSE, meta |-> FALSE, intent |-> NoIntent, rows |-> {},
               datasets |-> <<>>, answerability |-> "none"]

Init ==
  /\ turn = 0
  /\ pc = "ready"
  /\ question = {}
  /\ context = NoContext
  /\ intent = NoIntent
  /\ talk = NoTalk
  /\ plan = NoPlan
  /\ obs = <<>>
  /\ artifact = NoArtifact
  /\ outcome = "none"

-----------------------------------------------------------------------------
(* conversation.py *)

\* The artifact passed on whole, however long.
Uncapped(S) == {S}

Capped(S) == {R \in SUBSET S : Cardinality(R) = Min({RowCap, Cardinality(S)})}

\* _state_from_artifact and _compact_artifact, keeping rows R of it.  An
\* artifact about the agent itself leaves no analytic context.
StateFrom(a, R) ==
  IF ~a.stored \/ a.meta THEN NoContext
  ELSE [active |-> TRUE, entity |-> a.intent.entity, grain |-> a.intent.grain, dated |-> a.intent.dated,
        measures |-> a.intent.measures, dimensions |-> a.intent.dimensions,
        rows |-> R, datasets |-> Prefix(a.datasets, MetadataCap)]

-----------------------------------------------------------------------------
(* loop.py *)

\* _previous_artifact_plan.
ReusePlan == Plan(<<>>, TRUE, "none")

AskedNext == IF turn < Turns THEN Questions[turn + 1] ELSE {}

Ask(q) ==
  /\ pc = "ready"
  /\ turn < Turns
  /\ \E R \in Capped(artifact.rows) :
       LET ctx   == StateFrom(artifact, R)
           heard == Understand(q, ctx)
           cp    == PlanConversation(q, heard, ctx)
           i     == Replanned(heard, cp, ctx)
           reuse == cp.policy = "reuse_only"
       IN  /\ question' = q
           /\ context' = ctx
           /\ intent' = i
           /\ talk' = cp
           /\ IF ~reuse /\ PlanningRaises(i)
              THEN pc' = "ready" /\ plan' = NoPlan /\ outcome' = "failed"
              ELSE /\ pc' = "executing"
                   /\ plan' = (IF reuse THEN ReusePlan ELSE BuildToolPlan(i))
                   /\ outcome' = "none"
  /\ turn' = turn + 1
  /\ obs' = <<>>
  /\ UNCHANGED artifact

\* What rows a tool brings.
KindOf(n, i) ==
  CASE IsQuery(n) /\ DatasetFor(i) = "customers" -> "customer"
    [] IsQuery(n) /\ DatasetFor(i) # "customers" -> IF "product" \in SpecDimensions(i) THEN "product" ELSE "sale"
    [] n = "waro.analytics.cohort" -> "cohort"
    [] n = "waro.analytics.waros" -> "loyalty"
    [] n = "waro.sales.metrics" -> "sale"
    [] n = "waro.sales.list" -> "order"
    [] n \in {"waro.customers.list", "waro.customers.metrics"} -> "customer"
    [] OTHER -> "product"

\* What tells one row of a tool from another, as far as an answer looks: an id where the
\* tool has one among its dimensions, else a name.  QuerySpec asks for names and never
\* for ids; sums over sales and cohorts name nothing.
NamedBy(n, i) ==
  LET told == IF IsQuery(n) THEN SpecDimensions(i) ELSE Catalog[n].dimensions
  IN  CASE KindOf(n, i) \in {"sale", "cohort"} -> "none"
        [] KindOf(n, i) \notin {"sale", "cohort"} /\ told \cap {"id", "customer_id"} # {} -> "id"
        [] OTHER -> "name"

\* The rows of a tool with something to tell, as the gateway's answer has them.
RowsOf(n, k) ==
  [kind : {KindOf(n, intent)}, item : Items, by : {NamedBy(n, intent)}, turn : {turn}, step : {k}]

NextStep == Len(obs) + 1

Observe(status, rows) ==
  obs' = Append(obs, [status |-> status, rows |-> rows])

\* The gateway answers: with every item, with none, or with a failure.  A step
\* refused before the gateway (get_spec, scope, QuerySpec, arguments) is a failure too.
ExecuteStep ==
  /\ pc = "executing" /\ plan.valid
  /\ NextStep <= Len(plan.steps)
  /\ \/ Observe("failed", {})
     \/ Observe("succeeded", {})
     \/ Observe("succeeded", RowsOf(plan.steps[NextStep], NextStep))
  /\ UNCHANGED <<turn, pc, question, context, intent, talk, plan, artifact, outcome>>

\* The gateway, or a refresh of the registry, raises: the run fails and stores no artifact.
StepRaises ==
  /\ pc = "executing" /\ plan.valid
  /\ NextStep <= Len(plan.steps)
  /\ pc' = "ready"
  /\ outcome' = "failed"
  /\ UNCHANGED <<turn, question, context, intent, talk, plan, obs, artifact>>

-----------------------------------------------------------------------------
(* evidence.py *)

Failed == {k \in DOMAIN obs : obs[k].status # "succeeded"}
IsMeta == talk.subject = "kali_capabilities"

\* The previous artifact taken for data although it has no row.
EmptyPreviousTable == talk.reuse \/ talk.policy = "merge"

\* The previous rows joined whatever the conversation plan says.
UnaskedPreviousTable == context.rows # {}

\* _table_from_previous_artifact: no table without rows.
PreviousTable == (talk.reuse \/ talk.policy = "merge") /\ context.rows # {}

AllRows ==
  (UNION {obs[k].rows : k \in DOMAIN obs}) \cup (IF PreviousTable THEN context.rows ELSE {})

\* The tables come in the order of their turns and steps.
Earlier(r, s) == r.turn < s.turn \/ (r.turn = s.turn /\ r.step < s.step)

\* _merge_product_rows: of the rows with one key, which is an id or else a name, the
\* first.  What one tool names by its id and another by its name stays apart.
MergedProducts(R) ==
  LET named == {r \in R : r.by # "none"}
  IN  {r \in named : \A s \in named : s.by = r.by /\ s.item = r.item => ~Earlier(s, r)}

\* The grains whose rows are a customer's although they are not of customers.
CohortGrains == {"cohort_period", "customer_period_segment", "customer_risk"}

\* Rows that have no place in a ranking of customers dropped whatever the grain.
RankedAlike(R) ==
  CASE intent.entity = "product" -> MergedProducts(R)
    [] intent.entity = "customer" -> {r \in R : r.kind = "customer"}
    [] OTHER -> R

\* _ranked_rows.
RankedRows(R) ==
  CASE intent.entity = "product" -> MergedProducts(R)
    [] intent.entity = "customer" /\ intent.grain \notin CohortGrains -> {r \in R : r.kind = "customer"}
    [] OTHER -> R

\* _query_metadata_from_tables: a QuerySpec leaves its dataset whatever became of it.
Metadata ==
  (IF PreviousTable THEN Prefix(context.datasets, 1) ELSE <<>>)
    \o [k \in 1..Cardinality({j \in DOMAIN obs : IsQuery(plan.steps[j])}) |-> DatasetFor(intent)]

Answerability ==
  IF ~plan.valid THEN "blocked"
  ELSE IF IsMeta THEN "answerable"
  ELSE IF obs = <<>> /\ ~PreviousTable THEN "blocked"
  ELSE IF obs # <<>> /\ Failed = DOMAIN obs THEN "blocked"
  ELSE IF Failed # {} THEN "partial"
  ELSE "answerable"

\* build_evidence_artifact; the workflow then stores the artifact.
Answer ==
  /\ pc = "executing"
  /\ plan.valid => NextStep > Len(plan.steps)
  /\ artifact' = [stored |-> TRUE, meta |-> IsMeta, intent |-> intent, rows |-> RankedRows(AllRows),
                  datasets |-> Metadata, answerability |-> Answerability]
  /\ pc' = "ready"
  /\ outcome' = "answered"
  /\ UNCHANGED <<turn, question, context, intent, talk, plan, obs>>

Done == pc = "ready" /\ turn = Turns /\ UNCHANGED vars

Next ==
  \/ \E q \in AskedNext : Ask(q)
  \/ ExecuteStep
  \/ StepRaises
  \/ Answer
  \/ Done

Spec == Init /\ [][Next]_vars

-----------------------------------------------------------------------------
(* Properties *)

Planned  == pc = "executing"
Answered == outcome = "answered"
Safe     == artifact.answerability \in {"answerable", "partial"}

\* A plan is blocked for missing coverage only when no choice of as many tools
\* would have covered the question: the greedy pass over the ranking, with its
\* early exits and its cut at three, loses no answerable question
\* (plan.py _select_matches).
GreedyIsEnough ==
  Planned /\ plan.reason = "missing_coverage" =>
    ~ \E tools \in SUBSET ToSet(Matches(intent)) :
        Cardinality(tools) <= MaxSteps /\ Required(intent) \subseteq CoverageOf(intent, tools)

\* A question that needs two tools is planned over two domains whenever two
\* domains have a matching tool, unless one QuerySpec answers it all: the cut at
\* three never takes the second domain away again (plan.py _select_matches).
TwoDomainsWhenNeeded ==
  Planned /\ plan.steps # <<>> /\ intent.crossTool =>
    \/ QueryAnswersAll(intent, Matches(intent))
    \/ Cardinality(DomainsOf(ToSet(Matches(intent)))) = 1
    \/ Cardinality(DomainsOf(ToSet(plan.steps))) >= 2

\* What can be answered is planned so that it is: neither the greedy pass nor the cut at
\* three loses a measure or a domain that a question needs (plan.py).
SelectionLosesNothing == GreedyIsEnough /\ TwoDomainsWhenNeeded

SelfContained(q) ==
  ~ (Contextual(q) \/ AsksCapability(q) \/ AsksGenericCustomers(q) \/ AsksCause(q) \/ AsksWhy(q))

\* A question that refers to nothing is planned as in a fresh conversation,
\* whatever was asked, answered or lost before it.  Questions planned as a
\* diagnosis are the exception: see CohortQuestionsAnswered.
StandaloneQuestionsPlanAlike ==
  Planned /\ SelfContained(question) /\ talk.type # "diagnosis" =>
    plan = BuildToolPlan(HeuristicIntent(question))

\* No answer is declared safe without data behind it: a call of its own that
\* succeeded, or rows that the artifact it explains still had.  A failed query,
\* which leaves its metadata in the context, is not data (evidence.py).
SafeMeansData ==
  Answered /\ Safe /\ ~artifact.meta =>
    \/ \E k \in DOMAIN obs : obs[k].status = "succeeded"
    \/ talk.reuse /\ context.rows # {}

\* The rows of an answer are of its own turn, but for those of the last
\* artifact when the conversation plan reuses it; an explanation adds none.
\* Rows that one answer left out never come back in a later one.
RowsHaveTheirTurn ==
  [][outcome = "none" /\ outcome' = "answered" =>
       /\ \A r \in artifact'.rows \ artifact.rows : r.turn = turn /\ talk.policy # "reuse_only"
       /\ talk.policy \in {"auto", "run_tools"} => artifact'.rows \cap artifact.rows = {}]_vars

\* What a planned tool brings, the answer shows: planning (plan.py, capabilities.py)
\* and ranking (evidence.py), which know nothing of each other, agree on what a
\* question is about.  The exception are cohorts of a question whose grain is not
\* that of its words: see CohortQuestionsAnswered.
PlansBringWhatIsShown ==
  Planned /\ plan.valid =>
    \A k \in DOMAIN plan.steps :
      \/ RankedRows(RowsOf(plan.steps[k], k)) # {}
      \/ plan.steps[k] = "waro.analytics.cohort" /\ intent.grain \notin CohortGrains

\* What intent.py:121 says of the heuristic intent: "The heuristic intent is the
\* safety net: it lets the agent work even if the LLM is disabled or fails."  A
\* run that fails has at least a plan: understanding and planning do not raise.
SafetyNetHolds == outcome = "failed" => plan.valid

\* What test_capability_matcher_routes_cohort_question_to_cohort_tool asserts of
\* the cohort question: its plan is valid, with the cohort tool as its step.
CohortQuestionsAnswered ==
  Planned /\ question = {"clientes", "cohortes", "hoy"} =>
    plan.valid /\ plan.steps = <<"waro.analytics.cohort">>
=============================================================================
