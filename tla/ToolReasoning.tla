---------------------------- MODULE ToolReasoning ----------------------------
(***************************************************************************)
(* The tool-reasoning agent, which serves every question when an LLM is    *)
(* configured (services/agent-api/app/agent/tool_reasoning.py): a prompt   *)
(* of a few ranked tools, a bounded loop of LLM decisions and gateway      *)
(* calls, and an answer.  What the gateway refuses, and which fields it    *)
(* asks for, are here; how it calls and audits is module ToolGateway, how  *)
(* a catalogue is loaded is module ToolCatalog.                            *)
(*                                                                         *)
(* A question is the set of its telling terms and, for each tool, how many *)
(* of its words that tool's text has: any number, as texts and questions   *)
(* are free.  The catalogue stays the same during one run, and a CLI-only  *)
(* tool names its default fields.                                          *)
(***************************************************************************)
EXTENDS Naturals, Sequences, FiniteSets

CONSTANTS
  Questions,        \* questions a run may be asked
  Grants,           \* sets of scopes a request may hold
  Names,            \* tool names the LLM may give, some of no tool
  MAX_TOOL_CALLS,
  MAX_PROMPT_TOOLS

ASSUME ReasoningAssumption ==
  /\ MAX_TOOL_CALLS \in Nat \ {0}
  /\ MAX_PROMPT_TOOLS \in Nat
  /\ MAX_TOOL_CALLS <= MAX_PROMPT_TOOLS

VARIABLES
  question,   \* what is asked
  scopes,     \* context.scopes
  source,     \* the catalogue the planner's and the gateway's registry loaded
  schema,     \* argument schemas the CLI has for static tools, against args_model
  offered,    \* available_tools of the prompt the LLM sees
  obs,        \* observations
  contracts,  \* _contracts of the gateway: "unloaded", "cli", "none" (an empty dict)
  artifact    \* of the run: "none" yet, "safe", "unsafe", "blocked"

vars == <<question, scopes, source, schema, offered, obs, contracts, artifact>>
given == <<question, scopes, source, schema>>

-----------------------------------------------------------------------------
(* The catalogue, in the order of the names, as allowlist.py has the static *)
(* tools and tests/test_tool_registry.py and test_agent_loop.py those only  *)
(* the CLI has.                                                             *)

Row(name, domain, scope) == [name |-> name, domain |-> domain, scope |-> scope]

Catalog == <<
  Row("analytics.alerts",             "analytics",   "analytics:read"),
  Row("analytics.data_quality",       "analytics",   "analytics:read"),
  Row("analytics.food_cost",          "food_cost",   "analytics:read"),
  Row("analytics.menu",               "analytics",   "analytics:read"),
  Row("customers.list",               "customers",   "customers:read"),
  Row("customers.metrics",            "customers",   "customers:read"),
  Row("financial.products",           "financial",   "financial:read"),
  Row("inventory.stock",              "inventory",   "inventory:read"),
  Row("menu.modifiers",               "menu",        "menu:read"),
  Row("menu.products",                "menu",        "menu:read"),
  Row("menu.recipes",                 "menu",        "menu:read"),
  Row("procurement.recommendations",  "procurement", "procurement:read"),
  Row("purchases.items",              "purchases",   "purchases:read"),
  Row("queries.run",                  "queries",     "dataset_scope"),
  Row("queries.schema",               "analytics",   "read"),
  Row("sales.detail",                 "sales",       "orders:read"),
  Row("sales.list",                   "sales",       "orders:read"),
  Row("sales.metrics",                "sales",       "orders:read"),
  Row("suppliers.list",               "suppliers",   "suppliers:read") >>

Places == DOMAIN Catalog
CliOnly == {"inventory.stock", "procurement.recommendations", "purchases.items",
            "queries.run", "queries.schema", "suppliers.list"}

\* snapshot.tools, by the place of the tool in the catalogue.
Snapshot(src) == {p \in Places : src = "cli" \/ Catalog[p].name \notin CliOnly}

PlaceOf(name) == {p \in Places : Catalog[p].name = name}
IsStatic(p)   == Catalog[p].name \notin CliOnly

\* AnalyticsDataQualityArgs alone has no fields.
TakesArguments(p) == Catalog[p].name # "analytics.data_quality"

\* The agent's rule of scopes and the gateway's, with one exception to it.
ToolScopeAllowed(p, held) ==
  \/ Catalog[p].scope \in held
  \/ Catalog[p].name = "queries.schema" /\ "dataset_scope" \in held

ScopeHeld(p, held) == Catalog[p].scope \in held

ScopeAllowed(p, held) ==
  \/ Catalog[p].scope \in held
  \/ Catalog[p].name = "queries.schema" /\ "dataset_scope" \in held

\* _available_tools.
Available == {p \in Snapshot(source.planner) : ToolScopeAllowed(p, scopes)}

-----------------------------------------------------------------------------
(* The prompt.  Terms are matched as substrings: "inventario" has "venta",  *)
(* "recompra" has "compra".                                                 *)

Terms == {"margen", "clientes", "recompra", "inventario", "stock", "compras",
          "ventas", "ticket", "food", "costo", "churn"}

ASSUME QuestionsAssumption ==
  Questions \subseteq [terms : SUBSET Terms, tokens : [Places -> Nat]]

Says(q, terms) == q.terms \cap terms # {}

ProductQuestion(q)     == Says(q, {"margen"})
CustomerQuestion(q)    == Says(q, {"clientes", "recompra"})
ProcurementQuestion(q) == Says(q, {"inventario", "stock", "compras", "recompra"})

SupplyDomains == {"inventory", "purchases", "suppliers", "procurement"}

\* _tool_prompt_score: a point for each word found, and points for topics.
ToolPromptScore(q, p) ==
  LET t == Catalog[p]
      bonus(applies, points) == IF applies THEN points ELSE 0
  IN  q.tokens[p]
      + bonus(t.name = "queries.run" /\ (ProductQuestion(q) \/ CustomerQuestion(q)), 8)
      + bonus(t.name = "queries.run" /\ ProcurementQuestion(q), 8)
      + bonus(t.name = "queries.schema" /\ CustomerQuestion(q), 5)
      + bonus(t.name = "queries.schema" /\ ProcurementQuestion(q), 5)
      + bonus(t.name = "financial.products" /\ ProductQuestion(q), 7)
      + bonus(t.domain = "customers" /\ CustomerQuestion(q), 7)
      + bonus(t.domain = "sales" /\ Says(q, {"ventas", "ticket", "inventario"}), 4)
      + bonus(t.domain = "analytics" /\ Says(q, {"food", "costo", "churn"}), 4)
      + bonus(t.domain \in SupplyDomains /\ ProcurementQuestion(q), 7)

Score == [q \in Questions |-> [p \in Places |-> ToolPromptScore(q, p)]]

\* Had the score not been negated in the key of the sort.
RanksBelow(q, p, r) ==
  \/ Score[q][p] < Score[q][r]
  \/ Score[q][p] = Score[q][r] /\ p < r

\* The order of `scored`: by score, then by name.
Outranks(q, p, r) ==
  \/ Score[q][p] > Score[q][r]
  \/ Score[q][p] = Score[q][r] /\ p < r

\* Observed tools that enter the prompt before p does.
SeenAt(o, k) == UNION {PlaceOf(o[j].tool) : j \in 1..(k - 1)}

\* The first tool enters whatever its score, another only if it has one.
Ranked(q, S, p) ==
  \/ Score[q][p] > 0
  \/ \A r \in S \ {p} : Outranks(q, p, r)

\* One tool more than the prompt has places.
TakesOneMore(n)  == n <= MAX_PROMPT_TOOLS

\* Whether a tool enters after n others.
Fits(n) == n < MAX_PROMPT_TOOLS

\* Ranked alone, as if nothing had been observed.
SelectIgnoringObservations(q, S, o) ==
  {p \in S : Ranked(q, S, p) /\ Fits(Cardinality({r \in S : Outranks(q, r, p)}))}

\* _select_prompt_tool_names: the observed tools, then the best of the others.
SelectPromptTools(q, S, o) ==
  LET observed == S \cap SeenAt(o, Len(o) + 1)
      others   == S \ observed
      kept     == {p \in observed :
                     \E k \in 1..Len(o) :
                       p \in PlaceOf(o[k].tool) /\ Fits(Cardinality(S \cap SeenAt(o, k)))}
      added    == {p \in others :
                     /\ IF observed = {} THEN Ranked(q, S, p) ELSE Score[q][p] > 0
                     /\ Fits(Cardinality({r \in others : Outranks(q, r, p)}) + Cardinality(observed))}
  IN  kept \cup added

-----------------------------------------------------------------------------
(* The run.                                                                 *)

Causes == {"none", "unknown", "missing", "scope", "wrong", "extra", "listed", "tool", "raised"}

Observation ==
  [tool : Names, status : {"succeeded", "failed"}, cause : Causes,
   fields : {"none", "contract", "spec"}, result : {"none", "shown", "dropped"}]

TypeOK ==
  /\ question \in Questions /\ scopes \in Grants
  /\ source \in [planner : {"cli", "static"}, gateway : {"cli", "static"}]
  /\ schema \in {"same", "ahead", "bare"}
  /\ offered \in SUBSET Available /\ Cardinality(offered) <= MAX_PROMPT_TOOLS
  /\ obs \in Seq(Observation) /\ Len(obs) <= MAX_TOOL_CALLS
  /\ contracts \in {"unloaded", "cli", "none"}
  /\ artifact \in {"none", "safe", "unsafe", "blocked"}

Init ==
  /\ question \in Questions
  /\ scopes \in Grants
  /\ source \in [planner : {"cli", "static"}, gateway : {"cli", "static"}]
  /\ schema \in {"same", "ahead", "bare"}
  /\ source.planner = "static" => schema = "same"
  /\ offered = SelectPromptTools(question, Available, <<>>)
  /\ obs = <<>>
  /\ contracts = "unloaded"
  /\ artifact = "none"

MoreSteps == Len(obs) < MAX_TOOL_CALLS

Failed(name, cause) ==
  [tool |-> name, status |-> "failed", cause |-> cause, fields |-> "none", result |-> "none"]

\* The observation and the prompt rebuilt with it.
Observe(o) ==
  /\ obs' = Append(obs, o)
  /\ offered' = SelectPromptTools(question, Available, Append(obs, o))
  /\ UNCHANGED <<given, artifact>>

\* The LLM names no tool it may use: nothing is called.
NameUnknown(name) ==
  /\ PlaceOf(name) \cap Available = {}
  /\ Observe(Failed(name, "unknown"))
  /\ UNCHANGED contracts

\* Arguments the LLM gives: as the tool has them, with a bad value or one
\* lacking, with one nobody asked for, with one only the CLI's schema lists.
Arguments == {"fit", "wrong", "extra", "listed"}

ArgumentsFor(p) == IF TakesArguments(p) THEN Arguments ELSE Arguments \ {"wrong"}

\* Whether the schema the LLM is shown has properties: the CLI's when it has one.
ListsProperties(p) == IF schema = "same" THEN TakesArguments(p) ELSE schema = "ahead"

\* _clean_arguments: what the schema does not list is dropped, unless it lists
\* nothing; queries.run gets everything as one spec.
CleanArguments(p, a) ==
  IF Catalog[p].name = "queries.run" THEN "fit"
  ELSE IF a = "extra" /\ ListsProperties(p) THEN "fit"
  ELSE IF a = "listed" /\ schema # "ahead" THEN "fit"
  ELSE a

\* What a static model refuses; that of a CLI-only tool takes anything.
Refuses(p, a) == IsStatic(p) /\ a # "fit"

\* The registry's spec, then the scopes, then the arguments, in this order.
GatewayRefusal(p, a) ==
  IF p \notin Snapshot(source.gateway) THEN "missing"
  ELSE IF ~ScopeAllowed(p, scopes) THEN "scope"
  ELSE IF Refuses(p, a) THEN a
  ELSE "none"

\* A failed load tried again at the next call.
LoadRetried == IF contracts = "cli" THEN {"cli"} ELSE {"cli", "none"}

\* WaroContractRegistry.all: a load that fails leaves the empty dict for good.
LoadContracts == IF contracts = "unloaded" THEN {"cli", "none"} ELSE {contracts}

\* _parse_stdout makes a list of lines; the agent keeps a dict only.
Outcomes(name, loaded) ==
  LET fields == IF loaded = "cli" THEN "contract" ELSE "spec"
      succeeded(result) == [tool |-> name, status |-> "succeeded", cause |-> "none",
                            fields |-> fields, result |-> result]
  IN  {succeeded("shown"), succeeded("dropped"), Failed(name, "tool"), Failed(name, "raised")}

CallTool(name) ==
  \E p \in PlaceOf(name) \cap Available : \E a \in ArgumentsFor(p) :
    LET refusal == GatewayRefusal(p, CleanArguments(p, a))
    IN  \/ /\ refusal # "none"
           /\ Observe(Failed(name, refusal))
           /\ UNCHANGED contracts
        \/ /\ refusal = "none"
           /\ contracts' \in LoadContracts
           /\ \E o \in Outcomes(name, contracts') : Observe(o)

\* The registry or the load of the contracts raises: a failed observation.
CallRaises(name) ==
  /\ PlaceOf(name) \cap Available # {}
  /\ Observe(Failed(name, "raised"))
  /\ UNCHANGED contracts

Decide(name) ==
  /\ artifact = "none" /\ MoreSteps
  /\ NameUnknown(name) \/ CallTool(name) \/ CallRaises(name)

\* The LLM answers, or says what is not a decision; the final answer may be blank.
Answer ==
  /\ artifact = "none"
  /\ artifact' \in {"safe", "unsafe"}
  /\ UNCHANGED <<given, offered, obs, contracts>>

\* A provider error, in a plan or in the answer: the runner's blocked artifact
\* has no observations.
Break ==
  /\ artifact = "none"
  /\ artifact' = "blocked"
  /\ obs' = <<>>
  /\ UNCHANGED <<given, offered, contracts>>

Done == artifact # "none" /\ UNCHANGED vars

Next ==
  \/ \E name \in Names : Decide(name)
  \/ Answer
  \/ Break
  \/ Done

Spec == Init /\ [][Next]_vars

-----------------------------------------------------------------------------
(* Properties *)

\* A tool whose result the LLM has is still in the prompt of its next decision,
\* so that it can be called again: the observed tools always fit, which takes the
\* bounds of two constants set apart (_select_prompt_tool_names).
ObservedStayOffered ==
  artifact = "none" =>
    \A k \in DOMAIN obs : PlaceOf(obs[k].tool) \cap Available \subseteq offered

\* The system prompt prefers waro.queries.run for margins, customers and supply: the
\* first prompt of a question about them has it when the request may call it, unless each
\* tool that has a place (queries.schema aside, which shares its topics) has more words of
\* the question in its text.  No topic, and no sum of topics, weighs more than that.
PreferredToolYieldsToWords ==
  /\ obs = <<>> /\ artifact = "none"
  /\ ProductQuestion(question) \/ CustomerQuestion(question) \/ ProcurementQuestion(question)
  => \A r \in PlaceOf("queries.run") \cap Available :
       \/ r \in offered
       \/ \A p \in offered \ PlaceOf("queries.schema") : question.tokens[p] > question.tokens[r]

\* What the prompt offers, the gateway admits.  It refuses a tool of the agent's list
\* only when its own registry loaded another catalogue, never for a scope.  Arguments
\* are refused as unknown only when the CLI's schema is not that of the static model the
\* gateway checks, or when the tool takes none: nothing is dropped then (_clean_arguments),
\* and the model forbids what it does not know.
OfferedIsAdmitted ==
  \A k \in DOMAIN obs :
    /\ obs[k].cause # "scope"
    /\ obs[k].cause = "missing" => source.planner # source.gateway
    /\ obs[k].cause \in {"extra", "listed"} =>
         schema # "same" \/ \E p \in PlaceOf(obs[k].tool) : ~TakesArguments(p)

\* One run reads the same tool with the same fields each time, whatever becomes of
\* the load of the contracts: its results can be compared (contracts.py).
SameToolSameFields ==
  \A j, k \in DOMAIN obs :
    obs[j].tool = obs[k].tool /\ obs[j].status = "succeeded" /\ obs[k].status = "succeeded" =>
      obs[j].fields = obs[k].fields

\* What tool_reasoning.py:197 says: "Rebuild the prompt after every observation so
\* the next LLM step can use the actual tool result."
ResultReachesPlan ==
  \A k \in DOMAIN obs : obs[k].status = "succeeded" => obs[k].result = "shown"
=============================================================================
