---------------------------- MODULE ToolPlanning ----------------------------
(***************************************************************************)
(* From an intent to the tools that can answer it: capability matching,    *)
(* ranking, greedy selection and QuerySpec construction                    *)
(* (services/agent-api/app/agent/capabilities.py, plan.py, queryspec.py).  *)
(*                                                                         *)
(* Arguments are left out but for the QuerySpec, whose construction can    *)
(* fail.  Fields and measures bear the names normalize_measure gives them. *)
(***************************************************************************)
EXTENDS Questions, Sequences, SequencesExt, FiniteSetsExt

CONSTANTS
  ExtraTools,    \* tools the CLI offers beyond the static list
  ProfileSteps   \* max_steps of the business profile (analysis_profiles.json: 7)

ASSUME PlanningAssumption ==
  /\ ExtraTools \subseteq {"waro.analytics.cohort", "waro.analytics.waros", "waro.queries.run"}
  /\ ProfileSteps \in Nat \ {0}

Tool(domain, entity, grain, measures, dimensions, operations) ==
  [domain |-> domain, entity |-> entity, grain |-> grain, measures |-> measures,
   dimensions |-> dimensions, operations |-> operations]

Listing == {"filter", "rank", "sort", "limit"}

\* TOOL_SPECS.  Tools without capabilities declare no measure and match nothing.
StaticNames ==
  {"waro.analytics.food_cost", "waro.menu.products", "waro.menu.recipes", "waro.analytics.menu",
   "waro.customers.list", "waro.customers.metrics", "waro.sales.list", "waro.sales.metrics",
   "waro.financial.products"}

StaticTools ==
  [n \in StaticNames |->
   CASE n = "waro.analytics.food_cost" ->
          Tool("food_cost", "product", "product_period",
               {"margin", "profit_margin_real_pct", "revenue", "cost"}, {"id", "name", "category"}, Listing)
     [] n = "waro.menu.products" ->
          Tool("menu", "product", "product", {"price"}, {"id", "name", "category"}, Listing)
     [] n = "waro.menu.recipes" ->
          Tool("menu", "recipe", "recipe", {}, {"id", "name"}, {"filter", "limit"})
     [] n = "waro.analytics.menu" ->
          Tool("analytics", "product", "product_period", {"total_sales", "revenue", "margin", "performance"},
               {"product", "category", "classification"}, Listing \cup {"group"})
     [] n = "waro.customers.list" ->
          Tool("customers", "customer", "customer_period", CustomerMeasures \cup {"waros_balance"},
               {"customer_id", "name"}, Listing)
     [] n = "waro.customers.metrics" ->
          Tool("customers", "customer", "customer_period_summary",
               {"activity", "retention_pct", "frequency", "top_customers"},
               {"date", "weekday", "month"}, {"aggregate", "group", "rank", "limit"})
     [] n = "waro.sales.list" ->
          Tool("sales", "order", "order", {"total_sales", "itemscount"}, {"id", "status", "customer"}, Listing)
     [] n = "waro.sales.metrics" ->
          Tool("sales", "sale", "period_or_group", {"total_sales", "order_count", "avg_ticket"},
               {"date", "weekday", "hour", "product", "payment", "ticket"},
               {"aggregate", "group", "rank", "sort", "limit", "compare"})
     [] n = "waro.financial.products" ->
          Tool("financial", "product", "product_period", {"margin", "revenue", "cost", "quantity_sold"},
               {"id", "name", "category", "classification"}, Listing)]

\* Tools that only the CLI's catalogue has, as the tests describe them.
CliTools ==
  [n \in ExtraTools |->
   CASE n = "waro.analytics.cohort" ->
          Tool("analytics", "customer", "cohort_period", {"cohort_size", "retention_pct"},
               {"cohort", "cohort_date"}, {"aggregate", "summarize", "compare"})
     [] n = "waro.analytics.waros" ->
          Tool("analytics", "loyalty_transaction", "period_or_customer",
               {"total_issued", "total_redeemed", "redemption_rate_pct"},
               {"customer", "period"}, {"aggregate", "group", "rank", "summarize"})
     [] n = "waro.queries.run" ->
          Tool("queries", "query_row", "dynamic_dataset_row",
               {"quantity_sold", "revenue", "margin"} \cup CustomerMeasures,
               {"product", "customer", "category", "day"},
               {"filter", "aggregate", "group", "rank", "sort", "limit", "compare"})]

ToolNames == StaticNames \cup ExtraTools
Catalog   == [n \in ToolNames |-> IF n \in ExtraTools THEN CliTools[n] ELSE StaticTools[n]]

IsQuery(n)        == n = "waro.queries.run"
SupportsPeriod(n) == n \notin {"waro.menu.products", "waro.menu.recipes"}

-----------------------------------------------------------------------------
(* capabilities.py *)

EntityCompatible(i, n) ==
  LET e == Catalog[n].entity
  IN  \/ IsQuery(n) /\ i.entity # "loyalty_transaction"
      \/ i.entity = "business" /\ e \in {"sale", "order", "product", "customer", "loyalty_transaction"}
      \/ i.entity = e
      \/ i.entity = "sale" /\ e = "order"

GrainCompatible(i, n) ==
  LET g == Catalog[n].grain
  IN  IF IsQuery(n)
      THEN i.grain \in {"period", "product_period", "customer_period", "business_period",
                        "inventory_snapshot", "inventory_movement", "purchase_period", "supplier_period"}
      ELSE \/ i.grain = "business_period" /\ SupportsPeriod(n)
           \/ i.grain = g
           \/ /\ g = "period_or_group"
              /\ i.grain \in {"period", "product_period", "inventory_snapshot", "inventory_movement",
                              "purchase_period", "supplier_period"}
           \/ i.grain = "customer_period" /\ g = "customer_period_summary"

\* Of the aliases, those of measures that a query tool declares.
QueryAliases(m) == IF m = "total_sales" THEN {"total_sales", "revenue"} ELSE {m}

MeasureHits(i, n) ==
  {m \in i.measures : (IF IsQuery(n) THEN QueryAliases(m) ELSE {m}) \cap Catalog[n].measures # {}}

\* _query_tool_has_analytical_fit.
QueryFits(i, n) ==
  LET hits     == Cardinality(MeasureHits(i, n))
      analytic == i.operations \cap {"compare", "diagnose"} # {}
  IN  /\ hits > 0
      /\ IF i.entity = "business" THEN hits >= 2 \/ analytic
         ELSE IF i.crossTool THEN hits >= 2
         ELSE IF analytic THEN i.dimensions \cap Catalog[n].dimensions # {} \/ hits >= 2
         ELSE \/ i.entity \in {"product", "customer"} /\ i.grain \in {"product_period", "customer_period"}
              \/ i.operations \cap {"rank", "group", "sort", "filter"} # {}

Points(condition, n) == IF condition THEN n ELSE 0

Score(i, n) ==
  8 + Points(GrainCompatible(i, n), 5)
    + 4 * Cardinality(MeasureHits(i, n))
    + 2 * Cardinality(i.dimensions \cap Catalog[n].dimensions)
    + Cardinality(i.operations \cap Catalog[n].operations)
    + Points(i.entity = "product" /\ "margin" \in i.measures /\ "cost" \in Catalog[n].measures, 2)
    + Points(i.dated /\ SupportsPeriod(n), 2)

Accepted(i, n) ==
  /\ EntityCompatible(i, n)
  /\ \/ GrainCompatible(i, n)
     \/ ~(i.grain \in {"product_period", "customer_period"} /\ Catalog[n].grain = "order")
  /\ \/ MeasureHits(i, n) # {}
     \/ i.entity = Catalog[n].entity /\ Catalog[n].grain = "customer_period_summary"
     \/ i.entity = "business" /\ i.operations \cap Catalog[n].operations # {}
  /\ IsQuery(n) => QueryFits(i, n)

\* The order in which equal scores come: by tool name.
NameOrder ==
  <<"waro.analytics.cohort", "waro.analytics.food_cost", "waro.analytics.menu", "waro.analytics.waros",
    "waro.customers.list", "waro.customers.metrics", "waro.financial.products", "waro.menu.products",
    "waro.menu.recipes", "waro.queries.run", "waro.sales.list", "waro.sales.metrics">>

Rank(n) == CHOOSE k \in DOMAIN NameOrder : NameOrder[k] = n

MaxMatches == 8  \* limit of search_capabilities

\* match_tools and search_capabilities, accepted matches only.
Matches(i) ==
  LET accepted  == {n \in ToolNames : Accepted(i, n)}
      ahead(n)  == {m \in accepted : \/ Score(i, m) > Score(i, n)
                                     \/ Score(i, m) = Score(i, n) /\ Rank(m) < Rank(n)}
  IN  [k \in 1..Min({MaxMatches, Cardinality(accepted)}) |->
         CHOOSE n \in accepted : Cardinality(ahead(n)) = k - 1]

Measured(S) == {<<"measure", m>> : m \in S}
Answers(i)  == {<<"entity", i.entity>>, <<"grain", i.grain>>}

\* coverage_for_match of a tool whose entity is compatible, as every accepted one's is.
Coverage(i, n) ==
  LET e == Catalog[n].entity
  IN  UNION { Measured(MeasureHits(i, n)),
              {<<"entity", i.entity>>},
              IF GrainCompatible(i, n) \/ IsQuery(n) THEN {<<"grain", i.grain>>} ELSE {},
              IF i.entity = e /\ e = "product" THEN {<<"grain", "product_period">>} ELSE {},
              IF i.entity = e /\ e = "customer" THEN {<<"grain", "customer_period">>} ELSE {} }

\* _effective_required_coverage.
Required(i) ==
  IF i.entity = "business" THEN {}
  ELSE (Measured(i.measures) \cup Answers(i))
         \ (CASE i.entity = "sale"     -> {<<"grain", "period">>}
              [] i.entity = "product"  -> {<<"grain", "product_period">>}
              [] i.entity = "customer" -> {<<"grain", "customer_period">>}
              [] OTHER                 -> {})

CoverageOf(i, tools) == UNION {Coverage(i, n) : n \in tools}

-----------------------------------------------------------------------------
(* plan.py *)

BusinessPriorities ==
  <<"waro.sales.metrics", "waro.financial.products", "waro.analytics.food_cost", "waro.analytics.menu",
    "waro.customers.list", "waro.customers.metrics", "waro.analytics.cohort", "waro.analytics.waros">>

\* profile_for_intent: business_analyst is the only profile.
HasProfile(i) == i.entity = "business" /\ i.operations \cap {"diagnose", "summarize", "compare"} # {}

Prefix(s, n) == SubSeq(s, 1, Min({n, Len(s)}))

\* _select_profile_matches: in the order of the priorities, as many as max_steps.
ProfileChoice(accepted) ==
  LET wanted == {k \in DOMAIN BusinessPriorities : BusinessPriorities[k] \in ToSet(accepted)}
      nth(j) == CHOOSE k \in wanted : Cardinality({l \in wanted : l < k}) = j - 1
  IN  IF wanted = {} THEN Prefix(accepted, ProfileSteps)
      ELSE [j \in 1..Min({ProfileSteps, Cardinality(wanted)}) |-> BusinessPriorities[nth(j)]]

\* _complete_query_match: the query tool alone answers the whole question.
QueryAnswersAll(i, accepted) ==
  \E n \in ToSet(accepted) :
    /\ IsQuery(n)
    /\ Required(i) \subseteq Coverage(i, n)
    /\ \/ i.crossTool
       \/ i.operations \cap {"compare", "diagnose"} # {}
       \/ Cardinality(MeasureHits(i, n)) >= 2

DomainsOf(tools) == {Catalog[n].domain : n \in tools}

\* The best-ranked tools, whatever they cover.
BestRanked(i, accepted) == Prefix(accepted, 2)

\* All is covered, from two domains if the question needs two tools.
Complete(i, chosen) ==
  /\ Required(i) \subseteq CoverageOf(i, ToSet(chosen))
  /\ i.crossTool => Cardinality(DomainsOf(ToSet(chosen))) >= 2

\* The greedy pass: a tool is taken when it adds coverage, until all is covered.
Take(i, chosen, n) ==
  IF (chosen # <<>> /\ Complete(i, chosen)) \/ Coverage(i, n) \subseteq CoverageOf(i, ToSet(chosen))
  THEN chosen ELSE Append(chosen, n)

Greedy(i, accepted) ==
  LET taken[k \in 0..Len(accepted)] ==
        IF k = 0 THEN <<>> ELSE Take(i, taken[k - 1], accepted[k])
  IN  taken[Len(accepted)]

\* The fallback to another domain forgotten.
NoSecondDomain(accepted, chosen) == <<>>

\* The best-ranked tool of another domain, whatever it adds.
SecondDomain(accepted, chosen) ==
  LET others == {k \in DOMAIN accepted : Catalog[accepted[k]].domain \notin DomainsOf(ToSet(chosen))}
  IN  IF others = {} THEN <<>> ELSE <<accepted[Min(others)]>>

MaxSteps == 3

\* _select_matches.
Select(i, accepted) ==
  LET greedy == Greedy(i, accepted)
  IN  IF HasProfile(i) THEN ProfileChoice(accepted)
      ELSE IF QueryAnswersAll(i, accepted) THEN <<"waro.queries.run">>
      ELSE Prefix(IF i.crossTool THEN greedy \o SecondDomain(accepted, greedy) ELSE greedy, MaxSteps)

-----------------------------------------------------------------------------
(* queryspec.py: the dataset and the dimensions of the QuerySpec *)

ProfitMeasures == {"margin", "cost"}

DatasetFor(i) ==
  IF i.entity = "customer" THEN "customers"
  ELSE IF i.entity = "product" /\ i.measures \cap ProfitMeasures # {} THEN "product_profitability"
  ELSE "sales_items"

DatasetDimensions ==
  [d \in {"sales_items", "customers", "product_profitability"} |->
   CASE d = "sales_items" -> {"product", "product_id", "category", "day"}
     [] d = "customers"   -> {"customer", "customer_id", "day"}
     [] d = "product_profitability" ->
          {"product", "product_id", "category", "classification", "cost_source", "day"}]

\* _query_dimensions.
SpecDimensions(i) ==
  LET asked  == {IF d = "date" THEN "day" ELSE d : d \in i.dimensions}
      always == CASE i.entity \in {"product", "customer"} -> {i.entity}
                  [] i.entity = "sale" -> {"day"}
                  [] OTHER -> {}
      costed == IF i.measures \cap ProfitMeasures # {} THEN {"cost_source"} ELSE {}
  IN  (asked \cup always \cup costed) \cap DatasetDimensions[DatasetFor(i)]

\* The validator of QuerySpec refuses an empty list; nobody between it and the
\* request catches the QuerySpecValidationError.
SpecRefused(i) == SpecDimensions(i) = {}

Plan(steps, valid, reason) == [steps |-> steps, valid |-> valid, reason |-> reason]

\* build_tool_plan, for an intent whose QuerySpec, if any, can be built.
BuildToolPlan(i) ==
  LET accepted == Matches(i)
      chosen   == Select(i, accepted)
      covered  == Required(i) \subseteq CoverageOf(i, ToSet(chosen))
  IN  IF accepted = <<>> THEN Plan(<<>>, FALSE, "no_compatible_tools")
      ELSE Plan(chosen, covered, IF covered THEN "none" ELSE "missing_coverage")

PlanningRaises(i) ==
  /\ SpecRefused(i)
  /\ \E n \in ToSet(Select(i, Matches(i))) : IsQuery(n)
=============================================================================
