--------------------------- MODULE AgentLoopProofs ---------------------------
(***************************************************************************)
(* Theorems about AgentLoop, for every conversation, any of the CLI's own  *)
(* tools and every number of items and of rows kept: which tools a         *)
(* question is planned over, which rows an answer may hold, when it may be *)
(* called safe, and which questions the context has no say in.             *)
(*                                                                         *)
(* The first part is about ToolPlanning: the ranking of the catalogue and  *)
(* the selection from it, for every intent that a question and a context   *)
(* can lead to.  The second part is about the loop.                        *)
(***************************************************************************)
EXTENDS AgentLoop, FiniteSetTheorems, WellFoundedInduction, SequenceTheorems, TLAPS

-----------------------------------------------------------------------------
(* The greedy pass as a sequence of steps. A sequence of steps is followed *)
(* by least counterexample.                                                *)

\* A set of numbers that is not empty has a least one.
LEMMA LeastNumber ==
  ASSUME NEW S \in SUBSET Nat, S # {}
  PROVE  \E l \in S : \A n \in S : l <= n
<1>1. PICK l \in S : \A n \in S : ~ (<<n, l>> \in OpToRel(<, Nat))
  BY WFMin, NatLessThanWellFounded
<1>2. ASSUME NEW n \in S PROVE l <= n
  <2>1. ~ (n < l) /\ n \in Nat /\ l \in Nat
    BY <1>1 DEF OpToRel
  <2> QED
    BY <2>1
<1> QED
  BY <1>2

\* Min of a set of numbers is its least.
LEMMA MinOfNumbers ==
  ASSUME NEW S \in SUBSET Nat, S # {}
  PROVE  Min(S) \in S /\ \A n \in S : Min(S) <= n
  BY LeastNumber DEF Min

\* Each step of the greedy pass keeps a sequence of tools.
LEMMA TakeType ==
  ASSUME NEW i, NEW chosen \in Seq(ToolNames), NEW n \in ToolNames
  PROVE  Take(i, chosen, n) \in Seq(ToolNames)
  BY DEF Take

\* What the greedy pass has taken after each tool of the ranking.
Takes(i, s, T) ==
  /\ T \in [0..Len(s) -> Seq(ToolNames)]
  /\ T[0] = <<>>
  /\ \A k \in 1..Len(s) : T[k] = Take(i, T[k - 1], s[k])

\* The greedy pass has an outcome after each tool of the ranking: the shortest
\* prefix of the ranking without one would have a shorter one.
LEMMA TakesExist ==
  ASSUME NEW i, NEW s \in Seq(ToolNames)
  PROVE  \E T : Takes(i, s, T)
<1> DEFINE Upto(n, T) == /\ T \in [0..n -> Seq(ToolNames)]
                         /\ T[0] = <<>>
                         /\ \A k \in 1..n : T[k] = Take(i, T[k - 1], s[k])
           bad == {n \in 0..Len(s) : ~ \E T : Upto(n, T)}
<1>0. SUFFICES ASSUME bad # {} PROVE FALSE
  <2>1. Len(s) \in 0..Len(s)
    OBVIOUS
  <2>2. (\E T : Upto(Len(s), T)) => \E T : Takes(i, s, T)
    BY DEF Takes
  <2> HIDE DEF Upto
  <2> QED
    BY <2>1, <2>2
<1> HIDE DEF Upto
<1>6. bad \in SUBSET Nat /\ \A n \in bad : n <= Len(s)
  OBVIOUS
<1>2. PICK least \in bad : least \in Nat /\ least <= Len(s) /\ \A n \in bad : ~ (n < least)
  <2> HIDE DEF bad
  <2>1. PICK least \in bad : \A n \in bad : least <= n
    BY <1>0, <1>6, LeastNumber
  <2> QED
    BY <1>6, <2>1
<1>1. Len(s) \in Nat /\ ~ \E T : Upto(least, T)
  BY <1>2
<1>3. \A n \in 0..Len(s) : n < least => \E T : Upto(n, T)
  BY <1>2
<1>4. CASE least = 0
  <2>1. Upto(0, [k \in 0..0 |-> <<>>])
    BY DEF Upto
  <2> QED
    BY <2>1, <1>1, <1>4
<1>5. CASE least > 0
  <2>1. least - 1 \in 0..Len(s) /\ least - 1 < least
    BY <1>2, <1>1, <1>5
  <2>2. PICK T : Upto(least - 1, T)
    BY <2>1, <1>3
  <2> DEFINE U == [k \in 0..least |-> IF k = least THEN Take(i, T[least - 1], s[least]) ELSE T[k]]
  <2>3. least \in 1..Len(s) /\ s[least] \in ToolNames /\ T[least - 1] \in Seq(ToolNames)
    BY <1>1, <1>2, <1>5, <2>2 DEF Upto
  <2>4. Take(i, T[least - 1], s[least]) \in Seq(ToolNames)
    BY <2>3, TakeType
  <2>5. U \in [0..least -> Seq(ToolNames)]
    BY <1>2, <1>5, <2>2, <2>4 DEF Upto
  <2>6. U[0] = <<>>
    BY <1>2, <1>5, <2>2 DEF Upto
  <2>7. ASSUME NEW k \in 1..least PROVE U[k] = Take(i, U[k - 1], s[k])
    <3>1. k - 1 \in 0..least /\ k - 1 # least /\ U[k - 1] = T[k - 1]
      BY <1>2, <2>7
    <3>2. CASE k = least
      BY <3>1, <3>2
    <3>3. CASE k # least
      <4>1. k \in 1..(least - 1) /\ U[k] = T[k]
        BY <1>2, <2>7, <3>3
      <4>2. T[k] = Take(i, T[k - 1], s[k])
        BY <2>2, <4>1 DEF Upto
      <4> QED
        BY <3>1, <4>1, <4>2
    <3> QED
      BY <3>2, <3>3
  <2>8. Upto(least, U)
    BY <2>5, <2>6, <2>7 DEF Upto
  <2> QED
    BY <2>8, <1>1
<1> QED
  BY <1>2, <1>4, <1>5

\* What the greedy pass returns is what it has taken after the last tool.
LEMMA GreedyTakes ==
  ASSUME NEW i, NEW s \in Seq(ToolNames)
  PROVE  \E T : Takes(i, s, T) /\ Greedy(i, s) = T[Len(s)]
<1> DEFINE F(f) == [k \in 0..Len(s) |-> IF k = 0 THEN <<>> ELSE Take(i, f[k - 1], s[k])]
           taken == CHOOSE f : f = F(f)
<1>1. PICK T : Takes(i, s, T)
  BY TakesExist
<1>2. T = F(T)
  BY <1>1 DEF Takes
<1>3. taken = F(taken)
  BY <1>2
<1>4. Greedy(i, s) = taken[Len(s)]
  BY DEF Greedy
<1>5. taken = T
  OBVIOUS
<1> QED
  BY <1>1, <1>4, <1>5

-----------------------------------------------------------------------------
(* The catalogue.                                                          *)

\* The CLI's own tools are none of the static list, so that its entries never hide others.
LEMMA NamesOfTools ==
  /\ ToolNames = StaticNames \cup ExtraTools
  /\ \A n \in StaticNames : Catalog[n] = StaticTools[n] /\ n \in ToolNames
  /\ \A n \in ExtraTools : Catalog[n] = CliTools[n] /\ n \in ToolNames
<1>1. \A n \in ExtraTools : n \notin StaticNames
  BY PlanningAssumption DEF StaticNames
<1> QED
  BY <1>1 DEF ToolNames, Catalog

\* The catalogue, tool by tool.
LEMMA CatalogEntries ==
  /\ Catalog["waro.analytics.food_cost"] =
       Tool("food_cost", "product", "product_period",
            {"margin", "profit_margin_real_pct", "revenue", "cost"}, {"id", "name", "category"}, Listing)
  /\ Catalog["waro.menu.products"] =
       Tool("menu", "product", "product", {"price"}, {"id", "name", "category"}, Listing)
  /\ Catalog["waro.menu.recipes"] =
       Tool("menu", "recipe", "recipe", {}, {"id", "name"}, {"filter", "limit"})
  /\ Catalog["waro.analytics.menu"] =
       Tool("analytics", "product", "product_period", {"total_sales", "revenue", "margin", "performance"},
            {"product", "category", "classification"}, Listing \cup {"group"})
  /\ Catalog["waro.customers.list"] =
       Tool("customers", "customer", "customer_period", CustomerMeasures \cup {"waros_balance"},
            {"customer_id", "name"}, Listing)
  /\ Catalog["waro.customers.metrics"] =
       Tool("customers", "customer", "customer_period_summary",
            {"activity", "retention_pct", "frequency", "top_customers"},
            {"date", "weekday", "month"}, {"aggregate", "group", "rank", "limit"})
  /\ Catalog["waro.sales.list"] =
       Tool("sales", "order", "order", {"total_sales", "itemscount"}, {"id", "status", "customer"}, Listing)
  /\ Catalog["waro.sales.metrics"] =
       Tool("sales", "sale", "period_or_group", {"total_sales", "order_count", "avg_ticket"},
            {"date", "weekday", "hour", "product", "payment", "ticket"},
            {"aggregate", "group", "rank", "sort", "limit", "compare"})
  /\ Catalog["waro.financial.products"] =
       Tool("financial", "product", "product_period", {"margin", "revenue", "cost", "quantity_sold"},
            {"id", "name", "category", "classification"}, Listing)
  BY NamesOfTools DEF StaticTools, StaticNames

\* The tools that only the CLI's catalogue has, when it has them.
LEMMA CliEntries ==
  /\ "waro.analytics.cohort" \in ExtraTools => Catalog["waro.analytics.cohort"] =
       Tool("analytics", "customer", "cohort_period", {"cohort_size", "retention_pct"},
            {"cohort", "cohort_date"}, {"aggregate", "summarize", "compare"})
  /\ "waro.analytics.waros" \in ExtraTools => Catalog["waro.analytics.waros"] =
       Tool("analytics", "loyalty_transaction", "period_or_customer",
            {"total_issued", "total_redeemed", "redemption_rate_pct"},
            {"customer", "period"}, {"aggregate", "group", "rank", "summarize"})
  /\ "waro.queries.run" \in ExtraTools => Catalog["waro.queries.run"] =
       Tool("queries", "query_row", "dynamic_dataset_row",
            {"quantity_sold", "revenue", "margin"} \cup CustomerMeasures,
            {"product", "customer", "category", "day"},
            {"filter", "aggregate", "group", "rank", "sort", "limit", "compare"})
  BY NamesOfTools DEF CliTools

\* A tool of the CLI's own is in the catalogue only when it is offered.
LEMMA CliNames ==
  ASSUME NEW n \in ToolNames
  PROVE  /\ \/ n \in StaticNames
            \/ n \in ExtraTools /\ n \in {"waro.analytics.cohort", "waro.analytics.waros", "waro.queries.run"}
         /\ n \in {"waro.analytics.cohort", "waro.analytics.waros", "waro.queries.run"} => n \in ExtraTools
  BY NamesOfTools, PlanningAssumption DEF StaticNames

-----------------------------------------------------------------------------
(* What intents are made of, whatever was asked and whatever the context.  *)

\* The entities, grains, measures, dimensions and operations of intents.
Entities ==
  {"business", "ingredient", "supplier", "purchase", "loyalty_transaction", "customer", "product", "sale", "order"}

Grains ==
  {"business_period", "inventory_snapshot", "inventory_movement", "supplier_period", "purchase_period",
   "period_or_customer", "cohort_period", "customer_period_segment", "customer_risk", "customer_period",
   "product_period", "order", "period"}

\* What the words of a question about sales can name.
SalesMeasures == {"total_sales", "avg_ticket", "order_count", "quantity_sold", "revenue", "margin", "cost"}

MeasureNames ==
  SalesMeasures \cup Purchased \cup
  {"total_spent", "retention_pct", "cohort_size", "current_stock", "minimum_stock", "total_issued",
   "total_redeemed", "redemption_rate_pct", "r_score", "f_score", "m_score", "risk_score",
   "days_since_last_order", "lifetime_value", "net_quantity", "movement_count"}

DimensionNames == {"date", "product", "customer", "cohort", "ingredient", "supplier", "segment", "hour"}

\* The operations that a question's words name; a topic adds the others.
SalesOperations == {"group", "rank", "filter", "compare", "aggregate"}
OperationNames  == SalesOperations \cup {"summarize", "diagnose", "segment"}

\* An intent made of these, as every understood one is.
WellFormed(i) ==
  /\ i.entity \in Entities
  /\ i.grain \in Grains
  /\ i.measures \subseteq MeasureNames
  /\ i.dimensions \subseteq DimensionNames
  /\ i.operations \subseteq OperationNames

\* A context that hands on nothing else.
WellFormedContext(ctx) ==
  /\ ctx.active => ctx.entity \in Entities /\ ctx.grain \in Grains
  /\ ctx.measures \subseteq MeasureNames
  /\ ctx.dimensions \subseteq DimensionNames

\* A question about the business is one of its topic, whose operations make it a profile, or one
\* about sales that the context turned into one about the business.
OfBusiness(i) ==
  \/ {"rank", "diagnose"} \subseteq i.operations
  \/ i.measures # {} /\ i.measures \subseteq SalesMeasures /\ i.operations \subseteq SalesOperations

\* The topics are well formed; only the first is about the business, none about sales.
LEMMA TopicRows ==
  ASSUME NEW k \in DOMAIN Topics
  PROVE  /\ WellFormed(Topics[k])
         /\ Topics[k].entity # "sale"
         /\ Topics[k].entity = "business" => k = 1
<1> USE DEF WellFormed, Topics, TopicRow, Entities, Grains, MeasureNames, SalesMeasures, Purchased, DimensionNames,
            SalesOperations, OperationNames
<1>1. k \in 1..9
  OBVIOUS
<1>2. CASE k = 1 BY <1>2
<1>3. CASE k = 2 BY <1>3
<1>4. CASE k = 3 BY <1>4
<1>5. CASE k = 4 BY <1>5
<1>6. CASE k = 5 BY <1>6
<1>7. CASE k = 6 BY <1>7
<1>8. CASE k = 7 BY <1>8
<1>9. CASE k = 8 BY <1>9
<1>10. CASE k = 9 BY <1>10
<1> HIDE DEF WellFormed, Topics, TopicRow
<1> QED
  BY <1>1, <1>2, <1>3, <1>4, <1>5, <1>6, <1>7, <1>8, <1>9, <1>10

\* So is the topic of every question.
LEMMA TopicOfQuestion ==
  ASSUME NEW q
  PROVE  /\ WellFormed(TopicOf(q))
         /\ TopicOf(q).entity = "sale" => TopicOf(q) = NoTopic
         /\ TopicOf(q).entity = "business" => TopicOf(q) = Topics[1]
<1> DEFINE hits == {i \in DOMAIN Topics : Says(q, Topics[i].cues)}
           first == CHOOSE i \in hits : \A j \in hits : i <= j
<1>1. TopicOf(q) = IF hits = {} THEN NoTopic ELSE Topics[first]
  BY DEF TopicOf
<1>2. hits \in SUBSET Nat /\ hits \subseteq DOMAIN Topics
  BY DEF Topics
<1> HIDE DEF hits
<1>3. hits # {} => first \in DOMAIN Topics
  BY <1>2, LeastNumber
<1>4. WellFormed(NoTopic) /\ NoTopic.entity = "sale"
  BY DEF WellFormed, NoTopic, TopicRow, Entities, Grains
<1> HIDE DEF first
<1> QED
  BY <1>1, <1>3, <1>4, TopicRows

\* The measures that a question's words name; those of a question about sales.
LEMMA NamedMeasures ==
  ASSUME NEW q, NEW e
  PROVE  /\ Named(q, e) \subseteq MeasureNames
         /\ e = "sale" => Named(q, e) \subseteq SalesMeasures
<1> DEFINE when(cues, S) == IF Says(q, cues) THEN S ELSE {}
           N1 == when({"ventas", "compraron"},
                   IF e = "customer" THEN {"total_spent"}
                   ELSE IF e \in {"sale", "order"} THEN {"total_sales"} ELSE {"revenue"})
           N2 == UNION {when({"promedio"}, {"avg_ticket"}), when({"frecuentes", "pedidos"}, {"order_count"}),
                   when({"mas vendidos"}, {"quantity_sold"}), when({"margen"}, {"margin"}),
                   when({"costo"}, {"cost"})}
           N3 == IF e = "ingredient" THEN when({"stock", "bajo"}, {"current_stock", "minimum_stock"}) ELSE {}
           N4 == IF e \in Supply THEN when({"costo", "costos", "compras"}, {"avg_unit_cost", "total_cost"}) ELSE {}
           N5 == when({"compraron", "gasto"}, IF e = "customer" THEN {"total_spent"} ELSE {"revenue"})
<1>1. Named(q, e) = UNION {N1, N2, N3, N4, N5}
  BY DEF Named
<1>2. N1 \subseteq MeasureNames /\ (e = "sale" => N1 \subseteq SalesMeasures)
  BY DEF MeasureNames, SalesMeasures
<1>3. N2 \subseteq MeasureNames /\ (e = "sale" => N2 \subseteq SalesMeasures)
  <2>1. N2 \subseteq {"avg_ticket", "order_count", "quantity_sold", "margin", "cost"}
    OBVIOUS
  <2> QED
    BY <2>1 DEF MeasureNames, SalesMeasures
<1>4. N3 \subseteq MeasureNames /\ (e = "sale" => N3 = {})
  BY DEF MeasureNames, SalesMeasures
<1>5. N4 \subseteq MeasureNames /\ (e = "sale" => N4 = {})
  BY DEF MeasureNames, SalesMeasures, Purchased, Supply
<1>6. N5 \subseteq MeasureNames /\ (e = "sale" => N5 \subseteq SalesMeasures)
  BY DEF MeasureNames, SalesMeasures
<1> HIDE DEF N1, N2, N3, N4, N5
<1> QED
  BY <1>1, <1>2, <1>3, <1>4, <1>5, <1>6

\* The intent that a question's own words give: about sales, it has a measure and none of
\* the operations of a profile; about the business, it ranks and diagnoses.
LEMMA HeuristicIntents ==
  ASSUME NEW q
  PROVE  LET i == HeuristicIntent(q)
         IN  /\ WellFormed(i)
             /\ i.entity = "sale" => /\ i.measures # {} /\ i.measures \subseteq SalesMeasures
                                     /\ i.operations \subseteq SalesOperations
             /\ i.entity = "business" => {"rank", "diagnose"} \subseteq i.operations /\ i.crossTool
<1> DEFINE t == TopicOf(q)
           product  == t.entity \notin Fixed /\ Says(q, {"productos"})
           order    == ~product /\ t.entity = "sale" /\ Says(q, {"pedidos"})
           buyers   == t.entity = "loyalty_transaction" /\ Says(q, {"clientes"})
           entity   == IF product THEN "product" ELSE IF order THEN "order" ELSE t.entity
           measures == t.measures \cup Refined(q, t.entity) \cup Named(q, entity)
           filled   == IF measures = {} THEN DefaultMeasures(entity) ELSE measures
           ops      == t.operations \cup NamedOperations(q) \cup (IF buyers THEN {"rank"} ELSE {})
           i        == HeuristicIntent(q)
<1>1. /\ WellFormed(t)
      /\ t.entity = "sale" => t = NoTopic
      /\ t.entity = "business" => t = Topics[1]
  BY TopicOfQuestion
<1>2. /\ i.entity = entity
      /\ i.grain \in {"product_period", "order", "inventory_movement", t.grain}
      /\ i.measures = ForEntity(entity, filled)
      /\ i.dimensions \subseteq t.dimensions \cup NamedDimensions(q) \cup {"product", "customer"}
      /\ i.operations = IF ops = {} THEN {"aggregate"} ELSE ops
      /\ entity = "business" => i.crossTool
  BY DEF HeuristicIntent, NeedsTwoTools
<1>14. t.entity = "sale" => ~ buyers
  OBVIOUS
<1>3. /\ entity \in Entities
      /\ entity = "sale" => t = NoTopic
      /\ entity = "business" => t = Topics[1]
  BY <1>1 DEF Entities, WellFormed
<1>4. NamedDimensions(q) \subseteq DimensionNames /\ NamedOperations(q) \subseteq SalesOperations
  BY DEF NamedDimensions, NamedOperations, DimensionNames, SalesOperations
<1> HIDE DEF t, product, order, buyers, entity, measures, filled, ops, i
<1>5. Named(q, entity) \subseteq MeasureNames /\ (entity = "sale" => Named(q, entity) \subseteq SalesMeasures)
  BY NamedMeasures
<1> USE DEF measures, filled, ops
<1>6. Refined(q, t.entity) \subseteq MeasureNames /\ (t.entity = "sale" => Refined(q, t.entity) = {})
  BY DEF Refined, MeasureNames, SalesMeasures
<1>7. DefaultMeasures(entity) \subseteq MeasureNames /\ (entity = "sale" => DefaultMeasures(entity) = {"total_sales"})
  BY DEF DefaultMeasures, MeasureNames, SalesMeasures, Supply, Purchased
<1>8. \A S : S \subseteq MeasureNames => ForEntity(entity, S) \subseteq MeasureNames
  BY DEF ForEntity, MeasureNames, SalesMeasures
<1>9. entity = "sale" => \A S : ForEntity(entity, S) = S
  BY DEF ForEntity
<1>10. t.measures \subseteq MeasureNames /\ t.operations \subseteq OperationNames /\ t.dimensions \subseteq DimensionNames
       /\ t.grain \in Grains /\ t.entity \in Entities
  BY <1>1 DEF WellFormed
<1>11. WellFormed(i)
  <2>1. filled \subseteq MeasureNames
    BY <1>5, <1>6, <1>7, <1>10
  <2>2. i.measures \subseteq MeasureNames
    BY <2>1, <1>2, <1>8
  <2>3. i.dimensions \subseteq DimensionNames
    BY <1>2, <1>4, <1>10 DEF DimensionNames
  <2>4. i.operations \subseteq OperationNames
    BY <1>2, <1>4, <1>10 DEF OperationNames, SalesOperations
  <2>5. i.grain \in Grains
    BY <1>2, <1>10 DEF Grains
  <2> QED
    <3> HIDE DEF measures, filled, ops
    <3> QED
      BY <1>2, <1>3, <2>2, <2>3, <2>4, <2>5 DEF WellFormed
<1>12. ASSUME entity = "sale"
       PROVE  i.measures # {} /\ i.measures \subseteq SalesMeasures /\ i.operations \subseteq SalesOperations
  <2>1. t.measures = {} /\ t.operations = {} /\ t.entity = "sale" /\ ~ buyers
    BY <1>14, <1>3, <1>12 DEF NoTopic, TopicRow
  <2>2. filled # {} /\ filled \subseteq SalesMeasures
    BY <2>1, <1>5, <1>6, <1>7, <1>12 DEF SalesMeasures
  <2>3. ops \subseteq SalesOperations
    BY <2>1, <1>4
  <2> QED
    BY <2>2, <2>3, <1>2, <1>9, <1>12 DEF SalesOperations
<1>13. ASSUME entity = "business" PROVE {"rank", "diagnose"} \subseteq i.operations
  <2>1. t = Topics[1]
    BY <1>3, <1>13
  <2>2. {"rank", "diagnose"} \subseteq t.operations
    BY <2>1 DEF Topics, TopicRow
  <2> QED
    BY <2>2, <1>2
<1> HIDE DEF measures, filled, ops
<1> QED
  BY <1>2, <1>11, <1>12, <1>13 DEF i

\* What is understood of a question in its context: one about the business is of a kind that
\* has tools of two domains.
LEMMA UnderstoodIntents ==
  ASSUME NEW q, NEW ctx, WellFormedContext(ctx)
  PROVE  LET i == Understand(q, ctx)
         IN  /\ WellFormed(i)
             /\ i.entity = "sale" => i.operations \subseteq SalesOperations
             /\ i.entity = "business" => OfBusiness(i) /\ i.crossTool
<1> DEFINE h == HeuristicIntent(q)
           inherits == ctx.active /\ WeakEntity(q, h.entity)
           entity == IF inherits THEN ctx.entity ELSE h.entity
           asked == IF h.measures = {} THEN ctx.measures ELSE h.measures
           i == Understand(q, ctx)
<1>1. /\ WellFormed(h)
      /\ h.entity = "sale" => /\ h.measures # {} /\ h.measures \subseteq SalesMeasures
                              /\ h.operations \subseteq SalesOperations
      /\ h.entity = "business" => {"rank", "diagnose"} \subseteq h.operations /\ h.crossTool
  BY HeuristicIntents
<1>2. CASE ~ Contextual(q)
  BY <1>1, <1>2 DEF Understand, Contextualised, OfBusiness
<1>3. CASE Contextual(q)
  <2>1. /\ i.entity = entity
        /\ i.grain = IF inherits THEN ctx.grain ELSE h.grain
        /\ i.measures = ForEntity(entity, asked)
        /\ i.dimensions \subseteq h.dimensions \cup ctx.dimensions
        /\ i.operations = h.operations
        /\ i.crossTool = (h.crossTool \/ entity = "business")
    <3>1. DOMAIN h = {"entity", "grain", "measures", "dimensions", "operations", "dated", "crossTool"}
      BY DEF HeuristicIntent
    <3>2. i = [h EXCEPT !.entity     = entity,
                        !.grain      = IF inherits THEN ctx.grain ELSE @,
                        !.dated      = @ \/ ctx.dated,
                        !.measures   = ForEntity(entity, IF @ = {} THEN ctx.measures ELSE @),
                        !.dimensions = IF entity = ctx.entity THEN @ \cup ctx.dimensions ELSE @,
                        !.crossTool  = @ \/ entity = "business"]
      BY <1>3, Zenon DEF Understand, Contextualised
    <3> HIDE DEF h, i, entity, inherits
    <3>3. i.entity = entity /\ i.operations = h.operations
      BY <3>1, <3>2
    <3>4. i.grain = (IF inherits THEN ctx.grain ELSE h.grain) /\ i.measures = ForEntity(entity, asked)
      BY <3>1, <3>2
    <3>5. i.dimensions = IF entity = ctx.entity THEN h.dimensions \cup ctx.dimensions ELSE h.dimensions
      BY <3>1, <3>2
    <3>6. i.crossTool = (h.crossTool \/ entity = "business")
      BY <3>1, <3>2
    <3> QED
      BY <3>3, <3>4, <3>5, <3>6
  <2>2. inherits => ctx.active /\ h.entity = "sale"
    BY DEF WeakEntity
  <2>3. asked \subseteq MeasureNames
    BY <1>1 DEF WellFormed, WellFormedContext
  <2>4. \A S : S \subseteq MeasureNames => ForEntity(entity, S) \subseteq MeasureNames
    BY DEF ForEntity, MeasureNames, SalesMeasures
  <2>5. entity = "business" => ForEntity(entity, asked) = asked
    BY DEF ForEntity
  <2> HIDE DEF h, inherits, asked, i
  <2>6. WellFormed(i)
    BY <1>1, <2>1, <2>2, <2>3, <2>4 DEF WellFormed, WellFormedContext
  <2>7. ASSUME entity = "business" PROVE OfBusiness(i) /\ i.crossTool
    BY <1>1, <2>1, <2>2, <2>5, <2>7 DEF OfBusiness, asked
  <2>8. ASSUME entity = "sale" PROVE i.operations \subseteq SalesOperations
    BY <1>1, <2>1, <2>2, <2>8
  <2> QED
    BY <2>1, <2>6, <2>7, <2>8 DEF i
<1> QED
  BY <1>2, <1>3

\* Only a question about the last artifact is answered without a plan of its own, and only a
\* question that is planned on its own may be about the business.
LEMMA PlannedIntents ==
  ASSUME NEW q, NEW ctx, WellFormedContext(ctx)
  PROVE  LET heard == Understand(q, ctx)
             cp    == PlanConversation(q, heard, ctx)
             i     == Replanned(heard, cp, ctx)
         IN  /\ WellFormed(i)
             /\ cp.policy # "reuse_only" /\ i.entity = "business" => OfBusiness(i) /\ i.crossTool
<1> DEFINE heard == Understand(q, ctx)
           cp    == PlanConversation(q, heard, ctx)
           i     == Replanned(heard, cp, ctx)
<1>1. /\ WellFormed(heard)
      /\ heard.entity = "sale" => heard.operations \subseteq SalesOperations
      /\ heard.entity = "business" => OfBusiness(heard) /\ heard.crossTool
  BY UnderstoodIntents
<1> DEFINE profit == cp.preserve = "product_profitability"
           entity == IF profit THEN "product" ELSE heard.entity
           active == IF entity = "sale" /\ ctx.active THEN ctx.entity ELSE entity
           ForCustomers == cp.subject = "generic_customers" \/ cp.preserve = "customers"
           AsDiagnosis == cp.type \in {"diagnosis", "data_quality_check"}
<1>2. DOMAIN heard = {"entity", "grain", "measures", "dimensions", "operations", "dated", "crossTool"}
  BY DEF Understand, Contextualised, HeuristicIntent
<1>4. cp.policy = "reuse_only" \/ ForCustomers
        \/ (cp.type = PlainType(heard.operations) /\ cp.preserve = "none")
  BY DEF PlanConversation, ConversationPlan
<1>10. cp.subject = "generic_customers" => cp.preserve = "customers"
  BY DEF PlanConversation, ConversationPlan
<1>5. heard.operations \subseteq SalesOperations \/ {"rank", "diagnose"} \subseteq heard.operations
        => PlainType(heard.operations) \notin {"diagnosis", "data_quality_check"}
  BY DEF PlainType, SalesOperations
<1>6. CustomerMeasures \subseteq MeasureNames /\ {"margin", "cost", "quantity_sold", "revenue"} \subseteq MeasureNames
      /\ "customer" \in DimensionNames /\ {"rank", "diagnose"} \subseteq OperationNames
      /\ {"customer", "product"} \subseteq Entities /\ "customer_period" \in Grains
  BY DEF CustomerMeasures, MeasureNames, SalesMeasures, DimensionNames, OperationNames, SalesOperations, Entities, Grains
<1> HIDE DEF heard, cp
<1> DEFINE ofCustomers == [heard EXCEPT !.entity = "customer", !.grain = "customer_period",
                       !.measures = @ \cup CustomerMeasures, !.dimensions = @ \cup {"customer"},
                       !.operations = @ \cup {"rank", "diagnose"}, !.crossTool = TRUE]
           ofContext == [heard EXCEPT !.entity = active,
                       !.grain = IF ctx.active THEN ctx.grain ELSE @,
                       !.measures = (IF @ = {} THEN ctx.measures ELSE @)
                         \cup (IF profit THEN {"margin", "cost", "quantity_sold", "revenue"} ELSE {}),
                       !.dimensions = IF active = ctx.entity THEN @ \cup ctx.dimensions ELSE @,
                       !.operations = @ \cup {"diagnose"},
                       !.crossTool = @ \/ active = "business"]
<1>3. i = CASE ForCustomers -> ofCustomers
            [] cp.preserve # "customers" /\ AsDiagnosis -> ofContext
            [] OTHER -> heard
  BY Zenon DEF Replanned, i
<1>11. ForCustomers => i = ofCustomers
  BY <1>3, <1>10
<1>12. ~ ForCustomers /\ AsDiagnosis => i = ofContext
  BY <1>3
<1>13. ~ ForCustomers /\ ~ AsDiagnosis => i = heard
  BY <1>3
<1> HIDE DEF i
<1>7. CASE ForCustomers
  <2>1. /\ i.entity = "customer" /\ i.grain = "customer_period" /\ i.measures = heard.measures \cup CustomerMeasures
        /\ i.dimensions = heard.dimensions \cup {"customer"}
        /\ i.operations = heard.operations \cup {"rank", "diagnose"}
    BY <1>2, <1>11, <1>7
  <2>2. WellFormed(i)
    BY <1>1, <1>6, <2>1 DEF WellFormed
  <2> QED
    BY <2>1, <2>2 DEF i, heard, cp
<1>8. CASE ~ ForCustomers /\ AsDiagnosis
  <2>1. /\ i.entity = active
        /\ i.grain \in {heard.grain} \cup (IF ctx.active THEN {ctx.grain} ELSE {})
        /\ i.measures \subseteq heard.measures \cup ctx.measures \cup {"margin", "cost", "quantity_sold", "revenue"}
        /\ i.dimensions \subseteq heard.dimensions \cup ctx.dimensions
        /\ i.operations = heard.operations \cup {"diagnose"}
    <3>1. i = [heard EXCEPT !.entity = active,
                       !.grain = IF ctx.active THEN ctx.grain ELSE @,
                       !.measures = (IF @ = {} THEN ctx.measures ELSE @)
                         \cup (IF profit THEN {"margin", "cost", "quantity_sold", "revenue"} ELSE {}),
                       !.dimensions = IF active = ctx.entity THEN @ \cup ctx.dimensions ELSE @,
                       !.operations = @ \cup {"diagnose"},
                       !.crossTool = @ \/ active = "business"]
      BY <1>12, <1>8
    <3> HIDE DEF active, profit
    <3>2. i.entity = active /\ i.operations = heard.operations \cup {"diagnose"}
      BY <1>2, <3>1
    <3>3. i.grain = (IF ctx.active THEN ctx.grain ELSE heard.grain)
      BY <1>2, <3>1
    <3>4. i.measures = (IF heard.measures = {} THEN ctx.measures ELSE heard.measures)
                         \cup (IF profit THEN {"margin", "cost", "quantity_sold", "revenue"} ELSE {})
      BY <1>2, <3>1
    <3>5. i.dimensions = IF active = ctx.entity THEN heard.dimensions \cup ctx.dimensions ELSE heard.dimensions
      BY <1>2, <3>1
    <3> QED
      BY <3>2, <3>3, <3>4, <3>5
  <2>2. active \in Entities
    BY <1>1, <1>6 DEF WellFormed, WellFormedContext
  <2>3. WellFormed(i)
    BY <1>1, <1>6, <2>1, <2>2 DEF WellFormed, WellFormedContext
  <2>4. ASSUME cp.policy # "reuse_only" PROVE i.entity # "business"
    <3>1. heard.entity # "business" /\ heard.entity # "sale" /\ ~ profit
      BY <1>1, <1>4, <1>5, <1>8, <2>4 DEF OfBusiness
    <3> QED
      BY <3>1, <2>1
  <2> QED
    BY <2>3, <2>4 DEF i, heard, cp
<1>9. CASE ~ ForCustomers /\ ~ AsDiagnosis
  BY <1>1, <1>13, <1>9 DEF i, heard, cp
<1> QED
  BY <1>7, <1>8, <1>9

-----------------------------------------------------------------------------
(* Counting and ranking.                                                   *)

\* What numbers enumerate is finite.
LEMMA NumbersEnumerate ==
  ASSUME NEW n \in Nat, NEW f, DOMAIN f = 1..n
  PROVE  IsFiniteSet({f[k] : k \in 1..n})
<1> DEFINE S == {f[k] : k \in 1..n}
           g == [k \in 1..n |-> f[k]]
<1>1. g \in Surjection(1..n, S)
  BY DEF Surjection
<1>2. IsFiniteSet(1..n)
  BY FS_Interval
<1> HIDE DEF g, S
<1>3. IsFiniteSet(S)
  BY <1>1, <1>2, FS_Surjection
<1> QED
  BY <1>3 DEF S

\* There are finitely many measures, dimensions and operations.
LEMMA FiniteNames == IsFiniteSet(MeasureNames) /\ IsFiniteSet(DimensionNames) /\ IsFiniteSet(OperationNames)
<1>1. IsFiniteSet(DimensionNames)
  <2> DEFINE f == <<"date", "product", "customer", "cohort", "ingredient", "supplier", "segment", "hour">>
  <2>1. IsFiniteSet({f[k] : k \in 1..8})
    <3>1. DOMAIN f = 1..8
      OBVIOUS
    <3> HIDE DEF f
    <3> QED
      BY <3>1, NumbersEnumerate
  <2>2. DimensionNames = {f[k] : k \in 1..8}
    BY DEF DimensionNames
  <2> QED
    BY <2>1, <2>2
<1>2. IsFiniteSet(OperationNames)
  <2> DEFINE f == <<"group", "rank", "filter", "compare", "aggregate", "summarize", "diagnose", "segment">>
  <2>1. IsFiniteSet({f[k] : k \in 1..8})
    <3>1. DOMAIN f = 1..8
      OBVIOUS
    <3> HIDE DEF f
    <3> QED
      BY <3>1, NumbersEnumerate
  <2>2. OperationNames = {f[k] : k \in 1..8}
    BY DEF OperationNames, SalesOperations
  <2> QED
    BY <2>1, <2>2
<1>3. IsFiniteSet(MeasureNames)
  <2> DEFINE f == <<"total_sales", "avg_ticket", "order_count", "quantity_sold", "revenue", "margin", "cost",
     "quantity_purchased", "total_cost", "avg_unit_cost", "purchase_count",
   "total_spent", "retention_pct", "cohort_size", "current_stock", "minimum_stock", "total_issued",
   "total_redeemed", "redemption_rate_pct", "r_score", "f_score", "m_score", "risk_score",
   "days_since_last_order", "lifetime_value", "net_quantity", "movement_count">>
  <2>1. IsFiniteSet({f[k] : k \in 1..27})
    <3>1. DOMAIN f = 1..27
      OBVIOUS
    <3> HIDE DEF f
    <3> QED
      BY <3>1, NumbersEnumerate
  <2>2. MeasureNames = {f[k] : k \in 1..27}
    BY DEF MeasureNames, SalesMeasures, Purchased
  <2> QED
    BY <2>1, <2>2
<1> QED
  BY <1>1, <1>2, <1>3

\* How many of S stand before x in the order R.
RankIn(x, S, R) == Cardinality({y \in S : <<y, x>> \in R})

\* Irreflexive, transitive and total on S.
StrictOrder(S, R) ==
  /\ \A x \in S : <<x, x>> \notin R
  /\ \A x, y, z \in S : <<x, y>> \in R /\ <<y, z>> \in R => <<x, z>> \in R
  /\ \A x, y \in S : x = y \/ <<x, y>> \in R \/ <<y, x>> \in R

\* The ranks in a finite strict order are 0, 1, ... and follow the order.
LEMMA RanksFollowOrder ==
  ASSUME NEW S, IsFiniteSet(S), NEW R, StrictOrder(S, R)
  PROVE  /\ \A x \in S : RankIn(x, S, R) \in 0..(Cardinality(S) - 1)
         /\ \A x, y \in S : <<x, y>> \in R <=> RankIn(x, S, R) < RankIn(y, S, R)
         /\ \A k \in 0..(Cardinality(S) - 1) : \E x \in S : RankIn(x, S, R) = k
         /\ \A x, y \in S : RankIn(x, S, R) = RankIn(y, S, R) => x = y
<1> DEFINE below(x) == {y \in S : <<y, x>> \in R}
<1>1. Cardinality(S) \in Nat
  BY FS_CardinalityType
<1>2. ASSUME NEW x \in S
      PROVE  IsFiniteSet(below(x)) /\ RankIn(x, S, R) = Cardinality(below(x)) /\ RankIn(x, S, R) \in 0..(Cardinality(S) - 1)
  <2>1. below(x) \in SUBSET S /\ below(x) # S
    BY DEF StrictOrder
  <2> HIDE DEF below
  <2>2. IsFiniteSet(below(x)) /\ Cardinality(below(x)) <= Cardinality(S) /\ Cardinality(below(x)) # Cardinality(S)
    BY <2>1, FS_Subset
  <2>3. Cardinality(below(x)) \in Nat
    BY <2>2, FS_CardinalityType
  <2>4. RankIn(x, S, R) = Cardinality(below(x))
    BY DEF RankIn, below
  <2> QED
    BY <1>1, <2>2, <2>3, <2>4
<1>3. ASSUME NEW x \in S, NEW y \in S, <<x, y>> \in R PROVE RankIn(x, S, R) < RankIn(y, S, R)
  <2>1. below(x) \in SUBSET below(y) /\ x \in below(y) /\ x \notin below(x)
    BY <1>3 DEF StrictOrder
  <2>2. below(x) # below(y)
    BY <2>1
  <2> HIDE DEF below
  <2>3. Cardinality(below(x)) <= Cardinality(below(y)) /\ Cardinality(below(x)) # Cardinality(below(y))
    BY <2>1, <2>2, <1>2, FS_Subset
  <2>4. Cardinality(below(x)) \in Nat /\ Cardinality(below(y)) \in Nat
    BY <1>2, FS_CardinalityType
  <2> QED
    BY <1>2, <2>3, <2>4
<1> HIDE DEF below
<1>7. \A x \in S : RankIn(x, S, R) \in Nat
  BY <1>1, <1>2
<1>4. \A x, y \in S : RankIn(x, S, R) = RankIn(y, S, R) => x = y
  <2> SUFFICES ASSUME NEW x \in S, NEW y \in S, RankIn(x, S, R) = RankIn(y, S, R), x # y PROVE FALSE
    OBVIOUS
  <2>1. <<x, y>> \in R \/ <<y, x>> \in R
    BY DEF StrictOrder
  <2>2. RankIn(x, S, R) < RankIn(y, S, R) \/ RankIn(y, S, R) < RankIn(x, S, R)
    BY <1>3, <2>1
  <2> QED
    BY <1>7, <2>2
<1>5. \A x, y \in S : RankIn(x, S, R) < RankIn(y, S, R) => <<x, y>> \in R
  <2> SUFFICES ASSUME NEW x \in S, NEW y \in S, RankIn(x, S, R) < RankIn(y, S, R), <<x, y>> \notin R PROVE FALSE
    OBVIOUS
  <2>1. x = y \/ <<y, x>> \in R
    BY DEF StrictOrder
  <2> QED
    BY <1>3, <1>7, <2>1
<1>6. \A k \in 0..(Cardinality(S) - 1) : \E x \in S : RankIn(x, S, R) = k
  <2> DEFINE f == [x \in S |-> RankIn(x, S, R)]
             T == 0..(Cardinality(S) - 1)
  <2>1. f \in Injection(S, T)
    BY <1>2, <1>4 DEF Injection, IsInjective
  <2>2. IsFiniteSet(T) /\ Cardinality(T) = Cardinality(S)
    BY <1>1, FS_Interval
  <2> HIDE DEF f, T
  <2>3. f \in Surjection(S, T)
    BY <2>1, <2>2, FS_Injection
  <2>4. \A k \in T : \E x \in S : f[x] = k
    BY <2>3 DEF Surjection
  <2> QED
    BY <2>4 DEF f, T
<1> QED
  BY <1>2, <1>3, <1>4, <1>5, <1>6

\* The tools that match an intent.
AcceptedTools(i) == {n \in ToolNames : Accepted(i, n)}

\* m stands before n in the ranking.
Before(i, m, n) == Score(i, m) > Score(i, n) \/ (Score(i, m) = Score(i, n) /\ Rank(m) < Rank(n))

\* Every tool has a place in the order of names.
LEMMA NamesAreListed ==
  ASSUME NEW n \in ToolNames
  PROVE  \E k \in 1..12 : NameOrder[k] = n
<1>1. n \in {NameOrder[1], NameOrder[2], NameOrder[3], NameOrder[4], NameOrder[5], NameOrder[6], NameOrder[7],
              NameOrder[8], NameOrder[9], NameOrder[10], NameOrder[11], NameOrder[12]}
  BY NamesOfTools, PlanningAssumption DEF NameOrder, StaticNames
<1> QED
  BY <1>1

\* There are finitely many tools.
LEMMA FiniteTools == IsFiniteSet(ToolNames)
<1> DEFINE Listed == {NameOrder[k] : k \in 1..12}
<1>1. IsFiniteSet(Listed)
  <2>1. DOMAIN NameOrder = 1..12
    BY DEF NameOrder
  <2> QED
    BY <2>1, NumbersEnumerate
<1>2. ToolNames \in SUBSET Listed
  BY NamesAreListed
<1> QED
  BY <1>1, <1>2, FS_Subset

\* Its rank is that place.
LEMMA RankOfTool ==
  ASSUME NEW n \in ToolNames
  PROVE  Rank(n) \in Nat /\ NameOrder[Rank(n)] = n
<1>1. \E k \in 1..12 : NameOrder[k] = n
  BY NamesAreListed
<1>2. DOMAIN NameOrder = 1..12
  BY DEF NameOrder
<1> QED
  BY <1>1, <1>2 DEF Rank

\* What an intent and a tool have in common can be counted.
LEMMA Hits ==
  ASSUME NEW i, WellFormed(i), NEW n
  PROVE  /\ IsFiniteSet(MeasureHits(i, n)) /\ Cardinality(MeasureHits(i, n)) \in Nat
         /\ \A S : IsFiniteSet(i.dimensions \cap S) /\ Cardinality(i.dimensions \cap S) \in Nat
         /\ \A S : IsFiniteSet(i.operations \cap S) /\ Cardinality(i.operations \cap S) \in Nat
<1>1. MeasureHits(i, n) \in SUBSET MeasureNames
  BY DEF MeasureHits, WellFormed
<1>2. \A S : i.dimensions \cap S \in SUBSET DimensionNames /\ i.operations \cap S \in SUBSET OperationNames
  BY DEF WellFormed
<1> QED
  BY <1>1, <1>2, FiniteNames, FS_Subset, FS_CardinalityType

\* Scores are numbers.
LEMMA ScoreType ==
  ASSUME NEW i, WellFormed(i), NEW n
  PROVE  Score(i, n) \in Nat
<1>1. \A b, k : k \in Nat => Points(b, k) \in Nat
  BY DEF Points
<1> DEFINE a == Points(GrainCompatible(i, n), 5)
           b == Cardinality(MeasureHits(i, n))
           c == Cardinality(i.dimensions \cap Catalog[n].dimensions)
           d == Cardinality(i.operations \cap Catalog[n].operations)
           e == Points(i.entity = "product" /\ "margin" \in i.measures /\ "cost" \in Catalog[n].measures, 2)
           f == Points(i.dated /\ SupportsPeriod(n), 2)
<1>2. a \in Nat /\ e \in Nat /\ f \in Nat
  BY <1>1
<1>3. b \in Nat /\ c \in Nat /\ d \in Nat
  BY Hits
<1>4. Score(i, n) = 8 + a + 4 * b + 2 * c + d + e + f
  BY DEF Score
<1> HIDE DEF a, b, c, d, e, f
<1> QED
  BY <1>2, <1>3, <1>4

\* The order of the ranking is strict: by score, then by name.
LEMMA BeforeIsStrict ==
  ASSUME NEW i, WellFormed(i)
  PROVE  StrictOrder(AcceptedTools(i), {p \in ToolNames \X ToolNames : Before(i, p[1], p[2])})
<1> DEFINE A == AcceptedTools(i)
           R == {p \in ToolNames \X ToolNames : Before(i, p[1], p[2])}
<1>1. \A x \in A : x \in ToolNames /\ Score(i, x) \in Nat /\ Rank(x) \in Nat /\ NameOrder[Rank(x)] = x
  BY ScoreType, RankOfTool DEF AcceptedTools
<1>2. \A x, y \in A : <<x, y>> \in R <=> Before(i, x, y)
  BY <1>1
<1> HIDE DEF A, R
<1>3. \A x \in A : <<x, x>> \notin R
  BY <1>1, <1>2 DEF Before
<1>4. \A x, y, z \in A : <<x, y>> \in R /\ <<y, z>> \in R => <<x, z>> \in R
  <2> SUFFICES ASSUME NEW x \in A, NEW y \in A, NEW z \in A, Before(i, x, y), Before(i, y, z)
               PROVE  Before(i, x, z)
    BY <1>2
  <2> QED
    BY <1>1 DEF Before
<1>5. \A x, y \in A : x = y \/ <<x, y>> \in R \/ <<y, x>> \in R
  <2> SUFFICES ASSUME NEW x \in A, NEW y \in A, x # y
               PROVE  Before(i, x, y) \/ Before(i, y, x)
    BY <1>2
  <2>1. Rank(x) # Rank(y)
    BY <1>1
  <2> QED
    BY <1>1, <2>1 DEF Before
<1> QED
  BY <1>3, <1>4, <1>5 DEF StrictOrder, A, R

\* The matches are the best of the accepted tools, eight at most, each once and in their order.
LEMMA RankedMatches ==
  ASSUME NEW i, WellFormed(i), NEW M, M = Matches(i), NEW A, A = AcceptedTools(i)
  PROVE  /\ IsFiniteSet(A) /\ Cardinality(A) \in Nat
         /\ M \in Seq(ToolNames)
         /\ Len(M) = IF Cardinality(A) <= 8 THEN Cardinality(A) ELSE 8
         /\ \A k \in 1..Len(M) : M[k] \in A
         /\ \A k, l \in 1..Len(M) : k < l => Before(i, M[k], M[l])
         /\ \A k, l \in 1..Len(M) : M[k] = M[l] => k = l
         /\ \A l \in 1..Len(M), m \in A : Before(i, m, M[l]) => \E k \in 1..Len(M) : k < l /\ M[k] = m
         /\ Cardinality(A) <= 8 => \A n \in A : \E k \in 1..Len(M) : M[k] = n
<1> DEFINE R == {p \in ToolNames \X ToolNames : Before(i, p[1], p[2])}
           ahead(n) == {m \in A : \/ Score(i, m) > Score(i, n)
                                  \/ Score(i, m) = Score(i, n) /\ Rank(m) < Rank(n)}
           size == Min({MaxMatches, Cardinality(A)})
           nth(k) == CHOOSE n \in A : Cardinality(ahead(n)) = k - 1
<1>1. A \in SUBSET ToolNames /\ IsFiniteSet(A) /\ Cardinality(A) \in Nat
  BY FiniteTools, FS_Subset, FS_CardinalityType DEF AcceptedTools
<1>2. size = IF Cardinality(A) <= 8 THEN Cardinality(A) ELSE 8
  <2>1. size \in {MaxMatches, Cardinality(A)} /\ \A n \in {MaxMatches, Cardinality(A)} : size <= n
    <3> DEFINE S == {MaxMatches, Cardinality(A)}
    <3>1. S \in SUBSET Nat /\ S # {}
      BY <1>1 DEF MaxMatches
    <3> HIDE DEF S
    <3>2. Min(S) \in S /\ \A n \in S : Min(S) <= n
      BY <3>1, MinOfNumbers
    <3> QED
      BY <3>2 DEF S
  <2> QED
    BY <1>1, <2>1 DEF MaxMatches
<1>3. M = [k \in 1..size |-> nth(k)]
  BY DEF Matches, AcceptedTools
<1>4. \A x, y \in A : <<x, y>> \in R <=> Before(i, x, y)
  BY <1>1
<1>5. \A n \in A : Cardinality(ahead(n)) = RankIn(n, A, R)
  <2> TAKE n \in A
  <2>1. ahead(n) = {y \in A : <<y, n>> \in R}
    BY <1>4 DEF Before
  <2> QED
    BY <2>1 DEF RankIn
<1>6. StrictOrder(A, R)
  BY BeforeIsStrict
<1> HIDE DEF R, ahead, size
<1>7. /\ \A x \in A : RankIn(x, A, R) \in 0..(Cardinality(A) - 1)
      /\ \A x, y \in A : <<x, y>> \in R <=> RankIn(x, A, R) < RankIn(y, A, R)
      /\ \A k \in 0..(Cardinality(A) - 1) : \E x \in A : RankIn(x, A, R) = k
      /\ \A x, y \in A : RankIn(x, A, R) = RankIn(y, A, R) => x = y
  BY <1>1, <1>6, RanksFollowOrder
<1>8. ASSUME NEW k \in 1..size
      PROVE  M[k] \in A /\ RankIn(M[k], A, R) = k - 1
  <2>1. k - 1 \in 0..(Cardinality(A) - 1)
    BY <1>1, <1>2
  <2>2. \E n \in A : Cardinality(ahead(n)) = k - 1
    BY <1>5, <1>7, <2>1
  <2>3. nth(k) \in A /\ Cardinality(ahead(nth(k))) = k - 1
    BY <2>2
  <2> HIDE DEF nth
  <2>4. M[k] = nth(k)
    BY <1>3
  <2> QED
    BY <1>5, <2>3, <2>4
<1>9. M \in Seq(ToolNames) /\ Len(M) = size /\ size \in Nat
  <2>1. size \in Nat
    BY <1>1, <1>2
  <2>2. \A k \in 1..size : M[k] \in ToolNames
    BY <1>1, <1>8
  <2> HIDE DEF nth
  <2> QED
    BY <1>3, <2>1, <2>2
<1> HIDE DEF nth
<1>10. \A k, l \in 1..size : k < l => Before(i, M[k], M[l])
  <2> SUFFICES ASSUME NEW k \in 1..size, NEW l \in 1..size, k < l PROVE Before(i, M[k], M[l])
    OBVIOUS
  <2>1. k - 1 < l - 1
    BY <1>9
  <2>2. M[k] \in A /\ M[l] \in A /\ RankIn(M[k], A, R) = k - 1 /\ RankIn(M[l], A, R) = l - 1
    BY <1>8
  <2>3. <<M[k], M[l]>> \in R
    BY <1>7, <2>1, <2>2
  <2> QED
    BY <1>4, <2>2, <2>3
<1>11. \A k, l \in 1..size : M[k] = M[l] => k = l
  <2> SUFFICES ASSUME NEW k \in 1..size, NEW l \in 1..size, M[k] = M[l] PROVE k = l
    OBVIOUS
  <2>1. k - 1 = l - 1
    BY <1>8
  <2> QED
    BY <1>9, <2>1
<1>12. ASSUME NEW m \in A, RankIn(m, A, R) < size
       PROVE  RankIn(m, A, R) + 1 \in 1..size /\ M[RankIn(m, A, R) + 1] = m
  <2>1. RankIn(m, A, R) \in Nat
    BY <1>7, <1>1
  <2>2. RankIn(m, A, R) + 1 \in 1..size
    BY <1>9, <1>12, <2>1
  <2>3. RankIn(M[RankIn(m, A, R) + 1], A, R) = RankIn(m, A, R) /\ M[RankIn(m, A, R) + 1] \in A
    BY <1>8, <2>1, <2>2
  <2> QED
    BY <1>7, <2>2, <2>3
<1>13. ASSUME NEW l \in 1..size, NEW m \in A, Before(i, m, M[l])
       PROVE  \E k \in 1..size : k < l /\ M[k] = m
  <2>5. M[l] \in A /\ RankIn(M[l], A, R) = l - 1
    BY <1>8
  <2>6. <<m, M[l]>> \in R
    BY <1>4, <1>13, <2>5
  <2>1. RankIn(m, A, R) < l - 1 /\ RankIn(m, A, R) \in Nat
    BY <1>1, <1>7, <2>5, <2>6
  <2>2. RankIn(m, A, R) < size /\ RankIn(m, A, R) + 1 < l
    BY <1>9, <2>1
  <2> QED
    BY <1>12, <2>2
<1>14. ASSUME Cardinality(A) <= 8, NEW n \in A PROVE \E k \in 1..size : M[k] = n
  <2>1. RankIn(n, A, R) < size
    BY <1>1, <1>2, <1>7, <1>14
  <2> QED
    BY <1>12, <2>1
<1>15. \A l \in 1..size, m \in A : Before(i, m, M[l]) => \E k \in 1..size : k < l /\ M[k] = m
  BY <1>13
<1>16. Cardinality(A) <= 8 => \A n \in A : \E k \in 1..size : M[k] = n
  BY <1>14
<1>17. \A k \in 1..size : M[k] \in A
  BY <1>8
<1> QED
  <2>1. Len(M) = size /\ 1..Len(M) = 1..size
    BY <1>9
  <2>2. /\ \A k \in 1..Len(M) : M[k] \in A
        /\ \A k, l \in 1..Len(M) : k < l => Before(i, M[k], M[l])
        /\ \A k, l \in 1..Len(M) : M[k] = M[l] => k = l
    BY <1>10, <1>11, <1>17, <2>1
  <2>3. /\ \A l \in 1..Len(M), m \in A : Before(i, m, M[l]) => \E k \in 1..Len(M) : k < l /\ M[k] = m
        /\ Cardinality(A) <= 8 => \A n \in A : \E k \in 1..Len(M) : M[k] = n
    BY <1>15, <1>16, <2>1
  <2> QED
    BY <1>1, <1>2, <1>9, <2>1, <2>2, <2>3

-----------------------------------------------------------------------------
(* What the greedy pass takes.                                             *)

\* What holds of the tools c taken among the first k of the ranking s.
TakenSoFar(i, s, c, k) ==
  /\ c \in Seq(ToolNames)
  /\ \A a \in 1..Len(c) : \E p \in 1..k :
       s[p] = c[a] /\ ~ (Coverage(i, c[a]) \subseteq UNION {Coverage(i, s[j]) : j \in 1..(p - 1)})
  /\ \A a, b \in 1..Len(c) : c[a] = c[b] => a = b
  /\ \/ c # <<>> /\ Complete(i, c)
     \/ \A j \in 1..k : Coverage(i, s[j]) \subseteq CoverageOf(i, ToSet(c))
  /\ k > 0 => c # <<>>

\* A set of tools covers what each of them covers.
LEMMA CoverageOfMore ==
  ASSUME NEW i, NEW S, NEW n \in S
  PROVE  Coverage(i, n) \subseteq CoverageOf(i, S)
  BY DEF CoverageOf

\* More tools cover more.
LEMMA CoverageGrows ==
  ASSUME NEW i, NEW S, NEW T, S \subseteq T
  PROVE  CoverageOf(i, S) \subseteq CoverageOf(i, T)
  BY DEF CoverageOf

\* Every accepted tool covers the entity, so that the first one is always taken.
LEMMA CoverageType ==
  ASSUME NEW i, NEW n
  PROVE  <<"entity", i.entity>> \in Coverage(i, n)
  BY DEF Coverage

\* One step of the greedy pass keeps what is known of the tools taken.
LEMMA TakeStep ==
  ASSUME NEW i, NEW s \in Seq(ToolNames), NEW k \in 1..Len(s), NEW c, TakenSoFar(i, s, c, k - 1),
         \A a, b \in 1..Len(s) : s[a] = s[b] => a = b
  PROVE  TakenSoFar(i, s, Take(i, c, s[k]), k)
<1> DEFINE n == s[k]
           done == c # <<>> /\ Complete(i, c)
<1>1. k - 1 \in Nat /\ n \in ToolNames /\ c \in Seq(ToolNames) /\ Len(c) \in Nat
  BY DEF TakenSoFar
<1>2. \A a \in 1..Len(c) : \E p \in 1..(k - 1) :
        s[p] = c[a] /\ ~ (Coverage(i, c[a]) \subseteq UNION {Coverage(i, s[j]) : j \in 1..(p - 1)})
  BY DEF TakenSoFar
<1>3. \A a \in 1..Len(c) : \E p \in 1..k :
        s[p] = c[a] /\ ~ (Coverage(i, c[a]) \subseteq UNION {Coverage(i, s[j]) : j \in 1..(p - 1)})
  <2> TAKE a \in 1..Len(c)
  <2>1. PICK p \in 1..(k - 1) :
          s[p] = c[a] /\ ~ (Coverage(i, c[a]) \subseteq UNION {Coverage(i, s[j]) : j \in 1..(p - 1)})
    BY <1>2
  <2>2. p \in 1..k
    BY <1>1
  <2> QED
    BY <2>1, <2>2
<1>4. done \/ \A j \in 1..(k - 1) : Coverage(i, s[j]) \subseteq CoverageOf(i, ToSet(c))
  BY DEF TakenSoFar
<1>5. \A a, b \in 1..Len(c) : c[a] = c[b] => a = b
  BY DEF TakenSoFar
<1>6. CASE done \/ Coverage(i, n) \subseteq CoverageOf(i, ToSet(c))
  <2>1. Take(i, c, n) = c
    BY <1>6 DEF Take
  <2>2. done \/ \A j \in 1..k : Coverage(i, s[j]) \subseteq CoverageOf(i, ToSet(c))
    <3> SUFFICES ASSUME ~ done, NEW j \in 1..k PROVE Coverage(i, s[j]) \subseteq CoverageOf(i, ToSet(c))
      OBVIOUS
    <3>1. j = k \/ j \in 1..(k - 1)
      BY <1>1
    <3> QED
      BY <3>1, <1>4, <1>6
  <2>3. c # <<>>
    <3> SUFFICES ASSUME c = <<>> PROVE FALSE
      OBVIOUS
    <3>1. ToSet(c) = {}
      BY DEF ToSet
    <3>2. CoverageOf(i, ToSet(c)) = {}
      BY <3>1 DEF CoverageOf
    <3> QED
      BY <3>2, <1>6, CoverageType
  <2> QED
    BY <1>1, <1>3, <1>5, <2>1, <2>2, <2>3 DEF TakenSoFar
<1>7. CASE ~ done /\ ~ (Coverage(i, n) \subseteq CoverageOf(i, ToSet(c)))
  <2> DEFINE d == Append(c, n)
  <2>1. Take(i, c, n) = d
    BY <1>7 DEF Take
  <2>2. d \in Seq(ToolNames) /\ Len(d) = Len(c) + 1 /\ d[Len(c) + 1] = n /\ \A a \in 1..Len(c) : d[a] = c[a]
    BY <1>1
  <2> HIDE DEF d
  <2>3. ToSet(c) \subseteq ToSet(d) /\ n \in ToSet(d)
    <3>1. DOMAIN d = 1..(Len(c) + 1) /\ DOMAIN c = 1..Len(c)
      BY <1>1, <2>2
    <3>2. n \in ToSet(d)
      BY <3>1, <2>2, <1>1 DEF ToSet
    <3>3. ASSUME NEW a \in 1..Len(c) PROVE c[a] \in ToSet(d)
      BY <3>1, <2>2, <1>1 DEF ToSet
    <3> QED
      BY <3>1, <3>2, <3>3 DEF ToSet
  <2>4. ~ (Coverage(i, n) \subseteq UNION {Coverage(i, s[j]) : j \in 1..(k - 1)})
    <3>1. UNION {Coverage(i, s[j]) : j \in 1..(k - 1)} \subseteq CoverageOf(i, ToSet(c))
      <4> SUFFICES ASSUME NEW j \in 1..(k - 1), NEW x \in Coverage(i, s[j]) PROVE x \in CoverageOf(i, ToSet(c))
        OBVIOUS
      <4> QED
        BY <1>4, <1>7
    <3> QED
      BY <3>1, <1>7
  <2>5. \A a \in 1..Len(d) : \E p \in 1..k :
          s[p] = d[a] /\ ~ (Coverage(i, d[a]) \subseteq UNION {Coverage(i, s[j]) : j \in 1..(p - 1)})
    <3> TAKE a \in 1..Len(d)
    <3>1. CASE a \in 1..Len(c)
      <4>1. d[a] = c[a]
        BY <3>1, <2>2
      <4> QED
        BY <4>1, <3>1, <1>3
    <3>2. CASE a = Len(c) + 1
      <4>1. d[a] = n /\ k \in 1..k
        BY <3>2, <2>2
      <4> QED
        BY <4>1, <2>4
    <3> QED
      BY <3>1, <3>2, <2>2, <1>1
  <2>6. ASSUME NEW a \in 1..Len(c) PROVE c[a] # n
    <3>1. PICK p \in 1..(k - 1) : s[p] = c[a]
      BY <1>2
    <3> QED
      BY <3>1, <1>1
  <2>7. ASSUME NEW a \in 1..Len(d), NEW b \in 1..Len(d), d[a] = d[b] PROVE a = b
    <3>1. a \in 1..Len(c) \/ a = Len(c) + 1
      BY <2>2, <1>1
    <3>2. b \in 1..Len(c) \/ b = Len(c) + 1
      BY <2>2, <1>1
    <3> QED
      BY <3>1, <3>2, <2>2, <2>6, <2>7, <1>5
  <2>8. ASSUME NEW j \in 1..k PROVE Coverage(i, s[j]) \subseteq CoverageOf(i, ToSet(d))
    <3>1. CoverageOf(i, ToSet(c)) \subseteq CoverageOf(i, ToSet(d)) /\ Coverage(i, n) \subseteq CoverageOf(i, ToSet(d))
      BY <2>3, CoverageGrows, CoverageOfMore
    <3>2. j = k \/ j \in 1..(k - 1)
      BY <1>1
    <3> QED
      BY <3>1, <3>2, <1>4, <1>7
  <2>9. d # <<>>
    BY <2>2, <1>1
  <2> QED
    BY <2>1, <2>2, <2>5, <2>7, <2>8, <2>9 DEF TakenSoFar
<1> QED
  BY <1>6, <1>7

\* The greedy pass takes tools of the ranking, each once and each for something that no tool
\* before it covers; unless it stops, it covers what the whole ranking does.
LEMMA GreedyPass ==
  ASSUME NEW i, NEW s \in Seq(ToolNames), \A a, b \in 1..Len(s) : s[a] = s[b] => a = b
  PROVE  TakenSoFar(i, s, Greedy(i, s), Len(s))
<1>1. PICK T : Takes(i, s, T) /\ Greedy(i, s) = T[Len(s)]
  BY GreedyTakes
<1> DEFINE bad == {k \in 0..Len(s) : ~ TakenSoFar(i, s, T[k], k)}
<1>2. SUFFICES ASSUME bad # {} PROVE FALSE
  BY <1>1
<1>3. bad \in SUBSET Nat /\ bad \in SUBSET (0..Len(s)) /\ Len(s) \in Nat
  OBVIOUS
<1>4. PICK l \in bad : \A k \in bad : l <= k
  <2> HIDE DEF bad
  <2> QED
    BY <1>2, <1>3, LeastNumber
<1>5. CASE l = 0
  <2>1. TakenSoFar(i, s, <<>>, 0)
    BY DEF TakenSoFar
  <2> QED
    BY <2>1, <1>1, <1>4, <1>5 DEF Takes
<1>6. CASE l > 0
  <2>1. l \in 1..Len(s) /\ l - 1 \in 0..Len(s) /\ ~ (l <= l - 1)
    BY <1>3, <1>4, <1>6
  <2>2. TakenSoFar(i, s, T[l - 1], l - 1)
    BY <1>4, <2>1
  <2>3. T[l] = Take(i, T[l - 1], s[l])
    BY <1>1, <2>1 DEF Takes
  <2> QED
    BY <1>4, <2>1, <2>2, <2>3, TakeStep
<1> QED
  BY <1>3, <1>4, <1>5, <1>6

\* Of two accepted tools one is ahead; what the greedy pass takes adds to what is ahead of it.
LEMMA TakenTools ==
  ASSUME NEW i, WellFormed(i), NEW g, g = Greedy(i, Matches(i))
  PROVE  /\ g \in Seq(ToolNames)
         /\ \A a \in 1..Len(g) : g[a] \in AcceptedTools(i) /\ \E k \in 1..Len(Matches(i)) : Matches(i)[k] = g[a]
         /\ \A a, b \in 1..Len(g) : g[a] = g[b] => a = b
         /\ \A a \in 1..Len(g), m \in AcceptedTools(i) :
              Before(i, m, g[a]) => ~ (Coverage(i, g[a]) \subseteq Coverage(i, m))
         /\ Matches(i) # <<>> => g # <<>>
         /\ \/ g # <<>> /\ Complete(i, g)
            \/ \A k \in 1..Len(Matches(i)) : Coverage(i, Matches(i)[k]) \subseteq CoverageOf(i, ToSet(g))
<1> DEFINE M == Matches(i)
<1>1. /\ M \in Seq(ToolNames)
      /\ \A k \in 1..Len(M) : M[k] \in AcceptedTools(i)
      /\ \A k, l \in 1..Len(M) : M[k] = M[l] => k = l
      /\ \A l \in 1..Len(M), m \in AcceptedTools(i) : Before(i, m, M[l]) => \E k \in 1..Len(M) : k < l /\ M[k] = m
  <2> DEFINE A == AcceptedTools(i)
  <2>1. M = Matches(i) /\ A = AcceptedTools(i)
    OBVIOUS
  <2> HIDE DEF M, A
  <2> QED
    BY <2>1, RankedMatches
<1>10. g = Greedy(i, M)
  OBVIOUS
<1> HIDE DEF M
<1>2. TakenSoFar(i, M, g, Len(M))
  BY <1>1, <1>10, GreedyPass
<1>3. g \in Seq(ToolNames) /\ \A a, b \in 1..Len(g) : g[a] = g[b] => a = b
  BY <1>2 DEF TakenSoFar
<1>4. ASSUME NEW a \in 1..Len(g)
      PROVE  \E p \in 1..Len(M) :
               M[p] = g[a] /\ ~ (Coverage(i, g[a]) \subseteq UNION {Coverage(i, M[j]) : j \in 1..(p - 1)})
  BY <1>2 DEF TakenSoFar
<1>5. ASSUME NEW a \in 1..Len(g), NEW m \in AcceptedTools(i), Before(i, m, g[a]),
             Coverage(i, g[a]) \subseteq Coverage(i, m)
      PROVE  FALSE
  <2>1. PICK p \in 1..Len(M) :
               M[p] = g[a] /\ ~ (Coverage(i, g[a]) \subseteq UNION {Coverage(i, M[j]) : j \in 1..(p - 1)})
    BY <1>4
  <2>2. PICK k \in 1..Len(M) : k < p /\ M[k] = m
    BY <1>1, <1>5, <2>1
  <2>3. k \in 1..(p - 1)
    BY <2>2
  <2> QED
    BY <1>5, <2>1, <2>2, <2>3
<1>6. M # <<>> => Len(M) > 0
  BY <1>1
<1>7. \/ g # <<>> /\ Complete(i, g)
      \/ \A k \in 1..Len(M) : Coverage(i, M[k]) \subseteq CoverageOf(i, ToSet(g))
  BY <1>2 DEF TakenSoFar
<1>8. M # <<>> => g # <<>>
  BY <1>2, <1>6 DEF TakenSoFar
<1>9. \A a \in 1..Len(g) : g[a] \in AcceptedTools(i) /\ \E k \in 1..Len(M) : M[k] = g[a]
  BY <1>1, <1>4
<1> QED
  BY <1>3, <1>5, <1>7, <1>8, <1>9 DEF M

\* Of two accepted tools one is ranked ahead.
LEMMA OneIsAhead ==
  ASSUME NEW i, WellFormed(i), NEW m \in AcceptedTools(i), NEW n \in AcceptedTools(i), m # n
  PROVE  Before(i, m, n) \/ Before(i, n, m)
<1> DEFINE R == {p \in ToolNames \X ToolNames : Before(i, p[1], p[2])}
<1>1. <<m, n>> \in R \/ <<n, m>> \in R
  BY BeforeIsStrict DEF StrictOrder
<1> QED
  BY <1>1

\* The counts in a score.
HitCount(i, n) == Cardinality(MeasureHits(i, n))
DimensionCount(i, n) == Cardinality(i.dimensions \cap Catalog[n].dimensions)
OperationCount(i, n) == Cardinality(i.operations \cap Catalog[n].operations)

\* A score is a sum of counts.
LEMMA ScoreParts ==
  ASSUME NEW i, WellFormed(i), NEW n
  PROVE  /\ HitCount(i, n) \in Nat /\ DimensionCount(i, n) \in Nat /\ OperationCount(i, n) \in Nat
         /\ Score(i, n) =
              8 + Points(GrainCompatible(i, n), 5) + 4 * HitCount(i, n) + 2 * DimensionCount(i, n) + OperationCount(i, n)
                + Points(i.entity = "product" /\ "margin" \in i.measures /\ "cost" \in Catalog[n].measures, 2)
                + Points(i.dated /\ SupportsPeriod(n), 2)
  BY Hits DEF Score, HitCount, DimensionCount, OperationCount

\* A smaller set counts less; an element more counts one more.
LEMMA CountsGrow ==
  ASSUME NEW S, IsFiniteSet(S), NEW T, T \subseteq S
  PROVE  /\ Cardinality(T) \in Nat /\ Cardinality(S) \in Nat
         /\ Cardinality(T) <= Cardinality(S)
         /\ T # S => Cardinality(T) + 1 <= Cardinality(S)
<1>1. T \in SUBSET S
  OBVIOUS
<1>2. /\ Cardinality(T) <= Cardinality(S) /\ (Cardinality(S) = Cardinality(T) => S = T)
      /\ IsFiniteSet(T)
  BY <1>1, FS_Subset
<1>3. Cardinality(T) \in Nat /\ Cardinality(S) \in Nat
  BY <1>2, FS_CardinalityType
<1> QED
  BY <1>2, <1>3

\* What a tool that is no query measures of what is asked.
LEMMA PlainHits ==
  ASSUME NEW i, NEW n, ~ IsQuery(n)
  PROVE  MeasureHits(i, n) = i.measures \cap Catalog[n].measures
  BY DEF MeasureHits

\* Of a product, the food-cost report and the financial one are never both taken.
LEMMA FoodCostOrFinancial ==
  ASSUME NEW i, WellFormed(i), i.entity = "product", NEW g, g = Greedy(i, Matches(i)),
         "waro.analytics.food_cost" \in ToSet(g), "waro.financial.products" \in ToSet(g)
  PROVE  FALSE
<1> DEFINE food == "waro.analytics.food_cost"
           fin == "waro.financial.products"
<1>1. PICK a \in 1..Len(g), b \in 1..Len(g) : g[a] = food /\ g[b] = fin
  BY TakenTools DEF ToSet
<1>2. food \in AcceptedTools(i) /\ fin \in AcceptedTools(i)
  BY <1>1, TakenTools
<1>3. /\ Catalog[food].entity = "product" /\ Catalog[fin].entity = "product"
      /\ Catalog[food].grain = "product_period" /\ Catalog[fin].grain = "product_period"
      /\ Catalog[food].measures = {"margin", "profit_margin_real_pct", "revenue", "cost"}
      /\ Catalog[fin].measures = {"margin", "revenue", "cost", "quantity_sold"}
      /\ Catalog[food].dimensions = {"id", "name", "category"}
      /\ Catalog[fin].dimensions = {"id", "name", "category", "classification"}
      /\ Catalog[food].operations = Catalog[fin].operations
  BY CatalogEntries DEF Tool
<1>4. GrainCompatible(i, food) <=> GrainCompatible(i, fin)
  BY <1>3 DEF GrainCompatible, IsQuery, SupportsPeriod
<1>5. /\ MeasureHits(i, food) = i.measures \cap {"margin", "revenue", "cost"}
      /\ MeasureHits(i, fin) = i.measures \cap {"margin", "revenue", "cost", "quantity_sold"}
  <2>1. "profit_margin_real_pct" \notin i.measures
    BY DEF WellFormed, MeasureNames, SalesMeasures, Purchased
  <2>2. /\ MeasureHits(i, food) = i.measures \cap Catalog[food].measures
        /\ MeasureHits(i, fin) = i.measures \cap Catalog[fin].measures
    BY PlainHits DEF IsQuery
  <2> QED
    BY <1>3, <2>1, <2>2
<1>6. Coverage(i, food) \subseteq Coverage(i, fin)
  BY <1>3, <1>4, <1>5 DEF Coverage, Measured, IsQuery
<1>7. "quantity_sold" \notin i.measures => Coverage(i, fin) \subseteq Coverage(i, food)
  BY <1>3, <1>4, <1>5 DEF Coverage, Measured, IsQuery
<1>8. Before(i, food, fin) /\ "quantity_sold" \in i.measures
  <2>1. ~ Before(i, fin, food)
    BY <1>1, <1>2, <1>6, TakenTools
  <2> QED
    BY <1>1, <1>2, <1>7, <2>1, TakenTools, OneIsAhead
<1>9. HitCount(i, food) + 1 <= HitCount(i, fin)
  BY <1>5, <1>8, Hits, CountsGrow DEF HitCount
<1>10. DimensionCount(i, food) <= DimensionCount(i, fin)
  BY <1>3, Hits, CountsGrow DEF DimensionCount
<1>11. OperationCount(i, food) = OperationCount(i, fin)
  BY <1>3 DEF OperationCount
<1>12. SupportsPeriod(food) /\ SupportsPeriod(fin) /\ "cost" \in Catalog[food].measures /\ "cost" \in Catalog[fin].measures
  BY <1>3 DEF SupportsPeriod
<1>13. Score(i, food) < Score(i, fin)
  <2> DEFINE p == Points(GrainCompatible(i, food), 5)
             q == Points(i.entity = "product" /\ "margin" \in i.measures /\ "cost" \in Catalog[food].measures, 2)
             r == Points(i.dated /\ SupportsPeriod(food), 2)
  <2>1. p \in Nat /\ q \in Nat /\ r \in Nat
    BY DEF Points
  <2>2. Score(i, food) = 8 + p + 4 * HitCount(i, food) + 2 * DimensionCount(i, food) + OperationCount(i, food) + q + r
    BY ScoreParts
  <2>3. Score(i, fin) = 8 + p + 4 * HitCount(i, fin) + 2 * DimensionCount(i, fin) + OperationCount(i, fin) + q + r
    BY <1>4, <1>12, ScoreParts DEF Points
  <2>4. /\ HitCount(i, food) \in Nat /\ DimensionCount(i, food) \in Nat /\ OperationCount(i, food) \in Nat
        /\ HitCount(i, fin) \in Nat /\ DimensionCount(i, fin) \in Nat /\ OperationCount(i, fin) \in Nat
    BY ScoreParts
  <2> DEFINE hf == HitCount(i, food)
             hn == HitCount(i, fin)
             df == DimensionCount(i, food)
             dn == DimensionCount(i, fin)
             o == OperationCount(i, food)
  <2>5. /\ Score(i, food) = 8 + p + 4 * hf + 2 * df + o + q + r
        /\ Score(i, fin) = 8 + p + 4 * hn + 2 * dn + o + q + r
        /\ hf + 1 <= hn /\ df <= dn
        /\ hf \in Nat /\ hn \in Nat /\ df \in Nat /\ dn \in Nat /\ o \in Nat
    BY <1>9, <1>10, <1>11, <2>2, <2>3, <2>4
  <2> HIDE DEF p, q, r, hf, hn, df, dn, o
  <2> QED
    BY <2>1, <2>5
<1>14. Score(i, food) \in Nat /\ Score(i, fin) \in Nat
  BY ScoreType
<1> QED
  BY <1>8, <1>13, <1>14 DEF Before

-----------------------------------------------------------------------------
(* Pairs of tools that the greedy pass never takes together: the one       *)
(* ranked behind adds nothing.                                             *)

\* The scores of two tools of an intent that is not about a product, part by part.
LEMMA ScoreGap ==
  ASSUME NEW i, WellFormed(i), i.entity # "product", NEW m, NEW n, SupportsPeriod(m), SupportsPeriod(n)
  PROVE  /\ Score(i, m) - Score(i, n) =
              (Points(GrainCompatible(i, m), 5) - Points(GrainCompatible(i, n), 5))
                + 4 * (HitCount(i, m) - HitCount(i, n)) + 2 * (DimensionCount(i, m) - DimensionCount(i, n))
                + (OperationCount(i, m) - OperationCount(i, n))
         /\ HitCount(i, m) \in Nat /\ DimensionCount(i, m) \in Nat /\ OperationCount(i, m) \in Nat
         /\ HitCount(i, n) \in Nat /\ DimensionCount(i, n) \in Nat /\ OperationCount(i, n) \in Nat
         /\ Score(i, m) \in Nat /\ Score(i, n) \in Nat
         /\ Points(GrainCompatible(i, m), 5) \in {0, 5} /\ Points(GrainCompatible(i, n), 5) \in {0, 5}
<1> DEFINE pm == Points(GrainCompatible(i, m), 5)
           pn == Points(GrainCompatible(i, n), 5)
           r == Points(i.dated, 2)
           hm == HitCount(i, m)
           hn == HitCount(i, n)
           dm == DimensionCount(i, m)
           dn == DimensionCount(i, n)
           om == OperationCount(i, m)
           on == OperationCount(i, n)
<1>1. pm \in {0, 5} /\ pn \in {0, 5} /\ r \in Nat
  BY DEF Points
<1>2. /\ hm \in Nat /\ hn \in Nat /\ dm \in Nat /\ dn \in Nat /\ om \in Nat /\ on \in Nat
      /\ Score(i, m) = 8 + pm + 4 * hm + 2 * dm + om + 0 + r
      /\ Score(i, n) = 8 + pn + 4 * hn + 2 * dn + on + 0 + r
  BY ScoreParts DEF Points
<1> HIDE DEF pm, pn, r, hm, hn, dm, dn, om, on
<1>3. /\ Score(i, m) - Score(i, n) = (pm - pn) + 4 * (hm - hn) + 2 * (dm - dn) + (om - on)
      /\ Score(i, m) \in Nat /\ Score(i, n) \in Nat
  BY <1>1, <1>2
<1> QED
  BY <1>1, <1>2, <1>3 DEF pm, pn, r, hm, hn, dm, dn, om, on

\* At most as many as the larger set has; a pair counts two.
LEMMA SmallCounts ==
  /\ Cardinality({}) = 0
  /\ \A x : IsFiniteSet({x}) /\ Cardinality({x}) = 1
  /\ \A x, y : IsFiniteSet({x, y}) /\ Cardinality({x, y}) <= 2 /\ Cardinality({x, y}) \in Nat
  /\ \A x, y, z : IsFiniteSet({x, y, z}) /\ Cardinality({x, y, z}) <= 3 /\ Cardinality({x, y, z}) \in Nat
<1>1. Cardinality({}) = 0 /\ \A x : IsFiniteSet({x}) /\ Cardinality({x}) = 1
  BY FS_EmptySet, FS_Singleton
<1>2. ASSUME NEW x, NEW y PROVE IsFiniteSet({x, y}) /\ Cardinality({x, y}) <= 2 /\ Cardinality({x, y}) \in Nat
  <2> DEFINE S == {x}
  <2>1. {x, y} = S \cup {y}
    OBVIOUS
  <2>2. IsFiniteSet(S) /\ Cardinality(S) = 1
    BY <1>1
  <2> HIDE DEF S
  <2>3. IsFiniteSet(S \cup {y}) /\ Cardinality(S \cup {y}) \in {1, 2}
    BY <2>2, FS_AddElement
  <2> QED
    BY <2>1, <2>3
<1>3. ASSUME NEW x, NEW y, NEW z
      PROVE  IsFiniteSet({x, y, z}) /\ Cardinality({x, y, z}) <= 3 /\ Cardinality({x, y, z}) \in Nat
  <2> DEFINE S == {x, y}
  <2>1. {x, y, z} = S \cup {z}
    OBVIOUS
  <2>2. IsFiniteSet(S) /\ Cardinality(S) <= 2 /\ Cardinality(S) \in Nat
    BY <1>2
  <2> HIDE DEF S
  <2>3. IsFiniteSet(S \cup {z}) /\ Cardinality(S \cup {z}) \in {Cardinality(S), Cardinality(S) + 1}
    BY <2>2, FS_AddElement
  <2> QED
    BY <2>1, <2>2, <2>3
<1> QED
  BY <1>1, <1>2, <1>3

\* Ranks are places in the order of names.
LEMMA RankInOrder ==
  ASSUME NEW n \in ToolNames
  PROVE  Rank(n) \in 1..12 /\ NameOrder[Rank(n)] = n
<1>1. \E k \in 1..12 : NameOrder[k] = n
  BY NamesAreListed
<1>2. DOMAIN NameOrder = 1..12
  BY DEF NameOrder
<1> QED
  BY <1>1, <1>2 DEF Rank

\* Of customers, the cohorts and the summary are both taken only for plain periods.
LEMMA CohortOrMetrics ==
  ASSUME NEW i, WellFormed(i), i.entity = "customer", i.grain # "customer_period",
         NEW g, g = Greedy(i, Matches(i)),
         "waro.analytics.cohort" \in ToSet(g), "waro.customers.metrics" \in ToSet(g)
  PROVE  FALSE
<1> DEFINE cohort == "waro.analytics.cohort"
           metrics == "waro.customers.metrics"
<1>1. PICK a \in 1..Len(g), b \in 1..Len(g) : g[a] = cohort /\ g[b] = metrics
  BY TakenTools DEF ToSet
<1>2. cohort \in AcceptedTools(i) /\ metrics \in AcceptedTools(i)
  BY <1>1, TakenTools
<1>3. cohort \in ToolNames /\ metrics \in ToolNames /\ cohort \in ExtraTools
  BY <1>2, CliNames DEF AcceptedTools
<1>4. /\ Catalog[cohort].entity = "customer" /\ Catalog[metrics].entity = "customer"
      /\ Catalog[cohort].grain = "cohort_period" /\ Catalog[metrics].grain = "customer_period_summary"
      /\ Catalog[cohort].measures = {"cohort_size", "retention_pct"}
      /\ Catalog[metrics].measures = {"activity", "retention_pct", "frequency", "top_customers"}
      /\ Catalog[cohort].operations = {"aggregate", "summarize", "compare"}
      /\ Catalog[metrics].operations = {"aggregate", "group", "rank", "limit"}
      /\ Catalog[metrics].dimensions = {"date", "weekday", "month"}
  BY <1>3, CatalogEntries, CliEntries DEF Tool
<1>5. ~ IsQuery(cohort) /\ ~ IsQuery(metrics) /\ SupportsPeriod(cohort) /\ SupportsPeriod(metrics)
  BY DEF IsQuery, SupportsPeriod
<1>6. /\ GrainCompatible(i, cohort) <=> i.grain \in {"business_period", "cohort_period"}
      /\ GrainCompatible(i, metrics) <=> i.grain = "business_period"
  BY <1>4, <1>5 DEF GrainCompatible, WellFormed, Grains
<1>7. /\ MeasureHits(i, cohort) = i.measures \cap {"cohort_size", "retention_pct"}
      /\ MeasureHits(i, metrics) = i.measures \cap {"retention_pct"}
  <2>1. "activity" \notin i.measures /\ "frequency" \notin i.measures /\ "top_customers" \notin i.measures
    BY DEF WellFormed, MeasureNames, SalesMeasures, Purchased
  <2> QED
    BY <1>4, <1>5, <2>1, PlainHits
<1>8. Coverage(i, metrics) \subseteq Coverage(i, cohort)
  BY <1>4, <1>5, <1>6, <1>7 DEF Coverage, Measured
<1>9. "cohort_size" \notin i.measures /\ i.grain # "cohort_period" => Coverage(i, cohort) \subseteq Coverage(i, metrics)
  BY <1>4, <1>5, <1>6, <1>7 DEF Coverage, Measured
<1>10. ~ Before(i, cohort, metrics) /\ ("cohort_size" \in i.measures \/ i.grain = "cohort_period")
  <2>1. ~ Before(i, cohort, metrics)
    BY <1>1, <1>2, <1>8, TakenTools
  <2>2. Before(i, metrics, cohort)
    BY <1>2, <2>1, OneIsAhead
  <2>3. ~ (Coverage(i, cohort) \subseteq Coverage(i, metrics))
    BY <1>1, <1>2, <2>2, TakenTools
  <2> QED
    BY <1>9, <2>1, <2>3
<1>11. /\ HitCount(i, metrics) <= HitCount(i, cohort)
       /\ "cohort_size" \in i.measures => HitCount(i, metrics) + 1 <= HitCount(i, cohort)
  BY <1>7, Hits, CountsGrow DEF HitCount
<1>12. DimensionCount(i, metrics) <= 1
  <2>1. i.dimensions \cap Catalog[metrics].dimensions \subseteq {"date"}
    BY <1>4 DEF WellFormed, DimensionNames
  <2> QED
    BY <2>1, SmallCounts, CountsGrow DEF DimensionCount
<1>13. OperationCount(i, metrics) <= OperationCount(i, cohort) + 2
  <2> DEFINE S == i.operations \cap Catalog[cohort].operations
             T == {"group", "rank"}
  <2>1. i.operations \cap Catalog[metrics].operations \subseteq S \cup T
    BY <1>4 DEF WellFormed, OperationNames, SalesOperations
  <2>2. /\ IsFiniteSet(S) /\ Cardinality(S) \in Nat /\ IsFiniteSet(T) /\ Cardinality(T) <= 2 /\ Cardinality(T) \in Nat
        /\ OperationCount(i, cohort) = Cardinality(S)
    BY Hits, SmallCounts DEF OperationCount
  <2> HIDE DEF S, T
  <2>3. IsFiniteSet(S \cup T) /\ Cardinality(S \cup T) = Cardinality(S) + Cardinality(T) - Cardinality(S \cap T)
    BY <2>2, FS_Union
  <2>4. Cardinality(S \cap T) \in Nat
    BY <2>2, CountsGrow
  <2>5. OperationCount(i, metrics) <= Cardinality(S \cup T) /\ OperationCount(i, metrics) \in Nat
    BY <2>1, <2>3, CountsGrow DEF OperationCount
  <2> QED
    BY <2>2, <2>3, <2>4, <2>5
<1>14. Score(i, cohort) >= Score(i, metrics)
  <2> DEFINE pm == Points(GrainCompatible(i, cohort), 5)
             pn == Points(GrainCompatible(i, metrics), 5)
             hm == HitCount(i, cohort)
             hn == HitCount(i, metrics)
             dm == DimensionCount(i, cohort)
             dn == DimensionCount(i, metrics)
             om == OperationCount(i, cohort)
             on == OperationCount(i, metrics)
             sm == Score(i, cohort)
             sn == Score(i, metrics)
  <2>1. /\ sm - sn = (pm - pn) + 4 * (hm - hn) + 2 * (dm - dn) + (om - on)
        /\ pm \in {0, 5} /\ pn \in {0, 5} /\ hm \in Nat /\ hn \in Nat /\ dm \in Nat /\ dn \in Nat /\ om \in Nat /\ on \in Nat
        /\ sm \in Nat /\ sn \in Nat
    BY <1>5, ScoreGap
  <2>2. /\ hn <= hm /\ dn <= 1 /\ on <= om + 2
        /\ pn <= pm /\ (hn + 1 <= hm \/ (pm = 5 /\ pn = 0))
    BY <1>6, <1>10, <1>11, <1>12, <1>13 DEF Points
  <2> HIDE DEF pm, pn, hm, hn, dm, dn, om, on, sm, sn
  <2>3. sm >= sn
    BY <2>1, <2>2
  <2> QED
    BY <2>3 DEF sm, sn
<1>15. Rank(cohort) < Rank(metrics)
  <2>1. Rank(cohort) \in 1..12 /\ NameOrder[Rank(cohort)] = cohort
    BY <1>3, RankInOrder
  <2>2. Rank(metrics) \in 1..12 /\ NameOrder[Rank(metrics)] = metrics
    BY <1>3, RankInOrder
  <2>3. Rank(cohort) = 1
    BY <2>1 DEF NameOrder
  <2>4. Rank(metrics) = 6
    BY <2>2 DEF NameOrder
  <2> QED
    BY <2>3, <2>4
<1>16. Score(i, cohort) \in Nat /\ Score(i, metrics) \in Nat
  BY ScoreType
<1> QED
  BY <1>10, <1>14, <1>15, <1>16 DEF Before

\* Of customers by their period, the list and the query are never both taken.
LEMMA ListOrQuery ==
  ASSUME NEW i, WellFormed(i), i.entity = "customer", i.grain = "customer_period",
         NEW g, g = Greedy(i, Matches(i)),
         "waro.customers.list" \in ToSet(g), "waro.queries.run" \in ToSet(g)
  PROVE  FALSE
<1> DEFINE list == "waro.customers.list"
           query == "waro.queries.run"
<1>1. PICK a \in 1..Len(g), b \in 1..Len(g) : g[a] = list /\ g[b] = query
  BY TakenTools DEF ToSet
<1>2. list \in AcceptedTools(i) /\ query \in AcceptedTools(i)
  BY <1>1, TakenTools
<1>3. query \in ExtraTools
  BY <1>2, CliNames DEF AcceptedTools
<1>4. /\ Catalog[list].entity = "customer" /\ Catalog[query].entity = "query_row"
      /\ Catalog[list].grain = "customer_period"
      /\ Catalog[list].measures = CustomerMeasures \cup {"waros_balance"}
      /\ CustomerMeasures \subseteq Catalog[query].measures
      /\ Catalog[list].dimensions = {"customer_id", "name"}
      /\ Catalog[list].operations \subseteq Catalog[query].operations
  BY <1>3, CatalogEntries, CliEntries DEF Tool, Listing
<1>5. ~ IsQuery(list) /\ IsQuery(query) /\ SupportsPeriod(list) /\ SupportsPeriod(query)
  BY DEF IsQuery, SupportsPeriod
<1>6. GrainCompatible(i, list) /\ GrainCompatible(i, query)
  BY <1>4, <1>5 DEF GrainCompatible
<1>7. MeasureHits(i, list) \subseteq MeasureHits(i, query)
  <2>1. MeasureHits(i, list) = i.measures \cap CustomerMeasures
    <3>1. "waros_balance" \notin i.measures
      BY DEF WellFormed, MeasureNames, SalesMeasures, Purchased
    <3> QED
      BY <1>4, <1>5, <3>1, PlainHits
  <2>2. \A m : m \in QueryAliases(m)
    BY DEF QueryAliases
  <2> QED
    BY <1>4, <1>5, <2>1, <2>2 DEF MeasureHits
<1>8. Coverage(i, list) \subseteq Coverage(i, query)
  BY <1>4, <1>5, <1>6, <1>7 DEF Coverage, Measured
<1>9. MeasureHits(i, list) = MeasureHits(i, query) => Coverage(i, query) \subseteq Coverage(i, list)
  BY <1>4, <1>5, <1>6 DEF Coverage, Measured
<1>10. ~ Before(i, query, list) /\ MeasureHits(i, list) # MeasureHits(i, query)
  <2>1. ~ Before(i, query, list)
    BY <1>1, <1>2, <1>8, TakenTools
  <2>2. Before(i, list, query)
    BY <1>2, <2>1, OneIsAhead
  <2>3. ~ (Coverage(i, query) \subseteq Coverage(i, list))
    BY <1>1, <1>2, <2>2, TakenTools
  <2> QED
    BY <1>9, <2>1, <2>3
<1>11. HitCount(i, list) + 1 <= HitCount(i, query)
  BY <1>7, <1>10, Hits, CountsGrow DEF HitCount
<1>12. DimensionCount(i, list) = 0
  <2>1. i.dimensions \cap Catalog[list].dimensions = {}
    BY <1>4 DEF WellFormed, DimensionNames
  <2> QED
    BY <2>1, SmallCounts DEF DimensionCount
<1>13. OperationCount(i, list) <= OperationCount(i, query)
  <2>1. i.operations \cap Catalog[list].operations \subseteq i.operations \cap Catalog[query].operations
    BY <1>4
  <2> QED
    BY <2>1, Hits, CountsGrow DEF OperationCount
<1>14. Score(i, query) > Score(i, list)
  <2> DEFINE pm == Points(GrainCompatible(i, query), 5)
             pn == Points(GrainCompatible(i, list), 5)
             hm == HitCount(i, query)
             hn == HitCount(i, list)
             dm == DimensionCount(i, query)
             dn == DimensionCount(i, list)
             om == OperationCount(i, query)
             on == OperationCount(i, list)
             sm == Score(i, query)
             sn == Score(i, list)
  <2>1. /\ sm - sn = (pm - pn) + 4 * (hm - hn) + 2 * (dm - dn) + (om - on)
        /\ pm \in {0, 5} /\ pn \in {0, 5} /\ hm \in Nat /\ hn \in Nat /\ dm \in Nat /\ dn \in Nat /\ om \in Nat /\ on \in Nat
        /\ sm \in Nat /\ sn \in Nat
    BY <1>5, ScoreGap
  <2>2. hn + 1 <= hm /\ dn = 0 /\ on <= om /\ pn = pm
    BY <1>6, <1>11, <1>12, <1>13 DEF Points
  <2> HIDE DEF pm, pn, hm, hn, dm, dn, om, on, sm, sn
  <2>3. sm > sn
    BY <2>1, <2>2
  <2> QED
    BY <2>3 DEF sm, sn
<1> QED
  BY <1>10, <1>14 DEF Before

-----------------------------------------------------------------------------
(* The greedy pass takes at most three tools.                              *)

\* A sequence without duplicates is no longer than the set it is drawn from.
LEMMA NoLongerThan ==
  ASSUME NEW S, IsFiniteSet(S), NEW s \in Seq(S), \A a, b \in 1..Len(s) : s[a] = s[b] => a = b
  PROVE  Len(s) <= Cardinality(S)
<1>1. Len(s) \in Nat /\ s \in [1..Len(s) -> S]
  OBVIOUS
<1>2. s \in Injection(1..Len(s), S)
  BY <1>1 DEF Injection, IsInjective
<1>3. Cardinality(1..Len(s)) <= Cardinality(S)
  BY <1>2, FS_Injection
<1>4. Cardinality(1..Len(s)) = Len(s)
  BY <1>1, FS_Interval
<1> QED
  BY <1>3, <1>4

\* The tools that can answer what is asked of each entity.
LEMMA ToolsOfEntity ==
  ASSUME NEW i, WellFormed(i), NEW n \in AcceptedTools(i)
  PROVE  /\ i.entity = "sale" => n \in {"waro.sales.metrics", "waro.sales.list", "waro.queries.run"}
         /\ i.entity = "order" => n \in {"waro.sales.list", "waro.queries.run"}
         /\ i.entity = "product" => n \in {"waro.analytics.food_cost", "waro.analytics.menu",
                                           "waro.financial.products", "waro.queries.run"}
         /\ i.entity = "customer" => n \in {"waro.customers.list", "waro.customers.metrics",
                                            "waro.analytics.cohort", "waro.queries.run"}
         /\ i.entity = "loyalty_transaction" => n = "waro.analytics.waros"
         /\ i.entity \in {"ingredient", "supplier", "purchase"} => n = "waro.queries.run"
<1>1. n \in ToolNames /\ Accepted(i, n)
  BY DEF AcceptedTools
<1>2. EntityCompatible(i, n)
  BY <1>1 DEF Accepted
<1>3. n = "waro.menu.products" /\ i.entity = "product" => FALSE
  <2> SUFFICES ASSUME n = "waro.menu.products", i.entity = "product" PROVE FALSE
    OBVIOUS
  <2>1. Catalog[n].entity = "product" /\ Catalog[n].grain = "product" /\ Catalog[n].measures = {"price"}
    BY CatalogEntries DEF Tool
  <2>2. MeasureHits(i, n) = i.measures \cap {"price"}
    BY <2>1, PlainHits DEF IsQuery
  <2>3. "price" \notin i.measures
    BY DEF WellFormed, MeasureNames, SalesMeasures, Purchased
  <2> QED
    BY <1>1, <2>1, <2>2, <2>3 DEF Accepted
<1>4. /\ n \in {"waro.analytics.food_cost", "waro.menu.products", "waro.analytics.menu", "waro.financial.products"}
           => Catalog[n].entity = "product"
      /\ n \in {"waro.customers.list", "waro.customers.metrics", "waro.analytics.cohort"} => Catalog[n].entity = "customer"
      /\ n = "waro.menu.recipes" => Catalog[n].entity = "recipe"
      /\ n = "waro.sales.list" => Catalog[n].entity = "order"
      /\ n = "waro.sales.metrics" => Catalog[n].entity = "sale"
      /\ n = "waro.analytics.waros" => Catalog[n].entity = "loyalty_transaction"
      /\ n = "waro.queries.run" => Catalog[n].entity = "query_row"
  BY <1>1, CatalogEntries, CliEntries, CliNames DEF Tool
<1>5. n \in StaticNames \cup {"waro.analytics.cohort", "waro.analytics.waros", "waro.queries.run"}
  BY <1>1, CliNames
<1> QED
  BY <1>2, <1>3, <1>4, <1>5 DEF EntityCompatible, IsQuery, StaticNames, WellFormed, Entities

\* Unless the question is about the business, the greedy pass takes three tools at most: the cut at
\* three takes none of them away.
LEMMA GreedyTakesThree ==
  ASSUME NEW i, WellFormed(i), i.entity # "business", NEW g, g = Greedy(i, Matches(i))
  PROVE  Len(g) <= 3
<1>1. /\ g \in Seq(ToolNames)
      /\ \A a \in 1..Len(g) : g[a] \in AcceptedTools(i)
      /\ \A a, b \in 1..Len(g) : g[a] = g[b] => a = b
  BY TakenTools
<1>2. \A a \in 1..Len(g) : g[a] \in ToSet(g)
  BY <1>1 DEF ToSet
<1>3. ASSUME NEW x, NEW y, NEW z, \A a \in 1..Len(g) : g[a] \in {x, y, z}
      PROVE  Len(g) <= 3
  <2> DEFINE S == {x, y, z}
  <2>1. g \in Seq(S) /\ Len(g) \in Nat
    BY <1>1, <1>3
  <2>2. IsFiniteSet(S) /\ Cardinality(S) <= 3 /\ Cardinality(S) \in Nat
    BY SmallCounts
  <2> HIDE DEF S
  <2>3. Len(g) <= Cardinality(S)
    BY <1>1, <2>1, <2>2, NoLongerThan
  <2> QED
    BY <2>1, <2>2, <2>3
<1>4. CASE i.entity = "product"
  <2>1. ~ ("waro.analytics.food_cost" \in ToSet(g) /\ "waro.financial.products" \in ToSet(g))
    BY <1>4, FoodCostOrFinancial
  <2>2. \A a \in 1..Len(g) : g[a] \in {"waro.analytics.food_cost", "waro.analytics.menu",
                                       "waro.financial.products", "waro.queries.run"}
    BY <1>1, <1>4, ToolsOfEntity
  <2>3. \/ \A a \in 1..Len(g) : g[a] \in {"waro.analytics.food_cost", "waro.analytics.menu", "waro.queries.run"}
        \/ \A a \in 1..Len(g) : g[a] \in {"waro.financial.products", "waro.analytics.menu", "waro.queries.run"}
    BY <1>2, <2>1, <2>2
  <2> QED
    BY <1>3, <2>3
<1>5. CASE i.entity = "customer"
  <2>1. \/ ~ ("waro.analytics.cohort" \in ToSet(g) /\ "waro.customers.metrics" \in ToSet(g))
        \/ ~ ("waro.customers.list" \in ToSet(g) /\ "waro.queries.run" \in ToSet(g))
    BY <1>5, CohortOrMetrics, ListOrQuery
  <2>2. \A a \in 1..Len(g) : g[a] \in {"waro.customers.list", "waro.customers.metrics",
                                       "waro.analytics.cohort", "waro.queries.run"}
    BY <1>1, <1>5, ToolsOfEntity
  <2>3. \/ \A a \in 1..Len(g) : g[a] \in {"waro.customers.list", "waro.customers.metrics", "waro.queries.run"}
        \/ \A a \in 1..Len(g) : g[a] \in {"waro.customers.list", "waro.analytics.cohort", "waro.queries.run"}
        \/ \A a \in 1..Len(g) : g[a] \in {"waro.customers.list", "waro.customers.metrics", "waro.analytics.cohort"}
        \/ \A a \in 1..Len(g) : g[a] \in {"waro.customers.metrics", "waro.analytics.cohort", "waro.queries.run"}
    BY <1>2, <2>1, <2>2
  <2> QED
    BY <1>3, <2>3
<1>6. CASE i.entity \notin {"product", "customer"}
  <2>1. \A a \in 1..Len(g) : g[a] \in {"waro.sales.metrics", "waro.sales.list", "waro.queries.run"}
                             \/ (g[a] = "waro.analytics.waros" /\ i.entity = "loyalty_transaction")
    <3> TAKE a \in 1..Len(g)
    <3>1. i.entity \in {"sale", "order", "loyalty_transaction", "ingredient", "supplier", "purchase"}
      BY <1>6 DEF WellFormed, Entities
    <3>2. PICK n \in AcceptedTools(i) : n = g[a]
      BY <1>1
    <3>3. /\ i.entity = "sale" => n \in {"waro.sales.metrics", "waro.sales.list", "waro.queries.run"}
          /\ i.entity = "order" => n \in {"waro.sales.list", "waro.queries.run"}
          /\ i.entity = "loyalty_transaction" => n = "waro.analytics.waros"
          /\ i.entity \in {"ingredient", "supplier", "purchase"} => n = "waro.queries.run"
      BY ToolsOfEntity
    <3> QED
      BY <3>1, <3>2, <3>3
  <2>2. i.entity = "loyalty_transaction" => \A a \in 1..Len(g) : g[a] = "waro.analytics.waros"
    BY <1>1, ToolsOfEntity
  <2>3. \/ \A a \in 1..Len(g) : g[a] \in {"waro.sales.metrics", "waro.sales.list", "waro.queries.run"}
        \/ \A a \in 1..Len(g) : g[a] \in {"waro.analytics.waros", "waro.analytics.waros", "waro.analytics.waros"}
    BY <2>1, <2>2
  <2> QED
    BY <1>3, <2>3
<1> QED
  BY <1>4, <1>5, <1>6

-----------------------------------------------------------------------------
(* Selection: prefixes, the profile's choice, the second domain.           *)

\* The first elements of a sequence.
LEMMA PrefixOfSequence ==
  ASSUME NEW S, NEW s \in Seq(S), NEW n \in Nat
  PROVE  /\ Prefix(s, n) \in Seq(S)
         /\ Len(Prefix(s, n)) = IF n <= Len(s) THEN n ELSE Len(s)
         /\ \A k \in 1..Len(Prefix(s, n)) : Prefix(s, n)[k] = s[k]
<1> DEFINE m == Min({n, Len(s)})
<1>1. m = IF n <= Len(s) THEN n ELSE Len(s)
  <2> DEFINE T == {n, Len(s)}
  <2>1. T \in SUBSET Nat /\ T # {}
    OBVIOUS
  <2> HIDE DEF T
  <2>2. Min(T) \in T /\ \A k \in T : Min(T) <= k
    BY <2>1, MinOfNumbers
  <2> QED
    BY <2>2 DEF T
<1>2. m \in Nat /\ m <= Len(s)
  BY <1>1
<1> HIDE DEF m
<1>3. Prefix(s, n) = SubSeq(s, 1, m)
  BY DEF Prefix, m
<1>4. \A k \in 1..m : s[k] \in S
  BY <1>2
<1>5. /\ SubSeq(s, 1, m) \in Seq(S)
      /\ Len(SubSeq(s, 1, m)) = IF 1 <= m THEN m - 1 + 1 ELSE 0
      /\ \A k \in 1..(m - 1 + 1) : SubSeq(s, 1, m)[k] = s[1 + k - 1]
  BY <1>2, <1>4, SubSeqProperties
<1>6. Len(SubSeq(s, 1, m)) = m
  BY <1>2, <1>5
<1>7. \A k \in 1..m : SubSeq(s, 1, m)[k] = s[k]
  BY <1>2, <1>5
<1> QED
  BY <1>1, <1>3, <1>5, <1>6, <1>7

\* The ranks of some numbers are 0, 1, ... from the least on.
LEMMA RanksOfNumbers ==
  ASSUME NEW W \in SUBSET Nat, IsFiniteSet(W)
  PROVE  LET rank(x) == Cardinality({l \in W : l < x})
         IN  /\ \A x \in W : rank(x) \in 0..(Cardinality(W) - 1)
             /\ \A x, y \in W : (x < y) <=> rank(x) < rank(y)
             /\ \A k \in 0..(Cardinality(W) - 1) : \E x \in W : rank(x) = k
             /\ \A x, y \in W : rank(x) = rank(y) => x = y
<1> DEFINE R == {p \in Nat \X Nat : p[1] < p[2]}
           rank(x) == Cardinality({l \in W : l < x})
<1>1. StrictOrder(W, R)
  BY DEF StrictOrder
<1>2. \A x \in W : rank(x) = RankIn(x, W, R)
  <2> TAKE x \in W
  <2>1. {l \in W : l < x} = {l \in W : <<l, x>> \in R}
    OBVIOUS
  <2> QED
    BY <2>1 DEF RankIn
<1>3. \A x, y \in W : <<x, y>> \in R <=> x < y
  OBVIOUS
<1> HIDE DEF R, rank
<1>4. /\ \A x \in W : RankIn(x, W, R) \in 0..(Cardinality(W) - 1)
      /\ \A x, y \in W : <<x, y>> \in R <=> RankIn(x, W, R) < RankIn(y, W, R)
      /\ \A k \in 0..(Cardinality(W) - 1) : \E x \in W : RankIn(x, W, R) = k
      /\ \A x, y \in W : RankIn(x, W, R) = RankIn(y, W, R) => x = y
  BY <1>1, RanksFollowOrder
<1>5. \A x \in W : rank(x) \in 0..(Cardinality(W) - 1)
  BY <1>2, <1>4
<1>6. \A x, y \in W : (x < y) <=> rank(x) < rank(y)
  <2> TAKE x \in W, y \in W
  <2>1. rank(x) = RankIn(x, W, R) /\ rank(y) = RankIn(y, W, R)
    BY <1>2
  <2>2. <<x, y>> \in R <=> RankIn(x, W, R) < RankIn(y, W, R)
    BY <1>4
  <2>3. <<x, y>> \in R <=> x < y
    BY <1>3
  <2> QED
    BY <2>1, <2>2, <2>3
<1>7. \A k \in 0..(Cardinality(W) - 1) : \E x \in W : rank(x) = k
  BY <1>2, <1>4
<1>8. \A x, y \in W : rank(x) = rank(y) => x = y
  BY <1>2, <1>4
<1> QED
  BY <1>5, <1>6, <1>7, <1>8 DEF rank

\* Of eight places some are at most eight.
LEMMA SomeOfEight ==
  ASSUME NEW W \in SUBSET (1..8)
  PROVE  IsFiniteSet(W) /\ Cardinality(W) \in Nat /\ Cardinality(W) <= 8
<1> DEFINE S == 1..8
<1>1. \A n \in Nat : IsFiniteSet(1..n) /\ Cardinality(1..n) = n
  BY FS_Interval
<1>2. IsFiniteSet(S) /\ Cardinality(S) = 8
  BY <1>1
<1> HIDE DEF S
<1>3. W \in SUBSET S
  BY DEF S
<1> QED
  BY <1>2, <1>3, FS_Subset, FS_CardinalityType

\* The places of the priorities that the tools hold.
Wanted(s) == {k \in DOMAIN BusinessPriorities : BusinessPriorities[k] \in ToSet(s)}

\* The profile takes the best of the wanted tools, in the order of the priorities.
LEMMA ProfileChoiceInOrder ==
  ASSUME NEW s \in Seq(ToolNames),
         NEW wanted, wanted = Wanted(s), wanted # {},
         NEW c, c = ProfileChoice(s)
  PROVE  /\ c \in Seq(ToolNames)
         /\ Len(c) = IF ProfileSteps <= Cardinality(wanted) THEN ProfileSteps ELSE Cardinality(wanted)
         /\ Cardinality(wanted) \in Nat /\ Cardinality(wanted) <= 8
         /\ \E w \in [1..Len(c) -> wanted] :
              /\ \A j \in 1..Len(c) : c[j] = BusinessPriorities[w[j]]
              /\ \A j, k \in 1..Len(c) : j < k => w[j] < w[k]
              /\ \A v \in wanted : (\E j \in 1..Len(c) : w[j] = v)
                                     \/ (Len(c) = ProfileSteps /\ \A j \in 1..Len(c) : w[j] < v)
<1> DEFINE nth(j) == CHOOSE k \in wanted : Cardinality({l \in wanted : l < k}) = j - 1
           size == Min({ProfileSteps, Cardinality(wanted)})
<1>1. DOMAIN BusinessPriorities = 1..8
  BY DEF BusinessPriorities
<1>2. wanted \in SUBSET (1..8) /\ wanted \in SUBSET Nat
  BY <1>1 DEF Wanted
<1>3. IsFiniteSet(wanted) /\ Cardinality(wanted) \in Nat /\ Cardinality(wanted) <= 8
  BY <1>2, SomeOfEight
<1>4. c = [j \in 1..size |-> BusinessPriorities[nth(j)]]
  BY DEF ProfileChoice, Wanted
<1>5. size = (IF ProfileSteps <= Cardinality(wanted) THEN ProfileSteps ELSE Cardinality(wanted)) /\ size \in Nat
  <2> DEFINE T == {ProfileSteps, Cardinality(wanted)}
  <2>1. T \in SUBSET Nat /\ T # {}
    BY <1>3, PlanningAssumption
  <2> HIDE DEF T
  <2>2. Min(T) \in T /\ \A k \in T : Min(T) <= k
    BY <2>1, MinOfNumbers
  <2> QED
    BY <2>2, <1>3, PlanningAssumption DEF T
<1> HIDE DEF size
<1> DEFINE rank(x) == Cardinality({l \in wanted : l < x})
<1>9. /\ \A x \in wanted : rank(x) \in 0..(Cardinality(wanted) - 1)
      /\ \A x, y \in wanted : (x < y) <=> rank(x) < rank(y)
      /\ \A k \in 0..(Cardinality(wanted) - 1) : \E x \in wanted : rank(x) = k
      /\ \A x, y \in wanted : rank(x) = rank(y) => x = y
  BY <1>2, <1>3, RanksOfNumbers
<1>10. ASSUME NEW j \in 1..size PROVE nth(j) \in wanted /\ rank(nth(j)) = j - 1
  <2>1. j - 1 \in 0..(Cardinality(wanted) - 1)
    BY <1>3, <1>5, PlanningAssumption
  <2>2. \E k \in wanted : Cardinality({l \in wanted : l < k}) = j - 1
    BY <1>9, <2>1
  <2>3. nth(j) \in wanted /\ Cardinality({l \in wanted : l < nth(j)}) = j - 1
    BY <2>2
  <2> QED
    BY <2>3
<1> DEFINE w == [j \in 1..size |-> nth(j)]
<1>11. w \in [1..size -> wanted] /\ \A j \in 1..size : rank(w[j]) = j - 1
  BY <1>10
<1>12. c = [j \in 1..size |-> BusinessPriorities[w[j]]]
  BY <1>4
<1> HIDE DEF nth, w, rank
<1>13. \A k \in wanted : BusinessPriorities[k] \in ToolNames
  BY DEF ToSet, Wanted
<1>14. c \in Seq(ToolNames) /\ Len(c) = size
  <2>1. \A j \in 1..size : BusinessPriorities[w[j]] \in ToolNames
    BY <1>11, <1>13
  <2> QED
    BY <1>5, <1>12, <2>1
<1>15. \A j, k \in 1..size : j < k => w[j] < w[k]
  <2> SUFFICES ASSUME NEW j \in 1..size, NEW k \in 1..size, j < k PROVE w[j] < w[k]
    OBVIOUS
  <2>1. w[j] \in wanted /\ w[k] \in wanted /\ rank(w[j]) = j - 1 /\ rank(w[k]) = k - 1
    BY <1>11
  <2>2. j - 1 < k - 1
    BY <1>5
  <2> QED
    BY <1>9, <2>1, <2>2
<1>16. ASSUME NEW v \in wanted
       PROVE  (\E j \in 1..size : w[j] = v) \/ (size = ProfileSteps /\ \A j \in 1..size : w[j] < v)
  <2>1. rank(v) \in Nat /\ rank(v) < Cardinality(wanted)
    BY <1>3, <1>9
  <2>2. CASE rank(v) < size
    <3>1. rank(v) + 1 \in 1..size
      BY <1>5, <2>1, <2>2
    <3>2. w[rank(v) + 1] \in wanted /\ rank(w[rank(v) + 1]) = rank(v)
      BY <1>11, <2>1, <3>1
    <3> QED
      BY <1>9, <3>1, <3>2
  <2>3. CASE ~ (rank(v) < size)
    <3>1. size = ProfileSteps
      BY <1>3, <1>5, <2>1, <2>3, PlanningAssumption
    <3>2. ASSUME NEW j \in 1..size PROVE w[j] < v
      <4>1. w[j] \in wanted /\ rank(w[j]) = j - 1
        BY <1>11
      <4>2. j - 1 < rank(v)
        BY <1>5, <2>1, <2>3
      <4> QED
        BY <1>9, <4>1, <4>2
    <3> QED
      BY <3>1, <3>2
  <2> QED
    BY <2>2, <2>3
<1>17. w \in [1..Len(c) -> wanted] /\ \A j \in 1..Len(c) : c[j] = BusinessPriorities[w[j]]
  BY <1>11, <1>12, <1>14
<1> QED
  BY <1>3, <1>5, <1>14, <1>15, <1>16, <1>17

\* The second domain is a tool of the ranking, or none.
LEMMA SecondDomainType ==
  ASSUME NEW M \in Seq(ToolNames), NEW g,
         NEW others, others = {k \in DOMAIN M : Catalog[M[k]].domain \notin DomainsOf(ToSet(g))}
  PROVE  /\ SecondDomain(M, g) \in Seq(ToolNames)
         /\ others # {} => \E k \in others : SecondDomain(M, g) = <<M[k]>>
<1>1. others # {} => Min(others) \in others
  <2>1. others \in SUBSET Nat
    OBVIOUS
  <2> QED
    BY <2>1, MinOfNumbers
<1>2. SecondDomain(M, g) = IF others = {} THEN <<>> ELSE <<M[Min(others)]>>
  BY DEF SecondDomain
<1>3. others # {} => M[Min(others)] \in ToolNames
  BY <1>1
<1>4. SecondDomain(M, g) \in Seq(ToolNames)
  BY <1>2, <1>3
<1> QED
  BY <1>1, <1>2, <1>4

\* What is selected from the matches: tools, eight at most, and no more than asked for.
LEMMA SelectType ==
  ASSUME NEW i, WellFormed(i), NEW s, s = Select(i, Matches(i))
  PROVE  /\ s \in Seq(ToolNames) /\ Len(s) <= 8
         /\ Len(s) <= IF HasProfile(i) THEN ProfileSteps ELSE MaxSteps
<1> DEFINE M == Matches(i)
           g == Greedy(i, M)
<1>1. M \in Seq(ToolNames) /\ Len(M) <= 8
  <2> DEFINE A == AcceptedTools(i)
  <2>1. M = Matches(i) /\ A = AcceptedTools(i)
    OBVIOUS
  <2> HIDE DEF M, A
  <2>2. M \in Seq(ToolNames) /\ Len(M) = (IF Cardinality(A) <= 8 THEN Cardinality(A) ELSE 8) /\ Cardinality(A) \in Nat
    BY <2>1, RankedMatches
  <2> QED
    BY <2>2
<1>2. g \in Seq(ToolNames)
  BY TakenTools
<1>3. MaxSteps = 3 /\ ProfileSteps \in Nat \ {0}
  BY PlanningAssumption DEF MaxSteps
<1> HIDE DEF M, g
<1>4. CASE HasProfile(i)
  <2> DEFINE wanted == Wanted(M)
  <2>1. s = ProfileChoice(M)
    BY <1>4 DEF Select, M
  <2>2. CASE wanted = {}
    <3>1. s = Prefix(M, ProfileSteps)
      BY <2>1, <2>2 DEF ProfileChoice, Wanted
    <3>2. Len(s) = IF ProfileSteps <= Len(M) THEN ProfileSteps ELSE Len(M)
      BY <1>1, <1>3, <3>1, PrefixOfSequence
    <3>3. s \in Seq(ToolNames)
      BY <1>1, <1>3, <3>1, PrefixOfSequence
    <3> QED
      BY <1>1, <1>3, <1>4, <3>2, <3>3
  <2>3. CASE wanted # {}
    <3> HIDE DEF wanted
    <3>1. /\ s \in Seq(ToolNames)
          /\ Len(s) = IF ProfileSteps <= Cardinality(wanted) THEN ProfileSteps ELSE Cardinality(wanted)
          /\ Cardinality(wanted) \in Nat /\ Cardinality(wanted) <= 8
      BY <1>1, <2>1, <2>3, ProfileChoiceInOrder DEF wanted
    <3> QED
      BY <1>3, <1>4, <3>1
  <2> QED
    BY <2>2, <2>3
<1>5. CASE ~ HasProfile(i) /\ QueryAnswersAll(i, M)
  <2>1. s = <<"waro.queries.run">>
    BY <1>5 DEF Select, M
  <2>2. "waro.queries.run" \in ToolNames
    BY <1>1, <1>5 DEF QueryAnswersAll, IsQuery, ToSet
  <2> QED
    BY <1>3, <1>5, <2>1, <2>2
<1>6. CASE ~ HasProfile(i) /\ ~ QueryAnswersAll(i, M)
  <2> DEFINE t == IF i.crossTool THEN g \o SecondDomain(M, g) ELSE g
  <2>1. s = Prefix(t, 3)
    BY <1>3, <1>6 DEF Select, M, g
  <2>2. SecondDomain(M, g) \in Seq(ToolNames)
    BY <1>1, SecondDomainType
  <2>3. t \in Seq(ToolNames)
    BY <1>2, <2>2
  <2> HIDE DEF t
  <2>4. s \in Seq(ToolNames) /\ Len(s) = IF 3 <= Len(t) THEN 3 ELSE Len(t)
    <3>1. Prefix(t, 3) \in Seq(ToolNames) /\ Len(Prefix(t, 3)) = IF 3 <= Len(t) THEN 3 ELSE Len(t)
      BY <2>3, PrefixOfSequence
    <3> QED
      BY <2>1, <3>1
  <2> QED
    BY <1>3, <1>6, <2>3, <2>4
<1> QED
  BY <1>4, <1>5, <1>6

\* The matches, as far as most steps need them.
LEMMA MatchesType ==
  ASSUME NEW i, WellFormed(i)
  PROVE  /\ Matches(i) \in Seq(ToolNames)
         /\ \A k \in 1..Len(Matches(i)) : Matches(i)[k] \in AcceptedTools(i)
         /\ \A k, l \in 1..Len(Matches(i)) : Matches(i)[k] = Matches(i)[l] => k = l
         /\ \/ Len(Matches(i)) = 8
            \/ \A n \in AcceptedTools(i) : \E k \in 1..Len(Matches(i)) : Matches(i)[k] = n
<1> DEFINE M == Matches(i)
           A == AcceptedTools(i)
<1>1. M = Matches(i) /\ A = AcceptedTools(i)
  OBVIOUS
<1> HIDE DEF M, A
<1>2. /\ M \in Seq(ToolNames)
      /\ Len(M) = IF Cardinality(A) <= 8 THEN Cardinality(A) ELSE 8
      /\ Cardinality(A) \in Nat
      /\ \A k \in 1..Len(M) : M[k] \in A
      /\ \A k, l \in 1..Len(M) : M[k] = M[l] => k = l
      /\ Cardinality(A) <= 8 => \A n \in A : \E k \in 1..Len(M) : M[k] = n
  BY <1>1, RankedMatches
<1>3. \/ Len(M) = 8
      \/ \A n \in A : \E k \in 1..Len(M) : M[k] = n
  BY <1>2
<1> QED
  BY <1>2, <1>3 DEF M, A

\* A plan that misses coverage misses what no choice of the matches covers.
LEMMA CoverageIsNotLost ==
  ASSUME NEW i, WellFormed(i), BuildToolPlan(i).reason = "missing_coverage",
         NEW tools \in SUBSET ToSet(Matches(i)), Required(i) \subseteq CoverageOf(i, tools)
  PROVE  FALSE
<1> DEFINE M == Matches(i)
           chosen == Select(i, M)
           g == Greedy(i, M)
<1>1. ~ (Required(i) \subseteq CoverageOf(i, ToSet(chosen)))
  BY DEF BuildToolPlan, Plan
<1>2. /\ M \in Seq(ToolNames) /\ g \in Seq(ToolNames)
      /\ \/ Complete(i, g)
         \/ \A k \in 1..Len(M) : Coverage(i, M[k]) \subseteq CoverageOf(i, ToSet(g))
  BY MatchesType, TakenTools
<1>3. i.entity # "business"
  BY <1>1 DEF Required
<1>4. Len(g) <= 3
  BY <1>3, GreedyTakesThree
<1>5. ~ HasProfile(i)
  BY <1>3 DEF HasProfile
<1>6. ~ QueryAnswersAll(i, M)
  <2> SUFFICES ASSUME QueryAnswersAll(i, M) PROVE FALSE
    OBVIOUS
  <2>1. chosen = <<"waro.queries.run">>
    BY <1>5 DEF Select
  <2>2. Required(i) \subseteq Coverage(i, "waro.queries.run")
    BY DEF QueryAnswersAll, IsQuery
  <2>3. "waro.queries.run" \in ToSet(chosen)
    BY <2>1 DEF ToSet
  <2> QED
    BY <1>1, <2>2, <2>3, CoverageOfMore
<1> DEFINE t == IF i.crossTool THEN g \o SecondDomain(M, g) ELSE g
<1>7. chosen = Prefix(t, 3)
  BY <1>5, <1>6 DEF Select, MaxSteps
<1> HIDE DEF M, chosen, g
<1>8. t \in Seq(ToolNames) /\ Len(g) <= Len(t) /\ \A k \in 1..Len(g) : t[k] = g[k]
  <2>1. SecondDomain(M, g) \in Seq(ToolNames)
    BY <1>2, SecondDomainType
  <2> QED
    BY <1>2, <2>1
<1> HIDE DEF t
<1>9. \A k \in 1..Len(g) : g[k] \in ToSet(chosen)
  <2> TAKE k \in 1..Len(g)
  <2>1. /\ chosen \in Seq(ToolNames)
        /\ Len(chosen) = IF 3 <= Len(t) THEN 3 ELSE Len(t)
        /\ \A j \in 1..Len(chosen) : chosen[j] = t[j]
    BY <1>7, <1>8, PrefixOfSequence
  <2>2. k \in 1..Len(chosen) /\ chosen[k] = g[k]
    BY <1>2, <1>4, <1>8, <2>1
  <2> QED
    BY <2>1, <2>2 DEF ToSet
<1>10. CoverageOf(i, ToSet(g)) \subseteq CoverageOf(i, ToSet(chosen))
  <2>1. ToSet(g) \subseteq ToSet(chosen)
    BY <1>2, <1>9 DEF ToSet
  <2> QED
    BY <2>1, CoverageGrows
<1>11. CASE Complete(i, g)
  BY <1>1, <1>10, <1>11 DEF Complete
<1>12. CASE \A k \in 1..Len(M) : Coverage(i, M[k]) \subseteq CoverageOf(i, ToSet(g))
  <2>1. \A n \in tools : Coverage(i, n) \subseteq CoverageOf(i, ToSet(g))
    BY <1>2, <1>12 DEF ToSet, M
  <2>2. CoverageOf(i, tools) \subseteq CoverageOf(i, ToSet(g))
    BY <2>1 DEF CoverageOf
  <2> QED
    BY <1>1, <1>10, <2>2
<1> QED
  BY <1>2, <1>11, <1>12

\* The domains of a sequence of tools are those of its elements.
LEMMA FiniteDomains ==
  ASSUME NEW s \in Seq(ToolNames)
  PROVE  /\ DomainsOf(ToSet(s)) = {Catalog[s[k]].domain : k \in 1..Len(s)}
         /\ IsFiniteSet(DomainsOf(ToSet(s))) /\ Cardinality(DomainsOf(ToSet(s))) \in Nat
<1> DEFINE f == [k \in 1..Len(s) |-> Catalog[s[k]].domain]
<1>1. DomainsOf(ToSet(s)) = {Catalog[s[k]].domain : k \in 1..Len(s)}
  BY DEF DomainsOf, ToSet
<1>2. DomainsOf(ToSet(s)) = {f[k] : k \in 1..Len(s)}
  BY <1>1
<1>3. DOMAIN f = 1..Len(s) /\ Len(s) \in Nat
  OBVIOUS
<1> HIDE DEF f
<1>4. IsFiniteSet({f[k] : k \in 1..Len(s)})
  BY <1>3, NumbersEnumerate
<1> QED
  BY <1>1, <1>2, <1>4, FS_CardinalityType

\* Steps over one domain only are all of that domain.
LEMMA OneDomain ==
  ASSUME NEW s \in Seq(ToolNames), ~ (Cardinality(DomainsOf(ToSet(s))) >= 2)
  PROVE  \A a, b \in 1..Len(s) : Catalog[s[a]].domain = Catalog[s[b]].domain
<1> SUFFICES ASSUME NEW a \in 1..Len(s), NEW b \in 1..Len(s), Catalog[s[a]].domain # Catalog[s[b]].domain
             PROVE  FALSE
  OBVIOUS
<1> DEFINE D == DomainsOf(ToSet(s))
           x == Catalog[s[a]].domain
           y == Catalog[s[b]].domain
           S == {x}
<1>1. IsFiniteSet(D) /\ Cardinality(D) \in Nat /\ x \in D /\ y \in D /\ x # y /\ ~ (Cardinality(D) >= 2)
  BY FiniteDomains
<1>2. IsFiniteSet(S) /\ Cardinality(S) = 1 /\ S \subseteq D /\ S # D
  BY <1>1, SmallCounts
<1> HIDE DEF D, S, x, y
<1>3. Cardinality(S) + 1 <= Cardinality(D)
  BY <1>1, <1>2, CountsGrow
<1> QED
  BY <1>1, <1>2, <1>3

\* Tools of several domains are not all of one.
LEMMA SeveralDomains ==
  ASSUME NEW s \in Seq(ToolNames), s # <<>>, Cardinality(DomainsOf(ToSet(s))) # 1, NEW d
  PROVE  \E k \in 1..Len(s) : Catalog[s[k]].domain # d
<1> SUFFICES ASSUME \A k \in 1..Len(s) : Catalog[s[k]].domain = d PROVE FALSE
  OBVIOUS
<1>1. 1 \in 1..Len(s)
  OBVIOUS
<1>2. DomainsOf(ToSet(s)) = {d}
  BY <1>1, FiniteDomains
<1> QED
  BY <1>2, SmallCounts

\* The domain of each tool.
LEMMA DomainOfTool ==
  ASSUME NEW n \in ToolNames
  PROVE  /\ n = "waro.analytics.food_cost" => Catalog[n].domain = "food_cost"
         /\ n \in {"waro.menu.products", "waro.menu.recipes"} => Catalog[n].domain = "menu"
         /\ n \in {"waro.analytics.menu", "waro.analytics.cohort", "waro.analytics.waros"} => Catalog[n].domain = "analytics"
         /\ n \in {"waro.customers.list", "waro.customers.metrics"} => Catalog[n].domain = "customers"
         /\ n \in {"waro.sales.list", "waro.sales.metrics"} => Catalog[n].domain = "sales"
         /\ n = "waro.financial.products" => Catalog[n].domain = "financial"
         /\ n = "waro.queries.run" => Catalog[n].domain = "queries"
         /\ n \in StaticNames \cup {"waro.analytics.cohort", "waro.analytics.waros", "waro.queries.run"}
  BY CatalogEntries, CliEntries, CliNames DEF Tool

\* Only one domain has three tools.
LEMMA ThreeOfOneDomain ==
  ASSUME NEW x \in ToolNames, NEW y \in ToolNames, NEW z \in ToolNames, x # y, x # z, y # z,
         Catalog[x].domain = Catalog[y].domain, Catalog[x].domain = Catalog[z].domain
  PROVE  {x, y, z} = {"waro.analytics.menu", "waro.analytics.cohort", "waro.analytics.waros"}
<1> DEFINE Analytics == {"waro.analytics.menu", "waro.analytics.cohort", "waro.analytics.waros"}
<1>1. ASSUME NEW n \in ToolNames
      PROVE  \/ n \in Analytics /\ Catalog[n].domain = "analytics"
             \/ n = "waro.analytics.food_cost" /\ Catalog[n].domain = "food_cost"
             \/ n \in {"waro.menu.products", "waro.menu.recipes"} /\ Catalog[n].domain = "menu"
             \/ n \in {"waro.customers.list", "waro.customers.metrics"} /\ Catalog[n].domain = "customers"
             \/ n \in {"waro.sales.list", "waro.sales.metrics"} /\ Catalog[n].domain = "sales"
             \/ n = "waro.financial.products" /\ Catalog[n].domain = "financial"
             \/ n = "waro.queries.run" /\ Catalog[n].domain = "queries"
  BY DomainOfTool DEF StaticNames
<1>2. x \in Analytics /\ y \in Analytics /\ z \in Analytics
  BY <1>1
<1> QED
  BY <1>2

-----------------------------------------------------------------------------
(* Two domains, without a profile.                                         *)

\* Of a business question about sales, the greedy pass never takes the three tools of one domain.
LEMMA AnalyticsAreNotAllTaken ==
  ASSUME NEW i, WellFormed(i), i.entity = "business", i.measures \subseteq SalesMeasures,
         i.operations \subseteq SalesOperations, "compare" \notin i.operations,
         NEW g, g = Greedy(i, Matches(i)),
         {"waro.analytics.menu", "waro.analytics.cohort", "waro.analytics.waros"} \subseteq ToSet(g)
  PROVE  FALSE
<1> DEFINE menu == "waro.analytics.menu"
           Others == {"waro.analytics.cohort", "waro.analytics.waros"}
<1>1. \A n \in Others \cup {menu} : \E a \in 1..Len(g) : g[a] = n
  BY TakenTools DEF ToSet
<1>2. \A n \in Others \cup {menu} : n \in AcceptedTools(i) /\ n \in ToolNames
  BY <1>1, TakenTools DEF AcceptedTools
<1>3. ASSUME NEW m \in Others \cup {menu}, NEW n \in Others \cup {menu}, m # n, Coverage(i, n) \subseteq Coverage(i, m)
      PROVE  Before(i, n, m)
  <2>1. PICK a \in 1..Len(g) : g[a] = n
    BY <1>1
  <2>2. ~ Before(i, m, n)
    BY <1>2, <1>3, <2>1, TakenTools
  <2> QED
    BY <1>2, <1>3, <2>2, OneIsAhead
<1>4. /\ Catalog[menu].entity = "product" /\ \A n \in Others : Catalog[n].entity \in {"customer", "loyalty_transaction"}
      /\ Catalog[menu].grain = "product_period"
      /\ \A n \in Others : Catalog[n].grain \in {"cohort_period", "period_or_customer"}
      /\ Catalog[menu].measures = {"total_sales", "revenue", "margin", "performance"}
      /\ \A n \in Others : Catalog[n].measures \cap SalesMeasures = {}
      /\ \A n \in Others : \E d : Catalog[n].dimensions \cap DimensionNames \subseteq {d}
      /\ {"rank", "filter", "group"} \subseteq Catalog[menu].operations
  <2>1. "waro.analytics.cohort" \in ExtraTools /\ "waro.analytics.waros" \in ExtraTools
    BY <1>2, CliNames
  <2>2. /\ Catalog["waro.analytics.cohort"] =
             Tool("analytics", "customer", "cohort_period", {"cohort_size", "retention_pct"},
                  {"cohort", "cohort_date"}, {"aggregate", "summarize", "compare"})
        /\ Catalog["waro.analytics.waros"] =
             Tool("analytics", "loyalty_transaction", "period_or_customer",
                  {"total_issued", "total_redeemed", "redemption_rate_pct"},
                  {"customer", "period"}, {"aggregate", "group", "rank", "summarize"})
    BY <2>1, CliEntries
  <2>3. {"cohort", "cohort_date"} \cap DimensionNames \subseteq {"cohort"}
        /\ {"customer", "period"} \cap DimensionNames \subseteq {"customer"}
    BY DEF DimensionNames
  <2> QED
    BY <2>2, <2>3, CatalogEntries DEF Tool, SalesMeasures, Listing
<1>5. \A n \in Others \cup {menu} : ~ IsQuery(n) /\ SupportsPeriod(n)
  BY DEF IsQuery, SupportsPeriod
<1>6. \A n \in Others : MeasureHits(i, n) = {}
  BY <1>4, <1>5, PlainHits
<1>7. MeasureHits(i, menu) = i.measures \cap {"total_sales", "revenue", "margin"}
  BY <1>4, <1>5, PlainHits DEF SalesMeasures
<1>8. \A n \in Others \cup {menu} :
        Coverage(i, n) = Measured(MeasureHits(i, n)) \cup {<<"entity", i.entity>>}
                           \cup (IF GrainCompatible(i, n) THEN {<<"grain", i.grain>>} ELSE {})
  <2> TAKE n \in Others \cup {menu}
  <2>1. i.entity # Catalog[n].entity
    BY <1>4
  <2> QED
    BY <1>5, <2>1 DEF Coverage
<1>9. Measured({}) = {}
  BY DEF Measured
<1>10. PICK c \in Others, d \in Others : c # d /\ Before(i, c, d)
  BY <1>2, OneIsAhead
<1>11. ~ GrainCompatible(i, c) /\ GrainCompatible(i, d)
  <2>1. ~ (Coverage(i, d) \subseteq Coverage(i, c))
    BY <1>1, <1>2, <1>10, TakenTools
  <2> QED
    BY <1>6, <1>8, <1>9, <2>1
<1>12. Before(i, c, menu) /\ c # menu /\ d # menu
  <2>1. Coverage(i, c) \subseteq Coverage(i, menu)
    BY <1>6, <1>8, <1>9, <1>11
  <2> QED
    BY <1>3, <2>1
<1>13. MeasureHits(i, menu) # {}
  <2> SUFFICES ASSUME MeasureHits(i, menu) = {} PROVE FALSE
    OBVIOUS
  <2>1. CASE GrainCompatible(i, menu)
    <3>1. Coverage(i, menu) = Coverage(i, d)
      BY <1>6, <1>8, <1>11, <2>1
    <3>2. PICK a \in 1..Len(g), b \in 1..Len(g) : g[a] = menu /\ g[b] = d
      BY <1>1
    <3>3. ~ Before(i, d, menu) /\ ~ Before(i, menu, d)
      BY <1>2, <3>1, <3>2, TakenTools
    <3> QED
      BY <1>2, <1>12, <3>3, OneIsAhead
  <2>2. CASE ~ GrainCompatible(i, menu)
    <3>1. Coverage(i, menu) = Coverage(i, c)
      BY <1>6, <1>8, <1>11, <2>2
    <3>2. PICK a \in 1..Len(g) : g[a] = menu
      BY <1>1
    <3> QED
      BY <1>2, <1>12, <3>1, <3>2, TakenTools
  <2> QED
    BY <2>1, <2>2
<1>14. HitCount(i, c) = 0 /\ 1 <= HitCount(i, menu)
  <2> DEFINE S == MeasureHits(i, menu)
             T == {}
  <2>1. IsFiniteSet(S) /\ T \subseteq S /\ T # S /\ Cardinality(T) = 0
    BY <1>13, Hits, SmallCounts
  <2>2. HitCount(i, c) = 0 /\ HitCount(i, menu) = Cardinality(S)
    BY <1>6, SmallCounts DEF HitCount
  <2> HIDE DEF S, T
  <2>3. Cardinality(T) + 1 <= Cardinality(S)
    BY <2>1, CountsGrow
  <2> QED
    BY <2>1, <2>2, <2>3
<1>15. DimensionCount(i, c) <= 1
  <2>1. PICK x : Catalog[c].dimensions \cap DimensionNames \subseteq {x}
    BY <1>4
  <2>2. i.dimensions \cap Catalog[c].dimensions \subseteq {x}
    BY <2>1 DEF WellFormed
  <2> QED
    BY <2>2, SmallCounts, CountsGrow DEF DimensionCount
<1>16. OperationCount(i, c) <= OperationCount(i, menu) + 1
  <2> DEFINE S == i.operations \cap Catalog[menu].operations
  <2>1. i.operations \cap Catalog[c].operations \subseteq S \cup {"aggregate"}
    BY <1>4 DEF SalesOperations
  <2>2. IsFiniteSet(S) /\ Cardinality(S) \in Nat /\ OperationCount(i, menu) = Cardinality(S)
    BY Hits DEF OperationCount
  <2> HIDE DEF S
  <2>3. IsFiniteSet(S \cup {"aggregate"}) /\ Cardinality(S \cup {"aggregate"}) \in {Cardinality(S), Cardinality(S) + 1}
    BY <2>2, FS_AddElement
  <2>4. OperationCount(i, c) <= Cardinality(S \cup {"aggregate"}) /\ OperationCount(i, c) \in Nat
    BY <2>1, <2>3, CountsGrow DEF OperationCount
  <2> QED
    BY <2>2, <2>3, <2>4
<1>17. Score(i, menu) > Score(i, c)
  <2> DEFINE pm == Points(GrainCompatible(i, menu), 5)
             pn == Points(GrainCompatible(i, c), 5)
             hm == HitCount(i, menu)
             hn == HitCount(i, c)
             dm == DimensionCount(i, menu)
             dn == DimensionCount(i, c)
             om == OperationCount(i, menu)
             on == OperationCount(i, c)
             sm == Score(i, menu)
             sn == Score(i, c)
  <2>1. /\ sm - sn = (pm - pn) + 4 * (hm - hn) + 2 * (dm - dn) + (om - on)
        /\ pm \in {0, 5} /\ pn \in {0, 5} /\ hm \in Nat /\ hn \in Nat /\ dm \in Nat /\ dn \in Nat /\ om \in Nat /\ on \in Nat
        /\ sm \in Nat /\ sn \in Nat
    BY <1>5, ScoreGap
  <2>2. hn = 0 /\ 1 <= hm /\ dn <= 1 /\ on <= om + 1 /\ pn = 0
    BY <1>11, <1>14, <1>15, <1>16 DEF Points
  <2> HIDE DEF pm, pn, hm, hn, dm, dn, om, on, sm, sn
  <2>3. sm > sn /\ sm \in Nat /\ sn \in Nat
    BY <2>1, <2>2
  <2> QED
    BY <2>3 DEF sm, sn
<1>18. Score(i, menu) \in Nat /\ Score(i, c) \in Nat
  BY ScoreType
<1> QED
  BY <1>12, <1>17, <1>18 DEF Before

\* A question that needs two tools and is no profile is planned over two domains when two have a match.
LEMMA GreedyDomains ==
  ASSUME NEW i, WellFormed(i), i.entity = "business" => OfBusiness(i),
         i.crossTool, ~ HasProfile(i), ~ QueryAnswersAll(i, Matches(i)),
         NEW s, s = Select(i, Matches(i)), Matches(i) # <<>>,
         Cardinality(DomainsOf(ToSet(Matches(i)))) # 1
  PROVE  Cardinality(DomainsOf(ToSet(s))) >= 2
<1> DEFINE M == Matches(i)
           g == Greedy(i, M)
           second == SecondDomain(M, g)
<1>1. s = Prefix(g \o second, 3)
  BY DEF Select, MaxSteps
<1>2. /\ M \in Seq(ToolNames) /\ g \in Seq(ToolNames) /\ g # <<>> /\ second \in Seq(ToolNames)
      /\ \A a, b \in 1..Len(g) : g[a] = g[b] => a = b
      /\ \A a \in 1..Len(g) : g[a] \in AcceptedTools(i)
  <2>1. M \in Seq(ToolNames)
    BY MatchesType
  <2>2. g \in Seq(ToolNames) /\ g # <<>> /\ \A a, b \in 1..Len(g) : g[a] = g[b] => a = b
    BY TakenTools
  <2>3. \A a \in 1..Len(g) : g[a] \in AcceptedTools(i)
    BY TakenTools
  <2>4. second \in Seq(ToolNames)
    BY <2>1, SecondDomainType
  <2> QED
    BY <2>1, <2>2, <2>3, <2>4
<1>3. {"waro.analytics.menu", "waro.analytics.cohort", "waro.analytics.waros"} \subseteq ToSet(g) => FALSE
  <2> SUFFICES ASSUME {"waro.analytics.menu", "waro.analytics.cohort", "waro.analytics.waros"} \subseteq ToSet(g)
               PROVE  FALSE
    OBVIOUS
  <2>1. CASE i.entity = "business"
    <3>1. i.measures \subseteq SalesMeasures /\ i.operations \subseteq SalesOperations /\ "compare" \notin i.operations
      BY <2>1 DEF OfBusiness, HasProfile
    <3> QED
      BY <2>1, <3>1, AnalyticsAreNotAllTaken
  <2>2. CASE i.entity # "business"
    <3>1. "waro.analytics.menu" \in AcceptedTools(i) /\ "waro.analytics.waros" \in AcceptedTools(i)
      BY <1>2 DEF ToSet
    <3>2. i.entity = "product"
      BY <2>2, <3>1, ToolsOfEntity DEF WellFormed, Entities
    <3> QED
      BY <3>1, <3>2, ToolsOfEntity
  <2> QED
    BY <2>1, <2>2
<1> SUFFICES ASSUME ~ (Cardinality(DomainsOf(ToSet(s))) >= 2) PROVE FALSE
  OBVIOUS
<1> HIDE DEF M, g, second
<1> DEFINE t == g \o second
<1>4. /\ t \in Seq(ToolNames) /\ Len(t) = Len(g) + Len(second)
      /\ \A k \in 1..Len(g) : t[k] = g[k]
      /\ \A k \in 1..Len(second) : t[Len(g) + k] = second[k]
  BY <1>2
<1>10. s = Prefix(t, 3)
  BY <1>1 DEF M, g, second
<1> HIDE DEF t
<1>5. /\ s \in Seq(ToolNames)
      /\ Len(s) = IF 3 <= Len(t) THEN 3 ELSE Len(t)
      /\ \A j \in 1..Len(s) : s[j] = t[j]
  <2>1. t \in Seq(ToolNames) /\ 3 \in Nat
    BY <1>4
  <2>2. /\ Prefix(t, 3) \in Seq(ToolNames)
        /\ Len(Prefix(t, 3)) = IF 3 <= Len(t) THEN 3 ELSE Len(t)
        /\ \A k \in 1..Len(Prefix(t, 3)) : Prefix(t, 3)[k] = t[k]
    BY <2>1, PrefixOfSequence
  <2> QED
    BY <1>10, <2>2
<1>6. \A a, b \in 1..Len(s) : Catalog[s[a]].domain = Catalog[s[b]].domain
  BY <1>5, OneDomain
<1>7. Len(g) \in Nat /\ Len(second) \in Nat /\ Len(g) >= 1
  BY <1>2
<1>8. CASE Len(g) >= 3
  <2>1. /\ 1 \in 1..Len(s) /\ 2 \in 1..Len(s) /\ 3 \in 1..Len(s)
        /\ 1 \in 1..Len(g) /\ 2 \in 1..Len(g) /\ 3 \in 1..Len(g)
    BY <1>4, <1>5, <1>7, <1>8
  <2>2. s[1] = g[1] /\ s[2] = g[2] /\ s[3] = g[3]
    BY <1>4, <1>5, <2>1
  <2>3. /\ g[1] \in ToolNames /\ g[2] \in ToolNames /\ g[3] \in ToolNames
        /\ g[1] # g[2] /\ g[1] # g[3] /\ g[2] # g[3]
    BY <1>2, <2>1
  <2>4. Catalog[g[1]].domain = Catalog[g[2]].domain /\ Catalog[g[1]].domain = Catalog[g[3]].domain
    BY <1>6, <2>1, <2>2
  <2>5. {g[1], g[2], g[3]} = {"waro.analytics.menu", "waro.analytics.cohort", "waro.analytics.waros"}
    BY <2>3, <2>4, ThreeOfOneDomain
  <2>6. {g[1], g[2], g[3]} \subseteq ToSet(g)
    BY <1>2, <2>1 DEF ToSet
  <2> QED
    BY <1>3, <2>5, <2>6
<1>9. CASE Len(g) < 3
  <2> DEFINE d == Catalog[g[1]].domain
             others == {k \in DOMAIN M : Catalog[M[k]].domain \notin DomainsOf(ToSet(g))}
  <2>1. \A k \in 1..Len(g) : k \in 1..Len(s) /\ s[k] = g[k]
    BY <1>4, <1>5, <1>7, <1>9
  <2>2. \A k \in 1..Len(g) : Catalog[g[k]].domain = d
    BY <1>6, <1>7, <2>1
  <2>3. DomainsOf(ToSet(g)) = {d}
    BY <1>2, <1>7, <2>2, FiniteDomains
  <2>4. PICK k \in 1..Len(M) : Catalog[M[k]].domain # d
    BY <1>2, SeveralDomains DEF M
  <2>5. others # {}
    BY <1>2, <2>3, <2>4
  <2>6. PICK j \in others : second = <<M[j]>>
    BY <1>2, <2>5, SecondDomainType DEF second
  <2>7. Len(second) = 1 /\ second[1] = M[j] /\ Catalog[M[j]].domain # d
    BY <2>3, <2>6
  <2>8. Len(g) + 1 \in 1..Len(s) /\ s[Len(g) + 1] = M[j] /\ 1 \in 1..Len(s) /\ s[1] = g[1]
    BY <1>4, <1>5, <1>7, <1>9, <2>1, <2>7
  <2> QED
    BY <1>6, <2>7, <2>8
<1> QED
  BY <1>7, <1>8, <1>9

-----------------------------------------------------------------------------
(* Two domains, by the priorities of the profile.                          *)

\* What a sequence is made of.
LEMMA ElementsOfSequence ==
  ASSUME NEW S, NEW s \in Seq(S)
  PROVE  DOMAIN s = 1..Len(s) /\ \A j \in 1..Len(s) : s[j] \in S
OBVIOUS

\* A question about the business has matching tools of two of its domains.
LEMMA BusinessTools ==
  ASSUME NEW i, i.entity = "business", OfBusiness(i), HasProfile(i)
  PROVE  /\ "waro.sales.metrics" \in AcceptedTools(i)
         /\ \E n \in {"waro.analytics.menu", "waro.customers.list", "waro.financial.products"} : n \in AcceptedTools(i)
<1> DEFINE names == {"waro.sales.metrics", "waro.analytics.menu", "waro.customers.list", "waro.financial.products"}
<1>1. \A n \in names : n \in ToolNames /\ ~ IsQuery(n)
  BY NamesOfTools DEF StaticNames, IsQuery
<1>2. \A n \in names : Catalog[n].entity \in {"sale", "product", "customer"} /\ Catalog[n].grain # "order"
  BY CatalogEntries DEF Tool
<1>3. \A n \in names : EntityCompatible(i, n)
  BY <1>2 DEF EntityCompatible
<1>4. ASSUME NEW n \in names, MeasureHits(i, n) # {} \/ i.operations \cap Catalog[n].operations # {}
      PROVE  n \in AcceptedTools(i)
  <2>1. Accepted(i, n)
    BY <1>1, <1>2, <1>3, <1>4 DEF Accepted
  <2> QED
    BY <1>1, <2>1 DEF AcceptedTools
<1>5. "rank" \in i.operations \/ (i.measures # {} /\ i.measures \subseteq SalesMeasures /\ "compare" \in i.operations)
  BY DEF OfBusiness, HasProfile, SalesOperations
<1>6. "waro.sales.metrics" \in AcceptedTools(i)
  <2>1. {"rank", "compare"} \subseteq Catalog["waro.sales.metrics"].operations
    BY CatalogEntries DEF Tool
  <2> QED
    BY <1>4, <1>5, <2>1
<1>7. CASE "rank" \in i.operations
  <2>1. "rank" \in Catalog["waro.analytics.menu"].operations
    BY CatalogEntries DEF Tool, Listing
  <2> QED
    BY <1>4, <1>6, <1>7, <2>1
<1>8. CASE i.measures # {} /\ i.measures \subseteq SalesMeasures
  <2>1. PICK m \in i.measures : m \in SalesMeasures
    BY <1>8
  <2>2. /\ {"total_sales", "revenue", "margin"} \subseteq Catalog["waro.analytics.menu"].measures
        /\ {"avg_ticket", "order_count"} \subseteq Catalog["waro.customers.list"].measures
        /\ {"quantity_sold", "cost"} \subseteq Catalog["waro.financial.products"].measures
    BY CatalogEntries DEF Tool, CustomerMeasures
  <2>3. \E n \in {"waro.analytics.menu", "waro.customers.list", "waro.financial.products"} : m \in Catalog[n].measures
    BY <2>1, <2>2 DEF SalesMeasures
  <2>4. PICK n \in {"waro.analytics.menu", "waro.customers.list", "waro.financial.products"} : m \in Catalog[n].measures
    BY <2>3
  <2>5. MeasureHits(i, n) # {}
    BY <1>1, <2>1, <2>4, PlainHits
  <2> QED
    BY <1>4, <1>6, <2>5
<1> QED
  BY <1>5, <1>6, <1>7, <1>8

\* The domains of the priorities, in their order.
LEMMA PriorityDomains ==
  /\ DOMAIN BusinessPriorities = 1..8
  /\ BusinessPriorities[1] = "waro.sales.metrics" /\ BusinessPriorities[2] = "waro.financial.products"
  /\ BusinessPriorities[3] = "waro.analytics.food_cost" /\ BusinessPriorities[4] = "waro.analytics.menu"
  /\ BusinessPriorities[5] = "waro.customers.list" /\ BusinessPriorities[6] = "waro.customers.metrics"
  /\ BusinessPriorities[7] = "waro.analytics.cohort" /\ BusinessPriorities[8] = "waro.analytics.waros"
BY DEF BusinessPriorities

\* Of eight tools for a question about the business, the priorities are of two domains.
LEMMA EightTools ==
  ASSUME NEW i, i.entity = "business", NEW M \in Seq(ToolNames), Len(M) = 8,
         \A k \in 1..Len(M) : M[k] \in AcceptedTools(i), \A k, l \in 1..Len(M) : M[k] = M[l] => k = l, NEW d
  PROVE  \E k \in 1..8 : BusinessPriorities[k] \in ToSet(M) /\ Catalog[BusinessPriorities[k]].domain # d
<1> SUFFICES ASSUME \A k \in 1..8 : BusinessPriorities[k] \in ToSet(M) => Catalog[BusinessPriorities[k]].domain = d
             PROVE  FALSE
  OBVIOUS
<1> DEFINE Others == {"waro.menu.products", "waro.sales.list", "waro.queries.run"}
           Priorities == {BusinessPriorities[k] : k \in 1..8}
           Own == {n \in Priorities : n \in ToSet(M)}
<1>13. DOMAIN M = 1..Len(M) /\ \A j \in 1..Len(M) : M[j] \in ToolNames
  BY ElementsOfSequence
<1>1. Priorities = {"waro.sales.metrics", "waro.financial.products", "waro.analytics.food_cost", "waro.analytics.menu",
                    "waro.customers.list", "waro.customers.metrics", "waro.analytics.cohort", "waro.analytics.waros"}
  <2>1. 1..8 = {1, 2, 3, 4, 5, 6, 7, 8}
    OBVIOUS
  <2> QED
    BY <2>1, PriorityDomains
<1>2. \A n \in Own : n \in ToolNames /\ Catalog[n].domain = d
  <2> SUFFICES ASSUME NEW n \in Own PROVE n \in ToolNames /\ Catalog[n].domain = d
    OBVIOUS
  <2>1. PICK k \in 1..8 : n = BusinessPriorities[k]
    OBVIOUS
  <2>2. n \in ToSet(M)
    OBVIOUS
  <2>3. n \in ToolNames
    <3> HIDE DEF Own, Priorities, Others
    <3>1. PICK l \in DOMAIN M : n = M[l]
      BY <2>2 DEF ToSet
    <3> QED
      BY <1>13, <3>1
  <2>4. Catalog[n].domain = d
    BY <2>1, <2>2
  <2> QED
    BY <2>3, <2>4
<1>3. \E a, b, c : Own \subseteq {a, b, c}
  <2>1. \A n \in Own : \/ n \in {"waro.analytics.menu", "waro.analytics.cohort", "waro.analytics.waros"} /\ d = "analytics"
                       \/ n \in {"waro.customers.list", "waro.customers.metrics"} /\ d = "customers"
                       \/ n = "waro.sales.metrics" /\ d = "sales"
                       \/ n = "waro.financial.products" /\ d = "financial"
                       \/ n = "waro.analytics.food_cost" /\ d = "food_cost"
    <3> SUFFICES ASSUME NEW n \in Own
                 PROVE  \/ n \in {"waro.analytics.menu", "waro.analytics.cohort", "waro.analytics.waros"} /\ d = "analytics"
                        \/ n \in {"waro.customers.list", "waro.customers.metrics"} /\ d = "customers"
                        \/ n = "waro.sales.metrics" /\ d = "sales"
                        \/ n = "waro.financial.products" /\ d = "financial"
                        \/ n = "waro.analytics.food_cost" /\ d = "food_cost"
      OBVIOUS
    <3>1. n \in ToolNames /\ Catalog[n].domain = d
      BY <1>2
    <3>2. n \in Priorities
      OBVIOUS
    <3> HIDE DEF Own, Priorities
    <3>3. /\ n = "waro.analytics.food_cost" => d = "food_cost"
          /\ n \in {"waro.analytics.menu", "waro.analytics.cohort", "waro.analytics.waros"} => d = "analytics"
          /\ n \in {"waro.customers.list", "waro.customers.metrics"} => d = "customers"
          /\ n = "waro.sales.metrics" => d = "sales"
          /\ n = "waro.financial.products" => d = "financial"
      BY <3>1, DomainOfTool
    <3> QED
      BY <1>1, <3>2, <3>3
  <2>2. CASE d = "analytics"
    BY <2>1, <2>2
  <2>3. CASE d = "customers"
    <3>1. Own \subseteq {"waro.customers.list", "waro.customers.metrics", "waro.customers.metrics"}
      BY <2>1, <2>3
    <3> QED
      BY <3>1
  <2>4. CASE d \notin {"analytics", "customers"}
    <3>1. \A m, n \in Own : m = n
      BY <2>1, <2>4
    <3>2. CASE Own = {}
      BY <3>2
    <3>3. CASE Own # {}
      <4>1. PICK n \in Own : TRUE
        BY <3>3
      <4>2. Own \subseteq {n, n, n}
        BY <3>1, <4>1
      <4> QED
        BY <4>2
    <3> QED
      BY <3>2, <3>3
  <2> QED
    BY <2>2, <2>3, <2>4
<1>4. PICK a, b, c : Own \subseteq {a, b, c}
  BY <1>3
<1>5. \A k \in 1..Len(M) : M[k] \in Others \cup Own
  <2> TAKE k \in 1..Len(M)
  <2>1. M[k] \in ToolNames /\ EntityCompatible(i, M[k]) /\ M[k] \in ToSet(M)
    BY DEF AcceptedTools, Accepted, ToSet
  <2>2. M[k] # "waro.menu.recipes"
    <3>1. ~ EntityCompatible(i, "waro.menu.recipes")
      BY CatalogEntries DEF EntityCompatible, Tool, IsQuery
    <3> QED
      BY <2>1, <3>1
  <2>3. M[k] \in StaticNames \cup {"waro.analytics.cohort", "waro.analytics.waros", "waro.queries.run"}
    BY <2>1, DomainOfTool
  <2>4. M[k] \in Others \cup Priorities
    BY <1>1, <2>2, <2>3 DEF StaticNames
  <2> QED
    BY <2>1, <2>4
<1>6. IsFiniteSet(Others) /\ Cardinality(Others) <= 3 /\ Cardinality(Others) \in Nat
  BY SmallCounts
<1> DEFINE T == {a, b, c}
<1>7. IsFiniteSet(T) /\ Cardinality(T) <= 3 /\ Cardinality(T) \in Nat /\ Own \subseteq T
  BY <1>4, SmallCounts
<1> HIDE DEF Others, Own, T
<1>8. IsFiniteSet(Others \cup T) /\ Cardinality(Others \cup T) \in Nat
      /\ Cardinality(Others \cup T) <= Cardinality(Others) + Cardinality(T)
  <2>1. /\ IsFiniteSet(Others \cup T) /\ IsFiniteSet(Others \cap T)
        /\ Cardinality(Others \cup T) = Cardinality(Others) + Cardinality(T) - Cardinality(Others \cap T)
    BY <1>6, <1>7, FS_Union, FS_Intersection
  <2>2. Cardinality(Others \cup T) \in Nat /\ Cardinality(Others \cap T) \in Nat
    BY <2>1, FS_CardinalityType
  <2> QED
    BY <1>6, <1>7, <2>1, <2>2
<1>9. M \in Seq(Others \cup T)
  <2>1. M = [k \in 1..Len(M) |-> M[k]] /\ Len(M) \in Nat
    OBVIOUS
  <2>2. \A k \in 1..Len(M) : M[k] \in Others \cup T
    BY <1>5, <1>7
  <2>3. M \in [1..Len(M) -> Others \cup T]
    BY <2>1, <2>2
  <2> DEFINE U == Others \cup T
  <2>4. M \in [1..Len(M) -> U] /\ Len(M) \in Nat
    BY <2>1, <2>3
  <2>5. M \in Seq(U)
    <3> HIDE DEF U
    <3>1. Seq(U) = UNION {[1..n -> U] : n \in Nat}
      BY SeqDef
    <3> QED
      BY <2>4, <3>1
  <2> QED
    BY <2>5
<1> DEFINE S == Others \cup T
<1>10. IsFiniteSet(S) /\ M \in Seq(S)
  BY <1>8, <1>9
<1> HIDE DEF S
<1>11. Len(M) <= Cardinality(S)
  BY <1>10, NoLongerThan
<1> QED
  BY <1>6, <1>7, <1>8, <1>11 DEF S

\* The domain of a priority, and what it is for those a plan can hold.
PriorityDomain(x) == Catalog[BusinessPriorities[x]].domain

AsListed(x) ==
  /\ x = 1 => PriorityDomain(x) = "sales"
  /\ x = 2 => PriorityDomain(x) = "financial"
  /\ x = 3 => PriorityDomain(x) = "food_cost"
  /\ x \in {4, 7} => PriorityDomain(x) = "analytics"
  /\ x \in {5, 6} => PriorityDomain(x) = "customers"

\* No three of the first seven priorities are of one domain.
LEMMA NotThree ==
  ASSUME NEW x \in 1..8, NEW y \in 1..8, NEW z \in 1..7, x < y, y < z, AsListed(x), AsListed(y), AsListed(z)
  PROVE  ~ (PriorityDomain(x) = PriorityDomain(y) /\ PriorityDomain(y) = PriorityDomain(z))
<1>1. x \in {1, 2, 3, 4, 5} /\ y \in {2, 3, 4, 5, 6} /\ z \in {3, 4, 5, 6, 7}
  OBVIOUS
<1>2. CASE y # 6
  BY <1>1, <1>2 DEF AsListed
<1>3. CASE y = 6
  BY <1>1, <1>3 DEF AsListed
<1> QED
  BY <1>2, <1>3

\* The profile of a question about the business chooses two domains.
LEMMA ProfileDomains ==
  ASSUME NEW i, WellFormed(i), i.entity = "business", OfBusiness(i), HasProfile(i), ProfileSteps >= 3,
         NEW s, s = Select(i, Matches(i))
  PROVE  Cardinality(DomainsOf(ToSet(s))) >= 2
<1> DEFINE M == Matches(i)
           wanted == Wanted(M)
<1>1. s = ProfileChoice(M)
  BY DEF Select
<1>2. /\ M \in Seq(ToolNames)
      /\ \A k \in 1..Len(M) : M[k] \in AcceptedTools(i)
      /\ \A k, l \in 1..Len(M) : M[k] = M[l] => k = l
      /\ Len(M) = 8 \/ \A n \in AcceptedTools(i) : n \in ToSet(M)
  <2>1. \A n : (\E k \in 1..Len(M) : M[k] = n) => n \in ToSet(M)
    BY MatchesType DEF ToSet
  <2> QED
    BY <2>1, MatchesType
<1> HIDE DEF M
<1>3. \A d : \E k \in wanted : Catalog[BusinessPriorities[k]].domain # d
  <2> TAKE d
  <2>1. CASE Len(M) = 8
    <3>1. \E k \in 1..8 : BusinessPriorities[k] \in ToSet(M) /\ Catalog[BusinessPriorities[k]].domain # d
      BY <1>2, <2>1, EightTools
    <3> QED
      BY <3>1, PriorityDomains DEF Wanted
  <2>2. CASE \A n \in AcceptedTools(i) : n \in ToSet(M)
    <3>1. PICK n \in {"waro.analytics.menu", "waro.customers.list", "waro.financial.products"} : n \in AcceptedTools(i)
      BY BusinessTools
    <3>2. "waro.sales.metrics" \in ToSet(M) /\ n \in ToSet(M)
      BY <2>2, <3>1, BusinessTools
    <3>3. "waro.sales.metrics" \in ToolNames /\ n \in ToolNames
      BY NamesOfTools DEF StaticNames
    <3>4. Catalog["waro.sales.metrics"].domain = "sales" /\ Catalog[n].domain \in {"analytics", "customers", "financial"}
      BY <3>3, DomainOfTool
    <3>5. 1 \in wanted /\ \E k \in wanted : BusinessPriorities[k] = n
      BY <3>2, PriorityDomains DEF Wanted
    <3>6. PICK k \in wanted : BusinessPriorities[k] = n
      BY <3>5
    <3> QED
      BY <3>4, <3>5, <3>6, PriorityDomains
  <2> QED
    BY <1>2, <2>1, <2>2
<1>4. wanted # {} /\ wanted \subseteq 1..8
  BY <1>3, PriorityDomains DEF Wanted
<1> DEFINE W == wanted
<1>5. W = Wanted(M) /\ W # {} /\ W \subseteq 1..8
  BY <1>4
<1>6. \A d : \E k \in W : Catalog[BusinessPriorities[k]].domain # d
  BY <1>3
<1> HIDE DEF wanted, W
<1>7. /\ s \in Seq(ToolNames)
      /\ \E w \in [1..Len(s) -> W] :
           /\ \A j \in 1..Len(s) : s[j] = BusinessPriorities[w[j]]
           /\ \A j, k \in 1..Len(s) : j < k => w[j] < w[k]
           /\ \A v \in W : (\E j \in 1..Len(s) : w[j] = v)
                             \/ (Len(s) = ProfileSteps /\ \A j \in 1..Len(s) : w[j] < v)
  <2>1. M \in Seq(ToolNames)
    BY <1>2
  <2> QED
    BY <1>1, <1>5, <2>1, ProfileChoiceInOrder
<1>8. PICK w \in [1..Len(s) -> W] :
           /\ \A j \in 1..Len(s) : s[j] = BusinessPriorities[w[j]]
           /\ \A j, k \in 1..Len(s) : j < k => w[j] < w[k]
           /\ \A v \in W : (\E j \in 1..Len(s) : w[j] = v)
                             \/ (Len(s) = ProfileSteps /\ \A j \in 1..Len(s) : w[j] < v)
  BY <1>7
<1> SUFFICES ASSUME ~ (Cardinality(DomainsOf(ToSet(s))) >= 2) PROVE FALSE
  OBVIOUS
<1>9. \A a, b \in 1..Len(s) : Catalog[s[a]].domain = Catalog[s[b]].domain
  BY <1>7, OneDomain
<1>10. PICK v \in W : ~ \E j \in 1..Len(s) : w[j] = v
  <2>1. SUFFICES ASSUME \A v \in W : \E j \in 1..Len(s) : w[j] = v PROVE FALSE
    OBVIOUS
  <2>2. PICK v \in W : TRUE
    BY <1>5
  <2>3. PICK u \in W : Catalog[BusinessPriorities[u]].domain # Catalog[BusinessPriorities[v]].domain
    BY <1>6
  <2>4. PICK j \in 1..Len(s) : w[j] = v
    BY <2>1
  <2>5. PICK k \in 1..Len(s) : w[k] = u
    BY <2>1
  <2> QED
    BY <1>8, <1>9, <2>3, <2>4, <2>5
<1>11. Len(s) = ProfileSteps /\ \A j \in 1..Len(s) : w[j] < v
  BY <1>8, <1>10
<1>12. 1 \in 1..Len(s) /\ 2 \in 1..Len(s) /\ 3 \in 1..Len(s)
  BY <1>7, <1>11, PlanningAssumption
<1>13. /\ w[1] \in 1..8 /\ w[2] \in 1..8 /\ w[3] \in 1..8 /\ v \in 1..8
       /\ w[1] < w[2] /\ w[2] < w[3] /\ w[3] < v
  BY <1>5, <1>8, <1>11, <1>12
<1>14. /\ Catalog[BusinessPriorities[w[1]]].domain = Catalog[BusinessPriorities[w[2]]].domain
       /\ Catalog[BusinessPriorities[w[2]]].domain = Catalog[BusinessPriorities[w[3]]].domain
  BY <1>8, <1>9, <1>12
<1>15. w[1] \in 1..5 /\ w[2] \in 2..6 /\ w[3] \in 3..7
  BY <1>13
<1>16. \A x \in W : AsListed(x)
  <2> TAKE x \in W
  <2>1. BusinessPriorities[x] \in ToolNames
    BY <1>2, <1>5 DEF ToSet, Wanted
  <2> DEFINE n == BusinessPriorities[x]
  <2>2. /\ n = "waro.sales.metrics" => Catalog[n].domain = "sales"
        /\ n = "waro.financial.products" => Catalog[n].domain = "financial"
        /\ n = "waro.analytics.food_cost" => Catalog[n].domain = "food_cost"
        /\ n \in {"waro.analytics.menu", "waro.analytics.cohort"} => Catalog[n].domain = "analytics"
        /\ n \in {"waro.customers.list", "waro.customers.metrics"} => Catalog[n].domain = "customers"
    BY <2>1, DomainOfTool
  <2> QED
    BY <2>2, PriorityDomains DEF AsListed, PriorityDomain
<1>17. w[1] \in W /\ w[2] \in W /\ w[3] \in W
  BY <1>8, <1>12
<1>18. ~ (Catalog[BusinessPriorities[w[1]]].domain = Catalog[BusinessPriorities[w[2]]].domain
            /\ Catalog[BusinessPriorities[w[2]]].domain = Catalog[BusinessPriorities[w[3]]].domain)
  <2>1. AsListed(w[1]) /\ AsListed(w[2]) /\ AsListed(w[3])
    BY <1>16, <1>17
  <2>2. w[1] \in 1..8 /\ w[2] \in 1..8 /\ w[3] \in 1..7 /\ w[1] < w[2] /\ w[2] < w[3]
    BY <1>13, <1>15
  <2> QED
    BY <2>1, <2>2, NotThree DEF PriorityDomain
<1> QED
  BY <1>14, <1>18

-----------------------------------------------------------------------------
(* Plans, contexts and metadata.                                           *)

\* A plan has no more steps than its kind of question may have.
LEMMA PlanType ==
  ASSUME NEW i, WellFormed(i), NEW p, p = BuildToolPlan(i)
  PROVE  /\ p.steps \in Seq(ToolNames) /\ Len(p.steps) <= 8
         /\ Len(p.steps) <= IF HasProfile(i) THEN ProfileSteps ELSE MaxSteps
<1>1. p.steps = <<>> \/ p.steps = Select(i, Matches(i))
  BY DEF BuildToolPlan, Plan
<1>2. CASE p.steps = <<>>
  BY <1>2, PlanningAssumption DEF MaxSteps
<1>3. CASE p.steps = Select(i, Matches(i))
  <2> DEFINE s == p.steps
  <2>1. s = Select(i, Matches(i))
    BY <1>3
  <2> HIDE DEF s
  <2>2. /\ s \in Seq(ToolNames) /\ Len(s) <= 8
        /\ Len(s) <= IF HasProfile(i) THEN ProfileSteps ELSE MaxSteps
    BY <2>1, SelectType
  <2> QED
    BY <2>2 DEF s
<1> QED
  BY <1>1, <1>2, <1>3

\* Whatever is selected, by profile, query, greedy pass or second domain, matches the intent.
LEMMA SelectedMatch ==
  ASSUME NEW i, WellFormed(i), NEW s, s = Select(i, Matches(i)), NEW k \in DOMAIN s
  PROVE  s[k] \in AcceptedTools(i)
<1> DEFINE M == Matches(i)
           g == Greedy(i, M)
           A == AcceptedTools(i)
<1>1. /\ M \in Seq(ToolNames) /\ \A j \in 1..Len(M) : M[j] \in A
      /\ g \in Seq(ToolNames) /\ \A j \in 1..Len(g) : g[j] \in A
  BY MatchesType, TakenTools
<1>2. ToSet(M) \subseteq A
  BY <1>1 DEF ToSet
<1>3. ProfileSteps \in Nat
  BY PlanningAssumption
<1> HIDE DEF M, g, A
<1>4. CASE HasProfile(i)
  <2> DEFINE wanted == Wanted(M)
  <2>1. s = ProfileChoice(M)
    BY <1>4 DEF Select, M
  <2>2. CASE wanted = {}
    <3>1. s = Prefix(M, ProfileSteps)
      BY <2>1, <2>2 DEF ProfileChoice, Wanted
    <3>2. k \in 1..Len(s) /\ k \in 1..Len(M) /\ s[k] = M[k]
      BY <1>1, <1>3, <3>1, PrefixOfSequence
    <3> QED
      BY <1>1, <3>2 DEF A
  <2>3. CASE wanted # {}
    <3> HIDE DEF wanted
    <3>0. wanted = Wanted(M)
      BY DEF wanted
    <3>1. /\ s \in Seq(ToolNames)
          /\ \E w \in [1..Len(s) -> wanted] :
               /\ \A j \in 1..Len(s) : s[j] = BusinessPriorities[w[j]]
               /\ \A j, l \in 1..Len(s) : j < l => w[j] < w[l]
               /\ \A v \in wanted : (\E j \in 1..Len(s) : w[j] = v)
                                      \/ (Len(s) = ProfileSteps /\ \A j \in 1..Len(s) : w[j] < v)
      <4>1. M \in Seq(ToolNames)
        BY <1>1
      <4> QED
        BY <2>1, <2>3, <3>0, <4>1, ProfileChoiceInOrder
    <3>2. \E v \in wanted : s[k] = BusinessPriorities[v]
      BY <3>1
    <3> QED
      BY <1>2, <3>2 DEF wanted, Wanted, A
  <2> QED
    BY <2>2, <2>3
<1>5. CASE ~ HasProfile(i) /\ QueryAnswersAll(i, M)
  <2>1. s = <<"waro.queries.run">>
    BY <1>5 DEF Select, M
  <2>2. "waro.queries.run" \in ToSet(M)
    BY <1>5 DEF QueryAnswersAll, IsQuery
  <2> QED
    BY <1>2, <2>1, <2>2 DEF A
<1>6. CASE ~ HasProfile(i) /\ ~ QueryAnswersAll(i, M)
  <2> DEFINE others == {j \in DOMAIN M : Catalog[M[j]].domain \notin DomainsOf(ToSet(g))}
             second == SecondDomain(M, g)
             t == IF i.crossTool THEN g \o second ELSE g
  <2>1. s = Prefix(t, 3)
    BY <1>6 DEF Select, M, g, MaxSteps
  <2>2. second \in Seq(ToolNames) /\ \A j \in DOMAIN second : second[j] \in A
    <3>1. second \in Seq(ToolNames) /\ (others # {} => \E j \in others : second = <<M[j]>>)
      BY <1>1, SecondDomainType
    <3>2. others = {} => second = <<>>
      BY DEF SecondDomain
    <3>3. \A j \in others : M[j] \in A
      BY <1>1
    <3> HIDE DEF others, second
    <3> QED
      BY <3>1, <3>2, <3>3
  <2> HIDE DEF second
  <2>3. t \in Seq(ToolNames) /\ \A j \in DOMAIN t : t[j] \in A
    <3>1. \A j \in DOMAIN (g \o second) : (g \o second)[j] \in A
      <4> TAKE j \in DOMAIN (g \o second)
      <4>1. j \in 1..(Len(g) + Len(second)) /\ Len(g) \in Nat /\ Len(second) \in Nat
        BY <1>1, <2>2
      <4>2. CASE j <= Len(g)
        BY <1>1, <2>2, <4>1, <4>2
      <4>3. CASE j > Len(g)
        BY <1>1, <2>2, <4>1, <4>3
      <4> QED
        BY <4>1, <4>2, <4>3
    <3>2. g \o second \in Seq(ToolNames)
      BY <1>1, <2>2
    <3> QED
      BY <1>1, <3>1, <3>2
  <2> HIDE DEF t
  <2>4. k \in 1..Len(t) /\ s[k] = t[k]
    BY <2>1, <2>3, PrefixOfSequence
  <2> QED
    BY <2>3, <2>4 DEF A
<1> QED
  BY <1>4, <1>5, <1>6

\* So every step of a plan is a tool that matches the intent.
LEMMA PlannedMatch ==
  ASSUME NEW i, WellFormed(i), NEW k \in DOMAIN BuildToolPlan(i).steps
  PROVE  BuildToolPlan(i).steps[k] \in AcceptedTools(i)
<1> DEFINE s == Select(i, Matches(i))
<1>1. BuildToolPlan(i).steps = s
  BY DEF BuildToolPlan, Plan
<1> HIDE DEF s
<1>2. \A j \in DOMAIN s : s[j] \in AcceptedTools(i)
  BY SelectedMatch DEF s
<1> QED
  BY <1>1, <1>2

\* A plan for a question that needs two domains has two, if it has a step and the
\* ranking has two domains.
LEMMA PlanDomains ==
  ASSUME NEW i, WellFormed(i), i.entity = "business" => OfBusiness(i), ProfileSteps >= 3, i.crossTool,
         BuildToolPlan(i).steps # <<>>, ~ QueryAnswersAll(i, Matches(i)),
         Cardinality(DomainsOf(ToSet(Matches(i)))) # 1
  PROVE  Cardinality(DomainsOf(ToSet(BuildToolPlan(i).steps))) >= 2
<1> DEFINE s == Select(i, Matches(i))
<1>1. BuildToolPlan(i).steps = s /\ Matches(i) # <<>>
  BY DEF BuildToolPlan, Plan
<1>2. s = Select(i, Matches(i))
  OBVIOUS
<1> HIDE DEF s
<1>3. CASE HasProfile(i)
  <2>1. i.entity = "business" /\ OfBusiness(i)
    BY <1>3 DEF HasProfile
  <2>2. Cardinality(DomainsOf(ToSet(s))) >= 2
    BY <1>2, <1>3, <2>1, ProfileDomains
  <2> QED
    BY <1>1, <2>2
<1>4. CASE ~ HasProfile(i)
  <2>1. Cardinality(DomainsOf(ToSet(s))) >= 2
    BY <1>1, <1>2, <1>4, GreedyDomains
  <2> QED
    BY <1>1, <2>1
<1> QED
  BY <1>3, <1>4

\* There are finitely many rows.
LEMMA FiniteRows == IsFiniteSet(Rows)
<1> DEFINE S == (Kinds \X {"id", "name", "none"}) \X Items
           T == (1..Turns) \X (1..8)
           f == [x \in S \X T |-> [kind |-> x[1][1][1], by |-> x[1][1][2], item |-> x[1][2],
                                   turn |-> x[2][1], step |-> x[2][2]]]
<1>1. IsFiniteSet(Kinds)
  <2> DEFINE k == <<"product", "customer", "order", "sale", "loyalty", "cohort">>
  <2>1. DOMAIN k = 1..6
    OBVIOUS
  <2>2. Kinds = {k[j] : j \in 1..6}
    BY DEF Kinds
  <2> HIDE DEF k
  <2>3. IsFiniteSet({k[j] : j \in 1..6})
    BY <2>1, NumbersEnumerate
  <2> QED
    BY <2>2, <2>3
<1>2. IsFiniteSet(1..Turns) /\ IsFiniteSet(1..8)
  <2>1. 1 \in Int /\ 8 \in Int /\ Turns \in Int
    BY LoopAssumption
  <2> QED
    BY <2>1, FS_Interval
<1>3. IsFiniteSet(S) /\ IsFiniteSet(T)
  <2> DEFINE names == <<"id", "name", "none">>
  <2>1. DOMAIN names = 1..3
    OBVIOUS
  <2>2. {"id", "name", "none"} = {names[j] : j \in 1..3}
    OBVIOUS
  <2> HIDE DEF names
  <2>3. IsFiniteSet({names[j] : j \in 1..3})
    BY <2>1, NumbersEnumerate
  <2>4. IsFiniteSet({"id", "name", "none"})
    BY <2>2, <2>3
  <2>5. IsFiniteSet(Kinds \X {"id", "name", "none"})
    BY <1>1, <2>4, FS_Product
  <2>6. IsFiniteSet(S)
    BY <2>5, LoopAssumption, FS_Product
  <2> QED
    BY <1>2, <2>6, FS_Product
<1>4. IsFiniteSet(S \X T)
  BY <1>3, FS_Product
<1>5. f \in [S \X T -> Rows]
  BY DEF Rows
<1>6. ASSUME NEW r \in Rows PROVE \E x \in S \X T : f[x] = r
  <2> DEFINE x == << << <<r.kind, r.by>>, r.item >>, <<r.turn, r.step>> >>
  <2>1. x \in S \X T
    BY DEF Rows
  <2>2. f[x] = r
    BY <2>1 DEF Rows
  <2> QED
    BY <2>1, <2>2
<1>7. f \in Surjection(S \X T, Rows)
  BY <1>5, <1>6 DEF Surjection
<1> HIDE DEF f
<1> QED
  BY <1>4, <1>7, FS_Surjection

\* The rows of the context are some of the artifact's, no more than the cap.
LEMMA CappedRows ==
  ASSUME NEW A \in SUBSET Rows, NEW R \in Capped(A)
  PROVE  R \subseteq A /\ Cardinality(R) <= RowCap
<1> DEFINE n == Cardinality(A)
           T == {RowCap, n}
<1>1. n \in Nat
  BY FiniteRows, FS_Subset, FS_CardinalityType
<1>2. T \in SUBSET Nat /\ T # {}
  BY <1>1, LoopAssumption
<1>3. R \subseteq A /\ Cardinality(R) = Min(T)
  BY DEF Capped
<1> HIDE DEF n
<1>4. RowCap \in T
  OBVIOUS
<1> HIDE DEF T
<1>5. Min(T) <= RowCap
  BY <1>2, <1>4, MinOfNumbers
<1> QED
  BY <1>3, <1>5

\* The datasets of QuerySpecs.
Datasets == {"customers", "product_profitability", "sales_items"}

\* What a question finds of the last artifact.
LEMMA ContextType ==
  ASSUME NEW a, a.rows \in SUBSET Rows, a.datasets \in Seq(Datasets), a.stored => WellFormed(a.intent),
         NEW R \in Capped(a.rows), NEW ctx, ctx = StateFrom(a, R)
  PROVE  /\ WellFormedContext(ctx)
         /\ ctx.rows \subseteq a.rows /\ Cardinality(ctx.rows) <= RowCap
         /\ ctx.datasets \in Seq(Datasets) /\ Len(ctx.datasets) <= MetadataCap
<1>1. CASE ~ a.stored \/ a.meta
  <2>1. ctx = NoContext
    BY <1>1 DEF StateFrom
  <2>2. Cardinality({}) <= RowCap
    BY SmallCounts, LoopAssumption
  <2> QED
    BY <2>1, <2>2 DEF NoContext, WellFormedContext, MetadataCap
<1>2. CASE a.stored /\ ~ a.meta
  <2>1. /\ ctx.entity = a.intent.entity /\ ctx.grain = a.intent.grain
        /\ ctx.measures = a.intent.measures /\ ctx.dimensions = a.intent.dimensions
        /\ ctx.rows = R /\ ctx.datasets = Prefix(a.datasets, MetadataCap)
    BY <1>2 DEF StateFrom
  <2>2. WellFormedContext(ctx)
    BY <1>2, <2>1 DEF WellFormed, WellFormedContext
  <2>3. MetadataCap \in Nat /\ Len(a.datasets) \in Nat
    BY DEF MetadataCap
  <2>4. /\ Prefix(a.datasets, MetadataCap) \in Seq(Datasets)
        /\ Len(Prefix(a.datasets, MetadataCap)) = IF MetadataCap <= Len(a.datasets) THEN MetadataCap ELSE Len(a.datasets)
    BY <2>3, PrefixOfSequence
  <2> QED
    BY <2>1, <2>2, <2>3, <2>4, CappedRows
<1> QED
  BY <1>1, <1>2

\* The metadata of an answer name its datasets.
LEMMA MetadataType ==
  ASSUME NEW O, obs \in Seq(O), context.datasets \in Seq(Datasets)
  PROVE  Metadata \in Seq(Datasets)
<1> DEFINE old == IF PreviousTable THEN Prefix(context.datasets, 1) ELSE <<>>
           S == {j \in DOMAIN obs : IsQuery(plan.steps[j])}
           new == [k \in 1..Cardinality(S) |-> DatasetFor(intent)]
<1>1. old \in Seq(Datasets)
  <2>1. Prefix(context.datasets, 1) \in Seq(Datasets)
    BY PrefixOfSequence
  <2> QED
    BY <2>1
<1>2. Cardinality(S) \in Nat
  <2>1. DOMAIN obs = 1..Len(obs) /\ Len(obs) \in Nat
    OBVIOUS
  <2>2. IsFiniteSet(1..Len(obs)) /\ S \in SUBSET (1..Len(obs))
    BY <2>1, FS_Interval
  <2> HIDE DEF S
  <2>3. IsFiniteSet(S)
    BY <2>2, FS_Subset
  <2> QED
    BY <2>3, FS_CardinalityType
<1>3. DatasetFor(intent) \in Datasets
  BY DEF DatasetFor, Datasets
<1> HIDE DEF S
<1>4. new \in Seq(Datasets)
  BY <1>2, <1>3
<1> HIDE DEF old, new
<1>5. Metadata = old \o new
  BY DEF Metadata, old, new, S
<1> QED
  BY <1>1, <1>4, <1>5

-----------------------------------------------------------------------------
(* The inductive invariant.                                                *)

Observations == [status : Statuses, rows : SUBSET Rows]

\* A run under way has a question and no outcome; one that is over has left the loop.
Places ==
  /\ turn \in 0..Turns
  /\ pc \in {"ready", "executing"}
  /\ outcome \in {"none", "answered", "failed"}
  /\ turn > 0 => question \in Questions[turn]
  /\ pc = "executing" => outcome = "none" /\ turn > 0

\* No plan is longer than its kind of question allows, no step is observed that is not
\* planned, and the context is within its caps.
Sized ==
  /\ plan.steps \in Seq(ToolNames) /\ Len(plan.steps) <= 8
  /\ Len(plan.steps) <= (IF HasProfile(intent) THEN ProfileSteps ELSE MaxSteps)
  /\ Len(obs) <= Len(plan.steps)
  /\ artifact.datasets \in Seq(Datasets)
  /\ context.datasets \in Seq(Datasets) /\ Len(context.datasets) <= MetadataCap
  /\ context.rows \in SUBSET Rows /\ Cardinality(context.rows) <= RowCap

\* The intents of a run and of the artifact are ones that a question and a context lead to.
Understood ==
  /\ artifact.stored => WellFormed(artifact.intent)
  /\ pc = "executing" =>
       /\ WellFormed(intent)
       /\ talk.policy # "reuse_only" /\ intent.entity = "business" => OfBusiness(intent) /\ intent.crossTool

\* Merging reuses the last artifact; a plan that calls tools on their own does not.
Agreed ==
  /\ talk.policy = "merge" => talk.reuse
  /\ talk.policy \in {"auto", "run_tools"} => ~ talk.reuse

\* What is being executed is the plan of the intent, or no tool at all.
Executing ==
  pc = "executing" =>
    /\ plan = IF talk.policy = "reuse_only" THEN ReusePlan ELSE BuildToolPlan(intent)
    /\ talk.policy = "reuse_only" => obs = <<>>

\* Every row of this turn's calls is of this turn; those of the last artifact are
\* older, and the context has no other rows than these.
Dated ==
  /\ obs \in Seq(Observations)
  /\ \A k \in DOMAIN obs : \A r \in obs[k].rows : r.turn = turn
  /\ artifact.rows \subseteq Rows
  /\ \A r \in artifact.rows : r.turn <= turn
  /\ pc = "executing" =>
       /\ context.rows \subseteq artifact.rows
       /\ \A r \in artifact.rows : r.turn < turn

Inv ==
  /\ Places /\ Agreed /\ Executing /\ Dated /\ Sized /\ Understood
  /\ SafeMeansData /\ StandaloneQuestionsPlanAlike

-----------------------------------------------------------------------------
(* Understanding a question.                                               *)

\* The conversation planner reuses the last artifact wherever it merges it, and
\* nowhere that it leaves the tools to themselves.
LEMMA PolicyAndReuse ==
  ASSUME NEW q, NEW i, NEW ctx
  PROVE  LET cp == PlanConversation(q, i, ctx)
         IN  /\ cp.policy = "merge" => cp.reuse
             /\ cp.policy \in {"auto", "run_tools"} => ~ cp.reuse
  BY DEF PlanConversation, ConversationPlan

\* A question that refers to nothing keeps the intent its own words give it, unless it
\* is planned as a diagnosis.
LEMMA OwnIntent ==
  ASSUME NEW q, SelfContained(q), NEW ctx,
         NEW heard, heard = Understand(q, ctx),
         NEW cp, cp = PlanConversation(q, heard, ctx), cp.type # "diagnosis"
  PROVE  Replanned(heard, cp, ctx) = HeuristicIntent(q) /\ cp.policy = "auto"
<1>1. heard = HeuristicIntent(q)
  BY DEF SelfContained, Understand, Contextualised
<1>2. cp = ConversationPlan(PlainType(heard.operations), "question", FALSE, "none", "auto")
  BY DEF SelfContained, PlanConversation
<1>3. PlainType(heard.operations) \in {"ranking", "comparison", "diagnosis", "metric_lookup"}
  BY DEF PlainType
<1>4. /\ cp.type \in {"ranking", "comparison", "metric_lookup"} /\ cp.subject = "question"
      /\ cp.preserve = "none" /\ cp.policy = "auto"
  BY <1>2, <1>3 DEF ConversationPlan
<1>5. Replanned(heard, cp, ctx) = heard
  BY <1>4 DEF Replanned
<1> QED
  BY <1>1, <1>4, <1>5

-----------------------------------------------------------------------------
(* The rows of an answer.                                                  *)

\* The kinds of rows are these, whatever the tool.
LEMMA KindsOfRows == \A n, i : KindOf(n, i) \in Kinds
  BY DEF KindOf, Kinds

\* And what they are named by is one of three.
LEMMA NamesOfRows == \A n, i : NamedBy(n, i) \in {"id", "name", "none"}
  BY DEF NamedBy

\* A tool that matches a question about products brings products that are named; one that
\* matches a question about customers brings customers, or cohorts.
LEMMA MatchesBring ==
  ASSUME NEW i, WellFormed(i), NEW n \in AcceptedTools(i)
  PROVE  /\ i.entity = "product" => KindOf(n, i) = "product" /\ NamedBy(n, i) # "none"
         /\ i.entity = "customer" => KindOf(n, i) = "customer" \/ n = "waro.analytics.cohort"
<1>1. n \in ToolNames /\ EntityCompatible(i, n)
  BY DEF AcceptedTools, Accepted
<1>2. CASE n = "waro.queries.run"
  <2>1. i.entity = "product" => "product" \in SpecDimensions(i) /\ DatasetFor(i) # "customers"
    BY DEF SpecDimensions, DatasetFor, DatasetDimensions
  <2>2. i.entity = "customer" => DatasetFor(i) = "customers"
    BY DEF DatasetFor
  <2> QED
    BY <1>2, <2>1, <2>2 DEF KindOf, NamedBy, IsQuery
<1>3. CASE n # "waro.queries.run"
  <2>1. i.entity = "product" => Catalog[n].entity = "product"
    BY <1>1, <1>3 DEF EntityCompatible, IsQuery
  <2>2. i.entity = "customer" => Catalog[n].entity = "customer"
    BY <1>1, <1>3 DEF EntityCompatible, IsQuery
  <2>3. Catalog[n].entity = "product" =>
          n \in {"waro.analytics.food_cost", "waro.menu.products", "waro.analytics.menu", "waro.financial.products"}
    BY <1>1, <1>3, CatalogEntries, CliEntries, CliNames DEF StaticNames, Tool
  <2>4. Catalog[n].entity = "customer" =>
          n \in {"waro.customers.list", "waro.customers.metrics", "waro.analytics.cohort"}
    BY <1>1, <1>3, CatalogEntries, CliEntries, CliNames DEF StaticNames, Tool
  <2>5. n \in {"waro.analytics.food_cost", "waro.menu.products", "waro.analytics.menu", "waro.financial.products"} =>
          KindOf(n, i) = "product"
    BY DEF KindOf, IsQuery
  <2>6. n \in {"waro.customers.list", "waro.customers.metrics"} => KindOf(n, i) = "customer"
    BY DEF KindOf, IsQuery
  <2>7. KindOf(n, i) = "product" => NamedBy(n, i) # "none"
    BY DEF NamedBy
  <2> QED
    BY <2>1, <2>2, <2>3, <2>4, <2>5, <2>6, <2>7
<1> QED
  BY <1>2, <1>3

\* Ranking adds no row.
LEMMA RankingAddsNothing == \A R : RankedRows(R) \subseteq R
  BY DEF RankedRows, MergedProducts

-----------------------------------------------------------------------------
(* The invariant is inductive.                                             *)

\* A conversation begins within the invariant.
LEMMA InitInv == Init => Inv
<1> SUFFICES ASSUME Init PROVE Inv
  OBVIOUS
<1>1. Places /\ Agreed /\ Executing
  BY LoopAssumption DEF Init, Places, Agreed, Executing, NoTalk, ConversationPlan
<1>2. Dated
  BY DEF Init, Dated, NoArtifact
<1>4. Sized
  <2>1. Cardinality({}) <= RowCap /\ 0 <= ProfileSteps
    BY SmallCounts, LoopAssumption, PlanningAssumption
  <2>2. /\ plan.steps = <<>> /\ obs = <<>> /\ artifact.datasets = <<>>
        /\ context.datasets = <<>> /\ context.rows = {}
    BY DEF Init, NoPlan, Plan, NoArtifact, NoContext
  <2> QED
    BY <2>1, <2>2 DEF Sized, MaxSteps, MetadataCap
<1>5. Understood
  BY DEF Init, Understood, NoArtifact
<1>3. SafeMeansData /\ StandaloneQuestionsPlanAlike
  BY DEF Init, SafeMeansData, Answered, StandaloneQuestionsPlanAlike, Planned
<1> QED
  BY <1>1, <1>2, <1>3, <1>4, <1>5 DEF Inv

\* A new question keeps the invariant.
LEMMA AskInv ==
  ASSUME Inv, NEW q \in AskedNext, Ask(q)
  PROVE  Inv'
<1>1. PICK R \in Capped(artifact.rows) :
        LET ctx   == StateFrom(artifact, R)
            heard == Understand(q, ctx)
            cp    == PlanConversation(q, heard, ctx)
            i     == Replanned(heard, cp, ctx)
            reuse == cp.policy = "reuse_only"
        IN  /\ question' = q /\ context' = ctx /\ intent' = i /\ talk' = cp
            /\ \/ pc' = "ready" /\ outcome' = "failed" /\ plan' = NoPlan
               \/ pc' = "executing" /\ outcome' = "none"
                  /\ plan' = (IF reuse THEN ReusePlan ELSE BuildToolPlan(i))
  BY DEF Ask
<1> DEFINE ctx   == StateFrom(artifact, R)
           heard == Understand(q, ctx)
           cp    == PlanConversation(q, heard, ctx)
<1>2. /\ question' = q /\ context' = ctx /\ talk' = cp /\ intent' = Replanned(heard, cp, ctx)
      /\ \/ pc' = "ready" /\ outcome' = "failed" /\ plan' = NoPlan
         \/ pc' = "executing" /\ outcome' = "none"
            /\ plan' = (IF cp.policy = "reuse_only" THEN ReusePlan ELSE BuildToolPlan(Replanned(heard, cp, ctx)))
  BY <1>1
<1>3. /\ WellFormedContext(ctx)
      /\ ctx.rows \subseteq artifact.rows /\ artifact.rows \subseteq Rows /\ Cardinality(ctx.rows) <= RowCap
      /\ ctx.datasets \in Seq(Datasets) /\ Len(ctx.datasets) <= MetadataCap
  <2>1. /\ artifact.rows \in SUBSET Rows /\ artifact.datasets \in Seq(Datasets)
        /\ artifact.stored => WellFormed(artifact.intent)
    BY DEF Inv, Dated, Sized, Understood
  <2>2. ctx = StateFrom(artifact, R)
    OBVIOUS
  <2> HIDE DEF ctx
  <2> QED
    BY <2>1, <2>2, ContextType
<1>4. (cp.policy = "merge" => cp.reuse) /\ (cp.policy \in {"auto", "run_tools"} => ~ cp.reuse)
  BY PolicyAndReuse
<1>5. /\ turn' = turn + 1 /\ obs' = <<>> /\ artifact' = artifact
      /\ turn \in Nat /\ turn + 1 \in 1..Turns /\ q \in Questions[turn + 1]
  BY LoopAssumption DEF Ask, AskedNext, Inv, Places
<1>12. /\ WellFormed(Replanned(heard, cp, ctx))
       /\ cp.policy # "reuse_only" /\ Replanned(heard, cp, ctx).entity = "business" =>
            OfBusiness(Replanned(heard, cp, ctx)) /\ Replanned(heard, cp, ctx).crossTool
  BY <1>3, PlannedIntents
<1>6. SelfContained(q) /\ cp.type # "diagnosis" =>
        Replanned(heard, cp, ctx) = HeuristicIntent(q) /\ cp.policy = "auto"
  BY OwnIntent
<1> HIDE DEF ctx, heard, cp
<1>7. Places' /\ Agreed' /\ Executing'
  BY <1>2, <1>4, <1>5 DEF Places, Agreed, Executing
<1>8. Dated'
  <2>1. \A r \in artifact.rows : r \in Rows /\ r.turn <= turn /\ r.turn \in Nat
    BY DEF Inv, Dated, Rows
  <2>2. \A r \in artifact.rows : r.turn < turn + 1 /\ r.turn <= turn + 1
    BY <1>5, <2>1
  <2> QED
    BY <1>2, <1>3, <1>5, <2>1, <2>2 DEF Dated
<1>9. SafeMeansData'
  BY <1>2 DEF SafeMeansData, Answered
<1>11. StandaloneQuestionsPlanAlike'
  <2> SUFFICES ASSUME pc' = "executing", SelfContained(question'), talk'.type # "diagnosis"
               PROVE  plan' = BuildToolPlan(HeuristicIntent(question'))
    BY DEF StandaloneQuestionsPlanAlike, Planned, SelfContained
  <2> QED
    BY <1>2, <1>6
<1>13. Sized'
  <2>1. /\ plan'.steps \in Seq(ToolNames) /\ Len(plan'.steps) <= 8
        /\ Len(plan'.steps) <= (IF HasProfile(intent') THEN ProfileSteps ELSE MaxSteps)
    <3> DEFINE i == Replanned(heard, cp, ctx)
    <3>1. WellFormed(i) /\ intent' = i
      BY <1>2, <1>12
    <3> HIDE DEF i
    <3>2. CASE plan' = BuildToolPlan(i)
      BY <3>1, <3>2, PlanType
    <3>3. CASE plan'.steps = <<>>
      BY <3>3, PlanningAssumption DEF MaxSteps
    <3> QED
      BY <1>2, <3>2, <3>3 DEF i, NoPlan, ReusePlan, Plan
  <2>2. Len(obs') = 0 /\ Len(plan'.steps) \in Nat
    BY <1>5, <2>1
  <2>3. artifact.datasets \in Seq(Datasets)
    BY DEF Inv, Sized
  <2>4. /\ context'.datasets \in Seq(Datasets) /\ Len(context'.datasets) <= MetadataCap
        /\ context'.rows \in SUBSET Rows /\ Cardinality(context'.rows) <= RowCap
    BY <1>2, <1>3
  <2> QED
    BY <1>5, <2>1, <2>2, <2>3, <2>4 DEF Sized, HasProfile, MaxSteps, MetadataCap
<1>14. Understood'
  BY <1>2, <1>5, <1>12 DEF Inv, Understood
<1> QED
  BY <1>7, <1>8, <1>9, <1>11, <1>13, <1>14 DEF Inv

\* So does a step of the plan.
LEMMA ExecuteInv ==
  ASSUME Inv, ExecuteStep
  PROVE  Inv'
<1>1. /\ pc = "executing" /\ plan.valid /\ NextStep <= Len(plan.steps)
      /\ UNCHANGED <<turn, pc, question, context, intent, talk, plan, artifact, outcome>>
  BY DEF ExecuteStep
<1>2. talk.policy # "reuse_only"
  BY <1>1 DEF Inv, Executing, ReusePlan, Plan, NextStep
<1>3. /\ outcome = "none" /\ turn \in 1..Turns /\ obs \in Seq(Observations)
      /\ Len(plan.steps) <= 8 /\ plan.steps \in Seq(ToolNames)
  BY <1>1, LoopAssumption DEF Inv, Places, Dated, Sized
<1>4. PICK o \in Observations : obs' = Append(obs, o) /\ \A r \in o.rows : r.turn = turn
  <2> DEFINE brought == RowsOf(plan.steps[NextStep], NextStep)
  <2>2. \E status \in Statuses, rows \in {{}, brought} : obs' = Append(obs, [status |-> status, rows |-> rows])
    BY DEF ExecuteStep, Observe, Statuses
  <2>3. NextStep \in 1..8
    BY <1>1, <1>3 DEF NextStep
  <2>4. brought \subseteq Rows /\ \A r \in brought : r.turn = turn
    BY <1>3, <2>3, KindsOfRows, NamesOfRows DEF Rows, RowsOf
  <2> HIDE DEF brought
  <2> QED
    BY <2>2, <2>4 DEF Observations
<1>5. obs' \in Seq(Observations) /\ \A k \in DOMAIN obs' : \A r \in obs'[k].rows : r.turn = turn
  <2>1. Len(obs') = Len(obs) + 1 /\ obs' \in Seq(Observations) /\ Len(obs) \in Nat
    BY <1>3, <1>4
  <2>2. \A k \in 1..Len(obs) : obs'[k] = obs[k] /\ k \in DOMAIN obs
    BY <1>3, <1>4
  <2>3. obs'[Len(obs) + 1] = o
    BY <1>3, <1>4
  <2>4. DOMAIN obs' = 1..Len(obs) + 1
    BY <2>1
  <2>5. \A k \in DOMAIN obs : \A r \in obs[k].rows : r.turn = turn
    BY DEF Inv, Dated
  <2> QED
    BY <1>4, <2>1, <2>2, <2>3, <2>4, <2>5
<1>6. Places' /\ Agreed' /\ Executing'
  BY <1>1, <1>2 DEF Inv, Places, Agreed, Executing
<1>7. Dated'
  BY <1>1, <1>5 DEF Inv, Dated
<1>8. SafeMeansData' /\ StandaloneQuestionsPlanAlike'
  BY <1>1, <1>3 DEF Inv, SafeMeansData, Answered, StandaloneQuestionsPlanAlike, Planned, SelfContained
<1>9. Sized'
  <2>1. Len(obs') = NextStep
    BY <1>3, <1>4 DEF NextStep
  <2>2. /\ plan' = plan /\ intent' = intent /\ artifact' = artifact /\ context' = context
        /\ Len(obs') <= Len(plan.steps)
    BY <1>1, <2>1
  <2> QED
    BY <2>2 DEF Inv, Sized, HasProfile, MaxSteps, MetadataCap
<1>10. Understood'
  BY <1>1 DEF Inv, Understood
<1> QED
  BY <1>6, <1>7, <1>8, <1>9, <1>10 DEF Inv

\* Every row at hand was brought by a call or is one of the last artifact.
LEMMA RowOfAll ==
  ASSUME NEW r \in AllRows
  PROVE  (\E k \in DOMAIN obs : r \in obs[k].rows) \/ (PreviousTable /\ r \in context.rows)
<1>1. r \in UNION {obs[k].rows : k \in DOMAIN obs} \/ r \in (IF PreviousTable THEN context.rows ELSE {})
  <2> DEFINE old == IF PreviousTable THEN context.rows ELSE {}
             new == UNION {obs[k].rows : k \in DOMAIN obs}
  <2>1. AllRows = new \cup old
    BY DEF AllRows
  <2> HIDE DEF old, new
  <2>2. r \in new \/ r \in old
    BY <2>1
  <2> QED
    BY <2>2 DEF new, old
<1>2. ASSUME r \in UNION {obs[k].rows : k \in DOMAIN obs} PROVE \E k \in DOMAIN obs : r \in obs[k].rows
  BY <1>2, Zenon
<1> QED
  BY <1>1, <1>2

\* Where the rows of an answer come from.
LEMMA AnswerRows ==
  ASSUME Inv, Answer
  PROVE  /\ artifact'.rows \subseteq AllRows /\ AllRows \subseteq Rows
         /\ \A r \in AllRows : r.turn = turn \/ (PreviousTable /\ r \in context.rows)
         /\ context.rows \subseteq artifact.rows
         /\ \A r \in artifact.rows : r.turn < turn /\ r.turn \in Nat
         /\ turn \in Nat
<1>1. artifact'.rows = RankedRows(AllRows) /\ pc = "executing"
  BY DEF Answer
<1>2. /\ context.rows \subseteq artifact.rows /\ artifact.rows \subseteq Rows /\ turn \in Nat
      /\ \A r \in artifact.rows : r.turn < turn /\ r.turn \in Nat
  BY <1>1, LoopAssumption DEF Inv, Dated, Places, Rows
<1>3. \A k \in DOMAIN obs : obs[k].rows \subseteq Rows /\ \A r \in obs[k].rows : r.turn = turn
  <2>1. obs \in Seq(Observations) /\ \A k \in DOMAIN obs : \A r \in obs[k].rows : r.turn = turn
    BY DEF Inv, Dated
  <2>2. \A k \in DOMAIN obs : obs[k] \in Observations
    BY <2>1
  <2>3. \A o \in Observations : o.rows \subseteq Rows
    BY DEF Observations
  <2> QED
    BY <2>1, <2>2, <2>3
<1>4. ASSUME NEW r \in AllRows PROVE r \in Rows /\ (r.turn = turn \/ (PreviousTable /\ r \in context.rows))
  BY <1>2, <1>3, RowOfAll
<1> QED
  BY <1>1, <1>2, <1>4, RankingAddsNothing

\* An answer keeps the invariant.
LEMMA AnswerInv ==
  ASSUME Inv, Answer
  PROVE  Inv'
<1>1. /\ pc = "executing" /\ pc' = "ready" /\ outcome' = "answered"
      /\ artifact' = [stored |-> TRUE, meta |-> IsMeta, intent |-> intent, rows |-> RankedRows(AllRows),
                      datasets |-> Metadata, answerability |-> Answerability]
      /\ UNCHANGED <<turn, question, context, intent, talk, plan, obs>>
  BY DEF Answer
<1>2. Places' /\ Agreed' /\ Executing'
  BY <1>1 DEF Inv, Places, Agreed, Executing
<1>3. Dated'
  <2>1. \A r \in artifact'.rows : r \in Rows /\ r.turn <= turn
    BY AnswerRows
  <2>2. obs \in Seq(Observations) /\ \A k \in DOMAIN obs : \A r \in obs[k].rows : r.turn = turn
    BY DEF Inv, Dated
  <2> QED
    BY <1>1, <2>1, <2>2 DEF Dated
<1>4. SafeMeansData'
  <2> SUFFICES ASSUME Answerability \in {"answerable", "partial"}, ~ IsMeta,
                      ~ \E k \in DOMAIN obs : obs[k].status = "succeeded"
               PROVE  talk.reuse /\ context.rows # {}
    BY <1>1 DEF SafeMeansData, Safe
  <2>1. Failed = DOMAIN obs
    BY DEF Failed
  <2>2. obs = <<>> /\ PreviousTable
    BY <2>1 DEF Answerability
  <2> QED
    BY <2>2 DEF PreviousTable, Inv, Agreed
<1>6. StandaloneQuestionsPlanAlike'
  BY <1>1 DEF StandaloneQuestionsPlanAlike, Planned
<1>7. Sized'
  <2>1. Metadata \in Seq(Datasets)
    <3>1. obs \in Seq(Observations) /\ context.datasets \in Seq(Datasets)
      BY DEF Inv, Dated, Sized
    <3> QED
      BY <3>1, MetadataType
  <2>2. /\ plan' = plan /\ intent' = intent /\ obs' = obs /\ context' = context
        /\ artifact'.datasets \in Seq(Datasets)
    BY <1>1, <2>1
  <2> QED
    BY <2>2 DEF Inv, Sized, HasProfile, MaxSteps, MetadataCap
<1>8. Understood'
  BY <1>1 DEF Inv, Understood
<1> QED
  BY <1>2, <1>3, <1>4, <1>6, <1>7, <1>8 DEF Inv

\* Every step keeps the invariant.
LEMMA StepInv == Inv /\ [Next]_vars => Inv'
<1> SUFFICES ASSUME Inv, [Next]_vars PROVE Inv'
  OBVIOUS
<1>1. CASE UNCHANGED vars
  <2>1. Sized'
    BY <1>1 DEF vars, Inv, Sized, HasProfile, MaxSteps, MetadataCap
  <2>2. (Places /\ Agreed /\ Executing /\ Dated /\ Understood)'
    BY <1>1 DEF vars, Inv, Places, Agreed, Executing, Dated, Understood
  <2>3. (SafeMeansData /\ StandaloneQuestionsPlanAlike)'
    BY <1>1 DEF vars, Inv, SafeMeansData, Answered, Safe, StandaloneQuestionsPlanAlike, Planned,
       SelfContained
  <2> QED
    BY <2>1, <2>2, <2>3 DEF Inv
<1>2. CASE StepRaises
  <2>1. /\ pc = "executing" /\ pc' = "ready" /\ outcome' = "failed"
        /\ UNCHANGED <<turn, question, context, intent, talk, plan, obs, artifact>>
    BY <1>2 DEF StepRaises
  <2>2. Places' /\ Agreed' /\ Executing'
    BY <2>1 DEF Inv, Places, Agreed, Executing
  <2>3. Dated'
    BY <2>1 DEF Inv, Dated
  <2>4. SafeMeansData' /\ StandaloneQuestionsPlanAlike'
    BY <2>1 DEF Inv, SafeMeansData, Answered, StandaloneQuestionsPlanAlike, Planned
  <2>5. Sized' /\ Understood'
    BY <2>1 DEF Inv, Sized, Understood, HasProfile, MaxSteps, MetadataCap
  <2> QED
    BY <2>2, <2>3, <2>4, <2>5 DEF Inv
<1> QED
  BY <1>1, <1>2, AskInv, ExecuteInv, AnswerInv DEF Next, Done

\* The invariant holds throughout.
LEMMA Invariance == Spec => []Inv
  BY InitInv, StepInv, PTL DEF Spec

-----------------------------------------------------------------------------
(* The theorems.                                                           *)

\* The state has its type: rows carry turns and steps that there are, plans and contexts keep
\* to their caps (loop.py, conversation.py).
THEOREM TypeCorrect == Spec => []TypeOK
<1>1. Inv => TypeOK
  <2> SUFFICES ASSUME Inv PROVE TypeOK
    OBVIOUS
  <2>1. \A k \in DOMAIN obs : obs[k].status \in Statuses /\ obs[k].rows \subseteq Rows
    <3>1. obs \in Seq(Observations)
      BY DEF Inv, Dated
    <3>2. \A k \in DOMAIN obs : obs[k] \in Observations
      BY <3>1
    <3> QED
      BY <3>2 DEF Observations
  <2>2. Places /\ Sized /\ artifact.rows \subseteq Rows
    BY DEF Inv, Dated
  <2> QED
    BY <2>1, <2>2 DEF TypeOK, Places, Sized
<1> QED
  BY <1>1, Invariance, PTL

\* A plan that is blocked for missing coverage misses what no choice of the matching tools
\* covers, whatever the profile (plan.py, _select_matches).
THEOREM GreedyPassIsEnough == Spec => []GreedyIsEnough
<1>1. Inv => GreedyIsEnough
  <2> SUFFICES ASSUME Inv, Planned, plan.reason = "missing_coverage",
                      NEW tools \in SUBSET ToSet(Matches(intent)), Required(intent) \subseteq CoverageOf(intent, tools)
               PROVE  FALSE
    BY DEF GreedyIsEnough
  <2>1. plan = BuildToolPlan(intent) /\ WellFormed(intent)
    BY DEF Inv, Executing, Understood, Planned, ReusePlan, Plan
  <2> QED
    BY <2>1, CoverageIsNotLost
<1> QED
  BY <1>1, Invariance, PTL

\* What can be answered is planned so that it is: the selection loses no coverage that the
\* matching tools have, and no second domain of a question that needs two.  A profile of
\* fewer than three steps could take both of its steps from one domain: the shipped one has
\* seven (plan.py, _select_matches and _select_profile_matches).
THEOREM NothingIsLost ==
  ASSUME ProfileSteps >= 3
  PROVE  Spec => []SelectionLosesNothing
<1>1. Inv => TwoDomainsWhenNeeded
  <2> SUFFICES ASSUME Inv, Planned, plan.steps # <<>>, intent.crossTool,
                      ~ QueryAnswersAll(intent, Matches(intent)),
                      Cardinality(DomainsOf(ToSet(Matches(intent)))) # 1
               PROVE  Cardinality(DomainsOf(ToSet(plan.steps))) >= 2
    BY DEF TwoDomainsWhenNeeded
  <2>1. /\ plan = BuildToolPlan(intent) /\ WellFormed(intent)
        /\ intent.entity = "business" => OfBusiness(intent)
    BY DEF Inv, Executing, Understood, Planned, ReusePlan, Plan
  <2> QED
    BY <2>1, PlanDomains
<1> QED
  BY <1>1, GreedyPassIsEnough, Invariance, PTL DEF SelectionLosesNothing

\* What a planned tool brings, the answer shows, for every question and context: the tools that
\* match an intent bring rows of the kind that ranking keeps for it, each with something to
\* name it by.  That a tool has something to tell is assumed (capabilities.py, evidence.py).
THEOREM PlansAreShown ==
  ASSUME Items # {}
  PROVE  Spec => []PlansBringWhatIsShown
<1>1. Inv => PlansBringWhatIsShown
  <2> SUFFICES ASSUME Inv, Planned, plan.valid, NEW k \in DOMAIN plan.steps,
                      ~ (plan.steps[k] = "waro.analytics.cohort" /\ intent.grain \notin CohortGrains)
               PROVE  RankedRows(RowsOf(plan.steps[k], k)) # {}
    BY DEF PlansBringWhatIsShown
  <2> DEFINE n == plan.steps[k]
             R == RowsOf(n, k)
             kind == KindOf(n, intent)
  <2>1. plan = BuildToolPlan(intent) /\ WellFormed(intent)
    BY DEF Inv, Executing, Understood, Planned, ReusePlan, Plan
  <2>2. n \in AcceptedTools(intent)
    BY <2>1, PlannedMatch
  <2>3. PICK x \in Items : TRUE
    OBVIOUS
  <2> DEFINE r == [kind |-> kind, item |-> x, by |-> NamedBy(n, intent), turn |-> turn, step |-> k]
  <2>4. r \in R /\ \A p \in R : p.kind = kind /\ p.by = NamedBy(n, intent) /\ p.turn = turn /\ p.step = k
    BY DEF RowsOf
  <2>5. /\ r.kind = kind /\ r.by = NamedBy(n, intent) /\ r.turn = turn /\ r.step = k
        /\ turn \in Int /\ k \in Int
    <3>1. turn \in Nat /\ plan.steps \in Seq(ToolNames)
      BY DEF Inv, Places, Sized
    <3> QED
      BY <3>1
  <2> HIDE DEF n, R, r, kind
  <2>6. CASE intent.entity = "product"
    <3>1. r.by # "none"
      BY <2>1, <2>2, <2>5, <2>6, MatchesBring
    <3>2. \A p \in R : ~ Earlier(p, r)
      BY <2>4, <2>5 DEF Earlier
    <3>3. r \in MergedProducts(R)
      BY <2>4, <3>1, <3>2 DEF MergedProducts
    <3> QED
      BY <2>6, <3>3 DEF RankedRows, R, n
  <2>7. CASE intent.entity = "customer"
    <3>1. kind = "customer" \/ n = "waro.analytics.cohort"
      BY <2>1, <2>2, <2>7, MatchesBring DEF kind
    <3>2. intent.grain \notin CohortGrains => kind = "customer"
      BY <3>1 DEF n
    <3>3. r \in RankedRows(R)
      BY <2>4, <2>5, <2>7, <3>2 DEF RankedRows
    <3> QED
      BY <3>3 DEF R, n
  <2>8. CASE intent.entity \notin {"product", "customer"}
    <3>1. r \in RankedRows(R)
      BY <2>4, <2>8 DEF RankedRows
    <3> QED
      BY <3>1 DEF R, n
  <2> QED
    BY <2>6, <2>7, <2>8
<1> QED
  BY <1>1, Invariance, PTL

\* No answer is called safe without data behind it, whatever failed on the way and
\* whatever the conversation left (evidence.py, _answerability).
THEOREM SafeAnswersHaveData == Spec => []SafeMeansData
<1>1. Inv => SafeMeansData
  BY DEF Inv
<1> QED
  BY <1>1, Invariance, PTL

\* What was asked before has no say in the plan of a question that refers to nothing
\* (intent.py, conversation_planner.py).
THEOREM ContextIsAskedFor == Spec => []StandaloneQuestionsPlanAlike
<1>1. Inv => StandaloneQuestionsPlanAlike
  BY DEF Inv
<1> QED
  BY <1>1, Invariance, PTL

\* The rows of an answer are of its own turn or, when the plan reuses the last
\* artifact, of that one: none comes back that an answer left out.
THEOREM AnswersKeepTheirTurn == Spec => RowsHaveTheirTurn
<1> DEFINE Step ==
      outcome = "none" /\ outcome' = "answered" =>
        /\ \A r \in artifact'.rows \ artifact.rows : r.turn = turn /\ talk.policy # "reuse_only"
        /\ talk.policy \in {"auto", "run_tools"} => artifact'.rows \cap artifact.rows = {}
<1>1. Inv /\ [Next]_vars => Step \/ UNCHANGED vars
  <2> SUFFICES ASSUME Inv, Next, outcome = "none", outcome' = "answered" PROVE Step
    BY DEF vars
  <2>1. Answer
    BY DEF Next, Ask, ExecuteStep, StepRaises, Done, vars
  <2>2. \A r \in artifact'.rows : r.turn = turn \/ (PreviousTable /\ r \in context.rows)
    BY <2>1, AnswerRows
  <2>3. context.rows \subseteq artifact.rows /\ \A r \in artifact.rows : r.turn # turn
    BY <2>1, AnswerRows
  <2>4. ASSUME NEW r \in artifact'.rows \ artifact.rows PROVE talk.policy # "reuse_only"
    <3>1. r \in AllRows /\ r \notin context.rows
      BY <2>1, <2>3, <2>4, AnswerRows
    <3>2. PICK k \in DOMAIN obs : r \in obs[k].rows
      BY <3>1, RowOfAll
    <3>3. obs # <<>>
      BY <3>2
    <3> QED
      BY <2>1, <3>3 DEF Answer, Inv, Executing
  <2>5. ASSUME talk.policy \in {"auto", "run_tools"} PROVE ~ PreviousTable
    BY <2>5 DEF PreviousTable, Inv, Agreed
  <2> QED
    BY <2>2, <2>3, <2>4, <2>5
<1>2. Inv /\ [Next]_vars => [Step]_vars
  BY <1>1
<1> HIDE DEF Step
<1>3. Spec => [][Step]_vars
  BY <1>2, Invariance, PTL DEF Spec
<1> QED
  BY <1>3 DEF RowsHaveTheirTurn, Step
=============================================================================
