------------------------------ MODULE Questions ------------------------------
(***************************************************************************)
(* What the agent understands of a question when no LLM is configured      *)
(* (services/agent-api/app/agent/intent.py and conversation_planner.py).   *)
(*                                                                         *)
(* A question is the set of its telling words.  Each regular expression of *)
(* the code is a set of words with one word per alternative that behaves   *)
(* differently: "compraron" is there because it is a sale, a value and, as *)
(* a substring, a purchase at once.  Dates are left at "is there one".     *)
(***************************************************************************)
EXTENDS Naturals, FiniteSets

Says(q, cues) == q \cap cues # {}

(***************************************************************************)
(* heuristic_intent: the topic is the first row whose cues the question    *)
(* has.  Suppliers stand before purchases, whose branch they refine.       *)
(***************************************************************************)
TopicRow(cues, entity, grain, measures, dimensions, operations) ==
  [cues |-> cues, entity |-> entity, grain |-> grain, measures |-> measures,
   dimensions |-> dimensions, operations |-> operations]

Purchased == {"quantity_purchased", "total_cost", "avg_unit_cost", "purchase_count"}

Topics == <<
  TopicRow({"negocio"}, "business", "business_period",
      {"total_sales", "avg_ticket", "order_count", "quantity_sold", "revenue", "margin",
       "total_spent", "retention_pct"},
      {"date", "product", "customer", "cohort"}, {"summarize", "diagnose", "compare", "rank"}),
  TopicRow({"stock"}, "ingredient", "inventory_snapshot",
      {"current_stock", "minimum_stock"}, {"ingredient"}, {"rank", "filter"}),
  TopicRow({"proveedor"}, "supplier", "supplier_period",
      Purchased, {"supplier", "ingredient"}, {"rank", "filter"}),
  TopicRow({"compras"}, "purchase", "purchase_period",
      Purchased, {"ingredient"}, {"rank", "filter"}),
  TopicRow({"waros", "redencion"}, "loyalty_transaction", "period_or_customer",
      {"total_issued"}, {}, {}),
  TopicRow({"cohortes"}, "customer", "cohort_period",
      {"retention_pct", "cohort_size"}, {"cohort"}, {"aggregate", "summarize"}),
  TopicRow({"rfm"}, "customer", "customer_period_segment",
      {"r_score", "f_score", "m_score", "total_spent", "order_count"}, {"segment"},
      {"segment", "summarize"}),
  TopicRow({"riesgo"}, "customer", "customer_risk",
      {"risk_score", "days_since_last_order", "lifetime_value"}, {"customer"},
      {"rank", "diagnose"}),
  TopicRow({"clientes"}, "customer", "customer_period", {}, {"customer"}, {}) >>

NoTopic == TopicRow({}, "sale", "period", {}, {}, {})

TopicOf(q) ==
  LET hits == {i \in DOMAIN Topics : Says(q, Topics[i].cues)}
  IN  IF hits = {} THEN NoTopic ELSE Topics[CHOOSE i \in hits : \A j \in hits : i <= j]

Supply == {"purchase", "supplier", "procurement"}
Fixed  == Supply \cup {"business", "ingredient", "inventory"}  \* entities "productos" leaves alone

\* The measures that the words of q name, whatever its topic.
Named(q, entity) ==
  LET when(cues, S) == IF Says(q, cues) THEN S ELSE {}
  IN  UNION { when({"ventas", "compraron"},
                   IF entity = "customer" THEN {"total_spent"}
                   ELSE IF entity \in {"sale", "order"} THEN {"total_sales"} ELSE {"revenue"}),
              when({"promedio"}, {"avg_ticket"}),
              when({"frecuentes", "pedidos"}, {"order_count"}),
              when({"mas vendidos"}, {"quantity_sold"}),
              when({"margen"}, {"margin"}),
              when({"costo"}, {"cost"}),
              IF entity = "ingredient" THEN when({"stock", "bajo"}, {"current_stock", "minimum_stock"}) ELSE {},
              IF entity \in Supply THEN when({"costo", "costos", "compras"}, {"avg_unit_cost", "total_cost"}) ELSE {},
              when({"compraron", "gasto"}, IF entity = "customer" THEN {"total_spent"} ELSE {"revenue"}) }

\* Further measures of two topics.
Refined(q, topic) ==
  UNION { IF topic = "ingredient" /\ Says(q, {"movimientos"}) THEN {"net_quantity", "movement_count"} ELSE {},
          IF topic = "loyalty_transaction" /\ Says(q, {"redencion"}) THEN {"total_redeemed"} ELSE {},
          IF topic = "loyalty_transaction" /\ Says(q, {"tasa"}) THEN {"redemption_rate_pct"} ELSE {} }

DefaultMeasures(entity) ==
  CASE entity = "sale"       -> {"total_sales"}
    [] entity = "product"    -> {"quantity_sold", "revenue"}
    [] entity = "customer"   -> {"total_spent", "order_count"}
    [] entity = "ingredient" -> {"current_stock", "minimum_stock"}
    [] entity \in Supply     -> {"total_cost", "purchase_count"}
    [] OTHER                 -> {}

\* normalize_measures_for_entity.
ForEntity(entity, measures) ==
  {IF entity = "customer" /\ m \in {"revenue", "total_sales"} THEN "total_spent"
   ELSE IF entity = "product" /\ m = "total_sales" THEN "revenue"
   ELSE m : m \in measures}

NamedDimensions(q) ==
  (IF Says(q, {"hora"}) THEN {"hour"} ELSE {}) \cup (IF Says(q, {"diario"}) THEN {"date"} ELSE {})

NamedOperations(q) ==
  UNION { IF Says(q, {"hora", "diario"}) THEN {"group"} ELSE {},
          IF Says(q, {"top", "mas vendidos", "que mas", "bajo"}) THEN {"rank"} ELSE {},
          IF Says(q, {"bajo", "con"}) THEN {"filter"} ELSE {},
          IF Says(q, {"compara"}) THEN {"compare"} ELSE {} }

CustomerMeasures == {"order_count", "total_spent", "avg_ticket"}

\* requires_cross_tool, decided before the default measures are filled in.
NeedsTwoTools(entity, measures) ==
  \/ entity = "business"
  \/ /\ entity = "product" /\ "margin" \in measures
     /\ measures \cap {"quantity_sold", "revenue", "total_sales"} # {}
  \/ entity = "customer" /\ Cardinality(measures \cap CustomerMeasures) > 1

HeuristicIntent(q) ==
  LET t        == TopicOf(q)
      product  == t.entity \notin Fixed /\ Says(q, {"productos"})
      order    == ~product /\ t.entity = "sale" /\ Says(q, {"pedidos"})
      movement == t.entity = "ingredient" /\ Says(q, {"movimientos"})
      buyers   == t.entity = "loyalty_transaction" /\ Says(q, {"clientes"})
      entity   == IF product THEN "product" ELSE IF order THEN "order" ELSE t.entity
      measures == t.measures \cup Refined(q, t.entity) \cup Named(q, entity)
      ops      == t.operations \cup NamedOperations(q) \cup (IF buyers THEN {"rank"} ELSE {})
  IN  [entity     |-> entity,
       grain      |-> IF product THEN "product_period" ELSE IF order THEN "order"
                      ELSE IF movement THEN "inventory_movement" ELSE t.grain,
       measures   |-> ForEntity(entity, IF measures = {} THEN DefaultMeasures(entity) ELSE measures),
       dimensions |-> t.dimensions \cup NamedDimensions(q)
                        \cup (IF product THEN {"product"} ELSE {})
                        \cup (IF buyers THEN {"customer"} ELSE {}),
       operations |-> IF ops = {} THEN {"aggregate"} ELSE ops,
       dated      |-> Says(q, {"hoy"}),
       crossTool  |-> NeedsTwoTools(entity, measures)]

(***************************************************************************)
(* ConversationState: what the last artifact left for this question.       *)
(***************************************************************************)
NoContext == [active |-> FALSE, entity |-> "none", grain |-> "none", dated |-> FALSE,
              measures |-> {}, dimensions |-> {}, rows |-> {}, datasets |-> <<>>]

\* _is_contextual_question and _uses_context.
Contextual(q) == Says(q, {"eso", "que mas", "acciones"})

\* _intent_has_weak_entity_signal looks for substrings: "compra" is in "compraron".
WeakEntity(q, entity) ==
  /\ entity = "sale"
  /\ ~Says(q, {"clientes", "productos", "ventas", "waros", "cohortes", "negocio", "stock",
               "compras", "compraron", "proveedor"})

\* resolve_contextual_intent.
Contextualised(q, i, ctx) ==
  IF ~Contextual(q) THEN i
  ELSE LET inherits == ctx.active /\ WeakEntity(q, i.entity)
           entity   == IF inherits THEN ctx.entity ELSE i.entity
       IN  [i EXCEPT !.entity     = entity,
                     !.grain      = IF inherits THEN ctx.grain ELSE @,
                     !.dated      = @ \/ ctx.dated,
                     !.measures   = ForEntity(entity, IF @ = {} THEN ctx.measures ELSE @),
                     !.dimensions = IF entity = ctx.entity THEN @ \cup ctx.dimensions ELSE @,
                     !.crossTool  = @ \/ entity = "business"]

Understand(q, ctx) == Contextualised(q, HeuristicIntent(q), ctx)

(***************************************************************************)
(* heuristic_conversation_plan.                                            *)
(***************************************************************************)
FirstDataset(ctx) == IF ctx.datasets = <<>> THEN "none" ELSE ctx.datasets[1]

AsksCapability(q) ==
  /\ Says(q, {"conversar"})
  /\ ~Says(q, {"ventas", "productos", "margen", "clientes", "waros", "costo", "costos"})

AsksGenericCustomers(q) == Says(q, {"genericos"}) /\ Says(q, {"clientes", "impacto"})
AsksCause(q)            == Says(q, {"costos", "datos mal"}) /\ Says(q, {"parece"})
AsksWhy(q)              == Says(q, {"por que", "explica", "datos mal"})
MentionsMargin(q)       == Says(q, {"margen", "costo", "costos"})

ConversationPlan(type, subject, reuse, preserve, policy) ==
  [type |-> type, subject |-> subject, reuse |-> reuse, preserve |-> preserve, policy |-> policy]

\* The kind of question, when nothing in its words says more.
PlainType(ops) ==
  IF "rank" \in ops THEN "ranking"
  ELSE IF "compare" \in ops THEN "comparison"
  ELSE IF ops \cap {"diagnose", "summarize"} # {} THEN "diagnosis"
  ELSE "metric_lookup"

PlanConversation(q, i, ctx) ==
  LET context == ctx.rows # {} \/ ctx.datasets # <<>>
      dataset == FirstDataset(ctx)
  IN  IF AsksCapability(q)
      THEN ConversationPlan("definition", "kali_capabilities", FALSE, "none", "reuse_only")
      ELSE IF AsksGenericCustomers(q)
      THEN ConversationPlan("data_quality_check", "generic_customers", context, "customers",
                            IF context THEN "merge" ELSE "run_tools")
      ELSE IF context /\ AsksCause(q)
      THEN ConversationPlan("data_quality_check", "context", TRUE,
                            IF MentionsMargin(q) THEN "product_profitability" ELSE dataset, "reuse_only")
      ELSE IF context /\ AsksWhy(q)
      THEN ConversationPlan(IF Says(q, {"datos mal"}) THEN "data_quality_check" ELSE "diagnosis",
                            "context", TRUE, dataset, "reuse_only")
      ELSE ConversationPlan(PlainType(i.operations), "question", FALSE, "none", "auto")

\* The grain of the context kept for every kind of question.
ReplannedAlways(i, cp, ctx) ==
  [i EXCEPT !.grain = IF ctx.active THEN ctx.grain ELSE @]

\* _intent_from_conversation_plan.
Replanned(i, cp, ctx) ==
  LET profit == cp.preserve = "product_profitability"
      entity == IF profit THEN "product" ELSE i.entity
      active == IF entity = "sale" /\ ctx.active THEN ctx.entity ELSE entity
  IN  CASE cp.subject = "generic_customers" \/ cp.preserve = "customers" ->
             [i EXCEPT !.entity = "customer", !.grain = "customer_period",
                       !.measures = @ \cup CustomerMeasures, !.dimensions = @ \cup {"customer"},
                       !.operations = @ \cup {"rank", "diagnose"}, !.crossTool = TRUE]
        [] cp.preserve # "customers" /\ cp.type \in {"diagnosis", "data_quality_check"} ->
             [i EXCEPT !.entity = active,
                       !.grain = IF ctx.active THEN ctx.grain ELSE @,
                       !.measures = (IF @ = {} THEN ctx.measures ELSE @)
                         \cup (IF profit THEN {"margin", "cost", "quantity_sold", "revenue"} ELSE {}),
                       !.dimensions = IF active = ctx.entity THEN @ \cup ctx.dimensions ELSE @,
                       !.operations = @ \cup {"diagnose"},
                       !.crossTool = @ \/ active = "business"]
        [] OTHER -> i
=============================================================================
