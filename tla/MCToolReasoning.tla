--------------------------- MODULE MCToolReasoning ---------------------------
\* A small instance of ToolReasoning: every first prompt, every run of a few questions.
EXTENDS ToolReasoning

MCTerms == {"margen", "clientes", "recompra", "inventario", "stock", "ticket", "food"}

\* Words of the question in the texts: in none, in all alike, in those about dishes and
\* analysis (more tools than the prompt has places), in those about supply.
MCTokens ==
  {[p \in Places |-> 0],
   [p \in Places |-> 2],
   [p \in Places |-> IF Catalog[p].domain \in {"analytics", "food_cost", "menu"} THEN 9 ELSE 1],
   [p \in Places |-> IF Catalog[p].domain \in SupplyDomains THEN 1 ELSE 0]}

MCQuestions == [terms : SUBSET MCTerms, tokens : MCTokens]

MCGrants == {{Catalog[p].scope : p \in Places},
             {"orders:read", "dataset_scope", "analytics:read", "inventory:read", "procurement:read",
              "purchases:read", "suppliers:read"},
             {"customers:read", "inventory:read", "suppliers:read", "procurement:read"},
             {"analytics:read", "menu:read", "financial:read", "orders:read"},
             {}}

MCNames == {"queries.schema", "sales.metrics", "analytics.data_quality"}

\* The runs that go beyond the first prompt.
Explored ==
  LET words == {question.tokens[p] : p \in Places} IN
  \/ question.terms = {"stock"} /\ words = {0, 1} /\ "dataset_scope" \in scopes /\ "read" \notin scopes
  \/ question.terms = {} /\ words = {0} /\ scopes = {}
=============================================================================
