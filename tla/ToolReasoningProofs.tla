------------------------- MODULE ToolReasoningProofs -------------------------
(***************************************************************************)
(* Theorems about ToolReasoning, for every set of questions, scopes and    *)
(* names and every pair of bounds with MAX_TOOL_CALLS <= MAX_PROMPT_TOOLS. *)
(*                                                                         *)
(* That the observed tools fit in the prompt is a matter of counting: k    *)
(* observations name at most k tools, because no two tools have one name.  *)
(* So is that the prompt keeps to its bound: each tool has a rank of its   *)
(* own.  A tool without a place has more before it than any that has one;  *)
(* what comes before queries.run then has the words that no topic makes up *)
(* for.  What a run has observed follows from what its gateway holds.      *)
(***************************************************************************)
EXTENDS ToolReasoning, FiniteSetTheorems, TLAPS

LEMMA NamesDiffer ==
  ASSUME NEW p \in Places, NEW r \in Places, Catalog[p].name = Catalog[r].name
  PROVE  p = r
  BY DEF Places, Catalog, Row

\* The tools named before the k-th observation are fewer than k.
LEMMA FewerThanObserved ==
  ASSUME NEW o, NEW k \in Nat \ {0}
  PROVE  IsFiniteSet(SeenAt(o, k)) /\ Cardinality(SeenAt(o, k)) < k
<1> DEFINE J == {j \in 1..(k - 1) : PlaceOf(o[j].tool) # {}}
           f == [j \in J |-> CHOOSE p \in PlaceOf(o[j].tool) : TRUE]
<1>1. IsFiniteSet(1..(k - 1)) /\ Cardinality(1..(k - 1)) = k - 1
  BY FS_Interval
<1>2. IsFiniteSet(J) /\ Cardinality(J) <= k - 1
  BY <1>1, FS_Subset
<1>3. \A j \in J : PlaceOf(o[j].tool) = {f[j]}
  BY NamesDiffer DEF PlaceOf
<1>4. SeenAt(o, k) = {f[j] : j \in J}
  <2>1. ASSUME NEW p \in SeenAt(o, k) PROVE p \in {f[j] : j \in J}
    <3>1. PICK j \in 1..(k - 1) : p \in PlaceOf(o[j].tool)
      BY <2>1 DEF SeenAt
    <3>2. j \in J
      BY <3>1
    <3> QED
      BY <1>3, <3>1, <3>2
  <2>2. ASSUME NEW j \in J PROVE f[j] \in SeenAt(o, k)
    <3>1. j \in 1..(k - 1) /\ f[j] \in PlaceOf(o[j].tool)
      BY <1>3
    <3> HIDE DEF f
    <3> QED
      BY <3>1 DEF SeenAt
  <2> QED
    BY <2>1, <2>2
<1>5. f \in Surjection(J, SeenAt(o, k))
  BY <1>4 DEF Surjection
<1>6. IsFiniteSet(SeenAt(o, k)) /\ Cardinality(SeenAt(o, k)) <= Cardinality(J)
  BY <1>2, <1>5, FS_Surjection
<1>7. Cardinality(J) \in Nat /\ Cardinality(SeenAt(o, k)) \in Nat
  BY <1>2, <1>6, FS_CardinalityType
<1> QED
  BY <1>2, <1>6, <1>7

\* Whatever was observed and may be called is selected.
LEMMA ObservedAreSelected ==
  ASSUME NEW q, NEW S, NEW o \in Seq(Observation), Len(o) <= MAX_TOOL_CALLS,
         NEW k \in DOMAIN o
  PROVE  PlaceOf(o[k].tool) \cap S \subseteq SelectPromptTools(q, S, o)
<1> SUFFICES ASSUME NEW p \in PlaceOf(o[k].tool) \cap S
             PROVE  p \in SelectPromptTools(q, S, o)
  OBVIOUS
<1>1. k \in 1..Len(o) /\ k \in Nat \ {0} /\ Len(o) \in Nat
  OBVIOUS
<1>2. p \in S \cap SeenAt(o, Len(o) + 1)
  BY <1>1 DEF SeenAt
<1>3. Fits(Cardinality(S \cap SeenAt(o, k)))
  <2>1. IsFiniteSet(SeenAt(o, k)) /\ Cardinality(SeenAt(o, k)) < k
    BY <1>1, FewerThanObserved
  <2>2. /\ IsFiniteSet(S \cap SeenAt(o, k))
        /\ Cardinality(S \cap SeenAt(o, k)) <= Cardinality(SeenAt(o, k))
    BY <2>1, FS_Subset
  <2>3. Cardinality(S \cap SeenAt(o, k)) \in Nat /\ Cardinality(SeenAt(o, k)) \in Nat
    BY <2>1, <2>2, FS_CardinalityType
  <2> QED
    BY <1>1, <2>1, <2>2, <2>3, ReasoningAssumption DEF Fits
<1> QED
  BY <1>1, <1>2, <1>3 DEF SelectPromptTools

-----------------------------------------------------------------------------
(* The order of the tools, and how many of them fit.                        *)

LEMMA ScoreIsNat ==
  ASSUME NEW q \in Questions, NEW p \in Places
  PROVE  Score[q][p] \in Nat
<1>1. q.tokens[p] \in Nat
  BY QuestionsAssumption
<1>2. Score[q][p] = ToolPromptScore(q, p)
  BY DEF Score
<1> QED
  BY <1>1, <1>2 DEF ToolPromptScore

LEMMA PlacesAreFinite == Places \subseteq Nat /\ IsFiniteSet(Places)
<1>1. Places = 1..19
  BY DEF Places, Catalog
<1>2. IsFiniteSet(1..19)
  <2>1. PICK a \in Int, b \in Int : a = 1 /\ b = 19
    OBVIOUS
  <2>2. IsFiniteSet(a..b)
    BY FS_Interval
  <2> QED
    BY <2>1, <2>2
<1> QED
  BY <1>1, <1>2

\* Of two tools one comes before the other, and the order is strict.
LEMMA OneOutranks ==
  ASSUME NEW q \in Questions, NEW p \in Places, NEW r \in Places
  PROVE  /\ ~ Outranks(q, p, p)
         /\ p # r => Outranks(q, p, r) \/ Outranks(q, r, p)
         /\ \A t \in Places : Outranks(q, t, p) /\ Outranks(q, p, r) => Outranks(q, t, r)
<1>1. \A t \in Places : t \in Nat /\ Score[q][t] \in Nat
  BY ScoreIsNat, PlacesAreFinite
<1> QED
  BY <1>1 DEF Outranks

Above(q, T, p) == {r \in T : Outranks(q, r, p)}

LEMMA AboveIsCounted ==
  ASSUME NEW T \in SUBSET Places, NEW q, NEW p
  PROVE  IsFiniteSet(Above(q, T, p)) /\ Cardinality(Above(q, T, p)) \in Nat
<1>1. Above(q, T, p) \subseteq Places
  BY DEF Above
<1> QED
  BY <1>1, PlacesAreFinite, FS_Subset, FS_CardinalityType

\* Who comes later has more before it.
LEMMA LaterHasMoreAbove ==
  ASSUME NEW q \in Questions, NEW T \in SUBSET Places, NEW p \in T, NEW r \in T, Outranks(q, p, r)
  PROVE  Cardinality(Above(q, T, p)) < Cardinality(Above(q, T, r))
<1> DEFINE A == Above(q, T, p)
           B == Above(q, T, r)
<1>1. A \cup {p} \subseteq B /\ p \notin A
  BY OneOutranks DEF Above
<1>2. IsFiniteSet(A) /\ Cardinality(A) \in Nat /\ IsFiniteSet(B) /\ Cardinality(B) \in Nat
  BY AboveIsCounted
<1> HIDE DEF A, B
<1>3. IsFiniteSet(A \cup {p}) /\ Cardinality(A \cup {p}) = Cardinality(A) + 1
  BY <1>1, <1>2, FS_AddElement
<1>4. Cardinality(A \cup {p}) <= Cardinality(B)
  BY <1>1, <1>2, FS_Subset
<1>5. Cardinality(A) < Cardinality(B)
  BY <1>2, <1>3, <1>4
<1> QED
  BY <1>5 DEF A, B

\* No more than n tools have fewer than n before them.
LEMMA FirstFew ==
  ASSUME NEW q \in Questions, NEW T \in SUBSET Places, NEW n \in Nat,
         NEW S \in SUBSET T, \A p \in S : Cardinality(Above(q, T, p)) < n
  PROVE  IsFiniteSet(S) /\ Cardinality(S) <= n /\ Cardinality(S) \in Nat
<1> DEFINE f == [p \in S |-> Cardinality(Above(q, T, p))]
<1>1. f \in Injection(S, 0..(n - 1))
  <2>1. \A p \in S : f[p] \in 0..(n - 1)
    BY AboveIsCounted
  <2>2. ASSUME NEW p \in S, NEW r \in S, p # r PROVE f[p] # f[r]
    <3>1. Outranks(q, p, r) \/ Outranks(q, r, p)
      BY <2>2, OneOutranks
    <3>2. Cardinality(Above(q, T, p)) \in Nat /\ Cardinality(Above(q, T, r)) \in Nat
      BY AboveIsCounted
    <3> QED
      BY <3>1, <3>2, LaterHasMoreAbove
  <2>3. f \in [S -> 0..(n - 1)]
    BY <2>1
  <2> HIDE DEF f
  <2> QED
    BY <2>2, <2>3 DEF Injection, IsInjective
<1> HIDE DEF f
<1>2. IsFiniteSet(0..(n - 1)) /\ Cardinality(0..(n - 1)) = n
  BY FS_Interval
<1>3. IsFiniteSet(S)
  BY PlacesAreFinite, FS_Subset
<1> QED
  BY <1>1, <1>2, <1>3, FS_Injection, FS_CardinalityType

\* The prompt keeps to its bound, and to the tools the request may call.
LEMMA PromptIsBounded ==
  ASSUME NEW q \in Questions, NEW S \in SUBSET Places, NEW o \in Seq(Observation), Len(o) <= MAX_TOOL_CALLS
  PROVE  /\ SelectPromptTools(q, S, o) \in SUBSET S
         /\ Cardinality(SelectPromptTools(q, S, o)) <= MAX_PROMPT_TOOLS
<1> DEFINE observed == S \cap SeenAt(o, Len(o) + 1)
           others   == S \ observed
           kept     == {p \in observed :
                          \E k \in 1..Len(o) :
                            p \in PlaceOf(o[k].tool) /\ Fits(Cardinality(S \cap SeenAt(o, k)))}
           added    == {p \in others :
                          /\ IF observed = {} THEN Ranked(q, S, p) ELSE Score[q][p] > 0
                          /\ Fits(Cardinality({r \in others : Outranks(q, r, p)}) + Cardinality(observed))}
<1>1. SelectPromptTools(q, S, o) = kept \cup added
  BY DEF SelectPromptTools
<1>2. IsFiniteSet(observed) /\ Cardinality(observed) \in Nat /\ Cardinality(observed) <= MAX_PROMPT_TOOLS
  <2>1. Len(o) + 1 \in Nat \ {0}
    OBVIOUS
  <2>2. IsFiniteSet(SeenAt(o, Len(o) + 1)) /\ Cardinality(SeenAt(o, Len(o) + 1)) < Len(o) + 1
    BY <2>1, FewerThanObserved
  <2>3. IsFiniteSet(observed) /\ Cardinality(observed) <= Cardinality(SeenAt(o, Len(o) + 1))
    BY <2>2, FS_Subset
  <2>4. Cardinality(observed) \in Nat /\ Cardinality(SeenAt(o, Len(o) + 1)) \in Nat /\ Len(o) \in Nat
    BY <2>2, <2>3, FS_CardinalityType
  <2> HIDE DEF observed
  <2> QED
    BY <2>2, <2>3, <2>4, ReasoningAssumption
<1>3. kept \subseteq observed /\ added \subseteq others /\ others \in SUBSET Places /\ observed \subseteq S
  OBVIOUS
<1>4. \A p \in added : Cardinality(Above(q, others, p)) < MAX_PROMPT_TOOLS - Cardinality(observed)
  <2>1. ASSUME NEW p \in added
        PROVE  Cardinality(Above(q, others, p)) + Cardinality(observed) < MAX_PROMPT_TOOLS
    <3>1. Fits(Cardinality({r \in others : Outranks(q, r, p)}) + Cardinality(observed))
      BY <2>1
    <3> HIDE DEF observed, others
    <3> QED
      BY <3>1 DEF Fits, Above
  <2> HIDE DEF observed, others, added
  <2> QED
    BY <1>2, <1>3, <2>1, AboveIsCounted, ReasoningAssumption
<1> HIDE DEF observed, others, kept, added
<1>5. IsFiniteSet(added) /\ Cardinality(added) <= MAX_PROMPT_TOOLS - Cardinality(observed) /\ Cardinality(added) \in Nat
  <2>1. MAX_PROMPT_TOOLS - Cardinality(observed) \in Nat
    BY <1>2, ReasoningAssumption
  <2> QED
    BY <1>3, <1>4, <2>1, FirstFew
<1>6. IsFiniteSet(kept) /\ Cardinality(kept) <= Cardinality(observed) /\ Cardinality(kept) \in Nat
  BY <1>2, <1>3, FS_Subset, FS_CardinalityType
<1>7. Cardinality(kept \cup added) <= Cardinality(kept) + Cardinality(added)
  <2>1. /\ Cardinality(kept \cup added) = Cardinality(kept) + Cardinality(added) - Cardinality(kept \cap added)
        /\ IsFiniteSet(kept \cap added)
    BY <1>5, <1>6, FS_Union, FS_Subset
  <2>2. Cardinality(kept \cap added) \in Nat
    BY <2>1, FS_CardinalityType
  <2> QED
    BY <1>5, <1>6, <2>1, <2>2
<1>8. Cardinality(kept \cup added) \in Nat
  BY <1>5, <1>6, FS_Union, FS_CardinalityType
<1>9. SelectPromptTools(q, S, o) \subseteq S
  BY <1>1, <1>3 DEF others
<1>10. Cardinality(kept \cup added) <= MAX_PROMPT_TOOLS
  BY <1>2, <1>5, <1>6, <1>7, <1>8, ReasoningAssumption
<1> QED
  BY <1>1, <1>9, <1>10

-----------------------------------------------------------------------------
(* The score of queries.run, which is at place 14; queries.schema at 15.    *)

LEMMA WhereToolsAre ==
  /\ Places = 1..19 /\ PlaceOf("queries.run") = {14} /\ PlaceOf("queries.schema") = {15}
  /\ \A p \in Places :
       /\ Catalog[p].name = "queries.run" <=> p = 14
       /\ Catalog[p].name = "queries.schema" <=> p = 15
       /\ Catalog[p].name = "financial.products" <=> p = 7
       /\ Catalog[p].domain = "customers" <=> p \in {5, 6}
       /\ Catalog[p].domain = "sales" <=> p \in {16, 17, 18}
       /\ Catalog[p].domain = "analytics" <=> p \in {1, 2, 4, 15}
       /\ Catalog[p].domain \in SupplyDomains <=> p \in {8, 12, 13, 19}
<1>1. Places = 1..19
  BY DEF Places, Catalog
<1>2. \A p \in Places :
       /\ Catalog[p].name = "queries.run" <=> p = 14
       /\ Catalog[p].name = "queries.schema" <=> p = 15
       /\ Catalog[p].name = "financial.products" <=> p = 7
  BY <1>1 DEF Catalog, Row
<1>3. \A p \in Places :
       /\ Catalog[p].domain = "customers" <=> p \in {5, 6}
       /\ Catalog[p].domain = "sales" <=> p \in {16, 17, 18}
       /\ Catalog[p].domain = "analytics" <=> p \in {1, 2, 4, 15}
       /\ Catalog[p].domain \in SupplyDomains <=> p \in {8, 12, 13, 19}
  BY <1>1 DEF Catalog, Row, SupplyDomains
<1>4. PlaceOf("queries.run") = {14} /\ PlaceOf("queries.schema") = {15}
  BY <1>1, <1>2 DEF PlaceOf
<1> QED
  BY <1>1, <1>2, <1>3, <1>4

\* A topic of its own is worth 8 points at least to queries.run, and all topics together
\* 7 at most to any other tool but queries.schema: what comes before it has more words.
LEMMA WordsDecide ==
  ASSUME NEW q \in Questions, NEW p \in Places \ {14, 15}, Outranks(q, p, 14),
         ProductQuestion(q) \/ CustomerQuestion(q) \/ ProcurementQuestion(q)
  PROVE  q.tokens[p] > q.tokens[14]
<1>1. /\ 14 \in Places /\ q.tokens[p] \in Nat /\ q.tokens[14] \in Nat
      /\ Score[q][p] = ToolPromptScore(q, p) /\ Score[q][14] = ToolPromptScore(q, 14)
  BY WhereToolsAre, QuestionsAssumption DEF Score
<1>2. Score[q][14] >= q.tokens[14] + 8
  <2>1. Catalog[14].name = "queries.run"
    BY <1>1, WhereToolsAre
  <2> QED
    BY <1>1, <2>1 DEF ToolPromptScore
<1>3. Score[q][p] <= q.tokens[p] + 7
  <2>1. /\ Catalog[p].name # "queries.run" /\ Catalog[p].name # "queries.schema"
        /\ Catalog[p].name = "financial.products" <=> p = 7
        /\ Catalog[p].domain = "customers" <=> p \in {5, 6}
        /\ Catalog[p].domain = "sales" <=> p \in {16, 17, 18}
        /\ Catalog[p].domain = "analytics" <=> p \in {1, 2, 4}
        /\ Catalog[p].domain \in SupplyDomains <=> p \in {8, 12, 13, 19}
    BY WhereToolsAre
  <2> QED
    BY <1>1, <2>1 DEF ToolPromptScore
<1>4. Score[q][p] >= Score[q][14] /\ Score[q][p] \in Nat /\ Score[q][14] \in Nat
  BY <1>1, ScoreIsNat DEF Outranks
<1> QED
  BY <1>1, <1>2, <1>3, <1>4

\* In the first prompt, whatever has a place comes before what has a score and none.
LEMMA PlacesGoByRank ==
  ASSUME NEW q \in Questions, NEW S \in SUBSET Places,
         NEW r \in S, Score[q][r] > 0, r \notin SelectPromptTools(q, S, <<>>),
         NEW p \in SelectPromptTools(q, S, <<>>)
  PROVE  Outranks(q, p, r)
<1>1. S \cap SeenAt(<<>>, Len(<<>>) + 1) = {}
  BY DEF SeenAt
<1>2. SelectPromptTools(q, S, <<>>) =
        {t \in S : Ranked(q, S, t) /\ Fits(Cardinality(Above(q, S, t)))}
  <2>1. Cardinality({}) = 0 /\ \A t : Cardinality(Above(q, S, t)) \in Nat
    BY FS_EmptySet, AboveIsCounted
  <2>2. \A t : {u \in S : Outranks(q, u, t)} = Above(q, S, t)
    BY DEF Above
  <2>3. \A t : Cardinality(Above(q, S, t)) + Cardinality({}) = Cardinality(Above(q, S, t))
    BY <2>1
  <2> DEFINE observed == S \cap SeenAt(<<>>, Len(<<>>) + 1)
             others   == S \ observed
             kept     == {t \in observed :
                            \E k \in 1..Len(<<>>) :
                              t \in PlaceOf(<<>>[k].tool) /\ Fits(Cardinality(S \cap SeenAt(<<>>, k)))}
             added    == {t \in others :
                            /\ IF observed = {} THEN Ranked(q, S, t) ELSE Score[q][t] > 0
                            /\ Fits(Cardinality({u \in others : Outranks(q, u, t)}) + Cardinality(observed))}
  <2>4. SelectPromptTools(q, S, <<>>) = kept \cup added
    BY DEF SelectPromptTools
  <2>5. observed = {} /\ others = S /\ kept = {}
    BY <1>1
  <2> HIDE DEF observed, others, kept
  <2>6. added = {t \in S : Ranked(q, S, t) /\ Fits(Cardinality({u \in S : Outranks(q, u, t)}) + Cardinality({}))}
    BY <2>5
  <2> HIDE DEF added
  <2> QED
    BY <2>2, <2>3, <2>4, <2>5, <2>6
<1>3. p \in S /\ Cardinality(Above(q, S, p)) < MAX_PROMPT_TOOLS
  BY <1>2 DEF Fits
<1>4. ~ (Cardinality(Above(q, S, r)) < MAX_PROMPT_TOOLS)
  BY <1>2 DEF Ranked, Fits
<1>5. Cardinality(Above(q, S, p)) \in Nat /\ Cardinality(Above(q, S, r)) \in Nat
  BY AboveIsCounted
<1>6. ~ Outranks(q, r, p)
  BY <1>3, <1>4, <1>5, LaterHasMoreAbove, ReasoningAssumption
<1> QED
  BY <1>2, <1>3, <1>6, OneOutranks

-----------------------------------------------------------------------------
(* The inductive invariant.                                                 *)

\* The prompt is the one the observations call for.
PromptIsFresh ==
  /\ obs \in Seq(Observation) /\ Len(obs) <= MAX_TOOL_CALLS
  /\ artifact = "none" => offered = SelectPromptTools(question, Available, obs)

\* A call that went through read the fields of the contracts that are loaded.
FieldsFollowContracts ==
  \A k \in DOMAIN obs : obs[k].status = "succeeded" =>
    /\ contracts # "unloaded"
    /\ obs[k].fields = IF contracts = "cli" THEN "contract" ELSE "spec"

Inv == TypeOK /\ PromptIsFresh /\ FieldsFollowContracts /\ OfferedIsAdmitted

LEMMA CallableArePlaces == Available \in SUBSET Places
  BY DEF Available, Snapshot

LEMMA InitInv == Init => Inv
<1> SUFFICES ASSUME Init PROVE Inv
  OBVIOUS
<1>1. obs = <<>> /\ obs \in Seq(Observation) /\ Len(obs) = 0 /\ Len(obs) <= MAX_TOOL_CALLS
  BY ReasoningAssumption DEF Init
<1>2. question \in Questions /\ offered = SelectPromptTools(question, Available, obs)
  BY <1>1 DEF Init
<1>3. offered \in SUBSET Available /\ Cardinality(offered) <= MAX_PROMPT_TOOLS
  BY <1>1, <1>2, PromptIsBounded, CallableArePlaces
<1>4. TypeOK
  BY <1>1, <1>2, <1>3 DEF Init, TypeOK
<1> QED
  BY <1>1, <1>2, <1>4 DEF Inv, PromptIsFresh, FieldsFollowContracts, OfferedIsAdmitted

\* What one step of the loop adds is one observation, made with the contracts it leaves.
Fresh(o) ==
  /\ o \in Observation
  /\ o.status = "succeeded" =>
       /\ contracts' # "unloaded"
       /\ o.fields = IF contracts' = "cli" THEN "contract" ELSE "spec"
  /\ o.cause # "scope"
  /\ o.cause = "missing" => source.planner # source.gateway
  /\ o.cause \in {"extra", "listed"} =>
       schema # "same" \/ \E p \in PlaceOf(o.tool) : ~TakesArguments(p)

LEMMA ObserveKeepsInv ==
  ASSUME Inv, MoreSteps, NEW o, Fresh(o), Observe(o),
         contracts # "unloaded" => contracts' = contracts,
         contracts' \in {"unloaded", "cli", "none"}
  PROVE  Inv'
<1>1. /\ obs' = Append(obs, o) /\ obs' \in Seq(Observation)
      /\ Len(obs') = Len(obs) + 1 /\ Len(obs) \in Nat
      /\ \A k \in DOMAIN obs' : (k \in DOMAIN obs /\ obs'[k] = obs[k]) \/ obs'[k] = o
  BY DEF Inv, PromptIsFresh, Observe, Fresh
<1>2. Len(obs') <= MAX_TOOL_CALLS
  BY <1>1, ReasoningAssumption DEF MoreSteps
<1>3. PromptIsFresh'
  BY <1>1, <1>2 DEF PromptIsFresh, Observe, Available, given
<1>4. FieldsFollowContracts'
  BY <1>1 DEF Inv, FieldsFollowContracts, Fresh
<1>5. OfferedIsAdmitted'
  BY <1>1 DEF Inv, OfferedIsAdmitted, Fresh, Observe, given
<1>6. TypeOK'
  <2>1. offered' = SelectPromptTools(question, Available, obs')
        /\ UNCHANGED <<question, scopes, source, schema, artifact>> /\ Available' = Available
    BY <1>1 DEF Observe, Available, given
  <2>2. offered' \in SUBSET Available /\ Cardinality(offered') <= MAX_PROMPT_TOOLS
    BY <1>1, <1>2, <2>1, PromptIsBounded, CallableArePlaces DEF Inv, TypeOK
  <2> QED
    BY <1>1, <1>2, <2>1, <2>2 DEF Inv, TypeOK
<1> QED
  BY <1>3, <1>4, <1>5, <1>6 DEF Inv

LEMMA DecideKeepsInv ==
  ASSUME Inv, NEW name \in Names, Decide(name)
  PROVE  Inv'
<1> USE DEF Failed, Observation, Causes, Fresh
<1>1. MoreSteps
  BY DEF Decide
<1>2. CASE NameUnknown(name)
  BY <1>1, <1>2, ObserveKeepsInv DEF NameUnknown, Inv, TypeOK
<1>3. CASE CallRaises(name)
  BY <1>1, <1>3, ObserveKeepsInv DEF CallRaises, Inv, TypeOK
<1>4. CASE CallTool(name)
  <2>1. PICK p \in PlaceOf(name) \cap Available, a \in Arguments :
          LET refusal == GatewayRefusal(p, CleanArguments(p, a))
          IN  \/ /\ refusal # "none"
                 /\ Observe(Failed(name, refusal))
                 /\ UNCHANGED contracts
              \/ /\ refusal = "none"
                 /\ contracts' \in LoadContracts
                 /\ \E o \in Outcomes(name, contracts') : Observe(o)
    BY <1>4 DEF CallTool, ArgumentsFor
  <2>2. CleanArguments(p, a) \in Arguments
    BY DEF CleanArguments, Arguments
  <2>3. /\ GatewayRefusal(p, CleanArguments(p, a)) \in Causes \ {"scope"}
        /\ GatewayRefusal(p, CleanArguments(p, a)) = "missing" => source.planner # source.gateway
        /\ GatewayRefusal(p, CleanArguments(p, a)) \in {"extra", "listed"} =>
             schema # "same" \/ ~TakesArguments(p)
    BY <2>2 DEF GatewayRefusal, CleanArguments, ListsProperties, Arguments, Available, ToolScopeAllowed, ScopeAllowed, Refuses
  <2>4. CASE /\ Observe(Failed(name, GatewayRefusal(p, CleanArguments(p, a))))
             /\ UNCHANGED contracts
    <3>1. Fresh(Failed(name, GatewayRefusal(p, CleanArguments(p, a))))
      BY <2>3
    <3> QED
      BY <1>1, <2>4, <3>1, ObserveKeepsInv DEF Inv, TypeOK
  <2>5. CASE /\ contracts' \in LoadContracts
             /\ \E o \in Outcomes(name, contracts') : Observe(o)
    <3>1. PICK o \in Outcomes(name, contracts') : Observe(o)
      BY <2>5
    <3>2. /\ contracts' # "unloaded" /\ (contracts # "unloaded" => contracts' = contracts)
          /\ contracts' \in {"unloaded", "cli", "none"}
      BY <2>5 DEF LoadContracts, Inv, TypeOK
    <3>3. Fresh(o)
      BY <3>1, <3>2 DEF Outcomes
    <3> QED
      BY <1>1, <3>1, <3>2, <3>3, ObserveKeepsInv
  <2> QED
    BY <2>1, <2>4, <2>5
<1> QED
  BY <1>2, <1>3, <1>4 DEF Decide

LEMMA NextKeepsInv == Inv /\ [Next]_vars => Inv'
<1> SUFFICES ASSUME Inv, [Next]_vars PROVE Inv'
  OBVIOUS
<1>1. CASE \E name \in Names : Decide(name)
  BY <1>1, DecideKeepsInv
<1>2. CASE Answer
  BY <1>2 DEF Inv, TypeOK, Available, PromptIsFresh, FieldsFollowContracts, OfferedIsAdmitted, Answer, given
<1>3. CASE Break
  BY <1>3, ReasoningAssumption
     DEF Inv, TypeOK, Available, PromptIsFresh, FieldsFollowContracts, OfferedIsAdmitted, Break, given
<1>4. CASE UNCHANGED vars
  BY <1>4 DEF Inv, TypeOK, PromptIsFresh, FieldsFollowContracts, OfferedIsAdmitted, Available, vars
<1> QED
  BY <1>1, <1>2, <1>3, <1>4 DEF Next, Done

LEMMA Invariance == Spec => []Inv
  BY InitInv, NextKeepsInv, PTL DEF Spec

-----------------------------------------------------------------------------
(* The theorems.                                                            *)

\* Each variable keeps to its set of values: the prompt has no tool the request may not
\* call and no more than MAX_PROMPT_TOOLS of them, however the observed tools and the
\* ranked ones share its places (_select_prompt_tool_names).
THEOREM TypeCorrect == Spec => []TypeOK
<1>1. Inv => TypeOK
  BY DEF Inv
<1> QED
  BY <1>1, Invariance, PTL

\* The first prompt of a question about products, customers or supply has queries.run,
\* when the request may call it, or tools with more words of the question, and
\* queries.schema: for any texts, questions and number of places (_tool_prompt_score).
THEOREM PreferredToolStays == Spec => []PreferredToolYieldsToWords
<1>1. Inv => PreferredToolYieldsToWords
  <2> SUFFICES ASSUME Inv, obs = <<>>, artifact = "none", 14 \in Available, 14 \notin offered,
                      ProductQuestion(question) \/ CustomerQuestion(question) \/ ProcurementQuestion(question),
                      NEW p \in offered \ {15}
               PROVE  question.tokens[p] > question.tokens[14]
    BY WhereToolsAre DEF PreferredToolYieldsToWords
  <2>1. /\ question \in Questions /\ Available \in SUBSET Places
        /\ offered = SelectPromptTools(question, Available, <<>>) /\ offered \subseteq Available
    BY CallableArePlaces DEF Inv, TypeOK, PromptIsFresh
  <2>2. Score[question][14] > 0
    <3>1. Catalog[14].name = "queries.run" /\ 14 \in Places
      BY WhereToolsAre
    <3>2. question.tokens[14] \in Nat
      BY <2>1, <3>1, QuestionsAssumption
    <3>3. Score[question][14] = ToolPromptScore(question, 14)
      BY <2>1, <3>1 DEF Score
    <3> QED
      BY <3>1, <3>2, <3>3 DEF ToolPromptScore
  <2>3. Outranks(question, p, 14)
    BY <2>1, <2>2, PlacesGoByRank
  <2> QED
    BY <2>1, <2>3, WordsDecide
<1> QED
  BY <1>1, Invariance, PTL

\* The tools the LLM has results of are in the prompt of its next decision, for
\* every bound on calls that is no more than that on tools (_select_prompt_tool_names).
THEOREM ObservedToolsStay == Spec => []ObservedStayOffered
<1>1. Inv => ObservedStayOffered
  BY ObservedAreSelected DEF Inv, PromptIsFresh, ObservedStayOffered
<1> QED
  BY <1>1, Invariance, PTL

\* The gateway refuses no tool of the agent's list for its scope, nor because it
\* does not know it unless its registry loaded another catalogue, nor for arguments it
\* does not know unless the CLI's schema is not that of the static model or the tool
\* takes none (_available_tools, _clean_arguments; gateway.py, call).
THEOREM OfferedToolsAdmitted == Spec => []OfferedIsAdmitted
<1>1. Inv => OfferedIsAdmitted
  BY DEF Inv
<1> QED
  BY <1>1, Invariance, PTL

\* All results of one tool in one run were read with the same fields.
THEOREM FieldsStayTheSame == Spec => []SameToolSameFields
<1>1. Inv => SameToolSameFields
  BY DEF Inv, FieldsFollowContracts, SameToolSameFields
<1> QED
  BY <1>1, Invariance, PTL
=============================================================================
