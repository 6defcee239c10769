------------------------------ MODULE Endpoints ------------------------------
(***************************************************************************)
(* The question endpoints of services/agent-api/app/main.py and what       *)
(* stands behind them: the sales workflow (SalesRun), the food-cost        *)
(* workflow (FoodCostRun) and, in front of the former, the router of       *)
(* workflows/agent.py.  They share the process, its settings and its       *)
(* database.                                                               *)
(*                                                                         *)
(* The router asks a regular expression or an LLM which workflow a         *)
(* question belongs to, before there is a run.  The sales workflow then    *)
(* gets the question whatever the answer was, and the agent's stream is    *)
(* the sales stream, unrouted: the code for both behind `return` is dead.  *)
(***************************************************************************)
EXTENDS SalesRun

CONSTANT MaxTokens   \* bound on the token events of one food-cost stream

ASSUME EndpointsAssumption == MaxTokens \in Nat

VARIABLES
  endpoint,  \* endpoint[r]: which of the endpoints r called
  named,     \* named[r]: the workflow an agent request names, or "none"
  route,     \* route[r]: the agent's state["route"].workflow, "llm" while it is asked
  foodPc, foodSent, calls, summary, foodStatus, steps, audit, answered, foodLost

Food == INSTANCE FoodCostRun
          WITH pc <- foodPc, sent <- foodSent, status <- foodStatus, lost <- foodLost

asked       == <<endpoint, named>>
foodVars    == <<foodPc, foodSent, calls, summary, foodStatus, steps, audit, answered, foodLost>>
serviceVars == <<vars, asked, route, foodVars>>

Workflows == {"sales", "food_cost"}

RoutesTyped ==
  /\ endpoint \in [Runs -> Workflows \cup {"agent"}]
  /\ named \in [Runs -> Workflows \cup {"none"}]
  /\ route \in [Runs -> Workflows \cup {"none", "llm", "raised", "dead"}]
  /\ \A r \in Runs : foodPc[r] = "idle" \/ (pc[r] = "idle" /\ task[r] = "none")

ServiceTypeOK == TypeOK /\ Food!TypeOK /\ RoutesTyped

ServiceInit ==
  /\ Init /\ Food!Init
  /\ endpoint \in [Runs -> Workflows \cup {"agent"}]
  /\ named \in [Runs -> Workflows \cup {"none"}]
  /\ \A r \in Runs : endpoint[r] # "agent" \/ mode[r] = "stream" => named[r] = "none"
  /\ route = [r \in Runs |-> "none"]

-----------------------------------------------------------------------------
(* The router.                                                             *)

\* The workflow the request names; else what the regular expression makes of it.
Fallbacks(r) == IF named[r] # "none" THEN {named[r]} ELSE Workflows

RouteAgent(r) ==
  /\ endpoint[r] = "agent" /\ mode[r] = "run" /\ route[r] = "none"
  /\ \E w \in IF named[r] = "none" /\ llmEnabled THEN {"llm"} ELSE Fallbacks(r) :
       route' = [route EXCEPT ![r] = w]
  /\ UNCHANGED <<vars, asked, foodVars>>

RouterRaises(r) == {"raised"}

\* A provider error, text that is not JSON, a workflow nobody knows: the fallback.
RouterFails(r) == Fallbacks(r)

\* An answer the LLM is confident of is taken, one it is not is dropped.
AskRouterLLM(r) ==
  /\ route[r] = "llm"
  /\ \E w \in Workflows \cup Fallbacks(r) \cup RouterFails(r) : route' = [route EXCEPT ![r] = w]
  /\ UNCHANGED <<vars, asked, foodVars>>

Route(r) == RouteAgent(r) \/ AskRouterLLM(r)

-----------------------------------------------------------------------------
(* The workflows.                                                          *)

SalesRoutesOnly(r) ==
  \/ endpoint[r] = "sales"
  \/ endpoint[r] = "agent" /\ (mode[r] = "stream" \/ route[r] = "sales")

\* Whatever the router said.
Dispatched(r) ==
  \/ endpoint[r] = "sales"
  \/ endpoint[r] = "agent" /\ (mode[r] = "stream" \/ route[r] \in Workflows)

Sales(r) ==
  /\ pc[r] = "idle" => Dispatched(r)
  /\ HandlerStep(r) \/ GraphStep(r) \/ Disconnect(r)
  /\ UNCHANGED <<asked, route, foodVars>>

FoodCost(r) ==
  /\ endpoint[r] = "food_cost"
  /\ Food!RunStep(r) \/ Food!Disconnect(r)
  /\ UNCHANGED <<vars, asked, route>>

\* The process dies with everything in it.
SalesAlive == \E r \in Runs : pc[r] \notin EndedPCs \/ task[r] \notin IdleGraph
FoodAlive  == \E r \in Runs : foodPc[r] \notin Food!EndedPCs
Routing    == {r \in Runs : route[r] # "none" /\ pc[r] = "idle"}

ServiceDies ==
  /\ SalesAlive \/ FoodAlive \/ Routing # {}
  /\ IF SalesAlive THEN Crash ELSE UNCHANGED vars
  /\ IF FoodAlive THEN Food!Crash ELSE UNCHANGED foodVars
  /\ route' = [r \in Runs |-> IF r \in Routing THEN "dead" ELSE route[r]]
  /\ UNCHANGED asked

ServiceNext ==
  \/ \E r \in Runs : Route(r) \/ Sales(r) \/ FoodCost(r)
  \/ ServiceDies

\* As in SalesRun; a request the router let through goes on, and the food-cost
\* workflow runs in a coroutine of its own.  The router's LLM call has a timeout.
ServiceFairness ==
  \A r \in Runs :
    /\ WF_serviceVars(Route(r) /\ route[r] # "none")
    /\ WF_serviceVars(Sales(r) /\ HandlerStep(r) /\ (pc[r] # "idle" \/ route[r] # "none"))
    /\ WF_serviceVars(Sales(r) /\ GraphStep(r))
    /\ WF_serviceVars(FoodCost(r) /\ Food!RunStep(r) /\ foodPc[r] # "idle")

ServiceSpec == ServiceInit /\ [][ServiceNext]_serviceVars /\ ServiceFairness

-----------------------------------------------------------------------------
(* Properties: those of SalesRun and FoodCostRun kept side by side, and     *)
(* what routing must not take from them.                                   *)

\* Whichever endpoint was asked, a caller told of an outcome finds it in the database,
\* with every row that belongs to it (SalesRun, FoodCostRun).
TruthfulService == TruthfulTerminal /\ Food!TruthfulTerminal

\* No run of either workflow is left running without a fault on record.
SettledService == NoSilentStall /\ Food!NoSilentStall

\* The four accounts of a food-cost request agree: its stream follows the script, the
\* step log tells the same story, and the artifact's tools are those of the audit trail.
FoodAccountsAgree ==
  Food!StreamFollowsScript /\ Food!StepLogTellsStory /\ Food!AuditMatchesArtifact

\* A question asked of any endpoint that is over has its run in the database: routing
\* never loses one, whatever the LLM answered, unless a fault is on record.
AskedIsRecorded ==
  \A r \in Runs :
    /\ pc[r] \in EndedPCs \ {"idle"} => status[r] # "none" \/ lost[r] # {}
    /\ foodPc[r] \in EndedPCs \ {"idle"} => foodStatus[r] # "none" \/ foodLost[r] # {}
    /\ route[r] # "raised"

\* All six endpoints keep RunContract, beside each other and behind the router; in
\* particular nothing completes a run that was marked failed.
ServiceKeepsContract == ImplementsContract /\ Food!ImplementsContract

\* A question the router is asked about reaches its workflow, and whatever reached the
\* sales workflow ends.
ServiceEnds ==
  \A r \in Runs :
    /\ route[r] = "llm" ~> pc[r] \in EndedPCs \ {"idle"} \/ route[r] = "dead"
    /\ pc[r] # "idle" ~> pc[r] \in EndedPCs \ {"idle"}

\* No run of either workflow stays running for ever without a fault on record.
ServiceSettles ==
  \A r \in Runs :
    /\ status[r] = "running" ~> status[r] # "running" \/ lost[r] # {}
    /\ foodStatus[r] = "running" ~> foodStatus[r] # "running" \/ foodLost[r] # {}
=============================================================================
