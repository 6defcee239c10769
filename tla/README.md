# Verification of the WARO agent API

This directory holds the formal model of the services in this repository: TLA+
modules that describe what the code does, TLC configurations that check them on
small instances, and theorems whose proofs TLAPS checks. It models
`services/agent-api/app` (Python, asyncio, FastAPI, PostgreSQL through asyncpg, the
`waro` CLI as a subprocess). Everything is translated from the code; where a
document says something else, a run shows the difference (see *Divergences*).

Run a check with `tlc -config Endpoints.cfg Endpoints.tla`, a proof with
`tlapm EndpointsProofs.tla`. `PROJECT.json` lists the runs, the source lines behind
each definition, the hazards, and for each property a mutant: a plausible mistake in the
code under which TLC finds the property violated.

## 1. Inventory

### Who there is

One process, one event loop. HTTP handlers (`main.py`) build a workflow per request.
A workflow opens a run in PostgreSQL, drives an agent that calls tools through the
gateway, and closes the run. Tools are `waro` CLI subprocesses. The client reads one
JSON body, or an SSE stream that it may leave at any moment.

| component | code | state it keeps | operations |
|---|---|---|---|
| sales workflow | `workflows/sales.py` | `ai.runs.status`, messages, steps; the stream's queue and graph task | `run`, `stream`, `_start_run`, `_record_step`, `_finish_run`, `_mark_failed` |
| agent runner, reasoning loop | `agent/runner.py`, `agent/tool_reasoning.py`, `agent/classifier.py` | observations, transcript, tool budget (local to a run) | `execute`, plan / call / compose |
| deterministic loop | `agent/loop.py` with intent, plan, evidence, strategy, analyst, composer | intent, plan, observations, artifact (stored with the answer) | `run`, `_execute_plan` |
| food-cost workflow | `workflows/food_cost.py` | as sales, without a task of its own | `run`, `stream` |
| agent router | `workflows/agent.py` | none (a route per request) | route, dispatch |
| tool gateway | `tools/gateway.py`, `audit.py`, `runner.py` | `ai.tool_calls` rows, open transaction, subprocess | `call` |
| database | `database.py` | the pool (class attribute), connections, transactions | `pool`, `close_pool`, `get_db_connection` |
| conversation memory | `agent/conversation.py` | none of its own: reads `ai.messages` | `load_conversation_messages`, `load_conversation_state` |
| tool catalogue | `tools/registry.py`, `schema_v2.py`, `catalog.py` | cached snapshot, lock | `refresh`, `get_spec` |
| contract registry | `tools/contracts.py` | cached contracts of one gateway | `all`, `get` |
| pure algorithms | `agent/capabilities.py`, `plan.py`, `queryspec.py`, `intent.py`, `evidence.py`, `tools/sanitize.py` ... | none | functions |
| LLM adapters | `llm/` | none | `complete`, `stream` |
| boundary | `main.py`, `dependencies/internal_auth.py`, `telemetry.py`, `config.py` | settings | endpoints |

### How they interact

* Handler to graph (sales stream): `asyncio.create_task` and an unbounded queue; the
  generator polls the task's `done()` and drains the queue afterwards.
* Workflow to database: one `async with` block is one transaction. It can commit,
  roll back, or raise with the commit unacknowledged.
* Gateway to database: one transaction spans audit row, subprocess and outcome. It
  holds a pool slot, a row lock on the run (when traced) and a key in a unique index.
* Runs of one conversation meet in `ai.messages`, ordered by `created_at`, the begin
  time of the inserting transaction.
* Planner and gateway meet through two registries, each with its own snapshot.
* Router and workflow meet in a variable that the dispatch does not read.
* Requests, orphaned graphs and the shutdown meet in one class attribute, the pool.

### What is hard

Concurrency of generator and graph task; cancellation that passes `except Exception`;
transactions whose outcome the caller does not learn; a process death between two
transactions; a subprocess that outlives its timeout; three resources held at once
while others wait; a class attribute tested before an await and assigned after it;
snapshots of different ages; a prompt rebuilt under a budget. `PROJECT.json` lists each at its line.

### What makes each component correct

* **Runs** - a caller is never told of an outcome the database does not hold; a failed
  run stays failed; a run is left `running` only by a fault on record; every request
  ends. These are the promises of `RunContract`.
* **Streams** - the events are the graph's progress, complete, in order, with tools
  paired and one closing event.
* **Gateway** - answer and audit row agree; a key executes once and the tools of a traced
  run do not overlap, unless a connection is lost meanwhile; waiting for three resources
  never blocks for ever.
* **Conversation** - a run hears its own question and every answered turn before it,
  in order; its state is not older than its messages.
* **Catalogue** - what a load stores serves its whole lifetime; an offered tool resolves;
  the tools and the version of a listing are of one lifetime.
* **Pool** - unless two first requests overlap there is one pool, whose `max_size` bounds
  the connections of the whole service, through the shutdown too; whoever waits is served
  or told.
* **Reasoning loop** - what was observed stays callable; the tool the prompt prefers yields
  only to other words of the question; what is offered is admitted; one run reads a tool with
  the same fields each time.
* **Routing** - no question is lost between the router and a workflow.
* **Deterministic loop** - an answerable question is not blocked by the greedy choice of
  tools; context changes follow-ups only; what a plan brings the answer shows; an answer
  declared safe rests on data; rows are reused only when the plan says so.

## 2. Modules

```
RunContract      abstract: status of a run and what its caller hears
  ^  ^
  |  +-- FoodCostRun     implements RunContract      FoodCostProofs
  +----- SalesRun        implements RunContract      EndpointsProofs
            ^
         Endpoints       router, sales, food cost    EndpointsProofs
Transactions     outcomes of a transaction (used by all of these)
ToolContract     abstract: keys, starts, audit rows and results of tool calls
  ^
ToolGateway      concurrent gateway calls            ToolGatewayProofs
DatabasePool     creation, use and closing           DatabasePoolProofs
Conversation     concurrent runs of a conversation   ConversationProofs
ToolCatalog      registry cache and its callers      ToolCatalogProofs
ToolReasoning    prompt, scopes, calls, contracts    ToolReasoningProofs
Questions        intent and conversation plan of a question (operators)
  ^
ToolPlanning     matching, selection, QuerySpec (operators)
  ^
AgentLoop        the loop over the turns             AgentLoopProofs
MC*              symmetry, or questions, for TLC
```

### RunContract

The abstract specification. `status[r]` is the column `ai.runs.status`; `stream[r]`
the classes of the messages the caller received. A final message needs a completed
run, an error message a failed one; a failure may overtake a completion only while the
caller has not been told (the `UPDATE` of `_mark_failed` does not look at the status).

### SalesRun

One action per piece of code between two suspension points.

| variable | code |
|---|---|
| `pc` | position in `run` / `stream` / `_stream_via_graph` |
| `task` | position in the graph: `_route_sales`, `KaliAgentRunner.execute`, `run_tool_reasoning_agent`, `_finish_run` |
| `queue`, `emitted` | `progress_queue`, and all that `progress_callback` was given |
| `obs` | `observations`, then the artifact's |
| `status`, `rows` | `ai.runs.status`, committed kinds of rows |
| `sent`, `replayed` | SSE messages that reached the client; tool events rebuilt so far |
| `lost` | faults on record (history only) |

The reasoning loop keeps its control: selection, at most `MaxToolCalls` iterations,
unknown tools that cost an iteration, tools whose gateway call succeeds, fails or
raises, and the exits that lead to a blocked artifact. With the LLM disabled the
deterministic loop is one action whose number of observations is bounded by
`MaxToolCalls` (the bound stands for the length of its plan); `AgentLoop` opens it, and
`ToolReasoning` opens the choice and the call of a tool.

### FoodCostRun

The generator itself routes, calls three tools, streams LLM tokens and finishes, so a
client that leaves stops the work where it is. `audit` is the sequence of committed
`ai.tool_calls` statuses, `calls` what the artifact says, `steps` the `ai.steps` log.
The JSON endpoint runs the same agent runner as sales and is one action here.

### Endpoints

The six question endpoints: it EXTENDS `SalesRun`, instantiates `FoodCostRun` beside it,
and puts the router in front. `endpoint[r]` is the endpoint that was called, `named[r]` the
workflow that an agent request names, `route[r]` what `AgentWorkflow.route` made of it: the
workflow named, else the regular expression's choice, or the LLM's when one is configured,
with the expression's as the fallback of every failure. `Dispatched` is the dispatch, which
gives the sales workflow the question whatever the route says; the stream of the agent
endpoint is the sales stream, unrouted (what follows the `return` in both is dead code).
`ServiceDies` is the death of the one process that all of them share.

### ToolContract

The abstract specification of the gateway. Each call has a key or none, and is before, in or
past the time it holds that key; `row[c]` is its committed audit row, `told[c]` the result
its caller has. It says when a key may be taken, that only its holder starts the tool, once,
and that a result is told with the commit of its row or never. A holder can be deprived of its
key unawares (`Deprive`): it may still start its tool, beside the next holder's, but leaves
neither a row nor a result.

### ToolGateway

A call goes through pool slot, row lock, unique index, subprocess and outcome in one
transaction: `draft[c]` is its uncommitted row, `audit[c]` the committed one. `traced`
is whether `current_trace_ids` gives a trace id, which is what makes
`ToolCallAudit.start` lock the run. A subprocess that timed out stays `running` after
its call has gone on; `Supervised(c)` tells the two cases apart.

The transaction is idle while the subprocess runs. When its connection is lost then
(`ConnectionLost`: PostgreSQL restarts or ends the session), the draft row, the key and the
lock of the run are free at once, but the call, `Orphaned`, goes on supervising its subprocess
and learns of the loss when it records the result: `RecordFails` raises and the caller gets no
answer. The opposite case, a session that PostgreSQL keeps after the service gave up on it,
is left out: it prolongs waits that `command_timeout` ends anyway.

`KeepsToolContract` maps the state to `ToolContract`: a call holds its key while it has a
draft row, and is deprived when it is orphaned. `WaitsWithin(c, S)` says that `c` waits, and
only for members of `S`; `NoDeadlock` that no set of calls waits within itself. It is about
calls among themselves: the short transactions of the workflows are not in it.

### DatabasePool

| variable | code |
|---|---|
| `current` | `DatabasePool._pool` |
| `state`, `line` | each pool and who waits for one of its connections (asyncpg, external) |
| `pc`, `mine` | where a user is in `get_db_connection`, and its local variable `pool` |
| `server` | whether `lifespan` still serves, awaits `close_pool`, or is over |
| `blocks` | the `async with` blocks a user has entered (bounded) |
| `orphans` | graphs of sales streams whose client left: no request waits for them |
| `overlapped` | two creations were in flight at once (history only) |

`create_pool` tests the attribute, awaits asyncpg and assigns, so two first requests make a
pool each: the model has both, and `OnePool` says what holds when they did not overlap.
The shutdown waits for requests but not for orphans, which may find the pool closing.

### Conversation

A transaction takes its stamp when it begins (`now()`), its row is visible when it
commits. `window` and `state` are what the two loads returned. Stamps are distinct
(two transactions never begin in the same microsecond): ties would be broken by
PostgreSQL arbitrarily.

### ToolCatalog

One registry of the application, read by the catalogue endpoint, and two per agent
request. A load holds the registry's lock, may fall back to the static list (every
failure the code names) or raise (every other). `upset` records that the CLI changed or
failed, the only excuse for a tool that the planner offers and the gateway refuses. A
listing refreshes twice, for its tools and for the version it reports: `taken` is when the
two snapshots were loaded.

### ToolReasoning

The agent of `agent/tool_reasoning.py`, which serves every question when an LLM is
configured. A question is the set of the terms that `_tool_prompt_score` looks for and, for
each tool, the number of its words that the tool's text has. These numbers are any
(`QuestionsAssumption`), because texts and questions are free. The catalogue is that of
`TOOL_SPECS` with the CLI's own tools as the tests describe them, in the order of names.
`SelectPromptTools` is the choice of the few tools of a prompt (the observed first, then
the best scored), rebuilt after each observation. `Decide` is one turn: the LLM names no
tool it may use, or one that the gateway refuses (not in its registry, out of scope, bad
arguments) or calls. `CleanArguments` is what is left of the LLM's arguments, and `schema`
how the CLI's schema stands to the static model that the gateway validates against; nothing
is dropped for a tool whose schema lists no properties, as for `data_quality`, which takes none.
`contracts` is the cache of `WaroContractRegistry`: a load that fails is kept as an empty
dict for the life of the gateway, which is the life of one run.

### Questions and ToolPlanning

What the loop computes without an LLM, as operators. A question is the set of its telling
words: each regular expression of `heuristic_intent` and each phrase list of
`heuristic_conversation_plan` is a set with one word per alternative that behaves
differently. Intents and conversation plans are records of the fields that the code
branches on. `Matches` ranks the accepted tools as `search_capabilities` does, `Select`
is the profile choice, the single QuerySpec or the greedy pass with its second domain
and its cut at three, and `PlanningRaises` is the `QuerySpecValidationError` that leaves
`build_tool_plan`. The tools are those of `TOOL_SPECS` that declare measures, with the
capabilities stated there, and three of the CLI (external), as the tests describe them
and with the fallback `DATASET_RULES`. The caller has all scopes.

### AgentLoop

| variable | code |
|---|---|
| `context` | `ConversationState`, built from the last artifact stored |
| `intent`, `talk`, `plan` | `QuestionIntent` (after `_intent_from_conversation_plan`), `ConversationPlan`, `ToolPlan` |
| `obs` | `observations` of `_execute_plan` |
| `artifact` | the fields of the stored artifact that the next turn reads |
| `outcome` | how the run ended |

`Ask` understands and plans (no other coroutine touches the run between), `ExecuteStep`
is one turn of `_execute_plan`, `Answer` is `build_evidence_artifact` and the storing of
its artifact. `StepRaises` ends the run without one; a failing `_finish_run` has the same
effect here. A row is an item of one kind with the turn and step that brought it and what it
is told apart by: an id if the tool has one among its dimensions, else a name (`NamedBy`), as
`_merge_product_rows` keys it. Figures are left out, so which rows a cap drops is open. Turns follow each other: overlapping
runs are the subject of `Conversation`. The artifact is assumed to be within the window
of messages.

## 3. Runs, bounds, what they show

| run | bounds | shows |
|---|---|---|
| `service` | 1 request to any of the six endpoints, 4 tool calls (the code's `MAX_TOOL_CALLS`), 2 tokens | every exit of the loop at full budget, every prefix of the food-cost script, with and without LLM; contract, truth of closing messages, fidelity of streams, logs and audit trail, routing, liveness |
| `gateway` | 3 calls, 2 runs, 1 key, pool of 2 | every pair conflicts on some resource while the third waits, any connection may be lost at any moment; no waiting cycle (`NoDeadlock`), every call ends; the contract of the gateway |
| `pool` | 3 users of 2 blocks, pools of 1 connection, 4 pools | overlapping creations, a line of two, orphans at work through the shutdown |
| `conversation` | 3 runs, window of 3 | a window that overflows, commits out of begin order |
| `catalog` | 1 agent request with 2 tool calls, 2 listings, TTL 2 over 2 ticks | expiry between planner and gateway and between the refreshes of a listing, contended reload, queueing behind loads that fail |
| `tool_reasoning` | 3 tool calls (code: 4) and 5 prompt tools (the code's), 5 sets of scopes; the first prompt for 128 sets of terms with 4 ways in which other words favour the tools, full runs of two | the prompt under its budget, the preferred tool among tools with more words, every refusal, both outcomes of the contract load |
| `agent_loop` | 3 turns, 12 questions (about 4500 as the first), 1 item per tool, 2 rows kept of an artifact (code: 10), 3 steps of a profile (code: 7) | planning of each question in every context that two turns leave; reuse, merging and loss of rows; whether planned rows are shown |

The other five are under *Divergences*.

In `agent_loop` a cap of two is exceeded by the three rows that a profile brings; three
turns are an answer, a follow-up and what the follow-up leaves. The first question ranges
over all sets of at most three of the 30 words that `heuristic_intent` tells apart, so
the properties of planning are checked on each of these intents.

Requests share no state in `Endpoints` except by a crash, so one is checked; the theorems
cover any number. A gateway call conflicts with
another through the pool, a run or a key: three calls reach a waiter behind a waiter.
Three users reach two creations in flight with a third that finds the attribute set.
`tool_reasoning` is cut after the first prompt for most questions (`Explored`): the tools
that later turns add depend on the question only through the ranking, and the theorems
speak of every question, every number of words and every bound; the runs explored are one
with tools that outnumber the places and one with none.

Deadlock checking is off where requests end, clocks are bounded and the system really
stops; the liveness runs say what stopping means. `AgentLoop` and `ToolReasoning`
have an action `Done` for their end, so any other standstill is reported.

### Divergences

Five runs are expected to fail; each checks a sentence of the documentation, of a comment
or of a test.

| run | the text | the code |
|---|---|---|
| `gateway_documented` | `.wr/4.yaml:24`, `docs/architecture.md:78`: tool calls persist their errors | an exception other than `ToolRunError` rolls the audit row back |
| `catalog_documented` | `docs/deployment-contract.md:88`: catalog cache TTL | every request builds registries of its own |
| `agent_safety_net` | `agent/intent.py:121`: the heuristic intent "lets the agent work even if the LLM is disabled or fails" | a ranking of orders, ingredients, suppliers or purchases has no dimension of the fallback datasets: the QuerySpec error escapes from planning and the request fails |
| `agent_stale_grain` | `tests/test_agent_loop.py:877`: the plan of the cohort question is valid | after another question it takes over the grain of the context (`agent/loop.py:349`) and is blocked |
| `tool_reasoning_list_result` | `agent/tool_reasoning.py:197`: the prompt is rebuilt "so the next LLM step can use the actual tool result" | a CLI that prints one JSON object per line gives a list (`tools/runner.py:131`); the observation keeps a dict only and says `succeeded` with `{}` |

Also seen while modelling, and not a run:

* `AgentWorkflow` always runs the sales workflow, whatever route was found;
  `docs/architecture.md:34` speaks of specialist workflows. `Dispatched` has it as it is.
* The sales stream's error event (`workflows/sales.py:399`) has neither the `status` nor the
  `error` object that `services/agent-api/README.md:95` promises and food cost sends.
* Customer rows of two turns are listed side by side where product rows are merged
  (`agent/evidence.py:728`). Product rows are merged by `id`, else by name
  (`agent/evidence.py:754`): a product that `waro.financial.products` gives with its id and
  `waro.queries.run` with its name only is listed twice. Of rows with one key the first table
  wins, and that is the previous artifact's when it is merged: older figures stay.
* A connection lost while the CLI runs frees the row of the run and the idempotency key
  (`tools/gateway.py:115`): the tools of a traced run may then overlap, and a second call with
  the key executes. `OneToolPerRun` and `NoReexecution` name exactly these calls.
* `PreferredToolYieldsToWords` is about the first prompt: there `waro.queries.run` gives way
  when other tools have more words of the question; after observations other tools can push
  it out as well, and for a question about margins `waro.queries.schema`, which the prompt
  tells the LLM to call when it is unsure of a field, gets no points.
* An argument that nobody asked for is dropped for every tool but `waro.analytics.data_quality`,
  which has no fields: `_clean_arguments` takes an empty schema for an unknown one
  (`agent/tool_reasoning.py:291`), and the call is refused although the schemas agree.
* After a question about the business, the cohort question is planned with the cohort tool
  under the grain of that one. `_ranked_rows` drops its rows and the artifact is
  `answerable` without any (`agent/evidence.py:728`): the exception of `PlansBringWhatIsShown`.
* A contract load that failed is not tried again in its run; `SameToolSameFields` is the
  good side of it.

## 4. Fairness

* `Endpoints`: weak fairness of the router once it has been asked, of the handler and of
  the food-cost generator once they have started, and of the graph. The event loop runs
  ready coroutines; every await ends: LLM calls, the router's too, carry
  `LLM_TIMEOUT_SECONDS`, tools `tool_timeout_seconds`, statements `command_timeout`.
  Nothing obliges a client to stay or a request to come, so `Disconnect`, `ServiceDies` and
  the first step of a request are not fair.
* `ToolGateway`: weak fairness of the steps that the event loop and PostgreSQL owe a
  call, the timeout included. `CliExits` is not fair: a subprocess may hang.
* `DatabasePool`: weak fairness of the steps of a user between its first block and its end,
  and of `CloseEnds`. asyncpg serves a line in order and creation has a timeout. `Cancel`,
  `Abandon` and `ShutDown` are not fair.
* `ToolCatalog`: weak fairness of each caller; `wait_for` bounds the CLI. A waiter for
  the lock is served under weak fairness because each caller refreshes finitely often.

## 5. Proofs

Each theorem holds for every value of the constants that the module's assumption allows.

| module | assumption | theorems of the specification |
|---|---|---|
| `EndpointsProofs` | `SalesAssumption`: a positive tool budget | of sales: `TypeCorrect`, `Invariance`, `TruthfulTerminals`, `NoSilentStalls`, `FailureIsFinal`, `Refinement`, `StreamsMirrorGraphs`, `ToolsArePaired`; of the service: `ServiceIsTruthful`, `ServiceIsSettled`, `ServiceRefines`, `ServiceAccountsAgree`, `ServiceTypes`, `AskedIsAlwaysRecorded` |
| `FoodCostProofs` | none: any set of runs, any bound on tokens | `TypeCorrect`, `TruthfulTerminals`, `NoSilentStalls`, `StreamsFollowScript`, `StepLogsTellStory`, `AuditsMatchArtifact`, `Refinement` |
| `ToolGatewayProofs` | `GatewayAssumption`: a positive pool size | `TypeCorrect`, `Invariance`, `AuditIsTruthful`, `RunSerialised`, `KeyGuardsExecution`, `NeverDeadlocked`, `Refinement` |
| `DatabasePoolProofs` | `PoolAssumption`: finitely many users, a positive pool size | `PoolIsAlone`, `TypeCorrect` |
| `ConversationProofs` | `ConversationAssumption`: finitely many runs, any limit | `ConversationTypes`, `RunsHearTheirQuestion`, `KnownTurnsPrecede`, `ConversationStateIsFresh` |
| `ToolCatalogProofs` | `CatalogAssumption` | `TypeCorrect`, `OffersResolve`, `ListingsAreConsistent`, `SnapshotsKeep` |
| `ToolReasoningProofs` | `ReasoningAssumption`: the tool budget is at most the places of the prompt; `QuestionsAssumption`: numbers of words are natural | `TypeCorrect`, `PreferredToolStays`, `ObservedToolsStay`, `OfferedToolsAdmitted`, `FieldsStayTheSame` |
| `AgentLoopProofs` | `LoopAssumption`, `PlanningAssumption`: one turn or more, one row kept or more, finitely many items, finite questions; a profile of three steps for `NothingIsLost`, an item for `PlansAreShown` | `TypeCorrect`, `GreedyPassIsEnough`, `NothingIsLost`, `SafeAnswersHaveData`, `PlansAreShown`, `ContextIsAskedFor`, `AnswersKeepTheirTurn` |

**Sales (EndpointsProofs).** `Typed` is `TypeOK` strengthened by `WithinBudget` (a run that
plans or calls has budget left, else `obs` could exceed it). `Inv` has one conjunct per fact a
closing message rests on: `Opening` (nothing happened before `_start_run`), `GraphHolds`
(where the graph is tells what the database has), `HandlerKnows` (past the join the
handler's position tells how the graph ended), `Closing` (only one closing message, and the
coroutine is then over), `Told` (its truth) and `Ending` (what an ended run left).
`TruthfulTerminal` alone is not inductive: it says nothing of a handler about to send. From
`Inv` follow `TruthfulTerminals`, `NoSilentStalls`, `FailureIsFinal` and, step by step,
`Refinement`: each step is one of `RunContract` or a stutter.

The two coroutines share the queue and nothing else. For `StreamsMirrorGraphs` what is
conserved is `Opened \o emitted = sent \o queue`: the generator moves an event without
changing it, and a graph that is over adds none. The invariant says this place by place, and
that the events after the join are those rebuilt from the artifact. `ToolsArePaired` adds that
what the graph emits, and what is replayed, is at every place a sequence of whole pairs or
one open announcement after them.

**The service (EndpointsProofs).** The workflows share the settings and the mode of a request,
which no step changes. A behaviour of the service is therefore one of `SalesRun` and one of
`FoodCostRun` at once (`ServiceIsSales`, `ServiceIsFood`) and keeps what each keeps. `FoodP`
is the theory of food cost instantiated with the service's variables. `Routed` ties the two
together: a request is with the workflow its endpoint belongs to and with no other. That is
what `ServiceTypes` and `AskedIsAlwaysRecorded` need beyond the theorems of the workflows.

**FoodCostProofs.** As for sales, with one coroutine. `Typed` bounds the script by position
(`WithinScript`), and the invariant's `Stored` says which rows the database has at each
position: the audit row of a tool, for one, before the event that reports it. The accounts of
a run (`AccountsInv`) are compared with its position: `Follows` and `ClosedOnScript` give the
stream as a prefix of its script, `Logged` and `Story` the step log, `Trail` the audit rows
beside the artifact's calls, one ahead where a commit is not yet acknowledged.

**ToolGatewayProofs.** The invariant adds to `AuditMatchesAnswer` that only a call past its
INSERT and before its end has a draft row (`RowWhileExecuting`; it need not have one, as a lost
connection takes it), that draft or committed rows of one key exclude each
other (`KeyExclusive`), that holders of one run's lock exclude each other (`RunExclusive`),
and that no process exists before its launch, nor a result without one (`ProcessLaunched`).
`NeverDeadlocked` goes down the order in which a call takes its resources. Of a set of calls
that waits within itself nobody has a draft row, so nobody waits for a key; nobody is past the
row of its run, so nobody waits for one; what is left waits for connections that
nobody has. The mutant reads the run's row before it updates it: two calls of one run then wait
for each other. `Refinement` sorts the steps by what the contract sees of them (`StepSeen`): a key
taken, a tool started, a call deprived (`LossKeepsContract`), settled or dropped, or nothing.

**DatabasePoolProofs.** While no two creations have overlapped, `Lone`: at most one user
creates, and only where the attribute is empty; every pool alive and every pool in a local
variable is the attribute's. `Bounded` says that no pool has more users than connections.
Together they bound the connections of the service, which neither does alone. `TypeCorrect` is
about the lines: a pool's line is exactly the users that wait for it, each once (`Lines`), and a
cancelled user leaves it wherever it stood; the attribute never names a closed pool (`Served`).

**ConversationProofs.** A window is "the rows with fewer than `Limit` younger ones". `Rows`,
`StampsOf` and `Apart` say whose the rows are and that no two share a time. The k rows younger
than a row then have the ranks 0 to k - 1 (`RanksAreDense`), and a row that the limit cuts off
has exactly `Limit` younger ones in the window (`WindowIsFull`). `Befores` says that what the caller knew is older
than the run's first statement; `Heard` that these messages and the run's own question were in
the table when it loaded. Rows committed later may take places among older ones, which changes
the window of nobody who has loaded. Where one would argue by induction on the size of the
table, the proof takes the least counterexample (`WFMin` on the order of the naturals).

**ToolCatalogProofs.** `Locked` (whoever loads holds the lock of the registry it asks) makes
a load exclusive, so the snapshot it replaces is the one found expired (`Lifetimes`). A load
under way stays due, because nobody else stores meanwhile (`LoadsAreDue`): a snapshot is
replaced a TTL after it was loaded or later (`SnapshotsKeep`). `Contents`
says what a snapshot holds while the CLI neither changed nor failed.

**ToolReasoningProofs.** Counting arguments. k observations name at most k tools, because
no two tools have one name, and k is below the tool budget, so the observed tools fit. That
the budget does not exceed the places is where the two constants of the code, set apart from
each other, must agree. What was observed then follows from the registries and the scopes.
The ranking is injective, so as many tools are in the prompt as have fewer than the free
places above them (`TypeCorrect`). For `PreferredToolStays` the topics cancel out: no tool but
`waro.queries.schema` gets more points for the topics of a question than `waro.queries.run`
does (`WordsDecide`), so a tool that stands above it has more of the question's words.

**AgentLoopProofs.** The first half is about `ToolPlanning`, for every intent that `Understand`
can make of a question and a context (`Understood`: the intents and what entity, grain,
measures and operations they combine). `Ranked` orders the accepted tools strictly, by score
and then by name, so `Matches` lists each of them once and in that order: all of them, or the
first eight. The greedy pass is a recursive function over the positions. Instead of by
induction, it is followed by the least position at which a claim about it fails: what the tools
seen so far cover, those taken cover, unless the pass has stopped because all is covered.
So a plan that misses something misses what no choice of the ranked tools has
(`GreedyPassIsEnough`). That the cut at three takes nothing away rests on pairs of tools that
the pass never takes both: of the two, the one ranked behind adds nothing to the other. Entity
by entity these pairs leave no room for a fourth tool. The second domain is the greedy pass's
own, or the fallback's, within the cut. In the order of the profile's priorities no three of
those that match are of one domain, but two may be: a profile of fewer steps could lose the
second domain, which is why `NothingIsLost` assumes three. The shipped profile has seven.

The second half is what the loop makes of a plan. `Dated`: the rows of this turn's calls are of
this turn, those of the last artifact older, and the context has no others. `Sized`: plans,
observations and contexts keep to their caps, the lists of datasets by counting.
`Executing`: what is executed is the plan of the intent, or the empty plan of a reuse. `Agreed`:
merging implies reusing. From these `TypeCorrect` follows, and `StandaloneQuestionsPlanAlike`
says that no later assignment of a turn brings the context in. `PlansAreShown` goes from the plan
back to the matches: profile, query, greedy pass and second domain select accepted tools only
(`SelectedMatch`), and an accepted tool brings rows of the kind that the ranking keeps for the
entity of its intent (`MatchesBring`).

Only model-checked: liveness and ENABLED, which are out of the prover's reach (`ServiceEnds`,
`ServiceSettles`, `OrphansFinish`, `CallsEnd`, `WaitersEnd`, `ShutdownEnds`, `RefreshEnds`), and
the five runs that are expected to fail. Every invariant and every action property of a passing
run is stated by a theorem. `AuditMatchesAnswer` and `NoReexecution` of the gateway follow from
its contract, which the run checks in their place; both have theorems of their own.

## 6. Status

1. The run contract, both workflows, the gateway, conversation memory, the catalogue and the
   deterministic loop, with the proofs for sales and gateway, came first.
2. Then the composition of the endpoints with the router, the database pool, the reasoning
   loop's prompt and contracts, the two refreshes of a listing and the state of a
   conversation that reads another run's question, with the proofs of the stream, of food
   cost, of the service, of the pool, of the catalogue and of the reasoning loop.
3. Then the remaining invariants of the runs: the pairing of tools, the accounts of food cost,
   the composed service, the conversation for any number of runs, the rows of the
   deterministic loop, the places of the prompt, and the types of every module but `AgentLoop`.
4. Then the selection of tools, for every question, and the types of `AgentLoop`; the contract
   of the gateway and its freedom from deadlock.
5. Then connections lost under a running tool, words that favour other tools of the prompt, rows
   told apart by id or name, and the agreement of planning and ranking.
6. Open: the words of conversation plans that an LLM makes; the composition of gateway and
   pool, whose meeting point (a call waits for a connection) each has on its own side.

## 7. Not modelled, and why

* **Wording**: summaries, findings, strategy, analyst, composer, prompts. They choose what is
  said and no control depends on it. Most of `agent/evidence.py` and of `composer.py` is this.
* **Code nobody reaches**: 3071 lines of `SalesWorkflow`'s methods with `tools/planner.py`
  and `data_shaper.py`; the routed streams after `return` in `workflows/agent.py`.
* **Stateless functions without a hazard**: header and HMAC checks, redaction and bounding
  of stored values, the parsing of a schema (`schema_v2.py`), evals (scores that no code
  reads back), `tools/catalog.py` (an index off the request path).
* **Outside**: the HTTP clients of the LLM, whose outcomes are choices; pydantic's
  validation, which is one refusal; telemetry, but for the trace id of a run; deployment
  scripts; the RAG schema, which no code uses.
* **Values**: figures of rows, dates, limits, sorting. Where a property needs to tell rows
  apart they carry the turn and the step that brought them.
