------------------------------ MODULE SalesRun ------------------------------
(***************************************************************************)
(* One request to the sales workflow, from its first transaction to its    *)
(* last message: services/agent-api/app/workflows/sales.py with the agent  *)
(* runner it drives.                                                       *)
(*                                                                         *)
(* A JSON request awaits the graph in its own coroutine.  A stream request *)
(* is two coroutines: the SSE generator (pc) and the graph task it spawns  *)
(* (task), which talk through an unbounded asyncio queue.  Each action is  *)
(* the code between two suspension points of one coroutine.  The client    *)
(* may leave and the process may die at any suspension point.              *)
(***************************************************************************)
EXTENDS Naturals, Sequences, Transactions

CONSTANTS
  Runs,          \* requests to the workflow
  MaxToolCalls   \* MAX_TOOL_CALLS of the reasoning loop

ASSUME SalesAssumption == MaxToolCalls \in Nat \ {0}

VARIABLES
  llmEnabled,  \* settings.llm_provider # "disabled"; fixed for the process
  mode,        \* mode[r]: "run" (JSON endpoint) or "stream" (SSE endpoint)
  pc,          \* pc[r]: where the request's own coroutine is
  sent,        \* sent[r]: messages the client received, in order
  replayed,    \* replayed[r]: tool events re-created from observations so far
  task,        \* task[r]: where the graph of r is
  queue,       \* queue[r]: progress_queue
  emitted,     \* emitted[r]: every event progress_callback was given
  obs,         \* obs[r]: observations gathered (then: in the artifact)
  status,      \* status[r]: ai.runs.status of r; "none" when there is no row
  rows,        \* rows[r]: kinds of rows committed on behalf of r
  lost         \* lost[r]: faults that took something from r (history)

config    == <<llmEnabled, mode>>
handler   == <<pc, sent, replayed>>
graph     == <<task, queue, emitted, obs>>
database  == <<status, rows>>
vars      == <<config, handler, graph, database, lost>>

HandlerPCs == {"idle", "announce", "open", "spawn", "pump", "drain", "replay",
               "finalize", "await", "failing", "report",
               "done", "broken", "gone", "dead"}
EndedPCs   == {"idle", "done", "broken", "gone", "dead"}

GraphPCs   == {"none", "route", "load_context", "classify", "select", "plan", "tool",
               "compose", "loop", "finish", "returned", "raised", "dead"}
IdleGraph  == {"none", "returned", "raised", "dead"}

ProgressEvents == {"agent_step", "llm_started", "tool_started", "tool_finished"}
ToolEvents     == {"tool_started", "tool_finished"}
Messages       == ProgressEvents \cup {"run_started", "step_started", "final", "error", "response"}

RowKinds   == {"user_message", "router_step", "artifact_step", "assistant_message",
               "context_summary", "eval_results"}
AnswerRows == {"artifact_step", "assistant_message", "context_summary", "eval_results"}
Faults     == {"crash", "disconnect", "database"}

TypeOK ==
  /\ llmEnabled \in BOOLEAN
  /\ mode \in [Runs -> {"run", "stream"}]
  /\ pc \in [Runs -> HandlerPCs]
  /\ sent \in [Runs -> Seq(Messages)]
  /\ replayed \in [Runs -> Nat]
  /\ task \in [Runs -> GraphPCs]
  /\ queue \in [Runs -> Seq(ProgressEvents)]
  /\ emitted \in [Runs -> Seq(ProgressEvents)]
  /\ obs \in [Runs -> 0..MaxToolCalls]
  /\ status \in [Runs -> {"none", "running", "completed", "failed"}]
  /\ rows \in [Runs -> SUBSET RowKinds]
  /\ lost \in [Runs -> SUBSET Faults]

Init ==
  /\ llmEnabled \in BOOLEAN
  /\ mode \in [Runs -> {"run", "stream"}]
  /\ pc = [r \in Runs |-> "idle"]
  /\ sent = [r \in Runs |-> <<>>]
  /\ replayed = [r \in Runs |-> 0]
  /\ task = [r \in Runs |-> "none"]
  /\ queue = [r \in Runs |-> <<>>]
  /\ emitted = [r \in Runs |-> <<>>]
  /\ obs = [r \in Runs |-> 0]
  /\ status = [r \in Runs |-> "none"]
  /\ rows = [r \in Runs |-> {}]
  /\ lost = [r \in Runs |-> {}]

-----------------------------------------------------------------------------
Commit(r, o, newStatus, newRows) ==
  /\ status' = IF Applied(o) THEN [status EXCEPT ![r] = newStatus] ELSE status
  /\ rows' = IF Applied(o) THEN [rows EXCEPT ![r] = @ \cup newRows] ELSE rows

Lose(r, o) ==
  lost' = IF Raises(o) THEN [lost EXCEPT ![r] = @ \cup {"database"}] ELSE lost

Goto(r, next) == pc' = [pc EXCEPT ![r] = next]

Yield(r, message, next) ==
  /\ sent' = [sent EXCEPT ![r] = Append(@, message)]
  /\ Goto(r, next)
  /\ UNCHANGED replayed

Has(r, message) == \E i \in 1..Len(sent[r]) : sent[r][i] = message

-----------------------------------------------------------------------------
(* The graph: route_sales, run_kali_agent, finish_run.                     *)

GraphGoto(r, next) == task' = [task EXCEPT ![r] = next]

EmitBounded(r, events) ==
  LET news == IF mode[r] = "stream" THEN events ELSE <<>> IN
  /\ Len(queue[r]) + Len(news) <= 2
  /\ queue' = [queue EXCEPT ![r] = @ \o news]
  /\ emitted' = [emitted EXCEPT ![r] = @ \o news]

\* progress_callback puts on an unbounded queue and never suspends.  The JSON
\* endpoint passes no callback.
Emit(r, events) ==
  LET news == IF mode[r] = "stream" THEN events ELSE <<>> IN
  /\ queue' = [queue EXCEPT ![r] = @ \o news]
  /\ emitted' = [emitted EXCEPT ![r] = @ \o news]

GraphRaises(r) == GraphGoto(r, "raised") /\ UNCHANGED <<queue, emitted, obs>>

RouteSales(r) ==
  /\ task[r] = "route"
  /\ \E o \in TxOutcomes :
       /\ Commit(r, o, status[r], {"router_step"})
       /\ \/ Raises(o) /\ GraphRaises(r)
          \/ ~Raises(o) /\ GraphGoto(r, "load_context") /\ Emit(r, <<"agent_step">>)
             /\ UNCHANGED obs
  /\ UNCHANGED <<config, handler, lost>>

LoadContext(r) ==
  /\ task[r] = "load_context"
  /\ \/ GraphRaises(r)
     \/ /\ GraphGoto(r, "classify")
        /\ Emit(r, <<"agent_step", "llm_started">>)
        /\ UNCHANGED obs
  /\ UNCHANGED <<config, handler, database, lost>>

\* Only LLM and parsing errors are caught; anything else leaves the node.
ClassifyComplexity(r) ==
  /\ task[r] = "classify"
  /\ \/ llmEnabled /\ GraphRaises(r)
     \/ /\ GraphGoto(r, IF llmEnabled THEN "select" ELSE "loop")
        /\ Emit(r, <<"agent_step">>)
        /\ UNCHANGED obs
  /\ UNCHANGED <<config, handler, database, lost>>

\* Any exception of the reasoning agent becomes a blocked artifact that carries
\* no observations, and the run goes on to finish.
Blocked(r) ==
  /\ GraphGoto(r, "finish")
  /\ obs' = [obs EXCEPT ![r] = 0]
  /\ UNCHANGED <<queue, emitted>>

SelectTools(r) ==
  /\ task[r] = "select"
  /\ \/ Blocked(r)
     \/ GraphGoto(r, "plan") /\ Emit(r, <<"agent_step", "llm_started">>) /\ UNCHANGED obs
  /\ UNCHANGED <<config, handler, database, lost>>

BudgetOffByOne(n) == n <= MaxToolCalls
BudgetLeft(n) == n < MaxToolCalls

AfterUnknownTool(n) == n + 1

\* The end of one iteration with n observations: plan again, or compose.
NextIteration(r, n, before) ==
  /\ obs' = [obs EXCEPT ![r] = n]
  /\ IF BudgetLeft(n)
     THEN GraphGoto(r, "plan") /\ Emit(r, before \o <<"llm_started">>)
     ELSE GraphGoto(r, "compose") /\ Emit(r, before \o <<"agent_step">>)

\* One planning call: it fails, answers, names a tool outside the prompt (an
\* observation and no event) or names a tool to run.
Plan(r) ==
  /\ task[r] = "plan"
  /\ \/ Blocked(r)
     \/ GraphGoto(r, "compose") /\ Emit(r, <<"agent_step">>) /\ UNCHANGED obs
     \/ NextIteration(r, AfterUnknownTool(obs[r]), <<>>)
     \/ GraphGoto(r, "tool") /\ Emit(r, <<"tool_started">>) /\ UNCHANGED obs
  /\ UNCHANGED <<config, handler, database, lost>>

CallToolUncaught(r) ==
  /\ task[r] = "tool"
  /\ (Blocked(r) \/ NextIteration(r, obs[r] + 1, <<"tool_finished">>))
  /\ UNCHANGED <<config, handler, database, lost>>

\* The gateway succeeds, fails or raises: each way one observation and one event.
CallTool(r) ==
  /\ task[r] = "tool"
  /\ NextIteration(r, obs[r] + 1, <<"tool_finished">>)
  /\ UNCHANGED <<config, handler, database, lost>>

ComposeAnswer(r) ==
  /\ task[r] = "compose"
  /\ Blocked(r) \/ (GraphGoto(r, "finish") /\ UNCHANGED <<queue, emitted, obs>>)
  /\ UNCHANGED <<config, handler, database, lost>>

\* Without an LLM the deterministic loop runs: it reports no progress, and what
\* the gateway raises is not caught.
RunAgentLoop(r) ==
  /\ task[r] = "loop"
  /\ \/ GraphRaises(r)
     \/ \E n \in 0..MaxToolCalls :
          GraphGoto(r, "finish") /\ obs' = [obs EXCEPT ![r] = n] /\ UNCHANGED <<queue, emitted>>
  /\ UNCHANGED <<config, handler, database, lost>>

FinishRun(r) ==
  /\ task[r] = "finish"
  /\ \E o \in TxOutcomes :
       /\ Commit(r, o, "completed", AnswerRows)
       /\ GraphGoto(r, IF Raises(o) THEN "raised" ELSE "returned")
  /\ UNCHANGED <<config, handler, queue, emitted, obs, lost>>

GraphStep(r) ==
  \/ RouteSales(r) \/ LoadContext(r) \/ ClassifyComplexity(r) \/ SelectTools(r)
  \/ Plan(r) \/ CallTool(r) \/ ComposeAnswer(r) \/ RunAgentLoop(r) \/ FinishRun(r)

-----------------------------------------------------------------------------
(* The request's own coroutine.                                            *)

\* _start_run stands before the try block: when it raises nobody marks the run.
StartRun(r) ==
  /\ pc[r] = "idle"
  /\ \E o \in TxOutcomes :
       /\ Commit(r, o, "running", {"user_message"})
       /\ Lose(r, o)
       /\ Goto(r, IF Raises(o) THEN "broken"
                  ELSE IF mode[r] = "stream" THEN "announce" ELSE "spawn")
  /\ UNCHANGED <<config, sent, replayed, graph>>

AnnounceRun(r) ==
  /\ pc[r] = "announce"
  /\ Yield(r, "run_started", "open")
  /\ UNCHANGED <<config, graph, database, lost>>

OpenStep(r) ==
  /\ pc[r] = "open"
  /\ Yield(r, "step_started", "spawn")
  /\ UNCHANGED <<config, graph, database, lost>>

\* asyncio.create_task for a stream, a plain await for a JSON request.
SpawnGraph(r) ==
  /\ pc[r] = "spawn"
  /\ GraphGoto(r, "route")
  /\ Goto(r, IF mode[r] = "stream" THEN "pump" ELSE "await")
  /\ UNCHANGED <<config, sent, replayed, queue, emitted, obs, database, lost>>

QueueLooksQuiet(r) == queue[r] = <<>>
GraphReturned(r) == task[r] = "returned"
GraphDone(r) == task[r] \in {"returned", "raised"}

DrainSkipped(r) == TRUE
Drained(r) == queue[r] = <<>>

Dequeue(r) ==
  /\ queue[r] # <<>>
  /\ queue' = [queue EXCEPT ![r] = Tail(@)]
  /\ Yield(r, Head(queue[r]), pc[r])
  /\ UNCHANGED <<config, task, emitted, obs, database, lost>>

\* while not graph_task.done(): one event, or a 0.1 s timeout that changes nothing.
PumpEvent(r) ==
  /\ pc[r] = "pump"
  /\ ~GraphDone(r)
  /\ Dequeue(r)

LeavePump(r) ==
  /\ pc[r] = "pump"
  /\ GraphDone(r)
  /\ Goto(r, "drain")
  /\ UNCHANGED <<config, sent, replayed, graph, database, lost>>

DrainEvent(r) ==
  /\ pc[r] = "drain"
  /\ Dequeue(r)

LiveToolEvents(r) == \E i \in 1..Len(emitted[r]) : emitted[r][i] \in ToolEvents

\* The except clause of run and stream.
NoHandler == "broken"
OnError == "failing"

\* await graph_task: its result, or the exception that ended it.
JoinGraph(r) ==
  /\ \/ pc[r] = "drain" /\ Drained(r)
     \/ pc[r] = "await" /\ GraphDone(r)
  /\ Goto(r, IF task[r] = "raised" THEN OnError
             ELSE IF mode[r] = "stream" /\ ~LiveToolEvents(r) /\ obs[r] > 0 THEN "replay"
             ELSE "finalize")
  /\ UNCHANGED <<config, sent, replayed, graph, database, lost>>

\* tool_started and tool_finished of each observation, when none went out live.
ReplayToolEvent(r) ==
  /\ pc[r] = "replay"
  /\ sent' = [sent EXCEPT ![r] =
                Append(@, IF replayed[r] % 2 = 0 THEN "tool_started" ELSE "tool_finished")]
  /\ replayed' = [replayed EXCEPT ![r] = @ + 1]
  /\ Goto(r, IF replayed[r] + 1 = 2 * obs[r] THEN "finalize" ELSE "replay")
  /\ UNCHANGED <<config, graph, database, lost>>

\* The final event of a stream, the response body of a JSON request.
Conclude(r) ==
  /\ pc[r] = "finalize"
  /\ Yield(r, IF mode[r] = "stream" THEN "final" ELSE "response", "done")
  /\ UNCHANGED <<config, graph, database, lost>>

\* UPDATE ai.runs SET status = 'failed' WHERE id: whatever the status was.  A JSON
\* request then re-raises; if the UPDATE itself raises no message follows.
MarkFailed(r) ==
  /\ pc[r] = "failing"
  /\ \E o \in TxOutcomes :
       /\ Commit(r, o, "failed", {})
       /\ Lose(r, o)
       /\ Goto(r, IF ~Raises(o) /\ mode[r] = "stream" THEN "report" ELSE "broken")
  /\ UNCHANGED <<config, sent, replayed, graph>>

ReportError(r) ==
  /\ pc[r] = "report"
  /\ Yield(r, "error", "done")
  /\ UNCHANGED <<config, graph, database, lost>>

HandlerStep(r) ==
  \/ StartRun(r) \/ AnnounceRun(r) \/ OpenStep(r) \/ SpawnGraph(r)
  \/ PumpEvent(r) \/ LeavePump(r) \/ DrainEvent(r) \/ JoinGraph(r)
  \/ ReplayToolEvent(r) \/ Conclude(r) \/ MarkFailed(r) \/ ReportError(r)

-----------------------------------------------------------------------------
(* Faults.                                                                 *)

DisconnectMarksFailed(r) ==
  /\ mode[r] = "stream" /\ pc[r] \notin EndedPCs
  /\ Goto(r, "gone")
  /\ status' = [status EXCEPT ![r] = "failed"]
  /\ lost' = [lost EXCEPT ![r] = @ \cup {"disconnect"}]
  /\ UNCHANGED <<config, sent, replayed, graph, rows>>

\* The generator is cancelled or closed: CancelledError and GeneratorExit pass the
\* except Exception clauses.  The graph task is not awaited there and runs on.
Disconnect(r) ==
  /\ mode[r] = "stream" /\ pc[r] \notin EndedPCs
  /\ Goto(r, "gone")
  /\ lost' = [lost EXCEPT ![r] = @ \cup {"disconnect"}]
  /\ UNCHANGED <<config, sent, replayed, graph, database>>

\* The process dies: open transactions roll back, committed rows stay, and no
\* code looks for runs left behind when the service comes back.
Crash ==
  LET hit == {r \in Runs : pc[r] \notin EndedPCs \/ task[r] \notin IdleGraph} IN
  /\ hit # {}
  /\ pc' = [r \in Runs |-> IF pc[r] \in EndedPCs THEN pc[r] ELSE "dead"]
  /\ task' = [r \in Runs |-> IF task[r] \in IdleGraph THEN task[r] ELSE "dead"]
  /\ lost' = [r \in Runs |-> IF r \in hit THEN lost[r] \cup {"crash"} ELSE lost[r]]
  /\ UNCHANGED <<config, sent, replayed, queue, emitted, obs, database>>

-----------------------------------------------------------------------------

Next ==
  \/ \E r \in Runs : GraphStep(r)
  \/ \E r \in Runs : HandlerStep(r)
  \/ \E r \in Runs : Disconnect(r)
  \/ Crash

Spec == Init /\ [][Next]_vars

\* The event loop is not starved, and every awaited call ends: LLM calls, tool
\* subprocesses and database commands all carry timeouts.
Fairness == \A r \in Runs : WF_vars(GraphStep(r)) /\ WF_vars(HandlerStep(r) /\ pc[r] # "idle")

FairSpec == Spec /\ Fairness

-----------------------------------------------------------------------------
(* Safety.                                                                 *)

\* A caller told "completed" (the final event or the JSON body) can read the
\* completed run and every row of its answer in the database, now and later; a
\* caller told "error" finds the run failed.  The final event is built from the
\* graph's result after the queue is drained, the error event after _mark_failed.
TruthfulTerminal ==
  \A r \in Runs :
    /\ (Has(r, "final") \/ Has(r, "response"))
         => status[r] = "completed" /\ RowKinds \subseteq rows[r]
    /\ Has(r, "error") => status[r] = "failed"

\* A closed stream holds the two opening events, every progress event in the
\* order the graph produced it, tool events rebuilt from the artifact exactly
\* when none went out live, and one closing event, last.
Rebuilt(r) ==
  [i \in 1..replayed[r] |-> IF i % 2 = 1 THEN "tool_started" ELSE "tool_finished"]

StreamMirrorsGraph ==
  \A r \in Runs :
    LET whole(ending) == <<"run_started", "step_started">> \o emitted[r] \o Rebuilt(r) \o <<ending>>
    IN
    /\ Has(r, "final") => sent[r] = whole("final")
    /\ Has(r, "error") => sent[r] = whole("error")
    /\ Has(r, "response") => sent[r] = <<"response">>

\* In a stream that reached its closing event every tool_started has its
\* tool_finished, and the other way round, with no tool event between them: no
\* tool is announced twice, left open or finished unannounced, whatever the
\* gateway, the planner or the composer raised.
NoTool(s, i, j) == \A k \in 1..Len(s) : i < k /\ k < j => s[k] \notin ToolEvents

Paired(s) ==
  \A i \in 1..Len(s) :
    /\ s[i] = "tool_started" =>
         \E j \in 1..Len(s) : i < j /\ s[j] = "tool_finished" /\ NoTool(s, i, j)
    /\ s[i] = "tool_finished" =>
         \E j \in 1..Len(s) : j < i /\ s[j] = "tool_started" /\ NoTool(s, j, i)

ToolsPaired == \A r \in Runs : Has(r, "final") \/ Has(r, "error") => Paired(sent[r])

\* A run whose coroutines are all over is left 'running' only by a crash, by a
\* database failure that hit _start_run or _mark_failed, or by a client that left
\* before its graph was spawned or whose orphaned graph then raised.
Quiet(r) == pc[r] \in EndedPCs /\ task[r] \in IdleGraph

NoSilentStall ==
  \A r \in Runs : Quiet(r) /\ status[r] = "running" =>
    \/ lost[r] \cap {"crash", "database"} # {}
    \/ "disconnect" \in lost[r] /\ task[r] \in {"none", "raised"}

\* 'failed' is final: the graph that could still write 'completed' is over
\* before anything marks the run failed, although the two never synchronise.
FailedIsFinal == [][\A r \in Runs : status[r] = "failed" => status'[r] = "failed"]_vars

\* The run and stream endpoints implement the contract of RunContract.
MessageClass(m) ==
  IF m \in ProgressEvents \cup {"step_started"} THEN "progress" ELSE m

heard == [r \in Runs |-> [i \in 1..Len(sent[r]) |-> MessageClass(sent[r][i])]]

Contract == INSTANCE RunContract WITH status <- status, stream <- heard

ImplementsContract == Contract!Spec

-----------------------------------------------------------------------------
(* Liveness.                                                               *)

\* Every request that started ends: with its closing message, an HTTP failure, or
\* because the client or the process went away.
RequestsEnd == \A r \in Runs : pc[r] # "idle" ~> pc[r] \in EndedPCs \ {"idle"}

\* A started graph ends even when its stream has been abandoned, so a
\* disconnected client still gets a settled run unless a fault is on record.
RunsSettle == \A r \in Runs : status[r] = "running" ~> status[r] # "running" \/ lost[r] # {}
OrphansFinish == \A r \in Runs : task[r] = "route" ~> task[r] \in {"returned", "raised", "dead"}

=============================================================================
