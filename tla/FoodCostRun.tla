----------------------------- MODULE FoodCostRun -----------------------------
(***************************************************************************)
(* One request to the food-cost workflow, from its first transaction to    *)
(* its last message: services/agent-api/app/workflows/food_cost.py.        *)
(*                                                                         *)
(* Unlike the sales stream this one has no task of its own: the SSE        *)
(* generator calls the tools and the LLM itself, between its yields.  When *)
(* the client leaves, the work stops where it is.  The JSON endpoint runs  *)
(* another program, the Kali graph, which is one action here: SalesRun has *)
(* its detail.                                                             *)
(***************************************************************************)
EXTENDS Naturals, Sequences, FiniteSets, Transactions

CONSTANTS
  Runs,       \* requests to the workflow
  MaxTokens   \* bound on the token events of one LLM stream

VARIABLES
  llmEnabled,  \* settings.llm_provider # "disabled"; fixed for the process
  mode,        \* mode[r]: "run" (JSON endpoint) or "stream" (SSE endpoint)
  pc,          \* pc[r]: where the request's coroutine is
  sent,        \* sent[r]: messages the client received, in order
  calls,       \* calls[r]: statuses in tool_calls, one per answered tool
  summary,     \* summary[r]: what summary_holder has: "none", "llm" or "fallback"
  status,      \* status[r]: ai.runs.status of r; "none" when there is no row
  steps,       \* steps[r]: ai.steps rows of r in order of creation, by name
  audit,       \* audit[r]: statuses of the committed ai.tool_calls rows of r
  answered,    \* answered[r]: the assistant message, summary and evals are committed
  lost         \* lost[r]: faults that took something from r (history)

config   == <<llmEnabled, mode>>
work     == <<calls, summary>>
database == <<status, steps, audit, answered>>
vars     == <<config, pc, sent, work, database, lost>>

\* The tools of _required_tool_calls, called in this order.
RequiredTools == <<"waro.analytics.food_cost", "waro.menu.products", "waro.financial.products">>

PCs      == {"idle", "announce", "open", "route", "prepare", "start_tool", "call", "finish_tool",
             "build", "open_llm", "llm", "summarised", "finish", "finalize", "kali",
             "failing", "report", "done", "broken", "gone", "dead"}
EndedPCs == {"idle", "done", "broken", "gone", "dead"}

Messages  == {"run_started", "step_started", "tool_started", "tool_finished",
              "llm_started", "token", "final", "error", "response"}
Outcomes  == {"succeeded", "failed"}
StepNames == {"router", "tool", "llm_summary", "llm_fallback", "artifact"}
Faults    == {"crash", "disconnect", "database"}

TypeOK ==
  /\ llmEnabled \in BOOLEAN
  /\ mode \in [Runs -> {"run", "stream"}]
  /\ pc \in [Runs -> PCs]
  /\ sent \in [Runs -> Seq(Messages)]
  /\ calls \in [Runs -> UNION {[1..n -> Outcomes] : n \in 0..Len(RequiredTools)}]
  /\ summary \in [Runs -> {"none", "llm", "fallback"}]
  /\ status \in [Runs -> {"none", "running", "completed", "failed"}]
  /\ steps \in [Runs -> Seq(StepNames)]
  /\ audit \in [Runs -> Seq(Outcomes)]
  /\ answered \in [Runs -> BOOLEAN]
  /\ lost \in [Runs -> SUBSET Faults]

Init ==
  /\ llmEnabled \in BOOLEAN
  /\ mode \in [Runs -> {"run", "stream"}]
  /\ pc = [r \in Runs |-> "idle"]
  /\ sent = [r \in Runs |-> <<>>]
  /\ calls = [r \in Runs |-> <<>>]
  /\ summary = [r \in Runs |-> "none"]
  /\ status = [r \in Runs |-> "none"]
  /\ steps = [r \in Runs |-> <<>>]
  /\ audit = [r \in Runs |-> <<>>]
  /\ answered = [r \in Runs |-> FALSE]
  /\ lost = [r \in Runs |-> {}]

Goto(r, next) == pc' = [pc EXCEPT ![r] = next]

Tell(r, message, next) ==
  /\ sent' = [sent EXCEPT ![r] = Append(@, message)]
  /\ Goto(r, next)

Has(r, message) == \E i \in 1..Len(sent[r]) : sent[r][i] = message
Count(s, x)     == Cardinality({i \in 1..Len(s) : s[i] = x})

\* The except clause of run and stream.
NoHandler == "broken"
OnError == "failing"

SetStatus(r, o, new) ==
  status' = IF Applied(o) THEN [status EXCEPT ![r] = new] ELSE status

Lose(r, o) ==
  lost' = IF Raises(o) THEN [lost EXCEPT ![r] = @ \cup {"database"}] ELSE lost

\* _record_step: one ai.steps row in a transaction of its own.
RecordStep(r, name, next) ==
  \E o \in TxOutcomes :
    /\ steps' = IF Applied(o) THEN [steps EXCEPT ![r] = Append(@, name)] ELSE steps
    /\ Goto(r, IF Raises(o) THEN OnError ELSE next)
    /\ UNCHANGED <<status, audit, answered>>

-----------------------------------------------------------------------------
(* The stream.                                                             *)

\* _start_run stands before the try block.
StartRun(r) ==
  /\ pc[r] = "idle"
  /\ \E o \in TxOutcomes :
       /\ SetStatus(r, o, "running")
       /\ Lose(r, o)
       /\ Goto(r, IF Raises(o) THEN "broken"
                  ELSE IF mode[r] = "stream" THEN "announce" ELSE "kali")
  /\ UNCHANGED <<config, sent, work, steps, audit, answered>>

AnnounceRun(r) ==
  /\ pc[r] = "announce"
  /\ Tell(r, "run_started", "open")
  /\ UNCHANGED <<config, work, database, lost>>

OpenStep(r) ==
  /\ pc[r] = "open"
  /\ Tell(r, "step_started", "route")
  /\ UNCHANGED <<config, work, database, lost>>

RouteFoodCost(r) ==
  /\ pc[r] = "route"
  /\ RecordStep(r, "router", "prepare")
  /\ UNCHANGED <<config, sent, work, lost>>

PrepareCall(r) ==
  /\ pc[r] = "prepare"
  /\ RecordStep(r, "tool", "start_tool")
  /\ UNCHANGED <<config, sent, work, lost>>

StartTool(r) ==
  /\ pc[r] = "start_tool"
  /\ Tell(r, "tool_started", "call")
  /\ UNCHANGED <<config, work, database, lost>>

CallToolBestEffort(r) ==
  /\ pc[r] = "call"
  /\ \E outcome \in Outcomes, o \in TxOutcomes :
       /\ audit' = IF Applied(o) THEN [audit EXCEPT ![r] = Append(@, outcome)] ELSE audit
       /\ calls' = [calls EXCEPT ![r] = Append(@, outcome)]
       /\ Goto(r, "finish_tool")
  /\ UNCHANGED <<config, sent, summary, status, steps, answered, lost>>

\* gateway.call: the tool's outcome is returned once its ai.tool_calls row is
\* committed; whatever the gateway raises (a rejection included) ends the run.
CallTool(r) ==
  /\ pc[r] = "call"
  /\ \E outcome \in Outcomes, o \in TxOutcomes :
       /\ audit' = IF Applied(o) THEN [audit EXCEPT ![r] = Append(@, outcome)] ELSE audit
       /\ IF Raises(o)
          THEN Goto(r, OnError) /\ UNCHANGED calls
          ELSE Goto(r, "finish_tool") /\ calls' = [calls EXCEPT ![r] = Append(@, outcome)]
  /\ UNCHANGED <<config, sent, summary, status, steps, answered, lost>>

StopAfterFailedTool(r) ==
  IF calls[r][Len(calls[r])] = "failed" \/ Len(calls[r]) = Len(RequiredTools)
  THEN "build" ELSE "prepare"

\* A failed tool does not stop the others.
AfterTool(r) == IF Len(calls[r]) = Len(RequiredTools) THEN "build" ELSE "prepare"

FinishTool(r) ==
  /\ pc[r] = "finish_tool"
  /\ Tell(r, "tool_finished", AfterTool(r))
  /\ UNCHANGED <<config, work, database, lost>>

\* Rows of unexpected shape make the sort of _build_artifact raise.
BuildArtifact(r) ==
  /\ pc[r] = "build"
  /\ \/ Goto(r, OnError) /\ UNCHANGED summary
     \/ llmEnabled /\ Goto(r, "open_llm") /\ UNCHANGED summary
     \/ ~llmEnabled /\ Goto(r, "finish") /\ summary' = [summary EXCEPT ![r] = "fallback"]
  /\ UNCHANGED <<config, sent, calls, database, lost>>

OpenLLM(r) ==
  /\ pc[r] = "open_llm"
  /\ Tell(r, "llm_started", "llm")
  /\ UNCHANGED <<config, work, database, lost>>

StreamToken(r) ==
  /\ pc[r] = "llm"
  /\ Count(sent[r], "token") < MaxTokens
  /\ Tell(r, "token", "llm")
  /\ UNCHANGED <<config, work, database, lost>>

\* The LLM stream ends with its final response, or breaks (an error, or no final
\* response).  Either way a step is recorded first, and a break, like an empty
\* response, costs only the text.
EndLLMStream(r) ==
  /\ pc[r] = "llm"
  /\ \E name \in {"llm_summary", "llm_fallback"}, text \in {"llm", "fallback"} :
       /\ name = "llm_fallback" => text = "fallback"
       /\ RecordStep(r, name, "finish")
       /\ summary' = IF pc'[r] = "finish" THEN [summary EXCEPT ![r] = text] ELSE summary
  /\ UNCHANGED <<config, sent, calls, lost>>

-----------------------------------------------------------------------------
(* The JSON endpoint's graph, and the end of both.                         *)

\* run_kali_agent: an artifact and its summary, or an exception.  The rows its
\* tool calls leave in ai.tool_calls are not followed here.
RunKaliAgent(r) ==
  /\ pc[r] = "kali"
  /\ \/ Goto(r, OnError) /\ UNCHANGED summary
     \/ /\ Goto(r, "finish")
        /\ \E text \in {"llm", "fallback"} : summary' = [summary EXCEPT ![r] = text]
  /\ UNCHANGED <<config, sent, calls, database, lost>>

CommitAnswerApart(r) ==
  /\ pc[r] = "finish"
  /\ \E o \in TxOutcomes :
       /\ SetStatus(r, o, "completed")
       /\ Goto(r, IF Raises(o) THEN OnError ELSE "finalize")
  /\ UNCHANGED <<config, sent, work, steps, audit, answered, lost>>

\* _finish_run: artifact step, assistant message, summary, evals and status are
\* one transaction.
FinishRun(r) ==
  /\ pc[r] = "finish"
  /\ \E o \in TxOutcomes :
       /\ SetStatus(r, o, "completed")
       /\ steps' = IF Applied(o) THEN [steps EXCEPT ![r] = Append(@, "artifact")] ELSE steps
       /\ answered' = IF Applied(o) THEN [answered EXCEPT ![r] = TRUE] ELSE answered
       /\ Goto(r, IF Raises(o) THEN OnError ELSE "finalize")
  /\ UNCHANGED <<config, sent, work, audit, lost>>

Conclude(r) ==
  /\ pc[r] = "finalize"
  /\ Tell(r, IF mode[r] = "stream" THEN "final" ELSE "response", "done")
  /\ UNCHANGED <<config, work, database, lost>>

ReportUnmarked(r) ==
  /\ pc[r] = "failing"
  /\ \E o \in TxOutcomes :
       /\ SetStatus(r, o, "failed")
       /\ Lose(r, o)
       /\ Goto(r, IF mode[r] = "stream" THEN "report" ELSE "broken")
  /\ UNCHANGED <<config, sent, work, steps, audit, answered>>

MarkFailedAndRetry(r) ==
  /\ pc[r] = "failing"
  /\ \E o \in TxOutcomes :
       /\ SetStatus(r, o, "failed")
       /\ Lose(r, o)
       /\ Goto(r, "finish")
  /\ UNCHANGED <<config, sent, work, steps, audit, answered>>

\* UPDATE ai.runs SET status = 'failed', whatever the status was.  If it raises, the
\* generator ends without an error event.
MarkFailed(r) ==
  /\ pc[r] = "failing"
  /\ \E o \in TxOutcomes :
       /\ SetStatus(r, o, "failed")
       /\ Lose(r, o)
       /\ Goto(r, IF ~Raises(o) /\ mode[r] = "stream" THEN "report" ELSE "broken")
  /\ UNCHANGED <<config, sent, work, steps, audit, answered>>

ReportError(r) ==
  /\ pc[r] = "report"
  /\ Tell(r, "error", "done")
  /\ UNCHANGED <<config, work, database, lost>>

RunStep(r) ==
  \/ StartRun(r) \/ AnnounceRun(r) \/ OpenStep(r) \/ RouteFoodCost(r)
  \/ PrepareCall(r) \/ StartTool(r) \/ CallTool(r) \/ FinishTool(r)
  \/ BuildArtifact(r) \/ OpenLLM(r) \/ StreamToken(r) \/ EndLLMStream(r)
  \/ RunKaliAgent(r) \/ FinishRun(r) \/ Conclude(r) \/ MarkFailed(r) \/ ReportError(r)

-----------------------------------------------------------------------------
(* Faults.                                                                 *)

\* The generator is cancelled or closed: neither passes an except Exception clause,
\* so nobody marks the run.  An open transaction rolls back.
Disconnect(r) ==
  /\ mode[r] = "stream" /\ pc[r] \notin EndedPCs
  /\ Goto(r, "gone")
  /\ lost' = [lost EXCEPT ![r] = @ \cup {"disconnect"}]
  /\ UNCHANGED <<config, sent, work, database>>

Crash ==
  LET hit == {r \in Runs : pc[r] \notin EndedPCs} IN
  /\ hit # {}
  /\ pc' = [r \in Runs |-> IF r \in hit THEN "dead" ELSE pc[r]]
  /\ lost' = [r \in Runs |-> IF r \in hit THEN lost[r] \cup {"crash"} ELSE lost[r]]
  /\ UNCHANGED <<config, sent, work, database>>

Next ==
  \/ \E r \in Runs : RunStep(r)
  \/ \E r \in Runs : Disconnect(r)
  \/ Crash

Spec == Init /\ [][Next]_vars

-----------------------------------------------------------------------------
(* Properties.                                                             *)

\* A caller told "completed" finds the run completed and its answer (artifact step,
\* message, summary, evals) committed; a caller told "error" finds it failed.
TruthfulTerminal ==
  \A r \in Runs :
    /\ (Has(r, "final") \/ Has(r, "response")) => status[r] = "completed" /\ answered[r]
    /\ Has(r, "error") => status[r] = "failed"

\* The script of a stream with k token events, up to its closing event.
Script(k) ==
  <<"run_started", "step_started">>
  \o [i \in 1..2 * Len(RequiredTools) |-> IF i % 2 = 1 THEN "tool_started" ELSE "tool_finished"]
  \o (IF llmEnabled THEN <<"llm_started">> ELSE <<>>)
  \o [i \in 1..k |-> "token"]

\* A stream that closes with final has played its whole script: every required tool
\* started and finished once, in order, before any token.  One that closes with
\* error stopped somewhere in it, so at most its last tool is left open.
StreamFollowsScript ==
  \A r \in Runs :
    LET said == Len(sent[r]) - 1
        k    == Count(sent[r], "token")
    IN
    /\ Has(r, "final") => sent[r] = Script(k) \o <<"final">>
    /\ Has(r, "error") =>
         /\ said <= Len(Script(k))
         /\ sent[r] = SubSeq(Script(k), 1, said) \o <<"error">>

\* The step log of a completed run tells what it did: routed, three tools, the LLM's
\* turn (with the mark of a fallback) and the artifact; the Kali graph of the JSON
\* endpoint leaves the artifact alone.
StepLogTellsStory ==
  \A r \in Runs : status[r] = "completed" =>
    IF mode[r] = "run" THEN steps[r] = <<"artifact">>
    ELSE LET told == <<"router">> \o [i \in 1..Len(RequiredTools) |-> "tool"] IN
         IF llmEnabled
         THEN \E name \in {"llm_summary", "llm_fallback"} :
                /\ steps[r] = told \o <<name, "artifact">>
                /\ summary[r] = "llm" => name = "llm_summary"
         ELSE steps[r] = told \o <<"artifact">>

\* The artifact's account of its tools is the audit trail's: the k-th call has a
\* committed ai.tool_calls row with the status the caller was told, and the trail
\* is ahead by at most the one call whose commit was not acknowledged.
AuditMatchesArtifact ==
  \A r \in Runs :
    /\ Len(calls[r]) <= Len(audit[r]) /\ Len(audit[r]) <= Len(calls[r]) + 1
    /\ calls[r] = SubSeq(audit[r], 1, Len(calls[r]))
    /\ Count(sent[r], "tool_finished") <= Len(audit[r])

\* A request that is over leaves its run 'running' only when the client left, the
\* process died or the database failed _start_run or _mark_failed.
NoSilentStall ==
  \A r \in Runs : pc[r] \in EndedPCs /\ status[r] = "running" => lost[r] # {}

\* Nothing completes a run that was marked failed.
FailedIsFinal == [][\A r \in Runs : status[r] = "failed" => status'[r] = "failed"]_vars

\* Both endpoints keep the contract of RunContract.
Progress == {"step_started", "tool_started", "tool_finished", "llm_started", "token"}

MessageClass(m) == IF m \in Progress THEN "progress" ELSE m

heard == [r \in Runs |-> [i \in 1..Len(sent[r]) |-> MessageClass(sent[r][i])]]

Contract == INSTANCE RunContract WITH status <- status, stream <- heard

ImplementsContract == Contract!Spec

=============================================================================
