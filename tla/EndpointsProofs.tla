--------------------------- MODULE EndpointsProofs ---------------------------
(***************************************************************************)
(* Theorems about SalesRun and, behind the endpoints, about the service    *)
(* of Endpoints: for every set of requests, every tool budget and every    *)
(* number of tokens.                                                       *)
(*                                                                         *)
(* 1. The sales workflow.  None of its safety properties is inductive by   *)
(*    itself: the message a caller gets depends on the program counter of  *)
(*    its coroutine, which depends on how the graph task ended, which      *)
(*    decides what is committed.  Inv records that chain, one conjunct     *)
(*    per link.                                                            *)
(* 2. Its stream.  The two coroutines share the queue and nothing else;    *)
(*    what is conserved is Opened \o emitted = sent \o queue.              *)
(* 3. The service.  The workflows share no variable but the settings and   *)
(*    the mode of a request, which no step changes: a behaviour of the     *)
(*    service is one of SalesRun and one of FoodCostRun at once.  FoodP    *)
(*    has the theorems about the latter; its definitions are those of      *)
(*    Food under another name.                                             *)
(***************************************************************************)
EXTENDS Endpoints, SequenceTheorems, TLAPS

-----------------------------------------------------------------------------
(* Type correctness.                                                       *)

\* A graph with budget for one more observation is the only one that plans.
WithinBudget(r) ==
  /\ pc[r] \in {"idle", "announce", "open", "spawn"} => task[r] = "none"
  /\ task[r] \in {"none", "route", "load_context", "classify", "select"} => obs[r] = 0
  /\ task[r] \in {"plan", "tool"} => obs[r] < MaxToolCalls

Typed == TypeOK /\ \A r \in Runs : WithinBudget(r)

LEMMA InitTyped == Init => Typed
  BY SalesAssumption DEF Init, Typed, TypeOK, WithinBudget, HandlerPCs, GraphPCs

\* The queue and the record of what the callback was given stay sequences of events.
LEMMA EmitTypes ==
  ASSUME TypeOK, NEW r \in Runs, NEW events \in Seq(ProgressEvents), Emit(r, events)
  PROVE  /\ queue' \in [Runs -> Seq(ProgressEvents)]
         /\ emitted' \in [Runs -> Seq(ProgressEvents)]
<1> DEFINE added == IF mode[r] = "stream" THEN events ELSE <<>>
<1>1. added \in Seq(ProgressEvents)
  OBVIOUS
<1>2. /\ queue[r] \o added \in Seq(ProgressEvents)
      /\ emitted[r] \o added \in Seq(ProgressEvents)
  BY <1>1 DEF TypeOK
<1>3. /\ queue' = [queue EXCEPT ![r] = queue[r] \o added]
      /\ emitted' = [emitted EXCEPT ![r] = emitted[r] \o added]
  BY DEF Emit
<1> HIDE DEF added
<1> QED
  BY <1>2, <1>3 DEF TypeOK

\* One iteration of the reasoning loop keeps the types and the budget: it asks for
\* another plan only while there is budget for what that plan may add.
LEMMA NextIterationTyped ==
  ASSUME Typed, NEW r \in Runs, NEW before \in Seq(ProgressEvents),
         task[r] \in {"plan", "tool"}, NextIteration(r, obs[r] + 1, before), UNCHANGED pc
  PROVE  /\ queue' \in [Runs -> Seq(ProgressEvents)]
         /\ emitted' \in [Runs -> Seq(ProgressEvents)]
         /\ obs' \in [Runs -> 0..MaxToolCalls]
         /\ task' \in [Runs -> GraphPCs]
         /\ \A x \in Runs : WithinBudget(x)'
<1> DEFINE again   == before \o <<"llm_started">>
           onwards == before \o <<"agent_step">>
<1>1. again \in Seq(ProgressEvents) /\ onwards \in Seq(ProgressEvents)
  BY DEF ProgressEvents
<1>2. Emit(r, again) \/ Emit(r, onwards)
  BY DEF NextIteration
<1>3. /\ queue' \in [Runs -> Seq(ProgressEvents)]
      /\ emitted' \in [Runs -> Seq(ProgressEvents)]
  <2> HIDE DEF again, onwards
  <2> QED
    BY <1>1, <1>2, EmitTypes DEF Typed
<1>4. obs' = [obs EXCEPT ![r] = obs[r] + 1]
  BY DEF NextIteration
<1>5. \/ obs[r] + 1 < MaxToolCalls /\ task' = [task EXCEPT ![r] = "plan"]
      \/ task' = [task EXCEPT ![r] = "compose"]
  BY DEF NextIteration, BudgetLeft, GraphGoto
<1>6. obs[r] \in Nat /\ obs[r] < MaxToolCalls
  BY SalesAssumption DEF Typed, TypeOK, WithinBudget
<1>7. obs' \in [Runs -> 0..MaxToolCalls] /\ task' \in [Runs -> GraphPCs]
  <2>1. obs[r] + 1 \in 0..MaxToolCalls
    BY <1>6, SalesAssumption
  <2>2. obs' \in [Runs -> 0..MaxToolCalls]
    BY <1>4, <2>1 DEF Typed, TypeOK
  <2>3. task' \in [Runs -> GraphPCs]
    BY <1>5 DEF Typed, TypeOK, GraphPCs
  <2> QED
    BY <2>2, <2>3
<1>8. \A x \in Runs : WithinBudget(x)'
  BY <1>4, <1>5, <1>6, SalesAssumption DEF Typed, TypeOK, WithinBudget
<1> QED
  BY <1>3, <1>7, <1>8

\* Every step of a graph keeps the types and the budget.
LEMMA GraphTyped ==
  ASSUME Typed, NEW r \in Runs, GraphStep(r)
  PROVE  Typed'
<1>0. /\ <<>> \in Seq(ProgressEvents)
      /\ <<"agent_step">> \in Seq(ProgressEvents)
      /\ <<"agent_step", "llm_started">> \in Seq(ProgressEvents)
      /\ <<"tool_started">> \in Seq(ProgressEvents)
      /\ <<"tool_finished">> \in Seq(ProgressEvents)
  BY DEF ProgressEvents
<1>00. 0 \in 0..MaxToolCalls
  BY SalesAssumption
<1> USE <1>0, <1>00, EmitTypes DEF Typed, TypeOK, WithinBudget, GraphPCs, GraphGoto, config, handler, database
<1>1. CASE RouteSales(r)
  <2>1. PICK o \in TxOutcomes : Commit(r, o, status[r], {"router_step"})
    BY <1>1 DEF RouteSales
  <2>2. /\ status' \in [Runs -> {"none", "running", "completed", "failed"}]
        /\ rows' \in [Runs -> SUBSET RowKinds]
    BY <2>1 DEF Commit, RowKinds
  <2>3. /\ queue' \in [Runs -> Seq(ProgressEvents)]
        /\ emitted' \in [Runs -> Seq(ProgressEvents)]
    BY <1>1 DEF RouteSales, GraphRaises
  <2>4. /\ UNCHANGED obs
        /\ \/ task' = [task EXCEPT ![r] = "raised"]
           \/ task' = [task EXCEPT ![r] = "load_context"]
    BY <1>1 DEF RouteSales, GraphRaises
  <2> QED
    BY <1>1, <2>2, <2>3, <2>4 DEF RouteSales
<1>2. CASE LoadContext(r)
  BY <1>2 DEF LoadContext, GraphRaises
<1>3. CASE ClassifyComplexity(r)
  BY <1>3 DEF ClassifyComplexity, GraphRaises
<1>4. CASE SelectTools(r)
  <2>1. CASE Blocked(r)
    BY <1>4, <2>1 DEF SelectTools, Blocked
  <2>2. CASE GraphGoto(r, "plan") /\ Emit(r, <<"agent_step", "llm_started">>) /\ UNCHANGED obs
    <3>1. obs[r] < MaxToolCalls
      BY <1>4, SalesAssumption DEF SelectTools
    <3> QED
      BY <1>4, <2>2, <3>1 DEF SelectTools
  <2> QED
    BY <1>4, <2>1, <2>2 DEF SelectTools
<1>5. CASE Plan(r)
  <2>1. CASE Blocked(r)
    BY <2>1, <1>5 DEF Plan, Blocked
  <2>2. CASE GraphGoto(r, "compose") /\ Emit(r, <<"agent_step">>) /\ UNCHANGED obs
    BY <2>2, <1>5 DEF Plan
  <2>3. CASE NextIteration(r, AfterUnknownTool(obs[r]), <<>>)
    BY <2>3, <1>5, NextIterationTyped DEF Plan, AfterUnknownTool
  <2>4. CASE GraphGoto(r, "tool") /\ Emit(r, <<"tool_started">>) /\ UNCHANGED obs
    BY <2>4, <1>5 DEF Plan
  <2> QED
    BY <1>5, <2>1, <2>2, <2>3, <2>4 DEF Plan
<1>6. CASE CallTool(r)
  BY <1>6, NextIterationTyped DEF CallTool
<1>7. CASE ComposeAnswer(r)
  <2>1. CASE Blocked(r)
    BY <1>7, <2>1 DEF ComposeAnswer, Blocked
  <2>2. CASE GraphGoto(r, "finish") /\ UNCHANGED <<queue, emitted, obs>>
    BY <1>7, <2>2 DEF ComposeAnswer
  <2> QED
    BY <1>7, <2>1, <2>2 DEF ComposeAnswer
<1>8. CASE RunAgentLoop(r)
  <2>1. CASE GraphRaises(r)
    BY <1>8, <2>1 DEF RunAgentLoop, GraphRaises
  <2>2. ASSUME NEW n \in 0..MaxToolCalls,
               GraphGoto(r, "finish"), obs' = [obs EXCEPT ![r] = n], UNCHANGED <<queue, emitted>>
        PROVE  Typed'
    BY <1>8, <2>2 DEF RunAgentLoop
  <2> QED
    BY <1>8, <2>1, <2>2 DEF RunAgentLoop
<1>9. CASE FinishRun(r)
  BY <1>9 DEF FinishRun, Commit, AnswerRows, RowKinds
<1> QED
  BY <1>1, <1>2, <1>3, <1>4, <1>5, <1>6, <1>7, <1>8, <1>9 DEF GraphStep

\* Every step of a request's own coroutine keeps the types.
LEMMA HandlerTyped ==
  ASSUME Typed, NEW r \in Runs, HandlerStep(r)
  PROVE  Typed'
<1> USE DEF Typed, WithinBudget, TypeOK, HandlerPCs, Messages, ProgressEvents, Goto, Yield, config, graph, database
<1>1. CASE StartRun(r)
  BY <1>1 DEF StartRun, Commit, Lose, RowKinds, Faults
<1>2. CASE AnnounceRun(r)
  BY <1>2 DEF AnnounceRun
<1>3. CASE OpenStep(r)
  BY <1>3 DEF OpenStep
<1>4. CASE SpawnGraph(r)
  BY <1>4 DEF SpawnGraph, GraphGoto, GraphPCs
<1>5. CASE PumpEvent(r)
  BY <1>5 DEF PumpEvent, Dequeue
<1>6. CASE LeavePump(r)
  BY <1>6 DEF LeavePump
<1>7. CASE DrainEvent(r)
  BY <1>7 DEF DrainEvent, Dequeue
<1>8. CASE JoinGraph(r)
  BY <1>8 DEF JoinGraph, OnError
<1>9. CASE ReplayToolEvent(r)
  BY <1>9 DEF ReplayToolEvent
<1>10. CASE Conclude(r)
  BY <1>10 DEF Conclude
<1>11. CASE MarkFailed(r)
  BY <1>11 DEF MarkFailed, Commit, Lose, Faults
<1>12. CASE ReportError(r)
  BY <1>12 DEF ReportError
<1> QED
  BY <1>1, <1>2, <1>3, <1>4, <1>5, <1>6, <1>7, <1>8, <1>9, <1>10, <1>11, <1>12
  DEF HandlerStep

\* Faults keep the types.
LEMMA FaultTyped ==
  ASSUME Typed, Crash \/ \E r \in Runs : Disconnect(r)
  PROVE  Typed'
<1> USE DEF Typed, WithinBudget, TypeOK, HandlerPCs, GraphPCs, Faults, config, graph, handler, database
<1>1. CASE Crash
  BY <1>1 DEF Crash, EndedPCs, IdleGraph
<1>2. ASSUME NEW r \in Runs, Disconnect(r) PROVE Typed'
  BY <1>2 DEF Disconnect, Goto
<1> QED
  BY <1>1, <1>2

LEMMA StepTyped == Typed /\ [Next]_vars => Typed'
<1>1. Typed /\ UNCHANGED vars => Typed'
  BY DEF Typed, WithinBudget, TypeOK, vars, config, handler, graph, database
<1> QED
  BY <1>1, GraphTyped, HandlerTyped, FaultTyped DEF Next

\* Each variable keeps to its set of values; in particular the reasoning loop never
\* gathers more observations than its budget, unknown tools included.
THEOREM TypeCorrect == Spec => []TypeOK
<1>1. Typed => TypeOK
  BY DEF Typed
<1> QED
  BY <1>1, InitTyped, StepTyped, PTL DEF Spec

-----------------------------------------------------------------------------
(* The inductive invariant.                                                *)

\* Before the graph is spawned.
Opening(r) ==
  /\ pc[r] = "idle" => status[r] = "none" /\ sent[r] = <<>>
  /\ pc[r] \in {"announce", "open", "spawn"} =>
       status[r] = "running" /\ "user_message" \in rows[r]

\* What a graph knows of the database: only a graph that is still at work, or has
\* raised, can leave the run in another state than 'completed'.
GraphHolds(r) ==
  /\ task[r] \notin IdleGraph =>
       /\ pc[r] \in {"pump", "await", "gone"}
       /\ status[r] = "running" /\ "user_message" \in rows[r]
  /\ task[r] \notin IdleGraph \cup {"route"} => "router_step" \in rows[r]
  /\ task[r] = "returned" => status[r] = "completed" /\ RowKinds \subseteq rows[r]

\* What the coroutine knows of its graph.
HandlerKnows(r) ==
  /\ pc[r] = "drain" => GraphDone(r)
  /\ pc[r] \in {"replay", "finalize"} => task[r] = "returned"
  /\ pc[r] \in {"failing", "report"} => task[r] = "raised"
  /\ pc[r] = "report" => status[r] = "failed"
  /\ pc[r] \in {"pump", "drain", "await", "failing"} => status[r] \in {"running", "completed"}

\* A closing message is the last thing a coroutine does.
Closing(r) ==
  /\ Has(r, "final") \/ Has(r, "response") => pc[r] = "done" /\ task[r] = "returned"
  /\ Has(r, "error") => pc[r] = "done" /\ task[r] = "raised" /\ status[r] = "failed"

\* A JSON request has heard nothing before its response; a stream opens first.
Told(r) ==
  /\ mode[r] = "run" =>
       /\ pc[r] \notin {"announce", "open", "pump", "drain", "replay", "report"}
       /\ pc[r] # "done" => sent[r] = <<>>
  /\ mode[r] = "stream" =>
       /\ pc[r] # "await"
       /\ pc[r] = "announce" => sent[r] = <<>>
       /\ pc[r] \in {"open", "spawn", "pump", "drain", "replay", "finalize", "failing", "report"}
            => sent[r] # <<>>

\* How each coroutine can have ended.
Ending(r) ==
  /\ pc[r] = "done" => status[r] \in {"completed", "failed"}
  /\ pc[r] = "broken" => status[r] = "failed" \/ "database" \in lost[r]
  /\ pc[r] = "gone" => "disconnect" \in lost[r]
  /\ pc[r] = "dead" \/ task[r] = "dead" => "crash" \in lost[r]

Linked(r) ==
  /\ Opening(r) /\ GraphHolds(r) /\ HandlerKnows(r)
  /\ Closing(r) /\ Told(r) /\ Ending(r)

Inv == \A r \in Runs : Linked(r)

\* A message is heard exactly when it is the one just sent or was heard before.
LEMMA HasYield ==
  ASSUME Typed, NEW r \in Runs, NEW message \in Messages,
         sent' = [sent EXCEPT ![r] = Append(@, message)]
  PROVE  \A x \in Runs, k \in Messages : Has(x, k)' <=> Has(x, k) \/ (x = r /\ k = message)
<1>1. sent[r] \in Seq(Messages)
  BY DEF Typed, TypeOK
<1>2. sent' \in [Runs -> Seq(Messages)] /\ sent'[r] = Append(sent[r], message)
  BY <1>1 DEF Typed, TypeOK
<1>3. \A x \in Runs \ {r} : sent'[x] = sent[x]
  BY DEF Typed, TypeOK
<1>4. ASSUME NEW k \in Messages
      PROVE  Has(r, k)' <=> Has(r, k) \/ k = message
  BY <1>1, <1>2 DEF Has
<1>5. ASSUME NEW x \in Runs \ {r}, NEW k \in Messages
      PROVE  Has(x, k)' <=> Has(x, k)
  BY <1>3 DEF Has
<1> QED
  BY <1>4, <1>5

\* Sending one message makes no other one heard.
LEMMA NotHeard ==
  ASSUME Typed, NEW r \in Runs, NEW message \in Messages,
         sent' = [sent EXCEPT ![r] = Append(@, message)],
         NEW k \in Messages, k # message
  PROVE  Has(r, k)' <=> Has(r, k)
  BY HasYield

\* All a step of r's graph can do to the facts of Inv.
GraphEffect(r, t) ==
  /\ task[r] \notin IdleGraph
  /\ task' = [task EXCEPT ![r] = t]
  /\ UNCHANGED <<mode, pc, sent, lost>>
  /\ \A x \in Runs \ {r} : status'[x] = status[x] /\ rows'[x] = rows[x]
  /\ status'[r] \in {status[r], "completed"}
  /\ t \notin IdleGraph =>
       /\ status'[r] = status[r]
       /\ rows[r] \subseteq rows'[r]
       /\ task[r] = "route" => "router_step" \in rows'[r]
  /\ t = "returned" =>
       /\ task[r] = "finish"
       /\ status'[r] = "completed"
       /\ rows'[r] = rows[r] \cup AnswerRows

LEMMA GraphStepEffect ==
  ASSUME Typed, NEW r \in Runs, GraphStep(r)
  PROVE  \E t \in GraphPCs \ {"none", "route", "dead"} : GraphEffect(r, t)
<1> USE DEF Typed, TypeOK, GraphEffect, GraphPCs, IdleGraph, GraphGoto, config, handler, database
<1>1. CASE RouteSales(r)
  BY <1>1 DEF RouteSales, Commit, GraphRaises, Raises, Applied
<1>2. CASE LoadContext(r)
  BY <1>2 DEF LoadContext, GraphRaises
<1>3. CASE ClassifyComplexity(r)
  BY <1>3 DEF ClassifyComplexity, GraphRaises
<1>4. CASE SelectTools(r)
  BY <1>4 DEF SelectTools, Blocked
<1>5. CASE Plan(r)
  BY <1>5 DEF Plan, Blocked, NextIteration
<1>6. CASE CallTool(r)
  BY <1>6 DEF CallTool, NextIteration
<1>7. CASE ComposeAnswer(r)
  BY <1>7 DEF ComposeAnswer, Blocked
<1>8. CASE RunAgentLoop(r)
  BY <1>8 DEF RunAgentLoop, GraphRaises
<1>9. CASE FinishRun(r)
  <2>1. PICK o \in TxOutcomes :
          /\ Commit(r, o, "completed", AnswerRows)
          /\ GraphGoto(r, IF Raises(o) THEN "raised" ELSE "returned")
    BY <1>9 DEF FinishRun
  <2>2. CASE Raises(o)
    BY <1>9, <2>1, <2>2 DEF FinishRun, Commit
  <2>3. CASE ~Raises(o)
    BY <1>9, <2>1, <2>3 DEF FinishRun, Commit, Raises, Applied
  <2> QED
    BY <2>2, <2>3
<1> QED
  BY <1>1, <1>2, <1>3, <1>4, <1>5, <1>6, <1>7, <1>8, <1>9 DEF GraphStep

LEMMA GraphInv ==
  ASSUME Typed, Typed', Inv, NEW r \in Runs, GraphStep(r)
  PROVE  Inv'
<1>1. PICK t \in GraphPCs \ {"none", "route", "dead"} : GraphEffect(r, t)
  BY GraphStepEffect
<1>2. \A x \in Runs, k \in Messages : Has(x, k)' <=> Has(x, k)
  BY <1>1 DEF GraphEffect, Has
<1>3. ASSUME NEW x \in Runs \ {r}
      PROVE  Linked(x)'
  <2>1. task'[x] = task[x] /\ status'[x] = status[x] /\ rows'[x] = rows[x]
    BY <1>1 DEF GraphEffect, Typed, TypeOK
  <2> QED
    BY <1>1, <1>2, <2>1 DEF Inv, Linked, Opening, GraphHolds, HandlerKnows, Closing, Told, Ending,
       GraphEffect, GraphDone, Messages
<1>4. Linked(r)'
  <2>1. task'[r] = t
    BY <1>1 DEF GraphEffect, Typed, TypeOK
  <2>2. pc'[r] \in {"pump", "await", "gone"} /\ pc' = pc /\ sent' = sent /\ lost' = lost
    BY <1>1 DEF GraphEffect, Inv, Linked, GraphHolds
  <2>3. Opening(r)'
    BY <2>2 DEF Opening
  <2>4. GraphHolds(r)'
    BY <1>1, <2>1, <2>2 DEF GraphEffect, Inv, Linked, GraphHolds, IdleGraph, AnswerRows, RowKinds
  <2>5. HandlerKnows(r)'
    BY <1>1, <2>1, <2>2 DEF GraphEffect, Inv, Linked, GraphHolds, HandlerKnows, GraphPCs, IdleGraph
  <2>6. Closing(r)'
    BY <1>2, <2>2 DEF Inv, Linked, Closing, Messages
  <2>7. Ending(r)'
    BY <2>1, <2>2 DEF Inv, Linked, Ending
  <2>8. Told(r)'
    BY <1>1, <2>2 DEF GraphEffect, Inv, Linked, Told
  <2> QED
    BY <2>3, <2>4, <2>5, <2>6, <2>7, <2>8 DEF Linked
<1> QED
  BY <1>3, <1>4 DEF Inv

\* A step of r's coroutine leaves every other run alone.
LEMMA HandlerLocal ==
  ASSUME Typed, NEW r \in Runs, HandlerStep(r), NEW x \in Runs \ {r}
  PROVE  /\ mode'[x] = mode[x] /\ pc'[x] = pc[x] /\ sent'[x] = sent[x] /\ task'[x] = task[x]
         /\ status'[x] = status[x] /\ rows'[x] = rows[x] /\ lost'[x] = lost[x]
<1> USE DEF Typed, TypeOK, Goto, Yield, config, graph, database
<1>1. CASE StartRun(r)
  BY <1>1 DEF StartRun, Commit, Lose
<1>2. CASE AnnounceRun(r) \/ OpenStep(r) \/ Conclude(r) \/ ReportError(r)
  BY <1>2 DEF AnnounceRun, OpenStep, Conclude, ReportError
<1>3. CASE SpawnGraph(r)
  BY <1>3 DEF SpawnGraph, GraphGoto
<1>4. CASE PumpEvent(r) \/ DrainEvent(r)
  BY <1>4 DEF PumpEvent, DrainEvent, Dequeue
<1>5. CASE LeavePump(r) \/ JoinGraph(r) \/ ReplayToolEvent(r)
  BY <1>5 DEF LeavePump, JoinGraph, ReplayToolEvent
<1>6. CASE MarkFailed(r)
  BY <1>6 DEF MarkFailed, Commit, Lose
<1> QED
  BY <1>1, <1>2, <1>3, <1>4, <1>5, <1>6 DEF HandlerStep

LEMMA HandlerInv ==
  ASSUME Typed, Typed', Inv, NEW r \in Runs, HandlerStep(r)
  PROVE  Inv'
<1>0. \A m \in Messages : Append(sent[r], m) # <<>>
  <2>1. sent[r] \in Seq(Messages)
    BY DEF Typed, TypeOK
  <2> QED
    BY <2>1, AppendProperties
<1>1. ASSUME NEW x \in Runs \ {r}
      PROVE  Linked(x)'
  <2>1. /\ mode'[x] = mode[x] /\ pc'[x] = pc[x] /\ sent'[x] = sent[x] /\ task'[x] = task[x]
        /\ status'[x] = status[x] /\ rows'[x] = rows[x] /\ lost'[x] = lost[x]
    BY HandlerLocal
  <2> QED
    BY <2>1 DEF Inv, Linked, Opening, GraphHolds, HandlerKnows, Closing, Told, Ending, Has, GraphDone
<1>2. Linked(r)'
  <2> USE DEF Inv, Linked, Opening, GraphHolds, HandlerKnows, Closing, Told, Ending,
          Goto, Yield, Messages, config, graph, database
  <2>0. /\ mode \in [Runs -> {"run", "stream"}]
        /\ pc \in [Runs -> HandlerPCs] /\ task \in [Runs -> GraphPCs]
        /\ sent \in [Runs -> Seq(Messages)]
        /\ lost \in [Runs -> SUBSET Faults] /\ rows \in [Runs -> SUBSET RowKinds]
        /\ status \in [Runs -> {"none", "running", "completed", "failed"}]
        /\ queue \in [Runs -> Seq(ProgressEvents)]
    BY DEF Typed, TypeOK
  <2>1. CASE StartRun(r)
    BY <2>0, <2>1 DEF StartRun, Commit, Lose, Raises, Applied, Has, IdleGraph, Typed, WithinBudget
  <2>2. CASE AnnounceRun(r)
    <3>1. PICK m \in Messages \ {"final", "error", "response"} : sent' = [sent EXCEPT ![r] = Append(@, m)]
      BY <2>2 DEF AnnounceRun
    <3>2. Has(r, "final")' <=> Has(r, "final")
      BY <3>1, HasYield
    <3>3. Has(r, "response")' <=> Has(r, "response")
      BY <3>1, HasYield
    <3>4. Has(r, "error")' <=> Has(r, "error")
      BY <3>1, HasYield
    <3> QED
      BY <2>0, <2>2, <3>2, <3>3, <3>4 DEF AnnounceRun, Typed, WithinBudget, IdleGraph
  <2>3. CASE OpenStep(r)
    <3>1. PICK m \in Messages \ {"final", "error", "response"} : sent' = [sent EXCEPT ![r] = Append(@, m)]
      BY <2>3 DEF OpenStep
    <3>2. Has(r, "final")' <=> Has(r, "final")
      BY <3>1, HasYield
    <3>3. Has(r, "response")' <=> Has(r, "response")
      BY <3>1, HasYield
    <3>4. Has(r, "error")' <=> Has(r, "error")
      BY <3>1, HasYield
    <3>5. sent'[r] # <<>>
      BY <2>0, <1>0, <3>1
    <3> QED
      BY <2>0, <2>3, <3>2, <3>3, <3>4, <3>5 DEF OpenStep, Typed, WithinBudget, IdleGraph
  <2>4. CASE SpawnGraph(r)
    BY <2>0, <2>4 DEF SpawnGraph, GraphGoto, Has, IdleGraph
  <2>5. CASE PumpEvent(r) \/ DrainEvent(r)
    <3>1. Head(queue[r]) \in ProgressEvents /\ sent' = [sent EXCEPT ![r] = Append(@, Head(queue[r]))]
      BY <2>0, <2>5 DEF PumpEvent, DrainEvent, Dequeue
    <3>2. \A k \in {"final", "error", "response"} : Has(r, k)' <=> Has(r, k)
      BY <3>1, HasYield DEF ProgressEvents
    <3>3. pc'[r] = pc[r] /\ UNCHANGED <<mode, task, status, rows, lost>>
      BY <2>0, <2>5 DEF PumpEvent, DrainEvent, Dequeue
    <3>4. pc[r] \in {"pump", "drain"}
      BY <2>5 DEF PumpEvent, DrainEvent
    <3>5. sent'[r] # <<>>
      BY <2>0, <1>0, <3>1 DEF ProgressEvents
    <3> QED
      BY <3>2, <3>3, <3>4, <3>5 DEF GraphDone
  <2>6. CASE LeavePump(r)
    BY <2>0, <2>6 DEF LeavePump, GraphDone, IdleGraph, Has
  <2>7. CASE JoinGraph(r)
    <3>1. /\ UNCHANGED <<mode, sent, task, status, rows, lost>>
          /\ pc[r] \in {"drain", "await"}
          /\ GraphDone(r)
      BY <2>7 DEF JoinGraph
    <3>2. /\ task[r] = "raised" => pc'[r] = "failing"
          /\ task[r] = "returned" => pc'[r] \in {"replay", "finalize"}
          /\ pc'[r] = "replay" => mode[r] = "stream"
      BY <2>0, <2>7, <3>1 DEF JoinGraph, OnError, GraphDone
    <3>3. Opening(r)' /\ GraphHolds(r)' /\ HandlerKnows(r)' /\ Ending(r)'
      BY <3>1, <3>2 DEF GraphDone, IdleGraph
    <3>4. Closing(r)'
      BY <3>1 DEF Has
    <3>5. Told(r)'
      BY <2>0, <3>1, <3>2 DEF GraphDone
    <3> QED
      BY <3>3, <3>4, <3>5
  <2>8. CASE ReplayToolEvent(r)
    <3>1. PICK m \in Messages \ {"final", "error", "response"} : sent' = [sent EXCEPT ![r] = Append(@, m)]
      <4>1. CASE replayed[r] % 2 = 0
        BY <2>8, <4>1 DEF ReplayToolEvent, ProgressEvents
      <4>2. CASE replayed[r] % 2 # 0
        BY <2>8, <4>2 DEF ReplayToolEvent, ProgressEvents
      <4> QED
        BY <4>1, <4>2
    <3>2. Has(r, "final")' <=> Has(r, "final")
      BY <3>1, HasYield
    <3>3. Has(r, "response")' <=> Has(r, "response")
      BY <3>1, HasYield
    <3>4. Has(r, "error")' <=> Has(r, "error")
      BY <3>1, HasYield
    <3>5. sent'[r] # <<>>
      BY <2>0, <1>0, <3>1
    <3> QED
      BY <2>0, <2>8, <3>2, <3>3, <3>4, <3>5 DEF ReplayToolEvent, IdleGraph
  <2>9. CASE Conclude(r)
    <3>1. PICK m \in Messages : m # "error" /\ sent' = [sent EXCEPT ![r] = Append(@, m)]
      BY <2>9 DEF Conclude
    <3>2. Has(r, "error")' <=> Has(r, "error")
      BY <3>1, NotHeard
    <3> QED
      BY <2>0, <2>9, <3>2 DEF Conclude, IdleGraph
  <2>10. CASE MarkFailed(r)
    BY <2>0, <2>10 DEF MarkFailed, Commit, Lose, Raises, Applied, IdleGraph, Has
  <2>11. CASE ReportError(r)
    BY <2>0, <2>11, HasYield DEF ReportError, IdleGraph
  <2> QED
    BY <2>1, <2>2, <2>3, <2>4, <2>5, <2>6, <2>7, <2>8, <2>9, <2>10, <2>11 DEF HandlerStep
<1> QED
  BY <1>1, <1>2 DEF Inv

LEMMA FaultInv ==
  ASSUME Typed, Inv, Crash \/ \E r \in Runs : Disconnect(r)
  PROVE  Inv'
<1>1. \A x \in Runs, k \in Messages : Has(x, k)' <=> Has(x, k)
  BY DEF Has, Crash, Disconnect, handler
<1> USE <1>1 DEF Inv, Linked, Opening, GraphHolds, HandlerKnows, Closing, Told, Ending, Messages,
        GraphDone, EndedPCs, IdleGraph, Typed, TypeOK, config, graph, handler, database
<1>2. CASE Crash
  BY <1>2 DEF Crash
<1>3. ASSUME NEW r \in Runs, Disconnect(r) PROVE Inv'
  BY <1>3 DEF Disconnect, Goto
<1> QED
  BY <1>2, <1>3

-----------------------------------------------------------------------------
(* The theorems.                                                           *)

LEMMA InitInv == Init => Inv
  BY DEF Init, Inv, Linked, Opening, GraphHolds, HandlerKnows, Closing, Told, Ending, Has, IdleGraph

LEMMA StepInv == Typed /\ Typed' /\ Inv /\ [Next]_vars => Inv'
<1>1. ASSUME Inv, UNCHANGED vars PROVE Inv'
  BY <1>1 DEF Inv, Linked, Opening, GraphHolds, HandlerKnows, Closing, Told, Ending, Has, GraphDone,
     vars, config, handler, graph, database
<1> QED
  BY <1>1, GraphInv, HandlerInv, FaultInv DEF Next

\* Where a request and its graph are, what the database has and what the caller was told
\* of stay linked through every step, fault and crash (workflows/sales.py, run and stream).
THEOREM Invariance == Spec => [](Typed /\ Inv)
<1>1. Typed /\ Inv /\ [Next]_vars => Inv'
  BY StepTyped, StepInv
<1> QED
  BY <1>1, InitTyped, InitInv, StepTyped, PTL DEF Spec

\* Whatever the interleaving, the database failures and the crashes: who is told of
\* a completed run finds all its rows, who is told of a failure finds it failed.
THEOREM TruthfulTerminals == Spec => []TruthfulTerminal
<1>1. Inv => TruthfulTerminal
  BY DEF Inv, Linked, Closing, GraphHolds, TruthfulTerminal
<1> QED
  BY <1>1, Invariance, PTL

\* A run is abandoned as 'running' only by a fault on record.
THEOREM NoSilentStalls == Spec => []NoSilentStall
<1>1. Typed /\ Inv => NoSilentStall
  BY DEF Typed, TypeOK, GraphPCs, Inv, Linked, Opening, Ending, GraphHolds, NoSilentStall,
     Quiet, EndedPCs, IdleGraph
<1> QED
  BY <1>1, Invariance, PTL

\* No step changes the status of a failed run.
THEOREM FailureIsFinal == Spec => FailedIsFinal
<1>1. Typed /\ Inv /\ [Next]_vars => [\A r \in Runs : status[r] = "failed" => status'[r] = "failed"]_vars
  <2> SUFFICES ASSUME Typed, Inv, Next, NEW x \in Runs, status[x] = "failed"
               PROVE  status'[x] = "failed"
    OBVIOUS
  <2>1. CASE \E r \in Runs : GraphStep(r)
    <3>1. PICK r \in Runs, t \in GraphPCs : GraphEffect(r, t)
      BY <2>1, GraphStepEffect
    <3> QED
      BY <3>1 DEF GraphEffect, Inv, Linked, GraphHolds
  <2>2. CASE \E r \in Runs : HandlerStep(r)
    <3>1. PICK r \in Runs : HandlerStep(r)
      BY <2>2
    <3>2. CASE x # r
      BY <3>1, <3>2, HandlerLocal
    <3>3. CASE x = r
      <4>1. CASE StartRun(r)
        BY <3>3, <4>1 DEF StartRun, Inv, Linked, Opening
      <4>2. CASE MarkFailed(r)
        BY <3>3, <4>2 DEF MarkFailed, Commit, Typed, TypeOK
      <4>3. CASE UNCHANGED status
        BY <4>3
      <4> QED
        BY <3>1, <4>1, <4>2, <4>3 DEF HandlerStep, AnnounceRun, OpenStep, SpawnGraph, PumpEvent,
           LeavePump, DrainEvent, Dequeue, JoinGraph, ReplayToolEvent, Conclude, ReportError, database
    <3> QED
      BY <3>2, <3>3
  <2>3. CASE Crash \/ \E r \in Runs : Disconnect(r)
    BY <2>3 DEF Crash, Disconnect, database
  <2> QED
    BY <2>1, <2>2, <2>3 DEF Next
<1> QED
  BY <1>1, Invariance, PTL DEF Spec, FailedIsFinal

-----------------------------------------------------------------------------
(* SalesRun implements RunContract.                                        *)

LEMMA HeardUnchanged == UNCHANGED sent => UNCHANGED heard
  BY DEF heard

LEMMA AppendAsFunction ==
  ASSUME NEW S, NEW u \in Seq(S), NEW c
  PROVE  Append(u, c) = [i \in 1..Len(u) + 1 |-> IF i = Len(u) + 1 THEN c ELSE u[i]]
<1> DEFINE f == [i \in 1..Len(u) + 1 |-> IF i = Len(u) + 1 THEN c ELSE u[i]]
<1>1. u \in Seq(S \cup {c}) /\ c \in S \cup {c}
  OBVIOUS
<1>2. f \in Seq(S \cup {c}) /\ Len(f) = Len(u) + 1
  OBVIOUS
<1>3. \A i \in 1..Len(u) + 1 : Append(u, c)[i] = f[i]
  BY <1>1, AppendProperties
<1>4. Append(u, c) \in Seq(S \cup {c}) /\ Len(Append(u, c)) = Len(u) + 1
  BY <1>1, AppendProperties
<1> HIDE DEF f
<1>5. Append(u, c) = f
  BY <1>2, <1>3, <1>4, SeqEqual
<1> QED
  BY <1>5 DEF f

\* The mapped stream grows by the class of the message that was sent.
LEMMA HeardAppend ==
  ASSUME Typed, NEW r \in Runs, NEW m \in Messages,
         sent' = [sent EXCEPT ![r] = Append(@, m)]
  PROVE  heard' = [heard EXCEPT ![r] = Append(@, MessageClass(m))]
<1> DEFINE Mapped(s) == [i \in 1..Len(s) |-> MessageClass(s[i])]
<1>1. sent \in [Runs -> Seq(Messages)] /\ sent[r] \in Seq(Messages)
  BY DEF Typed, TypeOK
<1>2. Mapped(Append(sent[r], m)) = Append(Mapped(sent[r]), MessageClass(m))
  <2> HIDE DEF Mapped
  <2> DEFINE s == sent[r]
             t == Append(s, m)
  <2>1. Len(s) \in Nat /\ Len(t) = Len(s) + 1 /\ t[Len(s) + 1] = m /\ \A i \in 1..Len(s) : t[i] = s[i]
    BY <1>1
  <2> HIDE DEF s, t
  <2>2. Mapped(s) = [i \in 1..Len(s) |-> MessageClass(s[i])]
    BY DEF Mapped
  <2>3. Mapped(t) = [i \in 1..Len(s) + 1 |-> MessageClass(t[i])]
    BY <2>1 DEF Mapped
  <2>4. Len(Mapped(s)) = Len(s) /\ Mapped(s) \in Seq({MessageClass(x) : x \in Messages} \cup {MessageClass(s[i]) : i \in 1..Len(s)})
    BY <2>1, <2>2
  <2>5. Append(Mapped(s), MessageClass(m)) =
          [i \in 1..Len(s) + 1 |-> IF i = Len(s) + 1 THEN MessageClass(m) ELSE Mapped(s)[i]]
    BY <2>4, AppendAsFunction
  <2>6. ASSUME NEW i \in 1..Len(s) + 1
        PROVE  MessageClass(t[i]) = IF i = Len(s) + 1 THEN MessageClass(m) ELSE Mapped(s)[i]
    <3>1. CASE i = Len(s) + 1
      BY <3>1, <2>1
    <3>2. CASE i \in 1..Len(s)
      BY <3>2, <2>1, <2>2
    <3> QED
      BY <2>1, <3>1, <3>2
  <2> QED
    BY <2>3, <2>5, <2>6 DEF s, t
<1>3. heard' = [x \in Runs |-> Mapped(sent'[x])] /\ heard = [x \in Runs |-> Mapped(sent[x])]
  BY DEF heard
<1> HIDE DEF Mapped
<1> QED
  BY <1>1, <1>2, <1>3

\* What the guards of the contract say, in terms of the messages sent.
LEMMA HeardGuards ==
  ASSUME Typed, Inv, NEW r \in Runs
  PROVE  /\ heard[r] = <<>> <=> sent[r] = <<>>
         /\ pc[r] # "done" => ~Contract!Closed(r)
<1>1. sent[r] \in Seq(Messages) /\ Len(sent[r]) \in Nat
  BY DEF Typed, TypeOK
<1>2. heard[r] = [i \in 1..Len(sent[r]) |-> MessageClass(sent[r][i])]
  BY DEF heard
<1>3. Len(heard[r]) = Len(sent[r])
  BY <1>1, <1>2
<1>4. heard[r] = <<>> <=> sent[r] = <<>>
  <2>1. heard[r] = <<>> <=> Len(heard[r]) = 0
    BY <1>1, <1>2
  <2> QED
    BY <1>1, <1>3, <2>1
<1>5. ASSUME pc[r] # "done" PROVE ~Contract!Closed(r)
  <2> SUFFICES ASSUME NEW i \in 1..Len(heard[r]), heard[r][i] \in Contract!Closing
               PROVE  FALSE
    BY DEF Contract!Closed
  <2>1. MessageClass(sent[r][i]) \in {"final", "error", "response"}
    BY <1>2, <1>3 DEF Contract!Closing
  <2>2. sent[r][i] \in {"final", "error", "response"}
    BY <2>1 DEF MessageClass
  <2>3. Has(r, "final") \/ Has(r, "error") \/ Has(r, "response")
    BY <1>3, <2>2 DEF Has
  <2> QED
    BY <1>5, <2>3 DEF Inv, Linked, Closing
<1> QED
  BY <1>4, <1>5

\* Every step of the workflow is a step of the contract or invisible to it.
LEMMA StepRefines ==
  ASSUME Typed, Typed', Inv, [Next]_vars
  PROVE  [Contract!Next]_(Contract!vars)
<1> USE DEF Contract!Next, Contract!SetStatus, Contract!Tell
<1>1. CASE UNCHANGED <<status, sent>>
  BY <1>1, HeardUnchanged DEF Contract!vars
<1>2. ASSUME NEW r \in Runs, GraphStep(r)
      PROVE  [Contract!Next]_(Contract!vars)
  <2>1. PICK t \in GraphPCs : GraphEffect(r, t)
    BY <1>2, GraphStepEffect
  <2>2. /\ status[r] = "running" /\ UNCHANGED heard
        /\ status'[r] \in {status[r], "completed"}
    BY <2>1, HeardUnchanged DEF GraphEffect, Inv, Linked, GraphHolds
  <2>3. UNCHANGED status \/ status' = [status EXCEPT ![r] = "completed"]
    BY <2>1, <2>2 DEF GraphEffect, Typed, TypeOK
  <2> QED
    BY <2>2, <2>3 DEF Contract!vars, Contract!Complete
<1>3. ASSUME NEW r \in Runs, HandlerStep(r)
      PROVE  [Contract!Next]_(Contract!vars)
  <2> USE HeardAppend, HeardGuards DEF Goto, Yield, graph, database, MessageClass, Messages, ProgressEvents
  <2>1. CASE StartRun(r)
    <3>1. status[r] = "none" /\ UNCHANGED heard
      BY <2>1, HeardUnchanged DEF StartRun, Inv, Linked, Opening
    <3>2. UNCHANGED status \/ status' = [status EXCEPT ![r] = "running"]
      BY <2>1 DEF StartRun, Commit
    <3> QED
      BY <3>1, <3>2 DEF Contract!vars, Contract!Begin
  <2>2. CASE AnnounceRun(r)
    <3>1. heard' = [heard EXCEPT ![r] = Append(@, "run_started")]
      BY <2>2 DEF AnnounceRun
    <3>2. status[r] = "running" /\ heard[r] = <<>> /\ UNCHANGED status
      BY <2>2 DEF AnnounceRun, Inv, Linked, Opening, Told, Typed, TypeOK
    <3> QED
      BY <3>1, <3>2 DEF Contract!Announce
  <2>3. CASE OpenStep(r) \/ PumpEvent(r) \/ DrainEvent(r) \/ ReplayToolEvent(r)
    <3>1. PICK m \in ProgressEvents \cup {"step_started"} : sent' = [sent EXCEPT ![r] = Append(@, m)]
      <4>1. CASE OpenStep(r)
        BY <4>1 DEF OpenStep
      <4>2. CASE PumpEvent(r) \/ DrainEvent(r)
        <5>1. queue[r] \in Seq(ProgressEvents) /\ queue[r] # <<>>
          BY <4>2 DEF PumpEvent, DrainEvent, Dequeue, Typed, TypeOK
        <5>2. Head(queue[r]) \in ProgressEvents
          BY <5>1
        <5> QED
          BY <4>2, <5>2 DEF PumpEvent, DrainEvent, Dequeue
      <4>3. CASE ReplayToolEvent(r)
        BY <4>3 DEF ReplayToolEvent
      <4> QED
        BY <2>3, <4>1, <4>2, <4>3
    <3>2. heard' = [heard EXCEPT ![r] = Append(@, "progress")]
      BY <3>1
    <3>3. pc[r] \in {"open", "pump", "drain", "replay"} /\ UNCHANGED status
      BY <2>3 DEF OpenStep, PumpEvent, DrainEvent, Dequeue, ReplayToolEvent
    <3>4. heard[r] # <<>> /\ ~Contract!Closed(r)
      BY <3>3 DEF Inv, Linked, Told, Typed, TypeOK
    <3> QED
      BY <3>2, <3>3, <3>4 DEF Contract!Progress
  <2>4. CASE Conclude(r)
    <3>1. status[r] = "completed" /\ ~Contract!Closed(r) /\ UNCHANGED status
      BY <2>4 DEF Conclude, Inv, Linked, HandlerKnows, GraphHolds
    <3>2. CASE mode[r] = "stream"
      <4>1. heard' = [heard EXCEPT ![r] = Append(@, "final")] /\ heard[r] # <<>>
        BY <2>4, <3>2 DEF Conclude, Inv, Linked, Told
      <4> QED
        BY <3>1, <4>1 DEF Contract!Final
    <3>3. CASE mode[r] = "run"
      <4>1. heard' = [heard EXCEPT ![r] = Append(@, "response")] /\ heard[r] = <<>>
        BY <2>4, <3>3 DEF Conclude, Inv, Linked, Told
      <4> QED
        BY <3>1, <4>1 DEF Contract!Respond
    <3> QED
      BY <3>2, <3>3 DEF Typed, TypeOK
  <2>5. CASE MarkFailed(r)
    <3>1. status[r] \in {"running", "completed"} /\ ~Contract!Closed(r) /\ UNCHANGED heard
      BY <2>5, HeardUnchanged DEF MarkFailed, Inv, Linked, HandlerKnows
    <3>2. UNCHANGED status \/ status' = [status EXCEPT ![r] = "failed"]
      BY <2>5 DEF MarkFailed, Commit
    <3> QED
      BY <3>1, <3>2 DEF Contract!vars, Contract!Fail
  <2>6. CASE ReportError(r)
    <3>1. status[r] = "failed" /\ ~Contract!Closed(r) /\ heard[r] # <<>> /\ UNCHANGED status
      BY <2>6 DEF ReportError, Inv, Linked, HandlerKnows, Told, Typed, TypeOK
    <3>2. heard' = [heard EXCEPT ![r] = Append(@, "error")]
      BY <2>6 DEF ReportError
    <3> QED
      BY <3>1, <3>2 DEF Contract!Error
  <2>7. CASE SpawnGraph(r) \/ LeavePump(r) \/ JoinGraph(r)
    BY <2>7, <1>1 DEF SpawnGraph, LeavePump, JoinGraph
  <2> QED
    BY <1>3, <2>1, <2>2, <2>3, <2>4, <2>5, <2>6, <2>7 DEF HandlerStep
<1>4. CASE Crash \/ \E r \in Runs : Disconnect(r)
  BY <1>4, <1>1 DEF Crash, Disconnect, handler, database
<1>5. CASE UNCHANGED vars
  BY <1>5, <1>1 DEF vars, handler, database
<1> QED
  BY <1>2, <1>3, <1>4, <1>5 DEF Next

\* The JSON and the stream endpoint both keep the contract of a run.
THEOREM Refinement == Spec => ImplementsContract
<1>1. Init => Contract!Init
  BY DEF Init, Contract!Init, heard
<1>2. Typed /\ Typed' /\ Inv /\ [Next]_vars => [Contract!Next]_(Contract!vars)
  BY StepRefines
<1> QED
  BY <1>1, <1>2, Invariance, StepTyped, PTL DEF Spec, ImplementsContract, Contract!Spec

-----------------------------------------------------------------------------
(* The stream of a sales request.                                          *)

\* The two events of a stream before its graph is spawned.
Opened == <<"run_started", "step_started">>

Before == {"idle", "announce", "open", "spawn"}
After  == {"replay", "finalize", "failing", "report"}

\* The stream of r, place by place.
Mirror(r) ==
  /\ pc[r] \in Before => emitted[r] = <<>> /\ queue[r] = <<>>
  /\ pc[r] \in Before \cup {"pump", "drain"} => replayed[r] = 0
  /\ pc[r] \in {"idle", "announce"} => sent[r] = <<>>
  /\ pc[r] = "open" => sent[r] = <<"run_started">>
  /\ pc[r] = "spawn" => sent[r] = Opened
  /\ pc[r] \in {"pump", "drain"} => Opened \o emitted[r] = sent[r] \o queue[r]
  /\ pc[r] \in After => sent[r] = Opened \o emitted[r] \o Rebuilt(r)

\* A closing message and what is before it.
Closed(r) ==
  /\ Has(r, "final") => sent[r] = Opened \o emitted[r] \o Rebuilt(r) \o <<"final">>
  /\ Has(r, "error") => sent[r] = Opened \o emitted[r] \o Rebuilt(r) \o <<"error">>
  /\ Has(r, "response") => sent[r] = <<"response">>

StreamInv == \A r \in Runs : (mode[r] = "stream" => Mirror(r)) /\ Closed(r)

LEMMA OpenedIsSequence == Opened \in Seq(Messages) /\ Opened = Append(<<"run_started">>, "step_started")
  BY DEF Opened, Messages

LEMMA ProgressIsMessages == \A s \in Seq(ProgressEvents) : s \in Seq(Messages)
  BY DEF Messages

LEMMA RebuiltIsSequence ==
  ASSUME Typed, NEW r \in Runs
  PROVE  Rebuilt(r) \in Seq(Messages)
<1>1. replayed[r] \in Nat
  BY DEF Typed, TypeOK
<1>2. \A i \in 1..replayed[r] : (IF i % 2 = 1 THEN "tool_started" ELSE "tool_finished") \in Messages
  BY DEF Messages, ProgressEvents
<1>3. Rebuilt(r) \in [1..replayed[r] -> Messages]
  BY <1>2 DEF Rebuilt
<1> QED
  BY <1>1, <1>3

LEMMA Associative ==
  \A s, t, u \in Seq(Messages) : (s \o t) \o u = s \o (t \o u)
<1> TAKE s, t, u \in Seq(Messages)
<1> QED
  BY SMT

LEMMA Parity ==
  ASSUME NEW n \in Nat
  PROVE  (n + 1) % 2 = 1 <=> n % 2 = 0
  OBVIOUS

\* An event moved from the head of the queue to the end of the stream.
LEMMA MoveEvent ==
  ASSUME NEW s \in Seq(Messages), NEW q \in Seq(Messages), q # <<>>
  PROVE  Append(s, Head(q)) \o Tail(q) = s \o q
<1>1. Head(q) \in Messages /\ Tail(q) \in Seq(Messages) /\ Len(q) \in Nat \ {0}
  OBVIOUS
<1>2. Append(s, Head(q)) \o Tail(q) \in Seq(Messages) /\ s \o q \in Seq(Messages)
  BY <1>1
<1>3. Len(Append(s, Head(q)) \o Tail(q)) = Len(s) + Len(q) /\ Len(s \o q) = Len(s) + Len(q)
  BY <1>1
<1>4. ASSUME NEW i \in 1..Len(s) + Len(q)
      PROVE  (Append(s, Head(q)) \o Tail(q))[i] = (s \o q)[i]
  BY <1>1
<1> DEFINE u == Append(s, Head(q)) \o Tail(q)
           v == s \o q
<1>5. u \in Seq(Messages) /\ v \in Seq(Messages) /\ Len(u) = Len(v) /\ \A i \in 1..Len(u) : u[i] = v[i]
  BY <1>2, <1>3, <1>4
<1> HIDE DEF u, v
<1>6. u = v
  BY <1>5, SeqEqual
<1> QED
  BY <1>6 DEF u, v

LEMMA InitStream == Init => StreamInv
  BY DEF Init, StreamInv, Mirror, Closed, Has, Before, After

-----------------------------------------------------------------------------
(* The graph.                                                              *)

\* What a step of r's graph adds, it adds to the queue and to the record alike.
LEMMA GraphAdds ==
  ASSUME Typed, NEW r \in Runs, GraphStep(r)
  PROVE  /\ \E news \in Seq(ProgressEvents) :
              queue'[r] = queue[r] \o news /\ emitted'[r] = emitted[r] \o news
         /\ \A x \in Runs \ {r} : queue'[x] = queue[x] /\ emitted'[x] = emitted[x]
         /\ UNCHANGED <<mode, pc, sent, replayed>> /\ task[r] \notin IdleGraph
<1>0. /\ queue \in [Runs -> Seq(ProgressEvents)] /\ emitted \in [Runs -> Seq(ProgressEvents)]
      /\ queue[r] \in Seq(ProgressEvents) /\ emitted[r] \in Seq(ProgressEvents)
  BY DEF Typed, TypeOK
<1>1. ASSUME UNCHANGED <<queue, emitted>>
      PROVE  \E news \in Seq(ProgressEvents) :
               queue'[r] = queue[r] \o news /\ emitted'[r] = emitted[r] \o news
  <2>1. <<>> \in Seq(ProgressEvents) /\ queue[r] \o <<>> = queue[r] /\ emitted[r] \o <<>> = emitted[r]
    BY <1>0, ConcatEmptySeq
  <2> QED
    BY <1>1, <2>1
<1>2. ASSUME NEW events \in Seq(ProgressEvents), Emit(r, events)
      PROVE  /\ \E news \in Seq(ProgressEvents) :
                  queue'[r] = queue[r] \o news /\ emitted'[r] = emitted[r] \o news
             /\ \A x \in Runs \ {r} : queue'[x] = queue[x] /\ emitted'[x] = emitted[x]
  <2>1. PICK news \in Seq(ProgressEvents) :
          /\ queue' = [queue EXCEPT ![r] = queue[r] \o news]
          /\ emitted' = [emitted EXCEPT ![r] = emitted[r] \o news]
    <3> DEFINE news == IF mode[r] = "stream" THEN events ELSE <<>>
    <3>1. news \in Seq(ProgressEvents)
      OBVIOUS
    <3>2. /\ queue' = [queue EXCEPT ![r] = queue[r] \o news]
          /\ emitted' = [emitted EXCEPT ![r] = emitted[r] \o news]
      BY <1>2 DEF Emit
    <3> HIDE DEF news
    <3> QED
      BY <3>1, <3>2, Zenon
  <2> QED
    BY <1>0, <2>1
<1>3. UNCHANGED <<mode, pc, sent, replayed>> /\ task[r] \notin IdleGraph
  BY DEF GraphStep, RouteSales, LoadContext, ClassifyComplexity, SelectTools, Plan, CallTool,
     ComposeAnswer, RunAgentLoop, FinishRun, IdleGraph, config, handler
<1>4. UNCHANGED <<queue, emitted>> \/ \E events \in Seq(ProgressEvents) : Emit(r, events)
  <2>1. /\ <<"agent_step">> \in Seq(ProgressEvents)
        /\ <<"agent_step", "llm_started">> \in Seq(ProgressEvents)
        /\ <<"tool_started">> \in Seq(ProgressEvents)
        /\ <<>> \in Seq(ProgressEvents) /\ <<"tool_finished">> \in Seq(ProgressEvents)
    BY DEF ProgressEvents
  <2>2. ASSUME NEW n, NEW before \in Seq(ProgressEvents), NextIteration(r, n, before)
        PROVE  \E events \in Seq(ProgressEvents) : Emit(r, events)
    <3>1. /\ before \o <<"llm_started">> \in Seq(ProgressEvents)
          /\ before \o <<"agent_step">> \in Seq(ProgressEvents)
      BY DEF ProgressEvents
    <3> QED
      BY <2>2, <3>1 DEF NextIteration
  <2>3. CASE Plan(r)
    BY <2>1, <2>2, <2>3 DEF Plan, Blocked
  <2>4. CASE CallTool(r)
    BY <2>1, <2>2, <2>4 DEF CallTool
  <2>5. CASE RouteSales(r) \/ LoadContext(r) \/ ClassifyComplexity(r) \/ SelectTools(r)
    BY <2>1, <2>5 DEF RouteSales, LoadContext, ClassifyComplexity, SelectTools, GraphRaises, Blocked
  <2>6. CASE ComposeAnswer(r) \/ RunAgentLoop(r) \/ FinishRun(r)
    BY <2>6 DEF ComposeAnswer, RunAgentLoop, FinishRun, GraphRaises, Blocked
  <2> QED
    BY <2>3, <2>4, <2>5, <2>6 DEF GraphStep
<1> QED
  BY <1>1, <1>2, <1>3, <1>4

\* Only the pump is there to see it.
LEMMA GraphStream ==
  ASSUME Typed, Inv, StreamInv, NEW r \in Runs, GraphStep(r)
  PROVE  StreamInv'
<1> SUFFICES ASSUME NEW x \in Runs
             PROVE  (mode'[x] = "stream" => Mirror(x)') /\ Closed(x)'
  BY DEF StreamInv
<1>0. UNCHANGED <<mode, pc, sent, replayed>>
  BY GraphAdds
<1>1. CASE x # r
  <2>1. queue'[x] = queue[x] /\ emitted'[x] = emitted[x]
    BY <1>1, GraphAdds
  <2> QED
    BY <1>0, <2>1 DEF StreamInv, Mirror, Closed, Has, Rebuilt
<1>2. CASE x = r
  <2>1. PICK news \in Seq(ProgressEvents) :
          queue'[r] = queue[r] \o news /\ emitted'[r] = emitted[r] \o news
    BY GraphAdds
  <2>2. pc[r] \in {"pump", "await", "gone"} /\ ~Has(r, "final") /\ ~Has(r, "error") /\ ~Has(r, "response")
    BY GraphAdds DEF Inv, Linked, GraphHolds, Closing
  <2>3. ASSUME Opened \o emitted[r] = sent[r] \o queue[r]
        PROVE  Opened \o emitted'[r] = sent'[r] \o queue'[r]
    <3>1. /\ sent[r] \in Seq(Messages) /\ queue[r] \in Seq(Messages) /\ emitted[r] \in Seq(Messages)
          /\ news \in Seq(Messages)
      BY ProgressIsMessages DEF Typed, TypeOK
    <3>2. (Opened \o emitted[r]) \o news = Opened \o (emitted[r] \o news)
      BY <3>1, OpenedIsSequence, Associative, Zenon
    <3>3. (sent[r] \o queue[r]) \o news = sent[r] \o (queue[r] \o news)
      BY <3>1, Associative, Zenon
    <3> QED
      BY <1>0, <2>1, <2>3, <3>2, <3>3
  <2> QED
    BY <1>0, <1>2, <2>2, <2>3 DEF StreamInv, Mirror, Closed, Has, Before, After
<1> QED
  BY <1>1, <1>2

-----------------------------------------------------------------------------
(* The request's own coroutine.                                            *)

LEMMA HandlerStream ==
  ASSUME Typed, Typed', Inv, Inv', StreamInv, NEW r \in Runs, HandlerStep(r)
  PROVE  StreamInv'
<1> SUFFICES ASSUME NEW x \in Runs
             PROVE  (mode'[x] = "stream" => Mirror(x)') /\ Closed(x)'
  BY DEF StreamInv
<1>0. /\ mode' = mode /\ mode \in [Runs -> {"run", "stream"}]
      /\ pc \in [Runs -> HandlerPCs] /\ replayed \in [Runs -> Nat]
      /\ sent \in [Runs -> Seq(Messages)]
      /\ queue \in [Runs -> Seq(ProgressEvents)] /\ emitted' = emitted
  BY DEF Typed, TypeOK, HandlerStep, StartRun, AnnounceRun, OpenStep, SpawnGraph, PumpEvent, LeavePump,
     DrainEvent, Dequeue, JoinGraph, ReplayToolEvent, Conclude, MarkFailed, ReportError, config, graph
<1>1. CASE x # r
  <2>1. /\ pc'[x] = pc[x] /\ sent'[x] = sent[x] /\ replayed'[x] = replayed[x]
        /\ queue'[x] = queue[x]
    BY <1>0, <1>1 DEF HandlerStep, StartRun, AnnounceRun, OpenStep, SpawnGraph, PumpEvent, LeavePump,
       DrainEvent, Dequeue, JoinGraph, ReplayToolEvent, Conclude, MarkFailed, ReportError, Goto, Yield,
       config, graph
  <2> QED
    BY <1>0, <2>1 DEF StreamInv, Mirror, Closed, Has, Rebuilt
<1>2. CASE x = r
  <2> USE <1>0 DEF Goto, Yield, graph
  <2>0. /\ Linked(r) /\ Linked(r)' /\ (mode[r] = "stream" => Mirror(r)) /\ Closed(r)
        /\ sent[r] \in Seq(Messages) /\ emitted[r] \in Seq(Messages) /\ queue[r] \in Seq(Messages)
        /\ Rebuilt(r) \in Seq(Messages)
    BY ProgressIsMessages, RebuiltIsSequence DEF Inv, StreamInv, Typed, TypeOK
\* Nothing is sent that closes the stream.
  <2>1. ASSUME ~Has(r, "final")', ~Has(r, "error")', ~Has(r, "response")' PROVE Closed(r)'
    BY <2>1 DEF Closed
  <2>2. pc'[r] # "done" => Closed(r)'
    BY <2>0, <2>1 DEF Linked, Closing
  <2>3. CASE StartRun(r)
    BY <1>2, <2>0, <2>2, <2>3 DEF StartRun, Mirror, Before, After
  <2>4. CASE AnnounceRun(r)
    <3>1. mode[r] = "stream" => sent'[r] = <<"run_started">>
      BY <2>0, <2>4 DEF AnnounceRun, Mirror
    <3> QED
      BY <1>2, <2>0, <2>2, <2>4, <3>1 DEF AnnounceRun, Mirror, Before, After
  <2>5. CASE OpenStep(r)
    <3>1. mode[r] = "stream" => sent'[r] = Opened
      BY <2>0, <2>5, OpenedIsSequence DEF OpenStep, Mirror
    <3> QED
      BY <1>2, <2>0, <2>2, <2>5, <3>1 DEF OpenStep, Mirror, Before, After
  <2>6. CASE SpawnGraph(r)
    <3>1. pc[r] = "spawn" /\ UNCHANGED <<sent, replayed, queue>> /\ pc'[r] \in {"pump", "await"}
      BY <2>6 DEF SpawnGraph
    <3> QED
      BY <1>2, <2>0, <2>2, <3>1 DEF Mirror, Before, After
  <2>7. CASE PumpEvent(r) \/ DrainEvent(r)
    <3>1. /\ pc[r] \in {"pump", "drain"} /\ pc'[r] = pc[r] /\ queue[r] # <<>>
          /\ sent'[r] = Append(sent[r], Head(queue[r])) /\ queue'[r] = Tail(queue[r])
          /\ replayed' = replayed
      BY <2>7 DEF PumpEvent, DrainEvent, Dequeue
    <3>2. sent'[r] \o queue'[r] = sent[r] \o queue[r]
      BY <2>0, <3>1, MoveEvent
    <3> QED
      BY <1>2, <2>0, <2>2, <3>1, <3>2 DEF Mirror, Before, After
  <2>8. CASE LeavePump(r)
    <3>1. pc[r] = "pump" /\ UNCHANGED <<sent, replayed, queue>> /\ pc'[r] = "drain"
      BY <2>8 DEF LeavePump
    <3> QED
      BY <1>2, <2>0, <2>2, <3>1 DEF Mirror, Before, After
  <2>9. CASE JoinGraph(r)
    <3>1. /\ (pc[r] = "drain" /\ queue[r] = <<>>) \/ pc[r] = "await"
          /\ UNCHANGED <<sent, replayed, queue>> /\ pc'[r] \in {"failing", "replay", "finalize"}
      BY <2>9 DEF JoinGraph, OnError, Drained
    <3>2. ASSUME mode[r] = "stream" PROVE sent'[r] = Opened \o emitted'[r] \o Rebuilt(r)'
      <4>1. pc[r] = "drain" /\ queue[r] = <<>>
        BY <2>0, <3>1, <3>2 DEF Linked, Told
      <4>2. sent[r] = Opened \o emitted[r] /\ replayed[r] = 0
        BY <2>0, <3>2, <4>1, ConcatEmptySeq DEF Mirror
      <4>3. Rebuilt(r) = <<>>
        BY <4>2 DEF Rebuilt
      <4>4. Rebuilt(r)' = Rebuilt(r)
        BY <3>1 DEF Rebuilt
      <4>5. Opened \o emitted[r] \o <<>> = Opened \o emitted[r]
        BY <2>0, <4>2, ConcatEmptySeq
      <4> QED
        BY <3>1, <4>2, <4>3, <4>4, <4>5
    <3> QED
      BY <1>2, <2>0, <2>2, <3>1, <3>2 DEF Mirror, Before, After
  <2>10. CASE ReplayToolEvent(r)
    <3> DEFINE m == IF replayed[r] % 2 = 0 THEN "tool_started" ELSE "tool_finished"
    <3>1. /\ pc[r] = "replay" /\ sent'[r] = Append(sent[r], m) /\ replayed'[r] = replayed[r] + 1
          /\ pc'[r] \in {"replay", "finalize"}
      BY <2>10 DEF ReplayToolEvent
    <3>2. m \in Messages
      BY DEF Messages, ProgressEvents
    <3> HIDE DEF m
    <3>3. Rebuilt(r)' = Append(Rebuilt(r), m)
      <4>1. Len(Rebuilt(r)) = replayed[r] /\ replayed[r] \in Nat
        BY DEF Rebuilt
      <4>2. Append(Rebuilt(r), m) =
              [i \in 1..replayed[r] + 1 |-> IF i = replayed[r] + 1 THEN m ELSE Rebuilt(r)[i]]
        BY <2>0, <4>1, AppendAsFunction
      <4>3. (replayed[r] + 1) % 2 = 1 <=> replayed[r] % 2 = 0
        BY <4>1, Parity, Zenon
      <4> QED
        BY <3>1, <4>1, <4>2, <4>3 DEF Rebuilt, m
    <3>4. ASSUME mode[r] = "stream" PROVE sent'[r] = Opened \o emitted'[r] \o Rebuilt(r)'
      <4> DEFINE base == Opened \o emitted[r]
      <4>0. <<m>> \in Seq(Messages)
        BY <3>2
      <4>1. base \in Seq(Messages) /\ sent[r] = base \o Rebuilt(r)
        <5>1. base \in Seq(Messages)
          BY <2>0, OpenedIsSequence, ConcatProperties, Zenon
        <5>2. Mirror(r) /\ pc[r] \in After
          BY <2>0, <3>1, <3>4 DEF After
        <5> QED
          BY <5>1, <5>2, Zenon DEF Mirror
      <4> HIDE DEF base
      <4>2. /\ Append(base \o Rebuilt(r), m) = (base \o Rebuilt(r)) \o <<m>>
            /\ Append(Rebuilt(r), m) = Rebuilt(r) \o <<m>>
        BY <2>0, <3>2, <4>1, AppendIsConcat
      <4>3. (base \o Rebuilt(r)) \o <<m>> = base \o (Rebuilt(r) \o <<m>>)
        BY <2>0, <4>0, <4>1, Associative, Zenon
      <4> QED
        BY <3>1, <3>3, <4>1, <4>2, <4>3 DEF base
    <3> QED
      BY <1>2, <2>0, <2>2, <3>1, <3>4 DEF Mirror, Before, After
  <2>11. CASE MarkFailed(r)
    <3>1. pc[r] = "failing" /\ UNCHANGED <<sent, replayed, queue>> /\ pc'[r] \in {"report", "broken"}
      BY <2>11 DEF MarkFailed
    <3>2. Rebuilt(r)' = Rebuilt(r)
      BY <3>1 DEF Rebuilt
    <3> QED
      BY <1>2, <2>0, <2>2, <3>1, <3>2 DEF Mirror, Before, After
  <2>12. CASE Conclude(r) \/ ReportError(r)
    <3>1. PICK last \in {"final", "response", "error"} :
            /\ sent' = [sent EXCEPT ![r] = Append(@, last)] /\ pc'[r] = "done" /\ replayed' = replayed
            /\ pc[r] \in {"finalize", "report"}
            /\ last = "response" <=> mode[r] = "run"
      BY <2>0, <2>12 DEF Conclude, ReportError, Linked, Told
    <3>2. Rebuilt(r)' = Rebuilt(r)
      BY <3>1 DEF Rebuilt
    <3>3. last \in Messages /\ \A k \in {"final", "response", "error"} : Has(r, k)' => k = last
      BY <2>0, <3>1, NotHeard DEF Messages, Linked, Closing
    <3>4. CASE mode[r] = "run"
      <4>1. sent[r] = <<>> /\ last = "response"
        BY <2>0, <3>1, <3>4 DEF Linked, Told
      <4>2. sent'[r] = <<"response">>
        BY <3>1, <4>1
      <4> QED
        BY <1>2, <3>3, <3>4, <4>1, <4>2 DEF Closed
    <3>5. CASE mode[r] = "stream"
      <4> DEFINE whole == Opened \o emitted[r] \o Rebuilt(r)
      <4>1. sent[r] = whole
        BY <2>0, <3>1, <3>5 DEF Mirror, After
      <4>2. sent'[r] = whole \o <<last>>
        <5>1. sent[r] \in Seq(Messages) /\ sent'[r] = Append(sent[r], last)
          BY <2>0, <3>1
        <5>2. Append(sent[r], last) = sent[r] \o <<last>>
          BY <3>3, <5>1, AppendIsConcat
        <5> HIDE DEF whole
        <5> QED
          BY <4>1, <5>1, <5>2
      <4>3. Closed(r)'
        BY <3>1, <3>2, <3>3, <3>5, <4>2 DEF Closed
      <4> QED
        BY <1>2, <3>1, <4>3 DEF Mirror, Before, After
    <3> QED
      BY <3>4, <3>5
  <2> QED
    BY <2>3, <2>4, <2>5, <2>6, <2>7, <2>8, <2>9, <2>10, <2>11, <2>12 DEF HandlerStep
<1> QED
  BY <1>1, <1>2

LEMMA FaultStream ==
  ASSUME Typed, Inv, StreamInv, Crash \/ \E r \in Runs : Disconnect(r)
  PROVE  StreamInv'
<1> SUFFICES ASSUME NEW x \in Runs
             PROVE  (mode'[x] = "stream" => Mirror(x)') /\ Closed(x)'
  BY DEF StreamInv
<1>1. UNCHANGED <<mode, sent, replayed, queue, emitted>> /\ pc'[x] \in {pc[x], "gone", "dead"}
  BY DEF Crash, Disconnect, Goto, Typed, TypeOK, config, graph
<1> QED
  BY <1>1 DEF StreamInv, Mirror, Closed, Has, Rebuilt, Before, After

LEMMA StepStream ==
  ASSUME Typed, Typed', Inv, Inv', StreamInv, [Next]_vars
  PROVE  StreamInv'
<1>1. CASE UNCHANGED vars
  BY <1>1 DEF vars, config, handler, graph, StreamInv, Mirror, Closed, Has, Rebuilt
<1> QED
  BY <1>1, GraphStream, HandlerStream, FaultStream DEF Next

\* A stream that closes has the two opening events, every progress event its graph put
\* on the queue, in that order, the tool events rebuilt from the artifact, and the closing
\* event last; however the poll of graph_task.done() falls between the graph's steps.
THEOREM StreamsMirrorGraphs == Spec => []StreamMirrorsGraph
<1>1. Init => StreamInv
  BY InitStream
<1>2. Typed /\ Typed' /\ Inv /\ Inv' /\ StreamInv /\ [Next]_vars => StreamInv'
  BY StepStream
<1>3. StreamInv => StreamMirrorsGraph
  BY DEF StreamInv, Closed, Opened, StreamMirrorsGraph
<1> QED
  BY <1>1, <1>2, <1>3, Invariance, PTL DEF Spec

-----------------------------------------------------------------------------
(* Tool events in pairs.                                                   *)

Plain(s) == \A i \in 1..Len(s) : s[i] \notin ToolEvents

\* A sequence without tool events is paired.
LEMMA PlainIsPaired == \A s : Plain(s) => Paired(s)
  BY DEF Plain, Paired, ToolEvents

\* Pairs do not reach across the seam of two paired sequences.
LEMMA PairedConcat ==
  ASSUME NEW s \in Seq(Messages), NEW t \in Seq(Messages), Paired(s), Paired(t)
  PROVE  Paired(s \o t)
<1> DEFINE u == s \o t
           m == Len(s)
           n == Len(t)
<1>1. /\ m \in Nat /\ n \in Nat /\ Len(u) = m + n
      /\ \A i \in 1..m : u[i] = s[i]
      /\ \A i \in 1..n : u[m + i] = t[i]
  OBVIOUS
<1> HIDE DEF u, m, n
<1>2. /\ Len(s) = m /\ Len(t) = n
  BY DEF m, n
<1>3. ASSUME NEW i \in 1..m, NEW j \in 1..m, NoTool(s, i, j)
      PROVE  NoTool(u, i, j)
  BY <1>1, <1>2, <1>3 DEF NoTool
<1>4. ASSUME NEW i \in 1..n, NEW j \in 1..n, NoTool(t, i, j)
      PROVE  NoTool(u, m + i, m + j)
  <2> SUFFICES ASSUME NEW k \in 1..(m + n), m + i < k, k < m + j
               PROVE  u[k] \notin ToolEvents
    BY <1>1 DEF NoTool
  <2>1. k - m \in 1..n /\ i < k - m /\ k - m < j /\ u[k] = t[k - m]
    BY <1>1
  <2> QED
    BY <2>1, <1>2, <1>4 DEF NoTool
<1>5. ASSUME NEW i \in 1..(m + n), u[i] = "tool_started"
      PROVE  \E j \in 1..(m + n) : i < j /\ u[j] = "tool_finished" /\ NoTool(u, i, j)
  <2>1. CASE i \in 1..m
    <3>1. PICK j \in 1..m : i < j /\ s[j] = "tool_finished" /\ NoTool(s, i, j)
      BY <2>1, <1>1, <1>2, <1>5 DEF Paired
    <3> QED
      BY <2>1, <3>1, <1>1, <1>3
  <2>2. CASE i - m \in 1..n
    <3>0. t[i - m] = "tool_started"
      BY <2>2, <1>1, <1>5
    <3>1. PICK j \in 1..n : i - m < j /\ t[j] = "tool_finished" /\ NoTool(t, i - m, j)
      BY <2>2, <3>0, <1>2 DEF Paired
    <3>2. m + j \in 1..(m + n) /\ i < m + j /\ u[m + j] = "tool_finished" /\ m + (i - m) = i
      BY <3>1, <1>1
    <3>3. NoTool(u, i, m + j)
      BY <2>2, <3>1, <3>2, <1>4
    <3> QED
      BY <3>2, <3>3
  <2> QED
    BY <2>1, <2>2, <1>1
<1>6. ASSUME NEW i \in 1..(m + n), u[i] = "tool_finished"
      PROVE  \E j \in 1..(m + n) : j < i /\ u[j] = "tool_started" /\ NoTool(u, j, i)
  <2>1. CASE i \in 1..m
    <3>1. PICK j \in 1..m : j < i /\ s[j] = "tool_started" /\ NoTool(s, j, i)
      BY <2>1, <1>1, <1>2, <1>6 DEF Paired
    <3> QED
      BY <2>1, <3>1, <1>1, <1>3
  <2>2. CASE i - m \in 1..n
    <3>0. t[i - m] = "tool_finished"
      BY <2>2, <1>1, <1>6
    <3>1. PICK j \in 1..n : j < i - m /\ t[j] = "tool_started" /\ NoTool(t, j, i - m)
      BY <2>2, <3>0, <1>2 DEF Paired
    <3>2. m + j \in 1..(m + n) /\ m + j < i /\ u[m + j] = "tool_started" /\ m + (i - m) = i
      BY <3>1, <1>1
    <3>3. NoTool(u, m + j, i)
      BY <2>2, <3>1, <3>2, <1>4
    <3> QED
      BY <3>2, <3>3
  <2> QED
    BY <2>1, <2>2, <1>1
<1>7. Paired(u)
  BY <1>1, <1>5, <1>6 DEF Paired
<1> QED
  BY <1>7 DEF u

\* One tool, announced and finished.
LEMMA OnePair == Paired(<<"tool_started", "tool_finished">>)
  BY DEF Paired, NoTool, ToolEvents

\* The events a graph puts on its queue besides those of tools.
LEMMA PlainEvents ==
  /\ Paired(<<>>) /\ Paired(<<"agent_step">>) /\ Paired(<<"llm_started">>)
  /\ Paired(<<"agent_step", "llm_started">>)
  BY PlainIsPaired DEF Plain, ToolEvents

\* What the generator rebuilds from the artifact, two events per observation.
LEMMA RebuiltPaired ==
  ASSUME Typed, NEW r \in Runs, replayed[r] % 2 = 0
  PROVE  Paired(Rebuilt(r))
<1> DEFINE n == replayed[r]
           s == Rebuilt(r)
<1>1. n \in Nat /\ n % 2 = 0
  BY DEF Typed, TypeOK
<1>2. Len(s) = n /\ \A i \in 1..n : s[i] = IF i % 2 = 1 THEN "tool_started" ELSE "tool_finished"
  BY <1>1 DEF Rebuilt
<1> HIDE DEF n, s
<1>3. ASSUME NEW i \in 1..n, s[i] = "tool_started"
      PROVE  \E j \in 1..n : i < j /\ s[j] = "tool_finished" /\ NoTool(s, i, j)
  <2>1. i % 2 = 1
    BY <1>2, <1>3
  <2>2. i + 1 \in 1..n /\ (i + 1) % 2 = 0
    BY <2>1, <1>1
  <2> QED
    BY <2>2, <1>2 DEF NoTool
<1>4. ASSUME NEW i \in 1..n, s[i] = "tool_finished"
      PROVE  \E j \in 1..n : j < i /\ s[j] = "tool_started" /\ NoTool(s, j, i)
  <2>1. i % 2 # 1
    BY <1>2, <1>4
  <2>2. i - 1 \in 1..n /\ (i - 1) % 2 = 1
    BY <2>1, <1>1
  <2> QED
    BY <2>2, <1>2 DEF NoTool
<1>5. Paired(s)
  BY <1>2, <1>3, <1>4 DEF Paired
<1> QED
  BY <1>5 DEF s

\* The record of a graph is paired but while a tool runs, which is its last event.
PairsEmitted(r) ==
  /\ task[r] \notin {"tool", "dead"} => Paired(emitted[r])
  /\ task[r] = "tool" =>
       IF mode[r] = "stream"
       THEN \E p \in Seq(ProgressEvents) : Paired(p) /\ emitted[r] = p \o <<"tool_started">>
       ELSE Paired(emitted[r])

\* The generator rebuilds whole pairs.
PairsReplayed(r) ==
  /\ pc[r] \in Before \cup {"pump", "drain", "await", "failing", "report"} => replayed[r] = 0
  /\ pc[r] = "replay" => replayed[r] < 2 * obs[r]
  /\ pc[r] \in {"finalize", "done"} => replayed[r] % 2 = 0

Pairs == \A r \in Runs : PairsEmitted(r) /\ PairsReplayed(r)

\* Paired events after a paired record.
LEMMA EmitPaired ==
  ASSUME Typed, NEW r \in Runs, Paired(emitted[r]),
         NEW events \in Seq(ProgressEvents), Paired(events), Emit(r, events)
  PROVE  Paired(emitted'[r])
<1>1. emitted[r] \in Seq(Messages) /\ events \in Seq(Messages) /\ emitted \in [Runs -> Seq(ProgressEvents)]
  BY ProgressIsMessages DEF Typed, TypeOK
<1>2. emitted'[r] = emitted[r] \o events \/ emitted'[r] = emitted[r] \o <<>>
  BY <1>1 DEF Emit
<1>3. emitted[r] \o <<>> = emitted[r]
  BY <1>1, ConcatEmptySeq
<1>4. Paired(emitted[r] \o events)
  BY <1>1, PairedConcat
<1> QED
  BY <1>2, <1>3, <1>4

\* A tool that is announced is finished by the very step that ends it.
LEMMA CallPaired ==
  ASSUME Typed, Pairs, NEW r \in Runs, task[r] = "tool",
         NEW next \in {"llm_started", "agent_step"}, Emit(r, <<"tool_finished">> \o <<next>>)
  PROVE  Paired(emitted'[r])
<1> DEFINE news == <<"tool_finished">> \o <<next>>
<1>0. /\ emitted \in [Runs -> Seq(ProgressEvents)] /\ mode[r] \in {"run", "stream"}
      /\ <<"tool_started">> \in Seq(Messages) /\ <<"tool_finished">> \in Seq(Messages)
      /\ <<next>> \in Seq(Messages) /\ news \in Seq(Messages)
  BY DEF Typed, TypeOK, Messages, ProgressEvents
<1> HIDE DEF news
<1>1. CASE mode[r] = "stream"
  <2>1. PICK p \in Seq(ProgressEvents) : Paired(p) /\ emitted[r] = p \o <<"tool_started">>
    BY <1>1 DEF Pairs, PairsEmitted
  <2>2. p \in Seq(Messages)
    BY ProgressIsMessages
  <2>3. emitted'[r] = (p \o <<"tool_started">>) \o news
    BY <1>0, <1>1, <2>1 DEF Emit, news
  <2>4. (p \o <<"tool_started">>) \o news = p \o (<<"tool_started">> \o news)
    BY <1>0, <2>2, Associative, Zenon
  <2>5. <<"tool_started">> \o news = <<"tool_started", "tool_finished">> \o <<next>>
    BY DEF news
  <2>6. Paired(<<next>>)
    BY PlainEvents
  <2>7. Paired(<<"tool_started", "tool_finished">> \o <<next>>)
    <3>1. <<"tool_started", "tool_finished">> \in Seq(Messages)
      BY DEF Messages, ProgressEvents
    <3> QED
      BY <1>0, <2>6, <3>1, OnePair, PairedConcat
  <2>8. <<"tool_started">> \o news \in Seq(Messages)
    BY <1>0
  <2> QED
    BY <2>1, <2>2, <2>3, <2>4, <2>5, <2>7, <2>8, PairedConcat
<1>2. CASE mode[r] = "run"
  <2>1. Paired(emitted[r])
    BY <1>2 DEF Pairs, PairsEmitted
  <2>2. emitted'[r] = emitted[r] \o <<>> /\ emitted[r] \o <<>> = emitted[r]
    BY <1>0, <1>2, ConcatEmptySeq DEF Emit
  <2> QED
    BY <2>1, <2>2
<1> QED
  BY <1>0, <1>1, <1>2

\* Each graph step keeps its own record paired, and touches no other.
LEMMA GraphPairs ==
  ASSUME Typed, Pairs, Inv, NEW r \in Runs, GraphStep(r)
  PROVE  Pairs'
<1>0. /\ \A x \in Runs \ {r} : emitted'[x] = emitted[x]
      /\ UNCHANGED <<mode, pc, sent, replayed>> /\ task[r] \notin IdleGraph
      /\ mode \in [Runs -> {"run", "stream"}]
      /\ task \in [Runs -> GraphPCs] /\ obs \in [Runs -> 0..MaxToolCalls]
  BY GraphAdds DEF Typed, TypeOK
<1>1. /\ \A x \in Runs \ {r} : task'[x] = task[x] /\ obs'[x] = obs[x]
  BY <1>0 DEF GraphStep, RouteSales, LoadContext, ClassifyComplexity, SelectTools, Plan, CallTool,
     ComposeAnswer, RunAgentLoop, FinishRun, GraphRaises, GraphGoto, Blocked, NextIteration
<1>2. PairsEmitted(r)'
  <2> USE <1>0 DEF GraphGoto
  <2>0. /\ <<"agent_step">> \in Seq(ProgressEvents) /\ <<"llm_started">> \in Seq(ProgressEvents)
        /\ <<"agent_step", "llm_started">> \in Seq(ProgressEvents)
    BY DEF ProgressEvents
  <2>1. ASSUME Paired(emitted'[r]), task'[r] # "tool" PROVE PairsEmitted(r)'
    BY <2>1 DEF PairsEmitted
  <2>2. task[r] # "tool" => Paired(emitted[r])
    BY DEF Pairs, PairsEmitted, IdleGraph
  <2>3. ASSUME task[r] # "tool", UNCHANGED emitted, task'[r] # "tool"
        PROVE  PairsEmitted(r)'
    BY <2>1, <2>2, <2>3
  <2>4. CASE RouteSales(r) \/ LoadContext(r) \/ ClassifyComplexity(r) \/ SelectTools(r)
    <3>1. task[r] # "tool" /\ task'[r] # "tool"
      BY <2>4 DEF RouteSales, LoadContext, ClassifyComplexity, SelectTools, GraphRaises, Blocked
    <3>2. \/ UNCHANGED emitted
          \/ Emit(r, <<"agent_step">>)
          \/ Emit(r, <<"agent_step", "llm_started">>)
      BY <2>4 DEF RouteSales, LoadContext, ClassifyComplexity, SelectTools, GraphRaises, Blocked
    <3> QED
      BY <2>0, <2>1, <2>2, <2>3, <3>1, <3>2, EmitPaired, PlainEvents
  <2>5. CASE Plan(r)
    <3>1. task[r] = "plan" /\ Paired(emitted[r])
      BY <2>2, <2>5 DEF Plan
    <3>2. CASE Blocked(r)
      BY <2>3, <3>1, <3>2 DEF Blocked
    <3>3. CASE GraphGoto(r, "compose") /\ Emit(r, <<"agent_step">>)
      BY <2>0, <2>1, <3>1, <3>3, EmitPaired, PlainEvents
    <3>4. CASE NextIteration(r, AfterUnknownTool(obs[r]), <<>>)
      <4>1. task'[r] \in {"plan", "compose"}
        BY <3>4 DEF NextIteration
      <4>2. <<>> \o <<"llm_started">> = <<"llm_started">> /\ <<>> \o <<"agent_step">> = <<"agent_step">>
        OBVIOUS
      <4>3. Emit(r, <<"llm_started">>) \/ Emit(r, <<"agent_step">>)
        BY <3>4, <4>2 DEF NextIteration
      <4> QED
        BY <2>0, <2>1, <3>1, <4>1, <4>3, EmitPaired, PlainEvents
    <3>5. CASE GraphGoto(r, "tool") /\ Emit(r, <<"tool_started">>)
      <4>1. task'[r] = "tool"
        BY <3>5
      <4>2. emitted \in [Runs -> Seq(ProgressEvents)] /\ emitted[r] \in Seq(ProgressEvents)
        BY DEF Typed, TypeOK
      <4>3. mode[r] = "stream" => emitted'[r] = emitted[r] \o <<"tool_started">>
        BY <3>5, <4>2 DEF Emit
      <4>4. mode[r] # "stream" => emitted'[r] = emitted[r] \o <<>>
        BY <3>5, <4>2 DEF Emit
      <4>5. emitted[r] \o <<>> = emitted[r]
        BY <4>2, ConcatEmptySeq
      <4> QED
        BY <3>1, <4>1, <4>2, <4>3, <4>4, <4>5 DEF PairsEmitted
    <3> QED
      BY <2>5, <3>2, <3>3, <3>4, <3>5 DEF Plan
  <2>6. CASE CallTool(r)
    <3>1. task[r] = "tool" /\ task'[r] \in {"plan", "compose"}
      BY <2>6 DEF CallTool, NextIteration
    <3>2. \E next \in {"llm_started", "agent_step"} : Emit(r, <<"tool_finished">> \o <<next>>)
      BY <2>6 DEF CallTool, NextIteration
    <3> QED
      BY <2>1, <3>1, <3>2, CallPaired
  <2>7. CASE ComposeAnswer(r) \/ RunAgentLoop(r) \/ FinishRun(r)
    <3>1. task[r] # "tool" /\ task'[r] # "tool" /\ UNCHANGED emitted
      BY <2>7 DEF ComposeAnswer, RunAgentLoop, FinishRun, GraphRaises, Blocked
    <3> QED
      BY <2>3, <3>1
  <2> QED
    BY <2>4, <2>5, <2>6, <2>7 DEF GraphStep
<1>3. PairsReplayed(r)'
  <2>1. pc[r] # "replay"
    BY <1>0 DEF Inv, Linked, GraphHolds
  <2> QED
    BY <1>0, <2>1 DEF Pairs, PairsReplayed
<1>4. ASSUME NEW x \in Runs \ {r} PROVE PairsEmitted(x)' /\ PairsReplayed(x)'
  BY <1>0, <1>1 DEF Pairs, PairsEmitted, PairsReplayed
<1> QED
  BY <1>2, <1>3, <1>4 DEF Pairs

\* The request's own coroutine rebuilds pairs, and emits nothing.
LEMMA HandlerPairs ==
  ASSUME Typed, Pairs, Inv, NEW r \in Runs, HandlerStep(r)
  PROVE  Pairs'
<1>0. /\ UNCHANGED <<mode, emitted, obs>> /\ pc \in [Runs -> HandlerPCs]
      /\ replayed \in [Runs -> Nat] /\ task \in [Runs -> GraphPCs] /\ obs \in [Runs -> 0..MaxToolCalls]
  BY DEF Typed, TypeOK, HandlerStep, StartRun, AnnounceRun, OpenStep, SpawnGraph, PumpEvent, LeavePump,
     DrainEvent, Dequeue, JoinGraph, ReplayToolEvent, Conclude, MarkFailed, ReportError, config, graph
<1>1. task' = task \/ (task[r] = "none" /\ task' = [task EXCEPT ![r] = "route"])
  <2>1. CASE SpawnGraph(r)
    <3>1. pc[r] = "spawn"
      BY <2>1 DEF SpawnGraph
    <3>2. task[r] = "none"
      BY <3>1 DEF Typed, WithinBudget
    <3> QED
      BY <2>1, <3>2 DEF SpawnGraph, GraphGoto
  <2> QED
    BY <2>1 DEF HandlerStep, StartRun, AnnounceRun, OpenStep, PumpEvent, LeavePump,
       DrainEvent, Dequeue, JoinGraph, ReplayToolEvent, Conclude, MarkFailed, ReportError, graph
<1>2. \A x \in Runs : PairsEmitted(x)'
  BY <1>0, <1>1 DEF Pairs, PairsEmitted
<1>3. ASSUME NEW x \in Runs \ {r} PROVE PairsReplayed(x)'
  <2>1. pc'[x] = pc[x] /\ replayed'[x] = replayed[x]
    BY <1>0 DEF HandlerStep, StartRun, AnnounceRun, OpenStep, SpawnGraph, PumpEvent, LeavePump,
       DrainEvent, Dequeue, JoinGraph, ReplayToolEvent, Conclude, MarkFailed, ReportError, Goto, Yield
  <2> QED
    BY <1>0, <2>1 DEF Pairs, PairsReplayed
<1>4. PairsReplayed(r)'
  <2> USE <1>0 DEF Goto, Yield
  <2>0. PairsReplayed(r) /\ obs[r] \in Nat /\ replayed[r] \in Nat
    BY DEF Pairs
  <2>1. CASE ReplayToolEvent(r)
    <3>1. /\ replayed[r] < 2 * obs[r] /\ replayed'[r] = replayed[r] + 1
          /\ pc'[r] = IF replayed[r] + 1 = 2 * obs[r] THEN "finalize" ELSE "replay"
      BY <2>0, <2>1 DEF ReplayToolEvent, PairsReplayed
    <3>2. CASE replayed[r] + 1 = 2 * obs[r]
      <4>1. (2 * obs[r]) % 2 = 0
        BY <2>0
      <4> QED
        BY <3>1, <3>2, <4>1 DEF PairsReplayed, Before
    <3>3. CASE replayed[r] + 1 # 2 * obs[r]
      BY <2>0, <3>1, <3>3 DEF PairsReplayed, Before
    <3> QED
      BY <3>2, <3>3
  <2>2. CASE JoinGraph(r)
    <3>1. /\ replayed[r] = 0 /\ replayed' = replayed
          /\ pc'[r] \in {"failing", "finalize"} \/ (pc'[r] = "replay" /\ obs[r] > 0)
      BY <2>0, <2>2 DEF JoinGraph, OnError, PairsReplayed
    <3> QED
      BY <2>0, <3>1 DEF PairsReplayed, Before
  <2>3. CASE StartRun(r) \/ AnnounceRun(r) \/ OpenStep(r) \/ SpawnGraph(r)
    <3>1. /\ pc[r] \in Before /\ replayed' = replayed
          /\ pc'[r] \in Before \cup {"pump", "await", "broken"}
      BY <2>3 DEF StartRun, AnnounceRun, OpenStep, SpawnGraph, Before
    <3> QED
      BY <2>0, <3>1 DEF PairsReplayed, Before
  <2>4. CASE PumpEvent(r) \/ LeavePump(r) \/ DrainEvent(r)
    <3>1. pc[r] \in {"pump", "drain"} /\ replayed' = replayed /\ pc'[r] \in {"pump", "drain"}
      BY <2>4 DEF PumpEvent, LeavePump, DrainEvent, Dequeue
    <3> QED
      BY <2>0, <3>1 DEF PairsReplayed, Before
  <2>5. CASE Conclude(r) \/ MarkFailed(r) \/ ReportError(r)
    <3>1. /\ replayed' = replayed
          /\ \/ pc[r] = "finalize" /\ pc'[r] = "done"
             \/ pc[r] = "failing" /\ pc'[r] \in {"report", "broken"}
             \/ pc[r] = "report" /\ pc'[r] = "done"
      BY <2>5 DEF Conclude, MarkFailed, ReportError
    <3> QED
      BY <2>0, <3>1 DEF PairsReplayed, Before
  <2> QED
    BY <2>1, <2>2, <2>3, <2>4, <2>5 DEF HandlerStep
<1> QED
  BY <1>2, <1>3, <1>4 DEF Pairs

\* Faults emit nothing and end coroutines where they are.
LEMMA FaultPairs ==
  ASSUME Typed, Pairs, Crash \/ \E r \in Runs : Disconnect(r)
  PROVE  Pairs'
<1> SUFFICES ASSUME NEW x \in Runs PROVE PairsEmitted(x)' /\ PairsReplayed(x)'
  BY DEF Pairs
<1>1. /\ UNCHANGED <<mode, replayed, emitted, obs>> /\ pc'[x] \in {pc[x], "gone", "dead"}
      /\ task'[x] \in {task[x], "dead"}
  BY DEF Crash, Disconnect, Goto, Typed, TypeOK, config, graph
<1> QED
  BY <1>1 DEF Pairs, PairsEmitted, PairsReplayed, Before

LEMMA StepPairs ==
  ASSUME Typed, Inv, Pairs, [Next]_vars
  PROVE  Pairs'
<1>1. CASE UNCHANGED vars
  BY <1>1 DEF vars, config, handler, graph, Pairs, PairsEmitted, PairsReplayed
<1> QED
  BY <1>1, GraphPairs, HandlerPairs, FaultPairs DEF Next

\* In a stream that closed every tool that was announced was finished before the next
\* one was announced, whether the events went out live or were rebuilt.
THEOREM ToolsArePaired == Spec => []ToolsPaired
<1>1. Init => Pairs
  BY PlainEvents DEF Init, Pairs, PairsEmitted, PairsReplayed, Before
<1>2. Typed /\ Inv /\ Pairs /\ [Next]_vars => Pairs'
  BY StepPairs
<1>3. Typed /\ Inv /\ StreamInv /\ Pairs => ToolsPaired
  <2> SUFFICES ASSUME Typed, Inv, StreamInv, Pairs, NEW r \in Runs,
                      NEW last \in {"final", "error"}, Has(r, last)
               PROVE  Paired(sent[r])
    BY DEF ToolsPaired
  <2>1. pc[r] = "done" /\ task[r] \in {"returned", "raised"}
    BY DEF Inv, Linked, Closing
  <2>2. Paired(emitted[r]) /\ Paired(Rebuilt(r))
    BY <2>1, RebuiltPaired DEF Pairs, PairsEmitted, PairsReplayed
  <2>3. Paired(Opened) /\ Paired(<<last>>)
    BY PlainIsPaired DEF Plain, Opened, ToolEvents
  <2>4. /\ Opened \in Seq(Messages) /\ emitted[r] \in Seq(Messages) /\ Rebuilt(r) \in Seq(Messages)
        /\ <<last>> \in Seq(Messages)
    BY OpenedIsSequence, ProgressIsMessages, RebuiltIsSequence DEF Typed, TypeOK, Messages
  <2>5. sent[r] = Opened \o emitted[r] \o Rebuilt(r) \o <<last>>
    BY DEF StreamInv, Closed
  <2>6. Opened \o emitted[r] \in Seq(Messages) /\ Paired(Opened \o emitted[r])
    BY <2>2, <2>3, <2>4, PairedConcat
  <2>7. /\ Opened \o emitted[r] \o Rebuilt(r) \in Seq(Messages)
        /\ Paired(Opened \o emitted[r] \o Rebuilt(r))
    <3> DEFINE base == Opened \o emitted[r]
    <3>1. base \in Seq(Messages) /\ Paired(base)
      BY <2>6
    <3> HIDE DEF base
    <3>2. base \o Rebuilt(r) \in Seq(Messages) /\ Paired(base \o Rebuilt(r))
      BY <2>2, <2>4, <3>1, PairedConcat
    <3> QED
      BY <3>2 DEF base
  <2> DEFINE whole == Opened \o emitted[r] \o Rebuilt(r)
  <2> HIDE DEF whole
  <2>8. Paired(whole \o <<last>>)
    <3>1. whole \in Seq(Messages) /\ Paired(whole)
      BY <2>7 DEF whole
    <3> QED
      BY <2>3, <2>4, <3>1, PairedConcat
  <2> QED
    BY <2>5, <2>8 DEF whole
<1>4. Spec => []StreamInv
  BY InitStream, StepStream, Invariance, PTL DEF Spec
<1> QED
  BY <1>1, <1>2, <1>3, <1>4, Invariance, PTL DEF Spec

-----------------------------------------------------------------------------
(* The service.                                                            *)

FoodP == INSTANCE FoodCostProofs
           WITH pc <- foodPc, sent <- foodSent, status <- foodStatus, lost <- foodLost

-----------------------------------------------------------------------------
(* Food and FoodP.                                                         *)

LEMMA SameInit == Food!Init <=> FoodP!Init
  BY DEF Food!Init, FoodP!Init

LEMMA SameVars == (UNCHANGED Food!vars) <=> (UNCHANGED FoodP!vars)
  BY DEF Food!vars, Food!config, Food!work, Food!database,
         FoodP!vars, FoodP!config, FoodP!work, FoodP!database

LEMMA SameCount == \A s, x : Food!Count(s, x) = FoodP!Count(s, x)
  BY Zenon DEF Food!Count, FoodP!Count, Food!Cardinality, FoodP!Cardinality

LEMMA SameRunStep ==
  ASSUME NEW r
  PROVE  Food!RunStep(r) <=> FoodP!RunStep(r)
<1> USE DEF Food!Goto, FoodP!Goto, Food!Tell, FoodP!Tell, Food!OnError, FoodP!OnError,
        Food!SetStatus, FoodP!SetStatus, Food!Lose, FoodP!Lose,
        Food!RecordStep, FoodP!RecordStep, Food!Outcomes, FoodP!Outcomes,
        Food!TxOutcomes, FoodP!TxOutcomes, Food!Applied, FoodP!Applied, Food!Raises, FoodP!Raises,
        Food!config, FoodP!config, Food!work, FoodP!work, Food!database, FoodP!database
<1>1. Food!StartRun(r) <=> FoodP!StartRun(r)
  BY DEF Food!StartRun, FoodP!StartRun
<1>2. Food!AnnounceRun(r) <=> FoodP!AnnounceRun(r)
  BY DEF Food!AnnounceRun, FoodP!AnnounceRun
<1>3. Food!OpenStep(r) <=> FoodP!OpenStep(r)
  BY DEF Food!OpenStep, FoodP!OpenStep
<1>4. Food!RouteFoodCost(r) <=> FoodP!RouteFoodCost(r)
  BY DEF Food!RouteFoodCost, FoodP!RouteFoodCost
<1>5. Food!PrepareCall(r) <=> FoodP!PrepareCall(r)
  BY DEF Food!PrepareCall, FoodP!PrepareCall
<1>6. Food!StartTool(r) <=> FoodP!StartTool(r)
  BY DEF Food!StartTool, FoodP!StartTool
<1>7. Food!CallTool(r) <=> FoodP!CallTool(r)
  BY DEF Food!CallTool, FoodP!CallTool
<1>8. Food!FinishTool(r) <=> FoodP!FinishTool(r)
  BY DEF Food!FinishTool, FoodP!FinishTool, Food!AfterTool, FoodP!AfterTool,
         Food!RequiredTools, FoodP!RequiredTools
<1>9. Food!BuildArtifact(r) <=> FoodP!BuildArtifact(r)
  BY DEF Food!BuildArtifact, FoodP!BuildArtifact
<1>10. Food!OpenLLM(r) <=> FoodP!OpenLLM(r)
  BY DEF Food!OpenLLM, FoodP!OpenLLM
<1>11. Food!StreamToken(r) <=> FoodP!StreamToken(r)
  BY SameCount DEF Food!StreamToken, FoodP!StreamToken
<1>12. Food!EndLLMStream(r) <=> FoodP!EndLLMStream(r)
  BY DEF Food!EndLLMStream, FoodP!EndLLMStream
<1>13. Food!RunKaliAgent(r) <=> FoodP!RunKaliAgent(r)
  BY DEF Food!RunKaliAgent, FoodP!RunKaliAgent
<1>14. Food!FinishRun(r) <=> FoodP!FinishRun(r)
  BY DEF Food!FinishRun, FoodP!FinishRun
<1>15. Food!Conclude(r) <=> FoodP!Conclude(r)
  BY DEF Food!Conclude, FoodP!Conclude
<1>16. Food!MarkFailed(r) <=> FoodP!MarkFailed(r)
  BY DEF Food!MarkFailed, FoodP!MarkFailed
<1>17. Food!ReportError(r) <=> FoodP!ReportError(r)
  BY DEF Food!ReportError, FoodP!ReportError
<1> QED
  BY <1>1, <1>2, <1>3, <1>4, <1>5, <1>6, <1>7, <1>8, <1>9, <1>10, <1>11, <1>12, <1>13, <1>14,
     <1>15, <1>16, <1>17, Zenon DEF Food!RunStep, FoodP!RunStep

LEMMA SameNext == Food!Next <=> FoodP!Next
<1> USE DEF Food!config, FoodP!config, Food!work, FoodP!work, Food!database, FoodP!database,
        Food!Goto, FoodP!Goto, Food!EndedPCs, FoodP!EndedPCs
<1>1. \A r : Food!Disconnect(r) <=> FoodP!Disconnect(r)
  BY DEF Food!Disconnect, FoodP!Disconnect
<1>2. Food!Crash <=> FoodP!Crash
  BY DEF Food!Crash, FoodP!Crash
<1> QED
  BY <1>1, <1>2, SameRunStep DEF Food!Next, FoodP!Next

LEMMA SameSpec == Food!Spec => FoodP!Spec
<1>1. [Food!Next]_(Food!vars) => [FoodP!Next]_(FoodP!vars)
  BY SameNext, SameVars
<1> QED
  BY <1>1, SameInit, PTL DEF Food!Spec, FoodP!Spec

LEMMA SameContract == FoodP!ImplementsContract => Food!ImplementsContract
<1> USE DEF Food!heard, FoodP!heard, Food!MessageClass, FoodP!MessageClass, Food!Progress, FoodP!Progress
<1>1. FoodP!Contract!Init => Food!Contract!Init
  BY DEF Food!Contract!Init, FoodP!Contract!Init
<1>2. [FoodP!Contract!Next]_(FoodP!Contract!vars) => [Food!Contract!Next]_(Food!Contract!vars)
  BY DEF Food!Contract!Next, FoodP!Contract!Next, Food!Contract!vars, FoodP!Contract!vars,
         Food!Contract!Begin, FoodP!Contract!Begin, Food!Contract!Complete, FoodP!Contract!Complete,
         Food!Contract!Fail, FoodP!Contract!Fail, Food!Contract!Announce, FoodP!Contract!Announce,
         Food!Contract!Progress, FoodP!Contract!Progress, Food!Contract!Final, FoodP!Contract!Final,
         Food!Contract!Error, FoodP!Contract!Error, Food!Contract!Respond, FoodP!Contract!Respond,
         Food!Contract!SetStatus, FoodP!Contract!SetStatus, Food!Contract!Tell, FoodP!Contract!Tell,
         Food!Contract!Closed, FoodP!Contract!Closed, Food!Contract!Closing, FoodP!Contract!Closing
<1> QED
  BY <1>1, <1>2, PTL DEF FoodP!ImplementsContract, Food!ImplementsContract,
                         FoodP!Contract!Spec, Food!Contract!Spec

-----------------------------------------------------------------------------
(* The service is both workflows at once.                                  *)

\* No step of the sales workflow touches what both share.
LEMMA SalesKeepsSettings ==
  ASSUME NEW r \in Runs, HandlerStep(r) \/ GraphStep(r) \/ Disconnect(r) \/ Crash
  PROVE  UNCHANGED <<llmEnabled, mode>>
<1> USE DEF config
<1>1. CASE HandlerStep(r)
  BY <1>1 DEF HandlerStep, StartRun, AnnounceRun, OpenStep, SpawnGraph, PumpEvent, LeavePump,
     DrainEvent, Dequeue, JoinGraph, ReplayToolEvent, Conclude, MarkFailed, ReportError
<1>2. CASE GraphStep(r)
  BY <1>2 DEF GraphStep, RouteSales, LoadContext, ClassifyComplexity, SelectTools, Plan, CallTool,
     ComposeAnswer, RunAgentLoop, FinishRun, GraphRaises, Blocked, NextIteration
<1> QED
  BY <1>1, <1>2 DEF Disconnect, Crash

LEMMA ServiceIsSales == ServiceSpec => Spec
<1>1. ServiceInit => Init
  BY DEF ServiceInit
<1>2. [ServiceNext]_serviceVars => [Next]_vars
  BY DEF ServiceNext, Route, RouteAgent, AskRouterLLM, Sales, FoodCost, ServiceDies, Next, serviceVars
<1> QED
  BY <1>1, <1>2, PTL DEF ServiceSpec, Spec

LEMMA ServiceIsFood == ServiceSpec => FoodP!Spec
<1>1. ServiceInit => Food!Init
  BY DEF ServiceInit
<1>2. [ServiceNext]_serviceVars => [Food!Next]_(Food!vars)
  <2> USE DEF serviceVars, vars, config, foodVars, Food!Next, Food!vars, Food!config, Food!work,
              Food!database
  <2>1. ASSUME NEW r \in Runs, Route(r) PROVE UNCHANGED Food!vars
    BY <2>1 DEF Route, RouteAgent, AskRouterLLM
  <2>2. ASSUME NEW r \in Runs, Sales(r) PROVE UNCHANGED Food!vars
    BY <2>2, SalesKeepsSettings DEF Sales
  <2>3. ASSUME NEW r \in Runs, FoodCost(r) PROVE Food!Next
    BY <2>3 DEF FoodCost
  <2>4. CASE ServiceDies
    BY <2>4, SalesKeepsSettings DEF ServiceDies, Crash
  <2> QED
    BY <2>1, <2>2, <2>3, <2>4 DEF ServiceNext
<1> QED
  BY <1>1, <1>2, SameSpec, PTL DEF ServiceSpec, Food!Spec

-----------------------------------------------------------------------------
(* The theorems.                                                           *)

\* A caller told of an outcome by any endpoint finds it in the database, whatever the
\* router did and whoever else asks (workflows/sales.py, food_cost.py, agent.py).
THEOREM ServiceIsTruthful == ServiceSpec => []TruthfulService
<1>1. FoodP!TruthfulTerminal => Food!TruthfulTerminal
  BY DEF FoodP!TruthfulTerminal, Food!TruthfulTerminal, FoodP!Has, Food!Has
<1>2. FoodP!Spec => []FoodP!TruthfulTerminal
  BY FoodP!TruthfulTerminals
<1> QED
  BY <1>1, <1>2, ServiceIsSales, ServiceIsFood, TruthfulTerminals, PTL DEF TruthfulService

\* A run that stays running after its request has a fault on record: the client left,
\* the process died or the database failed at the run's first or last statement.
THEOREM ServiceIsSettled == ServiceSpec => []SettledService
<1>1. FoodP!NoSilentStall => Food!NoSilentStall
  BY DEF FoodP!NoSilentStall, Food!NoSilentStall, FoodP!EndedPCs, Food!EndedPCs
<1>2. FoodP!Spec => []FoodP!NoSilentStall
  BY FoodP!NoSilentStalls
<1> QED
  BY <1>1, <1>2, ServiceIsSales, ServiceIsFood, NoSilentStalls, PTL DEF SettledService

\* Both workflows keep RunContract beside each other and behind the router; in
\* particular nothing completes a run that was marked failed.
THEOREM ServiceRefines == ServiceSpec => ServiceKeepsContract
<1>1. FoodP!Spec => FoodP!ImplementsContract
  BY FoodP!Refinement
<1> QED
  BY <1>1, ServiceIsSales, ServiceIsFood, SameContract, Refinement, PTL DEF ServiceKeepsContract

\* The four accounts of every food-cost request agree, whatever else the process does.
THEOREM ServiceAccountsAgree == ServiceSpec => []FoodAccountsAgree
<1>1. FoodP!StreamFollowsScript => Food!StreamFollowsScript
  <2>1. \A k : Food!Script(k) = FoodP!Script(k)
    BY DEF Food!Script, FoodP!Script, Food!RequiredTools, FoodP!RequiredTools
  <2> QED
    BY <2>1, SameCount DEF FoodP!StreamFollowsScript, Food!StreamFollowsScript, FoodP!Has, Food!Has
<1>2. FoodP!StepLogTellsStory => Food!StepLogTellsStory
  BY DEF FoodP!StepLogTellsStory, Food!StepLogTellsStory, Food!RequiredTools, FoodP!RequiredTools
<1>3. FoodP!AuditMatchesArtifact => Food!AuditMatchesArtifact
  BY SameCount DEF FoodP!AuditMatchesArtifact, Food!AuditMatchesArtifact
<1>4. FoodP!Spec => [](FoodP!StreamFollowsScript /\ FoodP!StepLogTellsStory /\ FoodP!AuditMatchesArtifact)
  BY FoodP!StreamsFollowScript, FoodP!StepLogsTellStory, FoodP!AuditsMatchArtifact, PTL
<1> QED
  BY <1>1, <1>2, <1>3, <1>4, ServiceIsFood, PTL DEF FoodAccountsAgree

-----------------------------------------------------------------------------
(* The router.                                                             *)

\* A request is with the workflow its endpoint belongs to and with no other, and
\* the router never leaves the two workflows it knows.
Routed ==
  /\ endpoint \in [Runs -> Workflows \cup {"agent"}]
  /\ named \in [Runs -> Workflows \cup {"none"}]
  /\ route \in [Runs -> Workflows \cup {"none", "llm", "dead"}]
  /\ \A r \in Runs :
       /\ endpoint[r] = "food_cost" => pc[r] = "idle" /\ task[r] = "none"
       /\ endpoint[r] # "food_cost" => foodPc[r] = "idle"

\* A step of one food-cost request leaves the place of every other alone.
LEMMA FoodIsLocal ==
  ASSUME FoodP!Typed, NEW r \in Runs, FoodCost(r), NEW x \in Runs \ {r}
  PROVE  foodPc'[x] = foodPc[x]
<1>1. foodPc \in [Runs -> FoodP!PCs]
  BY DEF FoodP!Typed, FoodP!TypeOK
<1>2. CASE Food!RunStep(r)
  BY <1>2, SameRunStep, FoodP!StepIsLocal
<1>3. CASE Food!Disconnect(r)
  BY <1>1, <1>3 DEF Food!Disconnect, Food!Goto
<1> QED
  BY <1>2, <1>3 DEF FoodCost

LEMMA InitRouted == ServiceInit => Routed
  BY DEF ServiceInit, Init, Food!Init, Routed

LEMMA StepRouted ==
  Routed /\ Typed /\ FoodP!Typed /\ [ServiceNext]_serviceVars => Routed'
<1> SUFFICES ASSUME Routed, Typed, FoodP!Typed, [ServiceNext]_serviceVars
             PROVE  Routed'
  OBVIOUS
<1>0. /\ pc \in [Runs -> HandlerPCs] /\ task \in [Runs -> GraphPCs] /\ foodPc \in [Runs -> FoodP!PCs]
  BY DEF Typed, TypeOK, FoodP!Typed, FoodP!TypeOK
<1>1. CASE UNCHANGED serviceVars
  BY <1>1 DEF Routed, serviceVars, vars, handler, graph, asked, foodVars
<1>2. ASSUME NEW r \in Runs, Route(r) PROVE Routed'
  <2>1. UNCHANGED <<pc, task, endpoint, named, foodPc>>
    BY <1>2 DEF Route, RouteAgent, AskRouterLLM, vars, handler, graph, asked, foodVars
  <2>2. PICK w \in Workflows \cup {"llm"} : route' = [route EXCEPT ![r] = w]
    BY <1>2 DEF Route, RouteAgent, AskRouterLLM, Fallbacks, RouterFails, Routed
  <2> QED
    BY <2>1, <2>2 DEF Routed
<1>3. ASSUME NEW r \in Runs, Sales(r) PROVE Routed'
  <2>1. UNCHANGED <<endpoint, named, route, foodPc>> /\ (pc[r] = "idle" => endpoint[r] # "food_cost")
    BY <1>3 DEF Sales, asked, foodVars, Dispatched
  <2>2. CASE HandlerStep(r)
    <3>1. ASSUME NEW x \in Runs, endpoint[x] = "food_cost" PROVE pc'[x] = "idle" /\ task'[x] = "none"
      BY <2>1, <2>2, <3>1, HandlerLocal DEF Routed
    <3> QED
      BY <2>1, <3>1 DEF Routed
  <2>3. CASE GraphStep(r)
    <3>1. PICK t \in GraphPCs : GraphEffect(r, t)
      BY <2>3, GraphStepEffect
    <3>2. pc' = pc /\ task' = [task EXCEPT ![r] = t] /\ task[r] # "none"
      BY <3>1 DEF GraphEffect, IdleGraph
    <3> QED
      BY <1>0, <2>1, <3>2 DEF Routed
  <2>4. CASE Disconnect(r)
    <3>1. pc[r] # "idle" /\ pc' = [pc EXCEPT ![r] = "gone"] /\ UNCHANGED task
      BY <2>4 DEF Disconnect, Goto, graph, EndedPCs
    <3> QED
      BY <1>0, <2>1, <3>1 DEF Routed
  <2> QED
    BY <1>3, <2>2, <2>3, <2>4 DEF Sales
<1>4. ASSUME NEW r \in Runs, FoodCost(r) PROVE Routed'
  <2>1. UNCHANGED <<pc, task, endpoint, named, route>> /\ endpoint[r] = "food_cost"
    BY <1>4 DEF FoodCost, vars, handler, graph, asked
  <2>2. \A x \in Runs \ {r} : foodPc'[x] = foodPc[x]
    BY <1>4, FoodIsLocal
  <2> QED
    BY <2>1, <2>2 DEF Routed
<1>5. CASE ServiceDies
  <2>1. /\ UNCHANGED <<endpoint, named>>
        /\ route' = [r \in Runs |-> IF r \in Routing THEN "dead" ELSE route[r]]
    BY <1>5 DEF ServiceDies, asked
  <2>2. \A x \in Runs : pc[x] = "idle" /\ task[x] = "none" => pc'[x] = "idle" /\ task'[x] = "none"
    BY <1>5 DEF ServiceDies, Crash, vars, handler, graph, EndedPCs, IdleGraph
  <2>3. \A x \in Runs : foodPc[x] = "idle" => foodPc'[x] = "idle"
    BY <1>5 DEF ServiceDies, Food!Crash, foodVars, Food!EndedPCs
  <2> QED
    BY <2>1, <2>2, <2>3 DEF Routed
<1> QED
  BY <1>1, <1>2, <1>3, <1>4, <1>5 DEF ServiceNext

LEMMA RoutedAlways == ServiceSpec => [](Routed /\ Typed /\ Inv /\ FoodP!Typed /\ FoodP!Inv)
<1>1. ServiceSpec => [](Typed /\ Inv)
  BY ServiceIsSales, Invariance, PTL
<1>2. FoodP!Spec => [](FoodP!Typed /\ FoodP!Inv)
  BY FoodP!Invariance
<1> QED
  BY <1>1, <1>2, ServiceIsFood, InitRouted, StepRouted, PTL DEF ServiceSpec

\* The types of the whole service; and no request is ever with both workflows.
THEOREM ServiceTypes == ServiceSpec => []ServiceTypeOK
<1>1. FoodP!TypeOK => Food!TypeOK
  BY DEF FoodP!TypeOK, Food!TypeOK, FoodP!PCs, Food!PCs, FoodP!Messages, Food!Messages,
         FoodP!Outcomes, Food!Outcomes, FoodP!RequiredTools, Food!RequiredTools,
         FoodP!StepNames, Food!StepNames, FoodP!Faults, Food!Faults
<1>2. Routed /\ Typed /\ FoodP!Typed => TypeOK /\ FoodP!TypeOK /\ RoutesTyped
  BY DEF Routed, RoutesTyped, Typed, FoodP!Typed
<1> QED
  BY <1>1, <1>2, RoutedAlways, PTL DEF ServiceTypeOK

\* A question asked of any endpoint that is over has its run in the database, or a
\* fault on record; the router raises at nothing the LLM answers.
THEOREM AskedIsAlwaysRecorded == ServiceSpec => []AskedIsRecorded
<1>1. ASSUME Inv, NEW r \in Runs, pc[r] \in EndedPCs \ {"idle"}
      PROVE  status[r] # "none" \/ lost[r] # {}
  <2>1. Ending(r)
    BY <1>1 DEF Inv, Linked
  <2> QED
    BY <1>1, <2>1 DEF Ending, EndedPCs
<1>2. ASSUME FoodP!Inv, NEW r \in Runs, foodPc[r] \in Food!EndedPCs \ {"idle"}
      PROVE  foodStatus[r] # "none" \/ foodLost[r] # {}
  <2>1. FoodP!Ending(r)
    BY <1>2 DEF FoodP!Inv, FoodP!Linked
  <2> QED
    BY <1>2, <2>1 DEF FoodP!Ending, Food!EndedPCs
<1>3. ASSUME Routed, NEW r \in Runs PROVE route[r] # "raised"
  BY <1>3 DEF Routed, Workflows
<1>4. Routed /\ Inv /\ FoodP!Inv => AskedIsRecorded
  BY <1>1, <1>2, <1>3 DEF AskedIsRecorded, EndedPCs, Food!EndedPCs
<1> QED
  BY <1>4, RoutedAlways, PTL
=============================================================================
