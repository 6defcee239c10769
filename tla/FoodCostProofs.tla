--------------------------- MODULE FoodCostProofs ---------------------------
(***************************************************************************)
(* Theorems about FoodCostRun, for every set of requests and every number  *)
(* of tokens.                                                              *)
(*                                                                         *)
(* The generator does the work itself, so there is one program counter per *)
(* run and Inv says, place by place, what the database and the client have *)
(* by then.  The refinement of RunContract rests on it.                    *)
(***************************************************************************)
EXTENDS FoodCostRun, FiniteSetTheorems, SequenceTheorems, TLAPS

-----------------------------------------------------------------------------
(* Type correctness.                                                       *)

\* The loop over the tools is left after the last one.
WithinScript(r) ==
  /\ pc[r] \in {"idle", "announce", "open", "route"} => calls[r] = <<>>
  /\ pc[r] \in {"prepare", "start_tool", "call"} => Len(calls[r]) < Len(RequiredTools)

Typed == TypeOK /\ \A r \in Runs : WithinScript(r)

Accounts == UNION {[1..n -> Outcomes] : n \in 0..Len(RequiredTools)}

\* TypeOK, with a name for what calls may hold.
Typing ==
  /\ llmEnabled \in BOOLEAN
  /\ mode \in [Runs -> {"run", "stream"}]
  /\ pc \in [Runs -> PCs]
  /\ sent \in [Runs -> Seq(Messages)]
  /\ calls \in [Runs -> Accounts]
  /\ summary \in [Runs -> {"none", "llm", "fallback"}]
  /\ status \in [Runs -> {"none", "running", "completed", "failed"}]
  /\ steps \in [Runs -> Seq(StepNames)]
  /\ audit \in [Runs -> Seq(Outcomes)]
  /\ answered \in [Runs -> BOOLEAN]
  /\ lost \in [Runs -> SUBSET Faults]

LEMMA TypingIsTypeOK == TypeOK <=> Typing
  BY DEF TypeOK, Typing, Accounts

LEMMA ThreeTools == Len(RequiredTools) = 3
  BY DEF RequiredTools

LEMMA EmptyAccount == <<>> \in Accounts /\ Len(<<>>) = 0
<1>1. <<>> \in [1..0 -> Outcomes]
  OBVIOUS
<1>2. 0 \in 0..Len(RequiredTools)
  BY ThreeTools
<1> QED
  BY <1>1, <1>2 DEF Accounts

\* An account of fewer than all tools has room for one more.
LEMMA OneMoreCall ==
  ASSUME NEW s \in Accounts, Len(s) < Len(RequiredTools), NEW outcome \in Outcomes
  PROVE  Append(s, outcome) \in Accounts
<1>1. PICK n \in 0..3 : s \in [1..n -> Outcomes]
  BY ThreeTools DEF Accounts
<1>2. s \in Seq(Outcomes) /\ Len(s) = n /\ n < 3
  BY <1>1, ThreeTools
<1>3. Append(s, outcome) \in Seq(Outcomes) /\ Len(Append(s, outcome)) = n + 1
  BY <1>2
<1>4. Append(s, outcome) \in [1..n + 1 -> Outcomes]
  <2> DEFINE t == Append(s, outcome)
  <2>1. t \in Seq(Outcomes) /\ Len(t) = n + 1
    BY <1>3
  <2> HIDE DEF t
  <2>2. t \in [1..Len(t) -> Outcomes]
    BY <2>1
  <2>3. t \in [1..n + 1 -> Outcomes]
    BY <2>1, <2>2
  <2> QED
    BY <2>3 DEF t
<1>5. n + 1 \in 0..Len(RequiredTools)
  BY <1>2, ThreeTools
<1> QED
  BY <1>4, <1>5 DEF Accounts

LEMMA AccountLength ==
  ASSUME NEW s \in Accounts
  PROVE  Len(s) # Len(RequiredTools) => Len(s) < Len(RequiredTools)
<1>1. PICK n \in 0..3 : s \in [1..n -> Outcomes]
  BY ThreeTools DEF Accounts
<1>2. Len(s) = n
  BY <1>1
<1> QED
  BY <1>2, ThreeTools

LEMMA InitTyped == Init => Typed
<1> SUFFICES ASSUME Init PROVE Typed
  OBVIOUS
<1>1. calls \in [Runs -> Accounts]
  BY EmptyAccount DEF Init
<1> QED
  BY <1>1 DEF Init, Typed, TypeOK, WithinScript, PCs, Accounts

\* Every step of a request keeps the types and the script.
LEMMA StepOfRunTyped ==
  ASSUME Typed, NEW r \in Runs, RunStep(r)
  PROVE  Typed'
<1>0. /\ calls \in [Runs -> Accounts]
      /\ \A x \in Runs : Len(calls[x]) # Len(RequiredTools) => Len(calls[x]) < Len(RequiredTools)
  <2>1. calls \in [Runs -> Accounts]
    BY DEF Typed, TypeOK, Accounts
  <2>2. ASSUME NEW x \in Runs, Len(calls[x]) # Len(RequiredTools)
        PROVE  Len(calls[x]) < Len(RequiredTools)
    BY <2>1, <2>2, AccountLength
  <2> QED
    BY <2>1, <2>2
<1> SUFFICES calls' \in [Runs -> Accounts] => Typed'
  <2> SUFFICES calls' \in [Runs -> Accounts]
    OBVIOUS
  <2>1. CASE UNCHANGED calls
    BY <1>0, <2>1
  <2>2. CASE CallTool(r)
    <3>1. PICK outcome \in Outcomes :
            UNCHANGED calls \/ calls' = [calls EXCEPT ![r] = Append(@, outcome)]
      BY <2>2 DEF CallTool
    <3>2. Len(calls[r]) < Len(RequiredTools)
      BY <2>2 DEF CallTool, Typed, WithinScript
    <3>3. Append(calls[r], outcome) \in Accounts
      BY <1>0, <3>2, OneMoreCall
    <3> QED
      BY <1>0, <3>1, <3>3
  <2> QED
    BY <2>1, <2>2 DEF RunStep, StartRun, AnnounceRun, OpenStep, RouteFoodCost, PrepareCall, StartTool,
       FinishTool, BuildArtifact, OpenLLM, StreamToken, EndLLMStream, RunKaliAgent, FinishRun,
       Conclude, MarkFailed, ReportError, work
<1> SUFFICES ASSUME calls' \in [Runs -> Accounts]
             PROVE  Typed'
  OBVIOUS
<1>00. Typing /\ (Typing' => TypeOK')
  BY TypingIsTypeOK DEF Typed, TypeOK, Typing, Accounts
<1> USE <1>0, <1>00, ThreeTools DEF Typed, Typing, WithinScript, PCs, Messages, StepNames, Outcomes, Faults,
        Goto, Tell, OnError, config, work, database
<1>1. CASE StartRun(r)
  BY <1>1, EmptyAccount DEF StartRun, SetStatus, Lose
<1>2. CASE AnnounceRun(r)
  BY <1>2 DEF AnnounceRun
<1>2a. CASE OpenStep(r)
  BY <1>2a DEF OpenStep
<1>2b. CASE StartTool(r)
  BY <1>2b DEF StartTool
<1>2c. CASE OpenLLM(r)
  BY <1>2c DEF OpenLLM
<1>2d. CASE StreamToken(r)
  BY <1>2d DEF StreamToken
<1>3. CASE RouteFoodCost(r)
  BY <1>3, EmptyAccount DEF RouteFoodCost, RecordStep
<1>4. CASE PrepareCall(r)
  BY <1>4 DEF PrepareCall, RecordStep
<1>5. CASE CallTool(r)
  <2>0. PICK outcome \in Outcomes, next \in {"failing", "finish_tool"} :
          /\ audit' \in {audit, [audit EXCEPT ![r] = Append(@, outcome)]}
          /\ pc' = [pc EXCEPT ![r] = next]
          /\ \A x \in Runs \ {r} : calls'[x] = calls[x]
          /\ UNCHANGED <<config, sent, summary, status, steps, answered, lost>>
    BY <1>5 DEF CallTool
  <2>1. audit' \in [Runs -> Seq(Outcomes)]
    <3>1. audit \in [Runs -> Seq(Outcomes)] /\ Append(audit[r], outcome) \in Seq(Outcomes)
      OBVIOUS
    <3> QED
      BY <2>0, <3>1
  <2>3. Typing'
    BY <2>0, <2>1
  <2>2. ASSUME NEW x \in Runs PROVE WithinScript(x)'
    <3>1. CASE x = r
      BY <2>0, <3>1
    <3>2. CASE x # r
      BY <2>0, <3>2
    <3> QED
      BY <3>1, <3>2
  <2> QED
    BY <2>3, <2>2
<1>6. CASE FinishTool(r)
  <2>1. PICK next \in {"build", "prepare"} :
          /\ Tell(r, "tool_finished", next) /\ UNCHANGED <<config, work, database, lost>>
          /\ next = "prepare" => Len(calls[r]) # Len(RequiredTools)
    BY <1>6 DEF FinishTool, AfterTool
  <2>2. Typing'
    BY <2>1
  <2>3. \A x \in Runs : WithinScript(x)'
    <3>1. pc' = [pc EXCEPT ![r] = next] /\ UNCHANGED calls
      BY <2>1
    <3>2. next = "prepare" => Len(calls[r]) < Len(RequiredTools)
      BY <2>1, <1>0
    <3> QED
      BY <3>1, <3>2
  <2> QED
    BY <2>2, <2>3
<1>7. CASE BuildArtifact(r)
  <2>1. Typing'
    BY <1>7 DEF BuildArtifact
  <2>2. \A x \in Runs : WithinScript(x)'
    BY <1>7 DEF BuildArtifact
  <2> QED
    BY <2>1, <2>2
<1>8. CASE EndLLMStream(r)
  BY <1>8 DEF EndLLMStream, RecordStep
<1>9. CASE RunKaliAgent(r)
  <2>1. /\ \E next \in {"failing", "finish"} : pc' = [pc EXCEPT ![r] = next]
        /\ \/ UNCHANGED summary
           \/ \E text \in {"llm", "fallback"} : summary' = [summary EXCEPT ![r] = text]
        /\ UNCHANGED <<config, sent, calls, database, lost>>
    BY <1>9 DEF RunKaliAgent
  <2>2. pc' \in [Runs -> PCs]
    BY <2>1
  <2>3. summary' \in [Runs -> {"none", "llm", "fallback"}]
    BY <2>1
  <2>4. \A x \in Runs : WithinScript(x)'
    BY <2>1
  <2> QED
    BY <2>1, <2>2, <2>3, <2>4
<1>10. CASE FinishRun(r)
  BY <1>10 DEF FinishRun, SetStatus
<1>11. CASE Conclude(r)
  <2>1. PICK m \in Messages : Tell(r, m, "done") /\ UNCHANGED <<config, work, database, lost>>
    BY <1>11 DEF Conclude
  <2> QED
    BY <2>1
<1>11a. CASE ReportError(r)
  BY <1>11a DEF ReportError
<1>12. CASE MarkFailed(r)
  BY <1>12 DEF MarkFailed, SetStatus, Lose
<1> QED
  BY <1>1, <1>2, <1>2a, <1>2b, <1>2c, <1>2d, <1>3, <1>4, <1>5, <1>6, <1>7, <1>8, <1>9, <1>10, <1>11, <1>11a, <1>12 DEF RunStep

\* Faults keep the types.
LEMMA FaultTyped ==
  ASSUME Typed, Crash \/ \E r \in Runs : Disconnect(r)
  PROVE  Typed'
<1> USE TypingIsTypeOK DEF Typed, Typing, WithinScript, PCs, Faults, EndedPCs, Goto, config, work, database
<1>1. CASE Crash
  <2>1. Typing'
    BY <1>1 DEF Crash
  <2>2. \A x \in Runs : WithinScript(x)'
    BY <1>1 DEF Crash
  <2> QED
    BY <2>1, <2>2 DEF TypeOK, Accounts
<1>2. ASSUME NEW r \in Runs, Disconnect(r) PROVE Typed'
  <2>1. Typing'
    BY <1>2 DEF Disconnect
  <2>2. \A x \in Runs : WithinScript(x)'
    BY <1>2 DEF Disconnect
  <2> QED
    BY <2>1, <2>2 DEF TypeOK, Accounts
<1> QED
  BY <1>1, <1>2

LEMMA StepTyped == Typed /\ [Next]_vars => Typed'
<1>1. Typed /\ UNCHANGED vars => Typed'
  BY DEF Typed, WithinScript, TypeOK, vars, config, work, database
<1> QED
  BY <1>1, StepOfRunTyped, FaultTyped DEF Next

\* Each variable keeps to its set of values; in particular the artifact never accounts
\* for more tools than the script has.
THEOREM TypeCorrect == Spec => []TypeOK
<1>1. Typed => TypeOK
  BY DEF Typed
<1> QED
  BY <1>1, InitTyped, StepTyped, PTL DEF Spec

-----------------------------------------------------------------------------
(* The inductive invariant.                                                *)

AtWork == {"announce", "open", "route", "prepare", "start_tool", "call", "finish_tool",
           "build", "open_llm", "llm", "kali", "finish"}

\* What the database has of a run, place by place.  At `failing` a COMMIT that was not
\* acknowledged may have completed it.
Stored(r) ==
  /\ pc[r] = "idle" => status[r] = "none"
  /\ pc[r] \in AtWork => status[r] = "running"
  /\ pc[r] = "finalize" => status[r] = "completed" /\ answered[r]
  /\ pc[r] = "failing" => status[r] \in {"running", "completed"}
  /\ pc[r] = "report" => status[r] = "failed"

\* A closing message is the last thing a coroutine does.
Closing(r) ==
  /\ Has(r, "final") \/ Has(r, "response") =>
       pc[r] = "done" /\ status[r] = "completed" /\ answered[r]
  /\ Has(r, "error") => pc[r] = "done" /\ status[r] = "failed"

\* A JSON request has heard nothing before its response; a stream opens first.
Told(r) ==
  /\ pc[r] \in {"idle", "announce", "kali"} => sent[r] = <<>>
  /\ mode[r] = "run" =>
       /\ pc[r] \notin {"announce", "open", "route", "prepare", "start_tool", "call",
                         "finish_tool", "build", "open_llm", "llm", "report"}
       /\ pc[r] \in {"finish", "finalize", "failing"} => sent[r] = <<>>
  /\ mode[r] = "stream" =>
       /\ pc[r] # "kali"
       /\ pc[r] \in (AtWork \ {"announce"}) \cup {"finalize", "failing", "report"} => sent[r] # <<>>

\* How each coroutine can have ended.
Ending(r) ==
  /\ pc[r] = "done" => status[r] \in {"completed", "failed"}
  /\ pc[r] = "broken" => status[r] = "failed" \/ "database" \in lost[r]
  /\ pc[r] = "gone" => "disconnect" \in lost[r]
  /\ pc[r] = "dead" => "crash" \in lost[r]

Linked(r) == Stored(r) /\ Closing(r) /\ Told(r) /\ Ending(r)

Inv == \A r \in Runs : Linked(r)

LEMMA InitInv == Init => Inv
  BY DEF Init, Inv, Linked, Stored, Closing, Told, Ending, Has, AtWork

\* A message is heard exactly when it is the one just sent or was heard before.
LEMMA HasTell ==
  ASSUME Typed, NEW r \in Runs, NEW message \in Messages,
         sent' = [sent EXCEPT ![r] = Append(@, message)]
  PROVE  /\ \A k \in Messages : Has(r, k)' <=> Has(r, k) \/ k = message
         /\ sent'[r] # <<>>
<1>1. sent \in [Runs -> Seq(Messages)] /\ sent[r] \in Seq(Messages)
  BY DEF Typed, TypeOK
<1>2. sent'[r] = Append(sent[r], message)
  BY <1>1
<1>3. /\ Len(sent'[r]) = Len(sent[r]) + 1 /\ Len(sent[r]) \in Nat
      /\ sent'[r][Len(sent[r]) + 1] = message
      /\ \A i \in 1..Len(sent[r]) : sent'[r][i] = sent[r][i]
  BY <1>1, <1>2
<1>4. sent'[r] # <<>>
  BY <1>1, <1>2
<1>5. \A k \in Messages : Has(r, k)' <=> Has(r, k) \/ k = message
  BY <1>3 DEF Has
<1> QED
  BY <1>4, <1>5

\* A step of r's request leaves every other run alone.
LEMMA StepIsLocal ==
  ASSUME Typed, NEW r \in Runs, RunStep(r), NEW x \in Runs \ {r}
  PROVE  /\ mode'[x] = mode[x] /\ pc'[x] = pc[x] /\ sent'[x] = sent[x]
         /\ status'[x] = status[x] /\ answered'[x] = answered[x] /\ lost'[x] = lost[x]
<1> USE DEF Typed, TypeOK, Goto, Tell, config, work, database
<1>1. CASE StartRun(r)
  BY <1>1 DEF StartRun, SetStatus, Lose
<1>2. CASE AnnounceRun(r) \/ OpenStep(r) \/ StartTool(r) \/ FinishTool(r) \/ OpenLLM(r) \/ StreamToken(r)
  BY <1>2 DEF AnnounceRun, OpenStep, StartTool, FinishTool, OpenLLM, StreamToken
<1>3. CASE RouteFoodCost(r) \/ PrepareCall(r) \/ EndLLMStream(r)
  BY <1>3 DEF RouteFoodCost, PrepareCall, EndLLMStream, RecordStep
<1>4. CASE CallTool(r)
  BY <1>4 DEF CallTool
<1>5. CASE BuildArtifact(r) \/ RunKaliAgent(r)
  BY <1>5 DEF BuildArtifact, RunKaliAgent
<1>6. CASE FinishRun(r)
  BY <1>6 DEF FinishRun, SetStatus
<1>7. CASE Conclude(r) \/ ReportError(r)
  BY <1>7 DEF Conclude, ReportError
<1>8. CASE MarkFailed(r)
  BY <1>8 DEF MarkFailed, SetStatus, Lose
<1> QED
  BY <1>1, <1>2, <1>3, <1>4, <1>5, <1>6, <1>7, <1>8 DEF RunStep

\* A step of r's request keeps the invariant of r: one case for each kind of step.
LEMMA StepOfRunInv ==
  ASSUME Typed, Typed', Inv, NEW r \in Runs, RunStep(r)
  PROVE  Linked(r)'
<1>0. /\ mode \in [Runs -> {"run", "stream"}]
      /\ pc \in [Runs -> PCs] /\ sent \in [Runs -> Seq(Messages)]
      /\ status \in [Runs -> {"none", "running", "completed", "failed"}]
      /\ answered \in [Runs -> BOOLEAN]
      /\ lost \in [Runs -> SUBSET Faults]
  BY DEF Typed, TypeOK
<1>1. Linked(r)
  BY DEF Inv
\* Nothing is sent and nothing committed that Inv speaks of.
<1>2. ASSUME UNCHANGED <<mode, sent, status, answered, lost>>,
             pc[r] \in AtWork \ {"announce"},
             NEW next \in PCs, pc' = [pc EXCEPT ![r] = next],
             \/ next = "failing"
             \/ next \in AtWork \ {"announce", "kali"} /\ pc[r] # "kali" /\ (next = "finish" \/ mode[r] = "stream")
             \/ pc[r] = "kali" /\ next = "finish"
      PROVE  Linked(r)'
  BY <1>0, <1>1, <1>2 DEF Linked, Stored, Closing, Told, Ending, Has, AtWork
\* An event of the stream's progress is sent.
<1>3. ASSUME UNCHANGED <<mode, status, answered, lost>>,
             NEW message \in Messages \ {"final", "error", "response"},
             sent' = [sent EXCEPT ![r] = Append(@, message)],
             pc[r] \in AtWork \ {"kali", "finish"},
             NEW next \in AtWork \ {"announce", "kali", "finish"}, pc' = [pc EXCEPT ![r] = next]
      PROVE  Linked(r)'
  <2>1. /\ sent'[r] # <<>>
        /\ \A k \in {"final", "error", "response"} : Has(r, k)' <=> Has(r, k)
    BY <1>3, HasTell DEF Messages
  <2>2. mode[r] = "stream"
    BY <1>0, <1>1, <1>3 DEF Linked, Told, AtWork
  <2> QED
    BY <1>0, <1>1, <1>3, <2>1, <2>2 DEF Linked, Stored, Closing, Told, Ending, AtWork
<1> USE DEF Goto, Tell, OnError, PCs, config, work, database
<1>4. CASE StartRun(r)
  BY <1>0, <1>1, <1>4 DEF StartRun, SetStatus, Lose, Raises, Applied, Linked, Stored, Closing, Told, Ending, Has, AtWork
<1>5. CASE AnnounceRun(r)
  BY <1>3, <1>5 DEF AnnounceRun, Messages, AtWork
<1>6. CASE OpenStep(r)
  BY <1>3, <1>6 DEF OpenStep, Messages, AtWork
<1>7. CASE StartTool(r)
  BY <1>3, <1>7 DEF StartTool, Messages, AtWork
<1>8. CASE FinishTool(r)
  BY <1>3, <1>8 DEF FinishTool, AfterTool, Messages, AtWork
<1>9. CASE OpenLLM(r)
  BY <1>3, <1>9 DEF OpenLLM, Messages, AtWork
<1>10. CASE StreamToken(r)
  BY <1>3, <1>10 DEF StreamToken, Messages, AtWork
<1>11. pc[r] \in {"route", "prepare", "call", "build", "llm"} => mode[r] = "stream"
  BY <1>0, <1>1 DEF Linked, Told
<1>12. CASE RouteFoodCost(r)
  <2>1. UNCHANGED <<status, answered>> /\ \E next \in {"failing", "prepare"} : pc' = [pc EXCEPT ![r] = next]
    BY <1>12 DEF RouteFoodCost, RecordStep
  <2> QED
    BY <1>2, <1>11, <1>12, <2>1 DEF RouteFoodCost, AtWork
<1>13. CASE PrepareCall(r)
  <2>1. UNCHANGED <<status, answered>> /\ \E next \in {"failing", "start_tool"} : pc' = [pc EXCEPT ![r] = next]
    BY <1>13 DEF PrepareCall, RecordStep
  <2> QED
    BY <1>2, <1>11, <1>13, <2>1 DEF PrepareCall, AtWork
<1>14. CASE CallTool(r)
  <2>1. \E next \in {"failing", "finish_tool"} : pc' = [pc EXCEPT ![r] = next]
    BY <1>14 DEF CallTool
  <2> QED
    BY <1>2, <1>11, <1>14, <2>1 DEF CallTool, AtWork
<1>15. CASE BuildArtifact(r)
  <2>1. \E next \in {"failing", "open_llm", "finish"} : pc' = [pc EXCEPT ![r] = next]
    BY <1>15 DEF BuildArtifact
  <2> QED
    BY <1>2, <1>11, <1>15, <2>1 DEF BuildArtifact, AtWork
<1>16. CASE EndLLMStream(r)
  <2>1. UNCHANGED <<status, answered>> /\ \E next \in {"failing", "finish"} : pc' = [pc EXCEPT ![r] = next]
    BY <1>16 DEF EndLLMStream, RecordStep
  <2> QED
    BY <1>2, <1>11, <1>16, <2>1 DEF EndLLMStream, AtWork
<1>17. CASE RunKaliAgent(r)
  <2>1. \E next \in {"failing", "finish"} : pc' = [pc EXCEPT ![r] = next]
    BY <1>17 DEF RunKaliAgent
  <2> QED
    BY <1>2, <1>17, <2>1 DEF RunKaliAgent, AtWork
<1>18. CASE FinishRun(r)
  BY <1>0, <1>1, <1>18 DEF FinishRun, SetStatus, Raises, Applied, Linked, Stored, Closing, Told, Ending, Has, AtWork
<1>19. CASE Conclude(r)
  <2>1. PICK message \in {"final", "response"} : sent' = [sent EXCEPT ![r] = Append(@, message)]
    BY <1>19 DEF Conclude
  <2>2. Has(r, "error")' <=> Has(r, "error")
    BY <2>1, HasTell DEF Messages
  <2> QED
    BY <1>0, <1>1, <1>19, <2>2 DEF Conclude, Linked, Stored, Closing, Told, Ending, AtWork
<1>20. CASE MarkFailed(r)
  BY <1>0, <1>1, <1>20 DEF MarkFailed, SetStatus, Lose, Raises, Applied, Linked, Stored, Closing, Told, Ending, Has, AtWork
<1>21. CASE ReportError(r)
  <2>1. sent' = [sent EXCEPT ![r] = Append(@, "error")]
    BY <1>21 DEF ReportError
  <2>2. \A k \in {"final", "response"} : Has(r, k)' <=> Has(r, k)
    BY <2>1, HasTell DEF Messages
  <2> QED
    BY <1>0, <1>1, <1>21, <2>2 DEF ReportError, Linked, Stored, Closing, Told, Ending, AtWork
<1> QED
  BY <1>4, <1>5, <1>6, <1>7, <1>8, <1>9, <1>10, <1>12, <1>13, <1>14, <1>15, <1>16, <1>17,
     <1>18, <1>19, <1>20, <1>21 DEF RunStep

LEMMA FaultInv ==
  ASSUME Typed, Inv, Crash \/ \E r \in Runs : Disconnect(r)
  PROVE  Inv'
<1>0. mode \in [Runs -> {"run", "stream"}] /\ pc \in [Runs -> PCs] /\ lost \in [Runs -> SUBSET Faults]
  BY DEF Typed, TypeOK
<1> SUFFICES ASSUME NEW x \in Runs PROVE Linked(x)'
  BY DEF Inv
<1>1. Linked(x)
  BY DEF Inv
<1> USE DEF Linked, Stored, Closing, Told, Ending, Has, AtWork, EndedPCs, Goto, config, work, database
<1>2. CASE Crash
  BY <1>0, <1>1, <1>2 DEF Crash
<1>3. ASSUME NEW r \in Runs, Disconnect(r) PROVE Linked(x)'
  BY <1>0, <1>1, <1>3 DEF Disconnect
<1> QED
  BY <1>2, <1>3

LEMMA StepInv == Typed /\ Typed' /\ Inv /\ [Next]_vars => Inv'
<1> SUFFICES ASSUME Typed, Typed', Inv, [Next]_vars PROVE Inv'
  OBVIOUS
<1> USE DEF Linked, Stored, Closing, Told, Ending, Has, AtWork
<1>1. CASE UNCHANGED vars
  BY <1>1 DEF Inv, vars, config, work, database
<1>2. ASSUME NEW r \in Runs, RunStep(r), NEW x \in Runs PROVE Linked(x)'
  <2>1. CASE x = r
    BY <1>2, <2>1, StepOfRunInv
  <2>2. CASE x # r
    BY <1>2, <2>2, StepIsLocal DEF Inv
  <2> QED
    BY <2>1, <2>2
<1> QED
  BY <1>1, <1>2, FaultInv DEF Next, Inv

LEMMA Invariance == Spec => [](Typed /\ Inv)
<1>1. Init => Typed /\ Inv
  BY InitTyped, InitInv
<1>2. Typed /\ Inv /\ [Next]_vars => (Typed /\ Inv)'
  BY StepTyped, StepInv
<1> QED
  BY <1>1, <1>2, PTL DEF Spec

-----------------------------------------------------------------------------
(* The theorems.                                                           *)

\* Whoever is told "final" or got a response has a completed run with its answer
\* committed; whoever is told "error" has a failed one.
THEOREM TruthfulTerminals == Spec => []TruthfulTerminal
<1>1. Inv => TruthfulTerminal
  BY DEF Inv, Linked, Closing, TruthfulTerminal
<1> QED
  BY <1>1, Invariance, PTL

\* A run left running when its request is over has a fault on record.
THEOREM NoSilentStalls == Spec => []NoSilentStall
<1>1. Typed /\ Inv => NoSilentStall
  BY DEF Inv, Linked, Stored, Ending, NoSilentStall, EndedPCs
<1> QED
  BY <1>1, Invariance, PTL

-----------------------------------------------------------------------------
(* The accounts of a request: its stream, its step log, its audit trail.   *)

\* The messages before the tokens: two to open, two for each tool, one for the LLM.
Spoken == IF llmEnabled THEN 9 ELSE 8

\* What stands at place i of every script with n messages before its tokens.
ScriptAt(i, n) ==
  IF i = 1 THEN "run_started"
  ELSE IF i = 2 THEN "step_started"
  ELSE IF i <= 8 THEN IF i % 2 = 1 THEN "tool_started" ELSE "tool_finished"
  ELSE IF i = 9 /\ n = 9 THEN "llm_started"
  ELSE "token"

LEMMA SpokenIs == Spoken \in {8, 9}
  BY DEF Spoken

\* Where the messages of a concatenation come from.
LEMMA Joined ==
  ASSUME NEW T, NEW s \in Seq(T), NEW t \in Seq(T)
  PROVE  /\ s \o t \in Seq(T) /\ Len(s \o t) = Len(s) + Len(t)
         /\ \A i \in 1..Len(s) : (s \o t)[i] = s[i]
         /\ \A i \in Len(s) + 1..Len(s) + Len(t) : (s \o t)[i] = t[i - Len(s)]
  OBVIOUS

\* A script is these messages, and as many as it takes for k tokens.
LEMMA ScriptIs ==
  ASSUME NEW k \in Nat
  PROVE  /\ Script(k) \in Seq(Messages) /\ Len(Script(k)) = Spoken + k
         /\ \A i \in 1..Spoken + k : Script(k)[i] = ScriptAt(i, Spoken)
<1> DEFINE a == <<"run_started", "step_started">>
           b == [i \in 1..6 |-> IF i % 2 = 1 THEN "tool_started" ELSE "tool_finished"]
           c == IF llmEnabled THEN <<"llm_started">> ELSE <<>>
           d == [i \in 1..k |-> "token"]
           ab == a \o b
           abc == ab \o c
           abcd == abc \o d
<1>1. Script(k) = abcd
  BY ThreeTools DEF Script
<1>2. a \in Seq(Messages) /\ Len(a) = 2 /\ a[1] = "run_started" /\ a[2] = "step_started"
  BY DEF Messages
<1>3. /\ b \in Seq(Messages) /\ Len(b) = 6
      /\ \A i \in 1..6 : b[i] = IF i % 2 = 1 THEN "tool_started" ELSE "tool_finished"
  BY DEF Messages
<1>4. d \in Seq(Messages) /\ Len(d) = k /\ \A i \in 1..k : d[i] = "token"
  BY DEF Messages
<1>5. c \in Seq(Messages) /\ Len(c) = Spoken - 8 /\ (Spoken = 9 => c[1] = "llm_started")
  <2>1. <<>> \in Seq(Messages) /\ Len(<<>>) = 0
    OBVIOUS
  <2>2. <<"llm_started">> \in Seq(Messages) /\ Len(<<"llm_started">>) = 1
    BY DEF Messages
  <2>3. CASE llmEnabled
    BY <2>2, <2>3 DEF Spoken
  <2>4. CASE ~ llmEnabled
    BY <2>1, <2>4 DEF Spoken
  <2> QED
    BY <2>3, <2>4
<1> HIDE DEF a, b, c, d
<1>6. /\ ab \in Seq(Messages) /\ Len(ab) = 8
      /\ \A i \in 1..2 : ab[i] = a[i]
      /\ \A i \in 3..8 : ab[i] = b[i - 2]
  <2>1. /\ ab \in Seq(Messages) /\ Len(ab) = Len(a) + Len(b)
        /\ \A i \in 1..Len(a) : ab[i] = a[i]
        /\ \A i \in Len(a) + 1..Len(a) + Len(b) : ab[i] = b[i - Len(a)]
    BY <1>2, <1>3, Joined
  <2> HIDE DEF ab
  <2> QED
    BY <2>1, <1>2, <1>3
<1> HIDE DEF ab
<1>7. /\ abc \in Seq(Messages) /\ Len(abc) = Spoken
      /\ \A i \in 1..8 : abc[i] = ab[i]
      /\ Spoken = 9 => abc[9] = c[1]
  <2>1. /\ abc \in Seq(Messages) /\ Len(abc) = Len(ab) + Len(c)
        /\ \A i \in 1..Len(ab) : abc[i] = ab[i]
        /\ \A i \in Len(ab) + 1..Len(ab) + Len(c) : abc[i] = c[i - Len(ab)]
    BY <1>5, <1>6, Joined
  <2> HIDE DEF abc
  <2>2. Spoken = 9 => 9 - 8 = 1
    OBVIOUS
  <2> QED
    BY <2>1, <2>2, <1>5, <1>6, SpokenIs
<1> HIDE DEF abc
<1>8. /\ abcd \in Seq(Messages) /\ Len(abcd) = Spoken + k
      /\ \A i \in 1..Spoken : abcd[i] = abc[i]
      /\ \A i \in Spoken + 1..Spoken + k : abcd[i] = d[i - Spoken]
  <2>1. /\ abcd \in Seq(Messages) /\ Len(abcd) = Len(abc) + Len(d)
        /\ \A i \in 1..Len(abc) : abcd[i] = abc[i]
        /\ \A i \in Len(abc) + 1..Len(abc) + Len(d) : abcd[i] = d[i - Len(abc)]
    BY <1>4, <1>7, Joined
  <2> HIDE DEF abcd
  <2> QED
    BY <2>1, <1>4, <1>7, SpokenIs
<1> HIDE DEF abcd
<1>9. ASSUME NEW i \in 1..Spoken + k
      PROVE  abcd[i] = ScriptAt(i, Spoken)
  <2>1. CASE i \in 1..2
    <3>1. abcd[i] = a[i]
      BY <2>1, <1>6, <1>7, <1>8, SpokenIs
    <3> QED
      BY <2>1, <3>1, <1>2 DEF ScriptAt
  <2>2. CASE i \in 3..8
    <3>1. i - 2 \in 1..6 /\ ((i - 2) % 2 = 1 <=> i % 2 = 1)
      BY <2>2
    <3>2. abcd[i] = b[i - 2]
      BY <2>2, <1>6, <1>7, <1>8, SpokenIs
    <3>3. b[i - 2] = IF i % 2 = 1 THEN "tool_started" ELSE "tool_finished"
      BY <3>1, <1>3
    <3> QED
      BY <2>2, <3>2, <3>3 DEF ScriptAt
  <2>3. CASE i = 9 /\ Spoken = 9
    BY <2>3, <1>5, <1>7, <1>8 DEF ScriptAt
  <2>4. CASE i > Spoken
    <3>1. abcd[i] = "token"
      BY <2>4, <1>4, <1>8, SpokenIs
    <3>2. i > 8 /\ ~ (i = 9 /\ Spoken = 9)
      BY <2>4, SpokenIs
    <3> QED
      BY <3>1, <3>2 DEF ScriptAt
  <2> QED
    BY <2>1, <2>2, <2>3, <2>4, SpokenIs
<1> QED
  BY <1>1, <1>8, <1>9

\* One more message is counted if it is the one asked for.
LEMMA CountAppend ==
  ASSUME NEW S, NEW s \in Seq(S), NEW y \in S, NEW x
  PROVE  /\ Count(s, x) \in Nat
         /\ Count(Append(s, y), x) = IF y = x THEN Count(s, x) + 1 ELSE Count(s, x)
<1> DEFINE n == Len(s)
           t == Append(s, y)
           P == {i \in 1..n : s[i] = x}
           Q == {i \in 1..Len(t) : t[i] = x}
<1>1. n \in Nat /\ Len(t) = n + 1 /\ t[n + 1] = y /\ \A i \in 1..n : t[i] = s[i]
  OBVIOUS
<1>2. IsFiniteSet(P) /\ Cardinality(P) \in Nat
  <2>1. IsFiniteSet(1..n) /\ P \in SUBSET (1..n)
    BY <1>1, FS_Interval
  <2> QED
    BY <2>1, FS_Subset, FS_CardinalityType
<1>3. Count(s, x) = Cardinality(P) /\ Count(t, x) = Cardinality(Q)
  BY DEF Count
<1> HIDE DEF t, n
<1>4. CASE y = x
  <2>1. Q = P \cup {n + 1} /\ n + 1 \notin P
    BY <1>1, <1>4
  <2>2. Cardinality(P \cup {n + 1}) = Cardinality(P) + 1
    BY <2>1, <1>2, FS_AddElement
  <2> QED
    BY <2>1, <2>2, <1>2, <1>3, <1>4 DEF t
<1>5. CASE y # x
  <2>1. Q = P
    BY <1>1, <1>5
  <2> QED
    BY <2>1, <1>2, <1>3, <1>5 DEF t
<1> QED
  BY <1>4, <1>5

\* What has been said of the script, if it has not been closed.
OnScript(s, n) ==
  /\ \A i \in 1..Len(s) : s[i] = ScriptAt(i, n)
  /\ Len(s) <= 8 \/ n = 9

\* The tokens among it.
LEMMA TokensSaid ==
  ASSUME NEW s \in Seq(Messages), NEW spoken \in {8, 9}, OnScript(s, spoken)
  PROVE  Count(s, "token") = IF Len(s) <= 9 THEN 0 ELSE Len(s) - 9
<1>1. Len(s) \in Nat /\ \A i \in 1..Len(s) : s[i] = "token" <=> i > 9
  BY DEF OnScript, ScriptAt
<1>2. {i \in 1..Len(s) : s[i] = "token"} = 10..Len(s)
  BY <1>1
<1> DEFINE n == Len(s)
<1> HIDE DEF n
<1>3. n \in Nat /\ Cardinality(10..n) = IF 10 > n THEN 0 ELSE n - 10 + 1
  <2>1. n \in Nat
    BY <1>1 DEF n
  <2>2. n \in Int /\ 10 \in Int
    BY <2>1
  <2>3. Cardinality(10..n) = IF 10 > n THEN 0 ELSE n - 10 + 1
    BY <2>2, FS_Interval
  <2> QED
    BY <2>1, <2>3
<1>4. Count(s, "token") = Cardinality(10..n)
  BY <1>2 DEF Count, n
<1>5. Count(s, "token") = IF n <= 9 THEN 0 ELSE n - 9
  BY <1>3, <1>4
<1> QED
  BY <1>5 DEF n

\* It goes on with what stands next.
LEMMA NextOnScript ==
  ASSUME NEW s \in Seq(Messages), NEW spoken \in {8, 9}, OnScript(s, spoken),
         NEW m \in Messages, m = ScriptAt(Len(s) + 1, spoken), Len(s) < 8 \/ spoken = 9
  PROVE  OnScript(Append(s, m), spoken)
<1> DEFINE t == Append(s, m)
<1>1. Len(s) \in Nat /\ Len(t) = Len(s) + 1 /\ t[Len(s) + 1] = m /\ \A i \in 1..Len(s) : t[i] = s[i]
  OBVIOUS
<1> HIDE DEF t
<1>2. OnScript(t, spoken)
  BY <1>1 DEF OnScript
<1> QED
  BY <1>2 DEF t

\* A script that is over is the one with as many tokens as were said.
LEMMA WholeScript ==
  ASSUME NEW s \in Seq(Messages), OnScript(s, Spoken),
         IF llmEnabled THEN Len(s) >= 9 ELSE Len(s) = 8
  PROVE  s = Script(Count(s, "token"))
<1> DEFINE k == Count(s, "token")
           t == Script(k)
<1>1. Len(s) \in Nat /\ k = (IF Len(s) <= 9 THEN 0 ELSE Len(s) - 9)
  BY TokensSaid, SpokenIs
<1> HIDE DEF k
<1>2. k \in Nat /\ Len(s) = Spoken + k
  <2>1. CASE llmEnabled
    <3>1. Len(s) >= 9 /\ Spoken = 9
      BY <2>1 DEF Spoken
    <3>2. CASE Len(s) = 9
      BY <1>1, <3>1, <3>2
    <3>3. CASE Len(s) > 9
      <4>1. k = Len(s) - 9
        BY <1>1, <3>3
      <4> QED
        BY <1>1, <3>1, <3>3, <4>1
    <3>4. ASSUME NEW n \in Nat, n >= 9 PROVE n = 9 \/ n > 9
      BY <3>4
    <3>5. Len(s) = 9 \/ Len(s) > 9
      BY <1>1, <3>1, <3>4
    <3> QED
      BY <3>2, <3>3, <3>5
  <2>2. CASE ~ llmEnabled
    <3>1. Len(s) = 8 /\ Spoken = 8
      BY <2>2 DEF Spoken
    <3>2. k = 0
      BY <1>1, <3>1
    <3> QED
      BY <3>1, <3>2
  <2> QED
    BY <2>1, <2>2
<1>3. t \in Seq(Messages) /\ Len(t) = Spoken + k /\ \A i \in 1..Spoken + k : t[i] = ScriptAt(i, Spoken)
  BY <1>2, ScriptIs
<1> HIDE DEF t
<1>4. s = t
  BY <1>2, <1>3, SeqEqual DEF OnScript
<1> QED
  BY <1>4 DEF t, k

\* One that stopped is the beginning of that script.
LEMMA BeginningOfScript ==
  ASSUME NEW s \in Seq(Messages), OnScript(s, Spoken)
  PROVE  LET t == Script(Count(s, "token")) IN Len(s) <= Len(t) /\ s = SubSeq(t, 1, Len(s))
<1> DEFINE k == Count(s, "token")
           t == Script(k)
<1>1. Len(s) \in Nat /\ k = (IF Len(s) <= 9 THEN 0 ELSE Len(s) - 9)
  BY TokensSaid, SpokenIs
<1> HIDE DEF k
<1>2. k \in Nat /\ Len(s) <= Spoken + k
  BY <1>1, SpokenIs DEF OnScript
<1>3. t \in Seq(Messages) /\ Len(t) = Spoken + k /\ \A i \in 1..Spoken + k : t[i] = ScriptAt(i, Spoken)
  BY <1>2, ScriptIs
<1> HIDE DEF t
<1> DEFINE u == SubSeq(t, 1, Len(s))
<1>4. u \in Seq(Messages) /\ Len(u) = Len(s) /\ \A i \in 1..Len(s) : u[i] = t[i]
  BY <1>1, <1>2, <1>3, SpokenIs
<1> HIDE DEF u
<1>5. s = u
  BY <1>1, <1>2, <1>3, <1>4, SpokenIs, SeqEqual DEF OnScript
<1> QED
  BY <1>2, <1>3, <1>5 DEF u, t, k

\* A stream at place p that has said s and called c tools; n is Spoken.
FollowsAt(p, s, c, n) ==
  /\ p \notin {"done", "broken", "gone", "dead"} => OnScript(s, n)
  /\ p \in {"idle", "announce"} => Len(s) = 0
  /\ p = "open" => Len(s) = 1
  /\ p = "route" => Len(s) = 2 /\ c = 0
  /\ p \in {"prepare", "start_tool"} => Len(s) = 2 + 2 * c
  /\ p = "call" => Len(s) = 3 + 2 * c
  /\ p = "finish_tool" => Len(s) = 1 + 2 * c /\ c >= 1
  /\ p \in {"build", "open_llm"} => Len(s) = 8 /\ c = 3
  /\ p = "open_llm" => n = 9
  /\ p = "llm" => Len(s) >= 9 /\ n = 9
  /\ p \in {"finish", "finalize"} => IF n = 9 THEN Len(s) >= 9 ELSE Len(s) = 8

Follows(r) == FollowsAt(pc[r], sent[r], Len(calls[r]), Spoken)

\* StreamFollowsScript, of one stream.
ClosedOnScript(r) ==
  LET said == Len(sent[r]) - 1
      k    == Count(sent[r], "token")
  IN
  /\ Has(r, "final") => sent[r] = Script(k) \o <<"final">>
  /\ Has(r, "error") => said <= Len(Script(k)) /\ sent[r] = SubSeq(Script(k), 1, said) \o <<"error">>

\* The step log, place by place.
ToolSteps(n) == <<"router">> \o [i \in 1..n |-> "tool"]

\* The log of a stream with its summary, or its fallback, on record.
Summarised(log, text, llm) ==
  IF llm
  THEN \E name \in {"llm_summary", "llm_fallback"} :
         log = ToolSteps(3) \o <<name>> /\ (text = "llm" => name = "llm_summary")
  ELSE log = ToolSteps(3)

\* The log of a run of mode m at place p that has called c tools.
LoggedAt(p, m, log, c, text, llm) ==
  /\ p \in {"idle", "announce", "open", "route", "kali"} => log = <<>>
  /\ m = "run" /\ p = "finish" => log = <<>>
  /\ p \in {"prepare", "finish_tool"} => log = ToolSteps(c)
  /\ p \in {"start_tool", "call"} => log = ToolSteps(c + 1)
  /\ p \in {"build", "open_llm", "llm"} => log = ToolSteps(3)
  /\ m = "stream" /\ p = "finish" => Summarised(log, text, llm)

Logged(r) == LoggedAt(pc[r], mode[r], steps[r], Len(calls[r]), summary[r], llmEnabled)

\* StepLogTellsStory, of one run of mode m.
ToldBy(m, log, text, llm) ==
  IF m = "run" THEN log = <<"artifact">>
  ELSE IF llm
       THEN \E name \in {"llm_summary", "llm_fallback"} :
              /\ log = ToolSteps(3) \o <<name, "artifact">>
              /\ text = "llm" => name = "llm_summary"
       ELSE log = ToolSteps(3) \o <<"artifact">>

Story(r) == status[r] = "completed" => ToldBy(mode[r], steps[r], summary[r], llmEnabled)

\* The audit trail is the artifact's account, ahead of it by at most one call once
\* the run fails; no tool is told finished (n times so far) before.
TrailAt(p, told, kept, n) ==
  /\ told \in Seq(Outcomes)
  /\ \/ kept = told
     \/ p \in {"failing", "report", "done", "broken", "gone", "dead"} /\ \E outcome \in Outcomes : kept = Append(told, outcome)
  /\ n <= Len(told)
  /\ p = "finish_tool" => n < Len(told)

Trail(r) == TrailAt(pc[r], calls[r], audit[r], Count(sent[r], "tool_finished"))

Accounted(r) ==
  /\ mode[r] = "stream" => Follows(r)
  /\ ClosedOnScript(r) /\ Logged(r) /\ Story(r) /\ Trail(r)

AccountsInv == \A r \in Runs : Accounted(r)

\* A step of r's request leaves the accounts of every other run alone.
LEMMA AccountsAreLocal ==
  ASSUME Typed, NEW r \in Runs, RunStep(r), NEW x \in Runs \ {r}
  PROVE  /\ calls'[x] = calls[x] /\ summary'[x] = summary[x] /\ steps'[x] = steps[x]
         /\ audit'[x] = audit[x] /\ llmEnabled' = llmEnabled
<1> USE DEF Typed, TypeOK, Goto, Tell, config, work, database
<1>1. CASE StartRun(r) \/ AnnounceRun(r) \/ OpenStep(r) \/ StartTool(r) \/ FinishTool(r) \/ OpenLLM(r)
           \/ StreamToken(r) \/ Conclude(r) \/ MarkFailed(r) \/ ReportError(r)
  BY <1>1 DEF StartRun, AnnounceRun, OpenStep, StartTool, FinishTool, OpenLLM, StreamToken,
     Conclude, MarkFailed, ReportError
<1>2. CASE RouteFoodCost(r) \/ PrepareCall(r)
  BY <1>2 DEF RouteFoodCost, PrepareCall, RecordStep
<1>3. CASE EndLLMStream(r)
  BY <1>3 DEF EndLLMStream, RecordStep
<1>4. CASE CallTool(r)
  BY <1>4 DEF CallTool
<1>5. CASE BuildArtifact(r) \/ RunKaliAgent(r)
  BY <1>5 DEF BuildArtifact, RunKaliAgent
<1>6. CASE FinishRun(r)
  BY <1>6 DEF FinishRun
<1> QED
  BY <1>1, <1>2, <1>3, <1>4, <1>5, <1>6 DEF RunStep

\* Every step of a stream keeps it on its script.
LEMMA StepFollows ==
  ASSUME Typed, Inv, NEW r \in Runs, RunStep(r), mode[r] = "stream", Follows(r)
  PROVE  Follows(r)'
<1>0. /\ pc \in [Runs -> PCs] /\ sent \in [Runs -> Seq(Messages)] /\ sent[r] \in Seq(Messages)
      /\ Len(sent[r]) \in Nat /\ calls \in [Runs -> Accounts] /\ Told(r) /\ WithinScript(r)
  BY DEF Typed, TypeOK, Accounts, Inv, Linked
<1>0a. Len(calls[r]) \in 0..3 /\ calls[r] \in Seq(Outcomes)
  <2>1. PICK n \in 0..3 : calls[r] \in [1..n -> Outcomes]
    BY <1>0, ThreeTools DEF Accounts
  <2>2. calls[r] \in Seq(Outcomes)
    BY <2>1
  <2>3. Len(calls[r]) = n
    BY <2>1
  <2> QED
    BY <2>2, <2>3
<1>1. (llmEnabled <=> Spoken = 9) /\ Spoken' = Spoken
  BY DEF RunStep, StartRun, AnnounceRun, OpenStep, RouteFoodCost, PrepareCall, StartTool, CallTool,
     FinishTool, BuildArtifact, OpenLLM, StreamToken, EndLLMStream, RunKaliAgent, FinishRun, Conclude,
     MarkFailed, ReportError, config, Spoken
<1> DEFINE s == sent[r]
           c == Len(calls[r])
           At(p) == FollowsAt(p, s, c, Spoken)
<1>2. FollowsAt(pc[r], s, c, Spoken)
  BY DEF Follows
<1>3. ASSUME NEW p \in PCs, pc' = [pc EXCEPT ![r] = p], UNCHANGED <<sent, calls>>, At(p)
      PROVE  Follows(r)'
  BY <1>0, <1>1, <1>3 DEF Follows
<1>4. ASSUME NEW m \in Messages, sent' = [sent EXCEPT ![r] = Append(@, m)], UNCHANGED calls,
             NEW p \in PCs, pc' = [pc EXCEPT ![r] = p],
             FollowsAt(p, Append(s, m), c, Spoken)
      PROVE  Follows(r)'
  BY <1>0, <1>1, <1>4 DEF Follows
<1>5. ASSUME NEW m \in Messages, OnScript(s, Spoken), m = ScriptAt(Len(s) + 1, Spoken), Len(s) < 8 \/ Spoken = 9
      PROVE  OnScript(Append(s, m), Spoken) /\ Len(Append(s, m)) = Len(s) + 1
  BY <1>0, <1>5, SpokenIs, NextOnScript
<1>6. Len(s) \in Nat /\ c \in 0..3 /\ Spoken \in {8, 9}
  BY <1>0, <1>0a, SpokenIs
<1> HIDE DEF s, c
<1> USE DEF Goto, Tell, OnError
<1>7. CASE StartRun(r)
  <2>1. PICK p \in {"broken", "announce"} : pc' = [pc EXCEPT ![r] = p]
    BY <1>7 DEF StartRun
  <2>2. pc[r] = "idle" /\ UNCHANGED <<sent, calls>>
    BY <1>7 DEF StartRun, work
  <2>3. At(p)
    BY <1>2, <2>2 DEF FollowsAt
  <2> QED
    BY <1>3, <2>1, <2>2, <2>3 DEF PCs
<1>8. CASE AnnounceRun(r)
  <2>1. Len(s) = 0 /\ OnScript(s, Spoken) /\ "run_started" = ScriptAt(0 + 1, Spoken) /\ "run_started" \in Messages
    BY <1>2, <1>8 DEF AnnounceRun, FollowsAt, ScriptAt, Messages
  <2>2. FollowsAt("open", Append(s, "run_started"), c, Spoken)
    BY <2>1, <1>5 DEF FollowsAt
  <2> QED
    BY <1>4, <1>8, <2>1, <2>2 DEF AnnounceRun, PCs, work
<1>9. CASE OpenStep(r)
  <2>1. /\ Len(s) = 1 /\ OnScript(s, Spoken)
        /\ "step_started" = ScriptAt(1 + 1, Spoken) /\ "step_started" \in Messages
    BY <1>2, <1>9 DEF OpenStep, FollowsAt, ScriptAt, Messages
  <2>2. c = 0
    BY <1>0, <1>9, EmptyAccount DEF OpenStep, WithinScript, c
  <2>3. FollowsAt("route", Append(s, "step_started"), c, Spoken)
    BY <2>1, <2>2, <1>5 DEF FollowsAt
  <2> QED
    BY <1>4, <1>9, <2>1, <2>3 DEF OpenStep, PCs, work
<1>10. CASE RouteFoodCost(r) \/ PrepareCall(r)
  <2>1. PICK p \in {"failing", "prepare", "start_tool"} : pc' = [pc EXCEPT ![r] = p] /\ UNCHANGED <<sent, calls>>
    BY <1>10 DEF RouteFoodCost, PrepareCall, RecordStep, work
  <2>2. pc[r] \in {"route", "prepare"}
    BY <1>10 DEF RouteFoodCost, PrepareCall
  <2>2a. OnScript(s, Spoken) /\ Len(s) = 2 + 2 * c
    <3>1. CASE pc[r] = "route"
      BY <1>2, <3>1 DEF FollowsAt
    <3>2. CASE pc[r] = "prepare"
      BY <1>2, <3>2 DEF FollowsAt
    <3> QED
      BY <2>2, <3>1, <3>2
  <2>3. At(p)
    BY <2>2a DEF FollowsAt
  <2> QED
    BY <1>3, <2>1, <2>3 DEF PCs
<1>11. CASE StartTool(r)
  <2>0. c < 3
    BY <1>0, <1>11, ThreeTools DEF StartTool, WithinScript, c
  <2>0a. Len(s) = 2 + 2 * c /\ OnScript(s, Spoken)
    BY <1>2, <1>11 DEF StartTool, FollowsAt
  <2>1. Len(s) = 2 + 2 * c /\ c \in {0, 1, 2} /\ OnScript(s, Spoken)
    BY <1>6, <2>0, <2>0a
  <2>2. Len(s) + 1 \in {3, 5, 7}
    BY <2>1
  <2>3. "tool_started" = ScriptAt(Len(s) + 1, Spoken) /\ "tool_started" \in Messages
    BY <2>2 DEF ScriptAt, Messages
  <2>4. OnScript(Append(s, "tool_started"), Spoken) /\ Len(Append(s, "tool_started")) = 3 + 2 * c
    BY <2>1, <2>2, <2>3, <1>5, <1>6
  <2>5. FollowsAt("call", Append(s, "tool_started"), c, Spoken)
    BY <2>4 DEF FollowsAt
  <2> QED
    BY <1>4, <1>11, <2>3, <2>5 DEF StartTool, PCs, work
<1>12. CASE CallTool(r)
  <2>1. PICK outcome \in Outcomes :
          \/ pc' = [pc EXCEPT ![r] = "failing"] /\ UNCHANGED calls
          \/ pc' = [pc EXCEPT ![r] = "finish_tool"] /\ calls' = [calls EXCEPT ![r] = Append(@, outcome)]
    BY <1>12 DEF CallTool
  <2>2. sent' = sent /\ Len(s) = 3 + 2 * c /\ pc[r] = "call" /\ OnScript(s, Spoken)
    BY <1>2, <1>12 DEF CallTool, FollowsAt
  <2>3. CASE pc' = [pc EXCEPT ![r] = "failing"] /\ UNCHANGED calls
    <3>1. At("failing")
      BY <2>2 DEF FollowsAt
    <3> QED
      BY <1>3, <2>2, <2>3, <3>1 DEF PCs
  <2>4. CASE pc' = [pc EXCEPT ![r] = "finish_tool"] /\ calls' = [calls EXCEPT ![r] = Append(@, outcome)]
    <3>1. calls'[r] = Append(calls[r], outcome) /\ pc'[r] = "finish_tool" /\ sent'[r] = s
      BY <1>0, <2>2, <2>4 DEF s
    <3>2. Len(calls'[r]) = c + 1
      BY <1>0a, <3>1 DEF c
    <3>3. FollowsAt("finish_tool", s, c + 1, Spoken)
      BY <1>6, <2>2 DEF FollowsAt
    <3> QED
      BY <1>1, <3>1, <3>2, <3>3 DEF Follows
  <2> QED
    BY <2>1, <2>3, <2>4
<1>13. CASE FinishTool(r)
  <2>1. Len(s) = 1 + 2 * c /\ c \in {1, 2, 3} /\ OnScript(s, Spoken)
    BY <1>2, <1>6, <1>13 DEF FinishTool, FollowsAt
  <2>2. Len(s) + 1 \in {4, 6, 8}
    BY <2>1
  <2>3. "tool_finished" = ScriptAt(Len(s) + 1, Spoken) /\ "tool_finished" \in Messages
    BY <2>2 DEF ScriptAt, Messages
  <2>4. OnScript(Append(s, "tool_finished"), Spoken) /\ Len(Append(s, "tool_finished")) = 2 + 2 * c
    BY <2>1, <2>2, <2>3, <1>5, <1>6
  <2>5. AfterTool(r) \in PCs /\ AfterTool(r) = IF c = 3 THEN "build" ELSE "prepare"
    BY ThreeTools DEF AfterTool, PCs, c
  <2>6. FollowsAt(AfterTool(r), Append(s, "tool_finished"), c, Spoken)
    <3>1. CASE c = 3
      <4>1. AfterTool(r) = "build" /\ Len(Append(s, "tool_finished")) = 8
        BY <2>4, <2>5, <3>1
      <4> QED
        BY <2>4, <4>1, <3>1 DEF FollowsAt
    <3>2. CASE c # 3
      <4>1. AfterTool(r) = "prepare"
        BY <2>5, <3>2
      <4> QED
        BY <2>4, <4>1 DEF FollowsAt
    <3> QED
      BY <3>1, <3>2
  <2> QED
    BY <1>4, <1>13, <2>3, <2>5, <2>6 DEF FinishTool, work
<1>14. CASE BuildArtifact(r)
  <2>1. PICK p \in {"failing", "open_llm", "finish"} :
          /\ pc' = [pc EXCEPT ![r] = p] /\ UNCHANGED <<sent, calls>>
          /\ (p = "open_llm" => Spoken = 9) /\ (p = "finish" => Spoken # 9)
    BY <1>1, <1>14 DEF BuildArtifact
  <2>2. pc[r] = "build"
    BY <1>14 DEF BuildArtifact
  <2>3. At(p)
    BY <1>2, <2>1, <2>2 DEF FollowsAt
  <2> QED
    BY <1>3, <2>1, <2>3 DEF PCs
<1>15. CASE OpenLLM(r)
  <2>1. Spoken = 9 /\ Len(s) = 8 /\ OnScript(s, Spoken)
    BY <1>2, <1>15 DEF OpenLLM, FollowsAt
  <2>2. "llm_started" = ScriptAt(Len(s) + 1, Spoken) /\ "llm_started" \in Messages
    BY <2>1 DEF ScriptAt, Messages
  <2>3. FollowsAt("llm", Append(s, "llm_started"), c, Spoken)
    BY <2>1, <2>2, <1>5 DEF FollowsAt
  <2> QED
    BY <1>4, <1>15, <2>2, <2>3 DEF OpenLLM, PCs, work
<1>16. CASE StreamToken(r)
  <2>1. Spoken = 9 /\ Len(s) >= 9 /\ OnScript(s, Spoken)
    BY <1>2, <1>16 DEF StreamToken, FollowsAt
  <2>2. "token" = ScriptAt(Len(s) + 1, Spoken) /\ "token" \in Messages
    BY <1>6, <2>1 DEF ScriptAt, Messages
  <2>3. OnScript(Append(s, "token"), Spoken) /\ Len(Append(s, "token")) = Len(s) + 1
    BY <2>1, <2>2, <1>5
  <2>4. FollowsAt("llm", Append(s, "token"), c, Spoken)
    BY <1>6, <2>1, <2>3 DEF FollowsAt
  <2> QED
    BY <1>4, <1>16, <2>2, <2>4 DEF StreamToken, PCs, work
<1>17. CASE EndLLMStream(r)
  <2>1. PICK p \in {"failing", "finish"} : pc' = [pc EXCEPT ![r] = p] /\ UNCHANGED <<sent, calls>>
    BY <1>17 DEF EndLLMStream, RecordStep
  <2>2. pc[r] = "llm"
    BY <1>17 DEF EndLLMStream
  <2>3. At(p)
    BY <1>2, <2>2 DEF FollowsAt
  <2> QED
    BY <1>3, <2>1, <2>3 DEF PCs
<1>18. CASE RunKaliAgent(r)
  BY <1>0, <1>18 DEF RunKaliAgent, Told
<1>19. CASE FinishRun(r) \/ MarkFailed(r)
  <2>1. PICK p \in {"failing", "finalize", "report", "broken"} : pc' = [pc EXCEPT ![r] = p] /\ UNCHANGED <<sent, calls>>
    BY <1>19 DEF FinishRun, MarkFailed, work
  <2>2. pc[r] \in {"finish", "failing"} /\ (p = "finalize" => pc[r] = "finish")
    BY <1>0, <1>19, <2>1 DEF FinishRun, MarkFailed
  <2>3. At(p)
    BY <1>2, <2>2 DEF FollowsAt
  <2> QED
    BY <1>3, <2>1, <2>3 DEF PCs
<1>20. CASE Conclude(r) \/ ReportError(r)
  <2>1. pc'[r] = "done"
    BY <1>0, <1>20 DEF Conclude, ReportError
  <2> QED
    BY <2>1 DEF Follows, FollowsAt
<1> QED
  BY <1>7, <1>8, <1>9, <1>10, <1>11, <1>12, <1>13, <1>14, <1>15, <1>16, <1>17, <1>18, <1>19, <1>20 DEF RunStep

\* A stream that closes, closes on its script.
LEMMA StepCloses ==
  ASSUME Typed, Inv, NEW r \in Runs, RunStep(r), mode[r] = "stream" => Follows(r)
  PROVE  ClosedOnScript(r)'
<1>0. /\ pc \in [Runs -> PCs] /\ sent \in [Runs -> Seq(Messages)] /\ sent[r] \in Seq(Messages)
      /\ Len(sent[r]) \in Nat /\ Closing(r) /\ Told(r) /\ mode[r] \in {"run", "stream"}
  BY DEF Typed, TypeOK, Inv, Linked
<1>1. llmEnabled' = llmEnabled
  BY DEF RunStep, StartRun, AnnounceRun, OpenStep, RouteFoodCost, PrepareCall, StartTool, CallTool,
     FinishTool, BuildArtifact, OpenLLM, StreamToken, EndLLMStream, RunKaliAgent, FinishRun, Conclude,
     MarkFailed, ReportError, config
<1>2. pc[r] # "done" /\ ~ Has(r, "final") /\ ~ Has(r, "error")
  BY <1>0 DEF Closing, RunStep, StartRun, AnnounceRun, OpenStep, RouteFoodCost, PrepareCall, StartTool, CallTool,
     FinishTool, BuildArtifact, OpenLLM, StreamToken, EndLLMStream, RunKaliAgent, FinishRun, Conclude,
     MarkFailed, ReportError
<1> USE DEF Goto, Tell
<1>3. ASSUME NEW m \in Messages \ {"final", "error"}, sent' = [sent EXCEPT ![r] = Append(@, m)]
      PROVE  ClosedOnScript(r)'
  <2>1. ~ Has(r, "final")' /\ ~ Has(r, "error")'
    BY <1>2, <1>3, HasTell DEF Messages
  <2> QED
    BY <2>1 DEF ClosedOnScript
<1>4. CASE UNCHANGED sent
  <2>1. ~ Has(r, "final")' /\ ~ Has(r, "error")'
    BY <1>2, <1>4 DEF Has
  <2> QED
    BY <2>1 DEF ClosedOnScript
<1>5. ASSUME NEW m \in {"final", "error"}, sent' = [sent EXCEPT ![r] = Append(@, m)]
      PROVE  /\ Len(sent'[r]) - 1 = Len(sent[r]) /\ sent'[r] = sent[r] \o <<m>>
             /\ Count(sent'[r], "token") = Count(sent[r], "token") /\ Count(sent[r], "token") \in Nat
             /\ \A x \in {"final", "error"} \ {m} : ~ Has(r, x)'
  <2>1. sent'[r] = Append(sent[r], m) /\ m \in Messages
    BY <1>0, <1>5 DEF Messages
  <2>2. Len(Append(sent[r], m)) = Len(sent[r]) + 1 /\ Append(sent[r], m) = sent[r] \o <<m>>
    BY <1>0, <2>1
  <2>3. Count(Append(sent[r], m), "token") = Count(sent[r], "token") /\ Count(sent[r], "token") \in Nat
    BY <1>0, <2>1, CountAppend, m # "token"
  <2>4. \A x \in {"final", "error"} \ {m} : ~ Has(r, x)'
    <3>1. \A x \in {"final", "error"} \ {m} : x \in Messages \ {m} /\ ~ Has(r, x)
      BY <1>2 DEF Messages
    <3> QED
      BY <1>5, <2>1, <3>1, HasTell
  <2> QED
    BY <1>0, <2>1, <2>2, <2>3, <2>4
<1>6. CASE Conclude(r) /\ mode[r] = "stream"
  <2>1. sent' = [sent EXCEPT ![r] = Append(@, "final")] /\ pc[r] = "finalize"
    BY <1>6 DEF Conclude
  <2>2. OnScript(sent[r], Spoken) /\ IF llmEnabled THEN Len(sent[r]) >= 9 ELSE Len(sent[r]) = 8
    BY <1>6, <2>1 DEF Follows, FollowsAt, Spoken
  <2>3. sent[r] = Script(Count(sent[r], "token"))
    BY <1>0, <2>2, WholeScript
  <2>4. sent'[r] = Script(Count(sent[r], "token")) \o <<"final">> /\ ~ Has(r, "error")'
    BY <1>5, <2>1, <2>3
  <2>5. Count(sent'[r], "token") = Count(sent[r], "token")
    BY <1>5, <2>1
  <2> QED
    BY <1>1, <2>4, <2>5 DEF ClosedOnScript, Script
<1>7. CASE Conclude(r) /\ mode[r] = "run"
  <2>1. sent' = [sent EXCEPT ![r] = Append(@, "response")] /\ "response" \in Messages \ {"final", "error"}
    BY <1>7 DEF Conclude, Messages
  <2> QED
    BY <1>3, <2>1
<1>8. CASE ReportError(r)
  <2>1. sent' = [sent EXCEPT ![r] = Append(@, "error")] /\ pc[r] = "report"
    BY <1>8 DEF ReportError
  <2>2. mode[r] = "stream" /\ OnScript(sent[r], Spoken)
    BY <1>0, <2>1 DEF Follows, FollowsAt, Told
  <2> DEFINE t == Script(Count(sent[r], "token"))
  <2>3. Len(sent[r]) <= Len(t) /\ sent[r] = SubSeq(t, 1, Len(sent[r]))
    BY <1>0, <2>2, BeginningOfScript
  <2>4. Count(sent'[r], "token") = Count(sent[r], "token")
    BY <1>5, <2>1
  <2>5. ~ Has(r, "final")' /\ Len(sent'[r]) - 1 = Len(sent[r]) /\ sent'[r] = sent[r] \o <<"error">>
    BY <1>5, <2>1
  <2> QED
    BY <1>1, <2>3, <2>4, <2>5 DEF ClosedOnScript, Script
<1>9. CASE AnnounceRun(r) \/ OpenStep(r) \/ StartTool(r) \/ FinishTool(r) \/ OpenLLM(r) \/ StreamToken(r)
  BY <1>3, <1>9 DEF AnnounceRun, OpenStep, StartTool, FinishTool, OpenLLM, StreamToken, Messages
<1>10. CASE StartRun(r) \/ RouteFoodCost(r) \/ PrepareCall(r) \/ CallTool(r) \/ BuildArtifact(r)
            \/ EndLLMStream(r) \/ RunKaliAgent(r) \/ FinishRun(r) \/ MarkFailed(r)
  BY <1>4, <1>10 DEF StartRun, RouteFoodCost, PrepareCall, CallTool, BuildArtifact, EndLLMStream,
     RunKaliAgent, FinishRun, MarkFailed
<1> QED
  BY <1>0, <1>6, <1>7, <1>8, <1>9, <1>10 DEF RunStep

LEMMA ToolStepsAre ==
  ASSUME NEW k \in Nat
  PROVE  /\ ToolSteps(k) \in Seq(StepNames) /\ Len(ToolSteps(k)) = k + 1
         /\ \A i \in 1..k + 1 : ToolSteps(k)[i] = IF i = 1 THEN "router" ELSE "tool"
<1> DEFINE f == [i \in 1..k |-> "tool"]
           a == <<"router">>
           t == a \o f
<1>1. f \in Seq(StepNames) /\ Len(f) = k /\ \A i \in 1..k : f[i] = "tool"
  BY DEF StepNames
<1>2. a \in Seq(StepNames) /\ Len(a) = 1 /\ a[1] = "router"
  BY DEF StepNames
<1> HIDE DEF f, a
<1>3. t \in Seq(StepNames) /\ Len(t) = k + 1 /\ t[1] = a[1] /\ \A i \in 2..k + 1 : t[i] = f[i - 1]
  <2>1. /\ t \in Seq(StepNames) /\ Len(t) = Len(a) + Len(f) /\ \A i \in 1..Len(a) : t[i] = a[i]
        /\ \A i \in Len(a) + 1..Len(a) + Len(f) : t[i] = f[i - Len(a)]
    BY <1>1, <1>2, Joined
  <2> HIDE DEF t
  <2> QED
    BY <2>1, <1>1, <1>2
<1> HIDE DEF t
<1>4. \A i \in 1..k + 1 : t[i] = IF i = 1 THEN "router" ELSE "tool"
  BY <1>1, <1>2, <1>3
<1> QED
  BY <1>3, <1>4 DEF t, f, a, ToolSteps

LEMMA StepsOfTools ==
  ASSUME NEW n \in Nat
  PROVE  /\ Append(<<>>, "router") = ToolSteps(0)
         /\ Append(ToolSteps(n), "tool") = ToolSteps(n + 1)
         /\ \A name \in StepNames :
              /\ Append(ToolSteps(n), name) = ToolSteps(n) \o <<name>>
              /\ Append(ToolSteps(n) \o <<name>>, "artifact") = ToolSteps(n) \o <<name, "artifact">>
<1> DEFINE s == ToolSteps(n)
<1>2. s \in Seq(StepNames) /\ Len(s) = n + 1 /\ \A i \in 1..n + 1 : s[i] = IF i = 1 THEN "router" ELSE "tool"
  BY ToolStepsAre
<1>3. Append(<<>>, "router") = ToolSteps(0)
  <2> DEFINE t == Append(<<>>, "router")
             u == ToolSteps(0)
  <2>1. u \in Seq(StepNames) /\ Len(u) = 1 /\ u[1] = "router"
    <3>1. /\ u \in Seq(StepNames) /\ Len(u) = 0 + 1
          /\ \A i \in 1..0 + 1 : u[i] = IF i = 1 THEN "router" ELSE "tool"
      BY ToolStepsAre
    <3> HIDE DEF u
    <3> QED
      BY <3>1
  <2> HIDE DEF u
  <2>2. t \in Seq(StepNames) /\ Len(t) = 1 /\ t[1] = "router"
    BY DEF StepNames
  <2> HIDE DEF t
  <2>3. t = u
    BY <2>1, <2>2, SeqEqual
  <2> QED
    BY <2>3 DEF t, u
<1>4. Append(s, "tool") = ToolSteps(n + 1)
  <2> DEFINE t == Append(s, "tool")
             u == ToolSteps(n + 1)
  <2>1. n + 1 \in Nat /\ n + 1 + 1 = n + 2
    OBVIOUS
  <2>1a. u \in Seq(StepNames) /\ Len(u) = n + 2 /\ \A i \in 1..n + 2 : u[i] = IF i = 1 THEN "router" ELSE "tool"
    BY <2>1, ToolStepsAre
  <2> HIDE DEF s, u
  <2>2. t \in Seq(StepNames) /\ Len(t) = n + 2 /\ t[n + 2] = "tool" /\ \A i \in 1..n + 1 : t[i] = s[i]
    BY <1>2 DEF StepNames
  <2> HIDE DEF t
  <2>2a. \A i \in 1..n + 2 : t[i] = u[i]
    BY <1>2, <2>1a, <2>2
  <2>3. t = u
    BY <2>1a, <2>2, <2>2a, SeqEqual
  <2> QED
    BY <2>3 DEF t, u
<1> HIDE DEF s
<1>5. ASSUME NEW name \in StepNames
      PROVE  Append(s, name) = s \o <<name>>
  BY <1>2
<1>6. ASSUME NEW name \in StepNames
      PROVE  Append(s \o <<name>>, "artifact") = s \o <<name, "artifact">>
  <2> DEFINE a == <<name>>
             b == <<name, "artifact">>
             t == s \o a
             u == Append(t, "artifact")
             v == s \o b
  <2>1. /\ a \in Seq(StepNames) /\ b \in Seq(StepNames) /\ "artifact" \in StepNames
        /\ Len(a) = 1 /\ a[1] = name /\ Len(b) = 2 /\ b[1] = name /\ b[2] = "artifact"
    BY DEF StepNames
  <2> HIDE DEF a, b
  <2>1t. /\ t \in Seq(StepNames) /\ Len(t) = Len(s) + Len(a) /\ \A i \in 1..Len(s) : t[i] = s[i]
         /\ \A i \in Len(s) + 1..Len(s) + Len(a) : t[i] = a[i - Len(s)]
    BY <1>2, <2>1, Joined
  <2>1v. /\ v \in Seq(StepNames) /\ Len(v) = Len(s) + Len(b) /\ \A i \in 1..Len(s) : v[i] = s[i]
         /\ \A i \in Len(s) + 1..Len(s) + Len(b) : v[i] = b[i - Len(s)]
    BY <1>2, <2>1, Joined
  <2> HIDE DEF t, v
  <2>2. t \in Seq(StepNames) /\ Len(t) = n + 2 /\ t[n + 2] = a[1] /\ \A i \in 1..n + 1 : t[i] = s[i]
    BY <1>2, <2>1, <2>1t
  <2>3. /\ v \in Seq(StepNames) /\ Len(v) = n + 3 /\ v[n + 2] = b[1] /\ v[n + 3] = b[2]
        /\ \A i \in 1..n + 1 : v[i] = s[i]
    BY <1>2, <2>1, <2>1v
  <2>4. u \in Seq(StepNames) /\ Len(u) = n + 3 /\ u[n + 3] = "artifact" /\ \A i \in 1..n + 2 : u[i] = t[i]
    BY <2>1, <2>2
  <2> HIDE DEF u
  <2>5. \A i \in 1..n + 3 : u[i] = v[i]
    BY <2>1, <2>2, <2>3, <2>4
  <2>6. u = v
    BY <2>3, <2>4, <2>5, SeqEqual
  <2> QED
    BY <2>6 DEF u, v, t, a, b
<1> QED
  BY <1>3, <1>4, <1>5, <1>6 DEF s

\* Every step of a request writes the log of its place; what completes a run
\* completes its log.
LEMMA StepLogged ==
  ASSUME Typed, Inv, NEW r \in Runs, RunStep(r), mode[r] = "stream" => Follows(r), Logged(r), Story(r)
  PROVE  Logged(r)' /\ Story(r)'
<1>0. /\ pc \in [Runs -> PCs] /\ steps \in [Runs -> Seq(StepNames)] /\ calls \in [Runs -> Accounts]
      /\ summary \in [Runs -> {"none", "llm", "fallback"}] /\ mode[r] \in {"run", "stream"}
      /\ status \in [Runs -> {"none", "running", "completed", "failed"}] /\ Told(r) /\ Stored(r)
  BY DEF Typed, TypeOK, Accounts, Inv, Linked
<1>0a. Len(calls[r]) \in 0..3 /\ calls[r] \in Seq(Outcomes)
  <2>1. PICK n \in 0..3 : calls[r] \in [1..n -> Outcomes]
    BY <1>0, ThreeTools DEF Accounts
  <2>2. calls[r] \in Seq(Outcomes)
    BY <2>1
  <2>3. Len(calls[r]) = n
    BY <2>1
  <2> QED
    BY <2>2, <2>3
<1>1. mode' = mode /\ llmEnabled' = llmEnabled
  BY DEF RunStep, StartRun, AnnounceRun, OpenStep, RouteFoodCost, PrepareCall, StartTool, CallTool,
     FinishTool, BuildArtifact, OpenLLM, StreamToken, EndLLMStream, RunKaliAgent, FinishRun, Conclude,
     MarkFailed, ReportError, config
<1> DEFINE m == mode[r]
           log == steps[r]
           c == Len(calls[r])
           text == summary[r]
<1>2. LoggedAt(pc[r], m, log, c, text, llmEnabled)
  BY DEF Logged
<1>3. ASSUME NEW p \in PCs, pc' = [pc EXCEPT ![r] = p], UNCHANGED <<steps, calls, summary>>,
             LoggedAt(p, m, log, c, text, llmEnabled)
      PROVE  Logged(r)'
  BY <1>0, <1>1, <1>3 DEF Logged
<1>4. ASSUME NEW p \in PCs, pc' = [pc EXCEPT ![r] = p], UNCHANGED <<calls, summary>>,
             NEW name \in StepNames, steps' = [steps EXCEPT ![r] = Append(@, name)],
             LoggedAt(p, m, Append(log, name), c, text, llmEnabled)
      PROVE  Logged(r)'
  BY <1>0, <1>1, <1>4 DEF Logged
<1>5. ASSUME pc[r] \in AtWork, UNCHANGED status PROVE Story(r)'
  BY <1>0, <1>5 DEF Story, Stored
<1> USE DEF Goto, Tell, OnError
<1>6. ASSUME NEW p \in PCs, pc' = [pc EXCEPT ![r] = p], UNCHANGED <<steps, calls, summary, status>>,
             pc[r] \in AtWork, LoggedAt(p, m, log, c, text, llmEnabled)
      PROVE  Logged(r)' /\ Story(r)'
  BY <1>3, <1>5, <1>6
<1>7. ASSUME NEW name \in StepNames, NEW next \in PCs, RecordStep(r, name, next), UNCHANGED <<calls, summary>>,
             pc[r] \in AtWork, LoggedAt(next, m, Append(log, name), c, text, llmEnabled)
      PROVE  Logged(r)' /\ Story(r)'
  <2>1. UNCHANGED status
    BY <1>7 DEF RecordStep
  <2>2. CASE pc' = [pc EXCEPT ![r] = "failing"]
    <3>1. pc'[r] = "failing"
      BY <1>0, <2>2
    <3>2. Logged(r)'
      BY <3>1 DEF Logged, LoggedAt
    <3> QED
      BY <1>5, <1>7, <2>1, <3>2
  <2>3. CASE pc' = [pc EXCEPT ![r] = next] /\ steps' = [steps EXCEPT ![r] = Append(@, name)]
    BY <1>4, <1>5, <1>7, <2>1, <2>3
  <2> QED
    BY <1>7, <2>2, <2>3 DEF RecordStep, Applied, Raises
<1>8. ASSUME pc[r] \in {"failing", "finalize", "report"}, UNCHANGED <<steps, summary>>,
             status'[r] = "completed" => status[r] = "completed",
             pc'[r] \in {"report", "broken", "done"}
      PROVE  Logged(r)' /\ Story(r)'
  <2>1. Logged(r)'
    BY <1>8 DEF Logged, LoggedAt
  <2> QED
    BY <1>1, <1>8, <2>1 DEF Story
<1>c. c \in 0..3
  BY <1>0a
<1>9. CASE StartRun(r)
  <2>1. PICK p \in {"broken", "announce", "kali"} : pc' = [pc EXCEPT ![r] = p]
    BY <1>9 DEF StartRun
  <2>2. pc[r] = "idle" /\ UNCHANGED <<steps, calls, summary>>
    BY <1>9 DEF StartRun, work
  <2>3. LoggedAt(p, m, log, c, text, llmEnabled)
    BY <1>2, <2>2 DEF LoggedAt
  <2>4. status'[r] # "completed"
    BY <1>0, <1>9 DEF StartRun, SetStatus, Stored
  <2> QED
    BY <1>3, <2>1, <2>2, <2>3, <2>4 DEF Story, PCs
<1>10. CASE AnnounceRun(r) \/ OpenStep(r)
  <2>1. PICK p \in {"open", "route"} : pc' = [pc EXCEPT ![r] = p] /\ UNCHANGED <<steps, calls, summary, status>>
    BY <1>10 DEF AnnounceRun, OpenStep, work, database
  <2>2. pc[r] \in {"announce", "open"}
    BY <1>10 DEF AnnounceRun, OpenStep
  <2>3. LoggedAt(p, m, log, c, text, llmEnabled)
    BY <1>2, <2>2 DEF LoggedAt
  <2> QED
    BY <1>6, <2>1, <2>2, <2>3 DEF PCs, AtWork
<1>11. CASE RouteFoodCost(r)
  <2>1. log = <<>> /\ pc[r] = "route"
    BY <1>2, <1>11 DEF RouteFoodCost, LoggedAt
  <2>2. c = 0
    BY <1>11, EmptyAccount DEF RouteFoodCost, Typed, WithinScript
  <2>3. Append(log, "router") = ToolSteps(c)
    BY <2>1, <2>2, StepsOfTools
  <2>4. LoggedAt("prepare", m, Append(log, "router"), c, text, llmEnabled)
    BY <2>3 DEF LoggedAt
  <2> QED
    BY <1>7, <1>11, <2>1, <2>4 DEF RouteFoodCost, PCs, AtWork, StepNames, work
<1>12. CASE PrepareCall(r)
  <2>1. log = ToolSteps(c) /\ pc[r] = "prepare" /\ c \in Nat
    BY <1>2, <1>c, <1>12 DEF PrepareCall, LoggedAt
  <2>2. Append(log, "tool") = ToolSteps(c + 1)
    BY <2>1, StepsOfTools
  <2>3. LoggedAt("start_tool", m, Append(log, "tool"), c, text, llmEnabled)
    BY <2>2 DEF LoggedAt
  <2> QED
    BY <1>7, <1>12, <2>1, <2>3 DEF PrepareCall, PCs, AtWork, StepNames, work
<1>13. CASE StartTool(r) \/ OpenLLM(r) \/ StreamToken(r)
  <2>1. PICK p \in {"call", "llm"} : pc' = [pc EXCEPT ![r] = p] /\ UNCHANGED <<steps, calls, summary, status>>
                                 /\ (p = "call" <=> pc[r] = "start_tool")
    BY <1>13 DEF StartTool, OpenLLM, StreamToken, work, database
  <2>2. pc[r] \in {"start_tool", "open_llm", "llm"}
    BY <1>13 DEF StartTool, OpenLLM, StreamToken
  <2>3. LoggedAt(p, m, log, c, text, llmEnabled)
    BY <1>2, <2>1, <2>2 DEF LoggedAt
  <2> QED
    BY <1>6, <2>1, <2>2, <2>3 DEF PCs, AtWork
<1>14. CASE CallTool(r)
  <2>1. PICK outcome \in Outcomes :
          \/ pc' = [pc EXCEPT ![r] = "failing"] /\ UNCHANGED calls
          \/ pc' = [pc EXCEPT ![r] = "finish_tool"] /\ calls' = [calls EXCEPT ![r] = Append(@, outcome)]
    BY <1>14 DEF CallTool
  <2>2. UNCHANGED <<steps, summary, status>> /\ log = ToolSteps(c + 1) /\ pc[r] = "call" /\ pc[r] \in AtWork
    BY <1>2, <1>14 DEF CallTool, LoggedAt, AtWork
  <2>3. CASE pc' = [pc EXCEPT ![r] = "failing"] /\ UNCHANGED calls
    BY <1>6, <2>2, <2>3 DEF LoggedAt, PCs
  <2>4. CASE pc' = [pc EXCEPT ![r] = "finish_tool"] /\ calls' = [calls EXCEPT ![r] = Append(@, outcome)]
    <3>1. Len(calls'[r]) = c + 1 /\ pc'[r] = "finish_tool" /\ steps'[r] = log
      BY <1>0, <1>0a, <2>2, <2>4
    <3>2. LoggedAt("finish_tool", m, log, c + 1, text, llmEnabled)
      BY <2>2 DEF LoggedAt
    <3>3. Logged(r)'
      BY <1>1, <2>2, <3>1, <3>2 DEF Logged
    <3> QED
      BY <1>5, <2>2, <3>3
  <2> QED
    BY <2>1, <2>3, <2>4
<1>15. CASE FinishTool(r)
  <2>1. log = ToolSteps(c) /\ pc[r] = "finish_tool"
    BY <1>2, <1>15 DEF FinishTool, LoggedAt
  <2>2. AfterTool(r) \in PCs /\ AfterTool(r) = IF c = 3 THEN "build" ELSE "prepare"
    BY ThreeTools DEF AfterTool, PCs
  <2>3. LoggedAt(AfterTool(r), m, log, c, text, llmEnabled)
    BY <2>1, <2>2 DEF LoggedAt
  <2> QED
    BY <1>6, <1>15, <2>1, <2>2, <2>3 DEF FinishTool, AtWork, work, database
<1>16. CASE BuildArtifact(r)
  <2>1. /\ pc[r] = "build" /\ log = ToolSteps(3) /\ m # "run"
        /\ UNCHANGED <<steps, calls, status>>
    BY <1>0, <1>2, <1>16 DEF BuildArtifact, LoggedAt, Told, database
  <2>2. PICK p \in {"failing", "open_llm", "finish"} :
          pc' = [pc EXCEPT ![r] = p] /\ (p = "finish" => ~ llmEnabled)
    BY <1>16 DEF BuildArtifact
  <2>3. LoggedAt(p, m, log, c, summary'[r], llmEnabled)
    BY <2>1, <2>2 DEF LoggedAt, Summarised
  <2>4. Logged(r)'
    BY <1>0, <1>1, <2>1, <2>2, <2>3 DEF Logged
  <2> QED
    BY <1>5, <2>1, <2>4 DEF AtWork
<1>17. CASE EndLLMStream(r)
  <2>1. PICK name \in {"llm_summary", "llm_fallback"}, new \in {"llm", "fallback"} :
          /\ name = "llm_fallback" => new = "fallback"
          /\ RecordStep(r, name, "finish")
          /\ summary' = IF pc'[r] = "finish" THEN [summary EXCEPT ![r] = new] ELSE summary
    BY <1>17 DEF EndLLMStream
  <2>2. /\ pc[r] = "llm" /\ log = ToolSteps(3) /\ m # "run" /\ m = "stream" /\ llmEnabled
        /\ UNCHANGED <<calls, status>>
    BY <1>0, <1>2, <1>17, <2>1 DEF EndLLMStream, RecordStep, LoggedAt, Told, Follows, FollowsAt, Spoken
  <2>3. CASE pc' = [pc EXCEPT ![r] = "failing"]
    <3>1. pc'[r] = "failing"
      BY <1>0, <2>3
    <3>2. Logged(r)'
      BY <3>1 DEF Logged, LoggedAt
    <3> QED
      BY <1>5, <2>2, <3>2 DEF AtWork
  <2>4. CASE pc' = [pc EXCEPT ![r] = "finish"] /\ steps' = [steps EXCEPT ![r] = Append(@, name)]
    <3>1. pc'[r] = "finish" /\ steps'[r] = Append(log, name) /\ summary'[r] = new
      BY <1>0, <2>1, <2>4
    <3>2. Append(log, name) = ToolSteps(3) \o <<name>>
      BY <2>2, StepsOfTools DEF StepNames
    <3>3. Summarised(steps'[r], summary'[r], llmEnabled)
      BY <2>1, <2>2, <3>1, <3>2 DEF Summarised
    <3>4. Logged(r)'
      BY <1>1, <2>2, <3>1, <3>3 DEF Logged, LoggedAt
    <3> QED
      BY <1>5, <2>2, <3>4 DEF AtWork
  <2> QED
    BY <2>1, <2>3, <2>4 DEF RecordStep, Applied, Raises
<1>18. CASE RunKaliAgent(r)
  <2>1. /\ pc[r] = "kali" /\ log = <<>> /\ m # "stream"
        /\ UNCHANGED <<steps, calls, status>>
    BY <1>0, <1>2, <1>18 DEF RunKaliAgent, LoggedAt, Told, database
  <2>2. PICK p \in {"failing", "finish"} : pc' = [pc EXCEPT ![r] = p]
    BY <1>18 DEF RunKaliAgent
  <2>3. LoggedAt(p, m, log, c, summary'[r], llmEnabled)
    BY <2>1, <2>2 DEF LoggedAt
  <2>4. Logged(r)'
    BY <1>0, <1>1, <2>1, <2>2, <2>3 DEF Logged
  <2> QED
    BY <1>5, <2>1, <2>4 DEF AtWork
<1>19. CASE FinishRun(r)
  <2>1. pc'[r] \in {"failing", "finalize"} /\ UNCHANGED summary /\ pc[r] = "finish"
    BY <1>0, <1>19 DEF FinishRun, work
  <2>2. Logged(r)'
    BY <2>1 DEF Logged, LoggedAt
  <2>3. CASE UNCHANGED status
    BY <1>5, <2>1, <2>2, <2>3 DEF AtWork
  <2>4. CASE steps' = [steps EXCEPT ![r] = Append(@, "artifact")]
    <3>1. steps'[r] = Append(log, "artifact")
      BY <1>0, <2>4
    <3>2. CASE m = "run"
      <4>1. log = <<>>
        BY <1>2, <2>1, <3>2 DEF LoggedAt
      <4>2. Append(<<>>, "artifact") = <<"artifact">>
        OBVIOUS
      <4>3. ToldBy(m, steps'[r], text, llmEnabled)
        BY <3>1, <3>2, <4>1, <4>2 DEF ToldBy
      <4> QED
        BY <1>1, <2>1, <2>2, <4>3 DEF Story
    <3>3. CASE m = "stream"
      <4>1. Summarised(log, text, llmEnabled)
        BY <1>2, <2>1, <3>3 DEF LoggedAt
      <4>2. ToldBy(m, Append(log, "artifact"), text, llmEnabled)
        <5>1. CASE llmEnabled
          <6>1. PICK name \in {"llm_summary", "llm_fallback"} :
                  log = ToolSteps(3) \o <<name>> /\ (text = "llm" => name = "llm_summary")
            BY <4>1, <5>1 DEF Summarised
          <6>2. Append(log, "artifact") = ToolSteps(3) \o <<name, "artifact">>
            BY <6>1, StepsOfTools DEF StepNames
          <6> QED
            BY <3>3, <5>1, <6>1, <6>2 DEF ToldBy
        <5>2. CASE ~ llmEnabled
          <6>1. Append(log, "artifact") = ToolSteps(3) \o <<"artifact">>
            BY <4>1, <5>2, StepsOfTools DEF Summarised, StepNames
          <6> QED
            BY <3>3, <5>2, <6>1 DEF ToldBy
        <5> QED
          BY <5>1, <5>2
      <4> QED
        BY <1>1, <2>1, <2>2, <3>1, <4>2 DEF Story
    <3> QED
      BY <1>0, <3>2, <3>3
  <2> QED
    BY <1>19, <2>3, <2>4 DEF FinishRun, SetStatus
<1>20. CASE Conclude(r) \/ ReportError(r)
  BY <1>0, <1>8, <1>20 DEF Conclude, ReportError, work, database
<1>21. CASE MarkFailed(r)
  BY <1>0, <1>8, <1>21 DEF MarkFailed, SetStatus, work
<1> QED
  BY <1>9, <1>10, <1>11, <1>12, <1>13, <1>14, <1>15, <1>16, <1>17, <1>18, <1>19, <1>20, <1>21 DEF RunStep

\* Every step of a request keeps the artifact's account in line with the audit trail.
LEMMA StepTrail ==
  ASSUME Typed, NEW r \in Runs, RunStep(r), Trail(r)
  PROVE  Trail(r)'
<1>0. /\ pc \in [Runs -> PCs] /\ sent \in [Runs -> Seq(Messages)] /\ sent[r] \in Seq(Messages)
      /\ calls \in [Runs -> Accounts] /\ audit \in [Runs -> Seq(Outcomes)]
  BY DEF Typed, TypeOK, Accounts
<1> DEFINE told == calls[r]
           kept == audit[r]
           n == Count(sent[r], "tool_finished")
<1>1. TrailAt(pc[r], told, kept, n) /\ n \in Nat /\ Len(told) \in Nat
  <2>1. n \in Nat
    <3>1. "token" \in Messages
      BY DEF Messages
    <3> QED
      BY <1>0, <3>1, CountAppend
  <2>2. TrailAt(pc[r], told, kept, n)
    BY DEF Trail
  <2>3. told \in Seq(Outcomes)
    BY <2>2 DEF TrailAt
  <2> QED
    BY <2>1, <2>2, <2>3
<1>2. ASSUME NEW m \in Messages, sent' = [sent EXCEPT ![r] = Append(@, m)]
      PROVE  Count(sent'[r], "tool_finished") = IF m = "tool_finished" THEN n + 1 ELSE n
  <2>1. sent'[r] = Append(sent[r], m)
    BY <1>0, <1>2
  <2>2. Count(Append(sent[r], m), "tool_finished") = IF m = "tool_finished" THEN n + 1 ELSE n
    BY <1>0, CountAppend
  <2> QED
    BY <2>1, <2>2
<1> HIDE DEF n
<1>3. ASSUME NEW p \in PCs, pc' = [pc EXCEPT ![r] = p], UNCHANGED <<calls, audit>>,
             TrailAt(p, told, kept, Count(sent'[r], "tool_finished"))
      PROVE  Trail(r)'
  BY <1>0, <1>3 DEF Trail
<1> USE DEF Goto, Tell, OnError
<1>4. CASE FinishTool(r)
  <2>1. pc[r] = "finish_tool" /\ n < Len(told) /\ kept = told /\ told \in Seq(Outcomes)
    BY <1>1, <1>4 DEF FinishTool, TrailAt, EndedPCs
  <2>2. Count(sent'[r], "tool_finished") = n + 1
    BY <1>2, <1>4 DEF FinishTool, Messages
  <2>3. AfterTool(r) \in {"build", "prepare"}
    BY DEF AfterTool
  <2>4. TrailAt(AfterTool(r), told, kept, n + 1)
    BY <1>1, <2>1, <2>3 DEF TrailAt
  <2> QED
    BY <1>3, <1>4, <2>2, <2>3, <2>4 DEF FinishTool, work, database, PCs
<1>5. CASE CallTool(r)
  <2>1. pc[r] = "call" /\ kept = told /\ told \in Seq(Outcomes) /\ n <= Len(told) /\ sent' = sent
    BY <1>1, <1>5 DEF CallTool, TrailAt, EndedPCs
  <2>2. PICK outcome \in Outcomes, o \in TxOutcomes :
          /\ audit' = IF Applied(o) THEN [audit EXCEPT ![r] = Append(@, outcome)] ELSE audit
          /\ IF Raises(o)
             THEN Goto(r, OnError) /\ UNCHANGED calls
             ELSE Goto(r, "finish_tool") /\ calls' = [calls EXCEPT ![r] = Append(@, outcome)]
    BY <1>5 DEF CallTool
  <2>3. Append(told, outcome) \in Seq(Outcomes) /\ Len(Append(told, outcome)) = Len(told) + 1
    BY <2>1
  <2>4. CASE Raises(o)
    <3>1. pc'[r] = "failing" /\ calls'[r] = told /\ audit'[r] \in {kept, Append(kept, outcome)}
      BY <1>0, <2>2, <2>4
    <3>2. TrailAt("failing", told, audit'[r], n)
      BY <2>1, <3>1 DEF TrailAt
    <3> QED
      BY <2>1, <3>1, <3>2 DEF Trail, n
  <2>5. CASE ~ Raises(o)
    <3>1. pc'[r] = "finish_tool" /\ calls'[r] = Append(told, outcome) /\ audit'[r] = Append(kept, outcome)
      BY <1>0, <2>2, <2>5 DEF Applied, Raises
    <3>2. TrailAt("finish_tool", Append(told, outcome), Append(kept, outcome), n)
      BY <1>1, <2>1, <2>3 DEF TrailAt
    <3> QED
      BY <2>1, <3>1, <3>2 DEF Trail, n
  <2> QED
    BY <2>4, <2>5
<1>6. CASE AnnounceRun(r) \/ OpenStep(r) \/ StartTool(r) \/ OpenLLM(r) \/ StreamToken(r) \/ Conclude(r) \/ ReportError(r)
  <2>1. PICK m \in Messages \ {"tool_finished"}, p \in {"open", "route", "call", "llm", "done"} :
          /\ sent' = [sent EXCEPT ![r] = Append(@, m)] /\ pc' = [pc EXCEPT ![r] = p]
          /\ pc[r] \in {"announce", "open", "start_tool", "open_llm", "llm", "finalize"} \/ p = "done"
          /\ UNCHANGED <<calls, audit>>
    <3>1. CASE AnnounceRun(r) \/ OpenStep(r) \/ StartTool(r) \/ OpenLLM(r) \/ StreamToken(r)
      BY <3>1 DEF AnnounceRun, OpenStep, StartTool, OpenLLM, StreamToken, Messages, work, database
    <3>2. CASE Conclude(r) \/ ReportError(r)
      <4>1. PICK m \in {"final", "response", "error"} : sent' = [sent EXCEPT ![r] = Append(@, m)]
        BY <3>2 DEF Conclude, ReportError
      <4>2. pc' = [pc EXCEPT ![r] = "done"] /\ UNCHANGED <<calls, audit>>
        BY <3>2 DEF Conclude, ReportError, work, database
      <4>3. m \in Messages \ {"tool_finished"}
        BY DEF Messages
      <4> QED
        BY <4>1, <4>2, <4>3
    <3> QED
      BY <1>6, <3>1, <3>2
  <2>2. Count(sent'[r], "tool_finished") = n
    BY <1>2, <2>1
  <2>3. TrailAt(p, told, kept, n)
    BY <1>1, <2>1 DEF TrailAt, EndedPCs
  <2> QED
    BY <1>3, <2>1, <2>2, <2>3 DEF PCs
<1>7. CASE StartRun(r) \/ RouteFoodCost(r) \/ PrepareCall(r) \/ BuildArtifact(r) \/ EndLLMStream(r) \/ RunKaliAgent(r)
           \/ FinishRun(r) \/ MarkFailed(r)
  <2>1. PICK p \in PCs \ {"finish_tool"} :
          /\ pc' = [pc EXCEPT ![r] = p] /\ UNCHANGED <<sent, calls, audit>>
          /\ pc[r] \notin EndedPCs \cup {"failing", "report"} \/ pc[r] = "idle" \/ p \in {"report", "broken"}
    <3>1. CASE StartRun(r)
      BY <3>1 DEF StartRun, PCs, work
    <3>2. CASE RouteFoodCost(r) \/ PrepareCall(r)
      BY <3>2 DEF RouteFoodCost, PrepareCall, RecordStep, PCs, work, EndedPCs
    <3>3. CASE BuildArtifact(r) \/ RunKaliAgent(r)
      BY <3>3 DEF BuildArtifact, RunKaliAgent, PCs, database, EndedPCs
    <3>4. CASE EndLLMStream(r)
      BY <3>4 DEF EndLLMStream, RecordStep, PCs, EndedPCs
    <3>5. CASE FinishRun(r)
      BY <3>5 DEF FinishRun, PCs, work, EndedPCs
    <3>6. CASE MarkFailed(r)
      BY <3>6 DEF MarkFailed, PCs, work, EndedPCs
    <3> QED
      BY <1>7, <3>1, <3>2, <3>3, <3>4, <3>5, <3>6
  <2>2. sent'[r] = sent[r]
    BY <2>1
  <2>3. TrailAt(p, told, kept, n)
    BY <1>1, <2>1 DEF TrailAt, EndedPCs
  <2> QED
    BY <1>3, <2>1, <2>2, <2>3 DEF n
<1> QED
  BY <1>4, <1>5, <1>6, <1>7 DEF RunStep

LEMMA InitAccounts == Init => AccountsInv
<1> SUFFICES ASSUME Init, NEW r \in Runs PROVE Accounted(r)
  BY DEF AccountsInv
<1>1. /\ pc[r] = "idle" /\ sent[r] = <<>> /\ calls[r] = <<>> /\ steps[r] = <<>> /\ audit[r] = <<>>
      /\ status[r] = "none"
  BY DEF Init
<1>2. Len(<<>>) = 0 /\ \A S : <<>> \in Seq(S)
  OBVIOUS
<1>3. ~ Has(r, "final") /\ ~ Has(r, "error")
  BY <1>1, <1>2 DEF Has
<1>4. Follows(r)
  BY <1>1, <1>2 DEF Follows, FollowsAt, OnScript
<1>5. Count(<<>>, "tool_finished") = 0
  <2>1. {i \in 1..Len(<<>>) : <<>>[i] = "tool_finished"} = {}
    BY <1>2
  <2> QED
    BY <2>1, FS_EmptySet DEF Count
<1>6. Trail(r)
  BY <1>1, <1>2, <1>5 DEF Trail, TrailAt
<1> QED
  BY <1>1, <1>3, <1>4, <1>6 DEF Accounted, ClosedOnScript, Logged, LoggedAt, Story

\* What keeps the accounts of a run: nothing of them changes but its place, for one
\* where nobody works on it any more.
LEMMA AccountsKept ==
  ASSUME NEW x \in Runs, Accounted(x),
         /\ llmEnabled' = llmEnabled /\ mode'[x] = mode[x] /\ sent'[x] = sent[x] /\ calls'[x] = calls[x]
         /\ summary'[x] = summary[x] /\ steps'[x] = steps[x] /\ audit'[x] = audit[x] /\ status'[x] = status[x],
         pc'[x] = pc[x] \/ pc'[x] \in {"gone", "dead"}
  PROVE  Accounted(x)'
<1>1. Spoken' = Spoken
  BY DEF Spoken
<1>2. mode[x] = "stream" => Follows(x)'
  BY <1>1 DEF Accounted, Follows, FollowsAt
<1>3. ClosedOnScript(x)'
  BY DEF Accounted, ClosedOnScript, Has, Script
<1>4. Logged(x)'
  BY DEF Accounted, Logged, LoggedAt
<1>5. Story(x)'
  BY DEF Accounted, Story
<1>6. Trail(x)'
  BY DEF Accounted, Trail, TrailAt
<1> QED
  BY <1>2, <1>3, <1>4, <1>5, <1>6 DEF Accounted

LEMMA StepAccounts == Typed /\ Inv /\ AccountsInv /\ [Next]_vars => AccountsInv'
<1> SUFFICES ASSUME Typed, Inv, AccountsInv, [Next]_vars, NEW x \in Runs
             PROVE  Accounted(x)'
  BY DEF AccountsInv
<1>1. Accounted(x) /\ pc \in [Runs -> PCs]
  BY DEF AccountsInv, Typed, TypeOK
<1>2. CASE UNCHANGED vars
  BY <1>1, <1>2, AccountsKept DEF vars, config, work, database
<1>3. ASSUME NEW r \in Runs, RunStep(r) PROVE Accounted(x)'
  <2>1. CASE x = r
    <3>1. mode' = mode
      BY <1>3 DEF RunStep, StartRun, AnnounceRun, OpenStep, RouteFoodCost, PrepareCall, StartTool, CallTool,
         FinishTool, BuildArtifact, OpenLLM, StreamToken, EndLLMStream, RunKaliAgent, FinishRun, Conclude,
         MarkFailed, ReportError, config
    <3>2. mode[r] = "stream" => Follows(r)'
      BY <1>1, <1>3, <2>1, StepFollows DEF Accounted
    <3>3. ClosedOnScript(r)'
      BY <1>1, <1>3, <2>1, StepCloses DEF Accounted
    <3>4. Logged(r)' /\ Story(r)'
      BY <1>1, <1>3, <2>1, StepLogged DEF Accounted
    <3>5. Trail(r)'
      BY <1>1, <1>3, <2>1, StepTrail DEF Accounted
    <3> QED
      BY <2>1, <3>1, <3>2, <3>3, <3>4, <3>5 DEF Accounted
  <2>2. CASE x # r
    <3>1. x \in Runs \ {r}
      BY <2>2
    <3> QED
      BY <1>1, <1>3, <3>1, StepIsLocal, AccountsAreLocal, AccountsKept
  <2> QED
    BY <2>1, <2>2
<1>4. CASE Crash \/ \E r \in Runs : Disconnect(r)
  <2>1. /\ UNCHANGED <<config, sent, work, database>>
        /\ pc'[x] = pc[x] \/ pc'[x] \in {"gone", "dead"}
    BY <1>1, <1>4 DEF Crash, Disconnect, Goto
  <2> QED
    BY <1>1, <2>1, AccountsKept DEF config, work, database
<1> QED
  BY <1>2, <1>3, <1>4 DEF Next

LEMMA AccountsHold == Spec => [](Typed /\ Inv /\ AccountsInv)
<1>1. Typed /\ Typed' /\ Inv /\ AccountsInv /\ [Next]_vars => AccountsInv'
  BY StepAccounts
<1> QED
  BY <1>1, InitAccounts, Invariance, PTL DEF Spec

\* A stream that closes with final has said its whole script, every required tool
\* started and finished once, in order, before any token; one that closes with error
\* has said the beginning of it.
THEOREM StreamsFollowScript == Spec => []StreamFollowsScript
<1>1. AccountsInv => StreamFollowsScript
  BY DEF AccountsInv, Accounted, ClosedOnScript, StreamFollowsScript
<1> QED
  BY <1>1, AccountsHold, PTL

\* The step log of a completed run tells what it did, fallback and all, whatever
\* commits were lost on the way.
THEOREM StepLogsTellStory == Spec => []StepLogTellsStory
<1>1. AccountsInv => StepLogTellsStory
  <2> SUFFICES ASSUME AccountsInv, NEW r \in Runs, status[r] = "completed"
               PROVE  IF mode[r] = "run" THEN steps[r] = <<"artifact">>
                      ELSE IF llmEnabled
                           THEN \E name \in {"llm_summary", "llm_fallback"} :
                                  /\ steps[r] = ToolSteps(3) \o <<name, "artifact">>
                                  /\ summary[r] = "llm" => name = "llm_summary"
                           ELSE steps[r] = ToolSteps(3) \o <<"artifact">>
    BY ThreeTools DEF StepLogTellsStory, ToolSteps
  <2> QED
    BY DEF AccountsInv, Accounted, Story, ToldBy
<1> QED
  BY <1>1, AccountsHold, PTL

\* What the artifact says of its tools is what the audit trail has, which is ahead
\* of it by at most the one call whose commit was not acknowledged.
THEOREM AuditsMatchArtifact == Spec => []AuditMatchesArtifact
<1>1. Typed /\ AccountsInv => AuditMatchesArtifact
  <2> SUFFICES ASSUME Typed, AccountsInv, NEW r \in Runs
               PROVE  /\ Len(calls[r]) <= Len(audit[r]) /\ Len(audit[r]) <= Len(calls[r]) + 1
                      /\ calls[r] = SubSeq(audit[r], 1, Len(calls[r]))
                      /\ Count(sent[r], "tool_finished") <= Len(audit[r])
    BY DEF AuditMatchesArtifact
  <2> DEFINE told == calls[r]
             kept == audit[r]
             n == Count(sent[r], "tool_finished")
  <2>1. /\ told \in Seq(Outcomes) /\ n <= Len(told)
        /\ kept = told \/ \E outcome \in Outcomes : kept = Append(told, outcome)
    BY DEF AccountsInv, Accounted, Trail, TrailAt
  <2>2. n \in Nat
    <3>1. sent[r] \in Seq(Messages) /\ "token" \in Messages
      BY DEF Typed, TypeOK, Messages
    <3> QED
      BY <3>1, CountAppend
  <2> HIDE DEF told, kept, n
  <2>3. /\ kept \in Seq(Outcomes) /\ Len(told) \in Nat /\ Len(kept) \in {Len(told), Len(told) + 1}
        /\ \A i \in 1..Len(told) : kept[i] = told[i]
    <3>1. CASE kept = told
      BY <2>1, <3>1
    <3>2. ASSUME NEW outcome \in Outcomes, kept = Append(told, outcome)
          PROVE  Len(kept) = Len(told) + 1 /\ kept \in Seq(Outcomes) /\ \A i \in 1..Len(told) : kept[i] = told[i]
      BY <2>1, <3>2
    <3> QED
      BY <2>1, <3>1, <3>2
  <2> DEFINE begun == SubSeq(kept, 1, Len(told))
  <2>4. begun \in Seq(Outcomes) /\ Len(begun) = Len(told) /\ \A i \in 1..Len(told) : begun[i] = kept[i]
    BY <2>3
  <2> HIDE DEF begun
  <2>5. told = begun
    BY <2>1, <2>3, <2>4, SeqEqual
  <2> QED
    BY <2>1, <2>2, <2>3, <2>5 DEF told, kept, n, begun
<1> QED
  BY <1>1, AccountsHold, PTL

-----------------------------------------------------------------------------
(* FoodCostRun implements RunContract.                                     *)

LEMMA HeardUnchanged == UNCHANGED sent => UNCHANGED heard
  BY DEF heard

LEMMA AppendAsFunction ==
  ASSUME NEW S, NEW u \in Seq(S), NEW c
  PROVE  Append(u, c) = [i \in 1..Len(u) + 1 |-> IF i = Len(u) + 1 THEN c ELSE u[i]]
<1> DEFINE f == [i \in 1..Len(u) + 1 |-> IF i = Len(u) + 1 THEN c ELSE u[i]]
<1>1. u \in Seq(S \cup {c}) /\ c \in S \cup {c}
  OBVIOUS
<1>2. f \in Seq(S \cup {c}) /\ Len(f) = Len(u) + 1
  OBVIOUS
<1>3. \A i \in 1..Len(u) + 1 : Append(u, c)[i] = f[i]
  BY <1>1, AppendProperties
<1>4. Append(u, c) \in Seq(S \cup {c}) /\ Len(Append(u, c)) = Len(u) + 1
  BY <1>1, AppendProperties
<1> HIDE DEF f
<1>5. Append(u, c) = f
  BY <1>2, <1>3, <1>4, SeqEqual
<1> QED
  BY <1>5 DEF f

\* The mapped stream grows by the class of the message that was sent.
LEMMA HeardAppend ==
  ASSUME Typed, NEW r \in Runs, NEW m \in Messages,
         sent' = [sent EXCEPT ![r] = Append(@, m)]
  PROVE  heard' = [heard EXCEPT ![r] = Append(@, MessageClass(m))]
<1> DEFINE Mapped(s) == [i \in 1..Len(s) |-> MessageClass(s[i])]
<1>1. sent \in [Runs -> Seq(Messages)] /\ sent[r] \in Seq(Messages)
  BY DEF Typed, TypeOK
<1>2. Mapped(Append(sent[r], m)) = Append(Mapped(sent[r]), MessageClass(m))
  <2> HIDE DEF Mapped
  <2> DEFINE s == sent[r]
             t == Append(s, m)
  <2>1. Len(s) \in Nat /\ Len(t) = Len(s) + 1 /\ t[Len(s) + 1] = m /\ \A i \in 1..Len(s) : t[i] = s[i]
    BY <1>1
  <2> HIDE DEF s, t
  <2>2. Mapped(s) = [i \in 1..Len(s) |-> MessageClass(s[i])]
    BY DEF Mapped
  <2>3. Mapped(t) = [i \in 1..Len(s) + 1 |-> MessageClass(t[i])]
    BY <2>1 DEF Mapped
  <2>4. Len(Mapped(s)) = Len(s) /\ Mapped(s) \in Seq({MessageClass(x) : x \in Messages} \cup {MessageClass(s[i]) : i \in 1..Len(s)})
    BY <2>1, <2>2
  <2>5. Append(Mapped(s), MessageClass(m)) =
          [i \in 1..Len(s) + 1 |-> IF i = Len(s) + 1 THEN MessageClass(m) ELSE Mapped(s)[i]]
    BY <2>4, AppendAsFunction
  <2>6. ASSUME NEW i \in 1..Len(s) + 1
        PROVE  MessageClass(t[i]) = IF i = Len(s) + 1 THEN MessageClass(m) ELSE Mapped(s)[i]
    <3>1. CASE i = Len(s) + 1
      BY <3>1, <2>1
    <3>2. CASE i \in 1..Len(s)
      BY <3>2, <2>1, <2>2
    <3> QED
      BY <2>1, <3>1, <3>2
  <2> QED
    BY <2>3, <2>5, <2>6 DEF s, t
<1>3. heard' = [x \in Runs |-> Mapped(sent'[x])] /\ heard = [x \in Runs |-> Mapped(sent[x])]
  BY DEF heard
<1> HIDE DEF Mapped
<1> QED
  BY <1>1, <1>2, <1>3

\* What the guards of the contract say, in terms of the messages sent.
LEMMA HeardGuards ==
  ASSUME Typed, Inv, NEW r \in Runs
  PROVE  /\ heard[r] = <<>> <=> sent[r] = <<>>
         /\ pc[r] # "done" => ~Contract!Closed(r)
<1>1. sent[r] \in Seq(Messages) /\ Len(sent[r]) \in Nat
  BY DEF Typed, TypeOK
<1>2. heard[r] = [i \in 1..Len(sent[r]) |-> MessageClass(sent[r][i])]
  BY DEF heard
<1>3. Len(heard[r]) = Len(sent[r])
  BY <1>1, <1>2
<1>4. heard[r] = <<>> <=> sent[r] = <<>>
  <2>1. heard[r] = <<>> <=> Len(heard[r]) = 0
    BY <1>1, <1>2
  <2> QED
    BY <1>1, <1>3, <2>1
<1>5. ASSUME pc[r] # "done" PROVE ~Contract!Closed(r)
  <2> SUFFICES ASSUME NEW i \in 1..Len(heard[r]), heard[r][i] \in Contract!Closing
               PROVE  FALSE
    BY DEF Contract!Closed
  <2>1. MessageClass(sent[r][i]) \in {"final", "error", "response"}
    BY <1>2, <1>3 DEF Contract!Closing
  <2>2. sent[r][i] \in {"final", "error", "response"}
    BY <2>1 DEF MessageClass
  <2>3. Has(r, "final") \/ Has(r, "error") \/ Has(r, "response")
    BY <1>3, <2>2 DEF Has
  <2> QED
    BY <1>5, <2>3 DEF Inv, Linked, Closing, Has
<1> QED
  BY <1>4, <1>5

\* Every step of the workflow is a step of the contract or invisible to it.
LEMMA StepRefines ==
  ASSUME Typed, Typed', Inv, [Next]_vars
  PROVE  [Contract!Next]_(Contract!vars)
<1> USE DEF Contract!Next, Contract!SetStatus, Contract!Tell
<1>1. CASE UNCHANGED <<status, sent>>
  BY <1>1, HeardUnchanged DEF Contract!vars
<1>2. ASSUME NEW r \in Runs, RunStep(r)
      PROVE  [Contract!Next]_(Contract!vars)
  <2> USE HeardAppend, HeardGuards DEF Goto, Tell, work, database, MessageClass, Messages, Progress
  <2>0. /\ Linked(r) /\ mode[r] \in {"run", "stream"}
        /\ status \in [Runs -> {"none", "running", "completed", "failed"}]
    BY DEF Inv, Typed, TypeOK
  <2>1. CASE StartRun(r)
    <3>1. status[r] = "none" /\ UNCHANGED heard
      BY <2>0, <2>1, HeardUnchanged DEF StartRun, Linked, Stored
    <3>2. UNCHANGED status \/ status' = [status EXCEPT ![r] = "running"]
      BY <2>1 DEF StartRun, SetStatus
    <3> QED
      BY <3>1, <3>2 DEF Contract!vars, Contract!Begin
  <2>2. CASE AnnounceRun(r)
    <3>1. heard' = [heard EXCEPT ![r] = Append(@, "run_started")]
      BY <2>2 DEF AnnounceRun
    <3>2. status[r] = "running" /\ heard[r] = <<>> /\ UNCHANGED status
      BY <2>0, <2>2 DEF AnnounceRun, Linked, Stored, Told, AtWork
    <3> QED
      BY <3>1, <3>2 DEF Contract!Announce
  <2>3. CASE OpenStep(r) \/ StartTool(r) \/ FinishTool(r) \/ OpenLLM(r) \/ StreamToken(r)
    <3>1. PICK m \in Progress : sent' = [sent EXCEPT ![r] = Append(@, m)]
      BY <2>3 DEF OpenStep, StartTool, FinishTool, OpenLLM, StreamToken
    <3>2. heard' = [heard EXCEPT ![r] = Append(@, "progress")]
      BY <3>1
    <3>3. pc[r] \in {"open", "start_tool", "finish_tool", "open_llm", "llm"} /\ UNCHANGED status
      BY <2>3 DEF OpenStep, StartTool, FinishTool, OpenLLM, StreamToken
    <3>4. heard[r] # <<>> /\ ~Contract!Closed(r)
      BY <2>0, <3>3 DEF Linked, Told, AtWork
    <3> QED
      BY <3>2, <3>3, <3>4 DEF Contract!Progress
  <2>4. CASE Conclude(r)
    <3>1. status[r] = "completed" /\ ~Contract!Closed(r) /\ UNCHANGED status
      BY <2>0, <2>4 DEF Conclude, Linked, Stored
    <3>2. CASE mode[r] = "stream"
      <4>1. heard' = [heard EXCEPT ![r] = Append(@, "final")] /\ heard[r] # <<>>
        BY <2>0, <2>4, <3>2 DEF Conclude, Linked, Told
      <4> QED
        BY <3>1, <4>1 DEF Contract!Final
    <3>3. CASE mode[r] = "run"
      <4>1. heard' = [heard EXCEPT ![r] = Append(@, "response")] /\ heard[r] = <<>>
        BY <2>0, <2>4, <3>3 DEF Conclude, Linked, Told
      <4> QED
        BY <3>1, <4>1 DEF Contract!Respond
    <3> QED
      BY <2>0, <3>2, <3>3
  <2>5. CASE FinishRun(r)
    <3>1. status[r] = "running" /\ UNCHANGED heard
      BY <2>0, <2>5, HeardUnchanged DEF FinishRun, Linked, Stored, AtWork
    <3>2. UNCHANGED status \/ status' = [status EXCEPT ![r] = "completed"]
      BY <2>5 DEF FinishRun, SetStatus
    <3> QED
      BY <3>1, <3>2 DEF Contract!vars, Contract!Complete
  <2>6. CASE MarkFailed(r)
    <3>1. status[r] \in {"running", "completed"} /\ ~Contract!Closed(r) /\ UNCHANGED heard
      BY <2>0, <2>6, HeardUnchanged DEF MarkFailed, Linked, Stored
    <3>2. UNCHANGED status \/ status' = [status EXCEPT ![r] = "failed"]
      BY <2>6 DEF MarkFailed, SetStatus
    <3> QED
      BY <3>1, <3>2 DEF Contract!vars, Contract!Fail
  <2>7. CASE ReportError(r)
    <3>1. status[r] = "failed" /\ ~Contract!Closed(r) /\ heard[r] # <<>> /\ UNCHANGED status
      BY <2>0, <2>7 DEF ReportError, Linked, Stored, Told
    <3>2. heard' = [heard EXCEPT ![r] = Append(@, "error")]
      BY <2>7 DEF ReportError
    <3> QED
      BY <3>1, <3>2 DEF Contract!Error
  <2>8. CASE RouteFoodCost(r) \/ PrepareCall(r) \/ CallTool(r) \/ BuildArtifact(r)
             \/ EndLLMStream(r) \/ RunKaliAgent(r)
    BY <2>8, <1>1 DEF RouteFoodCost, PrepareCall, CallTool, BuildArtifact, EndLLMStream,
       RunKaliAgent, RecordStep
  <2> QED
    BY <1>2, <2>1, <2>2, <2>3, <2>4, <2>5, <2>6, <2>7, <2>8 DEF RunStep
<1>3. CASE Crash \/ \E r \in Runs : Disconnect(r)
  BY <1>3, <1>1 DEF Crash, Disconnect, database
<1>4. CASE UNCHANGED vars
  BY <1>4, <1>1 DEF vars, database
<1> QED
  BY <1>2, <1>3, <1>4 DEF Next

\* The JSON and the stream endpoint of the workflow both keep the contract of a run.
THEOREM Refinement == Spec => ImplementsContract
<1>1. Init => Contract!Init
  BY DEF Init, Contract!Init, heard
<1>2. Typed /\ Typed' /\ Inv /\ [Next]_vars => [Contract!Next]_(Contract!vars)
  BY StepRefines
<1> QED
  BY <1>1, <1>2, Invariance, StepTyped, PTL DEF Spec, ImplementsContract, Contract!Spec
=============================================================================
