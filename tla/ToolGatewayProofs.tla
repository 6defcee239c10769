------------------------- MODULE ToolGatewayProofs -------------------------
(***************************************************************************)
(* Theorems about ToolGateway, for every set of calls, runs and keys and   *)
(* every pool size.                                                        *)
(*                                                                         *)
(* What holds of a pair of calls (their key, their run) follows from who   *)
(* owns what: an open transaction owns its key from the INSERT on and the  *)
(* row of its run from the UPDATE on, and a lost one owns nothing.  Inv    *)
(* says that nothing is owned twice, and that ownership and committed rows *)
(* exclude each other.                                                     *)
(***************************************************************************)
EXTENDS ToolGateway, FiniteSetTheorems, TLAPS

\* Only between its INSERT and its end a call has a row in its transaction, and it has
\* committed none before it ends.
RowWhileExecuting ==
  \A c \in Calls :
    /\ draft[c] \in {"none", "running"}
    /\ pc[c] \notin Drafted => draft[c] = "none"
    /\ pc[c] \notin Ended \ {"idle"} => audit[c] = "none"

\* Two open transactions never own the same key, and none owns a key that a
\* committed row has.
KeyExclusive ==
  \A c, d \in Calls : c # d /\ SameKey(c, d) /\ draft[c] # "none" =>
    draft[d] = "none" /\ audit[d] = "none"

\* Two open transactions never lock the row of the same run.
RunExclusive ==
  \A c, d \in Calls : c # d /\ LocksRun(c) /\ LocksRun(d) => runOf[c] # runOf[d]

\* A process is under way or over only for a call that launched it, and a call that
\* reads or records a result has launched one.
ProcessLaunched ==
  \A c \in Calls :
    /\ pc[c] \in {"idle", "acquire", "touch_run", "insert", "launch"} => process[c] = "none"
    /\ pc[c] \in {"cli", "record_success"} => process[c] # "none"

Inv == /\ TypeOK /\ AuditMatchesAnswer
       /\ RowWhileExecuting /\ KeyExclusive /\ RunExclusive /\ ProcessLaunched

LEMMA InitInv == Init => Inv
  BY DEF Init, Inv, TypeOK, AuditMatchesAnswer, RowWhileExecuting, KeyExclusive, RunExclusive,
     ProcessLaunched, PCs, RowStatus, InTx, Ended, Drafted, LocksRun, SameKey

\* All a step of one call c can change of the others' state is nothing, and of its
\* own is one of these.
StepOf(c) ==
  /\ UNCHANGED request
  /\ \E next \in PCs : pc' = [pc EXCEPT ![c] = next]
  /\ \E row \in RowStatus : draft' = [draft EXCEPT ![c] = row]
  /\ \E row \in RowStatus : audit' = [audit EXCEPT ![c] = row]
  /\ \E p \in {"none", "running", "exited"} : process' = [process EXCEPT ![c] = p]

LocalStep(c) == CallStep(c) \/ Cancel(c) \/ DatabaseFails(c) \/ ConnectionLost(c) \/ OrphanExits(c)

LEMMA StepIsLocal ==
  ASSUME TypeOK, NEW c \in Calls, LocalStep(c)
  PROVE  StepOf(c)
<1> USE DEF TypeOK, StepOf, PCs, RowStatus, Goto, Abort, Raise, request
<1>1. CASE Refuse(c) \/ Admit(c) \/ Acquire(c) \/ TouchRun(c)
  BY <1>1 DEF Refuse, Admit, Acquire, TouchRun
<1>2. CASE InsertRow(c)
  BY <1>2 DEF InsertRow
<1>3. CASE GiveUpWaiting(c)
  BY <1>3 DEF GiveUpWaiting
<1>4. CASE Launch(c)
  BY <1>4 DEF Launch
<1>5. CASE CliExits(c) \/ CliTimesOut(c)
  BY <1>5 DEF CliExits, CliTimesOut
<1>6. CASE Record(c)
  <2>1. PICK o \in TxOutcomes :
          LET outcome == IF pc[c] = "record_success" THEN "succeeded" ELSE "failed" IN
          /\ audit' = IF Applied(o) THEN [audit EXCEPT ![c] = outcome] ELSE audit
          /\ draft' = [draft EXCEPT ![c] = "none"]
          /\ Goto(c, IF Raises(o) THEN "broken" ELSE outcome)
    BY <1>6 DEF Record
  <2>2. \E row \in RowStatus : audit' = [audit EXCEPT ![c] = row]
    <3>1. audit = [audit EXCEPT ![c] = audit[c]]
      OBVIOUS
    <3> QED
      BY <2>1, <3>1
  <2>3. \E next \in PCs : pc' = [pc EXCEPT ![c] = next]
    BY <2>1
  <2>5. UNCHANGED <<request, process>> /\ process = [process EXCEPT ![c] = process[c]]
    BY <1>6 DEF Record
  <2> QED
    BY <2>1, <2>2, <2>3, <2>5
<1>7. CASE Cancel(c) \/ DatabaseFails(c) \/ RecordFails(c)
  BY <1>7 DEF Cancel, DatabaseFails, RecordFails
<1>8. CASE OrphanExits(c) \/ ConnectionLost(c)
  BY <1>8 DEF OrphanExits, ConnectionLost
<1> QED
  BY <1>1, <1>2, <1>3, <1>4, <1>5, <1>6, <1>7, <1>8 DEF LocalStep, CallStep

\* What the step leaves to the call that made it.
LEMMA StepKeepsOwner ==
  ASSUME Inv, NEW c \in Calls, LocalStep(c)
  PROVE  /\ draft'[c] \in {"none", "running"}
         /\ pc'[c] \notin Drafted => draft'[c] = "none"
         /\ pc'[c] \notin Ended \ {"idle"} => audit'[c] = "none"
         /\ pc'[c] \in {"succeeded", "failed"} => audit'[c] = pc'[c]
         /\ audit'[c] # "running"
         /\ pc'[c] \in {"idle", "acquire", "touch_run", "insert", "launch"} => process'[c] = "none"
         /\ pc'[c] \in {"cli", "record_success"} => process'[c] # "none"
         /\ draft'[c] # "none" => draft[c] # "none" \/ (pc[c] = "insert" /\ ~KeyPending(c) /\ ~KeyTaken(c))
         /\ audit'[c] # audit[c] => draft[c] # "none"
         /\ LocksRun(c)' => LocksRun(c) \/ ~RunLocked(c)
         /\ process[c] = "none" /\ process'[c] = "running" => pc[c] = "launch"
<1> USE DEF Inv, TypeOK, AuditMatchesAnswer, RowWhileExecuting, ProcessLaunched, PCs, RowStatus,
        Drafted, InTx, Ended, LocksRun, Orphaned, Goto, Abort, Raise, request
<1>1. CASE Refuse(c)
  BY <1>1 DEF Refuse
<1>11. CASE Admit(c)
  BY <1>11 DEF Admit
<1>10. CASE Acquire(c)
  BY <1>10 DEF Acquire
<1>9. CASE TouchRun(c)
  BY <1>9 DEF TouchRun
<1>2. CASE InsertRow(c)
  BY <1>2 DEF InsertRow
<1>3. CASE GiveUpWaiting(c)
  BY <1>3 DEF GiveUpWaiting
<1>4. CASE Launch(c)
  BY <1>4 DEF Launch
<1>5. CASE CliExits(c) \/ CliTimesOut(c)
  BY <1>5 DEF CliExits, CliTimesOut, Supervised
<1>6. CASE Record(c)
  BY <1>6 DEF Record, Raises, Applied
<1>7. CASE Cancel(c) \/ DatabaseFails(c) \/ RecordFails(c)
  BY <1>7 DEF Cancel, DatabaseFails, RecordFails
<1>8. CASE OrphanExits(c) \/ ConnectionLost(c)
  BY <1>8 DEF OrphanExits, ConnectionLost
<1> QED
  BY <1>1, <1>2, <1>3, <1>4, <1>5, <1>6, <1>7, <1>8, <1>9, <1>10, <1>11 DEF LocalStep, CallStep

\* What the step leaves to every other call.
LEMMA StepKeepsOthers ==
  ASSUME TypeOK, NEW c \in Calls, LocalStep(c), NEW d \in Calls \ {c}
  PROVE  /\ pc'[d] = pc[d] /\ draft'[d] = draft[d] /\ audit'[d] = audit[d]
         /\ process'[d] = process[d] /\ (LocksRun(d)' <=> LocksRun(d))
<1>1. StepOf(c)
  BY StepIsLocal
<1> QED
  BY <1>1 DEF StepOf, TypeOK, LocksRun, Orphaned, request

LEMMA LocalInv ==
  ASSUME Inv, NEW c \in Calls, LocalStep(c)
  PROVE  Inv'
<1> USE StepKeepsOwner, StepKeepsOthers
<1>1. UNCHANGED <<runOf, keyOf, traced>>
  BY StepIsLocal DEF Inv, StepOf, request
<1>2. RowWhileExecuting' /\ AuditMatchesAnswer' /\ ProcessLaunched'
  <2> SUFFICES ASSUME NEW d \in Calls
               PROVE  /\ draft'[d] \in {"none", "running"}
                      /\ pc'[d] \notin Drafted => draft'[d] = "none"
                      /\ pc'[d] \notin Ended \ {"idle"} => audit'[d] = "none"
                      /\ pc'[d] \in {"succeeded", "failed"} => audit'[d] = pc'[d]
                      /\ audit'[d] # "running"
                      /\ pc'[d] \in {"idle", "acquire", "touch_run", "insert", "launch"} => process'[d] = "none"
                      /\ pc'[d] \in {"cli", "record_success"} => process'[d] # "none"
    BY DEF RowWhileExecuting, AuditMatchesAnswer, ProcessLaunched
  <2>1. CASE d = c
    BY <2>1
  <2>2. CASE d # c
    BY <2>2 DEF Inv, RowWhileExecuting, AuditMatchesAnswer, ProcessLaunched
  <2> QED
    BY <2>1, <2>2
<1>3. TypeOK'
  <2>1. StepOf(c)
    BY StepIsLocal DEF Inv
  <2>2. \A d \in Calls : draft'[d] # "none" => pc'[d] \in InTx
    BY <1>2 DEF RowWhileExecuting, Drafted, InTx
  <2> QED
    BY <2>1, <2>2 DEF StepOf, Inv, TypeOK, request
<1>4. KeyExclusive'
  <2> SUFFICES ASSUME NEW d \in Calls, NEW e \in Calls, d # e, SameKey(d, e)', draft'[d] # "none"
               PROVE  draft'[e] = "none" /\ audit'[e] = "none"
    BY DEF KeyExclusive
  <2>1. SameKey(d, e) /\ SameKey(e, d)
    BY <1>1 DEF SameKey
  <2>2. CASE d = c
    BY <2>1, <2>2 DEF Inv, KeyExclusive, KeyPending, KeyTaken
  <2>3. CASE e = c
    BY <2>1, <2>3 DEF Inv, KeyExclusive, KeyPending, KeyTaken
  <2>4. CASE d # c /\ e # c
    BY <2>1, <2>4 DEF Inv, KeyExclusive
  <2> QED
    BY <2>2, <2>3, <2>4
<1>5. RunExclusive'
  <2> SUFFICES ASSUME NEW d \in Calls, NEW e \in Calls, d # e, LocksRun(d)', LocksRun(e)'
               PROVE  runOf[d] # runOf[e]
    BY <1>1 DEF RunExclusive
  <2>1. CASE d = c
    BY <2>1 DEF Inv, RunExclusive, RunLocked
  <2>2. CASE e = c
    BY <2>2 DEF Inv, RunExclusive, RunLocked
  <2>3. CASE d # c /\ e # c
    BY <2>3 DEF Inv, RunExclusive
  <2> QED
    BY <2>1, <2>2, <2>3
<1> QED
  BY <1>2, <1>3, <1>4, <1>5 DEF Inv

LEMMA CrashInv == Inv /\ Crash => Inv'
<1> SUFFICES ASSUME Inv, Crash
             PROVE  Inv'
  OBVIOUS
<1> USE DEF Crash, Inv, TypeOK, Ended, PCs, RowStatus, request
<1>1. TypeOK'
  OBVIOUS
<1>2. AuditMatchesAnswer' /\ RowWhileExecuting' /\ ProcessLaunched'
  BY DEF AuditMatchesAnswer, RowWhileExecuting, ProcessLaunched, Drafted
<1>3. KeyExclusive' /\ RunExclusive'
  BY DEF KeyExclusive, RunExclusive, LocksRun, InTx, Drafted
<1> QED
  BY <1>1, <1>2, <1>3

LEMMA StepInv == Inv /\ [Next]_vars => Inv'
<1>1. ASSUME Inv, UNCHANGED vars PROVE Inv'
  BY <1>1 DEF Inv, TypeOK, AuditMatchesAnswer, RowWhileExecuting, KeyExclusive, RunExclusive,
     ProcessLaunched, LocksRun, Orphaned, SameKey, vars, request
<1> QED
  BY <1>1, LocalInv, CrashInv DEF Next, LocalStep

\* The draft and the audit rows, the locks, the keys and the processes of concurrent calls
\* stay consistent with where the calls are (gateway.py, call; audit.py).
THEOREM Invariance == Spec => []Inv
  BY InitInv, StepInv, PTL DEF Spec

\* Each variable keeps to its set of values, and a call outside its transaction has
\* no draft row.
THEOREM TypeCorrect == Spec => []TypeOK
<1>1. Inv => TypeOK
  BY DEF Inv
<1> QED
  BY <1>1, Invariance, PTL

\* A caller is told what the audit trail says, and no committed row is unfinished.
THEOREM AuditIsTruthful == Spec => []AuditMatchesAnswer
<1>1. Inv => AuditMatchesAnswer
  BY DEF Inv
<1> QED
  BY <1>1, Invariance, PTL

\* With tracing on, the tools of one run overlap only when one of their calls lost its
\* connection: a transaction that is open keeps the row of its run (audit.py, start).
THEOREM RunSerialised == Spec => []OneToolPerRun
<1>1. Inv => OneToolPerRun
  BY DEF Inv, RunExclusive, OneToolPerRun, Supervised, LocksRun, InTx, Drafted
<1> QED
  BY <1>1, Invariance, PTL

\* Calls never wait for one another in a circle: whoever owns a key waits for nothing,
\* and whoever owns the row of a run waits at most for the owner of a key (gateway.py,
\* call; the pool of database.py).
THEOREM NeverDeadlocked == Spec => []NoDeadlock
<1>1. ASSUME Inv, NEW S \in SUBSET Calls, S # {}, \A c \in S : WaitsWithin(c, S)
      PROVE  FALSE
  <2> USE DEF WaitsWithin
  <2>1. \A c \in S : draft[c] = "none"
    BY <1>1 DEF Inv, RowWhileExecuting, Drafted
  <2>2. \A c \in S : pc[c] # "insert"
    BY <1>1, <2>1
  <2>3. \A c \in S : ~LocksRun(c)
    BY <1>1, <2>2 DEF LocksRun, InTx, Drafted
  <2>4. \A c \in S : pc[c] = "acquire"
    BY <1>1, <2>2, <2>3
  <2>5. InUse = {}
    BY <1>1, <2>4 DEF InUse, InTx, Drafted
  <2>6. Cardinality(InUse) = 0
    BY <2>5, FS_EmptySet
  <2> QED
    BY <1>1, <2>4, <2>6, GatewayAssumption
<1>2. Inv => NoDeadlock
  BY <1>1 DEF NoDeadlock
<1> QED
  BY <1>2, Invariance, PTL

\* An idempotency key guards the execution of the tool for as long as its call keeps it,
\* and ever after a commit; a call that lost its key before its CLI started is not guarded
\* from (gateway.py, call; the unique index of the migration).
THEOREM KeyGuardsExecution == Spec => NoReexecution
<1>1. ASSUME Inv, Next,
             NEW c \in Calls, NEW d \in Calls, c # d, SameKey(c, d),
             process[c] = "none", process'[c] = "running"
      PROVE  Orphaned(c) \/ (draft[d] = "none" /\ audit[d] = "none")
  <2>1. PICK e \in Calls : LocalStep(e)
    BY <1>1 DEF Next, LocalStep, Crash
  <2>2. e = c
    BY <1>1, <2>1, StepKeepsOthers DEF Inv
  <2>3. pc[c] = "launch"
    BY <1>1, <2>1, <2>2, StepKeepsOwner
  <2>4. CASE draft[c] = "none"
    BY <2>3, <2>4 DEF Orphaned, Drafted
  <2>5. CASE draft[c] # "none"
    BY <1>1, <2>5 DEF Inv, KeyExclusive
  <2> QED
    BY <2>4, <2>5
<1>2. Inv /\ [Next]_vars =>
        [\A c, d \in Calls :
           c # d /\ SameKey(c, d) /\ process[c] = "none" /\ process'[c] = "running"
             => Orphaned(c) \/ (draft[d] = "none" /\ audit[d] = "none")]_vars
  BY <1>1
<1> QED
  BY <1>2, Invariance, PTL DEF Spec, NoReexecution

-----------------------------------------------------------------------------
(* ToolGateway implements ToolContract.                                    *)

\* What the contract sees of a call depends on where the call is and on nothing else but
\* its own row and process.
LEMMA PhaseOfPlace ==
  ASSUME Inv, NEW c \in Calls
  PROVE  Phase(c) = IF pc[c] \in Drafted THEN (IF draft[c] = "none" THEN "deprived" ELSE "holding")
                    ELSE IF pc[c] \in Ended \ {"idle"} THEN "over" ELSE "before"
  BY DEF Inv, RowWhileExecuting, Phase, Drafted, Ended

\* The contract's variables of the calls that a step does not concern.
LEMMA OthersSeenAlike ==
  ASSUME Inv, NEW c \in Calls, LocalStep(c), NEW d \in Calls \ {c}
  PROVE  /\ Phase(d)' = Phase(d) /\ pc'[d] = pc[d]
         /\ (process'[d] # "none" <=> process[d] # "none")
  BY StepKeepsOthers DEF Phase, Inv

\* What the contract sees of a step of one call: its own phase, start and result.
SeenStep(c) ==
  /\ UNCHANGED keyOf
  /\ [d \in Calls |-> Phase(d)]' = [[d \in Calls |-> Phase(d)] EXCEPT ![c] = Phase(c)']
  /\ [d \in Calls |-> Told(d)]' = [[d \in Calls |-> Told(d)] EXCEPT ![c] = Told(c)']
  /\ {d \in Calls : process[d] # "none"}' =
       IF process'[c] # "none" THEN {d \in Calls : process[d] # "none"} \cup {c}
       ELSE {d \in Calls : process[d] # "none"} \ {c}
  /\ audit' = [audit EXCEPT ![c] = audit'[c]]

LEMMA StepSeen ==
  ASSUME Inv, NEW c \in Calls, LocalStep(c)
  PROVE  SeenStep(c)
<1>1. StepOf(c)
  BY StepIsLocal DEF Inv
<1>2. \A d \in Calls \ {c} : /\ Phase(d)' = Phase(d) /\ Told(d)' = Told(d)
                            /\ (process'[d] # "none" <=> process[d] # "none")
  BY OthersSeenAlike DEF Told
<1>3. UNCHANGED keyOf /\ audit' = [audit EXCEPT ![c] = audit'[c]]
  BY <1>1 DEF StepOf, Inv, TypeOK, request
<1>4. [d \in Calls |-> Phase(d)]' = [[d \in Calls |-> Phase(d)] EXCEPT ![c] = Phase(c)']
  BY <1>2
<1>5. [d \in Calls |-> Told(d)]' = [[d \in Calls |-> Told(d)] EXCEPT ![c] = Told(c)']
  BY <1>2
<1>6. {d \in Calls : process[d] # "none"}' =
       IF process'[c] # "none" THEN {d \in Calls : process[d] # "none"} \cup {c}
       ELSE {d \in Calls : process[d] # "none"} \ {c}
  BY <1>2
<1> QED
  BY <1>3, <1>4, <1>5, <1>6 DEF SeenStep

\* A step that leaves the call where the contract saw it.
LEMMA SeenUnchanged ==
  ASSUME Inv, NEW c \in Calls, LocalStep(c),
         Phase(c)' = Phase(c), Told(c)' = Told(c), audit'[c] = audit[c],
         process'[c] # "none" <=> process[c] # "none"
  PROVE  UNCHANGED Contract!vars
<1>1. SeenStep(c)
  BY StepSeen
<1>2. audit \in [Calls -> RowStatus]
  BY DEF Inv, TypeOK
<1>3. UNCHANGED keyOf /\ audit' = audit
  BY <1>1, <1>2 DEF SeenStep
<1>4. [d \in Calls |-> Phase(d)]' = [d \in Calls |-> Phase(d)]
  BY <1>1 DEF SeenStep
<1>5. [d \in Calls |-> Told(d)]' = [d \in Calls |-> Told(d)]
  BY <1>1 DEF SeenStep
<1>6. {d \in Calls : process[d] # "none"}' = {d \in Calls : process[d] # "none"}
  BY <1>1 DEF SeenStep
<1> QED
  BY <1>3, <1>4, <1>5, <1>6 DEF Contract!vars

\* A step with which the call ends, without a row and without a result.
LEMMA SeenDropped ==
  ASSUME Inv, NEW c \in Calls, LocalStep(c),
         Phase(c) # "over", Phase(c)' = "over", Told(c)' = Told(c), audit'[c] = audit[c],
         process'[c] # "none" <=> process[c] # "none"
  PROVE  Contract!Drop({c})
<1>1. SeenStep(c)
  BY StepSeen
<1>2. audit \in [Calls -> RowStatus]
  BY DEF Inv, TypeOK
<1>3. UNCHANGED keyOf /\ audit' = audit
  BY <1>1, <1>2 DEF SeenStep
<1>4. [d \in Calls |-> Phase(d)]' = [d \in Calls |-> IF d \in {c} THEN "over" ELSE Phase(d)]
  BY <1>1 DEF SeenStep
<1>5. [d \in Calls |-> Told(d)]' = [d \in Calls |-> Told(d)]
  BY <1>1 DEF SeenStep
<1>6. {d \in Calls : process[d] # "none"}' = {d \in Calls : process[d] # "none"}
  BY <1>1 DEF SeenStep
<1> QED
  BY <1>3, <1>4, <1>5, <1>6 DEF Contract!Drop

\* The steps of a call from its admission to the row lock of its run.
LEMMA EntryKeepsContract ==
  ASSUME Inv, NEW c \in Calls, Refuse(c) \/ Admit(c) \/ Acquire(c) \/ TouchRun(c)
  PROVE  Contract!Next \/ UNCHANGED Contract!vars
<1> USE DEF Inv, TypeOK, Phase, Told, Goto, InTx, Drafted, Ended
<1>1. LocalStep(c)
  BY DEF LocalStep, CallStep
<1>2. CASE Refuse(c)
  <2>1. Contract!Drop({c})
    BY <1>1, <1>2, SeenDropped DEF Refuse
  <2> QED
    BY <2>1 DEF Contract!Next
<1>3. CASE Admit(c)
  BY <1>1, <1>3, SeenUnchanged DEF Admit
<1>4. CASE Acquire(c)
  BY <1>1, <1>4, SeenUnchanged DEF Acquire
<1>5. CASE TouchRun(c)
  BY <1>1, <1>5, SeenUnchanged DEF TouchRun
<1> QED
  BY <1>2, <1>3, <1>4, <1>5

\* A transaction that rolls back is a call dropped.
LEMMA AbortKeepsContract ==
  ASSUME Inv, NEW c \in Calls, LocalStep(c), pc[c] \notin Ended, NEW next \in {"raised", "broken", "gone"},
         Abort(c, next), process'[c] # "none" <=> process[c] # "none"
  PROVE  Contract!Next
<1>1. Contract!Drop({c})
  BY SeenDropped, PhaseOfPlace DEF Inv, TypeOK, Abort, Goto, Phase, Told, Ended, Drafted
<1> QED
  BY <1>1 DEF Contract!Next

\* The INSERT takes the key, or the call is dropped.
LEMMA InsertKeepsContract ==
  ASSUME Inv, NEW c \in Calls, InsertRow(c)
  PROVE  Contract!Next
<1>1. LocalStep(c) /\ pc[c] = "insert" /\ pc[c] \notin Ended /\ UNCHANGED process
  BY DEF LocalStep, CallStep, InsertRow, Ended
<1>2. CASE Abort(c, "raised")
  BY <1>1, <1>2, AbortKeepsContract
<1>3. CASE ~Abort(c, "raised")
  <2>1. ~KeyPending(c) /\ ~KeyTaken(c) /\ UNCHANGED audit
    BY <1>3 DEF InsertRow
  <2>2. Phase(c) = "before" /\ Phase(c)' = "holding" /\ Told(c)' = Told(c)
    BY <1>1, <1>3, PhaseOfPlace DEF InsertRow, Phase, Told, Goto, Inv, TypeOK, Drafted, Ended
  <2>3. \A d \in Calls \ {c} : SameKey(c, d) => Phase(d) # "holding" /\ audit[d] = "none"
    BY <2>1 DEF KeyPending, KeyTaken, Phase
  <2>4. \A d \in Contract!Rivals(c) : Phase(d) # "holding" /\ audit[d] = "none"
    BY <2>3 DEF Contract!Rivals, SameKey
  <2>5. SeenStep(c)
    BY <1>1, StepSeen
  <2>6. [d \in Calls |-> Phase(d)]' = [[d \in Calls |-> Phase(d)] EXCEPT ![c] = "holding"]
    BY <2>2, <2>5 DEF SeenStep
  <2>7. [d \in Calls |-> Told(d)]' = [d \in Calls |-> Told(d)]
    BY <2>2, <2>5 DEF SeenStep
  <2>8. {d \in Calls : process[d] # "none"}' = {d \in Calls : process[d] # "none"}
    BY <1>1
  <2>9. \A d \in Contract!Rivals(c) : [e \in Calls |-> Phase(e)][d] # "holding" /\ audit[d] = "none"
    BY <2>4 DEF Contract!Rivals
  <2>10. Contract!Hold(c)
    BY <2>1, <2>2, <2>5, <2>6, <2>7, <2>8, <2>9 DEF SeenStep, Contract!Hold
  <2> QED
    BY <2>10 DEF Contract!Next
<1> QED
  BY <1>2, <1>3

\* The subprocess is started by a holder of the key, and exits or is given up.
LEMMA ProcessKeepsContract ==
  ASSUME Inv, NEW c \in Calls, Launch(c) \/ CliExits(c) \/ CliTimesOut(c) \/ OrphanExits(c)
  PROVE  Contract!Next \/ UNCHANGED Contract!vars
<1> USE DEF Inv, TypeOK
<1>1. LocalStep(c)
  BY DEF LocalStep, CallStep
<1>2. CASE Launch(c)
  <2>1. pc[c] = "launch" /\ pc[c] \notin Ended /\ process[c] = "none" /\ Phase(c) \in {"holding", "deprived"}
    BY <1>2, PhaseOfPlace DEF Launch, ProcessLaunched, Ended, Drafted
  <2>2. CASE Raise(c) /\ UNCHANGED process
    BY <1>1, <2>1, <2>2, AbortKeepsContract DEF Raise
  <2>3. CASE Goto(c, "record_error") /\ UNCHANGED <<draft, audit, process>>
    BY <1>1, <2>1, <2>3, SeenUnchanged DEF Goto, Phase, Told, Drafted
  <2>4. CASE Goto(c, "cli") /\ process' = [process EXCEPT ![c] = "running"] /\ UNCHANGED <<draft, audit>>
    <3>1. Phase(c)' = Phase(c) /\ Told(c)' = Told(c) /\ process'[c] # "none"
      BY <2>1, <2>4 DEF Goto, Phase, Told, Drafted
    <3>2. SeenStep(c) /\ audit' = audit
      BY <1>1, <2>4, StepSeen
    <3>3. [d \in Calls |-> Phase(d)]' = [d \in Calls |-> Phase(d)]
      BY <3>1, <3>2 DEF SeenStep
    <3>4. [d \in Calls |-> Told(d)]' = [d \in Calls |-> Told(d)]
      BY <3>1, <3>2 DEF SeenStep
    <3>5. c \notin {d \in Calls : process[d] # "none"} /\ [d \in Calls |-> Phase(d)][c] \in {"holding", "deprived"}
      BY <2>1
    <3>6. {d \in Calls : process[d] # "none"}' = {d \in Calls : process[d] # "none"} \cup {c} /\ UNCHANGED keyOf
      BY <3>1, <3>2 DEF SeenStep
    <3>7. Contract!Start(c)
      BY <3>2, <3>3, <3>4, <3>5, <3>6 DEF Contract!Start
    <3> QED
      BY <3>7 DEF Contract!Next
  <2> QED
    BY <1>2, <2>2, <2>3, <2>4 DEF Launch
<1>3. CASE CliExits(c)
  <2>1. pc[c] = "cli" /\ pc[c] \notin Ended /\ process[c] # "none" /\ process'[c] # "none"
    BY <1>3 DEF CliExits, Supervised, Ended
  <2>2. CASE Raise(c)
    BY <1>1, <2>1, <2>2, AbortKeepsContract DEF Raise
  <2>3. CASE ~Raise(c)
    BY <1>1, <1>3, <2>1, <2>3, PhaseOfPlace, SeenUnchanged DEF CliExits, Goto, Phase, Told, Drafted
  <2> QED
    BY <2>2, <2>3
<1>4. CASE CliTimesOut(c)
  BY <1>1, <1>4, PhaseOfPlace, SeenUnchanged DEF CliTimesOut, Supervised, Goto, Phase, Told, Drafted
<1>5. CASE OrphanExits(c)
  BY <1>1, <1>5, SeenUnchanged DEF OrphanExits, Phase, Told
<1> QED
  BY <1>2, <1>3, <1>4, <1>5

\* The final UPDATE and its COMMIT settle the call, or drop it.
LEMMA RecordKeepsContract ==
  ASSUME Inv, NEW c \in Calls, Record(c)
  PROVE  Contract!Next
<1> USE DEF Inv, TypeOK
<1> DEFINE outcome == IF pc[c] = "record_success" THEN "succeeded" ELSE "failed"
<1>1. LocalStep(c) /\ pc[c] \in {"record_success", "record_error"} /\ UNCHANGED process
  BY DEF LocalStep, CallStep, Record
<1>2. PICK o \in TxOutcomes :
        /\ audit' = IF Applied(o) THEN [audit EXCEPT ![c] = outcome] ELSE audit
        /\ draft' = [draft EXCEPT ![c] = "none"]
        /\ Goto(c, IF Raises(o) THEN "broken" ELSE outcome)
  BY DEF Record
<1>3. Phase(c) = "holding" /\ Told(c) = "none"
  BY <1>1, PhaseOfPlace DEF Record, Orphaned, Drafted, Told
<1>4. pc'[c] = (IF Raises(o) THEN "broken" ELSE outcome) /\ draft'[c] = "none"
  BY <1>2 DEF Goto
<1>5. Phase(c)' = "over" /\ Told(c)' \in {"none", outcome}
  BY <1>4 DEF Phase, Told, Drafted, Ended
<1>6. CASE Applied(o)
  <2>1. audit'[c] = outcome /\ outcome \in Contract!Results
    BY <1>2, <1>6 DEF Contract!Results
  <2>2. outcome = "succeeded" => process[c] # "none"
    BY <1>1 DEF ProcessLaunched
  <2>3. SeenStep(c)
    BY <1>1, StepSeen
  <2>4. {d \in Calls : process[d] # "none"}' = {d \in Calls : process[d] # "none"}
    BY <1>1
  <2>5. [d \in Calls |-> Told(d)]' \in
          {[d \in Calls |-> Told(d)], [[d \in Calls |-> Told(d)] EXCEPT ![c] = outcome]}
    <3>1. CASE Told(c)' = outcome
      BY <3>1, <2>3 DEF SeenStep
    <3>2. CASE Told(c)' = "none"
      <4>1. Told(c)' = Told(c)
        BY <3>2, <1>3
      <4>2. [d \in Calls |-> Told(d)]' = [d \in Calls |-> Told(d)]
        BY <4>1, <2>3 DEF SeenStep
      <4> QED
        BY <4>2
    <3> QED
      BY <3>1, <3>2, <1>5
  <2>6. Contract!Settle(c, outcome)
    <3> HIDE DEF outcome
    <3> QED
      BY <1>3, <1>5, <2>1, <2>2, <2>3, <2>4, <2>5 DEF SeenStep, Contract!Settle
  <2> QED
    BY <2>1, <2>6 DEF Contract!Next
<1>7. CASE ~Applied(o)
  <2>1. Told(c)' = Told(c) /\ audit'[c] = audit[c]
    BY <1>2, <1>3, <1>4, <1>7 DEF Applied, Raises, Told
  <2>2. Contract!Drop({c})
    BY <1>1, <1>3, <1>5, <2>1, SeenDropped
  <2> QED
    BY <2>2 DEF Contract!Next
<1> QED
  BY <1>6, <1>7

\* A connection that is lost deprives its call of the key.
LEMMA LossKeepsContract ==
  ASSUME Inv, NEW c \in Calls, ConnectionLost(c)
  PROVE  Contract!Next
<1>1. SeenStep(c)
  BY StepSeen DEF LocalStep
<1>2. pc[c] \in Drafted /\ Phase(c) = "holding"
  BY DEF Inv, RowWhileExecuting, ConnectionLost, Phase
<1>3. Phase(c)' = "deprived" /\ Told(c)' = Told(c) /\ UNCHANGED <<keyOf, audit, process>>
  BY <1>2 DEF ConnectionLost, Phase, Told, Inv, TypeOK, request
<1>4. [d \in Calls |-> Told(d)]' = [d \in Calls |-> Told(d)]
  BY <1>1, <1>3 DEF SeenStep
<1>5. {d \in Calls : process[d] # "none"}' = {d \in Calls : process[d] # "none"}
  BY <1>3
<1>6. Contract!Deprive(c)
  BY <1>1, <1>2, <1>3, <1>4, <1>5 DEF SeenStep, Contract!Deprive
<1> QED
  BY <1>6 DEF Contract!Next

\* A process that dies drops the calls it was serving.
LEMMA CrashKeepsContract ==
  ASSUME Inv, Crash
  PROVE  Contract!Next
<1> DEFINE hit == {c \in Calls : pc[c] \notin Ended}
<1>1. \A c \in hit : Phase(c) # "over"
  BY PhaseOfPlace DEF Drafted, Ended
<1>2. \A c \in Calls : Phase(c)' = IF c \in hit THEN "over" ELSE Phase(c)
  BY PhaseOfPlace DEF Crash, Phase, Drafted, Ended, Inv, TypeOK
<1>3. \A c \in Calls : Told(c)' = Told(c)
  BY DEF Crash, Told, Ended, Inv, TypeOK
<1>4. UNCHANGED <<keyOf, audit, process>>
  BY DEF Crash, request
<1>5. Contract!Drop(hit)
  BY <1>1, <1>2, <1>3, <1>4 DEF Contract!Drop
<1> QED
  BY <1>5 DEF Contract!Next

\* Every step of the gateway is a step of its contract or none.
LEMMA StepKeepsContract ==
  ASSUME Inv, [Next]_vars
  PROVE  [Contract!Next]_(Contract!vars)
<1>1. CASE UNCHANGED vars
  BY <1>1 DEF vars, request, Contract!vars, Phase, Told
<1>2. ASSUME NEW c \in Calls, CallStep(c) \/ Cancel(c) \/ DatabaseFails(c) \/ ConnectionLost(c) \/ OrphanExits(c)
      PROVE  Contract!Next \/ UNCHANGED Contract!vars
  <2>1. LocalStep(c)
    BY <1>2 DEF LocalStep
  <2>2. CASE GiveUpWaiting(c) \/ Cancel(c) \/ DatabaseFails(c) \/ RecordFails(c)
    <3>1. UNCHANGED process /\ pc[c] \notin Ended /\ \E next \in {"raised", "broken", "gone"} : Abort(c, next)
      BY <2>2 DEF GiveUpWaiting, Cancel, DatabaseFails, RecordFails, Raise, Ended
    <3> QED
      BY <2>1, <3>1, AbortKeepsContract
  <2> QED
    BY <1>2, <2>2, EntryKeepsContract, InsertKeepsContract, ProcessKeepsContract, RecordKeepsContract,
       LossKeepsContract
       DEF CallStep
<1> QED
  BY <1>1, <1>2, CrashKeepsContract DEF Next

\* The gateway implements ToolContract: a key is held by one call at a time and by none
\* after a commit, tools are started once, by holders or by those whose connection was lost
\* meanwhile, and results are those of the audit trail (gateway.py, call; audit.py; the
\* unique index of the migration).
THEOREM Refinement == Spec => KeepsToolContract
<1>1. Init => Contract!Init
  BY DEF Init, Contract!Init, Phase, Told, Drafted, Ended
<1> QED
  BY <1>1, StepKeepsContract, Invariance, PTL DEF Spec, KeepsToolContract, Contract!Spec
=============================================================================
