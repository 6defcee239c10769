---------------------------- MODULE ToolGateway ----------------------------
(***************************************************************************)
(* Concurrent tool calls through services/agent-api/app/tools/gateway.py:  *)
(* the checks, the audit rows (audit.py), the waro CLI subprocess          *)
(* (runner.py) and the pooled connection that is held meanwhile.           *)
(*                                                                         *)
(* One transaction spans the whole call.  It takes, in this order, a slot  *)
(* of the pool, the row lock of the run (when the call is traced) and the  *)
(* entry of its key in the unique index, and keeps all three while the     *)
(* subprocess runs, unless the connection is lost: PostgreSQL then takes   *)
(* back the row, the lock and the key, and the call, which supervises its  *)
(* subprocess, learns of it when it records the result.                    *)
(***************************************************************************)
EXTENDS Naturals, FiniteSets, Transactions

CONSTANTS
  Calls,      \* requests to gateway.call
  RunIds,     \* runs the calls belong to
  Keys,       \* idempotency keys of one tenant
  NoKey,      \* a request without an idempotency key
  PoolSize    \* max_size of the asyncpg pool

ASSUME GatewayAssumption ==
  /\ PoolSize \in Nat \ {0}
  /\ NoKey \notin Keys
  /\ RunIds # {}

VARIABLES
  runOf,    \* runOf[c]: run the request names
  keyOf,    \* keyOf[c]: its idempotency key, or NoKey
  traced,   \* the process has a tracer: audit.start touches the run's row
  pc,       \* pc[c]: where the call is
  draft,    \* draft[c]: status of its ai.tool_calls row inside its transaction
  audit,    \* audit[c]: status of its committed ai.tool_calls row
  process   \* process[c]: its CLI subprocess

request == <<runOf, keyOf, traced>>
vars    == <<request, pc, draft, audit, process>>

PCs       == {"idle", "acquire", "touch_run", "insert", "launch", "cli",
              "record_success", "record_error",
              "succeeded", "failed", "refused", "raised", "broken", "gone"}
Drafted   == {"launch", "cli", "record_success", "record_error"}  \* after the INSERT
InTx      == {"touch_run", "insert"} \cup Drafted
Ended     == {"idle", "succeeded", "failed", "refused", "raised", "broken", "gone"}
RowStatus == {"none", "running", "succeeded", "failed"}

TypeOK ==
  /\ runOf \in [Calls -> RunIds]
  /\ keyOf \in [Calls -> Keys \cup {NoKey}]
  /\ traced \in BOOLEAN
  /\ pc \in [Calls -> PCs]
  /\ draft \in [Calls -> RowStatus]
  /\ audit \in [Calls -> RowStatus]
  /\ process \in [Calls -> {"none", "running", "exited"}]
  /\ \A c \in Calls : draft[c] # "none" => pc[c] \in Drafted

Init ==
  /\ runOf \in [Calls -> RunIds]
  /\ keyOf \in [Calls -> Keys \cup {NoKey}]
  /\ traced \in BOOLEAN
  /\ pc = [c \in Calls |-> "idle"]
  /\ draft = [c \in Calls |-> "none"]
  /\ audit = [c \in Calls |-> "none"]
  /\ process = [c \in Calls |-> "none"]

-----------------------------------------------------------------------------
(* What the open transactions hold.                                        *)

\* The connections that are handed out, lost ones included.
InUse == {c \in Calls : pc[c] \in InTx}

Supervised(c) == pc[c] = "cli" /\ process[c] = "running"

\* The call ran its INSERT, and its connection was lost since.
Orphaned(c) == pc[c] \in Drafted /\ draft[c] = "none"

\* Had the transaction read the run's row FOR SHARE before it updates it.
LocksRunEarly(c) == traced /\ pc[c] \in InTx

LocksRun(c)   == traced /\ pc[c] \in InTx \ {"touch_run"} /\ ~Orphaned(c)
RunLocked(c)  == \E d \in Calls \ {c} : LocksRun(d) /\ runOf[d] = runOf[c]

SameKey(c, d) == keyOf[c] # NoKey /\ keyOf[c] = keyOf[d]
KeyPending(c) == \E d \in Calls \ {c} : SameKey(c, d) /\ draft[d] # "none"
KeyTaken(c)   == \E d \in Calls \ {c} : SameKey(c, d) /\ audit[d] # "none"

Goto(c, next) == pc' = [pc EXCEPT ![c] = next]

AbortKeepsRow(c, next) == Goto(c, next) /\ UNCHANGED <<draft, audit>>

\* An exception leaves the async with block: the transaction rolls back and its
\* connection, locks and draft row go with it.
Abort(c, next) ==
  /\ Goto(c, next)
  /\ draft' = [draft EXCEPT ![c] = "none"]
  /\ UNCHANGED audit

\* An exception of the code's own; on a lost connection the ROLLBACK raises its own.
Raise(c) == Abort(c, IF Orphaned(c) THEN "broken" ELSE "raised")

-----------------------------------------------------------------------------
(* gateway.call.                                                           *)

\* Unknown tool, missing scope, invalid arguments: no transaction is opened.
Refuse(c) ==
  /\ pc[c] = "idle"
  /\ Goto(c, "refused")
  /\ UNCHANGED <<request, draft, audit, process>>

Admit(c) ==
  /\ pc[c] = "idle"
  /\ Goto(c, "acquire")
  /\ UNCHANGED <<request, draft, audit, process>>

\* pool.acquire has no timeout: it waits until a connection is free.
Acquire(c) ==
  /\ pc[c] = "acquire"
  /\ Cardinality(InUse) < PoolSize
  /\ Goto(c, "touch_run")
  /\ UNCHANGED <<request, draft, audit, process>>

TouchRunUnlocked(c) ==
  /\ pc[c] = "touch_run"
  /\ Goto(c, "insert")
  /\ UNCHANGED <<request, draft, audit, process>>

\* UPDATE ai.runs SET trace_id = COALESCE(trace_id, ..): locks the row even when it
\* changes nothing.
TouchRun(c) ==
  /\ pc[c] = "touch_run"
  /\ traced => ~RunLocked(c)
  /\ Goto(c, "insert")
  /\ UNCHANGED <<request, draft, audit, process>>

InsertRowUnchecked(c) ==
  /\ pc[c] = "insert"
  /\ draft' = [draft EXCEPT ![c] = "running"]
  /\ Goto(c, "launch")
  /\ UNCHANGED <<request, audit, process>>

\* INSERT .. 'running': waits for an open transaction with the same key, violates
\* the unique index when a committed row has it (and the foreign key when the run
\* does not exist: an exception as well).
InsertRow(c) ==
  /\ pc[c] = "insert"
  /\ ~KeyPending(c)
  /\ \/ ~KeyTaken(c) /\ draft' = [draft EXCEPT ![c] = "running"] /\ Goto(c, "launch")
        /\ UNCHANGED audit
     \/ Abort(c, "raised")
  /\ UNCHANGED <<request, process>>

\* command_timeout ends a statement that waits for a lock.
GiveUpWaiting(c) ==
  /\ \/ pc[c] = "touch_run" /\ traced /\ RunLocked(c)
     \/ pc[c] = "insert" /\ KeyPending(c)
  /\ Abort(c, "raised")
  /\ UNCHANGED <<request, process>>

\* create_subprocess_exec: only FileNotFoundError is turned into a ToolRunError.
Launch(c) ==
  /\ pc[c] = "launch"
  /\ \/ Goto(c, "cli") /\ process' = [process EXCEPT ![c] = "running"] /\ UNCHANGED <<draft, audit>>
     \/ Goto(c, "record_error") /\ UNCHANGED <<draft, audit, process>>
     \/ Raise(c) /\ UNCHANGED process
  /\ UNCHANGED request

\* The subprocess exits: a result, an error the runner names (exit status, size), or
\* output that is not JSON, which raises JSONDecodeError through the gateway.
CliExits(c) ==
  /\ Supervised(c)
  /\ process' = [process EXCEPT ![c] = "exited"]
  /\ \/ Goto(c, "record_success") /\ UNCHANGED <<draft, audit>>
     \/ Goto(c, "record_error") /\ UNCHANGED <<draft, audit>>
     \/ Raise(c)
  /\ UNCHANGED request

CliNeverTimesOut(c) == FALSE /\ UNCHANGED vars

\* wait_for gives up on communicate(); the process itself is not killed.
CliTimesOut(c) ==
  /\ Supervised(c)
  /\ Goto(c, "record_error")
  /\ UNCHANGED <<request, draft, audit, process>>

RecordInNewTransaction(c) ==
  /\ pc[c] \in {"record_success", "record_error"}
  /\ LET outcome == IF pc[c] = "record_success" THEN "succeeded" ELSE "failed" IN
       \E o \in TxOutcomes :
         /\ audit' = [audit EXCEPT ![c] = IF Applied(o) THEN outcome ELSE "running"]
         /\ draft' = [draft EXCEPT ![c] = "none"]
         /\ Goto(c, IF Raises(o) THEN "broken" ELSE outcome)
  /\ UNCHANGED <<request, process>>

\* finish_success or finish_error, then COMMIT; the response follows the COMMIT.
Record(c) ==
  /\ pc[c] \in {"record_success", "record_error"} /\ ~Orphaned(c)
  /\ LET outcome == IF pc[c] = "record_success" THEN "succeeded" ELSE "failed" IN
       \E o \in TxOutcomes :
         /\ audit' = IF Applied(o) THEN [audit EXCEPT ![c] = outcome] ELSE audit
         /\ draft' = [draft EXCEPT ![c] = "none"]
         /\ Goto(c, IF Raises(o) THEN "broken" ELSE outcome)
  /\ UNCHANGED <<request, process>>

\* Had the final UPDATE a connection of its own: it would find no row, and not raise.
AnswersAnyway(c) ==
  /\ pc[c] \in {"record_success", "record_error"} /\ Orphaned(c)
  /\ Goto(c, IF pc[c] = "record_success" THEN "succeeded" ELSE "failed")
  /\ UNCHANGED <<request, draft, audit, process>>

\* The UPDATE of a call that lost its connection raises, and nothing is recorded.
RecordFails(c) ==
  /\ pc[c] \in {"record_success", "record_error"} /\ Orphaned(c)
  /\ Raise(c)
  /\ UNCHANGED <<request, process>>

CallStep(c) ==
  \/ Refuse(c) \/ Admit(c) \/ Acquire(c) \/ TouchRun(c) \/ InsertRow(c)
  \/ GiveUpWaiting(c) \/ Launch(c) \/ CliExits(c) \/ CliTimesOut(c) \/ Record(c)
  \/ RecordFails(c)

-----------------------------------------------------------------------------
(* Faults, and processes nobody waits for.                                 *)

\* The awaiting task is cancelled (the client of a food-cost stream left).
Cancel(c) ==
  /\ pc[c] \notin Ended
  /\ Abort(c, "gone")
  /\ UNCHANGED <<request, process>>

\* A connection cannot be had, or is lost before the INSERT is through: the call raises.
DatabaseFails(c) ==
  /\ pc[c] \in {"acquire", "touch_run", "insert"}
  /\ Abort(c, "broken")
  /\ UNCHANGED <<request, process>>

\* The connection of an idle transaction is lost (the server restarts or ends the
\* session): the row, its key and the lock of the run go, and the call goes on.
ConnectionLost(c) ==
  /\ draft[c] # "none"
  /\ draft' = [draft EXCEPT ![c] = "none"]
  /\ UNCHANGED <<request, pc, audit, process>>

\* The service dies; its transactions roll back and its subprocesses live on.
Crash ==
  LET hit == {c \in Calls : pc[c] \notin Ended} IN
  /\ hit # {}
  /\ pc' = [c \in Calls |-> IF c \in hit THEN "gone" ELSE pc[c]]
  /\ draft' = [c \in Calls |-> "none"]
  /\ UNCHANGED <<request, audit, process>>

OrphanExits(c) ==
  /\ process[c] = "running" /\ ~Supervised(c)
  /\ process' = [process EXCEPT ![c] = "exited"]
  /\ UNCHANGED <<request, pc, draft, audit>>

Next ==
  \/ \E c \in Calls : CallStep(c)
  \/ \E c \in Calls : Cancel(c) \/ DatabaseFails(c) \/ ConnectionLost(c) \/ OrphanExits(c)
  \/ Crash

Spec == Init /\ [][Next]_vars

\* The event loop and PostgreSQL serve every call: statements end (command_timeout),
\* a free connection is handed out, and tool_timeout_seconds fires.  Nothing obliges
\* a subprocess to exit.
Serve(c) ==
  \/ Acquire(c) \/ TouchRun(c) \/ InsertRow(c) \/ GiveUpWaiting(c)
  \/ Launch(c) \/ CliTimesOut(c) \/ Record(c) \/ RecordFails(c)

Fairness == \A c \in Calls : WF_vars(Serve(c))

FairSpec == Spec /\ Fairness

-----------------------------------------------------------------------------
(* Properties.                                                             *)

\* The first two follow from KeepsToolContract below, which TLC checks in their place.

\* What the caller is told is what the audit trail says: a response of status s has
\* a committed row of status s, and no committed row is still 'running', whenever
\* the call was cancelled or the service died.
AuditMatchesAnswer ==
  \A c \in Calls :
    /\ pc[c] \in {"succeeded", "failed"} => audit[c] = pc[c]
    /\ audit[c] # "running"

\* The idempotency key guards the execution, not only the row: while a call keeps its
\* key, or once it has committed, no other call with the key starts its CLI.  Only a call
\* that lost its connection between the INSERT and the CLI escapes, and only those who
\* lost theirs are not waited for.
NoReexecution ==
  [][\A c, d \in Calls :
       c # d /\ SameKey(c, d) /\ process[c] = "none" /\ process'[c] = "running"
         => Orphaned(c) \/ (draft[d] = "none" /\ audit[d] = "none")]_vars

\* When calls are traced, tools of one run overlap only past a lost connection: the
\* lock on the run's row is held while the CLI runs, for as long as the transaction is.
OneToolPerRun ==
  traced => \A c, d \in Calls :
    c # d /\ Supervised(c) /\ Supervised(d) /\ runOf[c] = runOf[d]
      => Orphaned(c) \/ Orphaned(d)

\* c waits, and for nobody outside S: for one of all the connections in use, or for
\* the owner of its run's row or of its key.
WaitsWithin(c, S) ==
  \/ pc[c] = "acquire" /\ Cardinality(InUse) >= PoolSize /\ InUse \subseteq S
  \/ pc[c] = "touch_run" /\ \E d \in S \ {c} : LocksRun(d) /\ runOf[d] = runOf[c]
  \/ pc[c] = "insert" /\ \E d \in S \ {c} : SameKey(c, d) /\ draft[d] # "none"

\* Connections, rows of runs and keys are three things to wait for, each while the
\* others are kept: never do some calls all wait for one another, so no wait needs
\* command_timeout, which a call that waits for a connection does not have.
NoDeadlock ==
  \A S \in SUBSET Calls : S # {} => \E c \in S : ~WaitsWithin(c, S)

\* What the contract sees of a call: whoever has a draft row holds its key.
Phase(c) == IF draft[c] # "none" THEN "holding"
            ELSE IF pc[c] \in Drafted THEN "deprived"
            ELSE IF pc[c] \in Ended \ {"idle"} THEN "over" ELSE "before"
Told(c)  == IF pc[c] \in {"succeeded", "failed"} THEN pc[c] ELSE "none"

Contract ==
  INSTANCE ToolContract WITH
    key     <- keyOf,
    phase   <- [c \in Calls |-> Phase(c)],
    started <- {c \in Calls : process[c] # "none"},
    row     <- audit,
    told    <- [c \in Calls |-> Told(c)]

\* The gateway implements ToolContract, through lost connections and commits, timeouts,
\* cancellations and crashes: keys are held by one call at a time, tools are started by those
\* who hold theirs or were deprived of it, and callers are given the results that the audit
\* trail has, of which a call that was deprived has none.
KeepsToolContract == Contract!Spec

\* Every call that enters ends, although it may wait for a connection, for the run's
\* row and for its key, and although a subprocess may never exit.
CallsEnd == \A c \in Calls : pc[c] = "acquire" ~> pc[c] \in Ended

-----------------------------------------------------------------------------
(* What the documentation says and the code does not do.                   *)

\* docs/architecture.md, "Each tool stores .. error if any", and .wr/4.yaml, "Tool
\* calls persist sanitized arguments, results, summaries, and errors": a call whose
\* CLI ran leaves a row, unless the database, a cancellation or a crash took it.
EveryExecutionAudited ==
  \A c \in Calls :
    pc[c] \in {"succeeded", "failed", "raised"} /\ process[c] # "none" => audit[c] # "none"
=============================================================================
