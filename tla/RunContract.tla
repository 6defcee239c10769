---------------------------- MODULE RunContract ----------------------------
(***************************************************************************)
(* What a workflow run promises, whichever workflow executes it and        *)
(* whichever endpoint started it.  A run has two faces: the status column  *)
(* of its ai.runs row, which outlives the process, and the sequence of     *)
(* messages its caller receives (the SSE events of a stream endpoint, or   *)
(* the single JSON body of a run endpoint).  The contract relates the two: *)
(* a caller is never told of an outcome the database does not hold.        *)
(*                                                                         *)
(* SalesRun and FoodCostRun are shown to implement this module.            *)
(***************************************************************************)
EXTENDS Naturals, Sequences

CONSTANT Runs

VARIABLES
  status,   \* status[r]: ai.runs.status, "none" while there is no row
  stream    \* stream[r]: classes of the messages the caller of r received

vars == <<status, stream>>

Statuses == {"none", "running", "completed", "failed"}
Classes  == {"run_started", "progress", "final", "error", "response"}
Closing  == {"final", "error", "response"}

TypeOK ==
  /\ status \in [Runs -> Statuses]
  /\ stream \in [Runs -> Seq(Classes)]

Closed(r) == \E i \in 1..Len(stream[r]) : stream[r][i] \in Closing

Init ==
  /\ status = [r \in Runs |-> "none"]
  /\ stream = [r \in Runs |-> <<>>]

SetStatus(r, s) ==
  /\ status' = [status EXCEPT ![r] = s]
  /\ UNCHANGED stream

Tell(r, c) ==
  /\ stream' = [stream EXCEPT ![r] = Append(@, c)]
  /\ UNCHANGED status

Begin(r)    == status[r] = "none" /\ SetStatus(r, "running")
Complete(r) == status[r] = "running" /\ SetStatus(r, "completed")

\* A failure may overtake a completion the caller has not been told of (the
\* UPDATE of _mark_failed does not look at the status it overwrites).
Fail(r) ==
  /\ status[r] \in {"running", "completed"}
  /\ ~Closed(r)
  /\ SetStatus(r, "failed")

Announce(r) == status[r] = "running" /\ stream[r] = <<>> /\ Tell(r, "run_started")
Progress(r) == stream[r] # <<>> /\ ~Closed(r) /\ Tell(r, "progress")
Final(r)    == stream[r] # <<>> /\ ~Closed(r) /\ status[r] = "completed" /\ Tell(r, "final")
Error(r)    == stream[r] # <<>> /\ ~Closed(r) /\ status[r] = "failed" /\ Tell(r, "error")
Respond(r)  == stream[r] = <<>> /\ status[r] = "completed" /\ Tell(r, "response")

Next ==
  \E r \in Runs :
    \/ Begin(r) \/ Complete(r) \/ Fail(r)
    \/ Announce(r) \/ Progress(r) \/ Final(r) \/ Error(r) \/ Respond(r)

Spec == Init /\ [][Next]_vars
=============================================================================
