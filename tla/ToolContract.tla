---------------------------- MODULE ToolContract ----------------------------
(***************************************************************************)
(* What the tool gateway promises, whatever happens between the request    *)
(* and the answer.  Of the calls with one idempotency key at most one at a *)
(* time holds the key, and none once one of them has a committed audit     *)
(* row; a tool is started once, by a holder; and a caller that is given a  *)
(* result is given the one that the audit trail has.  A holder can be      *)
(* deprived of its key unawares: it may still start its tool, next to the  *)
(* next holder's, but leaves neither a row nor a result.                   *)
(*                                                                         *)
(* ToolGateway is shown to implement this module.                          *)
(***************************************************************************)
CONSTANTS Calls, Keys, NoKey

VARIABLES
  key,      \* key[c]: idempotency key of the call, or NoKey
  phase,    \* phase[c]: before it holds its key, holding it, deprived of it, over
  started,  \* the calls that started their tool
  row,      \* row[c]: committed status of its audit row, "none" without one
  told      \* told[c]: status of the result its caller has, "none" without one

vars == <<key, phase, started, row, told>>

Results == {"succeeded", "failed"}

Rivals(c) == {d \in Calls \ {c} : key[c] # NoKey /\ key[d] = key[c]}

Init ==
  /\ key \in [Calls -> Keys \cup {NoKey}]
  /\ phase = [c \in Calls |-> "before"]
  /\ started = {}
  /\ row = [c \in Calls |-> "none"]
  /\ told = [c \in Calls |-> "none"]

Hold(c) ==
  /\ phase[c] = "before"
  /\ \A d \in Rivals(c) : phase[d] # "holding" /\ row[d] = "none"
  /\ phase' = [phase EXCEPT ![c] = "holding"]
  /\ UNCHANGED <<key, started, row, told>>

\* The key is free for others, and the call does not know.
Deprive(c) ==
  /\ phase[c] = "holding"
  /\ phase' = [phase EXCEPT ![c] = "deprived"]
  /\ UNCHANGED <<key, started, row, told>>

Start(c) ==
  /\ phase[c] \in {"holding", "deprived"} /\ c \notin started
  /\ started' = started \cup {c}
  /\ UNCHANGED <<key, phase, row, told>>

\* The row is committed; its caller may fail to hear of it.  Only a tool that was
\* started can have succeeded.
Settle(c, result) ==
  /\ phase[c] = "holding"
  /\ result = "succeeded" => c \in started
  /\ phase' = [phase EXCEPT ![c] = "over"]
  /\ row' = [row EXCEPT ![c] = result]
  /\ told' \in {told, [told EXCEPT ![c] = result]}
  /\ UNCHANGED <<key, started>>

\* Some calls, all of a process at once, end with neither a row nor a result.
Drop(S) ==
  /\ \A c \in S : phase[c] # "over"
  /\ phase' = [c \in Calls |-> IF c \in S THEN "over" ELSE phase[c]]
  /\ UNCHANGED <<key, started, row, told>>

Next ==
  \/ \E c \in Calls : Hold(c) \/ Deprive(c) \/ Start(c) \/ \E result \in Results : Settle(c, result)
  \/ \E S \in SUBSET Calls : Drop(S)

Spec == Init /\ [][Next]_vars
=============================================================================
