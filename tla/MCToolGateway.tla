--------------------------- MODULE MCToolGateway ---------------------------
(***************************************************************************)
(* ToolGateway on one small instance.  Calls and runs are interchangeable, *)
(* so one assignment of runs and keys to calls stands for all its          *)
(* renamings.  (SYMMETRY says the same, but not soundly under liveness.)   *)
(***************************************************************************)
EXTENDS ToolGateway

CONSTANTS c1, c2, c3, g1, g2, k1

\* Three calls of one run, or two of it and one of another (without a tracer runs make no
\* difference), and every choice of the calls that carry the key.
Requests ==
  \/ /\ runOf = [c \in Calls |-> g1]
     /\ keyOf[c3] = k1 => keyOf[c2] = k1
     /\ keyOf[c2] = k1 => keyOf[c1] = k1
  \/ /\ traced /\ runOf = [c \in Calls |-> IF c = c3 THEN g2 ELSE g1]
     /\ keyOf[c2] = k1 => keyOf[c1] = k1

MCInit == Init /\ Requests

MCSpec == MCInit /\ [][Next]_vars /\ Fairness
=============================================================================
