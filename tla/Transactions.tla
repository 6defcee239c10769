---------------------------- MODULE Transactions ----------------------------
(***************************************************************************)
(* One `async with connection_factory()` block is one PostgreSQL           *)
(* transaction on a pooled connection (app/database.py).  What it did and  *)
(* what its caller learns may disagree: when the connection fails on       *)
(* COMMIT the block raises although the server may have committed.         *)
(***************************************************************************)

TxOutcomes  == {"committed", "rolled_back", "commit_unacknowledged"}
Applied(o)  == o # "rolled_back"
Raises(o)   == o # "committed"
=============================================================================
