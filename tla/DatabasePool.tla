---------------------------- MODULE DatabasePool ----------------------------
(***************************************************************************)
(* The connection pool of services/agent-api/app/database.py: made by the  *)
(* first request that needs it, kept in a class attribute, closed by the   *)
(* lifespan of main.py.                                                    *)
(*                                                                         *)
(* create_pool tests the attribute, awaits asyncpg and then assigns it, so *)
(* creations that overlap make a pool each and keep the last.  The server  *)
(* closes the pool once its requests are over, but the graph of a sales    *)
(* stream whose client left is nobody's request and may still be at work.  *)
(*                                                                         *)
(* What asyncpg does (queueing, closing) is modelled from how the code     *)
(* uses it.                                                                *)
(***************************************************************************)
EXTENDS Naturals, Sequences, SequencesExt, FiniteSets

CONSTANTS
  Users,      \* coroutines that use the database: requests, and graphs they leave
  MaxPools,   \* bound on the pools made
  PoolSize,   \* max_size
  MaxBlocks   \* bound on the `async with` blocks of one user

ASSUME PoolAssumption ==
  IsFiniteSet(Users) /\ MaxPools \in Nat /\ PoolSize \in Nat \ {0} /\ MaxBlocks \in Nat

Pools  == 1..MaxPools   \* in the order of their creation
NoPool == 0             \* None

VARIABLES
  current,     \* DatabasePool._pool
  state,       \* state[p]: "unborn", "open", "closing" or "closed"
  server,      \* "serving", "closing" (close_pool awaits) or "closed"
  pc,          \* pc[u]: where u is in get_db_connection
  mine,        \* mine[u]: its local variable pool
  line,        \* line[p]: users waiting for a connection of p, in order
  blocks,      \* blocks[u]: blocks it has entered
  orphans,     \* graphs whose client left
  overlapped   \* two creations were in flight at once (history)

vars == <<current, state, server, pc, mine, line, blocks, orphans, overlapped>>

Alive == {p \in Pools : state[p] \in {"open", "closing"}}

Creating  == {u \in Users : pc[u] = "creating"}
Holding   == {u \in Users : mine[u] # NoPool /\ pc[u] # "waiting"}
Using(p)  == {u \in Holding : mine[u] = p}
InFlight  == {u \in Users : pc[u] # "over" /\ blocks[u] > 0}

TypeOK ==
  /\ current \in Pools \cup {NoPool}
  /\ state \in [Pools -> {"unborn", "open", "closing", "closed"}]
  /\ server \in {"serving", "closing", "closed"}
  /\ pc \in [Users -> {"idle", "creating", "waiting", "using", "over"}]
  /\ mine \in [Users -> Pools \cup {NoPool}]
  /\ line \in [Pools -> Seq(Users)]
  /\ blocks \in [Users -> 0..MaxBlocks]
  /\ orphans \subseteq Users
  /\ overlapped \in BOOLEAN
  /\ \A p \in Pools, u \in Users :
       (\E i \in 1..Len(line[p]) : line[p][i] = u) <=> pc[u] = "waiting" /\ mine[u] = p
  /\ current # NoPool => state[current] \in {"open", "closing"}

Init ==
  /\ current = NoPool
  /\ state = [p \in Pools |-> "unborn"]
  /\ server = "serving"
  /\ pc = [u \in Users |-> "idle"]
  /\ mine = [u \in Users |-> NoPool]
  /\ line = [p \in Pools |-> <<>>]
  /\ blocks = [u \in Users |-> 0]
  /\ orphans = {}
  /\ overlapped = FALSE

-----------------------------------------------------------------------------
(* get_db_connection.                                                      *)

Goto(u, next) == pc' = [pc EXCEPT ![u] = next]

\* u leaves get_db_connection, for its next block or for good.
Leave(u, next) ==
  /\ Goto(u, next)
  /\ mine' = [mine EXCEPT ![u] = NoPool]

\* The server takes no new request once it shuts down; an orphan goes on.
MayRun(u) == server = "serving" \/ u \in orphans

Enters(u) ==
  /\ pc[u] = "idle" /\ blocks[u] < MaxBlocks /\ MayRun(u)
  /\ blocks' = [blocks EXCEPT ![u] = @ + 1]

\* pool.acquire: refused when the pool is closing, else in line for a connection.
StandInLine(u, p) ==
  \/ /\ state[p] \in {"closing", "closed"}
     /\ Leave(u, "over") /\ UNCHANGED line
  \/ /\ state[p] \in {"unborn", "open"}
     /\ Goto(u, "waiting")
     /\ mine' = [mine EXCEPT ![u] = p]
     /\ line' = [line EXCEPT ![p] = Append(@, u)]

MissingAlways == TRUE
Missing == current = NoPool

UsePool(u) ==
  /\ Enters(u) /\ ~Missing
  /\ StandInLine(u, current)
  /\ UNCHANGED <<current, state, server, orphans, overlapped>>

StartCreation(u) ==
  /\ Enters(u) /\ Missing
  /\ Goto(u, "creating")
  /\ overlapped' = (overlapped \/ Creating # {})
  /\ UNCHANGED <<current, state, server, mine, line, orphans>>

\* cls._pool = await asyncpg.create_pool(..); return cls._pool: no test in between,
\* whatever was assigned meanwhile.
FinishCreation(u) ==
  /\ pc[u] = "creating"
  /\ \E p \in Pools :
       /\ state[p] = "unborn" /\ \A q \in 1..p - 1 : state[q] # "unborn"
       /\ state' = [state EXCEPT ![p] = "open"]
       /\ current' = p
       /\ StandInLine(u, p)
  /\ UNCHANGED <<server, blocks, orphans, overlapped>>

\* PostgreSQL cannot be reached within the timeout: the next request tries again.
CreationFails(u) ==
  /\ pc[u] = "creating"
  /\ Leave(u, "over")
  /\ UNCHANGED <<current, state, server, line, blocks, orphans, overlapped>>

\* A free connection goes to the longest waiting.
Acquire(u) ==
  LET p == mine[u] IN
  /\ pc[u] = "waiting" /\ Head(line[p]) = u
  /\ Cardinality(Using(p)) < PoolSize
  /\ Goto(u, "using")
  /\ line' = [line EXCEPT ![p] = Tail(@)]
  /\ UNCHANGED <<current, state, server, mine, blocks, orphans, overlapped>>

AfterBlock(u) == IF blocks[u] < MaxBlocks THEN {"idle", "over"} ELSE {"over"}

KeepOnError(u) ==
  /\ pc[u] = "using"
  /\ \E next \in AfterBlock(u) :
       IF next = "over" THEN Goto(u, next) /\ UNCHANGED mine ELSE Leave(u, next)
  /\ UNCHANGED <<current, state, server, line, blocks, orphans, overlapped>>

\* The block ends, by itself or by an exception: the connection is free either way.
Release(u) ==
  /\ pc[u] = "using"
  /\ \E next \in AfterBlock(u) : Leave(u, next)
  /\ UNCHANGED <<current, state, server, line, blocks, orphans, overlapped>>

\* The user is cancelled wherever it awaits: out of the line, its connection free.
Cancel(u) ==
  /\ u \in InFlight
  /\ Leave(u, "over")
  /\ \/ pc[u] # "waiting" /\ UNCHANGED line
     \/ /\ pc[u] = "waiting"
        /\ \E k \in DOMAIN line[mine[u]] :
             /\ line[mine[u]][k] = u
             /\ line' = [line EXCEPT ![mine[u]] = RemoveAt(@, k)]
  /\ UNCHANGED <<current, state, server, blocks, orphans, overlapped>>

\* The client of a sales stream leaves: its graph task is not awaited by anybody.
Abandon(u) ==
  /\ u \in InFlight \ orphans
  /\ orphans' = orphans \cup {u}
  /\ UNCHANGED <<current, state, server, pc, mine, line, blocks, overlapped>>

-----------------------------------------------------------------------------
(* The end of lifespan: DatabasePool.close_pool.                           *)

DetachFirst ==
  /\ server = "serving" /\ InFlight \subseteq orphans
  /\ server' = IF current = NoPool THEN "closed" ELSE "closing"
  /\ state' = [p \in Pools |-> IF p = current THEN "closing" ELSE state[p]]
  /\ current' = NoPool
  /\ UNCHANGED <<pc, mine, line, blocks, orphans, overlapped>>

\* The server waits for its requests first.  Without a pool there is nothing to do.
ShutDown ==
  /\ server = "serving" /\ InFlight \subseteq orphans
  /\ server' = IF current = NoPool THEN "closed" ELSE "closing"
  /\ state' = [p \in Pools |-> IF p = current THEN "closing" ELSE state[p]]
  /\ UNCHANGED <<current, pc, mine, line, blocks, orphans, overlapped>>

AttributeStays ==
  /\ server = "closing"
  /\ server' = "closed"
  /\ \E p \in Pools :
       /\ state[p] = "closing" /\ Using(p) = {}
       /\ state' = [state EXCEPT ![p] = "closed"]
       /\ line' = [line EXCEPT ![p] = <<>>]
       /\ pc' = [u \in Users |-> IF pc[u] = "waiting" /\ mine[u] = p THEN "over" ELSE pc[u]]
       /\ mine' = [u \in Users |-> IF pc[u] = "waiting" /\ mine[u] = p THEN NoPool ELSE mine[u]]
  /\ UNCHANGED <<current, blocks, orphans, overlapped>>

\* Pool.close waits for the connections handed out; who still waits for one raises.
\* Then cls._pool = None, whatever it holds by now.
CloseEnds ==
  /\ server = "closing"
  /\ server' = "closed"
  /\ \E p \in Pools :
       /\ state[p] = "closing" /\ Using(p) = {}
       /\ state' = [state EXCEPT ![p] = "closed"]
       /\ line' = [line EXCEPT ![p] = <<>>]
       /\ pc' = [u \in Users |-> IF pc[u] = "waiting" /\ mine[u] = p THEN "over" ELSE pc[u]]
       /\ mine' = [u \in Users |-> IF pc[u] = "waiting" /\ mine[u] = p THEN NoPool ELSE mine[u]]
  /\ current' = NoPool
  /\ UNCHANGED <<blocks, orphans, overlapped>>

-----------------------------------------------------------------------------

UserStep(u) ==
  \/ UsePool(u) \/ StartCreation(u) \/ FinishCreation(u) \/ CreationFails(u)
  \/ Acquire(u) \/ Release(u)

Next ==
  \/ \E u \in Users : UserStep(u) \/ Cancel(u) \/ Abandon(u)
  \/ ShutDown
  \/ CloseEnds

Spec == Init /\ [][Next]_vars

\* create_pool and every statement have a timeout, and the event loop is fair.
Fairness ==
  /\ \A u \in Users : WF_vars(UserStep(u) /\ u \in InFlight)
  /\ WF_vars(CloseEnds)

FairSpec == Spec /\ Fairness

-----------------------------------------------------------------------------
(* Properties.                                                             *)

\* Unless two creations overlapped, the pool in the attribute is the only one there
\* is, also while it is being closed, so that max_size bounds the connections in use
\* by the whole service, at every moment of a shutdown too.
OnePool ==
  ~overlapped =>
    /\ Alive \subseteq {current}
    /\ Cardinality(Holding) <= PoolSize

\* Who stands in line is served or told, and the shutdown ends.
WaitersEnd == \A u \in Users : pc[u] = "waiting" ~> pc[u] # "waiting"
ShutdownEnds == server = "closing" ~> server = "closed"
=============================================================================
