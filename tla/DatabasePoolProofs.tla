------------------------- MODULE DatabasePoolProofs -------------------------
(***************************************************************************)
(* Theorems about DatabasePool, for every finite set of users and every    *)
(* bound on pools, connections and blocks.                                 *)
(*                                                                         *)
(* OnePool is about a moment; what makes it last is that nobody holds a    *)
(* pool the attribute does not name, and that nobody makes one while it    *)
(* names another.  Creations that overlap break the second, so Lone asks   *)
(* for it only until they do.                                              *)
(***************************************************************************)
EXTENDS DatabasePool, FiniteSetTheorems, SequenceTheorems, TLAPS

Typed ==
  /\ current \in Pools \cup {NoPool}
  /\ state \in [Pools -> {"unborn", "open", "closing", "closed"}]
  /\ pc \in [Users -> {"idle", "creating", "waiting", "using", "over"}]
  /\ mine \in [Users -> Pools \cup {NoPool}]
  /\ overlapped \in BOOLEAN
  /\ \A u \in Users : pc[u] = "waiting" => mine[u] # NoPool

\* While no two creations have overlapped: at most one user creates, and only where
\* there is no pool; every pool alive, and every pool somebody has, is the attribute's.
Lone ==
  /\ \A u, v \in Creating : u = v
  /\ Creating # {} => current = NoPool
  /\ Alive \subseteq {current}
  /\ \A u \in Users : mine[u] \in {NoPool, current}

Bounded == \A p \in Pools : Cardinality(Using(p)) <= PoolSize

Inv == Typed /\ (~overlapped => Lone) /\ Bounded

LEMMA PoolIsNotNone == NoPool \notin Pools
  BY PoolAssumption DEF NoPool, Pools

LEMMA InitInv == Init => Inv
<1> SUFFICES ASSUME Init PROVE Inv
  OBVIOUS
<1>1. Typed /\ Lone
  BY DEF Init, Typed, Lone, Creating, Alive
<1>2. ASSUME NEW p \in Pools PROVE Cardinality(Using(p)) <= PoolSize
  <2>1. Using(p) = {}
    BY PoolIsNotNone DEF Init, Using, Holding
  <2> QED
    BY <2>1, FS_EmptySet, PoolAssumption
<1> QED
  BY <1>1, <1>2 DEF Inv, Bounded

\* Whoever stops using a pool frees a place in it.
LEMMA FewerUsers ==
  ASSUME Inv, NEW p \in Pools, Using(p)' \subseteq Using(p)
  PROVE  Cardinality(Using(p)') <= PoolSize
<1>1. IsFiniteSet(Using(p))
  BY PoolAssumption, FS_Subset DEF Using, Holding
<1>2. /\ IsFiniteSet(Using(p)') /\ Cardinality(Using(p)') <= Cardinality(Using(p))
      /\ Cardinality(Using(p)') \in Nat /\ Cardinality(Using(p)) \in Nat
  BY <1>1, FS_Subset, FS_CardinalityType
<1> QED
  BY <1>2, PoolAssumption DEF Inv, Bounded

\* A connection is handed out only where one is free.
LEMMA OneMoreUser ==
  ASSUME Inv, NEW u \in Users, Acquire(u), NEW p \in Pools
  PROVE  Cardinality(Using(p)') <= PoolSize
<1>1. CASE p # mine[u]
  <2>1. Using(p)' \subseteq Using(p)
    BY <1>1 DEF Acquire, Goto, Using, Holding, Inv, Typed
  <2> QED
    BY <2>1, FewerUsers
<1>2. CASE p = mine[u]
  <2>1. Using(p)' = Using(p) \cup {u}
    BY <1>2, PoolIsNotNone DEF Acquire, Goto, Using, Holding, Inv, Typed
  <2>2. IsFiniteSet(Using(p))
    BY PoolAssumption, FS_Subset DEF Using, Holding
  <2>3. Cardinality(Using(p)) \in Nat /\ Cardinality(Using(p)') <= Cardinality(Using(p)) + 1
    <3> DEFINE S == Using(p)
    <3>1. IsFiniteSet(S) /\ Using(p)' = S \cup {u}
      BY <2>1, <2>2
    <3> HIDE DEF S
    <3>2. Cardinality(S) \in Nat /\ Cardinality(S \cup {u}) \in {Cardinality(S), Cardinality(S) + 1}
      BY <3>1, FS_AddElement, FS_CardinalityType
    <3> QED
      BY <3>1, <3>2 DEF S
  <2>4. Cardinality(Using(p)') \in Nat
    <3>1. IsFiniteSet(Using(p)')
      BY <2>1, <2>2, FS_AddElement
    <3> QED
      BY <3>1, FS_CardinalityType
  <2> QED
    BY <1>2, <2>3, <2>4, PoolAssumption DEF Acquire
<1> QED
  BY <1>1, <1>2

LEMMA NextInv == Inv /\ [Next]_vars => Inv'
<1> SUFFICES ASSUME Inv, [Next]_vars PROVE Inv'
  OBVIOUS
<1>0. Typed /\ (~overlapped => Lone) /\ PoolSize \in Nat
  BY PoolAssumption DEF Inv
\* Enough for Bounded, of every action but Acquire.
<1>00. (\A p \in Pools : Using(p)' \subseteq Using(p)) => Bounded'
  BY FewerUsers DEF Bounded
<1> USE PoolIsNotNone DEF Typed, Lone, Creating, Alive, Using, Holding, Goto, Leave
<1>1. ASSUME NEW u \in Users, UsePool(u) PROVE Inv'
  <2>1. /\ pc[u] = "idle" /\ current # NoPool
        /\ \/ pc' = [pc EXCEPT ![u] = "over"] /\ mine' = [mine EXCEPT ![u] = NoPool]
           \/ pc' = [pc EXCEPT ![u] = "waiting"] /\ mine' = [mine EXCEPT ![u] = current]
        /\ UNCHANGED <<current, state, overlapped>>
    BY <1>1 DEF UsePool, Enters, Missing, StandInLine
  <2> QED
    BY <1>0, <1>00, <2>1 DEF Inv
<1>2. ASSUME NEW u \in Users, StartCreation(u) PROVE Inv'
  <2>1. /\ pc[u] = "idle" /\ current = NoPool
        /\ pc' = [pc EXCEPT ![u] = "creating"]
        /\ overlapped' = (overlapped \/ Creating # {})
        /\ UNCHANGED <<current, state, mine>>
    BY <1>2 DEF StartCreation, Enters, Missing
  <2>2. Typed'
    BY <1>0, <2>1
  <2>3. ~overlapped' => Lone'
    BY <1>0, <2>1
  <2>4. \A p \in Pools : Using(p)' \subseteq Using(p)
    BY <1>0, <2>1
  <2> QED
    BY <1>00, <2>2, <2>3, <2>4 DEF Inv
<1>3. ASSUME NEW u \in Users, FinishCreation(u) PROVE Inv'
  <2>1. PICK p \in Pools :
          /\ state' = [state EXCEPT ![p] = "open"] /\ current' = p
          /\ \/ pc' = [pc EXCEPT ![u] = "over"] /\ mine' = [mine EXCEPT ![u] = NoPool]
             \/ pc' = [pc EXCEPT ![u] = "waiting"] /\ mine' = [mine EXCEPT ![u] = p]
    BY <1>3 DEF FinishCreation, StandInLine
  <2>2. pc[u] = "creating" /\ UNCHANGED overlapped
    BY <1>3 DEF FinishCreation
  <2>3. Typed'
    BY <1>0, <2>1, <2>2
  <2>4. ~overlapped' => Lone'
    BY <1>0, <2>1, <2>2
  <2>5. \A q \in Pools : Using(q)' \subseteq Using(q)
    BY <1>0, <2>1, <2>2
  <2> QED
    BY <1>00, <2>3, <2>4, <2>5 DEF Inv
<1>4. ASSUME NEW u \in Users, CreationFails(u) \/ Cancel(u) PROVE Inv'
  BY <1>0, <1>00, <1>4 DEF CreationFails, Cancel, Inv
<1>5. ASSUME NEW u \in Users, Acquire(u) PROVE Inv'
  <2>1. Typed' /\ (~overlapped' => Lone')
    BY <1>0, <1>5 DEF Acquire
  <2> QED
    BY <1>5, <2>1, OneMoreUser DEF Inv, Bounded
<1>6. ASSUME NEW u \in Users, Release(u) PROVE Inv'
  <2>1. PICK next \in {"idle", "over"} :
          pc' = [pc EXCEPT ![u] = next] /\ mine' = [mine EXCEPT ![u] = NoPool]
    BY <1>6 DEF Release, AfterBlock
  <2> QED
    BY <1>0, <1>00, <1>6, <2>1 DEF Release, Inv
<1>7. ASSUME NEW u \in Users, Abandon(u) PROVE Inv'
  BY <1>0, <1>00, <1>7 DEF Abandon, Inv
<1>8. CASE ShutDown
  BY <1>0, <1>00, <1>8 DEF ShutDown, Inv
<1>9. CASE CloseEnds
  <2>1. PICK p \in Pools :
          /\ state[p] = "closing" /\ Using(p) = {}
          /\ state' = [state EXCEPT ![p] = "closed"]
          /\ pc' = [u \in Users |-> IF pc[u] = "waiting" /\ mine[u] = p THEN "over" ELSE pc[u]]
          /\ mine' = [u \in Users |-> IF pc[u] = "waiting" /\ mine[u] = p THEN NoPool ELSE mine[u]]
    BY <1>9 DEF CloseEnds
  <2>2. current' = NoPool /\ UNCHANGED overlapped
    BY <1>9 DEF CloseEnds
  <2>3. Typed'
    BY <1>0, <2>1, <2>2
  <2>4. ~overlapped' => Lone'
    BY <1>0, <2>1, <2>2
  <2>5. \A q \in Pools : Using(q)' \subseteq Using(q)
    BY <1>0, <2>1, <2>2
  <2> QED
    BY <1>00, <2>3, <2>4, <2>5 DEF Inv
<1>10. CASE UNCHANGED vars
  BY <1>0, <1>00, <1>10 DEF vars, Inv
<1> QED
  BY <1>1, <1>2, <1>3, <1>4, <1>5, <1>6, <1>7, <1>8, <1>9, <1>10 DEF Next, UserStep

LEMMA Invariance == Spec => []Inv
  BY InitInv, NextInv, PTL DEF Spec

-----------------------------------------------------------------------------
(* The lines.                                                              *)

Waits(u, p) == pc[u] = "waiting" /\ mine[u] = p

InLine(p, u) == \E i \in 1..Len(line[p]) : line[p][i] = u

\* Who waits for a pool stands in its line, once, and nobody else does.
Lines ==
  /\ line \in [Pools -> Seq(Users)]
  /\ \A p \in Pools, u \in Users : InLine(p, u) <=> Waits(u, p)
  /\ \A p \in Pools : \A i, j \in 1..Len(line[p]) : line[p][i] = line[p][j] => i = j

Served ==
  /\ server \in {"serving", "closing", "closed"}
  /\ blocks \in [Users -> 0..MaxBlocks]
  /\ orphans \subseteq Users
  /\ current # NoPool => state[current] \in {"open", "closing"}

\* t is s without its k-th element.
Without(s, k, t) ==
  /\ t \in Seq(Users) /\ Len(t) = Len(s) - 1
  /\ \A i \in 1..Len(s) - 1 : t[i] = IF i < k THEN s[i] ELSE s[i + 1]

LEMMA RemovedFrom ==
  ASSUME NEW s \in Seq(Users), NEW k \in 1..Len(s)
  PROVE  Without(s, k, RemoveAt(s, k))
<1> DEFINE a == SubSeq(s, 1, k - 1)
           b == SubSeq(s, k + 1, Len(s))
<1>1. k \in Nat /\ Len(s) \in Nat /\ 1 <= k /\ k <= Len(s)
  OBVIOUS
<1>2. a \in Seq(Users) /\ Len(a) = k - 1 /\ \A i \in 1..k - 1 : a[i] = s[i]
  BY <1>1
<1>3. b \in Seq(Users) /\ Len(b) = Len(s) - k /\ \A i \in 1..Len(s) - k : b[i] = s[k + i]
  BY <1>1
<1>4. RemoveAt(s, k) = a \o b
  BY DEF RemoveAt
<1> HIDE DEF a, b
<1>5. a \in Seq(Users) /\ b \in Seq(Users)
  BY <1>2, <1>3
<1>6. /\ a \o b \in Seq(Users) /\ Len(a \o b) = Len(a) + Len(b)
      /\ \A i \in 1..Len(a) + Len(b) : (a \o b)[i] = IF i <= Len(a) THEN a[i] ELSE b[i - Len(a)]
  BY <1>5, ConcatProperties, Zenon
<1>7. ASSUME NEW i \in 1..Len(s) - 1
      PROVE  (a \o b)[i] = IF i < k THEN s[i] ELSE s[i + 1]
  <2>0. i \in 1..Len(a) + Len(b) /\ Len(a) = k - 1
    BY <1>1, <1>2, <1>3
  <2>1. CASE i < k
    BY <1>1, <1>2, <1>6, <2>0, <2>1
  <2>2. CASE ~ (i < k)
    <3>1. i - (k - 1) \in 1..Len(s) - k /\ k + (i - (k - 1)) = i + 1
      BY <1>1, <2>2
    <3> QED
      BY <1>1, <1>3, <1>6, <2>0, <2>2, <3>1
  <2> QED
    BY <2>1, <2>2
<1>8. Len(a \o b) = Len(s) - 1
  BY <1>1, <1>2, <1>3, <1>6
<1> QED
  BY <1>4, <1>6, <1>7, <1>8 DEF Without

LEMMA TailRemoves ==
  ASSUME NEW s \in Seq(Users), 1 <= Len(s)
  PROVE  Without(s, 1, Tail(s))
<1>1. Len(s) \in Nat /\ s # <<>>
  OBVIOUS
<1>2. Tail(s) \in Seq(Users) /\ Len(Tail(s)) = Len(s) - 1
  BY <1>1
<1>3. \A i \in 1..Len(s) - 1 : Tail(s)[i] = s[i + 1]
  BY <1>1
<1> QED
  BY <1>1, <1>2, <1>3 DEF Without

\* The last one to come.
LEMMA Joins ==
  ASSUME Lines, Typed, NEW u \in Users, NEW p \in Pools, pc[u] # "waiting",
         line' = [line EXCEPT ![p] = Append(@, u)],
         pc' = [pc EXCEPT ![u] = "waiting"], mine' = [mine EXCEPT ![u] = p]
  PROVE  Lines'
<1> DEFINE s == line[p]
<1>1. s \in Seq(Users) /\ Len(s) \in Nat /\ line'[p] = Append(s, u) /\ \A q \in Pools \ {p} : line'[q] = line[q]
  BY DEF Lines
<1>2. line' \in [Pools -> Seq(Users)]
  BY <1>1 DEF Lines
<1>3. /\ Len(Append(s, u)) = Len(s) + 1 /\ Append(s, u)[Len(s) + 1] = u
      /\ \A i \in 1..Len(s) : Append(s, u)[i] = s[i]
  BY <1>1
<1>4. \A v \in Users, q \in Pools : Waits(v, q)' <=> (IF v = u THEN q = p ELSE Waits(v, q))
  BY DEF Waits, Typed
<1>5. \A q \in Pools : ~ InLine(q, u)
  BY DEF Lines, Waits
<1> HIDE DEF s
<1>6. ASSUME NEW q \in Pools, NEW v \in Users PROVE InLine(q, v)' <=> Waits(v, q)'
  <2>1. CASE q # p
    BY <1>1, <1>4, <1>5, <1>6, <2>1 DEF Lines, InLine
  <2>2. CASE q = p
    <3>1. InLine(p, v)' <=> v = u \/ InLine(p, v)
      <4>1. InLine(p, v) <=> \E i \in 1..Len(s) : s[i] = v
        BY DEF InLine, s
      <4>2. InLine(p, v)' <=> \E i \in 1..Len(s) + 1 : Append(s, u)[i] = v
        BY <1>1, <1>3 DEF InLine
      <4>3. 1..Len(s) + 1 = 1..Len(s) \cup {Len(s) + 1}
        BY <1>1
      <4> QED
        BY <1>3, <4>1, <4>2, <4>3
    <3> QED
      BY <1>4, <2>2, <3>1 DEF Lines
  <2> QED
    BY <2>1, <2>2
<1>7. ASSUME NEW q \in Pools, NEW i \in 1..Len(line'[q]), NEW j \in 1..Len(line'[q]), line'[q][i] = line'[q][j]
      PROVE  i = j
  <2>1. CASE q # p
    BY <1>1, <1>7, <2>1 DEF Lines
  <2>2. CASE q = p
    <3>1. i \in 1..Len(s) + 1 /\ j \in 1..Len(s) + 1 /\ Append(s, u)[i] = Append(s, u)[j]
      BY <1>1, <1>3, <1>7, <2>2
    <3>2. \A k \in 1..Len(s) : s[k] # u
      BY <1>5 DEF InLine, s
    <3>3. \A k, l \in 1..Len(s) : s[k] = s[l] => k = l
      BY DEF Lines, s
    <3> QED
      BY <1>1, <1>3, <3>1, <3>2, <3>3
  <2> QED
    BY <2>1, <2>2
<1> QED
  BY <1>2, <1>6, <1>7 DEF Lines

\* Whoever leaves a line leaves everyone else in it.
LEMMA LeavesLine ==
  ASSUME Lines, Typed, NEW u \in Users, NEW p \in Pools, Waits(u, p),
         NEW k \in 1..Len(line[p]), line[p][k] = u,
         NEW t, Without(line[p], k, t), line' = [line EXCEPT ![p] = t],
         NEW next \in {"using", "over"}, pc' = [pc EXCEPT ![u] = next],
         \A v \in Users \ {u} : mine'[v] = mine[v]
  PROVE  Lines'
<1> DEFINE s == line[p]
<1>1. /\ s \in Seq(Users) /\ Len(s) \in Nat /\ k \in 1..Len(s) /\ s[k] = u
      /\ line'[p] = t /\ \A q \in Pools \ {p} : line'[q] = line[q]
  BY DEF Lines
<1>2. /\ t \in Seq(Users) /\ Len(t) = Len(s) - 1
      /\ \A i \in 1..Len(s) - 1 : t[i] = IF i < k THEN s[i] ELSE s[i + 1]
  BY DEF Without
<1>3. line' \in [Pools -> Seq(Users)]
  BY <1>2 DEF Lines
<1>4. \A v \in Users, q \in Pools : Waits(v, q)' <=> v # u /\ Waits(v, q)
  BY DEF Waits, Typed
<1>5. \A q \in Pools \ {p} : ~ InLine(q, u)
  BY DEF Lines, Waits
<1>6. \A i, j \in 1..Len(s) : s[i] = s[j] => i = j
  BY DEF Lines
<1>7. \A v \in Users : InLine(p, v) <=> \E i \in 1..Len(s) : s[i] = v
  BY DEF InLine
<1> HIDE DEF s
<1>8. ASSUME NEW v \in Users PROVE (\E i \in 1..Len(t) : t[i] = v) <=> v # u /\ \E i \in 1..Len(s) : s[i] = v
  <2>1. ASSUME NEW i \in 1..Len(t), t[i] = v PROVE v # u /\ \E m \in 1..Len(s) : s[m] = v
    <3> DEFINE m == IF i < k THEN i ELSE i + 1
    <3>1. m \in 1..Len(s) /\ m # k /\ s[m] = v
      BY <1>1, <1>2, <2>1
    <3> QED
      BY <1>1, <1>6, <3>1
  <2>2. ASSUME v # u, NEW m \in 1..Len(s), s[m] = v PROVE \E i \in 1..Len(t) : t[i] = v
    <3> DEFINE i == IF m < k THEN m ELSE m - 1
    <3>1. m # k /\ i \in 1..Len(t) /\ t[i] = s[m]
      BY <1>1, <1>2, <2>2
    <3> QED
      BY <2>2, <3>1
  <2> QED
    BY <2>1, <2>2
<1>9. ASSUME NEW q \in Pools, NEW v \in Users PROVE InLine(q, v)' <=> Waits(v, q)'
  <2>1. CASE q # p
    BY <1>1, <1>4, <1>5, <2>1 DEF Lines, InLine
  <2>2. CASE q = p
    <3>1. InLine(p, v)' <=> \E i \in 1..Len(t) : t[i] = v
      BY <1>1 DEF InLine
    <3> QED
      BY <1>4, <1>7, <1>8, <2>2, <3>1 DEF Lines
  <2> QED
    BY <2>1, <2>2
<1>10. ASSUME NEW q \in Pools, NEW i \in 1..Len(line'[q]), NEW j \in 1..Len(line'[q]), line'[q][i] = line'[q][j]
       PROVE  i = j
  <2>1. CASE q # p
    BY <1>1, <1>10, <2>1 DEF Lines
  <2>2. CASE q = p
    <3> DEFINE m == IF i < k THEN i ELSE i + 1
               n == IF j < k THEN j ELSE j + 1
    <3>1. i \in 1..Len(s) - 1 /\ j \in 1..Len(s) - 1 /\ t[i] = t[j]
      BY <1>1, <1>2, <1>10, <2>2
    <3>2. m \in 1..Len(s) /\ n \in 1..Len(s) /\ t[i] = s[m] /\ t[j] = s[n]
      BY <1>1, <1>2, <3>1
    <3>3. m = n
      BY <1>6, <3>1, <3>2
    <3> QED
      BY <1>1, <3>1, <3>3
  <2> QED
    BY <2>1, <2>2
<1> QED
  BY <1>3, <1>9, <1>10 DEF Lines

LEMMA LinesStay ==
  ASSUME Lines, line' = line, \A p \in Pools, u \in Users : Waits(u, p)' <=> Waits(u, p)
  PROVE  Lines'
  BY DEF Lines, InLine

LEMMA InitLines == Init => Lines /\ Served
<1> SUFFICES ASSUME Init PROVE Lines /\ Served
  OBVIOUS
<1>1. \A p \in Pools : line[p] = <<>> /\ Len(line[p]) = 0
  BY DEF Init
<1> QED
  BY <1>1, PoolAssumption DEF Init, Lines, Served, InLine, Waits

LEMMA NextLines == Inv /\ Lines /\ Served /\ [Next]_vars => Lines' /\ Served'
<1> SUFFICES ASSUME Inv, Lines, Served, [Next]_vars PROVE Lines' /\ Served'
  OBVIOUS
<1>0. Typed /\ MaxBlocks \in Nat
  BY PoolAssumption DEF Inv
<1> USE PoolIsNotNone DEF Goto, Leave
\* Joining the line of p, or being refused there.
<1>1. ASSUME NEW u \in Users, NEW p \in Pools, StandInLine(u, p), pc[u] \in {"idle", "creating"} PROVE Lines'
  <2>1. CASE Goto(u, "waiting") /\ mine' = [mine EXCEPT ![u] = p] /\ line' = [line EXCEPT ![p] = Append(@, u)]
    BY <1>0, <1>1, <2>1, Joins
  <2>2. CASE Leave(u, "over") /\ UNCHANGED line
    BY <1>0, <1>1, <2>2, LinesStay DEF Waits, Typed
  <2> QED
    BY <1>1, <2>1, <2>2 DEF StandInLine
\* Leaving get_db_connection from elsewhere than a line.
<1>2. ASSUME NEW u \in Users, NEW next \in {"idle", "over"}, Leave(u, next), UNCHANGED line, pc[u] # "waiting" PROVE Lines'
  BY <1>0, <1>2, LinesStay DEF Waits, Typed
<1>3. ASSUME NEW u \in Users, UsePool(u) PROVE Lines' /\ Served'
  <2>1. pc[u] = "idle" /\ current \in Pools /\ StandInLine(u, current)
    BY <1>0, <1>3 DEF UsePool, Enters, Missing, Typed
  <2>2. Lines'
    BY <1>1, <2>1
  <2>3. Served'
    BY <1>0, <1>3 DEF UsePool, Enters, Served
  <2> QED
    BY <2>2, <2>3
<1>4. ASSUME NEW u \in Users, StartCreation(u) PROVE Lines' /\ Served'
  <2>1. pc[u] = "idle" /\ pc' = [pc EXCEPT ![u] = "creating"] /\ UNCHANGED <<mine, line>>
    BY <1>4 DEF StartCreation, Enters
  <2>2. Lines'
    BY <1>0, <2>1, LinesStay DEF Waits, Typed
  <2>3. Served'
    BY <1>0, <1>4 DEF StartCreation, Enters, Served
  <2> QED
    BY <2>2, <2>3
<1>5. ASSUME NEW u \in Users, FinishCreation(u) PROVE Lines' /\ Served'
  <2>1. PICK p \in Pools :
          state' = [state EXCEPT ![p] = "open"] /\ current' = p /\ StandInLine(u, p)
    BY <1>5 DEF FinishCreation
  <2>2. pc[u] = "creating" /\ UNCHANGED <<server, blocks, orphans>>
    BY <1>5 DEF FinishCreation
  <2>3. Lines'
    BY <1>1, <2>1, <2>2
  <2>4. Served'
    BY <1>0, <2>1, <2>2 DEF Served, Typed
  <2> QED
    BY <2>3, <2>4
<1>6. ASSUME NEW u \in Users, CreationFails(u) PROVE Lines' /\ Served'
  BY <1>2, <1>6 DEF CreationFails, Served
<1>7. ASSUME NEW u \in Users, Acquire(u) PROVE Lines' /\ Served'
  <2> DEFINE p == mine[u]
  <2>1. /\ pc[u] = "waiting" /\ Head(line[p]) = u /\ pc' = [pc EXCEPT ![u] = "using"]
        /\ line' = [line EXCEPT ![p] = Tail(@)]
        /\ UNCHANGED <<current, state, server, mine, blocks, orphans>>
    BY <1>7 DEF Acquire
  <2>2. p \in Pools /\ line[p] \in Seq(Users) /\ Waits(u, p) /\ InLine(p, u)
    BY <1>0, <2>1 DEF Typed, Lines, Waits
  <2>3. 1 \in 1..Len(line[p]) /\ line[p][1] = u /\ 1 <= Len(line[p])
    BY <2>1, <2>2 DEF InLine
  <2>4. Without(line[p], 1, Tail(line[p]))
    BY <2>2, <2>3, TailRemoves
  <2>5. line' = [line EXCEPT ![p] = Tail(line[p])]
    BY <2>1
  <2> HIDE DEF p
  <2>6. Lines'
    BY <1>0, <2>1, <2>2, <2>3, <2>4, <2>5, LeavesLine
  <2> QED
    BY <2>1, <2>6 DEF Served
<1>8. ASSUME NEW u \in Users, Release(u) PROVE Lines' /\ Served'
  <2>1. PICK next \in {"idle", "over"} : Leave(u, next)
    BY <1>8 DEF Release, AfterBlock
  <2>2. UNCHANGED line /\ pc[u] # "waiting"
    BY <1>8 DEF Release
  <2>3. Lines'
    BY <1>2, <2>1, <2>2
  <2> QED
    BY <1>8, <2>3 DEF Release, Served
<1>9. ASSUME NEW u \in Users, Cancel(u) PROVE Lines' /\ Served'
  <2>1. Leave(u, "over") /\ UNCHANGED <<current, state, server, blocks, orphans>>
    BY <1>9 DEF Cancel
  <2>2. ASSUME pc[u] # "waiting", UNCHANGED line PROVE Lines'
    BY <1>2, <2>1, <2>2
  <2>3. ASSUME pc[u] = "waiting" PROVE Lines'
    <3> DEFINE p == mine[u]
    <3>1. PICK k \in DOMAIN line[p] : line[p][k] = u /\ line' = [line EXCEPT ![p] = RemoveAt(@, k)]
      BY <1>9, <2>3 DEF Cancel
    <3>2. p \in Pools /\ line[p] \in Seq(Users) /\ Waits(u, p)
      BY <1>0, <2>3, <3>1 DEF Typed, Lines, Waits
    <3>3. k \in 1..Len(line[p]) /\ line' = [line EXCEPT ![p] = RemoveAt(line[p], k)]
      BY <3>1, <3>2
    <3>4. Without(line[p], k, RemoveAt(line[p], k))
      BY <3>2, <3>3, RemovedFrom
    <3>5. /\ pc' = [pc EXCEPT ![u] = "over"] /\ "over" \in {"using", "over"}
          /\ \A v \in Users \ {u} : mine'[v] = mine[v]
      BY <1>0, <2>1 DEF Typed
    <3> DEFINE t == RemoveAt(line[p], k)
    <3>6. Without(line[p], k, t) /\ line' = [line EXCEPT ![p] = t] /\ line[p][k] = u
      BY <3>1, <3>3, <3>4
    <3> HIDE DEF p, t
    <3> QED
      BY <1>0, <3>2, <3>3, <3>5, <3>6, LeavesLine
  <2>4. Lines'
    BY <1>9, <2>2, <2>3 DEF Cancel
  <2> QED
    BY <2>1, <2>4 DEF Served
<1>10. ASSUME NEW u \in Users, Abandon(u) PROVE Lines' /\ Served'
  BY <1>10, LinesStay DEF Abandon, InFlight, Served, Waits
<1>11. CASE ShutDown
  BY <1>0, <1>11, LinesStay DEF ShutDown, Served, Typed, Waits
<1>12. CASE CloseEnds
  <2>1. PICK p \in Pools :
          /\ line' = [line EXCEPT ![p] = <<>>]
          /\ pc' = [u \in Users |-> IF pc[u] = "waiting" /\ mine[u] = p THEN "over" ELSE pc[u]]
          /\ mine' = [u \in Users |-> IF pc[u] = "waiting" /\ mine[u] = p THEN NoPool ELSE mine[u]]
    BY <1>12 DEF CloseEnds
  <2>2. current' = NoPool /\ server' = "closed" /\ UNCHANGED <<blocks, orphans>>
    BY <1>12 DEF CloseEnds
  <2>3. line' \in [Pools -> Seq(Users)] /\ line'[p] = <<>> /\ Len(line'[p]) = 0
        /\ \A q \in Pools \ {p} : line'[q] = line[q]
    BY <2>1 DEF Lines
  <2>4. \A u \in Users, q \in Pools : Waits(u, q)' <=> q # p /\ Waits(u, q)
    BY <1>0, <2>1 DEF Waits, Typed
  <2>5. \A q \in Pools, u \in Users : InLine(q, u)' <=> q # p /\ InLine(q, u)
    BY <2>3 DEF InLine
  <2>6. Lines'
    BY <2>3, <2>4, <2>5 DEF Lines
  <2> QED
    BY <2>2, <2>6 DEF Served
<1>13. CASE UNCHANGED vars
  BY <1>13, LinesStay DEF vars, Served, Waits
<1> QED
  BY <1>3, <1>4, <1>5, <1>6, <1>7, <1>8, <1>9, <1>10, <1>11, <1>12, <1>13 DEF Next, UserStep

LEMMA LinesInvariance == Spec => [](Lines /\ Served)
<1> DEFINE L == Lines /\ Served
<1>1. Init => L
  BY InitLines
<1>2. Inv /\ L /\ [Next]_vars => L'
  BY NextLines
<1> HIDE DEF L
<1>3. Spec => []L
  BY <1>1, <1>2, Invariance, PTL DEF Spec
<1> QED
  BY <1>3 DEF L

-----------------------------------------------------------------------------
(* The theorems.                                                           *)

\* Unless two creations overlap, the service has one pool at a time, and no more
\* connections in use than its max_size: while it runs, while close_pool waits, and
\* after it (DatabasePool.create_pool, close_pool and get_db_connection).
THEOREM PoolIsAlone == Spec => []OnePool
<1>1. Inv => OnePool
  <2> SUFFICES ASSUME Inv, ~overlapped
               PROVE  Alive \subseteq {current} /\ Cardinality(Holding) <= PoolSize
    BY DEF OnePool
  <2>1. Lone /\ Typed
    BY DEF Inv
  <2>2. CASE current = NoPool
    <3>1. Holding = {}
      BY <2>1, <2>2 DEF Lone, Holding
    <3> QED
      BY <2>1, <3>1, FS_EmptySet, PoolAssumption DEF Lone
  <2>3. CASE current \in Pools
    <3>1. Holding = Using(current)
      BY <2>1 DEF Lone, Holding, Using
    <3> QED
      BY <2>1, <2>3, <3>1 DEF Lone, Inv, Bounded
  <2> QED
    BY <2>1, <2>2, <2>3 DEF Typed
<1> QED
  BY <1>1, Invariance, PTL

\* Each variable keeps to its set of values; a pool's line holds those who wait for it
\* and nobody else, through cancellations and the closing of the pool; and the attribute
\* never names a pool that is closed (DatabasePool, get_db_connection).
THEOREM TypeCorrect == Spec => []TypeOK
<1>1. Inv /\ Lines /\ Served => TypeOK
  BY DEF Inv, Typed, Lines, Served, TypeOK, InLine, Waits
<1> QED
  BY <1>1, Invariance, LinesInvariance, PTL
=============================================================================
