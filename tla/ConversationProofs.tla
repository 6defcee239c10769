-------------------------- MODULE ConversationProofs --------------------------
(***************************************************************************)
(* Theorems about Conversation, for every finite set of runs and every     *)
(* message limit.                                                          *)
(*                                                                         *)
(* The order of created_at is the order in which transactions began, so a  *)
(* message may appear in the table below one that is already there.  What  *)
(* saves a run is that its own question, and the turns its caller knew to  *)
(* be over, are in the table when it loads: ORDER BY created_at DESC LIMIT *)
(* n then gives them, or n rows that are younger.                          *)
(***************************************************************************)
EXTENDS Conversation, FiniteSetTheorems, WellFoundedInduction, TLAPS

-----------------------------------------------------------------------------
(* Rows in the order of created_at.                                        *)

Dated(T) ==
  /\ IsFiniteSet(T)
  /\ \A x \in T : x.at \in Nat
  /\ \A x, y \in T : x.at = y.at => x = y

\* The rank of a row: how many are younger.
Rank(x, T) == Cardinality(Younger(x, T))

\* ORDER BY created_at DESC LIMIT n, on any set of rows.
Latest(n, T) == {x \in T : Rank(x, T) < n}

\* The rows younger than a row of a finite table are finitely many.
LEMMA RankType ==
  ASSUME NEW T, Dated(T), NEW x
  PROVE  IsFiniteSet(Younger(x, T)) /\ Rank(x, T) \in Nat
  <1>1. Younger(x, T) \in SUBSET T
    BY DEF Younger
  <1>2. IsFiniteSet(Younger(x, T))
    BY <1>1, FS_Subset DEF Dated
  <1> QED
    BY <1>2, FS_CardinalityType DEF Rank

\* Of two rows the younger has the smaller rank.
LEMMA RankDecreases ==
  ASSUME NEW T, Dated(T), NEW x \in T, NEW y \in T, x.at < y.at
  PROVE  Rank(y, T) < Rank(x, T)
  <1>1. Younger(y, T) \in SUBSET Younger(x, T)
    BY DEF Younger, Dated
  <1>2. y \in Younger(x, T) /\ y \notin Younger(y, T)
    BY DEF Younger, Dated
  <1>3. IsFiniteSet(Younger(x, T)) /\ Rank(x, T) \in Nat /\ Rank(y, T) \in Nat
    BY RankType
  <1>4. /\ Cardinality(Younger(y, T)) <= Cardinality(Younger(x, T))
        /\ Cardinality(Younger(x, T)) = Cardinality(Younger(y, T))
             => Younger(x, T) = Younger(y, T)
    BY <1>1, <1>3, FS_Subset
  <1> QED
    BY <1>2, <1>3, <1>4 DEF Rank

\* The k rows younger than m have the ranks 0 to k - 1.
LEMMA RanksAreDense ==
  ASSUME NEW T, Dated(T), NEW m \in T
  PROVE  [x \in Younger(m, T) |-> Rank(x, T)] \in
           Bijection(Younger(m, T), 0..(Rank(m, T) - 1))
  <1> DEFINE Y == Younger(m, T)
             k == Rank(m, T)
             f == [x \in Y |-> Rank(x, T)]
  <1>1. k \in Nat /\ IsFiniteSet(Y)
    BY RankType
  <1>2. \A x \in Y : x \in T /\ m.at < x.at
    BY DEF Younger, Dated
  <1>3. \A x \in Y : Rank(x, T) \in 0..(k - 1)
    <2> TAKE x \in Y
    <2>1. Rank(x, T) < k
      BY <1>2, RankDecreases
    <2>2. Rank(x, T) \in Nat
      BY RankType
    <2> QED
      BY <2>1, <2>2, <1>1
  <1>4. \A x, y \in Y : Rank(x, T) = Rank(y, T) => x = y
    <2> SUFFICES ASSUME NEW x \in Y, NEW y \in Y, Rank(x, T) = Rank(y, T), x # y
                 PROVE  FALSE
      OBVIOUS
    <2>1. x.at \in Nat /\ y.at \in Nat /\ x.at # y.at
      BY <1>2 DEF Dated
    <2>2. Rank(x, T) \in Nat /\ Rank(y, T) \in Nat
      BY RankType
    <2>3. CASE x.at < y.at
      BY <1>2, <2>2, <2>3, RankDecreases
    <2>4. CASE y.at < x.at
      BY <1>2, <2>2, <2>4, RankDecreases
    <2> QED
      BY <2>1, <2>3, <2>4
  <1>5. f \in Injection(Y, 0..(k - 1))
    BY <1>3, <1>4 DEF Injection, IsInjective
  <1>6. IsFiniteSet(0..(k - 1)) /\ Cardinality(0..(k - 1)) = k
    BY <1>1, FS_Interval
  <1>7. f \in Surjection(Y, 0..(k - 1))
    BY <1>5, <1>6, FS_Injection DEF Rank
  <1> QED
    BY <1>5, <1>7 DEF Bijection

\* A row the LIMIT cuts off has exactly n younger ones among the rows it keeps.
LEMMA WindowIsFull ==
  ASSUME NEW T, Dated(T), NEW n \in Nat, NEW m \in T
  PROVE  m \in Latest(n, T) \/ Rank(m, Latest(n, T)) = n
  <1> SUFFICES ASSUME m \notin Latest(n, T)
               PROVE  Rank(m, Latest(n, T)) = n
    OBVIOUS
  <1> DEFINE Y == Younger(m, T)
             k == Rank(m, T)
             f == [x \in Y |-> Rank(x, T)]
             V == Younger(m, Latest(n, T))
             g == [x \in V |-> Rank(x, T)]
  <1>1. k \in Nat /\ n <= k
    BY RankType DEF Latest
  <1>2. f \in Bijection(Y, 0..(k - 1))
    BY RanksAreDense
  <1>3. V = {x \in Y : Rank(x, T) < n}
    BY DEF Younger, Latest
  <1>4. \A x \in Y : f[x] = Rank(x, T) /\ Rank(x, T) \in 0..(k - 1)
    BY <1>2 DEF Bijection, Injection
  <1>5. g \in Injection(V, 0..(n - 1))
    <2>1. g \in [V -> 0..(n - 1)]
      BY <1>1, <1>3, <1>4
    <2>2. \A x, y \in V : g[x] = g[y] => x = y
      <3> TAKE x, y \in V
      <3>1. x \in Y /\ y \in Y /\ g[x] = f[x] /\ g[y] = f[y]
        BY <1>3
      <3>2. f[x] = f[y] => x = y
        BY <3>1, <1>2 DEF Bijection, Injection, IsInjective
      <3> QED
        BY <3>1, <3>2
    <2> QED
      BY <2>1, <2>2 DEF Injection, IsInjective
  <1>6. g \in Surjection(V, 0..(n - 1))
    <2>1. \A i \in 0..(n - 1) : \E x \in V : g[x] = i
      <3> TAKE i \in 0..(n - 1)
      <3>1. i \in 0..(k - 1)
        BY <1>1
      <3>2. PICK x \in Y : f[x] = i
        BY <3>1, <1>2 DEF Bijection, Surjection
      <3>3. x \in V
        BY <3>2, <1>3, <1>4
      <3> QED
        BY <3>2, <3>3
    <2> QED
      BY <2>1, <1>5 DEF Surjection, Injection
  <1>7. IsFiniteSet(0..(n - 1)) /\ Cardinality(0..(n - 1)) = n
    BY FS_Interval
  <1> QED
    BY <1>5, <1>6, <1>7, FS_Injection DEF Rank

\* Rows that are not none have a latest one: the first row of a descending scan.
LEMMA LatestExists ==
  ASSUME NEW S, Dated(S), S # {}
  PROVE  LatestOf(S) \in S /\ \A x \in S : x.at <= LatestOf(S).at
  <1> DEFINE ranks == {Rank(x, S) : x \in S}
  <1>1. ranks \subseteq Nat /\ ranks # {}
    BY RankType
  <1>2. PICK least \in ranks : \A i \in ranks : ~ (<<i, least>> \in OpToRel(<, Nat))
    BY <1>1, WFMin, NatLessThanWellFounded
  <1>3. PICK m \in S : least = Rank(m, S)
    OBVIOUS
  <1>4. \A x \in S : x.at <= m.at
    <2> SUFFICES ASSUME NEW x \in S, ~ (x.at <= m.at)
                 PROVE  FALSE
      OBVIOUS
    <2>1. Rank(x, S) < Rank(m, S)
      BY RankDecreases DEF Dated
    <2>2. Rank(x, S) \in Nat /\ Rank(m, S) \in Nat
      BY RankType
    <2> QED
      BY <2>1, <2>2, <1>2, <1>3 DEF OpToRel
  <1>5. \E l \in S : \A x \in S : x.at <= l.at
    BY <1>4
  <1> QED
    BY <1>5 DEF LatestOf

-----------------------------------------------------------------------------
(* The inductive invariant.                                                *)

Question(r) == [run |-> r, role |-> "user", at |-> asked[r]]
Answer(r)   == [run |-> r, role |-> "assistant", at |-> stamp[r]]

\* TypeOK with the times that have been: the bound of Stamps is Counted.
Typed ==
  /\ kind \in [Runs -> {"agent", "script"}]
  /\ pc \in [Runs -> PCs]
  /\ clock \in Nat
  /\ stamp \in [Runs -> 0..clock]
  /\ table \subseteq [run : Runs, role : {"user", "assistant"}, at : 0..clock]
  /\ IsFiniteSet(table)
  /\ asked \in [Runs -> 0..clock]
  /\ window \in [Runs -> SUBSET table]
  /\ state \in [Runs -> [question : table \cup {NoMessage}, answer : table \cup {NoMessage}]]
  /\ before \in [Runs -> SUBSET Runs]

\* Every run begins at most two transactions.
Started  == {r \in Runs : pc[r] # "idle"}
Answered == {r \in Runs : asked[r] # 0 /\ stamp[r] # asked[r]}
Counted  == clock = Cardinality(Started) + Cardinality(Answered)

\* Where a run is says which of its transactions the stamp is of.
StampsOf(r) ==
  /\ pc[r] = "idle" <=> stamp[r] = 0
  /\ pc[r] \in {"idle", "starting"} => asked[r] = 0
  /\ pc[r] \in {"load_messages", "load_state", "work"} => asked[r] = stamp[r]
  /\ pc[r] \in {"finishing", "done"} => asked[r] # 0 /\ asked[r] < stamp[r]
  /\ pc[r] = "broken" => asked[r] \in {0, stamp[r]}
  /\ pc[r] = "failed" => asked[r] # 0 /\ asked[r] <= stamp[r]

\* No two transactions began at the same time.
Apart ==
  \A q, r \in Runs :
    q # r => /\ stamp[q] # 0 => stamp[q] # stamp[r] /\ stamp[q] # asked[r]
             /\ asked[q] # 0 => asked[q] # stamp[r] /\ asked[q] # asked[r]

\* The rows are the questions and answers of the runs, at the time each began.
Rows ==
  /\ \A m \in table :
       \/ m = Question(m.run) /\ asked[m.run] # 0
       \/ m = Answer(m.run) /\ asked[m.run] # 0 /\ asked[m.run] < stamp[m.run]
          /\ pc[m.run] \in {"done", "failed"}
  /\ \A r \in Runs :
       /\ asked[r] # 0 => Question(r) \in table
       /\ pc[r] = "done" => Answer(r) \in table

\* What the caller knew was over before the run began.
Befores ==
  \A r \in Runs :
    /\ pc[r] = "idle" => before[r] = {}
    /\ \A q \in before[r] :
         pc[q] = "done" /\ stamp[q] < stamp[r] /\ (asked[r] # 0 => stamp[q] < asked[r])

\* The window of a run hears its own question and all its caller knew.
Heard ==
  \A r \in Runs : HasContext(r) =>
    /\ InWindow(Question(r), r)
    /\ \A q \in before[r] : InWindow(Question(q), r) /\ InWindow(Answer(q), r)

Inv == Typed /\ Counted /\ (\A r \in Runs : StampsOf(r)) /\ Apart /\ Rows /\ Befores
       /\ Heard /\ StateNotStale

-----------------------------------------------------------------------------
(* Every step preserves it, part by part.                                  *)

\* An insert adds at most the row it is of.
LEMMA InsertAdds ==
  ASSUME Typed, NEW r \in Runs, NEW role, NEW o, Insert(r, role, o)
  PROVE  LET row == [run |-> r, role |-> role, at |-> stamp[r]]
         IN  /\ table' = IF Applied(o) THEN table \cup {row} ELSE table
             /\ table \subseteq table' /\ IsFiniteSet(table')
  BY FS_AddElement DEF Insert, Typed

\* Before the first run nothing is stored.
LEMMA TypedInit == Init => Typed
  BY FS_EmptySet DEF Init, Typed, PCs, NoMessage

Stored == Typed /\ (\A r \in Runs : StampsOf(r)) /\ Apart /\ Rows

\* Rows of one time are one row.
LEMMA TableDated == Stored => Dated(table)
  <1> SUFFICES ASSUME Typed, \A r \in Runs : StampsOf(r), Apart, Rows
               PROVE  Dated(table)
    BY DEF Stored
  <1>1. \A m \in table : m.run \in Runs /\ m.at \in Nat
    BY DEF Typed
  <1>2. ASSUME NEW x \in table, NEW y \in table, x.at = y.at
        PROVE  x = y
    <2>1. x.run \in Runs /\ y.run \in Runs
      BY <1>1
    <2>2. /\ asked[x.run] # 0 /\ asked[y.run] # 0
          /\ \/ x = Question(x.run)
             \/ x = Answer(x.run) /\ asked[x.run] < stamp[x.run]
          /\ \/ y = Question(y.run)
             \/ y = Answer(y.run) /\ asked[y.run] < stamp[y.run]
      BY DEF Rows
    <2>3. \A r \in Runs : stamp[r] \in Nat /\ asked[r] \in Nat
      BY DEF Typed
    <2>4. CASE x.run = y.run
      <3>1. Question(x.run).at = asked[x.run] /\ Answer(x.run).at = stamp[x.run]
        BY DEF Question, Answer
      <3> QED
        BY <2>1, <2>2, <2>3, <2>4, <3>1, <1>2
    <2>5. CASE x.run # y.run
      <3>1. /\ x.at = asked[x.run] \/ (x.at = stamp[x.run] /\ stamp[x.run] # 0)
            /\ y.at = asked[y.run] \/ (y.at = stamp[y.run] /\ stamp[y.run] # 0)
        BY <2>1, <2>2, <2>3 DEF Question, Answer
      <3>2. asked[x.run] # 0 /\ asked[y.run] # 0
        BY <2>2
      <3> QED
        BY <2>1, <2>5, <3>1, <3>2, <1>2 DEF Apart
    <2> QED
      BY <2>4, <2>5
  <1> QED
    BY <1>1, <1>2 DEF Dated, Typed

\* The rows of a scan are rows of the table.
LEMMA ScanDated ==
  ASSUME Dated(table), NEW S \in SUBSET table
  PROVE  Dated(S)
  <1>1. IsFiniteSet(S)
    BY FS_Subset DEF Dated
  <1> QED
    BY <1>1 DEF Dated

\* What the conversation state takes from a scan is a row of it, or none.
LEMMA LatestTyped ==
  ASSUME Dated(table), NEW S \in SUBSET table
  PROVE  LatestOf(S) \in table \cup {NoMessage}
  <1>1. CASE S = {}
    BY <1>1 DEF LatestOf
  <1>2. CASE S # {}
    BY <1>2, ScanDated, LatestExists
  <1> QED
    BY <1>1, <1>2

\* Types are kept, no row is removed, the clock does not run backwards.
LEMMA TypedStep ==
  ASSUME Typed, Dated(table), [Next]_vars
  PROVE  Typed' /\ table \subseteq table' /\ kind' = kind /\ clock <= clock'
  <1> USE DEF Typed, Goto, PCs, context
  <1>1. CASE UNCHANGED vars
    BY <1>1 DEF vars
  <1>2. ASSUME NEW r \in Runs, BeginStart(r)
        PROVE  Typed' /\ table \subseteq table' /\ kind' = kind /\ clock <= clock'
    BY <1>2 DEF BeginStart, Begin
  <1>3. ASSUME NEW r \in Runs, CommitStart(r)
        PROVE  Typed' /\ table \subseteq table' /\ kind' = kind /\ clock <= clock'
    <2>1. PICK o \in TxOutcomes : Insert(r, "user", o)
                                  /\ asked' = IF Applied(o) THEN [asked EXCEPT ![r] = stamp[r]]
                                              ELSE asked
      BY <1>3 DEF CommitStart
    <2>2. table \subseteq table' /\ IsFiniteSet(table')
      BY <2>1, InsertAdds
    <2>3. table' \subseteq [run : Runs, role : {"user", "assistant"}, at : 0..clock]
      BY <2>1 DEF Insert
    <2>4. UNCHANGED <<kind, clock, stamp, window, state, before>> /\ pc' \in [Runs -> PCs]
      BY <1>3 DEF CommitStart
    <2>5. asked' \in [Runs -> 0..clock]
      BY <2>1
    <2>6. window' \in [Runs -> SUBSET table']
      BY <2>2, <2>4
    <2>7. state' \in [Runs -> [question : table' \cup {NoMessage}, answer : table' \cup {NoMessage}]]
      BY <2>2, <2>4
    <2> QED
      BY <2>2, <2>3, <2>4, <2>5, <2>6, <2>7
  <1>4. ASSUME NEW r \in Runs, LoadMessages(r)
        PROVE  Typed' /\ table \subseteq table' /\ kind' = kind /\ clock <= clock'
    <2>1. NewestMessages(Limit) \in SUBSET table
      BY DEF NewestMessages
    <2>2. pc' \in [Runs -> PCs] /\ window' \in [Runs -> SUBSET table]
      BY <1>4, <2>1 DEF LoadMessages
    <2>3. UNCHANGED <<kind, clock, stamp, table, asked, state, before>>
      BY <1>4 DEF LoadMessages
    <2> QED
      BY <2>2, <2>3
  <1>5. ASSUME NEW r \in Runs, LoadState(r)
        PROVE  Typed' /\ table \subseteq table' /\ kind' = kind /\ clock <= clock'
    <2> DEFINE rows == NewestMessages(StateLimit)
               turn == [question |-> LatestOf({m \in rows : IsQuestion(m)}),
                        answer   |-> LatestOf({m \in rows : IsArtifact(m)})]
    <2>1. rows \in SUBSET table
      BY DEF NewestMessages
    <2>2. turn \in [question : table \cup {NoMessage}, answer : table \cup {NoMessage}]
      BY <2>1, LatestTyped
    <2>3. pc' \in [Runs -> PCs] /\ (state' = state \/ state' = [state EXCEPT ![r] = turn])
      BY <1>5 DEF LoadState
    <2>4. UNCHANGED <<kind, clock, stamp, table, asked, window, before>>
      BY <1>5 DEF LoadState
    <2> HIDE DEF turn
    <2>5. state' \in [Runs -> [question : table \cup {NoMessage}, answer : table \cup {NoMessage}]]
      BY <2>2, <2>3
    <2> QED
      BY <2>3, <2>4, <2>5
  <1>6. ASSUME NEW r \in Runs, BeginFinish(r)
        PROVE  Typed' /\ table \subseteq table' /\ kind' = kind /\ clock <= clock'
    <2>1. UNCHANGED <<kind, table, asked, window, state, before>> /\ pc' \in [Runs -> PCs]
      BY <1>6 DEF BeginFinish
    <2>2. clock' \in Nat /\ clock <= clock' /\ stamp' \in [Runs -> 0..clock']
      BY <1>6 DEF BeginFinish, Begin
    <2>3. /\ table' \subseteq [run : Runs, role : {"user", "assistant"}, at : 0..clock']
          /\ asked' \in [Runs -> 0..clock']
      BY <2>1, <2>2
    <2> QED
      BY <2>1, <2>2, <2>3
  <1>7. ASSUME NEW r \in Runs, CommitFinish(r)
        PROVE  Typed' /\ table \subseteq table' /\ kind' = kind /\ clock <= clock'
    <2>1. PICK o \in TxOutcomes : Insert(r, "assistant", o)
      BY <1>7 DEF CommitFinish
    <2>2. table \subseteq table' /\ IsFiniteSet(table')
      BY <2>1, InsertAdds
    <2>3. table' \subseteq [run : Runs, role : {"user", "assistant"}, at : 0..clock]
      BY <2>1 DEF Insert
    <2>4. UNCHANGED <<kind, clock, stamp, asked, window, state, before>> /\ pc' \in [Runs -> PCs]
      BY <1>7 DEF CommitFinish
    <2>6. window' \in [Runs -> SUBSET table']
      BY <2>2, <2>4
    <2>7. state' \in [Runs -> [question : table' \cup {NoMessage}, answer : table' \cup {NoMessage}]]
      BY <2>2, <2>4
    <2> QED
      BY <2>2, <2>3, <2>4, <2>6, <2>7
  <1> QED
    BY <1>1, <1>2, <1>3, <1>4, <1>5, <1>6, <1>7 DEF Next

\* A run is where it was, or the step is its own.
LEMMA StampsStep ==
  ASSUME Typed, \A r \in Runs : StampsOf(r), [Next]_vars
  PROVE  \A r \in Runs : StampsOf(r)'
  <1> USE DEF Typed, StampsOf, Goto, PCs
  <1>1. CASE UNCHANGED vars
    BY <1>1 DEF vars
  <1>2. ASSUME NEW r \in Runs, BeginStart(r)
        PROVE  \A q \in Runs : StampsOf(q)'
    BY <1>2 DEF BeginStart, Begin
  <1>3. ASSUME NEW r \in Runs, CommitStart(r)
        PROVE  \A q \in Runs : StampsOf(q)'
    BY <1>3 DEF CommitStart, TxOutcomes, Applied, Raises
  <1>4. ASSUME NEW r \in Runs, LoadMessages(r)
        PROVE  \A q \in Runs : StampsOf(q)'
    BY <1>4 DEF LoadMessages
  <1>5. ASSUME NEW r \in Runs, LoadState(r)
        PROVE  \A q \in Runs : StampsOf(q)'
    BY <1>5 DEF LoadState
  <1>6. ASSUME NEW r \in Runs, BeginFinish(r)
        PROVE  \A q \in Runs : StampsOf(q)'
    BY <1>6 DEF BeginFinish, Begin
  <1>7. ASSUME NEW r \in Runs, CommitFinish(r)
        PROVE  \A q \in Runs : StampsOf(q)'
    BY <1>7 DEF CommitFinish
  <1> QED
    BY <1>1, <1>2, <1>3, <1>4, <1>5, <1>6, <1>7 DEF Next

\* Each transaction is counted once.
LEMMA CountedStep ==
  ASSUME Typed, \A r \in Runs : StampsOf(r), Counted, [Next]_vars
  PROVE  Counted'
  <1>0. /\ IsFiniteSet(Started) /\ Cardinality(Started) \in Nat
        /\ IsFiniteSet(Answered) /\ Cardinality(Answered) \in Nat
    <2>1. Started \in SUBSET Runs /\ Answered \in SUBSET Runs
      BY DEF Started, Answered
    <2> QED
      BY <2>1, ConversationAssumption, FS_Subset, FS_CardinalityType
  <1>1. CASE UNCHANGED vars
    BY <1>1 DEF vars, Counted, Started, Answered
  <1>2. ASSUME NEW r \in Runs, BeginStart(r)
        PROVE  Counted'
    <2>1. r \notin Started /\ r \notin Answered /\ clock' = clock + 1
      BY <1>2 DEF BeginStart, Begin, Started, Answered, StampsOf
    <2>2. Started' = Started \cup {r} /\ Answered' = Answered
      BY <1>2 DEF BeginStart, Begin, Goto, Started, Answered, StampsOf, Typed
    <2>3. Cardinality(Started \cup {r}) = Cardinality(Started) + 1
      BY <2>1, <1>0, FS_AddElement
    <2> QED
      BY <2>1, <2>2, <2>3, <1>0 DEF Counted, Typed
  <1>3. ASSUME NEW r \in Runs, CommitStart(r)
        PROVE  Counted'
    <2>1. Started' = Started /\ clock' = clock
      BY <1>3 DEF CommitStart, Goto, Started, Typed
    <2>2. Answered' = Answered
      BY <1>3 DEF CommitStart, Answered, StampsOf, Typed
    <2> QED
      BY <2>1, <2>2 DEF Counted
  <1>4. ASSUME NEW r \in Runs, LoadMessages(r)
        PROVE  Counted'
    <2>1. UNCHANGED <<clock, stamp, asked>> /\ Started' = Started
      BY <1>4 DEF LoadMessages, Goto, Started, Typed
    <2> QED
      BY <2>1 DEF Counted, Answered
  <1>5. ASSUME NEW r \in Runs, LoadState(r)
        PROVE  Counted'
    <2>1. UNCHANGED <<clock, stamp, asked>> /\ Started' = Started
      BY <1>5 DEF LoadState, Goto, Started, Typed
    <2> QED
      BY <2>1 DEF Counted, Answered
  <1>6. ASSUME NEW r \in Runs, BeginFinish(r)
        PROVE  Counted'
    <2>1. Started' = Started /\ asked' = asked
      BY <1>6 DEF BeginFinish, Goto, Started, Typed
    <2>2. CASE UNCHANGED <<clock, stamp>>
      BY <2>1, <2>2 DEF Counted, Answered
    <2>3. CASE Begin(r)
      <3>1. r \notin Answered /\ clock' = clock + 1
        BY <1>6, <2>3 DEF BeginFinish, Begin, Answered, StampsOf
      <3>2. asked[r] # 0 /\ asked[r] # clock + 1
        BY <1>6 DEF BeginFinish, StampsOf, Typed
      <3>3. Answered' = Answered \cup {r}
        BY <2>1, <2>3, <3>2 DEF Begin, Answered, Typed
      <3>4. Cardinality(Answered \cup {r}) = Cardinality(Answered) + 1
        BY <3>1, <1>0, FS_AddElement
      <3> QED
        BY <2>1, <3>1, <3>3, <3>4, <1>0 DEF Counted, Typed
    <2> QED
      BY <1>6, <2>2, <2>3 DEF BeginFinish
  <1>7. ASSUME NEW r \in Runs, CommitFinish(r)
        PROVE  Counted'
    BY <1>7 DEF CommitFinish, Goto, Counted, Started, Answered, Typed
  <1> QED
    BY <1>1, <1>2, <1>3, <1>4, <1>5, <1>6, <1>7 DEF Next

\* A transaction begins at a time that was not.
LEMMA ApartStep ==
  ASSUME Typed, \A r \in Runs : StampsOf(r), Apart, [Next]_vars
  PROVE  Apart'
  <1> USE DEF Typed, Apart
  <1>1. CASE UNCHANGED vars
    BY <1>1 DEF vars
  <1>2. ASSUME NEW r \in Runs, BeginStart(r)
        PROVE  Apart'
    BY <1>2 DEF BeginStart, Begin
  <1>3. ASSUME NEW r \in Runs, CommitStart(r)
        PROVE  Apart'
    BY <1>3 DEF CommitStart, StampsOf
  <1>4. ASSUME NEW r \in Runs, LoadMessages(r)
        PROVE  Apart'
    BY <1>4 DEF LoadMessages
  <1>5. ASSUME NEW r \in Runs, LoadState(r)
        PROVE  Apart'
    BY <1>5 DEF LoadState
  <1>6. ASSUME NEW r \in Runs, BeginFinish(r)
        PROVE  Apart'
    BY <1>6 DEF BeginFinish, Begin
  <1>7. ASSUME NEW r \in Runs, CommitFinish(r)
        PROVE  Apart'
    BY <1>7 DEF CommitFinish
  <1> QED
    BY <1>1, <1>2, <1>3, <1>4, <1>5, <1>6, <1>7 DEF Next

\* A row keeps the time of its run: no run that has one begins that transaction again.
LEMMA RowsStep ==
  ASSUME Typed, \A r \in Runs : StampsOf(r), Rows, [Next]_vars
  PROVE  Rows'
  <1> USE DEF Typed, Rows, Question, Answer
  <1>1. CASE UNCHANGED vars
    BY <1>1 DEF vars
  <1>2. ASSUME NEW r \in Runs, BeginStart(r)
        PROVE  Rows'
    BY <1>2 DEF BeginStart, Begin, Goto, StampsOf
  <1>3. ASSUME NEW r \in Runs, CommitStart(r)
        PROVE  Rows'
    <2>1. PICK o \in TxOutcomes :
            /\ Insert(r, "user", o)
            /\ asked' = IF Applied(o) THEN [asked EXCEPT ![r] = stamp[r]] ELSE asked
            /\ \E next \in {"broken", "load_messages", "work"} : Goto(r, next)
      BY <1>3 DEF CommitStart
    <2>2. stamp' = stamp /\ pc[r] = "starting" /\ asked[r] = 0 /\ stamp[r] # 0
      BY <1>3 DEF CommitStart, StampsOf
    <2>3. CASE Applied(o)
      <3>1. table' = table \cup {Question(r)'} /\ asked' = [asked EXCEPT ![r] = stamp[r]]
        BY <2>1, <2>2, <2>3 DEF Insert
      <3>2. ASSUME NEW m \in table
            PROVE  m.run # r /\ m.run \in Runs
        BY <2>2
      <3> QED
        BY <2>1, <2>2, <3>1, <3>2 DEF Goto
    <2>4. CASE ~ Applied(o)
      BY <2>1, <2>2, <2>4 DEF Insert, Goto
    <2> QED
      BY <2>3, <2>4
  <1>4. ASSUME NEW r \in Runs, LoadMessages(r)
        PROVE  Rows'
    BY <1>4 DEF LoadMessages, Goto
  <1>5. ASSUME NEW r \in Runs, LoadState(r)
        PROVE  Rows'
    BY <1>5 DEF LoadState, Goto
  <1>6. ASSUME NEW r \in Runs, BeginFinish(r)
        PROVE  Rows'
    BY <1>6 DEF BeginFinish, Begin, Goto
  <1>7. ASSUME NEW r \in Runs, CommitFinish(r)
        PROVE  Rows'
    <2>1. PICK o \in TxOutcomes :
            Insert(r, "assistant", o) /\ Goto(r, IF Raises(o) THEN "failed" ELSE "done")
      BY <1>7 DEF CommitFinish
    <2>2. /\ UNCHANGED <<asked, stamp>> /\ pc[r] = "finishing"
          /\ asked[r] # 0 /\ asked[r] < stamp[r]
      BY <1>7 DEF CommitFinish, StampsOf
    <2>3. table' = IF Applied(o) THEN table \cup {Answer(r)} ELSE table
      BY <2>1 DEF Insert
    <2>4. ~ Raises(o) => Applied(o)
      BY <2>1 DEF TxOutcomes, Raises, Applied
    <2> QED
      BY <2>1, <2>2, <2>3, <2>4 DEF Goto
  <1> QED
    BY <1>1, <1>2, <1>3, <1>4, <1>5, <1>6, <1>7 DEF Next

\* What was over when a run began is over before it.
LEMMA BeforesStep ==
  ASSUME Typed, \A r \in Runs : StampsOf(r), Befores, [Next]_vars
  PROVE  Befores'
  <1> USE DEF Typed, Befores, Goto
  <1>1. CASE UNCHANGED vars
    BY <1>1 DEF vars
  <1>2. ASSUME NEW r \in Runs, BeginStart(r)
        PROVE  Befores'
    BY <1>2 DEF BeginStart, Begin, StampsOf
  <1>3. ASSUME NEW r \in Runs, CommitStart(r)
        PROVE  Befores'
    BY <1>3 DEF CommitStart
  <1>4. ASSUME NEW r \in Runs, LoadMessages(r)
        PROVE  Befores'
    BY <1>4 DEF LoadMessages
  <1>5. ASSUME NEW r \in Runs, LoadState(r)
        PROVE  Befores'
    BY <1>5 DEF LoadState
  <1>6. ASSUME NEW r \in Runs, BeginFinish(r)
        PROVE  Befores'
    <2>1. CASE UNCHANGED <<clock, stamp>>
      BY <1>6, <2>1 DEF BeginFinish
    <2>2. CASE Begin(r)
      <3>1. /\ UNCHANGED <<asked, before>> /\ stamp' = [stamp EXCEPT ![r] = clock + 1]
            /\ pc' = [pc EXCEPT ![r] = "finishing"] /\ pc[r] = "work"
        BY <1>6, <2>2 DEF BeginFinish, Begin, StampsOf
      <3>2. ASSUME NEW p \in Runs, NEW q \in before[p]
            PROVE  pc'[q] = "done" /\ stamp'[q] < stamp'[p] /\ (asked[p] # 0 => stamp'[q] < asked[p])
        <4>1. q \in Runs /\ q # r /\ pc[q] = "done" /\ stamp[q] < stamp[p] /\ stamp[q] <= clock
          BY <3>1
        <4> QED
          BY <3>1, <4>1
      <3> QED
        BY <3>1, <3>2
    <2> QED
      BY <1>6, <2>1, <2>2 DEF BeginFinish
  <1>7. ASSUME NEW r \in Runs, CommitFinish(r)
        PROVE  Befores'
    BY <1>7 DEF CommitFinish
  <1> QED
    BY <1>1, <1>2, <1>3, <1>4, <1>5, <1>6, <1>7 DEF Next

-----------------------------------------------------------------------------
(* The context of a run.                                                   *)

Core == Typed /\ (\A r \in Runs : StampsOf(r)) /\ Apart /\ Rows /\ Befores /\ Dated(table)

HasState(r) == kind[r] = "agent" /\ pc[r] \in Loaded \ {"load_state"}

\* Once loaded, neither the window of a run nor what it is measured by changes.
LEMMA ContextFixed ==
  ASSUME Core, [Next]_vars, NEW r \in Runs, HasContext(r)
  PROVE  /\ window'[r] = window[r] /\ asked'[r] = asked[r] /\ before'[r] = before[r]
         /\ \A q \in before[r] : asked'[q] = asked[q] /\ stamp'[q] = stamp[q]
         /\ HasState(r) => state'[r] = state[r]
  <1> USE DEF Core, Typed, HasContext, HasState, Loaded
  <1>0. before[r] \subseteq Runs /\ \A q \in before[r] : pc[q] = "done"
    BY DEF Befores
  <1>1. CASE UNCHANGED vars
    BY <1>1 DEF vars, context
  <1>2. ASSUME NEW p \in Runs, BeginStart(p)
        PROVE  /\ window'[r] = window[r] /\ asked'[r] = asked[r] /\ before'[r] = before[r]
               /\ \A q \in before[r] : asked'[q] = asked[q] /\ stamp'[q] = stamp[q]
               /\ state' = state
    BY <1>0, <1>2 DEF BeginStart, Begin, context
  <1>3. ASSUME NEW p \in Runs, CommitStart(p)
        PROVE  /\ window'[r] = window[r] /\ asked'[r] = asked[r] /\ before'[r] = before[r]
               /\ \A q \in before[r] : asked'[q] = asked[q] /\ stamp'[q] = stamp[q]
               /\ state' = state
    BY <1>0, <1>3 DEF CommitStart, context
  <1>4. ASSUME NEW p \in Runs, LoadMessages(p)
        PROVE  window'[r] = window[r] /\ UNCHANGED <<asked, before, stamp, state>>
    BY <1>4 DEF LoadMessages
  <1>5. ASSUME NEW p \in Runs, LoadState(p)
        PROVE  /\ UNCHANGED <<window, asked, before, stamp>>
               /\ HasState(r) => state'[r] = state[r]
    BY <1>5 DEF LoadState
  <1>6. ASSUME NEW p \in Runs, BeginFinish(p)
        PROVE  /\ UNCHANGED <<window, asked, before, state>>
               /\ \A q \in before[r] : stamp'[q] = stamp[q]
    BY <1>0, <1>6 DEF BeginFinish, Begin, context
  <1>7. ASSUME NEW p \in Runs, CommitFinish(p)
        PROVE  UNCHANGED <<window, asked, before, stamp, state>>
    BY <1>7 DEF CommitFinish, context
  <1> QED
    BY <1>1, <1>2, <1>3, <1>4, <1>5, <1>6, <1>7 DEF Next

\* A run has a context from its load of the messages on.
LEMMA ContextGained ==
  ASSUME Core, [Next]_vars, NEW r \in Runs, HasContext(r)', ~ HasContext(r)
  PROVE  /\ window'[r] = Latest(Limit, table) /\ asked[r] # 0
         /\ UNCHANGED <<asked, stamp, before, table>>
  <1> USE DEF Core, Typed, HasContext, Loaded, Goto
  <1>1. CASE UNCHANGED vars
    BY <1>1 DEF vars
  <1>2. ASSUME NEW p \in Runs, BeginStart(p)
        PROVE  FALSE
    BY <1>2 DEF BeginStart
  <1>3. ASSUME NEW p \in Runs, CommitStart(p)
        PROVE  FALSE
    BY <1>3 DEF CommitStart
  <1>4. ASSUME NEW p \in Runs, LoadMessages(p)
        PROVE  /\ window'[r] = Latest(Limit, table) /\ asked[r] # 0
               /\ UNCHANGED <<asked, stamp, before, table>>
    <2>1. p = r /\ pc'[r] = "load_state" /\ pc[r] = "load_messages"
      BY <1>4 DEF LoadMessages
    <2>2. window'[r] = NewestMessages(Limit) /\ UNCHANGED <<asked, stamp, before, table>>
      BY <1>4, <2>1 DEF LoadMessages
    <2>3. asked[r] # 0
      BY <2>1 DEF StampsOf
    <2> QED
      BY <2>2, <2>3 DEF NewestMessages, Latest, Rank
  <1>5. ASSUME NEW p \in Runs, LoadState(p)
        PROVE  FALSE
    BY <1>5 DEF LoadState
  <1>6. ASSUME NEW p \in Runs, BeginFinish(p)
        PROVE  FALSE
    BY <1>6 DEF BeginFinish
  <1>7. ASSUME NEW p \in Runs, CommitFinish(p)
        PROVE  FALSE
    BY <1>7 DEF CommitFinish
  <1> QED
    BY <1>1, <1>2, <1>3, <1>4, <1>5, <1>6, <1>7 DEF Next

\* A load hears all that is in the table, or as many younger rows as it may read.
LEMMA HeardStep ==
  ASSUME Core, Heard, [Next]_vars
  PROVE  Heard'
  <1> SUFFICES ASSUME NEW r \in Runs, HasContext(r)'
               PROVE  /\ InWindow(Question(r), r)'
                      /\ \A q \in before'[r] : InWindow(Question(q), r)' /\ InWindow(Answer(q), r)'
    BY DEF Heard
  <1>1. CASE HasContext(r)
    BY <1>1, ContextFixed DEF Heard, InWindow, Question, Answer
  <1>2. CASE ~ HasContext(r)
    <2>1. /\ window'[r] = Latest(Limit, table) /\ asked[r] # 0
          /\ UNCHANGED <<asked, stamp, before, table>>
      BY <1>2, ContextGained
    <2>2. ASSUME NEW m \in table
          PROVE  m \in window'[r] \/ Cardinality(Younger(m, window'[r])) = Limit
      BY <2>1, ConversationAssumption, WindowIsFull DEF Core, Rank
    <2>3. Question(r) \in table
      BY <2>1 DEF Core, Rows
    <2>4. ASSUME NEW q \in before[r]
          PROVE  Question(q) \in table /\ Answer(q) \in table
      <3>1. q \in Runs /\ pc[q] = "done" /\ asked[q] # 0
        BY DEF Core, Typed, Befores, StampsOf
      <3> QED
        BY <3>1 DEF Core, Rows
    <2>5. Question(r)' = Question(r) /\ before' = before
          /\ \A q : Question(q)' = Question(q) /\ Answer(q)' = Answer(q)
      BY <2>1 DEF Question, Answer
    <2> QED
      BY <2>2, <2>3, <2>4, <2>5 DEF InWindow
  <1> QED
    BY <1>1, <1>2

NotOlder(r) ==
  \A m \in window[r] :
    /\ IsQuestion(m) => m.at <= state[r].question.at
                        \/ Cardinality(Younger(m, table)) >= StateLimit
    /\ IsArtifact(m) => m.at <= state[r].answer.at
                        \/ Cardinality(Younger(m, table)) >= StateLimit

LastNotStale(r) ==
  \/ /\ state[r].question.at >= asked[r]
     /\ state[r].question.run \notin before[r]
  \/ \E m \in table : m.run = r /\ m.at = asked[r] /\ Cardinality(Younger(m, table)) >= StateLimit

\* What a scan for the state of the run finds.
LEMMA StateLoaded ==
  ASSUME Core, NEW r \in Runs, asked[r] # 0, NEW rows, rows = NewestMessages(StateLimit)
  PROVE  LET question == LatestOf({m \in rows : IsQuestion(m)})
             answer   == LatestOf({m \in rows : IsArtifact(m)})
         IN  /\ \A m \in table :
                  /\ IsQuestion(m) => m.at <= question.at
                                      \/ Cardinality(Younger(m, table)) >= StateLimit
                  /\ IsArtifact(m) => m.at <= answer.at
                                      \/ Cardinality(Younger(m, table)) >= StateLimit
             /\ \/ question.at >= asked[r] /\ question.run \notin before[r]
                \/ \E m \in table : m.run = r /\ m.at = asked[r]
                                    /\ Cardinality(Younger(m, table)) >= StateLimit
  <1> DEFINE Q == {m \in rows : IsQuestion(m)}
             A == {m \in rows : IsArtifact(m)}
             question == LatestOf(Q)
             answer == LatestOf(A)
  <1>1. Q \in SUBSET table /\ A \in SUBSET table /\ Dated(Q) /\ Dated(A)
    BY ScanDated DEF Core, NewestMessages
  <1>2. StateLimit \in Nat
    BY ConversationAssumption DEF StateLimit
  <1>3. ASSUME NEW m \in table
        PROVE  m \in rows \/ Cardinality(Younger(m, table)) >= StateLimit
    <2>1. Cardinality(Younger(m, table)) \in Nat
      BY RankType DEF Core, Rank
    <2> QED
      BY <2>1, <1>2 DEF NewestMessages
  <1>4. \A m \in Q : m.at <= question.at
    BY <1>1, LatestExists
  <1>5. \A m \in A : m.at <= answer.at
    BY <1>1, LatestExists
  <1>6. \/ question.at >= asked[r] /\ question.run \notin before[r]
        \/ \E m \in table : m.run = r /\ m.at = asked[r]
                            /\ Cardinality(Younger(m, table)) >= StateLimit
    <2>1. Question(r) \in table /\ Question(r).run = r /\ Question(r).at = asked[r]
      BY DEF Core, Rows, Question
    <2>2. CASE Question(r) \in rows
      <3>1. Question(r) \in Q
        BY <2>2 DEF IsQuestion, Question
      <3>2. question \in Q /\ asked[r] <= question.at
        BY <3>1, <2>1, <1>1, LatestExists
      <3>3. question \in table /\ question.run \in Runs /\ question.role = "user"
        BY <3>2, <1>1 DEF IsQuestion, Core, Typed
      <3>4. question = Question(question.run)
        BY <3>3 DEF Core, Rows, Answer
      <3>5. question.at = asked[question.run]
        BY <3>4 DEF Question
      <3>6. asked[r] \in Nat /\ asked[question.run] \in Nat /\ stamp[question.run] \in Nat
        BY <3>3 DEF Core, Typed
      <3>7. ASSUME question.run \in before[r] PROVE FALSE
        <4>1. pc[question.run] = "done" /\ stamp[question.run] < asked[r]
          BY <3>7 DEF Core, Befores
        <4>2. asked[question.run] < stamp[question.run]
          BY <4>1, <3>3 DEF Core, StampsOf
        <4> QED
          BY <4>1, <4>2, <3>2, <3>5, <3>6
      <3> QED
        BY <3>2, <3>5, <3>6, <3>7
    <2>3. CASE Question(r) \notin rows
      BY <2>1, <2>3, <1>3
    <2> QED
      BY <2>2, <2>3
  <1> QED
    BY <1>3, <1>4, <1>5, <1>6

\* More rows push a row out no less.
LEMMA PushedOut ==
  ASSUME Dated(table'), table \subseteq table', NEW m,
         Cardinality(Younger(m, table)) >= StateLimit
  PROVE  Cardinality(Younger(m, table')) >= StateLimit
  <1>1. IsFiniteSet(Younger(m, table')) /\ Rank(m, table') \in Nat
    BY RankType
  <1>2. Younger(m, table) \in SUBSET Younger(m, table')
    BY DEF Younger
  <1>3. Cardinality(Younger(m, table)) <= Cardinality(Younger(m, table'))
        /\ Cardinality(Younger(m, table)) \in Nat
    BY <1>1, <1>2, FS_Subset, FS_CardinalityType
  <1>4. StateLimit \in Nat
    BY ConversationAssumption DEF StateLimit
  <1> QED
    BY <1>1, <1>3, <1>4 DEF Rank

\* A run has a conversation state from its second load on.
LEMMA StateGained ==
  ASSUME Core, [Next]_vars, NEW r \in Runs, HasState(r)', ~ HasState(r)
  PROVE  /\ HasContext(r) /\ asked[r] # 0
         /\ LET rows == NewestMessages(StateLimit)
            IN  state'[r] = [question |-> LatestOf({m \in rows : IsQuestion(m)}),
                             answer   |-> LatestOf({m \in rows : IsArtifact(m)})]
         /\ UNCHANGED <<kind, asked, before, table, window>>
  <1> USE DEF Core, Typed, HasState, Loaded, Goto
  <1>1. CASE UNCHANGED vars
    BY <1>1 DEF vars
  <1>2. ASSUME NEW p \in Runs, BeginStart(p)
        PROVE  FALSE
    BY <1>2 DEF BeginStart
  <1>3. ASSUME NEW p \in Runs, CommitStart(p)
        PROVE  FALSE
    BY <1>3 DEF CommitStart
  <1>4. ASSUME NEW p \in Runs, LoadMessages(p)
        PROVE  FALSE
    BY <1>4 DEF LoadMessages
  <1>5. ASSUME NEW p \in Runs, LoadState(p)
        PROVE  /\ HasContext(r) /\ asked[r] # 0
               /\ LET rows == NewestMessages(StateLimit)
                  IN  state'[r] = [question |-> LatestOf({m \in rows : IsQuestion(m)}),
                                   answer   |-> LatestOf({m \in rows : IsArtifact(m)})]
               /\ UNCHANGED <<kind, asked, before, table, window>>
    <2>1. p = r /\ pc'[r] = "work" /\ pc[r] = "load_state"
          /\ UNCHANGED <<kind, asked, before, table, window>>
      BY <1>5 DEF LoadState
    <2>2. HasContext(r) /\ asked[r] # 0
      BY <2>1 DEF HasContext, StampsOf
    <2> QED
      BY <1>5, <2>1, <2>2 DEF LoadState
  <1>6. ASSUME NEW p \in Runs, BeginFinish(p)
        PROVE  FALSE
    BY <1>6 DEF BeginFinish
  <1>7. ASSUME NEW p \in Runs, CommitFinish(p)
        PROVE  FALSE
    BY <1>7 DEF CommitFinish
  <1> QED
    BY <1>1, <1>2, <1>3, <1>4, <1>5, <1>6, <1>7 DEF Next

\* A state that was not stale stays so: the table only grows.
LEMMA StateStep ==
  ASSUME Core, Core', StateNotStale, [Next]_vars
  PROVE  StateNotStale'
  <1>0. StateNotStale <=> \A r \in Runs : HasState(r) => NotOlder(r) /\ LastNotStale(r)
    BY DEF StateNotStale, StateNotOlder, LastQuestionNotStale, HasState, NotOlder, LastNotStale
  <1>1. StateNotStale' <=> \A r \in Runs : HasState(r)' => NotOlder(r)' /\ LastNotStale(r)'
    BY DEF StateNotStale, StateNotOlder, LastQuestionNotStale, HasState, NotOlder, LastNotStale
  <1>2. table \subseteq table' /\ kind' = kind
    BY TypedStep DEF Core
  <1>3. \A m : Cardinality(Younger(m, table)) >= StateLimit
                 => Cardinality(Younger(m, table')) >= StateLimit
    BY <1>2, PushedOut DEF Core
  <1>4. ASSUME NEW r \in Runs, HasState(r)'
        PROVE  NotOlder(r)' /\ LastNotStale(r)'
    <2>1. CASE HasState(r)
      <3>1. HasContext(r)
        BY <2>1 DEF HasState, HasContext
      <3>2. /\ window'[r] = window[r] /\ asked'[r] = asked[r] /\ before'[r] = before[r]
            /\ state'[r] = state[r]
        BY <2>1, <3>1, ContextFixed
      <3>3. NotOlder(r) /\ LastNotStale(r)
        BY <1>0, <2>1
      <3> QED
        BY <1>2, <1>3, <3>2, <3>3 DEF NotOlder, LastNotStale, IsQuestion, IsArtifact
    <2>2. CASE ~ HasState(r)
      <3> DEFINE rows == NewestMessages(StateLimit)
                 question == LatestOf({m \in rows : IsQuestion(m)})
                 answer == LatestOf({m \in rows : IsArtifact(m)})
      <3>1. /\ asked[r] # 0 /\ state'[r] = [question |-> question, answer |-> answer]
            /\ UNCHANGED <<kind, asked, before, table, window>>
        BY <1>4, <2>2, StateGained
      <3>2. /\ \A m \in table :
                 /\ IsQuestion(m) => m.at <= question.at
                                     \/ Cardinality(Younger(m, table)) >= StateLimit
                 /\ IsArtifact(m) => m.at <= answer.at
                                     \/ Cardinality(Younger(m, table)) >= StateLimit
            /\ \/ question.at >= asked[r] /\ question.run \notin before[r]
               \/ \E m \in table : m.run = r /\ m.at = asked[r]
                                   /\ Cardinality(Younger(m, table)) >= StateLimit
        BY <3>1, StateLoaded
      <3>3. window[r] \subseteq table
        BY DEF Core, Typed
      <3> HIDE DEF question, answer
      <3> QED
        BY <3>1, <3>2, <3>3 DEF NotOlder, LastNotStale, IsQuestion, IsArtifact
    <2> QED
      BY <2>1, <2>2
  <1> QED
    BY <1>1, <1>4

\* It holds of the empty conversation.
LEMMA InvariantInit == Init => Inv
  <1> SUFFICES ASSUME Init PROVE Inv
    OBVIOUS
  <1>1. Started = {} /\ Answered = {}
    BY DEF Init, Started, Answered
  <1>2. Counted
    BY <1>1, FS_EmptySet DEF Init, Counted
  <1>3. Typed
    BY TypedInit
  <1>4. /\ \A r \in Runs : StampsOf(r)
        /\ Apart /\ Rows /\ Befores /\ Heard /\ StateNotStale
    BY DEF Init, StampsOf, Apart, Rows, Befores, Heard, StateNotStale, StateNotOlder,
           LastQuestionNotStale, HasContext, Loaded
  <1> QED
    BY <1>2, <1>3, <1>4 DEF Inv

\* It is preserved: the parts about the table first, then what rests on them.
LEMMA InvariantStep == Inv /\ [Next]_vars => Inv'
  <1> SUFFICES ASSUME Inv, [Next]_vars PROVE Inv'
    OBVIOUS
  <1>1. Core
    BY TableDated DEF Inv, Core, Stored
  <1>2. /\ Typed' /\ Counted' /\ (\A r \in Runs : StampsOf(r)')
        /\ Apart' /\ Rows' /\ Befores'
    BY <1>1, TypedStep, CountedStep, StampsStep, ApartStep, RowsStep, BeforesStep DEF Inv, Core
  <1>3. Dated(table)'
    <2>1. Stored'
      BY <1>2 DEF Stored
    <2> QED
      BY <2>1, TableDated, PTL
  <1>4. Core'
    BY <1>2, <1>3 DEF Core
  <1>5. Heard' /\ StateNotStale'
    BY <1>1, <1>4, HeardStep, StateStep DEF Inv
  <1> QED
    BY <1>2, <1>5 DEF Inv

\* It holds of every state.
LEMMA Invariant == Spec => []Inv
  BY InvariantInit, InvariantStep, PTL DEF Spec

-----------------------------------------------------------------------------
(* Theorems.                                                               *)

\* The state is of the declared types, and no run begins a third transaction.
THEOREM ConversationTypes == Spec => []TypeOK
  <1>1. Inv => TypeOK
    <2> SUFFICES ASSUME Inv PROVE TypeOK
      OBVIOUS
    <2>1. Started \in SUBSET Runs /\ Answered \in SUBSET Runs
      BY DEF Started, Answered
    <2>2. /\ Cardinality(Started) \in Nat /\ Cardinality(Answered) \in Nat
          /\ Cardinality(Runs) \in Nat
          /\ Cardinality(Started) <= Cardinality(Runs)
          /\ Cardinality(Answered) <= Cardinality(Runs)
      BY <2>1, ConversationAssumption, FS_Subset, FS_CardinalityType
    <2>3. clock \in Nat /\ clock <= 2 * Cardinality(Runs)
      BY <2>2 DEF Inv, Counted
    <2>4. 0..clock \subseteq Stamps
      BY <2>2, <2>3 DEF Stamps
    <2> QED
      BY <2>3, <2>4 DEF Inv, Typed, TypeOK, Stamps, Messages
  <1> QED
    BY <1>1, Invariant, PTL

\* Whatever other runs commit between a run's start and its load, its own question is in
\* the context it reasons with, or Limit younger messages are.
THEOREM RunsHearTheirQuestion == Spec => []OwnQuestionHeard
  <1>1. Inv => OwnQuestionHeard
    BY DEF Inv, Heard, OwnQuestionHeard, Question
  <1> QED
    BY <1>1, Invariant, PTL

\* A turn the caller knew to be over precedes the run's question in its context, question
\* before answer, although a message takes its place before it can be seen.
THEOREM KnownTurnsPrecede == Spec => []AnsweredTurnsPrecede
  <1>1. Inv => AnsweredTurnsPrecede
    <2> SUFFICES ASSUME Inv, NEW r \in Runs, HasContext(r), NEW q \in before[r]
                 PROVE  \E question \in table, answer \in table :
                          /\ question.run = q /\ question.role = "user"
                          /\ answer.run = q /\ answer.role = "assistant"
                          /\ question.at < answer.at /\ answer.at < asked[r]
                          /\ InWindow(question, r) /\ InWindow(answer, r)
      BY DEF AnsweredTurnsPrecede
    <2>1. q \in Runs /\ pc[q] = "done"
      BY DEF Inv, Typed, Befores
    <2>2. asked[q] # 0 /\ asked[q] < stamp[q]
      BY <2>1 DEF Inv, StampsOf
    <2>3. Question(q) \in table /\ Answer(q) \in table
      BY <2>1, <2>2 DEF Inv, Rows
    <2>4. InWindow(Question(q), r) /\ InWindow(Answer(q), r)
      BY DEF Inv, Heard
    <2>5. asked[r] # 0
      BY DEF Inv, HasContext, Loaded, StampsOf, Typed
    <2>6. stamp[q] < asked[r]
      BY <2>5 DEF Inv, Befores
    <2>7. /\ Question(q).run = q /\ Question(q).role = "user" /\ Question(q).at = asked[q]
          /\ Answer(q).run = q /\ Answer(q).role = "assistant" /\ Answer(q).at = stamp[q]
      BY DEF Question, Answer
    <2> QED
      BY <2>2, <2>3, <2>4, <2>6, <2>7
  <1> QED
    BY <1>1, Invariant, PTL

\* The state a run starts from is older neither than the messages it has read nor than
\* what its caller knew, although it is read in another transaction.
THEOREM ConversationStateIsFresh == Spec => []StateNotStale
  <1>1. Inv => StateNotStale
    BY DEF Inv
  <1> QED
    BY <1>1, Invariant, PTL
=============================================================================
