---------------------------- MODULE Conversation ----------------------------
(***************************************************************************)
(* Concurrent runs in one conversation: the messages each commits to       *)
(* ai.messages and the context each reads back before it reasons           *)
(* (services/agent-api/app/agent/conversation.py).                         *)
(*                                                                         *)
(* created_at defaults to now(), the time at which the transaction began:  *)
(* a message takes its place in the conversation before it can be seen     *)
(* there.  Two transactions never begin at the same microsecond here.      *)
(* A process that dies leaves its runs where they are and its open         *)
(* transactions rolled back, which is a run that takes no further step.    *)
(***************************************************************************)
EXTENDS Naturals, FiniteSets, Transactions

CONSTANTS
  Runs,    \* runs in the conversation
  Limit    \* settings.agent_conversation_message_limit

ASSUME ConversationAssumption == Limit \in Nat /\ IsFiniteSet(Runs)

VARIABLES
  kind,     \* kind[r]: "agent" reads the context; "script" (food-cost stream) does not
  pc,       \* pc[r]: where the run is
  clock,    \* transactions begun so far: the server's now()
  stamp,    \* stamp[r]: now() of the run's last transaction
  table,    \* ai.messages of the conversation, committed rows
  asked,    \* asked[r]: created_at of its question, 0 before it is committed
  window,   \* window[r]: rows load_conversation_messages returned
  state,    \* state[r]: rows the ConversationState of r was built from
  before    \* before[r]: runs whose outcome the caller knew when r began (history)

context == <<window, state>>
vars    == <<kind, pc, clock, stamp, table, asked, context, before>>

PCs    == {"idle", "starting", "load_messages", "load_state", "work", "finishing",
           "done", "failed", "broken"}
Loaded == {"load_state", "work", "finishing", "done"}

NoMessage == [run |-> "none", role |-> "none", at |-> 0]

\* Sized by the transactions a run begins: one to start, one to finish.
Stamps   == 0..2 * Cardinality(Runs)
Messages == [run : Runs, role : {"user", "assistant"}, at : Stamps]

TypeOK ==
  /\ kind \in [Runs -> {"agent", "script"}]
  /\ pc \in [Runs -> PCs]
  /\ clock \in Stamps
  /\ stamp \in [Runs -> Stamps]
  /\ table \subseteq Messages
  /\ asked \in [Runs -> Stamps]
  /\ window \in [Runs -> SUBSET table]
  /\ state \in [Runs -> [question : table \cup {NoMessage}, answer : table \cup {NoMessage}]]
  /\ before \in [Runs -> SUBSET Runs]

Init ==
  /\ kind \in [Runs -> {"agent", "script"}]
  /\ pc = [r \in Runs |-> "idle"]
  /\ clock = 0
  /\ stamp = [r \in Runs |-> 0]
  /\ table = {}
  /\ asked = [r \in Runs |-> 0]
  /\ window = [r \in Runs |-> {}]
  /\ state = [r \in Runs |-> [question |-> NoMessage, answer |-> NoMessage]]
  /\ before = [r \in Runs |-> {}]

-----------------------------------------------------------------------------
Goto(r, next) == pc' = [pc EXCEPT ![r] = next]

Begin(r) ==
  /\ clock' = clock + 1
  /\ stamp' = [stamp EXCEPT ![r] = clock + 1]

\* COMMIT of the transaction that inserts one message of r.
Insert(r, role, o) ==
  table' = IF Applied(o) THEN table \cup {[run |-> r, role |-> role, at |-> stamp[r]]} ELSE table

Younger(m, S) == {x \in S : x.at > m.at}

\* Isolation that lets a load see rows of open transactions.
UncommittedMessages(n) ==
  table \cup {[run |-> r, role |-> "assistant", at |-> stamp[r]] : r \in {q \in Runs : pc[q] = "finishing"}}

\* Without DESC the LIMIT keeps the first messages of the conversation.
OldestMessages(n) == {m \in table : Cardinality({x \in table : x.at < m.at}) < n}

\* ORDER BY created_at DESC LIMIT n.
NewestMessages(n) == {m \in table : Cardinality(Younger(m, table)) < n}

FirstOf(S) ==
  IF S = {} THEN NoMessage ELSE CHOOSE m \in S : \A x \in S : m.at <= x.at

\* The first row of a scan in descending order.
LatestOf(S) ==
  IF S = {} THEN NoMessage ELSE CHOOSE m \in S : \A x \in S : x.at <= m.at

StateLimit == IF Limit < 3 THEN 3 ELSE Limit

\* _parse_artifact: only the artifacts of the agent carry agent_mode.
IsQuestion(m) == m.role = "user"
IsArtifact(m) == m.role = "assistant" /\ kind[m.run] = "agent"

-----------------------------------------------------------------------------
BeginStart(r) ==
  /\ pc[r] = "idle"
  /\ Begin(r)
  /\ before' = [before EXCEPT ![r] = {q \in Runs : pc[q] = "done"}]
  /\ Goto(r, "starting")
  /\ UNCHANGED <<kind, table, asked, context>>

CommitStart(r) ==
  /\ pc[r] = "starting"
  /\ \E o \in TxOutcomes :
       /\ Insert(r, "user", o)
       /\ asked' = IF Applied(o) THEN [asked EXCEPT ![r] = stamp[r]] ELSE asked
       /\ Goto(r, IF Raises(o) THEN "broken"
                  ELSE IF kind[r] = "agent" THEN "load_messages" ELSE "work")
  /\ UNCHANGED <<kind, clock, stamp, context, before>>

\* A load that fails ends the run.
LoadMessages(r) ==
  /\ pc[r] = "load_messages"
  /\ \/ Goto(r, "failed") /\ UNCHANGED window
     \/ Goto(r, "load_state") /\ window' = [window EXCEPT ![r] = NewestMessages(Limit)]
  /\ UNCHANGED <<kind, clock, stamp, table, asked, state, before>>

\* A second transaction: it may see messages the first did not.
LoadState(r) ==
  /\ pc[r] = "load_state"
  /\ \/ Goto(r, "failed") /\ UNCHANGED state
     \/ LET rows == NewestMessages(StateLimit) IN
        /\ Goto(r, "work")
        /\ state' = [state EXCEPT ![r] =
                       [question |-> LatestOf({m \in rows : IsQuestion(m)}),
                        answer   |-> LatestOf({m \in rows : IsArtifact(m)})]]
  /\ UNCHANGED <<kind, clock, stamp, table, asked, window, before>>

\* The run works, and fails or goes on to its last transaction.
BeginFinish(r) ==
  /\ pc[r] = "work"
  /\ \/ Goto(r, "failed") /\ UNCHANGED <<clock, stamp>>
     \/ Begin(r) /\ Goto(r, "finishing")
  /\ UNCHANGED <<kind, table, asked, context, before>>

CommitUnchecked(r) ==
  /\ pc[r] = "finishing"
  /\ \E o \in TxOutcomes : Insert(r, "assistant", o) /\ Goto(r, "done")
  /\ UNCHANGED <<kind, clock, stamp, asked, context, before>>

\* The caller learns of the answer after its COMMIT.
CommitFinish(r) ==
  /\ pc[r] = "finishing"
  /\ \E o \in TxOutcomes :
       Insert(r, "assistant", o) /\ Goto(r, IF Raises(o) THEN "failed" ELSE "done")
  /\ UNCHANGED <<kind, clock, stamp, asked, context, before>>

Next ==
  \E r \in Runs :
    \/ BeginStart(r) \/ CommitStart(r) \/ LoadMessages(r) \/ LoadState(r)
    \/ BeginFinish(r) \/ CommitFinish(r)

Spec == Init /\ [][Next]_vars

-----------------------------------------------------------------------------
(* Properties.                                                             *)

HasContext(r) == kind[r] = "agent" /\ pc[r] \in Loaded

\* Only a full window of younger messages can keep m out of the window of r.
InWindow(m, r) == m \in window[r] \/ Cardinality(Younger(m, window[r])) = Limit

\* A run reasons with its own question in its context, whatever concurrent runs of the
\* conversation commit between its start and its load, unless Limit younger messages
\* have pushed it out.
OwnQuestionHeard ==
  \A r \in Runs : HasContext(r) =>
    InWindow([run |-> r, role |-> "user", at |-> asked[r]], r)

\* Read your conversation: a run that began after its caller was told of an answer has
\* that question and that answer in its context, in this order and before its own
\* question (or pushed out by younger messages), however the transactions of other
\* runs interleave and although created_at is not the time of the COMMIT.
AnsweredTurnsPrecede ==
  \A r \in Runs : HasContext(r) =>
    \A q \in before[r] :
      \E question \in table, answer \in table :
        /\ question.run = q /\ question.role = "user"
        /\ answer.run = q /\ answer.role = "assistant"
        /\ question.at < answer.at /\ answer.at < asked[r]
        /\ InWindow(question, r) /\ InWindow(answer, r)

\* The last question of the state is the run's own, or one asked after it: never one of a
\* turn that its caller knew to be over (unless StateLimit younger messages have pushed
\* its own out).  Concurrent questions can only overtake it (conversation.py).
LastQuestionNotStale ==
  \A r \in Runs : kind[r] = "agent" /\ pc[r] \in Loaded \ {"load_state"} =>
    \/ /\ state[r].question.at >= asked[r]
       /\ state[r].question.run \notin before[r]
    \/ \E m \in table : m.run = r /\ m.at = asked[r] /\ Cardinality(Younger(m, table)) >= StateLimit

\* The conversation state is read after the messages, in another transaction: it never
\* rests on an older question or an older artifact than the messages do (unless
\* StateLimit younger messages have pushed that artifact out).
StateNotOlder ==
  \A r \in Runs : kind[r] = "agent" /\ pc[r] \in Loaded \ {"load_state"} =>
    \A m \in window[r] :
      /\ IsQuestion(m) => m.at <= state[r].question.at
                          \/ Cardinality(Younger(m, table)) >= StateLimit
      /\ IsArtifact(m) => m.at <= state[r].answer.at
                          \/ Cardinality(Younger(m, table)) >= StateLimit

\* The state a run starts from is not stale: neither than the messages it has read, nor
\* than what its caller knew.
StateNotStale == StateNotOlder /\ LastQuestionNotStale
=============================================================================
