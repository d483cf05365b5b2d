------------------------------ MODULE Pipeline ------------------------------
(***************************************************************************)
(* From the collection of a sample to its row in the database: an agent    *)
(* that posts one sample at a time, in the order of collection, and the    *)
(* backend of module ControlPlane, whose workers go on with requests the   *)
(* agent has given up on.                                                  *)
(*                                                                         *)
(* Of the agent there is what the other side can tell (module Agent has    *)
(* the rest): what it holds, the request it waits for, and that it keeps a *)
(* sample until an answer confirms it.  Keys are not revoked here.         *)
(***************************************************************************)
EXTENDS ControlPlane, Sequences

CONSTANTS
  Key, Host,    \* of the agent
  Capacity      \* max_buffer_size_

\* A request of the agent, and what has come of it.
Flights == [worker : Workers, sample : Samples, answer : {None, "ok", "error"}]

ASSUME PipelineAssumption ==
  /\ Key \in Keys /\ Host \in Hosts
  /\ Capacity \in Nat
  /\ None \notin Flights /\ None \notin {"ok", "error"}

VARIABLES
  produced,     \* every sample collected
  queue,        \* what the agent holds, oldest first
  running,      \* FALSE once the agent was told to stop, or has died
  flight,       \* the request the agent waits for, or None
  ever,         \* every sample a transaction has committed
  erased,       \* those deleted with their agent
  confirmed,    \* those the agent has been told are stored
  healed        \* from now on answers come, and no user interferes

agent == <<produced, queue, running>>
books == <<ever, erased, confirmed>>
all   == <<vars, agent, flight, books, healed>>

PipelineInit ==
  /\ Init
  /\ produced = {} /\ queue = << >> /\ running = TRUE
  /\ flight = None
  /\ ever = {} /\ erased = {} /\ confirmed = {}
  /\ healed = FALSE
-----------------------------------------------------------------------------
(* The agent *)

Collect ==
  LET s == Cardinality(produced) + 1
  IN  /\ running /\ flight = None
      /\ Len(queue) =< Capacity /\ s \in Samples
      /\ produced' = produced \cup {s}
      /\ queue' = Append(queue, s)
      /\ UNCHANGED <<vars, running, flight, books, healed>>

Send(w) ==
  /\ flight = None /\ queue # << >>
  /\ PostMetrics(w, Key, Host, Head(queue))
  /\ flight' = [worker |-> w, sample |-> Head(queue), answer |-> None]
  /\ UNCHANGED <<agent, books, healed>>

Confirm ==
  /\ flight # None /\ flight.answer = "ok"
  /\ queue' = Tail(queue)
  /\ confirmed' = confirmed \cup {flight.sample}
  /\ flight' = None
  /\ UNCHANGED <<vars, produced, running, ever, erased, healed>>

Drop == queue' = Tail(queue)      \* mutant: what was not confirmed is forgotten
\* What was not confirmed is buffered, at the cost of the oldest.
Keep == queue' = IF Len(queue) > Capacity THEN Tail(queue) ELSE queue

\* An answer that is no success, a timeout, or an answer that is lost.
GiveUp ==
  /\ flight # None
  /\ flight.answer # "error" => ~healed
  /\ Keep
  /\ flight' = None
  /\ UNCHANGED <<vars, produced, running, books, healed>>

Stop ==
  /\ running /\ ~healed
  /\ running' = FALSE
  /\ UNCHANGED <<vars, produced, queue, flight, books, healed>>

Die ==
  /\ ~healed
  /\ running' = FALSE /\ queue' = << >> /\ flight' = None
  /\ UNCHANGED <<vars, produced, books, healed>>

Revive ==
  /\ ~running /\ queue = << >>
  /\ running' = TRUE
  /\ UNCHANGED <<vars, produced, queue, flight, books, healed>>
-----------------------------------------------------------------------------
(* The backend *)

Awaited(w) == flight # None /\ flight.worker = w /\ flight.answer = None

AnswerEarly(w) ==                \* mutant: the answer does not wait for the COMMIT
  req'[w].at \in {"add", "idle"}
\* The worker is done: an answer leaves when ingest_metrics has returned, after its
\* COMMIT.
Returns(w) == req'[w] = Idle

Reply(w, answer) ==
  flight' = IF Awaited(w) /\ Returns(w) THEN [flight EXCEPT !.answer = answer] ELSE flight

Book ==
  /\ ever' = ever \cup { r.sample : r \in history' }
  /\ erased' = erased \cup { r.sample : r \in history \ history' }
  /\ UNCHANGED <<agent, confirmed, healed>>

Work(w) == Continue(w) /\ Reply(w, "ok") /\ Book

\* A transaction that can have the lock and yet not go on has raised.
Raises(w) == lock \in {w, None} /\ ~ENABLED Continue(w)

WorkFails(w) == (healed => Raises(w)) /\ Fail(w) /\ Reply(w, "error") /\ Book

\* The bound on the agents ever created leaves room for one more, and nobody sets
\* the defaults again.
RequestOf(w) ==
  \/ \E a \in AgentIds : created < MaxAgents /\ DeleteAgent(w, a)
  \/ \E a \in AgentIds, s \in Settings \ {DefaultSettings} : UpdateSettings(w, a, s)

UserRequest(w) == ~healed /\ RequestOf(w) /\ UNCHANGED <<agent, flight, books, healed>>

IssueKey == CreateKey(Key) /\ UNCHANGED <<agent, flight, books, healed>>

Heal == ~healed /\ healed' = TRUE /\ UNCHANGED <<vars, agent, flight, books>>
-----------------------------------------------------------------------------
PipelineNext ==
  \/ Collect \/ Confirm \/ GiveUp \/ Stop \/ Die \/ Revive
  \/ \E w \in Workers : Send(w) \/ Work(w) \/ WorkFails(w) \/ UserRequest(w)
  \/ IssueKey \/ Heal

PipelineSpec == PipelineInit /\ [][PipelineNext]_all

\* A worker of the thread pool is not stopped; the loop of the agent goes on.
FairPipeline ==
  /\ PipelineSpec
  /\ \A w \in Workers : WF_all(Work(w)) /\ WF_all(healed /\ WorkFails(w))
  /\ WF_all(\E w \in Workers : Send(w)) /\ WF_all(Confirm) /\ WF_all(healed /\ GiveUp)
  /\ WF_all(IssueKey)
-----------------------------------------------------------------------------
PipelineTypeOK ==
  /\ TypeOK
  /\ produced \subseteq Samples /\ queue \in Seq(produced) /\ Len(queue) =< Capacity + 1
  /\ flight \in {None} \cup Flights
  /\ {running, healed} \subseteq BOOLEAN

O == INSTANCE Outbox WITH Sample <- Samples, Unsendable <- {}, stored <- ever

\* Agent and backend together are the at-least-once queue of Outbox: a sample leaves
\* the agent's memory when it has been committed, for want of room, or with the process
\* (sendMetricsInternal, ingest_metrics).
PipelinePromise == O!Spec

\* What the agent was told is stored is in the database, in spite of requests it has
\* given up on, retries, failures and restarts, unless its owner has deleted it since.
ConfirmedIsKept ==
  confirmed \subseteq { r.sample : r \in history } \cup erased

\* Once answers come in time and users leave the database alone, the agent gets rid
\* of all it holds, whatever requests are still under way or have left behind.
QueueDrains == healed /\ running ~> queue = << >>
-----------------------------------------------------------------------------
(* The inductive invariant *)

Posts(w) == req[w].at \in {"touch", "find", "flush"} \cup Storing
InHistory == { r.sample : r \in history }

\* The agent waits for the oldest sample it holds: a worker has that very sample, or
\* has answered, and then with success only after a commit.
FlightFits ==
  flight # None =>
    /\ queue # << >> /\ flight.sample = Head(queue)
    /\ flight.answer = None =>
         Posts(flight.worker) /\ req[flight.worker].sample = flight.sample
    /\ flight.answer = "ok" => flight.sample \in ever

\* What is under way, also for an agent that has given it up, was collected.
OnlyProducedIsPosted ==
  \A w \in Workers : Posts(w) => req[w].sample \in produced

BooksBalance ==
  /\ InHistory \subseteq ever /\ confirmed \subseteq ever /\ ever \subseteq produced
  /\ ever \subseteq InHistory \cup erased

PipelineInv ==
  /\ PipelineTypeOK
  /\ FlightFits
  /\ OnlyProducedIsPosted
  /\ BooksBalance
=============================================================================
