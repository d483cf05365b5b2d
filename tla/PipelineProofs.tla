---------------------------- MODULE PipelineProofs ----------------------------
(***************************************************************************)
(* Agent and backend together, for every value of the constants: Pipeline  *)
(* is the backend of ControlPlane with one particular client, its books    *)
(* balance, and it implements Outbox.                                      *)
(***************************************************************************)
EXTENDS Pipeline, ControlPlaneProofs, SequenceTheorems

USE PipelineAssumption

\* A request of the agent goes on with the sample it carries until it has committed it,
\* and no other request puts anything into the history.
LEMMA ContinueStores ==
  ASSUME IInv, NEW w \in Workers, Continue(w)
  PROVE  /\ \A v \in Workers \ {w} : req'[v] = req[v]
         /\ \A r \in history' \ history : Posts(w) /\ r.sample = req[w].sample
         /\ ~Posts(w) => ~Posts(w)'
         /\ Posts(w) /\ req'[w] # Idle => Posts(w)' /\ req'[w].sample = req[w].sample
         /\ Posts(w) /\ req'[w] = Idle => \E r \in history' : r.sample = req[w].sample
<1>t. TypeOK /\ req \in [Workers -> Requests]
  BY DEF IInv, TypeOK
<1> USE DEF Posts, Storing, Goto
<1>1. CASE TouchKey(w)
  <2>1. req[w] \in Arriving /\ req' = [req EXCEPT ![w] = [req[w] EXCEPT !.at = "find"]]
    BY <1>t, <1>1, KindOfRequest DEF TouchKey
  <2>2. /\ [req[w] EXCEPT !.at = "find"].at = "find"
        /\ [req[w] EXCEPT !.at = "find"].sample = req[w].sample
    BY <2>1 DEF Arriving
  <2> QED
    BY <1>t, <1>1, <2>1, <2>2 DEF TouchKey, Idle
<1>2. CASE FindAgent(w)
  <2>1. PICK a, row :
          req' = [req EXCEPT ![w] =
                    [at |-> "flush", key |-> req[w].key, host |-> req[w].host,
                     sample |-> req[w].sample, agent |-> a, row |-> row]]
    BY <1>2 DEF FindAgent
  <2> QED
    BY <1>t, <1>2, <2>1 DEF FindAgent, tables, Idle
<1>3. CASE FlushAgent(w) \/ LookUpSample(w)
  <2>1. PICK next \in Storing : req' = [req EXCEPT ![w] = [req[w] EXCEPT !.at = next]]
    BY <1>3 DEF FlushAgent, LookUpSample
  <2>2. req[w] \in Posting
    BY <1>t, <1>3, KindOfRequest DEF FlushAgent, LookUpSample
  <2>3. /\ [req[w] EXCEPT !.at = next].at = next
        /\ [req[w] EXCEPT !.at = next].sample = req[w].sample
    BY <2>2 DEF Posting
  <2> QED
    BY <1>t, <1>3, <2>1, <2>2, <2>3 DEF FlushAgent, LookUpSample, tables, Idle
<1>4. CASE InsertAgent(w) \/ UpdateAgent(w)
  <2>1. /\ \A r \in history' \ history : r.sample = req[w].sample
        /\ \E r \in history' : r.sample = req[w].sample
    BY <1>4, CommitStores
  <2>2. req' = [req EXCEPT ![w] = Idle] /\ req[w].at \in {"add", "repeat"}
    BY <1>4 DEF InsertAgent, UpdateAgent, AddSample, Answer
  <2> QED
    BY <1>t, <2>1, <2>2
<1>5. CASE ListSamples(w) \/ Erase(w) \/ SaveSettings(w) \/ Revoke(w)
           \/ LinkedAgents(w) \/ Unlink(w)
  <2>1. ~Posts(w) /\ history' \subseteq history
    BY <1>5 DEF ListSamples, Erase, SaveSettings, Revoke, LinkedAgents, Unlink, tables
  <2>2. /\ req'[w].at \in {"erase", "unlink", "idle"}
        /\ \A v \in Workers \ {w} : req'[v] = req[v]
    BY <1>t, <1>5 DEF ListSamples, Erase, SaveSettings, Revoke, LinkedAgents, Unlink, Answer, Idle
  <2> QED
    BY <1>t, <2>1, <2>2
<1> QED
  BY <1>1, <1>2, <1>3, <1>4, <1>5 DEF Continue

\* Every step of the pipeline is a step of the backend, or none of its business.
LEMMA BackendStep ==
  ASSUME PipelineTypeOK, [PipelineNext]_all
  PROVE  [Next]_vars
<1>1. CASE Collect \/ Confirm \/ GiveUp \/ Stop \/ Die \/ Revive \/ Heal \/ UNCHANGED all
  BY <1>1 DEF Collect, Confirm, GiveUp, Stop, Die, Revive, Heal, all
<1>2. ASSUME NEW w \in Workers, Send(w) PROVE Next
  <2>1. Head(queue) \in Samples
    BY <1>2 DEF PipelineTypeOK, Send
  <2> QED
    BY <1>2, <2>1 DEF Send, Begin, Next
<1>3. ASSUME NEW w \in Workers, Work(w) \/ WorkFails(w) PROVE Next
  BY <1>3 DEF Work, WorkFails, Next
<1>4. ASSUME NEW w \in Workers, UserRequest(w) PROVE Next
  BY <1>4 DEF UserRequest, RequestOf, Begin, Next
<1>5. CASE IssueKey
  BY <1>5 DEF IssueKey, Next
<1> QED
  BY <1>1, <1>2, <1>3, <1>4, <1>5 DEF PipelineNext

\* Nothing has been collected or posted at the beginning.
LEMMA PipelineInitially == PipelineInit => IInv /\ PipelineInv
<1> SUFFICES ASSUME PipelineInit PROVE IInv /\ PipelineInv
  OBVIOUS
<1> USE DEF PipelineInit
<1>1. IInv /\ TypeOK
  BY Initially DEF IInv
<1>2. PipelineTypeOK
  <2>1. queue \in Seq(produced) /\ Len(queue) =< Capacity + 1
    BY EmptySeq
  <2>2. {running, healed} \subseteq BOOLEAN
    OBVIOUS
  <2> QED
    BY <1>1, <2>1, <2>2 DEF PipelineTypeOK
<1>3. \A w \in Workers : ~Posts(w)
  BY DEF Init, Posts, Storing, Idle
<1>4. history = {}
  BY DEF Init
<1> QED
  BY <1>1, <1>2, <1>3, <1>4
     DEF PipelineInv, FlightFits, OnlyProducedIsPosted, BooksBalance, InHistory

\* The invariant of the backend, and the types with it, are kept in the pair.
LEMMA InvariantTyped == IInv /\ [PipelineNext]_all /\ PipelineInv => IInv' /\ TypeOK'
<1>1. IInv /\ [PipelineNext]_all /\ PipelineInv => IInv'
  BY BackendStep, Inductive DEF PipelineInv
<1> QED
  BY <1>1 DEF IInv

\* Steps of the agent that concern neither the backend nor the books.
LEMMA AgentKeeps ==
  ASSUME PipelineInv, TypeOK', Collect \/ GiveUp \/ Stop \/ Die \/ Revive \/ Heal
  PROVE  PipelineInv'
<1>0. /\ PipelineTypeOK /\ FlightFits /\ OnlyProducedIsPosted /\ BooksBalance
      /\ UNCHANGED <<vars, books>>
  BY DEF PipelineInv, Collect, GiveUp, Stop, Die, Revive, Heal
<1>1. produced \subseteq produced' /\ produced' \subseteq Samples
  BY <1>0 DEF Collect, GiveUp, Stop, Die, Revive, Heal, agent, PipelineTypeOK
<1>2. OnlyProducedIsPosted' /\ BooksBalance'
  BY <1>0, <1>1 DEF OnlyProducedIsPosted, BooksBalance, Posts, InHistory, vars, books, tables
<1>3. queue' \in Seq(produced') /\ Len(queue') =< Capacity + 1
  <2>t. queue \in Seq(produced) /\ Len(queue) \in Nat /\ Len(queue) =< Capacity + 1
    BY <1>0 DEF PipelineTypeOK
  <2>1. CASE Collect
    <3>1. PICK s \in Samples : produced' = produced \cup {s} /\ queue' = Append(queue, s)
      BY <2>1 DEF Collect
    <3>2. queue \in Seq(produced')
      BY <2>t, <3>1, SeqMonotonic
    <3> QED
      BY <2>t, <2>1, <3>1, <3>2, AppendProperties DEF Collect
  <2>2. CASE GiveUp
    <3>1. queue' = queue \/ (queue # << >> /\ queue' = Tail(queue))
      BY <2>2, EmptySeq DEF GiveUp, Keep
    <3> QED
      BY <2>t, <2>2, <3>1, HeadTailProperties DEF GiveUp
  <2>3. CASE Die
    BY <2>3, EmptySeq DEF Die
  <2>4. CASE Stop \/ Revive \/ Heal
    BY <2>t, <2>4 DEF Stop, Revive, Heal, agent
  <2> QED
    BY <2>1, <2>2, <2>3, <2>4
<1>4. flight' \in {flight, None}
  BY DEF Collect, GiveUp, Stop, Die, Revive, Heal
<1>5. {running', healed'} \subseteq BOOLEAN
  BY <1>0 DEF PipelineTypeOK, Collect, GiveUp, Stop, Die, Revive, Heal, agent
<1>6. PipelineTypeOK'
  BY <1>0, <1>1, <1>3, <1>4, <1>5 DEF PipelineTypeOK
<1>7. FlightFits'
  <2>1. CASE flight' = None
    BY <2>1 DEF FlightFits
  <2>2. CASE flight' # None
    <3>1. flight' = flight /\ queue' = queue /\ ever' = ever /\ req' = req
      BY <1>0, <1>4, <2>2
         DEF Collect, GiveUp, Stop, Die, Revive, Heal, agent, vars, books
    <3> QED
      BY <1>0, <3>1 DEF FlightFits, Posts
  <2> QED
    BY <2>1, <2>2
<1> QED
  BY <1>2, <1>6, <1>7 DEF PipelineInv

\* What the agent is told is stored leaves the queue as one of the books.
LEMMA ConfirmKeeps ==
  ASSUME PipelineInv, TypeOK', Confirm
  PROVE  PipelineInv'
<1>0. /\ PipelineTypeOK /\ FlightFits /\ OnlyProducedIsPosted /\ BooksBalance
      /\ UNCHANGED <<vars, produced, running, ever, erased, healed>> /\ flight' = None
  BY DEF PipelineInv, Confirm
<1>1. queue # << >> /\ flight.sample \in ever
  BY <1>0 DEF Confirm, FlightFits
<1>2. queue' \in Seq(produced) /\ Len(queue') =< Capacity + 1
  BY <1>0, <1>1, HeadTailProperties DEF Confirm, PipelineTypeOK
<1>3. PipelineTypeOK' /\ FlightFits'
  BY <1>0, <1>2 DEF PipelineTypeOK, FlightFits
<1>4. OnlyProducedIsPosted'
  BY <1>0 DEF OnlyProducedIsPosted, Posts, vars
<1>5. BooksBalance'
  BY <1>0, <1>1 DEF BooksBalance, InHistory, Confirm, vars, tables
<1> QED
  BY <1>3, <1>4, <1>5 DEF PipelineInv

\* Steps of the agent and its user that change one worker's request and no table.
LEMMA RequestsKeep ==
  ASSUME PipelineInv, TypeOK', NEW w \in Workers, Send(w) \/ UserRequest(w)
  PROVE  PipelineInv'
<1>0. /\ PipelineTypeOK /\ FlightFits /\ OnlyProducedIsPosted /\ BooksBalance
      /\ UNCHANGED <<tables, agent, books, healed>> /\ req[w] = Idle
      /\ req \in [Workers -> Requests]
  BY DEF PipelineInv, PipelineTypeOK, TypeOK, Send, UserRequest, PostMetrics, RequestOf,
         DeleteAgent, UpdateSettings
<1>1. BooksBalance'
  BY <1>0 DEF BooksBalance, InHistory, tables, agent, books
<1>2. CASE Send(w)
  <2>1. /\ Head(queue) \in produced /\ Head(queue) \in Samples /\ queue # << >>
    BY <1>0, <1>2 DEF Send, PipelineTypeOK
  <2>2. /\ req'[w].at = "touch" /\ req'[w].sample = Head(queue)
        /\ \A v \in Workers \ {w} : req'[v] = req[v]
        /\ flight' = [worker |-> w, sample |-> Head(queue), answer |-> None]
    BY <1>0, <1>2 DEF Send, PostMetrics, Goto
  <2>3. PipelineTypeOK'
    BY <1>0, <2>1, <2>2 DEF PipelineTypeOK, agent, Flights
  <2>4. FlightFits'
    BY <1>0, <2>1, <2>2 DEF FlightFits, Posts, agent
  <2>5. OnlyProducedIsPosted'
    BY <1>0, <2>1, <2>2 DEF OnlyProducedIsPosted, Posts, agent
  <2> QED
    BY <1>1, <2>3, <2>4, <2>5 DEF PipelineInv
<1>3. CASE UserRequest(w)
  <2>1. /\ req'[w].at \in {"list", "save"} /\ flight' = flight
        /\ \A v \in Workers \ {w} : req'[v] = req[v]
    BY <1>0, <1>3 DEF UserRequest, RequestOf, DeleteAgent, UpdateSettings, Goto
  <2>2. \A v \in Workers : Posts(v)' => Posts(v) /\ req'[v] = req[v]
    BY <2>1 DEF Posts, Storing
  <2>3. ~Posts(w)
    BY <1>0 DEF Posts, Storing, Idle
  <2>4. PipelineTypeOK'
    BY <1>0, <2>1 DEF PipelineTypeOK, agent
  <2>5. FlightFits'
    BY <1>0, <2>1, <2>3 DEF FlightFits, agent, books, PipelineTypeOK, Flights, Posts
  <2>6. OnlyProducedIsPosted'
    BY <1>0, <2>2 DEF OnlyProducedIsPosted, agent
  <2> QED
    BY <1>1, <2>4, <2>5, <2>6 DEF PipelineInv
<1> QED
  BY <1>2, <1>3

\* The books after a step of a worker.
LEMMA BookKeeps ==
  ASSUME PipelineInv, Book, NEW s,
         \A r \in history' \ history : r.sample = s /\ s \in produced
  PROVE  /\ BooksBalance' /\ ever \subseteq ever' /\ InHistory' \subseteq ever'
         /\ \A e \in ever' : e \in ever \/ e = s
         /\ UNCHANGED <<produced, queue, running, healed>>
<1>0. BooksBalance /\ UNCHANGED <<produced, queue, running, confirmed, healed>>
  BY DEF PipelineInv, Book, agent
<1>1. /\ ever' = ever \cup InHistory'
      /\ erased' = erased \cup { r.sample : r \in history \ history' }
  BY DEF Book, InHistory
<1>2. \A e \in InHistory' : e \in InHistory \/ (e = s /\ s \in produced)
  BY DEF InHistory
<1>3. \A e \in InHistory : e \in InHistory' \/ e \in erased'
  BY <1>1 DEF InHistory
<1>4. BooksBalance'
  BY <1>0, <1>1, <1>2, <1>3 DEF BooksBalance
<1> QED
  BY <1>0, <1>1, <1>2, <1>4 DEF BooksBalance

\* The answer a worker's step gives, if it gives one, fits.
LEMMA ReplyFits ==
  ASSUME PipelineInv, NEW w \in Workers, NEW answer \in {"ok", "error"}, Reply(w, answer),
         \A v \in Workers \ {w} : req'[v] = req[v],
         Posts(w) /\ req'[w] # Idle => Posts(w)' /\ req'[w].sample = req[w].sample,
         Posts(w) /\ req'[w] = Idle /\ answer = "ok" => req[w].sample \in ever',
         queue' = queue, ever \subseteq ever'
  PROVE  FlightFits' /\ flight' \in {None} \cup Flights
<1>0. FlightFits /\ flight \in {None} \cup Flights
  BY DEF PipelineInv, PipelineTypeOK
<1>1. CASE flight = None
  BY <1>1 DEF Reply, Awaited, FlightFits
<1>2. CASE flight # None /\ ~(Awaited(w) /\ Returns(w))
  <2>1. flight' = flight /\ flight \in Flights
    BY <1>0, <1>2 DEF Reply
  <2>2. flight.answer = None =>
          Posts(flight.worker)' /\ req'[flight.worker].sample = flight.sample
    BY <1>0, <1>2, <2>1 DEF FlightFits, Awaited, Returns, Posts, Flights
  <2> QED
    BY <1>0, <2>1, <2>2 DEF FlightFits, Posts
<1>3. CASE flight # None /\ Awaited(w) /\ Returns(w)
  <2>1. flight' = [flight EXCEPT !.answer = answer] /\ flight \in Flights
    BY <1>0, <1>3 DEF Reply
  <2>2. /\ flight' \in Flights /\ flight'.answer = answer /\ flight'.sample = flight.sample
        /\ answer # None
    BY <2>1 DEF Flights
  <2>3. answer = "ok" => flight.sample \in ever'
    BY <1>0, <1>3 DEF FlightFits, Awaited, Returns
  <2> QED
    BY <1>0, <1>3, <2>2, <2>3 DEF FlightFits
<1> QED
  BY <1>1, <1>2, <1>3

\* A worker goes on, or raises.
LEMMA WorkersKeep ==
  ASSUME IInv, PipelineInv, TypeOK', NEW w \in Workers, Work(w) \/ WorkFails(w)
  PROVE  /\ PipelineInv'
         /\ UNCHANGED <<produced, queue, running>>
         /\ ever' = ever \/ \E s \in produced : ever' = ever \cup {s}
<1>0. /\ PipelineTypeOK /\ OnlyProducedIsPosted /\ Book
      /\ \E answer \in {"ok", "error"} : Reply(w, answer)
      /\ req \in [Workers -> Requests]
  BY DEF PipelineInv, PipelineTypeOK, TypeOK, Work, WorkFails
<1>1. /\ \A v \in Workers \ {w} : req'[v] = req[v]
      /\ \A r \in history' \ history : Posts(w) /\ r.sample = req[w].sample
      /\ ~Posts(w) => ~Posts(w)'
      /\ Posts(w) /\ req'[w] # Idle => Posts(w)' /\ req'[w].sample = req[w].sample
      /\ Posts(w) /\ req'[w] = Idle /\ Continue(w) =>
           \E r \in history' : r.sample = req[w].sample
  <2>1. CASE Work(w)
    BY <2>1, ContinueStores DEF Work
  <2>2. CASE WorkFails(w)
    <3>1. req'[w] = Idle /\ history' = history /\ \A v \in Workers \ {w} : req'[v] = req[v]
      BY <1>0, <2>2 DEF WorkFails, Fail, Answer, Goto, tables
    <3>2. ~Posts(w)'
      BY <3>1 DEF Posts, Storing, Idle
    <3>3. Continue(w) /\ Posts(w) => \E r \in history' : r.sample = req[w].sample
      BY <3>1, ContinueStores
    <3> QED
      BY <3>1, <3>2, <3>3
  <2> QED
    BY <2>1, <2>2
<1>2. \A r \in history' \ history : r.sample = req[w].sample /\ req[w].sample \in produced
  BY <1>0, <1>1 DEF OnlyProducedIsPosted
<1>3. /\ BooksBalance' /\ ever \subseteq ever' /\ InHistory' \subseteq ever'
      /\ \A e \in ever' : e \in ever \/ e = req[w].sample
      /\ UNCHANGED <<produced, queue, running, healed>>
  BY <1>0, <1>2, BookKeeps
<1>4. Continue(w) /\ Posts(w) /\ req'[w] = Idle => req[w].sample \in ever'
  BY <1>1, <1>3 DEF InHistory
<1>5. FlightFits' /\ flight' \in {None} \cup Flights
  <2>1. CASE Work(w)
    BY <1>1, <1>3, <1>4, <2>1, ReplyFits DEF Work
  <2>2. CASE WorkFails(w)
    BY <1>1, <1>3, <2>2, ReplyFits DEF WorkFails
  <2> QED
    BY <2>1, <2>2
<1>6. PipelineTypeOK'
  BY <1>0, <1>3, <1>5 DEF PipelineTypeOK
<1>7. OnlyProducedIsPosted'
  <2>1. \A v \in Workers : Posts(v)' => Posts(v) /\ req'[v].sample = req[v].sample
    BY <1>1 DEF Posts, Storing, Idle
  <2> QED
    BY <1>0, <1>3, <2>1 DEF OnlyProducedIsPosted
<1>8. ever' = ever \/ \E s \in produced : ever' = ever \cup {s}
  BY <1>0, <1>3 DEF BooksBalance
<1> QED
  BY <1>3, <1>5, <1>6, <1>7, <1>8 DEF PipelineInv

\* Every step of the agent and of the backend keeps both invariants.
LEMMA PipelineInductive == IInv /\ PipelineInv /\ [PipelineNext]_all => (IInv /\ PipelineInv)'
<1> SUFFICES ASSUME IInv, PipelineInv, [PipelineNext]_all PROVE IInv' /\ PipelineInv'
  OBVIOUS
<1>0. IInv' /\ TypeOK'
  BY InvariantTyped
<1>1. CASE Collect \/ GiveUp \/ Stop \/ Die \/ Revive \/ Heal
  BY <1>0, <1>1, AgentKeeps
<1>2. CASE Confirm
  BY <1>0, <1>2, ConfirmKeeps
<1>3. ASSUME NEW w \in Workers, Send(w) \/ UserRequest(w) PROVE PipelineInv'
  BY <1>0, <1>3, RequestsKeep
<1>4. ASSUME NEW w \in Workers, Work(w) \/ WorkFails(w) PROVE PipelineInv'
  BY <1>0, <1>4, WorkersKeep
<1>5. CASE IssueKey \/ UNCHANGED all
  <2>1. UNCHANGED <<agents, created, history, req, agent, flight, books, healed>>
    BY <1>5 DEF IssueKey, CreateKey, all, vars, tables
  <2> QED
    BY <1>0, <2>1 DEF PipelineInv, PipelineTypeOK, FlightFits, OnlyProducedIsPosted,
       BooksBalance, InHistory, Posts, agent, books
<1> QED
  BY <1>0, <1>1, <1>2, <1>3, <1>4, <1>5 DEF PipelineNext

\* The books of the agent and of the backend balance in every reachable state.
THEOREM PipelineInvariance == PipelineSpec => [](IInv /\ PipelineInv)
BY PipelineInitially, PipelineInductive, PTL DEF PipelineSpec

\* The backend of the pipeline is a backend: what ControlPlaneProofs proves of any is
\* true of this one.
THEOREM BackendRefined == PipelineSpec => Spec
<1>1. PipelineInit => Init
  BY DEF PipelineInit
<1>2. PipelineInv /\ [PipelineNext]_all => [Next]_vars
  BY BackendStep DEF PipelineInv
<1> QED
  BY <1>1, <1>2, PipelineInvariance, PTL DEF PipelineSpec, Spec

\* Type correctness of agent and backend together, with the bound of the queue
\* (max_buffer_size_ and the sample in hand).
THEOREM PipelineTyped == PipelineSpec => []PipelineTypeOK
<1>1. PipelineInv => PipelineTypeOK
  BY DEF PipelineInv
<1> QED
  BY <1>1, PipelineInvariance, PTL

\* Retries that overlap their originals, which may still be under way when the agent has
\* given them up, store a sample once (sendMetricsInternal, ingest_metrics).
THEOREM RetriesStoreOnce == PipelineSpec => []StoredOnce
BY BackendRefined, NoDuplicates, PTL

\* What the agent was told is stored is in the history unless it was deleted with its
\* agent (ingest_metrics answers after its COMMIT).
THEOREM ConfirmedKept == PipelineSpec => []ConfirmedIsKept
<1>1. PipelineInv => ConfirmedIsKept
  BY DEF PipelineInv, BooksBalance, ConfirmedIsKept, InHistory
<1> QED
  BY <1>1, PipelineInvariance, PTL

\* The agent's posts do not put back settings that were saved meanwhile.
THEOREM PostsLeaveSettings == PipelineSpec => SettingsChangeOnlyWhenSaved
BY BackendRefined, SettingsStay, PTL

\* Every step of agent or backend is a step of the queue or a stutter.
LEMMA PipelineStepRefines ==
  IInv /\ PipelineInv /\ [PipelineNext]_all => [O!Next]_(O!vars)
<1> SUFFICES ASSUME IInv, PipelineInv, [PipelineNext]_all
             PROVE  O!Next \/ UNCHANGED O!vars
  OBVIOUS
<1>t. PipelineTypeOK /\ FlightFits /\ BooksBalance /\ TypeOK'
  BY InvariantTyped DEF PipelineInv
<1>1. CASE Collect
  <2>1. PICK s \in Samples : /\ Len(queue) =< Capacity
                             /\ produced' = produced \cup {s} /\ queue' = Append(queue, s)
                             /\ UNCHANGED <<ever, running>>
    BY <1>1 DEF Collect, books
  <2> QED
    BY <2>1 DEF O!Next, O!Produce
<1>2. CASE Confirm
  <2>1. queue # << >> /\ Head(queue) \in ever
    BY <1>t, <1>2 DEF Confirm, FlightFits
  <2> QED
    BY <1>2, <2>1 DEF Confirm, O!Next, O!ConfirmOldest
<1>3. CASE GiveUp
  BY <1>3 DEF GiveUp, Keep, books, O!Next, O!EvictOldest, O!vars
<1>4. CASE Stop
  BY <1>4 DEF Stop, books, O!Next, O!Stop
<1>5. CASE Die
  BY <1>5 DEF Die, books, O!Next, O!Die
<1>6. CASE Revive
  BY <1>6 DEF Revive, books, O!Next, O!Revive
<1>7. ASSUME NEW w \in Workers, Work(w) \/ WorkFails(w) PROVE O!Next \/ UNCHANGED O!vars
  <2>1. /\ UNCHANGED <<produced, queue, running>>
        /\ ever' = ever \/ \E s \in produced : ever' = ever \cup {s}
    BY <1>t, <1>7, WorkersKeep
  <2>2. produced \subseteq Samples
    BY <1>t DEF PipelineTypeOK
  <2> QED
    BY <2>1, <2>2 DEF O!Next, O!Store, O!vars
<1>8. ASSUME NEW w \in Workers, Send(w) \/ UserRequest(w) PROVE UNCHANGED O!vars
  BY <1>8 DEF Send, UserRequest, agent, books, O!vars
<1>9. CASE IssueKey \/ Heal \/ UNCHANGED all
  BY <1>9 DEF IssueKey, Heal, all, agent, books, O!vars
<1> QED
  BY <1>1, <1>2, <1>3, <1>4, <1>5, <1>6, <1>7, <1>8, <1>9 DEF PipelineNext

\* Agent and backend together keep the promise of Outbox: nothing leaves the agent's
\* memory but what a transaction has committed, what there is no room for, and what
\* goes with the process.
THEOREM PipelineRefinement == PipelineSpec => PipelinePromise
<1>1. PipelineInit => O!Init
  BY DEF PipelineInit, O!Init
<1> QED
  BY <1>1, PipelineStepRefines, PipelineInvariance, PTL DEF PipelineSpec, PipelinePromise, O!Spec
=============================================================================
