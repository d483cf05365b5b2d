--------------------------- MODULE AgentRefinement ---------------------------
(***************************************************************************)
(* Agent implements Outbox, for every value of its constants: each of its  *)
(* steps is a step of the abstract queue or changes nothing of it.         *)
(***************************************************************************)
EXTENDS AgentProofs

USE ConstantsAssumption

\* A collection adds one sample to those collected.
LEMMA CollectedNext ==
  ASSUME TypeOK
  PROVE  1 .. NextSample = (1 .. seq) \cup {NextSample}
BY DEF TypeOK, NextSample, SampleCount

\* A process that starts holds an empty queue.
LEMMA InitRefines == Init => Promise!Init
BY DEF Init, Promise!Init, Collected, Held, Running, Ended

\* A step that ends the process is the death of the queue.
LEMMA EndsRefines ==
  ASSUME NEW how \in Ended, Ends(how)
  PROVE  Promise!Die
<1>1. Held' = << >>
  BY EndsHeld
<1>2. Running' = FALSE
  BY DEF Ends, Running, Ended
<1>3. Collected' = Collected /\ history' = history
  BY DEF Ends, Abandon, Collected
<1> QED
  BY <1>1, <1>2, <1>3 DEF Promise!Die

\* A step that touches neither samples nor history, nor ends the process, is a
\* stutter of the queue.
LEMMA StutterRefines ==
  ASSUME UNCHANGED <<seq, history, shutdown>>, Held' = Held,
         pc \notin Ended, pc' \notin Ended
  PROVE  UNCHANGED Promise!vars
BY DEF Promise!vars, Collected, Running

\* Keeping the sample that could not be sent is a stutter, or the eviction of the
\* oldest (bufferMetrics).
LEMMA KeepRefines ==
  ASSUME TypeOK, current # NoSample, NEW next \in PC \ Ended, KeepCurrent(next),
         pc \notin Ended, UNCHANGED history
  PROVE  Promise!EvictOldest \/ UNCHANGED Promise!vars
<1>1. UNCHANGED <<seq, history, shutdown>> /\ pc' \notin Ended
  BY DEF KeepCurrent, worldVars
<1>2. CASE Held' = Held
  BY <1>1, <1>2, StutterRefines
<1>3. CASE Len(Held) > MaxBuffer /\ Held' = Tail(Held)
  BY <1>1, <1>3 DEF Promise!EvictOldest, Collected, Running
<1> QED
  BY <1>2, <1>3, KeepCurrentHeld

\* A collection produces a sample, or the process dies.
LEMMA CollectRefines ==
  ASSUME IInv, Collect
  PROVE  Promise!Next
<1>1. CASE Ends("exit1")
  BY <1>1, EndsRefines DEF Promise!Next, Ended
<1>2. CASE /\ Goto("collect", "send")
           /\ seq' = NextSample /\ current' = NextSample
           /\ UNCHANGED <<buffer, serverVars, worldVars>>
  <2>1. TypeOK /\ RequestShape /\ Held = buffer
    BY <1>2, HeldTyped DEF IInv, RequestShape, Goto
  <2>2. NextSample \in Sample /\ NextSample # NoSample
    BY <2>1, NextSampleTyped DEF Sample, NoSample
  <2>3. Held' = Append(Held, NextSample)
    BY <1>2, <2>1, <2>2 DEF Held
  <2>4. Collected' = Collected \cup {NextSample}
    BY <1>2, <2>1, CollectedNext DEF Collected
  <2>5. Len(Held) =< MaxBuffer
    BY <2>1 DEF TypeOK
  <2>6. history' = history /\ Running' = Running
    BY <1>2 DEF serverVars, worldVars, Running, Goto, Ended
  <2> QED
    BY <2>2, <2>3, <2>4, <2>5, <2>6 DEF Promise!Next, Promise!Produce
<1> QED
  BY <1>1, <1>2 DEF Collect

\* sendMetrics gives up its sample only when the agent is stopping.
LEMMA SendMetricsRefines ==
  ASSUME IInv, SendMetrics
  PROVE  Promise!Next \/ UNCHANGED Promise!vars
<1>1. /\ TypeOK /\ current # NoSample
      /\ pc \notin Ended /\ pc' \notin Ended
      /\ UNCHANGED <<seq, buffer, history, shutdown>>
  BY DEF SendMetrics, IInv, RequestShape, Ended, serverVars, worldVars
<1>2. CASE shutdown /\ current' = NoSample
  <2>1. Held # << >> /\ Held' = SubSeq(Held, 1, Len(Held) - 1)
    BY <1>1, <1>2, HeldInHand DEF Held
  <2>2. ~Running /\ Running' = Running /\ Collected' = Collected
    BY <1>1, <1>2 DEF Running, Collected
  <2> QED
    BY <1>1, <2>1, <2>2
       DEF Promise!Next, Promise!DiscardNewest, Promise!WithoutNewest
<1>3. CASE UNCHANGED current
  BY <1>1, <1>3, StutterRefines DEF Held
<1> QED
  BY <1>2, <1>3 DEF SendMetrics

\* A flush that succeeds confirms the oldest sample.
LEMMA FlushSucceedsRefines ==
  ASSUME IInv, FlushSucceeds
  PROVE  Promise!Next
<1>1. TypeOK /\ RequestShape /\ DeliveredIsStored
  BY DEF IInv
<1>2. Held # << >> /\ Head(Held) = Head(buffer) /\ Held' = Tail(Held)
  BY <1>1, FlushedHeld
<1>3. Head(buffer) \in history
  BY <1>1 DEF FlushSucceeds, Goto, DeliveredIsStored, InFlight
<1>4. Collected' = Collected /\ history' = history /\ Running' = Running
  BY DEF FlushSucceeds, Goto, Collected, Running, Ended, worldVars
<1> QED
  BY <1>2, <1>3, <1>4 DEF Promise!Next, Promise!ConfirmOldest

\* FlushedOrBlocked is what permits the newest sample to go before older ones.
LEMMA PostSucceedsRefines ==
  ASSUME IInv, PostSucceeds
  PROVE  Promise!Next
<1>1. /\ TypeOK /\ RequestShape /\ DeliveredIsStored /\ FlushedOrBlocked
      /\ current # NoSample /\ connected /\ pc = "posting"
  BY DEF IInv, RequestShape, PostSucceeds, Goto
<1>2. /\ Held # << >> /\ Held[Len(Held)] = current
      /\ Len(Held) = Len(buffer) + 1
      /\ SubSeq(Held, 1, Len(Held) - 1) = buffer
  BY <1>1, HeldInHand
<1>3. Held' = SubSeq(Held, 1, Len(Held) - 1)
  BY <1>2 DEF PostSucceeds, Held
<1>4. Held[Len(Held)] \in history
  BY <1>1, <1>2 DEF PostSucceeds, DeliveredIsStored, InFlight
<1>5. Len(Held) = 1 \/ Head(Held) \in Unserialisable \/ ~Running
  <2>1. CASE buffer = << >>
    BY <1>2, <2>1
  <2>2. CASE buffer # << >> /\ Head(buffer) \in Unserialisable
    BY <1>1, <2>2, HeldTyped, TailOfAppend DEF TypeOK
  <2>3. CASE shutdown
    BY <2>3 DEF Running
  <2> QED
    BY <1>1, <2>1, <2>2, <2>3 DEF FlushedOrBlocked
<1>6. Collected' = Collected /\ history' = history /\ Running' = Running
  BY DEF PostSucceeds, Goto, Collected, Running, Ended, worldVars
<1> QED
  BY <1>2, <1>3, <1>4, <1>5, <1>6
     DEF Promise!Next, Promise!ConfirmNewest, Promise!Newest, Promise!WithoutNewest

\* A restart revives an empty queue.
LEMMA RestartRefines ==
  ASSUME IInv, Restart
  PROVE  Promise!Next
<1>1. Held = << >> /\ Held' = << >>
  BY DEF IInv, RequestShape, Restart, Held, Ended
<1>2. Running' = TRUE /\ Collected' = Collected /\ history' = history
  BY DEF Restart, Running, Collected, Ended, serverVars
<1> QED
  BY <1>1, <1>2 DEF Promise!Next, Promise!Revive

\* What the control plane stores has been collected.
LEMMA StoreRefines ==
  ASSUME IInv, StoreInFlight \/ StoreLate
  PROVE  Promise!Next
<1>1. PICK s \in InFlight \cup late : history' = history \cup {s}
  <2>1. CASE StoreInFlight
    <3>1. InFlight = {Head(buffer)} \/ InFlight = {current}
      BY <2>1 DEF StoreInFlight, InFlight
    <3> QED
      BY <2>1, <3>1 DEF StoreInFlight
  <2>2. CASE StoreLate
    BY <2>2 DEF StoreLate
  <2> QED
    BY <2>1, <2>2
<1>2. s \in Sample /\ s \in Collected
  BY InFlightTyped, InFlightCollected DEF IInv, TypeOK, OnlyCollected
<1>3. Held' = Held /\ Collected' = Collected /\ Running' = Running
  BY SampleVarsUnchanged, HeldUnchanged
     DEF StoreInFlight, StoreLate, Collected, Running, worldVars
<1> QED
  BY <1>1, <1>2, <1>3 DEF Promise!Next, Promise!Store

\* Every step of the agent is a step of the queue or a stutter.
LEMMA StepRefines == IInv /\ [Next]_vars => [Promise!Next]_(Promise!vars)
<1> SUFFICES ASSUME IInv, [Next]_vars
             PROVE  Promise!Next \/ UNCHANGED Promise!vars
  OBVIOUS
<1>t. TypeOK /\ RequestShape
  BY DEF IInv
<1>e. ASSUME NEW how \in Ended, Ends(how) PROVE Promise!Next
  BY <1>e, EndsRefines DEF Promise!Next
<1>1. CASE \/ EnsureConnected \/ Ping \/ Auth \/ Flush \/ FlushFails
           \/ Backoff \/ Sleep \/ Reping \/ Reauth \/ Fetch \/ SyncDue
  <2>1. Held' = Held /\ seq' = seq
    BY <1>1, SampleVarsUnchanged, HeldUnchanged
  <2>2. UNCHANGED <<history, shutdown>> /\ pc \notin Ended /\ pc' \notin Ended
    BY <1>1 DEF EnsureConnected, Authenticate, SkipAuthentication, NotReady, Ping,
       Auth, Flush, FlushFails, Abandon, Backoff, Sleep, Reping, Reauth, Fetch,
       SyncDue, Goto, Ended, serverVars, worldVars
  <2> QED
    BY <2>1, <2>2, StutterRefines
<1>2. CASE UpdateSettings \/ Heal \/ UNCHANGED vars
  <2>1. Held' = Held /\ UNCHANGED <<seq, history, shutdown, pc>>
    BY <1>2, HeldUnchanged DEF UpdateSettings, Heal, vars, sampleVars, serverVars, worldVars
  <2> QED
    BY <2>1 DEF Promise!vars, Collected, Running
<1>3. CASE LoopTop
  <2>1. CASE Ends("exit0")
    BY <1>e, <2>1 DEF Ended
  <2>2. CASE Goto("loop", "ensure") /\ UNCHANGED <<sampleVars, serverVars, worldVars>>
    BY <2>2, StutterRefines, HeldUnchanged DEF Goto, Ended, serverVars, worldVars
  <2> QED
    BY <1>3, <2>1, <2>2 DEF LoopTop
<1>4. CASE Collect
  BY <1>4, CollectRefines
<1>5. CASE SendMetrics
  BY <1>5, SendMetricsRefines
<1>6. CASE FlushSucceeds
  BY <1>6, FlushSucceedsRefines
<1>7. CASE Deliver
  <2>1. current # NoSample /\ pc \notin Ended /\ UNCHANGED history
    BY <1>t, <1>7 DEF Deliver, RequestShape, Ended, serverVars
  <2>2. ASSUME NEW next \in {"sent", "backoff"}, KeepCurrent(next)
        PROVE  Promise!Next \/ UNCHANGED Promise!vars
    BY <1>t, <2>1, <2>2, KeepRefines DEF Promise!Next, PC, Local, Ended
  <2>3. CASE pc' = "posting" /\ UNCHANGED <<sampleVars, worldVars>>
    BY <2>1, <2>3, StutterRefines, HeldUnchanged DEF Ended, worldVars
  <2> QED
    BY <1>7, <2>2, <2>3 DEF Deliver
<1>8. CASE PostSucceeds
  BY <1>8, PostSucceedsRefines
<1>9. CASE PostFails
  <2>1. current # NoSample /\ pc \notin Ended /\ UNCHANGED history /\ KeepCurrent("backoff")
    BY <1>t, <1>9 DEF PostFails, RequestShape, Ended, Abandon
  <2> QED
    BY <1>t, <2>1, KeepRefines DEF Promise!Next, PC, Local, Ended
<1>10. CASE Sent
  <2>1. CASE Ends("exit0")
    BY <1>e, <2>1 DEF Ended
  <2>2. CASE /\ pc = "sent" /\ pc' \in {"fetch", "wait"}
             /\ UNCHANGED <<sampleVars, serverVars, worldVars>>
    BY <2>2, StutterRefines, HeldUnchanged DEF Ended, serverVars, worldVars
  <2> QED
    BY <1>10, <2>1, <2>2 DEF Sent
<1>11. CASE FetchThrows \/ Terminate
  BY <1>11, <1>e DEF FetchThrows, Terminate, Ended
<1>12. CASE WaitForNextCollection
  <2>1. CASE Ends("exit0") \/ Ends(OnceStatus)
    BY <1>e, <2>1 DEF Ended, OnceStatus
  <2>2. CASE Goto("wait", "loop") /\ UNCHANGED <<sampleVars, serverVars, worldVars>>
    BY <2>2, StutterRefines, HeldUnchanged DEF Goto, Ended, serverVars, worldVars
  <2> QED
    BY <1>12, <2>1, <2>2 DEF WaitForNextCollection
<1>13. CASE RequestShutdown
  <2>1. Held' = Held /\ Running' = FALSE /\ Collected' = Collected /\ history' = history
    BY <1>13, SampleVarsUnchanged, HeldUnchanged
       DEF RequestShutdown, Running, Collected, serverVars
  <2> QED
    BY <2>1 DEF Promise!Next, Promise!Stop
<1>14. CASE Restart
  BY <1>14, RestartRefines
<1>15. CASE StoreInFlight \/ StoreLate
  BY <1>15, StoreRefines
<1> QED
  BY <1>1, <1>2, <1>3, <1>4, <1>5, <1>6, <1>7, <1>8, <1>9, <1>10, <1>11, <1>12, <1>13,
     <1>14, <1>15 DEF Next, AgentStep, WorldStep

\* The agent keeps the promise of Outbox (sendMetrics, processPendingMetrics,
\* bufferMetrics): a sample it collects leaves its hands only stored, evicted
\* as the oldest of a full buffer, or with the process.
THEOREM Refinement == Spec => PromiseKept
<1>1. IInv /\ [Next]_vars => [Promise!Next]_(Promise!vars)
  BY StepRefines
<1> QED
  BY <1>1, InitRefines, Invariance, PTL DEF Spec, PromiseKept, Promise!Spec
=============================================================================
