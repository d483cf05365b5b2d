----------------------------- MODULE AgentProofs -----------------------------
(***************************************************************************)
(* The invariants of Agent, for every value of its constants.  IInv (see   *)
(* AgentInvariant) is inductive: one lemma for each of its parts, with one *)
(* step for each action.  Before them the facts about the operators of     *)
(* Agent that let these proofs do without arithmetic and without the       *)
(* definition of a sequence; after them the bound of AgentShutdown.        *)
(***************************************************************************)
EXTENDS AgentShutdown, SequenceTheorems, TLAPS

USE ConstantsAssumption

(* Sequences of samples *)

\* What Tail leaves of a non-empty sequence of samples.
LEMMA TailElements ==
  ASSUME NEW q \in Seq(Sample), q # << >>
  PROVE  /\ Tail(q) \in Seq(Sample) /\ Len(Tail(q)) = Len(q) - 1 /\ Len(q) \in Nat \ {0}
         /\ \A i \in 1 .. Len(Tail(q)) : i + 1 \in 1 .. Len(q) /\ Tail(q)[i] = q[i + 1]
OBVIOUS

\* What Append adds to a sequence of samples.
LEMMA AppendElements ==
  ASSUME NEW q \in Seq(Sample), NEW s \in Sample
  PROVE  /\ Append(q, s) \in Seq(Sample) /\ Len(Append(q, s)) = Len(q) + 1 /\ Len(q) \in Nat
         /\ \A i \in 1 .. Len(q) : Append(q, s)[i] = q[i]
         /\ Append(q, s)[Len(q) + 1] = s
OBVIOUS

\* Tail and Append commute on a non-empty sequence.
LEMMA TailOfAppend ==
  ASSUME NEW q \in Seq(Sample), NEW s \in Sample, q # << >>
  PROVE  Tail(Append(q, s)) = Append(Tail(q), s) /\ Head(Append(q, s)) = Head(q)
         /\ Append(q, s) # << >>
OBVIOUS

\* Append puts its argument last, and the rest is what was there.
LEMMA LastOfAppend ==
  ASSUME NEW q \in Seq(Sample), NEW s \in Sample
  PROVE  /\ Append(q, s) # << >>
         /\ Append(q, s)[Len(Append(q, s))] = s
         /\ SubSeq(Append(q, s), 1, Len(Append(q, s)) - 1) = q
OBVIOUS

\* Dropping the oldest sample (pop_front) keeps the order.
LEMMA InOrderTail ==
  ASSUME NEW q \in Seq(Sample), q # << >>, InOrder(q)
  PROVE  InOrder(Tail(q))
<1> SUFFICES ASSUME NEW i \in 1 .. Len(Tail(q)), NEW j \in 1 .. Len(Tail(q)), i < j
             PROVE  \/ Tail(q)[i] < Tail(q)[j]
                    \/ Tail(q)[i] = MaxSample /\ Tail(q)[j] = MaxSample
  BY DEF InOrder
<1>1. i + 1 \in 1 .. Len(q) /\ j + 1 \in 1 .. Len(q) /\ i + 1 < j + 1
  BY TailElements
<1>2. Tail(q)[i] = q[i + 1] /\ Tail(q)[j] = q[j + 1]
  BY TailElements
<1> QED
  BY <1>1, <1>2 DEF InOrder

\* Adding a sample newer than all the others keeps the order.
LEMMA InOrderAppend ==
  ASSUME NEW q \in Seq(Sample), NEW s \in Sample, InOrder(q),
         \A i \in 1 .. Len(q) : q[i] < s \/ (q[i] = MaxSample /\ s = MaxSample)
  PROVE  InOrder(Append(q, s))
<1> DEFINE r == Append(q, s)
<1> SUFFICES ASSUME NEW i \in 1 .. Len(r), NEW j \in 1 .. Len(r), i < j
             PROVE  r[i] < r[j] \/ (r[i] = MaxSample /\ r[j] = MaxSample)
  BY DEF InOrder
<1>1. i \in 1 .. Len(q) /\ r[i] = q[i]
  BY AppendElements
<1>2. CASE j \in 1 .. Len(q)
  BY <1>1, <1>2, AppendElements DEF InOrder
<1>3. CASE j = Len(q) + 1
  BY <1>1, <1>3, AppendElements
<1> QED
  BY <1>2, <1>3, AppendElements

\* Giving up the newest sample keeps the order.
LEMMA InOrderPrefix ==
  ASSUME NEW q \in Seq(Sample), NEW s \in Sample, InOrder(Append(q, s))
  PROVE  InOrder(q)
<1> SUFFICES ASSUME NEW i \in 1 .. Len(q), NEW j \in 1 .. Len(q), i < j
             PROVE  q[i] < q[j] \/ (q[i] = MaxSample /\ q[j] = MaxSample)
  BY DEF InOrder
<1>1. i \in 1 .. Len(Append(q, s)) /\ j \in 1 .. Len(Append(q, s))
  BY AppendElements
<1> QED
  BY <1>1, AppendElements DEF InOrder

(* What the operators return *)

\* retry_attempts_ may be reset whatever the limit.
LEMMA ZeroAttempts == 0 \in Attempts
BY DEF Attempts

\* An empty buffer is well typed.
LEMMA EmptyTyped == << >> \in Seq(Sample) /\ Len(<< >>) =< MaxBuffer
OBVIOUS

\* What collect returns is a sample.
LEMMA NextSampleTyped ==
  ASSUME TypeOK
  PROVE  NextSample \in Sample /\ NextSample \in SampleCount
BY DEF TypeOK, NextSample, Sample, SampleCount

\* bufferMetrics leaves a buffer of samples within max_buffer_size_.
LEMMA BufferedTyped ==
  ASSUME TypeOK, NEW s \in Sample
  PROVE  Buffered(s) \in Seq(Sample) /\ Len(Buffered(s)) =< MaxBuffer
<1> DEFINE q == Append(buffer, s)
<1>1. q \in Seq(Sample) /\ Len(q) = Len(buffer) + 1 /\ q # << >>
  BY DEF TypeOK
<1>2. Tail(q) \in Seq(Sample) /\ Len(Tail(q)) = Len(q) - 1
  BY <1>1
<1>3. Len(buffer) \in Nat /\ Len(buffer) =< MaxBuffer
  BY DEF TypeOK
<1> HIDE DEF q
<1>4. CASE Len(q) > MaxBuffer
  <2>1. Buffered(s) = Tail(q)
    BY <1>4 DEF Buffered, q
  <2> QED
    BY <2>1, <1>1, <1>2, <1>3
<1>5. CASE ~(Len(q) > MaxBuffer)
  <2>1. Buffered(s) = q
    BY <1>5 DEF Buffered, q
  <2> QED
    BY <2>1, <1>1, <1>3, <1>5
<1> QED
  BY <1>4, <1>5

\* pop_front leaves a buffer of samples within max_buffer_size_.
LEMMA TailTyped ==
  ASSUME TypeOK, buffer # << >>
  PROVE  Tail(buffer) \in Seq(Sample) /\ Len(Tail(buffer)) =< MaxBuffer
BY DEF TypeOK, Sample

\* What a POST carries is a sample.
LEMMA InFlightTyped ==
  ASSUME TypeOK, RequestShape
  PROVE  InFlight \subseteq Sample
BY DEF TypeOK, RequestShape, InFlight, Sample, NoSample

\* The ways the process may have been started: --once is no daemon.
LEMMA OptsTyped ==
  ASSUME TypeOK
  PROVE  /\ opts.token \in BOOLEAN /\ opts.once \in BOOLEAN /\ opts.daemon \in BOOLEAN
         /\ opts.once => ~opts.daemon
<1>1. opts \in AllOptions
  BY DEF TypeOK, ConstantsAssumption
<1>2. /\ opts \in [once : BOOLEAN, daemon : BOOLEAN, token : BOOLEAN]
      /\ opts.once => ~opts.daemon
  BY <1>1 DEF AllOptions
<1> QED
  BY <1>2

\* The attempts and their limit are numbers.
LEMMA AttemptsNat == ASSUME TypeOK PROVE retryAttempts \in Nat /\ MaxRetryAttempts \in Nat
BY DEF TypeOK, Attempts

\* bufferMetrics adds no sample but the one it is given.
LEMMA BufferedElements ==
  ASSUME TypeOK, NEW s \in Sample, NEW i \in 1 .. Len(Buffered(s))
  PROVE  Buffered(s)[i] = s \/ \E j \in 1 .. Len(buffer) : Buffered(s)[i] = buffer[j]
<1> DEFINE q == Append(buffer, s)
<1>1. /\ q \in Seq(Sample) /\ q # << >>
      /\ \A k \in 1 .. Len(q) : q[k] = s \/ \E j \in 1 .. Len(buffer) : q[k] = buffer[j]
  BY AppendElements DEF TypeOK
<1>2. Buffered(s) = Tail(q) \/ Buffered(s) = q
  BY DEF Buffered
<1> HIDE DEF q
<1>3. CASE Buffered(s) = q
  BY <1>1, <1>3
<1>4. CASE Buffered(s) = Tail(q)
  <2>1. i \in 1 .. Len(Tail(q))
    BY <1>4
  <2>2. i + 1 \in 1 .. Len(q) /\ Tail(q)[i] = q[i + 1]
    BY <1>1, <2>1, TailElements
  <2> QED
    BY <1>1, <1>4, <2>2
<1> QED
  BY <1>2, <1>3, <1>4

\* The sample just collected counts as collected, as those before it do.
LEMMA NextSampleCollected ==
  ASSUME TypeOK
  PROVE  /\ NextSample \in 1 .. NextSample
         /\ 1 .. seq \subseteq 1 .. NextSample
BY DEF TypeOK, NextSample, SampleCount

\* What a POST carries has been collected.
LEMMA InFlightCollected ==
  ASSUME TypeOK, RequestShape, OnlyCollected
  PROVE  InFlight \subseteq Collected
<1>1. buffer # << >> => Head(buffer) = buffer[1] /\ 1 \in 1 .. Len(buffer)
  BY DEF TypeOK
<1> QED
  BY <1>1 DEF RequestShape, OnlyCollected, InFlight

(* What the steps do to the samples the process holds *)

\* Held is a sequence of samples: the buffer and the sample in hand.
LEMMA HeldTyped ==
  ASSUME TypeOK
  PROVE  /\ Held \in Seq(Sample) /\ Len(Held) \in Nat
         /\ current # NoSample => current \in Sample /\ Held = Append(buffer, current)
         /\ current = NoSample => Held = buffer
<1>1. CASE current = NoSample
  BY <1>1 DEF Held, TypeOK
<1>2. CASE current # NoSample
  <2>1. current \in Sample /\ buffer \in Seq(Sample)
    BY <1>2 DEF TypeOK
  <2>2. Held = Append(buffer, current)
    BY <1>2 DEF Held
  <2> QED
    BY <1>2, <2>1, <2>2, AppendElements
<1> QED
  BY <1>1, <1>2

\* The sample in hand is the last of those held.
LEMMA HeldInHand ==
  ASSUME TypeOK, current # NoSample
  PROVE  /\ Held # << >> /\ Held[Len(Held)] = current
         /\ Len(Held) = Len(buffer) + 1
         /\ SubSeq(Held, 1, Len(Held) - 1) = buffer
<1>1. buffer \in Seq(Sample) /\ current \in Sample /\ Held = Append(buffer, current)
  BY HeldTyped DEF TypeOK
<1> QED
  BY <1>1, LastOfAppend, AppendElements

\* Buffering the sample in hand changes what is held only by an eviction.
LEMMA KeepCurrentHeld ==
  ASSUME TypeOK, current # NoSample, NEW next, KeepCurrent(next)
  PROVE  Held' = Held \/ (Len(Held) > MaxBuffer /\ Held' = Tail(Held))
<1>1. Held' = Buffered(current)
  BY DEF KeepCurrent, Held, NoSample
<1>2. Held = Append(buffer, current)
  BY HeldTyped
<1> QED
  BY <1>1, <1>2 DEF Buffered

\* A flush that succeeds takes the oldest of the samples held.
LEMMA FlushedHeld ==
  ASSUME TypeOK, RequestShape, FlushSucceeds
  PROVE  Held # << >> /\ Head(Held) = Head(buffer) /\ Held' = Tail(Held)
<1>1. buffer # << >> /\ current # NoSample /\ buffer \in Seq(Sample) /\ current \in Sample
  BY DEF TypeOK, RequestShape, FlushSucceeds, Goto
<1>2. Held = Append(buffer, current)
  BY <1>1 DEF Held
<1>3. Held' = Append(Tail(buffer), current)
  BY <1>1 DEF Held, FlushSucceeds
<1> QED
  BY <1>1, <1>2, <1>3, TailOfAppend

\* A process that has ended holds nothing.
LEMMA EndsHeld ==
  ASSUME NEW how, Ends(how)
  PROVE  Held' = << >>
BY DEF Ends, Held

\* A step that leaves the samples alone leaves Held alone.
LEMMA HeldUnchanged ==
  ASSUME UNCHANGED sampleVars
  PROVE  Held' = Held /\ seq' = seq
BY DEF sampleVars, Held

\* The steps that leave the samples of the process alone.
LEMMA SampleVarsUnchanged ==
  ASSUME \/ EnsureConnected \/ Ping \/ Auth \/ Flush \/ FlushFails
         \/ Backoff \/ Sleep \/ Reping \/ Reauth \/ Fetch
         \/ SyncDue \/ RequestShutdown \/ StoreInFlight \/ StoreLate
         \/ UpdateSettings \/ Heal
  PROVE  UNCHANGED sampleVars
BY DEF EnsureConnected, Ping, Auth, Flush, FlushFails, Backoff, Sleep, Reping, Reauth,
       Fetch, SyncDue, RequestShutdown, StoreInFlight, StoreLate, UpdateSettings, Heal

(* The parts of the invariant *)

\* Every step keeps the types, and the bounds of the buffer and the attempts.
LEMMA TypeCorrect == IInv /\ [Next]_vars => TypeOK'
<1> SUFFICES ASSUME IInv, [Next]_vars PROVE TypeOK'
  OBVIOUS
<1> USE DEF vars, processVars, loopVars, sampleVars, serverVars, worldVars,
            Goto, PC, Requests, Ended, Local
<1>t. TypeOK
  BY DEF IInv
<1>e. ASSUME NEW how \in Ended, Ends(how) PROVE TypeOK'
  BY <1>t, <1>e, InFlightTyped, EmptyTyped DEF IInv, TypeOK, Ends, Abandon
<1>1. CASE LoopTop
  BY <1>t, <1>1, <1>e DEF TypeOK, LoopTop
<1>2. CASE EnsureConnected
  BY <1>t, <1>2 DEF TypeOK, EnsureConnected, Authenticate, SkipAuthentication, NotReady
<1>3. CASE Ping
  BY <1>t, <1>3 DEF TypeOK, Ping, Authenticate, SkipAuthentication, NotReady
<1>4. CASE Auth
  BY <1>t, <1>4 DEF TypeOK, Auth
<1>5. CASE Collect
  BY <1>t, <1>5, <1>e, NextSampleTyped DEF TypeOK, Collect
<1>6. CASE SendMetrics
  BY <1>t, <1>6 DEF TypeOK, SendMetrics, NoSample
<1>7. CASE Flush
  BY <1>t, <1>7 DEF TypeOK, Flush
<1>8. CASE FlushSucceeds
  BY <1>t, <1>8, TailTyped DEF TypeOK, FlushSucceeds, IInv, RequestShape
<1>9. CASE FlushFails
  BY <1>t, <1>9, InFlightTyped DEF TypeOK, FlushFails, Abandon, IInv
<1>10. CASE Deliver
  BY <1>t, <1>10, BufferedTyped DEF TypeOK, Deliver, KeepCurrent, IInv, RequestShape
<1>11. CASE PostSucceeds
  BY <1>t, <1>11, ZeroAttempts DEF TypeOK, PostSucceeds
<1>12. CASE PostFails
  BY <1>t, <1>12, BufferedTyped, InFlightTyped
     DEF TypeOK, PostFails, KeepCurrent, Abandon, IInv, RequestShape
<1>13. CASE Backoff
  BY <1>t, <1>13 DEF TypeOK, Backoff
<1>14. CASE Sleep
  <2>1. retryAttempts < MaxRetryAttempts => retryAttempts + 1 \in Attempts
    BY <1>t DEF TypeOK, Attempts
  <2> QED
    BY <1>t, <1>14, <2>1, ZeroAttempts DEF TypeOK, Sleep, IInv, AttemptLeft
<1>15. CASE Reping
  BY <1>t, <1>15, ZeroAttempts DEF TypeOK, Reping
<1>16. CASE Reauth
  BY <1>t, <1>16, ZeroAttempts DEF TypeOK, Reauth
<1>17. CASE Sent
  BY <1>t, <1>17, <1>e DEF TypeOK, Sent
<1>18. CASE Fetch
  <2>1. connected' \in BOOLEAN /\ config' \in Configs
    BY <1>t, <1>18 DEF TypeOK, Fetch
  <2>2. /\ pc' = "wait"
        /\ UNCHANGED <<authenticated, credentials, retryAttempts, ready, sent, due>>
        /\ UNCHANGED <<sampleVars, serverVars, worldVars>>
    BY <1>18 DEF Fetch
  <2> QED
    BY <1>t, <2>1, <2>2 DEF TypeOK
<1>22. CASE FetchThrows
  BY <1>22, <1>e DEF FetchThrows
<1>19. CASE WaitForNextCollection
  BY <1>t, <1>19, <1>e DEF TypeOK, WaitForNextCollection, OnceStatus
<1>20. CASE WorldStep
  <2>1. CASE Terminate
    BY <1>e, <2>1 DEF Terminate
  <2>2. CASE Restart
    BY <1>t, <2>2, ZeroAttempts, EmptyTyped DEF TypeOK, Restart
  <2>3. CASE StoreInFlight
    BY <1>t, <2>3, InFlightTyped DEF TypeOK, StoreInFlight, IInv
  <2>4. CASE SyncDue
    BY <1>t, <2>4 DEF TypeOK, SyncDue
  <2>5. CASE RequestShutdown
    BY <1>t, <2>5 DEF TypeOK, RequestShutdown
  <2>6. CASE StoreLate
    BY <1>t, <2>6 DEF TypeOK, StoreLate
  <2>7. CASE UpdateSettings
    BY <1>t, <2>7 DEF TypeOK, UpdateSettings
  <2>8. CASE Heal
    BY <1>t, <2>8 DEF TypeOK, Heal
  <2> QED
    BY <1>20, <2>1, <2>2, <2>3, <2>4, <2>5, <2>6, <2>7, <2>8 DEF WorldStep
<1>21. CASE UNCHANGED vars
  BY <1>t, <1>21 DEF TypeOK
<1> QED
  BY <1>1, <1>2, <1>3, <1>4, <1>5, <1>6, <1>7, <1>8, <1>9, <1>10, <1>11, <1>12,
     <1>13, <1>14, <1>15, <1>16, <1>17, <1>18, <1>19, <1>20, <1>21,
     <1>22
     DEF Next, AgentStep

\* Every step keeps the shape of the POST in progress (sendMetricsInternal).
LEMMA ShapeKept == IInv /\ [Next]_vars => RequestShape'
<1> SUFFICES ASSUME IInv, [Next]_vars PROVE RequestShape'
  OBVIOUS
<1> USE DEF vars, processVars, loopVars, sampleVars, serverVars, worldVars,
            Goto, Requests, Ended, Local, NoSample
<1>t. TypeOK /\ RequestShape
  BY DEF IInv
<1>1. CASE LoopTop
  BY <1>t, <1>1 DEF TypeOK, RequestShape, LoopTop, ShutdownRequested, Ends, Abandon
<1>2. CASE EnsureConnected
  BY <1>t, <1>2
     DEF TypeOK, RequestShape, EnsureConnected, Authenticate, SkipAuthentication,
         NotReady
<1>3. CASE Ping
  BY <1>t, <1>3 DEF TypeOK, RequestShape, Ping, Authenticate, SkipAuthentication, NotReady
<1>4. CASE Auth
  BY <1>t, <1>4 DEF TypeOK, RequestShape, Auth
<1>5. CASE Collect
  BY <1>t, <1>5, NextSampleTyped DEF TypeOK, RequestShape, Collect, Ends, Abandon, Sample
<1>6. CASE SendMetrics
  BY <1>t, <1>6 DEF TypeOK, RequestShape, SendMetrics
<1>7. CASE Flush
  BY <1>t, <1>7 DEF TypeOK, RequestShape, Flush, MoreToFlush
<1>8. CASE FlushSucceeds
  BY <1>t, <1>8 DEF TypeOK, RequestShape, FlushSucceeds
<1>9. CASE FlushFails
  BY <1>t, <1>9 DEF TypeOK, RequestShape, FlushFails, Abandon
<1>10. CASE Deliver
  BY <1>t, <1>10 DEF TypeOK, RequestShape, Deliver, KeepCurrent
<1>11. CASE PostSucceeds
  BY <1>t, <1>11 DEF TypeOK, RequestShape, PostSucceeds
<1>12. CASE PostFails
  BY <1>t, <1>12 DEF TypeOK, RequestShape, PostFails, KeepCurrent, Abandon
<1>13. CASE Backoff
  BY <1>t, <1>13 DEF TypeOK, RequestShape, Backoff
<1>14. CASE Sleep
  BY <1>t, <1>14 DEF TypeOK, RequestShape, Sleep
<1>15. CASE Reping
  BY <1>t, <1>15 DEF TypeOK, RequestShape, Reping
<1>16. CASE Reauth
  BY <1>t, <1>16 DEF TypeOK, RequestShape, Reauth
<1>17. CASE Sent
  BY <1>t, <1>17 DEF TypeOK, RequestShape, Sent, Ends, Abandon, ShutdownRequested
<1>18. CASE Fetch
  BY <1>t, <1>18 DEF TypeOK, RequestShape, Fetch
<1>19. CASE FetchThrows
  BY <1>t, <1>19 DEF TypeOK, RequestShape, FetchThrows, Ends, Abandon
<1>20. CASE WaitForNextCollection
  BY <1>t, <1>20
     DEF TypeOK, RequestShape, WaitForNextCollection, Ends, Abandon, ShutdownRequested,
         OnceStatus
<1>21. CASE SyncDue
  BY <1>t, <1>21 DEF TypeOK, RequestShape, SyncDue
<1>22. CASE RequestShutdown
  BY <1>t, <1>22 DEF TypeOK, RequestShape, RequestShutdown
<1>23. CASE Terminate
  BY <1>t, <1>23 DEF TypeOK, RequestShape, Terminate, Ends, Abandon
<1>24. CASE Restart
  BY <1>t, <1>24 DEF TypeOK, RequestShape, Restart
<1>25. CASE StoreInFlight
  BY <1>t, <1>25 DEF TypeOK, RequestShape, StoreInFlight, InFlight
<1>26. CASE StoreLate
  BY <1>t, <1>26 DEF TypeOK, RequestShape, StoreLate
<1>27. CASE UpdateSettings
  BY <1>t, <1>27 DEF TypeOK, RequestShape, UpdateSettings
<1>28. CASE Heal
  BY <1>t, <1>28 DEF TypeOK, RequestShape, Heal
<1>29. CASE UNCHANGED vars
  BY <1>t, <1>29 DEF TypeOK, RequestShape
<1> QED
  BY <1>1, <1>2, <1>3, <1>4, <1>5, <1>6, <1>7, <1>8, <1>9, <1>10, <1>11, <1>12,
     <1>13, <1>14, <1>15, <1>16, <1>17, <1>18, <1>19, <1>20, <1>21, <1>22,
     <1>23, <1>24, <1>25, <1>26, <1>27, <1>28, <1>29
     DEF Next, AgentStep, WorldStep

\* Every step keeps the credentials (authenticateWithCredentials).
LEMMA CredKept == IInv /\ [Next]_vars => CredentialsKept'
<1> SUFFICES ASSUME IInv, [Next]_vars PROVE CredentialsKept'
  OBVIOUS
<1> USE DEF vars, processVars, loopVars, sampleVars, serverVars, worldVars,
            Goto, Requests, Ended, Local, NoSample
<1>t. TypeOK /\ RequestShape /\ CredentialsKept
  BY DEF IInv
<1>1. CASE LoopTop
  BY <1>t, <1>1, OptsTyped
     DEF TypeOK, RequestShape, CredentialsKept, LoopTop, ShutdownRequested, Ends,
         Abandon
<1>2. CASE EnsureConnected
  BY <1>t, <1>2, OptsTyped
     DEF TypeOK, RequestShape, CredentialsKept, EnsureConnected, Authenticate,
         SkipAuthentication, NotReady
<1>3. CASE Ping
  BY <1>t, <1>3, OptsTyped
     DEF TypeOK, RequestShape, CredentialsKept, Ping, Authenticate, SkipAuthentication,
         NotReady
<1>4. CASE Auth
  BY <1>t, <1>4, OptsTyped DEF TypeOK, RequestShape, CredentialsKept, Auth
<1>5. CASE Collect
  BY <1>t, <1>5, OptsTyped DEF TypeOK, RequestShape, CredentialsKept, Collect, Ends, Abandon
<1>6. CASE SendMetrics
  BY <1>t, <1>6, OptsTyped DEF TypeOK, RequestShape, CredentialsKept, SendMetrics
<1>7. CASE Flush
  BY <1>t, <1>7, OptsTyped DEF TypeOK, RequestShape, CredentialsKept, Flush, MoreToFlush
<1>8. CASE FlushSucceeds
  BY <1>t, <1>8, OptsTyped DEF TypeOK, RequestShape, CredentialsKept, FlushSucceeds
<1>9. CASE FlushFails
  BY <1>t, <1>9, OptsTyped DEF TypeOK, RequestShape, CredentialsKept, FlushFails, Abandon
<1>10. CASE Deliver
  BY <1>t, <1>10, OptsTyped DEF TypeOK, RequestShape, CredentialsKept, Deliver, KeepCurrent
<1>11. CASE PostSucceeds
  BY <1>t, <1>11, OptsTyped DEF TypeOK, RequestShape, CredentialsKept, PostSucceeds
<1>12. CASE PostFails
  BY <1>t, <1>12, OptsTyped
     DEF TypeOK, RequestShape, CredentialsKept, PostFails, KeepCurrent, Abandon
<1>13. CASE Backoff
  BY <1>t, <1>13, OptsTyped DEF TypeOK, RequestShape, CredentialsKept, Backoff
<1>14. CASE Sleep
  BY <1>t, <1>14, OptsTyped DEF TypeOK, RequestShape, CredentialsKept, Sleep
<1>15. CASE Reping
  BY <1>t, <1>15, OptsTyped DEF TypeOK, RequestShape, CredentialsKept, Reping
<1>16. CASE Reauth
  BY <1>t, <1>16, OptsTyped DEF TypeOK, RequestShape, CredentialsKept, Reauth
<1>17. CASE Sent
  BY <1>t, <1>17, OptsTyped
     DEF TypeOK, RequestShape, CredentialsKept, Sent, Ends, Abandon, ShutdownRequested
<1>18. CASE Fetch
  BY <1>t, <1>18, OptsTyped DEF TypeOK, RequestShape, CredentialsKept, Fetch
<1>19. CASE FetchThrows
  BY <1>t, <1>19, OptsTyped
     DEF TypeOK, RequestShape, CredentialsKept, FetchThrows, Ends, Abandon
<1>20. CASE WaitForNextCollection
  BY <1>t, <1>20, OptsTyped
     DEF TypeOK, RequestShape, CredentialsKept, WaitForNextCollection, Ends, Abandon,
         ShutdownRequested, OnceStatus
<1>21. CASE SyncDue
  BY <1>t, <1>21, OptsTyped DEF TypeOK, RequestShape, CredentialsKept, SyncDue
<1>22. CASE RequestShutdown
  BY <1>t, <1>22, OptsTyped DEF TypeOK, RequestShape, CredentialsKept, RequestShutdown
<1>23. CASE Terminate
  BY <1>t, <1>23, OptsTyped
     DEF TypeOK, RequestShape, CredentialsKept, Terminate, Ends, Abandon
<1>24. CASE Restart
  BY <1>t, <1>24, OptsTyped DEF TypeOK, RequestShape, CredentialsKept, Restart
<1>25. CASE StoreInFlight
  BY <1>t, <1>25, OptsTyped
     DEF TypeOK, RequestShape, CredentialsKept, StoreInFlight, InFlight
<1>26. CASE StoreLate
  BY <1>t, <1>26, OptsTyped DEF TypeOK, RequestShape, CredentialsKept, StoreLate
<1>27. CASE UpdateSettings
  BY <1>t, <1>27, OptsTyped DEF TypeOK, RequestShape, CredentialsKept, UpdateSettings
<1>28. CASE Heal
  BY <1>t, <1>28, OptsTyped DEF TypeOK, RequestShape, CredentialsKept, Heal
<1>29. CASE UNCHANGED vars
  BY <1>t, <1>29 DEF TypeOK, RequestShape, CredentialsKept
<1> QED
  BY <1>1, <1>2, <1>3, <1>4, <1>5, <1>6, <1>7, <1>8, <1>9, <1>10, <1>11, <1>12,
     <1>13, <1>14, <1>15, <1>16, <1>17, <1>18, <1>19, <1>20, <1>21, <1>22,
     <1>23, <1>24, <1>25, <1>26, <1>27, <1>28, <1>29
     DEF Next, AgentStep, WorldStep

\* The backoff sleeps only with an attempt left (attemptReconnectWithBackoff).
LEMMA AttKept == IInv /\ [Next]_vars => AttemptLeft'
<1> SUFFICES ASSUME IInv, [Next]_vars PROVE AttemptLeft'
  OBVIOUS
<1> USE DEF vars, processVars, loopVars, sampleVars, serverVars, worldVars,
            Goto, Requests, Ended, Local, NoSample
<1>t. TypeOK /\ AttemptLeft
  BY DEF IInv
<1>1. CASE LoopTop
  BY <1>t, <1>1 DEF TypeOK, AttemptLeft, LoopTop, ShutdownRequested, Ends, Abandon
<1>2. CASE EnsureConnected
  BY <1>t, <1>2
     DEF TypeOK, AttemptLeft, EnsureConnected, Authenticate, SkipAuthentication,
         NotReady
<1>3. CASE Ping
  BY <1>t, <1>3 DEF TypeOK, AttemptLeft, Ping, Authenticate, SkipAuthentication, NotReady
<1>4. CASE Auth
  BY <1>t, <1>4 DEF TypeOK, AttemptLeft, Auth
<1>5. CASE Collect
  BY <1>t, <1>5 DEF TypeOK, AttemptLeft, Collect, Ends, Abandon
<1>6. CASE SendMetrics
  BY <1>t, <1>6 DEF TypeOK, AttemptLeft, SendMetrics
<1>7. CASE Flush
  BY <1>t, <1>7 DEF TypeOK, AttemptLeft, Flush, MoreToFlush
<1>8. CASE FlushSucceeds
  BY <1>t, <1>8 DEF TypeOK, AttemptLeft, FlushSucceeds
<1>9. CASE FlushFails
  BY <1>t, <1>9 DEF TypeOK, AttemptLeft, FlushFails, Abandon
<1>10. CASE Deliver
  BY <1>t, <1>10 DEF TypeOK, AttemptLeft, Deliver, KeepCurrent
<1>11. CASE PostSucceeds
  BY <1>t, <1>11 DEF TypeOK, AttemptLeft, PostSucceeds
<1>12. CASE PostFails
  BY <1>t, <1>12 DEF TypeOK, AttemptLeft, PostFails, KeepCurrent, Abandon
<1>13. CASE Backoff
  BY <1>t, <1>13, AttemptsNat DEF TypeOK, AttemptLeft, Backoff
<1>14. CASE Sleep
  BY <1>t, <1>14 DEF TypeOK, AttemptLeft, Sleep
<1>15. CASE Reping
  BY <1>t, <1>15 DEF TypeOK, AttemptLeft, Reping
<1>16. CASE Reauth
  BY <1>t, <1>16 DEF TypeOK, AttemptLeft, Reauth
<1>17. CASE Sent
  BY <1>t, <1>17 DEF TypeOK, AttemptLeft, Sent, Ends, Abandon, ShutdownRequested
<1>18. CASE Fetch
  BY <1>t, <1>18 DEF TypeOK, AttemptLeft, Fetch
<1>19. CASE FetchThrows
  BY <1>t, <1>19 DEF TypeOK, AttemptLeft, FetchThrows, Ends, Abandon
<1>20. CASE WaitForNextCollection
  BY <1>t, <1>20
     DEF TypeOK, AttemptLeft, WaitForNextCollection, Ends, Abandon, ShutdownRequested,
         OnceStatus
<1>21. CASE SyncDue
  BY <1>t, <1>21 DEF TypeOK, AttemptLeft, SyncDue
<1>22. CASE RequestShutdown
  BY <1>t, <1>22 DEF TypeOK, AttemptLeft, RequestShutdown
<1>23. CASE Terminate
  BY <1>t, <1>23 DEF TypeOK, AttemptLeft, Terminate, Ends, Abandon
<1>24. CASE Restart
  BY <1>t, <1>24 DEF TypeOK, AttemptLeft, Restart
<1>25. CASE StoreInFlight
  BY <1>t, <1>25 DEF TypeOK, AttemptLeft, StoreInFlight, InFlight
<1>26. CASE StoreLate
  BY <1>t, <1>26 DEF TypeOK, AttemptLeft, StoreLate
<1>27. CASE UpdateSettings
  BY <1>t, <1>27 DEF TypeOK, AttemptLeft, UpdateSettings
<1>28. CASE Heal
  BY <1>t, <1>28 DEF TypeOK, AttemptLeft, Heal
<1>29. CASE UNCHANGED vars
  BY <1>t, <1>29 DEF TypeOK, AttemptLeft
<1> QED
  BY <1>1, <1>2, <1>3, <1>4, <1>5, <1>6, <1>7, <1>8, <1>9, <1>10, <1>11, <1>12,
     <1>13, <1>14, <1>15, <1>16, <1>17, <1>18, <1>19, <1>20, <1>21, <1>22,
     <1>23, <1>24, <1>25, <1>26, <1>27, <1>28, <1>29
     DEF Next, AgentStep, WorldStep

\* A process started with --once is never told to stop (maybeDaemonize).
LEMMA OnceKept == IInv /\ [Next]_vars => OnceIsNotDaemon'
<1> SUFFICES ASSUME IInv, [Next]_vars PROVE OnceIsNotDaemon'
  OBVIOUS
<1> USE DEF vars, processVars, loopVars, sampleVars, serverVars, worldVars,
            Goto, Requests, Ended, Local, NoSample
<1>t. TypeOK /\ OnceIsNotDaemon
  BY DEF IInv
<1>1. CASE LoopTop
  BY <1>t, <1>1, OptsTyped
     DEF TypeOK, OnceIsNotDaemon, LoopTop, ShutdownRequested, Ends, Abandon
<1>2. CASE EnsureConnected
  BY <1>t, <1>2, OptsTyped
     DEF TypeOK, OnceIsNotDaemon, EnsureConnected, Authenticate, SkipAuthentication,
         NotReady
<1>3. CASE Ping
  BY <1>t, <1>3, OptsTyped
     DEF TypeOK, OnceIsNotDaemon, Ping, Authenticate, SkipAuthentication, NotReady
<1>4. CASE Auth
  BY <1>t, <1>4, OptsTyped DEF TypeOK, OnceIsNotDaemon, Auth
<1>5. CASE Collect
  BY <1>t, <1>5, OptsTyped DEF TypeOK, OnceIsNotDaemon, Collect, Ends, Abandon
<1>6. CASE SendMetrics
  BY <1>t, <1>6, OptsTyped DEF TypeOK, OnceIsNotDaemon, SendMetrics
<1>7. CASE Flush
  BY <1>t, <1>7, OptsTyped DEF TypeOK, OnceIsNotDaemon, Flush, MoreToFlush
<1>8. CASE FlushSucceeds
  BY <1>t, <1>8, OptsTyped DEF TypeOK, OnceIsNotDaemon, FlushSucceeds
<1>9. CASE FlushFails
  BY <1>t, <1>9, OptsTyped DEF TypeOK, OnceIsNotDaemon, FlushFails, Abandon
<1>10. CASE Deliver
  BY <1>t, <1>10, OptsTyped DEF TypeOK, OnceIsNotDaemon, Deliver, KeepCurrent
<1>11. CASE PostSucceeds
  BY <1>t, <1>11, OptsTyped DEF TypeOK, OnceIsNotDaemon, PostSucceeds
<1>12. CASE PostFails
  BY <1>t, <1>12, OptsTyped DEF TypeOK, OnceIsNotDaemon, PostFails, KeepCurrent, Abandon
<1>13. CASE Backoff
  BY <1>t, <1>13, OptsTyped DEF TypeOK, OnceIsNotDaemon, Backoff
<1>14. CASE Sleep
  BY <1>t, <1>14, OptsTyped DEF TypeOK, OnceIsNotDaemon, Sleep
<1>15. CASE Reping
  BY <1>t, <1>15, OptsTyped DEF TypeOK, OnceIsNotDaemon, Reping
<1>16. CASE Reauth
  BY <1>t, <1>16, OptsTyped DEF TypeOK, OnceIsNotDaemon, Reauth
<1>17. CASE Sent
  BY <1>t, <1>17, OptsTyped
     DEF TypeOK, OnceIsNotDaemon, Sent, Ends, Abandon, ShutdownRequested
<1>18. CASE Fetch
  BY <1>t, <1>18, OptsTyped DEF TypeOK, OnceIsNotDaemon, Fetch
<1>19. CASE FetchThrows
  BY <1>t, <1>19, OptsTyped DEF TypeOK, OnceIsNotDaemon, FetchThrows, Ends, Abandon
<1>20. CASE WaitForNextCollection
  BY <1>t, <1>20, OptsTyped
     DEF TypeOK, OnceIsNotDaemon, WaitForNextCollection, Ends, Abandon,
         ShutdownRequested, OnceStatus
<1>21. CASE SyncDue
  BY <1>t, <1>21, OptsTyped DEF TypeOK, OnceIsNotDaemon, SyncDue
<1>22. CASE RequestShutdown
  BY <1>t, <1>22, OptsTyped DEF TypeOK, OnceIsNotDaemon, RequestShutdown
<1>23. CASE Terminate
  BY <1>t, <1>23, OptsTyped DEF TypeOK, OnceIsNotDaemon, Terminate, Ends, Abandon
<1>24. CASE Restart
  BY <1>t, <1>24, OptsTyped DEF TypeOK, OnceIsNotDaemon, Restart
<1>25. CASE StoreInFlight
  BY <1>t, <1>25, OptsTyped DEF TypeOK, OnceIsNotDaemon, StoreInFlight, InFlight
<1>26. CASE StoreLate
  BY <1>t, <1>26, OptsTyped DEF TypeOK, OnceIsNotDaemon, StoreLate
<1>27. CASE UpdateSettings
  BY <1>t, <1>27, OptsTyped DEF TypeOK, OnceIsNotDaemon, UpdateSettings
<1>28. CASE Heal
  BY <1>t, <1>28, OptsTyped DEF TypeOK, OnceIsNotDaemon, Heal
<1>29. CASE UNCHANGED vars
  BY <1>t, <1>29 DEF TypeOK, OnceIsNotDaemon
<1> QED
  BY <1>1, <1>2, <1>3, <1>4, <1>5, <1>6, <1>7, <1>8, <1>9, <1>10, <1>11, <1>12,
     <1>13, <1>14, <1>15, <1>16, <1>17, <1>18, <1>19, <1>20, <1>21, <1>22,
     <1>23, <1>24, <1>25, <1>26, <1>27, <1>28, <1>29
     DEF Next, AgentStep, WorldStep

\* Every step keeps what the flush leaves behind (processPendingMetrics).
LEMMA FlushKept == IInv /\ [Next]_vars => FlushedOrBlocked'
<1> SUFFICES ASSUME IInv, [Next]_vars PROVE FlushedOrBlocked'
  OBVIOUS
<1> USE DEF vars, processVars, loopVars, sampleVars, serverVars, worldVars,
            Goto, Requests, Ended, Local, NoSample
<1>t. TypeOK /\ RequestShape /\ FlushedOrBlocked
  BY DEF IInv
<1>1. CASE LoopTop
  BY <1>t, <1>1
     DEF TypeOK, RequestShape, FlushedOrBlocked, LoopTop, ShutdownRequested, Ends,
         Abandon
<1>2. CASE EnsureConnected
  BY <1>t, <1>2
     DEF TypeOK, RequestShape, FlushedOrBlocked, EnsureConnected, Authenticate,
         SkipAuthentication, NotReady
<1>3. CASE Ping
  BY <1>t, <1>3
     DEF TypeOK, RequestShape, FlushedOrBlocked, Ping, Authenticate, SkipAuthentication,
         NotReady
<1>4. CASE Auth
  BY <1>t, <1>4 DEF TypeOK, RequestShape, FlushedOrBlocked, Auth
<1>5. CASE Collect
  BY <1>t, <1>5 DEF TypeOK, RequestShape, FlushedOrBlocked, Collect, Ends, Abandon
<1>6. CASE SendMetrics
  BY <1>t, <1>6 DEF TypeOK, RequestShape, FlushedOrBlocked, SendMetrics
<1>7. CASE Flush
  BY <1>t, <1>7 DEF TypeOK, RequestShape, FlushedOrBlocked, Flush, MoreToFlush
<1>8. CASE FlushSucceeds
  BY <1>t, <1>8 DEF TypeOK, RequestShape, FlushedOrBlocked, FlushSucceeds
<1>9. CASE FlushFails
  BY <1>t, <1>9 DEF TypeOK, RequestShape, FlushedOrBlocked, FlushFails, Abandon
<1>10. CASE Deliver
  BY <1>t, <1>10 DEF TypeOK, RequestShape, FlushedOrBlocked, Deliver, KeepCurrent
<1>11. CASE PostSucceeds
  BY <1>t, <1>11 DEF TypeOK, RequestShape, FlushedOrBlocked, PostSucceeds
<1>12. CASE PostFails
  BY <1>t, <1>12 DEF TypeOK, RequestShape, FlushedOrBlocked, PostFails, KeepCurrent, Abandon
<1>13. CASE Backoff
  BY <1>t, <1>13 DEF TypeOK, RequestShape, FlushedOrBlocked, Backoff
<1>14. CASE Sleep
  BY <1>t, <1>14 DEF TypeOK, RequestShape, FlushedOrBlocked, Sleep
<1>15. CASE Reping
  BY <1>t, <1>15 DEF TypeOK, RequestShape, FlushedOrBlocked, Reping
<1>16. CASE Reauth
  BY <1>t, <1>16 DEF TypeOK, RequestShape, FlushedOrBlocked, Reauth
<1>17. CASE Sent
  BY <1>t, <1>17
     DEF TypeOK, RequestShape, FlushedOrBlocked, Sent, Ends, Abandon, ShutdownRequested
<1>18. CASE Fetch
  BY <1>t, <1>18 DEF TypeOK, RequestShape, FlushedOrBlocked, Fetch
<1>19. CASE FetchThrows
  BY <1>t, <1>19 DEF TypeOK, RequestShape, FlushedOrBlocked, FetchThrows, Ends, Abandon
<1>20. CASE WaitForNextCollection
  BY <1>t, <1>20
     DEF TypeOK, RequestShape, FlushedOrBlocked, WaitForNextCollection, Ends, Abandon,
         ShutdownRequested, OnceStatus
<1>21. CASE SyncDue
  BY <1>t, <1>21 DEF TypeOK, RequestShape, FlushedOrBlocked, SyncDue
<1>22. CASE RequestShutdown
  BY <1>t, <1>22 DEF TypeOK, RequestShape, FlushedOrBlocked, RequestShutdown
<1>23. CASE Terminate
  BY <1>t, <1>23 DEF TypeOK, RequestShape, FlushedOrBlocked, Terminate, Ends, Abandon
<1>24. CASE Restart
  BY <1>t, <1>24 DEF TypeOK, RequestShape, FlushedOrBlocked, Restart
<1>25. CASE StoreInFlight
  BY <1>t, <1>25 DEF TypeOK, RequestShape, FlushedOrBlocked, StoreInFlight, InFlight
<1>26. CASE StoreLate
  BY <1>t, <1>26 DEF TypeOK, RequestShape, FlushedOrBlocked, StoreLate
<1>27. CASE UpdateSettings
  BY <1>t, <1>27 DEF TypeOK, RequestShape, FlushedOrBlocked, UpdateSettings
<1>28. CASE Heal
  BY <1>t, <1>28 DEF TypeOK, RequestShape, FlushedOrBlocked, Heal
<1>29. CASE UNCHANGED vars
  BY <1>t, <1>29 DEF TypeOK, RequestShape, FlushedOrBlocked
<1> QED
  BY <1>1, <1>2, <1>3, <1>4, <1>5, <1>6, <1>7, <1>8, <1>9, <1>10, <1>11, <1>12,
     <1>13, <1>14, <1>15, <1>16, <1>17, <1>18, <1>19, <1>20, <1>21, <1>22,
     <1>23, <1>24, <1>25, <1>26, <1>27, <1>28, <1>29
     DEF Next, AgentStep, WorldStep

\* Every step handles only samples that were collected.
LEMMA CollKept == IInv /\ [Next]_vars => OnlyCollected'
<1> SUFFICES ASSUME IInv, [Next]_vars PROVE OnlyCollected'
  OBVIOUS
<1> USE DEF vars, processVars, loopVars, sampleVars, serverVars, worldVars,
            Goto, Requests, Ended, Local, NoSample
<1>t. TypeOK /\ RequestShape /\ OnlyCollected
  BY DEF IInv
<1>e. ASSUME NEW how \in Ended, Ends(how) PROVE OnlyCollected'
  BY <1>t, <1>e, InFlightCollected
     DEF TypeOK, RequestShape, OnlyCollected, Collected, Ends, Abandon
<1>1. CASE LoopTop
  BY <1>t, <1>1, <1>e
     DEF TypeOK, RequestShape, OnlyCollected, Collected, LoopTop, ShutdownRequested
<1>2. CASE EnsureConnected
  BY <1>t, <1>2
     DEF TypeOK, RequestShape, OnlyCollected, Collected, EnsureConnected, Authenticate,
         SkipAuthentication, NotReady
<1>3. CASE Ping
  BY <1>t, <1>3
     DEF TypeOK, RequestShape, OnlyCollected, Collected, Ping, Authenticate,
         SkipAuthentication, NotReady
<1>4. CASE Auth
  BY <1>t, <1>4 DEF TypeOK, RequestShape, OnlyCollected, Collected, Auth
<1>5. CASE Collect
  BY <1>t, <1>5, NextSampleCollected, <1>e
     DEF TypeOK, RequestShape, OnlyCollected, Collected, Collect
<1>6. CASE SendMetrics
  BY <1>t, <1>6 DEF TypeOK, RequestShape, OnlyCollected, Collected, SendMetrics
<1>7. CASE Flush
  BY <1>t, <1>7 DEF TypeOK, RequestShape, OnlyCollected, Collected, Flush, MoreToFlush
<1>8. CASE FlushSucceeds
  BY <1>t, <1>8, TailElements
     DEF TypeOK, RequestShape, OnlyCollected, Collected, FlushSucceeds
<1>9. CASE FlushFails
  BY <1>t, <1>9, InFlightCollected
     DEF TypeOK, RequestShape, OnlyCollected, Collected, FlushFails, Abandon
<1>10. CASE Deliver
  BY <1>t, <1>10, BufferedElements
     DEF TypeOK, RequestShape, OnlyCollected, Collected, Deliver, KeepCurrent
<1>11. CASE PostSucceeds
  BY <1>t, <1>11 DEF TypeOK, RequestShape, OnlyCollected, Collected, PostSucceeds
<1>12. CASE PostFails
  BY <1>t, <1>12, BufferedElements, InFlightCollected
     DEF TypeOK, RequestShape, OnlyCollected, Collected, PostFails, KeepCurrent, Abandon
<1>13. CASE Backoff
  BY <1>t, <1>13 DEF TypeOK, RequestShape, OnlyCollected, Collected, Backoff
<1>14. CASE Sleep
  BY <1>t, <1>14 DEF TypeOK, RequestShape, OnlyCollected, Collected, Sleep
<1>15. CASE Reping
  BY <1>t, <1>15 DEF TypeOK, RequestShape, OnlyCollected, Collected, Reping
<1>16. CASE Reauth
  BY <1>t, <1>16 DEF TypeOK, RequestShape, OnlyCollected, Collected, Reauth
<1>17. CASE Sent
  BY <1>t, <1>17, <1>e
     DEF TypeOK, RequestShape, OnlyCollected, Collected, Sent, ShutdownRequested
<1>18. CASE Fetch
  BY <1>t, <1>18 DEF TypeOK, RequestShape, OnlyCollected, Collected, Fetch
<1>19. CASE FetchThrows
  BY <1>t, <1>19, <1>e DEF TypeOK, RequestShape, OnlyCollected, Collected, FetchThrows
<1>20. CASE WaitForNextCollection
  BY <1>t, <1>20, <1>e
     DEF TypeOK, RequestShape, OnlyCollected, Collected, WaitForNextCollection,
         ShutdownRequested, OnceStatus
<1>21. CASE SyncDue
  BY <1>t, <1>21 DEF TypeOK, RequestShape, OnlyCollected, Collected, SyncDue
<1>22. CASE RequestShutdown
  BY <1>t, <1>22 DEF TypeOK, RequestShape, OnlyCollected, Collected, RequestShutdown
<1>23. CASE Terminate
  BY <1>t, <1>23, <1>e DEF TypeOK, RequestShape, OnlyCollected, Collected, Terminate
<1>24. CASE Restart
  BY <1>t, <1>24 DEF TypeOK, RequestShape, OnlyCollected, Collected, Restart
<1>25. CASE StoreInFlight
  BY <1>t, <1>25, InFlightCollected
     DEF TypeOK, RequestShape, OnlyCollected, Collected, StoreInFlight
<1>26. CASE StoreLate
  BY <1>t, <1>26 DEF TypeOK, RequestShape, OnlyCollected, Collected, StoreLate
<1>27. CASE UpdateSettings
  BY <1>t, <1>27 DEF TypeOK, RequestShape, OnlyCollected, Collected, UpdateSettings
<1>28. CASE Heal
  BY <1>t, <1>28 DEF TypeOK, RequestShape, OnlyCollected, Collected, Heal
<1>29. CASE UNCHANGED vars
  BY <1>t, <1>29 DEF TypeOK, RequestShape, OnlyCollected, Collected
<1> QED
  BY <1>1, <1>2, <1>3, <1>4, <1>5, <1>6, <1>7, <1>8, <1>9, <1>10, <1>11, <1>12,
     <1>13, <1>14, <1>15, <1>16, <1>17, <1>18, <1>19, <1>20, <1>21, <1>22,
     <1>23, <1>24, <1>25, <1>26, <1>27, <1>28, <1>29
     DEF Next, AgentStep, WorldStep

\* Every step takes only stored samples for delivered (sendMetrics).
LEMMA DelKept == IInv /\ [Next]_vars => DeliveredIsStored'
<1> SUFFICES ASSUME IInv, [Next]_vars PROVE DeliveredIsStored'
  OBVIOUS
<1> USE DEF vars, processVars, loopVars, sampleVars, serverVars, worldVars,
            Goto, Requests, Ended, Local, NoSample
<1>t. TypeOK /\ RequestShape /\ OnlyCollected /\ DeliveredIsStored /\ OnceIsNotDaemon
  BY DEF IInv
<1>1. CASE LoopTop
  BY <1>t, <1>1
     DEF RequestShape, DeliveredIsStored, InFlight, LoopTop, ShutdownRequested, Ends,
         Abandon, OnceIsNotDaemon
<1>2. CASE EnsureConnected
  BY <1>t, <1>2
     DEF RequestShape, DeliveredIsStored, InFlight, EnsureConnected, Authenticate,
         SkipAuthentication, NotReady
<1>3. CASE Ping
  BY <1>t, <1>3
     DEF RequestShape, DeliveredIsStored, InFlight, Ping, Authenticate,
         SkipAuthentication, NotReady
<1>4. CASE Auth
  BY <1>t, <1>4 DEF RequestShape, DeliveredIsStored, InFlight, Auth
<1>5. CASE Collect
  BY <1>t, <1>5 DEF RequestShape, DeliveredIsStored, InFlight, Collect, Ends, Abandon
<1>6. CASE SendMetrics
  BY <1>t, <1>6 DEF RequestShape, DeliveredIsStored, InFlight, SendMetrics
<1>7. CASE Flush
  BY <1>t, <1>7 DEF RequestShape, DeliveredIsStored, InFlight, Flush, MoreToFlush
<1>8. CASE FlushSucceeds
  BY <1>t, <1>8 DEF RequestShape, DeliveredIsStored, InFlight, FlushSucceeds
<1>9. CASE FlushFails
  BY <1>t, <1>9 DEF RequestShape, DeliveredIsStored, InFlight, FlushFails, Abandon
<1>10. CASE Deliver
  BY <1>t, <1>10 DEF RequestShape, DeliveredIsStored, InFlight, Deliver, KeepCurrent
<1>11. CASE PostSucceeds
  BY <1>t, <1>11 DEF RequestShape, DeliveredIsStored, InFlight, PostSucceeds, OnlyCollected
<1>12. CASE PostFails
  BY <1>t, <1>12
     DEF RequestShape, DeliveredIsStored, InFlight, PostFails, KeepCurrent, Abandon
<1>13. CASE Backoff
  BY <1>t, <1>13 DEF RequestShape, DeliveredIsStored, InFlight, Backoff
<1>14. CASE Sleep
  BY <1>t, <1>14 DEF RequestShape, DeliveredIsStored, InFlight, Sleep
<1>15. CASE Reping
  BY <1>t, <1>15 DEF RequestShape, DeliveredIsStored, InFlight, Reping
<1>16. CASE Reauth
  BY <1>t, <1>16 DEF RequestShape, DeliveredIsStored, InFlight, Reauth
<1>17. CASE Sent
  BY <1>t, <1>17
     DEF RequestShape, DeliveredIsStored, InFlight, Sent, Ends, Abandon,
         ShutdownRequested, OnceIsNotDaemon
<1>18. CASE Fetch
  BY <1>t, <1>18 DEF RequestShape, DeliveredIsStored, InFlight, Fetch
<1>19. CASE FetchThrows
  BY <1>t, <1>19 DEF RequestShape, DeliveredIsStored, InFlight, FetchThrows, Ends, Abandon
<1>20. CASE WaitForNextCollection
  BY <1>t, <1>20
     DEF RequestShape, DeliveredIsStored, InFlight, WaitForNextCollection, Ends,
         Abandon, ShutdownRequested, OnceStatus, OnceIsNotDaemon
<1>21. CASE SyncDue
  BY <1>t, <1>21 DEF RequestShape, DeliveredIsStored, InFlight, SyncDue
<1>22. CASE RequestShutdown
  BY <1>t, <1>22 DEF RequestShape, DeliveredIsStored, InFlight, RequestShutdown
<1>23. CASE Terminate
  BY <1>t, <1>23 DEF RequestShape, DeliveredIsStored, InFlight, Terminate, Ends, Abandon
<1>24. CASE Restart
  BY <1>t, <1>24 DEF RequestShape, DeliveredIsStored, InFlight, Restart
<1>25. CASE StoreInFlight
  BY <1>t, <1>25 DEF RequestShape, DeliveredIsStored, InFlight, StoreInFlight, InFlight
<1>26. CASE StoreLate
  BY <1>t, <1>26 DEF RequestShape, DeliveredIsStored, InFlight, StoreLate
<1>27. CASE UpdateSettings
  BY <1>t, <1>27 DEF RequestShape, DeliveredIsStored, InFlight, UpdateSettings
<1>28. CASE Heal
  BY <1>t, <1>28 DEF RequestShape, DeliveredIsStored, InFlight, Heal
<1>29. CASE UNCHANGED vars
  BY <1>t, <1>29 DEF RequestShape, DeliveredIsStored, InFlight
<1> QED
  BY <1>1, <1>2, <1>3, <1>4, <1>5, <1>6, <1>7, <1>8, <1>9, <1>10, <1>11, <1>12,
     <1>13, <1>14, <1>15, <1>16, <1>17, <1>18, <1>19, <1>20, <1>21, <1>22,
     <1>23, <1>24, <1>25, <1>26, <1>27, <1>28, <1>29
     DEF Next, AgentStep, WorldStep

\* Every step keeps the order of the samples held (bufferMetrics).
LEMMA OrderKept == IInv /\ [Next]_vars => BufferInOrder'
<1> SUFFICES ASSUME IInv, [Next]_vars PROVE InOrder(Held')
  BY DEF BufferInOrder, InOrder
<1> USE DEF Goto
<1>t. TypeOK /\ RequestShape /\ OnlyCollected /\ InOrder(Held) /\ Held \in Seq(Sample)
  BY HeldTyped DEF IInv, BufferInOrder
<1>e. InOrder(<< >>)
  BY DEF InOrder
<1>s. ASSUME Held' = Held PROVE InOrder(Held')
  BY <1>t, <1>s
<1>u. ASSUME UNCHANGED sampleVars PROVE InOrder(Held')
  BY <1>u, <1>s, HeldUnchanged
<1>k. ASSUME current # NoSample, NEW next, KeepCurrent(next) PROVE InOrder(Held')
  <2>1. CASE Held' = Held
    BY <1>s, <2>1
  <2>2. CASE Held' = Tail(Held)
    BY <1>t, <1>k, <2>2, HeldTyped, InOrderTail
  <2> QED
    BY <1>t, <1>k, <2>1, <2>2, KeepCurrentHeld
<1>1. CASE LoopTop
  BY <1>1, <1>u, <1>e, EndsHeld DEF LoopTop
<1>2. CASE Collect
  <2>1. CASE Ends("exit1")
    BY <2>1, <1>e, EndsHeld
  <2>2. CASE /\ pc = "collect"
             /\ current' = NextSample
             /\ UNCHANGED buffer
    <3>1. Held = buffer
      BY <1>t, <2>2 DEF Held, RequestShape
    <3>2. NextSample \in Sample /\ NextSample # NoSample
      BY <1>t, NextSampleTyped DEF Sample, NoSample
    <3>3. Held' = Append(Held, NextSample)
      BY <2>2, <3>1, <3>2 DEF Held
    <3>4. ASSUME NEW i \in 1 .. Len(Held)
          PROVE  Held[i] < NextSample \/ (Held[i] = MaxSample /\ NextSample = MaxSample)
      <4>1. Held[i] \in 1 .. seq /\ seq \in 0 .. MaxSample
        BY <1>t, <3>1, <3>4 DEF OnlyCollected, Collected, TypeOK, SampleCount
      <4> QED
        BY <4>1 DEF NextSample
    <3> QED
      BY <1>t, <3>2, <3>3, <3>4, InOrderAppend
  <2> QED
    BY <1>2, <2>1, <2>2 DEF Collect
<1>3. CASE SendMetrics
  <2>1. CASE current' = NoSample /\ UNCHANGED buffer
    <3>1. Held' = buffer /\ Held = Append(buffer, current) /\ current \in Sample
      BY <1>t, <1>3, <2>1, HeldTyped DEF Held, SendMetrics, RequestShape
    <3> QED
      BY <1>t, <3>1, InOrderPrefix DEF TypeOK
  <2>2. CASE UNCHANGED sampleVars
    BY <2>2, <1>u
  <2> QED
    BY <1>3, <2>1, <2>2 DEF SendMetrics, sampleVars
<1>4. CASE FlushSucceeds
  BY <1>t, <1>4, FlushedHeld, InOrderTail
<1>5. CASE Deliver
  <2>1. current # NoSample
    BY <1>t, <1>5 DEF Deliver, RequestShape
  <2> QED
    BY <1>5, <2>1, <1>k, <1>u DEF Deliver
<1>6. CASE PostSucceeds
  <2>1. Held' = buffer /\ Held = Append(buffer, current) /\ current \in Sample
    BY <1>t, <1>6, HeldTyped DEF Held, PostSucceeds, RequestShape
  <2> QED
    BY <1>t, <2>1, InOrderPrefix DEF TypeOK
<1>7. CASE PostFails
  <2>1. current # NoSample
    BY <1>t, <1>7 DEF PostFails, RequestShape
  <2> QED
    BY <1>7, <2>1, <1>k DEF PostFails
<1>8. CASE Sent
  BY <1>8, <1>u, <1>e, EndsHeld DEF Sent
<1>9. CASE FetchThrows
  BY <1>9, <1>e, EndsHeld DEF FetchThrows
<1>10. CASE WaitForNextCollection
  BY <1>10, <1>u, <1>e, EndsHeld DEF WaitForNextCollection
<1>11. CASE Terminate
  BY <1>11, <1>e, EndsHeld DEF Terminate
<1>12. CASE Restart
  <2>1. Held' = << >>
    BY <1>12 DEF Held, Restart
  <2> QED
    BY <2>1, <1>e
<1>13. CASE UNCHANGED vars
  BY <1>13, <1>u DEF vars
<1> QED
  BY <1>1, <1>2, <1>3, <1>4, <1>5, <1>6, <1>7, <1>8, <1>9, <1>10, <1>11, <1>12,
     <1>13, <1>u, SampleVarsUnchanged
     DEF Next, AgentStep, WorldStep

\* A process that starts satisfies the inductive invariant.
LEMMA Initially == Init => IInv
<1> SUFFICES ASSUME Init PROVE IInv
  OBVIOUS
<1>0. 0 \in SampleCount
  BY DEF SampleCount
<1>1. TypeOK
  BY <1>0, ZeroAttempts, EmptyTyped
     DEF Init, TypeOK, PC, Local, NoSample, ConstantsAssumption
<1>2. RequestShape /\ AttemptLeft /\ FlushedOrBlocked /\ OnceIsNotDaemon
  BY DEF Init, RequestShape, AttemptLeft, FlushedOrBlocked, OnceIsNotDaemon
<1>3. CredentialsKept
  BY DEF Init, CredentialsKept
<1>4. OnlyCollected /\ DeliveredIsStored
  BY DEF Init, OnlyCollected, DeliveredIsStored
<1>5. BufferInOrder
  BY DEF Init, BufferInOrder, InOrder, Held
<1> QED
  BY <1>1, <1>2, <1>3, <1>4, <1>5 DEF IInv

\* Every step of the agent and of what surrounds it keeps the invariant.
LEMMA Inductive == IInv /\ [Next]_vars => IInv'
BY TypeCorrect, ShapeKept, CredKept, AttKept, OnceKept, FlushKept, CollKept, DelKept,
   OrderKept
   DEF IInv

\* The inductive invariant holds in every state of every agent: whatever the
\* limits of the buffer and of the backoff, and however many samples.
THEOREM Invariance == Spec => []IInv
<1> QED
  BY Initially, Inductive, PTL DEF Spec

\* Type correctness of runAgent and NetworkClient: the buffer stays within
\* max_buffer_size_, the attempts within max_retry_attempts_.
THEOREM TypeCorrectness == Spec => []TypeOK
<1>1. IInv => TypeOK
  BY DEF IInv
<1> QED
  BY <1>1, Invariance, PTL

\* No sample is ever posted without the API key the configuration holds
\* (ensureConnected, authenticateWithCredentials, sendMetricsInternal).
THEOREM Credentials == Spec => []PostsCarryCredentials
<1>1. IInv => PostsCarryCredentials
  BY DEF IInv, PostsCarryCredentials, RequestShape, CredentialsKept, InFlight
<1> QED
  BY <1>1, Invariance, PTL

\* An exit status 0 of --once means that the control plane has stored the
\* sample (runAgent, sendMetrics).
THEOREM OnceIsTruthful == Spec => []OnceReportsTheTruth
<1>1. IInv => OnceReportsTheTruth
  BY DEF IInv, OnceReportsTheTruth, DeliveredIsStored
<1> QED
  BY <1>1, Invariance, PTL

\* The samples the process holds are in the order in which they were collected
\* (bufferMetrics, processPendingMetrics).
THEOREM Order == Spec => []BufferInOrder
<1>1. IInv => BufferInOrder
  BY DEF IInv
<1> QED
  BY <1>1, Invariance, PTL

(* After a shutdown has been requested *)

\* A step of the agent with its count: only authentication and the POST of the current
\* sample are started without a look at the flag, and neither leads to the other.
LEMMA CountKept == ShutdownInv /\ [CountedNext]_<<vars, startedLate>> => CountFits'
<1> SUFFICES ASSUME ShutdownInv, [CountedNext]_<<vars, startedLate>> PROVE CountFits'
  OBVIOUS
<1> USE DEF CountFits, processVars, loopVars, sampleVars, serverVars, worldVars,
            Goto, Requests, Ended
<1>t. CountFits /\ shutdown \in BOOLEAN
  BY DEF ShutdownInv, IInv, TypeOK
<1>u. CASE UNCHANGED <<vars, startedLate>>
  BY <1>t, <1>u DEF vars
<1>n. CASE CountedNext
  <2> DEFINE count == startedLate' =
                       IF ~shutdown \/ ~shutdown' THEN 0
                       ELSE IF pc' \in Requests /\ pc' # pc THEN startedLate + 1
                       ELSE startedLate
  <2>c. Next /\ count
    BY <1>n DEF CountedNext
  <2>0. CASE ~shutdown \/ ~shutdown'
    BY <2>c, <2>0
  <2>e. ASSUME NEW how \in Ended, Ends(how) PROVE CountFits'
    BY <1>t, <2>c, <2>e DEF Ends
  <2> SUFFICES ASSUME shutdown, shutdown' PROVE CountFits'
    BY <1>t, <2>0
  <2>1. CASE LoopTop
    BY <2>1, <2>e DEF LoopTop, ShutdownRequested
  <2>2. CASE EnsureConnected
    BY <1>t, <2>c, <2>2 DEF EnsureConnected, Authenticate, SkipAuthentication, NotReady
  <2>3. CASE Ping
    BY <1>t, <2>c, <2>3 DEF Ping, Authenticate, SkipAuthentication, NotReady
  <2>4. CASE Auth
    BY <1>t, <2>c, <2>4 DEF Auth
  <2>5. CASE Collect
    BY <1>t, <2>c, <2>5, <2>e DEF Collect
  <2>6. CASE SendMetrics
    BY <1>t, <2>c, <2>6 DEF SendMetrics
  <2>7. CASE Flush
    BY <1>t, <2>c, <2>7 DEF Flush, MoreToFlush
  <2>8. CASE FlushSucceeds \/ FlushFails
    BY <1>t, <2>c, <2>8 DEF FlushSucceeds, FlushFails
  <2>9. CASE Deliver
    BY <1>t, <2>c, <2>9 DEF Deliver, KeepCurrent
  <2>10. CASE PostSucceeds \/ PostFails
    BY <1>t, <2>c, <2>10 DEF PostSucceeds, PostFails, KeepCurrent
  <2>11. CASE Backoff \/ Sleep
    BY <1>t, <2>c, <2>11 DEF Backoff, Sleep
  <2>12. CASE Reping \/ Reauth
    BY <1>t, <2>c, <2>12 DEF Reping, Reauth
  <2>13. CASE Sent
    BY <2>13, <2>e DEF Sent, ShutdownRequested
  <2>14. CASE Fetch
    BY <1>t, <2>c, <2>14 DEF Fetch
  <2>15. CASE FetchThrows
    BY <2>15, <2>e DEF FetchThrows
  <2>16. CASE WaitForNextCollection
    BY <2>16, <2>e DEF WaitForNextCollection, ShutdownRequested, OnceStatus
  <2>17. CASE Terminate
    BY <2>17, <2>e DEF Terminate
  <2>18. CASE RequestShutdown \/ Restart
    BY <2>18 DEF RequestShutdown, Restart
  <2>19. CASE SyncDue \/ StoreInFlight \/ StoreLate \/ UpdateSettings \/ Heal
    BY <1>t, <2>c, <2>19 DEF SyncDue, StoreInFlight, StoreLate, UpdateSettings, Heal
  <2> QED
    BY <2>c, <2>1, <2>2, <2>3, <2>4, <2>5, <2>6, <2>7, <2>8, <2>9, <2>10, <2>11, <2>12,
       <2>13, <2>14, <2>15, <2>16, <2>17, <2>18, <2>19
       DEF Next, AgentStep, WorldStep
<1> QED
  BY <1>u, <1>n

\* The invariant of the agent holds beside the count, which fits in every state.
THEOREM ShutdownInvariance == CountedSpec => []ShutdownInv
<1>1. CountedInit => ShutdownInv
  BY Initially DEF CountedInit, ShutdownInv, CountFits
<1>2. ShutdownInv /\ [CountedNext]_<<vars, startedLate>> => ShutdownInv'
  <2>1. [CountedNext]_<<vars, startedLate>> => [Next]_vars
    BY DEF CountedNext
  <2> QED
    BY <2>1, CountKept, Inductive DEF ShutdownInv
<1> QED
  BY <1>1, <1>2, PTL DEF CountedSpec

\* A process told to stop starts one more HTTP request at most, wherever the signal found
\* it and whatever the limits of its buffer and of its backoff.
THEOREM ShutdownBound == CountedSpec => []AtMostOneRequestAfterShutdown
<1>1. ShutdownInv => AtMostOneRequestAfterShutdown
  BY DEF ShutdownInv, CountFits, AtMostOneRequestAfterShutdown
<1> QED
  BY <1>1, ShutdownInvariance, PTL
=============================================================================
