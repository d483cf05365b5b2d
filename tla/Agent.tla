-------------------------------- MODULE Agent --------------------------------
(***************************************************************************)
(* The btop-agent process: the collection loop of main.cpp (runAgent,      *)
(* ensureConnected, waitForNextCollection) and the state machine of        *)
(* network_client.cpp it drives (connect, authenticateWithCredentials,     *)
(* sendMetrics, processPendingMetrics, attemptReconnectWithBackoff,        *)
(* fetchAgentConfig).                                                      *)
(*                                                                         *)
(* The program is single threaded.  Its control point `pc' moves from one  *)
(* read of the shutdown flag, or one HTTP request, to the next; between    *)
(* two such points a signal may arrive, the server may act, or the process *)
(* may be killed.  A POST of a sample has three steps: the agent starts    *)
(* it, the server may store the sample, the agent sees an answer or gives  *)
(* up.  An abandoned POST can still be stored later.                       *)
(***************************************************************************)
EXTENDS Naturals, Sequences

CONSTANTS
  MaxSample,          \* bound: every later sample is represented by this one
  MaxBuffer,          \* max_buffer_size_
  MaxRetryAttempts,   \* max_retry_attempts_
  Unserialisable,     \* samples on which MetricsData::toJson throws
  Configs,            \* remote settings (interval and GPU switch) as a whole
  FileConfig,         \* the settings of the configuration file
  Options             \* how the process may have been started

AllOptions ==
  { o \in [once : BOOLEAN, daemon : BOOLEAN, token : BOOLEAN] :
      o.once => ~o.daemon }

Sample == 1 .. MaxSample
SampleCount == 0 .. MaxSample
Attempts == 0 .. MaxRetryAttempts
NoSample == 0

ASSUME ConstantsAssumption ==
  /\ MaxSample \in Nat \ {0}
  /\ MaxBuffer \in Nat
  /\ MaxRetryAttempts \in Nat \ {0}
  /\ Unserialisable \subseteq Sample
  /\ FileConfig \in Configs
  /\ Options \subseteq AllOptions

VARIABLES
  \* --- the process
  pc,               \* control point
  opts,             \* --once, daemon mode, auth_token present
  shutdown,         \* g_shutdown_requested
  connected,        \* connected_
  authenticated,    \* authenticated_
  credentials,      \* current_credentials_ is set
  retryAttempts,    \* retry_attempts_
  buffer,           \* metrics_buffer_, oldest first
  current,          \* the sample sendMetrics was called with, or NoSample
  ready, sent,      \* the locals of that name in runAgent
  due,              \* the remote configuration is due for a fetch
  config,           \* collection interval and GPU switch in force
  \* --- the control plane, as far as the agent can see it
  acked,            \* it has stored the sample of the POST in progress
  history,          \* samples it has stored
  late,             \* samples of abandoned POSTs it may still store
  serverConfig,     \* settings it hands out
  healthy,          \* from here on every request is answered in time
  \* --- history variable
  seq               \* the last sample collected

processVars == <<connected, authenticated, credentials, retryAttempts>>
loopVars    == <<ready, sent, due, config>>
sampleVars  == <<seq, buffer, current>>
serverVars  == <<acked, history, late>>
worldVars   == <<opts, shutdown, serverConfig, healthy>>
vars == <<pc, processVars, loopVars, sampleVars, serverVars, worldVars>>

Requests == {"ping", "auth", "flushing", "posting", "reping", "reauth", "fetch"}
Ended    == {"exit0", "exit1", "killed"}
Local    == {"loop", "ensure", "collect", "send", "flush", "deliver",
             "backoff", "sleep", "sent", "wait"}
PC       == Requests \cup Ended \cup Local

Goto(from, to) == pc = from /\ pc' = to

\* An HTTP request can fail until the server is healthy, and is aborted by the
\* progress callback once shutdown is requested.
CanFail == ~healthy \/ shutdown

NextSample == IF seq < MaxSample THEN seq + 1 ELSE seq

BufferedUnbounded(s) == Append(buffer, s)         \* mutant: the limit forgotten
BufferedAtFront(s) ==                             \* mutant: newest first
  IF Len(buffer) < MaxBuffer THEN <<s>> \o buffer ELSE buffer

\* bufferMetrics: push, then drop the oldest while over the limit.
Buffered(s) ==
  LET q == Append(buffer, s) IN IF Len(q) > MaxBuffer THEN Tail(q) ELSE q

\* The sample the POST in progress carries.
InFlight ==
  CASE pc = "flushing" -> {Head(buffer)}
    [] pc = "posting"  -> {current}
    [] OTHER           -> {}

\* A POST the agent gives up on may still reach the server, which stores the
\* sample only if the request carries a key.
Abandon ==
  /\ late' \in {late, late \cup (IF acked \/ ~credentials THEN {} ELSE InFlight)}
  /\ acked' = FALSE
  /\ UNCHANGED history
-----------------------------------------------------------------------------
Init ==
  /\ pc = "loop"
  /\ shutdown = FALSE
  /\ connected = FALSE
  /\ authenticated = FALSE
  /\ credentials = FALSE
  /\ retryAttempts = 0
  /\ buffer = << >>
  /\ current = NoSample
  /\ ready = FALSE
  /\ sent = FALSE
  /\ due = TRUE
  /\ config = FileConfig
  /\ opts \in Options
  /\ acked = FALSE
  /\ history = {}
  /\ late = {}
  /\ serverConfig \in Configs
  /\ healthy = FALSE
  /\ seq = 0
-----------------------------------------------------------------------------
(* The process ends: its memory is gone, a POST it was waiting for is not. *)
Ends(how) ==
  /\ pc' = how
  /\ Abandon
  /\ buffer' = << >>
  /\ current' = NoSample
  /\ UNCHANGED <<seq, processVars, loopVars, worldVars>>

NeverToldToStop == FALSE          \* mutant: a flag the signal handler does not set

\* DaemonManager::shutdownRequested, as runAgent asks it.
ShutdownRequested == shutdown

LoopTop ==
  \/ /\ Goto("loop", "ensure")
     /\ ~ShutdownRequested
     /\ UNCHANGED <<processVars, loopVars, sampleVars, serverVars, worldVars>>
  \/ pc = "loop" /\ ShutdownRequested /\ Ends("exit0")

AuthenticateWithoutStoring ==     \* mutant: credentials not kept for later requests
  /\ opts.token /\ ~authenticated
  /\ pc' = "auth"
  /\ UNCHANGED <<credentials, authenticated, ready>>

\* The end of ensureConnected, once there is a connection: authenticate if
\* there is a token and this process has not authenticated yet.
Authenticate ==
  /\ opts.token /\ ~authenticated
  /\ pc' = "auth"
  /\ credentials' = TRUE
  /\ UNCHANGED <<authenticated, ready>>

SkipAuthentication ==
  /\ ~(opts.token /\ ~authenticated)
  /\ pc' = "collect"
  /\ ready' = TRUE
  /\ UNCHANGED <<authenticated, credentials>>

NotReady ==
  /\ pc' = "collect"
  /\ ready' = FALSE
  /\ UNCHANGED <<authenticated, credentials>>

ConnectOnlyAtStart ==             \* mutant: reconnecting is left to the backoff
  /\ pc = "ensure"
  /\ \/ connected /\ (Authenticate \/ SkipAuthentication)
     \/ ~connected /\ (shutdown \/ credentials) /\ NotReady
     \/ /\ ~connected /\ ~shutdown /\ ~credentials
        /\ pc' = "ping"
        /\ UNCHANGED <<authenticated, credentials, ready>>
  /\ UNCHANGED <<connected, retryAttempts, sent, due, config>>
  /\ UNCHANGED <<sampleVars, serverVars, worldVars>>

EnsureConnected ==
  /\ pc = "ensure"
  /\ \/ connected /\ (Authenticate \/ SkipAuthentication)
     \/ ~connected /\ shutdown /\ NotReady
     \/ /\ ~connected /\ ~shutdown
        /\ pc' = "ping"
        /\ UNCHANGED <<authenticated, credentials, ready>>
  /\ UNCHANGED <<connected, retryAttempts, sent, due, config>>
  /\ UNCHANGED <<sampleVars, serverVars, worldVars>>

\* connect: GET /api/ping answered 200 or 404, or not.
Ping ==
  /\ pc = "ping"
  /\ \/ connected' = TRUE /\ (Authenticate \/ SkipAuthentication)
     \/ CanFail /\ connected' = FALSE /\ NotReady
  /\ UNCHANGED <<retryAttempts, sent, due, config>>
  /\ UNCHANGED <<sampleVars, serverVars, worldVars>>

\* authenticateWithCredentials: GET /api/auth/status answered 200, or not.  It
\* never changes connected_.
Auth ==
  /\ Goto("auth", "collect")
  /\ \E ok \in BOOLEAN :
       /\ ok \/ CanFail
       /\ authenticated' = ok
       /\ ready' = ok
  /\ UNCHANGED <<connected, credentials, retryAttempts, sent, due, config>>
  /\ UNCHANGED <<sampleVars, serverVars, worldVars>>

\* MetricsCollector::collect; an exception leaves runAgent and main returns 1.
Collect ==
  \/ /\ Goto("collect", "send")
     /\ seq' = NextSample
     /\ current' = NextSample
     /\ UNCHANGED <<buffer, processVars, loopVars, serverVars, worldVars>>
  \/ pc = "collect" /\ Ends("exit1")
-----------------------------------------------------------------------------
(* NetworkClient::sendMetrics *)

\* Its first line: with shutdown requested the sample is given up.
SendMetrics ==
  /\ pc = "send"
  /\ \/ /\ shutdown
        /\ pc' = "sent"
        /\ current' = NoSample
        /\ sent' = FALSE
     \/ /\ ~shutdown
        /\ pc' = "flush"
        /\ UNCHANGED <<current, sent>>
  /\ UNCHANGED <<seq, buffer, ready, due, config>>
  /\ UNCHANGED <<processVars, serverVars, worldVars>>

MoreToFlushAtShutdown ==          \* mutant: the flush does not look at the flag
  connected /\ buffer # << >> /\ Head(buffer) \notin Unserialisable
MoreToFlushButOne ==              \* mutant: off by one
  connected /\ ~shutdown /\ Len(buffer) > 1 /\ Head(buffer) \notin Unserialisable

\* The head of processPendingMetrics' loop; sendMetricsInternal throws before
\* it sends anything when the sample cannot be serialised, and the loop ends.
MoreToFlush ==
  /\ connected /\ ~shutdown
  /\ buffer # << >>
  /\ Head(buffer) \notin Unserialisable

Flush ==
  /\ pc = "flush"
  /\ pc' = IF MoreToFlush THEN "flushing" ELSE "deliver"
  /\ UNCHANGED <<processVars, loopVars, sampleVars, serverVars, worldVars>>

FlushSucceeds ==
  /\ Goto("flushing", "flush")
  /\ acked
  /\ acked' = FALSE
  /\ buffer' = Tail(buffer)
  /\ UNCHANGED <<seq, current, history, late>>
  /\ UNCHANGED <<processVars, loopVars, worldVars>>

FlushFails ==
  /\ Goto("flushing", "deliver")
  /\ CanFail \/ ~credentials
  /\ Abandon
  /\ connected' = FALSE
  /\ UNCHANGED <<authenticated, credentials, retryAttempts>>
  /\ UNCHANGED <<loopVars, sampleVars, worldVars>>

DropCurrent(next) ==              \* mutant: a sample that was not sent is not buffered
  /\ pc' = next
  /\ current' = NoSample
  /\ sent' = FALSE
  /\ UNCHANGED <<seq, buffer, ready, due, config, worldVars>>

\* sendMetrics buffers the sample it could not send.
KeepCurrent(next) ==
  /\ pc' = next
  /\ buffer' = Buffered(current)
  /\ current' = NoSample
  /\ sent' = FALSE
  /\ UNCHANGED <<seq, ready, due, config, worldVars>>

\* After the flush: without a connection the sample is buffered and that is
\* all; a sample that cannot be serialised is buffered with connected_ as it
\* was; any other is sent, whether or not the flush emptied the buffer.
Deliver ==
  /\ pc = "deliver"
  /\ UNCHANGED <<processVars, serverVars>>
  /\ \/ ~connected /\ KeepCurrent("sent")
     \/ connected /\ current \in Unserialisable /\ KeepCurrent("backoff")
     \/ /\ connected /\ current \notin Unserialisable
        /\ pc' = "posting"
        /\ UNCHANGED <<sampleVars, loopVars, worldVars>>

PostSucceeds ==
  /\ Goto("posting", "sent")
  /\ acked
  /\ acked' = FALSE
  /\ current' = NoSample
  /\ sent' = TRUE
  /\ retryAttempts' = 0
  /\ UNCHANGED <<connected, authenticated, credentials, seq, buffer>>
  /\ UNCHANGED <<ready, due, config, history, late, worldVars>>

PostFails ==
  /\ pc = "posting"
  /\ CanFail \/ ~credentials
  /\ Abandon
  /\ connected' = FALSE
  /\ KeepCurrent("backoff")
  /\ UNCHANGED <<authenticated, credentials, retryAttempts>>
-----------------------------------------------------------------------------
(* attemptReconnectWithBackoff *)

Backoff ==
  /\ pc = "backoff"
  /\ pc' = IF retryAttempts >= MaxRetryAttempts \/ shutdown THEN "sent" ELSE "sleep"
  /\ UNCHANGED <<processVars, loopVars, sampleVars, serverVars, worldVars>>

\* The sleep is cut short by a shutdown, or ends.
Sleep ==
  /\ pc = "sleep"
  /\ \/ /\ shutdown
        /\ pc' = "sent"
        /\ UNCHANGED retryAttempts
     \/ /\ shutdown
        /\ pc' = "sent"
        /\ retryAttempts' = retryAttempts + 1
     \/ /\ ~shutdown /\ connected
        /\ pc' = "sent"
        /\ retryAttempts' = 0
     \/ /\ ~shutdown /\ ~connected
        /\ pc' = "reping"
        /\ retryAttempts' = retryAttempts + 1
  /\ UNCHANGED <<connected, authenticated, credentials>>
  /\ UNCHANGED <<loopVars, sampleVars, serverVars, worldVars>>

Reping ==
  /\ pc = "reping"
  /\ \/ /\ connected' = TRUE
        /\ \/ credentials /\ pc' = "reauth" /\ UNCHANGED retryAttempts
           \/ ~credentials /\ pc' = "sent" /\ retryAttempts' = 0
     \/ /\ CanFail
        /\ connected' = FALSE
        /\ pc' = "sent"
        /\ UNCHANGED retryAttempts
  /\ UNCHANGED <<authenticated, credentials>>
  /\ UNCHANGED <<loopVars, sampleVars, serverVars, worldVars>>

Reauth ==
  /\ Goto("reauth", "sent")
  /\ \/ authenticated' = TRUE /\ retryAttempts' = 0
     \/ CanFail /\ authenticated' = FALSE /\ UNCHANGED retryAttempts
  /\ UNCHANGED <<connected, credentials>>
  /\ UNCHANGED <<loopVars, sampleVars, serverVars, worldVars>>
-----------------------------------------------------------------------------
(* The rest of the loop of runAgent *)

\* The time of the fetch counts from the attempt, whether or not it succeeds.
Sent ==
  \/ pc = "sent" /\ ShutdownRequested /\ Ends("exit0")
  \/ /\ pc = "sent" /\ ~ShutdownRequested
     /\ IF ready /\ authenticated /\ due
        THEN /\ due' = FALSE
             /\ IF connected /\ credentials THEN pc' = "fetch" ELSE pc' = "wait"
        ELSE pc' = "wait" /\ UNCHANGED due
     /\ UNCHANGED <<ready, sent, config>>
     /\ UNCHANGED <<processVars, sampleVars, serverVars, worldVars>>

\* GET /api/agent/config: new settings; an HTTP error; or a transport error,
\* after which there is no connection.
Fetch ==
  /\ Goto("fetch", "wait")
  /\ \/ config' = serverConfig /\ UNCHANGED connected
     \/ CanFail /\ UNCHANGED <<config, connected>>
     \/ CanFail /\ connected' = FALSE /\ UNCHANGED config
  /\ UNCHANGED <<authenticated, credentials, retryAttempts, ready, sent, due>>
  /\ UNCHANGED <<sampleVars, serverVars, worldVars>>

\* An answer with a number std::stoul cannot hold: its exception ends the program.
FetchThrows == pc = "fetch" /\ ~healthy /\ Ends("exit1")

OnceAlwaysSucceeds == "exit0"     \* mutant: the result of sendMetrics ignored
OnceStatus == IF sent THEN "exit0" ELSE "exit1"

\* With --once the process ends here, with a status that says whether the sample
\* was sent; otherwise the loop goes round after the collection interval.
WaitForNextCollection ==
  \/ /\ Goto("wait", "loop")
     /\ ~opts.once /\ ~ShutdownRequested
     /\ ready' = FALSE
     /\ sent' = FALSE
     /\ UNCHANGED <<due, config>>
     /\ UNCHANGED <<processVars, sampleVars, serverVars, worldVars>>
  \/ pc = "wait" /\ opts.once /\ Ends(OnceStatus)
  \/ pc = "wait" /\ ShutdownRequested /\ Ends("exit0")

SyncOnlyOnce == FALSE             \* mutant: settings are fetched at the start only

\* The five seconds between two fetches of the settings pass; runAgent takes the
\* time once per iteration.
SyncDue ==
  /\ pc = "wait" /\ ~due
  /\ due' = TRUE
  /\ UNCHANGED <<pc, ready, sent, config>>
  /\ UNCHANGED <<processVars, sampleVars, serverVars, worldVars>>
-----------------------------------------------------------------------------
(* Everything around the process *)

\* SIGTERM or SIGINT; the handler is installed in daemon mode only.
RequestShutdown ==
  /\ opts.daemon /\ ~shutdown
  /\ pc \notin Ended
  /\ shutdown' = TRUE
  /\ UNCHANGED <<opts, serverConfig, healthy>>
  /\ UNCHANGED <<pc, processVars, loopVars, sampleVars, serverVars>>

\* A signal that is not handled, or a crash.
Terminate ==
  /\ pc \notin Ended
  /\ Ends("killed")

\* The service manager starts the process again (Restart=always).
Restart ==
  /\ pc \in Ended /\ ~opts.once
  /\ pc' = "loop"
  /\ shutdown' = FALSE
  /\ connected' = FALSE
  /\ authenticated' = FALSE
  /\ credentials' = FALSE
  /\ retryAttempts' = 0
  /\ buffer' = << >>
  /\ current' = NoSample
  /\ ready' = FALSE
  /\ sent' = FALSE
  /\ due' = TRUE
  /\ config' = FileConfig
  /\ UNCHANGED <<opts, serverConfig, healthy, seq, serverVars>>

\* The server stores the sample of the POST in progress, if the request carries
\* a key.
StoreInFlight ==
  /\ InFlight # {} /\ credentials /\ ~acked
  /\ history' = history \cup InFlight
  /\ acked' = TRUE
  /\ UNCHANGED <<pc, late, processVars, loopVars, sampleVars, worldVars>>

StoreLate ==
  \E s \in late :
    /\ history' = history \cup {s}
    /\ late' = late \ {s}
    /\ UNCHANGED <<pc, acked, processVars, loopVars, sampleVars, worldVars>>

UpdateSettings ==
  /\ serverConfig' \in Configs \ {serverConfig}
  /\ UNCHANGED <<opts, shutdown, healthy>>
  /\ UNCHANGED <<pc, processVars, loopVars, sampleVars, serverVars>>

\* Outages end: from some point on every request is answered in time.
Heal ==
  /\ ~healthy
  /\ healthy' = TRUE
  /\ UNCHANGED <<opts, shutdown, serverConfig>>
  /\ UNCHANGED <<pc, processVars, loopVars, sampleVars, serverVars>>
-----------------------------------------------------------------------------
AgentStep ==
  \/ LoopTop \/ EnsureConnected \/ Ping \/ Auth \/ Collect
  \/ SendMetrics \/ Flush \/ FlushSucceeds \/ FlushFails
  \/ Deliver \/ PostSucceeds \/ PostFails
  \/ Backoff \/ Sleep \/ Reping \/ Reauth
  \/ Sent \/ Fetch \/ FetchThrows \/ WaitForNextCollection

WorldStep ==
  \/ SyncDue \/ RequestShutdown \/ Terminate \/ Restart
  \/ StoreInFlight \/ StoreLate \/ UpdateSettings \/ Heal

Next == AgentStep \/ WorldStep

Spec == Init /\ [][Next]_vars

\* Every wait of the process is bounded (request timeouts, the progress
\* callback, sleeps with a deadline), a healthy server answers the request in
\* progress, and time passes.
Fairness ==
  /\ WF_vars(AgentStep)
  /\ WF_vars(StoreInFlight)
  /\ SF_vars(SyncDue)

FairSpec == Spec /\ Fairness
-----------------------------------------------------------------------------
TypeOK ==
  /\ pc \in PC
  /\ opts \in Options
  /\ shutdown \in BOOLEAN
  /\ connected \in BOOLEAN
  /\ authenticated \in BOOLEAN
  /\ credentials \in BOOLEAN
  /\ retryAttempts \in Attempts
  /\ buffer \in Seq(Sample) /\ Len(buffer) =< MaxBuffer
  /\ current \in Sample \cup {NoSample}
  /\ ready \in BOOLEAN /\ sent \in BOOLEAN /\ due \in BOOLEAN
  /\ config \in Configs /\ serverConfig \in Configs
  /\ acked \in BOOLEAN
  /\ history \subseteq Sample /\ late \subseteq Sample
  /\ healthy \in BOOLEAN
  /\ seq \in SampleCount

\* The samples collected so far, by this process and those before it.
Collected == 1 .. seq

\* The samples the process holds, oldest first: those buffered and the one in hand.
Held == IF current = NoSample THEN buffer ELSE Append(buffer, current)

\* A POST goes out with the API key the configuration holds: ensureConnected
\* authenticates, and so stores the credentials, before any sample is sent,
\* also after connections lost, retries given up and restarts.
PostsCarryCredentials ==
  InFlight # {} => (credentials <=> opts.token)

\* --once reports success only if the sample is in the control plane's history.
OnceReportsTheTruth ==
  opts.once /\ pc = "exit0" => seq \in history

\* (A sample past the bound MaxSample is represented by MaxSample.)
InOrder(q) ==
  \A i, j \in 1 .. Len(q) :
    i < j => q[i] < q[j] \/ (q[i] = MaxSample /\ q[j] = MaxSample)

\* The buffer holds samples in the order they were collected, all older than
\* the sample in hand, whatever failed, was retried or was evicted in between
\* (processPendingMetrics, bufferMetrics).
BufferInOrder == InOrder(Held)
-----------------------------------------------------------------------------
Running == ~shutdown /\ pc \notin Ended

\* The agent keeps the promise of Outbox: no sample disappears except by being
\* stored, by a full buffer, or with the process; and a newer sample passes an
\* older one only if that one cannot be serialised, or at shutdown
\* (sendMetrics, processPendingMetrics, bufferMetrics).
Promise ==
  INSTANCE Outbox WITH
    Sample <- Sample, Unsendable <- Unserialisable, Capacity <- MaxBuffer,
    produced <- Collected, queue <- Held, stored <- history, running <- Running
PromiseKept == Promise!Spec
-----------------------------------------------------------------------------
Stopping == shutdown \/ pc \in Ended

\* A process told to stop does stop, wherever it is.
ShutdownTakesEffect == shutdown ~> pc \in Ended

\* Once the server is well the buffer is sent, or what blocks it is a sample
\* that cannot be serialised at its head: giving up the backoff after
\* max_retry_attempts_ does not stop the loop from reconnecting.
BufferDrains ==
  <>healthy =>
    []<>(\/ buffer = << >>
         \/ Head(buffer) \in Unserialisable
         \/ Stopping)

\* Once the server is well new samples go through, even past a buffer blocked
\* by a sample that cannot be serialised.
FreshSamplesFlow == <>healthy => []<>(sent \/ Stopping)

\* Settings saved in the control plane reach the agent.
SettingsArrive ==
  \A c \in Configs :
    <>[](healthy /\ serverConfig = c) => []<>(config = c \/ Stopping)
=============================================================================
