# btop++ fleet: a verification project in TLA+

The repository is a fork of btop with a monitoring fleet around it: a C++ agent
(`agent/`) that collects samples on a host and posts them to a control plane
(`control-plane/`: a FastAPI backend over SQLite, a React web interface, an nginx
container), with installers and a release pipeline beside them.  This directory
holds TLA+ models of its own logic, the TLC configurations that check them on small
instances, and TLAPS proofs about them for every value of their constants.

`PROJECT.json` lists the components, the runs, the mutants each property is known
to catch, the source lines behind every definition, the hazards and the theorems.

    tlc -workers 2 -config Container.cfg Container.tla
    tlapm AgentProofs.tla

## 1. Inventory

Paths are relative to the root of the repository; `D/` stands for
`agent/src/distributed/`, `B/` for `control-plane/backend/app/`.

### Agent: the collection loop (`D/client/main.cpp`, `D/client/daemon_manager.cpp`)

*State*: the options, the configuration in force, the time of the last fetch of the
settings, the process-wide flag `g_shutdown_requested`.
*Operations*: `runAgent` loops over: test the flag; `ensureConnected`; collect a
sample; `sendMetrics`; test the flag; fetch the settings if five seconds have passed;
with `--once`, end with a status; wait for the interval in slices of at most 250 ms.
*Interactions*: drives the network client; a signal handler (daemon mode only) sets
the flag between any two instructions; a service manager restarts the process.
*Hard*: the flag is tested in some places and not in others, and within libcurl only
by the progress callback; what survives a failed iteration (connection,
authentication, attempts, buffer, settings) is spread over two objects.
*Correct when*: a shutdown takes effect wherever it arrives and costs a bounded number of
further requests; `--once` reports the truth; settings saved in the control plane
arrive.

### Agent: the network client (`D/client/network_client.cpp`)

*State*: `connected_`, `authenticated_`, `current_credentials_`, `retry_attempts_`,
`metrics_buffer_` (at most 1000 samples).
*Operations*: `connect` (ping), `authenticateWithCredentials`, `sendMetrics` (flush the
buffer, send the current sample, buffer it and back off on failure),
`fetchAgentConfig`.
*Hard*: a timeout leaves it unknown whether the server stored the sample, and the server may
store it later still; three failure paths leave the sample in three places; the backoff
counts attempts and stops at a limit, the loop above it does not; a sample whose
serialisation throws fails without an HTTP request.
*Correct when*: no sample collected is lost except as the oldest of a full buffer or with
the process; the buffer stays in order and within its limit; it drains once the
server is well; each POST carries the API key.

### Backend: ingest, agents, API keys (`B/routers/{metrics,compat,agents,api_keys}.py`, `B/deps.py`, `B/models.py`)

*State*: the tables ApiKey, Agent, MetricSample in SQLite; a session per request.
*Operations*: POST metrics (authenticate the key and touch it; find, claim or create the
agent; look the sample up; store it and make it the latest), delete an agent with its
history, save its settings, create, revoke and delete keys.
*Hard*: requests run in a thread pool and overlap.  Each reads first, takes the database's
write lock with its first write, and commits; what it read may be stale when it
writes.  The agent's retry of a POST may overlap the POST.
*Correct when*: a sample posted twice is stored once; the latest metrics are in the history;
a revoked key stays revoked; saved settings are not put back; rows refer to rows that
exist.

### Backend: users, dashboards, bootstrap (`B/routers/{users,auth,dashboards}.py`, `B/bootstrap.py`)

*State*: the tables User, Dashboard; signed tokens.
*Hard*: the default dashboard is created by the first read, and two first reads overlap; the
administrator and the administrator's dashboard are committed one after the other.
*Correct when*: a user has one default dashboard; an administrator can always be
logged in as after start-up.

### Backend: migration (`B/db.py`)

*State*: the schema on disk.  *Hard*: a crash between the statements that rebuild the table
`agent`, and the restart that follows.  *Correct when*: a start after a crash at any
point brings the database to the same schema with the same rows.

### Web interface (`control-plane/frontend/src/App.tsx`, `lib/api.ts`)

*State*: the token, the user, the agents, the selection, histories, keys, and requests whose
answers have not arrived.  *Hard*: answers arrive in any order, after a logout, a login as
somebody else, another selection, a deletion.  *Correct when*: the answers of refreshes
are taken in the order in which they were read; the history is that of the selection; in
the end the tab shows what the database holds for the session, whatever deletions put back
before.

### Agent: daemon start-up and log (`D/client/main.cpp`, `D/client/daemon_manager.cpp`, `D/client/daemon_logger.cpp`)

*State*: the command line, the process's signal handlers, the mutex of the logger, the log
file, the PID file that all daemons share.  *Operations*: parse the arguments, load and
validate the configuration, daemonize (two forks), redirect the output, open the log,
write and remove the PID file.  *Hard*: `initialize` calls `log` with the mutex held; the
PID file is overwritten and removed by whoever comes by.  *Correct when*: a process that is
started runs or ends; the PID file names no process that has ended by itself, unless it
could not be removed.

### Agent: configuration (`D/client/distributed_config.cpp`, `D/common/config_parser.cpp`)

*State*: the file, which the program, `install.sh` and people write.  *Hard*: two formats,
told apart by the first and the last character, with different ways to fail; numbers narrowed
to 16 and 32 bits; a file read while it is being written is no error; what `json.dumps`
escapes the parser does not undo.  *Correct when*: an agent runs with what was written, or
with nothing of it, texts with characters that are escaped and files cut behind a brace
aside (section 3).

### Agent: metrics data and collector (`D/common/metrics_data.cpp`, `D/client/metrics_collector.cpp`)

*State*: none across calls.  *Hard*: readings are signed, samples are not; the rules for a
sample are written down twice, in `validate`, which ends the process, and in
`getValidationErrors`, which says why.  *Correct when*: the two agree, and only a
reading can be refused, never something the collector has computed.

`D/common/auth_interface.cpp` holds providers the agent never installs.

### Supervision and installation (`control-plane/deploy/start.sh`, `install.sh`, `install.ps1`, `.github/workflows/release.yml`)

*State*: processes, files, service units.  *Hard*: either child of `start.sh` may end at any
time relative to its poll, its trap and a signal; what a shell function assigns is lost
when it runs in a command substitution.  *Correct when*: the container ends as a whole
and cuts nothing short; a genuine archive can be installed.

## 2. Plan

Modules, the most important behaviour first.  Those marked * exist.

| # | module | what | composes / refines |
|---|--------|------|--------------------|
| 1 | `Agent`* | loop and network client, with the server as the agent sees it | implements `Outbox`* |
| 2 | `AgentInvariant`*, `AgentShutdown`*, `AgentProofs`*, `AgentRefinement`* | the inductive invariant, the count of requests after a shutdown, lemmas and theorems | over `Agent` |
| 3 | `ControlPlane`* | the backend's requests as transactions | |
| 4 | `Pipeline`* | agent and backend together | extends `ControlPlane`, implements `Outbox` |
| 5 | `Session`* | the web interface's requests and answers | |
| 6 | `Startup`*, `Container`* | migration and bootstrap with crashes at any statement; the container around it | `Container` extends `Startup` |
| 7 | `ConfigParser`*, `MetricsData`*, `Daemon`* | configuration and sample as pure functions; processes that use them | `Daemon` extends both |
| 8 | `Installer`* | the way of an archive through the shell | |
| 9 | `Downsample`* | down-sampling of a trend, with its theorem | |
| 10 | `ControlPlaneProofs`*, `PipelineProofs`* | duplicates, latest metrics, revocation, settings; the agent as one client of the backend; the refinement | over `ControlPlane`, `Pipeline` |
| 11 | `ContainerProofs`* | migration and bootstrap under crashes, and the script around them | over `Startup`, `Container` |
| 12 | `SessionProofs`* | what an answer that comes late can do | over `Session` |
| 13 | `DaemonProofs`* | what a process has from what it has read, the PID file, the two judges | over `Daemon`, `ConfigParser`, `MetricsData` |

Every invariant and every action property a passing run checks has its theorem; what remains
to TLC is liveness (section 5).

## 3. What is modelled

### Agent and Outbox

`Agent` follows the program's single thread.  `pc` names the next point at which the
outside can make a difference: a read of the shutdown flag, or an HTTP request.  Between
two of its steps `RequestShutdown` (a signal), `Terminate` (a kill, a crash),
`StoreInFlight`, `StoreLate`, `UpdateSettings` (the server), `SyncDue` (time) may happen.

| code | state and actions |
|------|-------------------|
| `runAgent` | `LoopTop`, `Collect`, `Sent`, `OnceStatus`, `WaitForNextCollection`; locals `ready`, `sent`, `due`, `config` |
| `ensureConnected`, `connect`, `authenticateWithCredentials` | `EnsureConnected`, `Ping`, `Authenticate`, `SkipAuthentication`, `NotReady`, `Auth` |
| `sendMetrics`, `sendMetricsInternal` | `SendMetrics`, `Deliver`, `PostSucceeds`, `PostFails`, `KeepCurrent`; `current` is the argument |
| `processPendingMetrics` | `MoreToFlush`, `Flush`, `FlushSucceeds`, `FlushFails` |
| `bufferMetrics` | `Buffered` |
| `attemptReconnectWithBackoff`, `attemptReconnect` | `Backoff`, `Sleep`, `Reping`, `Reauth` |
| `fetchAgentConfig` | `Fetch`, `FetchThrows` |
| signal handler, service unit | `RequestShutdown`, `Restart` |

A POST takes three steps: the agent starts it (`pc` is `flushing` or `posting`), the
server may store its sample (`acked`), the agent gets the answer or gives up.  A POST given up
may be stored later (`late`).  A request without a key is never stored.  A sample in
`Unserialisable` is one whose `toJson` throws: the attempt fails with `connected_`
untouched.

`Outbox` is what the agent promises: a bounded first-in first-out queue with at-least-once
delivery.  The refinement maps the queue to `Held` (the buffer, then the sample in
hand), the store to the server's `history`, and `running` to "not told to stop, and
alive".  Collecting produces, a successful flush confirms the oldest, a successful
POST confirms the newest (only with an empty buffer, an unserialisable head, or when
stopping), a full buffer evicts the oldest, a death loses the queue.

Simplifications: `StoreInFlight` does not model a server that answers with an error after
storing; that is the agent giving up after the store, which is there.  Samples past
`MaxSample` are represented by `MaxSample`, which keeps the loop going forever in a finite model.

### ControlPlane

Workers are the threads of the pool; `req[w]` holds where its request is and what it has
read.  A read outside a transaction sees committed rows.  The first write of a session takes
`lock`, held to the COMMIT; SQLAlchemy flushes pending rows before a query, so in
`ingest_metrics` the look-up of the sample is already under the lock (`FlushAgent`,
`LookUpSample`, `InsertAgent`/`UpdateAgent`), in `delete_agent` and `delete_api_key` the
reads are not (`ListSamples`/`Erase`, `LinkedAgents`/`Unlink`).  Sessions write only the columns
they changed (`Merged`).  For the latest metrics that tears the pair: the payload is not
written if it equals the one that was read, its date always is (`latest`, `latestAt`), so that a
stale retry that commits behind a newer post leaves the newer payload under its own
older date.  The settings of an agent are one value here; two overlapping saves of different
settings, which the columns would merge, come out as one or the other.  `Fail` ends a request with nothing written: lock timeout, integrity
error, row gone, crash.  `LegacyAgents` are rows of a database older than ownership.

### Startup

`pc` is the statement the start of the backend has come to.  The sqlite3 driver begins a
transaction before an INSERT, UPDATE or DELETE and never before CREATE, ALTER or DROP;
`disk` is what is committed, `tx` what the open transaction has made of it (or `None`), `View` what
the connection sees.  `Ddl` therefore changes the disk when no transaction is open and
the transaction otherwise, and `Dml` opens one.  So the rebuild of the table `agent`
(`CreateNew`, `CopyRows`, `DropOld`, `RenameNew`, `IndexNew`, `CommitUpgrade`) is atomic from
`CopyRows` on, and `CreateNew` stands outside.

| code | actions |
|------|---------|
| `create_all` | `CreateUsers`, `IndexUsers`, `CreateKeys`, `IndexKeys`, `CreateTables` |
| `create_db_and_tables`, `ensure_agent_multi_tenant_uniqueness` | `AddColumn`, `ColumnsDone`, `CheckUniqueness`, the rebuild, `Fails` |
| `ensure_bootstrap_admin` | `LookUpAdmin`, `CreateAdmin`, `CreateFleetDashboard` |
| `create_user` | `CreateUser`, `InsertUser` |
| `get_or_create_default_dashboard`, `update_default_dashboard` | `OpenDashboard`, `InsertDashboard`, `RefreshDashboard`, `SaveLayout` |
| a kill, a power failure; the restart policy | `Crash`, `Restart` |

The start begins on a new database or on one of an older version (`LegacyDisks`): with or without
the columns that came later, with hosts unique or not, and with a user who need not be the
administrator.  Where nothing has kept them apart two agents of one owner may have one name
(`Twins`): `IndexNew` then raises, the transaction is rolled back, and `agent_new`, created
outside of it, stays.  A table with a unique index of its own (`user`, `apikey`) takes two
statements, each on the disk at once; a crash between them leaves the table `bare` for good,
since `create_all` skips tables that exist.  The tables besides `user`, `apikey` and `agent`
are created together with `agent`, and user and dashboard ids count up.

### Pipeline

`Pipeline` extends `ControlPlane` with an agent that is reduced to what the backend can
tell: it collects, posts the oldest sample it holds, and keeps the sample until an answer confirms it;
it may give up at any time (`GiveUp`), be told to stop, die and come back.  `flight`
ties the request it waits for to the worker that has it; a worker whose agent has given up goes on,
so that a retry may overlap, overtake or follow its original.  `Work` is one step of
`ControlPlane`'s requests and the answer of the last of them (`Returns`, `Reply`), `WorkFails` a
request that raises.  `ever`, `erased` and `confirmed` are history.  The pair
implements `Outbox` with `stored` mapped to what transactions have ever committed.

### Session

A browser tab through logins and logouts.  `hydrates`, `views` and `deletes` are the requests in
flight, each with what the code has captured for it: whether it is the newest hydrate
(`requestId === hydrateRequestIdRef.current`), whether its effect was cleaned up (`cancelled`),
the list at the moment of the click (`onDeleteSelectedAgent`).  Requests are served and
answered in separate steps, in any order.  `RunEffects` is React running the effects whose
dependencies have changed, some time after the change; `ran` is what they last ran with.
A tab that opens may find a stored token.  Of the five requests of a hydrate only the list of
agents is followed; the effect for the details of an agent is like that for its
history.  A change of the language re-runs `hydrate` as a tick of the timer does.  Auto-refresh is
taken to be on, as it is when a tab opens.  Only refreshes are held to an order
(`RefreshesTakenInOrder`, about the version `applied`): a deletion sets the list too, to
that of its click without the deleted agent, which may be older than the list shown, and a
refresh read before the deletion may put the agent back.  Both are in the runs, and
`ComesIntoSync` says that neither lasts.

### Container

`start.sh` command by command, as process 1: a trap runs between two commands or when
a signal ends a `wait`; a child that has ended answers `kill -0` until the shell has waited
(`unreaped`); before the trap is set SIGTERM is lost.  uvicorn is `Startup`'s start and
requests; requests come through nginx.  `DockerStop`, `DockerKill` and `DockerStart` are docker's.
The exit status is left out: `restart: unless-stopped` does not look at it.
`RequestsFinish` is about uvicorn's side, which works a request to its end; nginx, which
gets SIGTERM too, shuts down fast and cuts its client's connection, so that the client may
not see the answer.

### ConfigParser, MetricsData, Daemon

`ConfigParser` has the two formats as lists of entries whose values keep their quotes and
the number `std::stoul` finds: reading (`ParseClientConfig`, where the first entry of a key wins in
JSON and the last in lines), narrowing (`Limit`), what throws, validation, and the two writers
(`GenerateJson`, `install.sh`'s `InstallerFile`).  A text is a sequence of pieces, of which
those with a meaning have names: the quote, the backslash, the brace, and `Foreign` for the
characters `json.dumps` writes as `\uXXXX`.  `Escaped` replaces the first two and the last,
and the parser undoes none of it.  A file cut short has no closing brace (`Cut`), unless
the cut is right behind a brace in one of its texts: `isJsonFormat` tests the last character
only and takes that beginning for whole (`CutBehindBrace`).

`MetricsData` has what `collect` makes of readings (`Collected`), with the clock speed of the
CPU as `parseFrequencyMHz` finds it in a text, and the two judges, rule by rule;
`Implausible` has the rules a reading breaks before anything is made of it.  `Daemon` has processes that
use both: `Start` with any of their command lines, `Load`, `MaybeDaemonize`, `Daemonize`,
`RedirectOutput`, `InitializeLog`, `WriteLog` (which waits for the mutex its caller holds),
`CreatePidFile`, then `Collect`, `FetchSettings` (which may turn the GPU off), `Refuse`, `Leave`,
`Signal`, `Kill`.  Where an end removes the PID file the unlink may fail: that is said on the
standard error, and the file stays (`leftPid`).  `InitializeLog` may also throw, from
`exists`, which ends the process.  `BeginRewrite` and `FinishRewrite` are a writer of the
configuration file, seen half way (`Halves`).
Locking a `std::mutex` twice in a thread is undefined; the mutexes of glibc, musl and
libc++ wait for ever, and so does the model.

### Installer and Downsample

`Installer` is the beginning `install_action` and `update_action` share: the metadata of the
release, the archive under its new or its older name or a local file, and the verification.
`InChild` is a command substitution: what the function assigned is gone.  What follows the
verification is never reached and not modelled.

`Downsample` defines `downsample_points` for any outcome of a floating-point product that is
rounded at a tie, and proves what comes out of it.

## 4. What the runs show

| run | instance | shows |
|-----|----------|-------|
| `agent_safety` | every way of starting, 4 samples, buffer of 2, 2 attempts, the first sample unserialisable | `TypeOK`; `PostsCarryCredentials`; `OnceReportsTheTruth`; `BufferInOrder`; the inductive invariant `ShutdownInv` (`IInv` and the count of requests); `AtMostOneRequestAfterShutdown`; `PromiseKept`, the refinement of `Outbox` |
| `agent_liveness` | a service, or one run of `--once`, with a key, 2 samples, buffer of 2, 1 attempt, 2 settings | `ShutdownTakesEffect`, `BufferDrains`, `FreshSamplesFlow`, `SettingsArrive` |
| `agent_start` | 2 processes, one with every command line and 3 measurements, one a daemon that comes and goes and measures nothing; a configuration in 3 formats, with a text that is escaped and one with a brace; 3 files edited by hand, halves of all that is written | the inductive invariant `DaemonInv`, with the widths of numbers in it; `PidFileOfTheLiving`, `RunsAsWritten`, `NeverHalfConfigured`, `RefusalsAreExplained`, `OnlyReadingsAreRefused`, `StartsUnlessItLogs` |
| `daemon_log` | daemons only | violation: see the findings |
| `backend_tenants` | 2 users with a key each, a legacy host, 2 overlapping requests, 2 samples, 2 agent ids | the inductive invariant `IInv`, with types and duplicates in it; `LatestIsInHistory`, `RevocationIsFinal` |
| `pipeline` | an agent with a queue of 1, 2 samples, 2 workers, its user's settings and deletions, 2 agent ids | the inductive invariant `PipelineInv`; `StoredOnce`, `ConfirmedIsKept`, `SettingsChangeOnlyWhenSaved`, `QueueDrains`; `PipelinePromise`, the refinement of `Outbox` |
| `backend_references` | 2 overlapping requests, 1 key | violation: see the findings |
| `container` | 2 overlapping requests, 2 users, 2 missing columns, 2 old agents, which may have one owner and name, a crash of either child, stops and kills at any moment | the inductive invariant `ContainerInv`; `AgentsSurvive`, `ServesUpgradedTables`, `OnlyALeftoverStopsAStart`, `AdminExists`, `EndsAsAWhole`, `RequestsFinish` |
| `startup_again` | 1 crash, with fairness | violation: see the findings |
| `startup_unique` | 2 overlapping requests, 1 crash | violation: see the findings |
| `installer_genuine` | 3 names, 2 contents, every release and manifest of them | violation: see the findings |
| `session` | 2 users, 2 agents of one of them, 2 hydrates, 2 histories and a deletion in flight, 2 changes from outside, the first of the agents there at the start | the inductive invariant `SessionInv`; `RefreshesTakenInOrder`, `LoadingMeansWaiting`, `ViewsFollowSelection`, `ComesIntoSync` |

*Why these bounds.*  Agent: with a buffer of 2 and 4 samples the buffer fills, evicts, and
still has two samples to keep in order, with one that blocks it among them; 2 attempts show
a backoff that counts, gives up, and starts afresh; no behaviour depends on a larger
number, and the theorems below cover all of them.  Backend: a hazard between requests needs
two; a retry, its original and the user's deletion meet in `pipeline` although there are two workers,
since a worker is free again when its request has ended; two agent ids allow a
host to be deleted and to come back, or to be claimed and created at the same time (hosts
without an owner are in `backend_tenants` only); two
samples have an order and two keys two owners.  Start-up: one child of the script crashes, and
`DockerKill`, which is not bounded, interrupts any start, also the one that follows a crash; two
columns are added with an interruption between them; two old agents are a pair that cannot
be told apart.  In `startup_unique` a third user is the one two requests compete for.
Agent start: two daemons are enough to overwrite and remove each other's PID file; the
widths are scaled to 2^16, 2^20 and 2^24, whose ratios are what narrowing depends on.
Session: two hydrates overtake each other, across a logout too; a selection, the one before it
and none are all there is to tell apart; of two changes the first is read by a refresh the
second makes stale, so that within one session a deletion puts back and hides; one user without agents makes every foreign row in
the other's list visible.

*Fairness* (liveness only).  `WF(AgentStep)`: every wait of the process has a bound (libcurl
gives up after 10 s of connecting and after 30 s in total, the progress callback, sleeps with
a deadline), so its next step
comes.  `WF(StoreInFlight)`: a healthy server handles the request it has been sent.
`SF(SyncDue)`: time passes, so that of infinitely many iterations some come
five seconds after the last fetch.  Nothing makes the server well: `Heal` has no fairness,
and the properties assume `<>healthy`.  Signals, kills, restarts and edits have none.

In `Startup.FairSpec`, `WF(StartStep)`: a start waits for nobody; `WF(Restart)`:
"restart: unless-stopped" (`docker-compose.yml:26`).  Crashes have no fairness and are bounded by
`MaxCrashes`, so that they cannot be why the backend does not come to serve.

In `ContainerSpec`, the shell goes on (`sleep` ends, a `wait` ends with its child), a start and a
request come to an end, and a child that was sent SIGTERM and has nothing to do ends;
`DockerKill` has none, so that `EndsAsAWhole` is not docker's doing.  In `Pipeline`, workers
and the agent's loop go on (`FairPipeline`), and after `Heal`, which has no fairness, a request
that cannot go on fails and the agent gives up what is not answered.  In `Daemon`, a
process that does not wait goes on.  In `Session`, once the tab is `quiet`, effects run, requests are
answered and the timer ticks; that it ticks only after the last answer assumes
that answers come within the interval: with slower ones each refresh would
supersede the last, and none be shown.

*Deadlock* is checked where the system is meant to go on; the cfgs that turn it off say
why (a process started with `--once` stops; keys and agent ids are used up).

### Findings

- *Rows that refer to rows that are gone* (`backend_references`): a post that commits between
  the reads and the write of `delete_api_key` leaves an agent that names a deleted
  key; one that commits during `delete_agent` leaves a sample without an agent.
- *One crash stops every later start* (`startup_again`): `CREATE TABLE agent_new` is on the disk
  at once, and fails when it is found there.
- *One username, two users* (`startup_unique`): `models.py:17` `unique=True`, but a crash
  between `CREATE TABLE user` and its unique index leaves the table without it for good, and
  two overlapping `POST /users` then both find the name free and both insert it.
- *A daemon with a log file never runs* (`daemon_log`): `DaemonLogger::initialize` logs with
  its mutex held and `log` locks it again; `main.cpp:71` promises daemon mode, and
  `validateClientConfig` demands a log file for it.
- *Nothing can be installed* (`installer_genuine`): `download_asset` sets
  `DOWNLOADED_ASSET_NAME` in a command substitution, so that the verification looks up the
  empty name and refuses every archive.

Behaviour that contradicts nothing the repository states is in the models without a
run: of two overlapping posts the older may commit last and be shown as the latest
metrics; two overlapping first requests of a user create two default dashboards, and a layout
may be saved in the one that is never read; two users' agents on a host without an owner
both claim it, and the later commit has it; a 401 that answers a request of the last
session ends the new one; a configuration cut behind a brace in one of its texts is taken for
whole, and the agent runs with the entries before the cut and the defaults for the others;
a text `json.dumps` has escaped is not read back as it was; a sample that cannot be
serialised stays at the head of the buffer and fresh ones pass it.

## 5. What is proved

Everything below is proved for all values of the constants that satisfy the named
assumptions (`ConstantsAssumption`, `PipelineAssumption`, `SessionAssumption`,
`MetricsAssumption`, `WidthsAssumption`, `DaemonAssumption`): any size of the buffer, any number
of attempts, workers, keys, agents, samples, users, requests in flight, crashes, agent
processes, readings and configurations.  The assumptions give the constants their types and keep
`None` apart from the values it stands beside; none bounds anything.  `ConstantsAssumption` of
the start-up takes any of the old agents for `Twins`, none included.  Of the three about the
agent's start, `WidthsAssumption` says that each width is a multiple of the narrower
ones and that the default port fits, `MetricsAssumption` that a percentage fits a word, and
`DaemonAssumption` that the configurations to be written are values of `ClientConfig` whose
texts are sequences of any pieces, that a value in a file begins with at most one number, that
a cut leaves a number of entries, and that readings have the types of btop's, numbers of any
sign among them.  Where an
action property is concerned the theorem has the specification as its hypothesis and no
fairness is used.

| theorem | statement |
|---------|-----------|
| `AgentProofs!Invariance` | `Spec => []IInv` |
| `AgentProofs!TypeCorrectness`, `Credentials`, `OnceIsTruthful`, `Order` | `TypeOK`, `PostsCarryCredentials`, `OnceReportsTheTruth`, `BufferInOrder` |
| `AgentProofs!ShutdownInvariance`, `ShutdownBound` | `CountedSpec => []ShutdownInv`, `CountedSpec => []AtMostOneRequestAfterShutdown` |
| `AgentRefinement!Refinement` | `Spec => PromiseKept` |
| `ControlPlaneProofs!ControlPlaneInvariance` | `Spec => []IInv` |
| `ControlPlaneProofs!NoDuplicates`, `LatestStored`, `Revocation`, `SettingsStay` | `StoredOnce`, `LatestIsInHistory`, `RevocationIsFinal`, `SettingsChangeOnlyWhenSaved` |
| `PipelineProofs!PipelineInvariance` | `PipelineSpec => [](IInv /\ PipelineInv)` |
| `PipelineProofs!BackendRefined` | `PipelineSpec => Spec`: the pipeline implements `ControlPlane` |
| `PipelineProofs!PipelineTyped`, `RetriesStoreOnce`, `ConfirmedKept`, `PostsLeaveSettings` | `PipelineTypeOK`, `StoredOnce`, `ConfirmedIsKept`, `SettingsChangeOnlyWhenSaved` |
| `PipelineProofs!PipelineRefinement` | `PipelineSpec => PipelinePromise`: the pipeline implements `Outbox` |
| `ContainerProofs!StartupInvariance`, `ContainerInvariance` | `Spec => []StartupInv`, `ContainerSpec => []ContainerInv` |
| `ContainerProofs!ContainerTyped`, `UpgradedTablesServed`, `LeftoverStops`, `AdminServed` | `ContainerTypeOK`, `ServesUpgradedTables`, `OnlyALeftoverStopsAStart`, `AdminExists` |
| `ContainerProofs!AgentsKept`, `RequestsAnswered` | `AgentsSurvive`, `RequestsFinish` |
| `SessionProofs!SessionInvariance` | `Spec => []SessionInv` |
| `SessionProofs!SessionTyped`, `LoadingShown`, `HistoryFollows`, `RefreshesInOrder` | `TypeOK`, `LoadingMeansWaiting`, `ViewsFollowSelection`, `RefreshesTakenInOrder` |
| `DaemonProofs!DaemonInvariance` | `Spec => []DaemonInv` |
| `DaemonProofs!DaemonTyped`, `PidFileNamesTheLiving`, `NothingOfAHalf`, `RunsAsMeant` | `TypeOK`, `PidFileOfTheLiving`, `NeverHalfConfigured`, `RunsAsWritten` |
| `DaemonProofs!JudgesAlwaysAgree`, `ComputedIsValid` | `RefusalsAreExplained`, `OnlyReadingsAreRefused` |
| `Downsample!Downsampled` | of more points than the limit, exactly the limit is returned, in order, with both ends |

*Agent.*  None of the properties is inductive alone.  `IInv` adds what the code
relies on without testing it: the shape of a POST in progress (`RequestShape`); only
collected samples are held or stored (`OnlyCollected`); what the agent takes for delivered
is stored (`DeliveredIsStored`), from which the truth of `--once` follows; whoever is
connected has the credentials the configuration holds (`CredentialsKept`), although
`ensureConnected` skips authentication after a reconnect; and `FlushedOrBlocked`: a
connection that survived the flush means that the buffer is empty, blocked, or
abandoned for a shutdown.  That last part is what the refinement needs when a POST of the newest
sample succeeds, the one step at which the queue could be overtaken.  Each part has
a lemma with a step for each action.  `AgentRefinement` then maps each action to a step of
`Outbox` or a stutter.  The bound after a shutdown needs where the process can be once it has
started a request without a look at the flag (`CountFits`): authentication and the POST of the
current sample are the only such requests, and between the one and the other stands
`sendMetrics`, whose first line looks at the flag.

*Backend.*  A request's reads go stale; those under the write lock do not.  `IInv` says
which are which: a request is between its flush and its COMMIT exactly if it holds the lock
(`LockHeld`), so there is at most one such request; what it has found there, that the sample is
or is not in the history and that an id is free, stays true until it commits
(`FoundIsTrue`, `IdsGivenOut`); a request that goes on to write has a row exactly if it has found an
agent, and one that erases has listed the samples of that agent and no others
(`ReadsFit`).  `StoredOnce` follows since the sample looked up under the lock is the one added
under it.  `RevocationIsFinal` and `SettingsChangeOnlyWhenSaved` are properties of
steps: a commit changes of a row only the columns in `Merged`, so that a stale copy of the rest does
no harm.  Unlike the tests of the repository, which send one request after another, the proof
covers any number of threads.

*Pipeline.*  First each step of the pair is a step of `ControlPlane` or leaves its variables
alone (`BackendRefined`), which hands every theorem of the backend to the pipeline.
`PipelineInv` adds that the agent waits for the oldest sample it holds and is told
"ok" only after a commit (`FlightFits`), that workers have only what was collected
(`OnlyProducedIsPosted`), also those whose agent has given up or died, and that the books
balance (`BooksBalance`): whatever was ever stored is in the history or has been erased.
From these, each step is one of `Outbox`'s.

*Start-up and container.*  `StartupInv` states for each statement what it finds:
the tables and columns the start has come past, the transaction that has all rows of the table it
has dropped (`Progress`), and that a table `agent_new` on the disk stands beside an
`agent` that has yet to be rebuilt (`LeftoverFits`).  A crash forgets the transaction
and leaves the disk, and a start from any such disk establishes the same facts again, so that no
number of crashes matters.  `AgentsSurvive` follows since the disk has the rows up to the
COMMIT and the transaction has them when it comes.  Rows that cannot be told apart may be on
the disk only while `agent` is yet to be rebuilt, and stop the rebuild after `agent_new` has
been created: that is the other way to `OnlyALeftoverStopsAStart`.  User ids count up
without a gap (`UsersCount`), which is why a user that is looked up and not found can be
inserted.  `ServesUpgradedTables` says nothing of the indexes of `user` and `apikey`: those a
crash may have lost (finding `startup_unique`).  In the
container the start and the requests are steps of the same invariant; `ContainerInv` adds
that the script begins with nothing of an earlier round (`BeginsClean`) and that past its first
wait uvicorn has ended, unless a second signal cut the wait short (`WaitedFor`), from which
`RequestsFinish` follows.

*Session.*  `OneAnswer`: of the hydrates in flight at most one is current, and what it has read is
no older than what the answer taken last had read.  That is what the request counter achieves
without any answer being compared with another; it does not see the lists that deletions set.  `HistoryFits`: a history request that has not been cancelled
is for the selection the effects last ran with, not for the present one; the two agree
once the effects have run.

*Agent processes.*  `DaemonInv` says what a process has from what it has read: the defaults if its
file was cut off (`HalfIsNothing`), what was meant if it was whole (`WholeIsMeant`), and a sample
that `Collected` makes of some reading (`HasCollected`).  The first follows from the closing
brace `isJsonFormat` looks for.  A document cut behind a brace in a text passes that test; its
entries are then the beginning of what was to be written, so that each key has what was meant for it
or its default, the one it is cut in included, whose closing quote is missing.  The second goes
through each key: a writer puts down every key once (`EntryOf`), so that it is of no account
that JSON takes the first entry and lines the last, and a number that fits its field is not
changed by the narrowing.  `Carried` sets aside the texts with a quote, a backslash or a
character `json.dumps` escapes, for which neither holds, since the parser undoes no escape; that
all others come through unchanged is `PlainIsKept`.  Types follow for every file, whatever
numbers somebody has typed, since each is reduced to the width of its field.  Whoever the PID
file names was killed, still runs and will try to remove it, or has tried and said that it
could not (`PidFileFits`); that `~DaemonManager` removes the file of another daemon does no
harm to that, because it only ever removes.  The two judges are compared rule by rule on any
sample whose numbers have their types (`JudgesAgree`), and what clamping, casting, counting
and parsing give cannot break a rule the reading has not broken already
(`OnlyMeasuredErrors`): a frequency is never below zero, and the used memory of a GPU, clamped,
exceeds the total only if it did before.

*Downsampling.*  `Downsampled` holds for any limit above one and any longer list.  `Ends` and
`Increasing` are arithmetic: with more points than the limit the step exceeds one, so that two
multiples of it never have a nearest integer in common.

*Only model-checked*: all liveness (`ShutdownTakesEffect`, `BufferDrains`, `FreshSamplesFlow`,
`SettingsArrive`, `QueueDrains`, `EndsAsAWhole`, `ComesIntoSync`, `StartsUnlessItLogs`).
Fairness and ENABLED are beyond the prover.

## 6. Not modelled, and why

- What is measured and how it is displayed: the collectors, the terminal interface (an empty
  submodule here), styles and layout.  Of a sample, what no check looks at: the counters of the
  network, names, the clock speeds of the GPUs, the ranking of the processes.
- The rotation of the log: the first message of a daemon that has a log never returns, so that
  no log grows (finding `daemon_log`).
- What follows the verification of an archive in `install.sh`, with its rollback: never
  reached (finding `installer_genuine`).  `configure` and `uninstall`, for agents put
  in place by hand, are sequences without a rollback, of which only the file
  `write_config_file` writes is modelled; `install.ps1` is not.
- Where a configuration file is looked for, relative paths after `chdir`, and the server's
  configuration, which nothing reads.
- JSON text in both directions.
- In the web interface settings, keys, layouts and everything about presentation.
- Certificates, the setters and `disconnect` of the network client, and the authentication
  providers: nothing in the agent calls them.
- `update_user`, logins and tokens: single statements, or without state.
- The Windows branches: they have no signals and no daemon, and otherwise run the same
  loop.
- The release workflow: declarative, run by an external service.
