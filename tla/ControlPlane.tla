---------------------------- MODULE ControlPlane ----------------------------
(***************************************************************************)
(* The backend of the control plane as its database sees it: the requests  *)
(* that ingest metrics (routers/metrics.py, deps.py), manage agents        *)
(* (routers/agents.py) and manage API keys (routers/api_keys.py), each run *)
(* by a worker of the thread pool in a session of its own.                 *)
(*                                                                         *)
(* A SELECT outside a transaction reads what is committed; the first       *)
(* INSERT, UPDATE or DELETE of a session takes SQLite's write lock and     *)
(* keeps it until the COMMIT, which makes its changes visible.  Where      *)
(* nothing is read in between, flush and COMMIT are one step.  A session   *)
(* writes only the columns that differ from what it read.  An UPDATE of a  *)
(* row that is gone, or a duplicate of a unique key, raises, and the       *)
(* request ends with nothing written.                                      *)
(***************************************************************************)
EXTENDS Naturals, FiniteSets

CONSTANTS
  Workers,        \* the threads that run requests
  Users,
  Keys,           \* every API key that will ever be created
  KeyOwner,       \* ApiKey.owner_user_id
  Hosts,
  MaxSample,      \* bound on the samples, by the time they were collected
  MaxAgents,      \* bound on the agent rows ever created
  Settings,       \* desired collection interval and GPU switch, as a whole
  DefaultSettings,
  None,           \* SQL NULL
  LegacyAgents    \* rows of a database older than ownership, by agent id

Samples  == 1 .. MaxSample
AgentIds == 1 .. MaxAgents

\* latest_payload_json and latest_payload_at are columns of their own.
AgentRows ==
  [host : Hosts, owner : Users \cup {None}, lastKey : Keys \cup {None},
   settings : Settings, latest : Samples \cup {None}, latestAt : Samples \cup {None}]

\* Rows of MetricSample that agree in every column a query looks at differ in
\* `copy', which stands for their id.
SampleRows == [agent : AgentIds, sample : Samples, copy : {1, 2}]

ASSUME ConstantsAssumption ==
  /\ MaxSample \in Nat /\ MaxAgents \in Nat
  /\ KeyOwner \in [Keys -> Users]
  /\ DefaultSettings \in Settings
  /\ None \notin Workers /\ None \notin Users /\ None \notin Keys
  /\ None \notin Samples /\ None \notin AgentIds
  /\ None \notin AgentRows
  /\ \E n \in 0 .. MaxAgents :
       LegacyAgents \in [1 .. n -> { r \in AgentRows : r.owner = None
                                                   /\ r.lastKey = None
                                                   /\ r.latest = None
                                                   /\ r.latestAt = None }]

VARIABLES
  keys,       \* the state of each API key
  agents,     \* the row of each agent id, None if there is none
  created,    \* agent ids 1 .. created have been given out
  history,    \* the rows of MetricSample
  lock,       \* the worker whose transaction holds the write lock, or None
  req         \* what each worker is doing, with what it has read

tables == <<keys, agents, created, history>>
vars   == <<tables, lock, req>>

Idle == [at |-> "idle"]

Init ==
  /\ keys = [k \in Keys |-> "absent"]
  /\ created = Cardinality(DOMAIN LegacyAgents)
  /\ agents = [a \in AgentIds |-> IF a \in DOMAIN LegacyAgents THEN LegacyAgents[a]
                                                               ELSE None]
  /\ history = {}
  /\ lock = None
  /\ req = [w \in Workers |-> Idle]

Goto(w, r) == req' = [req EXCEPT ![w] = r]
Answer(w)  == Goto(w, Idle)

\* Agent.owner_user_id and Agent.hostname are unique together; rows without an
\* owner do not count.
Taken(owner, host, self) ==
  \E a \in AgentIds \ {self} :
    agents[a] # None /\ agents[a].owner = owner /\ agents[a].host = host

\* A transaction of one step: the lock is taken and given back within it.
Write == lock = None /\ UNCHANGED lock
-----------------------------------------------------------------------------
(* POST /api/metrics: get_ingest_api_key, then ingest_metrics *)

\* The key is looked up by its hash; a revoked or unknown one is refused.
PostMetrics(w, k, h, s) ==
  /\ req[w] = Idle
  /\ keys[k] = "active"
  /\ Goto(w, [at |-> "touch", key |-> k, host |-> h, sample |-> s])
  /\ UNCHANGED <<tables, lock>>

WriteBackKey(k) ==                \* mutant: the whole row is written, as it was read
  keys' = [keys EXCEPT ![k] = "active"]

\* The UPDATE of last_used_at, the only column that differs.
TouchRow(k) == UNCHANGED keys

\* (The refresh of the row that follows it may fail as any request may.)
TouchKey(w) ==
  /\ req[w].at = "touch"
  /\ keys[req[w].key] # "deleted"
  /\ Write
  /\ TouchRow(req[w].key)
  /\ Goto(w, [req[w] EXCEPT !.at = "find"])
  /\ UNCHANGED <<agents, created, history>>

\* The agents the SELECT of ingest_metrics may return.
Candidates(k, h) ==
  { a \in AgentIds : /\ agents[a] # None
                     /\ agents[a].host = h
                     /\ agents[a].owner \in {KeyOwner[k], None} }

FindAgent(w) ==
  /\ req[w].at = "find"
  /\ LET found == Candidates(req[w].key, req[w].host)
         read(a, row) == [at |-> "flush", key |-> req[w].key, host |-> req[w].host,
                          sample |-> req[w].sample, agent |-> a, row |-> row]
     IN  \/ found = {} /\ Goto(w, read(None, None))
         \/ \E a \in found : Goto(w, read(a, agents[a]))
  /\ UNCHANGED <<tables, lock>>

Stored(a, s) == { r \in history : r.agent = a /\ r.sample = s }

LockLater(w) == UNCHANGED lock    \* mutant: the flush is put off to the COMMIT

TakeLock(w) == lock = None /\ lock' = w

\* The SELECT for the sample flushes the agent row first, with its checks: a new
\* row must not duplicate a unique key, nor may a claim of a row without an
\* owner, and a row to be updated must be there.
FlushAgent(w) ==
  LET r == req[w]
      owner == KeyOwner[r.key]
  IN  /\ r.at = "flush"
      /\ IF r.agent = None
         THEN ~Taken(owner, r.host, None) /\ created + 1 \in AgentIds
         ELSE /\ agents[r.agent] # None
              /\ r.row.owner # owner => ~Taken(owner, r.host, r.agent)
      /\ TakeLock(w)
      /\ Goto(w, [r EXCEPT !.at = "lookup"])
      /\ UNCHANGED tables

KnownToAny(a, s) ==               \* mutant: the look-up does not ask for the agent
  \E r \in history : r.sample = s

\* (An agent that is being inserted has no sample yet.)
Known(a, s) == Stored(a, s) # {}

LookUpSample(w) ==
  /\ req[w].at = "lookup"
  /\ Goto(w, [req[w] EXCEPT !.at = IF Known(req[w].agent, req[w].sample)
                                   THEN "repeat" ELSE "add"])
  /\ UNCHANGED <<tables, lock>>

Row(a, s) ==
  [agent |-> a, sample |-> s, copy |-> IF Stored(a, s) = {} THEN 1 ELSE 2]

\* The INSERT of the sample, unless it was found, and the COMMIT.
AddSample(w, a) ==
  /\ history' = IF req[w].at = "add" THEN history \cup {Row(a, req[w].sample)}
                ELSE history
  /\ lock' = None
  /\ Answer(w)

InsertAgent(w) ==
  LET r == req[w]
      a == created + 1
  IN  /\ r.at \in {"add", "repeat"} /\ r.agent = None
      /\ created' = a
      /\ agents' = [agents EXCEPT ![a] =
           [host |-> r.host, owner |-> KeyOwner[r.key], lastKey |-> r.key,
            settings |-> DefaultSettings, latest |-> r.sample, latestAt |-> r.sample]]
      /\ AddSample(w, a)
      /\ UNCHANGED keys

WholeRow(old, row, new) == new    \* mutant: columns are written back as they were read
ReplaceRow(old, row, new) ==      \* mutant: the row is replaced by what has changed
  [c \in DOMAIN old |-> IF new[c] = row[c] THEN None ELSE new[c]]

\* What an UPDATE leaves in the table: `old' is there now, `row' is what the
\* session read, `new' is what it made of it.
Merged(old, row, new) ==
  [c \in DOMAIN old |-> IF new[c] = row[c] THEN old[c] ELSE new[c]]

\* collected_at carries a time zone and what was read does not, so the session
\* takes latest_payload_at for changed even when it is not.  The payload is left out
\* when it is the one that was read, though another may be in the row by now.
UpdateAgent(w) ==
  LET r == req[w]
      a == r.agent
      new == [r.row EXCEPT !.owner = KeyOwner[r.key], !.lastKey = r.key,
                           !.latest = r.sample]
  IN  /\ r.at \in {"add", "repeat"} /\ a # None
      /\ agents[a] # None
      /\ agents' = [agents EXCEPT ![a] =
                      [Merged(@, r.row, new) EXCEPT !.latestAt = r.sample]]
      /\ AddSample(w, a)
      /\ UNCHANGED <<keys, created>>
-----------------------------------------------------------------------------
(* DELETE /api/v1/agents/{id}, by its owner or a superuser *)

DeleteAgent(w, a) ==
  /\ req[w] = Idle
  /\ agents[a] # None
  /\ Goto(w, [at |-> "list", agent |-> a])
  /\ UNCHANGED <<tables, lock>>

ListSamples(w) ==
  /\ req[w].at = "list"
  /\ Goto(w, [at |-> "erase", agent |-> req[w].agent,
              rows |-> { r \in history : r.agent = req[w].agent }])
  /\ UNCHANGED <<tables, lock>>

\* Rows another request has deleted already are no error.
Erase(w) ==
  /\ req[w].at = "erase"
  /\ Write
  /\ history' = history \ req[w].rows
  /\ agents' = [agents EXCEPT ![req[w].agent] = None]
  /\ Answer(w)
  /\ UNCHANGED <<keys, created>>
-----------------------------------------------------------------------------
(* PUT /api/v1/agents/{id}/settings *)

UpdateSettings(w, a, s) ==
  /\ req[w] = Idle
  /\ agents[a] # None
  /\ Goto(w, [at |-> "save", agent |-> a, row |-> agents[a], settings |-> s])
  /\ UNCHANGED <<tables, lock>>

SaveSettings(w) ==
  LET r == req[w]
      new == [r.row EXCEPT !.settings = r.settings]
  IN  /\ r.at = "save"
      /\ Write
      /\ agents[r.agent] # None
      /\ agents' = [agents EXCEPT ![r.agent] = Merged(@, r.row, new)]
      /\ Answer(w)
      /\ UNCHANGED <<keys, created, history>>
-----------------------------------------------------------------------------
(* API keys: create, revoke, delete *)

CreateKey(k) ==
  /\ keys[k] = "absent"
  /\ Write
  /\ keys' = [keys EXCEPT ![k] = "active"]
  /\ UNCHANGED <<agents, created, history, req>>

RevokeKey(w, k) ==
  /\ req[w] = Idle
  /\ keys[k] = "active"
  /\ Goto(w, [at |-> "revoke", key |-> k])
  /\ UNCHANGED <<tables, lock>>

Revoke(w) ==
  /\ req[w].at = "revoke"
  /\ Write
  /\ keys[req[w].key] # "deleted"
  /\ keys' = [keys EXCEPT ![req[w].key] = "revoked"]
  /\ Answer(w)
  /\ UNCHANGED <<agents, created, history>>

DeleteKey(w, k) ==
  /\ req[w] = Idle
  /\ keys[k] \in {"active", "revoked"}
  /\ Goto(w, [at |-> "link", key |-> k])
  /\ UNCHANGED <<tables, lock>>

\* The agents that used the key last.
LinkedAgents(w) ==
  /\ req[w].at = "link"
  /\ Goto(w, [at |-> "unlink", key |-> req[w].key,
              linked |-> { a \in AgentIds : /\ agents[a] # None
                                            /\ agents[a].lastKey = req[w].key }])
  /\ UNCHANGED <<tables, lock>>

Unlink(w) ==
  LET linked == req[w].linked
  IN  /\ req[w].at = "unlink"
      /\ Write
      /\ \A a \in linked : agents[a] # None
      /\ agents' = [a \in AgentIds |->
           IF a \in linked THEN [agents[a] EXCEPT !.lastKey = None] ELSE agents[a]]
      /\ keys' = [keys EXCEPT ![req[w].key] = "deleted"]
      /\ Answer(w)
      /\ UNCHANGED <<created, history>>
-----------------------------------------------------------------------------
FailKeepingLock(w) ==            \* mutant: the session of a failed request is not closed
  req[w] # Idle /\ Answer(w) /\ UNCHANGED <<tables, lock>>

\* A request ends without writing: a row is gone, a unique key is taken, the
\* database stays locked for five seconds, or the backend is killed.
Fail(w) ==
  /\ req[w] # Idle
  /\ lock' = IF lock = w THEN None ELSE lock
  /\ Answer(w)
  /\ UNCHANGED tables

Begin(w) ==
  \/ \E k \in Keys, h \in Hosts, s \in Samples : PostMetrics(w, k, h, s)
  \/ \E a \in AgentIds : DeleteAgent(w, a)
  \/ \E a \in AgentIds, s \in Settings : UpdateSettings(w, a, s)
  \/ \E k \in Keys : RevokeKey(w, k) \/ DeleteKey(w, k)

Continue(w) ==
  \/ TouchKey(w) \/ FindAgent(w) \/ FlushAgent(w) \/ LookUpSample(w)
  \/ InsertAgent(w) \/ UpdateAgent(w)
  \/ ListSamples(w) \/ Erase(w) \/ SaveSettings(w)
  \/ Revoke(w) \/ LinkedAgents(w) \/ Unlink(w)

Next ==
  \/ \E w \in Workers : Begin(w) \/ Continue(w) \/ Fail(w)
  \/ \E k \in Keys : CreateKey(k)

Spec == Init /\ [][Next]_vars
-----------------------------------------------------------------------------
Arriving == [at : {"touch", "find"}, key : Keys, host : Hosts, sample : Samples]
Storing  == {"lookup", "add", "repeat"}
Posting  ==
  [at : {"flush"} \cup Storing, key : Keys, host : Hosts, sample : Samples,
   agent : AgentIds \cup {None}, row : AgentRows \cup {None}]
Listing  == [at : {"list"}, agent : AgentIds]
Erasing  == [at : {"erase"}, agent : AgentIds, rows : SUBSET SampleRows]
Saving   == [at : {"save"}, agent : AgentIds, row : AgentRows, settings : Settings]
Keying   == [at : {"revoke", "link"}, key : Keys]
Unlinking == [at : {"unlink"}, key : Keys, linked : SUBSET AgentIds]

Requests ==
  {Idle} \cup Arriving \cup Posting \cup Listing \cup Erasing \cup Saving
  \cup Keying \cup Unlinking

TypeOK ==
  /\ keys \in [Keys -> {"absent", "active", "revoked", "deleted"}]
  /\ agents \in [AgentIds -> AgentRows \cup {None}]
  /\ created \in 0 .. MaxAgents
  /\ history \subseteq SampleRows
  /\ lock \in Workers \cup {None}
  /\ req \in [Workers -> Requests]

\* A sample posted twice, by a retry that overlaps the request it repeats, is
\* stored once (ingest_metrics).
StoredOnce ==
  \A r1, r2 \in history : r1.agent = r2.agent /\ r1.sample = r2.sample => r1 = r2

\* What an agent shows as its latest metrics is in its history: no order of
\* posts, of deletions and of first posts separates the two (ingest_metrics).  So is
\* what their date says, but that may be another sample: two posts that overlap leave
\* the payload of one with the date of the other.
LatestIsInHistory ==
  \A a \in AgentIds :
    agents[a] # None =>
      /\ agents[a].latest # None   => Stored(a, agents[a].latest) # {}
      /\ agents[a].latestAt # None => Stored(a, agents[a].latestAt) # {}

\* A revoked or deleted key stays so, although requests that read the key before
\* are still going to write to its row (get_ingest_api_key, revoke_api_key).
RevocationIsFinal ==
  [][\A k \in Keys : /\ keys[k] = "revoked" => keys'[k] \in {"revoked", "deleted"}
                     /\ keys[k] = "deleted" => keys'[k] = "deleted"]_vars

\* The settings of an agent change when somebody saves them and at no other
\* time: metrics that arrive meanwhile do not put back what they have read
\* (ingest_metrics, update_agent_settings).
SettingsChangeOnlyWhenSaved ==
  [][\A a \in AgentIds :
       agents[a] # None /\ agents'[a] # None /\ agents'[a].settings # agents[a].settings
         => \E w \in Workers : /\ req[w].at = "save" /\ req'[w] = Idle
                              /\ req[w].agent = a
                              /\ req[w].settings = agents'[a].settings]_vars

\* agent_id and last_api_key_id are foreign keys (models.py:57, models.py:43): every
\* sample belongs to an agent that exists, and the key an agent names exists.
ReferencesHold ==
  /\ \A r \in history : agents[r.agent] # None
  /\ \A a \in AgentIds :
       agents[a] # None /\ agents[a].lastKey # None =>
         keys[agents[a].lastKey] # "deleted"
-----------------------------------------------------------------------------
(* The inductive invariant: what the requests rely on without testing it *)

\* Between its flush and its COMMIT a request holds the write lock, and no other.
LockHeld == \A w \in Workers : req[w].at \in Storing <=> lock = w

\* The id an insertion takes is new to agents and samples.
IdsGivenOut ==
  /\ \A a \in AgentIds : agents[a] # None => a =< created
  /\ \A r \in history : r.agent =< created

\* What a request has found under the lock is true until it commits.
FoundIsTrue ==
  \A w \in Workers :
    /\ req[w].at \in Storing /\ req[w].agent = None => created < MaxAgents
    /\ req[w].at = "add" => Stored(req[w].agent, req[w].sample) = {}
    /\ req[w].at = "repeat" => Stored(req[w].agent, req[w].sample) # {}

\* A request has read the row of the agent it has found, and lists no other's samples.
ReadsFit ==
  \A w \in Workers :
    /\ req[w].at \in {"flush"} \cup Storing =>
         (req[w].agent = None <=> req[w].row = None)
    /\ req[w].at = "erase" => \A r \in req[w].rows : r.agent = req[w].agent

IInv ==
  /\ TypeOK
  /\ LockHeld
  /\ IdsGivenOut
  /\ FoundIsTrue
  /\ ReadsFit
  /\ StoredOnce
  /\ LatestIsInHistory
=============================================================================
