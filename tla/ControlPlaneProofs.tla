-------------------------- MODULE ControlPlaneProofs --------------------------
(***************************************************************************)
(* The invariants of ControlPlane for every value of its constants: any    *)
(* number of workers, keys, agents and samples.                            *)
(***************************************************************************)
EXTENDS ControlPlane, FiniteSetTheorems, TLAPS

USE ConstantsAssumption

\* The row of one worker is all that a request changes of req.
LEMMA GotoTyped ==
  ASSUME TypeOK, NEW w \in Workers, NEW r \in Requests, Goto(w, r)
  PROVE  /\ req' \in [Workers -> Requests]
         /\ req'[w] = r
         /\ \A v \in Workers \ {w} : req'[v] = req[v]
BY DEF TypeOK, Goto

\* What a worker is at tells the rest of its request.
LEMMA KindOfRequest ==
  ASSUME TypeOK, NEW w \in Workers
  PROVE  /\ req[w].at \in {"touch", "find"} => req[w] \in Arriving
         /\ req[w].at \in {"flush"} \cup Storing => req[w] \in Posting
         /\ req[w].at = "list" => req[w] \in Listing
         /\ req[w].at = "erase" => req[w] \in Erasing
         /\ req[w].at = "save" => req[w] \in Saving
         /\ req[w].at \in {"revoke", "link"} => req[w] \in Keying
         /\ req[w].at = "unlink" => req[w] \in Unlinking
<1>1. req[w] \in Requests
  BY DEF TypeOK
<1> QED
  BY <1>1 DEF Requests, Idle, Arriving, Posting, Listing, Erasing, Saving, Keying,
              Unlinking, Storing

\* Written back, a row is a row, whatever was read of it and made of that.
LEMMA MergedTyped ==
  ASSUME NEW old \in AgentRows, NEW row \in AgentRows, NEW new \in AgentRows
  PROVE  /\ Merged(old, row, new) \in AgentRows
         /\ new.latest = row.latest => Merged(old, row, new).latest = old.latest
         /\ new.latestAt = row.latestAt => Merged(old, row, new).latestAt = old.latestAt
         /\ Merged(old, row, new).latest \in {old.latest, new.latest}
         /\ Merged(old, row, new).settings =
              IF new.settings = row.settings THEN old.settings ELSE new.settings
<1>1. DOMAIN old = {"host", "owner", "lastKey", "settings", "latest", "latestAt"}
  BY DEF AgentRows
<1> QED
  BY <1>1 DEF Merged, AgentRows

\* A request that only reads, or begins, or ends without the lock, disturbs nothing, if
\* what it has read fits.
LEMMA Reading ==
  ASSUME IInv, NEW w \in Workers, NEW r \in Requests, Goto(w, r),
         UNCHANGED <<tables, lock>>, lock # w, r.at \notin Storing,
         r.at = "flush" => (r.agent = None <=> r.row = None),
         r.at = "erase" => \A x \in r.rows : x.agent = r.agent
  PROVE  IInv'
<1> USE DEF tables
<1>1. /\ req' \in [Workers -> Requests] /\ req'[w] = r
      /\ \A v \in Workers \ {w} : req'[v] = req[v]
  BY GotoTyped DEF IInv
<1>2. TypeOK'
  BY <1>1 DEF IInv, TypeOK
<1>3. LockHeld'
  BY <1>1 DEF IInv, LockHeld
<1>4. IdsGivenOut' /\ StoredOnce' /\ LatestIsInHistory'
  BY DEF IInv, IdsGivenOut, StoredOnce, LatestIsInHistory, Stored
<1>5. FoundIsTrue'
  BY <1>1 DEF IInv, FoundIsTrue, Stored, Storing
<1>6. ReadsFit'
  BY <1>1 DEF IInv, ReadsFit
<1> QED
  BY <1>2, <1>3, <1>4, <1>5, <1>6 DEF IInv

\* Beginning a request.
LEMMA BeginKeeps ==
  ASSUME IInv, NEW w \in Workers, Begin(w)
  PROVE  IInv'
<1> USE DEF Idle
<1>0. TypeOK /\ lock # w /\ UNCHANGED <<tables, lock>>
  <2>1. req[w] = Idle /\ UNCHANGED <<tables, lock>>
    BY DEF Begin, PostMetrics, DeleteAgent, UpdateSettings, RevokeKey, DeleteKey
  <2> QED
    BY <2>1 DEF IInv, LockHeld, Storing
<1>1. ASSUME NEW k \in Keys, NEW h \in Hosts, NEW s \in Samples, PostMetrics(w, k, h, s)
      PROVE  IInv'
  <2>1. [at |-> "touch", key |-> k, host |-> h, sample |-> s] \in Requests
    BY DEF Requests, Arriving
  <2> QED
    BY <1>0, <1>1, <2>1, Reading DEF PostMetrics, Storing
<1>2. ASSUME NEW a \in AgentIds, DeleteAgent(w, a)
      PROVE  IInv'
  <2>1. [at |-> "list", agent |-> a] \in Requests
    BY DEF Requests, Listing
  <2> QED
    BY <1>0, <1>2, <2>1, Reading DEF DeleteAgent, Storing
<1>3. ASSUME NEW a \in AgentIds, NEW s \in Settings, UpdateSettings(w, a, s)
      PROVE  IInv'
  <2>1. [at |-> "save", agent |-> a, row |-> agents[a], settings |-> s] \in Requests
    BY <1>0, <1>3 DEF Requests, Saving, UpdateSettings, TypeOK
  <2> QED
    BY <1>0, <1>3, <2>1, Reading DEF UpdateSettings, Storing
<1>4. ASSUME NEW k \in Keys, RevokeKey(w, k) \/ DeleteKey(w, k)
      PROVE  IInv'
  <2>1. ASSUME NEW next \in {"revoke", "link"}, Goto(w, [at |-> next, key |-> k])
        PROVE  IInv'
    <3>1. [at |-> next, key |-> k] \in Requests
      BY DEF Requests, Keying
    <3> QED
      BY <1>0, <2>1, <3>1, Reading DEF Storing
  <2> QED
    BY <1>4, <2>1 DEF RevokeKey, DeleteKey
<1> QED
  BY <1>1, <1>2, <1>3, <1>4 DEF Begin

\* The reads, and the touch of a key, which changes nothing here.
LEMMA ReadsKeep ==
  ASSUME IInv, NEW w \in Workers,
         TouchKey(w) \/ FindAgent(w) \/ ListSamples(w) \/ LinkedAgents(w)
  PROVE  IInv'
<1>0. TypeOK /\ lock # w /\ UNCHANGED <<tables, lock>>
  BY DEF TouchKey, TouchRow, Write, FindAgent, ListSamples, LinkedAgents, IInv, LockHeld,
         Storing, tables
<1>1. CASE TouchKey(w)
  <2>1. req[w] \in Arriving
    BY <1>0, <1>1, KindOfRequest DEF TouchKey
  <2>2. /\ [req[w] EXCEPT !.at = "find"] \in Arriving
        /\ [req[w] EXCEPT !.at = "find"].at = "find"
    BY <2>1 DEF Arriving
  <2> QED
    BY <1>0, <1>1, <2>2, Reading DEF TouchKey, Storing, Requests
<1>2. CASE FindAgent(w)
  <2>1. req[w] \in Arriving
    BY <1>0, <1>2, KindOfRequest DEF FindAgent
  <2>2. PICK a \in AgentIds \cup {None}, row \in AgentRows \cup {None} :
          /\ a = None <=> row = None
          /\ Goto(w, [at |-> "flush", key |-> req[w].key, host |-> req[w].host,
                      sample |-> req[w].sample, agent |-> a, row |-> row])
    BY <1>0, <1>2 DEF FindAgent, Candidates, TypeOK
  <2>3. [at |-> "flush", key |-> req[w].key, host |-> req[w].host,
         sample |-> req[w].sample, agent |-> a, row |-> row] \in Requests
    BY <2>1 DEF Requests, Posting, Arriving
  <2> QED
    BY <1>0, <2>2, <2>3, Reading DEF Storing
<1>3. CASE ListSamples(w)
  <2>1. req[w] \in Listing
    BY <1>0, <1>3, KindOfRequest DEF ListSamples
  <2>2. [at |-> "erase", agent |-> req[w].agent,
         rows |-> { r \in history : r.agent = req[w].agent }] \in Requests
    BY <1>0, <2>1 DEF Requests, Listing, Erasing, TypeOK
  <2> QED
    BY <1>0, <1>3, <2>2, Reading DEF ListSamples, Storing
<1>4. CASE LinkedAgents(w)
  <2>1. req[w] \in Keying
    BY <1>0, <1>4, KindOfRequest DEF LinkedAgents
  <2>2. [at |-> "unlink", key |-> req[w].key,
         linked |-> { a \in AgentIds : /\ agents[a] # None
                                       /\ agents[a].lastKey = req[w].key }] \in Requests
    BY <2>1 DEF Requests, Keying, Unlinking
  <2> QED
    BY <1>0, <1>4, <2>2, Reading DEF LinkedAgents, Storing
<1> QED
  BY <1>1, <1>2, <1>3, <1>4

\* The flush takes the lock with the id of a new agent still free; the look-up records
\* what the history holds.
LEMMA LockedReadsKeep ==
  ASSUME IInv, NEW w \in Workers, FlushAgent(w) \/ LookUpSample(w)
  PROVE  IInv'
<1>0. /\ TypeOK /\ LockHeld /\ FoundIsTrue /\ ReadsFit /\ UNCHANGED tables
      /\ req[w] \in Posting /\ req[w].at \in {"flush", "lookup"}
  BY KindOfRequest DEF FlushAgent, LookUpSample, IInv, Storing
<1>1. PICK next \in Storing :
        /\ Goto(w, [req[w] EXCEPT !.at = next])
        /\ next = "add" => Stored(req[w].agent, req[w].sample) = {}
        /\ next = "repeat" => Stored(req[w].agent, req[w].sample) # {}
  BY DEF FlushAgent, LookUpSample, Storing, Known
<1>2. /\ [req[w] EXCEPT !.at = next] \in Posting
      /\ [req[w] EXCEPT !.at = next].at = next
      /\ [req[w] EXCEPT !.at = next].agent = req[w].agent
      /\ [req[w] EXCEPT !.at = next].sample = req[w].sample
      /\ [req[w] EXCEPT !.at = next].row = req[w].row
  BY <1>0 DEF Posting
<1>3. /\ req' \in [Workers -> Requests]
      /\ req'[w].at = next /\ req'[w].agent = req[w].agent
      /\ req'[w].sample = req[w].sample /\ req'[w].row = req[w].row
      /\ \A v \in Workers \ {w} : req'[v] = req[v]
  BY <1>0, <1>1, <1>2, GotoTyped DEF Requests
<1>4. lock' = w /\ (lock = None \/ lock = w)
  BY <1>0 DEF FlushAgent, TakeLock, LookUpSample, LockHeld, Storing
<1>5. TypeOK'
  BY <1>0, <1>3, <1>4 DEF TypeOK, tables
<1>6. LockHeld'
  BY <1>0, <1>1, <1>3, <1>4 DEF LockHeld
<1>7. IdsGivenOut' /\ StoredOnce' /\ LatestIsInHistory'
  BY <1>0 DEF IInv, IdsGivenOut, StoredOnce, LatestIsInHistory, Stored, tables
<1>8. FoundIsTrue'
  <2>1. req[w].agent = None => created < MaxAgents
    BY <1>0 DEF FlushAgent, LookUpSample, FoundIsTrue, Storing, AgentIds, TypeOK
  <2> QED
    BY <1>0, <1>1, <1>3, <2>1 DEF FoundIsTrue, Stored, tables
<1>9. ReadsFit'
  BY <1>0, <1>1, <1>3 DEF ReadsFit, Storing
<1> QED
  BY <1>5, <1>6, <1>7, <1>8, <1>9 DEF IInv

\* A request that answers and gives the lock back, or never had it, leaves nobody else's
\* reads untrue, if whoever holds the lock finds the tables as they were.
LEMMA Answering ==
  ASSUME IInv, NEW w \in Workers, Answer(w),
         lock' = IF lock = w THEN None ELSE lock
  PROVE  /\ req' \in [Workers -> Requests]
         /\ LockHeld' /\ ReadsFit' /\ lock' \in Workers \cup {None}
         /\ lock \in {None, w} => FoundIsTrue'
         /\ UNCHANGED tables => FoundIsTrue'
<1> USE DEF Answer, Idle
<1>1. Idle \in Requests
  BY DEF Requests
<1>2. /\ req' \in [Workers -> Requests] /\ req'[w] = Idle
      /\ \A v \in Workers \ {w} : req'[v] = req[v]
  BY <1>1, GotoTyped DEF IInv
<1>3. LockHeld' /\ lock' \in Workers \cup {None}
  BY <1>2 DEF IInv, LockHeld, TypeOK, Storing
<1>4. ReadsFit'
  BY <1>2 DEF IInv, ReadsFit, Storing
<1>5. lock \in {None, w} => FoundIsTrue'
  <2>1. ASSUME lock \in {None, w}, NEW v \in Workers PROVE req'[v].at \notin Storing
    BY <1>2, <2>1 DEF IInv, LockHeld, Storing
  <2> QED
    BY <2>1 DEF FoundIsTrue, Storing
<1>6. UNCHANGED tables => FoundIsTrue'
  BY <1>2 DEF IInv, FoundIsTrue, Storing, Stored, tables
<1> QED
  BY <1>2, <1>3, <1>4, <1>5, <1>6

\* The sample goes into the history of its agent, once.
LEMMA AddingStores ==
  ASSUME IInv, NEW w \in Workers, NEW a \in AgentIds, AddSample(w, a),
         req[w] \in Posting, req[w].at \in {"add", "repeat"},
         req[w].at = "add" => Stored(a, req[w].sample) = {},
         req[w].at = "repeat" => Stored(a, req[w].sample) # {}
  PROVE  /\ history' \in SUBSET SampleRows
         /\ history \subseteq history'
         /\ \A r \in history' \ history : r.agent = a /\ r.sample = req[w].sample
         /\ \E r \in history' : r.agent = a /\ r.sample = req[w].sample
         /\ StoredOnce'
<1> DEFINE s == req[w].sample
<1>0. TypeOK /\ StoredOnce /\ s \in Samples
  BY DEF IInv, Posting
<1>1. CASE req[w].at = "repeat"
  <2>1. history' = history
    BY <1>1 DEF AddSample
  <2>2. \E r \in history : r.agent = a /\ r.sample = s
    BY <1>1 DEF Stored
  <2> QED
    BY <1>0, <2>1, <2>2 DEF TypeOK, StoredOnce
<1>2. CASE req[w].at = "add"
  <2>1. Stored(a, s) = {}
    BY <1>2
  <2>2. /\ Row(a, s) \in SampleRows
        /\ Row(a, s).agent = a /\ Row(a, s).sample = s
    BY <1>0 DEF Row, SampleRows
  <2>3. history' = history \cup {Row(a, s)}
    BY <1>2 DEF AddSample
  <2>4. StoredOnce'
    BY <1>0, <2>1, <2>2, <2>3 DEF StoredOnce, Stored
  <2> QED
    BY <1>0, <2>2, <2>3, <2>4 DEF TypeOK
<1> QED
  BY <1>1, <1>2

\* The two ways a post commits: for a new agent, or for one that is there.
LEMMA CommitStores ==
  ASSUME IInv, NEW w \in Workers, InsertAgent(w) \/ UpdateAgent(w)
  PROVE  \E a \in AgentIds :
           /\ a = IF req[w].agent = None THEN created + 1 ELSE req[w].agent
           /\ history' \in SUBSET SampleRows /\ history \subseteq history' /\ StoredOnce'
           /\ \A r \in history' \ history : r.agent = a /\ r.sample = req[w].sample
           /\ \E r \in history' : r.agent = a /\ r.sample = req[w].sample
<1>1. /\ TypeOK /\ LockHeld /\ IdsGivenOut /\ FoundIsTrue
      /\ req[w] \in Posting /\ req[w].at \in {"add", "repeat"}
      /\ req[w].at = "add" => Stored(req[w].agent, req[w].sample) = {}
      /\ req[w].at = "repeat" => Stored(req[w].agent, req[w].sample) # {}
  BY KindOfRequest DEF IInv, InsertAgent, UpdateAgent, FoundIsTrue, Storing
<1>2. CASE InsertAgent(w)
  <2> DEFINE a == created + 1
  <2>1. req[w].agent = None /\ a \in AgentIds
    BY <1>1, <1>2 DEF InsertAgent, FoundIsTrue, TypeOK, AgentIds, Storing
  <2>2. \A r \in history : r.agent \in AgentIds /\ r.agent =< created
    BY <1>1 DEF TypeOK, SampleRows, IdsGivenOut
  <2>3. req[w].at = "add"
    BY <1>1, <2>1, <2>2 DEF Stored
  <2>4. Stored(a, req[w].sample) = {}
    BY <1>1, <2>2 DEF Stored, TypeOK
  <2> QED
    BY <1>1, <1>2, <2>1, <2>3, <2>4, AddingStores DEF InsertAgent
<1>3. CASE UpdateAgent(w)
  <2>1. req[w].agent # None /\ req[w].agent \in AgentIds
    BY <1>1, <1>3 DEF UpdateAgent, Posting
  <2> QED
    BY <1>1, <1>3, <2>1, AddingStores DEF UpdateAgent
<1> QED
  BY <1>2, <1>3

\* The first post of a host: its agent, and the sample, are new.
LEMMA InsertKeeps ==
  ASSUME IInv, NEW w \in Workers, InsertAgent(w)
  PROVE  IInv'
<1> DEFINE a == created + 1
           row == [host |-> req[w].host, owner |-> KeyOwner[req[w].key],
                   lastKey |-> req[w].key, settings |-> DefaultSettings,
                   latest |-> req[w].sample, latestAt |-> req[w].sample]
<1>1. /\ TypeOK /\ LockHeld /\ IdsGivenOut /\ LatestIsInHistory
      /\ req[w].agent = None /\ req[w] \in Posting /\ lock = w
  BY KindOfRequest DEF IInv, InsertAgent, Storing, LockHeld
<1>2. /\ a \in AgentIds
      /\ history' \in SUBSET SampleRows /\ history \subseteq history' /\ StoredOnce'
      /\ \A r \in history' \ history : r.agent = a
      /\ \E r \in history' : r.agent = a /\ r.sample = req[w].sample
  BY <1>1, CommitStores
<1>3. /\ req' \in [Workers -> Requests]
      /\ LockHeld' /\ ReadsFit' /\ FoundIsTrue' /\ lock' \in Workers \cup {None}
  BY <1>1, Answering DEF InsertAgent, AddSample
<1>4. row \in AgentRows
  BY <1>1 DEF AgentRows, Posting
<1>5. /\ agents' \in [AgentIds -> AgentRows \cup {None}]
      /\ agents'[a] = row
      /\ \A b \in AgentIds \ {a} : agents'[b] = agents[b]
  BY <1>1, <1>2, <1>4 DEF InsertAgent, TypeOK
<1>6. TypeOK'
  BY <1>1, <1>2, <1>3, <1>5 DEF TypeOK, InsertAgent, AgentIds
<1>7. IdsGivenOut'
  <2>1. created \in Nat /\ created' = a
    BY <1>1 DEF TypeOK, InsertAgent
  <2>2. \A b \in AgentIds : agents'[b] # None => b =< a
    BY <1>1, <1>5, <2>1 DEF IdsGivenOut, AgentIds
  <2>3. \A r \in history' : r.agent =< a
    BY <1>1, <1>2, <2>1 DEF AgentIds, IdsGivenOut, TypeOK, SampleRows
  <2> QED
    BY <2>1, <2>2, <2>3 DEF IdsGivenOut
<1>8. LatestIsInHistory'
  <2> SUFFICES ASSUME NEW b \in AgentIds, agents'[b] # None
               PROVE  /\ agents'[b].latest # None =>
                           \E r \in history' : r.agent = b /\ r.sample = agents'[b].latest
                      /\ agents'[b].latestAt # None =>
                           \E r \in history' : r.agent = b /\ r.sample = agents'[b].latestAt
    BY DEF LatestIsInHistory, Stored
  <2>1. CASE b = a
    BY <1>2, <1>5, <2>1
  <2>2. CASE b # a
    BY <1>1, <1>2, <1>5, <2>2 DEF LatestIsInHistory, Stored
  <2> QED
    BY <2>1, <2>2
<1> QED
  BY <1>2, <1>3, <1>6, <1>7, <1>8 DEF IInv

\* A post to an agent that is there: its row is merged, its latest sample is stored.
LEMMA UpdateKeeps ==
  ASSUME IInv, NEW w \in Workers, UpdateAgent(w)
  PROVE  IInv'
<1> DEFINE a == req[w].agent
           new == [req[w].row EXCEPT !.owner = KeyOwner[req[w].key], !.lastKey = req[w].key,
                                     !.latest = req[w].sample]
           row == [Merged(agents[a], req[w].row, new) EXCEPT !.latestAt = req[w].sample]
<1>1. /\ TypeOK /\ LockHeld /\ IdsGivenOut /\ LatestIsInHistory /\ ReadsFit
      /\ req[w].at \in Storing /\ a # None /\ agents[a] # None
      /\ req[w] \in Posting /\ lock = w
  BY KindOfRequest DEF IInv, UpdateAgent, Storing, LockHeld
<1>2. a \in AgentIds /\ agents[a] \in AgentRows /\ req[w].row \in AgentRows
  BY <1>1 DEF TypeOK, Posting, ReadsFit
<1>3. /\ history' \in SUBSET SampleRows /\ history \subseteq history' /\ StoredOnce'
      /\ \A r \in history' \ history : r.agent = a
      /\ \E r \in history' : r.agent = a /\ r.sample = req[w].sample
  BY <1>1, CommitStores
<1>4. /\ req' \in [Workers -> Requests]
      /\ LockHeld' /\ ReadsFit' /\ FoundIsTrue' /\ lock' \in Workers \cup {None}
  BY <1>1, Answering DEF UpdateAgent, AddSample
<1>5. new \in AgentRows
  BY <1>1, <1>2 DEF AgentRows, Posting
<1>6. /\ row \in AgentRows /\ row.latestAt = req[w].sample
      /\ row.latest \in {agents[a].latest, req[w].sample}
  <2>1. new.latest = req[w].sample
    BY <1>2 DEF AgentRows
  <2>2. /\ Merged(agents[a], req[w].row, new) \in AgentRows
        /\ Merged(agents[a], req[w].row, new).latest \in {agents[a].latest, new.latest}
    <3> HIDE DEF new
    <3> QED
      BY <1>2, <1>5, MergedTyped
  <2> HIDE DEF new
  <2> QED
    BY <1>1, <2>1, <2>2 DEF AgentRows, Posting
<1>7. /\ agents' \in [AgentIds -> AgentRows \cup {None}]
      /\ agents'[a] = row
      /\ \A b \in AgentIds \ {a} : agents'[b] = agents[b]
  BY <1>1, <1>2, <1>6 DEF UpdateAgent, TypeOK
<1>8. TypeOK'
  BY <1>1, <1>3, <1>4, <1>7 DEF TypeOK, UpdateAgent
<1>9. IdsGivenOut'
  BY <1>1, <1>2, <1>3, <1>7 DEF IdsGivenOut, UpdateAgent
<1>10. LatestIsInHistory'
  <2> SUFFICES ASSUME NEW b \in AgentIds, agents'[b] # None
               PROVE  /\ agents'[b].latest # None =>
                           \E r \in history' : r.agent = b /\ r.sample = agents'[b].latest
                      /\ agents'[b].latestAt # None =>
                           \E r \in history' : r.agent = b /\ r.sample = agents'[b].latestAt
    BY DEF LatestIsInHistory, Stored
  <2>1. CASE b = a
    <3>1. agents'[b].latestAt = req[w].sample
          /\ agents'[b].latest \in {agents[b].latest, req[w].sample}
      BY <1>6, <1>7, <2>1
    <3>2. agents[b].latest # None => \E r \in history' : r.agent = b /\ r.sample = agents[b].latest
      BY <1>1, <1>3, <2>1 DEF LatestIsInHistory, Stored
    <3> QED
      BY <1>3, <2>1, <3>1, <3>2
  <2>2. CASE b # a
    BY <1>1, <1>3, <1>7, <2>2 DEF LatestIsInHistory, Stored
  <2> QED
    BY <2>1, <2>2
<1> QED
  BY <1>3, <1>4, <1>8, <1>9, <1>10 DEF IInv

\* The writes of one statement each, which find the lock free.
LEMMA WritesKeep ==
  ASSUME IInv, NEW w \in Workers,
         Erase(w) \/ SaveSettings(w) \/ Revoke(w) \/ Unlink(w)
  PROVE  IInv'
<1>1. /\ TypeOK /\ IdsGivenOut /\ StoredOnce /\ LatestIsInHistory /\ ReadsFit
      /\ lock = None /\ UNCHANGED lock /\ Answer(w)
  BY DEF IInv, Erase, SaveSettings, Revoke, Unlink, Write
<1>2. /\ req' \in [Workers -> Requests]
      /\ LockHeld' /\ ReadsFit' /\ FoundIsTrue' /\ lock' \in Workers \cup {None}
  BY <1>1, Answering
<1>3. CASE Erase(w)
  <2>1. req[w] \in Erasing /\ \A r \in req[w].rows : r.agent = req[w].agent
    BY <1>1, <1>3, KindOfRequest DEF Erase, ReadsFit
  <2>2. /\ agents' \in [AgentIds -> AgentRows \cup {None}]
        /\ agents'[req[w].agent] = None
        /\ \A a \in AgentIds \ {req[w].agent} : agents'[a] = agents[a]
    BY <1>1, <1>3, <2>1 DEF Erase, TypeOK, Erasing
  <2>3. history' = history \ req[w].rows /\ UNCHANGED <<keys, created>>
    BY <1>3 DEF Erase
  <2>4. TypeOK' /\ IdsGivenOut' /\ StoredOnce'
    BY <1>1, <1>2, <2>2, <2>3 DEF TypeOK, IdsGivenOut, StoredOnce
  <2>5. LatestIsInHistory'
    BY <1>1, <2>1, <2>2, <2>3 DEF LatestIsInHistory, Stored
  <2> QED
    BY <1>2, <2>4, <2>5 DEF IInv
<1>4. CASE SaveSettings(w)
  <2> DEFINE a == req[w].agent
             new == [req[w].row EXCEPT !.settings = req[w].settings]
  <2>1. req[w] \in Saving /\ a \in AgentIds /\ agents[a] \in AgentRows
    BY <1>1, <1>4, KindOfRequest DEF SaveSettings, Saving, TypeOK
  <2>2. /\ new \in AgentRows /\ new.latest = req[w].row.latest
        /\ new.latestAt = req[w].row.latestAt
        /\ req[w].row \in AgentRows
    BY <2>1 DEF Saving, AgentRows
  <2>3. /\ Merged(agents[a], req[w].row, new) \in AgentRows
        /\ Merged(agents[a], req[w].row, new).latest = agents[a].latest
        /\ Merged(agents[a], req[w].row, new).latestAt = agents[a].latestAt
    <3> HIDE DEF new
    <3> QED
      BY <2>1, <2>2, MergedTyped
  <2>4. /\ agents' \in [AgentIds -> AgentRows \cup {None}]
        /\ agents'[a].latest = agents[a].latest /\ agents'[a].latestAt = agents[a].latestAt
        /\ \A b \in AgentIds \ {a} : agents'[b] = agents[b]
    BY <1>1, <1>4, <2>1, <2>3 DEF SaveSettings, TypeOK
  <2>5. agents[a] # None /\ UNCHANGED <<keys, created, history>>
    BY <1>4 DEF SaveSettings
  <2>6. TypeOK' /\ IdsGivenOut' /\ StoredOnce'
    BY <1>1, <1>2, <2>4, <2>5 DEF TypeOK, IdsGivenOut, StoredOnce
  <2>7. LatestIsInHistory'
    BY <1>1, <2>4, <2>5 DEF LatestIsInHistory, Stored
  <2> QED
    BY <1>2, <2>6, <2>7 DEF IInv
<1>5. CASE Revoke(w)
  <2>1. keys' \in [Keys -> {"absent", "active", "revoked", "deleted"}]
    BY <1>1, <1>5 DEF Revoke, TypeOK
  <2>2. UNCHANGED <<agents, created, history>>
    BY <1>5 DEF Revoke
  <2> QED
    BY <1>1, <1>2, <2>1, <2>2 DEF IInv, TypeOK, IdsGivenOut, StoredOnce, LatestIsInHistory, Stored
<1>6. CASE Unlink(w)
  <2>1. req[w] \in Unlinking
    BY <1>1, <1>6, KindOfRequest DEF Unlink
  <2>2. ASSUME NEW a \in AgentIds, a \in req[w].linked
        PROVE  /\ agents[a] # None /\ [agents[a] EXCEPT !.lastKey = None] \in AgentRows
               /\ [agents[a] EXCEPT !.lastKey = None].latest = agents[a].latest
               /\ [agents[a] EXCEPT !.lastKey = None].latestAt = agents[a].latestAt
    <3>1. agents[a] \in AgentRows
      BY <1>1, <1>6, <2>2 DEF Unlink, TypeOK
    <3> QED
      BY <1>6, <2>2, <3>1 DEF AgentRows, Unlink
  <2>3. /\ agents' \in [AgentIds -> AgentRows \cup {None}]
        /\ \A a \in AgentIds : /\ agents'[a] = None <=> agents[a] = None
                               /\ agents'[a].latest = agents[a].latest
                               /\ agents'[a].latestAt = agents[a].latestAt
    BY <1>1, <1>6, <2>2 DEF Unlink, TypeOK
  <2>4. /\ keys' \in [Keys -> {"absent", "active", "revoked", "deleted"}]
        /\ UNCHANGED <<created, history>>
    BY <1>1, <1>6 DEF Unlink, TypeOK
  <2>5. TypeOK' /\ IdsGivenOut' /\ StoredOnce'
    BY <1>1, <1>2, <2>3, <2>4 DEF TypeOK, IdsGivenOut, StoredOnce
  <2>6. LatestIsInHistory'
    BY <1>1, <2>3, <2>4 DEF LatestIsInHistory, Stored
  <2> QED
    BY <1>2, <2>5, <2>6 DEF IInv
<1> QED
  BY <1>3, <1>4, <1>5, <1>6

\* A request that fails writes nothing.
LEMMA FailKeeps ==
  ASSUME IInv, NEW w \in Workers, Fail(w)
  PROVE  IInv'
<1>1. /\ req' \in [Workers -> Requests]
      /\ LockHeld' /\ ReadsFit' /\ FoundIsTrue' /\ lock' \in Workers \cup {None}
  BY Answering DEF Fail
<1>2. TypeOK' /\ IdsGivenOut' /\ StoredOnce' /\ LatestIsInHistory'
  BY <1>1 DEF Fail, tables, IInv, TypeOK, IdsGivenOut, StoredOnce, LatestIsInHistory, Stored
<1> QED
  BY <1>1, <1>2 DEF IInv

\* A new key touches nothing the parts of the invariant speak of.
LEMMA CreateKeyKeeps ==
  ASSUME IInv, NEW k \in Keys, CreateKey(k)
  PROVE  IInv'
<1>1. /\ keys' \in [Keys -> {"absent", "active", "revoked", "deleted"}]
      /\ UNCHANGED <<agents, created, history, lock, req>>
  BY DEF CreateKey, Write, IInv, TypeOK
<1> QED
  BY <1>1 DEF IInv, TypeOK, LockHeld, IdsGivenOut, FoundIsTrue, ReadsFit, StoredOnce,
              LatestIsInHistory, Stored

\* The tables begin with the legacy rows only, and no request is under way.
LEMMA Initially == Init => IInv
<1> SUFFICES ASSUME Init PROVE IInv
  OBVIOUS
<1> USE DEF Init
<1>1. PICK n \in 0 .. MaxAgents :
        LegacyAgents \in [1 .. n -> { r \in AgentRows : r.owner = None /\ r.lastKey = None
                                                      /\ r.latest = None
                                                      /\ r.latestAt = None }]
  BY DEF ConstantsAssumption
<1>2. DOMAIN LegacyAgents = 1 .. n /\ created = n
  <2>1. DOMAIN LegacyAgents = 1 .. n /\ n \in Int /\ 0 =< n
    BY <1>1
  <2>2. Cardinality(1 .. n) = IF 1 > n THEN 0 ELSE n - 1 + 1
    BY <2>1, 1 \in Int, FS_Interval, Zenon
  <2> QED
    BY <2>1, <2>2
<1>3. /\ agents \in [AgentIds -> AgentRows \cup {None}]
      /\ \A a \in AgentIds : agents[a] # None => /\ a =< n /\ agents[a].latest = None
                                                /\ agents[a].latestAt = None
  BY <1>1, <1>2 DEF AgentIds
<1>4. req \in [Workers -> Requests] /\ \A w \in Workers : req[w].at = "idle"
  BY DEF Requests, Idle
<1>5. TypeOK
  BY <1>2, <1>3, <1>4 DEF TypeOK
<1>6. LockHeld /\ FoundIsTrue /\ ReadsFit
  BY <1>4 DEF LockHeld, FoundIsTrue, ReadsFit, Storing
<1>7. IdsGivenOut /\ StoredOnce /\ LatestIsInHistory
  BY <1>2, <1>3 DEF IdsGivenOut, StoredOnce, LatestIsInHistory
<1> QED
  BY <1>5, <1>6, <1>7 DEF IInv

\* Every step of a request keeps the invariant.
LEMMA ContinueKeeps ==
  ASSUME IInv, NEW w \in Workers, Continue(w)
  PROVE  IInv'
BY ReadsKeep, LockedReadsKeep, InsertKeeps, UpdateKeeps, WritesKeep DEF Continue

\* So does every step of the backend.
LEMMA Inductive == IInv /\ [Next]_vars => IInv'
<1> SUFFICES ASSUME IInv, [Next]_vars PROVE IInv'
  OBVIOUS
<1>1. ASSUME NEW w \in Workers, Begin(w) \/ Continue(w) \/ Fail(w) PROVE IInv'
  BY <1>1, BeginKeeps, ContinueKeeps, FailKeeps
<1>2. ASSUME NEW k \in Keys, CreateKey(k) PROVE IInv'
  BY <1>2, CreateKeyKeeps
<1>3. CASE UNCHANGED vars
  BY <1>3 DEF vars, tables, IInv, TypeOK, LockHeld, IdsGivenOut, FoundIsTrue, ReadsFit,
              StoredOnce, LatestIsInHistory, Stored
<1> QED
  BY <1>1, <1>2, <1>3 DEF Next

\* The inductive invariant holds in every state of every backend.
THEOREM ControlPlaneInvariance == Spec => []IInv
BY Initially, Inductive, PTL DEF Spec

\* However many requests overlap, however often the agents repeat theirs, and whatever
\* fails, a sample is stored once for its agent (ingest_metrics: the look-up flushes
\* the agent, so that it runs under the write lock).
THEOREM NoDuplicates == Spec => []StoredOnce
<1>1. IInv => StoredOnce
  BY DEF IInv
<1> QED
  BY <1>1, ControlPlaneInvariance, PTL

\* The latest payload of an agent is always in its history, and so is the sample its date
\* is of, which may be another one (ingest_metrics, delete_agent).
THEOREM LatestStored == Spec => []LatestIsInHistory
<1>1. IInv => LatestIsInHistory
  BY DEF IInv
<1> QED
  BY <1>1, ControlPlaneInvariance, PTL

\* What a step does to a key.
LEMMA KeyStep ==
  ASSUME IInv, [Next]_vars, NEW k \in Keys
  PROVE  /\ keys[k] = "revoked" => keys'[k] \in {"revoked", "deleted"}
         /\ keys[k] = "deleted" => keys'[k] = "deleted"
<1> USE DEF IInv, TypeOK
<1>1. ASSUME NEW w \in Workers, Begin(w) \/ Continue(w) \/ Fail(w), ~Revoke(w), ~Unlink(w)
      PROVE  keys' = keys
  BY <1>1 DEF Begin, PostMetrics, DeleteAgent, UpdateSettings, RevokeKey, DeleteKey, Continue,
     TouchKey, TouchRow, FindAgent, FlushAgent, LookUpSample, InsertAgent, UpdateAgent,
     ListSamples, Erase, SaveSettings, LinkedAgents, Fail, tables
<1>2. ASSUME NEW w \in Workers, Revoke(w) \/ Unlink(w)
      PROVE  /\ keys[k] = "revoked" => keys'[k] \in {"revoked", "deleted"}
             /\ keys[k] = "deleted" => keys'[k] = "deleted"
  BY <1>2 DEF Revoke, Unlink
<1>3. ASSUME NEW j \in Keys, CreateKey(j)
      PROVE  /\ keys[k] = "revoked" => keys'[k] = "revoked"
             /\ keys[k] = "deleted" => keys'[k] = "deleted"
  BY <1>3 DEF CreateKey
<1>4. CASE UNCHANGED vars
  BY <1>4 DEF vars, tables
<1> QED
  BY <1>1, <1>2, <1>3, <1>4 DEF Next

\* A revoked key is never active again, although requests that have read it before
\* still write to its row (get_ingest_api_key).
THEOREM Revocation == Spec => RevocationIsFinal
<1>1. IInv /\ [Next]_vars =>
        [\A k \in Keys : /\ keys[k] = "revoked" => keys'[k] \in {"revoked", "deleted"}
                         /\ keys[k] = "deleted" => keys'[k] = "deleted"]_vars
  BY KeyStep
<1> QED
  BY <1>1, ControlPlaneInvariance, PTL DEF Spec, RevocationIsFinal

\* What a step does to the settings of an agent that stays.
LEMMA SettingsStep ==
  ASSUME IInv, [Next]_vars, NEW a \in AgentIds,
         agents[a] # None, agents'[a] # None, agents'[a].settings # agents[a].settings
  PROVE  \E w \in Workers : /\ req[w].at = "save" /\ req'[w] = Idle
                            /\ req[w].agent = a
                            /\ req[w].settings = agents'[a].settings
<1>t. TypeOK /\ IdsGivenOut /\ ReadsFit /\ agents[a] \in AgentRows
  BY DEF IInv, TypeOK
<1>1. ASSUME agents' = agents PROVE FALSE
  BY <1>1
<1>2. ASSUME NEW w \in Workers, Begin(w) \/ Continue(w) \/ Fail(w)
      PROVE  InsertAgent(w) \/ UpdateAgent(w) \/ Erase(w) \/ SaveSettings(w) \/ Unlink(w)
  BY <1>1, <1>2 DEF Begin, PostMetrics, DeleteAgent, UpdateSettings, RevokeKey, DeleteKey,
     Continue, TouchKey, FindAgent, FlushAgent, LookUpSample, ListSamples, Revoke,
     LinkedAgents, Fail, tables
<1>3. ASSUME NEW w \in Workers, InsertAgent(w) PROVE FALSE
  <2>1. a # created + 1
    BY <1>t DEF IdsGivenOut, TypeOK, AgentIds
  <2> QED
    BY <1>t, <1>3, <2>1 DEF InsertAgent, TypeOK
<1>4. ASSUME NEW w \in Workers, UpdateAgent(w) PROVE FALSE
  <2> DEFINE new == [req[w].row EXCEPT !.owner = KeyOwner[req[w].key], !.lastKey = req[w].key,
                                       !.latest = req[w].sample]
             merged == Merged(agents[a], req[w].row, new)
  <2>1. req[w] \in Posting /\ req[w].agent # None /\ req[w].row \in AgentRows
    <3>1. req[w] \in Posting /\ req[w].agent # None /\ req[w].at \in Storing
      BY <1>t, <1>4, KindOfRequest DEF UpdateAgent, Storing
    <3> QED
      BY <1>t, <3>1 DEF ReadsFit, Posting
  <2>2. new \in AgentRows /\ new.settings = req[w].row.settings
    BY <2>1 DEF AgentRows, Posting
  <2>3. merged \in AgentRows /\ merged.settings = agents[a].settings
    <3> HIDE DEF new
    <3> QED
      BY <1>t, <2>1, <2>2, MergedTyped
  <2>4. [merged EXCEPT !.latestAt = req[w].sample].settings = agents[a].settings
    BY <2>3 DEF AgentRows
  <2>5. agents' = [agents EXCEPT ![req[w].agent] =
                     [Merged(@, req[w].row, new) EXCEPT !.latestAt = req[w].sample]]
    BY <1>4 DEF UpdateAgent
  <2>6. agents'[a] = agents[a] \/ agents'[a] = [merged EXCEPT !.latestAt = req[w].sample]
    BY <1>t, <2>5 DEF TypeOK
  <2> QED
    BY <2>4, <2>6
<1>5. ASSUME NEW w \in Workers, Erase(w) PROVE FALSE
  BY <1>t, <1>5 DEF Erase, TypeOK
<1>6. ASSUME NEW w \in Workers, SaveSettings(w)
      PROVE  /\ req[w].at = "save" /\ req'[w] = Idle /\ req[w].agent = a
             /\ req[w].settings = agents'[a].settings
  <2> DEFINE new == [req[w].row EXCEPT !.settings = req[w].settings]
             merged == Merged(agents[a], req[w].row, new)
  <2>1. req[w] \in Saving /\ req[w].at = "save" /\ req'[w] = Idle
    BY <1>t, <1>6, KindOfRequest DEF SaveSettings, Answer, Goto, TypeOK
  <2>2. new \in AgentRows /\ new.settings = req[w].settings /\ req[w].row \in AgentRows
    BY <2>1 DEF Saving, AgentRows
  <2>3. merged.settings = agents[a].settings \/ merged.settings = req[w].settings
    <3> HIDE DEF new
    <3> QED
      BY <1>t, <2>2, MergedTyped
  <2>4. agents' = [agents EXCEPT ![req[w].agent] = Merged(@, req[w].row, new)]
    BY <1>6 DEF SaveSettings
  <2>5. agents'[a] = agents[a] \/ (req[w].agent = a /\ agents'[a] = merged)
    BY <1>t, <2>4 DEF TypeOK
  <2> QED
    BY <2>1, <2>3, <2>5
<1>7. ASSUME NEW w \in Workers, Unlink(w) PROVE FALSE
  <2>1. agents'[a] = agents[a] \/ agents'[a] = [agents[a] EXCEPT !.lastKey = None]
    BY <1>t, <1>7 DEF Unlink
  <2> QED
    BY <1>t, <2>1 DEF AgentRows
<1>8. ~UNCHANGED vars /\ \A k \in Keys : ~CreateKey(k)
  BY <1>1 DEF vars, tables, CreateKey
<1> QED
  BY <1>2, <1>3, <1>4, <1>5, <1>6, <1>7, <1>8 DEF Next

\* Settings change when somebody saves them, and are then those that were saved; a post
\* that has read the row before does not put them back (ingest_metrics).
THEOREM SettingsStay == Spec => SettingsChangeOnlyWhenSaved
<1>1. IInv /\ [Next]_vars =>
        [\A a \in AgentIds :
           agents[a] # None /\ agents'[a] # None /\ agents'[a].settings # agents[a].settings
             => \E w \in Workers : /\ req[w].at = "save" /\ req'[w] = Idle
                                  /\ req[w].agent = a
                                  /\ req[w].settings = agents'[a].settings]_vars
  BY SettingsStep
<1> QED
  BY <1>1, ControlPlaneInvariance, PTL DEF Spec, SettingsChangeOnlyWhenSaved
=============================================================================
