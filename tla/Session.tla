------------------------------ MODULE Session ------------------------------
(***************************************************************************)
(* The web interface (App.tsx): what a browser tab shows of one session    *)
(* after the other, while the answers of its requests arrive in any order, *)
(* late, or after the session or the selection they belong to.             *)
(*                                                                         *)
(* React runs the effects some time after a state change, so that other    *)
(* answers may come in between.  The cleanup of an effect cancels its      *)
(* request: the answer still comes, and is to be ignored.  Of the five     *)
(* requests of a hydrate only the list of agents is followed, and of a     *)
(* request counter only whether a newer hydrate has begun.  What an agent  *)
(* measures, keys, layouts and texts are left out.                         *)
(***************************************************************************)
EXTENDS Naturals, FiniteSetsExt

CONSTANTS
  Users,
  Agents,       \* agents as numbers, in the order of the list
  Owner,        \* owner_user_id of each
  MaxVersion,   \* bound on the changes of the database
  InitialAgents,
  MaxHydrates, MaxViews, MaxDeletes,    \* bounds on the requests in flight
  None

ASSUME SessionAssumption ==
  /\ Agents \subseteq Nat /\ Owner \in [Agents -> Users]
  /\ {MaxVersion, MaxHydrates, MaxViews, MaxDeletes} \subseteq Nat
  /\ InitialAgents \subseteq Agents
  /\ None \notin Users \cup Agents

VARIABLES
  alive, version,     \* the agents in the database; how often they have changed
  token,              \* the user the tab is logged in as, or None
  agents,             \* the list it shows
  selected,           \* selectedAgentId
  history,            \* the agent whose history it has, or None
  loading,            \* loadingApp
  ran,                \* the token and the selection the effects last ran with
  reload,             \* historyReloadNonce has changed since
  hydrates,           \* hydrates in flight
  views,              \* requests for the history of an agent in flight
  deletes,            \* deletions in flight
  applied,            \* the version the refresh had read whose answer was taken last
  quiet               \* from now on nobody does anything but look

server == <<alive, version>>
shown  == <<agents, selected, history>>
react  == <<token, loading, ran, reload>>
flying == <<hydrates, views, deletes>>
vars   == <<server, shown, react, flying, applied, quiet>>

OwnAgents(u) == { a \in alive : Owner[a] = u }
First(list) == IF list = {} THEN None ELSE Min(list)

\* A tab that is opened finds the token that was stored, or none.
Init ==
  /\ alive = InitialAgents /\ version = 0
  /\ token \in Users \cup {None} /\ agents = {} /\ selected = None /\ history = None
  /\ loading = FALSE /\ ran = [token |-> None, selected |-> None] /\ reload = FALSE
  /\ hydrates = {} /\ views = {} /\ deletes = {}
  /\ applied = 0 /\ quiet = FALSE
-----------------------------------------------------------------------------
(* The control plane *)

\* An agent reports for the first time, or is deleted from another tab.
Change(a) ==
  /\ ~quiet /\ version < MaxVersion
  /\ alive' = IF a \in alive THEN alive \ {a} ELSE alive \cup {a}
  /\ version' = version + 1
  /\ UNCHANGED <<shown, react, flying, applied, quiet>>
-----------------------------------------------------------------------------
(* Sessions *)

ResetSession ==
  /\ token' = None
  /\ agents' = {} /\ selected' = None /\ history' = None
  /\ UNCHANGED <<loading, ran, reload>>

\* (The effects of a logout have run before somebody can log in.)
OnLogin(u) ==
  /\ ~quiet /\ token = None /\ ran.token = None
  /\ token' = u
  /\ UNCHANGED <<server, shown, loading, ran, reload, flying, applied, quiet>>

OnLogout ==
  /\ ~quiet /\ token # None
  /\ ResetSession
  /\ UNCHANGED <<server, flying, applied, quiet>>

\* A view that shows the selection.
Select(a) ==
  /\ ~quiet /\ token # None /\ a \in agents
  /\ selected' = a
  /\ UNCHANGED <<server, agents, history, react, flying, applied, quiet>>
-----------------------------------------------------------------------------
(* hydrate *)

SameRequest(set) == set          \* mutant: the request counter is not advanced
Superseded(set) == { [h EXCEPT !.current = FALSE] : h \in set }

\* Another hydrate begins, for the user whose token the client has.
Hydrate(u) ==
  /\ hydrates' = Superseded(hydrates) \cup
       {[user |-> u, current |-> TRUE, list |-> {}, version |-> None]}
  /\ loading' = TRUE

\* The timer of auto-refresh, which is on, or the button, which waits for the last answer.
Tick ==
  /\ ran.token # None /\ token # None
  /\ Cardinality(hydrates) < MaxHydrates
  /\ quiet => ~loading
  /\ Hydrate(ran.token)
  /\ UNCHANGED <<server, shown, token, ran, reload, views, deletes, applied, quiet>>

\* list_agents reads the database.
ServeHydrate(h) ==
  /\ h.version = None
  /\ hydrates' = (hydrates \ {h}) \cup {[h EXCEPT !.list = OwnAgents(h.user), !.version = version]}
  /\ UNCHANGED <<server, shown, react, views, deletes, applied, quiet>>

AnyAnswer(h) == TRUE             \* mutant: requestId is not compared
\* requestId === hydrateRequestIdRef.current
Current(h) == h.current

AlwaysFinish(h) == loading' = FALSE   \* mutant: requestId is not compared in finally
Finish(h) == IF h.current THEN loading' = FALSE ELSE UNCHANGED loading

KeepSelected(current, list) ==   \* mutant: the selection is kept as it is
  IF current # None THEN current ELSE First(list)
StillSelected(current, list) == IF current \in list THEN current ELSE First(list)

HydrateArrives(h) ==
  /\ h.version # None
  /\ hydrates' = hydrates \ {h}
  /\ Finish(h)
  /\ IF Current(h)
     THEN /\ agents' = h.list
          /\ selected' = StillSelected(selected, h.list)
          /\ reload' = TRUE
          /\ applied' = h.version
     ELSE UNCHANGED <<agents, selected, reload, applied>>
  /\ UNCHANGED <<server, history, token, ran, views, deletes, quiet>>

\* The token is no longer accepted, or anything else goes wrong: a 401 that is
\* heeded ends the session, whosever it was.
HydrateFails(h) ==
  /\ hydrates' = hydrates \ {h}
  /\ \/ /\ ~quiet /\ Current(h)
        /\ token' = None
        /\ agents' = {} /\ selected' = None /\ history' = None
     \/ /\ Current(h) => ~quiet
        /\ UNCHANGED <<token, shown>>
  /\ Finish(h)
  /\ UNCHANGED <<server, ran, reload, views, deletes, applied, quiet>>
-----------------------------------------------------------------------------
(* The effect for the history; that for the details of an agent is like it *)

NeverCancelled(v) == TRUE        \* mutant: no cleanup
Heeded(v) == v.live

Cancelled(set) == { [v EXCEPT !.live = FALSE] : v \in set }

Pending == reload \/ ran # [token |-> token, selected |-> selected]

\* The effects whose dependencies have changed.
RunEffects ==
  /\ Pending
  /\ ran' = [token |-> token, selected |-> selected]
  /\ reload' = FALSE
  /\ IF token # None /\ token # ran.token
     THEN Cardinality(hydrates) < MaxHydrates /\ Hydrate(token)
     ELSE UNCHANGED <<hydrates, loading>>
  /\ IF token = None \/ selected = None
     THEN /\ history' = None
          /\ views' = Cancelled(views)
     ELSE /\ Cardinality(views) < MaxViews
          /\ views' = Cancelled(views) \cup
               {[agent |-> selected, live |-> TRUE]}
          /\ UNCHANGED history
  /\ UNCHANGED <<server, agents, selected, token, deletes, applied, quiet>>

\* An answer, a failure, or a 401.
ViewArrives(v) ==
  /\ views' = views \ {v}
  /\ \/ ~Heeded(v) /\ UNCHANGED <<shown, token>>
     \/ /\ Heeded(v)
        /\ history' = v.agent \/ history' = None
        /\ UNCHANGED <<agents, selected, token>>
     \/ /\ Heeded(v) /\ ~quiet
        /\ token' = None
        /\ agents' = {} /\ selected' = None /\ history' = None
  /\ UNCHANGED <<server, loading, ran, reload, hydrates, deletes, applied, quiet>>
-----------------------------------------------------------------------------
(* onDeleteSelectedAgent: the list it leaves is that of the moment of the click *)

OnDelete ==
  /\ ~quiet /\ token # None /\ ran.token = token /\ selected \in agents
  /\ \A d \in deletes : d.agent # selected
  /\ Cardinality(deletes) < MaxDeletes
  /\ deletes' = deletes \cup
       {[agent |-> selected, list |-> agents, done |-> FALSE]}
  /\ UNCHANGED <<server, shown, react, hydrates, views, applied, quiet>>

ServeDelete(d) ==
  /\ ~d.done /\ d.agent \in alive
  /\ version < MaxVersion
  /\ alive' = alive \ {d.agent} /\ version' = version + 1
  /\ deletes' = (deletes \ {d}) \cup {[d EXCEPT !.done = TRUE]}
  /\ UNCHANGED <<shown, react, hydrates, views, applied, quiet>>

DeleteArrives(d) ==
  LET list == d.list \ {d.agent}
  IN  /\ d.done
      /\ agents' = list
      /\ selected' = IF selected = d.agent THEN First(list) ELSE selected
      /\ history' = IF history = d.agent THEN None ELSE history
      /\ deletes' = deletes \ {d}
      /\ UNCHANGED <<server, react, hydrates, views, applied, quiet>>

DeleteFails(d) ==
  /\ ~d.done
  /\ deletes' = deletes \ {d}
  /\ \/ UNCHANGED <<shown, react>>
     \/ ~quiet /\ ResetSession
  /\ UNCHANGED <<server, hydrates, views, applied, quiet>>
-----------------------------------------------------------------------------
Rest == ~quiet /\ quiet' = TRUE /\ UNCHANGED <<server, shown, react, flying, applied>>

Next ==
  \/ \E a \in Agents : Change(a) \/ Select(a)
  \/ \E u \in Users : OnLogin(u)
  \/ OnLogout \/ OnDelete \/ Tick \/ RunEffects \/ Rest
  \/ \E h \in hydrates : ServeHydrate(h) \/ HydrateArrives(h) \/ HydrateFails(h)
  \/ \E v \in views : ViewArrives(v)
  \/ \E d \in deletes : ServeDelete(d) \/ DeleteArrives(d) \/ DeleteFails(d)

Spec == Init /\ [][Next]_vars

Answers ==
  \/ \E h \in hydrates : ServeHydrate(h) \/ HydrateArrives(h) \/ HydrateFails(h)
  \/ \E v \in views : ViewArrives(v)
  \/ \E d \in deletes : ServeDelete(d) \/ DeleteArrives(d) \/ DeleteFails(d)

\* The browser runs timers and effects, and every request is answered; that is asked of
\* them only once it is quiet.
FairSpec ==
  /\ Spec
  /\ WF_vars(quiet /\ Tick) /\ WF_vars(quiet /\ RunEffects) /\ WF_vars(quiet /\ Answers)
-----------------------------------------------------------------------------
TypeOK ==
  /\ alive \subseteq Agents /\ version \in 0 .. MaxVersion /\ applied \in 0 .. MaxVersion
  /\ token \in Users \cup {None}
  /\ agents \subseteq Agents
  /\ {selected, history} \subseteq Agents \cup {None}
  /\ {loading, reload, quiet} \subseteq BOOLEAN
  /\ Cardinality(hydrates) =< MaxHydrates
  /\ Cardinality({ h \in hydrates : h.current }) =< 1

\* Of two answers of refreshes that are taken, the later one was not read from the
\* database before the earlier one, in whatever order the answers of overlapping refreshes
\* and of several sessions come (hydrate).  It is a promise about refreshes alone: the list
\* a deletion leaves (onDeleteSelectedAgent) may be older, and an answer read before a
\* deletion and taken after it shows the deleted agent again, until the next refresh.
RefreshesTakenInOrder == [][applied' >= applied]_vars

\* The interface shows that it is loading exactly while the answer it will take is
\* on its way, also after logouts and failures (hydrate).
LoadingMeansWaiting == loading <=> \E h \in hydrates : h.current

\* Once the effects have run and what they asked for has come, the history is that of
\* the selection or none, and without a session there is none (the cleanup of the effect).
ViewsFollowSelection ==
  ~Pending /\ (\A v \in views : ~v.live) =>
    history \in {selected, None} /\ (token = None => history = None)

InSync ==
  token # None => agents = OwnAgents(token) /\ selected \in agents \cup {None}

\* When nothing changes any more, the list becomes that of the database and of the
\* session and stays so, whatever came late before and whatever list a deletion left,
\* with auto-refresh on.
ComesIntoSync == <>[](quiet => InSync)
-----------------------------------------------------------------------------
(* The inductive invariant: what the requests in flight can still do *)

InFlight ==
  /\ hydrates \subseteq [user : Users, current : BOOLEAN, list : SUBSET Agents,
                         version : (0 .. MaxVersion) \cup {None}]
  /\ views \subseteq [agent : Agents, live : BOOLEAN]
  /\ deletes \subseteq [agent : Agents, list : SUBSET Agents, done : BOOLEAN]
  /\ ran \in [token : Users \cup {None}, selected : Agents \cup {None}]
  /\ IsFiniteSet(hydrates)

\* One answer at most is going to be taken, and it is no older than the one taken last.
OneAnswer ==
  /\ \A g, h \in hydrates : g.current /\ h.current => g = h
  /\ applied =< version
  /\ \A h \in hydrates : h.current /\ h.version # None =>
       applied =< h.version /\ h.version =< version

\* A view that is heeded is of the selection the effects last ran with, and so is the
\* history once it has come; without a session then, there is neither.
HistoryFits ==
  /\ \A v \in views : v.live => v.agent = ran.selected
  /\ (\A v \in views : ~v.live) => history \in {ran.selected, None}
  /\ ran.token = None => history = None /\ \A v \in views : ~v.live

SessionInv ==
  /\ TypeOK
  /\ InFlight
  /\ OneAnswer
  /\ LoadingMeansWaiting
  /\ HistoryFits
=============================================================================
