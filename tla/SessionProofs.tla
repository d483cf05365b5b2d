---------------------------- MODULE SessionProofs ----------------------------
(***************************************************************************)
(* The web interface, for any users, agents and numbers of requests in     *)
(* flight: what those requests can still do is the inductive invariant     *)
(* (SessionInv of Session).                                                *)
(***************************************************************************)
EXTENDS Session, FiniteSetTheorems, TLAPS

USE SessionAssumption

\* The first agent of a list is one of it.
LEMMA FirstOfList ==
  ASSUME NEW list \in SUBSET Agents
  PROVE  First(list) \in list \cup {None}
<1>1. CASE list # {}
  <2>1. \E a \in list : \A b \in list : a =< b
    <3> DEFINE Below == { p \in Nat \X Nat : p[1] < p[2] }
    <3>1. IsWellFoundedOn(Below, Nat)
      BY NatLessThanWellFounded DEF OpToRel
    <3>2. list \subseteq Nat
      OBVIOUS
    <3> HIDE DEF Below
    <3>3. PICK a \in list : \A b \in list : ~(<<b, a>> \in Below)
      BY <1>1, <3>1, <3>2, WFMin
    <3>4. ASSUME NEW b \in list PROVE a =< b
      <4>1. a \in Nat /\ b \in Nat /\ ~(b < a)
        BY <3>2, <3>3 DEF Below
      <4> QED
        BY <4>1
    <3> QED
      BY <3>4
  <2> QED
    BY <1>1, <2>1 DEF First, Min
<1>2. CASE list = {}
  BY <1>2 DEF First
<1> QED
  BY <1>1, <1>2

\* Where no two are current, one is at most.
LEMMA AtMostOneCurrent ==
  ASSUME NEW S, \A g, h \in S : g.current /\ h.current => g = h
  PROVE  Cardinality({ h \in S : h.current }) =< 1
<1>1. CASE \E h \in S : h.current
  <2>1. PICK h \in S : h.current
    BY <1>1
  <2>2. { g \in S : g.current } = {h}
    BY <2>1
  <2> QED
    BY <2>2, FS_Singleton
<1>2. CASE \A h \in S : ~h.current
  <2>1. { h \in S : h.current } = {}
    BY <1>2
  <2> QED
    BY <2>1, FS_EmptySet
<1> QED
  BY <1>1, <1>2

\* One element more is at most one to the count.
LEMMA OneMore ==
  ASSUME NEW S, NEW x, IsFiniteSet(S)
  PROVE  /\ Cardinality(S) \in Nat /\ Cardinality(S \cup {x}) \in Nat
         /\ IsFiniteSet(S \cup {x}) /\ Cardinality(S \cup {x}) =< Cardinality(S) + 1
<1>1. Cardinality(S) \in Nat
  BY FS_CardinalityType
<1>2. /\ IsFiniteSet(S \cup {x})
      /\ Cardinality(S \cup {x}) = IF x \in S THEN Cardinality(S) ELSE Cardinality(S) + 1
  BY FS_AddElement, Zenon
<1> QED
  BY <1>1, <1>2

\* One element less is one from the count.
LEMMA OneLess ==
  ASSUME NEW S, NEW x \in S, IsFiniteSet(S)
  PROVE  /\ Cardinality(S) \in Nat /\ Cardinality(S \ {x}) \in Nat
         /\ IsFiniteSet(S \ {x}) /\ Cardinality(S \ {x}) = Cardinality(S) - 1
<1>1. Cardinality(S) \in Nat
  BY FS_CardinalityType
<1>2. /\ IsFiniteSet(S \ {x})
      /\ Cardinality(S \ {x}) = IF x \in S THEN Cardinality(S) - 1 ELSE Cardinality(S)
  BY FS_RemoveElement, Zenon
<1>3. Cardinality(S \ {x}) \in Nat
  BY <1>2, FS_CardinalityType
<1> QED
  BY <1>1, <1>2, <1>3

(* The hydrates in flight *)

\* What a step has to leave behind of them.
HydratesFit ==
  /\ hydrates \subseteq [user : Users, current : BOOLEAN, list : SUBSET Agents,
                         version : (0 .. MaxVersion) \cup {None}]
  /\ IsFiniteSet(hydrates) /\ Cardinality(hydrates) =< MaxHydrates
  /\ OneAnswer /\ LoadingMeansWaiting

\* Another hydrate is the only one whose answer is going to be taken.
LEMMA AnotherHydrate ==
  ASSUME SessionInv, NEW u \in Users, Cardinality(hydrates) < MaxHydrates,
         Hydrate(u), UNCHANGED <<server, applied>>
  PROVE  HydratesFit'
<1> DEFINE new == [user |-> u, current |-> TRUE, list |-> {}, version |-> None]
           old == Superseded(hydrates)
           Types == [user : Users, current : BOOLEAN, list : SUBSET Agents,
                     version : (0 .. MaxVersion) \cup {None}]
<1>0. IsFiniteSet(hydrates) /\ hydrates \subseteq Types /\ applied =< version
  BY DEF SessionInv, InFlight, OneAnswer
<1>1. hydrates' = old \cup {new} /\ loading' = TRUE
  BY DEF Hydrate
<1>2. IsFiniteSet(old) /\ Cardinality(old) =< Cardinality(hydrates)
  <2> DEFINE f == [h \in hydrates |-> [h EXCEPT !.current = FALSE]]
  <2>1. f \in Surjection(hydrates, old)
    BY DEF Surjection, Superseded
  <2> HIDE DEF f, old
  <2> QED
    BY <1>0, <2>1, FS_Surjection
<1>3. old \subseteq Types /\ \A h \in old : ~h.current
  BY <1>0 DEF Superseded
<1>4. new \in Types /\ new.current = TRUE /\ new.version = None
  OBVIOUS
<1> HIDE DEF new, old
<1>5. hydrates' \subseteq Types
  BY <1>1, <1>3, <1>4
<1>6. IsFiniteSet(hydrates') /\ Cardinality(hydrates') =< MaxHydrates
  <2>1. Cardinality(hydrates) \in Nat /\ MaxHydrates \in Nat
    BY <1>0, FS_CardinalityType
  <2>2. /\ Cardinality(old) \in Nat /\ Cardinality(old \cup {new}) \in Nat
        /\ IsFiniteSet(old \cup {new}) /\ Cardinality(old \cup {new}) =< Cardinality(old) + 1
    BY <1>2, OneMore
  <2> QED
    BY <1>1, <1>2, <2>1, <2>2
<1>7. \A h \in hydrates' : h.current => h = new
  BY <1>1, <1>3
<1>8. OneAnswer'
  BY <1>0, <1>4, <1>7 DEF OneAnswer, server
<1>9. LoadingMeansWaiting'
  BY <1>1, <1>4 DEF LoadingMeansWaiting
<1> QED
  BY <1>5, <1>6, <1>8, <1>9 DEF HydratesFit

\* One that has its list answers with it, or goes.
LEMMA HydratesKeep == SessionInv /\ [Next]_vars => HydratesFit'
<1> SUFFICES ASSUME SessionInv, [Next]_vars PROVE HydratesFit'
  OBVIOUS
<1> DEFINE Types == [user : Users, current : BOOLEAN, list : SUBSET Agents,
                     version : (0 .. MaxVersion) \cup {None}]
<1>0. /\ IsFiniteSet(hydrates) /\ hydrates \subseteq Types /\ Cardinality(hydrates) \in Nat
      /\ MaxHydrates \in Nat /\ Cardinality(hydrates) =< MaxHydrates
      /\ version \in 0 .. MaxVersion /\ applied \in 0 .. MaxVersion
      /\ loading \in BOOLEAN /\ OneAnswer /\ LoadingMeansWaiting
      /\ ran.token \in Users \cup {None} /\ token \in Users \cup {None}
  BY FS_CardinalityType DEF SessionInv, TypeOK, InFlight
<1>1. ASSUME NEW h \in hydrates, ServeHydrate(h) PROVE HydratesFit'
  <2> DEFINE served == [h EXCEPT !.list = OwnAgents(h.user), !.version = version]
  <2>1. /\ hydrates' = (hydrates \ {h}) \cup {served} /\ UNCHANGED <<server, loading, applied>>
    BY <1>1 DEF ServeHydrate, react
  <2>2. served \in Types /\ served.current = h.current /\ served.version = version
    <3>1. OwnAgents(h.user) \in SUBSET Agents
      BY DEF OwnAgents, SessionInv, TypeOK
    <3> QED
      BY <1>0, <3>1
  <2> HIDE DEF served
  <2>3. IsFiniteSet(hydrates') /\ Cardinality(hydrates') =< MaxHydrates
    <3>1. /\ Cardinality(hydrates \ {h}) \in Nat /\ IsFiniteSet(hydrates \ {h})
          /\ Cardinality(hydrates \ {h}) = Cardinality(hydrates) - 1
      BY <1>0, OneLess
    <3>2. /\ IsFiniteSet((hydrates \ {h}) \cup {served})
          /\ Cardinality((hydrates \ {h}) \cup {served}) \in Nat
          /\ Cardinality((hydrates \ {h}) \cup {served}) =< Cardinality(hydrates \ {h}) + 1
      BY <3>1, OneMore
    <3> QED
      BY <1>0, <2>1, <3>1, <3>2
  <2>4. OneAnswer'
    BY <1>0, <2>1, <2>2 DEF OneAnswer, server
  <2>5. LoadingMeansWaiting'
    <3>1. (\E g \in hydrates' : g.current) <=> \E g \in hydrates : g.current
      BY <2>1, <2>2
    <3> QED
      BY <1>0, <2>1, <3>1 DEF LoadingMeansWaiting
  <2> QED
    BY <1>0, <2>1, <2>2, <2>3, <2>4, <2>5 DEF HydratesFit
<1>2. ASSUME NEW h \in hydrates, HydrateArrives(h) \/ HydrateFails(h) PROVE HydratesFit'
  <2>1. hydrates' = hydrates \ {h} /\ version' = version
    BY <1>2 DEF HydrateArrives, HydrateFails, server
  <2>2. IsFiniteSet(hydrates') /\ Cardinality(hydrates') =< MaxHydrates
    BY <1>0, <2>1, OneLess
  <2>3. CASE h.current
    <3>1. \A g \in hydrates' : ~g.current
      BY <1>0, <2>1, <2>3 DEF OneAnswer
    <3>2. loading' = FALSE
      BY <1>2, <2>3 DEF HydrateArrives, HydrateFails, Finish
    <3>3. applied' =< version
      <4>1. applied' = applied \/ (applied' = h.version /\ h.version # None)
        BY <1>2, <2>3 DEF HydrateArrives, HydrateFails, Current
      <4>2. h.version # None => h.version =< version
        BY <1>0, <2>3 DEF OneAnswer
      <4> QED
        BY <1>0, <4>1, <4>2 DEF OneAnswer
    <3> QED
      BY <1>0, <2>1, <2>2, <3>1, <3>2, <3>3 DEF HydratesFit, OneAnswer, LoadingMeansWaiting
  <2>4. CASE ~h.current
    <3>1. loading' = loading /\ applied' = applied
      BY <1>2, <2>4 DEF HydrateArrives, HydrateFails, Finish, Current
    <3>2. (\E g \in hydrates' : g.current) <=> \E g \in hydrates : g.current
      BY <2>1, <2>4
    <3>3. OneAnswer'
      BY <1>0, <2>1, <3>1 DEF OneAnswer
    <3>4. LoadingMeansWaiting'
      BY <1>0, <3>1, <3>2 DEF LoadingMeansWaiting
    <3> QED
      BY <1>0, <2>1, <2>2, <3>3, <3>4 DEF HydratesFit
  <2> QED
    BY <2>3, <2>4
<1>3. CASE Tick
  BY <1>0, <1>3, AnotherHydrate DEF Tick
<1>4. CASE RunEffects /\ token # None /\ token # ran.token
  BY <1>0, <1>4, AnotherHydrate DEF RunEffects
<1>5. ASSUME UNCHANGED <<hydrates, loading, applied>>, version' >= version, version' \in Nat
      PROVE  HydratesFit'
  <2>1. OneAnswer'
    BY <1>0, <1>5 DEF OneAnswer
  <2>2. LoadingMeansWaiting'
    BY <1>0, <1>5 DEF LoadingMeansWaiting
  <2> QED
    BY <1>0, <1>5, <2>1, <2>2 DEF HydratesFit
<1>6. CASE \/ (\E a \in Agents : Change(a)) \/ (\E d \in deletes : ServeDelete(d))
  <2>1. UNCHANGED <<hydrates, loading, applied>> /\ version' = version + 1
    BY <1>6 DEF Change, ServeDelete, react, flying
  <2> QED
    BY <1>0, <1>5, <2>1
<1>7. CASE \/ (\E a \in Agents : Select(a)) \/ (\E u \in Users : OnLogin(u))
           \/ OnLogout \/ OnDelete \/ Rest
           \/ (RunEffects /\ ~(token # None /\ token # ran.token))
           \/ (\E v \in views : ViewArrives(v))
           \/ (\E d \in deletes : DeleteArrives(d) \/ DeleteFails(d))
           \/ UNCHANGED vars
  <2>1. UNCHANGED <<hydrates, loading, applied, version>>
    BY <1>7 DEF Select, OnLogin, OnLogout, OnDelete, Rest, RunEffects, ViewArrives, DeleteArrives,
                DeleteFails, ResetSession, react, flying, server, vars
  <2> QED
    BY <1>0, <1>5, <2>1
<1> QED
  BY <1>1, <1>2, <1>3, <1>4, <1>6, <1>7 DEF Next

(* What is shown, and what else is in flight *)

ShownFits ==
  /\ alive \subseteq Agents /\ version \in 0 .. MaxVersion /\ applied \in 0 .. MaxVersion
  /\ token \in Users \cup {None} /\ agents \subseteq Agents
  /\ selected \in Agents \cup {None} /\ history \in Agents \cup {None}
  /\ {loading, reload, quiet} \subseteq BOOLEAN
  /\ views \subseteq [agent : Agents, live : BOOLEAN]
  /\ deletes \subseteq [agent : Agents, list : SUBSET Agents, done : BOOLEAN]
  /\ ran \in [token : Users \cup {None}, selected : Agents \cup {None}]

\* What is shown and what else is in flight is as ShownFits says after every step.
LEMMA ShownKeeps == SessionInv /\ [Next]_vars => ShownFits'
<1> SUFFICES ASSUME SessionInv, [Next]_vars PROVE ShownFits'
  OBVIOUS
<1>0. ShownFits
  BY DEF SessionInv, TypeOK, InFlight, ShownFits
<1>h. hydrates \subseteq [user : Users, current : BOOLEAN, list : SUBSET Agents,
                          version : (0 .. MaxVersion) \cup {None}]
  BY DEF SessionInv, InFlight
<1> USE DEF ShownFits, server, shown, react, flying
<1>1. ASSUME NEW a \in Agents, Change(a) \/ Select(a) PROVE ShownFits'
  <2>1. CASE Change(a)
    <3>1. alive' \subseteq Agents /\ version' \in 0 .. MaxVersion
      BY <1>0, <2>1 DEF Change
    <3> QED
      BY <1>0, <2>1, <3>1 DEF Change
  <2>2. CASE Select(a)
    BY <1>0, <2>2 DEF Select
  <2> QED
    BY <1>1, <2>1, <2>2
<1>2. ASSUME NEW u \in Users, OnLogin(u) PROVE ShownFits'
  BY <1>0, <1>2 DEF OnLogin
<1>3. CASE OnLogout \/ Rest \/ UNCHANGED vars
  BY <1>0, <1>3 DEF OnLogout, Rest, ResetSession, vars
<1>4. CASE OnDelete
  <2>1. [agent |-> selected, list |-> agents, done |-> FALSE]
          \in [agent : Agents, list : SUBSET Agents, done : BOOLEAN]
    BY <1>0, <1>4 DEF OnDelete
  <2> QED
    BY <1>0, <1>4, <2>1 DEF OnDelete
<1>5. CASE Tick
  BY <1>0, <1>5 DEF Tick, Hydrate
<1>6. CASE RunEffects
  <2>1. views' \subseteq [agent : Agents, live : BOOLEAN]
    <3>1. Cancelled(views) \subseteq [agent : Agents, live : BOOLEAN]
      <4>1. \A v \in views : [v EXCEPT !.live = FALSE] \in [agent : Agents, live : BOOLEAN]
        BY <1>0
      <4> QED
        BY <4>1 DEF Cancelled
    <3>2. CASE token = None \/ selected = None
      BY <1>6, <3>1, <3>2 DEF RunEffects
    <3>3. CASE ~(token = None \/ selected = None)
      <4>1. [agent |-> selected, live |-> TRUE] \in [agent : Agents, live : BOOLEAN]
        BY <1>0, <3>3
      <4> QED
        BY <1>6, <3>1, <3>3, <4>1 DEF RunEffects
    <3> QED
      BY <3>2, <3>3
  <2>2. loading' \in BOOLEAN /\ history' \in Agents \cup {None}
    BY <1>0, <1>6 DEF RunEffects, Hydrate
  <2>3. ran' \in [token : Users \cup {None}, selected : Agents \cup {None}] /\ reload' \in BOOLEAN
    BY <1>0, <1>6 DEF RunEffects
  <2>4. UNCHANGED <<alive, version, agents, selected, token, deletes, applied, quiet>>
    BY <1>6 DEF RunEffects
  <2> QED
    BY <1>0, <2>1, <2>2, <2>3, <2>4
<1>7. ASSUME NEW h \in hydrates, ServeHydrate(h) \/ HydrateArrives(h) \/ HydrateFails(h)
      PROVE  ShownFits'
  <2>1. CASE ServeHydrate(h)
    BY <1>0, <2>1 DEF ServeHydrate
  <2>2. CASE HydrateArrives(h)
    <3>1. h.list \in SUBSET Agents /\ (h.version # None => h.version \in 0 .. MaxVersion)
      BY <1>h
    <3>2. agents' \subseteq Agents /\ selected' \in Agents \cup {None}
      <4>1. First(h.list) \in Agents \cup {None}
        BY <3>1, FirstOfList
      <4> QED
        BY <1>0, <2>2, <3>1, <4>1 DEF HydrateArrives, StillSelected
    <3>3. loading' \in BOOLEAN /\ reload' \in BOOLEAN /\ applied' \in 0 .. MaxVersion
      BY <1>0, <2>2, <3>1 DEF HydrateArrives, Finish
    <3>4. UNCHANGED <<alive, version, history, token, ran, views, deletes, quiet>>
      BY <2>2 DEF HydrateArrives
    <3> QED
      BY <1>0, <3>2, <3>3, <3>4
  <2>3. CASE HydrateFails(h)
    <3>1. loading' \in BOOLEAN
      BY <1>0, <2>3 DEF HydrateFails, Finish
    <3> QED
      BY <1>0, <2>3, <3>1 DEF HydrateFails
  <2> QED
    BY <1>7, <2>1, <2>2, <2>3
<1>8. ASSUME NEW v \in views, ViewArrives(v) PROVE ShownFits'
  <2>1. v.agent \in Agents
    BY <1>0
  <2> QED
    BY <1>0, <1>8, <2>1 DEF ViewArrives
<1>9. ASSUME NEW d \in deletes, ServeDelete(d) \/ DeleteArrives(d) \/ DeleteFails(d)
      PROVE  ShownFits'
  <2>0. d \in [agent : Agents, list : SUBSET Agents, done : BOOLEAN]
    BY <1>0
  <2>1. CASE ServeDelete(d)
    <3>1. [d EXCEPT !.done = TRUE] \in [agent : Agents, list : SUBSET Agents, done : BOOLEAN]
      BY <2>0
    <3>2. version' \in 0 .. MaxVersion /\ alive' \subseteq Agents
      BY <1>0, <2>1 DEF ServeDelete
    <3>3. deletes' \subseteq [agent : Agents, list : SUBSET Agents, done : BOOLEAN]
      BY <1>0, <2>1, <3>1 DEF ServeDelete
    <3> QED
      BY <1>0, <2>1, <3>2, <3>3 DEF ServeDelete
  <2>2. CASE DeleteArrives(d)
    <3>1. d.list \ {d.agent} \in SUBSET Agents
      BY <2>0
    <3>2. First(d.list \ {d.agent}) \in Agents \cup {None}
      BY <3>1, FirstOfList
    <3>3. agents' \subseteq Agents /\ selected' \in Agents \cup {None} /\ history' \in Agents \cup {None}
      BY <1>0, <2>2, <3>1, <3>2 DEF DeleteArrives
    <3> QED
      BY <1>0, <2>2, <3>3 DEF DeleteArrives
  <2>3. CASE DeleteFails(d)
    BY <1>0, <2>3 DEF DeleteFails, ResetSession
  <2> QED
    BY <1>9, <2>1, <2>2, <2>3
<1> QED
  BY <1>1, <1>2, <1>3, <1>4, <1>5, <1>6, <1>7, <1>8, <1>9 DEF Next

\* The effects cancel every view but one of the selection they run with.
LEMMA HistoryKeeps == SessionInv /\ [Next]_vars => HistoryFits'
<1> SUFFICES ASSUME SessionInv, [Next]_vars PROVE HistoryFits'
  OBVIOUS
<1>0. /\ HistoryFits /\ views \subseteq [agent : Agents, live : BOOLEAN]
      /\ ran.token \in Users \cup {None}
  BY DEF SessionInv, InFlight
<1>1. CASE RunEffects
  <2>1. ran' = [token |-> token, selected |-> selected]
    BY <1>1 DEF RunEffects
  <2>2. \A v \in Cancelled(views) : ~v.live
    BY <1>0 DEF Cancelled
  <2>3. CASE token = None \/ selected = None
    <3>1. history' = None /\ views' = Cancelled(views)
      BY <1>1, <2>3 DEF RunEffects
    <3> QED
      BY <2>1, <2>2, <3>1 DEF HistoryFits
  <2>4. CASE ~(token = None \/ selected = None)
    <3>1. views' = Cancelled(views) \cup {[agent |-> selected, live |-> TRUE]}
      BY <1>1, <2>4 DEF RunEffects
    <3>2. \E v \in views' : v.live
      <4>1. [agent |-> selected, live |-> TRUE] \in views'
        BY <3>1
      <4>2. [agent |-> selected, live |-> TRUE].live = TRUE
        OBVIOUS
      <4> QED
        BY <4>1, <4>2, Zenon
    <3>3. \A v \in views' : v.live => v.agent = selected
      BY <2>2, <3>1
    <3> QED
      BY <2>1, <2>4, <3>2, <3>3 DEF HistoryFits
  <2> QED
    BY <2>3, <2>4
<1>2. ASSUME NEW v \in views, ViewArrives(v) PROVE HistoryFits'
  <2>1. views' = views \ {v} /\ ran' = ran
    BY <1>2 DEF ViewArrives
  <2>2. CASE ~v.live
    <3>1. history' = history
      BY <1>2, <2>2 DEF ViewArrives, Heeded, shown
    <3>2. (\A w \in views' : ~w.live) => \A w \in views : ~w.live
      BY <2>1, <2>2
    <3> QED
      BY <1>0, <2>1, <3>1, <3>2 DEF HistoryFits
  <2>3. CASE v.live
    <3>1. v.agent = ran.selected /\ ran.token # None
      BY <1>0, <2>3 DEF HistoryFits
    <3>2. history' \in {v.agent, None}
      BY <1>2, <2>3 DEF ViewArrives, Heeded
    <3> QED
      BY <1>0, <2>1, <3>1, <3>2 DEF HistoryFits
  <2> QED
    BY <2>2, <2>3
<1>3. ASSUME UNCHANGED <<views, ran>>, history' \in {history, None} PROVE HistoryFits'
  BY <1>0, <1>3 DEF HistoryFits
<1>4. CASE \/ \E a \in Agents : Change(a) \/ Select(a)
           \/ \E u \in Users : OnLogin(u)
           \/ OnLogout \/ OnDelete \/ Tick \/ Rest
           \/ \E h \in hydrates : ServeHydrate(h) \/ HydrateArrives(h) \/ HydrateFails(h)
           \/ \E d \in deletes : ServeDelete(d) \/ DeleteArrives(d) \/ DeleteFails(d)
           \/ UNCHANGED vars
  <2>1. UNCHANGED <<views, ran>> /\ history' \in {history, None}
    BY <1>4 DEF Change, Select, OnLogin, OnLogout, OnDelete, Tick, Rest, ServeHydrate, HydrateArrives,
                HydrateFails, ServeDelete, DeleteArrives, DeleteFails, ResetSession, shown, react,
                flying, vars
  <2> QED
    BY <1>3, <2>1
<1> QED
  BY <1>1, <1>2, <1>4 DEF Next

\* A tab that opens has nothing in flight.
LEMMA SessionInitially == Init => SessionInv
<1> SUFFICES ASSUME Init PROVE SessionInv
  OBVIOUS
<1> USE DEF Init
<1>1. IsFiniteSet(hydrates) /\ Cardinality(hydrates) = 0
  BY FS_EmptySet
<1>2. Cardinality({ h \in hydrates : h.current }) =< 1
  BY AtMostOneCurrent
<1>3. TypeOK
  <2>1. Cardinality(hydrates) =< MaxHydrates
    BY <1>1
  <2>2. MaxVersion \in Nat /\ version \in 0 .. MaxVersion /\ applied \in 0 .. MaxVersion
    OBVIOUS
  <2>3. alive \subseteq Agents /\ token \in Users \cup {None} /\ agents \subseteq Agents
    OBVIOUS
  <2>4. {selected, history} \subseteq Agents \cup {None}
    OBVIOUS
  <2>5. {loading, reload, quiet} \subseteq BOOLEAN
    OBVIOUS
  <2> HIDE DEF Init
  <2> QED
    BY <1>2, <2>1, <2>2, <2>3, <2>4, <2>5 DEF TypeOK
<1>4. InFlight /\ OneAnswer /\ LoadingMeansWaiting /\ HistoryFits
  BY <1>1 DEF InFlight, OneAnswer, LoadingMeansWaiting, HistoryFits
<1> QED
  BY <1>3, <1>4 DEF SessionInv

\* Every step of the tab and of the database keeps the invariant.
LEMMA SessionKeeps == SessionInv /\ [Next]_vars => SessionInv'
<1> SUFFICES ASSUME SessionInv, [Next]_vars PROVE SessionInv'
  OBVIOUS
<1>1. HydratesFit' /\ ShownFits' /\ HistoryFits'
  BY HydratesKeep, ShownKeeps, HistoryKeeps
<1>2. Cardinality({ h \in hydrates' : h.current }) =< 1
  BY <1>1, AtMostOneCurrent DEF HydratesFit, OneAnswer
<1>3. TypeOK'
  BY <1>1, <1>2 DEF TypeOK, HydratesFit, ShownFits
<1>4. InFlight'
  BY <1>1 DEF InFlight, HydratesFit, ShownFits
<1> QED
  BY <1>1, <1>3, <1>4 DEF SessionInv, HydratesFit

\* However late, and in whatever order, the answers of overlapping requests arrive, one
\* hydrate at most is going to be taken and the history is of the selection (App.tsx).
THEOREM SessionInvariance == Spec => []SessionInv
<1>1. Init => SessionInv
  BY SessionInitially
<1>2. SessionInv /\ [Next]_vars => SessionInv'
  BY SessionKeeps
<1> QED
  BY <1>1, <1>2, PTL DEF Spec

\* The variables keep their types; of the hydrates in flight one at most is current.
THEOREM SessionTyped == Spec => []TypeOK
<1>1. SessionInv => TypeOK
  BY DEF SessionInv
<1> QED
  BY <1>1, SessionInvariance, PTL

\* The interface shows that it is loading exactly while the answer it will take is on its
\* way, also after logouts and failures (hydrate).
THEOREM LoadingShown == Spec => []LoadingMeansWaiting
<1>1. SessionInv => LoadingMeansWaiting
  BY DEF SessionInv
<1> QED
  BY <1>1, SessionInvariance, PTL

\* Once the effects have run and what they asked for has come, the history is that of the
\* selection or none, and without a session none (the cleanup of the effect).
THEOREM HistoryFollows == Spec => []ViewsFollowSelection
<1>1. SessionInv => ViewsFollowSelection
  BY DEF SessionInv, HistoryFits, ViewsFollowSelection, Pending
<1> QED
  BY <1>1, SessionInvariance, PTL

\* No answer of a refresh that is taken was read before one that was taken earlier (hydrate).
THEOREM RefreshesInOrder == Spec => RefreshesTakenInOrder
<1>1. SessionInv /\ [Next]_vars => [applied' >= applied]_vars
  <2> SUFFICES ASSUME SessionInv, [Next]_vars PROVE applied' >= applied
    OBVIOUS
  <2>0. applied \in Nat /\ OneAnswer
    BY DEF SessionInv, TypeOK
  <2>1. ASSUME NEW h \in hydrates, HydrateArrives(h) PROVE applied' >= applied
    <3>1. CASE h.current
      <4>1. applied' = h.version /\ h.version # None
        BY <2>1, <3>1 DEF HydrateArrives, Current
      <4> QED
        BY <2>0, <3>1, <4>1 DEF OneAnswer
    <3>2. CASE ~h.current
      BY <2>0, <2>1, <3>2 DEF HydrateArrives, Current
    <3> QED
      BY <3>1, <3>2
  <2>2. CASE ~\E h \in hydrates : HydrateArrives(h)
    <3>1. applied' = applied
      BY <2>2 DEF Next, Change, Select, OnLogin, OnLogout, OnDelete, Tick, RunEffects, Rest,
                  ServeHydrate, HydrateFails, ViewArrives, ServeDelete, DeleteArrives, DeleteFails,
                  vars
    <3> QED
      BY <2>0, <3>1
  <2> QED
    BY <2>1, <2>2
<1> QED
  BY <1>1, SessionInvariance, PTL DEF Spec, RefreshesTakenInOrder
=============================================================================
