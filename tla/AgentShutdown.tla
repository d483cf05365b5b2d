---------------------------- MODULE AgentShutdown ----------------------------
(***************************************************************************)
(* Agent with a history variable that counts the HTTP requests the process *)
(* starts after a shutdown has been requested.                             *)
(***************************************************************************)
EXTENDS AgentInvariant

VARIABLE startedLate   \* requests started since shutdown was requested

CountedInit == Init /\ startedLate = 0

CountedNext ==
  /\ Next
  /\ startedLate' =
       IF ~shutdown \/ ~shutdown' THEN 0
       ELSE IF pc' \in Requests /\ pc' # pc THEN startedLate + 1
       ELSE startedLate

CountedSpec == CountedInit /\ [][CountedNext]_<<vars, startedLate>>

\* Once shutdown is requested the process starts at most one more HTTP request,
\* so it stops within two request timeouts whatever it was doing: connect,
\* processPendingMetrics and attemptReconnectWithBackoff look at the flag first,
\* authentication and the POST of the current sample do not.
AtMostOneRequestAfterShutdown == startedLate =< 1

\* Why: behind each of the requests that are started without a look at the flag, every
\* way to a further one passes such a look.
CountFits ==
  /\ startedLate \in {0, 1}
  /\ startedLate = 1 =>
       /\ shutdown
       /\ pc \in {"auth", "collect", "send", "posting", "backoff", "sent", "reauth"} \cup Ended

ShutdownInv == IInv /\ CountFits
=============================================================================
