--------------------------- MODULE AgentInvariant ---------------------------
(***************************************************************************)
(* The inductive invariant of Agent.  Each part is what the code relies on *)
(* between two of its steps without ever testing it.                       *)
(***************************************************************************)
EXTENDS Agent

\* The shape of a POST in progress: there is a connection, and the sample it
\* carries can be serialised; sendMetrics has a sample exactly while it runs.
RequestShape ==
  /\ current # NoSample <=>
       pc \in {"send", "flush", "flushing", "deliver", "posting"}
  /\ pc = "flushing" => buffer # << >> /\ Head(buffer) \notin Unserialisable
  /\ pc = "posting" => current \notin Unserialisable
  /\ pc \in {"flushing", "posting"} => connected
  /\ acked => pc \in {"flushing", "posting"}
  /\ pc \in Ended => buffer = << >>

\* Nothing is held or stored that was not collected.
OnlyCollected ==
  /\ history \subseteq Collected
  /\ late \subseteq Collected
  /\ \A i \in 1 .. Len(buffer) : buffer[i] \in Collected
  /\ current # NoSample => current = seq /\ current \in Collected

\* What the agent takes for delivered is stored.
DeliveredIsStored ==
  /\ acked => InFlight \subseteq history
  /\ sent => pc \in {"sent", "fetch", "wait"} \cup Ended
  /\ sent /\ pc \in {"sent", "fetch", "wait"} => seq \in history
  /\ opts.once /\ pc = "exit0" => seq \in history

\* Whoever is connected, or about to reconnect, has the credentials.
CredentialsKept ==
  /\ credentials => opts.token
  /\ authenticated => credentials
  /\ connected \/ pc \in {"backoff", "sleep", "reping", "reauth"} =>
       (credentials <=> opts.token)
  /\ pc \in {"auth", "reauth"} => credentials

\* The backoff sleeps only with an attempt left.
AttemptLeft == pc = "sleep" => retryAttempts < MaxRetryAttempts

\* After the flush, a connection that is still up means an empty buffer, a
\* sample that cannot be serialised at its head, or a shutdown.
FlushedOrBlocked ==
  pc \in {"deliver", "posting"} /\ connected =>
    buffer = << >> \/ Head(buffer) \in Unserialisable \/ shutdown

OnceIsNotDaemon == shutdown => ~opts.once

IInv ==
  /\ TypeOK
  /\ RequestShape
  /\ OnlyCollected
  /\ DeliveredIsStored
  /\ CredentialsKept
  /\ AttemptLeft
  /\ FlushedOrBlocked
  /\ OnceIsNotDaemon
  /\ BufferInOrder
=============================================================================
