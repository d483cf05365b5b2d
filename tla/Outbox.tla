------------------------------- MODULE Outbox -------------------------------
(***************************************************************************)
(* What the agent promises about the samples it collects, with nothing of  *)
(* how it talks to the control plane: a bounded first-in first-out queue   *)
(* of samples whose delivery has not been confirmed, beside the set of     *)
(* samples the control plane has stored.                                   *)
(*                                                                         *)
(* Delivery is at least once: a sample leaves the queue because it is      *)
(* stored, because it was the oldest of a queue over its capacity, or      *)
(* because the agent is stopping or has died.  The newest sample may leave *)
(* before older ones only when the oldest cannot be sent at all, or when   *)
(* the agent is stopping.                                                  *)
(***************************************************************************)
EXTENDS Naturals, Sequences

CONSTANTS
  Sample,       \* the samples
  Unsendable,   \* those no request can carry
  Capacity      \* how many unconfirmed samples are kept for later

VARIABLES
  produced,     \* every sample collected so far
  queue,        \* collected, delivery not confirmed, oldest first
  stored,       \* what the control plane holds
  running       \* FALSE from the moment the agent is told to stop, or dies

vars == <<produced, queue, stored, running>>

Init ==
  /\ produced = {}
  /\ queue = << >>
  /\ stored = {}
  /\ running = TRUE

Produce(s) ==
  /\ Len(queue) =< Capacity
  /\ produced' = produced \cup {s}
  /\ queue' = Append(queue, s)
  /\ UNCHANGED <<stored, running>>

\* The control plane stores a sample the agent has sent, be it that the agent
\* has given up on that request, or on that sample, in the meantime.
Store(s) ==
  /\ s \in produced
  /\ stored' = stored \cup {s}
  /\ UNCHANGED <<produced, queue, running>>

ConfirmOldest ==
  /\ queue # << >>
  /\ Head(queue) \in stored
  /\ queue' = Tail(queue)
  /\ UNCHANGED <<produced, stored, running>>

Newest == queue[Len(queue)]
WithoutNewest == SubSeq(queue, 1, Len(queue) - 1)

ConfirmNewest ==
  /\ queue # << >>
  /\ Newest \in stored
  /\ \/ Len(queue) = 1
     \/ Head(queue) \in Unsendable
     \/ ~running
  /\ queue' = WithoutNewest
  /\ UNCHANGED <<produced, stored, running>>

EvictOldest ==
  /\ Len(queue) > Capacity
  /\ queue' = Tail(queue)
  /\ UNCHANGED <<produced, stored, running>>

Stop ==
  /\ running' = FALSE
  /\ UNCHANGED <<produced, queue, stored>>

\* An agent that is stopping sends nothing of what it collects.
DiscardNewest ==
  /\ ~running
  /\ queue # << >>
  /\ queue' = WithoutNewest
  /\ UNCHANGED <<produced, stored, running>>

\* The queue is memory of the process: it is gone when the process is.
Die ==
  /\ running' = FALSE
  /\ queue' = << >>
  /\ UNCHANGED <<produced, stored>>

Revive ==
  /\ queue = << >>
  /\ running' = TRUE
  /\ UNCHANGED <<produced, queue, stored>>

Next ==
  \/ \E s \in Sample : Produce(s) \/ Store(s)
  \/ ConfirmOldest \/ ConfirmNewest \/ EvictOldest
  \/ Stop \/ DiscardNewest \/ Die \/ Revive

Spec == Init /\ [][Next]_vars
=============================================================================
