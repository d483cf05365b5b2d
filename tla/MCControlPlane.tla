--------------------------- MODULE MCControlPlane ---------------------------
(***************************************************************************)
(* Values for the constants of ControlPlane.                               *)
(***************************************************************************)
EXTENDS ControlPlane, TLC

CONSTANTS h1, u1, u2, k1, k2, standard, custom

\* Two users with a key each.
OwnKeys == k1 :> u1 @@ k2 :> u2

\* One user with one key.
OneKey == k1 :> u1

NoLegacy == << >>

\* A host that reported before agents had owners.
OneLegacy ==
  <<[host |-> h1, owner |-> None, lastKey |-> None, settings |-> standard,
     latest |-> None, latestAt |-> None]>>

WorkerSymmetry == Permutations(Workers)
=============================================================================
