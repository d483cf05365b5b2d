----------------------------- MODULE MCSession ------------------------------
(***************************************************************************)
(* Values for the constants of Session.                                    *)
(***************************************************************************)
EXTENDS Session, TLC

CONSTANTS u1, u2

\* Both agents are the first user's; the second has none.
TwoAgents == {1, 2}
OwnerOf == 1 :> u1 @@ 2 :> u1
=============================================================================
