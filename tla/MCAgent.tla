------------------------------- MODULE MCAgent -------------------------------
(***************************************************************************)
(* Values for the constants of Agent.                                      *)
(***************************************************************************)
EXTENDS AgentInvariant

CONSTANTS c0, c1

AllStarts == AllOptions

\* With a key: a service in daemon mode, or the one sample the installer sends.
ServiceStarts ==
  {[once |-> FALSE, daemon |-> TRUE, token |-> TRUE],
   [once |-> TRUE, daemon |-> FALSE, token |-> TRUE]}

TwoConfigs == {c0, c1}
OneConfig == {c0}
FirstSample == {1}
=============================================================================
