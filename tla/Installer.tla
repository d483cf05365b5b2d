----------------------------- MODULE Installer ------------------------------
(***************************************************************************)
(* How install.sh comes by the agent it installs or updates: the release   *)
(* or a local archive, its checksum in the manifest, and the globals of    *)
(* the shell that carry the one to the other.                              *)
(*                                                                         *)
(* "$(f)" runs f in a child of the shell: the child has the shell's        *)
(* globals, and what it assigns ends with it.  Its output is what is left, *)
(* and with errexit its failure is the failure of the script.              *)
(***************************************************************************)
EXTENDS FiniteSets

CONSTANTS
  Names,        \* names of archives
  Primary,      \* asset_basename().tar.gz
  Secondary,    \* the name older releases use
  Contents,     \* what an archive may hold, one for one with its checksum
  NoName,       \* the empty string, which is none of Names
  None

VARIABLES
  step,         \* where the script is
  local,        \* BTOP_AGENT_ASSET_PATH, or NoName
  present,      \* BIN_PATH is there
  release,      \* the content under each name, or None; also of files
  manifest,     \* the checksum of each name in SHA256SUMS.txt, or None
  globals,      \* DOWNLOADED_ASSET_NAME and RELEASE_METADATA_FILE of the shell
  archive       \* what agent.tar.gz holds, or None

world == <<local, present, release, manifest>>
vars  == <<step, world, globals, archive>>

Listings == [Names -> Contents \cup {None}]
Globals == [name : Names \cup {NoName}, metadata : BOOLEAN]

Init ==
  /\ step = "start"
  /\ local \in Names \cup {NoName} /\ present \in BOOLEAN
  /\ release \in Listings /\ manifest \in Listings
  /\ globals = [name |-> NoName, metadata |-> FALSE]
  /\ archive = None

Goto(from, to) == step = from /\ step' = to /\ UNCHANGED world

\* errexit, or die.
Dies(from) == Goto(from, "died") /\ UNCHANGED <<globals, archive>>
-----------------------------------------------------------------------------
(* install_action and update_action begin the same way *)

InstallAction == ~present /\ Goto("start", "metadata") /\ UNCHANGED <<globals, archive>>
UpdateAction  ==  present /\ Goto("start", "metadata") /\ UNCHANGED <<globals, archive>>

FetchReleaseMetadata ==
  \/ /\ Goto("metadata", "download")
     /\ globals' = [globals EXCEPT !.metadata = (local = NoName)]
     /\ UNCHANGED archive
  \/ local = NoName /\ Dies("metadata")

\* resolve_agent_asset
Resolved == { n \in {Primary, Secondary} : globals.metadata /\ release[n] # None }

\* What download_asset leaves in the globals of the shell it runs in.
DownloadAsset(name) == [globals EXCEPT !.name = name]

\* archive_path="$(download_asset)"
InChild(after) == globals

Download ==
  \/ \E n \in IF local = NoName THEN Resolved ELSE {local} :
       /\ release[n] # None
       /\ Goto("download", "verify")
       /\ archive' = release[n]
       /\ globals' = InChild(DownloadAsset(n))
  \/ Dies("download")

\* (A manifest that cannot be had lists nothing.)
Expected == IF globals.name \in Names THEN manifest[globals.name] ELSE None

VerifyAssetChecksum ==
  \/ /\ Expected # None /\ archive = Expected
     /\ Goto("verify", "verified") /\ UNCHANGED <<globals, archive>>
  \/ (Expected = None \/ archive # Expected) /\ Dies("verify")

Next ==
  \/ InstallAction \/ UpdateAction
  \/ FetchReleaseMetadata \/ Download \/ VerifyAssetChecksum

Spec == Init /\ [][Next]_vars
-----------------------------------------------------------------------------
\* "./install.sh install V1.0.0" and "update V1.0.0" (the usage text of install.sh):
\* an archive whose checksum is in the manifest under the name it was downloaded by
\* passes the verification.
GenuineArchivesPass ==
  [][step = "verify" /\ step' = "died" =>
       \E n \in IF local = NoName THEN Resolved ELSE {local} :
         release[n] = archive /\ manifest[n] # archive]_vars
=============================================================================
