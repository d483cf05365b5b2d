----------------------------- MODULE Container ------------------------------
(***************************************************************************)
(* The container the backend runs in: start.sh, which is its process 1,    *)
(* runs uvicorn (Startup) and nginx, looks every two seconds whether both  *)
(* are there, and takes the signal of "docker stop".                       *)
(*                                                                         *)
(* The shell runs a trap between two commands, or when the signal ends a   *)
(* wait.  A child that has ended answers kill -0 until the shell has       *)
(* waited for something.  Process 1 has no default for a signal: until the *)
(* trap is set SIGTERM is lost.  With process 1 everything ends.           *)
(***************************************************************************)
EXTENDS Startup

VARIABLES
  script,      \* the command start.sh is at, or "down"
  nginx,       \* nginx is running
  told,        \* the children that were sent SIGTERM
  unreaped,    \* the children that have ended and were not waited for
  pending,     \* a signal has come, and its trap has not run
  stop_requested,
  asked,       \* "docker stop" was said
  interrupted  \* a signal has ended a wait (history)

process == <<script, nginx, told, unreaped, pending, stop_requested, asked, interrupted>>
allVars == <<vars, process>>

Children == {"uvicorn", "nginx"}
Ended == {"down", "failed"}
Running == { c \in Children : IF c = "nginx" THEN nginx ELSE pc \notin Ended }

ContainerInit ==
  /\ Init
  /\ script = "down" /\ nginx = FALSE
  /\ told = {} /\ unreaped = {}
  /\ pending = FALSE /\ stop_requested = FALSE /\ asked = FALSE /\ interrupted = FALSE
-----------------------------------------------------------------------------
(* start.sh *)

Script(from, to) == script = from /\ ~pending /\ script' = to

\* "restart: unless-stopped", or "docker start".
DockerStart ==
  /\ Script("down", "uvicorn")
  /\ stop_requested' = FALSE /\ asked' = FALSE /\ interrupted' = FALSE
  /\ UNCHANGED <<vars, nginx, told, unreaped, pending>>

StartUvicorn ==
  /\ Script("uvicorn", "nginx")
  /\ Restart
  /\ UNCHANGED <<nginx, told, unreaped, pending, stop_requested, asked, interrupted>>

StartNginx ==
  /\ Script("nginx", "trap")
  /\ nginx' = TRUE
  /\ UNCHANGED <<vars, told, unreaped, pending, stop_requested, asked, interrupted>>

SetTrap ==
  /\ Script("trap", "look")
  /\ UNCHANGED <<vars, nginx, told, unreaped, pending, stop_requested, asked, interrupted>>

Either == Running \cup unreaped # {}              \* mutant: || for &&
BothAnswer == Running \cup unreaped = Children

Look ==
  /\ \/ BothAnswer /\ Script("look", "sleep")
     \/ ~BothAnswer /\ Script("look", "cleanup")
  /\ UNCHANGED <<vars, nginx, told, unreaped, pending, stop_requested, asked, interrupted>>

\* The sleep goes on when a signal comes.
WakeUp ==
  /\ script = "sleep" /\ script' = "look"
  /\ unreaped' = {}
  /\ UNCHANGED <<vars, nginx, told, pending, stop_requested, asked, interrupted>>

Tell == told' = Running

Cleanup ==
  /\ Script("cleanup", "wait_uvicorn")
  /\ Tell
  /\ UNCHANGED <<vars, nginx, unreaped, pending, stop_requested, asked, interrupted>>

NoWait(c) == TRUE                                 \* mutant: nothing is waited for
HasEnded(c) == c \notin Running

Wait ==
  /\ \/ HasEnded("uvicorn") /\ Script("wait_uvicorn", "wait_nginx")
     \/ HasEnded("nginx") /\ Script("wait_nginx", "exit")
  /\ UNCHANGED <<vars, nginx, told, unreaped, pending, stop_requested, asked, interrupted>>

HandleSignal ==
  /\ pending /\ script # "sleep"
  /\ pending' = FALSE
  /\ stop_requested' = TRUE
  /\ Tell
  /\ script' = CASE script = "wait_uvicorn" -> "wait_nginx"
                 [] script = "wait_nginx" -> "exit"
                 [] OTHER -> script
  /\ interrupted' = (interrupted \/ script \in {"wait_uvicorn", "wait_nginx"})
  /\ UNCHANGED <<vars, nginx, unreaped, asked>>

\* Whatever the processes were doing is over.
EverythingEnds ==
  /\ script' = "down" /\ nginx' = FALSE
  /\ told' = {} /\ unreaped' = {} /\ pending' = FALSE
  /\ pc' = "down" /\ tx' = None
  /\ req' = [w \in Workers |-> Idle]
  /\ UNCHANGED <<disk, tables, crashes, stop_requested, asked, interrupted>>

Exit == script = "exit" /\ ~pending /\ EverythingEnds
-----------------------------------------------------------------------------
(* The children *)

Ends(c) == unreaped' = unreaped \cup {c} /\ told' = told \ {c}

\* uvicorn takes no more requests once told, and ends when it has none.
UvicornObeys ==
  /\ "uvicorn" \in told /\ pc = "serving"
  /\ \A w \in Workers : req[w] = Idle
  /\ pc' = "down" /\ Ends("uvicorn")
  /\ UNCHANGED <<disk, tx, tables, req, crashes, script, nginx, pending, stop_requested, asked, interrupted>>

NginxObeys ==
  /\ "nginx" \in told
  /\ nginx' = FALSE /\ Ends("nginx")
  /\ UNCHANGED <<vars, script, pending, stop_requested, asked, interrupted>>

NginxCrashes ==
  /\ nginx /\ crashes < MaxCrashes
  /\ crashes' = crashes + 1
  /\ nginx' = FALSE /\ Ends("nginx")
  /\ UNCHANGED <<pc, disk, tx, tables, req, script, pending, stop_requested, asked, interrupted>>

UvicornCrashes ==
  /\ pc \notin Ended /\ Crash /\ Ends("uvicorn")
  /\ UNCHANGED <<script, nginx, pending, stop_requested, asked, interrupted>>

Starts ==
  /\ StartStep
  /\ IF pc' = "failed" THEN Ends("uvicorn") ELSE UNCHANGED <<told, unreaped>>
  /\ UNCHANGED <<script, nginx, pending, stop_requested, asked, interrupted>>

\* A request comes through nginx; one that has come goes on without it.
Serves ==
  /\ \/ NewRequest /\ nginx /\ "uvicorn" \notin told
     \/ Work
  /\ UNCHANGED process
-----------------------------------------------------------------------------
(* "docker stop": SIGTERM, and SIGKILL after a while *)

DockerStop ==
  /\ script # "down" /\ ~asked
  /\ asked' = TRUE
  /\ pending' = (script \notin {"uvicorn", "nginx", "trap"})
  /\ UNCHANGED <<vars, script, nginx, told, unreaped, stop_requested, interrupted>>

DockerKill == asked /\ script # "down" /\ EverythingEnds

ScriptStep ==
  \/ StartUvicorn \/ StartNginx \/ SetTrap \/ Look \/ WakeUp \/ Cleanup \/ Wait
  \/ HandleSignal \/ Exit

ContainerNext ==
  \/ DockerStart \/ DockerStop \/ DockerKill \/ ScriptStep
  \/ UvicornObeys \/ NginxObeys \/ UvicornCrashes \/ NginxCrashes
  \/ Starts \/ Serves

\* The shell goes on, a start and a request come to an end, and a child that was
\* told to ends.
ContainerSpec ==
  /\ ContainerInit /\ [][ContainerNext]_allVars
  /\ WF_allVars(ScriptStep) /\ WF_allVars(Starts)
  /\ WF_allVars(Work /\ UNCHANGED process)
  /\ WF_allVars(UvicornObeys) /\ WF_allVars(NginxObeys)
-----------------------------------------------------------------------------
ContainerTypeOK ==
  /\ TypeOK
  /\ script \in {"down", "uvicorn", "nginx", "trap", "look", "sleep", "cleanup",
                 "wait_uvicorn", "wait_nginx", "exit"}
  /\ told \subseteq Running /\ unreaped \subseteq Children \ Running
  /\ {nginx, pending, stop_requested, asked, interrupted} \subseteq BOOLEAN

\* The container never stays half alive: when uvicorn or nginx has ended, at
\* whatever moment, or a stop was heard, all of it ends, to be started as a whole.
EndsAsAWhole ==
  (script \notin {"down", "uvicorn", "nginx"} /\ (Running # Children \/ stop_requested))
    ~> script = "down"

\* A container that is not killed cuts no request short, whether it was stopped or
\* one of its processes ended, unless the signal came so late that it ended a wait
\* (start.sh).
RequestsFinish ==
  [][Exit /\ ~interrupted => \A w \in Workers : req[w] = Idle]_allVars
-----------------------------------------------------------------------------
(* The inductive invariant *)

\* The script starts its children on a clean table, and hears no signal before its trap.
BeginsClean ==
  /\ script \in {"down", "uvicorn"} => pc = "down" /\ unreaped = {}
  /\ script \in {"down", "uvicorn", "nginx"} => ~nginx /\ "nginx" \notin unreaped
  /\ script \in {"down", "uvicorn", "nginx", "trap"} => ~pending

\* Past its first wait the script has seen uvicorn end, unless a signal ended the wait.
WaitedFor == script \in {"wait_nginx", "exit"} /\ ~interrupted => pc \in Ended

ContainerInv ==
  /\ StartupInv
  /\ ContainerTypeOK
  /\ BeginsClean
  /\ WaitedFor
=============================================================================
