------------------------------- MODULE Daemon -------------------------------
(***************************************************************************)
(* The life of btop-agent processes around the loop that module Agent      *)
(* models: command line, configuration file, daemon mode with its log and  *)
(* its PID file, a sample that is refused, and the ways to end (main.cpp,  *)
(* daemon_manager.cpp, daemon_logger.cpp).                                 *)
(*                                                                         *)
(* Several processes share the configuration file, which may be rewritten  *)
(* at any time, and the PID file.  A process that becomes a daemon goes on *)
(* as its own grandchild; the model keeps its identity.                    *)
(***************************************************************************)
EXTENDS ConfigParser, MetricsData

CONSTANTS
  Procs,          \* the processes that will ever be started
  CommandLines,   \* the arguments each process may get
  Configs,        \* the configurations the program or its installer may write
  OtherFiles,     \* files somebody has edited
  Cuts,           \* the places between entries at which a writing may be seen
  Readings,       \* what the collectors of each process may measure
  None            \* nobody, nothing

\* A file, and what it is: a configuration somebody meant, the beginning of one in
\* JSON, such a beginning that ends in a brace, or anything else.
Whole(f, c)     == [content |-> f, is |-> "whole", meant |-> c]
Part(f)         == [content |-> f, is |-> "half", meant |-> None]
Deceptive(f, c) == [content |-> f, is |-> "brace", meant |-> c]
Other(f)        == [content |-> f, is |-> "other", meant |-> None]

Written == UNION { { Whole(f, c) : f \in {GenerateJson(c), InstallerFile(c)} } : c \in Configs }
Edited  == { Whole(Lines(c), c) : c \in Configs } \cup { Other(f) : f \in OtherFiles \cup {NoFile} }

\* What write_text and ofstream have made of a file part of the way.
Halves(f) ==
  { Part(Cut(f.content, n)) : n \in Cuts }
  \cup { Deceptive(CutBehindBrace(f.content, b), f.meant) : b \in Braces(f.content) }

Files == Written \cup Edited \cup UNION { Halves(f) : f \in Written }

ASSUME DaemonAssumption ==
  /\ \A c \in Configs : IsClientConfig(c) /\ \A k \in Texts : IsText(c[k])
  /\ \A f \in OtherFiles : IsFile(f)
  /\ Cuts \subseteq Nat
  /\ \A p \in Procs : Readings[p] \subseteq Reading
  /\ \A p \in Procs : \A r \in Readings[p], gpu \in BOOLEAN : Collected(r, gpu) # None

VARIABLES
  file,        \* the configuration file
  rewriting,   \* what is being written in its place, or None
  proc,        \* the state of each process
  pidFile      \* the process the PID file names, or None

vars == <<file, rewriting, proc, pidFile>>

Ended   == {"exit0", "exit1", "killed"}
Steps   == {"load", "daemonize", "fork", "log", "open", "write", "pid", "refused"}
Control == {"absent", "blocked", "running"} \cup Steps \cup Ended

\* A process that has done nothing yet, or is gone: its memory goes with it.
Blank(control) ==
  [at |-> control, once |-> FALSE, daemon |-> FALSE,    \* --once, --daemon
   source |-> "other",      \* what the file was that it has read,
   meant |-> None,          \* what it meant,
   config |-> Defaults,     \* and what the parser has made of it
   handlers |-> FALSE,      \* its signal handlers are installed
   stop |-> FALSE,          \* g_shutdown_requested
   mutex |-> FALSE,         \* log_mutex_ is locked
   initialized |-> FALSE,   \* initialized_ of the logger
   ownsPid |-> FALSE,       \* pid_file_path_ is set
   leftPid |-> FALSE,       \* it has said that it could not remove the PID file
   measured |-> None,       \* what its collectors have measured,
   sample |-> None]         \* and what it has made of that

Init ==
  /\ file \in Written \cup Edited
  /\ rewriting = None
  /\ proc = [p \in Procs |-> Blank("absent")]
  /\ pidFile = None

At(p, control) == proc[p].at = control
Become(p, r)   == proc' = [proc EXCEPT ![p] = r]
Goto(p, control) == Become(p, [proc[p] EXCEPT !.at = control])
Elsewhere == UNCHANGED <<file, rewriting>>
-----------------------------------------------------------------------------
(* The configuration file *)

BeginRewrite ==
  /\ rewriting = None
  /\ \E f \in Written : file' \in Halves(f) /\ rewriting' = f
  /\ UNCHANGED <<proc, pidFile>>

FinishRewrite ==
  /\ rewriting # None
  /\ file' = rewriting
  /\ rewriting' = None
  /\ UNCHANGED <<proc, pidFile>>
-----------------------------------------------------------------------------
(* The ways to end *)

LeavePidFile(p, fails) == ~fails /\ UNCHANGED pidFile     \* mutant: no destructor runs

\* removePidFile, from the destructor of DaemonManager: the file goes, whoever
\* it names by now, unless unlink fails.
RemovePidFile(p, fails) ==
  /\ fails => proc[p].ownsPid
  /\ pidFile' = IF proc[p].ownsPid /\ ~fails THEN None ELSE pidFile

\* runAgent returns, or an exception unwinds it and main returns 1.  That the PID file
\* could not be removed is said on the standard error.
Ends(p, status) ==
  /\ \E fails \in BOOLEAN :
       RemovePidFile(p, fails) /\ Become(p, [Blank(status) EXCEPT !.leftPid = fails])
  /\ Elsewhere

\* SIGTERM, SIGINT, SIGHUP: the handler sets a flag; without it the process ends.
Signal(p) ==
  /\ proc[p].at \notin Ended \cup {"absent"}
  /\ Become(p, IF proc[p].handlers THEN [proc[p] EXCEPT !.stop = TRUE] ELSE Blank("killed"))
  /\ UNCHANGED pidFile /\ Elsewhere

\* SIGKILL, or the machine stops.
Kill(p) ==
  /\ proc[p].at \notin Ended \cup {"absent"}
  /\ Become(p, Blank("killed"))
  /\ UNCHANGED pidFile /\ Elsewhere
-----------------------------------------------------------------------------
(* main, parseArguments, and runAgent as far as its loop *)

KnownWords == {"--once", "--daemon", "--config PATH"}
Has(args, words) == \E i \in DOMAIN args : args[i] \in words

\* The first argument that is not a known one decides; before any of this, `tui'
\* in the first place hands over to the embedded interface.
ParseArguments(args) ==
  LET others == { i \in DOMAIN args : args[i] \notin KnownWords }
      first  == CHOOSE i \in others : \A j \in others : i =< j
  IN  CASE others = {} -> "load"
        [] others # {} /\ args[1] \in {"tui", "--tui"} -> "exit0"
        [] others # {} /\ args[1] \notin {"tui", "--tui"} ->
             IF args[first] \in {"--help", "-h"} THEN "exit0" ELSE "exit1"

Start(p, args) ==
  /\ At(p, "absent")
  /\ Become(p, IF ParseArguments(args) = "load"
               THEN [Blank("load") EXCEPT !.once = Has(args, {"--once"}),
                                          !.daemon = Has(args, {"--daemon"})]
               ELSE Blank(ParseArguments(args)))
  /\ UNCHANGED pidFile /\ Elsewhere

\* loadFromFile and validate.
Load(p) ==
  /\ At(p, "load")
  /\ \E config \in {ParseClientConfig(file.content)} :
       LET accepted == ~ParseThrows(file.content) /\ ValidateClientConfig(config)
       IN  \/ /\ accepted
              /\ Become(p, [proc[p] EXCEPT !.at = "daemonize", !.source = file.is,
                                           !.meant = file.meant, !.config = config])
              /\ UNCHANGED pidFile /\ Elsewhere
           \/ ~accepted /\ Ends(p, "exit1")

\* maybeDaemonize; setupSignalHandlers comes before daemonize.
MaybeDaemonize(p) ==
  LET wanted == /\ ~proc[p].once
                /\ proc[p].daemon \/ proc[p].config.run_mode = <<"daemon">>
  IN  /\ At(p, "daemonize")
      /\ Become(p, [proc[p] EXCEPT !.at = IF wanted THEN "fork" ELSE "running",
                                   !.handlers = wanted])
      /\ UNCHANGED pidFile /\ Elsewhere

\* daemonize: two forks, setsid and chdir, each of which may fail.
Daemonize(p) ==
  /\ At(p, "fork")
  /\ \/ Goto(p, "log") /\ UNCHANGED pidFile /\ Elsewhere
     \/ Ends(p, "exit1")
-----------------------------------------------------------------------------
(* redirectOutput and the logger *)

RedirectOutput(p) ==
  /\ At(p, "log")
  /\ IF proc[p].config.log_file = << >> THEN Goto(p, "pid")
     ELSE Become(p, [proc[p] EXCEPT !.at = "open", !.mutex = TRUE])
  /\ UNCHANGED pidFile /\ Elsewhere

LogFailure(p) == Goto(p, "write")    \* mutant: a failure is logged as well

\* The directory cannot be made or the file not opened: the lock is released.
OpenFails(p) == Become(p, [proc[p] EXCEPT !.at = "pid", !.mutex = FALSE])

\* DaemonLogger::initialize, which holds the mutex from its first line on.  To look
\* whether the directory exists may throw, where nothing catches it before main.
InitializeLog(p) ==
  /\ At(p, "open")
  /\ \/ OpenFails(p) /\ UNCHANGED pidFile /\ Elsewhere
     \/ /\ Become(p, [proc[p] EXCEPT !.at = "write", !.initialized = TRUE])
        /\ UNCHANGED pidFile /\ Elsewhere
     \/ Ends(p, "exit1")

\* Its first message: DaemonLogger::log locks the mutex, and a thread that has
\* locked it already waits for itself.
WriteLog(p) ==
  /\ At(p, "write")
  /\ Goto(p, IF proc[p].mutex THEN "blocked" ELSE "pid")
  /\ UNCHANGED pidFile /\ Elsewhere

\* createPidFile; the path is kept also when the file cannot be written.
CreatePidFile(p) ==
  /\ At(p, "pid")
  /\ IF proc[p].config.pid_file = << >>
     THEN Goto(p, "running") /\ UNCHANGED pidFile
     ELSE /\ Become(p, [proc[p] EXCEPT !.at = "running", !.ownsPid = TRUE])
          /\ pidFile' \in {p, pidFile}
  /\ Elsewhere
-----------------------------------------------------------------------------
(* The loop, of which module Agent has the rest *)

EnableGpu(p) == proc[p].config.enable_gpu

\* collect: a sample that is not valid is an exception.
Collect(p) ==
  /\ At(p, "running")
  /\ \E r \in Readings[p] : \E sample \in {Collected(r, EnableGpu(p))} :
       Become(p, [proc[p] EXCEPT !.measured = r, !.sample = sample,
                                 !.at = IF Validate(sample) THEN "running" ELSE "refused"])
  /\ UNCHANGED pidFile /\ Elsewhere

\* The settings of the control plane take the place of two of the configuration's;
\* what the interval changes is in module Agent.
Remote == {"enable_gpu", "collection_interval_ms"}

FetchSettings(p) ==
  /\ At(p, "running") /\ proc[p].sample # None
  /\ \E gpu \in BOOLEAN : Become(p, [proc[p] EXCEPT !.config.enable_gpu = gpu])
  /\ UNCHANGED pidFile /\ Elsewhere

Refuse(p) == At(p, "refused") /\ Ends(p, "exit1")

\* The loop is left when it is told to stop, and with --once after one round.
Leave(p) ==
  /\ At(p, "running")
  /\ \/ proc[p].stop /\ Ends(p, "exit0")
     \/ proc[p].once /\ proc[p].sample # None /\ \E s \in {"exit0", "exit1"} : Ends(p, s)
-----------------------------------------------------------------------------
StartUp(p) ==
  \/ Load(p) \/ MaybeDaemonize(p) \/ Daemonize(p)
  \/ RedirectOutput(p) \/ InitializeLog(p) \/ WriteLog(p) \/ CreatePidFile(p)

Next ==
  \/ BeginRewrite \/ FinishRewrite
  \/ \E p \in Procs :
       \/ \E args \in CommandLines[p] : Start(p, args)
       \/ StartUp(p) \/ Collect(p) \/ FetchSettings(p) \/ Refuse(p) \/ Leave(p)
       \/ Signal(p) \/ Kill(p)

Spec == Init /\ [][Next]_vars

\* A process that is not waiting goes on.
FairSpec == Spec /\ \A p \in Procs : WF_vars(StartUp(p))
-----------------------------------------------------------------------------
IsProcess(r) ==
  /\ DOMAIN r = DOMAIN Blank("absent")
  /\ r.at \in Control
  /\ r.source \in {"whole", "half", "brace", "other"}
  /\ IsClientConfig(r.config)
  /\ {r.once, r.daemon, r.handlers, r.stop, r.mutex, r.initialized, r.ownsPid,
      r.leftPid} \subseteq BOOLEAN

TypeOK ==
  /\ file \in Files
  /\ rewriting \in Written \cup {None}
  /\ DOMAIN proc = Procs
  /\ \A p \in Procs : IsProcess(proc[p])
  /\ pidFile \in Procs \cup {None}

\* The PID file never names a process that has ended by itself, be it told to stop,
\* refused a sample or thrown out of its start, unless that process has said that it
\* could not remove it: what it names else is alive or was killed, whichever processes
\* have overwritten or removed it (~DaemonManager).
PidFileOfTheLiving ==
  pidFile # None =>
    \/ proc[pidFile].at \in {"running", "refused", "killed"}
    \/ proc[pidFile].leftPid

Untouched(r) == IF r.sample = None THEN Keys ELSE Keys \ Remote

\* What a process has been told under a key that each writer and both formats carry.
Carried(r, k) == k \in Texts => Plain(r.meant[k])

\* An agent that runs has the configuration that was written for it, in either format
\* and by each writer, until the control plane sets some of it; all of it but the texts
\* with a quote, a backslash or a character json.dumps escapes (parseClientConfig,
\* generateJsonClientConfig, install.sh's write_config_file).
RunsAsWritten ==
  \A p \in Procs :
    At(p, "running") /\ proc[p].source = "whole" =>
      \A k \in Untouched(proc[p]) :
        Carried(proc[p], k) => proc[p].config[k] = proc[p].meant[k]

\* A process that starts while its JSON configuration is being written, or after the
\* writing was cut short, has none of it: it never runs with some of the entries.  Only
\* where the cut is behind a brace in a text it may, and then each entry is the one that
\* was to be written or the default (isJsonFormat).
NeverHalfConfigured ==
  \A p \in Procs :
    At(p, "running") =>
      \A k \in Untouched(proc[p]) :
        /\ proc[p].source = "half" => proc[p].config[k] = Defaults[k]
        /\ proc[p].source = "brace" /\ Carried(proc[p], k) =>
             proc[p].config[k] \in {Defaults[k], proc[p].meant[k]}

\* The two functions that judge a sample agree, although each has the rules in a copy of
\* its own: a process that ends with "collected invalid metrics" says why.
RefusalsAreExplained ==
  \A p \in Procs :
    proc[p].sample # None =>
      (Validate(proc[p].sample) <=> ValidationErrors(proc[p].sample) = {})

\* Nothing collect computes ends the agent: what it clamps, casts, counts, parses or
\* fills in is valid whatever was measured, and a sample is refused for what its
\* readings were already.
OnlyReadingsAreRefused ==
  \A p \in Procs :
    proc[p].sample # None =>
      ValidationErrors(proc[p].sample) \subseteq Implausible(proc[p].measured)

\* A process that is started comes to its loop, or ends, unless it has opened a log.  Each
\* is started once: in the end, and for good, none is on its way.
StartsUnlessItLogs ==
  <>[]\A p \in Procs :
        proc[p].at \in {"absent", "running", "refused"} \cup Ended \/ proc[p].initialized

\* "--daemon  Run in daemon mode regardless of config" (main.cpp:71): a daemon comes
\* to its loop, or ends.
DaemonsComeUp ==
  \A p \in Procs : At(p, "log") ~> proc[p].at \in {"running", "refused"} \cup Ended
-----------------------------------------------------------------------------
(* The inductive invariant: what a process has from what it has read *)

\* The process the PID file names will try to remove it, if it ends by itself, or has
\* tried.
PidFileFits ==
  pidFile # None =>
    \/ At(pidFile, "killed")
    \/ proc[pidFile].at \in {"running", "refused"} /\ proc[pidFile].ownsPid
    \/ proc[pidFile].at \in Ended /\ proc[pidFile].leftPid

\* Of half a document nothing is in force, or what comes before the brace it ends with.
HalfIsNothing(r) ==
  \A k \in Untouched(r) :
    /\ r.source = "half" => r.config[k] = Defaults[k]
    /\ r.source = "brace" /\ Carried(r, k) => r.config[k] \in {Defaults[k], r.meant[k]}

\* Of a whole one everything is.
WholeIsMeant(r) ==
  r.source = "whole" => \A k \in Untouched(r) : Carried(r, k) => r.config[k] = r.meant[k]

HasCollected(p, r) ==
  r.sample # None =>
    r.measured \in Readings[p] /\ \E gpu \in BOOLEAN : r.sample = Collected(r.measured, gpu)

DaemonInv ==
  /\ TypeOK
  /\ PidFileFits
  /\ \A p \in Procs :
       HalfIsNothing(proc[p]) /\ WholeIsMeant(proc[p]) /\ HasCollected(p, proc[p])
=============================================================================
