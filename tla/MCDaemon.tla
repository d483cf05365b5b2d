------------------------------ MODULE MCDaemon ------------------------------
(***************************************************************************)
(* Values for the constants of Daemon.                                     *)
(***************************************************************************)
EXTENDS Daemon, TLC

\* A configuration with a text json.dumps escapes, and one with a brace.
Foreground ==
  [Defaults EXCEPT !.mode = <<"distributed">>, !.server_address = <<"host">>,
                   !.server_port = 9000, !.auth_token = <<"key", Foreign>>,
                   !.collection_interval_ms = 250, !.enable_gpu = FALSE,
                   !.pid_file = <<"pid", Brace>>]
Logging == [Foreground EXCEPT !.log_file = <<"log">>]

Unlogged == {Foreground}
Logged   == {Logging}

Entry(k, v) == [key |-> k, value |-> v]
Json(entries) == [json |-> TRUE, closed |-> TRUE, entries |-> entries]

\* Edited by hand: a number no integer holds; a daemon with a port that does not fit, a
\* number in quotes, an entry given twice; lines with a number that is negative.
HandMade ==
  { Json(<<Entry("reconnect_delay_ms", Number(LongLimit))>>),
    Json(<<Entry("run_mode", Text(<<"daemon">>)), Entry("pid_file", Text(<<"pid">>)),
           Entry("server_port", Number(PortLimit + 80)),
           Entry("collection_interval_ms", Text(<<"80">>)),
           Entry("log_file", Text(<<"a", Quote>>)), Entry("log_file", Text(<<"b">>))>>),
    [json |-> FALSE, closed |-> FALSE,
     entries |-> <<Entry("max_reconnect_attempts", Number(0)),
                   Entry("max_reconnect_attempts", Number(-1))>>] }

Arguments ==
  { << >>, <<"--config PATH", "--once", "--daemon">>, <<"tui">>, <<"--once", "--help">>,
    <<"--daemon", "--bogus">> }
DaemonOnly == { <<"--daemon">> }

\* The first process gets all of them, the others are daemons.
CONSTANT First
ArgumentsOf == [p \in Procs |-> IF p = First THEN Arguments ELSE DaemonOnly]
AllDaemons  == [p \in Procs |-> DaemonOnly]

Gpu == [percent |-> <<50>>, memoryUsed |-> 1, memoryTotal |-> 2, temperature |-> <<40>>,
        encoder |-> 0, decoder |-> 0]
Process(cpu, state) == [cpu |-> cpu, state |-> state]
Frequency(minus, digits, unit) == <<[minus |-> minus, digits |-> digits, unit |-> unit]>>
Good == [hostname |-> "host", frequency |-> Frequency(FALSE, 4, "GHz"),
         cpu |-> <<10, 20>>, cores |-> <<<<5>>, << >>>>, temperatures |-> <<<<40>>>>,
         memoryUsed |-> 1, memoryTotal |-> 2, swapUsed |-> 0, swapTotal |-> 0,
         gpus |-> <<Gpu>>, load |-> <<1, 1, 1>>,
         processes |-> <<Process(3, "R"), Process(2, "R"), Process(1, "S")>>]

\* One that is odd but valid, one with a single fault, one with many beside what is
\* clamped.
Measurements ==
  { [Good EXCEPT !.hostname = "", !.frequency = Frequency(TRUE, 800, "MHz"), !.cpu = << >>,
                 !.temperatures = << >>, !.gpus = << >>],
    [Good EXCEPT !.gpus = <<[Gpu EXCEPT !.memoryUsed = 3]>>],
    [Good EXCEPT !.cpu = <<101>>, !.temperatures = <<<<-274>>>>, !.load = <<0, -1, 0>>,
                 !.frequency = << >>, !.cores = <<<<5>>, <<-1>>>>, !.swapUsed = 1,
                 !.memoryUsed = 3,
                 !.gpus = <<[Gpu EXCEPT !.memoryTotal = -1, !.memoryUsed = -1,
                                        !.percent = << >>, !.encoder = -5, !.decoder = 300,
                                        !.temperature = <<-300>>]>>,
                 !.processes = <<Process(0, "S"), Process(-1, "Z"), Process(-1, "S")>>] }
\* Of the others a second one has to come and go, but not to measure.
MeasurementsOf == [p \in Procs |-> IF p = First THEN Measurements ELSE {}]
AllGood        == [p \in Procs |-> {Good}]
=============================================================================
