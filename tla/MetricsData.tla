----------------------------- MODULE MetricsData -----------------------------
(***************************************************************************)
(* One sample of metrics: what MetricsCollector::collect makes of the      *)
(* readings of btop's collectors, and the two functions that judge it,     *)
(* MetricsData::validate, which decides, and getValidationErrors, which    *)
(* says why (metrics_collector.cpp, metrics_data.cpp).                     *)
(*                                                                         *)
(* Left out is what no check looks at: the network counters, names, the    *)
(* clock speeds of the GPUs and the ranking of the processes.  Readings    *)
(* are integers, and WordRange is 2^32, the range a negative one would     *)
(* wrap into.                                                              *)
(***************************************************************************)
EXTENDS Integers, Sequences, FiniteSets

CONSTANTS WordRange, TopProcesses    \* 2^32; kTopProcessCount

ASSUME MetricsAssumption ==
  WordRange \in Nat /\ WordRange > 100 /\ TopProcesses \in Nat

AbsoluteZero == -273

\* Readings, as btop's collectors hand them over.
GpuReading ==
  [percent : Seq(Int), memoryUsed : Int, memoryTotal : Int, temperature : Seq(Int),
   encoder : Int, decoder : Int]
\* A number in the text that gives the frequency of the CPU: its digits, which std::stod
\* takes, whether a sign stands before them, and the unit after them.
FrequencyNumber == [minus : BOOLEAN, digits : Nat, unit : STRING]
Reading ==
  [hostname : STRING, frequency : Seq(FrequencyNumber), cpu : Seq(Int),
   cores : Seq(Seq(Int)), temperatures : Seq(Seq(Int)),
   memoryUsed : Int, memoryTotal : Int, swapUsed : Int, swapTotal : Int,
   gpus : Seq(GpuReading), load : Seq(Int), processes : Seq([cpu : Int, state : STRING])]

Range0(n, low, high) == IF n < low THEN low ELSE IF n > high THEN high ELSE n
Word(n) == n % WordRange

LastOrZero(values) == IF values = << >> THEN 0 ELSE values[Len(values)]

DetectHostname(name) == IF name = "" THEN "unknown-host" ELSE name

CastPercent(n) == Word(n)            \* mutant: a cast without a clamp
Percent(n) == Word(Range0(n, 0, 100))
NonNegative(n) == IF n < 0 THEN 0 ELSE n

\* scaleFrequencyMHz, to whole MHz; a unit may be in lower case as well.
Scaled(n, unit) ==
  CASE unit = "GHz" -> n * 1000
    [] unit = "kHz" -> n \div 1000
    [] unit = "Hz"  -> n \div 1000000
    [] unit \notin {"GHz", "kHz", "Hz"} -> n

\* parseFrequencyMHz: the first number counts, and a sign before it does not.
ParseFrequency(text) ==
  IF text = << >> THEN 0 ELSE Scaled(text[1].digits, text[1].unit)

\* An empty history of percentages leaves 0, an unknown total leaves its share 0.
GpuMetrics(g) ==
  [utilization |-> Percent(LastOrZero(g.percent)),
   memoryUsed |-> NonNegative(g.memoryUsed),
   memoryTotal |-> NonNegative(g.memoryTotal),
   memoryUtilization |->
     IF g.memoryTotal > 0 /\ g.memoryUsed >= 0
     THEN Percent((g.memoryUsed * 100) \div g.memoryTotal) ELSE 0,
   temperature |-> Word(NonNegative(LastOrZero(g.temperature))),
   encoder |-> Percent(g.encoder),
   decoder |-> Percent(g.decoder)]

InState(processes, s) ==
  Cardinality({ i \in DOMAIN processes : processes[i].state = s })

Smaller(m, n) == IF m < n THEN m ELSE n

\* MetricsCollector::collect, up to its call of validate.  The processes of a
\* reading are in the order of their ranking.
Collected(r, enableGpu) ==
  [hostname |-> DetectHostname(r.hostname),
   usage |-> LastOrZero(r.cpu),
   cores |-> [i \in DOMAIN r.cores |-> LastOrZero(r.cores[i])],
   temperature |-> IF r.temperatures = << >> THEN 0 ELSE LastOrZero(r.temperatures[1]),
   frequency |-> ParseFrequency(r.frequency),
   memoryUsed |-> r.memoryUsed, memoryTotal |-> r.memoryTotal,
   swapUsed |-> r.swapUsed, swapTotal |-> r.swapTotal,
   gpus |-> IF enableGpu THEN [i \in DOMAIN r.gpus |-> GpuMetrics(r.gpus[i])] ELSE << >>,
   total |-> Len(r.processes),
   running |-> InState(r.processes, "R"),
   sleeping |-> InState(r.processes, "S"),
   load |-> r.load,
   top |-> SubSeq(r.processes, 1, Smaller(TopProcesses, Len(r.processes))),
   all |-> r.processes]
-----------------------------------------------------------------------------
Outside(n) == n < 0 \/ n > 100

Validate(s) ==
  /\ s.hostname # ""
  /\ ~Outside(s.usage)
  /\ \A i \in DOMAIN s.cores : ~Outside(s.cores[i])
  /\ s.temperature >= AbsoluteZero
  /\ s.frequency >= 0
  /\ s.memoryUsed =< s.memoryTotal
  /\ s.swapUsed =< s.swapTotal
  /\ \A i \in DOMAIN s.gpus :
       /\ s.gpus[i].utilization =< 100 /\ s.gpus[i].memoryUtilization =< 100
       /\ s.gpus[i].memoryUsed =< s.gpus[i].memoryTotal
       /\ s.gpus[i].temperature >= AbsoluteZero
       /\ s.gpus[i].encoder =< 100 /\ s.gpus[i].decoder =< 100
  /\ s.running =< s.total /\ s.sleeping =< s.total
  /\ \A i \in DOMAIN s.load : s.load[i] >= 0
  /\ \A i \in DOMAIN s.top : s.top[i].cpu >= 0
  /\ \A i \in DOMAIN s.all : s.all[i].cpu >= 0

When(bad, reason) == IF bad THEN {reason} ELSE {}

GpuErrorsOfPercents(g) ==            \* mutant: a rule added to one of the two functions
  When(g.utilization > 100, "gpu utilization")
  \cup When(g.memoryUtilization > 100, "gpu memory utilization")

GpuErrors(g) ==
  When(g.utilization > 100, "gpu utilization")
  \cup When(g.memoryUtilization > 100, "gpu memory utilization")
  \cup When(g.memoryUsed > g.memoryTotal, "gpu memory used")
  \cup When(g.temperature < AbsoluteZero, "gpu temperature")
  \cup When(g.encoder > 100 \/ g.decoder > 100, "gpu encoder/decoder")

\* getValidationErrors, as the set of the rules it finds broken.
ValidationErrors(s) ==
  When(s.hostname = "", "hostname")
  \cup When(Outside(s.usage), "cpu usage")
  \cup When(\E i \in DOMAIN s.cores : Outside(s.cores[i]), "cpu core")
  \cup When(s.temperature < AbsoluteZero, "cpu temperature")
  \cup When(s.frequency < 0, "cpu frequency")
  \cup When(s.memoryUsed > s.memoryTotal, "memory used")
  \cup When(s.swapUsed > s.swapTotal, "swap used")
  \cup (UNION { GpuErrors(s.gpus[i]) : i \in DOMAIN s.gpus })
  \cup When(s.running > s.total, "running processes")
  \cup When(s.sleeping > s.total, "sleeping processes")
  \cup When(\E i \in DOMAIN s.load : s.load[i] < 0, "load")
  \cup When(\E i \in DOMAIN s.top : s.top[i].cpu < 0, "top process")
  \cup When(\E i \in DOMAIN s.all : s.all[i].cpu < 0, "process")

\* The rules a reading itself breaks, whatever is made of it: there is none among them
\* about what collect counts, clamps, parses or fills in.
Implausible(r) ==
  When(Outside(LastOrZero(r.cpu)), "cpu usage")
  \cup When(\E i \in DOMAIN r.cores : Outside(LastOrZero(r.cores[i])), "cpu core")
  \cup When(r.temperatures # << >> /\ LastOrZero(r.temperatures[1]) < AbsoluteZero,
            "cpu temperature")
  \cup When(r.memoryUsed > r.memoryTotal, "memory used")
  \cup When(r.swapUsed > r.swapTotal, "swap used")
  \cup When(\E i \in DOMAIN r.gpus : r.gpus[i].memoryUsed > r.gpus[i].memoryTotal,
            "gpu memory used")
  \cup When(\E i \in DOMAIN r.load : r.load[i] < 0, "load")
  \cup When(\E i \in DOMAIN r.processes : r.processes[i].cpu < 0, "top process")
  \cup When(\E i \in DOMAIN r.processes : r.processes[i].cpu < 0, "process")
=============================================================================
