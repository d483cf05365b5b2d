---------------------------- MODULE DaemonProofs ----------------------------
(***************************************************************************)
(* The processes of the agent, for any number of them, any readings, any   *)
(* configurations and files: what a process has from what it has read is   *)
(* the inductive invariant (DaemonInv of Daemon), and a sample is judged    *)
(* rule by rule.                                                           *)
(***************************************************************************)
EXTENDS Daemon, FiniteSetTheorems, TLAPS

(* What collect makes of a reading *)

\* A clamped percentage is none after the cast either.
LEMMA PercentFits ==
  ASSUME NEW n \in Int
  PROVE  Percent(n) \in 0 .. 100
<1>1. Range0(n, 0, 100) \in 0 .. 100
  BY DEF Range0
<1>2. \A x \in 0 .. 100 : x % WordRange = x
  BY MetricsAssumption
<1> QED
  BY <1>1, <1>2 DEF Percent, Word

\* A cast leaves a natural number.
LEMMA WordFits ==
  ASSUME NEW n \in Int
  PROVE  Word(n) \in Nat
BY MetricsAssumption DEF Word

\* The last of some numbers is a number.
LEMMA LastIsNumber ==
  ASSUME NEW values \in Seq(Int)
  PROVE  LastOrZero(values) \in Int
BY DEF LastOrZero

\* Of every GPU collect makes numbers that fit, whatever was measured.
GpuFits(g) ==
  /\ g.utilization \in 0 .. 100 /\ g.memoryUtilization \in 0 .. 100
  /\ g.encoder \in 0 .. 100 /\ g.decoder \in 0 .. 100
  /\ g.temperature \in Nat
  /\ g.memoryUsed \in Nat /\ g.memoryTotal \in Nat

\* GpuMetrics clamps and casts whatever it is given to numbers that fit.
LEMMA GpuMetricsFit ==
  ASSUME NEW g \in GpuReading
  PROVE  GpuFits(GpuMetrics(g))
<1>1. /\ g.percent \in Seq(Int) /\ g.temperature \in Seq(Int)
      /\ g.memoryUsed \in Int /\ g.memoryTotal \in Int
      /\ g.encoder \in Int /\ g.decoder \in Int
  BY DEF GpuReading
<1>2. Percent(LastOrZero(g.percent)) \in 0 .. 100
  BY <1>1, LastIsNumber, PercentFits
<1>3. g.memoryTotal > 0 => Percent((g.memoryUsed * 100) \div g.memoryTotal) \in 0 .. 100
  <2>1. g.memoryTotal > 0 => (g.memoryUsed * 100) \div g.memoryTotal \in Int
    BY <1>1
  <2> QED
    BY <2>1, PercentFits
<1>4. \A n \in Int : NonNegative(n) \in Nat
  BY DEF NonNegative
<1>5. Word(NonNegative(LastOrZero(g.temperature))) \in Nat
  <2>1. LastOrZero(g.temperature) \in Int
    BY <1>1, LastIsNumber
  <2>2. NonNegative(LastOrZero(g.temperature)) \in Int
    BY <1>4, <2>1
  <2> QED
    BY <2>2, WordFits
<1>6. Percent(g.encoder) \in 0 .. 100 /\ Percent(g.decoder) \in 0 .. 100
  BY <1>1, PercentFits
<1> QED
  <2> DEFINE m == GpuMetrics(g)
  <2>1. /\ m.utilization = Percent(LastOrZero(g.percent))
        /\ m.memoryUsed = NonNegative(g.memoryUsed)
        /\ m.memoryTotal = NonNegative(g.memoryTotal)
        /\ m.temperature = Word(NonNegative(LastOrZero(g.temperature)))
        /\ m.encoder = Percent(g.encoder) /\ m.decoder = Percent(g.decoder)
    BY DEF GpuMetrics
  <2>2. m.memoryUtilization \in 0 .. 100
    BY <1>1, <1>3 DEF GpuMetrics
  <2> HIDE DEF m
  <2>3. GpuFits(m)
    BY <1>1, <1>2, <1>4, <1>5, <1>6, <2>1, <2>2 DEF GpuFits
  <2> QED
    BY <2>3 DEF m

\* What is parsed of a frequency is none below zero, whatever sign is written there.
LEMMA FrequencyFits ==
  ASSUME NEW text \in Seq(FrequencyNumber)
  PROVE  ParseFrequency(text) \in Nat
<1>1. text # << >> => text[1].digits \in Nat
  <2>1. text # << >> => text[1] \in FrequencyNumber
    OBVIOUS
  <2> QED
    BY <2>1 DEF FrequencyNumber
<1>2. \A n \in Nat : n * 1000 \in Nat /\ n \div 1000 \in Nat /\ n \div 1000000 \in Nat
  OBVIOUS
<1>3. \A n \in Nat : \A unit : Scaled(n, unit) \in Nat
  BY <1>2 DEF Scaled
<1> QED
  BY <1>1, <1>3 DEF ParseFrequency

\* No more processes are in a state than there are.
LEMMA NoMoreThanAll ==
  ASSUME NEW S, NEW processes \in Seq(S), NEW s
  PROVE  /\ InState(processes, s) \in Nat
         /\ InState(processes, s) =< Len(processes)
<1>1. /\ DOMAIN processes = 1 .. Len(processes) /\ Len(processes) \in Nat
  OBVIOUS
<1>2. IsFiniteSet(1 .. Len(processes)) /\ Cardinality(1 .. Len(processes)) = Len(processes)
  BY <1>1, FS_Interval
<1> DEFINE I == { i \in DOMAIN processes : processes[i].state = s }
<1>3. I \subseteq 1 .. Len(processes)
  BY <1>1
<1> HIDE DEF I
<1>4. IsFiniteSet(I) /\ Cardinality(I) =< Cardinality(1 .. Len(processes))
  BY <1>2, <1>3, FS_Subset
<1>5. Cardinality(I) \in Nat
  BY <1>4, FS_CardinalityType
<1> QED
  BY <1>2, <1>4, <1>5 DEF I, InState

\* A sample as collect hands it to validate: what it has computed fits, what it has
\* only passed on is a number.
SampleFits(s) ==
  /\ s.hostname # ""
  /\ s.usage \in Int /\ s.temperature \in Int /\ s.frequency \in Nat
  /\ \A i \in DOMAIN s.cores : s.cores[i] \in Int
  /\ s.memoryUsed \in Int /\ s.memoryTotal \in Int
  /\ s.swapUsed \in Int /\ s.swapTotal \in Int
  /\ \A i \in DOMAIN s.gpus : GpuFits(s.gpus[i])
  /\ s.total \in Nat /\ s.running \in Nat /\ s.sleeping \in Nat
  /\ s.running =< s.total /\ s.sleeping =< s.total
  /\ \A i \in DOMAIN s.load : s.load[i] \in Int
  /\ \A i \in DOMAIN s.top : s.top[i].cpu \in Int
  /\ \A i \in DOMAIN s.all : s.all[i].cpu \in Int

\* So does collect, for any reading.
LEMMA CollectedFits ==
  ASSUME NEW r \in Reading, NEW gpu \in BOOLEAN
  PROVE  SampleFits(Collected(r, gpu))
<1> DEFINE Process == [cpu : Int, state : STRING]
           s == Collected(r, gpu)
<1>1. /\ r.cpu \in Seq(Int) /\ r.cores \in Seq(Seq(Int)) /\ r.temperatures \in Seq(Seq(Int))
      /\ r.memoryUsed \in Int /\ r.memoryTotal \in Int
      /\ r.swapUsed \in Int /\ r.swapTotal \in Int
      /\ r.gpus \in Seq(GpuReading) /\ r.load \in Seq(Int) /\ r.processes \in Seq(Process)
      /\ r.frequency \in Seq(FrequencyNumber)
  BY DEF Reading
<1>2. s.hostname # ""
  BY DEF Collected, DetectHostname
<1>3. s.usage \in Int
  BY <1>1, LastIsNumber DEF Collected
<1>4. s.temperature \in Int
  <2>1. r.temperatures # << >> => r.temperatures[1] \in Seq(Int)
    BY <1>1
  <2> QED
    BY <2>1, LastIsNumber DEF Collected
<1>5. \A i \in DOMAIN s.cores : s.cores[i] \in Int
  <2>1. /\ DOMAIN s.cores = DOMAIN r.cores
        /\ \A i \in DOMAIN r.cores : s.cores[i] = LastOrZero(r.cores[i])
    BY DEF Collected
  <2>2. \A i \in DOMAIN r.cores : r.cores[i] \in Seq(Int)
    BY <1>1
  <2> QED
    BY <2>1, <2>2, LastIsNumber
<1>6. /\ s.memoryUsed \in Int /\ s.memoryTotal \in Int
      /\ s.swapUsed \in Int /\ s.swapTotal \in Int
  BY <1>1 DEF Collected
<1>7. \A i \in DOMAIN s.gpus : GpuFits(s.gpus[i])
  <2>1. CASE gpu
    <3>1. /\ DOMAIN s.gpus = DOMAIN r.gpus
          /\ \A i \in DOMAIN r.gpus : s.gpus[i] = GpuMetrics(r.gpus[i])
      BY <2>1 DEF Collected
    <3>2. \A i \in DOMAIN r.gpus : r.gpus[i] \in GpuReading
      BY <1>1
    <3> QED
      BY <3>1, <3>2, GpuMetricsFit
  <2>2. CASE ~gpu
    BY <2>2 DEF Collected
  <2> QED
    BY <2>1, <2>2
<1>8. /\ s.total \in Nat /\ s.running \in Nat /\ s.sleeping \in Nat
      /\ s.running =< s.total /\ s.sleeping =< s.total
  <2>1. /\ s.total = Len(r.processes)
        /\ s.running = InState(r.processes, "R") /\ s.sleeping = InState(r.processes, "S")
    BY DEF Collected
  <2>2. Len(r.processes) \in Nat
    BY <1>1
  <2> QED
    BY <1>1, <2>1, <2>2, NoMoreThanAll
<1>9. \A i \in DOMAIN s.load : s.load[i] \in Int
  BY <1>1 DEF Collected
<1>10. \A i \in DOMAIN s.all : s.all[i].cpu \in Int
  <2>1. s.all = r.processes
    BY DEF Collected
  <2>2. \A i \in DOMAIN r.processes : r.processes[i] \in Process
    <3> HIDE DEF Process
    <3> QED
      BY <1>1
  <2> QED
    BY <2>1, <2>2
<1>11. \A i \in DOMAIN s.top : s.top[i].cpu \in Int
  <2>1. Smaller(TopProcesses, Len(r.processes)) \in 0 .. Len(r.processes)
    BY <1>1, MetricsAssumption DEF Smaller
  <2>2. s.top = SubSeq(r.processes, 1, Smaller(TopProcesses, Len(r.processes)))
    BY DEF Collected
  <2>3. \A i \in DOMAIN s.top : s.top[i] \in Process
    <3> HIDE DEF Process, s
    <3> QED
      BY <1>1, <2>1, <2>2
  <2> QED
    BY <2>3
<1>13. s.frequency \in Nat
  BY <1>1, FrequencyFits DEF Collected
<1> HIDE DEF s
<1>12. SampleFits(s)
  BY <1>13, <1>2, <1>3, <1>4, <1>5, <1>6, <1>7, <1>8, <1>9, <1>10, <1>11 DEF SampleFits
<1> QED
  BY <1>12 DEF s

(* The two judges *)

\* A rule that is not broken gives no reason, one that is gives its own.
LEMMA NoReason ==
  ASSUME NEW bad \in BOOLEAN, NEW reason
  PROVE  When(bad, reason) = {} <=> ~bad
BY DEF When

\* The rules for a GPU are the same in both judges.
LEMMA GpuJudgesAgree ==
  ASSUME NEW g, GpuFits(g)
  PROVE  GpuErrors(g) = {} <=>
           /\ g.utilization =< 100 /\ g.memoryUtilization =< 100
           /\ g.memoryUsed =< g.memoryTotal
           /\ g.temperature >= AbsoluteZero
           /\ g.encoder =< 100 /\ g.decoder =< 100
<1>1. /\ g.utilization > 100 <=> ~(g.utilization =< 100)
      /\ g.memoryUtilization > 100 <=> ~(g.memoryUtilization =< 100)
      /\ g.memoryUsed > g.memoryTotal <=> ~(g.memoryUsed =< g.memoryTotal)
      /\ g.temperature < AbsoluteZero <=> ~(g.temperature >= AbsoluteZero)
      /\ (g.encoder > 100 \/ g.decoder > 100) <=> ~(g.encoder =< 100 /\ g.decoder =< 100)
  BY DEF GpuFits, AbsoluteZero
<1> QED
  BY <1>1 DEF GpuErrors, When

\* Each rule of validate is one of getValidationErrors, and the other way round.
LEMMA JudgesAgree ==
  ASSUME NEW s, SampleFits(s)
  PROVE  Validate(s) <=> ValidationErrors(s) = {}
<1>t. /\ s.temperature \in Int /\ s.frequency \in Nat
      /\ s.memoryUsed \in Int /\ s.memoryTotal \in Int
      /\ s.swapUsed \in Int /\ s.swapTotal \in Int
      /\ s.running \in Nat /\ s.sleeping \in Nat /\ s.total \in Nat
  BY DEF SampleFits
<1>1. /\ s.temperature < AbsoluteZero <=> ~(s.temperature >= AbsoluteZero)
      /\ s.frequency < 0 <=> ~(s.frequency >= 0)
      /\ s.memoryUsed > s.memoryTotal <=> ~(s.memoryUsed =< s.memoryTotal)
      /\ s.swapUsed > s.swapTotal <=> ~(s.swapUsed =< s.swapTotal)
      /\ s.running > s.total <=> ~(s.running =< s.total)
      /\ s.sleeping > s.total <=> ~(s.sleeping =< s.total)
  BY <1>t DEF AbsoluteZero
<1>2. /\ (\E i \in DOMAIN s.load : s.load[i] < 0) <=> ~\A i \in DOMAIN s.load : s.load[i] >= 0
      /\ (\E i \in DOMAIN s.top : s.top[i].cpu < 0)
           <=> ~\A i \in DOMAIN s.top : s.top[i].cpu >= 0
      /\ (\E i \in DOMAIN s.all : s.all[i].cpu < 0)
           <=> ~\A i \in DOMAIN s.all : s.all[i].cpu >= 0
  <2>1. /\ \A i \in DOMAIN s.load : s.load[i] \in Int
        /\ \A i \in DOMAIN s.top : s.top[i].cpu \in Int
        /\ \A i \in DOMAIN s.all : s.all[i].cpu \in Int
    BY Zenon DEF SampleFits
  <2> QED
    BY <2>1
<1>3. (UNION { GpuErrors(s.gpus[i]) : i \in DOMAIN s.gpus } = {}) <=>
      \A i \in DOMAIN s.gpus :
        /\ s.gpus[i].utilization =< 100 /\ s.gpus[i].memoryUtilization =< 100
        /\ s.gpus[i].memoryUsed =< s.gpus[i].memoryTotal
        /\ s.gpus[i].temperature >= AbsoluteZero
        /\ s.gpus[i].encoder =< 100 /\ s.gpus[i].decoder =< 100
  <2>1. (UNION { GpuErrors(s.gpus[i]) : i \in DOMAIN s.gpus } = {})
          <=> \A i \in DOMAIN s.gpus : GpuErrors(s.gpus[i]) = {}
    OBVIOUS
  <2> QED
    BY <2>1, GpuJudgesAgree DEF SampleFits
<1> DEFINE gpuErrors == UNION { GpuErrors(s.gpus[i]) : i \in DOMAIN s.gpus }
<1>4. ValidationErrors(s) = {} <=>
        /\ ~(s.hostname = "") /\ ~Outside(s.usage)
        /\ ~\E i \in DOMAIN s.cores : Outside(s.cores[i])
        /\ ~(s.temperature < AbsoluteZero) /\ ~(s.frequency < 0)
        /\ ~(s.memoryUsed > s.memoryTotal) /\ ~(s.swapUsed > s.swapTotal)
        /\ gpuErrors = {}
        /\ ~(s.running > s.total) /\ ~(s.sleeping > s.total)
        /\ ~\E i \in DOMAIN s.load : s.load[i] < 0
        /\ ~\E i \in DOMAIN s.top : s.top[i].cpu < 0
        /\ ~\E i \in DOMAIN s.all : s.all[i].cpu < 0
  <2> DEFINE
        core == \E i \in DOMAIN s.cores : Outside(s.cores[i])
        load == \E i \in DOMAIN s.load : s.load[i] < 0
        top  == \E i \in DOMAIN s.top : s.top[i].cpu < 0
        all  == \E i \in DOMAIN s.all : s.all[i].cpu < 0
  <2>1. ValidationErrors(s) =
          When(s.hostname = "", "hostname") \cup When(Outside(s.usage), "cpu usage")
          \cup When(core, "cpu core") \cup When(s.temperature < AbsoluteZero, "cpu temperature")
          \cup When(s.frequency < 0, "cpu frequency")
          \cup When(s.memoryUsed > s.memoryTotal, "memory used")
          \cup When(s.swapUsed > s.swapTotal, "swap used")
          \cup gpuErrors
          \cup When(s.running > s.total, "running processes")
          \cup When(s.sleeping > s.total, "sleeping processes")
          \cup When(load, "load") \cup When(top, "top process") \cup When(all, "process")
    BY DEF ValidationErrors
  <2> HIDE DEF gpuErrors, core, load, top, all
  <2>2. ValidationErrors(s) = {} <=>
          /\ When(s.hostname = "", "hostname") = {} /\ When(Outside(s.usage), "cpu usage") = {}
          /\ When(core, "cpu core") = {}
          /\ When(s.temperature < AbsoluteZero, "cpu temperature") = {}
          /\ When(s.frequency < 0, "cpu frequency") = {}
          /\ When(s.memoryUsed > s.memoryTotal, "memory used") = {}
          /\ When(s.swapUsed > s.swapTotal, "swap used") = {}
          /\ gpuErrors = {}
          /\ When(s.running > s.total, "running processes") = {}
          /\ When(s.sleeping > s.total, "sleeping processes") = {}
          /\ When(load, "load") = {} /\ When(top, "top process") = {}
          /\ When(all, "process") = {}
    BY <2>1, Zenon
  <2>3. \A bad \in BOOLEAN : \A reason : When(bad, reason) = {} <=> ~bad
    BY NoReason
  <2>4. {core, load, top, all} \subseteq BOOLEAN
    BY DEF core, load, top, all
  <2> QED
    BY <2>2, <2>3, <2>4, Zenon DEF core, load, top, all, When
<1> QED
  BY <1>1, <1>2, <1>3, <1>4 DEF Validate

\* Clamping keeps the order: of a GPU only the use of its memory can be out of place, and
\* then it was when it was measured.
LEMMA GpuErrorsAreMeasured ==
  ASSUME NEW g \in GpuReading
  PROVE  /\ GpuErrors(GpuMetrics(g)) \subseteq {"gpu memory used"}
         /\ GpuErrors(GpuMetrics(g)) # {} => g.memoryUsed > g.memoryTotal
<1> DEFINE m == GpuMetrics(g)
<1>1. /\ m.memoryUsed = NonNegative(g.memoryUsed)
      /\ m.memoryTotal = NonNegative(g.memoryTotal)
  BY DEF GpuMetrics
<1>2. g.memoryUsed \in Int /\ g.memoryTotal \in Int
  BY DEF GpuReading
<1>3. m.memoryUsed > m.memoryTotal => g.memoryUsed > g.memoryTotal
  BY <1>1, <1>2 DEF NonNegative
<1>4. GpuFits(m)
  BY GpuMetricsFit
<1> HIDE DEF m
<1>5. /\ ~(m.utilization > 100) /\ ~(m.memoryUtilization > 100)
      /\ ~(m.temperature < AbsoluteZero) /\ ~(m.encoder > 100 \/ m.decoder > 100)
  BY <1>4 DEF GpuFits, AbsoluteZero
<1>6. GpuErrors(m) = When(m.memoryUsed > m.memoryTotal, "gpu memory used")
  BY <1>5 DEF GpuErrors, When
<1> QED
  BY <1>3, <1>6 DEF When, m

\* A rule that a sample breaks its reading breaks already.
LEMMA OnlyMeasuredErrors ==
  ASSUME NEW r \in Reading, NEW gpu \in BOOLEAN
  PROVE  ValidationErrors(Collected(r, gpu)) \subseteq Implausible(r)
<1> DEFINE Process == [cpu : Int, state : STRING]
           s == Collected(r, gpu)
<1>1. SampleFits(s)
  BY CollectedFits
<1>2. r.gpus \in Seq(GpuReading) /\ r.processes \in Seq(Process)
  BY DEF Reading
<1>3. /\ s.usage = LastOrZero(r.cpu)
      /\ s.temperature = IF r.temperatures = << >> THEN 0 ELSE LastOrZero(r.temperatures[1])
      /\ s.memoryUsed = r.memoryUsed /\ s.memoryTotal = r.memoryTotal
      /\ s.swapUsed = r.swapUsed /\ s.swapTotal = r.swapTotal
      /\ s.load = r.load /\ s.all = r.processes
  BY DEF Collected
<1>4. /\ DOMAIN s.cores = DOMAIN r.cores
      /\ \A i \in DOMAIN s.cores : s.cores[i] = LastOrZero(r.cores[i])
  BY DEF Collected
<1>5. \A i \in DOMAIN s.gpus : GpuErrors(s.gpus[i]) \subseteq Implausible(r)
  <2>1. CASE gpu
    <3>1. /\ DOMAIN s.gpus = DOMAIN r.gpus
          /\ \A i \in DOMAIN r.gpus : s.gpus[i] = GpuMetrics(r.gpus[i])
      BY <2>1 DEF Collected
    <3>2. \A i \in DOMAIN r.gpus : r.gpus[i] \in GpuReading
      BY <1>2
    <3> HIDE DEF s
    <3>3. ASSUME NEW i \in DOMAIN s.gpus, GpuErrors(s.gpus[i]) # {}
          PROVE  "gpu memory used" \in Implausible(r)
      <4>1. r.gpus[i].memoryUsed > r.gpus[i].memoryTotal
        BY <3>1, <3>2, <3>3, GpuErrorsAreMeasured
      <4>2. \E n \in DOMAIN r.gpus : r.gpus[n].memoryUsed > r.gpus[n].memoryTotal
        BY <3>1, <4>1
      <4> QED
        BY <4>2 DEF Implausible, When
    <3> QED
      BY <3>1, <3>2, <3>3, GpuErrorsAreMeasured
  <2>2. CASE ~gpu
    BY <2>2 DEF Collected
  <2> QED
    BY <2>1, <2>2
<1>6. \A i \in DOMAIN s.top : i \in DOMAIN r.processes /\ s.top[i] = r.processes[i]
  <2>1. Smaller(TopProcesses, Len(r.processes)) \in 0 .. Len(r.processes)
    BY <1>2, MetricsAssumption DEF Smaller
  <2>2. s.top = SubSeq(r.processes, 1, Smaller(TopProcesses, Len(r.processes)))
    BY DEF Collected
  <2> HIDE DEF s, Process
  <2> QED
    BY <1>2, <2>1, <2>2
<1> HIDE DEF s
<1>7. ~(s.hostname = "") /\ ~(s.running > s.total) /\ ~(s.sleeping > s.total)
      /\ ~(s.frequency < 0)
  <2>1. ~(s.hostname = "")
    BY <1>1 DEF SampleFits
  <2>2. /\ s.running \in Nat /\ s.total \in Nat /\ s.running =< s.total
        /\ s.frequency \in Nat
    BY <1>1 DEF SampleFits
  <2>3. s.sleeping \in Nat /\ s.sleeping =< s.total
    BY <1>1 DEF SampleFits
  <2>4. ~(s.running > s.total) /\ ~(s.sleeping > s.total) /\ ~(s.frequency < 0)
    BY <2>2, <2>3
  <2> QED
    BY <2>1, <2>4, Zenon
<1>8. s.temperature < AbsoluteZero =>
        r.temperatures # << >> /\ LastOrZero(r.temperatures[1]) < AbsoluteZero
  BY <1>3 DEF AbsoluteZero
<1>9. /\ (\E i \in DOMAIN s.cores : Outside(s.cores[i]))
           => \E i \in DOMAIN r.cores : Outside(LastOrZero(r.cores[i]))
      /\ (\E i \in DOMAIN s.top : s.top[i].cpu < 0)
           => \E i \in DOMAIN r.processes : r.processes[i].cpu < 0
      /\ (\E i \in DOMAIN s.all : s.all[i].cpu < 0)
           => \E i \in DOMAIN r.processes : r.processes[i].cpu < 0
  BY <1>3, <1>4, <1>6
<1>10. ASSUME NEW e \in ValidationErrors(s) PROVE e \in Implausible(r)
  <2> DEFINE
        core  == \E i \in DOMAIN s.cores : Outside(s.cores[i])
        load  == \E i \in DOMAIN s.load : s.load[i] < 0
        top   == \E i \in DOMAIN s.top : s.top[i].cpu < 0
        all   == \E i \in DOMAIN s.all : s.all[i].cpu < 0
        coreR == \E i \in DOMAIN r.cores : Outside(LastOrZero(r.cores[i]))
        hotR  == r.temperatures # << >> /\ LastOrZero(r.temperatures[1]) < AbsoluteZero
        procR == \E i \in DOMAIN r.processes : r.processes[i].cpu < 0
        loadR == \E i \in DOMAIN r.load : r.load[i] < 0
        gpuErrors == UNION { GpuErrors(s.gpus[i]) : i \in DOMAIN s.gpus }
  <2>1. ValidationErrors(s) =
          When(s.hostname = "", "hostname") \cup When(Outside(s.usage), "cpu usage")
          \cup When(core, "cpu core") \cup When(s.temperature < AbsoluteZero, "cpu temperature")
          \cup When(s.frequency < 0, "cpu frequency")
          \cup When(s.memoryUsed > s.memoryTotal, "memory used")
          \cup When(s.swapUsed > s.swapTotal, "swap used")
          \cup gpuErrors
          \cup When(s.running > s.total, "running processes")
          \cup When(s.sleeping > s.total, "sleeping processes")
          \cup When(load, "load") \cup When(top, "top process") \cup When(all, "process")
    BY DEF ValidationErrors
  <2>2. /\ When(Outside(LastOrZero(r.cpu)), "cpu usage") \subseteq Implausible(r)
        /\ When(coreR, "cpu core") \subseteq Implausible(r)
        /\ When(hotR, "cpu temperature") \subseteq Implausible(r)
        /\ When(r.memoryUsed > r.memoryTotal, "memory used") \subseteq Implausible(r)
        /\ When(r.swapUsed > r.swapTotal, "swap used") \subseteq Implausible(r)
        /\ When(loadR, "load") \subseteq Implausible(r)
        /\ When(procR, "top process") \subseteq Implausible(r)
        /\ When(procR, "process") \subseteq Implausible(r)
    BY Zenon DEF Implausible
  <2>3. /\ Outside(s.usage) = Outside(LastOrZero(r.cpu))
        /\ s.temperature < AbsoluteZero => hotR
        /\ core => coreR
        /\ top => procR
        /\ all => procR
        /\ load => loadR
    BY <1>3, <1>8, <1>9
  <2>4. /\ s.memoryUsed = r.memoryUsed /\ s.memoryTotal = r.memoryTotal
        /\ s.swapUsed = r.swapUsed /\ s.swapTotal = r.swapTotal
    BY <1>3
  <2>5. gpuErrors \subseteq Implausible(r)
    BY <1>5, Zenon DEF gpuErrors
  <2> HIDE DEF core, load, top, all, coreR, hotR, procR, loadR, gpuErrors
  <2>6. \A bad, worse : (bad => worse) =>
          \A reason : e \in When(bad, reason) => e \in When(worse, reason)
    BY Zenon DEF When
  <2>7. \A bad, reason : ~bad => e \notin When(bad, reason)
    BY Zenon DEF When
  <2>8. /\ e \notin When(s.hostname = "", "hostname") /\ e \notin When(s.frequency < 0, "cpu frequency")
        /\ e \notin When(s.running > s.total, "running processes")
        /\ e \notin When(s.sleeping > s.total, "sleeping processes")
    BY <1>7, <2>7, Zenon
  <2>9. /\ e \in When(Outside(s.usage), "cpu usage") => e \in Implausible(r)
        /\ e \in When(s.memoryUsed > s.memoryTotal, "memory used") => e \in Implausible(r)
        /\ e \in When(s.swapUsed > s.swapTotal, "swap used") => e \in Implausible(r)
    BY <1>3, <2>2, <2>4, Zenon
  <2>10. e \in When(s.temperature < AbsoluteZero, "cpu temperature") => e \in Implausible(r)
    BY <2>2, <2>3, <2>6, Zenon
  <2>11. /\ e \in When(core, "cpu core") => e \in Implausible(r)
         /\ e \in When(load, "load") => e \in Implausible(r)
    BY <2>2, <2>3, <2>6, Zenon
  <2>12. /\ e \in When(top, "top process") => e \in Implausible(r)
         /\ e \in When(all, "process") => e \in Implausible(r)
    BY <2>2, <2>3, <2>6, Zenon
  <2> QED
    BY <1>10, <2>1, <2>5, <2>8, <2>9, <2>10, <2>11, <2>12, Zenon
<1> QED
  BY <1>10 DEF s

(* What the parser makes of a file *)

\* Positions in a list have a first one.
LEMMA FirstPosition ==
  ASSUME NEW last \in Nat, NEW list \in SUBSET (1 .. last), list # {}
  PROVE  Min(list) \in list
<1> DEFINE Below == { p \in Nat \X Nat : p[1] < p[2] }
<1>1. IsWellFoundedOn(Below, Nat)
  BY NatLessThanWellFounded DEF OpToRel
<1>2. list \subseteq Nat
  OBVIOUS
<1> HIDE DEF Below
<1>3. PICK a \in list : \A b \in list : ~(<<b, a>> \in Below)
  BY <1>1, <1>2, WFMin
<1>4. ASSUME NEW b \in list PROVE a =< b
  <2>1. a \in Nat /\ b \in Nat /\ ~(b < a)
    BY <1>2, <1>3 DEF Below
  <2> QED
    BY <2>1
<1> QED
  BY <1>4 DEF Min

\* They have a last one.
LEMMA LastPosition ==
  ASSUME NEW last \in Nat, NEW list \in SUBSET (1 .. last), list # {}
  PROVE  Max(list) \in list
<1> DEFINE Below == { p \in Nat \X Nat : p[1] < p[2] }
           T     == { last - x : x \in list }
<1>1. IsWellFoundedOn(Below, Nat)
  BY NatLessThanWellFounded DEF OpToRel
<1>3. \A x \in list : last - x \in T
  OBVIOUS
<1>2. T \subseteq Nat /\ T # {}
  <2>1. \A x \in list : x \in 1 .. last /\ last - x \in Nat
    OBVIOUS
  <2> QED
    BY <1>3, <2>1
<1>4. \A t \in T : \E x \in list : t = last - x
  OBVIOUS
<1> HIDE DEF Below, T
<1>5. PICK t \in T : \A u \in T : ~(<<u, t>> \in Below)
  BY <1>1, <1>2, WFMin
<1>6. PICK a \in list : t = last - a
  BY <1>4
<1>7. ASSUME NEW b \in list PROVE a >= b
  <2>1. a \in 1 .. last /\ b \in 1 .. last /\ ~(last - b < last - a)
    BY <1>2, <1>3, <1>5, <1>6 DEF Below
  <2> QED
    BY <2>1
<1> QED
  BY <1>7 DEF Max

\* The number a value has at its beginning.
LEMMA OneNumber ==
  ASSUME NEW n \in Int
  PROVE  Min({n}) = n
BY DEF Min

\* A remainder is narrower than the field it is put into.
LEMMA Narrowed ==
  ASSUME NEW k \in Numbers, NEW n \in Int
  PROVE  /\ n % Limit(k) \in 0 .. (WordLimit - 1)
         /\ k = "server_port" => n % Limit(k) \in 0 .. (PortLimit - 1)
BY WidthsAssumption DEF Limit

\* The members of ClientConfig are initialised with values that fit.
LEMMA DefaultsFit == IsClientConfig(Defaults)
BY WidthsAssumption DEF IsClientConfig, Defaults, Keys, Texts, Numbers, Flags

\* The keys of each type are those of no other.
LEMMA KindsOfKeys ==
  /\ "server_port" \in Numbers /\ "enable_gpu" \in Flags /\ Numbers \subseteq Keys
  /\ \A k \in Numbers : k \notin Texts /\ k \notin Flags
  /\ \A k \in Flags : k \notin Texts
BY DEF Keys, Texts, Numbers, Flags

\* What a JSON document gives fits the fields, whatever numbers it has.
LEMMA JsonFits ==
  ASSUME NEW f, IsFile(f)
  PROVE  IsClientConfig(ParseJson(f))
<1>1. ASSUME NEW k \in Numbers
      PROVE  /\ ParseJson(f)[k] \in 0 .. (WordLimit - 1)
             /\ k = "server_port" => ParseJson(f)[k] \in 0 .. (PortLimit - 1)
  <2> DEFINE found == Matches(f, k)
             v == f.entries[Min(found)].value
  <2>0. k \in Keys
    BY KindsOfKeys
  <2>1. CASE found = {}
    <3>1. ParseJson(f)[k] = Defaults[k]
      BY <2>0, <2>1 DEF ParseJson
    <3> QED
      BY <3>1, DefaultsFit DEF IsClientConfig
  <2>2. CASE found # {}
    <3>1. Len(f.entries) \in Nat /\ found \in SUBSET (1 .. Len(f.entries))
      BY DEF IsFile, Matches
    <3>2. Min(found) \in found
      <4> HIDE DEF found
      <4> QED
        BY <2>2, <3>1, FirstPosition
    <3>3. Min(found) \in DOMAIN f.entries /\ JsonUsable(k, v)
      BY <3>2 DEF Matches
    <3> HIDE DEF found
    <3>4. \E n \in v.num : n >= 0
      BY <3>3, KindsOfKeys DEF JsonUsable
    <3>5. PICK n \in v.num : n \in Int /\ v.num = {n}
      BY <3>3, <3>4 DEF IsFile
    <3>6. ParseJson(f)[k] = JsonValue(k, v)
      BY <2>0, <2>2 DEF ParseJson, found
    <3>7. JsonValue(k, v) = n % Limit(k)
      BY <3>5, OneNumber, KindsOfKeys DEF JsonValue
    <3> QED
      BY <3>5, <3>6, <3>7, Narrowed
  <2> QED
    BY <2>1, <2>2
<1>2. DOMAIN ParseJson(f) = Keys
  BY DEF ParseJson
<1>3. ParseJson(f).enable_gpu \in BOOLEAN
  <2> DEFINE k == "enable_gpu"
             found == Matches(f, k)
             v == f.entries[Min(found)].value
  <2>1. k \in Keys /\ k \in Flags /\ k \notin Texts /\ k \notin Numbers
    BY KindsOfKeys DEF Keys
  <2> HIDE DEF k
  <2>2. ParseJson(f)[k] = IF found = {} THEN Defaults[k] ELSE JsonValue(k, v)
    BY <2>1 DEF ParseJson
  <2> HIDE DEF found, v
  <2>3. JsonValue(k, v) \in BOOLEAN
    BY <2>1 DEF JsonValue
  <2>4. Defaults[k] \in BOOLEAN
    BY DefaultsFit DEF IsClientConfig, k
  <2> QED
    BY <2>2, <2>3, <2>4 DEF k
<1> QED
  BY <1>1, <1>2, <1>3, KindsOfKeys DEF IsClientConfig

\* So does what lines give, also where a number is negative.
LEMMA LinesFit ==
  ASSUME NEW f, IsFile(f)
  PROVE  IsClientConfig(ParseKeyValue(f))
<1>1. ASSUME NEW k \in Numbers
      PROVE  /\ ParseKeyValue(f)[k] \in 0 .. (WordLimit - 1)
             /\ k = "server_port" => ParseKeyValue(f)[k] \in 0 .. (PortLimit - 1)
  <2> DEFINE found == Assignments(f, k)
             v == f.entries[Max(found)].value
  <2>0. k \in Keys
    BY KindsOfKeys
  <2>1. CASE f.json \/ found = {}
    <3>1. ParseKeyValue(f)[k] = Defaults[k]
      BY <2>0, <2>1 DEF ParseKeyValue
    <3> QED
      BY <3>1, DefaultsFit DEF IsClientConfig
  <2>2. CASE ~(f.json \/ found = {})
    <3>1. Len(f.entries) \in Nat /\ found \in SUBSET (1 .. Len(f.entries))
      BY DEF IsFile, Assignments
    <3>2. Max(found) \in found
      <4> HIDE DEF found
      <4> QED
        BY <2>2, <3>1, LastPosition
    <3>3. Max(found) \in DOMAIN f.entries /\ LineUsable(k, v)
      BY <3>2 DEF Assignments
    <3> HIDE DEF found
    <3>4. \E n \in v.num : n < LongLimit
      BY <3>3 DEF LineUsable
    <3>5. PICK n \in v.num : n \in Int /\ v.num = {n}
      BY <3>3, <3>4 DEF IsFile
    <3>6. ParseKeyValue(f)[k] = LineValue(k, v)
      BY <2>0, <2>2 DEF ParseKeyValue, found
    <3>7. LineValue(k, v) = (n % LongLimit) % Limit(k)
      BY <3>5, OneNumber, KindsOfKeys DEF LineValue
    <3>8. n % LongLimit \in Int
      BY <3>5, WidthsAssumption
    <3> QED
      BY <3>6, <3>7, <3>8, Narrowed
  <2> QED
    BY <2>1, <2>2
<1>2. DOMAIN ParseKeyValue(f) = Keys
  BY DEF ParseKeyValue
<1>3. ParseKeyValue(f).enable_gpu \in BOOLEAN
  <2> DEFINE k == "enable_gpu"
             found == Assignments(f, k)
             v == f.entries[Max(found)].value
  <2>1. k \in Keys /\ k \in Flags /\ k \notin Texts /\ k \notin Numbers
    BY KindsOfKeys DEF Keys
  <2> HIDE DEF k
  <2>2. ParseKeyValue(f)[k] = IF f.json \/ found = {} THEN Defaults[k] ELSE LineValue(k, v)
    BY <2>1 DEF ParseKeyValue
  <2> HIDE DEF found, v
  <2>3. LineValue(k, v) \in BOOLEAN
    BY <2>1 DEF LineValue
  <2>4. Defaults[k] \in BOOLEAN
    BY DefaultsFit DEF IsClientConfig, k
  <2> QED
    BY <2>2, <2>3, <2>4 DEF k
<1> QED
  BY <1>1, <1>2, <1>3, KindsOfKeys DEF IsClientConfig

(* The files, and what is read from them *)

\* A writer puts down every key, each once.
LEMMA KeysInOrder ==
  /\ DOMAIN KeyOrder = 1 .. 11
  /\ \A i \in 1 .. 11 : KeyOrder[i] \in Keys
BY DEF KeyOrder, Keys, Texts, Numbers, Flags

\* What is written has numbers that fit where a number is due.
LEMMA EntriesFit ==
  ASSUME NEW c, \A k \in Numbers : c[k] \in Int, NEW f, f.entries = Entries(c)
  PROVE  IsFile(f)
<1>1. f.entries = [i \in 1 .. 11 |-> [key |-> KeyOrder[i], value |-> Value(c, KeyOrder[i])]]
  BY KeysInOrder DEF Entries
<1>2. /\ DOMAIN f.entries = 1 .. 11 /\ Len(f.entries) = 11
      /\ \A i \in 1 .. 11 : f.entries[i].value = Value(c, KeyOrder[i])
  BY <1>1
<1>3. ASSUME NEW k \in Keys
      PROVE  Value(c, k).num = {} \/ (c[k] \in Int /\ Value(c, k).num = {c[k]})
  <2>1. CASE k \in Texts
    BY <2>1, KindsOfKeys DEF Value, Text
  <2>2. CASE k \in Numbers
    BY <2>2, KindsOfKeys DEF Value, Number
  <2>3. CASE k \in Flags
    BY <2>3, KindsOfKeys DEF Value, Flag
  <2> QED
    BY <2>1, <2>2, <2>3 DEF Keys
<1>4. ASSUME NEW i \in DOMAIN f.entries
      PROVE  \/ f.entries[i].value.num = {}
             \/ \E n \in f.entries[i].value.num :
                  n \in Int /\ f.entries[i].value.num = {n}
  BY <1>2, <1>3, KeysInOrder
<1>5. Len(f.entries) \in Nat /\ DOMAIN f.entries = 1 .. Len(f.entries)
  BY <1>2
<1> QED
  BY <1>4, <1>5, Zenon DEF IsFile

\* What a writer puts down for the configuration c: a text without a character that is
\* escaped goes down as it is.
WrittenFor(c, d) ==
  /\ \A k \in Numbers : d[k] \in Int
  /\ \A k \in Texts : IsText(d[k])
  /\ \A k \in Keys : (k \in Texts => Plain(c[k])) => d[k] = c[k]

\* A plain text has no quote, and json.dumps leaves it alone.
LEMMA PlainIsKept ==
  ASSUME NEW w, IsText(w)
  PROVE  /\ IsText(Escaped(w))
         /\ Plain(w) => Quotes(w) = {} /\ UpToQuote(w) = w /\ Escaped(w) = w
<1>1. DOMAIN w = 1 .. Len(w) /\ Len(w) \in Nat /\ w = [i \in 1 .. Len(w) |-> w[i]]
  BY DEF IsText
<1>2. DOMAIN Escape = {Quote, Backslash, Foreign}
  BY DEF Escape
<1>3. Escaped(w) = [i \in 1 .. Len(w) |-> IF w[i] \in DOMAIN Escape THEN Escape[w[i]] ELSE w[i]]
  BY <1>1 DEF Escaped
<1>4. IsText(Escaped(w))
  BY <1>1, <1>3 DEF IsText
<1>5. ASSUME Plain(w) PROVE Quotes(w) = {} /\ Escaped(w) = w
  <2>1. \A i \in 1 .. Len(w) : w[i] \notin DOMAIN Escape /\ w[i] # Escape[Quote]
    BY <1>1, <1>5 DEF Plain
  <2>2. Quotes(w) = {}
    BY <1>1, <1>2, <2>1 DEF Quotes
  <2>3. Escaped(w) = [i \in 1 .. Len(w) |-> w[i]]
    BY <1>3, <2>1
  <2> QED
    BY <1>1, <2>2, <2>3
<1>6. Quotes(w) = {} => UpToQuote(w) = w
  BY DEF UpToQuote
<1> QED
  BY <1>4, <1>5, <1>6

\* Both writers put down what fits.
LEMMA WritersFit ==
  ASSUME NEW c \in Configs, NEW d \in {c, EscapedTexts(c)}
  PROVE  WrittenFor(c, d)
<1>1. /\ \A k \in Numbers : c[k] \in Int
      /\ \A k \in Texts : IsText(c[k])
  BY DaemonAssumption, WidthsAssumption DEF IsClientConfig
<1>2. CASE d = c
  BY <1>1, <1>2 DEF WrittenFor
<1>3. CASE d = EscapedTexts(c)
  <2>1. /\ \A k \in Texts : d[k] = Escaped(c[k])
        /\ \A k \in Keys : k \notin Texts => d[k] = c[k]
    BY <1>3, KindsOfKeys DEF EscapedTexts, Keys
  <2>2. \A k \in Numbers : d[k] \in Int
    BY <1>1, <2>1, KindsOfKeys
  <2>3. \A k \in Texts : IsText(d[k]) /\ (Plain(c[k]) => d[k] = c[k])
    BY <1>1, <2>1, PlainIsKept
  <2> QED
    BY <2>1, <2>2, <2>3 DEF WrittenFor
<1> QED
  BY <1>2, <1>3

\* What the two writers write is a file the parser can read.
LEMMA WrittenFits ==
  ASSUME NEW f \in Written
  PROVE  \E c \in Configs : \E d \in {c, EscapedTexts(c)} :
           /\ f = Whole(GenerateJson(d), c)
           /\ f.is = "whole" /\ f.meant = c
           /\ f.content = [json |-> TRUE, closed |-> TRUE, entries |-> Entries(d)]
           /\ WrittenFor(c, d) /\ IsFile(f.content)
<1>1. PICK c \in Configs :
        \E g \in {GenerateJson(c), InstallerFile(c)} : f = Whole(g, c)
  BY DEF Written
<1>2. PICK d \in {c, EscapedTexts(c)} : f = Whole(GenerateJson(d), c)
  BY <1>1 DEF InstallerFile
<1>3. WrittenFor(c, d)
  BY WritersFit
<1>4. f.content = GenerateJson(d) /\ f.is = "whole" /\ f.meant = c
  BY <1>2 DEF Whole
<1>5. f.content = [json |-> TRUE, closed |-> TRUE, entries |-> Entries(d)]
  BY <1>4 DEF GenerateJson
<1>6. IsFile(f.content)
  BY <1>3, <1>5, EntriesFit DEF WrittenFor
<1> QED
  BY <1>2, <1>3, <1>4, <1>5, <1>6

\* The beginning of a list of entries, and one more that is like the next, is a file.
LEMMA BegunFits ==
  ASSUME NEW c \in Configs, NEW d, WrittenFor(c, d), NEW n \in 1 .. 11, NEW w
  PROVE  LET before == SubSeq(Entries(d), 1, n - 1)
             entry  == [Entries(d)[n] EXCEPT !.value.word = w]
         IN  /\ IsFile([json |-> TRUE, closed |-> TRUE, entries |-> before])
             /\ IsFile([json |-> TRUE, closed |-> TRUE, entries |-> Append(before, entry)])
<1> DEFINE e == Entries(d)
           before == SubSeq(e, 1, n - 1)
           entry  == [e[n] EXCEPT !.value.word = w]
<1>1. IsFile([entries |-> e])
  BY EntriesFit DEF WrittenFor
<1>2. e = [i \in 1 .. 11 |-> [key |-> KeyOrder[i], value |-> Value(d, KeyOrder[i])]]
  BY KeysInOrder DEF Entries
<1>3. DOMAIN e = 1 .. 11 /\ Len(e) = 11
  BY <1>2
<1>4. \A i \in 1 .. 11 : \/ e[i].value.num = {}
                         \/ \E m \in e[i].value.num : m \in Int /\ e[i].value.num = {m}
  BY <1>1, <1>3 DEF IsFile
<1>5. entry.value.num = e[n].value.num
  <2>1. e[n] = [key |-> KeyOrder[n], value |-> Value(d, KeyOrder[n])]
    BY <1>2
  <2>2. Value(d, KeyOrder[n]) = [Value(d, KeyOrder[n]) EXCEPT !.word = @]
        /\ "num" \in DOMAIN Value(d, KeyOrder[n])
    <3>1. KeyOrder[n] \in Keys
      BY KeysInOrder
    <3>2. \A k \in Keys : Value(d, k) \in {Text(d[k]), Number(d[k]), Flag(d[k])}
      BY DEF Value, Keys
    <3>3. Value(d, KeyOrder[n]) \in
            {Text(d[KeyOrder[n]]), Number(d[KeyOrder[n]]), Flag(d[KeyOrder[n]])}
      BY <3>1, <3>2
    <3> QED
      BY <3>3 DEF Text, Number, Flag
  <2> QED
    BY <2>1, <2>2
<1>6. e \in Seq({ e[i] : i \in 1 .. 11 })
  BY <1>2, <1>3
<1> HIDE DEF e, entry
<1>7. /\ DOMAIN before = 1 .. (n - 1) /\ Len(before) = n - 1
      /\ \A i \in 1 .. (n - 1) : before[i] = e[i]
  BY <1>3, <1>6
<1>8. before \in Seq({ e[i] : i \in 1 .. 11 } \cup {entry})
  BY <1>3, <1>6
<1> HIDE DEF before
<1> DEFINE longer == Append(before, entry)
<1>9. /\ DOMAIN longer = 1 .. n /\ Len(longer) = n /\ longer[n] = entry
      /\ \A i \in 1 .. (n - 1) : longer[i] = before[i]
  BY <1>7, <1>8
<1> HIDE DEF longer
<1>10. IsFile([json |-> TRUE, closed |-> TRUE, entries |-> before])
  <2>1. /\ Len(before) \in Nat /\ DOMAIN before = 1 .. Len(before)
        /\ \A i \in DOMAIN before : i \in 1 .. 11 /\ before[i] = e[i]
    BY <1>7
  <2>2. [json |-> TRUE, closed |-> TRUE, entries |-> before].entries = before
    OBVIOUS
  <2> QED
    BY <1>4, <2>1, <2>2, Zenon DEF IsFile
<1>11. IsFile([json |-> TRUE, closed |-> TRUE, entries |-> longer])
  <2>1. /\ Len(longer) \in Nat /\ DOMAIN longer = 1 .. Len(longer)
        /\ \A i \in DOMAIN longer :
             longer[i] = entry \/ (i \in 1 .. 11 /\ longer[i] = e[i])
    BY <1>7, <1>9
  <2>2. [json |-> TRUE, closed |-> TRUE, entries |-> longer].entries = longer
    OBVIOUS
  <2>3. \A i \in DOMAIN longer :
          \/ longer[i].value.num = {}
          \/ \E m \in longer[i].value.num : m \in Int /\ longer[i].value.num = {m}
    BY <1>4, <1>5, <2>1
  <2> QED
    BY <2>1, <2>2, <2>3, Zenon DEF IsFile
<1> QED
  BY <1>10, <1>11 DEF longer, before, entry, e

(* What was written is what is read *)

\* Each key has one entry.
LEMMA OneEntry ==
  ASSUME NEW k \in Keys
  PROVE  \E i \in 1 .. 11 : KeyOrder[i] = k /\ \A j \in 1 .. 11 : KeyOrder[j] = k => j = i
BY DEF KeyOrder, Keys, Texts, Numbers, Flags

\* The entry a writer has put down for a key.
LEMMA EntryOf ==
  ASSUME NEW d, NEW k \in Keys
  PROVE  \E i \in 1 .. 11 :
           /\ { j \in DOMAIN Entries(d) : Entries(d)[j].key = k } = {i}
           /\ Entries(d)[i].value = Value(d, k)
<1>1. PICK i \in 1 .. 11 : KeyOrder[i] = k /\ \A j \in 1 .. 11 : KeyOrder[j] = k => j = i
  BY OneEntry
<1>2. /\ DOMAIN Entries(d) = 1 .. 11
      /\ \A j \in 1 .. 11 : /\ Entries(d)[j].key = KeyOrder[j]
                            /\ Entries(d)[j].value = Value(d, KeyOrder[j])
  BY KeysInOrder DEF Entries
<1> QED
  BY <1>1, <1>2

\* What a configuration holds under a key, once written, is what is read back, if it is
\* not a text that a writer changes.
LEMMA ValueRead ==
  ASSUME NEW c \in Configs, NEW k \in Keys, k \in Texts => Plain(c[k])
  PROVE  /\ JsonUsable(k, Value(c, k)) /\ JsonValue(k, Value(c, k)) = c[k]
         /\ LineUsable(k, Value(c, k)) /\ LineValue(k, Value(c, k)) = c[k]
<1>1. CASE k \in Texts
  <2>1. /\ Value(c, k).quoted /\ Value(c, k).word = c[k]
    BY <1>1, KindsOfKeys DEF Value, Text
  <2>2. UpToQuote(c[k]) = c[k]
    BY <1>1, DaemonAssumption, PlainIsKept
  <2>3. k \notin Numbers /\ k \notin Flags
    BY <1>1, KindsOfKeys
  <2> QED
    BY <1>1, <2>1, <2>2, <2>3 DEF JsonUsable, JsonValue, LineUsable, LineValue
<1>2. CASE k \in Numbers
  <2>1. Value(c, k) = Number(c[k]) /\ k \notin Texts /\ k \notin Flags
    BY <1>2, KindsOfKeys DEF Value
  <2>2. ~Value(c, k).quoted /\ Value(c, k).num = {c[k]}
    BY <2>1 DEF Number
  <2>3. /\ c[k] \in 0 .. (WordLimit - 1)
        /\ k = "server_port" => c[k] \in 0 .. (PortLimit - 1)
    BY <1>2, DaemonAssumption DEF IsClientConfig
  <2>4. c[k] \in 0 .. (Limit(k) - 1) /\ Limit(k) \in Nat /\ Limit(k) =< LongLimit
    BY <2>3, WidthsAssumption DEF Limit
  <2>5. c[k] % Limit(k) = c[k] /\ c[k] % LongLimit = c[k] /\ c[k] \in Nat /\ c[k] < LongLimit
    BY <2>4, WidthsAssumption
  <2>6. Min({c[k]}) = c[k]
    BY <2>5, OneNumber
  <2>7. JsonValue(k, Value(c, k)) = c[k] /\ LineValue(k, Value(c, k)) = c[k]
    BY <1>2, <2>1, <2>2, <2>5, <2>6 DEF JsonValue, LineValue
  <2>8. JsonUsable(k, Value(c, k)) /\ LineUsable(k, Value(c, k))
    BY <1>2, <2>2, <2>5, WidthsAssumption DEF JsonUsable, LineUsable
  <2> QED
    BY <2>7, <2>8
<1>3. CASE k \in Flags
  <2>1. Value(c, k) = Flag(c[k]) /\ k \notin Texts /\ k \notin Numbers
    BY <1>3, KindsOfKeys DEF Value
  <2>2. c[k] \in BOOLEAN
    BY <1>3, DaemonAssumption DEF IsClientConfig, Flags
  <2>3. ~Value(c, k).quoted /\ Value(c, k).word = IF c[k] THEN <<"true">> ELSE <<"false">>
    BY <2>1 DEF Flag
  <2>4. JsonValue(k, Value(c, k)) = (Value(c, k).word = <<"true">>)
    BY <1>3, <2>1 DEF JsonValue
  <2>5. LineValue(k, Value(c, k)) = (Value(c, k).word \in {<<"true">>, <<"1">>, <<"yes">>})
    BY <1>3, <2>1 DEF LineValue
  <2>6. <<"false">> \notin {<<"true">>, <<"1">>, <<"yes">>}
    OBVIOUS
  <2>7. JsonValue(k, Value(c, k)) = c[k] /\ LineValue(k, Value(c, k)) = c[k]
    BY <2>2, <2>3, <2>4, <2>5, <2>6
  <2>8. JsonUsable(k, Value(c, k)) /\ LineUsable(k, Value(c, k))
    BY <1>3, <2>1, <2>2, <2>3 DEF JsonUsable, LineUsable
  <2> QED
    BY <2>7, <2>8
<1> QED
  BY <1>1, <1>2, <1>3 DEF Keys

\* What a JSON document begins with is read as it was written, or is not there.
LEMMA JsonReadsBeginning ==
  ASSUME NEW c \in Configs, NEW d, NEW k \in Keys, k \in Texts => Plain(c[k]), d[k] = c[k],
         NEW f, DOMAIN f.entries \subseteq 1 .. 11,
         \A i \in DOMAIN f.entries : f.entries[i] = Entries(d)[i] \/ f.entries[i].key # k
  PROVE  /\ ParseJson(f)[k] \in {Defaults[k], c[k]}
         /\ f.entries = Entries(d) => ParseJson(f)[k] = c[k]
<1>1. PICK i \in 1 .. 11 :
        /\ { j \in DOMAIN Entries(d) : Entries(d)[j].key = k } = {i}
        /\ Entries(d)[i].value = Value(d, k)
  BY EntryOf
<1>2. Value(d, k) = Value(c, k)
  BY DEF Value
<1>3. DOMAIN Entries(d) = 1 .. 11
  BY KeysInOrder DEF Entries
<1>4. Matches(f, k) \subseteq {i}
  BY <1>1, <1>3 DEF Matches
<1>5. f.entries = Entries(d) => i \in Matches(f, k)
  BY <1>1, <1>2, ValueRead DEF Matches
<1>6. Min({i}) = i
  BY OneNumber
<1>7. ASSUME Matches(f, k) = {i} PROVE ParseJson(f)[k] = c[k]
  <2>1. f.entries[i] = Entries(d)[i]
    BY <1>7 DEF Matches
  <2>2. ParseJson(f)[k] = JsonValue(k, Value(c, k))
    BY <1>1, <1>2, <1>6, <1>7, <2>1 DEF ParseJson
  <2> QED
    BY <2>2, ValueRead
<1>8. Matches(f, k) = {} => ParseJson(f)[k] = Defaults[k]
  BY DEF ParseJson
<1> QED
  BY <1>4, <1>5, <1>7, <1>8

\* Lines give back the configuration they were written from.
LEMMA LinesReadWhole ==
  ASSUME NEW c \in Configs, NEW k \in Keys, k \in Texts => Plain(c[k])
  PROVE  ParseKeyValue(Lines(c))[k] = c[k]
<1> DEFINE f == Lines(c)
<1>1. PICK i \in 1 .. 11 :
        /\ { j \in DOMAIN Entries(c) : Entries(c)[j].key = k } = {i}
        /\ Entries(c)[i].value = Value(c, k)
  BY EntryOf
<1>2. f.entries = Entries(c) /\ ~f.json
  BY DEF Lines
<1> HIDE DEF f
<1>3. Assignments(f, k) = {i}
  BY <1>1, <1>2, ValueRead DEF Assignments
<1>4. Max({i}) = i
  BY DEF Max
<1>5. ParseKeyValue(f)[k] = LineValue(k, Value(c, k))
  BY <1>1, <1>2, <1>3, <1>4 DEF ParseKeyValue
<1> QED
  BY <1>5, ValueRead DEF f

\* What is in force of a document cut behind a brace.
BegunFor(c, g) ==
  /\ g.json /\ g.closed /\ IsFile(g)
  /\ \A k \in Keys : (k \in Texts => Plain(c[k])) => ParseJson(g)[k] \in {Defaults[k], c[k]}

\* It is the entries before the one it is cut in: that one counts only if there is a quote
\* in its text.
LEMMA DeceptiveFits ==
  ASSUME NEW c \in Configs, NEW d, WrittenFor(c, d), NEW f,
         f = [json |-> TRUE, closed |-> TRUE, entries |-> Entries(d)], NEW b \in Braces(f)
  PROVE  BegunFor(c, CutBehindBrace(f, b))
<1> DEFINE e == Entries(d)
           n == b[1]
           w == e[n].value.word
           begun  == SubSeq(w, 1, b[2])
           before == SubSeq(e, 1, n - 1)
           entry  == [e[n] EXCEPT !.value.word = begun]
           g == CutBehindBrace(f, b)
<1>1. e = [i \in 1 .. 11 |-> [key |-> KeyOrder[i], value |-> Value(d, KeyOrder[i])]]
  BY KeysInOrder DEF Entries
<1>2. /\ DOMAIN e = 1 .. 11 /\ Len(e) = 11 /\ f.entries = e /\ f.json
      /\ e \in Seq({ e[i] : i \in 1 .. 11 })
  BY <1>1
<1>3. n \in 1 .. 11 /\ b[2] \in DOMAIN w /\ e[n].value.quoted
  BY <1>2 DEF Braces
<1>4. g = [json |-> TRUE, closed |-> TRUE,
           entries |-> IF Quotes(begun) = {} THEN before ELSE Append(before, entry)]
  BY <1>2 DEF CutBehindBrace
<1>5. IsFile([json |-> TRUE, closed |-> TRUE, entries |-> before])
      /\ IsFile([json |-> TRUE, closed |-> TRUE, entries |-> Append(before, entry)])
  BY <1>3, BegunFits
<1>6. IsFile(g)
  BY <1>4, <1>5
<1> DEFINE k0 == KeyOrder[n]
<1>7. e[n].key = k0 /\ k0 \in Keys /\ e[n].value = Value(d, k0)
  BY <1>1, <1>3, KeysInOrder
<1>8. k0 \in Texts /\ w = d[k0]
  <2>1. k0 \in Texts => Value(d, k0) = Text(d[k0])
    BY KindsOfKeys DEF Value, Text
  <2>2. k0 \in Numbers => Value(d, k0) = Number(d[k0])
    BY KindsOfKeys DEF Value
  <2>3. k0 \in Flags => Value(d, k0) = Flag(d[k0])
    BY KindsOfKeys DEF Value
  <2> QED
    BY <1>3, <1>7, <2>1, <2>2, <2>3 DEF Text, Number, Flag, Keys
<1>9. Plain(c[k0]) => Quotes(begun) = {}
  <2>1. IsText(w)
    BY <1>8 DEF WrittenFor
  <2>2. ASSUME Plain(c[k0]) PROVE Plain(w)
    BY <1>7, <1>8, <2>2 DEF WrittenFor
  <2>3. w \in Seq({ w[i] : i \in 1 .. Len(w) }) /\ b[2] \in 1 .. Len(w)
    BY <1>3, <2>1 DEF IsText
  <2> HIDE DEF w
  <2>4. /\ DOMAIN begun = 1 .. b[2] /\ 1 .. b[2] \subseteq DOMAIN w
        /\ \A i \in 1 .. b[2] : begun[i] = w[i]
    BY <2>3
  <2> HIDE DEF begun
  <2>5. Quotes(w) = {} => Quotes(begun) = {}
    BY <2>4 DEF Quotes
  <2> QED
    BY <2>1, <2>2, <2>5, PlainIsKept
<1>10. /\ entry.key = k0
       /\ e[n].key = k0
  BY <1>1, <1>3
<1> HIDE DEF e, entry, k0, begun, n
<1>11. /\ DOMAIN before = 1 .. (n - 1) /\ Len(before) = n - 1
       /\ \A i \in 1 .. (n - 1) : before[i] = e[i]
       /\ before \in Seq({ e[i] : i \in 1 .. 11 } \cup {entry})
  BY <1>2, <1>3
<1> HIDE DEF before, g
<1>14. /\ g.json /\ g.closed
       /\ Quotes(begun) = {} => g.entries = before
       /\ Quotes(begun) # {} => g.entries = Append(before, entry)
  BY <1>4
<1>12. LET longer == Append(before, entry)
       IN  /\ DOMAIN longer = 1 .. n /\ longer[n] = entry
           /\ \A i \in 1 .. (n - 1) : longer[i] = before[i]
  BY <1>3, <1>11
<1>13. ASSUME NEW k \in Keys, k \in Texts => Plain(c[k])
       PROVE  ParseJson(g)[k] \in {Defaults[k], c[k]}
  <2>1. d[k] = c[k]
    BY <1>13 DEF WrittenFor
  <2>2. DOMAIN g.entries \subseteq 1 .. 11
    <3>1. 1 .. n \subseteq 1 .. 11 /\ 1 .. (n - 1) \subseteq 1 .. 11
      BY <1>3
    <3>2. DOMAIN Append(before, entry) = 1 .. n /\ DOMAIN before = 1 .. (n - 1)
      BY <1>11, <1>12
    <3>3. g.entries \in {before, Append(before, entry)}
      BY <1>14
    <3> HIDE DEF n
    <3> QED
      BY <3>1, <3>2, <3>3
  <2>3. \A i \in DOMAIN g.entries : g.entries[i] = e[i] \/ g.entries[i].key # k
    <3>1. CASE Quotes(begun) = {}
      BY <1>11, <1>14, <3>1
    <3>2. CASE Quotes(begun) # {}
      <4>1. k # k0
        BY <1>8, <1>9, <1>13, <3>2
      <4>2. g.entries = Append(before, entry)
        BY <1>14, <3>2
      <4>3. \A i \in 1 .. n : i = n \/ i \in 1 .. (n - 1)
        BY <1>3
      <4> QED
        BY <1>10, <1>11, <1>12, <4>1, <4>2, <4>3
    <3> QED
      BY <3>1, <3>2
  <2> QED
    BY <1>13, <2>1, <2>2, <2>3, JsonReadsBeginning DEF e
<1> QED
  BY <1>6, <1>13, <1>14 DEF BegunFor, g

\* What there is of a file that is being written.
LEMMA HalvesFit ==
  ASSUME NEW f \in Written, NEW h \in Halves(f)
  PROVE  \/ h.is = "half" /\ h.content.json /\ ~h.content.closed
         \/ h.is = "brace" /\ BegunFor(h.meant, h.content)
<1>a. PICK c \in Configs : \E d \in {c, EscapedTexts(c)} :
        /\ f.meant = c /\ WrittenFor(c, d)
        /\ f.content = [json |-> TRUE, closed |-> TRUE, entries |-> Entries(d)]
  BY WrittenFits
<1>1. PICK d \in {c, EscapedTexts(c)} :
        /\ f.meant = c /\ WrittenFor(c, d)
        /\ f.content = [json |-> TRUE, closed |-> TRUE, entries |-> Entries(d)]
  BY <1>a
<1>2. CASE h \in { Part(Cut(f.content, n)) : n \in Cuts }
  <2>1. PICK n \in Cuts : h = Part(Cut(f.content, n))
    BY <1>2
  <2>2. Cut(f.content, n).json /\ ~Cut(f.content, n).closed
    BY <1>1 DEF Cut
  <2> QED
    BY <2>1, <2>2 DEF Part
<1>3. CASE h \in { Deceptive(CutBehindBrace(f.content, b), f.meant) : b \in Braces(f.content) }
  <2>1. PICK b \in Braces(f.content) : h = Deceptive(CutBehindBrace(f.content, b), f.meant)
    BY <1>3
  <2>2. BegunFor(c, CutBehindBrace(f.content, b))
    BY <1>1, DeceptiveFits
  <2> QED
    BY <1>1, <2>1, <2>2 DEF Deceptive
<1> QED
  BY <1>2, <1>3 DEF Halves

\* What a file that was written for c gives.
ReadFor(c, f) ==
  /\ IsFile(f)
  /\ \A k \in Keys : (k \in Texts => Plain(c[k])) => ParseClientConfig(f)[k] = c[k]

\* A configuration is read as it was meant, in each format and from each writer.
LEMMA WholeReads ==
  /\ \A f \in Written : f.is = "whole" /\ ReadFor(f.meant, f.content)
  /\ \A c \in Configs : ReadFor(c, Lines(c))
<1>1. ASSUME NEW f \in Written PROVE f.is = "whole" /\ ReadFor(f.meant, f.content)
  <2>a. PICK c \in Configs : \E d \in {c, EscapedTexts(c)} :
          /\ f.is = "whole" /\ f.meant = c /\ WrittenFor(c, d) /\ IsFile(f.content)
          /\ f.content = [json |-> TRUE, closed |-> TRUE, entries |-> Entries(d)]
    BY WrittenFits
  <2>1. PICK d \in {c, EscapedTexts(c)} :
          /\ f.is = "whole" /\ f.meant = c /\ WrittenFor(c, d) /\ IsFile(f.content)
          /\ f.content = [json |-> TRUE, closed |-> TRUE, entries |-> Entries(d)]
    BY <2>a
  <2>2. f.content.entries = Entries(d) /\ DOMAIN Entries(d) = 1 .. 11
    BY <2>1, KeysInOrder DEF Entries
  <2>3. ASSUME NEW k \in Keys, k \in Texts => Plain(c[k])
        PROVE  ParseJson(f.content)[k] = c[k]
    <3>1. d[k] = c[k]
      BY <2>1, <2>3 DEF WrittenFor
    <3> QED
      BY <2>2, <2>3, <3>1, JsonReadsBeginning
  <2>4. ParseClientConfig(f.content) = ParseJson(f.content)
    BY <2>1 DEF ParseClientConfig, IsJsonFormat
  <2> QED
    BY <2>1, <2>3, <2>4 DEF ReadFor
<1>2. ASSUME NEW c \in Configs PROVE ReadFor(c, Lines(c))
  <2>1. ParseClientConfig(Lines(c)) = ParseKeyValue(Lines(c))
    BY DEF ParseClientConfig, IsJsonFormat, Lines
  <2>2. IsFile(Lines(c))
    BY WritersFit, EntriesFit DEF Lines, WrittenFor
  <2> QED
    BY <2>1, <2>2, LinesReadWhole DEF ReadFor
<1> QED
  BY <1>1, <1>2

\* What a file gives, according to what it is.
Reads(f) ==
  LET got == ParseClientConfig(f.content)
  IN  /\ f.is \in {"whole", "half", "brace", "other"}
      /\ IsClientConfig(got)
      /\ f.is = "half" => \A k \in Keys : got[k] = Defaults[k]
      /\ f.is = "brace" =>
           \A k \in Keys : (k \in Texts => Plain(f.meant[k])) =>
                             got[k] \in {Defaults[k], f.meant[k]}
      /\ f.is = "whole" =>
           \A k \in Keys : (k \in Texts => Plain(f.meant[k])) => got[k] = f.meant[k]

\* So do all files the configuration may be read from.
LEMMA ReadsFit ==
  ASSUME NEW f \in Files
  PROVE  Reads(f)
<1>a. IsFile(f.content) => IsClientConfig(ParseClientConfig(f.content))
  BY JsonFits, LinesFit DEF ParseClientConfig
<1>1. CASE f.is = "whole" /\ ReadFor(f.meant, f.content)
  BY <1>1, <1>a DEF ReadFor, Reads
<1>2. CASE f.is = "half" /\ f.content.json /\ ~f.content.closed
  <2>1. ParseClientConfig(f.content) = [k \in Keys |-> Defaults[k]]
    BY <1>2 DEF ParseClientConfig, IsJsonFormat, ParseKeyValue
  <2>2. IsClientConfig([k \in Keys |-> Defaults[k]])
    BY DefaultsFit, KindsOfKeys DEF IsClientConfig, Keys
  <2> QED
    BY <1>2, <2>1, <2>2 DEF Reads
<1>3. CASE f.is = "brace" /\ BegunFor(f.meant, f.content)
  <2>1. ParseClientConfig(f.content) = ParseJson(f.content)
    BY <1>3 DEF BegunFor, ParseClientConfig, IsJsonFormat
  <2> QED
    BY <1>3, <1>a, <2>1 DEF BegunFor, Reads
<1>4. CASE f.is = "other" /\ IsFile(f.content)
  BY <1>4, <1>a DEF Reads
<1>5. CASE f \in Written
  BY <1>1, <1>5, WholeReads
<1>6. CASE f \in UNION { Halves(g) : g \in Written }
  BY <1>2, <1>3, <1>6, HalvesFit
<1>7. CASE f \in { Whole(Lines(c), c) : c \in Configs }
  <2>1. PICK c \in Configs : f = Whole(Lines(c), c)
    BY <1>7
  <2>2. f.is = "whole" /\ f.content = Lines(c) /\ f.meant = c
    BY <2>1 DEF Whole
  <2> QED
    BY <1>1, <2>2, WholeReads
<1>8. CASE f \in { Other(g) : g \in OtherFiles \cup {NoFile} }
  <2>1. PICK g \in OtherFiles \cup {NoFile} : f = Other(g)
    BY <1>8
  <2>2. IsFile(NoFile)
    BY DEF IsFile, NoFile
  <2>3. IsFile(g)
    BY <2>1, <2>2, DaemonAssumption
  <2>4. f.is = "other" /\ f.content = g
    BY <2>1 DEF Other
  <2> QED
    BY <1>4, <2>3, <2>4
<1> QED
  BY <1>5, <1>6, <1>7, <1>8 DEF Files, Edited

(* The steps of the processes *)

Fits(p, r) == IsProcess(r) /\ HalfIsNothing(r) /\ WholeIsMeant(r) /\ HasCollected(p, r)

Fields == {"at", "once", "daemon", "source", "meant", "config", "handlers", "stop", "mutex",
           "initialized", "ownsPid", "leftPid", "measured", "sample"}

\* The fields of a process.
LEMMA FieldNames == DOMAIN Blank("absent") = Fields
BY DEF Blank, Fields

Switches(r) ==
  {r.once, r.daemon, r.handlers, r.stop, r.mutex, r.initialized, r.ownsPid, r.leftPid}

\* What has done nothing yet has nothing.
LEMMA BlankFits ==
  ASSUME NEW p \in Procs, NEW control \in Control
  PROVE  Fits(p, Blank(control))
<1> DEFINE r == Blank(control)
<1>1. /\ DOMAIN r = DOMAIN Blank("absent") /\ r.at = control /\ r.source = "other"
      /\ r.config = Defaults /\ r.sample = None
      /\ Switches(r) \subseteq BOOLEAN
  BY DEF Blank, Switches
<1> HIDE DEF r
<1>2. Fits(p, r)
  BY <1>1, DefaultsFit
     DEF Fits, IsProcess, HalfIsNothing, WholeIsMeant, HasCollected, Switches
<1> QED
  BY <1>2 DEF r

\* A process that comes to what fits leaves the others as they were.
LEMMA BecomeFits ==
  ASSUME NEW p \in Procs, NEW r, Fits(p, r), Become(p, r),
         DOMAIN proc = Procs, \A q \in Procs : Fits(q, proc[q])
  PROVE  DOMAIN proc' = Procs /\ \A q \in Procs : Fits(q, proc'[q])
<1>1. proc' = [proc EXCEPT ![p] = r]
  BY DEF Become
<1>2. DOMAIN proc' = Procs /\ \A q \in Procs : proc'[q] = IF q = p THEN r ELSE proc[q]
  BY <1>1
<1> QED
  BY <1>2

\* Whoever merely moves on keeps what it has.
LEMMA MovedFits ==
  ASSUME NEW p \in Procs, NEW r, Fits(p, r), NEW x, DOMAIN x = DOMAIN r,
         x.at \in Control, x.source = r.source, x.meant = r.meant, x.config = r.config, x.sample = r.sample,
         x.measured = r.measured, Switches(x) \subseteq BOOLEAN
  PROVE  Fits(p, x)
BY DEF Fits, IsProcess, HalfIsNothing, WholeIsMeant, Untouched, Carried, HasCollected, Switches

ProcessesFit == DOMAIN proc = Procs /\ \A p \in Procs : Fits(p, proc[p])

\* What is gone has nothing, but may have left its PID file.
LEMMA GoneFits ==
  ASSUME NEW p \in Procs, NEW control \in Control, NEW fails \in BOOLEAN
  PROVE  Fits(p, [Blank(control) EXCEPT !.leftPid = fails])
<1> DEFINE b == Blank(control)
           x == [b EXCEPT !.leftPid = fails]
<1>1. Fits(p, b)
  BY BlankFits
<1>2. DOMAIN b = Fields /\ Switches(b) \subseteq BOOLEAN /\ b.at \in Control
  BY <1>1, FieldNames DEF Fits, IsProcess, Switches
<1> HIDE DEF b
<1>3. /\ DOMAIN x = DOMAIN b /\ x.leftPid = fails
      /\ \A f \in Fields \ {"leftPid"} : x[f] = b[f]
  BY <1>2 DEF Fields
<1> HIDE DEF x
<1>4. Fits(p, x)
  BY <1>1, <1>2, <1>3, MovedFits DEF Fields, Switches
<1> QED
  BY <1>4 DEF x, b

\* The step of a process, whichever it is.
ProcessStep(p) ==
  \/ \E args \in CommandLines[p] : Start(p, args)
  \/ StartUp(p) \/ Collect(p) \/ FetchSettings(p) \/ Refuse(p) \/ Leave(p)
  \/ Signal(p) \/ Kill(p)

\* Every step of a process keeps what each process has from what it has read.
LEMMA StepsFit ==
  ASSUME ProcessesFit, file \in Files, NEW p \in Procs, ProcessStep(p)
  PROVE  ProcessesFit'
<1> DEFINE o == proc[p]
<1>a. DOMAIN proc = Procs /\ (\A q \in Procs : Fits(q, proc[q])) /\ Fits(p, o)
  BY DEF ProcessesFit
<1>b. /\ DOMAIN o = Fields /\ o.at \in Control /\ IsClientConfig(o.config)
      /\ Switches(o) \subseteq BOOLEAN
  BY <1>a, FieldNames DEF Fits, IsProcess, Switches
<1>c. \A control \in Control :
        /\ Fits(p, Blank(control))
        /\ \A fails \in BOOLEAN : Fits(p, [Blank(control) EXCEPT !.leftPid = fails])
  BY BlankFits, GoneFits
<1>d. \A r : Fits(p, r) /\ Become(p, r) => ProcessesFit'
  BY <1>a, BecomeFits DEF ProcessesFit
<1> HIDE DEF o
<1>f. ASSUME NEW status \in {"exit0", "exit1"}, Ends(p, status) PROVE ProcessesFit'
  <2>1. \E fails \in BOOLEAN : Become(p, [Blank(status) EXCEPT !.leftPid = fails])
    BY <1>f DEF Ends
  <2>2. status \in Control
    BY DEF Control, Ended
  <2> QED
    BY <1>c, <1>d, <2>1, <2>2
<1>e. ASSUME NEW control \in Control PROVE Fits(p, [o EXCEPT !.at = control])
  <2> DEFINE x == [o EXCEPT !.at = control]
  <2>1. /\ DOMAIN x = DOMAIN o /\ x.at = control
        /\ \A f \in Fields \ {"at"} : x[f] = o[f]
    BY <1>b DEF Fields
  <2> HIDE DEF x
  <2>2. Fits(p, x)
    BY <1>a, <1>b, <2>1, MovedFits DEF Fields, Switches
  <2> QED
    BY <2>2 DEF x
<1>1. CASE Signal(p)
  <2> DEFINE x == [o EXCEPT !.stop = TRUE]
  <2>1. /\ DOMAIN x = DOMAIN o /\ x.stop = TRUE
        /\ \A f \in Fields \ {"stop"} : x[f] = o[f]
    BY <1>b DEF Fields
  <2>2. Become(p, x) \/ Become(p, Blank("killed"))
    BY <1>1 DEF Signal, o
  <2> HIDE DEF x
  <2>s. Switches(x) \subseteq BOOLEAN
    BY <1>b, <2>1 DEF Fields, Switches
  <2>3. Fits(p, x)
    BY <1>a, <1>b, <2>1, <2>s, MovedFits DEF Fields
  <2>4. Fits(p, Blank("killed"))
    BY <1>c DEF Control, Ended
  <2> QED
    BY <1>d, <2>2, <2>3, <2>4
<1>2. CASE Kill(p)
  <2>1. Fits(p, Blank("killed"))
    BY <1>c DEF Control, Ended
  <2> QED
    BY <1>2, <1>d, <2>1 DEF Kill
<1>3. ASSUME NEW args \in CommandLines[p], Start(p, args) PROVE ProcessesFit'
  <2> DEFINE b == Blank("load")
             x == [b EXCEPT !.once = Has(args, {"--once"}), !.daemon = Has(args, {"--daemon"})]
  <2>1. Fits(p, b)
    BY <1>c DEF Control, Steps
  <2>2. /\ DOMAIN b = Fields /\ b.at \in Control
        /\ Switches(b) \subseteq BOOLEAN
    BY <2>1, FieldNames DEF Fits, IsProcess, Switches
  <2> HIDE DEF b
  <2>3. /\ DOMAIN x = DOMAIN b /\ x.once \in BOOLEAN /\ x.daemon \in BOOLEAN
        /\ \A f \in Fields \ {"once", "daemon"} : x[f] = b[f]
    BY <2>2 DEF Fields, Has
  <2>4. Become(p, x) \/ Become(p, Blank(ParseArguments(args)))
    BY <1>3 DEF Start, b
  <2>5. ParseArguments(args) \in Control
    BY DEF ParseArguments, Control, Ended, Steps
  <2> HIDE DEF x
  <2>6. Fits(p, x)
    BY <2>1, <2>2, <2>3, MovedFits DEF Fields, Switches
  <2> QED
    BY <1>c, <1>d, <2>4, <2>5, <2>6
<1>4. CASE Load(p)
  <2> DEFINE c == ParseClientConfig(file.content)
             x == [o EXCEPT !.at = "daemonize", !.source = file.is, !.meant = file.meant,
                            !.config = c]
  <2>1. Become(p, x) \/ Ends(p, "exit1")
    BY <1>4 DEF Load, o
  <2>2. Reads(file)
    BY ReadsFit
  <2>3. /\ file.is \in {"whole", "half", "brace", "other"} /\ IsClientConfig(c)
        /\ file.is = "half" => \A k \in Keys : c[k] = Defaults[k]
        /\ file.is = "brace" =>
             \A k \in Keys : (k \in Texts => Plain(file.meant[k])) =>
                               c[k] \in {Defaults[k], file.meant[k]}
        /\ file.is = "whole" =>
             \A k \in Keys : (k \in Texts => Plain(file.meant[k])) => c[k] = file.meant[k]
    BY <2>2, Zenon DEF Reads
  <2> HIDE DEF c
  <2>4. /\ DOMAIN x = DOMAIN o /\ x.at = "daemonize" /\ x.source = file.is
        /\ x.meant = file.meant /\ x.config = c
        /\ \A f \in Fields \ {"at", "source", "meant", "config"} : x[f] = o[f]
    BY <1>b DEF Fields
  <2> HIDE DEF x
  <2>5. IsProcess(x)
    BY <1>b, <2>3, <2>4, FieldNames DEF IsProcess, Fields, Switches, Control, Steps
  <2>6. Untouched(x) \subseteq Keys
    BY DEF Untouched
  <2>7. HalfIsNothing(x) /\ WholeIsMeant(x)
    BY <2>3, <2>4, <2>6, Zenon DEF HalfIsNothing, WholeIsMeant, Carried
  <2>8. HasCollected(p, x)
    BY <1>a, <2>4 DEF Fits, HasCollected, Fields
  <2> QED
    BY <1>d, <1>f, <2>1, <2>5, <2>7, <2>8 DEF Fits
<1>5. CASE MaybeDaemonize(p)
  <2> DEFINE wanted == /\ ~o.once
                       /\ o.daemon \/ o.config.run_mode = <<"daemon">>
             x == [o EXCEPT !.at = IF wanted THEN "fork" ELSE "running", !.handlers = wanted]
  <2>1. Become(p, x)
    BY <1>5 DEF MaybeDaemonize, o
  <2>2. wanted \in BOOLEAN
    OBVIOUS
  <2> HIDE DEF wanted
  <2>3. /\ DOMAIN x = DOMAIN o /\ x.at \in {"fork", "running"} /\ x.handlers = wanted
        /\ \A f \in Fields \ {"at", "handlers"} : x[f] = o[f]
    BY <1>b DEF Fields
  <2> HIDE DEF x
  <2>4. Fits(p, x)
    BY <1>a, <1>b, <2>2, <2>3, MovedFits DEF Fields, Switches, Control, Steps
  <2> QED
    BY <1>d, <2>1, <2>4
<1>6. CASE Daemonize(p)
  <2>1. Become(p, [o EXCEPT !.at = "log"]) \/ Ends(p, "exit1")
    BY <1>6 DEF Daemonize, Goto, o
  <2>2. "log" \in Control
    BY DEF Control, Steps
  <2> QED
    BY <1>d, <1>e, <1>f, <2>1, <2>2
<1>7. CASE RedirectOutput(p)
  <2> DEFINE x == [o EXCEPT !.at = "open", !.mutex = TRUE]
  <2>1. Become(p, [o EXCEPT !.at = "pid"]) \/ Become(p, x)
    BY <1>7 DEF RedirectOutput, Goto, o
  <2>2. /\ DOMAIN x = DOMAIN o /\ x.at = "open" /\ x.mutex = TRUE
        /\ \A f \in Fields \ {"at", "mutex"} : x[f] = o[f]
    BY <1>b DEF Fields
  <2> HIDE DEF x
  <2>3. "pid" \in Control /\ "open" \in Control
    BY DEF Control, Steps
  <2>s. Switches(x) \subseteq BOOLEAN
    BY <1>b, <2>2 DEF Fields, Switches
  <2>4. Fits(p, x)
    BY <1>a, <1>b, <2>2, <2>3, <2>s, MovedFits DEF Fields
  <2> QED
    BY <1>d, <1>e, <2>1, <2>3, <2>4
<1>8. CASE InitializeLog(p)
  <2> DEFINE x == [o EXCEPT !.at = "pid", !.mutex = FALSE]
             y == [o EXCEPT !.at = "write", !.initialized = TRUE]
  <2>1. Become(p, x) \/ Become(p, y) \/ Ends(p, "exit1")
    BY <1>8 DEF InitializeLog, OpenFails, o
  <2>2. /\ DOMAIN x = DOMAIN o /\ x.at = "pid" /\ x.mutex = FALSE
        /\ \A f \in Fields \ {"at", "mutex"} : x[f] = o[f]
    BY <1>b DEF Fields
  <2>3. /\ DOMAIN y = DOMAIN o /\ y.at = "write" /\ y.initialized = TRUE
        /\ \A f \in Fields \ {"at", "initialized"} : y[f] = o[f]
    BY <1>b DEF Fields
  <2> HIDE DEF x, y
  <2>c. "pid" \in Control /\ "write" \in Control
    BY DEF Control, Steps
  <2>s. Switches(x) \subseteq BOOLEAN
    BY <1>b, <2>2 DEF Fields, Switches
  <2>t. Switches(y) \subseteq BOOLEAN
    BY <1>b, <2>3 DEF Fields, Switches
  <2>4. Fits(p, x)
    BY <1>a, <1>b, <2>2, <2>c, <2>s, MovedFits DEF Fields
  <2>5. Fits(p, y)
    BY <1>a, <1>b, <2>3, <2>c, <2>t, MovedFits DEF Fields
  <2> QED
    BY <1>d, <1>f, <2>1, <2>4, <2>5
<1>9. CASE WriteLog(p)
  <2>1. Become(p, [o EXCEPT !.at = IF o.mutex THEN "blocked" ELSE "pid"])
    BY <1>9 DEF WriteLog, Goto, o
  <2>2. (IF o.mutex THEN "blocked" ELSE "pid") \in Control
    BY DEF Control, Steps
  <2> QED
    BY <1>d, <1>e, <2>1, <2>2
<1>10. CASE CreatePidFile(p)
  <2> DEFINE x == [o EXCEPT !.at = "running", !.ownsPid = TRUE]
  <2>1. Become(p, [o EXCEPT !.at = "running"]) \/ Become(p, x)
    BY <1>10 DEF CreatePidFile, Goto, o
  <2>2. /\ DOMAIN x = DOMAIN o /\ x.at = "running" /\ x.ownsPid = TRUE
        /\ \A f \in Fields \ {"at", "ownsPid"} : x[f] = o[f]
    BY <1>b DEF Fields
  <2> HIDE DEF x
  <2>s. Switches(x) \subseteq BOOLEAN
    BY <1>b, <2>2 DEF Fields, Switches
  <2>3. "running" \in Control /\ Fits(p, x)
    BY <1>a, <1>b, <2>2, <2>s, MovedFits DEF Fields, Control
  <2> QED
    BY <1>d, <1>e, <2>1, <2>3
<1>11. CASE Collect(p)
  <2>1. PICK m \in Readings[p] :
          Become(p, [o EXCEPT !.measured = m, !.sample = Collected(m, EnableGpu(p)),
                              !.at = IF Validate(Collected(m, EnableGpu(p)))
                                     THEN "running" ELSE "refused"])
    BY <1>11 DEF Collect, o
  <2>2. EnableGpu(p) \in BOOLEAN
    BY <1>b DEF EnableGpu, IsClientConfig, o
  <2> DEFINE sample == Collected(m, EnableGpu(p))
             x == [o EXCEPT !.measured = m, !.sample = sample,
                            !.at = IF Validate(sample) THEN "running" ELSE "refused"]
  <2>3. sample # None /\ \E gpu \in BOOLEAN : sample = Collected(m, gpu)
    BY <2>2, DaemonAssumption
  <2> HIDE DEF sample
  <2>5. /\ DOMAIN x = DOMAIN o /\ x.at \in {"running", "refused"} /\ x.sample = sample
        /\ x.measured = m
        /\ \A f \in Fields \ {"at", "sample", "measured"} : x[f] = o[f]
    BY <1>b DEF Fields
  <2>7. Become(p, x)
    BY <2>1 DEF sample
  <2> HIDE DEF x
  <2>8. IsProcess(x)
    BY <1>a, <2>5 DEF Fits, IsProcess, Fields, Control, Steps
  <2>9. HalfIsNothing(x) /\ WholeIsMeant(x)
    BY <1>a, <2>3, <2>5 DEF Fits, HalfIsNothing, WholeIsMeant, Untouched, Carried, Fields
  <2>10. HasCollected(p, x)
    BY <2>3, <2>5 DEF HasCollected
  <2> QED
    BY <1>d, <2>7, <2>8, <2>9, <2>10 DEF Fits
<1>12. CASE FetchSettings(p)
  <2>1. PICK gpu \in BOOLEAN : Become(p, [o EXCEPT !.config.enable_gpu = gpu])
    BY <1>12 DEF FetchSettings, o
  <2>2. o.sample # None
    BY <1>12 DEF FetchSettings, o
  <2> DEFINE c == [o.config EXCEPT !.enable_gpu = gpu]
             x == [o EXCEPT !.config = c]
  <2>3. /\ DOMAIN c = Keys /\ c.enable_gpu = gpu
        /\ \A k \in Keys \ Remote : c[k] = o.config[k]
        /\ \A k \in Numbers : c[k] = o.config[k]
    BY <1>b, KindsOfKeys DEF IsClientConfig, Remote, Flags, Numbers, Keys
  <2>4. IsClientConfig(c)
    BY <1>b, <2>3, KindsOfKeys DEF IsClientConfig
  <2>5. Become(p, x)
    BY <2>1
  <2> HIDE DEF c
  <2>6. /\ DOMAIN x = DOMAIN o /\ x.config = c
        /\ \A f \in Fields \ {"config"} : x[f] = o[f]
    BY <1>b DEF Fields
  <2> HIDE DEF x
  <2>7. IsProcess(x)
    BY <1>a, <2>4, <2>6 DEF Fits, IsProcess, Fields
  <2>8. HalfIsNothing(x) /\ WholeIsMeant(x)
    BY <1>a, <2>2, <2>3, <2>6 DEF Fits, HalfIsNothing, WholeIsMeant, Untouched, Carried, Fields, Remote
  <2>9. HasCollected(p, x)
    BY <1>a, <2>6 DEF Fits, HasCollected, Fields
  <2> QED
    BY <1>d, <2>5, <2>7, <2>8, <2>9 DEF Fits
<1>13. CASE Refuse(p) \/ Leave(p)
  BY <1>f, <1>13 DEF Refuse, Leave
<1> QED
  BY <1>1, <1>2, <1>3, <1>4, <1>5, <1>6, <1>7, <1>8, <1>9, <1>10, <1>11, <1>12, <1>13
     DEF ProcessStep, StartUp

\* Processes leave the configuration file alone, and the PID file names one of them.
LEMMA StepsLeaveFiles ==
  ASSUME NEW p \in Procs, ProcessStep(p), pidFile \in Procs \cup {None}
  PROVE  UNCHANGED <<file, rewriting>> /\ pidFile' \in Procs \cup {None}
BY DEF ProcessStep, StartUp, Start, Load, MaybeDaemonize, Daemonize, RedirectOutput,
       InitializeLog, WriteLog, CreatePidFile, Collect, FetchSettings, Refuse, Leave,
       Signal, Kill, Elsewhere, Ends, RemovePidFile

(* The PID file *)

Held(r) ==
  \/ r.at = "killed"
  \/ r.at \in {"running", "refused"} /\ r.ownsPid
  \/ r.at \in Ended /\ r.leftPid

\* No step of a process but its last takes the PID file's name from it, and then the
\* process takes it away, if it is not killed and can remove it.
LEMMA PidFileKept ==
  ASSUME TypeOK, PidFileFits, NEW p \in Procs, ProcessStep(p)
  PROVE  PidFileFits'
<1> SUFFICES ASSUME pidFile' # None
             PROVE  Held(proc'[pidFile'])
  BY DEF PidFileFits, At, Held
<1> DEFINE o == proc[p]
<1>a. /\ DOMAIN proc = Procs /\ pidFile \in Procs \cup {None}
      /\ DOMAIN o = Fields
  BY FieldNames DEF TypeOK, IsProcess
<1>b. pidFile # None => Held(proc[pidFile])
  BY DEF PidFileFits, At, Held
<1>c. ASSUME NEW r, Become(p, r)
      PROVE  proc'[p] = r /\ \A q \in Procs : q # p => proc'[q] = proc[q]
  BY <1>a, <1>c DEF Become
<1>o. ASSUME NEW r, Become(p, r), pidFile' = pidFile, pidFile # p \/ Held(r)
      PROVE  Held(proc'[pidFile'])
  BY <1>a, <1>b, <1>c, <1>o
<1>1. ASSUME NEW status \in {"exit0", "exit1"}, Ends(p, status), proc[p].at \notin Ended
      PROVE  Held(proc'[pidFile'])
  <2>1. PICK fails \in BOOLEAN :
          RemovePidFile(p, fails) /\ Become(p, [Blank(status) EXCEPT !.leftPid = fails])
    BY <1>1 DEF Ends
  <2> DEFINE x == [Blank(status) EXCEPT !.leftPid = fails]
  <2>2. x.at = status /\ x.leftPid = fails
    BY DEF Blank
  <2>3. Become(p, x)
    BY <2>1
  <2> HIDE DEF x
  <2>4. pidFile' = pidFile /\ (fails \/ ~proc[p].ownsPid)
    BY <2>1 DEF RemovePidFile
  <2>5. pidFile # p \/ Held(x)
    BY <1>1, <1>b, <2>2, <2>4 DEF Held, Ended
  <2> QED
    BY <1>o, <2>3, <2>4, <2>5
<1>2. CASE proc[p].at \notin {"running", "refused"} \cup Ended
           /\ pidFile' = pidFile /\ \E r : Become(p, r)
  <2>1. pidFile # p
    BY <1>2, <1>a, <1>b DEF Held, Ended
  <2> QED
    BY <1>2, <1>o, <2>1
<1>3. CASE Kill(p)
  <2>1. Become(p, Blank("killed")) /\ pidFile' = pidFile /\ Blank("killed").at = "killed"
    BY <1>3 DEF Kill, Blank
  <2> QED
    BY <1>o, <2>1 DEF Held
<1>4. CASE Signal(p)
  <2> DEFINE x == [o EXCEPT !.stop = TRUE]
  <2>1. pidFile' = pidFile /\ (Become(p, x) \/ Become(p, Blank("killed")))
    BY <1>4 DEF Signal
  <2>2. /\ x.at = o.at /\ x.ownsPid = o.ownsPid /\ x.leftPid = o.leftPid
        /\ Blank("killed").at = "killed"
    BY <1>a DEF Fields, Blank
  <2> HIDE DEF x
  <2>3. Held(o) => Held(x)
    BY <2>2 DEF Held
  <2>4. Held(Blank("killed"))
    BY <2>2 DEF Held
  <2> QED
    BY <1>b, <1>o, <2>1, <2>3, <2>4
<1>5. CASE CreatePidFile(p)
  <2>1. proc[p].at = "pid"
    BY <1>5 DEF CreatePidFile, At
  <2>2. CASE proc[p].config.pid_file = << >>
    BY <1>2, <1>5, <2>1, <2>2 DEF CreatePidFile, Goto, Ended
  <2>3. CASE proc[p].config.pid_file # << >>
    <3> DEFINE x == [o EXCEPT !.at = "running", !.ownsPid = TRUE]
    <3>1. Become(p, x) /\ pidFile' \in {p, pidFile}
      BY <1>5, <2>3 DEF CreatePidFile
    <3>2. x.at = "running" /\ x.ownsPid = TRUE
      BY <1>a DEF Fields
    <3> HIDE DEF x
    <3>3. proc'[p] = x /\ Held(x)
      BY <1>c, <3>1, <3>2 DEF Held
    <3> QED
      BY <1>o, <3>1, <3>3
  <2> QED
    BY <2>2, <2>3
<1>6. CASE Collect(p)
  <2>1. PICK m \in Readings[p] :
          Become(p, [o EXCEPT !.measured = m, !.sample = Collected(m, EnableGpu(p)),
                              !.at = IF Validate(Collected(m, EnableGpu(p)))
                                     THEN "running" ELSE "refused"])
    BY <1>6 DEF Collect
  <2> DEFINE sample == Collected(m, EnableGpu(p))
             x == [o EXCEPT !.measured = m, !.sample = sample,
                            !.at = IF Validate(sample) THEN "running" ELSE "refused"]
  <2>2. Become(p, x) /\ o.at = "running" /\ pidFile' = pidFile
    BY <1>6, <2>1 DEF Collect, At
  <2> HIDE DEF sample
  <2>3. x.at \in {"running", "refused"} /\ x.ownsPid = o.ownsPid
    BY <1>a DEF Fields
  <2> HIDE DEF x
  <2>4. Held(o) => Held(x)
    BY <2>2, <2>3 DEF Held, Ended
  <2> QED
    BY <1>b, <1>o, <2>2, <2>4
<1>7. CASE FetchSettings(p)
  <2>1. PICK gpu \in BOOLEAN : Become(p, [o EXCEPT !.config.enable_gpu = gpu])
    BY <1>7 DEF FetchSettings
  <2> DEFINE x == [o EXCEPT !.config.enable_gpu = gpu]
  <2>2. pidFile' = pidFile
    BY <1>7 DEF FetchSettings
  <2>3. x.at = o.at /\ x.ownsPid = o.ownsPid /\ x.leftPid = o.leftPid
    BY <1>a DEF Fields
  <2>4. Become(p, x)
    BY <2>1
  <2> HIDE DEF x
  <2>5. Held(o) => Held(x)
    BY <2>3 DEF Held
  <2> QED
    BY <1>b, <1>o, <2>2, <2>4, <2>5
<1>8. CASE Refuse(p) \/ Leave(p)
  BY <1>1, <1>8 DEF Refuse, Leave, At, Ended
<1>9. CASE \/ \E args \in CommandLines[p] : Start(p, args)
           \/ MaybeDaemonize(p) \/ RedirectOutput(p) \/ WriteLog(p)
  BY <1>2, <1>9 DEF Start, MaybeDaemonize, RedirectOutput, WriteLog, Goto, At, Ended
<1>10. CASE Load(p) \/ Daemonize(p) \/ InitializeLog(p)
  <2>1. proc[p].at \in {"load", "fork", "open"}
    BY <1>10 DEF Load, Daemonize, InitializeLog, At
  <2>2. \/ Ends(p, "exit1")
        \/ pidFile' = pidFile /\ \E r : Become(p, r)
    BY <1>10, Zenon DEF Load, Daemonize, InitializeLog, OpenFails, Goto
  <2>3. proc[p].at \notin {"running", "refused"} \cup Ended
    BY <2>1 DEF Ended
  <2> QED
    BY <1>1, <1>2, <2>2, <2>3
<1> QED
  BY <1>3, <1>4, <1>5, <1>6, <1>7, <1>8, <1>9, <1>10 DEF ProcessStep, StartUp

(* The theorems *)

\* Before anything is started the invariant holds.
LEMMA InitFits == Init => DaemonInv
<1> SUFFICES ASSUME Init PROVE DaemonInv
  OBVIOUS
<1>1. file \in Files /\ rewriting \in Written \cup {None} /\ pidFile = None
  BY DEF Init, Files
<1>2. \A p \in Procs : Fits(p, Blank("absent"))
  BY BlankFits DEF Control
<1>3. DOMAIN proc = Procs /\ \A p \in Procs : Fits(p, proc[p])
  BY <1>2 DEF Init
<1> QED
  BY <1>1, <1>3 DEF DaemonInv, TypeOK, PidFileFits, Fits

\* Every step of a process and of a writer of the file keeps it.
LEMMA NextFits == DaemonInv /\ [Next]_vars => DaemonInv'
<1> SUFFICES ASSUME DaemonInv, [Next]_vars PROVE DaemonInv'
  OBVIOUS
<1>a. TypeOK /\ PidFileFits /\ ProcessesFit
  BY DEF DaemonInv, TypeOK, ProcessesFit, Fits
<1>b. /\ file \in Files /\ rewriting \in Written \cup {None}
      /\ pidFile \in Procs \cup {None}
  BY <1>a DEF TypeOK
<1>c. (/\ file' \in Files /\ rewriting' \in Written \cup {None}
       /\ pidFile' \in Procs \cup {None} /\ PidFileFits' /\ ProcessesFit')
      => DaemonInv'
  BY DEF DaemonInv, TypeOK, ProcessesFit, Fits
<1>1. CASE BeginRewrite \/ FinishRewrite
  <2>1. file' \in Files /\ rewriting' \in Written \cup {None}
    BY <1>1, <1>b DEF BeginRewrite, FinishRewrite, Files
  <2>2. proc' = proc /\ pidFile' = pidFile
    BY <1>1 DEF BeginRewrite, FinishRewrite
  <2>3. PidFileFits' /\ ProcessesFit'
    BY <1>a, <2>2 DEF PidFileFits, ProcessesFit, At
  <2> QED
    BY <1>b, <1>c, <2>1, <2>2, <2>3
<1>2. ASSUME NEW p \in Procs, ProcessStep(p) PROVE DaemonInv'
  BY <1>a, <1>b, <1>c, <1>2, StepsFit, StepsLeaveFiles, PidFileKept
<1>3. CASE UNCHANGED vars
  BY <1>a, <1>b, <1>c, <1>3 DEF vars, PidFileFits, ProcessesFit, At
<1> QED
  BY <1>1, <1>2, <1>3 DEF Next, ProcessStep

\* What a process has from what it has read holds in every reachable state, for any
\* processes, command lines, readings, configurations and files.
THEOREM DaemonInvariance == Spec => []DaemonInv
BY InitFits, NextFits, PTL DEF Spec

\* Type correctness: numbers fit their fields, a port the port's.
THEOREM DaemonTyped == Spec => []TypeOK
<1>1. DaemonInv => TypeOK
  BY DEF DaemonInv
<1> QED
  BY <1>1, DaemonInvariance, PTL

\* What the PID file names is alive, was killed, or has said that it could not remove it,
\* whichever processes have overwritten or removed it (~DaemonManager).
THEOREM PidFileNamesTheLiving == Spec => []PidFileOfTheLiving
<1>1. DaemonInv => PidFileOfTheLiving
  BY DEF DaemonInv, PidFileFits, PidFileOfTheLiving, At
<1> QED
  BY <1>1, DaemonInvariance, PTL

\* Of a document that is cut off nothing is in force, unless it is cut behind a brace in a
\* text, and then what comes before (isJsonFormat).
THEOREM NothingOfAHalf == Spec => []NeverHalfConfigured
<1>1. DaemonInv => NeverHalfConfigured
  BY DEF DaemonInv, NeverHalfConfigured, HalfIsNothing, At
<1> QED
  BY <1>1, DaemonInvariance, PTL

\* An agent runs with what was written for it, in either format and by each writer, text by
\* text as far as json.dumps escapes none of it and no quote cuts it short.
THEOREM RunsAsMeant == Spec => []RunsAsWritten
<1>1. DaemonInv => RunsAsWritten
  BY DEF DaemonInv, RunsAsWritten, WholeIsMeant, At
<1> QED
  BY <1>1, DaemonInvariance, PTL

\* The sample a process has is one that collect has made of a reading.
LEMMA CollectedSamplesFit ==
  ASSUME NEW p \in Procs, NEW r, HasCollected(p, r), r.sample # None
  PROVE  /\ SampleFits(r.sample)
         /\ ValidationErrors(r.sample) \subseteq Implausible(r.measured)
<1>1. PICK gpu \in BOOLEAN : r.sample = Collected(r.measured, gpu)
  BY DEF HasCollected
<1>2. r.measured \in Reading
  BY DaemonAssumption DEF HasCollected
<1> QED
  BY <1>1, <1>2, CollectedFits, OnlyMeasuredErrors

\* MetricsData::validate and getValidationErrors agree on every sample, whatever the
\* readings and the number of cores, GPUs and processes.
THEOREM JudgesAlwaysAgree == Spec => []RefusalsAreExplained
<1>1. DaemonInv => RefusalsAreExplained
  BY CollectedSamplesFit, JudgesAgree DEF DaemonInv, RefusalsAreExplained
<1> QED
  BY <1>1, DaemonInvariance, PTL

\* Nothing that collect clamps, casts, counts, parses or fills in is ever refused: a rule
\* a sample breaks its reading has broken.
THEOREM ComputedIsValid == Spec => []OnlyReadingsAreRefused
<1>1. DaemonInv => OnlyReadingsAreRefused
  BY CollectedSamplesFit DEF DaemonInv, OnlyReadingsAreRefused
<1> QED
  BY <1>1, DaemonInvariance, PTL
=============================================================================
