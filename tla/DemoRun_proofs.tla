---------------------------- MODULE DemoRun_proofs ----------------------------
(***************************************************************************)
(* Proofs about DemoRun, for any scenarios, model calls, failing probes    *)
(* and interrupts: what a run leaves behind, what it accounts for, what a  *)
(* verdict without an unexpected probe means, and that a run leaves what   *)
(* RunOutcome allows, and so what SecurityBenchmark reckons with.          *)
(***************************************************************************)
EXTENDS DemoRun, FiniteSetTheorems, TLAPS

(* The two files of the gateway, in the order in which they are copied.    *)
LEMMA OrderFacts ==
  /\ CopyOrder # <<>> /\ Tail(CopyOrder) # <<>> /\ Tail(CopyOrder) # CopyOrder
  /\ Head(CopyOrder) = "gateway-trace.jsonl" /\ Len(CopyOrder) = 2
  /\ Head(Tail(CopyOrder)) = "gateway.log" /\ Len(Tail(CopyOrder)) = 1
  /\ Tail(Tail(CopyOrder)) = <<>>
BY DEF CopyOrder

(* As long as a probe has not reported there is a next one.                *)
LEMMA NextProbe ==
  ASSUME NEW S \in SUBSET Probes, S # Probes
  PROVE  ProbeOrder[Cardinality(S) + 1] \in Probes
<1> DEFINE One == {"approved-artifact"}
           Two == One \union {"backend-identity"}
           Three == Two \union {"network-egress"}
           Four == Three \union {"outside-workspace-write"}
           Five == Four \union {"process-listing"}
<1>1. IsFiniteSet(One) /\ Cardinality(One) = 1
  BY FS_Singleton
<1>2. IsFiniteSet(Two) /\ Cardinality(Two) = 2
  <2> HIDE DEF One
  <2>1. "backend-identity" \notin One
    BY DEF One
  <2> QED
    BY <1>1, <2>1, FS_AddElement
<1>3. IsFiniteSet(Three) /\ Cardinality(Three) = 3
  <2>1. "network-egress" \notin Two
    OBVIOUS
  <2> HIDE DEF Two
  <2> QED
    BY <1>2, <2>1, FS_AddElement
<1>4. IsFiniteSet(Four) /\ Cardinality(Four) = 4
  <2>1. "outside-workspace-write" \notin Three
    OBVIOUS
  <2> HIDE DEF Three
  <2> QED
    BY <1>3, <2>1, FS_AddElement
<1>5. IsFiniteSet(Five) /\ Cardinality(Five) = 5
  <2>1. "process-listing" \notin Four
    OBVIOUS
  <2> HIDE DEF Four
  <2> QED
    BY <1>4, <2>1, FS_AddElement
<1>6. Five = Probes
  BY DEF Probes
<1> HIDE DEF Five
<1>7. Cardinality(S) \in 0 .. 4
  BY <1>5, <1>6, FS_Subset, FS_CardinalityType
<1> QED
  BY <1>7 DEF ProbeOrder, Probes

(* The first state of a run has the types ...                              *)
LEMMA InitTypeOK == Init => TypeOK
<1> SUFFICES ASSUME Init PROVE TypeOK
  OBVIOUS
<1>1. NothingReported \in Reports
  <2>1. NothingReported \in [{} -> Observations] /\ {} \in SUBSET Probes
    BY DEF NothingReported
  <2> QED
    BY <2>1 DEF Reports
<1>2. \A s \in Statuses : NoProbes(s) \in Files
  BY <1>1 DEF NoProbes, Files
<1>3. backend \in Backends /\ mode \in Modes /\ fake \in BOOLEAN /\ open \subseteq Channels
  BY DemoAssumption DEF Init
<1>4. /\ interrupts \in 0 .. MaxInterrupts[mode]
      /\ call \in [n : 0 .. MaxCalls, at : {"idle", "upstream", "answered", "replied", "logged"}]
  BY <1>3, DemoAssumption DEF Init
<1>5. saved \in UNION {[F -> SUBSET Calls] : F \in SUBSET GatewayFiles}
  <2>1. saved \in [{} -> SUBSET Calls] /\ {} \in SUBSET GatewayFiles
    BY DEF Init
  <2> QED
    BY <2>1
<1>6. work \in Files /\ raw \in Files /\ report \in Reports
  BY <1>1, <1>2 DEF Init, Statuses
<1> QED
  BY <1>3, <1>4, <1>5, <1>6 DEF Init, TypeOK, RunSh, Unscored, Unaccounted, Unwritten

(* ... and every step keeps them; that the gateway is busy only with calls  *)
(* that were made is part of CopyInv.                                      *)
LEMMA TypeStep == TypeOK /\ CopyInv /\ [Next]_vars => TypeOK'
<1> SUFFICES ASSUME TypeOK, CopyInv, [Next]_vars PROVE TypeOK'
  OBVIOUS
<1> USE DEF vars, config, boundary, gateway, evidence, results, sampler
<1>1. CASE Start
  <2>1. up' \subseteq Services
    BY <1>1 DEF Start, TypeOK, Services
  <2>2. pc' = "prepare"
    BY <1>1 DEF Start
  <2> QED
    BY <1>1, <2>1, <2>2 DEF Start, TypeOK, RunSh
<1>2. CASE Prepare
  BY <1>2 DEF Prepare, TypeOK, RunSh
<1>3. CASE InstallTrap
  BY <1>3 DEF InstallTrap, TypeOK, RunSh
<1>4. CASE StartServices
  <2>1. PICK s \in {"sink", "marker", "gateway"}, next \in {"marker", "gateway", "launch"} :
          StartService(s, next)
    BY <1>4 DEF StartServices
  <2>2. up' \subseteq Services
    <3>1. up \subseteq Services /\ s \in Services
      BY DEF TypeOK, Services
    <3>2. up' \subseteq up \union {s}
      BY <2>1 DEF StartService
    <3> QED
      BY <3>1, <3>2
  <2>3. pc' \in RunSh
    BY <2>1 DEF StartService, RunSh
  <2> QED
    BY <2>1, <2>2, <2>3 DEF StartService, TypeOK
<1>5. CASE Launch
  BY <1>5 DEF Launch, TypeOK, RunSh, Services
<1>6. CASE Wait
  BY <1>6 DEF Wait, TypeOK, RunSh
<1>7. CASE StopSampler
  BY <1>7 DEF StopSampler, TypeOK, RunSh
<1>8. CASE CopyFile
  <2>1. PICK F \in SUBSET GatewayFiles : saved \in [F -> SUBSET Calls]
    BY DEF TypeOK
  <2>2. Head(uncopied) \in GatewayFiles /\ uncopied' \in {Tail(CopyOrder), <<>>}
    BY <1>8, OrderFacts DEF CopyFile, TypeOK, GatewayFiles
  <2>3. \A f : Contents(f) \in SUBSET Calls
    BY DEF Contents, TypeOK
  <2>4. saved' \in UNION {[G -> SUBSET Calls] : G \in SUBSET GatewayFiles}
    <3>1. CASE saved' = saved
      BY <3>1 DEF TypeOK
    <3>2. CASE saved' = [g \in DOMAIN saved \union {Head(uncopied)} |->
                           IF g = Head(uncopied) THEN Contents(Head(uncopied)) ELSE saved[g]]
      <4>1. F \union {Head(uncopied)} \in SUBSET GatewayFiles
        BY <2>2
      <4>2. saved' \in [F \union {Head(uncopied)} -> SUBSET Calls]
        BY <2>1, <2>3, <3>2
      <4> QED
        BY <4>1, <4>2
    <3> QED
      BY <1>8, <3>1, <3>2 DEF CopyFile
  <2>5. pc' \in RunSh
    BY <1>8 DEF CopyFile, RunSh
  <2>6. UNCHANGED <<config, trap, up, sampler, interrupts, launcher, boundary, gateway, hostside,
                    evidence, raw, verdicts, evalRc, cost, turns>>
    BY <1>8 DEF CopyFile
  <2> QED
    BY <2>2, <2>4, <2>5, <2>6 DEF TypeOK
<1>9. CASE Collect
  BY <1>9 DEF Collect, Fetched, TypeOK, RunSh
<1>10. CASE RunEvaluate
  <2>1. verdicts' \in [Probes -> {"none", "as-expected", "info", "UNEXPECTED"}]
    BY <1>10 DEF RunEvaluate, Verdicts, Verdict, Unscored
  <2> QED
    BY <1>10, <2>1 DEF RunEvaluate, EvalRc, TypeOK, RunSh
<1>11. CASE Footprint
  <2>1. "gateway.log" \in DOMAIN saved => saved["gateway.log"] \in SUBSET Calls
    BY DEF TypeOK
  <2>2. cost' \in [kind : {"none", "estimated", "measured"}, calls : SUBSET Calls, sampled : BOOLEAN]
    BY <1>11, <2>1 DEF Footprint, GatewayCost, Cost, TypeOK
  <2> QED
    BY <1>11, <2>2 DEF Footprint, TypeOK, RunSh
<1>12. CASE Trajectory
  BY <1>12 DEF Trajectory, TypeOK, RunSh
<1>13. CASE Wipe
  <2>1. hostside' \in BOOLEAN /\ sample' \subseteq {"hostside", "collected"} /\ pc' \in RunSh
    BY <1>13 DEF Wipe, TypeOK, RunSh
  <2> QED
    BY <1>13, <2>1 DEF Wipe, TypeOK
<1>14. CASE Finish \/ Die
  BY <1>14 DEF Finish, Die, Exit, TypeOK, RunSh
<1>15. CASE Interrupt
  <2>1. interrupts' \in 0 .. MaxInterrupts[mode]'
    BY <1>15, DemoAssumption DEF Interrupt, TypeOK
  <2> QED
    BY <1>15, <2>1 DEF Interrupt, TypeOK, RunSh
<1>16. CASE Refuse
  <2>1. NoProbes("not-executed") \in Files
    <3>1. NothingReported \in [{} -> Observations] /\ {} \in SUBSET Probes
      BY DEF NothingReported
    <3> QED
      BY <3>1 DEF Reports, Files, NoProbes, Statuses
  <2> QED
    BY <1>16, <2>1 DEF Refuse, TypeOK
<1>17. CASE Boot
  BY <1>17 DEF Boot, TypeOK
<1>18. CASE CopyOut
  BY <1>18 DEF CopyOut, Fetched, TypeOK
<1>19. CASE CallModel
  BY <1>19, DemoAssumption DEF CallModel, TypeOK
<1>20. CASE Comply
  BY <1>20 DEF Comply, TypeOK
<1>21. CASE AiderEnds \/ EmulatorEnds \/ Accept
  <2>1. artifact' \in BOOLEAN
    BY <1>21 DEF AiderEnds, EmulatorEnds, Accept, TypeOK
  <2>2. accepted' \in {"none", "pass", "fail"} /\ inside' \in {"accept", "probes"}
    BY <1>21 DEF AiderEnds, EmulatorEnds, Accept, TypeOK
  <2>3. UNCHANGED <<config, pc, trap, up, sampler, interrupts, launcher, report, work, blind,
                    gateway, hostside, evidence, results>>
    BY <1>21 DEF AiderEnds, EmulatorEnds, Accept
  <2> QED
    BY <2>1, <2>2, <2>3 DEF TypeOK
<1>22. CASE RunProbe
  <2>1. PICK P \in SUBSET Probes : report \in [P -> Observations]
    BY DEF TypeOK, Reports
  <2> DEFINE p == ProbeOrder[Cardinality(DOMAIN report) + 1]
  <2>2. p \in Probes
    BY <1>22, <2>1, NextProbe DEF RunProbe
  <2> HIDE DEF p
  <2>3. PICK o \in {Finding(p), "error"} :
          report' = [q \in DOMAIN report \union {p} |-> IF q = p THEN o ELSE report[q]]
    BY <1>22 DEF RunProbe, p
  <2>4. o \in Observations
    BY <2>2, <2>3 DEF Finding, Observations, Probes
  <2>5. report' \in [P \union {p} -> Observations] /\ P \union {p} \in SUBSET Probes
    BY <2>1, <2>2, <2>3, <2>4
  <2>6. report' \in Reports
    BY <2>5 DEF Reports
  <2>7. blind' \subseteq Probes
    BY <1>22, <2>2 DEF RunProbe, p, TypeOK
  <2> QED
    BY <1>22, <2>6, <2>7 DEF RunProbe, TypeOK
<1>23. CASE WriteProbes
  BY <1>23 DEF WriteProbes, TypeOK, Files, Statuses
<1>24. CASE Killed
  <2>1. NoProbes("torn") \in Files
    <3>1. NothingReported \in [{} -> Observations] /\ {} \in SUBSET Probes
      BY DEF NothingReported
    <3> QED
      BY <3>1 DEF Reports, Files, NoProbes, Statuses
  <2> QED
    BY <1>24, <2>1 DEF Killed, TypeOK
<1>25. CASE Gateway
  <2>1. call' \in [n : 0 .. MaxCalls, at : {"idle", "upstream", "answered", "replied", "logged"}]
    BY <1>25 DEF Gateway, Upstream, Reply, LogUsage, TraceTurn, At, TypeOK
  <2>2. usage' \subseteq Calls /\ trace' \subseteq Calls
    BY <1>25 DEF Gateway, Upstream, Reply, LogUsage, TraceTurn, At, TypeOK, CopyInv
  <2>3. UNCHANGED <<config, pc, trap, up, sampler, interrupts, launcher, boundary, hostside,
                    evidence, results>>
    BY <1>25 DEF Gateway
  <2> QED
    BY <2>1, <2>2, <2>3 DEF TypeOK
<1>26. CASE MarkerEnds \/ ArmSampler
  <2>1. CASE MarkerEnds
    BY <2>1 DEF MarkerEnds, TypeOK
  <2>2. CASE ArmSampler
    BY <2>2 DEF ArmSampler, TypeOK
  <2> QED
    BY <1>26, <2>1, <2>2
<1>27. CASE UNCHANGED vars
  BY <1>27 DEF TypeOK
<1> QED
  BY <1>1, <1>2, <1>3, <1>4, <1>5, <1>6, <1>7, <1>8, <1>9, <1>10, <1>11, <1>12, <1>13, <1>14, <1>15,
     <1>16, <1>17, <1>18, <1>19, <1>20, <1>21, <1>22, <1>23, <1>24, <1>25, <1>26, <1>27
  DEF Next, RunShStep, Launcher, Inside

(* A run begins with nothing running.                                      *)
LEMMA InitPhaseInv == Init => PhaseInv
BY DEF Init, PhaseInv, LeftBehind, BeforeTrap, BeforeLaunch, AfterSampler, AfterCopy, AfterCost

(* What runs at each phase of run.sh, and what an early end leaves behind. *)
LEMMA PhaseStep == TypeOK /\ PhaseInv /\ [Next]_vars => PhaseInv'
<1> SUFFICES ASSUME TypeOK, PhaseInv, [Next]_vars PROVE PhaseInv'
  OBVIOUS
<1> USE DEF vars, config, boundary, gateway, evidence, results, sampler
<1> USE DEF PhaseInv, LeftBehind, Ended, BeforeTrap, BeforeLaunch, AfterSampler, AfterCopy, AfterCost
<1>1. CASE Start
  <2>1. pc = "start" /\ pc' = "prepare" /\ up' \subseteq up \union {"fake"}
    BY <1>1 DEF Start
  <2>2. UNCHANGED <<trap, launcher, interrupts>>
    BY <1>1 DEF Start
  <2> QED
    BY <2>1, <2>2
<1>2. CASE Prepare \/ InstallTrap
  BY <1>2 DEF Prepare, InstallTrap
<1>3. CASE StartServices
  <2>1. PICK s \in {"sink", "marker", "gateway"}, next \in {"marker", "gateway", "launch"} :
          StartService(s, next)
    BY <1>3 DEF StartServices
  <2>2. up' \subseteq up \union {s} /\ pc = s /\ pc' = next /\ UNCHANGED <<trap, launcher, interrupts>>
    BY <2>1 DEF StartService
  <2> QED
    BY <2>2
<1>4. CASE Launch
  BY <1>4 DEF Launch
<1>5. CASE Wait
  BY <1>5 DEF Wait
<1>6. CASE StopSampler
  BY <1>6 DEF StopSampler
<1>7. CASE CopyFile
  <2>1. pc = "copy" /\ pc' \in {"copy", "collect"} /\ UNCHANGED <<trap, up, launcher, interrupts>>
    BY <1>7 DEF CopyFile
  <2> QED
    BY <2>1
<1>8. CASE Collect \/ RunEvaluate \/ Footprint \/ Trajectory \/ Wipe
  <2>1. pc \in AfterSampler /\ pc' \in AfterSampler /\ UNCHANGED <<trap, up, launcher, interrupts>>
    BY <1>8 DEF Collect, RunEvaluate, Footprint, Trajectory, Wipe
  <2> QED
    BY <2>1
<1>9. CASE Finish \/ Die
  <2>1. pc \in {"start", "prepare"} \union AfterSampler /\ pc' = "gone" /\ Exit
    BY <1>9 DEF Finish, Die, Exit
  <2>2. up' = (IF trap THEN up \ CleanupAll ELSE up) /\ UNCHANGED <<trap, launcher, interrupts>>
    BY <1>9 DEF Finish, Die, Exit
  <2> QED
    BY <2>1, <2>2 DEF CleanupAll
<1>10. CASE Interrupt
  <2>1. pc # "gone" /\ pc' = "gone" /\ interrupts' = interrupts + 1 /\ UNCHANGED <<trap, launcher>>
    BY <1>10 DEF Interrupt
  <2>3. interrupts' > 0
    BY <2>1, DemoAssumption DEF TypeOK
  <2>2. up' \subseteq (IF trap THEN up \ CleanupAll ELSE up)
    BY <1>10 DEF Interrupt
  <2> QED
    BY <2>1, <2>2, <2>3 DEF CleanupAll
<1>11. CASE Launcher
  <2>1. launcher \in {"checks", "running"} /\ UNCHANGED <<pc, trap, up, interrupts>>
    BY <1>11 DEF Launcher, Refuse, Boot, CopyOut
  <2>2. launcher' \in {"running"} \union Ended
    BY <1>11 DEF Launcher, Refuse, Boot, CopyOut
  <2> QED
    BY <2>1, <2>2
<1>12. CASE Inside \/ Gateway \/ ArmSampler
  BY <1>12 DEF Inside, CallModel, Comply, AiderEnds, EmulatorEnds, Accept, RunProbe, WriteProbes,
     Killed, Gateway, ArmSampler
<1>13. CASE MarkerEnds
  BY <1>13 DEF MarkerEnds
<1>14. CASE UNCHANGED vars
  BY <1>14
<1> QED
  BY <1>1, <1>2, <1>3, <1>4, <1>5, <1>6, <1>7, <1>8, <1>9, <1>10, <1>11, <1>12, <1>13, <1>14
  DEF Next, RunShStep

(* Nothing has been logged, traced or copied.                              *)
LEMMA InitCopyInv == Init => CopyInv
BY OrderFacts DEF Init, CopyInv, TurnsAreCounted, AfterSampler, AfterCopy, AfterCost

(* A turn is in the log before it is in the trace, and the trace is copied *)
(* before the log is.                                                      *)
LEMMA CopyStep == TypeOK /\ CopyInv /\ [Next]_vars => CopyInv'
<1> SUFFICES ASSUME TypeOK, CopyInv, [Next]_vars PROVE CopyInv'
  OBVIOUS
<1> USE DEF vars, config, boundary, gateway, evidence, results, sampler
<1> USE DEF AfterSampler, AfterCopy, AfterCost
<1>1. CASE Start \/ Prepare \/ InstallTrap \/ StartServices \/ Launch \/ Wait \/ StopSampler
  <2>1. /\ pc \notin AfterSampler \union {"gone"}
        /\ pc' \notin AfterSampler \union {"gone"} \/ pc' = "copy"
    BY <1>1 DEF Start, Prepare, InstallTrap, StartServices, StartService, Launch, Wait, StopSampler
  <2>2. UNCHANGED <<call, usage, trace, uncopied, saved>>
    BY <1>1 DEF Start, Prepare, InstallTrap, StartServices, StartService, Launch, Wait, StopSampler
  <2> QED
    BY <2>1, <2>2, OrderFacts DEF CopyInv, TurnsAreCounted
<1>2. CASE CopyFile
  <2>1. /\ pc = "copy" /\ uncopied \in {CopyOrder, Tail(CopyOrder)} /\ uncopied' = Tail(uncopied)
        /\ pc' = IF Len(uncopied) = 1 THEN "collect" ELSE "copy"
        /\ UNCHANGED <<call, usage, trace>>
    BY <1>2 DEF CopyFile, TypeOK
  <2>2. \/ saved' = saved
        \/ saved' = [g \in DOMAIN saved \union {Head(uncopied)} |->
                       IF g = Head(uncopied) THEN Contents(Head(uncopied)) ELSE saved[g]]
    BY <1>2 DEF CopyFile
  <2>3. CASE uncopied = CopyOrder
    <3>1. DOMAIN saved' \subseteq {"gateway-trace.jsonl"} /\ uncopied' = Tail(CopyOrder) /\ pc' = "copy"
      BY <2>1, <2>2, <2>3, OrderFacts DEF CopyInv
    <3>2. "gateway-trace.jsonl" \in DOMAIN saved' => saved'["gateway-trace.jsonl"] = trace
      BY <2>2, <2>3, OrderFacts DEF CopyInv, Contents
    <3> QED
      BY <2>1, <3>1, <3>2, OrderFacts DEF CopyInv, TurnsAreCounted
  <2>4. CASE uncopied = Tail(CopyOrder)
    <3>1. uncopied' = <<>> /\ pc' = "collect" /\ CopyOrder # <<>>
      BY <2>1, <2>4, OrderFacts
    <3>2. /\ "gateway-trace.jsonl" \in DOMAIN saved' <=> "gateway-trace.jsonl" \in DOMAIN saved
          /\ "gateway-trace.jsonl" \in DOMAIN saved' =>
               saved'["gateway-trace.jsonl"] = saved["gateway-trace.jsonl"]
          /\ "gateway.log" \in DOMAIN saved' => saved'["gateway.log"] = usage
      BY <2>2, <2>4, OrderFacts DEF CopyInv, Contents
    <3> QED
      BY <2>1, <3>1, <3>2 DEF CopyInv, TurnsAreCounted
  <2> QED
    BY <2>1, <2>3, <2>4
<1>3. CASE Collect \/ RunEvaluate \/ Footprint \/ Trajectory \/ Wipe
  <2>1. pc' \in AfterCopy /\ UNCHANGED <<call, usage, trace, uncopied, saved>>
    BY <1>3 DEF Collect, RunEvaluate, Footprint, Trajectory, Wipe
  <2> QED
    BY <2>1 DEF CopyInv, TurnsAreCounted
<1>4. CASE Finish \/ Die \/ Interrupt
  <2>1. pc' = "gone" /\ UNCHANGED <<usage, trace, uncopied, saved>>
    BY <1>4 DEF Finish, Die, Exit, Interrupt
  <2>2. call' = call \/ call' = [call EXCEPT !.at = "idle"]
    BY <1>4 DEF Finish, Die, Exit, Interrupt
  <2>3. call'.at # "idle" => call' = call
    BY <2>2 DEF TypeOK
  <2> QED
    BY <2>1, <2>3 DEF CopyInv, TurnsAreCounted
<1>5. CASE CallModel
  <2>1. call'.n \in Calls /\ call'.at = "upstream"
    BY <1>5, DemoAssumption DEF CallModel, TypeOK, Calls
  <2>2. UNCHANGED <<pc, usage, trace, uncopied, saved>>
    BY <1>5 DEF CallModel
  <2> QED
    BY <2>1, <2>2 DEF CopyInv, TurnsAreCounted
<1>6. CASE Gateway
  <2>1. UNCHANGED <<pc, uncopied, saved>> /\ call'.n = call.n /\ call.at # "idle"
    BY <1>6 DEF Gateway, Upstream, Reply, LogUsage, TraceTurn, At, TypeOK
  <2>2. /\ trace \subseteq trace' /\ usage \subseteq usage'
        /\ call'.at = "logged" => call.n \in usage'
        /\ trace' \subseteq trace \union {call.n} /\ (trace' # trace => call.at = "logged")
    BY <1>6 DEF Gateway, Upstream, Reply, LogUsage, TraceTurn, At, TypeOK
  <2> QED
    BY <2>1, <2>2 DEF CopyInv, TurnsAreCounted
<1>7. CASE Launcher \/ MarkerEnds \/ ArmSampler
  <2>1. UNCHANGED <<pc, call, usage, trace, uncopied, saved>>
    BY <1>7 DEF Launcher, Refuse, Boot, CopyOut, MarkerEnds, ArmSampler
  <2> QED
    BY <2>1 DEF CopyInv, TurnsAreCounted
<1>8. CASE Comply \/ AiderEnds \/ EmulatorEnds \/ Accept \/ RunProbe \/ WriteProbes \/ Killed
  <2>1. UNCHANGED <<pc, call, usage, trace, uncopied, saved>>
    BY <1>8 DEF Comply, AiderEnds, EmulatorEnds, Accept, RunProbe, WriteProbes, Killed
  <2> QED
    BY <2>1 DEF CopyInv, TurnsAreCounted
<1>9. CASE UNCHANGED vars
  BY <1>9 DEF CopyInv, TurnsAreCounted
<1> QED
  BY <1>1, <1>2, <1>3, <1>4, <1>5, <1>6, <1>7, <1>8, <1>9 DEF Next, RunShStep, Inside

(* Nothing has been accounted for.                                         *)
LEMMA InitCostInv == Init => CostInv
BY DEF Init, CostInv, SampleIsKept, Unaccounted, AfterSampler, AfterCopy, AfterCost

(* What the first footprint reads does not change any more.                *)
LEMMA CostStep ==
  ASSUME TypeOK, PhaseInv, CopyInv, CostInv, [Next]_vars
  PROVE  CostInv' /\ (cost.kind # "none" => cost' = cost)
<1> USE DEF vars, config, boundary, gateway, evidence, results, sampler
<1> USE DEF AfterSampler, AfterCopy, AfterCost, CostInv, SampleIsKept
<1>1. CASE Start \/ Prepare \/ InstallTrap \/ StartServices \/ Launch \/ Wait
  <2>1. pc \notin AfterSampler \union {"gone"} /\ pc' \notin AfterSampler \union {"gone"}
    BY <1>1 DEF Start, Prepare, InstallTrap, StartServices, StartService, Launch, Wait
  <2>2. UNCHANGED <<cost, armed>>
    BY <1>1 DEF Start, Prepare, InstallTrap, StartServices, StartService, Launch, Wait
  <2> QED
    BY <2>1, <2>2 DEF Unaccounted
<1>2. CASE StopSampler
  <2>1. pc = "sampler" /\ pc' = "copy" /\ UNCHANGED <<cost, armed>>
    BY <1>2 DEF StopSampler
  <2>2. sample' = IF armed THEN {"hostside", "collected"} ELSE {}
    BY <1>2 DEF StopSampler
  <2> QED
    BY <2>1, <2>2 DEF Unaccounted, TypeOK
<1>3. CASE CopyFile
  <2>1. /\ pc = "copy" /\ uncopied \in {CopyOrder, Tail(CopyOrder)}
        /\ pc' = IF Len(uncopied) = 1 THEN "collect" ELSE "copy"
        /\ UNCHANGED <<cost, armed, sample, up>>
    BY <1>3 DEF CopyFile, TypeOK, CopyInv
  <2>2. saved' = IF Exists(Head(uncopied))
                 THEN [g \in DOMAIN saved \union {Head(uncopied)} |->
                         IF g = Head(uncopied) THEN Contents(Head(uncopied)) ELSE saved[g]]
                 ELSE saved
    BY <1>3 DEF CopyFile
  <2>3. pc' = "collect" => "gateway.log" \in DOMAIN saved' \/ "gateway" \notin up
    <3>1. CASE uncopied = CopyOrder
      BY <2>1, <3>1, OrderFacts
    <3>2. CASE uncopied = Tail(CopyOrder)
      <4>1. Head(uncopied) = "gateway.log"
        BY <3>2, OrderFacts
      <4>2. "gateway" \in up => "gateway.log" \in DOMAIN saved'
        BY <2>2, <4>1 DEF Exists
      <4> QED
        BY <4>2
    <3> QED
      BY <2>1, <3>1, <3>2
  <2> QED
    BY <2>1, <2>3 DEF Unaccounted
<1>4. CASE Collect \/ RunEvaluate
  <2>1. /\ pc \in {"collect", "evaluate"} /\ pc' \in {"evaluate", "footprint"}
        /\ UNCHANGED <<cost, armed, sample, up, saved>>
    BY <1>4 DEF Collect, RunEvaluate
  <2> QED
    BY <2>1 DEF Unaccounted
<1>5. CASE Footprint
  <2>1. /\ cost' = GatewayCost /\ UNCHANGED <<armed, sample, up, saved, hostside, usage, raw>>
        /\ \/ pc = "footprint" /\ pc' = "trajectory"
           \/ pc = "footprint2" /\ pc' = "exit"
    BY <1>5 DEF Footprint
  <2>2. GatewayCost' = GatewayCost
    BY <2>1 DEF GatewayCost, Cost
  <2>3. cost' = cost \/ (cost'.sampled <=> sample # {})
    BY <2>1 DEF GatewayCost, Cost
  <2>4. cost.kind # "none" => cost' = cost
    BY <2>1 DEF Unaccounted
  <2> QED
    BY <2>1, <2>2, <2>3, <2>4 DEF PhaseInv
<1>6. CASE Trajectory \/ Wipe
  <2>1. pc \in AfterCost /\ pc' \in AfterCost /\ UNCHANGED <<cost, armed, up, saved, raw, usage>>
    BY <1>6 DEF Trajectory, Wipe
  <2>2. (sample' = sample /\ hostside' = hostside) \/ sample' = sample \ {"hostside"}
    BY <1>6 DEF Trajectory, Wipe
  <2>3. sample' = {} <=> sample = {}
    BY <2>1, <2>2
  <2>4. GatewayCost' = GatewayCost
    BY <2>1, <2>3 DEF GatewayCost, Cost
  <2> QED
    BY <2>1, <2>2, <2>3, <2>4
<1>7. CASE Finish \/ Die \/ Interrupt
  <2>1. pc' = "gone" /\ up' \subseteq up /\ UNCHANGED <<cost, armed>>
    BY <1>7 DEF Finish, Die, Exit, Interrupt
  <2> QED
    BY <2>1
<1>8. CASE Refuse \/ CopyOut
  <2>1. launcher \notin Ended /\ UNCHANGED <<pc, up, cost, armed, sample, saved>>
    BY <1>8 DEF Refuse, CopyOut, Ended
  <2>2. pc \notin AfterSampler
    BY <2>1 DEF PhaseInv
  <2> QED
    BY <2>1, <2>2
<1>9. CASE Gateway \/ CallModel
  <2>1. UNCHANGED <<pc, up, cost, armed, sample, saved, hostside, raw>> /\ "gateway" \in up
    BY <1>9 DEF Gateway, CallModel
  <2>2. pc \in AfterCost => GatewayCost' = GatewayCost
    BY <2>1 DEF GatewayCost, Cost
  <2> QED
    BY <2>1, <2>2
<1>10. CASE Boot \/ Comply \/ AiderEnds \/ EmulatorEnds \/ Accept \/ RunProbe \/ WriteProbes \/ Killed
  <2>1. UNCHANGED <<pc, up, cost, armed, sample, saved, hostside, raw, usage>>
    BY <1>10 DEF Boot, Comply, AiderEnds, EmulatorEnds, Accept, RunProbe, WriteProbes, Killed
  <2>2. GatewayCost' = GatewayCost
    BY <2>1 DEF GatewayCost, Cost
  <2> QED
    BY <2>1, <2>2
<1>11. CASE MarkerEnds
  <2>1. up' = up \ {"marker"} /\ UNCHANGED <<pc, cost, armed, sample, saved, hostside, raw, usage>>
    BY <1>11 DEF MarkerEnds
  <2>2. GatewayCost' = GatewayCost
    BY <2>1 DEF GatewayCost, Cost
  <2> QED
    BY <2>1, <2>2
<1>12. CASE ArmSampler
  <2>1. "sampler" \in up /\ UNCHANGED <<pc, up, cost, sample, saved, hostside, raw, usage>>
    BY <1>12 DEF ArmSampler
  <2>2. pc \notin AfterSampler /\ cost.kind = "none"
    BY <2>1 DEF PhaseInv
  <2> QED
    BY <2>1, <2>2
<1>13. CASE UNCHANGED vars
  <2>1. GatewayCost' = GatewayCost
    BY <1>13 DEF GatewayCost, Cost
  <2> QED
    BY <1>13, <2>1
<1> QED
  BY <1>1, <1>2, <1>3, <1>4, <1>5, <1>6, <1>7, <1>8, <1>9, <1>10, <1>11, <1>12, <1>13
  DEF Next, RunShStep, Launcher, Inside

(* Nothing has been reported.                                              *)
LEMMA InitReportInv == Init => ReportInv
BY DEF Init, ReportInv, Truthful, NoProbes, NothingReported, Channel

(* What a probe reported about the boundary, and when nothing changes it.  *)
LEMMA ReportStep == TypeOK /\ PhaseInv /\ ReportInv /\ [Next]_vars => ReportInv'
<1> SUFFICES ASSUME TypeOK, PhaseInv, ReportInv, [Next]_vars PROVE ReportInv'
  OBVIOUS
<1> USE DEF vars, config, boundary, gateway, evidence, results, sampler
<1>1. CASE Launch
  <2>1. launcher = "none" /\ launcher' = "checks"
        /\ UNCHANGED <<mode, open, boundary, raw>>
    BY <1>1 DEF Launch, PhaseInv, BeforeLaunch
  <2> QED
    BY <2>1 DEF ReportInv, Truthful
<1>2. CASE Collect
  BY <1>2 DEF Collect, Fetched, ReportInv, Truthful
<1>3. CASE Refuse
  <2>1. \/ raw' = raw
        \/ raw' = NoProbes("not-executed") /\ launcher' = "skipped"
    BY <1>3 DEF Refuse
  <2>2. launcher = "checks" /\ launcher' \in {"refused", "skipped"}
        /\ UNCHANGED <<mode, open, inside, artifact, accepted, report, work, blind>>
    BY <1>3 DEF Refuse
  <2> QED
    BY <2>1, <2>2 DEF ReportInv, Truthful, NoProbes
<1>4. CASE Boot
  BY <1>4 DEF Boot, ReportInv, Truthful
<1>5. CASE CopyOut
  <2>1. launcher = "running" /\ launcher' \in {"done", "refused"} /\ raw' \in {raw, work}
        /\ UNCHANGED <<mode, open, inside, artifact, accepted, report, work, blind>>
    BY <1>5 DEF CopyOut, Fetched
  <2> QED
    BY <2>1 DEF ReportInv, Truthful
<1>6. CASE AiderEnds \/ EmulatorEnds \/ Accept
  <2>1. /\ inside \in {"agent", "accept"} /\ inside' \in {"accept", "probes"}
        /\ inside' = "probes" /\ mode = "agent" => accepted' # "none"
        /\ UNCHANGED <<mode, open, launcher, report, work, blind, raw>>
    BY <1>6 DEF AiderEnds, EmulatorEnds, Accept
  <2> QED
    BY <2>1 DEF ReportInv, Truthful
<1>7. CASE RunProbe
  <2> DEFINE p == ProbeOrder[Cardinality(DOMAIN report) + 1]
  <2>1. p \in Probes
    <3>1. DOMAIN report \in SUBSET Probes
      BY DEF TypeOK, Reports
    <3> QED
      BY <1>7, <3>1, NextProbe DEF RunProbe
  <2>2. PICK o \in {Finding(p), "error"} :
          report' = [q \in DOMAIN report \union {p} |-> IF q = p THEN o ELSE report[q]]
    BY <1>7 DEF RunProbe
  <2>3. Missed(p) => p \in blind'
    BY <1>7 DEF RunProbe
  <2>4. /\ inside = "probes" /\ DOMAIN report # Probes /\ blind \subseteq blind'
        /\ UNCHANGED <<mode, open, inside, launcher, artifact, accepted, work, raw>>
    BY <1>7 DEF RunProbe
  <2> HIDE DEF p
  <2>5. p = "approved-artifact" /\ o = "succeeded" => artifact /\ accepted # "fail"
    BY <2>2 DEF Finding
  <2>6. p \in DOMAIN Channel /\ ~Missed(p) /\ Channel[p] \in open => Finding(p) = "succeeded"
    BY DEF Finding, Channel
  <2>7. "approved-artifact" \in DOMAIN report' /\ report'["approved-artifact"] = "succeeded" =>
          artifact /\ accepted # "fail" /\ (mode = "agent" => accepted = "pass")
    BY <2>2, <2>4, <2>5 DEF ReportInv, TypeOK
  <2>8. ASSUME NEW q \in DOMAIN Channel \ blind', q \in DOMAIN report', Channel[q] \in open
        PROVE  report'[q] # "blocked"
    BY <2>2, <2>3, <2>4, <2>6, <2>8 DEF ReportInv
  <2>9. work.status # "executed" /\ raw.status # "executed"
    BY <2>4 DEF ReportInv, Truthful
  <2> QED
    BY <2>4, <2>7, <2>8, <2>9 DEF ReportInv, Truthful
<1>8. CASE WriteProbes
  <2>1. work' = [status |-> "executed", probes |-> report] /\ inside' = "over" /\ inside = "probes"
    BY <1>8 DEF WriteProbes
  <2>2. /\ DOMAIN report = Probes
        /\ UNCHANGED <<mode, open, launcher, artifact, accepted, report, blind, raw>>
    BY <1>8 DEF WriteProbes
  <2> QED
    BY <2>1, <2>2 DEF ReportInv, Truthful
<1>9. CASE Killed
  <2>1. work' = work \/ work' = NoProbes("torn")
    BY <1>9 DEF Killed
  <2>2. /\ inside \in {"agent", "accept", "probes"} /\ inside' = "over"
        /\ UNCHANGED <<mode, open, launcher, artifact, accepted, report, blind, raw>>
    BY <1>9 DEF Killed
  <2> QED
    BY <2>1, <2>2 DEF ReportInv, Truthful, NoProbes
<1>10. CASE CallModel \/ Comply \/ Gateway \/ MarkerEnds \/ ArmSampler
  <2>1. UNCHANGED <<mode, open, launcher, boundary, raw>>
    BY <1>10 DEF CallModel, Comply, Gateway, MarkerEnds, ArmSampler
  <2> QED
    BY <2>1 DEF ReportInv, Truthful
<1>11. CASE Start \/ Prepare \/ InstallTrap \/ StartServices \/ Wait \/ StopSampler \/ CopyFile
  <2>1. UNCHANGED <<mode, open, launcher, boundary, raw>>
    BY <1>11 DEF Start, Prepare, InstallTrap, StartServices, StartService, Wait, StopSampler, CopyFile
  <2> QED
    BY <2>1 DEF ReportInv, Truthful
<1>12. CASE RunEvaluate \/ Footprint \/ Trajectory \/ Wipe \/ Finish \/ Die \/ Interrupt
  <2>1. UNCHANGED <<mode, open, launcher, boundary, raw>>
    BY <1>12 DEF RunEvaluate, Footprint, Trajectory, Wipe, Finish, Die, Interrupt
  <2> QED
    BY <2>1 DEF ReportInv, Truthful
<1>13. CASE UNCHANGED vars
  BY <1>13 DEF ReportInv, Truthful
<1> QED
  BY <1>1, <1>2, <1>3, <1>4, <1>5, <1>6, <1>7, <1>8, <1>9, <1>10, <1>11, <1>12, <1>13
  DEF Next, RunShStep, Launcher, Inside

(* Only two probes look for a process of the host.                         *)
LEMMA MissedHasTarget ==
  ASSUME NEW p \in Probes, Missed(p)
  PROVE  p \in {"network-egress", "process-listing"}
BY DEF Missed, Target

(* There is no verdict yet.                                                *)
LEMMA InitOutcome == Init => CleanRunIsComplete /\ OpenChannelIsSeen
BY DEF Init, CleanRunIsComplete, OpenChannelIsSeen, Unscored, Channel, Probes

(* A verdict says of the boundary what the report says that it is made of. *)
LEMMA EvaluateStep ==
  ASSUME TypeOK, ReportInv, RunEvaluate
  PROVE  CleanRunIsComplete' /\ OpenChannelIsSeen'
<1> USE DEF config, boundary, results
<1>1. /\ verdicts' = Verdicts(raw, Host) /\ evalRc' = EvalRc(raw, Host)
      /\ UNCHANGED <<mode, open, launcher, boundary>>
  BY DEF RunEvaluate
<1>2. OpenChannelIsSeen'
  <2> SUFFICES ASSUME NEW p \in DOMAIN Channel \ blind, verdicts'[p] = "as-expected"
               PROVE  Channel[p] \notin open
    BY <1>1 DEF OpenChannelIsSeen
  <2>1. p \in Probes /\ EXPECTED[p] = "blocked"
    BY DEF Channel, Probes, EXPECTED
  <2>2. verdicts'[p] = Verdict(raw, p, Host)
    BY <1>1, <2>1 DEF Verdicts, Unscored
  <2>3. Observed(raw, p, Host) = "blocked"
    BY <2>1, <2>2 DEF Verdict
  <2>4. p \in DOMAIN raw.probes /\ raw.probes[p] = "blocked"
    BY <2>3 DEF Observed, Reported
  <2>5. raw.probes = report
    BY <2>4 DEF ReportInv, Truthful, NothingReported
  <2> QED
    BY <2>4, <2>5 DEF ReportInv
<1>3. CleanRunIsComplete'
  <2> SUFFICES ASSUME evalRc' = "zero", launcher # "skipped"
               PROVE  /\ DOMAIN report = Probes /\ artifact
                      /\ mode = "agent" => accepted = "pass"
    BY <1>1 DEF CleanRunIsComplete
  <2>1. raw.status \notin {"torn", "not-executed"} /\ Unexpected(verdicts') = {}
    BY <1>1 DEF EvalRc, ReportInv
  <2>2. "approved-artifact" \in Probes /\ EXPECTED["approved-artifact"] = "succeeded"
    BY DEF Probes, EXPECTED
  <2>3. verdicts' = [p \in Probes |-> Verdict(raw, p, Host)]
    BY <1>1, <2>1 DEF Verdicts
  <2>4. Verdict(raw, "approved-artifact", Host) # "UNEXPECTED"
    BY <2>1, <2>2, <2>3 DEF Unexpected
  <2>5. Reported(raw, "approved-artifact") = "succeeded"
    BY <2>2, <2>4 DEF Verdict, Observed
  <2>6. "approved-artifact" \in DOMAIN raw.probes /\ raw.probes["approved-artifact"] = "succeeded"
    BY <2>5 DEF Reported
  <2>7. raw.probes = report /\ DOMAIN report = Probes
    BY <2>6 DEF ReportInv, Truthful, NothingReported
  <2> QED
    BY <2>6, <2>7 DEF ReportInv
<1> QED
  BY <1>2, <1>3

(* Nothing that a verdict speaks of changes after it.                      *)
LEMMA OutcomeStep ==
  ASSUME TypeOK, PhaseInv, ReportInv, CleanRunIsComplete, OpenChannelIsSeen, [Next]_vars
  PROVE  CleanRunIsComplete' /\ OpenChannelIsSeen'
<1> USE DEF vars, config, boundary, gateway, evidence, results, sampler
<1>1. CASE RunEvaluate
  BY <1>1, EvaluateStep
<1>2. CASE Start \/ Prepare \/ InstallTrap \/ StartServices \/ Wait \/ StopSampler \/ CopyFile
  <2>1. UNCHANGED <<mode, open, launcher, boundary, verdicts, evalRc>>
    BY <1>2 DEF Start, Prepare, InstallTrap, StartServices, StartService, Wait, StopSampler, CopyFile
  <2> QED
    BY <2>1 DEF CleanRunIsComplete, OpenChannelIsSeen
<1>3. CASE Collect \/ Footprint \/ Trajectory \/ Wipe \/ Finish \/ Die \/ Interrupt
  <2>1. UNCHANGED <<mode, open, launcher, boundary, verdicts, evalRc>>
    BY <1>3 DEF Collect, Footprint, Trajectory, Wipe, Finish, Die, Interrupt
  <2> QED
    BY <2>1 DEF CleanRunIsComplete, OpenChannelIsSeen
<1>4. CASE Launch \/ Launcher
  <2>1. /\ launcher # "skipped"
        /\ UNCHANGED <<mode, open, artifact, accepted, report, blind, verdicts, evalRc>>
    BY <1>4 DEF Launch, Launcher, Refuse, Boot, CopyOut, PhaseInv, BeforeLaunch
  <2> QED
    BY <2>1 DEF CleanRunIsComplete, OpenChannelIsSeen
<1>5. CASE AiderEnds \/ EmulatorEnds \/ Accept
  <2>1. /\ inside \in {"agent", "accept"}
        /\ UNCHANGED <<mode, open, launcher, report, blind, verdicts, evalRc>>
    BY <1>5 DEF AiderEnds, EmulatorEnds, Accept
  <2>2. DOMAIN report # Probes
    BY <2>1 DEF ReportInv, Probes
  <2> QED
    BY <2>1, <2>2 DEF CleanRunIsComplete, OpenChannelIsSeen
<1>6. CASE RunProbe
  <2>1. /\ DOMAIN report # Probes /\ blind \subseteq blind'
        /\ UNCHANGED <<mode, open, launcher, verdicts, evalRc>>
    BY <1>6 DEF RunProbe
  <2> QED
    BY <2>1 DEF CleanRunIsComplete, OpenChannelIsSeen
<1>7. CASE CallModel \/ Comply \/ WriteProbes \/ Killed \/ Gateway \/ MarkerEnds \/ ArmSampler
  <2>1. UNCHANGED <<mode, open, launcher, artifact, accepted, report, blind, verdicts, evalRc>>
    BY <1>7 DEF CallModel, Comply, WriteProbes, Killed, Gateway, MarkerEnds, ArmSampler
  <2> QED
    BY <2>1 DEF CleanRunIsComplete, OpenChannelIsSeen
<1>8. CASE UNCHANGED vars
  BY <1>8 DEF CleanRunIsComplete, OpenChannelIsSeen
<1> QED
  BY <1>1, <1>2, <1>3, <1>4, <1>5, <1>6, <1>7, <1>8 DEF Next, RunShStep, Inside

(* Nothing is delivered before there is a boundary.                        *)
LEMMA InitDelivery == Init => DeliveryInv
BY DemoAssumption DEF Init, DeliveryInv, Ended, NoProbes, AfterCost

(* The report of a boundary that is over does not change, and neither does *)
(* what has been judged.                                                   *)
LEMMA DeliveryStep ==
  TypeOK /\ PhaseInv /\ ReportInv /\ DeliveryInv /\ [Next]_vars => DeliveryInv'
<1> SUFFICES ASSUME TypeOK, PhaseInv, ReportInv, DeliveryInv, [Next]_vars PROVE DeliveryInv'
  OBVIOUS
<1> USE DEF vars, config, boundary, gateway, evidence, results, sampler
<1> USE DEF Ended, AfterCost
<1>1. CASE Refuse
  <2>1. /\ launcher = "checks" /\ inside = "none" /\ evalRc = "none"
        /\ UNCHANGED <<backend, open, inside, work, blind, evalRc, pc>>
    BY <1>1 DEF Refuse, ReportInv, DeliveryInv
  <2>2. \/ raw' = raw /\ launcher' = "refused"
        \/ raw' = NoProbes("not-executed") /\ launcher' = "skipped" /\ backend = "firecracker"
    BY <1>1 DEF Refuse
  <2> QED
    BY <2>1, <2>2 DEF DeliveryInv, NoProbes
<1>2. CASE Boot
  <2>1. /\ launcher = "checks" /\ launcher' = "running" /\ inside = "none"
        /\ UNCHANGED <<backend, open, work, blind, raw, evalRc, pc>>
    BY <1>2 DEF Boot, ReportInv
  <2> QED
    BY <2>1 DEF DeliveryInv
<1>3. CASE CopyOut
  <2>1. /\ launcher = "running" /\ launcher' \in {"done", "refused"} /\ inside = "over"
        /\ raw' = raw \/ raw' = work
        /\ UNCHANGED <<backend, open, inside, work, blind, evalRc, pc>>
    BY <1>3 DEF CopyOut, Fetched
  <2> QED
    BY <2>1 DEF DeliveryInv
<1>4. CASE Launch
  <2>1. /\ pc = "launch" /\ pc' = "wait" /\ launcher = "none" /\ launcher' = "checks"
        /\ UNCHANGED <<backend, open, boundary, raw, evalRc>>
    BY <1>4 DEF Launch, PhaseInv, BeforeLaunch
  <2> QED
    BY <2>1 DEF DeliveryInv
<1>5. CASE Collect
  <2>1. /\ pc = "collect" /\ pc' = "evaluate" /\ launcher \in Ended
        /\ raw' = raw \/ (raw' = work /\ work.status # "absent")
        /\ UNCHANGED <<backend, open, launcher, boundary, evalRc>>
    BY <1>5 DEF Collect, Fetched, PhaseInv, AfterSampler, AfterCopy
  <2>2. launcher = "skipped" => work.status = "absent"
    BY DEF ReportInv, DeliveryInv
  <2> QED
    BY <2>1, <2>2 DEF DeliveryInv
<1>6. CASE RunEvaluate
  <2>1. /\ pc = "evaluate" /\ pc' = "footprint" /\ launcher \in Ended /\ evalRc' # "none"
        /\ UNCHANGED <<backend, open, launcher, boundary, raw>>
    BY <1>6 DEF RunEvaluate, EvalRc, PhaseInv, AfterSampler, AfterCopy
  <2> QED
    BY <2>1 DEF DeliveryInv
<1>7. CASE AiderEnds \/ EmulatorEnds \/ Accept
  <2>1. /\ inside \in {"agent", "accept"} /\ inside' \in {"accept", "probes"}
        /\ UNCHANGED <<backend, open, launcher, work, blind, raw, evalRc, pc>>
    BY <1>7 DEF AiderEnds, EmulatorEnds, Accept
  <2> QED
    BY <2>1 DEF DeliveryInv
<1>8. CASE RunProbe
  <2> DEFINE p == ProbeOrder[Cardinality(DOMAIN report) + 1]
  <2>1. /\ blind' = IF Missed(p) THEN blind \union {p} ELSE blind
        /\ DOMAIN report \in SUBSET Probes /\ DOMAIN report # Probes
        /\ UNCHANGED <<backend, open, inside, launcher, work, raw, evalRc, pc>>
    BY <1>8 DEF RunProbe, TypeOK, Reports
  <2>3. p \in Probes
    BY <2>1, NextProbe
  <2> HIDE DEF p
  <2>4. blind' \subseteq {"network-egress", "process-listing"}
    BY <2>1, <2>3, MissedHasTarget DEF DeliveryInv
  <2> QED
    BY <2>1, <2>4 DEF DeliveryInv
<1>9. CASE WriteProbes \/ Killed
  <2>1. /\ inside \in {"agent", "accept", "probes"} /\ inside' = "over"
        /\ UNCHANGED <<backend, open, launcher, blind, raw, evalRc, pc>>
    BY <1>9 DEF WriteProbes, Killed
  <2>2. work.status = "absent"
    BY <2>1 DEF DeliveryInv
  <2> QED
    BY <2>1, <2>2 DEF DeliveryInv
<1>10. CASE CallModel \/ Comply \/ Gateway \/ MarkerEnds \/ ArmSampler
  <2>1. UNCHANGED <<backend, open, launcher, boundary, raw, evalRc, pc>>
    BY <1>10 DEF CallModel, Comply, Gateway, MarkerEnds, ArmSampler
  <2> QED
    BY <2>1 DEF DeliveryInv
<1>11. CASE Start \/ Prepare \/ InstallTrap \/ StartServices \/ Wait \/ StopSampler \/ CopyFile
  <2>1. /\ {pc, pc'} \subseteq {"start", "prepare", "trap", "sink", "marker", "gateway", "launch",
                              "wait", "sampler", "copy", "collect"}
        /\ UNCHANGED <<backend, open, launcher, boundary, raw, evalRc>>
    BY <1>11 DEF Start, Prepare, InstallTrap, StartServices, StartService, Wait, StopSampler, CopyFile
  <2> QED
    BY <2>1 DEF DeliveryInv
<1>12. CASE Footprint \/ Trajectory \/ Wipe
  <2>1. /\ {pc, pc'} \subseteq {"footprint", "exit"} \union AfterCost
        /\ UNCHANGED <<backend, open, launcher, boundary, raw, evalRc>>
    BY <1>12 DEF Footprint, Trajectory, Wipe
  <2> QED
    BY <2>1 DEF DeliveryInv
<1>13. CASE Finish \/ Die \/ Interrupt
  <2>1. pc' = "gone" /\ UNCHANGED <<backend, open, launcher, boundary, raw, evalRc>>
    BY <1>13 DEF Finish, Die, Interrupt, Exit
  <2> QED
    BY <2>1 DEF DeliveryInv
<1>14. CASE UNCHANGED vars
  BY <1>14 DEF DeliveryInv
<1> QED
  BY <1>1, <1>2, <1>3, <1>4, <1>5, <1>6, <1>7, <1>8, <1>9, <1>10, <1>11, <1>12, <1>13, <1>14
  DEF Next, RunShStep, Launcher, Inside

(* The inductive invariant always holds.                                   *)
THEOREM DemoInvariant == Spec => []DInv
<1>1. Init => DInv
  BY InitTypeOK, InitPhaseInv, InitCopyInv, InitCostInv, InitReportInv, InitOutcome,
     InitDelivery DEF DInv
<1>2. DInv /\ [Next]_vars => DInv'
  BY TypeStep, PhaseStep, CopyStep, CostStep, ReportStep, OutcomeStep, DeliveryStep DEF DInv
<1> QED
  BY <1>1, <1>2, PTL DEF Spec

(* run.sh leaves nothing behind that is not known of (run.sh:15-34).       *)
THEOREM LeftSafe == Spec => []LeftBehind
<1>1. DInv => LeftBehind
  BY DEF DInv, PhaseInv
<1> QED
  BY <1>1, DemoInvariant, PTL

(* Saved turns are in the saved log (run.sh:111).                          *)
THEOREM TurnsSafe == Spec => []TurnsAreCounted
<1>1. DInv => TurnsAreCounted
  BY DEF DInv, CopyInv
<1> QED
  BY <1>1, DemoInvariant, PTL

(* A footprint has its sample, if there ever was one.                      *)
THEOREM SampleSafe == Spec => []SampleIsKept
<1>1. DInv => SampleIsKept
  BY DEF DInv, CostInv
<1> QED
  BY <1>1, DemoInvariant, PTL

(* The second footprint does not change what the first one accounts for.   *)
THEOREM CostSafe == Spec => CostIsFinal
<1>1. DInv /\ [Next]_vars => [cost.kind # "none" => cost' = cost]_vars
  BY CostStep DEF DInv
<1> QED
  BY <1>1, DemoInvariant, PTL DEF Spec, CostIsFinal

(* A clean verdict is that of a complete run, or a skipped one.            *)
THEOREM CleanSafe == Spec => []CleanRunIsComplete
<1>1. DInv => CleanRunIsComplete
  BY DEF DInv
<1> QED
  BY <1>1, DemoInvariant, PTL

(* An open channel is not judged closed.                                   *)
THEOREM ChannelsSafe == Spec => []OpenChannelIsSeen
<1>1. DInv => OpenChannelIsSeen
  BY DEF DInv
<1> QED
  BY <1>1, DemoInvariant, PTL
-----------------------------------------------------------------------------
(* DemoRun implements RunOutcome. *)

(* A run starts with nothing in collected/.                                *)
LEMMA InitImplements == Init => Outcome!Init
BY DEF Init, Outcome!Init, Able, Left, Judged, NoProbes, NoReport, Result, Outcome!NoReport,
  Outcome!Result, Unaccounted

(* What one_run takes from the files depends on these variables alone.     *)
LEMMA OutcomeUnchanged ==
  ASSUME UNCHANGED <<backend, launcher, raw, verdicts, evalRc, cost>>,
         inside' = inside \/ "none" \notin {inside, inside'}
  PROVE  UNCHANGED Outcome!outcomeVars
BY DEF Outcome!outcomeVars, Able, Left, Judged

(* A backend boots, or is skipped and says so.                             *)
LEMMA HostStep ==
  ASSUME DInv, Boot \/ Refuse
  PROVE  Outcome!Next \/ UNCHANGED Outcome!outcomeVars
<1>1. launcher = "checks" /\ inside = "none" /\ evalRc = "none" /\ UNCHANGED <<backend, cost, evalRc>>
  BY DEF Boot, Refuse, DInv, ReportInv, DeliveryInv, Ended, boundary, results, config
<1>2. raw.status = "absent"
  BY <1>1 DEF DInv, TypeOK, Files, Statuses, ReportInv, DeliveryInv
<1>3. CASE Boot
  <2>1. launcher' = "running" /\ inside' # "none" /\ UNCHANGED <<raw, verdicts>>
    BY <1>3 DEF Boot, results
  <2>2. Outcome!Boots
    BY <1>1, <1>2, <2>1 DEF Outcome!Boots, Able, Left, Judged
  <2> QED
    BY <2>2 DEF Outcome!Next
<1>4. CASE Refuse /\ launcher' = "refused"
  <2>1. UNCHANGED <<raw, verdicts, inside>>
    BY <1>4 DEF Refuse, boundary
  <2> QED
    BY <1>1, <1>4, <2>1 DEF Outcome!outcomeVars, Able, Left, Judged
<1>5. CASE Refuse /\ launcher' = "skipped"
  <2>1. backend = "firecracker" /\ raw' = NoProbes("not-executed") /\ UNCHANGED <<verdicts, inside>>
    BY <1>5 DEF Refuse, boundary
  <2>2. Outcome!Skips
    BY <1>1, <1>2, <1>5, <2>1
    DEF Outcome!Skips, Able, Left, Judged, NoProbes, Unjudged, Outcome!Unjudged, Result, Outcome!Result
  <2> QED
    BY <2>2 DEF Outcome!Next
<1> QED
  BY <1>3, <1>4, <1>5 DEF Refuse

(* The report of a boundary that is over arrives, once.                    *)
LEMMA DeliverStep ==
  ASSUME DInv, CopyOut \/ Collect
  PROVE  Outcome!Next \/ UNCHANGED Outcome!outcomeVars
<1>1. /\ evalRc = "none" /\ launcher \notin {"none", "checks"}
      /\ UNCHANGED <<backend, inside, verdicts, evalRc, cost>>
  BY DEF CopyOut, Collect, DInv, DeliveryInv, PhaseInv, AfterSampler, AfterCopy, AfterCost, Ended,
    boundary, config
<1>2. launcher = "skipped" <=> launcher' = "skipped"
  BY DEF CopyOut, Collect
<1>3. CASE raw' = raw
  BY <1>1, <1>2, <1>3 DEF Outcome!outcomeVars, Able, Left, Judged
<1>4. CASE raw' # raw
  <2>1. raw' = work /\ work.status \in {"torn", "executed"} /\ inside = "over"
    BY <1>4 DEF CopyOut, Collect, Fetched, DInv, DeliveryInv, ReportInv, TypeOK, Files, Statuses
  <2>2. launcher # "skipped"
    BY <2>1 DEF DInv, ReportInv
  <2>3. raw.status = "absent"
    BY <1>4, <2>1, <2>2 DEF DInv, DeliveryInv, ReportInv, TypeOK, Files, Statuses
  <2>4. Outcome!Deliver
    BY <1>1, <1>2, <2>1, <2>2, <2>3
    DEF Outcome!Deliver, Able, Left, Judged, NoReport, Unjudged, Torn, Result, Outcome!NoReport,
      Outcome!Unjudged, Outcome!Torn, Outcome!Result
  <2> QED
    BY <2>4 DEF Outcome!Next
<1> QED
  BY <1>3, <1>4

(* What evaluate.py makes of a report, of none, and of a skip.             *)
LEMMA Judgement ==
  ASSUME DInv, evalRc = "none", raw.status # "torn"
  PROVE  Result(FALSE, IF Unexpected(Verdicts(raw, Host)) = {} THEN "zero" ELSE "some",
                Verdicts(raw, Host)["process-listing"]) \in Outcome!Judgements
<1> USE DEF Result, Outcome!Result, NoReport, Outcome!NoReport, Unjudged, Outcome!Unjudged
<1>1. CASE raw.status = "not-executed"
  <2>1. Verdicts(raw, Host) = Unscored /\ Unexpected(Unscored) = {}
    BY <1>1 DEF Verdicts, Unscored, Unexpected
  <2>2. Able = "cannot" /\ Left = Unjudged
    BY <1>1 DEF DInv, ReportInv, Able, Left, Judged
  <2> QED
    BY <2>1, <2>2 DEF Unscored, Probes, Outcome!Judgements, Outcome!NotExecuted
<1>2. CASE raw.status # "not-executed"
  <2> DEFINE v == Verdicts(raw, Host)
  <2>1. v = [p \in Probes |-> Verdict(raw, p, Host)]
    BY <1>2 DEF Verdicts
  <2>2. "process-listing" \in Probes /\ EXPECTED["process-listing"] = "blocked"
    BY DEF Probes, EXPECTED
  <2>3. v["process-listing"] \in {"as-expected", "UNEXPECTED"}
    BY <2>1, <2>2 DEF Verdict
  <2>4. Unexpected(v) = {} => \A p \in Probes : v[p] # "UNEXPECTED"
    BY <2>1 DEF Unexpected
  <2>5. v["process-listing"] = "UNEXPECTED" => Unexpected(v) # {}
    BY <2>2, <2>4
  <2>6. CASE raw.status = "absent"
    <3>1. Reported(raw, "process-listing") = "missing"
      BY <2>6 DEF DInv, ReportInv, Truthful, Reported, NothingReported
    <3>2. v["process-listing"] = "UNEXPECTED"
      BY <2>1, <2>2, <3>1 DEF Verdict, Observed
    <3>3. Left = NoReport
      BY <2>6 DEF Left, Judged
    <3> QED
      BY <2>5, <3>2, <3>3 DEF Outcome!Judgements, Outcome!Dirty
  <2>7. CASE raw.status = "executed"
    <3>1. launcher # "skipped" /\ inside = "over"
      BY <2>7 DEF DInv, DeliveryInv
    <3>2. Able = "can" /\ Left = Unjudged
      BY <2>7, <3>1 DEF Able, Left, Judged
    <3>3. backend = "baseline" => Unexpected(v) # {}
      <4> SUFFICES ASSUME backend = "baseline"
                   PROVE  v["outside-workspace-write"] = "UNEXPECTED"
        BY <2>4 DEF Probes
      <4>1. "outside-workspace-write" \in Probes /\ EXPECTED["outside-workspace-write"] = "blocked"
        BY DEF Probes, EXPECTED
      <4>2. /\ "outside-workspace-write" \in DOMAIN Channel \ blind
            /\ Channel["outside-workspace-write"] \in open
        BY DEF DInv, DeliveryInv, Channel, Channels
      <4>3. Reported(raw, "outside-workspace-write") # "blocked"
        BY <2>7, <4>1, <4>2 DEF DInv, ReportInv, Truthful, Reported
      <4> QED
        BY <2>1, <4>1, <4>3 DEF Verdict, Observed
    <3>4. Outcome!Judgements = {Outcome!Dirty("as-expected"), Outcome!Dirty("UNEXPECTED")}
            \union (IF backend = "baseline" THEN {} ELSE {Outcome!Clean})
      BY <3>2 DEF Outcome!Judgements
    <3> HIDE DEF v
    <3> QED
      BY <2>3, <2>5, <3>3, <3>4 DEF v, Outcome!Dirty, Outcome!Clean
  <2> QED
    BY <1>2, <2>6, <2>7 DEF DInv, TypeOK, Files, Statuses
<1> QED
  BY <1>1, <1>2

(* The judgement comes after all deliveries, and the account after it.     *)
LEMMA JudgeStep ==
  ASSUME DInv, RunEvaluate \/ Footprint
  PROVE  Outcome!Next \/ UNCHANGED Outcome!outcomeVars
<1>1. CASE RunEvaluate
  <2>1. /\ evalRc = "none" /\ evalRc' \in {"zero", "nonzero"} /\ verdicts' = Verdicts(raw, Host)
        /\ UNCHANGED <<backend, launcher, inside, raw, cost>>
    BY <1>1 DEF RunEvaluate, EvalRc, DInv, DeliveryInv, AfterCost, config, boundary
  <2>2. CASE raw.status = "torn"
    BY <2>1, <2>2 DEF Outcome!outcomeVars, Able, Left, Judged
  <2>3. CASE raw.status # "torn"
    <3>1. Left' \in Outcome!Judgements
      BY <2>1, <2>3, Judgement DEF Left, Judged
    <3>2. Left # Outcome!Torn
      BY <2>1, <2>3 DEF Left, Judged, DInv, TypeOK, Files, Statuses, Result, NoReport, Unjudged,
        Outcome!Torn, Outcome!Result
    <3>3. ~Judged /\ Judged' /\ Able' = Able
      BY <2>1, <2>3 DEF Judged, Able
    <3>4. Outcome!Judge
      BY <2>1, <3>1, <3>2, <3>3 DEF Outcome!Judge
    <3> QED
      BY <3>4 DEF Outcome!Next
  <2> QED
    BY <2>2, <2>3
<1>2. CASE Footprint
  <2>1. /\ evalRc # "none"
        /\ UNCHANGED <<backend, launcher, inside, raw, verdicts, evalRc>>
    BY <1>2 DEF Footprint, DInv, DeliveryInv, AfterCost, config, boundary
  <2>2. UNCHANGED <<Able, Left, Judged>>
    BY <2>1 DEF Able, Left, Judged
  <2>3. CASE cost'.kind # "none"
    <3>1. Judged \/ Left = Outcome!Torn
      BY <2>1 DEF Judged, Left, Torn, Result, Outcome!Torn, Outcome!Result
    <3>2. Outcome!Account
      BY <2>1, <2>2, <2>3, <3>1 DEF Outcome!Account
    <3> QED
      BY <3>2 DEF Outcome!Next
  <2>4. CASE cost'.kind = "none"
    <3>1. cost' = cost
      BY <1>2, <2>4 DEF Footprint, GatewayCost, Cost
    <3> QED
      BY <2>1, <2>2, <3>1 DEF Outcome!outcomeVars
  <2> QED
    BY <2>3, <2>4
<1> QED
  BY <1>1, <1>2

(* Every step of a run is one of RunOutcome, or changes nothing it shows.  *)
LEMMA NextImplements ==
  DInv /\ [Next]_vars => Outcome!Next \/ UNCHANGED Outcome!outcomeVars
<1> SUFFICES ASSUME DInv, [Next]_vars PROVE Outcome!Next \/ UNCHANGED Outcome!outcomeVars
  OBVIOUS
<1> USE DEF vars, config, boundary, gateway, evidence, results, sampler
<1>1. CASE Launch
  <2>1. /\ launcher = "none" /\ launcher' = "checks"
        /\ UNCHANGED <<backend, inside, raw, verdicts, evalRc, cost>>
    BY <1>1 DEF Launch, DInv, PhaseInv, BeforeLaunch
  <2> QED
    BY <2>1 DEF Outcome!outcomeVars, Able, Left, Judged
<1>2. CASE Boot \/ Refuse
  BY <1>2, HostStep
<1>3. CASE CopyOut \/ Collect
  BY <1>3, DeliverStep
<1>4. CASE RunEvaluate \/ Footprint
  BY <1>4, JudgeStep
<1>5. CASE Start \/ Prepare \/ InstallTrap \/ StartServices \/ Wait \/ StopSampler \/ CopyFile
  BY <1>5, OutcomeUnchanged
  DEF Start, Prepare, InstallTrap, StartServices, StartService, Wait, StopSampler, CopyFile
<1>6. CASE Trajectory \/ Wipe \/ Finish \/ Die \/ Interrupt
  BY <1>6, OutcomeUnchanged DEF Trajectory, Wipe, Finish, Die, Interrupt
<1>7. CASE AiderEnds \/ EmulatorEnds \/ Accept \/ RunProbe \/ WriteProbes \/ Killed
  <2>1. /\ "none" \notin {inside, inside'}
        /\ UNCHANGED <<backend, launcher, raw, verdicts, evalRc, cost>>
    BY <1>7 DEF AiderEnds, EmulatorEnds, Accept, RunProbe, WriteProbes, Killed
  <2> QED
    BY <2>1, OutcomeUnchanged
<1>8. CASE CallModel \/ Comply \/ Gateway \/ MarkerEnds \/ ArmSampler
  BY <1>8, OutcomeUnchanged DEF CallModel, Comply, Gateway, MarkerEnds, ArmSampler
<1>9. CASE UNCHANGED vars
  BY <1>9, OutcomeUnchanged
<1> QED
  BY <1>1, <1>2, <1>3, <1>4, <1>5, <1>6, <1>7, <1>8, <1>9 DEF Next, RunShStep, Launcher, Inside

(* Whatever dies, hangs or is interrupted, a run leaves what the programs  *)
(* that repeat and compare runs may rely on.                               *)
THEOREM DemoImplements == Spec => LeavesOutcome
<1>1. DInv /\ [Next]_vars => [Outcome!Next]_(Outcome!outcomeVars)
  BY NextImplements
<1> QED
  BY <1>1, InitImplements, DemoInvariant, PTL DEF Spec, LeavesOutcome, Outcome!Spec

(* What is known of a host bounds what a run on it may leave.              *)
LEMMA Reckoned == Outcome!Spec => []Outcome!ReckonInv
<1> USE DEF Outcome!NoReport, Outcome!Unjudged, Outcome!NotExecuted, Outcome!Clean, Outcome!Dirty,
      Outcome!Torn, Outcome!Result, Outcome!Results, Outcome!ReckonInv, Outcome!ResultIsReckonedWith
<1>1. Outcome!Init => Outcome!ReckonInv
  BY DEF Outcome!Init
<1>2. ASSUME Outcome!ReckonInv, [Outcome!Next]_(Outcome!outcomeVars)
      PROVE  Outcome!ReckonInv'
  <2>1. CASE Outcome!Boots
    BY <1>2, <2>1 DEF Outcome!Boots
  <2>2. CASE Outcome!Skips
    BY <1>2, <2>2 DEF Outcome!Skips
  <2>3. CASE Outcome!Deliver
    BY <1>2, <2>3 DEF Outcome!Deliver
  <2>4. CASE Outcome!Judge
    BY <1>2, <2>4 DEF Outcome!Judge, Outcome!Judgements
  <2>5. CASE Outcome!Account
    BY <1>2, <2>5 DEF Outcome!Account
  <2>6. CASE UNCHANGED Outcome!outcomeVars
    BY <1>2, <2>6 DEF Outcome!outcomeVars
  <2> QED
    BY <1>2, <2>1, <2>2, <2>3, <2>4, <2>5, <2>6 DEF Outcome!Next
<1> QED
  BY <1>1, <1>2, PTL DEF Outcome!Spec

(* What a run leaves is at any time among the results that the security    *)
(* benchmark reckons with, so that what is proved of a campaign holds of   *)
(* campaigns of these runs.                                                *)
THEOREM RunsAreReckonedWith == Spec => []Outcome!ResultIsReckonedWith
<1>1. Outcome!ReckonInv => Outcome!ResultIsReckonedWith
  BY DEF Outcome!ReckonInv
<1> QED
  BY <1>1, Reckoned, DemoImplements, PTL DEF LeavesOutcome
=============================================================================
