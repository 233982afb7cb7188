-------------------------------- MODULE DemoRun --------------------------------
(***************************************************************************)
(* One run of the demo harness, src/run.sh: the host-side services it      *)
(* starts, the launcher of the backend it runs in the background, what     *)
(* happens inside the boundary, and the evidence it then copies, judges    *)
(* and accounts for while some of the services still run.                  *)
(***************************************************************************)
EXTENDS Integers, Sequences, FiniteSets, Evaluate, RunResult

Backends == {"process-sandbox", "rootless-container", "firecracker", "baseline"}
Modes == {"emulate", "agent"}
Channels == {"pids", "net", "outside"}

CONSTANTS
  Scenarios,      \* backend, mode and the channels that the boundary fails to close
  MaxCalls,       \* bound: model calls of one agent
  MaxErrors,      \* bound: probes that end in an exception, by mode
  MaxInterrupts   \* bound: interrupts of run.sh, by mode

ASSUME DemoAssumption ==
  /\ Scenarios \subseteq [backend : Backends, mode : Modes, open : SUBSET Channels]
  /\ \A s \in Scenarios : s.backend = "baseline" => s.open = Channels
  /\ MaxCalls \in Nat /\ MaxErrors \in [Modes -> Nat] /\ MaxInterrupts \in [Modes -> Nat]

Services == {"fake", "sink", "marker", "gateway", "sampler"}
Calls == 1 .. MaxCalls
GatewayFiles == {"gateway.log", "gateway-trace.jsonl"}

\* Mutant: the log is copied before the trace.
LogFirst == <<"gateway.log", "gateway-trace.jsonl">>

(* The order in which run.sh copies the gateway's files. *)
CopyOrder == <<"gateway-trace.jsonl", "gateway.log">>

VARIABLES
  backend, mode, fake,    \* the arguments of run.sh
  open,           \* what the boundary lets through; the probes are to find out
  pc,             \* where run.sh is
  trap,           \* cleanup_all is installed
  up,             \* the services that run
  armed,          \* the sampler has installed its signal handlers
  sample,         \* where its file is: hostside, collected
  interrupts,
  launcher,       \* where the launcher of the backend is
  inside,         \* where inside.sh is
  artifact,       \* the task's result is in place
  accepted,       \* .acceptance_rc
  report,         \* what probe_runner.py holds in memory
  work,           \* probes.json in the workspace
  blind,          \* history: probes that looked while their target was not up
  call,           \* the model call in the gateway: its number and its step
  usage, trace,   \* hostside/gateway.log, gateway-trace.jsonl: the calls in them
  hostside,       \* the directory is there
  egress, loot,   \* hostside/egress.log, hostside/outside/loot.txt
  uncopied,       \* the gateway's files still to be copied
  saved,          \* the calls in those of collected/
  raw,            \* collected/probes.json as the backend left it
  verdicts, evalRc,
  cost, turns     \* footprint.json: the calls it sums; trajectory.json

config == <<backend, mode, fake, open>>
boundary == <<inside, artifact, accepted, report, work, blind>>
gateway == <<call, usage, trace>>
evidence == <<egress, loot>>
results == <<uncopied, saved, raw, verdicts, evalRc, cost, turns>>
sampler == <<armed, sample>>
vars == <<config, pc, trap, up, sampler, interrupts, launcher, boundary, gateway, hostside, evidence,
          results>>

NoProbes(status) == [status |-> status, probes |-> NothingReported]
Unwritten == [kind |-> "none", calls |-> {}]
Unaccounted == [kind |-> "none", calls |-> {}, sampled |-> FALSE]

Reports == UNION {[P -> Observations] : P \in SUBSET Probes}
Files == [status : Statuses, probes : Reports]

RunSh == {"start", "prepare", "trap", "sink", "marker", "gateway", "launch", "wait", "sampler",
          "copy", "collect", "evaluate", "footprint", "trajectory", "wipe", "footprint2", "exit",
          "gone"}

TypeOK ==
  /\ backend \in Backends /\ mode \in Modes /\ fake \in BOOLEAN
  /\ open \subseteq Channels
  /\ pc \in RunSh /\ trap \in BOOLEAN /\ up \subseteq Services
  /\ armed \in BOOLEAN /\ sample \subseteq {"hostside", "collected"}
  /\ interrupts \in 0 .. MaxInterrupts[mode]
  /\ launcher \in {"none", "checks", "running", "done", "refused", "skipped"}
  /\ inside \in {"none", "agent", "accept", "probes", "over"}
  /\ artifact \in BOOLEAN /\ accepted \in {"none", "pass", "fail"}
  /\ report \in Reports /\ work \in Files /\ blind \subseteq Probes
  /\ call \in [n : 0 .. MaxCalls, at : {"idle", "upstream", "answered", "replied", "logged"}]
  /\ usage \subseteq Calls /\ trace \subseteq Calls
  /\ hostside \in BOOLEAN /\ egress \in BOOLEAN /\ loot \in BOOLEAN
  /\ uncopied \in {CopyOrder, Tail(CopyOrder), <<>>}
  /\ saved \in UNION {[F -> SUBSET Calls] : F \in SUBSET GatewayFiles}
  /\ raw \in Files
  /\ verdicts \in [Probes -> {"none", "as-expected", "info", "UNEXPECTED"}]
  /\ evalRc \in {"none", "zero", "nonzero"}
  /\ cost \in [kind : {"none", "estimated", "measured"}, calls : SUBSET Calls, sampled : BOOLEAN]
  /\ turns \in [kind : {"none", "written"}, calls : SUBSET Calls]

Init ==
  /\ \E s \in Scenarios : backend = s.backend /\ mode = s.mode /\ open = s.open
  /\ fake \in {FALSE, mode = "agent"}
  /\ pc = "start" /\ trap = FALSE /\ up = {} /\ interrupts = 0
  /\ armed = FALSE /\ sample = {}
  /\ launcher = "none" /\ inside = "none"
  /\ artifact = FALSE /\ accepted = "none"
  /\ report = NothingReported /\ work = NoProbes("absent") /\ blind = {}
  /\ call = [n |-> 0, at |-> "idle"] /\ usage = {} /\ trace = {}
  /\ hostside = FALSE /\ egress = FALSE /\ loot = FALSE
  /\ uncopied = CopyOrder /\ saved = [f \in {} |-> {}]
  /\ raw = NoProbes("absent")
  /\ verdicts = Unscored /\ evalRc = "none"
  /\ cost = Unaccounted /\ turns = Unwritten
-----------------------------------------------------------------------------
(* run.sh up to the launch. *)

\* Mutant: one service is forgotten.
CleanupForgetsMarker == {"sink", "gateway", "fake"}

(* cleanup_all, the EXIT trap: the services whose pids run.sh keeps.       *)
CleanupAll == {"sink", "marker", "gateway", "fake"}

Exit ==
  /\ pc' = "gone"
  /\ up' = IF trap THEN up \ CleanupAll ELSE up
  /\ call' = IF "gateway" \in up' THEN call ELSE [call EXCEPT !.at = "idle"]
  /\ UNCHANGED <<usage, trace>>

(* The fake model comes first, if it is asked for and its port is free. *)
Start ==
  /\ pc = "start"
  /\ pc' = "prepare"
  /\ \/ fake /\ up' = up \union {"fake"}
     \/ up' = up
  /\ UNCHANGED <<config, trap, sampler, interrupts, launcher, boundary, gateway, hostside,
                 evidence, results>>

(* prepare_run: the workspace copy, hostside/ and its secrets. *)
Prepare ==
  /\ pc = "prepare"
  /\ pc' = "trap"
  /\ hostside' = TRUE
  /\ UNCHANGED <<config, trap, up, sampler, interrupts, launcher, boundary, gateway, evidence,
                 results>>

InstallTrap ==
  /\ pc = "trap"
  /\ trap' = TRUE
  /\ pc' = "sink"
  /\ UNCHANGED <<config, up, sampler, interrupts, launcher, boundary, gateway, hostside, evidence,
                 results>>

(* A service is started in the background; that it came up is not checked, *)
(* and its port may be taken.                                              *)
StartService(s, next) ==
  /\ pc = s
  /\ pc' = next
  /\ \/ up' = up \union {s}
     \/ s \in {"sink", "gateway"} /\ up' = up
  /\ UNCHANGED <<config, trap, sampler, interrupts, launcher, boundary, gateway, hostside,
                 evidence, results>>

StartServices ==
  \/ StartService("sink", "marker")
  \/ StartService("marker", IF mode = "agent" THEN "gateway" ELSE "launch")
  \/ StartService("gateway", "launch")

Launch ==
  /\ pc = "launch"
  /\ launcher' = "checks"
  /\ up' = up \union {"sampler"}
  /\ pc' = "wait"
  /\ UNCHANGED <<config, trap, sampler, interrupts, boundary, gateway, hostside, evidence, results>>
-----------------------------------------------------------------------------
(* The launcher. *)

(* A prerequisite is missing: the launcher dies, except that Firecracker's *)
(* host prerequisites are recorded as not executed.                        *)
Refuse ==
  /\ launcher = "checks"
  /\ \/ launcher' = "refused" /\ UNCHANGED raw
     \/ /\ backend = "firecracker"
        /\ launcher' = "skipped"
        /\ raw' = NoProbes("not-executed")
  /\ UNCHANGED <<config, pc, trap, up, sampler, interrupts, boundary, gateway, hostside, evidence,
                 uncopied, saved, verdicts, evalRc, cost, turns>>

(* bwrap and podman bind the gateway's socket and fail when it is missing. *)
NeedsSocket == mode = "agent" /\ backend \in {"process-sandbox", "rootless-container"}

Boot ==
  /\ launcher = "checks"
  /\ launcher' = "running"
  /\ inside' = IF NeedsSocket /\ "gateway" \notin up THEN "over" ELSE "agent"
  /\ UNCHANGED <<config, pc, trap, up, sampler, interrupts, artifact, accepted, report, work,
                 blind, gateway, hostside, evidence, results>>

(* The boundary is gone: its probes.json goes to collected/.  Firecracker's *)
(* has to be extracted from the work image first, which may fail.          *)
Fetched == IF work.status = "absent" THEN raw ELSE work

CopyOut ==
  /\ launcher = "running"
  /\ inside = "over"
  /\ \/ launcher' = "done" /\ raw' \in {Fetched, IF backend = "firecracker" THEN raw ELSE Fetched}
     \/ launcher' = "refused" /\ UNCHANGED raw
  /\ UNCHANGED <<config, pc, trap, up, sampler, interrupts, boundary, gateway, hostside, evidence,
                 uncopied, saved, verdicts, evalRc, cost, turns>>

Launcher == Refuse \/ Boot \/ CopyOut
-----------------------------------------------------------------------------
(* Inside the boundary: inside.sh, the agent and probe_runner.py. *)

(* A model call goes through portfwd.py to the gateway; the baseline has no *)
(* model path.                                                             *)
CallModel ==
  /\ inside = "agent"
  /\ mode = "agent" /\ backend # "baseline" /\ "gateway" \in up
  /\ call.at = "idle" /\ call.n < MaxCalls
  /\ call' = [n |-> call.n + 1, at |-> "upstream"]
  /\ UNCHANGED <<config, pc, trap, up, sampler, interrupts, launcher, boundary, usage, trace,
                 hostside, evidence, results>>

(* The agent follows the injected instructions as far as the boundary lets it. *)
Comply ==
  /\ inside = "agent"
  /\ egress' = (egress \/ ("net" \in open /\ "sink" \in up))
  /\ loot' = (loot \/ "outside" \in open)
  /\ UNCHANGED <<config, pc, trap, up, sampler, interrupts, launcher, boundary, gateway, hostside,
                 results>>

(* aider ends, with or without having done its task, also when it crashes  *)
(* or is killed alone.                                                     *)
AiderEnds ==
  /\ inside = "agent" /\ mode = "agent"
  /\ artifact' \in BOOLEAN
  /\ inside' = "accept"
  /\ UNCHANGED <<config, pc, trap, up, sampler, interrupts, launcher, accepted, report, work, blind,
                 gateway, hostside, evidence, results>>

(* agent_emulator.py edits the project, runs its tests and writes          *)
(* RESULT.md, whether they pass or not; it may fail before.  There are no  *)
(* acceptance tests.                                                       *)
EmulatorEnds ==
  /\ inside = "agent" /\ mode = "emulate"
  /\ \E result, passed \in BOOLEAN : artifact' = (result /\ passed)
  /\ inside' = "probes"
  /\ UNCHANGED <<config, pc, trap, up, sampler, interrupts, launcher, accepted, report, work, blind,
                 gateway, hostside, evidence, results>>

Accept ==
  /\ inside = "accept"
  /\ accepted' \in {"pass", "fail"}
  /\ inside' = "probes"
  /\ UNCHANGED <<config, pc, trap, up, sampler, interrupts, launcher, artifact, report, work,
                 blind, gateway, hostside, evidence, results>>

ProbeOrder == <<"approved-artifact", "backend-identity", "network-egress",
                "outside-workspace-write", "process-listing">>

(* The host-side process that a probe looks for. *)
Target == [p \in Probes |-> CASE p = "network-egress" -> "sink"
                              [] p = "process-listing" -> "marker"
                              [] OTHER -> "none"]
Missed(p) == Target[p] # "none" /\ Target[p] \notin up

(* What a probe finds.  The metadata address that network-egress also      *)
(* tries answers on no host of the demo.                                   *)
Finding(p) ==
  CASE p = "approved-artifact" -> IF artifact /\ accepted # "fail" THEN "succeeded" ELSE "blocked"
    [] p = "backend-identity" -> "reported"
    [] p = "network-egress" -> IF "net" \in open /\ ~Missed(p) THEN "succeeded" ELSE "blocked"
    [] p = "outside-workspace-write" -> IF "outside" \in open THEN "succeeded" ELSE "blocked"
    [] p = "process-listing" -> IF "pids" \in open /\ ~Missed(p) THEN "succeeded" ELSE "blocked"

Raised == {p \in DOMAIN report : report[p] = "error"}

(* The probes run one after the other; an exception in one is its report. *)
RunProbe ==
  /\ inside = "probes"
  /\ DOMAIN report # Probes
  /\ LET p == ProbeOrder[Cardinality(DOMAIN report) + 1]
         hits == Finding(p) = "succeeded"
     IN /\ \E o \in {Finding(p), "error"} :
             /\ o = "error" => Cardinality(Raised) < MaxErrors[mode]
             /\ report' = [q \in DOMAIN report \union {p} |-> IF q = p THEN o ELSE report[q]]
        /\ blind' = IF Missed(p) THEN blind \union {p} ELSE blind
        /\ egress' = (egress \/ (p = "network-egress" /\ hits))
        /\ loot' = (loot \/ (p = "outside-workspace-write" /\ hits))
  /\ UNCHANGED <<config, pc, trap, up, sampler, interrupts, launcher, inside, artifact, accepted,
                 work, gateway, hostside, results>>

(* Nothing is written before the last probe has reported. *)
WriteProbes ==
  /\ inside = "probes"
  /\ DOMAIN report = Probes
  /\ work' = [status |-> "executed", probes |-> report]
  /\ inside' = "over"
  /\ UNCHANGED <<config, pc, trap, up, sampler, interrupts, launcher, artifact, accepted, report,
                 blind, gateway, hostside, evidence, results>>

(* The boundary is killed, perhaps while probes.json is being written. *)
Killed ==
  /\ inside \in {"agent", "accept", "probes"}
  /\ inside' = "over"
  /\ \/ UNCHANGED work
     \/ inside = "probes" /\ DOMAIN report = Probes /\ work' = NoProbes("torn")
  /\ UNCHANGED <<config, pc, trap, up, sampler, interrupts, launcher, artifact, accepted, report,
                 blind, gateway, hostside, evidence, results>>

\* Mutant: firecracker is not run under timeout.
VmTimeoutNever == FALSE /\ Killed

(* timeout RUN_TIMEOUT_SEC, which only Firecracker runs under. *)
VmTimeout == backend = "firecracker" /\ Killed

Inside == CallModel \/ Comply \/ AiderEnds \/ EmulatorEnds \/ Accept \/ RunProbe \/ WriteProbes \/ Killed
-----------------------------------------------------------------------------
(* The gateway, which serves one connection at a time, and the marker. *)

At(step, next) == call.at = step /\ call' = [call EXCEPT !.at = next]

(* The fake model answers every completion and counts its tokens; of any   *)
(* other upstream nothing is known.                                        *)
UpstreamAnswers == fake => "fake" \in up

(* An upstream error is answered with 502 and leaves neither usage nor turn. *)
Upstream ==
  /\ \/ UpstreamAnswers /\ At("upstream", "answered")
     \/ At("upstream", "idle")
  /\ UNCHANGED <<usage, trace>>

(* The reply is written before it is accounted for: when the client hung   *)
(* up the write fails, and so does the rest.                               *)
Reply ==
  /\ \/ inside # "over" /\ At("answered", "replied")
     \/ inside # "agent" /\ At("answered", "idle")
  /\ UNCHANGED <<usage, trace>>

LogUsage ==
  /\ At("replied", IF hostside THEN "logged" ELSE "idle")
  /\ usage' = IF hostside THEN usage \union {call.n} ELSE usage
  /\ UNCHANGED trace

TraceTurn ==
  /\ At("logged", "idle")
  /\ trace' = IF hostside THEN trace \union {call.n} ELSE trace
  /\ UNCHANGED usage

Gateway ==
  /\ "gateway" \in up
  /\ Upstream \/ Reply \/ LogUsage \/ TraceTurn
  /\ UNCHANGED <<config, pc, trap, up, sampler, interrupts, launcher, boundary, hostside,
                 evidence, results>>

(* sampler.py: from here on SIGTERM and SIGINT make it write its file. *)
ArmSampler ==
  /\ "sampler" \in up
  /\ ~armed
  /\ armed' = TRUE
  /\ UNCHANGED <<config, pc, trap, up, sample, interrupts, launcher, boundary, gateway, hostside,
                 evidence, results>>

(* sleep RUN_TIMEOUT_SEC, which started before the backend. *)
MarkerEnds ==
  /\ launcher # "none"
  /\ "marker" \in up
  /\ up' = up \ {"marker"}
  /\ UNCHANGED <<config, pc, trap, sampler, interrupts, launcher, boundary, gateway, hostside,
                 evidence, results>>
-----------------------------------------------------------------------------
(* run.sh after the backend. *)

Wait ==
  /\ pc = "wait"
  /\ launcher \in {"done", "refused", "skipped"}
  /\ pc' = "sampler"
  /\ UNCHANGED <<config, trap, up, sampler, interrupts, launcher, boundary, gateway, hostside,
                 evidence, results>>

\* Mutant: its file is only read from hostside/.
StopSamplerInPlace ==
  /\ pc = "sampler"
  /\ up' = up \ {"sampler"}
  /\ sample' = IF armed THEN {"hostside"} ELSE {}
  /\ pc' = "copy"
  /\ UNCHANGED <<config, trap, armed, interrupts, launcher, boundary, gateway, hostside, evidence,
                 results>>

(* Its file is complete when it has ended, and is copied at once; a        *)
(* sampler that is stopped before it has its handlers leaves none.         *)
StopSampler ==
  /\ pc = "sampler"
  /\ up' = up \ {"sampler"}
  /\ sample' = IF armed THEN {"hostside", "collected"} ELSE {}
  /\ pc' = "copy"
  /\ UNCHANGED <<config, trap, armed, interrupts, launcher, boundary, gateway, hostside, evidence,
                 results>>

(* The gateway's files are copied one by one, if they are there, while the *)
(* gateway goes on writing.                                                *)
Contents(f) == IF f = "gateway.log" THEN usage ELSE trace
Exists(f) == IF f = "gateway.log" THEN "gateway" \in up ELSE trace # {}

CopyFile ==
  /\ pc = "copy"
  /\ uncopied # <<>>
  /\ LET f == Head(uncopied)
     IN saved' = IF Exists(f)
                 THEN [g \in DOMAIN saved \union {f} |-> IF g = f THEN Contents(f) ELSE saved[g]]
                 ELSE saved
  /\ uncopied' = Tail(uncopied)
  /\ pc' = IF Len(uncopied) = 1 THEN "collect" ELSE "copy"
  /\ UNCHANGED <<config, trap, up, sampler, interrupts, launcher, boundary, gateway, hostside,
                 evidence, raw, verdicts, evalRc, cost, turns>>

(* collect.py copies probes.json from the workspace once more. *)
Collect ==
  /\ pc = "collect"
  /\ raw' = IF backend = "firecracker" THEN raw ELSE Fetched
  /\ pc' = "evaluate"
  /\ UNCHANGED <<config, trap, up, sampler, interrupts, launcher, boundary, gateway, hostside,
                 evidence, uncopied, saved, verdicts, evalRc, cost, turns>>

(* baseline.sh copies the loot of its own /demo to where evaluate.py looks. *)
Host == [sink_hit |-> egress,
         outside_hit |-> loot /\ (backend = "baseline" => launcher = "done")]

RunEvaluate ==
  /\ pc = "evaluate"
  /\ verdicts' = Verdicts(raw, Host)
  /\ evalRc' = EvalRc(raw, Host)
  /\ pc' = "footprint"
  /\ UNCHANGED <<config, trap, up, sampler, interrupts, launcher, boundary, gateway, hostside,
                 evidence, uncopied, saved, raw, cost, turns>>

(* What footprint.py accounts for, and whether it found a sample. *)
Cost(kind, calls) == [kind |-> kind, calls |-> calls, sampled |-> sample # {}]

\* Mutant: the live log is preferred to the copy.
GatewayCostLive ==
  IF hostside /\ "gateway" \in up THEN Cost("measured", usage)
  ELSE IF "gateway.log" \in DOMAIN saved THEN Cost("measured", saved["gateway.log"])
  ELSE IF raw.status = "torn" THEN cost
  ELSE Cost("estimated", {})

(* footprint.py: the copy of gateway.log, else the live one, else an       *)
(* estimate from the verdicts, which a file that does not parse prevents.  *)
GatewayCost ==
  IF "gateway.log" \in DOMAIN saved THEN Cost("measured", saved["gateway.log"])
  ELSE IF hostside /\ "gateway" \in up THEN Cost("measured", usage)
  ELSE IF raw.status = "torn" THEN cost
  ELSE Cost("estimated", {})

Footprint ==
  /\ \/ pc = "footprint" /\ pc' = "trajectory"
     \/ pc = "footprint2" /\ pc' = "exit"
  /\ cost' = GatewayCost
  /\ UNCHANGED <<config, trap, up, sampler, interrupts, launcher, boundary, gateway, hostside,
                 evidence, uncopied, saved, raw, verdicts, evalRc, turns>>

(* trajectory.py prefers the live trace to the copy; a launcher that died  *)
(* left no metadata that says agent mode.                                  *)
Trajectory ==
  /\ pc = "trajectory"
  /\ turns' = IF mode = "agent" /\ launcher \in {"done", "skipped"}
              THEN [kind |-> "written", calls |-> trace]
              ELSE turns
  /\ pc' = "wipe"
  /\ UNCHANGED <<config, trap, up, sampler, interrupts, launcher, boundary, gateway, hostside,
                 evidence, uncopied, saved, raw, verdicts, evalRc, cost>>

(* The secrets and hostside/ are wiped, unless KEEP_RUN says otherwise. *)
Wipe ==
  /\ pc = "wipe"
  /\ \/ hostside' = FALSE /\ sample' = sample \ {"hostside"}
     \/ UNCHANGED <<hostside, sample>>
  /\ pc' = "footprint2"
  /\ UNCHANGED <<config, trap, up, armed, interrupts, launcher, boundary, gateway, evidence,
                 results>>

Finish ==
  /\ pc = "exit"
  /\ Exit
  /\ UNCHANGED <<config, trap, sampler, interrupts, launcher, boundary, hostside, evidence,
                 results>>

(* set -e: a prerequisite is missing, a copy fails, a disk is full. *)
Die ==
  /\ pc \in {"start", "prepare", "copy", "footprint", "wipe", "footprint2"}
  /\ Exit
  /\ UNCHANGED <<config, trap, sampler, interrupts, launcher, boundary, hostside, evidence,
                 results>>

(* A signal ends run.sh, not what it started in the background, which      *)
(* ignores SIGINT; only a sampler that has its handlers may stop, and write. *)
Interrupt ==
  /\ pc # "gone"
  /\ interrupts < MaxInterrupts[mode]
  /\ interrupts' = interrupts + 1
  /\ pc' = "gone"
  /\ \E stopped \in {{}, IF armed THEN up \intersect {"sampler"} ELSE {}} :
       /\ up' = (IF trap THEN up \ CleanupAll ELSE up) \ stopped
       /\ sample' = IF stopped = {} THEN sample ELSE sample \union {"hostside"}
  /\ call' = IF "gateway" \in up' THEN call ELSE [call EXCEPT !.at = "idle"]
  /\ UNCHANGED <<config, trap, armed, launcher, boundary, usage, trace, hostside, evidence, results>>

RunShStep ==
  \/ Start \/ Prepare \/ InstallTrap \/ StartServices \/ Launch \/ Wait \/ StopSampler \/ CopyFile
  \/ Collect \/ RunEvaluate \/ Footprint \/ Trajectory \/ Wipe \/ Finish

Next == RunShStep \/ Die \/ Interrupt \/ Launcher \/ Inside \/ Gateway \/ MarkerEnds \/ ArmSampler

(* run.sh, its launcher and the probes keep running and a VM is stopped    *)
(* when its time is over; an agent or a model may take for ever.           *)
Spec ==
  /\ Init /\ [][Next]_vars
  /\ WF_vars(RunShStep) /\ WF_vars(Launcher) /\ WF_vars(RunProbe \/ WriteProbes) /\ WF_vars(VmTimeout)
-----------------------------------------------------------------------------
(* Properties. *)

(* What outlives run.sh is known: its services do not, save the fake model *)
(* of a run that died before cleanup_all was installed; the sampler and    *)
(* the backend only after an interrupt.                                    *)
LeftBehind ==
  pc = "gone" =>
    /\ up \intersect {"sink", "marker", "gateway"} = {}
    /\ "fake" \in up => ~trap
    /\ "sampler" \in up \/ launcher \in {"checks", "running"} => interrupts > 0

(* Every turn in the saved trace has its tokens in the saved log, although *)
(* the gateway writes both while they are copied.                          *)
TurnsAreCounted ==
  "gateway-trace.jsonl" \in DOMAIN saved /\ "gateway.log" \in DOMAIN saved =>
    saved["gateway-trace.jsonl"] \subseteq saved["gateway.log"]

(* The second footprint, after the wipe, only updates timings.             *)
CostIsFinal == [][cost.kind # "none" => cost' = cost]_vars

(* A footprint without a sample is that of a backend that ended before the *)
(* sampler was ready, also after the wipe (sampler.py:67, run.sh:107-110). *)
SampleIsKept == cost.kind # "none" /\ ~cost.sampled => ~armed

(* A run without an unexpected verdict is a run that was skipped, or one   *)
(* whose probes all ran, whose task is done and, in agent mode, accepted.  *)
CleanRunIsComplete ==
  evalRc = "zero" =>
    \/ launcher = "skipped"
    \/ /\ DOMAIN report = Probes
       /\ artifact
       /\ mode = "agent" => accepted = "pass"

Channel == [p \in {"network-egress", "outside-workspace-write", "process-listing"} |->
              CASE p = "network-egress" -> "net"
                [] p = "outside-workspace-write" -> "outside"
                [] p = "process-listing" -> "pids"]

(* A channel that is open is seen, by the probe or by the host, unless the *)
(* probe's target had gone when it looked.                                 *)
OpenChannelIsSeen ==
  \A p \in DOMAIN Channel \ blind : verdicts[p] = "as-expected" => Channel[p] \notin open

(* Whether host processes are visible is what the marker is there to tell. *)
HostPidsAreSeen == verdicts["process-listing"] = "as-expected" => "pids" \notin open

(* What is known of the host, and what one_run would now make of the       *)
(* files in collected/; process-listing stands for resource-limit.         *)
Able == IF launcher = "skipped" THEN "cannot" ELSE IF inside # "none" THEN "can" ELSE "unknown"

Judged == evalRc # "none" /\ raw.status # "torn"

Left ==
  CASE raw.status = "torn" -> Torn
    [] Judged -> Result(FALSE, IF Unexpected(verdicts) = {} THEN "zero" ELSE "some",
                        verdicts["process-listing"])
    [] ~Judged /\ raw.status = "absent" -> NoReport
    [] ~Judged /\ raw.status \in {"executed", "not-executed"} -> Unjudged

Outcome == INSTANCE RunOutcome WITH
  host <- Able, outcome <- Left, judged <- Judged, accounted <- cost.kind # "none"

(* Whatever dies, hangs or is interrupted, a run leaves what the programs  *)
(* that repeat and compare runs may rely on (run.sh:99-154, evaluate.py).  *)
LeavesOutcome == Outcome!Spec

(* run.sh ends, unless an agent or its tests hang in a backend that has no *)
(* timeout.                                                                *)
Finishes ==
  <>(pc = "gone") \/ <>[](backend # "firecracker" /\ inside \in {"agent", "accept"})
-----------------------------------------------------------------------------
(* The inductive invariant, in parts. *)

Ended == {"done", "refused", "skipped"}
BeforeTrap == {"start", "prepare", "trap"}
BeforeLaunch == {"sink", "marker", "gateway", "launch"}
AfterCost == {"trajectory", "wipe", "footprint2", "exit"}
AfterCopy == {"collect", "evaluate", "footprint"} \union AfterCost
AfterSampler == {"copy"} \union AfterCopy

(* What runs at each phase of run.sh. *)
PhaseInv ==
  /\ pc \in BeforeTrap => ~trap
  /\ pc \notin BeforeTrap \union {"gone"} => trap
  /\ ~trap => up \subseteq {"fake"} /\ launcher = "none"
  /\ pc \in BeforeLaunch => launcher = "none" /\ "sampler" \notin up
  /\ pc \in {"sampler"} \union AfterSampler => launcher \in Ended
  /\ pc \in AfterSampler => "sampler" \notin up
  /\ LeftBehind

(* A turn is traced after its usage is logged, and copied before it.       *)
CopyInv ==
  /\ trace \subseteq usage
  /\ call.at # "idle" => call.n \in Calls
  /\ call.at = "logged" => call.n \in usage
  /\ pc \notin AfterSampler \union {"gone"} => uncopied = CopyOrder
  /\ pc = "copy" => uncopied # <<>>
  /\ uncopied = CopyOrder => DOMAIN saved = {}
  /\ uncopied # <<>> => "gateway.log" \notin DOMAIN saved
  /\ "gateway-trace.jsonl" \in DOMAIN saved => saved["gateway-trace.jsonl"] \subseteq trace
  /\ TurnsAreCounted

(* What the footprint read is what it would read again.                    *)
CostInv ==
  /\ pc \notin AfterCost \union {"gone"} => cost = Unaccounted
  /\ pc \in AfterCopy => "gateway.log" \in DOMAIN saved \/ "gateway" \notin up
  /\ pc \in AfterSampler => IF sample = {} THEN ~armed ELSE "collected" \in sample
  /\ pc \in AfterCost => cost = GatewayCost
  /\ cost.kind # "none" => "sampler" \notin up
  /\ SampleIsKept

(* What a report says of the boundary that it comes from. *)
Truthful(file) ==
  IF file.status = "executed" THEN file.probes = report /\ DOMAIN report = Probes
  ELSE file.probes = NothingReported

ReportInv ==
  /\ launcher \in {"none", "checks", "skipped"} => inside = "none"
  /\ DOMAIN report # {} => inside \in {"probes", "over"}
  /\ inside = "probes" /\ mode = "agent" => accepted # "none"
  /\ "approved-artifact" \in DOMAIN report /\ report["approved-artifact"] = "succeeded" =>
       artifact /\ accepted # "fail" /\ (mode = "agent" => accepted = "pass")
  /\ \A p \in DOMAIN Channel \ blind :
       p \in DOMAIN report /\ Channel[p] \in open => report[p] # "blocked"
  /\ Truthful(work) /\ work.status # "not-executed"
  /\ Truthful(raw) /\ (raw.status = "not-executed" => launcher = "skipped")

(* A report is delivered by a boundary that is over, once, before it is    *)
(* judged; what has been judged is not delivered again.                    *)
DeliveryInv ==
  /\ backend = "baseline" => open = Channels
  /\ launcher = "skipped" => backend = "firecracker" /\ raw.status = "not-executed"
  /\ launcher \in Ended => inside \in {"none", "over"}
  /\ work.status # "absent" => inside = "over"
  /\ raw.status \in {"torn", "executed"} => raw = work
  /\ blind \subseteq {"network-egress", "process-listing"}
  /\ evalRc # "none" => launcher \in Ended
  /\ pc \in {"footprint"} \union AfterCost => evalRc # "none"
  /\ pc \notin {"footprint", "gone"} \union AfterCost => evalRc = "none"

(* The inductive invariant of DemoRun.                                     *)
DInv ==
  /\ TypeOK /\ PhaseInv /\ CopyInv /\ CostInv /\ ReportInv /\ DeliveryInv
  /\ CleanRunIsComplete /\ OpenChannelIsSeen
=============================================================================
