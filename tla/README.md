# A TLA+ model of aider-enhance

This directory holds TLA+ modules that model the parts of this repository whose
behaviour depends on the order of events: the session and the runner that give aider's
commands a sandbox, the demo harness that measures sandboxes, the gateway to the model
and the forwarder in front of it, and the programs that repeat and aggregate runs. TLC
checks them on small instances; TLAPS proves the safety properties of all of them for
every instance.

Paths below are relative to the repository, so `src/run.sh` is the demo's script.

## 1. The system

`aider_local` wraps aider so that the commands aider would run on the host run in
a sandbox, on a copy of the project. `src` is a demo that runs one workload under
four backends (bubblewrap, rootless Podman, Firecracker, and no sandbox as the
baseline), probes the boundary from inside, and judges it from outside.
`benchmarks` repeats both.

| Component | State it keeps | Operations | Interaction | What is hard |
|---|---|---|---|---|
| `run_process`, `aider_local/runner.py` 38-70 | output so far, deadline, child | start, read, time out, overflow, interrupt, kill group, reap | every helper and sandbox client goes through it | descendants that fork, detach, hold the pipe; the last read against the deadline |
| `Runner`, `runner.py` 147-344 | temporary copy, running client and sandbox | validate, select, stage, launch, clean up, answer | called by aider's `run_cmd` hook; calls podman, systemd, Firecracker | readiness that changes, sandboxes that outlive their clients, cleanup that fails, two interrupts |
| `snapshot`, `runner.py` 73-133 | open directory descriptors, size budget | walk, stat, link, copy | reads the project while an editor may write it | swaps between stat and open, files that grow |
| session and hook, `aider_local/cli.py` | two replaced `run_cmd` references | replace, call, restore | aider's modules, the Runner | one left unreplaced; an interrupt between the two |
| guards, `aider_local/cgroup_guard.py`, `landlock_guard.py`, `inside.sh` | limits, ruleset | verify, handle, add rules, restrict, exec | systemd scope, kernel ABI | limits that are set but not enforced, rights that a kernel lacks, a step that fails |
| `src/run.sh`, `src/common/lib.sh` | run directory, pids of services, trap | prepare, start services, launch, wait, copy, judge, account, wipe | processes, files, signals | services that do not start or still write while they are copied; what outlives the script |
| launchers, `src/common/inside.sh`, `probe_runner.py` | report, exit codes | boot or skip, agent, acceptance, probes, fetch | files in the workspace, sockets | death at any point, torn reports, a missing target |
| `src/common/sampler.py` | samples | install handlers, sample, write | a signal from run.sh | the signal before the handler |
| `evaluate.py`, `footprint.py`, `trajectory.py`, `collect.py` | none | verdicts and sums | read what run.sh copied | absent, torn, early or wiped files |
| `src/common/model_gateway.py` | turn counter, log, trace | accept, forward, answer, account | HTTP clients on a socket, an upstream | threads, kept-alive connections, errors after the answer |
| `src/common/portfwd.py` | two threads for a connection | connect, splice, shut down | between agent and gateway | half-closed connections, full buffers, resets, a gateway that does not accept |
| `src/common/compare.py` | none | pick a run for each backend, tables | reads directories that runs are writing | order of names, partly written files |
| `benchmarks/sandbox_security` | records of runs | schedule, sweep, aggregate | runs run.sh | a run that is skipped, or fails, among others |
| `benchmarks/cli_refactor` | candidate, frozen copy, records | generate behind a recording proxy, replay | aider-local, Runner, a provider | requests under way when aider is killed, edits between a look and a copy, errors among repeats |

The correctness of each, in a sentence: a helper call ends and an aborted one leaves
nothing running; a command runs only in a sandbox that was asked for, behind every
guard that is documented, and exit code 0 is its own; no command runs on the host while
aider runs, and the hook is undone after; a copy holds the project's files and no others,
within the limit; a clean verdict is that of a complete run, and an open channel is seen;
what is accounted for was answered, and whoever asks is served; a forwarded exchange
loses nothing as long as nobody closes early; a comparison shows a judged run; exit
status 0 of a campaign or of a replay means that every run that counts was clean.

`PROJECT.json` lists the hazards line by line, with the properties that cover them.

## 2. The modules

```
ProcessCall      <--implements--  RunProcess        --> RunProcess_proofs
SandboxedCommand <--implements--  Runner            --+
                                    ^ extends         +-> LocalSession_proofs
                       Landlock --> LocalSession    --+
                                  Snapshot          --> Snapshot_proofs
Evaluate         <--extends-----  DemoRun           --> DemoRun_proofs
RunOutcome       <--implements--  DemoRun
   | extends
RunResult        <--extends-----  SecurityBenchmark --+-> Campaigns_proofs
                                  CompareRuns       --+
                                  ModelGateway      --> ModelGateway_proofs
ByteChannel      <--implements--  PortForward       --> PortForward_proofs
                                  RefactorBenchmark --> RefactorBenchmark_proofs
```

`ProcessCall`, `SandboxedCommand`, `RunOutcome` and `ByteChannel` are abstract: they say what a
caller, or a reader of the files, may rely on. `Runner` takes a helper call as one step that ends and whose result is whole,
which is what `ProcessCall` promises and `RunProcess` keeps. `LocalSession` runs the steps
of `Runner` as they are, beside its own, and `Runner!Implements` holds of it too.
`SecurityBenchmark` takes a run of run.sh as the files it leaves: `RunResult` lists what these can
say, and `DemoRun` implements `RunOutcome`, whose files say nothing else. `RefactorBenchmark` takes
a call of the Runner as the answer it gives. Each `MC*` module gives the values of one
component's constants. Operators marked "Mutant" are plausible mistakes; no
specification uses them. Each one, put in the place of the definition below it,
makes TLC find the property that `PROJECT.json` pairs it with violated.

**RunProcess** (`runner.py` 38-70). One variable per thing the function or the kernel
knows: `pc` is the line, `output` the number of units read, `clock` the time
since the call, `state`, `member`, `holds` the processes, whether they are in the child's group
and hold its pipe. `Popen`, `CheckDeadline`, `Select`, `ReadChunk`, `ReadEof`,
`WaitReaps`, `WaitExpires`, `Leave` follow the try block, `KillGroup` and `Reap` the
except block, and `Interrupt` is a KeyboardInterrupt at any point of the try. The child
and its descendants (`Fork`, `Detach`, `Write`, `CloseOutput`, `Exit`, `Die`) do as they like.
Process ids are not reused, and an interrupt arrives inside the try.

**Runner** (`runner.py` 136-344). One call of `Runner.run`. `Validate`,
`CheckPasses`/`CheckFails`/`NoneReady` (the loop of `select_backend`), `MakeStage`,
`TakeSnapshot`, `BuildImages`, `Launch`, `ClientReturns`, `ClientAborted`, `CollectGuest`,
`CleanupSucceeds`, `CleanupFails`, `Unstage`, `Reply`. Around it, backends become ready
and unready (`Flip`), the sandbox starts and ends on its own
(`SandboxStarts`, `SandboxEnds`), and the user interrupts. A sandbox does not appear
after its client was killed.

**Landlock** (`aider_local/landlock_guard.py`, `src/process-sandbox/landlock_guard.py`). Pure
operators: the rights that `cap_for_abi` handles, the rules of `enforce`, and the domain that
they make; then what a kernel of some ABI permits in such a domain, and what the guard's head
comment says it should. `Rights` are those that the guards name (`ACCESS_FS`). A later kernel
knows more: `ioctl_dev` of ABI 5 stands for them, no guard handles it, and it is left to everyone.

**LocalSession** (`cli.py`, `cgroup_guard.py`, `landlock_guard.py`). `hook` says where
aider-local or aider-test is, `refs` what `run_cmd` means in each of aider's two modules;
`Patch` and `Restore` change one reference at a time, `RunCmd` is a command by either of
them, and `Signal` is a Ctrl-C outside of a call; one inside the finally clause that restores
leads to `hook = "cut"`, with whatever is still replaced. `entry` is the way into the process
sandbox: `EnterScope`, `VerifyLimits`, `Bubblewrap`, `ApplyRlimits`, `CreateRuleset`, `AddRules`,
`SetNoNewPrivs`, `RestrictSelf`, and `Refuse` at any of them; only from its end does the
`SandboxStarts` of Runner happen. The Runner keeps no state from one call to the next,
so one call of it is followed, before or after which aider may go on.

**Snapshot** (`runner.py` 73-133). A tree of any depth as functions on its paths; `stack`
holds the open directory descriptors with the names that `listdir` gave and are
still to be visited. `Edit` changes any path to any kind of entry at any moment, in
the descriptor's directory and not in what its name now means. `ResolvesInside` is `resolve`
of a path: it follows links on the way, and so has several possible outcomes where a directory
was swapped for a link. Sizes count chunks of 64 KiB.

**Evaluate** and **DemoRun** (`src/run.sh`, `lib.sh`, the launchers, `inside.sh`, `probe_runner.py`,
`sampler.py`, `evaluate.py`, `footprint.py`, `trajectory.py`). `pc` walks through run.sh phase by
phase; `up` is the set of services, `armed` and `sample` are the sampler's handlers and file,
`launcher` and `inside` are the backend's two programs, `call`/`usage`/`trace` the gateway as
a run depends on it, and the rest are the files. `open` is what the boundary lets through: the
model does not know why, and asks whether the run finds out. The sink, the gateway and the
fake model may fail to start without run.sh noticing. `Killed` ends the boundary at any
point, `Interrupt` is a signal to run.sh. A service starts together with the storing of its
pid, the metadata address cannot be reached, and of the probes that are judged by their
report alone one stands for all.

**ModelGateway** (`model_gateway.py`). Each connection has a client and a handler; the
handler's steps are `_forward`'s, and `Count`, `Store`, `WriteTurn` are the three accesses to
`_turn[0]`. `deployment` tells the Unix socket of a demo run, single-threaded and
traced, from the TCP service of a cluster, threaded and without a trace (`Threaded`, `Tracing`).
A 403 or a 502 closes its connection, as `send_error` does. An answer written to a client that has gone
is an error on the Unix socket; on TCP `Reply` may also succeed, since the reset has not come
back, and the handler goes on to log it. `usage` counts the lines of the log for each request.

**PortForward** (`portfwd.py`). One connection; connections share nothing. `thread` says
where each of the two threads is, `held` what it has read and not yet written, `in` and `out` are the
socket buffers, `shut` the shutdowns of the finally clause, which `Shutdown` does one at a time.
Around it the ends send, receive, end their stream or leave, and the kernel resets what is
closed with something unread. `listener` is the gateway's backlog: with room the connect succeeds, a full
one blocks it, without a timeout, and it fails only when nobody listens. When the threads have
ended, `Release` drops the socket to the gateway; the client's is also held by a local variable of
`main` until the next accept returns (`DropClient`). Bytes are counted in units of an unspecified size: a
unit that is lost, invented or duplicated shows, the order of units does not.

**RefactorBenchmark** (`benchmarks/cli_refactor`). `phase` follows `generate` and then `run`. `request`
is where the proxy's thread for each request is, `trace` its records; `CloseProxy` and `JoinThreads`
are `shutdown` and `server_close`, of which the second waits for the threads. `work` is the
project, of which the model keeps what the benchmark distinguishes: whether the checker
accepts the source, whether there is a change outside of the allowance, and the state of `_bench`.
`CheckScope`, `Freeze`, `RecheckScope`, `StageChecker` lead to `RunOne` and `Finish`; `candidate` remembers
what the candidate was when the first of them looked.

**SecurityBenchmark** (`benchmarks/sandbox_security/benchmark.py`). `left` counts the
runs of the shuffled schedule still to do (any order), `sweep` are the points of the memory sweep still to do (in order), `runs`
the set of records, equal ones once: neither the verdict nor the exit status counts them.
A backend is requested once.

**RunResult** and **RunOutcome** (`benchmark.py` 55-105, `run.sh`, `evaluate.py`). `Results` are the records
that `one_run` can make of what a run leaves, for a host that can run the backend and for one that
cannot. `RunOutcome` is one run as its files show it: `Boots` or `Skips`, `Deliver`, `Judge`, `Account`,
each at most once or never, and nothing after a judgement changes the result. DemoRun's map to it
(`Able`, `Left`, `Judged`) is at the end of its properties.

**CompareRuns** (`compare.py`, beside run.sh). Runs write their report and footprint in
stages, while `latest_per_backend` reads one directory after the other. The comparison fails on a torn
footprint, without any run to show (`sys.exit`), and if no run that it shows has a probe (`max` of nothing,
`compare.py` 92), as when every one of them was skipped.

## 3. What is checked

Sizes are distinct states. The inductive invariants of section 4 have been checked on
the same instances; they are proved, and not part of the runs.

| Run | Question and bounds |
|---|---|
| `run_process` | Can an aborted call leave a member of its group, or a result be partial, and does every call end? A child and two descendants (one to detach, one to stay), pipe 2, chunk 2, limit 3 - reads that stop below, at and above the limit - deadline at tick 2, one interrupt. Also the refinement of `ProcessCall`. 295 thousand. |
| `session` | aider-local and aider-test around one call: every pin, directive and initial readiness, one change of readiness, two interrupts of the call (one in the command, one in the cleanup) and one of the program; every scope in which at most one limit is missing or loose; kernels without Landlock, with ABI 1 and with ABI 5, which has a right that no guard handles. Where commands run, behind what, what an answer means, what is undone; an answer for every call; the refinement of `SandboxedCommand`. 766 thousand. |
| `snapshot` | Every tree over a file, an excluded entry, and a directory with one entry (two levels), and one change of it at any step. One change is enough to make any pair of system calls disagree. 883 thousand. |
| `demo` | Emulate mode of two sandboxes (the rootless container decides as the process sandbox does) with all eight sets of open channels and of the baseline, one probe that raises, one interrupt; agent mode of a backend with its own timeout and fetch and of one without, with a model call that can be at any step of the gateway while run.sh copies. Also the refinement of `RunOutcome`. 1.1 million. |
| `demo_marker` | Violated: see below. |
| `gateway` | Both deployments: the single-threaded, traced socket of a demo run, and the threaded service without a trace. Two connections of two requests: two of each are needed for a response to be taken for another's and for a client to wait for another. On TCP an answer may be written to a client that has gone. 643 thousand. |
| `port_forward` | Three units from each end and buffers of two, so that threads meet empty and full sockets and hold more than one unit. What may be lost, the refinement of `ByteChannel`, and who is left waiting; the gateway's backlog has room, is full or refuses, and changes as it likes. 102 thousand. |
| `security_benchmark` | Two backends, one that can be skipped and one that cannot, one warmup, two repeats and one sweep point for each. 548 thousand. |
| `benchmark_promises` | Violated: see below. |
| `compare_runs` | Two runs of two backends on two days beside one comparison. The property relates two runs at a time. 159 thousand. |
| `compare_latest` | Violated: see below. |
| `refactor_benchmark` | Two requests that may be under way when aider ends, is killed or is interrupted, one edit by somebody else between any two steps, a warmup and a measured iteration in two backends. 742 thousand. |

Deadlock checking is off because every modelled program ends.

What the properties say, beyond their comments:

* `AbortLeavesNoGroup`, `ResultIsWhole`: the two promises of `run_process`, however its
  descendants behave. `Finishes` includes a child that never closes its output.
* `RanWhereAllowed`: there is no fallback to a backend that was not asked for.
  `SuccessIsReal`, `SurvivorsAreKnown`, `InterruptIsNoResult` and `StageOutlivesSandbox` tell what the answer
  of a call means when a cleanup fails or is cut short. They also record two facts: a
  failed cleanup replaces an interrupt by an error (`runner.py` 292-294), and an interrupt
  in the cleanup leaves the sandbox running with its workspace removed.
* `NeverOnHost` and `HookIsUndone` hold over every interrupt, also one between the two
  replacements. The first is about the two `run_cmd` references, and not about other ways in
  which aider starts programs (lint commands, `cli.py` 74). The one exception of the second
  is a Ctrl-C inside the finally clause that restores the references.
* `ConfinedAsDocumented` relates the start of a command to what the kernel was really
  told: limits read back, the ruleset of this ABI, the restriction in force. A kernel
  without Landlock is the documented exception, and the rights are those of `ACCESS_FS` that the
  ABI knows: later ones, as `ioctl_dev`, are left to everyone. `RefusedIsNoSuccess` is as much as can be
  said: a refused setup exits with 1, which looks like a command that failed (`runbook.md` 229).
* `StableFilesCopied`: what nobody touched is copied whatever happens beside it.
  `OnlyProjectFiles` is about the content of the files in the copy, not about its links.
* `LeftBehind` is exact: the fake model outlives a run that dies before the trap
  is installed (`run.sh` 34 and 67); the backend and the sampler outlive an interrupt.
* `CleanRunIsComplete`, `OpenChannelIsSeen`: a verdict without an unexpected probe is that of
  a complete run, or a skipped one, and an open channel is not judged closed unless the
  target of its probe - the sink that did not start, the marker that had ended - was gone. A target
  that is gone is therefore excused and not detected: nothing in run.sh looks for it.
* `LeavesOutcome` says of every death, kill and interrupt what `collected/` may then look like: a
  report that is missing or torn is never judged as if it were whole, a judged one is final, and a
  skip is judged as such.
* `TurnsAreCounted` depends on the order in which run.sh copies two files (line 111), and
  `SampleIsKept` on the copy of the sampler's file before the wipe.
* `AccountIsSound`: each request is in the log at most once, for an answer the upstream gave, and the client
  got that answer. On TCP the client may have gone instead; on the Unix socket of a run it may not.
* `AnswersAreOwn` has one exception, only with a trace, which the code has: if tracing fails
  after the answer was sent (a body that is JSON but no object), the handler sends a 502 as well, and a
  client that already sent its next request takes it for the answer to that.
* `LossIsExplained` and `KeepsChannel` say which exchanges the forwarder does not cut: those
  in which each end closes after it has read. A client that ends its sending side and then
  waits (half-close) loses its answer, since the first thread to stop shuts both directions.
* `EndsAreSeen`: nobody is left waiting, unless the gateway's backlog is full again and again,
  against which the blocking connect (`portfwd.py` 42) has nothing.
* `AccountIsExact` counts requests whose answer came after aider was killed.
  `PassedIsAccepted` speaks of the copy that was replayed and of the candidate as it was when the replay
  first looked: each of the two looks sees something that the other does not.
* `FinishedIsShown` is about a comparison that is written; one that fails shows nothing.
* `ExitZeroIsClean` is what exit status 0 does mean, next to the finding on what it does not.

### Where code and text disagree

* `demo_marker`. run.sh says the marker process is there for the process-listing
  probe to look for (`run.sh` 72-73). It sleeps for `RUN_TIMEOUT_SEC`, but only
  Firecracker is stopped after that time; after a longer agent run the probe finds nothing and
  reports "blocked" although host processes are visible.
* `benchmark_promises`. The benchmark promises a nonzero exit when a backend is unavailable
  (`benchmark.py` 30), but a skipped Firecracker run counts as a run with nothing unexpected;
  and "every run" has to match (`benchmark.py` 7-9), but a measured run without a report is
  dropped before the verdict (188-189). The run's property is that one of the two promises is
  kept, and a single campaign breaks both.
* `compare_latest`. "The latest run" (`compare.py` 3-4) is the greatest name, and within a day
  the end of a name is random.

### Fairness

* RunProcess: the caller takes its steps, the clock goes on and the kernel delivers
  SIGKILL. Nothing is assumed of the child or its descendants.
* LocalSession: weak fairness of the call and of its return; each helper it calls ends, which is
  `Finishes` of RunProcess. Nothing is assumed of aider, sandbox, user or readiness.
* Snapshot: of the copier only.
* DemoRun: of run.sh, the launcher, the probes (each has its own timeout in
  `probe_runner.py`) and the timeout of the virtual machine. Not of the agent and its
  tests: `Finishes` names the runs that they may hold up.
* ModelGateway: of the handlers - an upstream answers or times out after 120 seconds - and
  of clients that read what they asked for. On the Unix socket clients also
  close what they no longer use, since the agents of a run end; on TCP not even that.
* PortForward: of the threads, of the connect while it can succeed or fail, and of ends that read
  what has arrived or leave. An end that never reads may hold its thread for ever, and the code
  has no timeout against that. Nothing is assumed of the gateway's backlog, nor that another client
  ever comes; `EndsAreSeen` therefore has the condition that the backlog stops being full.
* RefactorBenchmark: of the harness, of the timeout of `communicate`, and of the proxy's
  threads, whose upstream has a timeout of 120 seconds. Nothing of aider.

## 4. What is proved

Eight `*_proofs` modules hold machine-checked proofs, for every value of the constants that
the named assumptions allow. The properties of the runs that a theorem states are
listed in `PROJECT.json`; each follows from an inductive invariant that the last part of
the component's module (or the head of its proofs) states in named parts.

* **RunProcess** (any set of processes, pipe, chunk, limit, timeout). `AbortLeavesNoGroup` and
  `ResultIsWhole` are not inductive. `IInv` adds what makes them so: once the read loop saw end of
  file nobody holds the pipe, and only a holder can make another; after the SIGKILL no member of the
  group can run, and only a running one can fork; a reaped child has left its code.
  `InductiveInvariant` proves it action by action, `AbortSafe` and `ResultSafe` follow, and
  `Implements` shows that every step is one of `ProcessCall` or a stutter.
* **Runner** (any number of readiness changes and interrupts). `IInv` has three parts: the
  selection only holds allowed backends, the sandbox belongs to the selected one and is running
  without a client only before its cleanup or after it failed, and without an exception under way
  the answer is already determined. From it `NeverElsewhere`, `SuccessSafe`, `SurvivorsSafe`,
  `InterruptSafe`, the action property `StageSafe`, and `Implements` for `SandboxedCommand`.
* **LocalSession** (any ABI, any scopes, any paths present). A step of a session is a step of
  Runner, or leaves its variables alone, or is a `SandboxStarts` with one more condition: so
  `SessionKeepsCall`, `SessionCallSafe` and `SessionImplements` carry Runner's results over. `SInv` adds
  which references are replaced in which phase, and what each step of the way in has established;
  `SessionNeverOnHost`, `HookUndone`, `Confined` and `RefusedSafe` follow. `Confined` rests on
  `DomainIsDocumented`, which says of every ABI, not only those of the run, that the domain
  of `enforce` gives away no more of the rights of `ACCESS_FS` than documented, and that a later
  right stays with everyone.
* **Snapshot** (any tree, exclusion, budget, edits). `BudgetInv` relates what is written,
  what has been charged, and what the open file may still add: `written + (info.size - copied) <= total`.
  This is why a file that grows cannot break the limit: the copier stops at the size it charged.
  `BudgetInvariant`, `BudgetSafe` and `ContentSafe` follow. That nothing is missed takes `CopyInv`. Its
  core, `NoneMissed`: an untouched entry that is not excluded, in a directory that the copier has entered, is
  still a name in some open frame (`Listed`), or at hand, or in the destination with its kind and size.
  `TreeInv`: the directory of an entry still is one as long as nobody touches either; `EntryInv`: what is
  at hand is what `stat` said as long as nobody touches it. A link that cannot be resolved and a file that
  is gone end one entry, not the walk, so the names left in a frame lose nothing. `CopyInvariant` proves it;
  `StableSafe` follows without an induction on the depth: at the end no frame is open and nothing is at
  hand, and if a path to an untouched file were not copied, `TreeAssumption` gives the first of its entries
  that is missing, which lies in a directory that was entered.
* **DemoRun** (any scenarios, model calls, failing probes, interrupts). `DInv` has five parts.
  `PhaseInv`: what runs at each phase of run.sh, which gives `LeftSafe`. `CopyInv`: a turn is logged
  before it is traced and the trace copied before the log, which gives `TurnsSafe`. `CostInv`: from the
  first footprint on, computing it again gives the same (`CostSafe`), and the sampler's file is in
  `collected/` before it may be wiped (`SampleSafe`). `ReportInv`: a file that was written completely
  is the report of all probes, which a probe wrote truthfully about the boundary and which
  nothing changes any more; with it a verdict speaks of the run (`CleanSafe`, `ChannelsSafe`).
  `DeliveryInv`: a report arrives from a boundary that is over, before it is judged, and only once;
  with it every step is one of `RunOutcome` or a stutter (`DemoImplements`), and therefore what a run
  leaves is always in SecurityBenchmark's `Results` (`RunsAreReckonedWith`). This proof found that
  `Results` had lacked one: a skipped Firecracker whose run.sh died before evaluate.py.
* **ModelGateway** (any connections and requests). `ServerInv` says that the Unix socket is busy with one
  connection and only it traces, so the unlocked counter has one user; `TurnInv` orders the trace
  below the counter; `ChargeOf` says at each step of a handler what has been charged, that it was
  answered, or on TCP written to nobody (`Void`), and that it is in the log no more than once; `StreamOf` counts responses against requests. `TurnsSafe`, `AccountSafe`, `AnswersSafe` follow.
* **PortForward** (any buffers and amounts). The argument: when threads have stopped, one of them
  did so of itself (`StopInv`), because its end had ended its stream with nothing left to read, or
  because the other end had left with something unread; only then are sockets shut, so anything
  that can no longer arrive is explained (`LossInv`). `LossSafe` follows, and `ForwardImplements` for `ByteChannel`.
* **RefactorBenchmark** (any requests, backends, iterations, edits). `TraceInv`: after the join no
  thread is busy and the trace has every request sent on; `ReportInv`: the report was made from it;
  `ReplayInv`: the candidate was looked at, so was the copy that is run, and the copy's checker was replaced. `AccountSafe`
  and `PassedSafe` follow.
* **SecurityBenchmark** (any backends, warmups, repeats and sweep). `RecordInv`: what is no longer to be
  done has left a record; `FailInv`: until the aggregation `hard_fail` is set by every warmup that failed and
  every point where the limit did not hold, and by no clean run. `CampaignInvariant`, `ExitZeroSafe` and
  `CleanSafe` follow; `ExitZeroSafe` uses that a backend that cannot run leaves no report in which the limit held.
* **CompareRuns** (any runs, backends, days and names). `FoundInv`: what the glob found stays there, and a run
  that was final before stays final and is read as judged; `RowInv`: a row stands under the backend of
  its run; `ReadInv`: a final run is still to be read, or the row of its backend is no earlier than it.
  `CompareInvariant` and `FinishedSafe` follow.

The proofs rest on the named ASSUMEs of the modules, which TLC evaluates on the runs.
Every safety and action property and every refinement that a passing run checks is also proved.
Model-checked only: liveness (`Finishes` of RunProcess and of DemoRun, `CallsAreAnswered`, `Ends`,
`EveryoneIsServed`, `EndsAreSeen`, `GenerationEnds`), which rests on fairness and is out of the prover's
reach. The invariants of the proofs have been model-checked on the same instances as the runs.

## 5. What is not modelled

* Why a boundary holds: bubblewrap arguments, seccomp, container and kernel configuration. The
  models say when a boundary is used, that its setup was complete, and how it is judged. Of
  Landlock the rules are modelled, of the cgroup the reading back.
* What a copied link leads to in the copy: an editor may change what it means after it was looked at.
* Whether an exit code of 1 comes from a refused setup or from the command: the code cannot tell,
  and neither do the properties. (The runbook says so at line 229; its line 315 promises 125 for a
  setup or runtime error of the sandbox, which holds for the errors that the Runner itself sees.)
* More than one call of the Runner in a session: the Runner keeps nothing between calls.
* A sandbox of an aider that `generate` kills with SIGKILL: its finally clauses do not run. It is
  listed as a hazard; it takes the composition of RefactorBenchmark with Runner.
* Of `benchmarks/cli_refactor`: `prepare`, medians and other statistics of `aggregate`, metadata,
  `check.py` and `aider_entry.py`. Of the other programs: layout of tables and reports, statistics,
  estimates, timings, what the sampler samples, `phase_mem.py`, the fake model's dialogue.
* `/demo/outside/loot.txt`, which no run removes: a baseline that was run before may leave the file
  that a later one copies.
* Kubernetes manifests, build scripts, images, the earlier `aider-sandbox-demo`: configuration.
* `http_client_refactor`, the checkers and reference solutions of the benchmarks: test data.
* Full disks, which make a `cp` of run.sh fail, except that run.sh may die at its copies.
* The order of bytes in `portfwd.py`: its threads share no data, and each writes what it read before it reads again.
* Programs that aider starts by other means than `run_cmd`.
* Interrupts in the few instructions before the try of `run_process` and after it.

## 6. Plan

Written: RunProcess with ProcessCall, Runner with SandboxedCommand, Landlock and LocalSession, Snapshot,
Evaluate and DemoRun with RunOutcome, ModelGateway, PortForward with ByteChannel, RefactorBenchmark,
SecurityBenchmark, CompareRuns; proofs of all of them.

Next, the most important first:

1. `ModelPath`: PortForward composed with ModelGateway, so that what a client reads through the
   forwarder is stated in requests and answers.
2. RefactorBenchmark composed with Runner: what outlives an aider that is killed.
3. Interrupts outside the try of `run_process`.
4. The stages of a run in CompareRuns, which include half-written files, against RunOutcome, in which
   a file is written in one step.
