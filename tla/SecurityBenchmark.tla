--------------------------- MODULE SecurityBenchmark ---------------------------
(***************************************************************************)
(* benchmarks/sandbox_security/benchmark.py: run.sh again and again, in a  *)
(* shuffled schedule of warmups and measured runs and then a sweep of the  *)
(* memory limit, and one exit status for the campaign.  Of run.sh it only  *)
(* sees the files a run leaves, as RunResult says and DemoRun implements.    *)
(***************************************************************************)
EXTENDS Naturals, Sequences, RunResult

CONSTANTS
  Backends,       \* --backends
  Warmups,        \* --warmups
  Repeats,        \* --repeats
  MemSweep        \* --mem-sweep

ASSUME BenchmarkAssumption ==
  /\ Backends \in Seq(STRING) /\ MemSweep \in Seq(STRING)
  /\ \A i, j \in 1 .. Len(Backends) : Backends[i] = Backends[j] => i = j
  /\ Warmups \in Nat /\ Repeats \in Nat

Requested == {Backends[i] : i \in 1 .. Len(Backends)}
Phases == {"warmup", "main"}
Planned == [phase \in Phases |-> IF phase = "warmup" THEN Warmups ELSE Repeats]

(* The points of the sweep: a backend and a limit, by their positions.     *)
SweepPoints ==
  {p \in (1 .. Len(Backends)) \X (1 .. Len(MemSweep)) : Backends[p[1]] # "baseline"}

VARIABLES
  ready,          \* whether a backend can run on this host
  left,           \* runs of the schedule still to do, by backend and phase
  sweep,          \* points of the sweep still to do
  runs,           \* the records so far, repeated ones once
  hard_fail,
  summary,        \* the verdict on a backend
  exit            \* the exit status; an exception is nonzero

vars == <<ready, left, sweep, runs, hard_fail, summary, exit>>

Init ==
  /\ ready \in {r \in [Requested -> BOOLEAN] : "baseline" \in Requested => r["baseline"]}
  /\ left = [b \in Requested |-> Planned]
  /\ sweep = SweepPoints
  /\ runs = {}
  /\ hard_fail = FALSE
  /\ summary = [b \in Requested |-> "none"]
  /\ exit = "none"

Scheduled == \E b \in Requested : \E phase \in Phases : left[b][phase] > 0

(* The sweep goes through the backends, and for each through the limits.   *)
First(p) == \A q \in sweep : p[1] < q[1] \/ (p[1] = q[1] /\ p[2] <= q[2])

Swept(p) == Backends[p[1]]

Record(b, phase, result) == [backend |-> b, phase |-> phase, result |-> result]
-----------------------------------------------------------------------------
\* Mutant: the count is tested for truth the wrong way round.
WarmupFailedIfZero(result) == result.error \/ result.unexpected = "zero"

(* A warmup fails with no report, or with one of unexpected verdicts.      *)
WarmupFailed(result) == result.error \/ result.unexpected = "some"

(* One run of the schedule, which rng.shuffle may have put in any order.   *)
ScheduledRun(b, phase) ==
  /\ exit = "none" /\ left[b][phase] > 0
  /\ left' = [left EXCEPT ![b][phase] = @ - 1]
  /\ \E result \in Results(b, ready[b]) :
       /\ runs' = runs \union {Record(b, phase, result)}
       /\ hard_fail' = (hard_fail \/ (phase = "warmup" /\ WarmupFailed(result)))
  /\ UNCHANGED <<ready, sweep, summary, exit>>

LimitHeld(result) == result.limit = "as-expected"

\* Mutant: only a limit that was seen not to hold counts.
SweepRunUnlessSeen(p) ==
  /\ exit = "none" /\ ~Scheduled /\ p \in sweep /\ First(p)
  /\ sweep' = sweep \ {p}
  /\ \E result \in Results(Swept(p), ready[Swept(p)]) :
       /\ runs' = runs \union {Record(Swept(p), "mem-sweep", result)}
       /\ hard_fail' = (hard_fail \/ result.limit = "UNEXPECTED")
  /\ UNCHANGED <<ready, left, summary, exit>>

(* One point of the sweep: resource-limit must be as expected.             *)
SweepRun(p) ==
  /\ exit = "none" /\ ~Scheduled /\ p \in sweep /\ First(p)
  /\ sweep' = sweep \ {p}
  /\ \E result \in Results(Swept(p), ready[Swept(p)]) :
       /\ runs' = runs \union {Record(Swept(p), "mem-sweep", result)}
       /\ hard_fail' = (hard_fail \/ ~LimitHeld(result))
  /\ UNCHANGED <<ready, left, summary, exit>>

(* A report that does not parse: json.load raises, and nothing is written. *)
TornReport ==
  /\ exit = "none"
  /\ \/ \E b \in Requested : ready[b] /\ \E phase \in Phases : left[b][phase] > 0
     \/ ~Scheduled /\ \E p \in sweep : First(p) /\ ready[Swept(p)]
  /\ exit' = "nonzero"
  /\ UNCHANGED <<ready, left, sweep, runs, hard_fail, summary>>

(* The measured runs that have a report. *)
Mains(b) == {r \in runs : r.backend = b /\ r.phase = "main" /\ ~r.result.error}

Summary(b) ==
  IF Mains(b) = {} THEN "no runs"
  ELSE IF \A r \in Mains(b) : r.result.unexpected = "zero" THEN "stable" ELSE "unstable"

(* The aggregation, the report and the exit status. *)
Aggregate ==
  /\ exit = "none" /\ ~Scheduled /\ sweep = {}
  /\ summary' = [b \in Requested |-> Summary(b)]
  /\ hard_fail' = (hard_fail \/ \E b \in Requested : summary'[b] # "stable")
  /\ exit' = IF hard_fail' THEN "nonzero" ELSE "zero"
  /\ UNCHANGED <<ready, left, sweep, runs>>

Next ==
  \/ \E b \in Requested : \E phase \in Phases : ScheduledRun(b, phase)
  \/ \E p \in SweepPoints : SweepRun(p)
  \/ TornReport \/ Aggregate

Spec == Init /\ [][Next]_vars
-----------------------------------------------------------------------------
(* Properties. *)

Phase(phase) == {r \in runs : r.phase = phase}

(* Exit status 0 (main, line 223): every measured run that has a report    *)
(* was judged and had nothing unexpected, there is one for each backend,   *)
(* no warmup was seen to fail, and the limit held at every swept point of  *)
(* every backend but the baseline, all of which were therefore available.  *)
ExitZeroIsClean ==
  exit = "zero" =>
    /\ \A r \in Phase("main") : r.result.error \/ r.result.unexpected = "zero"
    /\ \A b \in Requested : \E r \in Phase("main") : r.backend = b /\ ~r.result.error
    /\ \A r \in Phase("warmup") : ~WarmupFailed(r.result)
    /\ \A r \in Phase("mem-sweep") : LimitHeld(r.result)
    /\ MemSweep # <<>> => \A b \in Requested \ {"baseline"} : ready[b]

(* A campaign in which every run was clean does not fail, unless a report  *)
(* could not be read (main, lines 152-223).                                *)
CleanCampaignPasses ==
  \A b \in Requested : summary[b] # "none" =>
    ((\A r \in runs : r.result = Clean) /\ Repeats > 0 => exit = "zero")

(* "Exit code is nonzero if any requested backend is unavailable"          *)
(* (benchmark.py:30, and the benchmark's README).                          *)
UnavailableFails == exit = "zero" => \A b \in Requested : ready[b]

(* "across N repeats, does every probe match its expected verdict on every *)
(* run?" (benchmark.py:7-8): also on the runs that left no report.         *)
EveryMeasuredRunCounts == exit = "zero" => \A r \in Phase("main") : ~r.result.error

(* Exit status 0 keeps at least one of these two promises: a campaign that *)
(* violates this breaks both.                                              *)
SomePromiseIsKept == UnavailableFails \/ EveryMeasuredRunCounts
-----------------------------------------------------------------------------
(* The inductive invariant behind the first two. *)

TypeOK ==
  /\ ready \in [Requested -> BOOLEAN]
  /\ left \in [Requested -> [Phases -> Nat]]
  /\ sweep \subseteq SweepPoints
  /\ \A r \in runs : r.backend \in Requested /\ r.result \in Results(r.backend, ready[r.backend])
  /\ hard_fail \in BOOLEAN
  /\ summary \in [Requested -> {"none", "no runs", "stable", "unstable"}]
  /\ exit \in {"none", "zero", "nonzero"}

(* What has been done has left a record.                                   *)
RecordInv ==
  /\ \A b \in Requested : left[b]["main"] < Repeats => \E r \in Phase("main") : r.backend = b
  /\ \A p \in SweepPoints \ sweep : \E r \in Phase("mem-sweep") : r.backend = Swept(p)

(* Until the runs are aggregated hard_fail says what the warmups and the   *)
(* sweep have shown, and is set by nothing that is clean.                  *)
FailInv ==
  exit = "none" =>
    /\ summary = [b \in Requested |-> "none"]
    /\ hard_fail => \E r \in runs : r.result # Clean
    /\ ~hard_fail => /\ \A r \in Phase("warmup") : ~WarmupFailed(r.result)
                     /\ \A r \in Phase("mem-sweep") : LimitHeld(r.result)

CampaignInv == TypeOK /\ RecordInv /\ FailInv /\ ExitZeroIsClean /\ CleanCampaignPasses
=============================================================================
