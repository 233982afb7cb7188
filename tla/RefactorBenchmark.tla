--------------------------- MODULE RefactorBenchmark ---------------------------
(***************************************************************************)
(* benchmarks/cli_refactor: generate lets aider-local edit a fresh project *)
(* behind a recording proxy and accounts for the model's usage; run then   *)
(* freezes that candidate and repeats one acceptance check of it in every  *)
(* backend.  Beside them an editor may change the project at any time, the *)
(* proxy's threads may still be busy when aider ends, and every call of    *)
(* the Runner may fail.                                                    *)
(***************************************************************************)
EXTENDS Integers, FiniteSets

CONSTANTS
  Requests,       \* what aider may ask the model
  Backends,       \* --backends
  Iterations,     \* warmups, below 0, and repeats
  MaxEdits        \* bound: edits of the project that are not aider's

ASSUME BenchmarkAssumption == Iterations \subseteq Int /\ MaxEdits \in Nat

(* Of a project the benchmark distinguishes whether the checker accepts    *)
(* its source, whether anything is changed outside of the allowance (and   *)
(* then, whether snapshot would leave it out) and the state of _bench.     *)
Projects == [source : {"accepted", "rejected"}, outside : {"nothing", "copied", "excluded"},
             bench : {"trusted", "changed", "absent"}]
Baseline == [source |-> "rejected", outside |-> "nothing", bench |-> "trusted"]

Runs == Iterations \X Backends

VARIABLES
  phase,          \* where the harness is
  work,           \* the project that is being edited
  aider,          \* none, running or over
  code,           \* aider's exit code: zero, nonzero or killed
  serving,        \* does the proxy take connections?
  request,        \* what the proxy's thread for a request is doing
  usage,          \* does the answer say what it used?
  trace,          \* the records in requests.jsonl
  report,         \* generation.json
  candidate,      \* history: the project as the replay first looked at it
  frozen,         \* the copy that is replayed
  scope,          \* has every look at the scope been passed?
  status,         \* of the runs that are over: passed, failed or error
  exit,           \* the exit code of the replay
  edits

proxy == <<serving, request, usage, trace>>
replay == <<candidate, frozen, scope, status, exit>>
vars == <<phase, work, aider, code, proxy, report, replay, edits>>

Null == -1
NoReport == [requests |-> 0, total |-> Null, code |-> "none", scope |-> FALSE]
\* Where a thread is that has sent the request on, and is not finished.
Sent == {"forwarded", "answered", "recorded"}
Busy == {"reading"} \union Sent

TypeOK ==
  /\ phase \in {"aider", "close", "join", "read", "generated", "raised", "freeze", "recheck",
                "stage", "run", "done"}
  /\ work \in Projects /\ candidate \in Projects /\ frozen \in Projects
  /\ aider \in {"running", "over"} /\ code \in {"none", "zero", "nonzero", "killed"}
  /\ serving \in BOOLEAN /\ scope \in BOOLEAN
  /\ request \in [Requests -> {"idle", "queued", "finished", "refused"} \union Busy]
  /\ usage \in [Requests -> {"unknown", "known"}]
  /\ trace \subseteq Requests
  /\ DOMAIN status \subseteq Runs
  /\ exit \in {"none", "zero", "one"}

Init ==
  /\ phase = "aider" /\ work = Baseline /\ aider = "running" /\ code = "none"
  /\ serving = TRUE /\ trace = {}
  /\ request = [r \in Requests |-> "idle"] /\ usage = [r \in Requests |-> "unknown"]
  /\ report = NoReport
  /\ candidate = Baseline /\ frozen = Baseline /\ scope = TRUE /\ status = <<>> /\ exit = "none"
  /\ edits = 0
-----------------------------------------------------------------------------
(* aider, and whoever else edits. *)

\* One thing about a project changes at a time.
Changes(p) ==
  {q \in Projects : Cardinality({field \in DOMAIN p : p[field] # q[field]}) = 1}

AiderEdits ==
  /\ aider = "running"
  /\ work' \in Changes(work)
  /\ UNCHANGED <<phase, aider, code, proxy, report, replay, edits>>

\* Once the copy is made, nothing looks at the project any more.
Edit ==
  /\ phase \in {"read", "generated", "freeze"}
  /\ edits < MaxEdits
  /\ edits' = edits + 1
  /\ work' \in Changes(work)
  /\ UNCHANGED <<phase, aider, code, proxy, report, replay>>

\* aider does not wait for an answer for ever, and asks again.
Ask(r) ==
  /\ aider = "running" /\ request[r] = "idle"
  /\ request' = [request EXCEPT ![r] = "queued"]
  /\ UNCHANGED <<phase, work, aider, code, serving, usage, trace, report, replay, edits>>

Over(c, to) == aider' = "over" /\ code' = c /\ phase' = to

AiderExits ==
  /\ aider = "running"
  /\ \E c \in {"zero", "nonzero"} : Over(c, "close")
  /\ UNCHANGED <<work, proxy, report, replay, edits>>

\* Mutant: the wait for aider has no timeout.
NeverTimesOut == FALSE /\ UNCHANGED vars

(* generate kills aider when its time is up ...                            *)
TimesOut ==
  /\ aider = "running"
  /\ Over("killed", "close")
  /\ UNCHANGED <<work, proxy, report, replay, edits>>

(* ... or when it is interrupted; it then raises once the proxy is closed. *)
Interrupted ==
  /\ aider = "running"
  /\ Over("none", "close")
  /\ UNCHANGED <<work, proxy, report, replay, edits>>
-----------------------------------------------------------------------------
(* The proxy: one connection, and one thread, for each request. *)

Step(r, from, to) ==
  /\ request[r] = from
  /\ request' = [request EXCEPT ![r] = to]
  /\ UNCHANGED <<phase, work, aider, code, serving, report, replay, edits>>

Accept(r) == serving /\ Step(r, "queued", "reading") /\ UNCHANGED <<usage, trace>>

(* do_POST answers a request that it does not serve, or that aider did not *)
(* live to finish, without a record ...                                    *)
Refuse(r) == Step(r, "reading", "refused") /\ UNCHANGED <<usage, trace>>

(* ... and sends any other on, which may cost something.                   *)
Forward(r) == Step(r, "reading", "forwarded") /\ UNCHANGED <<usage, trace>>

(* The provider answers, with or without usage, or fails, or times out.    *)
Answer(r) ==
  /\ Step(r, "forwarded", "answered")
  /\ \E u \in {"unknown", "known"} : usage' = [usage EXCEPT ![r] = u]
  /\ UNCHANGED trace

(* The record is written before aider gets its answer, if it is there.     *)
Record(r) == Step(r, "answered", "recorded") /\ trace' = trace \union {r} /\ UNCHANGED usage

Reply(r) == Step(r, "recorded", "finished") /\ UNCHANGED <<usage, trace>>

Handler(r) == Accept(r) \/ Refuse(r) \/ Forward(r) \/ Answer(r) \/ Record(r) \/ Reply(r)
-----------------------------------------------------------------------------
(* The end of generate. *)

Goto(to) == phase' = to /\ UNCHANGED <<work, aider, code, edits>>

(* server.shutdown: nobody takes the connections that wait.                *)
CloseProxy ==
  /\ phase = "close"
  /\ serving' = FALSE
  /\ Goto("join")
  /\ UNCHANGED <<request, usage, trace, report, replay>>

\* Mutant: the threads of the proxy are daemons, which nobody joins.
JoinNone ==
  /\ phase = "join"
  /\ Goto(IF code = "none" THEN "raised" ELSE "read")
  /\ UNCHANGED <<proxy, report, replay>>

(* server_close joins the threads, as they are no daemons.                 *)
JoinThreads ==
  /\ phase = "join"
  /\ \A r \in Requests : request[r] \notin Busy
  /\ Goto(IF code = "none" THEN "raised" ELSE "read")
  /\ UNCHANGED <<proxy, report, replay>>

(* usage_summary, where every answer used one unit. *)
Total(records) ==
  IF records # {} /\ \A r \in records : usage[r] = "known" THEN Cardinality(records) ELSE Null

(* scope_report on an inventory: all files, whatever Git or snapshot think *)
(* of them.  The helpers must be there only in a prepared project.         *)
InScope(project, required) ==
  /\ project.outside = "nothing"
  /\ project.bench = "trusted" \/ (project.bench = "absent" /\ ~required)

(* The usage, the project and its scope as they are now. *)
WriteReport ==
  /\ phase = "read"
  /\ report' = [requests |-> Cardinality(trace), total |-> Total(trace), code |-> code,
                scope |-> InScope(work, TRUE)]
  /\ Goto("generated")
  /\ UNCHANGED <<proxy, replay>>

(* Too many bytes, an unreadable file, one that is replaced while it is    *)
(* read, or too much to copy: the inventory or the snapshot raises.        *)
InventoryFails ==
  /\ phase \in {"read", "generated", "freeze", "recheck"}
  /\ Goto("raised")
  /\ UNCHANGED <<proxy, report, replay>>
-----------------------------------------------------------------------------
(* run: the replay of the candidate. *)

CheckScope ==
  /\ phase = "generated"
  /\ candidate' = work
  /\ scope' = InScope(work, TRUE)
  /\ Goto("freeze")
  /\ UNCHANGED <<proxy, report, frozen, status, exit>>

Freeze ==
  /\ phase = "freeze"
  /\ frozen' = [work EXCEPT !.outside = IF @ = "excluded" THEN "nothing" ELSE @]
  /\ Goto("recheck")
  /\ UNCHANGED <<proxy, report, candidate, scope, status, exit>>

\* Mutant: the copy is as good as the original.
TrustCopy ==
  /\ phase = "recheck"
  /\ Goto("stage")
  /\ UNCHANGED <<proxy, report, replay>>

\* Mutant: the verdict on the copy takes the place of that on the original.
RecheckOnly ==
  /\ phase = "recheck"
  /\ scope' = InScope(frozen, FALSE)
  /\ Goto("stage")
  /\ UNCHANGED <<proxy, report, candidate, frozen, status, exit>>

(* What was edited between the first look and the copy is seen here; what  *)
(* the copy leaves out was seen at the first look alone.                   *)
RecheckScope ==
  /\ phase = "recheck"
  /\ scope' = (scope /\ InScope(frozen, FALSE))
  /\ Goto("stage")
  /\ UNCHANGED <<proxy, report, candidate, frozen, status, exit>>

\* Mutant: the copy is checked by what it brings along.
StageNothing ==
  /\ phase = "stage"
  /\ Goto("run")
  /\ UNCHANGED <<proxy, report, replay>>

StageChecker ==
  /\ phase = "stage"
  /\ frozen' = [frozen EXCEPT !.bench = "trusted"]
  /\ Goto("run")
  /\ UNCHANGED <<proxy, report, candidate, scope, status, exit>>

(* What Runner.run may give back, and the one report of the checker in it, *)
(* if there is exactly one.  The trusted checker only accepts what it      *)
(* should; any other may say anything.                                     *)
Results ==
  {o \in [code : {"zero", "nonzero", "125"}, check : {"passed", "failed", "none"}] :
     frozen.bench = "trusted" /\ o.check = "passed" => frozen.source = "accepted"}

StatusOf(o) ==
  IF o.code = "zero" /\ scope /\ o.check = "passed" THEN "passed"
  ELSE IF o.code = "125" \/ o.check = "none" THEN "error" ELSE "failed"

(* An iteration after the other, the backends in each in a random order.   *)
RunOne(i, b) ==
  /\ phase = "run"
  /\ <<i, b>> \notin DOMAIN status
  /\ \A j \in Iterations : j < i => \A c \in Backends : <<j, c>> \in DOMAIN status
  /\ \E o \in Results :
       status' = [k \in DOMAIN status \union {<<i, b>>} |->
                    IF k = <<i, b>> THEN StatusOf(o) ELSE status[k]]
  /\ Goto("run")
  /\ UNCHANGED <<proxy, report, candidate, frozen, scope, exit>>

\* Mutant: a backend that could not run has not failed.
FinishUnlessFailed ==
  /\ phase = "run" /\ DOMAIN status = Runs
  /\ exit' = IF \E k \in Runs : status[k] = "failed" THEN "one" ELSE "zero"
  /\ Goto("done")
  /\ UNCHANGED <<proxy, report, candidate, frozen, scope, status>>

Finish ==
  /\ phase = "run" /\ DOMAIN status = Runs
  /\ exit' = IF \E k \in Runs : status[k] # "passed" THEN "one" ELSE "zero"
  /\ Goto("done")
  /\ UNCHANGED <<proxy, report, candidate, frozen, scope, status>>

Harness ==
  \/ CloseProxy \/ JoinThreads \/ WriteReport \/ InventoryFails
  \/ CheckScope \/ Freeze \/ RecheckScope \/ StageChecker
  \/ (\E i \in Iterations, b \in Backends : RunOne(i, b)) \/ Finish

Next ==
  \/ AiderEdits \/ AiderExits \/ TimesOut \/ Interrupted \/ Edit \/ Harness
  \/ \E r \in Requests : Ask(r) \/ Handler(r)

(* The harness goes on, its clock runs, and so do the proxy's threads,     *)
(* which wait for the provider for at most 120 seconds; aider owes nothing.*)
Spec ==
  /\ Init /\ [][Next]_vars
  /\ WF_vars(Harness) /\ WF_vars(TimesOut)
  /\ \A r \in Requests : WF_vars(Handler(r))
-----------------------------------------------------------------------------
(* Properties. *)

Forwarded == {r \in Requests : request[r] \in Sent \union {"finished"}}

(* The report counts every request that was sent on to the provider, also  *)
(* those whose answer came after aider had ended or been killed, and its   *)
(* total is what all of them used, or null (README.md:94-97).              *)
AccountIsExact ==
  report.code # "none" =>
    /\ report.requests = Cardinality(Forwarded)
    /\ report.total \in {Null, Cardinality(Forwarded)}
    /\ report.total # Null => \A r \in Forwarded : usage[r] = "known"

\* Every backend ran in every iteration, warmups included, and passed.
AllPassed == DOMAIN status = Runs /\ \A k \in Runs : status[k] = "passed"

(* A run only passes on a copy whose source the trusted checker accepts    *)
(* and which has no change outside of the allowance, whatever was edited   *)
(* between the looks at the candidate and its copy; and only if the        *)
(* candidate itself had none when the replay first looked at it, in what   *)
(* the copy leaves out as well.  The replay only exits with 0 if every run *)
(* passed (README.md:38-40).                                               *)
PassedIsAccepted ==
  /\ \A k \in DOMAIN status : status[k] = "passed" =>
       /\ frozen = [source |-> "accepted", outside |-> "nothing", bench |-> "trusted"]
       /\ candidate.outside = "nothing" /\ candidate.bench = "trusted"
  /\ exit = "zero" => AllPassed

(* generate comes to its end, whatever aider and the provider do.          *)
GenerationEnds == phase = "aider" ~> phase \in {"generated", "raised"}
-----------------------------------------------------------------------------
(* The inductive invariant, in parts. *)

Generating == {"aider", "close", "join"}

(* What is in the trace, and when nothing more can get there.              *)
TraceInv ==
  /\ trace = {r \in Requests : request[r] \in {"recorded", "finished"}}
  /\ aider = "running" <=> phase = "aider"
  /\ phase \notin {"aider", "close"} => ~serving
  /\ phase \notin Generating => \A r \in Requests : request[r] \notin Busy

(* The report stays what it was when it was written.                       *)
ReportInv ==
  report.code # "none" =>
    /\ phase \notin Generating \union {"read"}
    /\ report.requests = Cardinality(trace) /\ report.total = Total(trace)

(* What the looks at the scope and the staging have established.           *)
ReplayInv ==
  /\ scope => InScope(candidate, TRUE)
  /\ phase \in {"stage", "run", "done"} /\ scope => frozen.outside = "nothing"
  /\ phase \in {"run", "done"} => frozen.bench = "trusted"
  /\ phase \notin {"run", "done"} => DOMAIN status = {} /\ exit = "none"
  /\ \A k \in DOMAIN status : status[k] = "passed" => scope /\ frozen.source = "accepted"
  /\ exit = "zero" => AllPassed

(* The inductive invariant of RefactorBenchmark.                           *)
RInv == TypeOK /\ TraceInv /\ ReportInv /\ ReplayInv
=============================================================================
