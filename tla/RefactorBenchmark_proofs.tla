----------------------- MODULE RefactorBenchmark_proofs -----------------------
(***************************************************************************)
(* Proofs about RefactorBenchmark, for any requests, backends, iterations  *)
(* and edits: the account of generate is exact, and what the replay lets   *)
(* pass is what it should.                                                 *)
(***************************************************************************)
EXTENDS RefactorBenchmark, TLAPS

(* The invariant holds when aider starts.                                  *)
LEMMA InitRInv == Init => RInv
BY DEF Init, RInv, TypeOK, TraceInv, ReportInv, ReplayInv, AllPassed, Projects, Baseline,
   NoReport, Busy, Sent, Generating, Runs, InScope

(* While generate waits for aider, there is no report and no replay.       *)
LEMMA AiderRInv ==
  ASSUME RInv, AiderEdits \/ AiderExits \/ TimesOut \/ Interrupted
  PROVE  RInv'
BY DEF RInv, TypeOK, TraceInv, ReportInv, ReplayInv, AllPassed, AiderEdits, AiderExits, TimesOut,
   Interrupted, Over, Changes, proxy, replay, Generating, Total, Busy, Sent, Runs, InScope

(* What an editor does to the project is not what is replayed.             *)
LEMMA EditRInv == ASSUME RInv, Edit PROVE RInv'
BY DEF RInv, TypeOK, TraceInv, ReportInv, ReplayInv, AllPassed, Edit, Changes, proxy, replay,
   Generating, Total, Busy, Sent, Runs

(* A request is accepted and handled before the threads are joined.        *)
LEMMA RequestRInv == ASSUME RInv, NEW r \in Requests, Ask(r) \/ Handler(r) PROVE RInv'
<1> USE DEF RInv, Handler, Accept, Refuse, Forward, Answer, Record, Reply, Ask, Step, Busy, Sent, replay
<1>1. phase \in Generating
  BY DEF TypeOK, TraceInv, Generating
<1>2. TypeOK'
  BY DEF TypeOK
<1>3. TraceInv'
  BY <1>1 DEF TypeOK, TraceInv, Generating
<1>4. ReportInv'
  BY <1>1 DEF ReportInv, Generating
<1>5. ReplayInv'
  BY DEF ReplayInv, AllPassed, InScope
<1> QED
  BY <1>2, <1>3, <1>4, <1>5

(* The harness writes its report when nothing can change any more ...      *)
LEMMA GenerateRInv == ASSUME RInv, CloseProxy \/ JoinThreads \/ WriteReport \/ InventoryFails PROVE RInv'
<1> USE DEF RInv, Goto, replay, proxy, Generating
<1>1. CASE CloseProxy
  BY <1>1 DEF CloseProxy, TypeOK, TraceInv, ReportInv, ReplayInv, AllPassed
<1>2. CASE JoinThreads
  <2>1. phase = "join" /\ phase' \in {"raised", "read"} /\ UNCHANGED <<work, aider, code, edits>>
        /\ UNCHANGED <<proxy, report, replay>>
    BY <1>2 DEF JoinThreads
  <2>2. TraceInv'
    BY <1>2, <2>1 DEF JoinThreads, TraceInv, Busy, Sent
  <2> QED
    BY <2>1, <2>2 DEF TypeOK, ReportInv, ReplayInv, AllPassed
<1>3. CASE WriteReport
  <2>1. /\ phase = "read" /\ phase' = "generated" /\ UNCHANGED <<work, aider, code, edits, proxy, replay>>
        /\ report'.requests = Cardinality(trace) /\ report'.total = Total(trace)
    BY <1>3 DEF WriteReport
  <2>2. Total(trace)' = Total(trace)
    BY <2>1 DEF Total
  <2>3. TypeOK' /\ TraceInv' /\ ReplayInv'
    BY <2>1 DEF TypeOK, TraceInv, ReplayInv, AllPassed, Busy, Sent
  <2>4. ReportInv'
    BY <2>1, <2>2 DEF ReportInv
  <2> QED
    BY <2>3, <2>4
<1>4. CASE InventoryFails
  <2>1. /\ phase \in {"read", "generated", "freeze", "recheck"} /\ phase' = "raised"
        /\ UNCHANGED <<work, aider, code, edits, proxy, report, replay>>
    BY <1>4 DEF InventoryFails
  <2>2. Total(trace)' = Total(trace)
    BY <2>1 DEF Total
  <2>3. TypeOK' /\ TraceInv' /\ ReplayInv'
    BY <2>1 DEF TypeOK, TraceInv, ReplayInv, AllPassed, Busy, Sent
  <2>4. ReportInv'
    BY <2>1, <2>2 DEF ReportInv
  <2> QED
    BY <2>3, <2>4
<1> QED
  BY <1>1, <1>2, <1>3, <1>4

(* After it, nothing touches the proxy, the trace or the report.           *)
LEMMA AccountKept ==
  ASSUME RInv, phase \notin Generating \union {"read"}, phase' \notin Generating \union {"read"},
         UNCHANGED <<aider, proxy, report>>
  PROVE  TraceInv' /\ ReportInv'
BY DEF RInv, TraceInv, ReportInv, Generating, proxy, Total, Busy, Sent

(* What a run adds to the results is one status.                           *)
LEMMA RunRInv == ASSUME RInv, NEW i \in Iterations, NEW b \in Backends, RunOne(i, b) PROVE RInv'
<1>1. /\ phase = "run" /\ phase' = "run" /\ <<i, b>> \in Runs /\ <<i, b>> \notin DOMAIN status
      /\ UNCHANGED <<work, aider, code, edits, proxy, report, candidate, frozen, scope, exit>>
  BY DEF RunOne, Goto, Runs
<1>2. PICK o \in Results :
        status' = [k \in DOMAIN status \union {<<i, b>>} |->
                     IF k = <<i, b>> THEN StatusOf(o) ELSE status[k]]
  BY DEF RunOne
<1>3. TraceInv' /\ ReportInv'
  BY <1>1, AccountKept DEF Generating
<1>4. TypeOK'
  BY <1>1, <1>2 DEF RInv, TypeOK, proxy
<1>5. StatusOf(o) = "passed" => scope /\ frozen.source = "accepted"
  BY <1>1 DEF StatusOf, Results, RInv, ReplayInv
<1>6. exit # "zero"
  BY <1>1 DEF RInv, ReplayInv, AllPassed, Runs
<1>7. ReplayInv'
  BY <1>1, <1>2, <1>5, <1>6 DEF RInv, ReplayInv, AllPassed, InScope
<1> QED
  BY <1>3, <1>4, <1>7 DEF RInv

(* ... and replays a copy that was looked at and staged.                   *)
LEMMA ReplayRInv ==
  ASSUME RInv, CheckScope \/ Freeze \/ RecheckScope \/ StageChecker \/ Finish
  PROVE  RInv'
<1> USE DEF Goto
<1>1. TraceInv' /\ ReportInv'
  BY AccountKept DEF CheckScope, Freeze, RecheckScope, StageChecker, Finish, Generating
<1>2. CASE CheckScope
  BY <1>1, <1>2 DEF CheckScope, RInv, TypeOK, ReplayInv, AllPassed, proxy, InScope, Projects
<1>3. CASE Freeze
  BY <1>1, <1>3 DEF Freeze, RInv, TypeOK, ReplayInv, AllPassed, proxy, InScope, Projects
<1>4. CASE RecheckScope
  <2>1. /\ phase = "recheck" /\ phase' = "stage" /\ UNCHANGED <<work, aider, code, edits>>
        /\ UNCHANGED <<proxy, report, candidate, frozen, status, exit>>
        /\ scope' = (scope /\ InScope(frozen, FALSE))
    BY <1>4 DEF RecheckScope
  <2>2. /\ scope' \in BOOLEAN /\ (scope' => frozen.outside = "nothing")
        /\ scope' => InScope(candidate, TRUE)'
    BY <2>1 DEF InScope, RInv, ReplayInv
  <2>3. DOMAIN status = {} /\ exit = "none"
    BY <2>1 DEF RInv, ReplayInv
  <2>4. TypeOK'
    BY <2>1, <2>2 DEF RInv, TypeOK, proxy
  <2>5. ReplayInv'
    BY <2>1, <2>2, <2>3 DEF ReplayInv, AllPassed
  <2> QED
    BY <1>1, <2>4, <2>5 DEF RInv
<1>5. CASE StageChecker
  BY <1>1, <1>5 DEF StageChecker, RInv, TypeOK, ReplayInv, AllPassed, proxy, InScope, Projects
<1>6. CASE Finish
  BY <1>1, <1>6 DEF Finish, RInv, TypeOK, ReplayInv, AllPassed, proxy, InScope
<1> QED
  BY <1>2, <1>3, <1>4, <1>5, <1>6

(* The inductive invariant always holds.                                   *)
THEOREM BenchmarkInvariant == Spec => []RInv
<1>1. ASSUME RInv, UNCHANGED vars PROVE RInv'
  <2> USE <1>1 DEF vars, proxy, replay
  <2>1. TypeOK'
    BY DEF RInv, TypeOK
  <2>2. TraceInv'
    BY DEF RInv, TraceInv
  <2>3. ReportInv'
    BY DEF RInv, ReportInv, Total
  <2>4. ReplayInv'
    BY DEF RInv, ReplayInv, AllPassed, InScope
  <2> QED
    BY <2>1, <2>2, <2>3, <2>4 DEF RInv
<1>2. RInv /\ [Next]_vars => RInv'
  BY <1>1, AiderRInv, EditRInv, RequestRInv, GenerateRInv, RunRInv, ReplayRInv DEF Next, Harness
<1> QED
  BY <1>2, InitRInv, PTL DEF Spec

(* No request that was sent on is missing from the account, and its total  *)
(* is exact or null.                                                       *)
THEOREM AccountSafe == Spec => []AccountIsExact
<1>1. RInv => AccountIsExact
  <2> SUFFICES ASSUME RInv, report.code # "none" PROVE AccountIsExact
    BY DEF AccountIsExact
  <2>1. Forwarded = trace
    BY DEF RInv, TraceInv, ReportInv, Forwarded, Busy, Sent, Generating
  <2> QED
    BY <2>1 DEF RInv, ReportInv, AccountIsExact, Total
<1> QED
  BY <1>1, BenchmarkInvariant, PTL

(* Only an accepted copy within its scope passes, and exit code 0 of the   *)
(* replay means that everything ran and passed.                            *)
THEOREM PassedSafe == Spec => []PassedIsAccepted
<1>1. RInv => PassedIsAccepted
  <2> SUFFICES ASSUME RInv, NEW k \in DOMAIN status, status[k] = "passed"
               PROVE  /\ frozen = [source |-> "accepted", outside |-> "nothing", bench |-> "trusted"]
                      /\ candidate.outside = "nothing" /\ candidate.bench = "trusted"
    BY DEF PassedIsAccepted, RInv, ReplayInv
  <2>1. /\ frozen.source = "accepted" /\ frozen.outside = "nothing" /\ frozen.bench = "trusted"
        /\ candidate.outside = "nothing" /\ candidate.bench = "trusted"
    BY DEF RInv, ReplayInv, InScope
  <2> QED
    BY <2>1 DEF RInv, TypeOK, Projects
<1> QED
  BY <1>1, BenchmarkInvariant, PTL
=============================================================================
