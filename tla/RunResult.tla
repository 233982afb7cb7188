------------------------------ MODULE RunResult ------------------------------
(***************************************************************************)
(* What one_run of benchmarks/sandbox_security/benchmark.py takes from the *)
(* files that a run of run.sh leaves: whether there was a report, its      *)
(* number of unexpected verdicts, and the verdict on resource-limit.       *)
(***************************************************************************)
Result(error, unexpected, limit) ==
  [error |-> error, unexpected |-> unexpected, limit |-> limit]

NoReport == Result(TRUE, "none", "none")
Unjudged == Result(FALSE, "none", "none")
NotExecuted == Result(FALSE, "zero", "none")
Clean == Result(FALSE, "zero", "as-expected")
Dirty(limit) == Result(FALSE, "some", limit)

(* A report that does not parse is no result: json.load raises.            *)
Torn == Result(TRUE, "unreadable", "none")

(* run.sh may die before or after it has a report, or before it judged it. *)
(* A backend that cannot run leaves no probes, all of which are unexpected *)
(* then; only firecracker may report instead that it was not executed. The *)
(* baseline is no boundary: whenever it is judged, it has unexpected ones. *)
Results(b, able) ==
  IF able
  THEN {NoReport, Unjudged, Dirty("as-expected"), Dirty("UNEXPECTED")}
         \union (IF b = "baseline" THEN {} ELSE {Clean})
  ELSE {NoReport, Dirty("UNEXPECTED")}
         \union (IF b = "firecracker" THEN {NotExecuted, Unjudged} ELSE {})
=============================================================================
