------------------------------- MODULE Evaluate -------------------------------
(***************************************************************************)
(* The verdicts of common/evaluate.py: what a probe inside the boundary    *)
(* reported, corrected by what the host saw, against what is expected of a *)
(* working boundary.  Of the probes judged by their report alone one,      *)
(* process-listing, stands for all.                                        *)
(***************************************************************************)
Probes == {"approved-artifact", "backend-identity", "network-egress",
           "outside-workspace-write", "process-listing"}

EXPECTED ==
  [p \in Probes |-> CASE p = "approved-artifact" -> "succeeded"
                      [] p = "backend-identity" -> "n/a"
                      [] OTHER -> "blocked"]

Observations == {"succeeded", "blocked", "error", "reported"}
Statuses == {"absent", "torn", "not-executed", "executed"}
NothingReported == [p \in {} |-> "blocked"]

\* Mutant: a probe that did not report is taken for blocked.
ReportedBlocked(raw, p) == IF p \in DOMAIN raw.probes THEN raw.probes[p] ELSE "blocked"

(* What probes.json says of p; a probe that is not in it is missing. *)
Reported(raw, p) == IF p \in DOMAIN raw.probes THEN raw.probes[p] ELSE "missing"

(* Host evidence wins over what the probe reported. *)
Observed(raw, p, host) ==
  IF p = "network-egress" /\ host.sink_hit THEN "succeeded"
  ELSE IF p = "outside-workspace-write" /\ host.outside_hit THEN "succeeded"
  ELSE Reported(raw, p)

Verdict(raw, p, host) ==
  IF EXPECTED[p] = "n/a" THEN "info"
  ELSE IF Observed(raw, p, host) = EXPECTED[p] THEN "as-expected"
  ELSE "UNEXPECTED"

Unscored == [p \in Probes |-> "none"]

\* Mutant: a backend that did not run is scored like one without a report.
VerdictsOfSkipped(raw, host) ==
  IF raw.status = "torn" THEN Unscored ELSE [p \in Probes |-> Verdict(raw, p, host)]

(* main: a file that cannot be parsed is an exception, a backend that did  *)
(* not run is not scored, and a missing file is scored as no probes.       *)
Verdicts(raw, host) ==
  IF raw.status \in {"torn", "not-executed"} THEN Unscored
  ELSE [p \in Probes |-> Verdict(raw, p, host)]

Unexpected(verdicts) == {p \in DOMAIN verdicts : verdicts[p] = "UNEXPECTED"}

\* Mutant: a file that does not parse is treated like a backend that did not run.
EvalRcOfTorn(raw, host) ==
  IF Unexpected(Verdicts(raw, host)) # {} THEN "nonzero" ELSE "zero"

(* The exit status: 1 for an unexpected verdict, as for an exception. *)
EvalRc(raw, host) ==
  IF raw.status = "torn" \/ Unexpected(Verdicts(raw, host)) # {} THEN "nonzero" ELSE "zero"
=============================================================================
