------------------------------ MODULE RunOutcome ------------------------------
(***************************************************************************)
(* What the programs that repeat and compare runs may rely on in the files *)
(* that a run of run.sh leaves in collected/.  A report arrives at most    *)
(* once, whole or torn, and none that is missing or torn passes for one    *)
(* that is whole; it is judged at most once, and from then on nothing      *)
(* changes it; and nothing is accounted for before that.  They may look    *)
(* at any time, also when run.sh has died or was interrupted.              *)
(***************************************************************************)
EXTENDS RunResult

VARIABLES
  backend,        \* the backend that the run is for
  host,           \* can the backend run here: unknown, can or cannot
  outcome,        \* what one_run would take from the files now
  judged,         \* evaluate.py has rewritten probes.json
  accounted       \* footprint.json has a cost

outcomeVars == <<backend, host, outcome, judged, accounted>>

Init ==
  /\ host = "unknown" /\ outcome = NoReport
  /\ judged = FALSE /\ accounted = FALSE

(* The backend boots, ...                                                  *)
Boots ==
  /\ host = "unknown" /\ ~judged
  /\ host' = "can"
  /\ UNCHANGED <<backend, outcome, judged, accounted>>

(* ... or leaves a report that says why it did not.                        *)
Skips ==
  /\ host = "unknown" /\ ~judged
  /\ backend = "firecracker"
  /\ host' = "cannot"
  /\ outcome' = Unjudged
  /\ UNCHANGED <<backend, judged, accounted>>

Deliver ==
  /\ host = "can" /\ ~judged
  /\ outcome = NoReport
  /\ outcome' \in {Unjudged, Torn}
  /\ UNCHANGED <<backend, host, judged, accounted>>

(* No probes at all are as many unexpected verdicts, a backend that did    *)
(* not run has none, and only a boundary may have none otherwise.          *)
Judgements ==
  IF outcome = NoReport THEN {Dirty("UNEXPECTED")}
  ELSE IF host = "cannot" THEN {NotExecuted}
  ELSE {Dirty("as-expected"), Dirty("UNEXPECTED")}
         \union (IF backend = "baseline" THEN {} ELSE {Clean})

Judge ==
  /\ ~judged /\ outcome # Torn
  /\ judged' = TRUE
  /\ outcome' \in Judgements
  /\ UNCHANGED <<backend, host, accounted>>

Account ==
  /\ judged \/ outcome = Torn
  /\ accounted' = TRUE
  /\ UNCHANGED <<backend, host, outcome, judged>>

Next == Boots \/ Skips \/ Deliver \/ Judge \/ Account

Spec == Init /\ [][Next]_outcomeVars
-----------------------------------------------------------------------------
(* Whenever the files are read, what they say is among the results that a  *)
(* campaign reckons with, for a host that can run the backend and for one  *)
(* that cannot; only a backend that can run leaves a torn report.          *)
ResultIsReckonedWith ==
  \A able \in BOOLEAN :
    (host = "can" => able) /\ (host = "cannot" => ~able) =>
      outcome \in Results(backend, able) \union (IF able THEN {Torn} ELSE {})

(* What makes it inductive: a host of which nothing is known has no        *)
(* report, and is judged for that.                                         *)
ReckonInv ==
  /\ host \in {"unknown", "can", "cannot"}
  /\ host = "cannot" => backend = "firecracker" /\ outcome \in {Unjudged, NotExecuted}
  /\ host = "unknown" => outcome = IF judged THEN Dirty("UNEXPECTED") ELSE NoReport
  /\ ResultIsReckonedWith
=============================================================================
