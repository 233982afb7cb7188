----------------------------- MODULE MCCompareRuns -----------------------------
(***************************************************************************)
(* CompareRuns with two runs of two backends on two days.                  *)
(***************************************************************************)
EXTENDS CompareRuns

MCBackends == <<"firecracker", "process-sandbox">>
=============================================================================
