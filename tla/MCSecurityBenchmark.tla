-------------------------- MODULE MCSecurityBenchmark --------------------------
(***************************************************************************)
(* SecurityBenchmark with the one backend that can be skipped and one that *)
(* cannot, one warmup and two measured runs of each.                       *)
(***************************************************************************)
EXTENDS SecurityBenchmark

MCBackends == <<"firecracker", "process-sandbox">>
MCSweep == <<"256M">>
MCNoSweep == <<>>
=============================================================================
