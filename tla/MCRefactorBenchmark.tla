-------------------------- MODULE MCRefactorBenchmark --------------------------
(* Two requests, two backends, a warmup and a measured iteration. *)
EXTENDS RefactorBenchmark

MCIterations == -1 .. 0
=============================================================================
