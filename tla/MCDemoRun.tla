------------------------------ MODULE MCDemoRun ------------------------------
(***************************************************************************)
(* DemoRun in emulate mode with every combination of channels left open,   *)
(* probes that raise and an interrupt, and in agent mode with model calls. *)
(***************************************************************************)
EXTENDS DemoRun

Emulated ==
  [backend : {"process-sandbox", "firecracker"}, mode : {"emulate"}, open : SUBSET Channels]

Unbounded(m) == [backend |-> "baseline", mode |-> m, open |-> Channels]
Agent(b) == [backend |-> b, mode |-> "agent", open |-> {}]

MCScenarios == Emulated \union {Unbounded("emulate"), Agent("process-sandbox"), Agent("firecracker")}
MarkerScenario == {Unbounded("agent")}

MCMaxErrors == [m \in Modes |-> IF m = "emulate" THEN 1 ELSE 0]
MCMaxInterrupts == [m \in Modes |-> IF m = "emulate" THEN 1 ELSE 0]
=============================================================================
