--------------------------- MODULE SandboxedCommand ---------------------------
(***************************************************************************)
(* What the model, and the user who reads the chat, may conclude from one  *)
(* call of Runner.run (aider_local/runner.py).  The command runs at most   *)
(* once, in a sandbox the pin and the directive allow, never after the     *)
(* answer; success is answered only when the command itself exited with    *)
(* zero and its sandbox is over; a failure is never answered for a command *)
(* that succeeded, nor while the sandbox lives.  An error (exit code 125)  *)
(* or an interrupt promises none of this.                                  *)
(***************************************************************************)
CONSTANT Backends

VARIABLES
  allowed,    \* the backends this call may use
  place,      \* the backend the command started in, or "none"
  alive,      \* is the sandbox alive?
  exit,       \* the exit of the command: none, zero or nonzero
  answer      \* none, success, failure, error or interrupt

scVars == <<allowed, place, alive, exit, answer>>

Init ==
  /\ allowed \subseteq Backends
  /\ place = "none"
  /\ alive = FALSE
  /\ exit = "none"
  /\ answer = "none"

Start(b) ==
  /\ answer = "none"
  /\ place = "none"
  /\ b \in allowed
  /\ place' = b
  /\ alive' = TRUE
  /\ UNCHANGED <<allowed, exit, answer>>

(* The command exits, or is killed with its sandbox. *)
End ==
  /\ alive
  /\ alive' = FALSE
  /\ exit' \in {"none", "zero", "nonzero"}
  /\ UNCHANGED <<allowed, place, answer>>

Answer(r) ==
  /\ answer = "none"
  /\ r = "success" => place # "none" /\ exit = "zero" /\ ~alive
  /\ r = "failure" => exit # "zero" /\ ~alive
  /\ answer' = r
  /\ UNCHANGED <<allowed, place, alive, exit>>

Next ==
  \/ \E b \in Backends : Start(b)
  \/ End
  \/ \E r \in {"success", "failure", "error", "interrupt"} : Answer(r)

Spec == Init /\ [][Next]_scVars
=============================================================================
