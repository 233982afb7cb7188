-------------------------------- MODULE Runner --------------------------------
(***************************************************************************)
(* One call of Runner.run in aider_local/runner.py: validate the command,  *)
(* select a backend, snapshot the project into a temporary directory, run  *)
(* the command in the sandbox, clean the sandbox up, remove the directory  *)
(* and answer.  The environment is concurrent: a backend may become ready  *)
(* or unready between its check and its use, the sandbox runs on its own   *)
(* and survives a killed client, every helper may fail or time out, and    *)
(* the user may press Ctrl-C at any point.  Each use of run_process is     *)
(* taken with the promise of ProcessCall: it ends, and a result it returns *)
(* is the whole result of an exited client.                                *)
(***************************************************************************)
EXTENDS Naturals, FiniteSets

CONSTANTS
  MaxFlips,       \* bound: changes of the readiness of backends
  MaxInterrupts   \* bound: KeyboardInterrupts during the call

ASSUME RunnerAssumption == MaxFlips \in Nat /\ MaxInterrupts \in Nat

Backends == {"container", "microvm", "process-sandbox"}

VARIABLES
  pc,             \* where the call is
  pin,            \* settings.backend
  request,        \* the command: its directive, or what is wrong with it
  ready,          \* environment: would the backend work now?
  untried,        \* select_backend: the choices not yet checked
  backend,        \* the backend selected
  stage,          \* does the temporary directory exist?
  client,         \* the client process: idle, running, zero or nonzero
  sandbox,        \* the sandbox: absent, running or exited
  exit,           \* how the command exited: none, zero or nonzero
  ran,            \* history: the backends in which the command was started
  cleanup,        \* the finally clause: none, done, failed or cut short
  exc,            \* the exception on its way: none, error or interrupt
  answer,         \* what run gives back
  flips, interrupts

env == <<ready, flips>>
config == <<pin, request>>
world == <<sandbox, exit, ran>>
vars == <<pc, pin, request, ready, untried, backend, stage, client, sandbox, exit,
          ran, cleanup, exc, answer, flips, interrupts>>

TypeOK ==
  /\ pc \in {"validate", "select", "stage", "snapshot", "images", "launch", "running",
             "collect", "cleanup", "unstage", "answer", "done"}
  /\ pin \in Backends \union {"auto"}
  /\ request \in Backends \union {"plain", "malformed", "invalid"}
  /\ ready \in [Backends -> BOOLEAN]
  /\ untried \subseteq Backends
  /\ backend \in Backends \union {"none"}
  /\ stage \in BOOLEAN
  /\ client \in {"idle", "running", "zero", "nonzero"}
  /\ sandbox \in {"absent", "running", "exited"}
  /\ exit \in {"none", "zero", "nonzero"}
  /\ ran \subseteq Backends
  /\ cleanup \in {"none", "done", "failed", "cut"}
  /\ exc \in {"none", "error", "interrupt"}
  /\ answer \in {"none", "success", "failure", "error", "interrupt"}
  /\ flips \in 0 .. MaxFlips
  /\ interrupts \in 0 .. MaxInterrupts

Init ==
  /\ pc = "validate"
  /\ pin \in Backends \union {"auto"}
  /\ request \in Backends \union {"plain", "malformed", "invalid"}
  /\ ready \in [Backends -> BOOLEAN]
  /\ untried = {}
  /\ backend = "none"
  /\ stage = FALSE
  /\ client = "idle"
  /\ sandbox = "absent"
  /\ exit = "none"
  /\ ran = {}
  /\ cleanup = "none"
  /\ exc = "none"
  /\ answer = "none"
  /\ flips = 0
  /\ interrupts = 0
-----------------------------------------------------------------------------
(* Choosing a backend. *)

Conflict == request \in Backends /\ pin \notin {"auto", request}
Rejected == request \in {"malformed", "invalid"} \/ Conflict

(* The backends the call may use: what the user pinned and the task asked  *)
(* for, and the process sandbox only when one of them named it.            *)
Allowed ==
  IF Rejected THEN {}
  ELSE IF request \in Backends THEN {request}
  ELSE IF pin = "auto" THEN {"container", "microvm"}
  ELSE {pin}

Raise(e, to) == exc' = e /\ pc' = to

\* Mutant: auto also considers the process sandbox.
ChoicesWithProcess ==
  LET choice == IF request \in Backends THEN request ELSE pin
  IN  IF choice = "auto" THEN Backends ELSE {choice}

Choices ==
  LET choice == IF request \in Backends THEN request ELSE pin
  IN  IF choice = "auto" THEN {"container", "microvm"} ELSE {choice}

(* The checks of run and the head of select_backend. *)
Validate ==
  /\ pc = "validate"
  /\ \/ Rejected /\ Raise("error", "answer") /\ UNCHANGED untried
     \/ ~Rejected /\ pc' = "select" /\ untried' = Choices /\ UNCHANGED exc
  /\ UNCHANGED <<config, env, backend, stage, client, world, cleanup, answer, interrupts>>

FirstUntried == IF "container" \in untried THEN "container" ELSE CHOOSE b \in untried : TRUE

(* One readiness check passes: it did find what it looks for. *)
CheckPasses ==
  /\ pc = "select"
  /\ untried # {}
  /\ ready[FirstUntried]
  /\ backend' = FirstUntried
  /\ pc' = "stage"
  /\ UNCHANGED <<config, env, untried, stage, client, world, cleanup, exc, answer, interrupts>>

\* Mutant: a failed check is retried instead of recorded.
CheckFailsAndRetries ==
  /\ pc = "select"
  /\ untried # {}
  /\ UNCHANGED vars

(* ... or fails: the backend is not ready, or the helper that asks failed. *)
CheckFails ==
  /\ pc = "select"
  /\ untried # {}
  /\ untried' = untried \ {FirstUntried}
  /\ UNCHANGED <<pc, config, env, backend, stage, client, world, cleanup, exc, answer, interrupts>>

\* Mutant: when nothing requested is ready, fall back to what always is.
NoneReadyFallsBack ==
  /\ pc = "select"
  /\ untried = {}
  /\ backend' = "process-sandbox"
  /\ pc' = "stage"
  /\ UNCHANGED <<config, env, untried, stage, client, world, cleanup, exc, answer, interrupts>>

NoneReady ==
  /\ pc = "select"
  /\ untried = {}
  /\ Raise("error", "answer")
  /\ UNCHANGED <<config, env, untried, backend, stage, client, world, cleanup, answer, interrupts>>
-----------------------------------------------------------------------------
(* Staging. *)

MakeStage ==
  /\ pc = "stage"
  /\ \/ stage' = TRUE /\ pc' = "snapshot" /\ UNCHANGED exc
     \/ Raise("error", "answer") /\ UNCHANGED stage
  /\ UNCHANGED <<config, env, untried, backend, client, world, cleanup, answer, interrupts>>

TakeSnapshot ==
  /\ pc = "snapshot"
  /\ \/ pc' = (IF backend = "microvm" THEN "images" ELSE "launch") /\ UNCHANGED exc
     \/ Raise("error", "unstage")
  /\ UNCHANGED <<config, env, untried, backend, stage, client, world, cleanup, answer, interrupts>>

(* microvm checks its readiness again and builds the guest's images. *)
BuildImages ==
  /\ pc = "images"
  /\ \/ ready["microvm"] /\ pc' = "launch" /\ UNCHANGED exc
     \/ Raise("error", "unstage")
  /\ UNCHANGED <<config, env, untried, backend, stage, client, world, cleanup, answer, interrupts>>
-----------------------------------------------------------------------------
(* The client and the sandbox it starts. *)

HasCleanup == backend \in {"container", "process-sandbox"}

\* Mutant: the cleanup is not in a finally clause.
AfterClientDirectly == "unstage"
AfterClient == IF HasCleanup THEN "cleanup" ELSE "unstage"

Launch ==
  /\ pc = "launch"
  /\ \/ client' = "running" /\ pc' = "running" /\ UNCHANGED exc
     \/ Raise("error", AfterClient) /\ UNCHANGED client
  /\ UNCHANGED <<config, env, untried, backend, stage, world, cleanup, answer, interrupts>>

(* The client brings the sandbox up and the command starts in it. *)
SandboxStarts ==
  /\ client = "running"
  /\ sandbox = "absent"
  /\ ran = {}
  /\ ready[backend]
  /\ sandbox' = "running"
  /\ ran' = {backend}
  /\ UNCHANGED <<pc, config, env, untried, backend, stage, client, exit, cleanup, exc, answer,
                 interrupts>>

(* The command exits, or the sandbox goes down under it. *)
SandboxEnds ==
  /\ sandbox = "running"
  /\ sandbox' = "exited"
  /\ exit' \in {"none", "zero", "nonzero"}
  /\ UNCHANGED <<pc, config, env, untried, backend, stage, client, ran, cleanup, exc, answer,
                 interrupts>>

(* podman and bwrap give the command's code; Firecracker gives its own. *)
ClientCodes ==
  IF sandbox = "absent" THEN {"nonzero"}
  ELSE IF backend = "microvm" THEN {"zero", "nonzero"}
  ELSE IF exit = "zero" THEN {"zero"} ELSE {"nonzero"}

(* The client exits, with the sandbox or because it cannot start one. *)
ClientExits ==
  /\ client = "running"
  /\ sandbox # "running"
  /\ client' \in ClientCodes
  /\ UNCHANGED <<pc, config, env, untried, backend, stage, world, cleanup, exc, answer, interrupts>>

(* run_process returned.  A microVM's boot is called with check=True.      *)
ClientReturns ==
  /\ pc = "running"
  /\ client \in {"zero", "nonzero"}
  /\ IF HasCleanup THEN pc' = "cleanup" /\ UNCHANGED exc
     ELSE IF client = "zero" THEN pc' = "collect" /\ UNCHANGED exc
     ELSE Raise("error", "unstage")
  /\ UNCHANGED <<config, env, untried, backend, stage, client, world, cleanup, answer, interrupts>>

(* Killing the client's group takes a microVM with it; a container is the  *)
(* child of conmon, and what detached in the scope may live on.            *)
KilledSandbox ==
  IF sandbox # "running" THEN {sandbox}
  ELSE IF HasCleanup THEN {"running", "exited"} ELSE {"exited"}

(* run_process gave up on the client: timeout or too much output. *)
ClientAborted ==
  /\ pc = "running"
  /\ client = "running"
  /\ client' = "nonzero"
  /\ sandbox' \in KilledSandbox
  /\ Raise("error", AfterClient)
  /\ UNCHANGED <<config, env, untried, backend, stage, exit, ran, cleanup, answer, interrupts>>

(* The guest left its exit status and output in the work image. *)
CollectGuest ==
  /\ pc = "collect"
  /\ \/ exit # "none" /\ pc' = "unstage" /\ UNCHANGED exc
     \/ Raise("error", "unstage")
  /\ UNCHANGED <<config, env, untried, backend, stage, client, world, cleanup, answer, interrupts>>
-----------------------------------------------------------------------------
(* The finally clauses and the answer. *)

\* Mutant: a return inside the finally clause swallows the exception.
CleanupReturns ==
  /\ pc = "cleanup"
  /\ sandbox' = IF sandbox = "running" THEN "exited" ELSE sandbox
  /\ cleanup' = "done"
  /\ exc' = "none"
  /\ pc' = "unstage"
  /\ UNCHANGED <<config, env, untried, backend, stage, client, exit, ran, answer, interrupts>>

CleanupSucceeds ==
  /\ pc = "cleanup"
  /\ sandbox' = IF sandbox = "running" THEN "exited" ELSE sandbox
  /\ cleanup' = "done"
  /\ pc' = "unstage"
  /\ UNCHANGED <<config, env, untried, backend, stage, client, exit, ran, exc, answer, interrupts>>

(* podman rm or systemctl stop fails or times out, before or after it took *)
(* effect: the error replaces the result and any other exception.          *)
CleanupFails ==
  /\ pc = "cleanup"
  /\ sandbox' \in {sandbox, IF sandbox = "running" THEN "exited" ELSE sandbox}
  /\ cleanup' = "failed"
  /\ Raise("error", "unstage")
  /\ UNCHANGED <<config, env, untried, backend, stage, client, exit, ran, answer, interrupts>>

(* TemporaryDirectory.__exit__; its own failure is an OSError. *)
Unstage ==
  /\ pc = "unstage"
  /\ \/ stage' = FALSE /\ pc' = "answer" /\ UNCHANGED exc
     \/ Raise("error", "answer") /\ UNCHANGED stage
  /\ UNCHANGED <<config, env, untried, backend, client, world, cleanup, answer, interrupts>>

\* Mutant: Firecracker's exit code is taken for the guest's.
ResultOfClient == IF client = "zero" THEN "success" ELSE "failure"

(* The result of the command: the client's, or the guest's own status. *)
Result ==
  IF (IF backend = "microvm" THEN exit ELSE client) = "zero" THEN "success" ELSE "failure"

Reply ==
  /\ pc = "answer"
  /\ answer' = IF exc = "none" THEN Result ELSE exc
  /\ pc' = "done"
  /\ UNCHANGED <<config, env, untried, backend, stage, client, world, cleanup, exc, interrupts>>

(* Ctrl-C.  Inside run_process it kills the client; inside the cleanup's   *)
(* run_process it kills podman rm or systemctl stop.                       *)
Interrupt ==
  /\ pc \notin {"answer", "done"}
  /\ interrupts < MaxInterrupts
  /\ interrupts' = interrupts + 1
  /\ Raise("interrupt",
           CASE pc \in {"launch", "running"} -> AfterClient
             [] pc \in {"snapshot", "images", "collect", "cleanup"} -> "unstage"
             [] OTHER -> "answer")
  /\ client' = IF client = "running" THEN "nonzero" ELSE client
  /\ sandbox' \in IF client = "running" THEN KilledSandbox
                  ELSE IF pc = "cleanup"
                  THEN {sandbox, IF sandbox = "running" THEN "exited" ELSE sandbox}
                  ELSE {sandbox}
  /\ cleanup' = IF pc = "cleanup" THEN "cut" ELSE cleanup
  /\ UNCHANGED <<config, env, untried, backend, stage, exit, ran, answer>>

(* A daemon stops, an image appears, a disk fills up. *)
Flip(b) ==
  /\ flips < MaxFlips
  /\ ready' = [ready EXCEPT ![b] = ~@]
  /\ flips' = flips + 1
  /\ UNCHANGED <<pc, config, untried, backend, stage, client, world, cleanup, exc, answer, interrupts>>

Call ==
  \/ Validate \/ CheckPasses \/ CheckFails \/ NoneReady
  \/ MakeStage \/ TakeSnapshot \/ BuildImages
  \/ Launch \/ ClientReturns \/ ClientAborted \/ CollectGuest
  \/ CleanupSucceeds \/ CleanupFails \/ Unstage \/ Reply

Environment ==
  SandboxStarts \/ SandboxEnds \/ ClientExits \/ \E b \in Backends : Flip(b)

Next == Call \/ Interrupt \/ Environment

(* The call takes its steps; ClientAborted stands for the deadline of      *)
(* run_process.  The environment owes nothing.                             *)
Spec == Init /\ [][Next]_vars /\ WF_vars(Call)
-----------------------------------------------------------------------------
(* Properties. *)

(* The command never starts anywhere but in a sandbox that both the user's *)
(* pin and the task's directive allow, whatever became unready, failed or  *)
(* was interrupted before: no fallback, no weaker backend, never the host. *)
RanWhereAllowed == ran \subseteq Allowed

(* Exit code 0 means that the command itself ran, in the selected sandbox, *)
(* and exited with 0, that its sandbox is over and that the copy of the    *)
(* project is removed.                                                     *)
SuccessIsReal ==
  answer = "success" =>
    ran = {backend} /\ exit = "zero" /\ sandbox = "exited" /\ ~stage

(* A sandbox that outlives the call is one whose cleanup failed or was     *)
(* interrupted, and the caller gets an error or the interrupt, never an    *)
(* exit code of the command.                                               *)
SurvivorsAreKnown ==
  pc = "done" /\ sandbox = "running" =>
    cleanup \in {"failed", "cut"} /\ answer \in {"error", "interrupt"}

(* A call the user interrupted never ends in an exit code of the command,  *)
(* not even when the interrupt arrives after the command has finished.     *)
InterruptIsNoResult ==
  pc = "done" /\ interrupts > 0 => answer \in {"error", "interrupt"}

(* The copy of the project is not removed under a running command, except  *)
(* after a cleanup that failed or was cut short.                           *)
StageOutlivesSandbox ==
  [][(stage /\ ~stage') => (sandbox # "running" \/ cleanup \in {"failed", "cut"})]_vars

(* The call keeps the promise of SandboxedCommand.                         *)
Promise == INSTANCE SandboxedCommand WITH
  allowed <- Allowed,
  place <- IF ran = {} THEN "none" ELSE backend,
  alive <- sandbox = "running"

KeepsPromise == Promise!Spec
-----------------------------------------------------------------------------
(* The inductive invariant, in parts. *)

Selected == {"stage", "snapshot", "images", "launch", "running", "collect", "cleanup"}
Over == {"cleanup", "unstage", "answer", "done"}

(* The selection only ever holds allowed backends.                         *)
SelectionInv ==
  /\ untried \subseteq Allowed
  /\ backend # "none" => backend \in Allowed
  /\ pc \in {"validate", "select"} => backend = "none"
  /\ pc \in Selected => backend # "none"
  /\ pc \in {"images", "collect"} => backend = "microvm"
  /\ pc = "cleanup" => HasCleanup

(* The sandbox belongs to the selected backend and to a client; what is    *)
(* still running without one awaits, or missed, its cleanup.               *)
SandboxInv ==
  /\ ran = IF sandbox = "absent" THEN {} ELSE {backend}
  /\ sandbox # "absent" => client # "idle"
  /\ client # "idle" => backend # "none"
  /\ client = "running" => pc = "running"
  /\ sandbox # "exited" => exit = "none"
  /\ sandbox = "running" =>
       \/ client = "running"
       \/ HasCleanup /\ exc # "none" /\ (pc = "cleanup" \/ cleanup \in {"failed", "cut"})

(* Without an exception under way, what will be answered is known.         *)
ResultInv ==
  /\ pc \notin Over => exc = "none"
  /\ interrupts > 0 => exc # "none"
  /\ cleanup \in {"failed", "cut"} => exc # "none"
  /\ HasCleanup /\ client = "zero" => exit = "zero"
  /\ HasCleanup /\ client = "nonzero" /\ exc = "none" => exit # "zero"
  /\ exc = "none" /\ pc \in Over =>
       /\ client \in {"zero", "nonzero"}
       /\ backend = "microvm" => exit # "none"
  /\ exc = "none" /\ pc \in {"answer", "done"} => ~stage
  /\ answer = IF pc # "done" THEN "none" ELSE IF exc = "none" THEN Result ELSE exc

(* The inductive invariant of Runner.                                      *)
IInv == TypeOK /\ SelectionInv /\ SandboxInv /\ ResultInv
=============================================================================
