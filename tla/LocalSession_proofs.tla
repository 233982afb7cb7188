------------------------- MODULE LocalSession_proofs -------------------------
(***************************************************************************)
(* Proofs about Runner, Landlock and LocalSession.  Of a call of the       *)
(* Runner: its inductive invariant, the safety properties that follow from *)
(* it, and the implementation of SandboxedCommand.  Of Landlock: what a    *)
(* domain permits, for every version of the kernel.  Of a session: that it *)
(* inherits what is proved of a call and keeps its own invariant.  All for *)
(* any number of interrupts and changes of readiness, any scopes, kernels  *)
(* and paths.                                                              *)
(***************************************************************************)
EXTENDS LocalSession, TLAPS

(***************************************************************************)
(* Runner.                                                                 *)
(***************************************************************************)

(* What may be chosen is allowed, and only the first choice matters.       *)
LEMMA ChoicesAllowed == TypeOK /\ ~Rejected => Choices \subseteq Allowed
BY DEF TypeOK, Choices, Allowed, Rejected, Conflict, Backends

(* The next choice to be checked is an untried one.                        *)
LEMMA FirstUntriedIn == untried # {} => FirstUntried \in untried
BY DEF FirstUntried

(* Only backends are allowed.                                              *)
LEMMA AllowedAreBackends == TypeOK => Allowed \subseteq Backends
BY DEF TypeOK, Allowed, Rejected, Conflict, Backends

(* The initial states satisfy the invariant.                               *)
LEMMA InitIInv == Init => IInv
<1> SUFFICES ASSUME Init PROVE IInv
  OBVIOUS
<1>1. TypeOK
  <2>1. flips \in 0 .. MaxFlips /\ interrupts \in 0 .. MaxInterrupts
    BY RunnerAssumption DEF Init
  <2> QED
    BY <2>1 DEF Init, TypeOK, Backends
<1>2. SelectionInv
  BY DEF Init, SelectionInv, Selected, HasCleanup
<1>3. SandboxInv
  BY DEF Init, SandboxInv
<1>4. ResultInv
  BY DEF Init, ResultInv, Over, HasCleanup
<1> QED
  BY <1>1, <1>2, <1>3, <1>4 DEF IInv

(* The configuration of the call never changes, nor does what it allows.   *)
LEMMA AllowedConstant == UNCHANGED config => Allowed' = Allowed
BY DEF config, Allowed, Rejected, Conflict

(* Every step of the call preserves the invariant.                         *)
LEMMA CallIInv == ASSUME IInv, Call PROVE IInv'
<1> USE RunnerAssumption, AllowedConstant
    DEF IInv, TypeOK, SelectionInv, SandboxInv, ResultInv, Selected, Over, HasCleanup,
        Backends, config, env, world
<1>1. CASE Validate
  <2>1. untried' \subseteq Allowed /\ untried' \subseteq Backends
    BY <1>1, ChoicesAllowed, AllowedAreBackends DEF Validate
  <2>2. TypeOK'
    BY <1>1, <2>1 DEF Validate, Raise
  <2>3. SelectionInv'
    BY <1>1, <2>1 DEF Validate, Raise
  <2>4. SandboxInv' /\ ResultInv'
    BY <1>1 DEF Validate, Raise
  <2> QED
    BY <2>2, <2>3, <2>4
<1>2. CASE CheckPasses
  <2>1. backend' \in Allowed /\ backend' \in Backends /\ backend' # "none"
    BY <1>2, FirstUntriedIn, AllowedAreBackends DEF CheckPasses
  <2>2. ran = {} /\ client = "idle" /\ sandbox = "absent"
    BY <1>2 DEF CheckPasses
  <2>3. TypeOK'
    BY <1>2, <2>1 DEF CheckPasses
  <2>4. SelectionInv'
    BY <1>2, <2>1 DEF CheckPasses
  <2>5. SandboxInv' /\ ResultInv'
    BY <1>2, <2>1, <2>2 DEF CheckPasses
  <2> QED
    BY <2>3, <2>4, <2>5
<1>3. CASE CheckFails
  <2>1. untried' \subseteq Backends /\ untried' \subseteq Allowed
    BY <1>3 DEF CheckFails
  <2>2. TypeOK'
    BY <1>3, <2>1 DEF CheckFails
  <2>3. SelectionInv'
    BY <1>3, <2>1 DEF CheckFails
  <2>4. SandboxInv' /\ ResultInv'
    BY <1>3 DEF CheckFails, Result
  <2> QED
    BY <2>2, <2>3, <2>4
<1>4. CASE NoneReady
  BY <1>4 DEF NoneReady, Raise
<1>5. CASE MakeStage
  <2>1. stage' \in BOOLEAN
    BY <1>5 DEF MakeStage
  <2>2. TypeOK'
    BY <1>5, <2>1 DEF MakeStage, Raise
  <2>3. SelectionInv' /\ SandboxInv'
    BY <1>5 DEF MakeStage, Raise
  <2>4. ResultInv'
    BY <1>5 DEF MakeStage, Raise
  <2> QED
    BY <2>2, <2>3, <2>4
<1>6. CASE TakeSnapshot
  BY <1>6 DEF TakeSnapshot, Raise
<1>7. CASE BuildImages
  BY <1>7 DEF BuildImages, Raise
<1>8. CASE Launch
  BY <1>8 DEF Launch, Raise, AfterClient
<1>9. CASE ClientReturns
  BY <1>9 DEF ClientReturns, Raise
<1>10. CASE ClientAborted
  BY <1>10 DEF ClientAborted, Raise, AfterClient, KilledSandbox
<1>11. CASE CollectGuest
  BY <1>11 DEF CollectGuest, Raise
<1>12. CASE CleanupSucceeds
  BY <1>12 DEF CleanupSucceeds
<1>13. CASE CleanupFails
  BY <1>13 DEF CleanupFails, Raise
<1>14. CASE Unstage
  <2>1. stage' \in BOOLEAN
    BY <1>14 DEF Unstage
  <2>2. TypeOK'
    BY <1>14, <2>1 DEF Unstage, Raise
  <2>3. SelectionInv' /\ SandboxInv'
    BY <1>14 DEF Unstage, Raise
  <2>4. ResultInv'
    BY <1>14 DEF Unstage, Raise
  <2> QED
    BY <2>2, <2>3, <2>4
<1>15. CASE Reply
  BY <1>15 DEF Reply, Result
<1> QED
  BY <1>1, <1>2, <1>3, <1>4, <1>5, <1>6, <1>7, <1>8, <1>9, <1>10, <1>11, <1>12, <1>13,
     <1>14, <1>15 DEF Call

(* An interrupt preserves it, wherever it strikes.                         *)
LEMMA InterruptIInv == ASSUME IInv, Interrupt PROVE IInv'
<1> USE RunnerAssumption, AllowedConstant
    DEF IInv, TypeOK, SelectionInv, SandboxInv, ResultInv, Selected, Over, HasCleanup,
        Backends, config, env
<1>1. /\ pc' \in {"cleanup", "unstage", "answer"} /\ pc # "done"
      /\ pc' = "cleanup" => HasCleanup
      /\ client = "running" /\ HasCleanup => pc' = "cleanup"
  BY DEF Interrupt, Raise, AfterClient
<1>2. /\ sandbox' = sandbox \/ (sandbox = "running" /\ sandbox' = "exited")
      /\ sandbox' = "running" /\ client = "running" => HasCleanup
  BY DEF Interrupt, KilledSandbox
<1>3. client' \in {"idle", "zero", "nonzero"} /\ (client # "running" => client' = client)
      /\ (client = "running" => client' = "nonzero")
  BY DEF Interrupt
<1>4. /\ exc' = "interrupt" /\ interrupts' \in 0 .. MaxInterrupts
      /\ cleanup' = IF pc = "cleanup" THEN "cut" ELSE cleanup
      /\ UNCHANGED <<config, env, untried, backend, stage, exit, ran, answer>>
  BY DEF Interrupt, Raise
<1>5. TypeOK'
  BY <1>1, <1>2, <1>3, <1>4
<1>6. SelectionInv'
  BY <1>1, <1>4
<1>7. SandboxInv'
  BY <1>1, <1>2, <1>3, <1>4
<1>8. ResultInv'
  BY <1>1, <1>3, <1>4
<1> QED
  BY <1>5, <1>6, <1>7, <1>8

(* The environment preserves it: a sandbox starts only through its client. *)
LEMMA EnvironmentIInv == ASSUME IInv, Environment PROVE IInv'
<1> USE RunnerAssumption, AllowedConstant
    DEF IInv, TypeOK, SelectionInv, SandboxInv, ResultInv, Selected, Over, HasCleanup,
        Backends, config, env, world
<1>1. CASE SandboxStarts
  BY <1>1, AllowedAreBackends DEF SandboxStarts
<1>2. CASE SandboxEnds
  BY <1>2 DEF SandboxEnds, Result
<1>3. CASE ClientExits
  BY <1>3 DEF ClientExits, ClientCodes, Result
<1>4. ASSUME NEW b \in Backends, Flip(b) PROVE IInv'
  <2>1. flips' \in 0 .. MaxFlips /\ ready' \in [Backends -> BOOLEAN]
    BY <1>4 DEF Flip
  <2> QED
    BY <1>4, <2>1 DEF Flip, Result
<1> QED
  BY <1>1, <1>2, <1>3, <1>4 DEF Environment

(* So does every step, and a stutter.                                      *)
LEMMA NextIInv == ASSUME IInv, [Next]_vars PROVE IInv'
<1>1. IInv /\ UNCHANGED vars => IInv'
  BY DEF IInv, TypeOK, SelectionInv, SandboxInv, ResultInv, Selected, Over, HasCleanup,
         Allowed, Rejected, Conflict, Result, vars
<1> QED
  BY <1>1, CallIInv, InterruptIInv, EnvironmentIInv DEF Next

(* The inductive invariant, type correctness included, always holds.       *)
THEOREM InductiveInvariant == Spec => []IInv
BY InitIInv, NextIInv, PTL DEF Spec

(* What the invariant says of answers and survivors.                       *)
LEMMA CallIsSafe ==
  ASSUME IInv PROVE RanWhereAllowed /\ SuccessIsReal /\ SurvivorsAreKnown /\ InterruptIsNoResult
<1>1. RanWhereAllowed
  BY DEF IInv, SelectionInv, SandboxInv, RanWhereAllowed
<1>2. SuccessIsReal
  BY DEF IInv, TypeOK, SelectionInv, SandboxInv, ResultInv, SuccessIsReal, Result, HasCleanup,
         Over, Allowed, Backends
<1>3. SurvivorsAreKnown
  BY DEF IInv, TypeOK, SandboxInv, ResultInv, SurvivorsAreKnown
<1>4. InterruptIsNoResult
  BY DEF IInv, TypeOK, ResultInv, InterruptIsNoResult
<1> QED
  BY <1>1, <1>2, <1>3, <1>4

(* No step removes the copy of a sandbox that is running, unless its       *)
(* cleanup failed or was cut short.                                        *)
LEMMA StageStep ==
  ASSUME IInv, [Next]_vars, stage, ~stage'
  PROVE  sandbox # "running" \/ cleanup \in {"failed", "cut"}
<1>1. pc = "unstage"
  BY DEF Next, Call, Interrupt, Environment, Validate, CheckPasses, CheckFails, NoneReady,
     MakeStage, TakeSnapshot, BuildImages, Launch, ClientReturns, ClientAborted, CollectGuest,
     CleanupSucceeds, CleanupFails, Unstage, Reply, SandboxStarts, SandboxEnds, ClientExits,
     Flip, vars
<1> QED
  BY <1>1 DEF IInv, SandboxInv

(* The command only ever runs in a sandbox the pin and the task allow.     *)
THEOREM NeverElsewhere == Spec => []RanWhereAllowed
BY InductiveInvariant, CallIsSafe, PTL

(* Exit code 0 is the command's own, from a sandbox that is over.          *)
THEOREM SuccessSafe == Spec => []SuccessIsReal
BY InductiveInvariant, CallIsSafe, PTL

(* A sandbox that outlives its call was reported.                          *)
THEOREM SurvivorsSafe == Spec => []SurvivorsAreKnown
BY InductiveInvariant, CallIsSafe, PTL

(* An interrupted call gives no exit code of the command.                  *)
THEOREM InterruptSafe == Spec => []InterruptIsNoResult
BY InductiveInvariant, CallIsSafe, PTL

(* The project copy is removed under a running command only after a        *)
(* cleanup that failed or was cut short.                                   *)
THEOREM StageSafe == Spec => StageOutlivesSandbox
<1>1. IInv /\ [Next]_vars =>
        [(stage /\ ~stage') => (sandbox # "running" \/ cleanup \in {"failed", "cut"})]_vars
  BY StageStep
<1> QED
  BY InductiveInvariant, <1>1, PTL DEF Spec, StageOutlivesSandbox

(***************************************************************************)
(* Runner implements SandboxedCommand.                                     *)
(***************************************************************************)
(* The initial states are initial states of the promise.                   *)
LEMMA InitRefines == Init => Promise!Init
BY AllowedAreBackends, InitIInv DEF Init, Promise!Init, IInv

(* The steps that leave sandbox, exit and answer alone are stutters, given *)
(* that the backend of a command that ran is never replaced.               *)
LEMMA Stutters ==
  ASSUME IInv, UNCHANGED <<config, sandbox, exit, ran, answer>>, ran # {} => backend' = backend
  PROVE  UNCHANGED Promise!scVars
BY AllowedConstant DEF Promise!scVars

(* A sandbox that goes down, with or without an exit code, is an End.      *)
LEMMA Ends ==
  ASSUME IInv, UNCHANGED <<config, backend, ran, answer>>,
         sandbox = "running", sandbox' # "running", exit' \in {"none", "zero", "nonzero"}
  PROVE  Promise!Next
BY AllowedConstant DEF Promise!Next, Promise!End

(* A sandbox that is killed while its command has no exit yet ends; any    *)
(* other step that keeps the exit stutters.                                *)
LEMMA Killed ==
  ASSUME IInv, UNCHANGED <<config, backend, exit, ran, answer>>,
         sandbox' = sandbox \/ (sandbox = "running" /\ sandbox' = "exited")
  PROVE  Promise!Next \/ UNCHANGED Promise!scVars
<1>1. CASE sandbox' = sandbox
  BY <1>1, Stutters
<1>2. CASE sandbox = "running" /\ sandbox' = "exited"
  BY <1>2, Ends DEF IInv, TypeOK
<1> QED
  BY <1>1, <1>2

(* Each step of the call is a step of the promise or a stutter.            *)
LEMMA CallRefines == ASSUME IInv, Call PROVE Promise!Next \/ UNCHANGED Promise!scVars
<1> USE DEF config, world
<1>1. CASE Validate \/ CheckFails \/ NoneReady
  BY <1>1, Stutters DEF Validate, CheckFails, NoneReady
<1>2. CASE CheckPasses
  <2>1. ran = {}
    BY <1>2 DEF CheckPasses, IInv, SelectionInv, SandboxInv
  <2> QED
    BY <1>2, <2>1, Stutters DEF CheckPasses
<1>3. CASE MakeStage \/ TakeSnapshot \/ BuildImages \/ Launch \/ ClientReturns \/ CollectGuest
           \/ Unstage
  BY <1>3, Stutters
     DEF MakeStage, TakeSnapshot, BuildImages, Launch, ClientReturns, CollectGuest, Unstage
<1>4. CASE ClientAborted
  BY <1>4, Killed DEF ClientAborted, KilledSandbox
<1>5. CASE CleanupSucceeds
  BY <1>5, Killed DEF CleanupSucceeds
<1>6. CASE CleanupFails
  BY <1>6, Killed DEF CleanupFails
<1>7. CASE Reply
  <2>1. answer = "none" /\ answer' \in {"success", "failure", "error", "interrupt"}
    BY <1>7 DEF Reply, Result, IInv, TypeOK, ResultInv
  <2>2. answer' = "success" => ran # {} /\ backend # "none" /\ exit = "zero" /\ sandbox # "running"
    BY <1>7 DEF Reply, Result, IInv, TypeOK, SelectionInv, SandboxInv, ResultInv, Over,
       HasCleanup, Allowed, Backends
  <2>3. answer' = "failure" => exit # "zero" /\ sandbox # "running"
    BY <1>7 DEF Reply, Result, IInv, TypeOK, SelectionInv, SandboxInv, ResultInv, Over,
       HasCleanup, Backends
  <2>4. UNCHANGED <<Allowed, ran, backend, sandbox, exit>>
    BY <1>7, AllowedConstant DEF Reply
  <2>5. Promise!Answer(answer')
    BY <2>1, <2>2, <2>3, <2>4 DEF Promise!Answer
  <2> QED
    BY <2>1, <2>5 DEF Promise!Next
<1> QED
  BY <1>1, <1>2, <1>3, <1>4, <1>5, <1>6, <1>7 DEF Call

(* So is each step of the environment, and an interrupt.                   *)
LEMMA EnvironmentRefines ==
  ASSUME IInv, Environment \/ Interrupt
  PROVE  Promise!Next \/ UNCHANGED Promise!scVars
<1> USE DEF config, world
<1>1. CASE SandboxStarts
  <2>1. backend \in Allowed /\ backend \in Backends /\ backend # "none" /\ answer = "none"
    BY <1>1, AllowedAreBackends
    DEF SandboxStarts, IInv, TypeOK, SelectionInv, SandboxInv, ResultInv, Selected, Backends
  <2>2. Promise!Start(backend)
    BY <1>1, <2>1, AllowedConstant DEF SandboxStarts, Promise!Start
  <2> QED
    BY <2>1, <2>2 DEF Promise!Next
<1>2. CASE SandboxEnds
  BY <1>2, Ends DEF SandboxEnds
<1>3. CASE ClientExits
  BY <1>3, Stutters DEF ClientExits
<1>4. ASSUME NEW b \in Backends, Flip(b) PROVE UNCHANGED Promise!scVars
  BY <1>4, Stutters DEF Flip
<1>5. CASE Interrupt
  BY <1>5, Killed DEF Interrupt, KilledSandbox
<1> QED
  BY <1>1, <1>2, <1>3, <1>4, <1>5 DEF Environment

(* So is every step.                                                       *)
LEMMA NextRefines == ASSUME IInv, [Next]_vars PROVE [Promise!Next]_(Promise!scVars)
<1>1. ASSUME UNCHANGED vars PROVE UNCHANGED Promise!scVars
  BY <1>1, Stutters DEF vars, config
<1> QED
  BY <1>1, CallRefines, EnvironmentRefines DEF Next

(* Every behaviour of the call is one that SandboxedCommand allows.        *)
THEOREM Implements == Spec => KeepsPromise
BY InitRefines, InductiveInvariant, NextRefines, PTL DEF Spec, KeepsPromise, Promise!Spec

(***************************************************************************)
(* Landlock and LocalSession.                                              *)
(***************************************************************************)

(* The ruleset asks a kernel for all the rights it knows, and for no more. *)
LEMMA CapIsKnown == ASSUME NEW a \in Nat \ {0} PROVE CapForAbi(a) = Known(a) \intersect Rights
<1>1. CASE a = 1
  BY <1>1 DEF CapForAbi, Known, Since, Later, Rights, Reading, Making
<1>2. CASE a = 2
  BY <1>2 DEF CapForAbi, Known, Since, Later, Rights, Reading, Making
<1>3. CASE a >= 3
  BY <1>3 DEF CapForAbi, Known, Since, Later, Rights, Reading, Making
<1> QED
  BY <1>1, <1>2, <1>3

(* The domain of either guard is the documented one, on every kernel that  *)
(* has Landlock and whichever paths exist in the sandbox, for all rights   *)
(* of ACCESS_FS; a right that is not among them stays with everyone.       *)
THEOREM DomainIsDocumented ==
  ASSUME NEW g \in Guards, NEW a \in Nat \ {0}, NEW present, NEW paths
  PROVE  /\ AsDocumented(Domain(g, a, present), g, a, paths)
         /\ \A path \in paths, r \in Known(a) \ Rights : Permits(Domain(g, a, present), path, r)
<1> DEFINE d == Domain(g, a, present)
<1>1. d.handled = CapForAbi(a) /\ d.rules = Rules(g, CapForAbi(a), present)
  BY DEF Domain
<1>2. DOMAIN d.rules = present \intersect (ReadOnlyPaths[g] \union ReadWritePaths)
  BY <1>1 DEF Rules
<1>3. ASSUME NEW path \in DOMAIN d.rules
      PROVE  d.rules[path] = Granted(g, path, CapForAbi(a))
  BY <1>1, <1>3 DEF Rules
<1> HIDE DEF d
<1>4. ASSUME NEW path \in paths, NEW r \in CapForAbi(a)
      PROVE  Permits(d, path, r) <=> path \in DOMAIN d.rules /\ r \in Granted(g, path, CapForAbi(a))
  BY <1>1, <1>3 DEF Permits
<1>5. ASSUME NEW path \in paths, NEW r \in Known(a) \ Rights
      PROVE  r \in Later /\ Permits(d, path, r)
  <2>1. r \in Later /\ r # "refer"
    BY DEF Known, Rights, Reading, Making
  <2>2. r \notin d.handled
    BY <1>1 DEF CapForAbi
  <2> QED
    BY <2>1, <2>2 DEF Permits
<1>6. AsDocumented(d, g, a, paths)
  <2> SUFFICES ASSUME NEW path \in paths, NEW r \in Known(a)
               PROVE  /\ Permits(d, path, r) =>
                           \/ path \in {"/work", "/tmp"}
                           \/ path \in ReadOnlyPaths[g] /\ r \in Reading
                           \/ r \in Later
                      /\ path \in {"/work", "/tmp"} \intersect DOMAIN d.rules => Permits(d, path, r)
    BY DEF AsDocumented
  <2>1. CASE r \in Rights
    <3>1. r \in CapForAbi(a)
      BY <2>1, CapIsKnown
    <3> QED
      BY <1>2, <1>4, <3>1 DEF Granted, ReadWritePaths
  <2>2. CASE r \notin Rights
    BY <1>5, <2>2
  <2> QED
    BY <2>1, <2>2
<1> QED
  BY <1>5, <1>6 DEF d
-----------------------------------------------------------------------------
(* Every step of a session is one of the call or leaves the call alone.    *)
LEMMA StepsOfCall == ASSUME [SessionNext]_sessionVars PROVE [Next]_vars
<1>1. CASE Program \/ Signal
  BY <1>1 DEF Program, Signal, Start, Patch, RunCmd, Return, AiderEnds, Restore, Goto
<1>2. CASE Entry
  BY <1>2 DEF Entry, Refuse, EnterScope, VerifyLimits, Bubblewrap, ApplyRlimits, CreateRuleset,
     AddRules, SetNoNewPrivs, RestrictSelf, At
<1>3. CASE CallStep \/ InterruptStep
  BY <1>3 DEF CallStep, InterruptStep, Next
<1>4. CASE CommandStarts \/ OutsideStep
  BY <1>4 DEF CommandStarts, OutsideStep, Next, Environment
<1>5. CASE UNCHANGED sessionVars
  BY <1>5 DEF sessionVars
<1> QED
  BY <1>1, <1>2, <1>3, <1>4, <1>5 DEF SessionNext

(* A session keeps the inductive invariant of the call.                    *)
THEOREM SessionKeepsCall == SessionSpec => []IInv
<1>1. SessionInit => IInv
  BY InitIInv DEF SessionInit
<1>2. IInv /\ [SessionNext]_sessionVars => IInv'
  BY StepsOfCall, NextIInv
<1> QED
  BY <1>1, <1>2, PTL DEF SessionSpec

(* So the answers of its call mean what those of a call alone do, and no   *)
(* sandbox loses its workspace otherwise.                                  *)
THEOREM SessionCallSafe ==
  SessionSpec => /\ [](RanWhereAllowed /\ SuccessIsReal)
                 /\ [](SurvivorsAreKnown /\ InterruptIsNoResult)
                 /\ StageOutlivesSandbox
<1>1. IInv /\ [SessionNext]_sessionVars =>
        [(stage /\ ~stage') => (sandbox # "running" \/ cleanup \in {"failed", "cut"})]_vars
  BY StepsOfCall, StageStep
<1> QED
  BY SessionKeepsCall, CallIsSafe, <1>1, PTL DEF SessionSpec, StageOutlivesSandbox

(* It implements SandboxedCommand, as the call does.                       *)
THEOREM SessionImplements == SessionSpec => KeepsPromise
<1>1. SessionInit => Promise!Init
  BY InitRefines DEF SessionInit
<1>2. IInv /\ [SessionNext]_sessionVars => [Promise!Next]_(Promise!scVars)
  BY StepsOfCall, NextRefines
<1> QED
  BY <1>1, <1>2, SessionKeepsCall, PTL DEF SessionSpec, KeepsPromise, Promise!Spec
-----------------------------------------------------------------------------
(* The invariant of the session holds at the start.                        *)
LEMMA InitSInv == SessionInit => SInv
<1> SUFFICES ASSUME SessionInit PROVE SInv
  OBVIOUS
<1>1. SessionTypeOK
  <2>1. signals \in 0 .. MaxSignals
    BY SessionAssumption DEF SessionInit
  <2>2. scope \in [Limits -> {"missing", "loose", "held"}]
    BY DEF SessionInit, Unlimited
  <2>3. domain.handled \subseteq Rights /\ DOMAIN domain.rules = {}
    BY DEF SessionInit, NoDomain
  <2> QED
    BY <2>1, <2>2, <2>3 DEF SessionInit, SessionTypeOK, EntrySteps
<1>2. HookInv
  <2>1. \A m \in Modules : refs[m] = "host"
    BY DEF SessionInit
  <2>2. Replaced = {}
    BY <2>1 DEF Replaced
  <2> QED
    BY <2>2 DEF SessionInit, HookInv
<1>3. EntryInv
  BY DEF SessionInit, Init, EntryInv
<1> QED
  BY <1>1, <1>2, <1>3 DEF SInv

(* A module is chosen among those there are.                               *)
LEMMA FirstIn == ASSUME NEW S \in SUBSET Modules, S # {} PROVE First(S) \in S
<1>1. \A n \in S : n = 1 \/ n = 2
  BY DEF Modules
<1>2. \E m \in S : \A n \in S : m <= n
  <2>1. CASE 1 \in S
    <3>1. \A n \in S : 1 <= n
      BY <1>1
    <3> QED
      BY <2>1, <3>1
  <2>2. CASE 1 \notin S
    <3>1. 2 \in S /\ \A n \in S : 2 <= n
      BY <1>1, <2>2
    <3> QED
      BY <3>1
  <2> QED
    BY <2>1, <2>2
<1> QED
  BY <1>2 DEF First

(* The steps of the program and of its hook, and Ctrl-C in them.           *)
LEMMA ProgramSInv == ASSUME SInv, Program \/ Signal PROVE SInv'
<1> USE DEF SInv, SessionTypeOK, HookInv
<1>1. UNCHANGED <<vars, entryVars, tool>>
  BY DEF Program, Signal, Start, Patch, RunCmd, Return, AiderEnds, Restore, Goto
<1>2. EntryInv'
  BY <1>1 DEF EntryInv, vars, entryVars, guardVars, Domain
<1>3. CASE Start
  BY <1>1, <1>2, <1>3 DEF Start, Goto, Replaced, entryVars, guardVars
<1>4. CASE Patch
  <2>1. CASE Unreplaced # {}
    <3>1. First(Unreplaced) \in Modules
      BY <2>1, FirstIn DEF Unreplaced
    <3>2. refs' \in [Modules -> {"host", "runner"}] /\ hook' = "patch" /\ UNCHANGED <<onHost, signals>>
      BY <1>4, <2>1, <3>1 DEF Patch, Goto
    <3> QED
      BY <1>1, <1>2, <1>4, <3>2 DEF Patch, Replaced, entryVars, guardVars
  <2>2. CASE Unreplaced = {}
    <3>1. hook = "patch" /\ hook' = "aider" /\ UNCHANGED <<refs, onHost, signals>>
      BY <1>4, <2>2 DEF Patch, Goto
    <3>2. Replaced' = Modules
      BY <2>2, <3>1 DEF Replaced, Unreplaced
    <3> QED
      BY <1>1, <1>2, <3>1, <3>2 DEF entryVars, guardVars
  <2> QED
    BY <2>1, <2>2
<1>5. ASSUME NEW m \in Modules, RunCmd(m) PROVE SInv'
  <2>1. refs[m] = "runner"
    BY <1>5 DEF RunCmd, Replaced
  <2> QED
    BY <1>1, <1>2, <1>5, <2>1 DEF RunCmd, Goto, Replaced, entryVars, guardVars
<1>6. CASE Return \/ AiderEnds
  BY <1>1, <1>2, <1>6 DEF Return, AiderEnds, Goto, Replaced, entryVars, guardVars
<1>7. CASE Restore
  <2>1. CASE Replaced # {}
    <3>1. First(Replaced) \in Modules
      BY <2>1, FirstIn DEF Replaced
    <3>2. refs' \in [Modules -> {"host", "runner"}] /\ hook' = "restore" /\ UNCHANGED <<onHost, signals>>
      BY <1>7, <2>1, <3>1 DEF Restore, Goto
    <3> QED
      BY <1>1, <1>2, <1>7, <3>2 DEF Restore, Replaced, entryVars, guardVars
  <2>2. CASE Replaced = {}
    BY <1>1, <1>2, <1>7, <2>2 DEF Restore, Goto, Replaced, entryVars, guardVars
  <2> QED
    BY <2>1, <2>2
<1>8. CASE Signal
  <2>1. signals' \in 0 .. MaxSignals
    BY <1>8, SessionAssumption DEF Signal
  <2> QED
    BY <1>1, <1>2, <1>8, <2>1 DEF Signal, Goto, Replaced, entryVars, guardVars
<1> QED
  BY <1>3, <1>4, <1>5, <1>6, <1>7, <1>8 DEF Program

(* A domain only gives back rights that it handles.                        *)
LEMMA DomainTyped ==
  ASSUME NEW a \in Nat, NEW present
  PROVE  LET d == Domain("adapter", a, present)
         IN  /\ d.handled \subseteq Rights
             /\ \A p \in DOMAIN d.rules : d.rules[p] \subseteq Rights
BY DEF Domain, Rules, Granted, CapForAbi

(* The steps of the way in.                                                *)
LEMMA EntrySInv == ASSUME SInv, Entry PROVE SInv'
<1> USE SessionAssumption DEF SInv, SessionTypeOK, EntryInv, EntrySteps, At, guardVars
<1>1. UNCHANGED <<vars, hookVars>> /\ backend = "process-sandbox"
  BY DEF Entry, Refuse, EnterScope, VerifyLimits, Bubblewrap, ApplyRlimits, CreateRuleset, AddRules,
     SetNoNewPrivs, RestrictSelf
<1>2. HookInv'
  BY <1>1 DEF HookInv, hookVars, Replaced
<1>3. entry # "exec"
  BY DEF Entry, Refuse, EnterScope, VerifyLimits, Bubblewrap, ApplyRlimits, CreateRuleset, AddRules,
     SetNoNewPrivs, RestrictSelf
<1>4. ran' # {"process-sandbox"}
  BY <1>1, <1>3 DEF vars
<1> USE <1>1, <1>2, <1>3, <1>4 DEF vars, hookVars
<1>5. CASE Refuse
  BY <1>5 DEF Refuse, Domain
<1>6. CASE EnterScope
  BY <1>6 DEF EnterScope
<1>7. CASE VerifyLimits
  BY <1>7 DEF VerifyLimits, Verified
<1>8. CASE Bubblewrap \/ ApplyRlimits
  BY <1>8 DEF Bubblewrap, ApplyRlimits
<1>9. CASE CreateRuleset
  <2>1. PICK a \in Abis :
          /\ abi' = a
          /\ domain' = [handled |-> IF a = 0 THEN {} ELSE CapForAbi(a), rules |-> NoDomain.rules]
          /\ At("ruleset", IF a = 0 THEN "exec"
                           ELSE IF CapForAbi(a) \subseteq Known(a) THEN "rules" ELSE "refused")
    BY <1>9 DEF CreateRuleset
  <2>2. a \in Nat /\ CapForAbi(a) \subseteq Rights
    BY DEF CapForAbi
  <2>3. domain'.handled \subseteq Rights /\ DOMAIN domain'.rules = {}
    BY <2>1, <2>2 DEF NoDomain
  <2>4. CASE a = 0
    BY <1>9, <2>1, <2>3, <2>4 DEF CreateRuleset
  <2>5. CASE a # 0
    BY <1>9, <2>1, <2>2, <2>3, <2>5 DEF CreateRuleset
  <2> QED
    BY <2>4, <2>5
<1>10. CASE AddRules
  <2>1. PICK present \in Present :
          domain' = [domain EXCEPT !.rules = Rules("adapter", domain.handled, present)]
    BY <1>10 DEF AddRules
  <2>2. domain' = Domain("adapter", abi, present) /\ abi > 0
    BY <1>10, <2>1 DEF AddRules, Domain
  <2>3. /\ domain'.handled \subseteq Rights
        /\ \A p \in DOMAIN domain'.rules : domain'.rules[p] \subseteq Rights
    BY <2>2, DomainTyped
  <2> QED
    BY <1>10, <2>2, <2>3 DEF AddRules
<1>11. CASE SetNoNewPrivs
  BY <1>11 DEF SetNoNewPrivs
<1>12. CASE RestrictSelf
  BY <1>12 DEF RestrictSelf
<1> QED
  BY <1>5, <1>6, <1>7, <1>8, <1>9, <1>10, <1>11, <1>12 DEF Entry

(* The steps of the call only select a backend where there is none, and    *)
(* start no command.                                                       *)
LEMMA CallFrame ==
  ASSUME IInv, Call \/ Interrupt \/ SandboxEnds \/ ClientExits \/ \E b \in Backends : Flip(b)
  PROVE  ran' = ran /\ (backend' = backend \/ (backend = "none" /\ ran = {}))
BY DEF IInv, SelectionInv, SandboxInv, Call, Interrupt, SandboxEnds, ClientExits, Flip, world, env,
   config, Validate, CheckPasses, CheckFails, NoneReady, MakeStage, TakeSnapshot, BuildImages,
   Launch, ClientReturns, ClientAborted, CollectGuest, CleanupSucceeds, CleanupFails, Unstage, Reply

(* They keep the invariant, as the program and the way in stand still.     *)
LEMMA RunnerSInv ==
  ASSUME SInv, IInv, CallStep \/ InterruptStep \/ CommandStarts \/ OutsideStep
  PROVE  SInv'
<1>1. UNCHANGED <<hookVars, entryVars>>
  BY DEF CallStep, InterruptStep, CommandStarts, OutsideStep
<1>2. SessionTypeOK' /\ HookInv'
  BY <1>1 DEF SInv, SessionTypeOK, HookInv, hookVars, entryVars, guardVars, Replaced
<1>3. (entry # "scope" => backend' = "process-sandbox") /\ (ran' = {"process-sandbox"} => entry = "exec")
  <2>1. CASE CommandStarts
    BY <2>1 DEF CommandStarts, SandboxStarts, SInv, EntryInv
  <2>2. CASE CallStep \/ InterruptStep \/ OutsideStep
    BY <2>2, CallFrame DEF CallStep, InterruptStep, OutsideStep, SInv, EntryInv
  <2> QED
    BY <2>1, <2>2
<1>4. EntryInv'
  BY <1>1, <1>3 DEF SInv, EntryInv, entryVars, guardVars, Domain
<1> QED
  BY <1>2, <1>4 DEF SInv

(* The inductive invariant of a session always holds.                      *)
THEOREM SessionInvariant == SessionSpec => []SInv
<1>1. ASSUME SInv, UNCHANGED sessionVars PROVE SInv'
  BY <1>1 DEF SInv, SessionTypeOK, HookInv, EntryInv, sessionVars, hookVars, entryVars, guardVars,
     vars, Replaced, Domain
<1>2. SInv /\ IInv /\ [SessionNext]_sessionVars => SInv'
  BY <1>1, ProgramSInv, EntrySInv, RunnerSInv DEF SessionNext
<1> QED
  BY <1>2, InitSInv, SessionKeepsCall, PTL DEF SessionSpec

(* No command of aider ever runs on the host.                              *)
THEOREM SessionNeverOnHost == SessionSpec => []NeverOnHost
<1>1. SInv => NeverOnHost
  BY DEF SInv, HookInv, NeverOnHost
<1> QED
  BY <1>1, SessionInvariant, PTL

(* Its references are put back, unless Ctrl-C hits the program meanwhile.  *)
THEOREM HookUndone == SessionSpec => []HookIsUndone
<1>1. SInv => HookIsUndone
  BY DEF SInv, HookInv, HookIsUndone
<1> QED
  BY <1>1, SessionInvariant, PTL

(* What runs in the process sandbox is confined as the guard documents,    *)
(* whatever the scope enforces, the kernel knows and the sandbox contains. *)
THEOREM Confined == SessionSpec => []ConfinedAsDocumented
<1>1. SInv => ConfinedAsDocumented
  <2> SUFFICES ASSUME SInv, ran = {"process-sandbox"}
               PROVE  /\ \A l \in Limits : scope[l] = "held"
                      /\ abi > 0 => restricted /\ AsDocumented(domain, "adapter", abi, Paths)
    BY DEF ConfinedAsDocumented
  <2>1. entry = "exec" /\ (\A l \in Limits : scope[l] = "held") /\ abi \in Nat
    BY SessionAssumption DEF SInv, SessionTypeOK, EntryInv, EntrySteps
  <2>2. ASSUME abi > 0
        PROVE  restricted /\ AsDocumented(domain, "adapter", abi, Paths)
    <3>1. restricted /\ \E present \in Present : domain = Domain("adapter", abi, present)
      BY <2>1, <2>2 DEF SInv, EntryInv
    <3> QED
      BY <2>1, <2>2, <3>1, DomainIsDocumented DEF Guards
  <2> QED
    BY <2>1, <2>2
<1> QED
  BY <1>1, SessionInvariant, PTL

(* A setup that was refused never looks like a success.                    *)
THEOREM RefusedSafe == SessionSpec => []RefusedIsNoSuccess
<1>1. SInv /\ IInv => RefusedIsNoSuccess
  BY DEF SInv, EntryInv, IInv, TypeOK, SelectionInv, SandboxInv, ResultInv, RefusedIsNoSuccess,
     Result, HasCleanup, Over, EntrySteps
<1> QED
  BY <1>1, SessionInvariant, SessionKeepsCall, PTL
=============================================================================
