-------------------------- MODULE RunProcess_proofs --------------------------
(***************************************************************************)
(* Proofs about RunProcess, for every set of processes, pipe, chunk,       *)
(* output limit, timeout and number of interrupts.                         *)
(***************************************************************************)
EXTENDS RunProcess, TLAPS

(* The state before the call satisfies the inductive invariant.            *)
LEMMA InitIInv == Init => IInv
BY RunProcessAssumption DEF Init, IInv, TypeOK, Writers, Live, Alive, Inside, Final

(* Every step of the caller preserves it.                                  *)
LEMMA CallerIInv == ASSUME IInv, Caller \/ Interrupt PROVE IInv'
<1> USE RunProcessAssumption DEF IInv, TypeOK, Inside, Final
<1>1. CASE Popen
  BY <1>1 DEF Popen, Writers, Live, Alive
<1>2. CASE PopenFails
  BY <1>2 DEF PopenFails, procVars, Writers, Live, Alive
<1>3. CASE CheckDeadline
  BY <1>3 DEF CheckDeadline, Fail, procVars, Writers, Live, Alive
<1>4. CASE Select
  BY <1>4 DEF Select, procVars, Writers, Live, Alive
<1>5. CASE ReadChunk
  <2>1. ReadSize \in 0 .. Chunk /\ ReadSize <= pipe
    BY DEF ReadSize
  <2>2. pipe' \in 0 .. PipeSize /\ output' \in 0 .. MaxOutput + Chunk
    BY <1>5, <2>1 DEF ReadChunk
  <2> QED
    BY <1>5, <2>2 DEF ReadChunk, Fail, procVars, Writers, Live, Alive
<1>6. CASE ReadEof
  BY <1>6 DEF ReadEof, procVars, Writers, Live, Alive
<1>7. CASE WaitReaps
  BY <1>7 DEF WaitReaps, Writers, Live, Alive
<1>8. CASE WaitExpires
  BY <1>8 DEF WaitExpires, Fail, procVars, Writers, Live, Alive
<1>9. CASE Leave
  BY <1>9 DEF Leave, procVars, Writers, Live, Alive
<1>10. CASE KillGroup
  BY <1>10 DEF KillGroup, Writers, Live, Alive
<1>11. CASE Reap
  BY <1>11 DEF Reap, Writers, Live, Alive
<1>12. CASE Interrupt
  BY <1>12 DEF Interrupt, Fail, procVars, Writers, Live, Alive
<1> QED
  BY <1>1, <1>2, <1>3, <1>4, <1>5, <1>6, <1>7, <1>8, <1>9, <1>10, <1>11, <1>12 DEF Caller

(* So does every step of the child, its descendants and the kernel.        *)
LEMMA FamilyIInv == ASSUME IInv, Family \/ Tick PROVE IInv'
<1> USE RunProcessAssumption DEF IInv, TypeOK, Inside, Final
<1>1. ASSUME NEW p \in Procs, NEW q \in Procs, Fork(p, q) PROVE IInv'
  BY <1>1 DEF Fork, callerVars, Writers, Live, Alive
<1>2. ASSUME NEW p \in Procs, Detach(p) PROVE IInv'
  BY <1>2 DEF Detach, callerVars, Writers, Live, Alive
<1>3. ASSUME NEW p \in Procs, CloseOutput(p) PROVE IInv'
  BY <1>3 DEF CloseOutput, callerVars, Writers, Live, Alive
<1>4. ASSUME NEW p \in Procs, Write(p) PROVE IInv'
  BY <1>4 DEF Write, callerVars, procVars, Writers, Live, Alive
<1>5. ASSUME NEW p \in Procs, Exit(p) PROVE IInv'
  BY <1>5 DEF Exit, Dead, callerVars, Writers, Live, Alive
<1>6. ASSUME NEW p \in Procs, Die(p) PROVE IInv'
  BY <1>6 DEF Die, Dead, callerVars, Writers, Live, Alive
<1>7. CASE Tick
  BY <1>7 DEF Tick, callerVars, procVars, Writers, Live, Alive
<1> QED
  BY <1>1, <1>2, <1>3, <1>4, <1>5, <1>6, <1>7 DEF Family

(* The strengthened invariant holds in every reachable state.              *)
THEOREM InductiveInvariant == Spec => []IInv
<1>1. IInv /\ UNCHANGED vars => IInv'
  BY DEF IInv, TypeOK, vars, Writers, Live, Alive
<1>2. IInv /\ [Next]_vars => IInv'
  BY <1>1, CallerIInv, FamilyIInv DEF Next
<1> QED
  BY InitIInv, <1>2, PTL DEF Spec

(* An aborted call leaves no running member of the group and no zombie.    *)
THEOREM AbortSafe == Spec => []AbortLeavesNoGroup
<1>1. IInv => AbortLeavesNoGroup
  BY DEF IInv, AbortLeavesNoGroup
<1> QED
  BY InductiveInvariant, <1>1, PTL

(* A result handed to the caller is the whole result of an exited child.   *)
THEOREM ResultSafe == Spec => []ResultIsWhole
<1>1. IInv => ResultIsWhole
  BY DEF IInv, ResultIsWhole
<1> QED
  BY InductiveInvariant, <1>1, PTL

(***************************************************************************)
(* RunProcess implements ProcessCall.                                      *)
(***************************************************************************)
(* The initial states are initial states of the promise.                   *)
LEMMA InitRefines == Init => Promise!Init
BY DEF Init, Promise!Init, Live, Writers, Alive, Inside

(* The steps of the caller: each is one step of the promise, or a stutter. *)
LEMMA CallerRefines ==
  ASSUME IInv, IInv', Caller \/ Interrupt
  PROVE  [Promise!Next]_(Promise!callVars)
<1> USE RunProcessAssumption DEF IInv, TypeOK, Inside, Promise!callVars
<1>1. CASE Popen
  <2>1. Live' = {Child} /\ Writers' = {Child} /\ Live = {} /\ Writers = {}
    BY <1>1 DEF Popen, Writers, Live, Alive
  <2>2. Promise!Launch
    BY <1>1, <2>1 DEF Popen, Promise!Launch
  <2> QED
    BY <2>2 DEF Promise!Next
<1>2. CASE PopenFails
  <2>1. Promise!Refuse
    BY <1>2 DEF PopenFails, procVars, Promise!Refuse, Writers, Live, Alive
  <2> QED
    BY <2>1 DEF Promise!Next
<1>3. CASE CheckDeadline \/ Select \/ ReadEof \/ WaitExpires \/ Interrupt
  BY <1>3 DEF CheckDeadline, Select, ReadEof, WaitExpires, Interrupt, Fail, procVars,
              Writers, Live, Alive
<1>4. CASE ReadChunk
  <2>1. Live' = Live /\ Writers' = Writers
    BY <1>4 DEF ReadChunk, procVars, Writers, Live, Alive
  <2>2. pipe' \in 0 .. PipeSize /\ pipe' <= pipe
    BY <1>4 DEF ReadChunk, ReadSize
  <2>3. pc \in Inside \union {"kill"} /\ pc' \in Inside \union {"kill"}
    BY <1>4 DEF ReadChunk, Fail
  <2>4. Live \in SUBSET Procs /\ Writers \in SUBSET Procs
    BY DEF Live, Writers
  <2>5. Promise!Work
    BY <2>1, <2>2, <2>3, <2>4 DEF Promise!Work
  <2> QED
    BY <2>5 DEF Promise!Next
<1>5. CASE WaitReaps
  <2>1. Live' = Live /\ Writers' = Writers
    BY <1>5 DEF WaitReaps, Writers, Live, Alive
  <2> QED
    BY <1>5, <2>1 DEF WaitReaps
<1>6. CASE Leave
  <2>1. Live' = Live /\ Writers' = Writers /\ Child \notin Live
    BY <1>6 DEF Leave, procVars, Writers, Live, Alive
  <2>2. Promise!Complete
    BY <1>6, <2>1 DEF Leave, procVars, Promise!Complete
  <2> QED
    BY <2>2 DEF Promise!Next
<1>7. CASE KillGroup
  <2>1. Live' = {} /\ Writers' = Writers
    BY <1>7 DEF KillGroup, Writers, Live, Alive
  <2>2. Promise!Abort
    BY <1>7, <2>1 DEF KillGroup, Promise!Abort
  <2> QED
    BY <2>2 DEF Promise!Next
<1>8. CASE Reap
  <2>1. Live' = Live /\ Writers' = Writers
    BY <1>8 DEF Reap, Writers, Live, Alive
  <2>2. Promise!Raise
    BY <1>8, <2>1 DEF Reap, Promise!Raise
  <2> QED
    BY <2>2 DEF Promise!Next
<1> QED
  BY <1>1, <1>2, <1>3, <1>4, <1>5, <1>6, <1>7, <1>8 DEF Caller

(* A step of the family is a step of Work: a new writer, or a new member   *)
(* of the group, is the child of an old one.                               *)
LEMMA FamilyRefines ==
  ASSUME IInv, IInv', Family \/ Tick
  PROVE  [Promise!Next]_(Promise!callVars)
<1> DEFINE Step == /\ pc' = pc
                   /\ pipe' \in 0 .. PipeSize
                   /\ Live = {} => Live' = {}
                   /\ Child \notin Live => Child \notin Live'
                   /\ Writers = {} => Writers' = {} /\ pipe' <= pipe
<1>1. Step => Promise!Work
  BY DEF Promise!Work, Live, Writers, Inside
<1> USE RunProcessAssumption DEF IInv, TypeOK
<1>2. ASSUME NEW p \in Procs, NEW q \in Procs, Fork(p, q) PROVE Step
  BY <1>2 DEF Fork, callerVars, Writers, Live, Alive
<1>3. ASSUME NEW p \in Procs, Detach(p) PROVE Step
  BY <1>3 DEF Detach, callerVars, Writers, Live, Alive
<1>4. ASSUME NEW p \in Procs, CloseOutput(p) PROVE Step
  BY <1>4 DEF CloseOutput, callerVars, Writers, Live, Alive
<1>5. ASSUME NEW p \in Procs, Write(p) PROVE Step
  BY <1>5 DEF Write, callerVars, procVars, Writers, Live, Alive
<1>6. ASSUME NEW p \in Procs, Exit(p) PROVE Step
  BY <1>6 DEF Exit, Dead, callerVars, Writers, Live, Alive
<1>7. ASSUME NEW p \in Procs, Die(p) PROVE Step
  BY <1>7 DEF Die, Dead, callerVars, Writers, Live, Alive
<1>8. ASSUME Tick PROVE Step
  BY <1>8 DEF Tick, callerVars, procVars, Writers, Live, Alive
<1> QED
  BY <1>1, <1>2, <1>3, <1>4, <1>5, <1>6, <1>7, <1>8 DEF Family, Promise!Next

(* Every behaviour of run_process is one the promise allows.               *)
THEOREM Implements == Spec => KeepsPromise
<1>1. IInv /\ IInv' /\ [Next]_vars => [Promise!Next]_(Promise!callVars)
  <2>1. UNCHANGED vars => UNCHANGED Promise!callVars
    BY DEF vars, Promise!callVars, Live, Writers, Alive
  <2> QED
    BY <2>1, CallerRefines, FamilyRefines DEF Next
<1> QED
  BY InitRefines, InductiveInvariant, <1>1, PTL DEF Spec, KeepsPromise, Promise!Spec
=============================================================================
