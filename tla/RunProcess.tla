------------------------------ MODULE RunProcess ------------------------------
(***************************************************************************)
(* run_process of aider_local/runner.py: the one way in which the adapter  *)
(* starts a helper or a sandbox client.  The caller reads the merged       *)
(* output of the child through a pipe until end of file, under a deadline  *)
(* and an output limit, and kills the child's process group on any         *)
(* exception.  The child and its descendants run concurrently: they fork,  *)
(* write, close the pipe, leave the group with setsid and exit at will.    *)
(* Output is counted in units (64 KiB stands for one Chunk), time in       *)
(* ticks; the clock stops at the deadline, beyond which the code does not  *)
(* tell two times apart.                                                   *)
(***************************************************************************)
EXTENDS Naturals

CONSTANTS
  Procs,          \* the child and the processes that may come to exist below it
  Child,          \* the process Popen launches
  PipeSize,       \* capacity of the pipe
  Chunk,          \* how much one os.read takes at most
  MaxOutput,      \* MAX_OUTPUT
  Timeout,        \* the timeout argument
  MaxInterrupts   \* bound: how many KeyboardInterrupts arrive inside the try

ASSUME RunProcessAssumption ==
  /\ Child \in Procs
  /\ PipeSize \in Nat \ {0}
  /\ Chunk \in Nat \ {0}
  /\ MaxOutput \in Nat
  /\ Timeout \in Nat
  /\ MaxInterrupts \in Nat

VARIABLES
  pc,             \* where run_process is
  error,          \* the exception it is raising
  check,          \* its argument check
  output,         \* len(output)
  clock,          \* time since the call, stopped at the deadline
  state,          \* each process: none, running, killed, zombie or gone
  member,         \* is the process in the child's process group?
  holds,          \* does the process hold the write end of the pipe?
  pipe,           \* units in the pipe
  code,           \* how the child exited
  interrupts      \* KeyboardInterrupts so far

callerVars == <<pc, error, check, output, interrupts>>
procVars == <<state, member, holds, code>>
vars == <<pc, error, check, output, clock, state, member, holds, pipe, code, interrupts>>

Inside == {"check", "select", "read", "wait", "waited"}   \* the try block
Final == {"returned", "failed", "raised", "refused"}

Alive(p) == state[p] \in {"running", "killed"}
Writers == {p \in Procs : Alive(p) /\ holds[p]}
Live == {p \in Procs : member[p] /\ state[p] = "running"}

TypeOK ==
  /\ pc \in {"start", "kill", "reap"} \union Inside \union Final
  /\ error \in {"none", "timeout", "overflow", "interrupt"}
  /\ check \in BOOLEAN
  /\ output \in 0 .. MaxOutput + Chunk
  /\ clock \in 0 .. Timeout
  /\ state \in [Procs -> {"none", "running", "killed", "zombie", "gone"}]
  /\ member \in [Procs -> BOOLEAN]
  /\ holds \in [Procs -> BOOLEAN]
  /\ pipe \in 0 .. PipeSize
  /\ code \in {"none", "zero", "nonzero"}
  /\ interrupts \in 0 .. MaxInterrupts

Init ==
  /\ pc = "start"
  /\ error = "none"
  /\ check \in BOOLEAN
  /\ output = 0
  /\ clock = 0
  /\ state = [p \in Procs |-> "none"]
  /\ member = [p \in Procs |-> FALSE]
  /\ holds = [p \in Procs |-> FALSE]
  /\ pipe = 0
  /\ code = "none"
  /\ interrupts = 0
-----------------------------------------------------------------------------
(* The caller. *)

Popen ==
  /\ pc = "start"
  /\ pc' = "check"
  /\ state' = [state EXCEPT ![Child] = "running"]
  /\ member' = [member EXCEPT ![Child] = TRUE]
  /\ holds' = [holds EXCEPT ![Child] = TRUE]
  /\ UNCHANGED <<error, check, output, clock, pipe, code, interrupts>>

(* The program does not exist or cannot be forked: there is no child. *)
PopenFails ==
  /\ pc = "start"
  /\ pc' = "refused"
  /\ UNCHANGED <<error, check, output, clock, procVars, pipe, interrupts>>

Fail(e) ==
  /\ pc' = "kill"
  /\ error' = e

\* Mutant: the deadline is not looked at while the pipe is open.
CheckNoDeadline ==
  /\ pc = "check"
  /\ pc' = "select"
  /\ UNCHANGED <<error, check, output, clock, procVars, pipe, interrupts>>

\* Mutant: the loop ends when the child exits, not at end of file.
CheckChildAlive ==
  /\ pc = "check"
  /\ \/ clock >= Timeout /\ Fail("timeout")
     \/ clock < Timeout /\ pc' = "select" /\ UNCHANGED error
     \/ state[Child] = "zombie" /\ pc' = "wait" /\ UNCHANGED error
  /\ UNCHANGED <<check, output, clock, procVars, pipe, interrupts>>

(* The top of the loop: every round looks at the deadline first. *)
CheckDeadline ==
  /\ pc = "check"
  /\ \/ clock >= Timeout /\ Fail("timeout")
     \/ clock < Timeout /\ pc' = "select" /\ UNCHANGED error
  /\ UNCHANGED <<check, output, clock, procVars, pipe, interrupts>>

Readable == pipe > 0 \/ Writers = {}

(* selector.select: the pipe is readable, or the slice of at most 0.2 s    *)
(* (less when the deadline is nearer) is over.                             *)
Select ==
  /\ pc = "select"
  /\ \/ Readable /\ pc' = "read"
     \/ ~Readable /\ pc' = "check"
  /\ UNCHANGED <<error, check, output, clock, procVars, pipe, interrupts>>

ReadSize == IF pipe < Chunk THEN pipe ELSE Chunk

ReadChunk ==
  /\ pc = "read"
  /\ pipe > 0
  /\ output' = output + ReadSize
  /\ pipe' = pipe - ReadSize
  /\ \/ output' > MaxOutput /\ Fail("overflow")
     \/ output' <= MaxOutput /\ pc' = "check" /\ UNCHANGED error
  /\ UNCHANGED <<check, clock, procVars, interrupts>>

(* An empty read unregisters the pipe and so ends the loop. *)
ReadEof ==
  /\ pc = "read"
  /\ pipe = 0
  /\ Writers = {}
  /\ pc' = "wait"
  /\ UNCHANGED <<error, check, output, clock, procVars, pipe, interrupts>>

(* proc.wait(timeout): reaps an exited child; past the deadline it may     *)
(* give up, although at least 10 ms are always granted.                    *)
WaitReaps ==
  /\ pc = "wait"
  /\ state[Child] = "zombie"
  /\ pc' = "waited"
  /\ state' = [state EXCEPT ![Child] = "gone"]
  /\ UNCHANGED <<error, check, output, clock, member, holds, pipe, code, interrupts>>

WaitExpires ==
  /\ pc = "wait"
  /\ clock >= Timeout
  /\ Fail("timeout")
  /\ UNCHANGED <<check, output, clock, procVars, pipe, interrupts>>

Leave ==
  /\ pc = "waited"
  /\ pc' = IF check /\ code = "nonzero" THEN "failed" ELSE "returned"
  /\ UNCHANGED <<error, check, output, clock, procVars, pipe, interrupts>>

\* Mutant: except Exception does not see a KeyboardInterrupt.
InterruptUncaught ==
  /\ pc \in Inside
  /\ interrupts < MaxInterrupts
  /\ interrupts' = interrupts + 1
  /\ pc' = "raised"
  /\ error' = "interrupt"
  /\ UNCHANGED <<check, output, clock, procVars, pipe>>

Interrupt ==
  /\ pc \in Inside
  /\ interrupts < MaxInterrupts
  /\ interrupts' = interrupts + 1
  /\ Fail("interrupt")
  /\ UNCHANGED <<check, output, clock, procVars, pipe>>

\* Mutant: proc.kill() in place of os.killpg.
KillChild ==
  /\ pc = "kill"
  /\ pc' = "reap"
  /\ state' = [state EXCEPT ![Child] = IF @ = "running" THEN "killed" ELSE @]
  /\ UNCHANGED <<error, check, output, clock, member, holds, pipe, code, interrupts>>

(* os.killpg; a group without processes is the ProcessLookupError that     *)
(* the code passes over.                                                   *)
KillGroup ==
  /\ pc = "kill"
  /\ pc' = "reap"
  /\ state' = [p \in Procs |-> IF member[p] /\ state[p] = "running" THEN "killed" ELSE state[p]]
  /\ UNCHANGED <<error, check, output, clock, member, holds, pipe, code, interrupts>>

(* proc.wait() without a timeout, then the exception goes on. *)
Reap ==
  /\ pc = "reap"
  /\ state[Child] \in {"zombie", "gone"}
  /\ pc' = "raised"
  /\ state' = [state EXCEPT ![Child] = "gone"]
  /\ UNCHANGED <<error, check, output, clock, member, holds, pipe, code, interrupts>>

Caller ==
  \/ Popen \/ PopenFails \/ CheckDeadline \/ Select \/ ReadChunk \/ ReadEof
  \/ WaitReaps \/ WaitExpires \/ Leave \/ KillGroup \/ Reap
-----------------------------------------------------------------------------
(* The child, its descendants and the kernel. *)

Fork(p, q) ==
  /\ state[p] = "running"
  /\ state[q] = "none"
  /\ q # Child
  /\ state' = [state EXCEPT ![q] = "running"]
  /\ member' = [member EXCEPT ![q] = member[p]]
  /\ holds' = [holds EXCEPT ![q] = holds[p]]
  /\ UNCHANGED <<callerVars, clock, pipe, code>>

(* setsid: not for the child, which already leads its session. *)
Detach(p) ==
  /\ p # Child
  /\ state[p] = "running"
  /\ member[p]
  /\ member' = [member EXCEPT ![p] = FALSE]
  /\ UNCHANGED <<callerVars, clock, state, holds, pipe, code>>

CloseOutput(p) ==
  /\ state[p] = "running"
  /\ holds[p]
  /\ holds' = [holds EXCEPT ![p] = FALSE]
  /\ UNCHANGED <<callerVars, clock, state, member, pipe, code>>

(* A full pipe blocks the writer; after the call the read end is closed. *)
Write(p) ==
  /\ state[p] = "running"
  /\ holds[p]
  /\ pipe < PipeSize
  /\ pc \notin Final
  /\ pipe' = pipe + 1
  /\ UNCHANGED <<callerVars, clock, procVars>>

(* Nobody but run_process waits for the child, so it stays a zombie. *)
Dead(p) == IF p = Child THEN "zombie" ELSE "gone"

Exit(p) ==
  /\ state[p] = "running"
  /\ state' = [state EXCEPT ![p] = Dead(p)]
  /\ code' \in IF p = Child THEN {"zero", "nonzero"} ELSE {code}
  /\ UNCHANGED <<callerVars, clock, member, holds, pipe>>

(* The kernel carries out a SIGKILL. *)
Die(p) ==
  /\ state[p] = "killed"
  /\ state' = [state EXCEPT ![p] = Dead(p)]
  /\ code' = IF p = Child THEN "nonzero" ELSE code
  /\ UNCHANGED <<callerVars, clock, member, holds, pipe>>

Tick ==
  /\ clock < Timeout
  /\ clock' = clock + 1
  /\ UNCHANGED <<callerVars, procVars, pipe>>

Family ==
  \E p \in Procs :
    \/ \E q \in Procs : Fork(p, q)
    \/ Detach(p) \/ CloseOutput(p) \/ Write(p) \/ Exit(p) \/ Die(p)

Next == Caller \/ Interrupt \/ Family \/ Tick

(* The caller runs, time passes and the kernel carries out a SIGKILL; the  *)
(* child and its descendants owe nothing.                                  *)
Fairness == WF_vars(Caller) /\ WF_vars(Tick) /\ WF_vars(Die(Child))

Spec == Init /\ [][Next]_vars /\ Fairness
-----------------------------------------------------------------------------
(* Properties. *)

(* An exception raised inside the try reaches the caller only when no      *)
(* process of the child's group can run any more and the child is reaped:  *)
(* a timed out helper leaves neither a running group nor a zombie.         *)
AbortLeavesNoGroup ==
  pc = "raised" => Live = {} /\ state[Child] = "gone"

(* A result is given to the caller only when it is the whole result: the   *)
(* child is reaped, every process that could still write has closed the    *)
(* pipe or is gone, the pipe is drained and the limit was respected - also *)
(* when the child exited long before a descendant stopped writing.         *)
ResultIsWhole ==
  pc \in {"returned", "failed"} =>
    /\ state[Child] = "gone"
    /\ code # "none"
    /\ Writers = {}
    /\ pipe = 0
    /\ output <= MaxOutput

(* The call ends whatever its processes do: also when they write without   *)
(* end, never close the pipe, detach, or ignore every signal but SIGKILL.  *)
Finishes == <>(pc \in Final)

(* The inductive strengthening of the two invariants above.  Nothing exists *)
(* before Popen; the limit holds wherever the call has not failed; once    *)
(* the read loop saw end of file no writer can appear again; the group     *)
(* stays dead after its SIGKILL; and a reaped child left an exit code.     *)
IInv ==
  /\ TypeOK
  /\ pc \in {"start", "refused"} => \A p \in Procs : state[p] = "none"
  /\ pc \in {"start", "returned", "failed"} \union Inside => output <= MaxOutput
  /\ pc \in {"wait", "waited", "returned", "failed"} => Writers = {} /\ pipe = 0
  /\ pc \in {"waited", "returned", "failed", "raised"} => state[Child] = "gone"
  /\ pc \in {"reap", "raised"} => Live = {}
  /\ state[Child] \in {"zombie", "gone"} => code # "none"

(* The call keeps the promise of ProcessCall.                              *)
Promise == INSTANCE ProcessCall WITH
  call <- CASE pc = "start" -> "starting"
            [] pc \in Inside \union {"kill"} -> "active"
            [] pc = "reap" -> "aborting"
            [] pc \in {"returned", "failed"} -> "completed"
            [] OTHER -> pc,
  live <- Live,
  writers <- Writers,
  unread <- pipe

KeepsPromise == Promise!Spec
=============================================================================
