----------------------------- MODULE LocalSession -----------------------------
(***************************************************************************)
(* One session of aider-local or one use of aider-test                     *)
(* (aider_local/cli.py), around one call of Runner.run, and the way into   *)
(* the process sandbox: a systemd scope, cgroup_guard.py, bubblewrap,      *)
(* landlock_guard.py, and only then the command.  aider runs its commands  *)
(* by the name run_cmd in two of its modules; aider-local puts the Runner  *)
(* in the place of both while aider runs.                                  *)
(***************************************************************************)
EXTENDS Runner, Landlock

Limits == {"memory.max", "memory.swap.max", "pids.max", "cpu.max"}

CONSTANTS
  Scopes,         \* what a systemd scope may do about each limit
  Abis,           \* the Landlock versions of the kernels; 0 is none
  Present,        \* the sets of paths that may exist in the sandbox
  MaxSignals      \* bound: Ctrl-C outside of the call

ASSUME SessionAssumption ==
  /\ Scopes \subseteq [Limits -> {"missing", "loose", "held"}]
  /\ Abis \subseteq Nat
  /\ MaxSignals \in Nat

\* aider.commands and aider.coders.base_coder
Modules == 1 .. 2

VARIABLES
  tool,           \* aider-local or aider-test
  hook,           \* where the program is; "call" is inside Runner.run, "cut" an
                  \* end in the middle of the finally clause
  refs,           \* what run_cmd means in each of the two modules
  onHost,         \* history: a command of aider ran on the host
  signals,
  entry,          \* the way into the process sandbox: the next step
  scope,          \* the limits of the systemd scope
  abi,            \* the kernel's Landlock version
  domain,         \* the ruleset, and whether the thread is restricted to it
  restricted

hookVars == <<tool, hook, refs, onHost, signals>>
guardVars == <<scope, abi, domain, restricted>>
entryVars == <<entry, guardVars>>
sessionVars == <<vars, hookVars, entryVars>>

Unlimited == [l \in Limits |-> "missing"]
NoDomain == [handled |-> {}, rules |-> [p \in {} |-> {}]]
EntrySteps == {"scope", "limits", "bwrap", "rlimits", "ruleset", "rules", "privs", "restrict",
               "exec", "refused"}

SessionTypeOK ==
  /\ tool \in {"aider-local", "aider-test"}
  /\ hook \in {"start", "patch", "aider", "call", "restore", "exit", "cut"}
  /\ refs \in [Modules -> {"host", "runner"}]
  /\ onHost \in BOOLEAN /\ signals \in 0 .. MaxSignals
  /\ entry \in EntrySteps
  /\ scope \in [Limits -> {"missing", "loose", "held"}]
  /\ abi \in Abis \union {0} /\ restricted \in BOOLEAN
  /\ domain.handled \subseteq Rights
  /\ \A p \in DOMAIN domain.rules : domain.rules[p] \subseteq Rights

SessionInit ==
  /\ Init
  /\ tool \in {"aider-local", "aider-test"} /\ hook = "start"
  /\ refs = [m \in Modules |-> "host"] /\ onHost = FALSE /\ signals = 0
  /\ entry = "scope" /\ scope = Unlimited
  /\ abi = 0 /\ domain = NoDomain /\ restricted = FALSE
-----------------------------------------------------------------------------
(* The program and its hook. *)

Goto(h) == hook' = h /\ UNCHANGED <<vars, entryVars, tool>>

(* Parsing of the arguments, the timeout and, in aider-local, the version  *)
(* of aider and the policy file: each may end the program.                 *)
Start ==
  /\ hook = "start"
  /\ \/ Goto(IF tool = "aider-test" THEN "call" ELSE "patch")
     \/ Goto("exit")
  /\ UNCHANGED <<refs, onHost, signals>>

Replaced == {m \in Modules : refs[m] = "runner"}
Unreplaced == Modules \ Replaced
First(S) == CHOOSE m \in S : \A n \in S : m <= n

\* Mutant: only the reference of /test and /run is replaced.
PatchFirst ==
  /\ hook = "patch"
  /\ refs' = [refs EXCEPT ![First(Unreplaced)] = "runner"]
  /\ Goto("aider")
  /\ UNCHANGED <<onHost, signals>>

(* isolated_commands replaces the references before aider starts ...       *)
Patch ==
  /\ hook = "patch"
  /\ \/ /\ Unreplaced # {}
        /\ refs' = [refs EXCEPT ![First(Unreplaced)] = "runner"]
        /\ Goto("patch")
     \/ Unreplaced = {} /\ Goto("aider") /\ UNCHANGED refs
  /\ UNCHANGED <<onHost, signals>>

(* aider runs a command by one of them.  The Runner keeps nothing from one  *)
(* call to the next, and one call is followed.                             *)
RunCmd(m) ==
  /\ hook = "aider"
  /\ \/ refs[m] = "runner" /\ pc = "validate" /\ Goto("call") /\ UNCHANGED onHost
     \/ refs[m] = "host" /\ onHost' = TRUE /\ Goto("aider")
  /\ UNCHANGED <<refs, signals>>

(* The call gives its answer back, or its interrupt; aider may go on after *)
(* an interrupt.                                                           *)
Return ==
  /\ hook = "call"
  /\ pc = "done"
  /\ IF tool = "aider-test" THEN Goto("exit")
     ELSE Goto("aider") \/ (answer = "interrupt" /\ Goto("restore"))
  /\ UNCHANGED <<refs, onHost, signals>>

(* aider returns or raises. *)
AiderEnds ==
  /\ hook = "aider"
  /\ Goto("restore")
  /\ UNCHANGED <<refs, onHost, signals>>

(* ... and puts them back in its finally clause.                           *)
Restore ==
  /\ hook = "restore"
  /\ \/ /\ Replaced # {}
        /\ refs' = [refs EXCEPT ![First(Replaced)] = "host"]
        /\ Goto("restore")
     \/ Replaced = {} /\ Goto("exit") /\ UNCHANGED refs
  /\ UNCHANGED <<onHost, signals>>

\* Mutant: the try begins after the references are replaced.
SignalBeforeTry ==
  /\ hook \in {"patch", "restore"}
  /\ signals < MaxSignals
  /\ signals' = signals + 1
  /\ Goto(IF hook = "patch" THEN "exit" ELSE "cut")
  /\ UNCHANGED <<refs, onHost>>

(* Ctrl-C outside of the call: while the references are being replaced it  *)
(* leads to the finally clause, and in that clause it ends the loop.       *)
Signal ==
  /\ hook \in {"patch", "restore"}
  /\ signals < MaxSignals
  /\ signals' = signals + 1
  /\ Goto(IF hook = "patch" THEN "restore" ELSE "cut")
  /\ UNCHANGED <<refs, onHost>>

Program ==
  Start \/ Patch \/ (\E m \in Modules : RunCmd(m)) \/ Return \/ AiderEnds \/ Restore
-----------------------------------------------------------------------------
(* The way into the process sandbox.  Whatever fails on it ends the client *)
(* before the command starts.                                              *)

At(step, next) ==
  /\ backend = "process-sandbox" /\ client = "running"
  /\ entry = step
  /\ entry' = next
  /\ UNCHANGED <<vars, hookVars>>

Refuse ==
  /\ \E step \in EntrySteps \ {"exec", "refused"} : At(step, "refused")
  /\ UNCHANGED guardVars

(* systemd-run: controllers that were not delegated to the user limit      *)
(* nothing, and their files may be missing.                                *)
EnterScope ==
  /\ At("scope", "limits")
  /\ scope' \in Scopes
  /\ UNCHANGED <<abi, domain, restricted>>

(* verify_limits reads what the scope really enforces. *)
Verified == \A l \in Limits : scope[l] = "held"

VerifyLimits ==
  /\ At("limits", IF Verified THEN "bwrap" ELSE "refused")
  /\ UNCHANGED guardVars

Bubblewrap ==
  /\ At("bwrap", "rlimits")
  /\ ready[backend]
  /\ UNCHANGED guardVars

ApplyRlimits ==
  /\ At("rlimits", "ruleset")
  /\ UNCHANGED guardVars

(* abi and create_ruleset.  Without Landlock the guard warns and goes on;  *)
(* the kernel refuses a ruleset with a right it does not know.             *)
CreateRuleset ==
  /\ \E a \in Abis :
       /\ abi' = a
       /\ domain' = [handled |-> IF a = 0 THEN {} ELSE CapForAbi(a), rules |-> NoDomain.rules]
       /\ At("ruleset", IF a = 0 THEN "exec"
                        ELSE IF CapForAbi(a) \subseteq Known(a) THEN "rules" ELSE "refused")
  /\ UNCHANGED <<scope, restricted>>

AddRules ==
  /\ At("rules", "privs")
  /\ \E present \in Present :
       domain' = [domain EXCEPT !.rules = Rules("adapter", domain.handled, present)]
  /\ UNCHANGED <<scope, abi, restricted>>

SetNoNewPrivs ==
  /\ At("privs", "restrict")
  /\ UNCHANGED guardVars

\* Mutant: the result of landlock_restrict_self is not looked at.
RestrictSelfUnchecked ==
  /\ At("restrict", "exec")
  /\ restricted' \in BOOLEAN
  /\ UNCHANGED <<scope, abi, domain>>

RestrictSelf ==
  /\ At("restrict", "exec")
  /\ restricted' = TRUE
  /\ UNCHANGED <<scope, abi, domain>>

Entry ==
  \/ Refuse \/ EnterScope \/ VerifyLimits \/ Bubblewrap \/ ApplyRlimits \/ CreateRuleset
  \/ AddRules \/ SetNoNewPrivs \/ RestrictSelf
-----------------------------------------------------------------------------
(* The steps of Runner in a session. *)

CallStep == hook = "call" /\ Call /\ UNCHANGED <<hookVars, entryVars>>
InterruptStep == hook = "call" /\ Interrupt /\ UNCHANGED <<hookVars, entryVars>>

\* Mutant: a guard that fails warns and goes on, as it does without Landlock.
CommandStartsAnyway ==
  /\ SandboxStarts
  /\ backend = "process-sandbox" => entry \in {"exec", "refused"}
  /\ UNCHANGED <<hookVars, entryVars>>

(* In the process sandbox the command is what landlock_guard.py execs. *)
CommandStarts ==
  /\ SandboxStarts
  /\ backend = "process-sandbox" => entry = "exec"
  /\ UNCHANGED <<hookVars, entryVars>>

OutsideStep ==
  /\ SandboxEnds \/ ClientExits \/ \E b \in Backends : Flip(b)
  /\ UNCHANGED <<hookVars, entryVars>>

SessionNext ==
  Program \/ Signal \/ Entry \/ CallStep \/ InterruptStep \/ CommandStarts \/ OutsideStep

(* The call takes its steps, and what called it goes on. *)
SessionSpec ==
  SessionInit /\ [][SessionNext]_sessionVars /\ WF_sessionVars(CallStep) /\ WF_sessionVars(Return)
-----------------------------------------------------------------------------
(* Properties. *)

(* No command of aider runs on the host by whichever of the two run_cmd,   *)
(* and whenever it asks, also after an interrupt of an earlier one.  Lint  *)
(* hooks, which main turns off and the user may turn on, use neither.      *)
NeverOnHost == ~onHost

(* A program that ends has put both references back, whatever ended aider  *)
(* and whenever Ctrl-C came, also between the replacing of the one and of  *)
(* the other.  Only a Ctrl-C inside of the finally clause that puts them   *)
(* back (cli.py:53-55) makes an end without that: it is called "cut".      *)
HookIsUndone == hook = "exit" => Replaced = {}

Paths == SystemPaths \union {"/work", "/tmp", "/sandbox", "/home", "/src", "/run"}

(* A command that runs in the process sandbox runs behind limits that were *)
(* read back from the kernel and, where there is Landlock, is restricted   *)
(* to the paths and rights that the guard documents, whichever of the      *)
(* setup's steps failed on the way (runbook.md:115-118).                   *)
ConfinedAsDocumented ==
  ran = {"process-sandbox"} =>
    /\ \A l \in Limits : scope[l] = "held"
    /\ abi > 0 => restricted /\ AsDocumented(domain, "adapter", abi, Paths)

(* A setup that was refused never looks like a success; that it may look   *)
(* like a failing command, unless the Runner itself saw the error, is what *)
(* the runbook says at line 229.                                           *)
RefusedIsNoSuccess ==
  entry = "refused" => ran = {} /\ answer # "success"

(* A command that aider asks for is answered.                              *)
CallsAreAnswered == hook = "call" ~> hook # "call"
-----------------------------------------------------------------------------
(* The inductive invariant of a session, next to that of the call. *)

(* aider only runs with both references replaced, and aider-test without.  *)
HookInv ==
  /\ ~onHost
  /\ hook = "start" \/ tool = "aider-test" => Replaced = {}
  /\ hook \in {"aider", "call"} /\ tool = "aider-local" => Replaced = Modules
  /\ hook \in {"patch", "aider", "restore"} => tool = "aider-local"
  /\ hook = "exit" => Replaced = {}

(* What the steps of the way in have established.                          *)
EntryInv ==
  /\ entry # "scope" => backend = "process-sandbox"
  /\ ran = {"process-sandbox"} => entry = "exec"
  /\ entry \in EntrySteps \ {"scope", "limits", "refused"} => \A l \in Limits : scope[l] = "held"
  /\ entry \in {"rules", "privs", "restrict"} => abi > 0
  /\ entry = "rules" => domain = [handled |-> CapForAbi(abi), rules |-> NoDomain.rules]
  /\ entry \in {"privs", "restrict"} \/ (entry = "exec" /\ abi > 0) =>
       \E present \in Present : domain = Domain("adapter", abi, present)
  /\ entry = "exec" /\ abi > 0 => restricted

(* The inductive invariant of LocalSession.                                *)
SInv == SessionTypeOK /\ HookInv /\ EntryInv
=============================================================================
