----------------------------- MODULE ProcessCall -----------------------------
(***************************************************************************)
(* What a caller of run_process (aider_local/runner.py) may rely on.  A    *)
(* call launches one child in a process group of its own and ends in one   *)
(* of two ways.  Either it completes: the child is gone, nobody can write  *)
(* to its output any more and every byte written has been collected; or it *)
(* aborts: first no process of the group can run any more, and only then   *)
(* does the call raise.  Nothing is promised about processes that left the *)
(* group, and nothing about the group after a call that completed.         *)
(***************************************************************************)
EXTENDS Naturals

CONSTANTS
  Procs,      \* the child and every process it may come to have below it
  Child,      \* the process run_process launches
  PipeSize    \* how many units of output the pipe holds

VARIABLES
  call,       \* where the call is
  live,       \* the processes of the child's group that can still run
  writers,    \* the processes that hold the write end of the pipe
  unread      \* units of output written and not collected

callVars == <<call, live, writers, unread>>

TypeOK ==
  /\ call \in {"starting", "active", "aborting", "completed", "raised", "refused"}
  /\ live \subseteq Procs
  /\ writers \subseteq Procs
  /\ unread \in 0 .. PipeSize

Init ==
  /\ call = "starting"
  /\ live = {}
  /\ writers = {}
  /\ unread = 0

(* Popen succeeds, or raises before there is a child. *)
Launch ==
  /\ call = "starting"
  /\ call' = "active"
  /\ live' = {Child}
  /\ writers' = {Child}
  /\ UNCHANGED unread

Refuse ==
  /\ call = "starting"
  /\ call' = "refused"
  /\ UNCHANGED <<live, writers, unread>>

(* The group forks, exits, writes and closes as it likes, and the caller   *)
(* collects; but only a live process forks, and only a writer makes        *)
(* another writer or adds to what is unread.                               *)
Work ==
  /\ call' = call
  /\ live' \in SUBSET Procs
  /\ writers' \in SUBSET Procs
  /\ unread' \in 0 .. PipeSize
  /\ live = {} => live' = {}
  /\ Child \notin live => Child \notin live'
  /\ writers = {} => writers' = {} /\ unread' <= unread

Complete ==
  /\ call = "active"
  /\ Child \notin live
  /\ writers = {}
  /\ unread = 0
  /\ call' = "completed"
  /\ UNCHANGED <<live, writers, unread>>

Abort ==
  /\ call = "active"
  /\ call' = "aborting"
  /\ live' = {}
  /\ UNCHANGED <<writers, unread>>

Raise ==
  /\ call = "aborting"
  /\ call' = "raised"
  /\ UNCHANGED <<live, writers, unread>>

Next == Launch \/ Refuse \/ Work \/ Complete \/ Abort \/ Raise

Spec == Init /\ [][Next]_callVars
=============================================================================
