------------------------------- MODULE Landlock -------------------------------
(***************************************************************************)
(* The file system rules of the two landlock_guard.py: the one that the    *)
(* demo runs in its process sandbox and the one of aider_local, which is   *)
(* adapted from it.  A domain is what a thread restricts itself to:        *)
(* the rights it handles and the rules that give some of them back.        *)
(***************************************************************************)
EXTENDS Naturals

Guards == {"adapter", "demo"}

\* ACCESS_FS
Reading == {"execute", "read_file", "read_dir"}
Making == {"make_char", "make_dir", "make_reg", "make_sock", "make_fifo", "make_block", "make_sym"}
Rights == Reading \union Making
            \union {"write_file", "remove_dir", "remove_file", "refer", "truncate"}

(* cap_for_abi: a ruleset with rights that the kernel does not know is     *)
(* refused as a whole.                                                     *)
CapForAbi(a) ==
  Rights \ ((IF a < 2 THEN {"refer"} ELSE {}) \union (IF a < 3 THEN {"truncate"} ELSE {}))

SystemPaths == {"/usr", "/bin", "/lib", "/lib64", "/etc", "/dev", "/proc"}
ReadOnlyPaths == [g \in Guards |->
                    SystemPaths \union IF g = "demo" THEN {"/input", "/src"} ELSE {"/sandbox"}]
ReadWritePaths == {"/tmp", "/work"}

\* Mutant: what is below /etc gets the rights of a workspace.
GrantedWithEtc(g, path, handled) ==
  IF path \in ReadWritePaths \union {"/etc"} THEN handled
  ELSE IF path \in ReadOnlyPaths[g] THEN Reading \intersect handled ELSE {}

(* The rules of enforce, as a function of the path. *)
Granted(g, path, handled) ==
  IF path \in ReadWritePaths THEN handled
  ELSE IF path \in ReadOnlyPaths[g] THEN Reading \intersect handled ELSE {}

(* A path that does not exist gets no rule. *)
Rules(g, handled, present) ==
  [p \in present \intersect (ReadOnlyPaths[g] \union ReadWritePaths) |-> Granted(g, p, handled)]

Domain(g, a, present) ==
  [handled |-> CapForAbi(a), rules |-> Rules(g, CapForAbi(a), present)]
-----------------------------------------------------------------------------
(* The kernel: when it learnt a right, and what a domain permits beneath a *)
(* path.  A right that is not handled is not restricted, except that the   *)
(* first version never let a file be linked or renamed across directories. *)

\* What no guard handles, as it came after truncate.
Later == {"ioctl_dev"}

Since == [r \in Rights \union Later |->
            CASE r = "refer" -> 2 [] r = "truncate" -> 3 [] r = "ioctl_dev" -> 5 [] OTHER -> 1]
Known(a) == {r \in Rights \union Later : Since[r] <= a}

Permits(domain, path, r) ==
  IF r \in domain.handled
  THEN path \in DOMAIN domain.rules /\ r \in domain.rules[path]
  ELSE r # "refer"

(* What the head of landlock_guard.py says of any of some paths: read and  *)
(* write, only read, or nothing, for each right that the guard handles and *)
(* the kernel knows; and that /work and /tmp, where they exist, can be     *)
(* worked in.  Of a right that came later the guard takes nothing away.    *)
AsDocumented(domain, g, a, paths) ==
  \A path \in paths, r \in Known(a) :
    /\ Permits(domain, path, r) =>
         \/ path \in {"/work", "/tmp"}
         \/ path \in ReadOnlyPaths[g] /\ r \in Reading
         \/ r \in Later
    /\ path \in {"/work", "/tmp"} \intersect DOMAIN domain.rules => Permits(domain, path, r)
=============================================================================
