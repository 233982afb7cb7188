---------------------------- MODULE MCLocalSession ----------------------------
(***************************************************************************)
(* LocalSession on the three backends, every pin, directive and initial    *)
(* readiness, and on kernels from before Landlock to after its last        *)
(* relevant change.                                                        *)
(***************************************************************************)
EXTENDS LocalSession

\* At most one limit is not enforced.
MCScopes == {s \in [Limits -> {"missing", "loose", "held"}] :
               Cardinality({l \in Limits : s[l] # "held"}) <= 1}
AllPaths == ReadOnlyPaths["adapter"] \union ReadWritePaths
MCPresent == {AllPaths, AllPaths \ {"/lib64"}}
=============================================================================
