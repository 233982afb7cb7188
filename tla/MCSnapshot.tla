------------------------------ MODULE MCSnapshot ------------------------------
(***************************************************************************)
(* Snapshot on a project with a file-like entry f, an excluded entry s and *)
(* a directory d that holds x.                                             *)
(***************************************************************************)
EXTENDS Snapshot

CONSTANTS root, f, s, d, x

MCParent == [e \in {f, s, d, x} |-> IF e = x THEN d ELSE root]
=============================================================================
