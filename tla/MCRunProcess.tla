----------------------------- MODULE MCRunProcess -----------------------------
(***************************************************************************)
(* RunProcess on a small instance: a child and two descendants, a pipe of  *)
(* two units read in chunks of two against an output limit of three, so    *)
(* that a read can stop below, at and above the limit.  The descendants    *)
(* are interchangeable, but Finishes is a liveness property, for which     *)
(* symmetry is not sound.                                                  *)
(***************************************************************************)
EXTENDS RunProcess

CONSTANTS child, d1, d2
=============================================================================
