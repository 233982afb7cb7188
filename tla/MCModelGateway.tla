---------------------------- MODULE MCModelGateway ----------------------------
(***************************************************************************)
(* ModelGateway with two connections of two requests, in both deployments. *)
(***************************************************************************)
EXTENDS ModelGateway
=============================================================================
