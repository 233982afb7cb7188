----------------------------- MODULE MCPortForward -----------------------------
(* One forwarded connection with ends that send, end and leave as they like. *)
EXTENDS PortForward
=============================================================================
