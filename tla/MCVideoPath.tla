---------------------------- MODULE MCVideoPath ----------------------------
(* VideoPath for TLC: the sessions are model values of the configuration. *)
EXTENDS VideoPath
=============================================================================
