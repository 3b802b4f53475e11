-------------------------- MODULE MCClientSession --------------------------
(* ClientSession for TLC. *)
EXTENDS ClientSession
=============================================================================
