--------------------------- MODULE MCLocalSession ---------------------------
(* LocalSession for TLC: two sessions on a pool of three threads. *)
EXTENDS LocalSession

CONSTANTS s1, s2

MCSessions == {s1, s2}
=============================================================================
