---------------------------- MODULE MCVsockRouter ----------------------------
(* Instances of VsockRouter for TLC. *)
EXTENDS VsockRouter, Integers

CONSTANTS s1, s2, a1, a2, a3

(* Both VMs have the same CID, one after the other. *)
SameCid == [s \in Sessions |-> 10]

(* a3 is the connection of s2's agent; the others, of s1's. *)
AgentOf == [a \in Conns |-> IF a = a3 THEN s2 ELSE s1]
====
