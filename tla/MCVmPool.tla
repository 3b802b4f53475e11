------------------------------ MODULE MCVmPool ------------------------------
(* Instances of VmPool for TLC. *)
EXTENDS VmPool, TLC

CONSTANT u1

(* Every session belongs to one user. *)
OneUser == [s \in Sessions |-> u1]

(* Clones and session ids are interchangeable: no action tells them apart. *)
Symmetry == Permutations(Clones) \cup Permutations(Sessions)
====
