------------------------------ MODULE MCHostVms ------------------------------
(* HostVms for TLC: a template with two disks of one directory. *)
EXTENDS HostVms, TLC

CONSTANTS T, n1, n2

TwoDisks == <<[dir |-> "images", base |-> T, ext |-> "qcow2"],
              [dir |-> "images", base |-> T, ext |-> "img"]>>

Symmetry == Permutations(Names) \cup Permutations(Tasks)
=============================================================================
