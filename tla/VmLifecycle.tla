----------------------------- MODULE VmLifecycle -----------------------------
(***************************************************************************)
(* What the pool promises about a dynamic VM: it is created, perhaps waits *)
(* warm, serves, and is never used again.  Several VMs may retire at once  *)
(* (a crash of the broker).                                                *)
(***************************************************************************)
CONSTANT Clones

VARIABLE stage

Stages == {"unborn", "building", "warm", "assigned", "retired"}

After(x) ==
  CASE x = "unborn"   -> {"unborn", "building"}
    [] x = "building" -> {"building", "warm", "assigned", "retired"}
    [] x = "warm"     -> {"warm", "assigned", "retired"}
    [] x = "assigned" -> {"assigned", "retired"}
    [] x = "retired"  -> {"retired"}

Init == stage = [c \in Clones |-> "unborn"]

Next == /\ stage' \in [Clones -> Stages]
        /\ \A c \in Clones : stage'[c] \in After(stage[c])

Spec == Init /\ [][Next]_stage
====
