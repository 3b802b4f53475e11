--------------------------- MODULE VmPool_proofs ---------------------------
(***************************************************************************)
(* Proofs about VmPool, for every set of VMs, sessions and CIDs, every     *)
(* quota and any number of failing calls and crashes.                      *)
(***************************************************************************)
EXTENDS VmPool, FiniteSetTheorems, TLAPS

-----------------------------------------------------------------------------
(* The inductive invariant.                                                *)

(* An Assigned entry, and an expired one, names its session. *)
HeldOK ==
  /\ \A v \in Vms : state[v] = "assigned" => holder[v] \in Sessions
  /\ \A v \in old : holder[v] \in Sessions

(* Available and Unhealthy are states of static VMs only. *)
CloneStates == \A c \in Clones : state[c] \in {"absent", "warm", "assigned"}

(* assign and the static branch of release work on static VMs. *)
StaticPicks ==
  /\ \A t \in Tasks : pc[t] = "grab" => pick[t] \in StaticVms
  /\ epc = "static" => ecur \in StaticVms

(* A task holds a CID from its allocation to the insertion or the release. *)
CidHeldWhileBuilding ==
  \A t \in Tasks :
    tcid[t] # NoCid <=> pc[t] \in {"clone", "start", "undo", "freeCid", "insert"}

(* The pool and its collectors know nothing of the VM. *)
Untouched(c) ==
  /\ state[c] = "absent" /\ c \notin old
  /\ c \notin stale /\ scur # c
  /\ ecur # c /\ \A s \in Sessions : <<c, s>> \notin queue

(* A name that clone_vm has not given yet is not in the broker's memory. *)
FreshNames ==
  \A c \in Clones : dom[c] = "none" =>
    Untouched(c) /\ \A t \in Tasks : pick[t] # c

(* A clone being provisioned is known to its task only. *)
BuildingPrivate ==
  \A t \in Tasks : pc[t] \in {"start", "undo", "insert"} =>
    /\ pick[t] \in Clones /\ dom[pick[t]] # "none"
    /\ Untouched(pick[t])
    /\ \A u \in Tasks : u # t => pick[u] # pick[t]

(* Together: inductive, and enough for the invariants below. *)
IInv == /\ TypeOK /\ HeldOK /\ CloneStates /\ StaticPicks /\ CidHeldWhileBuilding
        /\ FreshNames /\ BuildingPrivate

-----------------------------------------------------------------------------
(* Type correctness and the inductive invariant.                           *)

(* A booting broker (VmPool::build) has a well-typed state. *)
LEMMA TypeInit == Init => TypeOK /\ HeldOK
<1> SUFFICES ASSUME Init PROVE TypeOK /\ HeldOK
  OBVIOUS
<1> USE DEF Init
<1>1. state \in [Vms -> {"absent", "available", "warm", "assigned", "unhealthy"}]
  BY DEF FreshEntries
<1>2. pc \in [Tasks -> SessionPc \cup ReplenishPc]
  BY DEF SessionPc, ReplenishPc
<1>3. faults \in 0 .. MaxFaults /\ restarts \in 0 .. MaxRestarts
  BY PoolAssumption
<1>4. spc \in [Sweepers -> SweepPc] /\ epc \in ExpiryPc
  BY DEF SweepPc, ExpiryPc
<1>5. HeldOK
  BY DEF HeldOK, FreshEntries
<1>6. /\ holder \in [Vms -> Sessions \cup {NoSession}] /\ cidOf \in [Clones -> Cids \cup {NoCid}]
      /\ dom \in [Clones -> {"none", "live", "gone"}] /\ cand \in [Clones -> {"none", "fresh", "ripe"}]
  OBVIOUS
<1>7. pick \in [Tasks -> Vms \cup {NoVm}] /\ tcid \in [Tasks -> Cids \cup {NoCid}]
  OBVIOUS
<1>8. listed \in [Sweepers -> SUBSET Clones] /\ victims \in [Sweepers -> SUBSET Clones]
  OBVIOUS
<1>9. /\ old \in SUBSET Vms /\ used \in SUBSET Cids /\ doubleFree \in BOOLEAN
      /\ stale \in SUBSET Clones /\ scur \in Clones \cup {NoVm} /\ ecur \in Vms \cup {NoVm}
      /\ queue \in SUBSET (Vms \X Sessions)
  OBVIOUS
<1>10. QED
  BY <1>1, <1>2, <1>3, <1>4, <1>5, <1>6, <1>7, <1>8, <1>9, Zenon DEF TypeOK

(* No step of a session, of the replenisher, of a collector or of the clock    *)
(* leaves the types; HeldOK types the (VM, session) pairs gc_expired_sessions  *)
(* collects.                                                                   *)
LEMMA TypeStep ==
  ASSUME TypeOK, HeldOK, [Next]_vars
  PROVE  TypeOK' /\ HeldOK'
<1> DEFINE Typed == TypeOK' /\ HeldOK'
<1> USE PoolAssumption
   DEF TypeOK, HeldOK, Vms, Tasks, Sweepers, SessionPc, ReplenishPc, SweepPc,
       ExpiryPc, Goto, Fault, DeleteVm, AssignTo, RemoveEntry, ReleaseCidOf,
       AtStale, AtExpiry, GivenUp, entryVars, cidVars, hostVars, taskVars,
       sweepVars, staleVars, expiryVars
<1>1. ASSUME NEW s \in Sessions, FindAvailable(s) PROVE Typed
  BY <1>1 DEF FindAvailable
<1>2. ASSUME NEW s \in Sessions, GrabStatic(s) PROVE Typed
  BY <1>2 DEF GrabStatic
<1>3. ASSUME NEW s \in Sessions, CheckQuota(s) PROVE Typed
  BY <1>3 DEF CheckQuota
<1>4. ASSUME NEW s \in Sessions, FindWarm(s) PROVE Typed
  BY <1>4 DEF FindWarm, Warm
<1>5. ASSUME NEW s \in Sessions, GrabWarm(s) PROVE Typed
  BY <1>5 DEF GrabWarm, Pooled
<1>6. ASSUME NEW s \in Sessions, ClientLeaves(s) PROVE Typed
  BY <1>6 DEF ClientLeaves
<1>7. ASSUME NEW t \in Tasks, AllocCid(t) PROVE Typed
  BY <1>7 DEF AllocCid, FreeCids
<1>8. ASSUME NEW t \in Tasks, CloneVm(t) PROVE Typed
  BY <1>8 DEF CloneVm
<1>9. ASSUME NEW t \in Tasks, StartVm(t) PROVE Typed
  BY <1>9 DEF StartVm
<1>10. ASSUME NEW t \in Tasks, UndoClone(t) PROVE Typed
  BY <1>10 DEF UndoClone
<1>11. ASSUME NEW t \in Tasks, FreeCid(t) PROVE Typed
  BY <1>11 DEF FreeCid
<1>12. ASSUME NEW t \in Tasks, Insert(t) PROVE Typed
  <2>1. CASE t = Replenisher
    <3>1. HeldOK' /\ state' \in [Vms -> {"absent", "available", "warm", "assigned", "unhealthy"}]
      BY <1>12, <2>1 DEF Insert
    <3>2. cidOf' \in [Clones -> Cids \cup {NoCid}] /\ tcid' \in [Tasks -> Cids \cup {NoCid}]
      BY <1>12 DEF Insert
    <3>3. pc' \in [Tasks -> SessionPc \cup ReplenishPc] /\ pick' \in [Tasks -> Vms \cup {NoVm}]
      BY <1>12, <2>1 DEF Insert
    <3>4. QED
      BY <1>12, <2>1, <3>1, <3>2, <3>3 DEF Insert
  <2>2. CASE t # Replenisher
    <3>1. t \in Sessions
      BY <2>2
    <3>2. HeldOK'
      BY <1>12, <2>2, <3>1 DEF Insert
    <3>3. cidOf' \in [Clones -> Cids \cup {NoCid}] /\ tcid' \in [Tasks -> Cids \cup {NoCid}]
      BY <1>12 DEF Insert
    <3>4. QED
      BY <1>12, <2>2, <3>1, <3>2, <3>3 DEF Insert
  <2>3. QED
    BY <2>1, <2>2
<1>13. ASSUME ReplenishCheck PROVE Typed
  BY <1>13 DEF ReplenishCheck
<1>14. ASSUME NEW p \in Sweepers, SweepList(p) PROVE Typed
  BY <1>14 DEF SweepList, Live
<1>15. ASSUME NEW p \in Sweepers, SweepDecide(p) PROVE Typed
  BY <1>15 DEF SweepDecide
<1>16. ASSUME NEW p \in Sweepers, NEW c \in Clones, SweepDestroy(p, c) PROVE Typed
  BY <1>16 DEF SweepDestroy
<1>17. ASSUME NEW p \in Sweepers, SweepEnd(p) PROVE Typed
  BY <1>17 DEF SweepEnd
<1>18. ASSUME StaleList PROVE Typed
  BY <1>18 DEF StaleList, Live
<1>19. ASSUME StaleDecide PROVE Typed
  BY <1>19 DEF StaleDecide, Pooled
<1>20. ASSUME NEW c \in Clones, StaleFreeCid(c) PROVE Typed
  BY <1>20 DEF StaleFreeCid
<1>21. ASSUME StaleRemove PROVE Typed
  BY <1>21 DEF StaleRemove
<1>22. ASSUME StaleEnd PROVE Typed
  BY <1>22 DEF StaleEnd
<1>23. ASSUME ExpireCollect PROVE Typed
  BY <1>23 DEF ExpireCollect
<1>24. ASSUME NEW v \in Vms, NEW s \in Sessions, ReleaseBegin(v, s) PROVE Typed
  BY <1>24 DEF ReleaseBegin
<1>25. ASSUME ReleaseStatic PROVE Typed
  BY <1>25 DEF ReleaseStatic
<1>26. ASSUME ReleaseDestroy PROVE Typed
  BY <1>26 DEF ReleaseDestroy
<1>27. ASSUME ReleaseFreeCid PROVE Typed
  BY <1>27 DEF ReleaseFreeCid
<1>28. ASSUME ReleaseRemove PROVE Typed
  BY <1>28 DEF ReleaseRemove
<1>29. ASSUME ExpireEnd PROVE Typed
  BY <1>29 DEF ExpireEnd
<1>30. ASSUME NEW v \in StaticVms, HealthVerdict(v) PROVE Typed
  BY <1>30 DEF HealthVerdict
<1>31. ASSUME NEW v \in Vms, Age(v) PROVE Typed
  BY <1>31 DEF Age
<1>32. ASSUME NEW c \in Clones, Ripen(c) PROVE Typed
  BY <1>32 DEF Ripen
<1>33. ASSUME Restart PROVE Typed
  <2>1. state' \in [Vms -> {"absent", "available", "warm", "assigned", "unhealthy"}] /\ HeldOK'
    BY <1>33 DEF Restart, FreshEntries
  <2>2. pc' \in [Tasks -> SessionPc \cup ReplenishPc] /\ pick' \in [Tasks -> Vms \cup {NoVm}]
    BY <1>33 DEF Restart
  <2>3. restarts' \in 0 .. MaxRestarts
    BY <1>33 DEF Restart
  <2>4. QED
    BY <1>33, <2>1, <2>2, <2>3 DEF Restart
<1>34. ASSUME UNCHANGED vars PROVE Typed
  BY <1>34 DEF vars
<1> HIDE DEF TypeOK, HeldOK, Typed
<1>35. Typed
  BY <1>1, <1>2, <1>3, <1>4, <1>5, <1>6, <1>7, <1>8, <1>9, <1>10, <1>11, <1>12,
     <1>13, <1>14, <1>15, <1>16, <1>17, <1>18, <1>19, <1>20, <1>21, <1>22,
     <1>23, <1>24, <1>25, <1>26, <1>27, <1>28, <1>29, <1>30, <1>31, <1>32,
     <1>33, <1>34
     DEF Next, SessionStep, ProvisionStep, SweepStep, StaleStep, ExpiryStep
<1>36. QED
  BY <1>35 DEF Typed

(* Every step keeps static VMs and clones apart, and a CID held exactly by the *)
(* tasks between allocate and insert or release.                               *)
LEMMA RolesStep ==
  ASSUME IInv, [Next]_vars
  PROVE  CloneStates' /\ StaticPicks' /\ CidHeldWhileBuilding'
<1> DEFINE Roles == CloneStates' /\ StaticPicks' /\ CidHeldWhileBuilding'
<1> USE PoolAssumption
   DEF IInv, TypeOK, CloneStates, StaticPicks, CidHeldWhileBuilding, Vms, Tasks,
       Goto, AssignTo, RemoveEntry, AtStale, AtExpiry, Warm, Pooled, entryVars,
       taskVars, expiryVars
<1>1. ASSUME NEW s \in Sessions, FindAvailable(s) PROVE Roles
  BY <1>1 DEF FindAvailable
<1>2. ASSUME NEW s \in Sessions, GrabStatic(s) PROVE Roles
  BY <1>2 DEF GrabStatic
<1>3. ASSUME NEW s \in Sessions, CheckQuota(s) PROVE Roles
  BY <1>3 DEF CheckQuota
<1>4. ASSUME NEW s \in Sessions, FindWarm(s) PROVE Roles
  BY <1>4 DEF FindWarm
<1>5. ASSUME NEW s \in Sessions, GrabWarm(s) PROVE Roles
  BY <1>5 DEF GrabWarm
<1>6. ASSUME NEW s \in Sessions, ClientLeaves(s) PROVE Roles
  BY <1>6 DEF ClientLeaves
<1>7. ASSUME NEW t \in Tasks, AllocCid(t) PROVE Roles
  BY <1>7 DEF AllocCid, GivenUp, FreeCids, Cids, NoCid
<1>8. ASSUME NEW t \in Tasks, CloneVm(t) PROVE Roles
  BY <1>8 DEF CloneVm
<1>9. ASSUME NEW t \in Tasks, StartVm(t) PROVE Roles
  BY <1>9 DEF StartVm
<1>10. ASSUME NEW t \in Tasks, UndoClone(t) PROVE Roles
  BY <1>10 DEF UndoClone
<1>11. ASSUME NEW t \in Tasks, FreeCid(t) PROVE Roles
  BY <1>11 DEF FreeCid, GivenUp
<1>12. ASSUME NEW t \in Tasks, Insert(t) PROVE Roles
  BY <1>12 DEF Insert, BuildingPrivate
<1>13. ASSUME ReplenishCheck PROVE Roles
  BY <1>13 DEF ReplenishCheck
<1>14. ASSUME NEW p \in Sweepers, SweepList(p) PROVE Roles
  BY <1>14 DEF SweepList
<1>15. ASSUME NEW p \in Sweepers, SweepDecide(p) PROVE Roles
  BY <1>15 DEF SweepDecide
<1>16. ASSUME NEW p \in Sweepers, NEW c \in Clones, SweepDestroy(p, c) PROVE Roles
  BY <1>16 DEF SweepDestroy
<1>17. ASSUME NEW p \in Sweepers, SweepEnd(p) PROVE Roles
  BY <1>17 DEF SweepEnd
<1>18. ASSUME StaleList PROVE Roles
  BY <1>18 DEF StaleList
<1>19. ASSUME StaleDecide PROVE Roles
  BY <1>19 DEF StaleDecide
<1>20. ASSUME NEW c \in Clones, StaleFreeCid(c) PROVE Roles
  BY <1>20 DEF StaleFreeCid
<1>21. ASSUME StaleRemove PROVE Roles
  BY <1>21 DEF StaleRemove
<1>22. ASSUME StaleEnd PROVE Roles
  BY <1>22 DEF StaleEnd
<1>23. ASSUME ExpireCollect PROVE Roles
  BY <1>23 DEF ExpireCollect
<1>24. ASSUME NEW v \in Vms, NEW s \in Sessions, ReleaseBegin(v, s) PROVE Roles
  BY <1>24 DEF ReleaseBegin
<1>25. ASSUME ReleaseStatic PROVE Roles
  BY <1>25 DEF ReleaseStatic
<1>26. ASSUME ReleaseDestroy PROVE Roles
  BY <1>26 DEF ReleaseDestroy
<1>27. ASSUME ReleaseFreeCid PROVE Roles
  BY <1>27 DEF ReleaseFreeCid
<1>28. ASSUME ReleaseRemove PROVE Roles
  BY <1>28 DEF ReleaseRemove
<1>29. ASSUME ExpireEnd PROVE Roles
  BY <1>29 DEF ExpireEnd
<1>30. ASSUME NEW v \in StaticVms, HealthVerdict(v) PROVE Roles
  BY <1>30 DEF HealthVerdict
<1>31. ASSUME NEW v \in Vms, Age(v) PROVE Roles
  BY <1>31 DEF Age
<1>32. ASSUME NEW c \in Clones, Ripen(c) PROVE Roles
  BY <1>32 DEF Ripen
<1>33. ASSUME Restart PROVE Roles
  BY <1>33 DEF Restart, FreshEntries
<1>34. ASSUME UNCHANGED vars PROVE Roles
  BY <1>34 DEF vars
<1>35. QED
  BY <1>1, <1>2, <1>3, <1>4, <1>5, <1>6, <1>7, <1>8, <1>9, <1>10, <1>11, <1>12,
     <1>13, <1>14, <1>15, <1>16, <1>17, <1>18, <1>19, <1>20, <1>21, <1>22,
     <1>23, <1>24, <1>25, <1>26, <1>27, <1>28, <1>29, <1>30, <1>31, <1>32,
     <1>33, <1>34
     DEF Next, SessionStep, ProvisionStep, SweepStep, StaleStep, ExpiryStep

(* Every step keeps a clone that has no entry yet out of reach of every other  *)
(* task: this is what lets clone_vm and vms.insert be separated by awaits.     *)
LEMMA NamesStep ==
  ASSUME IInv, [Next]_vars
  PROVE  FreshNames' /\ BuildingPrivate'
<1> DEFINE Names == FreshNames' /\ BuildingPrivate'
<1> USE PoolAssumption
   DEF IInv, TypeOK, HeldOK, StaticPicks, FreshNames, BuildingPrivate,
       Untouched, Vms, Tasks, Goto, DeleteVm, Live, AssignTo, RemoveEntry,
       AtStale, AtExpiry, Pooled, Warm, entryVars, hostVars, taskVars,
       sweepVars, staleVars, expiryVars
<1>1. ASSUME NEW s \in Sessions, FindAvailable(s) PROVE Names
  BY <1>1 DEF FindAvailable
<1>2. ASSUME NEW s \in Sessions, GrabStatic(s) PROVE Names
  BY <1>2 DEF GrabStatic
<1>3. ASSUME NEW s \in Sessions, CheckQuota(s) PROVE Names
  BY <1>3 DEF CheckQuota
<1>4. ASSUME NEW s \in Sessions, FindWarm(s) PROVE Names
  BY <1>4 DEF FindWarm
<1>5. ASSUME NEW s \in Sessions, GrabWarm(s) PROVE Names
  BY <1>5 DEF GrabWarm
<1>6. ASSUME NEW s \in Sessions, ClientLeaves(s) PROVE Names
  BY <1>6 DEF ClientLeaves
<1>7. ASSUME NEW t \in Tasks, AllocCid(t) PROVE Names
  BY <1>7 DEF AllocCid, GivenUp
<1>8. ASSUME NEW t \in Tasks, CloneVm(t) PROVE Names
  BY <1>8 DEF CloneVm
<1>9. ASSUME NEW t \in Tasks, StartVm(t) PROVE Names
  BY <1>9 DEF StartVm
<1>10. ASSUME NEW t \in Tasks, UndoClone(t) PROVE Names
  BY <1>10 DEF UndoClone
<1>11. ASSUME NEW t \in Tasks, FreeCid(t) PROVE Names
  BY <1>11 DEF FreeCid, GivenUp
<1>12. ASSUME NEW t \in Tasks, Insert(t) PROVE Names
  BY <1>12 DEF Insert
<1>13. ASSUME ReplenishCheck PROVE Names
  BY <1>13 DEF ReplenishCheck
<1>14. ASSUME NEW p \in Sweepers, SweepList(p) PROVE Names
  BY <1>14 DEF SweepList
<1>15. ASSUME NEW p \in Sweepers, SweepDecide(p) PROVE Names
  BY <1>15 DEF SweepDecide
<1>16. ASSUME NEW p \in Sweepers, NEW c \in Clones, SweepDestroy(p, c) PROVE Names
  BY <1>16 DEF SweepDestroy
<1>17. ASSUME NEW p \in Sweepers, SweepEnd(p) PROVE Names
  BY <1>17 DEF SweepEnd
<1>18. ASSUME StaleList PROVE Names
  BY <1>18 DEF StaleList
<1>19. ASSUME StaleDecide PROVE Names
  BY <1>19 DEF StaleDecide
<1>20. ASSUME NEW c \in Clones, StaleFreeCid(c) PROVE Names
  BY <1>20 DEF StaleFreeCid
<1>21. ASSUME StaleRemove PROVE Names
  BY <1>21 DEF StaleRemove
<1>22. ASSUME StaleEnd PROVE Names
  BY <1>22 DEF StaleEnd
<1>23. ASSUME ExpireCollect PROVE Names
  BY <1>23 DEF ExpireCollect
<1>24. ASSUME NEW v \in Vms, NEW s \in Sessions, ReleaseBegin(v, s) PROVE Names
  BY <1>24 DEF ReleaseBegin
<1>25. ASSUME ReleaseStatic PROVE Names
  BY <1>25 DEF ReleaseStatic
<1>26. ASSUME ReleaseDestroy PROVE Names
  BY <1>26 DEF ReleaseDestroy
<1>27. ASSUME ReleaseFreeCid PROVE Names
  BY <1>27 DEF ReleaseFreeCid
<1>28. ASSUME ReleaseRemove PROVE Names
  BY <1>28 DEF ReleaseRemove
<1>29. ASSUME ExpireEnd PROVE Names
  BY <1>29 DEF ExpireEnd
<1>30. ASSUME NEW v \in StaticVms, HealthVerdict(v) PROVE Names
  BY <1>30 DEF HealthVerdict
<1>31. ASSUME NEW v \in Vms, Age(v) PROVE Names
  BY <1>31 DEF Age
<1>32. ASSUME NEW c \in Clones, Ripen(c) PROVE Names
  BY <1>32 DEF Ripen
<1>33. ASSUME Restart PROVE Names
  BY <1>33 DEF Restart, FreshEntries
<1>34. ASSUME UNCHANGED vars PROVE Names
  BY <1>34 DEF vars
<1>35. QED
  BY <1>1, <1>2, <1>3, <1>4, <1>5, <1>6, <1>7, <1>8, <1>9, <1>10, <1>11, <1>12,
     <1>13, <1>14, <1>15, <1>16, <1>17, <1>18, <1>19, <1>20, <1>21, <1>22,
     <1>23, <1>24, <1>25, <1>26, <1>27, <1>28, <1>29, <1>30, <1>31, <1>32,
     <1>33, <1>34
     DEF Next, SessionStep, ProvisionStep, SweepStep, StaleStep, ExpiryStep

(* The invariant holds at boot. *)
LEMMA IInvInit == Init => IInv
BY TypeInit, PoolAssumption
   DEF Init, IInv, CloneStates, StaticPicks, CidHeldWhileBuilding, FreshNames,
       BuildingPrivate, Untouched, FreshEntries, Vms, Tasks

(* The invariant is inductive. *)
LEMMA IInvStep == IInv /\ [Next]_vars => IInv'
BY TypeStep, RolesStep, NamesStep DEF IInv

(* The inductive invariant holds in every reachable state of the pool. *)
THEOREM Invariance == Spec => []IInv
<1>1. QED
  BY IInvInit, IInvStep, PTL DEF Spec

(* Every variable of the pool stays in its type. *)
THEOREM TypeCorrect == Spec => []TypeOK
<1>1. IInv => TypeOK
  BY DEF IInv
<1>2. QED
  BY <1>1, Invariance, PTL

-----------------------------------------------------------------------------
(* The CID allocator.                                                      *)

(* No step leaves a used CID without an owner: a failed provisioning releases  *)
(* its own, and each collector releases the CID before it removes the entry.   *)
LEMMA LeakStep ==
  ASSUME IInv, NoCidLeak, [Next]_vars
  PROVE  NoCidLeak'
<1> USE PoolAssumption
   DEF NoCidLeak, OwnedCids, Doomed, DoomedByStale, DoomedByExpiry, IInv,
       TypeOK, Vms, Tasks, Sweepers, Goto, AssignTo, RemoveEntry, ReleaseCidOf,
       AtStale, AtExpiry, Pooled, entryVars, cidVars, taskVars, sweepVars,
       staleVars, expiryVars, CidHeldWhileBuilding
<1>1. ASSUME NEW s \in Sessions, FindAvailable(s) PROVE NoCidLeak'
  BY <1>1 DEF FindAvailable
<1>2. ASSUME NEW s \in Sessions, GrabStatic(s) PROVE NoCidLeak'
  BY <1>2 DEF GrabStatic
<1>3. ASSUME NEW s \in Sessions, CheckQuota(s) PROVE NoCidLeak'
  BY <1>3 DEF CheckQuota
<1>4. ASSUME NEW s \in Sessions, FindWarm(s) PROVE NoCidLeak'
  BY <1>4 DEF FindWarm
<1>5. ASSUME NEW s \in Sessions, GrabWarm(s) PROVE NoCidLeak'
  BY <1>5 DEF GrabWarm
<1>6. ASSUME NEW s \in Sessions, ClientLeaves(s) PROVE NoCidLeak'
  BY <1>6 DEF ClientLeaves
<1>7. ASSUME NEW t \in Tasks, AllocCid(t) PROVE NoCidLeak'
  <2>1. CASE UNCHANGED <<used, tcid>>
    BY <1>7, <2>1 DEF AllocCid
  <2>2. ASSUME NEW cid \in FreeCids, used' = used \cup {cid}, tcid' = [tcid EXCEPT ![t] = cid],
               pc[t] = "cold"
        PROVE  NoCidLeak'
    <3>1. tcid[t] = NoCid /\ cid # NoCid
      BY <2>2 DEF FreeCids, Cids, NoCid
    <3>2. \A u \in Tasks : tcid[u] # NoCid => tcid'[u] = tcid[u] /\ tcid'[u] # NoCid
      BY <2>2, <3>1
    <3>3. tcid'[t] = cid
      BY <2>2
    <3>4. UNCHANGED <<state, cidOf, spc, scur, epc, ecur>>
      BY <1>7 DEF AllocCid
    <3>5. QED
      BY <2>2, <3>1, <3>2, <3>3, <3>4
  <2>3. QED
    BY <1>7, <2>1, <2>2 DEF AllocCid
<1>8. ASSUME NEW t \in Tasks, CloneVm(t) PROVE NoCidLeak'
  BY <1>8 DEF CloneVm
<1>9. ASSUME NEW t \in Tasks, StartVm(t) PROVE NoCidLeak'
  BY <1>9 DEF StartVm
<1>10. ASSUME NEW t \in Tasks, UndoClone(t) PROVE NoCidLeak'
  BY <1>10 DEF UndoClone
<1>11. ASSUME NEW t \in Tasks, FreeCid(t) PROVE NoCidLeak'
  BY <1>11 DEF FreeCid
<1>12. ASSUME NEW t \in Tasks, Insert(t) PROVE NoCidLeak'
  BY <1>12 DEF Insert, BuildingPrivate, Untouched
<1>13. ASSUME ReplenishCheck PROVE NoCidLeak'
  BY <1>13 DEF ReplenishCheck
<1>14. ASSUME NEW p \in Sweepers, SweepList(p) PROVE NoCidLeak'
  BY <1>14 DEF SweepList
<1>15. ASSUME NEW p \in Sweepers, SweepDecide(p) PROVE NoCidLeak'
  BY <1>15 DEF SweepDecide
<1>16. ASSUME NEW p \in Sweepers, NEW c \in Clones, SweepDestroy(p, c) PROVE NoCidLeak'
  BY <1>16 DEF SweepDestroy
<1>17. ASSUME NEW p \in Sweepers, SweepEnd(p) PROVE NoCidLeak'
  BY <1>17 DEF SweepEnd
<1>18. ASSUME StaleList PROVE NoCidLeak'
  BY <1>18 DEF StaleList
<1>19. ASSUME StaleDecide PROVE NoCidLeak'
  BY <1>19 DEF StaleDecide
<1>20. ASSUME NEW c \in Clones, StaleFreeCid(c) PROVE NoCidLeak'
  BY <1>20 DEF StaleFreeCid
<1>21. ASSUME StaleRemove PROVE NoCidLeak'
  BY <1>21 DEF StaleRemove
<1>22. ASSUME StaleEnd PROVE NoCidLeak'
  BY <1>22 DEF StaleEnd
<1>23. ASSUME ExpireCollect PROVE NoCidLeak'
  BY <1>23 DEF ExpireCollect
<1>24. ASSUME NEW v \in Vms, NEW s \in Sessions, ReleaseBegin(v, s) PROVE NoCidLeak'
  BY <1>24 DEF ReleaseBegin
<1>25. ASSUME ReleaseStatic PROVE NoCidLeak'
  BY <1>25 DEF ReleaseStatic
<1>26. ASSUME ReleaseDestroy PROVE NoCidLeak'
  BY <1>26 DEF ReleaseDestroy
<1>27. ASSUME ReleaseFreeCid PROVE NoCidLeak'
  BY <1>27 DEF ReleaseFreeCid
<1>28. ASSUME ReleaseRemove PROVE NoCidLeak'
  BY <1>28 DEF ReleaseRemove
<1>29. ASSUME ExpireEnd PROVE NoCidLeak'
  BY <1>29 DEF ExpireEnd
<1>30. ASSUME NEW v \in StaticVms, HealthVerdict(v) PROVE NoCidLeak'
  BY <1>30 DEF HealthVerdict
<1>31. ASSUME NEW v \in Vms, Age(v) PROVE NoCidLeak'
  BY <1>31 DEF Age
<1>32. ASSUME NEW c \in Clones, Ripen(c) PROVE NoCidLeak'
  BY <1>32 DEF Ripen
<1>33. ASSUME Restart PROVE NoCidLeak'
  BY <1>33 DEF Restart
<1>34. ASSUME UNCHANGED vars PROVE NoCidLeak'
  BY <1>34 DEF vars
<1>35. QED
  BY <1>1, <1>2, <1>3, <1>4, <1>5, <1>6, <1>7, <1>8, <1>9, <1>10, <1>11, <1>12,
     <1>13, <1>14, <1>15, <1>16, <1>17, <1>18, <1>19, <1>20, <1>21, <1>22,
     <1>23, <1>24, <1>25, <1>26, <1>27, <1>28, <1>29, <1>30, <1>31, <1>32,
     <1>33, <1>34
     DEF Next, SessionStep, ProvisionStep, SweepStep, StaleStep, ExpiryStep

(* As long as no CID is released twice for one VM, no step gives a CID two     *)
(* owners, nor frees a CID in use.                                             *)
LEMMA ExclusiveStep ==
  ASSUME IInv, CidExclusive, [Next]_vars
  PROVE  CidExclusive'
<1> USE PoolAssumption
   DEF CidExclusive, EntryCidsTracked, TaskCidsTracked, Doomed, DoomedByStale,
       DoomedByExpiry, IInv, TypeOK, Vms, Tasks, Sweepers, Goto, AssignTo,
       RemoveEntry, ReleaseCidOf, AtStale, AtExpiry, Pooled, entryVars, cidVars,
       taskVars, sweepVars, staleVars, expiryVars, CidHeldWhileBuilding,
       StaticPicks
<1>1. ASSUME NEW s \in Sessions, FindAvailable(s) PROVE CidExclusive'
  BY <1>1 DEF FindAvailable
<1>2. ASSUME NEW s \in Sessions, GrabStatic(s) PROVE CidExclusive'
  BY <1>2 DEF GrabStatic
<1>3. ASSUME NEW s \in Sessions, CheckQuota(s) PROVE CidExclusive'
  BY <1>3 DEF CheckQuota
<1>4. ASSUME NEW s \in Sessions, FindWarm(s) PROVE CidExclusive'
  BY <1>4 DEF FindWarm
<1>5. ASSUME NEW s \in Sessions, GrabWarm(s) PROVE CidExclusive'
  BY <1>5 DEF GrabWarm
<1>6. ASSUME NEW s \in Sessions, ClientLeaves(s) PROVE CidExclusive'
  BY <1>6 DEF ClientLeaves
<1>7. ASSUME NEW t \in Tasks, AllocCid(t) PROVE CidExclusive'
  BY <1>7 DEF AllocCid, FreeCids
<1>8. ASSUME NEW t \in Tasks, CloneVm(t) PROVE CidExclusive'
  BY <1>8 DEF CloneVm
<1>9. ASSUME NEW t \in Tasks, StartVm(t) PROVE CidExclusive'
  BY <1>9 DEF StartVm
<1>10. ASSUME NEW t \in Tasks, UndoClone(t) PROVE CidExclusive'
  BY <1>10 DEF UndoClone
<1>11. ASSUME NEW t \in Tasks, FreeCid(t) PROVE CidExclusive'
  BY <1>11 DEF FreeCid
<1>12. ASSUME NEW t \in Tasks, Insert(t) PROVE CidExclusive'
  BY <1>12 DEF Insert, BuildingPrivate, Untouched
<1>13. ASSUME ReplenishCheck PROVE CidExclusive'
  BY <1>13 DEF ReplenishCheck
<1>14. ASSUME NEW p \in Sweepers, SweepList(p) PROVE CidExclusive'
  BY <1>14 DEF SweepList
<1>15. ASSUME NEW p \in Sweepers, SweepDecide(p) PROVE CidExclusive'
  BY <1>15 DEF SweepDecide
<1>16. ASSUME NEW p \in Sweepers, NEW c \in Clones, SweepDestroy(p, c) PROVE CidExclusive'
  BY <1>16 DEF SweepDestroy
<1>17. ASSUME NEW p \in Sweepers, SweepEnd(p) PROVE CidExclusive'
  BY <1>17 DEF SweepEnd
<1>18. ASSUME StaleList PROVE CidExclusive'
  BY <1>18 DEF StaleList
<1>19. ASSUME StaleDecide PROVE CidExclusive'
  BY <1>19 DEF StaleDecide
<1>20. ASSUME NEW c \in Clones, StaleFreeCid(c) PROVE CidExclusive'
  BY <1>20 DEF StaleFreeCid
<1>21. ASSUME StaleRemove PROVE CidExclusive'
  BY <1>21 DEF StaleRemove
<1>22. ASSUME StaleEnd PROVE CidExclusive'
  BY <1>22 DEF StaleEnd
<1>23. ASSUME ExpireCollect PROVE CidExclusive'
  BY <1>23 DEF ExpireCollect
<1>24. ASSUME NEW v \in Vms, NEW s \in Sessions, ReleaseBegin(v, s) PROVE CidExclusive'
  BY <1>24 DEF ReleaseBegin
<1>25. ASSUME ReleaseStatic PROVE CidExclusive'
  BY <1>25 DEF ReleaseStatic
<1>26. ASSUME ReleaseDestroy PROVE CidExclusive'
  BY <1>26 DEF ReleaseDestroy
<1>27. ASSUME ReleaseFreeCid PROVE CidExclusive'
  BY <1>27 DEF ReleaseFreeCid
<1>28. ASSUME ReleaseRemove PROVE CidExclusive'
  BY <1>28 DEF ReleaseRemove
<1>29. ASSUME ExpireEnd PROVE CidExclusive'
  BY <1>29 DEF ExpireEnd
<1>30. ASSUME NEW v \in StaticVms, HealthVerdict(v) PROVE CidExclusive'
  BY <1>30 DEF HealthVerdict
<1>31. ASSUME NEW v \in Vms, Age(v) PROVE CidExclusive'
  BY <1>31 DEF Age
<1>32. ASSUME NEW c \in Clones, Ripen(c) PROVE CidExclusive'
  BY <1>32 DEF Ripen
<1>33. ASSUME Restart PROVE CidExclusive'
  BY <1>33 DEF Restart, FreshEntries
<1>34. ASSUME UNCHANGED vars PROVE CidExclusive'
  BY <1>34 DEF vars
<1>35. QED
  BY <1>1, <1>2, <1>3, <1>4, <1>5, <1>6, <1>7, <1>8, <1>9, <1>10, <1>11, <1>12,
     <1>13, <1>14, <1>15, <1>16, <1>17, <1>18, <1>19, <1>20, <1>21, <1>22,
     <1>23, <1>24, <1>25, <1>26, <1>27, <1>28, <1>29, <1>30, <1>31, <1>32,
     <1>33, <1>34
     DEF Next, SessionStep, ProvisionStep, SweepStep, StaleStep, ExpiryStep

(* Whatever calls fail and however the collectors interleave, no CID leaks:    *)
(* each one CidAllocator holds as used has an entry or a provisioning.         *)
THEOREM NoLeak == Spec => []NoCidLeak
<1>1. Init => NoCidLeak
  BY DEF Init, NoCidLeak
<1>2. IInv /\ NoCidLeak /\ [Next]_vars => NoCidLeak'
  BY LeakStep
<1>3. QED
  BY <1>1, <1>2, Invariance, PTL DEF Spec

(* Until a CID is released twice for one VM (the race of gc_stale_sessions and *)
(* release), every CID in use is tracked and has one owner.                    *)
THEOREM Exclusive == Spec => []CidExclusive
<1>1. Init => CidExclusive
  BY PoolAssumption
     DEF Init, CidExclusive, EntryCidsTracked, TaskCidsTracked, Pooled,
         FreshEntries, Vms
<1>2. IInv /\ CidExclusive /\ [Next]_vars => CidExclusive'
  BY ExclusiveStep
<1>3. QED
  BY <1>1, <1>2, Invariance, PTL DEF Spec

-----------------------------------------------------------------------------

(* Single use: the pool implements VmLifecycle.                            *)

(* Building, without the union. *)
LEMMA BuildingDef ==
  \A c : c \in Building <=> \E t \in Tasks : pc[t] \in {"start", "undo", "insert"} /\ pick[t] = c
BY DEF Building, BuiltBy

(* The same in the next state. *)
LEMMA BuildingDefPrime ==
  \A c : c \in Building' <=> \E t \in Tasks : pc'[t] \in {"start", "undo", "insert"} /\ pick'[t] = c
BY DEF Building, BuiltBy

(* What a step may do to a dynamic VM: a destroyed domain never comes back, an *)
(* entry never goes from Assigned to WarmReady, and a VM that is neither in    *)
(* the pool nor being provisioned stays so.                                    *)
LEMMA StageStep ==
  ASSUME IInv, [Next]_vars, NEW c \in Clones
  PROVE  /\ dom[c] # "none" => dom'[c] # "none"
         /\ dom[c] = "none" /\ dom'[c] # "none" => c \in Building'
         /\ state[c] = "assigned" => state'[c] \in {"assigned", "absent"}
         /\ state[c] # "absent" => c \notin Building'
         /\ (c \notin Building /\ state[c] = "absent" /\ dom[c] # "none")
              => (c \notin Building' /\ state'[c] = "absent")
<1> DEFINE G == /\ dom[c] # "none" => dom'[c] # "none"
                /\ dom[c] = "none" /\ dom'[c] # "none" => c \in Building'
                /\ state[c] = "assigned" => state'[c] \in {"assigned", "absent"}
                /\ state[c] # "absent" => c \notin Building'
                /\ (c \notin Building /\ state[c] = "absent" /\ dom[c] # "none")
                     => (c \notin Building' /\ state'[c] = "absent")
<1> SUFFICES G
  OBVIOUS
<1> USE PoolAssumption, BuildingDef, BuildingDefPrime
   DEF IInv, TypeOK, CloneStates, StaticPicks, BuildingPrivate, Untouched,
       FreshNames, Vms, Tasks, Goto, DeleteVm, Live, AssignTo, RemoveEntry,
       AtStale, AtExpiry, Pooled, Warm, entryVars, hostVars, taskVars,
       sweepVars, staleVars, expiryVars
<1>1. ASSUME NEW s \in Sessions, FindAvailable(s) PROVE G
  BY <1>1 DEF FindAvailable
<1>2. ASSUME NEW s \in Sessions, GrabStatic(s) PROVE G
  BY <1>2 DEF GrabStatic
<1>3. ASSUME NEW s \in Sessions, CheckQuota(s) PROVE G
  BY <1>3 DEF CheckQuota
<1>4. ASSUME NEW s \in Sessions, FindWarm(s) PROVE G
  BY <1>4 DEF FindWarm
<1>5. ASSUME NEW s \in Sessions, GrabWarm(s) PROVE G
  BY <1>5 DEF GrabWarm
<1>6. ASSUME NEW s \in Sessions, ClientLeaves(s) PROVE G
  BY <1>6 DEF ClientLeaves
<1>7. ASSUME NEW t \in Tasks, AllocCid(t) PROVE G
  BY <1>7 DEF AllocCid, GivenUp
<1>8. ASSUME NEW t \in Tasks, CloneVm(t) PROVE G
  BY <1>8 DEF CloneVm
<1>9. ASSUME NEW t \in Tasks, StartVm(t) PROVE G
  BY <1>9 DEF StartVm
<1>10. ASSUME NEW t \in Tasks, UndoClone(t) PROVE G
  BY <1>10 DEF UndoClone
<1>11. ASSUME NEW t \in Tasks, FreeCid(t) PROVE G
  BY <1>11 DEF FreeCid, GivenUp
<1>12. ASSUME NEW t \in Tasks, Insert(t) PROVE G
  BY <1>12 DEF Insert
<1>13. ASSUME ReplenishCheck PROVE G
  BY <1>13 DEF ReplenishCheck
<1>14. ASSUME NEW p \in Sweepers, SweepList(p) PROVE G
  BY <1>14 DEF SweepList
<1>15. ASSUME NEW p \in Sweepers, SweepDecide(p) PROVE G
  BY <1>15 DEF SweepDecide
<1>16. ASSUME NEW p \in Sweepers, NEW d \in Clones, SweepDestroy(p, d) PROVE G
  BY <1>16 DEF SweepDestroy
<1>17. ASSUME NEW p \in Sweepers, SweepEnd(p) PROVE G
  BY <1>17 DEF SweepEnd
<1>18. ASSUME StaleList PROVE G
  BY <1>18 DEF StaleList
<1>19. ASSUME StaleDecide PROVE G
  BY <1>19 DEF StaleDecide
<1>20. ASSUME NEW d \in Clones, StaleFreeCid(d) PROVE G
  BY <1>20 DEF StaleFreeCid
<1>21. ASSUME StaleRemove PROVE G
  BY <1>21 DEF StaleRemove
<1>22. ASSUME StaleEnd PROVE G
  BY <1>22 DEF StaleEnd
<1>23. ASSUME ExpireCollect PROVE G
  BY <1>23 DEF ExpireCollect
<1>24. ASSUME NEW v \in Vms, NEW s \in Sessions, ReleaseBegin(v, s) PROVE G
  BY <1>24 DEF ReleaseBegin
<1>25. ASSUME ReleaseStatic PROVE G
  BY <1>25 DEF ReleaseStatic
<1>26. ASSUME ReleaseDestroy PROVE G
  BY <1>26 DEF ReleaseDestroy
<1>27. ASSUME ReleaseFreeCid PROVE G
  BY <1>27 DEF ReleaseFreeCid
<1>28. ASSUME ReleaseRemove PROVE G
  BY <1>28 DEF ReleaseRemove
<1>29. ASSUME ExpireEnd PROVE G
  BY <1>29 DEF ExpireEnd
<1>30. ASSUME NEW v \in StaticVms, HealthVerdict(v) PROVE G
  BY <1>30 DEF HealthVerdict
<1>31. ASSUME NEW v \in Vms, Age(v) PROVE G
  BY <1>31 DEF Age
<1>32. ASSUME NEW d \in Clones, Ripen(d) PROVE G
  BY <1>32 DEF Ripen
<1>33. ASSUME Restart PROVE G
  BY <1>33 DEF Restart, FreshEntries
<1>34. ASSUME UNCHANGED vars PROVE G
  BY <1>34 DEF vars
<1>35. QED
  BY <1>1, <1>2, <1>3, <1>4, <1>5, <1>6, <1>7, <1>8, <1>9, <1>10, <1>11, <1>12,
     <1>13, <1>14, <1>15, <1>16, <1>17, <1>18, <1>19, <1>20, <1>21, <1>22,
     <1>23, <1>24, <1>25, <1>26, <1>27, <1>28, <1>29, <1>30, <1>31, <1>32,
     <1>33, <1>34
     DEF Next, SessionStep, ProvisionStep, SweepStep, StaleStep, ExpiryStep

(* A dynamic VM is never used again once its session has ended: every step of  *)
(* the pool is a step, or a stutter, of VmLifecycle for every clone.           *)
THEOREM Refinement == Spec => SingleUse
<1>1. Init => Lifecycle!Init
  BY DEF Init, Lifecycle!Init, StageOf
<1>2. IInv /\ IInv' /\ [Next]_vars => Lifecycle!Next
  <2> SUFFICES ASSUME IInv, IInv', [Next]_vars PROVE Lifecycle!Next
    OBVIOUS
  <2>1. \A c \in Clones : StageOf(c) \in Lifecycle!Stages /\ StageOf(c)' \in Lifecycle!Stages
    BY DEF StageOf, Lifecycle!Stages
  <2>2. ASSUME NEW c \in Clones PROVE StageOf(c)' \in Lifecycle!After(StageOf(c))
    <3>1. /\ dom[c] = "none" => state[c] = "absent"
          /\ dom'[c] = "none" => state'[c] = "absent"
      BY DEF IInv, FreshNames, Untouched
    <3>2. /\ state[c] \in {"absent", "warm", "assigned"}
          /\ state'[c] \in {"absent", "warm", "assigned"}
      BY DEF IInv, CloneStates
    <3>3. c \in Building' => state'[c] = "absent"
      BY BuildingDefPrime DEF IInv, BuildingPrivate, Untouched
    <3>4. QED
      BY <3>1, <3>2, <3>3, StageStep DEF StageOf, Lifecycle!After
  <2>3. QED
    BY <2>1, <2>2 DEF Lifecycle!Next
<1>3. QED
  BY <1>1, <1>2, Invariance, PTL DEF Spec, SingleUse, Lifecycle!Spec

-----------------------------------------------------------------------------

(* The orphan collector.                                                   *)

(* What the collector remembers between its awaits stays true: an orphan older *)
(* than the grace is not being provisioned, and a victim belongs to nobody.    *)
SweepInv ==
  /\ \A p \in Sweepers : \A c \in listed[p] : dom[c] # "none"
  /\ \A c \in Clones : cand[c] # "none" => dom[c] # "none"
  /\ \A c \in Clones : cand[c] = "ripe" => c \notin Building
  /\ \A c \in victims[OrphanGc] : dom[c] # "none" /\ c \notin Pooled \cup Building

(* SweepInv is inductive when the grace delay outlasts every provisioning. *)
LEMMA SweepInvStep ==
  ASSUME GraceOutlastsBuild, IInv, SweepInv, [Next]_vars
  PROVE  SweepInv'
<1>1. \A c \in Clones : /\ dom[c] # "none" => dom'[c] # "none"
                        /\ dom[c] # "none" /\ c \notin Building => c \notin Building'
                        /\ dom[c] # "none" /\ c \notin Pooled \cup Building => c \notin (Pooled \cup Building)'
  BY StageStep DEF Pooled
<1> USE PoolAssumption, <1>1 DEF SweepInv, IInv, TypeOK, Sweepers
<1>2. ASSUME UNCHANGED <<cand, listed, victims>> PROVE SweepInv'
  BY <1>2
<1>3. ASSUME NEW p \in Sweepers, SweepList(p) PROVE SweepInv'
  BY <1>3 DEF SweepList, Live
<1>4. ASSUME NEW p \in Sweepers, SweepDecide(p) PROVE SweepInv'
  BY <1>4 DEF SweepDecide, hostVars, entryVars
<1>5. ASSUME NEW p \in Sweepers, NEW c \in Clones, SweepDestroy(p, c) PROVE SweepInv'
  BY <1>5 DEF SweepDestroy
<1>6. ASSUME StaleList PROVE SweepInv'
  BY <1>6 DEF StaleList, Live
<1>7. ASSUME StaleDecide PROVE SweepInv'
  BY <1>7 DEF StaleDecide
<1>8. ASSUME NEW c \in Clones, Ripen(c) PROVE SweepInv'
  BY <1>8 DEF Ripen
<1>9. ASSUME Restart PROVE SweepInv'
  BY <1>9 DEF Restart
<1>10. QED
  BY <1>2, <1>3, <1>4, <1>5, <1>6, <1>7, <1>8, <1>9
     DEF Next, SessionStep, ProvisionStep, SweepStep, StaleStep, ExpiryStep,
         vars, sweepVars, FindAvailable, GrabStatic, CheckQuota, FindWarm,
         GrabWarm, ClientLeaves, AllocCid, CloneVm, StartVm, UndoClone, FreeCid,
         Insert, ReplenishCheck, SweepEnd, StaleFreeCid, StaleRemove, StaleEnd,
         ExpireCollect, ReleaseBegin, ReleaseStatic, ReleaseDestroy,
         ReleaseFreeCid, ReleaseRemove, ExpireEnd, HealthVerdict, Age

(* With a grace delay longer than any provisioning, the periodic               *)
(* cleanup_orphans never destroys a VM of the pool or one being provisioned.   *)
THEOREM GracedSweepSafe ==
  ASSUME GraceOutlastsBuild
  PROVE  Spec => GracedSweepSparesVms
<1>1. Init => SweepInv
  BY PoolAssumption DEF Init, SweepInv, Sweepers
<1>2. IInv /\ SweepInv /\ [Next]_vars => SweepInv'
  BY SweepInvStep
<1>3. SweepInv => [\A c \in victims[OrphanGc] :
                     (c \notin victims'[OrphanGc] /\ dom[c] = "live" /\ dom'[c] = "gone")
                       => c \notin Pooled \cup Building]_vars
  BY DEF SweepInv
<1>4. QED
  BY <1>1, <1>2, <1>3, Invariance, PTL DEF Spec, GracedSweepSparesVms

-----------------------------------------------------------------------------

(* The global quota.                                                       *)

(* The sets the quota counts are finite. *)
LEMMA LoadFinite ==
  ASSUME TypeOK
  PROVE  /\ IsFiniteSet(Tasks) /\ Cardinality(Tasks) \in Nat \ {0}
         /\ IsFiniteSet(Pooled) /\ Cardinality(Pooled) \in Nat
         /\ IsFiniteSet(InFlight) /\ Cardinality(InFlight) \in Nat
         /\ Cardinality(InFlight) <= Cardinality(Tasks)
<1>1. IsFiniteSet(Tasks) /\ Cardinality(Tasks) = Cardinality(Sessions) + 1
  BY PoolAssumption, FS_AddElement DEF Tasks
<1>2. Cardinality(Sessions) \in Nat
  BY PoolAssumption, FS_CardinalityType
<1>3. Pooled \subseteq Clones /\ InFlight \subseteq Tasks
  BY DEF Pooled, InFlight
<1>4. IsFiniteSet(Pooled) /\ IsFiniteSet(InFlight) /\ Cardinality(InFlight) <= Cardinality(Tasks)
  BY <1>1, <1>3, FS_Subset, PoolAssumption
<1>5. QED
  BY <1>1, <1>2, <1>4, FS_CardinalityType

(* A step that adds no entry and passes no check keeps the bound. *)
LEMMA LoadShrinks ==
  ASSUME TypeOK, QuotaOvershootBounded, Pooled' \subseteq Pooled, InFlight' \subseteq InFlight
  PROVE  QuotaOvershootBounded'
<1>1. /\ Cardinality(Pooled') <= Cardinality(Pooled) /\ Cardinality(Pooled') \in Nat
      /\ Cardinality(InFlight') <= Cardinality(InFlight) /\ Cardinality(InFlight') \in Nat
  BY LoadFinite, FS_Subset, FS_CardinalityType
<1>2. QED
  BY <1>1, LoadFinite, PoolAssumption DEF QuotaOvershootBounded

(* Only CheckQuota and ReplenishCheck add load, and only below max_total;      *)
(* Insert turns a provisioning into an entry.                                  *)
LEMMA LoadStep ==
  ASSUME IInv, QuotaOvershootBounded, [Next]_vars
  PROVE  QuotaOvershootBounded'
<1> DEFINE Shrinks == Pooled' \subseteq Pooled /\ InFlight' \subseteq InFlight
<1> USE PoolAssumption
   DEF IInv, TypeOK, StaticPicks, Vms, Tasks, Goto, AssignTo, RemoveEntry,
       AtStale, AtExpiry, entryVars, taskVars, FreshEntries
<1>1. ASSUME NEW s \in Sessions, FindAvailable(s) PROVE Shrinks
  BY <1>1 DEF FindAvailable, Pooled, InFlight
<1>2. ASSUME NEW s \in Sessions, GrabStatic(s) PROVE Shrinks
  BY <1>2 DEF GrabStatic, Pooled, InFlight
<1>3. ASSUME NEW s \in Sessions, CheckQuota(s) PROVE QuotaOvershootBounded'
  <2>1. CASE Cardinality(Pooled) < MaxTotal
    <3>1. Pooled' = Pooled
      BY <1>3 DEF CheckQuota, Pooled
    <3>2. Cardinality(InFlight') <= Cardinality(Tasks) /\ Cardinality(InFlight') \in Nat
      <4>1. TypeOK'
        BY TypeStep DEF IInv
      <4>2. InFlight' \subseteq Tasks
        BY DEF InFlight
      <4>3. QED
        BY <4>2, LoadFinite, FS_Subset, FS_CardinalityType DEF IInv
    <3>3. QED
      BY <2>1, <3>1, <3>2, LoadFinite, PoolAssumption
         DEF QuotaOvershootBounded, IInv
  <2>2. CASE ~(Cardinality(Pooled) < MaxTotal)
    <3>1. Shrinks
      BY <1>3, <2>2 DEF CheckQuota, Pooled, InFlight
    <3>2. QED
      BY <3>1, LoadShrinks DEF IInv
  <2>3. QED
    BY <2>1, <2>2
<1>4. ASSUME NEW s \in Sessions, FindWarm(s) PROVE Shrinks
  BY <1>4 DEF FindWarm, Pooled, InFlight
<1>5. ASSUME NEW s \in Sessions, GrabWarm(s) PROVE Shrinks
  BY <1>5 DEF GrabWarm, Pooled, InFlight
<1>6. ASSUME NEW s \in Sessions, ClientLeaves(s) PROVE Shrinks
  BY <1>6 DEF ClientLeaves, Pooled, InFlight
<1>7. ASSUME NEW t \in Tasks, AllocCid(t) PROVE Shrinks
  BY <1>7 DEF AllocCid, Pooled, InFlight, GivenUp
<1>8. ASSUME NEW t \in Tasks, CloneVm(t) PROVE Shrinks
  BY <1>8 DEF CloneVm, Pooled, InFlight
<1>9. ASSUME NEW t \in Tasks, StartVm(t) PROVE Shrinks
  BY <1>9 DEF StartVm, Pooled, InFlight
<1>10. ASSUME NEW t \in Tasks, UndoClone(t) PROVE Shrinks
  BY <1>10 DEF UndoClone, Pooled, InFlight
<1>11. ASSUME NEW t \in Tasks, FreeCid(t) PROVE Shrinks
  BY <1>11 DEF FreeCid, Pooled, InFlight, GivenUp
<1>12. ASSUME NEW t \in Tasks, Insert(t) PROVE QuotaOvershootBounded'
  <2>1. pick[t] \in Clones /\ pick[t] \notin Pooled /\ t \in InFlight
    BY <1>12 DEF Insert, BuildingPrivate, Untouched, Pooled, InFlight
  <2>2. Pooled' = Pooled \cup {pick[t]} /\ InFlight' = InFlight \ {t}
    BY <1>12, <2>1 DEF Insert, Pooled, InFlight
  <2>3. /\ Cardinality(Pooled') = Cardinality(Pooled) + 1
        /\ Cardinality(InFlight') = Cardinality(InFlight) - 1
    BY <2>1, <2>2, LoadFinite, FS_AddElement, FS_RemoveElement DEF IInv
  <2>4. QED
    BY <2>3, LoadFinite DEF IInv, QuotaOvershootBounded
<1>13. ASSUME ReplenishCheck PROVE QuotaOvershootBounded'
  <2>1. CASE Cardinality(Pooled) < MaxTotal
    <3>1. Pooled' = Pooled
      BY <1>13 DEF ReplenishCheck, Pooled
    <3>2. Cardinality(InFlight') <= Cardinality(Tasks) /\ Cardinality(InFlight') \in Nat
      <4>1. TypeOK'
        BY TypeStep DEF IInv
      <4>2. InFlight' \subseteq Tasks
        BY DEF InFlight
      <4>3. QED
        BY <4>2, LoadFinite, FS_Subset, FS_CardinalityType DEF IInv
    <3>3. QED
      BY <2>1, <3>1, <3>2, LoadFinite, PoolAssumption
         DEF QuotaOvershootBounded, IInv
  <2>2. CASE ~(Cardinality(Pooled) < MaxTotal)
    <3>1. Shrinks
      BY <1>13, <2>2 DEF ReplenishCheck, Pooled, InFlight
    <3>2. QED
      BY <3>1, LoadShrinks DEF IInv
  <2>3. QED
    BY <2>1, <2>2
<1>14. ASSUME NEW p \in Sweepers, SweepEnd(p) PROVE Shrinks
  BY <1>14 DEF SweepEnd, Pooled, InFlight
<1>15. ASSUME StaleRemove PROVE Shrinks
  BY <1>15 DEF StaleRemove, Pooled, InFlight
<1>16. ASSUME ReleaseStatic PROVE Shrinks
  BY <1>16 DEF ReleaseStatic, Pooled, InFlight
<1>17. ASSUME ReleaseRemove PROVE Shrinks
  BY <1>17 DEF ReleaseRemove, Pooled, InFlight
<1>18. ASSUME NEW v \in StaticVms, HealthVerdict(v) PROVE Shrinks
  BY <1>18 DEF HealthVerdict, Pooled, InFlight
<1>19. ASSUME Restart PROVE Shrinks
  BY <1>19 DEF Restart, Pooled, InFlight
<1>20. ASSUME UNCHANGED <<state, pc>> PROVE Shrinks
  BY <1>20 DEF Pooled, InFlight
<1>21. QED
  BY <1>1, <1>2, <1>3, <1>4, <1>5, <1>6, <1>7, <1>8, <1>9, <1>10, <1>11, <1>12,
     <1>13, <1>14, <1>15, <1>16, <1>17, <1>18, <1>19, <1>20, LoadShrinks
     DEF Next, SessionStep, ProvisionStep, SweepStep, StaleStep, ExpiryStep,
         vars, SweepList, SweepDecide, SweepDestroy, StaleList, StaleDecide,
         StaleFreeCid, StaleEnd, ExpireCollect, ReleaseBegin, ReleaseDestroy,
         ReleaseFreeCid, ExpireEnd, Age, Ripen

(* max_total, checked before the awaits of a provisioning, is exceeded by at   *)
(* most the number of tasks that can be provisioning at once, minus one.       *)
THEOREM QuotaBounded == Spec => []QuotaOvershootBounded
<1>1. Init => QuotaOvershootBounded
  <2> SUFFICES ASSUME Init PROVE QuotaOvershootBounded
    OBVIOUS
  <2>1. Pooled = {} /\ InFlight = {}
    BY PoolAssumption DEF Init, Pooled, InFlight, FreshEntries, Vms
  <2>2. QED
    BY <2>1, TypeInit, LoadFinite, FS_EmptySet, PoolAssumption
       DEF QuotaOvershootBounded
<1>2. IInv /\ QuotaOvershootBounded /\ [Next]_vars => QuotaOvershootBounded'
  BY LoadStep
<1>3. QED
  BY <1>1, <1>2, Invariance, PTL DEF Spec
====
