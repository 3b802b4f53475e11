------------------------------- MODULE VmPool -------------------------------
(***************************************************************************)
(* The broker's VM pool (nidan-broker/src/pool/mod.rs): the map of pool    *)
(* entries, the vsock CID allocator, and the tasks that work on them       *)
(* concurrently on the multi-threaded runtime:                             *)
(*   - one assign_or_provision per client session,                         *)
(*   - replenish_loop, which keeps MinReady warm VMs,                      *)
(*   - gc_orphan_loop (cleanup_orphans, then gc_stale_sessions),           *)
(*   - the expiry collector of routing (gc_expired_sessions, release),     *)
(*   - health_check_loop on the static VMs.                                *)
(* Every access to the concurrent map, to the allocator or to the          *)
(* hypervisor is a step of its own, so that what a task read before an     *)
(* await may be stale when it is used.                                     *)
(***************************************************************************)
EXTENDS Integers, FiniteSets

CONSTANTS
  StaticVms,          \* VMs declared in the configuration
  Clones,             \* VMs the provider may create, each name used once
  Sessions,           \* session ids: each makes one request
  UserOf,             \* the authenticated user of a session
  CidStart, CidEnd,   \* the vsock CID range of the configuration
  MinReady,           \* warm VMs to keep ready
  MaxTotal,           \* dynamic VMs allowed at once
  MaxPerUser,         \* dynamic VMs allowed at once for a user
  MaxFaults,          \* bound: provider calls that fail
  MaxRestarts,        \* bound: broker crashes
  GraceOutlastsBuild, \* the grace delay is longer than any provisioning
  Replenisher, OrphanGc, NoVm, NoSession

Vms   == StaticVms \cup Clones
Cids  == CidStart .. CidEnd
NoCid == -1
Tasks == Sessions \cup {Replenisher}       \* who provisions
Sweepers == {Replenisher, OrphanGc}        \* who runs cleanup_orphans

ASSUME PoolAssumption ==
  /\ StaticVms \cap Clones = {}
  /\ NoVm \notin Vms
  /\ NoSession \notin Sessions
  /\ Replenisher \notin Sessions
  /\ Replenisher # OrphanGc
  /\ CidStart \in Nat /\ CidEnd \in Nat
  /\ MinReady \in Nat /\ MaxTotal \in Nat /\ MaxPerUser \in Nat
  /\ MaxFaults \in Nat /\ MaxRestarts \in Nat
  /\ GraceOutlastsBuild \in BOOLEAN
  /\ IsFiniteSet(Clones) /\ IsFiniteSet(Sessions)

VARIABLES
  state,      \* VmPoolEntry.state; "absent": no entry in the map
  holder,     \* the session of an Assigned entry
  cidOf,      \* VmPoolEntry.cid of a clone (kept after the entry is removed)
  old,        \* entries assigned for longer than session_token_ttl_secs
  used,       \* CidAllocator.used
  doubleFree, \* history: a CID was released twice for the same VM
  dom,        \* the hypervisor's domain of a clone
  faults,     \* provider calls that have failed
  pc, pick, tcid,   \* per task: where it is, its VM, the CID it allocated
  cand,       \* orphan_candidates: not seen, seen, seen longer than the grace
  spc, listed, victims,  \* per sweeper: where it is, list_vms, VMs to destroy
  stale, scur,  \* gc_stale_sessions: its list, the entry whose CID it freed
  epc, queue, ecur,  \* gc_expired_sessions: where, its list, VM in release
  restarts    \* broker crashes so far

entryVars  == <<state, holder, cidOf, old>>
cidVars    == <<used, doubleFree>>
hostVars   == <<dom, faults>>
taskVars   == <<pc, pick, tcid>>
sweepVars  == <<cand, spc, listed, victims>>
staleVars  == <<stale, scur>>
expiryVars == <<epc, queue, ecur>>
vars == <<entryVars, cidVars, hostVars, taskVars, sweepVars, staleVars,
          expiryVars, restarts>>

-----------------------------------------------------------------------------
(* Where a task, a sweeper and the expiry collector can be.                *)

SessionPc == {"idle", "grab", "quota", "warm", "grabWarm", "cold", "clone",
              "start", "undo", "freeCid", "insert", "served", "refused", "left"}
ReplenishPc == {"boot", "check", "cold", "clone", "start", "undo", "freeCid",
                "insert"}
SweepPc  == {"idle", "listed", "destroy", "staleList", "stale", "drop", "remove"}
ExpiryPc == {"sleep", "next", "static", "destroy", "freeCid", "remove"}

Pooled  == {c \in Clones : state[c] # "absent"}
Live    == {c \in Clones : dom[c] = "live"}
Warm    == {c \in Clones : state[c] = "warm"}
OwnedBy(u) == {c \in Clones : state[c] = "assigned" /\ UserOf[holder[c]] = u}

(* A clone a task has created and not yet inserted in the pool or given up. *)
BuiltBy(t) == IF pc[t] \in {"start", "undo", "insert"} THEN {pick[t]} ELSE {}
Building   == UNION {BuiltBy(t) : t \in Tasks}

TypeOK ==
  /\ state \in [Vms -> {"absent", "available", "warm", "assigned", "unhealthy"}]
  /\ holder \in [Vms -> Sessions \cup {NoSession}]
  /\ cidOf \in [Clones -> Cids \cup {NoCid}]
  /\ old \in SUBSET Vms
  /\ used \in SUBSET Cids
  /\ doubleFree \in BOOLEAN
  /\ dom \in [Clones -> {"none", "live", "gone"}]
  /\ faults \in 0 .. MaxFaults
  /\ pc \in [Tasks -> SessionPc \cup ReplenishPc]
  /\ pick \in [Tasks -> Vms \cup {NoVm}]
  /\ tcid \in [Tasks -> Cids \cup {NoCid}]
  /\ cand \in [Clones -> {"none", "fresh", "ripe"}]
  /\ spc \in [Sweepers -> SweepPc]
  /\ listed \in [Sweepers -> SUBSET Clones]
  /\ victims \in [Sweepers -> SUBSET Clones]
  /\ stale \in SUBSET Clones
  /\ scur \in Clones \cup {NoVm}
  /\ epc \in ExpiryPc
  /\ queue \in SUBSET (Vms \X Sessions)
  /\ ecur \in Vms \cup {NoVm}
  /\ restarts \in 0 .. MaxRestarts

(* VmPool::build: static entries Available, no dynamic entry, no CID used. *)
FreshEntries == [v \in Vms |-> IF v \in StaticVms THEN "available" ELSE "absent"]

Init ==
  /\ state = FreshEntries
  /\ holder = [v \in Vms |-> NoSession]
  /\ cidOf = [c \in Clones |-> NoCid]
  /\ old = {}
  /\ used = {} /\ doubleFree = FALSE
  /\ dom = [c \in Clones |-> "none"] /\ faults = 0
  /\ pc = [t \in Tasks |-> IF t = Replenisher THEN "boot" ELSE "idle"]
  /\ pick = [t \in Tasks |-> NoVm]
  /\ tcid = [t \in Tasks |-> NoCid]
  /\ cand = [c \in Clones |-> "none"]
  /\ spc = [p \in Sweepers |-> "idle"]
  /\ listed = [p \in Sweepers |-> {}]
  /\ victims = [p \in Sweepers |-> {}]
  /\ stale = {} /\ scur = NoVm
  /\ epc = "sleep" /\ queue = {} /\ ecur = NoVm
  /\ restarts = 0

-----------------------------------------------------------------------------
(* Helpers.                                                                *)

Goto(t, from, to) == pc[t] = from /\ pc' = [pc EXCEPT ![t] = to]

Fault == faults < MaxFaults /\ faults' = faults + 1

(* CidAllocator: the CIDs of the range not marked used. *)
FreeCids == Cids \ used

(* What stop_vm and delete_vm of the provider do to a clone: it is destroyed, *)
(* the domain is unknown and nothing happens, or the call fails.              *)
DeleteVm(c) ==
  \/ c \in Live /\ dom' = [dom EXCEPT ![c] = "gone"] /\ UNCHANGED faults
  \/ c \in Live /\ Fault /\ UNCHANGED dom
  \/ c \notin Live /\ UNCHANGED hostVars

(* entry.state = Assigned { session_id, since: now } *)
AssignTo(v, s) ==
  /\ state' = [state EXCEPT ![v] = "assigned"]
  /\ holder' = [holder EXCEPT ![v] = s]
  /\ old' = old \ {v}

(* vms.remove(vm_id): nothing when the entry is not there any more. *)
RemoveEntry(v) ==
  /\ state' = [state EXCEPT ![v] = "absent"]
  /\ holder' = [holder EXCEPT ![v] = NoSession]
  /\ old' = old \ {v}
  /\ UNCHANGED cidOf

(* The CID of v has been released and its entry is still to be removed. *)
DoomedByStale(v)  == spc[OrphanGc] = "remove" /\ scur = v
DoomedByExpiry(v) == epc = "remove" /\ ecur = v
Doomed(v) == DoomedByStale(v) \/ DoomedByExpiry(v)

(* alloc.release(cid) of a VM's CID, kept in a local since before an await:  *)
(* when another task has released it, the CID may have a new owner by now.   *)
ReleaseCidOf(v) ==
  /\ used' = used \ {cidOf[v]}
  /\ doubleFree' = (doubleFree \/ v \notin Pooled \/ Doomed(v))

-----------------------------------------------------------------------------
(* assign_or_provision: one task per session.                              *)

(* find_available: some Available VM, or on to the dynamic pool. *)
FindAvailable(s) ==
  /\ \/ \E v \in StaticVms :
          /\ state[v] = "available"
          /\ pick' = [pick EXCEPT ![s] = v]
          /\ Goto(s, "idle", "grab")
     \/ /\ \A v \in StaticVms : state[v] # "available"
        /\ Goto(s, "idle", "quota")
        /\ UNCHANGED pick
  /\ UNCHANGED <<entryVars, cidVars, hostVars, tcid, sweepVars, staleVars,
                 expiryVars, restarts>>

(* get_mut of the VM found: its state is overwritten without being read. *)
GrabStatic(s) ==
  /\ Goto(s, "grab", "served")
  /\ AssignTo(pick[s], s)
  /\ UNCHANGED <<cidOf, cidVars, hostVars, pick, tcid, sweepVars, staleVars,
                 expiryVars, restarts>>

(* total_dynamic and user_dynamic_count against max_total and max_per_user. *)
CheckQuota(s) ==
  /\ \/ /\ Cardinality(Pooled) < MaxTotal
        /\ Cardinality(OwnedBy(UserOf[s])) < MaxPerUser
        /\ Goto(s, "quota", "warm")
     \/ /\ \/ Cardinality(Pooled) >= MaxTotal
           \/ Cardinality(OwnedBy(UserOf[s])) >= MaxPerUser
        /\ Goto(s, "quota", "refused")
  /\ UNCHANGED <<entryVars, cidVars, hostVars, pick, tcid, sweepVars, staleVars,
                 expiryVars, restarts>>

(* find_warm_ready: the oldest warm VM, whichever that is. *)
FindWarm(s) ==
  /\ \/ \E c \in Warm : pick' = [pick EXCEPT ![s] = c] /\ Goto(s, "warm", "grabWarm")
     \/ Warm = {} /\ Goto(s, "warm", "cold") /\ UNCHANGED pick
  /\ UNCHANGED <<entryVars, cidVars, hostVars, tcid, sweepVars, staleVars,
                 expiryVars, restarts>>

(* get_mut of the warm VM found: assigned if the entry is still in the map, *)
(* whatever its state; a cold clone otherwise.                              *)
GrabWarm(s) ==
  /\ \/ /\ pick[s] \in Pooled
        /\ Goto(s, "grabWarm", "served")
        /\ AssignTo(pick[s], s)
        /\ UNCHANGED pick
     \/ /\ pick[s] \notin Pooled
        /\ Goto(s, "grabWarm", "cold")
        /\ pick' = [pick EXCEPT ![s] = NoVm]
        /\ UNCHANGED <<state, holder, old>>
  /\ UNCHANGED <<cidOf, cidVars, hostVars, tcid, sweepVars, staleVars,
                 expiryVars, restarts>>

(* Mutant: a session retries for ever instead of answering an error. *)
GivenUpRetrying(t) == IF t = Replenisher THEN "check" ELSE "cold"

(* Where a task goes when its provisioning fails. *)
GivenUp(t) == IF t = Replenisher THEN "check" ELSE "refused"

(* Mutant: one warm VM too many. *)
ReplenishCheckOffByOne ==
  /\ Cardinality(Warm) < MinReady
  /\ Cardinality(Pooled) <= MaxTotal
  /\ Goto(Replenisher, "check", "cold")
  /\ UNCHANGED <<entryVars, cidVars, hostVars, pick, tcid, sweepVars, staleVars,
                 expiryVars, restarts>>

(* replenish: one more warm VM while fewer than MinReady and below MaxTotal. *)
ReplenishCheck ==
  /\ Cardinality(Warm) < MinReady
  /\ Cardinality(Pooled) < MaxTotal
  /\ Goto(Replenisher, "check", "cold")
  /\ UNCHANGED <<entryVars, cidVars, hostVars, pick, tcid, sweepVars, staleVars,
                 expiryVars, restarts>>

(* CidAllocator::allocate: the lowest free CID; an error when none is left. *)
AllocCid(t) ==
  /\ \/ \E cid \in FreeCids :
          /\ \A other \in FreeCids : cid <= other
          /\ Goto(t, "cold", "clone")
          /\ used' = used \cup {cid}
          /\ tcid' = [tcid EXCEPT ![t] = cid]
     \/ /\ FreeCids = {}
        /\ Goto(t, "cold", GivenUp(t))
        /\ UNCHANGED <<used, tcid>>
  /\ UNCHANGED <<entryVars, doubleFree, hostVars, pick, sweepVars, staleVars,
                 expiryVars, restarts>>

(* clone_vm: a domain under a fresh name. It also fails when the bounded set *)
(* of names is exhausted.                                                    *)
CloneVm(t) ==
  /\ \/ \E c \in Clones :
          /\ dom[c] = "none"
          /\ dom' = [dom EXCEPT ![c] = "live"]
          /\ pick' = [pick EXCEPT ![t] = c]
          /\ Goto(t, "clone", "start")
          /\ UNCHANGED faults
     \/ /\ Fault \/ (UNCHANGED faults /\ \A c \in Clones : dom[c] # "none")
        /\ Goto(t, "clone", "freeCid")
        /\ UNCHANGED <<dom, pick>>
  /\ UNCHANGED <<entryVars, cidVars, tcid, sweepVars, staleVars, expiryVars,
                 restarts>>

(* set_vsock_cid, whose failure is ignored, then start_vm. *)
StartVm(t) ==
  /\ \/ pick[t] \in Live /\ Goto(t, "start", "insert") /\ UNCHANGED faults
     \/ /\ Fault \/ (UNCHANGED faults /\ pick[t] \notin Live)
        /\ Goto(t, "start", "undo")
  /\ UNCHANGED <<entryVars, cidVars, dom, pick, tcid, sweepVars, staleVars,
                 expiryVars, restarts>>

(* Mutant: the CID is released before delete_vm, and again after it. *)
UndoCloneFreesEarly(t) ==
  /\ Goto(t, "undo", "freeCid")
  /\ DeleteVm(pick[t])
  /\ pick' = [pick EXCEPT ![t] = NoVm]
  /\ used' = used \ {tcid[t]}
  /\ UNCHANGED <<entryVars, doubleFree, tcid, sweepVars, staleVars, expiryVars,
                 restarts>>

(* The clone did not start: delete_vm, its result ignored. *)
UndoClone(t) ==
  /\ Goto(t, "undo", "freeCid")
  /\ DeleteVm(pick[t])
  /\ pick' = [pick EXCEPT ![t] = NoVm]
  /\ UNCHANGED <<entryVars, cidVars, tcid, sweepVars, staleVars, expiryVars,
                 restarts>>

(* Mutant: the error path returns without releasing the CID. *)
FreeCidForgotten(t) ==
  /\ Goto(t, "freeCid", GivenUp(t))
  /\ tcid' = [tcid EXCEPT ![t] = NoCid]
  /\ UNCHANGED <<entryVars, cidVars, hostVars, pick, sweepVars, staleVars,
                 expiryVars, restarts>>

(* The CID of a failed provisioning is released. *)
FreeCid(t) ==
  /\ Goto(t, "freeCid", GivenUp(t))
  /\ used' = used \ {tcid[t]}
  /\ tcid' = [tcid EXCEPT ![t] = NoCid]
  /\ UNCHANGED <<entryVars, doubleFree, hostVars, pick, sweepVars, staleVars,
                 expiryVars, restarts>>

(* vms.insert: Assigned to the session, or WarmReady for the replenisher. *)
Insert(t) ==
  /\ pc[t] = "insert"
  /\ cidOf' = [cidOf EXCEPT ![pick[t]] = tcid[t]]
  /\ tcid' = [tcid EXCEPT ![t] = NoCid]
  /\ IF t = Replenisher
       THEN /\ Goto(t, "insert", "check")
            /\ state' = [state EXCEPT ![pick[t]] = "warm"]
            /\ pick' = [pick EXCEPT ![t] = NoVm]
            /\ UNCHANGED <<holder, old>>
       ELSE /\ Goto(t, "insert", "served")
            /\ AssignTo(pick[t], t)
            /\ UNCHANGED pick
  /\ UNCHANGED <<cidVars, hostVars, sweepVars, staleVars, expiryVars, restarts>>

(* The client disconnects from the proxy-encoder, which destroys a dynamic *)
(* VM through the host-agent without telling the broker.                   *)
ClientLeaves(s) ==
  /\ Goto(s, "served", "left")
  /\ IF pick[s] \in Clones THEN DeleteVm(pick[s]) ELSE UNCHANGED hostVars
  /\ pick' = [pick EXCEPT ![s] = NoVm]
  /\ UNCHANGED <<entryVars, cidVars, tcid, sweepVars, staleVars, expiryVars,
                 restarts>>

-----------------------------------------------------------------------------
(* cleanup_orphans: at boot by the replenisher, with no grace, then          *)
(* periodically by the orphan collector.                                     *)

(* list_vms answers with the domains of the moment; build starts the         *)
(* replenisher only when min_ready > 0.                                      *)
SweepList(p) ==
  /\ spc[p] = "idle"
  /\ p = Replenisher => pc[p] = "boot" /\ MinReady > 0
  /\ \/ /\ listed' = [listed EXCEPT ![p] = Live]
        /\ spc' = [spc EXCEPT ![p] = "listed"]
        /\ UNCHANGED faults
     \/ /\ Fault
        /\ spc' = [spc EXCEPT ![p] = "destroy"]
        /\ UNCHANGED listed
  /\ UNCHANGED <<entryVars, cidVars, dom, taskVars, cand, victims, staleVars,
                 expiryVars, restarts>>

(* Mutant: orphans are destroyed the first time they are seen. *)
SweepDecideNoGrace(p) ==
  LET orphans == listed[p] \ Pooled IN
  /\ spc[p] = "listed"
  /\ spc' = [spc EXCEPT ![p] = "destroy"]
  /\ cand' = [c \in Clones |-> IF c \notin orphans THEN "none"
                               ELSE IF cand[c] = "none" THEN "fresh" ELSE cand[c]]
  /\ victims' = [victims EXCEPT ![p] = orphans]
  /\ listed' = [listed EXCEPT ![p] = {}]
  /\ UNCHANGED <<entryVars, cidVars, hostVars, taskVars, staleVars, expiryVars,
                 restarts>>

(* Mutant: first_seen is set to now at each detection. *)
SweepDecideForgetful(p) ==
  LET orphans == listed[p] \ Pooled IN
  /\ spc[p] = "listed"
  /\ spc' = [spc EXCEPT ![p] = "destroy"]
  /\ cand' = [c \in Clones |-> IF c \notin orphans THEN "none" ELSE "fresh"]
  /\ victims' = [victims EXCEPT ![p] = {c \in orphans : p = Replenisher}]
  /\ listed' = [listed EXCEPT ![p] = {}]
  /\ UNCHANGED <<entryVars, cidVars, hostVars, taskVars, staleVars, expiryVars,
                 restarts>>

(* The pool's provider ids are read after list_vms has answered; first_seen *)
(* is kept for the orphans seen before and set for the others.              *)
SweepDecide(p) ==
  LET orphans == listed[p] \ Pooled IN
  /\ spc[p] = "listed"
  /\ spc' = [spc EXCEPT ![p] = "destroy"]
  /\ cand' = [c \in Clones |-> IF c \notin orphans THEN "none"
                               ELSE IF cand[c] = "none" THEN "fresh" ELSE cand[c]]
  /\ victims' = [victims EXCEPT ![p] =
                   {c \in orphans : p = Replenisher \/ cand[c] = "ripe"}]
  /\ listed' = [listed EXCEPT ![p] = {}]
  /\ UNCHANGED <<entryVars, cidVars, hostVars, taskVars, staleVars, expiryVars,
                 restarts>>

(* Stop and delete one orphan; when that fails it stays a candidate. *)
SweepDestroy(p, c) ==
  /\ spc[p] = "destroy" /\ c \in victims[p]
  /\ victims' = [victims EXCEPT ![p] = @ \ {c}]
  /\ DeleteVm(c)
  /\ cand' = IF c \in Live /\ dom'[c] = "gone" THEN [cand EXCEPT ![c] = "none"]
             ELSE cand
  /\ UNCHANGED <<entryVars, cidVars, taskVars, spc, listed, staleVars,
                 expiryVars, restarts>>

SweepEnd(p) ==
  /\ spc[p] = "destroy" /\ victims[p] = {}
  /\ IF p = Replenisher
       THEN spc' = [spc EXCEPT ![p] = "idle"] /\ Goto(p, "boot", "check")
       ELSE spc' = [spc EXCEPT ![p] = "staleList"] /\ UNCHANGED pc
  /\ UNCHANGED <<entryVars, cidVars, hostVars, pick, tcid, cand, listed, victims,
                 staleVars, expiryVars, restarts>>

-----------------------------------------------------------------------------
(* gc_stale_sessions: entries whose VM is not on the hypervisor any more.  *)

AtStale(from, to) == spc[OrphanGc] = from /\ spc' = [spc EXCEPT ![OrphanGc] = to]

StaleList ==
  /\ \/ /\ AtStale("staleList", "stale")
        /\ listed' = [listed EXCEPT ![OrphanGc] = Live]
        /\ UNCHANGED faults
     \/ AtStale("staleList", "idle") /\ Fault /\ UNCHANGED listed
  /\ UNCHANGED <<entryVars, cidVars, dom, taskVars, cand, victims, staleVars,
                 expiryVars, restarts>>

(* Mutant: only the warm entries are compared with the hypervisor. *)
StaleDecideWarmOnly ==
  /\ AtStale("stale", "drop")
  /\ stale' = Warm \ listed[OrphanGc]
  /\ listed' = [listed EXCEPT ![OrphanGc] = {}]
  /\ UNCHANGED <<entryVars, cidVars, hostVars, taskVars, cand, victims, scur,
                 expiryVars, restarts>>

(* The pool is read after list_vms has answered. *)
StaleDecide ==
  /\ AtStale("stale", "drop")
  /\ stale' = Pooled \ listed[OrphanGc]
  /\ listed' = [listed EXCEPT ![OrphanGc] = {}]
  /\ UNCHANGED <<entryVars, cidVars, hostVars, taskVars, cand, victims, scur,
                 expiryVars, restarts>>

StaleFreeCid(c) ==
  /\ AtStale("drop", "remove")
  /\ c \in stale
  /\ stale' = stale \ {c} /\ scur' = c
  /\ ReleaseCidOf(c)
  /\ UNCHANGED <<entryVars, hostVars, taskVars, cand, listed, victims,
                 expiryVars, restarts>>

StaleRemove ==
  /\ AtStale("remove", "drop")
  /\ RemoveEntry(scur)
  /\ scur' = NoVm
  /\ UNCHANGED <<cidVars, hostVars, taskVars, cand, listed, victims, stale,
                 expiryVars, restarts>>

StaleEnd ==
  /\ stale = {}
  /\ AtStale("drop", "idle")
  /\ UNCHANGED <<entryVars, cidVars, hostVars, taskVars, cand, listed, victims,
                 staleVars, expiryVars, restarts>>

-----------------------------------------------------------------------------
(* gc_expired_sessions and release.                                        *)

AtExpiry(from, to) == epc = from /\ epc' = to

(* Mutant: the entries that are not Assigned are collected too. *)
ExpireCollectAll ==
  /\ old # {}
  /\ AtExpiry("sleep", "next")
  /\ queue' = {<<v, holder[v]>> : v \in Vms}
  /\ UNCHANGED <<entryVars, cidVars, hostVars, taskVars, sweepVars, staleVars,
                 ecur, restarts>>

(* The entries Assigned for longer than max_age_secs, with their session. *)
ExpireCollect ==
  /\ old # {}
  /\ AtExpiry("sleep", "next")
  /\ queue' = {<<v, holder[v]>> : v \in old}
  /\ UNCHANGED <<entryVars, cidVars, hostVars, taskVars, sweepVars, staleVars,
                 ecur, restarts>>

(* Mutant: static VMs are never given back. *)
ReleaseBeginDynamicOnly(v, s) ==
  /\ <<v, s>> \in queue
  /\ queue' = queue \ {<<v, s>>}
  /\ IF state[v] = "assigned" /\ holder[v] = s /\ v \in Clones
       THEN ecur' = v /\ AtExpiry("next", "destroy")
       ELSE AtExpiry("next", "next") /\ UNCHANGED ecur
  /\ UNCHANGED <<entryVars, cidVars, hostVars, taskVars, sweepVars, staleVars,
                 restarts>>

(* release(vm_id, session_id): only an entry still Assigned to that session. *)
ReleaseBegin(v, s) ==
  /\ <<v, s>> \in queue
  /\ queue' = queue \ {<<v, s>>}
  /\ IF state[v] = "assigned" /\ holder[v] = s
       THEN ecur' = v /\ AtExpiry("next", IF v \in Clones THEN "destroy" ELSE "static")
       ELSE AtExpiry("next", "next") /\ UNCHANGED ecur
  /\ UNCHANGED <<entryVars, cidVars, hostVars, taskVars, sweepVars, staleVars,
                 restarts>>

(* A static VM becomes Available, whatever it has become since it was read. *)
ReleaseStatic ==
  /\ AtExpiry("static", "next")
  /\ state' = [state EXCEPT ![ecur] = "available"]
  /\ holder' = [holder EXCEPT ![ecur] = NoSession]
  /\ old' = old \ {ecur}
  /\ ecur' = NoVm
  /\ UNCHANGED <<cidOf, cidVars, hostVars, taskVars, sweepVars, staleVars, queue,
                 restarts>>

(* stop_vm and delete_vm, both results ignored. *)
ReleaseDestroy ==
  /\ AtExpiry("destroy", "freeCid")
  /\ DeleteVm(ecur)
  /\ UNCHANGED <<entryVars, cidVars, taskVars, sweepVars, staleVars, queue, ecur,
                 restarts>>

ReleaseFreeCid ==
  /\ AtExpiry("freeCid", "remove")
  /\ ReleaseCidOf(ecur)
  /\ UNCHANGED <<entryVars, hostVars, taskVars, sweepVars, staleVars, queue, ecur,
                 restarts>>

(* Mutant: the entry of the destroyed VM goes back to the warm pool. *)
ReleaseRemoveRecycles ==
  /\ AtExpiry("remove", "next")
  /\ state' = [state EXCEPT ![ecur] = "warm"]
  /\ holder' = [holder EXCEPT ![ecur] = NoSession]
  /\ old' = old \ {ecur}
  /\ ecur' = NoVm
  /\ UNCHANGED <<cidOf, cidVars, hostVars, taskVars, sweepVars, staleVars, queue,
                 restarts>>

(* The entry is removed, if it is still there. *)
ReleaseRemove ==
  /\ AtExpiry("remove", "next")
  /\ RemoveEntry(ecur)
  /\ ecur' = NoVm
  /\ UNCHANGED <<cidVars, hostVars, taskVars, sweepVars, staleVars, queue,
                 restarts>>

ExpireEnd ==
  /\ queue = {}
  /\ AtExpiry("next", "sleep")
  /\ UNCHANGED <<entryVars, cidVars, hostVars, taskVars, sweepVars, staleVars,
                 queue, ecur, restarts>>

-----------------------------------------------------------------------------
(* health_check_loop: the verdict of a ping is applied to the entry's state *)
(* of the moment; only Available and Unhealthy entries change.              *)

HealthVerdict(v) ==
  /\ \/ state[v] = "available" /\ state' = [state EXCEPT ![v] = "unhealthy"]
     \/ state[v] = "unhealthy" /\ state' = [state EXCEPT ![v] = "available"]
  /\ UNCHANGED <<holder, cidOf, old, cidVars, hostVars, taskVars, sweepVars,
                 staleVars, expiryVars, restarts>>

(* Time: an assignment outlives the token's TTL, an orphan the grace delay. *)
Age(v) ==
  /\ state[v] = "assigned" /\ v \notin old
  /\ old' = old \cup {v}
  /\ UNCHANGED <<state, holder, cidOf, cidVars, hostVars, taskVars, sweepVars,
                 staleVars, expiryVars, restarts>>

Ripen(c) ==
  /\ cand[c] = "fresh"
  /\ GraceOutlastsBuild => c \notin Building
  /\ cand' = [cand EXCEPT ![c] = "ripe"]
  /\ UNCHANGED <<entryVars, cidVars, hostVars, taskVars, spc, listed, victims,
                 staleVars, expiryVars, restarts>>

(* The broker crashes and boots again: everything it kept in memory is lost, *)
(* the domains and the clients already sent to the proxy remain.             *)
Restart ==
  /\ restarts < MaxRestarts
  /\ restarts' = restarts + 1
  /\ state' = FreshEntries
  /\ holder' = [v \in Vms |-> NoSession]
  /\ old' = {}
  /\ used' = {} /\ doubleFree' = FALSE
  /\ pc' = [t \in Tasks |-> IF t = Replenisher THEN "boot"
                            ELSE IF pc[t] \in {"idle", "served", "left"} THEN pc[t]
                            ELSE "refused"]
  /\ pick' = [t \in Tasks |-> IF t \in Sessions /\ pc[t] = "served" THEN pick[t] ELSE NoVm]
  /\ tcid' = [t \in Tasks |-> NoCid]
  /\ cand' = [c \in Clones |-> "none"]
  /\ spc' = [p \in Sweepers |-> "idle"]
  /\ listed' = [p \in Sweepers |-> {}]
  /\ victims' = [p \in Sweepers |-> {}]
  /\ stale' = {} /\ scur' = NoVm
  /\ epc' = "sleep" /\ queue' = {} /\ ecur' = NoVm
  /\ UNCHANGED <<cidOf, hostVars>>

-----------------------------------------------------------------------------

SessionStep(s) == FindAvailable(s) \/ GrabStatic(s) \/ CheckQuota(s) \/ FindWarm(s)
                  \/ GrabWarm(s)

ProvisionStep(t) == AllocCid(t) \/ CloneVm(t) \/ StartVm(t) \/ UndoClone(t)
                    \/ FreeCid(t) \/ Insert(t)

SweepStep(p) == SweepList(p) \/ SweepDecide(p) \/ (\E c \in Clones : SweepDestroy(p, c))
                \/ SweepEnd(p)

StaleStep == StaleList \/ StaleDecide \/ (\E c \in Clones : StaleFreeCid(c))
             \/ StaleRemove \/ StaleEnd

ExpiryStep == ExpireCollect \/ (\E v \in Vms, s \in Sessions : ReleaseBegin(v, s))
              \/ ReleaseStatic \/ ReleaseDestroy \/ ReleaseFreeCid \/ ReleaseRemove
              \/ ExpireEnd

Next ==
  \/ \E s \in Sessions : SessionStep(s) \/ ClientLeaves(s)
  \/ \E t \in Tasks : ProvisionStep(t)
  \/ ReplenishCheck
  \/ \E p \in Sweepers : SweepStep(p)
  \/ StaleStep
  \/ ExpiryStep
  \/ \E v \in StaticVms : HealthVerdict(v)
  \/ \E v \in Vms : Age(v)
  \/ \E c \in Clones : Ripen(c)
  \/ Restart

Spec == Init /\ [][Next]_vars

(* Fairness: the runtime keeps polling every task, the provider answers each  *)
(* call, and time passes. Clients, crashes and health verdicts are free.      *)
Fairness ==
  /\ \A s \in Sessions : WF_vars(pc[s] # "idle" /\ SessionStep(s))
  /\ \A t \in Tasks : WF_vars(ProvisionStep(t))
  /\ \A p \in Sweepers : WF_vars(SweepStep(p))
  /\ WF_vars(StaleStep)
  /\ WF_vars(ExpiryStep)
  /\ \A c \in Clones : WF_vars(Ripen(c))

FairSpec == Spec /\ Fairness

-----------------------------------------------------------------------------
(* Properties.                                                             *)

(* Nothing leaks a CID: whatever call fails and whichever collector removes  *)
(* an entry, a CID marked used belongs to an entry that is not being removed *)
(* or to a provisioning that still holds it (the release calls of            *)
(* assign_or_provision, provision_warm_vm, gc_stale_sessions and release).   *)
OwnedCids == {cidOf[c] : c \in {x \in Pooled : ~Doomed(x)}} \cup
             {tcid[t] : t \in {x \in Tasks : tcid[x] # NoCid}}

NoCidLeak == used \subseteq OwnedCids

(* As long as no CID has been released twice for one VM, the allocator tracks *)
(* every CID in use and never hands one out twice: two entries, two           *)
(* provisionings, or an entry and a provisioning, never share a CID.          *)
EntryCidsTracked ==
  \A c \in Pooled : ~Doomed(c) =>
    /\ cidOf[c] \in used
    /\ \A d \in Pooled : (d # c /\ ~Doomed(d)) => cidOf[d] # cidOf[c]

TaskCidsTracked ==
  \A t \in Tasks : tcid[t] # NoCid =>
    /\ tcid[t] \in used
    /\ \A u \in Tasks : u # t => tcid[u] # tcid[t]
    /\ \A c \in Pooled : ~Doomed(c) => cidOf[c] # tcid[t]

CidExclusive == ~doubleFree => EntryCidsTracked /\ TaskCidsTracked

(* max_total is checked before the provisioning and the VM is counted after:  *)
(* the pool may exceed it, but only by the tasks that can provision at once.  *)
InFlight == {t \in Tasks : pc[t] \in {"warm", "grabWarm", "cold", "clone", "start", "insert"}}

QuotaOvershootBounded ==
  Cardinality(Pooled) + Cardinality(InFlight) <= MaxTotal + Cardinality(Tasks) - 1

(* The periodic orphan collector never destroys a VM that is in the pool or   *)
(* being provisioned, although it lists the hypervisor and reads the pool at  *)
(* different moments.                                                         *)
GracedSweepSparesVms ==
  [][\A c \in victims[OrphanGc] :
       (c \notin victims'[OrphanGc] /\ dom[c] = "live" /\ dom'[c] = "gone")
         => c \notin Pooled \cup Building]_vars

(* Dynamic VMs are single-use: the pool implements the life cycle of VmLifecycle. *)
StageOf(c) ==
  IF dom[c] = "none" THEN "unborn"
  ELSE IF state[c] \in {"warm", "assigned"} THEN state[c]
  ELSE IF c \in Building THEN "building"
  ELSE "retired"

Lifecycle == INSTANCE VmLifecycle WITH stage <- [c \in Clones |-> StageOf(c)]

SingleUse == Lifecycle!Spec

(* Every request to the pool is answered, whatever the provider's failures. *)
RequestAnswered ==
  \A s \in Sessions : pc[s] # "idle" ~> pc[s] \in {"served", "refused", "left"}

(* A VM whose session has outlived its token is taken back. *)
ExpiredReleased == \A v \in Vms : v \in old ~> v \notin old

(* An entry whose VM has gone (destroyed by the proxy-encoder when its client  *)
(* left, or by a sweep) leaves the pool, and gives its share of max_total and  *)
(* max_per_user back, without waiting for the token to expire.                 *)
GhostsRemoved ==
  \A c \in Clones : (c \in Pooled /\ dom[c] = "gone") ~> c \notin Pooled

(* A domain that belongs to nobody (crash of the broker, failed delete) is    *)
(* destroyed in the end.                                                      *)
OrphansCollected ==
  \A c \in Clones : c \in Live \ (Pooled \cup Building) ~> dom[c] = "gone"

-----------------------------------------------------------------------------
(* What a test of the repository says, and the code does not do.              *)

(* Two sessions are never answered the same VM. *)
ExclusiveAssignment ==
  \A s, t \in Sessions :
    (s # t /\ pc[s] = "served" /\ pc[t] = "served") => pick[s] # pick[t]
=============================================================================
