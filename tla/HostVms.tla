------------------------------- MODULE HostVms -------------------------------
(***************************************************************************)
(* The virtual machines of the hypervisor and their disks, as the broker's *)
(* providers (provider/libvirt.rs, provider/host_agent.rs), the host agent *)
(* (nidan-host-agent) and the proxy's cleanup_dynamic_vm work on them.     *)
(*   - The libvirt provider opens a connection per operation: every call   *)
(*     to libvirt is a step of its own and operations interleave.          *)
(*   - The host agent runs an operation under one mutex (with_conn): the   *)
(*     whole operation is one step, but the request, the operation and the *)
(*     answer are apart and the connection can break between them.         *)
(* A broker task provisions a clone (clone, set_vsock_cid, start, delete   *)
(* when the start fails) or retires one (stop, delete); the proxy only     *)
(* retires.  A clone's CID is its own name here: VmPool allocates CIDs.    *)
(***************************************************************************)
EXTENDS Naturals, Sequences, FiniteSets

CONSTANTS
  Names,         \* clones, each name generated once
  Template,      \* the template's domain
  TemplateDisks, \* its disks in XML order: sequence of [dir, base, ext]
  TemplateCid,   \* the CID in the template's vsock device
  Tasks,         \* the broker's tasks
  Proxies,       \* sessions of the proxy that end
  MaxFaults,     \* bound: calls to libvirt, and connections, that fail
  NoVm, NoTask

Callers == Tasks \cup Proxies
AllVms == Names \cup {Template}

ASSUME HostAssumption ==
  /\ Template \notin Names /\ NoVm \notin AllVms
  /\ TemplateCid \notin Names
  /\ Tasks \cap Proxies = {} /\ NoTask \notin Callers
  /\ MaxFaults \in Nat
  /\ TemplateDisks \in Seq({TemplateDisks[i] : i \in DOMAIN TemplateDisks})
  /\ \A i \in DOMAIN TemplateDisks : TemplateDisks[i].base = Template
  /\ \A i, j \in DOMAIN TemplateDisks :      \* one disk of a kind per directory
        /\ TemplateDisks[i].dir = TemplateDisks[j].dir
        /\ TemplateDisks[i].ext = TemplateDisks[j].ext
        => i = j

VARIABLES
  backend, \* provider.backend of the configuration
  dom,     \* domains: disks and CID of the XML, CID it runs with, persistent
  vols,    \* volumes that exist
  used,    \* names generated so far
  pc, vm, todo, xml, \* per caller: step, VM, disks left to treat, XML read
  reqs,    \* requests the host agent has not treated: [op, vm, by]
  answer,  \* per caller: the host agent's answer, if it has one
  faults,  \* calls that have failed
  raced,   \* history: a retirement began on a VM being provisioned
  cidFailed, \* history: clones whose set_vsock_cid failed
  gone     \* history: clones whose domain has been undefined

host == <<dom, vols>>
caller == <<pc, vm, todo, xml>>
net == <<reqs, answer>>
hist == <<faults, raced, cidFailed, gone>>
vars == <<backend, host, used, caller, net, hist>>

-----------------------------------------------------------------------------

Off == "off"
Absent == [disks |-> <<>>, cid |-> "none", run |-> Off, kept |-> FALSE]

Disks == {TemplateDisks[i] : i \in DOMAIN TemplateDisks}   \* the template's

Defined == {v \in AllVms : dom[v] # Absent}
Running(v) == dom[v].run # Off
DisksOf(v) == {dom[v].disks[i] : i \in DOMAIN dom[v].disks}

Ops == {"clone", "set", "start", "stop", "delete"}
Pc == Ops \cup {"idle", "volumes", "redefine", "erase"}

Building == {vm[t] : t \in {u \in Tasks : pc[u] \in {"volumes", "set", "redefine", "start"}}}

Init ==
  /\ backend \in {"static", "libvirt", "host-agent"}
  /\ dom = [v \in AllVms |-> IF v = Template
              THEN [disks |-> TemplateDisks, cid |-> TemplateCid, run |-> Off, kept |-> TRUE]
              ELSE Absent]
  /\ vols = Disks
  /\ used = {}
  /\ pc = [t \in Callers |-> "idle"]
  /\ vm = [t \in Callers |-> NoVm]
  /\ todo = [t \in Callers |-> <<>>]
  /\ xml = [t \in Callers |-> Absent]
  /\ reqs = {} /\ answer = [t \in Callers |-> "none"]
  /\ faults = 0 /\ raced = FALSE /\ cidFailed = {} /\ gone = {}

-----------------------------------------------------------------------------
(* The XML of a clone.                                                     *)

(* split_path, then the new name with the old extension in the old directory. *)
SplitPath(d) == <<d.dir, d.ext>>
NewPath(d, n) == [dir |-> SplitPath(d)[1], base |-> n, ext |-> SplitPath(d)[2]]

\* Mutant: the paths in one of the two quotes only.
RewriteDiskPathsOneQuote(disks, n) ==
  [i \in DOMAIN disks |-> IF i = 1 THEN NewPath(disks[i], n) ELSE disks[i]]

(* rewrite_disk_paths: every source file of the XML, in either quotes. *)
RewriteDiskPaths(disks, n) == [i \in DOMAIN disks |-> NewPath(disks[i], n)]

(* rewrite_domain_xml: a new name, no uuid, new disks; the vsock device stays. *)
RewriteDomainXml(x, n) ==
  [disks |-> RewriteDiskPaths(x.disks, n), cid |-> x.cid, run |-> Off, kept |-> TRUE]

(* set_vsock_in_xml: the vsock device replaced, or added. *)
SetVsockInXml(x, cid) == [x EXCEPT !.cid = cid]

(* libvirt: a domain undefined while it runs goes away when it stops, and a *)
(* domain starts when it is off and its disks are there.                    *)
PoweredOff(n) == [dom EXCEPT ![n] = IF dom[n].kept THEN [@ EXCEPT !.run = Off] ELSE Absent]
Undefined(n) == [dom EXCEPT ![n] = IF Running(n) THEN [@ EXCEPT !.kept = FALSE] ELSE Absent]
Startable(n) == n \in Defined /\ ~Running(n) /\ DisksOf(n) \subseteq vols
Started(n) == [dom EXCEPT ![n].run = dom[n].cid]
(* define_xml of a domain that exists keeps it running. *)
Redefined(n, x) == [dom EXCEPT ![n] = [x EXCEPT !.run = dom[n].run, !.kept = TRUE]]

-----------------------------------------------------------------------------
(* The broker's tasks and the proxy's sessions.                            *)

Fault == faults < MaxFaults /\ faults' = faults + 1

\* Mutant: the clone is started without set_vsock_cid.
AfterNoCid(op, ok) ==
  CASE op = "clone" -> IF ok THEN "start" ELSE "idle"
    [] op = "start" -> IF ok THEN "idle" ELSE "delete"
    [] op = "stop"  -> "delete"
    [] OTHER        -> "idle"

(* What a caller does after an operation: pool/mod.rs and cleanup_dynamic_vm. *)
After(op, ok) ==
  CASE op = "clone"  -> IF ok THEN "set" ELSE "idle"
    [] op = "set"    -> "start"
    [] op = "start"  -> IF ok THEN "idle" ELSE "delete"
    [] op = "stop"   -> "delete"
    [] op = "delete" -> "idle"

(* The operation of a caller ends; a failure to set the CID is only logged. *)
Finish(t, op, ok) ==
  /\ pc' = [pc EXCEPT ![t] = After(op, ok)]
  /\ vm' = [vm EXCEPT ![t] = IF After(op, ok) = "idle" THEN NoVm ELSE @]
  /\ cidFailed' = IF op = "set" /\ ~ok THEN cidFailed \cup {vm[t]} ELSE cidFailed

(* provision: the provider generates a name. *)
Provision(t, n) ==
  /\ pc[t] = "idle" /\ n \notin used
  /\ used' = used \cup {n}
  /\ vm' = [vm EXCEPT ![t] = n]
  /\ pc' = [pc EXCEPT ![t] = "clone"]
  /\ UNCHANGED <<backend, host, todo, xml, net, hist>>

(* list_vms: the defined domains that bear the prefix; the static provider has none. *)
ListVms == IF backend = "static" THEN {} ELSE Defined \ {Template}

(* release or an orphan sweep: the VM is stopped, then deleted. *)
Retire(t, n) ==
  /\ pc[t] = "idle" /\ n \in ListVms
  /\ vm' = [vm EXCEPT ![t] = n]
  /\ pc' = [pc EXCEPT ![t] = "stop"]
  /\ raced' = (raced \/ n \in Building)
  /\ UNCHANGED <<backend, host, used, todo, xml, net, faults, cidFailed, gone>>

(* The session of a VM in service ends: cleanup_dynamic_vm. *)
CleanupDynamicVm(p, n) ==
  /\ pc[p] = "idle" /\ n \in Defined \ ({Template} \cup Building)
  /\ vm' = [vm EXCEPT ![p] = n]
  /\ pc' = [pc EXCEPT ![p] = "stop"]
  /\ UNCHANGED <<backend, host, used, todo, xml, net, hist>>

(* Every operation of the static provider is an error. *)
StaticRefuses(t) ==
  /\ backend = "static" /\ t \in Tasks /\ pc[t] \in Ops
  /\ Finish(t, pc[t], FALSE)
  /\ UNCHANGED <<backend, host, used, todo, xml, net, faults, raced, gone>>

(* The guest ends, when asked to shut down or of itself. *)
GuestPowersOff(n) ==
  /\ n \in Names /\ Running(n)
  /\ dom' = PoweredOff(n)
  /\ UNCHANGED <<backend, vols, used, caller, net, hist>>

(* An administrator starts and stops the template. *)
TemplateToggled ==
  /\ dom' = [dom EXCEPT ![Template].run = IF @ = Off THEN TemplateCid ELSE Off]
  /\ UNCHANGED <<backend, vols, used, caller, net, hist>>

-----------------------------------------------------------------------------
(* provider/libvirt.rs: the steps of an operation.                         *)

At(t, step) == backend = "libvirt" /\ t \in Tasks /\ pc[t] = step
Goto(t, step) == pc' = [pc EXCEPT ![t] = step] /\ UNCHANGED <<vm, cidFailed>>

(* clone_vm: the template is looked up, must be off; its XML never changes. *)
CloneVm(t) ==
  /\ At(t, "clone")
  /\ \/ Running(Template) /\ Finish(t, "clone", FALSE) /\ UNCHANGED todo
     \/ /\ ~Running(Template) /\ Goto(t, "volumes")
        /\ todo' = [todo EXCEPT ![t] = TemplateDisks]
  /\ UNCHANGED <<backend, host, used, xml, net, faults, raced, gone>>

(* clone_volumes, a disk: a failure abandons the volumes made so far. *)
CloneVolume(t) ==
  /\ At(t, "volumes") /\ todo[t] # <<>>
  /\ LET new == NewPath(Head(todo[t]), vm[t])
         Abandon == /\ Finish(t, "clone", FALSE)
                    /\ todo' = [todo EXCEPT ![t] = <<>>] /\ UNCHANGED vols
     IN IF new \in vols THEN Abandon /\ UNCHANGED faults
        ELSE \/ Fault /\ Abandon
             \/ /\ vols' = IF Head(todo[t]) \in vols THEN vols \cup {new} ELSE vols
                /\ todo' = [todo EXCEPT ![t] = Tail(@)]
                /\ UNCHANGED <<pc, vm, faults, cidFailed>>
  /\ UNCHANGED <<backend, dom, used, xml, net, raced, gone>>

(* clone_vm: the XML is rewritten and the domain defined. *)
DefineClone(t) ==
  /\ At(t, "volumes") /\ todo[t] = <<>>
  /\ \/ /\ dom' = [dom EXCEPT ![vm[t]] = RewriteDomainXml(dom[Template], vm[t])]
        /\ Finish(t, "clone", TRUE) /\ UNCHANGED faults
     \/ /\ Fault /\ Finish(t, "clone", FALSE) /\ UNCHANGED dom
  /\ UNCHANGED <<backend, vols, used, todo, xml, net, raced, gone>>

(* set_vsock_cid: the XML is read ... *)
SetVsockRead(t) ==
  /\ At(t, "set")
  /\ \/ /\ vm[t] \in Defined /\ Goto(t, "redefine")
        /\ xml' = [xml EXCEPT ![t] = [dom[vm[t]] EXCEPT !.run = Off]]
     \/ vm[t] \notin Defined /\ Finish(t, "set", FALSE) /\ UNCHANGED xml
  /\ UNCHANGED <<backend, host, used, todo, net, faults, raced, gone>>

(* ... and the domain defined again, whatever became of it meanwhile. *)
SetVsockDefine(t) ==
  /\ At(t, "redefine")
  /\ \/ /\ dom' = Redefined(vm[t], SetVsockInXml(xml[t], vm[t]))
        /\ Finish(t, "set", TRUE) /\ UNCHANGED faults
     \/ /\ Fault /\ Finish(t, "set", FALSE) /\ UNCHANGED dom
  /\ xml' = [xml EXCEPT ![t] = Absent]
  /\ UNCHANGED <<backend, vols, used, todo, net, raced, gone>>

StartVm(t) ==
  /\ At(t, "start")
  /\ \/ /\ Startable(vm[t]) /\ dom' = Started(vm[t])
        /\ Finish(t, "start", TRUE) /\ UNCHANGED faults
     \/ /\ ~Startable(vm[t]) /\ Finish(t, "start", FALSE) /\ UNCHANGED <<dom, faults>>
     \/ /\ Fault /\ Finish(t, "start", FALSE) /\ UNCHANGED dom
  /\ UNCHANGED <<backend, vols, used, todo, xml, net, raced, gone>>

(* stop_vm: the guest is asked to shut down; it is destroyed if that fails. *)
StopVm(t) ==
  /\ At(t, "stop")
  /\ \/ /\ Running(vm[t]) /\ Finish(t, "stop", TRUE) /\ UNCHANGED <<dom, faults>>
     \/ /\ Running(vm[t]) /\ Fault /\ dom' = PoweredOff(vm[t]) /\ Finish(t, "stop", TRUE)
     \/ /\ ~Running(vm[t]) /\ Finish(t, "stop", FALSE) /\ UNCHANGED <<dom, faults>>
  /\ UNCHANGED <<backend, vols, used, todo, xml, net, raced, gone>>

(* delete_vm: destroyed if active, its XML read; *)
DeleteVm(t) ==
  /\ At(t, "delete")
  /\ \/ /\ vm[t] \in Defined
        /\ dom' = PoweredOff(vm[t])
        /\ todo' = [todo EXCEPT ![t] = dom[vm[t]].disks]
        /\ Goto(t, "erase") /\ UNCHANGED faults
     \/ /\ vm[t] \notin Defined /\ Finish(t, "delete", FALSE)
        /\ UNCHANGED <<dom, todo, faults>>
  /\ UNCHANGED <<backend, vols, used, xml, net, raced, gone>>

(* its volumes deleted one by one, one that cannot be is left; *)
DeleteVolume(t) ==
  /\ At(t, "erase") /\ todo[t] # <<>>
  /\ \/ vols' = vols \ {Head(todo[t])} /\ UNCHANGED faults
     \/ Fault /\ UNCHANGED vols
  /\ todo' = [todo EXCEPT ![t] = Tail(@)]
  /\ UNCHANGED <<backend, dom, used, pc, vm, xml, net, raced, cidFailed, gone>>

(* then the domain undefined. *)
Undefine(t) ==
  /\ At(t, "erase") /\ todo[t] = <<>>
  /\ \/ /\ vm[t] \in Defined
        /\ dom' = Undefined(vm[t]) /\ gone' = gone \cup {vm[t]}
        /\ Finish(t, "delete", TRUE) /\ UNCHANGED faults
     \/ /\ vm[t] \notin Defined /\ Finish(t, "delete", FALSE)
        /\ UNCHANGED <<dom, gone, faults>>
     \/ /\ Fault /\ Finish(t, "delete", FALSE) /\ UNCHANGED <<dom, gone>>
  /\ UNCHANGED <<backend, vols, used, todo, xml, net, raced>>

LibvirtStep(t) ==
  \/ CloneVm(t) \/ CloneVolume(t) \/ DefineClone(t)
  \/ SetVsockRead(t) \/ SetVsockDefine(t) \/ StartVm(t) \/ StopVm(t)
  \/ DeleteVm(t) \/ DeleteVolume(t) \/ Undefine(t)

-----------------------------------------------------------------------------
(* nidan-host-agent: one connection per request.                           *)

UsesAgent(t) == t \in Proxies \/ backend = "host-agent"

(* send_request: connection and request ... *)
SendRequest(t) ==
  /\ UsesAgent(t) /\ pc[t] \in Ops /\ answer[t] = "none"
  /\ reqs' = reqs \cup {[op |-> pc[t], vm |-> vm[t], by |-> t, proxy |-> t \in Proxies]}
  /\ answer' = [answer EXCEPT ![t] = "wait"]
  /\ UNCHANGED <<backend, host, used, caller, hist>>

(* ... which fails: the proxy gives up the whole clean-up. *)
ConnectFails(t) ==
  /\ UsesAgent(t) /\ pc[t] \in Ops /\ answer[t] = "none" /\ Fault
  /\ IF t \in Proxies THEN Goto(t, "idle") ELSE Finish(t, pc[t], FALSE)
  /\ UNCHANGED <<backend, host, used, todo, xml, net, raced, gone>>

(* The connection breaks while the caller waits; the host agent may still act. *)
ConnectionBreaks(t) ==
  /\ answer[t] # "none" /\ Fault
  /\ reqs' = {[r EXCEPT !.by = IF @ = t THEN NoTask ELSE @] : r \in reqs}
  /\ answer' = [answer EXCEPT ![t] = "err"]
  /\ UNCHANGED <<backend, host, used, caller, raced, cidFailed, gone>>

(* The caller reads the answer. *)
IntoResult(t) ==
  /\ answer[t] \in {"ok", "err"}
  /\ Finish(t, pc[t], answer[t] = "ok")
  /\ answer' = [answer EXCEPT ![t] = "none"]
  /\ UNCHANGED <<backend, host, used, todo, xml, reqs, faults, raced, gone>>

(* handle_connection: the request is done with and the answer written. *)
Reply(r, ok) ==
  /\ reqs' = reqs \ {r}
  /\ answer' = IF r.by = NoTask THEN answer
               ELSE [answer EXCEPT ![r.by] = IF ok THEN "ok" ELSE "err"]

(* handle_request: the proxy may stop and delete, nothing else. *)
Allowed(r) == r.proxy => r.op \in {"stop", "delete"}

(* libvirt_ops.rs has its own copies of the functions on the XML. *)
AgentDiskPath(d, n) == NewPath(d, n)
AgentDomainXml(x, n) == RewriteDomainXml(x, n)
AgentVsockXml(x, cid) == SetVsockInXml(x, cid)

(* clone_volumes of the host agent: thin clones of the first k disks. *)
ThinClones(n, k) == {AgentDiskPath(TemplateDisks[i], n) : i \in 1..k}

AgentCloneVm(r) ==
  LET all == Len(TemplateDisks) IN
  \/ /\ ~Running(Template)
     /\ vols' = vols \cup ThinClones(r.vm, all)
     /\ dom' = [dom EXCEPT ![r.vm] = AgentDomainXml(dom[Template], r.vm)]
     /\ Reply(r, TRUE) /\ UNCHANGED faults
  \/ /\ Running(Template)
     /\ Reply(r, FALSE) /\ UNCHANGED <<host, faults>>
  \/ /\ ~Running(Template) /\ Fault
     /\ \E k \in 0..all : vols' = vols \cup ThinClones(r.vm, k)
     /\ Reply(r, FALSE) /\ UNCHANGED dom

\* Mutant: the XML is the template's, made anew, whether the domain is there or not.
AgentSetVsockCidUnchecked(r) ==
  /\ dom' = Redefined(r.vm, AgentVsockXml(AgentDomainXml(dom[Template], r.vm), r.vm))
  /\ Reply(r, TRUE) /\ UNCHANGED <<vols, faults>>

(* set_vsock_cid: the XML of the domain, read and defined again. *)
AgentSetVsockCid(r) ==
  \/ /\ r.vm \in Defined
     /\ dom' = Redefined(r.vm, AgentVsockXml(dom[r.vm], r.vm))
     /\ Reply(r, TRUE) /\ UNCHANGED <<vols, faults>>
  \/ r.vm \notin Defined /\ Reply(r, FALSE) /\ UNCHANGED <<host, faults>>

AgentStartVm(r) ==
  \/ /\ Startable(r.vm) /\ dom' = Started(r.vm)
     /\ Reply(r, TRUE) /\ UNCHANGED <<vols, faults>>
  \/ ~Startable(r.vm) /\ Reply(r, FALSE) /\ UNCHANGED <<host, faults>>

AgentStopVm(r) ==
  \/ Running(r.vm) /\ Reply(r, TRUE) /\ UNCHANGED <<host, faults>>
  \/ /\ Running(r.vm) /\ Fault /\ dom' = PoweredOff(r.vm)
     /\ Reply(r, TRUE) /\ UNCHANGED vols
  \/ ~Running(r.vm) /\ Reply(r, FALSE) /\ UNCHANGED <<host, faults>>

\* Mutant: only the first disk is deleted.
AgentDeleteVmFirstDisk(r) ==
  /\ vols' = IF r.vm \in Defined THEN vols \ {Head(dom[r.vm].disks)} ELSE vols
  /\ dom' = [dom EXCEPT ![r.vm] = Absent]
  /\ gone' = gone \cup {r.vm} /\ Reply(r, TRUE) /\ UNCHANGED faults

(* delete_vm: a volume that cannot be deleted is left behind; the host agent *)
(* may end before the domain is undefined.                                   *)
AgentDeleteVm(r) ==
  \/ /\ r.vm \in Defined
     /\ vols' = vols \ DisksOf(r.vm) /\ dom' = [dom EXCEPT ![r.vm] = Absent]
     /\ gone' = gone \cup {r.vm} /\ Reply(r, TRUE) /\ UNCHANGED faults
  \/ /\ r.vm \in Defined /\ Fault
     /\ \E d \in DisksOf(r.vm) : vols' = vols \ (DisksOf(r.vm) \ {d})
     /\ dom' = [dom EXCEPT ![r.vm] = Absent]
     /\ gone' = gone \cup {r.vm} /\ Reply(r, TRUE)
  \/ /\ r.vm \in Defined /\ Fault
     /\ \E left \in SUBSET DisksOf(r.vm) : vols' = vols \ (DisksOf(r.vm) \ left)
     /\ dom' = PoweredOff(r.vm)
     /\ Reply(r, FALSE) /\ UNCHANGED gone
  \/ /\ r.vm \notin Defined
     /\ Reply(r, FALSE) /\ UNCHANGED <<host, faults, gone>>

(* dispatch: the blocking operation. *)
Dispatch(r) ==
  \/ r.op = "clone"  /\ AgentCloneVm(r) /\ UNCHANGED gone
  \/ r.op = "set"    /\ AgentSetVsockCid(r) /\ UNCHANGED gone
  \/ r.op = "start"  /\ AgentStartVm(r) /\ UNCHANGED gone
  \/ r.op = "stop"   /\ AgentStopVm(r) /\ UNCHANGED gone
  \/ r.op = "delete" /\ AgentDeleteVm(r)

(* with_conn: the whole operation under the mutex of the connection, unless *)
(* libvirt cannot be reached.                                               *)
WithConn(r) ==
  \/ Dispatch(r)
  \/ Fault /\ Reply(r, FALSE) /\ UNCHANGED <<host, gone>>

(* handle_request: an operation refused to the proxy is an error. *)
HandleRequest(r) ==
  /\ IF Allowed(r) THEN WithConn(r) ELSE Reply(r, FALSE) /\ UNCHANGED <<host, faults, gone>>
  /\ UNCHANGED <<backend, used, caller, raced, cidFailed>>

AgentStep(t) ==
  SendRequest(t) \/ ConnectFails(t) \/ ConnectionBreaks(t) \/ IntoResult(t)

Next ==
  \/ \E t \in Tasks, n \in Names : Provision(t, n) \/ Retire(t, n)
  \/ \E p \in Proxies, n \in Names : CleanupDynamicVm(p, n)
  \/ \E t \in Tasks : StaticRefuses(t) \/ LibvirtStep(t)
  \/ \E t \in Callers : AgentStep(t)
  \/ \E r \in reqs : HandleRequest(r)
  \/ \E n \in Names : GuestPowersOff(n)
  \/ TemplateToggled

Spec == Init /\ [][Next]_vars

-----------------------------------------------------------------------------
(* Whatever is cloned, deleted or fails, and in whatever order, the template *)
(* is defined with its disks, the disks are there, and no clone has one of   *)
(* them: delete_vm only follows paths that clone_vm rewrote.                 *)
TemplateIntact ==
  /\ Template \in Defined /\ dom[Template].disks = TemplateDisks
  /\ Disks \subseteq vols
  /\ \A n \in Names : DisksOf(n) \cap Disks = {}

(* A VM runs with the CID that its token says, unless set_vsock_cid failed:  *)
(* the CID is in the XML before the VM starts, and no later definition loses *)
(* it.                                                                       *)
RunsWithItsCid ==
  \A n \in Names : Running(n) /\ n \notin cidFailed => dom[n].run = n

(* A volume without a domain is one a failed operation left, at most a       *)
(* clone's per failure, or one of a clone or a deletion under way.           *)
Orphans == {d \in vols : d.base \in Names \ ({v \in Names : v \in Defined} \cup
                           {vm[t] : t \in {u \in Tasks : pc[u] = "volumes"}})}
OrphansFromFailures == Cardinality(Orphans) <= faults * Len(TemplateDisks)

(* No VM has been retired by the libvirt provider while it was provisioned. *)
Undisturbed == backend = "host-agent" \/ ~raced

(* A VM that was deleted never comes back, whatever requests for it were     *)
(* under way, unless it was retired while the libvirt provider prepared it.  *)
GoneStaysGone == Undisturbed => gone \cap Defined = {}
=============================================================================
