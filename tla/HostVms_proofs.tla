---------------------------- MODULE HostVms_proofs ----------------------------
(***************************************************************************)
(* Proofs about HostVms, for all clones, tasks, proxies, disks of the      *)
(* template and numbers of failures.                                       *)
(***************************************************************************)
EXTENDS HostVms, SequenceTheorems, FiniteSetTheorems, TLAPS

CloneDisks == [dir : {d.dir : d \in Disks}, base : Names, ext : {d.ext : d \in Disks}]
Cids == Names \cup {TemplateCid, "none", Off}

Clones == [disks : Seq(CloneDisks), cid : Cids, run : Cids, kept : BOOLEAN]
Templates == [disks : {TemplateDisks}, cid : Cids, run : Cids, kept : {TRUE}]

(* The domains of the clones only know disks that bear a clone's name. *)
Apart == {d \in [AllVms -> Clones \cup Templates] :
             (\A n \in Names : d[n] \in Clones) /\ d[Template] \in Templates}
DomInv == dom \in Apart

(* Callers work on clones; what they will erase bears a clone's name. *)
CallerInv ==
  /\ pc \in [Callers -> Pc] /\ vm \in [Callers -> Names \cup {NoVm}]
  /\ xml \in [Callers -> Clones]
  /\ DOMAIN todo = Callers
  /\ \A t \in Callers : /\ pc[t] # "idle" => vm[t] \in Names
                        /\ pc[t] = "erase" => todo[t] \in Seq(CloneDisks)

(* A caller that waits for the host agent has an operation under way there. *)
NetInv ==
  /\ answer \in [Callers -> {"none", "wait", "ok", "err"}]
  /\ \A t \in Callers : answer[t] # "none" => pc[t] \in Ops /\ UsesAgent(t)
  /\ reqs \subseteq [op : Ops, vm : Names, by : Callers \cup {NoTask}, proxy : BOOLEAN]
  /\ \A r \in reqs : r.by \in Callers => answer[r.by] = "wait"
  /\ \A q, r \in reqs : q.by = r.by /\ q.by \in Callers => q = r

HostInv == DomInv /\ Disks \subseteq vols /\ CallerInv /\ NetInv

-----------------------------------------------------------------------------
(* The template's disks and the clones' have no disk in common. *)
LEMMA DisksApart == /\ \A d \in Disks : d.base = Template
                    /\ CloneDisks \cap Disks = {}
BY HostAssumption DEF Disks, CloneDisks, AllVms

LEMMA NewPathType ==
  ASSUME NEW d \in Disks, NEW n \in Names
  PROVE  NewPath(d, n) \in CloneDisks
BY DEF NewPath, SplitPath, CloneDisks

LEMMA RewriteType ==
  ASSUME NEW n \in Names
  PROVE  RewriteDiskPaths(TemplateDisks, n) \in Seq(CloneDisks)
<1>1. TemplateDisks \in Seq(Disks)
  BY HostAssumption DEF Disks
<1>2. \A i \in 1..Len(TemplateDisks) : TemplateDisks[i] \in Disks
  BY <1>1
<1>3. DOMAIN TemplateDisks = 1..Len(TemplateDisks) /\ Len(TemplateDisks) \in Nat
  BY <1>1
<1>4. \A i \in 1..Len(TemplateDisks) : NewPath(TemplateDisks[i], n) \in CloneDisks
  BY <1>2, NewPathType
<1>. QED
  BY <1>3, <1>4 DEF RewriteDiskPaths

LEMMA AbsentType == Absent \in Clones /\ <<>> \in Seq(CloneDisks)
BY DEF Absent, Clones, Cids, Off

LEMMA HostInit == Init => HostInv
<1> SUFFICES ASSUME Init PROVE HostInv
  OBVIOUS
<1>1. DomInv
  BY AbsentType, HostAssumption DEF Init, DomInv, Apart, Templates, AllVms, Cids, Off
<1>2. CallerInv
  BY AbsentType DEF Init, CallerInv, Pc
<1>3. NetInv
  BY DEF Init, NetInv
<1>. QED
  BY <1>1, <1>2, <1>3 DEF Init, HostInv

-----------------------------------------------------------------------------
(* What an operation does to the domains. *)

LEMMA Replaced ==
  ASSUME NEW d \in Apart, NEW n \in Names, NEW c \in Clones
  PROVE  [d EXCEPT ![n] = c] \in Apart
BY HostAssumption DEF Apart, AllVms

LEMMA DomainUpdates ==
  ASSUME DomInv, NEW n \in Names
  PROVE  /\ PoweredOff(n) \in Apart /\ Undefined(n) \in Apart /\ Started(n) \in Apart
         /\ \A x \in Clones : Redefined(n, x) \in Apart /\ SetVsockInXml(x, n) \in Clones
         /\ RewriteDomainXml(dom[Template], n) \in Clones
         /\ dom[n] \in Clones /\ [dom[n] EXCEPT !.run = Off] \in Clones
         /\ dom[n].disks \in Seq(CloneDisks) /\ DisksOf(n) \subseteq CloneDisks
<1>1. dom \in Apart /\ dom[n] \in Clones /\ Off \in Cids /\ n \in Cids
  BY DEF DomInv, Apart, Cids
<1>2. [dom[n] EXCEPT !.run = Off] \in Clones /\ [dom[n] EXCEPT !.kept = FALSE] \in Clones
  BY <1>1 DEF Clones
<1>3. PoweredOff(n) \in Apart /\ Undefined(n) \in Apart
  BY <1>1, <1>2, Replaced, AbsentType DEF PoweredOff, Undefined
<1>4. Started(n) \in Apart
  <2>1. [dom[n] EXCEPT !.run = dom[n].cid] \in Clones
    BY <1>1 DEF Clones
  <2>2. Started(n) = [dom EXCEPT ![n] = [dom[n] EXCEPT !.run = dom[n].cid]]
    BY DEF Started
  <2>3. PICK c \in Clones : c = [dom[n] EXCEPT !.run = dom[n].cid]
    BY <2>1
  <2>4. Started(n) = [dom EXCEPT ![n] = c]
    BY <2>2, <2>3, Zenon
  <2>. QED
    BY <1>1, <2>4, Replaced, Zenon
<1>5. ASSUME NEW x \in Clones
      PROVE  Redefined(n, x) \in Apart /\ SetVsockInXml(x, n) \in Clones
  <2>1. [x EXCEPT !.run = dom[n].run, !.kept = TRUE] \in Clones /\ [x EXCEPT !.cid = n] \in Clones
    BY <1>1 DEF Clones
  <2>. QED
    BY <1>1, <2>1, Replaced DEF Redefined, SetVsockInXml
<1>6. RewriteDomainXml(dom[Template], n) \in Clones
  <2>1. dom[Template].disks = TemplateDisks /\ dom[Template].cid \in Cids
    BY <1>1 DEF Apart, Templates
  <2>. QED
    BY <1>1, <2>1, RewriteType DEF RewriteDomainXml, Clones
<1>7. dom[n].disks \in Seq(CloneDisks)
  BY <1>1 DEF Clones
<1>8. DisksOf(n) \subseteq CloneDisks
  BY <1>7 DEF DisksOf
<1>. QED
  BY <1>1, <1>2, <1>3, <1>4, <1>5, <1>6, <1>7, <1>8

(* Erasing disks of clones, or making volumes, leaves the template's. *)
LEMMA VolumesKept ==
  ASSUME Disks \subseteq vols, NEW E \in SUBSET CloneDisks
  PROVE  Disks \subseteq vols \ E
BY DisksApart

-----------------------------------------------------------------------------
(* What an operation does to its caller. *)

LEMMA FinishKeeps ==
  ASSUME CallerInv, NEW t \in Callers, vm[t] \in Names, NEW op \in Ops, NEW ok \in BOOLEAN,
         Finish(t, op, ok), xml' \in [Callers -> Clones], DOMAIN todo' = Callers,
         \A u \in Callers \ {t} : todo'[u] = todo[u]
  PROVE  CallerInv' /\ \A u \in Callers \ {t} : pc'[u] = pc[u]
<1>1. After(op, ok) \in {"set", "start", "delete", "idle"}
  BY DEF After, Ops
<1>2. /\ pc' = [pc EXCEPT ![t] = After(op, ok)]
      /\ vm' = [vm EXCEPT ![t] = IF After(op, ok) = "idle" THEN NoVm ELSE @]
  BY DEF Finish
<1> DEFINE to == After(op, ok)
<1> HIDE DEF to
<1>3. to \in Pc /\ to # "erase"
  BY <1>1 DEF to, Pc, Ops
<1>. QED
  BY <1>2, <1>3 DEF CallerInv, to

LEMMA GotoKeeps ==
  ASSUME CallerInv, NEW t \in Callers, NEW step \in Pc, Goto(t, step),
         step = "idle" \/ vm[t] \in Names,
         xml' \in [Callers -> Clones], DOMAIN todo' = Callers,
         \A u \in Callers \ {t} : todo'[u] = todo[u],
         step = "erase" => todo'[t] \in Seq(CloneDisks)
  PROVE  CallerInv' /\ \A u \in Callers \ {t} : pc'[u] = pc[u]
BY DEF CallerInv, Goto

(* A caller that waits for no answer may move on. *)
LEMMA NetKeeps ==
  ASSUME NetInv, NEW t \in Callers, answer[t] = "none", UNCHANGED <<backend, net>>,
         \A u \in Callers \ {t} : pc'[u] = pc[u]
  PROVE  NetInv'
BY DEF NetInv, net, UsesAgent

LEMMA CallerKept == CallerInv /\ UNCHANGED caller => CallerInv'
BY DEF CallerInv, caller

-----------------------------------------------------------------------------
(* The libvirt provider. *)

LEMMA LibvirtKeeps ==
  ASSUME HostInv, NEW t \in Tasks, LibvirtStep(t)
  PROVE  HostInv'
<1>1. t \in Callers /\ backend = "libvirt" /\ UNCHANGED <<backend, net>>
  BY DEF Callers, LibvirtStep, CloneVm, CloneVolume, DefineClone, SetVsockRead, SetVsockDefine,
     StartVm, StopVm, DeleteVm, DeleteVolume, Undefine, At
<1>2. answer[t] = "none"
  BY <1>1, HostAssumption DEF HostInv, NetInv, UsesAgent
<1>3. /\ DomInv /\ Disks \subseteq vols /\ CallerInv /\ NetInv
      /\ xml \in [Callers -> Clones] /\ DOMAIN todo = Callers
  BY DEF HostInv, CallerInv
<1>4. pc[t] # "idle" => vm[t] \in Names
  BY <1>1, <1>3 DEF CallerInv
(* The whole, from its parts. *)
<1>5. ASSUME DomInv', (Disks \subseteq vols)', CallerInv', \A u \in Callers \ {t} : pc'[u] = pc[u]
      PROVE  HostInv'
  BY <1>1, <1>2, <1>3, <1>5, NetKeeps DEF HostInv
<1>6. UNCHANGED host => DomInv' /\ (Disks \subseteq vols)'
  BY <1>3 DEF DomInv, host
<1>7. "clone" \in Ops /\ "set" \in Ops /\ "start" \in Ops /\ "stop" \in Ops /\ "delete" \in Ops
  BY DEF Ops
<1>8. "volumes" \in Pc /\ "redefine" \in Pc /\ "erase" \in Pc
  BY DEF Pc
<1>9. CASE CloneVm(t)
  <2>1. UNCHANGED <<host, xml>> /\ vm[t] \in Names
    BY <1>4, <1>9 DEF CloneVm, At
  <2>2. CASE Finish(t, "clone", FALSE) /\ UNCHANGED todo
    BY <1>1, <1>3, <1>5, <1>6, <1>7, <2>1, <2>2, FinishKeeps
  <2>3. CASE Goto(t, "volumes") /\ todo' = [todo EXCEPT ![t] = TemplateDisks]
    BY <1>1, <1>3, <1>5, <1>6, <1>8, <2>1, <2>3, GotoKeeps
  <2>. QED
    BY <1>9, <2>2, <2>3 DEF CloneVm
<1>10. CASE CloneVolume(t)
  <2>1. UNCHANGED <<dom, xml>> /\ vm[t] \in Names /\ DOMAIN todo' = Callers
        /\ (\A u \in Callers \ {t} : todo'[u] = todo[u]) /\ vols \subseteq vols'
    BY <1>3, <1>4, <1>10 DEF CloneVolume, At
  <2>2. DomInv' /\ (Disks \subseteq vols)'
    BY <1>3, <2>1 DEF DomInv
  <2>3. CASE Finish(t, "clone", FALSE)
    BY <1>1, <1>3, <1>5, <1>7, <2>1, <2>2, <2>3, FinishKeeps
  <2>4. CASE UNCHANGED <<pc, vm, xml>> /\ todo' = [todo EXCEPT ![t] = Tail(@)]
    <3>1. pc[t] = "volumes"
      BY <1>10 DEF CloneVolume, At
    <3>2. CallerInv'
      BY <2>1, <2>4, <3>1 DEF HostInv, CallerInv
    <3>. QED
      BY <1>5, <2>2, <2>4, <3>2
  <2>. QED
    BY <1>10, <2>1, <2>3, <2>4 DEF CloneVolume
<1>11. CASE DefineClone(t)
  <2>1. UNCHANGED <<vols, xml, todo>> /\ vm[t] \in Names
    BY <1>4, <1>11 DEF DefineClone, At
  <2>2. dom' \in Apart
    <3>1. RewriteDomainXml(dom[Template], vm[t]) \in Clones
      BY <1>3, <2>1, DomainUpdates
    <3>2. [dom EXCEPT ![vm[t]] = RewriteDomainXml(dom[Template], vm[t])] \in Apart
      BY <1>3, <2>1, <3>1, Replaced DEF DomInv
    <3>. QED
      BY <1>3, <1>11, <3>2 DEF DefineClone, DomInv
  <2>3. Finish(t, "clone", TRUE) \/ Finish(t, "clone", FALSE)
    BY <1>11 DEF DefineClone
  <2>. QED
    BY <1>1, <1>3, <1>5, <1>7, <2>1, <2>2, <2>3, FinishKeeps DEF DomInv
<1>12. CASE SetVsockRead(t)
  <2>1. UNCHANGED <<host, todo>> /\ vm[t] \in Names
    BY <1>4, <1>12 DEF SetVsockRead, At
  <2>2. CASE Goto(t, "redefine") /\ xml' = [xml EXCEPT ![t] = [dom[vm[t]] EXCEPT !.run = Off]]
    <3>1. xml' \in [Callers -> Clones]
      BY <1>1, <1>3, <2>1, <2>2, DomainUpdates
    <3>. QED
      BY <1>1, <1>3, <1>5, <1>6, <1>8, <2>1, <2>2, <3>1, GotoKeeps
  <2>3. CASE Finish(t, "set", FALSE) /\ UNCHANGED xml
    BY <1>1, <1>3, <1>5, <1>6, <1>7, <2>1, <2>3, FinishKeeps
  <2>. QED
    BY <1>12, <2>2, <2>3 DEF SetVsockRead
<1>13. CASE SetVsockDefine(t)
  <2>1. UNCHANGED <<vols, todo>> /\ vm[t] \in Names /\ xml' = [xml EXCEPT ![t] = Absent]
    BY <1>4, <1>13 DEF SetVsockDefine, At
  <2>2. xml' \in [Callers -> Clones] /\ xml[t] \in Clones
    BY <1>1, <1>3, <2>1, AbsentType
  <2>3. dom' \in Apart
    BY <1>3, <1>13, <2>1, <2>2, DomainUpdates DEF SetVsockDefine, DomInv
  <2>4. Finish(t, "set", TRUE) \/ Finish(t, "set", FALSE)
    BY <1>13 DEF SetVsockDefine
  <2>. QED
    BY <1>1, <1>3, <1>5, <1>7, <2>1, <2>2, <2>3, <2>4, FinishKeeps DEF DomInv
<1>14. CASE StartVm(t)
  <2>1. UNCHANGED <<vols, todo, xml>> /\ vm[t] \in Names
    BY <1>4, <1>14 DEF StartVm, At
  <2>2. dom' \in Apart
    BY <1>3, <1>14, <2>1, DomainUpdates DEF StartVm, DomInv
  <2>3. Finish(t, "start", TRUE) \/ Finish(t, "start", FALSE)
    BY <1>14 DEF StartVm
  <2>. QED
    BY <1>1, <1>3, <1>5, <1>7, <2>1, <2>2, <2>3, FinishKeeps DEF DomInv
<1>15. CASE StopVm(t)
  <2>1. UNCHANGED <<vols, todo, xml>> /\ vm[t] \in Names
    BY <1>4, <1>15 DEF StopVm, At
  <2>2. dom' \in Apart
    BY <1>3, <1>15, <2>1, DomainUpdates DEF StopVm, DomInv
  <2>3. Finish(t, "stop", TRUE) \/ Finish(t, "stop", FALSE)
    BY <1>15 DEF StopVm
  <2>. QED
    BY <1>1, <1>3, <1>5, <1>7, <2>1, <2>2, <2>3, FinishKeeps DEF DomInv
<1>16. CASE DeleteVm(t)
  <2>1. UNCHANGED <<vols, xml>> /\ vm[t] \in Names
    BY <1>4, <1>16 DEF DeleteVm, At
  <2>2. CASE /\ dom' = PoweredOff(vm[t]) /\ Goto(t, "erase")
             /\ todo' = [todo EXCEPT ![t] = dom[vm[t]].disks]
    <3>1. dom' \in Apart /\ dom[vm[t]].disks \in Seq(CloneDisks)
      BY <1>3, <2>1, <2>2, DomainUpdates
    <3>2. todo'[t] \in Seq(CloneDisks)
      BY <1>1, <1>3, <2>2, <3>1
    <3>. QED
      BY <1>1, <1>3, <1>5, <1>8, <2>1, <2>2, <3>1, <3>2, GotoKeeps DEF DomInv
  <2>3. CASE Finish(t, "delete", FALSE) /\ UNCHANGED <<dom, todo>>
    BY <1>1, <1>3, <1>5, <1>7, <2>1, <2>3, FinishKeeps DEF DomInv
  <2>. QED
    BY <1>16, <2>2, <2>3 DEF DeleteVm
<1>17. CASE DeleteVolume(t)
  <2>1. /\ UNCHANGED <<dom, xml, pc, vm>> /\ vm[t] \in Names /\ pc[t] = "erase"
        /\ todo[t] # <<>> /\ todo' = [todo EXCEPT ![t] = Tail(@)]
        /\ vols' = vols \ {Head(todo[t])} \/ vols' = vols
    BY <1>4, <1>17 DEF DeleteVolume, At
  <2>2. Head(todo[t]) \in CloneDisks /\ Tail(todo[t]) \in Seq(CloneDisks)
    BY <1>1, <1>3, <2>1 DEF CallerInv
  <2>3. (Disks \subseteq vols)'
    BY <1>3, <2>1, <2>2, VolumesKept
  <2>4. CallerInv'
    BY <1>1, <2>1, <2>2 DEF HostInv, CallerInv
  <2>. QED
    BY <1>3, <1>5, <2>1, <2>3, <2>4 DEF DomInv
<1>18. CASE Undefine(t)
  <2>1. UNCHANGED <<vols, todo, xml>> /\ vm[t] \in Names
    BY <1>4, <1>18 DEF Undefine, At
  <2>2. dom' \in Apart
    BY <1>3, <1>18, <2>1, DomainUpdates DEF Undefine, DomInv
  <2>3. Finish(t, "delete", TRUE) \/ Finish(t, "delete", FALSE)
    BY <1>18 DEF Undefine
  <2>. QED
    BY <1>1, <1>3, <1>5, <1>7, <2>1, <2>2, <2>3, FinishKeeps DEF DomInv
<1>. QED
  BY <1>9, <1>10, <1>11, <1>12, <1>13, <1>14, <1>15, <1>16, <1>17, <1>18 DEF LibvirtStep

-----------------------------------------------------------------------------
(* The host agent. *)

(* The callers stand still while it works. *)
LEMMA ReplyKeeps ==
  ASSUME NetInv, NEW r \in reqs, NEW ok \in BOOLEAN, Reply(r, ok),
         UNCHANGED <<backend, caller>>
  PROVE  NetInv'
<1>1. reqs' = reqs \ {r} /\ UNCHANGED <<backend, pc>> /\ r.by \in Callers \cup {NoTask}
  BY DEF NetInv, Reply, caller
<1>2. CASE r.by = NoTask
  BY <1>1, <1>2 DEF NetInv, Reply, UsesAgent
<1>3. CASE r.by # NoTask
  <2>1. r.by \in Callers /\ answer[r.by] = "wait"
    BY <1>1, <1>3 DEF NetInv
  <2>2. PICK a \in {"ok", "err"} : answer' = [answer EXCEPT ![r.by] = a]
    BY <1>3 DEF Reply
  <2>3. answer' \in [Callers -> {"none", "wait", "ok", "err"}]
    BY <2>2 DEF NetInv
  <2>4. \A t \in Callers : answer'[t] # "none" => pc[t] \in Ops /\ UsesAgent(t)
    BY <2>1, <2>2 DEF NetInv
  <2>5. \A q \in reqs \ {r} : q.by \in Callers => answer'[q.by] = "wait"
    BY <2>1, <2>2 DEF NetInv
  <2>. QED
    BY <1>1, <2>3, <2>4, <2>5 DEF NetInv, UsesAgent
<1>. QED
  BY <1>2, <1>3

LEMMA ThinClonesType ==
  ASSUME NEW n \in Names, NEW k \in 0..Len(TemplateDisks)
  PROVE  ThinClones(n, k) \subseteq CloneDisks
<1>1. TemplateDisks \in Seq(Disks)
  BY HostAssumption DEF Disks
<1>2. \A i \in 1..k : TemplateDisks[i] \in Disks
  BY <1>1
<1>. QED
  BY <1>2, NewPathType DEF ThinClones, AgentDiskPath

LEMMA RequestKeeps ==
  ASSUME HostInv, NEW r \in reqs, HandleRequest(r)
  PROVE  HostInv'
<1>1. /\ DomInv /\ Disks \subseteq vols /\ CallerInv /\ NetInv
      /\ UNCHANGED <<backend, caller>> /\ r.vm \in Names
  BY DEF HostInv, HandleRequest, NetInv
(* The whole, from its parts. *)
<1>2. ASSUME dom' \in Apart, (Disks \subseteq vols)', \E ok \in BOOLEAN : Reply(r, ok)
      PROVE  HostInv'
  BY <1>1, <1>2, ReplyKeeps, CallerKept DEF HostInv, DomInv
<1>3. dom \in Apart
  BY <1>1 DEF DomInv
<1>4. CASE UNCHANGED host /\ \E ok \in BOOLEAN : Reply(r, ok)
  BY <1>1, <1>2, <1>3, <1>4 DEF host
<1>5. CASE AgentCloneVm(r)
  <2>1. \/ \E ok \in BOOLEAN : Reply(r, ok) /\ UNCHANGED host
        \/ \E k \in 0..Len(TemplateDisks), ok \in BOOLEAN :
              /\ vols' = vols \cup ThinClones(r.vm, k) /\ Reply(r, ok)
              /\ dom' = [dom EXCEPT ![r.vm] = RewriteDomainXml(dom[Template], r.vm)] \/ dom' = dom
    <3>1. Len(TemplateDisks) \in 0..Len(TemplateDisks)
      BY HostAssumption
    <3>. QED
      BY <1>5, <3>1 DEF AgentCloneVm, AgentDomainXml
  <2>2. [dom EXCEPT ![r.vm] = RewriteDomainXml(dom[Template], r.vm)] \in Apart
    <3>1. RewriteDomainXml(dom[Template], r.vm) \in Clones
      BY <1>1, DomainUpdates, Zenon
    <3>. QED
      BY <1>1, <1>3, <3>1, Replaced, Zenon
  <2>. QED
    BY <1>1, <1>2, <1>3, <1>4, <2>1, <2>2
<1>6. CASE AgentSetVsockCid(r)
  <2>1. dom[r.vm] \in Clones /\ SetVsockInXml(dom[r.vm], r.vm) \in Clones
    BY <1>1, DomainUpdates
  <2>2. Redefined(r.vm, SetVsockInXml(dom[r.vm], r.vm)) \in Apart
    BY <1>1, <2>1, DomainUpdates
  <2>. QED
    BY <1>1, <1>2, <1>3, <1>6, <2>2 DEF AgentSetVsockCid, AgentVsockXml, host
<1>7. CASE AgentStartVm(r)
  BY <1>1, <1>2, <1>3, <1>7, DomainUpdates DEF AgentStartVm, host
<1>8. CASE AgentStopVm(r)
  BY <1>1, <1>2, <1>3, <1>8, DomainUpdates DEF AgentStopVm, host
<1>9. CASE AgentDeleteVm(r)
  <2>1. /\ dom' = [dom EXCEPT ![r.vm] = Absent] \/ dom' = PoweredOff(r.vm) \/ dom' = dom
        /\ \E E \in SUBSET DisksOf(r.vm) : vols' = vols \ E
        /\ \E ok \in BOOLEAN : Reply(r, ok)
    <3>1. CASE vols' = vols
      <4>1. vols' = vols \ {}
        BY <3>1
      <4>. QED
        BY <1>9, <4>1 DEF AgentDeleteVm, host
    <3>2. CASE vols' # vols
      BY <1>9, <3>2 DEF AgentDeleteVm, host
    <3>. QED
      BY <3>1, <3>2
  <2>2. (Disks \subseteq vols)'
    BY <1>1, <2>1, DomainUpdates, VolumesKept
  <2>3. dom' \in Apart
    <3>1. [dom EXCEPT ![r.vm] = Absent] \in Apart
      BY <1>1, <1>3, Replaced, AbsentType, Zenon
    <3>2. PoweredOff(r.vm) \in Apart
      BY <1>1, DomainUpdates, Zenon
    <3>. QED
      BY <1>3, <2>1, <3>1, <3>2, Zenon
  <2>. QED
    BY <1>2, <2>1, <2>2, <2>3
<1>. QED
  BY <1>4, <1>5, <1>6, <1>7, <1>8, <1>9 DEF HandleRequest, WithConn, Dispatch, host

LEMMA AgentKeeps ==
  ASSUME HostInv, NEW t \in Callers, AgentStep(t)
  PROVE  HostInv'
<1>1. /\ DomInv /\ Disks \subseteq vols /\ CallerInv /\ NetInv
      /\ UNCHANGED <<backend, host, todo, xml>>
      /\ xml \in [Callers -> Clones] /\ DOMAIN todo = Callers
      /\ pc[t] \in Ops => vm[t] \in Names
  BY DEF HostInv, CallerInv, AgentStep, SendRequest, ConnectFails, ConnectionBreaks, IntoResult,
     caller, Ops
<1>2. DomInv' /\ (Disks \subseteq vols)'
  BY <1>1 DEF DomInv, host
<1>3. CASE SendRequest(t)
  <2>1. CallerInv' /\ UNCHANGED caller
    BY <1>1, <1>3, CallerKept DEF SendRequest
  <2>2. PICK q \in [op : Ops, vm : Names, by : Callers, proxy : BOOLEAN] :
          q.by = t /\ reqs' = reqs \cup {q}
    <3>1. (t \in Proxies) \in BOOLEAN
      OBVIOUS
    <3>2. PICK b \in BOOLEAN : b = (t \in Proxies)
      BY <3>1, Zenon
    <3>3. reqs' = reqs \cup {[op |-> pc[t], vm |-> vm[t], by |-> t, proxy |-> b]}
      BY <1>3, <3>2, Zenon DEF SendRequest
    <3>4. pc[t] \in Ops /\ vm[t] \in Names
      BY <1>1, <1>3 DEF SendRequest
    <3>. QED
      BY <3>3, <3>4
  <2>3. \A r \in reqs : r.by # t
    BY <1>1, <1>3 DEF SendRequest, NetInv
  <2>4. answer' = [answer EXCEPT ![t] = "wait"] /\ pc[t] \in Ops /\ UsesAgent(t)
    BY <1>3 DEF SendRequest
  <2>5. NetInv'
    BY <1>1, <2>1, <2>2, <2>3, <2>4 DEF NetInv, UsesAgent, caller
  <2>. QED
    BY <1>2, <2>1, <2>5 DEF HostInv
<1>4. CASE ConnectFails(t)
  <2>1. pc[t] \in Ops /\ answer[t] = "none" /\ UNCHANGED net
        /\ (Goto(t, "idle") \/ Finish(t, pc[t], FALSE))
    BY <1>4 DEF ConnectFails
  <2>2. CallerInv' /\ \A u \in Callers \ {t} : pc'[u] = pc[u]
    <3>1. CASE Goto(t, "idle")
      <4>1. "idle" \in Pc /\ "idle" # "erase"
        BY DEF Pc
      <4>. QED
        BY <1>1, <3>1, <4>1, GotoKeeps
    <3>2. CASE Finish(t, pc[t], FALSE)
      BY <1>1, <2>1, <3>2, FinishKeeps
    <3>. QED
      BY <2>1, <3>1, <3>2
  <2>. QED
    BY <1>1, <1>2, <2>1, <2>2, NetKeeps DEF HostInv
<1>5. CASE ConnectionBreaks(t)
  <2>1. CallerInv' /\ UNCHANGED caller
    BY <1>1, <1>5, CallerKept DEF ConnectionBreaks
  <2>2. /\ reqs' = {[r EXCEPT !.by = IF @ = t THEN NoTask ELSE @] : r \in reqs}
        /\ answer' = [answer EXCEPT ![t] = "err"] /\ answer[t] # "none"
    BY <1>5 DEF ConnectionBreaks
  <2>3. /\ answer' \in [Callers -> {"none", "wait", "ok", "err"}]
        /\ \A u \in Callers : answer'[u] # "none" => pc'[u] \in Ops /\ UsesAgent(u)'
    BY <1>1, <2>1, <2>2 DEF NetInv, UsesAgent, caller
  <2>4. \A q \in reqs' : \E r \in reqs :
           /\ q = [r EXCEPT !.by = IF @ = t THEN NoTask ELSE @]
           /\ r \in [op : Ops, vm : Names, by : Callers \cup {NoTask}, proxy : BOOLEAN]
    BY <1>1, <2>2 DEF NetInv
  <2>5. reqs' \subseteq [op : Ops, vm : Names, by : Callers \cup {NoTask}, proxy : BOOLEAN]
    BY <2>4
  <2>6. \A q \in reqs' : q.by \in Callers => q \in reqs /\ q.by # t
    <3>1. SUFFICES ASSUME NEW q \in reqs', q.by \in Callers PROVE q \in reqs /\ q.by # t
      OBVIOUS
    <3>2. PICK r \in reqs :
             /\ q = [r EXCEPT !.by = IF @ = t THEN NoTask ELSE @]
             /\ r \in [op : Ops, vm : Names, by : Callers \cup {NoTask}, proxy : BOOLEAN]
      BY <2>4
    <3>3. r.by # t
      BY <3>1, <3>2, HostAssumption
    <3>4. q = r
      BY <3>2, <3>3
    <3>. QED
      BY <3>3, <3>4
  <2>7. NetInv'
    BY <1>1, <2>2, <2>3, <2>5, <2>6 DEF NetInv
  <2>. QED
    BY <1>2, <2>1, <2>7 DEF HostInv
<1>6. CASE IntoResult(t)
  <2>1. /\ answer[t] \in {"ok", "err"} /\ Finish(t, pc[t], answer[t] = "ok")
        /\ answer' = [answer EXCEPT ![t] = "none"] /\ UNCHANGED <<backend, reqs>>
    BY <1>6 DEF IntoResult
  <2>2. pc[t] \in Ops /\ vm[t] \in Names /\ (answer[t] = "ok") \in BOOLEAN
    BY <1>1, <2>1 DEF NetInv
  <2>3. CallerInv' /\ \A u \in Callers \ {t} : pc'[u] = pc[u]
    BY <1>1, <2>1, <2>2, FinishKeeps
  <2>4. NetInv'
    BY <1>1, <2>1, <2>3 DEF NetInv, UsesAgent
  <2>. QED
    BY <1>2, <2>3, <2>4 DEF HostInv
<1>. QED
  BY <1>3, <1>4, <1>5, <1>6 DEF AgentStep

-----------------------------------------------------------------------------
(* The other steps. *)

(* A caller that starts an operation, or whose operation is refused. *)
LEMMA StartsKeeps ==
  ASSUME HostInv, NEW t \in Callers, NEW n \in Names, NEW step \in Ops,
         pc[t] = "idle", pc' = [pc EXCEPT ![t] = step], vm' = [vm EXCEPT ![t] = n],
         UNCHANGED <<backend, host, todo, xml, net>>
  PROVE  HostInv'
<1>1. step \in Pc /\ step # "erase" /\ "idle" \notin Ops
  BY DEF Pc, Ops
<1>2. CallerInv'
  BY <1>1 DEF HostInv, CallerInv
<1>3. answer[t] = "none"
  BY <1>1 DEF HostInv, NetInv
<1>. QED
  BY <1>2, <1>3, NetKeeps DEF HostInv, DomInv, host

LEMMA HostStep == HostInv /\ [Next]_vars => HostInv'
<1> SUFFICES ASSUME HostInv, [Next]_vars PROVE HostInv'
  OBVIOUS
<1>1. DomInv /\ Disks \subseteq vols /\ CallerInv /\ NetInv
  BY DEF HostInv
(* The domains change, nothing else that the invariant is about does. *)
<1>2. ASSUME dom' \in Apart, UNCHANGED <<backend, vols, caller, net>>
      PROVE  HostInv'
  BY <1>1, <1>2, CallerKept DEF HostInv, DomInv, NetInv, UsesAgent, caller, net
<1>3. ASSUME NEW t \in Tasks, NEW n \in Names, Provision(t, n) \/ Retire(t, n)
      PROVE  HostInv'
  BY <1>3, StartsKeeps DEF Provision, Retire, Callers, Ops
<1>4. ASSUME NEW p \in Proxies, NEW n \in Names, CleanupDynamicVm(p, n)
      PROVE  HostInv'
  BY <1>4, StartsKeeps DEF CleanupDynamicVm, Callers, Ops
<1>5. ASSUME NEW t \in Tasks, StaticRefuses(t)
      PROVE  HostInv'
  <2>1. /\ t \in Callers /\ pc[t] \in Ops /\ Finish(t, pc[t], FALSE) /\ backend = "static"
        /\ UNCHANGED <<backend, host, todo, xml, net>>
    BY <1>5 DEF StaticRefuses, Callers
  <2>2. /\ vm[t] \in Names /\ xml \in [Callers -> Clones] /\ DOMAIN todo = Callers
        /\ answer[t] = "none"
    BY <1>1, <2>1, HostAssumption DEF CallerInv, NetInv, Ops, UsesAgent
  <2>3. CallerInv' /\ \A u \in Callers \ {t} : pc'[u] = pc[u]
    BY <1>1, <2>1, <2>2, FinishKeeps
  <2>. QED
    BY <1>1, <2>1, <2>2, <2>3, NetKeeps DEF HostInv, DomInv, host
<1>6. ASSUME NEW n \in Names, GuestPowersOff(n)
      PROVE  HostInv'
  BY <1>1, <1>2, <1>6, DomainUpdates DEF GuestPowersOff
<1>7. CASE TemplateToggled
  <2>1. PICK c \in Cids : dom' = [dom EXCEPT ![Template].run = c]
    BY <1>7 DEF TemplateToggled, Cids
  <2>2. [dom[Template] EXCEPT !.run = c] \in Templates
    BY <1>1 DEF DomInv, Apart, Templates
  <2>3. dom' = [dom EXCEPT ![Template] = [dom[Template] EXCEPT !.run = c]]
    BY <2>1
  <2>4. dom' \in Apart
    BY <1>1, <2>2, <2>3, HostAssumption DEF DomInv, Apart, AllVms
  <2>. QED
    BY <1>2, <1>7, <2>4 DEF TemplateToggled
<1>8. CASE UNCHANGED vars
  BY <1>1, <1>2, <1>8 DEF vars, host, DomInv
<1>. QED
  BY <1>3, <1>4, <1>5, <1>6, <1>7, <1>8, LibvirtKeeps, AgentKeeps, RequestKeeps DEF Next

LEMMA HostInvIntact == HostInv => TemplateIntact
<1> SUFFICES ASSUME HostInv PROVE TemplateIntact
  OBVIOUS
<1>1. dom[Template] \in Templates /\ dom \in Apart
  BY DEF HostInv, DomInv, Apart
<1>2. dom[Template].kept = TRUE /\ dom[Template].disks = TemplateDisks
  BY <1>1 DEF Templates
<1>3. dom[Template] # Absent
  BY <1>2 DEF Absent
<1>4. \A n \in Names : DisksOf(n) \cap Disks = {}
  BY DomainUpdates, DisksApart DEF HostInv
<1>. QED
  BY <1>2, <1>3, <1>4 DEF TemplateIntact, Defined, HostInv, AllVms

(* No sequence of clones, starts, deletions and failures, whatever the      *)
(* broker's tasks, the host agent and the proxy's sessions interleave,      *)
(* touches the template or gives one of its disks to a clone.               *)
THEOREM TemplateSafety == Spec => []TemplateIntact
<1>. QED
  BY HostInit, HostStep, HostInvIntact, PTL DEF Spec

-----------------------------------------------------------------------------
(* What holds of each clone n by itself: of its domain and volumes, of the *)
(* callers that work on it and of the requests about it.                   *)

Builds(t) == pc[t] \in {"clone", "volumes", "set", "redefine", "start"}
Deletes(t) == pc[t] \in {"stop", "delete", "erase"}
On(n) == {t \in Callers : pc[t] # "idle" /\ vm[t] = n}
Of(n) == {r \in reqs : r.vm = n}
VolsOf(n) == {d \in vols : d.base = n}
CloneVols(n, k) == {NewPath(TemplateDisks[i], n) : i \in 1..k}

Fresh(n) == n \notin Defined \cup gone /\ \A t \in On(n) : ~Deletes(t)
Untouched(n) == Fresh(n) /\ VolsOf(n) = {} /\ Of(n) = {}

(* Who works on n, and by which way. *)
ReachInv(n) ==
  /\ \A t \in On(n) : t \in Proxies => pc[t] \in {"stop", "delete"}
  /\ \A t \in On(n) : pc[t] \in {"volumes", "redefine", "erase"} => backend = "libvirt"
  /\ \A r \in Of(n) : r.by \in Callers => r.by \in On(n) /\ r.op = pc[r.by]
  /\ \A r \in Of(n) : r.op \in {"stop", "delete"} \/ backend = "host-agent"

(* One task builds n; until n is defined nothing else happens to it. *)
BuildInv(n) ==
  /\ n \notin used => Untouched(n) /\ On(n) = {}
  /\ \A t, u \in On(n) : Builds(t) /\ Builds(u) => t = u
  /\ \A t \in On(n) : pc[t] = "clone" /\ answer[t] = "none" => Untouched(n)
  /\ \A t \in On(n) : pc[t] = "volumes" => Fresh(n) /\ Of(n) = {}
  /\ \A r \in Of(n) : r.op = "clone" =>
        /\ Fresh(n) /\ VolsOf(n) = {} /\ Of(n) = {r}
        /\ \A t \in On(n) : Builds(t) => pc[t] = "clone" /\ answer[t] \in {"wait", "err"}

(* The CID is in the XML, unless that failed, before n can be started. *)
CidSet(n) == n \in cidFailed \/ n \notin Defined \/ dom[n].cid = n
CidInv(n) ==
  /\ \A t \in On(n) : pc[t] = "start" => CidSet(n)
  /\ \A t \in On(n) : pc[t] = "set" /\ answer[t] = "ok" => CidSet(n)
  /\ \A r \in Of(n) : r.op = "start" => CidSet(n)
  /\ Running(n) /\ n \notin cidFailed => dom[n].run = n

(* A VM that the libvirt provider prepares has not been deleted and nobody *)
(* is about to; one about to be undefined does not run.                    *)
GoneInv(n) ==
  /\ backend # "host-agent" /\ ~raced =>
       /\ \A t \in On(n) : pc[t] \in {"set", "redefine", "start"} =>
            n \notin gone /\ Of(n) = {} /\ \A u \in On(n) : ~Deletes(u)
       /\ \A t \in On(n) : pc[t] = "erase" => ~Running(n)
  /\ Undisturbed /\ n \in gone => n \notin Defined

(* The disks of n are the template's under its name, and so are its volumes. *)
DiskInv(n) ==
  /\ n \in Defined => dom[n].disks = RewriteDiskPaths(TemplateDisks, n)
  /\ \A t \in On(n) : pc[t] = "redefine" => xml[t].disks = RewriteDiskPaths(TemplateDisks, n)
  /\ VolsOf(n) \subseteq CloneVols(n, Len(TemplateDisks))
  /\ \A t \in On(n) : pc[t] = "volumes" =>
        \E k \in 0..Len(TemplateDisks) :
           /\ todo[t] = SubSeq(TemplateDisks, k + 1, Len(TemplateDisks))
           /\ VolsOf(n) \subseteq CloneVols(n, k)

NameInv(n) == ReachInv(n) /\ BuildInv(n) /\ CidInv(n) /\ GoneInv(n) /\ DiskInv(n)

(* n has volumes that no operation under way will take care of. *)
DisksIn(s) == {s[i] : i \in DOMAIN s}
Marks(n) ==
  /\ VolsOf(n) # {}
  /\ \/ n \notin Defined /\ \A t \in On(n) : pc[t] # "volumes"
     \/ n \in Defined /\ ~dom[n].kept
     \/ \E t \in On(n) : pc[t] = "erase" /\ ~(VolsOf(n) \subseteq DisksIn(todo[t]))
Marked == {n \in Names : Marks(n)}
MarkInv == faults \in Nat /\ IsFiniteSet(Marked) /\ Cardinality(Marked) <= faults

WorldInv == HostInv /\ MarkInv /\ \A n \in Names : NameInv(n)

-----------------------------------------------------------------------------
(* A step is about one clone: of another, n, nothing changes but that volumes *)
(* may go.                                                                    *)
Same(n) ==
  /\ dom'[n] = dom[n] /\ VolsOf(n)' \subseteq VolsOf(n)
  /\ n \in used' <=> n \in used
  /\ n \in gone' <=> n \in gone
  /\ n \in cidFailed' <=> n \in cidFailed
  /\ On(n)' = On(n) /\ Of(n)' = Of(n)
  /\ \A t \in On(n) : /\ pc'[t] = pc[t] /\ answer'[t] = answer[t]
                      /\ todo'[t] = todo[t] /\ xml'[t] = xml[t]

LEMMA SameKeeps ==
  ASSUME NEW n \in Names, NameInv(n), Same(n), backend' = backend, raced => raced'
  PROVE  NameInv(n)' /\ (Marks(n)' => Marks(n))
<1>1. /\ (n \in Defined)' <=> n \in Defined
      /\ Running(n)' <=> Running(n)
  BY DEF Same, Defined, Running, AllVms
<1>2. /\ Fresh(n) => Fresh(n)'
      /\ Untouched(n) => Untouched(n)'
      /\ CidSet(n) => CidSet(n)'
  BY <1>1 DEF Same, Fresh, Untouched, CidSet, Deletes
<1>3. ReachInv(n)'
  BY DEF NameInv, ReachInv, Same
<1>4. BuildInv(n)'
  BY <1>2 DEF NameInv, BuildInv, Same, Builds
<1>5. CidInv(n)'
  BY <1>1, <1>2 DEF NameInv, CidInv, Same
<1>6. GoneInv(n)'
  BY <1>1 DEF NameInv, GoneInv, Same, Undisturbed, Deletes
<1>7. DiskInv(n)'
  BY <1>1 DEF NameInv, DiskInv, Same
<1>8. Marks(n)' => Marks(n)
  BY <1>1 DEF Marks, Same
<1>. QED
  BY <1>3, <1>4, <1>5, <1>6, <1>7, <1>8 DEF NameInv

(* A failure leaves at most the clone that it is about with such volumes. *)
LEMMA MarkStep ==
  ASSUME MarkInv, NEW m, faults' \in {faults, faults + 1},
         \A n \in Names \ {m} : Marks(n)' => Marks(n),
         m \in Names /\ Marks(m)' => Marks(m) \/ faults' = faults + 1
  PROVE  MarkInv'
<1>1. Marked' \subseteq Marked \/ (faults' = faults + 1 /\ Marked' \subseteq Marked \cup {m})
  BY DEF Marked
<1>2. /\ IsFiniteSet(Marked \cup {m}) /\ Cardinality(Marked) \in Nat
      /\ Cardinality(Marked \cup {m}) \in {Cardinality(Marked), Cardinality(Marked) + 1}
  BY FS_AddElement, FS_CardinalityType DEF MarkInv
<1>3. CASE Marked' \subseteq Marked
  <2>1. IsFiniteSet(Marked') /\ Cardinality(Marked') <= Cardinality(Marked)
        /\ Cardinality(Marked') \in Nat
    BY <1>3, FS_Subset, FS_CardinalityType DEF MarkInv
  <2>. QED
    BY <1>2, <2>1 DEF MarkInv
<1>4. CASE faults' = faults + 1 /\ Marked' \subseteq Marked \cup {m}
  <2>1. IsFiniteSet(Marked') /\ Cardinality(Marked') <= Cardinality(Marked \cup {m})
        /\ Cardinality(Marked') \in Nat
    BY <1>2, <1>4, FS_Subset, FS_CardinalityType
  <2>. QED
    BY <1>2, <1>4, <2>1 DEF MarkInv
<1>. QED
  BY <1>1, <1>3, <1>4

(* The whole, from the clone that a step is about. *)
LEMMA LocalStep ==
  ASSUME WorldInv, HostInv', NEW m \in Names, \A n \in Names \ {m} : Same(n),
         backend' = backend, raced => raced', faults' \in {faults, faults + 1},
         NameInv(m)', Marks(m)' => Marks(m) \/ faults' = faults + 1
  PROVE  WorldInv'
<1>1. \A n \in Names \ {m} : NameInv(n)' /\ (Marks(n)' => Marks(n))
  BY SameKeeps DEF WorldInv
<1>. QED
  BY <1>1, MarkStep DEF WorldInv

(* A caller works on m, the others stand still. *)
Alone(t) ==
  \A u \in Callers \ {t} : /\ pc'[u] = pc[u] /\ vm'[u] = vm[u] /\ answer'[u] = answer[u]
                           /\ todo'[u] = todo[u] /\ xml'[u] = xml[u]
Beside(m) ==
  /\ \A n \in Names \ {m} : /\ dom'[n] = dom[n]
                            /\ n \in used' <=> n \in used
                            /\ n \in gone' <=> n \in gone
                            /\ n \in cidFailed' <=> n \in cidFailed
  /\ \A d \in vols' : d \in vols \/ d.base = m

LEMMA Elsewhere ==
  ASSUME NEW m \in Names, NEW t \in Callers, Alone(t), Beside(m),
         pc[t] = "idle" \/ vm[t] = m, pc'[t] = "idle" \/ vm'[t] = m,
         NEW n \in Names \ {m}, Of(n)' = Of(n)
  PROVE  Same(n)
<1>1. On(n)' = On(n) /\ t \notin On(n)
  BY DEF On, Alone
<1>2. \A u \in On(n) : /\ pc'[u] = pc[u] /\ answer'[u] = answer[u]
                       /\ todo'[u] = todo[u] /\ xml'[u] = xml[u]
  BY <1>1 DEF On, Alone
<1>3. VolsOf(n)' \subseteq VolsOf(n)
  BY DEF VolsOf, Beside
<1>. QED
  BY <1>1, <1>2, <1>3 DEF Same, Beside

-----------------------------------------------------------------------------
(* The steps of the libvirt provider. *)

LEMMA OneDomain ==
  ASSUME DomInv, NEW m \in Names,
         \/ dom' = dom \/ dom' = PoweredOff(m) \/ dom' = Undefined(m) \/ dom' = Started(m)
         \/ (\E x : dom' = Redefined(m, x)) \/ \E x : dom' = [dom EXCEPT ![m] = x]
  PROVE  \A n \in Names \ {m} : dom'[n] = dom[n]
<1>1. PICK x : dom' = dom \/ dom' = [dom EXCEPT ![m] = x]
  BY DEF PoweredOff, Undefined, Started, Redefined
<1>. QED
  BY <1>1 DEF DomInv, Apart, AllVms

LEMMA LibvirtFrame ==
  ASSUME WorldInv, NEW t \in Tasks, LibvirtStep(t)
  PROVE  /\ t \in Callers /\ backend = "libvirt" /\ backend' = "libvirt"
         /\ pc[t] # "idle" /\ vm[t] \in Names /\ t \in On(vm[t])
         /\ answer[t] = "none" /\ UNCHANGED <<net, raced, used>>
         /\ Alone(t) /\ (pc'[t] = "idle" \/ vm'[t] = vm[t])
         /\ Beside(vm[t]) /\ NameInv(vm[t]) /\ CallerInv /\ faults' \in {faults, faults + 1}
<1>1. t \in Callers /\ backend = "libvirt" /\ UNCHANGED <<backend, net, raced, used>>
      /\ pc[t] # "idle"
  BY DEF Callers, LibvirtStep, CloneVm, CloneVolume, DefineClone, SetVsockRead, SetVsockDefine,
     StartVm, StopVm, DeleteVm, DeleteVolume, Undefine, At
<1>2. /\ answer[t] = "none" /\ vm[t] \in Names /\ t \in On(vm[t]) /\ NameInv(vm[t])
      /\ CallerInv /\ DomInv
  BY <1>1, HostAssumption DEF WorldInv, HostInv, CallerInv, NetInv, UsesAgent, On
<1>3. Alone(t) /\ (pc'[t] = "idle" \/ vm'[t] = vm[t])
  <2>1. /\ xml' = xml \/ xml' = [xml EXCEPT ![t] = xml'[t]]
        /\ todo' = todo \/ todo' = [todo EXCEPT ![t] = todo'[t]]
    BY <1>1, <1>2 DEF LibvirtStep, CloneVm, CloneVolume, DefineClone, SetVsockRead, SetVsockDefine,
       StartVm, StopVm, DeleteVm, DeleteVolume, Undefine, CallerInv
  <2>2. \/ \E op \in Ops, ok \in BOOLEAN : Finish(t, op, ok)
        \/ \E step \in Pc : Goto(t, step)
        \/ UNCHANGED <<pc, vm>>
    BY DEF LibvirtStep, CloneVm, CloneVolume, DefineClone, SetVsockRead, SetVsockDefine,
       StartVm, StopVm, DeleteVm, DeleteVolume, Undefine, Ops, Pc
  <2>3. /\ pc' = [pc EXCEPT ![t] = pc'[t]] /\ vm' = [vm EXCEPT ![t] = vm'[t]]
        /\ (pc'[t] = "idle" \/ vm'[t] = vm[t])
    BY <1>1, <1>2, <2>2 DEF Finish, Goto, CallerInv
  <2>. QED
    BY <1>1, <1>2, <2>1, <2>3 DEF Alone, CallerInv, net
<1>4. faults' \in {faults, faults + 1}
  BY DEF LibvirtStep, CloneVm, CloneVolume, DefineClone, SetVsockRead, SetVsockDefine,
     StartVm, StopVm, DeleteVm, DeleteVolume, Undefine, Fault
<1>5. \A n \in Names \ {vm[t]} : dom'[n] = dom[n]
  <2>1. \/ dom' = dom \/ dom' = PoweredOff(vm[t]) \/ dom' = Undefined(vm[t])
        \/ dom' = Started(vm[t]) \/ \E x : dom' = Redefined(vm[t], x)
        \/ \E x : dom' = [dom EXCEPT ![vm[t]] = x]
    BY DEF LibvirtStep, CloneVm, CloneVolume, DefineClone, SetVsockRead, SetVsockDefine,
       StartVm, StopVm, DeleteVm, DeleteVolume, Undefine, host
  <2>. QED
    BY <1>2, <2>1, OneDomain
<1>6. \A n \in Names \ {vm[t]} : n \in gone' <=> n \in gone
  BY DEF LibvirtStep, CloneVm, CloneVolume, DefineClone, SetVsockRead, SetVsockDefine,
     StartVm, StopVm, DeleteVm, DeleteVolume, Undefine
<1>7. \A n \in Names \ {vm[t]} : n \in cidFailed' <=> n \in cidFailed
  BY DEF LibvirtStep, CloneVm, CloneVolume, DefineClone, SetVsockRead, SetVsockDefine,
     StartVm, StopVm, DeleteVm, DeleteVolume, Undefine, Goto, Finish
<1>8. \A d \in vols' : d \in vols \/ d.base = vm[t]
  <2>1. vols' \subseteq vols \/ CloneVolume(t)
    BY DEF LibvirtStep, CloneVm, DefineClone, SetVsockRead, SetVsockDefine,
       StartVm, StopVm, DeleteVm, DeleteVolume, Undefine, host
  <2>2. CASE CloneVolume(t)
    <3>1. NewPath(Head(todo[t]), vm[t]).base = vm[t]
      BY DEF NewPath
    <3>2. vols' \subseteq vols \cup {NewPath(Head(todo[t]), vm[t])}
      BY <2>2 DEF CloneVolume
    <3>. QED
      BY <3>1, <3>2
  <2>. QED
    BY <2>1, <2>2
<1>. QED
  BY <1>1, <1>2, <1>3, <1>4, <1>5, <1>6, <1>7, <1>8 DEF Beside, net

(* The callers on the clone after the step. *)
LEMMA OnAfter ==
  ASSUME NEW t \in Callers, NEW m \in Names, t \in On(m), Alone(t), pc'[t] = "idle" \/ vm'[t] = m
  PROVE  /\ \A u \in On(m)' : u \in On(m)
         /\ \A u \in On(m) : u \in On(m)' <=> u # t \/ pc'[t] # "idle"
         /\ \A u \in On(m) \ {t} : /\ pc'[u] = pc[u] /\ answer'[u] = answer[u]
                                   /\ todo'[u] = todo[u] /\ xml'[u] = xml[u]
BY DEF On, Alone

(* What every step of the libvirt provider has in common. *)
Acts(t, m) ==
  /\ t \in Callers \ Proxies /\ m \in Names /\ t \in On(m)
  /\ NameInv(m) /\ CallerInv /\ DomInv /\ answer[t] = "none" /\ faults \in Nat
  /\ UNCHANGED <<backend, reqs, answer, raced, used>> /\ backend = "libvirt"
  /\ Of(m)' = Of(m) /\ \A r \in Of(m) : r.by # t
  /\ \A u \in On(m)' : u \in On(m)
  /\ \A u \in On(m) : u \in On(m)' <=> u # t \/ pc'[t] # "idle"
  /\ \A u \in On(m) \ {t} : /\ pc'[u] = pc[u] /\ answer'[u] = answer[u]
                            /\ todo'[u] = todo[u] /\ xml'[u] = xml[u]

(* The disks of n stay what they are where nothing new is cloned or defined. *)
LEMMA DiskKept ==
  ASSUME NEW n \in Names, DiskInv(n), VolsOf(n)' \subseteq VolsOf(n),
         n \in Defined' => n \in Defined /\ dom'[n].disks = dom[n].disks,
         \A t \in On(n)' : pc'[t] \in {"redefine", "volumes"} =>
           t \in On(n) /\ pc[t] = pc'[t] /\ xml'[t] = xml[t] /\ todo'[t] = todo[t]
  PROVE  DiskInv(n)'
<1>1. n \in Defined' => dom'[n].disks = RewriteDiskPaths(TemplateDisks, n)
  BY DEF DiskInv
<1>2. ASSUME NEW t \in On(n)', pc'[t] = "redefine"
      PROVE  xml'[t].disks = RewriteDiskPaths(TemplateDisks, n)
  BY <1>2 DEF DiskInv
<1>3. VolsOf(n)' \subseteq CloneVols(n, Len(TemplateDisks))
  BY DEF DiskInv
<1>4. ASSUME NEW t \in On(n)', pc'[t] = "volumes"
      PROVE  \E k \in 0..Len(TemplateDisks) :
                /\ todo'[t] = SubSeq(TemplateDisks, k + 1, Len(TemplateDisks))
                /\ VolsOf(n)' \subseteq CloneVols(n, k)
  <2>1. t \in On(n) /\ pc[t] = "volumes" /\ todo'[t] = todo[t]
    BY <1>4
  <2>2. PICK k \in 0..Len(TemplateDisks) :
           /\ todo[t] = SubSeq(TemplateDisks, k + 1, Len(TemplateDisks))
           /\ VolsOf(n) \subseteq CloneVols(n, k)
    BY <2>1 DEF DiskInv
  <2>. QED
    BY <2>1, <2>2
<1>. QED
  BY <1>1, <1>2, <1>3, <1>4 DEF DiskInv

LEMMA LibvirtActs ==
  ASSUME WorldInv, NEW t \in Tasks, LibvirtStep(t), NEW m, m = vm[t]
  PROVE  Acts(t, m)
<1>1. /\ t \in Callers /\ backend = "libvirt" /\ backend' = "libvirt"
      /\ vm[t] \in Names /\ t \in On(vm[t])
      /\ answer[t] = "none" /\ UNCHANGED <<net, raced, used>>
      /\ Alone(t) /\ (pc'[t] = "idle" \/ vm'[t] = vm[t])
      /\ NameInv(vm[t]) /\ CallerInv
  BY LibvirtFrame
<1>2. /\ \A u \in On(m)' : u \in On(m)
      /\ \A u \in On(m) : u \in On(m)' <=> u # t \/ pc'[t] # "idle"
      /\ \A u \in On(m) \ {t} : /\ pc'[u] = pc[u] /\ answer'[u] = answer[u]
                                /\ todo'[u] = todo[u] /\ xml'[u] = xml[u]
  BY <1>1, OnAfter
<1>3. \A r \in Of(m) : r.by # t
  BY <1>1 DEF WorldInv, HostInv, NetInv, Of
<1>. QED
  BY <1>1, <1>2, <1>3, HostAssumption DEF Acts, Of, net, WorldInv, HostInv, MarkInv

(* What becomes of a domain. *)
LEMMA NewDomain ==
  ASSUME DomInv, NEW m \in Names, NEW c, dom' = [dom EXCEPT ![m] = c]
  PROVE  dom'[m] = c /\ (m \in Defined' <=> c # Absent) /\ (Running(m)' <=> c.run # Off)
BY DEF DomInv, Apart, AllVms, Defined, Running

LEMMA AbsentIs == Absent.kept = FALSE /\ Absent.run = Off /\ Off # "none"
                  /\ Absent.cid = "none"
BY DEF Absent, Off

(* A record of a domain with a field changed. *)
LEMMA CloneFields ==
  ASSUME NEW c \in Clones, NEW v, NEW w
  PROVE  /\ LET d == [c EXCEPT !.run = v] IN
            d.disks = c.disks /\ d.cid = c.cid /\ d.run = v /\ d.kept = c.kept
         /\ LET d == [c EXCEPT !.kept = v] IN
            d.disks = c.disks /\ d.cid = c.cid /\ d.run = c.run /\ d.kept = v
         /\ LET d == [c EXCEPT !.cid = w, !.run = v, !.kept = TRUE] IN
            d.disks = c.disks /\ d.cid = w /\ d.run = v /\ d.kept = TRUE
BY DEF Clones

LEMMA FieldsOf ==
  ASSUME DomInv, NEW m \in Names
  PROVE  /\ dom[m] \in Clones /\ m \in AllVms /\ dom[Template].disks = TemplateDisks
         /\ dom[m].kept \in BOOLEAN
         /\ m \in Defined <=> dom[m] # Absent
         /\ dom[m].kept = TRUE => m \in Defined
         /\ Running(m) => m \in Defined
<1>1. dom[m] \in Clones /\ dom[Template] \in Templates /\ m \in AllVms
  BY DEF DomInv, Apart, AllVms
<1>2. dom[m].kept \in BOOLEAN /\ dom[Template].disks = TemplateDisks
  BY <1>1 DEF Clones, Templates
<1>. QED
  BY <1>1, <1>2, AbsentIs DEF Defined, Running

LEMMA PoweredOffIs ==
  ASSUME DomInv, NEW m \in Names, dom' = PoweredOff(m)
  PROVE  /\ ~Running(m)'
         /\ m \in Defined' <=> dom[m].kept
         /\ m \in Defined' => /\ m \in Defined /\ dom'[m].kept /\ dom'[m].disks = dom[m].disks
                              /\ dom'[m].cid = dom[m].cid
<1>1. CASE dom[m].kept
  <2>. DEFINE c == [dom[m] EXCEPT !.run = Off]
  <2>1. dom' = [dom EXCEPT ![m] = c]
    BY <1>1 DEF PoweredOff
  <2>2. c.disks = dom[m].disks /\ c.cid = dom[m].cid /\ c.run = Off /\ c.kept = dom[m].kept
    BY FieldsOf, CloneFields
  <2>. HIDE DEF c
  <2>3. dom'[m] = c /\ (m \in Defined' <=> c # Absent) /\ (Running(m)' <=> c.run # Off)
    BY <2>1, NewDomain, Zenon
  <2>4. m \in Defined /\ dom[m].kept \in BOOLEAN /\ dom[m].kept = TRUE
    BY <1>1, FieldsOf
  <2>5. c # Absent
    BY <1>1, <2>2, <2>4, AbsentIs
  <2>. QED
    BY <1>1, <2>2, <2>3, <2>4, <2>5, Zenon
<1>2. CASE ~dom[m].kept
  <2>1. dom' = [dom EXCEPT ![m] = Absent]
    BY <1>2 DEF PoweredOff
  <2>. QED
    BY <1>2, <2>1, NewDomain, FieldsOf, AbsentIs DEF Running
<1>. QED
  BY <1>1, <1>2

LEMMA UndefinedIs ==
  ASSUME DomInv, NEW m \in Names, dom' = Undefined(m)
  PROVE  /\ m \in Defined' <=> Running(m)
         /\ Running(m)' <=> Running(m)
         /\ m \in Defined' => /\ m \in Defined /\ dom'[m].disks = dom[m].disks
                              /\ dom'[m].cid = dom[m].cid /\ dom'[m].run = dom[m].run
<1>1. CASE Running(m)
  <2>. DEFINE c == [dom[m] EXCEPT !.kept = FALSE]
  <2>1. dom' = [dom EXCEPT ![m] = c]
    BY <1>1 DEF Undefined
  <2>2. c.disks = dom[m].disks /\ c.cid = dom[m].cid /\ c.run = dom[m].run
    BY FieldsOf, CloneFields
  <2>. HIDE DEF c
  <2>. QED
    BY <1>1, <2>1, <2>2, NewDomain, FieldsOf, AbsentIs DEF Running
<1>2. CASE ~Running(m)
  <2>1. dom' = [dom EXCEPT ![m] = Absent]
    BY <1>2 DEF Undefined
  <2>. QED
    BY <1>2, <2>1, NewDomain, FieldsOf, AbsentIs DEF Running
<1>. QED
  BY <1>1, <1>2

LEMMA StartedIs ==
  ASSUME DomInv, NEW m \in Names, m \in Defined, dom' = Started(m)
  PROVE  /\ m \in Defined' /\ dom'[m].disks = dom[m].disks /\ dom'[m].cid = dom[m].cid
         /\ dom'[m].run = dom[m].cid /\ dom'[m].kept = dom[m].kept
<1>. DEFINE c == [dom[m] EXCEPT !.run = dom[m].cid]
<1>1. dom' = [dom EXCEPT ![m] = c]
  BY DEF Started
<1>2. c.disks = dom[m].disks /\ c.cid = dom[m].cid /\ c.run = dom[m].cid /\ c.kept = dom[m].kept
  BY FieldsOf, CloneFields
<1>3. c # Absent
  BY <1>2, FieldsOf, AbsentIs
<1>. HIDE DEF c
<1>. QED
  BY <1>1, <1>2, <1>3, NewDomain

LEMMA RedefinedIs ==
  ASSUME DomInv, NEW m \in Names, NEW x \in Clones,
         dom' = Redefined(m, SetVsockInXml(x, m))
  PROVE  /\ m \in Defined' /\ dom'[m].disks = x.disks /\ dom'[m].cid = m
         /\ dom'[m].run = dom[m].run /\ dom'[m].kept
<1>. DEFINE c == [x EXCEPT !.cid = m, !.run = dom[m].run, !.kept = TRUE]
<1>1. dom' = [dom EXCEPT ![m] = c]
  BY DEF Redefined, SetVsockInXml, Clones
<1>2. c.disks = x.disks /\ c.cid = m /\ c.run = dom[m].run /\ c.kept = TRUE
  BY CloneFields
<1>. HIDE DEF c
<1>. QED
  BY <1>1, <1>2, NewDomain, AbsentIs

LEMMA ClonedIs ==
  ASSUME DomInv, NEW m \in Names,
         dom' = [dom EXCEPT ![m] = RewriteDomainXml(dom[Template], m)]
  PROVE  /\ m \in Defined' /\ dom'[m].disks = RewriteDiskPaths(TemplateDisks, m)
         /\ dom'[m].kept /\ ~Running(m)'
<1>. DEFINE c == RewriteDomainXml(dom[Template], m)
<1>1. c.disks = RewriteDiskPaths(TemplateDisks, m) /\ c.kept = TRUE /\ c.run = Off
  BY FieldsOf DEF RewriteDomainXml
<1>. HIDE DEF c
<1>2. dom' = [dom EXCEPT ![m] = c]
  BY DEF c
<1>. QED
  BY <1>1, <1>2, NewDomain, AbsentIs

LEMMA WholeDisks ==
  /\ Len(TemplateDisks) \in Nat
  /\ TemplateDisks = SubSeq(TemplateDisks, 1, Len(TemplateDisks))
BY HostAssumption, SubSeqProperties

(* The disks left, after k. *)
LEMMA RestOfDisks ==
  ASSUME NEW k \in 0..Len(TemplateDisks), NEW s,
         s = SubSeq(TemplateDisks, k + 1, Len(TemplateDisks)), s # <<>>
  PROVE  /\ k + 1 \in 1..Len(TemplateDisks) /\ Head(s) = TemplateDisks[k + 1]
         /\ Tail(s) = SubSeq(TemplateDisks, (k + 1) + 1, Len(TemplateDisks))
<1>1. Len(TemplateDisks) \in Nat /\ TemplateDisks \in Seq(Disks)
  BY HostAssumption DEF Disks
<1>2. k + 1 \in 1..Len(TemplateDisks)
  <2>1. SUFFICES ASSUME Len(TemplateDisks) < k + 1 PROVE s = <<>>
    BY <1>1
  <2>. QED
    BY <1>1, <2>1, SubSeqEmpty
<1>3. Len(TemplateDisks) \in k + 1 .. Len(TemplateDisks)
  BY <1>1, <1>2
<1>. QED
  BY <1>1, <1>2, <1>3, HeadTailOfSubSeq

(* New volumes are those of further disks: no two have the same path. *)
LEMMA NextVolume ==
  ASSUME NEW m, NEW k \in Nat, k + 1 \in 1..Len(TemplateDisks)
  PROVE  /\ NewPath(TemplateDisks[k + 1], m) \notin CloneVols(m, k)
         /\ CloneVols(m, k) \cup {NewPath(TemplateDisks[k + 1], m)} \subseteq CloneVols(m, k + 1)
<1>1. DOMAIN TemplateDisks = 1..Len(TemplateDisks) /\ Len(TemplateDisks) \in Nat
  BY HostAssumption
<1>2. CloneVols(m, k) \cup {NewPath(TemplateDisks[k + 1], m)} \subseteq CloneVols(m, k + 1)
  BY DEF CloneVols
<1>3. ASSUME NEW i \in 1..k, NewPath(TemplateDisks[k + 1], m) = NewPath(TemplateDisks[i], m)
      PROVE  FALSE
  BY <1>1, <1>3, HostAssumption DEF NewPath, SplitPath
<1>. QED
  BY <1>2, <1>3 DEF CloneVols

LEMMA VolsWithin ==
  ASSUME NEW m, NEW k \in 0..Len(TemplateDisks)
  PROVE  CloneVols(m, k) \subseteq CloneVols(m, Len(TemplateDisks))
BY WholeDisks DEF CloneVols

(* The volumes of a clone that is defined are its disks. *)
LEMMA DisksOfClone ==
  ASSUME NEW m, NEW s, s = RewriteDiskPaths(TemplateDisks, m)
  PROVE  CloneVols(m, Len(TemplateDisks)) = DisksIn(s)
<1>1. DOMAIN TemplateDisks = 1..Len(TemplateDisks)
  BY HostAssumption
<1>. QED
  BY <1>1 DEF CloneVols, DisksIn, RewriteDiskPaths

LEMMA TailDisks ==
  ASSUME NEW S, NEW s \in Seq(S), s # <<>>
  PROVE  DisksIn(s) \subseteq {Head(s)} \cup DisksIn(Tail(s))
<1>1. Len(s) \in Nat /\ Tail(s) \in Seq(S) /\ Len(Tail(s)) = Len(s) - 1
      /\ (\A i \in 1..Len(Tail(s)) : Tail(s)[i] = s[i + 1]) /\ s[1] = Head(s)
  BY HeadTailProperties, EmptySeq
<1>2. ASSUME NEW i \in DOMAIN s, i # 1 PROVE s[i] \in DisksIn(Tail(s))
  <2>1. i - 1 \in 1..Len(Tail(s)) /\ (i - 1) + 1 = i
    BY <1>1, <1>2
  <2>2. s[i] = Tail(s)[i - 1] /\ i - 1 \in DOMAIN Tail(s)
    BY <1>1, <2>1
  <2>. QED
    BY <2>2 DEF DisksIn
<1>. QED
  BY <1>1, <1>2 DEF DisksIn

(* Step by step: each part of what holds of m, the clone that t works on. *)

LEMMA CloneVmKeeps ==
  ASSUME WorldInv, NEW t \in Tasks, CloneVm(t), NEW m, m = vm[t]
  PROVE  NameInv(m)' /\ (Marks(m)' => Marks(m) \/ faults' = faults + 1)
<1>1. Acts(t, m)
  BY LibvirtActs DEF LibvirtStep
<1>2. /\ pc[t] = "clone" /\ UNCHANGED <<dom, vols, gone, cidFailed>>
      /\ pc'[t] = "idle" \/ (pc'[t] = "volumes" /\ todo'[t] = TemplateDisks)
  BY <1>1 DEF Acts, CallerInv, CloneVm, At, Finish, Goto, After, host
<1>3. /\ VolsOf(m)' = VolsOf(m) /\ Running(m)' = Running(m)
      /\ m \in Defined' <=> m \in Defined
  BY <1>2 DEF VolsOf, Running, Defined
<1>4. Untouched(m)
  BY <1>1, <1>2 DEF Acts, NameInv, BuildInv
<1>5. ReachInv(m)'
  BY <1>1, <1>2, <1>3, <1>4 DEF Acts, NameInv, ReachInv
<1>6. BuildInv(m)'
  BY <1>1, <1>2, <1>3, <1>4 DEF Acts, NameInv, BuildInv, Builds, Untouched, Fresh, Deletes
<1>7. CidInv(m)'
  BY <1>1, <1>2, <1>3, <1>4 DEF Acts, NameInv, CidInv, CidSet
<1>8. GoneInv(m)'
  BY <1>1, <1>2, <1>3, <1>4 DEF Acts, NameInv, GoneInv, Undisturbed, Deletes
<1>9. DiskInv(m)'
  BY <1>1, <1>2, <1>3, <1>4, WholeDisks DEF Acts, NameInv, DiskInv, Untouched
<1>10. Marks(m)' => Marks(m) \/ faults' = faults + 1
  BY <1>1, <1>2, <1>3, <1>4 DEF Acts, NameInv, Marks
<1>. QED
  BY <1>5, <1>6, <1>7, <1>8, <1>9, <1>10 DEF NameInv

LEMMA CloneVolumeKeeps ==
  ASSUME WorldInv, NEW t \in Tasks, CloneVolume(t), NEW m, m = vm[t]
  PROVE  NameInv(m)' /\ (Marks(m)' => Marks(m) \/ faults' = faults + 1)
<1>1. Acts(t, m)
  BY LibvirtActs DEF LibvirtStep
<1>2. /\ pc[t] = "volumes" /\ todo[t] # <<>> /\ UNCHANGED <<dom, gone, cidFailed>>
      /\ \/ pc'[t] = "idle" /\ vols' = vols
            /\ (NewPath(Head(todo[t]), m) \in vols \/ faults' = faults + 1)
         \/ pc'[t] = "volumes" /\ todo'[t] = Tail(todo[t])
            /\ vols' \subseteq vols \cup {NewPath(Head(todo[t]), m)}
  BY <1>1 DEF Acts, CallerInv, CloneVolume, At, Finish, After, Fault
<1>3. /\ Running(m)' = Running(m)
      /\ m \in Defined' <=> m \in Defined
  BY <1>2 DEF Running, Defined
<1>4. Fresh(m) /\ Of(m) = {}
  BY <1>1, <1>2 DEF Acts, NameInv, BuildInv
<1>5. PICK k \in 0..Len(TemplateDisks) :
         /\ todo[t] = SubSeq(TemplateDisks, k + 1, Len(TemplateDisks))
         /\ VolsOf(m) \subseteq CloneVols(m, k)
  BY <1>1, <1>2 DEF Acts, NameInv, DiskInv
<1>6. /\ k \in Nat /\ k + 1 \in 1..Len(TemplateDisks)
      /\ Head(todo[t]) = TemplateDisks[k + 1]
      /\ Tail(todo[t]) = SubSeq(TemplateDisks, (k + 1) + 1, Len(TemplateDisks))
  <2>1. k \in Nat
    BY WholeDisks
  <2>2. todo[t] # <<>> /\ todo[t] = SubSeq(TemplateDisks, k + 1, Len(TemplateDisks))
    BY <1>2, <1>5
  <2>. QED
    BY <2>1, <2>2, RestOfDisks
<1>7. /\ NewPath(Head(todo[t]), m) \notin CloneVols(m, k)
      /\ CloneVols(m, k) \cup {NewPath(Head(todo[t]), m)} \subseteq CloneVols(m, k + 1)
  BY <1>6, NextVolume
<1>8. /\ pc'[t] = "idle" => VolsOf(m)' = VolsOf(m) /\ faults' = faults + 1
      /\ pc'[t] = "volumes" => VolsOf(m)' \subseteq CloneVols(m, k + 1)
  BY <1>2, <1>5, <1>7 DEF VolsOf, NewPath
<1>9. ReachInv(m)'
  BY <1>1, <1>2, <1>3, <1>4, <1>5, <1>6, <1>7, <1>8 DEF Acts, NameInv, ReachInv
<1>10. BuildInv(m)'
  <2>1. Fresh(m)' /\ m \in used'
    BY <1>1, <1>2, <1>3, <1>4 DEF Acts, Fresh, Deletes, NameInv, BuildInv
  <2>2. \A u, w \in On(m)' : Builds(u)' /\ Builds(w)' => u = w
    BY <1>1, <1>2 DEF Acts, NameInv, BuildInv, Builds
  <2>3. \A u \in On(m)' : pc'[u] # "clone"
    BY <1>1, <1>2 DEF Acts, NameInv, BuildInv, Builds
  <2>. QED
    BY <1>1, <1>4, <2>1, <2>2, <2>3 DEF Acts, BuildInv
<1>11. CidInv(m)'
  BY <1>1, <1>2, <1>3, <1>4, <1>5, <1>6, <1>7, <1>8 DEF Acts, NameInv, CidInv, CidSet
<1>12. GoneInv(m)'
  BY <1>1, <1>2, <1>3, <1>4, <1>5, <1>6, <1>7, <1>8 DEF Acts, NameInv, GoneInv, Undisturbed, Deletes
<1>13. DiskInv(m)'
  <2>1. VolsOf(m)' \subseteq CloneVols(m, Len(TemplateDisks))
    BY <1>2, <1>5, <1>6, <1>8, VolsWithin, WholeDisks
  <2>2. k + 1 \in 0..Len(TemplateDisks)
    BY <1>6, WholeDisks
  <2>3. pc'[t] = "volumes" =>
             /\ todo'[t] = SubSeq(TemplateDisks, (k + 1) + 1, Len(TemplateDisks))
             /\ VolsOf(m)' \subseteq CloneVols(m, k + 1)
    BY <1>2, <1>6, <1>8
  <2>4. \A u \in On(m)' : pc'[u] = "volumes" => u = t
    BY <1>1, <1>2 DEF Acts, NameInv, BuildInv, Builds
  <2>5. ASSUME NEW u \in On(m)', pc'[u] = "redefine"
        PROVE  FALSE
    BY <1>1, <1>2, <2>5 DEF Acts, NameInv, BuildInv, Builds
  <2>. QED
    BY <1>2, <1>3, <1>4, <2>1, <2>2, <2>3, <2>4, <2>5 DEF DiskInv, Fresh
<1>14. Marks(m)' => Marks(m) \/ faults' = faults + 1
  BY <1>1, <1>2, <1>3, <1>4, <1>5, <1>6, <1>7, <1>8 DEF Acts, NameInv, Marks, Fresh, Deletes
<1>. QED
  BY <1>9, <1>10, <1>11, <1>12, <1>13, <1>14 DEF NameInv

LEMMA DefineCloneKeeps ==
  ASSUME WorldInv, NEW t \in Tasks, DefineClone(t), NEW m, m = vm[t]
  PROVE  NameInv(m)' /\ (Marks(m)' => Marks(m) \/ faults' = faults + 1)
<1>1. Acts(t, m)
  BY LibvirtActs DEF LibvirtStep
<1>2. /\ pc[t] = "volumes" /\ UNCHANGED <<vols, gone, cidFailed>>
      /\ \/ pc'[t] = "set" /\ dom' = [dom EXCEPT ![m] = RewriteDomainXml(dom[Template], m)]
         \/ pc'[t] = "idle" /\ dom' = dom /\ faults' = faults + 1
  BY <1>1 DEF Acts, CallerInv, DefineClone, At, Finish, After, Fault
<1>3. /\ Fresh(m) /\ Of(m) = {} /\ VolsOf(m)' = VolsOf(m)
  BY <1>1, <1>2 DEF Acts, NameInv, BuildInv, VolsOf
<1>4. /\ ~Running(m)' /\ (m \in Defined' => pc'[t] = "set")
      /\ pc'[t] = "set" => /\ m \in Defined' /\ dom'[m].kept
                           /\ dom'[m].disks = RewriteDiskPaths(TemplateDisks, m)
  <2>1. DomInv /\ m \in Names /\ m \notin Defined
    BY <1>1, <1>3 DEF Acts, Fresh
  <2>2. CASE dom' = dom
    <3>1. ~Running(m)' /\ m \notin Defined'
      BY <2>1, <2>2, FieldsOf DEF Running, Defined
    <3>. QED
      BY <1>2, <2>1, <2>2, <3>1, ClonedIs
  <2>. QED
    BY <1>2, <2>1, <2>2, ClonedIs
<1>5. ReachInv(m)'
  BY <1>1, <1>2, <1>3, <1>4 DEF Acts, NameInv, ReachInv
<1>6. BuildInv(m)'
  BY <1>1, <1>2, <1>3, <1>4 DEF Acts, NameInv, BuildInv, Builds, Untouched, Fresh, Deletes
<1>7. CidInv(m)'
  BY <1>1, <1>2, <1>3, <1>4 DEF Acts, NameInv, CidInv, BuildInv, Builds
<1>8. GoneInv(m)'
  BY <1>1, <1>2, <1>3, <1>4 DEF Acts, NameInv, GoneInv, Undisturbed, Deletes, Fresh
<1>9. DiskInv(m)'
  BY <1>1, <1>2, <1>3, <1>4 DEF Acts, NameInv, DiskInv, BuildInv, Builds
<1>10. Marks(m)' => Marks(m) \/ faults' = faults + 1
  BY <1>1, <1>2, <1>3, <1>4 DEF Acts, NameInv, Marks, Fresh, Deletes
<1>. QED
  BY <1>5, <1>6, <1>7, <1>8, <1>9, <1>10 DEF NameInv

LEMMA SetVsockReadKeeps ==
  ASSUME WorldInv, NEW t \in Tasks, SetVsockRead(t), NEW m, m = vm[t]
  PROVE  NameInv(m)' /\ (Marks(m)' => Marks(m) \/ faults' = faults + 1)
<1>1. Acts(t, m)
  BY LibvirtActs DEF LibvirtStep
<1>2. /\ pc[t] = "set" /\ UNCHANGED <<vols, gone, dom>>
      /\ \/ pc'[t] = "redefine" /\ m \in Defined /\ xml'[t].disks = dom[m].disks /\ cidFailed' = cidFailed
         \/ pc'[t] = "start" /\ cidFailed' = cidFailed \cup {m}
  BY <1>1, FieldsOf DEF Acts, CallerInv, SetVsockRead, At, Finish, Goto, After, host, Clones
<1>3. /\ VolsOf(m)' = VolsOf(m) /\ Running(m)' = Running(m)
      /\ m \in Defined' <=> m \in Defined
  BY <1>2 DEF VolsOf, Running, Defined
<1>4. ReachInv(m)'
  BY <1>1, <1>2, <1>3 DEF Acts, NameInv, ReachInv
<1>5. BuildInv(m)'
  BY <1>1, <1>2, <1>3 DEF Acts, NameInv, BuildInv, Builds, Untouched, Fresh, Deletes
<1>6. CidInv(m)'
  BY <1>1, <1>2, <1>3 DEF Acts, NameInv, CidInv, CidSet
<1>7. GoneInv(m)'
  BY <1>1, <1>2, <1>3 DEF Acts, NameInv, GoneInv, Undisturbed, Deletes
<1>8. DiskInv(m)'
  BY <1>1, <1>2, <1>3 DEF Acts, NameInv, DiskInv
<1>9. Marks(m)' => Marks(m) \/ faults' = faults + 1
  BY <1>1, <1>2, <1>3 DEF Acts, NameInv, Marks
<1>. QED
  BY <1>4, <1>5, <1>6, <1>7, <1>8, <1>9 DEF NameInv

LEMMA SetVsockDefineKeeps ==
  ASSUME WorldInv, NEW t \in Tasks, SetVsockDefine(t), NEW m, m = vm[t]
  PROVE  NameInv(m)' /\ (Marks(m)' => Marks(m) \/ faults' = faults + 1)
<1>1. Acts(t, m)
  BY LibvirtActs DEF LibvirtStep
<1>2. /\ pc[t] = "redefine" /\ pc'[t] = "start" /\ UNCHANGED <<vols, gone>> /\ xml[t] \in Clones
      /\ \/ dom' = Redefined(m, SetVsockInXml(xml[t], m)) /\ cidFailed' = cidFailed
         \/ dom' = dom /\ cidFailed' = cidFailed \cup {m}
  BY <1>1 DEF Acts, CallerInv, SetVsockDefine, At, Finish, After, Fault
<1>3. /\ VolsOf(m)' = VolsOf(m) /\ Running(m)' = Running(m)
      /\ \/ /\ m \in Defined' /\ dom'[m].kept /\ dom'[m].cid = m /\ cidFailed' = cidFailed
            /\ dom'[m].run = dom[m].run /\ dom'[m].disks = xml[t].disks
         \/ dom' = dom /\ (m \in Defined' <=> m \in Defined) /\ cidFailed' = cidFailed \cup {m}
  BY <1>1, <1>2, RedefinedIs DEF Acts, VolsOf, Running, Defined
<1>4. ReachInv(m)'
  BY <1>1, <1>2, <1>3 DEF Acts, NameInv, ReachInv
<1>5. BuildInv(m)'
  BY <1>1, <1>2, <1>3 DEF Acts, NameInv, BuildInv, Builds, Untouched, Fresh, Deletes
<1>6. CidInv(m)'
  BY <1>1, <1>2, <1>3 DEF Acts, NameInv, CidInv, CidSet
<1>7. GoneInv(m)'
  BY <1>1, <1>2, <1>3 DEF Acts, NameInv, GoneInv, Undisturbed, Deletes
<1>8. DiskInv(m)'
  BY <1>1, <1>2, <1>3 DEF Acts, NameInv, DiskInv
<1>9. Marks(m)' => Marks(m) \/ faults' = faults + 1
  BY <1>1, <1>2, <1>3 DEF Acts, NameInv, Marks
<1>. QED
  BY <1>4, <1>5, <1>6, <1>7, <1>8, <1>9 DEF NameInv

LEMMA StartVmKeeps ==
  ASSUME WorldInv, NEW t \in Tasks, StartVm(t), NEW m, m = vm[t]
  PROVE  NameInv(m)' /\ (Marks(m)' => Marks(m) \/ faults' = faults + 1)
<1>1. Acts(t, m)
  BY LibvirtActs DEF LibvirtStep
<1>2. /\ pc[t] = "start" /\ UNCHANGED <<vols, gone, cidFailed>>
      /\ \/ pc'[t] = "idle" /\ dom' = Started(m) /\ m \in Defined
         \/ pc'[t] = "delete" /\ dom' = dom
  BY <1>1 DEF Acts, CallerInv, StartVm, At, Finish, After, Fault, Startable
<1>3. /\ VolsOf(m)' = VolsOf(m) /\ dom'[m].disks = dom[m].disks /\ dom'[m].cid = dom[m].cid
      /\ dom'[m].kept = dom[m].kept /\ (m \in Defined' <=> m \in Defined)
      /\ dom' = dom \/ (m \in Defined /\ dom'[m].run = dom[m].cid)
  BY <1>1, <1>2, StartedIs DEF Acts, VolsOf, Defined
<1>4. ReachInv(m)'
  BY <1>1, <1>2, <1>3 DEF Acts, NameInv, ReachInv
<1>5. BuildInv(m)'
  BY <1>1, <1>2, <1>3 DEF Acts, NameInv, BuildInv, Builds, Untouched, Fresh, Deletes, Defined
<1>6. CidInv(m)'
  BY <1>1, <1>2, <1>3 DEF Acts, NameInv, CidInv, CidSet, Running
<1>7. GoneInv(m)'
  BY <1>1, <1>2, <1>3 DEF Acts, NameInv, GoneInv, Undisturbed, Deletes, BuildInv, Builds, Running
<1>8. DiskInv(m)'
  BY <1>1, <1>2, <1>3 DEF Acts, NameInv, DiskInv
<1>9. Marks(m)' => Marks(m) \/ faults' = faults + 1
  BY <1>1, <1>2, <1>3 DEF Acts, NameInv, Marks
<1>. QED
  BY <1>4, <1>5, <1>6, <1>7, <1>8, <1>9 DEF NameInv

LEMMA StopVmKeeps ==
  ASSUME WorldInv, NEW t \in Tasks, StopVm(t), NEW m, m = vm[t]
  PROVE  NameInv(m)' /\ (Marks(m)' => Marks(m) \/ faults' = faults + 1)
<1>1. Acts(t, m)
  BY LibvirtActs DEF LibvirtStep
<1>2. /\ pc[t] = "stop" /\ pc'[t] = "delete" /\ UNCHANGED <<vols, gone, cidFailed>>
      /\ dom' = dom \/ dom' = PoweredOff(m)
  BY <1>1 DEF Acts, CallerInv, StopVm, At, Finish, After, Fault
<1>3. VolsOf(m)' = VolsOf(m)
  BY <1>2 DEF VolsOf
<1>4. /\ m \in Defined' => m \in Defined
      /\ m \in Defined' => dom'[m].disks = dom[m].disks /\ dom'[m].cid = dom[m].cid
                           /\ (dom'[m].kept <=> dom[m].kept)
      /\ m \in Defined /\ dom[m].kept => m \in Defined'
      /\ Running(m)' => Running(m) /\ dom'[m].run = dom[m].run
  BY <1>1, <1>2, PoweredOffIs DEF Acts, Defined, Running
<1>5. ReachInv(m)'
  BY <1>1, <1>2, <1>3, <1>4 DEF Acts, NameInv, ReachInv
<1>6. BuildInv(m)'
  BY <1>1, <1>2, <1>3, <1>4 DEF Acts, NameInv, BuildInv, Builds, Untouched, Fresh, Deletes
<1>7. CidInv(m)'
  BY <1>1, <1>2, <1>3, <1>4 DEF Acts, NameInv, CidInv, CidSet
<1>8. GoneInv(m)'
  BY <1>1, <1>2, <1>3, <1>4 DEF Acts, NameInv, GoneInv, Undisturbed, Deletes
<1>9. DiskInv(m)'
  <2>1. /\ m \in Names /\ DiskInv(m) /\ VolsOf(m)' \subseteq VolsOf(m)
        /\ m \in Defined' => m \in Defined /\ dom'[m].disks = dom[m].disks
    BY <1>1, <1>2, <1>3, <1>4 DEF Acts, NameInv
  <2>2. ASSUME NEW u \in On(m)', pc'[u] \in {"redefine", "volumes"}
        PROVE  u \in On(m) /\ pc[u] = pc'[u] /\ xml'[u] = xml[u] /\ todo'[u] = todo[u]
    BY <2>2, <1>1, <1>2, <1>3, <1>4 DEF Acts, NameInv
  <2>. QED
    BY <2>1, <2>2, DiskKept, Zenon
<1>10. Marks(m)' => Marks(m) \/ faults' = faults + 1
  BY <1>1, <1>2, <1>3, <1>4 DEF Acts, NameInv, Marks
<1>. QED
  BY <1>5, <1>6, <1>7, <1>8, <1>9, <1>10 DEF NameInv

LEMMA DeleteVmKeeps ==
  ASSUME WorldInv, NEW t \in Tasks, DeleteVm(t), NEW m, m = vm[t]
  PROVE  NameInv(m)' /\ (Marks(m)' => Marks(m) \/ faults' = faults + 1)
<1>1. Acts(t, m)
  BY LibvirtActs DEF LibvirtStep
<1>2. /\ pc[t] = "delete" /\ UNCHANGED <<vols, gone, cidFailed>>
      /\ \/ pc'[t] = "erase" /\ m \in Defined /\ dom' = PoweredOff(m) /\ todo'[t] = dom[m].disks
         \/ pc'[t] = "idle" /\ dom' = dom
  BY <1>1 DEF Acts, CallerInv, DeleteVm, At, Finish, Goto, After, Fault
<1>3. VolsOf(m)' = VolsOf(m)
  BY <1>2 DEF VolsOf
<1>4. /\ m \in Defined' => m \in Defined
      /\ m \in Defined' => dom'[m].disks = dom[m].disks /\ dom'[m].cid = dom[m].cid
                           /\ (dom'[m].kept <=> dom[m].kept)
      /\ m \in Defined /\ dom[m].kept => m \in Defined'
      /\ Running(m)' => Running(m) /\ dom'[m].run = dom[m].run
      /\ pc'[t] = "erase" => ~Running(m)'
  BY <1>1, <1>2, PoweredOffIs DEF Acts, Defined, Running
<1>5. pc'[t] = "erase" => VolsOf(m)' \subseteq DisksIn(todo'[t])
  BY <1>1, <1>2, <1>3, DisksOfClone DEF Acts, NameInv, DiskInv
<1>6. ReachInv(m)'
  BY <1>1, <1>2, <1>3, <1>4, <1>5 DEF Acts, NameInv, ReachInv
<1>7. BuildInv(m)'
  BY <1>1, <1>2, <1>3, <1>4, <1>5 DEF Acts, NameInv, BuildInv, Builds, Untouched, Fresh, Deletes
<1>8. CidInv(m)'
  BY <1>1, <1>2, <1>3, <1>4, <1>5 DEF Acts, NameInv, CidInv, CidSet
<1>9. GoneInv(m)'
  BY <1>1, <1>2, <1>3, <1>4, <1>5 DEF Acts, NameInv, GoneInv, Undisturbed, Deletes
<1>10. DiskInv(m)'
  BY <1>1, <1>2, <1>3, <1>4 DEF Acts, NameInv, DiskInv
<1>11. Marks(m)' => Marks(m) \/ faults' = faults + 1
  BY <1>1, <1>2, <1>3, <1>4, <1>5 DEF Acts, NameInv, Marks
<1>. QED
  BY <1>6, <1>7, <1>8, <1>9, <1>10, <1>11 DEF NameInv

LEMMA DeleteVolumeKeeps ==
  ASSUME WorldInv, NEW t \in Tasks, DeleteVolume(t), NEW m, m = vm[t]
  PROVE  NameInv(m)' /\ (Marks(m)' => Marks(m) \/ faults' = faults + 1)
<1>1. Acts(t, m)
  BY LibvirtActs DEF LibvirtStep
<1>2. /\ pc[t] = "erase" /\ pc'[t] = "erase" /\ UNCHANGED <<dom, gone, cidFailed>>
      /\ todo[t] # <<>> /\ todo[t] \in Seq(CloneDisks) /\ todo'[t] = Tail(todo[t])
      /\ vols' = vols \ {Head(todo[t])} \/ (vols' = vols /\ faults' = faults + 1)
  BY <1>1 DEF Acts, CallerInv, DeleteVolume, At, Fault
<1>3. /\ VolsOf(m)' \subseteq VolsOf(m) /\ Running(m)' = Running(m)
      /\ m \in Defined' <=> m \in Defined
  BY <1>2 DEF VolsOf, Running, Defined
<1>4. \/ faults' = faults + 1
      \/ VolsOf(m) \subseteq DisksIn(todo[t]) => VolsOf(m)' \subseteq DisksIn(todo'[t])
  BY <1>2, TailDisks DEF VolsOf
<1>5. ReachInv(m)'
  BY <1>1, <1>2, <1>3, <1>4 DEF Acts, NameInv, ReachInv
<1>6. BuildInv(m)'
  BY <1>1, <1>2, <1>3, <1>4 DEF Acts, NameInv, BuildInv, Builds, Untouched, Fresh, Deletes
<1>7. CidInv(m)'
  BY <1>1, <1>2, <1>3, <1>4 DEF Acts, NameInv, CidInv, CidSet
<1>8. GoneInv(m)'
  BY <1>1, <1>2, <1>3, <1>4 DEF Acts, NameInv, GoneInv, Undisturbed, Deletes
<1>9. DiskInv(m)'
  BY <1>1, <1>2, <1>3, <1>4 DEF Acts, NameInv, DiskInv
<1>10. Marks(m)' => Marks(m) \/ faults' = faults + 1
  BY <1>1, <1>2, <1>3, <1>4 DEF Acts, NameInv, Marks
<1>. QED
  BY <1>5, <1>6, <1>7, <1>8, <1>9, <1>10 DEF NameInv

LEMMA UndefineKeeps ==
  ASSUME WorldInv, NEW t \in Tasks, Undefine(t), NEW m, m = vm[t]
  PROVE  NameInv(m)' /\ (Marks(m)' => Marks(m) \/ faults' = faults + 1)
<1>1. Acts(t, m)
  BY LibvirtActs DEF LibvirtStep
<1>2. /\ pc[t] = "erase" /\ pc'[t] = "idle" /\ UNCHANGED <<vols, cidFailed>> /\ todo[t] = <<>>
      /\ \/ m \in Defined /\ dom' = Undefined(m) /\ gone' = gone \cup {m}
         \/ dom' = dom /\ gone' = gone
  BY <1>1 DEF Acts, CallerInv, Undefine, At, Finish, After, Fault
<1>3. VolsOf(m)' = VolsOf(m)
  BY <1>2 DEF VolsOf
<1>4. /\ m \in Defined' => m \in Defined
      /\ m \in Defined' => dom'[m].disks = dom[m].disks /\ dom'[m].cid = dom[m].cid
                           /\ dom'[m].run = dom[m].run
      /\ m \in Defined' => (gone' = gone /\ dom' = dom) \/ Running(m)
      /\ Running(m)' => Running(m) /\ m \in Defined'
      /\ m \in Defined /\ m \notin Defined' => gone' = gone \cup {m}
  BY <1>1, <1>2, UndefinedIs, FieldsOf DEF Acts, Defined, Running
<1>5. VolsOf(m) \subseteq DisksIn(todo[t]) => VolsOf(m) = {}
  BY <1>2 DEF DisksIn
<1>6. ReachInv(m)'
  BY <1>1, <1>2, <1>3, <1>4, <1>5 DEF Acts, NameInv, ReachInv
<1>7. BuildInv(m)'
  BY <1>1, <1>2, <1>3, <1>4, <1>5 DEF Acts, NameInv, BuildInv, Builds, Untouched, Fresh, Deletes
<1>8. CidInv(m)'
  BY <1>1, <1>2, <1>3, <1>4, <1>5 DEF Acts, NameInv, CidInv, CidSet
<1>9. GoneInv(m)'
  BY <1>1, <1>2, <1>3, <1>4, <1>5 DEF Acts, NameInv, GoneInv, Undisturbed, Deletes
<1>10. DiskInv(m)'
  BY <1>1, <1>2, <1>3, <1>4, <1>5 DEF Acts, NameInv, DiskInv
<1>11. Marks(m)' => Marks(m) \/ faults' = faults + 1
  BY <1>1, <1>2, <1>3, <1>4, <1>5 DEF Acts, NameInv, Marks
<1>. QED
  BY <1>6, <1>7, <1>8, <1>9, <1>10, <1>11 DEF NameInv

LEMMA LibvirtKeepsWorld ==
  ASSUME WorldInv, NEW t \in Tasks, LibvirtStep(t)
  PROVE  WorldInv'
<1>1. HostInv' /\ t \in Callers
  BY LibvirtKeeps DEF WorldInv, Callers
<1>2. PICK m : m = vm[t]
  OBVIOUS
<1>3. NameInv(m)' /\ (Marks(m)' => Marks(m) \/ faults' = faults + 1)
  BY <1>2, CloneVmKeeps, CloneVolumeKeeps, DefineCloneKeeps, SetVsockReadKeeps, SetVsockDefineKeeps,
     StartVmKeeps, StopVmKeeps, DeleteVmKeeps, DeleteVolumeKeeps, UndefineKeeps DEF LibvirtStep
<1>4. /\ backend' = backend /\ raced' = raced /\ faults' \in {faults, faults + 1} /\ m \in Names
      /\ Alone(t) /\ Beside(m) /\ UNCHANGED reqs
      /\ (pc[t] = "idle" \/ vm[t] = m) /\ (pc'[t] = "idle" \/ vm'[t] = m)
  BY <1>2, LibvirtFrame DEF net
<1>5. ASSUME NEW n \in Names \ {m}
      PROVE  Same(n)
  <2>1. Of(n)' = Of(n)
    BY <1>4 DEF Of
  <2>. QED
    BY <1>1, <1>2, <1>4, <2>1, LibvirtFrame, Elsewhere
<1>. QED
  BY <1>1, <1>3, <1>4, <1>5, LocalStep

-----------------------------------------------------------------------------
(* The host agent treats a request about m. *)
Treats(r, m) ==
  /\ m \in Names /\ r \in Of(m) /\ NameInv(m) /\ DomInv /\ faults \in Nat
  /\ UNCHANGED <<backend, used, raced, cidFailed>>
  /\ On(m)' = On(m) /\ Of(m)' = Of(m) \ {r}
  /\ \A u \in On(m) : pc'[u] = pc[u] /\ todo'[u] = todo[u] /\ xml'[u] = xml[u]
  /\ \A u \in On(m) : \/ answer'[u] = answer[u] /\ u # r.by
                      \/ u = r.by /\ pc[u] = r.op /\ answer'[u] \in {"ok", "err"}

LEMMA RequestFrame ==
  ASSUME WorldInv, NEW r \in reqs, HandleRequest(r), NEW m, m = r.vm
  PROVE  /\ Treats(r, m) /\ faults' \in {faults, faults + 1}
         /\ \A n \in Names \ {m} : Same(n)
<1>1. /\ DomInv /\ NetInv /\ CallerInv /\ faults \in Nat /\ m \in Names /\ r \in Of(m) /\ NameInv(m)
      /\ r.by \in Callers \cup {NoTask}
  BY DEF WorldInv, HostInv, MarkInv, NetInv, Of
<1>2. /\ UNCHANGED <<backend, used, caller, raced, cidFailed>>
      /\ \E ok \in BOOLEAN : Reply(r, ok)
      /\ faults' \in {faults, faults + 1}
  BY DEF HandleRequest, WithConn, Dispatch, AgentCloneVm, AgentSetVsockCid, AgentStartVm,
     AgentStopVm, AgentDeleteVm, Fault
<1>3. r.by \in Callers => r.by \in On(m) /\ r.op = pc[r.by]
  BY <1>1 DEF NameInv, ReachInv
<1>4. reqs' = reqs \ {r} /\ \A u \in Callers : \/ answer'[u] = answer[u] /\ u # r.by
                                               \/ u = r.by /\ answer'[u] \in {"ok", "err"}
  <2>1. answer \in [Callers -> {"none", "wait", "ok", "err"}]
    BY <1>1 DEF NetInv
  <2>. QED
    BY <1>1, <1>2, <2>1, HostAssumption DEF Reply
<1>5. Treats(r, m)
  <2>1. On(m)' = On(m) /\ Of(m)' = Of(m) \ {r} /\ On(m) \subseteq Callers
    BY <1>2, <1>4 DEF On, Of, caller
  <2>. QED
    BY <1>1, <1>2, <1>3, <1>4, <2>1 DEF Treats, caller
<1>6. ASSUME NEW n \in Names \ {m}
      PROVE  Same(n)
  <2>1. On(n)' = On(n) /\ Of(n)' = Of(n) /\ On(n) \subseteq Callers /\ On(n) \cap On(m) = {}
    BY <1>2, <1>4 DEF On, Of, caller
  <2>2. \/ dom' = dom \/ dom' = PoweredOff(m) \/ dom' = Started(m)
        \/ (\E x : dom' = Redefined(m, x)) \/ \E x : dom' = [dom EXCEPT ![m] = x]
    BY DEF HandleRequest, WithConn, Dispatch, AgentCloneVm, AgentSetVsockCid, AgentStartVm,
       AgentStopVm, AgentDeleteVm, host
  <2>3. dom'[n] = dom[n]
    BY <1>1, <2>2, OneDomain
  <2>4. \A d \in vols' : d \in vols \/ d.base = m
    <3>1. vols' \subseteq vols \/ \E k : vols' = vols \cup ThinClones(m, k)
      BY DEF HandleRequest, WithConn, Dispatch, AgentCloneVm, AgentSetVsockCid, AgentStartVm,
         AgentStopVm, AgentDeleteVm, host
    <3>. QED
      BY <3>1 DEF ThinClones, AgentDiskPath, NewPath
  <2>5. n \in gone' <=> n \in gone
    BY DEF HandleRequest, WithConn, Dispatch, AgentCloneVm, AgentSetVsockCid, AgentStartVm,
       AgentStopVm, AgentDeleteVm
  <2>6. VolsOf(n)' \subseteq VolsOf(n)
    BY <2>4 DEF VolsOf
  <2>. QED
    BY <1>2, <1>3, <1>4, <2>1, <2>3, <2>5, <2>6 DEF Same, caller
<1>. QED
  BY <1>2, <1>5, <1>6

(* It does nothing; an operation on the XML was not done. *)
LEMMA RefusalKeeps ==
  ASSUME NEW r, NEW m, Treats(r, m), UNCHANGED <<host, gone>>,
         r.op = "set" /\ r.by \in On(m) => answer'[r.by] = "err"
  PROVE  NameInv(m)' /\ (Marks(m)' => Marks(m) \/ faults' = faults + 1)
<1>1. /\ VolsOf(m)' = VolsOf(m) /\ Running(m)' = Running(m)
      /\ m \in Defined' <=> m \in Defined
  BY DEF VolsOf, Running, Defined, host
<1>2. UNCHANGED <<dom, vols, gone>>
  BY DEF host
<1>3. ReachInv(m)'
  BY <1>1, <1>2 DEF Treats, NameInv, ReachInv
<1>4. BuildInv(m)'
  BY <1>1, <1>2 DEF Treats, NameInv, BuildInv, Builds, Untouched, Fresh, Deletes
<1>5. CidInv(m)'
  BY <1>1, <1>2 DEF Treats, NameInv, CidInv, CidSet
<1>6. GoneInv(m)'
  BY <1>1, <1>2 DEF Treats, NameInv, GoneInv, Undisturbed, Deletes
<1>7. DiskInv(m)'
  BY <1>1, <1>2 DEF Treats, NameInv, DiskInv
<1>8. Marks(m)' => Marks(m) \/ faults' = faults + 1
  BY <1>1, <1>2 DEF Treats, NameInv, Marks
<1>. QED
  BY <1>3, <1>4, <1>5, <1>6, <1>7, <1>8 DEF NameInv

(* It clones the template, in full or in part. *)
LEMMA ClonedKeeps ==
  ASSUME NEW r, NEW m, Treats(r, m), r.op = "clone", NEW k \in 0..Len(TemplateDisks),
         vols' = vols \cup ThinClones(m, k),
         \/ dom' = [dom EXCEPT ![m] = RewriteDomainXml(dom[Template], m)]
         \/ dom' = dom /\ faults' = faults + 1,
         UNCHANGED gone
  PROVE  NameInv(m)' /\ (Marks(m)' => Marks(m) \/ faults' = faults + 1)
<1>1. /\ Fresh(m) /\ VolsOf(m) = {} /\ Of(m) = {r} /\ Of(m)' = {} /\ backend = "host-agent"
      /\ \A u \in On(m) : Builds(u) => pc[u] = "clone" /\ answer[u] \in {"wait", "err"}
  BY DEF Treats, NameInv, BuildInv, ReachInv
<1>2. /\ ~Running(m)' /\ (dom' = dom \/ m \in Defined')
      /\ m \in Defined' => dom'[m].disks = RewriteDiskPaths(TemplateDisks, m) /\ dom'[m].kept
      /\ dom' = dom => m \notin Defined' /\ faults' = faults + 1
  <2>1. DomInv /\ m \in Names /\ m \notin Defined
    BY <1>1 DEF Treats, Fresh
  <2>2. CASE dom' = dom /\ faults' = faults + 1
    <3>1. ~Running(m)' /\ m \notin Defined'
      BY <2>1, <2>2, FieldsOf DEF Running, Defined
    <3>. QED
      BY <2>2, <3>1
  <2>3. CASE dom' = [dom EXCEPT ![m] = RewriteDomainXml(dom[Template], m)]
    <3>1. /\ m \in Defined' /\ ~Running(m)' /\ dom'[m].kept
          /\ dom'[m].disks = RewriteDiskPaths(TemplateDisks, m)
      BY <2>1, <2>3, ClonedIs
    <3>2. dom' # dom
      BY <2>1, <3>1 DEF Defined
    <3>. QED
      BY <3>1, <3>2
  <2>. QED
    BY <2>2, <2>3
<1>3. VolsOf(m)' \subseteq CloneVols(m, Len(TemplateDisks))
  <2>1. VolsOf(m)' \subseteq CloneVols(m, k)
    BY <1>1 DEF VolsOf, ThinClones, AgentDiskPath, CloneVols
  <2>. QED
    BY <2>1, VolsWithin
<1>4. ReachInv(m)'
  BY <1>1, <1>2, <1>3 DEF Treats, NameInv, ReachInv
<1>5. BuildInv(m)'
  BY <1>1, <1>2, <1>3 DEF Treats, NameInv, BuildInv, Builds, Untouched, Fresh, Deletes
<1>6. CidInv(m)'
  BY <1>1, <1>2, <1>3 DEF Treats, NameInv, CidInv, Builds
<1>7. GoneInv(m)'
  BY <1>1, <1>2, <1>3 DEF Treats, NameInv, GoneInv, Undisturbed, Deletes, Fresh
<1>8. DiskInv(m)'
  BY <1>1, <1>2, <1>3 DEF Treats, NameInv, DiskInv, Builds
<1>9. Marks(m)' => Marks(m) \/ faults' = faults + 1
  BY <1>1, <1>2, <1>3 DEF Treats, NameInv, Marks, Fresh, Deletes
<1>. QED
  BY <1>4, <1>5, <1>6, <1>7, <1>8, <1>9 DEF NameInv

LEMMA SetKeeps ==
  ASSUME NEW r, NEW m, Treats(r, m), r.op = "set", m \in Defined,
         dom' = Redefined(m, SetVsockInXml(dom[m], m)),
         UNCHANGED <<vols, gone>>
  PROVE  NameInv(m)' /\ (Marks(m)' => Marks(m) \/ faults' = faults + 1)
<1>1. /\ m \in Defined' /\ dom'[m].disks = dom[m].disks /\ dom'[m].cid = m
      /\ dom'[m].run = dom[m].run /\ dom'[m].kept /\ VolsOf(m)' = VolsOf(m)
      /\ Running(m)' <=> Running(m)
  <2>1. DomInv /\ m \in Names /\ dom[m] \in Clones
    BY FieldsOf DEF Treats
  <2>. QED
    BY <2>1, RedefinedIs DEF VolsOf, Running
<1>2. backend = "host-agent"
  BY DEF Treats, NameInv, ReachInv
<1>3. ReachInv(m)'
  BY <1>1, <1>2 DEF Treats, NameInv, ReachInv
<1>4. BuildInv(m)'
  BY <1>1, <1>2 DEF Treats, NameInv, BuildInv, Builds, Untouched, Fresh, Deletes
<1>5. CidInv(m)'
  BY <1>1, <1>2 DEF Treats, NameInv, CidInv, CidSet
<1>6. GoneInv(m)'
  BY <1>1, <1>2 DEF Treats, NameInv, GoneInv, Undisturbed, Deletes
<1>7. DiskInv(m)'
  BY <1>1, <1>2 DEF Treats, NameInv, DiskInv
<1>8. Marks(m)' => Marks(m) \/ faults' = faults + 1
  BY <1>1, <1>2 DEF Treats, NameInv, Marks
<1>. QED
  BY <1>3, <1>4, <1>5, <1>6, <1>7, <1>8 DEF NameInv

LEMMA StartKeeps ==
  ASSUME NEW r, NEW m, Treats(r, m), r.op = "start", m \in Defined, dom' = Started(m),
         UNCHANGED <<vols, gone>>
  PROVE  NameInv(m)' /\ (Marks(m)' => Marks(m) \/ faults' = faults + 1)
<1>1. /\ m \in Defined' /\ dom'[m].disks = dom[m].disks /\ dom'[m].cid = dom[m].cid
      /\ dom'[m].run = dom[m].cid /\ dom'[m].kept = dom[m].kept /\ VolsOf(m)' = VolsOf(m)
  BY StartedIs DEF Treats, VolsOf
<1>2. backend = "host-agent"
  BY DEF Treats, NameInv, ReachInv
<1>3. dom'[m].run = m \/ m \in cidFailed
  BY <1>1 DEF Treats, NameInv, CidInv, CidSet
<1>4. ReachInv(m)'
  BY <1>1, <1>2, <1>3 DEF Treats, NameInv, ReachInv
<1>5. BuildInv(m)'
  BY <1>1, <1>2, <1>3 DEF Treats, NameInv, BuildInv, Builds, Untouched, Fresh, Deletes
<1>6. CidInv(m)'
  BY <1>1, <1>2, <1>3 DEF Treats, NameInv, CidInv, CidSet
<1>7. GoneInv(m)'
  BY <1>1, <1>2, <1>3 DEF Treats, NameInv, GoneInv, Undisturbed, Deletes
<1>8. DiskInv(m)'
  <2>1. /\ m \in Names /\ DiskInv(m) /\ VolsOf(m)' \subseteq VolsOf(m)
        /\ m \in Defined' => m \in Defined /\ dom'[m].disks = dom[m].disks
    BY <1>1 DEF Treats, NameInv
  <2>2. ASSUME NEW u \in On(m)', pc'[u] \in {"redefine", "volumes"}
        PROVE  u \in On(m) /\ pc[u] = pc'[u] /\ xml'[u] = xml[u] /\ todo'[u] = todo[u]
    BY <2>2, <1>1 DEF Treats, NameInv
  <2>. QED
    BY <2>1, <2>2, DiskKept, Zenon
<1>9. Marks(m)' => Marks(m) \/ faults' = faults + 1
  BY <1>1, <1>2, <1>3 DEF Treats, NameInv, Marks
<1>. QED
  BY <1>4, <1>5, <1>6, <1>7, <1>8, <1>9 DEF NameInv

LEMMA StopKeeps ==
  ASSUME NEW r, NEW m, Treats(r, m), r.op = "stop", dom' = PoweredOff(m), UNCHANGED <<vols, gone>>
  PROVE  NameInv(m)' /\ (Marks(m)' => Marks(m) \/ faults' = faults + 1)
<1>1. /\ m \in Defined' => m \in Defined
      /\ m \in Defined' => dom'[m].disks = dom[m].disks /\ dom'[m].cid = dom[m].cid
                           /\ (dom'[m].kept <=> dom[m].kept)
      /\ m \in Defined /\ dom[m].kept => m \in Defined'
      /\ ~Running(m)' /\ VolsOf(m)' = VolsOf(m)
  BY PoweredOffIs DEF Treats, VolsOf
<1>2. ReachInv(m)'
  BY <1>1 DEF Treats, NameInv, ReachInv
<1>3. BuildInv(m)'
  BY <1>1 DEF Treats, NameInv, BuildInv, Builds, Untouched, Fresh, Deletes
<1>4. CidInv(m)'
  BY <1>1 DEF Treats, NameInv, CidInv, CidSet
<1>5. GoneInv(m)'
  BY <1>1 DEF Treats, NameInv, GoneInv, Undisturbed, Deletes
<1>6. DiskInv(m)'
  BY <1>1 DEF Treats, NameInv, DiskInv
<1>7. Marks(m)' => Marks(m) \/ faults' = faults + 1
  BY <1>1 DEF Treats, NameInv, Marks
<1>. QED
  BY <1>2, <1>3, <1>4, <1>5, <1>6, <1>7 DEF NameInv

(* It deletes a domain, or fails before it is undefined. *)
LEMMA DeletedKeeps ==
  ASSUME NEW r, NEW m, Treats(r, m), r.op = "delete", m \in Defined, vols' \subseteq vols,
         \/ /\ dom' = [dom EXCEPT ![m] = Absent] /\ gone' = gone \cup {m}
            /\ vols' = vols \ DisksOf(m) \/ faults' = faults + 1
         \/ dom' = PoweredOff(m) /\ gone' = gone /\ faults' = faults + 1
  PROVE  NameInv(m)' /\ (Marks(m)' => Marks(m) \/ faults' = faults + 1)
<1>1. VolsOf(m)' \subseteq VolsOf(m) /\ m \in Names /\ DomInv
  BY DEF VolsOf, Treats
<1>2. /\ m \in Defined' => m \in Defined
      /\ m \in Defined' => dom'[m].disks = dom[m].disks /\ dom'[m].cid = dom[m].cid
                           /\ (dom'[m].kept <=> dom[m].kept) /\ gone' = gone
      /\ ~Running(m)'
  <2>1. CASE dom' = [dom EXCEPT ![m] = Absent]
    BY <1>1, <2>1, NewDomain, AbsentIs
  <2>2. CASE dom' = PoweredOff(m) /\ gone' = gone
    BY <1>1, <2>2, PoweredOffIs
  <2>. QED
    BY <2>1, <2>2
<1>3. faults' = faults + 1 \/ VolsOf(m)' = {}
  <2>1. VolsOf(m) \subseteq DisksOf(m)
    <3>1. /\ dom[m].disks = RewriteDiskPaths(TemplateDisks, m)
          /\ VolsOf(m) \subseteq CloneVols(m, Len(TemplateDisks))
      BY DEF Treats, NameInv, DiskInv
    <3>. QED
      BY <3>1, DisksOfClone DEF DisksOf, DisksIn
  <2>. QED
    BY <2>1 DEF VolsOf
<1>4. ReachInv(m)'
  BY <1>1, <1>2, <1>3 DEF Treats, NameInv, ReachInv
<1>5. BuildInv(m)'
  BY <1>1, <1>2, <1>3 DEF Treats, NameInv, BuildInv, Builds, Untouched, Fresh, Deletes
<1>6. CidInv(m)'
  BY <1>1, <1>2, <1>3 DEF Treats, NameInv, CidInv, CidSet
<1>7. GoneInv(m)'
  BY <1>1, <1>2, <1>3 DEF Treats, NameInv, GoneInv, Undisturbed, Deletes
<1>8. DiskInv(m)'
  BY <1>1, <1>2, <1>3 DEF Treats, NameInv, DiskInv
<1>9. Marks(m)' => Marks(m) \/ faults' = faults + 1
  BY <1>1, <1>2, <1>3 DEF Treats, NameInv, Marks
<1>. QED
  BY <1>4, <1>5, <1>6, <1>7, <1>8, <1>9 DEF NameInv

LEMMA RequestKeepsWorld ==
  ASSUME WorldInv, NEW r \in reqs, HandleRequest(r)
  PROVE  WorldInv'
<1>1. PICK m : m = r.vm
  OBVIOUS
<1>2. /\ Treats(r, m) /\ faults' \in {faults, faults + 1}
      /\ \A n \in Names \ {m} : Same(n)
  BY <1>1, RequestFrame
<1>3. /\ backend' = backend /\ raced' = raced /\ m \in Names /\ HostInv'
      /\ r.by \in On(m) => r.by # NoTask
  BY <1>2, RequestKeeps, HostAssumption DEF Treats, WorldInv, On
<1>4. SUFFICES NameInv(m)' /\ (Marks(m)' => Marks(m) \/ faults' = faults + 1)
  BY <1>2, <1>3, LocalStep
<1>5. CASE UNCHANGED <<host, gone>> /\ (r.op # "set" \/ Reply(r, FALSE))
  <2>1. r.op = "set" /\ r.by \in On(m) => answer'[r.by] = "err"
    <3>1. SUFFICES ASSUME Reply(r, FALSE), r.by \in On(m) PROVE answer'[r.by] = "err"
      BY <1>5
    <3>2. answer \in [Callers -> {"none", "wait", "ok", "err"}] /\ r.by \in Callers
      BY <3>1 DEF WorldInv, HostInv, NetInv, On
    <3>. QED
      BY <1>3, <3>1, <3>2 DEF Reply
  <2>. QED
    BY <1>2, <1>5, <2>1, RefusalKeeps
<1>6. CASE AgentCloneVm(r) /\ r.op = "clone" /\ UNCHANGED gone
  <2>1. CASE UNCHANGED host
    BY <1>5, <1>6, <2>1
  <2>2. CASE ~UNCHANGED host
    <3>1. Len(TemplateDisks) \in 0..Len(TemplateDisks)
      BY WholeDisks
    <3>2. PICK k \in 0..Len(TemplateDisks) :
            /\ vols' = vols \cup ThinClones(m, k)
            /\ \/ dom' = [dom EXCEPT ![m] = RewriteDomainXml(dom[Template], m)]
               \/ dom' = dom /\ faults' = faults + 1
      BY <1>1, <1>6, <2>2, <3>1 DEF AgentCloneVm, AgentDomainXml, Fault
    <3>. QED
      BY <1>2, <1>6, <3>2, ClonedKeeps
  <2>. QED
    BY <2>1, <2>2
<1>7. CASE AgentSetVsockCid(r) /\ r.op = "set" /\ UNCHANGED gone
  BY <1>1, <1>2, <1>5, <1>7, SetKeeps DEF AgentSetVsockCid, AgentVsockXml
<1>8. CASE AgentStartVm(r) /\ r.op = "start" /\ UNCHANGED gone
  BY <1>1, <1>2, <1>5, <1>8, StartKeeps DEF AgentStartVm, Startable, host
<1>9. CASE AgentStopVm(r) /\ r.op = "stop" /\ UNCHANGED gone
  BY <1>1, <1>2, <1>5, <1>9, StopKeeps DEF AgentStopVm, host
<1>10. CASE AgentDeleteVm(r) /\ r.op = "delete"
  <2>1. CASE UNCHANGED <<host, gone>>
    BY <1>5, <1>10, <2>1
  <2>2. CASE ~UNCHANGED <<host, gone>>
    <3>1. /\ m \in Defined /\ vols' \subseteq vols
          /\ \/ /\ dom' = [dom EXCEPT ![m] = Absent] /\ gone' = gone \cup {m}
                /\ vols' = vols \ DisksOf(m) \/ faults' = faults + 1
             \/ dom' = PoweredOff(m) /\ gone' = gone /\ faults' = faults + 1
      BY <1>1, <1>10, <2>2 DEF AgentDeleteVm, Fault
    <3>. QED
      BY <1>2, <1>10, <3>1, DeletedKeeps
  <2>. QED
    BY <2>1, <2>2
<1>. QED
  BY <1>5, <1>6, <1>7, <1>8, <1>9, <1>10 DEF HandleRequest, WithConn, Dispatch

-----------------------------------------------------------------------------
(* The callers' side of the host agent. *)

(* A caller asks for its operation. *)
LEMMA SendKeeps ==
  ASSUME WorldInv, NEW t \in Callers, SendRequest(t)
  PROVE  WorldInv'
<1>1. /\ HostInv' /\ CallerInv /\ NetInv /\ CallerInv' /\ NetInv' /\ faults \in Nat
      /\ AgentStep(t) /\ UNCHANGED <<backend, host, used, caller, hist>>
  BY AgentKeeps DEF WorldInv, HostInv, AgentStep, SendRequest, MarkInv
<1>2. PICK m : m = vm[t]
  OBVIOUS
<1>3. /\ pc[t] \in Ops /\ UsesAgent(t) /\ answer[t] = "none" /\ answer' = [answer EXCEPT ![t] = "wait"]
      /\ m \in Names /\ NameInv(m) /\ t \in On(m) /\ On(m)' = On(m) /\ pc[t] # "idle"
  BY <1>1, <1>2 DEF SendRequest, CallerInv, On, caller, Ops, WorldInv
<1>4. PICK q : /\ reqs' = reqs \cup {q} /\ q.op = pc[t] /\ q.vm = m /\ q.by = t
               /\ Of(m)' = Of(m) \cup {q} /\ \A n \in Names \ {m} : Of(n)' = Of(n)
  <2>1. PICK b : b = (t \in Proxies)
    OBVIOUS
  <2>2. PICK q : q = [op |-> pc[t], vm |-> vm[t], by |-> t, proxy |-> b]
    OBVIOUS
  <2>3. reqs' = reqs \cup {q}
    BY <2>1, <2>2, Zenon DEF SendRequest
  <2>4. q.op = pc[t] /\ q.vm = m /\ q.by = t
    BY <1>2, <2>2
  <2>. QED
    BY <2>3, <2>4 DEF Of
<1>5. /\ \A u \in On(m) : pc'[u] = pc[u] /\ todo'[u] = todo[u] /\ xml'[u] = xml[u]
      /\ \A u \in On(m) : (u = t /\ answer'[u] = "wait") \/ (u # t /\ answer'[u] = answer[u])
      /\ UNCHANGED <<dom, vols, gone, backend, used, faults, raced, cidFailed>>
  BY <1>1, <1>3 DEF NetInv, On, caller, host, hist
<1>6. /\ VolsOf(m)' = VolsOf(m) /\ (Running(m)' <=> Running(m)) /\ (m \in Defined' <=> m \in Defined)
  BY <1>5 DEF VolsOf, Running, Defined
<1>7. ReachInv(m)'
  BY <1>3, <1>4, <1>5 DEF NameInv, ReachInv, UsesAgent
(* Nothing else is under way when it asks for a clone, and no clone when it *)
(* asks for something else.                                                 *)
<1>8. BuildInv(m)'
  <2>1. \A r \in Of(m) : r.op # "clone"
    BY <1>3 DEF NameInv, BuildInv, Builds, Fresh, Deletes, Untouched, Ops
  <2>2. \A u \in On(m) : pc[u] # "volumes"
    BY <1>3 DEF NameInv, BuildInv, Builds, Fresh, Deletes, Ops
  <2>3. (Fresh(m)' <=> Fresh(m)) /\ (pc[t] # "clone" \/ Untouched(m))
    BY <1>3, <1>5, <1>6 DEF NameInv, BuildInv, Fresh, Deletes
  <2>4. \A u \in On(m) : pc[u] = "clone" => (pc[t] = "clone" /\ u = t) \/ answer[u] # "none"
    BY <1>3 DEF NameInv, BuildInv, Untouched, Fresh, Builds, Deletes, Ops
  <2>5. pc[t] = "clone" => Of(m)' = {q} /\ \A u \in On(m) : Builds(u) => u = t
    BY <1>3, <1>4, <2>3 DEF Untouched, NameInv, BuildInv, Builds
  <2>. QED
    BY <1>3, <1>4, <1>5, <1>6, <2>1, <2>2, <2>3, <2>4, <2>5 DEF NameInv, BuildInv, Builds, Untouched
<1>9. CidInv(m)'
  BY <1>3, <1>4, <1>5, <1>6 DEF NameInv, CidInv, CidSet
<1>10. GoneInv(m)'
  BY <1>3, <1>4, <1>5, <1>6 DEF NameInv, GoneInv, ReachInv, UsesAgent, Undisturbed, Deletes
<1>11. DiskInv(m)'
  <2>1. /\ m \in Names /\ DiskInv(m) /\ VolsOf(m)' \subseteq VolsOf(m)
        /\ m \in Defined' => m \in Defined /\ dom'[m].disks = dom[m].disks
    BY <1>3, <1>5, <1>6 DEF NameInv
  <2>2. ASSUME NEW u \in On(m)', pc'[u] \in {"redefine", "volumes"}
        PROVE  u \in On(m) /\ pc[u] = pc'[u] /\ xml'[u] = xml[u] /\ todo'[u] = todo[u]
    BY <2>2, <1>3, <1>5, <1>6 DEF NameInv
  <2>. QED
    BY <2>1, <2>2, DiskKept, Zenon
<1>12. Marks(m)' => Marks(m)
  BY <1>3, <1>5, <1>6 DEF Marks
<1>13. ASSUME NEW n \in Names \ {m}
       PROVE  Same(n)
  <2>1. On(n)' = On(n) /\ \A u \in On(n) : u # t /\ u \in Callers
    BY <1>1, <1>2 DEF On, caller
  <2>. QED
    BY <1>1, <1>3, <1>4, <1>5, <2>1 DEF Same, VolsOf, NetInv, caller
<1>. QED
  BY <1>1, <1>3, <1>5, <1>7, <1>8, <1>9, <1>10, <1>11, <1>12, <1>13, LocalStep DEF NameInv

(* The connection of a caller breaks: who asked is forgotten, nothing else. *)
LEMMA BreakKeeps ==
  ASSUME WorldInv, NEW t \in Callers, ConnectionBreaks(t)
  PROVE  WorldInv'
<1>1. /\ HostInv' /\ CallerInv /\ NetInv /\ faults \in Nat
      /\ UNCHANGED <<backend, host, used, caller, raced, cidFailed, gone>> /\ faults' = faults + 1
  BY AgentKeeps DEF WorldInv, HostInv, AgentStep, ConnectionBreaks, MarkInv, Fault
<1>2. PICK m : m = vm[t]
  OBVIOUS
<1>3. /\ answer[t] # "none" /\ answer' = [answer EXCEPT ![t] = "err"]
      /\ reqs' = {[r EXCEPT !.by = IF @ = t THEN NoTask ELSE @] : r \in reqs}
      /\ m \in Names /\ NameInv(m) /\ t \in On(m) /\ On(m)' = On(m) /\ On(m) \subseteq Callers
  BY <1>1, <1>2 DEF ConnectionBreaks, CallerInv, NetInv, On, caller, Ops, WorldInv
<1>. DEFINE Cut(r) == [r EXCEPT !.by = IF @ = t THEN NoTask ELSE @]
<1>4. \A r \in reqs : /\ Cut(r).op = r.op /\ Cut(r).vm = r.vm
                      /\ r.by # t => Cut(r) = r
                      /\ r.by = t => Cut(r).by = NoTask
  BY <1>1 DEF NetInv
<1>5. \A r \in reqs : r.by = t => r.vm = m
  BY <1>1, <1>2, HostAssumption DEF WorldInv, NameInv, ReachInv, Of, On, NetInv
<1>6. reqs' = {Cut(r) : r \in reqs}
  BY <1>3
<1>. HIDE DEF Cut
<1>7. /\ \A q \in Of(m)' : \E r \in Of(m) : q.op = r.op /\ (q.by \in Callers => q = r /\ q.by # t)
      /\ \A r \in Of(m) : Of(m) = {r} => Of(m)' = {Cut(r)}
      /\ Of(m) = {} => Of(m)' = {}
  BY <1>4, <1>6, HostAssumption DEF Of
<1>8. /\ \A u \in On(m) : pc'[u] = pc[u] /\ todo'[u] = todo[u] /\ xml'[u] = xml[u]
      /\ \A u \in On(m) : (u = t /\ answer'[u] = "err") \/ (u # t /\ answer'[u] = answer[u])
      /\ UNCHANGED <<dom, vols, gone, backend, used, raced, cidFailed>>
  BY <1>1, <1>3 DEF NetInv, caller, host
<1>9. /\ VolsOf(m)' = VolsOf(m) /\ (Running(m)' <=> Running(m)) /\ (m \in Defined' <=> m \in Defined)
      /\ (Fresh(m)' <=> Fresh(m)) /\ (Untouched(m) => Untouched(m)')
  BY <1>3, <1>7, <1>8 DEF VolsOf, Running, Defined, Fresh, Untouched, Deletes
<1>10. ReachInv(m)'
  BY <1>3, <1>7, <1>8 DEF NameInv, ReachInv
<1>11. BuildInv(m)'
  <2>1. \A q \in Of(m)' : q.op = "clone" =>
           /\ Fresh(m) /\ VolsOf(m) = {} /\ Of(m)' = {q}
           /\ \A u \in On(m) : Builds(u) => pc[u] = "clone" /\ answer[u] \in {"wait", "err"}
    BY <1>3, <1>7 DEF NameInv, BuildInv
  <2>. QED
    BY <1>3, <1>7, <1>8, <1>9, <2>1 DEF NameInv, BuildInv, Builds
<1>12. CidInv(m)'
  BY <1>3, <1>7, <1>8, <1>9 DEF NameInv, CidInv, CidSet
<1>13. GoneInv(m)'
  BY <1>3, <1>7, <1>8, <1>9 DEF NameInv, GoneInv, Undisturbed, Deletes
<1>14. DiskInv(m)'
  <2>1. /\ m \in Names /\ DiskInv(m) /\ VolsOf(m)' \subseteq VolsOf(m)
        /\ m \in Defined' => m \in Defined /\ dom'[m].disks = dom[m].disks
    BY <1>3, <1>8, <1>9 DEF NameInv
  <2>2. ASSUME NEW u \in On(m)', pc'[u] \in {"redefine", "volumes"}
        PROVE  u \in On(m) /\ pc[u] = pc'[u] /\ xml'[u] = xml[u] /\ todo'[u] = todo[u]
    BY <2>2, <1>3, <1>8, <1>9 DEF NameInv
  <2>. QED
    BY <2>1, <2>2, DiskKept, Zenon
<1>15. Marks(m)' => Marks(m)
  BY <1>3, <1>8, <1>9 DEF Marks
<1>16. ASSUME NEW n \in Names \ {m}
       PROVE  Same(n)
  <2>1. On(n)' = On(n) /\ \A u \in On(n) : u # t /\ u \in Callers
    BY <1>1, <1>2 DEF On, caller
  <2>2. Of(n)' = Of(n)
    BY <1>4, <1>5, <1>6 DEF Of
  <2>. QED
    BY <1>1, <1>3, <1>8, <2>1, <2>2 DEF Same, VolsOf, NetInv, caller
<1>. QED
  BY <1>1, <1>3, <1>10, <1>11, <1>12, <1>13, <1>14, <1>15, <1>16, LocalStep DEF NameInv

(* The operation of a caller ends otherwise than in libvirt: answered by the *)
(* host agent, not sent, or refused by the static provider.                  *)
LEMMA ResultKeeps ==
  ASSUME WorldInv, HostInv', NEW t \in Callers, pc[t] \in Ops,
         \/ /\ answer[t] = "none" /\ (UsesAgent(t) \/ backend = "static")
            /\ Finish(t, pc[t], FALSE) \/ (t \in Proxies /\ Goto(t, "idle"))
         \/ answer[t] = "err" /\ Finish(t, pc[t], FALSE)
         \/ answer[t] = "ok" /\ Finish(t, pc[t], TRUE),
         answer' = [answer EXCEPT ![t] = "none"], faults' \in {faults, faults + 1},
         UNCHANGED <<backend, host, used, todo, xml, reqs, raced, gone>>
  PROVE  WorldInv'
<1>1. CallerInv /\ NetInv /\ faults \in Nat
  BY DEF WorldInv, HostInv, MarkInv
<1>2. PICK m : m = vm[t]
  OBVIOUS
<1>3. m \in Names /\ NameInv(m) /\ t \in On(m) /\ pc[t] # "idle"
  BY <1>1, <1>2 DEF CallerInv, On, Ops, WorldInv
<1>4. /\ Alone(t) /\ (pc'[t] = "idle" \/ vm'[t] = m)
  BY <1>1, <1>2 DEF Alone, CallerInv, NetInv, Finish, Goto
<1>5. /\ \A u \in On(m)' : u \in On(m)
      /\ \A u \in On(m) : u \in On(m)' <=> u # t \/ pc'[t] # "idle"
      /\ \A u \in On(m) \ {t} : /\ pc'[u] = pc[u] /\ answer'[u] = answer[u]
                                /\ todo'[u] = todo[u] /\ xml'[u] = xml[u]
      /\ answer'[t] = "none"
  BY <1>1, <1>3, <1>4, OnAfter DEF NetInv
<1>6. /\ \A r \in Of(m) : r.by # t
      /\ UNCHANGED <<dom, vols, gone, backend, used, raced, reqs>>
  BY <1>1 DEF NetInv, Of, host
<1>7. /\ Of(m)' = Of(m) /\ VolsOf(m)' = VolsOf(m) /\ (Running(m)' <=> Running(m))
      /\ m \in Defined' <=> m \in Defined
  BY <1>6 DEF Of, VolsOf, Running, Defined
(* Where it goes. *)
<1>8. \/ pc'[t] = "idle" /\ cidFailed' = cidFailed
      \/ pc[t] = "clone" /\ answer[t] = "ok" /\ pc'[t] = "set" /\ cidFailed' = cidFailed
      \/ pc[t] = "set" /\ pc'[t] = "start" /\ cidFailed' = cidFailed /\ answer[t] = "ok"
      \/ pc[t] = "set" /\ pc'[t] = "start" /\ cidFailed' = cidFailed \cup {m}
      \/ pc[t] \in {"start", "stop"} /\ pc'[t] = "delete" /\ cidFailed' = cidFailed
      \/ pc'[t] = "idle" /\ pc[t] = "set" /\ cidFailed' = cidFailed \cup {m}
  BY <1>1, <1>2 DEF CallerInv, Finish, Goto, After, Ops
<1>9. pc[t] = "clone" /\ answer[t] = "ok" => backend = "host-agent"
  BY <1>1, <1>3 DEF NameInv, ReachInv, UsesAgent, NetInv
<1>10. ReachInv(m)'
  BY <1>3, <1>5, <1>6, <1>7, <1>8 DEF NameInv, ReachInv
<1>11. BuildInv(m)'
  BY <1>3, <1>5, <1>6, <1>7, <1>8 DEF NameInv, BuildInv, Builds, Untouched, Fresh, Deletes
<1>12. CidInv(m)'
  BY <1>3, <1>5, <1>6, <1>7, <1>8 DEF NameInv, CidInv, CidSet
<1>13. GoneInv(m)'
  BY <1>3, <1>5, <1>6, <1>7, <1>8, <1>9 DEF NameInv, GoneInv, BuildInv, Builds, Undisturbed, Deletes
<1>14. DiskInv(m)'
  BY <1>3, <1>5, <1>6, <1>7, <1>8 DEF NameInv, DiskInv
<1>15. Marks(m)' => Marks(m)
  BY <1>3, <1>5, <1>6, <1>7, <1>8 DEF Marks, Ops
<1>16. Beside(m)
  BY <1>6, <1>8 DEF Beside
<1>17. ASSUME NEW n \in Names \ {m}
       PROVE  Same(n)
  <2>1. Of(n)' = Of(n)
    BY <1>6 DEF Of
  <2>. QED
    BY <1>2, <1>3, <1>4, <1>16, <2>1, Elsewhere
<1>. QED
  BY <1>3, <1>6, <1>10, <1>11, <1>12, <1>13, <1>14, <1>15, <1>17, LocalStep DEF NameInv

LEMMA AgentKeepsWorld ==
  ASSUME WorldInv, NEW t \in Callers, AgentStep(t)
  PROVE  WorldInv'
<1>1. HostInv' /\ answer \in [Callers -> {"none", "wait", "ok", "err"}] /\ CallerInv
  BY AgentKeeps DEF WorldInv, HostInv, NetInv
<1>2. CASE ConnectFails(t)
  <2>1. answer' = [answer EXCEPT ![t] = "none"]
    BY <1>1, <1>2 DEF ConnectFails, net
  <2>. QED
    BY <1>1, <1>2, <2>1, ResultKeeps DEF ConnectFails, Fault, net
<1>3. CASE IntoResult(t)
  <2>1. pc[t] \in Ops
    BY <1>3 DEF IntoResult, WorldInv, HostInv, NetInv
  <2>2. \/ answer[t] = "err" /\ Finish(t, pc[t], FALSE)
        \/ answer[t] = "ok" /\ Finish(t, pc[t], TRUE)
    BY <1>3 DEF IntoResult, Finish
  <2>. QED
    BY <1>1, <1>3, <2>1, <2>2, ResultKeeps DEF IntoResult
<1>. QED
  BY <1>2, <1>3, SendKeeps, BreakKeeps DEF AgentStep

-----------------------------------------------------------------------------
(* The other steps. *)

(* A caller takes a new clone, or a VM that is defined. *)
LEMMA TakesKeeps ==
  ASSUME WorldInv, HostInv', NEW t \in Callers, NEW n \in Names, NEW step \in Ops,
         pc[t] = "idle", pc' = [pc EXCEPT ![t] = step], vm' = [vm EXCEPT ![t] = n],
         UNCHANGED <<backend, host, todo, xml, net, faults, cidFailed, gone>>, raced => raced',
         \/ /\ step = "clone" /\ n \notin used /\ used' = used \cup {n} /\ t \in Tasks
         \/ /\ step = "stop" /\ n \in Defined /\ used' = used
            /\ n \in Building => raced' \/ t \in Proxies
            /\ t \in Proxies => n \notin Building
  PROVE  WorldInv'
<1>1. CallerInv /\ NetInv /\ NameInv(n) /\ t \notin On(n) /\ t \in On(n)' /\ "idle" \notin Ops
      /\ answer[t] = "none" /\ faults \in Nat
  BY DEF WorldInv, HostInv, NetInv, CallerInv, On, MarkInv, Ops
<1>2. /\ On(n)' = On(n) \cup {t} /\ pc'[t] = step
      /\ \A u \in On(n) : pc'[u] = pc[u]
      /\ UNCHANGED <<dom, vols, gone, backend, reqs, answer, todo, xml, cidFailed, faults>>
  BY <1>1 DEF On, CallerInv, host, net
<1>3. /\ Of(n)' = Of(n) /\ VolsOf(n)' = VolsOf(n) /\ (Running(n)' <=> Running(n))
      /\ (n \in Defined' <=> n \in Defined) /\ \A r \in Of(n) : r.by # t
  BY <1>1, <1>2 DEF Of, VolsOf, Running, Defined, NetInv
<1>4. \A m \in Names \ {n} : Same(m)
  <2>1. SUFFICES ASSUME NEW m \in Names \ {n} PROVE Same(m)
    OBVIOUS
  <2>2. Alone(t) /\ Beside(n) /\ (pc[t] = "idle" \/ vm[t] = n) /\ (pc'[t] = "idle" \/ vm'[t] = n)
        /\ Of(m)' = Of(m)
    BY <1>1, <1>2 DEF Alone, Beside, CallerInv, Of
  <2>. QED
    BY <2>2, Elsewhere
(* Nobody who prepares n in libvirt is disturbed unnoticed. *)
<1>5. step = "stop" /\ backend # "host-agent" /\ ~raced' =>
         \A u \in On(n) : pc[u] \notin {"volumes", "set", "redefine", "start"}
  <2>1. \A u \in On(n) : pc[u] \in {"volumes", "set", "redefine", "start"} => u \in Tasks /\ n \in Building
    BY <1>1 DEF NameInv, ReachInv, On, Building, Callers
  <2>. QED
    BY <2>1
<1>6. ReachInv(n)'
  BY <1>1, <1>2, <1>3, HostAssumption DEF NameInv, ReachInv
<1>7. BuildInv(n)'
  BY <1>1, <1>2, <1>3 DEF NameInv, BuildInv, Builds, Untouched, Fresh, Deletes
<1>8. CidInv(n)'
  BY <1>1, <1>2, <1>3 DEF NameInv, CidInv, CidSet
<1>9. GoneInv(n)'
  BY <1>1, <1>2, <1>3, <1>5 DEF NameInv, GoneInv, Undisturbed, Deletes, BuildInv
<1>10. DiskInv(n)'
  BY <1>1, <1>2, <1>3 DEF NameInv, DiskInv
<1>11. Marks(n)' => Marks(n)
  BY <1>1, <1>2, <1>3 DEF Marks
<1>. QED
  BY <1>1, <1>2, <1>4, <1>6, <1>7, <1>8, <1>9, <1>10, <1>11, LocalStep DEF NameInv

(* A guest ends by itself. *)
LEMMA PowersOffKeeps ==
  ASSUME WorldInv, HostInv', NEW m \in Names, GuestPowersOff(m)
  PROVE  WorldInv'
<1>1. DomInv /\ NameInv(m) /\ dom' = PoweredOff(m) /\ faults \in Nat
      /\ UNCHANGED <<backend, vols, used, pc, vm, todo, xml, reqs, answer, faults, raced, cidFailed, gone>>
  BY DEF WorldInv, HostInv, GuestPowersOff, caller, net, hist, MarkInv
<1>2. \A n \in Names : On(n)' = On(n) /\ Of(n)' = Of(n) /\ VolsOf(n)' = VolsOf(n)
  BY <1>1 DEF On, Of, VolsOf
<1>3. \A n \in Names \ {m} : Same(n)
  BY <1>1, <1>2, OneDomain DEF Same
<1>4. /\ m \in Defined' => m \in Defined
      /\ m \in Defined' => dom'[m].disks = dom[m].disks /\ dom'[m].cid = dom[m].cid
                           /\ (dom'[m].kept <=> dom[m].kept)
      /\ m \in Defined /\ dom[m].kept => m \in Defined'
      /\ ~Running(m)'
  BY <1>1, PoweredOffIs
<1>5. ReachInv(m)'
  BY <1>1, <1>2 DEF NameInv, ReachInv
<1>6. BuildInv(m)'
  BY <1>1, <1>2, <1>4 DEF NameInv, BuildInv, Builds, Untouched, Fresh, Deletes
<1>7. CidInv(m)'
  BY <1>1, <1>2, <1>4 DEF NameInv, CidInv, CidSet
<1>8. GoneInv(m)'
  BY <1>1, <1>2, <1>4 DEF NameInv, GoneInv, Undisturbed, Deletes
<1>9. DiskInv(m)'
  BY <1>1, <1>2, <1>4 DEF NameInv, DiskInv
<1>10. Marks(m)' => Marks(m)
  BY <1>1, <1>2, <1>4 DEF Marks
<1>. QED
  BY <1>1, <1>3, <1>5, <1>6, <1>7, <1>8, <1>9, <1>10, LocalStep DEF NameInv

(* Nothing about any clone changes. *)
LEMMA StillKeeps ==
  ASSUME WorldInv, HostInv', \A n \in Names : dom'[n] = dom[n],
         UNCHANGED <<backend, vols, used, caller, net, hist>>
  PROVE  WorldInv'
<1>1. UNCHANGED <<backend, vols, used, pc, vm, todo, xml, reqs, answer, faults, raced, cidFailed, gone>>
  BY DEF caller, net, hist
<1>2. \A n \in Names : On(n)' = On(n) /\ Of(n)' = Of(n) /\ VolsOf(n)' = VolsOf(n)
  BY <1>1 DEF On, Of, VolsOf
<1>3. \A n \in Names : Same(n)
  BY <1>1, <1>2 DEF Same
<1>4. \A n \in Names : NameInv(n)' /\ (Marks(n)' => Marks(n))
  BY <1>1, <1>3, SameKeeps DEF WorldInv
<1>5. PICK m : m \notin Names
  BY HostAssumption
<1>6. MarkInv /\ faults' \in {faults, faults + 1} /\ \A n \in Names \ {m} : Marks(n)' => Marks(n)
  BY <1>1, <1>4 DEF WorldInv
<1>7. MarkInv'
  BY <1>5, <1>6, MarkStep
<1>. QED
  BY <1>4, <1>7 DEF WorldInv

LEMMA WorldInit == Init => WorldInv
<1> SUFFICES ASSUME Init PROVE WorldInv
  OBVIOUS
<1>1. HostInv
  BY HostInit
<1>2. ASSUME NEW n \in Names
      PROVE  On(n) = {} /\ Of(n) = {} /\ VolsOf(n) = {} /\ n \notin Defined /\ ~Running(n)
  <2>1. dom[n] = Absent
    BY HostAssumption DEF Init, AllVms
  <2>2. VolsOf(n) = {}
    BY DisksApart, HostAssumption DEF Init, VolsOf
  <2>. QED
    BY <2>1, <2>2, AbsentIs DEF Init, On, Of, Defined, Running
<1>3. \A n \in Names : NameInv(n) /\ ~Marks(n)
  BY <1>2 DEF Init, NameInv, ReachInv, BuildInv, CidInv, GoneInv, DiskInv, Marks, Untouched, Fresh
<1>4. Marked = {}
  BY <1>3 DEF Marked
<1>5. MarkInv
  BY <1>4, FS_EmptySet DEF MarkInv, Init
<1>. QED
  BY <1>1, <1>3, <1>5 DEF WorldInv

LEMMA WorldStep == WorldInv /\ [Next]_vars => WorldInv'
<1> SUFFICES ASSUME WorldInv, [Next]_vars PROVE WorldInv'
  OBVIOUS
<1>1. HostInv'
  BY HostStep DEF WorldInv
<1>2. ASSUME NEW t \in Tasks, NEW n \in Names, Provision(t, n)
      PROVE  WorldInv'
  <2>1. t \in Callers /\ "clone" \in Ops
    BY DEF Callers, Ops
  <2>. QED
    BY <1>1, <1>2, <2>1, TakesKeeps DEF Provision, hist
<1>3. ASSUME NEW t \in Tasks, NEW n \in Names, Retire(t, n)
      PROVE  WorldInv'
  <2>1. t \in Callers /\ t \notin Proxies /\ "stop" \in Ops /\ n \in Defined
    BY <1>3, HostAssumption DEF Callers, Ops, Retire, ListVms
  <2>. QED
    BY <1>1, <1>3, <2>1, TakesKeeps DEF Retire
<1>4. ASSUME NEW p \in Proxies, NEW n \in Names, CleanupDynamicVm(p, n)
      PROVE  WorldInv'
  <2>1. p \in Callers /\ "stop" \in Ops /\ n \in Defined /\ n \notin Building
    BY <1>4 DEF Callers, Ops, CleanupDynamicVm
  <2>. QED
    BY <1>1, <1>4, <2>1, TakesKeeps DEF CleanupDynamicVm, hist
<1>5. ASSUME NEW t \in Tasks, StaticRefuses(t)
      PROVE  WorldInv'
  <2>1. t \in Callers /\ NetInv /\ pc[t] \in Ops
    BY <1>5 DEF Callers, StaticRefuses, WorldInv, HostInv
  <2>2. answer[t] = "none" /\ answer' = [answer EXCEPT ![t] = "none"] /\ UNCHANGED reqs
    BY <1>5, <2>1, HostAssumption DEF StaticRefuses, NetInv, UsesAgent, net
  <2>. QED
    BY <1>1, <1>5, <2>1, <2>2, ResultKeeps DEF StaticRefuses
<1>6. ASSUME NEW n \in Names, GuestPowersOff(n)
      PROVE  WorldInv'
  BY <1>1, <1>6, PowersOffKeeps
<1>7. CASE TemplateToggled
  <2>1. \A n \in Names : dom'[n] = dom[n]
    BY <1>7, HostAssumption DEF TemplateToggled, WorldInv, HostInv, DomInv, Apart, AllVms
  <2>. QED
    BY <1>1, <1>7, <2>1, StillKeeps DEF TemplateToggled
<1>8. CASE UNCHANGED vars
  BY <1>1, <1>8, StillKeeps DEF vars, host
<1>. QED
  BY <1>2, <1>3, <1>4, <1>5, <1>6, <1>7, <1>8,
     LibvirtKeepsWorld, AgentKeepsWorld, RequestKeepsWorld DEF Next

LEMMA GoneNames ==
  ASSUME HostInv, gone \subseteq Names, [Next]_vars
  PROVE  gone' \subseteq Names
<1>1. CallerInv /\ NetInv
  BY DEF HostInv
<1>2. ASSUME NEW t \in Tasks, LibvirtStep(t)
      PROVE  gone' \subseteq Names
  <2>1. gone' = gone \/ (gone' = gone \cup {vm[t]} /\ pc[t] = "erase" /\ t \in Callers)
    BY <1>2 DEF LibvirtStep, CloneVm, CloneVolume, DefineClone, SetVsockRead, SetVsockDefine,
       StartVm, StopVm, DeleteVm, DeleteVolume, Undefine, At, Callers
  <2>. QED
    BY <1>1, <2>1 DEF CallerInv
<1>3. ASSUME NEW r \in reqs, HandleRequest(r)
      PROVE  gone' \subseteq Names
  <2>1. gone' = gone \/ gone' = gone \cup {r.vm}
    BY <1>3 DEF HandleRequest, WithConn, Dispatch, AgentDeleteVm
  <2>. QED
    BY <1>1, <2>1 DEF NetInv
<1>4. ASSUME NEW t \in Callers, AgentStep(t)
      PROVE  gone' = gone
  BY <1>4 DEF AgentStep, SendRequest, ConnectFails, ConnectionBreaks, IntoResult, hist
<1>5. CASE UNCHANGED vars
  BY <1>5 DEF vars, hist
<1>. QED
  BY <1>2, <1>3, <1>4, <1>5 DEF Next, Provision, Retire, CleanupDynamicVm, StaticRefuses,
     GuestPowersOff, TemplateToggled, hist

LEMMA WorldSafety == Spec => [](WorldInv /\ gone \subseteq Names)
<1>1. Init => WorldInv /\ gone \subseteq Names
  BY WorldInit DEF Init
<1>2. (WorldInv /\ gone \subseteq Names) /\ [Next]_vars => (WorldInv /\ gone \subseteq Names)'
  BY WorldStep, GoneNames DEF WorldInv
<1>. QED
  BY <1>1, <1>2, PTL DEF Spec

-----------------------------------------------------------------------------
(* What follows. *)

(* However clones, settings, starts, retirements and failures interleave,   *)
(* in the libvirt provider, in the host agent and between them, a VM that   *)
(* runs does so with the CID that its token says, unless the setting of its *)
(* CID failed.                                                              *)
THEOREM CidSafety == Spec => []RunsWithItsCid
<1>1. WorldInv => RunsWithItsCid
  BY DEF WorldInv, NameInv, CidInv, RunsWithItsCid
<1>. QED
  BY <1>1, WorldSafety, PTL

(* A VM that was deleted is not defined again by what was under way for it, *)
(* unless it was retired while the libvirt provider prepared it.            *)
THEOREM GoneSafety == Spec => []GoneStaysGone
<1>1. WorldInv /\ gone \subseteq Names => GoneStaysGone
  BY DEF WorldInv, NameInv, GoneInv, GoneStaysGone
<1>. QED
  BY <1>1, WorldSafety, PTL

(* Each orphan is a disk, by its number, of a clone that a failure left.    *)
LEMMA OrphansOfMarked ==
  ASSUME WorldInv
  PROVE  \A d \in Orphans : /\ d.base \in Marked
                            /\ \E i \in 1..Len(TemplateDisks) : d = NewPath(TemplateDisks[i], d.base)
<1>. SUFFICES ASSUME NEW d \in Orphans
              PROVE  /\ d.base \in Marked
                     /\ \E i \in 1..Len(TemplateDisks) : d = NewPath(TemplateDisks[i], d.base)
  OBVIOUS
<1>1. /\ d.base \in Names /\ d \in VolsOf(d.base) /\ d.base \notin Defined
      /\ \A t \in Tasks : pc[t] = "volumes" => vm[t] # d.base
  BY DEF Orphans, VolsOf
<1>2. NameInv(d.base)
  BY <1>1 DEF WorldInv
<1>3. \A t \in On(d.base) : pc[t] # "volumes"
  BY <1>1, <1>2 DEF NameInv, ReachInv, On, Callers
<1>4. d.base \in Marked
  BY <1>1, <1>3 DEF Marked, Marks
<1>5. d \in CloneVols(d.base, Len(TemplateDisks))
  BY <1>1, <1>2 DEF NameInv, DiskInv
<1>. QED
  BY <1>4, <1>5 DEF CloneVols

(* A volume whose domain is gone or was never defined is left by a call to  *)
(* libvirt that failed, at most the disks of one clone for each failure,    *)
(* unless an operation under way still has it to treat.                     *)
THEOREM OrphanSafety == Spec => []OrphansFromFailures
<1>1. ASSUME WorldInv PROVE OrphansFromFailures
  <2>. DEFINE N == Len(TemplateDisks)
              Nth(d) == CHOOSE i \in 1..N : d = NewPath(TemplateDisks[i], d.base)
              f == [d \in Orphans |-> <<d.base, Nth(d)>>]
  <2>1. \A d \in Orphans : /\ d.base \in Marked /\ Nth(d) \in 1..N
                           /\ d = NewPath(TemplateDisks[Nth(d)], d.base)
    BY <1>1, OrphansOfMarked
  <2>. HIDE DEF Nth
  <2>2. f \in Injection(Orphans, Marked \X (1..N))
    <3>1. f \in [Orphans -> Marked \X (1..N)]
      BY <2>1
    <3>2. ASSUME NEW d \in Orphans, NEW e \in Orphans, f[d] = f[e] PROVE d = e
      <4>1. <<d.base, Nth(d)>> = <<e.base, Nth(e)>>
        BY <3>2
      <4>2. d.base = e.base /\ Nth(d) = Nth(e)
        BY <4>1
      <4>. QED
        BY <2>1, <4>2
    <3>. QED
      BY <3>1, <3>2 DEF Injection, IsInjective
  <2>. HIDE DEF f
  <2>3. N \in Nat /\ IsFiniteSet(1..N) /\ Cardinality(1..N) = N
    <3>1. N \in Nat
      BY WholeDisks
    <3>. HIDE DEF N
    <3>2. IsFiniteSet(1..N) /\ Cardinality(1..N) = IF 1 > N THEN 0 ELSE N - 1 + 1
      BY <3>1, FS_Interval
    <3>. QED
      BY <3>1, <3>2
  <2>4. /\ N \in Nat /\ IsFiniteSet(1..N) /\ Cardinality(1..N) = N
        /\ faults \in Nat /\ IsFiniteSet(Marked) /\ Cardinality(Marked) \in Nat
        /\ Cardinality(Marked) <= faults
    BY <1>1, <2>3, FS_CardinalityType DEF WorldInv, MarkInv
  <2>5. IsFiniteSet(Marked \X (1..N)) /\ Cardinality(Marked \X (1..N)) = Cardinality(Marked) * N
    BY <2>4, FS_Product
  <2>6. Cardinality(Orphans) <= Cardinality(Marked) * N /\ Cardinality(Orphans) \in Nat
    BY <2>2, <2>5, FS_Injection, FS_CardinalityType
  <2>7. \A a, b, c \in Nat : a <= b => a * c <= b * c
    OBVIOUS
  <2>8. Cardinality(Marked) * N <= faults * N /\ Cardinality(Marked) * N \in Nat /\ faults * N \in Nat
    BY <2>4, <2>7
  <2>. QED
    BY <2>6, <2>8 DEF OrphansFromFailures
<1>. QED
  BY <1>1, WorldSafety, PTL

=============================================================================
