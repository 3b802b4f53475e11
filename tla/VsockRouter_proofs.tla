-------------------------- MODULE VsockRouter_proofs --------------------------
(***************************************************************************)
(* Proofs about VsockRouter, for all sets of sessions and connections and  *)
(* every sharing of CIDs.                                                  *)
(***************************************************************************)
EXTENDS VsockRouter, TLAPS

-----------------------------------------------------------------------------
(* The inductive invariant. *)

(* An agent connects from a VM that has been started. *)
StartedVms == \A a \in Conns : task[a] # "away" => vm[SessionOf[a]] # "off"

OneVmPerCid ==
  \A s, u \in Sessions : vm[s] = "up" /\ vm[u] = "up" /\ CidOf[s] = CidOf[u] => s = u

ChannelHeld == \A a \in Conns : chan[a] # None => task[a] \in {"connected", "hello", "active"}

(* One task at a time is between its look at cid_input_rxs and its insertion  *)
(* in cid_input_txs.                                                          *)
LockExclusive == \A a, b \in Conns : task[a] = "accept" /\ task[b] = "accept" => a = b

(* Nobody registers or connects for its CID in the meantime. *)
LockProtects ==
  \A b \in Conns : task[b] = "accept" =>
    /\ rxs[CidAt(b)] = None
    /\ \A a \in Conns : CidAt(a) = CidAt(b) /\ chan[a] # None => ~Up(a)

(* A client finds channel x for the CID, or x's maker is about to insert it. *)
Reaches(cid, x) ==
  \/ txs[cid] = x
  \/ x \in Sessions /\ CidOf[x] = cid /\ spc[x] = "putTx"

WaitingReached == \A cid \in Cids : rxs[cid] # None /\ cid \notin raced => Reaches(cid, rxs[cid])

ReadReached ==
  \A a \in Conns : chan[a] # None /\ Up(a) /\ CidAt(a) \notin raced
                     => Reaches(CidAt(a), chan[a])

(* No agent of an earlier VM is left when a VM runs, nor two at a time. *)
AgentsOfVm ==
  \A b \in Conns, u \in Sessions :
    Handled(b) /\ vm[u] = "up" /\ CidOf[u] = CidAt(b) => SessionOf[b] = u

OneVmHandled ==
  \A a, b \in Conns : Handled(a) /\ Handled(b) /\ CidAt(a) = CidAt(b)
                        => SessionOf[a] = SessionOf[b]

(* A session that is armed and was told nothing still has its agent. *)
ArmedHolds ==
  \A s \in armed : spc[s] = "streaming" /\ s \notin cancelled =>
    /\ tokens[CidOf[s]] = s
    /\ \E a \in Conns : Handled(a) /\ SessionOf[a] = s

ScreenInv == AgentsOfVm /\ OneVmHandled /\ ArmedHolds

-----------------------------------------------------------------------------
(* Type correctness. *)

(* An agent connects from the VM of a session, and that VM has a CID. *)
LEMMA Places == \A a \in Conns : SessionOf[a] \in Sessions /\ CidAt(a) \in Cids
BY RouterAssumption DEF CidAt, Cids

(* Every step of the proxy keeps its state well typed. *)
LEMMA TypeStep == TypeOK /\ [Next]_vars => TypeOK'
<1> SUFFICES ASSUME TypeOK, [Next]_vars PROVE TypeOK'
  OBVIOUS
<1> USE RouterAssumption, Places DEF TypeOK, Channels, Cids, TaskPc, SessionPc,
        agentVars, sessionVars, mapVars, history
<1>1. ASSUME NEW s \in Sessions, VmStarts(s) PROVE TypeOK'
  BY <1>1 DEF VmStarts
<1>2. ASSUME NEW s \in Sessions, VmDestroyed(s) PROVE TypeOK'
  BY <1>2 DEF VmDestroyed
<1>3. ASSUME NEW s \in Sessions, Register(s) PROVE TypeOK'
  BY <1>3 DEF Register, Goes
<1>4. ASSUME NEW s \in Sessions, PutRx(s) PROVE TypeOK'
  BY <1>4 DEF PutRx, NoteRace, Goes
<1>5. ASSUME NEW s \in Sessions, PutTx(s) PROVE TypeOK'
  BY <1>5 DEF PutTx, NoteRace, Goes
<1>6. ASSUME NEW s \in Sessions, ReadCaps(s) PROVE TypeOK'
  BY <1>6 DEF ReadCaps, Goes
<1>7. ASSUME NEW s \in Sessions, Listen(s) PROVE TypeOK'
  BY <1>7 DEF Listen, Goes
<1>8. ASSUME NEW s \in Sessions, WaitTimeout(s) PROVE TypeOK'
  BY <1>8 DEF WaitTimeout, Goes
<1>9. ASSUME NEW s \in Sessions, Subscribe(s) PROVE TypeOK'
  BY <1>9 DEF Subscribe, Arm, Goes
<1>10. ASSUME NEW s \in Sessions, AgentLost(s) PROVE TypeOK'
  BY <1>10 DEF AgentLost, StreamEnds, Goes
<1>11. ASSUME NEW s \in Sessions, Cleanup(s) PROVE TypeOK'
  BY <1>11 DEF Cleanup, Goes
<1>12. ASSUME NEW s \in Sessions, MakeInjector(s) PROVE TypeOK'
  BY <1>12 DEF MakeInjector
<1>13. ASSUME NEW s \in Sessions, HandshakeFails(s) PROVE TypeOK'
  BY <1>13 DEF HandshakeFails, Goes
<1>14. ASSUME NEW s \in Sessions, ClientLeaves(s) PROVE TypeOK'
  BY <1>14 DEF ClientLeaves, StreamEnds, Goes
<1>15. ASSUME NEW a \in Conns, AgentCloses(a) PROVE TypeOK'
  BY <1>15 DEF AgentCloses
<1>16. ASSUME NEW a \in Conns, Accept(a) PROVE TypeOK'
  BY <1>16 DEF Accept, TaskGoes
<1>17. ASSUME NEW a \in Conns, MakeChannel(a) PROVE TypeOK'
  BY <1>17 DEF MakeChannel, TaskGoes
<1>18. ASSUME NEW a \in Conns, Hello(a) PROVE TypeOK'
  BY <1>18 DEF Hello, TaskGoes
<1>19. ASSUME NEW a \in Conns, NotifyWaiters(a) PROVE TypeOK'
  BY <1>19 DEF NotifyWaiters, TaskGoes
<1>20. ASSUME NEW a \in Conns, ConnEnds(a) PROVE TypeOK'
  BY <1>20 DEF ConnEnds, TaskGoes
<1>21. ASSUME NEW a \in Conns, NotifyDisconnect(a) PROVE TypeOK'
  BY <1>21 DEF NotifyDisconnect, TaskGoes
<1>22. CASE UNCHANGED vars
  BY <1>22 DEF vars, agentVars, sessionVars, mapVars, history
<1>. QED
  BY <1>1, <1>2, <1>3, <1>4, <1>5, <1>6, <1>7, <1>8, <1>9, <1>10, <1>11, <1>12,
      <1>13, <1>14, <1>15, <1>16, <1>17, <1>18, <1>19, <1>20, <1>21, <1>22
  DEF Next, AgentStep, SessionStep

(* The maps, the tasks and the sessions are well typed in every behaviour; in *)
(* particular only sessions hold cancelled tokens.                            *)
THEOREM TypeCorrect == Spec => []TypeOK
<1>1. Init => TypeOK
  <2> SUFFICES ASSUME Init PROVE TypeOK
    OBVIOUS
  <2>. QED
    BY DEF Init, TypeOK, TaskPc, SessionPc
<1>. QED
  BY <1>1, TypeStep, PTL DEF Spec

-----------------------------------------------------------------------------
(* The lock of the accept loop, and the VM an agent connects from. *)

LockInv == StartedVms /\ OneVmPerCid /\ ChannelHeld /\ LockExclusive /\ LockProtects

(* Accept takes the lock when the agent has no other live connection and no   *)
(* other VM runs on the CID; until MakeChannel releases it, a connection that *)
(* reads a channel of the CID belongs to a dead agent, and stays so.          *)
LEMMA LockStep == TypeOK /\ LockInv /\ [Next]_vars => LockInv'
<1> SUFFICES ASSUME TypeOK, LockInv, [Next]_vars PROVE LockInv'
  OBVIOUS
<1> USE RouterAssumption, Places DEF TypeOK, TaskPc, LockInv, StartedVms,
        OneVmPerCid, ChannelHeld, LockExclusive,
        LockProtects, Up, Handled, RxsLocked, CidAt, Channels,
        agentVars, sessionVars, mapVars, history
<1>1. CASE UNCHANGED <<task, chan, closed, vm, rxs>>
  BY <1>1
<1>2. ASSUME NEW s \in Sessions, VmStarts(s) PROVE LockInv'
  BY <1>2 DEF VmStarts
<1>3. ASSUME NEW s \in Sessions, VmDestroyed(s) PROVE LockInv'
  BY <1>3 DEF VmDestroyed
<1>4. ASSUME NEW s \in Sessions, Cleanup(s) PROVE LockInv'
  BY <1>4 DEF Cleanup, Goes
<1>5. ASSUME NEW s \in Sessions, PutRx(s) PROVE LockInv'
  BY <1>5 DEF PutRx, Goes
<1>6. ASSUME NEW a \in Conns, AgentCloses(a) PROVE LockInv'
  BY <1>6 DEF AgentCloses
<1>7. ASSUME NEW a \in Conns, Accept(a) PROVE LockInv'
  BY <1>7 DEF Accept, TaskGoes
<1>8. ASSUME NEW a \in Conns, MakeChannel(a) PROVE LockInv'
  BY <1>8 DEF MakeChannel, TaskGoes
<1>9. ASSUME NEW a \in Conns, Hello(a) PROVE LockInv'
  BY <1>9 DEF Hello, TaskGoes
<1>10. ASSUME NEW a \in Conns, NotifyWaiters(a) PROVE LockInv'
  BY <1>10 DEF NotifyWaiters, TaskGoes
<1>11. ASSUME NEW a \in Conns, ConnEnds(a) PROVE LockInv'
  BY <1>11 DEF ConnEnds, TaskGoes
<1>12. ASSUME NEW a \in Conns, NotifyDisconnect(a) PROVE LockInv'
  BY <1>12 DEF NotifyDisconnect, TaskGoes
<1>. QED
  BY <1>1, <1>2, <1>3, <1>4, <1>5, <1>6, <1>7, <1>8, <1>9, <1>10, <1>11, <1>12
  DEF Next, AgentStep, SessionStep, vars, agentVars, sessionVars, mapVars, history,
      Register, Goes, PutTx, ReadCaps, Listen, WaitTimeout, Subscribe, AgentLost,
      StreamEnds, MakeInjector, HandshakeFails, ClientLeaves

-----------------------------------------------------------------------------
(* The channel a client finds is the one that is read. *)

ReachInv == WaitingReached /\ ReadReached

(* The sender of a CID is replaced by MakeChannel, when only dead agents read *)
(* the CID, and by PutTx, which finds none unless it has raced.               *)
LEMMA ReachStep == TypeOK /\ LockInv /\ ReachInv /\ [Next]_vars => ReachInv'
<1> SUFFICES ASSUME TypeOK, LockInv, ReachInv, [Next]_vars PROVE ReachInv'
  OBVIOUS
<1> USE RouterAssumption, Places DEF TypeOK, TaskPc, SessionPc, LockInv, StartedVms,
        OneVmPerCid,
        ChannelHeld, LockExclusive, LockProtects, ReachInv, WaitingReached, ReadReached, Reaches,
        Up, Handled, RxsLocked, CidAt, Channels,
        agentVars, sessionVars, mapVars, history
<1>1. CASE UNCHANGED <<chan, closed, vm, rxs, txs, spc, raced>>
  BY <1>1
<1>2. ASSUME NEW s \in Sessions, VmStarts(s) PROVE ReachInv'
  BY <1>2 DEF VmStarts
<1>3. ASSUME NEW s \in Sessions, VmDestroyed(s) PROVE ReachInv'
  BY <1>3 DEF VmDestroyed
<1>4. ASSUME NEW s \in Sessions, Register(s) PROVE ReachInv'
  BY <1>4 DEF Register, Goes
<1>5. ASSUME NEW s \in Sessions, PutRx(s) PROVE ReachInv'
  BY <1>5 DEF PutRx, Goes, NoteRace
<1>6. ASSUME NEW s \in Sessions, PutTx(s) PROVE ReachInv'
  <2>1. CASE txs[CidOf[s]] # None
    <3>1. CidOf[s] \in raced' /\ raced \subseteq raced'
      BY <1>6, <2>1 DEF PutTx, NoteRace
    <3>. QED
      BY <1>6, <3>1 DEF PutTx, Goes
  <2>2. CASE txs[CidOf[s]] = None
    <3>1. \A x \in Channels : Reaches(CidOf[s], x) => spc[x] = "putTx"
      BY <2>2
    <3>. QED
      BY <1>6, <2>2, <3>1 DEF PutTx, Goes, NoteRace, Cids
  <2>. QED
    BY <2>1, <2>2
<1>7. ASSUME NEW s \in Sessions, ReadCaps(s) PROVE ReachInv'
  BY <1>7 DEF ReadCaps, Goes
<1>8. ASSUME NEW s \in Sessions, Listen(s) PROVE ReachInv'
  BY <1>8 DEF Listen, Goes
<1>9. ASSUME NEW s \in Sessions, WaitTimeout(s) PROVE ReachInv'
  BY <1>9 DEF WaitTimeout, Goes
<1>10. ASSUME NEW s \in Sessions, Subscribe(s) PROVE ReachInv'
  BY <1>10 DEF Subscribe, Goes
<1>11. ASSUME NEW s \in Sessions, AgentLost(s) PROVE ReachInv'
  BY <1>11 DEF AgentLost, StreamEnds, Goes
<1>12. ASSUME NEW s \in Sessions, Cleanup(s) PROVE ReachInv'
  BY <1>12 DEF Cleanup, Goes
<1>13. ASSUME NEW s \in Sessions, HandshakeFails(s) PROVE ReachInv'
  BY <1>13 DEF HandshakeFails, Goes
<1>14. ASSUME NEW s \in Sessions, ClientLeaves(s) PROVE ReachInv'
  BY <1>14 DEF ClientLeaves, StreamEnds, Goes
<1>15. ASSUME NEW a \in Conns, AgentCloses(a) PROVE ReachInv'
  BY <1>15 DEF AgentCloses
<1>16. ASSUME NEW a \in Conns, Accept(a) PROVE ReachInv'
  BY <1>16 DEF Accept, TaskGoes
<1>17. ASSUME NEW a \in Conns, MakeChannel(a) PROVE ReachInv'
  BY <1>17 DEF MakeChannel, TaskGoes
<1>18. ASSUME NEW a \in Conns, NotifyWaiters(a) PROVE ReachInv'
  BY <1>18 DEF NotifyWaiters, TaskGoes
<1>19. ASSUME NEW a \in Conns, ConnEnds(a) PROVE ReachInv'
  BY <1>19 DEF ConnEnds, TaskGoes
<1>. QED
  BY <1>1, <1>2, <1>3, <1>4, <1>5, <1>6, <1>7, <1>8, <1>9, <1>10, <1>11, <1>12,
      <1>13, <1>14, <1>15, <1>16, <1>17, <1>18, <1>19
  DEF Next, AgentStep, SessionStep, vars, agentVars, sessionVars, mapVars, history,
      MakeInjector, Hello, TaskGoes, NotifyDisconnect

-----------------------------------------------------------------------------
(* Whose screen a session shows. *)

(* notify_agent_disconnect acts on whoever subscribed last, and the connection *)
(* that ends on a CID is of the same VM as any other of that CID.              *)
LEMMA ScreenStep ==
  ASSUME TeardownBeforeReuse, TypeOK, LockInv, ScreenInv, [Next]_vars
  PROVE  ScreenInv'
<1> USE TeardownBeforeReuse, RouterAssumption, Places DEF TypeOK, TaskPc, SessionPc,
        LockInv, OneVmPerCid,
        ScreenInv, AgentsOfVm, OneVmHandled, ArmedHolds, Up, Handled, CidAt,
        agentVars, sessionVars, mapVars, history
<1>1. CASE UNCHANGED <<task, vm, spc, tokens, cancelled, armed>>
  BY <1>1
<1>2. ASSUME NEW s \in Sessions, VmStarts(s) PROVE ScreenInv'
  BY <1>2 DEF VmStarts
<1>3. ASSUME NEW s \in Sessions, VmDestroyed(s) PROVE ScreenInv'
  BY <1>3 DEF VmDestroyed
<1>4. ASSUME NEW s \in Sessions, Register(s) PROVE ScreenInv'
  BY <1>4 DEF Register, Goes
<1>5. ASSUME NEW s \in Sessions, PutRx(s) PROVE ScreenInv'
  BY <1>5 DEF PutRx, Goes
<1>6. ASSUME NEW s \in Sessions, PutTx(s) PROVE ScreenInv'
  BY <1>6 DEF PutTx, Goes
<1>7. ASSUME NEW s \in Sessions, ReadCaps(s) PROVE ScreenInv'
  BY <1>7 DEF ReadCaps, Goes
<1>8. ASSUME NEW s \in Sessions, Listen(s) PROVE ScreenInv'
  BY <1>8 DEF Listen, Goes
<1>9. ASSUME NEW s \in Sessions, WaitTimeout(s) PROVE ScreenInv'
  BY <1>9 DEF WaitTimeout, Goes
<1>10. ASSUME NEW s \in Sessions, Subscribe(s) PROVE ScreenInv'
  BY <1>10 DEF Subscribe, Goes, Arm
<1>11. ASSUME NEW s \in Sessions, AgentLost(s) PROVE ScreenInv'
  BY <1>11 DEF AgentLost, StreamEnds, Goes
<1>12. ASSUME NEW s \in Sessions, Cleanup(s) PROVE ScreenInv'
  BY <1>12 DEF Cleanup, Goes
<1>13. ASSUME NEW s \in Sessions, HandshakeFails(s) PROVE ScreenInv'
  BY <1>13 DEF HandshakeFails, Goes
<1>14. ASSUME NEW s \in Sessions, ClientLeaves(s) PROVE ScreenInv'
  BY <1>14 DEF ClientLeaves, StreamEnds, Goes
<1>15. ASSUME NEW a \in Conns, Accept(a) PROVE ScreenInv'
  BY <1>15 DEF Accept, TaskGoes
<1>16. ASSUME NEW a \in Conns, MakeChannel(a) PROVE ScreenInv'
  BY <1>16 DEF MakeChannel, TaskGoes
<1>17. ASSUME NEW a \in Conns, Hello(a) PROVE ScreenInv'
  BY <1>17 DEF Hello, TaskGoes
<1>18. ASSUME NEW a \in Conns, NotifyWaiters(a) PROVE ScreenInv'
  BY <1>18 DEF NotifyWaiters, TaskGoes
<1>19. ASSUME NEW a \in Conns, ConnEnds(a) PROVE ScreenInv'
  BY <1>19 DEF ConnEnds, TaskGoes
<1>20. ASSUME NEW a \in Conns, NotifyDisconnect(a) PROVE ScreenInv'
  <2>1. AgentsOfVm' /\ OneVmHandled'
    BY <1>20 DEF NotifyDisconnect, TaskGoes
  <2>2. ASSUME NEW s \in armed, spc[s] = "streaming", s \notin cancelled'
        PROVE  tokens'[CidOf[s]] = s /\ \E b \in Conns : Handled(b)' /\ SessionOf[b] = s
    <3>1. tokens[CidOf[s]] = s
      BY <2>2, <1>20 DEF NotifyDisconnect
    <3>2. CidAt(a) # CidOf[s]
      BY <3>1, <2>2, <1>20 DEF NotifyDisconnect, Channels
    <3>3. PICK b \in Conns : Handled(b) /\ SessionOf[b] = s
      BY <2>2, <1>20 DEF NotifyDisconnect
    <3>4. b # a
      BY <3>2, <3>3
    <3>. QED
      BY <3>1, <3>2, <3>3, <3>4, <1>20 DEF NotifyDisconnect, TaskGoes, Cids
  <2>3. ArmedHolds'
    BY <2>2, <1>20 DEF NotifyDisconnect, TaskGoes
  <2>. QED
    BY <2>1, <2>3
<1>. QED
  BY <1>1, <1>2, <1>3, <1>4, <1>5, <1>6, <1>7, <1>8, <1>9, <1>10, <1>11, <1>12,
      <1>13, <1>14, <1>15, <1>16, <1>17, <1>18, <1>19, <1>20
  DEF Next, AgentStep, SessionStep, vars, agentVars, sessionVars, mapVars, history,
      MakeInjector, AgentCloses

-----------------------------------------------------------------------------
(* The theorems. *)

(* The invariant of the channels holds in every behaviour. *)
LEMMA Invariance == Spec => [](TypeOK /\ LockInv /\ ReachInv)
<1>1. Init => LockInv /\ ReachInv
  <2> SUFFICES ASSUME Init PROVE LockInv /\ ReachInv
    OBVIOUS
  <2>. QED
    BY DEF Init, LockInv, StartedVms, OneVmPerCid, ChannelHeld, LockExclusive,
           LockProtects, ReachInv, WaitingReached, ReadReached
<1>. QED
  BY <1>1, TypeCorrect, LockStep, ReachStep, PTL DEF Spec

(* What a client finds is what its agent reads, for any number of agents,     *)
(* clients and CIDs, whether or not connections end before a CID is reused:   *)
(* register_input_for_cid and the accept loop go wrong only when they make    *)
(* the channel of one CID at the same time.                                   *)
THEOREM Reachable == Spec => []AgentReachable
<1>1. TypeOK /\ ReachInv => AgentReachable
  BY Places DEF TypeOK, ReachInv, ReadReached, Reaches, AgentReachable, Registering
<1>. QED
  BY <1>1, Invariance, PTL

(* When the connections of a CID end before its next VM boots, a session that *)
(* subscribed with its agent there never shows the screen of another VM.      *)
THEOREM ScreenSafe == ASSUME TeardownBeforeReuse PROVE Spec => []OwnScreen
<1>1. Init => ScreenInv
  <2> SUFFICES ASSUME Init PROVE ScreenInv
    OBVIOUS
  <2>. QED
    BY DEF Init, ScreenInv, AgentsOfVm, OneVmHandled, ArmedHolds, Handled
<1>2. TypeOK /\ LockInv /\ ScreenInv /\ [Next]_vars => ScreenInv'
  BY TeardownBeforeReuse, ScreenStep
<1>3. ScreenInv => OwnScreen
  BY DEF ScreenInv, OneVmHandled, ArmedHolds, OwnScreen, CidAt
<1>. QED
  BY <1>1, <1>2, <1>3, Invariance, PTL DEF Spec

=============================================================================
