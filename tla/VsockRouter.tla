----------------------------- MODULE VsockRouter -----------------------------
(***************************************************************************)
(* The proxy-encoder between the agents of the VMs and the clients         *)
(* (nidan-proxy-encoder/src: capture/vsock.rs, capture/vsock_service.rs    *)
(* and the life of a session in stream/mod.rs).  An agent connects over    *)
(* vsock from its VM's CID; a client brings a token that names the CID.    *)
(* They come in either order and meet through three maps keyed by CID: the *)
(* input channels' receivers and senders, and the disconnection tokens.    *)
(* A CID is given to one VM after another.                                 *)
(*                                                                         *)
(* A channel is named after the session or the connection that made it.    *)
(***************************************************************************)
CONSTANTS
  Sessions,    \* client sessions; each has its own single-use VM
  CidOf,       \* the vsock CID of a session's VM
  Conns,       \* agent connections, each made once
  SessionOf,   \* the session whose VM an agent connection comes from
  TeardownBeforeReuse, \* connections of a CID end before the next VM boots on it
  None

Cids     == {CidOf[s] : s \in Sessions}
Channels == Sessions \cup Conns
CidAt(a) == CidOf[SessionOf[a]]

ASSUME RouterAssumption ==
  /\ Sessions \cap Conns = {}
  /\ None \notin Channels
  /\ SessionOf \in [Conns -> Sessions]
  /\ TeardownBeforeReuse \in BOOLEAN

VARIABLES
  rxs,     \* cid_input_rxs: receivers no agent has taken yet
  txs,     \* cid_input_txs: senders, never removed
  tokens,  \* agent_disconnect_tokens: the session that subscribed last
  caps,    \* agent_caps is known: some agent has said hello
  task,    \* the proxy's task of an agent connection
  chan,    \* the channel whose receiver that task reads
  closed,  \* connections the agent has closed while its VM ran
  vm,      \* a session's VM: off, up, down
  spc,     \* where a client session is
  inj,     \* the sender of the session's injector
  cancelled, \* sessions whose disconnection token is cancelled
  raced,   \* history: CIDs whose channel was made twice at once
  armed    \* history: sessions that subscribed while their agent was there,
           \* until another subscribes to the CID

agentVars   == <<task, chan, closed>>
sessionVars == <<spc, inj, cancelled>>
mapVars     == <<rxs, txs, tokens>>
history     == <<raced, armed>>
vars == <<agentVars, sessionVars, mapVars, caps, vm, history>>

-----------------------------------------------------------------------------

TaskPc    == {"away", "accept", "connected", "hello", "active", "ended", "gone"}
SessionPc == {"idle", "putRx", "putTx", "caps", "gap", "waiting", "woken", "ack",
              "streaming", "closing", "done", "refused"}

(* The agent is at the other end of the connection. *)
Up(a) == vm[SessionOf[a]] = "up" /\ a \notin closed

(* The proxy still has a task for the connection. *)
Handled(a) == task[a] \notin {"away", "gone"}

(* The accept loop keeps cid_input_rxs locked while it makes a channel. *)
RxsLocked == \E a \in Conns : task[a] = "accept"

Registering(cid) == \E s \in Sessions : CidOf[s] = cid /\ spc[s] \in {"putRx", "putTx"}

TypeOK ==
  /\ rxs \in [Cids -> Channels \cup {None}]
  /\ txs \in [Cids -> Channels \cup {None}]
  /\ tokens \in [Cids -> Sessions \cup {None}]
  /\ caps \in BOOLEAN
  /\ task \in [Conns -> TaskPc]
  /\ chan \in [Conns -> Channels \cup {None}]
  /\ closed \in SUBSET Conns
  /\ vm \in [Sessions -> {"off", "up", "down"}]
  /\ spc \in [Sessions -> SessionPc]
  /\ inj \in [Sessions -> Channels \cup {None}]
  /\ cancelled \in SUBSET Sessions
  /\ raced \in SUBSET Cids
  /\ armed \in SUBSET Sessions

(* VsockService::start: empty maps, no capabilities. *)
Init ==
  /\ rxs = [cid \in Cids |-> None] /\ txs = [cid \in Cids |-> None]
  /\ tokens = [cid \in Cids |-> None]
  /\ caps = FALSE
  /\ task = [a \in Conns |-> "away"] /\ chan = [a \in Conns |-> None]
  /\ closed = {}
  /\ vm = [s \in Sessions |-> "off"]
  /\ spc = [s \in Sessions |-> "idle"] /\ inj = [s \in Sessions |-> None]
  /\ cancelled = {}
  /\ raced = {} /\ armed = {}

-----------------------------------------------------------------------------
(* The VMs: started by the broker, destroyed by its collectors, by a crash,  *)
(* or by the proxy at the end of the session.                                *)

VmStarts(s) ==
  /\ vm[s] = "off"
  /\ \A u \in Sessions : CidOf[u] = CidOf[s] => vm[u] # "up"
  /\ TeardownBeforeReuse => \A a \in Conns : CidAt(a) = CidOf[s] => ~Handled(a)
  /\ vm' = [vm EXCEPT ![s] = "up"]
  /\ UNCHANGED <<agentVars, sessionVars, mapVars, caps, history>>

VmDestroyed(s) ==
  /\ vm[s] = "up"
  /\ vm' = [vm EXCEPT ![s] = "down"]
  /\ UNCHANGED <<agentVars, sessionVars, mapVars, caps, history>>

(* The agent restarts: it closes its connection and will make another. *)
AgentCloses(a) ==
  /\ Handled(a) /\ Up(a)
  /\ closed' = closed \cup {a}
  /\ UNCHANGED <<task, chan, sessionVars, mapVars, caps, vm, history>>

-----------------------------------------------------------------------------
(* An agent connection: the accept loop, then run_session in its own task.   *)

TaskGoes(a, from, to) == task[a] = from /\ task' = [task EXCEPT ![a] = to]

(* rxs.remove(&peer_cid): the receiver a client has registered, if any. *)
Accept(a) ==
  /\ Up(a) /\ ~RxsLocked
  /\ \A b \in Conns : SessionOf[b] = SessionOf[a] /\ Handled(b) => ~Up(b)
  /\ \/ /\ rxs[CidAt(a)] # None
        /\ TaskGoes(a, "away", "connected")
        /\ chan' = [chan EXCEPT ![a] = rxs[CidAt(a)]]
        /\ rxs' = [rxs EXCEPT ![CidAt(a)] = None]
     \/ /\ rxs[CidAt(a)] = None
        /\ TaskGoes(a, "away", "accept")
        /\ UNCHANGED <<chan, rxs>>
  /\ UNCHANGED <<closed, sessionVars, txs, tokens, caps, vm, history>>

(* Mutant: an agent that comes first makes no channel for its client to find. *)
MakeChannelPrivately(a) ==
  /\ TaskGoes(a, "accept", "connected")
  /\ chan' = [chan EXCEPT ![a] = a]
  /\ UNCHANGED <<closed, sessionVars, mapVars, caps, vm, history>>

(* No client has come yet: the agent makes the channel, its sender replaces  *)
(* that of the CID.                                                          *)
MakeChannel(a) ==
  /\ TaskGoes(a, "accept", "connected")
  /\ chan' = [chan EXCEPT ![a] = a]
  /\ txs' = [txs EXCEPT ![CidAt(a)] = a]
  /\ UNCHANGED <<closed, sessionVars, rxs, tokens, caps, vm, history>>

(* AgentHello: the shared capabilities are overwritten... *)
Hello(a) ==
  /\ TaskGoes(a, "connected", "hello")
  /\ caps' = TRUE
  /\ UNCHANGED <<chan, closed, sessionVars, mapVars, vm, history>>

(* ... and the sessions that are waiting at that moment are woken. *)
NotifyWaiters(a) ==
  /\ TaskGoes(a, "hello", "active")
  /\ spc' = [s \in Sessions |-> IF spc[s] = "waiting" THEN "woken" ELSE spc[s]]
  /\ UNCHANGED <<chan, closed, inj, cancelled, mapVars, caps, vm, history>>

(* The connection is lost: run_session returns and the receiver is dropped. *)
ConnEnds(a) ==
  /\ ~Up(a)
  /\ TaskGoes(a, "connected", "ended") \/ TaskGoes(a, "active", "ended")
  /\ chan' = [chan EXCEPT ![a] = None]
  /\ UNCHANGED <<closed, sessionVars, mapVars, caps, vm, history>>

(* Mutant: the token is dropped without being cancelled. *)
NotifyDisconnectSilently(a) ==
  /\ TaskGoes(a, "ended", "gone")
  /\ tokens' = [tokens EXCEPT ![CidAt(a)] = None]
  /\ UNCHANGED <<chan, closed, sessionVars, rxs, txs, caps, vm, history>>

(* notify_agent_disconnect(cid): whoever holds the CID's token is cancelled. *)
NotifyDisconnect(a) ==
  /\ TaskGoes(a, "ended", "gone")
  /\ cancelled' = cancelled \cup ({tokens[CidAt(a)]} \ {None})
  /\ tokens' = [tokens EXCEPT ![CidAt(a)] = None]
  /\ UNCHANGED <<chan, closed, spc, inj, rxs, txs, caps, vm, history>>

-----------------------------------------------------------------------------
(* A client session: handle_connection, then run_session.                    *)

Goes(s, from, to) == spc[s] = from /\ spc' = [spc EXCEPT ![s] = to]

(* register_input_for_cid: the CID's channel if there is one. *)
Register(s) ==
  /\ vm[s] # "off"
  /\ IF txs[CidOf[s]] # None THEN Goes(s, "idle", "caps") ELSE Goes(s, "idle", "putRx")
  /\ UNCHANGED <<agentVars, inj, cancelled, mapVars, caps, vm, history>>

(* Somebody has made the CID's channel since Register found none. *)
NoteRace(s) == raced' = IF txs[CidOf[s]] # None THEN raced \cup {CidOf[s]} ELSE raced

PutRx(s) ==
  /\ ~RxsLocked
  /\ Goes(s, "putRx", "putTx")
  /\ rxs' = [rxs EXCEPT ![CidOf[s]] = s]
  /\ NoteRace(s)
  /\ UNCHANGED <<agentVars, inj, cancelled, txs, tokens, caps, vm, armed>>

PutTx(s) ==
  /\ Goes(s, "putTx", "caps")
  /\ txs' = [txs EXCEPT ![CidOf[s]] = s]
  /\ NoteRace(s)
  /\ UNCHANGED <<agentVars, inj, cancelled, rxs, tokens, caps, vm, armed>>

(* wait_for_agent_capabilities: read them, first or after a wake-up. *)
ReadCaps(s) ==
  /\ \/ caps /\ (Goes(s, "caps", "ack") \/ Goes(s, "woken", "ack"))
     \/ ~caps /\ Goes(s, "caps", "gap")
  /\ UNCHANGED <<agentVars, inj, cancelled, mapVars, caps, vm, history>>

(* notified() is called after the read: a notification in between is lost. *)
Listen(s) ==
  /\ Goes(s, "gap", "waiting")
  /\ UNCHANGED <<agentVars, inj, cancelled, mapVars, caps, vm, history>>

(* Mutant: the wait has no time-out. *)
WaitTimeoutNever(s) == FALSE /\ UNCHANGED vars

(* DEFAULT_AGENT_WAIT_TIMEOUT: the session is rejected; nothing is cleaned. *)
WaitTimeout(s) ==
  /\ Goes(s, "waiting", "refused")
  /\ UNCHANGED <<agentVars, inj, cancelled, mapVars, caps, vm, history>>

(* The acknowledgement, or a stream opened after it, fails: the client has left *)
(* during the wait. handle_connection returns the error; nothing is cleaned.    *)
HandshakeFails(s) ==
  /\ Goes(s, "ack", "refused")
  /\ inj' = [inj EXCEPT ![s] = None]
  /\ UNCHANGED <<agentVars, cancelled, mapVars, caps, vm, history>>

(* make_injector, in the task that receives the inputs: get_input_tx_for_cid. *)
MakeInjector(s) ==
  /\ spc[s] \in {"ack", "streaming"} /\ inj[s] = None
  /\ inj' = [inj EXCEPT ![s] = txs[CidOf[s]]]
  /\ UNCHANGED <<agentVars, spc, cancelled, mapVars, caps, vm, history>>

(* The sessions that hold the token of their CID and had an agent when they   *)
(* subscribed.                                                                *)
Arm(s) ==
  armed' = {u \in armed : CidOf[u] # CidOf[s]} \cup
           {u \in {s} : \E a \in Conns : SessionOf[a] = s /\ Handled(a)}

(* Mutant: the first subscription of a CID is kept. *)
SubscribeOnce(s) ==
  /\ Goes(s, "ack", "streaming")
  /\ tokens' = [tokens EXCEPT ![CidOf[s]] = IF @ = None THEN s ELSE @]
  /\ Arm(s)
  /\ UNCHANGED <<agentVars, inj, cancelled, rxs, txs, caps, vm, raced>>

(* subscribe_agent_disconnect: a new token replaces that of the CID. *)
Subscribe(s) ==
  /\ Goes(s, "ack", "streaming")
  /\ tokens' = [tokens EXCEPT ![CidOf[s]] = s]
  /\ Arm(s)
  /\ UNCHANGED <<agentVars, inj, cancelled, rxs, txs, caps, vm, raced>>

(* The streaming loop ends; the task that holds the injector ends with the    *)
(* connection.                                                                *)
StreamEnds(s) ==
  /\ Goes(s, "streaming", "closing")
  /\ inj' = [inj EXCEPT ![s] = None]
  /\ UNCHANGED <<agentVars, cancelled, mapVars, caps, vm, history>>

(* The client has left, a write to it fails or the encoder has stopped. *)
ClientLeaves(s) == StreamEnds(s)

AgentLost(s) == s \in cancelled /\ StreamEnds(s)

(* conn.close, then cleanup_dynamic_vm, whose failure is only logged. *)
Cleanup(s) ==
  /\ Goes(s, "closing", "done")
  /\ vm' \in {vm, [vm EXCEPT ![s] = "down"]}
  /\ UNCHANGED <<agentVars, inj, cancelled, mapVars, caps, history>>

-----------------------------------------------------------------------------

AgentStep(a) == Accept(a) \/ MakeChannel(a) \/ Hello(a) \/ NotifyWaiters(a)
                \/ ConnEnds(a) \/ NotifyDisconnect(a)

SessionStep(s) == PutRx(s) \/ PutTx(s) \/ ReadCaps(s) \/ Listen(s) \/ WaitTimeout(s)
                  \/ Subscribe(s) \/ AgentLost(s) \/ Cleanup(s)

Next ==
  \/ \E s \in Sessions : VmStarts(s) \/ VmDestroyed(s)
  \/ \E a \in Conns : AgentCloses(a) \/ AgentStep(a)
  \/ \E s \in Sessions : Register(s) \/ SessionStep(s) \/ MakeInjector(s)
                          \/ HandshakeFails(s) \/ ClientLeaves(s)

Spec == Init /\ [][Next]_vars

(* The runtime polls every task, a lost connection is noticed and timers     *)
(* expire. VMs, agents and clients come and go as they like.                 *)
Fairness ==
  /\ \A a \in Conns : WF_vars(task[a] # "away" /\ AgentStep(a))
  /\ \A s \in Sessions : WF_vars(SessionStep(s))

FairSpec == Spec /\ Fairness

-----------------------------------------------------------------------------
(* Properties.                                                               *)

(* Unless the agent and the client made the CID's channel at the same moment,  *)
(* the sender a client finds for its CID (register_input_for_cid, and          *)
(* get_input_tx_for_cid in make_injector) is that of the channel the connected *)
(* agent reads, whichever of the two came first, after an agent's restart and  *)
(* after the CID has passed to another VM.                                     *)
AgentReachable ==
  \A a \in Conns :
    (chan[a] # None /\ Up(a) /\ ~Registering(CidAt(a)) /\ CidAt(a) \notin raced)
      => txs[CidAt(a)] = chan[a]

(* A session that subscribed while its agent was connected, and whose token no *)
(* other has replaced, is told to close before any other VM's agent is         *)
(* received under its CID: it never shows another VM's screen                  *)
(* (subscribe_frames_as_mpsc filters by CID only).                             *)
OwnScreen ==
  \A s \in armed : (spc[s] = "streaming" /\ s \notin cancelled) =>
    \A a \in Conns : (Handled(a) /\ CidAt(a) = CidOf[s]) => SessionOf[a] = s

(* A client that has registered is accepted or rejected, even when the agent's *)
(* hello comes between the read of the capabilities and notified().            *)
HandshakeEnds ==
  \A s \in Sessions : spc[s] \in {"putRx", "caps"} ~>
    spc[s] \in {"streaming", "closing", "done", "refused"}

(* Such a session ends when its VM is destroyed (notify_agent_disconnect after *)
(* run_session, and the agent_disconnect branch of the streaming loop).        *)
ArmedSessionEnds ==
  \A s \in Sessions : (s \in armed /\ vm[s] = "down") ~> (spc[s] = "done" \/ s \notin armed)
=============================================================================
