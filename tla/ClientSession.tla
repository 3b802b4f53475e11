---------------------------- MODULE ClientSession ----------------------------
(* A client process from its start to its end: the reconnection loop, the     *)
(* broker's answer, the connection to the proxy-encoder and its handshake,    *)
(* the window, the opening of the video and control streams; and at the other *)
(* end the proxy-encoder's handler of each connection and the agent of each   *)
(* VM, which connects, captures, and loses a proxy that restarts.             *)
(*                                                                            *)
(* Each attempt of the client is given a VM of its own by the broker: attempt *)
(* n, its connection and its VM share the number n.                           *)
EXTENDS Naturals

CONSTANTS MaxAttempts,   \* attempts of the process (and VMs) in the model
          MaxFaults,     \* failures in the model
          AutoReconnect  \* network.auto_reconnect of the client

ASSUME ClientAssumption ==
    MaxAttempts \in Nat \ {0} /\ MaxFaults \in Nat /\ AutoReconnect \in BOOLEAN

VARIABLES phase,    \* where the client's run and run_session are
          try,      \* number of the current attempt, 0 before the first
          window,   \* the SDL thread: "none", "open", or "dead" once its loop has ended
          sigint,   \* SIGINT received
          conn,     \* connection of each attempt, with the proxy's handler
          vm,       \* VM of each attempt
          agent,    \* agent of each VM
          screen,   \* a bit that flips when the VM's screen changes
          proxy,    \* "up" or "down"
          caps,     \* agent_caps of the proxy: some agent has said hello
          faults    \* failures so far

vars == <<phase, try, window, sigint, conn, vm, agent, screen, proxy, caps, faults>>

Attempts == 1 .. MaxAttempts

NoConn == [link |-> "none", srv |-> "none", ack |-> "none", video |-> FALSE, ctrl |-> FALSE, cut |-> FALSE]

Init == /\ phase = "top" /\ try = 0 /\ window = "none" /\ sigint = FALSE
        /\ conn = [a \in Attempts |-> NoConn]
        /\ vm = [a \in Attempts |-> "free"]
        /\ agent = [a \in Attempts |-> "off"]
        /\ screen = [a \in Attempts |-> FALSE]
        /\ proxy = "up" /\ caps = FALSE /\ faults = 0

Fault == faults < MaxFaults /\ faults' = faults + 1

ClientSide == <<phase, try, window, sigint>>
ServerSide == <<proxy, caps>>
GuestSide == <<vm, agent, screen>>

Open(a) == conn[a].link = "open"
Shut(a) == [conn EXCEPT ![a].link = IF @ \in {"open", "lost"} THEN "closed" ELSE @]

-----------------------------------------------------------------------------
(* run: the loop of attempts. *)

NextAttempt ==
    /\ phase = "top"
    /\ IF sigint THEN phase' = "gone" /\ UNCHANGED try
       ELSE try < MaxAttempts /\ phase' = "broker" /\ try' = try + 1
    /\ UNCHANGED <<window, sigint, conn, vm, agent, screen, proxy, caps, faults>>

(* run_session returns an error: what it held is dropped, the connection and  *)
(* the window's channel of frames included; run then waits, or gives up.      *)
Fail ==
    /\ phase' = IF sigint \/ ~AutoReconnect THEN "gone" ELSE "retry"
    /\ window' = IF window = "open" THEN "dead" ELSE window
    /\ UNCHANGED <<try, sigint>>

(* The delay as it would be against a process that outlives its window. *)
RetryElapsedAnyway ==
    /\ phase = "retry" /\ phase' = "top"
    /\ UNCHANGED <<try, window, sigint, conn, vm, agent, screen, proxy, caps, faults>>

(* The delay is of seconds; a window that died ends the process in 600 ms.    *)
RetryElapsed ==
    /\ phase = "retry" /\ window # "dead"
    /\ phase' = "top"
    /\ UNCHANGED <<try, window, sigint, conn, vm, agent, screen, proxy, caps, faults>>

(* connect_via_broker: refused, or given a VM, whose answer may be lost. *)
BrokerRefuses ==
    /\ phase = "broker" /\ Fault /\ Fail
    /\ UNCHANGED <<conn, vm, agent, screen, proxy, caps>>

BrokerGives ==
    /\ phase = "broker"
    /\ vm' = [vm EXCEPT ![try] = "given"]
    /\ phase' = "dial"
    /\ UNCHANGED <<try, window, sigint, conn, agent, screen, proxy, caps, faults>>

AnswerLost ==
    /\ phase = "broker" /\ Fault /\ Fail
    /\ vm' = [vm EXCEPT ![try] = "given"]
    /\ UNCHANGED <<conn, agent, screen, proxy, caps>>

(* connect under its timeout, then do_handshake writes the handshake. *)
Dial ==
    /\ phase = "dial" /\ proxy = "up"
    /\ phase' = "hello"
    /\ conn' = [conn EXCEPT ![try].link = "open", ![try].srv = "hello"]
    /\ UNCHANGED <<try, window, sigint, vm, agent, screen, proxy, caps, faults>>

DialFails ==
    /\ phase = "dial" /\ proxy = "down" /\ Fail
    /\ UNCHANGED <<conn, vm, agent, screen, proxy, caps, faults>>

(* do_handshake reads the acknowledgement, whatever it says of acceptance,    *)
(* and run_session starts the decoder, the window and the input sender.       *)
Acknowledged ==
    /\ phase = "hello" /\ conn[try].ack # "none"
    /\ phase' = "uni" /\ window' = "open"
    /\ UNCHANGED <<try, sigint, conn, vm, agent, screen, proxy, caps, faults>>

(* The video stream is accepted when its first byte comes; only then is the   *)
(* control stream opened, and its first frame written.                        *)
VideoAccepted ==
    /\ phase = "uni" /\ conn[try].video /\ conn[try].link # "closed"
    /\ phase' = "live"
    /\ conn' = [conn EXCEPT ![try].ctrl = TRUE]
    /\ UNCHANGED <<try, window, sigint, vm, agent, screen, proxy, caps, faults>>

(* A closed connection fails the handshake or the acceptance of the stream. *)
ConnectionFails ==
    /\ phase \in {"hello", "uni"} /\ conn[try].link = "closed" /\ Fail
    /\ UNCHANGED <<conn, vm, agent, screen, proxy, caps, faults>>

(* The end of the main loop is a clean end for run, which does not retry. *)
LiveEnds ==
    /\ phase = "live" /\ (sigint \/ conn[try].link = "closed")
    /\ phase' = "gone" /\ window' = "dead"
    /\ conn' = Shut(try)
    /\ UNCHANGED <<try, sigint, vm, agent, screen, proxy, caps, faults>>

(* The user closes the window, or presses Ctrl+Alt+F. *)
WindowClosed ==
    /\ window = "open" /\ phase # "gone" /\ window' = "dead"
    /\ UNCHANGED <<phase, try, sigint, conn, vm, agent, screen, proxy, caps, faults>>

CtrlC ==
    /\ ~sigint /\ phase # "gone" /\ sigint' = TRUE
    /\ UNCHANGED <<phase, try, window, conn, vm, agent, screen, proxy, caps, faults>>

(* The thread that follows the end of the window's loop signals the process.  *)
WindowKills ==
    /\ window = "dead" /\ ~sigint /\ phase # "gone" /\ sigint' = TRUE
    /\ UNCHANGED <<phase, try, window, conn, vm, agent, screen, proxy, caps, faults>>

(* exit(0) of main's handler races with the end of run_session: nothing is    *)
(* said to the peer, which finds out by its idle timeout.                     *)
Exit ==
    /\ sigint /\ phase # "gone"
    /\ phase' = "gone"
    /\ conn' = IF try # 0 /\ Open(try) THEN [conn EXCEPT ![try].link = "lost"] ELSE conn
    /\ UNCHANGED <<try, window, sigint, vm, agent, screen, proxy, caps, faults>>

-----------------------------------------------------------------------------
(* The proxy-encoder's handler of connection a. *)

(* receive_handshake and the check of the token. *)
HelloFails(a) ==
    /\ conn[a].srv = "hello" /\ ~Open(a)
    /\ conn' = [Shut(a) EXCEPT ![a].srv = "over"]
    /\ UNCHANGED <<ClientSide, GuestSide, ServerSide, faults>>

TokenAccepted(a) ==
    /\ conn[a].srv = "hello" /\ Open(a)
    /\ conn' = [conn EXCEPT ![a].srv = "agent"]
    /\ UNCHANGED <<ClientSide, GuestSide, ServerSide, faults>>

(* The refusal is written, and the connection dropped at once. *)
TokenRefused(a) ==
    /\ conn[a].srv = "hello" /\ Open(a) /\ Fault
    /\ conn' = [Shut(a) EXCEPT ![a].srv = "over", ![a].ack = "no"]
    /\ UNCHANGED <<ClientSide, GuestSide, ServerSide>>

(* wait_for_agent_capabilities is content with any agent's; the client is not *)
(* looked at until the acknowledgement is written.                            *)
SendAck(a) ==
    /\ conn[a].srv = "agent" /\ caps
    /\ conn' = IF Open(a) THEN [conn EXCEPT ![a].srv = "pipeline", ![a].ack = "yes"]
               ELSE [Shut(a) EXCEPT ![a].srv = "over"]
    /\ UNCHANGED <<ClientSide, GuestSide, ServerSide, faults>>

(* The wait as it would be without its timeout. *)
AgentWaitUnlimited(a) == FALSE /\ conn[a].srv = "agent" /\ UNCHANGED vars

AgentWaitTimesOut(a) ==
    /\ conn[a].srv = "agent" /\ ~caps
    /\ conn' = [Shut(a) EXCEPT ![a].srv = "over"]
    /\ UNCHANGED <<ClientSide, GuestSide, ServerSide, faults>>

(* run_session subscribes to the frames of the VM and opens the video stream; *)
(* a connection already gone ends it there, without cleanup_dynamic_vm.       *)
StartPipeline(a) ==
    /\ conn[a].srv = "pipeline"
    /\ conn' = IF Open(a) THEN [conn EXCEPT ![a].srv = "stream"]
               ELSE [Shut(a) EXCEPT ![a].srv = "over"]
    /\ UNCHANGED <<ClientSide, GuestSide, ServerSide, faults>>

(* The end of a session as it was before its explicit close. *)
StreamEndsSilently(a, destroyed) ==
    /\ conn[a].srv = "stream"
    /\ conn[a].link = "closed" \/ conn[a].cut
    /\ conn' = [conn EXCEPT ![a].srv = "over"]
    /\ IF destroyed
       THEN /\ vm' = [vm EXCEPT ![a] = "gone"]
            /\ agent' = [agent EXCEPT ![a] = "off"]
            /\ UNCHANGED faults
       ELSE Fault /\ UNCHANGED <<vm, agent>>
    /\ UNCHANGED <<ClientSide, ServerSide, screen>>

(* The streaming loop ends with the connection, or when the agent is lost     *)
(* that it has subscribed to; the VM is then destroyed, unless the host agent *)
(* cannot.                                                                    *)
StreamEnds(a, destroyed) ==
    /\ conn[a].srv = "stream"
    /\ conn[a].link = "closed" \/ conn[a].cut
    /\ conn' = [Shut(a) EXCEPT ![a].srv = "over"]
    /\ IF destroyed
       THEN /\ vm' = [vm EXCEPT ![a] = "gone"]
            /\ agent' = [agent EXCEPT ![a] = "off"]
            /\ UNCHANGED faults
       ELSE Fault /\ UNCHANGED <<vm, agent>>
    /\ UNCHANGED <<ClientSide, ServerSide, screen>>

(* A silent peer, and a path that stops delivering. *)
IdleTimeout(a) ==
    /\ conn[a].link = "lost"
    /\ conn' = Shut(a)
    /\ UNCHANGED <<ClientSide, GuestSide, ServerSide, faults>>

NetworkLost(a) ==
    /\ Open(a) /\ Fault
    /\ conn' = [conn EXCEPT ![a].link = "lost"]
    /\ UNCHANGED <<ClientSide, GuestSide, ServerSide>>

ProxyCrash ==
    /\ proxy = "up" /\ Fault
    /\ proxy' = "down" /\ caps' = FALSE
    /\ conn' = [a \in Attempts |->
                   [conn[a] EXCEPT !.srv = IF @ = "none" THEN @ ELSE "over",
                                   !.link = IF @ = "open" THEN "lost" ELSE @]]
    /\ agent' = [a \in Attempts |-> IF agent[a] = "up" THEN "deaf" ELSE agent[a]]
    /\ UNCHANGED <<ClientSide, vm, screen>>

ProxyRestarts ==
    /\ proxy = "down" /\ proxy' = "up"
    /\ UNCHANGED <<ClientSide, GuestSide, conn, caps, faults>>

-----------------------------------------------------------------------------
(* The guest of VM a, warm (started before it is given) or not. *)

(* The portal is negotiated, then the capture and the injection share it. *)
AgentStarts(a) ==
    /\ agent[a] = "off" /\ vm[a] # "gone"
    /\ agent' = [agent EXCEPT ![a] = "connecting"]
    /\ UNCHANGED <<ClientSide, ServerSide, conn, vm, screen, faults>>

(* The loop of connect_and_handshake, with its backoff. *)
AgentConnects(a) ==
    /\ agent[a] = "connecting" /\ proxy = "up"
    /\ agent' = [agent EXCEPT ![a] = "up"]
    /\ caps' = TRUE
    /\ UNCHANGED <<ClientSide, conn, vm, screen, proxy, faults>>

(* The capture as it would be if a failed write of a frame were only logged. *)
ScreenChangesUnheard(a) ==
    /\ agent[a] # "off" /\ vm[a] # "gone"
    /\ screen' = [screen EXCEPT ![a] = ~@]
    /\ conn' = IF agent[a] = "up" /\ conn[a].srv = "stream" /\ Open(a)
               THEN [conn EXCEPT ![a].video = TRUE] ELSE conn
    /\ UNCHANGED <<ClientSide, ServerSide, vm, agent, faults>>

(* A changed screen makes a frame, which reaches the client of a session that *)
(* has subscribed; a frame that finds the proxy gone ends the agent, which is *)
(* then started again (its reader's end is only logged).                      *)
ScreenChanges(a) ==
    /\ agent[a] # "off" /\ vm[a] # "gone"
    /\ screen' = [screen EXCEPT ![a] = ~@]
    /\ agent' = [agent EXCEPT ![a] = IF @ = "deaf" THEN "off" ELSE @]
    /\ conn' = IF agent[a] = "up" /\ conn[a].srv = "stream" /\ Open(a)
               THEN [conn EXCEPT ![a].video = TRUE] ELSE conn
    /\ UNCHANGED <<ClientSide, ServerSide, vm, faults>>

AgentDies(a) ==
    /\ agent[a] = "up" /\ Fault
    /\ agent' = [agent EXCEPT ![a] = "off"]
    /\ conn' = [conn EXCEPT ![a].cut = (conn[a].srv = "stream")]
    /\ UNCHANGED <<ClientSide, ServerSide, vm, screen>>

-----------------------------------------------------------------------------
ClientStep == \/ NextAttempt \/ RetryElapsed \/ BrokerGives \/ Dial \/ DialFails
              \/ Acknowledged \/ VideoAccepted \/ ConnectionFails \/ LiveEnds

Handler(a) == \/ HelloFails(a) \/ TokenAccepted(a) \/ SendAck(a) \/ AgentWaitTimesOut(a)
              \/ StartPipeline(a) \/ StreamEnds(a, TRUE)

Next == \/ ClientStep \/ BrokerRefuses \/ AnswerLost
        \/ WindowClosed \/ CtrlC \/ WindowKills \/ Exit
        \/ ProxyCrash \/ ProxyRestarts
        \/ \E a \in Attempts : \/ Handler(a) \/ TokenRefused(a) \/ StreamEnds(a, FALSE)
                               \/ IdleTimeout(a) \/ NetworkLost(a)
                               \/ AgentStarts(a) \/ AgentConnects(a) \/ ScreenChanges(a) \/ AgentDies(a)

(* Tasks and timers run; the proxy-encoder is started again.  A guest need    *)
(* not start its agent, and a screen need never change.                       *)
Fairness ==
    /\ WF_vars(ClientStep) /\ WF_vars(WindowKills) /\ WF_vars(Exit) /\ WF_vars(ProxyRestarts)
    /\ \A a \in Attempts : /\ WF_vars(Handler(a)) /\ WF_vars(IdleTimeout(a))
                           /\ WF_vars(AgentConnects(a))

Spec == Init /\ [][Next]_vars /\ Fairness

-----------------------------------------------------------------------------

(* Once a window has been opened the process makes no other attempt: the      *)
(* automatic reconnection serves the attempts that fail before it.            *)
NoReconnectAfterWindow == [][phase' = "broker" => window = "none"]_vars

(* No attempt hangs before its window: it is answered, refused, or timed out, *)
(* whatever the proxy, the agent and the network do.                          *)
AttemptEnds == phase \in {"broker", "dial", "hello"} ~> phase \notin {"broker", "dial", "hello"}

(* A client with a window goes on to stream and to send its inputs, or ends,  *)
(* provided the screen of its VM keeps changing: nothing else is needed, and  *)
(* on a still screen the control stream is not even opened.                   *)
StartsUnlessStill ==
    \A a \in Attempts :
        []<><<ScreenChanges(a)>>_screen => (phase = "uni" /\ try = a ~> phase # "uni")

(* An agent whose proxy has restarted leaves its dead connection, provided    *)
(* its screen keeps changing: the end of its reader alone does not tell it.   *)
AgentNotDeaf ==
    \A a \in Attempts :
        []<><<ScreenChanges(a)>>_screen => (agent[a] = "deaf" ~> agent[a] # "deaf")
=============================================================================
