------------------------------ MODULE VideoPath ------------------------------
(* The way of a frame from the guest's screen to the client's window: the     *)
(* agent's PipeWire callback, its queue and the vsock link; the fan-out task  *)
(* and its broadcast channel; for each session the adapter task, the encoder  *)
(* thread, the streaming loop; the QUIC stream; the client's reader task,     *)
(* main loop, decoder thread and SDL thread.                                  *)
(*                                                                            *)
(* A frame is the version of the screen it shows, 1 .. MaxFrames.  Two        *)
(* blocking queues in a row (vsock and the service's mpsc channel, the QUIC   *)
(* stream and the channel of the reader task) are one queue here.  Every      *)
(* bounded channel holds Cap frames, whatever its size in the code (4 or 8).  *)
EXTENDS Naturals, Sequences, SequencesExt

CONSTANTS Sessions,   \* sessions of the proxy-encoder on this guest
          Leaked,     \* those whose encoder was blocked for ever when they ended
          MaxFrames,  \* versions of the screen the model produces
          Cap,        \* capacity of a bounded channel
          MaxFaults   \* stalls of the network, hangs and errors of the decoder, end of the agent

ASSUME VideoAssumption == MaxFrames \in Nat \ {0} /\ Cap \in Nat \ {0} /\ MaxFaults \in Nat
                          /\ Leaked \subseteq Sessions

VARIABLES screen,   \* version the guest's screen is at
          agent,    \* "up" or "gone"
          agq,      \* frames_tx of the agent
          wire,     \* vsock and frames_tx of the service
          dropped,  \* frames the agent did not emit
          bcast,    \* broadcast receiver of each session
          srv,      \* each session's tasks on the proxy-encoder
          conn,     \* QUIC connection: "open", "stalled" or "closed"
          cli,      \* each session's client
          faults    \* faults so far

vars == <<screen, agent, agq, wire, dropped, bcast, srv, conn, cli, faults>>

None == 0

Full(q) == Len(q) >= Cap

-----------------------------------------------------------------------------
(* A session before it starts, on both sides. *)

Idle == [begun |-> FALSE, since |-> 0, token |-> FALSE,
         adapter |-> "off", af |-> None, aq |-> <<>>,
         encoder |-> "off", ef |-> None, eq |-> <<>>,
         loop |-> "off", lf |-> None, encoded |-> <<>>]

Viewer == [main |-> "run", mf |-> None, rq |-> <<>>, dq |-> <<>>,
           decoder |-> "recv", df |-> None, fed |-> <<>>,
           oq |-> <<>>, sq |-> <<>>, shown |-> None, lost |-> {}]

(* What a session leaves behind that ended while its encoder had no room:     *)
(* every channel full, the encoder and the adapter waiting (EndsUnlessBlocked).*)
Stuck == LET full == [n \in 1 .. Cap |-> 1]
         IN [Idle EXCEPT !.begun = TRUE, !.token = TRUE, !.adapter = "send", !.af = 1, !.aq = full,
                         !.encoder = "send", !.ef = 1, !.eq = full, !.loop = "wait"]

Init == /\ screen = 1 /\ agent = "up" /\ agq = <<>> /\ wire = <<>> /\ dropped = {}
        /\ bcast = [s \in Sessions |-> IF s \in Leaked THEN [q |-> Stuck.aq, lagged |-> TRUE]
                                    ELSE [q |-> <<>>, lagged |-> FALSE]]
        /\ srv = [s \in Sessions |-> IF s \in Leaked THEN Stuck ELSE Idle]
        /\ conn = [s \in Sessions |-> IF s \in Leaked THEN "closed" ELSE "open"]
        /\ cli = [s \in Sessions |-> IF s \in Leaked THEN [Viewer EXCEPT !.main = "over", !.decoder = "done"]
                                  ELSE Viewer]
        /\ faults = 0

-----------------------------------------------------------------------------
(* The guest: PipeWire calls back when the screen has changed; a frame that   *)
(* comes too early after the last one is not emitted.  The first version was  *)
(* emitted before the model begins.                                           *)

Emit(v) == IF Full(agq) THEN dropped' = dropped \cup {v} /\ UNCHANGED agq
           ELSE agq' = Append(agq, v) /\ UNCHANGED dropped

TooSoon(v) == dropped' = dropped \cup {v} /\ UNCHANGED agq

ScreenChanges ==
    /\ agent = "up" /\ screen < MaxFrames
    /\ screen' = screen + 1
    /\ (Emit(screen + 1) \/ TooSoon(screen + 1))
    /\ UNCHANGED <<agent, wire, bcast, srv, conn, cli, faults>>

(* run_session of the agent writes a frame; run_session of the capturer reads *)
(* it and passes it on.                                                       *)
AgentSends ==
    /\ agq # <<>> /\ ~Full(wire)
    /\ wire' = Append(wire, Head(agq)) /\ agq' = Tail(agq)
    /\ UNCHANGED <<screen, agent, dropped, bcast, srv, conn, cli, faults>>

AgentGone ==
    /\ agent = "up" /\ faults < MaxFaults
    /\ agent' = "gone" /\ agq' = <<>> /\ faults' = faults + 1
    /\ UNCHANGED <<screen, wire, dropped, bcast, srv, conn, cli>>

-----------------------------------------------------------------------------
(* The fan-out publishes to every subscriber and waits for none: a full       *)
(* receiver loses its oldest frame and is told so at its next read.           *)

Subscribed(s) == srv[s].adapter \in {"recv", "send"}

(* A full channel as it would be if it refused the newest frame. *)
PushedUnlessFull(b, v) == IF Full(b.q) THEN b ELSE [b EXCEPT !.q = Append(@, v)]

Pushed(b, v) == IF Full(b.q) THEN [q |-> Append(Tail(b.q), v), lagged |-> TRUE]
                ELSE [b EXCEPT !.q = Append(@, v)]

(* The fan-out as it would be over one bounded mpsc channel per session. *)
FanOutWaiting ==
    /\ wire # <<>> /\ \A s \in Sessions : Subscribed(s) => ~Full(bcast[s].q)
    /\ wire' = Tail(wire)
    /\ bcast' = [s \in Sessions |-> IF Subscribed(s) THEN Pushed(bcast[s], Head(wire)) ELSE bcast[s]]
    /\ UNCHANGED <<screen, agent, agq, dropped, srv, conn, cli, faults>>

FanOut ==
    /\ wire # <<>>
    /\ wire' = Tail(wire)
    /\ bcast' = [s \in Sessions |-> IF Subscribed(s) THEN Pushed(bcast[s], Head(wire)) ELSE bcast[s]]
    /\ UNCHANGED <<screen, agent, agq, dropped, srv, conn, cli, faults>>

-----------------------------------------------------------------------------
(* A session of the proxy-encoder. *)

SetSrv(s, r) == srv' = [srv EXCEPT ![s] = r]

ServerOnly == UNCHANGED <<screen, agent, agq, wire, dropped, faults>>

(* run_session: subscription and adapter, encoder thread, streaming loop. *)
Begin(s) ==
    /\ ~srv[s].begun /\ agent = "up"
    /\ SetSrv(s, [Idle EXCEPT !.begun = TRUE, !.since = screen,
                              !.adapter = "recv", !.encoder = "recv", !.loop = "recv"])
    /\ ServerOnly /\ UNCHANGED <<bcast, conn, cli>>

(* The adapter takes a frame, then waits for room in the encoder's channel:   *)
(* while it waits it does not look at the shutdown token.                     *)
AdapterTakes(s) ==
    /\ srv[s].adapter = "recv" /\ bcast[s].q # <<>> /\ ~bcast[s].lagged
    /\ bcast' = [bcast EXCEPT ![s].q = Tail(@)]
    /\ SetSrv(s, [srv[s] EXCEPT !.adapter = "send", !.af = Head(bcast[s].q)])
    /\ ServerOnly /\ UNCHANGED <<conn, cli>>

AdapterLagged(s) ==
    /\ srv[s].adapter = "recv" /\ bcast[s].lagged
    /\ bcast' = [bcast EXCEPT ![s].lagged = FALSE]
    /\ ServerOnly /\ UNCHANGED <<srv, conn, cli>>

AdapterGives(s) ==
    /\ srv[s].adapter = "send"
    /\ IF srv[s].encoder = "done"
       THEN SetSrv(s, [srv[s] EXCEPT !.adapter = "done", !.af = None])
       ELSE /\ ~Full(srv[s].aq)
            /\ SetSrv(s, [srv[s] EXCEPT !.adapter = "recv", !.af = None, !.aq = Append(@, srv[s].af)])
    /\ bcast' = [bcast EXCEPT ![s] = IF srv[s].encoder = "done" THEN [q |-> <<>>, lagged |-> FALSE] ELSE @]
    /\ ServerOnly /\ UNCHANGED <<conn, cli>>

(* The adapter as it would be if it did not select on the shutdown token. *)
AdapterStopsNever(s) == FALSE /\ srv[s].token /\ UNCHANGED vars

AdapterStops(s) ==
    /\ srv[s].adapter = "recv" /\ srv[s].token
    /\ SetSrv(s, [srv[s] EXCEPT !.adapter = "done"])
    /\ bcast' = [bcast EXCEPT ![s] = [q |-> <<>>, lagged |-> FALSE]]
    /\ ServerOnly /\ UNCHANGED <<conn, cli>>

(* The encoder thread: the token is looked at between two frames only, and    *)
(* the channel of frames ends when the adapter has dropped its sender.        *)
EncoderStops(s) ==
    /\ srv[s].encoder = "recv"
    /\ srv[s].token \/ (srv[s].aq = <<>> /\ srv[s].adapter = "done")
    /\ SetSrv(s, [srv[s] EXCEPT !.encoder = "done", !.aq = <<>>])
    /\ ServerOnly /\ UNCHANGED <<bcast, conn, cli>>

Encode(s) ==
    /\ srv[s].encoder = "recv" /\ srv[s].aq # <<>>
    /\ SetSrv(s, [srv[s] EXCEPT !.encoder = "send", !.aq = Tail(@), !.ef = Head(srv[s].aq),
                                !.encoded = Append(@, Head(srv[s].aq))])
    /\ ServerOnly /\ UNCHANGED <<bcast, conn, cli>>

(* blocking_send: waits while the channel is full, whatever the token says;   *)
(* the streaming loop keeps the receiver until the encoder has ended.         *)
EncoderGives(s) ==
    /\ srv[s].encoder = "send" /\ ~Full(srv[s].eq)
    /\ SetSrv(s, [srv[s] EXCEPT !.encoder = "recv", !.ef = None, !.eq = Append(@, srv[s].ef)])
    /\ ServerOnly /\ UNCHANGED <<bcast, conn, cli>>

(* The streaming loop: while it writes a frame it selects nothing else. *)
LoopTakes(s) ==
    /\ srv[s].loop = "recv" /\ srv[s].eq # <<>>
    /\ SetSrv(s, [srv[s] EXCEPT !.loop = "write", !.lf = Head(srv[s].eq), !.eq = Tail(@)])
    /\ ServerOnly /\ UNCHANGED <<bcast, conn, cli>>

LoopWrites(s) ==
    /\ srv[s].loop = "write" /\ conn[s] = "open" /\ ~Full(cli[s].rq)
    /\ cli' = [cli EXCEPT ![s].rq = Append(@, srv[s].lf)]
    /\ SetSrv(s, [srv[s] EXCEPT !.loop = "recv", !.lf = None])
    /\ ServerOnly /\ UNCHANGED <<bcast, conn>>

(* The end of the loop: the connection is gone, the agent is gone, or the     *)
(* encoder has closed its channel; the connection is then closed.             *)
LoopMayEnd(s) ==
    \/ srv[s].loop = "write" /\ conn[s] = "closed"
    \/ srv[s].loop = "recv" /\ (\/ conn[s] = "closed"
                                \/ agent = "gone"
                                \/ srv[s].eq = <<>> /\ srv[s].encoder = "done")

LoopEnds(s) ==
    /\ LoopMayEnd(s)
    /\ SetSrv(s, [srv[s] EXCEPT !.loop = "wait", !.lf = None, !.token = TRUE])
    /\ conn' = [conn EXCEPT ![s] = "closed"]
    /\ ServerOnly /\ UNCHANGED <<bcast, cli>>

(* run_session returns when the encoder thread has ended. *)
SessionOver(s) ==
    /\ srv[s].loop = "wait" /\ srv[s].encoder = "done"
    /\ SetSrv(s, [srv[s] EXCEPT !.loop = "over", !.eq = <<>>])
    /\ ServerOnly /\ UNCHANGED <<bcast, conn, cli>>

-----------------------------------------------------------------------------
(* The network: a stalled connection is closed by the idle timeout. *)

Stall(s) == /\ srv[s].begun /\ conn[s] = "open" /\ faults < MaxFaults
            /\ conn' = [conn EXCEPT ![s] = "stalled"] /\ faults' = faults + 1
            /\ UNCHANGED <<screen, agent, agq, wire, dropped, bcast, srv, cli>>

IdleTimeout(s) == /\ conn[s] = "stalled"
                  /\ conn' = [conn EXCEPT ![s] = "closed"]
                  /\ ServerOnly /\ UNCHANGED <<bcast, srv, cli>>

-----------------------------------------------------------------------------
(* The client: its main loop feeds the decoder and passes decoded frames to   *)
(* the window; the reader task and the SDL thread end with it.                *)

SetCli(s, r) == cli' = [cli EXCEPT ![s] = r]

ClientOnly == UNCHANGED <<screen, agent, agq, wire, dropped, bcast, srv>>

(* The reading as it would be in select! itself, without a task of its own:   *)
(* another branch may cancel it, and the frame is lost.                       *)
MainReadsInSelect(s) ==
    /\ cli[s].main = "run" /\ cli[s].rq # <<>>
    /\ \/ SetCli(s, [cli[s] EXCEPT !.rq = Tail(@)])
       \/ SetCli(s, [cli[s] EXCEPT !.main = "feed", !.mf = Head(cli[s].rq), !.rq = Tail(@)])
    /\ ClientOnly /\ UNCHANGED <<conn, faults>>

MainTakes(s) ==
    /\ cli[s].main = "run" /\ cli[s].rq # <<>>
    /\ SetCli(s, [cli[s] EXCEPT !.main = "feed", !.mf = Head(cli[s].rq), !.rq = Tail(@)])
    /\ ClientOnly /\ UNCHANGED <<conn, faults>>

MainFeeds(s) ==
    /\ cli[s].main = "feed" /\ ~Full(cli[s].dq)
    /\ SetCli(s, [cli[s] EXCEPT !.main = "run", !.mf = None, !.dq = Append(@, cli[s].mf)])
    /\ ClientOnly /\ UNCHANGED <<conn, faults>>

(* break: the readers are aborted, the decoder's input and the window's       *)
(* channel are dropped, the connection is closed.                             *)
ClientEnds(s) ==
    /\ SetCli(s, [cli[s] EXCEPT !.main = "over", !.mf = None, !.rq = <<>>, !.sq = <<>>])
    /\ conn' = [conn EXCEPT ![s] = "closed"]
    /\ ClientOnly /\ UNCHANGED faults

MainSeesClose(s) == cli[s].main = "run" /\ conn[s] = "closed" /\ ClientEnds(s)

(* The send to the decoder times out (5 s): only a decoder that hangs is so slow. *)
FeedTimesOut(s) == cli[s].main = "feed" /\ Full(cli[s].dq) /\ cli[s].decoder = "hung" /\ ClientEnds(s)

MainShows(s) ==
    /\ cli[s].main = "run" /\ cli[s].oq # <<>>
    /\ LET v == Head(cli[s].oq) IN
       SetCli(s, IF Full(cli[s].sq) THEN [cli[s] EXCEPT !.oq = Tail(@), !.lost = @ \cup {v}]
                 ELSE [cli[s] EXCEPT !.oq = Tail(@), !.sq = Append(@, v)])
    /\ ClientOnly /\ UNCHANGED <<conn, faults>>

(* The window's thread draws the last frame of its channel. *)
Draw(s) ==
    /\ cli[s].sq # <<>>
    /\ SetCli(s, [cli[s] EXCEPT !.shown = Last(cli[s].sq), !.sq = <<>>])
    /\ ClientOnly /\ UNCHANGED <<conn, faults>>

DecoderTakes(s) ==
    /\ cli[s].decoder = "recv" /\ cli[s].dq # <<>>
    /\ SetCli(s, [cli[s] EXCEPT !.decoder = "busy", !.df = Head(cli[s].dq), !.dq = Tail(@),
                                !.fed = Append(@, Head(cli[s].dq))])
    /\ ClientOnly /\ UNCHANGED <<conn, faults>>

(* try_send: a decoded frame that finds the channel full is dropped. *)
DecoderGives(s) ==
    /\ cli[s].decoder = "busy"
    /\ LET v == cli[s].df
           c == [cli[s] EXCEPT !.decoder = "recv", !.df = None]
       IN SetCli(s, IF Full(c.oq) \/ c.main = "over" THEN [c EXCEPT !.lost = @ \cup {v}]
                    ELSE [c EXCEPT !.oq = Append(@, v)])
    /\ ClientOnly /\ UNCHANGED <<conn, faults>>

DecodeFails(s) ==
    /\ cli[s].decoder = "busy" /\ faults < MaxFaults
    /\ SetCli(s, [cli[s] EXCEPT !.decoder = "recv", !.df = None, !.lost = @ \cup {cli[s].df}])
    /\ faults' = faults + 1
    /\ ClientOnly /\ UNCHANGED conn

DecoderHangs(s) ==
    /\ cli[s].decoder = "busy" /\ faults < MaxFaults
    /\ SetCli(s, [cli[s] EXCEPT !.decoder = "hung"])
    /\ faults' = faults + 1
    /\ ClientOnly /\ UNCHANGED conn

(* The channel of frames is closed and drained: the decoder thread ends. *)
DecoderStops(s) ==
    /\ cli[s].decoder = "recv" /\ cli[s].main = "over" /\ cli[s].dq = <<>>
    /\ SetCli(s, [cli[s] EXCEPT !.decoder = "done", !.oq = <<>>])
    /\ ClientOnly /\ UNCHANGED <<conn, faults>>

-----------------------------------------------------------------------------
Adapter(s) == AdapterTakes(s) \/ AdapterLagged(s) \/ AdapterGives(s) \/ AdapterStops(s)
Encoder(s) == EncoderStops(s) \/ Encode(s) \/ EncoderGives(s)
Loop(s) == LoopTakes(s) \/ LoopWrites(s) \/ LoopEnds(s) \/ SessionOver(s)
Main(s) == MainTakes(s) \/ MainFeeds(s) \/ FeedTimesOut(s) \/ MainShows(s)
Decoder(s) == DecoderTakes(s) \/ DecoderGives(s) \/ DecoderStops(s)

Next == \/ ScreenChanges \/ AgentSends \/ AgentGone \/ FanOut
        \/ \E s \in Sessions : \/ Begin(s) \/ Adapter(s) \/ Encoder(s) \/ Loop(s)
                               \/ Stall(s) \/ IdleTimeout(s)
                               \/ Main(s) \/ MainSeesClose(s) \/ Decoder(s) \/ Draw(s)
                               \/ DecodeFails(s) \/ DecoderHangs(s)

(* The runtime and the threads schedule what is ready; select! is fair to the *)
(* closing of the connection; quinn closes a silent connection.               *)
Fairness ==
    /\ WF_vars(AgentSends) /\ WF_vars(FanOut)
    /\ \A s \in Sessions : /\ WF_vars(Adapter(s)) /\ WF_vars(Encoder(s)) /\ WF_vars(Loop(s))
                           /\ WF_vars(IdleTimeout(s)) /\ WF_vars(Main(s)) /\ WF_vars(MainSeesClose(s))
                           /\ WF_vars(Decoder(s)) /\ WF_vars(Draw(s))

Spec == Init /\ [][Next]_vars /\ Fairness

-----------------------------------------------------------------------------

(* What the decoder is fed is what the encoder produced, from its first frame *)
(* and without a gap: a P-frame is never decoded against a missing reference, *)
(* whatever lagged, stalled or was dropped.                                   *)
NoGapAfterEncoder == \A s \in Sessions : IsPrefix(cli[s].fed, srv[s].encoded)

(* Nothing of a session is on its way. *)
Drained(s) == /\ agent = "up" /\ agq = <<>> /\ wire = <<>> /\ bcast[s] = [q |-> <<>>, lagged |-> FALSE]
              /\ srv[s].adapter = "recv" /\ srv[s].aq = <<>> /\ srv[s].encoder = "recv"
              /\ srv[s].eq = <<>> /\ srv[s].loop = "recv"
              /\ cli[s].main = "run" /\ cli[s].rq = <<>> /\ cli[s].dq = <<>>
              /\ cli[s].decoder = "recv" /\ cli[s].oq = <<>> /\ cli[s].sq = <<>>

(* At rest the window shows the last version of the screen, unless that very  *)
(* frame was dropped at one of four places: the agent's frequency limit, its  *)
(* full queue, a failed decoding, the client's two full channels after the    *)
(* decoder.  Nothing else, the lag of the broadcast included, loses the last  *)
(* frame.                                                                     *)
StaleOnlyByDrop ==
    \A s \in Sessions : Drained(s) /\ screen > srv[s].since
        => cli[s].shown = screen \/ screen \in dropped \/ screen \in cli[s].lost

(* A session whose connection works and whose decoder does not hang comes to  *)
(* rest once the screen does: a stalled, hung or leaked other session never   *)
(* holds it back.                                                             *)
Isolated ==
    \A s \in Sessions :
        <>[](srv[s].loop \in {"recv", "write"} /\ conn[s] = "open" /\ cli[s].decoder # "hung"
                => Drained(s))

(* The end of a session's loop ends its encoder thread, its adapter task and  *)
(* run_session itself, unless the encoder is waiting for room in a channel    *)
(* that nobody reads any more.                                                *)
EndsUnlessBlocked ==
    \A s \in Sessions :
        srv[s].token ~> \/ srv[s].loop = "over" /\ srv[s].adapter = "done"
                        \/ srv[s].encoder = "send" /\ Full(srv[s].eq)

=============================================================================
