---------------------------- MODULE LocalSession ----------------------------
(* nidan-server: a session captures the server's own display, encodes it and  *)
(* writes the stream.  Capture and encoder are blocking threads of tokio's    *)
(* pool, taken in the order they were spawned; the capture's channel and the  *)
(* encoder's are bounded, and a token tells the threads that the session is   *)
(* over.  The capture is one of three: "x11" (XGetImage), "stub" (the build   *)
(* without x11-capture) and "pipewire" (the Wayland portal).                  *)
(*                                                                            *)
(* Frames are counted in the channels and told apart nowhere.                 *)
EXTENDS Naturals, Sequences, FiniteSets

CONSTANTS Sessions,
          Backends,     \* subset of {"x11", "stub", "pipewire"}
          CaptureSize,  \* CAPTURE_CHANNEL_SIZE
          EncodeSize,   \* ENCODE_CHANNEL_SIZE
          Workers,      \* asynchronous workers of the runtime
          PoolSize      \* blocking threads of the runtime

ASSUME LocalAssumption ==
    /\ Backends \subseteq {"x11", "stub", "pipewire"}
    /\ CaptureSize \in Nat \ {0} /\ EncodeSize \in Nat \ {0}
    /\ Workers \in Nat \ {0} /\ PoolSize \in Nat \ {0}

VARIABLES backend,   \* config.capture.backend, with the build's features
          stage,     \* where handle_connection is
          gone,      \* the client's connection is closed
          cancelled, \* session_shutdown
          capture, encoder,   \* the threads
          failed,    \* a thread of the session failed to start its work
          raw, encoded,       \* frames in the two channels
          waiting    \* threads the pool has not started, in order

vars == <<backend, stage, gone, cancelled, capture, encoder, failed, raw, encoded, waiting>>

CaptureOf(s) == <<"capture", s>>
EncoderOf(s) == <<"encoder", s>>

Init == /\ backend \in Backends
        /\ stage = [s \in Sessions |-> "none"] /\ gone = [s \in Sessions |-> FALSE]
        /\ cancelled = [s \in Sessions |-> FALSE]
        /\ capture = [s \in Sessions |-> "none"] /\ encoder = [s \in Sessions |-> "none"]
        /\ failed = [s \in Sessions |-> FALSE]
        /\ raw = [s \in Sessions |-> 0] /\ encoded = [s \in Sessions |-> 0]
        /\ waiting = <<>>

Running(t) == t \notin {"none", "spawned", "ended"}
Busy == Cardinality({s \in Sessions : Running(capture[s])})
          + Cardinality({s \in Sessions : Running(encoder[s])})

-----------------------------------------------------------------------------
(* The connection.  The portal is asked with block_on inside the task: until   *)
(* the user answers, a worker of the runtime is taken.                        *)
Asking == {"asks size", "asks capture"}
WorkerFree == Cardinality({s \in Sessions : stage[s] \in Asking}) < Workers

Moves(s, from, to) ==
    /\ stage[s] = from
    /\ stage' = [stage EXCEPT ![s] = to]
    /\ UNCHANGED <<backend, gone, cancelled, capture, encoder, failed, raw, encoded, waiting>>

(* A handshake that cannot be read, or a token the server does not accept. *)
Refuse(s) == WorkerFree /\ Moves(s, "none", "done")

(* handle_connection makes a capturer to know the size, and drops it; when it *)
(* cannot be made the size is 1280 x 720.                                     *)
Accept(s) ==
    /\ WorkerFree
    /\ Moves(s, "none", IF backend = "pipewire" THEN "asks size" ELSE "acknowledged")

PortalAnswersSize(s) == Moves(s, "asks size", "acknowledged")

(* run_session makes its own, by way of the portal or of the display, which   *)
(* may be missing.                                                            *)
AskPortal(s) ==
    /\ WorkerFree /\ backend = "pipewire"
    /\ Moves(s, "acknowledged", "asks capture")

PortalAnswers(s) == \E to \in {"created", "done"} : Moves(s, "asks capture", to)

OpenDisplay(s) ==
    /\ WorkerFree /\ backend \in {"x11", "stub"}
    /\ \E to \in {"created"} \cup (IF backend = "x11" THEN {"done"} ELSE {}) :
          Moves(s, "acknowledged", to)

(* The capture and the encoder are spawned, then the video stream is opened:  *)
(* without a connection that fails, and run_session returns with its threads  *)
(* left to themselves.                                                        *)
StartPipeline(s) ==
    /\ stage[s] = "created" /\ WorkerFree
    /\ capture' = [capture EXCEPT ![s] = "spawned"]
    /\ encoder' = [encoder EXCEPT ![s] = "spawned"]
    /\ waiting' = waiting \o <<CaptureOf(s), EncoderOf(s)>>
    /\ stage' = [stage EXCEPT ![s] = IF gone[s] THEN "done" ELSE "select"]
    /\ UNCHANGED <<backend, gone, cancelled, failed, raw, encoded>>

ClientLeaves(s) ==
    /\ ~ gone[s] /\ stage[s] # "none"
    /\ gone' = [gone EXCEPT ![s] = TRUE]
    /\ UNCHANGED <<backend, stage, cancelled, capture, encoder, failed, raw, encoded, waiting>>

-----------------------------------------------------------------------------
(* The pool starts the oldest thread that waits; its work may fail to start   *)
(* (no display, no codec).                                                    *)
StartThread ==
    /\ waiting # <<>> /\ Busy < PoolSize
    /\ LET s == Head(waiting)[2]
       IN IF Head(waiting) = CaptureOf(s)
          THEN /\ \E t \in {"capturing", "ended"} : capture' = [capture EXCEPT ![s] = t]
               /\ UNCHANGED encoder
               /\ failed' = [failed EXCEPT ![s] = @ \/ capture'[s] = "ended"]
          ELSE /\ \E t \in {"top", "ended"} : encoder' = [encoder EXCEPT ![s] = t]
               /\ UNCHANGED capture
               /\ failed' = [failed EXCEPT ![s] = @ \/ encoder'[s] = "ended"]
    /\ waiting' = Tail(waiting)
    /\ UNCHANGED <<backend, stage, gone, cancelled, raw, encoded>>

-----------------------------------------------------------------------------
(* The capture. *)
ReceiverGone(s) == encoder[s] = "ended"

Room(s) == raw[s] < CaptureSize
FullEnds(s) == ~ Room(s) \/ ReceiverGone(s)

(* The stub leaves its loop whatever the error of try_send. *)
StubEnds(s) == backend = "stub" /\ FullEnds(s)

\* Mutant: XGetImage's loop takes a full channel for a closed one.
X11EndsIfFull(s) == backend = "x11" /\ FullEnds(s)

(* XGetImage's loop drops the frame when the channel is full. *)
X11Ends(s) == backend = "x11" /\ ReceiverGone(s)

(* A frame is tried on the channel.  PipeWire's callback ignores the result. *)
CaptureFrame(s) ==
    /\ capture[s] = "capturing" /\ Room(s) /\ ~ ReceiverGone(s)
    /\ raw' = [raw EXCEPT ![s] = @ + 1]
    /\ UNCHANGED <<backend, stage, gone, cancelled, capture, encoder, failed, encoded, waiting>>

CaptureBreaks(s) ==
    /\ capture[s] = "capturing" /\ (StubEnds(s) \/ X11Ends(s))
    /\ capture' = [capture EXCEPT ![s] = "ended"]
    /\ UNCHANGED <<backend, stage, gone, cancelled, encoder, failed, raw, encoded, waiting>>

(* The loop's test of the token.  The timer that would test it for PipeWire   *)
(* is never armed.                                                            *)
SeesCancellation == backend # "pipewire"

CaptureStops(s) ==
    /\ capture[s] = "capturing" /\ cancelled[s] /\ SeesCancellation
    /\ capture' = [capture EXCEPT ![s] = "ended"]
    /\ UNCHANGED <<backend, stage, gone, cancelled, encoder, failed, raw, encoded, waiting>>

-----------------------------------------------------------------------------
(* EncoderPipeline::start: the token is tested at the top of the loop only. *)
EncoderTop(s) ==
    /\ encoder[s] = "top"
    /\ encoder' = [encoder EXCEPT ![s] = IF cancelled[s] THEN "ended" ELSE "receive"]
    /\ UNCHANGED <<backend, stage, gone, cancelled, capture, failed, raw, encoded, waiting>>

Receives(s, next) ==
    /\ encoder[s] = "receive" /\ raw[s] > 0
    /\ raw' = [raw EXCEPT ![s] = @ - 1]
    /\ encoder' = [encoder EXCEPT ![s] = next]
    /\ UNCHANGED <<backend, stage, gone, cancelled, capture, failed, encoded, waiting>>

EncoderEncodes(s) == Receives(s, "send")

(* An encoding error, or a frame the codec keeps. *)
EncoderSkips(s) == Receives(s, "top")

EncoderStarves(s) ==
    /\ encoder[s] = "receive" /\ raw[s] = 0 /\ capture[s] = "ended"
    /\ encoder' = [encoder EXCEPT ![s] = "ended"]
    /\ UNCHANGED <<backend, stage, gone, cancelled, capture, failed, raw, encoded, waiting>>

(* blocking_send: it waits for room, or for run_session to have returned. *)
EncoderSends(s) ==
    /\ encoder[s] = "send"
    /\ IF stage[s] = "done"
       THEN encoder' = [encoder EXCEPT ![s] = "ended"] /\ UNCHANGED encoded
       ELSE /\ encoded[s] < EncodeSize
            /\ encoded' = [encoded EXCEPT ![s] = @ + 1]
            /\ encoder' = [encoder EXCEPT ![s] = "top"]
    /\ UNCHANGED <<backend, stage, gone, cancelled, capture, failed, raw, waiting>>

-----------------------------------------------------------------------------
(* run_session's loop. *)
TakeFrame(s) ==
    /\ stage[s] = "select" /\ encoded[s] > 0 /\ WorkerFree
    /\ encoded' = [encoded EXCEPT ![s] = @ - 1]
    /\ stage' = [stage EXCEPT ![s] = "writing"]
    /\ UNCHANGED <<backend, gone, cancelled, capture, encoder, failed, raw, waiting>>

(* write_all waits for the client to read. *)
Written(s) == ~ gone[s] /\ WorkerFree /\ Moves(s, "writing", "select")

\* Mutant: the token is not cancelled when the client leaves.
LoopEndsQuietly(s) ==
    /\ WorkerFree
    /\ \/ stage[s] \in {"select", "writing"} /\ gone[s]
       \/ stage[s] = "select" /\ encoded[s] = 0 /\ encoder[s] = "ended"
    /\ stage' = [stage EXCEPT ![s] = "await capture"]
    /\ UNCHANGED <<backend, gone, cancelled, capture, encoder, failed, raw, encoded, waiting>>

(* The client has left, or the encoder has: the token is cancelled. *)
LoopEnds(s) ==
    /\ WorkerFree
    /\ \/ stage[s] \in {"select", "writing"} /\ gone[s]
       \/ stage[s] = "select" /\ encoded[s] = 0 /\ encoder[s] = "ended"
    /\ cancelled' = [cancelled EXCEPT ![s] = TRUE]
    /\ stage' = [stage EXCEPT ![s] = "await capture"]
    /\ UNCHANGED <<backend, gone, capture, encoder, failed, raw, encoded, waiting>>

AwaitCapture(s) ==
    WorkerFree /\ capture[s] = "ended" /\ Moves(s, "await capture", "await encoder")

(* run_session returns: its receiver and the video stream are dropped. *)
AwaitEncoder(s) ==
    /\ stage[s] = "await encoder" /\ encoder[s] = "ended" /\ WorkerFree
    /\ stage' = [stage EXCEPT ![s] = "done"]
    /\ encoded' = [encoded EXCEPT ![s] = 0]
    /\ UNCHANGED <<backend, gone, cancelled, capture, encoder, failed, raw, waiting>>

Threads(s) == \/ CaptureFrame(s) \/ CaptureBreaks(s) \/ CaptureStops(s)
              \/ EncoderTop(s) \/ EncoderEncodes(s) \/ EncoderSkips(s)
              \/ EncoderStarves(s) \/ EncoderSends(s)
Loop(s) == TakeFrame(s) \/ Written(s) \/ LoopEnds(s) \/ AwaitCapture(s) \/ AwaitEncoder(s)

Next == \/ StartThread
        \/ \E s \in Sessions : \/ Accept(s) \/ Refuse(s) \/ PortalAnswersSize(s)
                               \/ AskPortal(s) \/ PortalAnswers(s) \/ OpenDisplay(s)
                               \/ StartPipeline(s) \/ ClientLeaves(s) \/ Threads(s) \/ Loop(s)

Spec == Init /\ [][Next]_vars

(* Threads and tasks run, the display can be read again and again, and the    *)
(* codec does not keep every frame: when the video stream could not be        *)
(* opened, nothing else ends the threads.  Nothing is assumed of the client's *)
(* pace, of PipeWire's screen, or of the user the portal asks.                *)
Fairness == /\ WF_vars(StartThread)
            /\ \A s \in Sessions :
                  /\ WF_vars(CaptureStops(s)) /\ WF_vars(EncoderTop(s))
                  /\ WF_vars(backend # "pipewire" /\ CaptureFrame(s))
                  /\ WF_vars(CaptureBreaks(s))
                  /\ SF_vars(EncoderEncodes(s)) /\ WF_vars(EncoderStarves(s))
                  /\ WF_vars(EncoderSends(s)) /\ WF_vars(LoopEnds(s))
                  /\ WF_vars(AwaitCapture(s)) /\ WF_vars(AwaitEncoder(s))

FairSpec == Spec /\ Fairness

-----------------------------------------------------------------------------
(* The loop leaves a client that is still there only when a thread could not  *)
(* start, whatever the client's pace: a slow client loses frames, not its     *)
(* session (capture_loop_real; the stub's loop is excepted, x11.rs:253).      *)
SlowClientKept ==
    [][\A s \in Sessions :
          stage[s] \in {"select", "writing"} /\ stage'[s] = "await capture" =>
              gone[s] \/ failed[s] \/ backend = "stub"]_vars

(* A thread that nothing will ever end: PipeWire's, and an encoder that waits *)
(* for room in a channel nobody reads any more.                               *)
Stuck(s) == \/ backend = "pipewire" /\ capture[s] = "capturing"
            \/ encoder[s] = "send" /\ encoded[s] = EncodeSize /\ stage[s] = "await encoder"

(* The pool is full and a thread waits for its turn. *)
Starved == waiting # <<>> /\ Busy >= PoolSize

(* Once the client has left, its session returns and leaves no thread behind, *)
(* unless a thread of some session is stuck, or from some time on the pool is   *)
(* full of others' or every worker waits for an answer of the portal.         *)
ThreadsReturned ==
    \A s \in Sessions :
        gone[s] /\ stage[s] \notin {"none", "acknowledged", "created"} \cup Asking ~>
            \/ stage[s] = "done" /\ {capture[s], encoder[s]} \subseteq {"none", "ended"}
            \/ \E t \in Sessions : Stuck(t)
            \/ []Starved \/ []~WorkerFree
=============================================================================
