------------------------------ MODULE InputPath ------------------------------
(* The way of the user's inputs from the window to the guest: the SDL thread, *)
(* the InputSender task, the client's main loop and the control stream; the   *)
(* proxy-encoder's control task and its injector, the relay to the agent; the *)
(* agent's command task and the thread that holds the portal.                 *)
(*                                                                            *)
(* Events are numbered in the user's order; there is one pointer, one button  *)
(* and one key.  Blocking queues in a row (the batches' channel, the QUIC     *)
(* stream) are one queue.  A bounded channel holds Cap items, whatever its    *)
(* size in the code (256 events, 64 batches).                                 *)
EXTENDS Integers, Sequences, FiniteSets, SequencesExt

CONSTANTS Points,     \* positions of the pointer in the window, <<x, y>>
          Windows,    \* sizes of the window, <<w, h>>
          Stream,     \* size of the guest's screen, <<w, h>>
          MaxEvents, MaxResizes, MaxFaults,
          Cap

ASSUME InputAssumption == MaxEvents \in Nat /\ MaxResizes \in Nat /\ MaxFaults \in Nat /\ Cap \in Nat \ {0}

VARIABLES window,    \* size of the window
          pointer,   \* where the user's pointer is
          did,       \* what the user did, in order
          sdlq,      \* channel from the SDL thread
          pending,   \* events of the next batch
          lastMove,  \* last_mouse_move, 0 for none
          batches,   \* batches on their way to the proxy-encoder
          vsockq,    \* channel of the injector
          inject,    \* events at the agent
          guest,     \* last move, button and key event applied in the guest
          clicks,    \* button events applied, with the move they were applied at
          lost,      \* events dropped on the way
          batchOf,   \* number of the batch of each event, 0 while in none
          open,      \* the session goes on
          resizes, faults

vars == <<window, pointer, did, sdlq, pending, lastMove, batches, vsockq, inject,
          guest, clicks, lost, batchOf, open, resizes, faults>>

Numbers == 1 .. MaxEvents
Done == 1 .. Len(did)

Class(kind) == CASE kind = "move" -> "move"
                 [] kind \in {"down", "up"} -> "button"
                 [] kind \in {"keydown", "keyup"} -> "key"

Of(class) == {n \in Done : Class(did[n]) = class}
LastOf(S) == IF S = {} THEN 0 ELSE CHOOSE n \in S : \A k \in S : k <= n

Full(q) == Len(q) >= Cap

Init == /\ window \in Windows /\ pointer \in Points
        /\ did = <<>> /\ sdlq = <<>> /\ pending = <<>> /\ lastMove = 0
        /\ batches = <<>> /\ vsockq = <<>> /\ inject = <<>>
        /\ guest = [move |-> 0, button |-> 0, key |-> 0] /\ clicks = {}
        /\ lost = {} /\ batchOf = [n \in Numbers |-> 0]
        /\ open = TRUE /\ resizes = 0 /\ faults = 0

-----------------------------------------------------------------------------
(* The window.  The stream keeps its proportions and is centred (Fit). *)

Rect == LET sw == Stream[1]  sh == Stream[2]  dw == window[1]  dh == window[2]
            w == IF dw * sh <= dh * sw THEN dw ELSE (sw * dh) \div sh
            h == IF dw * sh <= dh * sw THEN (sh * dw) \div sw ELSE dh
        IN [x |-> (dw - w) \div 2, y |-> (dh - h) \div 2, w |-> w, h |-> h]

(* window_to_normalized gives a position.  The pointer may leave the window.  *)
Inside(p) == LET rx == p[1] - Rect.x  ry == p[2] - Rect.y
             IN rx >= 0 /\ ry >= 0 /\ rx < Rect.w /\ ry < Rect.h

Resize(size) ==
    /\ resizes < MaxResizes /\ size # window
    /\ window' = size /\ resizes' = resizes + 1
    /\ UNCHANGED <<pointer, did, sdlq, pending, lastMove, batches, vsockq, inject,
                   guest, clicks, lost, batchOf, open, faults>>

(* An event goes to the sender with try_send, if it is sent at all. *)
Happens(kind, sent) ==
    LET n == Len(did) + 1 IN
    /\ open /\ n <= MaxEvents
    /\ did' = Append(did, kind)
    /\ IF sent /\ ~Full(sdlq) THEN sdlq' = Append(sdlq, n) /\ UNCHANGED lost
       ELSE lost' = lost \cup {n} /\ UNCHANGED sdlq
    /\ UNCHANGED <<window, pending, lastMove, batches, vsockq, inject, guest, clicks,
                   batchOf, open, resizes, faults>>

Move(p) == p # pointer /\ pointer' = p /\ Happens("move", Inside(p))

Held(class) == Of(class) # {} /\ did[LastOf(Of(class))] \in {"down", "keydown"}

(* A press, or a release, outside of the rendered stream is not sent. *)
Button == /\ Happens(IF Held("button") THEN "up" ELSE "down", Inside(pointer))
          /\ UNCHANGED pointer

Key == /\ Happens(IF Held("key") THEN "keyup" ELSE "keydown", TRUE)
       /\ UNCHANGED pointer

-----------------------------------------------------------------------------
(* The InputSender. *)

(* A batch as it would be with the move ahead of the other events. *)
MoveFirst(events) == IF lastMove = 0 THEN events ELSE <<lastMove>> \o events

(* A batch: the events that wait, then the move. *)
WithMove(events) == IF lastMove = 0 THEN events ELSE Append(events, lastMove)

(* A batch is numbered and sent; the send waits for room. *)
Flush(events) ==
    LET b == 1 + Cardinality({batchOf[n] : n \in {k \in Numbers : batchOf[k] # 0}}) IN
    /\ ~Full(batches)
    /\ batches' = Append(batches, events)
    /\ batchOf' = [n \in Numbers |-> IF n \in ToSet(events) THEN b ELSE batchOf[n]]
    /\ lastMove' = 0

SenderLeaves == UNCHANGED <<window, pointer, did, vsockq, inject, guest, clicks, lost, open, resizes, faults>>

(* The move as it would be if the first one of the interval were kept. *)
TakeFirstMove ==
    /\ open /\ sdlq # <<>> /\ did[Head(sdlq)] = "move"
    /\ lastMove' = (IF lastMove = 0 THEN Head(sdlq) ELSE lastMove) /\ sdlq' = Tail(sdlq)
    /\ UNCHANGED <<pending, batches, batchOf>> /\ SenderLeaves

(* A move replaces the one that waits; a button waits for the tick. *)
TakeMove ==
    /\ open /\ sdlq # <<>> /\ did[Head(sdlq)] = "move"
    /\ lastMove' = Head(sdlq) /\ sdlq' = Tail(sdlq)
    /\ UNCHANGED <<pending, batches, batchOf>> /\ SenderLeaves

TakeButton ==
    /\ open /\ sdlq # <<>> /\ Class(did[Head(sdlq)]) = "button"
    /\ pending' = Append(pending, Head(sdlq)) /\ sdlq' = Tail(sdlq)
    /\ UNCHANGED <<lastMove, batches, batchOf>> /\ SenderLeaves

(* A key is flushed at once, after the events that wait, before the move. *)
TakeKey ==
    /\ open /\ sdlq # <<>> /\ Class(did[Head(sdlq)]) = "key"
    /\ sdlq' = Tail(sdlq)
    /\ Flush(WithMove(Append(pending, Head(sdlq)))) /\ pending' = <<>>
    /\ SenderLeaves

(* The tick as it would be if a move alone did not make a batch. *)
TickWithoutMove ==
    /\ open /\ pending # <<>>
    /\ Flush(WithMove(pending)) /\ pending' = <<>>
    /\ UNCHANGED sdlq /\ SenderLeaves

(* Every 8 ms what waits is flushed, the move last. *)
Tick ==
    /\ open /\ (pending # <<>> \/ lastMove # 0)
    /\ Flush(WithMove(pending)) /\ pending' = <<>>
    /\ UNCHANGED sdlq /\ SenderLeaves

(* A batch that the control stream does not take in 5 s ends the session. *)
SendTimesOut ==
    /\ open /\ batches # <<>> /\ faults < MaxFaults
    /\ open' = FALSE /\ faults' = faults + 1
    /\ UNCHANGED <<window, pointer, did, sdlq, pending, lastMove, batches, vsockq, inject,
                   guest, clicks, lost, batchOf, resizes>>

-----------------------------------------------------------------------------
(* The proxy-encoder and the agent. *)

(* The control task decrypts and decodes a batch; the injector drops it when  *)
(* its channel is full.                                                       *)
InjectBatch ==
    /\ open /\ batches # <<>>
    /\ batches' = Tail(batches)
    /\ IF Full(vsockq) THEN lost' = lost \cup ToSet(Head(batches)) /\ UNCHANGED vsockq
       ELSE vsockq' = Append(vsockq, Head(batches)) /\ UNCHANGED lost
    /\ UNCHANGED <<window, pointer, did, sdlq, pending, lastMove, inject, guest, clicks,
                   batchOf, open, resizes, faults>>

(* The relay writes a batch on vsock; the agent reads it and hands it over to *)
(* the portal's thread.                                                       *)
Relay ==
    /\ vsockq # <<>>
    /\ vsockq' = Tail(vsockq) /\ inject' = inject \o Head(vsockq)
    /\ UNCHANGED <<window, pointer, did, sdlq, pending, lastMove, batches, guest, clicks, lost,
                   batchOf, open, resizes, faults>>

Applied(n) ==
    /\ guest' = [guest EXCEPT ![Class(did[n])] = n]
    /\ clicks' = IF Class(did[n]) = "button" THEN clicks \cup {<<n, guest.move>>} ELSE clicks

ApplyEvent ==
    /\ inject # <<>>
    /\ inject' = Tail(inject) /\ Applied(Head(inject))
    /\ UNCHANGED <<window, pointer, did, sdlq, pending, lastMove, batches, vsockq, lost,
                   batchOf, open, resizes, faults>>

(* The portal refuses, or the scancode is not in the table. *)
ApplyFails ==
    /\ inject # <<>> /\ faults < MaxFaults
    /\ inject' = Tail(inject) /\ lost' = lost \cup {Head(inject)} /\ faults' = faults + 1
    /\ UNCHANGED <<window, pointer, did, sdlq, pending, lastMove, batches, vsockq, guest, clicks,
                   batchOf, open, resizes>>

-----------------------------------------------------------------------------
Sender == TakeMove \/ TakeButton \/ TakeKey

Next == \/ \E size \in Windows : Resize(size)
        \/ \E p \in Points : Move(p)
        \/ Button \/ Key
        \/ Sender \/ Tick \/ SendTimesOut
        \/ InjectBatch \/ Relay \/ ApplyEvent \/ ApplyFails

(* Each task runs when it can; the interval of the sender ticks. *)
Fairness == WF_vars(Sender) /\ WF_vars(Tick) /\ WF_vars(InjectBatch) /\ WF_vars(Relay) /\ WF_vars(ApplyEvent)

Spec == Init /\ [][Next]_vars /\ Fairness

-----------------------------------------------------------------------------

(* A press or release never acts at a place the user reached after it, and no *)
(* older than the last place flushed before it: the moves it misses were      *)
(* dropped, replaced by a later one, or flushed with it or after it.          *)
ClickNotAhead ==
    \A c \in clicks :
        /\ c[2] < c[1]
        /\ \A j \in Of("move") : c[2] < j /\ j < c[1]
               => j \in lost \/ batchOf[j] = 0 \/ batchOf[j] >= batchOf[c[1]]

AtRest == open /\ sdlq = <<>> /\ pending = <<>> /\ lastMove = 0 /\ batches = <<>> /\ vsockq = <<>> /\ inject = <<>>

(* Moves that a later move replaced before they were sent. *)
Replaced == {n \in Of("move") : batchOf[n] = 0 /\ \E k \in Of("move") : k > n /\ batchOf[k] # 0}

(* At rest the guest's pointer, button and key are as the last event of each  *)
(* kind left them that was not dropped: a stuck button or key, or a pointer   *)
(* left behind, is always an event dropped outside of the stream, at a full   *)
(* channel of events or batches, or by the portal.                            *)
RestAgrees ==
    AtRest => \A class \in {"move", "button", "key"} :
                 guest[class] = LastOf(Of(class) \ (lost \cup Replaced))

(* While the session goes on every event comes to rest: applied, dropped or,  *)
(* for a move, replaced by a later one.                                       *)
Delivered == []<>(open => AtRest)
=============================================================================
