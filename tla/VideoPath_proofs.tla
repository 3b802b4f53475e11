-------------------------- MODULE VideoPath_proofs --------------------------
(***************************************************************************)
(* Proofs about VideoPath, for any number of sessions, leaked or not, of   *)
(* frames and of faults and any capacity of the channels.                  *)
(***************************************************************************)
EXTENDS VideoPath, SequenceTheorems, TLAPS

-----------------------------------------------------------------------------
(* Queues of frames. *)

Frames == Seq(Nat)

(* A variable that holds a frame in one state of its task, as a queue. *)
Slot(held, v) == IF held THEN <<v>> ELSE <<>>

(* The last frame of a queue, or of what lies beyond it. *)
LastOr(q, beyond) == IF q = <<>> THEN beyond ELSE Last(q)

LEMMA QueueTypes ==
  ASSUME NEW q \in Frames
  PROVE  /\ <<>> \in Frames /\ \A v \in Nat : <<v>> \in Frames /\ Append(q, v) \in Frames
         /\ q # <<>> => Head(q) \in Nat /\ Tail(q) \in Frames /\ Last(q) \in Nat
BY DEF Frames, Last

LEMMA SlotType == \A held, v : v \in Nat => Slot(held, v) \in Frames
BY DEF Slot, Frames

LEMMA ConcatType == \A p, q \in Frames : p \o q \in Frames
BY ConcatProperties DEF Frames

LEMMA ConcatEmpty == \A q \in Frames : q \o <<>> = q /\ <<>> \o q = q
BY ConcatEmptySeq DEF Frames

LEMMA ConcatAssoc ==
  ASSUME NEW p \in Frames, NEW q \in Frames, NEW r \in Frames
  PROVE  (p \o q) \o r = p \o (q \o r)
BY DEF Frames

LEMMA ConcatOne == \A q \in Frames, v \in Nat : Append(q, v) = q \o <<v>>
BY AppendIsConcat DEF Frames

LEMMA HeadFirst ==
  ASSUME NEW q \in Frames, q # <<>>
  PROVE  <<Head(q)>> \o Tail(q) = q
BY DEF Frames

(* The first frame of a queue goes to the end of the queue before it. *)
LEMMA MoveHead ==
  ASSUME NEW p \in Frames, NEW q \in Frames, q # <<>>
  PROVE  Append(p, Head(q)) \o Tail(q) = p \o q
<1> DEFINE h == Head(q)
           r == Tail(q)
<1>1. h \in Nat /\ r \in Frames /\ <<h>> \in Frames /\ <<h>> \o r = q
  BY QueueTypes, HeadFirst
<1> HIDE DEF h, r
<1>2. (p \o <<h>>) \o r = p \o (<<h>> \o r)
  BY <1>1, ConcatAssoc
<1>3. Append(p, h) = p \o <<h>>
  BY <1>1, ConcatOne
<1>4. Append(p, h) \o r = p \o q
  BY <1>1, <1>2, <1>3
<1>. QED
  BY <1>4 DEF h, r

LEMMA LastAppended ==
  ASSUME NEW q \in Frames, NEW v \in Nat
  PROVE  \A x : LastOr(Append(q, v), x) = v
BY DEF LastOr, Last, Frames

(* The last frame stays the last when a queue moves on. *)
LEMMA LastMoves ==
  ASSUME NEW q \in Frames
  PROVE  /\ \A x : LastOr(<<>>, x) = x
         /\ \A v \in Nat : \A x : LastOr(<<v>>, x) = v /\ LastOr(Append(q, v), x) = v
         /\ q # <<>> => \A x, y : /\ LastOr(q, x) = LastOr(q, y)
                                  /\ LastOr(Tail(q), Head(q)) = LastOr(q, x)
<1>1. \A v \in Nat : \A x : LastOr(Append(q, v), x) = v
  BY LastAppended
<1>2. ASSUME q # <<>>, Tail(q) = <<>> PROVE Last(q) = Head(q)
  <2>1. Len(Tail(q)) = Len(q) - 1 /\ Len(q) \in Nat
    BY <1>2, HeadTailProperties, LenProperties DEF Frames
  <2>2. Len(<<>>) = 0
    OBVIOUS
  <2>3. Len(q) = 1
    BY <1>2, <2>1, <2>2
  <2>. QED
    BY <1>2, <2>3 DEF Last, Frames
<1>3. ASSUME q # <<>>, Tail(q) # <<>> PROVE Last(Tail(q)) = Last(q)
  BY <1>3, HeadTailProperties DEF Last, Frames
<1>. QED
  BY <1>1, <1>2, <1>3 DEF LastOr, Last

-----------------------------------------------------------------------------
(* What a queue of frames is the beginning of. *)

Begins(p, w) == \E r \in Frames : w = p \o r

LEMMA BeginsIsPrefix ==
  ASSUME NEW p \in Frames, NEW w \in Frames, Begins(p, w)
  PROVE  IsPrefix(p, w)
<1>1. PICK r \in Frames : w = p \o r
  BY DEF Begins
<1>2. /\ Len(p) \in Nat /\ Len(r) \in Nat /\ Len(w) = Len(p) + Len(r)
      /\ \A i \in 1..Len(p) : w[i] = p[i] /\ p[i] \in Nat
  BY <1>1, ConcatProperties, LenProperties DEF Frames
<1>3. PICK m \in Nat : m = Len(p)
  BY <1>2
<1>4. m \in 0..Len(w) /\ m \in 0..Len(p)
  BY <1>2, <1>3
<1>5. /\ SubSeq(p, 1, m) \in Seq(Nat) /\ Len(SubSeq(p, 1, m)) = m
      /\ \A i \in 1..m : SubSeq(p, 1, m)[i] = p[i]
  BY <1>4 DEF Frames
<1>6. /\ SubSeq(w, 1, m) \in Seq(Nat) /\ Len(SubSeq(w, 1, m)) = m
      /\ \A i \in 1..m : SubSeq(w, 1, m)[i] = w[i]
  BY <1>4 DEF Frames
<1>7. \A i \in 1..m : SubSeq(p, 1, m)[i] = SubSeq(w, 1, m)[i]
  BY <1>2, <1>3, <1>5, <1>6
<1>8. SubSeq(p, 1, m) = SubSeq(w, 1, m)
  BY <1>5, <1>6, <1>7, SeqEqual
<1>. QED
  BY <1>2, <1>3, <1>8 DEF IsPrefix

LEMMA BeginsLess ==
  ASSUME NEW p \in Frames, NEW q \in Frames, NEW w, Begins(p \o q, w)
  PROVE  Begins(p, w)
<1>1. PICK r \in Frames : w = (p \o q) \o r
  BY DEF Begins
<1>2. (p \o q) \o r = p \o (q \o r)
  BY ConcatAssoc, Zenon
<1>3. q \o r \in Frames
  BY ConcatType
<1>. QED
  BY <1>1, <1>2, <1>3 DEF Begins

LEMMA BeginsMore ==
  ASSUME NEW p \in Frames, NEW w \in Frames, NEW v \in Nat, Begins(p, w)
  PROVE  Begins(p, Append(w, v))
<1>1. PICK r \in Frames : w = p \o r
  BY DEF Begins
<1>2. <<v>> \in Frames /\ r \o <<v>> \in Frames
  BY QueueTypes, ConcatType
<1>3. (p \o r) \o <<v>> = p \o (r \o <<v>>)
  BY <1>2, ConcatAssoc, SMTT(30)
<1>4. Append(w, v) = w \o <<v>>
  BY ConcatOne
<1>. QED
  BY <1>1, <1>2, <1>3, <1>4 DEF Begins

-----------------------------------------------------------------------------
(* The invariant. *)

Receivers == [q : Frames, lagged : BOOLEAN]

Tasks == [begun : BOOLEAN, since : Nat, token : BOOLEAN,
          adapter : {"off", "recv", "send", "done"}, af : Nat, aq : Frames,
          encoder : {"off", "recv", "send", "done"}, ef : Nat, eq : Frames,
          loop : {"off", "recv", "write", "wait", "over"}, lf : Nat, encoded : Frames]

Clients == [main : {"run", "feed", "over"}, mf : Nat, rq : Frames, dq : Frames,
            decoder : {"recv", "busy", "hung", "done"}, df : Nat, fed : Frames,
            oq : Frames, sq : Frames, shown : Nat, lost : SUBSET Nat]

TypeInv(s) == srv[s] \in Tasks /\ cli[s] \in Clients /\ bcast[s] \in Receivers

(* The encoded frames on their way to the client, and those that arrived; a   *)
(* loop that has not ended, and a client, have lost none.                     *)
Sent(t) == (Slot(t.loop = "write", t.lf) \o t.eq) \o Slot(t.encoder = "send", t.ef)
Fed(c) == c.fed \o c.dq
Arrived(c) == (Fed(c) \o Slot(c.main = "feed", c.mf)) \o c.rq

GapInv(t, c) ==
  /\ ~ t.begun => t = Idle
  /\ Begins(Fed(c), t.encoded)
  /\ c.main # "over" => Begins(Arrived(c), t.encoded)
  /\ c.main # "over" /\ t.loop \in {"off", "recv", "write"} => t.encoded = Arrived(c) \o Sent(t)

(* The newest frame on the way to the window of a session: the last one of    *)
(* the last place that holds any, up to what the window shows.                *)
InWindow(c) == LastOr(c.oq, LastOr(c.sq, c.shown))
InDecoder(c, beyond) == LastOr(c.dq, LastOr(Slot(c.decoder = "busy", c.df), beyond))
InMain(c, beyond) == LastOr(c.rq, LastOr(Slot(c.main = "feed", c.mf), beyond))
AtClient(c) == InMain(c, InDecoder(c, InWindow(c)))
InLoop(t, beyond) == LastOr(t.eq, LastOr(Slot(t.loop = "write", t.lf), beyond))
InEncoder(t, beyond) == LastOr(t.aq, LastOr(Slot(t.encoder = "send", t.ef), beyond))
AtServer(t, beyond) ==
  LastOr(Slot(t.adapter = "send", t.af), InEncoder(t, InLoop(t, beyond)))
Newest(b, t, c) == LastOr(agq, LastOr(wire, LastOr(b.q, AtServer(t, AtClient(c)))))

(* Every task of the session that passes frames on does so. *)
Alive(t, c) == /\ agent = "up" /\ t.adapter \in {"recv", "send"} /\ t.encoder \in {"recv", "send"}
               /\ t.loop \in {"recv", "write"} /\ c.main # "over"
               /\ c.decoder \in {"recv", "busy"}

(* The newest frame is the screen, unless that one was dropped. *)
StaleInv(b, t, c) ==
  Alive(t, c) /\ screen > t.since
     => Newest(b, t, c) = screen \/ screen \in dropped \/ screen \in c.lost

SessionInv(s) == TypeInv(s) /\ GapInv(srv[s], cli[s]) /\ StaleInv(bcast[s], srv[s], cli[s])

VideoInv == /\ screen \in Nat /\ agq \in Frames /\ wire \in Frames
            /\ DOMAIN srv = Sessions /\ DOMAIN cli = Sessions /\ DOMAIN bcast = Sessions
            /\ \A s \in Sessions : SessionInv(s)

(* A session that has not begun has no task. *)
LEMMA BegunBy ==
  ASSUME NEW t \in Tasks, NEW c, GapInv(t, c),
         t.adapter # "off" \/ t.encoder # "off" \/ t.loop # "off"
  PROVE  t.begun = TRUE
BY DEF GapInv, Idle, Tasks

(* The queues of a session, end to end. *)
LEMMA SessionTypes ==
  ASSUME NEW t \in Tasks, NEW c \in Clients
  PROVE  /\ Sent(t) \in Frames /\ Fed(c) \in Frames /\ Arrived(c) \in Frames
         /\ t.aq \in Frames /\ t.eq \in Frames /\ t.encoded \in Frames
         /\ c.rq \in Frames /\ c.dq \in Frames /\ c.fed \in Frames
         /\ Slot(t.loop = "write", t.lf) \in Frames /\ Slot(t.encoder = "send", t.ef) \in Frames
         /\ Slot(c.main = "feed", c.mf) \in Frames
<1>1. /\ t.aq \in Frames /\ t.eq \in Frames /\ t.encoded \in Frames
      /\ c.rq \in Frames /\ c.dq \in Frames /\ c.fed \in Frames
      /\ t.lf \in Nat /\ t.ef \in Nat /\ c.mf \in Nat
  BY DEF Tasks, Clients
<1>2. /\ Slot(t.loop = "write", t.lf) \in Frames /\ Slot(t.encoder = "send", t.ef) \in Frames
      /\ Slot(c.main = "feed", c.mf) \in Frames
  BY <1>1, SlotType
<1>3. /\ Slot(t.loop = "write", t.lf) \o t.eq \in Frames
      /\ c.fed \o c.dq \in Frames
  BY <1>1, <1>2, ConcatType
<1>4. (c.fed \o c.dq) \o Slot(c.main = "feed", c.mf) \in Frames
  BY <1>2, <1>3, ConcatType
<1>5. Sent(t) \in Frames /\ Fed(c) \in Frames /\ Arrived(c) \in Frames
  BY <1>1, <1>2, <1>3, <1>4, ConcatType DEF Sent, Fed, Arrived
<1>. QED
  BY <1>1, <1>2, <1>5

-----------------------------------------------------------------------------
(* The tasks of the proxy-encoder. *)

(* The tasks of a session go from t to u: its client still has the beginning  *)
(* of what was encoded, and no frame was lost while they are alive.           *)
KeepsTask(t, u, c) ==
  /\ u \in Tasks /\ GapInv(u, c)
  /\ Alive(u, c) => /\ Alive(t, c) /\ u.since = t.since
                    /\ \A x : AtServer(u, x) = AtServer(t, x)

LEMMA EncodeKeeps ==
  ASSUME NEW t \in Tasks, NEW c \in Clients, GapInv(t, c), t.encoder = "recv", t.aq # <<>>,
         NEW u, u = [t EXCEPT !.encoder = "send", !.aq = Tail(@), !.ef = Head(t.aq),
                              !.encoded = Append(@, Head(t.aq))]
  PROVE  KeepsTask(t, u, c)
<1>1. t.begun = TRUE /\ t.aq \in Frames /\ t.encoded \in Frames
  BY BegunBy, SessionTypes
<1>2. PICK h \in Nat, q \in Frames, e \in Frames :
         h = Head(t.aq) /\ q = Tail(t.aq) /\ e = Append(t.encoded, h)
  BY <1>1, QueueTypes
<1>3. u = [t EXCEPT !.encoder = "send", !.aq = q, !.ef = h, !.encoded = e]
  BY <1>2
<1>4. /\ u \in Tasks /\ u.encoder = "send" /\ u.aq = q /\ u.ef = h /\ u.encoded = e
      /\ u.begun = t.begun /\ u.since = t.since /\ u.adapter = t.adapter /\ u.af = t.af
      /\ u.eq = t.eq /\ u.loop = t.loop /\ u.lf = t.lf
  BY <1>2, <1>3, ZenonT(60) DEF Tasks
<1>5. Sent(u) = Append(Sent(t), h)
  <2> DEFINE p == Slot(t.loop = "write", t.lf) \o t.eq
  <2>1. p \in Frames
    BY SessionTypes, ConcatType
  <2>2. /\ Slot(u.encoder = "send", u.ef) = <<h>> /\ Slot(t.encoder = "send", t.ef) = <<>>
        /\ Slot(u.loop = "write", u.lf) = Slot(t.loop = "write", t.lf)
    BY <1>4 DEF Slot
  <2>3. Sent(u) = p \o <<h>> /\ Sent(t) = p \o <<>>
    BY <1>4, <2>2 DEF Sent
  <2> HIDE DEF p
  <2>. QED
    BY <1>2, <2>1, <2>3, ConcatEmpty, ConcatOne
<1>6. GapInv(u, c)
  <2>1. Begins(Fed(c), e) /\ (c.main # "over" => Begins(Arrived(c), e))
    BY <1>1, <1>2, SessionTypes, BeginsMore DEF GapInv
  <2>2. ASSUME t.encoded = Arrived(c) \o Sent(t)
        PROVE  e = Arrived(c) \o Sent(u)
    <3>1. /\ Arrived(c) \in Frames /\ Sent(t) \in Frames /\ <<h>> \in Frames
          /\ Append(Sent(t), h) = Sent(t) \o <<h>> /\ e = t.encoded \o <<h>>
      BY <1>1, <1>2, SessionTypes, QueueTypes, ConcatOne
    <3>2. (Arrived(c) \o Sent(t)) \o <<h>> = Arrived(c) \o (Sent(t) \o <<h>>)
      <4>1. PICK a \in Frames : a = Arrived(c)
        BY <3>1
      <4>2. PICK b \in Frames : b = Sent(t)
        BY <3>1
      <4>3. PICK k \in Frames : k = <<h>>
        BY <3>1
      <4>4. (a \o b) \o k = a \o (b \o k)
        BY ConcatAssoc, ZenonT(60)
      <4>. QED
        BY <4>1, <4>2, <4>3, <4>4, Zenon
    <3>. QED
      BY <1>5, <2>2, <3>1, <3>2
  <2>. QED
    BY <1>1, <1>4, <2>1, <2>2 DEF GapInv
<1>7. \A x : AtServer(u, x) = AtServer(t, x)
  <2>1. LastOr(q, h) = LastOr(t.aq, h)
    BY <1>1, <1>2, LastMoves
  <2>2. \A x : LastOr(t.aq, x) = LastOr(t.aq, h) /\ LastOr(<<h>>, x) = h
    BY <1>1, <1>2, LastMoves
  <2>3. /\ Slot(u.encoder = "send", u.ef) = <<h>> /\ Slot(t.encoder = "send", t.ef) = <<>>
        /\ Slot(u.adapter = "send", u.af) = Slot(t.adapter = "send", t.af)
    BY <1>4 DEF Slot
  <2>4. \A y : InEncoder(u, y) = LastOr(t.aq, h)
    BY <1>4, <2>1, <2>2, <2>3 DEF InEncoder
  <2>5. \A y : InEncoder(t, y) = LastOr(t.aq, h)
    BY <2>2 DEF InEncoder
  <2>. QED
    BY <2>3, <2>4, <2>5 DEF AtServer
<1>8. Alive(u, c) => Alive(t, c)
  BY <1>4 DEF Alive
<1>. QED
  BY <1>4, <1>6, <1>7, <1>8 DEF KeepsTask

(* A task that encodes nothing keeps the frames in their order, or its loop   *)
(* has ended.                                                                 *)
LEMMA SameOrder ==
  ASSUME NEW t, NEW c, NEW u, GapInv(t, c), u.begun = TRUE, u.encoded = t.encoded,
         \/ u.loop \in {"wait", "over"}
         \/ u.loop \in {"recv", "write"} /\ t.loop \in {"recv", "write"} /\ Sent(u) = Sent(t)
         \/ u.loop = t.loop /\ Sent(u) = Sent(t)
  PROVE  GapInv(u, c)
BY DEF GapInv

LEMMA AdapterGivesKeeps ==
  ASSUME NEW t \in Tasks, NEW c \in Clients, GapInv(t, c), t.adapter = "send",
         NEW u, u = IF t.encoder = "done" THEN [t EXCEPT !.adapter = "done", !.af = None]
                    ELSE [t EXCEPT !.adapter = "recv", !.af = None, !.aq = Append(@, t.af)]
  PROVE  KeepsTask(t, u, c)
<1>1. t.begun = TRUE /\ t.aq \in Frames /\ t.af \in Nat /\ None \in Nat
  BY BegunBy DEF Tasks, None
<1>2. PICK q \in Frames : q = Append(t.aq, t.af)
  BY <1>1, QueueTypes
<1>3. u = IF t.encoder = "done" THEN [t EXCEPT !.adapter = "done", !.af = None]
          ELSE [t EXCEPT !.adapter = "recv", !.af = None, !.aq = q]
  BY <1>2
<1>4. /\ u \in Tasks /\ u.begun = t.begun /\ u.since = t.since /\ u.encoded = t.encoded
      /\ u.encoder = t.encoder /\ u.ef = t.ef /\ u.eq = t.eq /\ u.loop = t.loop /\ u.lf = t.lf
      /\ u.encoder # "done" => u.aq = q /\ u.adapter = "recv"
  <2>1. CASE t.encoder = "done"
    <3>1. u = [t EXCEPT !.adapter = "done", !.af = None]
      BY <1>3, <2>1
    <3>. QED
      BY <1>1, <2>1, <3>1, ZenonT(60) DEF Tasks
  <2>2. CASE t.encoder # "done"
    <3>1. u = [t EXCEPT !.adapter = "recv", !.af = None, !.aq = q]
      BY <1>3, <2>2
    <3>. QED
      BY <1>1, <2>2, <3>1, ZenonT(60) DEF Tasks
  <2>. QED
    BY <2>1, <2>2
<1>5. GapInv(u, c)
  BY <1>1, <1>4, SameOrder DEF Sent
<1>6. ASSUME u.encoder # "done", NEW x PROVE AtServer(u, x) = AtServer(t, x)
  <2>1. \A y : LastOr(q, y) = t.af /\ LastOr(<<t.af>>, y) = t.af /\ LastOr(<<>>, y) = y
    BY <1>1, <1>2, LastMoves
  <2>2. /\ Slot(u.adapter = "send", u.af) = <<>> /\ Slot(t.adapter = "send", t.af) = <<t.af>>
        /\ Slot(u.encoder = "send", u.ef) = Slot(t.encoder = "send", t.ef)
        /\ Slot(u.loop = "write", u.lf) = Slot(t.loop = "write", t.lf)
    BY <1>4, <1>6 DEF Slot
  <2>3. \A y : AtServer(t, y) = t.af
    BY <2>1, <2>2 DEF AtServer
  <2>4. \A y : InEncoder(u, y) = t.af
    BY <1>4, <1>6, <2>1, ZenonT(60) DEF InEncoder
  <2>5. AtServer(u, x) = t.af
    BY <2>1, <2>2, <2>4 DEF AtServer
  <2>. QED
    BY <2>3, <2>5
<1>7. Alive(u, c) => Alive(t, c) /\ u.encoder # "done"
  BY <1>4 DEF Alive
<1>. QED
  BY <1>4, <1>5, <1>6, <1>7 DEF KeepsTask

LEMMA AdapterStopsKeeps ==
  ASSUME NEW t \in Tasks, NEW c \in Clients, GapInv(t, c), t.adapter = "recv",
         NEW u, u = [t EXCEPT !.adapter = "done"]
  PROVE  KeepsTask(t, u, c)
<1>1. t.begun = TRUE
  BY BegunBy
<1>2. /\ u \in Tasks /\ u.begun = t.begun /\ u.encoded = t.encoded /\ u.adapter = "done"
      /\ u.encoder = t.encoder /\ u.ef = t.ef /\ u.eq = t.eq /\ u.loop = t.loop /\ u.lf = t.lf
  BY DEF Tasks
<1>3. GapInv(u, c)
  BY <1>1, <1>2, SameOrder DEF Sent
<1>. QED
  BY <1>2, <1>3 DEF KeepsTask, Alive

LEMMA EncoderStopsKeeps ==
  ASSUME NEW t \in Tasks, NEW c \in Clients, GapInv(t, c), t.encoder = "recv",
         NEW u, u = [t EXCEPT !.encoder = "done", !.aq = <<>>]
  PROVE  KeepsTask(t, u, c)
<1>1. t.begun = TRUE /\ <<>> \in Frames
  BY BegunBy, QueueTypes, SessionTypes
<1>2. /\ u \in Tasks /\ u.begun = t.begun /\ u.encoded = t.encoded
      /\ u.encoder = "done" /\ u.eq = t.eq /\ u.loop = t.loop /\ u.lf = t.lf
  BY <1>1 DEF Tasks
<1>3. Slot(u.encoder = "send", u.ef) = Slot(t.encoder = "send", t.ef)
  BY <1>2 DEF Slot
<1>4. GapInv(u, c)
  BY <1>1, <1>2, <1>3, SameOrder DEF Sent
<1>. QED
  BY <1>2, <1>4 DEF KeepsTask, Alive

LEMMA EncoderGivesKeeps ==
  ASSUME NEW t \in Tasks, NEW c \in Clients, GapInv(t, c), t.encoder = "send",
         NEW u, u = [t EXCEPT !.encoder = "recv", !.ef = None, !.eq = Append(@, t.ef)]
  PROVE  KeepsTask(t, u, c)
<1>1. t.begun = TRUE /\ t.eq \in Frames /\ t.ef \in Nat /\ None \in Nat
  BY BegunBy DEF Tasks, None
<1>2. PICK q \in Frames : q = Append(t.eq, t.ef)
  BY <1>1, QueueTypes
<1>3. u = [t EXCEPT !.encoder = "recv", !.ef = None, !.eq = q]
  BY <1>2
<1>4. /\ u \in Tasks /\ u.begun = t.begun /\ u.since = t.since /\ u.encoded = t.encoded
      /\ u.adapter = t.adapter /\ u.af = t.af /\ u.aq = t.aq
      /\ u.encoder = "recv" /\ u.eq = q /\ u.loop = t.loop /\ u.lf = t.lf
  BY <1>1, <1>3, ZenonT(60) DEF Tasks
<1>5. Sent(u) = Sent(t)
  <2>1. PICK p \in Frames : p = Slot(t.loop = "write", t.lf)
    BY SessionTypes
  <2>2. /\ Slot(u.loop = "write", u.lf) = p
        /\ Slot(u.encoder = "send", u.ef) = <<>> /\ Slot(t.encoder = "send", t.ef) = <<t.ef>>
    BY <1>4, <2>1 DEF Slot
  <2>3. Sent(u) = (p \o q) \o <<>> /\ Sent(t) = (p \o t.eq) \o <<t.ef>>
    BY <1>4, <2>1, <2>2 DEF Sent
  <2>4. <<t.ef>> \in Frames /\ q = t.eq \o <<t.ef>>
    BY <1>1, <1>2, QueueTypes, ConcatOne
  <2>5. (p \o t.eq) \o <<t.ef>> = p \o (t.eq \o <<t.ef>>)
    <3>1. t.eq \in Frames /\ <<t.ef>> \in Frames
      BY <1>1, <2>4
    <3>. QED
      BY <3>1, ConcatAssoc, Zenon
  <2>6. (p \o q) \o <<>> = p \o q
    BY <1>2, <2>1, ConcatType, ConcatEmpty
  <2>. QED
    BY <2>3, <2>4, <2>5, <2>6
<1>6. GapInv(u, c)
  BY <1>1, <1>4, <1>5, SameOrder
<1>7. \A x : AtServer(u, x) = AtServer(t, x)
  <2>1. \A y : LastOr(q, y) = t.ef /\ LastOr(<<t.ef>>, y) = t.ef /\ LastOr(<<>>, y) = y
    BY <1>1, <1>2, LastMoves
  <2>2. /\ Slot(u.encoder = "send", u.ef) = <<>> /\ Slot(t.encoder = "send", t.ef) = <<t.ef>>
        /\ Slot(u.adapter = "send", u.af) = Slot(t.adapter = "send", t.af)
    BY <1>4 DEF Slot
  <2>3. \A y : InEncoder(t, y) = LastOr(t.aq, t.ef)
    BY <2>1, <2>2 DEF InEncoder
  <2>4. \A x : InLoop(u, x) = t.ef
    BY <1>4, <2>1 DEF InLoop
  <2>5. \A y : InEncoder(u, y) = LastOr(t.aq, y)
    BY <1>4, <2>1, <2>2 DEF InEncoder
  <2>6. \A x : InEncoder(u, InLoop(u, x)) = InEncoder(t, InLoop(t, x))
    BY <2>3, <2>4, <2>5
  <2>. QED
    BY <2>2, <2>6 DEF AtServer
<1>8. Alive(u, c) => Alive(t, c)
  BY <1>4 DEF Alive
<1>. QED
  BY <1>4, <1>6, <1>7, <1>8 DEF KeepsTask

LEMMA LoopTakesKeeps ==
  ASSUME NEW t \in Tasks, NEW c \in Clients, GapInv(t, c), t.loop = "recv", t.eq # <<>>,
         NEW u, u = [t EXCEPT !.loop = "write", !.lf = Head(t.eq), !.eq = Tail(@)]
  PROVE  KeepsTask(t, u, c)
<1>1. t.begun = TRUE /\ t.eq \in Frames
  BY BegunBy, SessionTypes
<1>2. PICK h \in Nat, q \in Frames : h = Head(t.eq) /\ q = Tail(t.eq)
  BY <1>1, QueueTypes
<1>3. u = [t EXCEPT !.loop = "write", !.lf = h, !.eq = q]
  BY <1>2
<1>4. /\ u \in Tasks /\ u.begun = t.begun /\ u.since = t.since /\ u.encoded = t.encoded
      /\ u.adapter = t.adapter /\ u.af = t.af /\ u.aq = t.aq
      /\ u.encoder = t.encoder /\ u.ef = t.ef /\ u.eq = q /\ u.loop = "write" /\ u.lf = h
  BY <1>2, <1>3 DEF Tasks
<1>5. Sent(u) = Sent(t)
  <2>1. /\ Slot(u.loop = "write", u.lf) = <<h>> /\ Slot(t.loop = "write", t.lf) = <<>>
        /\ Slot(u.encoder = "send", u.ef) = Slot(t.encoder = "send", t.ef)
    BY <1>4 DEF Slot
  <2>2. <<h>> \o q = t.eq /\ <<>> \o t.eq = t.eq
    BY <1>1, <1>2, HeadFirst, ConcatEmpty
  <2>3. PICK e \in Frames : e = Slot(t.encoder = "send", t.ef)
    BY SessionTypes
  <2>4. Sent(u) = (<<h>> \o q) \o e /\ Sent(t) = (<<>> \o t.eq) \o e
    BY <1>4, <2>1, <2>3 DEF Sent
  <2>. QED
    BY <2>2, <2>4
<1>6. GapInv(u, c)
  BY <1>1, <1>4, <1>5, SameOrder
<1>7. \A x : AtServer(u, x) = AtServer(t, x)
  <2>1. /\ LastOr(q, h) = LastOr(t.eq, h) /\ \A x : LastOr(t.eq, x) = LastOr(t.eq, h)
        /\ \A x : LastOr(<<h>>, x) = h /\ LastOr(<<>>, x) = x
    BY <1>1, <1>2, LastMoves
  <2>2. /\ Slot(u.loop = "write", u.lf) = <<h>> /\ Slot(t.loop = "write", t.lf) = <<>>
        /\ Slot(u.adapter = "send", u.af) = Slot(t.adapter = "send", t.af)
        /\ Slot(u.encoder = "send", u.ef) = Slot(t.encoder = "send", t.ef)
    BY <1>4 DEF Slot
  <2>3. \A x : InLoop(u, x) = LastOr(t.eq, h)
    BY <1>4, <2>1, <2>2, ZenonT(60) DEF InLoop
  <2>4. \A x : InLoop(t, x) = LastOr(t.eq, h)
    BY <2>1 DEF InLoop
  <2>5. \A y : InEncoder(u, y) = InEncoder(t, y)
    BY <1>4, <2>2 DEF InEncoder
  <2>6. \A x : InEncoder(u, InLoop(u, x)) = InEncoder(t, InLoop(t, x))
    BY <2>3, <2>4, <2>5
  <2>. QED
    BY <2>2, <2>6 DEF AtServer
<1>8. Alive(u, c) => Alive(t, c)
  BY <1>4 DEF Alive
<1>. QED
  BY <1>4, <1>6, <1>7, <1>8 DEF KeepsTask

LEMMA LoopEndsKeeps ==
  ASSUME NEW t \in Tasks, NEW c \in Clients, GapInv(t, c), t.loop \in {"recv", "write", "wait"},
         NEW u, \/ u = [t EXCEPT !.loop = "wait", !.lf = None, !.token = TRUE]
                \/ u = [t EXCEPT !.loop = "over", !.eq = <<>>]
  PROVE  KeepsTask(t, u, c)
<1>1. t.begun = TRUE /\ <<>> \in Frames /\ None \in Nat
  BY BegunBy, QueueTypes, SessionTypes DEF None
<1>2. /\ u \in Tasks /\ u.begun = t.begun /\ u.encoded = t.encoded /\ u.loop \in {"wait", "over"}
  BY <1>1, ZenonT(60) DEF Tasks
<1>3. GapInv(u, c)
  BY <1>1, <1>2, SameOrder
<1>. QED
  BY <1>2, <1>3 DEF KeepsTask, Alive

-----------------------------------------------------------------------------
(* The client. *)

(* A client goes from c to d: what it has is still the beginning of what was  *)
(* encoded, and it loses no frame but those it says.                          *)
KeepsClient(t, c, d) ==
  /\ d \in Clients /\ GapInv(t, d) /\ c.lost \subseteq d.lost
  /\ Alive(t, d) => Alive(t, c) /\ (AtClient(d) = AtClient(c) \/ AtClient(c) \in d.lost)

(* What is behind the decoder has no part in the order of the frames. *)
LEMMA SameFed ==
  ASSUME NEW t, NEW c, NEW d, GapInv(t, c), Fed(d) = Fed(c),
         d.main = "over" \/ (d.main = c.main /\ d.mf = c.mf /\ d.rq = c.rq)
  PROVE  GapInv(t, d)
BY DEF GapInv, Arrived

LEMMA MainTakesKeeps ==
  ASSUME NEW t \in Tasks, NEW c \in Clients, GapInv(t, c), c.main = "run", c.rq # <<>>,
         NEW d, d = [c EXCEPT !.main = "feed", !.mf = Head(c.rq), !.rq = Tail(@)]
  PROVE  KeepsClient(t, c, d)
<1>1. c.rq \in Frames /\ Fed(c) \in Frames
  BY SessionTypes
<1>2. PICK h \in Nat, q \in Frames : h = Head(c.rq) /\ q = Tail(c.rq)
  BY <1>1, QueueTypes
<1>3. d = [c EXCEPT !.main = "feed", !.mf = h, !.rq = q]
  BY <1>2
<1>4. /\ d \in Clients /\ d.main = "feed" /\ d.mf = h /\ d.rq = q /\ d.dq = c.dq
      /\ d.decoder = c.decoder /\ d.df = c.df /\ d.fed = c.fed /\ d.oq = c.oq /\ d.sq = c.sq
      /\ d.shown = c.shown /\ d.lost = c.lost
  BY <1>2, <1>3 DEF Clients
<1>5. Slot(d.main = "feed", d.mf) = <<h>> /\ Slot(c.main = "feed", c.mf) = <<>>
  BY <1>4 DEF Slot
<1>6. Arrived(d) = Arrived(c) /\ Fed(d) = Fed(c)
  <2>1. Fed(d) = Fed(c)
    BY <1>4 DEF Fed
  <2>2. Arrived(d) = (Fed(c) \o <<h>>) \o q /\ Arrived(c) = (Fed(c) \o <<>>) \o c.rq
    BY <1>4, <1>5, <2>1 DEF Arrived
  <2>3. /\ Fed(c) \o <<h>> = Append(Fed(c), h) /\ Fed(c) \o <<>> = Fed(c)
        /\ Append(Fed(c), h) \o q = Fed(c) \o c.rq
    BY <1>1, <1>2, ConcatOne, ConcatEmpty, MoveHead
  <2>. QED
    BY <2>1, <2>2, <2>3
<1>7. GapInv(t, d)
  BY <1>4, <1>6 DEF GapInv
<1>8. AtClient(d) = AtClient(c)
  <2>1. /\ LastOr(q, h) = LastOr(c.rq, h) /\ \A x : LastOr(c.rq, x) = LastOr(c.rq, h)
        /\ \A x : LastOr(<<h>>, x) = h /\ LastOr(<<>>, x) = x
    BY <1>1, <1>2, LastMoves
  <2>2. \A x : InMain(d, x) = LastOr(c.rq, h)
    BY <1>4, <1>5, <2>1 DEF InMain
  <2>3. \A x : InMain(c, x) = LastOr(c.rq, h)
    BY <2>1 DEF InMain
  <2>. QED
    BY <2>2, <2>3 DEF AtClient
<1>9. Alive(t, d) => Alive(t, c)
  BY <1>4 DEF Alive
<1>. QED
  BY <1>4, <1>7, <1>8, <1>9 DEF KeepsClient

LEMMA MainFeedsKeeps ==
  ASSUME NEW t \in Tasks, NEW c \in Clients, GapInv(t, c), c.main = "feed",
         NEW d, d = [c EXCEPT !.main = "run", !.mf = None, !.dq = Append(@, c.mf)]
  PROVE  KeepsClient(t, c, d)
<1>1. /\ c.rq \in Frames /\ c.dq \in Frames /\ c.fed \in Frames /\ Fed(c) \in Frames
      /\ c.mf \in Nat /\ None \in Nat
  BY SessionTypes DEF Clients, None
<1>2. PICK q \in Frames : q = Append(c.dq, c.mf)
  BY <1>1, QueueTypes
<1>3. d = [c EXCEPT !.main = "run", !.mf = None, !.dq = q]
  BY <1>2
<1>4. /\ d \in Clients /\ d.main = "run" /\ d.rq = c.rq /\ d.dq = q
      /\ d.decoder = c.decoder /\ d.df = c.df /\ d.fed = c.fed /\ d.oq = c.oq /\ d.sq = c.sq
      /\ d.shown = c.shown /\ d.lost = c.lost
  BY <1>1, <1>3 DEF Clients
<1>5. Slot(d.main = "feed", d.mf) = <<>> /\ Slot(c.main = "feed", c.mf) = <<c.mf>>
  BY <1>4 DEF Slot
<1>6. Fed(d) = Fed(c) \o <<c.mf>>
  <2>1. <<c.mf>> \in Frames /\ q = c.dq \o <<c.mf>>
    BY <1>1, <1>2, QueueTypes, ConcatOne
  <2>2. (c.fed \o c.dq) \o <<c.mf>> = c.fed \o (c.dq \o <<c.mf>>)
    <3>1. c.fed \in Frames /\ c.dq \in Frames /\ <<c.mf>> \in Frames
      BY <1>1, <2>1
    <3>. QED
      BY <3>1, ConcatAssoc, ZenonT(60)
  <2>. QED
    BY <1>4, <2>1, <2>2 DEF Fed
<1>7. Arrived(d) = Arrived(c)
  <2>1. Fed(d) \in Frames
    BY <1>4, SessionTypes
  <2>2. Fed(d) \o <<>> = Fed(d)
    BY <2>1, ConcatEmpty
  <2>. QED
    BY <1>4, <1>5, <1>6, <2>2 DEF Arrived
<1>8. GapInv(t, d)
  <2>1. Begins(Arrived(c), t.encoded)
    BY DEF GapInv
  <2>2. Arrived(c) = Fed(d) \o c.rq
    BY <1>5, <1>6 DEF Arrived
  <2>3. Begins(Fed(d), t.encoded)
    BY <1>1, <1>4, <2>1, <2>2, SessionTypes, BeginsLess
  <2>. QED
    BY <1>4, <1>7, <2>3 DEF GapInv
<1>9. AtClient(d) = AtClient(c)
  <2>1. \A x : LastOr(q, x) = c.mf /\ LastOr(<<c.mf>>, x) = c.mf /\ LastOr(<<>>, x) = x
    BY <1>1, <1>2, LastMoves
  <2>2. \A x : InDecoder(d, x) = c.mf
    BY <1>4, <2>1 DEF InDecoder
  <2>3. \A x : InMain(d, x) = LastOr(c.rq, x)
    BY <1>4, <1>5, <2>1 DEF InMain
  <2>4. \A x : InMain(c, x) = LastOr(c.rq, c.mf)
    BY <1>5, <2>1 DEF InMain
  <2>. QED
    BY <2>2, <2>3, <2>4 DEF AtClient
<1>10. Alive(t, d) => Alive(t, c)
  BY <1>4 DEF Alive
<1>. QED
  BY <1>4, <1>8, <1>9, <1>10 DEF KeepsClient

(* The client's main loop ends. *)
LEMMA ClientEndsKeeps ==
  ASSUME NEW t \in Tasks, NEW c \in Clients, GapInv(t, c),
         NEW d, d = [c EXCEPT !.main = "over", !.mf = None, !.rq = <<>>, !.sq = <<>>]
  PROVE  KeepsClient(t, c, d)
<1>1. <<>> \in Frames /\ None \in Nat
  BY SessionTypes, QueueTypes DEF None
<1>2. /\ d \in Clients /\ d.main = "over" /\ d.dq = c.dq /\ d.fed = c.fed /\ d.lost = c.lost
  BY <1>1 DEF Clients
<1>3. GapInv(t, d)
  BY <1>2, SameFed DEF Fed
<1>. QED
  BY <1>2, <1>3 DEF KeepsClient, Alive

(* A frame passes to the window or is lost to it. *)
LEMMA MainShowsKeeps ==
  ASSUME NEW t \in Tasks, NEW c \in Clients, GapInv(t, c), c.oq # <<>>,
         NEW d, d = IF Full(c.sq) THEN [c EXCEPT !.oq = Tail(@), !.lost = @ \cup {Head(c.oq)}]
                    ELSE [c EXCEPT !.oq = Tail(@), !.sq = Append(@, Head(c.oq))]
  PROVE  KeepsClient(t, c, d)
<1>1. c.oq \in Frames /\ c.sq \in Frames
  BY DEF Clients
<1>2. PICK h \in Nat, q \in Frames, a \in Frames :
         h = Head(c.oq) /\ q = Tail(c.oq) /\ a = Append(c.sq, h)
  BY <1>1, QueueTypes
<1>3. PICK l \in SUBSET Nat : l = c.lost \cup {h}
  BY <1>2 DEF Clients
<1>4. d = [c EXCEPT !.oq = q, !.lost = l] \/ d = [c EXCEPT !.oq = q, !.sq = a]
  BY <1>2, <1>3
<1>5. /\ d \in Clients /\ d.main = c.main /\ d.mf = c.mf /\ d.rq = c.rq /\ d.dq = c.dq
      /\ d.decoder = c.decoder /\ d.df = c.df /\ d.fed = c.fed /\ d.oq = q /\ d.shown = c.shown
      /\ \/ d.lost = c.lost \cup {h} /\ d.sq = c.sq
         \/ d.lost = c.lost /\ d.sq = a
  <2>1. CASE d = [c EXCEPT !.oq = q, !.lost = l]
    BY <1>2, <1>3, <2>1 DEF Clients
  <2>2. CASE d = [c EXCEPT !.oq = q, !.sq = a]
    BY <1>2, <2>2 DEF Clients
  <2>. QED
    BY <1>4, <2>1, <2>2
<1>6. GapInv(t, d)
  BY <1>5, SameFed DEF Fed
<1>7. InWindow(d) = InWindow(c) \/ (InWindow(c) \in d.lost)
  <2>1. /\ LastOr(q, h) = LastOr(c.oq, h) /\ \A x : LastOr(c.oq, x) = LastOr(c.oq, h)
        /\ \A x : LastOr(a, x) = h
    <3>1. LastOr(q, h) = LastOr(c.oq, h) /\ \A x : LastOr(c.oq, x) = LastOr(c.oq, h)
      BY <1>1, <1>2, LastMoves
    <3>2. \A x : LastOr(a, x) = h
      BY <1>1, <1>2, LastAppended
    <3>. QED
      BY <3>1, <3>2
  <2>2. CASE d.lost = c.lost /\ d.sq = a
    BY <1>5, <2>1, <2>2 DEF InWindow
  <2>3. CASE d.lost = c.lost \cup {h} /\ q = <<>>
    BY <2>1, <2>3 DEF InWindow, LastOr
  <2>4. CASE q # <<>>
    BY <1>5, <2>1, <2>4 DEF InWindow, LastOr
  <2>. QED
    BY <1>5, <2>2, <2>3, <2>4
<1>8. AtClient(d) = AtClient(c) \/ AtClient(c) \in d.lost
  <2>1. \A x : InDecoder(d, x) = InDecoder(c, x) /\ InMain(d, x) = InMain(c, x)
    BY <1>5 DEF InDecoder, InMain
  <2>2. \/ AtClient(c) = InWindow(c)
        \/ \A x, y : InMain(c, InDecoder(c, x)) = InMain(c, InDecoder(c, y))
    BY DEF AtClient, InMain, InDecoder, LastOr
  <2>. QED
    BY <1>7, <2>1, <2>2 DEF AtClient
<1>9. Alive(t, d) => Alive(t, c)
  BY <1>5 DEF Alive
<1>. QED
  BY <1>5, <1>6, <1>8, <1>9 DEF KeepsClient

LEMMA DrawKeeps ==
  ASSUME NEW t \in Tasks, NEW c \in Clients, GapInv(t, c), c.sq # <<>>,
         NEW d, d = [c EXCEPT !.shown = Last(c.sq), !.sq = <<>>]
  PROVE  KeepsClient(t, c, d)
<1>1. c.sq \in Frames /\ Last(c.sq) \in Nat /\ <<>> \in Frames
  BY QueueTypes DEF Clients
<1>2. /\ d \in Clients /\ d.main = c.main /\ d.mf = c.mf /\ d.rq = c.rq /\ d.dq = c.dq
      /\ d.decoder = c.decoder /\ d.df = c.df /\ d.fed = c.fed /\ d.oq = c.oq
      /\ d.sq = <<>> /\ d.shown = Last(c.sq) /\ d.lost = c.lost
  BY <1>1 DEF Clients
<1>3. GapInv(t, d)
  BY <1>2, SameFed DEF Fed
<1>4. InWindow(d) = InWindow(c)
  BY <1>2 DEF InWindow, LastOr
<1>5. \A x : InDecoder(d, x) = InDecoder(c, x) /\ InMain(d, x) = InMain(c, x)
  BY <1>2 DEF InDecoder, InMain
<1>6. Alive(t, d) => Alive(t, c)
  BY <1>2 DEF Alive
<1>. QED
  BY <1>2, <1>3, <1>4, <1>5, <1>6 DEF KeepsClient, AtClient

LEMMA DecoderTakesKeeps ==
  ASSUME NEW t \in Tasks, NEW c \in Clients, GapInv(t, c), c.decoder = "recv", c.dq # <<>>,
         NEW d, d = [c EXCEPT !.decoder = "busy", !.df = Head(c.dq), !.dq = Tail(@),
                              !.fed = Append(@, Head(c.dq))]
  PROVE  KeepsClient(t, c, d)
<1>1. c.dq \in Frames /\ c.fed \in Frames
  BY SessionTypes
<1>2. PICK h \in Nat, q \in Frames, a \in Frames :
         h = Head(c.dq) /\ q = Tail(c.dq) /\ a = Append(c.fed, h)
  BY <1>1, QueueTypes
<1>3. d = [c EXCEPT !.decoder = "busy", !.df = h, !.dq = q, !.fed = a]
  BY <1>2
<1>4. /\ d \in Clients /\ d.main = c.main /\ d.mf = c.mf /\ d.rq = c.rq /\ d.dq = q
      /\ d.decoder = "busy" /\ d.df = h /\ d.fed = a /\ d.oq = c.oq /\ d.sq = c.sq
      /\ d.shown = c.shown /\ d.lost = c.lost
  BY <1>2, <1>3, ZenonT(60) DEF Clients
<1>5. Fed(d) = Fed(c)
  <2>1. Append(c.fed, Head(c.dq)) \o Tail(c.dq) = c.fed \o c.dq
    BY <1>1, MoveHead
  <2>2. a \o q = c.fed \o c.dq
    BY <1>2, <2>1
  <2>. QED
    BY <1>4, <2>2 DEF Fed
<1>6. GapInv(t, d)
  BY <1>4, <1>5, SameFed
<1>7. AtClient(d) = AtClient(c)
  <2>1. /\ LastOr(q, h) = LastOr(c.dq, h) /\ \A x : LastOr(c.dq, x) = LastOr(c.dq, h)
        /\ \A x : LastOr(<<h>>, x) = h /\ LastOr(<<>>, x) = x
    BY <1>1, <1>2, LastMoves
  <2>2. /\ Slot(d.decoder = "busy", d.df) = <<h>>
        /\ Slot(d.main = "feed", d.mf) = Slot(c.main = "feed", c.mf)
    BY <1>4 DEF Slot
  <2>3. \A x : InDecoder(d, x) = LastOr(c.dq, h)
    BY <1>4, <2>1, <2>2 DEF InDecoder
  <2>4. \A x : InDecoder(c, x) = LastOr(c.dq, h)
    BY <2>1 DEF InDecoder
  <2>5. \A x : InMain(d, x) = InMain(c, x)
    BY <1>4, <2>2 DEF InMain
  <2>. QED
    BY <2>3, <2>4, <2>5 DEF AtClient
<1>8. Alive(t, d) => Alive(t, c)
  BY <1>4 DEF Alive
<1>. QED
  BY <1>4, <1>6, <1>7, <1>8 DEF KeepsClient

(* The decoder gives a frame, or loses it. *)
LEMMA DecoderGivesKeeps ==
  ASSUME NEW t \in Tasks, NEW c \in Clients, GapInv(t, c), c.decoder = "busy",
         NEW d, \/ d = [c EXCEPT !.decoder = "recv", !.df = None, !.lost = @ \cup {c.df}]
                \/ d = [c EXCEPT !.decoder = "recv", !.df = None, !.oq = Append(@, c.df)]
  PROVE  KeepsClient(t, c, d)
<1>1. c.oq \in Frames /\ c.df \in Nat /\ None \in Nat
  BY DEF Clients, None
<1>2. PICK a \in Frames : a = Append(c.oq, c.df)
  BY <1>1, QueueTypes
<1>3. PICK l \in SUBSET Nat : l = c.lost \cup {c.df}
  BY DEF Clients
<1>4. \/ d = [c EXCEPT !.decoder = "recv", !.df = None, !.lost = l]
      \/ d = [c EXCEPT !.decoder = "recv", !.df = None, !.oq = a]
  BY <1>2, <1>3
<1>5. /\ d \in Clients /\ d.main = c.main /\ d.mf = c.mf /\ d.rq = c.rq /\ d.dq = c.dq
      /\ d.decoder = "recv" /\ d.fed = c.fed /\ d.sq = c.sq /\ d.shown = c.shown
      /\ \/ d.lost = c.lost \cup {c.df} /\ d.oq = c.oq
         \/ d.lost = c.lost /\ d.oq = a
  <2>1. CASE d = [c EXCEPT !.decoder = "recv", !.df = None, !.lost = l]
    BY <1>1, <1>3, <2>1 DEF Clients
  <2>2. CASE d = [c EXCEPT !.decoder = "recv", !.df = None, !.oq = a]
    BY <1>1, <1>2, <2>2 DEF Clients
  <2>. QED
    BY <1>4, <2>1, <2>2
<1>6. GapInv(t, d)
  BY <1>5, SameFed DEF Fed
<1>7. Slot(d.decoder = "busy", d.df) = <<>> /\ Slot(c.decoder = "busy", c.df) = <<c.df>>
  BY <1>5 DEF Slot
<1>8. AtClient(d) = AtClient(c) \/ AtClient(c) \in d.lost
  <2>1. \A x : /\ LastOr(a, x) = c.df /\ LastOr(<<c.df>>, x) = c.df
               /\ LastOr(<<>>, x) = x
    BY <1>1, <1>2, LastMoves
  <2>2. \A x : InDecoder(d, x) = LastOr(c.dq, x) /\ InDecoder(c, x) = LastOr(c.dq, c.df)
    BY <1>5, <1>7, <2>1 DEF InDecoder
  <2>3. \A x : InMain(d, x) = InMain(c, x)
    BY <1>5 DEF InMain
  <2>4. CASE d.oq = a
    <3>1. InWindow(d) = c.df
      BY <2>1, <2>4 DEF InWindow
    <3>. QED
      BY <2>2, <2>3, <3>1 DEF AtClient
  <2>5. CASE d.lost = c.lost \cup {c.df}
    <3>1. c.df \in d.lost
      BY <2>5
    <3>2. CASE c.dq = <<>> /\ c.rq = <<>> /\ Slot(c.main = "feed", c.mf) = <<>>
      <4>1. InDecoder(c, InWindow(c)) = c.df
        BY <2>2, <3>2 DEF LastOr
      <4>2. AtClient(c) = c.df
        BY <3>2, <4>1 DEF AtClient, InMain, LastOr
      <4>. QED
        BY <3>1, <4>2
    <3>3. CASE c.dq # <<>>
      <4>1. \A x, y : InDecoder(d, x) = InDecoder(c, y)
        BY <2>2, <3>3 DEF LastOr
      <4>. QED
        BY <2>3, <4>1 DEF AtClient
    <3>4. CASE c.rq # <<>> \/ Slot(c.main = "feed", c.mf) # <<>>
      <4>1. \A x, y : InMain(c, x) = InMain(c, y)
        BY <3>4 DEF InMain, LastOr
      <4>. QED
        BY <2>3, <4>1 DEF AtClient
    <3>. QED
      BY <3>2, <3>3, <3>4
  <2>. QED
    BY <1>5, <2>4, <2>5
<1>9. Alive(t, d) => Alive(t, c)
  BY <1>5 DEF Alive
<1>. QED
  BY <1>5, <1>6, <1>8, <1>9 DEF KeepsClient

(* The decoder hangs or stops. *)
LEMMA DecoderEndsKeeps ==
  ASSUME NEW t \in Tasks, NEW c \in Clients, GapInv(t, c),
         NEW d, \/ d = [c EXCEPT !.decoder = "hung"]
                \/ d = [c EXCEPT !.decoder = "done", !.oq = <<>>]
  PROVE  KeepsClient(t, c, d)
<1>1. <<>> \in Frames
  BY SessionTypes, QueueTypes
<1>2. /\ d \in Clients /\ d.main = c.main /\ d.mf = c.mf /\ d.rq = c.rq /\ d.dq = c.dq
      /\ d.fed = c.fed /\ d.lost = c.lost /\ d.decoder \in {"hung", "done"}
  BY <1>1 DEF Clients
<1>3. GapInv(t, d)
  BY <1>2, SameFed DEF Fed
<1>. QED
  BY <1>2, <1>3 DEF KeepsClient, Alive


-----------------------------------------------------------------------------
(* One session and its parts of the variables. *)

(* The next state of a session, and that of every variable that others have   *)
(* a part of.                                                                 *)
Becomes(s, b, u, d) ==
  /\ bcast'[s] = b /\ srv'[s] = u /\ cli'[s] = d
  /\ DOMAIN bcast' = Sessions /\ DOMAIN srv' = Sessions /\ DOMAIN cli' = Sessions
  /\ \A r \in Sessions \ {s} : bcast'[r] = bcast[r] /\ srv'[r] = srv[r] /\ cli'[r] = cli[r]
  /\ UNCHANGED <<screen, agent, agq, wire, dropped>>

(* What holds of a session's values holds of the session. *)
LEMMA SessionNext ==
  ASSUME NEW s \in Sessions, NEW b \in Receivers, NEW t \in Tasks, NEW c \in Clients,
         bcast'[s] = b, srv'[s] = t, cli'[s] = c, GapInv(t, c), StaleInv(b, t, c)'
  PROVE  SessionInv(s)'
<1>1. TypeInv(s)'
  BY DEF TypeInv
<1>2. GapInv(srv[s], cli[s])'
  BY DEF GapInv
<1>3. StaleInv(bcast[s], srv[s], cli[s])'
  BY DEF StaleInv, Newest, Alive, AtServer, AtClient
<1>. QED
  BY <1>1, <1>2, <1>3 DEF SessionInv

(* A step of one session leaves the others as they are. *)
LEMMA OneSession ==
  ASSUME VideoInv, NEW s \in Sessions, NEW b \in Receivers, NEW u \in Tasks, NEW d \in Clients,
         Becomes(s, b, u, d), GapInv(u, d), StaleInv(b, u, d)
  PROVE  VideoInv'
<1>1. \A p, q, r : StaleInv(p, q, r) => StaleInv(p, q, r)'
  BY DEF Becomes, StaleInv, Newest, Alive, AtServer, AtClient
<1>2. SessionInv(s)'
  BY <1>1, SessionNext DEF Becomes
<1>3. ASSUME NEW r \in Sessions \ {s} PROVE SessionInv(r)'
  <2>1. PICK p \in Receivers, q \in Tasks, e \in Clients :
           p = bcast[r] /\ q = srv[r] /\ e = cli[r]
    BY DEF VideoInv, SessionInv, TypeInv
  <2>2. GapInv(q, e) /\ StaleInv(p, q, e)
    BY <2>1 DEF VideoInv, SessionInv
  <2>3. bcast'[r] = p /\ srv'[r] = q /\ cli'[r] = e
    BY <2>1 DEF Becomes
  <2>. QED
    BY <1>1, <2>2, <2>3, SessionNext
<1>. QED
  BY <1>2, <1>3 DEF VideoInv, Becomes

(* The newest frame on the way is one that is on its way to the client, or    *)
(* it does not depend on the client.                                          *)
LEMMA NewestThrough ==
  ASSUME NEW b, NEW t, NEW c, NEW d
  PROVE  \/ Newest(b, t, c) = Newest(b, t, d)
         \/ Newest(b, t, c) = AtClient(c) /\ Newest(b, t, d) = AtClient(d)
<1>1. \A x, y : AtServer(t, x) = AtServer(t, y) \/ (AtServer(t, x) = x /\ AtServer(t, y) = y)
  BY DEF AtServer, InEncoder, InLoop, LastOr
<1>. QED
  BY <1>1 DEF Newest, LastOr

LEMMA StaleTask ==
  ASSUME NEW b, NEW t, NEW u, NEW c, StaleInv(b, t, c), KeepsTask(t, u, c)
  PROVE  StaleInv(b, u, c)
BY DEF StaleInv, KeepsTask, Newest

LEMMA StaleClient ==
  ASSUME NEW b, NEW t, NEW c, NEW d, StaleInv(b, t, c), KeepsClient(t, c, d)
  PROVE  StaleInv(b, t, d)
<1>1. SUFFICES ASSUME Alive(t, d), screen > t.since, screen \notin d.lost, screen \notin dropped
               PROVE  Newest(b, t, d) = screen
  BY DEF StaleInv
<1>2. /\ Alive(t, c) /\ screen \notin c.lost
      /\ AtClient(d) = AtClient(c) \/ AtClient(c) \in d.lost
  BY <1>1 DEF KeepsClient
<1>3. Newest(b, t, c) = screen
  BY <1>1, <1>2 DEF StaleInv
<1>. QED
  BY <1>1, <1>2, <1>3, NewestThrough

(* A step of the tasks of a session. *)
LEMMA TaskStep ==
  ASSUME VideoInv, NEW s \in Sessions, NEW u, KeepsTask(srv[s], u, cli[s]),
         SetSrv(s, u), UNCHANGED <<screen, agent, agq, wire, dropped, cli>>,
         NEW b \in Receivers, bcast' = [bcast EXCEPT ![s] = b] \/ UNCHANGED bcast,
         bcast'[s] = b, b = bcast[s] \/ ~ Alive(u, cli[s])
  PROVE  VideoInv'
<1>1. PICK t \in Tasks, c \in Clients : t = srv[s] /\ c = cli[s]
  BY DEF VideoInv, SessionInv, TypeInv
<1>2. u \in Tasks /\ GapInv(u, c)
  BY <1>1 DEF KeepsTask
<1>3. StaleInv(b, u, c)
  <2>1. CASE b = bcast[s]
    <3>1. StaleInv(b, t, c)
      BY <1>1, <2>1 DEF VideoInv, SessionInv
    <3>. QED
      BY <1>1, <3>1, StaleTask
  <2>2. CASE ~ Alive(u, cli[s])
    BY <1>1, <2>2 DEF StaleInv
  <2>. QED
    BY <2>1, <2>2
<1>4. Becomes(s, b, u, c)
  <2>1. DOMAIN srv = Sessions /\ DOMAIN cli = Sessions /\ DOMAIN bcast = Sessions
    BY DEF VideoInv
  <2>2. srv'[s] = u /\ DOMAIN srv' = Sessions /\ \A r \in Sessions \ {s} : srv'[r] = srv[r]
    BY <2>1 DEF SetSrv
  <2>3. DOMAIN bcast' = Sessions /\ \A r \in Sessions \ {s} : bcast'[r] = bcast[r]
    BY <2>1
  <2>. QED
    BY <1>1, <2>1, <2>2, <2>3 DEF Becomes
<1>. QED
  BY <1>2, <1>3, <1>4, OneSession

(* A step of the client of a session. *)
LEMMA ClientStep ==
  ASSUME VideoInv, NEW s \in Sessions, NEW d, KeepsClient(srv[s], cli[s], d),
         SetCli(s, d), ClientOnly
  PROVE  VideoInv'
<1>1. PICK b \in Receivers, t \in Tasks, c \in Clients :
         b = bcast[s] /\ t = srv[s] /\ c = cli[s]
  BY DEF VideoInv, SessionInv, TypeInv
<1>2. d \in Clients /\ GapInv(t, d)
  BY <1>1 DEF KeepsClient
<1>3. StaleInv(b, t, c)
  BY <1>1 DEF VideoInv, SessionInv
<1>4. StaleInv(b, t, d)
  BY <1>1, <1>3, StaleClient
<1>5. Becomes(s, b, t, d)
  BY <1>1 DEF VideoInv, Becomes, SetCli, ClientOnly
<1>. QED
  BY <1>2, <1>4, <1>5, OneSession

-----------------------------------------------------------------------------
(* The steps that move a frame from one part of the variables to another. *)

LEMMA BeginStep ==
  ASSUME VideoInv, NEW s \in Sessions, Begin(s)
  PROVE  VideoInv'
<1>1. PICK b \in Receivers, t \in Tasks, c \in Clients :
         b = bcast[s] /\ t = srv[s] /\ c = cli[s]
  BY DEF VideoInv, SessionInv, TypeInv
<1>2. PICK u : u = [Idle EXCEPT !.begun = TRUE, !.since = screen,
                                !.adapter = "recv", !.encoder = "recv", !.loop = "recv"]
  OBVIOUS
<1>3. t = Idle /\ screen \in Nat /\ GapInv(t, c)
  BY <1>1 DEF Begin, VideoInv, SessionInv, GapInv
<1>4. <<>> \in Frames /\ None \in Nat
  BY <1>1, SessionTypes, QueueTypes DEF None
<1>5. /\ u \in Tasks /\ u.begun = TRUE /\ u.since = screen /\ u.encoded = t.encoded
      /\ u.loop = "recv" /\ t.loop = "off" /\ u.encoder = "recv" /\ t.encoder = "off"
      /\ u.eq = t.eq
  BY <1>2, <1>3, <1>4 DEF Idle, Tasks
<1>6. Sent(u) = Sent(t)
  <2>1. /\ Slot(u.loop = "write", u.lf) = Slot(t.loop = "write", t.lf)
        /\ Slot(u.encoder = "send", u.ef) = Slot(t.encoder = "send", t.ef)
    BY <1>5 DEF Slot
  <2>. QED
    BY <1>5, <2>1 DEF Sent
<1>7. GapInv(u, c)
  BY <1>3, <1>5, <1>6 DEF GapInv
<1>8. StaleInv(b, u, c)
  BY <1>3, <1>5 DEF StaleInv
<1>9. Becomes(s, b, u, c)
  BY <1>1, <1>2 DEF VideoInv, Becomes, Begin, SetSrv, ServerOnly
<1>. QED
  BY <1>5, <1>7, <1>8, <1>9, OneSession

LEMMA AdapterTakesStep ==
  ASSUME VideoInv, NEW s \in Sessions, AdapterTakes(s)
  PROVE  VideoInv'
<1>1. PICK b \in Receivers, t \in Tasks, c \in Clients :
         b = bcast[s] /\ t = srv[s] /\ c = cli[s]
  BY DEF VideoInv, SessionInv, TypeInv
<1>2. GapInv(t, c) /\ StaleInv(b, t, c)
  BY <1>1 DEF VideoInv, SessionInv
<1>3. b.q \in Frames /\ b.q # <<>> /\ t.adapter = "recv"
  BY <1>1 DEF AdapterTakes, Receivers
<1>4. PICK h \in Nat, q \in Frames : h = Head(b.q) /\ q = Tail(b.q)
  BY <1>3, QueueTypes
<1>5. PICK p : p = [b EXCEPT !.q = q]
  OBVIOUS
<1>6. PICK u : u = [t EXCEPT !.adapter = "send", !.af = h]
  OBVIOUS
<1>7. p \in Receivers /\ p.q = q
  BY <1>5 DEF Receivers
<1>8. /\ u \in Tasks /\ u.begun = t.begun /\ u.since = t.since /\ u.encoded = t.encoded
      /\ u.adapter = "send" /\ u.af = h /\ u.aq = t.aq
      /\ u.encoder = t.encoder /\ u.ef = t.ef /\ u.eq = t.eq /\ u.loop = t.loop /\ u.lf = t.lf
  BY <1>6 DEF Tasks
<1>9. GapInv(u, c)
  BY <1>2, <1>3, <1>8, BegunBy, SameOrder DEF Sent
<1>10. StaleInv(p, u, c)
  <2>1. Slot(u.adapter = "send", u.af) = <<h>>
    BY <1>8 DEF Slot
  <2>2. \A x : LastOr(<<h>>, x) = h
    BY <1>3, LastMoves
  <2>3. \A x : AtServer(u, x) = h
    BY <2>1, <2>2 DEF AtServer
  <2>4. \A x : LastOr(q, h) = LastOr(b.q, x)
    BY <1>3, <1>4, LastMoves
  <2>5. Newest(p, u, c) = Newest(b, t, c)
    BY <1>7, <2>3, <2>4 DEF Newest
  <2>6. Alive(u, c) => Alive(t, c)
    BY <1>3, <1>8 DEF Alive
  <2>. QED
    BY <1>2, <1>8, <2>5, <2>6 DEF StaleInv
<1>11. bcast' = [bcast EXCEPT ![s] = p] /\ srv' = [srv EXCEPT ![s] = u]
  BY <1>1, <1>4, <1>5, <1>6 DEF AdapterTakes, SetSrv
<1>12. Becomes(s, p, u, c)
  BY <1>1, <1>11 DEF VideoInv, Becomes, AdapterTakes, ServerOnly
<1>. QED
  BY <1>7, <1>8, <1>9, <1>10, <1>12, OneSession

LEMMA AdapterLaggedStep ==
  ASSUME VideoInv, NEW s \in Sessions, AdapterLagged(s)
  PROVE  VideoInv'
<1>1. PICK b \in Receivers, t \in Tasks, c \in Clients :
         b = bcast[s] /\ t = srv[s] /\ c = cli[s]
  BY DEF VideoInv, SessionInv, TypeInv
<1>2. GapInv(t, c) /\ StaleInv(b, t, c)
  BY <1>1 DEF VideoInv, SessionInv
<1>3. PICK p : p = [b EXCEPT !.lagged = FALSE]
  OBVIOUS
<1>4. p \in Receivers /\ p.q = b.q
  BY <1>3 DEF Receivers
<1>5. StaleInv(p, t, c)
  BY <1>2, <1>4 DEF StaleInv, Newest
<1>6. bcast' = [bcast EXCEPT ![s] = p]
  BY <1>1, <1>3 DEF AdapterLagged
<1>7. Becomes(s, p, t, c)
  BY <1>1, <1>6 DEF VideoInv, Becomes, AdapterLagged, ServerOnly
<1>. QED
  BY <1>2, <1>4, <1>5, <1>7, OneSession

(* A frame goes over the connection. *)
LEMMA LoopWritesStep ==
  ASSUME VideoInv, NEW s \in Sessions, LoopWrites(s)
  PROVE  VideoInv'
<1>1. PICK b \in Receivers, t \in Tasks, c \in Clients :
         b = bcast[s] /\ t = srv[s] /\ c = cli[s]
  BY DEF VideoInv, SessionInv, TypeInv
<1>2. GapInv(t, c) /\ StaleInv(b, t, c) /\ t.loop = "write"
  BY <1>1 DEF VideoInv, SessionInv, LoopWrites
<1>3. /\ t.begun = TRUE /\ t.lf \in Nat /\ None \in Nat
      /\ t.eq \in Frames /\ t.encoded \in Frames /\ c.rq \in Frames /\ Fed(c) \in Frames
      /\ Slot(t.encoder = "send", t.ef) \in Frames /\ Slot(c.main = "feed", c.mf) \in Frames
      /\ Arrived(c) \in Frames /\ <<t.lf>> \in Frames
  BY <1>2, BegunBy, SessionTypes, QueueTypes DEF Tasks, None
<1>4. PICK q \in Frames, one \in Frames : q = Append(c.rq, t.lf) /\ one = <<t.lf>>
  BY <1>3, QueueTypes
<1>5. PICK u : u = [t EXCEPT !.loop = "recv", !.lf = None]
  OBVIOUS
<1>6. PICK d : d = [c EXCEPT !.rq = q]
  OBVIOUS
<1>7. /\ u \in Tasks /\ u.begun = t.begun /\ u.since = t.since /\ u.encoded = t.encoded
      /\ u.adapter = t.adapter /\ u.af = t.af /\ u.aq = t.aq
      /\ u.encoder = t.encoder /\ u.ef = t.ef /\ u.eq = t.eq /\ u.loop = "recv"
  BY <1>3, <1>5 DEF Tasks
<1>8. /\ d \in Clients /\ d.main = c.main /\ d.mf = c.mf /\ d.rq = q /\ d.dq = c.dq
      /\ d.decoder = c.decoder /\ d.df = c.df /\ d.fed = c.fed /\ d.oq = c.oq /\ d.sq = c.sq
      /\ d.shown = c.shown /\ d.lost = c.lost
  BY <1>6 DEF Clients
<1>9. /\ Slot(u.loop = "write", u.lf) = <<>> /\ Slot(t.loop = "write", t.lf) = <<t.lf>>
      /\ Slot(u.encoder = "send", u.ef) = Slot(t.encoder = "send", t.ef)
      /\ Slot(u.adapter = "send", u.af) = Slot(t.adapter = "send", t.af)
      /\ Slot(d.main = "feed", d.mf) = Slot(c.main = "feed", c.mf)
  BY <1>2, <1>7, <1>8 DEF Slot
<1>10. Fed(d) = Fed(c)
  BY <1>8 DEF Fed
<1>11. Arrived(d) = Arrived(c) \o one
  <2>1. PICK m \in Frames : m = Slot(c.main = "feed", c.mf)
    BY <1>3
  <2>2. Arrived(d) = (Fed(c) \o m) \o q /\ Arrived(c) = (Fed(c) \o m) \o c.rq
    BY <1>8, <1>9, <1>10, <2>1 DEF Arrived
  <2>3. q = c.rq \o one /\ Fed(c) \o m \in Frames
    BY <1>3, <1>4, <2>1, ConcatOne, ConcatType
  <2>4. ((Fed(c) \o m) \o c.rq) \o one = (Fed(c) \o m) \o (c.rq \o one)
    <3>1. PICK a \in Frames : a = Fed(c) \o m
      BY <2>3
    <3>2. PICK w \in Frames : w = c.rq
      BY <1>3
    <3>3. PICK k \in Frames : k = one
      BY <1>4
    <3>4. (a \o w) \o k = a \o (w \o k)
      BY SMTT(30) DEF Frames
    <3>. QED
      BY <3>1, <3>2, <3>3, <3>4, Zenon
  <2>. QED
    BY <2>2, <2>3, <2>4
<1>12. GapInv(u, d)
  <2>1. PICK e \in Frames : e = Slot(t.encoder = "send", t.ef)
    BY <1>3
  <2>2. PICK r \in Frames : r = t.eq \o e
    BY <1>3, <2>1, ConcatType
  <2>3. Sent(u) = r
    <3>1. Sent(u) = (<<>> \o t.eq) \o e
      BY <1>7, <1>9, <2>1 DEF Sent
    <3>2. <<>> \o t.eq = t.eq
      BY <1>3, ConcatEmpty
    <3>. QED
      BY <2>2, <3>1, <3>2
  <2>4. Sent(t) = one \o r
    <3>1. Sent(t) = (one \o t.eq) \o e
      BY <1>4, <1>9, <2>1 DEF Sent
    <3>2. (one \o t.eq) \o e = one \o (t.eq \o e)
      <4>1. t.eq \in Frames
        BY <1>3
      <4>. QED
        BY <4>1, ConcatAssoc, ZenonT(60)
    <3>. QED
      BY <2>2, <3>1, <3>2
  <2>5. ASSUME c.main # "over" PROVE t.encoded = Arrived(d) \o Sent(u)
    <3>1. t.encoded = Arrived(c) \o Sent(t)
      BY <1>2, <2>5 DEF GapInv
    <3>2. (Arrived(c) \o one) \o r = Arrived(c) \o (one \o r)
      <4>1. Arrived(c) \in Frames
        BY <1>3
      <4>. QED
        BY <4>1, ConcatAssoc, SMTT(30)
    <3>. QED
      BY <1>11, <2>3, <2>4, <3>1, <3>2
  <2>6. c.main # "over" => Begins(Arrived(d), t.encoded)
    BY <2>2, <2>3, <2>5 DEF Begins
  <2>. QED
    BY <1>2, <1>3, <1>7, <1>8, <1>10, <2>5, <2>6 DEF GapInv
<1>13. StaleInv(b, u, d)
  <2>1. /\ \A x : LastOr(q, x) = t.lf /\ LastOr(<<t.lf>>, x) = t.lf
        /\ \A x : LastOr(<<>>, x) = x
    BY <1>3, <1>4, LastMoves
  <2>2. AtClient(d) = t.lf
    BY <1>8, <2>1 DEF AtClient, InMain
  <2>3. \A x : InLoop(t, x) = LastOr(t.eq, t.lf) /\ InLoop(u, x) = LastOr(t.eq, x)
    BY <1>7, <1>9, <2>1 DEF InLoop
  <2>4. \A x : InEncoder(u, x) = InEncoder(t, x)
    BY <1>7, <1>9 DEF InEncoder
  <2>5. AtServer(u, AtClient(d)) = AtServer(t, AtClient(c))
    BY <1>9, <2>2, <2>3, <2>4 DEF AtServer
  <2>6. Alive(u, d) => Alive(t, c)
    BY <1>2, <1>7, <1>8 DEF Alive
  <2>. QED
    BY <1>2, <1>7, <1>8, <2>5, <2>6 DEF StaleInv, Newest
<1>14. srv' = [srv EXCEPT ![s] = u] /\ cli' = [cli EXCEPT ![s] = d]
  BY <1>1, <1>4, <1>5, <1>6 DEF LoopWrites, SetSrv
<1>15. Becomes(s, b, u, d)
  BY <1>1, <1>14 DEF VideoInv, Becomes, LoopWrites, ServerOnly
<1>. QED
  BY <1>7, <1>8, <1>12, <1>13, <1>15, OneSession

-----------------------------------------------------------------------------
(* The steps before the sessions' own. *)

(* A step that changes nothing of a session but what is in its receiver. *)
LEMMA AllSessions ==
  ASSUME VideoInv, DOMAIN bcast' = Sessions, UNCHANGED <<srv, cli>>,
         screen' \in Nat, agq' \in Frames, wire' \in Frames,
         \A s \in Sessions : bcast'[s] \in Receivers,
         \A s \in Sessions, p, q \in Receivers, t \in Tasks, c \in Clients :
            p = bcast[s] /\ q = bcast'[s] /\ t = srv[s] /\ c = cli[s] /\ StaleInv(p, t, c)
               => StaleInv(q, t, c)'
  PROVE  VideoInv'
<1>1. ASSUME NEW s \in Sessions PROVE SessionInv(s)'
  <2>1. PICK p \in Receivers, q \in Receivers, t \in Tasks, c \in Clients :
           p = bcast[s] /\ q = bcast'[s] /\ t = srv[s] /\ c = cli[s]
    BY DEF VideoInv, SessionInv, TypeInv
  <2>2. GapInv(t, c) /\ StaleInv(p, t, c)
    BY <2>1 DEF VideoInv, SessionInv
  <2>3. StaleInv(q, t, c)'
    BY <2>1, <2>2
  <2>. QED
    BY <2>1, <2>2, <2>3, SessionNext
<1>. QED
  BY <1>1 DEF VideoInv

LEMMA ScreenStep ==
  ASSUME VideoInv, ScreenChanges
  PROVE  VideoInv'
<1>1. PICK v \in Nat : v = screen + 1
  BY DEF VideoInv
<1>2. agq \in Frames /\ screen' = v
  BY <1>1 DEF VideoInv, ScreenChanges
<1>3. (agq' = Append(agq, v) /\ dropped' = dropped) \/ (agq' = agq /\ dropped' = dropped \cup {v})
  BY <1>1 DEF ScreenChanges, Emit, TooSoon
<1>4. agq' \in Frames
  BY <1>2, <1>3, QueueTypes
<1>5. ASSUME NEW p \in Receivers, NEW t \in Tasks, NEW c \in Clients
      PROVE  StaleInv(p, t, c)'
  <2>1. CASE agq' = Append(agq, v)
    <3>1. \A x : LastOr(Append(agq, v), x) = v
      BY <1>2, LastAppended
    <3>2. Newest(p, t, c)' = screen'
      BY <1>2, <2>1, <3>1 DEF Newest
    <3>. QED
      BY <3>2 DEF StaleInv
  <2>2. CASE dropped' = dropped \cup {v}
    BY <1>2, <2>2 DEF StaleInv
  <2>. QED
    BY <1>3, <2>1, <2>2
<1>. QED
  BY <1>2, <1>4, <1>5, AllSessions DEF VideoInv, SessionInv, TypeInv, ScreenChanges

LEMMA AgentSendsStep ==
  ASSUME VideoInv, AgentSends
  PROVE  VideoInv'
<1>1. agq \in Frames /\ wire \in Frames /\ agq # <<>>
  BY DEF VideoInv, AgentSends
<1>2. PICK h \in Nat, q \in Frames, w \in Frames :
         h = Head(agq) /\ q = Tail(agq) /\ w = Append(wire, h)
  BY <1>1, QueueTypes
<1>3. agq' = q /\ wire' = w
  BY <1>2 DEF AgentSends
<1>4. \A x, y : LastOr(q, LastOr(w, x)) = LastOr(agq, y)
  <2>1. \A x : LastOr(q, h) = LastOr(agq, x)
    BY <1>1, <1>2, LastMoves
  <2>2. \A x : LastOr(w, x) = h
    BY <1>1, <1>2, LastAppended
  <2>. QED
    BY <2>1, <2>2
<1>5. ASSUME NEW p \in Receivers, NEW t \in Tasks, NEW c \in Clients, StaleInv(p, t, c)
      PROVE  StaleInv(p, t, c)'
  <2>1. Newest(p, t, c)' = Newest(p, t, c)
    BY <1>3, <1>4 DEF Newest, AtServer, AtClient
  <2>. QED
    BY <1>5, <2>1 DEF StaleInv, Alive, AgentSends
<1>. QED
  BY <1>2, <1>3, <1>5, AllSessions DEF VideoInv, SessionInv, TypeInv, AgentSends

LEMMA AgentGoneStep ==
  ASSUME VideoInv, AgentGone
  PROVE  VideoInv'
<1>1. <<>> \in Frames
  BY DEF Frames
<1>2. \A p, t, c : StaleInv(p, t, c)'
  BY DEF StaleInv, Alive, AgentGone
<1>. QED
  BY <1>1, <1>2, AllSessions DEF VideoInv, SessionInv, TypeInv, AgentGone

(* The frame that a receiver loses when it is full is not its newest. *)
LEMMA PushedLast ==
  ASSUME NEW b \in Receivers, NEW v \in Nat
  PROVE  Pushed(b, v) \in Receivers /\ \A x : LastOr(Pushed(b, v).q, x) = v
<1>1. b.q \in Frames /\ Len(b.q) \in Nat /\ Cap \in Nat \ {0}
  BY VideoAssumption, LenProperties DEF Receivers, Frames
<1>2. CASE Full(b.q)
  <2>1. b.q # <<>>
    <3>1. Len(<<>>) = 0
      OBVIOUS
    <3>. QED
      BY <1>1, <1>2, <3>1 DEF Full
  <2>2. PICK r \in Frames : r = Tail(b.q)
    BY <1>1, <2>1, QueueTypes
  <2>3. PICK q \in Frames : q = Append(r, v)
    BY <2>2, QueueTypes
  <2>4. Pushed(b, v) = [q |-> q, lagged |-> TRUE]
    BY <1>2, <2>2, <2>3 DEF Pushed
  <2>5. \A x : LastOr(q, x) = v
    BY <2>2, <2>3, LastAppended
  <2>. QED
    BY <2>4, <2>5 DEF Receivers
<1>3. CASE ~ Full(b.q)
  <2>1. PICK q \in Frames : q = Append(b.q, v)
    BY <1>1, QueueTypes
  <2>2. Pushed(b, v) = [b EXCEPT !.q = q]
    BY <1>3, <2>1 DEF Pushed
  <2>3. \A x : LastOr(q, x) = v
    BY <1>1, <2>1, LastAppended
  <2>. QED
    BY <2>2, <2>3 DEF Receivers
<1>. QED
  BY <1>2, <1>3

LEMMA FanOutStep ==
  ASSUME VideoInv, FanOut
  PROVE  VideoInv'
<1>1. wire \in Frames /\ wire # <<>>
  BY DEF VideoInv, FanOut
<1>2. PICK h \in Nat, w \in Frames : h = Head(wire) /\ w = Tail(wire)
  BY <1>1, QueueTypes
<1>3. /\ wire' = w
      /\ bcast' = [s \in Sessions |-> IF Subscribed(s) THEN Pushed(bcast[s], h) ELSE bcast[s]]
  BY <1>2 DEF FanOut
<1>4. \A x : LastOr(w, h) = LastOr(wire, x)
  BY <1>1, <1>2, LastMoves
<1>5. \A s \in Sessions : bcast'[s] \in Receivers
  BY <1>3, PushedLast DEF VideoInv, SessionInv, TypeInv
<1>6. ASSUME NEW s \in Sessions, NEW p \in Receivers, NEW q \in Receivers,
             NEW t \in Tasks, NEW c \in Clients, StaleInv(p, t, c),
             p = bcast[s], q = bcast'[s], t = srv[s]
      PROVE  StaleInv(q, t, c)'
  <2>1. CASE Subscribed(s)
    <3>1. q = Pushed(p, h)
      BY <1>3, <1>6, <2>1
    <3>2. \A x : LastOr(q.q, x) = h
      BY <3>1, PushedLast
    <3>3. Newest(q, t, c)' = Newest(p, t, c)
      BY <1>3, <1>4, <3>2 DEF Newest, FanOut
    <3>. QED
      BY <1>6, <3>3 DEF StaleInv, Alive, FanOut
  <2>2. CASE ~ Subscribed(s)
    BY <1>6, <2>2 DEF StaleInv, Alive, FanOut, Subscribed
  <2>. QED
    BY <2>1, <2>2
<1>. QED
  BY <1>2, <1>3, <1>5, <1>6, AllSessions DEF VideoInv, FanOut

-----------------------------------------------------------------------------
(* The invariant of the specification. *)

LEMMA VideoInit == Init => VideoInv
<1>1. SUFFICES ASSUME Init PROVE VideoInv
  OBVIOUS
<1>2. <<>> \in Frames /\ None \in Nat /\ 1 \in Nat
  BY DEF Frames, None
<1>3. PICK f : f = [n \in 1 .. Cap |-> 1]
  OBVIOUS
<1>4. f \in Frames
  BY <1>3, VideoAssumption DEF Frames
<1>5. /\ Idle \in Tasks /\ Idle.loop = "off" /\ Idle.encoder = "off" /\ Idle.eq = <<>>
      /\ Idle.encoded = <<>> /\ Idle.adapter = "off"
  BY <1>2 DEF Idle, Tasks
<1>6. PICK t : t = Stuck
  OBVIOUS
<1>7. t = [Idle EXCEPT !.begun = TRUE, !.token = TRUE, !.adapter = "send", !.af = 1, !.aq = f,
                      !.encoder = "send", !.ef = 1, !.eq = f, !.loop = "wait"]
  BY <1>3, <1>6 DEF Stuck
<1>8. t \in Tasks /\ t.begun = TRUE /\ t.loop = "wait" /\ t.encoded = <<>> /\ t.aq = f
  BY <1>2, <1>4, <1>7 DEF Idle, Tasks
<1>9. PICK c : c = [Viewer EXCEPT !.main = "over", !.decoder = "done"]
  OBVIOUS
<1>10. /\ Viewer \in Clients /\ Viewer.main = "run" /\ Viewer.fed = <<>> /\ Viewer.dq = <<>>
       /\ Viewer.rq = <<>>
  BY <1>2 DEF Viewer, Clients
<1>11. c \in Clients /\ c.main = "over" /\ c.fed = <<>> /\ c.dq = <<>>
  BY <1>2, <1>9 DEF Viewer, Clients
<1>12. <<>> \o <<>> = <<>>
  BY <1>2, ConcatEmpty
<1>13. Begins(<<>>, <<>>)
  BY <1>2, <1>12 DEF Begins
<1>14. Fed(Viewer) = <<>> /\ Fed(c) = <<>>
  BY <1>10, <1>11, <1>12 DEF Fed
<1>15. Arrived(Viewer) = <<>>
  BY <1>10, <1>12, <1>14 DEF Arrived, Slot
<1>16. Sent(Idle) = <<>>
  BY <1>5, <1>12 DEF Sent, Slot
<1>17. GapInv(Idle, Viewer)
  BY <1>5, <1>10, <1>12, <1>13, <1>14, <1>15, <1>16 DEF GapInv
<1>18. GapInv(t, c)
  BY <1>8, <1>11, <1>13, <1>14 DEF GapInv
<1>19. ASSUME NEW s \in Sessions PROVE SessionInv(s)
  <2>1. CASE s \in Leaked
    <3>1. srv[s] = t /\ cli[s] = c /\ bcast[s] = [q |-> f, lagged |-> TRUE]
      BY <1>1, <1>6, <1>8, <1>9, <2>1 DEF Init
    <3>2. TypeInv(s)
      BY <1>4, <1>8, <1>11, <3>1 DEF TypeInv, Receivers
    <3>3. StaleInv(bcast[s], srv[s], cli[s])
      BY <1>8, <3>1 DEF StaleInv, Alive
    <3>. QED
      BY <1>18, <3>1, <3>2, <3>3 DEF SessionInv
  <2>2. CASE s \notin Leaked
    <3>1. srv[s] = Idle /\ cli[s] = Viewer /\ bcast[s] = [q |-> <<>>, lagged |-> FALSE]
      BY <1>1, <2>2 DEF Init
    <3>2. TypeInv(s)
      BY <1>2, <1>5, <1>10, <3>1 DEF TypeInv, Receivers
    <3>3. StaleInv(bcast[s], srv[s], cli[s])
      BY <1>5, <3>1 DEF StaleInv, Alive
    <3>. QED
      BY <1>17, <3>1, <3>2, <3>3 DEF SessionInv
  <2>. QED
    BY <2>1, <2>2
<1>. QED
  BY <1>1, <1>2, <1>19 DEF VideoInv, Init

(* The actions of the tasks of a session that stay on the proxy-encoder. *)
LEMMA ServerStep ==
  ASSUME VideoInv, NEW s \in Sessions,
         \/ AdapterGives(s) \/ AdapterStops(s) \/ Encoder(s)
         \/ LoopTakes(s) \/ LoopEnds(s) \/ SessionOver(s)
  PROVE  VideoInv'
<1>1. PICK b \in Receivers, t \in Tasks, c \in Clients :
         b = bcast[s] /\ t = srv[s] /\ c = cli[s]
  BY DEF VideoInv, SessionInv, TypeInv
<1>2. GapInv(t, c) /\ DOMAIN bcast = Sessions
  BY <1>1 DEF VideoInv, SessionInv
<1>3. PICK none \in Receivers : none = [q |-> <<>>, lagged |-> FALSE]
  <2>1. <<>> \in Frames
    BY DEF Frames
  <2>2. [q |-> <<>>, lagged |-> FALSE] \in Receivers
    BY <2>1 DEF Receivers
  <2>. QED
    BY <2>2
<1>4. CASE AdapterGives(s)
  <2>1. PICK u : u = IF t.encoder = "done" THEN [t EXCEPT !.adapter = "done", !.af = None]
                     ELSE [t EXCEPT !.adapter = "recv", !.af = None, !.aq = Append(@, t.af)]
    BY Zenon
  <2>2. SetSrv(s, u)
    BY <1>1, <1>4, <2>1, SMTT(30) DEF AdapterGives
  <2>3. KeepsTask(t, u, c)
    BY <1>1, <1>2, <1>4, <2>1, AdapterGivesKeeps DEF AdapterGives
  <2>4. CASE t.encoder = "done"
    <3>1. bcast' = [bcast EXCEPT ![s] = none] /\ bcast'[s] = none
      BY <1>1, <1>2, <1>3, <1>4, <2>4 DEF AdapterGives
    <3>2. u = [t EXCEPT !.adapter = "done", !.af = None]
      BY <2>1, <2>4
    <3>3. ~ Alive(u, c)
      BY <3>2 DEF Alive, Tasks
    <3>. QED
      BY <1>1, <1>4, <2>2, <2>3, <3>1, <3>3, TaskStep DEF AdapterGives, ServerOnly
  <2>5. CASE t.encoder # "done"
    <3>1. bcast' = [bcast EXCEPT ![s] = b] /\ bcast'[s] = b
      BY <1>1, <1>2, <1>4, <2>5 DEF AdapterGives
    <3>. QED
      BY <1>1, <1>4, <2>2, <2>3, <3>1, TaskStep DEF AdapterGives, ServerOnly
  <2>. QED
    BY <2>4, <2>5
<1>5. CASE AdapterStops(s)
  <2>1. PICK u : u = [t EXCEPT !.adapter = "done"]
    BY Zenon
  <2>2. SetSrv(s, u) /\ KeepsTask(t, u, c)
    BY <1>1, <1>2, <1>5, <2>1, AdapterStopsKeeps DEF AdapterStops
  <2>3. ~ Alive(u, c)
    BY <2>1 DEF Alive, Tasks
  <2>4. bcast' = [bcast EXCEPT ![s] = none] /\ bcast'[s] = none
    BY <1>2, <1>3, <1>5 DEF AdapterStops
  <2>. QED
    BY <1>1, <1>5, <2>2, <2>3, <2>4, TaskStep DEF AdapterStops, ServerOnly
<1>6. ASSUME NEW u, KeepsTask(t, u, c), SetSrv(s, u), ServerOnly, UNCHANGED <<bcast, cli>>
      PROVE  VideoInv'
  BY <1>1, <1>6, TaskStep DEF ServerOnly
<1>7. CASE EncoderStops(s)
  <2>1. PICK u : u = [t EXCEPT !.encoder = "done", !.aq = <<>>]
    BY Zenon
  <2>2. SetSrv(s, u) /\ KeepsTask(t, u, c)
    BY <1>1, <1>2, <1>7, <2>1, EncoderStopsKeeps DEF EncoderStops
  <2>. QED
    BY <1>6, <1>7, <2>2 DEF EncoderStops
<1>8. CASE Encode(s)
  <2>1. PICK u : u = [t EXCEPT !.encoder = "send", !.aq = Tail(@), !.ef = Head(t.aq),
                               !.encoded = Append(@, Head(t.aq))]
    BY Zenon
  <2>2. SetSrv(s, u) /\ KeepsTask(t, u, c)
    BY <1>1, <1>2, <1>8, <2>1, EncodeKeeps DEF Encode
  <2>. QED
    BY <1>6, <1>8, <2>2 DEF Encode
<1>9. CASE EncoderGives(s)
  <2>1. PICK u : u = [t EXCEPT !.encoder = "recv", !.ef = None, !.eq = Append(@, t.ef)]
    BY Zenon
  <2>2. SetSrv(s, u) /\ KeepsTask(t, u, c)
    BY <1>1, <1>2, <1>9, <2>1, EncoderGivesKeeps DEF EncoderGives
  <2>. QED
    BY <1>6, <1>9, <2>2 DEF EncoderGives
<1>10. CASE LoopTakes(s)
  <2>1. PICK u : u = [t EXCEPT !.loop = "write", !.lf = Head(t.eq), !.eq = Tail(@)]
    BY Zenon
  <2>2. SetSrv(s, u) /\ KeepsTask(t, u, c)
    BY <1>1, <1>2, <1>10, <2>1, LoopTakesKeeps DEF LoopTakes
  <2>. QED
    BY <1>6, <1>10, <2>2 DEF LoopTakes
<1>11. CASE LoopEnds(s)
  <2>1. PICK u : u = [t EXCEPT !.loop = "wait", !.lf = None, !.token = TRUE]
    BY Zenon
  <2>2. SetSrv(s, u) /\ KeepsTask(t, u, c)
    BY <1>1, <1>2, <1>11, <2>1, LoopEndsKeeps DEF LoopEnds, LoopMayEnd
  <2>. QED
    BY <1>6, <1>11, <2>2, SMTT(30) DEF LoopEnds
<1>12. CASE SessionOver(s)
  <2>1. PICK u : u = [t EXCEPT !.loop = "over", !.eq = <<>>]
    BY Zenon
  <2>2. SetSrv(s, u) /\ KeepsTask(t, u, c)
    BY <1>1, <1>2, <1>12, <2>1, LoopEndsKeeps DEF SessionOver
  <2>. QED
    BY <1>6, <1>12, <2>2 DEF SessionOver
<1>. QED
  BY <1>4, <1>5, <1>7, <1>8, <1>9, <1>10, <1>11, <1>12 DEF Encoder

(* The actions of the client. *)
LEMMA ViewerStep ==
  ASSUME VideoInv, NEW s \in Sessions,
         \/ Main(s) \/ MainSeesClose(s) \/ Decoder(s)
         \/ Draw(s) \/ DecodeFails(s) \/ DecoderHangs(s)
  PROVE  VideoInv'
<1>1. PICK t \in Tasks, c \in Clients : t = srv[s] /\ c = cli[s]
  BY DEF VideoInv, SessionInv, TypeInv
<1>2. GapInv(t, c)
  BY <1>1 DEF VideoInv, SessionInv
<1>3. ASSUME NEW d, KeepsClient(t, c, d), SetCli(s, d), ClientOnly
      PROVE  VideoInv'
  BY <1>1, <1>3, ClientStep
<1>4. CASE MainTakes(s)
  <2>1. PICK d : d = [c EXCEPT !.main = "feed", !.mf = Head(c.rq), !.rq = Tail(@)]
    BY Zenon
  <2>2. SetCli(s, d) /\ KeepsClient(t, c, d)
    BY <1>1, <1>2, <1>4, <2>1, MainTakesKeeps DEF MainTakes
  <2>. QED
    BY <1>3, <1>4, <2>2 DEF MainTakes
<1>5. CASE MainFeeds(s)
  <2>1. PICK d : d = [c EXCEPT !.main = "run", !.mf = None, !.dq = Append(@, c.mf)]
    BY Zenon
  <2>2. SetCli(s, d) /\ KeepsClient(t, c, d)
    BY <1>1, <1>2, <1>5, <2>1, MainFeedsKeeps DEF MainFeeds
  <2>. QED
    BY <1>3, <1>5, <2>2 DEF MainFeeds
<1>6. CASE ClientEnds(s)
  <2>1. PICK d : d = [c EXCEPT !.main = "over", !.mf = None, !.rq = <<>>, !.sq = <<>>]
    BY Zenon
  <2>2. SetCli(s, d) /\ KeepsClient(t, c, d)
    BY <1>1, <1>2, <1>6, <2>1, ClientEndsKeeps DEF ClientEnds
  <2>. QED
    BY <1>3, <1>6, <2>2 DEF ClientEnds
<1>7. CASE MainShows(s)
  <2>1. PICK d : d = IF Full(c.sq) THEN [c EXCEPT !.oq = Tail(@), !.lost = @ \cup {Head(c.oq)}]
                     ELSE [c EXCEPT !.oq = Tail(@), !.sq = Append(@, Head(c.oq))]
    BY Zenon
  <2>2. SetCli(s, d) /\ KeepsClient(t, c, d)
    BY <1>1, <1>2, <1>7, <2>1, MainShowsKeeps DEF MainShows
  <2>. QED
    BY <1>3, <1>7, <2>2, SMTT(30) DEF MainShows
<1>8. CASE Draw(s)
  <2>1. PICK d : d = [c EXCEPT !.shown = Last(c.sq), !.sq = <<>>]
    BY Zenon
  <2>2. SetCli(s, d) /\ KeepsClient(t, c, d)
    BY <1>1, <1>2, <1>8, <2>1, DrawKeeps DEF Draw
  <2>. QED
    BY <1>3, <1>8, <2>2 DEF Draw
<1>9. CASE DecoderTakes(s)
  <2>1. PICK d : d = [c EXCEPT !.decoder = "busy", !.df = Head(c.dq), !.dq = Tail(@),
                               !.fed = Append(@, Head(c.dq))]
    BY Zenon
  <2>2. SetCli(s, d) /\ KeepsClient(t, c, d)
    BY <1>1, <1>2, <1>9, <2>1, DecoderTakesKeeps DEF DecoderTakes
  <2>. QED
    BY <1>3, <1>9, <2>2 DEF DecoderTakes
<1>10. CASE DecoderGives(s)
  <2>1. PICK e : e = [c EXCEPT !.decoder = "recv", !.df = None]
    OBVIOUS
  <2>2. PICK d : d = IF Full(e.oq) \/ e.main = "over" THEN [e EXCEPT !.lost = @ \cup {c.df}]
                     ELSE [e EXCEPT !.oq = Append(@, c.df)]
    OBVIOUS
  <2>3. SetCli(s, d)
    BY <1>1, <1>10, <2>1, <2>2 DEF DecoderGives
  <2>4. \/ d = [c EXCEPT !.decoder = "recv", !.df = None, !.lost = @ \cup {c.df}]
        \/ d = [c EXCEPT !.decoder = "recv", !.df = None, !.oq = Append(@, c.df)]
    BY <2>1, <2>2, SMTT(30)
  <2>5. KeepsClient(t, c, d)
    BY <1>1, <1>2, <1>10, <2>4, DecoderGivesKeeps DEF DecoderGives
  <2>. QED
    BY <1>3, <1>10, <2>3, <2>5 DEF DecoderGives
<1>11. CASE DecodeFails(s)
  <2>1. PICK d : d = [c EXCEPT !.decoder = "recv", !.df = None, !.lost = @ \cup {c.df}]
    BY Zenon
  <2>2. SetCli(s, d) /\ KeepsClient(t, c, d)
    BY <1>1, <1>2, <1>11, <2>1, DecoderGivesKeeps DEF DecodeFails
  <2>. QED
    BY <1>3, <1>11, <2>2 DEF DecodeFails
<1>12. CASE DecoderHangs(s)
  <2>1. PICK d : d = [c EXCEPT !.decoder = "hung"]
    BY Zenon
  <2>2. SetCli(s, d) /\ KeepsClient(t, c, d)
    BY <1>1, <1>2, <1>12, <2>1, DecoderEndsKeeps DEF DecoderHangs
  <2>. QED
    BY <1>3, <1>12, <2>2 DEF DecoderHangs
<1>13. CASE DecoderStops(s)
  <2>1. PICK d : d = [c EXCEPT !.decoder = "done", !.oq = <<>>]
    BY Zenon
  <2>2. SetCli(s, d) /\ KeepsClient(t, c, d)
    BY <1>1, <1>2, <1>13, <2>1, DecoderEndsKeeps DEF DecoderStops
  <2>. QED
    BY <1>3, <1>13, <2>2 DEF DecoderStops
<1>. QED
  BY <1>4, <1>5, <1>6, <1>7, <1>8, <1>9, <1>10, <1>11, <1>12, <1>13
  DEF Main, MainSeesClose, FeedTimesOut, Decoder

(* What changes no frame and no task. *)
LEMMA StillStep ==
  ASSUME VideoInv, UNCHANGED <<screen, agent, agq, wire, dropped, bcast, srv, cli>>
  PROVE  VideoInv'
<1>1. ASSUME NEW s \in Sessions, NEW p \in Receivers, NEW t \in Tasks, NEW c \in Clients,
             StaleInv(p, t, c)
      PROVE  StaleInv(p, t, c)'
  BY <1>1 DEF StaleInv, Newest, Alive, AtServer, AtClient
<1>. QED
  BY <1>1, AllSessions DEF VideoInv, SessionInv, TypeInv

LEMMA VideoStep == VideoInv /\ [Next]_vars => VideoInv'
<1>1. SUFFICES ASSUME VideoInv, [Next]_vars PROVE VideoInv'
  OBVIOUS
<1>2. CASE ScreenChanges \/ AgentSends \/ AgentGone \/ FanOut
  BY <1>1, <1>2, ScreenStep, AgentSendsStep, AgentGoneStep, FanOutStep
<1>3. ASSUME NEW s \in Sessions, Begin(s) \/ AdapterTakes(s) \/ AdapterLagged(s) \/ LoopWrites(s)
      PROVE  VideoInv'
  BY <1>1, <1>3, BeginStep, AdapterTakesStep, AdapterLaggedStep, LoopWritesStep
<1>4. ASSUME NEW s \in Sessions, Stall(s) \/ IdleTimeout(s)
      PROVE  VideoInv'
  BY <1>1, <1>4, StillStep DEF Stall, IdleTimeout, ServerOnly
<1>5. CASE UNCHANGED vars
  BY <1>1, <1>5, StillStep DEF vars
<1>. QED
  BY <1>1, <1>2, <1>3, <1>4, <1>5, ServerStep, ViewerStep DEF Next, Adapter, Loop

LEMMA VideoAlways == Spec => []VideoInv
BY VideoInit, VideoStep, PTL DEF Spec

-----------------------------------------------------------------------------

(* What a client's decoder is given is the beginning of what the session's    *)
(* encoder produced, for any number of sessions and any capacities: the loss  *)
(* of the fan-out is before the encoder (the broadcast channel of             *)
(* capture/vsock.rs) and the loss of the client after the decoder (try_send), *)
(* while the streaming loop, the QUIC stream, the reader task and the main    *)
(* loop pass on every frame in order, or none any more.                       *)
THEOREM GapSafety == Spec => []NoGapAfterEncoder
<1>1. VideoInv => NoGapAfterEncoder
  <2>1. ASSUME VideoInv, NEW s \in Sessions PROVE IsPrefix(cli[s].fed, srv[s].encoded)
    <3>1. PICK t \in Tasks, c \in Clients : t = srv[s] /\ c = cli[s]
      BY <2>1 DEF VideoInv, SessionInv, TypeInv
    <3>2. Begins(c.fed \o c.dq, t.encoded)
      BY <2>1, <3>1 DEF VideoInv, SessionInv, GapInv, Fed
    <3>3. c.fed \in Frames /\ c.dq \in Frames /\ t.encoded \in Frames
      BY SessionTypes
    <3>4. Begins(c.fed, t.encoded)
      BY <3>2, <3>3, BeginsLess
    <3>. QED
      BY <3>1, <3>3, <3>4, BeginsIsPrefix
  <2>. QED
    BY <2>1 DEF NoGapAfterEncoder
<1>. QED
  BY <1>1, VideoAlways, PTL

(* When nothing of a session is on its way any more, its window shows the     *)
(* last version of the screen, or that version is one of those the agent did  *)
(* not emit or the client says it lost.  The receiver of the broadcast drops  *)
(* its oldest frame for a newer one, and every task hands its frame on before *)
(* it takes another, so that the last frame of the last queue that is not     *)
(* empty is always the screen.                                                *)
THEOREM StaleSafety == Spec => []StaleOnlyByDrop
<1>1. VideoInv => StaleOnlyByDrop
  <2>1. ASSUME VideoInv, NEW s \in Sessions, Drained(s), screen > srv[s].since
        PROVE  cli[s].shown = screen \/ screen \in dropped \/ screen \in cli[s].lost
    <3>1. PICK b \in Receivers, t \in Tasks, c \in Clients :
             b = bcast[s] /\ t = srv[s] /\ c = cli[s]
      BY <2>1 DEF VideoInv, SessionInv, TypeInv
    <3>2. /\ agent = "up" /\ agq = <<>> /\ wire = <<>> /\ b.q = <<>>
          /\ t.adapter = "recv" /\ t.aq = <<>> /\ t.encoder = "recv" /\ t.eq = <<>>
          /\ t.loop = "recv"
          /\ c.main = "run" /\ c.rq = <<>> /\ c.dq = <<>> /\ c.decoder = "recv"
          /\ c.oq = <<>> /\ c.sq = <<>>
      BY <2>1, <3>1 DEF Drained
    <3>3. StaleInv(b, t, c)
      BY <2>1, <3>1 DEF VideoInv, SessionInv
    <3>4. Alive(t, c)
      BY <3>2 DEF Alive
    <3>5. AtClient(c) = c.shown
      BY <3>2 DEF AtClient, InMain, InDecoder, InWindow, LastOr, Slot
    <3>6. AtServer(t, c.shown) = c.shown
      BY <3>2 DEF AtServer, InEncoder, InLoop, LastOr, Slot
    <3>7. Newest(b, t, c) = c.shown
      BY <3>2, <3>5, <3>6 DEF Newest, LastOr
    <3>. QED
      BY <2>1, <3>1, <3>3, <3>4, <3>7 DEF StaleInv
  <2>. QED
    BY <2>1 DEF StaleOnlyByDrop
<1>. QED
  BY <1>1, VideoAlways, PTL
=============================================================================
