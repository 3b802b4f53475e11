------------------------ MODULE ControlChannel_proofs ------------------------
(***************************************************************************)
(* Proofs about ControlChannel, for every policy, every set of contents    *)
(* and every limit on the lengths of frames and on the counters.           *)
(***************************************************************************)
EXTENDS ControlChannel, SequenceTheorems, TLAPS

-----------------------------------------------------------------------------
(* Nonces. *)

(* A message is known by its end and its number, which is in its nonce; an    *)
(* end has numbered fewer messages than its cipher's counter says.            *)
NonceInv ==
  /\ counter \in [Ends -> Nat] /\ made = counter
  /\ \A a \in used : \E e \in Ends : \E n \in Nat :
        /\ n < counter[e]
        /\ a = [from |-> e, number |-> n, nonce |-> <<n, DirectionByte(e)>>]

(* One more message keeps the numbering. *)
LEMMA EncryptKeeps ==
  ASSUME NonceInv, NEW e \in Ends, Encrypt(e)
  PROVE  NonceInv'
<1>1. CASE ~ ciphered[e]
  BY <1>1 DEF NonceInv, Encrypt, cryptoVars
<1>2. CASE ciphered[e]
  <2> DEFINE m == [from |-> e, number |-> made[e], nonce |-> NonceOf(e)]
  <2>1. /\ used' = used \cup {m}
        /\ made' = [made EXCEPT ![e] = @ + 1]
        /\ counter' = [counter EXCEPT ![e] = @ + 1]
    BY <1>2 DEF Encrypt
  <2>2. counter' \in [Ends -> Nat] /\ made' = counter'
    BY <2>1 DEF NonceInv
  <2>3. \A d \in Ends : counter[d] <= counter'[d] /\ counter[d] \in Nat
    BY <2>1 DEF NonceInv
  <2>4. counter[e] \in Nat /\ counter[e] < counter'[e]
    BY <2>1 DEF NonceInv
  <2>5. m = [from |-> e, number |-> counter[e], nonce |-> <<counter[e], DirectionByte(e)>>]
    BY DEF NonceInv, NonceOf
  <2>6. ASSUME NEW a \in used'
        PROVE  \E d \in Ends : \E n \in Nat :
                  /\ n < counter'[d]
                  /\ a = [from |-> d, number |-> n, nonce |-> <<n, DirectionByte(d)>>]
    <3>1. CASE a = m
      BY <3>1, <2>4, <2>5
    <3>2. CASE a \in used
      <4>1. PICK d \in Ends : \E n \in Nat :
                  /\ n < counter[d]
                  /\ a = [from |-> d, number |-> n, nonce |-> <<n, DirectionByte(d)>>]
        BY <3>2 DEF NonceInv
      <4>2. PICK n \in Nat :
                  /\ n < counter[d]
                  /\ a = [from |-> d, number |-> n, nonce |-> <<n, DirectionByte(d)>>]
        BY <4>1
      <4>3. n < counter'[d]
        <5>1. counter'[d] \in Nat
          BY <2>2
        <5>2. counter[d] <= counter'[d] /\ counter[d] \in Nat
          BY <2>3
        <5>. QED
          BY <5>1, <5>2, <4>2
      <4>. QED
        BY <4>2, <4>3
    <3>. QED
      BY <2>1, <3>1, <3>2
  <2>. QED
    BY <2>2, <2>6 DEF NonceInv, DirectionByte
<1>. QED
  BY <1>1, <1>2

LEMMA NonceInit == Init => NonceInv
BY DEF Init, NonceInv, Ends

LEMMA NonceStep == NonceInv /\ [Next]_vars => NonceInv'
<1> SUFFICES ASSUME NonceInv, [Next]_vars PROVE NonceInv'
  OBVIOUS
<1>1. ASSUME UNCHANGED cryptoVars PROVE NonceInv'
  BY <1>1 DEF NonceInv, cryptoVars, DirectionByte
<1>2. "client" \in Ends /\ "server" \in Ends
  BY DEF Ends
<1>3. CASE ServerHandshake \/ ClientHandshake \/ Close \/ SendOpening
  BY <1>1, <1>3 DEF ServerHandshake, ClientHandshake, Close, SendOpening
<1>4. CASE SendClipboard
  BY <1>1, <1>2, <1>4, EncryptKeeps DEF SendClipboard, cryptoVars
<1>5. CASE SendInputBatch
  BY <1>2, <1>5, EncryptKeeps DEF SendInputBatch
<1>6. CASE SendClipboardToClient
  BY <1>1, <1>2, <1>6, EncryptKeeps DEF SendClipboardToClient, cryptoVars
<1>7. CASE Accept \/ MakeInjector \/ PortalAnswers \/ LoseStep
  BY <1>1, <1>7 DEF Accept, MakeInjector, PortalAnswers, LoseStep
<1>8. CASE ReadOpening \/ ReadInput \/ ReadClipboard \/ PortalApplies
  BY <1>1, <1>8 DEF ReadOpening, ReadInput, ReadClipboard, Receives, PortalApplies
<1>9. CASE ClientLosesStep \/ ClientReceives \/ \E e \in Ends : AppCopies(e) \/ Paste(e)
  BY <1>1, <1>9 DEF ClientLosesStep, ClientReceives, AppCopies, Paste
<1>10. CASE UNCHANGED vars
  BY <1>1, <1>10 DEF vars, cryptoVars
<1>. QED
  BY <1>3, <1>4, <1>5, <1>6, <1>7, <1>8, <1>9, <1>10 DEF Next

LEMMA NonceInvUnique == NonceInv => NoncesUnique
<1> SUFFICES ASSUME NonceInv, NEW a \in used, NEW b \in used, a.nonce = b.nonce
             PROVE  a = b
  BY DEF NoncesUnique
<1>1. PICK d \in Ends, n \in Nat :
         a = [from |-> d, number |-> n, nonce |-> <<n, DirectionByte(d)>>]
  BY DEF NonceInv
<1>2. PICK e \in Ends, k \in Nat :
         b = [from |-> e, number |-> k, nonce |-> <<k, DirectionByte(e)>>]
  BY DEF NonceInv
<1>3. n = k /\ DirectionByte(d) = DirectionByte(e)
  BY <1>1, <1>2
<1>4. d = e
  BY <1>3 DEF DirectionByte, Ends
<1>. QED
  BY <1>1, <1>2, <1>3, <1>4

(* No nonce of a session serves twice, whatever the number of messages and    *)
(* the end that sends them (crypto.rs, encrypt, encrypt_dir).                 *)
THEOREM NonceSafety == Spec => []NoncesUnique
<1>1. Init => NonceInv
  BY NonceInit
<1>2. NonceInv /\ [Next]_vars => NonceInv'
  BY NonceStep
<1>3. NonceInv => NoncesUnique
  BY NonceInvUnique
<1>. QED
  BY <1>1, <1>2, <1>3, PTL DEF Spec

-----------------------------------------------------------------------------
(* The clipboard. *)

ServerFrames == [type : {"open", "input"}, flag : BOOLEAN, body : Nat, length : Nat]
                  \cup [type : {"clipboard"}, flag : BOOLEAN,
                         body : [dir : {"c2s"}, content : Contents], length : Nat]

(* The contents the policy lets through. *)
Passed(dir) == {content \in Contents : Allowed(dir, content)}

ClientFrames == [type : {"clipboard"}, flag : BOOLEAN,
                 body : [dir : {"s2c"}, content : Passed("s2c")], length : Nat]

(* Frames say the direction they travel in; those of the server, what the two *)
(* clipboards serve and what was pasted have passed the filter.               *)
ClipInv ==
  /\ ciphered \in [Ends -> BOOLEAN] /\ sent \in Nat
  /\ toServer \in Seq(ServerFrames) /\ toClient \in Seq(ClientFrames)
  /\ clip \in [Ends -> Contents \cup {NoContent}]
  /\ clip["server"] \in Passed("c2s") \cup {NoContent}
  /\ clip["client"] \in Passed("s2c") \cup {NoContent}
  /\ \A p \in pasted :
        p.content \in IF p.at = "server" THEN Passed("c2s") ELSE Passed("s2c")

LEMMA ClipInit == Init => ClipInv
BY DEF Init, ClipInv, Ends

(* The policy does not change, and so does not what it lets through. *)
LEMMA PassedKept ==
  ASSUME policy' = policy, NEW dir
  PROVE  Passed(dir)' = Passed(dir)
BY DEF Passed, Allowed, EffectiveMax, PatternBlocks

LEMMA PolicyKept == [Next]_vars => policy' = policy
BY DEF Next, vars, ServerHandshake, ClientHandshake, Close, SendOpening, SendClipboard,
       SendInputBatch, Accept, SendClipboardToClient, MakeInjector, PortalAnswers, LoseStep,
       ReadOpening, ReadInput, ReadClipboard, Receives, PortalApplies, ClientLosesStep,
       ClientReceives, AppCopies, Paste

LEMMA ClipLengthType == \A content \in Contents : ClipLength(content) \in Nat
BY ControlAssumption DEF ClipLength

(* Taking the head of a stream, adding a frame to it. *)
LEMMA Streams ==
  ASSUME NEW S, NEW q \in Seq(S)
  PROVE  /\ q # <<>> => Head(q) \in S /\ Tail(q) \in Seq(S)
         /\ \A f \in S : Append(q, f) \in Seq(S)
         /\ <<>> \in Seq(S)
OBVIOUS

LEMMA ClipStep == ClipInv /\ [Next]_vars => ClipInv'
<1> SUFFICES ASSUME ClipInv, [Next]_vars PROVE ClipInv'
  OBVIOUS
<1>1. policy' = policy
  BY PolicyKept
<1>2. Passed("c2s")' = Passed("c2s") /\ Passed("s2c")' = Passed("s2c")
  BY <1>1, PassedKept
<1>3. ClientFrames' = ClientFrames
  BY <1>2 DEF ClientFrames
(* An action that leaves the clipboards alone. *)
<1>4. ASSUME ciphered' \in [Ends -> BOOLEAN], sent' \in Nat, UNCHANGED <<clip, pasted>>,
             toServer' \in Seq(ServerFrames), toClient' \in Seq(ClientFrames)
      PROVE  ClipInv'
  BY <1>2, <1>3, <1>4 DEF ClipInv
<1>5. /\ ciphered \in [Ends -> BOOLEAN] /\ sent \in Nat
      /\ toServer \in Seq(ServerFrames) /\ toClient \in Seq(ClientFrames)
      /\ "client" \in Ends /\ "server" \in Ends
  BY DEF ClipInv, Ends
<1>6. /\ <<>> \in Seq(ServerFrames) /\ <<>> \in Seq(ClientFrames)
      /\ toServer # <<>> => Head(toServer) \in ServerFrames /\ Tail(toServer) \in Seq(ServerFrames)
      /\ toClient # <<>> => Head(toClient) \in ClientFrames /\ Tail(toClient) \in Seq(ClientFrames)
      /\ \A f \in ServerFrames : Append(toServer, f) \in Seq(ServerFrames)
      /\ \A f \in ClientFrames : Append(toClient, f) \in Seq(ClientFrames)
  BY <1>5, Streams
<1>7. CASE ServerHandshake
  BY <1>4, <1>5, <1>7 DEF ServerHandshake, deskVars, Agreed
<1>8. CASE ClientHandshake
  BY <1>4, <1>5, <1>8 DEF ClientHandshake
<1>9. CASE Close
  BY <1>4, <1>5, <1>6, <1>9 DEF Close, deskVars
<1>10. CASE SendOpening
  <2>1. [type |-> "open", flag |-> FALSE, body |-> 0, length |-> 1] \in ServerFrames
    BY DEF ServerFrames
  <2>. QED
    BY <1>4, <1>5, <1>6, <1>10, <2>1 DEF SendOpening, deskVars
<1>11. CASE SendClipboard
  <2>1. ASSUME NEW content \in Contents
        PROVE  Frame("clipboard", "client", [dir |-> "c2s", content |-> content],
                     ClipLength(content)) \in ServerFrames
    BY <1>5, <2>1, ClipLengthType DEF Frame, ServerFrames
  <2>2. toServer' \in Seq(ServerFrames)
    <3>1. CASE UNCHANGED toServer
      BY <1>5, <3>1
    <3>2. ASSUME NEW content \in Contents,
                 Writes(Frame("clipboard", "client", [dir |-> "c2s", content |-> content],
                              ClipLength(content)))
          PROVE  toServer' \in Seq(ServerFrames)
      <4> DEFINE f == Frame("clipboard", "client", [dir |-> "c2s", content |-> content],
                            ClipLength(content))
      <4>1. f \in ServerFrames
        BY <2>1
      <4>2. toServer' = IF task = "over" THEN toServer ELSE Append(toServer, f)
        BY <3>2 DEF Writes
      <4> HIDE DEF f
      <4>. QED
        BY <1>5, <1>6, <4>1, <4>2, Zenon
    <3>. QED
      BY <1>11, <3>1, <3>2, Zenon DEF SendClipboard
  <2>. QED
    BY <1>4, <1>5, <1>11, <2>2 DEF SendClipboard, deskVars
<1>12. CASE SendInputBatch
  <2>1. Frame("input", "client", sent + 1, 1) \in ServerFrames
    BY <1>5 DEF Frame, ServerFrames
  <2>2. toServer' \in Seq(ServerFrames)
    BY <1>5, <1>6, <1>12, <2>1 DEF SendInputBatch, Writes
  <2>. QED
    BY <1>4, <1>5, <1>12, <2>2 DEF SendInputBatch, deskVars
<1>13. CASE SendClipboardToClient
  <2>1. ASSUME NEW content \in Contents, Allowed("s2c", content)
        PROVE  Frame("clipboard", "server", [dir |-> "s2c", content |-> content],
                     ClipLength(content)) \in ClientFrames
    BY <1>5, <2>1, ClipLengthType DEF Frame, ClientFrames, Passed
  <2>2. toClient' \in Seq(ClientFrames)
    BY <1>5, <1>6, <1>13, <2>1 DEF SendClipboardToClient
  <2>. QED
    BY <1>4, <1>5, <1>13, <2>2 DEF SendClipboardToClient, deskVars
<1>14. CASE Accept
  BY <1>4, <1>5, <1>14 DEF Accept, deskVars
<1>15. CASE MakeInjector
  <2>1. toServer' \in Seq(ServerFrames)
    BY <1>5, <1>6, <1>15 DEF MakeInjector
  <2>. QED
    BY <1>4, <1>5, <1>15, <2>1 DEF MakeInjector
<1>16. CASE PortalAnswers
  <2>1. toServer' \in Seq(ServerFrames)
    BY <1>5, <1>6, <1>16 DEF PortalAnswers
  <2>. QED
    BY <1>4, <1>5, <1>16, <2>1 DEF PortalAnswers, deskVars
<1>17. CASE LoseStep
  BY <1>4, <1>5, <1>6, <1>17 DEF LoseStep, deskVars
<1>18. CASE ReadOpening
  BY <1>4, <1>5, <1>6, <1>18 DEF ReadOpening, Receives
<1>19. CASE ReadInput
  BY <1>4, <1>5, <1>6, <1>19 DEF ReadInput, Receives
<1>20. CASE ReadClipboard
  <2> DEFINE req == Head(toServer).body
  <2>1. /\ toServer # <<>> /\ Head(toServer).type = "clipboard"
        /\ toServer' = Tail(toServer) /\ UNCHANGED <<ciphered, sent, toClient, pasted>>
    BY <1>20 DEF ReadClipboard, Receives
  <2>2. req.dir = "c2s" /\ req.content \in Contents
    BY <1>6, <2>1 DEF ServerFrames
  <2>3. \/ clip' = clip
        \/ /\ Allowed("c2s", req.content)
           /\ clip' = [clip EXCEPT !["server"] = req.content]
    BY <1>20, <2>2 DEF ReadClipboard, SetClipboard
  <2>4. CASE clip' = clip
    BY <1>4, <1>5, <1>6, <2>1, <2>4
  <2>5. CASE Allowed("c2s", req.content) /\ clip' = [clip EXCEPT !["server"] = req.content]
    <3>1. req.content \in Passed("c2s")
      BY <2>2, <2>5 DEF Passed
    <3>2. /\ clip' \in [Ends -> Contents \cup {NoContent}]
          /\ clip'["server"] \in Passed("c2s") \cup {NoContent}
          /\ clip'["client"] \in Passed("s2c") \cup {NoContent}
      <4> HIDE DEF req
      <4>. QED
        BY <2>2, <2>5, <3>1 DEF ClipInv, Ends
    <3>. QED
      BY <1>2, <1>3, <1>5, <1>6, <2>1, <3>2 DEF ClipInv
  <2>. QED
    BY <2>3, <2>4, <2>5
<1>21. CASE PortalApplies
  BY <1>4, <1>5, <1>21 DEF PortalApplies, deskVars
<1>22. CASE ClientLosesStep
  BY <1>4, <1>5, <1>6, <1>22 DEF ClientLosesStep, deskVars
<1>23. CASE ClientReceives
  <2> DEFINE content == Head(toClient).body.content
  <2>1. /\ toClient # <<>> /\ toClient' = Tail(toClient)
        /\ clip' = [clip EXCEPT !["client"] = content]
        /\ UNCHANGED <<ciphered, sent, toServer, pasted>>
    BY <1>23 DEF ClientReceives, ServeHere
  <2>2. content \in Passed("s2c") /\ content \in Contents
    BY <1>6, <2>1 DEF ClientFrames, Passed
  <2>3. /\ clip' \in [Ends -> Contents \cup {NoContent}]
        /\ clip'["server"] \in Passed("c2s") \cup {NoContent}
        /\ clip'["client"] \in Passed("s2c") \cup {NoContent}
    <3> HIDE DEF content
    <3>. QED
      BY <2>1, <2>2 DEF ClipInv, Ends
  <2>. QED
    BY <1>2, <1>3, <1>5, <1>6, <2>1, <2>3 DEF ClipInv
<1>24. ASSUME NEW e \in Ends, AppCopies(e) PROVE ClipInv'
  BY <1>4, <1>5, <1>24 DEF AppCopies
<1>25. ASSUME NEW e \in Ends, Paste(e) PROVE ClipInv'
  <2>1. /\ clip[e] # NoContent /\ pasted' = pasted \cup {[at |-> e, content |-> clip[e]]}
        /\ UNCHANGED <<ciphered, sent, toServer, toClient, clip>>
    BY <1>25 DEF Paste
  <2>2. \A p \in pasted' :
        p.content \in IF p.at = "server" THEN Passed("c2s") ELSE Passed("s2c")
    BY <2>1 DEF ClipInv, Ends
  <2>. QED
    BY <1>2, <1>3, <2>1, <2>2 DEF ClipInv
<1>26. CASE UNCHANGED vars
  BY <1>4, <1>5, <1>26 DEF vars, deskVars
<1>. QED
  BY <1>7, <1>8, <1>9, <1>10, <1>11, <1>12, <1>13, <1>14, <1>15, <1>16, <1>17, <1>18,
     <1>19, <1>20, <1>21, <1>22, <1>23, <1>24, <1>25, <1>26 DEF Next

(* Whatever the policy, nothing it refuses is pasted at either end            *)
(* (clipboard.rs, evaluate_proto; the client filters nothing).                *)
THEOREM PasteSafety == Spec => []PastesAllowed
<1>1. Init => ClipInv
  BY ClipInit
<1>2. ClipInv /\ [Next]_vars => ClipInv'
  BY ClipStep
<1>3. ClipInv => PastesAllowed
  BY DEF ClipInv, PastesAllowed, Passed
<1>. QED
  BY <1>1, <1>2, <1>3, PTL DEF Spec

-----------------------------------------------------------------------------
(* The inputs. *)

Seen == injected \o portal

IsInput(i) == toServer[i].type = "input"

(* The frame at place i of the stream holds the batch written that long ago. *)
BatchAt(i) == sent - (Len(toServer) - i)

(* The portal has batches only if the inputs go through it; the stream is     *)
(* empty once its task has ended and until the opening frame; the inputs come *)
(* last, and each knows its number by its place.                              *)
StreamInv ==
  /\ injected \in Seq(Nat) /\ portal \in Seq(Nat)
  /\ DOMAIN skipped = Ends /\ DOMAIN skewed = Ends
  /\ task \in {"portal", "over"} \/ portal = <<>>
  /\ task = "over" => toServer = <<>>
  /\ phase = "hello" => toServer = <<>>
  /\ phase = "ack" => task = "accept"
  /\ step = "opening" => toServer = <<>> /\ (phase = "open" => task = "accept")
  /\ step # "inputs" => sent = 0
  /\ \A i \in 1..Len(toServer) : IsInput(i) => step = "inputs" /\ toServer[i].body = BatchAt(i)

(* What was taken from the stream is increasing and before what is on it.     *)
OrderInv ==
  /\ \A i \in 1..Len(Seen) : Seen[i] <= sent /\ (i > 1 => Seen[i] > Seen[i - 1])
  /\ \A i \in 1..Len(toServer), j \in 1..Len(Seen) : IsInput(i) => Seen[j] < toServer[i].body

(* While no frame was too long: the reader is in step, it has every batch up  *)
(* to the last it has, and the stream every later one.                        *)
WholeInv ==
  ~ skipped["server"] =>
     /\ ~ skewed["server"]
     /\ \A i \in 1..Len(toServer) : ~ TooLong(toServer[i], ServerReads)
     /\ \A i \in 1..Len(Seen) : Seen[i] = i
     /\ task # "over" =>
           /\ Len(Seen) <= sent /\ sent - Len(Seen) <= Len(toServer)
           /\ \A i \in 1..Len(toServer) : IsInput(i) <=> BatchAt(i) > Len(Seen)

InputInv == StreamInv /\ OrderInv /\ WholeInv

LEMMA InputInit == Init => InputInv
BY DEF Init, InputInv, StreamInv, OrderInv, WholeInv, Seen, Ends

LEMMA InputInvFollow == InputInv => InputsFollow
<1>1. Seen \in Seq(Nat) \/ ~ StreamInv
  BY ConcatProperties DEF StreamInv, Seen
<1>. QED
  BY <1>1 DEF InputInv, OrderInv, WholeInv, InputsFollow, Seen

(* A queue that follows another one: one more element at the end, the first   *)
(* element handed to the queue before.                                        *)
LEMMA QueueGrows ==
  ASSUME NEW p \in Seq(Nat), NEW q \in Seq(Nat), NEW b \in Nat
  PROVE  p \o q \in Seq(Nat) /\ p \o Append(q, b) = Append(p \o q, b)
OBVIOUS

LEMMA QueueEmpty ==
  ASSUME NEW p \in Seq(Nat), NEW b \in Nat
  PROVE  Append(p, b) \o <<>> = Append(p \o <<>>, b)
OBVIOUS

LEMMA QueueMoves ==
  ASSUME NEW p \in Seq(Nat), NEW q \in Seq(Nat), q # <<>>
  PROVE  Append(p, Head(q)) \o Tail(q) = p \o q
OBVIOUS

(* What was taken, after one more batch or after the portal's thread has      *)
(* injected one.                                                              *)
LEMMA SeenGrows ==
  ASSUME injected \in Seq(Nat), portal \in Seq(Nat), NEW b \in Nat
  PROVE  /\ Seen \in Seq(Nat)
         /\ injected \o Append(portal, b) = Append(Seen, b)
         /\ portal = <<>> => Append(injected, b) \o portal = Append(Seen, b)
         /\ portal # <<>> => Append(injected, Head(portal)) \o Tail(portal) = Seen
<1>1. Seen \in Seq(Nat) /\ injected \o Append(portal, b) = Append(Seen, b)
  BY QueueGrows, Zenon DEF Seen
<1>2. ASSUME portal = <<>> PROVE Append(injected, b) \o portal = Append(Seen, b)
  BY <1>2, QueueEmpty, Zenon DEF Seen
<1>3. ASSUME portal # <<>>
      PROVE  Append(injected, Head(portal)) \o Tail(portal) = Seen
  BY <1>3, QueueMoves, Zenon DEF Seen
<1>. QED
  BY <1>1, <1>2, <1>3, Zenon

(* The stream and what was taken from it are left alone. *)
LEMMA StaysPut ==
  ASSUME InputInv, UNCHANGED <<toServer, sent, injected, portal>>,
         step' = step \/ (step = "clipboard" /\ step' = "inputs"),
         DOMAIN skipped' = Ends, DOMAIN skewed' = Ends,
         skipped'["server"] = skipped["server"], skewed'["server"] = skewed["server"],
         task' \in {"portal", "over"} \/ portal = <<>>,
         task' = "over" => toServer = <<>>, task = "over" => task' = "over",
         phase' = "hello" => phase = "hello", phase' = "ack" => task' = "accept",
         step' = "opening" /\ phase' = "open" => task' = "accept"
  PROVE  InputInv'
<1>1. Seen' = Seen /\ \A i : IsInput(i)' = IsInput(i) /\ BatchAt(i)' = BatchAt(i)
  BY DEF Seen, IsInput, BatchAt
<1>. QED
  BY <1>1 DEF InputInv, StreamInv, OrderInv, WholeInv

(* The task ends: the stream goes with it. *)
LEMMA TaskEnds ==
  ASSUME InputInv, UNCHANGED <<sent, step, injected, portal, skewed, skipped>>,
         toServer' = <<>>, task' = "over", phase' # "ack",
         phase' = "open" => step # "opening"
  PROVE  InputInv'
<1>1. Seen' = Seen /\ Len(toServer') = 0
  BY DEF Seen
<1>. QED
  BY <1>1 DEF InputInv, StreamInv, OrderInv, WholeInv

(* A frame written after the end of the task goes nowhere. *)
LEMMA WrittenInVain ==
  ASSUME InputInv, task = "over", sent \in Nat, step = "inputs" \/ sent' = sent,
         step' = "inputs", sent' = sent \/ sent' = sent + 1,
         UNCHANGED <<toServer, injected, portal, skewed, task, phase>>,
         DOMAIN skipped' = Ends, ~ skipped'["server"] => ~ skipped["server"]
  PROVE  InputInv'
<1>1. toServer' = <<>> /\ Len(toServer') = 0 /\ Seen' = Seen /\ Seen \in Seq(Nat)
  BY SeenGrows DEF Seen, InputInv, StreamInv
<1>2. \A i \in 1..Len(Seen) : Seen[i] \in Nat /\ Seen[i] <= sent'
  BY <1>1 DEF InputInv, OrderInv
<1>3. StreamInv'
  BY <1>1 DEF InputInv, StreamInv
<1>4. OrderInv'
  BY <1>1, <1>2 DEF InputInv, OrderInv
<1>5. WholeInv'
  BY <1>1 DEF InputInv, WholeInv
<1>. QED
  BY <1>3, <1>4, <1>5 DEF InputInv

(* The client writes a frame: an input with the next number, or another       *)
(* frame, before the first input.                                             *)
LEMMA FrameWritten ==
  ASSUME InputInv, NEW f \in ServerFrames, toServer \in Seq(ServerFrames),
         task # "over", phase # "hello", toServer' = Append(toServer, f), sent \in Nat,
         UNCHANGED <<injected, portal, skewed, task, phase>>,
         DOMAIN skipped' = Ends,
         ~ skipped'["server"] => ~ skipped["server"] /\ ~ TooLong(f, ServerReads),
         \/ f.type # "input" /\ step # "inputs" /\ sent' = sent
         \/ f.type = "input" /\ f.body = sent' /\ sent' = sent + 1 /\ step' = "inputs",
         step' # "opening", step' # "inputs" => step # "inputs"
  PROVE  InputInv'
<1>1. /\ Seen' = Seen /\ Seen \in Seq(Nat) /\ Len(Seen) \in Nat
      /\ Len(toServer) \in Nat /\ Len(toServer') = Len(toServer) + 1
      /\ \A i \in 1..Len(toServer) : toServer'[i] = toServer[i]
      /\ toServer'[Len(toServer) + 1] = f
  BY SeenGrows DEF Seen, InputInv, StreamInv
<1>2. PICK n \in Nat : n = Len(toServer')
  BY <1>1
<1>3. \A i \in 1..Len(toServer') : i \in 1..Len(toServer) \/ i = n
  BY <1>1, <1>2
<1>4. \A i \in 1..Len(toServer) : IsInput(i)' <=> IsInput(i)
  BY <1>1 DEF IsInput
<1>5. IsInput(n)' <=> f.type = "input"
  BY <1>2, <1>1 DEF IsInput
<1>6. sent' \in Nat /\ sent <= sent' /\ BatchAt(n)' = sent'
  BY <1>2, <1>1 DEF BatchAt
<1>7. CASE f.type # "input" /\ step # "inputs" /\ sent' = sent
  <2>1. sent = 0 /\ \A i \in 1..Len(toServer') : ~ IsInput(i)'
    BY <1>3, <1>4, <1>5, <1>7 DEF InputInv, StreamInv
  <2>2. StreamInv'
    BY <1>1, <1>7, <2>1 DEF InputInv, StreamInv
  <2>3. OrderInv'
    BY <1>1, <1>7, <2>1 DEF InputInv, OrderInv
  <2>4. WholeInv'
    <3>1. SUFFICES ASSUME ~ skipped'["server"] PROVE WholeInv'
      BY DEF WholeInv
    <3>2. \A i \in 1..Len(toServer') : ~ TooLong(toServer'[i], ServerReads)
      BY <1>1, <1>3, <3>1 DEF InputInv, WholeInv
    <3>3. Len(Seen) = 0
      BY <1>1, <2>1, <3>1 DEF InputInv, WholeInv
    <3>4. \A i \in 1..Len(toServer') : ~ (BatchAt(i)' > Len(Seen))
      BY <1>1, <1>7, <2>1 DEF BatchAt
    <3>. QED
      BY <1>1, <1>7, <2>1, <3>1, <3>2, <3>3, <3>4 DEF InputInv, WholeInv
  <2>. QED
    BY <2>2, <2>3, <2>4 DEF InputInv
<1>8. CASE f.type = "input" /\ f.body = sent' /\ sent' = sent + 1 /\ step' = "inputs"
  <2>1. \A i \in 1..Len(toServer) : BatchAt(i)' = BatchAt(i)
    BY <1>1, <1>8 DEF BatchAt
  <2>2. StreamInv'
    BY <1>1, <1>3, <1>4, <1>5, <1>6, <1>8, <2>1 DEF InputInv, StreamInv
  <2>3. OrderInv'
    <3>1. \A i \in 1..Len(Seen) : Seen[i] \in Nat /\ Seen[i] <= sent
      BY <1>1 DEF InputInv, OrderInv
    <3>2. \A i \in 1..Len(Seen) : Seen[i] <= sent' /\ (i > 1 => Seen[i] > Seen[i - 1])
      BY <1>8, <3>1 DEF InputInv, OrderInv
    <3>3. \A i \in 1..Len(toServer'), j \in 1..Len(Seen) :
             IsInput(i)' => Seen[j] < toServer'[i].body
      BY <1>1, <1>3, <1>4, <1>8, <3>1 DEF InputInv, OrderInv
    <3>. QED
      BY <1>1, <3>2, <3>3 DEF OrderInv
  <2>4. WholeInv'
    <3>1. SUFFICES ASSUME ~ skipped'["server"] PROVE WholeInv'
      BY DEF WholeInv
    <3>2. \A i \in 1..Len(toServer') : ~ TooLong(toServer'[i], ServerReads)
      BY <1>1, <1>3, <3>1 DEF InputInv, WholeInv
    <3>3. Len(Seen) <= sent /\ sent - Len(Seen) <= Len(toServer)
      BY <3>1 DEF InputInv, WholeInv
    <3>4. Len(Seen) <= sent' /\ sent' - Len(Seen) <= Len(toServer')
      BY <1>1, <1>8, <3>3
    <3>5. \A i \in 1..Len(toServer') : IsInput(i)' <=> BatchAt(i)' > Len(Seen)
      <4>1. \A i \in 1..Len(toServer) : IsInput(i)' <=> BatchAt(i)' > Len(Seen)
        BY <1>4, <2>1, <3>1 DEF InputInv, WholeInv
      <4>2. IsInput(n)' /\ BatchAt(n)' > Len(Seen)
        BY <1>5, <1>6, <1>8, <3>3, <1>1
      <4>. QED
        BY <1>3, <4>1, <4>2
    <3>. QED
      BY <1>1, <3>1, <3>2, <3>4, <3>5 DEF InputInv, WholeInv
  <2>. QED
    BY <2>2, <2>3, <2>4 DEF InputInv
<1>. QED
  BY <1>7, <1>8

(* The reader loses its step, and with it a frame, only after a frame that    *)
(* was too long; the batch of an input is taken, another frame is not.        *)
LEMMA FrameTaken ==
  ASSUME InputInv, toServer \in Seq(ServerFrames), toServer # <<>>,
         toServer' = Tail(toServer), sent \in Nat,
         UNCHANGED <<sent, step, phase, task, skipped>>,
         injected' \in Seq(Nat), portal' \in Seq(Nat),
         task \in {"portal", "over"} \/ portal' = <<>>,
         DOMAIN skewed' = Ends, skipped["server"] \/ skewed'["server"] = skewed["server"],
         \/ Seen' = Seen /\ (skipped["server"] \/ ~ IsInput(1))
         \/ IsInput(1) /\ Seen' = Append(Seen, toServer[1].body)
  PROVE  InputInv'
<1>1. /\ Seen \in Seq(Nat) /\ Len(Seen) \in Nat
      /\ Len(toServer) \in Nat /\ 1 \in 1..Len(toServer) /\ Len(toServer') = Len(toServer) - 1
      /\ \A i \in 1..Len(toServer') : i + 1 \in 1..Len(toServer) /\ toServer'[i] = toServer[i + 1]
  <2>1. Seen \in Seq(Nat)
    BY SeenGrows DEF InputInv, StreamInv
  <2>2. /\ Len(toServer) \in Nat /\ Len(toServer) # 0 /\ Len(toServer') = Len(toServer) - 1
        /\ \A i \in 1..Len(toServer') : toServer'[i] = toServer[i + 1]
    BY HeadTailProperties
  <2>. QED
    BY <2>1, <2>2
<1>2. \A i \in 1..Len(toServer') : /\ IsInput(i)' <=> IsInput(i + 1)
                                   /\ BatchAt(i)' = BatchAt(i + 1)
  BY <1>1 DEF IsInput, BatchAt
<1>3. BatchAt(1) \in Int /\ \A i \in 1..Len(toServer) : i # 1 => BatchAt(i) > BatchAt(1)
  BY <1>1 DEF BatchAt
<1>4. \A i \in 1..Len(toServer) : IsInput(i) => toServer[i].body = BatchAt(i)
  BY DEF InputInv, StreamInv
<1>5. StreamInv'
  <2>1. \A i \in 1..Len(toServer') :
           IsInput(i)' => step = "inputs" /\ toServer'[i].body = BatchAt(i)'
    BY <1>1, <1>2 DEF InputInv, StreamInv
  <2>2. task # "over" /\ step # "opening"
    BY DEF InputInv, StreamInv
  <2>. QED
    BY <2>1, <2>2 DEF InputInv, StreamInv
<1>6. ~ skipped["server"] => /\ ~ skewed'["server"]
                             /\ \A i \in 1..Len(toServer') : ~ TooLong(toServer'[i], ServerReads)
  BY <1>1 DEF InputInv, WholeInv
<1>7. task # "over"
  BY DEF InputInv, StreamInv
<1>8. CASE Seen' = Seen /\ (skipped["server"] \/ ~ IsInput(1))
  <2>1. OrderInv'
    BY <1>1, <1>2, <1>8 DEF InputInv, OrderInv
  <2>2. WholeInv'
    <3>1. SUFFICES ASSUME ~ skipped["server"] PROVE WholeInv'
      BY DEF WholeInv
    <3>2. /\ Len(Seen) <= sent /\ sent - Len(Seen) <= Len(toServer)
          /\ \A i \in 1..Len(toServer) : IsInput(i) <=> BatchAt(i) > Len(Seen)
      BY <1>7, <3>1 DEF InputInv, WholeInv
    <3>3. sent - Len(Seen) <= Len(toServer')
      BY <1>1, <1>8, <3>1, <3>2 DEF BatchAt
    <3>. QED
      BY <1>1, <1>2, <1>6, <1>8, <3>1, <3>2, <3>3 DEF InputInv, WholeInv
  <2>. QED
    BY <1>5, <2>1, <2>2 DEF InputInv
<1>9. CASE IsInput(1) /\ Seen' = Append(Seen, toServer[1].body)
  <2>1. toServer[1].body = BatchAt(1) /\ BatchAt(1) <= sent
    BY <1>1, <1>4, <1>9 DEF BatchAt
  <2>2. /\ Len(Seen') = Len(Seen) + 1 /\ Seen'[Len(Seen) + 1] = BatchAt(1)
        /\ \A i \in 1..Len(Seen) : Seen'[i] = Seen[i]
    BY <1>1, <1>9, <2>1
  <2>3. \A i \in 1..Len(Seen') : i \in 1..Len(Seen) \/ i = Len(Seen) + 1
    BY <1>1, <2>2
  <2>4. \A i \in 1..Len(Seen) : Seen[i] \in Nat /\ Seen[i] < BatchAt(1)
    <3>1. \A i \in 1..Len(Seen) : Seen[i] < toServer[1].body
      BY <1>1, <1>9 DEF InputInv, OrderInv
    <3>2. toServer[1].body = BatchAt(1)
      BY <2>1, Zenon
    <3>3. ASSUME NEW i \in 1..Len(Seen) PROVE Seen[i] \in Nat /\ Seen[i] < BatchAt(1)
      <4>1. Seen[i] < BatchAt(1)
        BY <3>1, <3>2, Zenon
      <4>2. Seen \in Seq(Nat) => Seen[i] \in Nat
        BY ElementOfSeq, Zenon
      <4>. QED
        BY <1>1, <4>1, <4>2, Zenon
    <3>. QED
      BY <3>3, Zenon
  <2>5. OrderInv'
    <3>1. \A i \in 1..Len(Seen') : Seen'[i] <= sent /\ (i > 1 => Seen'[i] > Seen'[i - 1])
      <4>1. ASSUME NEW i \in 1..Len(Seen)
            PROVE  Seen'[i] <= sent /\ (i > 1 => Seen'[i] > Seen'[i - 1])
        <5>1. Seen[i] <= sent /\ (i > 1 => Seen[i] > Seen[i - 1])
          BY DEF InputInv, OrderInv
        <5>2. i > 1 => i - 1 \in 1..Len(Seen)
          BY <1>1
        <5>. QED
          BY <2>2, <5>1, <5>2
      <4>2. ASSUME NEW i \in 1..Len(Seen'), i = Len(Seen) + 1
            PROVE  Seen'[i] <= sent /\ (i > 1 => Seen'[i] > Seen'[i - 1])
        <5>1. Seen'[i] = BatchAt(1) /\ (i > 1 => i - 1 \in 1..Len(Seen))
          BY <1>1, <2>2, <4>2
        <5>2. i > 1 => Seen'[i - 1] \in Nat /\ Seen'[i - 1] < BatchAt(1)
          BY <2>2, <2>4, <5>1
        <5>. QED
          BY <1>3, <2>1, <5>1, <5>2
      <4>. QED
        BY <2>3, <4>1, <4>2
    <3>2. \A i \in 1..Len(toServer'), j \in 1..Len(Seen') :
             IsInput(i)' => Seen'[j] < toServer'[i].body
      <4>1. SUFFICES ASSUME NEW i \in 1..Len(toServer'), NEW j \in 1..Len(Seen'), IsInput(i)'
                     PROVE  Seen'[j] < toServer'[i].body
        OBVIOUS
      <4>2. /\ i + 1 \in 1..Len(toServer) /\ IsInput(i + 1)
            /\ toServer'[i].body = toServer[i + 1].body
        BY <1>1, <1>2, <4>1
      <4>3. toServer[i + 1].body = BatchAt(i + 1) /\ BatchAt(i + 1) > BatchAt(1)
        <5>1. toServer[i + 1].body = BatchAt(i + 1)
          BY <1>4, <4>2, Zenon
        <5>2. i \in Nat /\ i + 1 > 1
          BY <1>1
        <5>3. BatchAt(i + 1) > BatchAt(1)
          BY <5>2, SMT DEF BatchAt
        <5>. QED
          BY <5>1, <5>3
      <4>4. CASE j \in 1..Len(Seen)
        BY <2>2, <4>2, <4>4 DEF InputInv, OrderInv
      <4>5. CASE j = Len(Seen) + 1
        BY <2>2, <4>2, <4>3, <4>5
      <4>. QED
        BY <2>3, <4>4, <4>5
    <3>. QED
      BY <3>1, <3>2 DEF OrderInv
  <2>6. WholeInv'
    <3>1. SUFFICES ASSUME ~ skipped["server"] PROVE WholeInv'
      BY DEF WholeInv
    <3>2. /\ Len(Seen) <= sent /\ sent - Len(Seen) <= Len(toServer)
          /\ \A i \in 1..Len(toServer) : IsInput(i) <=> BatchAt(i) > Len(Seen)
          /\ \A i \in 1..Len(Seen) : Seen[i] = i
      BY <1>7, <3>1 DEF InputInv, WholeInv
    <3>3. sent - Len(Seen) = Len(toServer) /\ BatchAt(1) = Len(Seen) + 1
      <4>1. BatchAt(1) > Len(Seen)
        BY <1>1, <1>9, <3>2
      <4>2. sent - (Len(toServer) - 1) > Len(Seen)
        BY <4>1 DEF BatchAt
      <4>3. Len(Seen) \in Nat /\ Len(toServer) \in Nat /\ sent - Len(Seen) <= Len(toServer)
        BY <1>1, <3>2
      <4>4. \A a, b, c \in Nat : a - (b - 1) > c /\ a - c <= b => a - c = b
        OBVIOUS
      <4>5. sent - Len(Seen) = Len(toServer)
        BY <4>2, <4>3, <4>4
      <4>. QED
        BY <4>3, <4>5 DEF BatchAt
    <3>4. Len(Seen') <= sent /\ sent - Len(Seen') <= Len(toServer')
      BY <1>1, <2>2, <3>3
    <3>5. \A i \in 1..Len(Seen') : Seen'[i] = i
      BY <2>2, <2>3, <3>2, <3>3
    <3>6. \A i \in 1..Len(toServer') : IsInput(i)' <=> BatchAt(i)' > Len(Seen')
      <4>1. SUFFICES ASSUME NEW i \in 1..Len(toServer')
                     PROVE  IsInput(i)' <=> BatchAt(i)' > Len(Seen')
        OBVIOUS
      <4>2. BatchAt(i)' = Len(Seen) + 1 + i /\ BatchAt(i)' = BatchAt(i + 1)
        BY <1>1, <1>2, <3>3 DEF BatchAt
      <4>3. BatchAt(i + 1) > Len(Seen') /\ BatchAt(i + 1) > Len(Seen)
        BY <1>1, <2>2, <4>2
      <4>. QED
        BY <1>1, <1>2, <3>2, <4>2, <4>3
    <3>. QED
      BY <1>6, <1>7, <3>1, <3>4, <3>5, <3>6 DEF WholeInv
  <2>. QED
    BY <1>5, <2>5, <2>6 DEF InputInv
<1>. QED
  BY <1>8, <1>9

(* Frames go to a task that has not ended; a message ends no task. *)
LEMMA InputStep ==
  ClipInv /\ InputInv /\ [Next]_vars => InputInv'
<1> SUFFICES ASSUME ClipInv, InputInv, [Next]_vars PROVE InputInv'
  OBVIOUS
<1>1. /\ sent \in Nat /\ toServer \in Seq(ServerFrames) /\ ciphered \in [Ends -> BOOLEAN]
      /\ DOMAIN skipped = Ends /\ DOMAIN skewed = Ends
      /\ injected \in Seq(Nat) /\ portal \in Seq(Nat)
      /\ "server" \in Ends /\ "client" \in Ends
  BY DEF ClipInv, InputInv, StreamInv, Ends
<1>2. /\ task \in {"portal", "over"} \/ portal = <<>>
      /\ task = "over" => toServer = <<>>
      /\ phase = "hello" => toServer = <<>>
      /\ phase = "ack" => task = "accept"
      /\ step = "opening" => toServer = <<>> /\ (phase = "open" => task = "accept")
  BY DEF InputInv, StreamInv
<1>3. CASE ServerHandshake
  <2>1. task' = "accept" \/ task' = "over"
    BY <1>3 DEF ServerHandshake
  <2>. QED
    BY <1>1, <1>2, <1>3, <2>1, StaysPut DEF ServerHandshake
<1>4. CASE ClientHandshake
  BY <1>1, <1>2, <1>4, StaysPut DEF ClientHandshake
<1>5. CASE Close
  BY <1>5, TaskEnds DEF Close
<1>6. CASE SendOpening
  <2> DEFINE f == [type |-> "open", flag |-> FALSE, body |-> 0, length |-> 1]
  <2>1. /\ f \in ServerFrames /\ f.type # "input" /\ ~ TooLong(f, ServerReads)
        /\ toServer' = Append(toServer, f)
    BY <1>6, ControlAssumption DEF SendOpening, ServerFrames, TooLong
  <2> HIDE DEF f
  <2>. QED
    BY <1>1, <1>2, <1>6, <2>1, FrameWritten DEF SendOpening
<1>7. CASE SendClipboard
  <2>1. CASE UNCHANGED <<toServer, skipped>>
    BY <1>1, <1>2, <1>7, <2>1, StaysPut DEF SendClipboard
  <2>2. ASSUME NEW f \in ServerFrames, f.type # "input", Writes(f),
               skipped' = [skipped EXCEPT !["server"] = @ \/ TooLong(f, ServerReads)]
        PROVE  InputInv'
    <3>1. CASE task = "over"
      BY <1>1, <1>2, <1>7, <2>2, <3>1, WrittenInVain DEF SendClipboard, Writes
    <3>2. CASE task # "over"
      BY <1>1, <1>2, <1>7, <2>2, <3>2, FrameWritten DEF SendClipboard, Writes
    <3>. QED
      BY <3>1, <3>2
  <2>3. ASSUME NEW content \in Contents
        PROVE  /\ Frame("clipboard", "client", [dir |-> "c2s", content |-> content],
                        ClipLength(content)) \in ServerFrames
               /\ Frame("clipboard", "client", [dir |-> "c2s", content |-> content],
                        ClipLength(content)).type # "input"
    BY <1>1, <2>3, ClipLengthType DEF Frame, ServerFrames
  <2>. QED
    BY <1>7, <2>1, <2>2, <2>3 DEF SendClipboard
<1>8. CASE SendInputBatch
  <2> DEFINE f == Frame("input", "client", sent + 1, 1)
  <2>1. /\ f \in ServerFrames /\ f.type = "input" /\ f.body = sent + 1
        /\ ~ TooLong(f, ServerReads) /\ Writes(f)
    BY <1>1, <1>8, ControlAssumption DEF SendInputBatch, Frame, ServerFrames, TooLong
  <2> HIDE DEF f
  <2>2. CASE task = "over"
    BY <1>1, <1>2, <1>8, <2>1, <2>2, WrittenInVain DEF SendInputBatch, Writes
  <2>3. CASE task # "over"
    BY <1>1, <1>2, <1>8, <2>1, <2>3, FrameWritten DEF SendInputBatch, Writes
  <2>. QED
    BY <2>2, <2>3
<1>9. CASE Accept
  BY <1>1, <1>2, <1>9, StaysPut DEF Accept
<1>10. CASE SendClipboardToClient
  <2>1. DOMAIN skipped' = Ends /\ skipped'["server"] = skipped["server"]
    BY <1>1, <1>10 DEF SendClipboardToClient
  <2>. QED
    BY <1>1, <1>2, <1>10, <2>1, StaysPut DEF SendClipboardToClient
<1>11. CASE MakeInjector
  <2>1. CASE task' = "over"
    BY <1>1, <1>2, <1>11, <2>1, TaskEnds DEF MakeInjector
  <2>2. CASE task' # "over"
    BY <1>1, <1>2, <1>11, <2>2, StaysPut DEF MakeInjector, NewXtest
  <2>. QED
    BY <2>1, <2>2
<1>12. CASE PortalAnswers
  <2>1. CASE task' = "over"
    BY <1>1, <1>2, <1>12, <2>1, TaskEnds DEF PortalAnswers
  <2>2. CASE task' # "over"
    BY <1>1, <1>2, <1>12, <2>2, StaysPut DEF PortalAnswers
  <2>. QED
    BY <2>1, <2>2
<1>13. CASE LoseStep
  <2>1. /\ toServer # <<>> /\ toServer' = Tail(toServer) /\ Head(toServer) = toServer[1]
        /\ UNCHANGED <<sent, step, phase, task, skipped, injected, portal>>
        /\ DOMAIN skewed' = Ends /\ Seen' = Seen
    BY <1>1, <1>13 DEF LoseStep, Seen
  <2>2. 1 \in 1..Len(toServer)
    BY <1>1, <2>1
  <2>3. skipped["server"]
    BY <1>13, <2>1, <2>2 DEF LoseStep, InputInv, WholeInv
  <2>. QED
    BY <1>1, <1>2, <2>1, <2>3, FrameTaken
(* What every reading of a whole frame does. *)
<1>14. ASSUME NEW type, Receives(type)
       PROVE  /\ toServer # <<>> /\ toServer' = Tail(toServer)
              /\ (IsInput(1) <=> type = "input")
              /\ Head(toServer) = toServer[1] /\ toServer[1] \in ServerFrames
              /\ task \in {"xtest", "portal"} /\ DOMAIN skewed' = Ends
              /\ UNCHANGED <<sent, step, phase, task, skipped, skewed>>
  BY <1>1, <1>14 DEF Receives, Reading, IsInput
<1>15. CASE ReadOpening \/ ReadClipboard
  <2>1. PICK type : type # "input" /\ Receives(type) /\ UNCHANGED <<portal, injected>>
    BY <1>15 DEF ReadOpening, ReadClipboard
  <2>2. Seen' = Seen
    BY <2>1 DEF Seen
  <2>. QED
    BY <1>1, <1>2, <1>14, <2>1, <2>2, FrameTaken
<1>16. CASE ReadInput
  <2>1. Receives("input") /\ IsInput(1) /\ toServer[1].body \in Nat
    BY <1>14, <1>16 DEF ReadInput, ServerFrames, IsInput
  <2> DEFINE b == toServer[1].body
  <2>2. \/ task = "xtest" /\ injected' = Append(injected, b) /\ portal' = portal
        \/ task = "portal" /\ portal' = Append(portal, b) /\ injected' = injected
    BY <1>14, <1>16, <2>1 DEF ReadInput, XtestInjects, PortalQueues
  <2> HIDE DEF b
  <2>3. b \in Nat
    BY <2>1 DEF b
  <2>4. /\ injected' \in Seq(Nat) /\ portal' \in Seq(Nat)
        /\ task = "portal" \/ portal' = <<>>
    <3>1. Append(injected, b) \in Seq(Nat) /\ Append(portal, b) \in Seq(Nat)
      BY <1>1, <2>3, AppendProperties
    <3>. QED
      BY <1>1, <1>2, <2>2, <3>1
  <2>5. /\ injected \o Append(portal, b) = Append(Seen, b)
        /\ portal = <<>> => Append(injected, b) \o portal = Append(Seen, b)
    BY <1>1, <2>3, SeenGrows
  <2>6. Seen' = Append(Seen, b)
    BY <1>2, <2>2, <2>5 DEF Seen
  <2>. QED
    BY <1>1, <1>14, <2>1, <2>4, <2>6, FrameTaken DEF b
<1>17. CASE PortalApplies
  <2>1. /\ portal # <<>> /\ injected' = Append(injected, Head(portal)) /\ portal' = Tail(portal)
        /\ UNCHANGED <<task, phase, step, toServer, sent, skewed, skipped>>
    BY <1>17 DEF PortalApplies, PortalInjects
  <2>2. /\ injected' \in Seq(Nat) /\ portal' \in Seq(Nat)
        /\ Append(injected, Head(portal)) \o Tail(portal) = Seen
    BY <1>1, <2>1, SeenGrows, HeadTailProperties, AppendProperties
  <2>3. Seen' = Seen
    BY <2>1, <2>2 DEF Seen
  <2>4. \A i : IsInput(i)' = IsInput(i) /\ BatchAt(i)' = BatchAt(i)
    BY <2>1 DEF IsInput, BatchAt
  <2>5. task \in {"portal", "over"}
    BY <1>2, <2>1
  <2>. QED
    BY <2>1, <2>2, <2>3, <2>4, <2>5 DEF InputInv, StreamInv, OrderInv, WholeInv
<1>18. CASE ClientLosesStep
  <2>1. DOMAIN skewed' = Ends /\ skewed'["server"] = skewed["server"]
    BY <1>1, <1>18 DEF ClientLosesStep
  <2>. QED
    BY <1>1, <1>2, <1>18, <2>1, StaysPut DEF ClientLosesStep
<1>19. CASE ClientReceives \/ \E e \in Ends : AppCopies(e) \/ Paste(e)
  BY <1>1, <1>2, <1>19, StaysPut DEF ClientReceives, AppCopies, Paste
<1>20. CASE UNCHANGED vars
  BY <1>1, <1>2, <1>20, StaysPut DEF vars
<1>. QED
  BY <1>3, <1>4, <1>5, <1>6, <1>7, <1>8, <1>9, <1>10, <1>11, <1>12, <1>13, <1>15, <1>16,
     <1>17, <1>18, <1>19, <1>20 DEF Next

(* Batches are injected in the order they were written, none twice, and none  *)
(* is missing before one that is injected while no frame was too long for the *)
(* server, whatever the injector, its thread and the end of the session do    *)
(* (run_session, the control task; portal_thread).                            *)
THEOREM InputSafety == Spec => []InputsFollow
<1>1. Init => ClipInv /\ InputInv
  BY ClipInit, InputInit
<1>2. ClipInv /\ InputInv /\ [Next]_vars => ClipInv' /\ InputInv'
  BY ClipStep, InputStep
<1>3. InputInv => InputsFollow
  BY InputInvFollow
<1>. QED
  BY <1>1, <1>2, <1>3, PTL DEF Spec

=============================================================================
