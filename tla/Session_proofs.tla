---------------------------- MODULE Session_proofs ----------------------------
(***************************************************************************)
(* Proofs about a session as three parts of the repository keep it: the    *)
(* process of a client (ClientSession), the standalone server's threads    *)
(* (LocalSession) and the archive's recordings (AuditArchive).  They share *)
(* no state: the first two are instances, whose parameters are any.        *)
(***************************************************************************)
EXTENDS AuditArchive, TLAPS

(* The client: its number of failures is not the archive's. *)
CONSTANTS MaxAttempts, MaxFailures, AutoReconnect
VARIABLES phase, try, window, sigint, conn, vm, agent, screen, proxy, caps, failures

Client == INSTANCE ClientSession WITH MaxFaults <- MaxFailures, faults <- failures

(* The standalone server. *)
CONSTANTS Backends, CaptureSize, EncodeSize, Workers, PoolSize
VARIABLES backend, stage, gone, cancelled, capture, encoder, failed, raw, encoded, waiting

Local == INSTANCE LocalSession

-----------------------------------------------------------------------------
(* The client.                                                               *)

(* Before the acknowledgement there is no window, and none is open while the  *)
(* process waits to try again.                                                *)
WindowInv ==
  /\ phase \in {"top", "broker", "dial", "hello", "uni", "live", "retry", "gone"}
  /\ window \in {"none", "open", "dead"}
  /\ phase \in {"top", "broker", "dial", "hello"} => window = "none"
  /\ phase = "retry" => window # "open"

LEMMA WindowInit == Client!Init => WindowInv
BY DEF Client!Init, WindowInv

(* A failed attempt closes the window it has opened. *)
LEMMA FailKeeps == WindowInv /\ Client!Fail => WindowInv' /\ phase' # "broker"
BY DEF WindowInv, Client!Fail

(* A client goes back to the broker without a window only. *)
LEMMA WindowStep ==
  WindowInv /\ [Client!Next]_Client!vars => WindowInv' /\ (phase' = "broker" => window = "none")
<1> SUFFICES ASSUME WindowInv, [Client!Next]_Client!vars
             PROVE  WindowInv' /\ (phase' = "broker" => window = "none")
  OBVIOUS
(* The other end, and the client's SIGINT. *)
<1>1. ASSUME UNCHANGED <<phase, window>>
      PROVE  WindowInv' /\ (phase' = "broker" => window = "none")
  BY <1>1 DEF WindowInv
<1>2. CASE Client!NextAttempt
  BY <1>2 DEF Client!NextAttempt, WindowInv
<1>3. CASE Client!RetryElapsed
  BY <1>3 DEF Client!RetryElapsed, WindowInv
<1>4. CASE Client!BrokerGives \/ Client!Dial
  BY <1>4 DEF Client!BrokerGives, Client!Dial, WindowInv
<1>5. CASE Client!BrokerRefuses \/ Client!AnswerLost \/ Client!DialFails \/ Client!ConnectionFails
  BY <1>5, FailKeeps
  DEF Client!BrokerRefuses, Client!AnswerLost, Client!DialFails, Client!ConnectionFails
<1>6. CASE Client!Acknowledged
  BY <1>6 DEF Client!Acknowledged, WindowInv
<1>7. CASE Client!VideoAccepted \/ Client!LiveEnds
  BY <1>7 DEF Client!VideoAccepted, Client!LiveEnds, WindowInv
<1>8. CASE Client!WindowClosed
  BY <1>8 DEF Client!WindowClosed, WindowInv
<1>9. CASE Client!Exit
  BY <1>9 DEF Client!Exit, WindowInv
<1>10. CASE Client!CtrlC \/ Client!WindowKills
  BY <1>1, <1>10 DEF Client!CtrlC, Client!WindowKills
<1>11. CASE Client!ProxyCrash \/ Client!ProxyRestarts
  BY <1>1, <1>11 DEF Client!ProxyCrash, Client!ProxyRestarts, Client!ClientSide
<1>12. ASSUME NEW a \in Client!Attempts,
              \/ Client!Handler(a) \/ Client!TokenRefused(a) \/ Client!StreamEnds(a, FALSE)
       PROVE  UNCHANGED <<phase, window>>
  BY <1>12
  DEF Client!Handler, Client!HelloFails, Client!TokenAccepted, Client!SendAck,
      Client!AgentWaitTimesOut, Client!StartPipeline, Client!StreamEnds, Client!TokenRefused,
      Client!ClientSide
<1>13. ASSUME NEW a \in Client!Attempts,
              \/ Client!IdleTimeout(a) \/ Client!NetworkLost(a) \/ Client!AgentStarts(a)
              \/ Client!AgentConnects(a)
              \/ Client!ScreenChanges(a) \/ Client!AgentDies(a)
       PROVE  UNCHANGED <<phase, window>>
  BY <1>13
  DEF Client!IdleTimeout, Client!NetworkLost, Client!AgentStarts, Client!AgentConnects,
      Client!ScreenChanges, Client!AgentDies, Client!ClientSide
<1>14. CASE UNCHANGED Client!vars
  BY <1>1, <1>14 DEF Client!vars
<1>. QED
  BY <1>1, <1>2, <1>3, <1>4, <1>5, <1>6, <1>7, <1>8, <1>9, <1>10, <1>11, <1>12, <1>13, <1>14
  DEF Client!Next, Client!ClientStep

(* However often it fails and whatever dies around it, a process that has had *)
(* a window never asks the broker again (run, 310-313 of run_session).        *)
THEOREM OneWindow == Client!Spec => Client!NoReconnectAfterWindow
<1>1. Client!Init => WindowInv
  BY WindowInit
<1>2. WindowInv /\ [Client!Next]_Client!vars =>
         WindowInv' /\ [phase' = "broker" => window = "none"]_Client!vars
  BY WindowStep
<1>. QED
  BY <1>1, <1>2, PTL DEF Client!Spec, Client!NoReconnectAfterWindow

-----------------------------------------------------------------------------
(* The standalone server: where a session and its threads can be. *)
Stages == Local!Asking \cup {"none", "acknowledged", "created", "select", "writing",
                       "await capture", "await encoder", "done"}
CaptureStates == {"none", "spawned", "capturing", "ended"}
EncoderStates == {"none", "spawned", "top", "receive", "send", "ended"}

(* A session is cancelled once its loop is over; before that, a thread that   *)
(* has ended is one that could not start, or follows one, or is the stub.     *)
SessionInv ==
  /\ stage \in [Sessions -> Stages] /\ cancelled \in [Sessions -> BOOLEAN]
  /\ capture \in [Sessions -> CaptureStates] /\ encoder \in [Sessions -> EncoderStates]
  /\ failed \in [Sessions -> BOOLEAN]
  /\ \A s \in Sessions :
        /\ cancelled[s] => stage[s] \in {"await capture", "await encoder", "done"}
        /\ stage[s] \in {"select", "writing"} /\ "ended" \in {capture[s], encoder[s]} =>
              failed[s] \/ backend = "stub"

LEMMA SessionInit == Local!Init => SessionInv
BY DEF Local!Init, SessionInv, Stages, CaptureStates, EncoderStates

(* A thread that starts, or cannot. *)
LEMMA StartThreadKeeps == SessionInv /\ Local!StartThread => SessionInv'
<1> SUFFICES ASSUME SessionInv, Local!StartThread PROVE SessionInv'
  OBVIOUS
<1> DEFINE r == Head(waiting)[2]
<1>1. UNCHANGED <<backend, stage, cancelled>>
  BY DEF Local!StartThread
<1>2. \/ /\ UNCHANGED encoder
         /\ \E t \in {"capturing", "ended"} : capture' = [capture EXCEPT ![r] = t]
         /\ failed' = [failed EXCEPT ![r] = @ \/ capture'[r] = "ended"]
      \/ /\ UNCHANGED capture
         /\ \E t \in {"top", "ended"} : encoder' = [encoder EXCEPT ![r] = t]
         /\ failed' = [failed EXCEPT ![r] = @ \/ encoder'[r] = "ended"]
  BY DEF Local!StartThread
<1> HIDE DEF r
<1>3. /\ capture' \in [Sessions -> CaptureStates] /\ encoder' \in [Sessions -> EncoderStates]
      /\ failed' \in [Sessions -> BOOLEAN]
  <2>1. /\ capture \in [Sessions -> CaptureStates] /\ encoder \in [Sessions -> EncoderStates]
        /\ failed \in [Sessions -> BOOLEAN]
        /\ {"capturing", "ended"} \subseteq CaptureStates /\ {"top", "ended"} \subseteq EncoderStates
    BY DEF SessionInv, CaptureStates, EncoderStates
  <2>2. capture' \in [Sessions -> CaptureStates] /\ encoder' \in [Sessions -> EncoderStates]
    BY <1>2, <2>1
  <2>3. failed' \in [Sessions -> BOOLEAN]
    BY <1>2, <2>1, Zenon
  <2>. QED
    BY <2>2, <2>3
<1>4. ASSUME NEW s \in Sessions
      PROVE  /\ failed[s] => failed'[s]
             /\ capture'[s] = "ended" => capture[s] = "ended" \/ failed'[s]
             /\ encoder'[s] = "ended" => encoder[s] = "ended" \/ failed'[s]
  BY <1>2 DEF SessionInv
<1>. QED
  BY <1>1, <1>3, <1>4 DEF SessionInv

(* Each step of the threads of the sessions keeps the invariant. *)
LEMMA SessionStep == SessionInv /\ [Local!Next]_Local!vars => SessionInv'
<1> SUFFICES ASSUME SessionInv, [Local!Next]_Local!vars PROVE SessionInv'
  OBVIOUS
<1> USE DEF SessionInv, Stages, Local!Asking, CaptureStates, EncoderStates
<1>1. CASE Local!StartThread
  BY <1>1, StartThreadKeeps
<1>2. ASSUME NEW s \in Sessions, NEW from \in Stages, NEW to \in Stages, Local!Moves(s, from, to),
             from = "await capture" => to = "await encoder",
             from \notin {"await encoder", "done"},
             to \in {"select", "writing"} => from = "writing"
      PROVE  SessionInv'
  <2>1. /\ stage[s] = from /\ stage' = [stage EXCEPT ![s] = to]
        /\ UNCHANGED <<backend, cancelled, capture, encoder, failed>>
    BY <1>2 DEF Local!Moves
  <2>. QED
    BY <1>2, <2>1
<1>3. ASSUME NEW s \in Sessions,
              \/ Local!Accept(s) \/ Local!Refuse(s) \/ Local!PortalAnswersSize(s)
              \/ Local!AskPortal(s)
       PROVE  SessionInv'
  BY <1>2, <1>3 DEF Local!Accept, Local!Refuse, Local!PortalAnswersSize, Local!AskPortal
<1>4. ASSUME NEW s \in Sessions, Local!PortalAnswers(s) PROVE SessionInv'
  BY <1>2, <1>4 DEF Local!PortalAnswers
<1>5. ASSUME NEW s \in Sessions, Local!OpenDisplay(s) PROVE SessionInv'
  <2>1. Local!Moves(s, "acknowledged", "created") \/ Local!Moves(s, "acknowledged", "done")
    BY <1>5 DEF Local!OpenDisplay
  <2>. QED
    BY <1>2, <2>1
<1>6. ASSUME NEW s \in Sessions, Local!Written(s) \/ Local!AwaitCapture(s) PROVE SessionInv'
  BY <1>2, <1>6 DEF Local!Written, Local!AwaitCapture
<1>7. ASSUME NEW s \in Sessions, Local!StartPipeline(s) PROVE SessionInv'
  <2>1. /\ stage[s] = "created"
        /\ \E to \in {"done", "select"} : stage' = [stage EXCEPT ![s] = to]
        /\ capture' = [capture EXCEPT ![s] = "spawned"]
        /\ encoder' = [encoder EXCEPT ![s] = "spawned"]
        /\ UNCHANGED <<backend, cancelled, failed>>
    BY <1>7 DEF Local!StartPipeline
  <2>2. /\ stage' \in [Sessions -> Stages] /\ capture' \in [Sessions -> CaptureStates]
        /\ encoder' \in [Sessions -> EncoderStates]
    BY <2>1
  <2>3. ASSUME NEW t \in Sessions
        PROVE  /\ cancelled'[t] => stage'[t] \in {"await capture", "await encoder", "done"}
               /\ stage'[t] \in {"select", "writing"} /\ "ended" \in {capture'[t], encoder'[t]} =>
                     failed'[t] \/ backend' = "stub"
    <3>1. CASE t = s
      BY <2>1, <3>1
    <3>2. CASE t # s
      <4>1. stage'[t] = stage[t] /\ capture'[t] = capture[t] /\ encoder'[t] = encoder[t]
        BY <2>1, <3>2
      <4>. QED
        BY <2>1, <4>1
    <3>. QED
      BY <3>1, <3>2
  <2>. QED
    BY <2>1, <2>2, <2>3, Zenon
<1>8. ASSUME NEW s \in Sessions, Local!ClientLeaves(s) PROVE SessionInv'
  BY <1>8 DEF Local!ClientLeaves
<1>9. ASSUME NEW s \in Sessions, Local!CaptureFrame(s) PROVE SessionInv'
  BY <1>9 DEF Local!CaptureFrame
<1>10. ASSUME NEW s \in Sessions, Local!CaptureBreaks(s) PROVE SessionInv'
  BY <1>10 DEF Local!CaptureBreaks, Local!StubEnds, Local!X11Ends, Local!ReceiverGone
<1>11. ASSUME NEW s \in Sessions, Local!CaptureStops(s) PROVE SessionInv'
  BY <1>11 DEF Local!CaptureStops
<1>12. ASSUME NEW s \in Sessions, Local!EncoderTop(s) PROVE SessionInv'
  BY <1>12 DEF Local!EncoderTop
<1>13. ASSUME NEW s \in Sessions, Local!EncoderEncodes(s) \/ Local!EncoderSkips(s) PROVE SessionInv'
  BY <1>13 DEF Local!EncoderEncodes, Local!EncoderSkips, Local!Receives
<1>14. ASSUME NEW s \in Sessions, Local!EncoderStarves(s) PROVE SessionInv'
  BY <1>14 DEF Local!EncoderStarves
<1>15. ASSUME NEW s \in Sessions, Local!EncoderSends(s) PROVE SessionInv'
  BY <1>15 DEF Local!EncoderSends
<1>16. ASSUME NEW s \in Sessions, Local!TakeFrame(s) PROVE SessionInv'
  BY <1>16 DEF Local!TakeFrame
<1>17. ASSUME NEW s \in Sessions, Local!LoopEnds(s) PROVE SessionInv'
  BY <1>17 DEF Local!LoopEnds
<1>18. ASSUME NEW s \in Sessions, Local!AwaitEncoder(s) PROVE SessionInv'
  BY <1>18 DEF Local!AwaitEncoder
<1>19. CASE UNCHANGED Local!vars
  BY <1>19 DEF Local!vars
<1>. QED
  BY <1>1, <1>7, <1>8, <1>9, <1>10, <1>11, <1>12, <1>13, <1>14, <1>15, <1>16, <1>17,
     <1>18, <1>19, <1>3, <1>4, <1>5, <1>6 DEF Local!Next, Local!Threads, Local!Loop

(* The loop leaves for the reasons it may. *)
LEMMA LeavesForAReason ==
  ASSUME SessionInv, [Local!Next]_Local!vars, NEW s \in Sessions,
         stage[s] \in {"select", "writing"}, stage'[s] = "await capture"
  PROVE  gone[s] \/ failed[s] \/ backend = "stub"
<1>1. ASSUME NEW r \in Sessions, NEW from, NEW to, Local!Moves(r, from, to), to # "await capture"
      PROVE  FALSE
  BY <1>1 DEF Local!Moves, SessionInv
<1>2. ASSUME UNCHANGED stage PROVE FALSE
  BY <1>2
<1>3. ~ Local!StartThread /\ ~ UNCHANGED Local!vars
  BY <1>2 DEF Local!StartThread, Local!vars
<1>4. ASSUME NEW r \in Sessions PROVE ~ Local!Threads(r)
  BY <1>2 DEF Local!Threads, Local!CaptureFrame, Local!CaptureBreaks, Local!CaptureStops,
       Local!EncoderTop, Local!EncoderEncodes, Local!EncoderSkips, Local!Receives,
       Local!EncoderStarves, Local!EncoderSends
<1>5. ASSUME NEW r \in Sessions
      PROVE  /\ ~ Local!Accept(r) /\ ~ Local!Refuse(r) /\ ~ Local!PortalAnswersSize(r)
             /\ ~ Local!AskPortal(r) /\ ~ Local!PortalAnswers(r) /\ ~ Local!OpenDisplay(r)
             /\ ~ Local!ClientLeaves(r)
  BY <1>1, <1>2 DEF Local!Accept, Local!Refuse, Local!PortalAnswersSize, Local!AskPortal,
       Local!PortalAnswers, Local!OpenDisplay, Local!ClientLeaves
<1>6. ASSUME NEW r \in Sessions PROVE ~ Local!StartPipeline(r) /\ ~ Local!AwaitEncoder(r)
  BY DEF Local!StartPipeline, Local!AwaitEncoder, SessionInv
<1>7. ASSUME NEW r \in Sessions
      PROVE  /\ ~ Local!TakeFrame(r) /\ ~ Local!Written(r) /\ ~ Local!AwaitCapture(r)
             /\ Local!LoopEnds(r) => r = s
  BY <1>1 DEF Local!TakeFrame, Local!Written, Local!LoopEnds, Local!AwaitCapture, Local!Moves,
       SessionInv
<1>8. Local!LoopEnds(s)
  BY <1>3, <1>4, <1>5, <1>6, <1>7, Zenon DEF Local!Next, Local!Loop
<1>. QED
  BY <1>8 DEF Local!LoopEnds, SessionInv

(* A client that stays keeps its session, however slowly it reads, if the     *)
(* threads could start and the capture is not the stub (capture_loop_real).   *)
THEOREM SlowClientSafety == Local!Spec => Local!SlowClientKept
<1>1. Local!Init => SessionInv
  BY SessionInit
<1>2. SessionInv /\ [Local!Next]_Local!vars => SessionInv'
  BY SessionStep
<1>3. SessionInv /\ [Local!Next]_Local!vars =>
        [\A s \in Sessions :
            stage[s] \in {"select", "writing"} /\ stage'[s] = "await capture" =>
                gone[s] \/ failed[s] \/ backend = "stub"]_Local!vars
  BY LeavesForAReason
<1>. QED
  BY <1>1, <1>2, <1>3, PTL DEF Local!Spec, Local!SlowClientKept

-----------------------------------------------------------------------------
(* The archive (AuditArchive itself).                                        *)

Cells == [kind : {"header", "block", "piece", "cues", "tags", "zero"},
          of : Sessions \cup {NoFile}, what : Seq(Nat)]
Contents == Seq(Cells)
Recorders == [st : {"none", "open", "written", "failed", "done", "registered"},
              name : FileNames \cup {NoFile}, pos : Nat, off : Nat,
              cues : SUBSET [seq : Nat, off : Nat], chain : Seq(Nat), next : Nat]

ArchiveTypes ==
  /\ now \in Nat /\ now <= MaxTime /\ faults \in Nat
  /\ file \in [FileNames -> Contents \cup {NoFile}]
  /\ seal \in [FileNames -> Contents \cup {NoFile}]
  /\ rec \in [Sessions -> Recorders]
  /\ \A s \in Sessions : rec[s].st = "none" <=> rec[s].name = NoFile

(* The cues of a recording lead to its frames. *)
CuesLead(s) ==
  \A c \in rec[s].cues :
     /\ c.off + 1 \in 1 .. Len(file[rec[s].name])
     /\ file[rec[s].name][c.off + 1] = Block(s, c.seq)

(* A session that has its file to itself writes at the file's end, and its    *)
(* chain and cues are of what the file holds.                                 *)
Held(s) ==
  /\ rec[s].st \in {"open", "written", "done", "registered"} /\ Alone(s)
  /\ file[rec[s].name] # NoFile
  =>
     /\ Len(file[rec[s].name]) = rec[s].pos
     /\ Covers(rec[s].chain, file[rec[s].name], s)
     /\ faults = 0 => CuesLead(s) /\ (rec[s].st = "open" => rec[s].off = rec[s].pos)

(* A recording that is sealed, and has not expired, verifies. *)
Sealed(s) ==
  rec[s].st \in {"done", "registered"} /\ Alone(s) /\ rec[s].name[2] + RetentionDays >= now =>
     VerifySeal(rec[s].name)

ArchiveInv == ArchiveTypes /\ \A s \in Sessions : Held(s) /\ Sealed(s)

(* No file is named NoFile, and a name tells the second it was made. *)
LEMMA NoFileName == NoFile \notin FileNames
BY ArchiveAssumption DEF FileNames

LEMMA NameType == \A n \in FileNames : n[2] \in Nat
BY ArchiveAssumption DEF FileNames

(* A frame's block is a cell of its session. *)
LEMMA BlockIsCell ==
  \A s \in Sessions, v \in Nat :
     Block(s, v) \in Cells /\ Block(s, v).kind = "block" /\ Block(s, v).of = s
BY DEF Block, Cell, Cells

(* The fields of a recorder. *)
LEMMA RecorderType ==
  ASSUME NEW r \in Recorders
  PROVE  /\ r.st \in {"none", "open", "written", "failed", "done", "registered"}
         /\ r.name \in FileNames \cup {NoFile} /\ r.pos \in Nat /\ r.off \in Nat
         /\ r.cues \in SUBSET [seq : Nat, off : Nat] /\ r.chain \in Seq(Nat) /\ r.next \in Nat
         /\ r = [st |-> r.st, name |-> r.name, pos |-> r.pos, off |-> r.off, cues |-> r.cues,
                 chain |-> r.chain, next |-> r.next]
BY DEF Recorders

(* One field of a recorder is set. *)
WithSt(r, x) == [r EXCEPT !.st = x]
WithName(r, x) == [r EXCEPT !.name = x]
WithPos(r, x) == [r EXCEPT !.pos = x]
WithOff(r, x) == [r EXCEPT !.off = x]
WithCues(r, x) == [r EXCEPT !.cues = x]
WithChain(r, x) == [r EXCEPT !.chain = x]
WithNext(r, x) == [r EXCEPT !.next = x]

LEMMA SetSt ==
  ASSUME NEW r \in Recorders, NEW x \in {"open", "written", "failed", "done", "registered"}
  PROVE  /\ WithSt(r, x) \in Recorders /\ WithSt(r, x).st = x /\ WithSt(r, x).name = r.name
         /\ WithSt(r, x).pos = r.pos /\ WithSt(r, x).off = r.off /\ WithSt(r, x).cues = r.cues
         /\ WithSt(r, x).chain = r.chain /\ WithSt(r, x).next = r.next
BY RecorderType DEF Recorders, WithSt

LEMMA SetName ==
  ASSUME NEW r \in Recorders, NEW x \in FileNames
  PROVE  /\ WithName(r, x) \in Recorders /\ WithName(r, x).st = r.st /\ WithName(r, x).name = x
         /\ WithName(r, x).pos = r.pos /\ WithName(r, x).off = r.off /\ WithName(r, x).cues = r.cues
         /\ WithName(r, x).chain = r.chain /\ WithName(r, x).next = r.next
BY RecorderType DEF Recorders, WithName

LEMMA SetPos ==
  ASSUME NEW r \in Recorders, NEW x \in Nat
  PROVE  /\ WithPos(r, x) \in Recorders /\ WithPos(r, x).st = r.st /\ WithPos(r, x).name = r.name
         /\ WithPos(r, x).pos = x /\ WithPos(r, x).off = r.off /\ WithPos(r, x).cues = r.cues
         /\ WithPos(r, x).chain = r.chain /\ WithPos(r, x).next = r.next
BY RecorderType DEF Recorders, WithPos

LEMMA SetOff ==
  ASSUME NEW r \in Recorders, NEW x \in Nat
  PROVE  /\ WithOff(r, x) \in Recorders /\ WithOff(r, x).st = r.st /\ WithOff(r, x).name = r.name
         /\ WithOff(r, x).pos = r.pos /\ WithOff(r, x).off = x /\ WithOff(r, x).cues = r.cues
         /\ WithOff(r, x).chain = r.chain /\ WithOff(r, x).next = r.next
BY RecorderType DEF Recorders, WithOff

LEMMA SetCues ==
  ASSUME NEW r \in Recorders, NEW x \in SUBSET [seq : Nat, off : Nat]
  PROVE  /\ WithCues(r, x) \in Recorders /\ WithCues(r, x).st = r.st /\ WithCues(r, x).name = r.name
         /\ WithCues(r, x).pos = r.pos /\ WithCues(r, x).off = r.off /\ WithCues(r, x).cues = x
         /\ WithCues(r, x).chain = r.chain /\ WithCues(r, x).next = r.next
BY RecorderType DEF Recorders, WithCues

LEMMA SetChain ==
  ASSUME NEW r \in Recorders, NEW x \in Seq(Nat)
  PROVE  /\ WithChain(r, x) \in Recorders /\ WithChain(r, x).st = r.st /\ WithChain(r, x).name = r.name
         /\ WithChain(r, x).pos = r.pos /\ WithChain(r, x).off = r.off /\ WithChain(r, x).cues = r.cues
         /\ WithChain(r, x).chain = x /\ WithChain(r, x).next = r.next
BY RecorderType DEF Recorders, WithChain

LEMMA SetNext ==
  ASSUME NEW r \in Recorders, NEW x \in Nat
  PROVE  /\ WithNext(r, x) \in Recorders /\ WithNext(r, x).st = r.st /\ WithNext(r, x).name = r.name
         /\ WithNext(r, x).pos = r.pos /\ WithNext(r, x).off = r.off /\ WithNext(r, x).cues = r.cues
         /\ WithNext(r, x).chain = r.chain /\ WithNext(r, x).next = x
BY RecorderType DEF Recorders, WithNext

(* No recording yet. *)
LEMMA ArchiveInit == Init => ArchiveInv
<1> SUFFICES ASSUME Init PROVE ArchiveInv
  OBVIOUS
<1>1. ArchiveTypes
  <2>1. Fresh \in Recorders /\ Fresh.st = "none" /\ Fresh.name = NoFile
    BY DEF Fresh, Recorders
  <2>. QED
    BY <2>1, ArchiveAssumption DEF Init, ArchiveTypes
<1>2. \A s \in Sessions : rec[s].st = "none"
  BY DEF Init, Fresh
<1>. QED
  BY <1>1, <1>2 DEF ArchiveInv, Held, Sealed

-----------------------------------------------------------------------------
(* Files. *)

(* Writing somewhere in a file makes a file. *)
LEMMA PutType ==
  ASSUME NEW content \in Contents, NEW pos \in Nat, NEW cell \in Cells
  PROVE  Put(content, pos, cell) \in Contents
<1> DEFINE n == IF pos + 1 > Len(content) THEN pos + 1 ELSE Len(content)
<1>1. n \in Nat /\ Cell("zero", NoFile, <<>>) \in Cells /\ \A i \in 1 .. Len(content) : content[i] \in Cells
  <2>1. <<>> \in Seq(Nat)
    OBVIOUS
  <2>2. Cell("zero", NoFile, <<>>) \in Cells
    BY <2>1 DEF Cell, Cells
  <2>. QED
    BY <2>2 DEF Contents
<1>2. Put(content, pos, cell) \in [1 .. n -> Cells]
  BY <1>1 DEF Put
<1>. QED
  BY <1>1, <1>2 DEF Contents

(* At the end of a file, what is written is appended. *)
LEMMA PutAtEnd ==
  ASSUME NEW content \in Contents, NEW cell \in Cells, NEW pos, pos = Len(content)
  PROVE  /\ Put(content, pos, cell) \in Contents /\ Len(Put(content, pos, cell)) = pos + 1
         /\ Put(content, pos, cell)[pos + 1] = cell
         /\ \A i \in 1 .. pos : Put(content, pos, cell)[i] = content[i] /\ content[i] \in Cells
<1>1. pos \in Nat /\ \A i \in 1 .. pos : content[i] \in Cells
  BY DEF Contents
<1>2. Put(content, pos, cell) = [i \in 1 .. pos + 1 |-> IF i = pos + 1 THEN cell ELSE content[i]]
  BY <1>1 DEF Put
<1> DEFINE w == [i \in 1 .. pos + 1 |-> IF i = pos + 1 THEN cell ELSE content[i]]
<1>3. w \in [1 .. pos + 1 -> Cells]
  BY <1>1
<1>4. w \in Contents /\ Len(w) = pos + 1 /\ w[pos + 1] = cell /\ \A i \in 1 .. pos : w[i] = content[i]
  BY <1>1, <1>3 DEF Contents
<1> HIDE DEF w
<1>. QED
  BY <1>1, <1>2, <1>4 DEF w

(* What is not a frame of the session does not change the chain it needs. *)
LEMMA CoversStays ==
  ASSUME NEW s \in Sessions, NEW chain, NEW old \in Contents, NEW content \in Contents,
         Covers(chain, old, s), Len(content) = Len(old) + 1,
         \A i \in 1 .. Len(old) : content[i] = old[i],
         content[Len(content)].kind # "block"
  PROVE  Covers(chain, content, s)
<1>1. Len(old) \in Nat
  BY DEF Contents
<1>2. FramesAt(content, s) = FramesAt(old, s)
  BY <1>1 DEF FramesAt
<1>3. \A k \in FramesAt(old, s) : content[k] = old[k]
  BY DEF FramesAt
<1>. QED
  BY <1>2, <1>3 DEF Covers

(* A frame that is written is entered in the chain. *)
LEMMA CoversGrows ==
  ASSUME NEW s \in Sessions, NEW chain \in Seq(Nat), NEW v \in Nat,
         NEW old \in Contents, NEW content \in Contents,
         Covers(chain, old, s), Len(content) = Len(old) + 1,
         \A i \in 1 .. Len(old) : content[i] = old[i],
         content[Len(content)] = Block(s, v)
  PROVE  Covers(Append(chain, v), content, s)
<1> DEFINE more == Append(chain, v)
           n == Len(chain)
           l == Len(old)
<1>1. /\ n \in Nat /\ Len(more) = n + 1 /\ more[n + 1] = v /\ \A i \in 1 .. n : more[i] = chain[i]
      /\ l \in Nat
  BY DEF Contents
<1>2. FramesAt(content, s) = FramesAt(old, s) \cup {l + 1}
  <2>1. l + 1 \in FramesAt(content, s)
    BY <1>1, BlockIsCell DEF FramesAt
  <2>. QED
    BY <1>1, <2>1 DEF FramesAt
<1>3. FramesAt(old, s) \subseteq 1 .. l
  BY DEF FramesAt
<1>4. PICK at \in [1 .. n -> FramesAt(old, s)] :
        /\ \A i, j \in 1 .. n : i < j => at[i] < at[j]
        /\ \A k \in FramesAt(old, s) : \E i \in 1 .. n : at[i] = k
        /\ \A i \in 1 .. n : old[at[i]] = Block(s, chain[i])
  BY DEF Covers
<1> HIDE DEF more, n, l
<1> DEFINE to == [i \in 1 .. n + 1 |-> IF i = n + 1 THEN l + 1 ELSE at[i]]
<1>5. to \in [1 .. n + 1 -> FramesAt(content, s)]
  BY <1>1, <1>2, <1>4
<1>6. to[n + 1] = l + 1 /\ \A i \in 1 .. n : to[i] = at[i] /\ at[i] \in 1 .. l
  BY <1>1, <1>3, <1>4
<1> HIDE DEF to
<1>7. ASSUME NEW i \in 1 .. n + 1, NEW j \in 1 .. n + 1, i < j PROVE to[i] < to[j]
  <2>1. i \in 1 .. n /\ to[i] = at[i] /\ at[i] < l + 1
    BY <1>1, <1>6, <1>7
  <2>2. CASE j = n + 1
    BY <1>6, <2>1, <2>2
  <2>3. CASE j # n + 1
    <3>1. j \in 1 .. n /\ to[j] = at[j]
      BY <1>1, <1>6, <2>3
    <3>2. at[i] < at[j]
      BY <1>4, <1>7, <2>1, <3>1, Zenon
    <3>. QED
      BY <2>1, <3>1, <3>2, Zenon
  <2>. QED
    BY <2>2, <2>3
<1>8. ASSUME NEW k \in FramesAt(content, s) PROVE \E i \in 1 .. n + 1 : to[i] = k
  <2>1. CASE k = l + 1
    BY <1>1, <1>6, <2>1
  <2>2. CASE k # l + 1
    <3>1. PICK i \in 1 .. n : at[i] = k
      BY <1>2, <1>4, <2>2
    <3>2. i \in 1 .. n + 1 /\ to[i] = k
      BY <1>1, <1>6, <3>1
    <3>. QED
      BY <3>2
  <2>. QED
    BY <2>1, <2>2
<1>9. ASSUME NEW i \in 1 .. n + 1 PROVE content[to[i]] = Block(s, more[i])
  <2>1. CASE i = n + 1
    BY <1>1, <1>6, <2>1 DEF l
  <2>2. CASE i # n + 1
    <3>1. i \in 1 .. n
      BY <1>1, <2>2
    <3>2. /\ to[i] = at[i] /\ at[i] \in 1 .. l /\ more[i] = chain[i]
          /\ old[at[i]] = Block(s, chain[i])
      BY <1>1, <1>4, <1>6, <3>1, Zenon
    <3>3. content[at[i]] = old[at[i]]
      BY <3>2, Zenon DEF l
    <3>. QED
      BY <3>2, <3>3, Zenon
  <2>. QED
    BY <2>1, <2>2
<1>10. Covers(more, content, s)
  <2>1. Len(more) = n + 1
    BY <1>1
  <2>2. /\ to \in [1 .. Len(more) -> FramesAt(content, s)]
        /\ \A i, j \in 1 .. Len(more) : i < j => to[i] < to[j]
        /\ \A k \in FramesAt(content, s) : \E i \in 1 .. Len(more) : to[i] = k
        /\ \A i \in 1 .. Len(more) : content[to[i]] = Block(s, more[i])
    BY <1>5, <1>7, <1>8, <1>9, <2>1
  <2>. QED
    BY <2>2 DEF Covers
<1>. QED
  BY <1>10 DEF more

-----------------------------------------------------------------------------
(* The recorders. *)

(* A step of one recorder, in its own file, is none of the others'. *)
LEMMA OthersKeep ==
  ASSUME ArchiveInv, NEW s \in Sessions, NEW name \in FileNames, rec'[s].name = name,
         rec[s].name \in {name, NoFile},
         \A t \in Sessions \ {s} : rec'[t] = rec[t],
         \A n \in FileNames \ {name} : file'[n] = file[n] /\ seal'[n] = seal[n],
         now' = now, faults \in Nat, faults' >= faults,
         NEW t \in Sessions \ {s}
  PROVE  Held(t)' /\ Sealed(t)'
<1>1. /\ rec'[t] = rec[t] /\ ArchiveTypes /\ Held(t) /\ Sealed(t)
      /\ rec[t].name \in FileNames \cup {NoFile} /\ (rec[t].st # "none" => rec[t].name \in FileNames)
  BY DEF ArchiveInv, ArchiveTypes, Recorders
<1>2. ASSUME rec[t].st # "none", Alone(t)'
      PROVE  Alone(t) /\ rec[t].name \in FileNames \ {name}
  BY <1>1, <1>2, NoFileName DEF Alone
<1>3. faults' = 0 => faults = 0
  BY DEF ArchiveInv, ArchiveTypes
<1>4. Held(t)'
  BY <1>1, <1>2, <1>3 DEF Held, CuesLead
<1>5. Sealed(t)'
  BY <1>1, <1>2 DEF Sealed, VerifySeal
<1>. QED
  BY <1>4, <1>5

(* A new recording begins its file with the header, whatever was there: the *)
(* session whose file it was is not alone in it any more.                    *)
LEMMA NewRecorderKeeps ==
  ASSUME ArchiveInv, NEW s \in Sessions, NewRecorder(s)
  PROVE  ArchiveInv'
<1> DEFINE name == <<PrefixOf[s], now>>
           head == Cell("header", s, <<>>)
           r == [Fresh EXCEPT !.st = "open", !.name = name, !.pos = 1, !.off = 1]
<1>1. ArchiveTypes
  BY DEF ArchiveInv
<1>2. /\ rec[s].st = "none" /\ file' = [file EXCEPT ![name] = <<head>>] /\ rec' = [rec EXCEPT ![s] = r]
      /\ UNCHANGED <<now, seal, index, purge, faults>>
  BY DEF NewRecorder
<1>3. name \in FileNames
  BY <1>1 DEF FileNames, ArchiveTypes
<1>4. head \in Cells /\ head.kind = "header" /\ <<head>> \in Contents
  <2>1. <<>> \in Seq(Nat)
    OBVIOUS
  <2>2. head \in Cells /\ head.kind = "header"
    BY <2>1 DEF Cell, Cells
  <2>. QED
    BY <2>2 DEF Contents
<1> HIDE DEF name
<1>5. /\ r \in Recorders /\ r.st = "open" /\ r.name = name /\ r.pos = 1 /\ r.off = 1
      /\ r.cues = {} /\ r.chain = <<>>
  <2>1. /\ Fresh \in Recorders /\ Fresh.cues = {} /\ Fresh.chain = <<>>
    BY DEF Fresh, Recorders
  <2>2. PICK r1 : r1 = WithSt(Fresh, "open")
    OBVIOUS
  <2>3. PICK r2 : r2 = WithName(r1, name)
    OBVIOUS
  <2>4. PICK r3 : r3 = WithPos(r2, 1)
    OBVIOUS
  <2>5. r = WithOff(r3, 1)
    BY <2>2, <2>3, <2>4 DEF WithSt, WithName, WithPos, WithOff
  <2> HIDE DEF r
  <2>9. 1 \in Nat /\ "open" \in {"open", "written", "failed", "done", "registered"}
    OBVIOUS
  <2>6. r1 \in Recorders /\ r1.st = "open" /\ r1.cues = {} /\ r1.chain = <<>>
    BY <2>1, <2>2, SetSt
  <2>7. r2 \in Recorders /\ r2.st = "open" /\ r2.name = name /\ r2.cues = {} /\ r2.chain = <<>>
    BY <1>3, <2>3, <2>6, SetName
  <2>8. /\ r3 \in Recorders /\ r3.st = "open" /\ r3.name = name /\ r3.pos = 1
        /\ r3.cues = {} /\ r3.chain = <<>>
    BY <2>4, <2>7, <2>9, SetPos, Zenon
  <2>. QED
    BY <2>5, <2>8, <2>9, SetOff, Zenon
<1> HIDE DEF r, head
<1>6. /\ rec'[s] = r /\ \A t \in Sessions \ {s} : rec'[t] = rec[t]
      /\ file'[name] = <<head>> /\ \A n \in FileNames \ {name} : file'[n] = file[n]
  BY <1>1, <1>2, <1>3 DEF ArchiveTypes
<1>7. ArchiveTypes'
  BY <1>1, <1>2, <1>3, <1>4, <1>5, <1>6, NoFileName DEF ArchiveTypes
<1>8. Held(s)'
  <2>1. FramesAt(<<head>>, s) = {} /\ Len(<<head>>) = 1
    BY <1>4 DEF FramesAt
  <2>2. Covers(<<>>, <<head>>, s)
    <3> DEFINE at == [i \in 1 .. 0 |-> 1]
    <3>1. at \in [1 .. Len(<<>>) -> FramesAt(<<head>>, s)] /\ 1 .. Len(<<>>) = {}
      OBVIOUS
    <3>. QED
      BY <2>1, <3>1 DEF Covers
  <2>. QED
    BY <1>5, <1>6, <2>1, <2>2 DEF Held, CuesLead
<1>9. Sealed(s)'
  BY <1>5, <1>6 DEF Sealed
<1>10. rec[s].name = NoFile
  BY <1>1, <1>2 DEF ArchiveTypes
<1>11. \A t \in Sessions \ {s} : Held(t)' /\ Sealed(t)'
  BY <1>1, <1>2, <1>3, <1>5, <1>6, <1>10, OthersKeep DEF ArchiveTypes
<1>. QED
  BY <1>7, <1>8, <1>9, <1>11 DEF ArchiveInv

(* A step of a recorder that goes on, in the file it has. *)
LEMMA RecorderKeeps ==
  ASSUME ArchiveInv, NEW s \in Sessions, rec[s].st # "none",
         NEW r \in Recorders, rec' = [rec EXCEPT ![s] = r], r.name = rec[s].name, r.st # "none",
         NEW content \in Contents \cup {NoFile}, file' = [file EXCEPT ![rec[s].name] = content],
         NEW mark \in Contents \cup {NoFile}, seal' = [seal EXCEPT ![rec[s].name] = mark],
         now' = now, faults' \in Nat, faults' >= faults,
         Held(s)', Sealed(s)'
  PROVE  ArchiveInv'
<1> DEFINE name == rec[s].name
<1>1. ArchiveTypes /\ name \in FileNames
  BY DEF ArchiveInv, ArchiveTypes, Recorders
<1>2. /\ rec'[s] = r /\ \A t \in Sessions \ {s} : rec'[t] = rec[t]
      /\ \A n \in FileNames \ {name} : file'[n] = file[n] /\ seal'[n] = seal[n]
  BY <1>1 DEF ArchiveTypes
<1>3. ArchiveTypes'
  BY <1>1, <1>2, NoFileName DEF ArchiveTypes
<1> HIDE DEF name
<1>4. rec'[s].name = name /\ rec[s].name \in {name, NoFile} /\ faults \in Nat
  BY <1>1, <1>2 DEF name, ArchiveTypes
<1>5. \A t \in Sessions \ {s} : Held(t)' /\ Sealed(t)'
  BY <1>1, <1>2, <1>4, OthersKeep
<1>. QED
  BY <1>3, <1>5 DEF ArchiveInv

(* What was written by a session of its own, or stays, is at the file's end. *)
LEMMA FrameKeeps ==
  ASSUME ArchiveInv, NEW s \in Sessions, RecordFrame(s)
  PROVE  ArchiveInv'
<1> DEFINE r == rec[s]
           content == file[r.name]
           cell == Block(s, r.next)
           piece == Cell("piece", s, <<>>)
<1>1. ArchiveTypes /\ Held(s) /\ Sealed(s)
  BY DEF ArchiveInv
<1>2. /\ r \in Recorders /\ r.st = "open" /\ r.name \in FileNames /\ r.name # NoFile /\ faults \in Nat
      /\ content \in Contents \cup {NoFile} /\ seal[r.name] \in Contents \cup {NoFile}
      /\ UNCHANGED <<now, seal>>
  BY <1>1, NoFileName DEF ArchiveTypes, Recorders, RecordFrame
<1>3. /\ r.pos \in Nat /\ r.off \in Nat /\ r.next \in Nat /\ r.chain \in Seq(Nat)
      /\ r.cues \in SUBSET [seq : Nat, off : Nat]
  BY <1>2 DEF Recorders
<1>4. cell \in Cells /\ piece \in Cells /\ piece.kind = "piece"
  <2>1. <<>> \in Seq(Nat)
    OBVIOUS
  <2>. QED
    BY <1>3, <2>1, BlockIsCell DEF Cell, Cells
<1>5. PICK indexed \in BOOLEAN :
        LET cued == [r EXCEPT !.next = @ + 1,
                       !.cues = IF indexed THEN @ \cup {[seq |-> r.next, off |-> r.off]} ELSE @]
        IN \/ /\ file' = WriteAt(s, r.pos, cell)
              /\ rec' = [rec EXCEPT ![s] = [cued EXCEPT !.pos = @ + 1, !.off = @ + 1,
                           !.chain = Append(@, r.next)]]
              /\ UNCHANGED faults
           \/ /\ Fault
              /\ \/ file' = WriteAt(s, r.pos, piece)
                    /\ rec' = [rec EXCEPT ![s] = [cued EXCEPT !.pos = @ + 1]]
                 \/ rec' = [rec EXCEPT ![s] = cued] /\ UNCHANGED file
  BY DEF RecordFrame
<1> DEFINE cue == [seq |-> r.next, off |-> r.off]
           cues == IF indexed THEN r.cues \cup {cue} ELSE r.cues
<1>6. PICK r1 : r1 = WithNext(r, r.next + 1)
  OBVIOUS
<1>7. PICK missed : missed = WithCues(r1, cues)
  OBVIOUS
<1>8. PICK tore : tore = WithPos(missed, missed.pos + 1)
  OBVIOUS
<1>9. PICK r4 : r4 = WithOff(tore, missed.off + 1)
  OBVIOUS
<1>10. PICK wrote : wrote = WithChain(r4, Append(missed.chain, r.next))
  OBVIOUS
<1>11. cues \in SUBSET [seq : Nat, off : Nat] /\ cue.off = r.off /\ cue.seq = r.next
  BY <1>3
<1>12. /\ missed = [r EXCEPT !.next = @ + 1,
                     !.cues = IF indexed THEN @ \cup {[seq |-> r.next, off |-> r.off]} ELSE @]
       /\ tore = [missed EXCEPT !.pos = @ + 1]
       /\ wrote = [missed EXCEPT !.pos = @ + 1, !.off = @ + 1, !.chain = Append(@, r.next)]
  <2>1. r1.cues = r.cues
    <3>1. r.next + 1 \in Nat
      BY <1>3
    <3>. QED
      BY <1>2, <1>6, <3>1, SetNext, Zenon
  <2>. QED
    BY <1>6, <1>7, <1>8, <1>9, <1>10, <2>1
    DEF WithNext, WithCues, WithPos, WithOff, WithChain
<1>13. \/ file' = WriteAt(s, r.pos, cell) /\ rec' = [rec EXCEPT ![s] = wrote] /\ UNCHANGED faults
       \/ /\ faults' = faults + 1
          /\ \/ file' = WriteAt(s, r.pos, piece) /\ rec' = [rec EXCEPT ![s] = tore]
             \/ rec' = [rec EXCEPT ![s] = missed] /\ UNCHANGED file
  BY <1>5, <1>12 DEF Fault
<1> HIDE DEF cues, cue
<1>14. /\ wrote \in Recorders /\ tore \in Recorders /\ missed \in Recorders
      /\ wrote.st = "open" /\ wrote.name = r.name /\ wrote.pos = r.pos + 1 /\ wrote.off = r.off + 1
      /\ wrote.cues = cues /\ wrote.chain = Append(r.chain, r.next)
      /\ tore.st = "open" /\ tore.name = r.name /\ tore.chain = r.chain /\ tore.pos = r.pos + 1
      /\ missed.st = "open" /\ missed.name = r.name /\ missed.chain = r.chain /\ missed.pos = r.pos
  <2>1. Append(r.chain, r.next) \in Seq(Nat) /\ r.next + 1 \in Nat /\ r.pos + 1 \in Nat
    BY <1>3
  <2>2. /\ r1 \in Recorders /\ r1.st = "open" /\ r1.name = r.name /\ r1.pos = r.pos /\ r1.off = r.off
        /\ r1.cues = r.cues /\ r1.chain = r.chain
    BY <1>2, <1>6, <2>1, SetNext, Zenon
  <2>3. /\ missed \in Recorders /\ missed.st = "open" /\ missed.name = r.name /\ missed.pos = r.pos
        /\ missed.off = r.off /\ missed.cues = cues /\ missed.chain = r.chain
    BY <1>11, <1>7, <2>2, SetCues, Zenon
  <2>4. /\ tore \in Recorders /\ tore.st = "open" /\ tore.name = r.name /\ tore.pos = r.pos + 1
        /\ tore.off = r.off /\ tore.cues = cues /\ tore.chain = r.chain
    <3>1. missed.pos + 1 = r.pos + 1 /\ missed.pos + 1 \in Nat
      BY <2>1, <2>3
    <3>. QED
      BY <1>8, <2>3, <3>1, SetPos, Zenon
  <2>5. /\ r4 \in Recorders /\ r4.st = "open" /\ r4.name = r.name /\ r4.pos = r.pos + 1
        /\ r4.off = r.off + 1 /\ r4.cues = cues /\ r4.chain = r.chain
    <3>1. missed.off + 1 = r.off + 1 /\ missed.off + 1 \in Nat
      BY <1>3, <2>3
    <3>. QED
      BY <1>9, <2>4, <3>1, SetOff, Zenon
  <2>6. PICK ch \in Seq(Nat) : ch = Append(missed.chain, r.next) /\ ch = Append(r.chain, r.next)
    BY <2>1, <2>3
  <2>7. wrote = WithChain(r4, ch)
    BY <1>10, <2>6
  <2>8. /\ wrote \in Recorders /\ wrote.st = "open" /\ wrote.name = r.name /\ wrote.pos = r.pos + 1
        /\ wrote.off = r.off + 1 /\ wrote.cues = cues /\ wrote.chain = ch
    BY <2>5, <2>7, SetChain, Zenon
  <2>. QED
    BY <2>3, <2>4, <2>6, <2>8
<1>15. ASSUME NEW c \in Cells
      PROVE  WriteAt(s, r.pos, c) =
               [file EXCEPT ![r.name] = IF content = NoFile THEN NoFile ELSE Put(content, r.pos, c)]
  BY <1>1, <1>2 DEF WriteAt, ArchiveTypes
<1> HIDE DEF cell, piece
(* The cues, of what was there before the write. *)
<1>16. ASSUME NEW c \in Cells, NEW r2 \in Recorders, content # NoFile, Alone(s),
              r2.name = r.name, r2.cues = cues, rec'[s] = r2, c = cell, faults = 0,
              file'[r.name] = Put(content, r.pos, c)
       PROVE  CuesLead(s)'
  <2>1. /\ content \in Contents /\ Len(content) = r.pos /\ r.off = r.pos
        /\ \A k \in r.cues : k.off + 1 \in 1 .. r.pos /\ content[k.off + 1] = Block(s, k.seq)
    BY <1>1, <1>2, <1>16 DEF Held, CuesLead
  <2> DEFINE w == Put(content, r.pos, c)
  <2>2. Len(w) = r.pos + 1 /\ w[r.pos + 1] = cell /\ \A i \in 1 .. r.pos : w[i] = content[i]
    BY <1>16, <2>1, PutAtEnd
  <2> HIDE DEF w
  <2>3. ASSUME NEW k \in cues
        PROVE  k.off + 1 \in 1 .. r.pos + 1 /\ w[k.off + 1] = Block(s, k.seq)
    <3>1. CASE k \in r.cues
      <4>1. k.off + 1 \in 1 .. r.pos /\ content[k.off + 1] = Block(s, k.seq)
        BY <2>1, <3>1
      <4>2. w[k.off + 1] = content[k.off + 1]
        BY <2>2, <4>1
      <4>. QED
        BY <1>3, <4>1, <4>2
    <3>2. CASE k = cue
      BY <1>3, <1>11, <2>1, <2>2, <3>2 DEF cell
    <3>. QED
      BY <2>3, <3>1, <3>2 DEF cues
  <2>. QED
    BY <1>16, <2>2, <2>3 DEF CuesLead, w
<1>17. /\ \A r2 : rec' = [rec EXCEPT ![s] = r2] => rec'[s] = r2
       /\ \A w : file' = [file EXCEPT ![r.name] = w] => file'[r.name] = w
  BY <1>1, <1>2 DEF ArchiveTypes
<1>18. ASSUME NEW r2 \in Recorders, rec' = [rec EXCEPT ![s] = r2], r2.name = r.name, Alone(s)'
       PROVE  Alone(s)
  BY <1>1, <1>17, <1>18 DEF Alone, ArchiveTypes
<1>19. \A c \in Cells : content # NoFile => Put(content, r.pos, c) \in Contents
  BY <1>2, <1>3, PutType
<1>20. CASE file' = WriteAt(s, r.pos, cell) /\ rec' = [rec EXCEPT ![s] = wrote] /\ UNCHANGED faults
  <2> DEFINE w == IF content = NoFile THEN NoFile ELSE Put(content, r.pos, cell)
  <2>1. /\ file' = [file EXCEPT ![r.name] = w] /\ w \in Contents \cup {NoFile}
        /\ file'[r.name] = w /\ rec'[s] = wrote
    BY <1>4, <1>15, <1>17, <1>19, <1>20
  <2> HIDE DEF w
  <2>3. ASSUME Alone(s), w # NoFile
        PROVE  /\ Len(w) = wrote.pos /\ Covers(wrote.chain, w, s)
               /\ faults = 0 => wrote.off = wrote.pos /\ CuesLead(s)'
    <3>1. content # NoFile /\ w = Put(content, r.pos, cell) /\ content \in Contents
      BY <1>2, <2>3 DEF w
    <3>2. Len(content) = r.pos /\ Covers(r.chain, content, s) /\ (faults = 0 => r.off = r.pos)
      BY <1>1, <1>2, <2>3, <3>1 DEF Held
    <3>3. /\ w \in Contents /\ Len(w) = r.pos + 1 /\ w[r.pos + 1] = cell
          /\ \A i \in 1 .. r.pos : w[i] = content[i]
      BY <1>4, <3>1, <3>2, PutAtEnd
    <3>4. Covers(Append(r.chain, r.next), w, s)
      <4>1. r.chain \in Seq(Nat) /\ r.next \in Nat
        BY <1>3
      <4>2. content \in Contents /\ w \in Contents /\ Covers(r.chain, content, s)
        BY <3>1, <3>2, <3>3
      <4>3. Len(w) = Len(content) + 1 /\ w[Len(w)] = Block(s, r.next)
        BY <3>2, <3>3 DEF cell
      <4>4. \A i \in 1 .. Len(content) : w[i] = content[i]
        BY <3>2, <3>3
      <4> HIDE DEF content
      <4>. QED
        BY <4>1, <4>2, <4>3, <4>4, CoversGrows, Zenon
    <3>5. faults = 0 => CuesLead(s)'
      BY <1>4, <1>14, <1>16, <2>1, <2>3, <3>1
    <3>. QED
      BY <1>3, <1>14, <3>2, <3>3, <3>4, <3>5
  <2>4. Held(s)'
    BY <1>14, <1>18, <1>20, <2>1, <2>3 DEF Held
  <2>5. Sealed(s)'
    BY <1>14, <2>1 DEF Sealed
  <2>6. seal' = [seal EXCEPT ![r.name] = seal[r.name]] /\ faults' \in Nat /\ faults' >= faults
    BY <1>1, <1>2, <1>20 DEF ArchiveTypes
  <2>. QED
    <3>1. /\ r.st # "none" /\ wrote \in Recorders /\ wrote.name = r.name /\ wrote.st # "none"
          /\ rec' = [rec EXCEPT ![s] = wrote]
      BY <1>2, <1>14, <1>20
    <3>2. /\ w \in Contents \cup {NoFile} /\ file' = [file EXCEPT ![r.name] = w]
          /\ seal[r.name] \in Contents \cup {NoFile}
          /\ seal' = [seal EXCEPT ![r.name] = seal[r.name]] /\ now' = now
      BY <1>2, <2>1, <2>6
    <3>. QED
      BY <2>4, <2>5, <2>6, <3>1, <3>2, RecorderKeeps, Zenon
<1>21. ASSUME faults' = faults + 1,
              NEW r2 \in Recorders, rec' = [rec EXCEPT ![s] = r2],
              r2.st = "open", r2.name = r.name, r2.chain = r.chain,
              \/ file' = WriteAt(s, r.pos, piece) /\ r2.pos = r.pos + 1
              \/ file' = file /\ r2.pos = r.pos
       PROVE  ArchiveInv'
  <2> DEFINE torn == IF content = NoFile THEN NoFile ELSE Put(content, r.pos, piece)
  <2>1. PICK w \in {torn, content} :
          /\ file' = [file EXCEPT ![r.name] = w]
          /\ \/ w = torn /\ r2.pos = r.pos + 1
             \/ w = content /\ r2.pos = r.pos
    BY <1>1, <1>2, <1>4, <1>15, <1>21 DEF ArchiveTypes
  <2>2. w \in Contents \cup {NoFile} /\ file'[r.name] = w /\ rec'[s] = r2
    BY <1>2, <1>4, <1>17, <1>19, <1>21, <2>1
  <2>3. ASSUME Alone(s), w # NoFile
        PROVE  Len(w) = r2.pos /\ Covers(r.chain, w, s)
    <3>1. content # NoFile /\ content \in Contents
      BY <1>2, <2>1, <2>3
    <3>2. Len(content) = r.pos /\ Covers(r.chain, content, s)
      BY <1>1, <1>2, <2>3, <3>1 DEF Held
    <3>3. CASE w = torn /\ r2.pos = r.pos + 1
      <4>1. w = Put(content, r.pos, piece)
        BY <3>1, <3>3
      <4>2. /\ w \in Contents /\ Len(w) = r.pos + 1 /\ w[r.pos + 1] = piece
            /\ \A i \in 1 .. r.pos : w[i] = content[i]
        BY <1>4, <3>1, <3>2, <4>1, PutAtEnd
      <4>3. w[Len(w)].kind # "block"
        BY <1>4, <4>2
      <4>. QED
        <5>1. /\ content \in Contents /\ w \in Contents /\ Covers(r.chain, content, s)
              /\ Len(w) = Len(content) + 1
          BY <3>1, <3>2, <4>2
        <5>2. \A i \in 1 .. Len(content) : w[i] = content[i]
          BY <3>2, <4>2
        <5>3. Len(w) = r2.pos
          BY <3>3, <4>2
        <5> HIDE DEF content
        <5>. QED
          BY <4>3, <5>1, <5>2, <5>3, CoversStays, Zenon
    <3>. QED
      BY <2>1, <3>2, <3>3
  <2>4. faults' # 0
    BY <1>2, <1>21
  <2>5. Held(s)'
    BY <1>18, <1>21, <2>2, <2>3, <2>4 DEF Held
  <2>6. Sealed(s)'
    BY <1>21, <2>2 DEF Sealed
  <2>7. seal' = [seal EXCEPT ![r.name] = seal[r.name]] /\ faults' \in Nat /\ faults' >= faults
    BY <1>1, <1>2, <1>21 DEF ArchiveTypes
  <2> HIDE DEF torn
  <2>. QED
    <3>1. /\ r.st # "none" /\ r2.name = r.name /\ r2.st # "none"
          /\ rec' = [rec EXCEPT ![s] = r2]
      BY <1>2, <1>21
    <3>2. /\ w \in Contents \cup {NoFile} /\ file' = [file EXCEPT ![r.name] = w]
          /\ seal[r.name] \in Contents \cup {NoFile}
          /\ seal' = [seal EXCEPT ![r.name] = seal[r.name]] /\ now' = now
      BY <1>2, <2>1, <2>2, <2>7
    <3>. QED
      BY <2>5, <2>6, <2>7, <3>1, <3>2, RecorderKeeps, Zenon
<1>. QED
  BY <1>14, <1>20, <1>21, <1>13

(* The cues and the tags are appended, or some of them are missed. *)
LEMMA FinalizeKeeps ==
  ASSUME ArchiveInv, NEW s \in Sessions, Finalize(s)
  PROVE  ArchiveInv'
<1> DEFINE r == rec[s]
           content == file[r.name]
           cues == Cues(s)
           tags == Tags(s, r)
<1>1. ArchiveTypes /\ Held(s) /\ Sealed(s)
  BY DEF ArchiveInv
<1>2. /\ r \in Recorders /\ r.st = "open" /\ r.name \in FileNames /\ r.name # NoFile /\ faults \in Nat
      /\ content \in Contents \cup {NoFile} /\ seal[r.name] \in Contents \cup {NoFile}
      /\ UNCHANGED <<now, seal>>
  BY <1>1, NoFileName DEF ArchiveTypes, Recorders, Finalize
<1>3. r.pos \in Nat /\ r.pos + 1 \in Nat /\ r.pos + 2 \in Nat /\ r.chain \in Seq(Nat)
  BY <1>2 DEF Recorders
<1>4. cues \in Cells /\ tags \in Cells /\ cues.kind = "cues" /\ tags.kind = "tags"
  <2>1. <<>> \in Seq(Nat)
    OBVIOUS
  <2>. QED
    BY <1>3, <2>1 DEF Cues, Tags, Cell, Cells
<1>5. PICK missed : missed = WithSt(r, "failed")
  OBVIOUS
<1>6. PICK closed : closed = WithSt(r, "written")
  OBVIOUS
<1>7. PICK end \in Nat : end = r.pos + 2
  BY <1>3
<1>8. PICK written : written = WithPos(closed, end)
  OBVIOUS
<1>9. /\ missed \in Recorders /\ missed.st = "failed" /\ missed.name = r.name
      /\ closed \in Recorders /\ closed.st = "written" /\ closed.name = r.name /\ closed.cues = r.cues
      /\ closed.chain = r.chain
  BY <1>2, <1>5, <1>6, SetSt
<1>10. /\ written \in Recorders /\ written.st = closed.st /\ written.name = closed.name
       /\ written.pos = end /\ written.cues = closed.cues /\ written.chain = closed.chain
  BY <1>9, <1>7, <1>8, SetPos
<1>11. /\ written \in Recorders /\ written.st = "written" /\ written.name = r.name
      /\ written.pos = r.pos + 2 /\ written.cues = r.cues /\ written.chain = r.chain
  BY <1>9, <1>7, <1>10
<1>12. \/ /\ file' = IF content = NoFile THEN file
                    ELSE [WriteAt(s, r.pos, cues) EXCEPT ![r.name] = Put(@, r.pos + 1, tags)]
         /\ rec' = [rec EXCEPT ![s] = written] /\ UNCHANGED faults
      \/ /\ faults' = faults + 1 /\ file' \in {file, WriteAt(s, r.pos, cues)}
         /\ rec' = [rec EXCEPT ![s] = missed]
  <2>1. /\ [rec EXCEPT ![s].st = "written", ![s].pos = r.pos + 2] = [rec EXCEPT ![s] = written]
        /\ [rec EXCEPT ![s].st = "failed"] = [rec EXCEPT ![s] = missed]
    BY <1>1, <1>5, <1>6, <1>7, <1>8 DEF ArchiveTypes, WithSt, WithPos
  <2>. QED
    BY <2>1 DEF Finalize, Fault
<1> HIDE DEF cues, tags
<1> DEFINE half == IF content = NoFile THEN NoFile ELSE Put(content, r.pos, cues)
           full == IF content = NoFile THEN NoFile ELSE Put(half, r.pos + 1, tags)
<1>13. /\ WriteAt(s, r.pos, cues) = [file EXCEPT ![r.name] = half]
      /\ half \in Contents \cup {NoFile} /\ full \in Contents \cup {NoFile}
  <2>1. content # NoFile => Put(content, r.pos, cues) \in Contents
    BY <1>2, <1>3, <1>4, PutType
  <2>2. content # NoFile => half \in Contents /\ Put(half, r.pos + 1, tags) \in Contents
    BY <1>3, <1>4, <2>1, PutType
  <2>. QED
    BY <1>1, <1>2, <2>1, <2>2 DEF WriteAt, ArchiveTypes
<1>14. (IF content = NoFile THEN file
        ELSE [WriteAt(s, r.pos, cues) EXCEPT ![r.name] = Put(@, r.pos + 1, tags)])
         = [file EXCEPT ![r.name] = full]
  BY <1>1, <1>2, <1>13 DEF ArchiveTypes
<1>15. ASSUME NEW q, rec' = [rec EXCEPT ![s] = q], q.name = r.name, Alone(s)'
       PROVE  Alone(s)
  BY <1>1, <1>15 DEF Alone, ArchiveTypes
<1>16. CASE file' = [file EXCEPT ![r.name] = full] /\ rec' = [rec EXCEPT ![s] = written] /\ UNCHANGED faults
  <2>1. rec'[s] = written /\ file'[r.name] = full
    BY <1>1, <1>2, <1>16 DEF ArchiveTypes
  <2>2. ASSUME Alone(s), full # NoFile
        PROVE  /\ Len(full) = written.pos /\ Covers(r.chain, full, s)
               /\ faults = 0 => \A c \in r.cues : c.off + 1 \in 1 .. Len(full) /\ full[c.off + 1] = Block(s, c.seq)
    <3>1. content # NoFile /\ content \in Contents /\ half = Put(content, r.pos, cues)
          /\ full = Put(half, r.pos + 1, tags)
      BY <1>2, <2>2
    <3>2. /\ Len(content) = r.pos /\ Covers(r.chain, content, s)
          /\ faults = 0 => \A c \in r.cues : c.off + 1 \in 1 .. r.pos /\ content[c.off + 1] = Block(s, c.seq)
      BY <1>1, <1>2, <2>2, <3>1 DEF Held, CuesLead
    <3>3. /\ half \in Contents /\ Len(half) = r.pos + 1 /\ half[r.pos + 1] = cues
          /\ \A i \in 1 .. r.pos : half[i] = content[i]
      BY <1>4, <3>1, <3>2, PutAtEnd
    <3> HIDE DEF half, full
    <3>4. /\ full \in Contents /\ Len(full) = r.pos + 1 + 1 /\ full[r.pos + 1 + 1] = tags
          /\ \A i \in 1 .. r.pos + 1 : full[i] = half[i]
      BY <1>4, <3>1, <3>3, PutAtEnd
    <3>5. Covers(r.chain, half, s)
      <4>1. /\ content \in Contents /\ half \in Contents /\ Covers(r.chain, content, s)
            /\ Len(half) = Len(content) + 1 /\ half[Len(half)].kind # "block"
        BY <1>4, <3>1, <3>2, <3>3
      <4>2. \A i \in 1 .. Len(content) : half[i] = content[i]
        BY <3>2, <3>3
      <4> HIDE DEF content
      <4>. QED
        BY <4>1, <4>2, CoversStays, Zenon
    <3>6. Covers(r.chain, full, s)
      <4>1. /\ half \in Contents /\ full \in Contents
            /\ Len(full) = Len(half) + 1 /\ full[Len(full)].kind # "block"
        BY <1>4, <3>3, <3>4
      <4>2. \A i \in 1 .. Len(half) : full[i] = half[i]
        BY <3>3, <3>4
      <4>. QED
        BY <3>5, <4>1, <4>2, CoversStays, Zenon
    <3>7. ASSUME NEW i \in 1 .. r.pos
          PROVE  i \in 1 .. Len(full) /\ full[i] = content[i]
      <4>1. PICK p \in Nat : p = r.pos
        BY <1>3
      <4>2. PICK l : l = Len(full) /\ l = p + 1 + 1
        BY <3>4, <4>1
      <4>3. i \in 1 .. p /\ p = r.pos
        BY <4>1, Zenon
      <4>4. i \in 1 .. p + 1 /\ i \in 1 .. l
        BY <4>2, <4>3
      <4>. QED
        BY <3>3, <3>4, <4>2, <4>3, <4>4, Zenon
    <3>8. Len(full) = written.pos
      BY <1>3, <1>11, <3>4
    <3>. QED
      BY <3>2, <3>6, <3>7, <3>8
  <2> HIDE DEF full
  <2>3. Held(s)'
    BY <1>11, <1>15, <1>16, <2>1, <2>2 DEF Held, CuesLead
  <2>4. Sealed(s)'
    BY <1>11, <2>1 DEF Sealed
  <2>5. seal' = [seal EXCEPT ![r.name] = seal[r.name]] /\ faults' \in Nat /\ faults' >= faults
    BY <1>1, <1>2, <1>16 DEF ArchiveTypes
  <2>. QED
    BY <1>2, <1>11, <1>13, <1>16, <2>3, <2>4, <2>5, RecorderKeeps
<1>17. ASSUME NEW w \in {content, half}, file' = [file EXCEPT ![r.name] = w],
              rec' = [rec EXCEPT ![s] = missed], faults' = faults + 1
       PROVE  ArchiveInv'
  <2>1. rec'[s] = missed
    BY <1>1, <1>17 DEF ArchiveTypes
  <2>2. Held(s)' /\ Sealed(s)'
    BY <1>9, <2>1 DEF Held, Sealed
  <2>3. seal' = [seal EXCEPT ![r.name] = seal[r.name]] /\ faults' \in Nat /\ faults' >= faults
    BY <1>1, <1>2, <1>17 DEF ArchiveTypes
  <2>4. w \in Contents \cup {NoFile}
    BY <1>2, <1>13
  <2> HIDE DEF half
  <2>. QED
    BY <1>2, <1>9, <1>17, <2>2, <2>3, <2>4, RecorderKeeps
<1>18. file = [file EXCEPT ![r.name] = content]
  BY <1>1, <1>2 DEF ArchiveTypes
<1> HIDE DEF half, full, content
<1>. QED
  BY <1>12, <1>13, <1>14, <1>16, <1>17, <1>18 DEF content

(* The state of a recorder changes, and nothing it holds. *)
LEMMA SealFileKeeps ==
  ASSUME ArchiveInv, NEW s \in Sessions, SealFile(s)
  PROVE  ArchiveInv'
<1> DEFINE r == rec[s]
           content == file[r.name]
<1>1. ArchiveTypes /\ Held(s) /\ Sealed(s)
  BY DEF ArchiveInv
<1>2. /\ r \in Recorders /\ r.st = "written" /\ r.name \in FileNames /\ r.name # NoFile /\ faults \in Nat
      /\ content \in Contents \cup {NoFile} /\ seal[r.name] \in Contents \cup {NoFile}
      /\ UNCHANGED <<now, file>>
  BY <1>1, NoFileName DEF ArchiveTypes, Recorders, SealFile
<1>3. PICK missed, closed : missed = WithSt(r, "failed") /\ closed = WithSt(r, "done")
  OBVIOUS
<1>4. /\ missed \in Recorders /\ missed.st = "failed" /\ missed.name = r.name
      /\ closed \in Recorders /\ closed.st = "done" /\ closed.name = r.name /\ closed.pos = r.pos
      /\ closed.cues = r.cues /\ closed.chain = r.chain
  BY <1>2, <1>3, SetSt
<1>5. \/ /\ content # NoFile /\ seal' = [seal EXCEPT ![r.name] = content]
         /\ rec' = [rec EXCEPT ![s] = closed] /\ UNCHANGED faults
      \/ faults' = faults + 1 /\ rec' = [rec EXCEPT ![s] = missed] /\ UNCHANGED seal
  <2>1. /\ [rec EXCEPT ![s].st = "done"] = [rec EXCEPT ![s] = closed]
        /\ [rec EXCEPT ![s].st = "failed"] = [rec EXCEPT ![s] = missed]
    BY <1>1, <1>3 DEF ArchiveTypes, WithSt
  <2>. QED
    BY <2>1 DEF SealFile, Fault
<1>6. file' = [file EXCEPT ![r.name] = content]
  BY <1>1, <1>2 DEF ArchiveTypes
<1>7. ASSUME NEW q, rec' = [rec EXCEPT ![s] = q], q.name = r.name, Alone(s)'
      PROVE  Alone(s)
  BY <1>1, <1>7 DEF Alone, ArchiveTypes
<1>8. CASE /\ content # NoFile /\ seal' = [seal EXCEPT ![r.name] = content]
           /\ rec' = [rec EXCEPT ![s] = closed] /\ UNCHANGED faults
  <2>1. rec'[s] = closed /\ seal'[r.name] = content
    BY <1>1, <1>2, <1>8 DEF ArchiveTypes
  <2>2. Held(s)'
    BY <1>1, <1>2, <1>4, <1>7, <1>8, <2>1 DEF Held, CuesLead
  <2>3. Sealed(s)'
    BY <1>2, <1>4, <1>8, <2>1 DEF Sealed, VerifySeal
  <2>4. faults' \in Nat /\ faults' >= faults
    BY <1>2, <1>8
  <2> HIDE DEF content
  <2>. QED
    BY <1>2, <1>4, <1>6, <1>8, <2>2, <2>3, <2>4, RecorderKeeps
<1>9. CASE faults' = faults + 1 /\ rec' = [rec EXCEPT ![s] = missed] /\ UNCHANGED seal
  <2>1. rec'[s] = missed
    BY <1>1, <1>9 DEF ArchiveTypes
  <2>2. Held(s)' /\ Sealed(s)'
    BY <1>4, <2>1 DEF Held, Sealed
  <2>3. seal' = [seal EXCEPT ![r.name] = seal[r.name]] /\ faults' \in Nat /\ faults' >= faults
    BY <1>1, <1>2, <1>9 DEF ArchiveTypes
  <2> HIDE DEF content
  <2>. QED
    BY <1>2, <1>4, <1>6, <1>9, <2>2, <2>3, RecorderKeeps
<1>. QED
  BY <1>5, <1>8, <1>9

(* An entry of the index is of a recording that is sealed. *)
LEMMA RegisterKeeps ==
  ASSUME ArchiveInv, NEW s \in Sessions, RegisterSession(s)
  PROVE  ArchiveInv'
<1> DEFINE r == rec[s]
<1>1. ArchiveTypes /\ Held(s) /\ Sealed(s)
  BY DEF ArchiveInv
<1>2. /\ r \in Recorders /\ r.st = "done" /\ r.name \in FileNames /\ r.name # NoFile
      /\ file[r.name] \in Contents \cup {NoFile} /\ seal[r.name] \in Contents \cup {NoFile}
      /\ UNCHANGED <<now, file, seal>> /\ rec' = [rec EXCEPT ![s].st = "registered"]
  BY <1>1, NoFileName DEF ArchiveTypes, Recorders, RegisterSession
<1>3. faults \in Nat /\ faults' \in Nat /\ faults' >= faults
  BY <1>1 DEF RegisterSession, SaveIndex, Fault, ArchiveTypes
<1>4. PICK q : q = WithSt(r, "registered")
  OBVIOUS
<1>5. /\ q \in Recorders /\ q.st = "registered" /\ q.name = r.name /\ q.pos = r.pos
      /\ q.cues = r.cues /\ q.chain = r.chain
  BY <1>2, <1>4, SetSt
<1>6. /\ rec' = [rec EXCEPT ![s] = q] /\ rec'[s] = q
      /\ file' = [file EXCEPT ![r.name] = file[r.name]]
      /\ seal' = [seal EXCEPT ![r.name] = seal[r.name]]
  BY <1>1, <1>2, <1>4 DEF ArchiveTypes, WithSt
<1>7. Alone(s)' => Alone(s)
  BY <1>1, <1>5, <1>6 DEF Alone, ArchiveTypes
<1>8. faults' = 0 => faults = 0
  BY <1>3
<1>9. Held(s)'
  BY <1>1, <1>2, <1>5, <1>6, <1>7, <1>8 DEF Held, CuesLead
<1>10. Sealed(s)'
  BY <1>1, <1>2, <1>5, <1>6, <1>7 DEF Sealed, VerifySeal
<1>. QED
  <2>1. r.st # "none" /\ q.st # "none" /\ now' = now
    BY <1>2, <1>5
  <2>. QED
    BY <1>2, <1>3, <1>5, <1>6, <1>9, <1>10, <2>1, RecorderKeeps, Zenon

-----------------------------------------------------------------------------
(* The store. *)

(* Time goes on, and what has expired is removed. *)
LEMMA StoreKeeps ==
  ASSUME ArchiveInv, rec' = rec, now' \in Nat, now' <= MaxTime, now' >= now,
         faults' \in Nat, faults' >= faults,
         NEW old \in SUBSET FileNames, \A n \in old : n[2] + RetentionDays < now,
         NEW left \in SUBSET old,
         file' = [n \in FileNames |-> IF n \in left THEN NoFile ELSE file[n]],
         seal' = [n \in FileNames |-> IF n \in old THEN NoFile ELSE seal[n]]
  PROVE  ArchiveInv'
<1>1. ArchiveTypes
  BY DEF ArchiveInv
<1>2. ArchiveTypes'
  BY <1>1 DEF ArchiveTypes
<1>3. ASSUME NEW s \in Sessions PROVE Held(s)'
  <2>1. Held(s) /\ (Alone(s)' => Alone(s))
    BY DEF ArchiveInv, Alone
  <2>2. rec[s].st # "none" => rec[s].name \in FileNames
    BY <1>1 DEF ArchiveTypes, Recorders
  <2>3. rec[s].st # "none" /\ file'[rec[s].name] # NoFile => file'[rec[s].name] = file[rec[s].name]
    BY <2>2
  <2>4. faults' = 0 => faults = 0
    BY <1>1 DEF ArchiveTypes
  <2>. QED
    BY <2>1, <2>3, <2>4 DEF Held, CuesLead
<1>4. ASSUME NEW s \in Sessions PROVE Sealed(s)'
  <2>1. Sealed(s) /\ (Alone(s)' => Alone(s))
    BY DEF ArchiveInv, Alone
  <2>2. ASSUME rec[s].st \in {"done", "registered"}, rec[s].name[2] + RetentionDays >= now'
        PROVE  /\ rec[s].name[2] + RetentionDays >= now
               /\ file'[rec[s].name] = file[rec[s].name] /\ seal'[rec[s].name] = seal[rec[s].name]
    <3>1. rec[s].name \in FileNames /\ rec[s].name[2] \in Nat /\ RetentionDays \in Nat /\ now \in Nat
      BY <1>1, <2>2, NameType, ArchiveAssumption DEF ArchiveTypes, Recorders
    <3>2. rec[s].name[2] + RetentionDays >= now
      BY <2>2, <3>1
    <3>3. rec[s].name \notin old
      BY <3>1, <3>2
    <3>. QED
      BY <3>1, <3>2, <3>3
  <2>. QED
    BY <2>1, <2>2 DEF Sealed, VerifySeal
<1>. QED
  BY <1>2, <1>3, <1>4 DEF ArchiveInv

(* Nothing is removed when only time goes on or the index is saved. *)
LEMMA NothingRemoved ==
  ASSUME ArchiveInv, UNCHANGED <<file, seal, rec>>, now' \in Nat, now' <= MaxTime, now' >= now,
         faults' \in Nat, faults' >= faults
  PROVE  ArchiveInv'
<1>1. /\ file' = [n \in FileNames |-> IF n \in {} THEN NoFile ELSE file[n]]
      /\ seal' = [n \in FileNames |-> IF n \in {} THEN NoFile ELSE seal[n]]
  BY DEF ArchiveInv, ArchiveTypes
<1>2. {} \in SUBSET FileNames /\ {} \in SUBSET {} /\ \A n \in {} : n[2] + RetentionDays < now
  OBVIOUS
<1>. QED
  BY <1>1, <1>2, StoreKeeps

(* The retention removes files that have expired, and their seals. *)
LEMMA RetainKeeps ==
  ASSUME ArchiveInv, Retain
  PROVE  ArchiveInv'
<1> DEFINE old == {e.name : e \in {x \in LoadIndex : Expired(x)}}
<1>1. now \in Nat /\ now <= MaxTime /\ faults \in Nat
  BY DEF ArchiveInv, ArchiveTypes
<1>2. /\ UNCHANGED <<now, rec>>
      /\ seal' = [n \in FileNames |->
                    IF \E e \in LoadIndex : Expired(e) /\ e.name = n THEN NoFile ELSE seal[n]]
  BY DEF Retain
<1>3. faults' \in Nat /\ faults' >= faults
  BY <1>1 DEF Retain, Fault
<1>4. \A n \in old : n[2] + RetentionDays < now
  BY DEF Expired
<1>5. \A n : (\E e \in LoadIndex : Expired(e) /\ e.name = n) <=> n \in old
  OBVIOUS
<1>6. \E left \in SUBSET old : file' = [n \in FileNames |-> IF n \in left THEN NoFile ELSE file[n]]
  BY DEF Retain
<1> HIDE DEF old
<1>7. PICK left \in SUBSET old : file' = [n \in FileNames |-> IF n \in left THEN NoFile ELSE file[n]]
  BY <1>6
<1> DEFINE o == old \cap FileNames
           l == left \cap FileNames
<1>8. /\ o \in SUBSET FileNames /\ l \in SUBSET o /\ \A n \in o : n[2] + RetentionDays < now
      /\ file' = [n \in FileNames |-> IF n \in l THEN NoFile ELSE file[n]]
      /\ seal' = [n \in FileNames |-> IF n \in o THEN NoFile ELSE seal[n]]
  BY <1>2, <1>4, <1>5, <1>7
<1> HIDE DEF o, l
<1>9. rec' = rec /\ now' \in Nat /\ now' <= MaxTime /\ now' >= now
  <2>1. rec' = rec /\ now' = now
    BY <1>2
  <2>. QED
    BY <1>1, <2>1
<1>10. /\ o \in SUBSET FileNames /\ l \in SUBSET o
       /\ \A n \in o : n[2] + RetentionDays < now
  BY <1>8
<1>. QED
  BY <1>3, <1>8, <1>9, <1>10, StoreKeeps

(* Every step of the archive keeps the invariant. *)
LEMMA ArchiveStep == ArchiveInv /\ [Next]_vars => ArchiveInv'
<1> SUFFICES ASSUME ArchiveInv, [Next]_vars PROVE ArchiveInv'
  OBVIOUS
<1>1. now \in Nat /\ now <= MaxTime /\ faults \in Nat /\ MaxTime \in Nat
  BY ArchiveAssumption DEF ArchiveInv, ArchiveTypes
<1>2. ASSUME NEW s \in Sessions,
             NewRecorder(s) \/ RecordFrame(s) \/ Finalize(s) \/ SealFile(s) \/ RegisterSession(s)
      PROVE  ArchiveInv'
  BY <1>2, NewRecorderKeeps, FrameKeeps, FinalizeKeeps, SealFileKeeps, RegisterKeeps
<1>3. CASE Retain
  BY <1>3, RetainKeeps
<1>4. CASE RetainSave
  BY <1>1, <1>4, NothingRemoved DEF RetainSave, SaveIndex, Fault
<1>5. CASE Tick
  BY <1>1, <1>5, NothingRemoved DEF Tick
<1>6. CASE UNCHANGED vars
  BY <1>1, <1>6, NothingRemoved DEF vars
<1>. QED
  BY <1>2, <1>3, <1>4, <1>5, <1>6 DEF Next

LEMMA ArchiveHolds == Spec => []ArchiveInv
BY ArchiveInit, ArchiveStep, PTL DEF Spec

(* However many recordings there are and whichever writes fail, the chain     *)
(* hash in a recording's tags is over the frames the file holds               *)
(* (record_frame, finalize).                                                  *)
THEOREM ChainSafety == Spec => []ChainCoversFile
<1>1. ArchiveInv => ChainCoversFile
  BY DEF ArchiveInv, Held, Complete, ChainCoversFile
<1>. QED
  BY <1>1, ArchiveHolds, PTL

(* Without a failure every cue leads to its frame (record_frame's offset).    *)
THEOREM CueSafety == Spec => []CuesFindFrames
<1>1. ArchiveInv => CuesFindFrames
  BY DEF ArchiveInv, Held, CuesLead, Complete, CuesFindFrames
<1>. QED
  BY <1>1, ArchiveHolds, PTL

(* A sealed recording verifies until it expires, whatever fails around it     *)
(* (seal_file, apply_retention).                                              *)
THEOREM SealSafety == Spec => []SealVerifies
<1>1. ArchiveInv => SealVerifies
  BY DEF ArchiveInv, Sealed, SealVerifies
<1>. QED
  BY <1>1, ArchiveHolds, PTL

=============================================================================
