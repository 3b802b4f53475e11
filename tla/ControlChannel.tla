--------------------------- MODULE ControlChannel ---------------------------
(* The control stream of a session: key agreement, the cipher of each end,    *)
(* frames from the client (opening, clipboard, inputs) and back (clipboard),  *)
(* the clipboard filter, the injector, and the clipboards of the two desks.   *)
(* The server's side is nidan-server's; nidan-proxy-encoder has the same code *)
(* with one more injector (InputPath).                                        *)
(*                                                                            *)
(* A clipboard content is a record: size in KiB, MIME type, whether it is     *)
(* UTF-8, the patterns it matches.  Lengths are in KiB.                       *)
EXTENDS Integers, Sequences

CONSTANTS Contents,    \* [size : Nat, mime : STRING, utf8 : BOOLEAN, matches : SUBSET STRING]
          Policies,    \* [c2s, s2c : BOOLEAN, max : Nat, mimes, patterns : SUBSET STRING]
          NoContent,
          ServerReads, \* longest control frame the server reads (64)
          ClientReads, \* longest control frame the client reads (1074)
          MaxCounter,  \* last value of frame_counter (2^64 - 1)
          MaxBatches, Window

ASSUME ControlAssumption ==
    /\ ServerReads \in Nat \ {0} /\ ClientReads \in Nat
    /\ MaxCounter \in Nat /\ MaxBatches \in Nat /\ Window \in Nat \ {0}
    /\ Contents \subseteq [size : Nat, mime : STRING, utf8 : BOOLEAN, matches : SUBSET STRING]
    /\ NoContent \notin Contents

Ends == {"client", "server"}
MaxClipboard == 1024        \* MAX_CLIPBOARD_BYTES
InvalidPattern == "("       \* a pattern that does not compile

VARIABLES policy,    \* ClipboardPolicy of the server
          wants,     \* security.e2e_encryption of each end
          ciphered,  \* the end has the control cipher
          counter,   \* frame_counter of the cipher each end encrypts with
          made,      \* number of messages each end has encrypted
          used,      \* encrypted messages, with their nonces
          phase,     \* "hello", "ack", "open" or "closed"
          step,      \* the client's next frame: "opening", "clipboard", "inputs"
          task,      \* the server's control task
          toServer, toClient,  \* frames on the stream
          skewed,    \* the reader of that end is inside a frame
          skipped,   \* a frame too long for its reader was sent
          sent,      \* number of input batches written
          portal,    \* batches given to the thread of the portal
          injected,  \* batches injected
          clip,      \* what each end's clipboard serves for Nidan
          owner,     \* who holds the selection of each desk
          pasted,    \* contents applications obtained from Nidan
          backend    \* LocalClipboard of the client's desk

(* LocalClipboard::detect_and_start: Wayland first, then X11, then nothing. *)
Desks == {"wayland", "x11", "noop"}

cryptoVars == <<counter, made, used>>
deskVars == <<clip, owner, pasted, backend>>
vars == <<policy, wants, ciphered, cryptoVars, phase, step, task, toServer, toClient,
          skewed, skipped, sent, portal, injected, deskVars>>

Init == /\ policy \in Policies /\ wants \in [Ends -> BOOLEAN]
        /\ ciphered = [e \in Ends |-> FALSE]
        /\ counter = [e \in Ends |-> 0] /\ made = [e \in Ends |-> 0] /\ used = {}
        /\ phase = "hello" /\ step = "opening" /\ task = "handshake"
        /\ toServer = <<>> /\ toClient = <<>>
        /\ skewed = [e \in Ends |-> FALSE] /\ skipped = [e \in Ends |-> FALSE]
        /\ sent = 0 /\ portal = <<>> /\ injected = <<>>
        /\ clip = [e \in Ends |-> NoContent] /\ owner = [e \in Ends |-> "nobody"]
        /\ pasted = {} /\ backend \in Desks

-----------------------------------------------------------------------------
(* Keys.  The server answers the client's public key with its own; each end   *)
(* derives the same keys and makes a cipher whose counter is 0.               *)

(* X25519, then HKDF over the secret and the two nonces: both ends have the    *)
(* same key for control, if both want one.                                    *)
Agreed == wants["server"] /\ wants["client"]

(* handle_connection: the session's token is good, or the client is refused. *)
ServerHandshake ==
    /\ phase = "hello" /\ task = "handshake"
    /\ \/ /\ ciphered' = [ciphered EXCEPT !["server"] = Agreed]
          /\ phase' = "ack" /\ task' = "accept"
       \/ phase' = "closed" /\ task' = "over" /\ UNCHANGED ciphered
    /\ UNCHANGED <<policy, wants, cryptoVars, step, toServer, toClient, skewed, skipped,
                   sent, portal, injected, deskVars>>

(* ClipboardOwner::start: a hidden window takes the selection of the desk. *)
TakeSelection(e) == owner' = [owner EXCEPT ![e] = "nidan"]

(* do_handshake: the acknowledgement says whether the session is encrypted. *)
ClientHandshake ==
    /\ phase = "ack"
    /\ ciphered' = [ciphered EXCEPT !["client"] = ciphered["server"]]
    /\ phase' = "open"
    /\ IF backend = "x11" THEN TakeSelection("client") ELSE UNCHANGED owner
    /\ UNCHANGED <<policy, wants, cryptoVars, step, task, toServer, toClient, skewed,
                   skipped, sent, portal, injected, clip, pasted, backend>>

-----------------------------------------------------------------------------
(* StreamCipher. *)

\* Mutant: the way back uses encrypt, as the way there does.
OneDirection(e) == 0

(* The ninth byte of the nonce: encrypt leaves it 0, encrypt_dir writes 1. *)
DirectionByte(e) == IF e = "client" THEN 0 ELSE 1

NonceOf(e) == <<counter[e], DirectionByte(e)>>

Saturated(e) == ciphered[e] /\ counter[e] = MaxCounter

(* A message of end e enters a frame: encrypted under the next nonce, or in   *)
(* the clear.  Not enabled when the counter is saturated: encrypt fails.      *)
Encrypt(e) ==
    /\ ~ Saturated(e)
    /\ IF ciphered[e]
       THEN /\ used' = used \cup {[from |-> e, number |-> made[e], nonce |-> NonceOf(e)]}
            /\ made' = [made EXCEPT ![e] = @ + 1]
            /\ counter' = [counter EXCEPT ![e] = @ + 1]
       ELSE UNCHANGED cryptoVars

Frame(type, e, body, length) ==
    [type |-> type, flag |-> ciphered[e], body |-> body, length |-> length]

(* The JSON of a byte is at least a digit and a comma, three characters for   *)
(* most letters.                                                              *)
ClipLength(content) == 3 * content.size + 1

TooLong(frame, limit) == frame.length > limit

-----------------------------------------------------------------------------
(* ClipboardFilter::evaluate_proto: direction, size, MIME type, patterns. *)
EffectiveMax == IF policy.max = 0 THEN MaxClipboard
                ELSE IF policy.max < MaxClipboard THEN policy.max ELSE MaxClipboard

PatternBlocks(content) ==
    content.utf8 /\ \E p \in policy.patterns : p = InvalidPattern \/ p \in content.matches

Allowed(dir, content) ==
    /\ IF dir = "c2s" THEN policy.c2s ELSE policy.s2c
    /\ content.size <= EffectiveMax
    /\ policy.mimes # {} => content.mime \in policy.mimes
    /\ ~ PatternBlocks(content)

-----------------------------------------------------------------------------
(* The client writes.  A frame written after the server's task has ended is   *)
(* refused by QUIC: the error is logged.                                      *)
Writes(frame) == toServer' = IF task = "over" THEN toServer ELSE Append(toServer, frame)

(* The opening frame makes the server's accept_bi return. *)
SendOpening ==
    /\ phase = "open" /\ step = "opening"
    /\ toServer' = Append(toServer, [type |-> "open", flag |-> FALSE, body |-> 0, length |-> 1])
    /\ step' = "clipboard"
    /\ UNCHANGED <<policy, wants, ciphered, cryptoVars, phase, task, toClient, skewed,
                   skipped, sent, portal, injected, deskVars>>

(* NIDAN_TEST_CLIPBOARD: text sent once; the client has no filter. *)
SendClipboard ==
    /\ phase = "open" /\ step = "clipboard" /\ Len(toServer) < Window
    /\ \/ UNCHANGED <<cryptoVars, toServer, skipped>>
       \/ \E content \in {c \in Contents : c.mime = "text/plain"} :
            LET frame == Frame("clipboard", "client", [dir |-> "c2s", content |-> content],
                               ClipLength(content))
            IN /\ Encrypt("client")
               /\ Writes(frame)
               /\ skipped' = [skipped EXCEPT !["server"] = @ \/ TooLong(frame, ServerReads)]
    /\ step' = "inputs"
    /\ UNCHANGED <<policy, wants, ciphered, phase, task, toClient, skewed, sent, portal,
                   injected, deskVars>>

SendInputBatch ==
    /\ phase = "open" /\ step = "inputs" /\ sent < MaxBatches /\ Len(toServer) < Window
    /\ Encrypt("client")
    /\ Writes(Frame("input", "client", sent + 1, 1))
    /\ sent' = sent + 1
    /\ UNCHANGED <<policy, wants, ciphered, phase, step, task, toClient, skewed, skipped,
                   portal, injected, deskVars>>

-----------------------------------------------------------------------------
(* The server's control task. *)

(* accept_bi returns with the first frame. *)
Accept == /\ phase = "open" /\ task = "accept" /\ toServer # <<>>
          /\ task' = "clipboard"
          /\ UNCHANGED <<policy, wants, ciphered, cryptoVars, phase, step, toServer, toClient,
                         skewed, skipped, sent, portal, injected, deskVars>>

(* NIDAN_TEST_CLIPBOARD_S2C: text sent once, filtered first. *)
SendClipboardToClient ==
    /\ phase = "open" /\ task = "clipboard"
    /\ \/ UNCHANGED <<cryptoVars, toClient, skipped>>
       \/ \E content \in {c \in Contents : c.mime = "text/plain"} :
            LET frame == Frame("clipboard", "server", [dir |-> "s2c", content |-> content],
                               ClipLength(content))
            IN IF Allowed("s2c", content)
               THEN /\ Encrypt("server")
                    /\ toClient' = Append(toClient, frame)
                    /\ skipped' = [skipped EXCEPT !["client"] = @ \/ TooLong(frame, ClientReads)]
               ELSE UNCHANGED <<cryptoVars, toClient, skipped>>
    /\ task' = "injector"
    /\ UNCHANGED <<policy, wants, ciphered, phase, step, toServer, skewed, sent, portal,
                   injected, deskVars>>

(* The selection is best effort: without it the inputs are injected alike. *)
NewXtest == /\ task' = "xtest"
            /\ TakeSelection("server") \/ UNCHANGED owner

(* make_injector: XTEST, with or without its selection, or the portal, which  *)
(* asks its user first; the task ends when there is no injector.              *)
MakeInjector ==
    /\ phase = "open" /\ task = "injector"
    /\ \/ NewXtest
       \/ task' \in {"asks", "over"} /\ UNCHANGED owner
    /\ toServer' = IF task' = "over" THEN <<>> ELSE toServer
    /\ UNCHANGED <<policy, wants, ciphered, cryptoVars, phase, step, toClient, skewed,
                   skipped, sent, portal, injected, clip, pasted, backend>>

(* RemoteDesktopInjector::new waits for the answer of its thread. *)
PortalAnswers ==
    /\ phase = "open" /\ task = "asks"
    /\ task' \in {"portal", "over"}
    /\ toServer' = IF task' = "over" THEN <<>> ELSE toServer
    /\ UNCHANGED <<policy, wants, ciphered, cryptoVars, phase, step, toClient, skewed,
                   skipped, sent, portal, injected, deskVars>>

Reading == phase = "open" /\ task \in {"xtest", "portal"}

(* A frame longer than the limit: the loop goes on after its length, and      *)
(* reads the body as frames.  Whether it meets the next length is chance.     *)
LoseStep ==
    /\ Reading /\ toServer # <<>>
    /\ skewed["server"] \/ TooLong(Head(toServer), ServerReads)
    /\ toServer' = Tail(toServer)
    /\ \E b \in BOOLEAN : skewed' = [skewed EXCEPT !["server"] = b]
    /\ UNCHANGED <<policy, wants, ciphered, cryptoVars, phase, step, task, toClient,
                   skipped, sent, portal, injected, deskVars>>

(* The next frame is whole and its payload readable: an encrypted one needs   *)
(* the cipher.                                                                *)
Receives(type) ==
    /\ Reading /\ toServer # <<>> /\ ~ skewed["server"]
    /\ ~ TooLong(Head(toServer), ServerReads)
    /\ Head(toServer).type = type
    /\ Head(toServer).flag => ciphered["server"]
    /\ toServer' = Tail(toServer)
    /\ UNCHANGED <<policy, wants, ciphered, cryptoVars, phase, step, task, toClient, skewed,
                   skipped, sent, owner, pasted, backend>>

ReadOpening == Receives("open") /\ UNCHANGED <<portal, injected, clip>>

(* XTEST injects a batch at once; an event that cannot be is skipped. *)
XtestInjects(batch) == injected' = Append(injected, batch) /\ UNCHANGED portal

\* Mutant: a bounded channel to the portal's thread, try_send.
PortalQueuesOrDrops(batch) ==
    /\ portal' = IF portal = <<>> THEN <<batch>> ELSE portal
    /\ UNCHANGED injected

(* The portal's thread injects it in its time. *)
PortalQueues(batch) == portal' = Append(portal, batch) /\ UNCHANGED injected

ReadInput ==
    /\ Receives("input")
    /\ IF task = "xtest" THEN XtestInjects(Head(toServer).body)
                         ELSE PortalQueues(Head(toServer).body)
    /\ UNCHANGED clip

\* Mutant: the content is set before the filter decides.
SetThenFilter ==
    /\ Receives("clipboard")
    /\ clip' = IF task = "xtest"
               THEN [clip EXCEPT !["server"] = Head(toServer).body.content] ELSE clip
    /\ UNCHANGED <<portal, injected>>

(* Injector::set_clipboard does nothing with the portal. *)
SetClipboard(content) ==
    clip' = IF task = "xtest" THEN [clip EXCEPT !["server"] = content] ELSE clip

ReadClipboard ==
    /\ Receives("clipboard")
    /\ LET req == Head(toServer).body
       IN IF Allowed(req.dir, req.content) THEN SetClipboard(req.content) ELSE UNCHANGED clip
    /\ UNCHANGED <<portal, injected>>

(* apply_event for each event; one the portal refuses is skipped. *)
PortalInjects(batch) == injected' = Append(injected, batch)

(* portal_thread: it ends once the injector is dropped and its queue empty. *)
PortalApplies ==
    /\ portal # <<>>
    /\ PortalInjects(Head(portal)) /\ portal' = Tail(portal)
    /\ UNCHANGED <<policy, wants, ciphered, cryptoVars, phase, step, task, toServer, toClient,
                   skewed, skipped, sent, deskVars>>

-----------------------------------------------------------------------------
(* The client reads; what passed the server's filter goes to its clipboard.   *)
(* With Wayland each copy takes the selection.                                *)
ClientLosesStep ==
    /\ phase = "open" /\ toClient # <<>> /\ TooLong(Head(toClient), ClientReads)
    /\ toClient' = Tail(toClient)
    /\ skewed' = [skewed EXCEPT !["client"] = TRUE]
    /\ UNCHANGED <<policy, wants, ciphered, cryptoVars, phase, step, task, toServer, skipped,
                   sent, portal, injected, deskVars>>

ServeHere(content) ==
    /\ clip' = [clip EXCEPT !["client"] = content]
    /\ IF backend = "wayland" THEN TakeSelection("client") ELSE UNCHANGED owner

ClientReceives ==
    /\ phase = "open" /\ toClient # <<>> /\ ~ TooLong(Head(toClient), ClientReads)
    /\ Head(toClient).flag => ciphered["client"]
    /\ toClient' = Tail(toClient)
    /\ ServeHere(Head(toClient).body.content)
    /\ UNCHANGED <<policy, wants, ciphered, cryptoVars, phase, step, task, toServer, skewed,
                   skipped, sent, portal, injected, pasted, backend>>

-----------------------------------------------------------------------------
(* The desks.  The X selection is taken once, when the owner starts; another  *)
(* application that copies takes it for good (SelectionClear is only logged). *)
AppCopies(e) ==
    /\ owner[e] = "nidan" /\ owner' = [owner EXCEPT ![e] = "application"]
    /\ UNCHANGED <<policy, wants, ciphered, cryptoVars, phase, step, task, toServer, toClient,
                   skewed, skipped, sent, portal, injected, clip, pasted, backend>>

Paste(e) ==
    /\ owner[e] = "nidan" /\ clip[e] # NoContent
    /\ pasted' = pasted \cup {[at |-> e, content |-> clip[e]]}
    /\ UNCHANGED <<policy, wants, ciphered, cryptoVars, phase, step, task, toServer, toClient,
                   skewed, skipped, sent, portal, injected, clip, owner, backend>>

(* The session ends: the streams go with the connection. *)
Close == /\ phase \in {"ack", "open"}
         /\ phase' = "closed" /\ task' = "over" /\ toServer' = <<>> /\ toClient' = <<>>
         /\ UNCHANGED <<policy, wants, ciphered, cryptoVars, step, skewed, skipped, sent,
                        portal, injected, deskVars>>

Next == \/ ServerHandshake \/ ClientHandshake \/ Close
        \/ SendOpening \/ SendClipboard \/ SendInputBatch
        \/ Accept \/ SendClipboardToClient \/ MakeInjector \/ PortalAnswers
        \/ LoseStep \/ ReadOpening \/ ReadInput \/ ReadClipboard \/ PortalApplies
        \/ ClientLosesStep \/ ClientReceives
        \/ \E e \in Ends : AppCopies(e) \/ Paste(e)

Spec == Init /\ [][Next]_vars

-----------------------------------------------------------------------------
(* No nonce serves two messages of a session, whichever end encrypted them:   *)
(* both ends use one key (crypto.rs, duplicate_fresh and encrypt_dir).        *)
NoncesUnique == \A a, b \in used : a.nonce = b.nonce => a = b

(* Batches are injected in the order they were written and none twice; none   *)
(* is missing before one that is injected, unless a frame too long for the    *)
(* server was on the stream (run_session, the control task).                  *)
InputsFollow ==
    LET seen == injected \o portal
    IN \A i \in 1 .. Len(seen) :
          /\ i > 1 => seen[i] > seen[i - 1]
          /\ ~ skipped["server"] => seen[i] = i

(* Whatever an application pastes from Nidan, at either end, is a content the *)
(* policy lets through in that direction (clipboard.rs), although the client  *)
(* filters nothing.                                                           *)
PastesAllowed ==
    \A p \in pasted : Allowed(IF p.at = "server" THEN "c2s" ELSE "s2c", p.content)
=============================================================================
