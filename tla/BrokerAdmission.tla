--------------------------- MODULE BrokerAdmission ---------------------------
(***************************************************************************)
(* How the broker admits its clients: handle_client (routing/mod.rs), the  *)
(* authentication with its rate limiter (auth/mod.rs, auth/ratelimit.rs)   *)
(* and the registry of sessions (session.rs).  Each connection is handled  *)
(* by a task of its own; the tasks share the limiter and the registry.     *)
(*                                                                         *)
(* Instants are kept relative to now: the age of a failure, up to Window,  *)
(* and the time a ban has left.  A failure older than Window is never      *)
(* counted and is not kept.                                                *)
(***************************************************************************)
EXTENDS Integers, FiniteSets

CONSTANTS
  Clients,     \* connections; a name is used again when nothing bears it any more
  Ips,
  IpOf,        \* the address a connection comes from
  MaxSessions, \* network.max_sessions
  MaxFailures, \* security_max_attempts
  Window,      \* the limiter's sliding window
  BanTime      \* security_ban_secs

ASSUME AdmissionAssumption ==
  /\ IsFiniteSet(Clients)
  /\ IpOf \in [Clients -> Ips]
  /\ MaxSessions \in Nat
  /\ MaxFailures \in Nat \ {0}
  /\ Window \in Nat /\ BanTime \in Nat /\ Window <= BanTime

VARIABLES
  pc,       \* where handle_client is
  failAge,  \* age of the failure a connection has on record, Window if none
  banLeft,  \* time left of an address's ban, 0 if none
  sess,     \* registry: the state of a connection's session
  vms,      \* connections to whose session the pool has assigned a VM
  peak      \* history: the most admissions there have been at once

limiter == <<failAge, banLeft>>
vars == <<pc, limiter, sess, vms, peak>>

-----------------------------------------------------------------------------

Pc == {"idle", "asking", "limit", "auth", "assign", "token", "respond", "served",
       "gone", "refused"}

(* active_count. *)
Active == {c \in Clients : sess[c] = "active"}

(* Past the check of max_sessions, not registered yet. *)
Admitted == {c \in Clients : pc[c] \in {"asking", "limit", "auth", "assign", "token"}}

(* failure_count: the failures of an address in the window. *)
Recent(ip) == {c \in Clients : IpOf[c] = ip /\ failAge[c] < Window}

Banned(ip) == banLeft[ip] > 0

TypeOK ==
  /\ pc \in [Clients -> Pc]
  /\ failAge \in [Clients -> 0..Window]
  /\ banLeft \in [Ips -> 0..BanTime]
  /\ sess \in [Clients -> {"none", "active", "closing"}]
  /\ vms \subseteq Clients
  /\ peak \in 0..Cardinality(Clients)

Init ==
  /\ pc = [c \in Clients |-> "idle"]
  /\ failAge = [c \in Clients |-> Window]
  /\ banLeft = [ip \in Ips |-> 0]
  /\ sess = [c \in Clients |-> "none"]
  /\ vms = {}
  /\ peak = 0

Goes(c, from, to) == pc[c] = from /\ pc' = [pc EXCEPT ![c] = to]

-----------------------------------------------------------------------------
(* The limiter.                                                              *)

(* Mutant: the failure that reaches the limit does not ban. *)
RecordFailureOffByOne(c) ==
  /\ failAge' = [failAge EXCEPT ![c] = 0]
  /\ banLeft' = IF Cardinality(Recent(IpOf[c]) \cup {c}) > MaxFailures
                THEN [banLeft EXCEPT ![IpOf[c]] = BanTime]
                ELSE banLeft

(* record_failure: at the limit the address is banned, anew if it was. *)
RecordFailure(c) ==
  /\ failAge' = [failAge EXCEPT ![c] = 0]
  /\ banLeft' = IF Cardinality(Recent(IpOf[c]) \cup {c}) >= MaxFailures
                THEN [banLeft EXCEPT ![IpOf[c]] = BanTime]
                ELSE banLeft

(* record_success: the address's entry is removed, with its ban. *)
RecordSuccess(c) ==
  /\ failAge' = [d \in Clients |-> IF IpOf[d] = IpOf[c] THEN Window ELSE failAge[d]]
  /\ banLeft' = [banLeft EXCEPT ![IpOf[c]] = 0]

(* Time passes. *)
Tick ==
  /\ failAge' = [c \in Clients |-> IF failAge[c] < Window THEN failAge[c] + 1 ELSE Window]
  /\ banLeft' = [ip \in Ips |-> IF banLeft[ip] > 0 THEN banLeft[ip] - 1 ELSE 0]
  /\ UNCHANGED <<pc, sess, vms, peak>>

-----------------------------------------------------------------------------
(* handle_client.                                                            *)

NotePeak == peak' = IF Cardinality(Admitted') > peak THEN Cardinality(Admitted') ELSE peak

(* Mutant: one session too many passes the check. *)
AcceptOffByOne(c) ==
  /\ \/ Cardinality(Active) > MaxSessions /\ Goes(c, "idle", "refused")
     \/ Cardinality(Active) <= MaxSessions /\ Goes(c, "idle", "asking")
  /\ NotePeak
  /\ UNCHANGED <<limiter, sess, vms>>

Accept(c) ==
  /\ \/ Cardinality(Active) >= MaxSessions /\ Goes(c, "idle", "refused")
     \/ Cardinality(Active) < MaxSessions /\ Goes(c, "idle", "asking")
  /\ NotePeak
  /\ UNCHANGED <<limiter, sess, vms>>

(* receive_session_request fails. *)
RequestFails(c) ==
  /\ Goes(c, "asking", "refused")
  /\ UNCHANGED <<limiter, sess, vms, peak>>

(* Mutant: an attempt during a ban is a failure too. *)
CheckBanRecords(c) ==
  /\ \/ Banned(IpOf[c]) /\ Goes(c, "asking", "refused") /\ RecordFailure(c)
     \/ ~Banned(IpOf[c]) /\ Goes(c, "asking", "limit") /\ UNCHANGED limiter
  /\ UNCHANGED <<sess, vms, peak>>

(* is_banned: the attempt is refused and leaves no trace. *)
CheckBan(c) ==
  /\ \/ Banned(IpOf[c]) /\ Goes(c, "asking", "refused")
     \/ ~Banned(IpOf[c]) /\ Goes(c, "asking", "limit")
  /\ UNCHANGED <<limiter, sess, vms, peak>>

(* is_rate_limited: refused, and a failure. *)
CheckLimit(c) ==
  /\ \/ Cardinality(Recent(IpOf[c])) >= MaxFailures
        /\ Goes(c, "limit", "refused") /\ RecordFailure(c)
     \/ Cardinality(Recent(IpOf[c])) < MaxFailures
        /\ Goes(c, "limit", "auth") /\ UNCHANGED limiter
  /\ UNCHANGED <<sess, vms, peak>>

AuthFails(c) ==
  /\ Goes(c, "auth", "refused")
  /\ RecordFailure(c)
  /\ UNCHANGED <<sess, vms, peak>>

AuthSucceeds(c) ==
  /\ Goes(c, "auth", "assign")
  /\ RecordSuccess(c)
  /\ UNCHANGED <<sess, vms, peak>>

(* assign_or_provision. *)
Assign(c) ==
  /\ \/ Goes(c, "assign", "token") /\ vms' = vms \cup {c}
     \/ Goes(c, "assign", "refused") /\ UNCHANGED vms
  /\ UNCHANGED <<limiter, sess, peak>>

(* The token is signed and the session registered; when the signature fails *)
(* the VM stays assigned.                                                   *)
Register(c) ==
  /\ \/ Goes(c, "token", "respond") /\ sess' = [sess EXCEPT ![c] = "active"]
     \/ Goes(c, "token", "refused") /\ UNCHANGED sess
  /\ UNCHANGED <<limiter, vms, peak>>

(* send_session_response; when it fails the session stays registered. *)
Respond(c) ==
  /\ Goes(c, "respond", "served") \/ Goes(c, "respond", "gone")
  /\ UNCHANGED <<limiter, sess, vms, peak>>

(* The client closes, or session_timeout_secs: only logged. *)
Leave(c) ==
  /\ Goes(c, "served", "gone")
  /\ UNCHANGED <<limiter, sess, vms, peak>>

-----------------------------------------------------------------------------
(* Around it.                                                                *)

(* The pool takes the VM back (gc_expired_sessions, gc_stale_sessions). *)
ReleaseVm(c) ==
  /\ c \in vms
  /\ vms' = vms \ {c}
  /\ UNCHANGED <<pc, limiter, sess, peak>>

(* The administrator revokes a session: its entry is marked. *)
Revoke(c) ==
  /\ sess[c] # "none"
  /\ sess' = [sess EXCEPT ![c] = "closing"]
  /\ UNCHANGED <<pc, limiter, vms, peak>>

(* Another connection comes under a name that nothing bears any more. *)
NewConnection(c) ==
  /\ sess[c] = "none" /\ c \notin vms /\ failAge[c] = Window
  /\ Goes(c, "refused", "idle")
  /\ UNCHANGED <<limiter, sess, vms, peak>>

Handle(c) == CheckBan(c) \/ CheckLimit(c) \/ AuthFails(c) \/ AuthSucceeds(c)
             \/ Assign(c) \/ Register(c) \/ Respond(c)

Next ==
  \/ Tick
  \/ \E c \in Clients : Accept(c) \/ RequestFails(c) \/ Handle(c) \/ Leave(c)
  \/ \E c \in Clients : ReleaseVm(c) \/ Revoke(c) \/ NewConnection(c)

Spec == Init /\ [][Next]_vars

(* Time passes, a request that has come is handled to its end, connections *)
(* close or time out, and the pool's collectors run.                       *)
Fairness ==
  /\ WF_vars(Tick)
  /\ \A c \in Clients : WF_vars(Handle(c)) /\ WF_vars(Leave(c)) /\ WF_vars(ReleaseVm(c))

FairSpec == Spec /\ Fairness

-----------------------------------------------------------------------------
(* Properties.                                                               *)

(* An address with max_failures failures in the window is banned: when its    *)
(* ban has ended, is_rate_limited lets the next attempt be authenticated, even *)
(* if attempts that were under way when it was banned have failed since.       *)
FullMeansBanned ==
  \A ip \in Ips : Cardinality(Recent(ip)) >= MaxFailures => Banned(ip)

(* max_sessions, checked before the request is received and the VM assigned, is *)
(* exceeded only by clients that were admitted at the same time.                *)
AdmissionBounded ==
  Cardinality(Active) + Cardinality(Admitted) <= MaxSessions + (IF peak = 0 THEN 0 ELSE peak - 1)

(* A ban ends however often the address tries again in the meantime. *)
BanEnds == \A ip \in Ips : Banned(ip) ~> ~Banned(ip)
=============================================================================
