------------------------ MODULE BrokerAdmission_proofs ------------------------
(***************************************************************************)
(* Proofs about BrokerAdmission, for all finite sets of connections, all   *)
(* addresses, limits and durations, as long as a ban is not shorter than   *)
(* the window.                                                             *)
(***************************************************************************)
EXTENDS BrokerAdmission, FiniteSetTheorems, TLAPS

-----------------------------------------------------------------------------
(* Cardinalities of sets of connections. *)

(* Every set of connections is finite; a larger one has no fewer members. *)
LEMMA ClientSets ==
  ASSUME NEW S \in SUBSET Clients
  PROVE  /\ IsFiniteSet(S)
         /\ Cardinality(S) \in Nat
         /\ Cardinality(S) <= Cardinality(Clients)
         /\ \A T \in SUBSET S : Cardinality(T) <= Cardinality(S)
<1>1. IsFiniteSet(Clients)
  BY AdmissionAssumption
<1>2. IsFiniteSet(S) /\ Cardinality(S) <= Cardinality(Clients)
  BY <1>1, FS_Subset
<1>3. Cardinality(S) \in Nat
  BY <1>2, FS_CardinalityType
<1>. QED
  BY <1>2, <1>3, FS_Subset

(* One member more or less. *)
LEMMA OneMore ==
  ASSUME NEW S \in SUBSET Clients, NEW c \in Clients
  PROVE  /\ Cardinality(S \cup {c}) <= Cardinality(S) + 1
         /\ c \in S => Cardinality(S \ {c}) = Cardinality(S) - 1
<1>1. IsFiniteSet(S) /\ Cardinality(S) \in Nat
  BY ClientSets
<1>2. Cardinality(S \cup {c}) = IF c \in S THEN Cardinality(S) ELSE Cardinality(S) + 1
  BY <1>1, FS_AddElement
<1>3. Cardinality(S \ {c}) = IF c \in S THEN Cardinality(S) - 1 ELSE Cardinality(S)
  BY <1>1, FS_RemoveElement
<1> DEFINE n == Cardinality(S)
           m == Cardinality(S \cup {c})
<1>4. n \in Nat /\ (m = n \/ m = n + 1)
  BY <1>1, <1>2
<1> HIDE DEF n, m
<1>5. m <= n + 1
  BY <1>4
<1>. QED
  BY <1>3, <1>5 DEF n, m

-----------------------------------------------------------------------------
(* Type correctness. *)

(* The limiter's clocks stay in their ranges, and no more connections are     *)
(* admitted at once than there are.                                           *)
LEMMA TypeStep == TypeOK /\ [Next]_vars => TypeOK'
<1> SUFFICES ASSUME TypeOK, [Next]_vars PROVE TypeOK'
  OBVIOUS
<1> USE AdmissionAssumption DEF TypeOK, Pc, limiter
<1>1. CASE Tick
  BY <1>1 DEF Tick
<1>2. ASSUME NEW c \in Clients, Accept(c) PROVE TypeOK'
  <2>1. Cardinality(Admitted') \in 0..Cardinality(Clients)
    BY ClientSets, FS_CardinalityType DEF Admitted
  <2>. QED
    BY <1>2, <2>1 DEF Accept, NotePeak, Goes
<1>3. ASSUME NEW c \in Clients, RequestFails(c) PROVE TypeOK'
  BY <1>3 DEF RequestFails, Goes
<1>4. ASSUME NEW c \in Clients, CheckBan(c) PROVE TypeOK'
  BY <1>4 DEF CheckBan, Goes
<1>5. ASSUME NEW c \in Clients, CheckLimit(c) PROVE TypeOK'
  BY <1>5 DEF CheckLimit, Goes, RecordFailure
<1>6. ASSUME NEW c \in Clients, AuthFails(c) PROVE TypeOK'
  BY <1>6 DEF AuthFails, Goes, RecordFailure
<1>7. ASSUME NEW c \in Clients, AuthSucceeds(c) PROVE TypeOK'
  BY <1>7 DEF AuthSucceeds, Goes, RecordSuccess
<1>8. ASSUME NEW c \in Clients, Assign(c) PROVE TypeOK'
  BY <1>8 DEF Assign, Goes
<1>9. ASSUME NEW c \in Clients, Register(c) PROVE TypeOK'
  BY <1>9 DEF Register, Goes
<1>10. ASSUME NEW c \in Clients, Respond(c) \/ Leave(c) PROVE TypeOK'
  BY <1>10 DEF Respond, Leave, Goes
<1>11. ASSUME NEW c \in Clients, ReleaseVm(c) \/ Revoke(c) \/ NewConnection(c) PROVE TypeOK'
  BY <1>11 DEF ReleaseVm, Revoke, NewConnection, Goes
<1>12. CASE UNCHANGED vars
  BY <1>12 DEF vars
<1>. QED
  BY <1>1, <1>2, <1>3, <1>4, <1>5, <1>6, <1>7, <1>8, <1>9, <1>10, <1>11, <1>12
  DEF Next, Handle

(* The limiter, the registry and the tasks are well typed in every behaviour. *)
THEOREM TypeCorrect == Spec => []TypeOK
<1>1. Init => TypeOK
  BY AdmissionAssumption, ClientSets, FS_CardinalityType DEF Init, TypeOK, Pc
<1>. QED
  BY <1>1, TypeStep, PTL DEF Spec

-----------------------------------------------------------------------------
(* The limiter. *)

(* The failures of an address that will still be in the window when its ban *)
(* ends.                                                                    *)
Lasting(ip) == {c \in Clients : IpOf[c] = ip /\ failAge[c] + banLeft[ip] < Window}

(* They are never enough for a ban: this is inductive, where FullMeansBanned is *)
(* not, since failures may be recorded all along a ban.                         *)
BanOutlasts == \A ip \in Ips : Cardinality(Lasting(ip)) < MaxFailures

(* Time keeps the sum of an age and of what a ban has left while the ban lasts, *)
(* and makes failures older after it. A failure either leaves fewer than        *)
(* max_failures in the window or bans for longer than they stay in it.          *)
LEMMA LimiterStep == TypeOK /\ BanOutlasts /\ [Next]_vars => BanOutlasts'
<1> SUFFICES ASSUME TypeOK, BanOutlasts, [Next]_vars PROVE BanOutlasts'
  OBVIOUS
<1> USE AdmissionAssumption
<1>1. ASSUME NEW ip \in Ips, Lasting(ip)' \subseteq Lasting(ip)
      PROVE  Cardinality(Lasting(ip))' < MaxFailures
  <2>1. Lasting(ip) \in SUBSET Clients /\ Lasting(ip)' \in SUBSET Clients
    BY DEF Lasting
  <2>. QED
    BY <1>1, <2>1, ClientSets DEF BanOutlasts
<1>2. CASE UNCHANGED limiter
  <2>1. ASSUME NEW ip \in Ips PROVE Lasting(ip)' \subseteq Lasting(ip)
    BY <1>2 DEF limiter, Lasting
  <2>. QED
    BY <1>1, <2>1 DEF BanOutlasts
<1>3. CASE Tick
  <2>1. ASSUME NEW ip \in Ips PROVE Lasting(ip)' \subseteq Lasting(ip)
    BY <1>3 DEF Tick, Lasting, TypeOK
  <2>. QED
    BY <1>1, <2>1 DEF BanOutlasts
<1>4. ASSUME NEW c \in Clients, RecordFailure(c) PROVE BanOutlasts'
  <2> DEFINE R == Recent(IpOf[c]) \cup {c}
  <2>1. ASSUME NEW ip \in Ips, ip # IpOf[c] PROVE Lasting(ip)' \subseteq Lasting(ip)
    BY <1>4, <2>1 DEF RecordFailure, Lasting, TypeOK
  <2>2. CASE Cardinality(R) >= MaxFailures
    <3>1. Lasting(IpOf[c])' = {}
      BY <1>4, <2>2 DEF RecordFailure, Lasting, TypeOK
    <3>2. Cardinality(Lasting(IpOf[c]))' < MaxFailures
      BY <3>1, FS_EmptySet
    <3>. QED
      BY <1>1, <2>1, <3>2 DEF BanOutlasts
  <2>3. CASE ~(Cardinality(R) >= MaxFailures)
    <3>1. Lasting(IpOf[c])' \subseteq R
      BY <1>4, <2>3 DEF RecordFailure, Lasting, Recent, TypeOK
    <3>2. R \in SUBSET Clients
      BY DEF Recent
    <3>3. Cardinality(Lasting(IpOf[c]))' < MaxFailures
      BY <2>3, <3>1, <3>2, ClientSets
    <3>. QED
      BY <1>1, <2>1, <3>3 DEF BanOutlasts
  <2>. QED
    BY <2>2, <2>3
<1>5. ASSUME NEW c \in Clients, RecordSuccess(c) PROVE BanOutlasts'
  <2>1. ASSUME NEW ip \in Ips PROVE Lasting(ip)' \subseteq Lasting(ip)
    BY <1>5 DEF RecordSuccess, Lasting, TypeOK
  <2>. QED
    BY <1>1, <2>1 DEF BanOutlasts
<1>. QED
  BY <1>2, <1>3, <1>4, <1>5
  DEF Next, Handle, vars, Accept, RequestFails, CheckBan, CheckLimit, AuthFails,
      AuthSucceeds, Assign, Register, Respond, Leave, ReleaseVm, Revoke, NewConnection

(* However the attempts of an address overlap, one that finds no ban in force *)
(* finds fewer than max_failures failures in the window.                      *)
THEOREM LimiterSound == Spec => []FullMeansBanned
<1>1. Init => BanOutlasts
  <2> SUFFICES ASSUME Init, NEW ip \in Ips PROVE Cardinality(Lasting(ip)) < MaxFailures
    BY DEF BanOutlasts
  <2>1. Lasting(ip) = {}
    BY AdmissionAssumption DEF Init, Lasting
  <2>. QED
    BY <2>1, FS_EmptySet, AdmissionAssumption
<1>2. TypeOK /\ BanOutlasts => FullMeansBanned
  <2> SUFFICES ASSUME TypeOK, BanOutlasts, NEW ip \in Ips, ~Banned(ip)
               PROVE  Cardinality(Recent(ip)) < MaxFailures
    BY AdmissionAssumption, ClientSets DEF FullMeansBanned, Recent
  <2>1. Recent(ip) = Lasting(ip)
    BY AdmissionAssumption DEF Recent, Lasting, Banned, TypeOK
  <2>. QED
    BY <2>1 DEF BanOutlasts
<1>. QED
  BY <1>1, <1>2, TypeCorrect, LimiterStep, PTL DEF Spec

-----------------------------------------------------------------------------
(* The limit on sessions. *)

(* Accept adds an admission only below the limit and notes the peak; Register *)
(* turns an admission into a session; nothing else adds to either.            *)
LEMMA AdmissionStep == TypeOK /\ AdmissionBounded /\ [Next]_vars => AdmissionBounded'
<1> SUFFICES ASSUME TypeOK, AdmissionBounded, [Next]_vars PROVE AdmissionBounded'
  OBVIOUS
<1> USE AdmissionAssumption
<1>0. /\ Active \in SUBSET Clients /\ Active' \in SUBSET Clients
      /\ Admitted \in SUBSET Clients /\ Admitted' \in SUBSET Clients
      /\ Cardinality(Clients) \in Nat /\ Cardinality(Admitted) \in Nat
      /\ Cardinality(Active) \in Nat /\ Cardinality(Admitted') \in Nat
      /\ Cardinality(Active') \in Nat /\ peak \in Nat
  <2>1. Active \in SUBSET Clients /\ Active' \in SUBSET Clients
    BY DEF Active
  <2>2. Admitted \in SUBSET Clients /\ Admitted' \in SUBSET Clients
    BY DEF Admitted
  <2>. QED
    BY <2>1, <2>2, ClientSets DEF TypeOK
<1>1. CASE Active' \subseteq Active /\ Admitted' \subseteq Admitted /\ peak' = peak
  <2>1. Cardinality(Active') <= Cardinality(Active)
    BY <1>0, <1>1, ClientSets
  <2>2. Cardinality(Admitted') <= Cardinality(Admitted)
    BY <1>0, <1>1, ClientSets
  <2>. QED
    BY <1>0, <1>1, <2>1, <2>2 DEF AdmissionBounded
<1>2. ASSUME NEW c \in Clients, Accept(c) PROVE AdmissionBounded'
  <2>1. Active' = Active
    BY <1>2 DEF Accept, Active
  <2>2. peak' >= Cardinality(Admitted') /\ peak' >= peak /\ peak' \in Nat
    BY <1>0, <1>2 DEF Accept, NotePeak
  <2>3. CASE Cardinality(Active) < MaxSessions /\ Goes(c, "idle", "asking")
    <3>1. c \in Admitted'
      BY <2>3 DEF Goes, Admitted, TypeOK
    <3>2. Cardinality(Admitted') # 0
      <4>1. IsFiniteSet(Admitted')
        BY <1>0, ClientSets
      <4>. QED
        BY <3>1, <4>1, FS_EmptySet
    <3>. QED
      BY <1>0, <2>1, <2>2, <2>3, <3>2 DEF AdmissionBounded
  <2>4. CASE Goes(c, "idle", "refused")
    <3>1. Admitted' = Admitted
      BY <2>4 DEF Goes, Admitted, TypeOK
    <3>. QED
      BY <1>0, <2>1, <2>2, <3>1 DEF AdmissionBounded
  <2>. QED
    BY <1>2, <2>3, <2>4 DEF Accept
<1>3. ASSUME NEW c \in Clients, Register(c) PROVE AdmissionBounded'
  <2>1. CASE Goes(c, "token", "respond") /\ sess' = [sess EXCEPT ![c] = "active"]
    <3>1. c \in Admitted /\ Admitted' = Admitted \ {c}
      BY <2>1 DEF Goes, Admitted, TypeOK
    <3>2. Active' = Active \cup {c}
      BY <2>1 DEF Active, TypeOK
    <3>3. Cardinality(Admitted') = Cardinality(Admitted) - 1
      BY <1>0, <3>1, OneMore
    <3>4. Cardinality(Active') <= Cardinality(Active) + 1
      <4>1. Cardinality(Active \cup {c}) <= Cardinality(Active) + 1
        BY <1>0, OneMore
      <4>. QED
        BY <3>2, <4>1
    <3>5. peak' = peak
      BY <1>3 DEF Register
    <3>. QED
      BY <1>0, <3>3, <3>4, <3>5 DEF AdmissionBounded
  <2>2. CASE Goes(c, "token", "refused") /\ UNCHANGED sess
    BY <1>1, <1>3, <2>2 DEF Register, Goes, Admitted, Active, TypeOK
  <2>. QED
    BY <1>3, <2>1, <2>2 DEF Register
<1>4. ASSUME NEW c \in Clients,
             RequestFails(c) \/ CheckBan(c) \/ CheckLimit(c) \/ AuthFails(c) \/ AuthSucceeds(c)
               \/ Assign(c) \/ Respond(c) \/ Leave(c) \/ NewConnection(c)
      PROVE  AdmissionBounded'
  <2>1. Admitted' \subseteq Admitted
    BY <1>4 DEF Admitted, TypeOK, Goes, RequestFails, CheckBan, CheckLimit, AuthFails,
                AuthSucceeds, Assign, Respond, Leave, NewConnection
  <2>2. Active' = Active /\ peak' = peak
    BY <1>4 DEF Active, RequestFails, CheckBan, CheckLimit, AuthFails, AuthSucceeds,
                Assign, Respond, Leave, NewConnection
  <2>. QED
    BY <1>1, <2>1, <2>2
<1>5. ASSUME NEW c \in Clients, ReleaseVm(c) \/ Revoke(c) PROVE AdmissionBounded'
  BY <1>1, <1>5 DEF ReleaseVm, Revoke, Active, Admitted, TypeOK
<1>6. CASE Tick \/ UNCHANGED vars
  BY <1>1, <1>6 DEF Tick, vars, Active, Admitted
<1>. QED
  BY <1>2, <1>3, <1>4, <1>5, <1>6 DEF Next, Handle

(* There are never more active sessions than max_sessions and the admissions *)
(* that were under way together, less one.                                   *)
THEOREM AdmissionLimit == Spec => []AdmissionBounded
<1>1. Init => AdmissionBounded
  <2> SUFFICES ASSUME Init PROVE AdmissionBounded
    OBVIOUS
  <2>1. Active = {} /\ Admitted = {}
    BY DEF Init, Active, Admitted
  <2>. QED
    BY <2>1, FS_EmptySet, AdmissionAssumption DEF Init, AdmissionBounded
<1>. QED
  BY <1>1, TypeCorrect, AdmissionStep, PTL DEF Spec

=============================================================================
