-------------------------- MODULE MCBrokerAdmission --------------------------
(* Instances of BrokerAdmission for TLC. *)
EXTENDS BrokerAdmission

CONSTANTS c1, c2, c3, ip1

(* Every connection comes from one address. *)
OneAddress == [c \in Clients |-> ip1]
=============================================================================
