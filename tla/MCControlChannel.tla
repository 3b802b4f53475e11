-------------------------- MODULE MCControlChannel --------------------------
(* ControlChannel for TLC: contents below and above each limit, one that a    *)
(* pattern matches and one that is not text; a default policy, a strict one   *)
(* and one whose pattern does not compile.                                    *)
EXTENDS ControlChannel

MCContents ==
    {[size |-> 1, mime |-> "text/plain", utf8 |-> TRUE, matches |-> {}],
     [size |-> 1, mime |-> "text/plain", utf8 |-> TRUE, matches |-> {"PRIVATE KEY"}],
     [size |-> 1, mime |-> "text/plain", utf8 |-> FALSE, matches |-> {}],
     [size |-> 30, mime |-> "text/plain", utf8 |-> TRUE, matches |-> {}],
     [size |-> 400, mime |-> "text/plain", utf8 |-> TRUE, matches |-> {}],
     [size |-> 2000, mime |-> "text/plain", utf8 |-> TRUE, matches |-> {}]}

MCPolicies ==
    {[c2s |-> TRUE, s2c |-> TRUE, max |-> 0, mimes |-> {}, patterns |-> {}],
     [c2s |-> TRUE, s2c |-> FALSE, max |-> 64, mimes |-> {"text/plain"},
      patterns |-> {"PRIVATE KEY"}],
     [c2s |-> FALSE, s2c |-> TRUE, max |-> 64, mimes |-> {}, patterns |-> {InvalidPattern}]}
=============================================================================
