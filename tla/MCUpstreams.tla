---------------------------- MODULE MCUpstreams ----------------------------
(* Model-checking instance of Upstreams.                                   *)
EXTENDS Upstreams

Edit(targets, wire, health, limit, lookup) ==
  [targets |-> targets, wire |-> wire, health |-> health, limit |-> limit, lookup |-> lookup]

\* One upstream as its operator rewrites it: backends by name, looked up in
\* another way, by address over TLS with a check, and then without the check
\* and with another limit.
Edits ==
  {Edit("name", "plain", "unchecked", 1, 1),
   Edit("name", "plain", "unchecked", 1, 2),
   Edit("address", "tls", "check", 1, 1),
   Edit("address", "tls", "unchecked", 2, 1)}

\* The same names, spoken to in two protocols.
Switches == {Edit("name", "plain", "unchecked", 1, 1), Edit("name", "tls", "unchecked", 1, 1)}

=============================================================================
