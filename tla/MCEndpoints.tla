---------------------------- MODULE MCEndpoints ----------------------------
(***************************************************************************)
(* Model-checking instance of what a process keeps of its upstreams: their *)
(* endpoints and workers across generations (Upstreams), and the HTTP/2    *)
(* connections to one of them (Multiplex).  A behaviour is one of one of   *)
(* them.                                                                   *)
(***************************************************************************)
EXTENDS MCUpstreams, Multiplex

VARIABLE component  \* whose behaviour this is

endpointsVars == <<component, vars, muxVars>>

\* Limits that shrink below what is in use, and a name that moves.
StreamLimits(max, streams, per) == [max |-> max, idle |-> 1, waiters |-> 3, streams |-> streams, per |-> per]
MCStreamFirst == StreamLimits(2, 3, 1)
MCStreamConfigs == {MCStreamFirst, StreamLimits(1, 2, 2)}
MCAnswers == {{"a"}, {"b"}}

EndpointsInit ==
  /\ component \in {"upstreams", "mux"} /\ Init /\ MuxInit
  /\ component = "mux" => dns = 1 /\ files = 1

EndpointsNext ==
  /\ UNCHANGED component
  /\ \/ component = "upstreams" /\ Next /\ UNCHANGED muxVars
     \/ component = "mux" /\ MuxNext /\ UNCHANGED vars

EndpointsSpec == EndpointsInit /\ [][EndpointsNext]_endpointsVars /\ Fairness
=============================================================================
