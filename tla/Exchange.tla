------------------------------ MODULE Exchange ------------------------------
(***************************************************************************)
(* One client connection of a listener and the requests on it              *)
(* (serve_connection, connection_drain::http, connection_activity.rs,      *)
(* connection_work.rs, proxy_protocol.rs, body.rs, measure.rs, and the     *)
(* Handler of dispatch.rs).                                                *)
(*                                                                         *)
(* The connection's task polls, in this order, the order to close, the     *)
(* HTTP connection and the idle timer.  Whatever is readable when the      *)
(* task is polled is seen before the timer is.  An HTTP/2 connection has   *)
(* several slots for requests, an HTTP/1 connection one.  What matched a   *)
(* request is chosen freely here; Matching says how it is chosen.          *)
(***************************************************************************)
EXTENDS Integers, FiniteSets

CONSTANTS Slots,        \* requests that may overlap
          Ports,        \* [proxied, tls, slots] of the listeners to choose from
          Hosts,        \* addresses of sockets, clients and forwarders
          TrustedHosts, \* the ones among trusted_proxies
          NoHost,       \* no such header
          MaxBody,      \* Dispatcher.max_body
          FrameSizes,   \* sizes of a body's frames
          MaxRequests   \* bound on the requests of a connection

ASSUME ExchangeAssumption ==
  /\ TrustedHosts \subseteq Hosts /\ NoHost \notin Hosts
  /\ MaxBody \in Nat /\ FrameSizes \subseteq Nat /\ MaxRequests \in Nat
  /\ \A p \in Ports : p.proxied \in BOOLEAN /\ p.tls \in BOOLEAN /\ p.slots \subseteq Slots /\ p.slots # {}

VARIABLES link,   \* the connection: its phase, peer, idle timer, order to stop, handed-over work
          asked,  \* of each slot: its request
          meter   \* the listener's and the route's metrics

linkVars == <<link, asked, meter>>

NoRequest == [pc |-> "none", measured |-> FALSE, client |-> NoHost, seen |-> 0, reads |-> FALSE]

ExchangeInit ==
  /\ \E p \in Ports, a \in Hosts :
       link = [port |-> p, source |-> a, peer |-> a, phase |-> "accepted", arrived |-> 0, taken |-> 0,
               active |-> 0, timer |-> "fresh", stop |-> FALSE, work |-> "none", end |-> "none"]
  /\ asked = [s \in Slots |-> NoRequest]
  /\ meter = [open |-> 0, handshakes |-> 0, unmatched |-> 0, challenges |-> 0, completed |-> 0, inflight |-> 0]

Busy == {s \in Slots : asked[s].pc # "none"}
Measured == {s \in Slots : asked[s].measured}
Less(a, b) == IF a < b THEN 0 ELSE a - b

\* Whatever the task holds goes with it: a response body finishes its
\* measurement when it is dropped, a handler that has not answered does not.
Closed(why) ==
  /\ link' = [link EXCEPT !.phase = "done", !.active = 0, !.end = why,
                          !.work = IF @ = "set" THEN "dropped" ELSE @]
  /\ asked' = [s \in Slots |-> NoRequest]
  /\ LET ended == {s \in Measured : asked[s].pc = "body"}
     IN meter' = [meter EXCEPT !.open = 0, !.completed = @ + Cardinality(ended),
                               !.inflight = @ - Cardinality(ended)]

-----------------------------------------------------------------------------
(* Before HTTP.                                                            *)

AfterHeader == IF link.port.tls THEN "tls" ELSE "http"

BelievesAnyone(a) == TRUE  \* mutant: the PROXY header is read from any peer
MayClaim(a) == a \in TrustedHosts

\* A header is read only from a peer the configuration trusts.
Begin ==
  /\ link.phase = "accepted"
  /\ link' = [link EXCEPT !.phase = IF ~link.port.proxied THEN AfterHeader
                                    ELSE IF MayClaim(link.source) THEN "header" ELSE "refused"]
  /\ meter' = [meter EXCEPT !.open = 1]
  /\ UNCHANGED asked

\* Claim::Client, or Claim::Local, which leaves the peer as it is.
ReadHeader(claim) ==
  /\ link.phase = "header"
  /\ link' = [link EXCEPT !.phase = AfterHeader, !.peer = IF claim = NoHost THEN @ ELSE claim]
  /\ UNCHANGED <<asked, meter>>

Handshake ==
  /\ link.phase = "tls"
  /\ link' = [link EXCEPT !.phase = "http"]
  /\ meter' = [meter EXCEPT !.handshakes = @ + 1]
  /\ UNCHANGED asked

\* An untrusted peer, a header or a handshake that is wrong or late.
NeverServed ==
  /\ link.phase \in {"refused", "header", "tls"}
  /\ Closed("refused")

-----------------------------------------------------------------------------
(* HTTP.                                                                   *)

\* The client sends a request; the task has not been polled yet.
Arrives ==
  /\ link.phase \in {"http", "closing"}
  /\ link.arrived = 0 /\ link.taken < MaxRequests
  /\ link' = [link EXCEPT !.arrived = 1]
  /\ UNCHANGED <<asked, meter>>

FreeSlots == link.port.slots \ Busy

\* Dispatcher::client_ip: the last forwarded address, from a trusted peer only.
ClientIp(forwarded) ==
  IF link.peer \in TrustedHosts /\ forwarded # NoHost THEN forwarded ELSE link.peer

\* The service function: the connection is active from here.
TakesRequest(s, forwarded) ==
  /\ link.phase = "http" /\ ~link.stop /\ link.work = "none"
  /\ link.arrived = 1 /\ s \in FreeSlots
  /\ link' = [link EXCEPT !.arrived = 0, !.taken = @ + 1, !.active = @ + 1]
  /\ asked' = [asked EXCEPT ![s] = [NoRequest EXCEPT !.pc = "dispatch", !.client = ClientIp(forwarded)]]
  /\ UNCHANGED meter

\* Dispatcher::handle up to the chain.  Only a route is measured.
Outcomes == {"challenge", "too large", "invalid path", "unknown host", "fallback", "route"}

CountsOutcome(outcome) ==
  CASE outcome = "challenge" -> [meter EXCEPT !.challenges = @ + 1]
    [] outcome = "route" -> [meter EXCEPT !.inflight = @ + 1]
    [] outcome \in {"too large", "invalid path", "unknown host", "fallback"} ->
         [meter EXCEPT !.unmatched = @ + 1]

Dispatch(s, outcome) ==
  /\ asked[s].pc = "dispatch"
  /\ asked' = [asked EXCEPT ![s].pc = IF outcome \in {"fallback", "route"} THEN "chain" ELSE "body",
                            ![s].measured = (outcome = "route"),
                            ![s].reads = (outcome # "challenge")]
  /\ meter' = CountsOutcome(outcome)
  /\ UNCHANGED link

\* Limited::poll_frame: a frame that does not fit ends the body with an error.
Fits(s, size) == size <= Less(MaxBody, asked[s].seen)
ReadsFrame(s, size) ==
  /\ asked[s].pc = "chain" /\ asked[s].reads
  /\ asked' = [asked EXCEPT ![s].seen = IF Fits(s, size) THEN @ + size ELSE @,
                            ![s].reads = Fits(s, size)]
  /\ UNCHANGED <<link, meter>>

\* observe: what is complete is finished at once.
FinishWhole == [meter EXCEPT !.inflight = @ - 1, !.completed = @ + 1]
Answers(s, streamed) ==
  /\ asked[s].pc = "chain"
  /\ asked' = [asked EXCEPT ![s].pc = "body", ![s].measured = @ /\ streamed, ![s].reads = FALSE]
  /\ meter' = IF asked[s].measured /\ ~streamed THEN FinishWhole ELSE meter
  /\ UNCHANGED link

\* ConnectionWork::set accepts one piece of work; the answer is a bare 101.
HandsOver(s) ==
  /\ asked[s].pc = "chain" /\ link.work = "none" /\ Cardinality(link.port.slots) = 1
  /\ link' = [link EXCEPT !.work = "set"]
  /\ asked' = [asked EXCEPT ![s].pc = "body", ![s].measured = FALSE, ![s].reads = FALSE]
  /\ meter' = IF asked[s].measured THEN FinishWhole ELSE meter

\* The body's end, its error, or its drop by HTTP (a reset stream).
BodyEnds(s) ==
  /\ asked[s].pc = "body"
  /\ asked' = [asked EXCEPT ![s] = NoRequest]
  /\ link' = [link EXCEPT !.active = @ - 1, !.timer = IF link.active = 1 THEN "fresh" ELSE @]
  /\ meter' = IF asked[s].measured THEN FinishWhole ELSE meter

-----------------------------------------------------------------------------
(* The end.                                                                *)

TimerDue ==
  /\ link.phase = "http" /\ link.timer = "fresh" /\ link.active = 0
  /\ link' = [link EXCEPT !.timer = "due"]
  /\ UNCHANGED <<asked, meter>>

\* The server stops, or the generation is retired.
Stops ==
  /\ link.phase # "done" /\ ~link.stop
  /\ link' = [link EXCEPT !.stop = TRUE]
  /\ UNCHANGED <<asked, meter>>

GracefulShutdown ==
  /\ link.phase = "http" /\ link.stop
  /\ link' = [link EXCEPT !.phase = "closing"]
  /\ UNCHANGED <<asked, meter>>

\* The HTTP connection has nothing to do when the task polls it.
HttpPending == link.arrived = 0 \/ FreeSlots = {}

IdleExpiresFirst ==  \* mutant: the timer is polled before HTTP
  /\ link.phase = "http" /\ ~link.stop
  /\ link.active = 0 /\ link.timer = "due"
  /\ Closed("idle")

IdleExpires ==
  /\ link.phase = "http" /\ ~link.stop
  /\ link.work = "none" /\ HttpPending
  /\ link.active = 0 /\ link.timer = "due"
  /\ Closed("idle")

\* The client closes after its last answer, HTTP is told to close, or a
\* connection was upgraded: then the work runs, on this task.
HttpEndsEagerly ==  \* mutant: the work is started with the answer
  /\ link.phase \in {"http", "closing"}
  /\ link.work = "set"
  /\ link' = [link EXCEPT !.phase = "work", !.work = "taken"]
  /\ UNCHANGED <<asked, meter>>

HttpEnds ==
  /\ link.phase \in {"http", "closing"}
  /\ link.active = 0
  /\ IF link.work = "set"
     THEN /\ link' = [link EXCEPT !.phase = "work", !.work = "taken"]
          /\ UNCHANGED <<asked, meter>>
     ELSE Closed("finished")

WorkEnds ==
  /\ link.phase = "work"
  /\ Closed("finished")

\* The socket fails, or the owner's deadline passes and the task is aborted.
Breaks ==
  /\ link.phase \in {"http", "closing"}
  /\ Closed("broken")
AbortedHttpOnly ==  \* mutant: a tunnel outlives its owner
  /\ link.phase \notin {"done", "accepted", "work"} /\ link.stop
  /\ Closed("aborted")

Aborted ==
  /\ link.phase \notin {"done", "accepted"} /\ link.stop
  /\ Closed("aborted")

LinkNext ==
  \/ Begin \/ Handshake \/ NeverServed \/ Arrives
  \/ \E claim \in Hosts \cup {NoHost} : ReadHeader(claim)
  \/ \E s \in Slots :
       \/ \E forwarded \in Hosts \cup {NoHost} : TakesRequest(s, forwarded)
       \/ \E outcome \in Outcomes : Dispatch(s, outcome)
       \/ \E size \in FrameSizes : ReadsFrame(s, size)
       \/ \E streamed \in BOOLEAN : Answers(s, streamed)
       \/ HandsOver(s) \/ BodyEnds(s)
  \/ TimerDue \/ Stops \/ GracefulShutdown \/ IdleExpires
  \/ HttpEnds \/ WorkEnds \/ Breaks \/ Aborted

LinkSpec == ExchangeInit /\ [][LinkNext]_linkVars

-----------------------------------------------------------------------------
\* The idle timer never takes a connection with a request in progress, nor one
\* whose next request could be read, nor a tunnel about to start.
IdleSparesRequests ==
  link.end = "idle" => link.arrived = 0 /\ Busy = {} /\ link.work = "none"

\* The activity count is the number of requests whose answer is not finished,
\* a tunnel begins when none is left, and while a connection is served each of
\* its requests is counted exactly once.
ExchangeAccounts ==
  /\ link.phase # "done" => link.active = Cardinality(Busy)
  /\ link.phase = "work" => Busy = {} /\ link.work = "taken"
  /\ link.phase \in {"http", "closing"} =>
       link.taken = meter.unmatched + meter.challenges + meter.completed
                    + Cardinality({s \in Slots : asked[s].pc = "dispatch"}) + Cardinality(Measured)

\* Nobody speaks for another address unless the socket it speaks through is a
\* trusted one, and no handler is given more of a body than the limit.
OnlyTrustedClaims ==
  /\ \A s \in Busy : asked[s].client # link.source => link.source \in TrustedHosts
  /\ \A s \in Slots : asked[s].seen <= MaxBody

\* A connection that is told to stop ends.
StopEnds == link.stop ~> link.phase = "done"

\* "The in-flight gauge goes up here and down when the body ends, however it
\* ends" (Measure::start, measure.rs).  It does not hold of a request whose
\* connection ends while the chain still runs: the body that would bring the
\* gauge down does not exist yet, and Measure has no Drop of its own.
GaugeComesDown == link.phase = "done" => meter.inflight = 0

\* A connection's requests are counted once, are never cut off by the idle
\* timer, and speak for nobody else.
LinkSound == IdleSparesRequests /\ ExchangeAccounts /\ OnlyTrustedClaims

=============================================================================
