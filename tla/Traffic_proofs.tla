--------------------------- MODULE Traffic_proofs ---------------------------
(***************************************************************************)
(* Proofs about a request's way through the process: the connection it     *)
(* arrives on (Exchange), the choice of a backend and its retries          *)
(* (Proxying) and the pool of connections to that backend (Pool), for      *)
(* every number of requests and callers and every configuration.           *)
(***************************************************************************)
EXTENDS Exchange, Proxying, Pool

-----------------------------------------------------------------------------
(* Exchange.  The inductive invariant says besides the property: what a    *)
(* link counts as active are the requests under way on it, each of them    *)
(* dispatched, measured or done; a connection that the idle timer ended    *)
(* was waiting for its first request; and any address that is not the      *)
(* socket's own came by a trusted socket.                                  *)

Links ==
  [port : Ports, source : Hosts, peer : Hosts,
   phase : {"accepted", "refused", "header", "tls", "http", "closing", "work", "done"},
   arrived : {0, 1}, taken : Nat, active : Nat, timer : {"fresh", "due"}, stop : BOOLEAN,
   work : {"none", "set", "taken", "dropped"},
   end : {"none", "refused", "idle", "finished", "broken", "aborted"}]
Requests ==
  [pc : {"none", "dispatch", "chain", "body"}, measured : BOOLEAN, client : Hosts \cup {NoHost},
   seen : Nat, reads : BOOLEAN]
Meters ==
  [open : Nat, handshakes : Nat, unmatched : Nat, challenges : Nat, completed : Nat, inflight : Int]

LinkTypes == link \in Links /\ asked \in [Slots -> Requests] /\ meter \in Meters

Dispatching == {s \in Slots : asked[s].pc = "dispatch"}

\* The requests of a connection, each of which is dispatched, measured or done.
Requested ==
  /\ IsFiniteSet(Busy) /\ link.active = Cardinality(Busy)
  /\ \A s \in Slots : asked[s].measured => asked[s].pc \in {"chain", "body"}
  /\ link.phase \in {"work", "done"} => Busy = {}
  /\ link.phase = "work" => link.work = "taken"
  /\ link.phase # "done" =>
       link.taken = meter.unmatched + meter.challenges + meter.completed
                    + Cardinality(Dispatching) + Cardinality(Measured)

\* What a connection that the idle timer ended was like.
Ended ==
  /\ link.end # "none" => link.phase = "done"
  /\ link.end = "idle" => link.arrived = 0 /\ link.work = "none"

\* Whoever has another address than the socket's has it by a trusted socket.
Vouched ==
  /\ link.phase = "header" \/ link.peer # link.source => link.source \in TrustedHosts
  /\ \A s \in Busy : asked[s].client # link.source => link.source \in TrustedHosts
  /\ \A s \in Slots : asked[s].seen <= MaxBody

LinkInv == LinkTypes /\ Requested /\ Ended /\ Vouched

-----------------------------------------------------------------------------
LEMMA NoRequestTyped == NoRequest \in Requests /\ NoRequest.pc = "none" /\ ~NoRequest.measured /\ NoRequest.seen = 0
  BY DEF NoRequest, Requests

LEMMA FrameLimits == MaxBody \in Nat /\ 0 <= MaxBody /\ FrameSizes \subseteq Nat
  BY ExchangeAssumption

LEMMA PortSlots == \A p \in Ports : p.slots # {}
  BY ExchangeAssumption

LEMMA MeterFields ==
  ASSUME LinkTypes
  PROVE  /\ meter.open \in Nat /\ meter.handshakes \in Nat /\ meter.unmatched \in Nat
         /\ meter.challenges \in Nat /\ meter.completed \in Nat /\ meter.inflight \in Int
  BY DEF LinkTypes, Meters

LEMMA LinkFields ==
  ASSUME LinkTypes
  PROVE  link.taken \in Nat /\ link.active \in Nat
  BY DEF LinkTypes, Links

\* One request more or less.
LEMMA OneMore ==
  ASSUME NEW S, IsFiniteSet(S), NEW x
  PROVE  /\ Cardinality(S) \in Nat
         /\ IsFiniteSet(S \cup {x}) /\ IsFiniteSet(S \ {x})
         /\ x \notin S => Cardinality(S \cup {x}) = Cardinality(S) + 1
         /\ x \in S => Cardinality(S \ {x}) = Cardinality(S) - 1
         /\ x \notin S => Cardinality(S \ {x}) = Cardinality(S)
         /\ Cardinality(S \ {x}) \in Nat
  BY FS_AddElement, FS_RemoveElement, FS_CardinalityType

\* The requests that are dispatched or measured are among the busy ones.
LEMMA Parts ==
  ASSUME LinkTypes, Requested
  PROVE  /\ Dispatching \in SUBSET Busy /\ Measured \in SUBSET Busy
         /\ IsFiniteSet(Dispatching) /\ IsFiniteSet(Measured)
         /\ Cardinality(Busy) \in Nat /\ Cardinality(Dispatching) \in Nat /\ Cardinality(Measured) \in Nat
<1>1. Dispatching \in SUBSET Busy /\ Measured \in SUBSET Busy
  BY DEF Requested, Dispatching, Measured, Busy
<1>2. IsFiniteSet(Busy)
  BY DEF Requested
<1>3. IsFiniteSet(Dispatching) /\ IsFiniteSet(Measured)
  BY <1>1, <1>2, FS_Subset
<1> QED
  BY <1>1, <1>2, <1>3, FS_CardinalityType

\* Nothing of the requests changes.
LEMMA SameRequests ==
  ASSUME UNCHANGED asked
  PROVE  Busy' = Busy /\ Dispatching' = Dispatching /\ Measured' = Measured
  BY DEF Busy, Dispatching, Measured

\* The end of a connection.
LEMMA ClosedKeeps ==
  ASSUME LinkInv, NEW why \in {"refused", "idle", "finished", "broken", "aborted"}, Closed(why),
         why = "idle" => link.arrived = 0 /\ link.work = "none"
  PROVE  LinkInv'
<1> USE DEF LinkInv
<1>1. /\ link' = [link EXCEPT !.phase = "done", !.active = 0, !.end = why,
                              !.work = IF @ = "set" THEN "dropped" ELSE @]
      /\ asked' = [s \in Slots |-> NoRequest]
  BY DEF Closed
<1>2. Busy' = {}
  BY <1>1, NoRequestTyped DEF Busy
<1>3. LinkTypes'
  <2>1. link' \in Links
    BY <1>1 DEF LinkTypes, Links
  <2>2. asked' \in [Slots -> Requests]
    BY <1>1, NoRequestTyped
  <2>3. {s \in Measured : asked[s].pc = "body"} \in SUBSET Measured
    OBVIOUS
  <2>4. Cardinality({s \in Measured : asked[s].pc = "body"}) \in Nat
    BY <2>3, Parts, FS_Subset, FS_CardinalityType
  <2>5. PICK k \in Nat : meter' = [meter EXCEPT !.open = 0, !.completed = @ + k, !.inflight = @ - k]
    BY <2>4 DEF Closed
  <2>6. meter' \in Meters
    <3>1. meter \in Meters /\ meter.completed + k \in Nat /\ meter.inflight - k \in Int
      BY MeterFields, <2>5 DEF LinkTypes
    <3> QED
      BY <2>5, <3>1 DEF Meters
  <2> QED
    BY <2>1, <2>2, <2>6 DEF LinkTypes
<1>4. link'.phase = "done" /\ link'.active = 0 /\ link'.end = why /\ link'.arrived = link.arrived
      /\ link'.peer = link.peer /\ link'.source = link.source
      /\ (link.work = "none" => link'.work = "none")
  BY <1>1 DEF LinkTypes, Links
<1>5. Requested'
  BY <1>1, <1>2, <1>4, FS_EmptySet, NoRequestTyped DEF Requested
<1>6. Ended'
  BY <1>4 DEF Ended
<1>7. Vouched'
  BY <1>1, <1>2, <1>4, NoRequestTyped, FrameLimits DEF Vouched
<1> QED
  BY <1>3, <1>5, <1>6, <1>7

\* A step that leaves the requests alone.
LEMMA LinkOnly ==
  ASSUME LinkInv, UNCHANGED asked, link' \in Links, meter' \in Meters,
         link'.active = link.active, link'.taken = link.taken,
         link'.source = link.source, link'.end = link.end,
         meter'.unmatched = meter.unmatched, meter'.challenges = meter.challenges,
         meter'.completed = meter.completed,
         link.phase # "done", link'.phase # "done",
         link'.phase = "work" => Busy = {} /\ link'.work = "taken",
         link'.phase = "header" \/ link'.peer # link.source => link.source \in TrustedHosts
  PROVE  LinkInv'
<1>1. Busy' = Busy /\ Dispatching' = Dispatching /\ Measured' = Measured
  BY SameRequests
<1>2. LinkTypes'
  BY DEF LinkInv, LinkTypes
<1>3. Requested'
  BY <1>1 DEF LinkInv, Requested
<1>4. Ended'
  BY DEF LinkInv, Ended
<1>5. Vouched'
  BY <1>1 DEF LinkInv, Vouched
<1> QED
  BY <1>2, <1>3, <1>4, <1>5 DEF LinkInv

LEMMA BeforeHttp ==
  ASSUME LinkInv, Begin \/ (\E claim \in Hosts \cup {NoHost} : ReadHeader(claim)) \/ Handshake \/ Arrives
                  \/ TimerDue \/ Stops \/ GracefulShutdown
  PROVE  LinkInv'
<1> USE DEF LinkInv
<1>0. link \in Links /\ meter \in Meters /\ AfterHeader \in {"tls", "http"}
      /\ (link.phase = "header" \/ link.peer # link.source => link.source \in TrustedHosts)
      /\ (link.phase = "work" => Busy = {} /\ link.work = "taken")
  BY DEF LinkTypes, AfterHeader, Vouched, Requested
<1>1. CASE Begin
  <2>1. /\ link' \in Links /\ meter' \in Meters
        /\ link'.active = link.active /\ link'.taken = link.taken
        /\ link'.source = link.source /\ link'.peer = link.peer /\ link'.end = link.end
        /\ meter'.unmatched = meter.unmatched /\ meter'.challenges = meter.challenges
        /\ meter'.completed = meter.completed
        /\ link.phase # "done" /\ link'.phase \in {"tls", "http", "header", "refused"}
        /\ (link'.phase = "header" => link.source \in TrustedHosts)
    BY <1>0, <1>1 DEF Begin, Links, Meters, MayClaim
  <2> QED
    BY <1>0, <1>1, <2>1, LinkOnly DEF Begin
<1>2. ASSUME NEW claim \in Hosts \cup {NoHost}, ReadHeader(claim)
      PROVE  LinkInv'
  <2>1. /\ link' \in Links /\ meter' \in Meters
        /\ link'.active = link.active /\ link'.taken = link.taken
        /\ link'.source = link.source /\ link'.end = link.end
        /\ meter' = meter
        /\ link.phase = "header" /\ link'.phase \in {"tls", "http"}
    BY <1>0, <1>2 DEF ReadHeader, Links
  <2> QED
    BY <1>0, <1>2, <2>1, LinkOnly DEF ReadHeader
<1>3. CASE Handshake
  <2>1. /\ link' \in Links /\ meter' \in Meters
        /\ link'.active = link.active /\ link'.taken = link.taken
        /\ link'.source = link.source /\ link'.peer = link.peer /\ link'.end = link.end
        /\ meter'.unmatched = meter.unmatched /\ meter'.challenges = meter.challenges
        /\ meter'.completed = meter.completed
        /\ link.phase # "done" /\ link'.phase = "http"
    BY <1>0, <1>3 DEF Handshake, Links, Meters
  <2> QED
    BY <1>0, <1>3, <2>1, LinkOnly DEF Handshake
<1>4. CASE Arrives \/ TimerDue \/ Stops \/ GracefulShutdown
  <2>1. /\ link' \in Links /\ meter' = meter /\ asked' = asked
        /\ link'.active = link.active /\ link'.taken = link.taken
        /\ link'.source = link.source /\ link'.peer = link.peer /\ link'.end = link.end
        /\ link.phase # "done" /\ link'.work = link.work
        /\ link'.phase = link.phase \/ link'.phase = "closing"
    <3>1. CASE Arrives
      BY <1>0, <3>1 DEF Arrives, Links
    <3>2. CASE TimerDue
      BY <1>0, <3>2 DEF TimerDue, Links
    <3>3. CASE Stops
      BY <1>0, <3>3 DEF Stops, Links
    <3>4. CASE GracefulShutdown
      BY <1>0, <3>4 DEF GracefulShutdown, Links
    <3> QED
      BY <1>4, <3>1, <3>2, <3>3, <3>4
  <2> QED
    BY <1>0, <2>1, LinkOnly
<1> QED
  BY <1>1, <1>2, <1>3, <1>4

LEMMA TakesRequestKeeps ==
  ASSUME LinkInv, NEW s \in Slots, NEW forwarded \in Hosts \cup {NoHost}, TakesRequest(s, forwarded)
  PROVE  LinkInv'
<1> USE DEF LinkInv
<1> DEFINE new == [NoRequest EXCEPT !.pc = "dispatch", !.client = ClientIp(forwarded)]
<1>1. s \notin Busy /\ link \in Links /\ meter' = meter
  BY DEF TakesRequest, FreeSlots, LinkTypes
<1>2. /\ new \in Requests /\ new.pc = "dispatch" /\ ~new.measured /\ new.seen = 0
      /\ new.client # link.source => link.source \in TrustedHosts
  <2>1. ClientIp(forwarded) \in Hosts /\ (ClientIp(forwarded) # link.source => link.source \in TrustedHosts)
    BY <1>1 DEF ClientIp, Vouched, Links
  <2> QED
    BY <2>1 DEF NoRequest, Requests
<1>3. asked' = [asked EXCEPT ![s] = new]
  BY DEF TakesRequest
<1> HIDE DEF new
<1>4. /\ asked' \in [Slots -> Requests] /\ asked'[s] = new
      /\ \A t \in Slots \ {s} : asked'[t] = asked[t]
  BY <1>2, <1>3 DEF LinkTypes
<1>5. Busy' = Busy \cup {s} /\ Dispatching' = Dispatching \cup {s} /\ Measured' = Measured
      /\ s \notin Dispatching
  BY <1>1, <1>2, <1>4 DEF Busy, Dispatching, Measured, Requested
<1>6. /\ link' \in Links /\ link'.phase = "http" /\ link.phase = "http"
      /\ link'.active = link.active + 1 /\ link'.taken = link.taken + 1
      /\ link'.peer = link.peer /\ link'.source = link.source /\ link'.end = link.end
  <2>1. /\ link' = [link EXCEPT !.arrived = 0, !.taken = @ + 1, !.active = @ + 1]
        /\ link.phase = "http" /\ link.taken + 1 \in Nat /\ link.active + 1 \in Nat
    BY LinkFields DEF TakesRequest
  <2>2. link' \in Links
    <3>1. PICK n \in Nat : n = link.taken + 1
      BY <2>1
    <3>2. PICK k \in Nat : k = link.active + 1
      BY <2>1
    <3>3. link' = [link EXCEPT !.arrived = 0, !.taken = n, !.active = k]
      BY <2>1, <3>1, <3>2
    <3> QED
      BY <1>1, <3>3 DEF Links
  <2> QED
    BY <1>1, <2>1, <2>2 DEF Links
<1>7. LinkTypes'
  BY <1>1, <1>4, <1>6 DEF LinkTypes
<1>8. Requested'
  <2>1. /\ IsFiniteSet(Busy') /\ Cardinality(Busy') = Cardinality(Busy) + 1
        /\ Cardinality(Dispatching') = Cardinality(Dispatching) + 1
    <3>1. IsFiniteSet(Busy) /\ IsFiniteSet(Dispatching)
      BY Parts DEF Requested
    <3> QED
      BY <1>1, <1>5, <3>1, OneMore
  <2>2. link'.active = Cardinality(Busy')
    BY <2>1, <1>6 DEF Requested
  <2>3. \A t \in Slots : asked'[t].measured => asked'[t].pc \in {"chain", "body"}
    BY <1>2, <1>4 DEF Requested
  <2>4. link'.taken = meter'.unmatched + meter'.challenges + meter'.completed
                    + Cardinality(Dispatching') + Cardinality(Measured')
    BY <1>1, <1>5, <1>6, <2>1, Parts DEF Requested, LinkTypes, Meters
  <2> QED
    BY <1>6, <2>1, <2>2, <2>3, <2>4 DEF Requested
<1>9. Ended'
  BY <1>6 DEF Ended
<1>10. Vouched'
  <2>1. \A t \in Busy' : asked'[t].client # link.source => link.source \in TrustedHosts
    BY <1>2, <1>4, <1>5 DEF Vouched, Busy
  <2>2. \A t \in Slots : asked'[t].seen <= MaxBody
    BY <1>2, <1>4, FrameLimits DEF Vouched
  <2> QED
    BY <1>6, <2>1, <2>2 DEF Vouched
<1> QED
  BY <1>7, <1>8, <1>9, <1>10

\* A request moves on, and what is counted for it moves with it.
LEMMA LinkMovesOn ==
  ASSUME LinkInv, NEW s \in Slots, NEW new \in Requests,
         asked' = [asked EXCEPT ![s] = new],
         asked[s].pc # "none", new.pc # "none",
         new.measured => new.pc \in {"chain", "body"},
         new.seen <= MaxBody, new.client = asked[s].client,
         link' \in Links, link'.active = link.active, link'.taken = link.taken, link'.phase = link.phase,
         link'.source = link.source, link'.peer = link.peer, link'.end = link.end,
         meter' \in Meters,
         meter'.unmatched + meter'.challenges + meter'.completed
           + (IF new.pc = "dispatch" THEN 1 ELSE 0) + (IF new.measured THEN 1 ELSE 0)
         = meter.unmatched + meter.challenges + meter.completed
           + (IF asked[s].pc = "dispatch" THEN 1 ELSE 0) + (IF asked[s].measured THEN 1 ELSE 0)
  PROVE  LinkInv'
<1> USE DEF LinkInv
<1>1. /\ asked' \in [Slots -> Requests] /\ asked'[s] = new
      /\ \A t \in Slots \ {s} : asked'[t] = asked[t]
  BY DEF LinkTypes
<1>2. Busy' = Busy /\ s \in Busy
  BY <1>1 DEF Busy
<1>3. Cardinality(Dispatching') = Cardinality(Dispatching)
        + (IF new.pc = "dispatch" THEN 1 ELSE 0) - (IF asked[s].pc = "dispatch" THEN 1 ELSE 0)
  <2>1. Dispatching' = IF new.pc = "dispatch" THEN Dispatching \cup {s} ELSE Dispatching \ {s}
    BY <1>1 DEF Dispatching
  <2>2. s \in Dispatching <=> asked[s].pc = "dispatch"
    BY DEF Dispatching
  <2>3. IsFiniteSet(Dispatching) /\ Cardinality(Dispatching) \in Nat
    BY Parts
  <2>4. /\ Cardinality(Dispatching \cup {s}) = IF s \in Dispatching THEN Cardinality(Dispatching) ELSE Cardinality(Dispatching) + 1
        /\ Cardinality(Dispatching \ {s}) = IF s \in Dispatching THEN Cardinality(Dispatching) - 1 ELSE Cardinality(Dispatching)
    BY <2>3, FS_AddElement, FS_RemoveElement
  <2> QED
    BY <2>1, <2>2, <2>3, <2>4
<1>4. Cardinality(Measured') = Cardinality(Measured)
        + (IF new.measured THEN 1 ELSE 0) - (IF asked[s].measured THEN 1 ELSE 0)
  <2>1. Measured' = IF new.measured THEN Measured \cup {s} ELSE Measured \ {s}
    BY <1>1 DEF Measured
  <2>2. s \in Measured <=> asked[s].measured
    BY DEF Measured
  <2>3. IsFiniteSet(Measured) /\ Cardinality(Measured) \in Nat
    BY Parts
  <2>4. /\ Cardinality(Measured \cup {s}) = IF s \in Measured THEN Cardinality(Measured) ELSE Cardinality(Measured) + 1
        /\ Cardinality(Measured \ {s}) = IF s \in Measured THEN Cardinality(Measured) - 1 ELSE Cardinality(Measured)
    BY <2>3, FS_AddElement, FS_RemoveElement
  <2> QED
    BY <2>1, <2>2, <2>3, <2>4
<1>5. LinkTypes'
  BY <1>1 DEF LinkTypes
<1>6. Requested'
  <2>1. \A t \in Slots : asked'[t].measured => asked'[t].pc \in {"chain", "body"}
    BY <1>1 DEF Requested
  <2>2. link.phase # "done" /\ link.phase # "work"
    BY <1>2 DEF Requested
  <2>3. link'.taken = meter'.unmatched + meter'.challenges + meter'.completed
                    + Cardinality(Dispatching') + Cardinality(Measured')
    <3> DEFINE d == Cardinality(Dispatching)
               m == Cardinality(Measured)
    <3>1. link.taken = meter.unmatched + meter.challenges + meter.completed + d + m
      BY <2>2 DEF Requested
    <3>2. d \in Nat /\ m \in Nat /\ link.taken \in Nat
          /\ meter.unmatched \in Nat /\ meter.challenges \in Nat /\ meter.completed \in Nat
          /\ meter'.unmatched \in Nat /\ meter'.challenges \in Nat /\ meter'.completed \in Nat
      BY Parts DEF LinkTypes, Links, Meters
    <3> HIDE DEF d, m
    <3> QED
      BY <1>3, <1>4, <3>1, <3>2 DEF d, m
  <2> QED
    BY <1>2, <2>1, <2>2, <2>3 DEF Requested
<1>7. Ended'
  <2>1. link.end = "none"
    BY <1>2 DEF Ended, Requested
  <2> QED
    BY <2>1 DEF Ended
<1>8. Vouched'
  BY <1>1, <1>2 DEF Vouched
<1> QED
  BY <1>5, <1>6, <1>7, <1>8

LEMMA DispatchKeeps ==
  ASSUME LinkInv, NEW s \in Slots, NEW outcome \in Outcomes, Dispatch(s, outcome)
  PROVE  LinkInv'
<1> USE DEF LinkInv
<1> DEFINE new == [asked[s] EXCEPT !.pc = IF outcome \in {"fallback", "route"} THEN "chain" ELSE "body",
                                   !.measured = (outcome = "route"), !.reads = (outcome # "challenge")]
<1>0. asked[s] \in Requests /\ meter \in Meters /\ link' = link /\ link \in Links
  BY DEF LinkTypes, Dispatch
<1>1. asked' = [asked EXCEPT ![s] = new]
  BY DEF Dispatch, LinkTypes
<1>2. /\ new \in Requests /\ new.pc \in {"chain", "body"} /\ (new.measured <=> outcome = "route")
      /\ new.client = asked[s].client /\ new.seen = asked[s].seen
  BY <1>0 DEF Requests
<1>3. asked[s].pc = "dispatch" /\ ~asked[s].measured /\ asked[s].seen <= MaxBody
  BY DEF Dispatch, Requested, Vouched
<1>4. /\ meter' \in Meters
      /\ meter'.unmatched + meter'.challenges + meter'.completed + (IF new.measured THEN 1 ELSE 0)
         = meter.unmatched + meter.challenges + meter.completed + 1
  <2>1. meter' = CountsOutcome(outcome)
    BY DEF Dispatch
  <2>2. CASE outcome = "challenge"
    <3>1. meter' = [meter EXCEPT !.challenges = @ + 1]
      BY <2>1, <2>2 DEF CountsOutcome
    <3> QED
      <4>1. meter' \in Meters
        <5>1. meter.challenges + 1 \in Nat
          BY MeterFields
        <5> QED
          BY <5>1, <3>1, <1>0 DEF Meters
      <4>2. meter'.challenges = meter.challenges + 1 /\ meter'.unmatched = meter.unmatched
            /\ meter'.completed = meter.completed
        BY <3>1, <1>0 DEF Meters
      <4> QED
        BY <4>1, <4>2, <1>2, <2>2, MeterFields
  <2>3. CASE outcome = "route"
    <3>1. meter' = [meter EXCEPT !.inflight = @ + 1]
      BY <2>1, <2>3 DEF CountsOutcome
    <3> QED
      <4>1. meter' \in Meters
        <5>1. meter.inflight + 1 \in Int
          BY MeterFields
        <5> QED
          BY <5>1, <3>1, <1>0 DEF Meters
      <4>2. meter'.unmatched = meter.unmatched /\ meter'.challenges = meter.challenges
            /\ meter'.completed = meter.completed
        BY <3>1, <1>0 DEF Meters
      <4> QED
        BY <4>1, <4>2, <1>2, <2>3, MeterFields
  <2>4. CASE outcome \in {"too large", "invalid path", "unknown host", "fallback"}
    <3>1. meter' = [meter EXCEPT !.unmatched = @ + 1]
      BY <2>1, <2>4 DEF CountsOutcome
    <3> QED
      <4>1. meter' \in Meters
        <5>1. meter.unmatched + 1 \in Nat
          BY MeterFields
        <5> QED
          BY <5>1, <3>1, <1>0 DEF Meters
      <4>2. meter'.unmatched = meter.unmatched + 1 /\ meter'.challenges = meter.challenges
            /\ meter'.completed = meter.completed
        BY <3>1, <1>0 DEF Meters
      <4>3. ~new.measured
        BY <1>2, <2>4
      <4> QED
        BY <4>1, <4>2, <4>3, MeterFields
  <2> QED
    BY <2>2, <2>3, <2>4 DEF Outcomes
<1> HIDE DEF new
<1>5. meter'.unmatched + meter'.challenges + meter'.completed
        + (IF new.pc = "dispatch" THEN 1 ELSE 0) + (IF new.measured THEN 1 ELSE 0)
      = meter.unmatched + meter.challenges + meter.completed
        + (IF asked[s].pc = "dispatch" THEN 1 ELSE 0) + (IF asked[s].measured THEN 1 ELSE 0)
  BY <1>0, <1>2, <1>3, <1>4 DEF Meters
<1> QED
  BY <1>0, <1>1, <1>2, <1>3, <1>4, <1>5, LinkMovesOn

LEMMA ReadsFrameKeeps ==
  ASSUME LinkInv, NEW s \in Slots, NEW size \in FrameSizes, ReadsFrame(s, size)
  PROVE  LinkInv'
<1> USE DEF LinkInv
<1> DEFINE new == [asked[s] EXCEPT !.seen = IF Fits(s, size) THEN @ + size ELSE @, !.reads = Fits(s, size)]
<1>0. asked[s] \in Requests /\ meter' = meter /\ meter \in Meters /\ link' = link /\ link \in Links
  BY DEF LinkTypes, ReadsFrame
<1>1. asked' = [asked EXCEPT ![s] = new]
  BY DEF ReadsFrame, LinkTypes
<1>2. asked[s].pc = "chain" /\ asked[s].seen <= MaxBody /\ size \in Nat /\ MaxBody \in Nat
      /\ Fits(s, size) \in BOOLEAN
  BY ExchangeAssumption DEF ReadsFrame, Vouched, Fits
<1>3. Fits(s, size) => asked[s].seen + size <= MaxBody
  BY <1>0, <1>2 DEF Fits, Less, Requests
<1>4. /\ new \in Requests /\ new.pc = "chain" /\ new.measured = asked[s].measured
      /\ new.client = asked[s].client /\ new.seen <= MaxBody
  <2>1. CASE Fits(s, size)
    <3>1. new = [asked[s] EXCEPT !.seen = asked[s].seen + size, !.reads = TRUE]
      BY <2>1, <1>0
    <3>2. asked[s].seen + size \in Nat /\ asked[s].seen + size <= MaxBody
      BY <2>1, <1>0, <1>2, <1>3 DEF Requests
    <3> QED
      BY <3>1, <3>2, <1>0, <1>2 DEF Requests
  <2>2. CASE ~Fits(s, size)
    <3>1. new = [asked[s] EXCEPT !.seen = asked[s].seen, !.reads = FALSE]
      BY <2>2, <1>2
    <3> QED
      BY <3>1, <1>0, <1>2 DEF Requests
  <2> QED
    BY <2>1, <2>2, <1>2
<1> HIDE DEF new
<1> QED
  BY <1>0, <1>1, <1>2, <1>4, LinkMovesOn

\* What is complete leaves the measured and is counted.
LEMMA Whole ==
  ASSUME LinkInv
  PROVE  /\ FinishWhole \in Meters
         /\ FinishWhole.unmatched = meter.unmatched /\ FinishWhole.challenges = meter.challenges
         /\ FinishWhole.completed = meter.completed + 1
<1>1. meter \in Meters /\ meter.completed + 1 \in Nat /\ meter.inflight - 1 \in Int
  BY MeterFields DEF LinkInv, LinkTypes
<1> QED
  BY <1>1 DEF FinishWhole, Meters

LEMMA AnswersKeeps ==
  ASSUME LinkInv, NEW s \in Slots, NEW streamed \in BOOLEAN, Answers(s, streamed)
  PROVE  LinkInv'
<1> USE DEF LinkInv
<1> DEFINE new == [asked[s] EXCEPT !.pc = "body", !.measured = @ /\ streamed, !.reads = FALSE]
<1>0. asked[s] \in Requests /\ meter \in Meters /\ link' = link /\ link \in Links
  BY DEF LinkTypes, Answers
<1>1. asked' = [asked EXCEPT ![s] = new]
  BY DEF Answers, LinkTypes
<1>2. /\ new \in Requests /\ new.pc = "body" /\ (new.measured <=> asked[s].measured /\ streamed)
      /\ new.client = asked[s].client /\ new.seen = asked[s].seen
  BY <1>0 DEF Requests
<1>3. asked[s].pc = "chain" /\ asked[s].seen <= MaxBody
  BY DEF Answers, Vouched
<1>4. meter' = IF asked[s].measured /\ ~streamed THEN FinishWhole ELSE meter
  BY DEF Answers
<1> HIDE DEF new
<1>5. /\ meter' \in Meters
      /\ meter'.unmatched + meter'.challenges + meter'.completed
        + (IF new.pc = "dispatch" THEN 1 ELSE 0) + (IF new.measured THEN 1 ELSE 0)
         = meter.unmatched + meter.challenges + meter.completed
        + (IF asked[s].pc = "dispatch" THEN 1 ELSE 0) + (IF asked[s].measured THEN 1 ELSE 0)
  BY <1>0, <1>2, <1>3, <1>4, Whole DEF Meters
<1> QED
  BY <1>0, <1>1, <1>2, <1>3, <1>5, LinkMovesOn

LEMMA HandsOverKeeps ==
  ASSUME LinkInv, NEW s \in Slots, HandsOver(s)
  PROVE  LinkInv'
<1> USE DEF LinkInv
<1> DEFINE new == [asked[s] EXCEPT !.pc = "body", !.measured = FALSE, !.reads = FALSE]
<1>0. asked[s] \in Requests /\ meter \in Meters /\ link \in Links
  BY DEF LinkTypes
<1>1. asked' = [asked EXCEPT ![s] = new]
  BY DEF HandsOver, LinkTypes
<1>2. /\ new \in Requests /\ new.pc = "body" /\ ~new.measured
      /\ new.client = asked[s].client /\ new.seen = asked[s].seen
  BY <1>0 DEF Requests
<1>3. asked[s].pc = "chain" /\ asked[s].seen <= MaxBody
  BY DEF HandsOver, Vouched
<1>4. meter' = IF asked[s].measured THEN FinishWhole ELSE meter
  BY DEF HandsOver
<1>6. /\ link' \in Links /\ link'.active = link.active /\ link'.taken = link.taken
      /\ link'.phase = link.phase /\ link'.source = link.source /\ link'.peer = link.peer
      /\ link'.end = link.end
  BY <1>0 DEF HandsOver, Links
<1> HIDE DEF new
<1>5. /\ meter' \in Meters
      /\ meter'.unmatched + meter'.challenges + meter'.completed
        + (IF new.pc = "dispatch" THEN 1 ELSE 0) + (IF new.measured THEN 1 ELSE 0)
         = meter.unmatched + meter.challenges + meter.completed
        + (IF asked[s].pc = "dispatch" THEN 1 ELSE 0) + (IF asked[s].measured THEN 1 ELSE 0)
  BY <1>0, <1>2, <1>3, <1>4, Whole DEF Meters
<1> QED
  BY <1>0, <1>1, <1>2, <1>3, <1>5, <1>6, LinkMovesOn

LEMMA BodyEndsKeeps ==
  ASSUME LinkInv, NEW s \in Slots, BodyEnds(s)
  PROVE  LinkInv'
<1> USE DEF LinkInv
<1>0. asked[s].pc = "body" /\ s \in Busy /\ meter \in Meters /\ link \in Links
  BY DEF BodyEnds, Busy, LinkTypes
<1>1. /\ asked' \in [Slots -> Requests] /\ asked'[s] = NoRequest
      /\ \A t \in Slots \ {s} : asked'[t] = asked[t]
  BY NoRequestTyped DEF BodyEnds, LinkTypes
<1>2. Busy' = Busy \ {s} /\ Dispatching' = Dispatching /\ Measured' = Measured \ {s}
  BY <1>0, <1>1, NoRequestTyped DEF Busy, Dispatching, Measured
<1>3. /\ IsFiniteSet(Busy') /\ Cardinality(Busy') = Cardinality(Busy) - 1 /\ Cardinality(Busy) \in Nat
      /\ Cardinality(Busy') \in Nat
      /\ Cardinality(Measured') = IF s \in Measured THEN Cardinality(Measured) - 1 ELSE Cardinality(Measured)
  <2>1. IsFiniteSet(Busy) /\ IsFiniteSet(Measured)
    BY Parts DEF Requested
  <2> QED
    BY <1>0, <1>2, <2>1, OneMore
<1>4. link.active = Cardinality(Busy) /\ link.phase # "done" /\ link.phase # "work" /\ link.end = "none"
  BY <1>0 DEF Requested, Ended
<1>5. /\ link' \in Links /\ link'.active = Cardinality(Busy') /\ link'.taken = link.taken
      /\ link'.phase = link.phase /\ link'.source = link.source /\ link'.peer = link.peer
      /\ link'.end = link.end /\ link'.work = link.work
  <2>1. link' = [link EXCEPT !.active = @ - 1, !.timer = IF link.active = 1 THEN "fresh" ELSE @]
    BY DEF BodyEnds
  <2> QED
    BY <2>1, <1>0, <1>3, <1>4 DEF Links
<1>6. meter' = IF s \in Measured THEN FinishWhole ELSE meter
  BY DEF BodyEnds, Measured
<1>7. /\ meter' \in Meters
      /\ meter'.unmatched = meter.unmatched /\ meter'.challenges = meter.challenges
      /\ meter'.completed = IF s \in Measured THEN meter.completed + 1 ELSE meter.completed
  BY <1>0, <1>6, Whole
<1>8. LinkTypes'
  BY <1>1, <1>5, <1>7 DEF LinkTypes
<1>9. Requested'
  <2>1. \A t \in Slots : asked'[t].measured => asked'[t].pc \in {"chain", "body"}
    BY <1>1, NoRequestTyped DEF Requested
  <2>2. link'.taken = meter'.unmatched + meter'.challenges + meter'.completed
                    + Cardinality(Dispatching') + Cardinality(Measured')
    <3>1. link.taken = meter.unmatched + meter.challenges + meter.completed
                       + Cardinality(Dispatching) + Cardinality(Measured)
      BY <1>4 DEF Requested
    <3>2. Cardinality(Dispatching) \in Nat /\ Cardinality(Measured) \in Nat /\ link.taken \in Nat
          /\ meter.unmatched \in Nat /\ meter.challenges \in Nat /\ meter.completed \in Nat
      BY Parts, <1>0 DEF Links, Meters
    <3> QED
      BY <1>2, <1>3, <1>5, <1>7, <3>1, <3>2
  <2> QED
    BY <1>3, <1>4, <1>5, <2>1, <2>2 DEF Requested
<1>10. Ended'
  BY <1>4, <1>5 DEF Ended
<1>11. Vouched'
  <2>1. \A t \in Busy' : asked'[t].client # link.source => link.source \in TrustedHosts
    BY <1>1, <1>2 DEF Vouched, Busy
  <2>2. \A t \in Slots : asked'[t].seen <= MaxBody
    BY <1>1, NoRequestTyped, FrameLimits DEF Vouched
  <2> QED
    BY <1>5, <2>1, <2>2 DEF Vouched
<1> QED
  BY <1>8, <1>9, <1>10, <1>11

LEMMA LinkEndsKeep ==
  ASSUME LinkInv, NeverServed \/ IdleExpires \/ HttpEnds \/ WorkEnds \/ Breaks \/ Aborted
  PROVE  LinkInv'
<1>1. CASE IdleExpires
  <2>1. Busy = {}
    BY <1>1, FS_EmptySet DEF IdleExpires, LinkInv, Requested
  <2>2. link.port \in Ports /\ link.arrived \in {0, 1}
    BY DEF LinkInv, LinkTypes, Links
  <2>3. FreeSlots # {}
    BY <2>1, <2>2, PortSlots DEF FreeSlots
  <2>4. link.arrived = 0 /\ link.work = "none" /\ Closed("idle")
    BY <1>1, <2>3 DEF IdleExpires, HttpPending
  <2> QED
    BY <2>4, ClosedKeeps
<1>2. CASE HttpEnds
  <2>1. CASE link.work = "set"
    <3>1. Busy = {}
      BY <1>2, FS_EmptySet DEF HttpEnds, LinkInv, Requested
    <3>2. link \in Links /\ meter \in Meters
          /\ (link.peer # link.source => link.source \in TrustedHosts)
      BY DEF LinkInv, LinkTypes, Vouched
    <3>3. link' = [link EXCEPT !.phase = "work", !.work = "taken"] /\ asked' = asked /\ meter' = meter
          /\ link.phase # "done"
      BY <1>2, <2>1 DEF HttpEnds
    <3>4. /\ link' \in Links /\ link'.active = link.active /\ link'.taken = link.taken
          /\ link'.phase = "work" /\ link'.work = "taken"
          /\ link'.source = link.source /\ link'.peer = link.peer /\ link'.end = link.end
      BY <3>2, <3>3 DEF Links
    <3> QED
      BY <3>1, <3>2, <3>3, <3>4, LinkOnly
  <2>2. CASE link.work # "set"
    <3>1. Closed("finished")
      BY <1>2, <2>2 DEF HttpEnds
    <3> QED
      BY <3>1, ClosedKeeps
  <2> QED
    BY <2>1, <2>2
<1>3. CASE NeverServed \/ WorkEnds \/ Breaks \/ Aborted
  <2>1. Closed("refused") \/ Closed("finished") \/ Closed("broken") \/ Closed("aborted")
    BY <1>3 DEF NeverServed, WorkEnds, Breaks, Aborted
  <2> QED
    BY <2>1, ClosedKeeps
<1> QED
  BY <1>1, <1>2, <1>3

LEMMA LinkInitially == ExchangeInit => LinkInv
<1> SUFFICES ASSUME ExchangeInit PROVE LinkInv
  OBVIOUS
<1>1. PICK p \in Ports, a \in Hosts :
        link = [port |-> p, source |-> a, peer |-> a, phase |-> "accepted", arrived |-> 0, taken |-> 0,
                active |-> 0, timer |-> "fresh", stop |-> FALSE, work |-> "none", end |-> "none"]
  BY DEF ExchangeInit
<1>2. asked = [s \in Slots |-> NoRequest]
      /\ meter = [open |-> 0, handshakes |-> 0, unmatched |-> 0, challenges |-> 0, completed |-> 0, inflight |-> 0]
  BY DEF ExchangeInit
<1>3. LinkTypes
  BY <1>1, <1>2, NoRequestTyped DEF LinkTypes, Links, Meters
<1>4. Busy = {} /\ Dispatching = {} /\ Measured = {}
  BY <1>2, NoRequestTyped DEF Busy, Dispatching, Measured
<1>5. Requested
  BY <1>1, <1>2, <1>4, NoRequestTyped, FS_EmptySet DEF Requested
<1>6. Ended
  BY <1>1 DEF Ended
<1>7. Vouched
  BY <1>1, <1>2, <1>4, NoRequestTyped, FrameLimits DEF Vouched
<1> QED
  BY <1>3, <1>5, <1>6, <1>7 DEF LinkInv

LEMMA LinkStep == LinkInv /\ [LinkNext]_linkVars => LinkInv'
<1> SUFFICES ASSUME LinkInv, [LinkNext]_linkVars PROVE LinkInv'
  OBVIOUS
<1>1. CASE UNCHANGED linkVars
  BY <1>1 DEF linkVars, LinkInv, LinkTypes, Requested, Ended, Vouched, Busy, Measured, Dispatching
<1>2. CASE LinkNext
  BY <1>2, BeforeHttp, TakesRequestKeeps, DispatchKeeps, ReadsFrameKeeps, AnswersKeeps, HandsOverKeeps,
     BodyEndsKeeps, LinkEndsKeep DEF LinkNext
<1> QED
  BY <1>1, <1>2

\* The idle timer never takes a connection with a request in progress or one
\* that could be read, each request is counted once, a tunnel begins when none
\* is left, and nobody speaks for another address through a socket that is not
\* trusted (connection_activity.rs, connection_work.rs, client_ip).
THEOREM RequestsOfLink == LinkSpec => []LinkSound
<1>1. LinkInv => LinkSound
  <2> SUFFICES ASSUME LinkInv PROVE LinkSound
    OBVIOUS
  <2>1. IdleSparesRequests
    BY DEF LinkInv, Ended, Requested, IdleSparesRequests
  <2>2. ExchangeAccounts
    BY DEF LinkInv, Requested, ExchangeAccounts, Dispatching
  <2>3. OnlyTrustedClaims
    BY DEF LinkInv, Vouched, OnlyTrustedClaims
  <2> QED
    BY <2>1, <2>2, <2>3 DEF LinkSound
<1> QED
  BY <1>1, LinkInitially, LinkStep, PTL DEF LinkSpec

-----------------------------------------------------------------------------
(* Proxying.  The inductive invariant says besides the property: where a   *)
(* request holds an endpoint, where it holds a retry, and that it is only  *)
(* ever where it may be sent again if nothing was sent or it may be        *)
(* replayed.  Only finitely many requests have arrived, whatever may come. *)

\* Where a request holds an endpoint, and where its failure is being reported.
Attached == {"checkout", "sent", "window", "count", "eject", "next", "end", "body", "tunnel"}
Reporting == {"window", "count", "eject"}

Ends == [health : {"healthy", "unknown", "unhealthy", "draining"}, ok : Int, fail : Int, passive : Int,
         window : {"none", "open"}, ejected : {"no", "yes", "over"}, inflight : Nat, credit : Int]
Exchanges ==
  [pc : {"none", "payload", "select", "retry", "budget", "answered"} \cup Attached,
   kind : Kind, key : Keys \cup {NoKey}, attempt : Nat, at : Backends \cup {0}, excluded : SUBSET Backends,
   permit : BOOLEAN, allowed : Int, then : {"none", "next", "end", "body"}, sends : Nat]

ProxyTypes ==
  /\ backend \in [Backends -> Ends] /\ regime \in Policies /\ cursor \in Nat
  /\ exchange \in [Proxied -> Exchanges] /\ live \in Int

\* A request holds an endpoint from the choice to the end of the attempt, a retry
\* only from its grant, and is where it may be sent again only if it may.
AttemptOk(e) ==
  /\ e.pc \in Attached <=> e.at # 0
  /\ e.pc \in Reporting => e.then # "none"
  /\ e.permit => e.pc \in Attached \cup {"select"}
  /\ e.sends > 1 => MayReplay(e.kind)
  /\ e.sends > 0 /\ e.pc \in {"payload", "retry", "budget", "select", "checkout", "next"} => MayReplay(e.kind)
  /\ e.sends > 0 /\ e.pc \in Reporting /\ e.then = "next" => MayReplay(e.kind)

Started == {r \in Proxied : exchange[r].pc # "none"}
CountsAsRetry(e) == e.permit \/ e.pc = "budget"
Retries == {r \in Proxied : CountsAsRetry(exchange[r])}
Credits == SumFunction([b \in Backends |-> backend[b].credit])

ProxyInv ==
  /\ ProxyTypes
  /\ \A r \in Proxied : AttemptOk(exchange[r])
  /\ IsFiniteSet(Started)
  /\ \A b \in Backends : backend[b].inflight = Cardinality(Holding(b))
  /\ live = Cardinality(Retries)
  /\ Credits = 0

-----------------------------------------------------------------------------
Bit(b) == IF b THEN 1 ELSE 0

\* A member that joins or leaves.
LEMMA MemberMoves ==
  ASSUME NEW S, IsFiniteSet(S), NEW x, NEW T,
         \A y : y # x => (y \in T <=> y \in S)
  PROVE  /\ IsFiniteSet(T) /\ Cardinality(S) \in Nat /\ Cardinality(T) \in Nat
         /\ Cardinality(T) = Cardinality(S) + Bit(x \in T) - Bit(x \in S)
<1>1. Cardinality(S) \in Nat
  BY FS_CardinalityType
<1>2. CASE x \in T
  <2>1. T = S \cup {x}
    BY <1>2
  <2>2. IsFiniteSet(T) /\ Cardinality(T) = IF x \in S THEN Cardinality(S) ELSE Cardinality(S) + 1
    BY <2>1, FS_AddElement
  <2> QED
    BY <1>1, <1>2, <2>2 DEF Bit
<1>3. CASE x \notin T
  <2>1. T = S \ {x}
    BY <1>3
  <2>2. IsFiniteSet(T) /\ Cardinality(T) = IF x \in S THEN Cardinality(S) - 1 ELSE Cardinality(S)
    BY <2>1, FS_RemoveElement
  <2>3. Cardinality(T) \in Nat
    BY <2>2, FS_CardinalityType
  <2> QED
    BY <1>1, <1>3, <2>2, <2>3 DEF Bit
<1> QED
  BY <1>2, <1>3

LEMMA BackendIds == 0 \notin Backends /\ IsFiniteSet(Backends) /\ Backends \subseteq Nat
  BY ProxyingAssumption

\* One request moves on: what is counted for it moves with it.
LEMMA AttemptMoves ==
  ASSUME ProxyInv, NEW r \in Proxied, NEW new \in Exchanges, AttemptOk(new), new.pc # "none",
         exchange' = [exchange EXCEPT ![r] = new],
         backend' \in [Backends -> Ends],
         \A b \in Backends : backend'[b].inflight
                             = backend[b].inflight + Bit(new.at = b) - Bit(exchange[r].at = b),
         Credits' = Credits,
         live' = live + Bit(CountsAsRetry(new)) - Bit(CountsAsRetry(exchange[r])),
         regime' = regime, cursor' \in Nat
  PROVE  ProxyInv'
<1> USE DEF ProxyInv
<1>1. /\ exchange' \in [Proxied -> Exchanges] /\ exchange'[r] = new
      /\ \A q \in Proxied \ {r} : exchange'[q] = exchange[q]
  BY DEF ProxyTypes
<1>2. IsFiniteSet(Started')
  <2>1. \A q : q # r => (q \in Started' <=> q \in Started)
    BY <1>1 DEF Started
  <2> QED
    BY <2>1, MemberMoves
<1>3. /\ \A b \in Backends : Holding(b) \in SUBSET Started
      /\ Retries \in SUBSET Started
  BY BackendIds DEF Holding, Started, Retries, CountsAsRetry, AttemptOk, Attached, ProxyTypes
<1>4. ASSUME NEW b \in Backends PROVE backend'[b].inflight = Cardinality(Holding(b)')
  <2>1. IsFiniteSet(Holding(b))
    BY <1>3, FS_Subset
  <2>2. \A q : q # r => (q \in Holding(b)' <=> q \in Holding(b))
    BY <1>1 DEF Holding
  <2>3. (r \in Holding(b)' <=> new.at = b) /\ (r \in Holding(b) <=> exchange[r].at = b)
    BY <1>1 DEF Holding
  <2>4. /\ Cardinality(Holding(b)) \in Nat
        /\ Cardinality(Holding(b)') = Cardinality(Holding(b)) + Bit(r \in Holding(b)') - Bit(r \in Holding(b))
    BY <2>1, <2>2, MemberMoves
  <2>5. Bit(r \in Holding(b)') = Bit(new.at = b) /\ Bit(r \in Holding(b)) = Bit(exchange[r].at = b)
    BY <2>3 DEF Bit
  <2> QED
    BY <2>4, <2>5
<1>5. live' = Cardinality(Retries') /\ live' \in Int
  <2>1. IsFiniteSet(Retries)
    BY <1>3, FS_Subset
  <2>2. \A q : q # r => (q \in Retries' <=> q \in Retries)
    BY <1>1 DEF Retries
  <2>3. (r \in Retries' <=> CountsAsRetry(new)) /\ (r \in Retries <=> CountsAsRetry(exchange[r]))
    BY <1>1 DEF Retries
  <2>4. /\ Cardinality(Retries) \in Nat /\ Cardinality(Retries') \in Nat
        /\ Cardinality(Retries') = Cardinality(Retries) + Bit(r \in Retries') - Bit(r \in Retries)
    BY <2>1, <2>2, MemberMoves
  <2>5. Bit(r \in Retries') = Bit(CountsAsRetry(new)) /\ Bit(r \in Retries) = Bit(CountsAsRetry(exchange[r]))
    BY <2>3 DEF Bit
  <2> QED
    BY <2>4, <2>5
<1>6. \A q \in Proxied : AttemptOk(exchange'[q])
  BY <1>1
<1>7. ProxyTypes'
  BY <1>1, <1>5 DEF ProxyTypes
<1> QED
  BY <1>2, <1>4, <1>5, <1>6, <1>7

\* What an endpoint owes in the weighted rotation does not change.
LEMMA SameCredits ==
  ASSUME \A b \in Backends : backend'[b].credit = backend[b].credit
  PROVE  Credits' = Credits
<1>1. [b \in Backends |-> backend'[b].credit] = [b \in Backends |-> backend[b].credit]
  OBVIOUS
<1> QED
  BY <1>1 DEF Credits

\* A request moves on and the endpoints stay as they are.
LEMMA AttemptOnly ==
  ASSUME ProxyInv, NEW r \in Proxied, NEW new \in Exchanges, AttemptOk(new), new.pc # "none",
         exchange' = [exchange EXCEPT ![r] = new], new.at = exchange[r].at,
         backend' \in [Backends -> Ends],
         \A b \in Backends : backend'[b].inflight = backend[b].inflight /\ backend'[b].credit = backend[b].credit,
         live' = live + Bit(CountsAsRetry(new)) - Bit(CountsAsRetry(exchange[r])),
         regime' = regime, cursor' \in Nat
  PROVE  ProxyInv'
<1>1. Credits' = Credits
  BY SameCredits
<1>2. ASSUME NEW b \in Backends
      PROVE  backend'[b].inflight = backend[b].inflight + Bit(new.at = b) - Bit(exchange[r].at = b)
  <2>1. backend[b].inflight \in Nat
    BY DEF ProxyInv, ProxyTypes, Ends
  <2> QED
    BY <2>1 DEF Bit
<1> QED
  BY <1>1, <1>2, AttemptMoves

LEMMA InProxy ==
  ASSUME ProxyInv, NEW r \in Proxied
  PROVE  /\ exchange[r] \in Exchanges /\ AttemptOk(exchange[r])
         /\ backend \in [Backends -> Ends] /\ live \in Int /\ cursor \in Nat
  BY DEF ProxyInv, ProxyTypes

LEMMA DoneTyped ==
  /\ NoExchange \in Exchanges /\ NoExchange.at = 0 /\ NoExchange.sends = 0 /\ NoExchange.pc = "none" /\ ~NoExchange.permit
  /\ Done \in Exchanges /\ AttemptOk(Done) /\ Done.pc = "answered" /\ Done.at = 0 /\ ~CountsAsRetry(Done)
<1>1. /\ NoExchange \in Exchanges /\ NoExchange.at = 0 /\ NoExchange.sends = 0
      /\ NoExchange.pc = "none" /\ ~NoExchange.permit
  BY DEF NoExchange, Exchanges, Kind, Attached
<1>2. /\ Done \in Exchanges /\ Done.pc = "answered" /\ Done.at = 0 /\ ~Done.permit /\ Done.sends = 0
  BY <1>1 DEF Done, Exchanges
<1> QED
  BY <1>1, <1>2 DEF AttemptOk, Attached, Reporting, CountsAsRetry

\* A request moves on and nothing else changes.
LEMMA OnlyPlace ==
  ASSUME ProxyInv, NEW r \in Proxied, NEW new \in Exchanges, AttemptOk(new), new.pc # "none",
         exchange' = [exchange EXCEPT ![r] = new], new.at = exchange[r].at,
         CountsAsRetry(new) <=> CountsAsRetry(exchange[r]),
         UNCHANGED <<backend, regime, cursor, live>>
  PROVE  ProxyInv'
<1>1. backend' \in [Backends -> Ends] /\ live \in Int /\ cursor' \in Nat
  BY InProxy
<1>2. live' = live + Bit(CountsAsRetry(new)) - Bit(CountsAsRetry(exchange[r]))
  BY <1>1 DEF Bit
<1> QED
  BY <1>1, <1>2, AttemptOnly

LEMMA ArriveKeeps ==
  ASSUME ProxyInv, NEW r \in Proxied, NEW k \in Kind, NEW key \in Keys \cup {NoKey}, Arrive(r, k, key)
  PROVE  ProxyInv'
<1> DEFINE new == [NoExchange EXCEPT !.pc = "payload", !.kind = k, !.key = key]
<1>1. /\ new \in Exchanges /\ new.pc = "payload" /\ new.at = 0 /\ new.sends = 0 /\ ~new.permit
  BY DoneTyped DEF Exchanges
<1>2. exchange' = [exchange EXCEPT ![r] = new] /\ exchange[r].pc = "none"
  BY DEF Arrive, Becomes
<1> HIDE DEF new
<1>3. AttemptOk(new) /\ ~CountsAsRetry(new)
  BY <1>1 DEF AttemptOk, Attached, Reporting, CountsAsRetry
<1>4. exchange[r].at = 0 /\ ~CountsAsRetry(exchange[r])
  BY <1>2, InProxy DEF AttemptOk, Attached, CountsAsRetry
<1> QED
  BY <1>1, <1>2, <1>3, <1>4, OnlyPlace DEF Arrive

LEMMA PreparedKeeps ==
  ASSUME ProxyInv, NEW r \in Proxied, Prepared(r)
  PROVE  ProxyInv'
<1> DEFINE e == exchange[r]
           new == [e EXCEPT !.pc = "select", !.attempt = 1]
<1>1. e \in Exchanges /\ AttemptOk(e) /\ e.pc = "payload"
  BY InProxy DEF Prepared
<1>2. new \in Exchanges /\ new.pc = "select" /\ new.at = e.at /\ new.sends = e.sends /\ new.permit = e.permit
      /\ new.kind = e.kind
  BY <1>1 DEF Exchanges
<1>3. exchange' = [exchange EXCEPT ![r] = new]
  BY DEF Prepared, Becomes
<1> HIDE DEF new
<1>4. AttemptOk(new) /\ (CountsAsRetry(new) <=> CountsAsRetry(e))
  BY <1>1, <1>2 DEF AttemptOk, Attached, Reporting, CountsAsRetry
<1> QED
  BY <1>1, <1>2, <1>3, <1>4, OnlyPlace DEF Prepared

LEMMA GrantedKeeps ==
  ASSUME ProxyInv, NEW r \in Proxied, RetryGranted(r)
  PROVE  ProxyInv'
<1> DEFINE e == exchange[r]
           new == [e EXCEPT !.pc = "select", !.permit = TRUE]
<1>1. e \in Exchanges /\ AttemptOk(e) /\ e.pc = "budget"
  BY InProxy DEF RetryGranted
<1>2. new \in Exchanges /\ new.pc = "select" /\ new.at = e.at /\ new.sends = e.sends /\ new.permit
      /\ new.kind = e.kind
  BY <1>1 DEF Exchanges
<1>3. exchange' = [exchange EXCEPT ![r] = new]
  BY DEF RetryGranted, Becomes
<1> HIDE DEF new
<1>4. AttemptOk(new) /\ (CountsAsRetry(new) <=> CountsAsRetry(e))
  BY <1>1, <1>2 DEF AttemptOk, Attached, Reporting, CountsAsRetry
<1> QED
  BY <1>1, <1>2, <1>3, <1>4, OnlyPlace DEF RetryGranted

\* From one place of an attempt to another.
GoesOn(r, pc, then, sends) ==
  /\ exchange' = [exchange EXCEPT ![r] = [exchange[r] EXCEPT !.pc = pc, !.then = then, !.sends = sends]]
  /\ exchange[r].pc \in Attached /\ pc \in Attached
  /\ then \in {"none", "next", "end", "body"} /\ sends \in Nat
  /\ pc \in Reporting => then # "none"
  /\ sends > 1 => MayReplay(exchange[r].kind)
  /\ sends > 0 /\ pc \in {"checkout", "next"} => MayReplay(exchange[r].kind)
  /\ sends > 0 /\ pc \in Reporting /\ then = "next" => MayReplay(exchange[r].kind)

LEMMA WithinAttempt ==
  ASSUME ProxyInv, NEW r \in Proxied, NEW pc, NEW then, NEW sends, GoesOn(r, pc, then, sends),
         backend' \in [Backends -> Ends],
         \A b \in Backends : backend'[b].inflight = backend[b].inflight /\ backend'[b].credit = backend[b].credit,
         UNCHANGED <<regime, cursor, live>>
  PROVE  ProxyInv'
<1> DEFINE e == exchange[r]
           new == [e EXCEPT !.pc = pc, !.then = then, !.sends = sends]
<1>1. e \in Exchanges /\ AttemptOk(e) /\ live \in Int /\ cursor \in Nat
  BY InProxy
<1>2. new \in Exchanges /\ new.pc = pc /\ new.at = e.at /\ new.sends = sends /\ new.permit = e.permit
      /\ new.kind = e.kind /\ new.then = then
  BY <1>1 DEF Exchanges, GoesOn
<1>3. exchange' = [exchange EXCEPT ![r] = new] /\ e.pc \in Attached /\ pc \in Attached
  BY DEF GoesOn
<1> HIDE DEF new
<1>4. AttemptOk(new)
  <2>1. (new.pc \in Attached <=> new.at # 0) /\ (new.permit => new.pc \in Attached \cup {"select"})
    BY <1>1, <1>2, <1>3 DEF AttemptOk
  <2>2. new.pc \notin {"payload", "retry", "budget", "select"}
    BY <1>2, <1>3 DEF Attached
  <2> QED
    BY <1>2, <2>1, <2>2 DEF AttemptOk, GoesOn
<1>5. CountsAsRetry(new) <=> CountsAsRetry(e)
  BY <1>1, <1>2, <1>3 DEF CountsAsRetry, Attached
<1>6. live' = live + Bit(CountsAsRetry(new)) - Bit(CountsAsRetry(e))
  BY <1>1, <1>5 DEF Bit
<1>7. new.pc # "none" /\ cursor' \in Nat
  BY <1>1, <1>2, <1>3 DEF Attached
<1> QED
  BY <1>2, <1>3, <1>4, <1>6, <1>7, AttemptOnly

\* The endpoints as they are.
LEMMA SameBackends ==
  ASSUME ProxyInv, UNCHANGED backend
  PROVE  /\ backend' \in [Backends -> Ends]
         /\ \A b \in Backends : backend'[b].inflight = backend[b].inflight /\ backend'[b].credit = backend[b].credit
  BY DEF ProxyInv, ProxyTypes

LEMMA SendingKeeps ==
  ASSUME ProxyInv, NEW r \in Proxied,
         CheckedOut(r) \/ CheckoutFails(r) \/ CheckoutTimesOut(r) \/ SendFails(r) \/ SendTimesOut(r)
         \/ Switched(r) \/ (\E failed \in BOOLEAN : Answered(r, failed))
  PROVE  ProxyInv'
<1> DEFINE e == exchange[r]
<1>1. e \in Exchanges /\ AttemptOk(e) /\ UNCHANGED <<backend, regime, cursor, live>>
  BY InProxy DEF CheckedOut, CheckoutFails, CheckoutTimesOut, SendFails, SendTimesOut, Switched, Answered
<1>2. e.sends \in Nat /\ e.then \in {"none", "next", "end", "body"}
  BY <1>1 DEF Exchanges
<1>3. /\ e.sends > 1 => MayReplay(e.kind)
      /\ e.sends > 0 /\ e.pc = "checkout" => MayReplay(e.kind)
  BY <1>1 DEF AttemptOk
<1>4. AfterFailure(e.kind) \in {"next", "end"} /\ (AfterFailure(e.kind) = "next" => MayReplay(e.kind))
  BY DEF AfterFailure
<1>5. \A pc, then, sends : GoesOn(r, pc, then, sends) => ProxyInv'
  BY <1>1, SameBackends, WithinAttempt
<1>6. CASE CheckedOut(r)
  <2>1. e.pc = "checkout" /\ exchange' = [exchange EXCEPT ![r] = [e EXCEPT !.pc = "sent", !.sends = @ + 1]]
    BY <1>6 DEF CheckedOut, Becomes
  <2>2. [e EXCEPT !.pc = "sent", !.sends = @ + 1] = [e EXCEPT !.pc = "sent", !.then = e.then, !.sends = e.sends + 1]
    BY <1>1 DEF Exchanges
  <2>3. e.sends + 1 \in Nat /\ (e.sends + 1 > 1 => MayReplay(e.kind))
    BY <1>2, <1>3, <2>1
  <2>4. GoesOn(r, "sent", e.then, e.sends + 1)
    BY <1>2, <2>1, <2>2, <2>3 DEF GoesOn, Attached, Reporting
  <2> QED
    BY <1>5, <2>4
<1>7. CASE CheckoutFails(r)
  <2>1. e.pc = "checkout" /\ exchange' = [exchange EXCEPT ![r] = [e EXCEPT !.pc = "window", !.then = "next"]]
    BY <1>7 DEF CheckoutFails, Becomes
  <2>2. [e EXCEPT !.pc = "window", !.then = "next"] = [e EXCEPT !.pc = "window", !.then = "next", !.sends = e.sends]
    BY <1>1 DEF Exchanges
  <2>4. GoesOn(r, "window", "next", e.sends)
    BY <1>2, <1>3, <2>1, <2>2 DEF GoesOn, Attached, Reporting
  <2> QED
    BY <1>5, <2>4
<1>8. CASE CheckoutTimesOut(r)
  <2>1. PICK to \in {"next", "end"} : exchange' = [exchange EXCEPT ![r] = [e EXCEPT !.pc = to]]
    BY <1>8 DEF CheckoutTimesOut, Becomes
  <2>2. e.pc = "checkout"
    BY <1>8 DEF CheckoutTimesOut
  <2>3. [e EXCEPT !.pc = to] = [e EXCEPT !.pc = to, !.then = e.then, !.sends = e.sends]
    BY <1>1 DEF Exchanges
  <2>4. GoesOn(r, to, e.then, e.sends)
    BY <1>2, <1>3, <2>1, <2>2, <2>3 DEF GoesOn, Attached, Reporting
  <2> QED
    BY <1>5, <2>4
<1>9. CASE SendFails(r) \/ SendTimesOut(r)
  <2>1. PICK then \in {"next", "end"} :
          /\ exchange' = [exchange EXCEPT ![r] = [e EXCEPT !.pc = "window", !.then = then]]
          /\ then = "next" => MayReplay(e.kind)
    BY <1>4, <1>9 DEF SendFails, SendTimesOut, Becomes
  <2>2. e.pc = "sent"
    BY <1>9 DEF SendFails, SendTimesOut
  <2>3. [e EXCEPT !.pc = "window", !.then = then] = [e EXCEPT !.pc = "window", !.then = then, !.sends = e.sends]
    BY <1>1 DEF Exchanges
  <2>4. GoesOn(r, "window", then, e.sends)
    BY <1>2, <1>3, <2>1, <2>2, <2>3 DEF GoesOn, Attached, Reporting
  <2> QED
    BY <1>5, <2>4
<1>10. CASE Switched(r)
  <2>1. PICK to \in {"tunnel", "end"} : exchange' = [exchange EXCEPT ![r] = [e EXCEPT !.pc = to]]
    BY <1>10 DEF Switched, Becomes
  <2>2. e.pc = "sent"
    BY <1>10 DEF Switched
  <2>3. [e EXCEPT !.pc = to] = [e EXCEPT !.pc = to, !.then = e.then, !.sends = e.sends]
    BY <1>1 DEF Exchanges
  <2>4. GoesOn(r, to, e.then, e.sends)
    BY <1>2, <1>3, <2>1, <2>2, <2>3 DEF GoesOn, Attached, Reporting
  <2> QED
    BY <1>5, <2>4
<1>11. ASSUME NEW failed \in BOOLEAN, Answered(r, failed)
       PROVE  ProxyInv'
  <2>1. PICK to \in {"window", "body"} : exchange' = [exchange EXCEPT ![r] = [e EXCEPT !.pc = to, !.then = "body"]]
    BY <1>11 DEF Answered, Becomes
  <2>2. e.pc = "sent"
    BY <1>11 DEF Answered
  <2>3. [e EXCEPT !.pc = to, !.then = "body"] = [e EXCEPT !.pc = to, !.then = "body", !.sends = e.sends]
    BY <1>1 DEF Exchanges
  <2>4. GoesOn(r, to, "body", e.sends)
    BY <1>2, <1>3, <2>1, <2>2, <2>3 DEF GoesOn, Attached, Reporting
  <2> QED
    BY <1>5, <2>4
<1> QED
  BY <1>6, <1>7, <1>8, <1>9, <1>10, <1>11

\* is_eligible clears a cooldown that is over and touches no count.
LEMMA LookedTyped ==
  ASSUME ProxyInv
  PROVE  /\ AfterLook \in [Backends -> Ends]
         /\ \A b \in Backends : AfterLook[b].inflight = backend[b].inflight /\ AfterLook[b].credit = backend[b].credit
<1> SUFFICES ASSUME NEW b \in Backends
             PROVE  /\ AfterLook[b] \in Ends
                    /\ AfterLook[b].inflight = backend[b].inflight /\ AfterLook[b].credit = backend[b].credit
  BY DEF AfterLook
<1>1. backend[b] \in Ends
  BY DEF ProxyInv, ProxyTypes
<1>2. PICK z \in Int : z = 0
  OBVIOUS
<1>3. AfterLook[b] = backend[b] \/ AfterLook[b] = [backend[b] EXCEPT !.ejected = "no", !.passive = z]
  BY <1>2 DEF AfterLook
<1>4. /\ [backend[b] EXCEPT !.ejected = "no", !.passive = z] \in Ends
      /\ [backend[b] EXCEPT !.ejected = "no", !.passive = z].inflight = backend[b].inflight
      /\ [backend[b] EXCEPT !.ejected = "no", !.passive = z].credit = backend[b].credit
  BY <1>1 DEF Ends
<1> QED
  BY <1>1, <1>3, <1>4

LEMMA PermitCounts ==
  ASSUME NEW r \in Proxied
  PROVE  /\ exchange[r].pc # "budget" => Permits(r) = Bit(CountsAsRetry(exchange[r]))
         /\ exchange[r].pc = "budget" => Bit(CountsAsRetry(exchange[r])) = 1
  BY DEF Permits, Bit, CountsAsRetry

\* An attempt that ends lets its endpoint go.
LEMMA LetsGo ==
  ASSUME ProxyInv, NEW r \in Proxied, NEW new \in Exchanges, AttemptOk(new), new.pc # "none", new.at = 0,
         exchange[r].pc \in Attached,
         exchange' = [exchange EXCEPT ![r] = new], backend' = Released(r),
         live' = live + Bit(CountsAsRetry(new)) - Bit(CountsAsRetry(exchange[r])),
         UNCHANGED <<regime, cursor>>
  PROVE  ProxyInv'
<1> DEFINE a == exchange[r].at
<1>1. exchange[r] \in Exchanges /\ a # 0 /\ a \in Backends /\ cursor' \in Nat /\ backend \in [Backends -> Ends]
  BY InProxy DEF AttemptOk, Exchanges
<1>2. backend[a].inflight - 1 \in Nat
  <2>1. r \in Holding(a)
    BY DEF Holding
  <2>2. Holding(a) \in SUBSET Started
    BY <1>1 DEF ProxyInv, Holding, Started, AttemptOk, Attached
  <2>3. IsFiniteSet(Holding(a))
    BY <2>2, FS_Subset DEF ProxyInv
  <2>4. Cardinality(Holding(a)) \in Nat /\ Cardinality(Holding(a)) # 0
    BY <2>1, <2>3, FS_CardinalityType, FS_EmptySet
  <2>5. backend[a].inflight = Cardinality(Holding(a))
    BY <1>1 DEF ProxyInv
  <2> QED
    BY <2>4, <2>5
<1>3. PICK n \in Nat : n = backend[a].inflight - 1
  BY <1>2
<1>4. backend' = [backend EXCEPT ![a] = [backend[a] EXCEPT !.inflight = n]]
  BY <1>1, <1>3 DEF Released
<1>5. /\ backend' \in [Backends -> Ends] /\ backend'[a].inflight = n /\ backend'[a].credit = backend[a].credit
      /\ \A b \in Backends \ {a} : backend'[b] = backend[b]
  <2>1. [backend[a] EXCEPT !.inflight = n] \in Ends
        /\ [backend[a] EXCEPT !.inflight = n].inflight = n
        /\ [backend[a] EXCEPT !.inflight = n].credit = backend[a].credit
    BY <1>1, <1>3 DEF Ends
  <2> HIDE DEF a
  <2> QED
    BY <1>1, <1>4, <2>1
<1>6. ASSUME NEW b \in Backends
      PROVE  backend'[b].inflight = backend[b].inflight + Bit(new.at = b) - Bit(exchange[r].at = b)
  <2>1. backend[b].inflight \in Nat /\ new.at # b
    BY <1>1, BackendIds DEF Ends
  <2> QED
    BY <1>1, <1>3, <1>5, <2>1 DEF Bit
<1>7. Credits' = Credits
  BY <1>5, SameCredits
<1> QED
  BY <1>1, <1>5, <1>6, <1>7, AttemptMoves

LEMMA EndsKeep ==
  ASSUME ProxyInv, NEW r \in Proxied, GivesUp(r) \/ Finishes(r) \/ Cancelled(r)
  PROVE  ProxyInv'
<1>1. /\ exchange[r].pc \in Attached /\ backend' = Released(r) /\ UNCHANGED <<regime, cursor>>
      /\ exchange' = [exchange EXCEPT ![r] = Done]
  BY DEF GivesUp, Finishes, Cancelled, Becomes, Attached
<1>2. live \in Int /\ exchange[r].pc # "budget"
  BY <1>1, InProxy DEF Attached
<1>3. live' = live - Permits(r)
  BY <1>2 DEF GivesUp, Finishes, Cancelled, Permits
<1>4. live' = live + Bit(CountsAsRetry(Done)) - Bit(CountsAsRetry(exchange[r]))
  BY <1>2, <1>3, PermitCounts, DoneTyped DEF Bit
<1> QED
  BY <1>1, <1>4, DoneTyped, LetsGo

LEMMA NextAttemptKeeps ==
  ASSUME ProxyInv, NEW r \in Proxied, NextAttempt(r)
  PROVE  ProxyInv'
<1> DEFINE e == exchange[r]
           new == [e EXCEPT !.pc = Again(e.kind), !.attempt = @ + 1, !.permit = FALSE,
                            !.excluded = @ \cup {e.at}, !.at = 0]
<1>1. e \in Exchanges /\ AttemptOk(e) /\ e.pc = "next" /\ live \in Int
  BY InProxy DEF NextAttempt
<1>2. e.at \in Backends /\ e.attempt + 1 \in Nat /\ e.excluded \cup {e.at} \in SUBSET Backends
  BY <1>1 DEF AttemptOk, Attached, Exchanges
<1>3. PICK n \in Nat, x \in SUBSET Backends, to \in {"select", "retry"} :
        n = e.attempt + 1 /\ x = e.excluded \cup {e.at} /\ to = Again(e.kind)
  BY <1>2 DEF Again
<1>4. new = [e EXCEPT !.pc = to, !.attempt = n, !.permit = FALSE, !.excluded = x, !.at = 0]
  BY <1>3
<1>5. exchange' = [exchange EXCEPT ![r] = new]
  BY DEF NextAttempt, Becomes
<1> HIDE DEF new
<1>6. /\ new \in Exchanges /\ new.pc = to /\ ~new.permit /\ new.at = 0 /\ new.kind = e.kind
      /\ new.sends = e.sends
  BY <1>1, <1>3, <1>4 DEF Exchanges
<1>7. AttemptOk(new) /\ ~CountsAsRetry(new)
  BY <1>1, <1>3, <1>6 DEF AttemptOk, Attached, Reporting, CountsAsRetry
<1>8. live' = live + Bit(CountsAsRetry(new)) - Bit(CountsAsRetry(e))
  <2>1. live' = live - Permits(r) /\ Permits(r) = Bit(CountsAsRetry(e))
    BY <1>1, PermitCounts DEF NextAttempt
  <2> QED
    BY <1>1, <1>7, <2>1 DEF Bit
<1>9. e.pc \in Attached /\ new.pc # "none" /\ backend' = Released(r) /\ UNCHANGED <<regime, cursor>>
  BY <1>1, <1>3, <1>6 DEF Attached, NextAttempt
<1> QED
  BY <1>5, <1>6, <1>7, <1>8, <1>9, LetsGo

LEMMA ReturnsKeeps ==
  ASSUME ProxyInv, NEW r \in Proxied, Returns(r)
  PROVE  ProxyInv'
<1> DEFINE e == exchange[r]
           new == [e EXCEPT !.permit = FALSE]
<1>1. e \in Exchanges /\ AttemptOk(e) /\ e.pc \in {"body", "tunnel"} /\ e.permit /\ live \in Int /\ cursor' \in Nat
  BY InProxy DEF Returns
<1>2. exchange' = [exchange EXCEPT ![r] = new]
  BY DEF Returns, Becomes
<1>3. /\ new \in Exchanges /\ new.pc = e.pc /\ ~new.permit /\ new.at = e.at /\ new.kind = e.kind
      /\ new.sends = e.sends /\ new.then = e.then
  BY <1>1 DEF Exchanges
<1> HIDE DEF new
<1>4. AttemptOk(new) /\ ~CountsAsRetry(new) /\ CountsAsRetry(e)
  BY <1>1, <1>3 DEF AttemptOk, Attached, Reporting, CountsAsRetry
<1>5. live' = live + Bit(CountsAsRetry(new)) - Bit(CountsAsRetry(e))
  BY <1>1, <1>4 DEF Bit, Returns
<1>6. new.pc # "none" /\ UNCHANGED <<backend, regime>>
  BY <1>1, <1>3 DEF Returns
<1> QED
  BY <1>1, <1>2, <1>3, <1>4, <1>5, <1>6, SameBackends, AttemptOnly

LEMMA BudgetTyped ==
  ASSUME ProxyInv
  PROVE  Budget \in Int
<1> DEFINE f == [b \in Backends |-> backend[b].inflight]
<1>1. \A b \in Backends : f[b] \in Int
  BY DEF ProxyInv, ProxyTypes, Ends
<1>2. SumFunctionOnSet(f, Backends) \in Int
  <2> HIDE DEF f
  <2> QED
    BY <1>1, BackendIds, SumTyped
<1>3. InFlight \in Int
  <2>1. DOMAIN f = Backends
    OBVIOUS
  <2> QED
    BY <1>2, <2>1 DEF InFlight, SumFunction
<1>4. Percent \in Int /\ RetryFloor \in Int
  BY ProxyingAssumption
<1>5. InFlight * Percent \in Int
  BY <1>3, <1>4
<1>6. (InFlight * Percent) \div 100 \in Int
  BY <1>5
<1> QED
  BY <1>4, <1>6 DEF Budget, Larger

LEMMA RetryingKeeps ==
  ASSUME ProxyInv, NEW r \in Proxied, BadBody(r) \/ TakeRetry(r) \/ RetryRefused(r) \/ NoneLeft(r)
  PROVE  ProxyInv'
<1> DEFINE e == exchange[r]
<1>0. e \in Exchanges /\ AttemptOk(e) /\ live \in Int /\ cursor \in Nat
  BY InProxy
<1>1. CASE TakeRetry(r)
  <2>1. PICK n \in Int : n = Budget
    BY BudgetTyped
  <2> DEFINE new == [e EXCEPT !.pc = "budget", !.allowed = n]
  <2>2. exchange' = [exchange EXCEPT ![r] = new] /\ e.pc = "retry" /\ live' = live + 1
    BY <1>1, <2>1 DEF TakeRetry, Becomes
  <2>3. /\ new \in Exchanges /\ new.pc = "budget" /\ new.permit = e.permit /\ new.at = e.at /\ new.kind = e.kind
        /\ new.sends = e.sends
    BY <1>0, <2>1 DEF Exchanges
  <2> HIDE DEF new
  <2>4. AttemptOk(new) /\ CountsAsRetry(new) /\ ~CountsAsRetry(e)
    BY <1>0, <2>2, <2>3 DEF AttemptOk, Attached, Reporting, CountsAsRetry
  <2>5. live' = live + Bit(CountsAsRetry(new)) - Bit(CountsAsRetry(e))
    BY <1>0, <2>2, <2>4 DEF Bit
  <2>6. new.pc # "none" /\ UNCHANGED <<backend, regime, cursor>> /\ cursor' \in Nat
    BY <1>0, <1>1, <2>3 DEF TakeRetry
  <2> QED
    BY <2>2, <2>3, <2>4, <2>5, <2>6, SameBackends, AttemptOnly
<1>2. CASE BadBody(r) \/ RetryRefused(r) \/ NoneLeft(r)
  <2>1. /\ exchange' = [exchange EXCEPT ![r] = Done] /\ e.pc \in {"payload", "budget", "select"}
        /\ regime' = regime /\ cursor' = cursor
        /\ backend' = backend \/ backend' = AfterLook
    BY <1>2 DEF BadBody, RetryRefused, NoneLeft, Becomes
  <2>2. e.at = 0
    BY <1>0, <2>1 DEF AttemptOk, Attached
  <2>3. live' = live - Bit(CountsAsRetry(e))
    <3>1. CASE BadBody(r)
      <4>1. ~CountsAsRetry(e)
        BY <1>0, <3>1 DEF BadBody, AttemptOk, Attached, CountsAsRetry
      <4> QED
        BY <1>0, <3>1, <4>1 DEF BadBody, Bit
    <3>2. CASE RetryRefused(r)
      BY <3>2, PermitCounts DEF RetryRefused
    <3>3. CASE NoneLeft(r)
      BY <3>3, PermitCounts DEF NoneLeft
    <3> QED
      BY <1>2, <3>1, <3>2, <3>3
  <2>4. live' = live + Bit(CountsAsRetry(Done)) - Bit(CountsAsRetry(e))
    BY <1>0, <2>3, DoneTyped DEF Bit
  <2>5. /\ backend' \in [Backends -> Ends]
        /\ \A b \in Backends : backend'[b].inflight = backend[b].inflight /\ backend'[b].credit = backend[b].credit
    BY <2>1, SameBackends, LookedTyped
  <2> QED
    BY <1>0, <2>1, <2>2, <2>4, <2>5, DoneTyped, AttemptOnly
<1> QED
  BY <1>1, <1>2

\* A report of a failure changes the window, the count and the ejection.
LEMMA ReportingKeeps ==
  ASSUME ProxyInv, NEW r \in Proxied, ReportWindow(r) \/ ReportCount(r) \/ ReportEject(r)
  PROVE  ProxyInv'
<1> DEFINE e == exchange[r]
           a == exchange[r].at
<1>0. /\ e \in Exchanges /\ AttemptOk(e) /\ backend \in [Backends -> Ends]
      /\ e.pc \in Reporting /\ UNCHANGED <<regime, cursor, live>>
  BY InProxy DEF ReportWindow, ReportCount, ReportEject, Reporting
<1>1. /\ a \in Backends /\ e.then \in {"next", "end", "body"} /\ e.sends \in Nat /\ e.pc \in Attached
      /\ (e.sends > 1 => MayReplay(e.kind))
      /\ (e.sends > 0 /\ e.then = "next" => MayReplay(e.kind))
  BY <1>0 DEF AttemptOk, Attached, Reporting, Exchanges
<1>2. /\ backend' \in [Backends -> Ends]
      /\ \A b \in Backends : backend'[b].inflight = backend[b].inflight /\ backend'[b].credit = backend[b].credit
  <2>1. PICK to \in Ends :
          /\ backend' = [backend EXCEPT ![a] = to]
          /\ to.inflight = backend[a].inflight /\ to.credit = backend[a].credit
    <3>0. backend[a] \in Ends /\ backend = [backend EXCEPT ![a] = backend[a]] /\ backend[a].passive + 1 \in Int
      BY <1>0, <1>1 DEF Ends
    <3>1. CASE ReportWindow(r)
      <4>1. CASE backend[a].window = "open"
        BY <3>0, <3>1, <4>1 DEF ReportWindow
      <4>2. CASE backend[a].window # "open"
        <5>0. PICK z \in Int : z = 0
          OBVIOUS
        <5>1. backend' = [backend EXCEPT ![a] = [backend[a] EXCEPT !.window = "open", !.passive = z]]
          BY <1>0, <1>1, <3>1, <4>2, <5>0 DEF ReportWindow
        <5>2. /\ [backend[a] EXCEPT !.window = "open", !.passive = z] \in Ends
              /\ [backend[a] EXCEPT !.window = "open", !.passive = z].inflight = backend[a].inflight
              /\ [backend[a] EXCEPT !.window = "open", !.passive = z].credit = backend[a].credit
          BY <3>0 DEF Ends
        <5> QED
          BY <5>1, <5>2
      <4> QED
        BY <4>1, <4>2
    <3>2. CASE ReportCount(r)
      <4>1. PICK n \in Int : n = IF backend[a].passive < MaxFails THEN backend[a].passive + 1 ELSE backend[a].passive
        BY <3>0 DEF Ends
      <4>2. backend' = [backend EXCEPT ![a] = [backend[a] EXCEPT !.passive = n]]
        BY <1>0, <1>1, <3>2, <4>1 DEF ReportCount
      <4>3. /\ [backend[a] EXCEPT !.passive = n] \in Ends
            /\ [backend[a] EXCEPT !.passive = n].inflight = backend[a].inflight
            /\ [backend[a] EXCEPT !.passive = n].credit = backend[a].credit
        BY <3>0, <4>1 DEF Ends
      <4> QED
        BY <4>2, <4>3
    <3>3. CASE ReportEject(r)
      <4>1. PICK z \in {"no", "yes", "over"} : z = IF backend[a].ejected = "no" THEN "yes" ELSE backend[a].ejected
        BY <3>0 DEF Ends
      <4>2. backend' = [backend EXCEPT ![a] = [backend[a] EXCEPT !.ejected = z]]
        BY <1>0, <1>1, <3>3, <4>1 DEF ReportEject
      <4>3. /\ [backend[a] EXCEPT !.ejected = z] \in Ends
            /\ [backend[a] EXCEPT !.ejected = z].inflight = backend[a].inflight
            /\ [backend[a] EXCEPT !.ejected = z].credit = backend[a].credit
        BY <3>0, <4>1 DEF Ends
      <4> QED
        BY <4>2, <4>3
    <3> QED
      BY <3>1, <3>2, <3>3
  <2> HIDE DEF a
  <2> QED
    BY <1>0, <1>1, <2>1
<1>3. \E pc, then : GoesOn(r, pc, then, e.sends)
  <2>1. PICK pc \in {"count", "eject", e.then}, then \in {"none", e.then} :
          /\ exchange' = [exchange EXCEPT ![r] = [e EXCEPT !.pc = pc, !.then = then]]
          /\ pc \in {"count", "eject"} => then = e.then
    <3>1. CASE ReportWindow(r)
      <4>1. [e EXCEPT !.pc = "count"] = [e EXCEPT !.pc = "count", !.then = e.then]
        BY <1>0 DEF Exchanges
      <4> QED
        BY <3>1, <4>1 DEF ReportWindow, Becomes
    <3>2. CASE ReportCount(r)
      BY <1>1, <3>2 DEF ReportCount, Becomes
    <3>3. CASE ReportEject(r)
      BY <1>1, <3>3 DEF ReportEject, Becomes
    <3> QED
      BY <3>1, <3>2, <3>3
  <2>2. [e EXCEPT !.pc = pc, !.then = then] = [e EXCEPT !.pc = pc, !.then = then, !.sends = e.sends]
    BY <1>0 DEF Exchanges
  <2>3. pc \in Attached /\ then \in {"none", "next", "end", "body"} /\ (pc \in Reporting => then = e.then)
    BY <1>1, <2>1 DEF Attached, Reporting
  <2>4. GoesOn(r, pc, then, e.sends)
    BY <1>1, <2>1, <2>2, <2>3 DEF GoesOn, Reporting
  <2> QED
    BY <2>4
<1> QED
  BY <1>0, <1>2, <1>3, WithinAttempt

-----------------------------------------------------------------------------
\* The balancer names one of the endpoints it is given.

\* A finite set has one member that comes first, by a first number and then by
\* a second that no two share.
Before(g, k, b, c) == g[b] < g[c] \/ (g[b] = g[c] /\ k[b] < k[c])

LEMMA ComesFirst ==
  ASSUME NEW S, IsFiniteSet(S), S # {}, NEW g \in [S -> Int], NEW k \in [S -> Int],
         \A b, c \in S : k[b] = k[c] => b = c
  PROVE  \E b \in S : \A c \in S \ {b} : Before(g, k, b, c)
<1> DEFINE Led(s) == \E b \in s : \A c \in s \ {b} : Before(g, k, b, c)
           B == {s \in SUBSET S : s # {} /\ ~Led(s)}
<1> SUFFICES ASSUME B # {} PROVE FALSE
  OBVIOUS
<1>1. PICK s \in B : IsFiniteSet(s) /\ \A t \in SUBSET s : t # s => t \notin B
  <2>1. B \in SUBSET (SUBSET S)
    OBVIOUS
  <2> HIDE DEF B
  <2> QED
    BY <2>1, Minimal
<1>2. s \in SUBSET S /\ s # {} /\ ~Led(s)
  BY <1>1
<1>3. PICK x \in s : TRUE
  BY <1>2
<1>4. /\ \A b, c \in S : b # c => Before(g, k, b, c) \/ Before(g, k, c, b)
      /\ \A b, c, d \in S : Before(g, k, b, c) /\ Before(g, k, c, d) => Before(g, k, b, d)
  <2>1. \A b \in S : g[b] \in Int /\ k[b] \in Int
    OBVIOUS
  <2> QED
    BY <2>1 DEF Before
<1>5. CASE s \ {x} = {}
  BY <1>2, <1>3, <1>5
<1>6. CASE s \ {x} # {}
  <2>1. Led(s \ {x})
    <3>1. s \ {x} \in SUBSET s /\ s \ {x} # s /\ s \ {x} \in SUBSET S
      BY <1>2, <1>3
    <3>2. s \ {x} \notin B
      BY <1>1, <3>1
    <3> HIDE DEF Led
    <3> QED
      BY <1>6, <3>1, <3>2
  <2>2. PICK b \in s \ {x} : \A c \in (s \ {x}) \ {b} : Before(g, k, b, c)
    BY <2>1
  <2>3. b \in S /\ x \in S /\ b # x
    BY <1>2, <2>2
  <2>4. CASE Before(g, k, b, x)
    BY <1>2, <2>2, <2>4
  <2>5. CASE Before(g, k, x, b)
    <3>1. \A c \in s \ {x} : Before(g, k, x, c)
      BY <1>2, <1>4, <2>2, <2>3, <2>5
    <3> QED
      BY <1>2, <3>1
  <2> QED
    BY <1>4, <2>3, <2>4, <2>5
<1> QED
  BY <1>5, <1>6

\* The endpoint that has n before it.
LEMMA NthNamed ==
  ASSUME NEW S \in SUBSET Backends, S # {}, NEW n \in Nat, n < Cardinality(S)
  PROVE  Nth(S, n) \in S
<1>1. IsFiniteSet(S) /\ S \subseteq Nat \ {0}
  BY BackendIds, FS_Subset
<1>2. PICK m \in S : \A c \in S : c <= m
  <2> DEFINE g == [b \in S |-> -b]
  <2>1. g \in [S -> Int] /\ \A b, c \in S : g[b] = g[c] => b = c
    BY <1>1
  <2>2. \E b \in S : \A c \in S \ {b} : Before(g, g, b, c)
    <3> HIDE DEF g
    <3> QED
      BY <1>1, <2>1, ComesFirst, Zenon
  <2> QED
    BY <1>1, <2>2 DEF Before
<1>3. m \in Nat /\ S \in SUBSET (1..m)
  BY <1>1, <1>2
<1>4. Cardinality(S) \in Nat /\ \A k \in 1..Cardinality(S) : \E i \in S : Rank(S, i) = k
  BY <1>3, Ranked
<1>5. PICK i \in S : Rank(S, i) = n + 1
  BY <1>4
<1>6. {c \in S : c <= i} = {c \in S : c < i} \cup {i} /\ i \notin {c \in S : c < i}
  <2>1. i \in Nat /\ \A c \in S : c \in Nat
    BY <1>1, <1>5
  <2>2. \A c \in S : c <= i <=> c < i \/ c = i
    BY <2>1
  <2>3. ~ (i < i)
    BY <2>1
  <2> QED
    BY <1>5, <2>2, <2>3, Zenon
<1>7. IsFiniteSet({c \in S : c < i})
  BY <1>1, FS_Subset
<1>8. /\ Cardinality({c \in S : c <= i}) = Cardinality({c \in S : c < i}) + 1
      /\ Cardinality({c \in S : c < i}) \in Nat
  BY <1>6, <1>7, FS_AddElement, FS_CardinalityType
<1>9. Cardinality({c \in S : c < i}) = n
  BY <1>5, <1>8 DEF Rank
<1> QED
  BY <1>5, <1>9 DEF Nth

LEMMA NamesOne ==
  ASSUME ProxyInv, NEW S \in SUBSET Backends, S # {}, NEW key \in Keys \cup {NoKey}
  PROVE  /\ LeastConn(S) \in S /\ First(S) \in S /\ Highest(S) \in S /\ RoundRobin(S) \in S
         /\ key # NoKey => Rendezvous(S, key) \in S
<1>1. IsFiniteSet(S) /\ S \subseteq Nat \ {0}
  BY BackendIds, ProxyingAssumption, FS_Subset
<1> DEFINE up == [b \in S |-> b]
           down == [b \in S |-> -b]
<1>2. /\ up \in [S -> Int] /\ \A b, c \in S : up[b] = up[c] => b = c
      /\ down \in [S -> Int] /\ \A b, c \in S : down[b] = down[c] => b = c
  BY <1>1
<1>3. /\ \A g \in [S -> Int] : \E b \in S : \A c \in S \ {b} : Before(g, up, b, c)
      /\ \A g \in [S -> Int] : \E b \in S : \A c \in S \ {b} : Before(g, down, b, c)
  <2> HIDE DEF up, down
  <2> QED
    BY <1>1, <1>2, ComesFirst, Zenon
<1>4. \A b \in S : /\ backend[b].inflight \in Int /\ backend[b].credit \in Int
                   /\ Weight[b] \in Int /\ Priority[b] \in Int
                   /\ \A k \in Keys : Score[k][b] \in Int
  BY ProxyingAssumption DEF ProxyInv, ProxyTypes, Ends
<1>5. LeastConn(S) \in S
  <2> DEFINE g == [b \in S |-> backend[b].inflight]
  <2>1. g \in [S -> Int]
    BY <1>4
  <2>2. PICK b \in S : \A c \in S \ {b} : Before(g, up, b, c)
    <3> HIDE DEF g, up
    <3> QED
      BY <1>3, <2>1
  <2>3. \A c \in S \ {b} : \/ backend[b].inflight < backend[c].inflight
                           \/ backend[b].inflight = backend[c].inflight /\ b < c
    BY <2>2 DEF Before
  <2> QED
    BY <2>3, Zenon DEF LeastConn, Best
<1>6. First(S) \in S
  <2> DEFINE g == [b \in S |-> Priority[b]]
  <2>1. g \in [S -> Int]
    BY <1>4
  <2>2. PICK b \in S : \A c \in S \ {b} : Before(g, up, b, c)
    <3> HIDE DEF g, up
    <3> QED
      BY <1>3, <2>1
  <2>3. \A c \in S \ {b} : Priority[b] < Priority[c] \/ (Priority[b] = Priority[c] /\ b < c)
    BY <2>2 DEF Before
  <2> QED
    BY <2>3, Zenon DEF First, Best
<1>7. Highest(S) \in S
  <2> DEFINE g == [b \in S |-> -Credited(S)[b]]
  <2>0. \A b \in S : Credited(S)[b] \in Int
    BY <1>4 DEF Credited
  <2>1. g \in [S -> Int]
    BY <2>0
  <2>2. PICK b \in S : \A c \in S \ {b} : Before(g, up, b, c)
    <3> HIDE DEF g, up
    <3> QED
      BY <1>3, <2>1
  <2>3. \A c \in S \ {b} : Credited(S)[b] > Credited(S)[c] \/ (Credited(S)[b] = Credited(S)[c] /\ b < c)
    BY <2>0, <2>2 DEF Before
  <2> QED
    BY <2>3, Zenon DEF Highest, Best
<1>8. ASSUME key # NoKey PROVE Rendezvous(S, key) \in S
  <2> DEFINE g == [b \in S |-> -Score[key][b]]
  <2>0. \A b \in S : Score[key][b] \in Int
    BY <1>4, <1>8
  <2>1. g \in [S -> Int]
    BY <2>0
  <2>2. PICK b \in S : \A c \in S \ {b} : Before(g, down, b, c)
    <3> HIDE DEF g, down
    <3> QED
      BY <1>3, <2>1
  <2>3. \A c \in S \ {b} : Score[key][b] > Score[key][c] \/ (Score[key][b] = Score[key][c] /\ b > c)
    BY <1>1, <2>0, <2>2 DEF Before
  <2> QED
    BY <2>3, Zenon DEF Rendezvous, Best
<1>9. RoundRobin(S) \in S
  <2>1. Cardinality(S) \in Nat /\ Cardinality(S) # 0
    BY <1>1, FS_CardinalityType, FS_EmptySet
  <2>2. cursor \in Nat
    BY DEF ProxyInv, ProxyTypes
  <2>3. cursor % Cardinality(S) \in Nat /\ cursor % Cardinality(S) < Cardinality(S)
    BY <2>1, <2>2
  <2> QED
    BY <2>3, NthNamed DEF RoundRobin
<1> QED
  BY <1>5, <1>6, <1>7, <1>8, <1>9

LEMMA NamedFrom ==
  ASSUME ProxyInv, NEW S \in SUBSET Backends, S # {}, NEW key \in Keys \cup {NoKey}
  PROVE  Named(S, key) \subseteq S
<1>1. Cardinality(S) \in Nat /\ Cardinality(S) # 0
  BY BackendIds, FS_Subset, FS_CardinalityType, FS_EmptySet
<1>2. regime.balance \in {"round-robin", "weighted-round-robin", "random", "two-random-choices",
                          "least-conn", "first", "hash"}
  BY ProxyingAssumption DEF ProxyInv, ProxyTypes, Policy
<1>3. CASE Cardinality(S) = 1
  BY <1>3 DEF Named
<1>4. CASE Cardinality(S) > 1
  <2>1. Cardinality(S) # 1
    BY <1>1, <1>4
  <2> QED
    BY <1>2, <1>4, <2>1, NamesOne DEF Named
<1> QED
  BY <1>1, <1>3, <1>4

-----------------------------------------------------------------------------
\* What a choice pays and what it credits is the same.
LEMMA PaysWhatItCredits ==
  ASSUME ProxyInv, NEW S \in SUBSET Backends, S # {},
         \A b \in Backends : backend'[b].credit = IF b \in S THEN Paid(S)[b] ELSE backend[b].credit
  PROVE  Credits' = Credits
<1> DEFINE c == [b \in Backends |-> backend[b].credit]
           w == [b \in S |-> Weight[b]]
           up == Credited(S)
           p == Paid(S)
           n == [b \in Backends |-> backend'[b].credit]
           h == Highest(S)
           R == Backends \ S
<1>1. IsFiniteSet(S) /\ IsFiniteSet(R) /\ IsFiniteSet(S \ {h}) /\ S \cap R = {} /\ S \cup R = Backends
  BY BackendIds, FS_Subset
<1>2. /\ \A b \in Backends : c[b] \in Int
      /\ \A b \in S : Weight[b] \in Int
  BY ProxyingAssumption DEF ProxyInv, ProxyTypes, Ends
<1>3. \A b \in S : up[b] = c[b] + Weight[b] /\ up[b] \in Int
  BY <1>2 DEF Credited
<1>4. SumFunctionOnSet(up, S) = SumFunctionOnSet(c, S) + SumFunctionOnSet(Weight, S)
  <2> HIDE DEF c, up
  <2>1. \A b \in S : c[b] \in Int /\ Weight[b] \in Int /\ up[b] = c[b] + Weight[b]
    BY <1>2, <1>3
  <2> QED
    BY <1>1, <2>1, SumPlus
<1>5. h \in S
  <2>1. NoKey \in Keys \cup {NoKey}
    OBVIOUS
  <2> QED
    BY <2>1, NamesOne
<1>6. Total(S) \in Int /\ SumFunctionOnSet(c, S) \in Int /\ SumFunctionOnSet(c, R) \in Int
  <2> HIDE DEF c
  <2> QED
    BY <1>1, <1>2, SumTyped DEF Total
<1>7. p[h] = up[h] - Total(S) /\ \A b \in S \ {h} : p[b] = up[b]
  BY <1>5 DEF Paid
<1>8. \A b \in S : p[b] \in Int
  <2> HIDE DEF p, up, h
  <2>1. up[h] \in Int /\ Total(S) \in Int /\ p[h] = up[h] - Total(S)
    BY <1>3, <1>5, <1>6, <1>7
  <2>2. p[h] \in Int
    BY <2>1
  <2> QED
    BY <1>3, <1>7, <2>2
<1>9. SumFunctionOnSet(p, S) = SumFunctionOnSet(c, S)
  <2> HIDE DEF p, up, h, c
  <2>1. SumFunctionOnSet(p, S) = SumFunctionOnSet(p, S \ {h}) + p[h]
    BY <1>1, <1>5, <1>8, SumTakes
  <2>2. SumFunctionOnSet(up, S) = SumFunctionOnSet(up, S \ {h}) + up[h]
    BY <1>1, <1>3, <1>5, SumTakes
  <2>3. SumFunctionOnSet(p, S \ {h}) = SumFunctionOnSet(up, S \ {h})
    BY <1>1, <1>7, SumSame
  <2>4. SumFunctionOnSet(up, S \ {h}) \in Int /\ up[h] \in Int
    BY <1>1, <1>3, <1>5, SumTyped
  <2>5. SumFunctionOnSet(Weight, S) = Total(S)
    BY DEF Total
  <2> QED
    BY <1>4, <1>6, <1>7, <2>1, <2>2, <2>3, <2>4, <2>5
<1>10. (\A b \in S : n[b] = p[b]) /\ (\A b \in R : n[b] = c[b]) /\ \A b \in Backends : n[b] \in Int
  BY <1>2, <1>8
<1>11. SumFunctionOnSet(n, Backends) = SumFunctionOnSet(c, Backends)
  <2> HIDE DEF n, c, p, R
  <2>1. SumFunctionOnSet(n, S \cup R) = SumFunctionOnSet(n, S) + SumFunctionOnSet(n, R)
    BY <1>1, <1>10, SumApart
  <2>2. SumFunctionOnSet(c, S \cup R) = SumFunctionOnSet(c, S) + SumFunctionOnSet(c, R)
    BY <1>1, <1>2, SumApart
  <2>3. SumFunctionOnSet(n, S) = SumFunctionOnSet(p, S)
    BY <1>1, <1>10, SumSame
  <2>4. SumFunctionOnSet(n, R) = SumFunctionOnSet(c, R)
    BY <1>1, <1>10, SumSame
  <2> QED
    BY <1>1, <1>9, <2>1, <2>2, <2>3, <2>4
<1>12. DOMAIN n = Backends /\ DOMAIN c = Backends
  OBVIOUS
<1> QED
  BY <1>11, <1>12 DEF Credits, SumFunction

LEMMA PaidTyped ==
  ASSUME ProxyInv, NEW S \in SUBSET Backends, S # {}
  PROVE  \A b \in S : Paid(S)[b] \in Int
<1>1. IsFiniteSet(S)
  BY BackendIds, FS_Subset
<1>2. \A b \in S : backend[b].credit \in Int /\ Weight[b] \in Int
  BY ProxyingAssumption DEF ProxyInv, ProxyTypes, Ends
<1>3. \A b \in S : Credited(S)[b] \in Int
  BY <1>2 DEF Credited
<1>4. Total(S) \in Int
  BY <1>1, <1>2, SumTyped DEF Total
<1>5. \A b \in S : Credited(S)[b] - Total(S) \in Int
  BY <1>3, <1>4
<1> QED
  BY <1>3, <1>5 DEF Paid

\* The chosen endpoint is held by one more request.
LEMMA ClaimedTyped ==
  ASSUME ProxyInv, NEW S \in SUBSET Backends, S # {}, NEW b \in S
  PROVE  /\ Claimed(S, b) \in [Backends -> Ends]
         /\ \A e \in Backends :
              /\ Claimed(S, b)[e].inflight = backend[e].inflight + Bit(e = b)
              /\ Claimed(S, b)[e].credit
                 = IF Cardinality(S) > 1 /\ regime.balance = "weighted-round-robin" /\ e \in S
                   THEN Paid(S)[e] ELSE backend[e].credit
<1> DEFINE weighted(e) == Cardinality(S) > 1 /\ regime.balance = "weighted-round-robin" /\ e \in S
<1> SUFFICES ASSUME NEW e \in Backends
             PROVE  /\ Claimed(S, b)[e] \in Ends
                    /\ Claimed(S, b)[e].inflight = backend[e].inflight + Bit(e = b)
                    /\ Claimed(S, b)[e].credit = IF weighted(e) THEN Paid(S)[e] ELSE backend[e].credit
  BY DEF Claimed
<1>1. /\ AfterLook[e] \in Ends /\ AfterLook[e].inflight = backend[e].inflight
      /\ AfterLook[e].credit = backend[e].credit /\ backend[e].inflight \in Nat /\ backend[e].credit \in Int
  BY LookedTyped DEF ProxyInv, ProxyTypes, Ends
<1>2. PICK q \in Int : q = IF weighted(e) THEN Paid(S)[e] ELSE backend[e].credit
  BY <1>1, PaidTyped
<1>3. PICK n \in Nat : n = backend[e].inflight + Bit(e = b)
  BY <1>1 DEF Bit
<1> DEFINE paid == IF weighted(e) THEN [AfterLook[e] EXCEPT !.credit = Paid(S)[e]] ELSE AfterLook[e]
<1>4. paid = [AfterLook[e] EXCEPT !.credit = q]
  <2>1. CASE weighted(e)
    BY <1>2, <2>1
  <2>2. CASE ~weighted(e)
    <3>1. AfterLook[e] = [AfterLook[e] EXCEPT !.credit = AfterLook[e].credit]
      BY <1>1 DEF Ends
    <3> QED
      BY <1>1, <1>2, <2>2, <3>1
  <2> QED
    BY <2>1, <2>2
<1>5. paid \in Ends /\ paid.credit = q /\ paid.inflight = backend[e].inflight
  BY <1>1, <1>2, <1>4 DEF Ends
<1>6. Claimed(S, b)[e] = IF e = b THEN [paid EXCEPT !.inflight = @ + 1] ELSE paid
  BY DEF Claimed
<1> HIDE DEF paid
<1>7. Claimed(S, b)[e] = [paid EXCEPT !.inflight = n]
  <2>1. CASE e = b
    <3>1. n = paid.inflight + 1
      BY <1>1, <1>3, <1>5, <2>1 DEF Bit
    <3> QED
      BY <1>6, <2>1, <3>1
  <2>2. CASE e # b
    <3>1. n = paid.inflight
      BY <1>1, <1>3, <1>5, <2>2 DEF Bit
    <3>2. paid = [paid EXCEPT !.inflight = paid.inflight]
      BY <1>5 DEF Ends
    <3> QED
      BY <1>6, <2>2, <3>1, <3>2
  <2> QED
    BY <2>1, <2>2
<1>8. [paid EXCEPT !.inflight = n] \in Ends /\ [paid EXCEPT !.inflight = n].inflight = n
      /\ [paid EXCEPT !.inflight = n].credit = paid.credit
  BY <1>3, <1>5 DEF Ends
<1> HIDE DEF weighted
<1> QED
  BY <1>2, <1>3, <1>5, <1>7, <1>8

LEMMA SelectKeeps ==
  ASSUME ProxyInv, NEW r \in Proxied, Select(r)
  PROVE  ProxyInv'
<1> DEFINE e == exchange[r]
           S == Candidates(r)
<1>1. e \in Exchanges /\ AttemptOk(e) /\ e.pc = "select" /\ live \in Int /\ cursor \in Nat
  BY InProxy DEF Select
<1>2. S \in SUBSET Backends /\ S # {} /\ e.key \in Keys \cup {NoKey} /\ regime' = regime /\ live' = live
  BY <1>1 DEF Select, Candidates, Exchanges
<1>3. PICK b \in Named(S, e.key) :
        /\ backend' = Claimed(S, b) /\ cursor' = MovedCursor(S, e.key)
        /\ exchange' = [exchange EXCEPT ![r] = [e EXCEPT !.pc = "checkout", !.at = b]]
  BY DEF Select, SelectEndpoint, Becomes
<1> HIDE DEF S
<1>4. b \in S /\ b \in Backends /\ b # 0
  BY <1>2, <1>3, NamedFrom, BackendIds
<1> DEFINE new == [e EXCEPT !.pc = "checkout", !.at = b]
<1>5. /\ new \in Exchanges /\ new.pc = "checkout" /\ new.at = b /\ new.permit = e.permit /\ new.kind = e.kind
      /\ new.sends = e.sends
  BY <1>1, <1>4 DEF Exchanges, Attached
<1> HIDE DEF new
<1>6. AttemptOk(new) /\ (CountsAsRetry(new) <=> CountsAsRetry(e)) /\ e.at = 0
  BY <1>1, <1>4, <1>5 DEF AttemptOk, Attached, Reporting, CountsAsRetry
<1>7. /\ backend' \in [Backends -> Ends]
      /\ \A x \in Backends :
           /\ backend'[x].inflight = backend[x].inflight + Bit(x = b)
           /\ backend'[x].credit
              = IF Cardinality(S) > 1 /\ regime.balance = "weighted-round-robin" /\ x \in S
                THEN Paid(S)[x] ELSE backend[x].credit
  <2>1. /\ Claimed(S, b) \in [Backends -> Ends]
        /\ \A x \in Backends :
             /\ Claimed(S, b)[x].inflight = backend[x].inflight + Bit(x = b)
             /\ Claimed(S, b)[x].credit
                = IF Cardinality(S) > 1 /\ regime.balance = "weighted-round-robin" /\ x \in S
                  THEN Paid(S)[x] ELSE backend[x].credit
    BY <1>2, <1>4, ClaimedTyped, Zenon
  <2> QED
    BY <1>3, <2>1, Zenon
<1>8. Credits' = Credits
  <2>1. CASE Cardinality(S) > 1 /\ regime.balance = "weighted-round-robin"
    <3>1. \A x \in Backends : backend'[x].credit = IF x \in S THEN Paid(S)[x] ELSE backend[x].credit
      BY <1>7, <2>1
    <3> QED
      BY <1>2, <3>1, PaysWhatItCredits
  <2>2. CASE ~(Cardinality(S) > 1 /\ regime.balance = "weighted-round-robin")
    <3>1. \A x \in Backends : backend'[x].credit = backend[x].credit
      BY <1>7, <2>2
    <3> QED
      BY <3>1, SameCredits
  <2> QED
    BY <2>1, <2>2
<1>9. \A x \in Backends : backend'[x].inflight = backend[x].inflight + Bit(new.at = x) - Bit(e.at = x)
  <2>1. ASSUME NEW x \in Backends
        PROVE  backend'[x].inflight = backend[x].inflight + Bit(new.at = x) - Bit(e.at = x)
    <3>1. backend[x].inflight \in Nat /\ x # 0
      BY BackendIds DEF ProxyInv, ProxyTypes, Ends
    <3>2. backend'[x].inflight = backend[x].inflight + Bit(x = b)
      BY <1>7
    <3>3. Bit(new.at = x) = Bit(x = b) /\ Bit(e.at = x) = 0 /\ Bit(x = b) \in Int
      BY <1>5, <1>6, <3>1 DEF Bit
    <3> QED
      BY <3>1, <3>2, <3>3
  <2> QED
    BY <2>1
<1>10. live' = live + Bit(CountsAsRetry(new)) - Bit(CountsAsRetry(e))
  BY <1>1, <1>2, <1>6 DEF Bit
<1>11. cursor' \in Nat
  <2>1. (cursor + 1) % CursorSpan \in Nat
    BY <1>1, ProxyingAssumption
  <2> QED
    BY <1>1, <1>3, <2>1 DEF MovedCursor
<1>12. exchange' = [exchange EXCEPT ![r] = new] /\ new.pc # "none"
  BY <1>3, <1>5 DEF new
<1> QED
  BY <1>2, <1>5, <1>6, <1>7, <1>8, <1>9, <1>10, <1>11, <1>12, AttemptMoves

-----------------------------------------------------------------------------
\* Probes, drains and time change what is said of an endpoint and count nothing.
LEMMA HealthKeeps ==
  ASSUME ProxyInv, NEW b \in Backends,
         Probe(b) \/ DrainEndpoint(b) \/ Undrain(b) \/ WindowPasses(b) \/ CooldownPasses(b)
  PROVE  ProxyInv'
<1>0. backend \in [Backends -> Ends] /\ backend[b] \in Ends /\ UNCHANGED <<regime, cursor, exchange, live>>
  BY DEF ProxyInv, ProxyTypes, Probe, DrainEndpoint, Undrain, WindowPasses, CooldownPasses
<1> DEFINE e == backend[b]
           Kept(to) == to.inflight = e.inflight /\ to.credit = e.credit
<1>1. PICK new \in Ends : backend' = [backend EXCEPT ![b] = new] /\ Kept(new)
  <2>0. /\ e.health \in {"healthy", "unknown", "unhealthy", "draining"} /\ e.ok \in Int /\ e.fail \in Int
        /\ e.passive \in Int /\ e.window \in {"none", "open"} /\ e.ejected \in {"no", "yes", "over"}
        /\ e.ok + 1 \in Int /\ e.fail + 1 \in Int /\ 0 \in Int
    BY <1>0 DEF Ends
  <2>1. CASE Probe(b)
    <3>1. ProbeOk(b) \in Ends /\ Kept(ProbeOk(b))
      <4>1. PICK h \in {"healthy", "unknown", "unhealthy", "draining"}, o \in Int, p \in Int, j \in {"no", "yes", "over"}, z \in Int :
              /\ h = IF e.ok + 1 >= Healthy THEN "healthy" ELSE e.health
              /\ o = IF e.ok < Healthy THEN e.ok + 1 ELSE e.ok
              /\ p = IF e.ok + 1 >= Healthy THEN 0 ELSE e.passive
              /\ j = IF e.ok + 1 >= Healthy THEN "no" ELSE e.ejected
              /\ z = 0
        BY <2>0
      <4>2. ProbeOk(b) = [e EXCEPT !.health = h, !.ok = o, !.fail = z, !.passive = p, !.ejected = j]
        BY <1>0, <4>1 DEF ProbeOk, Ends
      <4>3. /\ [e EXCEPT !.health = h, !.ok = o, !.fail = z, !.passive = p, !.ejected = j] \in Ends
            /\ Kept([e EXCEPT !.health = h, !.ok = o, !.fail = z, !.passive = p, !.ejected = j])
        BY <1>0 DEF Ends
      <4> QED
        BY <4>2, <4>3
    <3>2. ProbeFails(b) \in Ends /\ Kept(ProbeFails(b))
      <4>1. PICK h \in {"healthy", "unknown", "unhealthy", "draining"}, f \in Int, z \in Int :
              /\ h = IF e.fail + 1 >= Unhealthy THEN "unhealthy" ELSE e.health
              /\ f = IF e.fail < Unhealthy THEN e.fail + 1 ELSE e.fail
              /\ z = 0
        BY <2>0
      <4>2. ProbeFails(b) = [e EXCEPT !.health = h, !.ok = z, !.fail = f]
        BY <1>0, <4>1 DEF ProbeFails, Ends
      <4>3. /\ [e EXCEPT !.health = h, !.ok = z, !.fail = f] \in Ends
            /\ Kept([e EXCEPT !.health = h, !.ok = z, !.fail = f])
        BY <1>0 DEF Ends
      <4> QED
        BY <4>2, <4>3
    <3>3. backend' = [backend EXCEPT ![b] = ProbeOk(b)] \/ backend' = [backend EXCEPT ![b] = ProbeFails(b)]
      BY <2>1 DEF Probe
    <3> HIDE DEF Kept
    <3> QED
      BY <3>1, <3>2, <3>3
  <2>2. CASE DrainEndpoint(b)
    <3>1. backend' = [backend EXCEPT ![b] = [e EXCEPT !.health = "draining"]]
      BY <1>0, <2>2 DEF DrainEndpoint
    <3>2. [e EXCEPT !.health = "draining"] \in Ends /\ Kept([e EXCEPT !.health = "draining"])
      BY <1>0 DEF Ends
    <3> QED
      BY <3>1, <3>2
  <2>3. CASE Undrain(b)
    <3>0. PICK h \in {"healthy", "unknown"}, z \in Int : h = NewBackend.health /\ z = 0
      BY DEF NewBackend
    <3>1. backend' = [backend EXCEPT ![b] = [e EXCEPT !.health = h, !.ok = z, !.fail = z]]
      BY <1>0, <2>3, <3>0 DEF Undrain
    <3>2. [e EXCEPT !.health = h, !.ok = z, !.fail = z] \in Ends /\ Kept([e EXCEPT !.health = h, !.ok = z, !.fail = z])
      BY <1>0, <3>0 DEF Ends
    <3> QED
      BY <3>1, <3>2
  <2>4. CASE WindowPasses(b)
    <3>1. backend' = [backend EXCEPT ![b] = [e EXCEPT !.window = "none"]]
      BY <1>0, <2>4 DEF WindowPasses
    <3>2. [e EXCEPT !.window = "none"] \in Ends /\ Kept([e EXCEPT !.window = "none"])
      BY <1>0 DEF Ends
    <3> QED
      BY <3>1, <3>2
  <2>5. CASE CooldownPasses(b)
    <3>1. backend' = [backend EXCEPT ![b] = [e EXCEPT !.ejected = "over"]]
      BY <1>0, <2>5 DEF CooldownPasses
    <3>2. [e EXCEPT !.ejected = "over"] \in Ends /\ Kept([e EXCEPT !.ejected = "over"])
      BY <1>0 DEF Ends
    <3> QED
      BY <3>1, <3>2
  <2> QED
    BY <2>1, <2>2, <2>3, <2>4, <2>5
<1>4. /\ backend' \in [Backends -> Ends]
      /\ \A x \in Backends : backend'[x].inflight = backend[x].inflight /\ backend'[x].credit = backend[x].credit
  BY <1>0, <1>1
<1>5. Credits' = Credits
  BY <1>4, SameCredits
<1>6. Started' = Started /\ Retries' = Retries /\ \A x \in Backends : Holding(x)' = Holding(x)
  BY <1>0 DEF Started, Retries, Holding
<1> QED
  BY <1>0, <1>4, <1>5, <1>6 DEF ProxyInv, ProxyTypes

LEMMA ProxyInitInv == ProxyInit => ProxyInv
<1> SUFFICES ASSUME ProxyInit PROVE ProxyInv
  OBVIOUS
<1>1. \A r \in Proxied : exchange[r] = NoExchange
  BY DEF ProxyInit
<1>2. NewBackend \in Ends /\ NewBackend.inflight = 0 /\ NewBackend.credit = 0
  BY DEF NewBackend, Ends
<1>3. ProxyTypes
  BY <1>2, DoneTyped DEF ProxyInit, ProxyTypes
<1>4. \A r \in Proxied : AttemptOk(exchange[r])
  BY <1>1, DoneTyped DEF AttemptOk, Attached, Reporting
<1>5. Started = {} /\ Retries = {} /\ \A b \in Backends : Holding(b) = {}
  BY <1>1, DoneTyped, BackendIds DEF Started, Retries, CountsAsRetry, Holding
<1>6. IsFiniteSet(Started) /\ live = Cardinality(Retries)
  BY <1>5, FS_EmptySet DEF ProxyInit
<1>7. \A b \in Backends : backend[b] = NewBackend
  BY DEF ProxyInit
<1>8. \A b \in Backends : backend[b].inflight = Cardinality(Holding(b))
  BY <1>2, <1>5, <1>7, FS_EmptySet
<1>9. Credits = 0
  <2> DEFINE f == [b \in Backends |-> backend[b].credit]
  <2>1. (\A b \in Backends : f[b] = 0) /\ DOMAIN f = Backends
    BY <1>2, <1>7
  <2>2. SumFunctionOnSet(f, Backends) = 0
    <3> HIDE DEF f
    <3> QED
      BY <2>1, BackendIds, SumZero
  <2> QED
    BY <2>1, <2>2 DEF Credits, SumFunction
<1> QED
  BY <1>3, <1>4, <1>6, <1>8, <1>9 DEF ProxyInv

LEMMA ProxyStepInv == ProxyInv /\ [ProxyNext]_proxyVars => ProxyInv'
<1> SUFFICES ASSUME ProxyInv, [ProxyNext]_proxyVars PROVE ProxyInv'
  OBVIOUS
<1>1. CASE UNCHANGED proxyVars
  BY <1>1 DEF proxyVars, ProxyInv, ProxyTypes, Started, Retries, Holding, Credits
<1>2. ASSUME NEW r \in regime.requests, NEW k \in regime.kinds, NEW key \in KeysFound, Arrive(r, k, key)
      PROVE  ProxyInv'
  <2>1. r \in Proxied /\ k \in Kind /\ key \in Keys \cup {NoKey}
    BY ProxyingAssumption DEF ProxyInv, ProxyTypes, Policy, KeysFound
  <2> QED
    BY <1>2, <2>1, ArriveKeeps
<1>3. ASSUME NEW r \in regime.requests, ProxyStep(r) \/ Cancelled(r)
      PROVE  ProxyInv'
  <2>1. r \in Proxied
    BY ProxyingAssumption DEF ProxyInv, ProxyTypes, Policy
  <2> QED
    BY <1>3, <2>1, PreparedKeeps, RetryingKeeps, GrantedKeeps, SelectKeeps, SendingKeeps, ReportingKeeps,
       NextAttemptKeeps, EndsKeep, ReturnsKeeps
    DEF ProxyStep
<1>4. ASSUME NEW b \in Backends,
             Probe(b) \/ DrainEndpoint(b) \/ Undrain(b) \/ WindowPasses(b) \/ CooldownPasses(b)
      PROVE  ProxyInv'
  BY <1>4, HealthKeeps
<1> QED
  BY <1>1, <1>2, <1>3, <1>4 DEF ProxyNext

\* ProxySound holds.
THEOREM AttemptsAccounted == ProxySpec => []ProxySound
<1>1. ProxyInv => ProxySound
  BY DEF ProxyInv, ProxySound, ProxyAccounts, SentAgainOnlyIfReplayable, AttemptOk, Retries, CountsAsRetry, Credits,
         MayReplay, Retrying
<1> QED
  BY <1>1, ProxyInitInv, ProxyStepInv, PTL DEF ProxySpec

\* Only RetryGranted gives a permit.
LEMMA PermitGiven ==
  ASSUME ProxyInv, [ProxyNext]_proxyVars, NEW r \in Proxied, ~exchange[r].permit, exchange'[r].permit
  PROVE  RetryGranted(r)
<1>0. exchange \in [Proxied -> Exchanges] /\ ~Done.permit /\ ~NoExchange.permit
  BY DoneTyped DEF ProxyInv, ProxyTypes, CountsAsRetry
<1>1. exchange' # exchange
  OBVIOUS
<1>2. ~\E b \in Backends : Probe(b) \/ DrainEndpoint(b) \/ Undrain(b) \/ WindowPasses(b) \/ CooldownPasses(b)
  BY <1>1 DEF Probe, DrainEndpoint, Undrain, WindowPasses, CooldownPasses
<1>3. ASSUME NEW q \in regime.requests, NEW k \in regime.kinds, NEW key \in KeysFound, Arrive(q, k, key)
      PROVE  FALSE
  <2> DEFINE new == [NoExchange EXCEPT !.pc = "payload", !.kind = k, !.key = key]
  <2>1. ~new.permit
    BY <1>0 DEF NoExchange
  <2>2. exchange' = [exchange EXCEPT ![q] = new]
    BY <1>3 DEF Arrive, Becomes
  <2> HIDE DEF new
  <2> QED
    BY <1>0, <2>1, <2>2
<1>4. PICK q \in regime.requests : ProxyStep(q) \/ Cancelled(q)
  BY <1>1, <1>2, <1>3 DEF ProxyNext, proxyVars
<1>5. q \in Proxied
  BY ProxyingAssumption DEF ProxyInv, ProxyTypes, Policy
<1> DEFINE e == exchange[q]
<1>6. ASSUME ~RetryGranted(q), NEW new, exchange' = [exchange EXCEPT ![q] = new], new.permit => e.permit
      PROVE  FALSE
  BY <1>0, <1>6
<1>7. e \in Exchanges
  BY <1>0, <1>5
<1>8. RetryGranted(q)
  <2> SUFFICES ASSUME ~RetryGranted(q) PROVE FALSE
    OBVIOUS
  <2>1. CASE BadBody(q) \/ RetryRefused(q) \/ NoneLeft(q) \/ GivesUp(q) \/ Finishes(q) \/ Cancelled(q)
    BY <1>0, <1>6, <2>1 DEF BadBody, RetryRefused, NoneLeft, GivesUp, Finishes, Cancelled, Becomes
  <2>2. CASE Prepared(q)
    BY <1>6, <1>7, <2>2 DEF Prepared, Becomes, Exchanges
  <2>3. CASE TakeRetry(q)
    BY <1>6, <1>7, <2>3 DEF TakeRetry, Becomes, Exchanges
  <2>4. CASE Select(q)
    BY <1>6, <1>7, <2>4 DEF Select, SelectEndpoint, Becomes, Exchanges
  <2>5. CASE CheckedOut(q) \/ CheckoutFails(q) \/ CheckoutTimesOut(q)
    BY <1>6, <1>7, <2>5 DEF CheckedOut, CheckoutFails, CheckoutTimesOut, Becomes, Exchanges
  <2>6. CASE SendFails(q) \/ SendTimesOut(q) \/ Switched(q) \/ \E failed \in BOOLEAN : Answered(q, failed)
    BY <1>6, <1>7, <2>6 DEF SendFails, SendTimesOut, Switched, Answered, Becomes, Exchanges
  <2>7. CASE ReportWindow(q) \/ ReportCount(q) \/ ReportEject(q)
    BY <1>6, <1>7, <2>7 DEF ReportWindow, ReportCount, ReportEject, Becomes, Exchanges
  <2>8. CASE NextAttempt(q)
    BY <1>6, <1>7, <2>8 DEF NextAttempt, Becomes, Exchanges
  <2>9. CASE Returns(q)
    BY <1>6, <1>7, <2>9 DEF Returns, Becomes, Exchanges
  <2> QED
    BY <1>4, <2>1, <2>2, <2>3, <2>4, <2>5, <2>6, <2>7, <2>8, <2>9 DEF ProxyStep
<1>9. q = r
  BY <1>0, <1>5, <1>8 DEF RetryGranted, Becomes
<1> QED
  BY <1>8, <1>9

THEOREM RetriesBudgeted == ProxySpec => RetriesWithinBudget
<1>1. ASSUME ProxyInv, ProxyInv', [ProxyNext]_proxyVars, NEW r \in Proxied, ~exchange[r].permit, exchange'[r].permit
      PROVE  Cardinality({s \in Proxied : exchange'[s].permit}) <= exchange[r].allowed
  <2>1. RetryGranted(r)
    BY <1>1, PermitGiven
  <2>2. live' = live /\ live <= exchange[r].allowed
    BY <2>1 DEF RetryGranted, MayRetry
  <2>3. live' = Cardinality(Retries') /\ IsFiniteSet(Started') /\ exchange[r].allowed \in Int
    BY <1>1 DEF ProxyInv, ProxyTypes, Exchanges
  <2>4. /\ Retries' \subseteq Started'
        /\ {s \in Proxied : exchange'[s].permit} \subseteq Retries'
    BY <1>1 DEF ProxyInv, ProxyTypes, Retries, Started, CountsAsRetry, AttemptOk, Attached
  <2>5. IsFiniteSet(Retries') /\ Cardinality(Retries') \in Nat
    BY <2>3, <2>4, FS_Subset, FS_CardinalityType
  <2>6. /\ Cardinality({s \in Proxied : exchange'[s].permit}) <= Cardinality(Retries')
        /\ IsFiniteSet({s \in Proxied : exchange'[s].permit})
    BY <2>4, <2>5, FS_Subset
  <2>7. Cardinality({s \in Proxied : exchange'[s].permit}) \in Nat
    BY <2>6, FS_CardinalityType
  <2> QED
    BY <2>2, <2>3, <2>5, <2>6, <2>7
<1>2. ProxyInv /\ ProxyInv' /\ [ProxyNext]_proxyVars =>
        [\A r \in Proxied :
           ~exchange[r].permit /\ exchange'[r].permit =>
             Cardinality({s \in Proxied : exchange'[s].permit}) <= exchange[r].allowed]_proxyVars
  BY <1>1
<1> QED
  BY <1>2, ProxyInitInv, ProxyStepInv, PTL DEF ProxySpec, RetriesWithinBudget

-----------------------------------------------------------------------------
(* Pool.  The inductive invariant says besides the property: the queue     *)
(* holds exactly the callers that wait in it, each once; a pool in debt    *)
(* has no idle connection (which is why a permit may be destroyed on its   *)
(* return without a socket going over the bound); and the addresses of     *)
(* idle connections stay live while an answer is recorded but not yet      *)
(* applied.                                                                *)

Addresses == (UNION PoolAnswers) \cup {"none", "any"}
Conns == [at : Addresses, fit : BOOLEAN]
PCs == {"away", "queued", "granted", "pick", "dialing", "leased", "parked"}
Places == [pc : PCs, conn : Conns, order : SUBSET Addresses]
Borrowers == [PoolCallers -> Places]
PoolSlots == [made : {TRUE}, config : PoolConfigs, allocated : Nat, free : Nat,
          queue : Seq(PoolCallers), closed : BOOLEAN, idle : Seq(Conns),
          live : SUBSET Addresses, waiting : Nat]

Gr == {"granted"}
Wait == {"queued", "granted"}
Use == {"dialing", "leased"}
Hold == {"pick", "dialing", "leased", "parked"}
InPool == PCs \ {"away"}

At(b, S) == {c \in PoolCallers : b[c].pc \in S}
Num(b, S) == Cardinality(At(b, S))

Typed(s, b) == s \in PoolSlots /\ b \in Borrowers /\ IsFiniteSet(At(b, InPool))
QueueOK(s, b) ==
  /\ \A i, j \in DOMAIN s.queue : s.queue[i] = s.queue[j] => i = j
  /\ \A c \in PoolCallers : b[c].pc = "queued" <=> \E i \in DOMAIN s.queue : s.queue[i] = c
  /\ s.free > 0 => s.queue = <<>>
CountsOK(s, b) ==
  /\ s.free + Num(b, Hold) + Num(b, Gr) = s.allocated
  /\ s.allocated >= s.config.max
  /\ Len(s.idle) + Num(b, Use) <= s.allocated
  /\ Len(s.idle) <= s.config.idle
  /\ s.waiting = Num(b, Wait)
  /\ s.allocated > s.config.max => s.idle = <<>>
Sound(s, b) == Typed(s, b) /\ QueueOK(s, b) /\ CountsOK(s, b)

IInv ==
  /\ slot.made \in BOOLEAN
  /\ slot.made => Sound(slot, borrower)
  /\ ~slot.made => slot = Unmade /\ borrower \in Borrowers /\ At(borrower, InPool) = {}
  /\ policy \in PoolConfigs
  /\ held \in SUBSET Addresses
  /\ owner \in {"none", "record", "retire", "drain", "gone"}
  /\ owner \in {"retire", "drain", "gone"} => slot.made
  /\ owner \in {"drain", "gone"} => slot.closed
  /\ owner = "gone" => slot.idle = <<>>
  /\ slot.made /\ owner \in {"none", "record"} /\ slot.live # Anywhere =>
       \A i \in DOMAIN slot.idle : slot.idle[i].at \in slot.live

-----------------------------------------------------------------------------
(* Counting callers.                                                       *)

LEMMA ConfigTyped == \A c \in PoolConfigs : c.max \in Nat \ {0} /\ c.idle \in Nat /\ c.waiters \in Nat
  BY PoolAssumption

LEMMA Counted ==
  ASSUME NEW b, IsFiniteSet(At(b, InPool)), NEW S \in SUBSET InPool
  PROVE  IsFiniteSet(At(b, S)) /\ Num(b, S) \in Nat
  <1>1. At(b, S) \in SUBSET At(b, InPool)
    BY DEF At
  <1>2. IsFiniteSet(At(b, S))
    BY <1>1, FS_Subset
  <1> QED  BY <1>2, FS_CardinalityType DEF Num

LEMMA Kinds == Gr \in SUBSET InPool /\ Wait \in SUBSET InPool /\ Use \in SUBSET InPool /\ Hold \in SUBSET InPool
  BY DEF Gr, Wait, Use, Hold, InPool, PCs

\* A caller that moves is one less where it was and one more where it is.
LEMMA Moved ==
  ASSUME NEW b \in Borrowers, IsFiniteSet(At(b, InPool)), NEW c \in PoolCallers, NEW r \in Places,
         NEW S \in SUBSET InPool
  PROVE  LET b2 == [b EXCEPT ![c] = r]
         IN /\ Num(b, S) \in Nat
            /\ Num(b2, S) \in Nat
            /\ Num(b2, S) + (IF b[c].pc \in S THEN 1 ELSE 0) = Num(b, S) + (IF r.pc \in S THEN 1 ELSE 0)
  <1> DEFINE b2 == [b EXCEPT ![c] = r]
  <1>1. IsFiniteSet(At(b, S)) /\ Num(b, S) \in Nat
    BY Counted
  <1>2. At(b2, S) = IF r.pc \in S THEN At(b, S) \cup {c} ELSE At(b, S) \ {c}
    BY DEF At, Borrowers
  <1>3. c \in At(b, S) <=> b[c].pc \in S
    BY DEF At
  <1>4. IsFiniteSet(At(b2, S))
    BY <1>1, <1>2, FS_AddElement, FS_RemoveElement
  <1>5. Num(b2, S) \in Nat
    BY <1>4, FS_CardinalityType DEF Num
  <1> HIDE DEF b2
  <1>6. CASE r.pc \in S
    <2>1. Num(b2, S) = IF c \in At(b, S) THEN Num(b, S) ELSE Num(b, S) + 1
      BY <1>1, <1>2, <1>6, FS_AddElement DEF Num
    <2> QED  BY <1>1, <1>3, <1>5, <1>6, <2>1 DEF b2
  <1>7. CASE r.pc \notin S
    <2>1. Num(b2, S) = IF c \in At(b, S) THEN Num(b, S) - 1 ELSE Num(b, S)
      BY <1>1, <1>2, <1>7, FS_RemoveElement DEF Num
    <2> QED  BY <1>1, <1>3, <1>5, <1>7, <2>1 DEF b2
  <1> QED  BY <1>6, <1>7

LEMMA MovedTyped ==
  ASSUME NEW b \in Borrowers, IsFiniteSet(At(b, InPool)), NEW c \in PoolCallers, NEW r \in Places
  PROVE  [b EXCEPT ![c] = r] \in Borrowers /\ IsFiniteSet(At([b EXCEPT ![c] = r], InPool))
  <1>1. [b EXCEPT ![c] = r] \in Borrowers
    BY DEF Borrowers
  <1>2. At([b EXCEPT ![c] = r], InPool) \in SUBSET (At(b, InPool) \cup {c})
    BY DEF At, Borrowers
  <1>3. IsFiniteSet(At(b, InPool) \cup {c})
    BY FS_AddElement
  <1> QED  BY <1>1, <1>2, <1>3, FS_Subset

\* Those that use a socket hold a permit, and whoever holds one without using a socket comes on top.
LEMMA UsersHold ==
  ASSUME NEW b \in Borrowers, IsFiniteSet(At(b, InPool))
  PROVE  /\ Num(b, Use) \in Nat /\ Num(b, Hold) \in Nat /\ Num(b, Use) <= Num(b, Hold)
         /\ \A c \in PoolCallers : b[c].pc \in Hold \ Use => Num(b, Use) + 1 <= Num(b, Hold)
  <1>1. At(b, Use) \in SUBSET At(b, Hold)
    BY DEF At, Use, Hold
  <1>2. /\ IsFiniteSet(At(b, Use)) /\ Num(b, Use) \in Nat
        /\ IsFiniteSet(At(b, Hold)) /\ Num(b, Hold) \in Nat
    BY Counted, Kinds
  <1>3. /\ Num(b, Use) <= Num(b, Hold)
        /\ Num(b, Hold) = Num(b, Use) => At(b, Hold) = At(b, Use)
    BY <1>1, <1>2, FS_Subset DEF Num
  <1>4. ASSUME NEW c \in PoolCallers, b[c].pc \in Hold \ Use
        PROVE  Num(b, Use) + 1 <= Num(b, Hold)
    <2>1. At(b, Hold) # At(b, Use)
      BY <1>4 DEF At
    <2> QED  BY <1>2, <1>3, <2>1
  <1> QED  BY <1>2, <1>3, <1>4

\* Callers that are handed a permit stay callers that wait.
LEMMA Handed ==
  ASSUME NEW b \in Borrowers, IsFiniteSet(At(b, InPool)), NEW G \in SUBSET At(b, {"queued"})
  PROVE  LET b2 == GrantTo(G, b)
         IN /\ b2 \in Borrowers /\ IsFiniteSet(At(b2, InPool))
            /\ IsFiniteSet(G) /\ Cardinality(G) \in Nat
            /\ Num(b, Gr) \in Nat /\ Num(b2, Gr) = Num(b, Gr) + Cardinality(G)
            /\ Num(b2, Hold) = Num(b, Hold) /\ Num(b2, Use) = Num(b, Use) /\ Num(b2, Wait) = Num(b, Wait)
            /\ \A c \in PoolCallers : c \notin G => b2[c] = b[c]
            /\ \A c \in G : b2[c].pc = "granted"
  <1> DEFINE b2 == GrantTo(G, b)
  <1>1. \A c \in PoolCallers : b2[c] = IF c \in G THEN [b[c] EXCEPT !.pc = "granted"] ELSE b[c]
    BY DEF GrantTo
  <1>2. \A c \in PoolCallers : [b[c] EXCEPT !.pc = "granted"] \in Places /\ [b[c] EXCEPT !.pc = "granted"].pc = "granted"
    BY DEF Borrowers, Places, PCs
  <1>3. b2 \in Borrowers
    BY <1>1, <1>2 DEF GrantTo, Borrowers
  <1>4. \A c \in PoolCallers : b2[c].pc = IF c \in G THEN "granted" ELSE b[c].pc
    BY <1>1, <1>2
  <1>5. \A c \in G : c \in PoolCallers /\ b[c].pc = "queued"
    BY DEF At
  <1> HIDE DEF b2
  <1>6. /\ At(b2, InPool) = At(b, InPool) /\ At(b2, Hold) = At(b, Hold)
        /\ At(b2, Use) = At(b, Use) /\ At(b2, Wait) = At(b, Wait)
    BY <1>4, <1>5 DEF At, InPool, PCs, Hold, Use, Wait
  <1>7. At(b2, Gr) = At(b, Gr) \cup G /\ At(b, Gr) \cap G = {}
    BY <1>4, <1>5 DEF At, Gr
  <1>8. IsFiniteSet(At(b, Gr)) /\ Num(b, Gr) \in Nat
    BY Counted, Kinds
  <1>9. G \in SUBSET At(b, InPool)
    BY DEF At, InPool, PCs
  <1>10. IsFiniteSet(G) /\ Cardinality(G) \in Nat
    BY <1>9, FS_Subset, FS_CardinalityType
  <1>11. Num(b2, Gr) = Num(b, Gr) + Cardinality(G)
    <2>1. Cardinality(At(b, Gr) \cap G) = 0
      BY <1>7, FS_EmptySet
    <2>2. Cardinality(At(b, Gr) \cup G) = Cardinality(At(b, Gr)) + Cardinality(G) - Cardinality(At(b, Gr) \cap G)
      BY <1>8, <1>10, FS_Union
    <2> QED  BY <1>7, <1>8, <1>10, <2>1, <2>2 DEF Num
  <1>12. \A c \in PoolCallers : c \notin G => b2[c] = b[c]
    BY <1>1 DEF b2
  <1>13. \A c \in G : b2[c].pc = "granted"
    BY <1>4, <1>5
  <1> QED  BY <1>3, <1>6, <1>8, <1>10, <1>11, <1>12, <1>13 DEF Num, b2

\* The head of the queue is as many callers as it is long.
LEMMA HeadCounts ==
  ASSUME NEW q \in Seq(PoolCallers), \A i, j \in DOMAIN q : q[i] = q[j] => i = j, NEW k \in 0..Len(q)
  PROVE  Cardinality({q[i] : i \in 1..k}) = k
  <1> DEFINE f == [i \in 1..k |-> q[i]]
             T == {q[i] : i \in 1..k}
  <1>1. k \in Nat /\ \A i \in 1..k : i \in DOMAIN q
    OBVIOUS
  <1>2. f \in [1..k -> T] /\ \A i, j \in 1..k : f[i] = f[j] => i = j
    BY <1>1
  <1>3. \A t \in T : \E i \in 1..k : f[i] = t
    OBVIOUS
  <1> HIDE DEF f, T
  <1>4. f \in Bijection(1..k, T)
    BY <1>2, <1>3 DEF Bijection, Injection, Surjection, IsInjective
  <1>5. ExistsBijection(1..k, T)
    BY <1>4 DEF ExistsBijection
  <1>6. Cardinality(T) = k
    BY <1>1, <1>5, FS_CountingElements
  <1> QED  BY <1>6 DEF T

-----------------------------------------------------------------------------
(* The queue of the semaphore.                                             *)

\* Only a caller that does not queue, and will not, moves.
LEMMA QueueStays ==
  ASSUME NEW s, NEW b \in Borrowers, QueueOK(s, b), NEW c \in PoolCallers, NEW r \in Places,
         b[c].pc # "queued", r.pc # "queued"
  PROVE  QueueOK(s, [b EXCEPT ![c] = r])
  <1>1. \A d \in PoolCallers : [b EXCEPT ![c] = r][d].pc = "queued" <=> b[d].pc = "queued"
    BY DEF Borrowers
  <1> QED  BY <1>1 DEF QueueOK

LEMMA QueueSame ==
  ASSUME NEW s, NEW t, NEW b, QueueOK(s, b), t.queue = s.queue, t.free > 0 => s.free > 0
  PROVE  QueueOK(t, b)
  BY DEF QueueOK

\* Positions of what is left when g are taken from the front of l.
LEMMA Shifted ==
  ASSUME NEW g \in Nat, NEW l \in Nat, g <= l
  PROVE  /\ \A i \in 1..(l - g) : g + i \in 1..l /\ g + i \notin 1..g
         /\ \A i, j \in 1..(l - g) : g + i = g + j => i = j
         /\ \A k \in 1..l : k \notin 1..g => k - g \in 1..(l - g) /\ g + (k - g) = k
  OBVIOUS

Given(s, n) == Smaller(n, Len(s.queue))
Handing(s, b, n) == GrantTo(Granted(s, n), b)

\* PoolPermits that arrive go to the head of the queue, and only what nobody wants is free.
LEMMA PoolPermits ==
  ASSUME NEW s, NEW b, Typed(s, b), QueueOK(s, b), NEW n \in Nat
  PROVE  /\ Typed(AddPermits(s, n), Handing(s, b, n)) /\ QueueOK(AddPermits(s, n), Handing(s, b, n))
         /\ Given(s, n) \in 0..n
         /\ AddPermits(s, n).free = s.free + (n - Given(s, n))
         /\ AddPermits(s, n).allocated = s.allocated /\ AddPermits(s, n).config = s.config
         /\ AddPermits(s, n).idle = s.idle /\ AddPermits(s, n).live = s.live
         /\ AddPermits(s, n).closed = s.closed /\ AddPermits(s, n).waiting = s.waiting
         /\ Num(Handing(s, b, n), Gr) = Num(b, Gr) + Given(s, n) /\ Num(b, Gr) \in Nat
         /\ Num(Handing(s, b, n), Hold) = Num(b, Hold) /\ Num(Handing(s, b, n), Use) = Num(b, Use)
         /\ Num(Handing(s, b, n), Wait) = Num(b, Wait)
         /\ \A c \in PoolCallers : b[c].pc # "queued" => Handing(s, b, n)[c] = b[c]
  <1> DEFINE q == s.queue
             given == Smaller(n, Len(q))
             q2 == SubSeq(q, given + 1, Len(q))
             free2 == s.free + (n - given)
             s2 == AddPermits(s, n)
             G == Granted(s, n)
             b2 == GrantTo(G, b)
  <1>1. s \in PoolSlots /\ b \in Borrowers /\ IsFiniteSet(At(b, InPool))
    BY DEF Typed
  <1>2. q \in Seq(PoolCallers) /\ Len(q) \in Nat /\ DOMAIN q = 1..Len(q) /\ s.free \in Nat
    BY <1>1 DEF PoolSlots
  <1>3. given \in 0..n /\ given \in 0..Len(q) /\ (given = n \/ given = Len(q))
    BY <1>2 DEF Smaller
  <1>0. /\ \A i \in 1..(Len(q) - given) : given + i \in DOMAIN q /\ given + i \notin 1..given
        /\ \A i, j \in 1..(Len(q) - given) : given + i = given + j => i = j
        /\ \A k \in DOMAIN q : k \notin 1..given => k - given \in 1..(Len(q) - given) /\ given + (k - given) = k
    <2>1. given \in Nat /\ Len(q) \in Nat /\ given <= Len(q)
      BY <1>2, <1>3
    <2> HIDE DEF given
    <2> QED  BY <1>2, <2>1, Shifted
  <1>4. free2 \in Nat
    BY <1>2, <1>3
  <1>5. /\ q2 \in Seq(PoolCallers) /\ Len(q2) = Len(q) - given /\ DOMAIN q2 = 1..(Len(q) - given)
        /\ \A i \in 1..(Len(q) - given) : q2[i] = q[given + i]
    BY <1>2, <1>3
  <1>6. s2 = [s EXCEPT !.queue = q2, !.free = free2]
    BY DEF AddPermits
  <1> HIDE DEF q2, free2, s2
  <1>7. s2 \in PoolSlots
    BY <1>1, <1>4, <1>5, <1>6 DEF PoolSlots
  <1>8. /\ s2.queue = q2 /\ s2.free = free2
        /\ s2.allocated = s.allocated /\ s2.config = s.config /\ s2.idle = s.idle
        /\ s2.live = s.live /\ s2.closed = s.closed /\ s2.waiting = s.waiting
    BY <1>1, <1>6 DEF PoolSlots
  <1>9. G = {q[i] : i \in 1..given}
    BY DEF Granted
  <1>10. \A i, j \in DOMAIN q : q[i] = q[j] => i = j
    BY DEF QueueOK
  <1>11. \A c \in PoolCallers : b[c].pc = "queued" <=> \E i \in DOMAIN q : q[i] = c
    BY DEF QueueOK
  <1>12. \A i \in 1..given : i \in DOMAIN q /\ q[i] \in PoolCallers
    BY <1>2, <1>3
  <1>13. Cardinality(G) = given
    BY <1>2, <1>3, <1>9, <1>10, HeadCounts
  <1> HIDE DEF q, given, G
  <1>14. G \in SUBSET At(b, {"queued"})
    BY <1>9, <1>11, <1>12 DEF At
  <1>15. /\ b2 \in Borrowers /\ IsFiniteSet(At(b2, InPool))
         /\ Num(b, Gr) \in Nat /\ Num(b2, Gr) = Num(b, Gr) + Cardinality(G)
         /\ Num(b2, Hold) = Num(b, Hold) /\ Num(b2, Use) = Num(b, Use) /\ Num(b2, Wait) = Num(b, Wait)
         /\ \A c \in PoolCallers : c \notin G => b2[c] = b[c]
         /\ \A c \in G : b2[c].pc = "granted"
    BY <1>1, <1>14, Handed
  <1> HIDE DEF b2
  <1>16. \A c \in PoolCallers : b[c].pc # "queued" => b2[c] = b[c]
    BY <1>14, <1>15 DEF At
  <1>17. \A i, j \in DOMAIN q2 : q2[i] = q2[j] => i = j
    <2> SUFFICES ASSUME NEW i \in DOMAIN q2, NEW j \in DOMAIN q2, q2[i] = q2[j] PROVE i = j
      OBVIOUS
    <2>1. given + i \in DOMAIN q /\ given + j \in DOMAIN q
      BY <1>0, <1>5
    <2>2. q[given + i] = q[given + j]
      BY <1>5
    <2>3. given + i = given + j
      BY <1>10, <2>1, <2>2
    <2> QED  BY <1>0, <1>5, <2>3
  <1>18. \A c \in PoolCallers : b2[c].pc = "queued" <=> \E i \in DOMAIN q2 : q2[i] = c
    <2> SUFFICES ASSUME NEW c \in PoolCallers
                 PROVE  b2[c].pc = "queued" <=> \E i \in DOMAIN q2 : q2[i] = c
      OBVIOUS
    <2>1. ASSUME b2[c].pc = "queued" PROVE \E i \in DOMAIN q2 : q2[i] = c
      <3>1. c \notin G
        BY <1>15, <2>1
      <3>2. PICK k \in DOMAIN q : q[k] = c
        BY <1>11, <1>15, <2>1, <3>1
      <3>3. k \notin 1..given
        BY <1>9, <3>1, <3>2
      <3>4. k - given \in 1..(Len(q) - given) /\ given + (k - given) = k
        BY <1>0, <3>3
      <3>5. q2[k - given] = c
        BY <1>5, <3>2, <3>4
      <3> QED  BY <1>5, <3>4, <3>5
    <2>2. ASSUME NEW i \in DOMAIN q2, q2[i] = c PROVE b2[c].pc = "queued"
      <3>1. given + i \in DOMAIN q /\ q[given + i] = c
        BY <1>0, <1>5, <2>2
      <3>2. \A k \in 1..given : k # given + i
        BY <1>0, <1>5
      <3>3. c \notin G
        BY <1>9, <1>10, <1>12, <3>1, <3>2
      <3> QED  BY <1>11, <1>15, <3>1, <3>3
    <2> QED  BY <2>1, <2>2
  <1>19. s2.free > 0 => q2 = <<>>
    <2> SUFFICES ASSUME free2 > 0 PROVE q2 = <<>>
      BY <1>8
    <2>1. given = Len(q)
      <3>1. CASE s.free > 0
        <4>1. q = <<>>
          BY <3>1 DEF QueueOK, q
        <4>2. Len(q) = 0
          BY <4>1
        <4> QED  BY <1>3, <4>2
      <3>2. CASE ~(s.free > 0)
        <4>1. s.free = 0
          BY <1>2, <3>2
        <4>2. n - given > 0
          BY <1>3, <4>1 DEF free2
        <4> QED  BY <1>3, <4>2
      <3> QED  BY <3>1, <3>2
    <2>2. Len(q2) = 0
      BY <1>2, <1>5, <2>1
    <2> QED  BY <1>5, <2>2
  <1>20. Typed(s2, b2)
    BY <1>7, <1>15 DEF Typed
  <1>21. QueueOK(s2, b2)
    BY <1>8, <1>17, <1>18, <1>19 DEF QueueOK
  <1> QED
    BY <1>3, <1>8, <1>13, <1>15, <1>16, <1>20, <1>21 DEF s2, b2, G, given, q, free2, Given, Handing

\* A caller that asks gets a free permit, or queues behind the others.
LEMMA Joined ==
  ASSUME NEW s, NEW b, Typed(s, b), QueueOK(s, b), NEW c \in PoolCallers, b[c].pc # "queued"
  PROVE  LET s2 == Joins(s, c)
             r == [b[c] EXCEPT !.pc = JoinsAt(s)]
             b2 == [b EXCEPT ![c] = r]
         IN /\ Typed(s2, b2) /\ QueueOK(s2, b2) /\ r \in Places
            /\ s2.allocated = s.allocated /\ s2.config = s.config /\ s2.idle = s.idle
            /\ s2.live = s.live /\ s2.closed = s.closed /\ s2.waiting = s.waiting
            /\ \/ s.free > 0 /\ s2.free = s.free - 1 /\ r.pc = "granted"
               \/ s.free = 0 /\ s2.free = 0 /\ r.pc = "queued"
  <1> DEFINE q == s.queue
             s2 == Joins(s, c)
             r == [b[c] EXCEPT !.pc = JoinsAt(s)]
             b2 == [b EXCEPT ![c] = r]
  <1>1. s \in PoolSlots /\ b \in Borrowers /\ IsFiniteSet(At(b, InPool))
    BY DEF Typed
  <1>2. q \in Seq(PoolCallers) /\ s.free \in Nat
    BY <1>1 DEF PoolSlots
  <1>3. r \in Places /\ r.pc = JoinsAt(s)
    <2>1. b[c] \in Places /\ JoinsAt(s) \in PCs
      BY <1>1 DEF Borrowers, JoinsAt, PCs
    <2> QED  BY <2>1 DEF Places
  <1> HIDE DEF r
  <1>4. b2 \in Borrowers /\ IsFiniteSet(At(b2, InPool))
    BY <1>1, <1>3, MovedTyped
  <1>5. CASE s.free > 0
    <2>1. s.free - 1 \in Nat
      BY <1>2, <1>5
    <2>2. s2 = [s EXCEPT !.free = s.free - 1]
      BY <1>5 DEF Joins
    <2>3. s2 \in PoolSlots
      BY <1>1, <2>1, <2>2 DEF PoolSlots
    <2>4. /\ s2.queue = s.queue /\ s2.free = s.free - 1
          /\ s2.allocated = s.allocated /\ s2.config = s.config /\ s2.idle = s.idle
          /\ s2.live = s.live /\ s2.closed = s.closed /\ s2.waiting = s.waiting
      BY <1>1, <2>2 DEF PoolSlots
    <2> HIDE DEF s2
    <2>5. r.pc = "granted"
      BY <1>3, <1>5 DEF JoinsAt
    <2>6. QueueOK(s, b2)
      BY <1>1, <1>3, <2>5, QueueStays
    <2>7. QueueOK(s2, b2)
      BY <1>5, <2>4, <2>6, QueueSame
    <2> QED  BY <1>3, <1>4, <1>5, <2>3, <2>4, <2>5, <2>7 DEF Typed, s2, r
  <1>6. CASE ~(s.free > 0)
    <2>1. s.free = 0
      BY <1>2, <1>6
    <2> DEFINE q2 == Append(q, c)
    <2>2. s2 = [s EXCEPT !.queue = q2]
      BY <1>6 DEF Joins
    <2>3. /\ q2 \in Seq(PoolCallers) /\ DOMAIN q2 = 1..(Len(q) + 1) /\ DOMAIN q = 1..Len(q)
          /\ Len(q) \in Nat /\ q2[Len(q) + 1] = c /\ \A i \in 1..Len(q) : q2[i] = q[i]
      BY <1>2
    <2> HIDE DEF q2, s2
    <2>4. s2 \in PoolSlots
      BY <1>1, <2>2, <2>3 DEF PoolSlots
    <2>5. /\ s2.queue = q2 /\ s2.free = 0
          /\ s2.allocated = s.allocated /\ s2.config = s.config /\ s2.idle = s.idle
          /\ s2.live = s.live /\ s2.closed = s.closed /\ s2.waiting = s.waiting
      BY <1>1, <2>1, <2>2 DEF PoolSlots
    <2>6. r.pc = "queued"
      BY <1>3, <1>6 DEF JoinsAt
    <2>7. \A i \in DOMAIN q : q[i] # c
      BY DEF QueueOK
    <2>8. \A i, j \in DOMAIN q2 : q2[i] = q2[j] => i = j
      <3> SUFFICES ASSUME NEW i \in DOMAIN q2, NEW j \in DOMAIN q2, q2[i] = q2[j] PROVE i = j
        OBVIOUS
      <3>1. \A k \in DOMAIN q2 : k \in DOMAIN q \/ k = Len(q) + 1
        BY <2>3
      <3>2. \A k \in DOMAIN q : q2[k] = q[k] /\ q2[k] # c
        BY <2>3, <2>7
      <3>3. CASE i \in DOMAIN q /\ j \in DOMAIN q
        BY <3>2, <3>3 DEF QueueOK
      <3> QED  BY <2>3, <3>1, <3>2, <3>3
    <2>9. \A d \in PoolCallers : b2[d].pc = IF d = c THEN "queued" ELSE b[d].pc
      BY <1>1, <2>6 DEF Borrowers
    <2>10. \A d \in PoolCallers : b2[d].pc = "queued" <=> \E i \in DOMAIN q2 : q2[i] = d
      <3> SUFFICES ASSUME NEW d \in PoolCallers
                   PROVE  b2[d].pc = "queued" <=> \E i \in DOMAIN q2 : q2[i] = d
        OBVIOUS
      <3>1. CASE d = c
        <4>1. Len(q) + 1 \in DOMAIN q2
          BY <2>3
        <4> QED  BY <2>3, <2>9, <3>1, <4>1
      <3>2. CASE d # c
        <4>1. b[d].pc = "queued" <=> \E i \in DOMAIN q : q[i] = d
          BY DEF QueueOK
        <4>2. (\E i \in DOMAIN q : q[i] = d) <=> \E i \in DOMAIN q2 : q2[i] = d
          BY <2>3, <3>2
        <4> QED  BY <2>9, <3>2, <4>1, <4>2
      <3> QED  BY <3>1, <3>2
    <2>11. QueueOK(s2, b2)
      BY <2>5, <2>8, <2>10 DEF QueueOK
    <2> QED  BY <1>3, <1>4, <2>1, <2>4, <2>5, <2>6, <2>11 DEF Typed, s2, r
  <1> QED  BY <1>5, <1>6

\* A caller that gives up in the queue is no longer in it.
LEMMA Gone ==
  ASSUME NEW s, NEW b, Typed(s, b), QueueOK(s, b), NEW c \in PoolCallers, NEW r \in Places, r.pc # "queued"
  PROVE  LET q2 == Without(s.queue, c)
         IN /\ q2 \in Seq(PoolCallers)
            /\ \A t : t.queue = q2 /\ t.free = s.free => QueueOK(t, [b EXCEPT ![c] = r])
  <1> DEFINE q == s.queue
             keep == {i \in DOMAIN q : q[i] # c}
             q2 == Retain(q, keep)
             b2 == [b EXCEPT ![c] = r]
  <1>1. q \in Seq(PoolCallers) /\ keep \in SUBSET DOMAIN q /\ b \in Borrowers
    BY DEF Typed, PoolSlots
  <1>2. \A i, j \in DOMAIN q : q[i] = q[j] => i = j
    BY DEF QueueOK
  <1>3. \A d \in PoolCallers : b2[d].pc = IF d = c THEN r.pc ELSE b[d].pc
    BY <1>1 DEF Borrowers
  <1>4. \A i \in DOMAIN q : i \in keep <=> q[i] # c
    OBVIOUS
  <1> HIDE DEF keep
  <1>5. /\ q2 \in Seq(PoolCallers)
        /\ Len(q2) = Cardinality(keep) /\ Cardinality(keep) \in 0..Len(q)
        /\ \A k \in DOMAIN q2 : \E i \in keep : q2[k] = q[i]
        /\ \A i \in keep : \E k \in DOMAIN q2 : q2[k] = q[i]
    BY <1>1, Retained
  <1>6. \A k, l \in DOMAIN q2 : q2[k] = q2[l] => k = l
    BY <1>1, <1>2, RetainedOnce
  <1> HIDE DEF q2, b2, q
  <1>7. \A d \in PoolCallers : b[d].pc = "queued" <=> \E i \in DOMAIN q : q[i] = d
    BY DEF QueueOK, q
  <1>8. \A d \in PoolCallers : b2[d].pc = "queued" <=> \E k \in DOMAIN q2 : q2[k] = d
    <2> SUFFICES ASSUME NEW d \in PoolCallers
                 PROVE  b2[d].pc = "queued" <=> \E k \in DOMAIN q2 : q2[k] = d
      OBVIOUS
    <2>1. CASE d = c
      <3>1. \A k \in DOMAIN q2 : q2[k] # c
        BY <1>1, <1>4, <1>5
      <3> QED  BY <1>3, <2>1, <3>1
    <2>2. CASE d # c
      <3>1. (\E i \in DOMAIN q : q[i] = d) <=> \E i \in keep : q[i] = d
        BY <1>1, <1>4, <2>2
      <3>2. (\E i \in keep : q[i] = d) <=> \E k \in DOMAIN q2 : q2[k] = d
        BY <1>5
      <3> QED  BY <1>3, <1>7, <2>2, <3>1, <3>2
    <2> QED  BY <2>1, <2>2
  <1>9. s.free > 0 => q2 = <<>>
    <2> SUFFICES ASSUME s.free > 0 PROVE q2 = <<>>
      OBVIOUS
    <2>1. q = <<>>
      BY DEF QueueOK, q
    <2>2. Len(q) = 0
      BY <2>1
    <2>3. Len(q2) = 0
      BY <1>5, <2>2
    <2> QED  BY <1>5, <2>3
  <1>10. ASSUME NEW t, t.queue = q2, t.free = s.free PROVE QueueOK(t, b2)
    BY <1>6, <1>8, <1>9, <1>10 DEF QueueOK
  <1>11. q2 = Without(s.queue, c)
    BY DEF Without, q2, keep, q
  <1> QED  BY <1>5, <1>10, <1>11 DEF b2

-----------------------------------------------------------------------------
(* What the steps do to an endpoint's slot and its callers.                *)

LEMMA FourMoves ==
  ASSUME NEW b \in Borrowers, IsFiniteSet(At(b, InPool)), NEW c \in PoolCallers, NEW r \in Places
  PROVE  LET b2 == [b EXCEPT ![c] = r]
         IN /\ Num(b, Gr) \in Nat /\ Num(b2, Gr) \in Nat
            /\ Num(b, Wait) \in Nat /\ Num(b2, Wait) \in Nat
            /\ Num(b, Use) \in Nat /\ Num(b2, Use) \in Nat
            /\ Num(b, Hold) \in Nat /\ Num(b2, Hold) \in Nat
            /\ Num(b2, Gr) + (IF b[c].pc \in Gr THEN 1 ELSE 0) = Num(b, Gr) + (IF r.pc \in Gr THEN 1 ELSE 0)
            /\ Num(b2, Wait) + (IF b[c].pc \in Wait THEN 1 ELSE 0) = Num(b, Wait) + (IF r.pc \in Wait THEN 1 ELSE 0)
            /\ Num(b2, Use) + (IF b[c].pc \in Use THEN 1 ELSE 0) = Num(b, Use) + (IF r.pc \in Use THEN 1 ELSE 0)
            /\ Num(b2, Hold) + (IF b[c].pc \in Hold THEN 1 ELSE 0) = Num(b, Hold) + (IF r.pc \in Hold THEN 1 ELSE 0)
  BY Moved, Kinds

LEMMA SlotTyped ==
  ASSUME NEW s \in PoolSlots
  PROVE  /\ s.config \in PoolConfigs /\ s.allocated \in Nat /\ s.free \in Nat
         /\ s.queue \in Seq(PoolCallers) /\ s.idle \in Seq(Conns)
         /\ Len(s.idle) \in Nat /\ s.live \in SUBSET Addresses /\ s.waiting \in Nat
         /\ s.config.max \in Nat \ {0} /\ s.config.idle \in Nat
  BY ConfigTyped DEF PoolSlots

LEMMA MadeTyped ==
  ASSUME NEW s \in PoolSlots
  PROVE  s.made /\ s.closed \in BOOLEAN
  BY Zenon DEF PoolSlots

LEMMA ReturnedTyped == Returned \in Places /\ Returned.pc = "away"
  <1>0. {} \in SUBSET Addresses
    OBVIOUS
  <1>1. "none" \in Addresses
    BY DEF Addresses
  <1>2. NoConn \in Conns
    BY <1>1, Zenon DEF NoConn, Conns
  <1> QED  BY <1>0, <1>2 DEF Returned, Places, PCs

\* Checkout, before it waits.
LEMMA CheckoutSound ==
  ASSUME NEW s, NEW b, Sound(s, b), NEW c \in PoolCallers, b[c].pc = "away"
  PROVE  LET s2 == [Joins(s, c) EXCEPT !.waiting = @ + 1]
             b2 == [b EXCEPT ![c].pc = JoinsAt(s)]
         IN Sound(s2, b2) /\ s2.idle = s.idle /\ s2.live = s.live /\ s2.closed = s.closed
  <1> DEFINE s1 == Joins(s, c)
             w == s1.waiting + 1
             s2 == [s1 EXCEPT !.waiting = w]
             r == [b[c] EXCEPT !.pc = JoinsAt(s)]
             b2 == [b EXCEPT ![c] = r]
  <1>1. b \in Borrowers /\ IsFiniteSet(At(b, InPool)) /\ s \in PoolSlots
    BY DEF Sound, Typed
  <1>2. /\ Typed(s1, b2) /\ QueueOK(s1, b2) /\ r \in Places
        /\ s1.allocated = s.allocated /\ s1.config = s.config /\ s1.idle = s.idle
        /\ s1.live = s.live /\ s1.closed = s.closed /\ s1.waiting = s.waiting
        /\ \/ s.free > 0 /\ s1.free = s.free - 1 /\ r.pc = "granted"
           \/ s.free = 0 /\ s1.free = 0 /\ r.pc = "queued"
    BY Joined DEF Sound
  <1> HIDE DEF s1, r
  <1>3. s1 \in PoolSlots /\ b2 \in Borrowers /\ IsFiniteSet(At(b2, InPool))
    BY <1>2 DEF Typed
  <1>4. w \in Nat /\ w = s.waiting + 1
    BY <1>1, <1>2, SlotTyped
  <1> HIDE DEF w
  <1>5. s2 \in PoolSlots
    BY <1>3, <1>4 DEF PoolSlots
  <1>6. /\ s2.allocated = s.allocated /\ s2.config = s.config /\ s2.idle = s.idle
        /\ s2.live = s.live /\ s2.closed = s.closed /\ s2.waiting = w
        /\ s2.free = s1.free /\ s2.queue = s1.queue
    BY <1>2, <1>3 DEF PoolSlots
  <1> HIDE DEF s2
  <1>7. QueueOK(s2, b2)
    BY <1>2, <1>6, QueueSame
  <1>8. CountsOK(s2, b2)
    <2>1. /\ Num(b, Gr) \in Nat /\ Num(b2, Gr) \in Nat
          /\ Num(b, Wait) \in Nat /\ Num(b2, Wait) = Num(b, Wait) + 1
          /\ Num(b2, Use) = Num(b, Use)
          /\ Num(b, Hold) \in Nat /\ Num(b2, Hold) = Num(b, Hold)
          /\ r.pc = "granted" => Num(b2, Gr) = Num(b, Gr) + 1
          /\ r.pc = "queued" => Num(b2, Gr) = Num(b, Gr)
      BY <1>1, <1>2, FourMoves DEF Gr, Wait, Use, Hold
    <2>2. CountsOK(s, b)
      BY DEF Sound
    <2>3. /\ s.free \in Nat /\ s.allocated \in Nat /\ s1.free \in Nat
      BY <1>1, <1>3, SlotTyped
    <2>4. s2.free + Num(b2, Hold) + Num(b2, Gr) = s2.allocated
      <3>1. s.free + Num(b, Hold) + Num(b, Gr) = s.allocated
        BY <2>2 DEF CountsOK
      <3> QED  BY <1>2, <1>6, <2>1, <2>3, <3>1
    <2>5. s2.waiting = Num(b2, Wait)
      BY <1>4, <1>6, <2>1, <2>2 DEF CountsOK
    <2> QED
      BY <1>6, <2>1, <2>2, <2>4, <2>5 DEF CountsOK
  <1>9. b2 = [b EXCEPT ![c].pc = JoinsAt(s)]
    BY <1>1 DEF Borrowers, r
  <1>10. s2 = [Joins(s, c) EXCEPT !.waiting = @ + 1]
    BY DEF s2, s1, w
  <1> QED  BY <1>3, <1>5, <1>6, <1>7, <1>8, <1>9, <1>10 DEF Sound, Typed

\* A permit comes back and is handed on, or stays free.
LEMMA Surrendered ==
  ASSUME NEW s, NEW b, Sound(s, b), NEW c \in PoolCallers, b[c].pc \in Hold \cup Gr
  PROVE  LET s2 == AddPermits(s, 1)
             b2 == [GrantTo(Granted(s, 1), b) EXCEPT ![c] = Returned]
         IN /\ Typed(s2, b2) /\ QueueOK(s2, b2)
            /\ s2.free + Num(b2, Hold) + Num(b2, Gr) = s.allocated
            /\ Len(s.idle) + Num(b2, Use) <= s.allocated
            /\ s.waiting = Num(b2, Wait) + (IF b[c].pc = "granted" THEN 1 ELSE 0)
            /\ Num(b2, Wait) \in Nat
            /\ s2.allocated = s.allocated /\ s2.config = s.config /\ s2.idle = s.idle
            /\ s2.live = s.live /\ s2.closed = s.closed /\ s2.waiting = s.waiting
  <1>n. PICK n \in Nat : n = 1
    OBVIOUS
  <1> DEFINE s2 == AddPermits(s, n)
             b1 == Handing(s, b, n)
             b2 == [b1 EXCEPT ![c] = Returned]
             given == Given(s, n)
  <1>0. Typed(s, b) /\ QueueOK(s, b)
    BY DEF Sound
  <1>1. b \in Borrowers /\ IsFiniteSet(At(b, InPool)) /\ s \in PoolSlots
    BY DEF Sound, Typed
  <1>2. /\ Typed(s2, b1) /\ QueueOK(s2, b1)
        /\ given \in 0..n
        /\ s2.free = s.free + (n - given)
        /\ s2.allocated = s.allocated /\ s2.config = s.config /\ s2.idle = s.idle
        /\ s2.live = s.live /\ s2.closed = s.closed /\ s2.waiting = s.waiting
        /\ Num(b1, Gr) = Num(b, Gr) + given /\ Num(b, Gr) \in Nat
        /\ Num(b1, Hold) = Num(b, Hold) /\ Num(b1, Use) = Num(b, Use) /\ Num(b1, Wait) = Num(b, Wait)
        /\ \A d \in PoolCallers : b[d].pc # "queued" => b1[d] = b[d]
    BY <1>0, PoolPermits
  <1>q. b[c].pc # "queued"
    BY DEF Hold, Gr
  <1>p. b1[c] = b[c]
    BY <1>q, <1>2
  <1> HIDE DEF s2, b1, given
  <1>3. s2 \in PoolSlots /\ b1 \in Borrowers /\ IsFiniteSet(At(b1, InPool))
    BY <1>2 DEF Typed
  <1>4. b1[c] = b[c] /\ b1[c].pc # "queued"
    BY <1>p, <1>q
  <1>5. Typed(s2, b2)
    BY <1>3, ReturnedTyped, MovedTyped DEF Typed
  <1>6. QueueOK(s2, b2)
    BY <1>2, <1>3, <1>4, ReturnedTyped, QueueStays
  <1>7. /\ Num(b1, Gr) \in Nat /\ Num(b2, Gr) \in Nat
        /\ Num(b1, Wait) \in Nat /\ Num(b2, Wait) \in Nat
        /\ Num(b1, Use) \in Nat /\ Num(b2, Use) \in Nat /\ Num(b2, Use) <= Num(b1, Use)
        /\ Num(b1, Hold) \in Nat /\ Num(b2, Hold) \in Nat
        /\ Num(b2, Gr) + (IF b[c].pc = "granted" THEN 1 ELSE 0) = Num(b1, Gr)
        /\ Num(b2, Wait) + (IF b[c].pc = "granted" THEN 1 ELSE 0) = Num(b1, Wait)
        /\ Num(b2, Hold) + (IF b[c].pc = "granted" THEN 0 ELSE 1) = Num(b1, Hold)
    BY <1>3, <1>4, ReturnedTyped, FourMoves DEF Gr, Wait, Use, Hold
  <1>8. /\ s.free + Num(b, Hold) + Num(b, Gr) = s.allocated
        /\ Len(s.idle) + Num(b, Use) <= s.allocated
        /\ s.waiting = Num(b, Wait)
    BY DEF Sound, CountsOK
  <1>9. s.free \in Nat /\ s.allocated \in Nat /\ Len(s.idle) \in Nat
    BY <1>1, SlotTyped
  <1> HIDE DEF b2
  <1>10. s2.free + Num(b2, Hold) + Num(b2, Gr) = s.allocated
    <2>1. /\ s2.free = s.free + (1 - given) /\ given \in Nat
          /\ Num(b1, Gr) = Num(b, Gr) + given /\ Num(b1, Hold) = Num(b, Hold)
          /\ Num(b, Gr) \in Nat /\ Num(b, Hold) \in Nat
      BY <1>n, <1>2, <1>7
    <2>2. CASE b[c].pc = "granted"
      <3>1. Num(b2, Gr) + 1 = Num(b, Gr) + given /\ Num(b2, Hold) = Num(b, Hold)
        BY <1>7, <2>1, <2>2
      <3>2. Num(b2, Gr) = Num(b, Gr) + given - 1
        BY <1>7, <2>1, <3>1
      <3>3. s2.free + Num(b2, Hold) + Num(b2, Gr) = s.free + (1 - given) + Num(b, Hold) + (Num(b, Gr) + given - 1)
        BY <2>1, <3>1, <3>2
      <3>4. s.free + (1 - given) + Num(b, Hold) + (Num(b, Gr) + given - 1) = s.free + Num(b, Hold) + Num(b, Gr)
        BY <1>9, <2>1
      <3> QED  BY <1>8, <3>3, <3>4
    <2>3. CASE b[c].pc # "granted"
      <3>1. Num(b2, Gr) = Num(b, Gr) + given /\ Num(b2, Hold) + 1 = Num(b, Hold)
        BY <1>7, <2>1, <2>3
      <3>2. Num(b2, Hold) = Num(b, Hold) - 1
        BY <1>7, <2>1, <3>1
      <3>3. s2.free + Num(b2, Hold) + Num(b2, Gr) = s.free + (1 - given) + (Num(b, Hold) - 1) + (Num(b, Gr) + given)
        BY <2>1, <3>1, <3>2
      <3>4. s.free + (1 - given) + (Num(b, Hold) - 1) + (Num(b, Gr) + given) = s.free + Num(b, Hold) + Num(b, Gr)
        BY <1>9, <2>1
      <3> QED  BY <1>8, <3>3, <3>4
    <2> QED  BY <2>2, <2>3
  <1>11. Len(s.idle) + Num(b2, Use) <= s.allocated
    BY <1>2, <1>7, <1>8, <1>9
  <1> QED  BY <1>n, <1>2, <1>5, <1>6, <1>7, <1>8, <1>10, <1>11 DEF s2, b1, b2, Handing

\* Permit::drop.
LEMMA DropPermitSound ==
  ASSUME Sound(slot, borrower), NEW c \in PoolCallers, borrower[c].pc \in Hold, DropPermit(c)
  PROVE  Sound(slot', borrower') /\ slot'.idle = slot.idle /\ slot'.live = slot.live /\ slot'.closed = slot.closed
  <1>1. borrower \in Borrowers /\ IsFiniteSet(At(borrower, InPool)) /\ slot \in PoolSlots
    BY DEF Sound, Typed
  <1>2. /\ slot.free + Num(borrower, Hold) + Num(borrower, Gr) = slot.allocated
        /\ slot.allocated >= slot.config.max
        /\ Len(slot.idle) + Num(borrower, Use) <= slot.allocated
        /\ Len(slot.idle) <= slot.config.idle
        /\ slot.waiting = Num(borrower, Wait)
        /\ slot.allocated > slot.config.max => slot.idle = <<>>
    BY DEF Sound, CountsOK
  <1>3. CASE InDebt
    <2> DEFINE a == slot.allocated - 1
               b2 == [borrower EXCEPT ![c] = Returned]
    <2>1. slot' = [slot EXCEPT !.allocated = a] /\ borrower' = b2
      BY <1>3 DEF DropPermit
    <2>2. slot.allocated > slot.config.max /\ slot.idle = <<>>
      BY <1>2, <1>3 DEF InDebt
    <2>3. a \in Nat /\ a >= slot.config.max
      BY <1>1, <2>2, SlotTyped
    <2>4. slot' \in PoolSlots
      BY <1>1, <2>1, <2>3 DEF PoolSlots
    <2>5. /\ slot'.free = slot.free /\ slot'.queue = slot.queue /\ slot'.idle = slot.idle
          /\ slot'.live = slot.live /\ slot'.closed = slot.closed /\ slot'.waiting = slot.waiting
          /\ slot'.config = slot.config /\ slot'.allocated = a
      BY <1>1, <2>1 DEF PoolSlots
    <2>6. b2 \in Borrowers /\ IsFiniteSet(At(b2, InPool))
      BY <1>1, ReturnedTyped, MovedTyped
    <2>7. /\ Num(b2, Gr) = Num(borrower, Gr) /\ Num(b2, Wait) = Num(borrower, Wait)
          /\ Num(b2, Hold) + 1 = Num(borrower, Hold) /\ Num(b2, Hold) \in Nat
          /\ Num(borrower, Gr) \in Nat
      BY <1>1, ReturnedTyped, FourMoves DEF Gr, Wait, Hold
    <2>8. Num(b2, Use) \in Nat /\ Num(b2, Use) <= Num(b2, Hold)
      BY <2>6, UsersHold
    <2>9. QueueOK(slot, b2)
      BY <1>1, ReturnedTyped, QueueStays DEF Sound, Hold
    <2> HIDE DEF b2, a
    <2>10. QueueOK(slot', b2)
      BY <2>5, <2>9, QueueSame
    <2>11. Len(slot.idle) = 0 /\ slot.free \in Nat /\ slot.allocated \in Nat /\ slot.config.idle \in Nat
      BY <1>1, <2>2, SlotTyped
    <2>12. a = slot.allocated - 1
      BY DEF a
    <2>13. CountsOK(slot', b2)
      BY <1>2, <2>2, <2>3, <2>5, <2>7, <2>8, <2>11, <2>12 DEF CountsOK
    <2> QED  BY <2>1, <2>4, <2>5, <2>6, <2>10, <2>13 DEF Sound, Typed
  <1>4. CASE ~InDebt
    <2>1. /\ slot' = AddPermits(slot, 1)
          /\ borrower' = [GrantTo(Granted(slot, 1), borrower) EXCEPT ![c] = Returned]
      BY <1>4 DEF DropPermit
    <2>2. /\ Typed(slot', borrower') /\ QueueOK(slot', borrower')
          /\ slot'.free + Num(borrower', Hold) + Num(borrower', Gr) = slot.allocated
          /\ Len(slot.idle) + Num(borrower', Use) <= slot.allocated
          /\ slot.waiting = Num(borrower', Wait) + (IF borrower[c].pc = "granted" THEN 1 ELSE 0)
          /\ Num(borrower', Wait) \in Nat
          /\ slot'.allocated = slot.allocated /\ slot'.config = slot.config /\ slot'.idle = slot.idle
          /\ slot'.live = slot.live /\ slot'.closed = slot.closed /\ slot'.waiting = slot.waiting
      BY <2>1, Surrendered
    <2>3. borrower[c].pc # "granted"
      BY DEF Hold
    <2>4. CountsOK(slot', borrower')
      BY <1>2, <2>2, <2>3 DEF CountsOK
    <2> QED  BY <2>2, <2>4 DEF Sound
  <1> QED  BY <1>3, <1>4

\* What an adopted configuration keeps of the idle connections.
Cut(idle, keep, k) == SubSeq(Retain(idle, keep), 1, Smaller(Len(Retain(idle, keep)), k))

LEMMA Trimmed ==
  ASSUME NEW idle \in Seq(Conns), NEW keep \in SUBSET DOMAIN idle, NEW k \in Nat
  PROVE  /\ Cut(idle, keep, k) \in Seq(Conns)
         /\ Len(Cut(idle, keep, k)) \in Nat /\ Len(Cut(idle, keep, k)) <= k
         /\ k = 0 => Cut(idle, keep, k) = <<>>
         /\ \A i \in DOMAIN Cut(idle, keep, k) : \E j \in DOMAIN idle : Cut(idle, keep, k)[i] = idle[j]
  <1> DEFINE usable == Retain(idle, keep)
             m == Smaller(Len(usable), k)
             t == SubSeq(usable, 1, m)
  <1>1. usable \in Seq(Conns) /\ \A i \in DOMAIN usable : \E j \in keep : usable[i] = idle[j]
    BY Retained
  <1> HIDE DEF usable
  <1>2. Len(usable) \in Nat /\ m \in 0..Len(usable) /\ m <= k /\ DOMAIN usable = 1..Len(usable)
    BY <1>1 DEF Smaller
  <1> HIDE DEF m
  <1>3. t \in Seq(Conns) /\ Len(t) = m /\ DOMAIN t = 1..m /\ \A i \in 1..m : t[i] = usable[i]
    BY <1>1, <1>2
  <1>4. k = 0 => t = <<>>
    BY <1>2, <1>3
  <1>5. \A i \in 1..m : i \in DOMAIN usable
    BY <1>2
  <1> HIDE DEF t
  <1>6. \A i \in DOMAIN t : \E j \in DOMAIN idle : t[i] = idle[j]
    BY <1>1, <1>3, <1>5
  <1>7. Cut(idle, keep, k) = t
    BY DEF Cut, t, m, usable
  <1>8. Len(t) \in Nat /\ Len(t) <= k
    BY <1>2, <1>3
  <1> QED  BY <1>3, <1>4, <1>6, <1>7, <1>8

-----------------------------------------------------------------------------
(* One step, action by action.                                             *)

\* A step that keeps the idle connections, their addresses and the flags of the endpoint.
LEMMA Kept ==
  ASSUME IInv, slot.made, Sound(slot', borrower'), slot'.idle = slot.idle, slot'.live = slot.live,
         slot'.closed = slot.closed, policy' = policy, owner' = owner, held' \in SUBSET Addresses
  PROVE  IInv'
  <1>1. slot' \in PoolSlots
    BY DEF Sound, Typed
  <1>2. slot'.made
    BY <1>1, MadeTyped
  <1> QED  BY <1>2 DEF IInv, Sound, Typed, QueueOK, CountsOK, At, Num

LEMMA Here ==
  ASSUME IInv, NEW c \in PoolCallers, borrower[c].pc # "away"
  PROVE  /\ slot.made /\ Sound(slot, borrower)
         /\ borrower \in Borrowers /\ IsFiniteSet(At(borrower, InPool)) /\ slot \in PoolSlots
         /\ borrower[c] \in Places
  <1>1. slot.made
    <2> SUFFICES ASSUME ~slot.made PROVE FALSE
      BY DEF IInv
    <2>1. borrower \in Borrowers /\ At(borrower, InPool) = {}
      BY DEF IInv
    <2>2. borrower[c].pc \in PCs
      BY <2>1 DEF Borrowers, Places
    <2> QED  BY <2>1, <2>2 DEF At, InPool
  <1> QED  BY <1>1 DEF IInv, Sound, Typed, Borrowers

\* The caller alone moves, and not from the queue nor into it.
LEMMA MovesOn ==
  ASSUME NEW s, NEW b, Sound(s, b), NEW c \in PoolCallers, NEW r \in Places, NEW t \in PoolSlots,
         b[c].pc # "queued", r.pc # "queued", t.queue = s.queue, t.free = s.free
  PROVE  /\ Typed(t, [b EXCEPT ![c] = r]) /\ QueueOK(t, [b EXCEPT ![c] = r])
  <1>1. b \in Borrowers /\ IsFiniteSet(At(b, InPool)) /\ QueueOK(s, b)
    BY DEF Sound, Typed
  <1>2. QueueOK(s, [b EXCEPT ![c] = r])
    BY <1>1, QueueStays
  <1>3. QueueOK(t, [b EXCEPT ![c] = r])
    BY <1>2, QueueSame
  <1> QED  BY <1>1, <1>3, MovedTyped DEF Typed

LEMMA RepaysInv ==
  ASSUME IInv, NEW c \in PoolCallers, Repays(c)
  PROVE  IInv'
  <1>1. borrower[c].pc = "granted" /\ InDebt /\ PoolRest
    BY DEF Repays
  <1>2. /\ slot.made /\ Sound(slot, borrower)
        /\ borrower \in Borrowers /\ IsFiniteSet(At(borrower, InPool)) /\ slot \in PoolSlots
    BY <1>1, Here
  <1> DEFINE a == slot.allocated - 1
             s0 == [slot EXCEPT !.allocated = a]
             s2 == Joins(s0, c)
             r == [borrower[c] EXCEPT !.pc = JoinsAt(s0)]
             b2 == [borrower EXCEPT ![c] = r]
  <1>3. slot.allocated > slot.config.max /\ slot.idle = <<>>
    BY <1>1, <1>2 DEF InDebt, Sound, CountsOK
  <1>4. a \in Nat /\ a >= slot.config.max /\ slot.allocated \in Nat /\ slot.free \in Nat
        /\ Len(slot.idle) = 0 /\ slot.config.idle \in Nat
    BY <1>2, <1>3, SlotTyped
  <1>5. slot' = s2 /\ borrower' = [borrower EXCEPT ![c].pc = JoinsAt(slot)]
    BY DEF Repays, CallerMoves
  <1>6. s0 \in PoolSlots
    BY <1>2, <1>4 DEF PoolSlots
  <1>7. /\ s0.free = slot.free /\ s0.queue = slot.queue /\ s0.idle = slot.idle
        /\ s0.live = slot.live /\ s0.closed = slot.closed /\ s0.waiting = slot.waiting
        /\ s0.config = slot.config /\ s0.allocated = a
    BY <1>2 DEF PoolSlots
  <1>8. JoinsAt(slot) = JoinsAt(s0)
    BY <1>7 DEF JoinsAt
  <1>9. borrower' = b2
    BY <1>2, <1>5, <1>8 DEF Borrowers
  <1> HIDE DEF s0, a
  <1>10. Typed(s0, borrower) /\ QueueOK(s0, borrower)
    BY <1>2, <1>6, <1>7, QueueSame DEF Sound, Typed
  <1>11. /\ Typed(s2, b2) /\ QueueOK(s2, b2) /\ r \in Places
         /\ s2.allocated = s0.allocated /\ s2.config = s0.config /\ s2.idle = s0.idle
         /\ s2.live = s0.live /\ s2.closed = s0.closed /\ s2.waiting = s0.waiting
         /\ \/ s0.free > 0 /\ s2.free = s0.free - 1 /\ r.pc = "granted"
            \/ s0.free = 0 /\ s2.free = 0 /\ r.pc = "queued"
    BY <1>1, <1>10, Joined
  <1> HIDE DEF s2, r
  <1>12. b2 \in Borrowers /\ IsFiniteSet(At(b2, InPool)) /\ s2 \in PoolSlots
    BY <1>11 DEF Typed
  <1>13. /\ Num(borrower, Gr) \in Nat /\ Num(b2, Gr) \in Nat
         /\ Num(b2, Wait) = Num(borrower, Wait)
         /\ Num(b2, Hold) = Num(borrower, Hold) /\ Num(borrower, Hold) \in Nat
         /\ r.pc = "granted" => Num(b2, Gr) = Num(borrower, Gr)
         /\ r.pc = "queued" => Num(b2, Gr) + 1 = Num(borrower, Gr)
    BY <1>1, <1>2, <1>11, FourMoves DEF Gr, Wait, Hold
  <1>14. Num(b2, Use) \in Nat /\ Num(b2, Use) <= Num(b2, Hold)
    BY <1>12, UsersHold
  <1> HIDE DEF b2
  <1>15. slot.free + Num(borrower, Hold) + Num(borrower, Gr) = slot.allocated
    BY <1>2 DEF Sound, CountsOK
  <1>16. s2.free + Num(b2, Hold) + Num(b2, Gr) = s2.allocated
    <2>1. a = slot.allocated - 1
      BY DEF a
    <2>2. s2.allocated = slot.allocated - 1
      BY <1>7, <1>11, <2>1
    <2>3. CASE r.pc = "granted"
      <3>1. s2.free = slot.free - 1 /\ Num(b2, Gr) = Num(borrower, Gr)
        BY <1>7, <1>11, <1>13, <2>3
      <3> QED  BY <1>4, <1>13, <1>15, <2>2, <3>1
    <2>4. CASE r.pc = "queued"
      <3>1. s2.free = 0 /\ slot.free = 0 /\ Num(b2, Gr) + 1 = Num(borrower, Gr)
        BY <1>7, <1>11, <1>13, <2>4
      <3>2. Num(borrower, Hold) + Num(borrower, Gr) = slot.allocated
        BY <1>13, <1>15, <3>1
      <3> QED  BY <1>4, <1>13, <2>2, <3>1, <3>2
    <2> QED  BY <1>11, <2>3, <2>4
  <1>17. s2.free \in Nat /\ s2.allocated = a
    BY <1>7, <1>11, <1>12, SlotTyped
  <1>18. Num(b2, Use) <= a
    BY <1>4, <1>13, <1>14, <1>16, <1>17
  <1>19. slot.waiting = Num(borrower, Wait)
    BY <1>2 DEF Sound, CountsOK
  <1>20. CountsOK(s2, b2)
    BY <1>3, <1>4, <1>7, <1>11, <1>13, <1>14, <1>16, <1>17, <1>18, <1>19 DEF CountsOK
  <1>21. Sound(s2, b2)
    BY <1>11, <1>20 DEF Sound
  <1>22. held' \in SUBSET Addresses
    BY <1>1 DEF IInv, PoolRest
  <1> QED  BY <1>1, <1>2, <1>5, <1>7, <1>9, <1>11, <1>21, <1>22, Kept DEF PoolRest

LEMMA ApproveInv ==
  ASSUME IInv, NEW c \in PoolCallers, Approve(c)
  PROVE  IInv'
  <1>1. borrower[c].pc = "granted" /\ PoolRest
    BY DEF Approve
  <1>2. /\ slot.made /\ Sound(slot, borrower) /\ borrower[c] \in Places
        /\ borrower \in Borrowers /\ IsFiniteSet(At(borrower, InPool)) /\ slot \in PoolSlots
    BY <1>1, Here
  <1> DEFINE w == slot.waiting - 1
             r == [borrower[c] EXCEPT !.pc = "pick"]
             b2 == [borrower EXCEPT ![c] = r]
  <1>3. slot' = [slot EXCEPT !.waiting = w] /\ borrower' = [borrower EXCEPT ![c].pc = "pick"]
    BY DEF Approve, CallerMoves
  <1>4. borrower' = b2
    BY <1>2, <1>3 DEF Borrowers
  <1>5. r \in Places /\ r.pc = "pick"
    BY <1>2 DEF Places, PCs
  <1> HIDE DEF r
  <1>6. /\ Num(borrower, Gr) \in Nat /\ Num(b2, Gr) \in Nat /\ Num(b2, Gr) + 1 = Num(borrower, Gr)
        /\ Num(b2, Wait) \in Nat /\ Num(borrower, Wait) \in Nat /\ Num(b2, Wait) + 1 = Num(borrower, Wait)
        /\ Num(borrower, Hold) \in Nat /\ Num(b2, Hold) = Num(borrower, Hold) + 1
        /\ Num(b2, Use) = Num(borrower, Use)
    BY <1>1, <1>2, <1>5, FourMoves DEF Gr, Wait, Hold, Use
  <1>7. CountsOK(slot, borrower)
    BY <1>2 DEF Sound
  <1> HIDE DEF b2
  <1>8. w \in Nat /\ w = Num(b2, Wait)
    BY <1>6, <1>7 DEF CountsOK
  <1> HIDE DEF w
  <1>9. slot' \in PoolSlots
    BY <1>2, <1>3, <1>8 DEF PoolSlots
  <1>10. /\ slot'.free = slot.free /\ slot'.queue = slot.queue /\ slot'.idle = slot.idle
         /\ slot'.live = slot.live /\ slot'.closed = slot.closed /\ slot'.waiting = w
         /\ slot'.config = slot.config /\ slot'.allocated = slot.allocated
    BY <1>2, <1>3 DEF PoolSlots
  <1>11. slot.free + Num(b2, Hold) + Num(b2, Gr) = slot.allocated
    <2>1. slot.free + Num(borrower, Hold) + Num(borrower, Gr) = slot.allocated /\ slot.free \in Nat
      BY <1>2, <1>7, SlotTyped DEF CountsOK
    <2> QED  BY <1>6, <2>1
  <1>12. CountsOK(slot', b2)
    BY <1>6, <1>7, <1>8, <1>10, <1>11 DEF CountsOK
  <1>13. Typed(slot', b2) /\ QueueOK(slot', b2)
    BY <1>1, <1>2, <1>5, <1>9, <1>10, MovesOn DEF b2
  <1>14. held' \in SUBSET Addresses
    BY <1>1 DEF IInv, PoolRest
  <1> QED  BY <1>1, <1>2, <1>4, <1>10, <1>12, <1>13, <1>14, Kept DEF PoolRest, Sound

LEMMA AbandonsInv ==
  ASSUME IInv, NEW c \in PoolCallers, Abandons(c)
  PROVE  IInv'
  <1>1. borrower[c].pc \in {"queued", "granted"} /\ PoolRest
    BY DEF Abandons
  <1>2. /\ slot.made /\ Sound(slot, borrower) /\ borrower[c] \in Places
        /\ borrower \in Borrowers /\ IsFiniteSet(At(borrower, InPool)) /\ slot \in PoolSlots
    BY <1>1, Here
  <1>3. CountsOK(slot, borrower) /\ Typed(slot, borrower) /\ QueueOK(slot, borrower)
    BY <1>2 DEF Sound
  <1>4. held' \in SUBSET Addresses
    BY <1>1 DEF IInv, PoolRest
  <1> DEFINE w == slot.waiting - 1
  <1>5. CASE borrower[c].pc = "queued"
    <2> DEFINE b2 == [borrower EXCEPT ![c] = Returned]
               q2 == Without(slot.queue, c)
    <2>1. slot' = [slot EXCEPT !.queue = q2, !.waiting = w] /\ borrower' = b2
      BY <1>5 DEF Abandons
    <2>2. /\ q2 \in Seq(PoolCallers)
          /\ \A t : t.queue = q2 /\ t.free = slot.free => QueueOK(t, b2)
      BY <1>3, ReturnedTyped, Gone
    <2>3. /\ Num(b2, Gr) = Num(borrower, Gr)
          /\ Num(b2, Wait) \in Nat /\ Num(borrower, Wait) \in Nat /\ Num(b2, Wait) + 1 = Num(borrower, Wait)
          /\ Num(b2, Hold) = Num(borrower, Hold)
          /\ Num(b2, Use) = Num(borrower, Use)
      BY <1>2, <1>5, ReturnedTyped, FourMoves DEF Gr, Wait, Hold, Use
    <2>4. b2 \in Borrowers /\ IsFiniteSet(At(b2, InPool))
      BY <1>2, ReturnedTyped, MovedTyped
    <2> HIDE DEF b2, q2
    <2>5. w \in Nat /\ w = Num(b2, Wait)
      BY <1>3, <2>3 DEF CountsOK
    <2> HIDE DEF w
    <2>6. slot' \in PoolSlots
      BY <1>2, <2>1, <2>2, <2>5 DEF PoolSlots
    <2>7. /\ slot'.free = slot.free /\ slot'.queue = q2 /\ slot'.idle = slot.idle
          /\ slot'.live = slot.live /\ slot'.closed = slot.closed /\ slot'.waiting = w
          /\ slot'.config = slot.config /\ slot'.allocated = slot.allocated
      BY <1>2, <2>1 DEF PoolSlots
    <2>8. CountsOK(slot', b2)
      BY <1>3, <2>3, <2>5, <2>7 DEF CountsOK
    <2>9. Sound(slot', b2)
      BY <2>2, <2>4, <2>6, <2>7, <2>8 DEF Sound, Typed
    <2> QED  BY <1>1, <1>2, <1>4, <2>1, <2>7, <2>9, Kept DEF PoolRest
  <1>6. CASE borrower[c].pc = "granted"
    <2> DEFINE s1 == AddPermits(slot, 1)
               b2 == [GrantTo(Granted(slot, 1), borrower) EXCEPT ![c] = Returned]
    <2>1. slot' = [s1 EXCEPT !.waiting = s1.waiting - 1] /\ borrower' = b2
      BY <1>6 DEF Abandons
    <2>2. /\ Typed(s1, b2) /\ QueueOK(s1, b2)
          /\ s1.free + Num(b2, Hold) + Num(b2, Gr) = slot.allocated
          /\ Len(slot.idle) + Num(b2, Use) <= slot.allocated
          /\ slot.waiting = Num(b2, Wait) + (IF borrower[c].pc = "granted" THEN 1 ELSE 0)
          /\ Num(b2, Wait) \in Nat
          /\ s1.allocated = slot.allocated /\ s1.config = slot.config /\ s1.idle = slot.idle
          /\ s1.live = slot.live /\ s1.closed = slot.closed /\ s1.waiting = slot.waiting
      BY <1>2, <1>6, Surrendered DEF Gr
    <2> HIDE DEF s1, b2
    <2>3. s1 \in PoolSlots /\ b2 \in Borrowers /\ IsFiniteSet(At(b2, InPool))
      BY <2>2 DEF Typed
    <2>4. w \in Nat /\ w = Num(b2, Wait)
      BY <1>6, <2>2
    <2>5. slot' = [s1 EXCEPT !.waiting = w]
      BY <2>1, <2>2
    <2> HIDE DEF w
    <2>6. slot' \in PoolSlots
      BY <2>3, <2>4, <2>5 DEF PoolSlots
    <2>7. /\ slot'.free = s1.free /\ slot'.queue = s1.queue /\ slot'.idle = slot.idle
          /\ slot'.live = slot.live /\ slot'.closed = slot.closed /\ slot'.waiting = w
          /\ slot'.config = slot.config /\ slot'.allocated = slot.allocated
      BY <2>2, <2>3, <2>5 DEF PoolSlots
    <2>8. CountsOK(slot', b2)
      BY <1>3, <2>2, <2>4, <2>7 DEF CountsOK
    <2>9. QueueOK(slot', b2)
      BY <2>2, <2>7, QueueSame
    <2>10. Sound(slot', b2)
      BY <2>3, <2>6, <2>8, <2>9 DEF Sound, Typed
    <2> QED  BY <1>1, <1>2, <1>4, <2>1, <2>7, <2>10, Kept DEF PoolRest
  <1> QED  BY <1>1, <1>5, <1>6

LEMMA CheckoutInv ==
  ASSUME IInv, NEW c \in PoolCallers, Checkout(c)
  PROVE  IInv'
  <1>1. borrower[c].pc = "away" /\ PoolRest /\ owner = "none"
    BY DEF Checkout
  <1>2. held' \in SUBSET Addresses
    BY <1>1 DEF IInv, PoolRest
  <1>3. CASE slot.made
    <2>1. Sound(slot, borrower)
      BY <1>3 DEF IInv
    <2>2. /\ slot' = [Joins(slot, c) EXCEPT !.waiting = @ + 1]
          /\ borrower' = [borrower EXCEPT ![c].pc = JoinsAt(slot)]
      BY <1>3 DEF Checkout, CallerMoves
    <2>3. Sound(slot', borrower') /\ slot'.idle = slot.idle /\ slot'.live = slot.live /\ slot'.closed = slot.closed
      BY <1>1, <2>1, <2>2, CheckoutSound
    <2> QED  BY <1>1, <1>2, <1>3, <2>3, Kept DEF PoolRest
  <1>4. CASE ~slot.made
    <2> DEFINE s0 == EndpointPool(policy)
    <2>1. borrower \in Borrowers /\ At(borrower, InPool) = {} /\ policy \in PoolConfigs
      BY <1>4 DEF IInv
    <2>2. policy.max \in Nat \ {0} /\ policy.idle \in Nat
      BY <2>1, ConfigTyped
    <2>3. Anywhere \in SUBSET Addresses
      BY DEF Anywhere, Addresses
    <2>4. s0 = [made |-> TRUE, config |-> policy, allocated |-> policy.max, free |-> policy.max,
                queue |-> <<>>, closed |-> FALSE, idle |-> <<>>, live |-> Anywhere, waiting |-> 0]
      BY DEF EndpointPool
    <2>5. 0 \in Nat /\ <<>> \in Seq(PoolCallers) /\ <<>> \in Seq(Conns) /\ policy.max \in Nat
      BY <2>2
    <2> HIDE DEF s0
    <2>6. s0 \in PoolSlots
      BY <2>1, <2>3, <2>4, <2>5, Zenon DEF PoolSlots
    <2>7. /\ s0.config = policy /\ s0.allocated = policy.max /\ s0.free = policy.max
          /\ s0.queue = <<>> /\ s0.idle = <<>> /\ s0.live = Anywhere /\ s0.waiting = 0
      BY <2>4
    <2>8. s0.closed = FALSE
      BY <2>4, Zenon
    <2>9. IsFiniteSet(At(borrower, InPool))
      BY <2>1, FS_EmptySet
    <2>10. /\ At(borrower, Gr) = {} /\ At(borrower, Hold) = {} /\ At(borrower, Use) = {} /\ At(borrower, Wait) = {}
      BY <2>1, Kinds DEF At
    <2>11. /\ Num(borrower, Gr) = 0 /\ Num(borrower, Hold) = 0
           /\ Num(borrower, Use) = 0 /\ Num(borrower, Wait) = 0
      BY <2>10, FS_EmptySet DEF Num
    <2>12. CountsOK(s0, borrower)
      BY <2>2, <2>7, <2>11 DEF CountsOK
    <2>13. QueueOK(s0, borrower)
      <3>1. \A d \in PoolCallers : borrower[d].pc # "queued"
        BY <2>1 DEF At, InPool, PCs
      <3>2. DOMAIN s0.queue = {}
        BY <2>7
      <3> QED  BY <2>7, <3>1, <3>2 DEF QueueOK
    <2>14. Sound(s0, borrower)
      BY <2>1, <2>6, <2>9, <2>12, <2>13 DEF Sound, Typed
    <2>15. /\ slot' = [Joins(s0, c) EXCEPT !.waiting = @ + 1]
           /\ borrower' = [borrower EXCEPT ![c].pc = JoinsAt(s0)]
      BY <1>4 DEF Checkout, CallerMoves, s0
    <2>16. Sound(slot', borrower') /\ slot'.idle = s0.idle /\ slot'.live = s0.live /\ slot'.closed = s0.closed
      BY <1>1, <2>14, <2>15, CheckoutSound
    <2>17. slot'.made
      BY <2>16, MadeTyped DEF Sound, Typed
    <2>18. UNCHANGED <<owner, policy>>
      BY <1>1 DEF PoolRest
    <2> QED
      BY <1>1, <1>2, <2>1, <2>7, <2>16, <2>17, <2>18 DEF IInv, Sound, Typed, QueueOK, CountsOK, At, Num
  <1> QED  BY <1>3, <1>4 DEF IInv

\* Steps of a caller that change neither its permit nor what is parked.
LEMMA SteadyInv ==
  ASSUME IInv, NEW c \in PoolCallers, NEW r \in Places, UNCHANGED slot,
         borrower' = [borrower EXCEPT ![c] = r],
         borrower[c].pc \in Hold, r.pc \in Hold, r.pc \in Use => (borrower[c].pc \in Use \/ slot.idle = <<>>),
         policy' = policy, owner' = owner, held' \in SUBSET Addresses
  PROVE  IInv'
  <1>1. borrower[c].pc # "away" /\ borrower[c].pc # "queued" /\ r.pc # "queued"
    BY DEF Hold
  <1>2. /\ slot.made /\ Sound(slot, borrower)
        /\ borrower \in Borrowers /\ IsFiniteSet(At(borrower, InPool)) /\ slot \in PoolSlots
    BY <1>1, Here
  <1>3. CountsOK(slot, borrower)
    BY <1>2 DEF Sound
  <1> DEFINE b2 == [borrower EXCEPT ![c] = r]
  <1>4. /\ Num(b2, Gr) = Num(borrower, Gr) /\ Num(b2, Wait) = Num(borrower, Wait)
        /\ Num(b2, Hold) = Num(borrower, Hold) /\ Num(borrower, Hold) \in Nat /\ Num(borrower, Gr) \in Nat
        /\ Num(borrower, Use) \in Nat /\ Num(b2, Use) \in Nat
        /\ (r.pc \in Use => borrower[c].pc \in Use) => Num(b2, Use) <= Num(borrower, Use)
    <2>1. /\ r.pc \notin Gr /\ r.pc \notin Wait /\ borrower[c].pc \notin Gr /\ borrower[c].pc \notin Wait
      BY DEF Gr, Wait, Hold
    <2>2. /\ Num(borrower, Gr) \in Nat /\ Num(b2, Gr) \in Nat
          /\ Num(borrower, Wait) \in Nat /\ Num(b2, Wait) \in Nat
          /\ Num(borrower, Use) \in Nat /\ Num(b2, Use) \in Nat
          /\ Num(borrower, Hold) \in Nat /\ Num(b2, Hold) \in Nat
          /\ Num(b2, Gr) + 0 = Num(borrower, Gr) + 0
          /\ Num(b2, Wait) + 0 = Num(borrower, Wait) + 0
          /\ Num(b2, Use) + (IF borrower[c].pc \in Use THEN 1 ELSE 0) = Num(borrower, Use) + (IF r.pc \in Use THEN 1 ELSE 0)
          /\ Num(b2, Hold) + 1 = Num(borrower, Hold) + 1
      BY <1>2, <2>1, FourMoves
    <2> HIDE DEF b2
    <2> QED  BY <2>2
  <1>5. b2 \in Borrowers /\ IsFiniteSet(At(b2, InPool))
    BY <1>2, MovedTyped
  <1>6. Num(b2, Use) <= Num(b2, Hold)
    BY <1>5, UsersHold
  <1>7. Typed(slot, b2) /\ QueueOK(slot, b2)
    BY <1>1, <1>2, MovesOn
  <1> HIDE DEF b2
  <1>8. Len(slot.idle) + Num(b2, Use) <= slot.allocated
    <2>1. slot.free \in Nat /\ slot.allocated \in Nat /\ Len(slot.idle) \in Nat
      BY <1>2, SlotTyped
    <2>2. /\ slot.free + Num(borrower, Hold) + Num(borrower, Gr) = slot.allocated
          /\ Len(slot.idle) + Num(borrower, Use) <= slot.allocated
      BY <1>3 DEF CountsOK
    <2>3. CASE slot.idle = <<>>
      <3>1. Len(slot.idle) = 0
        BY <2>3
      <3> QED  BY <1>4, <1>6, <2>1, <2>2, <3>1
    <2>4. CASE r.pc \in Use => borrower[c].pc \in Use
      <3>1. Num(b2, Use) <= Num(borrower, Use)
        BY <1>4, <2>4
      <3> QED  BY <1>4, <2>1, <2>2, <3>1
    <2> QED  BY <2>3, <2>4
  <1>9. CountsOK(slot, b2)
    BY <1>3, <1>4, <1>8 DEF CountsOK
  <1>10. Sound(slot', borrower')
    BY <1>7, <1>9 DEF Sound, b2
  <1> QED  BY <1>2, <1>10, Kept

LEMMA StartDialInv ==
  ASSUME IInv, NEW c \in PoolCallers, StartDial(c)
  PROVE  IInv'
  <1>1. borrower[c].pc = "pick" /\ slot.idle = <<>> /\ UNCHANGED <<slot, policy, owner>>
    BY DEF StartDial
  <1>2. borrower \in Borrowers /\ borrower[c] \in Places
    BY <1>1, Here
  <1>3. held' \in SUBSET Addresses
    BY DEF StartDial, IInv, Addresses
  <1> DEFINE r == [borrower[c] EXCEPT !.pc = "dialing", !.order = held']
  <1>4. r \in Places /\ r.pc = "dialing"
    BY <1>2, <1>3 DEF Places, PCs
  <1>5. borrower' = [borrower EXCEPT ![c] = r]
    <2>1. borrower' = [borrower EXCEPT ![c].pc = "dialing", ![c].order = held']
      BY DEF StartDial
    <2> QED  BY <1>2, <2>1 DEF Borrowers
  <1> HIDE DEF r
  <1> QED  BY <1>1, <1>3, <1>4, <1>5, SteadyInv DEF Hold, Use

LEMMA ConnectInv ==
  ASSUME IInv, NEW c \in PoolCallers, NEW a \in UNION PoolAnswers, Connect(c, a)
  PROVE  IInv'
  <1> DEFINE r == [pc |-> "leased", conn |-> [at |-> a, fit |-> TRUE], order |-> {}]
  <1>1. a \in Addresses /\ {} \in SUBSET Addresses
    BY DEF Addresses
  <1>2. [at |-> a, fit |-> TRUE] \in Conns
    BY <1>1, Zenon DEF Conns
  <1>3. r \in Places /\ r.pc = "leased"
    BY <1>1, <1>2 DEF Places, PCs
  <1>4. borrower' = [borrower EXCEPT ![c] = r] /\ borrower[c].pc = "dialing" /\ UNCHANGED <<slot, policy, owner, held>>
    BY DEF Connect, PoolRest
  <1>5. held' \in SUBSET Addresses
    BY <1>4 DEF IInv
  <1> HIDE DEF r
  <1> QED  BY <1>3, <1>4, <1>5, SteadyInv DEF Hold, Use

LEMMA SpoilsInv ==
  ASSUME IInv, NEW c \in PoolCallers, Spoils(c)
  PROVE  IInv'
  <1>1. borrower[c].pc = "leased" /\ UNCHANGED <<slot, policy, owner, held>>
    BY DEF Spoils, PoolRest
  <1>2. borrower \in Borrowers /\ borrower[c] \in Places
    BY <1>1, Here
  <1> DEFINE conn == [borrower[c].conn EXCEPT !.fit = FALSE]
             r == [borrower[c] EXCEPT !.conn = conn]
  <1>3. borrower[c].conn \in Conns
    BY <1>2 DEF Places
  <1>5. conn \in Conns
    BY <1>3, Zenon DEF Conns
  <1>8. borrower' = [borrower EXCEPT ![c] = r]
    BY <1>2 DEF Spoils, Borrowers, Places
  <1> HIDE DEF conn
  <1>7. r \in Places /\ r.pc = "leased"
    BY <1>1, <1>2, <1>5 DEF Places, PCs
  <1>9. held' \in SUBSET Addresses
    BY <1>1 DEF IInv
  <1> HIDE DEF r
  <1> QED  BY <1>1, <1>7, <1>8, <1>9, SteadyInv DEF Hold, Use

LEMMA ReleasesInv ==
  ASSUME IInv, NEW c \in PoolCallers, DialFails(c) \/ Release(c)
  PROVE  IInv'
  <1>1. borrower[c].pc \in Hold /\ borrower[c].pc # "away" /\ DropPermit(c) /\ PoolRest
    BY DEF DialFails, Release, Hold
  <1>2. slot.made /\ Sound(slot, borrower)
    BY <1>1, Here
  <1>3. Sound(slot', borrower') /\ slot'.idle = slot.idle /\ slot'.live = slot.live /\ slot'.closed = slot.closed
    BY <1>1, <1>2, DropPermitSound
  <1>4. held' \in SUBSET Addresses
    BY <1>1 DEF IInv, PoolRest
  <1> QED  BY <1>1, <1>2, <1>3, <1>4, Kept DEF PoolRest

\* The invariant from its parts, in a state that has the endpoint.
LEMMA Rebuilt ==
  ASSUME Sound(slot', borrower'), policy' \in PoolConfigs, held' \in SUBSET Addresses,
         owner' \in {"none", "record", "retire", "drain", "gone"},
         owner' \in {"drain", "gone"} => slot'.closed,
         owner' = "gone" => slot'.idle = <<>>,
         owner' \in {"none", "record"} /\ slot'.live # Anywhere =>
           \A i \in DOMAIN slot'.idle : slot'.idle[i].at \in slot'.live
  PROVE  IInv'
  <1>1. slot'.made
    BY MadeTyped DEF Sound, Typed
  <1> QED  BY <1>1 DEF IInv, Sound, Typed, QueueOK, CountsOK, At, Num

\* Parking less, or as much, never disturbs the counts.
LEMMA IdleOnly ==
  ASSUME NEW s, NEW b, Sound(s, b), NEW t \in PoolSlots, t.config = s.config, t.allocated = s.allocated,
         t.free = s.free, t.queue = s.queue, t.waiting = s.waiting, Len(t.idle) <= Len(s.idle)
  PROVE  Sound(t, b)
  <1>1. s \in PoolSlots /\ b \in Borrowers /\ IsFiniteSet(At(b, InPool)) /\ QueueOK(s, b) /\ CountsOK(s, b)
    BY DEF Sound, Typed
  <1>2. QueueOK(t, b)
    BY <1>1, QueueSame
  <1>3. Num(b, Use) \in Nat
    BY <1>1, UsersHold
  <1>4. /\ t.idle \in Seq(Conns) /\ Len(t.idle) \in Nat /\ Len(s.idle) \in Nat
        /\ s.allocated \in Nat /\ s.config.idle \in Nat
    BY <1>1, SlotTyped
  <1>5. s.idle = <<>> => t.idle = <<>>
    <2> SUFFICES ASSUME s.idle = <<>> PROVE t.idle = <<>>
      OBVIOUS
    <2>1. Len(s.idle) = 0
      OBVIOUS
    <2>2. Len(t.idle) = 0
      BY <1>4, <2>1
    <2> QED  BY <1>4, <2>2
  <1>6. Len(t.idle) + Num(b, Use) <= t.allocated
    <2>1. Len(s.idle) + Num(b, Use) <= s.allocated
      BY <1>1 DEF CountsOK
    <2> QED  BY <1>3, <1>4, <2>1
  <1>7. Len(t.idle) <= t.config.idle
    <2>1. Len(s.idle) <= s.config.idle
      BY <1>1 DEF CountsOK
    <2> QED  BY <1>4, <2>1
  <1>8. CountsOK(t, b)
    BY <1>1, <1>5, <1>6, <1>7 DEF CountsOK
  <1> QED  BY <1>1, <1>2, <1>8 DEF Sound, Typed

\* What was so of every idle connection stays so.
LEMMA StillLive ==
  ASSUME IInv, slot.made, owner \in {"none", "record"}, NEW idle,
         \A i \in DOMAIN idle : \E j \in DOMAIN slot.idle : idle[i].at = slot.idle[j].at
  PROVE  slot.live # Anywhere => \A i \in DOMAIN idle : idle[i].at \in slot.live
  BY DEF IInv

LEMMA ReuseInv ==
  ASSUME IInv, NEW c \in PoolCallers, Reuse(c)
  PROVE  IInv'
  <1>1. borrower[c].pc = "pick" /\ slot.idle # <<>> /\ PoolRest
    BY DEF Reuse
  <1>2. /\ slot.made /\ Sound(slot, borrower) /\ borrower[c] \in Places
        /\ borrower \in Borrowers /\ IsFiniteSet(At(borrower, InPool)) /\ slot \in PoolSlots
    BY <1>1, Here
  <1>3. slot.idle \in Seq(Conns)
    BY <1>2, SlotTyped
  <1> DEFINE rest == Tail(slot.idle)
             first == Head(slot.idle)
  <1>4. /\ rest \in Seq(Conns) /\ first \in Conns
        /\ Len(rest) \in Nat /\ Len(slot.idle) = Len(rest) + 1
        /\ \A i \in DOMAIN rest : i + 1 \in DOMAIN slot.idle /\ rest[i] = slot.idle[i + 1]
    BY <1>1, <1>3
  <1>5. slot' = [slot EXCEPT !.idle = rest]
    BY DEF Reuse
  <1> HIDE DEF rest
  <1>6. slot' \in PoolSlots
    BY <1>2, <1>4, <1>5 DEF PoolSlots
  <1>7. /\ slot'.free = slot.free /\ slot'.queue = slot.queue /\ slot'.idle = rest
        /\ slot'.live = slot.live /\ slot'.closed = slot.closed /\ slot'.waiting = slot.waiting
        /\ slot'.config = slot.config /\ slot'.allocated = slot.allocated
    BY <1>2, <1>5 DEF PoolSlots
  <1>8. Sound(slot', borrower)
    BY <1>2, <1>4, <1>6, <1>7, IdleOnly
  <1>9. Sound(slot', borrower')
    <2>1. CASE ~first.fit
      <3>1. borrower' = [borrower EXCEPT ![c] = borrower[c]]
        BY <2>1 DEF Reuse
      <3>2. borrower' = borrower
        BY <1>2, <3>1 DEF Borrowers
      <3> QED  BY <1>8, <3>2
    <2>2. CASE first.fit
      <3> DEFINE r == [borrower[c] EXCEPT !.pc = "leased", !.conn = first]
                 b2 == [borrower EXCEPT ![c] = r]
      <3>1. borrower' = b2
        BY <2>2 DEF Reuse
      <3>2. r \in Places /\ r.pc = "leased"
        BY <1>2, <1>4 DEF Places, PCs
      <3> HIDE DEF r, first
      <3>3. /\ Num(b2, Gr) = Num(borrower, Gr) /\ Num(b2, Wait) = Num(borrower, Wait)
            /\ Num(b2, Hold) = Num(borrower, Hold)
            /\ Num(borrower, Use) \in Nat /\ Num(b2, Use) = Num(borrower, Use) + 1
        <4>1. /\ "leased" \notin Gr /\ "leased" \notin Wait /\ "leased" \in Hold /\ "leased" \in Use
              /\ "pick" \notin Gr /\ "pick" \notin Wait /\ "pick" \in Hold /\ "pick" \notin Use
          BY DEF Gr, Wait, Hold, Use
        <4>2. /\ Num(borrower, Gr) \in Nat /\ Num(b2, Gr) \in Nat
              /\ Num(borrower, Wait) \in Nat /\ Num(b2, Wait) \in Nat
              /\ Num(borrower, Use) \in Nat /\ Num(b2, Use) \in Nat
              /\ Num(borrower, Hold) \in Nat /\ Num(b2, Hold) \in Nat
              /\ Num(b2, Gr) + 0 = Num(borrower, Gr) + 0
              /\ Num(b2, Wait) + 0 = Num(borrower, Wait) + 0
              /\ Num(b2, Use) + 0 = Num(borrower, Use) + 1
              /\ Num(b2, Hold) + 1 = Num(borrower, Hold) + 1
          BY <1>1, <1>2, <3>2, <4>1, FourMoves
        <4> HIDE DEF b2
        <4> QED  BY <4>2
      <3>4. Typed(slot', b2) /\ QueueOK(slot', b2)
        BY <1>1, <1>2, <1>6, <1>7, <3>2, MovesOn
      <3> HIDE DEF b2
      <3>5. CountsOK(slot, borrower) /\ CountsOK(slot', borrower)
        BY <1>2, <1>8 DEF Sound
      <3>6. Len(rest) + Num(b2, Use) <= slot.allocated
        <4>1. Len(slot.idle) + Num(borrower, Use) <= slot.allocated
          BY <3>5 DEF CountsOK
        <4>2. Len(rest) + Num(b2, Use) = Len(slot.idle) + Num(borrower, Use)
          BY <1>4, <3>3
        <4> QED  BY <4>1, <4>2
      <3>7. CountsOK(slot', b2)
        BY <1>7, <3>3, <3>5, <3>6 DEF CountsOK
      <3> QED  BY <3>1, <3>4, <3>7 DEF Sound
    <2> QED  BY <2>1, <2>2
  <1>10. owner \in {"none", "record"} => (slot'.live # Anywhere => \A i \in DOMAIN rest : rest[i].at \in slot'.live)
    BY <1>2, <1>4, <1>7, StillLive
  <1>11. owner # "gone"
    BY <1>1 DEF IInv
  <1> QED
    BY <1>1, <1>7, <1>9, <1>10, <1>11, Rebuilt DEF IInv, PoolRest

LEMMA ReturnInv ==
  ASSUME IInv, NEW c \in PoolCallers, Return(c)
  PROVE  IInv'
  <1>1. borrower[c].pc = "leased" /\ PoolRest
    BY DEF Return
  <1>2. /\ slot.made /\ Sound(slot, borrower) /\ borrower[c] \in Places
        /\ borrower \in Borrowers /\ IsFiniteSet(At(borrower, InPool)) /\ slot \in PoolSlots
    BY <1>1, Here
  <1> DEFINE r == [Returned EXCEPT !.pc = "parked"]
             b2 == [borrower EXCEPT ![c] = r]
             conn == borrower[c].conn
  <1>3. r \in Places /\ r.pc = "parked"
    BY ReturnedTyped DEF Places, PCs
  <1>4. borrower' = b2
    BY DEF Return
  <1> HIDE DEF r
  <1>5. /\ Num(b2, Gr) = Num(borrower, Gr) /\ Num(b2, Wait) = Num(borrower, Wait)
        /\ Num(b2, Hold) = Num(borrower, Hold)
        /\ Num(b2, Use) \in Nat /\ Num(borrower, Use) = Num(b2, Use) + 1
    BY <1>1, <1>2, <1>3, FourMoves DEF Gr, Wait, Hold, Use
  <1>6. CountsOK(slot, borrower)
    BY <1>2 DEF Sound
  <1>7. /\ slot.idle \in Seq(Conns) /\ Len(slot.idle) \in Nat /\ slot.allocated \in Nat
        /\ slot.config.idle \in Nat /\ slot.config.max \in Nat
    BY <1>2, SlotTyped
  <1>8. CASE ~Parks(conn)
    <2>1. slot' = slot
      BY <1>8 DEF Return
    <2>2. Typed(slot, b2) /\ QueueOK(slot, b2)
      BY <1>1, <1>2, <1>3, MovesOn
    <2> HIDE DEF b2
    <2>3. Len(slot.idle) + Num(b2, Use) <= slot.allocated
      <3>1. Len(slot.idle) + Num(borrower, Use) <= slot.allocated
        BY <1>6 DEF CountsOK
      <3> QED  BY <1>5, <1>7, <3>1
    <2>4. CountsOK(slot, b2)
      BY <1>5, <1>6, <2>3 DEF CountsOK
    <2>5. Sound(slot', borrower')
      BY <1>4, <2>1, <2>2, <2>4 DEF Sound
    <2>6. held' \in SUBSET Addresses
      BY <1>1 DEF IInv, PoolRest
    <2> QED  BY <1>1, <1>2, <2>1, <2>5, <2>6, Kept DEF PoolRest
  <1>9. CASE Parks(conn)
    <2> DEFINE idle == Append(slot.idle, conn)
    <2>1. slot' = [slot EXCEPT !.idle = idle]
      BY <1>9 DEF Return
    <2>2. conn \in Conns
      BY <1>2 DEF Places
    <2>3. /\ idle \in Seq(Conns) /\ Len(idle) = Len(slot.idle) + 1
          /\ \A i \in DOMAIN idle : (i \in DOMAIN slot.idle /\ idle[i] = slot.idle[i]) \/ idle[i] = conn
      BY <1>7, <2>2
    <2> HIDE DEF idle
    <2>4. slot' \in PoolSlots
      BY <1>2, <2>1, <2>3 DEF PoolSlots
    <2>5. /\ slot'.free = slot.free /\ slot'.queue = slot.queue /\ slot'.idle = idle
          /\ slot'.live = slot.live /\ slot'.closed = slot.closed /\ slot'.waiting = slot.waiting
          /\ slot'.config = slot.config /\ slot'.allocated = slot.allocated
      BY <1>2, <2>1 DEF PoolSlots
    <2>6. Typed(slot', b2) /\ QueueOK(slot', b2)
      BY <1>1, <1>2, <1>3, <2>4, <2>5, MovesOn
    <2> HIDE DEF b2
    <2>7. ~InDebt /\ ~slot.closed /\ Len(slot.idle) < slot.config.idle /\ (slot.live = Anywhere \/ conn.at \in slot.live)
      BY <1>9 DEF Parks
    <2>8. Len(idle) + Num(b2, Use) <= slot.allocated
      <3>1. Len(slot.idle) + Num(borrower, Use) <= slot.allocated
        BY <1>6 DEF CountsOK
      <3> QED  BY <1>5, <1>7, <2>3, <3>1
    <2>9. Len(idle) <= slot.config.idle
      BY <1>7, <2>3, <2>7
    <2>10. CountsOK(slot', b2)
      BY <1>5, <1>6, <2>5, <2>7, <2>8, <2>9 DEF CountsOK, InDebt
    <2>11. Sound(slot', borrower')
      BY <1>4, <2>6, <2>10 DEF Sound
    <2>12. owner \notin {"drain", "gone"}
      BY <2>7 DEF IInv
    <2>13. owner \in {"none", "record"} /\ slot'.live # Anywhere =>
             \A i \in DOMAIN slot'.idle : slot'.idle[i].at \in slot'.live
      BY <1>2, <2>3, <2>5, <2>7 DEF IInv
    <2> QED  BY <1>1, <2>5, <2>11, <2>12, <2>13, Rebuilt DEF IInv, PoolRest
  <1> QED  BY <1>8, <1>9

LEMMA ExpiresInv ==
  ASSUME IInv, slot.made, NEW i \in DOMAIN slot.idle, Expires(i)
  PROVE  IInv'
  <1>1. Sound(slot, borrower) /\ slot \in PoolSlots
    BY DEF IInv, Sound, Typed
  <1>2. slot.idle \in Seq(Conns) /\ Len(slot.idle) \in Nat
    BY <1>1, SlotTyped
  <1> DEFINE conn == [slot.idle[i] EXCEPT !.fit = FALSE]
             idle == [slot.idle EXCEPT ![i] = conn]
  <1>3. slot.idle[i] \in Conns
    BY <1>2
  <1>4. conn \in Conns
    BY <1>3, Zenon DEF Conns
  <1>5. conn.at = slot.idle[i].at
    BY <1>3, Zenon DEF Conns
  <1>6. slot' = [slot EXCEPT !.idle = idle] /\ borrower' = borrower /\ PoolRest
    BY <1>1 DEF Expires, PoolSlots
  <1> HIDE DEF conn
  <1>7. idle \in Seq(Conns) /\ Len(idle) = Len(slot.idle) /\ DOMAIN idle = DOMAIN slot.idle
    BY <1>2, <1>4
  <1>8. \A j \in DOMAIN idle : idle[j].at = slot.idle[j].at
    BY <1>2, <1>5, <1>7
  <1> HIDE DEF idle
  <1>9. slot' \in PoolSlots
    BY <1>1, <1>6, <1>7 DEF PoolSlots
  <1>10. /\ slot'.free = slot.free /\ slot'.queue = slot.queue /\ slot'.idle = idle
         /\ slot'.live = slot.live /\ slot'.closed = slot.closed /\ slot'.waiting = slot.waiting
         /\ slot'.config = slot.config /\ slot'.allocated = slot.allocated
    BY <1>1, <1>6 DEF PoolSlots
  <1>11. Sound(slot', borrower)
    BY <1>1, <1>2, <1>7, <1>9, <1>10, IdleOnly
  <1>12. owner # "gone"
    <2>1. DOMAIN slot.idle # {}
      OBVIOUS
    <2>2. slot.idle # <<>>
      BY <2>1
    <2> QED  BY <2>2 DEF IInv
  <1>13. owner \in {"none", "record"} => (slot.live # Anywhere => \A j \in DOMAIN idle : idle[j].at \in slot.live)
    BY <1>7, <1>8, StillLive
  <1> QED  BY <1>6, <1>10, <1>11, <1>12, <1>13, Rebuilt DEF IInv, PoolRest

\* Admission::adopt: permits are made, or as many as are free are taken.
LEMMA ResizedOK ==
  ASSUME Sound(slot, borrower), NEW config \in PoolConfigs, NEW b2,
         b2 = IF config.max > slot.allocated
              THEN GrantTo(Granted(slot, config.max - slot.allocated), borrower) ELSE borrower
  PROVE  /\ Typed(Resized(config), b2) /\ QueueOK(Resized(config), b2)
         /\ Resized(config).free + Num(b2, Hold) + Num(b2, Gr) = Resized(config).allocated
         /\ Resized(config).allocated >= config.max /\ Resized(config).config = config
         /\ Resized(config).allocated > config.max => Resized(config).free = 0
         /\ Resized(config).waiting = Num(b2, Wait)
         /\ Resized(config).idle = slot.idle /\ Resized(config).live = slot.live
         /\ Resized(config).closed = slot.closed
  <1> DEFINE s1 == Resized(config)
  <1>1. /\ Typed(slot, borrower) /\ QueueOK(slot, borrower) /\ CountsOK(slot, borrower)
        /\ slot \in PoolSlots /\ borrower \in Borrowers /\ IsFiniteSet(At(borrower, InPool))
    BY DEF Sound, Typed
  <1>2. /\ slot.free \in Nat /\ slot.allocated \in Nat /\ config.max \in Nat
    BY <1>1, SlotTyped, ConfigTyped
  <1>3. /\ slot.free + Num(borrower, Hold) + Num(borrower, Gr) = slot.allocated
        /\ slot.waiting = Num(borrower, Wait)
    BY <1>1 DEF CountsOK
  <1>4. Num(borrower, Hold) \in Nat /\ Num(borrower, Gr) \in Nat
    BY <1>1, Counted, Kinds
  <1>5. CASE config.max > slot.allocated
    <2> DEFINE n == config.max - slot.allocated
               s0 == AddPermits(slot, n)
               given == Given(slot, n)
    <2>1. n \in Nat
      BY <1>2, <1>5
    <2>2. b2 = Handing(slot, borrower, n)
      BY <1>5 DEF Handing
    <2>3. s1 = [s0 EXCEPT !.config = config, !.allocated = config.max]
      BY <1>5 DEF Resized
    <2>n. n = config.max - slot.allocated
      OBVIOUS
    <2> HIDE DEF n
    <2> DEFINE b0 == Handing(slot, borrower, n)
    <2>p. /\ Typed(s0, b0) /\ QueueOK(s0, b0)
          /\ given \in 0..n
          /\ s0.free = slot.free + (n - given)
          /\ s0.allocated = slot.allocated /\ s0.config = slot.config
          /\ s0.idle = slot.idle /\ s0.live = slot.live
          /\ s0.closed = slot.closed /\ s0.waiting = slot.waiting
          /\ Num(b0, Gr) = Num(borrower, Gr) + given
          /\ Num(b0, Hold) = Num(borrower, Hold)
          /\ Num(b0, Wait) = Num(borrower, Wait)
      BY <1>1, <2>1, PoolPermits
    <2>q. b2 = b0
      BY <2>2
    <2> HIDE DEF s0, given, s1, b0
    <2>4. /\ Typed(s0, b2) /\ QueueOK(s0, b2)
          /\ given \in 0..n
          /\ s0.free = slot.free + (n - given)
          /\ s0.allocated = slot.allocated /\ s0.config = slot.config
          /\ s0.idle = slot.idle /\ s0.live = slot.live
          /\ s0.closed = slot.closed /\ s0.waiting = slot.waiting
          /\ Num(b2, Gr) = Num(borrower, Gr) + given
          /\ Num(b2, Hold) = Num(borrower, Hold)
          /\ Num(b2, Wait) = Num(borrower, Wait)
      BY <2>p, <2>q
    <2>5. s0 \in PoolSlots /\ b2 \in Borrowers /\ IsFiniteSet(At(b2, InPool))
      BY <2>4 DEF Typed
    <2>6. s1 \in PoolSlots
      BY <1>2, <2>3, <2>5 DEF PoolSlots
    <2>7. /\ s1.free = s0.free /\ s1.queue = s0.queue /\ s1.idle = slot.idle /\ s1.live = slot.live
          /\ s1.closed = slot.closed /\ s1.waiting = slot.waiting
          /\ s1.config = config /\ s1.allocated = config.max
      BY <2>3, <2>4, <2>5 DEF PoolSlots
    <2>8. QueueOK(s1, b2)
      BY <2>4, <2>7, QueueSame
    <2>9. s1.free + Num(b2, Hold) + Num(b2, Gr) = config.max
      <3>1. given \in Nat
        BY <2>1, <2>4
      <3>2. s1.free + Num(b2, Hold) + Num(b2, Gr) = (slot.free + (n - given)) + Num(borrower, Hold) + (Num(borrower, Gr) + given)
        BY <2>4, <2>7
      <3>3. (slot.free + (n - given)) + Num(borrower, Hold) + (Num(borrower, Gr) + given)
              = (slot.free + Num(borrower, Hold) + Num(borrower, Gr)) + n
        BY <1>2, <1>4, <2>1, <3>1
      <3>4. slot.allocated + n = config.max
        BY <1>2, <2>n
      <3> QED  BY <1>3, <3>2, <3>3, <3>4
    <2>10. ~(config.max > config.max) /\ config.max >= config.max
      BY <1>2
    <2> QED  BY <1>3, <2>4, <2>5, <2>6, <2>7, <2>8, <2>9, <2>10 DEF Typed, s1
  <1>6. CASE ~(config.max > slot.allocated)
    <2> DEFINE taken == Smaller(slot.allocated - config.max, slot.free)
               a == slot.allocated - taken
               f == slot.free - taken
    <2>1. b2 = borrower
      BY <1>6
    <2>2. s1 = [slot EXCEPT !.config = config, !.allocated = a, !.free = f]
      BY <1>6 DEF Resized
    <2>3. /\ a \in Nat /\ f \in Nat /\ a >= config.max /\ (a > config.max => f = 0)
          /\ f <= slot.free
      BY <1>2, <1>6 DEF Smaller
    <2>4. f + Num(borrower, Hold) + Num(borrower, Gr) = a
      <3>1. taken \in Int
        BY <1>2 DEF Smaller
      <3>2. f = slot.free - taken /\ a = slot.allocated - taken
        OBVIOUS
      <3> HIDE DEF taken, f, a
      <3> QED  BY <1>2, <1>3, <1>4, <3>1, <3>2
    <2> HIDE DEF a, f, s1
    <2>5. s1 \in PoolSlots
      BY <1>1, <2>2, <2>3 DEF PoolSlots
    <2>6. /\ s1.free = f /\ s1.queue = slot.queue /\ s1.idle = slot.idle /\ s1.live = slot.live
          /\ s1.closed = slot.closed /\ s1.waiting = slot.waiting
          /\ s1.config = config /\ s1.allocated = a
      BY <1>1, <2>2 DEF PoolSlots
    <2>7. s1.free > 0 => slot.free > 0
      BY <1>2, <2>3, <2>6
    <2>8. QueueOK(s1, b2)
      BY <1>1, <2>1, <2>6, <2>7, QueueSame
    <2> QED  BY <1>1, <1>3, <2>1, <2>3, <2>4, <2>5, <2>6, <2>8 DEF Typed, s1
  <1> QED  BY <1>5, <1>6

LEMMA AdoptInv ==
  ASSUME IInv, NEW config \in PoolConfigs, Adopt(config)
  PROVE  IInv'
  <1>1. owner = "none" /\ policy' = config /\ UNCHANGED <<owner, held>>
    BY DEF Adopt
  <1>2. CASE ~slot.made
    <2>1. slot' = slot /\ borrower' = borrower
      BY <1>2 DEF Adopt
    <2> QED  BY <1>1, <1>2, <2>1 DEF IInv, At
  <1>3. CASE slot.made
    <2> DEFINE s1 == Resized(config)
               keep == {i \in DOMAIN s1.idle : s1.idle[i].fit /\ config.parks}
               k == KeepIdle(config, s1)
               idle == Cut(s1.idle, keep, k)
               b2 == IF config.max > slot.allocated
                     THEN GrantTo(Granted(slot, config.max - slot.allocated), borrower) ELSE borrower
    <2>1. slot' = [s1 EXCEPT !.idle = idle] /\ borrower' = b2
      BY <1>3 DEF Adopt, Cut
    <2>2. Sound(slot, borrower)
      BY <1>3 DEF IInv
    <2>3. /\ Typed(s1, b2) /\ QueueOK(s1, b2)
          /\ s1.free + Num(b2, Hold) + Num(b2, Gr) = s1.allocated
          /\ s1.allocated >= config.max /\ s1.config = config
          /\ s1.allocated > config.max => s1.free = 0
          /\ s1.waiting = Num(b2, Wait)
          /\ s1.idle = slot.idle /\ s1.live = slot.live /\ s1.closed = slot.closed
      BY <2>2, ResizedOK
    <2> HIDE DEF s1, b2
    <2>4. s1 \in PoolSlots /\ b2 \in Borrowers /\ IsFiniteSet(At(b2, InPool))
      BY <2>3 DEF Typed
    <2>5. /\ s1.free \in Nat /\ s1.allocated \in Nat /\ s1.idle \in Seq(Conns)
          /\ config.max \in Nat /\ config.idle \in Nat
      BY <2>4, SlotTyped, ConfigTyped
    <2>6. Num(b2, Hold) \in Nat /\ Num(b2, Gr) \in Nat /\ Num(b2, Use) \in Nat /\ Num(b2, Use) <= Num(b2, Hold)
      BY <2>4, UsersHold, Counted, Kinds
    <2> DEFINE active == s1.allocated - s1.free
    <2>7. active \in Nat /\ active = Num(b2, Hold) + Num(b2, Gr)
      BY <2>3, <2>5, <2>6
    <2>8. k = Smaller(config.idle, IF config.max > active THEN config.max - active ELSE 0)
      BY DEF KeepIdle
    <2>9. s1.allocated > config.max => active > config.max
      BY <2>3, <2>5
    <2>10. active <= s1.allocated
      BY <2>5
    <2> HIDE DEF active, k
    <2>11. k \in Nat /\ k <= config.idle
      BY <2>5, <2>7, <2>8 DEF Smaller
    <2>12. k + Num(b2, Use) <= s1.allocated
      <3>1. CASE config.max > active
        <4>1. k <= config.max - active
          BY <2>5, <2>7, <2>8, <3>1 DEF Smaller
        <4> QED  BY <2>3, <2>5, <2>6, <2>7, <2>11, <4>1
      <3>2. CASE ~(config.max > active)
        <4>1. k = 0
          BY <2>5, <2>7, <2>8, <3>2 DEF Smaller
        <4> QED  BY <2>5, <2>6, <2>7, <2>10, <4>1
      <3> QED  BY <3>1, <3>2
    <2>13. s1.allocated > config.max => k = 0
      <3> SUFFICES ASSUME s1.allocated > config.max PROVE k = 0
        OBVIOUS
      <3>1. ~(config.max > active)
        BY <2>5, <2>7, <2>9
      <3> QED  BY <2>5, <2>8, <3>1 DEF Smaller
    <2>k. keep \in SUBSET DOMAIN s1.idle
      OBVIOUS
    <2> HIDE DEF keep
    <2>14. /\ idle \in Seq(Conns) /\ Len(idle) \in Nat /\ Len(idle) <= k
           /\ k = 0 => idle = <<>>
           /\ \A i \in DOMAIN idle : \E j \in DOMAIN s1.idle : idle[i] = s1.idle[j]
      BY <2>5, <2>11, <2>k, Trimmed
    <2> HIDE DEF idle
    <2>15. slot' \in PoolSlots
      BY <2>1, <2>4, <2>14 DEF PoolSlots
    <2>16. /\ slot'.free = s1.free /\ slot'.queue = s1.queue /\ slot'.idle = idle /\ slot'.live = slot.live
           /\ slot'.closed = slot.closed /\ slot'.waiting = s1.waiting
           /\ slot'.config = config /\ slot'.allocated = s1.allocated
      BY <2>1, <2>3, <2>4 DEF PoolSlots
    <2>17. Len(idle) + Num(b2, Use) <= s1.allocated
      BY <2>5, <2>6, <2>11, <2>12, <2>14
    <2>18. Len(idle) <= config.idle
      BY <2>5, <2>11, <2>14
    <2>19. CountsOK(slot', b2)
      BY <2>3, <2>13, <2>14, <2>16, <2>17, <2>18 DEF CountsOK
    <2>20. QueueOK(slot', b2)
      BY <2>3, <2>16, QueueSame
    <2>21. Sound(slot', borrower')
      BY <2>1, <2>4, <2>15, <2>19, <2>20 DEF Sound, Typed
    <2>22. slot.live # Anywhere => \A i \in DOMAIN idle : idle[i].at \in slot.live
      BY <1>1, <1>3, <2>3, <2>14, StillLive
    <2>23. owner' = "none" /\ held' \in SUBSET Addresses
      BY <1>1 DEF IInv
    <2> QED  BY <1>1, <2>16, <2>21, <2>22, <2>23, Rebuilt
  <1> QED  BY <1>2, <1>3 DEF IInv

-----------------------------------------------------------------------------
(* The resolver and the drain.                                             *)

LEMMA RetireInv == IInv /\ Retire => IInv'
  <1> SUFFICES ASSUME IInv, Retire PROVE IInv'
    OBVIOUS
  <1>1. owner = "record" /\ UNCHANGED <<policy, borrower, held>>
    BY DEF Retire
  <1>2. CASE ~slot.made
    <2>1. slot' = slot /\ owner' = "none"
      BY <1>2 DEF Retire
    <2> QED  BY <1>1, <1>2, <2>1 DEF IInv, At
  <1>3. CASE slot.made
    <2>1. slot' = [slot EXCEPT !.live = held] /\ owner' = "retire"
      BY <1>3 DEF Retire
    <2>2. Sound(slot, borrower) /\ slot \in PoolSlots /\ held \in SUBSET Addresses
      BY <1>3 DEF IInv, Sound, Typed
    <2>3. slot' \in PoolSlots
      BY <2>1, <2>2 DEF PoolSlots
    <2>4. /\ slot'.free = slot.free /\ slot'.queue = slot.queue /\ slot'.idle = slot.idle
          /\ slot'.waiting = slot.waiting /\ slot'.config = slot.config /\ slot'.allocated = slot.allocated
      BY <2>1, <2>2 DEF PoolSlots
    <2>5. Len(slot'.idle) <= Len(slot.idle)
      BY <2>2, <2>4, SlotTyped
    <2>6. Sound(slot', borrower)
      BY <2>2, <2>3, <2>4, <2>5, IdleOnly
    <2> QED  BY <1>1, <2>1, <2>2, <2>6, Rebuilt DEF IInv
  <1> QED  BY <1>2, <1>3 DEF IInv

LEMMA SweepInv == IInv /\ Sweep => IInv'
  <1> SUFFICES ASSUME IInv, Sweep PROVE IInv'
    OBVIOUS
  <1>1. owner = "retire" /\ owner' = "none" /\ UNCHANGED <<policy, borrower, held>>
    BY DEF Sweep
  <1>2. slot.made
    BY <1>1 DEF IInv
  <1>3. Sound(slot, borrower) /\ slot \in PoolSlots
    BY <1>2 DEF IInv, Sound, Typed
  <1>4. slot.idle \in Seq(Conns) /\ Len(slot.idle) \in Nat
    BY <1>3, SlotTyped
  <1> DEFINE keep == {i \in DOMAIN slot.idle : slot.idle[i].at \in slot.live}
             idle == Retain(slot.idle, keep)
  <1>5. slot' = [slot EXCEPT !.idle = idle]
    BY DEF Sweep
  <1>6. keep \in SUBSET DOMAIN slot.idle /\ \A i \in keep : slot.idle[i].at \in slot.live
    OBVIOUS
  <1> HIDE DEF keep
  <1>7. /\ idle \in Seq(Conns) /\ Len(idle) = Cardinality(keep) /\ Cardinality(keep) \in 0..Len(slot.idle)
        /\ \A k \in DOMAIN idle : \E i \in keep : idle[k] = slot.idle[i]
    BY <1>4, <1>6, Retained
  <1> HIDE DEF idle
  <1>8. slot' \in PoolSlots
    BY <1>3, <1>5, <1>7 DEF PoolSlots
  <1>9. /\ slot'.free = slot.free /\ slot'.queue = slot.queue /\ slot'.idle = idle /\ slot'.live = slot.live
        /\ slot'.waiting = slot.waiting /\ slot'.config = slot.config /\ slot'.allocated = slot.allocated
    BY <1>3, <1>5 DEF PoolSlots
  <1>10. Len(slot'.idle) <= Len(slot.idle)
    BY <1>4, <1>7, <1>9
  <1>11. Sound(slot', borrower)
    BY <1>3, <1>8, <1>9, <1>10, IdleOnly
  <1>12. \A i \in DOMAIN slot'.idle : slot'.idle[i].at \in slot'.live
    BY <1>6, <1>7, <1>9
  <1> QED  BY <1>1, <1>11, <1>12, Rebuilt DEF IInv

LEMMA DrainInv == IInv /\ (Drain \/ Drained) => IInv'
  <1>1. ASSUME IInv, Drain PROVE IInv'
    <2>1. owner' = "drain" /\ UNCHANGED <<policy, borrower, held>> /\ slot.made
      BY <1>1 DEF Drain
    <2>2. slot' = [slot EXCEPT !.closed = TRUE]
      BY <1>1 DEF Drain
    <2>3. Sound(slot, borrower) /\ slot \in PoolSlots
      BY <1>1, <2>1 DEF IInv, Sound, Typed
    <2>4. slot' \in PoolSlots
      BY <2>2, <2>3, Zenon DEF PoolSlots
    <2>5. slot'.closed
      BY <2>2, <2>3, Zenon DEF PoolSlots
    <2>6. /\ slot'.free = slot.free /\ slot'.queue = slot.queue /\ slot'.idle = slot.idle
          /\ slot'.waiting = slot.waiting /\ slot'.config = slot.config /\ slot'.allocated = slot.allocated
      BY <2>2, <2>3 DEF PoolSlots
    <2>7. Len(slot'.idle) <= Len(slot.idle)
      BY <2>3, <2>6, SlotTyped
    <2>8. Sound(slot', borrower)
      BY <2>3, <2>4, <2>6, <2>7, IdleOnly
    <2>9. policy' \in PoolConfigs /\ held' \in SUBSET Addresses
      BY <1>1, <2>1 DEF IInv
    <2> QED  BY <2>1, <2>5, <2>8, <2>9, Rebuilt
  <1>2. ASSUME IInv, Drained PROVE IInv'
    <2>1. owner = "drain" /\ owner' = "gone" /\ UNCHANGED <<policy, borrower, held>>
      BY <1>2 DEF Drained
    <2>2. slot.made /\ slot.closed /\ policy' \in PoolConfigs /\ held' \in SUBSET Addresses
      BY <1>2, <2>1 DEF IInv
    <2>3. slot' = [slot EXCEPT !.idle = <<>>]
      BY <1>2 DEF Drained
    <2>4. Sound(slot, borrower) /\ slot \in PoolSlots
      BY <1>2, <2>2 DEF IInv, Sound, Typed
    <2>5. <<>> \in Seq(Conns) /\ Len(slot.idle) \in Nat
      BY <2>4, SlotTyped
    <2>6. slot' \in PoolSlots
      BY <2>3, <2>4, <2>5 DEF PoolSlots
    <2>7. /\ slot'.free = slot.free /\ slot'.queue = slot.queue /\ slot'.idle = <<>> /\ slot'.closed = slot.closed
          /\ slot'.waiting = slot.waiting /\ slot'.config = slot.config /\ slot'.allocated = slot.allocated
      BY <2>3, <2>4 DEF PoolSlots
    <2>8. Len(slot'.idle) <= Len(slot.idle)
      BY <2>5, <2>7
    <2>9. Sound(slot', borrower)
      BY <2>4, <2>6, <2>7, <2>8, IdleOnly
    <2> QED  BY <2>1, <2>2, <2>7, <2>9, Rebuilt
  <1> QED  BY <1>1, <1>2

LEMMA NewAnswerInv ==
  ASSUME IInv, NEW answer \in PoolAnswers, NewAnswer(answer)
  PROVE  IInv'
  <1>1. owner = "none" /\ owner' = "record" /\ held' = answer /\ UNCHANGED <<slot, policy, borrower>>
    BY DEF NewAnswer
  <1>2. answer \in SUBSET Addresses
    BY DEF Addresses
  <1> QED  BY <1>1, <1>2 DEF IInv, Sound, Typed, QueueOK, CountsOK, At, Num

-----------------------------------------------------------------------------
LEMMA InitInv == PoolInit => IInv
  <1> SUFFICES ASSUME PoolInit PROVE IInv
    OBVIOUS
  <1>1. slot = Unmade /\ policy = PoolFirst /\ borrower = [c \in PoolCallers |-> Returned] /\ owner = "none" /\ held = {}
    BY DEF PoolInit
  <1>2. ~slot.made
    BY <1>1, Zenon DEF Unmade
  <1>3. borrower \in Borrowers /\ \A c \in PoolCallers : borrower[c].pc = "away"
    BY <1>1, ReturnedTyped DEF Borrowers
  <1>4. At(borrower, InPool) = {}
    BY <1>3 DEF At, InPool
  <1>5. policy \in PoolConfigs /\ held \in SUBSET Addresses
    BY <1>1, PoolAssumption
  <1>6. slot.made = FALSE
    BY <1>1, Zenon DEF Unmade
  <1>7. slot.made \in BOOLEAN
    BY <1>6, Zenon
  <1>8. owner \in {"none", "record", "retire", "drain", "gone"} /\ owner \notin {"retire", "drain", "gone"}
    BY <1>1
  <1>9. owner \notin {"drain", "gone"} /\ owner # "gone"
    BY <1>8
  <1> QED  BY <1>1, <1>2, <1>3, <1>4, <1>5, <1>7, <1>8, <1>9, Zenon DEF IInv

LEMMA StepInv == IInv /\ [PoolNext]_poolVars => IInv'
  <1> SUFFICES ASSUME IInv, [PoolNext]_poolVars PROVE IInv'
    OBVIOUS
  <1>1. ASSUME NEW c \in PoolCallers, Serves(c) PROVE IInv'
    BY <1>1, RepaysInv, ApproveInv, ReuseInv, StartDialInv, ConnectInv, ReleasesInv, ReturnInv DEF Serves
  <1>2. ASSUME NEW c \in PoolCallers, Checkout(c) \/ Abandons(c) \/ Spoils(c) PROVE IInv'
    BY <1>2, CheckoutInv, AbandonsInv, SpoilsInv
  <1>3. ASSUME slot.made, NEW i \in 1..Len(slot.idle), Expires(i) PROVE IInv'
    BY <1>3, ExpiresInv DEF Expires
  <1>4. CASE UNCHANGED poolVars
    BY <1>4 DEF poolVars, IInv, Sound, Typed, QueueOK, CountsOK, At, Num
  <1> QED
    BY <1>1, <1>2, <1>3, <1>4, AdoptInv, NewAnswerInv, RetireInv, SweepInv, DrainInv DEF PoolNext

LEMMA PoolInvariant == PoolSpec => []IInv
  BY InitInv, StepInv, PTL DEF PoolSpec

\* PoolPermits, waiters and sockets of an endpoint are accounted for after any order of checkouts,
\* returns, cancelled waits, reloads, answers of the resolver and the drain, and nothing the
\* resolver or the drain took away is parked: Permit::drop may destroy a permit in debt because
\* Admission::adopt left no idle connection behind, and Exclusive::drop parks only what it may.
THEOREM PoolsSound == PoolSpec => []PoolSound
  <1>1. IInv => PoolSound
    <2> SUFFICES ASSUME IInv PROVE PoolBounded /\ PoolParksLive
      BY DEF PoolSound
    <2>1. PoolParksLive
      BY DEF IInv, PoolParksLive
    <2>2. PoolBounded
      <3> SUFFICES ASSUME slot.made PROVE PoolBounded
        BY DEF PoolBounded
      <3>1. QueueOK(slot, borrower) /\ CountsOK(slot, borrower) /\ slot \in PoolSlots
        BY DEF IInv, Sound, Typed
      <3>2. /\ Holders = At(borrower, Hold) /\ CallersAt({"granted"}) = At(borrower, Gr)
            /\ CallersAt({"dialing", "leased"}) = At(borrower, Use)
            /\ CallersAt({"queued", "granted"}) = At(borrower, Wait)
        BY DEF Holders, CallersAt, At, Hold, Gr, Use, Wait
      <3> QED  BY <3>1, <3>2 DEF PoolBounded, CountsOK, QueueOK, Num, Sockets
    <2> QED  BY <2>1, <2>2
  <1> QED  BY <1>1, PoolInvariant, PTL

=============================================================================
