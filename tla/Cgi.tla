-------------------------------- MODULE Cgi --------------------------------
(***************************************************************************)
(* The CGI terminal: crates/gatel-cgi-http, crates/gatel-cgi-protocol and  *)
(* the plugins fastcgi, scgi and cgi.                                      *)
(*                                                                         *)
(* A request that is let in becomes an exchange with a backend.  Over      *)
(* FastCGI and SCGI the exchange is polled by the task that answers the    *)
(* client; with the process backend it is a job of the generation's        *)
(* supervisor, which owns the process and cleans it up whatever becomes of *)
(* the client.  What the exchange reads goes to the client through a       *)
(* channel of one message, before anyone knows how the backend will end.   *)
(*                                                                         *)
(* A body is a number of bytes.  An idle or overall deadline may pass      *)
(* wherever the code waits under one.  The process backend exists only on  *)
(* Windows, whose job object is what "gone" stands for.                    *)
(***************************************************************************)
EXTENDS Integers, Sequences, FiniteSets, Functions

CONSTANTS
    Visits,        \* requests
    Runtimes,      \* generations with this directive, 1 .. Runtimes
    CgiConfigs,    \* what the directive may say
    CgiAsks,       \* what a client may ask
    Scripts        \* per script, the heads it may write and how many bytes at most (bound)

ASSUME CgiAssumption ==
    /\ Runtimes \in Nat \ {0} /\ IsFiniteSet(Visits)
    /\ \A a \in CgiAsks : a.declared \subseteq Nat /\ a.body \in Nat

VARIABLES
    directive,     \* the configuration
    supervisor,    \* [1 .. Runtimes -> the stage of the generation's supervisor]
    poisoned,      \* the process semaphore is closed
    visitor,       \* [Visits -> the task that answers the client]
    transfer,      \* [Visits -> the exchange with the backend]
    script,        \* [Visits -> what the backend really did]
    job            \* [Visits -> the supervisor's side of the process backend]

cgiVars == <<directive, supervisor, poisoned, visitor, transfer, script, job>>

-----------------------------------------------------------------------------
(* Configuration.  Paths are sequences of segments.                        *)

\* A path of the configuration that leaves its root.
Traverses(path) == \E i \in DOMAIN path : path[i] \in {".", ".."}

\* Script::validate: a relative path of real segments, an absolute URL path.
ScriptRefused(c) ==
    \/ c.script = <<>> \/ Traverses(c.script) \/ "" \in Range(c.script)
    \/ Traverses(c.scriptName)

\* What each backend says of the fields it cannot honour.
BackendRefused(c) ==
    IF c.kind = "cgi"
    THEN \/ c.remoteRoot # {} \/ c.concurrency > 1024
         \/ \E n \in c.processLimit : n \notin 1 .. 1024
    ELSE c.processLimit # {}

\* The range decode accepts for concurrency ends here.
MaxConcurrency == 4096

\* CgiDirective::decode.
CgiRefused(c) ==
    \/ ScriptRefused(c)
    \/ c.concurrency \notin 1 .. MaxConcurrency \/ c.serverName = ""
    \/ \E remote \in c.remoteRoot : Traverses(remote)
    \/ BackendRefused(c)

\* What the scripts of accepted directives write is counted in bytes.
ASSUME ScriptAssumption ==
    \A c \in CgiConfigs : ~CgiRefused(c) =>
        Scripts[c.script].bytes \in Nat /\ \A h \in Scripts[c.script].heads : h.length \subseteq Nat

\* Script::resolve: the script is a file below the root, links followed.
ScriptMissing(c) == c.target \notin {"file"}

-----------------------------------------------------------------------------
(* The environment of a request.  A header is its name, how many fields it *)
(* has and whether they are text; a path is a sequence of segments, each a *)
(* sequence of characters or escapes.                                      *)

Unescaped(char) == IF char = "%2E" THEN "." ELSE char

\* decode_path: refuses separators in escapes, controls, broken escapes and
\* segments that are dots once decoded.
PathRefused(path) ==
    \E i \in DOMAIN path :
        LET segment == [k \in DOMAIN path[i] |-> Unescaped(path[i][k])]
        IN  \/ Range(segment) \cap {"%2F", "%5C", "%25", "%00", "%", "\\"} # {}
            \/ segment \in {<<".">>, <<".", ".">>}

\* Headers that never become variables, whoever sends them.
HopByHop ==
    {"proxy", "content-length", "content-type", "connection", "transfer-encoding", "te", "trailer", "upgrade",
     "keep-alive", "proxy-connection", "proxy-authorization", "proxy-authenticate"}

\* The headers of a request that reach the script.
Passed(c, a) ==
    {h \in a.headers : /\ h.name \notin HopByHop \cup a.nominated
                       /\ ~h.underscore
                       /\ h.name = "authorization" => c.passAuthorization}

\* Script::environment refuses a request it cannot describe.
EnvironmentRefused(c, a) ==
    \/ PathRefused(a.path)
    \/ "content-type" \notin a.nominated
       /\ \E h \in a.headers : h.name = "content-type" /\ (h.fields > 1 \/ ~h.text)
    \/ \E h \in Passed(c, a) : ~h.text \/ (h.name \in {"authorization", "host"} /\ h.fields # 1)

-----------------------------------------------------------------------------
(* The head of an answer and the length it promises.                       *)

\* parse: the status of a head.
HeadStatus(h) ==
    IF h.status # {} THEN CHOOSE s \in h.status : TRUE
    ELSE IF h.location # "none" THEN 302 ELSE 200

\* parse refuses framing of the script's own, statuses out of range, local
\* redirects, lengths where there is no body, and heads that say nothing.
HeadRefused(h) ==
    \/ h.framing
    \/ HeadStatus(h) \notin 200 .. 599
    \/ h.status = {} /\ h.location = "local"
    \/ HeadStatus(h) = 204 /\ h.length # {}
    \/ ~h.typed /\ h.location = "none" /\ HeadStatus(h) \notin {204, 304}

\* An answer that has no body, whatever its length says.
Bodiless(a, h) == a.head \/ HeadStatus(h) \in {204, 304}

\* BodyLength::new: the bytes the answer must have, if it says.
Expected(a, h) == IF Bodiless(a, h) THEN {0} ELSE h.length

-----------------------------------------------------------------------------
(* The state of a request, its exchange and its job.                       *)

NoVisit ==
    [at |-> "idle", gen |-> 1, slot |-> FALSE, running |-> "none", result |-> "none",
     got |-> 0, shown |-> "none", status |-> 0]
NoTransfer ==
    [live |-> FALSE, ask |-> {}, length |-> 0, head |-> {}, seen |-> 0, tail |-> 0, out |-> <<>>, queue |-> <<>>,
     completion |-> "head", eof |-> FALSE, exited |-> FALSE]
NoScript == [sent |-> 0, end |-> "no"]
NoJob == [at |-> "none", gen |-> 1, permit |-> FALSE, process |-> "none", result |-> "none", clean |-> TRUE]

\* What v asked, and the length of the answer it is getting.
AskOf(v) == CHOOSE a \in transfer[v].ask : TRUE
Due(v) == Expected(AskOf(v), CHOOSE h \in transfer[v].head : TRUE)

Generations == 1 .. Runtimes
Process == directive.kind = "cgi"

CgiInit ==
    /\ directive \in {c \in CgiConfigs : ~CgiRefused(c) /\ ~ScriptMissing(c)}
    /\ supervisor = [g \in Generations |-> [stage |-> "prepared", line |-> <<>>]]
    /\ poisoned = FALSE
    /\ visitor = [v \in Visits |-> NoVisit]
    /\ transfer = [v \in Visits |-> NoTransfer]
    /\ script = [v \in Visits |-> NoScript]
    /\ job = [v \in Visits |-> NoJob]

\* The semaphores of Capacity, shared by all compatible generations.
SlotFree == Cardinality({v \in Visits : visitor[v].slot}) < directive.concurrency
PermitFree == Cardinality({v \in Visits : job[v].permit}) < directive.concurrency

\* The flag a client reads before it queues, and the channel it queues in.
Closed(g) == supervisor[g].stage \notin {"prepared", "running"}
Deaf(g) == supervisor[g].stage \in {"stopping", "ended"}

\* ExchangeError::status, and the adapters' mapping of their errors to it.
StatusOf(result) == CASE result = "timeout" -> 504 [] result = "unavailable" -> 503 [] OTHER -> 502

\* checked_transfer: success counts only after the sink was finished.
Checked(v, outcome) ==
    IF outcome = "ok" /\ transfer[v].completion # "finished" THEN "failed" ELSE outcome

\* An exchange that has ended or was dropped leaves its request, the head and
\* what is in the channel.
Stopped(t) == [NoTransfer EXCEPT !.ask = t.ask, !.head = t.head, !.queue = t.queue, !.completion = t.completion]

\* The terminal drops the receiver and its part of the exchange: nobody sees
\* any more what a job that still runs may write.
Dropped(v) ==
    /\ transfer' = [transfer EXCEPT ![v] = NoTransfer]
    /\ script' = [script EXCEPT ![v] = NoScript]

\* The client is answered by the server itself.
Refused(status) == [NoVisit EXCEPT !.at = "over", !.shown = "refused", !.status = status]

\* The future the terminal polls ends, and the slot it owns goes back.
Finished(visit, result) == [visit EXCEPT !.running = "done", !.result = result, !.slot = FALSE]

\* The receiver of the channel exists while the answer is being made.
Listening(v) == visitor[v].at \in {"waiting", "settling", "streaming"}

-----------------------------------------------------------------------------
(* Terminal::execute.                                                      *)

\* What is refused before anything is read of the body.
RefusedWith(a) ==
    IF a.garbled THEN 400
    ELSE IF a.declared = {} /\ a.streamed /\ ~directive.bufferUnknown THEN 411
    ELSE IF \E n \in a.declared : n > directive.maxBody THEN 413
    ELSE IF EnvironmentRefused(directive, a) THEN 400
    ELSE IF ~SlotFree THEN 503
    ELSE 0

\* The exchange is made; nothing of it runs before it is polled.
Begun(visit) == [visit EXCEPT !.at = "waiting", !.running = IF Process THEN "checking" ELSE "dialing"]

Arrive(v, a, g) ==
    /\ visitor[v].at = "idle"
    /\ LET visit == [visitor[v] EXCEPT !.gen = g, !.slot = TRUE] IN
       IF RefusedWith(a) # 0
       THEN visitor' = [visitor EXCEPT ![v] = Refused(RefusedWith(a))] /\ UNCHANGED transfer
       ELSE /\ visitor' = [visitor EXCEPT ![v] = IF a.declared = {} /\ a.streamed
                                                THEN [visit EXCEPT !.at = "buffering"] ELSE Begun(visit)]
            /\ transfer' = [transfer EXCEPT ![v].ask = {a},
                                            ![v].length = IF a.declared = {} THEN 0 ELSE CHOOSE n \in a.declared : TRUE]
    /\ UNCHANGED <<directive, supervisor, poisoned, script, job>>

\* input::buffer reads a body of unknown length, one byte beyond the cap.
BufferCap == IF directive.maxBuffer < directive.maxBody THEN directive.maxBuffer ELSE directive.maxBody
Buffer(v) ==
    /\ visitor[v].at = "buffering"
    /\ LET a == AskOf(v) IN
       /\ visitor' = [visitor EXCEPT ![v] =
              IF a.body > BufferCap \/ a.ends = "limit" THEN Refused(413)
              ELSE IF a.ends = "error" THEN Refused(400)
              ELSE Begun(@)]
       /\ transfer' = [transfer EXCEPT ![v].length = a.body]
    /\ UNCHANGED <<directive, supervisor, poisoned, script, job>>

BufferTimesOut(v) ==
    /\ visitor[v].at = "buffering"
    /\ visitor' = [visitor EXCEPT ![v] = Refused(408)]
    /\ Dropped(v)
    /\ UNCHANGED <<directive, supervisor, poisoned, job>>

\* The biased select takes a head that is there.  An answer without a body
\* is not given before the exchange has ended.
TakeHead(v) ==
    /\ visitor[v].at = "waiting" /\ transfer[v].queue # <<>>
    /\ transfer' = [transfer EXCEPT ![v].queue = <<>>]
    /\ LET settles == Due(v) = {0} IN
       visitor' = [visitor EXCEPT ![v].at = IF settles THEN "settling" ELSE "streaming",
                                  ![v].shown = IF settles THEN "none" ELSE "open"]
    /\ UNCHANGED <<directive, supervisor, poisoned, script, job>>

\* The exchange ended before a head was taken, and not with success.
GiveUp(v) ==
    /\ visitor[v].at = "waiting" /\ visitor[v].running = "done"
    /\ visitor[v].result # "ok" \/ transfer[v].queue = <<>>
    /\ visitor' = [visitor EXCEPT ![v] = Refused(StatusOf(@.result))]
    /\ Dropped(v)
    /\ UNCHANGED <<directive, supervisor, poisoned, job>>

SettleAnswer(v) ==
    /\ visitor[v].at = "settling" /\ visitor[v].running = "done"
    /\ IF visitor[v].result = "ok"
       THEN /\ visitor' = [visitor EXCEPT ![v].at = "over", ![v].shown = "complete"]
            /\ UNCHANGED <<transfer, script>>
       ELSE visitor' = [visitor EXCEPT ![v] = Refused(StatusOf(@.result))] /\ Dropped(v)
    /\ UNCHANGED <<directive, supervisor, poisoned, job>>

\* ResponseStream::poll_next: what is queued goes first, the error after it.
ReadBody(v) ==
    /\ visitor[v].at = "streaming" /\ transfer[v].queue # <<>>
    /\ visitor' = [visitor EXCEPT ![v].got = @ + Head(transfer[v].queue).n]
    /\ transfer' = [transfer EXCEPT ![v].queue = <<>>]
    /\ UNCHANGED <<directive, supervisor, poisoned, script, job>>

StreamEnds(v) ==
    /\ visitor[v].at = "streaming" /\ visitor[v].running = "done" /\ transfer[v].queue = <<>>
    /\ IF visitor[v].result = "ok"
       THEN /\ visitor' = [visitor EXCEPT ![v].at = "over", ![v].shown = "complete"]
            /\ UNCHANGED <<transfer, script>>
       ELSE visitor' = [visitor EXCEPT ![v] = [NoVisit EXCEPT !.at = "over", !.shown = "broken"]] /\ Dropped(v)
    /\ UNCHANGED <<directive, supervisor, poisoned, job>>

\* The deadline of the request, over everything the terminal polls.  It drops
\* the exchange, or the wait for a reply: the job will notice.
Deadline(v) ==
    /\ visitor[v].running \notin {"none", "done"}
    /\ visitor' = [visitor EXCEPT ![v] = Finished(@, "timeout")]
    /\ transfer' = [transfer EXCEPT ![v] = IF Process THEN @ ELSE Stopped(@)]
    /\ job' = [job EXCEPT ![v].permit = @ /\ visitor[v].running # "queueing"]
    /\ UNCHANGED <<directive, supervisor, poisoned, script>>

\* The client goes away and the server drops what it was making.
Leave(v) ==
    /\ visitor[v].at \notin {"idle", "over"}
    /\ visitor' = [visitor EXCEPT ![v] = [NoVisit EXCEPT !.at = "over"]]
    /\ Dropped(v)
    /\ job' = [job EXCEPT ![v].permit = @ /\ visitor[v].running # "queueing"]
    /\ UNCHANGED <<directive, supervisor, poisoned>>

\* Another request comes, under the same name.
Again(v) ==
    /\ visitor[v].at = "over" /\ job[v].at = "none" /\ job[v].process # "alive"
    /\ visitor' = [visitor EXCEPT ![v] = NoVisit]
    /\ transfer' = [transfer EXCEPT ![v] = NoTransfer]
    /\ script' = [script EXCEPT ![v] = NoScript]
    /\ UNCHANGED <<directive, supervisor, poisoned, job>>

-----------------------------------------------------------------------------
(* The exchange.  Over the network it is part of what the terminal polls;  *)
(* a process is talked to by its job.                                      *)

\* NetworkBackend::run dials under a deadline of its own.
Dial(v, outcome) ==
    /\ visitor[v].running = "dialing"
    /\ IF outcome = "ok"
       THEN visitor' = [visitor EXCEPT ![v].running = "exchanging"] /\ transfer' = [transfer EXCEPT ![v].live = TRUE]
       ELSE visitor' = [visitor EXCEPT ![v] = Finished(@, outcome)] /\ UNCHANGED transfer
    /\ UNCHANGED <<directive, supervisor, poisoned, script, job>>

\* The exchange of v, now t, ends with this outcome.
Ends(v, outcome, t) ==
    /\ transfer' = [transfer EXCEPT ![v] = Stopped(t)]
    /\ IF Process
       THEN job' = [job EXCEPT ![v].at = "cleaning", ![v].result = outcome] /\ UNCHANGED visitor
       ELSE visitor' = [visitor EXCEPT ![v] = Finished(@, outcome)] /\ UNCHANGED job

\* The exchange goes on as t.
Goes(v, t) == transfer' = [transfer EXCEPT ![v] = t] /\ UNCHANGED <<visitor, job>>

\* Reading: the loop of receive waits until the sink has taken what it gave.
Reading(v) == transfer[v].live /\ transfer[v].out = <<>> /\ ~transfer[v].eof

\* What is given to the sink: the head, bytes of the body, the end.
Output(what, n) == [what |-> what, n |-> n]

KeptByte(t) == IF t.tail > 0 THEN <<Output("body", t.tail)>> ELSE <<>>

\* mutant: gives every byte at once
WithheldNever(t, n) == [out |-> <<Output("body", n)>>, tail |-> 0]

\* What the sink is given of n new bytes: all but the last one, which is kept
\* until the end of the answer has been found right.
Withheld(t, n) == [out |-> KeptByte(t) \o (IF n > 1 THEN <<Output("body", n - 1)>> ELSE <<>>), tail |-> 1]

\* The kept byte and the end.
LastOutput(t) == KeptByte(t) \o <<Output("finish", 0)>>

\* receive: the head, found in however many reads.
ReceiveHead(v, h) ==
    /\ Reading(v) /\ transfer[v].head = {}
    /\ IF HeadRefused(h) THEN Ends(v, "failed", transfer[v])
       ELSE Goes(v, [transfer[v] EXCEPT !.head = {h}, !.out = <<Output("head", 0)>>])
    /\ UNCHANGED <<directive, supervisor, poisoned, script>>

\* receive: bytes of the body, counted before any of them goes on.
ReceiveBody(v, n) ==
    /\ Reading(v) /\ transfer[v].head # {}
    /\ script' = [script EXCEPT ![v].sent = @ + n]
    /\ IF \E due \in Due(v) : transfer[v].seen + n > due THEN Ends(v, "failed", transfer[v])
       ELSE Goes(v, [transfer[v] EXCEPT !.out = Withheld(transfer[v], n).out,
                                       !.tail = Withheld(transfer[v], n).tail, !.seen = @ + n])
    /\ UNCHANGED <<directive, supervisor, poisoned>>

\* Whether the bytes seen are the answer that was announced.
WholeAnswer(v) == transfer[v].head # {} /\ \A due \in Due(v) : transfer[v].seen = due

\* The backend ends its answer: END_REQUEST with its status over FastCGI, the
\* end of the stream over SCGI.
BackendEnds(v, good) ==
    /\ Reading(v) /\ ~Process /\ (good \/ directive.kind = "fastcgi")
    /\ script' = [script EXCEPT ![v].end = IF good THEN "good" ELSE "bad"]
    /\ IF WholeAnswer(v) /\ good THEN Goes(v, [transfer[v] EXCEPT !.out = LastOutput(transfer[v])])
       ELSE Ends(v, "failed", transfer[v])
    /\ UNCHANGED <<directive, supervisor, poisoned>>

\* run joins the answer with the end of stderr and the exit of a process; only
\* then are the kept byte and the end of the answer given.
Joined(t) == IF t.eof /\ t.exited THEN [t EXCEPT !.out = LastOutput(t)] ELSE t

StdoutEnds(v) ==
    /\ Reading(v) /\ Process
    /\ IF WholeAnswer(v) THEN Goes(v, Joined([transfer[v] EXCEPT !.eof = TRUE])) ELSE Ends(v, "failed", transfer[v])
    /\ UNCHANGED <<directive, supervisor, poisoned, script>>

\* The process exits and its stderr ends, within its limit.  What it left
\* behind is terminated and gone before its status counts.
ProcessExits(v, good) ==
    /\ transfer[v].live /\ Process /\ ~transfer[v].exited
    /\ script' = [script EXCEPT ![v].end = IF good THEN "good" ELSE "bad"]
    /\ IF good
       THEN /\ transfer' = [transfer EXCEPT ![v] = Joined([transfer[v] EXCEPT !.exited = TRUE])]
            /\ job' = [job EXCEPT ![v].process = "gone"]
       ELSE /\ transfer' = [transfer EXCEPT ![v] = Stopped(@)]
            /\ job' = [job EXCEPT ![v].process = "gone", ![v].at = "cleaning", ![v].result = "failed"]
    /\ UNCHANGED <<directive, supervisor, poisoned, visitor>>

\* send: exactly the announced length goes to the backend, or the exchange
\* fails.  An answer that is complete does not wait for it.
UploadFails(v) ==
    /\ transfer[v].live /\ ~transfer[v].eof
    /\ AskOf(v).declared # {} /\ (transfer[v].length # AskOf(v).body \/ AskOf(v).ends # "end")
    /\ Ends(v, "failed", transfer[v])
    /\ UNCHANGED <<directive, supervisor, poisoned, script>>

\* A read or a write fails, a record or a head is not one, stderr is over its
\* limit, a process cannot be reaped, or the code panics.
Breaks(v) ==
    /\ transfer[v].live
    /\ Ends(v, "failed", transfer[v])
    /\ UNCHANGED <<directive, supervisor, poisoned, script>>

\* An idle deadline of the exchange passes, or its overall one.
Stalls(v) ==
    /\ transfer[v].live
    /\ Ends(v, "timeout", transfer[v])
    /\ UNCHANGED <<directive, supervisor, poisoned, script>>

\* Sink: every output poisons the completion first and clears it when the
\* channel has taken the message.
Emit(v) ==
    /\ transfer[v].live /\ transfer[v].out # <<>> /\ Head(transfer[v].out).what # "finish"
    /\ \/ /\ transfer[v].queue = <<>>
          /\ Goes(v, [transfer[v] EXCEPT !.queue = <<Head(transfer[v].out)>>, !.out = Tail(@), !.completion = "body"])
       \/ /\ transfer[v].queue # <<>> /\ transfer[v].completion # "poisoned"
          /\ Goes(v, [transfer[v] EXCEPT !.completion = "poisoned"])
    /\ UNCHANGED <<directive, supervisor, poisoned, script>>

Finish(v) ==
    /\ transfer[v].live /\ transfer[v].out = <<Output("finish", 0)>>
    /\ LET ok == transfer[v].completion = "body" IN
       Ends(v, IF ok THEN "ok" ELSE "failed",
            [transfer[v] EXCEPT !.out = <<>>, !.completion = IF ok THEN "finished" ELSE "poisoned"])
    /\ UNCHANGED <<directive, supervisor, poisoned, script>>

-----------------------------------------------------------------------------
(* Client::execute: what the terminal polls for a process.                 *)

\* The caller gets this result, if it still waits for one.
Replied(visits, v, result) ==
    [visits EXCEPT ![v] = IF @.running = "awaiting" THEN Finished(@, result) ELSE @]

CheckClosed(v) ==
    /\ visitor[v].running = "checking"
    /\ visitor' = [visitor EXCEPT ![v] = IF Closed(@.gen) THEN Finished(@, "unavailable")
                                         ELSE [@ EXCEPT !.running = "acquiring"]]
    /\ UNCHANGED <<directive, supervisor, poisoned, transfer, script, job>>

AcquirePermit(v) ==
    /\ visitor[v].running = "acquiring"
    /\ IF ~poisoned /\ PermitFree
       THEN /\ visitor' = [visitor EXCEPT ![v].running = "queueing"]
            /\ job' = [job EXCEPT ![v].permit = TRUE, ![v].gen = visitor[v].gen]
       ELSE visitor' = [visitor EXCEPT ![v] = Finished(@, "unavailable")] /\ UNCHANGED job
    /\ UNCHANGED <<directive, supervisor, poisoned, transfer, script>>

Enqueue(v) ==
    /\ visitor[v].running = "queueing"
    /\ LET g == visitor[v].gen IN
       IF Deaf(g) \/ Len(supervisor[g].line) = directive.concurrency
       THEN /\ visitor' = [visitor EXCEPT ![v] = Finished(@, "unavailable")]
            /\ job' = [job EXCEPT ![v] = NoJob]
            /\ UNCHANGED supervisor
       ELSE /\ visitor' = [visitor EXCEPT ![v].running = "awaiting"]
            /\ job' = [job EXCEPT ![v].at = "queued"]
            /\ supervisor' = [supervisor EXCEPT ![g].line = Append(@, v)]
    /\ UNCHANGED <<directive, poisoned, transfer, script>>

-----------------------------------------------------------------------------
(* Supervisor::run and the job it owns.                                    *)

JobsOf(g) == {v \in Visits : job[v].gen = g /\ job[v].at \in {"running", "cleaning", "finished"}}

Activate(g) ==
    /\ Process /\ supervisor[g].stage = "prepared"
    /\ supervisor' = [supervisor EXCEPT ![g].stage = "running"]
    /\ UNCHANGED <<directive, poisoned, visitor, transfer, script, job>>

\* The biased select: shutdown, then ended jobs, then the line.  One whose
\* caller has gone while it was queued never starts.
Take(g) ==
    /\ supervisor[g].stage = "running"
    /\ \A v \in JobsOf(g) : job[v].at # "finished"
    /\ supervisor[g].line # <<>>
    /\ LET v == Head(supervisor[g].line) IN
       job' = [job EXCEPT ![v] = IF visitor[v].running = "awaiting" THEN [@ EXCEPT !.at = "running"] ELSE NoJob]
    /\ supervisor' = [supervisor EXCEPT ![g].line = Tail(@)]
    /\ UNCHANGED <<directive, poisoned, visitor, transfer, script>>

\* A job that could not be cleaned up ends the supervisor.
Collect(v) ==
    /\ job[v].at = "finished"
    /\ LET g == job[v].gen IN
       /\ supervisor[g].stage \in {"running", "stopping"}
       /\ supervisor' = [supervisor EXCEPT ![g].stage = IF @ = "running" /\ ~job[v].clean THEN "fenced" ELSE @]
    /\ job' = [job EXCEPT ![v] = [NoJob EXCEPT !.process = job[v].process]]
    /\ UNCHANGED <<directive, poisoned, visitor, transfer, script>>

\* A later generation has taken over, or the host shuts down: the loop is left
\* and the flag set.  A client past its test may still queue.
Fence(g) ==
    /\ supervisor[g].stage = "running"
    /\ g < Runtimes => supervisor[g + 1].stage # "prepared"
    /\ supervisor' = [supervisor EXCEPT ![g].stage = "fenced"]
    /\ UNCHANGED <<directive, poisoned, visitor, transfer, script, job>>

\* Everyone in line is told; permits go back with their requests.
Turned(g) == [v \in Visits |-> IF v \in Range(supervisor[g].line) THEN NoJob ELSE job[v]]
Told(g) ==
    [v \in Visits |-> IF v \in Range(supervisor[g].line) THEN Replied(visitor, v, "unavailable")[v] ELSE visitor[v]]

\* The channel is closed, then emptied, and the jobs are told to stop.
Drain(g) ==
    /\ supervisor[g].stage = "fenced"
    /\ supervisor' = [supervisor EXCEPT ![g] = [stage |-> "stopping", line |-> <<>>]]
    /\ visitor' = Told(g) /\ job' = Turned(g)
    /\ UNCHANGED <<directive, poisoned, transfer, script>>

Conclude(g) ==
    /\ supervisor[g].stage = "stopping" /\ JobsOf(g) = {}
    /\ supervisor' = [supervisor EXCEPT ![g].stage = "ended"]
    /\ UNCHANGED <<directive, poisoned, visitor, transfer, script, job>>

\* What is left of a process whose cleanup was verified, or was not.
Remains(v, verified) == IF job[v].process = "alive" /\ ~verified THEN "alive" ELSE "none"

\* The host drops a candidate, or aborts a supervisor out of patience.  A job
\* that cannot prove its cleanup poisons the pool before its permit is free.
Abort(g) ==
    /\ Process /\ supervisor[g].stage \in {"prepared", "fenced", "stopping"}
    /\ LET owned == {v \in JobsOf(g) : job[v].at # "finished"} IN
       /\ poisoned' = (poisoned \/ owned # {})
       /\ visitor' = [v \in Visits |-> IF v \in owned THEN Replied(visitor, v, "unavailable")[v] ELSE Told(g)[v]]
       /\ job' = [v \in Visits |-> IF v \in JobsOf(g) THEN [NoJob EXCEPT !.process = Remains(v, FALSE)] ELSE Turned(g)[v]]
       /\ transfer' = [v \in Visits |-> IF v \in owned THEN Stopped(transfer[v]) ELSE transfer[v]]
    /\ supervisor' = [supervisor EXCEPT ![g] = [stage |-> "ended", line |-> <<>>]]
    /\ UNCHANGED <<directive, script>>

\* Job::run: the process starts, unless there is no time left or it cannot.
Spawn(v, outcome) ==
    /\ job[v].at = "running" /\ job[v].process = "none" /\ ~transfer[v].live
    /\ IF outcome = "ok"
       THEN /\ transfer' = [transfer EXCEPT ![v].live = Listening(v)]
            /\ job' = [job EXCEPT ![v].process = "alive"]
       ELSE job' = [job EXCEPT ![v].at = "cleaning", ![v].result = outcome] /\ UNCHANGED transfer
    /\ UNCHANGED <<directive, supervisor, poisoned, visitor, script>>

\* owned: the supervisor stops or the caller has gone.
CancelJob(v) ==
    /\ job[v].at = "running"
    /\ supervisor[job[v].gen].stage = "stopping" \/ visitor[v].running # "awaiting"
    /\ job' = [job EXCEPT ![v].at = "cleaning", ![v].result = "unavailable"]
    /\ transfer' = [transfer EXCEPT ![v] = Stopped(@)]
    /\ UNCHANGED <<directive, supervisor, poisoned, visitor, script>>

\* mutant: the failure is left for the supervisor to notice
CleanupQuiet(v, ok) ==
    /\ job[v].at = "cleaning" /\ (ok \/ job[v].process # "none")
    /\ job' = [job EXCEPT ![v] = [NoJob EXCEPT !.at = "finished", !.gen = job[v].gen, !.clean = ok,
                                                !.process = Remains(v, ok)]]
    /\ visitor' = Replied(visitor, v, IF ok THEN Checked(v, job[v].result) ELSE "failed")
    /\ UNCHANGED <<directive, supervisor, poisoned, transfer, script>>

\* Nothing interrupts the cleanup.  The permit goes back after it, and only
\* to a pool that is closed when it failed.
Cleanup(v, ok) ==
    /\ job[v].at = "cleaning" /\ (ok \/ job[v].process # "none")
    /\ poisoned' = (poisoned \/ ~ok)
    /\ job' = [job EXCEPT ![v] = [NoJob EXCEPT !.at = "finished", !.gen = job[v].gen, !.clean = ok,
                                                !.process = Remains(v, ok)]]
    /\ visitor' = Replied(visitor, v, IF ok THEN Checked(v, job[v].result) ELSE "failed")
    /\ UNCHANGED <<directive, supervisor, transfer, script>>

-----------------------------------------------------------------------------
CgiNext ==
    \/ \E v \in Visits, a \in CgiAsks, g \in IF Process THEN Generations ELSE {1} : Arrive(v, a, g)
    \/ \E v \in Visits : Buffer(v)
    \/ \E v \in Visits : BufferTimesOut(v)
    \/ \E v \in Visits : TakeHead(v)
    \/ \E v \in Visits : GiveUp(v)
    \/ \E v \in Visits : SettleAnswer(v)
    \/ \E v \in Visits : ReadBody(v)
    \/ \E v \in Visits : StreamEnds(v)
    \/ \E v \in Visits : Deadline(v)
    \/ \E v \in Visits : Leave(v)
    \/ \E v \in Visits : Again(v)
    \/ \E v \in Visits, outcome \in {"ok", "timeout", "failed"} : Dial(v, outcome)
    \/ \E v \in Visits, h \in Scripts[directive.script].heads : ReceiveHead(v, h)
    \/ \E v \in Visits : \E n \in 1 .. Scripts[directive.script].bytes - script[v].sent : ReceiveBody(v, n)
    \/ \E v \in Visits, good \in BOOLEAN : BackendEnds(v, good)
    \/ \E v \in Visits : StdoutEnds(v)
    \/ \E v \in Visits, good \in BOOLEAN : ProcessExits(v, good)
    \/ \E v \in Visits : UploadFails(v)
    \/ \E v \in Visits : Breaks(v)
    \/ \E v \in Visits : Stalls(v)
    \/ \E v \in Visits : Emit(v)
    \/ \E v \in Visits : Finish(v)
    \/ \E v \in Visits : CheckClosed(v)
    \/ \E v \in Visits : AcquirePermit(v)
    \/ \E v \in Visits : Enqueue(v)
    \/ \E g \in Generations : Activate(g)
    \/ \E g \in Generations : Take(g)
    \/ \E v \in Visits : Collect(v)
    \/ \E g \in Generations : Fence(g)
    \/ \E g \in Generations : Drain(g)
    \/ \E g \in Generations : Conclude(g)
    \/ \E g \in Generations : Abort(g)
    \/ \E v \in Visits, outcome \in {"ok", "timeout", "failed"} : Spawn(v, outcome)
    \/ \E v \in Visits : CancelJob(v)
    \/ \E v \in Visits, ok \in BOOLEAN : Cleanup(v, ok)

CgiSpec == CgiInit /\ [][CgiNext]_cgiVars

-----------------------------------------------------------------------------
(* Properties.                                                             *)

\* The client has, as far as HTTP can tell it, a complete answer: the stream
\* ended cleanly, or all the bytes the head announced have come.
Satisfied(v) ==
    \/ visitor[v].shown = "complete"
    \/ /\ visitor[v].shown = "open"
       /\ \E h \in transfer[v].head : \E n \in h.length : n > 0 /\ visitor[v].got = n

\* An answer is complete for the client only if the backend ended it with
\* success, and it is exactly what the backend wrote: a late error, an overrun,
\* a bad exit or a deadline after the head is never taken for a clean end.
CompleteIsTrue ==
    \A v \in Visits : Satisfied(v) =>
        /\ script[v].end = "good"
        /\ visitor[v].got = script[v].sent
        /\ \A n \in Due(v) : script[v].sent = n

\* Bytes reach the client in the order and number the backend wrote them.
NothingInvented == \A v \in Visits : visitor[v].got =< script[v].sent

\* No more processes exist than the directive allows, however generations
\* share the pool, callers leave and cleanups fail or are aborted.
ProcessesBounded == Cardinality({v \in Visits : job[v].process = "alive"}) =< directive.concurrency

\* Permits and slots belong to somebody who will give them back.
CapacityOwned ==
    \A v \in Visits :
        /\ job[v].permit => visitor[v].running = "queueing" \/ job[v].at \in {"queued", "running", "cleaning"}
        /\ visitor[v].slot <=> visitor[v].at = "buffering" \/ visitor[v].running \notin {"none", "done"}

\* A caller that waits for a reply is owed one: its job is in the line of a
\* supervisor that will still look at it, or is owned.
ReplyOwed ==
    \A v \in Visits : visitor[v].running = "awaiting" =>
        LET g == job[v].gen IN
        \/ job[v].at = "queued" /\ v \in Range(supervisor[g].line) /\ ~Deaf(g)
        \/ job[v].at \in {"running", "cleaning"} /\ supervisor[g].stage # "ended"

\* What the CGI terminal promises to its clients and its host.
CgiSound == CompleteIsTrue /\ NothingInvented /\ ProcessesBounded /\ CapacityOwned /\ ReplyOwed
=============================================================================
