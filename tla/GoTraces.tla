------------------------------ MODULE GoTraces ------------------------------
(***************************************************************************)
(* One job of a Go entrypoint, from the trace-runner's client to the raw   *)
(* trace: the go-instrumenter copies and rewrites the repository and       *)
(* builds a binary into a session directory; the go-trace-runner executes  *)
(* it and collects its events over a Unix socket; in the binary, tracert   *)
(* buffers the events of all goroutines in a ring and sends them when the  *)
(* tests are over.                                                         *)
(*                                                                         *)
(* Every job has a session directory, a socket and a status of its own,    *)
(* named by fresh UUIDs, so one job is the whole story.                    *)
(***************************************************************************)
EXTENDS TraceRing, SequencesExt

CONSTANTS
  MaxSpans,  \* bound: calls the binary makes
  MaxFaults  \* bound: lost replies, failing calls and crashes of the runner

ASSUME GoTracesBounds == MaxSpans \in Nat /\ MaxFaults \in Nat

Main == 1    \* the goroutine of the test
Other == 2   \* one it starts, or one the package starts while it initialises
Goroutines == {Main, Other}

VARIABLES
  client,     \* process_job of the trace-runner
  builder,    \* the handler of POST /instrument
  session,    \* the session directory
  binary,     \* what it holds: nothing, a test binary with the injected
              \* TestMain, one that never starts the tracer, or no program
  lock,       \* its .lock
  aged,       \* it was last changed an hour ago
  janitor     \* the cleanup loop of the go-instrumenter
VARIABLES
  run,        \* the goroutine behind POST /run
  status,     \* the status it shares with GET /run/{id}/status
  runErr,     \* status.Error is set
  collector,  \* ReadFromSocket
  got,        \* the events it returned
  trace,      \* the raw trace in stream:raw-traces
  emitted     \* status.EventsEmitted
VARIABLES
  process,    \* the binary
  failed,     \* its exit code is not zero
  holder,     \* a process it started keeps its output open
  initialized,\* tracert.initialized
  conn,       \* its connection to the collector
  alive,      \* its goroutines
  stack,      \* the open calls of each
  spans,      \* nextSpanID
  drained,    \* what Flush took from the ring
  sent,       \* what reached the socket
  crashed,    \* the go-trace-runner died
  faults
VARIABLES
  recorded,   \* history: all the ring was given until Flush drained it
  opened      \* history: the spans of the test's own calls

clientVars == <<client, builder>>
dirVars == <<session, binary, lock, aged, janitor>>
runVars == <<run, status, runErr, got, trace, emitted>>
codeVars == <<initialized, alive, stack, spans, drained>>
historyVars == <<recorded, opened>>
exitVars == <<failed, holder, conn, sent, historyVars>>
vars == <<ringVars, clientVars, dirVars, runVars, collector, process, codeVars, exitVars,
          crashed, faults>>

Event(t, g, s) == [type |-> t, goroutine_id |-> g, span_id |-> s]
WireEvents ==
  {Event(t, g, s) : t \in {"call", "ret", "panic"}, g \in Goroutines, s \in 1 .. MaxSpans}
NoTrace == [some |-> FALSE, events |-> <<>>]

ASSUME EventsAssumption == WireEvents \subseteq Events

Init ==
  /\ RingInit
  /\ client = "instrument" /\ builder = "create"
  /\ session = "none" /\ binary = "none" /\ lock = FALSE /\ aged = FALSE /\ janitor = "sleep"
  /\ run = "none" /\ status = "none" /\ runErr = FALSE
  /\ collector = "off" /\ got = <<>> /\ trace = NoTrace /\ emitted = 0
  /\ process = "none" /\ failed = FALSE /\ holder = FALSE
  /\ initialized = FALSE /\ conn = "none"
  /\ alive = [g \in Goroutines |-> "off"] /\ stack = [g \in Goroutines |-> <<>>]
  /\ spans = 0 /\ drained = <<>> /\ sent = <<>>
  /\ crashed = FALSE /\ faults = 0 /\ recorded = <<>> /\ opened = {}

Fault == faults < MaxFaults /\ faults' = faults + 1
Final == {"completed", "failed"}
RunActive == run \in {"stat", "launch", "wait", "collect", "emit", "finish", "release"}
Executing == process \in {"start", "dial", "test", "flush", "send"}

(* The process is over, and its memory is gone. *)
ProcessGone ==
  /\ process' = "over"
  /\ NewRing
  /\ initialized' = FALSE /\ spans' = 0 /\ drained' = <<>>
  /\ alive' = [g \in Goroutines |-> "off"] /\ stack' = [g \in Goroutines |-> <<>>]

-----------------------------------------------------------------------------
(* Go-instrumenter: POST /instrument. *)

CreateSession ==
  /\ client = "instrument" /\ builder = "create"
  /\ builder' = "build"
  /\ session' = "exists"
  /\ UNCHANGED <<client, binary, lock, aged, janitor, ringVars, runVars, collector, process,
                 codeVars, exitVars, crashed, faults>>

(* What can come out of copying, rewriting and building: no build without  *)
(* TRACERT_PATH; of a test entrypoint a test binary, into whose package    *)
(* TestMain is injected unless it has one or is not known; of any other    *)
(* the package's program, which never calls Init, or an archive.           *)
BinariesOf(isTest) == {"none"} \cup IF isTest THEN {"wired", "unwired"} ELSE {"unwired", "archive"}

Build ==
  /\ builder = "build"
  /\ \E isTest \in BOOLEAN : binary' \in BinariesOf(isTest)
  /\ builder' = "ready"
  /\ UNCHANGED <<client, session, lock, aged, janitor, ringVars, runVars, collector, process,
                 codeVars, exitVars, crashed, faults>>

(* Any step of it may fail; the directory stays. *)
BuildFails ==
  /\ builder = "build"
  /\ builder' = "failed"
  /\ UNCHANGED <<client, dirVars, ringVars, runVars, collector, process, codeVars, exitVars,
                 crashed, faults>>

(* CleanupExpired, every ten minutes: what it saw of the lock and of the   *)
(* age is followed by RemoveAll.                                           *)
Ages ==
  /\ session = "exists" /\ ~aged /\ client \in {"ok", "error"} /\ builder \in {"ready", "failed"}
  /\ ~RunActive \/ (holder /\ run = "wait" /\ process = "over")
  /\ aged' = TRUE
  /\ UNCHANGED <<clientVars, session, binary, lock, janitor, ringVars, runVars, collector,
                 process, codeVars, exitVars, crashed, faults>>

(* Mutant of CleanupScan: the lock is not looked at. *)
CleanupLocked ==
  /\ janitor = "sleep" /\ session = "exists" /\ aged
  /\ janitor' = "remove"
  /\ UNCHANGED <<clientVars, session, binary, lock, aged, ringVars, runVars, collector,
                 process, codeVars, exitVars, crashed, faults>>

CleanupScan ==
  /\ janitor = "sleep" /\ session = "exists" /\ ~lock /\ aged
  /\ janitor' = "remove"
  /\ UNCHANGED <<clientVars, session, binary, lock, aged, ringVars, runVars, collector,
                 process, codeVars, exitVars, crashed, faults>>

CleanupRemove ==
  /\ janitor = "remove"
  /\ janitor' = "sleep"
  /\ session' = "removed" /\ binary' = "none" /\ lock' = FALSE
  /\ UNCHANGED <<clientVars, aged, ringVars, runVars, collector, process, codeVars,
                 exitVars, crashed, faults>>

-----------------------------------------------------------------------------
(* Trace-runner: GoTraceClient.process_job. *)

ClientStep(from, to) ==
  /\ client = from /\ client' = to
  /\ UNCHANGED <<builder, dirVars, ringVars, runVars, collector, process, codeVars, exitVars,
                 crashed, faults>>

Instrumented == builder = "ready" /\ ClientStep("instrument", "start")
InstrumentFailed == builder = "failed" /\ ClientStep("instrument", "error")

(* POST /run; the reply may be lost. *)
PostRun ==
  /\ client = "start" /\ ~crashed
  /\ run' = "stat" /\ status' = "accepted"
  /\ \/ client' = "poll" /\ UNCHANGED faults
     \/ client' = "error" /\ Fault
  /\ UNCHANGED <<builder, dirVars, ringVars, runErr, got, trace, emitted, collector, process,
                 codeVars, exitVars, crashed>>

(* The status is read without synchronisation; a torn read is not a final  *)
(* one, and is asked again a second later.                                 *)
Poll ==
  \/ status = "completed" /\ ClientStep("poll", "ok")
  \/ status = "failed" /\ ClientStep("poll", "error")

(* 120 polls, the 120 seconds of the whole job, or a failing request. *)
GiveUp == \E from \in {"instrument", "start", "poll"} : ClientStep(from, "error")

-----------------------------------------------------------------------------
(* Go-trace-runner: the goroutine of POST /run. *)

StatBinary ==
  /\ run = "stat"
  /\ IF binary = "none"
       THEN run' = "done" /\ status' = "failed" /\ runErr' = TRUE /\ UNCHANGED collector
       ELSE run' = "launch" /\ status' = "running" /\ collector' = "listen" /\ UNCHANGED runErr
  /\ UNCHANGED <<got, trace, emitted, clientVars, dirVars, ringVars, process, codeVars,
                 exitVars, crashed, faults>>

(* It gives the collector 50 ms, takes the lock and starts the binary.  A  *)
(* goroutine the package starts while it initialises runs before TestMain. *)
Launch ==
  /\ run = "launch"
  /\ lock' = TRUE
  /\ run' = "wait"
  /\ IF binary = "archive"
       THEN process' = "over" /\ failed' = TRUE /\ UNCHANGED <<holder, alive>>
       ELSE /\ process' = "start" /\ holder' \in BOOLEAN
            /\ \E early \in {"off", "run"} : alive' = [alive EXCEPT ![Other] = early]
            /\ UNCHANGED failed
  /\ UNCHANGED <<session, binary, aged, janitor, status, runErr, got, trace, emitted, clientVars,
                 ringVars, collector, initialized, stack, spans, drained, conn, sent,
                 historyVars, crashed, faults>>

(* Output is collected until every process that holds the pipe is gone. *)
Waited ==
  /\ run = "wait" /\ process = "over" /\ ~holder
  /\ run' = "collect"
  /\ runErr' = failed
  /\ UNCHANGED <<status, got, trace, emitted, clientVars, dirVars, ringVars, collector,
                 process, codeVars, exitVars, crashed, faults>>

Collect ==
  /\ run = "collect" /\ collector \in {"events", "nil"}
  /\ run' = "emit"
  /\ UNCHANGED <<status, runErr, got, trace, emitted, clientVars, dirVars, ringVars, collector,
                 process, codeVars, exitVars, crashed, faults>>

(* Assemble keeps every event and its order; an error of XADD is logged. *)
Emit ==
  /\ run = "emit"
  /\ run' = "finish"
  /\ emitted' = Len(got)
  /\ \/ /\ trace' = IF got = <<>> THEN NoTrace ELSE [some |-> TRUE, events |-> got]
        /\ UNCHANGED faults
     \/ got # <<>> /\ Fault /\ UNCHANGED trace
  /\ UNCHANGED <<status, runErr, got, clientVars, dirVars, ringVars, collector, process,
                 codeVars, exitVars, crashed>>

Finish ==
  /\ run = "finish"
  /\ run' = "release"
  /\ status' = IF runErr THEN "failed" ELSE "completed"
  /\ UNCHANGED <<runErr, got, trace, emitted, clientVars, dirVars, ringVars, collector,
                 process, codeVars, exitVars, crashed, faults>>

(* Mutant of ReleaseLock: a failed run returns without it. *)
ReleaseUnlessFailed ==
  /\ run = "release"
  /\ run' = "done"
  /\ lock' = runErr
  /\ UNCHANGED <<session, binary, aged, janitor, status, runErr, got, trace, emitted, clientVars,
                 ringVars, collector, process, codeVars, exitVars, crashed, faults>>

ReleaseLock ==
  /\ run = "release"
  /\ run' = "done"
  /\ lock' = FALSE
  /\ UNCHANGED <<session, binary, aged, janitor, status, runErr, got, trace, emitted, clientVars,
                 ringVars, collector, process, codeVars, exitVars, crashed, faults>>

(* The process is gone, with the statuses and whatever it executed. *)
RunnerCrash ==
  /\ RunActive /\ Fault
  /\ crashed' = TRUE
  /\ run' = "dead" /\ status' = "none" /\ collector' = "off"
  /\ IF Executing THEN ProcessGone ELSE UNCHANGED <<process, ringVars, codeVars>>
  /\ UNCHANGED <<runErr, got, trace, emitted, clientVars, dirVars, exitVars>>

-----------------------------------------------------------------------------
(* ReadFromSocket. *)

CollectorStep(from, to) ==
  /\ collector = from /\ collector' = to
  /\ UNCHANGED <<run, status, runErr, trace, emitted, clientVars, dirVars, ringVars, process,
                 codeVars, exitVars, crashed>>

Listen ==
  \/ CollectorStep("listen", "accept") /\ UNCHANGED <<got, faults>>
  \/ CollectorStep("listen", "nil") /\ Fault /\ UNCHANGED got

Accept == conn = "open" /\ CollectorStep("accept", "read") /\ UNCHANGED <<got, faults>>

(* Mutant of AcceptDeadline: it only ends for a binary that tried. *)
AcceptPatiently ==
  /\ conn = "refused" /\ ~Executing /\ run # "launch"
  /\ CollectorStep("accept", "nil")
  /\ UNCHANGED <<got, faults>>

(* 35 seconds, which the binary does not see: it is given 30. *)
AcceptDeadline ==
  /\ conn # "open" /\ ~Executing /\ run # "launch"
  /\ CollectorStep("accept", "nil")
  /\ UNCHANGED <<got, faults>>

(* A line may be longer than the buffer of a megabyte only if it has the   *)
(* value of a panic: nothing else in an event is as long as it likes to be.*)
Overlong(events) == \E i \in DOMAIN events : events[i].type = "panic"

(* Lines are read until the connection closes, as the binary ends.  The    *)
(* scanner stops at a line that does not fit and at a read that fails, and *)
(* its error takes the place of all the events, the ones read included.    *)
ReadAll ==
  /\ ~Executing
  /\ \/ CollectorStep("read", "events") /\ got' = sent /\ UNCHANGED faults
     \/ CollectorStep("read", "nil") /\ Overlong(sent) /\ UNCHANGED <<got, faults>>
     \/ CollectorStep("read", "nil") /\ Fault /\ UNCHANGED got

-----------------------------------------------------------------------------
(* The instrumented binary. *)

Processes(from, to) == process = from /\ process' = to
UnchangedOutside ==
  UNCHANGED <<clientVars, dirVars, runVars, collector, holder, crashed, faults>>
Active(g) == Executing /\ process # "dial" /\ alive[g] # "off"

(* The injected TestMain calls tracert.Init, which raises the flag before  *)
(* there is a buffer. *)
InitTracer ==
  /\ binary = "wired" /\ Processes("start", "dial")
  /\ initialized' = TRUE
  /\ UNCHANGED <<ringVars, alive, stack, spans, drained, failed, conn, sent, historyVars>>
  /\ UnchangedOutside

(* A goroutine that was there before emits in between: the binary dies of  *)
(* a nil pointer. *)
NilBuffer ==
  /\ process = "dial"
  /\ (alive[Other] = "run" /\ spans < MaxSpans) \/ stack[Other] # <<>>
  /\ ProcessGone /\ failed' = TRUE
  /\ UNCHANGED <<conn, sent, historyVars>> /\ UnchangedOutside

(* initEmitter: without a listener there is no connection, for good. *)
Dial ==
  /\ Processes("dial", "test")
  /\ conn' = IF collector = "accept" THEN "open" ELSE "refused"
  /\ alive' = [alive EXCEPT ![Main] = "run"]
  /\ UNCHANGED <<ringVars, initialized, stack, spans, drained, failed, sent, historyVars>>
  /\ UnchangedOutside

(* A program that never starts the tracer returns something. *)
RunsUntraced ==
  /\ binary = "unwired" /\ process = "start" /\ ProcessGone
  /\ failed' \in BOOLEAN
  /\ UNCHANGED <<conn, sent, historyVars>> /\ UnchangedOutside

(* emit: dropped before Init, written to the ring after it. *)
Record(e) == IF initialized THEN Write(e) ELSE UNCHANGED ringVars

(* A call: its span, the event, and the deferred exit.  The model numbers  *)
(* spans through; Init starts the real counter over.                       *)
Enter(g) ==
  /\ Active(g) /\ alive[g] = "run" /\ spans < MaxSpans
  /\ spans' = spans + 1
  /\ stack' = [stack EXCEPT ![g] = Append(@, spans')]
  /\ Record(Event("call", g, spans'))
  /\ opened' = opened \cup (IF g = Main THEN {spans'} ELSE {})
  /\ UNCHANGED <<process, initialized, alive, drained, failed, conn, sent, recorded>>
  /\ UnchangedOutside

Pop(g, type) ==
  /\ stack[g] # <<>>
  /\ stack' = [stack EXCEPT ![g] = Front(@)]
  /\ Record(Event(type, g, Last(stack[g])))

(* Mutant of Exit: a call a panic passes through leaves no event. *)
ExitSilent(g) ==
  /\ Active(g)
  /\ \/ Pop(g, "ret") /\ alive' = [alive EXCEPT ![g] = "run"]
     \/ /\ alive[g] = "panic" /\ stack[g] # <<>>
        /\ stack' = [stack EXCEPT ![g] = Front(@)] /\ UNCHANGED <<ringVars, alive>>
  /\ UNCHANGED <<process, initialized, spans, drained, failed, conn, sent, historyVars>>
  /\ UnchangedOutside

(* The deferred function of a traced call: it returned, or a panic passes  *)
(* through it, unless the call recovers from it first.                     *)
Exit(g) ==
  /\ Active(g)
  /\ \/ Pop(g, "ret") /\ alive' = [alive EXCEPT ![g] = "run"]
     \/ alive[g] = "panic" /\ Pop(g, "panic") /\ UNCHANGED alive
  /\ UNCHANGED <<process, initialized, spans, drained, failed, conn, sent, historyVars>>
  /\ UnchangedOutside

Panic(g) ==
  /\ Active(g) /\ alive[g] = "run" /\ stack[g] # <<>>
  /\ alive' = [alive EXCEPT ![g] = "panic"]
  /\ UNCHANGED <<ringVars, process, initialized, stack, spans, drained, failed, conn, sent,
                 historyVars>>
  /\ UnchangedOutside

(* Nobody recovered: the whole process ends, and nothing is flushed. *)
Dies(g) ==
  /\ Active(g) /\ alive[g] = "panic" /\ stack[g] = <<>>
  /\ ProcessGone /\ failed' = TRUE
  /\ UNCHANGED <<conn, sent, historyVars>> /\ UnchangedOutside

(* tracert.Go. *)
Spawn ==
  /\ process = "test" /\ alive[Main] = "run" /\ alive[Other] = "off"
  /\ alive' = [alive EXCEPT ![Other] = "run"]
  /\ UNCHANGED <<ringVars, process, initialized, stack, spans, drained, failed, conn, sent,
                 historyVars>>
  /\ UnchangedOutside

(* m.Run returns, and TestMain goes on to Flush; other goroutines do not   *)
(* stop for that.                                                          *)
TestsEnd ==
  /\ alive[Main] = "run" /\ stack[Main] = <<>>
  /\ Processes("test", "flush")
  /\ alive' = [alive EXCEPT ![Main] = "off"]
  /\ failed' \in BOOLEAN
  /\ UNCHANGED <<ringVars, initialized, stack, spans, drained, conn, sent, historyVars>>
  /\ UnchangedOutside

FlushDrain ==
  /\ Processes("flush", "send")
  /\ drained' = Drained /\ Reset
  /\ recorded' = log
  /\ UNCHANGED <<initialized, alive, stack, spans, failed, conn, sent, opened>>
  /\ UnchangedOutside

FlushSend ==
  /\ process = "send" /\ ProcessGone
  /\ sent' = IF conn = "open" THEN drained ELSE <<>>
  /\ UNCHANGED <<failed, conn, historyVars>> /\ UnchangedOutside

(* Mutant of Kill: the context's error is not looked at. *)
KillQuiet ==
  /\ Executing /\ run = "wait" /\ ProcessGone
  /\ sent' \in IF process = "send" /\ conn = "open" THEN Prefixes(drained) ELSE {sent}
  /\ UNCHANGED <<failed, conn, historyVars>> /\ UnchangedOutside

(* The time is up: -test.timeout panics, or the context kills, at any      *)
(* point, the middle of the sending included.                              *)
Kill ==
  /\ Executing /\ run = "wait" /\ ProcessGone
  /\ failed' = TRUE
  /\ sent' \in IF process = "send" /\ conn = "open" THEN Prefixes(drained) ELSE {sent}
  /\ UNCHANGED <<conn, historyVars>> /\ UnchangedOutside

(* What held the output ends; the time may be up by then. *)
HolderEnds ==
  /\ holder /\ process = "over"
  /\ holder' = FALSE
  /\ failed' \in {failed, TRUE}
  /\ UNCHANGED <<ringVars, clientVars, dirVars, runVars, collector, process, codeVars, conn,
                 sent, historyVars, crashed, faults>>

-----------------------------------------------------------------------------
Instrument == CreateSession \/ Build \/ BuildFails
Client == Instrumented \/ InstrumentFailed \/ PostRun \/ Poll
Cleanup == CleanupScan \/ CleanupRemove
Runner == StatBinary \/ Launch \/ Waited \/ Collect \/ Emit \/ Finish \/ ReleaseLock
Collector == Listen \/ Accept \/ AcceptDeadline \/ ReadAll
Binary ==
  \/ InitTracer \/ NilBuffer \/ Dial \/ RunsUntraced \/ Spawn \/ TestsEnd \/ FlushDrain \/ FlushSend
  \/ \E g \in Goroutines : Enter(g) \/ Exit(g) \/ Panic(g) \/ Dies(g)

Next ==
  \/ Instrument \/ Client \/ GiveUp \/ Ages \/ Cleanup \/ Runner \/ RunnerCrash
  \/ Collector \/ Binary \/ Kill \/ HolderEnds

Spec == Init /\ [][Next]_vars

(* Handlers, loops and goroutines of the services run, and their timeouts  *)
(* strike; nothing is assumed of the program that is traced.               *)
Fairness ==
  /\ WF_vars(Instrument) /\ WF_vars(Client) /\ WF_vars(GiveUp) /\ WF_vars(Ages)
  /\ WF_vars(Cleanup) /\ WF_vars(Runner) /\ WF_vars(Collector) /\ WF_vars(Kill)
FairSpec == Spec /\ Fairness

-----------------------------------------------------------------------------
(* What the trace-normalizer makes of the events (_reconstruct_sync, for   *)
(* Go events have no task_id): a return closes the newest open call.       *)

MapEventType(t) == IF t = "ret" THEN "return" ELSE IF t = "panic" THEN "exception" ELSE t

Replay(acc, ev) ==
  CASE MapEventType(ev.type) = "call" -> [acc EXCEPT !.stack = Append(@, ev)]
    [] MapEventType(ev.type) \in {"return", "exception"} /\ acc.stack # <<>> ->
         [stack |-> Front(acc.stack),
          nodes |-> Append(acc.nodes, [call |-> Last(acc.stack), end |-> ev,
                                       hop |-> Len(acc.stack) - 1])]
    [] OTHER -> acc

Replayed(events) ==
  LET after[i \in 0 .. Len(events)] ==
        IF i = 0 THEN [stack |-> <<>>, nodes |-> <<>>] ELSE Replay(after[i - 1], events[i])
  IN after[Len(events)]

Reconstructed(events) == Replayed(events).nodes

TypeOK ==
  /\ RingTypeOK
  /\ client \in {"instrument", "start", "poll", "ok", "error"}
  /\ builder \in {"create", "build", "ready", "failed"}
  /\ session \in {"none", "exists", "removed"}
  /\ binary \in {"none", "wired", "unwired", "archive"}
  /\ {lock, aged, runErr, failed, holder, initialized, crashed} \subseteq BOOLEAN
  /\ janitor \in {"sleep", "remove"}
  /\ RunActive \/ run \in {"none", "done", "dead"}
  /\ status \in {"none", "accepted", "running"} \cup Final
  /\ collector \in {"off", "listen", "accept", "read", "events", "nil"}
  /\ Executing \/ process \in {"none", "over"}
  /\ conn \in {"none", "open", "refused"}
  /\ alive \in [Goroutines -> {"off", "run", "panic"}]
  /\ stack \in [Goroutines -> Seq(1 .. spans)] /\ spans \in 0 .. MaxSpans
  /\ {got, drained, sent, recorded} \subseteq Seq(Events)
  /\ opened \subseteq 1 .. MaxSpans
  /\ trace \in [some : BOOLEAN, events : Seq(Events)]
  /\ emitted \in 0 .. Size
  /\ faults \in 0 .. MaxFaults

(* When one goroutine wrote the whole trace, every node of its call tree   *)
(* has the end of its own call, and with it the right duration: after      *)
(* panics, after recovery, and when the ring lost the oldest events, so    *)
(* that the trace begins in the middle.                                    *)
PairsOwnCalls ==
  (\A e, f \in ToSet(trace.events) : e.goroutine_id = f.goroutine_id) =>
    \A n \in ToSet(Reconstructed(trace.events)) : n.call.span_id = n.end.span_id

(* The test's own goroutine made no call the ring was not given, with its  *)
(* end after it.                                                           *)
OwnCallsRecorded ==
  \A n \in opened : \E i \in DOMAIN recorded :
    /\ recorded[i] = Event("call", Main, n)
    /\ \E j \in i + 1 .. Len(recorded) : recorded[j].span_id = n /\ recorded[j].type # "call"

(* When a client is told ok, the tests ended by themselves and a binary    *)
(* with a tracer recorded every call they made, to its end; the trace in   *)
(* the stream is the newest of what was recorded, in order, all the ring   *)
(* had room for, never what a timeout or a kill left of it, and it is      *)
(* there before the status says so.  There is none only for a reason:      *)
(* nothing was recorded, the binary had no connection, a panic's value     *)
(* made a line too long for the collector, or a call failed.               *)
OkIsNewest ==
  client = "ok" =>
    /\ OwnCallsRecorded
    /\ IF trace.some
         THEN trace.events = Newest(recorded)
         ELSE recorded = <<>> \/ conn # "open" \/ Overlong(sent) \/ faults > 0

(* A session is never removed under a run. *)
NotRemovedInUse == [][session' = "removed" => ~RunActive]_vars

(* A run that was accepted ends, whatever the binary does and however much *)
(* of the events or of the connection is missing, unless something it left *)
(* behind holds its output open.                                           *)
RunEnds == status = "accepted" ~> status \in Final \/ holder \/ crashed

(* No session directory stays for ever, failed builds and jobs given up    *)
(* included, unless a dead runner left its lock there.                     *)
SessionReclaimed == session = "exists" ~> session = "removed" \/ (lock /\ (holder \/ crashed))
=============================================================================
