---------------------------- MODULE GoTraces_proofs ----------------------------
(***************************************************************************)
(* Proofs about GoTraces, for a ring of any size and any number of calls   *)
(* and faults: what a drain returns, what a client that is told ok finds   *)
(* in the stream, that no session is removed under a run, and that a trace *)
(* of one goroutine pairs its own calls.                                   *)
(***************************************************************************)
EXTENDS GoTraces, SequenceTheorems, WellFoundedInduction, TLAPS

-----------------------------------------------------------------------------
(* The ring alone.                                                         *)

(* Indices never reach twice the size, so % takes the size off once. *)
LEMMA ModOnce ==
  ASSUME NEW x \in 0 .. 2 * Size - 1
  PROVE  x % Size = IF x < Size THEN x ELSE x - Size
<1>1. Size \in Nat /\ Size > 0
  BY SizeAssumption
<1>2. CASE x < Size
  BY <1>1, <1>2
<1>3. CASE x >= Size
  <2>1. x = Size * (x \div Size) + (x % Size)
    BY <1>1
  <2>2. x % Size \in 0 .. Size - 1 /\ x \div Size \in Int
    BY <1>1
  <2>3. x \div Size = 1
    BY <1>1, <1>3, <2>1, <2>2
  <2>4. x = Size * 1 + (x % Size)
    BY <2>1, <2>3
  <2>5. x = Size + (x % Size)
    BY <1>1, <2>2, <2>4
  <2>6. x % Size = x - Size
    BY <1>1, <2>2, <2>5
  <2> QED BY <1>1, <1>3, <2>6
<1> QED BY <1>1, <1>2, <1>3

(* The slot of the k-th newest event. *)
Back(k) == IF head >= k THEN head - k ELSE head - k + Size

(* The invariant: the slots behind head hold the newest events, newest     *)
(* first.  It is inductive, which the statement about a drain is not: a    *)
(* drain begins at a slot that moves with every write.                     *)
RingInv ==
  /\ RingTypeOK
  /\ count = IF Len(log) < Size THEN Len(log) ELSE Size
  /\ \A k \in 1 .. count : buf[Back(k)] = log[Len(log) - k + 1]

LEMMA InitRing == RingInit => RingInv
BY SizeAssumption DEF RingInit, RingInv, RingTypeOK, Zeroed

LEMMA EmptyRing ==
  ASSUME RingInv, NewRing \/ Reset
  PROVE  RingInv'
<1>1. Size \in Nat /\ Size > 0 /\ Len(<<>>) = 0 /\ <<>> \in Seq(Events)
  BY SizeAssumption
<1>2. /\ head' = 0 /\ count' = 0 /\ log' = <<>>
      /\ buf' \in [0 .. Size - 1 -> Events \cup {Unset}]
  BY DEF NewRing, Reset, RingInv, RingTypeOK, Zeroed
<1>3. RingTypeOK'
  BY <1>1, <1>2 DEF RingTypeOK
<1>4. count' = IF Len(log') < Size THEN Len(log') ELSE Size
  BY <1>1, <1>2
<1>5. \A k \in 1 .. count' : buf'[Back(k)'] = log'[Len(log') - k + 1]
  BY <1>2
<1> QED BY <1>3, <1>4, <1>5 DEF RingInv

(* A write puts its event behind the new head, and the event it overwrites *)
(* is one that no longer counts.                                           *)
LEMMA WriteRing ==
  ASSUME RingInv, NEW e \in Events, Write(e)
  PROVE  RingInv'
<1>1. Size \in Nat /\ Size > 0
  BY SizeAssumption
<1>2. /\ buf \in [0 .. Size - 1 -> Events \cup {Unset}]
      /\ head \in 0 .. Size - 1 /\ count \in 0 .. Size
      /\ log \in Seq(Events) /\ Len(log) \in Nat
  BY DEF RingInv, RingTypeOK
<1>3. head' = IF head + 1 < Size THEN head + 1 ELSE 0
  BY <1>1, <1>2, ModOnce, head + 1 \in 0 .. 2 * Size - 1 DEF Write
<1>4. /\ buf' = [buf EXCEPT ![head] = e]
      /\ count' = IF count < Size THEN count + 1 ELSE count
      /\ log' = Append(log, e) /\ Len(log') = Len(log) + 1
  BY <1>2 DEF Write
<1>5. RingTypeOK'
  BY <1>1, <1>2, <1>3, <1>4 DEF RingTypeOK
<1>6. count' = IF Len(log') < Size THEN Len(log') ELSE Size
  BY <1>1, <1>2, <1>4 DEF RingInv
<1>7. ASSUME NEW k \in 1 .. count'
      PROVE  buf'[Back(k)'] = log'[Len(log') - k + 1]
  <2>1. CASE k = 1
    <3>1. Back(k)' = head
      BY <1>1, <1>2, <1>3, <2>1 DEF Back
    <3> QED BY <1>2, <1>4, <2>1, <3>1
  <2>2. CASE k > 1
    <3>1. k - 1 \in 1 .. count /\ k - 1 < Size
      BY <1>1, <1>2, <1>4, <2>2
    <3>2. Back(k)' = Back(k - 1) /\ Back(k - 1) # head /\ Back(k - 1) \in 0 .. Size - 1
      BY <1>1, <1>2, <1>3, <3>1, <2>2 DEF Back
    <3>3. buf[Back(k - 1)] = log[Len(log) - (k - 1) + 1]
      BY <3>1 DEF RingInv
    <3>4. buf'[Back(k)'] = buf[Back(k - 1)]
      BY <1>2, <1>4, <3>2
    <3>5. Len(log') - k + 1 = Len(log) - (k - 1) + 1
      BY <1>2, <1>4
    <3>6. Len(log) - (k - 1) + 1 \in 1 .. Len(log)
      BY <1>1, <1>2, <3>1 DEF RingInv
    <3>7. log'[Len(log) - (k - 1) + 1] = log[Len(log) - (k - 1) + 1]
      BY <1>2, <1>4, <3>6
    <3> QED BY <3>3, <3>4, <3>5, <3>7
  <2>3. k \in Nat /\ k >= 1
    BY <1>1, <1>2, <1>4
  <2> QED BY <2>1, <2>2, <2>3
<1> QED BY <1>5, <1>6, <1>7 DEF RingInv

LEMMA RingStep == RingInv /\ [RingNext]_ringVars => RingInv'
<1> SUFFICES ASSUME RingInv, [RingNext]_ringVars PROVE RingInv'
  OBVIOUS
<1>1. CASE RingNext
  BY <1>1, EmptyRing, WriteRing DEF RingNext
<1>2. CASE UNCHANGED ringVars
  BY <1>2 DEF ringVars, RingInv, RingTypeOK, Back
<1> QED BY <1>1, <1>2

LEMMA RingInvHolds == RingSpec => []RingInv
  BY InitRing, RingStep, PTL DEF RingSpec

(* Whatever is written and drained, the ring keeps its shape: head is one  *)
(* of its slots and the count never exceeds its size.                      *)
THEOREM RingTypeCorrect == RingSpec => []RingTypeOK
<1>1. RingInv => RingTypeOK
  BY DEF RingInv
<1> QED BY RingInvHolds, <1>1, PTL

(* The slot a drain reads i-th is the one that holds the i-th oldest.      *)
LEMMA SlotIsBack ==
  ASSUME RingInv, NEW i \in 1 .. count
  PROVE  Slot(i - 1) = Back(count - i + 1)
<1>1. Size \in Nat /\ Size > 0 /\ head \in 0 .. Size - 1 /\ count \in 0 .. Size
  BY SizeAssumption DEF RingInv, RingTypeOK
<1>2. head - count + Size \in 0 .. 2 * Size - 1
  BY <1>1
<1> DEFINE start == IF head - count + Size < Size THEN head - count + Size ELSE head - count
<1>3. (head - count + Size) % Size = start
  BY <1>1, <1>2, ModOnce
<1>4. start \in 0 .. Size - 1
  BY <1>1
<1> HIDE DEF start
<1>5. start + (i - 1) \in 0 .. 2 * Size - 1
  BY <1>1, <1>4
<1>6. (start + (i - 1)) % Size = IF start + (i - 1) < Size THEN start + (i - 1) ELSE start + (i - 1) - Size
  <2>1. PICK y \in 0 .. 2 * Size - 1 : y = start + (i - 1)
    BY <1>5
  <2>2. y % Size = IF y < Size THEN y ELSE y - Size
    BY ModOnce
  <2>3. y % Size = (start + (i - 1)) % Size
    BY <2>1
  <2> QED BY <1>1, <1>4, <2>1, <2>2, <2>3
<1> QED BY <1>1, <1>3, <1>6 DEF Slot, Back, start

(* What a drain reads. *)
LEMMA DrainedIs ==
  ASSUME RingInv
  PROVE  /\ Drained \in Seq(Events) /\ Len(Drained) = count
         /\ \A i \in 1 .. count : Drained[i] = log[Len(log) - count + i]
<1>1. /\ Size \in Nat /\ Size > 0 /\ count \in 0 .. Size
      /\ log \in Seq(Events) /\ Len(log) \in Nat
      /\ count = IF Len(log) < Size THEN Len(log) ELSE Size
  BY SizeAssumption DEF RingInv, RingTypeOK
<1>2. ASSUME NEW i \in 1 .. count
      PROVE  buf[Slot(i - 1)] = log[Len(log) - count + i]
  <2>1. count - i + 1 \in 1 .. count
    BY <1>1
  <2>2. buf[Back(count - i + 1)] = log[Len(log) - (count - i + 1) + 1]
    BY <2>1 DEF RingInv
  <2>3. Len(log) - (count - i + 1) + 1 = Len(log) - count + i
    BY <1>1
  <2> QED BY <2>2, <2>3, SlotIsBack
<1>3. \A i \in 1 .. count : Drained[i] = buf[Slot(i - 1)]
  BY ZenonT(30) DEF Drained
<1>4. \A i \in 1 .. count : log[Len(log) - count + i] \in Events
  <2> SUFFICES ASSUME NEW i \in 1 .. count PROVE log[Len(log) - count + i] \in Events
    OBVIOUS
  <2>1. Len(log) - count + i \in 1 .. Len(log)
    BY <1>1
  <2> QED BY <1>1, <2>1, ElementOfSeq
<1>5. Drained \in Seq(Events) /\ Len(Drained) = count
  <2>1. Drained = [i \in 1 .. count |-> Drained[i]]
    BY ZenonT(30) DEF Drained
  <2>2. \A i \in 1 .. count : Drained[i] \in Events
    BY <1>2, <1>3, <1>4
  <2>3. Drained \in [1 .. count -> Events]
    BY <2>1, <2>2, ZenonT(30)
  <2> QED BY <1>1, <2>3
<1> QED BY <1>2, <1>3, <1>5

LEMMA RingInvNewest == RingInv => RingHoldsNewest
<1> SUFFICES ASSUME RingInv PROVE RingHoldsNewest
  OBVIOUS
<1>1. /\ Size \in Nat /\ Size > 0 /\ count \in 0 .. Size
      /\ log \in Seq(Events) /\ Len(log) \in Nat
      /\ count = IF Len(log) < Size THEN Len(log) ELSE Size
  BY SizeAssumption DEF RingInv, RingTypeOK
<1> DEFINE newest == SubSeq(log, Len(log) - count + 1, Len(log))
<1>2. /\ newest \in Seq(Events) /\ Len(newest) = count
      /\ \A i \in 1 .. count : newest[i] = log[Len(log) - count + i]
  <2>0. Len(log) - count + 1 \in Int
    BY <1>1
  <2>1. PICK m \in Int : m = Len(log) - count + 1
    BY <2>0
  <2>2. \A i \in m .. Len(log) : log[i] \in Events
    BY <1>1, <2>1
  <2>3. /\ SubSeq(log, m, Len(log)) \in Seq(Events)
        /\ Len(SubSeq(log, m, Len(log))) = IF m <= Len(log) THEN Len(log) - m + 1 ELSE 0
        /\ \A i \in 1 .. Len(log) - m + 1 : SubSeq(log, m, Len(log))[i] = log[m + i - 1]
    BY <1>1, <2>2, SubSeqProperties
  <2>4. Len(log) - m + 1 = count
    BY <1>1, <2>1
  <2>5. newest = SubSeq(log, m, Len(log))
    BY <2>1
  <2>6. ASSUME NEW i \in 1 .. count PROVE m + i - 1 = Len(log) - count + i
    BY <1>1, <2>1
  <2>7. (IF m <= Len(log) THEN Len(log) - m + 1 ELSE 0) = count
    BY <1>1, <2>1
  <2> HIDE DEF newest
  <2> QED BY <2>3, <2>4, <2>5, <2>6, <2>7
<1> HIDE DEF newest
<1>3. Drained = newest
  BY <1>2, DrainedIs, SeqEqual
<1> QED BY <1>1, <1>3 DEF RingHoldsNewest, newest, Newest

(* A drain returns the newest events in the order they were written, as    *)
(* many as there is room for, for a ring of any size and any number of     *)
(* turns around it.                                                        *)
THEOREM DrainIsNewest == RingSpec => []RingHoldsNewest
  BY RingInvHolds, RingInvNewest, PTL

-----------------------------------------------------------------------------
(* The session directory.                                                  *)

(* No session is removed under a run, because nothing starts a run of a    *)
(* session that is an hour old, and what still runs then holds its lock.   *)
SessionInv ==
  /\ client \in {"instrument", "start"} => run = "none"
  /\ run \in {"wait", "collect", "emit", "finish", "release"} => lock
  /\ aged => client \in {"ok", "error"} /\ run \notin {"stat", "launch"}
  /\ janitor = "remove" => aged /\ ~RunActive
  /\ session = "removed" => aged /\ ~RunActive

(* Steps of the program and of the collector are none of the session's.    *)
LEMMA SessionStep == SessionInv /\ [Next]_vars => SessionInv'
<1> SUFFICES ASSUME SessionInv, [Next]_vars PROVE SessionInv'
  OBVIOUS
<1> USE DEF SessionInv, RunActive
<1>1. CASE UNCHANGED <<client, run, lock, aged, janitor, session>>
  BY <1>1
<1>2. CASE Instrument
  BY <1>2 DEF Instrument, CreateSession, Build, BuildFails, dirVars, runVars
<1>3. CASE Client \/ GiveUp
  BY <1>3 DEF Client, GiveUp, Instrumented, InstrumentFailed, Poll, PostRun, ClientStep, dirVars, runVars
<1>4. CASE Ages
  BY <1>4 DEF Ages, clientVars, runVars
<1>5. CASE Cleanup
  BY <1>5 DEF Cleanup, CleanupScan, CleanupRemove, clientVars, runVars
<1>6. CASE Runner
  BY <1>6 DEF Runner, StatBinary, Launch, Waited, Collect, Emit, Finish, ReleaseLock, clientVars, dirVars
<1>7. CASE RunnerCrash
  BY <1>7 DEF RunnerCrash, clientVars, dirVars
<1>8. CASE Collector
  BY <1>8, <1>1 DEF Collector, Listen, Accept, AcceptDeadline, ReadAll, CollectorStep, clientVars, dirVars
<1>9. CASE Binary \/ Kill \/ HolderEnds
  <2>1. UNCHANGED <<clientVars, dirVars, runVars>>
    BY <1>9 DEF Binary, InitTracer, NilBuffer, Dial, RunsUntraced, Spawn, TestsEnd, FlushDrain,
                FlushSend, Enter, Exit, Panic, Dies, Kill, HolderEnds, UnchangedOutside
  <2> QED
    BY <2>1, <1>1 DEF clientVars, dirVars, runVars
<1>10. CASE UNCHANGED vars
  BY <1>10, <1>1 DEF vars, clientVars, dirVars, runVars
<1> QED
  BY <1>2, <1>3, <1>4, <1>5, <1>6, <1>7, <1>8, <1>9, <1>10 DEF Next

(* A session is never removed under a run, whatever is lost and whoever    *)
(* crashes in between the cleanup's look at the lock and its RemoveAll.    *)
THEOREM RunKeepsSession == Spec => NotRemovedInUse
<1>1. Init => SessionInv
  BY DEF Init, SessionInv, RunActive
<1>2. SessionInv /\ [Next]_vars => [session' = "removed" => ~RunActive]_vars
  <2> SUFFICES ASSUME SessionInv, Next, session' = "removed" PROVE ~RunActive
    OBVIOUS
  <2>1. CASE session = "removed"
    BY <2>1 DEF SessionInv
  <2>2. CASE session # "removed"
    <3>1. janitor = "remove"
      BY <2>2
      DEF Next, Instrument, CreateSession, Build, BuildFails, Client, Instrumented,
          InstrumentFailed, PostRun, Poll, GiveUp, ClientStep, Ages, Cleanup, CleanupScan,
          CleanupRemove, Runner, StatBinary, Launch, Waited, Collect, Emit, Finish, ReleaseLock,
          RunnerCrash, Collector, CollectorStep, Listen, Accept, AcceptDeadline, ReadAll, Binary,
          InitTracer, NilBuffer, Dial, RunsUntraced, Spawn, TestsEnd, FlushDrain, FlushSend, Enter,
          Exit, Panic, Dies, Kill, HolderEnds, UnchangedOutside, dirVars
    <3> QED
      BY <3>1 DEF SessionInv
  <2> QED
    BY <2>1, <2>2
<1> QED
  BY <1>1, <1>2, SessionStep, PTL DEF Spec, NotRemovedInUse

-----------------------------------------------------------------------------
(* Types.                                                                  *)

RunStates == {"none", "stat", "launch", "wait", "collect", "emit", "finish", "release", "done", "dead"}
ProcessStates == {"none", "start", "dial", "test", "flush", "send", "over"}

(* What a drain returns fits into the ring. *)
Chunks == {s \in Seq(Events) : Len(s) <= Size}

HostType ==
  /\ client \in {"instrument", "start", "poll", "ok", "error"}
  /\ builder \in {"create", "build", "ready", "failed"}
  /\ session \in {"none", "exists", "removed"}
  /\ binary \in {"none", "wired", "unwired", "archive"}
  /\ lock \in BOOLEAN /\ aged \in BOOLEAN /\ runErr \in BOOLEAN /\ crashed \in BOOLEAN
  /\ janitor \in {"sleep", "remove"}
  /\ run \in RunStates
  /\ status \in {"none", "accepted", "running"} \cup Final
  /\ collector \in {"off", "listen", "accept", "read", "events", "nil"}
  /\ faults \in 0 .. MaxFaults

CodeType ==
  /\ process \in ProcessStates
  /\ failed \in BOOLEAN /\ holder \in BOOLEAN /\ initialized \in BOOLEAN
  /\ conn \in {"none", "open", "refused"}
  /\ alive \in [Goroutines -> {"off", "run", "panic"}]
  /\ stack \in [Goroutines -> Seq(1 .. spans)] /\ spans \in 0 .. MaxSpans

DataType ==
  /\ got \in Chunks /\ drained \in Chunks /\ sent \in Chunks
  /\ trace \in [some : BOOLEAN, events : Chunks]
  /\ emitted \in 0 .. Size
  /\ recorded \in Seq(Events) /\ opened \subseteq 1 .. MaxSpans

TypeInv == RingInv /\ HostType /\ CodeType /\ DataType

LEMMA InitTypes == Init => TypeInv
<1> SUFFICES ASSUME Init PROVE TypeInv
  OBVIOUS
<1>1. RingInv
  BY InitRing DEF Init
<1>2. HostType
  <2>1. /\ lock = FALSE /\ aged = FALSE /\ runErr = FALSE /\ crashed = FALSE /\ faults = 0
        /\ client = "instrument" /\ builder = "create" /\ session = "none" /\ binary = "none"
        /\ janitor = "sleep" /\ run = "none" /\ status = "none" /\ collector = "off"
    BY DEF Init
  <2>2. 0 \in 0 .. MaxFaults
    BY GoTracesBounds
  <2> QED
    BY <2>1, <2>2 DEF HostType, RunStates, Final
<1>3. CodeType
  <2>1. [g \in Goroutines |-> <<>>] \in [Goroutines -> Seq(1 .. 0)]
    OBVIOUS
  <2>2. /\ failed = FALSE /\ holder = FALSE /\ initialized = FALSE /\ process = "none"
        /\ conn = "none" /\ alive = [g \in Goroutines |-> "off"]
        /\ stack = [g \in Goroutines |-> <<>>] /\ spans = 0
    BY DEF Init
  <2>3. 0 \in 0 .. MaxSpans
    BY GoTracesBounds
  <2> QED
    BY <2>1, <2>2, <2>3 DEF CodeType, ProcessStates
<1>4. DataType
  <2>1. <<>> \in Chunks
    BY SizeAssumption DEF Chunks
  <2> QED
    BY <2>1, SizeAssumption DEF Init, DataType, NoTrace
<1> QED
  BY <1>1, <1>2, <1>3, <1>4 DEF TypeInv

LEMMA HostStep == HostType /\ CodeType /\ Next => HostType'
<1> SUFFICES ASSUME HostType, CodeType, Next PROVE HostType'
  OBVIOUS
<1> USE DEF HostType, RunStates, Final, clientVars, dirVars, runVars
<1>1. CASE Instrument
  BY <1>1 DEF Instrument, CreateSession, Build, BuildFails, BinariesOf
<1>2. CASE Client \/ GiveUp
  BY <1>2, GoTracesBounds
  DEF Client, GiveUp, Instrumented, InstrumentFailed, Poll, PostRun, ClientStep, Fault
<1>3. CASE Ages
  BY <1>3 DEF Ages
<1>4. CASE Cleanup
  BY <1>4 DEF Cleanup, CleanupScan, CleanupRemove
<1>5. CASE Runner
  <2>1. failed \in BOOLEAN
    BY DEF CodeType
  <2>2. CASE Waited
    BY <2>1, <2>2 DEF Waited
  <2>3. CASE StatBinary \/ Launch \/ Collect
    BY <2>3 DEF StatBinary, Launch, Collect
  <2>4. CASE Finish \/ ReleaseLock
    BY <2>4 DEF Finish, ReleaseLock
  <2>5. CASE Emit
    <3>1. faults' \in 0 .. MaxFaults
      BY <2>5, GoTracesBounds DEF Emit, Fault
    <3>2. run' = "finish" /\ UNCHANGED <<status, runErr, clientVars, dirVars, collector, crashed>>
      BY <2>5 DEF Emit
    <3> QED
      BY <3>1, <3>2
  <2> QED
    BY <1>5, <2>2, <2>3, <2>4, <2>5 DEF Runner
<1>6. CASE RunnerCrash
  BY <1>6, GoTracesBounds DEF RunnerCrash, Fault
<1>7. CASE Collector
  BY <1>7, GoTracesBounds
  DEF Collector, Listen, Accept, AcceptDeadline, ReadAll, CollectorStep, Fault
<1>8. CASE Binary \/ Kill \/ HolderEnds
  <2>1. UNCHANGED <<clientVars, dirVars, runVars, collector, crashed, faults>>
    BY <1>8 DEF Binary, InitTracer, NilBuffer, Dial, RunsUntraced, Spawn, TestsEnd, FlushDrain,
                FlushSend, Enter, Exit, Panic, Dies, Kill, HolderEnds, UnchangedOutside
  <2> QED
    BY <2>1
<1> QED
  BY <1>1, <1>2, <1>3, <1>4, <1>5, <1>6, <1>7, <1>8 DEF Next

(* The steps that neither touch the binary nor what it left behind. *)
LEMMA OutsideBinary ==
  ASSUME Instrument \/ Client \/ GiveUp \/ Ages \/ Cleanup
  PROVE  UNCHANGED <<ringVars, runErr, got, trace, emitted, collector, process, codeVars, exitVars,
                     crashed>>
  BY DEF Instrument, CreateSession, Build, BuildFails, Client, GiveUp, Instrumented,
         InstrumentFailed, Poll, PostRun, ClientStep, Ages, Cleanup, CleanupScan, CleanupRemove, runVars

LEMMA GoneType ==
  ASSUME ProcessGone, failed' \in BOOLEAN, holder' \in BOOLEAN, conn' \in {"none", "open", "refused"}
  PROVE  CodeType'
<1>1. [g \in Goroutines |-> <<>>] \in [Goroutines -> Seq(1 .. 0)]
  OBVIOUS
<1>2. stack' \in [Goroutines -> Seq(1 .. spans')] /\ spans' \in 0 .. MaxSpans
  BY <1>1, GoTracesBounds DEF ProcessGone
<1>3. alive' \in [Goroutines -> {"off", "run", "panic"}]
  BY DEF ProcessGone
<1> QED
  BY <1>2, <1>3 DEF ProcessGone, CodeType, ProcessStates

(* What is written is a wire event. *)
LEMMA WireEvent ==
  ASSUME CodeType, NEW t \in {"call", "ret", "panic"}, NEW g \in Goroutines,
         NEW n \in 1 .. MaxSpans
  PROVE  Event(t, g, n) \in Events
  BY EventsAssumption DEF WireEvents

LEMMA EnterType ==
  ASSUME CodeType, NEW g \in Goroutines, Enter(g)
  PROVE  CodeType' /\ [RingNext]_ringVars
<1>1. /\ spans \in Nat /\ MaxSpans \in Nat /\ spans' = spans + 1 /\ spans' \in 1 .. MaxSpans
      /\ stack \in [Goroutines -> Seq(1 .. spans)]
  BY GoTracesBounds DEF CodeType, Enter
<1>2. \A h \in Goroutines : stack[h] \in Seq(1 .. spans')
  <2> SUFFICES ASSUME NEW h \in Goroutines PROVE stack[h] \in Seq(1 .. spans')
    OBVIOUS
  <2>1. stack[h] \in Seq(1 .. spans) /\ 1 .. spans \subseteq 1 .. spans'
    BY <1>1
  <2> QED
    BY <2>1, SeqMonotonic
<1>3. Append(stack[g], spans') \in Seq(1 .. spans')
  BY <1>1, <1>2, AppendProperties
<1>4. stack' = [stack EXCEPT ![g] = Append(stack[g], spans')]
  BY DEF Enter
<1>5. stack' \in [Goroutines -> Seq(1 .. spans')]
  BY <1>1, <1>2, <1>3, <1>4
<1>6. CodeType'
  BY <1>1, <1>5 DEF CodeType, Enter, UnchangedOutside
<1>7. Event("call", g, spans') \in Events
  BY <1>1, WireEvent
<1>8. [RingNext]_ringVars
  BY <1>7 DEF Enter, Record, RingNext
<1> QED
  BY <1>6, <1>8

LEMMA FrontOfSeq ==
  ASSUME NEW S, NEW s \in Seq(S), s # <<>>
  PROVE  /\ Front(s) \in Seq(S) /\ Len(Front(s)) = Len(s) - 1
         /\ \A i \in 1 .. Len(s) - 1 : Front(s)[i] = s[i]
         /\ Last(s) \in S /\ Len(s) \in Nat \ {0}
<1>1. Len(s) \in Nat \ {0}
  BY EmptySeq
<1>2. PICK n \in Nat : n = Len(s) - 1
  BY <1>1
<1>3. \A i \in 1 .. n : s[i] \in S
  BY <1>1, <1>2, ElementOfSeq
<1>4. /\ SubSeq(s, 1, n) \in Seq(S)
      /\ Len(SubSeq(s, 1, n)) = IF 1 <= n THEN n - 1 + 1 ELSE 0
      /\ \A i \in 1 .. n - 1 + 1 : SubSeq(s, 1, n)[i] = s[1 + i - 1]
  BY <1>2, <1>3, SubSeqProperties
<1>5. Front(s) = SubSeq(s, 1, n)
  BY <1>2 DEF Front
<1>6. n - 1 + 1 = n /\ (IF 1 <= n THEN n - 1 + 1 ELSE 0) = n
  BY <1>2
<1>7. \A i \in 1 .. n : 1 + i - 1 = i
  BY <1>2
<1>8. Last(s) \in S
  BY <1>1, ElementOfSeq DEF Last
<1> QED
  BY <1>1, <1>2, <1>4, <1>5, <1>6, <1>7, <1>8

LEMMA PopType ==
  ASSUME CodeType, NEW g \in Goroutines, NEW t \in {"ret", "panic"}, Pop(g, t)
  PROVE  stack' \in [Goroutines -> Seq(1 .. spans)] /\ [RingNext]_ringVars
<1>1. /\ stack \in [Goroutines -> Seq(1 .. spans)] /\ spans \in 0 .. MaxSpans
      /\ stack[g] \in Seq(1 .. spans) /\ stack[g] # <<>> /\ MaxSpans \in Nat
  BY GoTracesBounds DEF CodeType, Pop
<1>2. Front(stack[g]) \in Seq(1 .. spans) /\ Last(stack[g]) \in 1 .. spans
  BY <1>1, FrontOfSeq
<1>3. stack' = [stack EXCEPT ![g] = Front(stack[g])]
  BY DEF Pop
<1>4. Last(stack[g]) \in 1 .. MaxSpans
  BY <1>1, <1>2
<1>5. Event(t, g, Last(stack[g])) \in Events
  BY <1>4, WireEvent
<1> QED
  BY <1>1, <1>2, <1>3, <1>5 DEF Pop, Record, RingNext

LEMMA ExitType ==
  ASSUME CodeType, NEW g \in Goroutines, Exit(g)
  PROVE  CodeType' /\ [RingNext]_ringVars
<1>1. PICK t \in {"ret", "panic"} : Pop(g, t)
  BY DEF Exit
<1>2. stack' \in [Goroutines -> Seq(1 .. spans)] /\ [RingNext]_ringVars
  BY <1>1, PopType
<1>3. alive' \in [Goroutines -> {"off", "run", "panic"}]
  BY DEF Exit, CodeType
<1> QED
  BY <1>2, <1>3 DEF Exit, CodeType, UnchangedOutside

LEMMA CodeStep ==
  ASSUME HostType, CodeType, Next
  PROVE  CodeType' /\ [RingNext]_ringVars
<1>1. CASE Instrument \/ Client \/ GiveUp \/ Ages \/ Cleanup
  BY <1>1, OutsideBinary DEF CodeType, codeVars, exitVars
<1>2. CASE Runner
  <2>1. CASE Launch
    BY <2>1 DEF Launch, CodeType, ProcessStates, Goroutines, Other
  <2>2. CASE Runner /\ ~Launch
    BY <2>2 DEF Runner, StatBinary, Waited, Collect, Emit, Finish, ReleaseLock, CodeType,
                codeVars, exitVars
  <2> QED
    BY <1>2, <2>1, <2>2
<1>3. CASE RunnerCrash
  <2>1. CASE ProcessGone
    <3>1. failed' \in BOOLEAN /\ holder' \in BOOLEAN /\ conn' \in {"none", "open", "refused"}
      BY <1>3 DEF RunnerCrash, exitVars, CodeType
    <3> QED
      BY <2>1, <3>1, GoneType DEF ProcessGone, RingNext
  <2>2. CASE UNCHANGED <<process, ringVars, codeVars>>
    BY <1>3, <2>2 DEF RunnerCrash, codeVars, exitVars, CodeType
  <2> QED
    BY <1>3, <2>1, <2>2 DEF RunnerCrash
<1>4. CASE Collector
  BY <1>4 DEF Collector, Listen, Accept, AcceptDeadline, ReadAll, CollectorStep, CodeType,
              codeVars, exitVars
<1>5. CASE NilBuffer \/ RunsUntraced \/ FlushSend \/ Kill \/ \E g \in Goroutines : Dies(g)
  <2>1. /\ ProcessGone
        /\ failed' \in BOOLEAN /\ holder' \in BOOLEAN /\ conn' \in {"none", "open", "refused"}
    BY <1>5 DEF NilBuffer, RunsUntraced, FlushSend, Kill, Dies, UnchangedOutside, CodeType
  <2> QED
    BY <2>1, GoneType DEF ProcessGone, RingNext
<1>6. CASE InitTracer \/ Dial \/ Spawn \/ TestsEnd
  BY <1>6 DEF InitTracer, Dial, Spawn, TestsEnd, Processes, UnchangedOutside, CodeType,
              ProcessStates, Goroutines, Main, Other
<1>7. CASE FlushDrain
  BY <1>7 DEF FlushDrain, Processes, UnchangedOutside, CodeType, ProcessStates, RingNext
<1>8. ASSUME NEW g \in Goroutines, Enter(g) \/ Exit(g) PROVE CodeType' /\ [RingNext]_ringVars
  BY <1>8, EnterType, ExitType
<1>9. ASSUME NEW g \in Goroutines, Panic(g) PROVE CodeType' /\ [RingNext]_ringVars
  BY <1>9 DEF Panic, UnchangedOutside, CodeType
<1>10. CASE HolderEnds
  BY <1>10 DEF HolderEnds, CodeType, codeVars
<1> QED
  BY <1>1, <1>2, <1>3, <1>4, <1>5, <1>6, <1>7, <1>8, <1>9, <1>10 DEF Next, Binary

LEMMA EmptyChunk == <<>> \in Chunks
  BY SizeAssumption DEF Chunks

LEMMA PrefixChunk ==
  ASSUME NEW s \in Chunks, NEW p \in Prefixes(s)
  PROVE  p \in Chunks
<1>1. s \in Seq(Events) /\ Len(s) \in Nat /\ Len(s) <= Size /\ Size \in Nat
  BY SizeAssumption DEF Chunks
<1>2. PICK l \in 0 .. Len(s) : p = SubSeq(s, 1, l)
  BY DEF Prefixes
<1>3. \A i \in 1 .. l : s[i] \in Events
  BY <1>1, ElementOfSeq
<1>4. p \in Seq(Events) /\ Len(p) = IF 1 <= l THEN l - 1 + 1 ELSE 0
  BY <1>1, <1>2, <1>3, SubSeqProperties
<1>5. Len(p) <= Size
  BY <1>1, <1>2, <1>4
<1> QED
  BY <1>4, <1>5 DEF Chunks

LEMMA DrainedChunk == RingInv => Drained \in Chunks
<1> SUFFICES ASSUME RingInv PROVE Drained \in Chunks
  OBVIOUS
<1>1. Drained \in Seq(Events) /\ Len(Drained) = count
  BY DrainedIs
<1>2. count <= Size
  BY SizeAssumption DEF RingInv, RingTypeOK
<1> QED
  BY <1>1, <1>2 DEF Chunks

(* What happens to what was drained and sent: the steps that touch neither *)
(* are all others.                                                         *)
LEMMA DataKept ==
  ASSUME Next, ~Emit, ~ReadAll
  PROVE  UNCHANGED <<got, trace, emitted>>
  BY DEF Next, Instrument, CreateSession, Build, BuildFails, Client, Instrumented,
         InstrumentFailed, PostRun, Poll, GiveUp, ClientStep, Ages, Cleanup, CleanupScan,
         CleanupRemove, Runner, StatBinary, Launch, Waited, Collect, Finish, ReleaseLock,
         RunnerCrash, Collector, CollectorStep, Listen, Accept, AcceptDeadline, Binary,
         InitTracer, NilBuffer, Dial, RunsUntraced, Spawn, TestsEnd, FlushDrain, FlushSend, Enter,
         Exit, Panic, Dies, Kill, HolderEnds, UnchangedOutside, runVars

LEMMA SentKept ==
  ASSUME Next, ~FlushSend, ~Kill
  PROVE  UNCHANGED sent
  BY DEF Next, Instrument, CreateSession, Build, BuildFails, Client, Instrumented,
         InstrumentFailed, PostRun, Poll, GiveUp, ClientStep, Ages, Cleanup, CleanupScan,
         CleanupRemove, Runner, StatBinary, Launch, Waited, Collect, Emit, Finish, ReleaseLock,
         RunnerCrash, Collector, CollectorStep, Listen, Accept, AcceptDeadline, ReadAll, Binary,
         InitTracer, NilBuffer, Dial, RunsUntraced, Spawn, TestsEnd, FlushDrain, Enter,
         Exit, Panic, Dies, HolderEnds, exitVars

LEMMA DrainedKept ==
  ASSUME Next, ~FlushDrain
  PROVE  drained' = drained \/ drained' = <<>>
  BY DEF Next, Instrument, CreateSession, Build, BuildFails, Client, Instrumented,
         InstrumentFailed, PostRun, Poll, GiveUp, ClientStep, Ages, Cleanup, CleanupScan,
         CleanupRemove, Runner, StatBinary, Launch, Waited, Collect, Emit, Finish, ReleaseLock,
         RunnerCrash, Collector, CollectorStep, Listen, Accept, AcceptDeadline, ReadAll, Binary,
         InitTracer, NilBuffer, Dial, RunsUntraced, Spawn, TestsEnd, FlushSend, Enter,
         Exit, Panic, Dies, Kill, HolderEnds, ProcessGone, codeVars

LEMMA HistoryKept ==
  ASSUME Next
  PROVE  /\ ~FlushDrain => recorded' = recorded
         /\ (\A g \in Goroutines : ~Enter(g)) => opened' = opened
  BY DEF Next, Instrument, CreateSession, Build, BuildFails, Client, Instrumented,
         InstrumentFailed, PostRun, Poll, GiveUp, ClientStep, Ages, Cleanup, CleanupScan,
         CleanupRemove, Runner, StatBinary, Launch, Waited, Collect, Emit, Finish, ReleaseLock,
         RunnerCrash, Collector, CollectorStep, Listen, Accept, AcceptDeadline, ReadAll, Binary,
         InitTracer, NilBuffer, Dial, RunsUntraced, Spawn, TestsEnd, FlushDrain, FlushSend, Enter,
         Exit, Panic, Dies, Kill, HolderEnds, exitVars, historyVars

LEMMA DataStep == TypeInv /\ Next => DataType'
<1> SUFFICES ASSUME TypeInv, Next PROVE DataType'
  OBVIOUS
<1>1. RingInv /\ DataType
  BY DEF TypeInv
<1>2. got' \in Chunks /\ trace' \in [some : BOOLEAN, events : Chunks] /\ emitted' \in 0 .. Size
  <2>1. CASE Emit
    <3>1. Len(got) \in 0 .. Size
      BY <1>1, SizeAssumption DEF DataType, Chunks
    <3>2. trace' \in [some : BOOLEAN, events : Chunks]
      <4>1. \/ trace' = trace \/ trace' = [some |-> FALSE, events |-> <<>>]
            \/ trace' = [some |-> TRUE, events |-> got]
        BY <2>1 DEF Emit, NoTrace
      <4>2. got \in Chunks /\ trace \in [some : BOOLEAN, events : Chunks]
        BY <1>1 DEF DataType
      <4>3. \A b \in BOOLEAN, c \in Chunks :
              [some |-> b, events |-> c] \in [some : BOOLEAN, events : Chunks]
        OBVIOUS
      <4> QED
        BY <4>1, <4>2, <4>3, EmptyChunk
    <3>3. got' = got /\ emitted' = Len(got)
      BY <2>1 DEF Emit
    <3> QED
      BY <1>1, <3>1, <3>2, <3>3 DEF DataType
  <2>2. CASE ReadAll
    BY <2>2, <1>1 DEF ReadAll, CollectorStep, DataType
  <2> QED
    BY <2>1, <2>2, <1>1, DataKept DEF DataType
<1>3. sent' \in Chunks
  <2>1. CASE FlushSend
    BY <2>1, <1>1, EmptyChunk DEF FlushSend, DataType
  <2>2. CASE Kill
    BY <2>2, <1>1, PrefixChunk DEF Kill, DataType
  <2> QED
    BY <2>1, <2>2, <1>1, SentKept DEF DataType
<1>4. drained' \in Chunks
  <2>1. CASE FlushDrain
    BY <2>1, <1>1, DrainedChunk DEF FlushDrain
  <2> QED
    BY <2>1, <1>1, EmptyChunk, DrainedKept DEF DataType
<1>5. recorded' \in Seq(Events)
  <2>1. CASE FlushDrain
    BY <2>1, <1>1 DEF FlushDrain, RingInv, RingTypeOK
  <2> QED
    BY <2>1, <1>1, HistoryKept DEF DataType
<1>6. opened' \subseteq 1 .. MaxSpans
  <2>1. ASSUME NEW g \in Goroutines, Enter(g) PROVE opened' \subseteq 1 .. MaxSpans
    <3>1. spans \in Nat /\ spans < MaxSpans /\ spans' = spans + 1 /\ MaxSpans \in Nat
      BY <2>1, GoTracesBounds DEF TypeInv, CodeType, Enter
    <3>2. spans' \in 1 .. MaxSpans
      BY <3>1
    <3>3. opened' \subseteq opened \cup {spans'}
      BY <2>1 DEF Enter
    <3> QED
      BY <1>1, <3>2, <3>3 DEF DataType
  <2> QED
    BY <2>1, <1>1, HistoryKept DEF DataType
<1> QED
  BY <1>2, <1>3, <1>4, <1>5, <1>6 DEF DataType

LEMMA TypeStep == TypeInv /\ [Next]_vars => TypeInv'
<1> SUFFICES ASSUME TypeInv, [Next]_vars PROVE TypeInv'
  OBVIOUS
<1>1. CASE Next
  <2>1. HostType' /\ CodeType' /\ DataType'
    BY <1>1, HostStep, CodeStep, DataStep DEF TypeInv
  <2>2. RingInv'
    BY <1>1, CodeStep, RingStep DEF TypeInv
  <2> QED
    BY <2>1, <2>2 DEF TypeInv
<1>2. CASE UNCHANGED vars
  <2>1. RingInv'
    BY <1>2, RingStep DEF TypeInv, vars
  <2> QED
    BY <1>2, <2>1 DEF TypeInv, HostType, CodeType, DataType, vars, clientVars, dirVars, runVars,
                      codeVars, exitVars, historyVars
<1> QED
  BY <1>1, <1>2

LEMMA TypesHold == Spec => []TypeInv
  BY InitTypes, TypeStep, PTL DEF Spec

(* The types of the whole job: everything collected, drained or sent is a  *)
(* sequence of wire events that fits into the ring.                        *)
THEOREM TypeCorrect == Spec => []TypeOK
<1>1. TypeInv => TypeOK
  <2> SUFFICES ASSUME TypeInv PROVE TypeOK
    OBVIOUS
  <2>1. RingTypeOK
    BY DEF TypeInv, RingInv
  <2>2. /\ {lock, aged, runErr, failed, holder, initialized, crashed} \subseteq BOOLEAN
        /\ RunActive \/ run \in {"none", "done", "dead"}
        /\ Executing \/ process \in {"none", "over"}
    BY DEF TypeInv, HostType, CodeType, RunActive, Executing, RunStates, ProcessStates
  <2>3. /\ {got, drained, sent, recorded} \subseteq Seq(Events)
        /\ opened \subseteq 1 .. MaxSpans
        /\ trace \in [some : BOOLEAN, events : Seq(Events)]
    BY DEF TypeInv, DataType, Chunks
  <2> QED
    BY <2>1, <2>2, <2>3 DEF TypeInv, HostType, CodeType, DataType, TypeOK
<1> QED
  BY TypesHold, <1>1, PTL

(* In the binary as well a drain returns the newest events in order: what  *)
(* the processes of the job do to the ring is write and drain.             *)
THEOREM BinaryDrainsNewest == Spec => []RingHoldsNewest
<1>1. TypeInv => RingHoldsNewest
  BY RingInvNewest DEF TypeInv
<1> QED
  BY TypesHold, <1>1, PTL

-----------------------------------------------------------------------------
(* The binary.                                                             *)

(* An event is followed by the end of its span. *)
Ended(s, i) ==
  \E j \in i + 1 .. Len(s) : s[j].span_id = s[i].span_id /\ s[j].type # "call"
MainCall(e) == e.type = "call" /\ e.goroutine_id = Main

(* A call that has no end in s is still on the stack. *)
OpenOrEnded(s, open) ==
  \A i \in 1 .. Len(s) : MainCall(s[i]) =>
    Ended(s, i) \/ \E k \in 1 .. Len(open) : open[k] = s[i].span_id

(* What was written has every call of the test's own goroutine. *)
HasCall(s, n) == \E i \in 1 .. Len(s) : s[i] = Event("call", Main, n)
AllCalls == \A n \in opened : HasCall(log, n)

(* What makes the ring whole when it is drained: the tracer is on as long  *)
(* as the test runs, and the test has returned.                            *)
TracerOn ==
  /\ process \in {"dial", "test", "flush", "send"} \/ alive[Main] # "off" => initialized
  /\ process \in {"flush", "send"} => stack[Main] = <<>> /\ alive[Main] = "off"

(* What Flush has taken: the newest of all there was, and all of the test. *)
Captured == OwnCallsRecorded /\ drained = Newest(recorded)

TracerInv ==
  /\ TracerOn /\ OpenOrEnded(log, stack[Main])
  /\ process \notin {"send", "over"} => AllCalls
  /\ process = "send" => Captured

LEMMA NothingOpen == \A open : OpenOrEnded(<<>>, open)
  BY DEF OpenOrEnded

LEMMA HasCallStays ==
  ASSUME NEW s \in Seq(Events), NEW e \in Events, NEW n, HasCall(s, n)
  PROVE  HasCall(Append(s, e), n)
<1>1. PICK i \in 1 .. Len(s) : s[i] = Event("call", Main, n)
  BY DEF HasCall
<1>2. /\ Len(Append(s, e)) = Len(s) + 1 /\ Len(s) \in Nat
      /\ \A j \in 1 .. Len(s) : Append(s, e)[j] = s[j]
  BY AppendProperties
<1>3. i \in 1 .. Len(s) + 1
  BY <1>2
<1> QED
  BY <1>1, <1>2, <1>3 DEF HasCall

LEMMA HasCallNew ==
  ASSUME NEW s \in Seq(Events), NEW n, Event("call", Main, n) \in Events
  PROVE  HasCall(Append(s, Event("call", Main, n)), n)
<1> DEFINE e == Event("call", Main, n)
<1>1. Len(Append(s, e)) = Len(s) + 1 /\ Append(s, e)[Len(s) + 1] = e /\ Len(s) \in Nat
  BY AppendProperties
<1>2. Len(s) + 1 \in 1 .. Len(s) + 1
  BY <1>1
<1> QED
  BY <1>1, <1>2 DEF HasCall

LEMMA EndedStays ==
  ASSUME NEW s \in Seq(Events), NEW e \in Events, NEW i \in 1 .. Len(s), Ended(s, i)
  PROVE  Ended(Append(s, e), i)
<1>1. Len(Append(s, e)) = Len(s) + 1 /\ \A j \in 1 .. Len(s) : Append(s, e)[j] = s[j]
  BY AppendProperties
<1>2. PICK j \in i + 1 .. Len(s) : s[j].span_id = s[i].span_id /\ s[j].type # "call"
  BY DEF Ended
<1>3. Len(s) \in Nat
  OBVIOUS
<1>4. j \in 1 .. Len(s) /\ j \in i + 1 .. Len(s) + 1
  BY <1>2, <1>3
<1> QED
  BY <1>1, <1>2, <1>4 DEF Ended

(* An event of another goroutine, or an end, leaves open what was open. *)
LEMMA OpenOther ==
  ASSUME NEW s \in Seq(Events), NEW e \in Events, NEW open, ~MainCall(e), OpenOrEnded(s, open)
  PROVE  OpenOrEnded(Append(s, e), open)
<1>1. /\ Len(Append(s, e)) = Len(s) + 1 /\ Append(s, e)[Len(s) + 1] = e /\ Len(s) \in Nat
      /\ \A j \in 1 .. Len(s) : Append(s, e)[j] = s[j]
  BY AppendProperties
<1>2. ASSUME NEW i \in 1 .. Len(s) + 1, MainCall(Append(s, e)[i])
      PROVE  Ended(Append(s, e), i) \/ \E k \in 1 .. Len(open) : open[k] = Append(s, e)[i].span_id
  <2>1. i \in 1 .. Len(s) /\ Append(s, e)[i] = s[i]
    BY <1>1, <1>2
  <2> QED
    BY <1>2, <2>1, EndedStays DEF OpenOrEnded
<1> QED
  BY <1>1, <1>2 DEF OpenOrEnded

(* A call is pushed as it is written. *)
LEMMA OpenPush ==
  ASSUME NEW s \in Seq(Events), NEW e \in Events, NEW open \in Seq(Nat), NEW n \in Nat,
         e.span_id = n, OpenOrEnded(s, open)
  PROVE  OpenOrEnded(Append(s, e), Append(open, n))
<1>1. /\ Len(Append(s, e)) = Len(s) + 1 /\ Append(s, e)[Len(s) + 1] = e /\ Len(s) \in Nat
      /\ \A j \in 1 .. Len(s) : Append(s, e)[j] = s[j]
  BY AppendProperties
<1>2. /\ Len(Append(open, n)) = Len(open) + 1 /\ Append(open, n)[Len(open) + 1] = n
      /\ \A k \in 1 .. Len(open) : Append(open, n)[k] = open[k]
      /\ Len(open) \in Nat
  BY AppendProperties
<1>3. ASSUME NEW i \in 1 .. Len(s) + 1, MainCall(Append(s, e)[i])
      PROVE  \/ Ended(Append(s, e), i)
             \/ \E k \in 1 .. Len(open) + 1 : Append(open, n)[k] = Append(s, e)[i].span_id
  <2>1. CASE i = Len(s) + 1
    <3>1. Len(open) + 1 \in 1 .. Len(open) + 1
      BY <1>2
    <3> QED
      BY <1>1, <1>2, <2>1, <3>1
  <2>2. CASE i # Len(s) + 1
    <3>1. i \in 1 .. Len(s) /\ Append(s, e)[i] = s[i]
      BY <1>1, <2>2
    <3>2. \A k \in 1 .. Len(open) : k \in 1 .. Len(open) + 1
      BY <1>2
    <3> QED
      BY <1>2, <1>3, <3>1, <3>2, EndedStays DEF OpenOrEnded
  <2> QED
    BY <2>1, <2>2
<1> QED
  BY <1>1, <1>2, <1>3 DEF OpenOrEnded

(* The end of the innermost call is written as it is popped. *)
LEMMA OpenPop ==
  ASSUME NEW s \in Seq(Events), NEW e \in Events, NEW open \in Seq(Nat), open # <<>>,
         e.type # "call", e.span_id = Last(open), OpenOrEnded(s, open)
  PROVE  OpenOrEnded(Append(s, e), Front(open))
<1>1. /\ Len(Append(s, e)) = Len(s) + 1 /\ Append(s, e)[Len(s) + 1] = e /\ Len(s) \in Nat
      /\ \A j \in 1 .. Len(s) : Append(s, e)[j] = s[j]
  BY AppendProperties
<1>2. /\ Len(Front(open)) = Len(open) - 1 /\ Len(open) \in Nat \ {0}
      /\ \A k \in 1 .. Len(open) - 1 : Front(open)[k] = open[k]
  BY FrontOfSeq
<1>3. ASSUME NEW i \in 1 .. Len(s) + 1, MainCall(Append(s, e)[i])
      PROVE  \/ Ended(Append(s, e), i)
             \/ \E k \in 1 .. Len(open) - 1 : Front(open)[k] = Append(s, e)[i].span_id
  <2>1. i \in 1 .. Len(s) /\ Append(s, e)[i] = s[i]
    BY <1>1, <1>3 DEF MainCall
  <2>2. CASE Ended(s, i)
    BY <2>1, <2>2, EndedStays
  <2>3. CASE \E k \in 1 .. Len(open) : open[k] = s[i].span_id
    <3>1. PICK k \in 1 .. Len(open) : open[k] = s[i].span_id
      BY <2>3
    <3>2. CASE k = Len(open)
      <4>1. e.span_id = s[i].span_id
        BY <3>1, <3>2 DEF Last
      <4>2. Len(s) + 1 \in i + 1 .. Len(s) + 1
        BY <1>1, <2>1
      <4> QED
        BY <1>1, <2>1, <4>1, <4>2 DEF Ended
    <3>3. CASE k # Len(open)
      <4>1. k \in 1 .. Len(open) - 1
        BY <1>2, <3>3
      <4> QED
        BY <1>2, <2>1, <3>1, <4>1
    <3> QED
      BY <3>2, <3>3
  <2> QED
    BY <1>3, <2>1, <2>2, <2>3 DEF OpenOrEnded
<1> QED
  BY <1>1, <1>2, <1>3 DEF OpenOrEnded

(* Without open calls every call of the test has its end where it is       *)
(* drained.                                                                *)
LEMMA Captures ==
  ASSUME RingInv, OpenOrEnded(log, <<>>), AllCalls, FlushDrain
  PROVE  Captured'
<1>1. recorded' = log /\ opened' = opened /\ drained' = Drained
  BY DEF FlushDrain
<1>2. Drained = Newest(log)
  BY RingInvNewest DEF RingHoldsNewest
<1>3. ASSUME NEW n \in opened
      PROVE  \E i \in DOMAIN log :
               /\ log[i] = Event("call", Main, n)
               /\ \E j \in i + 1 .. Len(log) : log[j].span_id = n /\ log[j].type # "call"
  <2>1. PICK i \in 1 .. Len(log) : log[i] = Event("call", Main, n)
    BY DEF AllCalls, HasCall
  <2>2. MainCall(log[i]) /\ log[i].span_id = n
    BY <2>1 DEF MainCall, Event
  <2>3. Ended(log, i)
    BY <2>1, <2>2 DEF OpenOrEnded
  <2>4. DOMAIN log = 1 .. Len(log)
    BY LenProperties DEF RingInv, RingTypeOK
  <2> QED
    BY <2>1, <2>2, <2>3, <2>4 DEF Ended
<1>4. OwnCallsRecorded'
  BY <1>1, <1>3 DEF OwnCallsRecorded
<1> QED
  BY <1>1, <1>2, <1>4 DEF Captured

LEMMA TracerOnStep == CodeType /\ TracerOn /\ Next => TracerOn'
<1> SUFFICES ASSUME CodeType, TracerOn, Next PROVE TracerOn'
  OBVIOUS
<1> USE DEF TracerOn
<1>1. CASE UNCHANGED <<process, codeVars>>
  BY <1>1 DEF codeVars
<1>2. CASE Instrument \/ Client \/ GiveUp \/ Ages \/ Cleanup
  BY <1>1, <1>2, OutsideBinary
<1>3. CASE Launch
  BY <1>3 DEF Launch, Main, Other
<1>4. CASE Runner /\ ~Launch
  BY <1>1, <1>4 DEF Runner, StatBinary, Waited, Collect, Emit, Finish, ReleaseLock
<1>5. CASE Collector
  BY <1>1, <1>5 DEF Collector, Listen, Accept, AcceptDeadline, ReadAll, CollectorStep
<1>6. CASE ProcessGone
  BY <1>6 DEF ProcessGone, Goroutines
<1>7. CASE InitTracer \/ Dial \/ Spawn \/ TestsEnd \/ FlushDrain
  <2>1. alive \in [Goroutines -> {"off", "run", "panic"}] /\ Main \in Goroutines /\ Main # Other
    BY DEF CodeType, Goroutines, Main, Other
  <2>2. CASE InitTracer \/ FlushDrain
    BY <2>2 DEF InitTracer, FlushDrain, Processes
  <2>3. CASE Dial
    BY <2>1, <2>3 DEF Dial, Processes
  <2>4. CASE Spawn
    BY <2>1, <2>4 DEF Spawn
  <2>5. CASE TestsEnd
    BY <2>1, <2>5 DEF TestsEnd, Processes
  <2> QED
    BY <1>7, <2>2, <2>3, <2>4, <2>5
<1>8. ASSUME NEW g \in Goroutines, Enter(g) \/ Exit(g) \/ Panic(g) PROVE TracerOn'
  <2>1. /\ alive \in [Goroutines -> {"off", "run", "panic"}] /\ Main \in Goroutines
        /\ DOMAIN stack = Goroutines /\ alive[g] # "off"
    BY <1>8 DEF CodeType, Goroutines, Enter, Exit, Panic, Active
  <2>2. /\ UNCHANGED <<process, initialized>>
        /\ alive'[Main] # "off" => alive[Main] # "off"
        /\ g # Main => stack'[Main] = stack[Main] /\ alive'[Main] = alive[Main]
    <3>1. CASE Enter(g)
      BY <2>1, <3>1 DEF Enter
    <3>2. CASE Exit(g)
      BY <2>1, <3>2 DEF Exit, Pop
    <3>3. CASE Panic(g)
      BY <2>1, <3>3 DEF Panic
    <3> QED
      BY <1>8, <3>1, <3>2, <3>3
  <2> QED
    BY <2>1, <2>2
<1>9. CASE HolderEnds
  BY <1>1, <1>9 DEF HolderEnds
<1> QED
  BY <1>1, <1>2, <1>3, <1>4, <1>5, <1>6, <1>7, <1>8, <1>9
  DEF Next, Binary, RunnerCrash, NilBuffer, RunsUntraced, FlushSend, Dies, Kill

LEMMA EnterOpen ==
  ASSUME TypeInv, TracerInv, NEW g \in Goroutines, Enter(g)
  PROVE  OpenOrEnded(log', stack'[Main])
<1>1. /\ log \in Seq(Events) /\ stack \in [Goroutines -> Seq(1 .. spans)]
      /\ spans \in 0 .. MaxSpans /\ MaxSpans \in Nat
      /\ OpenOrEnded(log, stack[Main]) /\ Main \in Goroutines
  BY GoTracesBounds DEF TypeInv, RingInv, RingTypeOK, CodeType, TracerInv, Goroutines
<1>2. /\ spans' = spans + 1 /\ spans' \in 1 .. MaxSpans /\ spans' \in Nat
      /\ stack' = [stack EXCEPT ![g] = Append(stack[g], spans')]
      /\ IF initialized THEN log' = Append(log, Event("call", g, spans')) ELSE log' = log
  BY <1>1 DEF Enter, Record, Write, ringVars
<1>3. Event("call", g, spans') \in Events
  BY <1>2, WireEvent DEF TypeInv
<1>4. CASE g = Main
  <2>1. initialized
    BY <1>4 DEF Enter, TracerInv, TracerOn
  <2>2. stack[Main] \in Seq(Nat)
    <3>1. 1 .. spans \subseteq Nat
      BY <1>1
    <3> QED
      BY <1>1, <3>1, SeqMonotonic
  <2>3. Event("call", g, spans').span_id = spans'
    BY DEF Event
  <2>4. OpenOrEnded(Append(log, Event("call", g, spans')), Append(stack[Main], spans'))
    BY <1>1, <1>2, <1>3, <2>2, <2>3, OpenPush
  <2> QED
    BY <1>1, <1>2, <1>4, <2>1, <2>4
<1>5. CASE g # Main
  <2>1. stack'[Main] = stack[Main] /\ ~MainCall(Event("call", g, spans'))
    BY <1>1, <1>2, <1>5 DEF MainCall, Event
  <2> QED
    BY <1>1, <1>2, <1>3, <2>1, OpenOther
<1> QED
  BY <1>4, <1>5

LEMMA ExitOpen ==
  ASSUME TypeInv, TracerInv, NEW g \in Goroutines, Exit(g)
  PROVE  OpenOrEnded(log', stack'[Main])
<1>1. /\ log \in Seq(Events) /\ stack \in [Goroutines -> Seq(1 .. spans)]
      /\ spans \in 0 .. MaxSpans /\ MaxSpans \in Nat
      /\ OpenOrEnded(log, stack[Main]) /\ Main \in Goroutines
  BY GoTracesBounds DEF TypeInv, RingInv, RingTypeOK, CodeType, TracerInv, Goroutines
<1>2. PICK t \in {"ret", "panic"} : Pop(g, t)
  BY DEF Exit
<1> DEFINE e == Event(t, g, Last(stack[g]))
<1>3. /\ stack[g] # <<>> /\ stack' = [stack EXCEPT ![g] = Front(stack[g])]
      /\ IF initialized THEN log' = Append(log, e) ELSE log' = log
  BY <1>2 DEF Pop, Record, Write, ringVars
<1>4. e \in Events
  <2>3. stack[g] \in Seq(1 .. spans)
    BY <1>1
  <2>1. Last(stack[g]) \in 1 .. spans
    BY <1>3, <2>3, FrontOfSeq
  <2>2. Last(stack[g]) \in 1 .. MaxSpans
    BY <1>1, <2>1
  <2> QED
    BY <2>2, WireEvent DEF TypeInv
<1>5. e.type # "call" /\ e.span_id = Last(stack[g]) /\ ~MainCall(e)
  BY DEF Event, MainCall
<1> HIDE DEF e
<1>6. CASE g = Main
  <2>1. initialized
    BY <1>6 DEF Exit, Active, TracerInv, TracerOn
  <2>2. stack[Main] \in Seq(Nat)
    <3>1. 1 .. spans \subseteq Nat
      BY <1>1
    <3> QED
      BY <1>1, <3>1, SeqMonotonic
  <2>3. OpenOrEnded(Append(log, e), Front(stack[Main]))
    BY <1>1, <1>3, <1>4, <1>5, <1>6, <2>2, OpenPop
  <2> QED
    BY <1>1, <1>3, <1>6, <2>1, <2>3
<1>7. CASE g # Main
  <2>1. stack'[Main] = stack[Main]
    BY <1>1, <1>3, <1>7
  <2> QED
    BY <1>1, <1>3, <1>4, <1>5, <2>1, OpenOther
<1> QED
  BY <1>6, <1>7

(* All other steps leave the ring and the stack of the test alone or empty *)
(* the ring.                                                               *)
LEMMA RingKept ==
  ASSUME Next, \A g \in Goroutines : ~Enter(g) /\ ~Exit(g)
  PROVE  \/ log' = <<>> /\ process' \in {"send", "over"}
         \/ UNCHANGED <<log, stack>>
<1>1. CASE Instrument \/ Client \/ GiveUp \/ Ages \/ Cleanup
  BY <1>1, OutsideBinary DEF ringVars, codeVars
<1>2. CASE Runner
  BY <1>2 DEF Runner, StatBinary, Launch, Waited, Collect, Emit, Finish, ReleaseLock, ringVars, codeVars
<1>3. CASE Collector
  BY <1>3 DEF Collector, Listen, Accept, AcceptDeadline, ReadAll, CollectorStep, ringVars, codeVars
<1>4. CASE RunnerCrash \/ Kill \/ HolderEnds
  BY <1>4 DEF RunnerCrash, Kill, HolderEnds, ProcessGone, NewRing, ringVars, codeVars
<1>5. CASE Binary
  BY <1>5 DEF Binary, InitTracer, NilBuffer, Dial, RunsUntraced, Spawn, TestsEnd, FlushDrain,
              FlushSend, Panic, Dies, Processes, ProcessGone, NewRing, Reset, ringVars
<1> QED
  BY <1>1, <1>2, <1>3, <1>4, <1>5 DEF Next

(* The process comes after the run's start, there is only one, and the     *)
(* test makes its calls after Init.                                        *)
OneRun ==
  /\ client \in {"instrument", "start"} => run = "none"
  /\ run \in {"none", "stat", "launch"} => process = "none"
  /\ run \in {"none", "stat"} => collector = "off"
  /\ process = "none" => run \in {"none", "stat", "launch"} \/ collector = "off"
  /\ conn = "open" => process \in {"test", "flush", "send", "over"}
  /\ process \in {"none", "start", "dial"} => opened = {} /\ alive[Main] = "off"

LEMMA OpenedStep ==
  ASSUME CodeType, OneRun, Next, process' \in {"none", "start", "dial"}
  PROVE  opened' = {} /\ alive'[Main] = "off"
<1> USE DEF OneRun
<1>1. /\ alive \in [Goroutines -> {"off", "run", "panic"}]
      /\ Main \in Goroutines /\ Other # Main
  BY DEF CodeType, Goroutines, Main, Other
<1>2. CASE Instrument \/ Client \/ GiveUp \/ Ages \/ Cleanup
  BY <1>2, OutsideBinary DEF exitVars, historyVars, codeVars
<1>3. CASE Launch
  BY <1>1, <1>3 DEF Launch, historyVars
<1>4. CASE (Runner /\ ~Launch) \/ Collector
  BY <1>4 DEF Runner, StatBinary, Waited, Collect, Emit, Finish, ReleaseLock, Collector, Listen,
              Accept, AcceptDeadline, ReadAll, CollectorStep, codeVars, exitVars, historyVars
<1>5. CASE RunnerCrash \/ HolderEnds
  BY <1>5 DEF RunnerCrash, HolderEnds, ProcessGone, codeVars, exitVars, historyVars
<1>6. CASE Kill \/ (Binary /\ \A g \in Goroutines : ~Enter(g) /\ ~Exit(g) /\ ~Panic(g))
  BY <1>1, <1>6 DEF Binary, InitTracer, NilBuffer, Dial, RunsUntraced, Spawn, TestsEnd, FlushDrain,
              FlushSend, Dies, Kill, Processes, ProcessGone, historyVars
<1>7. ASSUME NEW g \in Goroutines, Enter(g) \/ Exit(g) \/ Panic(g)
      PROVE  opened' = {} /\ alive'[Main] = "off"
  <2>1. process' = process /\ alive[g] # "off"
    BY <1>7 DEF Enter, Exit, Panic, Active
  <2>2. opened = {} /\ alive[Main] = "off" /\ g # Main
    BY <2>1
  <2>3. CASE Enter(g)
    BY <2>2, <2>3 DEF Enter
  <2>4. CASE Exit(g)
    BY <1>1, <2>2, <2>4 DEF Exit, historyVars
  <2>5. CASE Panic(g)
    BY <1>1, <2>2, <2>5 DEF Panic, historyVars
  <2> QED
    BY <1>7, <2>3, <2>4, <2>5
<1> QED
  BY <1>2, <1>3, <1>4, <1>5, <1>6, <1>7 DEF Next, Binary

LEMMA OneRunStep == CodeType /\ OneRun /\ Next => OneRun'
<1> SUFFICES ASSUME CodeType, OneRun, Next PROVE OneRun'
  OBVIOUS
<1>0. process' \in {"none", "start", "dial"} => opened' = {} /\ alive'[Main] = "off"
  BY OpenedStep
<1> USE DEF OneRun
<1>1. CASE Instrument \/ Ages \/ Cleanup
  BY <1>0, <1>1 DEF Instrument, CreateSession, Build, BuildFails, Ages, Cleanup, CleanupScan,
              CleanupRemove, clientVars, runVars, exitVars
<1>2. CASE Client \/ GiveUp
  BY <1>0, <1>2 DEF Client, GiveUp, Instrumented, InstrumentFailed, Poll, PostRun, ClientStep, runVars,
              exitVars
<1>3. CASE Runner
  BY <1>0, <1>3 DEF Runner, StatBinary, Launch, Waited, Collect, Emit, Finish, ReleaseLock, clientVars,
              exitVars
<1>4. CASE RunnerCrash
  BY <1>0, <1>4 DEF RunnerCrash, RunActive, Executing, ProcessGone, clientVars, exitVars
<1>5. CASE Collector
  BY <1>0, <1>5 DEF Collector, Listen, Accept, AcceptDeadline, ReadAll, CollectorStep, clientVars, exitVars
<1>6. CASE Binary \/ Kill
  <2>1. /\ UNCHANGED <<client, run, collector>>
        /\ process # "none" /\ process' # "none"
    BY <1>6 DEF Binary, InitTracer, NilBuffer, Dial, RunsUntraced, Spawn, TestsEnd, FlushDrain,
                FlushSend, Enter, Exit, Panic, Dies, Kill, Active, Executing, Processes, ProcessGone,
                UnchangedOutside, clientVars, runVars
  <2>2. conn' = "open" => process' \in {"test", "flush", "send", "over"}
    BY <1>6 DEF Binary, InitTracer, NilBuffer, Dial, RunsUntraced, Spawn, TestsEnd, FlushDrain,
                FlushSend, Enter, Exit, Panic, Dies, Kill, Active, Executing, Processes, ProcessGone
  <2> QED
    BY <1>0, <2>1, <2>2
<1>7. CASE HolderEnds
  BY <1>0, <1>7 DEF HolderEnds, clientVars, runVars
<1> QED
  BY <1>0, <1>1, <1>2, <1>3, <1>4, <1>5, <1>6, <1>7 DEF Next

(* The process does not go back. *)
LEMMA ProcessAhead ==
  ASSUME Next, OneRun, process \in {"send", "over"}
  PROVE  process' \in {"send", "over"}
  BY DEF OneRun, Next, Instrument, CreateSession, Build, BuildFails, Client, Instrumented,
         InstrumentFailed, PostRun, Poll, GiveUp, ClientStep, Ages, Cleanup, CleanupScan,
         CleanupRemove, Runner, StatBinary, Launch, Waited, Collect, Emit, Finish, ReleaseLock,
         RunnerCrash, Collector, CollectorStep, Listen, Accept, AcceptDeadline, ReadAll, Binary,
         InitTracer, NilBuffer, Dial, RunsUntraced, Spawn, TestsEnd, FlushDrain, FlushSend, Enter,
         Exit, Panic, Dies, Kill, HolderEnds, ProcessGone, Processes

LEMMA EnterCalls ==
  ASSUME TypeInv, TracerOn, AllCalls, NEW g \in Goroutines, Enter(g)
  PROVE  AllCalls'
<1>1. /\ log \in Seq(Events) /\ spans \in 0 .. MaxSpans /\ MaxSpans \in Nat /\ Main \in Goroutines
  BY GoTracesBounds DEF TypeInv, RingInv, RingTypeOK, CodeType, Goroutines
<1>2. /\ spans' = spans + 1 /\ spans' \in 1 .. MaxSpans
      /\ opened' = opened \cup (IF g = Main THEN {spans'} ELSE {})
      /\ IF initialized THEN log' = Append(log, Event("call", g, spans')) ELSE log' = log
  BY <1>1 DEF Enter, Record, Write, ringVars
<1>3. Event("call", g, spans') \in Events
  BY <1>2, WireEvent DEF TypeInv
<1>4. ASSUME NEW n \in opened PROVE HasCall(log', n)
  <2>1. HasCall(log, n)
    BY <1>4 DEF AllCalls
  <2>2. HasCall(Append(log, Event("call", g, spans')), n)
    BY <1>1, <1>3, <2>1, HasCallStays
  <2> QED
    BY <1>2, <2>1, <2>2
<1>5. g = Main => HasCall(log', spans')
  <2> SUFFICES ASSUME g = Main PROVE HasCall(log', spans')
    OBVIOUS
  <2>1. initialized
    BY DEF Enter, TracerOn
  <2> QED
    BY <1>1, <1>2, <1>3, <2>1, HasCallNew
<1>6. \A n \in opened' : HasCall(log', n)
  BY <1>2, <1>4, <1>5
<1> QED
  BY <1>6 DEF AllCalls

LEMMA ExitCalls ==
  ASSUME TypeInv, AllCalls, NEW g \in Goroutines, Exit(g)
  PROVE  AllCalls'
<1>1. /\ log \in Seq(Events) /\ stack \in [Goroutines -> Seq(1 .. spans)]
      /\ spans \in 0 .. MaxSpans /\ MaxSpans \in Nat
  BY GoTracesBounds DEF TypeInv, RingInv, RingTypeOK, CodeType
<1>2. PICK t \in {"ret", "panic"} : Pop(g, t)
  BY DEF Exit
<1> DEFINE e == Event(t, g, Last(stack[g]))
<1>3. stack[g] # <<>> /\ IF initialized THEN log' = Append(log, e) ELSE log' = log
  BY <1>2 DEF Pop, Record, Write, ringVars
<1>4. e \in Events
  <2>1. stack[g] \in Seq(1 .. spans)
    BY <1>1
  <2>2. Last(stack[g]) \in 1 .. spans
    BY <1>3, <2>1, FrontOfSeq
  <2>3. Last(stack[g]) \in 1 .. MaxSpans
    BY <1>1, <2>2
  <2> QED
    BY <2>3, WireEvent DEF TypeInv
<1>5. opened' = opened
  BY DEF Exit, historyVars
<1> HIDE DEF e
<1>6. ASSUME NEW n \in opened PROVE HasCall(log', n)
  <2>1. HasCall(log, n)
    BY <1>6 DEF AllCalls
  <2>2. HasCall(Append(log, e), n)
    BY <1>1, <1>4, <2>1, HasCallStays
  <2> QED
    BY <1>3, <2>1, <2>2
<1> QED
  BY <1>5, <1>6 DEF AllCalls

(* Nothing is added once Flush has drained the ring: the test is off. *)
LEMMA CapturedKept ==
  ASSUME TracerOn, Next, process = "send", Captured, process' = "send"
  PROVE  Captured'
<1>1. alive[Main] = "off" /\ ~FlushDrain
  BY DEF TracerOn, FlushDrain, Processes
<1>2. opened' = opened
  <2>1. ASSUME NEW g \in Goroutines, Enter(g) PROVE opened' = opened
    BY <1>1, <2>1 DEF Enter
  <2> QED
    BY <2>1, HistoryKept
<1>3. recorded' = recorded
  BY <1>1, HistoryKept
<1>4. drained' = drained
  BY <1>1
  DEF Next, Instrument, CreateSession, Build, BuildFails, Client, Instrumented,
      InstrumentFailed, PostRun, Poll, GiveUp, ClientStep, Ages, Cleanup, CleanupScan,
      CleanupRemove, Runner, StatBinary, Launch, Waited, Collect, Emit, Finish, ReleaseLock,
      RunnerCrash, Collector, CollectorStep, Listen, Accept, AcceptDeadline, ReadAll, Binary,
      InitTracer, NilBuffer, Dial, RunsUntraced, Spawn, TestsEnd, FlushSend, Enter,
      Exit, Panic, Dies, Kill, HolderEnds, ProcessGone, codeVars
<1> QED
  BY <1>2, <1>3, <1>4 DEF Captured, OwnCallsRecorded

LEMMA ToSend ==
  ASSUME Next, OneRun, process # "send", process' = "send"
  PROVE  FlushDrain
  BY DEF Next, Instrument, CreateSession, Build, BuildFails, Client, Instrumented,
         InstrumentFailed, PostRun, Poll, GiveUp, ClientStep, Ages, Cleanup, CleanupScan,
         CleanupRemove, Runner, StatBinary, Launch, Waited, Collect, Emit, Finish, ReleaseLock,
         RunnerCrash, Collector, CollectorStep, Listen, Accept, AcceptDeadline, ReadAll, Binary,
         InitTracer, NilBuffer, Dial, RunsUntraced, Spawn, TestsEnd, FlushSend, Enter,
         Exit, Panic, Dies, Kill, HolderEnds, ProcessGone, Processes

LEMMA TracerStep == TypeInv /\ OneRun /\ TracerInv /\ Next => TracerInv'
<1> SUFFICES ASSUME TypeInv, OneRun, TracerInv, Next PROVE TracerInv'
  OBVIOUS
<1>1. TracerOn'
  BY TracerOnStep DEF TypeInv, TracerInv
<1>2. OpenOrEnded(log', stack'[Main])
  <2>1. CASE \E g \in Goroutines : Enter(g) \/ Exit(g)
    BY <2>1, EnterOpen, ExitOpen
  <2>2. CASE \A g \in Goroutines : ~Enter(g) /\ ~Exit(g)
    BY <2>2, RingKept, NothingOpen DEF TracerInv
  <2> QED
    BY <2>1, <2>2
<1>3. ASSUME process' \notin {"send", "over"} PROVE AllCalls'
  <2>1. process \notin {"send", "over"}
    BY <1>3, ProcessAhead
  <2>2. CASE \E g \in Goroutines : Enter(g) \/ Exit(g)
    BY <2>1, <2>2, EnterCalls, ExitCalls DEF TracerInv
  <2>3. CASE \A g \in Goroutines : ~Enter(g) /\ ~Exit(g)
    BY <1>3, <2>1, <2>3, RingKept, HistoryKept DEF TracerInv, AllCalls
  <2> QED
    BY <2>2, <2>3
<1>4. ASSUME process' = "send" PROVE Captured'
  <2>1. CASE process = "send"
    BY <1>4, <2>1, CapturedKept DEF TracerInv
  <2>2. CASE process # "send"
    <3>1. FlushDrain /\ process = "flush"
      BY <1>4, <2>2, ToSend DEF FlushDrain, Processes
    <3>2. stack[Main] = <<>> /\ AllCalls /\ OpenOrEnded(log, <<>>)
      BY <3>1 DEF TracerInv, TracerOn
    <3> QED
      BY <3>1, <3>2, Captures DEF TypeInv
  <2> QED
    BY <2>1, <2>2
<1> QED
  BY <1>1, <1>2, <1>3, <1>4 DEF TracerInv

-----------------------------------------------------------------------------
(* The way of the events to the stream.                                    *)

(* What was sent is all that was captured and could be sent, unless the    *)
(* exit code or the runner's death tells otherwise.                        *)
SentInv ==
  /\ process # "over" => sent = <<>>
  /\ sent # <<>> => conn = "open"
  /\ process = "over" =>
       failed \/ run = "dead" \/ (OwnCallsRecorded /\ (sent = Newest(recorded) \/ conn # "open"))

(* The collector has all of it or, with cause, nothing. *)
GotInv ==
  /\ got = <<>> \/ (got = sent /\ process = "over")
  /\ collector = "read" => conn = "open"
  /\ collector = "events" => got = sent /\ process = "over"
  /\ collector = "nil" => faults > 0 \/ (process = "over" /\ (conn # "open" \/ Overlong(sent)))
  /\ run = "emit" => collector \in {"events", "nil"}

(* The status is set after the trace is, and tells the exit code. *)
Delivered == trace.some \/ recorded = <<>> \/ conn # "open" \/ Overlong(sent) \/ faults > 0
ErrorKept ==
  run \in {"collect", "emit", "finish", "release"} => ~holder /\ process = "over" /\ runErr = failed
TraceInv == trace.some => process = "over" /\ trace.events = sent /\ sent # <<>>
EmittedInv == run \in {"finish", "release"} => failed \/ Delivered
CompletedInv ==
  client = "ok" \/ status = "completed" =>
    /\ run \in {"release", "done", "dead"} /\ process = "over"
    /\ Delivered /\ OwnCallsRecorded /\ (trace.some => trace.events = Newest(recorded))

OkInv == OneRun /\ SentInv /\ GotInv /\ ErrorKept /\ TraceInv /\ EmittedInv /\ CompletedInv

(* Once the process is over nothing it did changes any more, and without a *)
(* holder of its output neither does the exit code.                        *)
LEMMA OverKept ==
  ASSUME Next, OneRun, process = "over"
  PROVE  /\ UNCHANGED <<process, sent, conn, recorded, opened>>
         /\ run = "dead" => run' = "dead"
         /\ failed => failed'
         /\ ~holder => failed' = failed /\ ~holder'
<1>1. run \notin {"none", "stat", "launch"}
  BY DEF OneRun
<1>2. CASE Instrument \/ Client \/ GiveUp \/ Ages \/ Cleanup
  <2>1. run' = run
    BY <1>1, <1>2 DEF OneRun, Instrument, CreateSession, Build, BuildFails, Client, Instrumented,
                      InstrumentFailed, PostRun, Poll, GiveUp, ClientStep, Ages, Cleanup,
                      CleanupScan, CleanupRemove, runVars
  <2> QED
    BY <1>2, <2>1, OutsideBinary DEF exitVars, historyVars
<1>3. CASE Runner
  BY <1>1, <1>3 DEF Runner, StatBinary, Launch, Waited, Collect, Emit, Finish, ReleaseLock, exitVars,
                    historyVars
<1>4. CASE RunnerCrash
  BY <1>4 DEF RunnerCrash, Executing, exitVars, historyVars
<1>5. CASE Collector
  BY <1>5 DEF Collector, Listen, Accept, AcceptDeadline, ReadAll, CollectorStep, exitVars, historyVars
<1>6. CASE Binary \/ Kill
  BY <1>6 DEF Binary, InitTracer, NilBuffer, Dial, RunsUntraced, Spawn, TestsEnd, FlushDrain,
              FlushSend, Enter, Exit, Panic, Dies, Kill, Active, Executing, Processes
<1>7. CASE HolderEnds
  <2>1. holder /\ UNCHANGED <<process, sent, conn, recorded, opened, run>>
    BY <1>7 DEF HolderEnds, historyVars, runVars
  <2>2. failed' = failed \/ failed' = TRUE
    BY <1>7, Zenon DEF HolderEnds
  <2>3. failed => failed'
    BY <2>2
  <2> QED
    BY <2>1, <2>3
<1> QED
  BY <1>2, <1>3, <1>4, <1>5, <1>6, <1>7 DEF Next

LEMMA FaultsGrow == HostType /\ Next => (faults > 0 => faults' > 0) /\ faults \in Nat
<1> SUFFICES ASSUME HostType, Next PROVE (faults > 0 => faults' > 0) /\ faults \in Nat
  OBVIOUS
<1>1. faults \in Nat
  BY GoTracesBounds DEF HostType
<1>2. faults' = faults \/ faults' = faults + 1
  BY DEF Next, Instrument, CreateSession, Build, BuildFails, Client, Instrumented,
         InstrumentFailed, PostRun, Poll, GiveUp, ClientStep, Ages, Cleanup, CleanupScan,
         CleanupRemove, Runner, StatBinary, Launch, Waited, Collect, Emit, Finish, ReleaseLock,
         RunnerCrash, Collector, CollectorStep, Listen, Accept, AcceptDeadline, ReadAll, Binary,
         InitTracer, NilBuffer, Dial, RunsUntraced, Spawn, TestsEnd, FlushDrain, FlushSend, Enter,
         Exit, Panic, Dies, Kill, HolderEnds, UnchangedOutside, Fault
<1> QED
  BY <1>1, <1>2

LEMMA ConnKept ==
  ASSUME Next, ~Dial
  PROVE  conn' = conn
  BY DEF Next, Instrument, CreateSession, Build, BuildFails, Client, Instrumented,
         InstrumentFailed, PostRun, Poll, GiveUp, ClientStep, Ages, Cleanup, CleanupScan,
         CleanupRemove, Runner, StatBinary, Launch, Waited, Collect, Emit, Finish, ReleaseLock,
         RunnerCrash, Collector, CollectorStep, Listen, Accept, AcceptDeadline, ReadAll, Binary,
         InitTracer, NilBuffer, RunsUntraced, Spawn, TestsEnd, FlushDrain, FlushSend, Enter,
         Exit, Panic, Dies, Kill, HolderEnds, exitVars

(* How a process ends. *)
LEMMA ToOver ==
  ASSUME Next, process # "over", process' = "over"
  PROVE  FlushSend \/ failed' \/ run' = "dead" \/ (RunsUntraced /\ process = "start")
<1>1. CASE Instrument \/ Client \/ GiveUp \/ Ages \/ Cleanup
  BY <1>1, OutsideBinary
<1>2. CASE Runner \/ RunnerCrash
  BY <1>2 DEF Runner, StatBinary, Launch, Waited, Collect, Emit, Finish, ReleaseLock, RunnerCrash
<1>3. CASE Collector \/ HolderEnds
  BY <1>3 DEF Collector, Listen, Accept, AcceptDeadline, ReadAll, CollectorStep, HolderEnds
<1>4. CASE Binary \/ Kill
  BY <1>4 DEF Binary, InitTracer, NilBuffer, Dial, RunsUntraced, Spawn, TestsEnd, FlushDrain,
              Enter, Exit, Panic, Dies, Kill, Processes
<1> QED
  BY <1>1, <1>2, <1>3, <1>4 DEF Next

LEMMA SentStep == TracerInv /\ OneRun /\ SentInv /\ Next => SentInv'
<1> SUFFICES ASSUME TracerInv, OneRun, SentInv, Next PROVE SentInv'
  OBVIOUS
<1>1. CASE process = "over"
  BY <1>1, OverKept DEF SentInv, OwnCallsRecorded
<1>2. CASE FlushSend
  <2>1. Captured /\ sent = <<>> /\ process' = "over"
    BY <1>2 DEF FlushSend, ProcessGone, TracerInv, SentInv
  <2>2. /\ UNCHANGED <<conn, recorded, opened>>
        /\ sent' = IF conn = "open" THEN drained ELSE <<>>
    BY <1>2 DEF FlushSend, historyVars
  <2>3. OwnCallsRecorded'
    BY <2>1, <2>2 DEF Captured, OwnCallsRecorded
  <2> QED
    BY <2>1, <2>2, <2>3 DEF Captured, SentInv
<1>3. CASE Kill
  <2>1. failed' /\ conn' = conn /\ process' = "over" /\ process # "over"
    BY <1>3 DEF Kill, ProcessGone, Executing
  <2>2. sent' = sent \/ conn = "open"
    BY <1>3 DEF Kill
  <2> QED
    BY <2>1, <2>2 DEF SentInv
<1>4. CASE process # "over" /\ ~FlushSend /\ ~Kill
  <2>1. sent' = <<>>
    BY <1>4, SentKept DEF SentInv
  <2>2. CASE RunsUntraced /\ process = "start"
    <3>1. /\ UNCHANGED <<conn, opened>> /\ opened = {} /\ conn # "open"
      BY <2>2 DEF RunsUntraced, OneRun, historyVars
    <3> QED
      BY <2>1, <3>1 DEF SentInv, OwnCallsRecorded
  <2>3. CASE ~(RunsUntraced /\ process = "start")
    BY <1>4, <2>1, <2>3, ToOver DEF SentInv
  <2> QED
    BY <2>2, <2>3
<1> QED
  BY <1>1, <1>2, <1>3, <1>4

LEMMA GotStep == HostType /\ CodeType /\ OneRun /\ SentInv /\ GotInv /\ Next => GotInv'
<1> SUFFICES ASSUME HostType, CodeType, OneRun, SentInv, GotInv, Next PROVE GotInv'
  OBVIOUS
<1>1. process = "over" => UNCHANGED <<process, sent, conn>>
  BY OverKept
<1>2. faults \in Nat /\ (faults > 0 => faults' > 0)
  BY FaultsGrow
<1>3. CASE Collector
  <2>1. UNCHANGED <<run, process, sent, conn>>
    BY <1>3 DEF Collector, Listen, Accept, AcceptDeadline, ReadAll, CollectorStep, exitVars
  <2>2. CASE ReadAll
    <3>1. process = "over" /\ collector = "read" /\ conn = "open"
      BY <2>2 DEF ReadAll, CollectorStep, Executing, CodeType, ProcessStates, OneRun, GotInv
    <3>2. CASE got' = sent /\ collector' = "events"
      BY <2>1, <3>1, <3>2 DEF GotInv
    <3>3. CASE got' = got /\ collector' = "nil" /\ Overlong(sent)
      BY <2>1, <3>1, <3>3 DEF GotInv
    <3>4. CASE got' = got /\ collector' = "nil" /\ faults' = faults + 1
      BY <1>2, <2>1, <3>1, <3>4 DEF GotInv
    <3> QED
      BY <2>2, <3>2, <3>3, <3>4 DEF ReadAll, CollectorStep, Fault
  <2>3. CASE AcceptDeadline
    <3>1. process = "over"
      BY <2>3 DEF AcceptDeadline, CollectorStep, Executing, CodeType, ProcessStates, OneRun
    <3> QED
      BY <2>1, <2>3, <3>1 DEF AcceptDeadline, CollectorStep, GotInv
  <2>4. CASE Listen
    BY <1>2, <2>1, <2>4 DEF Listen, CollectorStep, Fault, GotInv
  <2>5. CASE Accept
    BY <2>1, <2>5 DEF Accept, CollectorStep, GotInv
  <2> QED
    BY <1>3, <2>2, <2>3, <2>4, <2>5 DEF Collector
<1>4. CASE ~Collector
  <2>1. got' = got
    BY <1>4, DataKept DEF Collector, Emit
  <2>2. collector' \in {collector, "off", "listen"}
    BY <1>4
    DEF Next, Instrument, CreateSession, Build, BuildFails, Client, Instrumented,
        InstrumentFailed, PostRun, Poll, GiveUp, ClientStep, Ages, Cleanup, CleanupScan,
        CleanupRemove, Runner, StatBinary, Launch, Waited, Collect, Emit, Finish, ReleaseLock,
        RunnerCrash, Binary, InitTracer, NilBuffer, Dial, RunsUntraced, Spawn, TestsEnd,
        FlushDrain, FlushSend, Enter, Exit, Panic, Dies, Kill, HolderEnds, UnchangedOutside
  <2>3. run' = "emit" => collector' \in {"events", "nil"}
    <3>1. CASE Runner \/ RunnerCrash
      BY <3>1 DEF Runner, StatBinary, Launch, Waited, Collect, Emit, Finish, ReleaseLock,
                  RunnerCrash, GotInv
    <3>2. CASE Instrument \/ Client \/ GiveUp \/ Ages \/ Cleanup
      BY <3>2 DEF Instrument, CreateSession, Build, BuildFails, Client, Instrumented,
                  InstrumentFailed, PostRun, Poll, GiveUp, ClientStep, Ages, Cleanup, CleanupScan,
                  CleanupRemove, runVars, GotInv
    <3>3. CASE Binary \/ Kill \/ HolderEnds
      BY <3>3 DEF Binary, InitTracer, NilBuffer, Dial, RunsUntraced, Spawn, TestsEnd, FlushDrain,
                  FlushSend, Enter, Exit, Panic, Dies, Kill, HolderEnds, UnchangedOutside, runVars,
                  GotInv
    <3> QED
      BY <1>4, <3>1, <3>2, <3>3 DEF Next
  <2>4. collector = "read" => conn' = "open"
    BY ConnKept DEF GotInv, OneRun, Dial, Processes
  <2> QED
    BY <1>1, <1>2, <2>1, <2>2, <2>3, <2>4 DEF GotInv
<1> QED
  BY <1>3, <1>4

LEMMA DeliveredStays ==
  ASSUME HostType, OneRun, Next, process = "over", Delivered, ~Emit
  PROVE  Delivered'
  BY OverKept, FaultsGrow, DataKept DEF Delivered, ReadAll, CollectorStep

LEMMA ErrorKeptStep == OneRun /\ ErrorKept /\ Next => ErrorKept'
<1> SUFFICES ASSUME OneRun, ErrorKept, Next PROVE ErrorKept'
  OBVIOUS
<1> DEFINE Ending == {"collect", "emit", "finish", "release"}
<1>1. CASE Waited
  BY <1>1 DEF Waited, ErrorKept, exitVars
<1>2. CASE ~Waited
  <2>1. ASSUME run' \in Ending PROVE run \in Ending /\ runErr' = runErr
    <3>1. CASE Runner \/ RunnerCrash
      BY <1>2, <2>1, <3>1 DEF Runner, StatBinary, Launch, Collect, Emit, Finish, ReleaseLock,
                              RunnerCrash
    <3>2. CASE Instrument \/ Client \/ GiveUp \/ Ages \/ Cleanup
      BY <2>1, <3>2 DEF Instrument, CreateSession, Build, BuildFails, Client, Instrumented,
                        InstrumentFailed, PostRun, Poll, GiveUp, ClientStep, Ages, Cleanup,
                        CleanupScan, CleanupRemove, runVars
    <3>3. CASE Collector
      BY <2>1, <3>3 DEF Collector, Listen, Accept, AcceptDeadline, ReadAll, CollectorStep
    <3>4. CASE Binary \/ Kill \/ HolderEnds
      BY <2>1, <3>4 DEF Binary, InitTracer, NilBuffer, Dial, RunsUntraced, Spawn, TestsEnd,
                        FlushDrain, FlushSend, Enter, Exit, Panic, Dies, Kill, HolderEnds,
                        UnchangedOutside, runVars
    <3> QED
      BY <3>1, <3>2, <3>3, <3>4 DEF Next
  <2> QED
    BY <2>1, OverKept DEF ErrorKept
<1> QED
  BY <1>1, <1>2

LEMMA TraceStep ==
  HostType /\ OneRun /\ SentInv /\ GotInv /\ TraceInv /\ Next => TraceInv'
<1> SUFFICES ASSUME HostType, OneRun, SentInv, GotInv, TraceInv, Next PROVE TraceInv'
  OBVIOUS
<1>1. CASE Emit
  <2>1. process' = process /\ sent' = sent
    BY <1>1 DEF Emit, exitVars
  <2>2. trace' = NoTrace \/ (got # <<>> /\ trace' = [some |-> TRUE, events |-> got]) \/ trace' = trace
    BY <1>1 DEF Emit
  <2>3. got = <<>> \/ (got = sent /\ process = "over")
    BY DEF GotInv
  <2> QED
    BY <2>1, <2>2, <2>3 DEF TraceInv, NoTrace
<1>2. CASE ~Emit
  <2>1. trace' = trace
    BY <1>2, DataKept DEF ReadAll, CollectorStep
  <2>2. process = "over" => process' = "over" /\ sent' = sent
    BY OverKept
  <2> QED
    BY <2>1, <2>2 DEF TraceInv
<1> QED
  BY <1>1, <1>2

LEMMA NewestEmpty ==
  ASSUME recorded \in Seq(Events), Newest(recorded) = <<>>
  PROVE  recorded = <<>>
<1>1. Len(recorded) \in Nat /\ Size \in Nat /\ Size > 0
  BY SizeAssumption, LenProperties
<1>2. PICK n \in Nat : n = IF Len(recorded) < Size THEN Len(recorded) ELSE Size
  BY <1>1
<1>3. n <= Len(recorded) /\ (n = 0 => Len(recorded) = 0)
  BY <1>1, <1>2
<1> DEFINE m == Len(recorded) - n + 1
<1>4. m \in Int /\ m = Len(recorded) - n + 1
  BY <1>1
<1> HIDE DEF m
<1>5. m \in 1 .. Len(recorded) + 1
  BY <1>1, <1>3, <1>4
<1>6. \A i \in m .. Len(recorded) : recorded[i] \in Events
  <2> SUFFICES ASSUME NEW i \in m .. Len(recorded) PROVE recorded[i] \in Events
    OBVIOUS
  <2>1. i \in 1 .. Len(recorded)
    BY <1>1, <1>5
  <2> QED
    BY <2>1, ElementOfSeq
<1>7. Len(SubSeq(recorded, m, Len(recorded))) =
        IF m <= Len(recorded) THEN Len(recorded) - m + 1 ELSE 0
  <2>1. m \in Int
    BY <1>4
  <2> QED
    BY <1>1, <1>6, <2>1, SubSeqProperties
<1>8. SubSeq(recorded, m, Len(recorded)) = <<>>
  BY <1>2, <1>4 DEF Newest
<1>9. (IF m <= Len(recorded) THEN Len(recorded) - m + 1 ELSE 0) = 0
  <2>1. Len(<<>>) = 0
    BY EmptySeq
  <2> QED
    BY <1>7, <1>8, <2>1
<1>10. Len(recorded) = 0
  BY <1>1, <1>3, <1>4, <1>9
<1> QED
  BY <1>10, EmptySeq

LEMMA EmittedStep ==
  TypeInv /\ OneRun /\ SentInv /\ GotInv /\ ErrorKept /\ EmittedInv /\ Next => EmittedInv'
<1> SUFFICES ASSUME TypeInv, OneRun, SentInv, GotInv, ErrorKept, EmittedInv, Next,
                    run' \in {"finish", "release"}
             PROVE  failed' \/ Delivered'
  BY DEF EmittedInv
<1>0. HostType
  BY DEF TypeInv
<1>1. CASE Emit
  <2>1. /\ run = "emit" /\ UNCHANGED <<sent, conn, recorded, failed>> /\ process = "over"
        /\ faults \in Nat
    BY <1>0, <1>1, FaultsGrow DEF Emit, exitVars, historyVars, ErrorKept
  <2>2. CASE got # <<>> /\ faults' = faults + 1
    BY <2>1, <2>2 DEF Delivered
  <2>3. CASE got # <<>> /\ trace' = [some |-> TRUE, events |-> got]
    BY <2>3 DEF Delivered
  <2>4. CASE got = <<>> /\ faults' = faults
    <3>1. CASE collector = "nil"
      BY <2>1, <2>4, <3>1 DEF GotInv, Delivered
    <3>2. CASE collector = "events"
      <4>1. sent = <<>>
        BY <2>4, <3>2 DEF GotInv
      <4>2. failed \/ Newest(recorded) = <<>> \/ conn # "open"
        BY <2>1, <4>1 DEF SentInv
      <4>3. recorded \in Seq(Events)
        BY DEF TypeInv, DataType
      <4> QED
        BY <2>1, <4>2, <4>3, NewestEmpty DEF Delivered
    <3> QED
      BY <2>1, <3>1, <3>2 DEF GotInv
  <2> QED
    BY <1>1, <2>2, <2>3, <2>4 DEF Emit, Fault
<1>2. CASE ~Emit
  <2>1. run \in {"finish", "release"}
    <3>1. CASE Runner \/ RunnerCrash
      BY <1>2, <3>1 DEF Runner, StatBinary, Launch, Waited, Collect, Finish, ReleaseLock, RunnerCrash
    <3>2. CASE Instrument \/ Client \/ GiveUp \/ Ages \/ Cleanup
      BY <3>2 DEF Instrument, CreateSession, Build, BuildFails, Client, Instrumented,
                  InstrumentFailed, PostRun, Poll, GiveUp, ClientStep, Ages, Cleanup,
                  CleanupScan, CleanupRemove, runVars
    <3>3. CASE Collector
      BY <3>3 DEF Collector, Listen, Accept, AcceptDeadline, ReadAll, CollectorStep
    <3>4. CASE Binary \/ Kill \/ HolderEnds
      BY <3>4 DEF Binary, InitTracer, NilBuffer, Dial, RunsUntraced, Spawn, TestsEnd,
                  FlushDrain, FlushSend, Enter, Exit, Panic, Dies, Kill, HolderEnds,
                  UnchangedOutside, runVars
    <3> QED
      BY <3>1, <3>2, <3>3, <3>4 DEF Next
  <2> QED
    BY <1>0, <1>2, <2>1, DeliveredStays, OverKept DEF EmittedInv, ErrorKept
<1> QED
  BY <1>1, <1>2

LEMMA CompletedStep ==
  HostType /\ OkInv /\ Next => CompletedInv'
<1> DEFINE Complete ==
      Delivered /\ OwnCallsRecorded /\ (trace.some => trace.events = Newest(recorded))
<1> SUFFICES ASSUME HostType, OkInv, Next, client' = "ok" \/ status' = "completed"
             PROVE  run' \in {"release", "done", "dead"} /\ process' = "over" /\ Complete'
  BY DEF CompletedInv
<1>1. OneRun /\ SentInv /\ ErrorKept /\ TraceInv /\ EmittedInv /\ CompletedInv
  BY DEF OkInv
<1>2. CASE Finish
  <2>1. run = "finish" /\ process = "over" /\ (failed \/ Delivered) /\ runErr = failed
    BY <1>1, <1>2 DEF Finish, ErrorKept, EmittedInv
  <2>2. run' = "release" /\ UNCHANGED <<process, sent, trace, faults, conn, recorded, opened>>
    BY <1>2 DEF Finish, exitVars, historyVars
  <2>3. client # "ok"
    BY <1>1, <2>1 DEF CompletedInv
  <2>4. ~runErr
    BY <1>2, <2>3 DEF Finish, clientVars
  <2>5. OwnCallsRecorded /\ (sent = Newest(recorded) \/ conn # "open")
    BY <1>1, <2>1, <2>4 DEF SentInv
  <2>6. trace.some => trace.events = Newest(recorded)
    BY <1>1, <2>5 DEF TraceInv, SentInv
  <2>7. Complete
    BY <2>1, <2>4, <2>5, <2>6
  <2> QED
    BY <2>1, <2>2, <2>7 DEF Delivered, OwnCallsRecorded
<1>3. CASE ~Finish
  <2>1. client = "ok" \/ status = "completed"
    <3>1. CASE Runner \/ RunnerCrash
      BY <1>3, <3>1 DEF Runner, StatBinary, Launch, Waited, Collect, Emit, ReleaseLock, RunnerCrash,
                        clientVars
    <3>2. CASE Instrument \/ Client \/ GiveUp \/ Ages \/ Cleanup
      BY <3>2 DEF Instrument, CreateSession, Build, BuildFails, Client, Instrumented,
                  InstrumentFailed, PostRun, Poll, GiveUp, ClientStep, Ages, Cleanup,
                  CleanupScan, CleanupRemove, runVars, clientVars
    <3>3. CASE Collector
      BY <3>3 DEF Collector, Listen, Accept, AcceptDeadline, ReadAll, CollectorStep, clientVars
    <3>4. CASE Binary \/ Kill \/ HolderEnds
      BY <3>4 DEF Binary, InitTracer, NilBuffer, Dial, RunsUntraced, Spawn, TestsEnd,
                  FlushDrain, FlushSend, Enter, Exit, Panic, Dies, Kill, HolderEnds,
                  UnchangedOutside, runVars, clientVars
    <3> QED
      BY <3>1, <3>2, <3>3, <3>4 DEF Next
  <2>2. /\ run \in {"release", "done", "dead"} /\ process = "over"
        /\ Complete
    BY <1>1, <2>1 DEF CompletedInv
  <2>3. run' \in {"release", "done", "dead"}
    <3>1. CASE Runner \/ RunnerCrash
      BY <2>2, <3>1 DEF Runner, StatBinary, Launch, Waited, Collect, Emit, Finish, ReleaseLock,
                        RunnerCrash
    <3>2. CASE Instrument \/ Client \/ GiveUp \/ Ages \/ Cleanup
      BY <1>1, <2>2, <3>2 DEF Instrument, CreateSession, Build, BuildFails, Client, Instrumented,
                  InstrumentFailed, PostRun, Poll, GiveUp, ClientStep, Ages, Cleanup,
                  CleanupScan, CleanupRemove, runVars, OneRun
    <3>3. CASE Collector
      BY <2>2, <3>3 DEF Collector, Listen, Accept, AcceptDeadline, ReadAll, CollectorStep
    <3>4. CASE Binary \/ Kill \/ HolderEnds
      BY <2>2, <3>4 DEF Binary, InitTracer, NilBuffer, Dial, RunsUntraced, Spawn, TestsEnd,
                  FlushDrain, FlushSend, Enter, Exit, Panic, Dies, Kill, HolderEnds,
                  UnchangedOutside, runVars
    <3> QED
      BY <3>1, <3>2, <3>3, <3>4 DEF Next
  <2>4. ~Emit
    BY <2>2 DEF Emit
  <2>5. trace' = trace
    BY <2>4, DataKept DEF ReadAll, CollectorStep
  <2>6. UNCHANGED <<process, recorded, opened>> /\ Delivered'
    BY <1>1, <2>2, <2>4, OverKept, DeliveredStays
  <2>7. Complete'
    BY <2>2, <2>5, <2>6 DEF OwnCallsRecorded
  <2> QED
    BY <2>2, <2>3, <2>6, <2>7
<1> QED
  BY <1>2, <1>3

LEMMA InitOk == Init => TracerInv /\ OkInv
<1> SUFFICES ASSUME Init PROVE TracerInv /\ OkInv
  OBVIOUS
<1>1. TracerInv
  BY NothingOpen DEF Init, RingInit, TracerInv, TracerOn, AllCalls, Goroutines, Main
<1>2. OneRun /\ GotInv /\ ErrorKept /\ EmittedInv /\ CompletedInv
  BY DEF Init, OneRun, GotInv, ErrorKept, EmittedInv, CompletedInv, Goroutines, Main
<1>3. SentInv /\ TraceInv
  BY DEF Init, NoTrace, SentInv, TraceInv
<1> QED
  BY <1>1, <1>2, <1>3 DEF OkInv

LEMMA OkStep == TypeInv /\ TracerInv /\ OkInv /\ [Next]_vars => TracerInv' /\ OkInv'
<1> SUFFICES ASSUME TypeInv, TracerInv, OkInv, [Next]_vars PROVE TracerInv' /\ OkInv'
  OBVIOUS
<1>1. CASE Next
  <2>1. HostType /\ CodeType
    BY DEF TypeInv
  <2>2. OneRun /\ SentInv /\ GotInv /\ ErrorKept /\ TraceInv /\ EmittedInv
    BY DEF OkInv
  <2>3. OneRun' /\ SentInv' /\ GotInv' /\ ErrorKept'
    BY <1>1, <2>1, <2>2, OneRunStep, SentStep, GotStep, ErrorKeptStep
  <2>4. TraceInv' /\ EmittedInv' /\ CompletedInv'
    BY <1>1, <2>1, <2>2, TraceStep, EmittedStep, CompletedStep
  <2>5. TracerInv'
    BY <1>1, <2>2, TracerStep
  <2> QED
    BY <2>3, <2>4, <2>5 DEF OkInv
<1>2. CASE UNCHANGED vars
  <2>1. TracerInv'
    BY <1>2 DEF vars, ringVars, codeVars, exitVars, historyVars, TracerInv, TracerOn, OpenOrEnded,
                Ended, AllCalls, Captured, OwnCallsRecorded
  <2>2. OkInv'
    BY <1>2 DEF vars, clientVars, dirVars, runVars, codeVars, exitVars, historyVars, OkInv, OneRun,
                SentInv, GotInv, ErrorKept, TraceInv, EmittedInv, CompletedInv, Delivered,
                OwnCallsRecorded
  <2> QED
    BY <2>1, <2>2
<1> QED
  BY <1>1, <1>2

(* A client that is told ok: every call the test's own goroutine made was  *)
(* recorded with its end, and the trace in the stream is the newest of all *)
(* that was recorded, as many events as the ring holds.  There is none     *)
(* only if nothing was recorded, the binary had no connection, a line was  *)
(* too long for the collector, or a call failed.                           *)
THEOREM OkMeansNewest == Spec => []OkIsNewest
<1>1. OkInv => OkIsNewest
  BY DEF OkInv, CompletedInv, Delivered, OkIsNewest
<1> QED
  BY InitOk, TypesHold, OkStep, <1>1, PTL DEF Spec

-----------------------------------------------------------------------------
(* A replay of events, as a recursion over a sequence.                     *)

(* A set of numbers has a least one. *)
LEMMA LeastElement ==
  ASSUME NEW T \in SUBSET Nat, T # {}
  PROVE  \E m \in T : \A k \in T : m <= k
<1>1. \A i, j \in Nat : i < j => <<i, j>> \in OpToRel(<, Nat)
  BY DEF OpToRel
<1>2. PICK m \in T : \A k \in T : ~ (<<k, m>> \in OpToRel(<, Nat))
  BY NatLessThanWellFounded, WFMin
<1>3. ASSUME NEW k \in T PROVE ~ (k < m)
  <2>1. k \in Nat /\ m \in Nat /\ ~ (<<k, m>> \in OpToRel(<, Nat))
    BY <1>2
  <2> QED
    BY <1>1, <2>1
<1> QED
  BY <1>3

(* Induction, of a set of numbers in place of a predicate. *)
LEMMA NatInduct ==
  ASSUME NEW T, 0 \in T, \A n \in Nat : n \in T => n + 1 \in T
  PROVE  Nat \subseteq T
<1> SUFFICES ASSUME Nat \ T # {} PROVE FALSE
  OBVIOUS
<1>1. PICK m \in Nat \ T : \A k \in Nat \ T : m <= k
  BY LeastElement
<1>2. m # 0 /\ m - 1 \in Nat /\ m - 1 \in T
  BY <1>1
<1> QED
  BY <1>1, <1>2

(* The states of a replay. *)
Node == [call : Events, end : Events, hop : Nat]
ReplayState == [stack : Seq(Events), nodes : Seq(Node)]
NothingReplayed == [stack |-> <<>>, nodes |-> <<>>]

LEMMA ReplayType ==
  ASSUME NEW acc \in ReplayState, NEW e \in Events
  PROVE  Replay(acc, e) \in ReplayState
<1>1. acc.stack \in Seq(Events) /\ acc.nodes \in Seq(Node)
  BY DEF ReplayState
<1>2. CASE MapEventType(e.type) = "call"
  <2>1. Replay(acc, e) = [acc EXCEPT !.stack = Append(acc.stack, e)]
    BY <1>2 DEF Replay
  <2>2. Append(acc.stack, e) \in Seq(Events)
    BY <1>1, AppendProperties
  <2> QED
    BY <2>1, <2>2 DEF ReplayState
<1>3. CASE MapEventType(e.type) \in {"return", "exception"} /\ acc.stack # <<>>
  <2> DEFINE node == [call |-> Last(acc.stack), end |-> e, hop |-> Len(acc.stack) - 1]
  <2>1. Front(acc.stack) \in Seq(Events) /\ Last(acc.stack) \in Events /\ Len(acc.stack) - 1 \in Nat
    BY <1>1, <1>3, FrontOfSeq
  <2>2. node \in Node
    BY <2>1 DEF Node
  <2>3. Replay(acc, e) = [stack |-> Front(acc.stack), nodes |-> Append(acc.nodes, node)]
    BY <1>3 DEF Replay
  <2> HIDE DEF node
  <2>4. Append(acc.nodes, node) \in Seq(Node)
    BY <1>1, <2>2, AppendProperties
  <2> QED
    BY <2>1, <2>3, <2>4 DEF ReplayState
<1>4. CASE ~(MapEventType(e.type) = "call")
           /\ ~(MapEventType(e.type) \in {"return", "exception"} /\ acc.stack # <<>>)
  BY <1>4 DEF Replay
<1> QED
  BY <1>2, <1>3, <1>4

(* f holds the states of a replay of s, up to its n-th event. *)
Replays(f, s, n) == f[0] = NothingReplayed /\ \A i \in 1 .. n : f[i] = Replay(f[i - 1], s[i])

LEMMA ReplaysAgree ==
  ASSUME NEW f, NEW g, NEW s, NEW t, NEW n \in Nat, \A i \in 1 .. n : s[i] = t[i],
         Replays(f, s, n), Replays(g, t, n)
  PROVE  f[n] = g[n]
<1> DEFINE T == {i \in Nat : i <= n => f[i] = g[i]}
<1>1. 0 \in T
  BY DEF Replays
<1>2. ASSUME NEW i \in Nat, i \in T PROVE i + 1 \in T
  <2> SUFFICES ASSUME i + 1 <= n PROVE f[i + 1] = g[i + 1]
    OBVIOUS
  <2>1. i + 1 \in 1 .. n /\ (i + 1) - 1 = i /\ f[i] = g[i] /\ s[i + 1] = t[i + 1]
    BY <1>2
  <2>2. f[i + 1] = Replay(f[(i + 1) - 1], s[i + 1]) /\ g[i + 1] = Replay(g[(i + 1) - 1], t[i + 1])
    BY <2>1 DEF Replays
  <2> QED
    BY <2>1, <2>2
<1>3. n \in T
  <2> HIDE DEF T
  <2> QED
    BY <1>1, <1>2, NatInduct
<1> QED
  BY <1>3

(* Every sequence of events can be replayed. *)
LEMMA ReplayExists ==
  ASSUME NEW s \in Seq(Events)
  PROVE  \E f \in [0 .. Len(s) -> ReplayState] : Replays(f, s, Len(s))
<1> DEFINE N == Len(s)
           T == {n \in Nat : n <= N => \E f \in [0 .. N -> ReplayState] : Replays(f, s, n)}
<1>1. N \in Nat /\ \A i \in 1 .. N : s[i] \in Events
  BY LenProperties, ElementOfSeq
<1> HIDE DEF N
<1>2. 0 \in T
  <2>1. NothingReplayed \in ReplayState
    BY DEF NothingReplayed, ReplayState
  <2>2. [i \in 0 .. N |-> NothingReplayed] \in [0 .. N -> ReplayState]
    BY <2>1
  <2>3. Replays([i \in 0 .. N |-> NothingReplayed], s, 0)
    BY <1>1 DEF Replays
  <2> QED
    BY <2>2, <2>3
<1>3. ASSUME NEW n \in Nat, n \in T PROVE n + 1 \in T
  <2> SUFFICES ASSUME n + 1 <= N
               PROVE  \E h \in [0 .. N -> ReplayState] : Replays(h, s, n + 1)
    OBVIOUS
  <2>1. PICK f \in [0 .. N -> ReplayState] : Replays(f, s, n)
    BY <1>1, <1>3
  <2> DEFINE h == [f EXCEPT ![n + 1] = Replay(f[n], s[n + 1])]
  <2>2. n \in 0 .. N /\ n + 1 \in 0 .. N /\ s[n + 1] \in Events /\ f[n] \in ReplayState
    BY <1>1, <2>1
  <2>3. Replay(f[n], s[n + 1]) \in ReplayState
    BY <2>2, ReplayType
  <2>4. h \in [0 .. N -> ReplayState]
    BY <2>3
  <2>5. /\ \A i \in 0 .. N : i # n + 1 => h[i] = f[i]
        /\ h[n + 1] = Replay(f[n], s[n + 1])
    BY <2>2
  <2> HIDE DEF h
  <2>6. ASSUME NEW i \in 1 .. n + 1 PROVE h[i] = Replay(h[i - 1], s[i])
    <3>1. CASE i = n + 1
      <4>1. i - 1 = n /\ n \in 0 .. N /\ n # n + 1
        BY <2>2, <3>1
      <4>2. h[n] = f[n]
        BY <2>5, <4>1
      <4> QED
        BY <2>5, <3>1, <4>1, <4>2
    <3>2. CASE i # n + 1
      <4>1. i \in 1 .. n /\ i \in 0 .. N /\ i - 1 \in 0 .. N /\ i - 1 # n + 1
        BY <1>1, <3>2
      <4>2. h[i] = f[i] /\ h[i - 1] = f[i - 1]
        BY <2>5, <3>2, <4>1
      <4> QED
        BY <2>1, <4>1, <4>2 DEF Replays
    <3> QED
      BY <3>1, <3>2
  <2>7. h[0] = NothingReplayed
    <3>1. 0 \in 0 .. N /\ 0 # n + 1 /\ f[0] = NothingReplayed
      BY <1>1, <2>1 DEF Replays
    <3> QED
      BY <2>5, <3>1
  <2> QED
    BY <2>4, <2>6, <2>7 DEF Replays
<1>4. N \in T
  <2> HIDE DEF T
  <2> QED
    BY <1>1, <1>2, <1>3, NatInduct
<1> QED
  BY <1>1, <1>4 DEF N

(* What the recursion defines is such a replay. *)
LEMMA ReplayedIs ==
  ASSUME NEW s \in Seq(Events)
  PROVE  \E f \in [0 .. Len(s) -> ReplayState] : Replays(f, s, Len(s)) /\ Replayed(s) = f[Len(s)]
<1> DEFINE N == Len(s)
           Is(f) == f = [i \in 0 .. N |-> IF i = 0 THEN NothingReplayed ELSE Replay(f[i - 1], s[i])]
<1>1. N \in Nat
  BY LenProperties
<1>2. PICK g \in [0 .. N -> ReplayState] : Replays(g, s, N)
  BY ReplayExists
<1>3. Replayed(s) = (CHOOSE h : Is(h))[N]
  BY DEF Replayed, NothingReplayed
<1> HIDE DEF N
<1>4. Is(g)
  <2>1. ASSUME NEW i \in 0 .. N
        PROVE  g[i] = IF i = 0 THEN NothingReplayed ELSE Replay(g[i - 1], s[i])
    BY <1>1, <1>2 DEF Replays
  <2>2. g = [i \in 0 .. N |-> g[i]]
    BY <1>2
  <2> QED
    BY <2>1, <2>2
<1>5. PICK h : Is(h) /\ Replayed(s) = h[N]
  <2> HIDE DEF Is
  <2> QED
    BY <1>3, <1>4
<1>6. Replays(h, s, N)
  <2>1. \A i \in 0 .. N : h[i] = IF i = 0 THEN NothingReplayed ELSE Replay(h[i - 1], s[i])
    BY <1>5
  <2> QED
    BY <1>1, <2>1 DEF Replays
<1>7. h[N] = g[N]
  BY <1>1, <1>2, <1>6, ReplaysAgree
<1> QED
  BY <1>2, <1>5, <1>7 DEF N

LEMMA ReplayedType == \A s \in Seq(Events) : Replayed(s) \in ReplayState
<1> SUFFICES ASSUME NEW s \in Seq(Events) PROVE Replayed(s) \in ReplayState
  OBVIOUS
<1>1. Len(s) \in 0 .. Len(s)
  BY LenProperties
<1> QED
  BY <1>1, ReplayedIs

LEMMA ReplayedEmpty == Replayed(<<>>) = NothingReplayed
<1>1. <<>> \in Seq(Events) /\ Len(<<>>) = 0
  OBVIOUS
<1> QED
  BY <1>1, ReplayedIs DEF Replays

(* One more event is one more step of the replay. *)
LEMMA ReplayedAppend ==
  ASSUME NEW s \in Seq(Events), NEW e \in Events
  PROVE  Replayed(Append(s, e)) = Replay(Replayed(s), e)
<1> DEFINE t == Append(s, e)
           N == Len(s)
<1>1. /\ t \in Seq(Events) /\ Len(t) = N + 1 /\ t[N + 1] = e /\ N \in Nat
      /\ \A i \in 1 .. N : t[i] = s[i]
  BY AppendProperties, LenProperties
<1>2. PICK f \in [0 .. N -> ReplayState] : Replays(f, s, N) /\ Replayed(s) = f[N]
  BY ReplayedIs
<1> HIDE DEF t, N
<1>3. PICK g \in [0 .. N + 1 -> ReplayState] : Replays(g, t, N + 1) /\ Replayed(t) = g[N + 1]
  BY <1>1, ReplayedIs
<1>4. Replays(g, t, N)
  BY <1>1, <1>3 DEF Replays
<1>5. g[N] = f[N]
  BY <1>1, <1>2, <1>4, ReplaysAgree
<1>6. N + 1 \in 1 .. N + 1 /\ (N + 1) - 1 = N
  BY <1>1
<1>7. g[N + 1] = Replay(g[(N + 1) - 1], t[N + 1])
  BY <1>3, <1>6 DEF Replays
<1> QED
  BY <1>1, <1>2, <1>3, <1>5, <1>6, <1>7 DEF t

-----------------------------------------------------------------------------
(* Parts of what was written.                                              *)

LEMMA IsPart == \A s, w : w \in SubSeqs(s) <=> \E i, j \in 0 .. Len(s) : w = SubSeq(s, i + 1, j)
  BY SMT DEF SubSeqs

LEMMA PartOf ==
  ASSUME NEW s \in Seq(Events), NEW a \in 1 .. Len(s) + 1, NEW b \in 0 .. Len(s)
  PROVE  /\ SubSeq(s, a, b) \in Seq(Events)
         /\ Len(SubSeq(s, a, b)) = IF a <= b THEN b - a + 1 ELSE 0
         /\ \A i \in 1 .. b - a + 1 : SubSeq(s, a, b)[i] = s[a + i - 1]
<1>1. Len(s) \in Nat /\ a \in Int /\ b \in Int
  BY LenProperties
<1>2. \A i \in a .. b : s[i] \in Events
  <2> SUFFICES ASSUME NEW i \in a .. b PROVE s[i] \in Events
    OBVIOUS
  <2>1. i \in 1 .. Len(s)
    BY <1>1
  <2> QED
    BY <2>1, ElementOfSeq
<1> QED
  BY <1>1, <1>2, SubSeqProperties

LEMMA PartsType ==
  ASSUME NEW s \in Seq(Events)
  PROVE  SubSeqs(s) \subseteq Seq(Events) /\ Suffixes(s) \subseteq SubSeqs(s) /\ s \in Suffixes(s)
<1>1. Len(s) \in Nat
  BY LenProperties
<1>2. ASSUME NEW i \in 0 .. Len(s), NEW j \in 0 .. Len(s) PROVE SubSeq(s, i + 1, j) \in Seq(Events)
  <2>1. i + 1 \in 1 .. Len(s) + 1
    BY <1>1
  <2> QED
    BY <2>1, PartOf
<1>3. ASSUME NEW l \in 1 .. Len(s) PROVE SubSeq(s, l, Len(s)) \in SubSeqs(s)
  <2>1. l - 1 \in 0 .. Len(s) /\ (l - 1) + 1 = l /\ Len(s) \in 0 .. Len(s)
    BY <1>1
  <2> QED
    BY <2>1, IsPart
<1>4. <<>> \in SubSeqs(s)
  <2>1. SubSeq(s, 0 + 1, 0) = <<>> /\ 0 \in 0 .. Len(s)
    BY <1>1, SubSeqEmpty
  <2> QED
    BY <2>1, IsPart
<1>5. s \in Suffixes(s)
  <2>1. CASE Len(s) = 0
    <3>1. s = <<>>
      BY <2>1, EmptySeq
    <3> QED
      BY <3>1 DEF Suffixes
  <2>2. CASE Len(s) # 0
    <3>1. 1 \in 1 .. Len(s) + 1 /\ Len(s) \in 0 .. Len(s) /\ 1 \in 1 .. Len(s)
      BY <1>1, <2>2
    <3>2. PICK p : p = SubSeq(s, 1, Len(s))
      OBVIOUS
    <3>3. p \in Seq(Events) /\ Len(p) = Len(s) /\ \A i \in 1 .. Len(s) : p[i] = s[i]
      BY <1>1, <3>1, <3>2, PartOf
    <3>4. p = s
      BY <3>3, SeqEqual
    <3> QED
      BY <3>1, <3>2, <3>4 DEF Suffixes
  <2> QED
    BY <2>1, <2>2
<1> QED
  <2>1. \A w \in SubSeqs(s) : w \in Seq(Events)
    <3> SUFFICES ASSUME NEW w \in SubSeqs(s) PROVE w \in Seq(Events)
      OBVIOUS
    <3>1. PICK i \in 0 .. Len(s), j \in 0 .. Len(s) : w = SubSeq(s, i + 1, j)
      BY IsPart
    <3> QED
      BY <1>2, <3>1
  <2>2. Suffixes(s) \subseteq SubSeqs(s)
    BY <1>3, <1>4 DEF Suffixes
  <2> QED
    BY <1>5, <2>1, <2>2

LEMMA NoParts == SubSeqs(<<>>) = {<<>>} /\ Suffixes(<<>>) = {<<>>}
<1>1. Len(<<>>) = 0 /\ SubSeq(<<>>, 0 + 1, 0) = <<>>
  BY SubSeqEmpty
<1>2. 0 .. 0 = {0} /\ 1 .. 0 = {}
  OBVIOUS
<1>3. \A w : w \in SubSeqs(<<>>) <=> \E i, j \in 0 .. 0 : w = SubSeq(<<>>, i + 1, j)
  BY <1>1, IsPart
<1>4. SubSeqs(<<>>) = {<<>>}
  <2>1. ASSUME NEW w \in SubSeqs(<<>>) PROVE w = <<>>
    <3>1. PICK i \in 0 .. 0, j \in 0 .. 0 : w = SubSeq(<<>>, i + 1, j)
      BY <1>3
    <3>2. i = 0 /\ j = 0
      OBVIOUS
    <3> QED
      BY <1>1, <3>1, <3>2
  <2>2. <<>> \in SubSeqs(<<>>)
    BY <1>1, <1>2, <1>3
  <2> QED
    BY <2>1, <2>2
<1> QED
  BY <1>1, <1>2, <1>4 DEF Suffixes

(* With one more event the suffixes are those there were and it; and the   *)
(* other parts are those there were.                                       *)
LEMMA PartsGrow ==
  ASSUME NEW s \in Seq(Events), NEW e \in Events
  PROVE  /\ \A w \in Suffixes(Append(s, e)) : w = <<>> \/ \E v \in Suffixes(s) : w = Append(v, e)
         /\ SubSeqs(Append(s, e)) \subseteq SubSeqs(s) \cup Suffixes(Append(s, e))
<1> DEFINE t == Append(s, e)
           N == Len(s)
<1>1. /\ t \in Seq(Events) /\ Len(t) = N + 1 /\ t[N + 1] = e /\ N \in Nat
      /\ \A i \in 1 .. N : t[i] = s[i]
  BY AppendProperties, LenProperties
<1> HIDE DEF t
<1>2. ASSUME NEW l \in 1 .. N + 1
      PROVE  \E v \in Suffixes(s) : SubSeq(t, l, N + 1) = Append(v, e)
  <2> DEFINE v == SubSeq(s, l, N)
             w == SubSeq(t, l, N + 1)
  <2>1. l \in 1 .. Len(s) + 1 /\ N \in 0 .. Len(s) /\ l \in 1 .. Len(t) + 1 /\ N + 1 \in 0 .. Len(t)
    BY <1>1
  <2>2. /\ v \in Seq(Events) /\ Len(v) = N - l + 1
        /\ \A i \in 1 .. N - l + 1 : v[i] = s[l + i - 1]
    BY <1>1, <2>1, PartOf
  <2>3. /\ w \in Seq(Events) /\ Len(w) = N - l + 2
        /\ \A i \in 1 .. N - l + 2 : w[i] = t[l + i - 1]
    <3>1. /\ SubSeq(t, l, N + 1) \in Seq(Events)
          /\ Len(SubSeq(t, l, N + 1)) = IF l <= N + 1 THEN N + 1 - l + 1 ELSE 0
          /\ \A i \in 1 .. N + 1 - l + 1 : SubSeq(t, l, N + 1)[i] = t[l + i - 1]
      BY <1>1, <2>1, PartOf
    <3>2. N + 1 - l + 1 = N - l + 2 /\ l <= N + 1
      BY <1>1
    <3> QED
      BY <3>1, <3>2
  <2>4. v \in Suffixes(s)
    <3>1. CASE l \in 1 .. N
      BY <3>1 DEF Suffixes
    <3>2. CASE l = N + 1
      <4>1. v = <<>>
        BY <1>1, <3>2, SubSeqEmpty
      <4> QED
        BY <4>1 DEF Suffixes
    <3> QED
      BY <1>1, <3>1, <3>2
  <2> HIDE DEF v, w
  <2>5. /\ Append(v, e) \in Seq(Events) /\ Len(Append(v, e)) = N - l + 2
        /\ Append(v, e)[N - l + 2] = e
        /\ \A i \in 1 .. N - l + 1 : Append(v, e)[i] = v[i]
    <3>0. v \in Seq(Events)
      BY <2>2
    <3>1. /\ Append(v, e) \in Seq(Events) /\ Len(Append(v, e)) = Len(v) + 1
          /\ Append(v, e)[Len(v) + 1] = e
          /\ \A i \in 1 .. Len(v) : Append(v, e)[i] = v[i]
      BY <3>0, AppendProperties
    <3>2. Len(v) + 1 = N - l + 2
      BY <1>1, <2>2
    <3> QED
      BY <2>2, <3>1, <3>2
  <2>6. ASSUME NEW i \in 1 .. N - l + 2 PROVE w[i] = Append(v, e)[i]
    <3>1. CASE i = N - l + 2
      <4>1. l + i - 1 = N + 1
        BY <1>1, <3>1
      <4>2. w[i] = e
        BY <1>1, <2>3, <4>1
      <4> QED
        BY <2>5, <3>1, <4>2
    <3>2. CASE i # N - l + 2
      <4>1. i \in 1 .. N - l + 1 /\ l + i - 1 \in 1 .. N
        BY <1>1, <3>2
      <4>2. w[i] = s[l + i - 1]
        BY <1>1, <2>3, <4>1
      <4> QED
        BY <2>2, <2>5, <4>1, <4>2
    <3> QED
      BY <3>1, <3>2
  <2>7. w = Append(v, e)
    BY <2>3, <2>5, <2>6, SeqEqual
  <2> QED
    BY <2>4, <2>7 DEF w
<1>3. \A w \in Suffixes(t) : w = <<>> \/ \E v \in Suffixes(s) : w = Append(v, e)
  BY <1>1, <1>2 DEF Suffixes
<1>4. ASSUME NEW i \in 0 .. N + 1, NEW j \in 0 .. N + 1
      PROVE  SubSeq(t, i + 1, j) \in SubSeqs(s) \cup Suffixes(t)
  <2>1. CASE i + 1 > j
    <3>1. SubSeq(t, i + 1, j) = <<>>
      BY <1>1, <2>1, SubSeqEmpty
    <3> QED
      BY <3>1 DEF Suffixes
  <2>2. CASE i + 1 <= j /\ j = N + 1
    <3>1. i + 1 \in 1 .. N + 1
      BY <1>1, <2>2
    <3> QED
      BY <1>1, <2>2, <3>1 DEF Suffixes
  <2>3. CASE i + 1 <= j /\ j # N + 1
    <3>1. i \in 0 .. Len(s) /\ j \in 0 .. Len(s) /\ i + 1 \in 1 .. Len(s) + 1 /\ i + 1 \in 1 .. Len(t) + 1
          /\ j \in 0 .. Len(t)
      BY <1>1, <2>3
    <3>2. PICK v : v = SubSeq(s, i + 1, j)
      OBVIOUS
    <3>3. PICK w : w = SubSeq(t, i + 1, j)
      OBVIOUS
    <3>4. /\ v \in Seq(Events) /\ Len(v) = j - (i + 1) + 1
          /\ \A k \in 1 .. j - (i + 1) + 1 : v[k] = s[(i + 1) + k - 1]
      BY <2>3, <3>1, <3>2, PartOf
    <3>5. /\ w \in Seq(Events) /\ Len(w) = j - (i + 1) + 1
          /\ \A k \in 1 .. j - (i + 1) + 1 : w[k] = t[(i + 1) + k - 1]
      BY <1>1, <2>3, <3>1, <3>3, PartOf
    <3>6. \A k \in 1 .. j - (i + 1) + 1 : (i + 1) + k - 1 \in 1 .. N
      BY <1>1, <3>1
    <3>7. v = w
      BY <1>1, <3>4, <3>5, <3>6, SeqEqual
    <3> QED
      BY <3>1, <3>2, <3>3, <3>7, IsPart
  <2> QED
    BY <1>1, <2>1, <2>2, <2>3
<1> QED
  <2>1. SubSeqs(t) \subseteq SubSeqs(s) \cup Suffixes(t)
    <3> SUFFICES ASSUME NEW w \in SubSeqs(t) PROVE w \in SubSeqs(s) \cup Suffixes(t)
      OBVIOUS
    <3>1. PICK i \in 0 .. Len(t), j \in 0 .. Len(t) : w = SubSeq(t, i + 1, j)
      BY IsPart
    <3> QED
      BY <1>1, <1>4, <3>1
  <2> QED
    BY <1>3, <2>1 DEF t

(* What is left of a suffix when its end is cut off is a part. *)
LEMMA PrefixOfSuffix ==
  ASSUME NEW s \in Seq(Events), NEW a \in 1 .. Len(s) + 1,
         NEW p \in Prefixes(SubSeq(s, a, Len(s)))
  PROVE  p \in SubSeqs(s)
<1> DEFINE N == Len(s)
           w == SubSeq(s, a, N)
<1>1. N \in Nat /\ N \in 0 .. Len(s)
  BY LenProperties
<1>2. /\ w \in Seq(Events) /\ Len(w) = N - a + 1
      /\ \A i \in 1 .. N - a + 1 : w[i] = s[a + i - 1]
  BY <1>1, PartOf
<1>3. PICK l \in 0 .. Len(w) : p = SubSeq(w, 1, l)
  BY DEF Prefixes
<1> HIDE DEF w
<1>4. /\ p \in Seq(Events) /\ Len(p) = l
      /\ \A i \in 1 .. l : p[i] = w[i]
  <2>1. 1 \in 1 .. Len(w) + 1 /\ Len(w) \in Nat
    BY <1>2, LenProperties
  <2>2. /\ SubSeq(w, 1, l) \in Seq(Events) /\ Len(SubSeq(w, 1, l)) = IF 1 <= l THEN l - 1 + 1 ELSE 0
        /\ \A i \in 1 .. l - 1 + 1 : SubSeq(w, 1, l)[i] = w[1 + i - 1]
    BY <1>2, <2>1, PartOf
  <2>3. l - 1 + 1 = l /\ (IF 1 <= l THEN l - 1 + 1 ELSE 0) = l /\ \A i \in 1 .. l : 1 + i - 1 = i
    BY <2>1
  <2> QED
    BY <1>3, <2>2, <2>3
<1> DEFINE b == a + l - 1
<1>5. /\ b \in 0 .. Len(s) /\ a - 1 \in 0 .. Len(s) /\ (a - 1) + 1 = a /\ b - a + 1 = l
      /\ l <= N - a + 1
  BY <1>1, <1>2
<1>6. PICK q : q = SubSeq(s, a, b)
  OBVIOUS
<1> HIDE DEF b
<1>7. /\ q \in Seq(Events) /\ Len(q) = l
      /\ \A i \in 1 .. l : q[i] = s[a + i - 1]
  <2>1. (IF a <= b THEN b - a + 1 ELSE 0) = l
    BY <1>1, <1>5
  <2> QED
    BY <1>5, <1>6, <2>1, PartOf
<1>8. \A i \in 1 .. l : p[i] = q[i]
  <2>1. \A i \in 1 .. l : i \in 1 .. N - a + 1
    BY <1>1, <1>5
  <2>2. \A i \in 1 .. N - a + 1 : w[i] = s[a + i - 1]
    BY <1>2
  <2> QED
    BY <1>4, <1>7, <2>1, <2>2
<1>9. p = q
  BY <1>4, <1>7, <1>8, SeqEqual
<1>10. SubSeq(s, (a - 1) + 1, b) \in SubSeqs(s)
  BY <1>5, IsPart
<1> QED
  BY <1>5, <1>6, <1>9, <1>10

-----------------------------------------------------------------------------
(* A goroutine's own calls.                                                *)

(* The events of s are all of g. *)
By(s, g) == \A i \in 1 .. Len(s) : s[i].goroutine_id = g

OwnPairs(s) ==
  (\A e, f \in ToSet(s) : e.goroutine_id = f.goroutine_id) =>
    \A n \in ToSet(Reconstructed(s)) : n.call.span_id = n.end.span_id

(* The calls in part are the innermost of the open ones. *)
OnTop(part, open) ==
  /\ Len(part) <= Len(open)
  /\ \A k \in 1 .. Len(part) : part[k].span_id = open[Len(open) - Len(part) + k]

(* Wherever a trace begins and ends, the pairs in it are of one call; to   *)
(* see that of the next end, wherever it began the replay's stack is the   *)
(* top of the goroutine's own.                                             *)
LogPairs ==
  /\ ~initialized => log = <<>>
  /\ \A w \in SubSeqs(log) : OwnPairs(w)
  /\ \A w \in Suffixes(log), g \in Goroutines : By(w, g) => OnTop(Replayed(w).stack, stack[g])

PairsInv ==
  /\ LogPairs
  /\ \A p \in Prefixes(drained) : OwnPairs(p)
  /\ OwnPairs(sent) /\ OwnPairs(got) /\ OwnPairs(trace.events)

LEMMA EmptyPairs == OwnPairs(<<>>) /\ \A open : Len(open) \in Nat => OnTop(Replayed(<<>>).stack, open)
<1>1. Replayed(<<>>).stack = <<>> /\ Reconstructed(<<>>) = <<>>
  BY ReplayedEmpty DEF NothingReplayed, Reconstructed
<1>2. ToSet(<<>>) = {} /\ Len(<<>>) = 0
  BY DEF ToSet
<1>3. OwnPairs(<<>>)
  BY <1>1, <1>2 DEF OwnPairs
<1>4. ASSUME NEW open, Len(open) \in Nat PROVE OnTop(<<>>, open)
  BY <1>2, <1>4 DEF OnTop
<1> QED
  BY <1>1, <1>3, <1>4

LEMMA SetOfSeq ==
  ASSUME NEW S, NEW s \in Seq(S)
  PROVE  ToSet(s) = {s[i] : i \in 1 .. Len(s)}
<1>1. DOMAIN s = 1 .. Len(s)
  BY LenProperties
<1> QED
  BY <1>1 DEF ToSet

(* What is by one goroutine is so before its last event. *)
LEMMA ByBefore ==
  ASSUME NEW v \in Seq(Events), NEW e \in Events, NEW g, By(Append(v, e), g)
  PROVE  By(v, g) /\ e.goroutine_id = g
<1>1. /\ Len(Append(v, e)) = Len(v) + 1 /\ Append(v, e)[Len(v) + 1] = e
      /\ \A i \in 1 .. Len(v) : Append(v, e)[i] = v[i]
      /\ Len(v) \in Nat
  BY AppendProperties, LenProperties
<1>2. Len(v) + 1 \in 1 .. Len(v) + 1 /\ \A i \in 1 .. Len(v) : i \in 1 .. Len(v) + 1
  BY <1>1
<1> QED
  BY <1>1, <1>2 DEF By

LEMMA OneGoroutine ==
  ASSUME NEW s \in Seq(Events)
  PROVE  OwnPairs(s) <=>
           (\A g : By(s, g) => \A n \in ToSet(Reconstructed(s)) : n.call.span_id = n.end.span_id)
<1>1. Len(s) \in Nat /\ ToSet(s) = {s[i] : i \in 1 .. Len(s)}
  BY SetOfSeq, LenProperties
<1>2. ASSUME NEW g, By(s, g) PROVE \A e, f \in ToSet(s) : e.goroutine_id = f.goroutine_id
  BY <1>1, <1>2 DEF By
<1>3. ASSUME \A e, f \in ToSet(s) : e.goroutine_id = f.goroutine_id
      PROVE  \E g : By(s, g)
  <2>1. CASE Len(s) = 0
    BY <1>1, <2>1 DEF By
  <2>2. CASE Len(s) # 0
    <3>1. 1 \in 1 .. Len(s)
      BY <1>1, <2>2
    <3>2. By(s, s[1].goroutine_id)
      BY <1>1, <1>3, <3>1 DEF By
    <3> QED
      BY <3>2
  <2> QED
    BY <2>1, <2>2
<1> QED
  BY <1>2, <1>3 DEF OwnPairs

(* A call goes onto the replay's stack as onto the goroutine's. *)
LEMMA CallPairs ==
  ASSUME NEW v \in Seq(Events), NEW e \in Events, NEW g, e.goroutine_id = g, e.type = "call",
         NEW S, NEW open \in Seq(S), NEW n \in S, e.span_id = n,
         OwnPairs(v), By(v, g) => OnTop(Replayed(v).stack, open)
  PROVE  /\ OwnPairs(Append(v, e))
         /\ By(Append(v, e), g) => OnTop(Replayed(Append(v, e)).stack, Append(open, n))
<1> DEFINE acc == Replayed(v)
<1>1. acc.stack \in Seq(Events) /\ acc.nodes \in Seq(Node)
  BY ReplayedType DEF ReplayState
<1>2. Replayed(Append(v, e)) = [acc EXCEPT !.stack = Append(acc.stack, e)] /\ acc \in ReplayState
  BY ReplayedAppend, ReplayedType DEF Replay, MapEventType
<1>3. Replayed(Append(v, e)).stack = Append(acc.stack, e) /\ Reconstructed(Append(v, e)) = Reconstructed(v)
  BY <1>2 DEF ReplayState, Reconstructed
<1>4. Append(v, e) \in Seq(Events)
  BY AppendProperties
<1>5. OwnPairs(Append(v, e))
  BY <1>3, <1>4, OneGoroutine, ByBefore
<1> HIDE DEF acc
<1>6. ASSUME By(Append(v, e), g) PROVE OnTop(Append(acc.stack, e), Append(open, n))
  <2>1. OnTop(acc.stack, open)
    BY <1>6, ByBefore DEF acc
  <2>2. /\ Len(Append(acc.stack, e)) = Len(acc.stack) + 1
        /\ Append(acc.stack, e)[Len(acc.stack) + 1] = e
        /\ \A i \in 1 .. Len(acc.stack) : Append(acc.stack, e)[i] = acc.stack[i]
        /\ Len(acc.stack) \in Nat
    BY <1>1, AppendProperties, LenProperties
  <2>3. /\ Len(Append(open, n)) = Len(open) + 1
        /\ Append(open, n)[Len(open) + 1] = n
        /\ \A i \in 1 .. Len(open) : Append(open, n)[i] = open[i]
        /\ Len(open) \in Nat
    BY AppendProperties, LenProperties
  <2> DEFINE p == Append(acc.stack, e)
             q == Append(open, n)
             m == Len(acc.stack)
             l == Len(open)
  <2>4. m \in Nat /\ l \in Nat /\ m <= l /\ Len(p) = m + 1 /\ Len(q) = l + 1
    BY <2>1, <2>2, <2>3 DEF OnTop
  <2> HIDE DEF p, q, m, l
  <2>5. ASSUME NEW k \in 1 .. m + 1 PROVE p[k].span_id = q[(l + 1) - (m + 1) + k]
    <3>1. CASE k = m + 1
      <4>1. (l + 1) - (m + 1) + k = l + 1
        BY <2>4, <3>1
      <4>2. p[k] = e /\ q[l + 1] = n
        BY <2>2, <2>3, <3>1 DEF p, q, m, l
      <4> QED
        BY <4>1, <4>2
    <3>2. CASE k # m + 1
      <4>1. /\ k \in 1 .. m /\ (l + 1) - (m + 1) + k = l - m + k
            /\ l - m + k \in 1 .. l
        BY <2>4, <3>2
      <4>2. p[k] = acc.stack[k] /\ q[l - m + k] = open[l - m + k]
        BY <2>2, <2>3, <4>1 DEF p, q, m, l
      <4>3. acc.stack[k].span_id = open[l - m + k]
        BY <2>1, <4>1 DEF OnTop, m, l
      <4> QED
        BY <4>1, <4>2, <4>3
    <3> QED
      BY <3>1, <3>2
  <2>6. OnTop(p, q)
    BY <2>4, <2>5 DEF OnTop
  <2> QED
    BY <2>6 DEF p, q
<1> QED
  BY <1>3, <1>5, <1>6 DEF acc

(* An end takes the same call off both, or finds the replay's stack empty. *)
LEMMA EndPairs ==
  ASSUME NEW v \in Seq(Events), NEW e \in Events, NEW g, e.goroutine_id = g,
         e.type \in {"ret", "panic"},
         NEW S, NEW open \in Seq(S), open # <<>>, e.span_id = Last(open),
         OwnPairs(v), By(v, g) => OnTop(Replayed(v).stack, open)
  PROVE  /\ OwnPairs(Append(v, e))
         /\ By(Append(v, e), g) => OnTop(Replayed(Append(v, e)).stack, Front(open))
<1> DEFINE acc == Replayed(v)
           m == Len(acc.stack)
           l == Len(open)
<1>1. acc.stack \in Seq(Events) /\ acc.nodes \in Seq(Node) /\ acc \in ReplayState
  BY ReplayedType DEF ReplayState
<1>2. Append(v, e) \in Seq(Events) /\ Replayed(Append(v, e)) = Replay(acc, e)
  BY AppendProperties, ReplayedAppend
<1>3. MapEventType(e.type) \in {"return", "exception"} /\ MapEventType(e.type) # "call"
  BY DEF MapEventType
<1>4. /\ Front(open) \in Seq(S) /\ Len(Front(open)) = l - 1 /\ l \in Nat \ {0}
      /\ \A i \in 1 .. l - 1 : Front(open)[i] = open[i]
      /\ Last(open) = open[l]
  BY FrontOfSeq DEF Last
<1> HIDE DEF acc, l
<1>5. CASE acc.stack = <<>>
  <2>1. Replay(acc, e) = acc
    BY <1>3, <1>5 DEF Replay
  <2>2. Reconstructed(Append(v, e)) = Reconstructed(v)
    BY <1>2, <2>1 DEF Reconstructed, acc
  <2>3. OwnPairs(Append(v, e))
    BY <1>2, <2>2, OneGoroutine, ByBefore
  <2>4. OnTop(<<>>, Front(open))
    BY <1>4 DEF OnTop
  <2> QED
    BY <1>2, <1>5, <2>1, <2>3, <2>4
<1>6. CASE acc.stack # <<>>
  <2> DEFINE node == [call |-> Last(acc.stack), end |-> e, hop |-> Len(acc.stack) - 1]
  <2>1. Replay(acc, e) = [stack |-> Front(acc.stack), nodes |-> Append(acc.nodes, node)]
    BY <1>3, <1>6 DEF Replay
  <2>2. /\ Front(acc.stack) \in Seq(Events) /\ Len(Front(acc.stack)) = m - 1
        /\ \A i \in 1 .. m - 1 : Front(acc.stack)[i] = acc.stack[i]
        /\ Last(acc.stack) = acc.stack[m] /\ Last(acc.stack) \in Events /\ m \in Nat \ {0}
    BY <1>1, <1>6, FrontOfSeq DEF Last
  <2> HIDE DEF m
  <2>3. node \in Node /\ node.call = Last(acc.stack) /\ node.end = e
    BY <2>2 DEF Node, m
  <2> HIDE DEF node
  <2>4. ToSet(Append(acc.nodes, node)) = ToSet(acc.nodes) \cup {node}
    <3>1. /\ Append(acc.nodes, node) \in Seq(Node) /\ Len(Append(acc.nodes, node)) = Len(acc.nodes) + 1
          /\ Append(acc.nodes, node)[Len(acc.nodes) + 1] = node
          /\ \A i \in 1 .. Len(acc.nodes) : Append(acc.nodes, node)[i] = acc.nodes[i]
          /\ Len(acc.nodes) \in Nat
      BY <1>1, <2>3, AppendProperties, LenProperties
    <3>2. /\ ToSet(acc.nodes) = {acc.nodes[i] : i \in 1 .. Len(acc.nodes)}
          /\ ToSet(Append(acc.nodes, node)) =
               {Append(acc.nodes, node)[i] : i \in 1 .. Len(acc.nodes) + 1}
      BY <1>1, <3>1, SetOfSeq
    <3>3. 1 .. Len(acc.nodes) + 1 = (1 .. Len(acc.nodes)) \cup {Len(acc.nodes) + 1}
      BY <3>1
    <3> QED
      BY <3>1, <3>2, <3>3
  <2>5. ASSUME By(Append(v, e), g) PROVE OnTop(acc.stack, open) /\ By(v, g)
    BY <2>5, ByBefore DEF acc
  <2>6. ASSUME NEW h, By(Append(v, e), h)
        PROVE  \A n \in ToSet(Reconstructed(Append(v, e))) : n.call.span_id = n.end.span_id
    <3>1. h = g /\ By(v, g)
      BY <2>6, ByBefore
    <3>2. \A n \in ToSet(acc.nodes) : n.call.span_id = n.end.span_id
      BY <3>1, OneGoroutine DEF acc, Reconstructed
    <3>3. OnTop(acc.stack, open)
      BY <2>5, <2>6, <3>1
    <3>4. m \in 1 .. m /\ m <= l /\ l - m + m = l
      BY <1>4, <2>2, <3>3 DEF OnTop, m, l
    <3>5. acc.stack[m].span_id = open[l]
      BY <3>3, <3>4 DEF OnTop, m, l
    <3>6. node.call.span_id = node.end.span_id
      BY <1>4, <2>2, <2>3, <3>5
    <3>7. Reconstructed(Append(v, e)) = Append(acc.nodes, node)
      BY <1>2, <2>1 DEF Reconstructed
    <3> QED
      BY <2>4, <3>2, <3>6, <3>7
  <2>7. OwnPairs(Append(v, e))
    BY <1>2, <2>6, OneGoroutine
  <2>8. ASSUME By(Append(v, e), g) PROVE OnTop(Front(acc.stack), Front(open))
    <3>1. m <= l /\ \A k \in 1 .. m : acc.stack[k].span_id = open[l - m + k]
      BY <2>5, <2>8 DEF OnTop, m, l
    <3>0. m \in Nat \ {0} /\ l \in Nat \ {0} /\ m <= l
      BY <1>4, <2>2, <3>1
    <3>2. \A k \in 1 .. m - 1 : k \in 1 .. m /\ l - m + k \in 1 .. l - 1 /\ (l - 1) - (m - 1) + k = l - m + k
      BY <3>0
    <3>3. \A k \in 1 .. m - 1 : Front(acc.stack)[k].span_id = Front(open)[l - m + k]
      BY <1>4, <2>2, <3>1, <3>2
    <3>4. \A k \in 1 .. m - 1 : Front(acc.stack)[k].span_id = Front(open)[(l - 1) - (m - 1) + k]
      BY <3>2, <3>3
    <3>5. m - 1 <= l - 1
      BY <1>4, <2>2, <3>1
    <3> QED
      BY <1>4, <2>2, <3>4, <3>5 DEF OnTop
  <2>9. Replayed(Append(v, e)).stack = Front(acc.stack)
    BY <1>2, <2>1
  <2> QED
    BY <2>7, <2>8, <2>9
<1> QED
  BY <1>5, <1>6

LEMMA SelfPrefix == \A s \in Seq(Events) : s \in Prefixes(s)
<1> SUFFICES ASSUME NEW s \in Seq(Events) PROVE s \in Prefixes(s)
  OBVIOUS
<1>1. Len(s) \in Nat /\ Len(s) \in 0 .. Len(s) /\ 1 \in 1 .. Len(s) + 1
  BY LenProperties
<1>2. PICK p : p = SubSeq(s, 1, Len(s))
  OBVIOUS
<1>3. p \in Seq(Events) /\ Len(p) = Len(s) /\ \A i \in 1 .. Len(s) : p[i] = s[i]
  BY <1>1, <1>2, PartOf
<1>4. p = s
  BY <1>3, SeqEqual
<1> QED
  BY <1>1, <1>2, <1>4 DEF Prefixes

LEMMA EmptyPrefix == \A p \in Prefixes(<<>>) : p = <<>>
<1>1. Len(<<>>) = 0 /\ \A l \in 0 .. 0 : l = 0
  OBVIOUS
<1>2. SubSeq(<<>>, 1, 0) = <<>>
  BY SubSeqEmpty
<1> QED
  BY <1>1, <1>2 DEF Prefixes

LEMMA EmptyLog ==
  ASSUME TypeInv', log' = <<>>
  PROVE  LogPairs'
<1>1. SubSeqs(log') = {<<>>} /\ Suffixes(log') = {<<>>}
  BY NoParts
<1>2. \A g \in Goroutines : Len(stack'[g]) \in Nat
  BY LenProperties DEF TypeInv, CodeType
<1> QED
  BY <1>1, <1>2, EmptyPairs DEF LogPairs

(* What has to be shown of an event that is written. *)
LEMMA LogGrows ==
  ASSUME TypeInv, TypeInv', LogPairs, NEW e \in Events, NEW g \in Goroutines,
         e.goroutine_id = g, log' = Append(log, e), initialized',
         \A v \in Suffixes(log) :
           /\ OwnPairs(Append(v, e))
           /\ By(Append(v, e), g) => OnTop(Replayed(Append(v, e)).stack, stack'[g])
  PROVE  LogPairs'
<1>1. log \in Seq(Events) /\ \A h \in Goroutines : Len(stack'[h]) \in Nat
  BY LenProperties DEF TypeInv, RingInv, RingTypeOK, CodeType
<1>2. /\ \A w \in Suffixes(log') : w = <<>> \/ \E v \in Suffixes(log) : w = Append(v, e)
      /\ SubSeqs(log') \subseteq SubSeqs(log) \cup Suffixes(log')
  BY <1>1, PartsGrow
<1>3. Suffixes(log) \subseteq Seq(Events)
  BY <1>1, PartsType
<1>4. \A w \in Suffixes(log') : OwnPairs(w)
  BY <1>2, EmptyPairs
<1>5. \A w \in SubSeqs(log') : OwnPairs(w)
  BY <1>2, <1>4 DEF LogPairs
<1>6. ASSUME NEW w \in Suffixes(log'), NEW h \in Goroutines, By(w, h)
      PROVE  OnTop(Replayed(w).stack, stack'[h])
  <2>1. CASE w = <<>>
    BY <1>1, <2>1, EmptyPairs
  <2>2. ASSUME NEW v \in Suffixes(log), w = Append(v, e) PROVE OnTop(Replayed(w).stack, stack'[h])
    <3>1. v \in Seq(Events) /\ By(Append(v, e), h)
      BY <1>3, <1>6, <2>2
    <3>2. h = g
      BY <3>1, ByBefore
    <3> QED
      BY <2>2, <3>1, <3>2
  <2> QED
    BY <1>2, <2>1, <2>2
<1> QED
  BY <1>5, <1>6 DEF LogPairs

LEMMA EnterPairs ==
  ASSUME TypeInv, TypeInv', LogPairs, NEW g \in Goroutines, Enter(g)
  PROVE  LogPairs'
<1>1. /\ log \in Seq(Events) /\ stack \in [Goroutines -> Seq(1 .. spans)]
      /\ spans \in 0 .. MaxSpans /\ MaxSpans \in Nat
  BY GoTracesBounds DEF TypeInv, RingInv, RingTypeOK, CodeType
<1>2. /\ spans' = spans + 1 /\ spans' \in 1 .. MaxSpans /\ initialized' = initialized
      /\ stack' = [stack EXCEPT ![g] = Append(stack[g], spans')]
      /\ IF initialized THEN log' = Append(log, Event("call", g, spans')) ELSE log' = log
  BY <1>1 DEF Enter, Record, Write, ringVars
<1>3. CASE ~initialized
  BY <1>2, <1>3, EmptyLog DEF LogPairs
<1>4. CASE initialized
  <2>1. PICK e : e = Event("call", g, spans')
    OBVIOUS
  <2>2. e \in Events /\ e.goroutine_id = g /\ e.type = "call" /\ e.span_id = spans'
    <3>1. e.goroutine_id = g /\ e.type = "call" /\ e.span_id = spans'
      BY <2>1 DEF Event
    <3> QED
      BY <1>2, <2>1, <3>1, WireEvent DEF TypeInv
  <2>3. stack[g] \in Seq(Nat) /\ spans' \in Nat
    <3>1. 1 .. spans \subseteq Nat /\ spans' \in Nat
      BY <1>1, <1>2
    <3>2. stack[g] \in Seq(1 .. spans)
      BY <1>1
    <3>3. stack[g] \in Seq(Nat)
      BY <3>1, <3>2, SeqMonotonic
    <3> QED
      BY <3>1, <3>3
  <2>4. stack'[g] = Append(stack[g], spans')
    BY <1>1, <1>2
  <2>5. ASSUME NEW v \in Suffixes(log)
        PROVE  /\ OwnPairs(Append(v, e))
               /\ By(Append(v, e), g) => OnTop(Replayed(Append(v, e)).stack, stack'[g])
    <3>1. v \in Seq(Events) /\ v \in SubSeqs(log)
      BY <1>1, PartsType
    <3>2. OwnPairs(v) /\ (By(v, g) => OnTop(Replayed(v).stack, stack[g]))
      BY <3>1 DEF LogPairs
    <3> QED
      BY <2>2, <2>3, <2>4, <3>1, <3>2, CallPairs
  <2> QED
    BY <1>2, <1>4, <2>1, <2>2, <2>5, LogGrows
<1> QED
  BY <1>3, <1>4

LEMMA ExitPairs ==
  ASSUME TypeInv, TypeInv', LogPairs, NEW g \in Goroutines, Exit(g)
  PROVE  LogPairs'
<1>1. /\ log \in Seq(Events) /\ stack \in [Goroutines -> Seq(1 .. spans)]
      /\ spans \in 0 .. MaxSpans /\ MaxSpans \in Nat
  BY GoTracesBounds DEF TypeInv, RingInv, RingTypeOK, CodeType
<1>2. PICK t \in {"ret", "panic"} : Pop(g, t)
  BY DEF Exit
<1>3. /\ stack[g] # <<>> /\ stack' = [stack EXCEPT ![g] = Front(stack[g])]
      /\ IF initialized THEN log' = Append(log, Event(t, g, Last(stack[g]))) ELSE log' = log
      /\ initialized' = initialized
  BY <1>2 DEF Pop, Record, Write, ringVars, Exit
<1>4. CASE ~initialized
  BY <1>3, <1>4, EmptyLog DEF LogPairs
<1>5. CASE initialized
  <2>1. PICK e : e = Event(t, g, Last(stack[g]))
    OBVIOUS
  <2>2. stack[g] \in Seq(1 .. spans) /\ stack'[g] = Front(stack[g])
    BY <1>1, <1>3
  <2>3. e \in Events /\ e.goroutine_id = g /\ e.type \in {"ret", "panic"} /\ e.span_id = Last(stack[g])
    <3>1. e.goroutine_id = g /\ e.type \in {"ret", "panic"} /\ e.span_id = Last(stack[g])
      BY <2>1 DEF Event
    <3>2. Last(stack[g]) \in 1 .. spans
      BY <1>3, <2>2, FrontOfSeq
    <3>3. Last(stack[g]) \in 1 .. MaxSpans
      BY <1>1, <3>2
    <3> QED
      BY <2>1, <3>1, <3>3, WireEvent DEF TypeInv
  <2>4. ASSUME NEW v \in Suffixes(log)
        PROVE  /\ OwnPairs(Append(v, e))
               /\ By(Append(v, e), g) => OnTop(Replayed(Append(v, e)).stack, stack'[g])
    <3>1. v \in Seq(Events) /\ v \in SubSeqs(log)
      BY <1>1, PartsType
    <3>2. OwnPairs(v) /\ (By(v, g) => OnTop(Replayed(v).stack, stack[g]))
      BY <3>1 DEF LogPairs
    <3> QED
      BY <1>3, <2>2, <2>3, <3>1, <3>2, EndPairs
  <2> QED
    BY <1>3, <1>5, <2>1, <2>3, <2>4, LogGrows
<1> QED
  BY <1>4, <1>5

(* The tracer is off only where a process ends, with its ring. *)
LEMMA TracerKept ==
  ASSUME Next
  PROVE  log' = <<>> \/ initialized' = initialized \/ initialized'
<1>1. CASE Instrument \/ Client \/ GiveUp \/ Ages \/ Cleanup
  BY <1>1, OutsideBinary DEF codeVars
<1>2. CASE Runner \/ Collector
  BY <1>2 DEF Runner, StatBinary, Launch, Waited, Collect, Emit, Finish, ReleaseLock, Collector,
              Listen, Accept, AcceptDeadline, ReadAll, CollectorStep, codeVars
<1>3. CASE RunnerCrash \/ Kill \/ HolderEnds
  BY <1>3 DEF RunnerCrash, Kill, HolderEnds, ProcessGone, NewRing, codeVars
<1>4. CASE Binary
  BY <1>4 DEF Binary, InitTracer, NilBuffer, Dial, RunsUntraced, Spawn, TestsEnd, FlushDrain,
              FlushSend, Enter, Exit, Panic, Dies, ProcessGone, NewRing
<1> QED
  BY <1>1, <1>2, <1>3, <1>4 DEF Next

LEMMA LogPairsStep ==
  ASSUME TypeInv, TypeInv', LogPairs, Next
  PROVE  LogPairs'
<1>1. CASE \E g \in Goroutines : Enter(g) \/ Exit(g)
  BY <1>1, EnterPairs, ExitPairs
<1>2. CASE log' = <<>>
  BY <1>2, EmptyLog
<1>3. CASE UNCHANGED <<log, stack>> /\ log' # <<>>
  <2>1. initialized' = initialized \/ initialized'
    BY <1>3, TracerKept
  <2> QED
    BY <1>3, <2>1 DEF LogPairs
<1> QED
  BY <1>1, <1>2, <1>3, RingKept

(* Whatever the ring lost and whatever was cut off, what is drained and    *)
(* sent is a part of what was written.                                     *)
LEMMA DrainedPairs ==
  ASSUME TypeInv, LogPairs, NEW p \in Prefixes(Drained)
  PROVE  OwnPairs(p)
<1>1. /\ log \in Seq(Events) /\ Len(log) \in Nat /\ count \in 0 .. Size /\ Size \in Nat
      /\ count = IF Len(log) < Size THEN Len(log) ELSE Size
      /\ Drained = SubSeq(log, Len(log) - count + 1, Len(log))
  BY SizeAssumption, RingInvNewest, LenProperties
  DEF TypeInv, RingInv, RingTypeOK, RingHoldsNewest
<1>2. Len(log) - count + 1 \in 1 .. Len(log) + 1
  <2>1. Len(log) \in Nat /\ count \in Nat /\ count <= Len(log)
    BY <1>1
  <2> QED
    BY <2>1
<1>3. p \in SubSeqs(log)
  BY <1>1, <1>2, PrefixOfSuffix
<1> QED
  BY <1>3 DEF LogPairs

LEMMA PairsStep == TypeInv /\ TypeInv' /\ PairsInv /\ [Next]_vars => PairsInv'
<1> SUFFICES ASSUME TypeInv, TypeInv', PairsInv, [Next]_vars PROVE PairsInv'
  OBVIOUS
<1>1. CASE Next
  <2>1. LogPairs'
    BY <1>1, LogPairsStep DEF PairsInv
  <2>2. \A p \in Prefixes(drained') : OwnPairs(p)
    <3>1. CASE FlushDrain
      BY <3>1, DrainedPairs DEF FlushDrain, PairsInv
    <3>2. CASE ~FlushDrain
      BY <1>1, <3>2, DrainedKept, EmptyPrefix, EmptyPairs DEF PairsInv
    <3> QED
      BY <3>1, <3>2
  <2>3. OwnPairs(sent')
    <3>1. CASE FlushSend
      <4>1. drained \in Prefixes(drained)
        BY SelfPrefix DEF TypeInv, DataType, Chunks
      <4>2. sent' = drained \/ sent' = <<>>
        BY <3>1 DEF FlushSend
      <4> QED
        BY <4>1, <4>2, EmptyPairs DEF PairsInv
    <3>2. CASE Kill
      <4>1. sent' \in Prefixes(drained) \/ sent' = sent
        BY <3>2 DEF Kill
      <4> QED
        BY <4>1 DEF PairsInv
    <3> QED
      BY <1>1, <3>1, <3>2, SentKept DEF PairsInv
  <2>4. OwnPairs(got') /\ OwnPairs(trace'.events)
    <3>1. CASE Emit
      <4>1. got' = got
        BY <3>1 DEF Emit
      <4>2. trace'.events = <<>> \/ trace'.events = got \/ trace' = trace
        BY <3>1 DEF Emit, NoTrace
      <4> QED
        BY <4>1, <4>2, EmptyPairs DEF PairsInv
    <3>2. CASE ReadAll
      BY <3>2 DEF ReadAll, CollectorStep, PairsInv
    <3> QED
      BY <1>1, <3>1, <3>2, DataKept DEF PairsInv
  <2> QED
    BY <2>1, <2>2, <2>3, <2>4 DEF PairsInv
<1>2. CASE UNCHANGED vars
  BY <1>2 DEF PairsInv, LogPairs, vars, ringVars, runVars, codeVars, exitVars, historyVars
<1> QED
  BY <1>1, <1>2

LEMMA InitPairs == Init => PairsInv
<1> SUFFICES ASSUME Init PROVE PairsInv
  OBVIOUS
<1>1. log = <<>> /\ drained = <<>> /\ sent = <<>> /\ got = <<>> /\ trace.events = <<>>
  BY DEF Init, RingInit, NoTrace
<1>2. \A g \in Goroutines : stack[g] = <<>> /\ Len(<<>>) \in Nat
  BY DEF Init
<1>3. SubSeqs(log) = {<<>>} /\ Suffixes(log) = {<<>>}
  BY <1>1, NoParts
<1>4. LogPairs
  BY <1>1, <1>2, <1>3, EmptyPairs DEF LogPairs
<1> QED
  BY <1>1, <1>4, EmptyPrefix, EmptyPairs DEF PairsInv

(* A trace of one goroutine pairs each call with its own end, wherever the *)
(* full ring let it begin and a kill let it end, for calls of any number   *)
(* and depth that return, panic and recover.                               *)
THEOREM OwnCallsPaired == Spec => []PairsOwnCalls
<1>1. PairsInv => PairsOwnCalls
  BY DEF PairsInv, OwnPairs, PairsOwnCalls
<1> QED
  BY InitPairs, TypesHold, PairsStep, <1>1, PTL DEF Spec
=============================================================================
