--------------------------- MODULE TraceJobs_proofs ---------------------------
(***************************************************************************)
(* Proofs about TraceJobs, for any jobs, attempts, discoveries, sessions   *)
(* and faults: what the cache may claim, and whose tasks a trace tells of. *)
(***************************************************************************)
EXTENDS TraceJobs, TLAPS

(* The worker holds a job whenever it does not wait for one.               *)
HasJob == worker # "pop" => current \in Popped

(* The instrumenter hears of an attempt once its job is popped.            *)
Unheard == \A k \in Attempts \ Popped : call[k] = "none"

TypeInv == TypeOK /\ HasJob /\ Unheard

LEMMA Bounds == /\ MaxAttempts \in Nat /\ MaxDiscovers \in Nat
                /\ MaxFaults \in Nat /\ MAX_SESSIONS \in Nat
  BY TraceBounds

(* A job's name is one of Jobs. *)
LEMMA JobIsJob == TypeInv /\ worker # "pop" => Job \in Jobs /\ current \in Attempts
  BY Bounds DEF TypeInv, TypeOK, HasJob, Job, Popped, Attempts

-----------------------------------------------------------------------------
(* Types.                                                                  *)

LEMMA InitType == Init => TypeInv
  BY Bounds DEF Init, TypeInv, TypeOK, HasJob, Unheard, Popped, Attempts, Original, None

LEMMA DiscovererType == TypeInv /\ Discoverer => TypeInv'
<1> SUFFICES ASSUME TypeInv, Discoverer PROVE TypeInv'
  OBVIOUS
<1> USE Bounds DEF TypeInv, TypeOK, HasJob, Unheard, Popped, workVars, tableVars, hookVars
<1>1. CASE Discover
  BY <1>1 DEF Discover, Score
<1>2. CASE PushFails
  BY <1>2 DEF PushFails, Fault
<1>3. CASE \E j \in Jobs : PushJob(j)
  BY <1>3 DEF PushJob
<1> QED
  BY <1>1, <1>2, <1>3 DEF Discoverer

LEMMA WorkerType == TypeInv /\ (TraceRunner \/ TimesOut) => TypeInv'
<1> SUFFICES ASSUME TypeInv, TraceRunner \/ TimesOut PROVE TypeInv'
  OBVIOUS
<1>0. worker # "pop" => Job \in Jobs /\ current \in Attempts
  BY JobIsJob
<1> USE Bounds DEF TypeInv, TypeOK, HasJob, Unheard, Popped, jobVars, tableVars, hookVars
<1>1. CASE PopJob
  BY <1>1 DEF PopJob
<1>2. CASE CheckCache
  BY <1>0, <1>2 DEF CheckCache, Calling
<1>3. CASE Instrumented
  BY <1>0, <1>3 DEF Instrumented, Calling
<1>4. CASE CallFailed
  BY <1>4 DEF CallFailed
<1>5. CASE Answered
  BY <1>5 DEF Answered
<1>6. CASE Emit
  BY <1>6 DEF Emit
<1>7. CASE MarkCached
  BY <1>0, <1>7 DEF MarkCached
<1>8. CASE TimesOut
  BY <1>0, <1>8 DEF TimesOut, Cancelled
<1> QED
  BY <1>1, <1>2, <1>3, <1>4, <1>5, <1>6, <1>7, <1>8 DEF TraceRunner

(* The handler of /instrument. *)
LEMMA InstrumentType == ASSUME TypeInv, NEW k \in Popped, Instrument(k) PROVE TypeInv'
<1>0. k \in Attempts
  BY Bounds DEF TypeInv, TypeOK, Popped, Attempts
<1> USE Bounds DEF TypeInv, TypeOK, HasJob, Unheard, Popped, jobVars, workVars, hookVars, Moves, Calling
<1>1. CASE CheckRoom(k)
  BY <1>0, <1>1 DEF CheckRoom, tableVars
<1>2. CASE Register(k)
  BY <1>0, <1>2 DEF Register
<1>3. CASE Stamp(k)
  BY <1>0, <1>3 DEF Stamp, Disturbs
<1> QED
  BY <1>1, <1>2, <1>3 DEF Instrument

(* The handler of /run, and the entrypoint in it. *)
LEMMA RunType == ASSUME TypeInv, NEW k \in Popped, Run(k) PROVE TypeInv'
<1>0. k \in Attempts
  BY Bounds DEF TypeInv, TypeOK, Popped, Attempts
<1> USE Bounds DEF TypeInv, TypeOK, HasJob, Unheard, Popped, jobVars, workVars, Moves, Calling
<1>1. CASE LookUpSession(k)
  BY <1>0, <1>1 DEF LookUpSession, tableVars, hookVars
<1>2. CASE InstallHooks(k)
  <2>1. Running \subseteq Popped
    BY DEF Running
  <2> QED
    BY <1>0, <1>2, <2>1 DEF InstallHooks, tableVars
<1>3. CASE SpawnTask(k)
  BY <1>0, <1>3 DEF SpawnTask, Recorded, tableVars
<1>4. CASE Uninstall(k)
  BY <1>0, <1>4 DEF Uninstall, tableVars, None
<1>5. CASE Respond(k)
  BY <1>0, <1>5 DEF Respond, Disturbs, hookVars
<1> QED
  BY <1>1, <1>2, <1>3, <1>4, <1>5 DEF Run
(* The rest: the eviction task, time, restarts and what is made of traces. *)
LEMMA OthersType ==
  ASSUME TypeInv,
         \/ Eviction \/ InstrumenterRestart \/ \E j \in Jobs : CacheExpires(j)
         \/ \E k \in Popped : SpecWritten(k) \/ Ages(k)
  PROVE  TypeInv'
<1> USE Bounds DEF TypeInv, TypeOK, HasJob, Unheard, Popped, jobVars, workVars, tableVars, hookVars
<1>1. CASE EvictScan
  BY <1>1 DEF EvictScan
<1>2. CASE EvictSessions
  BY <1>2 DEF EvictSessions
<1>3. CASE InstrumenterRestart
  BY <1>3 DEF InstrumenterRestart, Fault, Calling
<1>4. CASE \E j \in Jobs : CacheExpires(j)
  BY <1>4 DEF CacheExpires
<1>5. CASE \E k \in Popped : SpecWritten(k)
  BY <1>5 DEF SpecWritten
<1>6. CASE \E k \in Popped : Ages(k)
  BY <1>6 DEF Ages
<1> QED
  BY <1>1, <1>2, <1>3, <1>4, <1>5, <1>6 DEF Eviction

LEMMA TypeHolds == Spec => []TypeInv
<1>1. TypeInv /\ Next => TypeInv'
  BY DiscovererType, WorkerType, InstrumentType, RunType, OthersType DEF Next
<1>2. TypeInv /\ UNCHANGED vars => TypeInv'
  BY DEF TypeInv, TypeOK, HasJob, Unheard, Popped, vars, jobVars, workVars, tableVars, hookVars
<1> QED
  BY InitType, <1>1, <1>2, PTL DEF Spec

(* In every run the queue, the attempts and the tables of the instrumenter *)
(* keep their types: no session and no trace without a job that was taken. *)
THEOREM TypeCorrect == Spec => []TypeOK
<1>1. TypeInv => TypeOK
  BY DEF TypeInv
<1> QED
  BY TypeHolds, <1>1, PTL
-----------------------------------------------------------------------------
(* The cache.                                                              *)

(* A job is marked once its attempt was emitted, and one that is traced    *)
(* was not cached when it began nor since.                                 *)
CacheInv ==
  /\ CachedWasEmitted
  /\ worker = "mark" => current \in emitted
  /\ worker \in {"instrument", "running", "emit"} => Job \notin cache

(* Only the worker and the clock touch what it keeps. *)
LEMMA OthersKeepWork ==
  Next => TraceRunner \/ TimesOut \/ (\E j \in Jobs : CacheExpires(j)) \/ UNCHANGED workVars
  BY DEF Next, Discoverer, Discover, PushJob, PushFails, Eviction, EvictScan, EvictSessions,
         InstrumenterRestart, SpecWritten, Instrument, CheckRoom, Register, Stamp, Run,
         LookUpSession, InstallHooks, SpawnTask, Uninstall, Respond, Ages

LEMMA WorkerCache == TypeInv /\ CacheInv /\ (TraceRunner \/ TimesOut) => CacheInv'
<1> SUFFICES ASSUME TypeInv, CacheInv, TraceRunner \/ TimesOut PROVE CacheInv'
  OBVIOUS
<1> USE DEF CacheInv, CachedWasEmitted, Job
<1>0. jobOf \in Seq(Jobs) /\ emitted \subseteq Popped /\ current \in Nat
  BY DEF TypeInv, TypeOK
<1>1. CASE PopJob
  BY <1>0, <1>1 DEF PopJob, Popped
<1>2. CASE CheckCache
  BY <1>2 DEF CheckCache
<1>3. CASE Instrumented
  BY <1>3 DEF Instrumented
<1>4. CASE CallFailed
  BY <1>4 DEF CallFailed
<1>5. CASE Answered
  BY <1>5 DEF Answered
<1>6. CASE Emit
  BY <1>6 DEF Emit
<1>7. CASE MarkCached
  BY <1>7 DEF MarkCached
<1>8. CASE TimesOut
  BY <1>8 DEF TimesOut, Cancelled
<1> QED
  BY <1>1, <1>2, <1>3, <1>4, <1>5, <1>6, <1>7, <1>8 DEF TraceRunner

LEMMA CacheHolds == Spec => []CacheInv
<1>1. Init => CacheInv
  BY DEF Init, CacheInv, CachedWasEmitted
<1>2. CacheInv /\ UNCHANGED workVars => CacheInv'
  BY DEF CacheInv, CachedWasEmitted, Job, workVars
<1>3. CacheInv /\ (\E j \in Jobs : CacheExpires(j)) => CacheInv'
  BY DEF CacheInv, CachedWasEmitted, Job, CacheExpires
<1>4. UNCHANGED vars => UNCHANGED workVars
  BY DEF vars
<1>5. TypeInv /\ CacheInv /\ [Next]_vars => CacheInv'
  BY <1>2, <1>3, <1>4, WorkerCache, OthersKeepWork
<1> QED
  BY <1>1, <1>5, TypeHolds, PTL DEF Spec

(* In every run a job in the 24-hour cache has its trace in the stream     *)
(* (process_job of the trace-runner, wherever wait_for cancels it).        *)
THEOREM CachedEmitted == Spec => []CachedWasEmitted
<1>1. CacheInv => CachedWasEmitted
  BY DEF CacheInv
<1> QED
  BY CacheHolds, <1>1, PTL

(* No step of any run adds a trace of a job that the cache holds.          *)
THEOREM NotTracedTwice == Spec => NoSecondTrace
<1>1. TypeInv /\ CacheInv /\ [Next]_vars =>
        [\A k \in emitted' \ emitted : jobOf[k] \notin cache]_vars
  <2> SUFFICES ASSUME TypeInv, CacheInv, Next, NEW k \in emitted' \ emitted
               PROVE  jobOf[k] \notin cache
    OBVIOUS
  <2>1. worker = "emit" /\ k = current
    <3>1. CASE TraceRunner
      BY <3>1 DEF TraceRunner, PopJob, CheckCache, Instrumented, CallFailed, Answered, Emit,
                  MarkCached
    <3>2. CASE TimesOut
      BY <3>2 DEF TimesOut, Cancelled
    <3>3. CASE (\E j \in Jobs : CacheExpires(j)) \/ UNCHANGED workVars
      BY <3>3 DEF CacheExpires, workVars
    <3> QED
      BY <3>1, <3>2, <3>3, OthersKeepWork
  <2> QED
    BY <2>1 DEF CacheInv, Job
<1> QED
  BY TypeHolds, CacheHolds, <1>1, PTL DEF Spec, NoSecondTrace

-----------------------------------------------------------------------------
(* Whose tasks a trace tells of.                                           *)

Before == {"none", "check", "register", "stamp", "ready", "lookup", "install"}
OwnTasks(k) == IF k \in spawned THEN {k} ELSE {}

(* Nothing refers to a run that has not started. *)
Untouched ==
  \A k \in Attempts : call[k] \in Before =>
    createTask # k /\ saved # k /\ k \notin spawned /\ events[k] = {}

(* Two that run at a time are both known to be mixed. *)
Overlaps == \A j, k \in Running : j # k => {j, k} \subseteq mixed

(* One that runs alone has its own patch in place, and its events are its  *)
(* own, until it has answered.                                             *)
Alone ==
  \A k \in Attempts \ mixed :
    /\ call[k] = "run" => createTask = k
    /\ k \in Running => events[k] = OwnTasks(k)
    /\ call[k] = "answered" => result[k] = OwnTasks(k)

(* What is emitted was answered, and a new attempt is not yet called.      *)
Calls ==
  /\ worker = "cached" => call[current] = "none"
  /\ worker = "emit" => call[current] = "answered"
  /\ \A k \in emitted : call[k] = "answered"

(* While no runs ever overlapped, the one that runs keeps the original.    *)
Kept ==
  mixed = {} => IF \E k \in Attempts : call[k] = "run" THEN saved = Original
                                                       ELSE createTask = Original

RunInv == Untouched /\ Overlaps /\ Alone /\ Calls /\ Kept

(* The variables RunInv speaks of, and what only some actions change. *)
runVars == <<worker, current, emitted, call, events, result, createTask, saved, spawned, mixed>>

LEMMA RunIdle == RunInv /\ UNCHANGED runVars => RunInv'
  BY DEF RunInv, Untouched, Overlaps, Alone, OwnTasks, Calls, Kept, Running, runVars

(* A call that does not run yet moves on, or fails.                        *)
LEMMA MoveKeeps ==
  ASSUME TypeInv, RunInv, NEW k \in Attempts, NEW to \in Before \cup {"failed", "gone"},
         call[k] \in Before, call' = [call EXCEPT ![k] = to],
         UNCHANGED <<events, result, createTask, saved, spawned, mixed>>
  PROVE  Untouched' /\ Overlaps' /\ Alone' /\ Kept'
<1> USE DEF TypeInv, TypeOK, RunInv, Before
<1>1. Running' = Running /\ \A i \in Attempts : call'[i] = "run" <=> call[i] = "run"
  BY DEF Running
<1>2. Untouched'
  BY DEF Untouched
<1>3. Overlaps'
  BY <1>1 DEF Overlaps
<1>4. Alone'
  BY <1>1 DEF Alone, OwnTasks
<1>5. Kept'
  BY <1>1 DEF Kept
<1> QED
  BY <1>2, <1>3, <1>4, <1>5

LEMMA WorkerRun == TypeInv /\ RunInv /\ (TraceRunner \/ TimesOut) => RunInv'
<1> SUFFICES ASSUME TypeInv, RunInv, TraceRunner \/ TimesOut PROVE RunInv'
  OBVIOUS
<1>0. /\ worker # "pop" => current \in Attempts
      /\ worker \in {"pop", "cached", "instrument", "running", "emit", "mark"}
      /\ call \in [Attempts -> Calling \cup {"none", "ready", "failed", "answered", "gone"}]
      /\ emitted \subseteq Attempts
  BY JobIsJob, Bounds DEF TypeInv, TypeOK, Popped, Attempts
<1>a. ASSUME call' = call, UNCHANGED <<hookVars, result>>
      PROVE  Untouched' /\ Overlaps' /\ Alone' /\ Kept'
  BY <1>a DEF RunInv, Untouched, Overlaps, Alone, OwnTasks, Kept, Running, hookVars
<1>b. ASSUME NEW to \in {"check", "lookup", "gone"}, worker # "pop", call[current] \in Before,
             call' = [call EXCEPT ![current] = to], UNCHANGED <<hookVars, result>>
      PROVE  Untouched' /\ Overlaps' /\ Alone' /\ Kept'
  BY <1>0, <1>b, MoveKeeps DEF hookVars, Before
<1>1. CASE PopJob
  <2>1. call[Len(jobOf) + 1] = "none"
    BY <1>1, Bounds DEF PopJob, TypeInv, TypeOK, Unheard, Popped, Attempts
  <2> QED
    BY <1>0, <1>1, <1>a, <2>1 DEF PopJob, RunInv, Calls
<1>2. CASE CheckCache
  <2>1. CASE call' = call
    BY <1>0, <1>2, <1>a, <2>1 DEF CheckCache, RunInv, Calls
  <2>2. CASE call' = [call EXCEPT ![current] = "check"]
    BY <1>0, <1>2, <1>b, <2>2 DEF CheckCache, RunInv, Calls, Before
  <2> QED
    BY <1>2, <2>1, <2>2 DEF CheckCache
<1>3. CASE Instrumented
  BY <1>0, <1>3, <1>b DEF Instrumented, RunInv, Calls, Before
<1>4. CASE CallFailed
  BY <1>0, <1>4, <1>a DEF CallFailed, RunInv, Calls
<1>5. CASE Answered
  BY <1>0, <1>5, <1>a DEF Answered, RunInv, Calls
<1>6. CASE Emit
  BY <1>0, <1>6, <1>a DEF Emit, RunInv, Calls
<1>7. CASE MarkCached
  BY <1>0, <1>7, <1>a DEF MarkCached, RunInv, Calls
<1>8. CASE TimesOut
  <2>1. CASE call' = call
    BY <1>0, <1>8, <1>a, <2>1 DEF TimesOut, Cancelled, RunInv, Calls
  <2>2. CASE /\ call[current] \in {"check", "lookup"}
             /\ call' = [call EXCEPT ![current] = "gone"]
    BY <1>0, <1>8, <1>b, <2>2 DEF TimesOut, Cancelled, RunInv, Calls, Before
  <2> QED
    BY <1>8, <2>1, <2>2 DEF TimesOut, Cancelled
<1> QED
  BY <1>1, <1>2, <1>3, <1>4, <1>5, <1>6, <1>7, <1>8 DEF TraceRunner

(* What the worker knows of the calls stays true while one moves on.       *)
LEMMA CallsKept ==
  ASSUME TypeInv, RunInv, NEW k \in Popped, NEW to, call[k] \notin {"none", "answered"},
         call' = [call EXCEPT ![k] = to], UNCHANGED workVars
  PROVE  Calls'
<1>0. Popped \subseteq Attempts /\ emitted \subseteq Popped
  BY Bounds DEF TypeInv, TypeOK, Popped, Attempts
<1>1. k \in Attempts /\ (worker # "pop" => current \in Attempts) /\ emitted \subseteq Attempts
  BY <1>0, JobIsJob
<1> QED
  BY <1>1 DEF TypeInv, TypeOK, RunInv, Calls, workVars

LEMMA InstrumentRun == ASSUME TypeInv, RunInv, NEW k \in Popped, Instrument(k) PROVE RunInv'
<1>1. k \in Attempts
  BY Bounds DEF TypeInv, TypeOK, Popped, Attempts
<1>2. PICK from \in {"check", "register", "stamp"}, to \in Before \cup {"failed", "gone"} :
        call[k] = from /\ call' = [call EXCEPT ![k] = to]
  BY DEF Instrument, CheckRoom, Register, Stamp, Moves, Before
<1>3. UNCHANGED <<workVars, hookVars, result>>
  BY DEF Instrument, CheckRoom, Register, Stamp
<1>4. Untouched' /\ Overlaps' /\ Alone' /\ Kept'
  BY <1>1, <1>2, <1>3, MoveKeeps DEF Before, hookVars
<1> QED
  BY <1>2, <1>3, <1>4, CallsKept DEF RunInv

LEMMA InstallRun == ASSUME TypeInv, RunInv, NEW k \in Popped, InstallHooks(k) PROVE RunInv'
<1> USE DEF TypeInv, TypeOK, RunInv, InstallHooks, Moves
<1>1. k \in Attempts
  BY Bounds DEF Popped, Attempts
<1>2. Running' = Running \cup {k} /\ k \notin Running
  BY <1>1 DEF Running
<1>3. mixed \subseteq mixed' /\ (Running # {} => Running' \subseteq mixed')
  BY <1>2
<1>4. Untouched'
  BY <1>1, Bounds DEF Untouched, Before
<1>5. Overlaps'
  BY <1>2, <1>3 DEF Overlaps
<1>6. Alone'
  <2> SUFFICES ASSUME NEW i \in Attempts \ mixed'
               PROVE  /\ call'[i] = "run" => createTask' = i
                      /\ i \in Running' => events'[i] = OwnTasks(i)'
                      /\ call'[i] = "answered" => result'[i] = OwnTasks(i)'
    BY DEF Alone
  <2>1. CASE i = k
    BY <1>1, <2>1 DEF Untouched, Before, OwnTasks
  <2>2. CASE i # k
    <3>1. i \notin Running /\ call'[i] = call[i]
      BY <1>1, <1>2, <1>3, <2>2
    <3> QED
      BY <1>2, <1>3, <2>2, <3>1 DEF Alone, OwnTasks, Running
  <2> QED
    BY <2>1, <2>2
<1>7. Kept'
  <2> SUFFICES ASSUME mixed' = {} PROVE saved' = Original
    BY <1>1 DEF Kept
  <2>1. Running = {} /\ mixed = {}
    BY <1>3
  <2> QED
    BY <2>1 DEF Kept, Running
<1>8. Calls'
  BY CallsKept DEF workVars
<1> QED
  BY <1>4, <1>5, <1>6, <1>7, <1>8

LEMMA SpawnRun == ASSUME TypeInv, RunInv, NEW k \in Popped, SpawnTask(k) PROVE RunInv'
<1> USE DEF TypeInv, TypeOK, RunInv, SpawnTask
<1>1. k \in Attempts /\ k \in Running
  BY Bounds DEF Popped, Attempts, Running
<1>2. Untouched'
  BY <1>1 DEF Untouched, Before, Recorded
<1>3. Overlaps' /\ Kept' /\ Calls'
  BY DEF Overlaps, Kept, Calls, Running, workVars
<1>4. Alone'
  <2> SUFFICES ASSUME NEW i \in Attempts \ mixed
               PROVE  /\ call[i] = "run" => createTask = i
                      /\ i \in Running => events'[i] = OwnTasks(i)'
                      /\ call[i] = "answered" => result[i] = OwnTasks(i)'
    BY DEF Alone, Running
  <2>1. CASE i = k
    <3>1. createTask = k /\ events[k] \subseteq {k}
      BY <1>1, <2>1 DEF Alone, OwnTasks
    <3>2. k # Original
      BY <1>1, Bounds DEF Attempts, Original
    <3> QED
      BY <1>1, <2>1, <3>1, <3>2 DEF Recorded, OwnTasks
  <2>2. CASE i # k
    BY <1>1, <2>2 DEF Alone, Overlaps, OwnTasks
  <2> QED
    BY <2>1, <2>2
<1> QED
  BY <1>2, <1>3, <1>4

LEMMA UninstallRun == ASSUME TypeInv, RunInv, NEW k \in Popped, Uninstall(k) PROVE RunInv'
<1> USE DEF TypeInv, TypeOK, RunInv, Uninstall
<1>1. k \in Attempts /\ k \in Running /\ call[k] = "run"
  BY Bounds DEF Popped, Attempts, Running, Moves
<1>2. PICK to \in {"restore", "failed"} : call' = [call EXCEPT ![k] = to]
  BY DEF Moves
<1>3. Running' \subseteq Running /\ Running \ {k} \subseteq Running'
  BY <1>1, <1>2 DEF Running
<1>4. Untouched'
  BY <1>1, <1>2, Bounds DEF Untouched, Before, None, Attempts
<1>5. Overlaps'
  BY <1>3 DEF Overlaps
<1>6. Alone'
  <2> SUFFICES ASSUME NEW i \in Attempts \ mixed
               PROVE  /\ call'[i] = "run" => createTask' = i
                      /\ i \in Running' => events[i] = OwnTasks(i)
                      /\ call'[i] = "answered" => result[i] = OwnTasks(i)
    BY DEF Alone, OwnTasks
  <2>1. call'[i] # "run"
    BY <1>1, <1>2 DEF Overlaps, Running
  <2>2. call'[i] = "answered" => call[i] = "answered"
    BY <1>2
  <2> QED
    BY <1>3, <2>1, <2>2 DEF Alone
<1>7. Kept'
  <2> SUFFICES ASSUME mixed = {}
               PROVE  (\A i \in Attempts : call'[i] # "run") /\ createTask' = Original
    BY DEF Kept
  <2>1. saved = Original /\ Original # None
    BY <1>1, Bounds DEF Kept, Original, None
  <2>2. \A i \in Attempts : call'[i] # "run"
    BY <1>1, <1>2 DEF Overlaps, Running
  <2> QED
    BY <2>1, <2>2
<1>8. Calls'
  BY <1>1, <1>2, CallsKept
<1> QED
  BY <1>4, <1>5, <1>6, <1>7, <1>8

LEMMA RespondRun == ASSUME TypeInv, RunInv, NEW k \in Popped, Respond(k) PROVE RunInv'
<1> USE DEF TypeInv, TypeOK, RunInv, Respond, Moves, hookVars
<1>1. k \in Attempts /\ k \in Running /\ call[k] = "restore"
  BY Bounds DEF Popped, Attempts, Running
<1>2. Running' = Running \ {k} /\ \A i \in Attempts : call'[i] = "run" <=> call[i] = "run"
  BY <1>1 DEF Running
<1>3. Untouched'
  BY <1>1 DEF Untouched, Before
<1>4. Overlaps'
  BY <1>2 DEF Overlaps
<1>5. Alone'
  BY <1>1, <1>2 DEF Alone, OwnTasks
<1>6. Kept'
  BY <1>2 DEF Kept
<1>7. Calls'
  BY <1>1, CallsKept
<1> QED
  BY <1>3, <1>4, <1>5, <1>6, <1>7

LEMMA RestartRun == TypeInv /\ RunInv /\ InstrumenterRestart => RunInv'
<1> SUFFICES ASSUME TypeInv, RunInv, InstrumenterRestart PROVE RunInv'
  OBVIOUS
<1> USE DEF TypeInv, TypeOK, RunInv, InstrumenterRestart
<1>1. Running' = {} /\ \A i \in Attempts : call'[i] # "run"
  BY DEF Running, Calling
<1>2. \A i \in Attempts : call'[i] \in Before \cup {"answered"} => call'[i] = call[i]
  BY DEF Before, Calling
<1>3. Untouched'
  BY <1>2, Bounds DEF Untouched, Before, Original, None, Attempts
<1>4. Overlaps'
  BY <1>1 DEF Overlaps
<1>5. Alone'
  BY <1>1, <1>2 DEF Alone, OwnTasks
<1>6. Kept'
  BY <1>1 DEF Kept
<1>7. Calls'
  <2>1. emitted \subseteq Attempts /\ (worker # "pop" => current \in Attempts)
    BY JobIsJob, Bounds DEF Popped, Attempts
  <2> QED
    BY <2>1 DEF Calls, Calling, workVars
<1> QED
  BY <1>3, <1>4, <1>5, <1>6, <1>7

LEMMA LookUpRun == ASSUME TypeInv, RunInv, NEW k \in Popped, LookUpSession(k) PROVE RunInv'
<1>1. k \in Attempts
  BY Bounds DEF TypeInv, TypeOK, Popped, Attempts
<1>2. PICK to \in Before \cup {"failed", "gone"} :
        call[k] = "lookup" /\ call' = [call EXCEPT ![k] = to]
  BY DEF LookUpSession, Moves, Before
<1>3. UNCHANGED <<workVars, hookVars, result>>
  BY DEF LookUpSession
<1>4. Untouched' /\ Overlaps' /\ Alone' /\ Kept'
  BY <1>1, <1>2, <1>3, MoveKeeps DEF Before, hookVars
<1> QED
  BY <1>2, <1>3, <1>4, CallsKept DEF RunInv

LEMMA RunHolds == Spec => []RunInv
<1>1. Init => RunInv
  <2>1. Original # None /\ Original \notin Attempts /\ None \notin Attempts
    BY Bounds DEF Original, None, Attempts
  <2> QED
    BY <2>1 DEF Init, RunInv, Untouched, Overlaps, Alone, OwnTasks, Calls, Kept, Running
<1>2. TypeInv /\ RunInv /\ [Next]_vars => RunInv'
  <2> SUFFICES ASSUME TypeInv, RunInv, [Next]_vars PROVE RunInv'
    OBVIOUS
  <2>1. CASE TraceRunner \/ TimesOut
    BY <2>1, WorkerRun
  <2>2. CASE InstrumenterRestart
    BY <2>2, RestartRun
  <2>3. ASSUME NEW k \in Popped, Instrument(k) \/ Run(k) PROVE RunInv'
    BY <2>3, InstrumentRun, LookUpRun, InstallRun, SpawnRun, UninstallRun, RespondRun DEF Run
  <2>4. CASE Discoverer \/ Eviction \/ UNCHANGED vars
    BY <2>4, RunIdle DEF Discoverer, Discover, PushFails, PushJob, Eviction, EvictScan,
         EvictSessions, vars, runVars, workVars, hookVars
  <2>5. CASE \E j \in Jobs : CacheExpires(j)
    BY <2>5, RunIdle DEF CacheExpires, runVars, hookVars
  <2>6. ASSUME NEW k \in Popped, SpecWritten(k) \/ Ages(k) PROVE RunInv'
    BY <2>6, RunIdle DEF SpecWritten, Ages, runVars, workVars, hookVars
  <2> QED
    BY <2>1, <2>2, <2>3, <2>4, <2>5, <2>6 DEF Next
<1> QED
  BY <1>1, <1>2, TypeHolds, PTL DEF Spec

(* In every run the trace of an attempt that overlapped no other tells of  *)
(* all tasks of its own entrypoint and of no other's, however the runs     *)
(* before it ended (install and uninstall in the instrumenter's trace.py). *)
THEOREM TraceOfOneRun == Spec => []TraceIsOwnRun
<1>1. TypeInv /\ RunInv => TraceIsOwnRun
  <2> SUFFICES ASSUME TypeInv, RunInv, NEW k \in emitted \ mixed
               PROVE  result[k] = OwnTasks(k)
    BY DEF TraceIsOwnRun, OwnTasks
  <2>1. k \in Attempts
    BY Bounds DEF TypeInv, TypeOK, Popped, Attempts
  <2> QED
    BY <2>1 DEF RunInv, Calls, Alone
<1> QED
  BY TypeHolds, RunHolds, <1>1, PTL

(* In every run asyncio has its own create_task back whenever no           *)
(* entrypoint runs, as long as no two ever ran at a time.                  *)
THEOREM AloneLeavesAsyncio == Spec => []AloneRestores
<1>1. RunInv => AloneRestores
  BY DEF RunInv, Kept, AloneRestores
<1> QED
  BY RunHolds, <1>1, PTL
=============================================================================
