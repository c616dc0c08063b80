------------------------------ MODULE TraceJobs ------------------------------
(***************************************************************************)
(* Tracing of Python entrypoints: the entrypoint-discoverer pushes jobs on *)
(* a Redis list, the trace-runner pops them one at a time and has the      *)
(* instrumenter run them, and the trace goes to stream:raw-traces.         *)
(*                                                                         *)
(* The trace-runner gives a job 30 seconds and then drops it; it cannot    *)
(* stop the instrumenter, whose handlers run in a thread pool without a    *)
(* limit of their own.  So a slow entrypoint is still running when the     *)
(* next one starts, in the same process: both replace asyncio.create_task, *)
(* and the eviction task of the event loop looks at both sessions.         *)
(*                                                                         *)
(* An attempt is one try at a job; it names its session too.               *)
(***************************************************************************)
EXTENDS Naturals, Sequences, FiniteSets

CONSTANTS
  Jobs,          \* entrypoints of the repository, by stable_id
  MAX_SESSIONS,  \* sessions the instrumenter admits
  MaxDiscovers,  \* bound: requests to /discover
  MaxAttempts,   \* bound: jobs popped
  MaxFaults      \* bound: crashes and failed calls

ASSUME JobsAssumption == IsFiniteSet(Jobs)
ASSUME TraceBounds == {MAX_SESSIONS, MaxDiscovers, MaxAttempts, MaxFaults} \subseteq Nat

Attempts == 1 .. MaxAttempts
None == 0             \* _original_create_task is None
Original == MaxAttempts + 1   \* the create_task of asyncio

VARIABLES
  traced,      \* entrypoints with a row in behavior_specs
  scored,      \* jobs /discover has still to push, by priority
  discovers,
  queue,       \* entrypoint_queue:<repo>
  worker,      \* what the trace-runner awaits
  current,     \* its attempt
  jobOf,       \* the jobs popped so far: attempt k is for jobOf[k]
  cache,       \* trace_cache:<commit>:*
  emitted,     \* attempts whose trace is in stream:raw-traces
  faults
VARIABLES
  call,        \* what the instrumenter does for each attempt
  sessions,    \* _sessions
  stamped,     \* _session_created_at
  old,         \* sessions created more than 60 seconds ago
  events,      \* the attempts whose tasks each session's events tell of
  result,      \* the events answered to /run
  createTask,  \* asyncio.create_task: Original, or the patch of a session
  saved,       \* _original_create_task
  evictor,     \* the eviction task
  spawned,     \* history: attempts whose entrypoint created a task
  mixed        \* history: attempts that did not run alone

jobVars == <<traced, scored, discovers, queue>>
workVars == <<worker, current, jobOf, cache, emitted>>
tableVars == <<sessions, stamped, old, evictor>>
hookVars == <<events, createTask, saved, spawned, mixed>>
vars == <<jobVars, workVars, tableVars, hookVars, call, result, faults>>

Popped == 1 .. Len(jobOf)
Calling == {"check", "register", "stamp", "lookup", "install", "run", "restore"}
Running == {k \in Attempts : call[k] \in {"run", "restore"}}
Waiting(k) == current = k /\ worker \in {"instrument", "running"}

TypeOK ==
  /\ traced \subseteq Jobs
  /\ scored \in [Jobs -> 0 .. 3]
  /\ discovers \in 0 .. MaxDiscovers
  /\ queue \in Seq(Jobs)
  /\ worker \in {"pop", "cached", "instrument", "running", "emit", "mark"}
  /\ jobOf \in Seq(Jobs) /\ Len(jobOf) <= MaxAttempts
  /\ current \in 0 .. Len(jobOf)
  /\ cache \subseteq Jobs
  /\ emitted \subseteq Popped
  /\ faults \in 0 .. MaxFaults
  /\ call \in [Attempts -> Calling \cup {"none", "ready", "failed", "answered", "gone"}]
  /\ sessions \subseteq Popped /\ stamped \subseteq Popped /\ old \subseteq stamped
  /\ events \in [Attempts -> SUBSET Popped]
  /\ result \in [Attempts -> SUBSET Popped]
  /\ createTask \in Attempts \cup {Original}
  /\ saved \in Attempts \cup {Original, None}
  /\ evictor \in {"sleep", "scan", "dead"}
  /\ spawned \subseteq Popped /\ mixed \subseteq Popped

Init ==
  /\ traced = {} /\ scored = [j \in Jobs |-> 0] /\ discovers = 0 /\ queue = <<>>
  /\ worker = "pop" /\ current = 0 /\ jobOf = <<>> /\ cache = {} /\ emitted = {}
  /\ faults = 0
  /\ call = [k \in Attempts |-> "none"]
  /\ sessions = {} /\ stamped = {} /\ old = {}
  /\ events = [k \in Attempts |-> {}] /\ result = [k \in Attempts |-> {}]
  /\ createTask = Original /\ saved = None
  /\ evictor = "sleep"
  /\ spawned = {} /\ mixed = {}

Fault == faults < MaxFaults /\ faults' = faults + 1

-----------------------------------------------------------------------------
(* Entrypoint-discoverer. *)

(* score_entrypoints: changed dependencies before never traced before the  *)
(* rest.                                                                   *)
Score(j, changed) ==
  IF j \notin traced THEN 2 ELSE IF j \in changed THEN 3 ELSE 1

(* It reads Neo4j and Postgres once, and then pushes. *)
Discover ==
  /\ discovers < MaxDiscovers
  /\ \A j \in Jobs : scored[j] = 0
  /\ discovers' = discovers + 1
  /\ \E active \in SUBSET Jobs, changed \in SUBSET traced :
       scored' = [j \in Jobs |-> IF j \in active THEN Score(j, changed) ELSE 0]
  /\ UNCHANGED <<traced, queue, workVars, tableVars, hookVars, call, result, faults>>

PushJob(j) ==
  /\ scored[j] > 0
  /\ \A i \in Jobs : scored[i] <= scored[j]
  /\ queue' = Append(queue, j)
  /\ scored' = [scored EXCEPT ![j] = 0]
  /\ UNCHANGED <<traced, discovers, workVars, tableVars, hookVars, call, result, faults>>

(* Redis raises: 500, and what was pushed stays pushed. *)
PushFails ==
  /\ \E j \in Jobs : scored[j] > 0
  /\ Fault
  /\ scored' = [j \in Jobs |-> 0]
  /\ UNCHANGED <<traced, discovers, queue, workVars, tableVars, hookVars, call, result>>

(* The trace reaches behavior_specs. *)
SpecWritten(k) ==
  /\ k \in emitted /\ jobOf[k] \notin traced
  /\ traced' = traced \cup {jobOf[k]}
  /\ UNCHANGED <<scored, discovers, queue, workVars, tableVars, hookVars, call, result, faults>>

-----------------------------------------------------------------------------
(* Trace-runner: run_worker and process_job. *)

PopJob ==
  /\ worker = "pop" /\ queue # <<>> /\ Len(jobOf) < MaxAttempts
  /\ queue' = Tail(queue)
  /\ jobOf' = Append(jobOf, Head(queue))
  /\ current' = Len(jobOf) + 1
  /\ worker' = "cached"
  /\ UNCHANGED <<traced, scored, discovers, cache, emitted, tableVars, hookVars, call,
                 result, faults>>

Job == jobOf[current]

(* Mutant of CheckCache: the cache is never asked. *)
CheckNothing ==
  /\ worker = "cached"
  /\ worker' = "instrument" /\ call' = [call EXCEPT ![current] = "check"]
  /\ UNCHANGED <<jobVars, current, jobOf, cache, emitted, tableVars, hookVars, result, faults>>

CheckCache ==
  /\ worker = "cached"
  /\ IF Job \in cache
       THEN worker' = "pop" /\ UNCHANGED call
       ELSE worker' = "instrument" /\ call' = [call EXCEPT ![current] = "check"]
  /\ UNCHANGED <<jobVars, current, jobOf, cache, emitted, tableVars, hookVars, result, faults>>

Instrumented ==
  /\ worker = "instrument" /\ call[current] = "ready"
  /\ worker' = "running"
  /\ call' = [call EXCEPT ![current] = "lookup"]
  /\ UNCHANGED <<jobVars, current, jobOf, cache, emitted, tableVars, hookVars, result, faults>>

(* 404, 500 or 503 from the instrumenter: the job is over. *)
CallFailed ==
  /\ worker \in {"instrument", "running"} /\ call[current] \in {"failed", "gone"}
  /\ worker' = "pop"
  /\ UNCHANGED <<jobVars, current, jobOf, cache, emitted, tableVars, hookVars, call, result, faults>>

(* Mutant of Answered: the job is marked before its trace is emitted. *)
AnsweredMarks ==
  /\ worker = "running" /\ call[current] = "answered"
  /\ worker' = "emit"
  /\ cache' = cache \cup {Job}
  /\ UNCHANGED <<jobVars, current, jobOf, emitted, tableVars, hookVars, call, result, faults>>

Answered ==
  /\ worker = "running" /\ call[current] = "answered"
  /\ worker' = "emit"
  /\ UNCHANGED <<jobVars, current, jobOf, cache, emitted, tableVars, hookVars, call, result, faults>>

Emit ==
  /\ worker = "emit"
  /\ emitted' = emitted \cup {current}
  /\ worker' = "mark"
  /\ UNCHANGED <<jobVars, current, jobOf, cache, tableVars, hookVars, call, result, faults>>

MarkCached ==
  /\ worker = "mark"
  /\ cache' = cache \cup {Job}
  /\ worker' = "pop"
  /\ UNCHANGED <<jobVars, current, jobOf, emitted, tableVars, hookVars, call, result, faults>>

(* A cancelled request may never have reached the instrumenter, and a      *)
(* cancelled command of Redis may have been executed.                      *)
Cancelled ==
  /\ emitted' \in {emitted, IF worker = "emit" THEN emitted \cup {current} ELSE emitted}
  /\ cache' \in {cache, IF worker = "mark" THEN cache \cup {Job} ELSE cache}
  /\ call' \in {call, IF call[current] \in {"check", "lookup"}
                        THEN [call EXCEPT ![current] = "gone"] ELSE call}

(* Mutant of TimesOut: a call to the instrumenter is waited for. *)
TimesOutLater ==
  /\ worker \in {"cached", "emit", "mark"}
  /\ worker' = "pop" /\ Cancelled
  /\ UNCHANGED <<jobVars, current, jobOf, tableVars, hookVars, result, faults>>

(* asyncio.wait_for cancels the job wherever it is, Redis raises, or the   *)
(* trace-runner is restarted.                                              *)
TimesOut ==
  /\ worker # "pop"
  /\ worker' = "pop" /\ Cancelled
  /\ UNCHANGED <<jobVars, current, jobOf, tableVars, hookVars, result, faults>>

(* The key lives 24 hours, of which no job sees the end. *)
CacheExpires(j) ==
  /\ worker = "pop" /\ j \in cache
  /\ cache' = cache \ {j}
  /\ UNCHANGED <<jobVars, worker, current, jobOf, emitted, tableVars, hookVars, call,
                 result, faults>>

-----------------------------------------------------------------------------
(* Instrumenter: POST /instrument and POST /run, each in its own thread.   *)

Moves(k, from, to) == call[k] = from /\ call' = [call EXCEPT ![k] = to]

(* A change of _session_created_at while the comprehension of the eviction *)
(* task iterates over it may raise there, which ends the task for good.    *)
Disturbs == evictor' \in {evictor, IF evictor = "scan" THEN "dead" ELSE evictor}

CheckRoom(k) ==
  /\ IF Cardinality(sessions) >= MAX_SESSIONS THEN Moves(k, "check", "failed")
                                              ELSE Moves(k, "check", "register")
  /\ UNCHANGED <<jobVars, workVars, tableVars, hookVars, result, faults>>

Register(k) ==
  /\ Moves(k, "register", "stamp")
  /\ sessions' = sessions \cup {k}
  /\ UNCHANGED <<jobVars, workVars, stamped, old, evictor, hookVars, result, faults>>

Stamp(k) ==
  /\ Moves(k, "stamp", "ready")
  /\ stamped' = stamped \cup {k}
  /\ Disturbs
  /\ UNCHANGED <<jobVars, workVars, sessions, old, hookVars, result, faults>>

(* 404 without the session, 500 when the module does not load. *)
LookUpSession(k) ==
  /\ \/ k \in sessions /\ Moves(k, "lookup", "install")
     \/ Moves(k, "lookup", "failed")
  /\ UNCHANGED <<jobVars, workVars, tableVars, hookVars, result, faults>>

InstallHooks(k) ==
  /\ Moves(k, "install", "run")
  /\ saved' = createTask
  /\ createTask' = k
  /\ mixed' = IF Running = {} THEN mixed ELSE mixed \cup Running \cup {k}
  /\ UNCHANGED <<jobVars, workVars, tableVars, events, spawned, result, faults>>

(* Mutant of Recorded: the sessions share one list of events. *)
RecordedInAll(k, lists) == [i \in Attempts |-> events[i] \cup {k}]

(* The sessions whose patch is called append an event. *)
Recorded(k, lists) == [i \in Attempts |-> IF i \in lists THEN events[i] \cup {k} ELSE events[i]]

(* The entrypoint calls asyncio.create_task.  A patch appends its event    *)
(* and calls what the global _original_create_task holds by now: nothing   *)
(* (TypeError), or a patch, which then calls itself (RecursionError).      *)
SpawnTask(k) ==
  /\ call[k] = "run"
  /\ spawned' = spawned \cup {k}
  /\ events' = Recorded(k, IF createTask = Original THEN {} ELSE {createTask, saved})
  /\ UNCHANGED <<jobVars, workVars, tableVars, createTask, saved, mixed, call, result, faults>>

(* Mutant of Uninstall: the hooks stay when the entrypoint raises. *)
UninstallReturned(k) ==
  /\ \/ /\ Moves(k, "run", "restore")
        /\ createTask' = IF saved = None THEN createTask ELSE saved
        /\ saved' = None
     \/ Moves(k, "run", "failed") /\ UNCHANGED <<createTask, saved>>
  /\ UNCHANGED <<jobVars, workVars, tableVars, events, spawned, mixed, result, faults>>

(* Mutant of Uninstall: None is restored like anything else. *)
UninstallAlways(k) ==
  /\ Moves(k, "run", "restore") \/ Moves(k, "run", "failed")
  /\ createTask' = saved
  /\ saved' = None
  /\ UNCHANGED <<jobVars, workVars, tableVars, events, spawned, mixed, result, faults>>

(* The entrypoint returns, or raises; it may also run for ever.            *)
Uninstall(k) ==
  /\ Moves(k, "run", "restore") \/ Moves(k, "run", "failed")
  /\ createTask' = IF saved = None THEN createTask ELSE saved
  /\ saved' = None
  /\ UNCHANGED <<jobVars, workVars, tableVars, events, spawned, mixed, result, faults>>

(* Mutant of Respond: the session stays in the tables. *)
RespondKeeps(k) ==
  /\ Moves(k, "restore", "answered")
  /\ result' = [result EXCEPT ![k] = events[k]]
  /\ stamped' = stamped \ {k}
  /\ old' = old \ {k}
  /\ Disturbs
  /\ UNCHANGED <<jobVars, workVars, sessions, hookVars, faults>>

Respond(k) ==
  /\ Moves(k, "restore", "answered")
  /\ result' = [result EXCEPT ![k] = events[k]]
  /\ sessions' = sessions \ {k}
  /\ stamped' = stamped \ {k}
  /\ old' = old \ {k}
  /\ Disturbs
  /\ UNCHANGED <<jobVars, workVars, hookVars, faults>>

(* 60 seconds are longer than the trace-runner waits for a session. *)
Ages(k) ==
  /\ k \in stamped \ old /\ ~Waiting(k)
  /\ old' = old \cup {k}
  /\ UNCHANGED <<jobVars, workVars, sessions, stamped, evictor, hookVars, call,
                 result, faults>>

(* Every 30 seconds, whether or not a session is old enough: it walks the  *)
(* table, which a handler may change under it; an empty one ends the walk  *)
(* at once.                                                                *)
EvictScan ==
  /\ evictor = "sleep" /\ stamped # {}
  /\ evictor' = "scan"
  /\ UNCHANGED <<jobVars, workVars, sessions, stamped, old, hookVars, call, result, faults>>

(* It removes the sessions it listed; a handler in between changes nothing *)
(* of that.                                                                *)
EvictSessions ==
  /\ evictor = "scan"
  /\ evictor' = "sleep"
  /\ sessions' = sessions \ old
  /\ stamped' = stamped \ old
  /\ old' = {}
  /\ UNCHANGED <<jobVars, workVars, hookVars, call, result, faults>>

(* The process is restarted: everything it had in memory is gone. *)
InstrumenterRestart ==
  /\ Fault
  /\ sessions' = {} /\ stamped' = {} /\ old' = {} /\ evictor' = "sleep"
  /\ createTask' = Original /\ saved' = None
  /\ call' = [k \in Attempts |-> IF call[k] \in Calling THEN "gone" ELSE call[k]]
  /\ UNCHANGED <<jobVars, workVars, events, spawned, mixed, result>>

-----------------------------------------------------------------------------
Discoverer == Discover \/ PushFails \/ \E j \in Jobs : PushJob(j)
TraceRunner ==
  PopJob \/ CheckCache \/ Instrumented \/ CallFailed \/ Answered \/ Emit \/ MarkCached
Instrument(k) == CheckRoom(k) \/ Register(k) \/ Stamp(k)
Run(k) == LookUpSession(k) \/ InstallHooks(k) \/ SpawnTask(k) \/ Uninstall(k) \/ Respond(k)
Eviction == EvictScan \/ EvictSessions

Next ==
  \/ Discoverer \/ TraceRunner \/ TimesOut \/ Eviction \/ InstrumenterRestart
  \/ \E j \in Jobs : CacheExpires(j)
  \/ \E k \in Popped : SpecWritten(k) \/ Instrument(k) \/ Run(k) \/ Ages(k)

Spec == Init /\ [][Next]_vars

(* The worker and the eviction task loop for ever, time goes by, and the   *)
(* handler of /instrument runs; nothing makes an entrypoint end, nor its   *)
(* module load.                                                            *)
Fairness ==
  /\ WF_vars(TraceRunner) /\ WF_vars(TimesOut) /\ WF_vars(Eviction)
  /\ \A k \in Attempts : /\ WF_vars(k \in Popped /\ Instrument(k))
                         /\ WF_vars(k \in Popped /\ Ages(k))
FairSpec == Spec /\ Fairness

-----------------------------------------------------------------------------
(* A cached job has its trace in the stream: a job that was dropped, timed *)
(* out or failed half-way is never skipped by the next one as done.        *)
CachedWasEmitted == \A j \in cache : \E k \in emitted : jobOf[k] = j

(* A job popped again is not traced again while its key lives, whatever    *)
(* discoveries queued it twice and whatever runs are still under way.      *)
NoSecondTrace == [][\A k \in emitted' \ emitted : jobOf[k] \notin cache]_vars

(* The trace of an attempt that ran alone tells of the tasks of its own    *)
(* entrypoint, all of them and no others, even after overlapping runs left *)
(* the patch of another session behind.                                    *)
TraceIsOwnRun ==
  \A k \in emitted \ mixed : result[k] = IF k \in spawned THEN {k} ELSE {}

(* Unless runs overlapped, asyncio is as it was once no entrypoint runs.   *)
AloneRestores ==
  (\A k \in Attempts : call[k] # "run") => createTask = Original \/ mixed # {}

(* "Restore original asyncio.create_task and asyncio.gather" (trace.py).   *)
(* False: two runs that overlap restore each other's patch.                *)
HooksRestored == (\A k \in Attempts : call[k] # "run") => createTask = Original

(* The queue is worked off although any entrypoint may run for ever.       *)
JobsTaken == queue # <<>> ~> queue = <<>> \/ Len(jobOf) = MaxAttempts

(* No session stays, however its run ended or never came, as long as the   *)
(* eviction task lives.                                                    *)
SessionsReclaimed == \A k \in Attempts : k \in sessions ~> k \notin sessions \/ evictor = "dead"
=============================================================================
