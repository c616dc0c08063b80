----------------------------- MODULE PendingRefs -----------------------------
(***************************************************************************)
(* The symbol-resolver and its retry queue pending_refs:<repo>, a Redis    *)
(* list.                                                                   *)
(*                                                                         *)
(* A reference is one imported name of one import statement.  A worker     *)
(* takes a parsed file from the stream, tries to write the IMPORTS edge of *)
(* each of its references, queues the ones it cannot write yet, and then   *)
(* retries the whole queue: it reads and deletes the list in one           *)
(* transaction, and pushes back what still does not resolve with its       *)
(* attempt counted.  Workers are the replicas of the service; they share   *)
(* the list and nothing else.                                              *)
(*                                                                         *)
(* A reference resolves when both its import node and its target are in    *)
(* Neo4j, which the graph-writer decides: here the environment.            *)
(***************************************************************************)
EXTENDS Naturals, Sequences

CONSTANTS
  Workers,      \* replicas of the symbol-resolver
  Refs,         \* references
  Plain,        \* those of "import X" statements: package edges, not retried
  MAX_ATTEMPTS, \* 5 in the code
  MaxChanges,   \* bound: times Neo4j changes and times 24 hours pass
  MaxFaults     \* bound: exceptions and crashes

ASSUME PlainAssumption == Plain \subseteq Refs
ASSUME AttemptsAssumption == MAX_ATTEMPTS \in Nat
ASSUME BoundsAssumption == MaxChanges \in Nat /\ MaxFaults \in Nat

VARIABLES
  unseen,      \* references of files no worker has taken yet
  pc,          \* what each worker is doing
  todo,        \* references of its file it has still to try
  batch,       \* entries it took from the list and has still to retry
  queue,       \* pending_refs:<repo>
  resolvable,  \* references whose two nodes are in Neo4j
  written,     \* references whose edge has been written
  dropped,     \* expired entries, and package edges that could not be written
  lost,        \* references an exception or a crash took
  tries,       \* history: retries of each reference that found no row
  aged,        \* history: references that have waited 24 hours unretried
  changes,
  faults

vars == <<unseen, pc, todo, batch, queue, resolvable, written, dropped, lost, tries, aged,
          changes, faults>>

Entries == [ref : Refs, attempt_count : Nat, old : BOOLEAN]
RefsIn(q) == {q[i].ref : i \in DOMAIN q}

TypeOK ==
  /\ unseen \subseteq Refs
  /\ pc \in [Workers -> {"idle", "imports", "retry", "requeue"}]
  /\ todo \in [Workers -> SUBSET Refs]
  /\ batch \in [Workers -> Seq(Entries)]
  /\ queue \in Seq(Entries)
  /\ resolvable \subseteq Refs
  /\ written \subseteq Refs /\ dropped \subseteq Refs /\ lost \subseteq Refs
  /\ tries \in [Refs -> Nat]
  /\ aged \subseteq Refs
  /\ changes \in 0 .. MaxChanges /\ faults \in 0 .. MaxFaults

Init ==
  /\ unseen = Refs
  /\ pc = [w \in Workers |-> "idle"]
  /\ todo = [w \in Workers |-> {}]
  /\ batch = [w \in Workers |-> <<>>]
  /\ queue = <<>>
  /\ resolvable = {} /\ written = {} /\ dropped = {} /\ lost = {}
  /\ tries = [r \in Refs |-> 0] /\ aged = {}
  /\ changes = 0 /\ faults = 0

-----------------------------------------------------------------------------
Change == changes < MaxChanges /\ changes' = changes + 1
Fault == faults < MaxFaults /\ faults' = faults + 1
Goto(w, label) == pc' = [pc EXCEPT ![w] = label]

(* The nodes of a reference appear, or its target is tombstoned. *)
Neo4jChanges(r) ==
  /\ Change
  /\ resolvable' \in {resolvable \cup {r}, resolvable \ {r}}
  /\ UNCHANGED <<unseen, pc, todo, batch, queue, written, dropped, lost, tries, aged, faults>>

(* More than PENDING_TTL goes by without a file of this repository. *)
DayPasses ==
  /\ Change
  /\ queue' = [i \in DOMAIN queue |-> [queue[i] EXCEPT !.old = TRUE]]
  /\ aged' = aged \cup RefsIn(queue)
  /\ UNCHANGED <<unseen, pc, todo, batch, resolvable, written, dropped, lost, tries, faults>>

(* A parsed file arrives, with some references or none.  A file parsed     *)
(* again sends its references again, and the list may then hold an import  *)
(* twice: those are two references here, each with its own attempts.       *)
Take(w, S) ==
  /\ pc[w] = "idle"
  /\ S \subseteq unseen
  /\ unseen' = unseen \ S
  /\ todo' = [todo EXCEPT ![w] = S]
  /\ Goto(w, "imports")
  /\ UNCHANGED <<batch, queue, resolvable, written, dropped, lost, tries, aged, changes, faults>>

(* parse_import_body: "from" imports name a symbol of the repository, plain *)
(* ones a package. *)
FromImport(r) == r \notin Plain

(* One reference of the file: write its edge, else queue it; a package     *)
(* edge that cannot be written is given up.                                *)
TryImport(w, r) ==
  /\ pc[w] = "imports" /\ r \in todo[w]
  /\ todo' = [todo EXCEPT ![w] = @ \ {r}]
  /\ \/ /\ r \in resolvable
        /\ written' = written \cup {r}
        /\ UNCHANGED <<queue, dropped>>
     \/ /\ r \notin resolvable /\ ~FromImport(r)
        /\ dropped' = dropped \cup {r}
        /\ UNCHANGED <<queue, written>>
     \/ /\ r \notin resolvable /\ FromImport(r)
        /\ queue' = Append(queue, [ref |-> r, attempt_count |-> 0, old |-> FALSE])
        /\ UNCHANGED <<written, dropped>>
  /\ UNCHANGED <<unseen, pc, batch, resolvable, lost, tries, aged, changes, faults>>

(* Mutant of FetchAll: a list of one entry is taken for an empty one. *)
FetchSeveral(w) ==
  /\ pc[w] = "imports" /\ todo[w] = {}
  /\ IF Len(queue) > 1
       THEN batch' = [batch EXCEPT ![w] = queue] /\ queue' = <<>>
       ELSE UNCHANGED <<batch, queue>>
  /\ Goto(w, "retry")
  /\ UNCHANGED <<unseen, todo, resolvable, written, dropped, lost, tries, aged, changes, faults>>

(* LRANGE and DEL in one MULTI: the worker owns the whole list. *)
FetchAll(w) ==
  /\ pc[w] = "imports" /\ todo[w] = {}
  /\ batch' = [batch EXCEPT ![w] = queue]
  /\ queue' = <<>>
  /\ Goto(w, "retry")
  /\ UNCHANGED <<unseen, todo, resolvable, written, dropped, lost, tries, aged, changes, faults>>

(* Mutant of Expired: the last attempt is not made. *)
ExpiredEarly(entry) == entry.attempt_count >= MAX_ATTEMPTS \/ entry.old

(* _is_expired: more than MAX_ATTEMPTS attempts, or older than PENDING_TTL. *)
Expired(entry) == entry.attempt_count > MAX_ATTEMPTS \/ entry.old

Retrying(w) == pc[w] = "retry" /\ batch[w] # <<>>
Current(w) == Head(batch[w])
NextEntry(w) == batch' = [batch EXCEPT ![w] = Tail(@)]

RetryExpired(w) ==
  /\ Retrying(w) /\ Expired(Current(w))
  /\ dropped' = dropped \cup {Current(w).ref}
  /\ NextEntry(w)
  /\ UNCHANGED <<unseen, pc, todo, queue, resolvable, written, lost, tries, aged, changes, faults>>

RetryResolves(w) ==
  /\ Retrying(w) /\ ~Expired(Current(w))
  /\ Current(w).ref \in resolvable
  /\ written' = written \cup {Current(w).ref}
  /\ NextEntry(w)
  /\ UNCHANGED <<unseen, pc, todo, queue, resolvable, dropped, lost, tries, aged, changes, faults>>

(* Mutant of Counted: the attempt is forgotten. *)
NotCounted(entry) ==
  [ref |-> entry.ref, attempt_count |-> entry.attempt_count, old |-> FALSE]

(* Mutant of Counted: attempts are counted down. *)
CountedDown(entry) ==
  [ref |-> entry.ref, attempt_count |-> entry.attempt_count - 1, old |-> FALSE]

(* attempt_count + 1, and attempted_at is now. *)
Counted(entry) ==
  [ref |-> entry.ref, attempt_count |-> entry.attempt_count + 1, old |-> FALSE]

RetryMisses(w) ==
  /\ Retrying(w) /\ ~Expired(Current(w))
  /\ Current(w).ref \notin resolvable
  /\ queue' = Append(queue, Counted(Current(w)))
  /\ tries' = [tries EXCEPT ![Current(w).ref] = @ + 1]
  /\ NextEntry(w)
  /\ UNCHANGED <<unseen, pc, todo, resolvable, written, dropped, lost, aged, changes, faults>>

(* Neo4j raises: this entry and the rest go back as they were, one RPUSH   *)
(* at a time.  Had the edge been written before the exception, the retry   *)
(* would MERGE the same edge: "written" means the worker knows of it.      *)
RetryRaises(w) ==
  /\ Retrying(w) /\ ~Expired(Current(w))
  /\ Fault
  /\ Goto(w, "requeue")
  /\ UNCHANGED <<unseen, todo, batch, queue, resolvable, written, dropped, lost, tries, aged, changes>>

(* Mutant of Requeue: it starts after the entry that raised. *)
RequeueRest(w) ==
  /\ pc[w] = "requeue" /\ batch[w] # <<>>
  /\ queue' = queue \o Tail(batch[w])
  /\ batch' = [batch EXCEPT ![w] = <<>>]
  /\ UNCHANGED <<unseen, pc, todo, resolvable, written, dropped, lost, tries, aged, changes, faults>>

Requeue(w) ==
  /\ pc[w] = "requeue" /\ batch[w] # <<>>
  /\ queue' = Append(queue, Current(w))
  /\ NextEntry(w)
  /\ UNCHANGED <<unseen, pc, todo, resolvable, written, dropped, lost, tries, aged, changes, faults>>

(* The batch is finished; the event is acknowledged. *)
Finish(w) ==
  /\ pc[w] \in {"retry", "requeue"} /\ batch[w] = <<>>
  /\ Goto(w, "idle")
  /\ UNCHANGED <<unseen, todo, batch, queue, resolvable, written, dropped, lost, tries, aged, changes, faults>>

(* Neo4j raises on an import, Redis raises on a push, or the process dies. *)
(* The event is acknowledged or never delivered again, so what the worker  *)
(* held is gone.                                                           *)
GiveUp(w) ==
  /\ pc[w] # "idle"
  /\ Fault
  /\ lost' = lost \cup todo[w] \cup RefsIn(batch[w])
  /\ todo' = [todo EXCEPT ![w] = {}]
  /\ batch' = [batch EXCEPT ![w] = <<>>]
  /\ Goto(w, "idle")
  /\ UNCHANGED <<unseen, queue, resolvable, written, dropped, tries, aged, changes>>

Work(w) ==
  \/ \E r \in todo[w] : TryImport(w, r)
  \/ FetchAll(w)
  \/ RetryExpired(w) \/ RetryResolves(w) \/ RetryMisses(w)
  \/ Requeue(w) \/ Finish(w)

Next ==
  \/ \E r \in Refs : Neo4jChanges(r)
  \/ DayPasses
  \/ \E w \in Workers :
       \/ \E S \in SUBSET unseen : Take(w, S)
       \/ Work(w) \/ RetryRaises(w) \/ GiveUp(w)

Spec == Init /\ [][Next]_vars

(* Files keep being indexed, and a worker that has one keeps working.      *)
Fairness == \A w \in Workers : /\ WF_vars(\E S \in SUBSET unseen : Take(w, S))
                               /\ WF_vars(Work(w))
FairSpec == Spec /\ Fairness

-----------------------------------------------------------------------------
(* Properties.                                                             *)

(* Every reference is in exactly one place: no interleaving of replicas,   *)
(* retries, exceptions and re-queues duplicates one or lets one vanish     *)
(* without a fault.                                                        *)
NoRepeats(q) == \A i, j \in DOMAIN q : q[i].ref = q[j].ref => i = j
NoneTwiceInAQueue == NoRepeats(queue) /\ \A w \in Workers : NoRepeats(batch[w])

Places == ({"unseen", "queue", "written", "dropped", "lost"} \X {"shared"})
            \cup ({"todo", "batch"} \X Workers)
Holds(p, r) ==
  \/ p[1] = "unseen"  /\ r \in unseen
  \/ p[1] = "queue"   /\ r \in RefsIn(queue)
  \/ p[1] = "written" /\ r \in written
  \/ p[1] = "dropped" /\ r \in dropped
  \/ p[1] = "lost"    /\ r \in lost
  \/ p[1] = "todo"    /\ r \in todo[p[2]]
  \/ p[1] = "batch"   /\ r \in RefsIn(batch[p[2]])
InOnePlace ==
  /\ NoneTwiceInAQueue
  /\ \A r \in Refs : \E p \in Places : {h \in Places : Holds(h, r)} = {p}

(* A from-import is dropped only after MAX_ATTEMPTS + 1 retries found      *)
(* nothing, or after a day without a retry.                                *)
DroppedOnlyExpired ==
  \A r \in dropped \ Plain : tries[r] > MAX_ATTEMPTS \/ r \in aged

(* No reference is retried more often than that.                           *)
RetriesBounded == \A r \in Refs : tries[r] <= MAX_ATTEMPTS + 1

(* As long as files keep being indexed, the queue does not keep anything   *)
(* for ever.                                                               *)
QueueDrains == \A r \in Refs : (r \in RefsIn(queue)) ~> (r \in written \cup dropped \cup lost)
=============================================================================
