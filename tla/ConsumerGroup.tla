---------------------------- MODULE ConsumerGroup ----------------------------
(***************************************************************************)
(* The consumer loop every stream consumer of the system runs, over a      *)
(* Redis stream read through a consumer group.                             *)
(*                                                                         *)
(* An entry is identified by its position in the stream.  The group keeps  *)
(* the last delivered position and the pending entries list (PEL); a loop  *)
(* asks only for ">" (never-delivered) entries, so it receives the next    *)
(* positions in one block, kept here as the interval pos..end.             *)
(*                                                                         *)
(* The services differ in what they do with an entry whose handler raises: *)
(*   shared base class               bad "dlq"   error "keep"              *)
(*   embedder, graph-/vector-writer  bad "ack"   error "keep"              *)
(*   parser                          bad "keep"  error "keep"              *)
(*   symbol-resolver                 bad "ack"   error "ack"               *)
(* and deferred is TRUE where the handler only buffers and the write       *)
(* happens in post_batch (graph-enricher).  Which service is looked at is  *)
(* chosen at the start and never changes.                                  *)
(***************************************************************************)
EXTENDS Naturals

CONSTANTS
  Consumers,   \* the replicas of one service, each with its own consumer name
  Count,       \* entries asked for by one XREADGROUP
  Policies,    \* the policies of the services under consideration
  MaxEntries,  \* bound: entries ever published
  MaxFaults    \* bound: crashes and failed Redis calls

ASSUME CountAssumption == Count \in Nat \ {0}
ASSUME PolicyAssumption ==
  Policies \subseteq [bad : {"dlq", "ack", "keep"},   \* KeyError, ValueError, ValidationError
                     error : {"ack", "keep"},        \* any other exception
                     deferred : BOOLEAN]             \* post_batch writes
ASSUME BoundAssumption == MaxEntries \in Nat /\ MaxFaults \in Nat

VARIABLES
  policy,     \* the policy of the service
  len,        \* length of the stream
  bad,        \* positions whose payload the handler rejects
  last,       \* the group's last-delivered position
  pel,        \* delivered and not acknowledged
  pc,         \* where each loop is
  pos,        \* the entry each loop is working on ...
  end,        \* ... and the last one of its batch
  buffer,     \* handled entries waiting for post_batch, in process memory
  attempts,   \* how many times the handler was called on an entry
  applied,    \* entries whose writes are complete
  dlq,        \* entries copied to <stream>-dlq
  failed,     \* entries whose handler or batch write raised
  dropped,    \* entries a crash or a failed Redis call took from a loop
  faults

loopVars == <<pc, pos, end, buffer>>
vars == <<policy, len, bad, last, pel, pc, pos, end, buffer, attempts, applied, dlq,
          failed, dropped, faults>>

BadFate == policy.bad
ErrorFate == policy.error
Deferred == policy.deferred

Entries == 1 .. MaxEntries
Working == {"handle", "ack", "dlq", "xack"}

TypeOK ==
  /\ policy \in Policies
  /\ len \in 0 .. MaxEntries
  /\ bad \subseteq Entries
  /\ last \in 0 .. len
  /\ pel \subseteq 1 .. last
  /\ pc \in [Consumers -> Working \cup {"read", "post", "down"}]
  /\ pos \in [Consumers -> Nat]
  /\ end \in [Consumers -> Nat]
  /\ buffer \in [Consumers -> SUBSET Entries]
  /\ attempts \in [Entries -> Nat]
  /\ applied \subseteq Entries
  /\ dlq \subseteq Entries
  /\ failed \subseteq Entries
  /\ dropped \subseteq Entries
  /\ faults \in 0 .. MaxFaults

Init ==
  /\ policy \in Policies
  /\ len = 0 /\ bad = {} /\ last = 0 /\ pel = {}
  /\ pc = [c \in Consumers |-> "read"]
  /\ pos = [c \in Consumers |-> 0]
  /\ end = [c \in Consumers |-> 0]
  /\ buffer = [c \in Consumers |-> {}]
  /\ attempts = [i \in Entries |-> 0]
  /\ applied = {} /\ dlq = {} /\ failed = {} /\ dropped = {}
  /\ faults = 0

-----------------------------------------------------------------------------
(* The batch of a loop: the entries it has not finished. *)
InHand(c) == IF pc[c] \in Working THEN pos[c] .. end[c] ELSE {}

Goto(c, label) == pc' = [pc EXCEPT ![c] = label] /\ UNCHANGED <<pos, end>>

(* Mutant of Advance: off by one at the end of the batch. *)
AdvancePastBatch(c) ==
  IF pos[c] <= end[c]
    THEN /\ pos' = [pos EXCEPT ![c] = @ + 1]
         /\ pc' = [pc EXCEPT ![c] = "handle"]
         /\ UNCHANGED end
    ELSE Goto(c, "post")

(* The for loop moves to the next entry of the batch, or leaves it. *)
Advance(c) ==
  IF pos[c] < end[c]
    THEN /\ pos' = [pos EXCEPT ![c] = @ + 1]
         /\ pc' = [pc EXCEPT ![c] = "handle"]
         /\ UNCHANGED end
    ELSE Goto(c, "post")

Fault == faults < MaxFaults /\ faults' = faults + 1

(* An exception that leaves the for loop: the outer except logs it and the *)
(* loop reads again, so the rest of the batch is never handled and         *)
(* post_batch is not called.                                               *)
Abort(c, from) ==
  /\ Fault
  /\ dropped' = dropped \cup (from .. end[c])
  /\ Goto(c, "read")

-----------------------------------------------------------------------------
Publish ==
  /\ len < MaxEntries
  /\ len' = len + 1
  /\ bad' \in {bad, bad \cup {len + 1}}
  /\ UNCHANGED <<last, pel, loopVars, attempts, applied, dlq, failed, dropped, faults>>

(* The group hands out the next entries, at most Count of them. *)
Deliver(c, n) ==
  /\ pc[c] = "read"
  /\ n \in 1 .. Count /\ n <= len - last
  /\ n < Count => n = len - last
  /\ last' = last + n
  /\ pel' = pel \cup (last + 1 .. last + n)
  /\ UNCHANGED <<len, bad, buffer, attempts, applied, dlq, failed>>

Read(c, n) ==
  /\ Deliver(c, n)
  /\ pos' = [pos EXCEPT ![c] = last + 1]
  /\ end' = [end EXCEPT ![c] = last + n]
  /\ pc' = [pc EXCEPT ![c] = "handle"]
  /\ UNCHANGED <<dropped, faults>>

(* The reply of XREADGROUP is lost: the entries are in the PEL, the loop   *)
(* never saw them.                                                         *)
ReadReplyLost(c, n) ==
  /\ Deliver(c, n)
  /\ Fault
  /\ dropped' = dropped \cup (last + 1 .. last + n)
  /\ UNCHANGED <<pc, pos, end>>

Calls(c) ==
  /\ pc[c] = "handle"
  /\ attempts' = [attempts EXCEPT ![pos[c]] = @ + 1]
  /\ UNCHANGED <<len, bad, last, pel, dlq, dropped, faults>>

(* The handler returns.  Applied stands for all it means to do: the node   *)
(* consumer of the graph-writer also returns, having written nothing, when *)
(* its cache misses; IndexPipeline keeps that apart (LookUpMisses).        *)
HandleOk(c) ==
  /\ Calls(c)
  /\ pos[c] \notin bad
  /\ Goto(c, "ack")
  /\ IF Deferred
       THEN /\ buffer' = [buffer EXCEPT ![c] = @ \cup {pos[c]}]
            /\ UNCHANGED applied
       ELSE applied' = applied \cup {pos[c]} /\ UNCHANGED buffer
  /\ UNCHANGED failed

HandleBad(c) ==
  /\ Calls(c)
  /\ pos[c] \in bad
  /\ CASE BadFate = "dlq"  -> Goto(c, "dlq")
       [] BadFate = "ack"  -> Goto(c, "xack")
       [] BadFate = "keep" -> Advance(c)
  /\ UNCHANGED <<buffer, applied, failed>>

(* Mutant of HandleError: every exception is acknowledged. *)
HandleErrorAcks(c) ==
  /\ Calls(c)
  /\ pos[c] \notin bad
  /\ failed' = failed \cup {pos[c]}
  /\ Goto(c, "xack")
  /\ UNCHANGED <<buffer, applied>>

(* Neo4j, Qdrant, Postgres or the provider is unreachable. *)
HandleError(c) ==
  /\ Calls(c)
  /\ pos[c] \notin bad
  /\ failed' = failed \cup {pos[c]}
  /\ IF ErrorFate = "ack" THEN Goto(c, "xack") ELSE Advance(c)
  /\ UNCHANGED <<buffer, applied>>

(* Mutant of DlqAdd: the XACK after the dead letter is forgotten. *)
DlqAddNoAck(c) ==
  /\ pc[c] = "dlq"
  /\ dlq' = dlq \cup {pos[c]}
  /\ Advance(c)
  /\ UNCHANGED <<len, bad, last, pel, buffer, attempts, applied, failed, dropped, faults>>

DlqAdd(c) ==
  /\ pc[c] = "dlq"
  /\ dlq' = dlq \cup {pos[c]}
  /\ Goto(c, "xack")
  /\ UNCHANGED <<len, bad, last, pel, buffer, attempts, applied, failed, dropped, faults>>

(* A failed call may have taken effect in Redis with only the reply lost.  *)
DlqAddFails(c) ==
  /\ pc[c] = "dlq"
  /\ Abort(c, pos[c])
  /\ dlq' \in {dlq, dlq \cup {pos[c]}}
  /\ UNCHANGED <<len, bad, last, pel, buffer, attempts, applied, failed>>

(* Mutant of Ack: it acknowledges another entry. *)
AckOffByOne(c) ==
  /\ pc[c] \in {"ack", "xack"}
  /\ pel' = pel \ {pos[c] + 1}
  /\ Advance(c)
  /\ UNCHANGED <<len, bad, last, buffer, attempts, applied, dlq, failed, dropped, faults>>

(* XACK inside the try ("ack") or inside an except clause ("xack"). *)
Ack(c) ==
  /\ pc[c] \in {"ack", "xack"}
  /\ pel' = pel \ {pos[c]}
  /\ Advance(c)
  /\ UNCHANGED <<len, bad, last, buffer, attempts, applied, dlq, failed, dropped, faults>>

(* Inside the try a failing XACK is one more exception of the entry. *)
AckFails(c) ==
  /\ pc[c] = "ack"
  /\ Fault
  /\ pel' \in {pel, pel \ {pos[c]}}
  /\ dropped' = dropped \cup {pos[c]}
  /\ IF ErrorFate = "ack" THEN Goto(c, "xack") ELSE Advance(c)
  /\ UNCHANGED <<len, bad, last, buffer, attempts, applied, dlq, failed>>

(* Inside an except clause it leaves the for loop. *)
ExceptAckFails(c) ==
  /\ pc[c] = "xack"
  /\ Abort(c, pos[c])
  /\ pel' \in {pel, pel \ {pos[c]}}
  /\ UNCHANGED <<len, bad, last, buffer, attempts, applied, dlq, failed>>

PostBatch(c) ==
  /\ pc[c] = "post"
  /\ applied' = applied \cup buffer[c]
  /\ buffer' = [buffer EXCEPT ![c] = {}]
  /\ Goto(c, "read")
  /\ UNCHANGED <<len, bad, last, pel, attempts, dlq, failed, dropped, faults>>

(* The batch write raises: it is logged and "finally" clears the buffer. *)
PostBatchError(c) ==
  /\ pc[c] = "post" /\ buffer[c] # {}
  /\ failed' = failed \cup buffer[c]
  /\ buffer' = [buffer EXCEPT ![c] = {}]
  /\ Goto(c, "read")
  /\ UNCHANGED <<len, bad, last, pel, attempts, applied, dlq, dropped, faults>>

(* The process dies or is cancelled; the stream, the group and the PEL are *)
(* in Redis and survive.                                                   *)
Crash(c) ==
  /\ pc[c] # "down"
  /\ Fault
  /\ dropped' = dropped \cup InHand(c) \cup buffer[c]
  /\ buffer' = [buffer EXCEPT ![c] = {}]
  /\ Goto(c, "down")
  /\ UNCHANGED <<len, bad, last, pel, attempts, applied, dlq, failed>>

(* Mutant of Restart: the group is recreated from the start of the stream. *)
RestartFromZero(c) ==
  /\ pc[c] = "down"
  /\ Goto(c, "read")
  /\ last' = 0
  /\ UNCHANGED <<len, bad, pel, buffer, attempts, applied, dlq, failed, dropped, faults>>

(* XGROUP CREATE answers BUSYGROUP, which is tolerated: the group resumes  *)
(* at its last-delivered position.                                         *)
Restart(c) ==
  /\ pc[c] = "down"
  /\ Goto(c, "read")
  /\ UNCHANGED <<len, bad, last, pel, buffer, attempts, applied, dlq, failed, dropped, faults>>

Step(c) ==
  \/ \E n \in 1 .. Count : Read(c, n)
  \/ HandleOk(c) \/ HandleBad(c) \/ HandleError(c)
  \/ DlqAdd(c) \/ Ack(c)
  \/ PostBatch(c) \/ PostBatchError(c)

Failure(c) ==
  \/ \E n \in 1 .. Count : ReadReplyLost(c, n)
  \/ DlqAddFails(c) \/ AckFails(c) \/ ExceptAckFails(c)
  \/ Crash(c)

Next ==
  /\ Publish \/ \E c \in Consumers : Step(c) \/ Failure(c) \/ Restart(c)
  /\ UNCHANGED policy

(* A running loop keeps taking steps.  Nothing restarts a service: no      *)
(* service of docker-compose.yml has a restart policy.                     *)
Fairness == \A c \in Consumers : WF_vars(Step(c) /\ UNCHANGED policy)

Spec == Init /\ [][Next]_vars
FairSpec == Spec /\ Fairness

-----------------------------------------------------------------------------
(* Properties.                                                             *)

(* No entry's handler is called twice, whatever crashes, replicas and lost *)
(* replies: handlers that count runs (trace-normalizer) or bump a version  *)
(* (spec-generator) rely on it, and nothing but reading ">" provides it.   *)
HandledAtMostOnce == \A i \in Entries : attempts[i] <= 1

(* Entries that reached an outcome the loop's policy intends. *)
Settled(i) ==
  \/ i \in applied \cup dlq
  \/ i \in bad /\ BadFate = "ack"
  \/ i \in failed /\ ErrorFate = "ack"

(* Where the handler writes before it returns, an entry that left the PEL  *)
(* has been written, dead-lettered or thrown away on purpose: no replica   *)
(* acknowledges what another one still works on, and no crash or failed    *)
(* call lets an acknowledgement overtake its outcome.  (Written means the  *)
(* handler returned; what a handler leaves out is its own module's.)       *)
AckedNeverLost ==
  ~Deferred => \A i \in 1 .. last : i \notin pel => Settled(i)

(* An entry stays in the PEL outside every batch only if its handler       *)
(* raised, or a crash or a failed Redis call took it: the loop's own       *)
(* control flow skips none.                                                *)
StrandedOnlyByFault ==
  \A i \in pel :
    \/ \E c \in Consumers : i \in InHand(c)
    \/ i \in failed \cup dropped
    \/ i \in bad /\ BadFate = "keep"

(* While some replica runs, every published entry is eventually            *)
(* acknowledged, or is one of those a failure left in the PEL.             *)
Left(i) == i \in failed \cup dropped \/ (i \in bad /\ BadFate = "keep")
NoReplicaRuns == \A c \in Consumers : pc[c] = "down"
EventuallySettled ==
  \A i \in Entries :
    (i <= len) ~> (i \in (1 .. last) \ pel \/ Left(i) \/ NoReplicaRuns)

(* What became of an entry, as Delivery sees it. *)
Rejected(i) == i \in dlq \/ (i \in bad /\ BadFate # "dlq" /\ attempts[i] > 0)
GivenUp(i) == i \in failed \cup dropped /\ \A c \in Consumers : i \notin buffer[c]
StatusOf(i) ==
  IF i > len THEN "absent"
  ELSE IF i > last THEN "queued"
  ELSE IF i \in applied THEN "done"
  ELSE IF Rejected(i) THEN "rejected"
  ELSE IF GivenUp(i) THEN "lost" ELSE "taken"

(* The loop implements Delivery. *)
AbstractDelivery == INSTANCE Delivery WITH status <- [i \in Entries |-> StatusOf(i)]
ImplementsDelivery == AbstractDelivery!Spec

(* "No ACK -- message will be redelivered" (shared/consumer.py:94): an     *)
(* entry whose handler raised is handed to a handler again.                *)
RedeliveredAfterError == \A i \in Entries : (i \in failed) ~> (attempts[i] > 1)
=============================================================================
