------------------------ MODULE ConsumerGroup_proofs ------------------------
(***************************************************************************)
(* Proofs about ConsumerGroup, for every number of replicas, batch size,   *)
(* policy and bound.                                                       *)
(***************************************************************************)
EXTENDS ConsumerGroup, TLAPS

(* A working loop holds a batch of delivered positions. *)
Batches ==
  \A c \in Consumers :
    pc[c] \in Working => /\ pos[c] >= 1
                         /\ pos[c] <= end[c]
                         /\ end[c] <= last

TypeInv == TypeOK /\ Batches

(* Every step keeps the policy the service was started with. *)
SamePolicy ==
  policy' = policy /\ BadFate' = BadFate /\ ErrorFate' = ErrorFate /\ Deferred' = Deferred

LEMMA PolicyKept == [Next]_vars => SamePolicy
  BY DEF Next, vars, SamePolicy, BadFate, ErrorFate, Deferred

LEMMA Fates ==
  ASSUME TypeInv
  PROVE  BadFate \in {"dlq", "ack", "keep"} /\ ErrorFate \in {"ack", "keep"}
  BY PolicyAssumption DEF TypeInv, TypeOK, BadFate, ErrorFate

-----------------------------------------------------------------------------
Labels == Working \cup {"read", "post", "down"}
LoopsOK ==
  /\ pc \in [Consumers -> Labels]
  /\ pos \in [Consumers -> Nat]
  /\ end \in [Consumers -> Nat]
  /\ Batches

(* A loop that moves within its batch or leaves it keeps LoopsOK. *)
LEMMA GotoLoopsOK ==
  ASSUME TypeInv, NEW c \in Consumers, NEW label \in Labels, Goto(c, label),
         label \in Working => pc[c] \in Working, last' = last
  PROVE  LoopsOK'
  BY DEF TypeInv, TypeOK, Goto, Labels, LoopsOK, Batches

LEMMA AdvanceLoopsOK ==
  ASSUME TypeInv, NEW c \in Consumers, pc[c] \in Working, Advance(c), last' = last
  PROVE  LoopsOK'
<1>1. CASE pos[c] < end[c]
  BY <1>1 DEF Advance, TypeInv, TypeOK, Labels, LoopsOK, Batches, Working
<1>2. CASE ~(pos[c] < end[c])
  <2>1. Goto(c, "post")
    BY <1>2 DEF Advance
  <2>2. "post" \in Labels /\ "post" \notin Working
    BY DEF Labels, Working
  <2>3. QED
    BY <2>1, <2>2, GotoLoopsOK
<1>3. QED
  BY <1>1, <1>2

(* The position a working loop is on is an entry. *)
LEMMA InHandIsEntries ==
  ASSUME TypeInv, NEW c \in Consumers
  PROVE  /\ InHand(c) \subseteq 1 .. last
         /\ 1 .. last \subseteq Entries
         /\ pc[c] \in Working => pos[c] \in InHand(c)
<1>1. pos[c] \in Nat /\ end[c] \in Nat /\ last \in 0 .. len /\ len \in 0 .. MaxEntries
  BY DEF TypeInv, TypeOK
<1>2. last \in Nat /\ last <= MaxEntries
  BY <1>1, BoundAssumption
<1>3. 1 .. last \subseteq Entries
  BY <1>2, BoundAssumption DEF Entries
<1>4. CASE pc[c] \in Working
  BY <1>1, <1>2, <1>3, <1>4 DEF InHand, TypeInv, Batches
<1>5. CASE pc[c] \notin Working
  BY <1>3, <1>5 DEF InHand
<1>6. QED
  BY <1>4, <1>5

(* Type correctness, strengthened with the shape of the batches: without   *)
(* it an XACK could name a position that is no entry.                      *)
LEMMA TypeInvInit == Init => TypeInv
  BY BoundAssumption DEF Init, TypeInv, TypeOK, Batches, Working, Entries

LEMMA TypeInvNext == TypeInv /\ [Next]_vars => TypeInv'
<1>. SUFFICES ASSUME TypeInv, [Next]_vars
              PROVE  TypeInv'
  OBVIOUS
<1>p. policy' = policy
  BY PolicyKept DEF SamePolicy
<1>. USE BoundAssumption, CountAssumption, <1>p
<1>0. TypeOK /\ Batches
  BY DEF TypeInv
<1>1. CASE Publish
  BY <1>0, <1>1 DEF Publish, TypeInv, TypeOK, Batches, loopVars, Entries, Working
<1>2. ASSUME NEW c \in Consumers, NEW n \in 1 .. Count, Read(c, n)
      PROVE  TypeInv'
  <2>1. n \in Nat /\ n >= 1 /\ last + n <= len /\ last \in Nat /\ len \in 0 .. MaxEntries
    BY <1>0, <1>2 DEF Read, Deliver, TypeOK
  <2>2. last' \in 0 .. len' /\ pel' \subseteq 1 .. last'
    BY <1>0, <1>2, <2>1 DEF Read, Deliver, TypeOK
  <2>3. LoopsOK'
    BY <1>0, <1>2, <2>1 DEF Read, Deliver, TypeOK, Batches, LoopsOK, Labels, Working
  <2>4. QED
    BY <1>0, <1>2, <2>2, <2>3 DEF Read, Deliver, TypeInv, TypeOK, LoopsOK, Labels
<1>3. ASSUME NEW c \in Consumers, NEW n \in 1 .. Count, ReadReplyLost(c, n)
      PROVE  TypeInv'
  <2>1. n \in Nat /\ n >= 1 /\ last + n <= len /\ last \in Nat /\ len \in 0 .. MaxEntries
    BY <1>0, <1>3 DEF ReadReplyLost, Deliver, TypeOK
  <2>2. last' \in 0 .. len' /\ pel' \subseteq 1 .. last' /\ faults' \in 0 .. MaxFaults
    BY <1>0, <1>3, <2>1 DEF ReadReplyLost, Deliver, Fault, TypeOK
  <2>3. dropped' \subseteq Entries
    BY <1>0, <1>3, <2>1 DEF ReadReplyLost, TypeOK, Entries
  <2>4. LoopsOK'
    BY <1>0, <1>3, <2>1 DEF ReadReplyLost, Deliver, TypeOK, Batches, LoopsOK, Labels
  <2>5. QED
    BY <1>0, <1>3, <2>2, <2>3, <2>4 DEF ReadReplyLost, Deliver, TypeInv, TypeOK, LoopsOK, Labels
<1>4. ASSUME NEW c \in Consumers, HandleOk(c)
      PROVE  TypeInv'
  <2>1. pos[c] \in Entries /\ pc[c] \in Working
    BY <1>4, InHandIsEntries DEF HandleOk, Calls, Working
  <2>2. LoopsOK'
    BY <1>4, <2>1, GotoLoopsOK DEF HandleOk, Calls, Labels, Working
  <2>3. buffer' \in [Consumers -> SUBSET Entries] /\ applied' \subseteq Entries
    BY <1>0, <1>4, <2>1 DEF HandleOk, TypeOK
  <2>4. attempts' \in [Entries -> Nat]
    BY <1>0, <1>4, <2>1 DEF HandleOk, Calls, TypeOK
  <2>5. QED
    BY <1>0, <1>4, <2>2, <2>3, <2>4 DEF HandleOk, Calls, TypeInv, TypeOK, LoopsOK, Labels
<1>5. ASSUME NEW c \in Consumers, HandleBad(c)
      PROVE  TypeInv'
  <2>1. pos[c] \in Entries /\ pc[c] \in Working
    BY <1>5, InHandIsEntries DEF HandleBad, Calls, Working
  <2>2. LoopsOK'
    <3>1. CASE BadFate = "dlq"
      BY <1>5, <2>1, <3>1, GotoLoopsOK DEF HandleBad, Calls, Labels, Working
    <3>2. CASE BadFate = "ack"
      BY <1>5, <2>1, <3>2, GotoLoopsOK DEF HandleBad, Calls, Labels, Working
    <3>3. CASE BadFate = "keep"
      BY <1>5, <2>1, <3>3, AdvanceLoopsOK DEF HandleBad, Calls
    <3>4. QED
      BY <3>1, <3>2, <3>3, Fates
  <2>3. attempts' \in [Entries -> Nat]
    BY <1>0, <1>5, <2>1 DEF HandleBad, Calls, TypeOK
  <2>4. QED
    BY <1>0, <1>5, <2>2, <2>3 DEF HandleBad, Calls, TypeInv, TypeOK, LoopsOK, Labels
<1>6. ASSUME NEW c \in Consumers, HandleError(c)
      PROVE  TypeInv'
  <2>1. pos[c] \in Entries /\ pc[c] \in Working
    BY <1>6, InHandIsEntries DEF HandleError, Calls, Working
  <2>2. LoopsOK'
    <3>1. CASE ErrorFate = "ack"
      BY <1>6, <2>1, <3>1, GotoLoopsOK DEF HandleError, Calls, Labels, Working
    <3>2. CASE ErrorFate # "ack"
      BY <1>6, <2>1, <3>2, AdvanceLoopsOK DEF HandleError, Calls
    <3>3. QED
      BY <3>1, <3>2
  <2>3. attempts' \in [Entries -> Nat] /\ failed' \subseteq Entries
    BY <1>0, <1>6, <2>1 DEF HandleError, Calls, TypeOK
  <2>4. QED
    BY <1>0, <1>6, <2>2, <2>3 DEF HandleError, Calls, TypeInv, TypeOK, LoopsOK, Labels
<1>7. ASSUME NEW c \in Consumers, DlqAdd(c)
      PROVE  TypeInv'
  <2>1. pos[c] \in Entries /\ pc[c] \in Working
    BY <1>7, InHandIsEntries DEF DlqAdd, Working
  <2>2. LoopsOK'
    BY <1>7, <2>1, GotoLoopsOK DEF DlqAdd, Labels, Working
  <2>3. QED
    BY <1>0, <1>7, <2>1, <2>2 DEF DlqAdd, TypeInv, TypeOK, LoopsOK, Labels
<1>8. ASSUME NEW c \in Consumers, DlqAddFails(c)
      PROVE  TypeInv'
  <2>1. pos[c] .. end[c] \subseteq Entries /\ pos[c] \in Entries
    BY <1>8, InHandIsEntries DEF DlqAddFails, Working, InHand
  <2>2. LoopsOK'
    BY <1>8, GotoLoopsOK DEF DlqAddFails, Abort, Labels, Working
  <2>3. dropped' \subseteq Entries /\ dlq' \subseteq Entries /\ faults' \in 0 .. MaxFaults
    BY <1>0, <1>8, <2>1 DEF DlqAddFails, Abort, Fault, TypeOK
  <2>4. QED
    BY <1>0, <1>8, <2>2, <2>3 DEF DlqAddFails, TypeInv, TypeOK, LoopsOK, Labels
<1>9. ASSUME NEW c \in Consumers, Ack(c)
      PROVE  TypeInv'
  <2>1. pc[c] \in Working
    BY <1>9 DEF Ack, Working
  <2>2. LoopsOK'
    BY <1>9, <2>1, AdvanceLoopsOK DEF Ack
  <2>3. QED
    BY <1>0, <1>9, <2>2 DEF Ack, TypeInv, TypeOK, LoopsOK, Labels
<1>10. ASSUME NEW c \in Consumers, AckFails(c)
       PROVE  TypeInv'
  <2>1. pc[c] \in Working /\ pos[c] \in Entries
    BY <1>10, InHandIsEntries DEF AckFails, Working
  <2>2. LoopsOK'
    <3>1. CASE ErrorFate = "ack"
      BY <1>10, <2>1, <3>1, GotoLoopsOK DEF AckFails, Labels, Working
    <3>2. CASE ErrorFate # "ack"
      BY <1>10, <2>1, <3>2, AdvanceLoopsOK DEF AckFails
    <3>3. QED
      BY <3>1, <3>2
  <2>3. dropped' \subseteq Entries /\ pel' \subseteq pel /\ faults' \in 0 .. MaxFaults
    BY <1>0, <1>10, <2>1 DEF AckFails, Fault, TypeOK
  <2>4. QED
    BY <1>0, <1>10, <2>2, <2>3 DEF AckFails, TypeInv, TypeOK, LoopsOK, Labels
<1>11. ASSUME NEW c \in Consumers, ExceptAckFails(c)
       PROVE  TypeInv'
  <2>1. pos[c] .. end[c] \subseteq Entries
    BY <1>11, InHandIsEntries DEF ExceptAckFails, Working, InHand
  <2>2. LoopsOK'
    BY <1>11, GotoLoopsOK DEF ExceptAckFails, Abort, Labels, Working
  <2>3. dropped' \subseteq Entries /\ pel' \subseteq pel /\ faults' \in 0 .. MaxFaults
    BY <1>0, <1>11, <2>1 DEF ExceptAckFails, Abort, Fault, TypeOK
  <2>4. QED
    BY <1>0, <1>11, <2>2, <2>3 DEF ExceptAckFails, TypeInv, TypeOK, LoopsOK, Labels
<1>12. ASSUME NEW c \in Consumers, PostBatch(c)
       PROVE  TypeInv'
  BY <1>0, <1>12 DEF PostBatch, Goto, TypeInv, TypeOK, Batches, Entries, Working
<1>13. ASSUME NEW c \in Consumers, PostBatchError(c)
       PROVE  TypeInv'
  BY <1>0, <1>13 DEF PostBatchError, Goto, TypeInv, TypeOK, Batches, Entries, Working
<1>14. ASSUME NEW c \in Consumers, Crash(c)
       PROVE  TypeInv'
  BY <1>0, <1>14, InHandIsEntries DEF Crash, Fault, Goto, TypeInv, TypeOK, Batches, Working
<1>15. ASSUME NEW c \in Consumers, Restart(c)
       PROVE  TypeInv'
  BY <1>0, <1>15 DEF Restart, Goto, TypeInv, TypeOK, Batches, Entries, Working
<1>16. CASE UNCHANGED vars
  BY <1>0, <1>16 DEF vars, TypeInv, TypeOK, Batches
<1>17. QED
  BY <1>1, <1>2, <1>3, <1>4, <1>5, <1>6, <1>7, <1>8, <1>9, <1>10, <1>11, <1>12,
     <1>13, <1>14, <1>15, <1>16 DEF Next, Step, Failure

(* Every reachable state is type correct. *)
THEOREM TypeCorrect == Spec => []TypeOK
<1>1. Spec => []TypeInv
  BY TypeInvInit, TypeInvNext, PTL DEF Spec
<1>2. TypeInv => TypeOK
  BY DEF TypeInv
<1>3. QED
  BY <1>1, <1>2, PTL

-----------------------------------------------------------------------------
(* The reason an entry is handled at most once: batches never overlap, and *)
(* what lies beyond a loop's position, or beyond the group's cursor, has   *)
(* not been handed to any handler.                                         *)
Disjoint ==
  \A c, d \in Consumers :
    c # d /\ pc[c] \in Working /\ pc[d] \in Working =>
      end[c] < pos[d] \/ end[d] < pos[c]

Untouched ==
  /\ \A i \in Entries : i > last => attempts[i] = 0
  /\ \A c \in Consumers : \A i \in Entries :
       pc[c] \in Working /\ i \in pos[c] .. end[c] /\ (i > pos[c] \/ pc[c] = "handle")
         => attempts[i] = 0

OnceInv == Disjoint /\ Untouched /\ HandledAtMostOnce

LEMMA OnceInvInit == Init => OnceInv
  BY DEF Init, OnceInv, Disjoint, Untouched, HandledAtMostOnce, Working

(* A step that moves one loop and calls no handler. *)
LEMMA GotoOnce ==
  ASSUME TypeInv, OnceInv, NEW c \in Consumers, NEW label \in Labels, Goto(c, label),
         label \in Working => pc[c] \in Working /\ label # "handle",
         last' = last, attempts' = attempts
  PROVE  OnceInv'
  BY DEF TypeInv, TypeOK, Goto, OnceInv, Disjoint, Untouched, HandledAtMostOnce

LEMMA AdvanceOnce ==
  ASSUME TypeInv, OnceInv, NEW c \in Consumers, pc[c] \in Working, Advance(c),
         last' = last, attempts' = attempts
  PROVE  OnceInv'
<1>1. CASE pos[c] < end[c]
  <2>1. pos' = [pos EXCEPT ![c] = pos[c] + 1] /\ pc' = [pc EXCEPT ![c] = "handle"] /\ end' = end
    BY <1>1 DEF Advance
  <2>2. Disjoint'
    BY <1>1, <2>1 DEF TypeInv, TypeOK, Batches, OnceInv, Disjoint, Working
  <2>3. Untouched'
    BY <1>1, <2>1 DEF TypeInv, TypeOK, Batches, OnceInv, Untouched, Working, Entries
  <2>4. QED
    BY <2>2, <2>3 DEF OnceInv, HandledAtMostOnce
<1>2. CASE ~(pos[c] < end[c])
  <2>1. Goto(c, "post") /\ "post" \in Labels /\ "post" \notin Working
    BY <1>2 DEF Advance, Labels, Working
  <2>2. QED
    BY <2>1, GotoOnce
<1>3. QED
  BY <1>1, <1>2

(* A step that calls the handler on the loop's entry and moves the loop.   *)
LEMMA CallOnce ==
  ASSUME TypeInv, OnceInv, NEW c \in Consumers, Calls(c),
         \/ \E label \in Labels \ {"handle"} : Goto(c, label)
         \/ Advance(c)
  PROVE  OnceInv'
<1>1. /\ pc[c] = "handle" /\ pos[c] \in Entries /\ pc[c] \in Working
      /\ attempts' = [attempts EXCEPT ![pos[c]] = attempts[pos[c]] + 1]
      /\ last' = last
  BY InHandIsEntries DEF Calls, Working
<1>2. attempts[pos[c]] = 0
  BY <1>1 DEF TypeInv, TypeOK, Batches, OnceInv, Untouched, Entries
<1>3. attempts' = [attempts EXCEPT ![pos[c]] = 1]
  BY <1>1, <1>2
<1>4. HandledAtMostOnce'
  BY <1>1, <1>3 DEF TypeInv, TypeOK, OnceInv, HandledAtMostOnce
<1>5. \A i \in Entries : i > last' => attempts'[i] = 0
  BY <1>1, <1>3 DEF TypeInv, TypeOK, Batches, OnceInv, Untouched
<1>6. ASSUME NEW d \in Consumers, d # c, pc[d] \in Working,
             NEW i \in Entries, i \in pos[d] .. end[d]
      PROVE  attempts'[i] = attempts[i]
  <2>1. i # pos[c]
    BY <1>1, <1>6 DEF TypeInv, TypeOK, Batches, OnceInv, Disjoint
  <2>2. QED
    BY <1>3, <2>1 DEF TypeInv, TypeOK
<1>7. CASE \E label \in Labels \ {"handle"} : Goto(c, label)
  <2>1. PICK label \in Labels \ {"handle"} : Goto(c, label)
    BY <1>7
  <2>2. /\ pc' = [pc EXCEPT ![c] = label] /\ pos' = pos /\ end' = end
        /\ \A d \in Consumers : d # c => pc'[d] = pc[d]
        /\ pc'[c] = label
    BY <2>1 DEF Goto, TypeInv, TypeOK
  <2>3. Disjoint'
    BY <1>1, <2>2 DEF OnceInv, Disjoint
  <2>4. ASSUME NEW d \in Consumers, NEW i \in Entries,
               pc'[d] \in Working, i \in pos'[d] .. end'[d], i > pos'[d] \/ pc'[d] = "handle"
        PROVE  attempts'[i] = 0
    <3>1. CASE d = c
      BY <1>1, <1>3, <2>2, <2>4, <3>1 DEF TypeInv, TypeOK, OnceInv, Untouched
    <3>2. CASE d # c
      BY <1>6, <2>2, <2>4, <3>2 DEF OnceInv, Untouched
    <3>3. QED
      BY <3>1, <3>2
  <2>5. QED
    BY <1>4, <1>5, <2>3, <2>4 DEF OnceInv, Untouched
<1>8. CASE Advance(c) /\ pos[c] < end[c]
  <2>1. /\ pc' = [pc EXCEPT ![c] = "handle"] /\ end' = end
        /\ pos' = [pos EXCEPT ![c] = pos[c] + 1]
    BY <1>8 DEF Advance
  <2>2. /\ \A d \in Consumers : d # c => pc'[d] = pc[d] /\ pos'[d] = pos[d]
        /\ pc'[c] = "handle" /\ pos'[c] = pos[c] + 1
    BY <2>1 DEF TypeInv, TypeOK
  <2>3. Disjoint'
    BY <1>1, <1>8, <2>1 DEF TypeInv, TypeOK, Batches, OnceInv, Disjoint
  <2>4. ASSUME NEW d \in Consumers, NEW i \in Entries,
               pc'[d] \in Working, i \in pos'[d] .. end'[d], i > pos'[d] \/ pc'[d] = "handle"
        PROVE  attempts'[i] = 0
    <3>1. CASE d = c
      BY <1>1, <1>3, <2>1, <2>2, <2>4, <3>1 DEF TypeInv, TypeOK, Entries, OnceInv, Untouched
    <3>2. CASE d # c
      BY <1>6, <2>1, <2>2, <2>4, <3>2 DEF OnceInv, Untouched
    <3>3. QED
      BY <3>1, <3>2
  <2>5. QED
    BY <1>4, <1>5, <2>3, <2>4 DEF OnceInv, Untouched
<1>9. CASE Advance(c) /\ ~(pos[c] < end[c])
  <2>1. Goto(c, "post") /\ "post" \in Labels \ {"handle"}
    BY <1>9 DEF Advance, Labels
  <2>2. QED
    BY <1>7, <2>1
<1>10. QED
  BY <1>7, <1>8, <1>9

LEMMA OnceInvNext == TypeInv /\ OnceInv /\ [Next]_vars => OnceInv'
<1>. SUFFICES ASSUME TypeInv, OnceInv, [Next]_vars
              PROVE  OnceInv'
  OBVIOUS
<1>1. CASE Publish
  BY <1>1 DEF Publish, loopVars, OnceInv, Disjoint, Untouched, HandledAtMostOnce
<1>2. ASSUME NEW c \in Consumers, NEW n \in 1 .. Count, Read(c, n)
      PROVE  OnceInv'
  <2>1. /\ n \in Nat /\ n >= 1 /\ last \in Nat /\ last' = last + n /\ attempts' = attempts
        /\ pos' = [pos EXCEPT ![c] = last + 1] /\ end' = [end EXCEPT ![c] = last + n]
        /\ pc' = [pc EXCEPT ![c] = "handle"] /\ pc[c] = "read"
    BY <1>2, CountAssumption DEF Read, Deliver, TypeInv, TypeOK
  <2>2. Disjoint'
    BY <2>1 DEF TypeInv, TypeOK, Batches, OnceInv, Disjoint
  <2>3. Untouched'
    BY <2>1 DEF TypeInv, TypeOK, Batches, OnceInv, Untouched, Entries
  <2>4. QED
    BY <2>1, <2>2, <2>3 DEF OnceInv, HandledAtMostOnce
<1>3. ASSUME NEW c \in Consumers, NEW n \in 1 .. Count, ReadReplyLost(c, n)
      PROVE  OnceInv'
  <2>1. /\ n \in Nat /\ last \in Nat /\ last' = last + n /\ attempts' = attempts
        /\ UNCHANGED <<pc, pos, end>>
    BY <1>3, CountAssumption DEF ReadReplyLost, Deliver, TypeInv, TypeOK
  <2>2. QED
    BY <2>1 DEF OnceInv, Disjoint, Untouched, HandledAtMostOnce, Entries
<1>4. ASSUME NEW c \in Consumers, HandleOk(c)
      PROVE  OnceInv'
  BY <1>4, CallOnce DEF HandleOk, Labels, Working
<1>5. ASSUME NEW c \in Consumers, HandleBad(c)
      PROVE  OnceInv'
  BY <1>5, CallOnce, Fates DEF HandleBad, Labels, Working
<1>6. ASSUME NEW c \in Consumers, HandleError(c)
      PROVE  OnceInv'
  BY <1>6, CallOnce DEF HandleError, Labels, Working
<1>7. ASSUME NEW c \in Consumers, DlqAdd(c)
      PROVE  OnceInv'
  BY <1>7, GotoOnce DEF DlqAdd, Labels, Working
<1>8. ASSUME NEW c \in Consumers, DlqAddFails(c)
      PROVE  OnceInv'
  BY <1>8, GotoOnce DEF DlqAddFails, Abort, Labels, Working
<1>9. ASSUME NEW c \in Consumers, Ack(c)
      PROVE  OnceInv'
  BY <1>9, AdvanceOnce DEF Ack, Working
<1>10. ASSUME NEW c \in Consumers, AckFails(c)
       PROVE  OnceInv'
  BY <1>10, AdvanceOnce, GotoOnce DEF AckFails, Labels, Working
<1>11. ASSUME NEW c \in Consumers, ExceptAckFails(c)
       PROVE  OnceInv'
  BY <1>11, GotoOnce DEF ExceptAckFails, Abort, Labels, Working
<1>12. ASSUME NEW c \in Consumers, PostBatch(c)
       PROVE  OnceInv'
  BY <1>12, GotoOnce DEF PostBatch, Labels, Working
<1>13. ASSUME NEW c \in Consumers, PostBatchError(c)
       PROVE  OnceInv'
  BY <1>13, GotoOnce DEF PostBatchError, Labels, Working
<1>14. ASSUME NEW c \in Consumers, Crash(c)
       PROVE  OnceInv'
  BY <1>14, GotoOnce DEF Crash, Labels, Working
<1>15. ASSUME NEW c \in Consumers, Restart(c)
       PROVE  OnceInv'
  BY <1>15, GotoOnce DEF Restart, Labels, Working
<1>16. CASE UNCHANGED vars
  BY <1>16 DEF vars, OnceInv, Disjoint, Untouched, HandledAtMostOnce
<1>17. QED
  BY <1>1, <1>2, <1>3, <1>4, <1>5, <1>6, <1>7, <1>8, <1>9, <1>10, <1>11, <1>12,
     <1>13, <1>14, <1>15, <1>16 DEF Next, Step, Failure

(* However many replicas share a group and whatever fails, no entry is     *)
(* handed to a handler twice.                                              *)
THEOREM AtMostOnce == Spec => []HandledAtMostOnce
<1>1. Init => TypeInv /\ OnceInv
  BY TypeInvInit, OnceInvInit
<1>2. TypeInv /\ OnceInv /\ [Next]_vars => (TypeInv /\ OnceInv)'
  BY TypeInvNext, OnceInvNext
<1>3. OnceInv => HandledAtMostOnce
  BY DEF OnceInv
<1>4. QED
  BY <1>1, <1>2, <1>3, PTL DEF Spec

-----------------------------------------------------------------------------
(* Why an acknowledged entry is never the only copy of unwritten work, in  *)
(* the services whose handler writes before it returns: an entry in hand   *)
(* is pending until its outcome exists, and XACK follows the outcome.      *)
HandOK(c) ==
  /\ buffer[c] = {}
  /\ pc[c] \in Working => \A i \in Entries : pos[c] < i /\ i <= end[c] => i \in pel
  /\ pc[c] \in {"handle", "dlq"} => pos[c] \in pel
  /\ pc[c] = "ack" => pos[c] \in applied
  /\ pc[c] = "xack" => Settled(pos[c])

AckInv ==
  /\ \A c \in Consumers : HandOK(c)
  /\ \A i \in Entries : i <= last /\ i \notin pel => Settled(i)

LEMMA AckInvInit == Init => AckInv
  BY DEF Init, AckInv, HandOK, Working, Entries

(* Outcomes are final, so what a loop knows of its entry survives the      *)
(* steps of the others, which acknowledge only their own entries.          *)
LEMMA OthersHandOK ==
  ASSUME TypeInv, AckInv, NEW c \in Consumers, NEW d \in Consumers, d # c,
         pc'[d] = pc[d], pos'[d] = pos[d], end'[d] = end[d], buffer'[d] = buffer[d],
         applied \subseteq applied', dlq \subseteq dlq', failed \subseteq failed', bad \subseteq bad',
         \A i \in pel : i \in pel' \/ (pc[c] \in Working /\ i = pos[c]),
         Disjoint, SamePolicy
  PROVE  HandOK(d)'
<1>1. /\ HandOK(d) /\ pos[d] \in Nat /\ end[d] \in Nat /\ pos[c] \in Nat /\ end[c] \in Nat
      /\ pc[d] \in Working => pos[d] <= end[d]
      /\ pc[c] \in Working => pos[c] <= end[c]
  BY DEF AckInv, TypeInv, TypeOK, Batches
<1>2. ASSUME NEW i \in Entries, pc[d] \in Working, pos[d] <= i, i <= end[d], i \in pel
      PROVE  i \in pel'
  BY <1>1, <1>2 DEF Disjoint, Entries
<1>3. pc[d] \in Working => pos[d] \in Entries
  BY InHandIsEntries
<1>4. pc[d] \in {"handle", "dlq"} => pos[d] \in pel'
  BY <1>1, <1>2, <1>3 DEF HandOK, Working
<1>5. Settled(pos[d]) => Settled(pos[d])'
  BY DEF Settled, SamePolicy
<1>6. QED
  BY <1>1, <1>2, <1>4, <1>5 DEF HandOK, Working, Entries

(* A step of one loop that only moves it, within its batch or out of it.   *)
LEMMA MoveAckInv ==
  ASSUME TypeInv, OnceInv, AckInv, NEW c \in Consumers, pc[c] \in Working,
         SamePolicy, NEW e \in Entries, e = pos[c], last' = last, bad' = bad, buffer'[c] = {},
         \A d \in Consumers : d # c => buffer'[d] = buffer[d],
         applied \subseteq applied', dlq \subseteq dlq', failed \subseteq failed',
         pel' \in {pel, pel \ {pos[c]}},
         pos[c] \in pel' \/ Settled(e)',
         \/ Advance(c)
         \/ \E label \in Labels \ {"handle"} :
              /\ Goto(c, label)
              /\ label = "dlq" => pos[c] \in pel'
              /\ label = "ack" => pos[c] \in applied'
              /\ label = "xack" => Settled(e)'
  PROVE  AckInv'
<1>1. /\ pos[c] \in Nat /\ end[c] \in Nat /\ pc \in [Consumers -> Labels]
      /\ pos \in [Consumers -> Nat] /\ end \in [Consumers -> Nat]
  BY DEF TypeInv, TypeOK, Labels
<1>2. \A i \in Entries : i <= last' /\ i \notin pel' => Settled(i)'
  <2>. SUFFICES ASSUME NEW i \in Entries, i <= last', i \notin pel'
                PROVE  Settled(i)'
    OBVIOUS
  <2>1. CASE i = e
    BY <2>1
  <2>2. CASE i # e
    <3>1. Settled(i)
      BY <2>2 DEF AckInv
    <3>2. QED
      BY <3>1 DEF Settled, SamePolicy
  <2>3. QED
    BY <2>1, <2>2
<1>3. ASSUME NEW i \in Entries, pos[c] < i, i <= end[c]
      PROVE  i \in pel'
  BY <1>1, <1>3 DEF AckInv, HandOK, Entries
<1>4. CASE Advance(c)
  <2>1. CASE pos[c] < end[c]
    <3>1. /\ pc' = [pc EXCEPT ![c] = "handle"] /\ end' = end
          /\ pos' = [pos EXCEPT ![c] = pos[c] + 1]
      BY <2>1, <1>4 DEF Advance
    <3>2. /\ pc'[c] = "handle" /\ pos'[c] = pos[c] + 1 /\ end'[c] = end[c]
          /\ \A d \in Consumers : d # c => pc'[d] = pc[d] /\ pos'[d] = pos[d] /\ end'[d] = end[d]
      BY <3>1, <1>1
    <3>3. pos[c] + 1 \in Entries
      BY <1>1, <2>1, InHandIsEntries DEF InHand
    <3>4. HandOK(c)'
      BY <1>1, <1>3, <2>1, <3>2, <3>3 DEF HandOK, Entries
    <3>5. \A d \in Consumers : d # c => HandOK(d)'
      BY <3>2, OthersHandOK DEF OnceInv
    <3>6. QED
      BY <1>2, <3>4, <3>5 DEF AckInv
  <2>2. CASE ~(pos[c] < end[c])
    <3>1. /\ pc' = [pc EXCEPT ![c] = "post"] /\ pos' = pos /\ end' = end
      BY <2>2, <1>4 DEF Advance, Goto
    <3>2. /\ pc'[c] = "post"
          /\ \A d \in Consumers : d # c => pc'[d] = pc[d] /\ pos'[d] = pos[d] /\ end'[d] = end[d]
      BY <3>1, <1>1
    <3>3. HandOK(c)'
      BY <3>2 DEF HandOK, Working
    <3>4. \A d \in Consumers : d # c => HandOK(d)'
      BY <3>2, OthersHandOK DEF OnceInv
    <3>5. QED
      BY <1>2, <3>3, <3>4 DEF AckInv
  <2>3. QED
    BY <2>1, <2>2
<1>5. ASSUME NEW label \in Labels \ {"handle"}, Goto(c, label),
             label = "dlq" => pos[c] \in pel',
             label = "ack" => pos[c] \in applied',
             label = "xack" => Settled(e)'
      PROVE  AckInv'
  <2>1. /\ pc'[c] = label /\ pos' = pos /\ end' = end
        /\ \A d \in Consumers : d # c => pc'[d] = pc[d]
    BY <1>1, <1>5 DEF Goto
  <2>2. HandOK(c)'
    <3>1. pc'[c] = "xack" => Settled(e)'
      BY <1>5, <2>1
    <3>2. pc'[c] = "xack" => Settled(pos[c])'
      BY <2>1, <3>1
    <3>3. QED
      BY <1>1, <1>3, <1>5, <2>1, <3>2 DEF HandOK, Working
  <2>3. \A d \in Consumers : d # c => HandOK(d)'
    BY <2>1, OthersHandOK DEF OnceInv
  <2>4. QED
    BY <1>2, <2>2, <2>3 DEF AckInv
<1>6. QED
  BY <1>4, <1>5

(* A step of a loop that holds no batch and takes none. *)
LEMMA IdleAckInv ==
  ASSUME TypeInv, OnceInv, AckInv, NEW c \in Consumers, pc[c] \notin Working, SamePolicy,
         last' = last, bad' = bad, pel' = pel, buffer'[c] = {},
         \A d \in Consumers : d # c => buffer'[d] = buffer[d],
         applied \subseteq applied', dlq \subseteq dlq', failed \subseteq failed',
         NEW label \in Labels \ Working, Goto(c, label)
  PROVE  AckInv'
<1>1. /\ pc'[c] = label /\ pos' = pos /\ end' = end
      /\ \A d \in Consumers : d # c => pc'[d] = pc[d]
  BY DEF Goto, TypeInv, TypeOK
<1>2. HandOK(c)'
  BY <1>1 DEF HandOK, Working
<1>3. \A d \in Consumers : d # c => HandOK(d)'
  BY <1>1, OthersHandOK DEF OnceInv
<1>4. \A i \in Entries : i <= last' /\ i \notin pel' => Settled(i)'
  BY DEF AckInv, Settled, SamePolicy
<1>5. QED
  BY <1>2, <1>3, <1>4 DEF AckInv

(* What a working loop knows of the entry it is on. *)
LEMMA CurrentEntry ==
  ASSUME TypeInv, AckInv, NEW c \in Consumers, pc[c] \in Working
  PROVE  pos[c] \in Entries /\ (pos[c] \in pel \/ Settled(pos[c]))
  BY InHandIsEntries DEF AckInv, HandOK, Settled, Working

LEMMA AckInvNext ==
  TypeInv /\ OnceInv /\ AckInv /\ ~Deferred /\ [Next]_vars => AckInv'
<1>. SUFFICES ASSUME TypeInv, OnceInv, AckInv, ~Deferred, [Next]_vars
              PROVE  AckInv'
  OBVIOUS
<1>p. SamePolicy
  BY PolicyKept
<1>. USE <1>p DEF SamePolicy
<1>0. /\ TypeOK
      /\ \A c \in Consumers : HandOK(c) /\ buffer[c] = {}
  BY DEF TypeInv, AckInv, HandOK
<1>1. CASE Publish
  <2>1. bad \subseteq bad'
    BY <1>1 DEF Publish
  <2>2. UNCHANGED <<last, pel, pc, pos, end, buffer, applied, dlq, failed>>
    BY <1>1 DEF Publish, loopVars
  <2>3. \A i \in Entries : Settled(i) => Settled(i)'
    BY <2>1, <2>2 DEF Settled
  <2>4. \A c \in Consumers : HandOK(c)'
    BY <1>0, <2>2, <2>3, CurrentEntry DEF HandOK, Working
  <2>5. QED
    BY <2>2, <2>3, <2>4 DEF AckInv
<1>2. ASSUME NEW c \in Consumers, NEW n \in 1 .. Count, Deliver(c, n)
      PROVE  /\ n \in Nat /\ last \in Nat /\ last' = last + n
             /\ pel' = pel \cup (last + 1 .. last + n)
             /\ \A i \in Entries : i <= last' /\ i \notin pel' => Settled(i)'
             /\ UNCHANGED <<bad, buffer, applied, dlq, failed>>
  <2>1. /\ n \in Nat /\ last \in Nat /\ last' = last + n
        /\ pel' = pel \cup (last + 1 .. last + n)
        /\ UNCHANGED <<bad, buffer, applied, dlq, failed>>
    BY <1>2, CountAssumption DEF Deliver, TypeInv, TypeOK
  <2>2. ASSUME NEW i \in Entries, i <= last', i \notin pel'
        PROVE  Settled(i)'
    <3>1. i <= last /\ i \notin pel
      BY <2>1, <2>2 DEF Entries
    <3>2. QED
      BY <2>1, <3>1 DEF AckInv, Settled
  <2>3. QED
    BY <2>1, <2>2
<1>3. ASSUME NEW c \in Consumers, NEW n \in 1 .. Count, Read(c, n)
      PROVE  AckInv'
  <2>1. Deliver(c, n)
    BY <1>3 DEF Read
  <2>2. /\ pos' = [pos EXCEPT ![c] = last + 1] /\ end' = [end EXCEPT ![c] = last + n]
        /\ pc' = [pc EXCEPT ![c] = "handle"] /\ pc[c] = "read"
    BY <1>3 DEF Read, Deliver
  <2>3. /\ pos'[c] = last + 1 /\ end'[c] = last + n /\ pc'[c] = "handle"
        /\ \A d \in Consumers : d # c => pc'[d] = pc[d] /\ pos'[d] = pos[d] /\ end'[d] = end[d]
    BY <2>2 DEF TypeInv, TypeOK
  <2>4. HandOK(c)'
    BY <1>0, <1>2, <2>1, <2>3 DEF HandOK, Entries
  <2>5. \A d \in Consumers : d # c => HandOK(d)'
    BY <1>2, <2>1, <2>3, OthersHandOK DEF OnceInv
  <2>6. QED
    BY <1>2, <2>1, <2>4, <2>5 DEF AckInv
<1>4. ASSUME NEW c \in Consumers, NEW n \in 1 .. Count, ReadReplyLost(c, n)
      PROVE  AckInv'
  <2>1. Deliver(c, n) /\ UNCHANGED <<pc, pos, end>>
    BY <1>4 DEF ReadReplyLost
  <2>2. pel \subseteq pel'
    BY <1>2, <2>1
  <2>3. \A d \in Consumers : HandOK(d)'
    BY <1>0, <1>2, <2>1, <2>2 DEF HandOK, Settled
  <2>4. QED
    BY <1>2, <2>1, <2>3 DEF AckInv
<1>5. ASSUME NEW c \in Consumers, HandleOk(c)
      PROVE  AckInv'
  <2>1. /\ pc[c] \in Working /\ pos[c] \in Entries /\ Goto(c, "ack")
        /\ applied' = applied \cup {pos[c]}
        /\ UNCHANGED <<last, bad, buffer, dlq, failed, pel>>
    BY <1>5, CurrentEntry DEF HandleOk, Calls, Working
  <2>2. Settled(pos[c])  \/ pos[c] \in pel'
    BY <2>1, CurrentEntry
  <2>3. \A e \in Entries : e = pos[c] => Settled(e)'
    BY <2>1 DEF Settled
  <2>4. "ack" \in Labels \ {"handle"}
    BY DEF Labels, Working
  <2>5. QED
    BY <1>0, <2>1, <2>3, <2>4, MoveAckInv
<1>6. ASSUME NEW c \in Consumers, HandleBad(c)
      PROVE  AckInv'
  <2>1. /\ pc[c] = "handle" /\ pc[c] \in Working /\ pos[c] \in Entries /\ pos[c] \in bad
        /\ UNCHANGED <<last, bad, buffer, dlq, failed, pel, applied>>
    BY <1>6, CurrentEntry DEF HandleBad, Calls, Working
  <2>2. pos[c] \in pel'
    BY <1>0, <2>1 DEF HandOK
  <2>3. "dlq" \in Labels \ {"handle"} /\ "xack" \in Labels \ {"handle"}
    BY DEF Labels, Working
  <2>4. CASE BadFate = "dlq"
    BY <1>0, <1>6, <2>1, <2>2, <2>3, <2>4, MoveAckInv DEF HandleBad
  <2>5. CASE BadFate = "ack"
    <3>1. \A e \in Entries : e = pos[c] => Settled(e)'
      BY <2>1, <2>5 DEF Settled
    <3>2. Goto(c, "xack")
      BY <1>6, <2>5 DEF HandleBad
    <3>3. QED
      BY <1>0, <2>1, <2>2, <2>3, <3>1, <3>2, MoveAckInv
  <2>6. CASE BadFate = "keep"
    <3>1. Advance(c)
      BY <1>6, <2>6 DEF HandleBad
    <3>2. QED
      BY <1>0, <2>1, <2>2, <3>1, MoveAckInv
  <2>7. QED
    BY <2>4, <2>5, <2>6, Fates
<1>7. ASSUME NEW c \in Consumers, HandleError(c)
      PROVE  AckInv'
  <2>1. /\ pc[c] = "handle" /\ pc[c] \in Working /\ pos[c] \in Entries
        /\ failed' = failed \cup {pos[c]}
        /\ UNCHANGED <<last, bad, buffer, dlq, pel, applied>>
    BY <1>7, CurrentEntry DEF HandleError, Calls, Working
  <2>2. pos[c] \in pel'
    BY <1>0, <2>1 DEF HandOK
  <2>3. "xack" \in Labels \ {"handle"}
    BY DEF Labels, Working
  <2>4. CASE ErrorFate = "ack"
    <3>1. \A e \in Entries : e = pos[c] => Settled(e)'
      BY <2>1, <2>4 DEF Settled
    <3>2. Goto(c, "xack")
      BY <1>7, <2>4 DEF HandleError
    <3>3. QED
      BY <1>0, <2>1, <2>2, <2>3, <3>1, <3>2, MoveAckInv
  <2>5. CASE ErrorFate # "ack"
    <3>1. Advance(c)
      BY <1>7, <2>5 DEF HandleError
    <3>2. QED
      BY <1>0, <2>1, <2>2, <3>1, MoveAckInv
  <2>6. QED
    BY <2>4, <2>5
<1>8. ASSUME NEW c \in Consumers, DlqAdd(c)
      PROVE  AckInv'
  <2>1. /\ pc[c] = "dlq" /\ pc[c] \in Working /\ pos[c] \in Entries
        /\ dlq' = dlq \cup {pos[c]} /\ Goto(c, "xack")
        /\ UNCHANGED <<last, bad, buffer, failed, pel, applied>>
    BY <1>8, CurrentEntry DEF DlqAdd, Working
  <2>2. "xack" \in Labels \ {"handle"}
    BY DEF Labels, Working
  <2>3. \A e \in Entries : e = pos[c] => Settled(e)'
    BY <2>1 DEF Settled
  <2>4. QED
    BY <1>0, <2>1, <2>2, <2>3, MoveAckInv
<1>9. ASSUME NEW c \in Consumers, DlqAddFails(c)
      PROVE  AckInv'
  <2>1. /\ pc[c] = "dlq" /\ pc[c] \in Working /\ pos[c] \in Entries
        /\ dlq \subseteq dlq' /\ Goto(c, "read")
        /\ UNCHANGED <<last, bad, buffer, failed, pel, applied>>
    BY <1>9, CurrentEntry DEF DlqAddFails, Abort, Working
  <2>2. "read" \in Labels \ {"handle"} /\ pos[c] \in pel'
    BY <1>0, <2>1 DEF HandOK, Labels
  <2>3. QED
    BY <1>0, <2>1, <2>2, MoveAckInv
<1>10. ASSUME NEW c \in Consumers, Ack(c)
       PROVE  AckInv'
  <2>1. /\ pc[c] \in {"ack", "xack"} /\ pc[c] \in Working /\ pos[c] \in Entries
        /\ pel' = pel \ {pos[c]} /\ Advance(c)
        /\ UNCHANGED <<last, bad, buffer, failed, dlq, applied>>
    BY <1>10, CurrentEntry DEF Ack, Working
  <2>2. \A e \in Entries : e = pos[c] => Settled(e)'
    BY <1>0, <2>1 DEF HandOK, Settled
  <2>3. QED
    BY <1>0, <2>1, <2>2, MoveAckInv
<1>11. ASSUME NEW c \in Consumers, AckFails(c)
       PROVE  AckInv'
  <2>1. /\ pc[c] = "ack" /\ pc[c] \in Working /\ pos[c] \in Entries
        /\ pel' \in {pel, pel \ {pos[c]}}
        /\ Goto(c, "xack") \/ Advance(c)
        /\ UNCHANGED <<last, bad, buffer, failed, dlq, applied>>
    BY <1>11, CurrentEntry DEF AckFails, Working
  <2>2. \A e \in Entries : e = pos[c] => Settled(e)'
    BY <1>0, <2>1 DEF HandOK, Settled
  <2>3. "xack" \in Labels \ {"handle"}
    BY DEF Labels, Working
  <2>4. QED
    BY <1>0, <2>1, <2>2, <2>3, MoveAckInv
<1>12. ASSUME NEW c \in Consumers, ExceptAckFails(c)
       PROVE  AckInv'
  <2>1. /\ pc[c] = "xack" /\ pc[c] \in Working /\ pos[c] \in Entries
        /\ pel' \in {pel, pel \ {pos[c]}} /\ Goto(c, "read")
        /\ UNCHANGED <<last, bad, buffer, failed, dlq, applied>>
    BY <1>12, CurrentEntry DEF ExceptAckFails, Abort, Working
  <2>2. \A e \in Entries : e = pos[c] => Settled(e)'
    BY <1>0, <2>1 DEF HandOK, Settled
  <2>3. "read" \in Labels \ {"handle"}
    BY DEF Labels
  <2>4. QED
    BY <1>0, <2>1, <2>2, <2>3, MoveAckInv
<1>13. ASSUME NEW c \in Consumers, PostBatch(c)
       PROVE  AckInv'
  <2>1. /\ pc[c] \notin Working /\ Goto(c, "read") /\ buffer' = [buffer EXCEPT ![c] = {}]
        /\ applied \subseteq applied' /\ UNCHANGED <<last, bad, pel, failed, dlq>>
    BY <1>13 DEF PostBatch, Working
  <2>2. "read" \in Labels \ Working /\ buffer' = buffer
    BY <1>0, <2>1 DEF Labels, Working, TypeOK
  <2>3. QED
    BY <1>0, <2>1, <2>2, IdleAckInv
<1>14. ASSUME NEW c \in Consumers, PostBatchError(c)
       PROVE  AckInv'
  BY <1>0, <1>14 DEF PostBatchError
<1>15. ASSUME NEW c \in Consumers, Crash(c)
       PROVE  AckInv'
  <2>1. /\ Goto(c, "down") /\ buffer' = buffer
        /\ UNCHANGED <<last, bad, pel, failed, dlq, applied>>
    BY <1>0, <1>15 DEF Crash, TypeOK
  <2>2. "down" \in Labels \ Working /\ "down" \in Labels \ {"handle"}
    BY DEF Labels, Working
  <2>3. CASE pc[c] \in Working
    <3>1. \A e \in Entries : e = pos[c] => pos[c] \in pel' \/ Settled(e)'
      BY <2>1, <2>3, CurrentEntry DEF Settled
    <3>2. QED
      BY <1>0, <2>1, <2>2, <2>3, <3>1, CurrentEntry, MoveAckInv
  <2>4. CASE pc[c] \notin Working
    BY <1>0, <2>1, <2>2, <2>4, IdleAckInv
  <2>5. QED
    BY <2>3, <2>4
<1>16. ASSUME NEW c \in Consumers, Restart(c)
       PROVE  AckInv'
  <2>1. "read" \in Labels \ Working
    BY DEF Labels, Working
  <2>2. QED
    BY <1>0, <1>16, <2>1, IdleAckInv DEF Restart, Working
<1>17. CASE UNCHANGED vars
  BY <1>17 DEF vars, AckInv, HandOK, Settled
<1>18. QED
  BY <1>1, <1>3, <1>4, <1>5, <1>6, <1>7, <1>8, <1>9, <1>10, <1>11, <1>12,
     <1>13, <1>14, <1>15, <1>16, <1>17 DEF Next, Step, Failure

(* In every service that writes inside its handler, an acknowledged entry  *)
(* has reached the outcome its policy intends; only a batch write after    *)
(* the acknowledgement (Deferred) can lose one.                            *)
THEOREM AckAfterOutcome == Spec => []AckedNeverLost
<1>. DEFINE IInv == TypeInv /\ OnceInv /\ (~Deferred => AckInv)
<1>1. Init => IInv
  BY TypeInvInit, OnceInvInit, AckInvInit
<1>2. IInv /\ [Next]_vars => IInv'
  <2>1. [Next]_vars => Deferred' = Deferred
    BY PolicyKept DEF SamePolicy
  <2>2. QED
    BY <2>1, TypeInvNext, OnceInvNext, AckInvNext
<1>3. IInv => AckedNeverLost
  <2>1. TypeInv => 1 .. last \subseteq Entries
    BY BoundAssumption DEF TypeInv, TypeOK, Entries
  <2>2. TypeInv => \A i \in 1 .. last : i <= last
    OBVIOUS
  <2>3. QED
    BY <2>1, <2>2 DEF AckInv, AckedNeverLost
<1>4. QED
  BY <1>1, <1>2, <1>3, PTL DEF Spec

-----------------------------------------------------------------------------
(* Why a pending entry was failed or dropped: a loop finishes each entry   *)
(* of its batch before it leaves it, and what it leaves in the PEL it has  *)
(* written down as failed, or a fault has as dropped.                      *)

(* A loop takes its hand off an entry only when it leaves the PEL or has a *)
(* reason to stay.                                                         *)
LEMMA StrandStep ==
  ASSUME StrandedOnlyByFault, NEW c \in Consumers,
         \A d \in Consumers \ {c} : InHand(d)' = InHand(d),
         failed \subseteq failed', dropped \subseteq dropped', bad \subseteq bad', SamePolicy,
         \A i \in pel' \ pel : i \in InHand(c)' \cup dropped',
         \A i \in InHand(c) : \/ i \in InHand(c)' \cup failed' \cup dropped'
                              \/ i \notin pel'
                              \/ i \in bad' /\ BadFate = "keep"
  PROVE  StrandedOnlyByFault'
<1> SUFFICES ASSUME NEW i \in pel'
             PROVE  \/ \E d \in Consumers : i \in InHand(d)'
                    \/ i \in failed' \cup dropped'
                    \/ i \in bad' /\ BadFate' = "keep"
  BY DEF StrandedOnlyByFault
<1>1. CASE i \in pel
  BY <1>1 DEF StrandedOnlyByFault, SamePolicy
<1>2. CASE i \notin pel
  BY <1>2
<1> QED
  BY <1>1, <1>2

(* What the batches look like after a loop moves. *)
LEMMA GotoHand ==
  ASSUME TypeInv, NEW c \in Consumers, NEW label \in Labels, Goto(c, label)
  PROVE  /\ \A d \in Consumers \ {c} : InHand(d)' = InHand(d)
         /\ InHand(c)' = IF label \in Working THEN pos[c] .. end[c] ELSE {}
  BY DEF TypeInv, TypeOK, Goto, InHand

LEMMA AdvanceHand ==
  ASSUME TypeInv, NEW c \in Consumers, pc[c] \in Working, Advance(c)
  PROVE  /\ \A d \in Consumers \ {c} : InHand(d)' = InHand(d)
         /\ InHand(c)' = InHand(c) \ {pos[c]}
<1>1. pos[c] \in Nat /\ end[c] \in Nat /\ pos[c] <= end[c]
  BY DEF TypeInv, TypeOK, Batches
<1>2. CASE pos[c] < end[c]
  BY <1>1, <1>2 DEF TypeInv, TypeOK, Advance, InHand, Working
<1>3. CASE ~(pos[c] < end[c])
  BY <1>1, <1>3 DEF TypeInv, TypeOK, Advance, Goto, InHand, Working
<1> QED
  BY <1>2, <1>3

(* A delivery puts the new pending entries in the batch of one loop, or    *)
(* they are dropped.                                                       *)
LEMMA StrandDeliver ==
  ASSUME TypeInv, StrandedOnlyByFault, SamePolicy, NEW c \in Consumers, NEW n \in 1 .. Count,
         Read(c, n) \/ ReadReplyLost(c, n)
  PROVE  StrandedOnlyByFault'
<1>1. /\ n \in Nat /\ last \in Nat /\ pc[c] = "read" /\ InHand(c) = {}
      /\ pel' = pel \cup (last + 1 .. last + n)
      /\ UNCHANGED <<bad, failed>> /\ dropped \subseteq dropped'
  BY CountAssumption DEF TypeInv, TypeOK, Read, ReadReplyLost, Deliver, InHand, Working
<1>2. CASE Read(c, n)
  <2>1. InHand(c)' = last + 1 .. last + n
    BY <1>2 DEF TypeInv, TypeOK, Read, InHand, Working
  <2>2. \A d \in Consumers \ {c} : InHand(d)' = InHand(d)
    BY <1>2 DEF TypeInv, TypeOK, Read, InHand
  <2> QED
    BY <1>1, <2>1, <2>2, StrandStep
<1>3. CASE ReadReplyLost(c, n)
  <2>1. \A d \in Consumers : InHand(d)' = InHand(d)
    BY <1>3 DEF ReadReplyLost, InHand
  <2>2. last + 1 .. last + n \subseteq dropped'
    BY <1>3 DEF ReadReplyLost
  <2> QED
    BY <1>1, <2>1, <2>2, StrandStep
<1> QED
  BY <1>2, <1>3

LEMMA StrandNext == TypeInv /\ StrandedOnlyByFault /\ [Next]_vars => StrandedOnlyByFault'
<1> SUFFICES ASSUME TypeInv, StrandedOnlyByFault, [Next]_vars
             PROVE  StrandedOnlyByFault'
  OBVIOUS
<1>p. SamePolicy
  BY PolicyKept
<1>w. Labels = {"handle", "ack", "dlq", "xack", "read", "post", "down"}
  BY DEF Labels, Working
<1>1. CASE Publish
  BY <1>1, <1>p DEF Publish, loopVars, StrandedOnlyByFault, InHand, SamePolicy
<1>2. ASSUME NEW c \in Consumers, NEW n \in 1 .. Count, Read(c, n) \/ ReadReplyLost(c, n)
      PROVE  StrandedOnlyByFault'
  BY <1>2, <1>p, StrandDeliver
<1>3. ASSUME NEW c \in Consumers, NEW label \in Labels, Goto(c, label),
             label \notin Working \/ pc[c] \notin Working => InHand(c) \subseteq dropped',
             pel' \subseteq pel, bad' = bad, failed \subseteq failed', dropped \subseteq dropped'
      PROVE  StrandedOnlyByFault'
  BY <1>3, <1>p, GotoHand, StrandStep DEF InHand
<1>4. ASSUME NEW c \in Consumers, pc[c] \in Working, Advance(c),
             \/ pos[c] \notin pel' \/ pos[c] \in failed' \cup dropped'
             \/ pos[c] \in bad /\ BadFate = "keep",
             pel' \subseteq pel, bad' = bad, failed \subseteq failed', dropped \subseteq dropped'
      PROVE  StrandedOnlyByFault'
  BY <1>4, <1>p, AdvanceHand, StrandStep
<1>5. ASSUME NEW c \in Consumers, HandleOk(c) PROVE StrandedOnlyByFault'
  BY <1>5, <1>3, <1>w DEF HandleOk, Calls, Working
<1>6. ASSUME NEW c \in Consumers, HandleBad(c) PROVE StrandedOnlyByFault'
  BY <1>6, <1>3, <1>4, <1>w, Fates DEF HandleBad, Calls, Working
<1>7. ASSUME NEW c \in Consumers, HandleError(c) PROVE StrandedOnlyByFault'
  BY <1>7, <1>3, <1>4, <1>w DEF HandleError, Calls, Working
<1>8. ASSUME NEW c \in Consumers, DlqAdd(c) PROVE StrandedOnlyByFault'
  BY <1>8, <1>3, <1>w DEF DlqAdd, Working
<1>9. ASSUME NEW c \in Consumers, DlqAddFails(c) PROVE StrandedOnlyByFault'
  BY <1>9, <1>3, <1>w DEF DlqAddFails, Abort, InHand, Working
<1>10. ASSUME NEW c \in Consumers, Ack(c) PROVE StrandedOnlyByFault'
  BY <1>10, <1>4 DEF Ack, Working
<1>11. ASSUME NEW c \in Consumers, AckFails(c) PROVE StrandedOnlyByFault'
  BY <1>11, <1>3, <1>4, <1>w DEF AckFails, Working
<1>12. ASSUME NEW c \in Consumers, ExceptAckFails(c) PROVE StrandedOnlyByFault'
  BY <1>12, <1>3, <1>w DEF ExceptAckFails, Abort, InHand, Working
<1>13. ASSUME NEW c \in Consumers, PostBatch(c) \/ PostBatchError(c) \/ Restart(c)
       PROVE  StrandedOnlyByFault'
  BY <1>13, <1>3, <1>w DEF PostBatch, PostBatchError, Restart, InHand, Working
<1>14. ASSUME NEW c \in Consumers, Crash(c) PROVE StrandedOnlyByFault'
  BY <1>14, <1>3, <1>w DEF Crash
<1>15. CASE UNCHANGED vars
  BY <1>15 DEF vars, StrandedOnlyByFault, InHand, BadFate
<1> QED
  BY <1>1, <1>2, <1>5, <1>6, <1>7, <1>8, <1>9, <1>10, <1>11, <1>12, <1>13, <1>14, <1>15
     DEF Next, Step, Failure

(* In every service a pending entry that nobody works on was failed by its *)
(* handler, taken by a fault, or kept on purpose: no loop skips one.       *)
THEOREM StrandedHasCause == Spec => []StrandedOnlyByFault
<1>1. Init => StrandedOnlyByFault
  BY DEF Init, StrandedOnlyByFault
<1> QED
  BY <1>1, TypeInvInit, TypeInvNext, StrandNext, PTL DEF Spec

-----------------------------------------------------------------------------
(* The loop implements Delivery.                                           *)

(* Nothing has happened to the entry yet. *)
Fresh(i) ==
  /\ i \notin applied \cup dlq \cup failed \cup dropped
  /\ attempts[i] = 0
  /\ \A c \in Consumers : i \notin buffer[c]

(* What a loop still has to call its handler on. *)
ToHandle(c) == {i \in InHand(c) : i > pos[c] \/ pc[c] = "handle"}

(* An entry meets its end once: those beyond the cursor or the position of *)
(* their loop are fresh, only rejected payloads are dead-lettered, and     *)
(* none of them is ever buffered.                                          *)
EndInv ==
  /\ \A i \in Entries : i > last => Fresh(i)
  /\ \A c \in Consumers : \A i \in ToHandle(c) : Fresh(i)
  /\ \A c \in Consumers : pc[c] = "dlq" =>
       /\ BadFate = "dlq" /\ pos[c] \in bad
       /\ pos[c] \notin applied \cup failed \cup dropped
  /\ dlq \subseteq bad
  /\ \A c \in Consumers : \A i \in buffer[c] : i <= last /\ i \notin bad

LEMMA EndInit == Init => EndInv
  BY DEF Init, EndInv, Fresh, ToHandle, InHand, Working

(* A loop changes what happened to entries of its own only: of its batch   *)
(* and its buffer.                                                         *)
LEMMA EndStep ==
  ASSUME TypeInv, OnceInv, EndInv, SamePolicy, NEW c \in Consumers,
         last' = last, bad' = bad,
         NEW Own, Own \subseteq InHand(c) \cup buffer[c],
         applied' \subseteq applied \cup Own, dlq' \subseteq dlq \cup Own,
         failed' \subseteq failed \cup Own, dropped' \subseteq dropped \cup Own,
         \A i \in Entries \ Own : attempts'[i] = attempts[i],
         \A d \in Consumers : buffer'[d] \subseteq buffer[d] \cup (Own \ bad),
         dlq' \subseteq bad,
         \A d \in Consumers \ {c} : pc'[d] = pc[d] /\ pos'[d] = pos[d] /\ end'[d] = end[d],
         ToHandle(c)' \subseteq ToHandle(c) \ Own,
         pc'[c] = "dlq" => /\ BadFate = "dlq" /\ pos'[c] \in bad
                           /\ pos'[c] \notin applied' \cup failed' \cup dropped'
  PROVE  EndInv'
<1>1. ASSUME NEW i \in Entries \ Own, Fresh(i) PROVE Fresh(i)'
  BY <1>1 DEF Fresh
<1>2. \A d \in Consumers : InHand(d) \subseteq 1 .. last /\ 1 .. last \subseteq Entries
  BY InHandIsEntries
<1>3. Own \subseteq 1 .. last
  BY <1>2 DEF EndInv, TypeInv, TypeOK, Entries
<1>4. ASSUME NEW d \in Consumers, d # c PROVE InHand(d) \cap InHand(c) = {}
  BY <1>4 DEF OnceInv, Disjoint, InHand, TypeInv, TypeOK, Batches
<1>5. \A i \in Entries : i > last' => Fresh(i)'
  <2>1. last \in Nat
    BY DEF TypeInv, TypeOK
  <2>2. \A i \in Entries : i > last => i \notin Own
    BY <1>3, <2>1 DEF Entries
  <2> QED
    BY <1>1, <2>2 DEF EndInv
<1>6. ASSUME NEW d \in Consumers, NEW i \in ToHandle(d)' PROVE Fresh(i)'
  <2>1. CASE d = c
    BY <1>1, <1>2, <1>6, <2>1 DEF EndInv, ToHandle
  <2>2. CASE d # c
    <3>1. i \in ToHandle(d)
      BY <1>6, <2>2 DEF ToHandle, InHand
    <3>2. i \notin Own
      BY <1>4, <2>2, <3>1 DEF EndInv, ToHandle, Fresh
    <3> QED
      BY <1>1, <1>2, <3>1, <3>2 DEF EndInv, ToHandle
  <2> QED
    BY <2>1, <2>2
<1>7. ASSUME NEW d \in Consumers, pc'[d] = "dlq"
      PROVE  /\ BadFate' = "dlq" /\ pos'[d] \in bad'
             /\ pos'[d] \notin applied' \cup failed' \cup dropped'
  <2>1. CASE d = c
    BY <1>7, <2>1 DEF SamePolicy
  <2>2. CASE d # c
    <3>1. pc[d] = "dlq" /\ pos'[d] = pos[d] /\ pos[d] \in InHand(d)
      BY <1>7, <2>2, InHandIsEntries DEF Working
    <3>2. pos[d] \notin Own
      BY <1>4, <2>2, <3>1 DEF EndInv
    <3> QED
      BY <3>1, <3>2 DEF EndInv, SamePolicy
  <2> QED
    BY <2>1, <2>2
<1>8. \A d \in Consumers : \A i \in buffer'[d] : i <= last' /\ i \notin bad'
  BY <1>3 DEF EndInv
<1> QED
  BY <1>5, <1>6, <1>7, <1>8 DEF EndInv

(* The last entry for which the handler was called is the one of the loop. *)
LEMMA MoveHandle ==
  ASSUME TypeInv, NEW c \in Consumers
  PROVE  /\ \A label \in Labels \ {"handle"} :
               Goto(c, label) /\ (label \in Working => pc[c] \in Working) =>
                 ToHandle(c)' \subseteq ToHandle(c) \ {pos[c]}
         /\ \A label \in Labels \ Working : Goto(c, label) => ToHandle(c)' = {}
         /\ pc[c] \in Working /\ Advance(c) =>
              ToHandle(c)' \subseteq ToHandle(c) \ {pos[c]} /\ pc'[c] # "dlq"
         /\ \A label \in Labels : Goto(c, label) => pc'[c] = label /\ pos'[c] = pos[c]
<1> USE DEF TypeInv, TypeOK
<1>1. \A label \in Labels : Goto(c, label) =>
        pc'[c] = label /\ pos'[c] = pos[c] /\ end'[c] = end[c]
  BY DEF Goto, Labels
<1>2. ASSUME NEW label \in Labels \ {"handle"}, Goto(c, label), label \in Working => pc[c] \in Working
      PROVE  ToHandle(c)' \subseteq ToHandle(c) \ {pos[c]}
  BY <1>1, <1>2 DEF ToHandle, InHand
<1>3. ASSUME NEW label \in Labels \ Working, Goto(c, label) PROVE ToHandle(c)' = {}
  BY <1>1, <1>3 DEF ToHandle, InHand
<1>4. ASSUME pc[c] \in Working, Advance(c)
      PROVE  ToHandle(c)' \subseteq ToHandle(c) \ {pos[c]} /\ pc'[c] # "dlq"
  <2>1. CASE pos[c] < end[c]
    <3>1. pos'[c] = pos[c] + 1 /\ end'[c] = end[c] /\ pc'[c] = "handle"
      BY <1>4, <2>1 DEF Advance
    <3> QED
      BY <1>4, <3>1 DEF ToHandle, InHand, Working
  <2>2. CASE ~(pos[c] < end[c])
    <3>1. Goto(c, "post") /\ "post" \in Labels \ Working
      BY <1>4, <2>2 DEF Advance, Labels, Working
    <3> QED
      BY <1>1, <1>3, <3>1
  <2> QED
    BY <2>1, <2>2
<1> QED
  BY <1>1, <1>2, <1>3, <1>4

(* A step with the entry in hand: the loop does something about it, and    *)
(* moves on within the batch or out of it.                                 *)
LEMMA CallStep ==
  ASSUME TypeInv, OnceInv, EndInv, SamePolicy, NEW c \in Consumers, pc[c] \in Working,
         last' = last, bad' = bad,
         applied' \subseteq applied \cup {pos[c]}, dlq' \subseteq dlq \cup {pos[c]},
         failed' \subseteq failed \cup {pos[c]}, dropped' \subseteq dropped \cup {pos[c]},
         attempts' \in {attempts, [attempts EXCEPT ![pos[c]] = @ + 1]},
         \A d \in Consumers : buffer'[d] \subseteq buffer[d] \cup ({pos[c]} \ bad),
         dlq' \subseteq bad,
         \/ Advance(c)
         \/ \E label \in Labels \ {"handle"} :
              /\ Goto(c, label)
              /\ label = "dlq" => /\ BadFate = "dlq" /\ pos[c] \in bad
                                  /\ pos[c] \notin applied' \cup failed' \cup dropped'
  PROVE  EndInv'
<1>1. \A d \in Consumers \ {c} : pc'[d] = pc[d] /\ pos'[d] = pos[d] /\ end'[d] = end[d]
  BY DEF Advance, Goto, TypeInv, TypeOK
<1>2. ToHandle(c)' \subseteq ToHandle(c) \ {pos[c]}
  BY MoveHandle
<1>3. pc'[c] = "dlq" => /\ BadFate = "dlq" /\ pos'[c] \in bad
                        /\ pos'[c] \notin applied' \cup failed' \cup dropped'
  BY MoveHandle
<1>4. {pos[c]} \subseteq InHand(c) \cup buffer[c] /\ pos[c] \in Entries
  BY InHandIsEntries
<1>5. \A i \in Entries \ {pos[c]} : attempts'[i] = attempts[i]
  BY DEF TypeInv, TypeOK
<1>6. PICK Own : Own = {pos[c]}
  OBVIOUS
<1> QED
  BY <1>1, <1>2, <1>3, <1>4, <1>5, <1>6, EndStep

(* A step in which the loop leaves its batch. *)
LEMMA LeaveStep ==
  ASSUME TypeInv, OnceInv, EndInv, SamePolicy, NEW c \in Consumers,
         UNCHANGED <<last, bad, attempts>>,
         applied' \subseteq applied \cup buffer[c], failed' \subseteq failed \cup buffer[c],
         dropped' \subseteq dropped \cup InHand(c) \cup buffer[c],
         dlq' \subseteq dlq \cup InHand(c), dlq' \subseteq bad,
         \A d \in Consumers : buffer'[d] \subseteq buffer[d],
         NEW label \in Labels \ Working, Goto(c, label)
  PROVE  EndInv'
<1>1. \A d \in Consumers \ {c} : pc'[d] = pc[d] /\ pos'[d] = pos[d] /\ end'[d] = end[d]
  BY DEF Goto, TypeInv, TypeOK
<1>2. ToHandle(c)' = {} /\ pc'[c] # "dlq"
  BY MoveHandle DEF Working
<1>3. PICK Own : Own = InHand(c) \cup buffer[c]
  OBVIOUS
<1> QED
  BY <1>1, <1>2, <1>3, EndStep

LEMMA EndNext == TypeInv /\ OnceInv /\ EndInv /\ [Next]_vars => EndInv'
<1> SUFFICES ASSUME TypeInv, OnceInv, EndInv, [Next]_vars PROVE EndInv'
  OBVIOUS
<1>p. SamePolicy
  BY PolicyKept
<1>w. Labels = {"handle", "ack", "dlq", "xack", "read", "post", "down"}
  BY DEF Labels, Working
<1>e. \A c \in Consumers : pc[c] \in Working =>
        /\ pos[c] \in Entries /\ pos[c] \in InHand(c) /\ pos[c] .. end[c] = InHand(c)
        /\ pc[c] = "handle" => Fresh(pos[c])
  BY InHandIsEntries DEF InHand, EndInv, ToHandle
<1>c. ASSUME NEW c \in Consumers, Calls(c)
      PROVE  /\ pc[c] \in Working /\ Fresh(pos[c])
             /\ pos[c] \notin applied \cup failed \cup dropped
             /\ attempts' = [attempts EXCEPT ![pos[c]] = @ + 1]
             /\ UNCHANGED <<last, bad, dlq, dropped>> /\ dlq' \subseteq bad
  BY <1>c, <1>e DEF Calls, EndInv, Fresh, Working
<1>1. CASE Publish
  <2>1. bad' \subseteq bad \cup {len + 1} /\ bad \subseteq bad'
        /\ UNCHANGED <<last, loopVars, attempts, applied, dlq, failed, dropped>>
    BY <1>1 DEF Publish
  <2>2. \A c \in Consumers : \A i \in buffer[c] : i # len + 1
    BY DEF EndInv, TypeInv, TypeOK, Entries
  <2> QED
    BY <1>p, <2>1, <2>2 DEF EndInv, Fresh, ToHandle, InHand, loopVars, SamePolicy
<1>2. ASSUME NEW c \in Consumers, NEW n \in 1 .. Count, Read(c, n) \/ ReadReplyLost(c, n)
      PROVE  EndInv'
  <2>1. /\ n \in Nat /\ n > 0 /\ last \in Nat /\ last' = last + n /\ pc[c] = "read"
        /\ UNCHANGED <<bad, buffer, attempts, applied, dlq, failed>>
        /\ \A d \in Consumers \ {c} : pc'[d] = pc[d] /\ pos'[d] = pos[d] /\ end'[d] = end[d]
        /\ dropped' \subseteq dropped \cup (last + 1 .. last + n)
    BY <1>2, CountAssumption DEF Read, ReadReplyLost, Deliver, TypeInv, TypeOK
  <2>2. \A i \in Entries : Fresh(i) /\ i \notin dropped' => Fresh(i)'
    BY <2>1 DEF Fresh
  <2>3. \A i \in Entries : i > last' => Fresh(i)'
    BY <2>1, <2>2 DEF EndInv, Fresh, Entries
  <2>4. ASSUME NEW d \in Consumers, NEW i \in ToHandle(d)' PROVE Fresh(i)'
    <3>1. CASE d # c
      <4>1. i \in ToHandle(d) /\ i \in Entries /\ i \in 1 .. last
        BY <2>1, <2>4, <3>1, InHandIsEntries DEF ToHandle, InHand
      <4> QED
        BY <2>1, <2>2, <4>1 DEF EndInv, Fresh
    <3>2. CASE d = c
      <4>1. Read(c, n)
        BY <1>2, <2>1, <2>4, <3>2 DEF ReadReplyLost, ToHandle, InHand, Working
      <4>2. i \in last + 1 .. last + n /\ dropped' = dropped
        BY <2>4, <3>2, <4>1 DEF Read, ToHandle, InHand, TypeInv, TypeOK
      <4>3. i \in Entries
        BY <1>2, <2>1, <4>2, BoundAssumption DEF Read, ReadReplyLost, Deliver, TypeInv, TypeOK, Entries
      <4> QED
        BY <2>1, <2>2, <4>2, <4>3 DEF EndInv, Fresh
    <3> QED
      BY <3>1, <3>2
  <2>5. ASSUME NEW d \in Consumers, pc'[d] = "dlq"
        PROVE  /\ BadFate' = "dlq" /\ pos'[d] \in bad'
               /\ pos'[d] \notin applied' \cup failed' \cup dropped'
    <3>1. d # c /\ pc[d] = "dlq"
      BY <1>2, <2>1, <2>5 DEF Read, ReadReplyLost, TypeInv, TypeOK
    <3>2. pos[d] \in 1 .. last
      BY <3>1, InHandIsEntries DEF Working
    <3> QED
      BY <1>p, <2>1, <3>1, <3>2 DEF EndInv, SamePolicy
  <2>6. ASSUME NEW d \in Consumers, NEW i \in buffer[d] PROVE i <= last' /\ i \notin bad'
    BY <2>1 DEF EndInv, TypeInv, TypeOK, Entries
  <2> QED
    BY <2>1, <2>3, <2>4, <2>5, <2>6 DEF EndInv
<1>3. ASSUME NEW c \in Consumers, HandleOk(c) PROVE EndInv'
  <2>1. pc[c] = "handle" /\ Goto(c, "ack") /\ pos[c] \notin bad /\ "ack" \in Labels
        /\ pc[c] \in Working
    BY <1>3, <1>w DEF HandleOk, Calls, Working
  <2>2. \A d \in Consumers : buffer'[d] \subseteq buffer[d] \cup ({pos[c]} \ bad)
    BY <1>3, <2>1 DEF HandleOk, TypeInv, TypeOK
  <2> QED
    BY <1>3, <1>p, <1>c, <2>1, <2>2, CallStep DEF HandleOk
<1>4. ASSUME NEW c \in Consumers, HandleBad(c) PROVE EndInv'
  <2>1. pc[c] = "handle" /\ pos[c] \in bad /\ {"dlq", "xack"} \subseteq Labels
        /\ pc[c] \in Working
    BY <1>4, <1>w DEF HandleBad, Calls, Working
  <2>2. (BadFate = "dlq" /\ Goto(c, "dlq")) \/ Goto(c, "xack") \/ Advance(c)
    BY <1>4, Fates DEF HandleBad
  <2> QED
    BY <1>4, <1>p, <1>c, <2>1, <2>2, CallStep DEF HandleBad
<1>5. ASSUME NEW c \in Consumers, HandleError(c) PROVE EndInv'
  <2>1. pc[c] = "handle" /\ "xack" \in Labels /\ pc[c] \in Working
    BY <1>5, <1>w DEF HandleError, Calls, Working
  <2> QED
    BY <1>5, <1>p, <1>c, <2>1, CallStep DEF HandleError
<1>6. ASSUME NEW c \in Consumers, DlqAdd(c) PROVE EndInv'
  <2>1. pc[c] = "dlq" /\ "xack" \in Labels /\ pos[c] \in bad
    BY <1>6, <1>w DEF DlqAdd, EndInv
  <2> QED
    BY <1>6, <1>p, <2>1, CallStep DEF DlqAdd, EndInv, Working
<1>7. ASSUME NEW c \in Consumers, Ack(c) \/ AckFails(c) PROVE EndInv'
  <2>1. pc[c] \in {"ack", "xack"} /\ "xack" \in Labels
    BY <1>7, <1>w DEF Ack, AckFails
  <2> QED
    BY <1>7, <1>p, <2>1, CallStep DEF Ack, AckFails, EndInv, Working
<1>8. ASSUME NEW c \in Consumers, DlqAddFails(c) \/ ExceptAckFails(c) PROVE EndInv'
  <2>1. pc[c] \in Working /\ Goto(c, "read") /\ "read" \in Labels \ Working
        /\ dropped' = dropped \cup InHand(c) /\ dlq' \subseteq dlq \cup InHand(c)
    BY <1>8, <1>e, <1>w DEF DlqAddFails, ExceptAckFails, Abort, Working
  <2>2. dlq' \subseteq bad
    BY <1>8 DEF DlqAddFails, ExceptAckFails, EndInv
  <2> QED
    BY <1>8, <1>p, <2>1, <2>2, LeaveStep DEF DlqAddFails, ExceptAckFails
<1>9. ASSUME NEW c \in Consumers, PostBatch(c) \/ PostBatchError(c) \/ Crash(c) \/ Restart(c)
      PROVE  EndInv'
  <2>1. /\ \E label \in Labels \ Working : Goto(c, label)
        /\ \A d \in Consumers : buffer'[d] \subseteq buffer[d]
    BY <1>9, <1>w DEF PostBatch, PostBatchError, Crash, Restart, Working, TypeInv, TypeOK
  <2>2. UNCHANGED <<last, bad, attempts, dlq>>
    BY <1>9 DEF PostBatch, PostBatchError, Crash, Restart
  <2>3. /\ applied' \subseteq applied \cup buffer[c]
        /\ failed' \subseteq failed \cup buffer[c]
        /\ dropped' \subseteq dropped \cup InHand(c) \cup buffer[c]
    BY <1>9 DEF PostBatch, PostBatchError, Crash, Restart
  <2> QED
    BY <1>p, <2>1, <2>2, <2>3, LeaveStep DEF EndInv
<1>10. CASE UNCHANGED vars
  BY <1>10, <1>p DEF vars, EndInv, Fresh, ToHandle, InHand, SamePolicy
<1> QED
  BY <1>1, <1>2, <1>3, <1>4, <1>5, <1>6, <1>7, <1>8, <1>9, <1>10 DEF Next, Step, Failure

LEMMA Cursor == TypeInv => last \in Nat /\ len \in Nat /\ last <= len /\ Entries \subseteq Nat
  BY BoundAssumption DEF TypeInv, TypeOK, Entries

LEMMA StatusTypes ==
  ASSUME TypeInv, NEW i \in Entries
  PROVE  /\ StatusOf(i) \in AbstractDelivery!Status
         /\ i <= last => StatusOf(i) \in {"taken"} \cup AbstractDelivery!Final
  BY Cursor DEF StatusOf, AbstractDelivery!Status, AbstractDelivery!Final

(* An entry in a buffer or still to be handled has not met its end.        *)
LEMMA OpenEntries ==
  ASSUME TypeInv, EndInv, NEW i \in Entries, i <= last
  PROVE  /\ Fresh(i) => StatusOf(i) = "taken"
         /\ \A c \in Consumers : i \in buffer[c] => StatusOf(i) \in {"taken", "done"}
         /\ \A c \in Consumers : pc[c] = "dlq" /\ i = pos[c] => i \in dlq \/ StatusOf(i) = "taken"
  BY Cursor DEF EndInv, Fresh, StatusOf, Rejected, GivenUp

(* What is not done to an entry cannot change how it ended, and a failure  *)
(* or a loss of something taken is an end.                                 *)
LEMMA FinishStep ==
  ASSUME TypeInv, EndInv, UNCHANGED <<len, last, bad>>, SamePolicy,
         NEW W, \A i \in W : i \in Entries => i <= last /\ StatusOf(i) = "taken",
         failed \subseteq failed', dropped \subseteq dropped',
         \A i \in Entries \ W :
           /\ i \in applied' <=> i \in applied
           /\ i \in dlq' <=> i \in dlq
           /\ attempts'[i] = attempts[i]
           /\ \A c \in Consumers : i \in buffer'[c] => i \in buffer[c]
  PROVE  AbstractDelivery!Finish
<1> USE DEF AbstractDelivery!Status, AbstractDelivery!Final
<1>1. ASSUME NEW i \in Entries
      PROVE  /\ StatusOf(i)' \in AbstractDelivery!Status
             /\ \/ StatusOf(i)' = StatusOf(i)
                \/ StatusOf(i) = "taken" /\ StatusOf(i)' \in AbstractDelivery!Final
  <2>1. StatusOf(i)' \in AbstractDelivery!Status
    BY DEF StatusOf
  <2>2. CASE i > last
    BY <2>1, <2>2 DEF StatusOf
  <2>3. CASE i <= last /\ i \in W
    <3>1. ~(i > last') /\ ~(i > len')
      BY <2>3, Cursor
    <3> QED
      BY <2>1, <2>3, <3>1 DEF StatusOf
  <2>4. CASE i <= last /\ i \notin W
    <3>1. ~(i > last) /\ ~(i > len)
      BY <2>4, Cursor
    <3>2. Rejected(i)' <=> Rejected(i)
      BY <2>4 DEF Rejected, SamePolicy
    <3>3. GivenUp(i) => GivenUp(i)'
      BY <2>4 DEF GivenUp
    <3> QED
      BY <2>1, <2>4, <3>1, <3>2, <3>3 DEF StatusOf
  <2> QED
    BY <2>1, <2>2, <2>3, <2>4, Cursor
<1> QED
  BY <1>1 DEF AbstractDelivery!Finish

LEMMA PublishPuts ==
  ASSUME TypeInv, EndInv, SamePolicy, Publish
  PROVE  \E i \in Entries : AbstractDelivery!Put(i)
<1>1. len + 1 \in Entries /\ len \in Nat /\ last <= len
  BY Cursor, BoundAssumption DEF Publish, Entries, TypeInv, TypeOK
<1>2. StatusOf(len + 1) = "absent" /\ \A j \in Entries : j < len + 1 => StatusOf(j) # "absent"
  BY <1>1, Cursor DEF StatusOf
<1>3. ASSUME NEW i \in Entries
      PROVE  StatusOf(i)' = IF i = len + 1 THEN "queued" ELSE StatusOf(i)
  <2>1. /\ len' = len + 1 /\ bad \subseteq bad' /\ bad' \subseteq bad \cup {len + 1}
        /\ UNCHANGED <<last, attempts, applied, dlq, failed, dropped, buffer>>
    BY DEF Publish, loopVars
  <2>2. CASE i > last
    BY <1>1, <2>1, <2>2, Cursor DEF StatusOf
  <2>3. CASE i <= last
    <3>1. ~(i > last) /\ ~(i > len) /\ ~(i > len + 1) /\ i # len + 1
      BY <1>1, <2>3, Cursor
    <3>2. (Rejected(i)' <=> Rejected(i)) /\ (GivenUp(i)' <=> GivenUp(i))
      BY <2>1, <3>1 DEF Rejected, GivenUp, SamePolicy
    <3> QED
      BY <2>1, <3>1, <3>2 DEF StatusOf
  <2> QED
    BY <2>2, <2>3, Cursor
<1> QED
  BY <1>1, <1>2, <1>3 DEF AbstractDelivery!Put

LEMMA DeliverTakes ==
  ASSUME TypeInv, EndInv, SamePolicy, NEW c \in Consumers, NEW n \in 1 .. Count,
         Read(c, n) \/ ReadReplyLost(c, n)
  PROVE  \E k \in Entries : AbstractDelivery!Take(k)
<1>1. /\ n \in Nat /\ n > 0 /\ last' = last + n /\ last + n <= len
      /\ UNCHANGED <<len, bad, buffer, attempts, applied, dlq, failed>>
  BY CountAssumption, Cursor DEF Read, ReadReplyLost, Deliver
<1>2. last + n \in Entries
  BY <1>1, Cursor, BoundAssumption DEF Entries, TypeInv, TypeOK
<1>3. PICK fate \in {"taken", "lost"} :
        dropped' = IF fate = "lost" THEN dropped \cup (last + 1 .. last + n) ELSE dropped
  BY DEF Read, ReadReplyLost
<1>4. ASSUME NEW i \in Entries
      PROVE  StatusOf(i)' = IF i <= last + n /\ StatusOf(i) = "queued" THEN fate ELSE StatusOf(i)
  <2>1. CASE i > last + n
    BY <1>1, <2>1, Cursor DEF StatusOf
  <2>2. CASE last < i /\ i <= last + n
    <3>1. Fresh(i) /\ i \in last + 1 .. last + n
      BY <1>1, <2>2, Cursor DEF EndInv
    <3>2. StatusOf(i) = "queued" /\ ~(i > len') /\ ~(i > last') /\ i \notin applied'
      BY <1>1, <2>2, <3>1, Cursor DEF StatusOf, Fresh
    <3>3. ~Rejected(i)' /\ (GivenUp(i)' <=> fate = "lost")
      BY <1>1, <1>3, <3>1 DEF Rejected, GivenUp, Fresh
    <3> QED
      BY <1>3, <2>2, <3>2, <3>3 DEF StatusOf
  <2>3. CASE i <= last
    <3>1. ~(i > last) /\ ~(i > len) /\ ~(i > last') /\ i \notin last + 1 .. last + n
      BY <1>1, <2>3, Cursor
    <3>2. (Rejected(i)' <=> Rejected(i)) /\ (GivenUp(i)' <=> GivenUp(i))
      BY <1>1, <1>3, <3>1 DEF Rejected, GivenUp, SamePolicy
    <3> QED
      BY <1>1, <3>1, <3>2 DEF StatusOf
  <2> QED
    BY <1>1, <2>1, <2>2, <2>3, Cursor
<1> QED
  BY <1>2, <1>4 DEF AbstractDelivery!Take

LEMMA LoopFinishes ==
  ASSUME TypeInv, EndInv, SamePolicy, NEW c \in Consumers,
         \/ Restart(c) \/ Crash(c) \/ PostBatch(c) \/ PostBatchError(c)
         \/ Ack(c) \/ AckFails(c) \/ ExceptAckFails(c) \/ DlqAdd(c) \/ DlqAddFails(c)
         \/ HandleOk(c) \/ HandleBad(c) \/ HandleError(c)
  PROVE  AbstractDelivery!Finish
<1>1. CASE HandleOk(c) \/ HandleBad(c) \/ HandleError(c)
  <2>1. /\ UNCHANGED <<len, last, bad, dlq, dropped>> /\ pc[c] = "handle"
        /\ attempts' = [attempts EXCEPT ![pos[c]] = @ + 1]
    BY <1>1 DEF HandleOk, HandleBad, HandleError, Calls
  <2>2. pos[c] \in Entries /\ pos[c] <= last /\ StatusOf(pos[c]) = "taken"
    <3>1. pos[c] \in ToHandle(c) /\ pos[c] \in Entries /\ pos[c] <= last
      BY <2>1, InHandIsEntries, Cursor DEF ToHandle, Working
    <3> QED
      BY <3>1, OpenEntries DEF EndInv
  <2>3. /\ failed \subseteq failed' /\ applied \subseteq applied' /\ applied' \subseteq applied \cup {pos[c]}
        /\ \A d \in Consumers : buffer'[d] \subseteq buffer[d] \cup {pos[c]}
    BY <1>1 DEF HandleOk, HandleBad, HandleError, TypeInv, TypeOK
  <2>4. \A i \in Entries \ {pos[c]} : attempts'[i] = attempts[i]
    BY <2>1, <2>2 DEF TypeInv, TypeOK
  <2>5. PICK W : W = {pos[c]}
    OBVIOUS
  <2> QED
    BY <2>1, <2>2, <2>3, <2>4, <2>5, FinishStep
<1>2. CASE DlqAdd(c) \/ DlqAddFails(c)
  <2>1. /\ UNCHANGED <<len, last, bad, failed, applied, attempts, buffer>> /\ pc[c] = "dlq"
        /\ dropped \subseteq dropped' /\ dlq' \in {dlq, dlq \cup {pos[c]}}
    BY <1>2 DEF DlqAdd, DlqAddFails, Abort
  <2>2. pos[c] \in Entries /\ pos[c] <= last /\ (pos[c] \in dlq \/ StatusOf(pos[c]) = "taken")
    <3>1. pos[c] \in Entries /\ pos[c] <= last
      BY <2>1, InHandIsEntries, Cursor DEF Working
    <3> QED
      BY <2>1, <3>1, OpenEntries
  <2>3. PICK W : W = {pos[c]} \ dlq
    OBVIOUS
  <2> QED
    BY <2>1, <2>2, <2>3, FinishStep
<1>3. CASE PostBatch(c)
  <2>1. /\ UNCHANGED <<len, last, bad, failed, attempts, dropped, dlq>>
        /\ applied' = applied \cup buffer[c] /\ \A d \in Consumers : buffer'[d] \subseteq buffer[d]
    BY <1>3 DEF PostBatch, TypeInv, TypeOK
  <2>2. PICK W : W = buffer[c] \ applied
    OBVIOUS
  <2>3. ASSUME NEW i \in W, i \in Entries PROVE i <= last /\ StatusOf(i) = "taken"
    <3>1. i <= last /\ StatusOf(i) \in {"taken", "done"}
      BY <2>2, <2>3, OpenEntries DEF EndInv
    <3>2. ~(i > last) /\ ~(i > len) /\ i \notin applied
      BY <2>2, <2>3, <3>1, Cursor
    <3> QED
      BY <3>1, <3>2 DEF StatusOf
  <2> QED
    BY <2>1, <2>2, <2>3, FinishStep
<1>4. CASE \/ Restart(c) \/ Crash(c) \/ PostBatchError(c)
           \/ Ack(c) \/ AckFails(c) \/ ExceptAckFails(c)
  <2>1. /\ UNCHANGED <<len, last, bad, applied, dlq, attempts>>
        /\ failed \subseteq failed' /\ dropped \subseteq dropped'
        /\ \A d \in Consumers : buffer'[d] \subseteq buffer[d]
    BY <1>4 DEF Restart, Crash, PostBatchError, Ack, AckFails, ExceptAckFails, Abort, TypeInv, TypeOK
  <2>2. PICK W : W = {}
    OBVIOUS
  <2> QED
    BY <2>1, <2>2, FinishStep
<1> QED
  BY <1>1, <1>2, <1>3, <1>4

(* However many replicas share the group and whatever fails, they take     *)
(* entries in stream order, each once, and what becomes of one is final:   *)
(* the loop of every service implements Delivery.                          *)
THEOREM DeliveryImplemented == Spec => ImplementsDelivery
<1>1. Init => AbstractDelivery!Init
  <2>1. Init => \A i \in Entries : StatusOf(i) = "absent"
    BY BoundAssumption DEF Init, StatusOf, Entries
  <2> QED
    BY <2>1 DEF AbstractDelivery!Init
<1>2. TypeInv /\ EndInv /\ [Next]_vars =>
        AbstractDelivery!Next \/ UNCHANGED [i \in Entries |-> StatusOf(i)]
  <2> SUFFICES ASSUME TypeInv, EndInv, [Next]_vars
               PROVE  AbstractDelivery!Next \/ UNCHANGED [i \in Entries |-> StatusOf(i)]
    OBVIOUS
  <2>1. SamePolicy
    BY PolicyKept
  <2>2. CASE UNCHANGED vars
    BY <2>1, <2>2 DEF vars, StatusOf, Rejected, GivenUp, SamePolicy
  <2>3. CASE Next
    BY <2>1, <2>3, PublishPuts, DeliverTakes, LoopFinishes
       DEF Next, Step, Failure, AbstractDelivery!Next
  <2> QED
    BY <2>2, <2>3
<1>3. Init => TypeInv /\ OnceInv /\ EndInv
  BY TypeInvInit, OnceInvInit, EndInit
<1> QED
  BY <1>1, <1>2, <1>3, TypeInvNext, OnceInvNext, EndNext, PTL
     DEF Spec, ImplementsDelivery, AbstractDelivery!Spec
=============================================================================
