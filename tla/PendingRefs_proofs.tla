-------------------------- MODULE PendingRefs_proofs --------------------------
(***************************************************************************)
(* Proofs about the retry queue of the symbol-resolver, for any number of  *)
(* replicas and references.                                                *)
(***************************************************************************)
EXTENDS PendingRefs, TLAPS

(* Pushing an entry on a list adds its reference to those of the list. *)
LEMMA AppendRefs ==
  ASSUME NEW q \in Seq(Entries), NEW e \in Entries
  PROVE  /\ Append(q, e) \in Seq(Entries)
         /\ RefsIn(Append(q, e)) = RefsIn(q) \cup {e.ref}
         /\ NoRepeats(q) /\ e.ref \notin RefsIn(q) => NoRepeats(Append(q, e))
<1> DEFINE a == Append(q, e)
<1>1. /\ Len(q) \in Nat /\ DOMAIN q = 1 .. Len(q) /\ DOMAIN a = 1 .. Len(q) + 1
      /\ a \in Seq(Entries) /\ a[Len(q) + 1] = e
      /\ \A i \in 1 .. Len(q) : a[i] = q[i]
  OBVIOUS
<1> HIDE DEF a
<1>2. RefsIn(a) = RefsIn(q) \cup {e.ref}
  <2>1. ASSUME NEW i \in DOMAIN a PROVE a[i].ref \in RefsIn(q) \cup {e.ref}
    <3>1. CASE i = Len(q) + 1 BY <1>1, <3>1
    <3>2. CASE i \in 1 .. Len(q) BY <1>1, <3>2 DEF RefsIn
    <3> QED BY <1>1, <3>1, <3>2
  <2>2. ASSUME NEW i \in DOMAIN q PROVE q[i].ref \in RefsIn(a)
    <3> i \in DOMAIN a /\ a[i] = q[i]
      BY <1>1
    <3> QED BY DEF RefsIn
  <2>3. e.ref \in RefsIn(a)
    <3> Len(q) + 1 \in DOMAIN a
      BY <1>1
    <3> QED BY <1>1 DEF RefsIn
  <2> QED BY <2>1, <2>2, <2>3 DEF RefsIn
<1>3. ASSUME NoRepeats(q), e.ref \notin RefsIn(q) PROVE NoRepeats(a)
  <2> SUFFICES ASSUME NEW i \in DOMAIN a, NEW j \in DOMAIN a, a[i].ref = a[j].ref
               PROVE  i = j
    BY DEF NoRepeats
  <2>1. \A k \in DOMAIN q : q[k].ref # e.ref
    BY <1>3 DEF RefsIn
  <2>2. CASE i \in DOMAIN q /\ j \in DOMAIN q
    BY <1>1, <1>3, <2>2 DEF NoRepeats
  <2> QED BY <1>1, <2>1, <2>2
<1> QED BY <1>1, <1>2, <1>3 DEF a

(* Taking the first entry of a list removes its reference, which the rest  *)
(* of a list without repetitions does not contain.                         *)
LEMMA TailRefs ==
  ASSUME NEW q \in Seq(Entries), q # <<>>
  PROVE  /\ Tail(q) \in Seq(Entries) /\ Head(q) \in Entries
         /\ RefsIn(q) = {Head(q).ref} \cup RefsIn(Tail(q))
         /\ NoRepeats(q) => NoRepeats(Tail(q)) /\ Head(q).ref \notin RefsIn(Tail(q))
<1>1. /\ Len(q) \in Nat /\ Len(q) > 0 /\ Head(q) = q[1] /\ q[1] \in Entries
      /\ Tail(q) \in Seq(Entries) /\ Len(Tail(q)) = Len(q) - 1
      /\ \A i \in 1 .. Len(q) - 1 : Tail(q)[i] = q[i + 1]
      /\ DOMAIN q = 1 .. Len(q) /\ DOMAIN Tail(q) = 1 .. Len(q) - 1
  OBVIOUS
<1>2. RefsIn(q) \subseteq {Head(q).ref} \cup RefsIn(Tail(q))
  <2> SUFFICES ASSUME NEW i \in 1 .. Len(q), i # 1
               PROVE  q[i].ref \in RefsIn(Tail(q))
    BY <1>1 DEF RefsIn
  <2> i - 1 \in 1 .. Len(q) - 1 /\ Tail(q)[i - 1] = q[i]
    BY <1>1
  <2> QED BY <1>1 DEF RefsIn
<1>3. {Head(q).ref} \cup RefsIn(Tail(q)) \subseteq RefsIn(q)
  <2>1. Head(q).ref \in RefsIn(q)
    BY <1>1 DEF RefsIn
  <2>2. ASSUME NEW i \in 1 .. Len(q) - 1
        PROVE  Tail(q)[i].ref \in RefsIn(q)
    <3> i + 1 \in 1 .. Len(q) /\ Tail(q)[i] = q[i + 1]
      BY <1>1
    <3> QED BY <1>1 DEF RefsIn
  <2> QED BY <1>1, <2>1, <2>2 DEF RefsIn
<1>4. ASSUME NoRepeats(q) PROVE NoRepeats(Tail(q))
  <2> SUFFICES ASSUME NEW i \in 1 .. Len(q) - 1, NEW j \in 1 .. Len(q) - 1,
                      Tail(q)[i].ref = Tail(q)[j].ref
               PROVE  i = j
    BY <1>1 DEF NoRepeats
  <2> /\ i + 1 \in DOMAIN q /\ j + 1 \in DOMAIN q
      /\ q[i + 1].ref = q[j + 1].ref
    BY <1>1
  <2> i + 1 = j + 1
    BY <1>4 DEF NoRepeats
  <2> QED OBVIOUS
<1>5. ASSUME NoRepeats(q) PROVE Head(q).ref \notin RefsIn(Tail(q))
  <2> SUFFICES ASSUME NEW i \in 1 .. Len(q) - 1, Tail(q)[i].ref = q[1].ref
               PROVE  FALSE
    BY <1>1 DEF RefsIn
  <2> 1 \in DOMAIN q /\ i + 1 \in DOMAIN q /\ q[i + 1].ref = q[1].ref
    BY <1>1
  <2> i + 1 = 1
    BY <1>5 DEF NoRepeats
  <2> QED OBVIOUS
<1> QED BY <1>1, <1>2, <1>3, <1>4, <1>5

(* The empty list holds no reference. *)
LEMMA EmptyRefs == RefsIn(<<>>) = {} /\ NoRepeats(<<>>) /\ <<>> \in Seq(Entries)
  BY DEF RefsIn, NoRepeats

(* References and their order survive the passing of a day. *)
LEMMA AgedRefs ==
  ASSUME NEW q \in Seq(Entries), NEW aq,
         aq = [i \in DOMAIN q |-> [q[i] EXCEPT !.old = TRUE]]
  PROVE  /\ aq \in Seq(Entries)
         /\ RefsIn(aq) = RefsIn(q)
         /\ NoRepeats(q) => NoRepeats(aq)
<1>1. DOMAIN q = 1 .. Len(q) /\ Len(q) \in Nat /\ \A i \in DOMAIN q : q[i] \in Entries
  OBVIOUS
<1>2. \A i \in DOMAIN q : aq[i] \in Entries /\ aq[i].ref = q[i].ref
  BY <1>1 DEF Entries
<1>3. aq \in [1 .. Len(q) -> Entries] /\ DOMAIN aq = DOMAIN q
  BY <1>1, <1>2
<1>4. aq \in Seq(Entries)
  BY <1>1, <1>3
<1> QED BY <1>2, <1>3, <1>4 DEF RefsIn, NoRepeats

(* The references of a list are references. *)
LEMMA RefsTyped ==
  ASSUME NEW q \in Seq(Entries)
  PROVE  RefsIn(q) \subseteq Refs
<1> SUFFICES ASSUME NEW i \in DOMAIN q PROVE q[i].ref \in Refs
  BY DEF RefsIn
<1> q[i] \in Entries
  OBVIOUS
<1> QED BY DEF Entries

(* Counting an attempt changes nothing else of an entry. *)
LEMMA CountedEntry ==
  ASSUME NEW e \in Entries
  PROVE  /\ Counted(e) \in Entries /\ Counted(e).ref = e.ref /\ e.ref \in Refs
         /\ Counted(e).attempt_count = e.attempt_count + 1 /\ Counted(e).old = FALSE
  BY DEF Counted, Entries

-----------------------------------------------------------------------------
(* Types.                                                                  *)

(* Every variable keeps its type: whatever the symbol-resolver does to its *)
(* lists, they hold well-formed entries.                                   *)
LEMMA TypeInit == Init => TypeOK
  BY BoundsAssumption, EmptyRefs DEF Init, TypeOK

LEMMA TypeStep == TypeOK /\ [Next]_vars => TypeOK'
<1> SUFFICES ASSUME TypeOK, [Next]_vars PROVE TypeOK'
  OBVIOUS
<1> USE DEF TypeOK
<1>1. CASE UNCHANGED vars
  BY <1>1 DEF vars
<1>2. ASSUME NEW r \in Refs, Neo4jChanges(r) PROVE TypeOK'
  BY <1>2, BoundsAssumption DEF Neo4jChanges, Change
<1>3. CASE DayPasses
  <2> queue' \in Seq(Entries)
    BY <1>3, AgedRefs DEF DayPasses
  <2> aged' \subseteq Refs
    BY <1>3, RefsTyped DEF DayPasses
  <2> QED BY <1>3, BoundsAssumption DEF DayPasses, Change
<1>4. ASSUME NEW w \in Workers, NEW S \in SUBSET unseen, Take(w, S) PROVE TypeOK'
  BY <1>4 DEF Take, Goto
<1>5. ASSUME NEW w \in Workers, NEW r \in todo[w], TryImport(w, r) PROVE TypeOK'
  <2> r \in Refs /\ [ref |-> r, attempt_count |-> 0, old |-> FALSE] \in Entries
    BY <1>5 DEF Entries
  <2> queue' \in Seq(Entries)
    BY <1>5, AppendRefs DEF TryImport, FromImport
  <2> QED BY <1>5 DEF TryImport, FromImport
<1>6. ASSUME NEW w \in Workers, FetchAll(w) PROVE TypeOK'
  BY <1>6, EmptyRefs DEF FetchAll, Goto
<1>7. ASSUME NEW w \in Workers, Retrying(w) \/ (pc[w] = "requeue" /\ batch[w] # <<>>)
      PROVE  Tail(batch[w]) \in Seq(Entries) /\ Current(w) \in Entries /\ Current(w).ref \in Refs
  BY <1>7, TailRefs DEF Retrying, Current, Entries
<1>8. ASSUME NEW w \in Workers, RetryExpired(w) PROVE TypeOK'
  BY <1>8, <1>7 DEF RetryExpired, NextEntry
<1>9. ASSUME NEW w \in Workers, RetryResolves(w) PROVE TypeOK'
  BY <1>9, <1>7 DEF RetryResolves, NextEntry
<1>10. ASSUME NEW w \in Workers, RetryMisses(w) PROVE TypeOK'
  <2> /\ Current(w) \in Entries /\ Current(w).ref \in Refs /\ Counted(Current(w)) \in Entries
      /\ Tail(batch[w]) \in Seq(Entries)
    BY <1>10, <1>7, CountedEntry DEF RetryMisses
  <2> queue' \in Seq(Entries)
    BY <1>10, AppendRefs DEF RetryMisses
  <2> QED BY <1>10 DEF RetryMisses, NextEntry
<1>11. ASSUME NEW w \in Workers, RetryRaises(w) PROVE TypeOK'
  BY <1>11, BoundsAssumption DEF RetryRaises, Goto, Fault
<1>12. ASSUME NEW w \in Workers, Requeue(w) PROVE TypeOK'
  <2> Current(w) \in Entries /\ Tail(batch[w]) \in Seq(Entries)
    BY <1>12, <1>7 DEF Requeue
  <2> queue' \in Seq(Entries)
    BY <1>12, AppendRefs DEF Requeue
  <2> QED BY <1>12 DEF Requeue, NextEntry
<1>13. ASSUME NEW w \in Workers, Finish(w) PROVE TypeOK'
  BY <1>13 DEF Finish, Goto
<1>14. ASSUME NEW w \in Workers, GiveUp(w) PROVE TypeOK'
  <2> RefsIn(batch[w]) \subseteq Refs
    BY RefsTyped
  <2> QED BY <1>14, EmptyRefs, BoundsAssumption DEF GiveUp, Goto, Fault
<1> QED BY <1>1, <1>2, <1>3, <1>4, <1>5, <1>6, <1>8, <1>9, <1>10, <1>11, <1>12, <1>13,
           <1>14 DEF Next, Work

(* The symbol-resolver keeps its types, for any number of replicas.        *)
THEOREM TypeCorrect == Spec => []TypeOK
  BY TypeInit, TypeStep, PTL DEF Spec

-----------------------------------------------------------------------------
(* Every reference is in one place.                                        *)

Unseen  == <<"unseen", "shared">>
Queue   == <<"queue", "shared">>
Written == <<"written", "shared">>
Dropped == <<"dropped", "shared">>
Lost    == <<"lost", "shared">>
Todo(w) == <<"todo", w>>
Batch(w) == <<"batch", w>>

(* The places, one by one. *)
LEMMA PlaceCases ==
  /\ {Unseen, Queue, Written, Dropped, Lost} \subseteq Places
  /\ \A w \in Workers : {Todo(w), Batch(w)} \subseteq Places
  /\ \A p \in Places : \/ p \in {Unseen, Queue, Written, Dropped, Lost}
                       \/ \E w \in Workers : p \in {Todo(w), Batch(w)}
  BY DEF Places, Unseen, Queue, Written, Dropped, Lost, Todo, Batch

LEMMA PlacesDiffer ==
  /\ Unseen \notin {Queue, Written, Dropped, Lost} /\ Queue \notin {Written, Dropped, Lost}
  /\ Written \notin {Dropped, Lost} /\ Dropped # Lost
  /\ \A w : {Todo(w), Batch(w)} \cap {Unseen, Queue, Written, Dropped, Lost} = {}
  /\ \A v, w : Todo(v) # Batch(w) /\ (Todo(v) = Todo(w) => v = w) /\ (Batch(v) = Batch(w) => v = w)
  BY DEF Unseen, Queue, Written, Dropped, Lost, Todo, Batch

(* What it means for each to hold a reference, now and after a step. *)
LEMMA HoldsCases ==
  \A r :
        /\ Holds(Unseen, r) <=> r \in unseen
        /\ Holds(Queue, r) <=> r \in RefsIn(queue)
        /\ Holds(Written, r) <=> r \in written
        /\ Holds(Dropped, r) <=> r \in dropped
        /\ Holds(Lost, r) <=> r \in lost
        /\ \A w \in Workers : /\ Holds(Todo(w), r) <=> r \in todo[w]
                              /\ Holds(Batch(w), r) <=> r \in RefsIn(batch[w])
<1> TAKE r
<1>1. /\ Unseen[1] = "unseen" /\ Queue[1] = "queue" /\ Written[1] = "written"
      /\ Dropped[1] = "dropped" /\ Lost[1] = "lost"
  BY DEF Unseen, Queue, Written, Dropped, Lost
<1>2. /\ Holds(Unseen, r) <=> r \in unseen
      /\ Holds(Queue, r) <=> r \in RefsIn(queue)
      /\ Holds(Written, r) <=> r \in written
      /\ Holds(Dropped, r) <=> r \in dropped
      /\ Holds(Lost, r) <=> r \in lost
  BY <1>1 DEF Holds
<1>3. ASSUME NEW w \in Workers
      PROVE  /\ Holds(Todo(w), r) <=> r \in todo[w]
             /\ Holds(Batch(w), r) <=> r \in RefsIn(batch[w])
  <2> Todo(w)[1] = "todo" /\ Todo(w)[2] = w /\ Batch(w)[1] = "batch" /\ Batch(w)[2] = w
    BY DEF Todo, Batch
  <2> QED BY DEF Holds
<1> QED BY <1>2, <1>3

LEMMA HoldsCasesNext ==
  \A r :
        /\ Holds(Unseen, r)' <=> r \in unseen'
        /\ Holds(Queue, r)' <=> r \in RefsIn(queue')
        /\ Holds(Written, r)' <=> r \in written'
        /\ Holds(Dropped, r)' <=> r \in dropped'
        /\ Holds(Lost, r)' <=> r \in lost'
        /\ \A w \in Workers : /\ Holds(Todo(w), r)' <=> r \in todo'[w]
                              /\ Holds(Batch(w), r)' <=> r \in RefsIn(batch'[w])
<1> TAKE r
<1>1. /\ Unseen[1] = "unseen" /\ Queue[1] = "queue" /\ Written[1] = "written"
      /\ Dropped[1] = "dropped" /\ Lost[1] = "lost"
  BY DEF Unseen, Queue, Written, Dropped, Lost
<1>2. /\ Holds(Unseen, r)' <=> r \in unseen'
      /\ Holds(Queue, r)' <=> r \in RefsIn(queue')
      /\ Holds(Written, r)' <=> r \in written'
      /\ Holds(Dropped, r)' <=> r \in dropped'
      /\ Holds(Lost, r)' <=> r \in lost'
  BY <1>1 DEF Holds
<1>3. ASSUME NEW w \in Workers
      PROVE  /\ Holds(Todo(w), r)' <=> r \in todo'[w]
             /\ Holds(Batch(w), r)' <=> r \in RefsIn(batch'[w])
  <2> Todo(w)[1] = "todo" /\ Todo(w)[2] = w /\ Batch(w)[1] = "batch" /\ Batch(w)[2] = w
    BY DEF Todo, Batch
  <2> QED BY DEF Holds
<1> QED BY <1>2, <1>3

(* The invariant is kept when a set of references moves to one place and   *)
(* the others stay where they are.                                         *)
LEMMA Move ==
  ASSUME InOnePlace, NEW M \in SUBSET Refs, NEW d \in Places, NoneTwiceInAQueue',
         \A r \in Refs, p \in Places :
            Holds(p, r)' <=> IF r \in M THEN p = d ELSE Holds(p, r)
  PROVE  InOnePlace'
<1> SUFFICES ASSUME NEW r \in Refs
             PROVE  \E p \in Places : {h \in Places : Holds(h, r)'} = {p}
  BY DEF InOnePlace, Places
<1>1. CASE r \in M
  <2> {h \in Places : Holds(h, r)'} = {d}
    BY <1>1
  <2> QED OBVIOUS
<1>2. CASE r \notin M
  <2> PICK p \in Places : {h \in Places : Holds(h, r)} = {p}
    BY DEF InOnePlace
  <2> {h \in Places : Holds(h, r)'} = {p}
    BY <1>2
  <2> QED OBVIOUS
<1> QED BY <1>1, <1>2

(* The same, place by place. *)
SharedMoved(M, d) ==
  \A r \in Refs :
    /\ r \in unseen' <=> IF r \in M THEN d = Unseen ELSE r \in unseen
    /\ r \in RefsIn(queue') <=> IF r \in M THEN d = Queue ELSE r \in RefsIn(queue)
    /\ r \in written' <=> IF r \in M THEN d = Written ELSE r \in written
    /\ r \in dropped' <=> IF r \in M THEN d = Dropped ELSE r \in dropped
    /\ r \in lost' <=> IF r \in M THEN d = Lost ELSE r \in lost
HandsMoved(M, d) ==
  \A r \in Refs, v \in Workers :
    /\ r \in todo'[v] <=> IF r \in M THEN d = Todo(v) ELSE r \in todo[v]
    /\ r \in RefsIn(batch'[v]) <=> IF r \in M THEN d = Batch(v) ELSE r \in RefsIn(batch[v])

LEMMA MoveTo ==
  ASSUME InOnePlace, NoneTwiceInAQueue', NEW M \in SUBSET Refs, NEW d \in Places,
         SharedMoved(M, d), HandsMoved(M, d)
  PROVE  InOnePlace'
<1>1. \A r \in Refs, p \in Places : Holds(p, r)' <=> IF r \in M THEN p = d ELSE Holds(p, r)
  <2> TAKE r \in Refs, p \in Places
  <2>1. CASE p \in {Unseen, Queue, Written, Dropped, Lost}
    BY <2>1, HoldsCases, HoldsCasesNext DEF SharedMoved
  <2>2. ASSUME NEW v \in Workers, p \in {Todo(v), Batch(v)}
        PROVE  Holds(p, r)' <=> IF r \in M THEN p = d ELSE Holds(p, r)
    BY <2>2, HoldsCases, HoldsCasesNext DEF HandsMoved
  <2> QED BY <2>1, <2>2, PlaceCases
<1> QED BY <1>1, Move

(* At the start every reference is unseen. *)
LEMMA PlacesInit == Init => InOnePlace
<1> SUFFICES ASSUME Init PROVE InOnePlace
  OBVIOUS
<1>1. NoneTwiceInAQueue
  BY EmptyRefs DEF Init, NoneTwiceInAQueue
<1>2. Unseen \in Places
  BY PlaceCases
<1>3. ASSUME NEW r \in Refs, NEW p \in Places
      PROVE  Holds(p, r) <=> p = Unseen
  <2> /\ unseen = Refs /\ RefsIn(queue) = {} /\ written = {} /\ dropped = {} /\ lost = {}
      /\ \A w \in Workers : todo[w] = {} /\ RefsIn(batch[w]) = {}
    BY EmptyRefs DEF Init
  <2>1. CASE p \in {Unseen, Queue, Written, Dropped, Lost}
    BY <2>1, PlacesDiffer, HoldsCases
  <2>2. ASSUME NEW w \in Workers, p \in {Todo(w), Batch(w)} PROVE ~Holds(p, r) /\ p # Unseen
    BY <2>2, PlacesDiffer, HoldsCases
  <2> QED BY <2>1, <2>2, PlaceCases
<1> QED BY <1>1, <1>2, <1>3 DEF InOnePlace

(* A worker holds references of its file only while it tries them, and     *)
(* entries of the list only while it retries them.                         *)
HandsFree ==
  \A w \in Workers : /\ pc[w] # "imports" => todo[w] = {}
                     /\ pc[w] \in {"idle", "imports"} => batch[w] = <<>>

LEMMA HandsFreeInit == Init => HandsFree
  BY DEF Init, HandsFree

LEMMA HandsFreeStep == TypeOK /\ HandsFree /\ [Next]_vars => HandsFree'
<1> SUFFICES ASSUME TypeOK, HandsFree, [Next]_vars PROVE HandsFree'
  OBVIOUS
<1> USE DEF HandsFree, TypeOK
<1>1. CASE UNCHANGED vars
  BY <1>1 DEF vars
<1>2. ASSUME NEW r \in Refs, Neo4jChanges(r) PROVE HandsFree'
  BY <1>2 DEF Neo4jChanges
<1>3. CASE DayPasses
  BY <1>3 DEF DayPasses
<1>4. ASSUME NEW w \in Workers, NEW S \in SUBSET unseen, Take(w, S) PROVE HandsFree'
  BY <1>4 DEF Take, Goto
<1>5. ASSUME NEW w \in Workers, NEW r \in todo[w], TryImport(w, r) PROVE HandsFree'
  BY <1>5 DEF TryImport, FromImport
<1>6. ASSUME NEW w \in Workers, FetchAll(w) PROVE HandsFree'
  BY <1>6 DEF FetchAll, Goto
<1>7. ASSUME NEW w \in Workers, RetryExpired(w) \/ RetryResolves(w) \/ RetryMisses(w) \/ Requeue(w)
      PROVE  HandsFree'
  BY <1>7 DEF RetryExpired, RetryResolves, RetryMisses, Requeue, Retrying, NextEntry
<1>8. ASSUME NEW w \in Workers, RetryRaises(w) \/ Finish(w) PROVE HandsFree'
  BY <1>8 DEF RetryRaises, Finish, Retrying, Goto
<1>9. ASSUME NEW w \in Workers, GiveUp(w) PROVE HandsFree'
  BY <1>9 DEF GiveUp, Goto
<1> QED BY <1>1, <1>2, <1>3, <1>4, <1>5, <1>6, <1>7, <1>8, <1>9 DEF Next, Work

(* A reference a worker retries is nowhere else. *)
OnlyInBatch(r, w) ==
  /\ r \notin unseen /\ r \notin RefsIn(queue)
  /\ r \notin written /\ r \notin dropped /\ r \notin lost
  /\ \A v \in Workers : r \notin todo[v]
  /\ \A v \in Workers : r \in RefsIn(batch[v]) => v = w

LEMMA InBatch ==
  ASSUME InOnePlace, NEW r \in Refs, NEW w \in Workers, r \in RefsIn(batch[w])
  PROVE  OnlyInBatch(r, w)
<1>1. Holds(Batch(w), r) /\ Batch(w) \in Places
  BY HoldsCases, PlaceCases
<1>2. \A p \in Places : Holds(p, r) => p = Batch(w)
  BY <1>1 DEF InOnePlace
<1>3. /\ r \notin unseen /\ r \notin RefsIn(queue)
      /\ r \notin written /\ r \notin dropped /\ r \notin lost
  BY <1>2, PlaceCases, PlacesDiffer, HoldsCases
<1>4. ASSUME NEW v \in Workers PROVE r \notin todo[v] /\ (r \in RefsIn(batch[v]) => v = w)
  <2> Todo(v) \in Places /\ Batch(v) \in Places
    BY PlaceCases
  <2>1. r \notin todo[v]
    BY <1>2, PlacesDiffer, HoldsCases
  <2>2. ASSUME r \in RefsIn(batch[v]) PROVE v = w
    BY <1>2, <2>2, PlacesDiffer, HoldsCases
  <2> QED BY <2>1, <2>2
<1> QED BY <1>3, <1>4 DEF OnlyInBatch

(* Every step moves a set of references to one place. *)
LEMMA PlacesStep == TypeOK /\ HandsFree /\ InOnePlace /\ [Next]_vars => InOnePlace'
<1> SUFFICES ASSUME TypeOK, HandsFree, InOnePlace, [Next]_vars PROVE InOnePlace'
  OBVIOUS
<1>t. /\ queue \in Seq(Entries) /\ \A v \in Workers : batch[v] \in Seq(Entries)
      /\ unseen \subseteq Refs /\ \A v \in Workers : todo[v] \subseteq Refs
      /\ DOMAIN todo = Workers /\ DOMAIN batch = Workers
  BY DEF TypeOK
<1>n. NoRepeats(queue) /\ \A v \in Workers : NoRepeats(batch[v])
  BY DEF InOnePlace, NoneTwiceInAQueue
(* No reference is in two places. *)
<1>u. ASSUME NEW r \in Refs, NEW p \in Places, NEW h \in Places, Holds(p, r), Holds(h, r)
      PROVE  p = h
  BY <1>u DEF InOnePlace
<1>p. \A v \in Workers : Todo(v) \in Places /\ Batch(v) \in Places
  BY PlaceCases
<1>i. ASSUME NEW r \in Refs, r \in unseen
      PROVE  /\ r \notin RefsIn(queue) /\ r \notin written /\ r \notin dropped /\ r \notin lost
             /\ \A v \in Workers : r \notin todo[v] /\ r \notin RefsIn(batch[v])
  BY <1>i, <1>u, PlaceCases, PlacesDiffer, HoldsCases
<1>j. ASSUME NEW r \in Refs, NEW w \in Workers, r \in todo[w]
      PROVE  /\ r \notin unseen /\ r \notin RefsIn(queue)
             /\ r \notin written /\ r \notin dropped /\ r \notin lost
             /\ \A v \in Workers : r \in todo[v] => v = w
             /\ \A v \in Workers : r \notin RefsIn(batch[v])
  <2>1. Holds(Todo(w), r) /\ \A p \in Places : Holds(p, r) => p = Todo(w)
    BY <1>j, <1>u, <1>p, HoldsCases
  <2> QED BY <2>1, <1>p, PlaceCases, PlacesDiffer, HoldsCases
<1>k. ASSUME NEW r \in Refs, r \in RefsIn(queue)
      PROVE  /\ r \notin unseen /\ r \notin written /\ r \notin dropped /\ r \notin lost
             /\ \A v \in Workers : r \notin todo[v] /\ r \notin RefsIn(batch[v])
  BY <1>k, <1>u, PlaceCases, PlacesDiffer, HoldsCases
<1>l. \A r \in Refs, w \in Workers : r \in RefsIn(batch[w]) => OnlyInBatch(r, w)
  BY InBatch
<1> USE DEF OnlyInBatch
<1>1. CASE UNCHANGED vars
  BY <1>1 DEF vars, InOnePlace, NoneTwiceInAQueue, Places, Holds
<1>2. ASSUME NEW r \in Refs, Neo4jChanges(r) PROVE InOnePlace'
  BY <1>2 DEF Neo4jChanges, InOnePlace, NoneTwiceInAQueue, Places, Holds
<1>3. CASE DayPasses
  <2>1. RefsIn(queue') = RefsIn(queue) /\ NoRepeats(queue')
    BY <1>3, <1>t, <1>n, AgedRefs DEF DayPasses
  <2>2. NoneTwiceInAQueue'
    BY <1>3, <1>n, <2>1 DEF DayPasses, NoneTwiceInAQueue
  <2>3. \A r \in Refs, p \in Places : Holds(p, r)' <=> Holds(p, r)
    BY <1>3, <2>1 DEF DayPasses, Holds, Places
  <2> QED BY <2>2, <2>3 DEF InOnePlace, Places
<1>4. ASSUME NEW w \in Workers, NEW S \in SUBSET unseen, Take(w, S) PROVE InOnePlace'
  <2>1. S \in SUBSET Refs /\ Todo(w) \in Places
    BY <1>t, PlaceCases
  <2>2. NoneTwiceInAQueue'
    BY <1>4, <1>n DEF Take, NoneTwiceInAQueue
  <2>3. todo[w] = {} /\ \A v \in Workers : todo'[v] = IF v = w THEN S ELSE todo[v]
    BY <1>4, <1>t DEF Take, HandsFree
  <2>4. /\ unseen' = unseen \ S /\ queue' = queue /\ written' = written /\ dropped' = dropped
        /\ lost' = lost /\ batch' = batch
    BY <1>4 DEF Take
  <2>m. SharedMoved(S, Todo(w))
    BY <1>4, <1>i, <2>1, <2>3, <2>4, PlacesDiffer DEF SharedMoved
  <2>h. HandsMoved(S, Todo(w))
    BY <1>4, <1>i, <2>1, <2>3, <2>4, PlacesDiffer DEF HandsMoved
  <2> QED BY <2>1, <2>2, <2>m, <2>h, MoveTo
<1>5. ASSUME NEW w \in Workers, NEW r \in todo[w], TryImport(w, r) PROVE InOnePlace'
  <2> DEFINE e == [ref |-> r, attempt_count |-> 0, old |-> FALSE]
  <2>1. r \in Refs /\ e \in Entries /\ e.ref = r
    BY <1>t DEF Entries
  <2>2. /\ r \notin unseen /\ r \notin RefsIn(queue)
        /\ r \notin written /\ r \notin dropped /\ r \notin lost
        /\ \A v \in Workers : r \in todo[v] <=> v = w
        /\ \A v \in Workers : r \notin RefsIn(batch[v])
    BY <1>j, <2>1
  <2>3. /\ unseen' = unseen /\ batch' = batch /\ lost' = lost
        /\ \A v \in Workers : todo'[v] = IF v = w THEN todo[w] \ {r} ELSE todo[v]
    BY <1>5, <1>t DEF TryImport, FromImport
  <2> HIDE DEF e
  <2>4. CASE written' = written \cup {r} /\ queue' = queue /\ dropped' = dropped
    <3> NoneTwiceInAQueue'
      BY <1>n, <2>3, <2>4 DEF NoneTwiceInAQueue
    <3> {r} \in SUBSET Refs /\ Written \in Places
      BY <2>1, PlaceCases
    <3>m. SharedMoved({r}, Written)
      BY <2>2, <2>3, <2>4, PlacesDiffer DEF SharedMoved
    <3>h. HandsMoved({r}, Written)
      BY <2>2, <2>3, <2>4, PlacesDiffer DEF HandsMoved
    <3> QED BY <3>m, <3>h, MoveTo
  <2>5. CASE dropped' = dropped \cup {r} /\ queue' = queue /\ written' = written
    <3> NoneTwiceInAQueue'
      BY <1>n, <2>3, <2>5 DEF NoneTwiceInAQueue
    <3> {r} \in SUBSET Refs /\ Dropped \in Places
      BY <2>1, PlaceCases
    <3>m. SharedMoved({r}, Dropped)
      BY <2>2, <2>3, <2>5, PlacesDiffer DEF SharedMoved
    <3>h. HandsMoved({r}, Dropped)
      BY <2>2, <2>3, <2>5, PlacesDiffer DEF HandsMoved
    <3> QED BY <3>m, <3>h, MoveTo
  <2>6. CASE queue' = Append(queue, e) /\ dropped' = dropped /\ written' = written
    <3>1. RefsIn(queue') = RefsIn(queue) \cup {r} /\ NoRepeats(queue')
      BY <1>n, <1>t, <2>1, <2>2, <2>6, AppendRefs
    <3>2. NoneTwiceInAQueue'
      BY <1>n, <2>3, <3>1 DEF NoneTwiceInAQueue
    <3>3. {r} \in SUBSET Refs /\ Queue \in Places
      BY <2>1, PlaceCases
    <3>m. SharedMoved({r}, Queue)
      BY <2>2, <2>3, <2>6, <3>1, PlacesDiffer DEF SharedMoved
    <3>h. HandsMoved({r}, Queue)
      BY <2>2, <2>3, <2>6, <3>1, PlacesDiffer DEF HandsMoved
    <3> QED BY <3>2, <3>3, <3>m, <3>h, MoveTo
  <2> QED BY <1>5, <2>4, <2>5, <2>6 DEF TryImport, FromImport, e
<1>6. ASSUME NEW w \in Workers, FetchAll(w) PROVE InOnePlace'
  <2>1. /\ unseen' = unseen /\ queue' = <<>> /\ written' = written /\ dropped' = dropped
        /\ lost' = lost /\ todo' = todo
        /\ \A v \in Workers : batch'[v] = IF v = w THEN queue ELSE batch[v]
    BY <1>6, <1>t DEF FetchAll
  <2>2. batch[w] = <<>> /\ RefsIn(batch[w]) = {} /\ RefsIn(queue') = {} /\ NoRepeats(queue')
    BY <1>6, <2>1, EmptyRefs DEF FetchAll, HandsFree
  <2>3. NoneTwiceInAQueue'
    BY <1>n, <2>1, <2>2 DEF NoneTwiceInAQueue
  <2>4. RefsIn(queue) \in SUBSET Refs /\ Batch(w) \in Places
    BY <1>t, RefsTyped, PlaceCases
  <2>5. \A r \in Refs, v \in Workers :
          r \in RefsIn(batch'[v])
            <=> IF r \in RefsIn(queue) THEN Batch(w) = Batch(v) ELSE r \in RefsIn(batch[v])
    BY <1>k, <2>1, <2>2, PlacesDiffer
  <2>m. SharedMoved(RefsIn(queue), Batch(w))
    BY <2>1, <2>2, <2>5, <1>k, PlacesDiffer DEF SharedMoved
  <2>h. HandsMoved(RefsIn(queue), Batch(w))
    BY <2>1, <2>2, <2>5, <1>k, PlacesDiffer DEF HandsMoved
  <2> QED BY <2>3, <2>4, <2>m, <2>h, MoveTo
(* The entry a worker retries leaves its batch. *)
<1>7. ASSUME NEW w \in Workers, batch[w] # <<>>, NextEntry(w)
      PROVE  /\ Current(w) \in Entries /\ Current(w).ref \in Refs
             /\ {Current(w).ref} \in SUBSET Refs
             /\ Current(w).ref \in RefsIn(batch[w])
             /\ \A v \in Workers : NoRepeats(batch'[v])
             /\ \A v \in Workers :
                   RefsIn(batch'[v]) = RefsIn(batch[v]) \ {Current(w).ref}
  <2>1. \A v \in Workers : batch'[v] = IF v = w THEN Tail(batch[w]) ELSE batch[v]
    BY <1>7, <1>t DEF NextEntry
  <2>2. /\ Current(w) \in Entries /\ NoRepeats(Tail(batch[w]))
        /\ RefsIn(batch[w]) = {Current(w).ref} \cup RefsIn(Tail(batch[w]))
        /\ Current(w).ref \notin RefsIn(Tail(batch[w]))
    BY <1>7, <1>t, <1>n, TailRefs DEF Current
  <2>3. Current(w).ref \in Refs
    BY <2>2 DEF Entries
  <2> QED BY <1>n, <1>l, <2>1, <2>2, <2>3
<1>g. ASSUME NEW w \in Workers, batch[w] # <<>>, NextEntry(w)
      PROVE  /\ Current(w).ref \notin unseen /\ Current(w).ref \notin RefsIn(queue)
             /\ Current(w).ref \notin written /\ Current(w).ref \notin dropped
             /\ Current(w).ref \notin lost
             /\ \A v \in Workers : Current(w).ref \notin todo[v]
  <2> Current(w).ref \in Refs /\ Current(w).ref \in RefsIn(batch[w])
    BY <1>g, <1>7
  <2> QED BY <1>l
<1>8. ASSUME NEW w \in Workers, RetryExpired(w) PROVE InOnePlace'
  <2>1. /\ batch[w] # <<>> /\ NextEntry(w) /\ dropped' = dropped \cup {Current(w).ref}
        /\ unseen' = unseen /\ queue' = queue /\ written' = written
        /\ lost' = lost /\ todo' = todo
    BY <1>8 DEF RetryExpired, Retrying
  <2>2. NoneTwiceInAQueue'
    BY <1>n, <1>7, <2>1 DEF NoneTwiceInAQueue
  <2>m. SharedMoved({Current(w).ref}, Dropped)
    BY <1>7, <1>g, <2>1, PlacesDiffer DEF SharedMoved
  <2>h. HandsMoved({Current(w).ref}, Dropped)
    <3>1. \A v \in Workers : Dropped # Todo(v) /\ Dropped # Batch(v)
      BY PlacesDiffer
    <3>2. \A v \in Workers : /\ Current(w).ref \notin todo[v]
                            /\ RefsIn(batch'[v]) = RefsIn(batch[v]) \ {Current(w).ref}
      BY <1>7, <1>g, <2>1
    <3> QED BY <2>1, <3>1, <3>2 DEF HandsMoved
  <2> QED BY <1>7, <2>1, <2>2, <2>m, <2>h, PlaceCases, MoveTo
<1>9. ASSUME NEW w \in Workers, RetryResolves(w) PROVE InOnePlace'
  <2>1. /\ batch[w] # <<>> /\ NextEntry(w) /\ written' = written \cup {Current(w).ref}
        /\ unseen' = unseen /\ queue' = queue /\ dropped' = dropped
        /\ lost' = lost /\ todo' = todo
    BY <1>9 DEF RetryResolves, Retrying
  <2>2. NoneTwiceInAQueue'
    BY <1>n, <1>7, <2>1 DEF NoneTwiceInAQueue
  <2>m. SharedMoved({Current(w).ref}, Written)
    BY <1>7, <1>g, <2>1, PlacesDiffer DEF SharedMoved
  <2>h. HandsMoved({Current(w).ref}, Written)
    <3>1. \A v \in Workers : Written # Todo(v) /\ Written # Batch(v)
      BY PlacesDiffer
    <3>2. \A v \in Workers : /\ Current(w).ref \notin todo[v]
                            /\ RefsIn(batch'[v]) = RefsIn(batch[v]) \ {Current(w).ref}
      BY <1>7, <1>g, <2>1
    <3> QED BY <2>1, <3>1, <3>2 DEF HandsMoved
  <2> QED BY <1>7, <2>1, <2>2, <2>m, <2>h, PlaceCases, MoveTo
(* The entry goes back to the queue, counted or as it was. *)
<1>10. ASSUME NEW w \in Workers, RetryMisses(w) \/ Requeue(w) PROVE InOnePlace'
  <2>1. /\ batch[w] # <<>> /\ NextEntry(w)
        /\ unseen' = unseen /\ written' = written /\ dropped' = dropped
        /\ lost' = lost /\ todo' = todo
    BY <1>10 DEF RetryMisses, Requeue, Retrying
  <2>2. PICK e : queue' = Append(queue, e) /\ e \in {Current(w), Counted(Current(w))}
    BY <1>10 DEF RetryMisses, Requeue
  <2>3. e \in Entries /\ e.ref = Current(w).ref
    BY <1>7, <2>1, <2>2, CountedEntry
  <2>4. Current(w).ref \notin RefsIn(queue)
    BY <1>7, <1>l, <2>1
  <2>5. RefsIn(queue') = RefsIn(queue) \cup {Current(w).ref} /\ NoRepeats(queue')
    BY <1>t, <1>n, <2>2, <2>3, <2>4, AppendRefs
  <2>6. NoneTwiceInAQueue'
    BY <1>7, <2>1, <2>5 DEF NoneTwiceInAQueue
  <2>m. SharedMoved({Current(w).ref}, Queue)
    BY <1>7, <1>g, <2>1, <2>5, PlacesDiffer DEF SharedMoved
  <2>h. HandsMoved({Current(w).ref}, Queue)
    <3>1. \A v \in Workers : Queue # Todo(v) /\ Queue # Batch(v)
      BY PlacesDiffer
    <3>2. \A v \in Workers : /\ Current(w).ref \notin todo[v]
                            /\ RefsIn(batch'[v]) = RefsIn(batch[v]) \ {Current(w).ref}
      BY <1>7, <1>g, <2>1
    <3> QED BY <2>1, <3>1, <3>2 DEF HandsMoved
  <2> QED BY <1>7, <2>1, <2>6, <2>m, <2>h, PlaceCases, MoveTo
<1>11. ASSUME NEW w \in Workers, RetryRaises(w) \/ Finish(w) PROVE InOnePlace'
  BY <1>11 DEF RetryRaises, Finish, InOnePlace, NoneTwiceInAQueue, Places, Holds
<1>12. ASSUME NEW w \in Workers, GiveUp(w) PROVE InOnePlace'
  <2> DEFINE M == todo[w] \cup RefsIn(batch[w])
  <2>1. /\ unseen' = unseen /\ queue' = queue /\ written' = written /\ dropped' = dropped
        /\ lost' = lost \cup M
        /\ \A v \in Workers : todo'[v] = IF v = w THEN {} ELSE todo[v]
        /\ \A v \in Workers : batch'[v] = IF v = w THEN <<>> ELSE batch[v]
    BY <1>12, <1>t DEF GiveUp
  <2>2. NoneTwiceInAQueue'
    BY <1>n, <2>1, EmptyRefs DEF NoneTwiceInAQueue
  <2>3. M \in SUBSET Refs /\ Lost \in Places
    BY <1>t, RefsTyped, PlaceCases
  <2>4. \A r \in M : /\ r \notin unseen /\ r \notin RefsIn(queue)
                     /\ r \notin written /\ r \notin dropped
                     /\ \A v \in Workers \ {w} : r \notin todo[v] /\ r \notin RefsIn(batch[v])
    BY <1>j, <1>l, <2>3
  <2>5. \A r \in Refs, v \in Workers :
          /\ r \in todo'[v] <=> IF r \in M THEN Lost = Todo(v) ELSE r \in todo[v]
          /\ r \in RefsIn(batch'[v]) <=> IF r \in M THEN Lost = Batch(v) ELSE r \in RefsIn(batch[v])
    BY <2>1, <2>4, PlacesDiffer, EmptyRefs
  <2> HIDE DEF M
  <2>m. SharedMoved(M, Lost)
    BY <2>1, <2>4, <2>5, PlacesDiffer DEF SharedMoved
  <2>h. HandsMoved(M, Lost)
    BY <2>1, <2>4, <2>5, PlacesDiffer DEF HandsMoved
  <2> QED BY <2>2, <2>3, <2>m, <2>h, MoveTo
<1> QED BY <1>1, <1>2, <1>3, <1>4, <1>5, <1>6, <1>8, <1>9, <1>10, <1>11, <1>12 DEF Next, Work

(* Replicas, retries, exceptions and re-queues never duplicate a reference *)
(* and never let one vanish: it is always in one place, and only a fault   *)
(* puts it in "lost".                                                      *)
THEOREM OnePlace == Spec => []InOnePlace
<1>1. TypeOK /\ HandsFree /\ InOnePlace /\ [Next]_vars => TypeOK' /\ HandsFree' /\ InOnePlace'
  BY TypeStep, HandsFreeStep, PlacesStep
<1> QED BY <1>1, TypeInit, HandsFreeInit, PlacesInit, PTL DEF Spec

-----------------------------------------------------------------------------
(* The attempts an entry carries are the retries its reference has had.    *)

EntriesIn(q) == {q[i] : i \in DOMAIN q}
Tracked(e) == /\ e.attempt_count = tries[e.ref]
              /\ e.attempt_count <= MAX_ATTEMPTS + 1
              /\ e.old => e.ref \in aged
AllTracked(q) == \A e \in EntriesIn(q) : Tracked(e)

CountsTries ==
  /\ \A r \in unseen : tries[r] = 0
  /\ \A w \in Workers : \A r \in todo[w] : tries[r] = 0
  /\ AllTracked(queue)
  /\ \A w \in Workers : AllTracked(batch[w])

(* What pushing and popping do to the entries of a list. *)
LEMMA AppendEntries ==
  ASSUME NEW q \in Seq(Entries), NEW e \in Entries
  PROVE  EntriesIn(Append(q, e)) = EntriesIn(q) \cup {e}
<1> DEFINE a == Append(q, e)
<1>1. /\ Len(q) \in Nat /\ DOMAIN q = 1 .. Len(q) /\ DOMAIN a = 1 .. Len(q) + 1
      /\ a[Len(q) + 1] = e /\ \A i \in 1 .. Len(q) : a[i] = q[i]
  OBVIOUS
<1> HIDE DEF a
<1>2. Len(q) + 1 \in DOMAIN a /\ \A i \in DOMAIN a : i \in DOMAIN q \/ i = Len(q) + 1
  BY <1>1
<1>3. \A i \in DOMAIN q : i \in DOMAIN a /\ a[i] = q[i]
  BY <1>1
<1> QED BY <1>1, <1>2, <1>3 DEF EntriesIn, a

LEMMA TailEntries ==
  ASSUME NEW q \in Seq(Entries), q # <<>>
  PROVE  Head(q) \in EntriesIn(q) /\ EntriesIn(Tail(q)) \subseteq EntriesIn(q)
<1>1. /\ Len(q) \in Nat /\ Len(q) > 0 /\ Head(q) = q[1]
      /\ DOMAIN q = 1 .. Len(q) /\ DOMAIN Tail(q) = 1 .. Len(q) - 1
      /\ \A i \in 1 .. Len(q) - 1 : Tail(q)[i] = q[i + 1] /\ i + 1 \in 1 .. Len(q)
  OBVIOUS
<1>2. 1 \in DOMAIN q
  BY <1>1
<1> QED BY <1>1, <1>2 DEF EntriesIn

LEMMA EntriesRefs ==
  ASSUME NEW q
  PROVE  \A e \in EntriesIn(q) : e.ref \in RefsIn(q)
  BY DEF EntriesIn, RefsIn

LEMMA NoEntries == EntriesIn(<<>>) = {}
  BY DEF EntriesIn

LEMMA CountsInit == Init => CountsTries
  BY NoEntries DEF Init, CountsTries, AllTracked

LEMMA CountsStep ==
  TypeOK /\ HandsFree /\ InOnePlace /\ CountsTries /\ [Next]_vars => CountsTries'
<1> SUFFICES ASSUME TypeOK, HandsFree, InOnePlace, CountsTries, [Next]_vars PROVE CountsTries'
  OBVIOUS
<1>t. /\ queue \in Seq(Entries) /\ \A v \in Workers : batch[v] \in Seq(Entries)
      /\ unseen \subseteq Refs /\ \A v \in Workers : todo[v] \subseteq Refs
      /\ DOMAIN todo = Workers /\ DOMAIN batch = Workers /\ tries \in [Refs -> Nat]
  BY DEF TypeOK
<1>c. /\ \A r \in unseen : tries[r] = 0
      /\ \A w \in Workers : \A r \in todo[w] : tries[r] = 0
      /\ AllTracked(queue) /\ \A w \in Workers : AllTracked(batch[w])
  BY DEF CountsTries
(* Where tries and aged do not change, neither does being tracked. *)
<1>s. ASSUME tries' = tries, aged' = aged
      PROVE  \A q : (\A e \in EntriesIn(q) : Tracked(e)') <=> AllTracked(q)
  BY <1>s DEF AllTracked, Tracked
<1>1. CASE UNCHANGED vars
  BY <1>1 DEF vars, CountsTries, AllTracked, Tracked, EntriesIn
<1>2. ASSUME NEW r \in Refs, Neo4jChanges(r) PROVE CountsTries'
  BY <1>2 DEF Neo4jChanges, CountsTries, AllTracked, Tracked, EntriesIn
<1>3. CASE DayPasses
  <2>1. /\ unseen' = unseen /\ todo' = todo /\ batch' = batch /\ tries' = tries
        /\ aged' = aged \cup RefsIn(queue)
    BY <1>3 DEF DayPasses
  <2>2. ASSUME NEW e \in EntriesIn(queue') PROVE Tracked(e)'
    <3>1. PICK i \in DOMAIN queue : e = [queue[i] EXCEPT !.old = TRUE]
      BY <1>3, <2>2 DEF DayPasses, EntriesIn
    <3>2. queue[i] \in Entries /\ Tracked(queue[i]) /\ queue[i].ref \in RefsIn(queue)
      BY <1>t, <1>c DEF AllTracked, EntriesIn, RefsIn
    <3>3. e.ref = queue[i].ref /\ e.attempt_count = queue[i].attempt_count
      BY <3>1, <3>2 DEF Entries
    <3> QED BY <2>1, <3>2, <3>3 DEF Tracked
  <2>3. ASSUME NEW w \in Workers, NEW e \in EntriesIn(batch[w]) PROVE Tracked(e)'
    BY <1>c, <2>1 DEF AllTracked, Tracked
  <2> QED BY <1>c, <2>1, <2>2, <2>3 DEF CountsTries, AllTracked
<1>4. ASSUME NEW w \in Workers, NEW S \in SUBSET unseen, Take(w, S) PROVE CountsTries'
  <2>1. /\ unseen' = unseen \ S /\ queue' = queue /\ batch' = batch /\ tries' = tries
        /\ aged' = aged /\ \A v \in Workers : todo'[v] = IF v = w THEN S ELSE todo[v]
    BY <1>4, <1>t DEF Take
  <2> QED BY <1>c, <1>s, <2>1 DEF CountsTries, AllTracked
<1>5. ASSUME NEW w \in Workers, NEW r \in todo[w], TryImport(w, r) PROVE CountsTries'
  <2> DEFINE e == [ref |-> r, attempt_count |-> 0, old |-> FALSE]
  <2>1. /\ unseen' = unseen /\ batch' = batch /\ tries' = tries /\ aged' = aged
        /\ \A v \in Workers : todo'[v] \subseteq todo[v]
    BY <1>5, <1>t DEF TryImport, FromImport
  <2>2. e \in Entries /\ Tracked(e)
    BY <1>t, <1>c, AttemptsAssumption DEF Entries, Tracked
  <2>3. queue' \in {queue, Append(queue, e)}
    BY <1>5 DEF TryImport, FromImport
  <2> HIDE DEF e
  <2>4. AllTracked(queue')
    <3> EntriesIn(queue') \subseteq EntriesIn(queue) \cup {e}
      BY <1>t, <2>2, <2>3, AppendEntries
    <3> QED BY <1>c, <2>2 DEF AllTracked
  <2> QED BY <1>c, <1>s, <2>1, <2>4 DEF CountsTries, AllTracked
<1>6. ASSUME NEW w \in Workers, FetchAll(w) PROVE CountsTries'
  <2>1. /\ unseen' = unseen /\ todo' = todo /\ tries' = tries /\ aged' = aged
        /\ queue' = <<>> /\ \A v \in Workers : batch'[v] = IF v = w THEN queue ELSE batch[v]
    BY <1>6, <1>t DEF FetchAll
  <2>2. AllTracked(queue') /\ \A v \in Workers : AllTracked(batch'[v])
    BY <1>c, <2>1, NoEntries DEF AllTracked
  <2> QED BY <1>c, <1>s, <2>1, <2>2 DEF CountsTries, AllTracked
(* The entry a worker retries is tracked, and so is the rest of its batch. *)
<1>7. ASSUME NEW w \in Workers, batch[w] # <<>>, NextEntry(w)
      PROVE  /\ Current(w) \in Entries /\ Current(w).ref \in Refs /\ Tracked(Current(w))
             /\ Current(w).ref \in RefsIn(batch[w])
             /\ Current(w).ref \notin RefsIn(Tail(batch[w]))
             /\ \A v \in Workers : batch'[v] = IF v = w THEN Tail(batch[w]) ELSE batch[v]
             /\ \A v \in Workers : EntriesIn(batch'[v]) \subseteq EntriesIn(batch[v])
             /\ \A v \in Workers : AllTracked(batch'[v])
  <2>1. \A v \in Workers : batch'[v] = IF v = w THEN Tail(batch[w]) ELSE batch[v]
    BY <1>7, <1>t DEF NextEntry
  <2>2. NoRepeats(batch[w])
    BY DEF InOnePlace, NoneTwiceInAQueue
  <2>3. /\ Current(w) \in Entries /\ Current(w) \in EntriesIn(batch[w])
        /\ Current(w).ref \notin RefsIn(Tail(batch[w]))
        /\ EntriesIn(Tail(batch[w])) \subseteq EntriesIn(batch[w])
    BY <1>7, <1>t, <2>2, TailRefs, TailEntries DEF Current
  <2>4. Current(w).ref \in Refs /\ Tracked(Current(w)) /\ Current(w).ref \in RefsIn(batch[w])
    BY <1>c, <2>3, EntriesRefs DEF Entries, AllTracked
  <2>5. \A v \in Workers : EntriesIn(batch'[v]) \subseteq EntriesIn(batch[v])
    BY <2>1, <2>3
  <2>6. \A v \in Workers : AllTracked(batch'[v])
    BY <1>c, <2>5 DEF AllTracked
  <2> QED BY <2>1, <2>3, <2>4, <2>5, <2>6
<1>8. ASSUME NEW w \in Workers, RetryExpired(w) \/ RetryResolves(w) PROVE CountsTries'
  <2>1. /\ unseen' = unseen /\ todo' = todo /\ tries' = tries /\ aged' = aged
        /\ queue' = queue /\ batch[w] # <<>> /\ NextEntry(w)
    BY <1>8 DEF RetryExpired, RetryResolves, Retrying
  <2>2. \A v \in Workers : AllTracked(batch'[v])
    BY <1>7, <2>1
  <2> QED BY <1>c, <1>s, <2>1, <2>2 DEF CountsTries, AllTracked
(* No other entry has the reference whose retries the miss counts. *)
<1>9. ASSUME NEW w \in Workers, RetryMisses(w) PROVE CountsTries'
  <2>1. /\ unseen' = unseen /\ todo' = todo /\ aged' = aged
        /\ queue' = Append(queue, Counted(Current(w)))
        /\ tries' = [tries EXCEPT ![Current(w).ref] = @ + 1]
        /\ batch[w] # <<>> /\ NextEntry(w) /\ ~Expired(Current(w))
    BY <1>9 DEF RetryMisses, Retrying
  <2>2. /\ Current(w) \in Entries /\ Current(w).ref \in Refs /\ Tracked(Current(w))
        /\ OnlyInBatch(Current(w).ref, w)
    BY <1>7, <2>1, InBatch
  <2>3. tries'[Current(w).ref] = tries[Current(w).ref] + 1
        /\ \A r \in Refs \ {Current(w).ref} : tries'[r] = tries[r]
    BY <1>t, <2>1, <2>2
  <2>4. PICK e : e = Counted(Current(w))
    OBVIOUS
  <2>5. e \in Entries /\ e.ref = Current(w).ref /\ Tracked(e)'
    <3>1. Current(w).attempt_count \in Nat /\ Current(w).attempt_count <= MAX_ATTEMPTS
      BY <2>1, <2>2, AttemptsAssumption DEF Expired, Entries
    <3>2. /\ e \in Entries /\ e.ref = Current(w).ref /\ e.old = FALSE
          /\ e.attempt_count = Current(w).attempt_count + 1
      BY <2>2, <2>4, CountedEntry
    <3>3. Current(w).attempt_count = tries[Current(w).ref]
      BY <2>2 DEF Tracked
    <3> QED BY <2>3, <3>1, <3>2, <3>3, AttemptsAssumption DEF Tracked
  <2>6. \A d : Tracked(d) /\ d.ref \in Refs \ {Current(w).ref} => Tracked(d)'
    BY <2>1, <2>3 DEF Tracked
  <2>7. ASSUME NEW d \in EntriesIn(queue') PROVE Tracked(d)'
    <3>1. d \in EntriesIn(queue) \cup {e}
      BY <1>t, <2>1, <2>4, <2>5, AppendEntries
    <3>2. ASSUME d \in EntriesIn(queue) PROVE d.ref \in Refs \ {Current(w).ref}
      BY <1>t, <2>2, <3>2, EntriesRefs, RefsTyped DEF OnlyInBatch
    <3> QED BY <1>c, <2>5, <2>6, <3>1, <3>2 DEF AllTracked
  <2>8. ASSUME NEW v \in Workers, NEW d \in EntriesIn(batch'[v]) PROVE Tracked(d)'
    <3>1. d \in EntriesIn(batch[v]) /\ Tracked(d)
      BY <1>7, <2>1 DEF AllTracked
    <3>2. d.ref \in Refs
      BY <1>t, <3>1, EntriesRefs, RefsTyped
    <3>3. d.ref # Current(w).ref
      <4>1. CASE v = w
        <5> d \in EntriesIn(Tail(batch[w])) /\ Current(w).ref \notin RefsIn(Tail(batch[w]))
          BY <1>7, <2>1, <2>8, <4>1
        <5> QED BY EntriesRefs
      <4>2. CASE v # w
        <5> d.ref \in RefsIn(batch[v])
          BY <3>1, EntriesRefs
        <5> QED BY <2>2, <4>2 DEF OnlyInBatch
      <4> QED BY <4>1, <4>2
    <3> QED BY <2>6, <3>1, <3>2, <3>3
  <2>9. \A r \in Refs : (r \in unseen \/ \E v \in Workers : r \in todo[v]) => tries'[r] = tries[r]
    BY <2>2, <2>3 DEF OnlyInBatch
  <2> QED BY <1>c, <1>t, <2>1, <2>7, <2>8, <2>9 DEF CountsTries, AllTracked
<1>10. ASSUME NEW w \in Workers, Requeue(w) PROVE CountsTries'
  <2>1. /\ unseen' = unseen /\ todo' = todo /\ tries' = tries /\ aged' = aged
        /\ queue' = Append(queue, Current(w)) /\ batch[w] # <<>> /\ NextEntry(w)
    BY <1>10 DEF Requeue
  <2>2. AllTracked(queue') /\ \A v \in Workers : AllTracked(batch'[v])
    <3> EntriesIn(queue') = EntriesIn(queue) \cup {Current(w)} /\ Tracked(Current(w))
      BY <1>t, <1>7, <2>1, AppendEntries
    <3> QED BY <1>c, <1>7, <2>1 DEF AllTracked
  <2> QED BY <1>c, <1>s, <2>1, <2>2 DEF CountsTries, AllTracked
<1>11. ASSUME NEW w \in Workers, RetryRaises(w) \/ Finish(w) PROVE CountsTries'
  BY <1>11 DEF RetryRaises, Finish, CountsTries, AllTracked, Tracked, EntriesIn
<1>12. ASSUME NEW w \in Workers, GiveUp(w) PROVE CountsTries'
  <2>1. /\ unseen' = unseen /\ queue' = queue /\ tries' = tries /\ aged' = aged
        /\ \A v \in Workers : todo'[v] = IF v = w THEN {} ELSE todo[v]
        /\ \A v \in Workers : batch'[v] = IF v = w THEN <<>> ELSE batch[v]
    BY <1>12, <1>t DEF GiveUp
  <2>2. \A v \in Workers : AllTracked(batch'[v])
    BY <1>c, <2>1, NoEntries DEF AllTracked
  <2> QED BY <1>c, <1>s, <2>1, <2>2 DEF CountsTries, AllTracked
<1> QED BY <1>1, <1>2, <1>3, <1>4, <1>5, <1>6, <1>8, <1>9, <1>10, <1>11, <1>12 DEF Next, Work

-----------------------------------------------------------------------------
(* The two properties the counts are for.                                  *)

LEMMA BoundedStep ==
  TypeOK /\ InOnePlace /\ CountsTries /\ RetriesBounded /\ DroppedOnlyExpired /\ [Next]_vars
    => RetriesBounded' /\ DroppedOnlyExpired'
<1> SUFFICES ASSUME TypeOK, InOnePlace, CountsTries, RetriesBounded, DroppedOnlyExpired, [Next]_vars
             PROVE  RetriesBounded' /\ DroppedOnlyExpired'
  OBVIOUS
<1>t. /\ \A v \in Workers : batch[v] \in Seq(Entries) /\ tries \in [Refs -> Nat]
      /\ dropped \subseteq Refs /\ DOMAIN todo = Workers
      /\ \A v \in Workers : todo[v] \subseteq Refs
  BY DEF TypeOK
<1>1. ASSUME NEW w \in Workers, Retrying(w)
      PROVE  Current(w) \in Entries /\ Current(w).ref \in Refs /\ Tracked(Current(w))
             /\ Current(w).ref \in RefsIn(batch[w])
  <2> Current(w) \in EntriesIn(batch[w]) /\ Current(w) \in Entries
    BY <1>1, <1>t, TailRefs, TailEntries DEF Retrying, Current
  <2> QED BY EntriesRefs DEF CountsTries, AllTracked, Entries
<1>2. ASSUME NEW w \in Workers, RetryMisses(w) PROVE RetriesBounded' /\ DroppedOnlyExpired'
  <2>1. /\ Current(w).attempt_count \in Nat /\ Current(w).attempt_count <= MAX_ATTEMPTS
        /\ Current(w).attempt_count = tries[Current(w).ref] /\ Current(w).ref \in Refs
    BY <1>1, <1>2, AttemptsAssumption DEF RetryMisses, Expired, Entries, Tracked
  <2>2. /\ tries'[Current(w).ref] = tries[Current(w).ref] + 1
        /\ \A r \in Refs \ {Current(w).ref} : tries'[r] = tries[r]
        /\ dropped' = dropped /\ aged' = aged
    BY <1>t, <1>2, <2>1 DEF RetryMisses
  <2>3. RetriesBounded'
    BY <2>1, <2>2, AttemptsAssumption DEF RetriesBounded
  <2>4. Current(w).ref \notin dropped
    BY <1>1, <1>2, InBatch DEF RetryMisses, OnlyInBatch
  <2> QED BY <1>t, <2>2, <2>3, <2>4 DEF DroppedOnlyExpired
<1>3. ASSUME NEW w \in Workers, RetryExpired(w) PROVE RetriesBounded' /\ DroppedOnlyExpired'
  <2>1. /\ Expired(Current(w)) /\ Tracked(Current(w)) /\ Current(w) \in Entries
        /\ tries' = tries /\ aged' = aged /\ dropped' = dropped \cup {Current(w).ref}
    BY <1>1, <1>3 DEF RetryExpired
  <2>2. tries[Current(w).ref] > MAX_ATTEMPTS \/ Current(w).ref \in aged
    BY <2>1 DEF Expired, Tracked
  <2> QED BY <2>1, <2>2 DEF RetriesBounded, DroppedOnlyExpired
<1>4. ASSUME NEW w \in Workers, NEW r \in todo[w], TryImport(w, r)
      PROVE  RetriesBounded' /\ DroppedOnlyExpired'
  <2> tries' = tries /\ aged' = aged /\ dropped' \ Plain = dropped \ Plain
    BY <1>4 DEF TryImport, FromImport
  <2> QED BY DEF RetriesBounded, DroppedOnlyExpired
<1>5. CASE tries' = tries /\ aged \subseteq aged' /\ dropped' = dropped
  BY <1>5 DEF RetriesBounded, DroppedOnlyExpired
<1>6. ASSUME NEW w \in Workers,
             \/ \E S \in SUBSET unseen : Take(w, S)
             \/ FetchAll(w) \/ RetryResolves(w) \/ RetryRaises(w)
             \/ Requeue(w) \/ Finish(w) \/ GiveUp(w)
      PROVE  tries' = tries /\ aged' = aged /\ dropped' = dropped
  BY <1>6 DEF Take, FetchAll, RetryResolves, RetryRaises, Requeue, Finish, GiveUp
<1>7. ASSUME UNCHANGED vars \/ DayPasses \/ \E r \in Refs : Neo4jChanges(r)
      PROVE  tries' = tries /\ aged \subseteq aged' /\ dropped' = dropped
  BY <1>7 DEF vars, DayPasses, Neo4jChanges
<1> QED BY <1>2, <1>3, <1>4, <1>5, <1>6, <1>7 DEF Next, Work

LEMMA BoundedInit == Init => RetriesBounded /\ DroppedOnlyExpired
  BY AttemptsAssumption DEF Init, RetriesBounded, DroppedOnlyExpired

(* The inductive invariant of the retry queue. *)
LEMMA Invariant ==
  Spec => [](TypeOK /\ HandsFree /\ InOnePlace /\ CountsTries /\ RetriesBounded
             /\ DroppedOnlyExpired)
<1> DEFINE I == TypeOK /\ HandsFree /\ InOnePlace /\ CountsTries /\ RetriesBounded
                 /\ DroppedOnlyExpired
<1>1. Init => I
  BY TypeInit, HandsFreeInit, PlacesInit, CountsInit, BoundedInit
<1>2. I /\ [Next]_vars => I'
  BY TypeStep, HandsFreeStep, PlacesStep, CountsStep, BoundedStep
<1> HIDE DEF I
<1>3. Spec => []I
  BY <1>1, <1>2, PTL DEF Spec
<1> QED BY <1>3, PTL DEF I

(* No reference is retried more than MAX_ATTEMPTS + 1 times, however often *)
(* replicas take each other's entries and put them back.                   *)
THEOREM Bounded == Spec => []RetriesBounded
  BY Invariant, PTL

(* A from-import is dropped only after MAX_ATTEMPTS + 1 retries that found *)
(* nothing, or a day without one.                                          *)
THEOREM DroppedExpired == Spec => []DroppedOnlyExpired
  BY Invariant, PTL
=============================================================================
