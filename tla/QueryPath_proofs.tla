--------------------------- MODULE QueryPath_proofs ---------------------------
(***************************************************************************)
(* Proofs about QueryPath, for any number of queries: what the gateway's   *)
(* limiter lets in, and what the retriever's two searches hand over.       *)
(***************************************************************************)
EXTENDS QueryPath, TLAPS

-----------------------------------------------------------------------------
(* The limiter alone.                                                      *)

(* No clock read lies in the future, and those to come into the window do. *)
ReadsInWindow ==
  /\ from <= clock
  /\ \A c \in Callers : now[c] <= clock
  /\ \A c \in Pending : from <= now[c]

(* The bucket is never fuller than full, and time that was taken off it is *)
(* not lost: up to now it would refill to at least nothing.                *)
BucketBounded ==
  bucket.stored => /\ bucket.tokens <= Capacity
                   /\ bucket.lastRefill <= clock
                   /\ bucket.tokens + (clock - bucket.lastRefill) >= 0

(* What was admitted and what is left never exceed a full bucket and the   *)
(* time from the window's start to lastRefill.                             *)
Conserved ==
  \/ spent = 0
  \/ /\ bucket.stored /\ from <= bucket.lastRefill
     /\ spent + bucket.tokens <= Capacity + (bucket.lastRefill - from)

IInv == LimiterTypeOK /\ ReadsInWindow /\ BucketBounded /\ Conserved

LEMMA InitIInv == LimiterInit => IInv
BY LimiterAssumption
DEF LimiterInit, NoBucket, IInv, LimiterTypeOK, ReadsInWindow, BucketBounded, Conserved, Pending

LEMMA TickIInv == IInv /\ Tick => IInv'
BY LimiterAssumption
DEF Tick, IInv, LimiterTypeOK, ReadsInWindow, BucketBounded, Conserved, Pending

LEMMA StartWindowIInv == IInv /\ StartWindow => IInv'
BY LimiterAssumption
DEF StartWindow, IInv, LimiterTypeOK, ReadsInWindow, BucketBounded, Conserved, Pending

LEMMA ReadClockIInv ==
  ASSUME IInv, NEW c \in Callers, ReadClock(c)
  PROVE  IInv'
BY LimiterAssumption
DEF ReadClock, IInv, LimiterTypeOK, ReadsInWindow, BucketBounded, Conserved, Pending

LEMMA StoreIInv ==
  ASSUME IInv, NEW c \in Callers, Store(c)
  PROVE  IInv'
BY LimiterAssumption
DEF Store, IInv, LimiterTypeOK, ReadsInWindow, BucketBounded, Conserved, Pending

LEMMA AllowIInv ==
  ASSUME IInv, NEW c \in Callers, Allow(c)
  PROVE  IInv'
<1>1. /\ clock \in Nat /\ from \in Nat /\ spent \in Nat /\ now[c] \in Nat
      /\ bucket.tokens \in Int /\ bucket.lastRefill \in Nat
      /\ bucket.stored /\ call[c] = "read" /\ c \in Pending
  BY DEF IInv, LimiterTypeOK, Allow, Pending
<1>2. /\ Refilled(c) \in Int /\ Refilled(c) <= Capacity
      /\ Refilled(c) <= bucket.tokens + (now[c] - bucket.lastRefill)
      /\ Refilled(c) + (clock - now[c]) >= 0
  BY <1>1, LimiterAssumption DEF IInv, BucketBounded, ReadsInWindow, Refilled
<1>3. /\ from <= now[c] /\ now[c] <= clock
  BY <1>1 DEF IInv, ReadsInWindow
<1>4. /\ clock' = clock /\ from' = from /\ now' = now
      /\ bucket'.stored = TRUE /\ bucket'.lastRefill = now[c]
      /\ bucket' \in [stored : BOOLEAN, tokens : Int, lastRefill : Nat]
      /\ \/ bucket'.tokens = Refilled(c) /\ spent' = spent
         \/ /\ bucket'.tokens = Refilled(c) - Cost /\ spent' = spent + Cost
            /\ Refilled(c) >= Cost
  <2>1. bucket \in [stored : BOOLEAN, tokens : Int, lastRefill : Nat]
    BY DEF IInv, LimiterTypeOK
  <2>2. CASE Refilled(c) < Cost
    <3>1. bucket' = [bucket EXCEPT !.tokens = Refilled(c), !.lastRefill = now[c]] /\ spent' = spent
      BY <1>2, <2>2, LimiterAssumption DEF Allow
    <3> QED BY <1>1, <1>2, <2>1, <3>1 DEF Allow
  <2>3. CASE Refilled(c) >= Cost
    <3>1. /\ bucket' = [bucket EXCEPT !.tokens = Refilled(c) - Cost, !.lastRefill = now[c]]
          /\ spent' = spent + Cost
      BY <1>2, <2>3, LimiterAssumption DEF Allow
    <3>2. Refilled(c) - Cost \in Int
      BY <1>2, LimiterAssumption
    <3> QED BY <1>1, <2>1, <2>3, <3>1, <3>2 DEF Allow
  <2>4. Refilled(c) < Cost \/ Refilled(c) >= Cost
    BY <1>2, LimiterAssumption
  <2> QED BY <2>2, <2>3, <2>4
<1>5. call' \in [Callers -> {"out", "read", "allowed", "refused"}] /\ Pending' \subseteq Pending
  BY DEF Allow, IInv, LimiterTypeOK, Pending
<1>6. LimiterTypeOK'
  BY <1>1, <1>4, <1>5, LimiterAssumption DEF LimiterTypeOK, IInv
<1>7. ReadsInWindow'
  BY <1>4, <1>5 DEF ReadsInWindow, IInv
<1>8. BucketBounded'
  BY <1>1, <1>2, <1>3, <1>4, LimiterAssumption DEF BucketBounded
<1>9. Conserved'
  BY <1>1, <1>2, <1>3, <1>4, LimiterAssumption DEF Conserved, IInv
<1> QED BY <1>6, <1>7, <1>8, <1>9 DEF IInv

LEMMA InvariantIInv == LimiterSpec => []IInv
<1>1. IInv /\ [LimiterNext]_limiterVars => IInv'
  <2> SUFFICES ASSUME IInv, [LimiterNext]_limiterVars PROVE IInv'
    OBVIOUS
  <2>1. CASE Tick
    BY <2>1, TickIInv
  <2>2. CASE StartWindow
    BY <2>2, StartWindowIInv
  <2>3. CASE \E c \in Callers : ReadClock(c) \/ Store(c) \/ Allow(c)
    BY <2>3, ReadClockIInv, StoreIInv, AllowIInv
  <2>4. CASE UNCHANGED limiterVars
    BY <2>4 DEF limiterVars, IInv, LimiterTypeOK, ReadsInWindow, BucketBounded, Conserved, Pending
  <2> QED BY <2>1, <2>2, <2>3, <2>4 DEF LimiterNext
<1> QED BY InitIInv, <1>1, PTL DEF LimiterSpec

(* Every bucket that is stored is a bucket, and every call is where the    *)
(* code can be.                                                            *)
THEOREM LimiterTypeCorrect == LimiterSpec => []LimiterTypeOK
<1>1. IInv => LimiterTypeOK
  BY DEF IInv
<1> QED BY InvariantIInv, <1>1, PTL

(* The limit holds over every window, for any number of concurrent calls   *)
(* and any order in which they reach the mutex.                            *)
THEOREM RateIsLimited == LimiterSpec => []WithinRate
<1>1. ASSUME IInv PROVE WithinRate
  BY <1>1, LimiterAssumption
  DEF IInv, LimiterTypeOK, ReadsInWindow, BucketBounded, Conserved, WithinRate
<1> QED BY InvariantIInv, <1>1, PTL

-----------------------------------------------------------------------------
(* The limiter in the gateway: a query past it no longer touches the       *)
(* bucket.                                                                 *)

(* Every step is the limiter's or leaves it alone. *)
LEMMA StepIsLimiters == [Next]_vars => [LimiterNext]_limiterVars
<1> SUFFICES ASSUME [Next]_vars PROVE [LimiterNext]_limiterVars
  OBVIOUS
<1>1. CASE Limiting
  BY <1>1 DEF Limiting
<1>2. CASE UNCHANGED limiterVars
  BY <1>2
<1>3. CASE UNCHANGED vars
  BY <1>3 DEF vars, limiterVars
<1> QED
  BY <1>1, <1>2, <1>3 DEF Next, limiterVars

LEMMA PathUsesLimiter == Spec => LimiterSpec
<1>1. Init => LimiterInit
  BY DEF Init
<1> QED
  BY <1>1, StepIsLimiters, PTL DEF Spec, LimiterSpec

(* Whatever becomes of the queries let in, the gateway lets no more of     *)
(* them in over any window than the bucket and its refill allow.           *)
THEOREM PathIsLimited == Spec => []WithinRate
  BY PathUsesLimiter, RateIsLimited, PTL

-----------------------------------------------------------------------------
(* The retriever.                                                          *)

SearchStates == {"off", "running", "nodes", "none", "received"}

RetrieverTypeOK ==
  /\ search \in [Followed -> [Sources -> SearchStates]]
  /\ wait \in [Followed -> {"idle", "waiting", "timed out", "returned"}]
  /\ got \in [Followed -> SUBSET Sources]
  /\ arrived \in [Followed -> SUBSET Sources]

(* What arrived is taken or still lies in its channel, and it lies there   *)
(* only while somebody will look: nothing arrives before Retrieve waits.   *)
Delivered(q) ==
  \A s \in arrived[q] :
    \/ s \in got[q]
    \/ search[q][s] = "nodes" /\ wait[q] \in {"waiting", "timed out"}

(* The invariant.  ArrivedIsReturned says nothing before the return, so it *)
(* is not inductive.                                                       *)
SearchInv == RetrieverTypeOK /\ \A q \in Followed : Delivered(q)

LEMMA InitSearch == Init => SearchInv
  BY DEF Init, SearchInv, RetrieverTypeOK, Delivered, SearchStates

LEMMA RetrieverTypes ==
  ASSUME SearchInv, NEW q \in Followed, RetrieverStep(q)
  PROVE  RetrieverTypeOK'
<1>1. RetrieverTypeOK
  BY DEF SearchInv
<1>2. ASSUME NEW s \in Sources, SearchEnds(q, s) PROVE RetrieverTypeOK'
  <2>1. PICK r \in {"nodes", "none"} :
          /\ search' = [search EXCEPT ![q][s] = r]
          /\ arrived' = [arrived EXCEPT ![q] =
                           IF r = "nodes" /\ wait[q] = "waiting" THEN @ \cup {s} ELSE @]
          /\ UNCHANGED <<wait, got>>
    BY <1>2 DEF SearchEnds
  <2>2. search' \in [Followed -> [Sources -> SearchStates]]
    BY <1>1, <2>1 DEF RetrieverTypeOK, SearchStates
  <2>3. arrived' \in [Followed -> SUBSET Sources]
    BY <1>1, <2>1 DEF RetrieverTypeOK
  <2> QED
    BY <1>1, <2>1, <2>2, <2>3 DEF RetrieverTypeOK
<1>3. ASSUME NEW s \in Sources, SearchCancelled(q, s) PROVE RetrieverTypeOK'
  BY <1>1, <1>3 DEF SearchCancelled, RetrieverTypeOK, SearchStates
<1>4. ASSUME NEW S \in SUBSET Sources, Take(q, S), UNCHANGED arrived,
             wait' \in [Followed -> {"idle", "waiting", "timed out", "returned"}]
      PROVE  RetrieverTypeOK'
  <2>1. search' \in [Followed -> [Sources -> SearchStates]]
    BY <1>1, <1>4 DEF Take, RetrieverTypeOK, SearchStates
  <2>2. got' \in [Followed -> SUBSET Sources]
    BY <1>1, <1>4 DEF Take, RetrieverTypeOK
  <2> QED
    BY <1>1, <1>4, <2>1, <2>2 DEF RetrieverTypeOK
<1>5. ASSUME NEW s \in Sources, Receive(q, s) PROVE RetrieverTypeOK'
  BY <1>1, <1>4, <1>5, {s} \in SUBSET Sources DEF Receive, RetrieverTypeOK
<1>6. CASE ReturnPartial(q)
  BY <1>1, <1>4, <1>6, {s \in Sources : search[q][s] \in {"nodes", "none"}} \in SUBSET Sources
  DEF ReturnPartial, Return, RetrieverTypeOK
<1>7. CASE Retrieve(q)
  <2>1. [s \in Sources |-> IF s \in intent[q].searches THEN "running" ELSE "off"]
          \in [Sources -> SearchStates]
    BY DEF SearchStates
  <2>2. search' \in [Followed -> [Sources -> SearchStates]]
    BY <1>1, <1>7, <2>1 DEF Retrieve, RetrieverTypeOK
  <2> QED
    BY <1>1, <1>7, <2>2 DEF Retrieve, RetrieverTypeOK
<1>8. CASE TimesOut(q) \/ ReturnAll(q)
  BY <1>1, <1>8 DEF TimesOut, ReturnAll, Return, RetrieverTypeOK
<1> QED
  BY <1>2, <1>3, <1>5, <1>6, <1>7, <1>8 DEF RetrieverStep

(* What a step of the retriever does to one source of one query: a channel *)
(* is emptied only into what is returned.                                  *)
LEMMA RetrieverDelivers ==
  ASSUME SearchInv, NEW q \in Followed, RetrieverStep(q), NEW p \in Followed
  PROVE  Delivered(p)'
<1>1. /\ search \in [Followed -> [Sources -> SearchStates]]
      /\ wait \in [Followed -> {"idle", "waiting", "timed out", "returned"}]
      /\ got \in [Followed -> SUBSET Sources] /\ arrived \in [Followed -> SUBSET Sources]
      /\ Delivered(p)
  BY DEF SearchInv, RetrieverTypeOK
<1> SUFFICES ASSUME NEW t \in arrived'[p]
             PROVE  \/ t \in got'[p]
                    \/ search'[p][t] = "nodes" /\ wait'[p] \in {"waiting", "timed out"}
  BY DEF Delivered
<1>2. ASSUME NEW s \in Sources, SearchEnds(q, s)
      PROVE  t \in got'[p] \/ (search'[p][t] = "nodes" /\ wait'[p] \in {"waiting", "timed out"})
  <2>1. PICK r \in {"nodes", "none"} :
          /\ search' = [search EXCEPT ![q][s] = r]
          /\ arrived' = [arrived EXCEPT ![q] =
                           IF r = "nodes" /\ wait[q] = "waiting" THEN @ \cup {s} ELSE @]
          /\ search[q][s] = "running" /\ UNCHANGED <<wait, got>>
    BY <1>2 DEF SearchEnds
  <2>2. CASE t \in arrived[p]
    BY <1>1, <2>1, <2>2 DEF Delivered
  <2>3. CASE t \notin arrived[p]
    <3>1. p = q /\ t = s /\ r = "nodes" /\ wait[q] = "waiting"
      BY <1>1, <2>1, <2>3
    <3> QED
      BY <1>1, <2>1, <3>1
  <2> QED
    BY <2>2, <2>3
<1>3. ASSUME NEW s \in Sources, SearchCancelled(q, s)
      PROVE  t \in got'[p] \/ (search'[p][t] = "nodes" /\ wait'[p] \in {"waiting", "timed out"})
  <2>1. /\ t \in arrived[p] /\ t \in Sources /\ search[q][s] = "running"
        /\ search' = [search EXCEPT ![q][s] = "none"] /\ UNCHANGED <<wait, got>>
    BY <1>1, <1>3 DEF SearchCancelled
  <2>2. p = q /\ t = s => t \in got[p]
    BY <1>1, <2>1 DEF Delivered
  <2> QED
    BY <1>1, <2>1, <2>2 DEF Delivered
<1>4. ASSUME NEW S \in SUBSET Sources, Take(q, S), UNCHANGED arrived,
             wait' = wait \/ (\A s \in Sources : search[q][s] = "nodes" => s \in S),
             p # q => wait'[p] = wait[p]
      PROVE  t \in got'[p] \/ (search'[p][t] = "nodes" /\ wait'[p] \in {"waiting", "timed out"})
  <2>1. t \in arrived[p] /\ t \in Sources
    BY <1>1, <1>4
  <2>2. /\ got'[p] = IF p = q THEN got[p] \cup {s \in S : search[q][s] = "nodes"} ELSE got[p]
        /\ search'[p][t] = IF p = q /\ t \in S THEN "received" ELSE search[p][t]
    BY <1>1, <1>4, <2>1 DEF Take
  <2> QED
    BY <1>1, <1>4, <2>1, <2>2 DEF Delivered
<1>5. ASSUME NEW s \in Sources, Receive(q, s)
      PROVE  t \in got'[p] \/ (search'[p][t] = "nodes" /\ wait'[p] \in {"waiting", "timed out"})
  BY <1>4, <1>5, {s} \in SUBSET Sources DEF Receive
<1>6. CASE ReturnPartial(q)
  BY <1>1, <1>4, <1>6, {s \in Sources : search[q][s] \in {"nodes", "none"}} \in SUBSET Sources
  DEF ReturnPartial, Return
<1>7. CASE Retrieve(q)
  BY <1>1, <1>7 DEF Retrieve, Delivered
<1>8. CASE TimesOut(q)
  BY <1>1, <1>8 DEF TimesOut, Delivered
<1>9. CASE ReturnAll(q)
  <2>1. t \in arrived[p] /\ t \in Sources /\ UNCHANGED <<search, got>>
    BY <1>1, <1>9 DEF ReturnAll
  <2>2. p = q => search[p][t] # "nodes"
    BY <1>9, <2>1 DEF ReturnAll, Collected, Expected
  <2>3. p # q => wait'[p] = wait[p]
    BY <1>1, <1>9 DEF ReturnAll, Return
  <2> QED
    BY <1>1, <2>1, <2>2, <2>3 DEF Delivered
<1> QED
  BY <1>2, <1>3, <1>5, <1>6, <1>7, <1>8, <1>9 DEF RetrieverStep

LEMMA RetrieverInv ==
  ASSUME SearchInv, NEW q \in Followed, RetrieverStep(q)
  PROVE  SearchInv'
<1>1. RetrieverTypeOK'
  BY RetrieverTypes
<1>2. \A p \in Followed : Delivered(p)'
  BY RetrieverDelivers
<1> QED
  BY <1>1, <1>2 DEF SearchInv

LEMMA SearchInvHolds == Spec => []SearchInv
<1>1. SearchInv /\ [Next]_vars => SearchInv'
  <2> SUFFICES ASSUME SearchInv, [Next]_vars PROVE SearchInv'
    OBVIOUS
  <2>1. CASE UNCHANGED retrieveVars
    BY <2>1 DEF SearchInv, RetrieverTypeOK, Delivered, retrieveVars
  <2>2. ASSUME NEW q \in Followed, RetrieverStep(q) PROVE SearchInv'
    BY <2>2, RetrieverInv
  <2>3. UNCHANGED vars => UNCHANGED retrieveVars
    BY DEF vars, queryVars
  <2>4. Limiting => UNCHANGED retrieveVars
    BY DEF Limiting, queryVars
  <2> QED
    BY <2>1, <2>2, <2>3, <2>4 DEF Next
<1> QED
  BY InitSearch, <1>1, PTL DEF Spec

(* What a search delivered while Retrieve waited is in what it returns,    *)
(* whenever the timer fires, the select takes it, the gateway gives up or  *)
(* the other search ends, for any number of queries side by side.          *)
THEOREM ArrivedReturned == Spec => []ArrivedIsReturned
<1>1. SearchInv => ArrivedIsReturned
  BY DEF SearchInv, Delivered, ArrivedIsReturned
<1> QED
  BY SearchInvHolds, <1>1, PTL
=============================================================================
