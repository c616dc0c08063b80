----------------------- MODULE SubgraphExpansion_proofs -----------------------
(***************************************************************************)
(* That a confirmed call is never disputed, for any graph, any entrypoints *)
(* and any number of batches, writes and queries; that an expansion scores *)
(* by the best path, and that the best scores get the budget.              *)
(***************************************************************************)
EXTENDS SubgraphExpansion, FiniteSetTheorems, SequenceTheorems, WellFoundedInduction, TLAPS

-----------------------------------------------------------------------------
(* The graph.                                                              *)

(* confirmed_at remembers what was seen, until the caller is written. *)
SeenIsFresh == \A r \in seen : confirmed[r] = "fresh"

(* The graph's types and what was seen. *)
GraphInv == GraphTypeOK /\ SeenIsFresh

(* A call is among the relations, so its properties are defined. *)
LEMMA CallsAreRelations == Calls \subseteq Relations
  BY DEF Relations

(* The graph as indexing leaves it. *)
LEMMA InitInv == GraphInit => GraphInv
  BY GraphAssumption DEF GraphInit, GraphInv, GraphTypeOK, SeenIsFresh, NoBatch

(* What the writers do: a node's upsert and a tombstone forget what they   *)
(* make stale or remove; an upsert of relations leaves confirmed_at alone. *)
LEMMA WritersInv == GraphInv /\ Writers => GraphInv'
<1> SUFFICES ASSUME GraphInv, Writers PROVE GraphInv'
  OBVIOUS
<1> USE GraphAssumption, CallsAreRelations DEF GraphInv, GraphTypeOK, SeenIsFresh
<1>1. PICK n \in Nodes :
        \/ UpsertNode(n)
        \/ \E E \in SUBSET (From(n) \cap Calls) : E # {} /\ UpsertRelations(E)
        \/ \E r \in From(n) \cap Imports : r[2] \in active /\ UpsertRelations({r})
        \/ Tombstone(n)
  BY DEF Writers
<1>2. CASE UpsertNode(n)
  BY <1>2 DEF UpsertNode, Write
<1>3. CASE \E E \in SUBSET (From(n) \cap Calls) : E # {} /\ UpsertRelations(E)
  BY <1>3 DEF UpsertRelations, Write, From
<1>4. CASE \E r \in From(n) \cap Imports : r[2] \in active /\ UpsertRelations({r})
  BY <1>4 DEF UpsertRelations, Write, From
<1>5. CASE Tombstone(n)
  <2> DEFINE gone == IF {r \in From(n) : Exists(r)} = {} THEN {}
                     ELSE {r \in Relations : n \in {r[1], r[2]}}
  <2>1. /\ source' = [r \in Relations |-> IF r \in gone THEN "none" ELSE source[r]]
        /\ confirmed' = [r \in Relations |-> IF r \in gone THEN "null" ELSE confirmed[r]]
        /\ seen' = seen \ gone
        /\ active' = active \ {n}
        /\ Write /\ UNCHANGED <<traced, batch, batches>>
    BY <1>5 DEF Tombstone
  <2> HIDE DEF gone
  <2> QED
    BY <2>1 DEF Write
<1> QED
  BY <1>1, <1>2, <1>3, <1>4, <1>5

(* What the enricher does: only the downgrade takes a confirmed_at away,   *)
(* and only a stale one.                                                   *)
LEMMA EnricherInv == GraphInv /\ Enricher => GraphInv'
<1> SUFFICES ASSUME GraphInv, Enricher PROVE GraphInv'
  OBVIOUS
<1> USE GraphAssumption, CallsAreRelations DEF GraphInv, GraphTypeOK, SeenIsFresh
<1>1. CASE TakeBatch
  BY <1>1 DEF TakeBatch, NoBatch
<1>2. CASE UpdateNodeProps
  BY <1>2 DEF UpdateNodeProps, Session, NoBatch
<1>3. CASE UpsertDynamicEdges
  BY <1>3 DEF UpsertDynamicEdges, Session, NoBatch
<1>4. CASE ConfirmStaticEdges
  BY <1>4 DEF ConfirmStaticEdges, Session, NoBatch
<1>5. CASE DetectConflicts
  BY <1>5 DEF DetectConflicts, Session, NoBatch
<1>6. CASE DowngradeStale
  BY <1>6 DEF DowngradeStale, Session, NoBatch
<1>7. CASE BatchFails
  BY <1>7 DEF BatchFails, NoBatch
<1> QED
  BY <1>1, <1>2, <1>3, <1>4, <1>5, <1>6, <1>7 DEF Enricher

(* Only the detector makes a conflict, and it passes over a call with a    *)
(* confirmed_at.                                                           *)
LEMMA StepNotDisputed ==
  GraphInv /\ [GraphNext]_graphVars =>
    \A r \in seen : source[r] # "conflict" => source'[r] # "conflict"
<1> SUFFICES ASSUME GraphInv, [GraphNext]_graphVars,
                    NEW r \in seen, source[r] # "conflict"
             PROVE  source'[r] # "conflict"
  OBVIOUS
<1>1. r \in Relations /\ confirmed[r] = "fresh"
  BY CallsAreRelations DEF GraphInv, GraphTypeOK, SeenIsFresh
<1>2. CASE Writers
  <2>1. PICK n \in Nodes :
          \/ UpsertNode(n) \/ Tombstone(n)
          \/ \E E \in SUBSET Relations : UpsertRelations(E)
    BY <1>2, CallsAreRelations DEF Writers, From, Relations
  <2>2. CASE UpsertNode(n)
    BY <1>1, <2>2 DEF UpsertNode
  <2>3. CASE Tombstone(n)
    BY <1>1, <2>3 DEF Tombstone
  <2>4. CASE \E E \in SUBSET Relations : UpsertRelations(E)
    BY <1>1, <2>4 DEF UpsertRelations
  <2> QED
    BY <2>1, <2>2, <2>3, <2>4
<1>3. CASE Enricher
  <2>1. CASE TakeBatch \/ UpdateNodeProps \/ UpsertDynamicEdges \/ BatchFails
    BY <1>1, <2>1 DEF TakeBatch, UpdateNodeProps, UpsertDynamicEdges, BatchFails
  <2>2. CASE ConfirmStaticEdges
    BY <1>1, <2>2 DEF ConfirmStaticEdges
  <2>3. CASE DetectConflicts
    BY <1>1, <2>3 DEF DetectConflicts
  <2>4. CASE DowngradeStale
    BY <1>1, <2>4 DEF DowngradeStale
  <2> QED
    BY <1>3, <2>1, <2>2, <2>3, <2>4 DEF Enricher
<1>4. CASE UNCHANGED graphVars
  BY <1>4 DEF graphVars
<1> QED
  BY <1>2, <1>3, <1>4 DEF GraphNext

(* The two together hold in every run of the writers. *)
LEMMA InvHolds == GraphSpec => []GraphInv
<1>1. GraphInv /\ UNCHANGED graphVars => GraphInv'
  BY DEF GraphInv, GraphTypeOK, SeenIsFresh, graphVars
<1>2. GraphInv /\ [GraphNext]_graphVars => GraphInv'
  BY <1>1, WritersInv, EnricherInv DEF GraphNext
<1> QED
  BY InitInv, <1>2, PTL DEF GraphSpec

(* The properties of nodes and relations keep their values, and a batch    *)
(* observed entrypoints only.                                              *)
THEOREM GraphTypeCorrect == GraphSpec => []GraphTypeOK
<1>1. GraphInv => GraphTypeOK
  BY DEF GraphInv
<1> QED
  BY InvHolds, <1>1, PTL

(* In every run of the graph's three writers, a call that was confirmed    *)
(* is not marked 'conflict' before its caller is written anew              *)
(* (CONFLICT_DETECTOR_QUERY against UPSERT_EDGES_QUERY).                   *)
THEOREM NotDisputed == GraphSpec => ConfirmedNotDisputed
<1>1. GraphInv /\ [GraphNext]_graphVars =>
        [\A r \in seen : source[r] # "conflict" => source'[r] # "conflict"]_graphVars
  BY StepNotDisputed
<1> QED
  BY InvHolds, <1>1, PTL DEF GraphSpec, ConfirmedNotDisputed

-----------------------------------------------------------------------------
(* The expander only reads it: what holds of the graph holds while queries *)
(* are answered.                                                           *)

(* Every step is the graph's or leaves it alone. *)
LEMMA StepIsGraphs == [Next]_vars => [GraphNext]_graphVars
<1> SUFFICES ASSUME [Next]_vars PROVE [GraphNext]_graphVars
  OBVIOUS
<1>1. CASE Expander /\ UNCHANGED graphVars
  BY <1>1
<1>2. CASE GraphStep
  BY <1>2 DEF GraphStep
<1>3. CASE UNCHANGED vars
  BY <1>3 DEF vars, graphVars
<1> QED
  BY <1>1, <1>2, <1>3 DEF Next

(* So a run with queries is one of the graph. *)
LEMMA ExpansionReadsGraph == Spec => GraphSpec
<1>1. Init => GraphInit
  BY DEF Init
<1> QED
  BY <1>1, StepIsGraphs, PTL DEF Spec, GraphSpec

(* With expansions under way as well, no confirmed call is disputed before *)
(* its caller is written anew.                                             *)
THEOREM NotDisputedUnderQueries == Spec => ConfirmedNotDisputed
  BY ExpansionReadsGraph, NotDisputed, PTL

-----------------------------------------------------------------------------
(* Numbers, and functions defined by recursion on them.                    *)

(* A set of numbers has a least one. *)
LEMMA LeastElement ==
  ASSUME NEW T \in SUBSET Nat, T # {}
  PROVE  \E m \in T : \A k \in T : m <= k
<1>1. \A i, j \in Nat : i < j => <<i, j>> \in OpToRel(<, Nat)
  BY DEF OpToRel
<1>2. PICK m \in T : \A k \in T : ~ (<<k, m>> \in OpToRel(<, Nat))
  BY NatLessThanWellFounded, WFMin
<1>3. ASSUME NEW k \in T PROVE ~ (k < m)
  <2>1. k \in Nat /\ m \in Nat /\ ~ (<<k, m>> \in OpToRel(<, Nat))
    BY <1>2
  <2> QED
    BY <1>1, <2>1
<1> QED
  BY <1>3

(* Induction, of a set of numbers in place of a predicate. *)
LEMMA NatInduct ==
  ASSUME NEW T, 0 \in T, \A n \in Nat : n \in T => n + 1 \in T
  PROVE  Nat \subseteq T
<1> SUFFICES ASSUME Nat \ T # {} PROVE FALSE
  OBVIOUS
<1>1. PICK m \in Nat \ T : \A k \in Nat \ T : m <= k
  BY LeastElement
<1>2. m # 0 /\ m - 1 \in Nat /\ m - 1 \in T
  BY <1>1
<1> QED
  BY <1>1, <1>2

(* f goes on from base by the steps. *)
Iterates(f, S, base, step) ==
  f \in [Nat -> S] /\ f[0] = base /\ \A n \in Nat : f[n + 1] = step[n][f[n]]

(* Whatever the steps there is such a function: up to each n by induction, *)
(* and those functions agree.                                              *)
LEMMA IterationExists ==
  ASSUME NEW S, NEW base \in S, NEW step \in [Nat -> [S -> S]]
  PROVE  \E f : Iterates(f, S, base, step)
<1> DEFINE Upto(n, g) == g[0] = base /\ \A i \in Nat : i < n => g[i + 1] = step[i][g[i]]
           T == {n \in Nat : \E g \in [Nat -> S] : Upto(n, g)}
<1>1. 0 \in T
  <2>1. [i \in Nat |-> base] \in [Nat -> S] /\ Upto(0, [i \in Nat |-> base])
    OBVIOUS
  <2> QED
    BY <2>1
<1>2. ASSUME NEW n \in Nat, n \in T PROVE n + 1 \in T
  <2>1. PICK g \in [Nat -> S] : Upto(n, g)
    BY <1>2
  <2> DEFINE h == [g EXCEPT ![n + 1] = step[n][g[n]]]
  <2>2. h \in [Nat -> S]
    OBVIOUS
  <2>3. /\ \A i \in Nat : i # n + 1 => h[i] = g[i]
        /\ h[n + 1] = step[n][g[n]]
    OBVIOUS
  <2> HIDE DEF h
  <2>4. ASSUME NEW i \in Nat, i < n + 1 PROVE h[i + 1] = step[i][h[i]]
    <3>1. CASE i = n
      BY <2>3, <3>1
    <3>2. CASE i < n
      BY <2>1, <2>3, <3>2
    <3> QED
      BY <2>4, <3>1, <3>2
  <2>5. h[0] = base
    <3>1. 0 # n + 1 /\ g[0] = base
      BY <2>1
    <3> QED
      BY <2>3, <3>1
  <2> QED
    BY <2>2, <2>4, <2>5
<1>3. Nat \subseteq T
  <2> HIDE DEF T
  <2> QED
    BY <1>1, <1>2, NatInduct
<1>4. PICK F \in [Nat -> [Nat -> S]] : \A n \in Nat : Upto(n, F[n])
  <2> DEFINE F == [n \in Nat |-> CHOOSE g \in [Nat -> S] : Upto(n, g)]
  <2>1. ASSUME NEW n \in Nat PROVE F[n] \in [Nat -> S] /\ Upto(n, F[n])
    <3>1. \E g \in [Nat -> S] : Upto(n, g)
      BY <1>3
    <3> HIDE DEF Upto
    <3> QED
      BY <3>1
  <2> HIDE DEF Upto
  <2>2. F = [n \in Nat |-> F[n]]
    OBVIOUS
  <2> HIDE DEF F
  <2> QED
    BY <2>1, <2>2
<1> DEFINE f == [n \in Nat |-> F[n][n]]
<1>5. ASSUME NEW n \in Nat PROVE f[n + 1] = step[n][f[n]]
  <2>1. PICK a \in [Nat -> S] : a = F[n]
    OBVIOUS
  <2>2. PICK b \in [Nat -> S] : b = F[n + 1]
    OBVIOUS
  <2>3. Upto(n, a) /\ Upto(n + 1, b)
    <3> HIDE DEF Upto
    <3> QED
      BY <1>4, <2>1, <2>2
  <2>4. a[0] = b[0] /\ \A i \in Nat : i < n => a[i + 1] = step[i][a[i]] /\ b[i + 1] = step[i][b[i]]
    BY <2>3
  <2>5. a[n] = b[n]
    <3> DEFINE U == {i \in Nat : i <= n => a[i] = b[i]}
    <3>1. 0 \in U
      BY <2>4
    <3>2. ASSUME NEW i \in Nat, i \in U PROVE i + 1 \in U
      <4> SUFFICES ASSUME i + 1 <= n PROVE a[i + 1] = b[i + 1]
        OBVIOUS
      <4>1. a[i] = b[i] /\ i < n
        BY <3>2
      <4> QED
        BY <2>4, <4>1
    <3>3. Nat \subseteq U
      <4> HIDE DEF U
      <4> QED
        BY <3>1, <3>2, NatInduct
    <3> QED
      BY <3>3
  <2>6. b[n + 1] = step[n][b[n]]
    BY <2>3
  <2> QED
    BY <2>1, <2>2, <2>5, <2>6
<1>6. f \in [Nat -> S] /\ f[0] = base
  BY <1>4
<1>7. Iterates(f, S, base, step)
  BY <1>5, <1>6 DEF Iterates
<1> QED
  BY <1>7

-----------------------------------------------------------------------------
(* Ways in a graph.                                                        *)

(* A row of a query's level, and where a way leads. *)
Arc == [parent : Nodes, child : Nodes, cost : Nat \ {0}]
Way == [end : Nodes, cost : Nat]

(* The recursion that defines the ways does define them. *)
LEMMA WaysDefined ==
  ASSUME NEW S \in SUBSET Nodes, NEW A \in SUBSET Arc
  PROVE  /\ Ways(S, A) \in [Nat -> SUBSET Way]
         /\ Ways(S, A)[0] = {[end |-> n, cost |-> 0] : n \in S}
         /\ \A k \in Nat : Ways(S, A)[k + 1] =
              Ways(S, A)[k] \cup UNION {Onward(w, A) : w \in Ways(S, A)[k]}
<1> DEFINE Base == {[end |-> n, cost |-> 0] : n \in S}
           More(W) == W \cup UNION {Onward(w, A) : w \in W}
           Is(f) == f = [k \in Nat |-> IF k = 0 THEN Base ELSE More(f[k - 1])]
           step == [k \in Nat |-> [W \in SUBSET Way |-> More(W)]]
<1>1. Ways(S, A) = CHOOSE f : Is(f)
  BY DEF Ways
<1>2. ASSUME NEW W \in SUBSET Way PROVE More(W) \in SUBSET Way
  <2>1. ASSUME NEW w \in Way PROVE Onward(w, A) \subseteq Way
    BY DEF Onward, Way, Arc
  <2> QED
    BY <2>1
<1>3. Base \in SUBSET Way
  BY DEF Way
<1> HIDE DEF Base, More
<1>4. step \in [Nat -> [SUBSET Way -> SUBSET Way]]
  BY <1>2
<1>5. \A k \in Nat : \A W \in SUBSET Way : step[k][W] = More(W)
  OBVIOUS
<1> HIDE DEF step
<1>6. PICK f \in [Nat -> SUBSET Way] : f[0] = Base /\ \A n \in Nat : f[n + 1] = step[n][f[n]]
  <2>1. \E f : Iterates(f, SUBSET Way, Base, step)
    BY <1>3, <1>4, IterationExists
  <2> QED
    BY <2>1 DEF Iterates
<1>7. \A n \in Nat : f[n + 1] = More(f[n])
  BY <1>5, <1>6
<1>8. Is(f)
  <2>1. ASSUME NEW k \in Nat PROVE f[k] = IF k = 0 THEN Base ELSE More(f[k - 1])
    <3>1. CASE k = 0
      BY <1>6, <3>1
    <3>2. CASE k # 0
      <4>1. k - 1 \in Nat /\ (k - 1) + 1 = k
        BY <3>2
      <4> QED
        BY <1>7, <3>2, <4>1
    <3> QED
      BY <3>1, <3>2
  <2> QED
    BY <2>1
<1>9. Is(Ways(S, A))
  <2> HIDE DEF Is
  <2> QED
    BY <1>1, <1>8
<1> DEFINE g == Ways(S, A)
<1>10. g = [k \in Nat |-> IF k = 0 THEN Base ELSE More(g[k - 1])]
  BY <1>9
<1> HIDE DEF g
<1>11. g[0] = Base
  BY <1>10
<1>12. ASSUME NEW k \in Nat PROVE g[k + 1] = More(g[k])
  <2>1. k + 1 \in Nat /\ k + 1 # 0 /\ (k + 1) - 1 = k
    OBVIOUS
  <2> QED
    BY <1>10, <2>1
<1>13. \A k \in Nat : g[k] \in SUBSET Way
  <2> DEFINE T == {k \in Nat : g[k] \in SUBSET Way}
  <2>1. 0 \in T
    BY <1>3, <1>11
  <2>2. \A k \in Nat : k \in T => k + 1 \in T
    BY <1>2, <1>12
  <2>3. Nat \subseteq T
    <3> HIDE DEF T
    <3> QED
      BY <2>1, <2>2, NatInduct
  <2> QED
    BY <2>3
<1>14. g \in [Nat -> SUBSET Way]
  BY <1>10, <1>13
<1>15. /\ g \in [Nat -> SUBSET Way]
       /\ g[0] = Base
       /\ \A k \in Nat : g[k + 1] = More(g[k])
  BY <1>11, <1>12, <1>14
<1> QED
  BY <1>15 DEF Base, More, g

(* A way ends at a node and costs a number. *)
LEMMA WaysType ==
  ASSUME NEW S \in SUBSET Nodes, NEW A \in SUBSET Arc, NEW k \in Nat
  PROVE  Ways(S, A)[k] \subseteq Way
<1>1. Ways(S, A) \in [Nat -> SUBSET Way]
  BY WaysDefined
<1> QED
  BY <1>1

(* Without a step one is at a seed, at no cost. *)
LEMMA WaysStart ==
  ASSUME NEW S \in SUBSET Nodes, NEW A \in SUBSET Arc
  PROVE  Ways(S, A)[0] = {[end |-> n, cost |-> 0] : n \in S}
  BY WaysDefined

(* An arc takes a way on. *)
LEMMA WaysOn ==
  ASSUME NEW S \in SUBSET Nodes, NEW A \in SUBSET Arc, NEW k \in Nat,
         NEW w \in Ways(S, A)[k], NEW a \in A, a.parent = w.end
  PROVE  [end |-> a.child, cost |-> w.cost + a.cost] \in Ways(S, A)[k + 1]
<1>1. [end |-> a.child, cost |-> w.cost + a.cost] \in Onward(w, A)
  BY DEF Onward
<1>2. Ways(S, A)[k + 1] = Ways(S, A)[k] \cup UNION {Onward(v, A) : v \in Ways(S, A)[k]}
  BY WaysDefined
<1> QED
  BY <1>1, <1>2

(* A longer way comes from a shorter one by an arc. *)
LEMMA WaysFrom ==
  ASSUME NEW S \in SUBSET Nodes, NEW A \in SUBSET Arc, NEW k \in Nat,
         NEW w \in Ways(S, A)[k + 1], w \notin Ways(S, A)[k]
  PROVE  \E v \in Ways(S, A)[k], a \in A :
           a.parent = v.end /\ w = [end |-> a.child, cost |-> v.cost + a.cost]
<1>1. Ways(S, A)[k + 1] = Ways(S, A)[k] \cup UNION {Onward(v, A) : v \in Ways(S, A)[k]}
  BY WaysDefined
<1>2. PICK v \in Ways(S, A)[k] : w \in Onward(v, A)
  BY <1>1
<1> QED
  BY <1>2 DEF Onward

(* A bound on the steps that is higher leaves no way out. *)
LEMMA WaysGrow ==
  ASSUME NEW S \in SUBSET Nodes, NEW A \in SUBSET Arc, NEW k \in Nat, NEW m \in Nat, k <= m
  PROVE  Ways(S, A)[k] \subseteq Ways(S, A)[m]
<1> DEFINE W == Ways(S, A)
           T == {d \in Nat : W[k] \subseteq W[k + d]}
<1>1. ASSUME NEW i \in Nat PROVE W[i] \subseteq W[i + 1]
  <2>1. W[i + 1] = W[i] \cup UNION {Onward(w, A) : w \in W[i]}
    BY WaysDefined
  <2> HIDE DEF W
  <2> QED
    BY <2>1
<1> HIDE DEF W
<1>2. 0 \in T
  OBVIOUS
<1>3. ASSUME NEW d \in Nat, d \in T PROVE d + 1 \in T
  <2>1. W[k] \subseteq W[k + d] /\ k + d \in Nat /\ (k + d) + 1 = k + (d + 1)
    BY <1>3
  <2>2. W[k + d] \subseteq W[(k + d) + 1]
    BY <1>1, <2>1
  <2> QED
    BY <2>1, <2>2
<1>4. m - k \in Nat /\ k + (m - k) = m
  OBVIOUS
<1>5. m - k \in T
  <2> HIDE DEF T
  <2> QED
    BY <1>2, <1>3, <1>4, NatInduct
<1>6. W[k] \subseteq W[m]
  BY <1>4, <1>5
<1> QED
  BY <1>6 DEF W

(* When every arc has been followed on from the scores there are, no way   *)
(* however long is better.                                                 *)
LEMMA WaysClosed ==
  ASSUME NEW S \in SUBSET Nodes, NEW A \in SUBSET Arc, NEW F \in SUBSET Nodes,
         NEW cost \in [F -> Nat], S \subseteq F, \A n \in S : cost[n] = 0,
         \A a \in A : a.parent \in F => a.child \in F /\ cost[a.child] <= cost[a.parent] + a.cost,
         NEW k \in Nat
  PROVE  \A w \in Ways(S, A)[k] : w.end \in F /\ cost[w.end] <= w.cost
<1> DEFINE Fine(i) == \A w \in Ways(S, A)[i] : w.end \in F /\ cost[w.end] <= w.cost
           T == {i \in Nat : Fine(i)}
<1>1. 0 \in T
  BY WaysStart
<1>2. ASSUME NEW i \in Nat, i \in T PROVE i + 1 \in T
  <2> SUFFICES ASSUME NEW w \in Ways(S, A)[i + 1], w \notin Ways(S, A)[i]
               PROVE  w.end \in F /\ cost[w.end] <= w.cost
    BY <1>2
  <2>1. PICK v \in Ways(S, A)[i], a \in A :
          a.parent = v.end /\ w = [end |-> a.child, cost |-> v.cost + a.cost]
    BY WaysFrom
  <2>2. v \in Way /\ a \in Arc
    BY WaysType
  <2>3. v.end \in F /\ cost[v.end] <= v.cost
    BY <1>2
  <2>4. a.child \in F /\ cost[a.child] <= cost[a.parent] + a.cost
    BY <2>1, <2>3
  <2> QED
    BY <2>1, <2>2, <2>3, <2>4 DEF Way, Arc
<1>3. Nat \subseteq T
  <2> HIDE DEF T
  <2> QED
    BY <1>1, <1>2, NatInduct
<1> QED
  BY <1>3

-----------------------------------------------------------------------------
(* The expansion's types.                                                  *)

(* The query's state. *)
ExpansionTypeOK ==
  /\ phase \in {"idle", "fetch", "rows", "prune", "pruned"}
  /\ level \in 0 .. HopDepth /\ (phase = "rows" => level < HopDepth)
  /\ phase = "idle" => level = 0
  /\ rows \subseteq Arc /\ (phase # "rows" => rows = {})
  /\ \A r \in rows : r.parent \in Found
  /\ Found \subseteq Nodes /\ visited \in [Found -> [hop : Nat, cost : Nat]]
  /\ moved \in BOOLEAN

(* Only a seed costs nothing, and no level is ahead of the query. *)
Hops ==
  \A n \in Found : /\ visited[n].hop = 0 <=> visited[n].cost = 0
                   /\ visited[n].hop <= IF phase = "rows" THEN level + 1 ELSE level

(* A row leads from node to node and costs something: the decay is below 1. *)
LEMMA ArcsType == GraphTypeOK => \A t : Arcs(t) \in SUBSET Arc
<1> SUFFICES ASSUME GraphTypeOK, NEW t, NEW r \in Steps(t)
             PROVE  [parent |-> Parent(t, r), child |-> Child(t, r), cost |-> Cost(r)] \in Arc
  BY DEF Arcs
<1>1. r \in Relations /\ source[r] # "none"
  BY DEF Steps, Followed, Exists, Relations
<1>2. r[1] \in Nodes /\ r[2] \in Nodes
  BY <1>1, GraphAssumption
<1>3. ProvenanceCost[source[r]] \in Nat
  BY <1>1 DEF GraphTypeOK, ProvenanceCost
<1>4. Cost(r) \in Nat \ {0}
  BY <1>3, ExpansionAssumption DEF Cost
<1> QED
  BY <1>2, <1>4 DEF Arc, Parent, Child

(* What reading a row does to the nodes found. *)
LEMMA RowRead ==
  ASSUME ExpansionTypeOK, NEW row \in rows, ReadRow(row)
  PROVE  LET cost == visited[row.parent].cost + row.cost
         IN  /\ cost \in Nat /\ cost > visited[row.parent].cost
             /\ row.child \in Nodes
             /\ Found' = Found \cup {row.child}
             /\ visited' \in [Found' -> [hop : Nat, cost : Nat]]
             /\ \A n \in Found : n # row.child => visited'[n] = visited[n]
             /\ \/ /\ row.child \in Found /\ visited[row.child].cost <= cost
                   /\ visited' = visited
                \/ /\ row.child \in Found => visited[row.child].cost > cost
                   /\ visited'[row.child] = [hop |-> level + 1, cost |-> cost]
<1> DEFINE cost == visited[row.parent].cost + row.cost
           found == [hop |-> level + 1, cost |-> cost]
<1>1. /\ row \in Arc /\ row.child \in Nodes /\ row.cost \in Nat \ {0} /\ row.parent \in Found
      /\ visited \in [Found -> [hop : Nat, cost : Nat]] /\ level \in Nat
  BY ExpansionAssumption DEF ExpansionTypeOK, Arc
<1>2. cost \in Nat /\ cost > visited[row.parent].cost
  BY <1>1
<1>3. CASE row.child \in Found /\ visited[row.child].cost <= cost
  <2>1. visited' = visited /\ Found' = Found
    BY <1>3 DEF ReadRow, Found
  <2> QED
    BY <1>1, <1>2, <1>3, <2>1
<1>4. CASE ~(row.child \in Found /\ visited[row.child].cost <= cost)
  <2>1. visited' = Placed(row.child, level + 1, cost)
    BY <1>4 DEF ReadRow
  <2>2. visited' = [n \in Found \cup {row.child} |-> IF n = row.child THEN found ELSE visited[n]]
    BY <2>1 DEF Placed
  <2>3. Found' = Found \cup {row.child}
    BY <2>2 DEF Found
  <2>4. found \in [hop : Nat, cost : Nat]
    BY <1>1, <1>2
  <2>5. visited' \in [Found' -> [hop : Nat, cost : Nat]]
    <3> HIDE DEF found
    <3> QED
      BY <1>1, <2>2, <2>3, <2>4
  <2>6. visited'[row.child] = found /\ \A n \in Found : n # row.child => visited'[n] = visited[n]
    <3> HIDE DEF found
    <3> QED
      BY <2>2
  <2>7. row.child \in Found => visited[row.child].cost > cost
    <3>1. row.child \in Found => visited[row.child].cost \in Nat
      BY <1>1
    <3> QED
      BY <1>2, <1>4, <3>1
  <2> QED
    BY <1>1, <1>2, <2>3, <2>5, <2>6, <2>7
<1> QED
  BY <1>3, <1>4

(* All of these. *)
ExpansionInv == GraphTypeOK /\ ExpansionTypeOK /\ Hops

(* No node is found when there is no query. *)
LEMMA NoneFound == DOMAIN <<>> = {} /\ <<>> \in [{} -> [hop : Nat, cost : Nat]]
  OBVIOUS

(* No query is under way. *)
LEMMA InitExpansion == Init => ExpansionTypeOK /\ Hops
<1> SUFFICES ASSUME Init PROVE ExpansionTypeOK /\ Hops
  OBVIOUS
<1>1. Found = {} /\ visited \in [Found -> [hop : Nat, cost : Nat]]
  BY NoneFound DEF Init, Found
<1>2. phase = "idle" /\ level = 0 /\ rows = {} /\ moved = FALSE
  BY DEF Init
<1>3. Hops
  BY <1>1 DEF Hops
<1>4. level \in 0 .. HopDepth /\ (phase = "rows" => level < HopDepth)
  BY <1>2, ExpansionAssumption
<1>5. rows \subseteq Arc /\ \A r \in rows : r.parent \in Found
  BY <1>2
<1>6. moved \in BOOLEAN
  BY <1>2
<1> QED
  BY <1>1, <1>2, <1>3, <1>4, <1>5, <1>6 DEF ExpansionTypeOK

(* The same after an answer or a failure. *)
LEMMA QueryEnds == EndQuery => (ExpansionTypeOK /\ Hops)'
<1> SUFFICES ASSUME EndQuery PROVE (ExpansionTypeOK /\ Hops)'
  OBVIOUS
<1>1. Found' = {} /\ visited' \in [Found' -> [hop : Nat, cost : Nat]]
  BY NoneFound DEF EndQuery, Found
<1>2. phase' = "idle" /\ level' = 0 /\ rows' = {} /\ moved' = FALSE
  BY DEF EndQuery
<1>3. Hops'
  BY <1>1 DEF Hops
<1>4. level' \in 0 .. HopDepth /\ (phase' = "rows" => level' < HopDepth)
  BY <1>2, ExpansionAssumption
<1>5. rows' \subseteq Arc /\ \A r \in rows' : r.parent \in Found'
  BY <1>2
<1>6. moved' \in BOOLEAN
  BY <1>2
<1> QED
  BY <1>1, <1>2, <1>3, <1>4, <1>5, <1>6 DEF ExpansionTypeOK

(* Every step keeps the types and the hops. *)
LEMMA ExpansionStep == ExpansionInv /\ [Next]_vars => (ExpansionTypeOK /\ Hops)'
<1> SUFFICES ASSUME ExpansionInv, [Next]_vars PROVE (ExpansionTypeOK /\ Hops)'
  OBVIOUS
<1> USE ExpansionAssumption DEF ExpansionInv
<1>1. CASE Expand
  <2>1. PICK S \in SeedSets : visited' = [n \in S |-> [hop |-> 0, cost |-> 0]]
    BY <1>1 DEF Expand
  <2>2. Found' = S /\ S \subseteq Nodes
    BY <2>1 DEF Found
  <2>3. \A n \in S : visited'[n] = [hop |-> 0, cost |-> 0]
    BY <2>1
  <2>4. visited' \in [Found' -> [hop : Nat, cost : Nat]]
    BY <2>1, <2>2
  <2>5. phase' = "fetch" /\ level = 0 /\ UNCHANGED <<level, rows, moved>> /\ phase = "idle"
    BY <1>1 DEF Expand, ExpansionTypeOK
  <2>6. ExpansionTypeOK'
    BY <2>2, <2>4, <2>5 DEF ExpansionTypeOK
  <2>7. Hops'
    BY <2>2, <2>3, <2>5 DEF Hops
  <2> QED
    BY <2>6, <2>7
<1>2. CASE FetchNeighbors
  <2>1. Found' = Found /\ visited' = visited /\ phase = "fetch" /\ UNCHANGED <<level, moved>>
    BY <1>2 DEF FetchNeighbors, Found
  <2>2. \/ phase' = "prune" /\ rows' = rows
        \/ /\ phase' = "rows" /\ level # HopDepth
           /\ rows' = {a \in Arcs(type) : a.parent \in {n \in Found : visited[n].hop = level}}
    BY <1>2 DEF FetchNeighbors
  <2>3. /\ rows' \subseteq Arc /\ \A r \in rows' : r.parent \in Found
        /\ phase' # "rows" => rows' = {}
    BY <2>1, <2>2, ArcsType DEF ExpansionTypeOK
  <2>4. ExpansionTypeOK'
    BY <2>1, <2>2, <2>3 DEF ExpansionTypeOK
  <2>5. Hops'
    BY <2>1, <2>2 DEF Hops, ExpansionTypeOK
  <2> QED
    BY <2>4, <2>5
<1>3. ASSUME NEW row \in rows, ReadRow(row) PROVE (ExpansionTypeOK /\ Hops)'
  <2>1. phase = "rows" /\ UNCHANGED <<phase, level, moved>> /\ rows' = rows \ {row}
    BY <1>3 DEF ReadRow
  <2> DEFINE cost == visited[row.parent].cost + row.cost
  <2>2. /\ cost \in Nat /\ cost > 0
        /\ row.child \in Nodes
        /\ Found' = Found \cup {row.child}
        /\ visited' \in [Found' -> [hop : Nat, cost : Nat]]
        /\ \A n \in Found : n # row.child => visited'[n] = visited[n]
        /\ \/ row.child \in Found /\ visited' = visited
           \/ visited'[row.child] = [hop |-> level + 1, cost |-> cost]
    <3>1. row.parent \in Found /\ visited[row.parent].cost \in Nat
      BY DEF ExpansionTypeOK
    <3>2. /\ cost \in Nat /\ cost > visited[row.parent].cost
          /\ row.child \in Nodes
          /\ Found' = Found \cup {row.child}
          /\ visited' \in [Found' -> [hop : Nat, cost : Nat]]
          /\ \A n \in Found : n # row.child => visited'[n] = visited[n]
          /\ \/ row.child \in Found /\ visited' = visited
             \/ visited'[row.child] = [hop |-> level + 1, cost |-> cost]
      BY <1>3, RowRead
    <3> HIDE DEF cost
    <3> QED
      BY <3>1, <3>2
  <2>3. ExpansionTypeOK'
    BY <2>1, <2>2 DEF ExpansionTypeOK
  <2> HIDE DEF cost
  <2>4. ASSUME NEW n \in Found'
        PROVE  (visited'[n].hop = 0 <=> visited'[n].cost = 0) /\ visited'[n].hop <= level + 1
    <3>1. CASE n \in Found /\ visited'[n] = visited[n]
      BY <2>1, <3>1 DEF Hops
    <3>2. CASE n = row.child /\ visited'[n] = [hop |-> level + 1, cost |-> cost]
      BY <2>2, <3>2 DEF ExpansionTypeOK
    <3> QED
      BY <2>2, <3>1, <3>2
  <2> QED
    BY <2>1, <2>3, <2>4 DEF Hops
<1>4. CASE NextLevel
  <2>1. /\ phase = "rows" /\ phase' = "fetch" /\ level' = level + 1
        /\ Found' = Found /\ visited' = visited /\ rows' = {} /\ moved' = moved
    BY <1>4 DEF NextLevel, Found
  <2>2. ExpansionTypeOK'
    BY <2>1 DEF ExpansionTypeOK
  <2>3. Hops'
    BY <2>1 DEF Hops
  <2> QED
    BY <2>2, <2>3
<1>5. CASE Prune
  <2>1. /\ phase = "prune" /\ phase' = "pruned"
        /\ Found' = Found /\ UNCHANGED <<level, rows, visited, moved>>
    BY <1>5 DEF Prune, Found
  <2> QED
    BY <2>1 DEF ExpansionTypeOK, Hops
<1>6. CASE Answer \/ ExpandFails
  BY <1>6, QueryEnds DEF Answer, ExpandFails
<1>7. CASE GraphStep
  <2>1. Found' = Found /\ UNCHANGED <<phase, level, rows, visited>> /\ moved' \in BOOLEAN
    BY <1>7 DEF GraphStep, Found, ExpansionTypeOK
  <2> QED
    BY <2>1 DEF ExpansionTypeOK, Hops
<1>8. CASE UNCHANGED vars
  <2>1. Found' = Found /\ UNCHANGED <<phase, level, rows, visited, moved>>
    BY <1>8 DEF vars, expansionVars, Found
  <2> QED
    BY <2>1 DEF ExpansionTypeOK, Hops
<1> QED
  BY <1>1, <1>2, <1>3, <1>4, <1>5, <1>6, <1>7, <1>8 DEF Next, Expander

-----------------------------------------------------------------------------
(* The budget.                                                             *)

(* An order of a set's elements has them all. *)
LEMMA SortedIsAll ==
  ASSUME NEW F, IsFiniteSet(F), NEW s \in SetToSeqs(F)
  PROVE  /\ s \in Seq(F) /\ Len(s) \in Nat
         /\ \A n \in F : \E j \in 1 .. Len(s) : s[j] = n
<1> DEFINE N == Cardinality(F)
<1>1. N \in Nat
  BY FS_CardinalityType
<1>2. s \in [1 .. N -> F] /\ \A i, j \in 1 .. N : i # j => s[i] # s[j]
  BY DEF SetToSeqs
<1>3. IsFiniteSet(1 .. N) /\ Cardinality(1 .. N) = N
  BY <1>1, FS_Interval
<1> HIDE DEF N
<1>4. s \in Seq(F)
  BY <1>1, <1>2, SeqDef
<1>5. Len(s) = N
  BY <1>1, <1>2, <1>4, LenProperties
<1>6. ASSUME NEW n \in F, \A j \in 1 .. N : s[j] # n PROVE FALSE
  <2>1. s \in [1 .. N -> F \ {n}]
    BY <1>2, <1>6
  <2>2. IsFiniteSet(F \ {n}) /\ Cardinality(F \ {n}) = N - 1
    BY FS_RemoveElement DEF N
  <2>3. Cardinality(F \ {n}) < Cardinality(1 .. N)
    BY <1>1, <1>3, <2>2
  <2>4. \E x, y \in 1 .. N : x # y /\ s[x] = s[y]
    BY <1>3, <2>1, <2>2, <2>3, FS_PigeonHole
  <2> QED
    BY <1>2, <2>4
<1> QED
  BY <1>1, <1>4, <1>5, <1>6

(* What is used grows by what is kept. *)
LEMMA UsedAdds ==
  ASSUME NEW K, IsFiniteSet(K)
  PROVE  /\ Used(K) \in Nat
         /\ \A n : n \notin K => Used(K \cup {n}) = Used(K) + Tokens(n)
<1>1. /\ IsFiniteSet(K \cap Seeds) /\ Cardinality(K \cap Seeds) \in Nat
      /\ IsFiniteSet(K \ Seeds) /\ Cardinality(K \ Seeds) \in Nat
  BY FS_Subset, FS_CardinalityType
<1>2. Used(K) \in Nat
  BY <1>1 DEF Used
<1>3. ASSUME NEW n, n \notin K PROVE Used(K \cup {n}) = Used(K) + Tokens(n)
  <2>1. CASE n \in Seeds
    <3>1. (K \cup {n}) \cap Seeds = (K \cap Seeds) \cup {n} /\ (K \cup {n}) \ Seeds = K \ Seeds
      BY <2>1
    <3>2. Cardinality((K \cap Seeds) \cup {n}) = Cardinality(K \cap Seeds) + 1
      BY <1>1, <1>3, FS_AddElement
    <3>3. /\ Used(K \cup {n}) = 120 * (Cardinality(K \cap Seeds) + 1) + 20 * Cardinality(K \ Seeds)
          /\ Used(K) = 120 * Cardinality(K \cap Seeds) + 20 * Cardinality(K \ Seeds)
      BY <3>1, <3>2 DEF Used
    <3>4. Tokens(n) = 120
      BY <2>1 DEF Tokens
    <3> QED
      BY <1>1, <3>3, <3>4
  <2>2. CASE n \notin Seeds
    <3>1. (K \cup {n}) \cap Seeds = K \cap Seeds /\ (K \cup {n}) \ Seeds = (K \ Seeds) \cup {n}
      BY <2>2
    <3>2. Cardinality((K \ Seeds) \cup {n}) = Cardinality(K \ Seeds) + 1
      BY <1>1, <1>3, FS_AddElement
    <3>3. /\ Used(K \cup {n}) = 120 * Cardinality(K \cap Seeds) + 20 * (Cardinality(K \ Seeds) + 1)
          /\ Used(K) = 120 * Cardinality(K \cap Seeds) + 20 * Cardinality(K \ Seeds)
      BY <3>1, <3>2 DEF Used
    <3>4. Tokens(n) = 20
      BY <2>2 DEF Tokens
    <3> QED
      BY <1>1, <3>3, <3>4
  <2> QED
    BY <2>1, <2>2
<1> QED
  BY <1>2, <1>3

(* The sets kept along an order, as the recursion defines them. *)
LEMMA KeptDefined ==
  ASSUME NEW s \in Seq(Found)
  PROVE  \E kept \in [0 .. Len(s) -> SUBSET Found] :
           /\ kept[0] = {} /\ kept[Len(s)] = KeptOf(s)
           /\ \A i \in 0 .. Len(s) - 1 : kept[i + 1] = Kept(kept[i], s[i + 1])
<1> DEFINE N == Len(s)
           Is(f) == f = [i \in 0 .. N |-> IF i = 0 THEN {} ELSE Kept(f[i - 1], s[i])]
           step == [i \in Nat |-> [K \in SUBSET Found |->
                      IF i < N THEN Kept(K, s[i + 1]) ELSE K]]
<1>1. N \in Nat /\ \A i \in 1 .. N : s[i] \in Found
  BY LenProperties, ElementOfSeq
<1>2. ASSUME NEW i \in Nat, NEW K \in SUBSET Found
      PROVE  (IF i < N THEN Kept(K, s[i + 1]) ELSE K) \in SUBSET Found
  BY <1>1 DEF Kept
<1>3. step \in [Nat -> [SUBSET Found -> SUBSET Found]]
  BY <1>2
<1>4. \A i \in Nat : \A K \in SUBSET Found : i < N => step[i][K] = Kept(K, s[i + 1])
  OBVIOUS
<1> HIDE DEF step
<1>5. PICK f : Iterates(f, SUBSET Found, {}, step)
  <2>1. {} \in SUBSET Found
    OBVIOUS
  <2> QED
    BY <1>3, <2>1, IterationExists
<1> DEFINE g == [i \in 0 .. N |-> f[i]]
<1>6. /\ f \in [Nat -> SUBSET Found] /\ f[0] = {}
      /\ \A i \in Nat : i < N => f[i + 1] = Kept(f[i], s[i + 1])
  BY <1>4, <1>5 DEF Iterates
<1> HIDE DEF N
<1>7. /\ g \in [0 .. N -> SUBSET Found] /\ g[0] = {}
      /\ \A i \in 0 .. N - 1 : g[i + 1] = Kept(g[i], s[i + 1])
  BY <1>1, <1>6
<1>8. Is(g)
  <2> HIDE DEF g
  <2>1. ASSUME NEW i \in 0 .. N PROVE g[i] = IF i = 0 THEN {} ELSE Kept(g[i - 1], s[i])
    <3>1. CASE i = 0
      BY <1>7, <3>1
    <3>2. CASE i # 0
      <4>1. i - 1 \in 0 .. N - 1 /\ (i - 1) + 1 = i
        BY <1>1, <3>2
      <4> QED
        BY <1>7, <3>2, <4>1
    <3> QED
      BY <3>1, <3>2
  <2>2. g = [i \in 0 .. N |-> g[i]]
    BY <1>7
  <2> QED
    BY <2>1, <2>2
<1> HIDE DEF g
<1>9. PICK h : Is(h) /\ KeptOf(s) = h[N]
  <2>1. KeptOf(s) = (CHOOSE h : Is(h))[N]
    BY DEF KeptOf, N
  <2> HIDE DEF Is
  <2> QED
    BY <1>8, <2>1
<1>10. h[N] = g[N]
  <2> DEFINE T == {i \in Nat : i <= N => h[i] = g[i]}
  <2>1. 0 \in T
    BY <1>1, <1>8, <1>9
  <2>2. ASSUME NEW i \in Nat, i \in T PROVE i + 1 \in T
    <3> SUFFICES ASSUME i + 1 <= N PROVE h[i + 1] = g[i + 1]
      OBVIOUS
    <3>1. i + 1 \in 0 .. N /\ i + 1 # 0 /\ (i + 1) - 1 = i /\ h[i] = g[i]
      BY <1>1, <2>2
    <3>2. h[i + 1] = Kept(h[(i + 1) - 1], s[i + 1])
      BY <1>9, <3>1
    <3>3. g[i + 1] = Kept(g[(i + 1) - 1], s[i + 1])
      BY <1>8, <3>1
    <3> QED
      BY <3>1, <3>2, <3>3
  <2>3. N \in T
    <3> HIDE DEF T
    <3> QED
      BY <1>1, <2>1, <2>2, NatInduct
  <2> QED
    BY <1>1, <2>3
<1> QED
  BY <1>7, <1>9, <1>10 DEF N

(* What is kept of the nodes gone through. *)
WithinBudget(K, done) ==
  /\ K \subseteq done /\ done \cap Seeds \subseteq K
  /\ \A n \in done \ K : Used(K) + Tokens(n) > MaxTokens
  /\ \A n \in done \ K : \A k \in K : visited[k].cost <= visited[n].cost
  /\ K \subseteq Seeds \/ Used(K) <= MaxTokens

(* The next node of the order keeps to it: a seed comes before all that    *)
(* cost something, and what was dropped would not fit any better later.    *)
LEMMA KeptWithin ==
  ASSUME ExpansionTypeOK, Hops, NEW done \in SUBSET Found, NEW K, WithinBudget(K, done),
         NEW n \in Found, n \notin done, \A m \in done : visited[m].cost <= visited[n].cost
  PROVE  WithinBudget(Kept(K, n), done \cup {n})
<1>1. /\ IsFiniteSet(K) /\ K \subseteq done /\ n \notin K
      /\ \A m \in Found : visited[m].cost \in Nat
  <2>1. K \subseteq Nodes
    BY DEF WithinBudget, ExpansionTypeOK
  <2> QED
    BY <2>1, ExpansionAssumption, FS_Subset DEF WithinBudget, ExpansionTypeOK
<1>2. /\ Used(K) \in Nat /\ Used(K \cup {n}) = Used(K) + Tokens(n)
      /\ \A m : Tokens(m) = IF m \in Seeds THEN 120 ELSE 20
  BY <1>1, UsedAdds DEF Tokens
<1>3. MaxTokens \in Nat
  BY ExpansionAssumption
<1>4. \A m \in done \ K : m \notin Seeds
  BY DEF WithinBudget
<1>5. CASE n \in Seeds
  <2>1. Kept(K, n) = K \cup {n}
    BY <1>5 DEF Kept
  <2>2. done \subseteq Seeds
    BY <1>1, <1>5 DEF Hops, Seeds
  <2>3. K = done
    BY <2>2 DEF WithinBudget
  <2> QED
    BY <1>5, <2>1, <2>2, <2>3 DEF WithinBudget
<1>6. CASE n \notin Seeds /\ Used(K) + Tokens(n) <= MaxTokens
  <2>1. Kept(K, n) = K \cup {n}
    BY <1>6 DEF Kept
  <2>2. done \ K = {}
    BY <1>2, <1>3, <1>4, <1>6 DEF WithinBudget
  <2>3. (done \cup {n}) \ (K \cup {n}) = {}
    BY <2>2
  <2>4. Used(K \cup {n}) <= MaxTokens
    BY <1>2, <1>6
  <2>5. (done \cup {n}) \cap Seeds \subseteq K \cup {n} /\ K \cup {n} \subseteq done \cup {n}
    BY <1>1, <2>2
  <2> QED
    BY <2>1, <2>3, <2>4, <2>5 DEF WithinBudget
<1>7. CASE n \notin Seeds /\ ~(Used(K) + Tokens(n) <= MaxTokens)
  <2>1. Kept(K, n) = K
    BY <1>7 DEF Kept
  <2>2. Used(K) + Tokens(n) > MaxTokens
    BY <1>2, <1>3, <1>7
  <2>3. \A k \in K : visited[k].cost <= visited[n].cost
    BY <1>1
  <2> QED
    BY <1>1, <1>7, <2>1, <2>2, <2>3 DEF WithinBudget
<1> QED
  BY <1>5, <1>6, <1>7

(* Along the whole order: the budget is kept at each node. *)
LEMMA PruneWithin ==
  ASSUME ExpansionTypeOK, Hops, NEW s \in SetToSeqs(Found), ByScore(s)
  PROVE  WithinBudget(KeptOf(s), Found)
<1> DEFINE N == Len(s)
           Gone(i) == {s[j] : j \in 1 .. i}
<1>1. /\ IsFiniteSet(Found) /\ s \in Seq(Found) /\ N \in Nat
      /\ \A n \in Found : \E j \in 1 .. N : s[j] = n
  <2>1. IsFiniteSet(Found)
    BY ExpansionAssumption, FS_Subset DEF ExpansionTypeOK
  <2> QED
    BY <2>1, SortedIsAll
<1>2. /\ DOMAIN s = 1 .. N /\ \A i \in 1 .. N : s[i] \in Found
      /\ \A i, j \in 1 .. N : i # j => s[i] # s[j]
  <2>1. DOMAIN s = 1 .. N /\ \A i \in 1 .. N : s[i] \in Found
    BY <1>1, LenProperties, ElementOfSeq
  <2>2. /\ s \in [1 .. Cardinality(Found) -> Found]
        /\ \A i, j \in 1 .. Cardinality(Found) : i # j => s[i] # s[j]
    BY DEF SetToSeqs
  <2> QED
    BY <2>1, <2>2
<1>3. PICK kept \in [0 .. N -> SUBSET Found] :
        /\ kept[0] = {} /\ kept[N] = KeptOf(s)
        /\ \A i \in 0 .. N - 1 : kept[i + 1] = Kept(kept[i], s[i + 1])
  BY <1>1, KeptDefined
<1>4. \A i, j \in 1 .. N : i < j => visited[s[i]].cost <= visited[s[j]].cost
  BY <1>2 DEF ByScore
<1> HIDE DEF N
<1> DEFINE T == {i \in Nat : i <= N => WithinBudget(kept[i], Gone(i))}
<1>5. 0 \in T
  <2>1. Gone(0) = {}
    OBVIOUS
  <2>2. WithinBudget({}, {})
    BY DEF WithinBudget
  <2> HIDE DEF Gone
  <2> QED
    BY <1>3, <2>1, <2>2
<1>6. ASSUME NEW i \in Nat, i \in T PROVE i + 1 \in T
  <2> SUFFICES ASSUME i + 1 <= N PROVE WithinBudget(kept[i + 1], Gone(i + 1))
    OBVIOUS
  <2>1. WithinBudget(kept[i], Gone(i))
    BY <1>1, <1>6
  <2>2. Gone(i + 1) = Gone(i) \cup {s[i + 1]}
    <3>1. 1 .. i + 1 = (1 .. i) \cup {i + 1}
      OBVIOUS
    <3> QED
      BY <3>1
  <2>3. Gone(i) \subseteq Found /\ s[i + 1] \in Found
    BY <1>1, <1>2
  <2>4. s[i + 1] \notin Gone(i)
    BY <1>1, <1>2
  <2>5. \A m \in Gone(i) : visited[m].cost <= visited[s[i + 1]].cost
    BY <1>1, <1>4
  <2>6. kept[i + 1] = Kept(kept[i], s[i + 1])
    BY <1>1, <1>3
  <2> HIDE DEF Gone
  <2>7. WithinBudget(Kept(kept[i], s[i + 1]), Gone(i) \cup {s[i + 1]})
    BY <2>1, <2>3, <2>4, <2>5, KeptWithin
  <2> QED
    BY <2>2, <2>6, <2>7
<1>7. N \in T
  <2> HIDE DEF T
  <2> QED
    BY <1>1, <1>5, <1>6, NatInduct
<1>8. Gone(N) = Found
  BY <1>1, <1>2
<1> QED
  BY <1>1, <1>3, <1>7, <1>8

(* After the pruning all nodes found have been gone through. *)
BudgetKept == phase = "pruned" => WithinBudget(surviving, Found)

(* Nothing touches the nodes kept before the query's end. *)
LEMMA BudgetStep == ExpansionInv /\ BudgetKept /\ [Next]_vars => BudgetKept'
<1> SUFFICES ASSUME ExpansionInv, BudgetKept, [Next]_vars, phase' = "pruned"
             PROVE  WithinBudget(surviving, Found)'
  BY DEF BudgetKept
<1>1. CASE Prune
  <2>1. PICK s \in SetToSeqs(Found) : ByScore(s) /\ surviving' = KeptOf(s)
    BY <1>1 DEF Prune
  <2>2. WithinBudget(KeptOf(s), Found)
    BY <2>1, PruneWithin DEF ExpansionInv
  <2>3. visited' = visited
    BY <1>1 DEF Prune
  <2> QED
    BY <2>1, <2>2, <2>3 DEF WithinBudget, Used, Tokens, Seeds, Found
<1>2. CASE phase = "pruned" /\ UNCHANGED <<visited, surviving>>
  <2>1. WithinBudget(surviving, Found)
    BY <1>2 DEF BudgetKept
  <2> QED
    BY <1>2, <2>1 DEF WithinBudget, Used, Tokens, Seeds, Found
<1>3. Prune \/ (phase = "pruned" /\ UNCHANGED <<visited, surviving>>)
  BY DEF Next, Expander, Expand, FetchNeighbors, NextLevel, ReadRow, Answer, ExpandFails,
         EndQuery, GraphStep, vars, expansionVars
<1> QED
  BY <1>1, <1>2, <1>3

(* What was gone through is what was found. *)
LEMMA BudgetIsBest == ExpansionInv /\ BudgetKept => BestFillBudget
<1> SUFFICES ASSUME ExpansionInv, BudgetKept, phase = "pruned" PROVE BestFillBudget
  BY DEF BestFillBudget
<1>1. WithinBudget(surviving, Found)
  BY DEF BudgetKept
<1>2. Seeds \subseteq Found
  BY DEF Seeds
<1> QED
  BY <1>1, <1>2 DEF BestFillBudget, WithinBudget

-----------------------------------------------------------------------------
(* The scores.                                                             *)

(* The ways of this query's seeds along the relations as they are. *)
Near(k) == Ways(Seeds, Arcs(type))[k]

(* No way of W is better than a score, and each node found is the end of one. *)
Covered(W) == \A w \in W : w.end \in Found /\ visited[w.end].cost <= w.cost
Within(W) == \A n \in Found : \E w \in W : w.end = n
(* An arc that gives its child no better score. *)
Relaxed(a) == a.child \in Found /\ visited[a.child].cost <= visited[a.parent].cost + a.cost
(* The nodes with a better score. *)
Better(n) == {m \in Found : visited[m].cost < visited[n].cost}

(* Each score is a way's, along nodes with better scores. *)
Earned == \A n \in Found : [end |-> n, cost |-> visited[n].cost] \in Near(Cardinality(Better(n)))

(* Between two levels what was followed so far is as good as it gets.      *)
LevelDone ==
  /\ Covered(Near(level)) /\ Within(Near(level))
  /\ \A a \in Arcs(type) : a.parent \in Found /\ visited[a.parent].hop < level => Relaxed(a)

(* Within a level the same holds but for the rows to come. *)
LevelUnderWay ==
  /\ rows \subseteq Arcs(type)
  /\ Covered(Near(level)) /\ Within(Near(level + 1))
  /\ \A r \in rows : \E w \in Near(level) : w.end = r.parent
  /\ \A a \in Arcs(type) \ rows : \A w \in Near(level) :
       w.end = a.parent => a.child \in Found /\ visited[a.child].cost <= w.cost + a.cost
  /\ \A a \in Arcs(type) \ rows :
       a.parent \in Found /\ visited[a.parent].hop <= level => Relaxed(a)

(* A query is under way and the graph has held still. *)
Still == ~moved /\ phase \in {"fetch", "rows", "prune"}

ScoresInv ==
  Still => /\ Earned
           /\ phase = "fetch" => LevelDone
           /\ phase = "rows" => LevelUnderWay
           /\ phase = "prune" => Covered(Near(HopDepth)) /\ Within(Near(HopDepth))

(* The ways are the same while seeds and relations are. *)
LEMMA SameWays ==
  ASSUME Seeds' = Seeds, UNCHANGED <<active, source, type>>
  PROVE  Arcs(type)' = Arcs(type) /\ \A k \in Nat : Near(k)' = Near(k)
<1>1. Arcs(type)' = Arcs(type)
  BY DEF Arcs, Steps, Followed, Exists, Child, Parent, Cost
<1> QED
  BY <1>1 DEF Near

(* What the steps' proofs need of the types. *)
LEMMA SetOfNodes ==
  ASSUME ExpansionInv
  PROVE  /\ Seeds \in SUBSET Nodes /\ Arcs(type) \in SUBSET Arc
         /\ IsFiniteSet(Found)
         /\ \A n \in Found : visited[n].hop \in Nat /\ visited[n].cost \in Nat
         /\ HopDepth \in Nat /\ level \in Nat
<1>1. IsFiniteSet(Found)
  BY ExpansionAssumption, FS_Subset DEF ExpansionInv, ExpansionTypeOK
<1> QED
  BY <1>1, ArcsType, ExpansionAssumption DEF ExpansionInv, ExpansionTypeOK, Seeds

(* The seeds cost nothing, and no way is shorter. *)
LEMMA ExpandScores == ASSUME ExpansionInv, Expand, UNCHANGED graphVars PROVE ScoresInv'
<1> SUFFICES ASSUME Still' PROVE (Earned /\ LevelDone)'
  BY DEF ScoresInv, Expand
<1>1. PICK S \in SeedSets : visited' = [n \in S |-> [hop |-> 0, cost |-> 0]]
  BY DEF Expand
<1>2. /\ Found' = S /\ S \in SUBSET Nodes
      /\ \A n \in S : visited'[n].hop = 0 /\ visited'[n].cost = 0
  BY <1>1, ExpansionAssumption DEF Found
<1>3. Seeds' = S
  BY <1>2 DEF Seeds
<1>4. level' = 0
  BY DEF Expand, ExpansionInv, ExpansionTypeOK
<1>5. Arcs(type)' \in SUBSET Arc
  <2>1. active' = active /\ source' = source
    BY DEF graphVars
  <2>2. Arcs(type)' = Arcs(type')
    BY <2>1 DEF Arcs, Steps, Followed, Exists, Child, Parent, Cost
  <2> QED
    BY <2>2, ArcsType DEF ExpansionInv
<1>6. Near(0)' = {[end |-> n, cost |-> 0] : n \in S}
  BY <1>2, <1>3, <1>5, WaysStart DEF Near
<1>7. Covered(Near(0))' /\ Within(Near(0))'
  <2>1. ASSUME NEW w \in Near(0)' PROVE w.end \in Found' /\ visited'[w.end].cost <= w.cost
    BY <1>2, <1>6
  <2>2. ASSUME NEW n \in Found' PROVE \E w \in Near(0)' : w.end = n
    <3>1. [end |-> n, cost |-> 0] \in Near(0)'
      BY <1>2, <1>6
    <3> QED
      BY <3>1
  <2> QED
    BY <2>1, <2>2 DEF Covered, Within
<1>8. \A a \in Arcs(type)' : a.parent \in Found' => ~(visited'[a.parent].hop < level')
  BY <1>2, <1>4
<1>9. Earned'
  <2>1. \A n \in Found' : Better(n)' = {}
    BY <1>2 DEF Better
  <2>2. Cardinality({}) = 0
    BY FS_EmptySet
  <2> QED
    BY <1>2, <1>6, <2>1, <2>2 DEF Earned
<1> QED
  BY <1>4, <1>7, <1>8, <1>9 DEF LevelDone

(* The level's query: its rows are the arcs that are left to follow, and   *)
(* when there is no node to follow no way however long is better.          *)
LEMMA FetchScores ==
  ASSUME ExpansionInv, ScoresInv, FetchNeighbors, UNCHANGED graphVars PROVE ScoresInv'
<1> SUFFICES ASSUME Still' PROVE ScoresInv'
  BY DEF ScoresInv
<1>1. /\ phase = "fetch" /\ Found' = Found /\ Seeds' = Seeds
      /\ UNCHANGED <<visited, level, type, active, source>>
  BY DEF FetchNeighbors, Found, Seeds, graphVars
<1>2. Still /\ Earned /\ LevelDone
  BY <1>1 DEF Still, ScoresInv, FetchNeighbors
<1>3. Arcs(type)' = Arcs(type) /\ \A k \in Nat : Near(k)' = Near(k)
  BY <1>1, SameWays
<1>4. /\ Seeds \in SUBSET Nodes /\ Arcs(type) \in SUBSET Arc /\ HopDepth \in Nat /\ level \in Nat
      /\ level <= HopDepth /\ IsFiniteSet(Found)
      /\ \A n \in Found : visited[n].hop \in Nat /\ visited[n].cost \in Nat
  BY SetOfNodes DEF ExpansionInv, ExpansionTypeOK
<1>5. Earned'
  <2>1. ASSUME NEW n \in Found PROVE Better(n)' = Better(n) /\ Cardinality(Better(n)) \in Nat
    BY <1>1, <1>4, FS_Subset, FS_CardinalityType DEF Better
  <2> QED
    BY <1>1, <1>2, <1>3, <2>1 DEF Earned
<1>6. CASE phase' = "rows"
  <2> DEFINE current == {n \in Found : visited[n].hop = level}
  <2>1. rows' = {a \in Arcs(type) : a.parent \in current}
    BY <1>1, <1>6 DEF FetchNeighbors
  <2>2. Covered(Near(level)) /\ Within(Near(level))
    BY <1>2 DEF LevelDone
  <2>3. Covered(Near(level))'
    BY <1>1, <1>3, <1>4, <2>2 DEF Covered
  <2>4. Within(Near(level + 1))'
    <3>1. Near(level) \subseteq Near(level + 1)
      <4>1. level + 1 \in Nat /\ level <= level + 1
        BY <1>4
      <4> QED
        BY <1>4, <4>1, WaysGrow DEF Near
    <3>2. Near(level + 1)' = Near(level + 1)
      BY <1>1, <1>3, <1>4
    <3> QED
      BY <1>1, <2>2, <3>1, <3>2 DEF Within
  <2>5. \A r \in rows' : \E w \in Near(level) : w.end = r.parent
    BY <2>1, <2>2 DEF Within
  <2>6. ASSUME NEW a \in Arcs(type) \ rows', a.parent \in Found PROVE visited[a.parent].hop # level
    BY <2>1, <2>6
  <2>7. ASSUME NEW a \in Arcs(type) \ rows', a.parent \in Found, visited[a.parent].hop <= level
        PROVE  Relaxed(a)
    <3>1. visited[a.parent].hop < level
      BY <1>4, <2>6, <2>7
    <3> QED
      BY <1>2, <2>7, <3>1 DEF LevelDone
  <2>8. ASSUME NEW a \in Arcs(type) \ rows', NEW w \in Near(level), w.end = a.parent
        PROVE  a.child \in Found /\ visited[a.child].cost <= w.cost + a.cost
    <3>1. w \in Way /\ a \in Arc
      BY <1>4, WaysType DEF Near
    <3>2. a.parent \in Found /\ visited[a.parent].cost <= w.cost
      BY <2>2, <2>8 DEF Covered
    <3>3. visited[a.parent].hop <= level
      BY <1>1, <3>2 DEF ExpansionInv, Hops
    <3>4. a.child \in Found /\ visited[a.child].cost <= visited[a.parent].cost + a.cost
      BY <2>7, <3>2, <3>3 DEF Relaxed
    <3> QED
      BY <1>4, <3>1, <3>2, <3>4 DEF Way, Arc
  <2>9. Near(level)' = Near(level) /\ \A a : Relaxed(a)' = Relaxed(a)
    BY <1>1, <1>3, <1>4 DEF Relaxed
  <2>10. LevelUnderWay'
    BY <1>1, <1>3, <2>1, <2>3, <2>4, <2>5, <2>7, <2>8, <2>9 DEF LevelUnderWay
  <2> QED
    BY <1>5, <1>6, <2>10 DEF ScoresInv
<1>7. CASE phase' = "prune"
  <2>1. level = HopDepth \/ {n \in Found : visited[n].hop = level} = {}
    BY <1>1, <1>7 DEF FetchNeighbors
  <2>2. Near(level) \subseteq Near(HopDepth)
    BY <1>4, WaysGrow DEF Near
  <2>3. Within(Near(HopDepth))
    BY <1>2, <2>2 DEF LevelDone, Within
  <2>4. Covered(Near(HopDepth))
    <3>1. CASE level = HopDepth
      BY <1>2, <3>1 DEF LevelDone
    <3>2. CASE {n \in Found : visited[n].hop = level} = {}
      <4> DEFINE cost == [n \in Found |-> visited[n].cost]
      <4>1. \A n \in Found : visited[n].hop < level
        BY <1>1, <1>4, <3>2 DEF ExpansionInv, Hops
      <4>2. \A a \in Arcs(type) : a.parent \in Found =>
              a.child \in Found /\ cost[a.child] <= cost[a.parent] + a.cost
        BY <1>2, <4>1 DEF LevelDone, Relaxed
      <4>3. cost \in [Found -> Nat] /\ Found \in SUBSET Nodes /\ Seeds \subseteq Found
        BY <1>4 DEF Seeds, ExpansionInv, ExpansionTypeOK
      <4>4. \A n \in Seeds : cost[n] = 0
        BY DEF Seeds, ExpansionInv, Hops
      <4> HIDE DEF cost
      <4>5. \A w \in Ways(Seeds, Arcs(type))[HopDepth] : w.end \in Found /\ cost[w.end] <= w.cost
        BY <1>4, <4>2, <4>3, <4>4, WaysClosed
      <4> QED
        BY <4>5 DEF Covered, Near, cost
    <3> QED
      BY <2>1, <3>1, <3>2
  <2>5. Covered(Near(HopDepth))' /\ Within(Near(HopDepth))'
    BY <1>1, <1>3, <1>4, <2>3, <2>4 DEF Covered, Within
  <2> QED
    BY <1>5, <1>7, <2>5 DEF ScoresInv
<1> QED
  BY <1>1, <1>6, <1>7 DEF FetchNeighbors

(* Seeds stay what they are. *)
LEMMA RowSeeds ==
  ASSUME ExpansionInv, NEW row \in rows, ReadRow(row) PROVE Seeds' = Seeds
<1> DEFINE cost == visited[row.parent].cost + row.cost
<1>1. /\ cost \in Nat
      /\ Found' = Found \cup {row.child}
      /\ \A n \in Found : n # row.child => visited'[n] = visited[n]
      /\ \/ row.child \in Found /\ visited' = visited
         \/ /\ row.child \in Found => visited[row.child].cost > cost
            /\ visited'[row.child] = [hop |-> level + 1, cost |-> cost]
  BY RowRead DEF ExpansionInv
<1> HIDE DEF cost
<1>2. level \in Nat /\ level + 1 # 0
  BY SetOfNodes
<1>3. CASE row.child \in Found /\ visited' = visited
  BY <1>1, <1>3 DEF Seeds
<1>4. CASE /\ row.child \in Found => visited[row.child].cost > cost
           /\ visited'[row.child] = [hop |-> level + 1, cost |-> cost]
  <2>1. row.child \notin Seeds
    BY <1>1, <1>4 DEF Seeds, ExpansionInv, Hops
  <2>2. row.child \notin Seeds'
    BY <1>2, <1>4 DEF Seeds
  <2>3. \A n : n # row.child => (n \in Seeds' <=> n \in Seeds)
    BY <1>1 DEF Seeds
  <2> QED
    BY <2>1, <2>2, <2>3
<1> QED
  BY <1>1, <1>3, <1>4

(* A row read: its child is as good as its parent now makes it, and what   *)
(* was true of the other arcs is, for scores only get better.              *)
LEMMA RowScores ==
  ASSUME ExpansionInv, ScoresInv, NEW row \in rows, ReadRow(row), UNCHANGED graphVars
  PROVE  ScoresInv'
<1> SUFFICES ASSUME Still' PROVE ScoresInv'
  BY DEF ScoresInv
<1> DEFINE cost == visited[row.parent].cost + row.cost
           S == Seeds
           A == Arcs(type)
<1>1. /\ phase = "rows" /\ phase' = "rows" /\ rows' = rows \ {row}
      /\ UNCHANGED <<level, type, active, source>> /\ Still
  BY DEF ReadRow, graphVars, Still
<1>2. /\ Seeds \in SUBSET Nodes /\ Arcs(type) \in SUBSET Arc /\ IsFiniteSet(Found)
      /\ \A n \in Found : visited[n].hop \in Nat /\ visited[n].cost \in Nat
      /\ level \in Nat /\ level + 1 \in Nat
  BY SetOfNodes
<1>3. Arcs(type)' = Arcs(type) /\ \A k \in Nat : Near(k)' = Near(k)
  BY <1>1, RowSeeds, SameWays
<1>4. Earned /\ LevelUnderWay
  BY <1>1 DEF ScoresInv
<1>5. row.parent \in Found /\ row \in Arc /\ row \in Arcs(type)
  BY <1>4 DEF ExpansionInv, ExpansionTypeOK, LevelUnderWay
<1>6. /\ cost \in Nat /\ cost > visited[row.parent].cost
      /\ row.child \in Nodes
      /\ Found' = Found \cup {row.child}
      /\ visited' \in [Found' -> [hop : Nat, cost : Nat]]
      /\ \A n \in Found : n # row.child => visited'[n] = visited[n]
      /\ \/ row.child \in Found /\ visited[row.child].cost <= cost /\ visited' = visited
         \/ /\ row.child \in Found => visited[row.child].cost > cost
            /\ visited'[row.child] = [hop |-> level + 1, cost |-> cost]
  BY RowRead DEF ExpansionInv
<1> HIDE DEF cost
<1>7. \A n \in Found : /\ n \in Found' /\ visited'[n].cost \in Nat /\ visited'[n].hop \in Nat
                       /\ visited'[n].cost <= visited[n].cost
                       /\ visited'[n] = visited[n] \/ (n = row.child /\ visited'[n].hop = level + 1)
  BY <1>2, <1>6
<1>8. row.child \in Found' /\ visited'[row.child].cost <= cost /\ visited'[row.child].cost \in Nat
  BY <1>2, <1>6
<1>9. visited'[row.parent] = visited[row.parent]
  <2>1. CASE row.parent # row.child
    BY <1>5, <1>6, <2>1
  <2>2. CASE row.parent = row.child
    BY <1>2, <1>5, <1>6, <2>2
  <2> QED
    BY <2>1, <2>2
<1>10. Earned'
  <2> SUFFICES ASSUME NEW n \in Found'
               PROVE  [end |-> n, cost |-> visited'[n].cost] \in Near(Cardinality(Better(n)'))
    <3>1. ASSUME NEW n \in Found' PROVE Cardinality(Better(n)') \in Nat
      <4>1. IsFiniteSet(Found')
        BY <1>2, <1>6, FS_AddElement
      <4> QED
        BY <4>1, FS_Subset, FS_CardinalityType DEF Better
    <3> QED
      BY <1>3, <3>1 DEF Earned
  <2>1. IsFiniteSet(Found')
    BY <1>2, <1>6, FS_AddElement
  <2>2. /\ IsFiniteSet(Better(n)') /\ Cardinality(Better(n)') \in Nat
    BY <2>1, FS_Subset, FS_CardinalityType DEF Better
  <2>3. CASE n \in Found /\ visited'[n] = visited[n]
    <3>1. Better(n) \subseteq Better(n)'
      BY <1>2, <1>7, <2>3 DEF Better
    <3>2. Cardinality(Better(n)) \in Nat /\ Cardinality(Better(n)) <= Cardinality(Better(n)')
      BY <2>2, <3>1, FS_Subset, FS_CardinalityType
    <3>3. [end |-> n, cost |-> visited[n].cost] \in Near(Cardinality(Better(n)))
      BY <1>4, <2>3 DEF Earned
    <3>4. Near(Cardinality(Better(n))) \subseteq Near(Cardinality(Better(n)'))
      BY <1>2, <2>2, <3>2, WaysGrow DEF Near
    <3> QED
      BY <2>3, <3>3, <3>4
  <2>4. CASE n = row.child /\ visited'[n].cost = cost
    <3> DEFINE p == row.parent
               k == Cardinality(Better(p))
    <3>1. Better(p) \cup {p} \subseteq Better(n)' /\ p \notin Better(p)
      BY <1>2, <1>5, <1>6, <1>7, <1>9, <2>4 DEF Better
    <3>2. IsFiniteSet(Better(p)) /\ k \in Nat
      BY <1>2, FS_Subset, FS_CardinalityType DEF Better
    <3>3. Cardinality(Better(p) \cup {p}) = k + 1
      BY <3>1, <3>2, FS_AddElement
    <3>4. k + 1 <= Cardinality(Better(n)')
      BY <2>2, <3>1, <3>3, FS_Subset
    <3>5. [end |-> p, cost |-> visited[p].cost] \in Near(k)
      BY <1>4, <1>5 DEF Earned
    <3> HIDE DEF k
    <3>6. [end |-> row.child, cost |-> visited[p].cost + row.cost] \in Near(k + 1)
      <4> DEFINE v == [end |-> p, cost |-> visited[p].cost]
      <4>1. v.end = row.parent /\ v.cost = visited[p].cost
        OBVIOUS
      <4>2. v \in Ways(Seeds, Arcs(type))[k]
        BY <3>5 DEF Near
      <4> HIDE DEF v
      <4>3. [end |-> row.child, cost |-> v.cost + row.cost] \in Ways(Seeds, Arcs(type))[k + 1]
        BY <1>2, <1>5, <3>2, <4>1, <4>2, WaysOn
      <4> QED
        BY <4>1, <4>3 DEF Near
    <3>7. k + 1 \in Nat
      BY <3>2
    <3>8. Near(k + 1) \subseteq Near(Cardinality(Better(n)'))
      BY <1>2, <2>2, <3>4, <3>7, WaysGrow DEF Near
    <3> QED
      BY <2>4, <3>6, <3>8 DEF cost
  <2> QED
    BY <1>6, <2>3, <2>4
<1>11. Covered(Near(level))'
  <2>1. Covered(Near(level))
    BY <1>4 DEF LevelUnderWay
  <2>2. Near(level)' = Near(level) /\ Near(level) \subseteq Way
    BY <1>1, <1>2, <1>3, WaysType DEF Near
  <2>3. ASSUME NEW w \in Near(level) PROVE w.end \in Found' /\ visited'[w.end].cost <= w.cost
    <3>1. w.end \in Found /\ visited[w.end].cost <= w.cost /\ w.cost \in Nat
      BY <2>1, <2>2 DEF Covered, Way
    <3> QED
      BY <1>2, <1>7, <3>1
  <2> QED
    BY <2>2, <2>3 DEF Covered
<1>12. Within(Near(level + 1))'
  <2>1. Near(level + 1)' = Near(level + 1)
    BY <1>1, <1>2, <1>3
  <2>2. PICK w \in Near(level) : w.end = row.parent
    BY <1>4 DEF LevelUnderWay
  <2>3. [end |-> row.child, cost |-> w.cost + row.cost] \in Near(level + 1)
    BY <1>2, <1>5, <2>2, WaysOn DEF Near
  <2>4. \E v \in Near(level + 1) : v.end = row.child
    BY <2>3
  <2>5. Within(Near(level + 1))
    BY <1>4 DEF LevelUnderWay
  <2> QED
    BY <1>6, <2>1, <2>4, <2>5 DEF Within
<1>13. rows' \subseteq Arcs(type)' /\ \A r \in rows' : \E w \in Near(level)' : w.end = r.parent
  BY <1>1, <1>2, <1>3, <1>4 DEF LevelUnderWay
<1>14. ASSUME NEW a \in Arcs(type) \ rows', NEW w \in Near(level), w.end = a.parent
       PROVE  a.child \in Found' /\ visited'[a.child].cost <= w.cost + a.cost
  <2>1. w.cost \in Nat /\ a.cost \in Nat
    BY <1>2, WaysType DEF Near, Way, Arc
  <2>2. CASE a = row
    <3>1. visited[row.parent].cost <= w.cost
      BY <1>4, <1>14, <2>2 DEF LevelUnderWay, Covered
    <3> QED
      BY <1>2, <1>5, <1>8, <2>1, <2>2, <3>1 DEF cost
  <2>3. CASE a # row
    <3>1. a.child \in Found /\ visited[a.child].cost <= w.cost + a.cost
      BY <1>1, <1>4, <1>14, <2>3 DEF LevelUnderWay
    <3> QED
      BY <1>2, <1>7, <2>1, <3>1
  <2> QED
    BY <2>2, <2>3
<1>15. ASSUME NEW a \in Arcs(type) \ rows', a.parent \in Found', visited'[a.parent].hop <= level
       PROVE  a.child \in Found' /\ visited'[a.child].cost <= visited'[a.parent].cost + a.cost
  <2>1. a.cost \in Nat
    BY <1>2 DEF Arc
  <2>2. a.parent \in Found /\ visited'[a.parent] = visited[a.parent]
    BY <1>2, <1>6, <1>7, <1>15
  <2>3. CASE a = row
    BY <1>8, <2>2, <2>3 DEF cost
  <2>4. CASE a # row
    <3>1. a.child \in Found /\ visited[a.child].cost <= visited[a.parent].cost + a.cost
      BY <1>1, <1>4, <1>15, <2>2, <2>4 DEF LevelUnderWay, Relaxed
    <3> QED
      BY <1>2, <1>7, <2>1, <2>2, <3>1
  <2> QED
    BY <2>3, <2>4
<1>16. LevelUnderWay'
  <2>1. Near(level)' = Near(level)
    BY <1>1, <1>2, <1>3
  <2> QED
    BY <1>1, <1>3, <1>11, <1>12, <1>13, <1>14, <1>15, <2>1 DEF LevelUnderWay, Relaxed
<1> QED
  BY <1>1, <1>10, <1>16 DEF ScoresInv

(* With all rows read the ways of one step more are covered. *)
LEMMA LevelScores ==
  ASSUME ExpansionInv, ScoresInv, NextLevel, UNCHANGED graphVars PROVE ScoresInv'
<1> SUFFICES ASSUME Still' PROVE ScoresInv'
  BY DEF ScoresInv
<1>1. /\ phase = "rows" /\ phase' = "fetch" /\ rows = {} /\ level' = level + 1
      /\ UNCHANGED <<visited, type, active, source>> /\ Still
  BY DEF NextLevel, graphVars, Still
<1>2. Found' = Found /\ Seeds' = Seeds
  BY <1>1 DEF Found, Seeds
<1>3. Arcs(type)' = Arcs(type) /\ \A k \in Nat : Ways(Seeds, Arcs(type))' = Ways(Seeds, Arcs(type))
  BY <1>1, <1>2, SameWays
<1>4. /\ Seeds \in SUBSET Nodes /\ Arcs(type) \in SUBSET Arc /\ IsFiniteSet(Found)
      /\ \A n \in Found : visited[n].hop \in Nat /\ visited[n].cost \in Nat
      /\ level \in Nat /\ level + 1 \in Nat
  BY SetOfNodes
<1>5. Earned /\ LevelUnderWay
  BY <1>1 DEF ScoresInv
<1>6. \A a : Relaxed(a)' = Relaxed(a)
  BY <1>1, <1>2 DEF Relaxed
<1>7. Near(level)' = Near(level + 1)
  BY <1>1, <1>2, <1>3 DEF Near
<1>8. Earned'
  BY <1>1, <1>2, <1>3, <1>5 DEF Earned, Near, Better
<1>9. Covered(Near(level + 1))
  <2> SUFFICES ASSUME NEW w \in Near(level + 1), w \notin Near(level)
               PROVE  w.end \in Found /\ visited[w.end].cost <= w.cost
    BY <1>5 DEF LevelUnderWay, Covered
  <2>1. PICK v \in Near(level), a \in Arcs(type) :
          a.parent = v.end /\ w = [end |-> a.child, cost |-> v.cost + a.cost]
    BY <1>4, WaysFrom DEF Near
  <2>2. a.child \in Found /\ visited[a.child].cost <= v.cost + a.cost
    BY <1>1, <1>5, <2>1 DEF LevelUnderWay
  <2> QED
    BY <2>1, <2>2
<1>10. ASSUME NEW a \in Arcs(type), a.parent \in Found, visited[a.parent].hop < level + 1
       PROVE  Relaxed(a)
  <2>1. visited[a.parent].hop <= level
    BY <1>4, <1>10
  <2> QED
    BY <1>1, <1>5, <1>10, <2>1 DEF LevelUnderWay
<1>11. LevelDone'
  <2>1. Within(Near(level + 1))
    BY <1>5 DEF LevelUnderWay
  <2> QED
    BY <1>1, <1>2, <1>3, <1>6, <1>7, <1>9, <1>10, <2>1 DEF LevelDone, Covered, Within
<1> QED
  BY <1>1, <1>8, <1>11 DEF ScoresInv

(* A step that leaves the query and the relations alone. *)
LEMMA IdleScores ==
  ASSUME ScoresInv, UNCHANGED <<phase, type, level, rows, visited, active, source>>, Still' => Still
  PROVE  ScoresInv'
<1> SUFFICES ASSUME Still' PROVE ScoresInv'
  BY DEF ScoresInv
<1>1. Found' = Found /\ Seeds' = Seeds
  BY DEF Found, Seeds
<1>2. Arcs(type)' = Arcs(type) /\ Ways(Seeds, Arcs(type))' = Ways(Seeds, Arcs(type))
  BY <1>1, SameWays
<1>3. Earned' = Earned
  BY <1>1, <1>2 DEF Earned, Near, Better
<1>4. LevelDone' = LevelDone
  BY <1>1, <1>2 DEF LevelDone, Near, Covered, Within, Relaxed
<1>5. LevelUnderWay' = LevelUnderWay
  BY <1>1, <1>2 DEF LevelUnderWay, Near, Covered, Within, Relaxed
<1>6. /\ Covered(Near(HopDepth))' = Covered(Near(HopDepth))
      /\ Within(Near(HopDepth))' = Within(Near(HopDepth))
  BY <1>1, <1>2 DEF Near, Covered, Within
<1> QED
  BY <1>3, <1>4, <1>5, <1>6 DEF ScoresInv

(* Every step keeps the scores, or the graph has moved. *)
LEMMA ScoresStep == ExpansionInv /\ ScoresInv /\ [Next]_vars => ScoresInv'
<1> SUFFICES ASSUME ExpansionInv, ScoresInv, [Next]_vars PROVE ScoresInv'
  OBVIOUS
<1>1. CASE Expand /\ UNCHANGED graphVars
  BY <1>1, ExpandScores
<1>2. CASE FetchNeighbors /\ UNCHANGED graphVars
  BY <1>2, FetchScores
<1>3. ASSUME NEW row \in rows, ReadRow(row), UNCHANGED graphVars PROVE ScoresInv'
  BY <1>3, RowScores
<1>4. CASE NextLevel /\ UNCHANGED graphVars
  BY <1>4, LevelScores
<1>5. CASE Prune \/ Answer \/ ExpandFails
  BY <1>5 DEF Prune, Answer, ExpandFails, EndQuery, ScoresInv, Still
<1>6. CASE GraphStep
  <2>1. UNCHANGED <<phase, type, level, rows, visited>>
    BY <1>6 DEF GraphStep
  <2>2. CASE phase = "idle"
    BY <2>1, <2>2 DEF ScoresInv, Still
  <2>3. CASE phase # "idle" /\ <<active, source>>' = <<active, source>>
    <3>1. Still' => Still
      BY <1>6, <2>1 DEF GraphStep, Still, ExpansionInv, ExpansionTypeOK
    <3> QED
      BY <2>1, <2>3, <3>1, IdleScores
  <2>4. CASE phase # "idle" /\ <<active, source>>' # <<active, source>>
    BY <1>6, <2>4 DEF GraphStep, ScoresInv, Still
  <2> QED
    BY <2>2, <2>3, <2>4
<1>7. CASE UNCHANGED vars
  <2>1. UNCHANGED <<phase, type, level, rows, visited, active, source, moved>>
    BY <1>7 DEF vars, graphVars, expansionVars
  <2> QED
    BY <2>1, IdleScores DEF Still
<1> QED
  BY <1>1, <1>2, <1>3, <1>4, <1>5, <1>6, <1>7 DEF Next, Expander

(* No more nodes have a better score than there are. *)
LEMMA ScoresAreBest == ExpansionInv /\ ScoresInv => ScoredByBestPath
<1> SUFFICES ASSUME ExpansionInv, ScoresInv, phase = "prune" /\ ~moved PROVE ScoredByBestPath
  BY DEF ScoredByBestPath
<1>1. Earned /\ Covered(Near(HopDepth)) /\ Within(Near(HopDepth))
  BY DEF ScoresInv, Still
<1>2. /\ Seeds \in SUBSET Nodes /\ Arcs(type) \in SUBSET Arc
      /\ Found \subseteq Nodes /\ IsFiniteSet(Nodes) /\ Cardinality(Nodes) \in Nat
  BY SetOfNodes, ExpansionAssumption, FS_CardinalityType DEF ExpansionInv, ExpansionTypeOK
<1>3. Found = {w.end : w \in Near(HopDepth)}
  BY <1>1 DEF Covered, Within
<1>4. ASSUME NEW n \in Found
      PROVE  [end |-> n, cost |-> visited[n].cost] \in Near(Cardinality(Nodes))
  <2>1. Better(n) \in SUBSET Nodes
    BY <1>2 DEF Better
  <2>2. Cardinality(Better(n)) \in Nat /\ Cardinality(Better(n)) <= Cardinality(Nodes)
    BY <1>2, <2>1, FS_Subset, FS_CardinalityType
  <2>3. Near(Cardinality(Better(n))) \subseteq Near(Cardinality(Nodes))
    BY <1>2, <2>2, WaysGrow DEF Near
  <2> QED
    BY <1>1, <2>3 DEF Earned
<1> QED
  BY <1>1, <1>3, <1>4 DEF ScoredByBestPath, Near, Covered

-----------------------------------------------------------------------------
(* The graph's, the query's and the scores' invariants in one. *)
LEMMA AllHolds == Spec => [](GraphInv /\ ExpansionInv /\ ScoresInv /\ BudgetKept)
<1> DEFINE J == GraphInv /\ ExpansionInv /\ ScoresInv /\ BudgetKept
<1>1. Init => J
  <2> SUFFICES ASSUME Init PROVE J
    OBVIOUS
  <2>1. GraphInv
    BY InitInv DEF Init
  <2>2. phase = "idle"
    BY DEF Init
  <2> QED
    BY <2>1, <2>2, InitExpansion DEF GraphInv, ExpansionInv, ScoresInv, Still, BudgetKept
<1>2. J /\ [Next]_vars => J'
  <2> SUFFICES ASSUME J, [Next]_vars PROVE J'
    OBVIOUS
  <2>1. GraphInv'
    <3>1. GraphInv /\ UNCHANGED graphVars => GraphInv'
      BY DEF GraphInv, GraphTypeOK, SeenIsFresh, graphVars
    <3> QED
      BY <3>1, StepIsGraphs, WritersInv, EnricherInv DEF GraphNext
  <2>2. ExpansionInv'
    BY <2>1, ExpansionStep DEF GraphInv, ExpansionInv
  <2>3. ScoresInv' /\ BudgetKept'
    BY ScoresStep, BudgetStep
  <2> QED
    BY <2>1, <2>2, <2>3
<1> QED
  BY <1>1, <1>2, PTL DEF Spec

(* A node found is at most HopDepth hops away and has a score; only seeds  *)
(* have the best one; a row leads from a node found and costs something.   *)
THEOREM ExpansionTypeCorrect == Spec => []ExpansionInv
  BY AllHolds, PTL

(* For any graph, seeds, depth and decay: unless the graph moved, a query  *)
(* finds the nodes within HopDepth of a seed and no others, scores each at *)
(* least as well as by any path of that length, in whatever order the rows *)
(* were read, and by a path there is (runBFS, bfs.go).                     *)
THEOREM ScoredByBest == Spec => []ScoredByBestPath
<1>1. ExpansionInv /\ ScoresInv => ScoredByBestPath
  BY ScoresAreBest
<1> QED
  BY AllHolds, <1>1, PTL

(* For any budget and whichever order sort.Slice gives equal scores: seeds *)
(* survive, the others by score, nothing dropped would have fit, and only  *)
(* seeds exceed the budget (prune, budget.go).                             *)
THEOREM BudgetToBest == Spec => []BestFillBudget
<1>1. ExpansionInv /\ BudgetKept => BestFillBudget
  BY BudgetIsBest
<1> QED
  BY AllHolds, <1>1, PTL
=============================================================================
