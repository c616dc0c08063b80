-------------------------- MODULE SubgraphExpansion --------------------------
(***************************************************************************)
(* The subgraph-expander: from the seeds of a query along the relations of *)
(* CallGraph, hop by hop, each hop a query of its own, while the graph may *)
(* change; then the pruning to the token budget.                           *)
(*                                                                         *)
(* A score is the product of the decay and the weights along a path, from  *)
(* 1.0 at a seed.  It is modelled by its negated logarithm, a cost: 0 at a *)
(* seed, sums of integers elsewhere, the better the smaller.               *)
(***************************************************************************)
EXTENDS CallGraph, SequencesExt

CONSTANTS
  SeedSets,    \* what the retriever may return
  QueryTypes,  \* of "flow", "impact", "lookup"
  HopDepth,    \* 2 unless configured
  Decay,       \* cost of EXPANDER_DECAY, less than 1.0
  MaxTokens

ASSUME ExpansionAssumption ==
  /\ IsFiniteSet(Nodes)
  /\ {} \notin SeedSets /\ SeedSets \subseteq SUBSET Nodes
  /\ QueryTypes \subseteq {"flow", "impact", "lookup"}
  /\ HopDepth \in Nat /\ Decay \in Nat \ {0} /\ MaxTokens \in Nat

VARIABLES
  phase,     \* "idle" | "fetch" | "rows" | "prune" | "pruned"
  type,      \* the query's type, "none" when there is no query
  level,     \* hop of runBFS
  rows,      \* rows of the level that are still to be read
  visited,   \* node -> [hop, cost], for the nodes found
  surviving, \* nodes kept
  \* history
  moved      \* the graph has changed since the expansion began

expansionVars == <<phase, type, level, rows, visited, surviving, moved>>
vars == <<graphVars, expansionVars>>

Init ==
  /\ GraphInit
  /\ phase = "idle" /\ type = "none" /\ level = 0 /\ rows = {}
  /\ visited = <<>> /\ surviving = {} /\ moved = FALSE

Found == DOMAIN visited
Seeds == {n \in Found : visited[n].hop = 0}

(* The weights of scoring.go: 0.7, 0.8, 0.6 and 0.8 of an IMPORTS.         *)
ProvenanceCost == [confirmed |-> 0, dynamic |-> 5, static |-> 10, conflict |-> 23]
Cost(r) == Decay + ProvenanceCost[source[r]] + IF r \in Imports THEN 10 ELSE 0

(* The relations a query of the type follows. *)
Followed(t) ==
  {r \in IF t = "impact" THEN Calls ELSE IF t = "flow" THEN Relations ELSE Imports : Exists(r)}

(* The relation's end that is queried from, and the one it leads to. *)
Parent(t, r) == IF t = "impact" THEN r[2] ELSE r[1]
Child(t, r) == IF t = "impact" THEN r[1] ELSE r[2]

Steps(t) == {r \in Followed(t) : Child(t, r) \in active}

(* The rows there are; a row carries the cost of its relation as it was.   *)
Arcs(t) == {[parent |-> Parent(t, r), child |-> Child(t, r), cost |-> Cost(r)] : r \in Steps(t)}

-----------------------------------------------------------------------------
(* Seeds that were deleted meanwhile stay, with what the retriever knew.   *)
Expand ==
  /\ phase = "idle"
  /\ type' \in QueryTypes
  /\ \E S \in SeedSets : visited' = [n \in S |-> [hop |-> 0, cost |-> 0]]
  /\ phase' = "fetch"
  /\ UNCHANGED <<level, rows, surviving, moved>>

(* One level's query. *)
FetchNeighbors ==
  LET current == {n \in Found : visited[n].hop = level}
  IN  /\ phase = "fetch"
      /\ IF level = HopDepth \/ current = {}
         THEN phase' = "prune" /\ UNCHANGED rows
         ELSE /\ phase' = "rows"
              /\ rows' = {a \in Arcs(type) : a.parent \in current}
      /\ UNCHANGED <<type, level, visited, surviving, moved>>

Placed(n, hop, cost) ==
  [m \in Found \cup {n} |-> IF m = n THEN [hop |-> hop, cost |-> cost] ELSE visited[m]]

(* Mutant of ReadRow: a node keeps the score it was found with.            *)
ReadRowOnce(row) ==
  /\ phase = "rows" /\ row \in rows
  /\ rows' = rows \ {row}
  /\ visited' = IF row.child \in Found THEN visited
                ELSE Placed(row.child, level + 1, visited[row.parent].cost + row.cost)
  /\ UNCHANGED <<phase, type, level, surviving, moved>>

(* The rows come in any order.  The parent's score is its present one: a   *)
(* row before may have raised it.  A better score takes the node to the    *)
(* next level, to be followed again.                                       *)
ReadRow(row) ==
  LET cost == visited[row.parent].cost + row.cost
  IN  /\ phase = "rows" /\ row \in rows
      /\ rows' = rows \ {row}
      /\ visited' = IF row.child \in Found /\ visited[row.child].cost <= cost THEN visited
                    ELSE Placed(row.child, level + 1, cost)
      /\ UNCHANGED <<phase, type, level, surviving, moved>>

NextLevel ==
  /\ phase = "rows" /\ rows = {}
  /\ level' = level + 1 /\ phase' = "fetch"
  /\ UNCHANGED <<type, rows, visited, surviving, moved>>

(* No seed ever has a spec: the query names columns the table lacks.       *)
Tokens(n) == IF n \in Seeds THEN 120 ELSE 20
Used(S) == 120 * Cardinality(S \cap Seeds) + 20 * Cardinality(S \ Seeds)

(* Mutant of Kept: the node that reaches the budget is one too many. *)
KeptBeyond(S, n) ==
  IF n \in Seeds \/ Used(S) <= MaxTokens THEN S \cup {n} ELSE S

Kept(S, n) ==
  IF n \in Seeds \/ Used(S) + Tokens(n) <= MaxTokens THEN S \cup {n} ELSE S

(* sort.Slice leaves equal scores in any order. *)
ByScore(s) == \A i, j \in DOMAIN s : i < j => visited[s[i]].cost <= visited[s[j]].cost

(* The nodes are gone through once, in that order. *)
KeptOf(s) ==
  LET kept[i \in 0 .. Len(s)] == IF i = 0 THEN {} ELSE Kept(kept[i - 1], s[i])
  IN  kept[Len(s)]

Prune ==
  /\ phase = "prune"
  /\ \E s \in SetToSeqs(Found) : ByScore(s) /\ surviving' = KeptOf(s)
  /\ phase' = "pruned"
  /\ UNCHANGED <<type, level, rows, visited, moved>>

EndQuery ==
  /\ phase' = "idle" /\ type' = "none" /\ level' = 0 /\ rows' = {}
  /\ visited' = <<>> /\ surviving' = {} /\ moved' = FALSE

(* The relations among the nodes kept and the conflicts that start from    *)
(* them are queried, and the answer is sent; or one of the queries fails.  *)
Answer == phase = "pruned" /\ EndQuery

ExpandFails == phase = "fetch" /\ EndQuery

Expander ==
  \/ Expand \/ FetchNeighbors \/ NextLevel \/ Prune \/ Answer \/ ExpandFails
  \/ \E row \in rows : ReadRow(row)

GraphStep ==
  /\ GraphNext
  /\ moved' = (moved \/ (phase # "idle" /\ <<active, source>>' # <<active, source>>))
  /\ UNCHANGED <<phase, type, level, rows, visited, surviving>>

Next == (Expander /\ UNCHANGED graphVars) \/ GraphStep

Spec == Init /\ [][Next]_vars

-----------------------------------------------------------------------------
(* The ways from one of the nodes S along at most k of the arcs A.         *)
Onward(w, A) ==
  {[end |-> a.child, cost |-> w.cost + a.cost] : a \in {x \in A : x.parent = w.end}}

Ways(S, A) ==
  LET ways[k \in Nat] ==
        IF k = 0 THEN {[end |-> n, cost |-> 0] : n \in S}
        ELSE ways[k - 1] \cup UNION {Onward(w, A) : w \in ways[k - 1]}
  IN  ways

(* When the graph holds still, the nodes found are those within HopDepth   *)
(* of a seed, and each is scored at least as well as by its best path of   *)
(* that length, though rows come in any order and a node found by a poor   *)
(* path is taken up again when a better one turns up; and each score is    *)
(* that of a path there is, if a longer one, with no more steps than there *)
(* are nodes ("BFS with re-scoring", bfs.go).                              *)
ScoredByBestPath ==
  phase = "prune" /\ ~moved =>
    LET arcs == Arcs(type)
        near == Ways(Seeds, arcs)[HopDepth]
        far == Ways(Seeds, arcs)[Cardinality(Nodes)]
    IN  /\ Found = {w.end : w \in near}
        /\ \A w \in near : visited[w.end].cost <= w.cost
        /\ \A n \in Found : [end |-> n, cost |-> visited[n].cost] \in far

(* The seeds survive whatever the budget; beside them the budget goes to   *)
(* the best scores: nothing that was dropped scores better than what was   *)
(* kept, none of it would still have fit, and only seeds exceed it.        *)
BestFillBudget ==
  phase = "pruned" =>
    LET dropped == Found \ surviving
    IN  /\ Seeds \subseteq surviving
        /\ \A n \in dropped : \A k \in surviving : visited[k].cost <= visited[n].cost
        /\ \A n \in dropped : Used(surviving) + Tokens(n) > MaxTokens
        /\ Used(surviving) <= MaxTokens \/ surviving = Seeds
=============================================================================
