------------------------------ MODULE CallGraph ------------------------------
(***************************************************************************)
(* The relations of the graph in Neo4j and the three services that write   *)
(* them: graph-writer (nodes, CALLS, tombstones), symbol-resolver          *)
(* (IMPORTS) and graph-enricher, which records in r.source what traces say *)
(* of a call.  Each session is one step; those of one batch of the         *)
(* enricher are five, and the others' may come between.                    *)
(*                                                                         *)
(* Of what a trace observed only the entrypoint is named by its stable_id: *)
(* the normalizer gives the frames their function names, which no node     *)
(* has.  So no dynamic edge is ever written, and observed_count is set     *)
(* exactly when confirmed_at is.                                           *)
(***************************************************************************)
EXTENDS Naturals, FiniteSets

CONSTANTS
  Nodes,
  Calls, Imports,          \* the relations there may be, pairs of nodes
  Entrypoints,             \* nodes that get traced
  MaxBatches, MaxWrites    \* bounds of the enricher's batches, the writers' sessions

Relations == Calls \cup Imports

ASSUME GraphAssumption ==
  /\ Relations \subseteq Nodes \X Nodes /\ Calls \cap Imports = {}
  /\ Entrypoints \subseteq Nodes
  /\ MaxBatches \in Nat /\ MaxWrites \in Nat

VARIABLES
  active,     \* nodes with active = true; the others are tombstoned
  traced,     \* nodes with a last_traced_at
  source,     \* relation -> r.source, "none" when there is no relation
  confirmed,  \* relation -> confirmed_at: "null", or how it compares to the
              \* caller's updated_at: "fresh" or "stale"
  batch,      \* what the enricher's batch observed, and its next session
  batches, writes,  \* counters of the bounds
  \* history
  seen        \* calls a batch confirmed since their caller was last written

graphVars == <<active, traced, source, confirmed, batch, batches, writes, seen>>

NoBatch == [ids |-> {}, next |-> "none"]

(* What indexing leaves, once the nodes of all files are there. *)
GraphInit ==
  /\ active = Nodes /\ traced = {} /\ seen = {}
  /\ source = [r \in Relations |-> "static"]
  /\ confirmed = [r \in Relations |-> "null"]
  /\ batch = NoBatch /\ batches = 0 /\ writes = 0

Exists(r) == source[r] # "none"
From(n) == {r \in Relations : r[1] = n}

-----------------------------------------------------------------------------
(* The writers.                                                            *)

Write == writes < MaxWrites /\ writes' = writes + 1

UpsertNode(n) ==
  /\ Write
  /\ active' = active \cup {n}
  /\ confirmed' = [r \in Relations |->
       IF r \in From(n) /\ confirmed[r] # "null" THEN "stale" ELSE confirmed[r]]
  /\ seen' = seen \ From(n)
  /\ UNCHANGED <<traced, source, batch, batches>>

(* Mutant of UpsertRelations: the relation's other properties go.          *)
ReplaceRelations(E) ==
  /\ Write
  /\ source' = [r \in Relations |-> IF r \in E THEN "static" ELSE source[r]]
  /\ confirmed' = [r \in Relations |-> IF r \in E THEN "null" ELSE confirmed[r]]
  /\ UNCHANGED <<active, traced, batch, batches, seen>>

(* MERGE keeps what a relation already has, but for its source.            *)
UpsertRelations(E) ==
  /\ Write
  /\ source' = [r \in Relations |-> IF r \in E THEN "static" ELSE source[r]]
  /\ UNCHANGED <<active, traced, confirmed, batch, batches, seen>>

(* The incoming relations go only if there is an outgoing one.             *)
Tombstone(n) ==
  LET out == {r \in From(n) : Exists(r)}
      gone == IF out = {} THEN {} ELSE {r \in Relations : n \in {r[1], r[2]}}
  IN  /\ Write
      /\ active' = active \ {n}
      /\ source' = [r \in Relations |-> IF r \in gone THEN "none" ELSE source[r]]
      /\ confirmed' = [r \in Relations |-> IF r \in gone THEN "null" ELSE confirmed[r]]
      /\ seen' = seen \ gone
      /\ UNCHANGED <<traced, batch, batches>>

Writers ==
  \E n \in Nodes :
    \/ UpsertNode(n)
    \/ \E E \in SUBSET (From(n) \cap Calls) : E # {} /\ UpsertRelations(E)
    \/ \E r \in From(n) \cap Imports : r[2] \in active /\ UpsertRelations({r})
    \/ Tombstone(n)

-----------------------------------------------------------------------------
(* The enricher's batch: five sessions, none of which runs after one that  *)
(* fails.                                                                  *)

TakeBatch ==
  /\ batch = NoBatch /\ batches < MaxBatches
  /\ \E ids \in SUBSET Entrypoints \ {{}} : batch' = [ids |-> ids, next |-> "props"]
  /\ batches' = batches + 1
  /\ UNCHANGED <<active, traced, source, confirmed, writes, seen>>

Session(this, then) ==
  /\ batch.next = this
  /\ batch' = IF then = "none" THEN NoBatch ELSE [batch EXCEPT !.next = then]
  /\ UNCHANGED <<active, batches, writes>>

UpdateNodeProps ==
  /\ Session("props", "dynamic")
  /\ traced' = traced \cup batch.ids
  /\ UNCHANGED <<source, confirmed, seen>>

(* Its edges join names, which match no node. *)
UpsertDynamicEdges ==
  /\ Session("dynamic", "confirm")
  /\ UNCHANGED <<traced, source, confirmed, seen>>

ConfirmStaticEdges ==
  LET now == {r \in Calls : source[r] = "static" /\ {r[1], r[2]} \subseteq batch.ids}
  IN  /\ Session("confirm", "conflicts")
      /\ source' = [r \in Relations |-> IF r \in now THEN "confirmed" ELSE source[r]]
      /\ confirmed' = [r \in Relations |-> IF r \in now THEN "fresh" ELSE confirmed[r]]
      /\ seen' = seen \cup now
      /\ UNCHANGED traced

DetectConflicts ==
  LET now == {r \in Calls : source[r] = "static" /\ confirmed[r] = "null" /\ r[1] \in traced}
  IN  /\ Session("conflicts", "staleness")
      /\ source' = [r \in Relations |-> IF r \in now THEN "conflict" ELSE source[r]]
      /\ UNCHANGED <<traced, confirmed, seen>>

DowngradeStale ==
  LET now == {r \in Calls : source[r] = "confirmed" /\ confirmed[r] = "stale"}
  IN  /\ Session("staleness", "none")
      /\ source' = [r \in Relations |-> IF r \in now THEN "static" ELSE source[r]]
      /\ confirmed' = [r \in Relations |-> IF r \in now THEN "null" ELSE confirmed[r]]
      /\ UNCHANGED <<traced, seen>>

(* A session raises: the batch is cleared. *)
BatchFails ==
  /\ batch # NoBatch
  /\ batch' = NoBatch
  /\ UNCHANGED <<active, traced, source, confirmed, batches, writes, seen>>

Enricher ==
  \/ TakeBatch \/ UpdateNodeProps \/ UpsertDynamicEdges \/ ConfirmStaticEdges
  \/ DetectConflicts \/ DowngradeStale \/ BatchFails

GraphNext == Writers \/ Enricher

GraphSpec == GraphInit /\ [][GraphNext]_graphVars

-----------------------------------------------------------------------------
GraphTypeOK ==
  /\ active \subseteq Nodes /\ traced \subseteq Nodes
  /\ source \in [Relations -> {"none", "static", "confirmed", "conflict"}]
  /\ confirmed \in [Relations -> {"null", "fresh", "stale"}]
  /\ batch \in [ids : SUBSET Entrypoints,
                next : {"none", "props", "dynamic", "confirm", "conflicts", "staleness"}]
  /\ batches \in 0 .. MaxBatches /\ writes \in 0 .. MaxWrites
  /\ seen \subseteq Calls

(* A call that traces have confirmed is not reported as one they never     *)
(* observed until its caller has been written anew, whatever is re-indexed *)
(* without change in between and whichever session of a batch fails        *)
(* (CONFLICT_DETECTOR_QUERY, 'in AST but never observed in traces').       *)
ConfirmedNotDisputed ==
  [][\A r \in seen : source[r] # "conflict" => source'[r] # "conflict"]_graphVars
=============================================================================
