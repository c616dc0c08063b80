---------------------------- MODULE IndexPipeline ----------------------------
(***************************************************************************)
(* The static indexing pipeline, from a commit to the two stores:          *)
(*                                                                         *)
(*   repo-watcher --file-changed--> parser --parsed-file--> embedder       *)
(*                      |                       |               |          *)
(*                      v                       v         embedded-nodes   *)
(*               vector-writer             graph-writer     |       |      *)
(*                (deletes)               (edge consumer)   v       v      *)
(*                                             graph-writer       vector-  *)
(*                                           (node consumer)      writer   *)
(*                                                                         *)
(* Each arrow is a consumer group of its own: the groups of one stream     *)
(* advance independently.  A group hands its events to the handler in      *)
(* stream order and at most once (module ConsumerGroup), so a group is a   *)
(* read position here and a failing handler or a crash loses events.  The  *)
(* edge and the node consumer are two tasks of one process that share the  *)
(* in-memory cache of parsed files, and each await between their calls is  *)
(* a step boundary.                                                        *)
(***************************************************************************)
EXTENDS RepoWatcher

CONSTANTS
  Callees,    \* Callees[n][h]: what node n calls in its version h
  Batch,      \* events a consumer may hold when it crashes
  Pipelined   \* commits arrive while earlier ones are still being indexed

ASSUME CalleesAssumption == Callees \in [Nodes -> [Hashes -> SUBSET Nodes]]
ASSUME BatchAssumption == Batch \in Nat \ {0} /\ Pipelined \in BOOLEAN

VARIABLES
  parsedFile,     \* stream:parsed-file
  embeddedNodes,  \* stream:embedded-nodes
  read,           \* the position each consumer group has handled
  busy,           \* handlers between two of their steps
  known,          \* node hashes the embedder has read from Neo4j
  records,        \* node records the node consumer is about to write
  cache,          \* _parsed_file_cache: a position of parsed-file, or 0
  graph,          \* nodes in Neo4j
  edges,          \* CALLS relations in Neo4j
  vec,            \* hash of the version whose vector Qdrant has, or Absent
  graphStale,     \* history: nodes the graph may have wrong, an event being lost
  vecStale        \* history: the same for Qdrant

pipeVars == <<parsedFile, embeddedNodes, read, busy, known, records, cache,
              graph, edges, vec, graphStale, vecStale>>
vars == <<watcherVars, pipeVars>>

Groups == {"parser", "vdelete", "embedder", "edges", "nodes", "vectors"}
Stream(g) ==
  IF g \in {"parser", "vdelete"} THEN fileChanged
  ELSE IF g \in {"embedder", "edges"} THEN parsedFile ELSE embeddedNodes

Pending(g) == read[g] < Len(Stream(g))
Event(g) == Stream(g)[read[g] + 1]
Versions == UNION {[S -> Hashes] : S \in SUBSET Nodes}
Keys == (1 .. MaxCommits) \X Files
EmptyCache == [k \in Keys |-> 0]
NoNode == [hash |-> Absent, body |-> Absent, active |-> FALSE]
InGraph(n) == graph[n].hash # Absent
Active(n) == graph[n].active

TypeOK ==
  /\ WatcherTypeOK
  /\ parsedFile \in Seq([file : Files, sha : 1 .. MaxCommits, nodes : Versions,
                         calls : SUBSET (Nodes \X Nodes), deleted : SUBSET Nodes])
  /\ embeddedNodes \in Seq([file : Files, sha : 1 .. MaxCommits, nodes : Versions])
  /\ read \in [Groups -> Nat] /\ \A g \in Groups : read[g] <= Len(Stream(g))
  /\ busy \subseteq {"embedder", "edges", "tombstone", "nodes"}
  /\ known \in [Nodes -> Hashes \cup {Absent}]
  /\ \E S \in SUBSET Nodes : records \in [S -> [hash : Hashes, body : Hashes]]
  /\ cache \in [Keys -> Nat] /\ \A k \in Keys : cache[k] <= Len(parsedFile)
  /\ graph \in [Nodes -> [hash : Hashes, body : Hashes, active : BOOLEAN] \cup {NoNode}]
  /\ edges \subseteq {n \in Nodes : InGraph(n)} \X {n \in Nodes : InGraph(n)}
  /\ vec \in [Nodes -> Hashes \cup {Absent}]
  /\ graphStale \subseteq Nodes /\ vecStale \subseteq Nodes

Nothing == [n \in {} |-> Absent]

Init ==
  /\ WatcherInit
  /\ parsedFile = <<>> /\ embeddedNodes = <<>>
  /\ read = [g \in Groups |-> 0] /\ busy = {}
  /\ known = [n \in Nodes |-> Absent] /\ records = Nothing
  /\ cache = EmptyCache
  /\ graph = [n \in Nodes |-> NoNode] /\ edges = {}
  /\ vec = [n \in Nodes |-> Absent]
  /\ graphStale = {} /\ vecStale = {}

Quiescent == AllIdle /\ busy = {} /\ \A g \in Groups : ~Pending(g)

-----------------------------------------------------------------------------
Done(g) == read' = [read EXCEPT ![g] = @ + 1]

Watch ==
  /\ \/ Commit /\ (Pipelined \/ (Quiescent /\ lastSha = Tip))
     \/ \E s \in Scanners : WatcherStep(s)
  /\ UNCHANGED pipeVars

(***************************************************************************)
(* Parser.  It reads the file from the working tree, whatever commit the   *)
(* event is about, and keeps what apply_diff_filter selects.               *)
(***************************************************************************)
CallsIn(t, f) ==
  {c \in NodesIn(t, f) \X NodesIn(t, f) : c[1] # c[2] /\ c[2] \in Callees[c[1]][t[c[1]]]}

(* The parser's own copy of the extraction: the nodes of a file with their *)
(* hashes. *)
Extracted(t, f) == [n \in NodesIn(t, f) |-> t[n]]

Selected(e, all) ==
  IF e.type = "modified" THEN DOMAIN all \cap (e.changed \cup e.added) ELSE DOMAIN all

Parsed(e, t) ==
  LET all  == Extracted(t, e.file)
      kept == IF e.type = "deleted" THEN {} ELSE Selected(e, all) IN
  [file |-> e.file, sha |-> e.sha,
   nodes |-> [n \in kept |-> all[n]],
   calls |-> {c \in CallsIn(t, e.file) : c[1] \in kept},
   deleted |-> e.deleted]

Parse ==
  /\ Pending("parser")
  /\ LET e == Event("parser") IN
       /\ e.type = "deleted" \/ Exists(TreeAt(Tip), e.file)
       /\ parsedFile' = Append(parsedFile, Parsed(e, TreeAt(Tip)))
  /\ Done("parser")
  /\ UNCHANGED <<watcherVars, embeddedNodes, busy, known, records, cache, graph, edges,
                 vec, graphStale, vecStale>>

Mentioned(e) == e.changed \cup e.added \cup e.deleted

(* open() raises: the file is gone from the checkout. *)
ParseMissingFile ==
  /\ Pending("parser")
  /\ Event("parser").type # "deleted" /\ ~Exists(TreeAt(Tip), Event("parser").file)
  /\ Done("parser")
  /\ graphStale' = graphStale \cup Mentioned(Event("parser"))
  /\ vecStale' = vecStale \cup Mentioned(Event("parser"))
  /\ UNCHANGED <<watcherVars, parsedFile, embeddedNodes, busy, known, records, cache,
                 graph, edges, vec>>

(***************************************************************************)
(* Embedder.  It asks Neo4j for the hashes it has and embeds the others.   *)
(***************************************************************************)
ReadHashes ==
  /\ Pending("embedder") /\ "embedder" \notin busy
  /\ busy' = busy \cup {"embedder"}
  /\ \/ /\ known' = [n \in Nodes |-> IF n \in DOMAIN Event("embedder").nodes
                                       THEN graph[n].hash ELSE Absent]
        /\ UNCHANGED faults
     \/ /\ known' = [n \in Nodes |-> Absent]     \* Neo4j unreachable
        /\ faults < MaxFaults /\ faults' = faults + 1
  /\ UNCHANGED <<commits, lastSha, scan, fileChanged, scans, torn, ghost, parsedFile,
                 embeddedNodes, read, records, cache, graph, edges, vec,
                 graphStale, vecStale>>

(* Mutant of ToEmbed: every known node is skipped, changed or not. *)
ToEmbedUnknown(e) == {n \in DOMAIN e.nodes : known[n] = Absent}

ToEmbed(e) == {n \in DOMAIN e.nodes : known[n] # e.nodes[n]}

(* A skipped node keeps whatever the stores hold of it: a tombstone has a  *)
(* hash too, and so has a node of which the graph missed an event.         *)
EmbedAndEmit ==
  /\ "embedder" \in busy
  /\ LET e == Event("embedder")
         skipped == {n \in DOMAIN e.nodes \ ToEmbed(e) : ~Active(n) \/ n \in graphStale}
     IN  /\ embeddedNodes' = Append(embeddedNodes,
              [file |-> e.file, sha |-> e.sha,
               nodes |-> [n \in ToEmbed(e) |-> e.nodes[n]]])
         /\ graphStale' = graphStale \cup skipped
         /\ vecStale' = vecStale \cup skipped
  /\ known' = [n \in Nodes |-> Absent]
  /\ busy' = busy \ {"embedder"}
  /\ Done("embedder")
  /\ UNCHANGED <<watcherVars, parsedFile, records, cache, graph, edges, vec>>

(***************************************************************************)
(* Graph-writer, edge consumer: cache the event, write the edges whose two *)
(* ends exist, tombstone the deleted nodes.                                *)
(***************************************************************************)
(* Mutant of Key: the cache is keyed by path alone. *)
KeyPathOnly(e) == <<1, e.file>>

Key(e) == <<e.sha, e.file>>

CacheParsed ==
  /\ Pending("edges") /\ busy \cap {"edges", "tombstone"} = {}
  /\ cache' = [cache EXCEPT ![Key(Event("edges"))] = read["edges"] + 1]
  /\ busy' = busy \cup {"edges"}
  /\ UNCHANGED <<watcherVars, parsedFile, embeddedNodes, read, known, records, graph,
                 edges, vec, graphStale, vecStale>>

(* Mutant of UpsertEdges: the ends need not exist. *)
UpsertAllEdges ==
  /\ "edges" \in busy
  /\ LET e == Event("edges") IN
       /\ edges' = edges \cup e.calls
       /\ IF e.deleted = {}
            THEN busy' = busy \ {"edges"} /\ Done("edges")
            ELSE busy' = (busy \ {"edges"}) \cup {"tombstone"} /\ UNCHANGED read
  /\ UNCHANGED <<watcherVars, parsedFile, embeddedNodes, known, records, cache, graph,
                 vec, graphStale, vecStale>>

UpsertEdges ==
  /\ "edges" \in busy
  /\ LET e == Event("edges") IN
       /\ edges' = edges \cup {c \in e.calls : InGraph(c[1]) /\ InGraph(c[2])}
       /\ IF e.deleted = {}
            THEN busy' = busy \ {"edges"} /\ Done("edges")
            ELSE busy' = (busy \ {"edges"}) \cup {"tombstone"} /\ UNCHANGED read
  /\ UNCHANGED <<watcherVars, parsedFile, embeddedNodes, known, records, cache, graph,
                 vec, graphStale, vecStale>>

(* TOMBSTONE_QUERY: a row survives its first MATCH (n)-[r]->() only if the *)
(* node has an outgoing relation, so a pure callee keeps its callers'.     *)
Detached(S) ==
  {c \in edges : \/ c[1] \in S
                 \/ c[2] \in S /\ \E d \in edges : d[1] = c[2]}

(* Mutant of Tombstone: the edges go, the nodes stay active. *)
TombstoneEdgesOnly ==
  /\ "tombstone" \in busy
  /\ edges' = edges \ Detached(Event("edges").deleted)
  /\ graphStale' = graphStale \ Event("edges").deleted
  /\ busy' = busy \ {"tombstone"}
  /\ Done("edges")
  /\ UNCHANGED <<watcherVars, parsedFile, embeddedNodes, known, records, cache, graph,
                 vec, vecStale>>

Tombstone ==
  /\ "tombstone" \in busy
  /\ LET gone == Event("edges").deleted IN
       /\ graph' = [n \in Nodes |-> [graph[n] EXCEPT !.active = @ /\ n \notin gone]]
       /\ edges' = edges \ Detached(gone)
       /\ graphStale' = graphStale \ gone
  /\ busy' = busy \ {"tombstone"}
  /\ Done("edges")
  /\ UNCHANGED <<watcherVars, parsedFile, embeddedNodes, known, records, cache, vec,
                 vecStale>>

(***************************************************************************)
(* Graph-writer, node consumer: join the event with the cached parse.      *)
(***************************************************************************)
Joined(e, p) ==
  [n \in DOMAIN e.nodes \cap DOMAIN p.nodes |-> [hash |-> e.nodes[n], body |-> p.nodes[n]]]

LookUp ==
  /\ Pending("nodes") /\ "nodes" \notin busy
  /\ LET e == Event("nodes")
         at == cache[Key(e)]
     IN  /\ at # 0
         /\ records' = Joined(e, parsedFile[at])
         /\ graphStale' = graphStale \cup (DOMAIN e.nodes \ DOMAIN parsedFile[at].nodes)
  /\ busy' = busy \cup {"nodes"}
  /\ UNCHANGED <<watcherVars, parsedFile, embeddedNodes, read, known, cache, graph, edges,
                 vec, vecStale>>

(* Cache miss: warned, acknowledged, dropped. *)
LookUpMisses ==
  /\ Pending("nodes") /\ "nodes" \notin busy
  /\ cache[Key(Event("nodes"))] = 0
  /\ graphStale' = graphStale \cup DOMAIN Event("nodes").nodes
  /\ Done("nodes")
  /\ UNCHANGED <<watcherVars, parsedFile, embeddedNodes, busy, known, records, cache,
                 graph, edges, vec, vecStale>>

UpsertNodes ==
  /\ "nodes" \in busy
  /\ graph' = [n \in Nodes |->
                 IF n \in DOMAIN records
                   THEN [hash |-> records[n].hash, body |-> records[n].body, active |-> TRUE]
                   ELSE graph[n]]
  /\ graphStale' = graphStale \ DOMAIN records
  /\ records' = Nothing
  /\ busy' = busy \ {"nodes"}
  /\ Done("nodes")
  /\ UNCHANGED <<watcherVars, parsedFile, embeddedNodes, known, cache, edges, vec,
                 vecStale>>

(***************************************************************************)
(* Vector-writer: two consumers, upserts and deletes.                      *)
(***************************************************************************)
(* Mutant of UpsertPoints: a point that exists is left alone. *)
InsertPoints ==
  /\ Pending("vectors")
  /\ LET new == Event("vectors").nodes IN
       /\ vec' = [n \in Nodes |-> IF n \in DOMAIN new /\ vec[n] = Absent
                                   THEN new[n] ELSE vec[n]]
       /\ vecStale' = vecStale \ DOMAIN new
  /\ Done("vectors")
  /\ UNCHANGED <<watcherVars, parsedFile, embeddedNodes, busy, known, records, cache,
                 graph, edges, graphStale>>

UpsertPoints ==
  /\ Pending("vectors")
  /\ LET new == Event("vectors").nodes IN
       /\ vec' = [n \in Nodes |-> IF n \in DOMAIN new THEN new[n] ELSE vec[n]]
       /\ vecStale' = vecStale \ DOMAIN new
  /\ Done("vectors")
  /\ UNCHANGED <<watcherVars, parsedFile, embeddedNodes, busy, known, records, cache,
                 graph, edges, graphStale>>

(* Mutant of DeletePoints: it also drops the points it should keep. *)
DeletePointsAndChanged ==
  /\ Pending("vdelete")
  /\ LET gone == Mentioned(Event("vdelete")) IN
       /\ vec' = [n \in Nodes |-> IF n \in gone THEN Absent ELSE vec[n]]
       /\ vecStale' = vecStale \ gone
  /\ Done("vdelete")
  /\ UNCHANGED <<watcherVars, parsedFile, embeddedNodes, busy, known, records, cache,
                 graph, edges, graphStale>>

DeletePoints ==
  /\ Pending("vdelete")
  /\ LET gone == Event("vdelete").deleted IN
       /\ vec' = [n \in Nodes |-> IF n \in gone THEN Absent ELSE vec[n]]
       /\ vecStale' = vecStale \ gone
  /\ Done("vdelete")
  /\ UNCHANGED <<watcherVars, parsedFile, embeddedNodes, busy, known, records, cache,
                 graph, edges, graphStale>>

(***************************************************************************)
(* Failures.                                                               *)
(***************************************************************************)
(* The nodes whose graph or vector entry depends on the lost event.        *)
GraphNeeds(g, e) ==
  IF g = "parser" THEN Mentioned(e)
  ELSE IF g = "edges" THEN e.deleted
  ELSE IF g \in {"embedder", "nodes"} THEN DOMAIN e.nodes ELSE {}
VectorNeeds(g, e) ==
  IF g = "parser" THEN e.changed \cup e.added
  ELSE IF g = "vdelete" THEN e.deleted
  ELSE IF g \in {"embedder", "vectors"} THEN DOMAIN e.nodes ELSE {}

StepsOf(g) == IF g = "edges" THEN {"edges", "tombstone"} ELSE {g}

(* A group loses the events after its position up to m: one when a handler *)
(* raises, the rest of a batch when its process dies.                      *)
LostUpTo(m) ==
  LET lost == [g \in Groups |-> {Stream(g)[i] : i \in read[g] + 1 .. m[g]}] IN
  /\ faults < MaxFaults /\ faults' = faults + 1
  /\ read' = m
  /\ graphStale' = graphStale \cup
       UNION {UNION {GraphNeeds(g, e) : e \in lost[g]} : g \in Groups}
  /\ vecStale' = vecStale \cup
       UNION {UNION {VectorNeeds(g, e) : e \in lost[g]} : g \in Groups}
  /\ UNCHANGED <<commits, lastSha, scan, fileChanged, scans, torn, ghost, parsedFile,
                 embeddedNodes, graph, edges, vec>>

InBatch(g) == {i \in read[g] .. Len(Stream(g)) : i <= read[g] + Batch}

Lose(g) ==
  /\ \E i \in InBatch(g) \ {read[g]} : LostUpTo([read EXCEPT ![g] = i])
  /\ busy' = busy \ StepsOf(g)
  /\ known' = IF g = "embedder" THEN [n \in Nodes |-> Absent] ELSE known
  /\ records' = IF g = "nodes" THEN Nothing ELSE records
  /\ UNCHANGED cache

(* The graph-writer restarts: both consumers and the cache go.             *)
GraphWriterRestart ==
  /\ \E i \in InBatch("edges"), j \in InBatch("nodes") :
       /\ LostUpTo([read EXCEPT !["edges"] = i, !["nodes"] = j])
       /\ busy \cap {"edges", "tombstone"} # {} => i > read["edges"]
       /\ "nodes" \in busy => j > read["nodes"]
  /\ busy' = busy \ {"edges", "tombstone", "nodes"}
  /\ cache' = EmptyCache
  /\ records' = Nothing
  /\ UNCHANGED known

-----------------------------------------------------------------------------
Handlers ==
  \/ Parse \/ ParseMissingFile
  \/ ReadHashes \/ EmbedAndEmit
  \/ CacheParsed \/ UpsertEdges \/ Tombstone
  \/ LookUp \/ LookUpMisses \/ UpsertNodes
  \/ UpsertPoints \/ DeletePoints

Next == Watch \/ Handlers \/ (\E g \in Groups : Lose(g)) \/ GraphWriterRestart

Spec == Init /\ [][Next]_vars

(* Every consumer is a loop that keeps running while its process does.     *)
(* Less is assumed: of the consumers with something to do, one does it.    *)
Progress == WF_<<read, busy>>(Handlers)

(* run_watcher loops for ever and catches every exception of a run.        *)
Polling == \A s \in Scanners : WF_scan((Poll(s) \/ Work(s)) /\ UNCHANGED pipeVars)
FairSpec == Spec /\ Progress /\ Polling

-----------------------------------------------------------------------------
(* Properties.                                                             *)

Settled == Quiescent /\ lastSha = Tip

(* When a commit is indexed and the queues are empty, Neo4j's active nodes *)
(* are the nodes of HEAD, at their present hash, but for the nodes one of  *)
(* whose events was lost, missed the cache or was skipped as known; and a  *)
(* node that vanished without a word may stay.                             *)
GraphMatchesTip ==
  Settled => \A n \in Nodes \ (graphStale \cup torn) :
    LET v == TreeAt(Tip)[n]
    IN  (v = Absent => n \notin ghost) => (IF Active(n) THEN graph[n].hash ELSE Absent) = v

(* The same for the vectors in Qdrant.                                     *)
VectorsMatchTip ==
  Settled => \A n \in Nodes \ (vecStale \cup torn) :
    LET v == TreeAt(Tip)[n] IN (v = Absent => n \notin ghost) => vec[n] = v

(* Even with commits pouring in, the two stores end up with the same       *)
(* version of a node they both have: the two consumers of embedded-nodes   *)
(* apply the same events in the same order.                                *)
StoresAgree ==
  Quiescent => \A n \in Nodes \ (graphStale \cup vecStale) :
                 Active(n) /\ vec[n] # Absent => graph[n].hash = vec[n]

(* Without failures the body stored with a node is the body its node_hash  *)
(* and embedding were computed from, although they reach the node consumer *)
(* by different streams and through a cache.  (A run of the watcher that   *)
(* fails after an event repeats it under the same cache key, and the       *)
(* parser may then read a newer file: with faults this does not hold, nor  *)
(* when a rescan, or two runs at once, index a commit again.)              *)
BodyMatchesHash ==
  faults = 0 => \A n \in Nodes : graph[n].hash = graph[n].body

(* The present version of n never gave way to another and came back, and   *)
(* n was never removed and added again.                                    *)
Unrepeated(n) ==
  \A i, j \in DOMAIN commits :
    i < j => /\ commits[i][n] # Absent => commits[j][n] # Absent
             /\ commits[i][n] = TreeAt(Tip)[n] => commits[j][n] = commits[i][n]

(* Without failures, once commits stop coming, every such node of HEAD     *)
(* ends up, and stays, searchable under its present version, however far   *)
(* the consumers have fallen behind one another.  Neither condition can go *)
(* while commits overlap.  A version that comes back is skipped as known   *)
(* when the embedder reads its hash before the node consumer has written   *)
(* the version in between, which then stays.  A deletion still waiting in  *)
(* the group of vector deletes takes away the point of a node added again. *)
EventuallySearchable ==
  <>[](faults = 0 => \A n \in Nodes : TreeAt(Tip)[n] # Absent /\ Unrepeated(n)
                       => vec[n] = TreeAt(Tip)[n])
=============================================================================
