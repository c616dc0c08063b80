------------------------ MODULE IndexPipeline_proofs ------------------------
(***************************************************************************)
(* Proofs about IndexPipeline, for any repository, consumers' batches and  *)
(* faults: its types; that the two stores agree; that body and hash belong *)
(* together; and that both stores show the indexed commit when commits     *)
(* wait for one another.                                                   *)
(***************************************************************************)
EXTENDS IndexPipeline, RepoWatcher_proofs

(* What each group reads. *)
LEMMA StreamIs ==
  /\ Stream("parser") = fileChanged /\ Stream("vdelete") = fileChanged
  /\ Stream("embedder") = parsedFile /\ Stream("edges") = parsedFile
  /\ Stream("nodes") = embeddedNodes /\ Stream("vectors") = embeddedNodes
  BY DEF Stream

LEMMA Distinct == Absent \notin Hashes
  BY TreesAssumption

-----------------------------------------------------------------------------
(* Types.                                                                  *)

ParsedEvents ==
  [file : Files, sha : 1 .. MaxCommits, nodes : Versions,
   calls : SUBSET (Nodes \X Nodes), deleted : SUBSET Nodes]
EmbeddedEvents == [file : Files, sha : 1 .. MaxCommits, nodes : Versions]
Records == [hash : Hashes, body : Hashes]
Stored == [hash : Hashes, body : Hashes, active : BOOLEAN] \cup {NoNode}

StreamType ==
  /\ fileChanged \in Seq(Events)
  /\ parsedFile \in Seq(ParsedEvents)
  /\ embeddedNodes \in Seq(EmbeddedEvents)
  /\ read \in [Groups -> Nat]
  /\ \A g \in Groups : read[g] <= Len(Stream(g))

(* A handler between two steps has its event before it. *)
HandType ==
  /\ busy \subseteq {"embedder", "edges", "tombstone", "nodes"}
  /\ "embedder" \in busy => Pending("embedder")
  /\ "edges" \in busy \/ "tombstone" \in busy => Pending("edges")
  /\ ~ ({"edges", "tombstone"} \subseteq busy)
  /\ "nodes" \in busy => Pending("nodes")
  /\ known \in [Nodes -> Hashes \cup {Absent}]
  /\ DOMAIN records \subseteq Nodes
  /\ records \in [DOMAIN records -> Records]
  /\ cache \in [Keys -> Nat]
  /\ \A k \in Keys : cache[k] <= Len(parsedFile)

StoreType ==
  /\ graph \in [Nodes -> Stored]
  /\ edges \subseteq {n \in Nodes : InGraph(n)} \X {n \in Nodes : InGraph(n)}
  /\ vec \in [Nodes -> Hashes \cup {Absent}]
  /\ graphStale \subseteq Nodes /\ vecStale \subseteq Nodes

PipeInv == TypeInv /\ StreamType /\ HandType /\ StoreType

LEMMA PipeInvTypes == PipeInv => TypeOK
<1> SUFFICES ASSUME PipeInv PROVE TypeOK
  OBVIOUS
<1>1. \E S \in SUBSET Nodes : records \in [S -> [hash : Hashes, body : Hashes]]
  BY DEF PipeInv, HandType, Records
<1> QED
  BY <1>1 DEF PipeInv, TypeInv, StreamType, HandType, StoreType, TypeOK, ParsedEvents,
              EmbeddedEvents, Stored

LEMMA VersionIs ==
  ASSUME NEW v \in Versions
  PROVE  DOMAIN v \subseteq Nodes /\ \A n \in DOMAIN v : v[n] \in Hashes
  BY DEF Versions

LEMMA IsVersion ==
  ASSUME NEW S \in SUBSET Nodes, NEW v \in [S -> Hashes]
  PROVE  v \in Versions
  BY DEF Versions

LEMMA InitPipe == Init => PipeInv
<1> SUFFICES ASSUME Init PROVE PipeInv
  OBVIOUS
<1>1. TypeInv /\ fileChanged = <<>>
  BY InitType DEF Init, WatcherInit
<1>2. StreamType
  BY <1>1 DEF Init, StreamType, Stream, Groups
<1>3. HandType
  <2>1. DOMAIN records = {}
    BY DEF Init, Nothing
  <2>2. records \in [DOMAIN records -> Records]
    BY <2>1 DEF Init, Nothing
  <2> QED
    BY <2>1, <2>2 DEF Init, HandType, EmptyCache
<1>4. StoreType
  BY DEF Init, StoreType, Stored
<1> QED
  BY <1>1, <1>2, <1>3, <1>4 DEF PipeInv

(* What the pipeline does of the watcher's variables is to count faults.   *)
LEMMA WatcherKept ==
  ASSUME TypeInv, faults' \in 0 .. MaxFaults,
         UNCHANGED <<commits, lastSha, scan, fileChanged, scans, torn, ghost>>
  PROVE  TypeInv'
  BY DEF TypeInv, WatcherTypeOK, Known, Tip

(* The watcher only ever appends to its stream. *)
LEMMA WatcherAppends ==
  ASSUME TypeInv, Commit \/ \E s \in Scanners : WatcherStep(s)
  PROVE  fileChanged' = fileChanged \/ \E e \in Events : fileChanged' = Append(fileChanged, e)
<1>1. ASSUME NEW s \in Scanners, Emit(s)
      PROVE  \E e \in Events : fileChanged' = Append(fileChanged, e)
  <2> DEFINE e == EventFor(NextFile(s), scan[s].prev, scan[s].cur)
  <2>1. scan[s].cur \in 1 .. MaxCommits
    BY <1>1 DEF Emit, TypeInv, WatcherTypeOK, Known
  <2>2. NextFile(s) \in Files
    BY <1>1, NextIsLeft DEF Emit
  <2>3. e \in Events
    BY <2>1, <2>2, EventNames
  <2>4. fileChanged' = Append(fileChanged, e)
    BY <1>1 DEF Emit
  <2> QED
    BY <2>3, <2>4
<1>2. ASSUME NEW s \in Scanners, WatcherStep(s), ~ Emit(s) PROVE fileChanged' = fileChanged
  BY <1>2 DEF WatcherStep, Work, Hook, Poll, Index, Rescan, Begins, ListFiles, Save, Abandon
<1>3. Commit => fileChanged' = fileChanged
  BY DEF Commit
<1> QED
  BY <1>1, <1>2, <1>3

LEMMA WatchType == PipeInv /\ Watch => PipeInv'
<1> SUFFICES ASSUME PipeInv, Watch PROVE PipeInv'
  OBVIOUS
<1>1. Commit \/ \E s \in Scanners : WatcherStep(s)
  BY DEF Watch
<1>2. TypeInv'
  BY <1>1, CommitType, BeginType, ListType, EmitType, EndType DEF WatcherStep, Work, PipeInv
<1>3. UNCHANGED pipeVars
  BY DEF Watch
<1>4. fileChanged' \in Seq(Events) /\ Len(fileChanged) <= Len(fileChanged')
  <2>1. fileChanged \in Seq(Events)
    BY DEF PipeInv, StreamType
  <2> QED
    BY <1>1, <2>1, WatcherAppends DEF PipeInv
<1>5. StreamType'
  BY <1>3, <1>4 DEF PipeInv, StreamType, pipeVars, Stream, Groups
<1>6. HandType' /\ StoreType'
  BY <1>3 DEF PipeInv, HandType, StoreType, pipeVars, Pending, Stream, InGraph
<1> QED
  BY <1>2, <1>5, <1>6 DEF PipeInv

-----------------------------------------------------------------------------
(* A group that is done with an event moves on by one. *)
LEMMA DoneReads ==
  ASSUME StreamType, NEW g \in Groups, Pending(g), Done(g),
         UNCHANGED <<fileChanged, parsedFile, embeddedNodes>>
  PROVE  /\ StreamType'
         /\ read' = [read EXCEPT ![g] = read[g] + 1]
         /\ read'[g] = read[g] + 1 /\ \A h \in Groups : h # g => read'[h] = read[h]
<1>1. read \in [Groups -> Nat] /\ read[g] \in Nat
  BY DEF StreamType
<1>2. Len(Stream(g)) \in Nat
  BY DEF StreamType, Stream
<1>3. read'[g] = read[g] + 1 /\ \A h \in Groups : h # g => read'[h] = read[h]
  BY <1>1 DEF Done
<1>4. \A h \in Groups : Stream(h)' = Stream(h)
  BY DEF Stream
<1> QED
  BY <1>1, <1>2, <1>3, <1>4 DEF StreamType, Done, Pending

LEMMA EventType ==
  ASSUME StreamType
  PROVE  /\ Pending("parser") => Event("parser") \in Events
         /\ Pending("vdelete") => Event("vdelete") \in Events
         /\ Pending("embedder") => Event("embedder") \in ParsedEvents
         /\ Pending("edges") => Event("edges") \in ParsedEvents
         /\ Pending("nodes") => Event("nodes") \in EmbeddedEvents
         /\ Pending("vectors") => Event("vectors") \in EmbeddedEvents
  BY DEF StreamType, Pending, Event, Stream, Groups

(* The parser's events are well formed whatever tree it finds.             *)
LEMMA ParsedType ==
  ASSUME NEW e \in Events, NEW t \in Trees
  PROVE  Parsed(e, t) \in ParsedEvents
<1> DEFINE all == Extracted(t, e.file)
           kept == IF e.type = "deleted" THEN {} ELSE Selected(e, all)
           nodes == [n \in kept |-> all[n]]
           calls == {c \in CallsIn(t, e.file) : c[1] \in kept}
<1>1. t \in [Nodes -> Hashes \cup {Absent}]
  BY TreesAssumption
<1>2. DOMAIN all \subseteq Nodes /\ \A n \in DOMAIN all : all[n] \in Hashes
  BY <1>1 DEF Extracted, NodesIn, NodesOf
<1>3. kept \in SUBSET Nodes /\ kept \subseteq DOMAIN all
  <2> HIDE DEF all
  <2> QED
    BY <1>2 DEF Selected
<1>4. nodes \in [kept -> Hashes]
  <2> HIDE DEF all, kept
  <2> QED
    BY <1>2, <1>3
<1>5. nodes \in Versions
  <2> HIDE DEF nodes, kept
  <2> QED
    BY <1>3, <1>4, IsVersion
<1>6. calls \in SUBSET (Nodes \X Nodes)
  <2> HIDE DEF kept
  <2> QED
    BY DEF CallsIn, NodesIn, NodesOf
<1>7. Parsed(e, t) = [file |-> e.file, sha |-> e.sha, nodes |-> nodes, calls |-> calls,
                      deleted |-> e.deleted]
  BY DEF Parsed
<1> HIDE DEF nodes, calls
<1> QED
  BY <1>5, <1>6, <1>7 DEF Events, ParsedEvents

LEMMA ParseType == PipeInv /\ Parse => PipeInv'
<1> SUFFICES ASSUME PipeInv, Parse PROVE PipeInv'
  OBVIOUS
<1> DEFINE p == Parsed(Event("parser"), TreeAt(Tip))
<1>1. p \in ParsedEvents
  <2>1. TreeAt(Tip) \in Trees
    BY DEF PipeInv, TypeInv, WatcherTypeOK, TreeAt, Tip
  <2>2. Event("parser") \in Events
    BY EventType DEF Parse, PipeInv
  <2> QED
    BY <2>1, <2>2, ParsedType
<1> HIDE DEF p
<1>2. parsedFile' = Append(parsedFile, p)
  BY DEF Parse, p
<1>3. /\ Pending("parser") /\ Done("parser")
      /\ UNCHANGED <<embeddedNodes, busy, known, records, cache, graph, edges, vec,
                     graphStale, vecStale>>
      /\ UNCHANGED watcherVars
  BY DEF Parse
<1>4. parsedFile \in Seq(ParsedEvents) /\ read \in [Groups -> Nat]
  BY DEF PipeInv, StreamType
<1>5. parsedFile' \in Seq(ParsedEvents) /\ Len(parsedFile') = Len(parsedFile) + 1
      /\ Len(parsedFile) \in Nat
  BY <1>1, <1>2, <1>4
<1>6. read' \in [Groups -> Nat] /\ read'["parser"] = read["parser"] + 1
      /\ \A g \in Groups \ {"parser"} : read'[g] = read[g]
  BY <1>3, <1>4 DEF Done, Groups
<1>7. StreamType'
  <2>1. \A g \in Groups : read'[g] <= Len(Stream(g)')
    BY <1>3, <1>5, <1>6 DEF PipeInv, StreamType, Pending, Stream, Groups, watcherVars
  <2> QED
    BY <1>3, <1>5, <1>6, <2>1 DEF PipeInv, StreamType, watcherVars
<1>8. HandType'
  BY <1>3, <1>5, <1>6 DEF PipeInv, HandType, Pending, Stream, Groups
<1>9. TypeInv' /\ StoreType'
  <2>1. UNCHANGED <<commits, lastSha, scan, fileChanged, scans, torn, ghost>> /\ faults' = faults
    BY <1>3 DEF watcherVars
  <2>2. TypeInv'
    BY <2>1, WatcherKept DEF PipeInv, TypeInv, WatcherTypeOK
  <2> QED
    BY <1>3, <2>2 DEF PipeInv, StoreType, InGraph
<1> QED
  BY <1>7, <1>8, <1>9 DEF PipeInv

(* The other steps of the watcher's variables: none but faults. *)
LEMMA WatcherSame == ASSUME PipeInv, UNCHANGED watcherVars PROVE TypeInv'
<1>1. UNCHANGED <<commits, lastSha, scan, fileChanged, scans, torn, ghost>> /\ faults' = faults
  BY DEF watcherVars
<1> QED
  BY <1>1, WatcherKept DEF PipeInv, TypeInv, WatcherTypeOK

(* What a step of one group leaves to the others. *)
LEMMA HandKept ==
  ASSUME PipeInv, NEW g \in Groups, Pending(g), Done(g),
         UNCHANGED <<fileChanged, parsedFile, embeddedNodes>>
  PROVE  \A h \in Groups \ {g} : Pending(h)' = Pending(h)
<1>1. \A h \in Groups \ {g} : read'[h] = read[h]
  BY DoneReads DEF PipeInv
<1> QED
  BY <1>1 DEF Pending, Stream

LEMMA MissingType == PipeInv /\ ParseMissingFile => PipeInv'
<1> SUFFICES ASSUME PipeInv, ParseMissingFile PROVE PipeInv'
  OBVIOUS
<1>1. /\ Pending("parser") /\ Done("parser") /\ "parser" \in Groups
      /\ UNCHANGED <<fileChanged, parsedFile, embeddedNodes>>
      /\ UNCHANGED watcherVars
      /\ UNCHANGED <<busy, known, records, cache, graph, edges, vec>>
  BY DEF ParseMissingFile, Groups, watcherVars
<1>2. Event("parser") \in Events
  BY <1>1, EventType DEF PipeInv
<1>3. graphStale' \subseteq Nodes /\ vecStale' \subseteq Nodes
  BY <1>2 DEF ParseMissingFile, PipeInv, StoreType, Mentioned, Events
<1>4. \A h \in {"embedder", "edges", "nodes"} : Pending(h)' = Pending(h)
  BY <1>1, HandKept DEF Groups
<1>5. StreamType' /\ TypeInv'
  BY <1>1, DoneReads, WatcherSame DEF PipeInv
<1>6. HandType'
  BY <1>1, <1>4 DEF PipeInv, HandType
<1>7. StoreType'
  BY <1>1, <1>3 DEF PipeInv, StoreType, InGraph
<1> QED
  BY <1>5, <1>6, <1>7 DEF PipeInv

LEMMA ReadHashesType == PipeInv /\ ReadHashes => PipeInv'
<1> SUFFICES ASSUME PipeInv, ReadHashes PROVE PipeInv'
  OBVIOUS
<1>1. /\ Pending("embedder") /\ busy' = busy \cup {"embedder"}
      /\ UNCHANGED <<commits, lastSha, scan, fileChanged, scans, torn, ghost>>
      /\ UNCHANGED <<parsedFile, embeddedNodes, read, records, cache, graph, edges, vec,
                     graphStale, vecStale>>
  BY DEF ReadHashes
<1>2. known' \in [Nodes -> Hashes \cup {Absent}]
  <2>1. \A n \in Nodes : graph[n].hash \in Hashes \cup {Absent}
    BY DEF PipeInv, StoreType, Stored, NoNode
  <2> QED
    BY <2>1 DEF ReadHashes
<1>3. faults' \in 0 .. MaxFaults
  BY Bounds DEF ReadHashes, PipeInv, TypeInv, WatcherTypeOK
<1>4. TypeInv'
  BY <1>1, <1>3, WatcherKept DEF PipeInv
<1>5. StreamType' /\ StoreType'
  BY <1>1 DEF PipeInv, StreamType, StoreType, Stream, InGraph
<1>6. HandType'
  BY <1>1, <1>2 DEF PipeInv, HandType, Pending, Stream
<1> QED
  BY <1>4, <1>5, <1>6 DEF PipeInv

(* What the embedder sends is part of what it was sent.                    *)
LEMMA EmbeddedType ==
  ASSUME NEW e \in ParsedEvents
  PROVE  [file |-> e.file, sha |-> e.sha, nodes |-> [n \in ToEmbed(e) |-> e.nodes[n]]]
           \in EmbeddedEvents
<1> DEFINE v == [n \in ToEmbed(e) |-> e.nodes[n]]
<1>1. e.nodes \in Versions
  BY DEF ParsedEvents
<1>2. ToEmbed(e) \in SUBSET Nodes /\ \A n \in ToEmbed(e) : e.nodes[n] \in Hashes
  BY <1>1, VersionIs DEF ToEmbed
<1>3. v \in [ToEmbed(e) -> Hashes]
  BY <1>2
<1> HIDE DEF v
<1>4. v \in Versions
  BY <1>2, <1>3, IsVersion
<1>5. [file |-> e.file, sha |-> e.sha, nodes |-> v] \in EmbeddedEvents
  BY <1>4 DEF ParsedEvents, EmbeddedEvents
<1> QED
  BY <1>5 DEF v

LEMMA EmbedType == PipeInv /\ EmbedAndEmit => PipeInv'
<1> SUFFICES ASSUME PipeInv, EmbedAndEmit PROVE PipeInv'
  OBVIOUS
<1> DEFINE e == Event("embedder")
           x == [file |-> e.file, sha |-> e.sha, nodes |-> [n \in ToEmbed(e) |-> e.nodes[n]]]
<1>1. /\ Pending("embedder") /\ Done("embedder") /\ busy' = busy \ {"embedder"}
      /\ UNCHANGED watcherVars
      /\ UNCHANGED <<parsedFile, records, cache, graph, edges, vec>>
      /\ embeddedNodes' = Append(embeddedNodes, x)
  BY DEF EmbedAndEmit, PipeInv, HandType
<1>2. e \in ParsedEvents
  BY <1>1, EventType DEF PipeInv
<1>3. x \in EmbeddedEvents
  BY <1>2, EmbeddedType
<1>4. graphStale' \subseteq Nodes /\ vecStale' \subseteq Nodes
  <2>1. DOMAIN e.nodes \subseteq Nodes
    BY <1>2, VersionIs DEF ParsedEvents
  <2> QED
    BY <2>1 DEF EmbedAndEmit, PipeInv, StoreType
<1>5. known' \in [Nodes -> Hashes \cup {Absent}]
  BY DEF EmbedAndEmit
<1> HIDE DEF x, e
<1>6. embeddedNodes \in Seq(EmbeddedEvents) /\ read \in [Groups -> Nat]
  BY DEF PipeInv, StreamType
<1>7. embeddedNodes' \in Seq(EmbeddedEvents) /\ Len(embeddedNodes') = Len(embeddedNodes) + 1
      /\ Len(embeddedNodes) \in Nat
  BY <1>1, <1>3, <1>6
<1>8. read' \in [Groups -> Nat] /\ read'["embedder"] = read["embedder"] + 1
      /\ \A g \in Groups \ {"embedder"} : read'[g] = read[g]
  BY <1>1, <1>6 DEF Done, Groups
<1>9. StreamType'
  <2>1. \A g \in Groups : read'[g] <= Len(Stream(g)')
    BY <1>1, <1>7, <1>8 DEF PipeInv, StreamType, Pending, Stream, Groups, watcherVars
  <2> QED
    BY <1>1, <1>7, <1>8, <2>1 DEF PipeInv, StreamType, watcherVars
<1>10. HandType'
  BY <1>1, <1>5, <1>7, <1>8 DEF PipeInv, HandType, Pending, Stream, Groups
<1>11. StoreType' /\ TypeInv'
  BY <1>1, <1>4, WatcherSame DEF PipeInv, StoreType, InGraph
<1> QED
  BY <1>9, <1>10, <1>11 DEF PipeInv

LEMMA CacheType == PipeInv /\ CacheParsed => PipeInv'
<1> SUFFICES ASSUME PipeInv, CacheParsed PROVE PipeInv'
  OBVIOUS
<1>1. /\ Pending("edges") /\ busy' = busy \cup {"edges"} /\ "tombstone" \notin busy
      /\ cache' = [cache EXCEPT ![Key(Event("edges"))] = read["edges"] + 1]
      /\ UNCHANGED watcherVars
      /\ UNCHANGED <<parsedFile, embeddedNodes, read, known, records, graph, edges, vec,
                     graphStale, vecStale>>
  BY DEF CacheParsed
<1>2. read["edges"] + 1 \in Nat /\ read["edges"] + 1 <= Len(parsedFile)
  BY <1>1 DEF PipeInv, StreamType, Pending, Stream, Groups
<1>3. cache' \in [Keys -> Nat] /\ \A k \in Keys : cache'[k] <= Len(parsedFile)
  BY <1>1, <1>2 DEF PipeInv, HandType
<1>4. HandType'
  BY <1>1, <1>3 DEF PipeInv, HandType, Pending, Stream
<1>5. StreamType' /\ StoreType' /\ TypeInv'
  BY <1>1, WatcherSame DEF PipeInv, StreamType, StoreType, Stream, InGraph, watcherVars
<1> QED
  BY <1>4, <1>5 DEF PipeInv

LEMMA EdgesType == PipeInv /\ UpsertEdges => PipeInv'
<1> SUFFICES ASSUME PipeInv, UpsertEdges PROVE PipeInv'
  OBVIOUS
<1> DEFINE e == Event("edges")
<1>1. /\ Pending("edges")
      /\ edges' = edges \cup {c \in e.calls : InGraph(c[1]) /\ InGraph(c[2])}
      /\ \/ busy' = busy \ {"edges"} /\ Done("edges")
         \/ busy' = (busy \ {"edges"}) \cup {"tombstone"} /\ UNCHANGED read
      /\ UNCHANGED watcherVars
      /\ UNCHANGED <<parsedFile, embeddedNodes, known, records, cache, graph, vec,
                     graphStale, vecStale>>
  BY DEF UpsertEdges, PipeInv, HandType
<1>2. e.calls \subseteq Nodes \X Nodes
  BY <1>1, EventType DEF PipeInv, ParsedEvents
<1> HIDE DEF e
<1>3. edges' \subseteq {n \in Nodes : InGraph(n)} \X {n \in Nodes : InGraph(n)}
  BY <1>1, <1>2 DEF PipeInv, StoreType
<1>4. StoreType' /\ TypeInv'
  BY <1>1, <1>3, WatcherSame DEF PipeInv, StoreType, InGraph
<1>5. UNCHANGED <<fileChanged, parsedFile, embeddedNodes>>
  BY <1>1 DEF watcherVars
<1>6. CASE busy' = busy \ {"edges"} /\ Done("edges")
  <2>1. StreamType' /\ \A h \in {"embedder", "nodes"} : Pending(h)' = Pending(h)
    BY <1>1, <1>5, <1>6, DoneReads, HandKept DEF PipeInv, Groups
  <2>2. "tombstone" \notin busy
    BY DEF UpsertEdges, PipeInv, HandType
  <2>3. HandType'
    BY <1>1, <1>5, <1>6, <2>1, <2>2 DEF PipeInv, HandType
  <2> QED
    BY <1>4, <2>1, <2>3 DEF PipeInv
<1>7. CASE busy' = (busy \ {"edges"}) \cup {"tombstone"} /\ UNCHANGED read
  <2>1. StreamType' /\ HandType'
    BY <1>1, <1>5, <1>7 DEF PipeInv, StreamType, HandType, Stream, Pending
  <2> QED
    BY <1>4, <2>1 DEF PipeInv
<1> QED
  BY <1>1, <1>6, <1>7

(* Records are equal when their fields are. *)
LEMMA SameRecord ==
  ASSUME NEW H, NEW A, NEW r \in [hash : H, body : H, active : A],
         NEW q \in [hash : H, body : H, active : A],
         r.hash = q.hash, r.body = q.body, r.active = q.active
  PROVE  r = q
  OBVIOUS

LEMMA NoNodeInactive == [NoNode EXCEPT !.active = FALSE] = NoNode
<1> DEFINE r == [NoNode EXCEPT !.active = FALSE]
           one == [hash : {Absent}, body : {Absent}, active : {FALSE}]
<1>1. r \in one /\ NoNode \in one
  BY DEF NoNode
<1> HIDE DEF r
<1>2. r.hash = NoNode.hash /\ r.body = NoNode.body
  BY <1>1
<1>3. r.active = NoNode.active
  BY <1>1, Zenon
<1>4. r = NoNode
  BY <1>1, <1>2, <1>3, SameRecord, Zenon
<1> QED
  BY <1>4 DEF r

(* A tombstone keeps the hash and the body, and so does nothing to a node  *)
(* the graph has never seen.                                               *)
LEMMA TombstoneType == PipeInv /\ Tombstone => PipeInv'
<1> SUFFICES ASSUME PipeInv, Tombstone PROVE PipeInv'
  OBVIOUS
<1> DEFINE gone == Event("edges").deleted
<1>1. /\ Pending("edges") /\ busy' = busy \ {"tombstone"} /\ Done("edges")
      /\ graph' = [n \in Nodes |-> [graph[n] EXCEPT !.active = @ /\ n \notin gone]]
      /\ edges' = edges \ Detached(gone)
      /\ graphStale' = graphStale \ gone
      /\ UNCHANGED watcherVars
      /\ UNCHANGED <<parsedFile, embeddedNodes, known, records, cache, vec, vecStale>>
      /\ UNCHANGED <<fileChanged, parsedFile, embeddedNodes>>
  BY DEF Tombstone, PipeInv, HandType, watcherVars
<1> HIDE DEF gone
<1>2. ASSUME NEW n \in Nodes PROVE graph'[n] \in Stored /\ graph'[n].hash = graph[n].hash
  <2>1. graph[n] \in Stored
    BY DEF PipeInv, StoreType
  <2>2. graph'[n] = [graph[n] EXCEPT !.active = graph[n].active /\ n \notin gone]
    BY <1>1
  <2>3. CASE graph[n] = NoNode
    <3>1. (graph[n].active /\ n \notin gone) = FALSE
      BY <2>3 DEF NoNode
    <3>2. graph'[n] = [graph[n] EXCEPT !.active = FALSE]
      BY <2>2, <3>1
    <3>3. [NoNode EXCEPT !.active = FALSE] = NoNode
      BY NoNodeInactive
    <3> QED
      BY <2>3, <3>2, <3>3 DEF Stored
  <2>4. CASE graph[n] \in [hash : Hashes, body : Hashes, active : BOOLEAN]
    BY <2>2, <2>4 DEF Stored
  <2> QED
    BY <2>1, <2>3, <2>4 DEF Stored
<1>3. graph' \in [Nodes -> Stored]
  BY <1>1, <1>2
<1>4. StoreType'
  BY <1>1, <1>2, <1>3 DEF PipeInv, StoreType, InGraph
<1>5. StreamType' /\ \A h \in {"embedder", "nodes"} : Pending(h)' = Pending(h)
  BY <1>1, DoneReads, HandKept DEF PipeInv, Groups
<1>6. "edges" \notin busy
  BY DEF Tombstone, PipeInv, HandType
<1>7. HandType'
  BY <1>1, <1>5, <1>6 DEF PipeInv, HandType
<1> QED
  BY <1>1, <1>4, <1>5, <1>7, WatcherSame DEF PipeInv

(* What the node consumer finds in the cache are records of nodes.         *)
LEMMA JoinedType ==
  ASSUME NEW e \in EmbeddedEvents, NEW p \in ParsedEvents
  PROVE  /\ DOMAIN Joined(e, p) \subseteq Nodes
         /\ Joined(e, p) \in [DOMAIN Joined(e, p) -> Records]
<1>1. e.nodes \in Versions /\ p.nodes \in Versions
  BY DEF EmbeddedEvents, ParsedEvents
<1>2. \A n \in DOMAIN e.nodes \cap DOMAIN p.nodes :
        n \in Nodes /\ e.nodes[n] \in Hashes /\ p.nodes[n] \in Hashes
  BY <1>1, VersionIs
<1>3. \A a, b \in Hashes : [hash |-> a, body |-> b] \in Records
  BY DEF Records
<1> QED
  BY <1>2, <1>3 DEF Joined

LEMMA LookUpType == PipeInv /\ LookUp => PipeInv'
<1> SUFFICES ASSUME PipeInv, LookUp PROVE PipeInv'
  OBVIOUS
<1> DEFINE e == Event("nodes")
           at == cache[Key(e)]
<1>1. /\ Pending("nodes") /\ busy' = busy \cup {"nodes"} /\ at # 0
      /\ records' = Joined(e, parsedFile[at])
      /\ graphStale' = graphStale \cup (DOMAIN e.nodes \ DOMAIN parsedFile[at].nodes)
      /\ UNCHANGED watcherVars
      /\ UNCHANGED <<parsedFile, embeddedNodes, read, known, cache, graph, edges, vec, vecStale>>
  BY DEF LookUp
<1>2. e \in EmbeddedEvents
  BY <1>1, EventType DEF PipeInv
<1>3. parsedFile[at] \in ParsedEvents
  <2>1. Key(e) \in Keys
    BY <1>2 DEF EmbeddedEvents, Key, Keys
  <2>2. at \in Nat /\ at <= Len(parsedFile)
    BY <2>1 DEF PipeInv, HandType
  <2>3. at \in DOMAIN parsedFile
    BY <1>1, <2>2 DEF PipeInv, StreamType
  <2> QED
    BY <2>3 DEF PipeInv, StreamType
<1> HIDE DEF at
<1>4. DOMAIN e.nodes \subseteq Nodes
  BY <1>2, VersionIs DEF EmbeddedEvents
<1> HIDE DEF e
<1>5. DOMAIN records' \subseteq Nodes /\ records' \in [DOMAIN records' -> Records]
  BY <1>1, <1>2, <1>3, JoinedType
<1>6. HandType'
  BY <1>1, <1>5 DEF PipeInv, HandType, Pending, Stream
<1>7. StoreType' /\ StreamType' /\ TypeInv'
  BY <1>1, <1>4, WatcherSame DEF PipeInv, StoreType, StreamType, Stream, InGraph, watcherVars
<1> QED
  BY <1>6, <1>7 DEF PipeInv

LEMMA MissType == PipeInv /\ LookUpMisses => PipeInv'
<1> SUFFICES ASSUME PipeInv, LookUpMisses PROVE PipeInv'
  OBVIOUS
<1>1. /\ Pending("nodes") /\ Done("nodes") /\ "nodes" \notin busy
      /\ graphStale' = graphStale \cup DOMAIN Event("nodes").nodes
      /\ UNCHANGED watcherVars
      /\ UNCHANGED <<busy, known, records, cache, graph, edges, vec, vecStale>>
      /\ UNCHANGED <<fileChanged, parsedFile, embeddedNodes>>
  BY DEF LookUpMisses, watcherVars
<1>2. DOMAIN Event("nodes").nodes \subseteq Nodes
  BY <1>1, EventType, VersionIs DEF PipeInv, EmbeddedEvents
<1>3. StreamType' /\ \A h \in {"embedder", "edges"} : Pending(h)' = Pending(h)
  BY <1>1, DoneReads, HandKept DEF PipeInv, Groups
<1>4. HandType' /\ StoreType'
  BY <1>1, <1>2, <1>3 DEF PipeInv, HandType, StoreType, InGraph
<1> QED
  BY <1>1, <1>3, <1>4, WatcherSame DEF PipeInv

LEMMA UpsertType == PipeInv /\ UpsertNodes => PipeInv'
<1> SUFFICES ASSUME PipeInv, UpsertNodes PROVE PipeInv'
  OBVIOUS
<1>1. /\ Pending("nodes") /\ Done("nodes") /\ busy' = busy \ {"nodes"}
      /\ graph' = [n \in Nodes |->
                    IF n \in DOMAIN records
                      THEN [hash |-> records[n].hash, body |-> records[n].body, active |-> TRUE]
                      ELSE graph[n]]
      /\ graphStale' = graphStale \ DOMAIN records
      /\ records' = Nothing
      /\ UNCHANGED watcherVars
      /\ UNCHANGED <<known, cache, edges, vec, vecStale>>
      /\ UNCHANGED <<fileChanged, parsedFile, embeddedNodes>>
  BY DEF UpsertNodes, PipeInv, HandType, watcherVars
<1>2. records \in [DOMAIN records -> Records]
  BY DEF PipeInv, HandType
<1>3. \A n \in DOMAIN records : records[n].hash \in Hashes /\ records[n].body \in Hashes
  BY <1>2 DEF Records
<1>4. graph' \in [Nodes -> Stored]
  <2>1. \A a, b \in Hashes : [hash |-> a, body |-> b, active |-> TRUE] \in Stored
    BY DEF Stored
  <2>2. graph \in [Nodes -> Stored]
    BY DEF PipeInv, StoreType
  <2>3. \A n \in Nodes : graph'[n] \in Stored
    BY <1>1, <1>3, <2>1, <2>2
  <2> QED
    BY <1>1, <2>3
<1>5. \A n \in Nodes : InGraph(n) => graph'[n].hash # Absent
  BY <1>1, <1>3, Distinct DEF InGraph
<1>6. StoreType'
  BY <1>1, <1>4, <1>5 DEF PipeInv, StoreType, InGraph
<1>7. StreamType' /\ \A h \in {"embedder", "edges"} : Pending(h)' = Pending(h)
  BY <1>1, DoneReads, HandKept DEF PipeInv, Groups
<1>8. HandType'
  <2>1. DOMAIN records' = {} /\ records' \in [DOMAIN records' -> Records]
    BY <1>1 DEF Nothing
  <2> QED
    BY <1>1, <1>7, <2>1 DEF PipeInv, HandType
<1> QED
  BY <1>1, <1>6, <1>7, <1>8, WatcherSame DEF PipeInv

LEMMA PointsType == PipeInv /\ UpsertPoints => PipeInv'
<1> SUFFICES ASSUME PipeInv, UpsertPoints PROVE PipeInv'
  OBVIOUS
<1> DEFINE new == Event("vectors").nodes
<1>1. /\ Pending("vectors") /\ Done("vectors")
      /\ vec' = [n \in Nodes |-> IF n \in DOMAIN new THEN new[n] ELSE vec[n]]
      /\ vecStale' = vecStale \ DOMAIN new
      /\ UNCHANGED watcherVars
      /\ UNCHANGED <<busy, known, records, cache, graph, edges, graphStale>>
      /\ UNCHANGED <<fileChanged, parsedFile, embeddedNodes>>
  BY DEF UpsertPoints, watcherVars
<1>2. new \in Versions
  BY <1>1, EventType DEF PipeInv, EmbeddedEvents
<1>3. \A n \in DOMAIN new : new[n] \in Hashes
  BY <1>2, VersionIs
<1> HIDE DEF new
<1>4. StreamType' /\ \A h \in {"embedder", "edges", "nodes"} : Pending(h)' = Pending(h)
  BY <1>1, DoneReads, HandKept DEF PipeInv, Groups
<1>5. HandType' /\ StoreType'
  BY <1>1, <1>3, <1>4 DEF PipeInv, HandType, StoreType, InGraph
<1> QED
  BY <1>1, <1>4, <1>5, WatcherSame DEF PipeInv

LEMMA DeleteType == PipeInv /\ DeletePoints => PipeInv'
<1> SUFFICES ASSUME PipeInv, DeletePoints PROVE PipeInv'
  OBVIOUS
<1> DEFINE gone == Event("vdelete").deleted
<1>1. /\ Pending("vdelete") /\ Done("vdelete")
      /\ vec' = [n \in Nodes |-> IF n \in gone THEN Absent ELSE vec[n]]
      /\ vecStale' = vecStale \ gone
      /\ UNCHANGED watcherVars
      /\ UNCHANGED <<busy, known, records, cache, graph, edges, graphStale>>
      /\ UNCHANGED <<fileChanged, parsedFile, embeddedNodes>>
  BY DEF DeletePoints, watcherVars
<1> HIDE DEF gone
<1>2. StreamType' /\ \A h \in {"embedder", "edges", "nodes"} : Pending(h)' = Pending(h)
  BY <1>1, DoneReads, HandKept DEF PipeInv, Groups
<1>3. HandType' /\ StoreType'
  BY <1>1, <1>2 DEF PipeInv, HandType, StoreType, InGraph
<1> QED
  BY <1>1, <1>2, <1>3, WatcherSame DEF PipeInv

(***************************************************************************)
(* A loss moves some groups on, and what they had in hand is gone.         *)
(***************************************************************************)
LEMMA LossType ==
  ASSUME PipeInv, NEW m, m \in [Groups -> Nat], LostUpTo(m),
         \A g \in Groups : read[g] <= m[g] /\ m[g] <= Len(Stream(g))
  PROVE  /\ TypeInv' /\ StreamType' /\ StoreType'
         /\ read' = m
         /\ UNCHANGED <<parsedFile, embeddedNodes, graph, edges, vec>>
         /\ \A g \in Groups : m[g] = read[g] => Pending(g)' = Pending(g)
<1>1. /\ faults < MaxFaults /\ faults' = faults + 1
      /\ read' = m
      /\ UNCHANGED <<commits, lastSha, scan, fileChanged, scans, torn, ghost, parsedFile,
                     embeddedNodes, graph, edges, vec>>
  BY DEF LostUpTo
<1>2. faults' \in 0 .. MaxFaults
  BY <1>1, Bounds DEF PipeInv, TypeInv, WatcherTypeOK
<1>3. TypeInv'
  BY <1>1, <1>2, WatcherKept DEF PipeInv
<1>4. StreamType'
  BY <1>1 DEF PipeInv, StreamType, Stream
<1>5. ASSUME NEW g \in Groups, NEW e \in {Stream(g)[i] : i \in read[g] + 1 .. m[g]}
      PROVE  GraphNeeds(g, e) \subseteq Nodes /\ VectorNeeds(g, e) \subseteq Nodes
  <2>1. PICK i \in read[g] + 1 .. m[g] : e = Stream(g)[i]
    BY <1>5
  <2>2. i \in 1 .. Len(Stream(g))
    BY <2>1 DEF PipeInv, StreamType
  <2>3. CASE g \in {"parser", "vdelete"}
    <3>1. e \in Events
      BY <2>1, <2>2, <2>3 DEF PipeInv, StreamType, Stream
    <3> QED
      BY <2>3, <3>1 DEF GraphNeeds, VectorNeeds, Mentioned, Events
  <2>4. CASE g \in {"embedder", "edges"}
    <3>1. e \in ParsedEvents
      BY <2>1, <2>2, <2>4 DEF PipeInv, StreamType, Stream
    <3>2. DOMAIN e.nodes \subseteq Nodes /\ e.deleted \subseteq Nodes
      BY <3>1, VersionIs DEF ParsedEvents
    <3> QED
      BY <2>4, <3>2 DEF GraphNeeds, VectorNeeds
  <2>5. CASE g \in {"nodes", "vectors"}
    <3>1. e \in EmbeddedEvents
      BY <2>1, <2>2, <2>5 DEF PipeInv, StreamType, Stream
    <3>2. DOMAIN e.nodes \subseteq Nodes
      BY <3>1, VersionIs DEF EmbeddedEvents
    <3> QED
      BY <2>5, <3>2 DEF GraphNeeds, VectorNeeds
  <2> QED
    BY <2>3, <2>4, <2>5 DEF Groups
<1>6. graphStale' \subseteq Nodes /\ vecStale' \subseteq Nodes
  <2> DEFINE lost == [g \in Groups |-> {Stream(g)[i] : i \in read[g] + 1 .. m[g]}]
  <2>1. /\ graphStale' = graphStale \cup UNION {UNION {GraphNeeds(g, e) : e \in lost[g]} : g \in Groups}
        /\ vecStale' = vecStale \cup UNION {UNION {VectorNeeds(g, e) : e \in lost[g]} : g \in Groups}
    BY DEF LostUpTo
  <2>2. \A g \in Groups : \A e \in lost[g] :
          GraphNeeds(g, e) \subseteq Nodes /\ VectorNeeds(g, e) \subseteq Nodes
    BY <1>5
  <2> HIDE DEF lost
  <2> QED
    BY <2>1, <2>2 DEF PipeInv, StoreType
<1>7. StoreType'
  BY <1>1, <1>6 DEF PipeInv, StoreType, InGraph
<1>8. \A g \in Groups : m[g] = read[g] => Pending(g)' = Pending(g)
  BY <1>1 DEF Pending, Stream
<1> QED
  BY <1>1, <1>3, <1>4, <1>7, <1>8

(* What a group may lose is what it has not read. *)
LEMMA BatchIs ==
  ASSUME StreamType, NEW g \in Groups, NEW i \in InBatch(g)
  PROVE  i \in Nat /\ read[g] <= i /\ i <= Len(Stream(g))
  BY DEF InBatch, StreamType, Stream

(* What a loss does, for one group and for the graph-writer.               *)
LEMMA LoseIs ==
  ASSUME StreamType, NEW g \in Groups, Lose(g)
  PROVE  \E m \in [Groups -> Nat] :
           /\ LostUpTo(m)
           /\ \A h \in Groups : read[h] <= m[h] /\ m[h] <= Len(Stream(h))
           /\ \A h \in Groups \ {g} : m[h] = read[h]
<1>1. PICK i \in InBatch(g) \ {read[g]} : LostUpTo([read EXCEPT ![g] = i])
  BY DEF Lose
<1> DEFINE m == [read EXCEPT ![g] = i]
<1>2. /\ m \in [Groups -> Nat]
      /\ \A h \in Groups : read[h] <= m[h] /\ m[h] <= Len(Stream(h))
      /\ \A h \in Groups \ {g} : m[h] = read[h]
  BY <1>1, BatchIs DEF StreamType
<1> QED
  BY <1>1, <1>2

LEMMA RestartIs ==
  ASSUME StreamType, GraphWriterRestart
  PROVE  \E m \in [Groups -> Nat] :
           /\ LostUpTo(m)
           /\ \A h \in Groups : read[h] <= m[h] /\ m[h] <= Len(Stream(h))
           /\ \A h \in Groups \ {"edges", "nodes"} : m[h] = read[h]
<1>1. PICK i \in InBatch("edges"), j \in InBatch("nodes") :
        LostUpTo([read EXCEPT !["edges"] = i, !["nodes"] = j])
  BY DEF GraphWriterRestart
<1> DEFINE m == [read EXCEPT !["edges"] = i, !["nodes"] = j]
<1>2. "edges" \in Groups /\ "nodes" \in Groups
  BY DEF Groups
<1>3. /\ i \in Nat /\ read["edges"] <= i /\ i <= Len(Stream("edges"))
      /\ j \in Nat /\ read["nodes"] <= j /\ j <= Len(Stream("nodes"))
  BY <1>2, BatchIs
<1>4. /\ read \in [Groups -> Nat]
      /\ \A h \in Groups : read[h] <= Len(Stream(h)) /\ read[h] \in Nat
  BY DEF StreamType
<1>5. m \in [Groups -> Nat]
  BY <1>2, <1>3, <1>4
<1>6. \A h \in Groups : m[h] = IF h = "nodes" THEN j ELSE IF h = "edges" THEN i ELSE read[h]
  BY <1>4
<1>7. LostUpTo(m)
  BY <1>1
<1> HIDE DEF m
<1>8. ASSUME NEW h \in Groups PROVE read[h] <= m[h] /\ m[h] <= Len(Stream(h))
  <2>1. CASE h = "nodes"
    BY <1>3, <1>6, <2>1
  <2>2. CASE h = "edges"
    BY <1>3, <1>6, <2>2
  <2>3. CASE h \notin {"nodes", "edges"}
    BY <1>4, <1>6, <2>3
  <2> QED
    BY <2>1, <2>2, <2>3
<1>9. \A h \in Groups \ {"edges", "nodes"} : m[h] = read[h]
  BY <1>6
<1> QED
  BY <1>5, <1>7, <1>8, <1>9

LEMMA LoseType == ASSUME PipeInv, NEW g \in Groups, Lose(g) PROVE PipeInv'
<1>1. PICK m \in [Groups -> Nat] :
        /\ LostUpTo(m)
        /\ \A h \in Groups : read[h] <= m[h] /\ m[h] <= Len(Stream(h))
        /\ \A h \in Groups \ {g} : m[h] = read[h]
  BY LoseIs DEF PipeInv
<1>2. /\ TypeInv' /\ StreamType' /\ StoreType'
      /\ UNCHANGED <<parsedFile, embeddedNodes>>
      /\ \A h \in Groups \ {g} : Pending(h)' = Pending(h)
  BY <1>1, LossType
<1>3. /\ busy' = busy \ StepsOf(g)
      /\ known' = IF g = "embedder" THEN [n \in Nodes |-> Absent] ELSE known
      /\ records' = IF g = "nodes" THEN Nothing ELSE records
      /\ UNCHANGED cache
  BY DEF Lose
<1>4. DOMAIN records' \subseteq Nodes /\ records' \in [DOMAIN records' -> Records]
  <2>1. DOMAIN Nothing = {} /\ Nothing \in [DOMAIN Nothing -> Records]
    BY DEF Nothing
  <2> QED
    BY <1>3, <2>1 DEF PipeInv, HandType
<1>5. /\ g = "edges" => "edges" \notin busy' /\ "tombstone" \notin busy'
      /\ g \in {"embedder", "nodes"} => g \notin busy'
      /\ busy' \subseteq busy
  BY <1>3 DEF StepsOf
<1>6. HandType'
  BY <1>2, <1>3, <1>4, <1>5 DEF PipeInv, HandType, Groups
<1> QED
  BY <1>2, <1>6 DEF PipeInv

LEMMA RestartType == PipeInv /\ GraphWriterRestart => PipeInv'
<1> SUFFICES ASSUME PipeInv, GraphWriterRestart PROVE PipeInv'
  OBVIOUS
<1>1. PICK m \in [Groups -> Nat] :
        /\ LostUpTo(m)
        /\ \A h \in Groups : read[h] <= m[h] /\ m[h] <= Len(Stream(h))
        /\ \A h \in Groups \ {"edges", "nodes"} : m[h] = read[h]
  BY RestartIs DEF PipeInv
<1>2. /\ TypeInv' /\ StreamType' /\ StoreType'
      /\ UNCHANGED <<parsedFile, embeddedNodes>>
      /\ Pending("embedder")' = Pending("embedder")
  BY <1>1, LossType DEF Groups
<1>3. /\ busy' = busy \ {"edges", "tombstone", "nodes"}
      /\ cache' = EmptyCache /\ records' = Nothing /\ UNCHANGED known
  BY DEF GraphWriterRestart
<1>4. DOMAIN records' = {} /\ records' \in [DOMAIN records' -> Records]
  BY <1>3 DEF Nothing
<1>5. cache' \in [Keys -> Nat] /\ \A k \in Keys : cache'[k] <= Len(parsedFile')
  <2>1. parsedFile \in Seq(ParsedEvents)
    BY DEF PipeInv, StreamType
  <2> QED
    BY <1>2, <1>3, <2>1 DEF EmptyCache
<1>6. HandType'
  BY <1>2, <1>3, <1>4, <1>5 DEF PipeInv, HandType
<1> QED
  BY <1>2, <1>6 DEF PipeInv

LEMMA PipeStep == PipeInv /\ [Next]_vars => PipeInv'
<1>1. PipeInv /\ Next => PipeInv'
  BY WatchType, ParseType, MissingType, ReadHashesType, EmbedType, CacheType, EdgesType,
     TombstoneType, LookUpType, MissType, UpsertType, PointsType, DeleteType, LoseType,
     RestartType DEF Next, Handlers
<1>2. PipeInv /\ UNCHANGED vars => PipeInv'
  <2> SUFFICES ASSUME PipeInv, UNCHANGED vars PROVE PipeInv'
    OBVIOUS
  <2>1. UNCHANGED watcherVars /\ UNCHANGED pipeVars
    BY DEF vars
  <2>2. fileChanged' = fileChanged
    BY <2>1 DEF watcherVars
  <2> QED
    BY <2>1, <2>2, WatcherSame DEF pipeVars, PipeInv, StreamType, HandType, StoreType, Stream,
                                   Pending, InGraph
<1> QED
  BY <1>1, <1>2

LEMMA PipeHolds == Spec => []PipeInv
  BY InitPipe, PipeStep, PTL DEF Spec

(* In every run each stream holds events of its kind, no group reads past  *)
(* its end, and both stores hold nodes of the repository only.             *)
THEOREM TypeCorrect == Spec => []TypeOK
  BY PipeHolds, PipeInvTypes, PTL

-----------------------------------------------------------------------------
(* The stores agree.                                                       *)

(* The last of the first m events in s that has n gives it the hash h.     *)
Newest(s, n, m, h) ==
  \E i \in 1 .. m :
    /\ n \in DOMAIN s[i].nodes /\ s[i].nodes[n] = h
    /\ \A j \in i + 1 .. m : n \notin DOMAIN s[j].nodes

(* Each store has, of a node it shows and has not missed, what the newest  *)
(* event it has handled says; and so will the graph after the write that   *)
(* is under way.                                                           *)
AgreeInv ==
  /\ \A n \in Nodes \ graphStale :
       Active(n) => Newest(embeddedNodes, n, read["nodes"], graph[n].hash)
  /\ \A n \in Nodes \ vecStale :
       vec[n] # Absent => Newest(embeddedNodes, n, read["vectors"], vec[n])
  /\ "nodes" \in busy =>
       LET e == Event("nodes") IN
       /\ DOMAIN records \subseteq DOMAIN e.nodes
       /\ \A n \in DOMAIN records : records[n].hash = e.nodes[n]
       /\ \A n \in DOMAIN e.nodes \ DOMAIN records : n \in graphStale \/ ~ Active(n)

LEMMA NewestUnique ==
  ASSUME NEW s, NEW n, NEW m \in Nat, NEW h, NEW k, Newest(s, n, m, h), Newest(s, n, m, k)
  PROVE  h = k
<1>1. PICK i \in 1 .. m : /\ n \in DOMAIN s[i].nodes /\ s[i].nodes[n] = h
                          /\ \A j \in i + 1 .. m : n \notin DOMAIN s[j].nodes
  BY DEF Newest
<1>2. PICK l \in 1 .. m : /\ n \in DOMAIN s[l].nodes /\ s[l].nodes[n] = k
                          /\ \A j \in l + 1 .. m : n \notin DOMAIN s[j].nodes
  BY DEF Newest
<1>3. ~ (i < l) /\ ~ (l < i)
  BY <1>1, <1>2
<1>4. i = l
  BY <1>3
<1> QED
  BY <1>1, <1>2, <1>4

LEMMA NewestAppend ==
  ASSUME NEW S, NEW s \in Seq(S), NEW e, NEW n, NEW m \in Nat, m <= Len(s), NEW h,
         Newest(s, n, m, h)
  PROVE  Newest(Append(s, e), n, m, h)
<1>1. \A i \in 1 .. m : Append(s, e)[i] = s[i]
  OBVIOUS
<1>2. PICK i \in 1 .. m : /\ n \in DOMAIN s[i].nodes /\ s[i].nodes[n] = h
                          /\ \A j \in i + 1 .. m : n \notin DOMAIN s[j].nodes
  BY DEF Newest
<1>3. \A j \in i + 1 .. m : Append(s, e)[j] = s[j]
  BY <1>1, <1>2
<1> QED
  BY <1>1, <1>2, <1>3 DEF Newest

(* Events that say nothing of a node change nothing for it. *)
LEMMA NewestSkips ==
  ASSUME NEW s, NEW n, NEW m \in Nat, NEW k \in Nat, m <= k, NEW h, Newest(s, n, m, h),
         \A j \in m + 1 .. k : n \notin DOMAIN s[j].nodes
  PROVE  Newest(s, n, k, h)
<1>1. PICK i \in 1 .. m : /\ n \in DOMAIN s[i].nodes /\ s[i].nodes[n] = h
                          /\ \A j \in i + 1 .. m : n \notin DOMAIN s[j].nodes
  BY DEF Newest
<1>2. i \in 1 .. k /\ \A j \in i + 1 .. k : n \notin DOMAIN s[j].nodes
  BY <1>1
<1> QED
  BY <1>1, <1>2 DEF Newest

LEMMA NewestNow ==
  ASSUME NEW s, NEW n, NEW m \in Nat, n \in DOMAIN s[m + 1].nodes
  PROVE  Newest(s, n, m + 1, s[m + 1].nodes[n])
  BY DEF Newest

LEMMA InitAgree == Init => AgreeInv
  BY DEF Init, AgreeInv, Active, NoNode

(* Most steps leave the two stores and what they have read alone.          *)
LEMMA AgreeKept ==
  ASSUME PipeInv, AgreeInv, UNCHANGED <<embeddedNodes, graph, vec, records>>,
         read'["nodes"] = read["nodes"], read'["vectors"] = read["vectors"],
         graphStale \subseteq graphStale', vecStale \subseteq vecStale',
         "nodes" \in busy' => "nodes" \in busy
  PROVE  AgreeInv'
<1>1. Event("nodes")' = Event("nodes")
  BY DEF Event, Stream
<1>2. \A n \in Nodes : Active(n)' = Active(n)
  BY DEF Active
<1>3. \A n \in Nodes \ graphStale' :
        Active(n)' => Newest(embeddedNodes', n, read'["nodes"], graph'[n].hash)
  BY <1>2 DEF AgreeInv
<1>4. \A n \in Nodes \ vecStale' :
        vec'[n] # Absent => Newest(embeddedNodes', n, read'["vectors"], vec'[n])
  BY DEF AgreeInv
<1>5. ASSUME "nodes" \in busy'
      PROVE  \A n \in DOMAIN Event("nodes").nodes \ DOMAIN records :
               n \in graphStale' \/ ~ Active(n)'
  <2>1. DOMAIN Event("nodes").nodes \subseteq Nodes
    BY <1>5, EventType, VersionIs DEF PipeInv, HandType, EmbeddedEvents
  <2> QED
    BY <1>2, <1>5, <2>1 DEF AgreeInv
<1> QED
  BY <1>1, <1>3, <1>4, <1>5 DEF AgreeInv

LEMMA EmbedAgree == ASSUME PipeInv, AgreeInv, EmbedAndEmit PROVE AgreeInv'
<1> DEFINE e == Event("embedder")
           x == [file |-> e.file, sha |-> e.sha, nodes |-> [n \in ToEmbed(e) |-> e.nodes[n]]]
<1>1. /\ embeddedNodes' = Append(embeddedNodes, x)
      /\ graphStale \subseteq graphStale' /\ vecStale \subseteq vecStale'
      /\ busy' = busy \ {"embedder"} /\ Done("embedder")
      /\ UNCHANGED <<records, graph, vec>>
  BY DEF EmbedAndEmit
<1> HIDE DEF x
<1>2. read'["nodes"] = read["nodes"] /\ read'["vectors"] = read["vectors"]
  BY <1>1 DEF Done, PipeInv, StreamType, Groups
<1>3. /\ embeddedNodes \in Seq(EmbeddedEvents)
      /\ read["nodes"] \in Nat /\ read["nodes"] <= Len(embeddedNodes)
      /\ read["vectors"] \in Nat /\ read["vectors"] <= Len(embeddedNodes)
  BY DEF PipeInv, StreamType, Stream, Groups
<1>4. \A n \in Nodes \ graphStale' :
        Active(n)' => Newest(embeddedNodes', n, read'["nodes"], graph'[n].hash)
  BY <1>1, <1>2, <1>3, NewestAppend DEF AgreeInv, Active
<1>5. \A n \in Nodes \ vecStale' :
        vec'[n] # Absent => Newest(embeddedNodes', n, read'["vectors"], vec'[n])
  BY <1>1, <1>2, <1>3, NewestAppend DEF AgreeInv
<1>6. "nodes" \in busy' => Event("nodes")' = Event("nodes")
  BY <1>1, <1>2, <1>3 DEF PipeInv, HandType, Pending, Event, Stream
<1> QED
  BY <1>1, <1>4, <1>5, <1>6 DEF AgreeInv, Active

LEMMA TombstoneAgree == ASSUME PipeInv, AgreeInv, Tombstone PROVE AgreeInv'
<1> DEFINE gone == Event("edges").deleted
<1>1. /\ Done("edges") /\ busy' = busy \ {"tombstone"}
      /\ graph' = [n \in Nodes |-> [graph[n] EXCEPT !.active = @ /\ n \notin gone]]
      /\ graphStale' = graphStale \ gone
      /\ UNCHANGED <<embeddedNodes, records, vec, vecStale>>
  BY DEF Tombstone
<1> HIDE DEF gone
<1>2. read'["nodes"] = read["nodes"] /\ read'["vectors"] = read["vectors"]
  BY <1>1 DEF Done, PipeInv, StreamType, Groups
<1>3. ASSUME NEW n \in Nodes
      PROVE  graph'[n].hash = graph[n].hash /\ (Active(n)' => Active(n) /\ n \notin gone)
  <2>1. graph[n] \in Stored
    BY DEF PipeInv, StoreType
  <2>2. graph'[n] = [graph[n] EXCEPT !.active = graph[n].active /\ n \notin gone]
    BY <1>1
  <2>3. graph'[n].hash = graph[n].hash /\ graph'[n].active = (graph[n].active /\ n \notin gone)
    BY <2>1, <2>2 DEF Stored, NoNode
  <2> QED
    BY <2>3, Zenon DEF Active
<1>4. Event("nodes")' = Event("nodes")
  BY <1>1, <1>2 DEF Event, Stream
<1>5. \A n \in Nodes \ graphStale' :
        Active(n)' => Newest(embeddedNodes', n, read'["nodes"], graph'[n].hash)
  BY <1>1, <1>2, <1>3 DEF AgreeInv
<1>6. \A n \in Nodes \ vecStale' :
        vec'[n] # Absent => Newest(embeddedNodes', n, read'["vectors"], vec'[n])
  BY <1>1, <1>2 DEF AgreeInv
<1>7. "nodes" \in busy' => \A n \in DOMAIN Event("nodes").nodes \ DOMAIN records :
                            n \in graphStale' \/ ~ Active(n)'
  <2> SUFFICES ASSUME "nodes" \in busy', NEW n \in DOMAIN Event("nodes").nodes \ DOMAIN records
               PROVE  n \in graphStale' \/ ~ Active(n)'
    OBVIOUS
  <2>1. "nodes" \in busy /\ (n \in graphStale \/ ~ Active(n))
    BY <1>1 DEF AgreeInv
  <2>2. n \in Nodes
    BY <2>1, EventType, VersionIs DEF PipeInv, HandType, EmbeddedEvents
  <2> QED
    BY <1>1, <1>3, <2>1, <2>2
<1> QED
  BY <1>1, <1>4, <1>5, <1>6, <1>7 DEF AgreeInv

LEMMA LookUpAgree == ASSUME PipeInv, AgreeInv, LookUp PROVE AgreeInv'
<1> DEFINE e == Event("nodes")
           p == parsedFile[cache[Key(e)]]
<1>1. /\ records' = Joined(e, p)
      /\ graphStale' = graphStale \cup (DOMAIN e.nodes \ DOMAIN p.nodes)
      /\ UNCHANGED <<embeddedNodes, read, graph, vec, vecStale>>
  BY DEF LookUp
<1>2. e' = e
  BY <1>1 DEF Event, Stream
<1> HIDE DEF p, e
<1>3. /\ DOMAIN records' = DOMAIN e.nodes \cap DOMAIN p.nodes
      /\ \A n \in DOMAIN records' : records'[n].hash = e.nodes[n]
  BY <1>1 DEF Joined
<1>4. \A n \in DOMAIN e.nodes \ DOMAIN records' : n \in graphStale'
  BY <1>1, <1>3
<1>5. \A n \in Nodes \ graphStale' :
        Active(n)' => Newest(embeddedNodes', n, read'["nodes"], graph'[n].hash)
  BY <1>1 DEF AgreeInv, Active
<1>6. \A n \in Nodes \ vecStale' :
        vec'[n] # Absent => Newest(embeddedNodes', n, read'["vectors"], vec'[n])
  BY <1>1 DEF AgreeInv
<1>7. LET x == Event("nodes")' IN
        /\ DOMAIN records' \subseteq DOMAIN x.nodes
        /\ \A n \in DOMAIN records' : records'[n].hash = x.nodes[n]
        /\ \A n \in DOMAIN x.nodes \ DOMAIN records' : n \in graphStale'
  BY <1>2, <1>3, <1>4 DEF e
<1> QED
  BY <1>5, <1>6, <1>7 DEF AgreeInv

(* The node consumer is done with an event: written, or warned about.      *)
LEMMA NodesAgree ==
  ASSUME PipeInv, AgreeInv, Pending("nodes"), Done("nodes"), "nodes" \notin busy',
         UNCHANGED <<fileChanged, parsedFile, embeddedNodes, vec, vecStale>>,
         NEW S, S \subseteq DOMAIN Event("nodes").nodes,
         \A n \in S : graph'[n].hash = Event("nodes").nodes[n],
         \A n \in Nodes \ S : graph'[n] = graph[n],
         graphStale \ S \subseteq graphStale',
         \A n \in DOMAIN Event("nodes").nodes \ S : n \in graphStale' \/ ~ Active(n)
  PROVE  AgreeInv'
<1> DEFINE m == read["nodes"]
<1>1. m \in Nat /\ embeddedNodes[m + 1] = Event("nodes")
  BY DEF PipeInv, StreamType, Event, Stream, Groups
<1>2. read'["nodes"] = m + 1 /\ read'["vectors"] = read["vectors"]
  BY DoneReads DEF PipeInv, Groups
<1> HIDE DEF m
<1>3. ASSUME NEW n \in Nodes \ graphStale', Active(n)'
      PROVE  Newest(embeddedNodes', n, m + 1, graph'[n].hash)
  <2>1. CASE n \in S
    BY <1>1, <2>1, NewestNow
  <2>2. CASE n \notin S
    <3>1. graph'[n] = graph[n] /\ Active(n) /\ n \notin graphStale
      BY <1>3, <2>2 DEF Active
    <3>2. Newest(embeddedNodes, n, m, graph[n].hash)
      BY <1>3, <3>1 DEF AgreeInv, m
    <3>3. n \notin DOMAIN embeddedNodes[m + 1].nodes
      BY <1>1, <1>3, <2>2, <3>1
    <3>4. \A j \in m + 1 .. m + 1 : n \notin DOMAIN embeddedNodes[j].nodes
      BY <1>1, <3>3
    <3> QED
      BY <1>1, <3>1, <3>2, <3>4, NewestSkips
  <2> QED
    BY <2>1, <2>2
<1>4. \A n \in Nodes \ vecStale' :
        vec'[n] # Absent => Newest(embeddedNodes', n, read'["vectors"], vec'[n])
  BY <1>2 DEF AgreeInv
<1> QED
  BY <1>2, <1>3, <1>4 DEF AgreeInv

LEMMA UpsertAgree == ASSUME PipeInv, AgreeInv, UpsertNodes PROVE AgreeInv'
<1>1. /\ Pending("nodes") /\ Done("nodes") /\ "nodes" \in busy /\ "nodes" \notin busy'
      /\ UNCHANGED <<fileChanged, parsedFile, embeddedNodes, vec, vecStale>>
      /\ graphStale' = graphStale \ DOMAIN records
  BY DEF UpsertNodes, PipeInv, HandType, watcherVars
<1>2. DOMAIN records \subseteq Nodes
  BY DEF PipeInv, HandType
<1>3. \A n \in DOMAIN records : graph'[n].hash = Event("nodes").nodes[n]
  BY <1>1, <1>2 DEF UpsertNodes, AgreeInv
<1>4. \A n \in Nodes \ DOMAIN records : graph'[n] = graph[n]
  BY DEF UpsertNodes
<1>5. DOMAIN records \subseteq DOMAIN Event("nodes").nodes
  BY <1>1 DEF AgreeInv
<1>6. \A n \in DOMAIN Event("nodes").nodes \ DOMAIN records : n \in graphStale' \/ ~ Active(n)
  BY <1>1 DEF AgreeInv
<1> QED
  BY <1>1, <1>3, <1>4, <1>5, <1>6, NodesAgree

LEMMA MissAgree == ASSUME PipeInv, AgreeInv, LookUpMisses PROVE AgreeInv'
<1>1. /\ Pending("nodes") /\ Done("nodes") /\ "nodes" \notin busy'
      /\ UNCHANGED <<fileChanged, parsedFile, embeddedNodes, vec, vecStale, graph>>
      /\ graphStale' = graphStale \cup DOMAIN Event("nodes").nodes
  BY DEF LookUpMisses, watcherVars
<1> DEFINE none == {}
<1>2. /\ none \subseteq DOMAIN Event("nodes").nodes
      /\ \A n \in none : graph'[n].hash = Event("nodes").nodes[n]
      /\ \A n \in Nodes \ none : graph'[n] = graph[n]
      /\ graphStale \ none \subseteq graphStale'
      /\ \A n \in DOMAIN Event("nodes").nodes \ none : n \in graphStale' \/ ~ Active(n)
  BY <1>1
<1> HIDE DEF none
<1> QED
  BY <1>1, <1>2, NodesAgree

LEMMA PointsAgree == ASSUME PipeInv, AgreeInv, UpsertPoints PROVE AgreeInv'
<1> DEFINE m == read["vectors"]
           new == Event("vectors").nodes
<1>1. /\ Pending("vectors") /\ Done("vectors")
      /\ vec' = [n \in Nodes |-> IF n \in DOMAIN new THEN new[n] ELSE vec[n]]
      /\ vecStale' = vecStale \ DOMAIN new
      /\ UNCHANGED <<fileChanged, parsedFile, embeddedNodes, busy, records, graph, graphStale>>
  BY DEF UpsertPoints, watcherVars
<1>2. m \in Nat /\ embeddedNodes[m + 1] = Event("vectors")
  BY DEF PipeInv, StreamType, Event, Stream, Groups
<1>3. read'["vectors"] = m + 1 /\ read'["nodes"] = read["nodes"]
  BY <1>1, DoneReads DEF PipeInv, Groups
<1> HIDE DEF m
<1>4. ASSUME NEW n \in Nodes \ vecStale', vec'[n] # Absent
      PROVE  Newest(embeddedNodes', n, m + 1, vec'[n])
  <2>1. CASE n \in DOMAIN new
    BY <1>1, <1>2, <2>1, NewestNow
  <2>2. CASE n \notin DOMAIN new
    <3>1. vec'[n] = vec[n] /\ n \notin vecStale
      BY <1>1, <1>4, <2>2
    <3>2. Newest(embeddedNodes, n, m, vec[n])
      BY <1>4, <3>1 DEF AgreeInv, m
    <3>3. \A j \in m + 1 .. m + 1 : n \notin DOMAIN embeddedNodes[j].nodes
      BY <1>2, <2>2
    <3> QED
      BY <1>1, <1>2, <3>1, <3>2, <3>3, NewestSkips
  <2> QED
    BY <2>1, <2>2
<1>5. Event("nodes")' = Event("nodes") /\ \A n \in Nodes : Active(n)' = Active(n)
  BY <1>1, <1>3 DEF Event, Stream, Active
<1>6. \A n \in Nodes \ graphStale' :
        Active(n)' => Newest(embeddedNodes', n, read'["nodes"], graph'[n].hash)
  BY <1>1, <1>3, <1>5 DEF AgreeInv
<1>7. ASSUME "nodes" \in busy'
      PROVE  \A n \in DOMAIN Event("nodes").nodes \ DOMAIN records :
               n \in graphStale' \/ ~ Active(n)'
  <2>1. DOMAIN Event("nodes").nodes \subseteq Nodes
    BY <1>1, <1>7, EventType, VersionIs DEF PipeInv, HandType, EmbeddedEvents
  <2> QED
    BY <1>1, <1>5, <1>7, <2>1 DEF AgreeInv
<1> QED
  BY <1>1, <1>3, <1>4, <1>5, <1>6, <1>7 DEF AgreeInv

LEMMA DeleteAgree == ASSUME PipeInv, AgreeInv, DeletePoints PROVE AgreeInv'
<1> DEFINE gone == Event("vdelete").deleted
<1>1. /\ Pending("vdelete") /\ Done("vdelete")
      /\ vec' = [n \in Nodes |-> IF n \in gone THEN Absent ELSE vec[n]]
      /\ vecStale' = vecStale \ gone
      /\ UNCHANGED <<fileChanged, parsedFile, embeddedNodes, busy, records, graph, graphStale>>
  BY DEF DeletePoints, watcherVars
<1>2. read'["vectors"] = read["vectors"] /\ read'["nodes"] = read["nodes"]
  BY <1>1, DoneReads DEF PipeInv, Groups
<1> HIDE DEF gone
<1>3. \A n \in Nodes \ vecStale' :
        vec'[n] # Absent => Newest(embeddedNodes', n, read'["vectors"], vec'[n])
  BY <1>1, <1>2 DEF AgreeInv
<1>4. Event("nodes")' = Event("nodes") /\ \A n \in Nodes : Active(n)' = Active(n)
  BY <1>1, <1>2 DEF Event, Stream, Active
<1>5. \A n \in Nodes \ graphStale' :
        Active(n)' => Newest(embeddedNodes', n, read'["nodes"], graph'[n].hash)
  BY <1>1, <1>2, <1>4 DEF AgreeInv
<1>6. ASSUME "nodes" \in busy'
      PROVE  \A n \in DOMAIN Event("nodes").nodes \ DOMAIN records :
               n \in graphStale' \/ ~ Active(n)'
  <2>1. DOMAIN Event("nodes").nodes \subseteq Nodes
    BY <1>1, <1>6, EventType, VersionIs DEF PipeInv, HandType, EmbeddedEvents
  <2> QED
    BY <1>1, <1>4, <1>6, <2>1 DEF AgreeInv
<1> QED
  BY <1>1, <1>3, <1>4, <1>5, <1>6 DEF AgreeInv

(* Every node of an event that is lost is marked.                          *)
LEMMA LossMarks ==
  ASSUME NEW m, LostUpTo(m)
  PROVE  /\ \A g \in Groups : \A i \in read[g] + 1 .. m[g] :
              /\ GraphNeeds(g, Stream(g)[i]) \subseteq graphStale'
              /\ VectorNeeds(g, Stream(g)[i]) \subseteq vecStale'
         /\ graphStale \subseteq graphStale' /\ vecStale \subseteq vecStale'
<1> DEFINE lost == [g \in Groups |-> {Stream(g)[i] : i \in read[g] + 1 .. m[g]}]
<1>1. /\ graphStale' = graphStale \cup UNION {UNION {GraphNeeds(g, e) : e \in lost[g]} : g \in Groups}
      /\ vecStale' = vecStale \cup UNION {UNION {VectorNeeds(g, e) : e \in lost[g]} : g \in Groups}
  BY DEF LostUpTo
<1>2. \A g \in Groups : \A i \in read[g] + 1 .. m[g] : Stream(g)[i] \in lost[g]
  OBVIOUS
<1> HIDE DEF lost
<1>3. ASSUME NEW g \in Groups, NEW e \in lost[g]
      PROVE  GraphNeeds(g, e) \subseteq graphStale' /\ VectorNeeds(g, e) \subseteq vecStale'
  BY <1>1
<1> QED
  BY <1>1, <1>2, <1>3

LEMMA LossAgree ==
  ASSUME PipeInv, AgreeInv, NEW m, m \in [Groups -> Nat], LostUpTo(m),
         \A g \in Groups : read[g] <= m[g],
         "nodes" \in busy' =>
           "nodes" \in busy /\ m["nodes"] = read["nodes"] /\ records' = records
  PROVE  AgreeInv'
<1>1. /\ read' = m /\ UNCHANGED <<embeddedNodes, graph, vec>>
      /\ graphStale \subseteq graphStale' /\ vecStale \subseteq vecStale'
  BY LossMarks DEF LostUpTo
<1>2. /\ read["nodes"] \in Nat /\ m["nodes"] \in Nat /\ read["nodes"] <= m["nodes"]
      /\ read["vectors"] \in Nat /\ m["vectors"] \in Nat /\ read["vectors"] <= m["vectors"]
  BY DEF PipeInv, StreamType, Groups
<1>3. /\ \A i \in read["nodes"] + 1 .. m["nodes"] : DOMAIN embeddedNodes[i].nodes \subseteq graphStale'
      /\ \A i \in read["vectors"] + 1 .. m["vectors"] : DOMAIN embeddedNodes[i].nodes \subseteq vecStale'
  BY LossMarks DEF Groups, GraphNeeds, VectorNeeds, Stream
<1>4. ASSUME NEW n \in Nodes \ graphStale', Active(n)'
      PROVE  Newest(embeddedNodes', n, read'["nodes"], graph'[n].hash)
  <2>1. Newest(embeddedNodes, n, read["nodes"], graph[n].hash)
    BY <1>1, <1>4 DEF AgreeInv, Active
  <2>2. \A j \in read["nodes"] + 1 .. m["nodes"] : n \notin DOMAIN embeddedNodes[j].nodes
    BY <1>3, <1>4
  <2> QED
    BY <1>1, <1>2, <2>1, <2>2, NewestSkips
<1>5. ASSUME NEW n \in Nodes \ vecStale', vec'[n] # Absent
      PROVE  Newest(embeddedNodes', n, read'["vectors"], vec'[n])
  <2>1. Newest(embeddedNodes, n, read["vectors"], vec[n])
    BY <1>1, <1>5 DEF AgreeInv
  <2>2. \A j \in read["vectors"] + 1 .. m["vectors"] : n \notin DOMAIN embeddedNodes[j].nodes
    BY <1>3, <1>5
  <2> QED
    BY <1>1, <1>2, <2>1, <2>2, NewestSkips
<1>6. ASSUME "nodes" \in busy'
      PROVE  /\ Event("nodes")' = Event("nodes") /\ records' = records
             /\ \A n \in DOMAIN Event("nodes").nodes \ DOMAIN records :
                  n \in graphStale' \/ ~ Active(n)'
  <2>1. Event("nodes")' = Event("nodes")
    BY <1>1, <1>6 DEF Event, Stream
  <2>2. \A n : Active(n)' = Active(n)
    BY <1>1 DEF Active
  <2> QED
    BY <1>1, <1>6, <2>1, <2>2 DEF AgreeInv
<1> QED
  BY <1>1, <1>4, <1>5, <1>6 DEF AgreeInv

LEMMA AgreeStep == PipeInv /\ AgreeInv /\ [Next]_vars => AgreeInv'
<1> SUFFICES ASSUME PipeInv, AgreeInv, [Next]_vars PROVE AgreeInv'
  OBVIOUS
<1>0. read \in [Groups -> Nat]
  BY DEF PipeInv, StreamType
<1>1. CASE Watch
  BY <1>1, AgreeKept DEF Watch, pipeVars
<1>2. CASE Parse \/ ParseMissingFile
  <2>1. read'["nodes"] = read["nodes"] /\ read'["vectors"] = read["vectors"]
    BY <1>0, <1>2 DEF Parse, ParseMissingFile, Done, Groups
  <2> QED
    BY <1>2, <2>1, AgreeKept DEF Parse, ParseMissingFile
<1>3. CASE ReadHashes
  BY <1>3, AgreeKept DEF ReadHashes
<1>4. CASE CacheParsed
  BY <1>4, AgreeKept DEF CacheParsed
<1>5. CASE UpsertEdges
  <2>1. read'["nodes"] = read["nodes"] /\ read'["vectors"] = read["vectors"]
    BY <1>0, <1>5 DEF UpsertEdges, Done, Groups
  <2> QED
    BY <1>5, <2>1, AgreeKept DEF UpsertEdges
<1>6. CASE \E g \in Groups : Lose(g)
  <2>1. PICK g \in Groups : Lose(g)
    BY <1>6
  <2>2. PICK m \in [Groups -> Nat] :
          /\ LostUpTo(m)
          /\ \A h \in Groups : read[h] <= m[h] /\ m[h] <= Len(Stream(h))
          /\ \A h \in Groups \ {g} : m[h] = read[h]
    BY <2>1, LoseIs DEF PipeInv
  <2>3. "nodes" \in busy' => "nodes" \in busy /\ g # "nodes" /\ records' = records
    BY <2>1 DEF Lose, StepsOf
  <2>4. "nodes" \in Groups
    BY DEF Groups
  <2>5. "nodes" \in busy' => "nodes" \in busy /\ m["nodes"] = read["nodes"] /\ records' = records
    BY <2>2, <2>3, <2>4
  <2> QED
    BY <2>2, <2>5, LossAgree
<1>7. CASE GraphWriterRestart
  <2>1. PICK m \in [Groups -> Nat] :
          /\ LostUpTo(m)
          /\ \A h \in Groups : read[h] <= m[h] /\ m[h] <= Len(Stream(h))
    BY <1>7, RestartIs DEF PipeInv
  <2>2. "nodes" \notin busy'
    BY <1>7 DEF GraphWriterRestart
  <2> QED
    BY <2>1, <2>2, LossAgree
<1>8. CASE UNCHANGED vars
  BY <1>8, AgreeKept DEF vars, pipeVars
<1> QED
  BY <1>1, <1>2, <1>3, <1>4, <1>5, <1>6, <1>7, <1>8, EmbedAgree, TombstoneAgree, LookUpAgree,
     UpsertAgree, MissAgree, PointsAgree, DeleteAgree DEF Next, Handlers

LEMMA AgreeHolds == Spec => []AgreeInv
  BY InitAgree, AgreeStep, PipeHolds, PTL DEF Spec

(* In every run, with any number of requests, commits and losses, Neo4j    *)
(* and Qdrant have the same version of a node that neither has missed, as  *)
(* soon as the queues are empty.                                           *)
THEOREM StoresNeverDisagree == Spec => []StoresAgree
<1>1. PipeInv /\ AgreeInv => StoresAgree
  <2> SUFFICES ASSUME PipeInv, AgreeInv, Quiescent,
                      NEW n \in Nodes \ (graphStale \cup vecStale), Active(n), vec[n] # Absent
               PROVE  graph[n].hash = vec[n]
    BY DEF StoresAgree
  <2>1. read["nodes"] = Len(embeddedNodes) /\ read["vectors"] = Len(embeddedNodes)
        /\ Len(embeddedNodes) \in Nat
    BY DEF PipeInv, StreamType, Quiescent, Pending, Stream, Groups
  <2>2. /\ Newest(embeddedNodes, n, read["nodes"], graph[n].hash)
        /\ Newest(embeddedNodes, n, read["vectors"], vec[n])
    BY DEF AgreeInv
  <2> QED
    BY <2>1, <2>2, NewestUnique
<1> QED
  BY PipeHolds, AgreeHolds, <1>1, PTL

-----------------------------------------------------------------------------
(* Body and hash.                                                          *)

(* No commit is indexed anew on request. *)
NoRescan == "rescan" \notin Requests

(* What a run knows of the recorded commit as long as it is the only one:  *)
(* if it has anything to emit, its commit is newer.                        *)
Advances(s) ==
  /\ scan[s].pc = "begin" =>
       /\ scan[s].kind \in Requests
       /\ lastSha <= scan[s].cur
       /\ scan[s].kind = "index" => scan[s].prev = lastSha
  /\ scan[s].pc = "emit" =>
       /\ scan[s].prev = lastSha /\ lastSha <= scan[s].cur
       /\ scan[s].todo # {} => lastSha < scan[s].cur

(* An event is about a recorded commit or one being indexed. *)
Emitted(e) ==
  \/ e.sha <= lastSha
  \/ \E s \in Scanners : scan[s].pc = "emit" /\ e.sha = scan[s].cur /\ e.file \notin scan[s].todo

OnceInv ==
  /\ \A s \in Scanners : Advances(s)
  /\ \A i \in DOMAIN fileChanged : Emitted(fileChanged[i])
  /\ \A i, j \in DOMAIN fileChanged : Key(fileChanged[i]) = Key(fileChanged[j]) => i = j

LEMMA EventKey == \A f, p, c : EventFor(f, p, c).file = f /\ EventFor(f, p, c).sha = c
  BY DEF EventFor

LEMMA InitOnce == Init => OnceInv
  BY DEF Init, WatcherInit, Idle, OnceInv, Advances

LEMMA CommitOnce == ASSUME TypeInv, OnceInv, Commit PROVE OnceInv'
<1>1. UNCHANGED <<lastSha, scan, fileChanged>>
  BY DEF Commit
<1> QED
  BY <1>1 DEF OnceInv, Advances, Emitted

LEMMA BeginOnce ==
  ASSUME OneAtATime, NoRescan, TypeInv, OnceInv, NEW s \in Scanners,
         Hook(s) \/ Poll(s) \/ Index(s) \/ Rescan(s)
  PROVE  OnceInv'
<1>1. lastSha \in 0 .. Tip /\ Tip \in Nat /\ scan \in [Scanners -> Scans]
  BY DEF TypeInv, WatcherTypeOK, Scans
<1>2. PICK k \in Requests, p \in 0 .. Tip, c \in 0 .. Tip :
        /\ Begins(s, k, p, c)
        /\ lastSha <= c
        /\ k = "index" => p = lastSha
  <2>1. Hook(s) => Begins(s, "hook", 0, Tip) /\ "hook" \in Requests
    BY DEF Hook, Begins
  <2>2. Poll(s) => Begins(s, "poll", 0, Tip) /\ "poll" \in Requests
    BY DEF Poll, Begins
  <2>3. Index(s) => Begins(s, "index", lastSha, Tip) /\ "index" \in Requests
    BY DEF Index, Begins
  <2>4. ~ Rescan(s)
    BY DEF Rescan, Begins, NoRescan
  <2>5. 0 \in 0 .. Tip /\ Tip \in 0 .. Tip /\ lastSha \in 0 .. Tip /\ lastSha <= Tip
    BY <1>1
  <2> QED
    BY <2>1, <2>2, <2>3, <2>4, <2>5
<1> DEFINE r == [Idle EXCEPT !.pc = "begin", !.kind = k, !.prev = p, !.cur = c]
<1>3. r.pc = "begin" /\ r.kind = k /\ r.prev = p /\ r.cur = c
  BY DEF Idle
<1>4. /\ scan' = [scan EXCEPT ![s] = r] /\ scan[s].pc = "idle"
      /\ UNCHANGED <<lastSha, fileChanged>>
  BY <1>2 DEF Begins
<1> HIDE DEF r
<1>5. \A t \in Scanners : t = s
  BY DEF OneAtATime
<1>6. Advances(s)'
  BY <1>1, <1>2, <1>3, <1>4 DEF Advances
<1>7. (\A i \in DOMAIN fileChanged : Emitted(fileChanged[i]))'
  <2>1. ASSUME NEW i \in DOMAIN fileChanged PROVE fileChanged[i].sha <= lastSha
    BY <1>4, <1>5 DEF OnceInv, Emitted
  <2> QED
    BY <1>4, <2>1 DEF Emitted
<1>8. (\A t \in Scanners : Advances(t))'
  BY <1>5, <1>6
<1>9. (\A i, j \in DOMAIN fileChanged : Key(fileChanged[i]) = Key(fileChanged[j]) => i = j)'
  BY <1>4 DEF OnceInv, Key
<1> QED
  BY <1>7, <1>8, <1>9 DEF OnceInv

LEMMA ListOnce ==
  ASSUME OneAtATime, NoRescan, TypeInv, OnceInv, NEW s \in Scanners, ListFiles(s)
  PROVE  OnceInv'
<1> DEFINE k == scan[s].kind
           prev == IF k \in {"hook", "poll"} THEN lastSha ELSE scan[s].prev
<1>0. PICK cur \in ReadAsHead(s) :
        scan' = [scan EXCEPT ![s] =
                   IF k = "poll" /\ prev = cur THEN Idle
                   ELSE [scan[s] EXCEPT !.pc = "emit", !.prev = prev, !.cur = cur,
                                        !.todo = FilesToVisit(prev, cur)]]
  BY DEF ListFiles
<1> DEFINE r == IF k = "poll" /\ prev = cur THEN Idle
                ELSE [scan[s] EXCEPT !.pc = "emit", !.prev = prev, !.cur = cur,
                                     !.todo = FilesToVisit(prev, cur)]
<1>1. /\ scan' = [scan EXCEPT ![s] = r] /\ scan[s].pc = "begin"
      /\ UNCHANGED <<lastSha, fileChanged>>
  BY <1>0 DEF ListFiles
<1>2. scan[s] \in Scans /\ scan \in [Scanners -> Scans] /\ lastSha \in 0 .. Tip /\ Tip \in Nat /\ Tip > 0
  BY DEF TypeInv, WatcherTypeOK, Scans
<1>3. k \in {"hook", "poll", "index"}
  BY <1>1, RequestsAssumption DEF OnceInv, Advances, NoRescan
<1>4. prev = lastSha /\ lastSha <= cur /\ cur > 0 /\ cur \in Nat
  <2>1. prev = lastSha /\ lastSha <= scan[s].cur /\ scan[s].cur \in 1 .. Tip
    BY <1>1, <1>2, <1>3 DEF OnceInv, Advances, TypeInv, Known, Scans
  <2>2. cur \in scan[s].cur .. scan[s].cur \/ cur \in scan[s].cur .. Tip
    BY <1>0 DEF ReadAsHead
  <2> HIDE DEF prev
  <2> QED
    BY <1>2, <2>1, <2>2
<1>5. FilesToVisit(prev, cur) # {} => lastSha < cur
  <2> SUFFICES ASSUME lastSha = cur PROVE FilesToVisit(prev, cur) = {}
    BY <1>2, <1>4
  <2>1. prev = cur /\ prev # 0
    BY <1>4
  <2> HIDE DEF prev
  <2> QED
    BY <2>1 DEF FilesToVisit, ChangedFiles
<1>6. r.pc = "emit" => r.prev = prev /\ r.cur = cur /\ r.todo = FilesToVisit(prev, cur)
  <2> HIDE DEF prev
  <2> QED
    BY <1>2 DEF Idle, Scans
<1>7. r.pc # "begin"
  <2> HIDE DEF prev
  <2> QED
    BY <1>2 DEF Idle, Scans
<1> HIDE DEF r
<1>8. scan'[s] = r
  BY <1>1, <1>2
<1>9. \A t \in Scanners : t = s
  BY DEF OneAtATime
<1>10. Advances(s)'
  BY <1>1, <1>4, <1>5, <1>6, <1>7, <1>8 DEF Advances
<1>11. (\A i \in DOMAIN fileChanged : Emitted(fileChanged[i]))'
  <2>1. ASSUME NEW i \in DOMAIN fileChanged PROVE fileChanged[i].sha <= lastSha
    BY <1>1, <1>9 DEF OnceInv, Emitted
  <2> QED
    BY <1>1, <2>1 DEF Emitted
<1>12. (\A t \in Scanners : Advances(t))'
  BY <1>9, <1>10
<1>13. (\A i, j \in DOMAIN fileChanged : Key(fileChanged[i]) = Key(fileChanged[j]) => i = j)'
  BY <1>1 DEF OnceInv, Key
<1> QED
  BY <1>11, <1>12, <1>13 DEF OnceInv

LEMMA EmitOnce ==
  ASSUME OneAtATime, TypeInv, OnceInv, NEW s \in Scanners, Emit(s)
  PROVE  OnceInv'
<1> DEFINE f == NextFile(s)
           e == EventFor(f, scan[s].prev, scan[s].cur)
           last == Len(fileChanged) + 1
<1>1. /\ fileChanged' = Append(fileChanged, e) /\ scan[s].pc = "emit"
      /\ scan' = [scan EXCEPT ![s].todo = @ \ {f},
                              ![s].named = @ \cup e.changed \cup e.added \cup e.deleted]
      /\ UNCHANGED lastSha
  BY DEF Emit
<1>2. e.file = f /\ e.sha = scan[s].cur
  BY EventKey
<1>3. f \in scan[s].todo
  BY NextIsLeft DEF Emit
<1> HIDE DEF f, e
<1>4. scan[s] \in Scans /\ scan \in [Scanners -> Scans] /\ lastSha \in Nat
      /\ fileChanged \in Seq(Events)
  BY DEF TypeInv, WatcherTypeOK, Scans, Tip
<1>5. /\ DOMAIN fileChanged' = 1 .. last /\ fileChanged'[last] = e
      /\ DOMAIN fileChanged = 1 .. last - 1 /\ last \in Nat \ {0}
      /\ \A i \in 1 .. last - 1 : fileChanged'[i] = fileChanged[i]
  BY <1>1, <1>4
<1> HIDE DEF last
<1>6. /\ scan'[s].pc = "emit" /\ scan'[s].prev = scan[s].prev /\ scan'[s].cur = scan[s].cur
      /\ scan'[s].todo = scan[s].todo \ {f}
  BY <1>1, <1>4 DEF Scans
<1>7. \A t \in Scanners : t = s
  BY DEF OneAtATime
<1>8. Advances(s) /\ lastSha < scan[s].cur
  BY <1>1, <1>3 DEF OnceInv, Advances
<1>9. Advances(s)'
  BY <1>1, <1>6, <1>8 DEF Advances
<1>10. \A i \in 1 .. last - 1 : Emitted(fileChanged[i])
  BY <1>5 DEF OnceInv
<1>11. (\A i \in DOMAIN fileChanged : Emitted(fileChanged[i]))'
  <2>1. ASSUME NEW x, x.file = f, x.sha = scan[s].cur PROVE Emitted(x)'
    BY <1>6, <2>1 DEF Emitted
  <2>2. ASSUME NEW x, Emitted(x) PROVE Emitted(x)'
    BY <1>1, <1>6, <1>7, <2>2 DEF Emitted
  <2>3. ASSUME NEW i \in 1 .. last, NEW x, x = fileChanged'[i] PROVE Emitted(x)'
    <3>1. CASE i = last
      BY <1>2, <1>5, <2>1, <2>3, <3>1
    <3>2. CASE i # last
      <4>1. i \in 1 .. last - 1
        BY <1>5, <3>2
      <4> QED
        BY <1>5, <1>10, <2>2, <2>3, <4>1
    <3> QED
      BY <3>1, <3>2
  <2> QED
    BY <1>5, <2>3 DEF Emitted
<1>12. ASSUME NEW i \in 1 .. last - 1 PROVE Key(fileChanged[i]) # Key(e)
  <2>0. fileChanged[i] \in Events
    BY <1>4, <1>5
  <2>1. fileChanged[i].sha \in Nat
    BY <2>0 DEF Events
  <2>2. fileChanged[i].sha = scan[s].cur => fileChanged[i].file \notin scan[s].todo
    BY <1>4, <1>7, <1>8, <1>10, <2>1 DEF Emitted, Scans
  <2> QED
    BY <1>2, <1>3, <2>2 DEF Key
<1>13. ASSUME NEW i \in 1 .. last, NEW j \in 1 .. last, Key(fileChanged'[i]) = Key(fileChanged'[j])
       PROVE  i = j
  <2>1. CASE i = last /\ j # last
    <3>1. j \in 1 .. last - 1
      BY <1>5, <2>1
    <3> QED
      BY <1>5, <1>12, <1>13, <2>1, <3>1
  <2>2. CASE j = last /\ i # last
    <3>1. i \in 1 .. last - 1
      BY <1>5, <2>2
    <3> QED
      BY <1>5, <1>12, <1>13, <2>2, <3>1
  <2>3. CASE i # last /\ j # last
    <3>1. i \in 1 .. last - 1 /\ j \in 1 .. last - 1
      BY <1>5, <2>3
    <3> QED
      BY <1>5, <1>13, <3>1 DEF OnceInv
  <2> QED
    BY <2>1, <2>2, <2>3
<1>14. \A i, j \in DOMAIN fileChanged' : Key(fileChanged'[i]) = Key(fileChanged'[j]) => i = j
  BY <1>5, <1>13
<1>15. (\A t \in Scanners : Advances(t))'
  BY <1>7, <1>9
<1>16. (\A i, j \in DOMAIN fileChanged : Key(fileChanged[i]) = Key(fileChanged[j]) => i = j)'
  BY <1>14 DEF Key
<1> QED
  BY <1>11, <1>15, <1>16 DEF OnceInv

LEMMA SaveOnce ==
  ASSUME OneAtATime, TypeInv, OnceInv, NEW s \in Scanners, Save(s)
  PROVE  OnceInv'
<1>1. /\ scan' = [scan EXCEPT ![s] = Idle] /\ lastSha' = scan[s].cur /\ scan[s].pc = "emit"
      /\ UNCHANGED fileChanged
  BY DEF Save
<1>2. scan[s] \in Scans /\ scan \in [Scanners -> Scans] /\ lastSha \in Nat
      /\ fileChanged \in Seq(Events)
  BY DEF TypeInv, WatcherTypeOK, Scans, Tip
<1>3. \A t \in Scanners : t = s
  BY DEF OneAtATime
<1>4. lastSha <= scan[s].cur /\ scan[s].cur \in Nat
  BY <1>1, <1>2 DEF OnceInv, Advances, Scans
<1>5. \A t \in Scanners : Advances(t)'
  BY <1>1, <1>2, <1>3 DEF Advances, Idle
<1>6. ASSUME NEW i \in DOMAIN fileChanged PROVE fileChanged[i].sha <= scan[s].cur
  <2>0. fileChanged[i] \in Events
    BY <1>2
  <2>1. fileChanged[i].sha \in Nat
    BY <2>0 DEF Events
  <2>2. fileChanged[i].sha <= lastSha \/ fileChanged[i].sha = scan[s].cur
    BY <1>3 DEF OnceInv, Emitted
  <2> QED
    BY <1>2, <1>4, <2>1, <2>2
<1>7. (\A i \in DOMAIN fileChanged : Emitted(fileChanged[i]))'
  BY <1>1, <1>6 DEF Emitted
<1>8. (\A i, j \in DOMAIN fileChanged : Key(fileChanged[i]) = Key(fileChanged[j]) => i = j)'
  BY <1>1 DEF OnceInv, Key
<1> QED
  BY <1>5, <1>7, <1>8 DEF OnceInv

(* No two events of one stream have the same key, so the parse the node    *)
(* consumer finds under the key of an event is the one it was made from.   *)
ParsedOnce ==
  /\ \A p \in DOMAIN parsedFile :
       \E i \in 1 .. read["parser"] : Key(fileChanged[i]) = Key(parsedFile[p])
  /\ \A p, q \in DOMAIN parsedFile : Key(parsedFile[p]) = Key(parsedFile[q]) => p = q

(* The nodes of x are nodes of p, under the same hashes. *)
PartOf(x, p) ==
  /\ Key(x) = Key(p)
  /\ \A n \in DOMAIN x.nodes : n \in DOMAIN p.nodes /\ p.nodes[n] = x.nodes[n]

EmbeddedFromParsed ==
  \A j \in DOMAIN embeddedNodes :
    \E p \in DOMAIN parsedFile : PartOf(embeddedNodes[j], parsedFile[p])

CacheKeyed == \A k \in Keys : cache[k] # 0 => Key(parsedFile[cache[k]]) = k

BodyInv ==
  /\ ParsedOnce /\ EmbeddedFromParsed /\ CacheKeyed
  /\ \A n \in DOMAIN records : records[n].hash = records[n].body
  /\ \A n \in Nodes : graph[n].hash = graph[n].body

LEMMA InitBody == Init => BodyInv
  BY DEF Init, BodyInv, ParsedOnce, EmbeddedFromParsed, CacheKeyed, EmptyCache, Nothing, NoNode

LEMMA WatchBody == ASSUME PipeInv, BodyInv, Watch PROVE BodyInv'
<1>1. UNCHANGED <<parsedFile, embeddedNodes, read, cache, records, graph>>
  BY DEF Watch, pipeVars
<1>2. fileChanged' = fileChanged \/ \E e \in Events : fileChanged' = Append(fileChanged, e)
  BY WatcherAppends DEF Watch, PipeInv
<1>3. fileChanged \in Seq(Events) /\ read["parser"] \in Nat /\ read["parser"] <= Len(fileChanged)
  BY DEF PipeInv, StreamType, Stream, Groups
<1>4. \A i \in 1 .. read["parser"] : fileChanged'[i] = fileChanged[i]
  BY <1>2, <1>3
<1>5. ParsedOnce'
  BY <1>1, <1>4 DEF BodyInv, ParsedOnce, Key
<1>6. (EmbeddedFromParsed /\ CacheKeyed)'
  BY <1>1 DEF BodyInv, EmbeddedFromParsed, CacheKeyed, PartOf, Key
<1> QED
  BY <1>1, <1>5, <1>6 DEF BodyInv

LEMMA ParseBody == ASSUME PipeInv, OnceInv, BodyInv, Parse PROVE BodyInv'
<1> DEFINE e == Event("parser")
           x == Parsed(e, TreeAt(Tip))
           last == Len(parsedFile) + 1
           r == read["parser"]
<1>1. /\ parsedFile' = Append(parsedFile, x) /\ Done("parser") /\ Pending("parser")
      /\ UNCHANGED <<fileChanged, embeddedNodes, cache, records, graph>>
  BY DEF Parse, watcherVars
<1>2. Key(x) = Key(e)
  BY DEF Parsed, Key
<1>3. r \in Nat /\ r + 1 \in DOMAIN fileChanged /\ e = fileChanged[r + 1]
  BY <1>1 DEF PipeInv, StreamType, Stream, Groups, Pending, Event
<1>4. parsedFile \in Seq(ParsedEvents)
  BY DEF PipeInv, StreamType
<1> HIDE DEF e, x
<1>5. /\ DOMAIN parsedFile' = 1 .. last /\ parsedFile'[last] = x
      /\ DOMAIN parsedFile = 1 .. last - 1 /\ last \in Nat \ {0}
      /\ \A i \in 1 .. last - 1 : parsedFile'[i] = parsedFile[i]
  BY <1>1, <1>4
<1> HIDE DEF last
<1>6. read'["parser"] = r + 1
  BY <1>1 DEF Done, PipeInv, StreamType, Groups
<1> HIDE DEF r
<1>7. ASSUME NEW p \in 1 .. last
      PROVE  \E i \in 1 .. r + 1 : Key(fileChanged[i]) = Key(parsedFile'[p])
  <2>1. CASE p = last
    BY <1>2, <1>3, <1>5, <2>1
  <2>2. CASE p # last
    <3>1. p \in 1 .. last - 1
      BY <1>5, <2>2
    <3>2. PICK i \in 1 .. r : Key(fileChanged[i]) = Key(parsedFile[p])
      BY <1>5, <3>1 DEF BodyInv, ParsedOnce, r
    <3> QED
      BY <1>3, <1>5, <3>1, <3>2
  <2> QED
    BY <2>1, <2>2
<1>8. ASSUME NEW p \in 1 .. last - 1 PROVE Key(parsedFile[p]) # Key(x)
  <2>1. PICK i \in 1 .. r : Key(fileChanged[i]) = Key(parsedFile[p])
    BY <1>5 DEF BodyInv, ParsedOnce, r
  <2>2. i \in DOMAIN fileChanged /\ i # r + 1
    BY <1>3, <2>1 DEF PipeInv, StreamType
  <2> QED
    BY <1>2, <1>3, <2>1, <2>2 DEF OnceInv
<1>9. ASSUME NEW p \in 1 .. last, NEW q \in 1 .. last, Key(parsedFile'[p]) = Key(parsedFile'[q])
      PROVE  p = q
  <2>1. p = last \/ p \in 1 .. last - 1
    BY <1>5
  <2>2. q = last \/ q \in 1 .. last - 1
    BY <1>5
  <2> QED
    BY <1>5, <1>8, <1>9, <2>1, <2>2 DEF BodyInv, ParsedOnce
<1>10. ParsedOnce'
  BY <1>1, <1>5, <1>6, <1>7, <1>9 DEF ParsedOnce, Key
<1>11. EmbeddedFromParsed'
  BY <1>1, <1>5 DEF BodyInv, EmbeddedFromParsed, PartOf, Key
<1>12. CacheKeyed'
  <2> SUFFICES ASSUME NEW k \in Keys, cache[k] # 0 PROVE Key(parsedFile'[cache[k]]) = k
    BY <1>1 DEF CacheKeyed, Key
  <2>1. cache[k] \in 1 .. last - 1
    BY <1>5 DEF PipeInv, HandType, last
  <2> QED
    BY <1>5, <2>1 DEF BodyInv, CacheKeyed
<1> QED
  BY <1>1, <1>10, <1>11, <1>12 DEF BodyInv

LEMMA MissingBody == ASSUME PipeInv, BodyInv, ParseMissingFile PROVE BodyInv'
<1>1. /\ Done("parser")
      /\ UNCHANGED <<fileChanged, parsedFile, embeddedNodes, cache, records, graph>>
  BY DEF ParseMissingFile, watcherVars
<1>2. read["parser"] \in Nat /\ read'["parser"] = read["parser"] + 1
  BY <1>1 DEF Done, PipeInv, StreamType, Groups
<1>3. ParsedOnce'
  BY <1>1, <1>2 DEF BodyInv, ParsedOnce, Key
<1>4. (EmbeddedFromParsed /\ CacheKeyed)'
  BY <1>1 DEF BodyInv, EmbeddedFromParsed, CacheKeyed, PartOf, Key
<1> QED
  BY <1>1, <1>3, <1>4 DEF BodyInv

LEMMA EmbedBody == ASSUME PipeInv, BodyInv, EmbedAndEmit PROVE BodyInv'
<1> DEFINE e == Event("embedder")
           x == [file |-> e.file, sha |-> e.sha, nodes |-> [n \in ToEmbed(e) |-> e.nodes[n]]]
           last == Len(embeddedNodes) + 1
           r == read["embedder"] + 1
<1>1. /\ embeddedNodes' = Append(embeddedNodes, x) /\ Done("embedder") /\ Pending("embedder")
      /\ UNCHANGED <<fileChanged, parsedFile, cache, records, graph>>
  BY DEF EmbedAndEmit, watcherVars, PipeInv, HandType
<1>2. PartOf(x, e)
  BY DEF PartOf, Key, ToEmbed
<1>3. r \in DOMAIN parsedFile /\ e = parsedFile[r]
  BY <1>1 DEF PipeInv, StreamType, Stream, Groups, Pending, Event
<1> HIDE DEF e, x, r
<1>4. embeddedNodes \in Seq(EmbeddedEvents)
  BY DEF PipeInv, StreamType
<1>5. /\ DOMAIN embeddedNodes' = 1 .. last /\ embeddedNodes'[last] = x
      /\ DOMAIN embeddedNodes = 1 .. last - 1 /\ last \in Nat \ {0}
      /\ \A i \in 1 .. last - 1 : embeddedNodes'[i] = embeddedNodes[i]
  BY <1>1, <1>4
<1> HIDE DEF last
<1>6. ASSUME NEW j \in 1 .. last
      PROVE  \E p \in DOMAIN parsedFile : PartOf(embeddedNodes'[j], parsedFile[p])
  <2>1. CASE j = last
    BY <1>2, <1>3, <1>5, <2>1
  <2>2. CASE j # last
    <3>1. j \in 1 .. last - 1
      BY <1>5, <2>2
    <3> QED
      BY <1>5, <3>1 DEF BodyInv, EmbeddedFromParsed
  <2> QED
    BY <2>1, <2>2
<1>7. EmbeddedFromParsed'
  BY <1>1, <1>5, <1>6 DEF EmbeddedFromParsed, PartOf, Key
<1>8. read'["parser"] = read["parser"]
  BY <1>1 DEF Done, PipeInv, StreamType, Groups
<1>9. (ParsedOnce /\ CacheKeyed)'
  BY <1>1, <1>8 DEF BodyInv, ParsedOnce, CacheKeyed, Key
<1> QED
  BY <1>1, <1>7, <1>9 DEF BodyInv

LEMMA CacheBody == ASSUME PipeInv, BodyInv, CacheParsed PROVE BodyInv'
<1> DEFINE e == Event("edges")
           r == read["edges"] + 1
<1>1. /\ cache' = [cache EXCEPT ![Key(e)] = r] /\ Pending("edges")
      /\ UNCHANGED <<fileChanged, parsedFile, embeddedNodes, read, records, graph>>
  BY DEF CacheParsed, watcherVars
<1>2. e = parsedFile[r]
  BY <1>1 DEF PipeInv, StreamType, Stream, Groups, Pending, Event
<1> HIDE DEF e, r
<1>3. \A k \in Keys : cache'[k] # 0 => Key(parsedFile[cache'[k]]) = k
  BY <1>1, <1>2 DEF BodyInv, CacheKeyed, PipeInv, HandType
<1>4. CacheKeyed'
  BY <1>1, <1>3 DEF CacheKeyed, Key
<1>5. (ParsedOnce /\ EmbeddedFromParsed)'
  BY <1>1 DEF BodyInv, ParsedOnce, EmbeddedFromParsed, PartOf, Key
<1> QED
  BY <1>1, <1>4, <1>5 DEF BodyInv

LEMMA LookUpBody == ASSUME PipeInv, BodyInv, LookUp PROVE BodyInv'
<1> DEFINE e == Event("nodes")
           at == cache[Key(e)]
           r == read["nodes"] + 1
<1>1. /\ Pending("nodes") /\ at # 0 /\ records' = Joined(e, parsedFile[at])
      /\ UNCHANGED <<fileChanged, parsedFile, embeddedNodes, read, cache, graph>>
  BY DEF LookUp, watcherVars
<1>2. r \in DOMAIN embeddedNodes /\ e = embeddedNodes[r] /\ e \in EmbeddedEvents
  BY <1>1 DEF PipeInv, StreamType, Stream, Groups, Pending, Event
<1> HIDE DEF e, r
<1>3. PICK p \in DOMAIN parsedFile : PartOf(e, parsedFile[p])
  BY <1>2 DEF BodyInv, EmbeddedFromParsed
<1>4. Key(e) \in Keys
  BY <1>2 DEF EmbeddedEvents, Key, Keys
<1>5. at \in DOMAIN parsedFile
  BY <1>1, <1>4 DEF PipeInv, HandType, StreamType
<1>6. Key(parsedFile[at]) = Key(e)
  BY <1>1, <1>4 DEF BodyInv, CacheKeyed
<1> HIDE DEF at
<1>7. at = p
  BY <1>3, <1>5, <1>6 DEF BodyInv, ParsedOnce, PartOf
<1>8. \A n \in DOMAIN records' : records'[n].hash = records'[n].body
  BY <1>1, <1>3, <1>7 DEF Joined, PartOf
<1>9. (ParsedOnce /\ EmbeddedFromParsed /\ CacheKeyed)'
  BY <1>1 DEF BodyInv, ParsedOnce, EmbeddedFromParsed, CacheKeyed, PartOf, Key
<1> QED
  BY <1>1, <1>8, <1>9 DEF BodyInv

(* What the other handlers do to the graph. *)
LEMMA StoreBody ==
  ASSUME PipeInv, BodyInv, UNCHANGED <<fileChanged, parsedFile, embeddedNodes, cache>>,
         read'["parser"] = read["parser"],
         \A n \in DOMAIN records' : records'[n].hash = records'[n].body,
         \A n \in Nodes : graph'[n].hash = graph'[n].body
  PROVE  BodyInv'
<1>1. (ParsedOnce /\ EmbeddedFromParsed /\ CacheKeyed)'
  BY DEF BodyInv, ParsedOnce, EmbeddedFromParsed, CacheKeyed, PartOf, Key
<1> QED
  BY <1>1 DEF BodyInv

LEMMA OnceKept == ASSUME OnceInv, UNCHANGED <<lastSha, scan, fileChanged>> PROVE OnceInv'
  BY DEF OnceInv, Advances, Emitted, Key

LEMMA WatchOnce ==
  ASSUME OneAtATime, NoRescan, TypeInv, OnceInv, Commit \/ \E s \in Scanners : WatcherStep(s),
         faults' = faults
  PROVE  OnceInv'
<1>1. faults \in Nat
  BY DEF TypeInv, WatcherTypeOK
<1>2. \A s \in Scanners : ~ Abandon(s)
  BY <1>1 DEF Abandon
<1> QED
  BY <1>2, CommitOnce, BeginOnce, ListOnce, EmitOnce, SaveOnce DEF WatcherStep, Work

(* Faults are counted and never forgotten. *)
LEMMA WatcherFaults ==
  ASSUME TypeInv, Commit \/ \E s \in Scanners : WatcherStep(s)
  PROVE  faults' = faults \/ faults' = faults + 1
<1>1. Commit => faults' = faults
  BY DEF Commit
<1>2. ASSUME NEW s \in Scanners, WatcherStep(s) PROVE faults' = faults \/ faults' = faults + 1
  BY <1>2 DEF WatcherStep, Work, Hook, Poll, Index, Rescan, Begins, ListFiles, Emit, Save, Abandon
<1> QED
  BY <1>1, <1>2

LEMMA FaultsStay ==
  ASSUME PipeInv, Next
  PROVE  faults' = faults \/ faults' = faults + 1
<1>1. Watch => faults' = faults \/ faults' = faults + 1
  BY WatcherFaults DEF Watch, PipeInv
<1>2. Handlers => faults' = faults \/ faults' = faults + 1
  BY DEF Handlers, Parse, ParseMissingFile, ReadHashes, EmbedAndEmit, CacheParsed, UpsertEdges,
         Tombstone, LookUp, LookUpMisses, UpsertNodes, UpsertPoints, DeletePoints, watcherVars
<1>3. \A g \in Groups : Lose(g) => faults' = faults + 1
  BY DEF Lose, LostUpTo
<1>4. GraphWriterRestart => faults' = faults + 1
  BY DEF GraphWriterRestart, LostUpTo
<1> QED
  BY <1>1, <1>2, <1>3, <1>4 DEF Next

WithoutFaults == faults = 0 => OnceInv /\ BodyInv

LEMMA HandlersBody ==
  ASSUME PipeInv, OnceInv, BodyInv, Handlers, faults' = faults
  PROVE  OnceInv' /\ BodyInv'
<1>0. read \in [Groups -> Nat]
  BY DEF PipeInv, StreamType
<1>1. UNCHANGED <<lastSha, scan, fileChanged>>
  BY DEF Handlers, Parse, ParseMissingFile, ReadHashes, EmbedAndEmit, CacheParsed, UpsertEdges,
         Tombstone, LookUp, LookUpMisses, UpsertNodes, UpsertPoints, DeletePoints, watcherVars
<1>2. OnceInv'
  BY <1>1, OnceKept
<1>3. /\ \A n \in DOMAIN records : records[n].hash = records[n].body
      /\ \A n \in Nodes : graph[n].hash = graph[n].body
  BY DEF BodyInv
<1>4. CASE ReadHashes
  <2>1. UNCHANGED <<parsedFile, embeddedNodes, cache, read, records, graph>>
    BY <1>4 DEF ReadHashes
  <2> QED
    BY <1>1, <1>2, <1>3, <2>1, StoreBody
<1>5. CASE UpsertEdges
  <2>1. read'["parser"] = read["parser"]
    BY <1>0, <1>5 DEF UpsertEdges, Done, Groups
  <2>2. UNCHANGED <<parsedFile, embeddedNodes, cache, records, graph>>
    BY <1>5 DEF UpsertEdges
  <2> QED
    BY <1>1, <1>2, <1>3, <2>1, <2>2, StoreBody
<1>6. CASE Tombstone
  <2> DEFINE gone == Event("edges").deleted
  <2>1. read'["parser"] = read["parser"]
    BY <1>0, <1>6 DEF Tombstone, Done, Groups
  <2>2. graph' = [n \in Nodes |-> [graph[n] EXCEPT !.active = @ /\ n \notin gone]]
    BY <1>6 DEF Tombstone
  <2> HIDE DEF gone
  <2>3. ASSUME NEW n \in Nodes PROVE graph'[n].hash = graph'[n].body
    <3>1. graph[n] \in Stored /\ graph[n].hash = graph[n].body
      BY DEF PipeInv, StoreType, BodyInv
    <3>2. graph'[n] = [graph[n] EXCEPT !.active = graph[n].active /\ n \notin gone]
      BY <2>2
    <3> QED
      BY <3>1, <3>2 DEF Stored, NoNode
  <2>4. UNCHANGED <<parsedFile, embeddedNodes, cache, records>>
    BY <1>6 DEF Tombstone
  <2> QED
    BY <1>1, <1>2, <1>3, <2>1, <2>3, <2>4, StoreBody
<1>7. CASE LookUpMisses
  <2>1. read'["parser"] = read["parser"]
    BY <1>0, <1>7 DEF LookUpMisses, Done, Groups
  <2>2. UNCHANGED <<parsedFile, embeddedNodes, cache, records, graph>>
    BY <1>7 DEF LookUpMisses
  <2> QED
    BY <1>1, <1>2, <1>3, <2>1, <2>2, StoreBody
<1>8. CASE UpsertNodes
  <2>1. read'["parser"] = read["parser"]
    BY <1>0, <1>8 DEF UpsertNodes, Done, Groups
  <2>2. \A n \in Nodes : graph'[n].hash = graph'[n].body
    BY <1>8 DEF UpsertNodes, BodyInv
  <2>3. \A n \in DOMAIN records' : records'[n].hash = records'[n].body
    BY <1>8 DEF UpsertNodes, Nothing
  <2>4. UNCHANGED <<parsedFile, embeddedNodes, cache>>
    BY <1>8 DEF UpsertNodes
  <2> QED
    BY <1>1, <1>2, <2>1, <2>2, <2>3, <2>4, StoreBody
<1>9. CASE UpsertPoints
  <2>1. read'["parser"] = read["parser"]
    BY <1>0, <1>9 DEF UpsertPoints, Done, Groups
  <2>2. UNCHANGED <<parsedFile, embeddedNodes, cache, records, graph>>
    BY <1>9 DEF UpsertPoints
  <2> QED
    BY <1>1, <1>2, <1>3, <2>1, <2>2, StoreBody
<1>10. CASE DeletePoints
  <2>1. read'["parser"] = read["parser"]
    BY <1>0, <1>10 DEF DeletePoints, Done, Groups
  <2>2. UNCHANGED <<parsedFile, embeddedNodes, cache, records, graph>>
    BY <1>10 DEF DeletePoints
  <2> QED
    BY <1>1, <1>2, <1>3, <2>1, <2>2, StoreBody
<1> QED
  BY <1>2, <1>4, <1>5, <1>6, <1>7, <1>8, <1>9, <1>10, ParseBody, MissingBody, EmbedBody, CacheBody,
     LookUpBody DEF Handlers

LEMMA BodyStep == OneAtATime /\ NoRescan /\ PipeInv /\ WithoutFaults /\ [Next]_vars => WithoutFaults'
<1> SUFFICES ASSUME OneAtATime, NoRescan, PipeInv, WithoutFaults, [Next]_vars, faults' = 0
             PROVE  OnceInv' /\ BodyInv'
  BY DEF WithoutFaults
<1>1. CASE UNCHANGED vars
  <2>1. UNCHANGED watcherVars /\ UNCHANGED pipeVars
    BY <1>1 DEF vars
  <2>2. OnceInv /\ BodyInv
    BY <2>1 DEF WithoutFaults, watcherVars
  <2>3. OnceInv'
    BY <2>1, <2>2, OnceKept DEF watcherVars
  <2>4. BodyInv'
    BY <2>1, <2>2, StoreBody DEF pipeVars, watcherVars, BodyInv
  <2> QED
    BY <2>3, <2>4
<1>2. CASE Next
  <2>1. faults = 0 /\ faults' = faults
    <3>1. faults \in Nat
      BY DEF PipeInv, TypeInv, WatcherTypeOK
    <3> QED
      BY <1>2, <3>1, FaultsStay
  <2>2. OnceInv /\ BodyInv
    BY <2>1 DEF WithoutFaults
  <2>3. CASE Watch
    <3>1. BodyInv'
      BY <2>2, <2>3, WatchBody
    <3>2. OnceInv'
      BY <2>1, <2>2, <2>3, WatchOnce DEF Watch, PipeInv
    <3> QED
      BY <3>1, <3>2
  <2>4. CASE Handlers
    BY <2>1, <2>2, <2>4, HandlersBody
  <2>5. ~ (\E g \in Groups : Lose(g)) /\ ~ GraphWriterRestart
    BY <2>1 DEF Lose, GraphWriterRestart, LostUpTo
  <2> QED
    BY <1>2, <2>3, <2>4, <2>5 DEF Next
<1> QED
  BY <1>1, <1>2

(* In every run without failures in which the commits are indexed one at a *)
(* time and none is indexed anew, the graph has with every node the body   *)
(* its hash and embedding were computed from: the cache the node consumer  *)
(* looks the body up in never holds another parse of that file and commit. *)
THEOREM BodyBelongsToHash == OneAtATime /\ NoRescan => (Spec => []BodyMatchesHash)
<1> SUFFICES ASSUME OneAtATime, NoRescan PROVE Spec => []BodyMatchesHash
  OBVIOUS
<1>1. Init => WithoutFaults
  BY InitOnce, InitBody DEF WithoutFaults
<1>2. PipeInv /\ WithoutFaults /\ [Next]_vars => WithoutFaults'
  BY BodyStep
<1>3. WithoutFaults => BodyMatchesHash
  BY DEF WithoutFaults, BodyInv, BodyMatchesHash
<1> QED
  BY <1>1, <1>2, <1>3, PipeHolds, PTL DEF Spec

-----------------------------------------------------------------------------
(* Both stores show HEAD, when the next commit waits for the last.         *)

(* The events a group has still to handle, and those that g has handled    *)
(* and h has not.                                                          *)
Ahead(g) == {Stream(g)[i] : i \in read[g] + 1 .. Len(Stream(g))}
Between(g, h) == {Stream(g)[i] : i \in read[h] + 1 .. read[g]}

(* What HEAD says of a node. *)
TipHas(n) == TreeAt(Tip)[n]

(* A run under way is about HEAD, and compares with the recorded commit or *)
(* with none, unless HEAD is recorded already.  What it neither has named  *)
(* nor will visit is not in HEAD (a full rescan), or is as it was, or is   *)
(* in the old file of a rename.                                            *)
AtTip(s) ==
  /\ scan[s].pc # "emit" => scan[s].named = {}
  /\ scan[s].pc = "begin" =>
       /\ scan[s].cur = Tip
       /\ scan[s].kind \in {"hook", "poll"} \/ scan[s].prev \in {0, lastSha} \/ lastSha = Tip
  /\ scan[s].pc = "emit" =>
       /\ scan[s].cur = Tip /\ (scan[s].prev \in {0, lastSha} \/ lastSha = Tip)
       /\ \A n \in Nodes \ scan[s].named :
            \/ FileOf[n] \in scan[s].todo
            \/ scan[s].prev = 0 /\ TipHas(n) = Absent
            \/ scan[s].prev # 0 /\
                 LET t == TreeAt(scan[s].prev) IN
                 t[n] = TipHas(n) \/ RenamedFrom(t, TreeAt(Tip), FileOf[n])

(* An event of the watcher that is true of HEAD. *)
OfTip(e) ==
  /\ \A n \in Mentioned(e) : FileOf[n] = e.file
  /\ \A n \in e.changed \cup e.added : TipHas(n) # Absent
  /\ \A n \in e.deleted : TipHas(n) = Absent
  /\ e.type = "deleted" => ~ Exists(TreeAt(Tip), e.file)

NodesOfTip(e) == \A n \in DOMAIN e.nodes : e.nodes[n] = TipHas(n)
GoneAtTip(e) == \A n \in e.deleted : TipHas(n) = Absent

(* What is on its way is true of HEAD. *)
FlowInv ==
  /\ \A e \in Ahead("parser") \cup Ahead("vdelete") : OfTip(e)
  /\ \A e \in Ahead("embedder") : NodesOfTip(e)
  /\ \A e \in Ahead("edges") : GoneAtTip(e)
  /\ \A e \in Ahead("nodes") \cup Ahead("vectors") : NodesOfTip(e)

(* What a handler has in hand belongs to its event. *)
HandInv ==
  /\ "embedder" \in busy => \A n \in DOMAIN Event("embedder").nodes :
       known[n] = Event("embedder").nodes[n] => graph[n].hash = known[n]
  /\ "nodes" \in busy => LET e == Event("nodes") IN
       /\ DOMAIN records \subseteq DOMAIN e.nodes
       /\ \A n \in DOMAIN records : records[n].hash = e.nodes[n]
       /\ DOMAIN e.nodes \ DOMAIN records \subseteq graphStale

(* The nodes the events have to bring to HEAD: a run has named them, or    *)
(* the recorded commit has them as HEAD does and nothing went wrong.       *)
Due(n) ==
  \/ \E s \in Scanners : n \in scan[s].named
  \/ Indexed(n) = TipHas(n) /\ n \notin torn /\ (TipHas(n) = Absent => n \notin ghost)

(* An event about the node that the graph has still to see. *)
Coming(n) ==
  \/ \E e \in Ahead("parser") : n \in Mentioned(e)
  \/ \E e \in Ahead("embedder") : n \in DOMAIN e.nodes
  \/ \E e \in Ahead("nodes") : n \in DOMAIN e.nodes
  \/ \E e \in Ahead("edges") : n \in e.deleted

Shown(n) == (IF Active(n) THEN graph[n].hash ELSE Absent) = TipHas(n)

GraphInv == \A n \in Nodes \ graphStale : Due(n) => Coming(n) \/ Shown(n)

(* The same of Qdrant. *)
VecComing(n) ==
  \/ \E e \in Ahead("parser") : n \in e.changed \cup e.added
  \/ \E e \in Ahead("embedder") : n \in DOMAIN e.nodes
  \/ \E e \in Ahead("vectors") : n \in DOMAIN e.nodes
  \/ \E e \in Ahead("vdelete") : n \in e.deleted

VecInv == \A n \in Nodes \ vecStale : Due(n) => VecComing(n) \/ vec[n] = TipHas(n)

(* The two stores keep pace: a node the graph shows has that version in    *)
(* Qdrant, or an event that one of them has not seen will change that.     *)
Uneven(n) ==
  \/ \E e \in Ahead("nodes") \cup Ahead("vectors") : n \in DOMAIN e.nodes
  \/ \E e \in Ahead("parser") : n \in e.deleted
  \/ \E e \in Ahead("edges") : n \in e.deleted

PaceInv ==
  /\ \A n \in Nodes \ (graphStale \cup vecStale) :
       Active(n) => vec[n] = graph[n].hash \/ Uneven(n)
  /\ \A e \in Between("nodes", "vectors") : \A n \in DOMAIN e.nodes :
       n \in graphStale \/ graph[n].hash = TipHas(n)
  /\ \A e \in Between("vectors", "nodes") : \A n \in DOMAIN e.nodes :
       n \in vecStale \/ vec[n] = TipHas(n)
  /\ \A e \in Between("parser", "vdelete") : \A n \in e.deleted :
       \/ n \in graphStale \/ ~ Active(n)
       \/ \E d \in Ahead("edges") : n \in d.deleted

-----------------------------------------------------------------------------
(* What is ahead of the groups.                                            *)

LEMMA AheadTypes ==
  ASSUME StreamType
  PROVE  /\ Ahead("parser") \subseteq Events /\ Ahead("vdelete") \subseteq Events
         /\ Ahead("embedder") \subseteq ParsedEvents /\ Ahead("edges") \subseteq ParsedEvents
         /\ Ahead("nodes") \subseteq EmbeddedEvents /\ Ahead("vectors") \subseteq EmbeddedEvents
<1>1. ASSUME NEW S, NEW q \in Seq(S), NEW r \in Nat
      PROVE  {q[i] : i \in r + 1 .. Len(q)} \subseteq S
  OBVIOUS
<1>2. /\ fileChanged \in Seq(Events) /\ parsedFile \in Seq(ParsedEvents)
      /\ embeddedNodes \in Seq(EmbeddedEvents)
      /\ \A g \in Groups : read[g] \in Nat
  BY DEF StreamType
<1>3. {"parser", "vdelete", "embedder", "edges", "nodes", "vectors"} \subseteq Groups
  BY DEF Groups
<1>4. /\ {fileChanged[i] : i \in read["parser"] + 1 .. Len(fileChanged)} \subseteq Events
      /\ {fileChanged[i] : i \in read["vdelete"] + 1 .. Len(fileChanged)} \subseteq Events
  BY <1>1, <1>2, <1>3
<1>5. /\ {parsedFile[i] : i \in read["embedder"] + 1 .. Len(parsedFile)} \subseteq ParsedEvents
      /\ {parsedFile[i] : i \in read["edges"] + 1 .. Len(parsedFile)} \subseteq ParsedEvents
  BY <1>1, <1>2, <1>3
<1>6. /\ {embeddedNodes[i] : i \in read["nodes"] + 1 .. Len(embeddedNodes)} \subseteq EmbeddedEvents
      /\ {embeddedNodes[i] : i \in read["vectors"] + 1 .. Len(embeddedNodes)} \subseteq EmbeddedEvents
  BY <1>1, <1>2, <1>3
<1> QED
  BY <1>4, <1>5, <1>6, StreamIs DEF Ahead

(* The event in hand is the first of them.                                 *)
LEMMA EventAhead ==
  ASSUME StreamType, NEW g \in Groups, Pending(g)
  PROVE  Event(g) \in Ahead(g)
<1>1. read[g] \in Nat /\ Len(Stream(g)) \in Nat
  BY DEF StreamType, Stream
<1> QED
  BY <1>1 DEF Pending, Event, Ahead

LEMMA NothingAhead ==
  ASSUME StreamType, NEW g \in Groups, ~ Pending(g)
  PROVE  Ahead(g) = {}
<1>1. read[g] \in Nat /\ Len(Stream(g)) \in Nat
  BY DEF StreamType, Stream
<1> QED
  BY <1>1 DEF Pending, Ahead

(* What does not move stays.                                               *)
LEMMA KeptAhead ==
  ASSUME NEW g \in Groups, Stream(g)' = Stream(g), read'[g] = read[g]
  PROVE  /\ Ahead(g)' = Ahead(g) /\ Event(g)' = Event(g)
         /\ \A h \in Groups : read'[h] = read[h] => Between(g, h)' = Between(g, h)
  BY DEF Ahead, Event, Between

(* A group that is done with its event leaves it behind.                   *)
LEMMA DoneAhead ==
  ASSUME StreamType, NEW g \in Groups, Pending(g), Done(g), Stream(g)' = Stream(g)
  PROVE  /\ Ahead(g) = {Event(g)} \cup Ahead(g)'
         /\ \A h \in Groups \ {g} : read'[h] = read[h]
<1>1. read[g] \in Nat /\ Len(Stream(g)) \in Nat /\ read[g] < Len(Stream(g))
  BY DEF StreamType, Stream, Pending
<1>2. read'[g] = read[g] + 1 /\ \A h \in Groups \ {g} : read'[h] = read[h]
  BY DEF Done, StreamType
<1>3. Ahead(g)' = {Stream(g)[i] : i \in read[g] + 1 + 1 .. Len(Stream(g))}
  BY <1>2 DEF Ahead
<1>4. Ahead(g) = {Event(g)} \cup Ahead(g)'
  <2>1. \A i \in read[g] + 1 .. Len(Stream(g)) :
          i = read[g] + 1 \/ i \in read[g] + 1 + 1 .. Len(Stream(g))
    BY <1>1
  <2>2. /\ read[g] + 1 \in read[g] + 1 .. Len(Stream(g))
        /\ read[g] + 1 + 1 .. Len(Stream(g)) \subseteq read[g] + 1 .. Len(Stream(g))
    BY <1>1
  <2>3. Ahead(g) = {Stream(g)[i] : i \in read[g] + 1 .. Len(Stream(g))}
    BY DEF Ahead
  <2>4. Event(g) = Stream(g)[read[g] + 1]
    BY DEF Event
  <2> QED
    BY <1>3, <2>1, <2>2, <2>3, <2>4
<1> QED
  BY <1>2, <1>4

(* ... and ahead of the other reader of its stream or behind it.           *)
LEMMA DoneBetween ==
  ASSUME StreamType, NEW g \in Groups, NEW h \in Groups \ {g}, Pending(g), Done(g),
         Stream(g)' = Stream(g), Stream(h)' = Stream(h)
  PROVE  /\ Between(g, h)' \subseteq Between(g, h) \cup {Event(g)}
         /\ Between(h, g)' \subseteq Between(h, g)
         /\ Stream(g) = Stream(h) => Event(g) \in Ahead(h) \cup Between(h, g)
<1>1. /\ read[g] \in Nat /\ Len(Stream(g)) \in Nat /\ read[g] < Len(Stream(g))
      /\ read[h] \in Nat
  BY DEF StreamType, Stream, Pending
<1>2. read'[g] = read[g] + 1 /\ read'[h] = read[h]
  BY DEF Done, StreamType
<1>3. Between(g, h)' = {Stream(g)[i] : i \in read[h] + 1 .. read[g] + 1}
  BY <1>2 DEF Between
<1>4. Between(g, h)' \subseteq Between(g, h) \cup {Event(g)}
  <2>1. \A i \in read[h] + 1 .. read[g] + 1 : i = read[g] + 1 \/ i \in read[h] + 1 .. read[g]
    BY <1>1
  <2>2. /\ Between(g, h) = {Stream(g)[i] : i \in read[h] + 1 .. read[g]}
        /\ Event(g) = Stream(g)[read[g] + 1]
    BY DEF Between, Event
  <2> QED
    BY <1>3, <2>1, <2>2
<1>5. Between(h, g)' = {Stream(h)[i] : i \in read[g] + 1 + 1 .. read[h]}
  BY <1>2 DEF Between
<1>6. Between(h, g)' \subseteq Between(h, g)
  <2>1. read[g] + 1 + 1 .. read[h] \subseteq read[g] + 1 .. read[h]
    BY <1>1
  <2>2. Between(h, g) = {Stream(h)[i] : i \in read[g] + 1 .. read[h]}
    BY DEF Between
  <2> QED
    BY <1>5, <2>1, <2>2
<1>7. Stream(g) = Stream(h) => Event(g) \in Ahead(h) \cup Between(h, g)
  BY <1>1 DEF Ahead, Between, Event
<1> QED
  BY <1>4, <1>6, <1>7

(* A new event is ahead of every group of its stream.                      *)
LEMMA AppendAhead ==
  ASSUME StreamType, NEW g \in Groups, NEW x, Stream(g)' = Append(Stream(g), x),
         read'[g] = read[g]
  PROVE  /\ Ahead(g)' = Ahead(g) \cup {x}
         /\ Pending(g) => Event(g)' = Event(g)
         /\ \A h \in Groups : read'[h] = read[h] => Between(g, h)' = Between(g, h)
<1> DEFINE q == Stream(g)
           r == read[g]
           last == Len(q) + 1
<1>1. r \in Nat /\ Len(q) \in Nat /\ r <= Len(q) /\ \E S : q \in Seq(S)
  BY DEF StreamType, Stream
<1>2. /\ Len(Append(q, x)) = last /\ Append(q, x)[last] = x
      /\ \A i \in 1 .. Len(q) : Append(q, x)[i] = q[i]
  BY <1>1
<1>3. Ahead(g)' = {Append(q, x)[i] : i \in r + 1 .. last}
  BY <1>2 DEF Ahead
<1>4. Ahead(g) = {q[i] : i \in r + 1 .. Len(q)}
  BY DEF Ahead
<1>5. ASSUME Pending(g) PROVE Event(g)' = Event(g)
  BY <1>1, <1>2, <1>5 DEF Event, Pending
<1>6. ASSUME NEW h \in Groups, read'[h] = read[h] PROVE Between(g, h)' = Between(g, h)
  <2>1. Between(g, h)' = {Append(q, x)[i] : i \in read[h] + 1 .. r}
    BY <1>6 DEF Between
  <2>2. Between(g, h) = {q[i] : i \in read[h] + 1 .. r}
    BY DEF Between
  <2>3. read[h] \in Nat
    BY DEF StreamType
  <2>4. \A i \in read[h] + 1 .. r : Append(q, x)[i] = q[i]
    BY <1>1, <1>2, <2>3
  <2> HIDE DEF q, r
  <2> QED
    BY <2>1, <2>2, <2>4
<1> HIDE DEF q, r
<1>7. Ahead(g)' = Ahead(g) \cup {x}
  <2>1. \A i \in r + 1 .. last : i = last \/ i \in r + 1 .. Len(q)
    BY <1>1
  <2>2. last \in r + 1 .. last /\ r + 1 .. Len(q) \subseteq r + 1 .. last
    BY <1>1
  <2>3. \A i \in r + 1 .. Len(q) : Append(q, x)[i] = q[i]
    BY <1>1, <1>2
  <2> HIDE DEF last
  <2> QED
    BY <1>2, <1>3, <1>4, <2>1, <2>2, <2>3
<1> QED
  BY <1>5, <1>6, <1>7

(* What is lost is marked, and the rest stays ahead.                       *)
LEMMA LossAhead ==
  ASSUME StreamType, NEW m, m \in [Groups -> Nat], LostUpTo(m),
         \A g \in Groups : read[g] <= m[g] /\ m[g] <= Len(Stream(g)), NEW g \in Groups
  PROVE  /\ Ahead(g)' \subseteq Ahead(g)
         /\ m[g] = read[g] => Event(g)' = Event(g)
         /\ \A e \in Ahead(g) \ Ahead(g)' :
              GraphNeeds(g, e) \subseteq graphStale' /\ VectorNeeds(g, e) \subseteq vecStale'
         /\ \A h \in Groups : \A e \in Between(g, h)' \ Between(g, h) :
              GraphNeeds(g, e) \subseteq graphStale' /\ VectorNeeds(g, e) \subseteq vecStale'
<1>1. read' = m /\ Stream(g)' = Stream(g)
  BY DEF LostUpTo, Stream
<1>2. read[g] \in Nat /\ m[g] \in Nat /\ Len(Stream(g)) \in Nat
  BY DEF StreamType, Stream
<1>3. \A i \in read[g] + 1 .. m[g] :
        /\ GraphNeeds(g, Stream(g)[i]) \subseteq graphStale'
        /\ VectorNeeds(g, Stream(g)[i]) \subseteq vecStale'
  BY LossMarks
<1>4. Ahead(g)' = {Stream(g)[i] : i \in m[g] + 1 .. Len(Stream(g))}
  BY <1>1 DEF Ahead
<1>5. Ahead(g) = {Stream(g)[i] : i \in read[g] + 1 .. Len(Stream(g))}
  BY DEF Ahead
<1>6. Ahead(g)' \subseteq Ahead(g)
  <2>1. m[g] + 1 .. Len(Stream(g)) \subseteq read[g] + 1 .. Len(Stream(g))
    BY <1>2
  <2> QED
    BY <1>4, <1>5, <2>1
<1>7. ASSUME NEW e \in Ahead(g) \ Ahead(g)' PROVE \E i \in read[g] + 1 .. m[g] : e = Stream(g)[i]
  <2>1. \A i \in read[g] + 1 .. Len(Stream(g)) :
          i \in read[g] + 1 .. m[g] \/ i \in m[g] + 1 .. Len(Stream(g))
    BY <1>2
  <2> QED
    BY <1>4, <1>5, <2>1
<1>8. ASSUME NEW h \in Groups, NEW e \in Between(g, h)' \ Between(g, h)
      PROVE  \E i \in read[g] + 1 .. m[g] : e = Stream(g)[i]
  <2>1. Between(g, h)' = {Stream(g)[i] : i \in m[h] + 1 .. m[g]}
    BY <1>1 DEF Between
  <2>2. Between(g, h) = {Stream(g)[i] : i \in read[h] + 1 .. read[g]}
    BY DEF Between
  <2>3. read[h] \in Nat /\ m[h] \in Nat /\ read[h] <= m[h]
    BY DEF StreamType
  <2>4. \A i \in m[h] + 1 .. m[g] : i \in read[h] + 1 .. read[g] \/ i \in read[g] + 1 .. m[g]
    BY <1>2, <2>3
  <2> QED
    BY <1>8, <2>1, <2>2, <2>4
<1>9. m[g] = read[g] => Event(g)' = Event(g)
  BY <1>1 DEF Event
<1>10. \A e \in Ahead(g) \ Ahead(g)' :
         GraphNeeds(g, e) \subseteq graphStale' /\ VectorNeeds(g, e) \subseteq vecStale'
  BY <1>3, <1>7
<1>11. \A h \in Groups : \A e \in Between(g, h)' \ Between(g, h) :
         GraphNeeds(g, e) \subseteq graphStale' /\ VectorNeeds(g, e) \subseteq vecStale'
  BY <1>3, <1>8
<1> QED
  BY <1>6, <1>9, <1>10, <1>11

-----------------------------------------------------------------------------
(* The watcher, of HEAD.                                                   *)

LEMMA DeletedIs == \A t, u, f : DiffType(t, u, f) = "deleted" => ~ Exists(u, f)
  BY DEF DiffType

LEMMA EventOfTip ==
  ASSUME NEW f \in Files, NEW p
  PROVE  OfTip(EventFor(f, p, Tip))
<1>1. CASE p = 0
  BY <1>1 DEF EventFor, OfTip, Mentioned, NodesIn, NodesOf, TipHas
<1>2. CASE p # 0
  <2> DEFINE t == TreeAt(p)
             u == TreeAt(Tip)
             e == [file |-> f, sha |-> Tip, type |-> DiffType(t, u, f),
                   changed |-> ChangedNodes(t, u, f).changed,
                   added |-> ChangedNodes(t, u, f).added,
                   deleted |-> ChangedNodes(t, u, f).deleted]
  <2>1. EventFor(f, p, Tip) = e
    BY <1>2 DEF EventFor
  <2>2. e.type = "deleted" => ~ Exists(u, f)
    BY DeletedIs
  <2>3. /\ \A n \in Mentioned(e) : FileOf[n] = f
        /\ \A n \in e.changed \cup e.added : u[n] # Absent
        /\ \A n \in e.deleted : u[n] = Absent
    BY DEF Mentioned, ChangedNodes, NodesIn, NodesOf
  <2> QED
    BY <2>1, <2>2, <2>3 DEF OfTip, TipHas
<1> QED
  BY <1>1, <1>2

LEMMA OtherAt ==
  ASSUME NEW s, AtTip(s), commits' = commits, scan'[s] = scan[s],
         lastSha' = lastSha \/ lastSha' = Tip
  PROVE  AtTip(s)'
  BY DEF AtTip, TipHas, Tip, TreeAt

(* What a step that leaves HEAD and the recorded commit does to Due. *)
LEMMA DueKept ==
  ASSUME UNCHANGED <<commits, lastSha, ghost>>, torn \subseteq torn',
         \A s \in Scanners : scan'[s].named \subseteq scan[s].named, NEW n, Due(n)'
  PROVE  Due(n)
  BY DEF Due, Indexed, TipHas, TreeAt, Tip

LEMMA BeginAt ==
  ASSUME TypeInv, \A t \in Scanners : AtTip(t), NEW s \in Scanners,
         Hook(s) \/ Poll(s) \/ Index(s) \/ Rescan(s)
  PROVE  /\ (\A t \in Scanners : AtTip(t))'
         /\ \A n : Due(n)' => Due(n)
<1>1. PICK k, p, c :
        /\ Begins(s, k, p, c)
        /\ c = Tip
        /\ k \notin {"hook", "poll"} => p \in {0, lastSha}
  BY DEF Hook, Poll, Index, Rescan
<1> DEFINE r == [Idle EXCEPT !.pc = "begin", !.kind = k, !.prev = p, !.cur = c]
<1>2. scan' = [scan EXCEPT ![s] = r] /\ UNCHANGED <<commits, lastSha, torn, ghost>>
  BY <1>1 DEF Begins
<1>3. scan \in [Scanners -> Scans]
  BY DEF TypeInv, WatcherTypeOK, Scans
<1>4. /\ scan'[s].pc = "begin" /\ scan'[s].kind = k /\ scan'[s].prev = p
      /\ scan'[s].cur = c /\ scan'[s].named = {}
      /\ \A t \in Scanners \ {s} : scan'[t] = scan[t]
  BY <1>2, <1>3 DEF Idle
<1>5. AtTip(s)'
  BY <1>1, <1>2, <1>4 DEF AtTip, Tip
<1>6. \A t \in Scanners \ {s} : AtTip(t)'
  BY <1>2, <1>4, OtherAt
<1>7. \A t \in Scanners : scan'[t].named \subseteq scan[t].named
  BY <1>4
<1> QED
  BY <1>2, <1>5, <1>6, <1>7, DueKept

LEMMA ListAt ==
  ASSUME TypeInv, \A t \in Scanners : AtTip(t), NEW s \in Scanners, ListFiles(s)
  PROVE  /\ (\A t \in Scanners : AtTip(t))'
         /\ \A n : Due(n)' => Due(n)
<1> DEFINE k == scan[s].kind
           prev == IF k \in {"hook", "poll"} THEN lastSha ELSE scan[s].prev
<1>0. PICK cur \in ReadAsHead(s) :
        scan' = [scan EXCEPT ![s] =
                   IF k = "poll" /\ prev = cur THEN Idle
                   ELSE [scan[s] EXCEPT !.pc = "emit", !.prev = prev, !.cur = cur,
                                        !.todo = FilesToVisit(prev, cur)]]
  BY DEF ListFiles
<1> DEFINE r == IF k = "poll" /\ prev = cur THEN Idle
                ELSE [scan[s] EXCEPT !.pc = "emit", !.prev = prev, !.cur = cur,
                                     !.todo = FilesToVisit(prev, cur)]
<1>1. /\ scan[s].pc = "begin" /\ scan' = [scan EXCEPT ![s] = r]
      /\ UNCHANGED <<commits, lastSha, torn, ghost>>
  BY <1>0 DEF ListFiles
<1>2. scan \in [Scanners -> Scans]
  BY DEF TypeInv, WatcherTypeOK, Scans
<1>3. cur = Tip /\ (prev \in {0, lastSha} \/ lastSha = Tip) /\ scan[s].named = {}
  <2>1. Tip \in Nat
    BY DEF TypeInv, WatcherTypeOK
  <2>2. cur \in Tip .. Tip
    BY <1>0, <1>1 DEF AtTip, ReadAsHead
  <2> QED
    BY <1>1, <2>1, <2>2 DEF AtTip
<1>4. scan'[s] = r /\ \A t \in Scanners \ {s} : scan'[t] = scan[t]
  BY <1>1, <1>2
<1>5. /\ r.named = {} /\ r.pc # "begin"
      /\ r.pc = "emit" => r.prev = prev /\ r.cur = cur /\ r.todo = FilesToVisit(prev, cur)
  BY <1>2, <1>3 DEF Scans, Idle
<1> HIDE DEF r, k, prev
<1>6. ASSUME NEW n \in Nodes
      PROVE  \/ FileOf[n] \in FilesToVisit(prev, Tip)
             \/ prev = 0 /\ TipHas(n) = Absent
             \/ prev # 0 /\ (TreeAt(prev)[n] = TipHas(n)
                              \/ RenamedFrom(TreeAt(prev), TreeAt(Tip), FileOf[n]))
  BY NodesAssumption DEF FilesToVisit, ChangedFiles, Exists, NodesIn, NodesOf, TipHas
<1>7. AtTip(s)'
  BY <1>1, <1>3, <1>4, <1>5, <1>6 DEF AtTip, Tip, TipHas, TreeAt
<1>8. \A t \in Scanners \ {s} : AtTip(t)'
  BY <1>1, <1>4, OtherAt
<1>9. \A t \in Scanners : scan'[t].named \subseteq scan[t].named
  BY <1>4, <1>5
<1> QED
  BY <1>1, <1>7, <1>8, <1>9, DueKept

LEMMA EmitAt ==
  ASSUME TypeInv, \A t \in Scanners : AtTip(t), NEW s \in Scanners, Emit(s)
  PROVE  /\ (\A t \in Scanners : AtTip(t))'
         /\ \E e : /\ fileChanged' = Append(fileChanged, e) /\ OfTip(e)
                   /\ \A n \in Nodes : Due(n)' => Due(n) \/ n \in Mentioned(e)
<1> DEFINE f == NextFile(s)
           e == EventFor(f, scan[s].prev, scan[s].cur)
<1>1. /\ scan[s].pc = "emit" /\ scan[s].todo # {} /\ fileChanged' = Append(fileChanged, e)
      /\ scan' = [scan EXCEPT ![s].todo = @ \ {f},
                              ![s].named = @ \cup e.changed \cup e.added \cup e.deleted]
      /\ UNCHANGED <<commits, lastSha, torn, ghost>>
  BY DEF Emit
<1>2. f \in Files
  BY <1>1, NextIsLeft
<1>3. scan \in [Scanners -> Scans]
  BY DEF TypeInv, WatcherTypeOK, Scans
<1>4. scan[s].cur = Tip
  BY <1>1 DEF AtTip
<1>5. OfTip(e)
  BY <1>2, <1>4, EventOfTip
<1>6. \A n \in Nodes \ Mentioned(e) : FileOf[n] = f =>
        \/ scan[s].prev = 0 /\ TipHas(n) = Absent
        \/ scan[s].prev # 0 /\ TreeAt(scan[s].prev)[n] = TipHas(n)
  <2>1. CASE scan[s].prev = 0
    BY <1>4, <2>1 DEF EventFor, Mentioned, NodesIn, NodesOf, TipHas
  <2>2. CASE scan[s].prev # 0
    BY <1>2, <1>4, <2>2, EventSays DEF Names, Mentioned, TipHas
  <2> QED
    BY <2>1, <2>2
<1> HIDE DEF e, f
<1>7. /\ scan'[s].todo = scan[s].todo \ {f} /\ scan'[s].named = scan[s].named \cup Mentioned(e)
      /\ scan'[s].pc = "emit" /\ scan'[s].prev = scan[s].prev /\ scan'[s].cur = scan[s].cur
      /\ \A t \in Scanners \ {s} : scan'[t] = scan[t]
  BY <1>1, <1>3 DEF Scans, Mentioned
<1>8. AtTip(s)'
  <2>1. UNCHANGED <<Tip, lastSha>> /\ \A x : TreeAt(x)' = TreeAt(x) /\ \A n : TipHas(n)' = TipHas(n)
    BY <1>1 DEF Tip, TreeAt, TipHas
  <2>2. ASSUME NEW n \in Nodes \ scan'[s].named
        PROVE  \/ FileOf[n] \in scan'[s].todo
               \/ scan[s].prev = 0 /\ TipHas(n) = Absent
               \/ scan[s].prev # 0 /\ (TreeAt(scan[s].prev)[n] = TipHas(n)
                    \/ RenamedFrom(TreeAt(scan[s].prev), TreeAt(Tip), FileOf[n]))
    BY <1>1, <1>6, <1>7, <2>2 DEF AtTip
  <2>3. scan[s].prev \in {0, lastSha} \/ lastSha = Tip
    BY <1>1 DEF AtTip
  <2> QED
    BY <1>1, <1>4, <1>7, <2>1, <2>2, <2>3 DEF AtTip
<1>9. \A t \in Scanners \ {s} : AtTip(t)'
  BY <1>1, <1>7, OtherAt
<1>10. \A n \in Nodes : Due(n)' => Due(n) \/ n \in Mentioned(e)
  BY <1>1, <1>7 DEF Due, Indexed, TipHas, Tip, TreeAt
<1> QED
  BY <1>1, <1>5, <1>8, <1>9, <1>10

LEMMA SaveAt ==
  ASSUME TypeInv, \A t \in Scanners : AtTip(t), NEW s \in Scanners, Save(s)
  PROVE  /\ (\A t \in Scanners : AtTip(t))'
         /\ \A n \in Nodes : Due(n)' => Due(n)
<1>1. /\ scan[s].pc = "emit" /\ scan[s].todo = {}
      /\ lastSha' = scan[s].cur
      /\ torn' = (torn \ scan[s].named) \cup Unlisted(s)
      /\ ghost' = (ghost \cup Vanished(s)) \ scan[s].named
      /\ scan' = [scan EXCEPT ![s] = Idle]
      /\ commits' = commits
  BY DEF Save
<1>2. scan \in [Scanners -> Scans] /\ Tip > 0 /\ Tip \in Nat /\ lastSha \in Nat
  BY Bounds DEF TypeInv, WatcherTypeOK, Scans
<1>3. scan'[s] = Idle /\ \A t \in Scanners \ {s} : scan'[t] = scan[t]
  BY <1>1, <1>2
<1>4. scan[s].cur = Tip /\ (scan[s].prev \in {0, lastSha} \/ lastSha = Tip)
  BY <1>1 DEF AtTip
<1>5. \A t \in Scanners \ {s} : AtTip(t)'
  BY <1>1, <1>3, <1>4, OtherAt
<1>6. AtTip(s)'
  BY <1>3 DEF AtTip, Idle
<1>7. ASSUME NEW n \in Nodes, Due(n)' PROVE Due(n)
  <2>1. CASE n \in scan[s].named
    BY <2>1 DEF Due
  <2>2. CASE \E t \in Scanners : n \in scan'[t].named
    BY <1>3, <2>2 DEF Due, Idle
  <2>3. CASE n \notin scan[s].named /\ ~ (\E t \in Scanners : n \in scan'[t].named)
    <3>1. TipHas(n)' = TipHas(n)
      BY <1>1 DEF TipHas, Tip, TreeAt
    <3>2. n \notin torn' /\ (TipHas(n) = Absent => n \notin ghost')
      BY <1>7, <2>3, <3>1 DEF Due
    <3>3. n \notin torn /\ (TipHas(n) = Absent => n \notin ghost /\ n \notin Vanished(s))
      BY <1>1, <2>3, <3>2
    <3>4. \/ scan[s].prev = 0 /\ TipHas(n) = Absent
          \/ scan[s].prev # 0 /\ (TreeAt(scan[s].prev)[n] = TipHas(n)
               \/ RenamedFrom(TreeAt(scan[s].prev), TreeAt(Tip), FileOf[n]))
      BY <1>1, <2>3 DEF AtTip
    <3>5. Indexed(n) = TipHas(n)
      <4>1. CASE scan[s].prev = 0
        BY <3>3, <3>4, <4>1 DEF Vanished, Indexed
      <4>2. CASE scan[s].prev # 0 /\ TreeAt(scan[s].prev)[n] = TipHas(n)
        BY <1>2, <1>4, <4>2 DEF Indexed, TipHas
      <4>3. CASE scan[s].prev # 0 /\ RenamedFrom(TreeAt(scan[s].prev), TreeAt(Tip), FileOf[n])
        <5>1. n \in Vanished(s)
          BY <1>4, <4>3 DEF Vanished
        <5>2. TipHas(n) = Absent
          BY <4>3 DEF RenamedFrom, Exists, NodesIn, NodesOf, TipHas
        <5> QED
          BY <3>3, <5>1, <5>2
      <4> QED
        BY <3>4, <4>1, <4>2, <4>3
    <3> QED
      BY <3>3, <3>5 DEF Due
  <2> QED
    BY <2>1, <2>2, <2>3
<1> QED
  BY <1>5, <1>6, <1>7

LEMMA AbandonAt ==
  ASSUME TypeInv, \A t \in Scanners : AtTip(t), NEW s \in Scanners, Abandon(s)
  PROVE  /\ (\A t \in Scanners : AtTip(t))'
         /\ \A n : Due(n)' => Due(n)
<1>1. /\ torn' = torn \cup scan[s].named /\ scan' = [scan EXCEPT ![s] = Idle]
      /\ UNCHANGED <<commits, lastSha, ghost>>
  BY DEF Abandon
<1>2. scan'[s] = Idle /\ \A t \in Scanners \ {s} : scan'[t] = scan[t]
  BY <1>1 DEF TypeInv, WatcherTypeOK
<1>3. AtTip(s)' /\ \A t \in Scanners \ {s} : AtTip(t)'
  BY <1>1, <1>2, OtherAt DEF AtTip, Idle
<1>4. \A t \in Scanners : scan'[t].named \subseteq scan[t].named
  BY <1>2 DEF Idle
<1> QED
  BY <1>1, <1>3, <1>4, DueKept

-----------------------------------------------------------------------------
(* The pipeline, of HEAD.                                                  *)

HeadInv ==
  /\ \A s \in Scanners : AtTip(s)
  /\ FlowInv /\ HandInv /\ GraphInv /\ VecInv /\ PaceInv

LEMMA NeedsAre == \A e :
  /\ GraphNeeds("parser", e) = Mentioned(e) /\ VectorNeeds("parser", e) = e.changed \cup e.added
  /\ GraphNeeds("vdelete", e) = {} /\ VectorNeeds("vdelete", e) = e.deleted
  /\ GraphNeeds("embedder", e) = DOMAIN e.nodes /\ VectorNeeds("embedder", e) = DOMAIN e.nodes
  /\ GraphNeeds("edges", e) = e.deleted /\ VectorNeeds("edges", e) = {}
  /\ GraphNeeds("nodes", e) = DOMAIN e.nodes /\ VectorNeeds("nodes", e) = {}
  /\ GraphNeeds("vectors", e) = {} /\ VectorNeeds("vectors", e) = DOMAIN e.nodes
  BY DEF GraphNeeds, VectorNeeds

LEMMA SameTip ==
  ASSUME commits' = commits
  PROVE  /\ \A n : TipHas(n)' = TipHas(n)
         /\ \A e : /\ OfTip(e) => OfTip(e)'
                   /\ NodesOfTip(e) => NodesOfTip(e)'
                   /\ GoneAtTip(e) => GoneAtTip(e)'
<1>1. Tip' = Tip /\ TreeAt(Tip)' = TreeAt(Tip) /\ \A n : TipHas(n)' = TipHas(n)
  BY DEF TipHas, TreeAt, Tip
<1> QED
  BY <1>1 DEF OfTip, NodesOfTip, GoneAtTip

LEMMA SameDue ==
  ASSUME UNCHANGED <<commits, lastSha, scan, torn, ghost>>, NEW n, Due(n)'
  PROVE  Due(n)
  BY DEF Due, Indexed, TipHas, TreeAt, Tip

LEMMA AtTipKept ==
  ASSUME UNCHANGED <<commits, lastSha, scan>>, \A s \in Scanners : AtTip(s)
  PROVE  (\A s \in Scanners : AtTip(s))'
  BY OtherAt

(* A step that writes no store keeps them at HEAD when the stale sets take *)
(* the nodes of every event it leaves behind.                              *)
LEMMA HeadKept ==
  ASSUME PipeInv, HeadInv, UNCHANGED <<commits, graph, vec>>,
         (\A s \in Scanners : AtTip(s))', HandInv',
         \A n \in Nodes : Due(n)' => Due(n),
         graphStale \subseteq graphStale', vecStale \subseteq vecStale',
         \A g \in Groups : Ahead(g)' \subseteq Ahead(g),
         \A g \in Groups : \A e \in Ahead(g) \ Ahead(g)' :
           GraphNeeds(g, e) \subseteq graphStale' /\ VectorNeeds(g, e) \subseteq vecStale',
         \A g, h \in Groups : \A e \in Between(g, h)' \ Between(g, h) :
           GraphNeeds(g, e) \subseteq graphStale' /\ VectorNeeds(g, e) \subseteq vecStale'
  PROVE  HeadInv'
<1>0. {"parser", "vdelete", "embedder", "edges", "nodes", "vectors"} \subseteq Groups
  BY DEF Groups
<1>1. /\ \A n : TipHas(n)' = TipHas(n) /\ Active(n)' = Active(n) /\ Shown(n)' = Shown(n)
  BY SameTip DEF Active, Shown
<1>2. FlowInv'
  BY <1>0, SameTip DEF HeadInv, FlowInv
<1>3. /\ \A e \in Ahead("parser") \ Ahead("parser")' :
           Mentioned(e) \subseteq graphStale' /\ e.changed \cup e.added \subseteq vecStale'
      /\ \A e \in Ahead("vdelete") \ Ahead("vdelete")' : e.deleted \subseteq vecStale'
      /\ \A e \in Ahead("embedder") \ Ahead("embedder")' :
           DOMAIN e.nodes \subseteq graphStale' /\ DOMAIN e.nodes \subseteq vecStale'
      /\ \A e \in Ahead("edges") \ Ahead("edges")' : e.deleted \subseteq graphStale'
      /\ \A e \in Ahead("nodes") \ Ahead("nodes")' : DOMAIN e.nodes \subseteq graphStale'
      /\ \A e \in Ahead("vectors") \ Ahead("vectors")' : DOMAIN e.nodes \subseteq vecStale'
  BY <1>0, NeedsAre
<1>4. /\ \A e \in Between("nodes", "vectors")' \ Between("nodes", "vectors") :
           DOMAIN e.nodes \subseteq graphStale'
      /\ \A e \in Between("vectors", "nodes")' \ Between("vectors", "nodes") :
           DOMAIN e.nodes \subseteq vecStale'
      /\ \A e \in Between("parser", "vdelete")' \ Between("parser", "vdelete") :
           Mentioned(e) \subseteq graphStale'
  BY <1>0, NeedsAre
<1>5. ASSUME NEW n \in Nodes \ graphStale', Due(n)' PROVE (Coming(n) \/ Shown(n))'
  <2>1. Coming(n) \/ Shown(n)
    BY <1>5 DEF HeadInv, GraphInv
  <2>2. Coming(n) => Coming(n)'
    BY <1>3, <1>5 DEF Coming
  <2> QED
    BY <1>1, <2>1, <2>2
<1>6. ASSUME NEW n \in Nodes \ vecStale', Due(n)' PROVE (VecComing(n) \/ vec[n] = TipHas(n))'
  <2>1. VecComing(n) \/ vec[n] = TipHas(n)
    BY <1>6 DEF HeadInv, VecInv
  <2>2. VecComing(n) => VecComing(n)'
    BY <1>3, <1>6 DEF VecComing
  <2> QED
    BY <1>1, <2>1, <2>2
<1>7. PaceInv'
  <2>1. ASSUME NEW n \in Nodes \ (graphStale' \cup vecStale'), Active(n)'
        PROVE  vec'[n] = graph'[n].hash \/ Uneven(n)'
    <3>1. vec[n] = graph[n].hash \/ Uneven(n)
      BY <1>1, <2>1 DEF HeadInv, PaceInv
    <3>2. Uneven(n) => Uneven(n)'
      BY <1>3, <2>1 DEF Uneven, Mentioned
    <3> QED
      BY <3>1, <3>2
  <2>2. ASSUME NEW e \in Between("nodes", "vectors")', NEW n \in DOMAIN e.nodes
        PROVE  n \in graphStale' \/ graph'[n].hash = TipHas(n)'
    BY <1>1, <1>4, <2>2 DEF HeadInv, PaceInv
  <2>3. ASSUME NEW e \in Between("vectors", "nodes")', NEW n \in DOMAIN e.nodes
        PROVE  n \in vecStale' \/ vec'[n] = TipHas(n)'
    BY <1>1, <1>4, <2>3 DEF HeadInv, PaceInv
  <2>4. ASSUME NEW e \in Between("parser", "vdelete")', NEW n \in e.deleted
        PROVE  \/ n \in graphStale' \/ ~ Active(n)'
               \/ \E d \in Ahead("edges")' : n \in d.deleted
    <3>1. CASE e \in Between("parser", "vdelete")
      <4>1. n \in graphStale \/ ~ Active(n) \/ \E d \in Ahead("edges") : n \in d.deleted
        BY <3>1 DEF HeadInv, PaceInv
      <4> QED
        BY <1>1, <1>3, <4>1
    <3>2. CASE e \notin Between("parser", "vdelete")
      BY <1>4, <2>4, <3>2 DEF Mentioned
    <3> QED
      BY <3>1, <3>2
  <2> QED
    BY <2>1, <2>2, <2>3, <2>4 DEF PaceInv
<1>8. GraphInv' /\ VecInv'
  BY <1>5, <1>6 DEF GraphInv, VecInv
<1> QED
  BY <1>2, <1>7, <1>8 DEF HeadInv

-----------------------------------------------------------------------------
(* The steps that write no store.                                          *)

LEMMA HandHeld ==
  ASSUME PipeInv, HandInv, graphStale \subseteq graphStale',
         \A n \in Nodes : graph'[n].hash = graph[n].hash,
         "embedder" \in busy' =>
           "embedder" \in busy /\ Event("embedder")' = Event("embedder") /\ known' = known,
         "nodes" \in busy' =>
           "nodes" \in busy /\ Event("nodes")' = Event("nodes") /\ records' = records
  PROVE  HandInv'
<1>1. ASSUME "embedder" \in busy'
      PROVE  \A n \in DOMAIN Event("embedder").nodes :
               known'[n] = Event("embedder").nodes[n] => graph'[n].hash = known'[n]
  <2>1. DOMAIN Event("embedder").nodes \subseteq Nodes
    BY <1>1, EventType, VersionIs DEF PipeInv, HandType, ParsedEvents
  <2> QED
    BY <1>1, <2>1 DEF HandInv
<1>2. ASSUME "nodes" \in busy'
      PROVE  /\ DOMAIN records' \subseteq DOMAIN Event("nodes").nodes
             /\ \A n \in DOMAIN records' : records'[n].hash = Event("nodes").nodes[n]
             /\ DOMAIN Event("nodes").nodes \ DOMAIN records' \subseteq graphStale'
  BY <1>2 DEF HandInv
<1> QED
  BY <1>1, <1>2 DEF HandInv

LEMMA AllKept ==
  ASSUME UNCHANGED <<fileChanged, parsedFile, embeddedNodes, read>>, NEW g \in Groups
  PROVE  /\ Ahead(g)' = Ahead(g) /\ Event(g)' = Event(g)
         /\ \A h \in Groups : Between(g, h)' = Between(g, h)
<1>1. Stream(g)' = Stream(g) /\ \A h \in Groups : read'[h] = read[h]
  BY DEF Stream
<1> QED
  BY <1>1, KeptAhead

(* The same when one group is done with its event.                         *)
LEMMA OneDone ==
  ASSUME StreamType, NEW g \in Groups, Pending(g), Done(g),
         UNCHANGED <<fileChanged, parsedFile, embeddedNodes>>,
         GraphNeeds(g, Event(g)) \subseteq graphStale',
         VectorNeeds(g, Event(g)) \subseteq vecStale'
  PROVE  /\ \A h \in Groups \ {g} : Ahead(h)' = Ahead(h) /\ Event(h)' = Event(h)
         /\ \A h \in Groups : Ahead(h)' \subseteq Ahead(h)
         /\ \A h \in Groups : \A e \in Ahead(h) \ Ahead(h)' :
              GraphNeeds(h, e) \subseteq graphStale' /\ VectorNeeds(h, e) \subseteq vecStale'
         /\ \A k, h \in Groups : \A e \in Between(k, h)' \ Between(k, h) :
              GraphNeeds(k, e) \subseteq graphStale' /\ VectorNeeds(k, e) \subseteq vecStale'
<1>1. \A h \in Groups : Stream(h)' = Stream(h)
  BY DEF Stream
<1>2. Ahead(g) = {Event(g)} \cup Ahead(g)' /\ \A h \in Groups \ {g} : read'[h] = read[h]
  BY <1>1, DoneAhead
<1>3. \A h \in Groups \ {g} : Ahead(h)' = Ahead(h) /\ Event(h)' = Event(h)
  BY <1>1, <1>2, KeptAhead
<1>4. ASSUME NEW k \in Groups, NEW h \in Groups, NEW e \in Between(k, h)' \ Between(k, h)
      PROVE  k = g /\ e = Event(g)
  <2>1. CASE k # g /\ h # g
    <3>1. Between(k, h)' = Between(k, h)
      BY <1>1, <1>2, <2>1, KeptAhead
    <3> QED
      BY <1>4, <3>1
  <2>2. CASE k # g /\ h = g
    <3>1. Between(k, g)' \subseteq Between(k, g)
      BY <1>1, <2>2, DoneBetween
    <3> QED
      BY <1>4, <2>2, <3>1
  <2>3. CASE k = g /\ h # g
    <3>1. Between(g, h)' \subseteq Between(g, h) \cup {Event(g)}
      BY <1>1, <2>3, DoneBetween
    <3> QED
      BY <1>4, <2>3, <3>1
  <2>4. CASE k = g /\ h = g
    <3>1. read'[g] \in Nat
      BY DoneReads DEF StreamType
    <3>2. Between(g, g)' = {}
      BY <3>1 DEF Between
    <3> QED
      BY <1>4, <2>4, <3>2
  <2> QED
    BY <2>1, <2>2, <2>3, <2>4
<1>5. \A h \in Groups : \A e \in Ahead(h) \ Ahead(h)' : h = g /\ e = Event(g)
  BY <1>2, <1>3
<1>6. \A h \in Groups : Ahead(h)' \subseteq Ahead(h)
  BY <1>2, <1>3
<1> QED
  BY <1>3, <1>4, <1>5, <1>6

LEMMA MissingHead == ASSUME PipeInv, HeadInv, ParseMissingFile PROVE HeadInv'
<1>1. /\ Pending("parser") /\ Done("parser") /\ "parser" \in Groups
      /\ UNCHANGED watcherVars
      /\ UNCHANGED <<parsedFile, embeddedNodes, busy, known, records, graph, vec>>
      /\ graphStale' = graphStale \cup Mentioned(Event("parser"))
      /\ vecStale' = vecStale \cup Mentioned(Event("parser"))
  BY DEF ParseMissingFile, Groups
<1>2. UNCHANGED <<fileChanged, commits, lastSha, scan, torn, ghost>>
  BY <1>1 DEF watcherVars
<1>3. /\ GraphNeeds("parser", Event("parser")) \subseteq graphStale'
      /\ VectorNeeds("parser", Event("parser")) \subseteq vecStale'
  BY <1>1, NeedsAre DEF Mentioned
<1>4. Event("embedder")' = Event("embedder") /\ Event("nodes")' = Event("nodes")
  BY <1>1, <1>2, <1>3, OneDone DEF PipeInv, Groups
<1>5. HandInv'
  BY <1>1, <1>4, HandHeld DEF HeadInv
<1>6. (\A s \in Scanners : AtTip(s))' /\ \A n : Due(n)' => Due(n)
  BY <1>2, AtTipKept, SameDue DEF HeadInv
<1>7. graphStale \subseteq graphStale' /\ vecStale \subseteq vecStale'
  BY <1>1
<1> QED
  BY <1>1, <1>2, <1>3, <1>5, <1>6, <1>7, OneDone, HeadKept DEF PipeInv

(* A step between two events of a handler, or of the watcher. *)
LEMMA StillHead ==
  ASSUME PipeInv, HeadInv, HandInv', UNCHANGED <<commits, graph, vec>>,
         UNCHANGED <<fileChanged, parsedFile, embeddedNodes, read>>,
         (\A s \in Scanners : AtTip(s))', \A n \in Nodes : Due(n)' => Due(n),
         graphStale \subseteq graphStale', vecStale \subseteq vecStale'
  PROVE  HeadInv'
<1>1. \A g \in Groups : Ahead(g)' = Ahead(g) /\ \A h \in Groups : Between(g, h)' = Between(g, h)
  BY AllKept
<1> QED
  BY <1>1, HeadKept

LEMMA ReadHashesHead == ASSUME PipeInv, HeadInv, ReadHashes PROVE HeadInv'
<1>1. /\ Pending("embedder") /\ busy' = busy \cup {"embedder"}
      /\ UNCHANGED <<commits, lastSha, scan, fileChanged, torn, ghost, parsedFile,
                     embeddedNodes, read, records, graph, vec, graphStale, vecStale>>
  BY DEF ReadHashes
<1>2. Event("embedder")' = Event("embedder") /\ Event("nodes")' = Event("nodes")
  BY <1>1, AllKept DEF Groups
<1>3. ASSUME NEW n \in DOMAIN Event("embedder").nodes, known'[n] = Event("embedder").nodes[n]
      PROVE  graph[n].hash = known'[n]
  <2>1. n \in Nodes /\ Event("embedder").nodes[n] # Absent
    BY <1>1, EventType, VersionIs, Distinct DEF PipeInv, ParsedEvents
  <2>2. \/ known' = [k \in Nodes |-> IF k \in DOMAIN Event("embedder").nodes
                                       THEN graph[k].hash ELSE Absent]
        \/ known' = [k \in Nodes |-> Absent]
    BY DEF ReadHashes
  <2> QED
    BY <1>3, <2>1, <2>2
<1>4. HandInv'
  BY <1>1, <1>2, <1>3 DEF HeadInv, HandInv
<1>5. (\A s \in Scanners : AtTip(s))' /\ \A n : Due(n)' => Due(n)
  BY <1>1, AtTipKept, SameDue DEF HeadInv
<1> QED
  BY <1>1, <1>4, <1>5, StillHead

LEMMA CacheHead == ASSUME PipeInv, HeadInv, CacheParsed PROVE HeadInv'
<1>1. /\ busy' = busy \cup {"edges"} /\ UNCHANGED watcherVars
      /\ UNCHANGED <<parsedFile, embeddedNodes, read, known, records, graph, vec,
                     graphStale, vecStale>>
  BY DEF CacheParsed
<1>2. UNCHANGED <<fileChanged, commits, lastSha, scan, torn, ghost>>
  BY <1>1 DEF watcherVars
<1>3. Event("embedder")' = Event("embedder") /\ Event("nodes")' = Event("nodes")
  BY <1>1, <1>2, AllKept DEF Groups
<1>4. HandInv'
  BY <1>1, <1>3, HandHeld DEF HeadInv
<1>5. (\A s \in Scanners : AtTip(s))' /\ \A n : Due(n)' => Due(n)
  BY <1>2, AtTipKept, SameDue DEF HeadInv
<1> QED
  BY <1>1, <1>2, <1>4, <1>5, StillHead

(* An event without deleted nodes leaves the edge consumer nothing to do.  *)
LEMMA EdgesHead == ASSUME PipeInv, HeadInv, UpsertEdges PROVE HeadInv'
<1> DEFINE e == Event("edges")
<1>1. /\ UNCHANGED watcherVars /\ Pending("edges") /\ "edges" \in Groups
      /\ UNCHANGED <<parsedFile, embeddedNodes, known, records, graph, vec, graphStale, vecStale>>
      /\ "embedder" \in busy' => "embedder" \in busy
      /\ "nodes" \in busy' => "nodes" \in busy
      /\ (e.deleted = {} /\ Done("edges")) \/ read' = read
  BY DEF UpsertEdges, PipeInv, HandType, Groups
<1>2. UNCHANGED <<fileChanged, commits, lastSha, scan, torn, ghost>>
  BY <1>1 DEF watcherVars
<1>3. (\A s \in Scanners : AtTip(s))' /\ \A n : Due(n)' => Due(n)
  BY <1>2, AtTipKept, SameDue DEF HeadInv
<1> HIDE DEF e
<1>4. CASE read' = read
  <2>1. Event("embedder")' = Event("embedder") /\ Event("nodes")' = Event("nodes")
    BY <1>1, <1>2, <1>4, AllKept DEF Groups
  <2>2. HandInv'
    BY <1>1, <2>1, HandHeld DEF HeadInv
  <2> QED
    BY <1>1, <1>2, <1>3, <1>4, <2>2, StillHead
<1>5. CASE e.deleted = {} /\ Done("edges")
  <2>1. GraphNeeds("edges", e) \subseteq graphStale' /\ VectorNeeds("edges", e) \subseteq vecStale'
    BY <1>5, NeedsAre
  <2>2. Event("embedder")' = Event("embedder") /\ Event("nodes")' = Event("nodes")
    BY <1>1, <1>2, <1>5, <2>1, OneDone DEF PipeInv, Groups, e
  <2>3. HandInv'
    BY <1>1, <2>2, HandHeld DEF HeadInv
  <2> QED
    BY <1>1, <1>2, <1>3, <1>5, <2>1, <2>3, OneDone, HeadKept DEF PipeInv, e
<1> QED
  BY <1>1, <1>4, <1>5

LEMMA LookUpHead == ASSUME PipeInv, HeadInv, LookUp PROVE HeadInv'
<1> DEFINE e == Event("nodes")
           at == cache[Key(e)]
<1>1. /\ UNCHANGED watcherVars /\ Pending("nodes") /\ busy' = busy \cup {"nodes"}
      /\ UNCHANGED <<parsedFile, embeddedNodes, read, known, graph, vec, vecStale>>
      /\ records' = Joined(e, parsedFile[at])
      /\ graphStale' = graphStale \cup (DOMAIN e.nodes \ DOMAIN parsedFile[at].nodes)
  BY DEF LookUp
<1>2. UNCHANGED <<fileChanged, commits, lastSha, scan, torn, ghost>>
  BY <1>1 DEF watcherVars
<1>3. Event("embedder")' = Event("embedder") /\ Event("nodes")' = Event("nodes")
  BY <1>1, <1>2, AllKept DEF Groups
<1> HIDE DEF at
<1>4. /\ DOMAIN records' \subseteq DOMAIN e.nodes
      /\ \A n \in DOMAIN records' : records'[n].hash = e.nodes[n]
      /\ DOMAIN e.nodes \ DOMAIN records' \subseteq graphStale'
  <2> HIDE DEF e
  <2> QED
    BY <1>1 DEF Joined
<1>5. HandInv'
  BY <1>1, <1>3, <1>4 DEF HeadInv, HandInv
<1>6. (\A s \in Scanners : AtTip(s))' /\ \A n : Due(n)' => Due(n)
  BY <1>2, AtTipKept, SameDue DEF HeadInv
<1>7. graphStale \subseteq graphStale'
  BY <1>1
<1> QED
  BY <1>1, <1>2, <1>5, <1>6, <1>7, StillHead

LEMMA MissHead == ASSUME PipeInv, HeadInv, LookUpMisses PROVE HeadInv'
<1>1. /\ Pending("nodes") /\ "nodes" \notin busy /\ Done("nodes") /\ "nodes" \in Groups
      /\ UNCHANGED watcherVars
      /\ UNCHANGED <<parsedFile, embeddedNodes, busy, known, records, graph, vec, vecStale>>
      /\ graphStale' = graphStale \cup DOMAIN Event("nodes").nodes
  BY DEF LookUpMisses, Groups
<1>2. UNCHANGED <<fileChanged, commits, lastSha, scan, torn, ghost>>
  BY <1>1 DEF watcherVars
<1>3. /\ GraphNeeds("nodes", Event("nodes")) \subseteq graphStale'
      /\ VectorNeeds("nodes", Event("nodes")) \subseteq vecStale'
  BY <1>1, NeedsAre
<1>4. Event("embedder")' = Event("embedder")
  BY <1>1, <1>2, <1>3, OneDone DEF PipeInv, Groups
<1>5. HandInv'
  BY <1>1, <1>4, HandHeld DEF HeadInv
<1>6. (\A s \in Scanners : AtTip(s))' /\ \A n : Due(n)' => Due(n)
  BY <1>2, AtTipKept, SameDue DEF HeadInv
<1>7. graphStale \subseteq graphStale' /\ vecStale \subseteq vecStale'
  BY <1>1
<1> QED
  BY <1>1, <1>2, <1>3, <1>5, <1>6, <1>7, OneDone, HeadKept DEF PipeInv

LEMMA LossHead ==
  ASSUME PipeInv, HeadInv, NEW m, m \in [Groups -> Nat], LostUpTo(m),
         \A g \in Groups : read[g] <= m[g] /\ m[g] <= Len(Stream(g)),
         "embedder" \in busy' =>
           "embedder" \in busy /\ m["embedder"] = read["embedder"] /\ known' = known,
         "nodes" \in busy' =>
           "nodes" \in busy /\ m["nodes"] = read["nodes"] /\ records' = records
  PROVE  HeadInv'
<1>1. /\ UNCHANGED <<commits, lastSha, scan, torn, ghost, graph, vec>>
      /\ graphStale \subseteq graphStale' /\ vecStale \subseteq vecStale'
  BY LossMarks DEF LostUpTo
<1>2. /\ "embedder" \in busy' => Event("embedder")' = Event("embedder")
      /\ "nodes" \in busy' => Event("nodes")' = Event("nodes")
  BY LossAhead DEF PipeInv, Groups
<1>3. HandInv'
  BY <1>1, <1>2, HandHeld DEF HeadInv
<1>4. (\A s \in Scanners : AtTip(s))' /\ \A n : Due(n)' => Due(n)
  BY <1>1, AtTipKept, SameDue DEF HeadInv
<1>5. StreamType
  BY DEF PipeInv
<1>6. /\ \A g \in Groups : Ahead(g)' \subseteq Ahead(g)
      /\ \A g \in Groups : \A e \in Ahead(g) \ Ahead(g)' :
           GraphNeeds(g, e) \subseteq graphStale' /\ VectorNeeds(g, e) \subseteq vecStale'
      /\ \A g, h \in Groups : \A e \in Between(g, h)' \ Between(g, h) :
           GraphNeeds(g, e) \subseteq graphStale' /\ VectorNeeds(g, e) \subseteq vecStale'
  BY <1>5, LossAhead
<1> QED
  BY <1>1, <1>3, <1>4, <1>6, HeadKept

LEMMA LoseHead == ASSUME PipeInv, HeadInv, NEW g \in Groups, Lose(g) PROVE HeadInv'
<1>1. PICK m \in [Groups -> Nat] :
        /\ LostUpTo(m)
        /\ \A h \in Groups : read[h] <= m[h] /\ m[h] <= Len(Stream(h))
        /\ \A h \in Groups \ {g} : m[h] = read[h]
  BY LoseIs DEF PipeInv
<1>2. "embedder" \in Groups /\ "nodes" \in Groups
  BY DEF Groups
<1>3. "embedder" \in busy' => "embedder" \in busy /\ g # "embedder" /\ known' = known
  BY DEF Lose, StepsOf
<1>4. "nodes" \in busy' => "nodes" \in busy /\ g # "nodes" /\ records' = records
  BY DEF Lose, StepsOf
<1> QED
  BY <1>1, <1>2, <1>3, <1>4, LossHead

LEMMA RestartHead == ASSUME PipeInv, HeadInv, GraphWriterRestart PROVE HeadInv'
<1>1. PICK m \in [Groups -> Nat] :
        /\ LostUpTo(m)
        /\ \A h \in Groups : read[h] <= m[h] /\ m[h] <= Len(Stream(h))
        /\ \A h \in Groups \ {"edges", "nodes"} : m[h] = read[h]
  BY RestartIs DEF PipeInv
<1>2. m["embedder"] = read["embedder"]
  BY <1>1 DEF Groups
<1>3. /\ "nodes" \notin busy' /\ known' = known
      /\ "embedder" \in busy' => "embedder" \in busy
  BY DEF GraphWriterRestart
<1> QED
  BY <1>1, <1>2, <1>3, LossHead

LEMMA SameHead == ASSUME PipeInv, HeadInv, UNCHANGED vars PROVE HeadInv'
<1>1. UNCHANGED watcherVars /\ UNCHANGED pipeVars
  BY DEF vars
<1>2. /\ UNCHANGED <<fileChanged, commits, lastSha, scan, torn, ghost>>
      /\ UNCHANGED <<parsedFile, embeddedNodes, read, busy, known, records, graph, vec,
                     graphStale, vecStale>>
  BY <1>1 DEF watcherVars, pipeVars
<1>3. Event("embedder")' = Event("embedder") /\ Event("nodes")' = Event("nodes")
  BY <1>2, AllKept DEF Groups
<1>4. HandInv'
  BY <1>2, <1>3, HandHeld DEF HeadInv
<1>5. (\A s \in Scanners : AtTip(s))' /\ \A n : Due(n)' => Due(n)
  BY <1>2, AtTipKept, SameDue DEF HeadInv
<1> QED
  BY <1>2, <1>4, <1>5, StillHead

-----------------------------------------------------------------------------
(* The watcher's steps.                                                    *)

LEMMA QuietAhead ==
  ASSUME PipeInv, Quiescent
  PROVE  /\ \A g \in Groups : Ahead(g) = {}
         /\ Between("nodes", "vectors") = {} /\ Between("vectors", "nodes") = {}
         /\ Between("parser", "vdelete") = {}
<1>1. \A g \in Groups : Ahead(g) = {}
  BY NothingAhead DEF PipeInv, Quiescent
<1>2. ASSUME NEW g \in Groups, NEW h \in Groups, Stream(g) = Stream(h) PROVE Between(g, h) = {}
  <2>1. /\ read[g] \in Nat /\ read[h] \in Nat /\ Len(Stream(g)) \in Nat
        /\ read[g] <= Len(Stream(g)) /\ ~ (read[h] < Len(Stream(g)))
    BY <1>2 DEF PipeInv, StreamType, Quiescent, Pending, Stream
  <2> QED
    BY <2>1 DEF Between
<1> QED
  BY <1>1, <1>2, StreamIs DEF Groups

(* Nobody commits before HEAD is recorded and everything is handled, and   *)
(* what is due after the commit was due before it: it is the same.         *)
LEMMA CommitHead ==
  ASSUME PipeInv, HeadInv, Commit, Quiescent, lastSha = Tip, UNCHANGED pipeVars
  PROVE  HeadInv'
<1>0. {"parser", "vdelete", "embedder", "edges", "nodes", "vectors"} \subseteq Groups
  BY DEF Groups
<1>1. /\ UNCHANGED <<lastSha, scan, fileChanged, torn, ghost>>
      /\ UNCHANGED <<parsedFile, embeddedNodes, read, busy, graph, vec, graphStale, vecStale>>
      /\ \E t \in Trees : commits' = Append(commits, t)
  BY DEF Commit, pipeVars
<1>2. commits \in Seq(Trees) /\ Tip \in Nat \ {0}
  BY DEF PipeInv, TypeInv, WatcherTypeOK, Tip
<1>3. TreeAt(Tip)' = commits'[Tip'] /\ commits'[Tip] = commits[Tip]
  BY <1>1, <1>2 DEF TreeAt, Tip
<1>4. \A g \in Groups : Ahead(g)' = {}
  BY <1>1, AllKept, QuietAhead
<1>5. /\ Between("nodes", "vectors")' = {} /\ Between("vectors", "nodes")' = {}
      /\ Between("parser", "vdelete")' = {}
  BY <1>0, <1>1, AllKept, QuietAhead
<1>6. \A s \in Scanners : scan[s].pc = "idle" /\ scan[s].named = {}
  BY DEF Quiescent, AllIdle, HeadInv, AtTip
<1>7. (\A s \in Scanners : AtTip(s))'
  BY <1>1, <1>6 DEF AtTip
<1>8. FlowInv' /\ HandInv'
  BY <1>0, <1>1, <1>4 DEF FlowInv, HandInv, Quiescent
<1>9. \A n : Active(n)' = Active(n)
  BY <1>1 DEF Active
<1>10. ASSUME NEW n \in Nodes, Due(n)' PROVE Due(n) /\ TipHas(n)' = TipHas(n)
  <2>1. ~ (\E s \in Scanners : n \in scan'[s].named)
    BY <1>1, <1>6
  <2>2. Indexed(n)' = TipHas(n)' /\ n \notin torn' /\ (TipHas(n)' = Absent => n \notin ghost')
    BY <1>10, <2>1 DEF Due
  <2>3. Indexed(n) = TipHas(n) /\ Indexed(n)' = TipHas(n)
    BY <1>1, <1>2, <1>3 DEF Indexed, TipHas, TreeAt
  <2> QED
    BY <1>1, <2>2, <2>3 DEF Due
<1>11. GraphInv'
  <2>1. ASSUME NEW n \in Nodes \ graphStale', Due(n)' PROVE Shown(n)'
    <3>1. Coming(n) \/ Shown(n)
      BY <1>1, <1>10, <2>1 DEF HeadInv, GraphInv
    <3>2. ~ Coming(n)
      BY <1>0, QuietAhead DEF Coming
    <3> QED
      BY <1>1, <1>9, <1>10, <2>1, <3>1, <3>2 DEF Shown
  <2> QED
    BY <2>1 DEF GraphInv
<1>12. VecInv'
  <2>1. ASSUME NEW n \in Nodes \ vecStale', Due(n)' PROVE vec'[n] = TipHas(n)'
    <3>1. VecComing(n) \/ vec[n] = TipHas(n)
      BY <1>1, <1>10, <2>1 DEF HeadInv, VecInv
    <3>2. ~ VecComing(n)
      BY <1>0, QuietAhead DEF VecComing
    <3> QED
      BY <1>1, <1>10, <2>1, <3>1, <3>2
  <2> QED
    BY <2>1 DEF VecInv
<1>13. PaceInv'
  <2>1. ASSUME NEW n \in Nodes \ (graphStale' \cup vecStale'), Active(n)'
        PROVE  vec'[n] = graph'[n].hash
    <3>1. vec[n] = graph[n].hash \/ Uneven(n)
      BY <1>1, <1>9, <2>1 DEF HeadInv, PaceInv
    <3>2. ~ Uneven(n)
      BY <1>0, QuietAhead DEF Uneven
    <3> QED
      BY <1>1, <3>1, <3>2
  <2> QED
    BY <1>5, <2>1 DEF PaceInv
<1> QED
  BY <1>7, <1>8, <1>11, <1>12, <1>13 DEF HeadInv

(* A run names what it brings to HEAD as it emits it.                      *)
LEMMA EmitHead ==
  ASSUME PipeInv, HeadInv, NEW s \in Scanners, Emit(s), UNCHANGED pipeVars
  PROVE  HeadInv'
<1>0. {"parser", "vdelete", "embedder", "edges", "nodes", "vectors"} \subseteq Groups
  BY DEF Groups
<1>1. PICK e : /\ fileChanged' = Append(fileChanged, e) /\ OfTip(e)
               /\ \A n \in Nodes : Due(n)' => Due(n) \/ n \in Mentioned(e)
  BY EmitAt DEF PipeInv, HeadInv
<1>2. (\A t \in Scanners : AtTip(t))'
  BY EmitAt DEF PipeInv, HeadInv
<1>3. /\ commits' = commits
      /\ UNCHANGED <<parsedFile, embeddedNodes, read, busy, known, records, graph, vec,
                     graphStale, vecStale>>
  BY DEF Emit, pipeVars
<1>4. /\ \A g \in {"parser", "vdelete"} : Stream(g) = fileChanged /\ Stream(g)' = fileChanged'
      /\ \A g \in Groups \ {"parser", "vdelete"} : Stream(g)' = Stream(g)
  BY <1>3 DEF Stream, Groups
<1>5. StreamType
  BY DEF PipeInv
<1>6. /\ Ahead("parser")' = Ahead("parser") \cup {e} /\ Ahead("vdelete")' = Ahead("vdelete") \cup {e}
      /\ Between("parser", "vdelete")' = Between("parser", "vdelete")
  BY <1>0, <1>1, <1>3, <1>4, <1>5, AppendAhead
<1>7. /\ \A g \in Groups \ {"parser", "vdelete"} : Ahead(g)' = Ahead(g) /\ Event(g)' = Event(g)
      /\ Between("nodes", "vectors")' = Between("nodes", "vectors")
      /\ Between("vectors", "nodes")' = Between("vectors", "nodes")
  BY <1>0, <1>3, <1>4, KeptAhead
<1>8. HandInv'
  BY <1>0, <1>3, <1>7, HandHeld DEF HeadInv
<1>9. /\ \A n : TipHas(n)' = TipHas(n) /\ Active(n)' = Active(n) /\ Shown(n)' = Shown(n)
  BY <1>3, SameTip DEF Active, Shown
<1>10. FlowInv'
  BY <1>0, <1>1, <1>3, <1>6, <1>7, SameTip DEF HeadInv, FlowInv
<1>11. ASSUME NEW n \in Nodes \ graphStale', Due(n)' PROVE (Coming(n) \/ Shown(n))'
  <2>1. CASE n \in Mentioned(e)
    BY <1>6, <2>1 DEF Coming
  <2>2. CASE n \notin Mentioned(e)
    <3>1. Coming(n) \/ Shown(n)
      BY <1>1, <1>3, <1>11, <2>2 DEF HeadInv, GraphInv
    <3>2. Coming(n) => Coming(n)'
      BY <1>0, <1>6, <1>7 DEF Coming
    <3> QED
      BY <1>9, <3>1, <3>2
  <2> QED
    BY <2>1, <2>2
<1>12. ASSUME NEW n \in Nodes \ vecStale', Due(n)' PROVE (VecComing(n) \/ vec[n] = TipHas(n))'
  <2>1. CASE n \in Mentioned(e)
    BY <1>6, <2>1 DEF VecComing, Mentioned
  <2>2. CASE n \notin Mentioned(e)
    <3>1. VecComing(n) \/ vec[n] = TipHas(n)
      BY <1>1, <1>3, <1>12, <2>2 DEF HeadInv, VecInv
    <3>2. VecComing(n) => VecComing(n)'
      BY <1>0, <1>6, <1>7 DEF VecComing
    <3> QED
      BY <1>3, <1>9, <3>1, <3>2
  <2> QED
    BY <2>1, <2>2
<1>13. GraphInv' /\ VecInv'
  BY <1>11, <1>12 DEF GraphInv, VecInv
<1>14. PaceInv'
  <2>1. \A n : Uneven(n) => Uneven(n)'
    BY <1>0, <1>6, <1>7 DEF Uneven
  <2> QED
    BY <1>0, <1>3, <1>6, <1>7, <1>9, <2>1 DEF HeadInv, PaceInv
<1> QED
  BY <1>2, <1>8, <1>10, <1>13, <1>14 DEF HeadInv

LEMMA WatchHead == ~ Pipelined /\ PipeInv /\ HeadInv /\ Watch => HeadInv'
<1> SUFFICES ASSUME ~ Pipelined, PipeInv, HeadInv, Watch PROVE HeadInv'
  OBVIOUS
<1>1. UNCHANGED pipeVars
  BY DEF Watch
<1>2. CASE Commit /\ Quiescent /\ lastSha = Tip
  BY <1>1, <1>2, CommitHead
<1>3. ASSUME NEW s \in Scanners, Emit(s) PROVE HeadInv'
  BY <1>1, <1>3, EmitHead
<1>4. ASSUME NEW s \in Scanners, WatcherStep(s), ~ Emit(s) PROVE HeadInv'
  <2>1. (\A t \in Scanners : AtTip(t))' /\ \A n \in Nodes : Due(n)' => Due(n)
    BY <1>4, BeginAt, ListAt, SaveAt, AbandonAt DEF WatcherStep, Work, PipeInv, HeadInv
  <2>2. UNCHANGED <<commits, fileChanged>>
    BY <1>4 DEF WatcherStep, Work, Hook, Poll, Index, Rescan, Begins, ListFiles, Save, Abandon
  <2>3. UNCHANGED <<parsedFile, embeddedNodes, read, busy, known, records, graph, vec,
                    graphStale, vecStale>>
    BY <1>1 DEF pipeVars
  <2>4. Event("embedder")' = Event("embedder") /\ Event("nodes")' = Event("nodes")
    BY <2>2, <2>3, AllKept DEF Groups
  <2>5. HandInv'
    BY <2>3, <2>4, HandHeld DEF HeadInv
  <2> QED
    BY <2>1, <2>2, <2>3, <2>5, StillHead
<1> QED
  BY <1>2, <1>3, <1>4 DEF Watch

-----------------------------------------------------------------------------
(* The parser and the embedder.                                            *)

(* The parse of an event that is true of HEAD has what the event names.    *)
LEMMA ParsedOfTip ==
  ASSUME NEW e \in Events, OfTip(e)
  PROVE  LET p == Parsed(e, TreeAt(Tip)) IN
         /\ NodesOfTip(p) /\ p.deleted = e.deleted
         /\ \A n \in e.changed \cup e.added : n \in DOMAIN p.nodes
<1> DEFINE t == TreeAt(Tip)
           all == Extracted(t, e.file)
           kept == IF e.type = "deleted" THEN {} ELSE Selected(e, all)
           nodes == [n \in kept |-> all[n]]
           calls == {c \in CallsIn(t, e.file) : c[1] \in kept}
           p == [file |-> e.file, sha |-> e.sha, nodes |-> nodes, calls |-> calls,
                 deleted |-> e.deleted]
<1>1. Parsed(e, t) = p
  BY DEF Parsed
<1>2. DOMAIN all = NodesIn(t, e.file) /\ \A n \in DOMAIN all : all[n] = t[n]
  BY DEF Extracted
<1>3. kept \subseteq DOMAIN all
  <2> HIDE DEF all
  <2> QED
    BY DEF Selected
<1>4. ASSUME NEW n \in e.changed \cup e.added PROVE n \in kept
  <2>1. n \in Nodes /\ FileOf[n] = e.file /\ t[n] # Absent
    BY <1>4 DEF OfTip, TipHas, Mentioned, Events
  <2>2. n \in DOMAIN all /\ Exists(t, e.file)
    BY <1>2, <2>1 DEF NodesIn, NodesOf, Exists
  <2>3. e.type # "deleted"
    BY <2>2 DEF OfTip
  <2> HIDE DEF all
  <2> QED
    BY <1>4, <2>2, <2>3 DEF Selected
<1> HIDE DEF all, kept, calls
<1>5. \A n \in DOMAIN nodes : n \in kept /\ nodes[n] = t[n]
  BY <1>2, <1>3
<1>6. \A n \in kept : n \in DOMAIN nodes
  OBVIOUS
<1> HIDE DEF nodes
<1>7. NodesOfTip(p)
  BY <1>5 DEF NodesOfTip, TipHas
<1> QED
  BY <1>1, <1>4, <1>6, <1>7

LEMMA ParseHead == ASSUME PipeInv, HeadInv, Parse PROVE HeadInv'
<1> DEFINE e == Event("parser")
           p == Parsed(e, TreeAt(Tip))
<1>0. {"parser", "vdelete", "embedder", "edges", "nodes", "vectors"} \subseteq Groups
  BY DEF Groups
<1>1. /\ Pending("parser") /\ Done("parser") /\ parsedFile' = Append(parsedFile, p)
      /\ UNCHANGED watcherVars
      /\ UNCHANGED <<embeddedNodes, busy, known, records, graph, vec, graphStale, vecStale>>
  BY DEF Parse
<1>2. UNCHANGED <<fileChanged, commits, lastSha, scan, torn, ghost>>
  BY <1>1 DEF watcherVars
<1>3. e \in Ahead("parser") /\ e \in Events /\ OfTip(e)
  BY <1>0, <1>1, EventAhead, EventType DEF PipeInv, HeadInv, FlowInv
<1>4. /\ NodesOfTip(p) /\ p.deleted = e.deleted
      /\ \A n \in e.changed \cup e.added : n \in DOMAIN p.nodes
  BY <1>3, ParsedOfTip
<1> HIDE DEF p
<1>5. /\ \A g \in {"embedder", "edges"} : Stream(g) = parsedFile /\ Stream(g)' = parsedFile'
      /\ \A g \in Groups \ {"embedder", "edges"} : Stream(g)' = Stream(g)
      /\ Stream("vdelete") = Stream("parser")
  BY <1>1, <1>2 DEF Stream, Groups
<1>6. StreamType
  BY DEF PipeInv
<1>7. Ahead("parser") = {e} \cup Ahead("parser")' /\ \A g \in Groups \ {"parser"} : read'[g] = read[g]
  BY <1>0, <1>1, <1>5, <1>6, DoneAhead
<1>8. Between("parser", "vdelete")' \subseteq Between("parser", "vdelete") \cup {e}
  <2>1. "vdelete" \in Groups \ {"parser"} /\ "parser" \in Groups
    BY <1>0
  <2>2. Stream("parser")' = Stream("parser") /\ Stream("vdelete")' = Stream("vdelete")
    BY <1>0, <1>5
  <2> QED
    BY <1>1, <1>6, <2>1, <2>2, DoneBetween
<1>9. /\ Ahead("embedder")' = Ahead("embedder") \cup {p}
      /\ Ahead("edges")' = Ahead("edges") \cup {p}
      /\ Pending("embedder") => Event("embedder")' = Event("embedder")
  BY <1>0, <1>1, <1>5, <1>6, <1>7, AppendAhead
<1>10. /\ Ahead("vdelete")' = Ahead("vdelete") /\ Ahead("nodes")' = Ahead("nodes")
       /\ Ahead("vectors")' = Ahead("vectors") /\ Event("nodes")' = Event("nodes")
       /\ Between("nodes", "vectors")' = Between("nodes", "vectors")
       /\ Between("vectors", "nodes")' = Between("vectors", "nodes")
  BY <1>0, <1>5, <1>7, KeptAhead
<1>11. HandInv'
  BY <1>1, <1>9, <1>10, HandHeld DEF HeadInv, PipeInv, HandType
<1>12. (\A s \in Scanners : AtTip(s))' /\ \A n : Due(n)' => Due(n)
  BY <1>2, AtTipKept, SameDue DEF HeadInv
<1>13. \A n : TipHas(n)' = TipHas(n) /\ Active(n)' = Active(n) /\ Shown(n)' = Shown(n)
  BY <1>1, <1>2, SameTip DEF Active, Shown
<1>14. GoneAtTip(p)
  BY <1>3, <1>4 DEF OfTip, GoneAtTip
<1> HIDE DEF e
<1>15. FlowInv'
  <2>1. /\ \A x \in Ahead("parser")' \cup Ahead("vdelete")' : OfTip(x)
        /\ \A x \in Ahead("embedder")' : NodesOfTip(x)
        /\ \A x \in Ahead("edges")' : GoneAtTip(x)
        /\ \A x \in Ahead("nodes")' \cup Ahead("vectors")' : NodesOfTip(x)
    BY <1>4, <1>7, <1>9, <1>10, <1>14 DEF HeadInv, FlowInv
  <2> QED
    BY <1>2, <2>1, SameTip DEF FlowInv
<1>16. \A n : Coming(n) => Coming(n)'
  BY <1>4, <1>7, <1>9, <1>10 DEF Coming, Mentioned
<1>17. \A n : VecComing(n) => VecComing(n)'
  BY <1>4, <1>7, <1>9, <1>10 DEF VecComing
<1>18. \A n : Uneven(n) => Uneven(n)'
  BY <1>4, <1>7, <1>9, <1>10 DEF Uneven
<1>19. GraphInv' /\ VecInv'
  <2>1. \A n \in Nodes \ graphStale : Due(n)' => (Coming(n) \/ Shown(n))'
    BY <1>12, <1>13, <1>16 DEF HeadInv, GraphInv
  <2>2. \A n \in Nodes \ vecStale : Due(n)' => VecComing(n)' \/ vec[n] = TipHas(n)'
    BY <1>12, <1>13, <1>17 DEF HeadInv, VecInv
  <2> QED
    BY <1>1, <2>1, <2>2 DEF GraphInv, VecInv
<1>20. PaceInv'
  <2>1. \A x \in Between("parser", "vdelete")' : \A n \in x.deleted :
          n \in graphStale \/ ~ Active(n) \/ \E d \in Ahead("edges")' : n \in d.deleted
    BY <1>4, <1>8, <1>9 DEF HeadInv, PaceInv
  <2>2. \A n \in Nodes \ (graphStale \cup vecStale) :
          Active(n) => vec[n] = graph[n].hash \/ Uneven(n)'
    BY <1>18 DEF HeadInv, PaceInv
  <2>3. /\ \A x \in Between("nodes", "vectors") : \A n \in DOMAIN x.nodes :
             n \in graphStale \/ graph[n].hash = TipHas(n)
        /\ \A x \in Between("vectors", "nodes") : \A n \in DOMAIN x.nodes :
             n \in vecStale \/ vec[n] = TipHas(n)
    BY DEF HeadInv, PaceInv
  <2> QED
    BY <1>1, <1>10, <1>13, <2>1, <2>2, <2>3 DEF PaceInv
<1> QED
  BY <1>11, <1>12, <1>15, <1>19, <1>20 DEF HeadInv

(* What one reader of a stream has not seen is ahead of the other or       *)
(* between the two.                                                        *)
LEMMA AheadOrBetween ==
  ASSUME StreamType, NEW g \in Groups, NEW h \in Groups, Stream(g) = Stream(h)
  PROVE  Ahead(g) \subseteq Ahead(h) \cup Between(h, g)
<1>1. read[g] \in Nat /\ read[h] \in Nat /\ Len(Stream(g)) \in Nat
  BY DEF StreamType, Stream
<1>2. \A i \in read[g] + 1 .. Len(Stream(g)) :
        i \in read[h] + 1 .. Len(Stream(g)) \/ i \in read[g] + 1 .. read[h]
  BY <1>1
<1> QED
  BY <1>2 DEF Ahead, Between

LEMMA BetweenAhead ==
  ASSUME StreamType, NEW g \in Groups, NEW h \in Groups, Stream(g) = Stream(h)
  PROVE  Between(g, h) \subseteq Ahead(h)
<1>1. read[g] \in Nat /\ read[h] \in Nat /\ Len(Stream(g)) \in Nat /\ read[g] <= Len(Stream(g))
  BY DEF StreamType, Stream
<1>2. read[h] + 1 .. read[g] \subseteq read[h] + 1 .. Len(Stream(g))
  BY <1>1
<1> QED
  BY <1>2 DEF Ahead, Between

(* A node that the graph shows as HEAD has it, and about which it has      *)
(* missed nothing, has that version in Qdrant or will have it.             *)
LEMMA ShownInBoth ==
  ASSUME PipeInv, HeadInv, NEW n \in Nodes \ (graphStale \cup vecStale),
         Active(n), graph[n].hash = TipHas(n), TipHas(n) # Absent
  PROVE  vec[n] = TipHas(n) \/ \E d \in Ahead("vectors") : n \in DOMAIN d.nodes
<1>1. vec[n] = graph[n].hash \/ Uneven(n)
  BY DEF HeadInv, PaceInv
<1>2. Ahead("nodes") \subseteq Ahead("vectors") \cup Between("vectors", "nodes")
  BY AheadOrBetween, StreamIs DEF PipeInv, Groups
<1>3. \A d \in Ahead("parser") \cup Ahead("edges") : n \notin d.deleted
  BY DEF HeadInv, FlowInv, OfTip, GoneAtTip
<1>4. \A d \in Between("vectors", "nodes") : n \in DOMAIN d.nodes => vec[n] = TipHas(n)
  BY DEF HeadInv, PaceInv
<1> QED
  BY <1>1, <1>2, <1>3, <1>4 DEF Uneven

LEMMA EmbedHead == ASSUME PipeInv, HeadInv, EmbedAndEmit PROVE HeadInv'
<1> DEFINE e == Event("embedder")
           x == [file |-> e.file, sha |-> e.sha, nodes |-> [n \in ToEmbed(e) |-> e.nodes[n]]]
<1>0. {"parser", "vdelete", "embedder", "edges", "nodes", "vectors"} \subseteq Groups
  BY DEF Groups
<1>1. /\ "embedder" \in busy /\ Pending("embedder") /\ Done("embedder")
      /\ embeddedNodes' = Append(embeddedNodes, x)
      /\ UNCHANGED watcherVars
      /\ UNCHANGED <<parsedFile, records, graph, vec>>
      /\ busy' = busy \ {"embedder"}
      /\ graphStale \subseteq graphStale' /\ vecStale \subseteq vecStale'
  BY DEF EmbedAndEmit, PipeInv, HandType
<1>2. UNCHANGED <<fileChanged, commits, lastSha, scan, torn, ghost>>
  BY <1>1 DEF watcherVars
<1>3. e \in Ahead("embedder") /\ e \in ParsedEvents /\ NodesOfTip(e)
  BY <1>0, <1>1, EventAhead, EventType DEF PipeInv, HeadInv, FlowInv
<1>4. /\ DOMAIN x.nodes \subseteq DOMAIN e.nodes
      /\ \A n \in DOMAIN x.nodes : x.nodes[n] = e.nodes[n]
      /\ \A n \in DOMAIN e.nodes : n \in DOMAIN x.nodes \/ known[n] = e.nodes[n]
  BY DEF ToEmbed
<1>5. \A n \in DOMAIN e.nodes \ DOMAIN x.nodes :
        ~ Active(n) \/ n \in graphStale => n \in graphStale' /\ n \in vecStale'
  BY DEF EmbedAndEmit
<1>6. \A n \in DOMAIN e.nodes : e.nodes[n] = TipHas(n) /\ TipHas(n) # Absent
  <2>1. e.nodes \in Versions
    BY <1>3 DEF ParsedEvents
  <2> QED
    BY <1>3, <2>1, VersionIs, Distinct DEF NodesOfTip
<1>7. \A n \in DOMAIN e.nodes : known[n] = e.nodes[n] => graph[n].hash = TipHas(n)
  BY <1>1, <1>6 DEF HeadInv, HandInv
<1> HIDE DEF x, e
<1>8. ASSUME NEW n \in DOMAIN e.nodes, n \notin DOMAIN x.nodes
      PROVE  \/ n \in graphStale' /\ n \in vecStale'
             \/ Active(n) /\ n \notin graphStale /\ graph[n].hash = TipHas(n)
  BY <1>4, <1>5, <1>7, <1>8
<1>9. NodesOfTip(x)
  BY <1>4, <1>6 DEF NodesOfTip
<1>10. /\ \A g \in {"nodes", "vectors"} : Stream(g) = embeddedNodes /\ Stream(g)' = embeddedNodes'
       /\ \A g \in Groups \ {"nodes", "vectors"} : Stream(g)' = Stream(g)
  BY <1>1, <1>2 DEF Stream, Groups
<1>11. StreamType
  BY DEF PipeInv
<1>12. /\ Ahead("embedder") = {e} \cup Ahead("embedder")'
       /\ \A g \in Groups \ {"embedder"} : read'[g] = read[g]
  BY <1>0, <1>1, <1>10, <1>11, DoneAhead DEF e
<1>13. /\ Ahead("nodes")' = Ahead("nodes") \cup {x} /\ Ahead("vectors")' = Ahead("vectors") \cup {x}
       /\ Pending("nodes") => Event("nodes")' = Event("nodes")
       /\ Between("nodes", "vectors")' = Between("nodes", "vectors")
       /\ Between("vectors", "nodes")' = Between("vectors", "nodes")
  BY <1>0, <1>1, <1>10, <1>11, <1>12, AppendAhead
<1>14. /\ Ahead("parser")' = Ahead("parser") /\ Ahead("vdelete")' = Ahead("vdelete")
       /\ Ahead("edges")' = Ahead("edges")
       /\ Between("parser", "vdelete")' = Between("parser", "vdelete")
  BY <1>0, <1>10, <1>12, KeptAhead
<1>15. HandInv'
  BY <1>1, <1>13, HandHeld DEF HeadInv, PipeInv, HandType
<1>16. (\A s \in Scanners : AtTip(s))' /\ \A n : Due(n)' => Due(n)
  BY <1>2, AtTipKept, SameDue DEF HeadInv
<1>17. \A n : TipHas(n)' = TipHas(n) /\ Active(n)' = Active(n) /\ Shown(n)' = Shown(n)
  BY <1>1, <1>2, SameTip DEF Active, Shown
<1>18. FlowInv'
  <2>1. /\ \A d \in Ahead("parser")' \cup Ahead("vdelete")' : OfTip(d)
        /\ \A d \in Ahead("embedder")' : NodesOfTip(d)
        /\ \A d \in Ahead("edges")' : GoneAtTip(d)
        /\ \A d \in Ahead("nodes")' \cup Ahead("vectors")' : NodesOfTip(d)
    BY <1>9, <1>12, <1>13, <1>14 DEF HeadInv, FlowInv
  <2> QED
    BY <1>2, <2>1, SameTip DEF FlowInv
<1>19. ASSUME NEW n \in Nodes \ graphStale', Due(n)' PROVE (Coming(n) \/ Shown(n))'
  <2>1. Coming(n) \/ Shown(n)
    BY <1>1, <1>16, <1>19 DEF HeadInv, GraphInv
  <2>2. CASE n \in DOMAIN e.nodes /\ n \notin DOMAIN x.nodes
    BY <1>8, <1>17, <1>19, <2>2 DEF Shown
  <2>3. CASE ~ (n \in DOMAIN e.nodes /\ n \notin DOMAIN x.nodes)
    <3>1. Coming(n) => Coming(n)'
      BY <1>12, <1>13, <1>14, <2>3 DEF Coming
    <3> QED
      BY <1>17, <2>1, <3>1
  <2> QED
    BY <2>2, <2>3
<1>20. ASSUME NEW n \in Nodes \ vecStale', Due(n)' PROVE (VecComing(n) \/ vec[n] = TipHas(n))'
  <2>1. VecComing(n) \/ vec[n] = TipHas(n)
    BY <1>1, <1>16, <1>20 DEF HeadInv, VecInv
  <2>2. CASE n \in DOMAIN e.nodes /\ n \notin DOMAIN x.nodes
    <3>1. vec[n] = TipHas(n) \/ \E d \in Ahead("vectors") : n \in DOMAIN d.nodes
      BY <1>1, <1>6, <1>8, <1>20, <2>2, ShownInBoth
    <3> QED
      BY <1>1, <1>13, <1>17, <3>1 DEF VecComing
  <2>3. CASE ~ (n \in DOMAIN e.nodes /\ n \notin DOMAIN x.nodes)
    <3>1. VecComing(n) => VecComing(n)'
      BY <1>12, <1>13, <1>14, <2>3 DEF VecComing
    <3> QED
      BY <1>1, <1>17, <2>1, <3>1
  <2> QED
    BY <2>2, <2>3
<1>21. GraphInv' /\ VecInv'
  BY <1>19, <1>20 DEF GraphInv, VecInv
<1>22. PaceInv'
  <2>1. \A n : Uneven(n) => Uneven(n)'
    BY <1>13, <1>14 DEF Uneven
  <2> QED
    BY <1>1, <1>13, <1>14, <1>17, <2>1 DEF HeadInv, PaceInv
<1> QED
  BY <1>15, <1>16, <1>18, <1>21, <1>22 DEF HeadInv

-----------------------------------------------------------------------------
(* The two writers.                                                        *)

LEMMA Handled ==
  ASSUME StreamType, NEW g \in Groups, Pending(g), Done(g),
         UNCHANGED <<fileChanged, parsedFile, embeddedNodes>>
  PROVE  /\ Ahead(g) = {Event(g)} \cup Ahead(g)'
         /\ \A h \in Groups \ {g} :
              /\ Ahead(h)' = Ahead(h) /\ Event(h)' = Event(h)
              /\ Between(g, h)' \subseteq Between(g, h) \cup {Event(g)}
              /\ Between(h, g)' \subseteq Between(h, g)
              /\ Stream(g) = Stream(h) => Event(g) \in Ahead(h) \cup Between(h, g)
              /\ \A k \in Groups \ {g} : Between(h, k)' = Between(h, k)
<1>1. \A h \in Groups : Stream(h)' = Stream(h)
  BY DEF Stream
<1>2. Ahead(g) = {Event(g)} \cup Ahead(g)' /\ \A h \in Groups \ {g} : read'[h] = read[h]
  BY <1>1, DoneAhead
<1>3. ASSUME NEW h \in Groups \ {g}
      PROVE  /\ Ahead(h)' = Ahead(h) /\ Event(h)' = Event(h)
             /\ \A k \in Groups \ {g} : Between(h, k)' = Between(h, k)
  BY <1>1, <1>2, KeptAhead
<1>4. ASSUME NEW h \in Groups \ {g}
      PROVE  /\ Between(g, h)' \subseteq Between(g, h) \cup {Event(g)}
             /\ Between(h, g)' \subseteq Between(h, g)
             /\ Stream(g) = Stream(h) => Event(g) \in Ahead(h) \cup Between(h, g)
  BY <1>1, DoneBetween
<1> QED
  BY <1>2, <1>3, <1>4

LEMMA FlowHeld ==
  ASSUME FlowInv, commits' = commits, \A g \in Groups : Ahead(g)' \subseteq Ahead(g)
  PROVE  FlowInv'
<1>1. {"parser", "vdelete", "embedder", "edges", "nodes", "vectors"} \subseteq Groups
  BY DEF Groups
<1> QED
  BY <1>1, SameTip DEF FlowInv

(* A tombstone is for a node that HEAD has not, so it takes away no node   *)
(* that is on its way to either store.                                     *)
LEMMA TombstoneHead == ASSUME PipeInv, HeadInv, Tombstone PROVE HeadInv'
<1> DEFINE e == Event("edges")
<1>0. {"parser", "vdelete", "embedder", "edges", "nodes", "vectors"} \subseteq Groups
  BY DEF Groups
<1>1. /\ Pending("edges") /\ Done("edges")
      /\ graph' = [n \in Nodes |-> [graph[n] EXCEPT !.active = @ /\ n \notin e.deleted]]
      /\ graphStale' = graphStale \ e.deleted
      /\ UNCHANGED watcherVars
      /\ UNCHANGED <<parsedFile, embeddedNodes, known, records, vec, vecStale>>
      /\ busy' = busy \ {"tombstone"}
  BY DEF Tombstone, PipeInv, HandType
<1>2. UNCHANGED <<fileChanged, commits, lastSha, scan, torn, ghost>>
  BY <1>1 DEF watcherVars
<1>3. e \in Ahead("edges") /\ \A n \in e.deleted : TipHas(n) = Absent
  BY <1>0, <1>1, EventAhead DEF PipeInv, HeadInv, FlowInv, GoneAtTip
<1>4. StreamType
  BY DEF PipeInv
<1>5. /\ Ahead("edges") = {e} \cup Ahead("edges")'
      /\ \A h \in Groups \ {"edges"} :
           /\ Ahead(h)' = Ahead(h) /\ Event(h)' = Event(h)
           /\ \A k \in Groups \ {"edges"} : Between(h, k)' = Between(h, k)
  BY <1>0, <1>1, <1>2, <1>4, Handled
<1> HIDE DEF e
<1>6. ASSUME NEW n \in Nodes
      PROVE  /\ graph'[n].hash = graph[n].hash
             /\ Active(n)' <=> (Active(n) /\ n \notin e.deleted)
  <2>1. graph[n] \in Stored
    BY DEF PipeInv, StoreType
  <2>2. graph'[n] = [graph[n] EXCEPT !.active = graph[n].active /\ n \notin e.deleted]
    BY <1>1
  <2> QED
    BY <2>1, <2>2 DEF Stored, NoNode, Active
<1>7. \A d \in Ahead("nodes") \cup Ahead("vectors") : \A n \in DOMAIN d.nodes : n \notin e.deleted
  <2>1. \A d \in Ahead("nodes") \cup Ahead("vectors") : d \in EmbeddedEvents /\ NodesOfTip(d)
    BY <1>4, AheadTypes DEF HeadInv, FlowInv
  <2>2. \A d \in EmbeddedEvents : NodesOfTip(d) => \A n \in DOMAIN d.nodes : TipHas(n) # Absent
    BY VersionIs, Distinct DEF EmbeddedEvents, NodesOfTip
  <2> QED
    BY <1>3, <2>1, <2>2
<1>8. HandInv'
  <2>1. Pending("nodes") => DOMAIN Event("nodes").nodes \cap e.deleted = {}
    BY <1>0, <1>4, <1>7, EventAhead
  <2>2. ASSUME "nodes" \in busy'
        PROVE  LET d == Event("nodes") IN
               /\ DOMAIN records \subseteq DOMAIN d.nodes
               /\ \A n \in DOMAIN records : records[n].hash = d.nodes[n]
               /\ DOMAIN d.nodes \ DOMAIN records \subseteq graphStale'
    BY <1>1, <2>1, <2>2 DEF HeadInv, HandInv, PipeInv, HandType
  <2>3. ASSUME "embedder" \in busy', NEW n \in DOMAIN Event("embedder").nodes
        PROVE  known[n] = Event("embedder").nodes[n] => graph'[n].hash = known[n]
    <3>1. n \in Nodes
      BY <1>1, <2>3, EventType, VersionIs DEF PipeInv, HandType, ParsedEvents
    <3> QED
      BY <1>1, <1>6, <2>3, <3>1 DEF HeadInv, HandInv
  <2>4. Event("nodes")' = Event("nodes") /\ Event("embedder")' = Event("embedder")
    BY <1>0, <1>5
  <2> QED
    BY <1>1, <2>2, <2>3, <2>4 DEF HandInv
<1>9. (\A s \in Scanners : AtTip(s))' /\ \A n : Due(n)' => Due(n)
  BY <1>2, AtTipKept, SameDue DEF HeadInv
<1>10. FlowInv'
  <2>1. \A h \in Groups : Ahead(h)' \subseteq Ahead(h)
    BY <1>5
  <2> QED
    BY <1>2, <2>1, FlowHeld DEF HeadInv
<1>11. \A n : TipHas(n)' = TipHas(n)
  BY <1>2, SameTip
<1>12. ASSUME NEW n \in Nodes \ graphStale', Due(n)' PROVE (Coming(n) \/ Shown(n))'
  <2>1. CASE n \in e.deleted
    <3>1. ~ Active(n)' /\ TipHas(n)' = Absent
      BY <1>3, <1>6, <1>11, <2>1
    <3> QED
      BY <3>1 DEF Shown
  <2>2. CASE n \notin e.deleted
    <3>1. Coming(n) \/ Shown(n)
      BY <1>1, <1>9, <1>12, <2>2 DEF HeadInv, GraphInv
    <3>2. Coming(n) => Coming(n)'
      BY <1>0, <1>5, <2>2 DEF Coming
    <3>3. Shown(n) => Shown(n)'
      BY <1>6, <1>11, <2>2 DEF Shown
    <3> QED
      BY <3>1, <3>2, <3>3
  <2> QED
    BY <2>1, <2>2
<1>13. ASSUME NEW n \in Nodes \ vecStale', Due(n)' PROVE (VecComing(n) \/ vec[n] = TipHas(n))'
  <2>1. VecComing(n) \/ vec[n] = TipHas(n)
    BY <1>1, <1>9, <1>13 DEF HeadInv, VecInv
  <2>2. VecComing(n) => VecComing(n)'
    BY <1>0, <1>5 DEF VecComing
  <2> QED
    BY <1>1, <1>11, <2>1, <2>2
<1>14. GraphInv' /\ VecInv'
  BY <1>12, <1>13 DEF GraphInv, VecInv
<1>15. PaceInv'
  <2>1. ASSUME NEW n \in Nodes \ (graphStale' \cup vecStale'), Active(n)'
        PROVE  vec'[n] = graph'[n].hash \/ Uneven(n)'
    <3>1. Active(n) /\ n \notin e.deleted /\ n \notin graphStale /\ n \notin vecStale
      BY <1>1, <1>6, <2>1
    <3>2. vec[n] = graph[n].hash \/ Uneven(n)
      BY <3>1 DEF HeadInv, PaceInv
    <3>3. Uneven(n) => Uneven(n)'
      BY <1>0, <1>5, <3>1 DEF Uneven
    <3> QED
      BY <1>1, <1>6, <3>2, <3>3
  <2>2. ASSUME NEW d \in Between("nodes", "vectors")', NEW n \in DOMAIN d.nodes
        PROVE  n \in graphStale' \/ graph'[n].hash = TipHas(n)'
    <3>1. d \in Between("nodes", "vectors") /\ d \in Ahead("vectors")
      BY <1>0, <1>4, <1>5, <2>2, BetweenAhead, StreamIs
    <3>2. n \in Nodes /\ n \notin e.deleted
      BY <1>4, <1>7, <2>2, <3>1, AheadTypes, VersionIs DEF EmbeddedEvents
    <3> QED
      BY <1>1, <1>6, <1>11, <2>2, <3>1, <3>2 DEF HeadInv, PaceInv
  <2>3. ASSUME NEW d \in Between("vectors", "nodes")', NEW n \in DOMAIN d.nodes
        PROVE  n \in vecStale' \/ vec'[n] = TipHas(n)'
    BY <1>0, <1>1, <1>5, <1>11, <2>3 DEF HeadInv, PaceInv
  <2>4. ASSUME NEW d \in Between("parser", "vdelete")', NEW n \in d.deleted
        PROVE  \/ n \in graphStale' \/ ~ Active(n)'
               \/ \E c \in Ahead("edges")' : n \in c.deleted
    <3>1. d \in Between("parser", "vdelete") /\ d \in Ahead("vdelete")
      BY <1>0, <1>4, <1>5, <2>4, BetweenAhead, StreamIs
    <3>2. n \in Nodes
      BY <1>4, <2>4, <3>1, AheadTypes DEF Events
    <3>3. n \in graphStale \/ ~ Active(n) \/ \E c \in Ahead("edges") : n \in c.deleted
      BY <2>4, <3>1 DEF HeadInv, PaceInv
    <3> QED
      BY <1>1, <1>5, <1>6, <3>2, <3>3
  <2> QED
    BY <2>1, <2>2, <2>3, <2>4 DEF PaceInv
<1> QED
  BY <1>8, <1>9, <1>10, <1>14, <1>15 DEF HeadInv

(* What is on its way to a store is in HEAD. *)
LEMMA ComingIsThere ==
  ASSUME PipeInv, HeadInv, NEW d \in Ahead("nodes") \cup Ahead("vectors"), NEW n \in DOMAIN d.nodes
  PROVE  n \in Nodes /\ d.nodes[n] = TipHas(n) /\ TipHas(n) # Absent
<1>1. d \in EmbeddedEvents /\ NodesOfTip(d)
  BY AheadTypes DEF PipeInv, HeadInv, FlowInv
<1>2. n \in Nodes /\ d.nodes[n] \in Hashes
  BY <1>1, VersionIs DEF EmbeddedEvents
<1> QED
  BY <1>1, <1>2, Distinct DEF NodesOfTip

LEMMA UpsertNodesHead == ASSUME PipeInv, HeadInv, UpsertNodes PROVE HeadInv'
<1> DEFINE e == Event("nodes")
<1>0. {"parser", "vdelete", "embedder", "edges", "nodes", "vectors"} \subseteq Groups
  BY DEF Groups
<1>1. /\ "nodes" \in busy /\ Pending("nodes") /\ Done("nodes")
      /\ graph' = [n \in Nodes |->
                     IF n \in DOMAIN records
                       THEN [hash |-> records[n].hash, body |-> records[n].body, active |-> TRUE]
                       ELSE graph[n]]
      /\ graphStale' = graphStale \ DOMAIN records
      /\ UNCHANGED watcherVars
      /\ UNCHANGED <<parsedFile, embeddedNodes, known, vec, vecStale>>
      /\ busy' = busy \ {"nodes"}
  BY DEF UpsertNodes, PipeInv, HandType
<1>2. UNCHANGED <<fileChanged, commits, lastSha, scan, torn, ghost>>
  BY <1>1 DEF watcherVars
<1>3. e \in Ahead("nodes")
  BY <1>0, <1>1, EventAhead DEF PipeInv
<1>4. StreamType
  BY DEF PipeInv
<1>5. /\ Ahead("nodes") = {e} \cup Ahead("nodes")'
      /\ \A h \in Groups \ {"nodes"} :
           /\ Ahead(h)' = Ahead(h) /\ Event(h)' = Event(h)
           /\ \A k \in Groups \ {"nodes"} : Between(h, k)' = Between(h, k)
      /\ Between("nodes", "vectors")' \subseteq Between("nodes", "vectors") \cup {e}
      /\ Between("vectors", "nodes")' \subseteq Between("vectors", "nodes")
      /\ e \in Ahead("vectors") \cup Between("vectors", "nodes")
  BY <1>0, <1>1, <1>2, <1>4, Handled, StreamIs
<1>6. /\ DOMAIN records \subseteq DOMAIN e.nodes
      /\ \A n \in DOMAIN records : records[n].hash = e.nodes[n]
      /\ DOMAIN e.nodes \ DOMAIN records \subseteq graphStale'
  BY <1>1 DEF HeadInv, HandInv
<1>7. \A n \in DOMAIN e.nodes : n \in Nodes /\ e.nodes[n] = TipHas(n) /\ TipHas(n) # Absent
  BY <1>3, ComingIsThere
<1> HIDE DEF e
<1>8. ASSUME NEW n \in Nodes
      PROVE  /\ n \in DOMAIN records => graph'[n].hash = TipHas(n) /\ Active(n)'
             /\ n \notin DOMAIN records => graph'[n] = graph[n] /\ (Active(n)' <=> Active(n))
  BY <1>1, <1>6, <1>7 DEF Active
<1>9. HandInv'
  <2>1. ASSUME "embedder" \in busy', NEW n \in DOMAIN Event("embedder").nodes
        PROVE  known[n] = Event("embedder").nodes[n] => graph'[n].hash = known[n]
    <3>1. n \in Nodes /\ Event("embedder").nodes[n] = TipHas(n)
      BY <1>0, <1>1, <1>4, <2>1, EventAhead, EventType, VersionIs
         DEF PipeInv, HandType, ParsedEvents, HeadInv, FlowInv, NodesOfTip
    <3> QED
      BY <1>1, <1>8, <2>1, <3>1 DEF HeadInv, HandInv
  <2>2. Event("embedder")' = Event("embedder")
    BY <1>0, <1>5
  <2> QED
    BY <1>1, <2>1, <2>2 DEF HandInv
<1>10. (\A s \in Scanners : AtTip(s))' /\ \A n : Due(n)' => Due(n)
  BY <1>2, AtTipKept, SameDue DEF HeadInv
<1>11. FlowInv'
  <2>1. \A h \in Groups : Ahead(h)' \subseteq Ahead(h)
    BY <1>5
  <2> QED
    BY <1>2, <2>1, FlowHeld DEF HeadInv
<1>12. \A n : TipHas(n)' = TipHas(n)
  BY <1>2, SameTip
<1>13. ASSUME NEW n \in Nodes \ graphStale', Due(n)' PROVE (Coming(n) \/ Shown(n))'
  <2>1. CASE n \in DOMAIN records
    BY <1>8, <1>12, <2>1 DEF Shown
  <2>2. CASE n \notin DOMAIN records
    <3>1. Coming(n) \/ Shown(n)
      BY <1>1, <1>10, <1>13, <2>2 DEF HeadInv, GraphInv
    <3>2. n \notin DOMAIN e.nodes
      BY <1>6, <1>13, <2>2
    <3>3. Coming(n) => Coming(n)'
      BY <1>0, <1>5, <3>2 DEF Coming
    <3>4. Shown(n) => Shown(n)'
      BY <1>8, <1>12, <2>2 DEF Shown
    <3> QED
      BY <3>1, <3>3, <3>4
  <2> QED
    BY <2>1, <2>2
<1>14. ASSUME NEW n \in Nodes \ vecStale', Due(n)' PROVE (VecComing(n) \/ vec[n] = TipHas(n))'
  <2>1. VecComing(n) \/ vec[n] = TipHas(n)
    BY <1>1, <1>10, <1>14 DEF HeadInv, VecInv
  <2>2. VecComing(n) => VecComing(n)'
    BY <1>0, <1>5 DEF VecComing
  <2> QED
    BY <1>1, <1>12, <2>1, <2>2
<1>15. GraphInv' /\ VecInv'
  BY <1>13, <1>14 DEF GraphInv, VecInv
<1>16. PaceInv'
  <2>1. ASSUME NEW n \in Nodes \ (graphStale' \cup vecStale'), Active(n)'
        PROVE  vec'[n] = graph'[n].hash \/ Uneven(n)'
    <3>1. CASE n \in DOMAIN records
      <4>1. CASE e \in Ahead("vectors")
        BY <1>0, <1>5, <1>6, <3>1, <4>1 DEF Uneven
      <4>2. CASE e \in Between("vectors", "nodes")
        <5>1. vec[n] = TipHas(n)
          BY <1>1, <1>6, <2>1, <3>1, <4>2 DEF HeadInv, PaceInv
        <5> QED
          BY <1>1, <1>8, <3>1, <5>1
      <4> QED
        BY <1>5, <4>1, <4>2
    <3>2. CASE n \notin DOMAIN records
      <4>1. n \notin graphStale /\ n \notin vecStale /\ n \notin DOMAIN e.nodes /\ Active(n)
        BY <1>1, <1>6, <1>8, <2>1, <3>2
      <4>2. vec[n] = graph[n].hash \/ Uneven(n)
        BY <4>1 DEF HeadInv, PaceInv
      <4>3. Uneven(n) => Uneven(n)'
        BY <1>0, <1>5, <4>1 DEF Uneven
      <4> QED
        BY <1>1, <1>8, <3>2, <4>2, <4>3
    <3> QED
      BY <3>1, <3>2
  <2>2. ASSUME NEW d \in Between("nodes", "vectors")', NEW n \in DOMAIN d.nodes
        PROVE  n \in graphStale' \/ graph'[n].hash = TipHas(n)'
    <3>1. CASE n \in DOMAIN records
      BY <1>6, <1>7, <1>8, <1>12, <3>1
    <3>2. CASE n \notin DOMAIN records /\ d = e
      BY <1>6, <2>2, <3>2
    <3>3. CASE n \notin DOMAIN records /\ d # e
      <4>1. d \in Between("nodes", "vectors") /\ d \in Ahead("vectors")
        BY <1>0, <1>4, <1>5, <2>2, <3>3, BetweenAhead, StreamIs
      <4>2. n \in Nodes
        BY <2>2, <4>1, ComingIsThere
      <4> QED
        BY <1>1, <1>8, <1>12, <2>2, <3>3, <4>1, <4>2 DEF HeadInv, PaceInv
    <3> QED
      BY <3>1, <3>2, <3>3
  <2>3. ASSUME NEW d \in Between("vectors", "nodes")', NEW n \in DOMAIN d.nodes
        PROVE  n \in vecStale' \/ vec'[n] = TipHas(n)'
    BY <1>1, <1>5, <1>12, <2>3 DEF HeadInv, PaceInv
  <2>4. ASSUME NEW d \in Between("parser", "vdelete")', NEW n \in d.deleted
        PROVE  \/ n \in graphStale' \/ ~ Active(n)'
               \/ \E c \in Ahead("edges")' : n \in c.deleted
    <3>1. d \in Between("parser", "vdelete") /\ d \in Ahead("vdelete")
      BY <1>0, <1>4, <1>5, <2>4, BetweenAhead, StreamIs
    <3>2. n \in Nodes /\ TipHas(n) = Absent
      BY <1>4, <2>4, <3>1, AheadTypes DEF Events, HeadInv, FlowInv, OfTip
    <3>3. n \notin DOMAIN records
      BY <1>6, <1>7, <3>2
    <3>4. n \in graphStale \/ ~ Active(n) \/ \E c \in Ahead("edges") : n \in c.deleted
      BY <2>4, <3>1 DEF HeadInv, PaceInv
    <3>5. Ahead("edges")' = Ahead("edges")
      BY <1>0, <1>5
    <3>6. n \in graphStale => n \in graphStale'
      BY <1>1, <3>3
    <3>7. Active(n)' <=> Active(n)
      BY <1>8, <3>2, <3>3
    <3> QED
      BY <3>4, <3>5, <3>6, <3>7
  <2> QED
    BY <2>1, <2>2, <2>3, <2>4 DEF PaceInv
<1> QED
  BY <1>9, <1>10, <1>11, <1>15, <1>16 DEF HeadInv

LEMMA PointsHead == ASSUME PipeInv, HeadInv, UpsertPoints PROVE HeadInv'
<1> DEFINE e == Event("vectors")
<1>0. {"parser", "vdelete", "embedder", "edges", "nodes", "vectors"} \subseteq Groups
  BY DEF Groups
<1>1. /\ Pending("vectors") /\ Done("vectors")
      /\ vec' = [n \in Nodes |-> IF n \in DOMAIN e.nodes THEN e.nodes[n] ELSE vec[n]]
      /\ vecStale' = vecStale \ DOMAIN e.nodes
      /\ UNCHANGED watcherVars
      /\ UNCHANGED <<parsedFile, embeddedNodes, busy, known, records, graph, graphStale>>
  BY DEF UpsertPoints
<1>2. UNCHANGED <<fileChanged, commits, lastSha, scan, torn, ghost>>
  BY <1>1 DEF watcherVars
<1>3. e \in Ahead("vectors")
  BY <1>0, <1>1, EventAhead DEF PipeInv
<1>4. StreamType
  BY DEF PipeInv
<1>5. /\ Ahead("vectors") = {e} \cup Ahead("vectors")'
      /\ \A h \in Groups \ {"vectors"} :
           /\ Ahead(h)' = Ahead(h) /\ Event(h)' = Event(h)
           /\ \A k \in Groups \ {"vectors"} : Between(h, k)' = Between(h, k)
      /\ Between("vectors", "nodes")' \subseteq Between("vectors", "nodes") \cup {e}
      /\ Between("nodes", "vectors")' \subseteq Between("nodes", "vectors")
      /\ e \in Ahead("nodes") \cup Between("nodes", "vectors")
  BY <1>0, <1>1, <1>2, <1>4, Handled, StreamIs
<1>6. \A n \in DOMAIN e.nodes : n \in Nodes /\ e.nodes[n] = TipHas(n)
  BY <1>3, ComingIsThere
<1> HIDE DEF e
<1>7. ASSUME NEW n \in Nodes
      PROVE  /\ n \in DOMAIN e.nodes => vec'[n] = TipHas(n)
             /\ n \notin DOMAIN e.nodes => vec'[n] = vec[n]
  BY <1>1, <1>6
<1>8. HandInv'
  BY <1>0, <1>1, <1>5, HandHeld DEF HeadInv
<1>9. (\A s \in Scanners : AtTip(s))' /\ \A n : Due(n)' => Due(n)
  BY <1>2, AtTipKept, SameDue DEF HeadInv
<1>10. FlowInv'
  <2>1. \A h \in Groups : Ahead(h)' \subseteq Ahead(h)
    BY <1>5
  <2> QED
    BY <1>2, <2>1, FlowHeld DEF HeadInv
<1>11. \A n : TipHas(n)' = TipHas(n) /\ Active(n)' = Active(n) /\ Shown(n)' = Shown(n)
  BY <1>1, <1>2, SameTip DEF Active, Shown
<1>12. GraphInv'
  <2>1. \A n : Coming(n) => Coming(n)'
    BY <1>0, <1>5 DEF Coming
  <2> QED
    BY <1>1, <1>9, <1>11, <2>1 DEF HeadInv, GraphInv
<1>13. ASSUME NEW n \in Nodes \ vecStale', Due(n)' PROVE (VecComing(n) \/ vec[n] = TipHas(n))'
  <2>1. CASE n \in DOMAIN e.nodes
    BY <1>7, <1>11, <2>1
  <2>2. CASE n \notin DOMAIN e.nodes
    <3>1. VecComing(n) \/ vec[n] = TipHas(n)
      BY <1>1, <1>9, <1>13, <2>2 DEF HeadInv, VecInv
    <3>2. VecComing(n) => VecComing(n)'
      BY <1>0, <1>5, <2>2 DEF VecComing
    <3> QED
      BY <1>7, <1>11, <2>2, <3>1, <3>2
  <2> QED
    BY <2>1, <2>2
<1>14. PaceInv'
  <2>1. ASSUME NEW n \in Nodes \ (graphStale' \cup vecStale'), Active(n)'
        PROVE  vec'[n] = graph'[n].hash \/ Uneven(n)'
    <3>1. CASE n \in DOMAIN e.nodes
      <4>1. CASE e \in Ahead("nodes")
        BY <1>0, <1>5, <3>1, <4>1 DEF Uneven
      <4>2. CASE e \in Between("nodes", "vectors")
        <5>1. graph[n].hash = TipHas(n)
          BY <1>1, <2>1, <3>1, <4>2 DEF HeadInv, PaceInv
        <5> QED
          BY <1>1, <1>7, <3>1, <5>1
      <4> QED
        BY <1>5, <4>1, <4>2
    <3>2. CASE n \notin DOMAIN e.nodes
      <4>1. vec[n] = graph[n].hash \/ Uneven(n)
        BY <1>1, <1>11, <2>1, <3>2 DEF HeadInv, PaceInv
      <4>2. Uneven(n) => Uneven(n)'
        BY <1>0, <1>5, <3>2 DEF Uneven
      <4> QED
        BY <1>1, <1>7, <3>2, <4>1, <4>2
    <3> QED
      BY <3>1, <3>2
  <2>2. ASSUME NEW d \in Between("nodes", "vectors")', NEW n \in DOMAIN d.nodes
        PROVE  n \in graphStale' \/ graph'[n].hash = TipHas(n)'
    BY <1>1, <1>5, <1>11, <2>2 DEF HeadInv, PaceInv
  <2>3. ASSUME NEW d \in Between("vectors", "nodes")', NEW n \in DOMAIN d.nodes
        PROVE  n \in vecStale' \/ vec'[n] = TipHas(n)'
    <3>1. CASE n \in DOMAIN e.nodes
      BY <1>6, <1>7, <1>11, <3>1
    <3>2. CASE n \notin DOMAIN e.nodes
      <4>1. d \in Between("vectors", "nodes") /\ d \in Ahead("nodes")
        BY <1>0, <1>4, <1>5, <2>3, <3>2, BetweenAhead, StreamIs
      <4>2. n \in Nodes
        BY <2>3, <4>1, ComingIsThere
      <4> QED
        BY <1>1, <1>7, <1>11, <2>3, <3>2, <4>1, <4>2 DEF HeadInv, PaceInv
    <3> QED
      BY <3>1, <3>2
  <2>4. ASSUME NEW d \in Between("parser", "vdelete")', NEW n \in d.deleted
        PROVE  \/ n \in graphStale' \/ ~ Active(n)'
               \/ \E c \in Ahead("edges")' : n \in c.deleted
    BY <1>0, <1>1, <1>5, <1>11, <2>4 DEF HeadInv, PaceInv
  <2> QED
    BY <2>1, <2>2, <2>3, <2>4 DEF PaceInv
<1>15. VecInv'
  BY <1>13 DEF VecInv
<1> QED
  BY <1>8, <1>9, <1>10, <1>12, <1>14, <1>15 DEF HeadInv

LEMMA DeleteHead == ASSUME PipeInv, HeadInv, DeletePoints PROVE HeadInv'
<1> DEFINE e == Event("vdelete")
<1>0. {"parser", "vdelete", "embedder", "edges", "nodes", "vectors"} \subseteq Groups
  BY DEF Groups
<1>1. /\ Pending("vdelete") /\ Done("vdelete")
      /\ vec' = [n \in Nodes |-> IF n \in e.deleted THEN Absent ELSE vec[n]]
      /\ vecStale' = vecStale \ e.deleted
      /\ UNCHANGED watcherVars
      /\ UNCHANGED <<parsedFile, embeddedNodes, busy, known, records, graph, graphStale>>
  BY DEF DeletePoints
<1>2. UNCHANGED <<fileChanged, commits, lastSha, scan, torn, ghost>>
  BY <1>1 DEF watcherVars
<1>3. \A n \in e.deleted : TipHas(n) = Absent
  BY <1>0, <1>1, EventAhead DEF PipeInv, HeadInv, FlowInv, OfTip
<1>4. StreamType
  BY DEF PipeInv
<1>5. /\ Ahead("vdelete") = {e} \cup Ahead("vdelete")'
      /\ \A h \in Groups \ {"vdelete"} :
           /\ Ahead(h)' = Ahead(h) /\ Event(h)' = Event(h)
           /\ \A k \in Groups \ {"vdelete"} : Between(h, k)' = Between(h, k)
      /\ Between("parser", "vdelete")' \subseteq Between("parser", "vdelete")
      /\ e \in Ahead("parser") \cup Between("parser", "vdelete")
  BY <1>0, <1>1, <1>2, <1>4, Handled, StreamIs
<1> HIDE DEF e
<1>6. ASSUME NEW n \in Nodes
      PROVE  /\ n \in e.deleted => vec'[n] = TipHas(n)
             /\ n \notin e.deleted => vec'[n] = vec[n]
  BY <1>1, <1>3
<1>7. HandInv'
  BY <1>0, <1>1, <1>5, HandHeld DEF HeadInv
<1>8. (\A s \in Scanners : AtTip(s))' /\ \A n : Due(n)' => Due(n)
  BY <1>2, AtTipKept, SameDue DEF HeadInv
<1>9. FlowInv'
  <2>1. \A h \in Groups : Ahead(h)' \subseteq Ahead(h)
    BY <1>5
  <2> QED
    BY <1>2, <2>1, FlowHeld DEF HeadInv
<1>10. \A n : TipHas(n)' = TipHas(n) /\ Active(n)' = Active(n) /\ Shown(n)' = Shown(n)
  BY <1>1, <1>2, SameTip DEF Active, Shown
<1>11. GraphInv'
  <2>1. \A n : Coming(n) => Coming(n)'
    BY <1>0, <1>5 DEF Coming
  <2> QED
    BY <1>1, <1>8, <1>10, <2>1 DEF HeadInv, GraphInv
<1>12. ASSUME NEW n \in Nodes \ vecStale', Due(n)' PROVE (VecComing(n) \/ vec[n] = TipHas(n))'
  <2>1. CASE n \in e.deleted
    BY <1>6, <1>10, <2>1
  <2>2. CASE n \notin e.deleted
    <3>1. VecComing(n) \/ vec[n] = TipHas(n)
      BY <1>1, <1>8, <1>12, <2>2 DEF HeadInv, VecInv
    <3>2. VecComing(n) => VecComing(n)'
      BY <1>0, <1>5, <2>2 DEF VecComing
    <3> QED
      BY <1>6, <1>10, <2>2, <3>1, <3>2
  <2> QED
    BY <2>1, <2>2
<1>13. PaceInv'
  <2>1. ASSUME NEW n \in Nodes \ (graphStale' \cup vecStale'), Active(n)'
        PROVE  vec'[n] = graph'[n].hash \/ Uneven(n)'
    <3>1. Uneven(n) => Uneven(n)'
      BY <1>0, <1>5 DEF Uneven
    <3>2. CASE n \in e.deleted
      <4>1. e \in Between("parser", "vdelete") => \E c \in Ahead("edges") : n \in c.deleted
        BY <1>1, <1>10, <2>1, <3>2 DEF HeadInv, PaceInv
      <4>2. Uneven(n)
        BY <1>5, <3>2, <4>1 DEF Uneven
      <4> QED
        BY <3>1, <4>2
    <3>3. CASE n \notin e.deleted
      <4>1. vec[n] = graph[n].hash \/ Uneven(n)
        BY <1>1, <1>10, <2>1, <3>3 DEF HeadInv, PaceInv
      <4> QED
        BY <1>1, <1>6, <3>1, <3>3, <4>1
    <3> QED
      BY <3>2, <3>3
  <2>2. ASSUME NEW d \in Between("nodes", "vectors")', NEW n \in DOMAIN d.nodes
        PROVE  n \in graphStale' \/ graph'[n].hash = TipHas(n)'
    BY <1>0, <1>1, <1>5, <1>10, <2>2 DEF HeadInv, PaceInv
  <2>3. ASSUME NEW d \in Between("vectors", "nodes")', NEW n \in DOMAIN d.nodes
        PROVE  n \in vecStale' \/ vec'[n] = TipHas(n)'
    <3>1. d \in Between("vectors", "nodes") /\ d \in Ahead("nodes")
      BY <1>0, <1>4, <1>5, <2>3, BetweenAhead, StreamIs
    <3>2. n \in Nodes /\ n \notin e.deleted
      BY <1>3, <2>3, <3>1, ComingIsThere
    <3> QED
      BY <1>1, <1>6, <1>10, <2>3, <3>1, <3>2 DEF HeadInv, PaceInv
  <2>4. ASSUME NEW d \in Between("parser", "vdelete")', NEW n \in d.deleted
        PROVE  \/ n \in graphStale' \/ ~ Active(n)'
               \/ \E c \in Ahead("edges")' : n \in c.deleted
    BY <1>0, <1>1, <1>5, <1>10, <2>4 DEF HeadInv, PaceInv
  <2> QED
    BY <2>1, <2>2, <2>3, <2>4 DEF PaceInv
<1>14. VecInv'
  BY <1>12 DEF VecInv
<1> QED
  BY <1>7, <1>8, <1>9, <1>11, <1>13, <1>14 DEF HeadInv

-----------------------------------------------------------------------------
(* HEAD in both stores.                                                    *)

LEMMA InitHead == Init => HeadInv
<1> SUFFICES ASSUME Init PROVE HeadInv
  OBVIOUS
<1>0. {"parser", "vdelete", "embedder", "edges", "nodes", "vectors"} \subseteq Groups
  BY DEF Groups
<1>1. PipeInv
  BY InitPipe
<1>2. /\ lastSha = 0 /\ fileChanged = <<>> /\ parsedFile = <<>> /\ embeddedNodes = <<>>
      /\ busy = {} /\ read = [g \in Groups |-> 0]
      /\ \A s \in Scanners : scan[s].pc = "idle" /\ scan[s].named = {}
      /\ \A n \in Nodes : vec[n] = Absent /\ ~ Active(n)
  BY DEF Init, WatcherInit, Idle, NoNode, Active
<1>3. Quiescent
  BY <1>2 DEF Quiescent, AllIdle, Pending, Stream
<1>4. /\ \A g \in Groups : Ahead(g) = {}
      /\ Between("nodes", "vectors") = {} /\ Between("vectors", "nodes") = {}
      /\ Between("parser", "vdelete") = {}
  BY <1>1, <1>3, QuietAhead
<1>5. \A s \in Scanners : AtTip(s)
  BY <1>2 DEF AtTip
<1>6. FlowInv /\ HandInv /\ PaceInv
  BY <1>0, <1>2, <1>4 DEF FlowInv, HandInv, PaceInv
<1>7. \A n \in Nodes : Due(n) => TipHas(n) = Absent
  BY <1>2 DEF Due, Indexed
<1>8. GraphInv /\ VecInv
  BY <1>2, <1>7 DEF GraphInv, VecInv, Shown
<1> QED
  BY <1>5, <1>6, <1>8 DEF HeadInv

LEMMA HeadStep == ~ Pipelined /\ PipeInv /\ HeadInv /\ [Next]_vars => HeadInv'
<1> SUFFICES ASSUME ~ Pipelined, PipeInv, HeadInv, [Next]_vars PROVE HeadInv'
  OBVIOUS
<1>1. CASE Handlers
  BY <1>1, ParseHead, MissingHead, ReadHashesHead, EmbedHead, CacheHead, EdgesHead, TombstoneHead,
     LookUpHead, MissHead, UpsertNodesHead, PointsHead, DeleteHead DEF Handlers
<1>2. CASE Watch
  BY <1>2, WatchHead
<1>3. CASE (\E g \in Groups : Lose(g)) \/ GraphWriterRestart
  BY <1>3, LoseHead, RestartHead
<1>4. CASE UNCHANGED vars
  BY <1>4, SameHead
<1> QED
  BY <1>1, <1>2, <1>3, <1>4 DEF Next

LEMMA HeadHolds == ~ Pipelined => (Spec => []HeadInv)
<1> SUFFICES ASSUME ~ Pipelined PROVE Spec => []HeadInv
  OBVIOUS
<1>1. PipeInv /\ HeadInv /\ [Next]_vars => HeadInv'
  BY HeadStep
<1> QED
  BY <1>1, InitHead, PipeHolds, PTL DEF Spec

(* What is due at rest: every node of the recorded commit but the torn and *)
(* the ghosts, and nothing is on its way.                                  *)
LEMMA DueAtRest ==
  ASSUME PipeInv, Settled, NEW n \in Nodes \ torn, TipHas(n) = Absent => n \notin ghost
  PROVE  Due(n) /\ ~ Coming(n) /\ ~ VecComing(n)
<1>1. lastSha = Tip /\ lastSha # 0
  BY DEF Settled, PipeInv, TypeInv, WatcherTypeOK
<1>2. Due(n)
  BY <1>1 DEF Due, Indexed, TipHas
<1>3. \A g \in {"parser", "vdelete", "embedder", "edges", "nodes", "vectors"} : Ahead(g) = {}
  BY QuietAhead DEF Settled, Groups
<1> QED
  BY <1>2, <1>3 DEF Coming, VecComing

(* In every run in which the next commit waits until the last is indexed,  *)
(* with any number of threads, requests, losses and restarts, the graph    *)
(* shows at rest exactly the nodes of HEAD, each at its present hash, but  *)
(* for those the run marks as missed.                                      *)
THEOREM GraphShowsHead == ~ Pipelined => (Spec => []GraphMatchesTip)
<1> SUFFICES ASSUME ~ Pipelined PROVE Spec => []GraphMatchesTip
  OBVIOUS
<1>1. PipeInv /\ HeadInv => GraphMatchesTip
  <2> SUFFICES ASSUME PipeInv, HeadInv, Settled, NEW n \in Nodes \ (graphStale \cup torn),
                      TipHas(n) = Absent => n \notin ghost
               PROVE  (IF Active(n) THEN graph[n].hash ELSE Absent) = TipHas(n)
    BY DEF GraphMatchesTip, TipHas
  <2> QED
    BY DueAtRest DEF HeadInv, GraphInv, Shown
<1> QED
  BY <1>1, PipeHolds, HeadHolds, PTL

(* The same of the vectors in Qdrant.                                      *)
THEOREM VectorsShowHead == ~ Pipelined => (Spec => []VectorsMatchTip)
<1> SUFFICES ASSUME ~ Pipelined PROVE Spec => []VectorsMatchTip
  OBVIOUS
<1>1. PipeInv /\ HeadInv => VectorsMatchTip
  <2> SUFFICES ASSUME PipeInv, HeadInv, Settled, NEW n \in Nodes \ (vecStale \cup torn),
                      TipHas(n) = Absent => n \notin ghost
               PROVE  vec[n] = TipHas(n)
    BY DEF VectorsMatchTip, TipHas
  <2> QED
    BY DueAtRest DEF HeadInv, VecInv
<1> QED
  BY <1>1, PipeHolds, HeadHolds, PTL

=============================================================================
