----------------------------- MODULE RepoWatcher -----------------------------
(***************************************************************************)
(* The repo-watcher: it turns the difference between the last indexed      *)
(* commit and a new one into FileChanged events, one per file, and then    *)
(* records the new commit as indexed.                                      *)
(*                                                                         *)
(* POST /hook and POST /index run in a thread pool and the poll loop in    *)
(* the event loop; all of them run process_commit with no lock between     *)
(* reading last_indexed_sha and writing it.                                *)
(*                                                                         *)
(* A tree gives each node (stable_id) its node_hash, or Absent.  A file    *)
(* exists in a tree when one of its nodes does: files without any node     *)
(* produce only empty events and are left out.  A commit is named by its   *)
(* position in the history.                                                *)
(***************************************************************************)
EXTENDS Naturals, Sequences, FiniteSets

CONSTANTS
  Files,       \* paths, numbered in the order git lists them
  Nodes,       \* stable ids
  FileOf,      \* the file each node belongs to: the path is part of its id
  Hashes,      \* node hashes
  Absent,      \* not a hash
  Trees,       \* the trees a commit may have
  Similar,     \* pairs <<old, new>> of paths git reports as a rename
  Scanners,    \* threads that may run process_commit
  Requests,    \* what starts a run: "hook", "poll", "index" or "rescan"
  MaxCommits,  \* bound: commits
  MaxScans,    \* bound: requests to /hook and /index
  MaxFaults    \* bound: failures

ASSUME FilesAssumption == Files \subseteq Nat /\ IsFiniteSet(Files)
ASSUME NodesAssumption == FileOf \in [Nodes -> Files]
ASSUME TreesAssumption == Absent \notin Hashes /\ Trees \subseteq [Nodes -> Hashes \cup {Absent}]
ASSUME RequestsAssumption == Requests \subseteq {"hook", "poll", "index", "rescan"}
ASSUME SimilarAssumption == Similar \subseteq Files \X Files
ASSUME WatcherBounds == MaxCommits \in Nat \ {0} /\ MaxScans \in Nat /\ MaxFaults \in Nat

VARIABLES
  commits,      \* the history: its last element is HEAD and the working tree
  lastSha,      \* last_indexed_sha:<repo> in Redis, 0 when there is none
  scan,         \* what each thread is doing
  fileChanged,  \* stream:file-changed
  scans,        \* requests served so far
  faults,
  torn,         \* history: nodes an abandoned or incomplete run may have left wrong
  ghost         \* history: nodes that vanished and were not reported deleted

watcherVars == <<commits, lastSha, scan, fileChanged, scans, faults, torn,
               ghost>>

Tip == Len(commits)

(* The ids of a file: its path is hashed into them. *)
NodesOf(f) == {n \in Nodes : FileOf[n] = f}

(* What extract finds in the file: imports, classes, functions, methods.   *)
NodesIn(t, f) == {n \in NodesOf(f) : t[n] # Absent}

Exists(t, f) == NodesIn(t, f) # {}
TreeAt(sha) == commits[sha]

Idle == [pc |-> "idle", kind |-> "none", prev |-> 0, cur |-> 0, todo |-> {}, named |-> {}]

Events == [file : Files, sha : 1 .. MaxCommits,
           type : {"full_rescan", "added", "modified", "deleted"},
           changed : SUBSET Nodes, added : SUBSET Nodes, deleted : SUBSET Nodes]

WatcherTypeOK ==
  /\ commits \in Seq(Trees) /\ Tip \in 1 .. MaxCommits
  /\ lastSha \in 0 .. Tip
  /\ scan \in [Scanners -> [pc : {"idle", "begin", "emit"}, kind : Requests \cup {"none"},
                            prev : 0 .. MaxCommits, cur : 0 .. MaxCommits,
                            todo : SUBSET Files, named : SUBSET Nodes]]
  /\ fileChanged \in Seq(Events)
  /\ scans \in 0 .. MaxScans
  /\ faults \in 0 .. MaxFaults
  /\ torn \subseteq Nodes /\ ghost \subseteq Nodes

WatcherInit ==
  /\ \E t \in Trees : commits = <<t>>
  /\ lastSha = 0
  /\ scan = [s \in Scanners |-> Idle]
  /\ fileChanged = <<>>
  /\ scans = 0 /\ faults = 0
  /\ torn = {} /\ ghost = {}

-----------------------------------------------------------------------------
(* get_changed_files: what git diff --name-status prints for two trees.  A *)
(* rename is printed once, and only its new path is kept.  A file that     *)
(* differs in no node_hash is printed too, and its event names no node: it *)
(* says nothing of the tree, and is left out.                              *)
RenamedTo(t, u, f) ==
  \E g \in Files : <<g, f>> \in Similar /\ ~Exists(t, f) /\ Exists(t, g) /\ ~Exists(u, g)
RenamedFrom(t, u, f) ==
  \E g \in Files : <<f, g>> \in Similar /\ ~Exists(t, g) /\ Exists(u, g) /\ ~Exists(u, f)

ChangedFiles(t, u) ==
  {f \in Files : /\ \E n \in NodesOf(f) : t[n] # u[n]
                 /\ ~RenamedFrom(t, u, f)}

(* Mutant of DiffType: a status letter that is not translated. *)
DiffTypeLetter(t, u, f) ==
  CASE Exists(t, f) /\ ~Exists(u, f) -> "deleted"
    [] ~Exists(t, f) /\ ~RenamedTo(t, u, f) -> "added"
    [] OTHER -> "M"

(* The status letter, translated; what is not A or D counts as modified.   *)
DiffType(t, u, f) ==
  CASE Exists(t, f) /\ ~Exists(u, f) -> "deleted"
    [] ~Exists(t, f) /\ ~RenamedTo(t, u, f) -> "added"
    [] OTHER -> "modified"

(* get_changed_nodes: the nodes of one file by what happened to them.      *)
ChangedNodes(t, u, f) ==
  [changed |-> {n \in NodesOf(f) : Absent \notin {t[n], u[n]} /\ t[n] # u[n]},
   added   |-> NodesIn(u, f) \ NodesIn(t, f),
   deleted |-> NodesIn(t, f) \ NodesIn(u, f)]

(* The body of the loop of process_commit for one file. *)
EventFor(f, prev, cur) ==
  LET u == TreeAt(cur) IN
  IF prev = 0
    THEN [file |-> f, sha |-> cur, type |-> "full_rescan",
          changed |-> {}, added |-> NodesIn(u, f), deleted |-> {}]
    ELSE LET t == TreeAt(prev)
             d == ChangedNodes(t, u, f)
         IN  [file |-> f, sha |-> cur, type |-> DiffType(t, u, f),
              changed |-> d.changed, added |-> d.added, deleted |-> d.deleted]

(* The files a run visits: all tracked ones, or the changed ones. *)
FilesToVisit(prev, cur) ==
  IF prev = 0 THEN {f \in Files : Exists(TreeAt(Tip), f)}
              ELSE ChangedFiles(TreeAt(prev), TreeAt(cur))

-----------------------------------------------------------------------------
(* Somebody commits, and the checkout follows. *)
Commit ==
  /\ Tip < MaxCommits
  /\ \E t \in Trees \ {TreeAt(Tip)} : commits' = Append(commits, t)
  /\ UNCHANGED <<lastSha, scan, fileChanged, scans, faults, torn, ghost>>

Begins(s, kind, prev, cur) ==
  /\ kind \in Requests
  /\ scan[s].pc = "idle"
  /\ IF kind = "poll" THEN UNCHANGED scans
                      ELSE scans < MaxScans /\ scans' = scans + 1
  /\ scan' = [scan EXCEPT ![s] = [Idle EXCEPT !.pc = "begin", !.kind = kind,
                                             !.prev = prev, !.cur = cur]]
  /\ UNCHANGED <<commits, lastSha, fileChanged, faults, torn, ghost>>

(* The post-commit hook names HEAD; the request may be served late.        *)
Hook(s) == Begins(s, "hook", 0, Tip)

(* The poll loop is one task: it reads HEAD and then last_indexed_sha.     *)
Poll(s) ==
  /\ \A p \in Scanners : scan[p].kind # "poll"
  /\ Begins(s, "poll", 0, Tip)

(* /index reads last_indexed_sha, or ignores it, and HEAD at some time     *)
(* after that: what is HEAD now is the oldest it can get.                  *)
Index(s)  == Begins(s, "index", lastSha, Tip)
Rescan(s) == Begins(s, "rescan", 0, Tip)

(* The commit a run is about: HEAD may have moved on since it was read.    *)
ReadAsHead(s) == scan[s].cur .. IF scan[s].kind \in {"hook", "poll"} THEN scan[s].cur ELSE Tip

(* The second read, and then the list of files, which a full rescan takes  *)
(* from the checkout.  Only the poll loop compares the two commits first.  *)
ListFiles(s) ==
  LET k == scan[s].kind
      prev == IF k \in {"hook", "poll"} THEN lastSha ELSE scan[s].prev
  IN  /\ scan[s].pc = "begin"
      /\ \E cur \in ReadAsHead(s) :
           scan' = [scan EXCEPT ![s] =
                      IF k = "poll" /\ prev = cur THEN Idle
                      ELSE [@ EXCEPT !.pc = "emit", !.prev = prev, !.cur = cur,
                                     !.todo = FilesToVisit(prev, cur)]]
      /\ UNCHANGED <<commits, lastSha, fileChanged, scans, faults, torn, ghost>>

NextFile(s) == CHOOSE f \in scan[s].todo : \A g \in scan[s].todo : f <= g

Emit(s) ==
  /\ scan[s].pc = "emit" /\ scan[s].todo # {}
  /\ LET f == NextFile(s)
         e == EventFor(f, scan[s].prev, scan[s].cur)
     IN  /\ fileChanged' = Append(fileChanged, e)
         /\ scan' = [scan EXCEPT ![s].todo = @ \ {f},
                                 ![s].named = @ \cup e.changed \cup e.added \cup e.deleted]
  /\ UNCHANGED <<commits, lastSha, scans, faults, torn, ghost>>

(* A full rescan lists the files of the checkout but reads them at cur: a  *)
(* file HEAD has lost meanwhile is not visited.                            *)
Unlisted(s) ==
  IF scan[s].prev # 0 THEN {}
  ELSE {n \in Nodes : TreeAt(scan[s].cur)[n] # Absent} \ scan[s].named

(* Neither a full rescan nor a rename reports what vanished: the rescan    *)
(* emits deleted_nodes = [] and git names the new path only.               *)
Vanished(s) ==
  IF scan[s].prev = 0
    THEN {n \in Nodes : lastSha # 0 /\ TreeAt(lastSha)[n] # Absent}
    ELSE {n \in Nodes : RenamedFrom(TreeAt(scan[s].prev), TreeAt(scan[s].cur), FileOf[n])}

(* Mutant of Save: a run without any event records nothing. *)
SaveIfEmitted(s) ==
  /\ scan[s].pc = "emit" /\ scan[s].todo = {}
  /\ lastSha' = IF scan[s].named = {} THEN lastSha ELSE scan[s].cur
  /\ torn' = (torn \ scan[s].named) \cup Unlisted(s)
  /\ ghost' = (ghost \cup Vanished(s)) \ scan[s].named
  /\ scan' = [scan EXCEPT ![s] = Idle]
  /\ UNCHANGED <<commits, fileChanged, scans, faults>>

Save(s) ==
  /\ scan[s].pc = "emit" /\ scan[s].todo = {}
  /\ lastSha' = scan[s].cur
  /\ torn' = (torn \ scan[s].named) \cup Unlisted(s)
  /\ ghost' = (ghost \cup Vanished(s)) \ scan[s].named
  /\ scan' = [scan EXCEPT ![s] = Idle]
  /\ UNCHANGED <<commits, fileChanged, scans, faults>>

(* Mutant of Abandon: the commit is recorded although the run failed. *)
AbandonRecords(s) ==
  /\ scan[s].pc # "idle"
  /\ faults < MaxFaults /\ faults' = faults + 1
  /\ lastSha' = scan[s].cur
  /\ torn' = torn \cup scan[s].named
  /\ scan' = [scan EXCEPT ![s] = Idle]
  /\ UNCHANGED <<commits, fileChanged, scans, ghost>>

(* Redis or git raises, or the process dies: the run is abandoned and      *)
(* last_indexed_sha keeps its value; the events already emitted stay.      *)
Abandon(s) ==
  /\ scan[s].pc # "idle"
  /\ faults < MaxFaults /\ faults' = faults + 1
  /\ torn' = torn \cup scan[s].named
  /\ scan' = [scan EXCEPT ![s] = Idle]
  /\ UNCHANGED <<commits, lastSha, fileChanged, scans, ghost>>

Work(s) == ListFiles(s) \/ Emit(s) \/ Save(s)
WatcherStep(s) == Hook(s) \/ Poll(s) \/ Index(s) \/ Rescan(s) \/ Work(s) \/ Abandon(s)

WatcherNext == Commit \/ \E s \in Scanners : WatcherStep(s)

WatcherSpec == WatcherInit /\ [][WatcherNext]_watcherVars

-----------------------------------------------------------------------------
(* Properties.                                                             *)

(* What the events of the stream say of a node: its last event decides.    *)
Names(e, n) == n \in e.changed \cup e.added \cup e.deleted
Replay(n) ==
  LET about == {i \in DOMAIN fileChanged : Names(fileChanged[i], n)}
      i == CHOOSE m \in about : \A k \in about : k <= m
      e == fileChanged[i]
  IN  IF about = {} \/ n \in e.deleted THEN Absent ELSE TreeAt(e.sha)[n]

AllIdle == \A s \in Scanners : scan[s].pc = "idle"

(* Between two runs the stream replays to the tree of the commit recorded  *)
(* as indexed, node by node, but for the nodes a run left uncertain by     *)
(* stopping half way or by not listing their file, and for those that      *)
(* vanished without a word, which may outlive their file and no more.      *)
ReplayIsIndexedTree ==
  AllIdle /\ lastSha # 0 =>
    \A n \in Nodes \ torn :
      LET v == TreeAt(lastSha)[n] IN (v = Absent => n \notin ghost) => Replay(n) = v

(* The poll loop alone brings the recorded commit to HEAD once commits     *)
(* stop coming: a failed run is run again at the next poll.                *)
PollCatchesUp == <>[](lastSha = Tip)
=============================================================================
