-------------------------- MODULE RepoWatcher_proofs --------------------------
(***************************************************************************)
(* Proofs about RepoWatcher, for any files, nodes, trees, renames, commits *)
(* and faults: its type for any number of threads, and what the stream     *)
(* replays to when runs follow one another.                                *)
(***************************************************************************)
EXTENDS RepoWatcher, WellFoundedInduction, TLAPS

LEMMA Bounds == MaxCommits \in Nat \ {0} /\ MaxScans \in Nat /\ MaxFaults \in Nat
  BY WatcherBounds

(* A set of naturals has a smallest element, and a bounded one a largest.  *)
Less == {ss \in Nat \X Nat : ss[1] < ss[2]}

LEMMA Smallest ==
  ASSUME NEW S \in SUBSET Nat, S # {}
  PROVE  \E m \in S : \A k \in S : m <= k
<1>1. IsWellFoundedOn(Less, Nat)
  BY NatLessThanWellFounded, Zenon DEF OpToRel, Less
<1>2. PICK m \in S : \A k \in S : <<k, m>> \notin Less
  BY <1>1, WFMin
<1>3. ASSUME NEW k \in S, k < m PROVE <<k, m>> \in Less
  BY <1>3 DEF Less
<1>4. \A k \in S : ~ (k < m)
  BY <1>2, <1>3
<1>5. \A k \in S : k \in Nat /\ m \in Nat
  OBVIOUS
<1> QED
  BY <1>4, <1>5

LEMMA Largest ==
  ASSUME NEW N \in Nat, NEW S \in SUBSET (1 .. N), S # {}
  PROVE  \E m \in S : \A k \in S : k <= m
<1> DEFINE T == {N - k : k \in S}
<1>1. T \subseteq Nat
  OBVIOUS
<1>2. T # {}
  OBVIOUS
<1>3. PICK t \in T : \A k \in T : t <= k
  BY <1>1, <1>2, Smallest
<1>4. PICK m \in S : t = N - m
  BY <1>3
<1>5. ASSUME NEW k \in S PROVE k <= m
  <2>1. N - k \in T
    OBVIOUS
  <2>2. N - m <= N - k
    BY <1>3, <1>4, <2>1
  <2> QED
    BY <2>2
<1> QED
  BY <1>5

-----------------------------------------------------------------------------
(* Types.                                                                  *)

(* Every commit that a run or an event names is in the history, and a run  *)
(* that emits knows which one it indexes.                                  *)
Known(s) ==
  /\ scan[s].prev <= Tip /\ scan[s].cur <= Tip
  /\ scan[s].pc \in {"begin", "emit"} => scan[s].cur > 0

(* What a thread may be doing. *)
Scans == [pc : {"idle", "begin", "emit"}, kind : Requests \cup {"none"},
          prev : 0 .. MaxCommits, cur : 0 .. MaxCommits,
          todo : SUBSET Files, named : SUBSET Nodes]

TypeInv ==
  /\ WatcherTypeOK
  /\ \A s \in Scanners : Known(s)
  /\ \A i \in DOMAIN fileChanged : fileChanged[i].sha <= Tip

(* What there is to visit are files. *)
LEMMA VisitsFiles == \A p, c : FilesToVisit(p, c) \subseteq Files
  BY DEF FilesToVisit, ChangedFiles

(* The event for a file names nodes of that file, and those of them that   *)
(* the two trees tell apart.                                               *)
LEMMA EventNames ==
  ASSUME NEW f \in Files, NEW p, NEW c \in 1 .. MaxCommits
  PROVE  EventFor(f, p, c) \in Events /\ EventFor(f, p, c).sha = c
  BY DEF EventFor, Events, ChangedNodes, DiffType, NodesIn, NodesOf

LEMMA InitType == WatcherInit => TypeInv
<1> SUFFICES ASSUME WatcherInit PROVE TypeInv
  OBVIOUS
<1>1. commits \in Seq(Trees) /\ Tip = 1
  BY DEF WatcherInit, Tip
<1>2. scan \in [Scanners -> Scans]
  BY Bounds DEF WatcherInit, Idle, Scans
<1>3. \A s \in Scanners : Known(s)
  BY <1>1 DEF WatcherInit, Idle, Known
<1> QED
  BY <1>1, <1>2, <1>3, Bounds DEF WatcherInit, TypeInv, WatcherTypeOK, Scans

LEMMA CommitType == TypeInv /\ Commit => TypeInv'
<1> SUFFICES ASSUME TypeInv, Commit PROVE TypeInv'
  OBVIOUS
<1> USE Bounds DEF TypeInv, WatcherTypeOK, Commit
<1>1. Tip' = Tip + 1 /\ Tip \in Nat /\ Tip' <= MaxCommits
  BY DEF Tip
<1>2. WatcherTypeOK'
  BY <1>1
<1>3. \A s \in Scanners : Known(s)'
  BY <1>1 DEF Known
<1>4. \A i \in DOMAIN fileChanged' : fileChanged'[i].sha <= Tip'
  <2>1. fileChanged' = fileChanged /\ \A i \in DOMAIN fileChanged : fileChanged[i] \in Events
    OBVIOUS
  <2>2. \A i \in DOMAIN fileChanged : fileChanged[i].sha \in Nat
    BY <2>1 DEF Events
  <2> QED
    BY <1>1, <2>1, <2>2
<1> QED
  BY <1>2, <1>3, <1>4

LEMMA BeginType ==
  ASSUME TypeInv, NEW s \in Scanners, Hook(s) \/ Poll(s) \/ Index(s) \/ Rescan(s)
  PROVE  TypeInv'
<1> USE Bounds DEF TypeInv, WatcherTypeOK
<1>1. Tip \in 1 .. MaxCommits /\ lastSha \in 0 .. Tip
  OBVIOUS
<1>2. PICK k \in Requests, p \in 0 .. Tip, c \in 1 .. Tip : Begins(s, k, p, c)
  <2>1. Hook(s) => Begins(s, "hook", 0, Tip) /\ "hook" \in Requests
    BY DEF Hook, Begins
  <2>2. Poll(s) => Begins(s, "poll", 0, Tip) /\ "poll" \in Requests
    BY DEF Poll, Begins
  <2>3. Index(s) => Begins(s, "index", lastSha, Tip) /\ "index" \in Requests
    BY DEF Index, Begins
  <2>4. Rescan(s) => Begins(s, "rescan", 0, Tip) /\ "rescan" \in Requests
    BY DEF Rescan, Begins
  <2> HIDE DEF TypeInv, WatcherTypeOK
  <2>5. 0 \in 0 .. Tip /\ Tip \in 1 .. Tip /\ lastSha \in 0 .. Tip
    BY <1>1
  <2> QED
    BY <1>1, <2>1, <2>2, <2>3, <2>4, <2>5
<1> DEFINE r == [Idle EXCEPT !.pc = "begin", !.kind = k, !.prev = p, !.cur = c]
<1>3. scan' = [scan EXCEPT ![s] = r]
  BY <1>2 DEF Begins
<1>r. r \in Scans /\ r.kind = k /\ r.prev = p /\ r.cur = c /\ r.pc = "begin"
  <2>1. Idle \in Scans
    BY DEF Idle, Scans
  <2>2. p \in 0 .. MaxCommits /\ c \in 0 .. MaxCommits
    BY <1>1
  <2> QED
    BY <2>1, <2>2 DEF Scans
<1> HIDE DEF r
<1>t. scan' \in [Scanners -> Scans]
  BY <1>3, <1>r DEF Scans
<1>4. scans' \in 0 .. MaxScans
  BY <1>2 DEF Begins
<1>5. UNCHANGED <<commits, lastSha, fileChanged, faults, torn, ghost>> /\ Tip' = Tip
  BY <1>2 DEF Begins, Tip
<1>6. \A q \in Scanners : Known(q)'
  BY <1>1, <1>2, <1>3, <1>5, <1>r DEF Known
<1> QED
  BY <1>1, <1>t, <1>4, <1>5, <1>6 DEF Scans

(* What a run knows when it has its list. *)
Listed(s, cur) ==
  LET prev == IF scan[s].kind \in {"hook", "poll"} THEN lastSha ELSE scan[s].prev
  IN  IF scan[s].kind = "poll" /\ prev = cur THEN Idle
      ELSE [scan[s] EXCEPT !.pc = "emit", !.prev = prev, !.cur = cur,
                           !.todo = FilesToVisit(prev, cur)]

LEMMA Lists ==
  ASSUME NEW s \in Scanners, ListFiles(s)
  PROVE  \E cur \in ReadAsHead(s) : scan' = [scan EXCEPT ![s] = Listed(s, cur)]
  BY DEF ListFiles, Listed

LEMMA ListType == ASSUME TypeInv, NEW s \in Scanners, ListFiles(s) PROVE TypeInv'
<1> USE Bounds DEF TypeInv, WatcherTypeOK
<1>1. Tip \in Nat /\ Tip > 0 /\ lastSha <= Tip /\ Tip' = Tip
  BY DEF ListFiles, Tip
<1> DEFINE k == scan[s].kind
           prev == IF k \in {"hook", "poll"} THEN lastSha ELSE scan[s].prev
<1>c. scan[s].cur \in 1 .. Tip
  BY Bounds DEF ListFiles, Known, Scans, Tip
<1>d. PICK cur \in ReadAsHead(s) :
        scan' = [scan EXCEPT ![s] =
                   IF k = "poll" /\ prev = cur THEN Idle
                   ELSE [scan[s] EXCEPT !.pc = "emit", !.prev = prev, !.cur = cur,
                                        !.todo = FilesToVisit(prev, cur)]]
  BY DEF ListFiles
<1> DEFINE r == IF k = "poll" /\ prev = cur THEN Idle
                ELSE [scan[s] EXCEPT !.pc = "emit", !.prev = prev, !.cur = cur,
                                     !.todo = FilesToVisit(prev, cur)]
<1>2. scan' = [scan EXCEPT ![s] = r]
  BY <1>d
<1>3. scan \in [Scanners -> Scans]
  BY DEF Scans
<1>4. prev \in 0 .. Tip /\ cur \in 1 .. Tip
  <2>1. prev \in 0 .. Tip
    BY <1>1, <1>3 DEF ListFiles, Known, Scans
  <2>2. cur \in 1 .. Tip
    <3>1. cur \in scan[s].cur .. scan[s].cur \/ cur \in scan[s].cur .. Tip
      BY <1>d DEF ReadAsHead
    <3> QED
      BY <1>1, <1>c, <3>1
  <2> QED
    BY <2>1, <2>2
<1>5. r \in Scans /\ r.prev <= Tip /\ r.cur <= Tip /\ (r.pc = "emit" => r.cur > 0)
      /\ (r.pc = "begin" => r.cur > 0)
  <2> HIDE DEF prev
  <2>1. r = Idle \/ r = [scan[s] EXCEPT !.pc = "emit", !.prev = prev, !.cur = cur,
                                        !.todo = FilesToVisit(prev, cur)]
    OBVIOUS
  <2>2. prev \in 0 .. MaxCommits /\ cur \in 0 .. MaxCommits
    BY <1>1, <1>4
  <2> QED
    <3>1. CASE r = Idle
      <4> HIDE DEF r, prev
      <4> QED
        BY <1>1, <3>1, Bounds DEF Idle, Scans
    <3>2. CASE r = [scan[s] EXCEPT !.pc = "emit", !.prev = prev, !.cur = cur,
                                   !.todo = FilesToVisit(prev, cur)]
      <4>1. scan[s] \in Scans /\ FilesToVisit(prev, cur) \in SUBSET Files
        BY <1>3, VisitsFiles
      <4> HIDE DEF r
      <4>2. r \in Scans
        BY <2>2, <3>2, <4>1 DEF Scans
      <4>3. r.prev = prev /\ r.cur = cur
        BY <3>2, <4>1 DEF Scans
      <4> QED
        BY <1>1, <1>4, <4>2, <4>3
    <3> QED
      BY <2>1, <3>1, <3>2
<1> HIDE DEF r
<1>6. scan' \in [Scanners -> Scans]
  BY <1>2, <1>3, <1>5
<1>7. \A q \in Scanners : Known(q)'
  BY <1>1, <1>2, <1>3, <1>5 DEF Known
<1> QED
  BY <1>1, <1>6, <1>7 DEF ListFiles, Scans

(* There is a next file while any is left. *)
LEMMA NextIsLeft ==
  ASSUME TypeInv, NEW s \in Scanners, scan[s].todo # {}
  PROVE  NextFile(s) \in scan[s].todo /\ NextFile(s) \in Files
<1>1. scan[s].todo \subseteq Files /\ Files \subseteq Nat
  BY FilesAssumption DEF TypeInv, WatcherTypeOK
<1>2. \E f \in scan[s].todo : \A g \in scan[s].todo : f <= g
  BY <1>1, Smallest
<1> QED
  BY <1>1, <1>2 DEF NextFile

LEMMA EmitType == ASSUME TypeInv, NEW s \in Scanners, Emit(s) PROVE TypeInv'
<1> USE Bounds DEF TypeInv, WatcherTypeOK
<1> DEFINE f == NextFile(s)
           e == EventFor(f, scan[s].prev, scan[s].cur)
<1>1. scan[s].cur \in 1 .. MaxCommits /\ scan[s].cur <= Tip /\ Tip' = Tip
  BY DEF Emit, Known, Tip
<1>2. e \in Events /\ e.sha = scan[s].cur
  <2>1. f \in Files
    BY NextIsLeft DEF Emit
  <2> QED
    BY <1>1, <2>1, EventNames
<1> HIDE DEF f, e
<1>3. fileChanged' = Append(fileChanged, e)
  BY DEF Emit, f, e
<1>4. e.changed \cup e.added \cup e.deleted \subseteq Nodes
  BY <1>2 DEF Events
<1>5. scan' = [scan EXCEPT ![s].todo = @ \ {f},
                           ![s].named = @ \cup e.changed \cup e.added \cup e.deleted]
  BY DEF Emit, f, e
<1>6. UNCHANGED <<commits, lastSha, scans, faults, torn, ghost>>
  BY DEF Emit
<1>s. scan \in [Scanners -> Scans]
  BY DEF Scans
<1>7. scan' \in [Scanners -> Scans]
  <2>1. [scan[s] EXCEPT !.todo = @ \ {f}, !.named = @ \cup e.changed \cup e.added \cup e.deleted]
          \in Scans
    BY <1>4, <1>s DEF Scans
  <2>2. scan' = [scan EXCEPT ![s] = [scan[s] EXCEPT !.todo = @ \ {f},
                    !.named = @ \cup e.changed \cup e.added \cup e.deleted]]
    BY <1>5, <1>s DEF Scans
  <2> QED
    BY <1>s, <2>1, <2>2
<1>8. fileChanged' \in Seq(Events) /\ \A i \in DOMAIN fileChanged' : fileChanged'[i].sha <= Tip'
  BY <1>1, <1>2, <1>3
<1>9. \A q \in Scanners : Known(q)'
  BY <1>1, <1>5 DEF Known
<1> QED
  BY <1>1, <1>6, <1>7, <1>8, <1>9 DEF Scans

LEMMA EndType == ASSUME TypeInv, NEW s \in Scanners, Save(s) \/ Abandon(s) PROVE TypeInv'
<1> USE Bounds DEF TypeInv, WatcherTypeOK
<1>1. /\ scan' = [scan EXCEPT ![s] = Idle]
      /\ UNCHANGED <<commits, fileChanged, scans>>
      /\ Tip' = Tip
  BY DEF Save, Abandon, Tip
<1>2. \A q \in Scanners : Known(q)'
  BY <1>1 DEF Known, Idle
<1>3. torn' \subseteq Nodes /\ ghost' \subseteq Nodes
  BY DEF Save, Abandon, Unlisted, Vanished
<1>4. lastSha' \in 0 .. Tip /\ faults' \in 0 .. MaxFaults
  BY DEF Save, Abandon, Known
<1> QED
  BY <1>1, <1>2, <1>3, <1>4 DEF Idle

LEMMA TypeHolds == WatcherSpec => []TypeInv
<1>1. TypeInv /\ WatcherNext => TypeInv'
  BY CommitType, BeginType, ListType, EmitType, EndType DEF WatcherNext, WatcherStep, Work
<1>2. TypeInv /\ UNCHANGED watcherVars => TypeInv'
  BY DEF TypeInv, WatcherTypeOK, Known, Tip, watcherVars
<1> QED
  BY InitType, <1>1, <1>2, PTL DEF WatcherSpec

(* In every run of any number of threads the events name files, nodes and  *)
(* commits of the repository, and last_indexed_sha a commit it has.        *)
THEOREM WatcherTypeCorrect == WatcherSpec => []WatcherTypeOK
<1>1. TypeInv => WatcherTypeOK
  BY DEF TypeInv
<1> QED
  BY TypeHolds, <1>1, PTL

-----------------------------------------------------------------------------
(* What the stream replays to.                                             *)

About(n) == {i \in DOMAIN fileChanged : Names(fileChanged[i], n)}
Says(e, n) == IF n \in e.deleted THEN Absent ELSE TreeAt(e.sha)[n]

(* What the commit recorded as indexed says of a node, and when the stream *)
(* has to say the same.                                                    *)
Indexed(n) == IF lastSha = 0 THEN Absent ELSE TreeAt(lastSha)[n]
Right(n) == (Indexed(n) = Absent => n \notin ghost) => Replay(n) = Indexed(n)

(* A run that compares compares with the recorded commit, and every node   *)
(* it has not named and will not visit is the same in both commits, or is  *)
(* in the old file of a rename.                                            *)
Compares(s) ==
  /\ scan[s].prev \in {0, lastSha}
  /\ scan[s].pc # "emit" => scan[s].named = {}
  /\ scan[s].pc = "emit" /\ scan[s].prev # 0 =>
       LET t == TreeAt(scan[s].prev)
           u == TreeAt(scan[s].cur)
       IN  \A n \in Nodes \ scan[s].named :
             FileOf[n] \in scan[s].todo \/ t[n] = u[n] \/ RenamedFrom(t, u, FileOf[n])

(* A node the run has named replays to the new commit, any other still to  *)
(* the recorded one.                                                       *)
Replays(n) ==
  /\ n \notin torn /\ (\A s \in Scanners : n \notin scan[s].named) => Right(n)
  /\ \A s \in Scanners : n \in scan[s].named => Replay(n) = TreeAt(scan[s].cur)[n]

ReplayInv == (\A s \in Scanners : Compares(s)) /\ (\A n \in Nodes : Replays(n))

(* The last of a bounded set of positions is the one chosen. *)
LEMMA LastIs ==
  ASSUME NEW A \in SUBSET Nat, NEW i \in A, \A k \in A : k <= i
  PROVE  (CHOOSE m \in A : \A k \in A : k <= m) = i
<1> DEFINE c == CHOOSE m \in A : \A k \in A : k <= m
<1>1. c \in A /\ \A k \in A : k <= c
  OBVIOUS
<1>2. c <= i /\ i <= c /\ c \in Nat /\ i \in Nat
  BY <1>1
<1> QED
  BY <1>2

LEMMA ReplayLast ==
  ASSUME TypeInv, NEW n
  PROVE  /\ About(n) = {} => Replay(n) = Absent
         /\ About(n) # {} => \E i \in About(n) :
              /\ \A k \in About(n) : k <= i
              /\ Replay(n) = Says(fileChanged[i], n)
<1>1. About(n) \in SUBSET (1 .. Len(fileChanged)) /\ Len(fileChanged) \in Nat
  BY DEF TypeInv, WatcherTypeOK, About
<1>2. About(n) = {} => Replay(n) = Absent
  BY DEF Replay, About
<1>3. ASSUME About(n) # {}
      PROVE  \E i \in About(n) : (\A k \in About(n) : k <= i) /\ Replay(n) = Says(fileChanged[i], n)
  <2>1. PICK i \in About(n) : \A k \in About(n) : k <= i
    BY <1>1, <1>3, Largest
  <2>2. (CHOOSE m \in About(n) : \A k \in About(n) : k <= m) = i
    BY <1>1, <2>1, LastIs
  <2> QED
    BY <1>3, <2>1, <2>2 DEF Replay, About, Says
<1> QED
  BY <1>2, <1>3

(* Nothing changes for a node while no event is emitted.                   *)
LEMMA ReplayKeeps ==
  ASSUME TypeInv, fileChanged' = fileChanged, NEW n,
         \A sha \in 1 .. Tip : TreeAt(sha)' = TreeAt(sha)
  PROVE  Replay(n)' = Replay(n)
<1> DEFINE i == CHOOSE m \in About(n) : \A k \in About(n) : k <= m
<1>1. CASE About(n) = {}
  BY <1>1 DEF Replay, About
<1>2. CASE About(n) # {}
  <2>1. i \in About(n)
    BY <1>2, ReplayLast
  <2>2. Replay(n) = Says(fileChanged[i], n)
    BY <1>2 DEF Replay, About, Says
  <2>3. Replay(n)' = IF n \in fileChanged[i].deleted THEN Absent ELSE commits'[fileChanged[i].sha][n]
    BY <1>2 DEF Replay, About, TreeAt
  <2> HIDE DEF i
  <2>4. fileChanged[i] \in Events /\ i \in DOMAIN fileChanged
    BY <2>1 DEF About, TypeInv, WatcherTypeOK
  <2>5. fileChanged[i].sha \in 1 .. Tip
    BY <2>4 DEF TypeInv, WatcherTypeOK, Events
  <2> QED
    BY <2>2, <2>3, <2>5 DEF Says, TreeAt
<1> QED
  BY <1>1, <1>2

(* An event decides for the nodes it names and changes no other.           *)
LEMMA ReplayAppend ==
  ASSUME TypeInv, commits' = commits, NEW e \in Events,
         fileChanged' = Append(fileChanged, e), NEW n
  PROVE  Replay(n)' = IF Names(e, n) THEN Says(e, n) ELSE Replay(n)
<1>0. fileChanged \in Seq(Events)
  BY DEF TypeInv, WatcherTypeOK
<1> DEFINE last == Len(fileChanged) + 1
<1>1. DOMAIN fileChanged' = 1 .. last /\ fileChanged'[last] = e
      /\ DOMAIN fileChanged = 1 .. last - 1 /\ last \in Nat
      /\ \A i \in 1 .. last - 1 : fileChanged'[i] = fileChanged[i]
  BY <1>0
<1> HIDE DEF last
<1>2. CASE Names(e, n)
  <2>1. last \in About(n)' /\ About(n)' \in SUBSET Nat /\ \A k \in About(n)' : k <= last
    BY <1>1, <1>2 DEF About
  <2>2. (CHOOSE m \in About(n)' : \A k \in About(n)' : k <= m) = last
    BY <2>1, LastIs
  <2>3. About(n)' # {}
    BY <2>1
  <2> QED
    BY <1>1, <1>2, <2>2, <2>3 DEF Replay, About, Says, TreeAt
<1>3. CASE ~ Names(e, n)
  <2>1. About(n)' = About(n)
    BY <1>1, <1>3 DEF About
  <2>2. CASE About(n) = {}
    BY <1>3, <2>1, <2>2 DEF Replay, About
  <2>3. CASE About(n) # {}
    <3> DEFINE i == CHOOSE m \in About(n) : \A k \in About(n) : k <= m
    <3>1. i \in About(n)
      BY <2>3, ReplayLast
    <3>2. fileChanged'[i] = fileChanged[i]
      BY <1>1, <3>1 DEF About
    <3>3. (CHOOSE m \in About(n)' : \A k \in About(n)' : k <= m) = i
      BY <2>1
    <3>4. Replay(n) = Says(fileChanged[i], n)
      BY <2>3 DEF Replay, About, Says
    <3>5. Replay(n)' = LET d == fileChanged'[CHOOSE m \in About(n)' : \A k \in About(n)' : k <= m]
                      IN  IF About(n)' = {} \/ n \in d.deleted THEN Absent ELSE TreeAt(d.sha)[n]
      BY DEF Replay, About, TreeAt
    <3> QED
      BY <1>3, <2>1, <2>3, <3>2, <3>3, <3>4, <3>5 DEF Says
  <2> QED
    BY <2>2, <2>3
<1> QED
  BY <1>2, <1>3

(* The event for a file says of the nodes it names what the new commit     *)
(* has, and a comparison leaves out only nodes of the file that are equal. *)
LEMMA EventSays ==
  ASSUME NEW f \in Files, NEW p, NEW c, NEW n \in Nodes
  PROVE  LET e == EventFor(f, p, c) IN
         /\ Names(e, n) => FileOf[n] = f /\ Says(e, n) = TreeAt(c)[n]
         /\ ~Names(e, n) /\ p # 0 /\ FileOf[n] = f => TreeAt(p)[n] = TreeAt(c)[n]
<1> USE DEF EventFor, Names, Says, NodesIn, NodesOf, ChangedNodes
<1>1. CASE p = 0
  BY <1>1
<1>2. CASE p # 0
  BY <1>2
<1> QED
  BY <1>1, <1>2

-----------------------------------------------------------------------------
(* The steps of the only thread.                                           *)

OneAtATime == \A s, t \in Scanners : s = t

LEMMA CommitReplay == TypeInv /\ ReplayInv /\ Commit => ReplayInv'
<1> SUFFICES ASSUME TypeInv, ReplayInv, Commit PROVE ReplayInv'
  OBVIOUS
<1>1. /\ lastSha \in 0 .. Tip /\ Tip \in Nat
      /\ \A s \in Scanners : scan[s].prev \in 0 .. Tip /\ scan[s].cur \in 0 .. Tip
  BY Bounds DEF TypeInv, WatcherTypeOK, Known
<1>2. \A sha \in 1 .. Tip : TreeAt(sha)' = TreeAt(sha)
  BY DEF Commit, TreeAt, Tip, TypeInv, WatcherTypeOK
<1>3. UNCHANGED <<lastSha, scan, fileChanged, torn, ghost>>
  BY DEF Commit
<1>4. \A n : Replay(n)' = Replay(n)
  BY <1>2, <1>3, ReplayKeeps
<1>5. \A n : Indexed(n)' = Indexed(n)
  BY <1>1, <1>2, <1>3 DEF Indexed
<1>6. ASSUME NEW s \in Scanners PROVE Compares(s)'
  <2>1. scan[s].pc = "emit" => TreeAt(scan[s].cur)' = TreeAt(scan[s].cur)
    BY <1>1, <1>2, <1>3 DEF TypeInv, Known, TreeAt
  <2>2. scan[s].prev # 0 => TreeAt(scan[s].prev)' = TreeAt(scan[s].prev)
    BY <1>1, <1>2, <1>3 DEF TreeAt
  <2> QED
    BY <1>3, <2>1, <2>2 DEF ReplayInv, Compares
<1>7. ASSUME NEW n \in Nodes PROVE Replays(n)'
  <2>1. ASSUME NEW s \in Scanners, n \in scan[s].named
        PROVE  TreeAt(scan[s].cur)' = TreeAt(scan[s].cur)
    BY <1>1, <1>2, <1>3, <2>1 DEF ReplayInv, Compares, TypeInv, Known, TreeAt
  <2> QED
    BY <1>3, <1>4, <1>5, <2>1 DEF ReplayInv, Replays, Right
<1> QED
  BY <1>6, <1>7 DEF ReplayInv

(* A run begins, lists its files, or is found to have nothing to do.       *)
LEMMA BeginReplay ==
  ASSUME OneAtATime, TypeInv, ReplayInv, NEW s \in Scanners,
         Hook(s) \/ Poll(s) \/ Index(s) \/ Rescan(s) \/ ListFiles(s)
  PROVE  ReplayInv'
<1>1. /\ UNCHANGED <<commits, lastSha, fileChanged, torn, ghost>>
      /\ scan[s].pc \in {"idle", "begin"} /\ scan[s].named = {}
  BY DEF Hook, Poll, Index, Rescan, Begins, ListFiles, ReplayInv, Compares
<1>2. scan'[s].named = {} /\ scan'[s].prev \in {0, lastSha}
  <2>1. scan[s].prev \in {0, lastSha} /\ scan \in [Scanners -> Scans]
    BY DEF ReplayInv, Compares, TypeInv, WatcherTypeOK, Scans
  <2>2. CASE Hook(s) \/ Poll(s) \/ Index(s) \/ Rescan(s)
    <3>1. \/ Begins(s, "hook", 0, Tip) \/ Begins(s, "poll", 0, Tip)
          \/ Begins(s, "index", lastSha, Tip) \/ Begins(s, "rescan", 0, Tip)
      BY <2>2 DEF Hook, Poll, Index, Rescan
    <3>2. ASSUME NEW k, NEW q, NEW c, Begins(s, k, q, c)
          PROVE  scan'[s].named = {} /\ scan'[s].prev = q
      <4>1. scan'[s] = [Idle EXCEPT !.pc = "begin", !.kind = k, !.prev = q, !.cur = c]
        BY <2>1, <3>2 DEF Begins
      <4> QED
        BY <4>1 DEF Idle
    <3> QED
      BY <3>1, <3>2
  <2>3. CASE ListFiles(s)
    <3>1. PICK cur : scan' = [scan EXCEPT ![s] = Listed(s, cur)]
      BY <2>3, Lists
    <3> QED
      BY <1>1, <2>1, <3>1 DEF Listed, Idle, Scans
  <2> QED
    BY <2>2, <2>3
<1>3. scan'[s].pc = "emit" => scan'[s].todo = FilesToVisit(scan'[s].prev, scan'[s].cur)
  <2>1. CASE Hook(s) \/ Poll(s) \/ Index(s) \/ Rescan(s)
    BY <2>1 DEF Hook, Poll, Index, Rescan, Begins, Idle, TypeInv, WatcherTypeOK
  <2>2. CASE ListFiles(s)
    <3>1. PICK cur : scan' = [scan EXCEPT ![s] = Listed(s, cur)]
      BY <2>2, Lists
    <3>2. scan \in [Scanners -> Scans]
      BY DEF TypeInv, WatcherTypeOK, Scans
    <3> QED
      BY <3>1, <3>2 DEF Listed, Idle, Scans
  <2> QED
    BY <2>1, <2>2
<1>4. \A n : Replay(n)' = Replay(n) /\ Indexed(n)' = Indexed(n)
  BY <1>1 DEF Replay, Indexed, TreeAt
<1>5. Compares(s)'
  <2> DEFINE p == scan'[s].prev
             c == scan'[s].cur
  <2>1. ASSUME scan'[s].pc = "emit", p # 0, NEW n \in Nodes
        PROVE  \/ FileOf[n] \in scan'[s].todo \/ TreeAt(p)[n] = TreeAt(c)[n]
               \/ RenamedFrom(TreeAt(p), TreeAt(c), FileOf[n])
    BY <1>3, <2>1, NodesAssumption DEF FilesToVisit, ChangedFiles, NodesOf
  <2> QED
    BY <1>1, <1>2, <2>1 DEF Compares, TreeAt
<1>6. ASSUME NEW n \in Nodes PROVE Replays(n)'
  BY <1>1, <1>2, <1>4 DEF OneAtATime, ReplayInv, Replays, Right
<1> QED
  BY <1>5, <1>6 DEF OneAtATime, ReplayInv

LEMMA EmitReplay ==
  ASSUME OneAtATime, TypeInv, ReplayInv, NEW s \in Scanners, Emit(s)
  PROVE  ReplayInv'
<1> DEFINE f == NextFile(s)
           e == EventFor(f, scan[s].prev, scan[s].cur)
<1>0. scan \in [Scanners -> Scans]
  BY DEF TypeInv, WatcherTypeOK, Scans
<1>1. f \in Files /\ e \in Events
  <2>1. f \in Files
    BY NextIsLeft DEF Emit
  <2>2. scan[s].cur \in 1 .. MaxCommits
    BY Bounds, <1>0 DEF Emit, TypeInv, WatcherTypeOK, Known, Scans
  <2> QED
    BY <2>1, <2>2, EventNames
<1>2. \A n \in Nodes :
        /\ Names(e, n) => Says(e, n) = TreeAt(scan[s].cur)[n]
        /\ ~Names(e, n) /\ scan[s].prev # 0 /\ FileOf[n] = f =>
             TreeAt(scan[s].prev)[n] = TreeAt(scan[s].cur)[n]
  BY <1>1, EventSays
<1>3. /\ fileChanged' = Append(fileChanged, e)
      /\ UNCHANGED <<commits, lastSha, torn, ghost>>
      /\ scan[s].pc = "emit"
  BY DEF Emit
<1>4. scan'[s] = [scan[s] EXCEPT !.todo = @ \ {f},
                                !.named = @ \cup e.changed \cup e.added \cup e.deleted]
  BY <1>0 DEF Emit, Scans
<1> HIDE DEF e, f
<1>5. /\ scan'[s].prev = scan[s].prev /\ scan'[s].cur = scan[s].cur
      /\ scan'[s].pc = "emit"
      /\ scan'[s].todo = scan[s].todo \ {f}
      /\ \A n : n \in scan'[s].named <=> n \in scan[s].named \/ Names(e, n)
  BY <1>0, <1>3, <1>4 DEF Scans, Names
<1>6. \A n : Replay(n)' = IF Names(e, n) THEN Says(e, n) ELSE Replay(n)
  BY <1>1, <1>3, ReplayAppend
<1>7. Compares(s)'
  <2>1. \A sha : TreeAt(sha)' = TreeAt(sha)
    BY <1>3 DEF TreeAt
  <2> QED
    BY <1>2, <1>3, <1>5, <2>1 DEF ReplayInv, Compares, TreeAt
<1>8. ASSUME NEW n \in Nodes PROVE Replays(n)'
  <2>1. Indexed(n)' = Indexed(n)
    BY <1>3 DEF Indexed, TreeAt
  <2> QED
    BY <1>2, <1>3, <1>5, <1>6, <2>1 DEF OneAtATime, ReplayInv, Replays, Right, TreeAt
<1> QED
  BY <1>7, <1>8 DEF OneAtATime, ReplayInv

(* The new commit is recorded, and the nodes the run was silent about are  *)
(* as before, torn or ghosts.                                              *)
LEMMA SaveReplay ==
  ASSUME OneAtATime, TypeInv, ReplayInv, NEW s \in Scanners, Save(s)
  PROVE  ReplayInv'
<1>1. /\ lastSha' = scan[s].cur /\ lastSha' # 0 /\ scan'[s] = Idle
      /\ torn' = (torn \ scan[s].named) \cup Unlisted(s)
      /\ ghost' = (ghost \cup Vanished(s)) \ scan[s].named
      /\ UNCHANGED <<commits, fileChanged>>
      /\ scan[s].pc = "emit" /\ scan[s].todo = {}
  BY Bounds DEF Save, TypeInv, WatcherTypeOK, Known
<1>2. Compares(s)'
  BY <1>1 DEF Compares, Idle
<1>3. ASSUME NEW n \in Nodes PROVE Replays(n)'
  <2>1. Replay(n)' = Replay(n) /\ Indexed(n)' = TreeAt(scan[s].cur)[n]
    BY <1>1 DEF Replay, Indexed, TreeAt
  <2>2. n \notin scan'[s].named
    BY <1>1 DEF Idle
  <2>3. CASE n \in scan[s].named
    BY <2>1, <2>2, <2>3 DEF OneAtATime, ReplayInv, Replays, Right
  <2>4. ASSUME n \notin scan[s].named, n \notin torn', Indexed(n)' = Absent => n \notin ghost'
        PROVE  Replay(n)' = Indexed(n)'
    <3>1. n \notin torn /\ Right(n)
      BY <1>1, <2>4 DEF OneAtATime, ReplayInv, Replays
    <3>2. n \in ghost => n \in ghost'
      BY <1>1, <2>4
    <3>3. CASE scan[s].prev = 0
      <4>1. Indexed(n)' = Absent
        BY <1>1, <2>1, <2>4, <3>3 DEF Unlisted
      <4>2. n \notin ghost /\ Indexed(n) = Absent
        BY <1>1, <2>4, <3>2, <3>3, <4>1 DEF Vanished, Indexed
      <4> QED
        BY <2>1, <3>1, <4>1, <4>2 DEF Right
    <3>4. CASE scan[s].prev # 0
      <4>1. Indexed(n) = TreeAt(scan[s].prev)[n]
        BY <3>4 DEF ReplayInv, Compares, Indexed
      <4>2. CASE TreeAt(scan[s].prev)[n] = TreeAt(scan[s].cur)[n]
        BY <2>1, <2>4, <3>1, <3>2, <4>1, <4>2 DEF Right
      <4>3. CASE RenamedFrom(TreeAt(scan[s].prev), TreeAt(scan[s].cur), FileOf[n])
        <5>1. TreeAt(scan[s].cur)[n] = Absent
          BY <4>3 DEF RenamedFrom, Exists, NodesIn, NodesOf
        <5>2. n \in ghost'
          BY <1>1, <2>4, <3>4, <4>3 DEF Vanished
        <5> QED
          BY <2>1, <2>4, <5>1, <5>2
      <4> QED
        BY <1>1, <2>4, <3>4, <4>2, <4>3 DEF ReplayInv, Compares
    <3> QED
      BY <3>3, <3>4
  <2> QED
    BY <2>2, <2>3, <2>4 DEF OneAtATime, Replays, Right
<1> QED
  BY <1>2, <1>3 DEF OneAtATime, ReplayInv

LEMMA AbandonReplay ==
  ASSUME OneAtATime, TypeInv, ReplayInv, NEW s \in Scanners, Abandon(s)
  PROVE  ReplayInv'
<1>1. /\ torn' = torn \cup scan[s].named /\ scan'[s] = Idle
      /\ UNCHANGED <<commits, lastSha, fileChanged, ghost>>
  BY DEF Abandon, TypeInv, WatcherTypeOK
<1>2. \A n : Replay(n)' = Replay(n) /\ Indexed(n)' = Indexed(n)
  BY <1>1 DEF Replay, Indexed, TreeAt
<1>3. Compares(s)'
  BY <1>1 DEF Compares, Idle
<1>4. ASSUME NEW n \in Nodes PROVE Replays(n)'
  BY <1>1, <1>2 DEF OneAtATime, ReplayInv, Replays, Right, Idle
<1> QED
  BY <1>3, <1>4 DEF OneAtATime, ReplayInv

LEMMA ReplayHolds == OneAtATime => (WatcherSpec => []ReplayInv)
<1> SUFFICES ASSUME OneAtATime PROVE WatcherSpec => []ReplayInv
  OBVIOUS
<1>1. WatcherInit => ReplayInv
  BY DEF WatcherInit, ReplayInv, Compares, Replays, Right, Replay, Indexed, Idle
<1>2. TypeInv /\ ReplayInv /\ [WatcherNext]_watcherVars => ReplayInv'
  <2>1. TypeInv /\ ReplayInv /\ WatcherNext => ReplayInv'
    BY CommitReplay, BeginReplay, EmitReplay, SaveReplay, AbandonReplay
       DEF WatcherNext, WatcherStep, Work
  <2>2. ASSUME TypeInv, ReplayInv, UNCHANGED watcherVars PROVE ReplayInv'
    <3>1. \A n : Replay(n)' = Replay(n) /\ Indexed(n)' = Indexed(n)
      BY <2>2 DEF Replay, Indexed, TreeAt, watcherVars
    <3> QED
      BY <2>2, <3>1 DEF ReplayInv, Compares, Replays, Right, TreeAt, watcherVars
  <2> QED
    BY <2>1, <2>2
<1> QED
  BY <1>1, <1>2, TypeHolds, PTL DEF WatcherSpec

(* As long as one thread runs at a time, between two runs the events since *)
(* the beginning replay to the recorded commit, whatever commits, renames, *)
(* late hooks, rescans and failures there were (process_commit).           *)
THEOREM StreamReplaysToIndexed == OneAtATime => (WatcherSpec => []ReplayIsIndexedTree)
<1> SUFFICES ASSUME OneAtATime PROVE WatcherSpec => []ReplayIsIndexedTree
  OBVIOUS
<1>1. ReplayInv => ReplayIsIndexedTree
  BY DEF ReplayInv, Compares, Replays, Right, Indexed, ReplayIsIndexedTree, AllIdle
<1> QED
  BY ReplayHolds, <1>1, PTL
=============================================================================
