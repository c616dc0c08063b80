---------------------------- MODULE MCRepoWatcher ----------------------------
(* Small repositories for the repo-watcher. *)
EXTENDS RepoWatcher, TLC

CONSTANTS a1, a2, b1, h1, h2, none

MCNodes  == {a1, a2, b1}
MCFileOf == a1 :> 1 @@ a2 :> 1 @@ b1 :> 2

(* The first file has two versions of one node, and at most one of the     *)
(* second node and the second file is there.                               *)
MCTrees == {t \in [MCNodes -> {h1, h2, none}] :
              t[a2] # h2 /\ t[b1] # h2 /\ none \in {t[a2], t[b1]}}

(* A file may be renamed to the other. *)
OldToNew == {<<1, 2>>, <<2, 1>>}
=============================================================================
