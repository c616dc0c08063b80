--------------------------- MODULE MCIndexPipeline ---------------------------
(* A repository of one file with two functions. *)
EXTENDS IndexPipeline, TLC

CONSTANTS n1, n2, h1, h2, none

(* n1 calls n2, and its second version does not. *)
OneNodes   == {n1, n2}
OneFileOf  == n1 :> 1 @@ n2 :> 1
OneCallees == n1 :> (h1 :> {n2} @@ h2 :> {}) @@ n2 :> (h1 :> {} @@ h2 :> {})

(* Some version of n1, and n2 there or not. *)
OneTrees   == {t \in [OneNodes -> {h1, h2, none}] : t[n1] # none /\ t[n2] # h2}

(* The same, and the file may be gone. *)
GoneTrees  == OneTrees \cup {[n \in OneNodes |-> none]}

(* Every kind of change between two trees, with one tree less. *)
FewTrees   == GoneTrees \ {n1 :> h2 @@ n2 :> none}

(* One function, for commits that overlap: its two versions come, go and   *)
(* come back.                                                              *)
LoneNodes   == {n1}
LoneFileOf  == n1 :> 1
LoneCallees == n1 :> (h1 :> {} @@ h2 :> {})
LoneTrees   == [LoneNodes -> {h1, h2, none}]

=============================================================================
