---------------------------- MODULE MCExpansion ----------------------------
(* A function a that calls c, and b that calls c too; c calls d, which     *)
(* calls c back; the file i imports a.                                     *)
EXTENDS SubgraphExpansion

CONSTANTS a, b, c, d, i

MCCalls == {<<a, b>>, <<a, c>>, <<b, c>>, <<c, d>>, <<d, c>>}
MCImports == {<<i, a>>}
MCSeedSets == {{a}, {i}, {b, d}}
=============================================================================
