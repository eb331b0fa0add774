----------------------------- MODULE MCHttpSource -----------------------------
(***************************************************************************)
(* Small instances of HttpSource for TLC.                                  *)
(***************************************************************************)
EXTENDS HttpSource, TLC

Reads      == {"load", "schema", "children", "child_schemas"}
AllOps     == Operations
None       == {}
SecondOnly == {2}

(* Threads differ only in name.                                            *)
Symmetry == Permutations(Clients) \cup Permutations(Refreshers)
===============================================================================
