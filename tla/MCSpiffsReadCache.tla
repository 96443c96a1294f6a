------------------------- MODULE MCSpiffsReadCache -------------------------
(* Instances of SpiffsReadCache: objects and blocks are interchangeable.   *)
EXTENDS SpiffsReadCache, TLC

Symmetry == Permutations(ObjId) \cup Permutations(Block)
=============================================================================
