------------------------- MODULE MCSpiffsPageLayer -------------------------
(* SpiffsPageLayer for TLC: objects and contents are interchangeable. *)
EXTENDS SpiffsPageLayer, TLC

Symmetry == Permutations(ObjId) \cup Permutations(Contents)

\* A chip that is filled by writing all objects and then rewriting them, with
\* a garbage collection now and then; nothing fails.
WriterNext ==
    \/ \E l \in ObjId, c \in Contents :
          \/ Allocate(l, c, "none", MaxWrites)
          \/ (\A o \in ObjId : ref[o] # NoPage)
                /\ Rewrite(l, c, "none", MaxWrites)
    \/ GcCheck(1) \/ GcLoop \/ GcErase("none", MaxWrites)
    \/ \E p \in Page : GcEvacuate(p, "none", MaxWrites)
WriterSpec == Init /\ [][WriterNext]_vars
=============================================================================
