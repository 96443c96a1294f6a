-------------------------- MODULE MCSpiffsObjects --------------------------
(* Values for model checking SpiffsObjects. *)
EXTENDS SpiffsObjects

W(from, n) == [from |-> from, n |-> n]
W1 == {W(0, 3), W(1, 3), W(3, 5)}
NoMaps == {}
Map1 == {W(0, 8)}
Interchangeable == Permutations(Fd) \cup Permutations(Obj)

Map2 == {W(0, 5), W(2, 5)}
\* Writes that fill the chip.
WRoom == {W(0, 14), W(0, 6)}
=============================================================================
