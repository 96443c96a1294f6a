------------------------- MODULE MCSpiffsDirectory -------------------------
(* Values for model checking SpiffsDirectory. *)
EXTENDS SpiffsDirectory

W(from, n) == [from |-> from, n |-> n]
W1 == {W(0, 3), W(3, 5)}
NoMaps == {}
=============================================================================
