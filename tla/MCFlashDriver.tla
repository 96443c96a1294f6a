--------------------------- MODULE MCFlashDriver ---------------------------
(* Values for model checking FlashDriver. *)
EXTENDS FlashDriver

Bytes     == SUBSET {1, 2}
AnyRequest == [addr : FS_START - 1 .. FS_END, size : 0 .. MaxSize]
OneSource == {[i \in 0 .. MaxSize - 1 |-> IF i % 2 = 0 THEN {1} ELSE {2}]}
Striped   == {[a \in Addr |-> IF a % 3 = 0 THEN {} ELSE {a % 3}]}
=============================================================================
