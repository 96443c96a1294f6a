---------------------------- MODULE MCFlashFiles ----------------------------
EXTENDS FlashFiles, TLC

Bytes == {<<1>>, <<2>>}
Start == {0}

\* Nothing in the wrapper tells two objects or two Ffiles from each other.
Interchangeable == Permutations(ObjId) \cup Permutations(Ffile)
=============================================================================
