--------------------------- MODULE MCSpiffsFiles ---------------------------
(* SpiffsFiles for TLC. *)
EXTENDS SpiffsFiles, TLC

Symmetry == Permutations(ObjId) \cup Permutations(Name) \cup
            Permutations(CachePage) \cup Permutations(Byte)

\* The flag sets of the runs.
ReadWrite == {"RD", "WR"}
Plain     == {ReadWrite \cup {"CREAT"}}
Appending == {ReadWrite \cup {"CREAT"}, ReadWrite \cup {"APPEND", "CREAT"}}
Emptying  == {ReadWrite \cup {"CREAT", "TRUNC"}, {"RD"}}
Cached    == {ReadWrite \cup {"CREAT", "TRUNC"}}
Direct    == {ReadWrite \cup {"CREAT"}, ReadWrite \cup {"DIRECT"}}
AllFlags  == Appending \cup Emptying \cup Direct \cup {{"WR", "CREAT", "EXCL"}}
=============================================================================
