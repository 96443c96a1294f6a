----------------------------- MODULE FileStore -----------------------------
(***************************************************************************)
(* What the file interface of SPIFFS promises (the comments of spiffs.h),  *)
(* with no page, cache or descriptor in sight.                             *)
(*                                                                         *)
(* file[o] is what a program that reads and writes object o sees, and      *)
(* stable[o] what it would find after a loss of power.  Writes may reach   *)
(* stable late, but not later than a read, a seek, a flush or a close.     *)
(***************************************************************************)
EXTENDS Integers, Sequences

CONSTANTS
    ObjId, Name, Handle, NoFile, Closed,
    Position,\* where a program may move to
    Data     \* the byte strings a program may write at once

VARIABLES file, stable, handle

vars == <<file, stable, handle>>

\* Creating, renaming and removing are never late.
Live(o)   == stable[o] # NoFile
Unused(n) == \A o \in ObjId : Live(o) => stable[o].name # n
OpenOn(o) == {h \in Handle : handle[h] # Closed /\ handle[h].obj = o}

\* The sequence d with b written at offset p.
Splice(d, p, b) ==
    LET end == IF p + Len(b) > Len(d) THEN p + Len(b) ELSE Len(d)
    IN  [i \in 1 .. end |->
            IF p < i /\ i <= p + Len(b) THEN b[i - p] ELSE d[i]]

\* An appending descriptor writes at the end, and keeps no position.
Point(h) ==
    IF handle[h].append THEN Len(file[handle[h].obj].data) ELSE handle[h].pos

Written(h, b) == [file EXCEPT ![handle[h].obj].data = Splice(@, Point(h), b)]

Init ==
    /\ file = [o \in ObjId |-> NoFile]
    /\ stable = file
    /\ handle = [h \in Handle |-> Closed]

Empty(n) == [name |-> n, data |-> <<>>]

Fresh(o, n) ==
    /\ ~Live(o) /\ Unused(n)
    /\ stable' = [stable EXCEPT ![o] = Empty(n)]
    /\ file' = [file EXCEPT ![o] = Empty(n)]

Create(o, n) == UNCHANGED handle /\ Fresh(o, n)

Opened(h, o) ==
    /\ handle[h] = Closed
    /\ \E a \in BOOLEAN :
          handle' = [handle EXCEPT ![h] = [obj |-> o, pos |-> 0, append |-> a]]

OpenNew(h, o, n) == Opened(h, o) /\ Fresh(o, n)

Open(h, o) == Live(o) /\ Opened(h, o) /\ UNCHANGED <<stable, file>>

\* Descriptors on o start anew, and h is one of them.
Rewound(h, o, a) ==
    [g \in Handle |->
        IF g = h THEN [obj |-> o, pos |-> 0, append |-> a]
        ELSE IF g \in OpenOn(o) THEN [handle[g] EXCEPT !.pos = 0]
        ELSE handle[g]]

OpenEmptied(h, o) ==
    /\ Live(o) /\ handle[h] = Closed
    /\ \E a \in BOOLEAN : handle' = Rewound(h, o, a)
    /\ stable' = [stable EXCEPT ![o].data = <<>>]
    /\ file'   = [file EXCEPT ![o].data = <<>>]

Beyond(h, b) == IF handle[h].append THEN 0 ELSE handle[h].pos + Len(b)

\* What was written may go to the medium at once, or what was before it.
Reached(h, b) ==
    LET o == handle[h].obj IN {stable[o], file[o], Written(h, b)[o]}

Write(h, b) ==
    /\ handle[h] # Closed
    /\ handle' = [handle EXCEPT ![h].pos = Beyond(h, b)]
    /\ file' = Written(h, b)
    /\ \E s \in Reached(h, b) : stable' = [stable EXCEPT ![handle[h].obj] = s]

Synced(h) == [stable EXCEPT ![handle[h].obj] = file[handle[h].obj]]

\* Reading and seeking write back first.
Move(h, p) ==
    /\ handle[h] # Closed
    /\ handle' = [handle EXCEPT ![h].pos = p]
    /\ UNCHANGED file
    /\ p <= Len(file[handle[h].obj].data)
    /\ stable' = Synced(h)

Flush(h) ==
    /\ handle[h] # Closed
    /\ UNCHANGED <<handle, file>>
    /\ stable' = Synced(h)

Close(h) ==
    /\ handle[h] # Closed
    /\ handle' = [handle EXCEPT ![h] = Closed]
    /\ UNCHANGED file
    /\ stable' = Synced(h)

Without(o) == [h \in Handle |-> IF h \in OpenOn(o) THEN Closed ELSE handle[h]]

Remove(o) ==
    /\ Live(o)
    /\ handle' = Without(o)
    /\ stable' = [stable EXCEPT ![o] = NoFile]
    /\ file' = [file EXCEPT ![o] = NoFile]

Rename(o, n) ==
    /\ Live(o) /\ Unused(n)
    /\ UNCHANGED handle
    /\ stable' = [stable EXCEPT ![o].name = n]
    /\ file' = [file EXCEPT ![o].name = n]

AllClosed == handle' = [h \in Handle |-> Closed]

Unmount == AllClosed /\ UNCHANGED file /\ stable' = file

PowerLoss == AllClosed /\ UNCHANGED stable /\ file' = stable

Next ==
    \/ \E o \in ObjId, n \in Name :
          Create(o, n) \/ Rename(o, n) \/ \E h \in Handle : OpenNew(h, o, n)
    \/ \E o \in ObjId : Remove(o) \/ \E h \in Handle : Open(h, o) \/ OpenEmptied(h, o)
    \/ \E h \in Handle :
          \/ \E b \in Data : Write(h, b)
          \/ Flush(h) \/ Close(h)
          \/ \E p \in Position : Move(h, p)
    \/ Unmount \/ PowerLoss

Spec == Init /\ [][Next]_vars
=============================================================================
