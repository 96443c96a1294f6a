--------------------------- MODULE FlashFilesProofs ---------------------------
(***************************************************************************)
(* The wrapper's promises about its files, for any number of objects,      *)
(* names, descriptors and Ffiles, as long as SPIFFS_close does not fail.   *)
(* The inductive invariant has a part for the store under the wrapper      *)
(* (StoreOK) and a part that ties the Ffiles to it (FilesOK).              *)
(***************************************************************************)
EXTENDS FlashFiles, TLAPS

File == [name : Name, data : Seq(Byte)]
Desc == [obj : ObjId, pos : Nat, append : BOOLEAN]

\* d begins with c.
Extends(d, c) == Len(c) <= Len(d) /\ \A i \in 1 .. Len(c) : d[i] = c[i]

----------------------------------------------------------------------------
(* The store.                                                              *)

StoreTypes ==
    /\ file \in [ObjId -> File \cup {NoFile}]
    /\ stable \in [ObjId -> File \cup {NoFile}]
    /\ handle \in [Handle -> Desc \cup {Closed}]

OneName ==
    \A o, p \in ObjId :
        S!Live(o) /\ S!Live(p) /\ stable[o].name = stable[p].name => o = p

\* What the program sees of a file begins with what the chip has of it.
Ahead ==
    \A o \in ObjId :
        /\ file[o] = NoFile <=> stable[o] = NoFile
        /\ S!Live(o) => /\ file[o].name = stable[o].name
                        /\ Extends(file[o].data, stable[o].data)

InStore ==
    \A h \in Handle :
        handle[h] # Closed => handle[h].append /\ S!Live(handle[h].obj)

StoreOK == StoreTypes /\ OneName /\ Ahead /\ InStore

\* What a step may do to the files on the chip.
Grows ==
    \A o \in ObjId :
        \/ stable'[o] = NoFile
        \/ stable'[o].data = <<>>
        \/ /\ S!Live(o) /\ stable'[o].name = stable[o].name
           /\ Extends(stable'[o].data, stable[o].data)

LEMMA Values ==
    /\ NoFd \notin Handle /\ Absent \notin FfileType
    /\ Closed \notin Desc /\ NoFile \notin File
    /\ Nothing \notin [f : Ffile, name : Name, trunc : BOOLEAN]
    /\ Position \subseteq Nat /\ Data \subseteq Seq(Byte)
BY ValuesAssumption, DataAssumption DEF Desc, File

LEMMA Extending ==
    ASSUME NEW b, NEW c, NEW d, b \in Seq(Byte), c \in Seq(Byte), d \in Seq(Byte)
    PROVE  /\ Extends(d, d)
           /\ Extends(d, c) /\ Extends(c, b) => Extends(d, b)
BY DEF Extends

\* What an append leaves.
LEMMA Appended ==
    ASSUME NEW d \in Seq(Byte), NEW b \in Seq(Byte)
    PROVE  S!Splice(d, Len(d), b) \in Seq(Byte) /\ Extends(S!Splice(d, Len(d), b), d)
<1> DEFINE end == Len(d) + Len(b)
           s == S!Splice(d, Len(d), b)
<1>1. Len(d) \in Nat /\ Len(b) \in Nat /\ end \in Nat
  OBVIOUS
<1>2. s = [i \in 1 .. end |->
              IF Len(d) < i /\ i <= Len(d) + Len(b) THEN b[i - Len(d)] ELSE d[i]]
  BY <1>1 DEF S!Splice
<1>3. \A i \in 1 .. end : s[i] \in Byte
  BY <1>1, <1>2
<1>4. s \in Seq(Byte) /\ Len(s) = end
  BY <1>1, <1>2, <1>3
<1> QED
  BY <1>1, <1>2, <1>4 DEF Extends

LEMMA WipedKeeps ==
    ASSUME StoreOK, Wiped PROVE StoreOK' /\ Grows
BY DEF StoreOK, StoreTypes, OneName, Ahead, InStore, Grows, Wiped, S!AllClosed, S!Live

LEMMA RestartKeeps ==
    ASSUME StoreOK, S!AllClosed, file' = stable', stable' = stable \/ stable' = file
    PROVE  StoreOK' /\ Grows
<1>1. StoreTypes' /\ InStore'
  BY DEF StoreOK, StoreTypes, InStore, S!AllClosed
<1>2. \A o \in ObjId : stable[o] \in File => stable[o].data \in Seq(Byte)
  BY DEF File
<1>3. \A o \in ObjId : stable'[o] \in File => stable'[o].data \in Seq(Byte)
  BY DEF File
<1>4. OneName'
  BY DEF StoreOK, OneName, Ahead, S!Live
<1>5. Ahead'
  BY <1>1, <1>3, Extending DEF Ahead, StoreTypes, S!Live
<1>6. Grows
  BY <1>2, Extending DEF StoreOK, StoreTypes, Ahead, S!Live, Grows
<1> QED
  BY <1>1, <1>4, <1>5, <1>6 DEF StoreOK

LEMMA OpenNewKeeps ==
    ASSUME StoreOK, NEW h \in Handle, NEW o \in ObjId, NEW n \in Name,
           S!OpenNew(h, o, n), handle'[h].append
    PROVE  StoreOK' /\ Grows
<1>1. S!Empty(n) \in File /\ S!Empty(n) # NoFile /\ S!Empty(n).data = <<>>
      /\ S!Empty(n).name = n
  <2>1. S!Empty(n) = [name |-> n, data |-> <<>>] /\ <<>> \in Seq(Byte)
    BY DEF S!Empty
  <2>2. S!Empty(n) \in File
    BY <2>1 DEF File
  <2> QED
    BY <2>1, <2>2, Values
<1>2. PICK a \in BOOLEAN : handle' = [handle EXCEPT ![h] = [obj |-> o, pos |-> 0, append |-> a]]
  BY DEF S!OpenNew, S!Opened
<1>3. /\ stable' = [stable EXCEPT ![o] = S!Empty(n)]
      /\ file' = [file EXCEPT ![o] = S!Empty(n)]
      /\ ~S!Live(o) /\ S!Unused(n)
  BY DEF S!OpenNew, S!Fresh
<1>4. StoreTypes'
  BY <1>1, <1>2, <1>3 DEF StoreOK, StoreTypes, Desc
<1>5. OneName'
  BY <1>1, <1>3 DEF StoreOK, StoreTypes, OneName, S!Live, S!Unused
<1>6. Ahead'
  BY <1>1, <1>3 DEF StoreOK, StoreTypes, Ahead, S!Live, Extends
<1>7. InStore'
  BY <1>1, <1>2, <1>3 DEF StoreOK, StoreTypes, InStore, S!Live, Desc
<1>8. Grows
  <2> SUFFICES ASSUME NEW p \in ObjId, p # o, stable'[p] # NoFile
               PROVE  /\ S!Live(p) /\ stable'[p].name = stable[p].name
                      /\ Extends(stable'[p].data, stable[p].data)
    BY <1>1, <1>3 DEF StoreOK, StoreTypes, Grows
  <2> QED
    BY <1>3, Extending DEF StoreOK, StoreTypes, S!Live, File
<1> QED
  BY <1>4, <1>5, <1>6, <1>7, <1>8 DEF StoreOK

LEMMA SameKeeps ==
    ASSUME StoreOK, UNCHANGED stable PROVE Grows
BY Extending DEF StoreOK, StoreTypes, Grows, S!Live, File

LEMMA OpenKeeps ==
    ASSUME StoreOK, NEW h \in Handle, NEW o \in ObjId,
           S!Open(h, o), handle'[h].append
    PROVE  StoreOK' /\ Grows
<1>1. PICK a \in BOOLEAN : handle' = [handle EXCEPT ![h] = [obj |-> o, pos |-> 0, append |-> a]]
  BY DEF S!Open, S!Opened
<1>2. UNCHANGED <<stable, file>> /\ S!Live(o)
  BY DEF S!Open
<1> QED
  BY <1>1, <1>2, SameKeeps
     DEF StoreOK, StoreTypes, OneName, Ahead, InStore, S!Live, Desc

LEMMA OpenEmptiedKeeps ==
    ASSUME StoreOK, NEW h \in Handle, NEW o \in ObjId,
           S!OpenEmptied(h, o), handle'[h].append
    PROVE  StoreOK' /\ Grows
<1>1. PICK a \in BOOLEAN : handle' = [g \in Handle |->
             IF g = h THEN [obj |-> o, pos |-> 0, append |-> a]
             ELSE IF g \in S!OpenOn(o) THEN [handle[g] EXCEPT !.pos = 0]
             ELSE handle[g]]
  BY DEF S!OpenEmptied, S!Rewound
<1>2. /\ S!Live(o)
      /\ stable' = [stable EXCEPT ![o].data = <<>>]
      /\ file'   = [file EXCEPT ![o].data = <<>>]
  BY DEF S!OpenEmptied
<1>3. /\ stable[o] \in File /\ file[o] \in File
      /\ stable'[o] = [name |-> stable[o].name, data |-> <<>>]
      /\ file'[o] = [name |-> file[o].name, data |-> <<>>]
      /\ stable'[o] \in File /\ file'[o] \in File
  <2>1. stable[o] \in File /\ file[o] \in File
    BY <1>2 DEF StoreOK, StoreTypes, Ahead, S!Live
  <2>2. \A c \in File : /\ [c EXCEPT !.data = <<>>] = [name |-> c.name, data |-> <<>>]
                        /\ [name |-> c.name, data |-> <<>>] \in File
    BY DEF File
  <2>3. /\ stable'[o] = [stable[o] EXCEPT !.data = <<>>]
        /\ file'[o] = [file[o] EXCEPT !.data = <<>>]
    BY <1>2 DEF StoreOK, StoreTypes
  <2> QED
    BY <2>1, <2>2, <2>3
<1>4. \A p \in ObjId \ {o} : stable'[p] = stable[p] /\ file'[p] = file[p]
  BY <1>2 DEF StoreOK, StoreTypes
<1>5. \A g \in Handle : handle'[g] # Closed =>
          /\ handle'[g] \in Desc /\ handle'[g].append
          /\ handle'[g].obj \in ObjId /\ S!Live(handle'[g].obj)
  BY <1>1, <1>2 DEF StoreOK, StoreTypes, InStore, S!OpenOn, Desc, S!Live
<1>6. StoreTypes'
  <2>1. handle' \in [Handle -> Desc \cup {Closed}]
    BY <1>1, <1>5
  <2> QED
    BY <2>1, <1>2, <1>3, <1>4 DEF StoreOK, StoreTypes
<1>7. OneName'
  BY <1>2, <1>3, <1>4 DEF StoreOK, OneName, S!Live
<1>8. Ahead'
  BY <1>2, <1>3, <1>4, Values DEF StoreOK, Ahead, S!Live, Extends
<1>9. InStore'
  BY <1>3, <1>4, <1>5, Values DEF InStore, S!Live
<1>10. Grows
  <2> SUFFICES ASSUME NEW p \in ObjId, p # o, stable'[p] # NoFile
               PROVE  /\ S!Live(p) /\ stable'[p].name = stable[p].name
                      /\ Extends(stable'[p].data, stable[p].data)
    BY <1>3 DEF Grows
  <2> QED
    BY <1>4, Extending DEF StoreOK, StoreTypes, S!Live, File
<1> QED
  BY <1>6, <1>7, <1>8, <1>9, <1>10 DEF StoreOK

\* What waits in the cache goes to the chip.
LEMMA SyncedKeeps ==
    ASSUME StoreOK, NEW h \in Handle, handle[h] # Closed,
           UNCHANGED file, stable' = S!Synced(h),
           handle' \in [Handle -> Desc \cup {Closed}],
           \A g \in Handle : handle'[g] # Closed =>
               /\ handle[g] # Closed
               /\ handle'[g].append = handle[g].append /\ handle'[g].obj = handle[g].obj
    PROVE  StoreOK' /\ Grows
<1> DEFINE o == handle[h].obj
<1>1. o \in ObjId /\ S!Live(o) /\ file[o] \in File /\ file[o] # NoFile
      /\ stable[o] \in File
  BY Values DEF StoreOK, StoreTypes, InStore, Ahead, S!Live, Desc
<1>2. stable' = [stable EXCEPT ![o] = file[o]]
  BY DEF S!Synced
<1> HIDE DEF o
<1>3. StoreTypes'
  BY <1>1, <1>2 DEF StoreOK, StoreTypes
<1>4. OneName'
  BY <1>1, <1>2 DEF StoreOK, StoreTypes, OneName, Ahead, S!Live
<1>5. Extends(file[o].data, file[o].data) /\ Extends(file[o].data, stable[o].data)
  BY <1>1, Extending DEF File, StoreOK, Ahead
<1>6. Ahead'
  BY <1>1, <1>2, <1>5 DEF StoreOK, StoreTypes, Ahead, S!Live
<1>7. InStore'
  BY <1>1, <1>2 DEF StoreOK, StoreTypes, InStore, S!Live, Desc
<1>8. Grows
  <2> SUFFICES ASSUME NEW p \in ObjId, stable'[p] # NoFile
               PROVE  /\ S!Live(p) /\ stable'[p].name = stable[p].name
                      /\ Extends(stable'[p].data, stable[p].data)
    BY DEF Grows
  <2>1. CASE p = o
    BY <2>1, <1>1, <1>2, <1>5 DEF StoreOK, StoreTypes, Ahead
  <2>2. CASE p # o
    BY <2>2, <1>2, Extending DEF StoreOK, StoreTypes, S!Live, File
  <2> QED
    BY <2>1, <2>2
<1> QED
  BY <1>3, <1>4, <1>6, <1>7, <1>8 DEF StoreOK

LEMMA CloseKeeps ==
    ASSUME StoreOK, NEW h \in Handle, S!Close(h) PROVE StoreOK' /\ Grows
<1>1. handle[h] # Closed /\ handle' = [handle EXCEPT ![h] = Closed]
      /\ UNCHANGED file /\ stable' = S!Synced(h)
  BY DEF S!Close
<1>2. handle' \in [Handle -> Desc \cup {Closed}]
  BY <1>1 DEF StoreOK, StoreTypes
<1>3. \A g \in Handle : handle'[g] # Closed => handle'[g] = handle[g]
  BY <1>1 DEF StoreOK, StoreTypes
<1> QED
  BY <1>1, <1>2, <1>3, SyncedKeeps

LEMMA FlushKeeps ==
    ASSUME StoreOK, NEW h \in Handle, S!Flush(h) PROVE StoreOK' /\ Grows
<1>1. handle[h] # Closed /\ UNCHANGED <<handle, file>> /\ stable' = S!Synced(h)
  BY DEF S!Flush
<1> QED
  BY <1>1, SyncedKeeps DEF StoreOK, StoreTypes

LEMMA ReadKeeps ==
    ASSUME StoreOK, NEW h \in Handle, NEW p \in Position, S!Move(h, p)
    PROVE  StoreOK' /\ Grows
<1>1. /\ handle[h] # Closed /\ handle' = [handle EXCEPT ![h].pos = p] /\ UNCHANGED file
      /\ stable' = S!Synced(h)
  BY DEF S!Move
<1>2. handle[h] \in Desc /\ handle'[h] = [handle[h] EXCEPT !.pos = p] /\ p \in Nat
  BY <1>1, Values DEF StoreOK, StoreTypes
<1>3. handle'[h] \in Desc /\ handle'[h].append = handle[h].append
      /\ handle'[h].obj = handle[h].obj
  BY <1>2 DEF Desc
<1>4. \A g \in Handle \ {h} : handle'[g] = handle[g]
  BY <1>1 DEF StoreOK, StoreTypes
<1>5. handle' \in [Handle -> Desc \cup {Closed}]
  BY <1>1, <1>3 DEF StoreOK, StoreTypes
<1>6. \A g \in Handle : handle'[g] # Closed =>
               /\ handle[g] # Closed
               /\ handle'[g].append = handle[g].append /\ handle'[g].obj = handle[g].obj
  BY <1>1, <1>3, <1>4
<1> QED
  BY <1>1, <1>5, <1>6, SyncedKeeps

LEMMA WriteKeeps ==
    ASSUME StoreOK, NEW h \in Handle, NEW b \in Data, S!Write(h, b)
    PROVE  StoreOK' /\ Grows
<1> DEFINE o == handle[h].obj
           d == S!Splice(file[o].data, Len(file[o].data), b)
<1>1. handle[h] # Closed /\ handle[h] \in Desc /\ handle[h].append
      /\ o \in ObjId /\ S!Live(o)
  BY DEF S!Write, StoreOK, StoreTypes, InStore, Desc
<1>2. /\ file[o] \in File /\ stable[o] \in File /\ file[o] # NoFile
      /\ file[o].name = stable[o].name /\ file[o].data \in Seq(Byte)
      /\ stable[o].data \in Seq(Byte)
      /\ Extends(file[o].data, stable[o].data)
  BY <1>1, Values DEF StoreOK, StoreTypes, Ahead, S!Live, File
<1>3. b \in Seq(Byte)
  BY Values
<1>4. d \in Seq(Byte) /\ Extends(d, file[o].data)
  BY <1>2, <1>3, Appended
<1>5. file' = [file EXCEPT ![o].data = d]
  BY <1>1 DEF S!Write, S!Written, S!Point
<1>6. handle' = [handle EXCEPT ![h].pos = 0]
  BY <1>1 DEF S!Write, S!Beyond
<1>7. PICK s \in {stable[o], file[o], file'[o]} : stable' = [stable EXCEPT ![o] = s]
  BY DEF S!Write, S!Reached, S!Written
<1> HIDE DEF d, o
<1>8. file'[o] = [file[o] EXCEPT !.data = d]
  BY <1>1, <1>5 DEF StoreOK, StoreTypes
<1>9. file'[o] \in File /\ file'[o].name = file[o].name /\ file'[o].data = d
  BY <1>2, <1>4, <1>8 DEF File
<1>10. /\ s \in File /\ s.name = stable[o].name /\ s.data \in Seq(Byte)
       /\ Extends(s.data, stable[o].data) /\ Extends(d, s.data)
  BY <1>2, <1>4, <1>9, Extending
<1>11. stable'[o] = s /\ \A p \in ObjId \ {o} : stable'[p] = stable[p] /\ file'[p] = file[p]
  BY <1>1, <1>5, <1>7 DEF StoreOK, StoreTypes
<1>12. /\ handle'[h] = [handle[h] EXCEPT !.pos = 0]
       /\ \A g \in Handle \ {h} : handle'[g] = handle[g]
  BY <1>6 DEF StoreOK, StoreTypes
<1>13. handle'[h] \in Desc /\ handle'[h].append = handle[h].append
       /\ handle'[h].obj = o
  <2>1. \A c \in Desc : [c EXCEPT !.pos = 0] = [obj |-> c.obj, pos |-> 0, append |-> c.append]
    BY DEF Desc
  <2>2. handle'[h] = [obj |-> o, pos |-> 0, append |-> handle[h].append]
    BY <1>1, <1>12, <2>1 DEF o
  <2> QED
    BY <1>1, <2>2 DEF Desc
<1>14. StoreTypes'
  BY <1>1, <1>5, <1>6, <1>7, <1>9, <1>10, <1>13 DEF StoreOK, StoreTypes
<1>15. OneName'
  BY <1>1, <1>10, <1>11 DEF StoreOK, OneName, S!Live
<1>16. Ahead'
  BY <1>1, <1>2, <1>9, <1>10, <1>11, Values DEF StoreOK, Ahead, S!Live
<1>17. InStore'
  <2>1. stable'[o] # NoFile
    BY <1>10, <1>11, Values
  <2>2. \A p \in ObjId : S!Live(p) => S!Live(p)'
    BY <2>1, <1>11 DEF S!Live
  <2> QED
    BY <2>2, <1>1, <1>12, <1>13 DEF StoreOK, StoreTypes, InStore, Desc
<1>18. Grows
  <2> SUFFICES ASSUME NEW p \in ObjId, stable'[p] # NoFile
               PROVE  /\ S!Live(p) /\ stable'[p].name = stable[p].name
                      /\ Extends(stable'[p].data, stable[p].data)
    BY DEF Grows
  <2>1. CASE p = o
    BY <2>1, <1>1, <1>10, <1>11
  <2>2. CASE p # o
    BY <2>2, <1>11, Extending DEF StoreOK, StoreTypes, S!Live, File
  <2> QED
    BY <2>1, <2>2
<1> QED
  BY <1>14, <1>15, <1>16, <1>17, <1>18 DEF StoreOK

LEMMA RemoveKeeps ==
    ASSUME StoreOK, NEW o \in ObjId, S!Remove(o) PROVE StoreOK' /\ Grows
<1>1. /\ handle' = [h \in Handle |-> IF h \in S!OpenOn(o) THEN Closed ELSE handle[h]]
      /\ stable' = [stable EXCEPT ![o] = NoFile]
      /\ file' = [file EXCEPT ![o] = NoFile]
  BY DEF S!Remove, S!Without
<1>2. /\ stable'[o] = NoFile /\ file'[o] = NoFile
      /\ \A p \in ObjId \ {o} : stable'[p] = stable[p] /\ file'[p] = file[p]
  BY <1>1 DEF StoreOK, StoreTypes
<1>3. StoreTypes'
  BY <1>1 DEF StoreOK, StoreTypes
<1>4. OneName'
  BY <1>2 DEF StoreOK, OneName, S!Live
<1>5. Ahead'
  BY <1>2 DEF StoreOK, Ahead, S!Live
<1>6. InStore'
  BY <1>1, <1>2 DEF StoreOK, StoreTypes, InStore, S!Live, S!OpenOn, Desc
<1>7. Grows
  <2> SUFFICES ASSUME NEW p \in ObjId, p # o, stable'[p] # NoFile
               PROVE  /\ S!Live(p) /\ stable'[p].name = stable[p].name
                      /\ Extends(stable'[p].data, stable[p].data)
    BY <1>2 DEF Grows
  <2> QED
    BY <1>2, Extending DEF StoreOK, StoreTypes, S!Live, File
<1> QED
  BY <1>3, <1>4, <1>5, <1>6, <1>7 DEF StoreOK

----------------------------------------------------------------------------
(* The Ffiles.                                                             *)

Mounts ==
    /\ mounted => Available
    /\ \A h \in Handle : handle[h] # Closed => mounted

OpenOnes ==
    /\ ff \in [Ffile -> FfileType \cup {Absent}]
    /\ \A f \in Ffile :
          IsOpen(f) => ff[f].fs /\ ff[f].name \in Name /\ ff[f].fd \in Handle

\* Between the two halves of open() and clear() the old descriptor is closed.
HalfDone ==
    /\ todo \in [f : Ffile, name : Name, trunc : BOOLEAN] \cup {Nothing}
    /\ todo # Nothing => IsOpen(todo.f) /\ ~Valid(ff[todo.f].fd)

FilesOK ==
    /\ TypeOK /\ Mounts /\ OpenOnes /\ HalfDone
    /\ OwnFile /\ UnsavedKnown /\ NoLostDescriptor

IInv == StoreOK /\ FilesOK

LEMMA ValidHandle ==
    ASSUME NEW h \in Handle PROVE Valid(h) <=> handle[h] # Closed
BY Values DEF Valid

LEMMA ValidHandleNext ==
    ASSUME NEW h \in Handle PROVE Valid(h)' <=> handle'[h] # Closed
BY Values DEF Valid

LEMMA InitInv == Init => IInv
<1> SUFFICES ASSUME Init PROVE IInv
  OBVIOUS
<1>1. StoreOK
  BY DEF Init, S!Init, StoreOK, StoreTypes, OneName, Ahead, InStore, S!Live
<1>2. \A f \in Ffile : ~IsOpen(f)
  BY DEF Init, IsOpen
<1>3. TypeOK /\ Mounts /\ OpenOnes /\ HalfDone
  BY <1>2 DEF Init, S!Init, TypeOK, Mounts, OpenOnes, HalfDone, Available
<1>4. OwnFile /\ UnsavedKnown /\ NoLostDescriptor
  BY <1>2 DEF Init, S!Init, OwnFile, UnsavedKnown, NoLostDescriptor
<1> QED
  BY <1>1, <1>3, <1>4 DEF IInv, FilesOK

\* A step that closes all descriptors, as init(), format() and unmount() do.
LEMMA AllClosedFiles ==
    ASSUME IInv, todo = Nothing, S!AllClosed, AllTaken, UNCHANGED <<ff, todo>>,
           file' = stable', mounted' \in BOOLEAN, formatted' \in BOOLEAN,
           mounted' => Available',
           status' \in {"NOT_INIT", "AVAILABLE", "UNMOUNTED", "UNAVAILABLE", "ERRORS"}
    PROVE  FilesOK'
<1>1. \A h \in Handle : handle'[h] = Closed
  BY DEF S!AllClosed
<1>2. \A f \in Ffile : IsOpen(f)' <=> IsOpen(f)
  BY DEF IsOpen
<1>3. TypeOK'
  BY DEF IInv, FilesOK, TypeOK, AllTaken
<1>4. Mounts' /\ OpenOnes' /\ HalfDone'
  BY <1>1, <1>2 DEF IInv, FilesOK, Mounts, OpenOnes, HalfDone
<1>5. OwnFile' /\ UnsavedKnown' /\ NoLostDescriptor'
  BY <1>1, <1>2 DEF AllTaken, OwnFile, UnsavedKnown, NoLostDescriptor
<1> QED
  BY <1>3, <1>4, <1>5 DEF FilesOK

\* An Ffile that is no longer open, or never was.
LEMMA OneLess ==
    ASSUME IInv, NEW f \in Ffile, NEW v \in FfileType \cup {Absent},
           todo = Nothing, UNCHANGED <<file, stable, handle, fs, todo>>,
           IsOpen(f) => \A h \in Handle : handle[h] = Closed,
           ff' = [ff EXCEPT ![f] = v],
           v = Absent \/ v.status \notin {"OPEN", "MODIFIED_UNSAVED"},
           taken' \in {taken, taken \ {f}}
    PROVE  IInv'
<1>1. /\ ~IsOpen(f)' /\ ff'[f] = v
      /\ \A g \in Ffile \ {f} : ff'[g] = ff[g] /\ (IsOpen(g)' <=> IsOpen(g))
  BY DEF IInv, FilesOK, OpenOnes, IsOpen
<1>2. TypeOK'
  BY <1>1 DEF IInv, FilesOK, TypeOK, OpenOnes, fs
<1>3. StoreOK'
  BY DEF IInv, StoreOK, StoreTypes, OneName, Ahead, InStore, S!Live
<1>4. Mounts' /\ HalfDone'
  BY DEF IInv, FilesOK, Mounts, HalfDone, fs, Available
<1>5. OpenOnes'
  <2>1. ff' \in [Ffile -> FfileType \cup {Absent}]
    BY DEF IInv, FilesOK, OpenOnes
  <2> QED
    BY <2>1, <1>1 DEF IInv, FilesOK, OpenOnes
<1>6. \A h \in Handle : handle[h] # Closed =>
          \E g \in Ffile \ {f} : IsOpen(g) /\ ff[g].fd = h
  BY DEF IInv, FilesOK, NoLostDescriptor
<1>7. NoLostDescriptor'
  BY <1>1, <1>6 DEF NoLostDescriptor
<1>8. UnsavedKnown'
  <2> SUFFICES ASSUME NEW o \in ObjId, file[o] # stable[o]
               PROVE  \E g \in Ffile : /\ IsOpen(g)' /\ ff'[g].status = "MODIFIED_UNSAVED"
                                       /\ Valid(ff[g].fd)' /\ handle'[ff'[g].fd].obj = o
    BY DEF UnsavedKnown, IsOpen, Valid
  <2>1. PICK g \in Ffile : /\ IsOpen(g) /\ ff[g].status = "MODIFIED_UNSAVED"
                           /\ Valid(ff[g].fd) /\ handle[ff[g].fd].obj = o
    BY DEF IInv, FilesOK, UnsavedKnown
  <2>2. g # f
    BY <2>1, ValidHandle DEF IInv, FilesOK, OpenOnes
  <2> QED
    BY <2>1, <2>2, <1>1 DEF Valid, IsOpen
<1>9. OwnFile'
  <2>1. \A g \in Ffile \ {f} : g \notin taken' => g \notin taken
    OBVIOUS
  <2> QED
    BY <2>1, <1>1 DEF IInv, FilesOK, OwnFile, Valid
<1> QED
  BY <1>2, <1>3, <1>4, <1>5, <1>7, <1>8, <1>9 DEF IInv, FilesOK

\* What the closing of the descriptor of f does to the others.
LEMMA ClosedByEffect ==
    ASSUME IInv, NEW f \in Ffile, IsOpen(f), todo = Nothing, ClosedBy(f),
           "close" \notin Faults
    PROVE  /\ StoreOK' /\ Grows
           /\ ff[f].fd \in Handle /\ handle'[ff[f].fd] = Closed
           /\ \A h \in Handle \ {ff[f].fd} : handle'[h] = handle[h]
           /\ \A o \in ObjId : /\ S!Live(o) => stable'[o].name = stable[o].name
                               /\ file'[o] # stable'[o] =>
                                     /\ file[o] # stable[o]
                                     /\ handle[ff[f].fd] # Closed => handle[ff[f].fd].obj # o
           /\ f \notin taken' /\ taken' \subseteq Ffile /\ taken \subseteq taken' \cup {f}
           /\ \A g \in Ffile \ {f} : IsOpen(g) /\ ff[g].fd = ff[f].fd => g \in taken'
<1> DEFINE fd == ff[f].fd
<1>1. fd \in Handle
  BY DEF IInv, FilesOK, OpenOnes
<1>2. taken \subseteq Ffile
  BY DEF IInv, FilesOK, TypeOK
<1>3. CASE handle[fd] # Closed
  <2>1. S!Close(fd) /\ taken' = (taken \cup Robbed(f, {fd})) \ {f}
    BY <1>1, <1>3, ValidHandle DEF ClosedBy
  <2>2. StoreOK' /\ Grows
    BY <1>1, <2>1, CloseKeeps DEF IInv
  <2>3. /\ handle' = [handle EXCEPT ![fd] = Closed] /\ UNCHANGED file
        /\ stable' = [stable EXCEPT ![handle[fd].obj] = file[handle[fd].obj]]
    BY <2>1 DEF S!Close, S!Synced
  <2>4. handle[fd].obj \in ObjId /\ S!Live(handle[fd].obj)
    BY <1>1, <1>3 DEF IInv, StoreOK, StoreTypes, InStore, Desc
  <2>5. handle'[fd] = Closed /\ \A h \in Handle \ {fd} : handle'[h] = handle[h]
    BY <1>1, <2>3 DEF IInv, StoreOK, StoreTypes
  <2>6. \A o \in ObjId : /\ S!Live(o) => stable'[o].name = stable[o].name
                         /\ file'[o] # stable'[o] =>
                               file[o] # stable[o] /\ handle[fd].obj # o
    BY <2>3, <2>4 DEF IInv, StoreOK, StoreTypes, Ahead
  <2>7. \A g \in Ffile \ {f} : IsOpen(g) /\ ff[g].fd = fd => g \in taken'
    BY <2>1 DEF Robbed
  <2> QED
    BY <1>1, <1>2, <2>1, <2>2, <2>5, <2>6, <2>7 DEF Robbed
<1>4. CASE handle[fd] = Closed
  <2>1. UNCHANGED <<file, stable, handle>> /\ taken' = taken \ {f}
    BY <1>1, <1>4, ValidHandle DEF ClosedBy
  <2>2. StoreOK'
    BY <2>1 DEF IInv, StoreOK, StoreTypes, OneName, Ahead, InStore, S!Live
  <2>3. Grows
    BY <2>1, SameKeeps DEF IInv
  <2>4. \A g \in Ffile \ {f} : IsOpen(g) /\ ff[g].fd = fd => g \in taken
    BY <1>1, <1>4, ValidHandle DEF IInv, FilesOK, OwnFile
  <2> QED
    BY <1>1, <1>2, <1>4, <2>1, <2>2, <2>3, <2>4
<1> QED
  BY <1>3, <1>4

\* The destructor, and the first half of open() and of clear().
LEMMA AfterClose ==
    ASSUME IInv, NEW f \in Ffile, IsOpen(f), todo = Nothing, ClosedBy(f),
           "close" \notin Faults, UNCHANGED fs,
           \/ ff' = [ff EXCEPT ![f] = Absent] /\ UNCHANGED todo
           \/ /\ UNCHANGED ff
              /\ todo' \in [f : {f}, name : Name, trunc : BOOLEAN]
    PROVE  IInv' /\ Grows
<1> DEFINE fd == ff[f].fd
<1>1. /\ StoreOK' /\ Grows
      /\ fd \in Handle /\ handle'[fd] = Closed
      /\ \A h \in Handle \ {fd} : handle'[h] = handle[h]
      /\ \A o \in ObjId : /\ S!Live(o) => stable'[o].name = stable[o].name
                          /\ file'[o] # stable'[o] =>
                                /\ file[o] # stable[o]
                                /\ handle[fd] # Closed => handle[fd].obj # o
      /\ f \notin taken' /\ taken' \subseteq Ffile /\ taken \subseteq taken' \cup {f}
      /\ \A g \in Ffile \ {f} : IsOpen(g) /\ ff[g].fd = fd => g \in taken'
  BY ClosedByEffect
<1> HIDE DEF fd
<1>2. \A g \in Ffile \ {f} : ff'[g] = ff[g]
  BY DEF IInv, FilesOK, OpenOnes
<1>3. \/ ff'[f] = Absent /\ todo' = Nothing
      \/ ff'[f] = ff[f] /\ todo'.f = f /\ todo' # Nothing
  BY Values DEF IInv, FilesOK, OpenOnes
<1>4. TypeOK'
  BY <1>1, <1>2, <1>3 DEF IInv, FilesOK, TypeOK, fs
<1>5. Mounts'
  BY <1>1 DEF IInv, FilesOK, Mounts, fs, Available
<1>6. OpenOnes'
  BY <1>2, <1>3 DEF IInv, FilesOK, OpenOnes, IsOpen
<1>7. HalfDone'
  <2>1. CASE todo' = Nothing
    BY <2>1 DEF HalfDone
  <2>2. CASE todo' # Nothing
    <3>1. /\ todo' \in [f : {f}, name : Name, trunc : BOOLEAN] /\ todo'.f = f
          /\ UNCHANGED ff
      BY <2>2, <1>3
    <3>2. todo' \in [f : Ffile, name : Name, trunc : BOOLEAN]
      BY <3>1
    <3>3. IsOpen(f)' /\ ~Valid(ff[f].fd)'
      BY <3>1, <1>1 DEF IsOpen, Valid, fd
    <3> QED
      BY <3>1, <3>2, <3>3 DEF HalfDone, IsOpen, Valid
  <2> QED
    BY <2>1, <2>2
<1>8. \A g \in Ffile \ {f}, h \in Handle :
          g \notin taken' /\ IsOpen(g) /\ ff[g].fd = h =>
              /\ g \notin taken /\ h # fd /\ handle[h] # Closed /\ handle'[h] = handle[h]
              /\ stable[handle[h].obj].name = ff[g].name
              /\ stable'[handle[h].obj].name = ff[g].name
  <2> SUFFICES ASSUME NEW g \in Ffile \ {f}, NEW h \in Handle,
                      g \notin taken', IsOpen(g), ff[g].fd = h
               PROVE  /\ g \notin taken /\ h # fd /\ handle[h] # Closed /\ handle'[h] = handle[h]
                      /\ stable[handle[h].obj].name = ff[g].name
                      /\ stable'[handle[h].obj].name = ff[g].name
    OBVIOUS
  <2>1. g \notin taken /\ h # fd /\ handle'[h] = handle[h]
    BY <1>1
  <2>2. handle[h] # Closed /\ stable[handle[h].obj].name = ff[g].name
    BY <2>1, ValidHandle DEF IInv, FilesOK, OwnFile
  <2>3. handle[h].obj \in ObjId /\ S!Live(handle[h].obj)
    BY <2>2 DEF IInv, StoreOK, StoreTypes, InStore, Desc
  <2> QED
    BY <1>1, <2>1, <2>2, <2>3
<1>9. OwnFile'
  <2> SUFFICES ASSUME NEW g \in Ffile, g \notin taken', IsOpen(g)',
                      todo' # Nothing => todo'.f # g
               PROVE  /\ Valid(ff[g].fd)'
                      /\ stable'[handle'[ff'[g].fd].obj].name = ff'[g].name
                      /\ \A k \in Ffile \ {g} :
                            IsOpen(k)' /\ k \notin taken' => ff'[k].fd # ff'[g].fd
    BY DEF OwnFile
  <2>1. g # f /\ IsOpen(g) /\ ff'[g] = ff[g] /\ ff[g].fd \in Handle
    <3>1. g # f
      BY <1>3 DEF IsOpen
    <3> QED
      BY <3>1, <1>2 DEF IsOpen, IInv, FilesOK, OpenOnes
  <2>2. Valid(ff[g].fd)' /\ stable'[handle'[ff'[g].fd].obj].name = ff'[g].name
    BY <2>1, <1>8, Values DEF Valid
  <2>3. ASSUME NEW k \in Ffile \ {g}, IsOpen(k)', k \notin taken'
        PROVE  ff'[k].fd # ff'[g].fd
    <3>1. CASE k = f
      BY <3>1, <2>1, <2>3, <1>1, <1>3, <1>8 DEF fd, IsOpen
    <3>2. CASE k # f
      <4>1. IsOpen(k) /\ ff'[k] = ff[k] /\ ff[k].fd \in Handle
        BY <3>2, <2>3, <1>2 DEF IsOpen, IInv, FilesOK, OpenOnes
      <4>2. k \notin taken /\ g \notin taken
        BY <4>1, <3>2, <2>1, <2>3, <1>8
      <4> QED
        BY <4>1, <4>2, <2>1 DEF IInv, FilesOK, OwnFile
    <3> QED
      BY <3>1, <3>2
  <2> QED
    BY <2>2, <2>3
<1>10. UnsavedKnown'
  <2> SUFFICES ASSUME NEW o \in ObjId, file'[o] # stable'[o]
               PROVE  \E g \in Ffile : /\ IsOpen(g)' /\ ff'[g].status = "MODIFIED_UNSAVED"
                                       /\ Valid(ff[g].fd)' /\ handle'[ff'[g].fd].obj = o
    BY DEF UnsavedKnown
  <2>1. PICK g \in Ffile : /\ IsOpen(g) /\ ff[g].status = "MODIFIED_UNSAVED"
                           /\ Valid(ff[g].fd) /\ handle[ff[g].fd].obj = o
    BY <1>1 DEF IInv, FilesOK, UnsavedKnown
  <2>2. ff[g].fd \in Handle /\ handle[ff[g].fd] # Closed
    BY <2>1, ValidHandle DEF IInv, FilesOK, OpenOnes
  <2>3. ff[g].fd # fd
    BY <2>1, <2>2, <1>1
  <2>4. g # f
    BY <2>3 DEF fd
  <2> QED
    BY <2>1, <2>2, <2>3, <2>4, <1>1, <1>2 DEF Valid, IsOpen
<1>11. NoLostDescriptor'
  <2> SUFFICES ASSUME NEW h \in Handle, handle'[h] # Closed
               PROVE  \E g \in Ffile : IsOpen(g)' /\ ff'[g].fd = h
    BY DEF NoLostDescriptor
  <2>1. h # fd /\ handle[h] # Closed
    BY <1>1
  <2>2. PICK g \in Ffile : IsOpen(g) /\ ff[g].fd = h
    BY <2>1 DEF IInv, FilesOK, NoLostDescriptor
  <2>3. g # f
    BY <2>1, <2>2 DEF fd
  <2> QED
    BY <2>2, <2>3, <1>2 DEF IsOpen
<1> QED
  BY <1>1, <1>4, <1>5, <1>6, <1>7, <1>9, <1>10, <1>11 DEF IInv, FilesOK

\* What an opening does to the other descriptors and files.
LEMMA OpensEffect ==
    ASSUME StoreOK, NEW h \in Handle, NEW n \in Name, NEW trunc \in BOOLEAN,
           Opens(h, n, trunc)
    PROVE  /\ StoreOK' /\ Grows /\ mounted
           /\ handle[h] = Closed /\ handle'[h] # Closed
           /\ stable'[handle'[h].obj].name = n
           /\ \A g \in Handle \ {h} :
                 /\ handle'[g] = Closed <=> handle[g] = Closed
                 /\ handle[g] # Closed => handle'[g].obj = handle[g].obj
           /\ \A o \in ObjId : /\ S!Live(o) => stable'[o].name = stable[o].name
                               /\ file'[o] # stable'[o] => file[o] # stable[o]
<1> DEFINE Effect ==
           /\ StoreOK' /\ Grows
           /\ handle[h] = Closed /\ handle'[h] # Closed
           /\ stable'[handle'[h].obj].name = n
           /\ \A g \in Handle \ {h} :
                 /\ handle'[g] = Closed <=> handle[g] = Closed
                 /\ handle[g] # Closed => handle'[g].obj = handle[g].obj
           /\ \A o \in ObjId : /\ S!Live(o) => stable'[o].name = stable[o].name
                               /\ file'[o] # stable'[o] => file[o] # stable[o]
<1>1. mounted /\ handle'[h].append
  BY DEF Opens
<1>2. ASSUME NEW o \in ObjId, S!OpenNew(h, o, n) PROVE Effect
  <2>1. StoreOK' /\ Grows
    BY <1>1, <1>2, OpenNewKeeps
  <2>2. PICK a \in BOOLEAN : /\ handle[h] = Closed
                             /\ handle' = [handle EXCEPT ![h] = [obj |-> o, pos |-> 0, append |-> a]]
    BY <1>2 DEF S!OpenNew, S!Opened
  <2>3. [obj |-> o, pos |-> 0, append |-> a] # Closed
    BY Values DEF Desc
  <2>4. /\ stable' = [stable EXCEPT ![o] = S!Empty(n)]
        /\ file' = [file EXCEPT ![o] = S!Empty(n)] /\ ~S!Live(o) /\ S!Empty(n).name = n
    BY <1>2 DEF S!OpenNew, S!Fresh, S!Empty
  <2> QED
    BY <2>1, <2>2, <2>3, <2>4 DEF StoreOK, StoreTypes
<1>3. ASSUME NEW o \in Named(n), S!Open(h, o) PROVE Effect
  <2>0. o \in ObjId /\ stable[o].name = n
    BY DEF Named
  <2>1. StoreOK' /\ Grows
    BY <1>1, <1>3, <2>0, OpenKeeps
  <2>2. PICK a \in BOOLEAN : /\ handle[h] = Closed
                             /\ handle' = [handle EXCEPT ![h] = [obj |-> o, pos |-> 0, append |-> a]]
    BY <1>3 DEF S!Open, S!Opened
  <2>3. [obj |-> o, pos |-> 0, append |-> a] # Closed
    BY <2>0, Values DEF Desc
  <2>4. UNCHANGED <<stable, file>>
    BY <1>3 DEF S!Open
  <2> QED
    BY <2>0, <2>1, <2>2, <2>3, <2>4 DEF StoreOK, StoreTypes
<1>4. ASSUME NEW o \in Named(n), S!OpenEmptied(h, o) PROVE Effect
  <2>0. o \in ObjId /\ stable[o].name = n
    BY DEF Named
  <2>1. StoreOK' /\ Grows
    BY <1>1, <1>4, <2>0, OpenEmptiedKeeps
  <2>2. PICK a \in BOOLEAN : /\ handle[h] = Closed
                             /\ handle' = [g \in Handle |->
                                   IF g = h THEN [obj |-> o, pos |-> 0, append |-> a]
                                   ELSE IF g \in S!OpenOn(o) THEN [handle[g] EXCEPT !.pos = 0]
                                   ELSE handle[g]]
    BY <1>4 DEF S!OpenEmptied, S!Rewound
  <2>3. \A c \in Desc : c # Closed /\ [c EXCEPT !.pos = 0] \in Desc
                        /\ [c EXCEPT !.pos = 0].obj = c.obj
    BY Values DEF Desc
  <2>4. [obj |-> o, pos |-> 0, append |-> a] # Closed
    BY <2>0, Values DEF Desc
  <2>5. \A g \in Handle \ {h} :
                 /\ handle'[g] = Closed <=> handle[g] = Closed
                 /\ handle[g] # Closed => handle'[g].obj = handle[g].obj
    BY <2>2, <2>3 DEF S!OpenOn, StoreOK, StoreTypes
  <2>6. /\ stable' = [stable EXCEPT ![o].data = <<>>]
        /\ file' = [file EXCEPT ![o].data = <<>>] /\ S!Live(o)
    BY <1>4 DEF S!OpenEmptied
  <2>7. stable'[o].name = n /\ stable'[o] = file'[o]
    <3>1. /\ stable[o] \in File /\ file[o] \in File /\ stable[o].name = file[o].name
      BY <2>0, <2>6 DEF StoreOK, StoreTypes, Ahead, S!Live
    <3>2. \A c \in File : [c EXCEPT !.data = <<>>] = [name |-> c.name, data |-> <<>>]
      BY DEF File
    <3>3. /\ stable'[o] = [stable[o] EXCEPT !.data = <<>>]
          /\ file'[o] = [file[o] EXCEPT !.data = <<>>]
      BY <2>0, <2>6 DEF StoreOK, StoreTypes
    <3>4. /\ stable'[o] = [name |-> n, data |-> <<>>]
          /\ file'[o] = [name |-> n, data |-> <<>>]
      BY <2>0, <3>1, <3>2, <3>3
    <3> QED
      BY <3>4
  <2>8. \A p \in ObjId \ {o} : stable'[p] = stable[p] /\ file'[p] = file[p]
    BY <2>6 DEF StoreOK, StoreTypes
  <2> QED
    BY <2>0, <2>1, <2>2, <2>4, <2>5, <2>7, <2>8
<1>5. Effect
  <2> HIDE DEF Effect
  <2> QED
    BY <1>2, <1>3, <1>4 DEF Opens
<1> QED
  BY <1>1, <1>5

\* SPIFFS_open for an Ffile that has no descriptor.
LEMMA AfterOpen ==
    ASSUME IInv, NEW f \in Ffile, NEW n \in Name, NEW trunc \in BOOLEAN,
           OpenedAs(f, n, trunc), IsOpen(f) => ~Valid(ff[f].fd),
           todo # Nothing => todo.f = f, todo' = Nothing, UNCHANGED <<fs, taken>>
    PROVE  IInv' /\ Grows
<1>1. \A g \in Ffile : IsOpen(g) => ff[g].fd \in Handle
  BY DEF IInv, FilesOK, OpenOnes
<1>2. ASSUME NEW h \in Handle, Opens(h, n, trunc),
             ff' = [ff EXCEPT ![f] = [fs |-> TRUE, name |-> n, fd |-> h,
                      status |-> IF trunc THEN "MODIFIED_UNSAVED" ELSE "OPEN"]]
      PROVE  IInv' /\ Grows
  <2>1. /\ StoreOK' /\ Grows /\ mounted
        /\ handle[h] = Closed /\ handle'[h] # Closed
        /\ stable'[handle'[h].obj].name = n
        /\ \A g \in Handle \ {h} :
              /\ handle'[g] = Closed <=> handle[g] = Closed
              /\ handle[g] # Closed => handle'[g].obj = handle[g].obj
        /\ \A o \in ObjId : /\ S!Live(o) => stable'[o].name = stable[o].name
                            /\ file'[o] # stable'[o] => file[o] # stable[o]
    BY <1>2, OpensEffect DEF IInv
  <2> DEFINE v == [fs |-> TRUE, name |-> n, fd |-> h,
                   status |-> IF trunc THEN "MODIFIED_UNSAVED" ELSE "OPEN"]
  <2>2. v \in FfileType /\ v # Absent /\ v.status \in {"OPEN", "MODIFIED_UNSAVED"}
        /\ v.fd = h /\ v.name = n /\ v.fs = TRUE
    <3>1. \A st \in {"OPEN", "MODIFIED_UNSAVED"} :
              [fs |-> TRUE, name |-> n, fd |-> h, status |-> st] \in FfileType
      BY DEF FfileType
    <3>2. v \in FfileType
      BY <3>1
    <3>3. v # Absent
      BY <3>2, Values
    <3> QED
      BY <3>2, <3>3
  <2>3. ff'[f] = v /\ \A g \in Ffile \ {f} : ff'[g] = ff[g]
    BY <1>2 DEF IInv, FilesOK, OpenOnes
  <2> HIDE DEF v
  <2>4. \A g \in Ffile \ {f} : IsOpen(g) => ff[g].fd \in Handle
    BY <1>1
  <2>5. TypeOK'
    BY <2>2, <2>3 DEF IInv, FilesOK, TypeOK, fs
  <2>6. Mounts'
    BY <2>1 DEF IInv, FilesOK, Mounts, fs, Available
  <2>7. OpenOnes'
    <3>1. ff' \in [Ffile -> FfileType \cup {Absent}]
      BY <1>2, <2>2 DEF IInv, FilesOK, OpenOnes, v
    <3> QED
      BY <3>1, <2>2, <2>3 DEF IInv, FilesOK, OpenOnes, IsOpen
  <2>8. HalfDone'
    BY DEF HalfDone
  <2>9. \A g \in Ffile \ {f} : g \notin taken /\ IsOpen(g) =>
            /\ handle[ff[g].fd] # Closed /\ ff[g].fd # h
            /\ stable'[handle'[ff[g].fd].obj].name = ff[g].name
    <3> SUFFICES ASSUME NEW g \in Ffile \ {f}, g \notin taken, IsOpen(g)
                 PROVE  /\ handle[ff[g].fd] # Closed /\ ff[g].fd # h
                        /\ stable'[handle'[ff[g].fd].obj].name = ff[g].name
      OBVIOUS
    <3>1. handle[ff[g].fd] # Closed /\ stable[handle[ff[g].fd].obj].name = ff[g].name
      BY <2>4, ValidHandle DEF IInv, FilesOK, OwnFile
    <3>2. handle[ff[g].fd].obj \in ObjId /\ S!Live(handle[ff[g].fd].obj)
      BY <2>4, <3>1 DEF IInv, StoreOK, StoreTypes, InStore, Desc
    <3> QED
      BY <2>1, <2>4, <3>1, <3>2
  <2>10. OwnFile'
    <3> SUFFICES ASSUME NEW g \in Ffile, g \notin taken, IsOpen(g)'
                 PROVE  /\ Valid(ff[g].fd)'
                        /\ stable'[handle'[ff'[g].fd].obj].name = ff'[g].name
                        /\ \A k \in Ffile \ {g} :
                              IsOpen(k)' /\ k \notin taken => ff'[k].fd # ff'[g].fd
      BY DEF OwnFile
    <3>1. CASE g = f
      <4>1. Valid(ff[g].fd)'
        BY <3>1, <2>1, <2>2, <2>3, Values DEF Valid
      <4> QED
        BY <3>1, <4>1, <2>1, <2>2, <2>3, <2>9 DEF IsOpen
    <3>2. CASE g # f
      <4>1. IsOpen(g) /\ ff'[g] = ff[g] /\ ff[g].fd \in Handle
        BY <3>2, <2>3, <2>4 DEF IsOpen
      <4>2. handle'[ff[g].fd] # Closed /\ ff[g].fd # h
        BY <3>2, <4>1, <2>1, <2>9
      <4>3. Valid(ff[g].fd)'
        BY <4>1, <4>2, Values DEF Valid
      <4>4. ASSUME NEW k \in Ffile \ {g}, IsOpen(k)', k \notin taken
            PROVE  ff'[k].fd # ff'[g].fd
        <5>1. CASE k = f
          BY <5>1, <4>1, <4>2, <2>2, <2>3
        <5>2. CASE k # f
          BY <5>2, <3>2, <4>1, <4>4, <2>3 DEF IsOpen, IInv, FilesOK, OwnFile
        <5> QED
          BY <5>1, <5>2
      <4> QED
        BY <3>2, <4>1, <4>3, <4>4, <2>9
    <3> QED
      BY <3>1, <3>2
  <2>11. UnsavedKnown'
    <3> SUFFICES ASSUME NEW o \in ObjId, file'[o] # stable'[o]
                 PROVE  \E g \in Ffile : /\ IsOpen(g)' /\ ff'[g].status = "MODIFIED_UNSAVED"
                                         /\ Valid(ff[g].fd)' /\ handle'[ff'[g].fd].obj = o
      BY DEF UnsavedKnown
    <3>1. PICK g \in Ffile : /\ IsOpen(g) /\ ff[g].status = "MODIFIED_UNSAVED"
                             /\ Valid(ff[g].fd) /\ handle[ff[g].fd].obj = o
      BY <2>1 DEF IInv, FilesOK, UnsavedKnown
    <3>2. g # f /\ ff[g].fd \in Handle /\ handle[ff[g].fd] # Closed
      BY <1>1, <3>1, ValidHandle
    <3> QED
      BY <3>1, <3>2, <2>1, <2>3 DEF Valid, IsOpen
  <2>12. NoLostDescriptor'
    <3> SUFFICES ASSUME NEW d \in Handle, handle'[d] # Closed
                 PROVE  \E g \in Ffile : IsOpen(g)' /\ ff'[g].fd = d
      BY DEF NoLostDescriptor
    <3>1. CASE d = h
      BY <3>1, <2>2, <2>3 DEF IsOpen
    <3>2. CASE d # h
      <4>1. PICK g \in Ffile : IsOpen(g) /\ ff[g].fd = d
        BY <3>2, <2>1 DEF IInv, FilesOK, NoLostDescriptor
      <4>2. g # f
        BY <3>2, <4>1, <2>1, ValidHandle
      <4> QED
        BY <4>1, <4>2, <2>3 DEF IsOpen
    <3> QED
      BY <3>1, <3>2
  <2> QED
    BY <2>1, <2>5, <2>6, <2>7, <2>8, <2>10, <2>11, <2>12 DEF IInv, FilesOK
<1>3. ASSUME OpenFails(n),
             ff' = [ff EXCEPT ![f] = [fs |-> TRUE, name |-> n, fd |-> NoFd,
                                      status |-> "UNAVAILABLE"]]
      PROVE  IInv' /\ Grows
  <2>1. UNCHANGED <<file, stable, handle>>
    BY <1>3 DEF OpenFails
  <2>2. ff' \in [Ffile -> FfileType \cup {Absent}]
    BY <1>3 DEF IInv, FilesOK, OpenOnes, FfileType
  <2>3. ~IsOpen(f)' /\ \A g \in Ffile \ {f} : ff'[g] = ff[g]
    BY <1>3 DEF IInv, FilesOK, OpenOnes, IsOpen
  <2>4. StoreOK' /\ Grows
    BY <2>1, SameKeeps DEF IInv, StoreOK, StoreTypes, OneName, Ahead, InStore, S!Live
  <2>5. TypeOK' /\ Mounts' /\ OpenOnes' /\ HalfDone'
    BY <2>1, <2>2, <2>3 DEF IInv, FilesOK, TypeOK, Mounts, OpenOnes, HalfDone, fs,
                             Available, IsOpen
  <2>6. OwnFile'
    BY <2>1, <2>3 DEF IInv, FilesOK, OwnFile, IsOpen, Valid
  <2>7. UnsavedKnown'
    BY <2>1, <2>3 DEF IInv, FilesOK, UnsavedKnown, IsOpen, Valid
  <2>8. NoLostDescriptor'
    <3>1. ~(IsOpen(f) /\ handle[ff[f].fd] # Closed)
      BY <1>1, ValidHandle
    <3> QED
      BY <2>1, <2>3, <3>1 DEF IInv, FilesOK, NoLostDescriptor, IsOpen
  <2> QED
    BY <2>4, <2>5, <2>6, <2>7, <2>8 DEF IInv, FilesOK
<1> QED
  BY <1>2, <1>3 DEF OpenedAs

\* Reading, appending and flushing leave the descriptors and the names.
LEMMA Settled ==
    ASSUME IInv, StoreOK', NEW f \in Ffile, todo = Nothing, UNCHANGED <<fs, todo, taken>>,
           \A h \in Handle : /\ handle'[h] = Closed <=> handle[h] = Closed
                             /\ handle[h] # Closed => handle'[h].obj = handle[h].obj,
           \A o \in ObjId : S!Live(o) => stable'[o].name = stable[o].name,
           \/ UNCHANGED ff
           \/ IsOpen(f) /\ ff' = [ff EXCEPT ![f].status = "MODIFIED_UNSAVED"],
           \A o \in ObjId : file'[o] # stable'[o] =>
               \/ file[o] # stable[o]
               \/ /\ IsOpen(f) /\ ff'[f].status = "MODIFIED_UNSAVED"
                  /\ Valid(ff[f].fd) /\ handle[ff[f].fd].obj = o
    PROVE  IInv'
<1>1. /\ ff' \in [Ffile -> FfileType \cup {Absent}]
      /\ \A g \in Ffile : /\ IsOpen(g)' <=> IsOpen(g)
                          /\ IsOpen(g) => /\ ff'[g].fd = ff[g].fd /\ ff'[g].fd \in Handle
                                          /\ ff'[g].name = ff[g].name
                                          /\ ff'[g].name \in Name /\ ff'[g].fs
                                          /\ ff[g].status = "MODIFIED_UNSAVED" =>
                                                ff'[g].status = "MODIFIED_UNSAVED"
  <2>1. CASE UNCHANGED ff
    BY <2>1 DEF IInv, FilesOK, OpenOnes, IsOpen
  <2>2. CASE IsOpen(f) /\ ff' = [ff EXCEPT ![f].status = "MODIFIED_UNSAVED"]
    <3>1. \A r \in FfileType :
              LET s == [r EXCEPT !.status = "MODIFIED_UNSAVED"]
              IN  s \in FfileType /\ s # Absent /\ s.fd = r.fd /\ s.name = r.name /\ s.fs = r.fs
                  /\ s.status = "MODIFIED_UNSAVED"
      <4> SUFFICES ASSUME NEW r \in FfileType, NEW s, s = [r EXCEPT !.status = "MODIFIED_UNSAVED"]
                   PROVE  s \in FfileType /\ s # Absent /\ s.fd = r.fd /\ s.name = r.name
                          /\ s.fs = r.fs /\ s.status = "MODIFIED_UNSAVED"
        OBVIOUS
      <4>1. s \in FfileType /\ s.fd = r.fd /\ s.name = r.name
                  /\ s.fs = r.fs /\ s.status = "MODIFIED_UNSAVED"
        BY DEF FfileType
      <4> QED
        BY <4>1, Values
    <3>2. ff[f] \in FfileType
      BY <2>2 DEF IInv, FilesOK, OpenOnes, IsOpen
    <3>3. /\ ff'[f] = [ff[f] EXCEPT !.status = "MODIFIED_UNSAVED"]
          /\ \A g \in Ffile \ {f} : ff'[g] = ff[g]
      BY <2>2 DEF IInv, FilesOK, OpenOnes
    <3>4. ff' \in [Ffile -> FfileType \cup {Absent}]
      BY <2>2, <3>1, <3>2 DEF IInv, FilesOK, OpenOnes
    <3>5. /\ IsOpen(f)' /\ IsOpen(f) /\ ff'[f].fd = ff[f].fd /\ ff'[f].name = ff[f].name
          /\ ff'[f].fs = ff[f].fs /\ ff'[f].status = "MODIFIED_UNSAVED"
      BY <2>2, <3>1, <3>2, <3>3 DEF IsOpen
    <3> QED
      BY <3>3, <3>4, <3>5 DEF IInv, FilesOK, OpenOnes, IsOpen
  <2> QED
    BY <2>1, <2>2
<1>2. TypeOK' /\ HalfDone'
  BY <1>1 DEF IInv, FilesOK, TypeOK, HalfDone, fs
<1>3. Mounts' /\ OpenOnes'
  BY <1>1 DEF IInv, FilesOK, Mounts, OpenOnes, fs, Available
<1>4. OwnFile'
  <2> SUFFICES ASSUME NEW g \in Ffile, g \notin taken, IsOpen(g)'
               PROVE  /\ Valid(ff[g].fd)'
                      /\ stable'[handle'[ff'[g].fd].obj].name = ff'[g].name
                      /\ \A k \in Ffile \ {g} :
                            IsOpen(k)' /\ k \notin taken => ff'[k].fd # ff'[g].fd
    BY DEF OwnFile
  <2>1. IsOpen(g) /\ ff'[g].fd = ff[g].fd /\ ff[g].fd \in Handle /\ ff'[g].name = ff[g].name
    BY <1>1
  <2>2. handle[ff[g].fd] # Closed /\ stable[handle[ff[g].fd].obj].name = ff[g].name
    BY <2>1, ValidHandle DEF IInv, FilesOK, OwnFile
  <2>3. handle[ff[g].fd].obj \in ObjId /\ S!Live(handle[ff[g].fd].obj)
    BY <2>1, <2>2 DEF IInv, StoreOK, StoreTypes, InStore, Desc
  <2>4. Valid(ff[g].fd)'
    BY <2>1, <2>2, Values DEF Valid
  <2>5. \A k \in Ffile \ {g} : IsOpen(k)' /\ k \notin taken => ff'[k].fd # ff'[g].fd
    BY <1>1, <2>1 DEF IInv, FilesOK, OwnFile
  <2> QED
    BY <2>1, <2>2, <2>3, <2>4, <2>5
<1>5. UnsavedKnown'
  <2> SUFFICES ASSUME NEW o \in ObjId, file'[o] # stable'[o]
               PROVE  \E g \in Ffile : /\ IsOpen(g)' /\ ff'[g].status = "MODIFIED_UNSAVED"
                                       /\ Valid(ff[g].fd)' /\ handle'[ff'[g].fd].obj = o
    BY DEF UnsavedKnown
  <2>1. PICK g \in Ffile : /\ IsOpen(g) /\ ff'[g].status = "MODIFIED_UNSAVED"
                           /\ Valid(ff[g].fd) /\ handle[ff[g].fd].obj = o
    BY <1>1 DEF IInv, FilesOK, UnsavedKnown
  <2>2. ff'[g].fd = ff[g].fd /\ ff[g].fd \in Handle /\ handle[ff[g].fd] # Closed
    BY <1>1, <2>1, ValidHandle
  <2>3. Valid(ff[g].fd)'
    BY <2>2, Values DEF Valid
  <2> QED
    BY <1>1, <2>1, <2>2, <2>3
<1>6. NoLostDescriptor'
  <2> SUFFICES ASSUME NEW h \in Handle, handle'[h] # Closed
               PROVE  \E g \in Ffile : IsOpen(g)' /\ ff'[g].fd = h
    BY DEF NoLostDescriptor
  <2>1. PICK g \in Ffile : IsOpen(g) /\ ff[g].fd = h
    BY DEF IInv, FilesOK, NoLostDescriptor
  <2> QED
    BY <1>1, <2>1
<1> QED
  BY <1>2, <1>3, <1>4, <1>5, <1>6 DEF IInv, FilesOK

\* n_read() and flush_cache() write back what waits for the file.
LEMMA SyncedFiles ==
    ASSUME IInv, NEW f \in Ffile, IsOpen(f), Valid(ff[f].fd),
           StoreOK', todo = Nothing, UNCHANGED <<fs, ff, todo, taken, file>>,
           stable' = S!Synced(ff[f].fd),
           \A h \in Handle : /\ handle'[h] = Closed <=> handle[h] = Closed
                             /\ handle[h] # Closed => handle'[h].obj = handle[h].obj
    PROVE  IInv'
<1> DEFINE o == handle[ff[f].fd].obj
<1>1. ff[f].fd \in Handle /\ handle[ff[f].fd] # Closed
  BY ValidHandle DEF IInv, FilesOK, OpenOnes
<1>2. o \in ObjId /\ S!Live(o)
  BY <1>1 DEF IInv, StoreOK, StoreTypes, InStore, Desc
<1>3. stable' = [stable EXCEPT ![o] = file[o]]
  BY DEF S!Synced
<1> HIDE DEF o
<1>4. \A p \in ObjId : /\ S!Live(p) => stable'[p].name = stable[p].name
                       /\ file'[p] # stable'[p] => file[p] # stable[p]
  BY <1>2, <1>3 DEF IInv, StoreOK, StoreTypes, Ahead
<1> QED
  BY <1>4, Settled

LEMMA ReadFiles ==
    ASSUME IInv, NEW f \in Ffile, NRead(f) PROVE IInv' /\ Grows
<1>1. /\ todo = Nothing /\ IsOpen(f) /\ Valid(ff[f].fd)
      /\ UNCHANGED <<fs, ff, todo, taken>>
  BY DEF NRead, Ready, Called
<1>2. PICK p \in Position : S!Move(ff[f].fd, p)
  BY DEF NRead
<1>3. ff[f].fd \in Handle
  BY <1>1 DEF IInv, FilesOK, OpenOnes
<1>4. StoreOK' /\ Grows
  BY <1>1, <1>2, <1>3, ReadKeeps DEF IInv
<1>5. UNCHANGED file /\ stable' = S!Synced(ff[f].fd) /\ handle[ff[f].fd] # Closed
      /\ handle' = [handle EXCEPT ![ff[f].fd].pos = p] /\ p \in Nat
  BY <1>2, Values DEF S!Move
<1>6. \A c \in Desc, q \in Nat : LET e == [c EXCEPT !.pos = q]
                                 IN  e \in Desc /\ e.obj = c.obj
  BY DEF Desc
<1>7. \A c \in Desc : c # Closed
  BY Values
<1>8. \A h \in Handle : /\ handle'[h] = Closed <=> handle[h] = Closed
                        /\ handle[h] # Closed => handle'[h].obj = handle[h].obj
  BY <1>3, <1>5, <1>6, <1>7 DEF IInv, StoreOK, StoreTypes
<1> QED
  BY <1>1, <1>4, <1>5, <1>8, SyncedFiles

LEMMA FlushFiles ==
    ASSUME IInv, NEW f \in Ffile, FlushCache(f) PROVE IInv' /\ Grows
<1>1. /\ todo = Nothing /\ IsOpen(f) /\ Valid(ff[f].fd)
      /\ S!Flush(ff[f].fd) /\ UNCHANGED <<fs, ff, todo, taken>>
  BY DEF FlushCache, Ready, Called, IsOpen
<1>2. ff[f].fd \in Handle
  BY <1>1 DEF IInv, FilesOK, OpenOnes
<1>3. StoreOK' /\ Grows
  BY <1>1, <1>2, FlushKeeps DEF IInv
<1>4. UNCHANGED <<handle, file>> /\ stable' = S!Synced(ff[f].fd)
  BY <1>1 DEF S!Flush
<1> QED
  BY <1>1, <1>3, <1>4, SyncedFiles

LEMMA AppendFiles ==
    ASSUME IInv, NEW f \in Ffile, NEW b \in Data, NAppend(f, b) PROVE IInv' /\ Grows
<1> DEFINE fd == ff[f].fd
<1>1. todo = Nothing /\ IsOpen(f) /\ Valid(fd) /\ UNCHANGED <<fs, todo, taken>>
  BY DEF NAppend, Ready, Called
<1>2. fd \in Handle /\ handle[fd] # Closed
  BY <1>1, ValidHandle DEF IInv, FilesOK, OpenOnes
<1>3. CASE S!Write(fd, b) /\ ff' = [ff EXCEPT ![f].status = "MODIFIED_UNSAVED"]
  <2>1. StoreOK' /\ Grows
    BY <1>2, <1>3, WriteKeeps DEF IInv
  <2> DEFINE o == handle[fd].obj
  <2>2. o \in ObjId /\ S!Live(o) /\ handle[fd] \in Desc /\ handle[fd].append
    BY <1>2 DEF IInv, StoreOK, StoreTypes, InStore, Desc
  <2>3. /\ handle' = [handle EXCEPT ![fd].pos = 0]
        /\ file' = [file EXCEPT ![o].data = S!Splice(@, Len(file[o].data), b)]
    BY <1>3, <2>2 DEF S!Write, S!Written, S!Point, S!Beyond
  <2>4. PICK s \in {stable[o], file[o], file'[o]} : stable' = [stable EXCEPT ![o] = s]
    BY <1>3 DEF S!Write, S!Written, S!Reached
  <2>5. \A p \in ObjId \ {o} : stable'[p] = stable[p] /\ file'[p] = file[p]
    BY <2>3, <2>4 DEF IInv, StoreOK, StoreTypes
  <2>6. \A c \in Desc : LET e == [c EXCEPT !.pos = 0] IN e \in Desc /\ e.obj = c.obj
    BY DEF Desc
  <2>7. \A c \in Desc : c # Closed
    BY Values
  <2>8. \A h \in Handle : /\ handle'[h] = Closed <=> handle[h] = Closed
                          /\ handle[h] # Closed => handle'[h].obj = handle[h].obj
    BY <1>2, <2>3, <2>6, <2>7 DEF IInv, StoreOK, StoreTypes
  <2>9. stable[o].name = file[o].name /\ file'[o].name = file[o].name
    <3>1. file[o] \in File /\ stable[o].name = file[o].name
      BY <2>2 DEF IInv, StoreOK, StoreTypes, Ahead, S!Live
    <3>2. \A c \in File : \A d : [c EXCEPT !.data = d].name = c.name
      BY DEF File
    <3> QED
      BY <2>2, <2>3, <3>1, <3>2 DEF IInv, StoreOK, StoreTypes
  <2>10. \A p \in ObjId : S!Live(p) => stable'[p].name = stable[p].name
    BY <2>2, <2>4, <2>5, <2>9 DEF IInv, StoreOK, StoreTypes
  <2>11. ff'[f].status = "MODIFIED_UNSAVED"
    BY <1>1, <1>3 DEF IInv, FilesOK, OpenOnes, IsOpen, FfileType
  <2>12. \A p \in ObjId : file'[p] # stable'[p] =>
               \/ file[p] # stable[p]
               \/ /\ IsOpen(f) /\ ff'[f].status = "MODIFIED_UNSAVED"
                  /\ Valid(ff[f].fd) /\ handle[ff[f].fd].obj = p
    BY <1>1, <2>5, <2>11
  <2> QED
    BY <1>1, <1>3, <2>1, <2>8, <2>10, <2>12, Settled
<1>4. CASE UNCHANGED <<file, stable, handle, ff>>
  <2>1. StoreOK' /\ Grows
    BY <1>4, SameKeeps DEF IInv, StoreOK, StoreTypes, OneName, Ahead, InStore, S!Live
  <2> QED
    BY <1>1, <1>4, <2>1, Settled
<1> QED
  BY <1>3, <1>4 DEF NAppend

\* remove() closes every descriptor of the file, not only its own.
LEMMA RemoveFiles ==
    ASSUME IInv, NEW f \in Ffile, Remove(f) PROVE IInv' /\ Grows
<1> DEFINE o == handle[ff[f].fd].obj
<1>1. /\ todo = Nothing /\ IsOpen(f) /\ Valid(ff[f].fd) /\ UNCHANGED <<fs, todo>>
      /\ S!Remove(o) /\ taken' = (taken \cup Robbed(f, S!OpenOn(o))) \ {f}
      /\ ff' = [ff EXCEPT ![f].status = "REMOVED"]
  BY DEF Remove, Ready, Called
<1>2. ff[f].fd \in Handle /\ handle[ff[f].fd] # Closed
  BY <1>1, ValidHandle DEF IInv, FilesOK, OpenOnes
<1>3. o \in ObjId /\ ff[f].fd \in S!OpenOn(o)
  BY <1>2 DEF IInv, StoreOK, StoreTypes, Desc, S!OpenOn
<1> HIDE DEF o
<1>4. StoreOK' /\ Grows
  BY <1>1, <1>3, RemoveKeeps DEF IInv
<1>5. /\ \A h \in Handle : handle'[h] = IF h \in S!OpenOn(o) THEN Closed ELSE handle[h]
      /\ \A p \in ObjId : /\ p # o => stable'[p] = stable[p] /\ file'[p] = file[p]
                          /\ file'[p] # stable'[p] => p # o
  BY <1>1, <1>3 DEF S!Remove, S!Without, IInv, StoreOK, StoreTypes
<1>6. /\ ff' \in [Ffile -> FfileType \cup {Absent}] /\ ~IsOpen(f)'
      /\ \A g \in Ffile \ {f} : ff'[g] = ff[g]
  <2>1. \A r \in FfileType : LET s == [r EXCEPT !.status = "REMOVED"]
                             IN  s \in FfileType /\ s.status = "REMOVED"
    BY DEF FfileType
  <2>2. ff[f] \in FfileType
    BY <1>1 DEF IInv, FilesOK, OpenOnes, IsOpen
  <2> QED
    BY <1>1, <2>1, <2>2 DEF IInv, FilesOK, OpenOnes, IsOpen
<1>7. \A g \in Ffile : g \notin taken' /\ IsOpen(g) /\ g # f =>
          g \notin taken /\ ff[g].fd \notin S!OpenOn(o)
  BY <1>1 DEF Robbed
<1>8. TypeOK' /\ Mounts' /\ OpenOnes' /\ HalfDone'
  <2>1. taken' \subseteq Ffile
    BY <1>1 DEF Robbed, IInv, FilesOK, TypeOK
  <2>2. TypeOK' /\ Mounts'
    BY <1>1, <1>5, <1>6, <2>1 DEF IInv, FilesOK, TypeOK, Mounts, fs, Available
  <2>3. OpenOnes' /\ HalfDone'
    BY <1>1, <1>6 DEF IInv, FilesOK, OpenOnes, HalfDone, IsOpen
  <2> QED
    BY <2>2, <2>3
<1>9. OwnFile'
  <2> SUFFICES ASSUME NEW g \in Ffile, g \notin taken', IsOpen(g)'
               PROVE  /\ Valid(ff[g].fd)'
                      /\ stable'[handle'[ff'[g].fd].obj].name = ff'[g].name
                      /\ \A k \in Ffile \ {g} :
                            IsOpen(k)' /\ k \notin taken' => ff'[k].fd # ff'[g].fd
    BY DEF OwnFile
  <2>1. g # f /\ IsOpen(g) /\ ff'[g] = ff[g] /\ ff[g].fd \in Handle
    <3>1. g # f
      BY <1>6
    <3> QED
      BY <3>1, <1>6 DEF IsOpen, IInv, FilesOK, OpenOnes
  <2>2. g \notin taken /\ ff[g].fd \notin S!OpenOn(o)
    BY <1>7, <2>1
  <2>3. handle[ff[g].fd] # Closed /\ stable[handle[ff[g].fd].obj].name = ff[g].name
    BY <1>1, <2>1, <2>2, ValidHandle DEF IInv, FilesOK, OwnFile
  <2>4. handle[ff[g].fd].obj \in ObjId \ {o}
    BY <2>1, <2>2, <2>3 DEF IInv, StoreOK, StoreTypes, Desc, S!OpenOn
  <2>5. handle'[ff[g].fd] = handle[ff[g].fd]
    BY <1>5, <2>1, <2>2
  <2>6. Valid(ff[g].fd)'
    BY <2>1, <2>3, <2>5, Values DEF Valid
  <2>7. ASSUME NEW k \in Ffile \ {g}, IsOpen(k)', k \notin taken'
        PROVE  ff'[k].fd # ff'[g].fd
    <3>1. k # f
      BY <2>7, <1>6
    <3>2. IsOpen(k) /\ ff'[k] = ff[k]
      BY <2>7, <3>1, <1>6 DEF IsOpen
    <3>3. k \notin taken
      BY <2>7, <3>1, <3>2, <1>7
    <3> QED
      BY <1>1, <2>1, <2>2, <3>2, <3>3 DEF IInv, FilesOK, OwnFile
  <2> QED
    BY <1>5, <2>1, <2>3, <2>4, <2>5, <2>6, <2>7
<1>10. UnsavedKnown'
  <2> SUFFICES ASSUME NEW p \in ObjId, file'[p] # stable'[p]
               PROVE  \E g \in Ffile : /\ IsOpen(g)' /\ ff'[g].status = "MODIFIED_UNSAVED"
                                       /\ Valid(ff[g].fd)' /\ handle'[ff'[g].fd].obj = p
    BY DEF UnsavedKnown
  <2>1. p # o /\ file[p] # stable[p]
    BY <1>5
  <2>2. PICK g \in Ffile : /\ IsOpen(g) /\ ff[g].status = "MODIFIED_UNSAVED"
                           /\ Valid(ff[g].fd) /\ handle[ff[g].fd].obj = p
    BY <2>1 DEF IInv, FilesOK, UnsavedKnown
  <2>3. ff[g].fd \in Handle /\ handle[ff[g].fd] # Closed /\ ff[g].fd \notin S!OpenOn(o)
    BY <2>1, <2>2, ValidHandle DEF IInv, FilesOK, OpenOnes, S!OpenOn
  <2>4. g # f
    BY <1>3, <2>3
  <2> QED
    BY <1>5, <1>6, <2>2, <2>3, <2>4 DEF Valid, IsOpen
<1>11. NoLostDescriptor'
  <2> SUFFICES ASSUME NEW h \in Handle, handle'[h] # Closed
               PROVE  \E g \in Ffile : IsOpen(g)' /\ ff'[g].fd = h
    BY DEF NoLostDescriptor
  <2>1. handle[h] # Closed /\ h \notin S!OpenOn(o)
    BY <1>5
  <2>2. PICK g \in Ffile : IsOpen(g) /\ ff[g].fd = h
    BY <2>1 DEF IInv, FilesOK, NoLostDescriptor
  <2>3. g # f
    BY <1>3, <2>1, <2>2
  <2> QED
    BY <2>2, <2>3, <1>6 DEF IsOpen
<1> QED
  BY <1>4, <1>8, <1>9, <1>10, <1>11 DEF IInv, FilesOK

\* On a file system that is not available no descriptor is open.
LEMMA NoneOpen ==
    ASSUME IInv, NEW f \in Ffile, IsOpen(f), todo = Nothing, ~Ready(f)
    PROVE  \A h \in Handle : handle[h] = Closed
BY DEF IInv, FilesOK, OpenOnes, Mounts, Ready, Called, IsOpen

LEMMA RefusedFiles ==
    ASSUME IInv, NEW f \in Ffile, Refused(f) PROVE IInv' /\ Grows
<1>1. /\ todo = Nothing /\ ff[f] # Absent /\ ~Ready(f)
      /\ ff' = [ff EXCEPT ![f].status = "UNAVAILABLE"] /\ taken' = taken \ {f}
      /\ UNCHANGED <<file, stable, handle, fs, todo>>
  BY DEF Refused, Called
<1> DEFINE v == [ff[f] EXCEPT !.status = "UNAVAILABLE"]
<1>2. ff[f] \in FfileType
  BY <1>1 DEF IInv, FilesOK, OpenOnes
<1>3. v \in FfileType /\ v.status = "UNAVAILABLE"
  BY <1>2 DEF FfileType
<1>4. ff' = [ff EXCEPT ![f] = v]
  BY <1>1
<1> HIDE DEF v
<1>5. IsOpen(f) => \A h \in Handle : handle[h] = Closed
  BY <1>1, NoneOpen
<1>6. IInv'
  BY <1>1, <1>3, <1>4, <1>5, OneLess
<1> QED
  BY <1>1, <1>6, SameKeeps DEF IInv

LEMMA ConstructFiles ==
    ASSUME IInv, NEW f \in Ffile, Construct(f) PROVE IInv' /\ Grows
<1> DEFINE v == [fs |-> Available, name |-> NoName, fd |-> NoFd, status |-> "UNAVAILABLE"]
<1>1. /\ todo = Nothing /\ ff[f] = Absent /\ ff' = [ff EXCEPT ![f] = v]
      /\ UNCHANGED <<file, stable, handle, fs, todo, taken>>
  BY DEF Construct
<1>2. v \in FfileType /\ v.status = "UNAVAILABLE"
  BY DEF FfileType, Available
<1> HIDE DEF v
<1>3. ~IsOpen(f)
  BY <1>1 DEF IsOpen
<1>4. IInv'
  BY <1>1, <1>2, <1>3, OneLess
<1> QED
  BY <1>1, <1>4, SameKeeps DEF IInv

LEMMA ConstructNamedFiles ==
    ASSUME IInv, NEW f \in Ffile, NEW n \in Name, ConstructNamed(f, n)
    PROVE  IInv' /\ Grows
<1>1. todo = Nothing /\ ff[f] = Absent /\ UNCHANGED <<fs, todo, taken>>
  BY DEF ConstructNamed
<1>2. ~IsOpen(f)
  BY <1>1 DEF IsOpen
<1>3. CASE Available
  BY <1>1, <1>2, <1>3, AfterOpen DEF ConstructNamed
<1>4. CASE ~Available
  <2> DEFINE v == [fs |-> FALSE, name |-> n, fd |-> NoFd, status |-> "UNAVAILABLE"]
  <2>1. ff' = [ff EXCEPT ![f] = v] /\ UNCHANGED <<file, stable, handle>>
    BY <1>4 DEF ConstructNamed
  <2>2. v \in FfileType /\ v.status = "UNAVAILABLE"
    BY DEF FfileType
  <2> HIDE DEF v
  <2>3. IInv'
    BY <1>1, <1>2, <2>1, <2>2, OneLess
  <2> QED
    BY <2>1, <2>3, SameKeeps DEF IInv
<1> QED
  BY <1>3, <1>4

LEMMA DestroyFiles ==
    ASSUME IInv, NEW f \in Ffile, Destroy(f), "close" \notin Faults
    PROVE  IInv' /\ Grows
<1>1. /\ todo = Nothing /\ ff[f] # Absent /\ ff' = [ff EXCEPT ![f] = Absent]
      /\ UNCHANGED <<fs, todo>>
  BY DEF Destroy, Called
<1>2. CASE Ready(f) /\ IsOpen(f)
  BY <1>1, <1>2, AfterClose DEF Destroy
<1>3. CASE ~(Ready(f) /\ IsOpen(f))
  <2>1. taken' = taken \ {f} /\ UNCHANGED <<file, stable, handle>>
    BY <1>3 DEF Destroy
  <2>2. IsOpen(f) => \A h \in Handle : handle[h] = Closed
    BY <1>1, <1>3, NoneOpen
  <2>3. IInv'
    BY <1>1, <2>1, <2>2, OneLess
  <2> QED
    BY <2>1, <2>3, SameKeeps DEF IInv
<1> QED
  BY <1>2, <1>3

LEMMA OpenFiles ==
    ASSUME IInv, NEW f \in Ffile, NEW n \in Name, OpenFile(f, n), "close" \notin Faults
    PROVE  IInv' /\ Grows
<1>1. todo = Nothing /\ UNCHANGED fs
  BY DEF OpenFile, Ready, Called
<1>2. CASE IsOpen(f)
  <2>1. /\ ClosedBy(f) /\ UNCHANGED ff
        /\ todo' = [f |-> f, name |-> n, trunc |-> FALSE]
    BY <1>2 DEF OpenFile
  <2>2. todo' \in [f : {f}, name : Name, trunc : BOOLEAN]
    BY <2>1
  <2> QED
    BY <1>1, <1>2, <2>1, <2>2, AfterClose
<1>3. CASE ~IsOpen(f)
  <2>1. OpenedAs(f, n, FALSE) /\ UNCHANGED <<todo, taken>>
    BY <1>3 DEF OpenFile
  <2> QED
    BY <1>1, <1>3, <2>1, AfterOpen
<1> QED
  BY <1>2, <1>3

LEMMA ClearFiles ==
    ASSUME IInv, NEW f \in Ffile, Clear(f), "close" \notin Faults
    PROVE  IInv' /\ Grows
<1>1. /\ todo = Nothing /\ IsOpen(f) /\ UNCHANGED <<fs, ff>> /\ ClosedBy(f)
      /\ todo' = [f |-> f, name |-> ff[f].name, trunc |-> TRUE]
  BY DEF Clear, Ready, Called
<1>2. ff[f].name \in Name
  BY <1>1 DEF IInv, FilesOK, OpenOnes
<1>3. todo' \in [f : {f}, name : Name, trunc : BOOLEAN]
  BY <1>1, <1>2
<1> QED
  BY <1>1, <1>3, AfterClose

LEMMA ReopenFiles ==
    ASSUME IInv, Reopen PROVE IInv' /\ Grows
<1>1. /\ todo # Nothing /\ OpenedAs(todo.f, todo.name, todo.trunc)
      /\ todo' = Nothing /\ UNCHANGED <<fs, taken>>
  BY DEF Reopen
<1>2. /\ todo.f \in Ffile /\ todo.name \in Name /\ todo.trunc \in BOOLEAN
      /\ ~Valid(ff[todo.f].fd)
  BY <1>1 DEF IInv, FilesOK, HalfDone
<1> QED
  BY <1>1, <1>2, AfterOpen

----------------------------------------------------------------------------
(* The Flashfs.                                                            *)

LEMMA FormatFailsKeeps ==
    ASSUME StoreOK, FormatFails(file) \/ FormatFails(stable), formatted \in BOOLEAN
    PROVE  /\ StoreOK' /\ Grows /\ S!AllClosed /\ file' = stable'
           /\ formatted' \in BOOLEAN /\ mounted' = FALSE /\ status' = "UNAVAILABLE"
<1>1. CASE Wiped /\ formatted' = FALSE
  BY <1>1, WipedKeeps DEF Wiped, FormatFails
<1>2. CASE ~Wiped
  BY <1>2, RestartKeeps DEF FormatFails
<1> QED
  BY <1>1, <1>2, WipedKeeps, RestartKeeps DEF FormatFails, Wiped

\* init(), format() and unmount().
LEMMA FsStep ==
    ASSUME StoreOK, formatted \in BOOLEAN, InitFs \/ Format \/ Unmount
    PROVE  /\ StoreOK' /\ Grows /\ S!AllClosed /\ file' = stable'
           /\ todo = Nothing /\ AllTaken /\ UNCHANGED <<ff, todo>>
           /\ formatted' \in BOOLEAN /\ mounted' \in BOOLEAN
           /\ mounted' => status' = "AVAILABLE"
           /\ status' \in {"AVAILABLE", "UNAVAILABLE", "UNMOUNTED"}
<1> DEFINE Closing == /\ StoreOK' /\ Grows /\ S!AllClosed /\ file' = stable'
                      /\ formatted' \in BOOLEAN /\ mounted' \in BOOLEAN
                      /\ mounted' => status' = "AVAILABLE"
                      /\ status' \in {"AVAILABLE", "UNAVAILABLE", "UNMOUNTED"}
<1>1. todo = Nothing /\ AllTaken /\ UNCHANGED <<ff, todo>>
  BY DEF InitFs, Format, Unmount
<1>2. ASSUME Mounted PROVE Closing
  BY <1>2, RestartKeeps DEF Mounted, S!PowerLoss
<1>3. ASSUME Wiped, formatted' \in BOOLEAN, mounted' \in BOOLEAN,
             mounted' => status' = "AVAILABLE",
             status' \in {"AVAILABLE", "UNAVAILABLE", "UNMOUNTED"}
      PROVE  Closing
  BY <1>3, WipedKeeps DEF Wiped
<1>4. ASSUME FormatFails(file) \/ FormatFails(stable) PROVE Closing
  BY <1>4, FormatFailsKeeps
<1>5. ASSUME Unmount PROVE Closing
  BY <1>5, RestartKeeps DEF Unmount, S!Unmount
<1>6. Closing
  <2> HIDE DEF Closing
  <2>1. CASE InitFs
    BY <2>1, <1>2, <1>3, <1>4 DEF InitFs, FormattedAtInit
  <2>2. CASE Format
    BY <2>2, <1>3, <1>4 DEF Format
  <2> QED
    BY <2>1, <2>2, <1>5
<1> QED
  BY <1>1, <1>6

LEMMA FsFiles ==
    ASSUME IInv, InitFs \/ Format \/ Unmount PROVE IInv' /\ Grows
<1>1. StoreOK /\ formatted \in BOOLEAN
  BY DEF IInv, FilesOK, TypeOK
<1>2. FilesOK'
  BY <1>1, FsStep, AllClosedFiles DEF Available
<1> QED
  BY <1>1, <1>2, FsStep DEF IInv

LEMMA CheckFiles ==
    ASSUME IInv, Check PROVE IInv' /\ Grows
<1>1. /\ UNCHANGED <<file, stable, handle, formatted, mounted, ff, todo, taken>>
      /\ status' \in {"AVAILABLE", "ERRORS"}
  BY DEF Check
<1>2. StoreOK' /\ Grows
  BY <1>1, SameKeeps DEF IInv, StoreOK, StoreTypes, OneName, Ahead, InStore, S!Live
<1>3. TypeOK' /\ Mounts' /\ OpenOnes' /\ HalfDone'
  BY <1>1 DEF IInv, FilesOK, TypeOK, Mounts, OpenOnes, HalfDone, Available, IsOpen, Valid
<1>4. OwnFile' /\ UnsavedKnown' /\ NoLostDescriptor'
  BY <1>1 DEF IInv, FilesOK, OwnFile, UnsavedKnown, NoLostDescriptor, IsOpen, Valid
<1> QED
  BY <1>2, <1>3, <1>4 DEF IInv, FilesOK

LEMMA PowerLossFiles ==
    ASSUME IInv, PowerLoss PROVE IInv' /\ Grows
<1>1. /\ S!AllClosed /\ UNCHANGED <<stable, formatted>> /\ file' = stable'
      /\ mounted' = FALSE /\ status' = "NOT_INIT"
      /\ ff' = [f \in Ffile |-> Absent] /\ todo' = Nothing /\ taken' = {}
  BY DEF PowerLoss, S!PowerLoss
<1>2. StoreOK' /\ Grows
  BY <1>1, RestartKeeps DEF IInv
<1>3. \A f \in Ffile : ~IsOpen(f)'
  BY <1>1 DEF IsOpen
<1>4. TypeOK' /\ Mounts' /\ OpenOnes' /\ HalfDone'
  BY <1>1, <1>3 DEF IInv, FilesOK, TypeOK, Mounts, OpenOnes, HalfDone, S!AllClosed
<1>5. OwnFile' /\ UnsavedKnown' /\ NoLostDescriptor'
  BY <1>1, <1>3 DEF OwnFile, UnsavedKnown, NoLostDescriptor, S!AllClosed
<1> QED
  BY <1>2, <1>4, <1>5 DEF IInv, FilesOK

LEMMA NextInv ==
    ASSUME IInv, [Next]_vars, "close" \notin Faults PROVE IInv' /\ Grows
<1>1. CASE UNCHANGED vars
  <2>1. StoreOK' /\ Grows
    BY <1>1, SameKeeps
       DEF vars, IInv, StoreOK, StoreTypes, OneName, Ahead, InStore, S!Live
  <2>2. TypeOK' /\ Mounts' /\ OpenOnes' /\ HalfDone'
    BY <1>1 DEF vars, IInv, FilesOK, TypeOK, Mounts, OpenOnes, HalfDone, Available,
                IsOpen, Valid
  <2>3. OwnFile' /\ UnsavedKnown' /\ NoLostDescriptor'
    BY <1>1 DEF vars, IInv, FilesOK, OwnFile, UnsavedKnown, NoLostDescriptor, IsOpen, Valid
  <2> QED
    BY <2>1, <2>2, <2>3 DEF IInv, FilesOK
<1>2. CASE InitFs \/ Format \/ Unmount \/ Check \/ Reopen \/ PowerLoss
  BY <1>2, FsFiles, CheckFiles, ReopenFiles, PowerLossFiles
<1>3. ASSUME NEW f \in Ffile,
             \/ Construct(f) \/ Destroy(f) \/ Refused(f) \/ Clear(f)
             \/ NRead(f) \/ Remove(f) \/ FlushCache(f)
      PROVE  IInv' /\ Grows
  BY <1>3, ConstructFiles, DestroyFiles, RefusedFiles, ClearFiles, ReadFiles,
     RemoveFiles, FlushFiles
<1>4. ASSUME NEW f \in Ffile, NEW n \in Name, ConstructNamed(f, n) \/ OpenFile(f, n)
      PROVE  IInv' /\ Grows
  BY <1>4, ConstructNamedFiles, OpenFiles
<1>5. ASSUME NEW f \in Ffile, NEW b \in Data, NAppend(f, b)
      PROVE  IInv' /\ Grows
  BY <1>5, AppendFiles
<1> QED
  BY <1>1, <1>2, <1>3, <1>4, <1>5 DEF Next

----------------------------------------------------------------------------
(* The types and the store, whatever fails.                                *)

TodoType == [f : Ffile, name : Name, trunc : BOOLEAN] \cup {Nothing}
Shape    == TypeOK /\ OpenOnes /\ todo \in TodoType

LEMMA ShapeAfter ==
    ASSUME Shape, UNCHANGED fs, todo' \in TodoType, taken' \subseteq Ffile,
           \/ UNCHANGED ff
           \/ \E f \in Ffile, v \in FfileType \cup {Absent} :
                 /\ ff' = [ff EXCEPT ![f] = v]
                 /\ v # Absent /\ v.status \in {"OPEN", "MODIFIED_UNSAVED"} =>
                       v.fs /\ v.name \in Name /\ v.fd \in Handle
    PROVE  Shape'
<1>1. OpenOnes'
  BY DEF Shape, OpenOnes, IsOpen
<1>2. TypeOK'
  BY <1>1 DEF Shape, TypeOK, OpenOnes, fs
<1> QED
  BY <1>1, <1>2 DEF Shape

\* An Ffile with another status.
LEMMA StatusType ==
    ASSUME NEW r \in FfileType,
           NEW st \in {"UNAVAILABLE", "OPEN", "MODIFIED_UNSAVED", "REMOVED"}
    PROVE  LET s == [r EXCEPT !.status = st]
           IN  s \in FfileType /\ s.status = st /\ s.fs = r.fs /\ s.name = r.name /\ s.fd = r.fd
BY DEF FfileType

LEMMA UnchangedStore ==
    ASSUME StoreOK, UNCHANGED <<file, stable, handle>> PROVE StoreOK' /\ Grows
BY SameKeeps DEF StoreOK, StoreTypes, OneName, Ahead, InStore, S!Live

LEMMA ClosedByStore ==
    ASSUME StoreOK, Shape, NEW f \in Ffile, IsOpen(f), ClosedBy(f)
    PROVE  StoreOK' /\ Grows /\ taken' \subseteq Ffile
<1>1. ff[f].fd \in Handle /\ taken \subseteq Ffile
  BY DEF Shape, OpenOnes, TypeOK
<1>2. CASE UNCHANGED <<file, stable, handle>> /\ taken' = taken \ {f}
  BY <1>1, <1>2, UnchangedStore
<1>3. CASE S!Close(ff[f].fd) /\ taken' = (taken \cup Robbed(f, {ff[f].fd})) \ {f}
  BY <1>1, <1>3, CloseKeeps DEF Robbed
<1> QED
  BY <1>2, <1>3 DEF ClosedBy

LEMMA OpenedAsStore ==
    ASSUME StoreOK, Shape, NEW f \in Ffile, NEW n \in Name, NEW trunc \in BOOLEAN,
           OpenedAs(f, n, trunc), UNCHANGED <<fs, taken>>, todo' \in TodoType
    PROVE  StoreOK' /\ Shape' /\ Grows
<1>0. taken' \subseteq Ffile
  BY DEF Shape, TypeOK
<1>1. ASSUME NEW h \in Handle, Opens(h, n, trunc),
             ff' = [ff EXCEPT ![f] = [fs |-> TRUE, name |-> n, fd |-> h,
                      status |-> IF trunc THEN "MODIFIED_UNSAVED" ELSE "OPEN"]]
      PROVE  StoreOK' /\ Shape' /\ Grows
  <2> DEFINE v == [fs |-> TRUE, name |-> n, fd |-> h,
                   status |-> IF trunc THEN "MODIFIED_UNSAVED" ELSE "OPEN"]
  <2>1. \A st \in {"OPEN", "MODIFIED_UNSAVED"} :
            [fs |-> TRUE, name |-> n, fd |-> h, status |-> st] \in FfileType
    BY DEF FfileType
  <2>2. v \in FfileType /\ v.fs /\ v.name \in Name /\ v.fd \in Handle
    BY <2>1
  <2>3. ff' = [ff EXCEPT ![f] = v]
    BY <1>1
  <2> HIDE DEF v
  <2>4. Shape'
    BY <1>0, <2>2, <2>3, ShapeAfter
  <2> QED
    BY <1>1, <2>4, OpensEffect
<1>2. ASSUME OpenFails(n),
             ff' = [ff EXCEPT ![f] = [fs |-> TRUE, name |-> n, fd |-> NoFd,
                                      status |-> "UNAVAILABLE"]]
      PROVE  StoreOK' /\ Shape' /\ Grows
  <2> DEFINE v == [fs |-> TRUE, name |-> n, fd |-> NoFd, status |-> "UNAVAILABLE"]
  <2>1. v \in FfileType /\ v.status = "UNAVAILABLE"
    BY DEF FfileType
  <2>2. ff' = [ff EXCEPT ![f] = v]
    BY <1>2
  <2> HIDE DEF v
  <2>3. Shape'
    BY <1>0, <2>1, <2>2, ShapeAfter
  <2> QED
    BY <1>2, <2>3, UnchangedStore DEF OpenFails
<1> QED
  BY <1>1, <1>2 DEF OpenedAs

LEMMA NextShape ==
    ASSUME StoreOK, Shape, [Next]_vars PROVE StoreOK' /\ Shape' /\ Grows
<1>0. Nothing \in TodoType /\ taken \subseteq Ffile /\ todo \in TodoType
  BY DEF TodoType, Shape, TypeOK
<1>1. CASE UNCHANGED vars
  <2>1. StoreOK' /\ Grows
    BY <1>1, UnchangedStore DEF vars
  <2>2. Shape'
    BY <1>0, <1>1, ShapeAfter DEF vars, fs
  <2> QED
    BY <2>1, <2>2
<1>2. CASE InitFs \/ Format \/ Unmount
  <2>1. formatted \in BOOLEAN
    BY DEF Shape, TypeOK
  <2>2. TypeOK'
    BY <1>2, <2>1, FsStep DEF Shape, TypeOK, AllTaken
  <2>3. OpenOnes' /\ todo' \in TodoType
    BY <1>2, <2>1, FsStep DEF Shape, OpenOnes, IsOpen
  <2> QED
    BY <1>2, <2>1, <2>2, <2>3, FsStep DEF Shape
<1>3. CASE Check
  <2>1. StoreOK' /\ Grows
    BY <1>3, UnchangedStore DEF Check
  <2>2. Shape'
    BY <1>3 DEF Check, Shape, TypeOK, OpenOnes, IsOpen
  <2> QED
    BY <2>1, <2>2
<1>4. CASE Reopen
  <2>1. /\ todo # Nothing /\ OpenedAs(todo.f, todo.name, todo.trunc)
        /\ todo' = Nothing /\ UNCHANGED <<fs, taken>>
    BY <1>4 DEF Reopen
  <2>2. todo.f \in Ffile /\ todo.name \in Name /\ todo.trunc \in BOOLEAN
    BY <1>0, <2>1 DEF TodoType
  <2> QED
    BY <1>0, <2>1, <2>2, OpenedAsStore
<1>5. CASE PowerLoss
  <2>1. StoreOK' /\ Grows
    BY <1>5, RestartKeeps DEF PowerLoss, S!PowerLoss
  <2>2. Shape'
    BY <1>0, <1>5 DEF PowerLoss, Shape, TypeOK, OpenOnes, IsOpen
  <2> QED
    BY <2>1, <2>2
<1>6. ASSUME NEW f \in Ffile, Construct(f) PROVE StoreOK' /\ Shape' /\ Grows
  <2> DEFINE v == [fs |-> Available, name |-> NoName, fd |-> NoFd, status |-> "UNAVAILABLE"]
  <2>1. v \in FfileType /\ v.status = "UNAVAILABLE"
    BY DEF FfileType, Available
  <2>2. ff' = [ff EXCEPT ![f] = v] /\ UNCHANGED <<file, stable, handle, fs, todo, taken>>
    BY <1>6 DEF Construct
  <2> HIDE DEF v
  <2>3. Shape'
    BY <1>0, <2>1, <2>2, ShapeAfter
  <2> QED
    BY <2>2, <2>3, UnchangedStore
<1>7. ASSUME NEW f \in Ffile, NEW n \in Name, ConstructNamed(f, n)
      PROVE  StoreOK' /\ Shape' /\ Grows
  <2>1. UNCHANGED <<fs, todo, taken>>
    BY <1>7 DEF ConstructNamed
  <2>2. CASE Available
    BY <1>0, <1>7, <2>1, <2>2, OpenedAsStore DEF ConstructNamed
  <2>3. CASE ~Available
    <3> DEFINE v == [fs |-> FALSE, name |-> n, fd |-> NoFd, status |-> "UNAVAILABLE"]
    <3>1. v \in FfileType /\ v.status = "UNAVAILABLE"
      BY DEF FfileType
    <3>2. ff' = [ff EXCEPT ![f] = v] /\ UNCHANGED <<file, stable, handle>>
      BY <1>7, <2>3 DEF ConstructNamed
    <3> HIDE DEF v
    <3>3. Shape'
      BY <1>0, <2>1, <3>1, <3>2, ShapeAfter
    <3> QED
      BY <3>2, <3>3, UnchangedStore
  <2> QED
    BY <2>2, <2>3
<1>8. ASSUME NEW f \in Ffile, Destroy(f) PROVE StoreOK' /\ Shape' /\ Grows
  <2>1. ff' = [ff EXCEPT ![f] = Absent] /\ UNCHANGED <<fs, todo>>
    BY <1>8 DEF Destroy
  <2>2. StoreOK' /\ Grows /\ taken' \subseteq Ffile
    BY <1>0, <1>8, ClosedByStore, UnchangedStore DEF Destroy
  <2>3. Shape'
    BY <1>0, <2>1, <2>2, ShapeAfter
  <2> QED
    BY <2>2, <2>3
<1>9. ASSUME NEW f \in Ffile, Refused(f) PROVE StoreOK' /\ Shape' /\ Grows
  <2> DEFINE v == [ff[f] EXCEPT !.status = "UNAVAILABLE"]
  <2>1. ff[f] \in FfileType /\ UNCHANGED <<file, stable, handle, fs, todo>>
        /\ ff' = [ff EXCEPT ![f] = v] /\ taken' = taken \ {f}
    BY <1>9 DEF Refused, Called, Shape, OpenOnes
  <2>2. v \in FfileType /\ v.status = "UNAVAILABLE"
    BY <2>1, StatusType
  <2> HIDE DEF v
  <2>3. Shape'
    BY <1>0, <2>1, <2>2, ShapeAfter
  <2> QED
    BY <2>1, <2>3, UnchangedStore
<1>10. ASSUME NEW f \in Ffile, NEW n \in Name, OpenFile(f, n)
       PROVE  StoreOK' /\ Shape' /\ Grows
  <2>1. CASE IsOpen(f)
    <3>1. ClosedBy(f) /\ UNCHANGED ff /\ UNCHANGED fs
          /\ todo' = [f |-> f, name |-> n, trunc |-> FALSE]
      BY <1>10, <2>1 DEF OpenFile
    <3>2. todo' \in TodoType
      BY <3>1 DEF TodoType
    <3> QED
      BY <2>1, <3>1, <3>2, ClosedByStore, ShapeAfter
  <2>2. CASE ~IsOpen(f)
    BY <1>0, <1>10, <2>2, OpenedAsStore DEF OpenFile
  <2> QED
    BY <2>1, <2>2
<1>11. ASSUME NEW f \in Ffile, Clear(f) PROVE StoreOK' /\ Shape' /\ Grows
  <2>1. IsOpen(f) /\ ClosedBy(f) /\ UNCHANGED ff /\ UNCHANGED fs
        /\ todo' = [f |-> f, name |-> ff[f].name, trunc |-> TRUE]
    BY <1>11 DEF Clear
  <2>2. ff[f].name \in Name
    BY <2>1 DEF Shape, OpenOnes
  <2>3. todo' \in TodoType
    BY <2>1, <2>2 DEF TodoType
  <2> QED
    BY <2>1, <2>3, ClosedByStore, ShapeAfter
<1>12. ASSUME NEW f \in Ffile, NRead(f) \/ FlushCache(f)
       PROVE  StoreOK' /\ Shape' /\ Grows
  <2>1. IsOpen(f) /\ UNCHANGED <<fs, ff, todo, taken>>
    BY <1>12 DEF NRead, FlushCache, IsOpen, Ready, Called
  <2>2. ff[f].fd \in Handle
    BY <2>1 DEF Shape, OpenOnes
  <2>3. StoreOK' /\ Grows
    BY <1>12, <2>2, ReadKeeps, FlushKeeps DEF NRead, FlushCache
  <2> QED
    BY <1>0, <2>1, <2>3, ShapeAfter
<1>13. ASSUME NEW f \in Ffile, NEW b \in Data, NAppend(f, b)
       PROVE  StoreOK' /\ Shape' /\ Grows
  <2> DEFINE v == [ff[f] EXCEPT !.status = "MODIFIED_UNSAVED"]
  <2>1. IsOpen(f) /\ UNCHANGED <<fs, todo, taken>>
        /\ (UNCHANGED ff \/ ff' = [ff EXCEPT ![f] = v])
    BY <1>13 DEF NAppend
  <2>2. /\ ff[f] \in FfileType /\ ff[f].fd \in Handle
        /\ ff[f].fs = TRUE /\ ff[f].name \in Name
    BY <2>1 DEF Shape, OpenOnes, IsOpen, FfileType
  <2>3. v \in FfileType /\ v.fs = TRUE /\ v.name \in Name /\ v.fd \in Handle
    BY <2>2, StatusType
  <2> HIDE DEF v
  <2>4. StoreOK' /\ Grows
    BY <1>13, <2>2, WriteKeeps, UnchangedStore DEF NAppend
  <2> QED
    BY <1>0, <2>1, <2>3, <2>4, ShapeAfter
<1>14. ASSUME NEW f \in Ffile, Remove(f) PROVE StoreOK' /\ Shape' /\ Grows
  <2> DEFINE v == [ff[f] EXCEPT !.status = "REMOVED"]
             o == handle[ff[f].fd].obj
  <2>1. /\ IsOpen(f) /\ UNCHANGED <<fs, todo>> /\ S!Remove(o) /\ Valid(ff[f].fd)
        /\ ff' = [ff EXCEPT ![f] = v] /\ taken' = (taken \cup Robbed(f, S!OpenOn(o))) \ {f}
    BY <1>14 DEF Remove
  <2>2. ff[f] \in FfileType /\ ff[f].fd \in Handle
    BY <2>1 DEF Shape, OpenOnes, IsOpen
  <2>3. v \in FfileType /\ v.status = "REMOVED"
    BY <2>2, StatusType
  <2>4. o \in ObjId
    BY <2>1, <2>2, ValidHandle DEF StoreOK, StoreTypes, Desc
  <2>5. taken' \subseteq Ffile
    BY <1>0, <2>1 DEF Robbed
  <2> HIDE DEF v, o
  <2>6. Shape'
    BY <1>0, <2>1, <2>3, <2>5, ShapeAfter
  <2> QED
    BY <2>1, <2>4, <2>6, RemoveKeeps
<1> QED
  BY <1>1, <1>2, <1>3, <1>4, <1>5, <1>6, <1>7, <1>8, <1>9, <1>10, <1>11, <1>12, <1>13, <1>14
     DEF Next

----------------------------------------------------------------------------
(* The theorems.                                                           *)

LEMMA Invariant == ASSUME "close" \notin Faults PROVE Spec => []IInv
<1>1. IInv /\ [Next]_vars => IInv'
  BY NextInv
<1> QED
  BY <1>1, InitInv, PTL DEF Spec

LEMMA ShapeInvariant == Spec => [](StoreOK /\ Shape)
<1>1. Init => StoreOK /\ Shape
  BY InitInv DEF IInv, FilesOK, HalfDone, Shape, TodoType
<1>2. StoreOK /\ Shape /\ [Next]_vars => StoreOK' /\ Shape'
  BY NextShape
<1> QED
  BY <1>1, <1>2, PTL DEF Spec

\* Every variable of the wrapper keeps its type, whatever fails.
THEOREM WrapperTypes == Spec => []TypeOK
<1>1. Shape => TypeOK
  BY DEF Shape
<1> QED
  BY <1>1, ShapeInvariant, PTL

\* An Ffile that calls itself open has a descriptor of its own, on the file
\* of its name, whatever other Ffiles, init(), format() and failed calls did,
\* unless one of them closed it.
THEOREM OwnFiles == ASSUME "close" \notin Faults PROVE Spec => []OwnFile
<1>1. IInv => OwnFile
  BY DEF IInv, FilesOK
<1> QED
  BY <1>1, Invariant, PTL

\* Bytes that only the cache has belong to an Ffile that says so.
THEOREM UnsavedAnsweredFor == ASSUME "close" \notin Faults PROVE Spec => []UnsavedKnown
<1>1. IInv => UnsavedKnown
  BY DEF IInv, FilesOK
<1> QED
  BY <1>1, Invariant, PTL

\* No descriptor is in use that no open Ffile has.
THEOREM DescriptorsKept == ASSUME "close" \notin Faults PROVE Spec => []NoLostDescriptor
<1>1. IInv => NoLostDescriptor
  BY DEF IInv, FilesOK
<1> QED
  BY <1>1, Invariant, PTL

\* The beginning of a longer sequence.
LEMMA Beginning ==
    ASSUME NEW c \in Seq(Byte), NEW d \in Seq(Byte), Extends(d, c)
    PROVE  Len(d) >= Len(c) /\ SubSeq(d, 1, Len(c)) = c
<1>1. Len(c) \in Nat /\ Len(d) \in Nat /\ Len(c) <= Len(d)
  BY DEF Extends
<1>2. Len(SubSeq(d, 1, Len(c))) = Len(c)
  BY <1>1
<1>3. \A i \in 1 .. Len(c) : SubSeq(d, 1, Len(c))[i] = c[i]
  BY <1>1 DEF Extends
<1> QED
  BY <1>1, <1>2, <1>3

\* The file of a name.
LEMMA ContentOf ==
    ASSUME OneName, NEW o \in ObjId, S!Live(o)
    PROVE  Content(stable[o].name) = stable[o].data
<1>1. Named(stable[o].name) = {o}
  BY DEF Named, OneName
<1> QED
  BY <1>1 DEF Content

\* What is on the chip under a name is gone, emptied, or begins with what was
\* there before, in every step and whatever fails: the wrapper only appends.
THEOREM FilesOnlyGrow == Spec => OnlyGrows
<1>1. StoreOK /\ Shape /\ StoreOK' /\ [Next]_vars =>
          \A n \in Name :
              LET old == Content(n)  new == Content(n)'
              IN  new = <<>> \/ (Len(new) >= Len(old) /\ SubSeq(new, 1, Len(old)) = old)
  <2> SUFFICES ASSUME StoreOK, Shape, StoreOK', [Next]_vars, NEW n \in Name, Content(n)' # <<>>
               PROVE  /\ Len(Content(n)') >= Len(Content(n))
                      /\ SubSeq(Content(n)', 1, Len(Content(n))) = Content(n)
    OBVIOUS
  <2>1. Grows
    BY NextShape
  <2>2. PICK o \in ObjId : stable'[o] # NoFile /\ stable'[o].name = n
    BY DEF Content, Named, S!Live
  <2>3. Content(n)' = stable'[o].data
    <3>1. OneName' /\ S!Live(o)'
      BY <2>2 DEF StoreOK, S!Live
    <3>2. Named(n)' = {o}
      BY <3>1, <2>2 DEF Named, OneName
    <3> QED
      BY <3>2 DEF Content
  <2>4. /\ S!Live(o) /\ stable[o].name = n
        /\ Extends(stable'[o].data, stable[o].data)
    BY <2>1, <2>2, <2>3 DEF Grows
  <2>5. Content(n) = stable[o].data
    BY <2>4, ContentOf DEF StoreOK
  <2>6. stable'[o].data \in Seq(Byte) /\ stable[o].data \in Seq(Byte)
    BY <2>2, <2>4 DEF StoreOK, StoreTypes, S!Live, File
  <2> QED
    BY <2>3, <2>4, <2>5, <2>6, Beginning
<1> QED
  BY <1>1, ShapeInvariant, PTL DEF Spec, OnlyGrows
=============================================================================
