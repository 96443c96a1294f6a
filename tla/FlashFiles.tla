----------------------------- MODULE FlashFiles -----------------------------
(***************************************************************************)
(* The C++ wrapper (src/src/espbot/esp8266_spiffs.cpp) over the file       *)
(* interface that FileStore specifies: one Flashfs, and the Ffiles of a    *)
(* program.  Both keep a status of their own beside the state of SPIFFS,   *)
(* and an Ffile keeps the number of its descriptor, whatever becomes of    *)
(* the descriptor.                                                         *)
(*                                                                         *)
(* A method is a step, except open() and clear() of a file that is open:   *)
(* they close it in one step and open it in the next, and nothing comes    *)
(* between (todo).  A power loss may come at any time.                     *)
(***************************************************************************)
EXTENDS Integers, Sequences

CONSTANTS
    ObjId, Name, Handle, NoFile, Closed, Position, Data,
    Ffile,      \* the Ffile variables of the program
    Absent,     \* such a variable between its destructor and a constructor
    NoName, NoFd,
    Nothing,    \* no method is half done
    Faults,     \* what may fail: "mount", "format", "open", "close", "write"
    MaxSize     \* bound: the length of a file

\* The bytes of what the program writes.
Byte == UNION {{b[i] : i \in DOMAIN b} : b \in Data}

\* What an Ffile is while it exists.
FfileType ==
    [fs : BOOLEAN, name : Name \cup {NoName}, fd : Handle \cup {NoFd},
     status : {"UNAVAILABLE", "OPEN", "MODIFIED_UNSAVED", "REMOVED"}]

\* The special values are told from what they stand in for.
ASSUME ValuesAssumption ==
    /\ NoFd \notin Handle /\ Absent \notin FfileType
    /\ Closed \notin [obj : ObjId, pos : Nat, append : BOOLEAN]
    /\ NoFile \notin [name : Name, data : Seq(Byte)]
    /\ Nothing \notin [f : Ffile, name : Name, trunc : BOOLEAN]

\* The program writes strings of bytes, and moves within a file.
ASSUME DataAssumption ==
    /\ Position \subseteq Nat
    /\ Data \subseteq Seq(Byte)

VARIABLES
    file, stable, handle,   \* FileStore
    formatted,  \* whether a mount would find a file system
    mounted,    \* m_fs.mounted
    status,     \* of the Flashfs
    ff,         \* the Ffiles
    todo,       \* the opening a method has still to do
    taken       \* the Ffiles whose descriptor another call closed (history)

S == INSTANCE FileStore

vars == <<file, stable, handle, formatted, mounted, status, ff, todo, taken>>
fs   == <<formatted, mounted, status>>

Available == status \in {"AVAILABLE", "ERRORS"}
IsOpen(f) == ff[f] # Absent /\ ff[f].status \in {"OPEN", "MODIFIED_UNSAVED"}

\* Every method first asks for m_fs and its is_available().
Called(f) == todo = Nothing /\ ff[f] # Absent
Ready(f)  == Called(f) /\ ff[f].fs /\ Available

\* Whether a descriptor number is one that SPIFFS accepts.
Valid(fd) == fd # NoFd /\ handle[fd] # Closed

\* The other open Ffiles that hold the number of a descriptor closed now.
Robbed(f, fds) == {g \in Ffile \ {f} : IsOpen(g) /\ ff[g].fd \in fds}

Init ==
    /\ S!Init
    /\ formatted = FALSE /\ mounted = FALSE
    /\ status = "NOT_INIT"
    /\ ff = [f \in Ffile |-> Absent]
    /\ todo = Nothing
    /\ taken = {}

(***************************************************************************)
(* Flashfs                                                                 *)
(***************************************************************************)
AllTaken == taken' = {f \in Ffile : IsOpen(f)}

Wiped ==
    /\ S!AllClosed
    /\ file' = [o \in ObjId |-> NoFile]
    /\ stable' = file'

\* SPIFFS_format erases block after block; when that fails, nothing may be
\* lost yet of the files there were, or no file system be left.
FormatFails(files) ==
    /\ "format" \in Faults
    /\ mounted' = FALSE /\ status' = "UNAVAILABLE"
    /\ \/ formatted' = FALSE /\ Wiped
       \/ UNCHANGED formatted /\ S!AllClosed /\ file' = files /\ stable' = files

\* SPIFFS_mount clears the state of a file system that is mounted already.
Mounted ==
    /\ formatted
    /\ mounted' = TRUE /\ status' = "AVAILABLE"
    /\ UNCHANGED formatted
    /\ S!PowerLoss

\* Whatever the error of the mount, init() then formats.
FormattedAtInit ==
    /\ ~formatted \/ "mount" \in Faults
    /\ \/ /\ Wiped /\ formatted' = TRUE
          /\ \/ mounted' = TRUE /\ status' = "AVAILABLE"
             \/ "mount" \in Faults /\ mounted' = FALSE /\ status' = "UNAVAILABLE"
       \/ FormatFails(stable)

\* init()
InitFs ==
    /\ todo = Nothing
    /\ Mounted \/ FormattedAtInit
    /\ AllTaken
    /\ UNCHANGED <<ff, todo>>

\* format(): the unmount before it flushes what waits in the cache.
Format ==
    /\ todo = Nothing /\ status # "NOT_INIT"
    /\ \/ Wiped /\ formatted' = TRUE /\ mounted' = FALSE /\ status' = "UNMOUNTED"
       \/ FormatFails(file)
    /\ AllTaken
    /\ UNCHANGED <<ff, todo>>

\* unmount()
Unmount ==
    /\ todo = Nothing /\ status # "NOT_INIT"
    /\ S!Unmount
    /\ mounted' = FALSE /\ status' = "UNMOUNTED"
    /\ AllTaken
    /\ UNCHANGED <<formatted, ff, todo>>

\* check(): the status tells what SPIFFS_check returned, which is an error
\* when nothing is mounted.
Check ==
    /\ todo = Nothing /\ status # "NOT_INIT"
    /\ \/ mounted /\ status' = "AVAILABLE"
       \/ status' = "ERRORS"
    /\ UNCHANGED <<file, stable, handle, formatted, mounted, ff, todo, taken>>

(***************************************************************************)
(* Ffile                                                                   *)
(***************************************************************************)
Named(n) == {o \in ObjId : S!Live(o) /\ stable[o].name = n}

\* Mutant of Opens: without SPIFFS_APPEND.
OpensWithoutAppend(h, n, trunc) ==
    /\ mounted
    /\ \/ Named(n) = {} /\ \E o \in ObjId : S!OpenNew(h, o, n)
       \/ \E o \in Named(n) : IF trunc THEN S!OpenEmptied(h, o) ELSE S!Open(h, o)
    /\ ~handle'[h].append

\* SPIFFS_open with SPIFFS_CREAT | SPIFFS_RDWR | SPIFFS_APPEND, and with
\* SPIFFS_TRUNC in clear().
Opens(h, n, trunc) ==
    /\ mounted
    /\ \/ Named(n) = {} /\ \E o \in ObjId : S!OpenNew(h, o, n)
       \/ \E o \in Named(n) : IF trunc THEN S!OpenEmptied(h, o) ELSE S!Open(h, o)
    /\ handle'[h].append

OpenFails(n) ==
    /\ \/ ~mounted \/ "open" \in Faults
       \/ \A h \in Handle : handle[h] # Closed
       \/ Named(n) = {} /\ \A o \in ObjId : S!Live(o)
    /\ UNCHANGED <<file, stable, handle>>

\* Mutant of OpenedAs: the status is not set when the opening failed.
OpenedAsOrBefore(f, n, trunc) ==
    \/ \E h \in Handle :
          /\ Opens(h, n, trunc)
          /\ ff' = [ff EXCEPT ![f] = [fs |-> TRUE, name |-> n, fd |-> h,
                      status |-> IF trunc THEN "MODIFIED_UNSAVED" ELSE "OPEN"]]
    \/ /\ OpenFails(n)
       /\ ff' = [ff EXCEPT ![f] = [fs |-> TRUE, name |-> n, fd |-> NoFd,
                status |-> IF ff[f] = Absent THEN "UNAVAILABLE" ELSE ff[f].status]]

\* An Ffile on n, after the call of SPIFFS_open.
OpenedAs(f, n, trunc) ==
    \/ \E h \in Handle :
          /\ Opens(h, n, trunc)
          /\ ff' = [ff EXCEPT ![f] = [fs |-> TRUE, name |-> n, fd |-> h,
                      status |-> IF trunc THEN "MODIFIED_UNSAVED" ELSE "OPEN"]]
    \/ /\ OpenFails(n)
       /\ ff' = [ff EXCEPT ![f] = [fs |-> TRUE, name |-> n, fd |-> NoFd,
                                   status |-> "UNAVAILABLE"]]

\* SPIFFS_close: it refuses a descriptor that is closed, and when the flush
\* fails the descriptor stays open.
ClosedBy(f) ==
    LET fd == ff[f].fd
    IN  \/ /\ Valid(fd) /\ S!Close(fd)
           /\ taken' = (taken \cup Robbed(f, {fd})) \ {f}
        \/ /\ ~Valid(fd) \/ "close" \in Faults
           /\ UNCHANGED <<file, stable, handle>>
           /\ taken' = taken \ {f}

\* What a method does on a file system that is not available.
Refused(f) ==
    /\ Called(f) /\ ~Ready(f)
    /\ ff' = [ff EXCEPT ![f].status = "UNAVAILABLE"]
    /\ taken' = taken \ {f}
    /\ UNCHANGED <<file, stable, handle, fs, todo>>

\* Ffile(fs)
Construct(f) ==
    /\ todo = Nothing /\ ff[f] = Absent
    /\ ff' = [ff EXCEPT ![f] = [fs |-> Available, name |-> NoName, fd |-> NoFd,
                                status |-> "UNAVAILABLE"]]
    /\ UNCHANGED <<file, stable, handle, fs, todo, taken>>

\* Ffile(fs, name)
ConstructNamed(f, n) ==
    /\ todo = Nothing /\ ff[f] = Absent
    /\ IF Available THEN OpenedAs(f, n, FALSE)
       ELSE /\ ff' = [ff EXCEPT ![f] = [fs |-> FALSE, name |-> n, fd |-> NoFd,
                                        status |-> "UNAVAILABLE"]]
            /\ UNCHANGED <<file, stable, handle>>
    /\ UNCHANGED <<fs, todo, taken>>

\* Mutant of Destroy: only a file with unsaved changes is closed.
DestroyModified(f) ==
    /\ Called(f)
    /\ IF Ready(f) /\ ff[f].status = "MODIFIED_UNSAVED" THEN ClosedBy(f)
       ELSE taken' = taken \ {f} /\ UNCHANGED <<file, stable, handle>>
    /\ ff' = [ff EXCEPT ![f] = Absent]
    /\ UNCHANGED <<fs, todo>>

\* ~Ffile()
Destroy(f) ==
    /\ Called(f)
    /\ IF Ready(f) /\ IsOpen(f) THEN ClosedBy(f)
       ELSE taken' = taken \ {f} /\ UNCHANGED <<file, stable, handle>>
    /\ ff' = [ff EXCEPT ![f] = Absent]
    /\ UNCHANGED <<fs, todo>>

\* open(name)
OpenFile(f, n) ==
    /\ Ready(f)
    /\ IF IsOpen(f)
       THEN ClosedBy(f) /\ todo' = [f |-> f, name |-> n, trunc |-> FALSE]
                        /\ UNCHANGED ff
       ELSE OpenedAs(f, n, FALSE) /\ UNCHANGED <<todo, taken>>
    /\ UNCHANGED fs

\* clear()
Clear(f) ==
    /\ Ready(f) /\ IsOpen(f)
    /\ ClosedBy(f)
    /\ todo' = [f |-> f, name |-> ff[f].name, trunc |-> TRUE]
    /\ UNCHANGED <<fs, ff>>

\* The second half of the two.
Reopen ==
    /\ todo # Nothing
    /\ OpenedAs(todo.f, todo.name, todo.trunc)
    /\ todo' = Nothing
    /\ UNCHANGED <<fs, taken>>

\* n_read(): SPIFFS_read writes back what waits in the cache, or does nothing
\* for a file that has nothing on the chip yet.
NRead(f) ==
    /\ Ready(f) /\ IsOpen(f) /\ Valid(ff[f].fd)
    /\ \E p \in Position : S!Move(ff[f].fd, p)
    /\ UNCHANGED <<fs, ff, todo, taken>>

\* Mutant of NAppend: the status stays what it was.
NAppendSilently(f, b) ==
    /\ Ready(f) /\ IsOpen(f) /\ Valid(ff[f].fd)
    /\ Len(file[handle[ff[f].fd].obj].data) + Len(b) <= MaxSize
    /\ S!Write(ff[f].fd, b)
    /\ UNCHANGED <<fs, ff, todo, taken>>

\* n_append()
NAppend(f, b) ==
    /\ Ready(f) /\ IsOpen(f) /\ Valid(ff[f].fd)
    /\ Len(file[handle[ff[f].fd].obj].data) + Len(b) <= MaxSize
    /\ \/ S!Write(ff[f].fd, b) /\ ff' = [ff EXCEPT ![f].status = "MODIFIED_UNSAVED"]
       \/ "write" \in Faults /\ UNCHANGED <<file, stable, handle, ff>>
    /\ UNCHANGED <<fs, todo, taken>>

\* remove()
Remove(f) ==
    /\ Ready(f) /\ IsOpen(f) /\ Valid(ff[f].fd)
    /\ LET o == handle[ff[f].fd].obj
       IN  S!Remove(o) /\ taken' = (taken \cup Robbed(f, S!OpenOn(o))) \ {f}
    /\ ff' = [ff EXCEPT ![f].status = "REMOVED"]
    /\ UNCHANGED <<fs, todo>>

\* flush_cache()
FlushCache(f) ==
    /\ Ready(f) /\ ff[f].status = "MODIFIED_UNSAVED" /\ Valid(ff[f].fd)
    /\ S!Flush(ff[f].fd)
    /\ UNCHANGED <<fs, ff, todo, taken>>

\* Power is lost, and the program starts again.
PowerLoss ==
    /\ S!PowerLoss
    /\ mounted' = FALSE /\ status' = "NOT_INIT"
    /\ ff' = [f \in Ffile |-> Absent]
    /\ todo' = Nothing /\ taken' = {}
    /\ UNCHANGED formatted

Next ==
    \/ InitFs \/ Format \/ Unmount \/ Check \/ Reopen \/ PowerLoss
    \/ \E f \in Ffile :
          \/ Construct(f) \/ Destroy(f) \/ Refused(f) \/ Clear(f)
          \/ NRead(f) \/ Remove(f) \/ FlushCache(f)
          \/ \E n \in Name : ConstructNamed(f, n) \/ OpenFile(f, n)
          \/ \E b \in Data : NAppend(f, b)

Spec == Init /\ [][Next]_vars

(***************************************************************************)
(* Properties                                                              *)
(***************************************************************************)
\* The types.
TypeOK ==
    /\ formatted \in BOOLEAN /\ mounted \in BOOLEAN
    /\ status \in {"NOT_INIT", "AVAILABLE", "UNMOUNTED", "UNAVAILABLE", "ERRORS"}
    /\ \A f \in Ffile : ff[f] \in FfileType \cup {Absent}
    /\ taken \subseteq Ffile

\* An Ffile that calls itself open has a descriptor, on the file of its name
\* and shared with no other such Ffile, unless another call closed it: what
\* open(), clear(), remove() and a failed opening leave in status and m_fd.
OwnFile ==
    \A f \in Ffile \ taken :
        IsOpen(f) /\ (todo # Nothing => todo.f # f) =>
            /\ Valid(ff[f].fd)
            /\ stable[handle[ff[f].fd].obj].name = ff[f].name
            /\ \A g \in Ffile \ {f} : IsOpen(g) /\ g \notin taken => ff[g].fd # ff[f].fd

\* What a loss of power would take from a file is known to some Ffile, which
\* says MODIFIED_UNSAVED and can flush it: no other path of the wrapper
\* leaves bytes in the cache that nobody answers for.
UnsavedKnown ==
    \A o \in ObjId : file[o] # stable[o] =>
        \E f \in Ffile : /\ IsOpen(f) /\ ff[f].status = "MODIFIED_UNSAVED"
                         /\ Valid(ff[f].fd) /\ handle[ff[f].fd].obj = o

\* Every descriptor in use is the one of an open Ffile: with four of them,
\* one that is lost is a file less until the next mount.
NoLostDescriptor ==
    \A h \in Handle : handle[h] # Closed =>
        \E f \in Ffile : IsOpen(f) /\ ff[f].fd = h

Content(n) == IF Named(n) = {} THEN <<>> ELSE stable[CHOOSE o \in Named(n) : TRUE].data

\* What is on the chip under a name only grows, or is gone: every file is
\* opened for appending, clear() empties it before anything is written.
OnlyGrows ==
    [][\A n \in Name :
          LET old == Content(n)  new == Content(n)'
          IN  new = <<>> \/ (Len(new) >= Len(old) /\ SubSeq(new, 1, Len(old)) = old)]_vars

\* "will write t_len bytes from t_buffer to file" (esp8266_spiffs.hpp):
\* n_append() changes the file the Ffile is named after, and no other.
AppendsToItsFile ==
    [][\A f \in Ffile, b \in Data : NAppend(f, b) =>
          \A o \in ObjId : file'[o] # file[o] => file[o].name = ff[f].name]_vars

\* "a new init is required" after format(): a file system that says it is
\* available is mounted.
AvailableMeansMounted == Available => mounted
=============================================================================
