---------------------------- MODULE SpiffsFiles ----------------------------
(***************************************************************************)
(* The file interface of SPIFFS: spiffs_hydrogen.c with the descriptor     *)
(* table and the object events of spiffs_nucleus.c and the write cache of  *)
(* spiffs_cache.c.                                                         *)
(*                                                                         *)
(* fs.disk[o] is object o as the object layer stores it: its name and its  *)
(* bytes.  fs.fd[h] is a slot of the descriptor table and fs.cache[c] a    *)
(* page of the cache (only whether it is a write page, and then of what,   *)
(* is kept; pages in use for reading and free pages are not told apart).   *)
(*                                                                         *)
(* Abstractions.  An object is modified, appended to, truncated or removed *)
(* in one step, or not at all: full says which calls of spiffs_gc_check    *)
(* find no space ("never" one, those of an "append", or "always").  Where  *)
(* an object index header lies is one bit of a descriptor: whether its     *)
(* objix_hdr_pix is current.  Whether the score of a slot is 0 is kept,    *)
(* not the score; the choice among slots of equal standing is free.        *)
(* SPIFFS_unmount and SPIFFS_mount are one step.  Calls that fail and      *)
(* change nothing are left out.                                            *)
(***************************************************************************)
EXTENDS Integers, Sequences, FiniteSets

CONSTANTS
    ObjId, Name,
    FdCount,     \* fs->fd_count
    CachePage,   \* the pages of the cache
    Byte,
    PageSize,    \* SPIFFS_CFG_LOG_PAGE_SZ
    DataSize,    \* SPIFFS_DATA_PAGE_SIZE
    HdrBytes,    \* bytes the index header has pages for
    MaxSize,     \* bound: no file grows beyond it
    Lengths,     \* the lengths of the reads and writes
    Flags,       \* the flag sets files are opened with
    Refusals,    \* the values of full
    Habits,      \* what programs do: "shared" opens an object that is open,
                 \* "dirent" opens by directory entry or page once every
                 \* slot was used, "fresh" before that, "rename" renames a
                 \* file that is open
    NoObj, NoPage, NoFile, Closed, Hole, Garbage

ASSUME SizeAssumption ==
    /\ FdCount \in Nat /\ PageSize \in Nat /\ DataSize \in Nat /\ MaxSize \in Nat
    /\ HdrBytes \in Nat \ {0}
    /\ 1 < DataSize /\ DataSize < PageSize
    /\ Lengths \subseteq Nat \ {0}
    /\ Refusals \subseteq {"never", "append", "always"}
    /\ Habits \subseteq {"shared", "dirent", "fresh", "rename"}

\* The special values are told from what they stand in for.
ASSUME ValuesAssumption ==
    /\ NoObj \notin ObjId /\ NoPage \notin CachePage
    /\ NoFile \notin [name : Name, data : Seq(Byte \cup {Hole, Garbage})]
    /\ Closed \notin [obj : ObjId, append : BOOLEAN, pos : Nat]

VARIABLE fs

vars == <<fs>>

Handle == 1 .. FdCount

\* SPIFFS_UNDEFINED_LEN, the size of an empty object: above every size.
Undefined == 2 * MaxSize + PageSize

Data == {[i \in 1 .. n |-> b] : n \in Lengths, b \in Byte}

MinOf(a, b) == IF a < b THEN a ELSE b
MaxOf(a, b) == IF a > b THEN a ELSE b

----------------------------------------------------------------------------
(* Objects.                                                                *)

\* The size field of an object index header.
SizeOf(data) == IF data = <<>> THEN Undefined ELSE Len(data)

Live(o) == fs.disk[o] # NoFile
Named(n) == {o \in ObjId : Live(o) /\ fs.disk[o].name = n}

\* The bytes d with b put at offset p.
Splice(d, p, b) ==
    [i \in 1 .. MaxOf(Len(d), p + Len(b)) |->
        IF p < i /\ i <= p + Len(b) THEN b[i - p]
        ELSE IF i <= Len(d) THEN d[i] ELSE Hole]

\* The object index refers to a data page for offset p.
HasPage(d, p) ==
    \E i \in DOMAIN d : (i - 1) \div DataSize = p \div DataSize /\ d[i] # Hole

----------------------------------------------------------------------------
(* The write cache.                                                        *)

NoCache == [wr |-> FALSE, obj |-> NoObj, offset |-> 0, data |-> <<>>]

End(page) == page.offset + Len(page.data)

\* spiffs_cache_page_get_by_fd
PagesFor(s, o) == {c \in CachePage : s.cache[c].wr /\ s.cache[c].obj = o}
CachePageOf(s, o) ==
    IF PagesFor(s, o) = {} THEN NoPage ELSE CHOOSE c \in PagesFor(s, o) : TRUE

\* Mutant of Release: only the first descriptor on the page lets go of it.
ReleaseFromFirst(s, C) ==
    LET users == {h \in Handle : s.fd[h].open /\ s.fd[h].cp \in C}
        first == {h \in users : \A g \in users : h <= g}
    IN  [s EXCEPT
            !.fd = [h \in Handle |->
                IF h \in first THEN [s.fd[h] EXCEPT !.cp = NoPage] ELSE s.fd[h]],
            !.cache = [c \in CachePage |-> IF c \in C THEN NoCache ELSE s.cache[c]]]

\* spiffs_cache_fd_release, for the pages of C: descriptors that are closed
\* are not looked at.  What a released page held stays for those to find.
Release(s, C) ==
    [s EXCEPT
        !.fd = [h \in Handle |->
            IF s.fd[h].open /\ s.fd[h].cp \in C THEN [s.fd[h] EXCEPT !.cp = NoPage]
            ELSE s.fd[h]],
        !.cache = [c \in CachePage |->
            IF c \notin C THEN s.cache[c]
            ELSE IF \E h \in Handle : ~s.fd[h].open /\ s.fd[h].cp = c
            THEN [s.cache[c] EXCEPT !.wr = FALSE, !.obj = NoObj]
            ELSE NoCache]]

ReadPages(s) == {c \in CachePage : ~s.cache[c].wr}

\* spiffs_cache_page_allocate_by_fd takes a page that is free or the oldest
\* one used for reading, but not the one the last read used.
Allocations(s) ==
    ReadPages(s) \cup (IF Cardinality(ReadPages(s)) <= 1 THEN {NoPage} ELSE {})

----------------------------------------------------------------------------
(* spiffs_cb_object_event, for the header of object o.                     *)

\* Mutant of HeaderEvent: the size is left to whoever changed it.
HeaderEventWithoutSize(s, o, size, moved, actor) ==
    [s EXCEPT !.fd = [h \in Handle |->
        IF s.fd[h].obj = o THEN [s.fd[h] EXCEPT !.current = TRUE] ELSE s.fd[h]]]

\* The header was written at the same place, or moved; size is what the
\* event carries (0: no size).  actor updates its own objix_hdr_pix.
HeaderEvent(s, o, size, moved, actor) ==
    LET act(f)  == IF size = Undefined THEN 0
                   ELSE IF f.cp = NoPage THEN size
                   ELSE MaxOf(size, End(s.cache[f.cp]))
        new(f)  == IF size = 0 THEN [f EXCEPT !.current = TRUE]
                   ELSE [f EXCEPT !.current = TRUE, !.size = size,
                                  !.fdoffset = MinOf(@, act(f))]
        slot(h) == LET f == s.fd[h]
                   IN  IF f.obj # o THEN f
                       ELSE IF f.scored THEN new(f)
                       ELSE [f EXCEPT !.current = @ /\ (~moved \/ h = actor)]
        stale   == {f \in {s.fd[h] : h \in Handle} :
                      /\ f.obj = o /\ f.scored /\ f.cp # NoPage
                      /\ size = Undefined
                      /\ s.cache[f.cp].offset > 1}
    IN  Release([s EXCEPT !.fd = [h \in Handle |-> slot(h)]],
                {f.cp : f \in stale})

\* The fields that the next open sets are forgotten.
Shut(f) ==
    [f EXCEPT !.open = FALSE, !.size = 0, !.fdoffset = 0, !.flags = {},
              !.current = FALSE, !.obj = IF f.cp = NoPage THEN NoObj ELSE @]

\* The object is gone: its descriptors are closed, their cache page dropped.
DeleteEvent(s, o) ==
    LET mine  == {h \in Handle : s.fd[h].obj = o}
        freed == Release(s, {s.fd[h].cp : h \in {g \in mine : s.fd[g].open}})
    IN  [freed EXCEPT
            !.disk[o] = NoFile,
            !.fd = [h \in Handle |->
                IF h \in mine THEN [Shut(@[h]) EXCEPT !.obj = NoObj] ELSE @[h]]]

----------------------------------------------------------------------------
(* spiffs_hydro_write on spiffs_object_modify and spiffs_object_append.    *)

Ok(s) == s.res = "OK"
Error(s) == [s EXCEPT !.res = "ERROR"]

\* What the descriptor believes of the object is what the object is.
Coherent(s, h) ==
    LET f == s.fd[h]
    IN  /\ f.current
        /\ \/ f.size = SizeOf(s.disk[f.obj].data)
           \/ f.size = 0 /\ s.disk[f.obj].data = <<>>

\* Existing data pages are replaced.  If the first is one of the header's,
\* the header moves; otherwise only later index pages do.
ObjectModify(s, h, p, b, full) ==
    LET o     == s.fd[h].obj
        t     == [s EXCEPT !.disk[o].data = Splice(@, p, b)]
        inHdr == p < HdrBytes
    IN  IF full = "always" \/ (inHdr /\ ~s.fd[h].current) THEN Error(s)
        ELSE IF inHdr THEN HeaderEvent(t, o, SizeOf(t.disk[o].data), TRUE, h)
        ELSE t

\* An offset beyond the size is moved back to it; an empty object has no
\* page to continue, and a hole if the offset is at the start of another.
\* A descriptor that missed the first write programs the index once more.
ObjectAppend(s, h, offset, b, full) ==
    LET f    == s.fd[h]
        o    == f.obj
        p    == MinOf(offset, f.size)
        data == IF Coherent(s, h) THEN Splice(s.disk[o].data, p, b)
                ELSE [i \in 1 .. p + Len(b) |-> Garbage]
        t    == HeaderEvent([s EXCEPT !.disk[o].data = data],
                            o, Len(data), p # 0, h)
    IN  IF full # "never" \/ ~f.current THEN Error(s)
        ELSE IF f.size = Undefined /\ p % DataSize # 0 THEN Error(s)
        ELSE [t EXCEPT !.fd[h].size = Len(data), !.fd[h].current = TRUE]

HydroWrite(s, h, offset, b, full) ==
    LET size == s.fd[h].size
        m    == IF size = Undefined \/ offset >= size THEN 0
                ELSE MinOf(size - offset, Len(b))
        t    == IF m = 0 THEN s ELSE ObjectModify(s, h, offset, SubSeq(b, 1, m), full)
    IN  IF ~Ok(s) THEN s
        ELSE IF m = Len(b) \/ ~Ok(t) THEN t
        ELSE ObjectAppend(t, h, offset + m, SubSeq(b, m + 1, Len(b)), full)

\* The cache page is written back and given up, also when that fails.
WriteBack(s, h, c, full) ==
    Release(HydroWrite(s, h, s.cache[c].offset, s.cache[c].data, full), {c})

\* Mutant of WithPage: a page another descriptor filled is not looked for.
WithOwnPage(s, h) == s

\* fd->cache_page is looked up when it is not set.
WithPage(s, h) ==
    [s EXCEPT !.fd[h].cp = IF @ = NoPage THEN CachePageOf(s, s.fd[h].obj) ELSE @]

\* spiffs_fflush_cache
FlushCache(s, h, full) ==
    LET t == WithPage(s, h)
    IN  IF "DIRECT" \in s.fd[h].flags THEN s
        ELSE IF t.fd[h].cp = NoPage THEN s
        ELSE WriteBack(t, h, t.fd[h].cp, full)

----------------------------------------------------------------------------
(* The calls.                                                              *)

\* spiffs_fd_find_new without a name takes the slot of least score.
ClosedSlots   == {h \in Handle : ~fs.fd[h].open}
UnscoredSlots == {h \in ClosedSlots : ~fs.fd[h].scored}
SpareSlots    == IF UnscoredSlots # {} THEN UnscoredSlots ELSE ClosedSlots

Done(s) == fs' = [s EXCEPT !.res = "OK"]

\* spiffs_object_create
ObjectCreate(s, o, n) ==
    HeaderEvent([s EXCEPT !.disk[o] = [name |-> n, data |-> <<>>]],
                o, Undefined, FALSE, 0)

\* spiffs_object_open_by_page leaves cache_page as the slot had it.
OpenByPage(s, h, o, flags) ==
    [s EXCEPT !.fd[h] = [@ EXCEPT !.open = TRUE, !.obj = o,
        !.size = SizeOf(s.disk[o].data), !.fdoffset = 0, !.current = TRUE,
        !.flags = flags \cap {"RD", "WR", "APPEND", "DIRECT"}]]

\* spiffs_object_truncate to 0; the descriptor's own size becomes 0.
Truncate(s, h, full) ==
    LET o == s.fd[h].obj
    IN  IF s.fd[h].size \in {Undefined, 0} THEN s
        ELSE IF full # "never" THEN Error(s)
        ELSE [HeaderEvent([s EXCEPT !.disk[o].data = <<>>], o, Undefined, TRUE, h)
                EXCEPT !.fd[h].size = 0, !.fd[h].current = TRUE]

MayOpen(o) == "shared" \in Habits \/ \A h \in Handle : ~(fs.fd[h].open /\ fs.fd[h].obj = o)

\* spiffs_object_open_by_page and truncation; a slot is given back on error.
OpenAndTruncate(s, h, o, flags, full) ==
    LET t == OpenByPage(s, h, o, flags)
        u == IF "TRUNC" \in flags THEN Truncate(t, h, full) ELSE t
    IN  IF Ok(u) THEN u ELSE [u EXCEPT !.fd[h] = Shut(@)]

Creat(o, n, full) ==
    /\ Named(n) = {} /\ ~Live(o) /\ full = "never"
    /\ Done(ObjectCreate(fs, o, n))

\* spiffs_fd_find_new with a name scores the slot.
Taken(h) == [fs EXCEPT !.fd[h].scored = TRUE]

Open(h, n, flags, full) ==
    /\ h \in ClosedSlots
    /\ \E o \in Named(n) :
          /\ ~({"CREAT", "EXCL"} \subseteq flags)
          /\ MayOpen(o)
          /\ Done(OpenAndTruncate(Taken(h), h, o, flags, full))

OpenNew(h, n, o, flags) ==
    /\ h \in ClosedSlots
    /\ "CREAT" \in flags /\ Named(n) = {} /\ ~Live(o)
    /\ Done(OpenByPage(ObjectCreate(Taken(h), o, n), h, o, flags))

\* No such file, the file exists, or no room for it.
OpenFails(h, n, flags, full) ==
    /\ h \in ClosedSlots
    /\ IF Named(n) = {} THEN "CREAT" \notin flags \/ full # "never"
       ELSE {"CREAT", "EXCL"} \subseteq flags
    /\ Done(Taken(h))

\* SPIFFS_open_by_dirent and SPIFFS_open_by_page
OpenByDirent(h, o, flags, full) ==
    /\ (IF fs.fd[h].scored THEN "dirent" ELSE "fresh") \in Habits
    /\ h \in SpareSlots /\ Live(o) /\ MayOpen(o)
    /\ Done(OpenAndTruncate(fs, h, o, flags, full))

Fd(h)   == fs.fd[h]
May(h, flag) == Fd(h).open /\ flag \in Fd(h).flags

\* A failed flush is not noticed.
Flushed(h, full) == [FlushCache(fs, h, full) EXCEPT !.res = "OK"]

Read(h, n, full) ==
    /\ May(h, "RD") /\ Fd(h).size # Undefined
    /\ LET s == Flushed(h, full)
           f == s.fd[h]
           m == MinOf(n, f.size - f.fdoffset)
           readable == \A i \in f.fdoffset .. f.fdoffset + m - 1 :
                          HasPage(s.disk[f.obj].data, i)
       IN  Done(IF m > 0 /\ f.current /\ readable
                THEN [s EXCEPT !.fd[h].fdoffset = @ + m] ELSE s)

\* Mutant of Seek: pending writes stay in the cache.
SeekWithoutFlush(h, p, full) ==
    /\ Fd(h).open
    /\ LET size == IF Fd(h).size = Undefined THEN 0 ELSE Fd(h).size
       IN  Done([fs EXCEPT !.fd[h].fdoffset = MinOf(p, size)])

\* SPIFFS_lseek to p, however it was asked for.
Seek(h, p, full) ==
    /\ Fd(h).open
    /\ LET s    == Flushed(h, full)
           size == IF s.fd[h].size = Undefined THEN 0 ELSE s.fd[h].size
       IN  Done([s EXCEPT !.fd[h].fdoffset = MinOf(p, size)])

\* SPIFFS_fflush, SPIFFS_tell, SPIFFS_eof and SPIFFS_fstat
Fflush(h, full) == Fd(h).open /\ Done(FlushCache(fs, h, full))

\* Mutant of Close: pending writes are left to the cache.
CloseWithoutFlush(h, full) ==
    /\ Fd(h).open
    /\ Done([fs EXCEPT !.fd[h] = Shut(@)])

Close(h, full) ==
    /\ Fd(h).open
    /\ LET s == FlushCache(fs, h, full)
       IN  Done(IF Ok(s) THEN [s EXCEPT !.fd[h] = Shut(@)] ELSE s)

----------------------------------------------------------------------------
(* SPIFFS_write.                                                           *)

\* Storing b at offset in cache page c, which the descriptor holds.
IntoPage(s, h, c, offset, b) ==
    [s EXCEPT !.cache[c].data = Splice(@, offset - s.cache[c].offset, b),
              !.fd[h].fdoffset = @ + Len(b)]

Through(s, h, offset, b, full) ==
    LET t == HydroWrite(s, h, offset, b, full)
    IN  IF Ok(t) THEN [t EXCEPT !.fd[h].fdoffset = @ + Len(b)] ELSE t

\* Mutant of Fits: a write behind the end of what the page holds.
FitsBehind(page, offset, b) ==
    offset >= page.offset /\ offset + Len(b) <= page.offset + PageSize

\* The write goes on in the page, or starts in it, and ends in it.
Fits(page, offset, b) ==
    /\ offset >= page.offset
    /\ offset <= End(page)
    /\ offset + Len(b) <= page.offset + PageSize

\* A new cache page c, or none to be had.
IntoNewPage(s, h, c, offset, b, full) ==
    IF c = NoPage THEN Through(s, h, offset, b, full)
    ELSE IntoPage([s EXCEPT
            !.cache[c] = [wr |-> TRUE, obj |-> s.fd[h].obj, offset |-> offset,
                          data |-> <<>>],
            !.fd[h].cp = c], h, c, offset, b)

Write(h, b, full) ==
    /\ May(h, "WR")
    /\ LET f      == Fd(h)
           append == "APPEND" \in f.flags
           pos    == IF ~append THEN f.fdoffset
                     ELSE IF f.size = Undefined THEN 0 ELSE f.size
           s      == WithPage([fs EXCEPT !.fd[h].fdoffset = pos], h)
           c      == s.fd[h].cp
           offset == IF append /\ c # NoPage THEN MaxOf(pos, End(s.cache[c]))
                     ELSE pos
           small  == Len(b) < PageSize
           dumped == IF c = NoPage THEN s ELSE WriteBack(s, h, c, full)
       IN  /\ offset + Len(b) <= MaxSize
           /\ IF "DIRECT" \in f.flags THEN Done(Through(s, h, offset, b, full))
              ELSE IF small /\ c # NoPage /\ Fits(s.cache[c], offset, b)
              THEN Done(IntoPage(s, h, c, offset, b))
              ELSE IF ~Ok(dumped) THEN Done(dumped)
              ELSE IF small
              THEN \E d \in Allocations(dumped) :
                      Done(IntoNewPage(dumped, h, d, offset, b, full))
              ELSE Done(Through(dumped, h, offset, b, full))

----------------------------------------------------------------------------
(* Removing, renaming, collecting garbage, mounting.                       *)

\* The object is opened in a slot of its own, which its deletion closes.
Remove(n, t) ==
    /\ t \in SpareSlots
    /\ \E o \in Named(n) : Done(DeleteEvent(OpenByPage(fs, t, o, {}), o))

Fremove(h) ==
    /\ May(h, "WR")
    /\ Done(DeleteEvent(Release(fs, {Fd(h).cp}), Fd(h).obj))

\* The header is written anew; the event carries the size found in it.
Rename(n, new, t) ==
    /\ t \in SpareSlots /\ Named(new) = {}
    /\ \E o \in Named(n) :
          /\ "rename" \in Habits \/ \A h \in Handle : ~(Fd(h).open /\ Fd(h).obj = o)
          /\ LET s == OpenByPage([fs EXCEPT !.disk[o].name = new], t, o, {})
                 u == HeaderEvent(s, o, SizeOf(s.disk[o].data), TRUE, t)
             IN  Done([u EXCEPT !.fd[t] = Shut(@)])

\* Garbage collection, in any call that writes, moves some headers.  One
\* that is stored for its data pages is told of with its size.
CollectGarbage(o) ==
    /\ Live(o)
    /\ \E size \in {0, Len(fs.disk[o].data)} : Done(HeaderEvent(fs, o, size, TRUE, 0))

NoFd == [open |-> FALSE, obj |-> NoObj, flags |-> {}, size |-> 0,
         fdoffset |-> 0, cp |-> NoPage, scored |-> FALSE, current |-> FALSE]

Mounted(disk) == [disk |-> disk, fd |-> [h \in Handle |-> NoFd],
                  cache |-> [c \in CachePage |-> NoCache], res |-> "OK"]

\* SPIFFS_unmount flushes slot by slot whatever happens, and SPIFFS_mount
\* clears the descriptors and the cache.
Remount(full) ==
    LET unmounted[k \in 0 .. FdCount] ==
            IF k = 0 THEN fs
            ELSE LET s == [unmounted[k - 1] EXCEPT !.res = "OK"]
                 IN  IF s.fd[k].open
                     THEN [FlushCache(s, k, full) EXCEPT !.fd[k] = Shut(@)]
                     ELSE s
    IN  fs' = Mounted(unmounted[FdCount].disk)

PowerLoss == fs' = Mounted(fs.disk)

----------------------------------------------------------------------------
Init == fs = Mounted([o \in ObjId |-> NoFile])

Next ==
    \/ \E full \in Refusals :
          \/ \E o \in ObjId, n \in Name : Creat(o, n, full)
          \/ \E h \in Handle :
                \/ \E n \in Name, flags \in Flags :
                      Open(h, n, flags, full) \/ OpenFails(h, n, flags, full)
                \/ \E o \in ObjId, flags \in Flags : OpenByDirent(h, o, flags, full)
                \/ \E n \in Lengths : Read(h, n, full)
                \/ \E p \in 0 .. MaxSize : Seek(h, p, full)
                \/ Fflush(h, full) \/ Close(h, full)
                \/ \E b \in Data : Write(h, b, full)
          \/ Remount(full)
    \/ \E h \in Handle, n \in Name :
          \/ \E o \in ObjId, flags \in Flags : OpenNew(h, n, o, flags)
          \/ Remove(n, h)
          \/ \E new \in Name : Rename(n, new, h)
    \/ \E h \in Handle : Fremove(h)
    \/ \E o \in ObjId : CollectGarbage(o)
    \/ PowerLoss

Spec == Init /\ [][Next]_vars

----------------------------------------------------------------------------
(* Properties.                                                             *)

FdSet == [open : BOOLEAN, obj : ObjId \cup {NoObj},
          flags : SUBSET {"RD", "WR", "APPEND", "DIRECT"},
          size : 0 .. Undefined, fdoffset : 0 .. MaxSize,
          cp : CachePage \cup {NoPage}, scored : BOOLEAN, current : BOOLEAN]
IsBytes(d) == Len(d) <= MaxSize /\ \A i \in 1 .. Len(d) : d[i] \in Byte \cup {Hole, Garbage}

\* Every field has its type, and nothing outgrows the bounds.
TypeOK ==
    /\ \A o \in ObjId : Live(o) => fs.disk[o].name \in Name /\ IsBytes(fs.disk[o].data)
    /\ fs.fd \in [Handle -> FdSet]
    /\ \A c \in CachePage :
          /\ fs.cache[c].wr \in BOOLEAN /\ fs.cache[c].obj \in ObjId \cup {NoObj}
          /\ fs.cache[c].offset \in 0 .. MaxSize /\ IsBytes(fs.cache[c].data)
    /\ fs.res = "OK"

OpenOn(o) == {h \in Handle : fs.fd[h].open /\ fs.fd[h].obj = o}

\* No two cache pages hold writes of one object, so that it does not matter
\* which of them a descriptor finds (spiffs_cache_page_allocate_by_fd relies
\* on its callers for that).
OneWritePage == \A o \in ObjId : Cardinality(PagesFor(fs, o)) <= 1

\* The pointer a descriptor keeps to its cache page is to a write page of
\* its own object, however many descriptors shared and gave up that page.
PagePointers ==
    \A h \in Handle : fs.fd[h].open /\ fs.fd[h].cp # NoPage =>
        fs.fd[h].cp \in PagesFor(fs, fs.fd[h].obj)

\* Writes that wait in the cache are of an object that still exists, and a
\* descriptor that will write them back is open.
PendingHasOwner ==
    \A c \in CachePage : fs.cache[c].wr =>
        /\ Live(fs.cache[c].obj)
        /\ \E h \in OpenOn(fs.cache[c].obj) : "DIRECT" \notin fs.fd[h].flags

\* What a descriptor remembers of its object's header, its place and size,
\* is what is there, whoever wrote or moved it.
DescriptorsCoherent ==
    \A h \in Handle : fs.fd[h].open => Live(fs.fd[h].obj) /\ Coherent(fs, h)

\* The object as it would be if its cache page were written back now.
Seen(o) ==
    IF ~Live(o) \/ PagesFor(fs, o) = {} THEN fs.disk[o]
    ELSE LET page == fs.cache[CachePageOf(fs, o)]
         IN  [fs.disk[o] EXCEPT !.data =
                Splice(@, MinOf(page.offset, Len(@)), page.data)]

\* A descriptor that takes its object for empty, and so reads nothing, is
\* at the end of all that was written to the object, once no other
\* descriptor is open on it.  Where an appending descriptor is says nothing.
EmptyMeansNothingToRead ==
    \A h \in Handle :
        /\ May(h, "RD") /\ "APPEND" \notin fs.fd[h].flags
        /\ fs.fd[h].size = Undefined /\ OpenOn(fs.fd[h].obj) = {h}
        => fs.fd[h].fdoffset >= Len(Seen(fs.fd[h].obj).data)

\* After opening with SPIFFS_O_TRUNC the file is empty.
TruncEmpties ==
    [][\A h \in Handle, n \in Name, flags \in Flags :
          "TRUNC" \in flags /\ Open(h, n, flags, "never") =>
              Seen(fs.fd[h].obj)'.data = <<>>]_vars

\* An appending write leaves its descriptor at the end of the file.
AppendEndsAtEnd ==
    [][\A h \in Handle, b \in Data :
          Write(h, b, "never") /\ "APPEND" \in fs.fd[h].flags =>
              fs'.fd[h].fdoffset = Len(Seen(fs.fd[h].obj)'.data)]_vars

\* Renaming leaves the offsets of open descriptors alone.
RenameKeepsOffsets ==
    [][\A n, new \in Name, t \in Handle : Rename(n, new, t) =>
          \A h \in Handle \ {t} : fs'.fd[h].fdoffset = fs.fd[h].fdoffset]_vars

Store == INSTANCE FileStore WITH
    file   <- [o \in ObjId |-> Seen(o)],
    stable <- fs.disk,
    Position <- 0 .. MaxSize,
    handle <- [h \in Handle |->
        IF ~fs.fd[h].open THEN Closed
        ELSE LET append == "APPEND" \in fs.fd[h].flags
             IN  [obj |-> fs.fd[h].obj, append |-> append,
                  pos |-> IF append THEN 0 ELSE fs.fd[h].fdoffset]]

\* The calls do to the files what FileStore says, and a flush or a close
\* makes it last.
StoreSpec == Store!Spec

=============================================================================
