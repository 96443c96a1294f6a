--------------------------- MODULE SpiffsNucleus ---------------------------
(***************************************************************************)
(* Objects on the page layer (src/src/spiffs/spiffs_nucleus.c) and the     *)
(* cleaning half of spiffs_gc.c, as operators on the state record fs of    *)
(* SpiffsPages.                                                            *)
(*                                                                         *)
(* An object is an index header page (span 0), index pages (span 1, 2 ..)  *)
(* and data pages.  The body of an index page maps entries to page         *)
(* indices, the header has its size at SizeSlot; the body of a data page   *)
(* maps offsets to bytes.  A slot that is not in the body is erased.       *)
(*                                                                         *)
(* fs has these fields more than in SpiffsPages:                           *)
(*   cursor  cursor_block_ix, cursor_obj_lu_entry: where a search starts   *)
(*   fds     the open descriptors, with the page indices they cache        *)
(* and, for what the C functions keep in locals and in fs->work:           *)
(*   work    the index page in fs->work, its page index and its span       *)
(*   pix     the page a search found                                       *)
(*   pos     the offset reached                                            *)
(*   broken  the error that ended a loop whose index is stored all the same*)
(*   out     the bytes read                                                *)
(* A page index is a pair; the entry -1 is the lookup page of the block.   *)
(***************************************************************************)
EXTENDS SpiffsPages, SequencesExt

CONSTANTS
    Obj,        \* object ids
    Fd,         \* file descriptors
    HdrLen,     \* SPIFFS_OBJ_HDR_IX_LEN
    IxLen,      \* SPIFFS_OBJ_IX_LEN
    DPS,        \* SPIFFS_DATA_PAGE_SIZE
    GcRuns,     \* SPIFFS_GC_MAX_RUNS
    NoPix,      \* (spiffs_page_ix)-1
    NoObj       \* SPIFFS_OBJ_ID_DELETED in a descriptor

ASSUME ObjectAssumption ==
    /\ {HdrLen, IxLen, DPS, GcRuns} \subseteq Nat \ {0}
    /\ NoObj \notin Obj /\ NoPix \notin Page

DataId(o)   == [obj |-> o, ix |-> FALSE]
IndexId(o)  == [obj |-> o, ix |-> TRUE]
ObjectIds   == {DataId(o) : o \in Obj} \cup {IndexId(o) : o \in Obj}

\* The marks are neither object ids nor spans.
ASSUME IdAssumption ==
    /\ {FREE, DELETED} \cap ObjectIds = {}
    /\ {FREE, Garbage} \cap Nat = {}

ToIndex(id) == IF id = FREE THEN FREE ELSE [id EXCEPT !.ix = TRUE]
IsIndexId(id) == IsBusy(id) /\ id.ix
IsDataId(id)  == IsBusy(id) /\ ~id.ix

Undef    == -1          \* SPIFFS_UNDEFINED_LEN
SizeSlot == -1
NoFd     == 0
NoMap    == [start |-> 0, end |-> -1, buf |-> NoBody]
Closed   == [obj |-> NoObj, hdr |-> NoPix, size |-> 0, cpix |-> NoPix,
             cspix |-> 0, map |-> NoMap]
\* A work buffer that was never used holds zeroes.
NoWork   == [pg |-> [Erased EXCEPT !.flags = {"USED", "FINAL", "INDEX",
                                              "IXDELE", "DELET"}],
             pix |-> NoPix, x |-> -1]

----------------------------------------------------------------------------
(* Index pages.                                                            *)

\* The index page, and the entry in it, of data page s.
IxSpan(s)  == IF s = FREE THEN -1
              ELSE IF s < HdrLen THEN 0 ELSE 1 + (s - HdrLen) \div IxLen
IxEntry(s) == IF s < HdrLen THEN s ELSE (s - HdrLen) % IxLen
\* The data pages an index page has entries for.
FirstSpan(x) == IF x = 0 THEN 0 ELSE HdrLen + (x - 1) * IxLen
SpansOf(x)   == FirstSpan(x) .. FirstSpan(x + 1) - 1

Slot(pg, i, blank) == IF i \in DOMAIN pg.body THEN pg.body[i] ELSE blank
SetSlot(pg, i, v, blank) ==
    [pg EXCEPT !.body = IF v = blank
                        THEN RestrictDomain(pg.body, LAMBDA j : j # i)
                        ELSE [j \in DOMAIN pg.body \cup {i} |->
                                IF j = i THEN v ELSE pg.body[j]]]

RefAt(pg, s)       == Slot(pg, IxEntry(s), NoPix)
SetRef(pg, s, pix) == SetSlot(pg, IxEntry(s), pix, NoPix)
SizeOf(pg)         == Slot(pg, SizeSlot, Undef)
SetSize(pg, n)     == SetSlot(pg, SizeSlot, n, Undef)

\* Page indices are numbers too: the blocks are a power of two long.
AndPix(p, q) == <<And(p[1], q[1]), And(p[2] + 1, q[2] + 1) - 1>>
ProgIndex(old, new) ==
    [i \in DOMAIN old \cup DOMAIN new |->
        IF i \notin DOMAIN old THEN new[i]
        ELSE IF i \notin DOMAIN new THEN old[i]
        ELSE IF i = SizeSlot THEN And(old[i], new[i])
        ELSE AndPix(old[i], new[i])]

\* The work buffer is written over the index page it was read from.
WriteIndex(fs, pix, pg) ==
    Write(fs, [fs EXCEPT !.page[pix].flags = @ \cup pg.flags,
                         !.page[pix].body  = ProgIndex(@, pg.body)])

----------------------------------------------------------------------------
(* Searches and checks.                                                    *)

Matches(fs, id, span, exclude) ==
    {p \in Page :
        LET pg == fs.page[p]
        IN  /\ fs.lu[p] = id /\ p # exclude
            /\ pg.id = id /\ pg.span = span /\ Valid(pg)
            /\ ~(IsIndexId(id) /\ span = 0 /\ "IXDELE" \in pg.flags)}

\* spiffs_obj_lu_find_id_and_span
FindIdSpan(fs, id, span, exclude) ==
    LET S == Matches(fs, id, span, exclude)
        p == FirstFrom(fs.cursor, S)
    IN  IF ~Ok(fs) THEN fs
        ELSE IF S = {} THEN Fail(fs, "NOT_FOUND")
        ELSE [fs EXCEPT !.cursor = p, !.pix = p]

NotFound(fs) == fs.res = "NOT_FOUND"
Forgive(fs)  == [fs EXCEPT !.res = "OK"]

\* SPIFFS_VALIDATE_OBJIX, SPIFFS_VALIDATE_DATA
IsIndexPage(pg, x) == Valid(pg) /\ "INDEX" \in pg.flags /\ pg.span = x
IsDataPage(pg, s)  == Valid(pg) /\ "INDEX" \notin pg.flags /\ pg.span = s

\* spiffs_page_data_check
DataStatus(fs, pix, s) ==
    IF pix = NoPix THEN "INDEX_REF_FREE"
    ELSE IF pix \notin Page THEN "INDEX_REF_LU"
    ELSE IF {"USED", "DELET"} \subseteq fs.page[pix].flags THEN "DELETED"
    ELSE IF IsDataPage(fs.page[pix], s) THEN "OK" ELSE "BAD_DATA"

CheckData(fs, pix, s) ==
    IF DataStatus(fs, pix, s) = "OK" THEN fs
    ELSE Fail(fs, DataStatus(fs, pix, s))

\* spiffs_page_index_check
CheckIndex(fs, pix, x) ==
    IF pix \in Page /\ IsIndexPage(fs.page[pix], x) THEN fs
    ELSE Fail(fs, "BAD_INDEX")

\* Reads index page x at pix into fs->work.
Load(fs, pix, x) ==
    LET c == CheckIndex(fs, pix, x)
    IN  Then(c, [c EXCEPT !.work = [pg |-> c.page[pix], pix |-> pix, x |-> x]])

----------------------------------------------------------------------------
(* spiffs_cb_object_event and spiffs_update_ix_map                         *)

\* The map follows the index up to the first empty entry of its range.
UpdateMap(map, x, pg) ==
    LET S    == {s \in map.start .. map.end : IxSpan(s) = x}
        told == {s \in S : \A t \in S : t <= s => RefAt(pg, t) # NoPix}
    IN  [map EXCEPT !.buf = [s \in told \cup DOMAIN @ |->
                               IF s \in told THEN RefAt(pg, s) ELSE @[s]]]

\* Mutant of EventFor: the cursor does not follow its index page.
EventForHeader(fd, ev, x, pix, size, pg) ==
    IF x = 0 /\ ev = "DEL" THEN Closed
    ELSE [fd EXCEPT !.hdr  = IF x = 0 THEN pix ELSE @,
                    !.size = IF x = 0 /\ size # 0 THEN size ELSE @]

\* size = 0: not told, as in the code.  pg is the index page told about.
EventFor(fd, ev, x, pix, size, pg) ==
    IF x = 0 /\ ev = "DEL" THEN Closed
    ELSE [fd EXCEPT
        !.hdr   = IF x = 0 THEN pix ELSE @,
        !.size  = IF x = 0 /\ size # 0 THEN size ELSE @,
        !.cpix  = IF fd.cspix # x THEN @ ELSE IF ev = "DEL" THEN NoPix ELSE pix,
        !.map   = IF ev \in {"UPD", "NEW"} THEN UpdateMap(@, x, pg) ELSE @]

Event(fs, ev, o, x, pix, size, pg) ==
    Then(fs, [fs EXCEPT !.fds = [d \in Fd |->
        IF fs.fds[d].obj = o THEN EventFor(fs.fds[d], ev, x, pix, size, pg)
        ELSE fs.fds[d]]])

\* Tells that index page x of o is where the page just moved or allocated is.
EventFound(fs, ev, o, x, size, pg) == Event(fs, ev, o, x, fs.found, size, pg)

SetCursor(fs, d, pix, x) ==
    Then(fs, [fs EXCEPT !.fds[d].cpix = pix, !.fds[d].cspix = x])

\* Index page x of the object of descriptor d, by its cursor or by search.
FindIndex(fs, d, x) ==
    IF fs.fds[d].cspix = x THEN Then(fs, [fs EXCEPT !.pix = fs.fds[d].cpix])
    ELSE FindIdSpan(fs, IndexId(fs.fds[d].obj), x, NoPix)

LoadFound(fs, x) == Load(fs, fs.pix, x)

LoadIndex(fs, d, x) ==
    LoadFound(IF x = 0 THEN [fs EXCEPT !.pix = fs.fds[d].hdr]
              ELSE FindIndex(fs, d, x), x)

----------------------------------------------------------------------------
(* spiffs_object_update_index_hdr.  data = Erased: the header is loaded;   *)
(* size = 0: it is not changed.  d = NoFd: called by gc_clean.             *)

HdrMoved(m, d, o, new, ev) ==
    LET e == Event(m, ev, o, 0, m.found, SizeOf(new), new)
    IN  IF ~Ok(m) \/ d = NoFd THEN e
        ELSE [e EXCEPT !.fds[d].hdr = m.found]

UpdateIndexHdr(fs, d, o, pix, data, size) ==
    LET pg  == IF data = Erased THEN fs.page[pix] ELSE data
        new == IF size = 0 THEN pg ELSE SetSize(pg, size)
        chk == IF IsIndexPage(pg, 0) THEN fs ELSE Fail(fs, "BAD_INDEX")
    IN  IF ~Ok(chk) THEN chk
        ELSE HdrMoved(PageMove([chk EXCEPT !.work.pg = new],
                               IndexId(o), pix, new),
                      d, o, new, IF data = Erased THEN "UPD_HDR" ELSE "UPD")

\* Mutant of StoreIndexPage: the index flag of the id is forgotten.
StoreIndexAsData(fs, o) ==
    EventFound(PageMove(fs, DataId(o), fs.work.pix, fs.work.pg),
               "UPD", o, fs.work.x, 0, fs.work.pg)

\* An index page is stored at a new place.
StoreIndexPage(fs, o) ==
    EventFound(PageMove(fs, IndexId(o), fs.work.pix, fs.work.pg),
               "UPD", o, fs.work.x, 0, fs.work.pg)

----------------------------------------------------------------------------
(* spiffs_gc_clean: the data pages of a block are moved group by group, a  *)
(* group being those of one index page, which is then stored; the index    *)
(* pages left in the block follow.                                         *)

Entries == [i \in 1 .. NE |-> i - 1]

\* A page that is deleted already is only marked as such.
MoveOrDelete(fs, p) ==
    IF "DELET" \in fs.page[p].flags THEN PageDelete(fs, p)
    ELSE PageMove(fs, fs.lu[p], p, Erased)

Refer(fs, s, gone) ==
    Then(fs, [fs EXCEPT !.work.pg = SetRef(@, s, IF gone THEN NoPix ELSE fs.found)])

\* Mutant of MoveData: the index is not told of the copy.
MoveDataAlone(fs, p, s) == MoveOrDelete(fs, p)

MoveData(fs, p, s) ==
    Refer(MoveOrDelete(fs, p), s, "DELET" \in fs.page[p].flags)

\* A page of the group is moved, another left.
MoveMember(f, p, id) ==
    IF Ok(f) /\ f.lu[p] = id /\ IxSpan(f.page[p].span) = f.work.x
    THEN MoveData(f, p, f.page[p].span) ELSE f

MoveGroup(fs, b, id) ==
    FoldLeft(LAMBDA f, e : MoveMember(f, <<b, e>>, id), fs, Entries)

StoreGroup(fs, o) ==
    IF ~Ok(fs) THEN fs
    ELSE IF fs.work.x = 0
         THEN UpdateIndexHdr(fs, NoFd, o, fs.work.pix, fs.work.pg, 0)
         ELSE StoreIndexPage(fs, o)

CleanGroup(l, b, p, id, x) ==
    IF NotFound(l) THEN PageDelete(Forgive(l), p)
    ELSE StoreGroup(MoveGroup(LoadFound(l, x), b, id), id.obj)

CleanData(fs, b, e) ==
    LET p == <<b, e>>
        x == IxSpan(fs.page[p].span)
    IN  IF ~Ok(fs) \/ ~IsDataId(fs.lu[p]) THEN fs
        ELSE CleanGroup(FindIdSpan(fs, ToIndex(fs.lu[p]), x, NoPix),
                        b, p, fs.lu[p], x)

MoveIndex(fs, p, o, x) ==
    EventFound(MoveOrDelete(fs, p),
               IF "DELET" \in fs.page[p].flags THEN "DEL" ELSE "MOV", o, x, 0, Erased)

CleanIndex(fs, b, e) ==
    LET p == <<b, e>>
    IN  IF ~Ok(fs) \/ ~IsIndexId(fs.lu[p]) THEN fs
        ELSE MoveIndex(fs, p, fs.lu[p].obj, fs.page[p].span)

CleanDataPages(fs, b) == FoldLeft(LAMBDA f, e : CleanData(f, b, e), fs, Entries)

CleanIndexPages(fs, b) == FoldLeft(LAMBDA f, e : CleanIndex(f, b, e), fs, Entries)

GcClean(fs, b) == CleanIndexPages(CleanDataPages(fs, b), b)

----------------------------------------------------------------------------
(* spiffs_gc_check: room for len bytes.                                    *)

\* The flag stays up if power is lost, when it no longer matters, to tell
\* that it was lost in a cleaning.
EraseCleaned(c, b) ==
    IF c.res = "FAULT" THEN c
    ELSE EraseBlock(GcErasePageStats([c EXCEPT !.cleaning = FALSE], b), b)
GcBlock(fs, b) == EraseCleaned(GcClean(StartCleaning(fs, b), b), b)

\* One run of the loop, from prev free pages to g; run.on: it goes on.
RunTo(g, prev, len) ==
    [f  |-> g,
     on |-> /\ Ok(g)
            /\ ~(prev <= 0 /\ prev = FreePages(g))
            /\ (g.free_blocks <= 2 \/ len > FreePages(g) * DPS)]
GcRun(run, len) ==
    LET prev == FreePages(run.f)
    IN  IF ~run.on THEN run
        ELSE RunTo(GcBlock(run.f, GcFindCandidate(run.f, prev <= 0)), prev, len)

Pages(len) == (len + DPS - 1) \div DPS

GcFinish(f, len) == IF len > FreePages(f) * DPS THEN Fail(f, "FULL") ELSE f

GcLoop(run, len) ==
    FoldLeft(LAMBDA r, i : GcRun(r, len), run, [i \in 1 .. GcRuns |-> i])

GcCheck(fs, len) ==
    IF ~Ok(fs) \/ (fs.free_blocks > 3 /\ len < FreePages(fs) * DPS) THEN fs
    ELSE IF Pages(len) > FreePages(fs) + fs.stats_p_deleted
         THEN Fail(fs, "FULL")
    ELSE GcFinish(GcLoop([f |-> fs, on |-> TRUE], len).f, len)
=============================================================================
