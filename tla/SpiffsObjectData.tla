-------------------------- MODULE SpiffsObjectData --------------------------
(***************************************************************************)
(* The bytes of an object (spiffs_object_create, _append, _modify,         *)
(* _truncate and _read of src/src/spiffs/spiffs_nucleus.c, and what        *)
(* SPIFFS_write and SPIFFS_ix_map make of them), as operators on fs.       *)
(*                                                                         *)
(* A loop of the C code over data pages is a fold over their spans:        *)
(* fs.pos is offset + written, fs.work the index page in the work buffer   *)
(* (work.x = -1 before the first pass).  An operation writes one byte v    *)
(* over and over, so that the bytes of two operations can be told apart.   *)
(***************************************************************************)
EXTENDS SpiffsNucleus

\* The data pages with bytes from .. end - 1, in order.
SpansBetween(from, end) ==
    [i \in 1 .. Pages(end) - from \div DPS |-> from \div DPS + i - 1]

\* The part of the bytes from .. end - 1 that lies in data page s.
BytesIn(v, s, from, end) ==
    [i \in {j \in 0 .. DPS - 1 : from <= s * DPS + j /\ s * DPS + j < end} |-> v]
EndIn(s, end) == IF (s + 1) * DPS < end THEN (s + 1) * DPS ELSE end

Page0(id, s, flags) == [id |-> id, span |-> s, flags |-> flags, body |-> NoBody]
Bytes(body) == [Erased EXCEPT !.body = body]

\* The work buffer still holds what the last operation left there.
Begin(fs, d, from) ==
    Then(fs, [fs EXCEPT !.pos = from, !.broken = "OK",
                        !.work.pix = fs.fds[d].hdr, !.work.x = -1])
Pass(fs) == IF fs.work.x > 0 THEN fs.work.x ELSE 0

\* A data page that finds no room ends the loop; the index is stored still.
BreakIfFull(a) == IF a.res \in {"FULL", "NOT_FOUND"}
                  THEN [a EXCEPT !.res = "OK", !.broken = a.res] ELSE a
Running(fs) == Ok(fs) /\ fs.broken = "OK"

\* The data page of s is now at pix, and its bytes are written up to pos.
Record(fs, s, pix, pos) ==
    IF Running(fs)
    THEN [fs EXCEPT !.work.pg = SetRef(@, s, pix), !.pos = pos] ELSE fs

SetSizeIn(fs, d, n) == Then(fs, [fs EXCEPT !.fds[d].size = n])

\* The cursor of descriptor d is set to the index page in the work buffer.
PointToWork(fs, d, x) == SetCursor(fs, d, fs.work.pix, x)

\* Enters index page x for descriptor d.
Enter(fs, d, x) ==
    IF x = 0 THEN LoadIndex(fs, d, x) ELSE PointToWork(LoadIndex(fs, d, x), d, x)

\* The error that ended a loop, unless storing the index failed too.
Result(fs) == IF Running(fs) THEN fs ELSE Fail(fs, fs.broken)

----------------------------------------------------------------------------
(* spiffs_object_create                                                    *)

HeaderAt(f, o) ==
    LET p == f.found
        c == CountAllocated(WriteLu(f, p, IndexId(o)))
        w == WritePage(c, p, Page0(IndexId(o), 0, {"USED", "INDEX", "FINAL"}))
    IN  IF Ok(f) THEN Event(w, "NEW", o, 0, p, Undef, w.page[p]) ELSE f

CreateIn(g, o) == IF Ok(g) THEN HeaderAt(FindFree(g), o) ELSE g
Create(fs, o)  == CreateIn(GcCheck(fs, DPS), o)

----------------------------------------------------------------------------
(* spiffs_object_append                                                    *)

\* A header that was empty is programmed where it is; other index pages of
\* an append are programmed where they are too, and the size in the header
\* follows.  last: after the loop, when the descriptors are told of a header.
StoreAppended(fs, d, off, last) ==
    LET w == fs.work
        o == fs.fds[d].obj
        c == CheckIndex(fs, w.pix, w.x)
        h == WriteIndex(c, w.pix, SetSize(w.pg, fs.pos))
        i == Event(WriteIndex(c, w.pix, w.pg), "UPD", o, w.x, w.pix, 0, w.pg)
    IN  IF w.x > 0 THEN UpdateIndexHdr(i, d, o, i.fds[d].hdr, Erased, fs.pos)
        ELSE IF off > 0 THEN UpdateIndexHdr(fs, d, o, fs.fds[d].hdr, w.pg, fs.pos)
        ELSE IF last
        THEN Event(h, "UPD_HDR", o, 0, w.pix, fs.pos, SetSize(w.pg, fs.pos))
        ELSE h

LeaveAppended(fs, d, off) ==
    IF fs.pos = off THEN fs
    ELSE SetSizeIn(StoreAppended(fs, d, off, FALSE), d, fs.pos)

\* a: the page for it was allocated.
IndexPageAt(a, d, hdr) ==
    LET w == [a EXCEPT !.work = [pg |-> [hdr EXCEPT !.flags = @ \cup {"USED"}],
                                 pix |-> a.found, x |-> hdr.span]]
    IN  SetCursor(EventFound(Then(a, w), "NEW", hdr.id.obj, hdr.span, 0, w.work.pg),
                  d, a.found, hdr.span)

NewIndexPage(fs, d, x) ==
    LET hdr == Page0(IndexId(fs.fds[d].obj), x, {"FINAL", "INDEX"})
    IN  IndexPageAt(PageAllocateData(fs, hdr, NoBody, TRUE), d, hdr)

EnterAppended(fs, d, off, x) ==
    LET fresh == fs.pos > off \/ x > IxSpan((fs.fds[d].size - 1) \div DPS)
    IN  IF ~Ok(fs) THEN fs
        ELSE IF x = 0 THEN Enter(fs, d, 0)
        ELSE SetSizeIn(IF fresh THEN NewIndexPage(fs, d, x) ELSE Enter(fs, d, x),
                       d, fs.pos)

\* A page is begun anew at its first byte, and filled up otherwise.
AppendData(fs, d, s, v, end) ==
    LET o    == fs.fds[d].obj
        body == BytesIn(v, s, fs.pos, end)
        old  == RefAt(fs.work.pg, s)
        c    == CheckData(fs, old, s)
        a    == BreakIfFull(PageAllocateData(fs, Page0(DataId(o), s, {"FINAL"}),
                                             body, TRUE))
    IN  IF ~Ok(fs) THEN fs
        ELSE IF fs.pos % DPS = 0 THEN Record(a, s, a.found, EndIn(s, end))
        ELSE IF ~Ok(c) THEN c
        ELSE Record(WritePage(fs, old, Bytes(body)), s, old, EndIn(s, end))

AppendStep(fs, d, off, end, v, s) ==
    IF ~Running(fs) THEN fs
    ELSE AppendData(IF IxSpan(s) = fs.work.x THEN fs
                    ELSE EnterAppended(LeaveAppended(fs, d, off), d, off, IxSpan(s)),
                    d, s, v, end)

FinishAppend(f, d, off) ==
    LET s == PointToWork(SetSizeIn(f, d, f.pos), d, Pass(f))
    IN  IF Ok(s) THEN Result(StoreAppended(s, d, off, TRUE)) ELSE s

AppendFrom(g, d, off, n, v) ==
    IF ~Ok(g) THEN g
    ELSE FinishAppend(FoldLeft(LAMBDA f, s : AppendStep(f, d, off, off + n, v, s),
                               g, SpansBetween(off, off + n)),
                      d, off)

AppendTo(fs, d, from, n, v) ==
    LET size == fs.fds[d].size
        off  == IF size # Undef /\ from > size THEN size ELSE from
    IN  AppendFrom(Begin(GcCheck(fs, n + DPS), d, off), d, off, n, v)

----------------------------------------------------------------------------
(* spiffs_object_modify                                                    *)

StoreModified(fs, d) ==
    LET o == fs.fds[d].obj
        c == CheckIndex(fs, fs.work.pix, fs.work.x)
    IN  IF fs.work.x <= 0
        THEN UpdateIndexHdr(fs, d, o, fs.fds[d].hdr, fs.work.pg, 0)
        ELSE IF Ok(c) THEN StoreIndexPage(c, o) ELSE c

EnterNext(l, d, x) == IF Ok(l) THEN PointToWork(LoadIndex(l, d, x), d, x) ELSE l

EnterModified(fs, d, from, x) ==
    EnterNext(IF fs.pos > from THEN StoreModified(fs, d) ELSE fs, d, x)

\* spiffs_phys_cpy of what is around the bytes to write.
CopyAround(fs, old, new, body) ==
    LET part(p(_)) == Bytes(RestrictDomain(fs.page[old].body, p))
        lo     == Least(DOMAIN body)
        hi     == Greatest(DOMAIN body)
        before == IF lo = 0 THEN fs
                  ELSE WritePage(fs, new, part(LAMBDA i : i < lo))
    IN  IF hi = DPS - 1 THEN before
        ELSE WritePage(before, new, part(LAMBDA i : i > hi))

\* A page that keeps some of its bytes is final when all are written.
FillAround(a, old, body) ==
    LET w == WritePage(CopyAround(a, old, a.found, body), a.found, Bytes(body))
    IN  IF Running(a) THEN WriteFlags(w, a.found, {"FINAL"}) ELSE a

Rewritten(fs, o, s, old, body) ==
    FillAround(BreakIfFull(PageAllocateData(CheckData(fs, old, s),
                                            Page0(DataId(o), s, {}), NoBody, FALSE)),
               old, body)

Renewed(fs, o, s, body) ==
    BreakIfFull(PageAllocateData(fs, Page0(DataId(o), s, {}), body, TRUE))

\* Mutant of Replace: the page written before is not deleted.
ReplaceTwice(a, s, old, pos) == Record(a, s, a.found, pos)

\* The page old of s is replaced by the one just written.
Replace(a, s, old, pos) ==
    IF Running(a) THEN Record(PageDelete(a, old), s, a.found, pos) ELSE a

ModifyData(fs, d, s, v, end) ==
    LET o    == fs.fds[d].obj
        body == BytesIn(v, s, fs.pos, end)
        old  == RefAt(fs.work.pg, s)
    IN  IF ~Ok(fs) THEN fs
        ELSE Replace(IF DOMAIN body = 0 .. DPS - 1 THEN Renewed(fs, o, s, body)
                     ELSE Rewritten(fs, o, s, old, body),
                     s, old, EndIn(s, end))

ModifyStep(fs, d, from, end, v, s) ==
    IF ~Running(fs) THEN fs
    ELSE ModifyData(IF IxSpan(s) = fs.work.x THEN fs
                    ELSE EnterModified(fs, d, from, IxSpan(s)),
                    d, s, v, end)

\* What a page index holds that spiffs_page_move did not get to set.
Unset == <<-1, -1>>

\* The cursor is set before the result of the move is looked at.
FinishModify(f, d) ==
    LET s      == PointToWork(f, d, Pass(f))
        t      == StoreModified(s, d)
        moving == s.work.x > 0 /\ Ok(CheckIndex(s, s.work.pix, s.work.x))
    IN  IF ~Ok(s) THEN s
        ELSE IF moving /\ ~Ok(t) THEN [t EXCEPT !.fds[d].cpix = Unset]
        ELSE Result(t)

\* An index that was not set is that of any page, or of none.
Settings(f, d) ==
    IF f.fds[d].cpix # Unset THEN {f}
    ELSE {[f EXCEPT !.fds[d].cpix = p] : p \in Page \cup {NoPix}}

ModifyFrom(g, d, from, n, v) ==
    IF ~Ok(g) THEN g
    ELSE FinishModify(FoldLeft(LAMBDA f, s : ModifyStep(f, d, from, from + n, v, s),
                               g, SpansBetween(from, from + n)),
                      d)

ModifyAt(fs, d, from, n, v) ==
    ModifyFrom(Begin(GcCheck(fs, n + DPS), d, from), d, from, n, v)

----------------------------------------------------------------------------
(* spiffs_hydro_write: what lies below the size is modified, the rest      *)
(* appended.                                                               *)

AppendRest(f, d, from, n, v) ==
    IF Ok(f) /\ n > 0 THEN AppendTo(f, d, from, n, v) ELSE f

HydroWrite(fs, d, from, n, v) ==
    LET size  == fs.fds[d].size
        below == size # Undef /\ from < size
        m     == IF from + n < size THEN n ELSE size - from
    IN  IF below THEN AppendRest(ModifyAt(fs, d, from, m, v), d, size, n - m, v)
        ELSE AppendRest(fs, d, from, n, v)

----------------------------------------------------------------------------
(* spiffs_object_truncate to nothing; full: the object is removed.         *)

CurSize(fs, d) == IF fs.fds[d].size = Undef THEN 0 ELSE fs.fds[d].size

MarkRemoved(fs, d) ==
    WriteFlags(fs, fs.fds[d].hdr, {"USED", "INDEX", "FINAL", "IXDELE"})

DropIndex(fs, d, full) ==
    LET w == fs.work
        o == fs.fds[d].obj
        g == Event(PageDelete(CheckIndex(fs, w.pix, w.x), w.pix),
                   "DEL", o, w.x, w.pix, 0, Erased)
    IN  IF w.x = -1 THEN fs
        ELSE SetSizeIn(IF full THEN g
                       ELSE UpdateIndexHdr(g, d, o, g.fds[d].hdr, Erased, fs.pos),
                       d, fs.pos)

EnterFound(f, d, x) ==
    IF Ok(f) THEN SetCursor(LoadFound(f, x), d, f.pix, x) ELSE f

EnterTruncated(fs, d, x) ==
    EnterFound(IF x = 0 THEN Then(fs, [fs EXCEPT !.pix = fs.fds[d].hdr])
               ELSE FindIdSpan(fs, IndexId(fs.fds[d].obj), x, NoPix), d, x)

\* A data page that is gone already is passed over.
TruncateData(fs, d, s) ==
    LET pix    == RefAt(fs.work.pg, s)
        status == DataStatus(fs, pix, s)
        f      == [fs EXCEPT !.work.pg = SetRef(@, s, NoPix)]
        g      == IF status = "OK" THEN PageDelete(f, pix) ELSE f
    IN  IF ~Ok(fs) THEN fs
        ELSE IF status \in {"OK", "DELETED", "INDEX_REF_FREE"}
        THEN SetSizeIn(Then(g, [g EXCEPT !.pos = s * DPS]), d, s * DPS)
        ELSE [f EXCEPT !.broken = status]

TruncateStep(fs, d, full, s) ==
    IF ~Running(fs) THEN fs
    ELSE TruncateData(IF IxSpan(s) = fs.work.x THEN fs
                      ELSE EnterTruncated(DropIndex(fs, d, full), d, IxSpan(s)),
                      d, s)

RemoveHeader(f, d) ==
    Event(PageDelete(CheckIndex(f, f.work.pix, 0), f.work.pix),
          "DEL", f.fds[d].obj, 0, f.work.pix, 0, Erased)

ShortenHdr(c, d) ==
    UpdateIndexHdr(c, d, c.fds[d].obj, c.fds[d].hdr, Erased, c.pos)
PointToFound(s, d) == SetCursor(s, d, s.found, s.work.x)
ShortenIndex(f, d) ==
    ShortenHdr(PointToFound(StoreIndexPage(CheckIndex(f, f.work.pix, f.work.x),
                                           f.fds[d].obj), d), d)

EmptyPage(pg) == [pg EXCEPT !.body = RestrictDomain(@, LAMBDA i : i = SizeSlot)]

StoreTruncated(f, d, full) ==
    LET o == f.fds[d].obj
    IN  IF f.work.x > 0 THEN ShortenIndex(f, d)
        ELSE IF f.pos > 0
        THEN UpdateIndexHdr(f, d, o, f.work.pix, f.work.pg, f.pos)
        ELSE IF full THEN RemoveHeader(f, d)
        ELSE UpdateIndexHdr(f, d, o, f.work.pix, EmptyPage(f.work.pg), Undef)

\* The error that ended the loop is forgotten here.
FinishTruncate(f, d, full) ==
    IF Ok(f) THEN SetSizeIn(StoreTruncated(f, d, full), d, f.pos) ELSE f

BeginAtEnd(c, d) == Begin(c, d, CurSize(c, d))

TruncateFrom(m, d, full) ==
    IF ~Ok(m) THEN m
    ELSE FinishTruncate(
            FoldLeft(LAMBDA f, s : TruncateStep(f, d, full, s), m,
                     Reverse(SpansBetween(0, m.pos))),
            d, full)

Truncate(fs, d, full) ==
    IF fs.fds[d].size \in {Undef, 0} /\ ~full THEN fs
    ELSE TruncateFrom(BeginAtEnd(IF full THEN MarkRemoved(fs, d)
                                 ELSE GcCheck(fs, 2 * DPS), d), d, full)

----------------------------------------------------------------------------
(* spiffs_object_read, of the whole object.                                *)

\* An index map with an entry for the page is believed.
ReadPix(fs, d, s) ==
    LET map == fs.fds[d].map
        x   == IxSpan(s)
        e   == IF x = fs.work.x THEN fs ELSE PointToWork(LoadIndex(fs, d, x), d, x)
    IN  IF s \in DOMAIN map.buf THEN [fs EXCEPT !.pix = map.buf[s]]
        ELSE Then(e, [e EXCEPT !.pix = RefAt(e.work.pg, s)])

\* erased stands for the bytes of a page that were never programmed.
ReadData(r, s, end, erased) ==
    LET c == CheckData(r, r.pix, s)
    IN  IF ~Ok(r) THEN r
        ELSE Then(c, [c EXCEPT !.out = @ \o
                [i \in 1 .. EndIn(s, end) - s * DPS |->
                    Slot(c.page[c.pix], i - 1, erased)]])

ReadStep(fs, d, s, end, erased) ==
    IF Ok(fs) THEN ReadData(ReadPix(fs, d, s), s, end, erased) ELSE fs

ReadPages(b, d, n, erased) ==
    FoldLeft(LAMBDA f, s : ReadStep(f, d, s, n, erased), b, SpansBetween(0, n))

Read(fs, d, erased) ==
    ReadPages([Begin(fs, d, 0) EXCEPT !.out = <<>>], d, CurSize(fs, d), erased)

----------------------------------------------------------------------------
(* SPIFFS_ix_map, SPIFFS_ix_unmap, SPIFFS_ix_remap                         *)

\* spiffs_populate_ix_map: the index pages from that of entry first on.  They
\* are visited from the header on, until all were told or one is bad.
Populate(fs, d, first) ==
    LET fd    == fs.fds[d]
        map   == fd.map
        from  == IF first < map.end - map.start THEN first ELSE map.end - map.start
        range == IxSpan(map.start + from) .. IxSpan(map.end)
        found == {p \in Page : fs.lu[p] = IndexId(fd.obj)}
        bad   == {p \in found : ~IsIndexPage(fs.page[p], fs.page[p].span)}
        told  == {p \in found \ bad : /\ fs.page[p].span \in range
                                     /\ "IXDELE" \notin fs.page[p].flags}
        before(S, p) == {q \in S \ {p} : FirstFrom(fd.hdr, {p, q}) = q}
        visited(p)   == /\ before(bad, p) = {}
                        /\ Cardinality(before(told, p)) < Cardinality(range)
        visit == FoldSet(LAMBDA p, m : UpdateMap(m, fs.page[p].span, fs.page[p]), map,
                         {p \in told : visited(p)})
        new   == [fs EXCEPT !.fds[d].map = visit]
    IN  IF \E p \in bad : visited(p) THEN Fail(new, "BAD_INDEX") ELSE new

\* nb: spix range includes last
IxMap(fs, d, from, n) ==
    Populate([fs EXCEPT !.fds[d].map = [start |-> from \div DPS,
                                       end   |-> (from + n) \div DPS,
                                       buf   |-> NoBody]], d, 0)

IxUnmap(fs, d) == [fs EXCEPT !.fds[d].map = NoMap]

\* By less than the range of the map: moving it further memsets the struct.
IxRemap(fs, d, from) ==
    LET map   == fs.fds[d].map
        len   == map.end - map.start + 1
        start == from \div DPS
        new   == [start |-> start, end |-> start + len - 1,
                  buf   |-> RestrictDomain(map.buf,
                                LAMBDA s : s \in start .. start + len - 1)]
    IN  IF start = map.start THEN fs
        ELSE Populate([fs EXCEPT !.fds[d].map = new], d,
                      IF start > map.start THEN len - (start - map.start) ELSE 0)
=============================================================================
