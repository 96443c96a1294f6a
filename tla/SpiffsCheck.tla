----------------------------- MODULE SpiffsCheck -----------------------------
(***************************************************************************)
(* SPIFFS_check (src/src/spiffs/spiffs_check.c): its three passes as       *)
(* operators on fs, in the order it runs them: the lookup pass, the index  *)
(* pass and the page pass, which starts again whenever it mended something.*)
(*                                                                         *)
(* Assumed: the working memory has bits for all pages, so that the page    *)
(* pass has one range.  Left out, and checked to be out of reach           *)
(* (SpiffsObjects!OnlyKnownDamage): the branches of the lookup pass for a  *)
(* finished page whose header names another object, or another kind of     *)
(* page, than its lookup entry does, and the branch of the page pass for a *)
(* reference that is no page.                                              *)
(***************************************************************************)
EXTENDS SpiffsObjectData

AllPages == [i \in 1 .. NB * NE |-> <<(i - 1) \div NE, (i - 1) % NE>>]

Headed(pg) == [pg EXCEPT !.body = NoBody]

----------------------------------------------------------------------------
(* What the passes do to pages.                                            *)

\* spiffs_object_get_data_page_index_reference: fs.pix is the index page.
FindReference(fs, o, s) == FindIdSpan(fs, IndexId(o), IxSpan(s), NoPix)
Reference(fs, s)        == RefAt(fs.page[fs.pix], s)

\* Mutant of RewritePage: only the header is copied.
RewriteHeader(fs, p) ==
    PageAllocateData(fs, Headed(fs.page[p]), NoBody, FALSE)

\* spiffs_rewrite_page
FillFound(a, body) == IF Ok(a) THEN WritePage(a, a.found, Bytes(body)) ELSE a
RewritePage(fs, p) ==
    FillFound(PageAllocateData(fs, Headed(fs.page[p]), NoBody, FALSE),
              fs.page[p].body)

\* Ultra safe: the index page is the one asked for.
Rewritable(pg, o, s) ==
    pg.id = IndexId(o) /\ IsIndexPage(pg, IxSpan(s)) /\ "IXDELE" \notin pg.flags

\* spiffs_rewrite_index: index page ix is stored anew with pix for page s.
IndexRewritten(f, o, s, pix, ix) ==
    LET w == WritePage(f, f.found, SetRef(f.page[ix], s, pix))
    IN  PageDelete(WriteLu(w, f.found, IndexId(o)), ix)

RewriteIndexIn(f, o, s, pix, ix) ==
    IF ~Ok(f) THEN f
    ELSE IF Rewritable(f.page[ix], o, s) THEN IndexRewritten(f, o, s, pix, ix)
    ELSE Fail(PageDelete(f, f.found), "BAD_CHECK")

RewriteIndex(fs, o, s, pix, ix) == RewriteIndexIn(FindFree(fs), o, s, pix, ix)

Unmendable(fs) == fs.res = "BAD_CHECK"

\* spiffs_delete_obj_lazy
DeleteObjLazy(fs, id) ==
    LET f == FindIdSpan(fs, id, 0, NoPix)
    IN  IF NotFound(f) THEN Forgive(f)
        ELSE IF Ok(f) THEN WriteFlags(f, f.pix, {"IXDELE"}) ELSE f

\* The index of page p could not be mended: the page goes, and the object.
DropUnmendable(w, p, id) ==
    IF Unmendable(w) THEN DeleteObjLazy(PageDelete(Forgive(w), p), id) ELSE w

----------------------------------------------------------------------------
(* The lookup pass (spiffs_lookup_check_validate).                         *)

\* A data page that its object still refers to gets a new place.
ReferToCopy(n, o, s, ix) ==
    IF Ok(n) THEN DropUnmendable(RewriteIndex(n, o, s, n.found, ix),
                                 n.found, DataId(o))
    ELSE n

RescueFound(r, p, o, s) ==
    IF NotFound(r) THEN Forgive(r)
    ELSE IF ~Ok(r) \/ Reference(r, s) # p THEN r
    ELSE ReferToCopy(RewritePage(r, p), o, s, r.pix)

RescueData(fs, p) ==
    LET o == fs.page[p].id.obj
        s == fs.page[p].span
    IN  RescueFound(FindReference(fs, o, s), p, o, s)

\* An index page gets a new place if no other is found, and the header is.
RescueIndex(fs, p) ==
    LET id     == fs.page[p].id
        other  == FindIdSpan(fs, id, fs.page[p].span, p)
        byPage == {q \in Page : /\ fs.page[q].id = id /\ fs.page[q].span = 0
                                /\ Valid(fs.page[q])
                                /\ "IXDELE" \notin fs.page[q].flags}
    IN  IF ~NotFound(other) THEN other
        ELSE IF byPage = {} THEN Forgive(other)
        ELSE RewritePage([Forgive(other) EXCEPT
                              !.cursor = FirstFrom(fs.cursor, byPage)], p)

\* Deleted or free in the lookup, but not on the page.
Forgotten(fs, p) ==
    \/ IsDeleted(fs.lu[p]) /\ "DELET" \notin fs.page[p].flags
    \/ IsFree(fs.lu[p]) /\ "USED" \in fs.page[p].flags

\* Busy in the lookup; the page was never begun, or is deleted.
Abandoned(fs, p) ==
    IsBusy(fs.lu[p]) /\ (IsFree(fs.page[p].id) \/ "DELET" \in fs.page[p].flags)

Unfinished(fs, p) ==
    IsBusy(fs.lu[p]) /\ ~Abandoned(fs, p) /\ "FINAL" \notin fs.page[p].flags

\* A page that is referred to is finished, any other deleted.
FinishPage(fs, p) ==
    LET s == fs.page[p].span
        r == FindReference(fs, fs.lu[p].obj, s)
    IN  IF NotFound(r) THEN PageDelete(Forgive(r), p)
        ELSE IF ~Ok(r) THEN r
        ELSE IF Reference(r, s) # p THEN PageDelete(r, p)
        ELSE WriteFlags(r, p, {"FINAL"})

Rescue(fs, p) ==
    IF fs.page[p].id = FREE THEN fs
    ELSE IF "INDEX" \in fs.page[p].flags THEN RescueIndex(fs, p)
    ELSE RescueData(fs, p)

DeleteRescued(r, p) == IF Ok(r) THEN PageDelete(r, p) ELSE r

LookupCheckPage(fs, p) ==
    IF ~Ok(fs) THEN fs
    ELSE IF Forgotten(fs, p) THEN DeleteRescued(Rescue(fs, p), p)
    ELSE IF Abandoned(fs, p) THEN PageDelete(fs, p)
    ELSE IF Unfinished(fs, p) THEN FinishPage(fs, p)
    ELSE fs

LookupCheck(fs) == FoldLeft(LookupCheckPage, fs, AllPages)

----------------------------------------------------------------------------
(* The index pass (spiffs_object_index_consistency_check_v).  An index     *)
(* page that is sound by itself is passed over, whatever its header is.    *)

OrphanIndex(fs, p) ==
    LET f == FindIdSpan(fs, fs.lu[p], 0, NoPix)
    IN  IF NotFound(f) THEN PageDelete(Forgive(f), p) ELSE f

IndexCheckPage(fs, p) ==
    LET pg     == fs.page[p]
        Sound(pgflags) == /\ {"INDEX", "FINAL"} \subseteq pgflags
                          /\ "DELET" \notin pgflags
    IN  IF ~Ok(fs) \/ ~IsIndexId(fs.lu[p]) THEN fs
        ELSE IF Sound(pg.flags)
        THEN IF "IXDELE" \in pg.flags /\ pg.span = 0 THEN PageDelete(fs, p)
             ELSE IF "IXDELE" \in pg.flags THEN OrphanIndex(fs, p) ELSE fs
        ELSE IF pg.span = 0 THEN fs ELSE OrphanIndex(fs, p)

IndexCheck(fs) == FoldLeft(IndexCheckPage, fs, AllPages)

----------------------------------------------------------------------------
(* The page pass (spiffs_page_consistency_check_i), one scan of it.        *)
(*                                                                         *)
(* run.refs: the pages referred to; run.data: the used pages that are not  *)
(* index pages; run.at: "scan", "next" (the rest of the index page is      *)
(* skipped) or "restart".                                                  *)

UsedPage(pg)  == "USED" \in pg.flags /\ "DELET" \notin pg.flags
LiveIndex(pg) == {"INDEX", "USED"} \subseteq pg.flags
                 /\ pg.flags \cap {"DELET", "IXDELE"} = {}

\* Mutant of Stray: a page is known by its entry, not its span.
StrayByEntry(pg, o, s) ==
    pg.id # DataId(o) \/ pg.span # IxEntry(s) \/ ~UsedPage(pg)

Stray(pg, o, s) == \/ pg.id # DataId(o) \/ pg.span # s
                   \/ ~UsedPage(pg) \/ "INDEX" \in pg.flags

At(run, f, at) == [run EXCEPT !.f = f, !.at = at]

\* The page referred to is not page s of object o: g found another, or none.
\* Mutant of MendStray: the page found is not put in the index.
MendNothing(g, p, o, s) == g

DropObject(w, o) ==
    IF Unmendable(w) THEN DeleteObjLazy(Forgive(w), IndexId(o)) ELSE w

MendStray(g, p, o, s) == DropObject(RewriteIndex(g, o, s, g.pix, p), o)

ScanStray(run, g, p, o, s) ==
    IF NotFound(g) THEN At(run, DeleteObjLazy(Forgive(g), IndexId(o)), "next")
    ELSE At(run, MendStray(g, p, o, s), "restart")

\* Mutant of ScanShared: a page may be referred to twice.
ScanSharedOn(run, p, o) == run

\* Only solution is to delete the object which is referring to this page.
ScanShared(run, p, o) ==
    At(run, PageDelete(DeleteObjLazy(run.f, IndexId(o)), p), "restart")

ScanEntry(run, p, o, s) ==
    LET f == run.f
        r == RefAt(f.page[p], s)
    IN  IF ~Ok(f) \/ run.at # "scan" \/ r = NoPix THEN run
        ELSE IF Stray(f.page[r], o, s)
        THEN ScanStray(run, FindIdSpan(f, DataId(o), s, r), p, o, s)
        ELSE IF r \in run.refs THEN ScanShared(run, p, o)
        ELSE [run EXCEPT !.refs = @ \cup {r}]

NextIndex(run) == IF run.at = "next" THEN [run EXCEPT !.at = "scan"] ELSE run

SpanSeq(x) == [i \in 1 .. FirstSpan(x + 1) - FirstSpan(x) |-> FirstSpan(x) + i - 1]

ScanIndex(run, p) ==
    LET pg == run.f.page[p]
    IN  NextIndex(FoldLeft(LAMBDA r, s : ScanEntry(r, p, pg.id.obj, s), run,
                           SpanSeq(pg.span)))

ScanPage(run, p) ==
    LET pg == run.f.page[p]
    IN  IF ~Ok(run.f) \/ run.at # "scan" THEN run
        ELSE IF LiveIndex(pg) THEN ScanIndex(run, p)
        ELSE IF UsedPage(pg) THEN [run EXCEPT !.data = @ \cup {p}]
        ELSE run

\* A used page no index refers to: the index that should is asked.
MendUnreferred(run, p) ==
    LET f == run.f
        o == f.page[p].id.obj
        s == f.page[p].span
        g == FindReference(f, o, s)
        r == Reference(g, s)
        good == /\ r \in Page /\ f.page[r].id = DataId(o) /\ Valid(f.page[r])
                /\ "INDEX" \notin f.page[r].flags
    IN  IF NotFound(g) THEN At(run, PageDelete(Forgive(g), p), "scan")
        ELSE IF good THEN At(run, PageDelete(g, p), "scan")
        ELSE IF r = p THEN At(run, g, "scan")
        ELSE At(run, DropUnmendable(RewriteIndex(g, o, s, p, g.pix), p, f.page[p].id),
                "restart")

BitmapPage(run, p) ==
    IF Ok(run.f) /\ run.at = "scan" /\ p \in run.data \ run.refs
    THEN MendUnreferred(run, p) ELSE run

PageScan(fs) ==
    FoldLeft(BitmapPage,
             FoldLeft(ScanPage,
                      [f |-> fs, refs |-> {}, data |-> {}, at |-> "scan"], AllPages),
             AllPages)
=============================================================================
