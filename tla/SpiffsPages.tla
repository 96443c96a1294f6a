---------------------------- MODULE SpiffsPages ----------------------------
(***************************************************************************)
(* The page layer of SPIFFS (src/src/spiffs/spiffs_nucleus.c and the block *)
(* erasing half of spiffs_gc.c) as operators on a state record fs.         *)
(*                                                                         *)
(* The chip: NB blocks of NE pages each (the object lookup pages of a      *)
(* block are not counted).  fs.lu[p] is the lookup entry of page p,        *)
(* fs.page[p] its header and body, fs.ec[b] and fs.magic[b] the erase      *)
(* count and the magic stored at the end of the lookup of block b.         *)
(* The RAM: the fields of struct spiffs_t the page layer keeps.            *)
(*                                                                         *)
(* Flash is NOR: a write clears bits, only an erase sets them again.  A    *)
(* header flag is therefore an element of a set that only grows (a flag is *)
(* "set" when its bit is cleared), and a field programmed twice with two   *)
(* values reads back as Garbage.                                           *)
(*                                                                         *)
(* Faults.  fs.fuel counts the writes that still reach the chip.  When it  *)
(* is used up, fs.res becomes "FAULT" and nothing after that write runs,   *)
(* as SPIFFS_CHECK_RES returns at once; the caller decides whether that    *)
(* was a loss of power (fault "power") or an error returned by the HAL     *)
(* (fault "write"); fault "none" never strikes.  Fault "erase" is a HAL    *)
(* erase that fails: its result is ignored by spiffs_erase_block.  One     *)
(* _spiffs_wr is atomic.                                                   *)
(***************************************************************************)
EXTENDS Integers, FiniteSets

CONSTANTS
    NB,         \* fs->block_count
    NE,         \* SPIFFS_OBJ_LOOKUP_MAX_ENTRIES
    FREE,       \* SPIFFS_OBJ_ID_FREE
    DELETED,    \* SPIFFS_OBJ_ID_DELETED
    Garbage,    \* a field whose bits were programmed twice
    EcFlag      \* SPIFFS_OBJ_ID_IX_FLAG, where max_erase_count wraps

ASSUME GeometryAssumption ==
    /\ NB \in Nat /\ NB > 2
    /\ NE \in Nat /\ NE > 0
    /\ EcFlag \in Nat /\ EcFlag > 1
ASSUME MarkAssumption == FREE # DELETED

Block == 0 .. NB - 1
Entry == 0 .. NE - 1
Page  == Block \X Entry

\* The 16-bit value read from an erased erase counter.
EcFree == 2 * EcFlag - 1

----------------------------------------------------------------------------
(* Pages and NOR programming.                                              *)

NoBody == [i \in {} |-> i]
Erased == [id |-> FREE, span |-> FREE, flags |-> {}, body |-> NoBody]

\* Programming a field: erased bits take the new value.
Prog(old, new, blank) ==
    IF old = blank \/ old = new THEN new
    ELSE IF new = blank THEN old
    ELSE Garbage

\* A body is a function on the slots written so far.
ProgBody(old, new) ==
    [i \in DOMAIN old \cup DOMAIN new |->
        IF i \notin DOMAIN old THEN new[i]
        ELSE IF i \notin DOMAIN new \/ old[i] = new[i] THEN old[i]
        ELSE Garbage]

ProgPage(old, new) ==
    [id    |-> Prog(old.id, new.id, FREE),
     span  |-> Prog(old.span, new.span, FREE),
     flags |-> old.flags \cup new.flags,
     body  |-> ProgBody(old.body, new.body)]

\* The test of spiffs_obj_lu_find_id_and_span_v on a page header.
Valid(pg) ==
    /\ {"USED", "FINAL"} \subseteq pg.flags
    /\ "DELET" \notin pg.flags

----------------------------------------------------------------------------
(* The HAL, with faults.                                                   *)

Ok(fs) == fs.res = "OK"

\* One _spiffs_wr: new is fs with the written bytes changed.
Write(fs, new) ==
    IF ~Ok(fs) THEN fs
    ELSE IF fs.fault = "none" THEN new
    ELSE IF fs.fuel = 0 THEN [fs EXCEPT !.res = "FAULT"]
    ELSE [new EXCEPT !.fuel = fs.fuel - 1]

WriteLu(fs, p, id) ==
    Write(fs, [fs EXCEPT !.lu[p] = IF id = DELETED THEN DELETED
                                   ELSE Prog(@, id, FREE)])

WritePage(fs, p, pg) == Write(fs, [fs EXCEPT !.page[p] = ProgPage(@, pg)])

WriteFlags(fs, p, flags) ==
    Write(fs, [fs EXCEPT !.page[p].flags = @ \cup flags])

\* Two numbers programmed at one place read back as their bitwise AND.
Bits(n)   == {i \in 0 .. 15 : (n \div 2^i) % 2 = 1}
And(m, n) == CHOOSE k \in 0 .. EcFree : Bits(k) = Bits(m) \cap Bits(n)

WriteEraseCount(fs, b, n) ==
    Write(fs, [fs EXCEPT !.ec[b] = IF @ = EcFree THEN n ELSE And(@, n)])

WriteMagic(fs, b) == Write(fs, [fs EXCEPT !.magic[b] = TRUE])

\* The result of SPIFFS_HAL_ERASE is ignored.
EraseFlash(fs, b) ==
    LET blank == [fs EXCEPT
            !.lu    = [p \in Page |-> IF p[1] = b THEN FREE ELSE @[p]],
            !.page  = [p \in Page |-> IF p[1] = b THEN Erased ELSE @[p]],
            !.ec[b] = EcFree,
            !.magic[b] = FALSE]
    IN  IF ~Ok(fs) \/ fs.fault = "erase" THEN fs
        ELSE IF fs.fault = "power" THEN Write(fs, blank)
        ELSE blank

\* An assignment to a field of the RAM, skipped after an error return.
Then(fs, new) == IF Ok(fs) THEN new ELSE fs

Fail(fs, code) == IF Ok(fs) THEN [fs EXCEPT !.res = code] ELSE fs

----------------------------------------------------------------------------
(* Counting.                                                               *)

InBlock(b) == {b} \X Entry
PagesOf(fs, b, Test(_)) == {p \in InBlock(b) : Test(fs.lu[p])}

IsFree(id)    == id = FREE
IsDeleted(id) == id = DELETED
IsBusy(id)    == id # FREE /\ id # DELETED

BusyPages(fs)    == {p \in Page : IsBusy(fs.lu[p])}
DeletedPages(fs) == {p \in Page : IsDeleted(fs.lu[p])}
\* obj_lu_scan counts a block as free by its first entry alone.
FreeBlocks(fs)   == {b \in Block : IsFree(fs.lu[<<b, 0>>])}

\* Free pages gc_check believes in; two blocks are spare.
FreePages(fs) == NE * (NB - 2) - fs.stats_p_allocated - fs.stats_p_deleted

----------------------------------------------------------------------------
(* spiffs_erase_block, spiffs_gc_erase_block, spiffs_gc_erase_page_stats   *)

EraseBlock(fs, b) ==
    LET erased  == EraseFlash(fs, b)
        counted == Then(erased, [erased EXCEPT !.free_blocks = @ + 1])
        stamped == WriteEraseCount(counted, b, fs.max_erase_count)
        marked  == WriteMagic(stamped, b)
    IN  Then(marked, [marked EXCEPT
            !.max_erase_count = IF @ + 1 \in {EcFlag, EcFree + 1} THEN 0
                                ELSE @ + 1])

\* Mutant of GcErasePageStats: the deleted pages are not taken off.
GcErasePageStatsBusy(fs, b) ==
    Then(fs, [fs EXCEPT
        !.stats_p_allocated = @ - Cardinality(PagesOf(fs, b, IsBusy))])

GcErasePageStats(fs, b) ==
    Then(fs, [fs EXCEPT
        !.stats_p_allocated = @ - Cardinality(PagesOf(fs, b, IsBusy)),
        !.stats_p_deleted   = @ - Cardinality(PagesOf(fs, b, IsDeleted))])

----------------------------------------------------------------------------
(* spiffs_gc_quick: the first block in which every page is deleted, or     *)
(* free with at most max free ones.                                        *)

Least(S)    == CHOOSE x \in S : \A y \in S : x <= y
Greatest(S) == CHOOSE x \in S : \A y \in S : x >= y

QuickCandidates(fs, max) ==
    {b \in Block : /\ PagesOf(fs, b, IsBusy) = {}
                   /\ Cardinality(PagesOf(fs, b, IsFree)) <= max}

GcQuick(fs, max) ==
    LET cands == QuickCandidates(fs, max)
        b     == Least(cands)
    IN  IF ~Ok(fs) THEN fs
        ELSE IF cands = {} THEN Fail(fs, "NO_DELETED_BLOCKS")
        ELSE EraseBlock([fs EXCEPT !.stats_p_deleted =
                            @ - Cardinality(PagesOf(fs, b, IsDeleted))], b)

----------------------------------------------------------------------------
(* spiffs_obj_lu_find_free.  spiffs_obj_lu_find_entry_visitor looks from   *)
(* the cursor to the end of the chip, then from the start of the chip.     *)

Before(p, q) == p[1] < q[1] \/ (p[1] = q[1] /\ p[2] < q[2])
First(S)     == CHOOSE p \in S : \A q \in S : ~Before(q, p)

\* The page of S that a visit starting at cursor meets first.
FirstFrom(cursor, S) ==
    LET ahead == {p \in S : ~Before(p, cursor)}
    IN  First(IF ahead # {} THEN ahead ELSE S)

FreeEntries(fs) == {p \in Page : IsFree(fs.lu[p])}
NextFree(fs)    == FirstFrom(fs.free_cursor, FreeEntries(fs))

\* The quick garbage collection that keeps two blocks in reserve.
Forgiven(g) == IF g.res = "NO_DELETED_BLOCKS" THEN [g EXCEPT !.res = "OK"]
               ELSE g
TwoOrFull(h) == IF h.free_blocks < 2 THEN Fail(h, "FULL") ELSE h
Reserve(fs) ==
    IF fs.cleaning \/ fs.free_blocks >= 2 THEN fs
    ELSE TwoOrFull(Forgiven(GcQuick(fs, 0)))

\* Mutants of TakeEntry: the cursor one entry too far; a block taken from
\* the free ones with every entry.
TakeEntryPastEnd(fs, p) ==
    [fs EXCEPT !.free_cursor = <<p[1], p[2] + 2>>,
               !.free_blocks = IF p[2] = 0 THEN @ - 1 ELSE @]
TakeEntryAndBlock(fs, p) ==
    [fs EXCEPT !.free_cursor = <<p[1], p[2] + 1>>, !.free_blocks = @ - 1]

TakeEntry(fs, p) ==
    [fs EXCEPT !.free_cursor = <<p[1], p[2] + 1>>,
               !.free_blocks = IF p[2] = 0 THEN @ - 1 ELSE @]

\* Reserves, finds and takes an entry; fs.found is where it is.
FindIn(r) ==
    IF ~Ok(r) THEN r
    ELSE IF FreeEntries(r) = {} THEN Fail(r, "NOT_FOUND")
    ELSE [TakeEntry(r, NextFree(r)) EXCEPT !.found = NextFree(r)]
FindFree(fs) == FindIn(Reserve(fs))

----------------------------------------------------------------------------
(* spiffs_page_delete, spiffs_page_allocate_data, spiffs_page_move         *)

PageDelete(fs, p) ==
    LET marked  == WriteLu(fs, p, DELETED)
        counted == Then(marked, [marked EXCEPT
                        !.stats_p_deleted = @ + 1,
                        !.stats_p_allocated = @ - 1])
    IN  WriteFlags(counted, p, {"DELET", "USED"})

CountAllocated(fs) == Then(fs, [fs EXCEPT !.stats_p_allocated = @ + 1])

\* f is the result of find_free; hdr is a page without body; body = NoBody
\* is a null data pointer.
AllocateAt(f, hdr, body, finalize) ==
    LET p == f.found
        occupied == CountAllocated(WriteLu(f, p, hdr.id))
        headed   == WritePage(occupied, p,
                        [hdr EXCEPT !.flags = @ \cup {"USED"}])
        filled   == IF body = NoBody THEN headed
                    ELSE WritePage(headed, p, [Erased EXCEPT !.body = body])
    IN  IF ~Ok(f) THEN f
        ELSE IF finalize THEN WriteFlags(filled, p, {"FINAL"})
        ELSE filled

PageAllocateData(fs, hdr, body, finalize) ==
    AllocateAt(FindFree(fs), hdr, body, finalize)

\* Mutant of MoveTo: the source is deleted before its copy is written.
MoveToDeletesFirst(f, id, src, data) ==
    LET p == f.found
        deleted == PageDelete(f, src)
        written == WritePage(deleted, p, IF data = Erased THEN f.page[src]
                                         ELSE data)
    IN  IF ~Ok(f) THEN f ELSE CountAllocated(WriteLu(written, p, id))

\* Mutant of MoveTo: the source is left.
MoveToKeepsSource(f, id, src, data) ==
    LET written == WritePage(f, f.found, IF data = Erased THEN f.page[src]
                                         ELSE data)
    IN  IF ~Ok(f) THEN f ELSE CountAllocated(WriteLu(written, f.found, id))

\* f is the result of find_free.  data is the new content of the page, or
\* Erased for a null page_data: the source page is then copied as it is, by
\* spiffs_phys_cpy in chunks, which are one write here: until the page is marked
\* its entry is free, whether all of it or a part was programmed.
MoveTo(f, id, src, data) ==
    LET p       == f.found
        copying == data = Erased
        written == WritePage(f, p,
                     IF copying THEN f.page[src]
                     ELSE [data EXCEPT !.flags =
                             (@ \ {"FINAL"}) \cup {"USED"}])
        marked  == CountAllocated(WriteLu(written, p, id))
        final   == IF ~copying /\ "FINAL" \in data.flags
                   THEN WriteFlags(marked, p, data.flags \cup {"USED"})
                   ELSE marked
    IN  IF ~Ok(f) THEN f ELSE PageDelete(final, src)

PageMove(fs, id, src, data) == MoveTo(FindFree(fs), id, src, data)

----------------------------------------------------------------------------
(* Choosing and opening a block to clean (spiffs_gc.c).                    *)

\* gc_find_candidate: the scan of a block stops at its first free entry.
Scanned(fs, b) == {p \in InBlock(b) :
                     \A q \in InBlock(b) : q[2] <= p[2] => fs.lu[q] # FREE}

EraseAge(fs, b) ==
    IF fs.max_erase_count > fs.ec[b] THEN fs.max_erase_count - fs.ec[b]
    ELSE EcFree - (fs.ec[b] - fs.max_erase_count)

Score(fs, b, crammed) ==
    5 * Cardinality({p \in Scanned(fs, b) : IsDeleted(fs.lu[p])})
      - Cardinality({p \in Scanned(fs, b) : IsBusy(fs.lu[p])})
      + (IF crammed THEN 0 ELSE 50 * EraseAge(fs, b))

\* The table is sorted by falling score, equal scores by block index.
GcFindCandidate(fs, crammed) ==
    CHOOSE b \in Block : \A d \in Block :
        \/ Score(fs, b, crammed) > Score(fs, d, crammed)
        \/ Score(fs, b, crammed) = Score(fs, d, crammed) /\ b <= d

\* Mutant of StartCleaning: the cursor stays in the block.
StartCleaningInPlace(fs, b) == [fs EXCEPT !.cleaning = TRUE]

\* gc_clean takes the free cursor out of the block it is about to empty.
StartCleaning(fs, b) ==
    [fs EXCEPT !.cleaning = TRUE,
               !.free_cursor = IF @[1] = b THEN <<(b + 1) % NB, 0>> ELSE @]

----------------------------------------------------------------------------
(* spiffs_obj_lu_scan: what mounting reads back from the chip.             *)

BadMagic(fs)    == {b \in Block : ~fs.magic[b]}
KnownCounts(fs) == {fs.ec[b] : b \in {c \in Block : fs.ec[c] # EcFree}}

ScannedEraseCount(fs) ==
    LET min == Least(KnownCounts(fs) \cup {EcFree})
        max == Greatest(KnownCounts(fs) \cup {0})
    IN  IF min = 0 /\ max = EcFree THEN 0
        ELSE IF max - min > EcFree \div 2 THEN min + 1
        ELSE max + 1

CountPages(fs) ==
    Then(fs, [fs EXCEPT
        !.free_blocks       = Cardinality(FreeBlocks(fs)),
        !.stats_p_allocated = Cardinality(BusyPages(fs)),
        !.stats_p_deleted   = Cardinality(DeletedPages(fs))])

ObjLuScan(fs) ==
    LET counted == [fs EXCEPT !.max_erase_count = ScannedEraseCount(fs)]
    IN  IF Cardinality(BadMagic(fs)) > 1 THEN Fail(fs, "NOT_A_FS")
        ELSE IF BadMagic(fs) = {} THEN CountPages(counted)
        ELSE CountPages(EraseBlock(counted, Least(BadMagic(fs))))
=============================================================================
