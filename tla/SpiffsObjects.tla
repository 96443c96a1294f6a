---------------------------- MODULE SpiffsObjects ----------------------------
(***************************************************************************)
(* Objects in use: descriptors open, write, truncate, remove and map them, *)
(* blocks are cleaned under them.  Power may be lost once, in any write of *)
(* any operation; the chip is then mounted and checked.                    *)
(*                                                                         *)
(* Two history variables.  want[o] is the set of contents object o may be  *)
(* found with, {NoFile} for none; it has one element, but from a loss of   *)
(* power in an operation on o to the end of the check.  damaged is the set *)
(* of objects power was lost in an operation on; all are, if it was lost   *)
(* in a cleaning.                                                          *)
(***************************************************************************)
EXTENDS SpiffsCheck

CONSTANTS
    Writes,     \* the [from, n] of writes: offset and number of bytes
    MaxOps,     \* bound: the number of operations that change the chip
    MaxSize,    \* bound: no write ends beyond it
    Maps,       \* the [from, n] index maps are set to; {}: maps are not used
    TruncateMapped, \* whether objects are truncated that are mapped
    PowerFails, \* whether power may be lost
    UseDamaged, \* whether damaged objects are written, truncated and removed
    NoFile, Unreadable, ErasedByte

ASSUME WriteAssumption ==
    /\ \A w \in Writes : w.from \in Nat /\ w.n \in Nat \ {0}
    /\ \A m \in Maps : m.from \in Nat /\ m.n \in Nat
    /\ {MaxOps, MaxSize} \subseteq Nat /\ Fd # {}
    /\ {TruncateMapped, PowerFails, UseDamaged} \subseteq BOOLEAN

VARIABLES
    fs, want, damaged,
    mode,       \* "on"; "off": not mounted; "lost": cannot be mounted; or
                \* a pass of SPIFFS_check
    ops         \* the operations so far; operation k writes the byte k

vars == <<fs, want, damaged, mode, ops>>

NoLoss == -1    \* fs.fuel never comes to 0

AtRest(f) == [f EXCEPT !.res = "OK", !.fuel = NoLoss, !.fault = "none",
                       !.found = <<0, 0>>, !.pix = NoPix, !.pos = 0,
                       !.broken = "OK", !.out = <<>>,
                       !.work = NoWork]

----------------------------------------------------------------------------
(* What is found of an object.                                             *)

\* spiffs_object_open_by_id; the descriptor may not be one in use.
Opened(f, d, o) ==
    LET h == FindIdSpan(f, IndexId(o), 0, NoPix)
    IN  Then(h, [h EXCEPT !.fds[d] =
            [obj |-> o, hdr |-> h.pix, size |-> SizeOf(h.page[h.pix]),
             cpix |-> h.pix, cspix |-> 0, map |-> NoMap]])

BytesRead(r)    == IF r.res = "OK" THEN r.out ELSE Unreadable
ContentBy(f, d) == BytesRead(Read(f, d, ErasedByte))
ContentOf(f, o) ==
    LET d == CHOOSE d \in Fd : TRUE
        h == Opened(f, d, o)
    IN  IF Ok(h) THEN ContentBy(h, d) ELSE NoFile

IsOpen(d)   == fs.fds[d].obj # NoObj
IsMapped(d) == fs.fds[d].map # NoMap

\* The bytes of c with n times the byte v from offset p on.
Spliced(c, p, n, v) ==
    IF c \in {NoFile, Unreadable} THEN c
    ELSE [i \in 1 .. (IF p + n > Len(c) THEN p + n ELSE Len(c)) |->
        IF p < i /\ i <= p + n THEN v ELSE c[i]]

\* The RAM of an unmounted file system.
NoRam(f) == [f EXCEPT !.free_blocks = 0, !.stats_p_allocated = 0,
                      !.stats_p_deleted = 0, !.free_cursor = <<0, 0>>,
                      !.max_erase_count = 0, !.cleaning = FALSE,
                      !.cursor = <<0, 0>>, !.fds = [d \in Fd |-> Closed],
                      !.work = NoWork]

\* Op runs to its end, or power is lost after so many of its writes.
Outcomes(Op(_)) ==
    LET full   == Op([fs EXCEPT !.fault = "power"])
        writes == NoLoss - full.fuel
    IN  {full} \cup {Op([fs EXCEPT !.fault = "power", !.fuel = n]) :
                        n \in IF PowerFails /\ damaged = {} THEN 0 .. writes - 1 ELSE {}}

PowerLost(f) == f.res = "FAULT"

\* An operation on o has run to f; after are the contents it may leave, or
\* leaves if it succeeded.
Ends(f, o, after) ==
    /\ fs' = IF PowerLost(f) THEN NoRam(AtRest(f)) ELSE AtRest(f)
    /\ mode' = IF PowerLost(f) THEN "off" ELSE "on"
    /\ want' = [want EXCEPT ![o] =
                  IF f.res = "OK" THEN after
                  ELSE IF PowerLost(f) THEN @ \cup after
                  ELSE {ContentOf(AtRest(f), o)} \cap (@ \cup after)]
    /\ damaged' = IF ~PowerLost(f) THEN damaged
                  ELSE IF f.cleaning THEN Obj ELSE damaged \cup {o}
    /\ ops' = ops + 1

----------------------------------------------------------------------------
(* Operations.                                                             *)

Ready == mode = "on" /\ ops < MaxOps

Usable(d) == IsOpen(d) /\ (fs.fds[d].obj \notin damaged \/ UseDamaged)

Open(d, o) ==
    /\ mode = "on" /\ ~IsOpen(d) /\ NoFile \notin want[o]
    /\ fs' = AtRest(Opened(fs, d, o))
    /\ UNCHANGED <<want, damaged, mode, ops>>

Close(d) ==
    /\ IsOpen(d)
    /\ fs' = [fs EXCEPT !.fds[d] = Closed]
    /\ UNCHANGED <<want, damaged, mode, ops>>

\* An object id that no index page has.
CreateObject(o) ==
    /\ Ready /\ \A p \in Page : fs.lu[p] # IndexId(o)
    /\ \E f \in Outcomes(LAMBDA s : Create(s, o)) : Ends(f, o, {<<>>})

WriteTo(d, w) ==
    LET o == fs.fds[d].obj
    IN  /\ Ready /\ Usable(d)
        /\ w.from <= CurSize(fs, d) /\ w.from + w.n <= MaxSize
        /\ \E g \in Outcomes(LAMBDA s : HydroWrite(s, d, w.from, w.n, ops + 1)) :
           \E f \in Settings(g, d) :
              Ends(f, o, {Spliced(c, w.from, m, ops + 1) : c \in want[o],
                          m \in IF f.res = "OK" THEN {w.n} ELSE 0 .. w.n})

TruncateTo0(d) ==
    LET o == fs.fds[d].obj
    IN  /\ Ready /\ Usable(d) /\ CurSize(fs, d) > 0
        /\ TruncateMapped \/ \A e \in Fd : fs.fds[e].obj = o => ~IsMapped(e)
        /\ \E f \in Outcomes(LAMBDA s : Truncate(s, d, FALSE)) :
              Ends(f, o, IF f.res = "OK" THEN {<<>>}
                         ELSE UNION {Prefixes(c) : c \in want[o]})

RemoveObject(d) ==
    /\ Ready /\ Usable(d)
    /\ \E f \in Outcomes(LAMBDA s : Truncate(s, d, TRUE)) :
          Ends(f, fs.fds[d].obj, {NoFile})

\* SPIFFS_gc
Gc(o) ==
    /\ Ready
    /\ \E f \in Outcomes(LAMBDA s : GcCheck(s, NE * DPS)) : Ends(f, o, want[o])

Map(d, m) ==
    /\ IsOpen(d) /\ ~IsMapped(d)
    /\ fs' = AtRest(IxMap(fs, d, m.from, m.n))
    /\ UNCHANGED <<want, damaged, mode, ops>>

\* To a range that overlaps the one mapped: for another, the code clears
\* the map itself, or what follows its buffer (README).
Remap(d, m) ==
    /\ IsOpen(d) /\ IsMapped(d)
    /\ m.from \div DPS \in fs.fds[d].map.start .. fs.fds[d].map.end
    /\ fs' = AtRest(IxRemap(fs, d, m.from))
    /\ UNCHANGED <<want, damaged, mode, ops>>

Unmap(d) ==
    /\ IsOpen(d) /\ IsMapped(d)
    /\ fs' = IxUnmap(fs, d)
    /\ UNCHANGED <<want, damaged, mode, ops>>

----------------------------------------------------------------------------
(* Mounting after a loss of power, and SPIFFS_check.                       *)

Passes(F(_), from, to) ==
    /\ mode = from /\ mode' = to
    /\ fs' = AtRest(F(fs))
    /\ UNCHANGED <<damaged, ops>>

Mount ==
    /\ Passes(ObjLuScan, "off", IF Ok(ObjLuScan(fs)) THEN "lookup" ELSE "lost")
    /\ UNCHANGED want

\* The errors of the three passes do not stop the check.
CheckLookup  == Passes(LookupCheck, "lookup", "index") /\ UNCHANGED want
CheckIndexes == Passes(IndexCheck, "index", "pages") /\ UNCHANGED want

ScanTo(run) ==
    /\ Passes(LAMBDA f : run.f, "pages",
              IF Ok(run.f) /\ run.at = "restart" THEN "restart" ELSE "scan")
    /\ UNCHANGED want
CheckPages == ScanTo(PageScan(fs))
CheckRestarts == Passes(LAMBDA f : f, "restart", "pages") /\ UNCHANGED want

\* What the check left is what is there from now on.
CheckEnds ==
    /\ Passes(ObjLuScan, "scan", "on")
    /\ want' = [o \in Obj |-> IF o \in damaged THEN {ContentOf(fs', o)} ELSE want[o]]

CheckStep == CheckLookup \/ CheckIndexes \/ CheckPages \/ CheckRestarts \/ CheckEnds

----------------------------------------------------------------------------
Init ==
    /\ fs = AtRest(
            [lu    |-> [p \in Page |-> FREE],
             page  |-> [p \in Page |-> Erased],
             ec    |-> [b \in Block |-> 0],
             magic |-> [b \in Block |-> TRUE],
             free_blocks |-> NB, stats_p_allocated |-> 0,
             stats_p_deleted |-> 0, free_cursor |-> <<0, 0>>,
             max_erase_count |-> 1, cleaning |-> FALSE,
             res |-> "OK", fuel |-> NoLoss, fault |-> "none",
             found |-> <<0, 0>>, cursor |-> <<0, 0>>,
             fds |-> [d \in Fd |-> Closed], work |-> NoWork, pix |-> NoPix,
             pos |-> 0, broken |-> "OK", out |-> <<>>])
    /\ want = [o \in Obj |-> {NoFile}] /\ damaged = {}
    /\ mode = "on" /\ ops = 0

Operation ==
    \/ \E d \in Fd : TruncateTo0(d) \/ RemoveObject(d)
    \/ \E d \in Fd, w \in Writes : WriteTo(d, w)
    \/ \E o \in Obj : CreateObject(o) \/ Gc(o)

Next ==
    \/ \E d \in Fd, o \in Obj : Open(d, o)
    \/ \E d \in Fd : Close(d) \/ Unmap(d)
    \/ \E d \in Fd, m \in Maps : Map(d, m) \/ Remap(d, m)
    \/ Operation \/ Mount \/ CheckStep

Spec == Init /\ [][Next]_vars

\* The code goes on while power is there: weak fairness of mounting and
\* checking.  Each of these steps changes the mode, so that one is enabled
\* in every mode but these two.
FairSpec ==
    Spec /\ ([]<>(mode \in {"on", "lost"}) \/ []<><<Mount \/ CheckStep>>_vars)

----------------------------------------------------------------------------
(* Properties of objects power was not lost on.                            *)

\* Every object that is mounted reads back what was written to it, found by
\* its id; none that was removed is found.
ReadsBack ==
    mode = "on" => \A o \in Obj \ damaged : ContentOf(fs, o) \in want[o]

\* The same through every open descriptor, with the page indices and the
\* map it has cached while other descriptors and cleanings moved the pages.
ReadsBackOpen ==
    \A d \in Fd : IsOpen(d) /\ fs.fds[d].obj \notin damaged
                 => ContentBy(fs, d) \in want[fs.fds[d].obj]

\* Pages an object index refers to.
Index(o)  == {p \in Page : fs.lu[p] = IndexId(o) /\ LiveIndex(fs.page[p])}
DataOf(o) == {p \in Page : fs.lu[p] = DataId(o)}
RefsOf(p) == {RefAt(fs.page[p], s) : s \in SpansOf(fs.page[p].span)} \ {NoPix}
Referred(o) == UNION {RefsOf(p) : p \in Index(o)}

\* A page that is in use is finished, and what its lookup entry says it is.
Whole(f, p) ==
    LET pg == f.page[p]
    IN  /\ f.lu[p] \in ObjectIds /\ pg.id = f.lu[p] /\ pg.span \in Nat
        /\ Valid(pg) /\ "IXDELE" \notin pg.flags
        /\ "INDEX" \in pg.flags <=> IsIndexId(f.lu[p])
AsListed(f) ==
    \A p \in Page :
       /\ IsFree(f.lu[p])    => f.page[p] = Erased
       /\ IsDeleted(f.lu[p]) => {"USED", "DELET"} \subseteq f.page[p].flags
       /\ IsBusy(f.lu[p])    => Whole(f, p)

\* An object has one page, if any, for each of its spans; the pages its index
\* refers to are its data pages, of the spans they are referred to for, and
\* they are all it has; and where it has an index page it has a header.
IsPageOf(f, p, id, s) == p \in Page /\ f.lu[p] = id /\ f.page[p].span = s
OneOfEach(f) ==
    \A p, q \in Page :
       IsBusy(f.lu[p]) /\ IsPageOf(f, q, f.lu[p], f.page[p].span) => p = q
RefersToItsData(f) ==
    \A p \in Page : IsIndexId(f.lu[p]) => \A s \in SpansOf(f.page[p].span) :
       RefAt(f.page[p], s) # NoPix =>
          IsPageOf(f, RefAt(f.page[p], s), DataId(f.lu[p].obj), s)
ItsDataIsReferred(f) ==
    \A p \in Page : IsDataId(f.lu[p]) => \E q \in Page :
       /\ IsPageOf(f, q, IndexId(f.lu[p].obj), IxSpan(f.page[p].span))
       /\ RefAt(f.page[q], f.page[p].span) = p
HasItsHeader(f) ==
    \A p \in Page : IsIndexId(f.lu[p]) => \E q \in Page : IsPageOf(f, q, f.lu[p], 0)

Coherent(f) ==
    /\ AsListed(f) /\ OneOfEach(f)
    /\ RefersToItsData(f) /\ ItsDataIsReferred(f) /\ HasItsHeader(f)

\* What the open descriptors have cached of their objects.
Follows(f, fd) ==
    /\ IsPageOf(f, fd.hdr, IndexId(fd.obj), 0)
    /\ fd.cpix # NoPix => IsPageOf(f, fd.cpix, IndexId(fd.obj), fd.cspix)
    /\ \A s \in DOMAIN fd.map.buf : fd.map.buf[s] # NoPix =>
          IsPageOf(f, fd.map.buf[s], DataId(fd.obj), s)
Followed(f) == \A d \in Fd : f.fds[d].obj # NoObj => Follows(f, f.fds[d])

\* No page leaks and none is shared, on a chip power was never lost on, and
\* the descriptors know where the pages are.
HealthyIsCoherent ==
    mode = "on" /\ damaged = {} => Coherent(fs) /\ Followed(fs)

\* The fields of fs, of the pages and of the descriptors.
Fields == {"lu", "page", "ec", "magic", "free_blocks", "stats_p_allocated",
           "stats_p_deleted", "free_cursor", "max_erase_count", "cleaning",
           "res", "fuel", "fault", "found", "cursor", "fds", "work", "pix",
           "pos", "broken", "out"}
State(f) == DOMAIN f = Fields
IsFcn(g) == g = [i \in DOMAIN g |-> g[i]]
IsHeader(pg) ==
    /\ pg = [id |-> pg.id, span |-> pg.span, flags |-> pg.flags, body |-> pg.body]
    /\ IsFcn(pg.body)
Shaped(f) ==
    /\ State(f) /\ DOMAIN f.lu = Page /\ DOMAIN f.page = Page
    /\ \A p \in Page : IsHeader(f.page[p])
IsMap(map) ==
    /\ map = [start |-> map.start, end |-> map.end, buf |-> map.buf]
    /\ map.start \in Nat /\ map.end \in Int
    /\ DOMAIN map.buf \subseteq map.start .. map.end
IsHandle(fd) ==
    /\ fd = [obj |-> fd.obj, hdr |-> fd.hdr, size |-> fd.size, cpix |-> fd.cpix,
             cspix |-> fd.cspix, map |-> fd.map]
    /\ fd.obj \in Obj \cup {NoObj} /\ fd.cspix \in Nat /\ IsMap(fd.map)
Handled(f) == DOMAIN f.fds = Fd /\ \A d \in Fd : IsHandle(f.fds[d])
\* The erase counters are 16 bits wide.
Worn(f) == f.ec \in [Block -> 0 .. EcFree] /\ f.max_erase_count \in 0 .. EcFree

\* Free entries come last in a block, and the cursor stands at the first free
\* entry of its block, or at one end of a block.
Packed(f) ==
    \A b \in Block : \A i, j \in Entry :
       i < j /\ f.lu[<<b, i>>] = FREE => f.lu[<<b, j>>] = FREE
Place == Block \X (0 .. NE)
NoneBelow(f, c) == \A i \in Entry : i < c[2] => f.lu[<<c[1], i>>] # FREE
InMidst(c) == c[2] # 0 /\ c[2] # NE
AtCursor(f) ==
    /\ f.free_cursor \in Place
    /\ InMidst(f.free_cursor) =>
          f.lu[f.free_cursor] = FREE /\ NoneBelow(f, f.free_cursor)
Lined(f) == Packed(f) /\ AtCursor(f)

\* The data pages of an index page are those of its first entries.
Filled(f) ==
    \A p \in Page : IsIndexId(f.lu[p]) => \A s, t \in SpansOf(f.page[p].span) :
       t <= s /\ RefAt(f.page[p], s) # NoPix => RefAt(f.page[p], t) # NoPix

\* The size in a header is a number, or was never programmed.
Sized(f) ==
    \A p \in Page : IsIndexId(f.lu[p]) /\ f.page[p].span = 0
                   => SizeOf(f.page[p]) \in Nat \cup {Undef}

\* What a descriptor takes for missing is missing, and it has the size of its
\* object, up to the two ways of saying that it is empty.
Len0(n) == IF n = Undef THEN 0 ELSE n
NoPage(f, id, s) == \A p \in Page : ~IsPageOf(f, p, id, s)
MapKnows(f, map, o) ==
    \A s \in DOMAIN map.buf : map.buf[s] = NoPix => NoPage(f, DataId(o), s)
Knows(f, fd) ==
    /\ MapKnows(f, fd.map, fd.obj)
    /\ fd.cpix = NoPix => NoPage(f, IndexId(fd.obj), fd.cspix)
    /\ Len0(fd.size) = Len0(SizeOf(f.page[fd.hdr]))
Known(f) == \A d \in Fd : f.fds[d].obj # NoObj => Knows(f, f.fds[d])

\* A state a block can be cleaned in so that every object stays what it is.
Sound(f) ==
    /\ Shaped(f) /\ Lined(f) /\ Coherent(f) /\ Filled(f)
    /\ Handled(f) /\ Followed(f) /\ Known(f)
Fit(f) == Sound(f) /\ Sized(f) /\ Worn(f) /\ f.fault # "erase"

\* Cleaning finds no chip power was never lost on unfit for it: the lookups
\* are filled in order with the free cursor in place, and no descriptor has
\* cached a size, a page or the absence of a page that is not so.
HealthyIsFit ==
    mode = "on" /\ damaged = {} => Fit(fs) /\ fs = AtRest(fs)

\* What writes to no object: cleaning, unless an error ended it other than "no
\* room"; opening and closing; mapping the index.  It keeps what can be read,
\* of every object and through every descriptor that stays open, wherever it
\* moves the pages and whatever of the index it caches.
GcEnds(o) ==
    \E f \in Outcomes(LAMBDA s : GcCheck(s, NE * DPS)) :
       f.res \in {"OK", "FULL"} /\ Ends(f, o, want[o])
Settled ==
    \/ \E o \in Obj : GcEnds(o)
    \/ \E d \in Fd, o \in Obj : Open(d, o)
    \/ \E d \in Fd : Close(d) \/ Unmap(d)
    \/ \E d \in Fd, m \in Maps : Map(d, m) \/ Remap(d, m)
ReadTheSame ==
    /\ \A o \in Obj : ContentOf(fs', o) = ContentOf(fs, o)
    /\ \A d \in Fd : IsOpen(d) /\ IsOpen(d)' => ContentBy(fs', d) = ContentBy(fs, d)
SettledKeeps ==
    [][mode = "on" /\ damaged = {} /\ Settled => ReadTheSame]_vars

\* The check changes nothing on a chip power was never lost on, whatever
\* operations failed for want of room.
SamePages(f) == f.lu = fs.lu /\ f.page = fs.page
HealthyUntouched ==
    mode = "on" /\ damaged = {}
    => SamePages(PageScan(IndexCheck(LookupCheck(fs))).f)

----------------------------------------------------------------------------
(* Properties of the check.                                                *)

\* After a loss of power the check leaves of an object what it was before
\* or after the operation, or after some of it; or an object that cannot be
\* read; or none.  It never leaves one that reads other bytes.
CheckKeeps ==
    [][mode = "scan" /\ mode' = "on"
       => \A o \in damaged :
             ContentOf(fs', o) \in want[o] \cup {NoFile, Unreadable}]_vars

\* "Checks if indices in lookup pages are coherent with page headers" and
\* for pages that are "multiple indexed" (check.c): afterwards they are, and
\* no page is.
Mended ==
    /\ \A p \in Page : IsBusy(fs.lu[p]) => fs.page[p].id = fs.lu[p] /\ Valid(fs.page[p])
    /\ \A o \in Obj : \A p, q \in Index(o) :
          /\ p # q => RefsOf(p) \cap RefsOf(q) = {}
          /\ \A s, t \in SpansOf(fs.page[p].span) :
                s # t /\ RefAt(fs.page[p], s) # NoPix
                => RefAt(fs.page[p], s) # RefAt(fs.page[p], t)
CheckMends == [][mode = "scan" /\ mode' = "on" => Mended']_vars

\* The branches left out of SpiffsCheck are for chips no loss of power
\* leaves: every reference is to a page, and every finished page has the
\* header its lookup entry says.
OnlyKnownDamage ==
    mode # "on" =>
       /\ \A o \in Obj : Referred(o) \subseteq Page
       /\ \A p \in Page : IsBusy(fs.lu[p]) /\ "FINAL" \in fs.page[p].flags
            => /\ fs.page[p].id = fs.lu[p]
               /\ IsIndexId(fs.lu[p]) <=> "INDEX" \in fs.page[p].flags

\* The check ends, however often its page pass starts again.
CheckEventuallyEnds == mode = "off" ~> mode = "on"

\* "If an object index is found but not its header, the object index is
\* deleted." (check.c)
NoOrphanIndex ==
    mode = "on" => \A o \in Obj :
       Index(o) # {} => \E p \in Index(o) : fs.page[p].span = 0
=============================================================================
