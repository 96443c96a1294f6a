-------------------------- MODULE SpiffsPageLayer --------------------------
(***************************************************************************)
(* The page layer of SPIFFS as a state machine: the layers above it        *)
(* allocate, move and delete pages, gc_check cleans blocks, gc_quick and   *)
(* the mount scan erase them, and power may be lost at every flash write.  *)
(*                                                                         *)
(* want is a history variable: want[l] is the content that the last        *)
(* completed operation gave to page l, and ref[l] the page it was told to  *)
(* find it in (in the code, the page index kept in an object index page).  *)
(***************************************************************************)
EXTENDS SpiffsPages

CONSTANTS
    ObjId,       \* the object ids in use, one page each (span index 0)
    Contents,    \* what a page may contain
    Faults,      \* subset of {"power", "write", "erase"}
    MaxWrites,   \* bound: the writes before a fault, at least those of the
                 \* longest operation
    MaxErase,    \* bound: no operation starts beyond this erase count
    MaxFreeBlocks, \* bound: nor beyond this count of free blocks, which
                 \* grows when erasing succeeds and stamping fails
    MaxFree,     \* largest max_free_pages given to SPIFFS_gc_quick
    GcMaxRuns,   \* SPIFFS_GC_MAX_RUNS
    NoPage, NoContent,
    CheckOnMount \* TRUE: SPIFFS_check runs after every mount, before
                 \* anything else is written

ASSUME IdAssumption ==
    /\ FREE \notin ObjId /\ DELETED \notin ObjId /\ Garbage \notin ObjId
    /\ NoPage \notin Page
    /\ NoContent \notin Contents
ASSUME BoundAssumption ==
    /\ MaxWrites \in Nat /\ MaxErase \in Nat /\ MaxFree \in Nat
    /\ GcMaxRuns \in Nat /\ MaxFreeBlocks \in Nat
    /\ Faults \subseteq {"power", "write", "erase"}
    /\ CheckOnMount \in BOOLEAN

VARIABLES
    fs,      \* chip and struct spiffs_t
    mounted, \* "no", "check" (mounted, SPIFFS_check not yet run) or "yes"
    gc,      \* the state of gc_check: block being cleaned, tries so far
    want, ref

vars == <<fs, mounted, gc, want, ref>>

Idle == [blk |-> -1, tries |-> 0, prev |-> 0, need |-> 0, owed |-> FALSE]

----------------------------------------------------------------------------
(* The header and body of a page of object l.                              *)

Header(l)  == [id |-> l, span |-> 0, flags |-> {"INDEX"}, body |-> NoBody]
Body(c)    == [data |-> c]

Holds(f, p, l, c) ==
    /\ f.lu[p] = l
    /\ f.page[p].id = l /\ f.page[p].span = 0
    /\ Valid(f.page[p])
    /\ f.page[p].body = Body(c)

Live == {l \in ObjId : ref[l] # NoPage}

----------------------------------------------------------------------------
(* Running an operation: it starts with n writes left before the fault and *)
(* ends in fs', with the RAM as it left it or, after a power loss, gone.   *)

AtRest(f) == [f EXCEPT !.res = "OK", !.fuel = 0, !.fault = "none",
                       !.found = <<0, 0>>]

Armed(kind, n) == [fs EXCEPT !.fault = kind, !.fuel = n]

\* The RAM of an unmounted file system.
NoRam(f) == [f EXCEPT !.free_blocks = 0, !.stats_p_allocated = 0,
                      !.stats_p_deleted = 0, !.free_cursor = <<0, 0>>,
                      !.max_erase_count = 0, !.cleaning = FALSE]

PowerLost(f) == f.res = "FAULT" /\ f.fault = "power"

\* A fault of kind k strikes after n writes; "none" never strikes.
Arm(k, n) ==
    \/ k = "none" /\ n = MaxWrites
    \/ k \in Faults /\ n \in 0 .. MaxWrites
       /\ (k = "erase" => n = MaxWrites)

\* What survives of page l when the step that moved it was cut short while
\* its content went from old to new: the object index is bound to a copy
\* that can still be found.  want[l] with ref[l] = NoPage is a lost page.
Rebind(f, l, old, new) ==
    LET copies == {p \in Page : \E c \in {old, new} : Holds(f, p, l, c)}
    IN  IF copies = {}
        THEN ref' = [ref EXCEPT ![l] = NoPage] /\ UNCHANGED want
        ELSE \E p \in copies, c \in {old, new} :
                /\ Holds(f, p, l, c)
                /\ (ref[l] \in copies => p = ref[l])
                /\ ref'  = [ref EXCEPT ![l] = p]
                /\ want' = [want EXCEPT ![l] = c]

\* An operation has run to f.
Finish(f) ==
    /\ fs' = IF PowerLost(f) THEN NoRam(AtRest(f)) ELSE AtRest(f)
    /\ mounted' = IF PowerLost(f) THEN "no" ELSE mounted
    /\ gc' = IF PowerLost(f) THEN Idle ELSE gc

Ready == /\ mounted = "yes" /\ gc = Idle
         /\ fs.max_erase_count <= MaxErase
         /\ fs.free_blocks <= MaxFreeBlocks

----------------------------------------------------------------------------
(* Operations of the layers above.                                         *)

Allocate(l, c, k, n) ==
    /\ Ready /\ want[l] = NoContent
    /\ LET f == PageAllocateData(Armed(k, n), Header(l), Body(c), TRUE)
       IN  /\ Finish(f)
           /\ IF f.res = "OK"
              THEN /\ ref'  = [ref EXCEPT ![l] = f.found]
                   /\ want' = [want EXCEPT ![l] = c]
              ELSE UNCHANGED <<want, ref>>

\* A new version of the page goes to a new place (page_move with data).
Rewrite(l, c, k, n) ==
    /\ Ready /\ l \in Live
    /\ LET data == [Header(l) EXCEPT !.flags = {"INDEX", "USED", "FINAL"},
                                     !.body = Body(c)]
           f == PageMove(Armed(k, n), l, ref[l], data)
       IN  /\ Finish(f)
           /\ IF f.res = "OK"
              THEN /\ ref'  = [ref EXCEPT ![l] = f.found]
                   /\ want' = [want EXCEPT ![l] = c]
              ELSE Rebind(f, l, want[l], c)

Remove(l, k, n) ==
    /\ Ready /\ l \in Live
    /\ Finish(PageDelete(Armed(k, n), ref[l]))
    /\ ref'  = [ref EXCEPT ![l] = NoPage]
    /\ want' = [want EXCEPT ![l] = NoContent]

----------------------------------------------------------------------------
(* SPIFFS_gc_quick and spiffs_gc_check.                                    *)

QuickGc(max, k, n) ==
    /\ Ready
    /\ Finish(GcQuick(Armed(k, n), max))
    /\ UNCHANGED <<want, ref>>

PickBlock(tries, need) ==
    LET b == GcFindCandidate(fs, FreePages(fs) <= 0)
    IN  /\ fs' = StartCleaning(fs, b)
        /\ gc' = [blk |-> b, tries |-> tries, prev |-> FreePages(fs),
                  need |-> need, owed |-> FALSE]

GcCheck(need) ==
    /\ Ready
    /\ ~(fs.free_blocks > 3 /\ need < FreePages(fs))
    /\ need <= FreePages(fs) + fs.stats_p_deleted
    /\ PickBlock(0, need)
    /\ UNCHANGED <<mounted, want, ref>>

Cleaning == mounted = "yes" /\ gc.blk \in Block

\* An error inside gc_clean ends gc_check.
FinishClean(f, owed) ==
    /\ fs' = IF PowerLost(f) THEN NoRam(AtRest(f))
             ELSE IF f.res # "OK" THEN [AtRest(f) EXCEPT !.cleaning = FALSE]
             ELSE AtRest(f)
    /\ mounted' = IF PowerLost(f) THEN "no" ELSE mounted
    /\ gc' = IF f.res # "OK" THEN Idle ELSE [gc EXCEPT !.owed = owed]

\* A page of the block is copied to a free page elsewhere.
GcEvacuate(p, k, n) ==
    /\ Cleaning /\ fs.cleaning /\ p[1] = gc.blk /\ IsBusy(fs.lu[p])
    /\ LET l == fs.lu[p]
           f == PageMove(Armed(k, n), l, p, Erased)
       IN  /\ l \in Live
           /\ FinishClean(f, TRUE)
           /\ IF ref[l] = p
              THEN IF f.res = "OK"
                   THEN ref' = [ref EXCEPT ![l] = f.found] /\ UNCHANGED want
                   ELSE Rebind(f, l, want[l], want[l])
              ELSE UNCHANGED <<want, ref>>

\* The object index of evacuated pages is stored anew, wherever it is.
GcStoreIndex(l, c, k, n) ==
    /\ Cleaning /\ fs.cleaning /\ gc.owed /\ l \in Live
    /\ LET data == [Header(l) EXCEPT !.flags = {"INDEX", "USED", "FINAL"},
                                     !.body = Body(c)]
           f == PageMove(Armed(k, n), l, ref[l], data)
       IN  /\ FinishClean(f, FALSE)
           /\ IF f.res = "OK"
              THEN /\ ref'  = [ref EXCEPT ![l] = f.found]
                   /\ want' = [want EXCEPT ![l] = c]
              ELSE Rebind(f, l, want[l], c)

\* A page whose object has no index any more is wiped instead.
GcWipe(p, k, n) ==
    /\ Cleaning /\ fs.cleaning /\ p[1] = gc.blk /\ IsBusy(fs.lu[p])
    /\ fs.lu[p] \notin Live
    /\ FinishClean(PageDelete(Armed(k, n), p), gc.owed)
    /\ UNCHANGED <<want, ref>>

\* The block is clean: account for it and erase it.
GcErase(k, n) ==
    /\ Cleaning /\ fs.cleaning
    /\ PagesOf(fs, gc.blk, IsBusy) = {}
    /\ LET a == [Armed(k, n) EXCEPT !.cleaning = FALSE]
           f == EraseBlock(GcErasePageStats(a, gc.blk), gc.blk)
       IN  FinishClean(f, FALSE)
    /\ UNCHANGED <<want, ref>>

\* The loop condition of gc_check, after the block was erased.
GcLoop ==
    /\ Cleaning /\ ~fs.cleaning
    /\ IF /\ ~(gc.prev <= 0 /\ gc.prev = FreePages(fs))
          /\ gc.tries + 1 < GcMaxRuns
          /\ (fs.free_blocks <= 2 \/ gc.need > FreePages(fs))
       THEN PickBlock(gc.tries + 1, gc.need)
       ELSE gc' = Idle /\ UNCHANGED fs
    /\ UNCHANGED <<mounted, want, ref>>

----------------------------------------------------------------------------
(* Power, mounting, and the part of SPIFFS_check the page layer needs.     *)

PowerLoss ==
    /\ "power" \in Faults /\ mounted # "no"
    /\ fs' = NoRam(fs) /\ mounted' = "no" /\ gc' = Idle
    /\ UNCHANGED <<want, ref>>

Unmount ==
    /\ mounted = "yes" /\ gc = Idle
    /\ fs' = NoRam(fs) /\ mounted' = "no"
    /\ UNCHANGED <<gc, want, ref>>

\* References to pages whose lookup entry is gone are not found again.
Relocate(f) ==
    ref' = [l \in ObjId |->
              IF ref[l] # NoPage /\ f.lu[ref[l]] = l THEN ref[l] ELSE NoPage]

Mount(k, n) ==
    /\ mounted = "no"
    /\ k # "none" => ScannedEraseCount(fs) <= MaxErase
    /\ LET f == ObjLuScan(Armed(k, n))
       IN  /\ fs' = IF f.res = "OK" THEN AtRest(f) ELSE NoRam(AtRest(f))
           /\ mounted' = IF f.res # "OK" THEN "no"
                         ELSE IF CheckOnMount THEN "check" ELSE "yes"
           /\ Relocate(f)
    /\ UNCHANGED <<gc, want>>

\* Mutant of Mendable: a programmed page with a free entry is left as it is.
MendableOccupied(p) ==
    /\ ~IsFree(fs.lu[p])
    /\ \/ IsDeleted(fs.lu[p]) /\ "DELET" \notin fs.page[p].flags
       \/ /\ IsBusy(fs.lu[p])
          /\ \/ fs.page[p].id # fs.lu[p]
             \/ "DELET" \in fs.page[p].flags
             \/ "FINAL" \notin fs.page[p].flags

\* spiffs_lookup_check_validate on a page nothing refers to: the lookup and
\* the page header disagree, or the page was never finalised.
Mendable(p) ==
    LET pg == fs.page[p]
    IN  \/ IsFree(fs.lu[p]) /\ "USED" \in pg.flags
        \/ IsDeleted(fs.lu[p]) /\ "DELET" \notin pg.flags
        \/ /\ IsBusy(fs.lu[p])
           /\ \/ pg.id # fs.lu[p]
              \/ "DELET" \in pg.flags
              \/ "FINAL" \notin pg.flags

Check(p, k, n) ==
    /\ mounted = "check" /\ Mendable(p)
    /\ \A l \in ObjId : ref[l] # p
    /\ Finish(PageDelete(Armed(k, n), p))
    /\ UNCHANGED <<want, ref>>

Checked(k, n) ==
    /\ mounted = "check"
    /\ \A p \in Page : Mendable(p) => \E l \in ObjId : ref[l] = p
    /\ k # "none" => ScannedEraseCount(fs) <= MaxErase
    /\ LET f == ObjLuScan(Armed(k, n))
       IN  /\ fs' = IF f.res = "OK" THEN AtRest(f) ELSE NoRam(AtRest(f))
           /\ mounted' = IF f.res = "OK" THEN "yes" ELSE "no"
           /\ Relocate(f)
    /\ UNCHANGED <<gc, want>>

----------------------------------------------------------------------------
\* The state after SPIFFS_format and SPIFFS_mount.
Init ==
    /\ fs = [lu    |-> [p \in Page |-> FREE],
             page  |-> [p \in Page |-> Erased],
             ec    |-> [b \in Block |-> 0],
             magic |-> [b \in Block |-> TRUE],
             free_blocks |-> NB, stats_p_allocated |-> 0,
             stats_p_deleted |-> 0, free_cursor |-> <<0, 0>>,
             max_erase_count |-> 1, cleaning |-> FALSE,
             res |-> "OK", fuel |-> 0, fault |-> "none", found |-> <<0, 0>>]
    /\ mounted = "yes" /\ gc = Idle
    /\ want = [l \in ObjId |-> NoContent]
    /\ ref = [l \in ObjId |-> NoPage]

Operation(k, n) ==
    \/ \E l \in ObjId, c \in Contents :
          Allocate(l, c, k, n) \/ Rewrite(l, c, k, n) \/ GcStoreIndex(l, c, k, n)
    \/ \E l \in ObjId : Remove(l, k, n)
    \/ \E max \in 0 .. MaxFree : QuickGc(max, k, n)
    \/ \E p \in Page : GcEvacuate(p, k, n) \/ GcWipe(p, k, n) \/ Check(p, k, n)
    \/ GcErase(k, n)
    \/ Mount(k, n) \/ Checked(k, n)

Next ==
    \/ \E k \in Faults \cup {"none"}, n \in 0 .. MaxWrites :
          Arm(k, n) /\ Operation(k, n)
    \/ GcCheck(1) \/ GcLoop
    \/ Unmount \/ PowerLoss

Spec == Init /\ [][Next]_vars

----------------------------------------------------------------------------
(* Properties.                                                             *)

Mark    == ObjId \cup {FREE, DELETED}
Flag    == {"USED", "FINAL", "INDEX", "IXDELE", "DELET"}
BodySet == {NoBody} \cup [{"data"} -> Contents \cup {Garbage}]
PageSet == [id    : ObjId \cup {FREE, Garbage},
            span  : {0, FREE, Garbage},
            flags : SUBSET Flag,
            body  : BodySet]

State == [lu    : [Page -> Mark],
          page  : [Page -> PageSet],
          ec    : [Block -> 0 .. EcFree],
          magic : [Block -> BOOLEAN],
          free_blocks       : Int,
          stats_p_allocated : Int,
          stats_p_deleted   : Int,
          free_cursor       : Block \X (0 .. NE),
          max_erase_count   : 0 .. EcFree,
          cleaning          : BOOLEAN,
          res   : {"OK", "FAULT", "FULL", "NOT_FOUND", "NO_DELETED_BLOCKS",
                   "NOT_A_FS"},
          fuel  : Nat,
          fault : {"none", "power", "write", "erase"},
          found : Page]

\* Every variable has its type.
TypeOK ==
    /\ fs \in State
    /\ mounted \in {"no", "check", "yes"}
    /\ gc \in [blk : Block \cup {-1}, tries : Nat, prev : Int, need : Nat,
               owed : BOOLEAN]
    /\ want \in [ObjId -> Contents \cup {NoContent}]
    /\ ref \in [ObjId -> Page \cup {NoPage}]

\* The counters that gc_check and SPIFFS_info compute with are the numbers
\* of busy and of deleted pages on the chip, whatever operations failed.
StatsExact ==
    mounted = "yes" =>
        /\ fs.stats_p_allocated = Cardinality(BusyPages(fs))
        /\ fs.stats_p_deleted = Cardinality(DeletedPages(fs))

\* The counter never hides a free block: find_free does not report a full
\* file system while two blocks are free.
FreeBlocksNotUnder ==
    mounted = "yes" => fs.free_blocks >= Cardinality(FreeBlocks(fs))

\* In every block the free entries follow the others, so that the scans of
\* gc_find_candidate and obj_lu_scan_v may stop at, or look only at, one.
FreeEntriesTrail ==
    \A p, q \in Page :
        p[1] = q[1] /\ p[2] < q[2] /\ IsFree(fs.lu[p]) => IsFree(fs.lu[q])

\* A page that the lookup calls free has not been programmed since its block
\* was erased: what an allocation writes is what will be read back.
FreeMeansErased ==
    mounted = "yes" => \A p \in Page : IsFree(fs.lu[p]) => fs.page[p] = Erased

\* Every page an upper layer was told about is still found, valid, and has
\* the content it was given (or was being given when power was lost).
CommittedSurvive ==
    \A l \in ObjId : want[l] # NoContent =>
        ref[l] # NoPage /\ Holds(fs, ref[l], l, want[l])

\* As long as a block being cleaned still has busy pages, there is a free
\* page outside it to move them to.  This is what the two blocks that
\* find_free keeps in reserve are for; a free_blocks that counts too many
\* gives the reserve away.
GcNeverStarves ==
    Cleaning /\ fs.cleaning /\ PagesOf(fs, gc.blk, IsBusy) # {} =>
        \E p \in Page : p[1] # gc.blk /\ IsFree(fs.lu[p])

\* Mounting finds every committed page again that was there before.
MountKeepsPages ==
    [][mounted = "no" => \A l \in ObjId :
          want[l] # NoContent /\ ref[l] # NoPage => ref'[l] = ref[l]]_vars
=============================================================================
