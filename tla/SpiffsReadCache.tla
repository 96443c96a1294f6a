--------------------------- MODULE SpiffsReadCache ---------------------------
(***************************************************************************)
(* The cache of SPIFFS (src/src/spiffs/spiffs_cache.c): cache pages that   *)
(* hold a copy of a flash page, and cache pages given to an object whose   *)
(* writes wait in them.  One action is one call of the layers above:       *)
(* spiffs_phys_rd, spiffs_phys_wr, erasing a block, giving and taking back *)
(* the write page of an object, mounting.                                  *)
(*                                                                         *)
(* A write replaces the bytes of a cached copy, but on the chip it only    *)
(* clears bits.  The two agree as long as who writes a byte gives every    *)
(* bit that is cleared in it already, as every SPIFFS_OP_C_UPDT write does *)
(* but the blind ones of spiffs_check.c: Spec has the former only,         *)
(* BlindSpec both.                                                         *)
(*                                                                         *)
(* A HAL call that fails changes nothing on the chip; a failed erase goes  *)
(* unnoticed.  The flag SPIFFS_CACHE_FLAG_DIRTY is never set, so that no   *)
(* eviction writes anything.                                               *)
(*                                                                         *)
(* The age of a cache page stands for cache->last_access minus its         *)
(* last_access: only whether it is 0 and which of two is greater is ever   *)
(* asked, so the ages are kept as ranks.                                   *)
(***************************************************************************)
EXTENDS NorFlash, FiniteSets

CONSTANTS
    NC,         \* cpage_count
    ObjId,      \* objects that may hold a write page
    Nothing,    \* what a free cache page is a copy of
    Faults,     \* the HAL calls that may fail: "read", "write", "erase"
    MaxSuspect  \* bound: no HAL call fails beyond this many suspect pages

ASSUME CacheAssumption ==
    /\ NC \in Nat /\ MaxSuspect \in Nat
    /\ Nothing \notin Page \cup ObjId
    /\ Faults \subseteq {"read", "write", "erase"}

VARIABLES
    cpage,        \* the headers and contents of the cache pages
    pending,      \* history: the objects that were given a write page
    mounted

vars == <<flash, suspect, reply, cpage, pending, mounted>>

Slot == 0 .. NC - 1
Unused == [kind |-> "free", of |-> Nothing, mem |-> {}, age |-> 0]

----------------------------------------------------------------------------
(* The functions of spiffs_cache.c on the cache pages c.                   *)

FreeSlots(c) == {s \in Slot : c[s].kind = "free"}

\* Mutant of Holders: the search starts with the second cache page.
HoldersFromOne(p) == {s \in Slot \ {0} : cpage[s].kind = "read" /\ cpage[s].of = p}

\* spiffs_cache_page_get: the cache pages with a copy of p.
Holders(p) == {s \in Slot : cpage[s].kind = "read" /\ cpage[s].of = p}

Lowest(S) == CHOOSE s \in S : \A t \in S : s <= t

\* cache->last_access is incremented.
Older(c) == [s \in Slot |-> IF c[s].kind = "free" THEN c[s]
                            ELSE [c[s] EXCEPT !.age = @ + 1]]

\* The ages replaced by their ranks.
Ranked(c) ==
    [s \in Slot |-> [c[s] EXCEPT !.age =
        IF @ = 0 THEN 0
        ELSE 1 + Cardinality({c[t].age : t \in Slot} \cap (1 .. @ - 1))]]

\* Mutant of Evictable: write pages too.
EvictableAny(c) == {s \in Slot : c[s].age > 0}

\* The read pages spiffs_cache_page_remove_oldest may take: a page of age 0
\* is no candidate.
Evictable(c) == {s \in Slot : c[s].kind = "read" /\ c[s].age > 0}

Oldest(c) ==
    Lowest({s \in Evictable(c) : \A t \in Evictable(c) : c[s].age >= c[t].age})

\* spiffs_cache_page_remove_oldest.
RemoveOldest(c) ==
    IF FreeSlots(c) # {} \/ Evictable(c) = {} THEN c
    ELSE [c EXCEPT ![Oldest(c)] = Unused]

\* spiffs_cache_page_allocate: the first free cache page becomes new.
Allocate(c, new) ==
    IF FreeSlots(c) = {} THEN c ELSE [c EXCEPT ![Lowest(FreeSlots(c))] = new]

ReadPage(p, m) == [kind |-> "read", of |-> p, mem |-> m, age |-> 0]
WritePageOf(o) == [kind |-> "write", of |-> o, mem |-> {}, age |-> 0]

\* spiffs_cache_drop_page for every page of P.
Drop(P) == [s \in Slot |-> IF cpage[s].kind = "read" /\ cpage[s].of \in P
                           THEN Unused ELSE cpage[s]]

----------------------------------------------------------------------------
MayFail(call) == call \in Faults /\ Cardinality(suspect) < MaxSuspect
Works(call)   == IF MayFail(call) THEN BOOLEAN ELSE {TRUE}

(* spiffs_phys_rd                                                          *)

Read(p) ==
    /\ mounted /\ Holders(p) # {}
    /\ LET s == Lowest(Holders(p))
       IN  /\ cpage' = Ranked([Older(cpage) EXCEPT ![s].age = 0])
           /\ reply' = Got(p, cpage[s].mem)
    /\ UNCHANGED <<flash, suspect, pending, mounted>>

\* SPIFFS_OP_T_OBJ_LU2: not cached.
ReadPast(p, ok) ==
    /\ mounted /\ Holders(p) = {}
    /\ cpage' = Ranked(Older(cpage))
    /\ reply' = IF ok THEN Got(p, flash[p]) ELSE Failed
    /\ UNCHANGED <<flash, suspect, pending, mounted>>

\* The whole page is read into a cache page, which is kept after an error with
\* what the failed call left in it.
ReadIn(p, ok) ==
    /\ mounted /\ Holders(p) = {}
    /\ \E m \in IF ok THEN {flash[p]} ELSE SUBSET BitsOf(p) :
          cpage' = Ranked(Allocate(RemoveOldest(Older(cpage)), ReadPage(p, m)))
    /\ reply' = IF ok THEN Got(p, flash[p]) ELSE Failed
    /\ suspect' = IF ok THEN suspect ELSE suspect \cup {p}
    /\ UNCHANGED <<flash, pending, mounted>>

----------------------------------------------------------------------------
(* spiffs_phys_wr                                                          *)

\* The write to the chip, after the cache was dealt with.
HalWrite(p, v, ok) ==
    /\ flash' = IF ok THEN [flash EXCEPT ![p] = @ \cup v] ELSE flash
    /\ reply' = IF ok THEN Done ELSE Failed
    /\ suspect' = IF ok THEN suspect ELSE suspect \cup {p}

\* The field F of the copy is replaced.
Overwritten(copy, F, v) ==
    [copy EXCEPT !.mem = (copy.mem \ F) \cup v, !.age = 0]

\* Bits v are written to field F of page p, and of its copy.
PassThrough(p, F, v, ok) ==
    /\ mounted
    /\ cpage' = IF Holders(p) = {} THEN cpage
                ELSE Ranked([Older(cpage) EXCEPT ![Lowest(Holders(p))] =
                        Overwritten(@, F, v)])
    /\ HalWrite(p, v, ok)
    /\ UNCHANGED <<pending, mounted>>

\* A lookup entry is written, or deleted, with SPIFFS_OP_T_OBJ_LU.
UpdateEntry(b, v, ok) ==
    /\ LuPage(b) \notin suspect => flash[LuPage(b)] \cap LuId \subseteq v
    /\ PassThrough(LuPage(b), LuId, v, ok)

\* SPIFFS_OP_C_UPDT of a page header: allocated, finalised.  (The mark of
\* spiffs_object_truncate gives all cleared bits too and is left out.)
HeaderFlags == {{"USED"}, {"USED", "FINAL"}}

UpdateFlags(p, v, ok) ==
    /\ p[2] # 0
    /\ p \notin suspect => flash[p] \subseteq v
    /\ PassThrough(p, Flags, v, ok)

\* spiffs_delete_obj_lazy marks the index header it has found as deleted.
DeleteObjLazy(p, ok) ==
    /\ p[2] # 0
    /\ flash[p] = {"USED", "FINAL"}
    /\ PassThrough(p, Flags, {"IXDELE"}, ok)

\* Mutant of Delete: the copy is kept and written to.
DeleteInPlace(p, ok) ==
    /\ p[2] # 0
    /\ PassThrough(p, Flags, {"USED", "DELET"}, ok)

\* SPIFFS_OP_C_DELE of a page: spiffs_page_delete writes its flags blindly,
\* and the copy is dropped.
Delete(p, ok) ==
    /\ mounted /\ p[2] # 0
    /\ cpage' = IF Holders(p) = {} THEN cpage
                ELSE [cpage EXCEPT ![Lowest(Holders(p))] = Unused]
    /\ HalWrite(p, {"USED", "DELET"}, ok)
    /\ UNCHANGED <<pending, mounted>>

----------------------------------------------------------------------------
(* Erasing a block.  The marks are written with SPIFFS_OP_C_WRTHRU, past   *)
(* the cache; n of the two writes work, the one after them fails.          *)

Erasing(b, blank, n) ==
    /\ flash' = EraseBlock(flash, b, blank, n)
    /\ reply' = IF n = 2 THEN Done ELSE Failed

\* Mutant of GcErase: the copies are kept.
GcEraseKeepsCopies(b, blank, n) ==
    /\ mounted
    /\ Erasing(b, blank, n)
    /\ suspect' = IF n = 2 THEN suspect ELSE suspect \cup PagesIn(b)
    /\ UNCHANGED <<cpage, pending, mounted>>

\* spiffs_gc_erase_block drops the copies only after the marks are written.
\* spiffs_phys_wr finds the copy of the lookup page and stamps it.
GcErase(b, blank, n) ==
    /\ mounted
    /\ Erasing(b, blank, n)
    /\ IF n = 2
       THEN cpage' = Drop(PagesIn(b)) /\ UNCHANGED suspect
       ELSE /\ cpage' = [s \in Slot |-> IF s \in Holders(LuPage(b))
                            THEN [cpage[s] EXCEPT !.age = 0]
                            ELSE cpage[s]]
            /\ suspect' = suspect \cup PagesIn(b)
    /\ UNCHANGED <<pending, mounted>>

\* The block without magic, as mounting reads it: there is no copy yet.
BadMagic == {b \in Block : "magic" \notin flash[LuPage(b)]}

\* spiffs_cache_init and spiffs_obj_lu_scan.
Mount(blank, n) ==
    /\ ~mounted
    /\ IF BadMagic = {} THEN reply' = Done /\ mounted' = TRUE /\ UNCHANGED flash
       ELSE IF Cardinality(BadMagic) > 1
       THEN reply' = Failed /\ UNCHANGED <<flash, mounted>>
       ELSE /\ \E b \in BadMagic : Erasing(b, blank, n)
            /\ mounted' = (n = 2)
    /\ UNCHANGED <<suspect, cpage, pending>>

\* Power is lost, or SPIFFS_unmount.
Stop ==
    /\ mounted /\ mounted' = FALSE
    /\ cpage' = [s \in Slot |-> Unused]
    /\ pending' = {} /\ suspect' = {} /\ reply' = Done
    /\ UNCHANGED flash

----------------------------------------------------------------------------
(* spiffs_cache_page_allocate_by_fd and spiffs_cache_fd_release            *)

\* spiffs_hydro_write asks only for an object that has none.
AllocateByFd(o) ==
    /\ mounted /\ o \notin pending
    /\ cpage' = Allocate(RemoveOldest(cpage), WritePageOf(o))
    /\ pending' = IF FreeSlots(RemoveOldest(cpage)) = {} THEN pending
                  ELSE pending \cup {o}
    /\ reply' = Done
    /\ UNCHANGED <<flash, suspect, mounted>>

Release(o) ==
    /\ mounted /\ o \in pending
    /\ cpage' = [s \in Slot |->
                    IF cpage[s].kind = "write" /\ cpage[s].of = o THEN Unused
                    ELSE cpage[s]]
    /\ pending' = pending \ {o}
    /\ reply' = Done
    /\ UNCHANGED <<flash, suspect, mounted>>

----------------------------------------------------------------------------
Init ==
    /\ FlashInit
    /\ cpage = [s \in Slot |-> Unused]
    /\ pending = {} /\ mounted = TRUE

\* How far the two mark writes get, and whether the HAL erases.
Progress == IF MayFail("write") THEN 0 .. 2 ELSE {2}

Next ==
    \/ \E p \in Page : Read(p)
    \/ \E p \in Page, ok \in Works("read") : ReadPast(p, ok) \/ ReadIn(p, ok)
    \/ \E p \in Page, ok \in Works("write") :
          \/ \E v \in HeaderFlags : UpdateFlags(p, v, ok)
          \/ Delete(p, ok)
    \/ \E b \in Block, v \in SUBSET LuId, ok \in Works("write") :
          UpdateEntry(b, v, ok)
    \/ \E b \in Block, blank \in Works("erase"), n \in Progress :
          GcErase(b, blank, n)
    \/ \E blank \in Works("erase"), n \in Progress : Mount(blank, n)
    \/ Stop
    \/ \E o \in ObjId : AllocateByFd(o) \/ Release(o)

Spec == Init /\ [][Next]_vars

\* With the blind writes of SPIFFS_check.
BlindNext ==
    Next \/ \E p \in Page, ok \in Works("write") : DeleteObjLazy(p, ok)

BlindSpec == Init /\ [][BlindNext]_vars

----------------------------------------------------------------------------
(* Properties.                                                             *)

CachePages ==
    [kind : {"free", "read", "write"}, of : Page \cup ObjId \cup {Nothing},
     mem : SUBSET Bits, age : Nat]

\* Every variable has its type.
TypeOK ==
    /\ flash \in [Page -> SUBSET Bits]
    /\ \A p \in Page : flash[p] \subseteq BitsOf(p)
    /\ suspect \subseteq Page
    /\ reply \in [res : {"OK", "ERROR"}, page : Page \cup {NoPage},
                  bits : SUBSET Bits]
    /\ cpage \in [Slot -> CachePages]
    /\ pending \subseteq ObjId
    /\ mounted \in BOOLEAN

\* There is one copy of a page, so that a write reaches every reader.
OneCopy ==
    \A s, t \in Slot :
        cpage[s].kind = "read" /\ cpage[t].kind = "read"
            /\ cpage[s].of = cpage[t].of => s = t

\* Reading never costs an object the page its writes wait in: a write page
\* is there until it is given back.
PendingKept ==
    \A o \in pending : \E s \in Slot :
        cpage[s].kind = "write" /\ cpage[s].of = o

\* A cached copy is what the chip holds, unless a HAL call failed for that
\* page since the file system was mounted.
Coherent ==
    \A s \in Slot : cpage[s].kind = "read" =>
        cpage[s].of \in suspect \/ cpage[s].mem = flash[cpage[s].of]
=============================================================================
