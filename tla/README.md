# Verification of the SPIFFS file system of esp8266_spiffs

The repository ports SPIFFS, a file system for SPI flash, to the ESP8266. The
program's logic is `src/src/spiffs` (about 5800 lines of C) with its headers in
`src/src/include`; around it are a C++ wrapper, a flash driver that aligns
accesses, a test program and vendor start-up code. This directory holds TLA+
models of the file system, their model-checking configurations, and proofs.

There is no concurrency: `SPIFFS_LOCK` is empty and the calls run to their end
one after the other. What makes the code hard is that

- power may be lost, or the HAL may refuse, at every single flash write;
- flash is NOR: a bit can be cleared in place and set only by erasing a block,
  so every change of a page is a copy to another page and a deletion;
- the RAM keeps counters, a cursor, descriptors and a cache that must agree
  with the chip, and the garbage collector moves pages inside ordinary calls;
- several descriptors on one object share pending writes and learn of each
  other's changes by events.

## Inventory

| Component (files) | State | Operations | Interacts with | What makes it correct |
|---|---|---|---|---|
| Page layer (`spiffs_nucleus.c` 124-907) | object lookups, page headers, erase count and magic of each block; `free_cursor`, `free_blocks`, `stats_p_allocated`, `stats_p_deleted`, `max_erase_count`, `cleaning` | find a free page, allocate, move, delete a page, erase a block, scan at mount | called by all layers above; the reserve in `find_free` calls `gc_quick` | committed pages survive any loss of power; a free entry means an erased page; the counters equal the chip |
| Garbage collector (`spiffs_gc.c`) | candidate block, scan state, the same counters | `gc_check`, `gc_quick`, `gc_clean` | page layer; object events on moved headers | it always has free pages to move to; nothing is lost on the way |
| Object layer (`spiffs_nucleus.c` 912-2056) | index header, index pages and data pages of an object; the size in the header | create, append, modify, truncate, read, update header | pages below; events to descriptors | an index always leads to the data, also after a crash |
| Object ids (`spiffs_nucleus.c` 2066-2225) | a bitmap or a table of groups in the work buffer | find a free id | scans the lookups | the id found is free, and one is found while there are any; the table stays in its buffer |
| Descriptors and events (`spiffs_nucleus.c` 1041-1207, 2242-2363) | slots with object, size, offsets, header page, cache page, score | find, return, get a slot; event on update, move, removal | every file call | what a slot remembers is what is there |
| Write cache (`spiffs_cache.c` 227-281) | write pages: object, offset, bytes | find, allocate, release | descriptors point to the pages | pending bytes are in one page, owned by an open descriptor, and reach the object in order |
| Read cache (`spiffs_cache.c` 14-223) | pages with last access | read, write through, drop, evict | all flash access | a cached page equals the flash page |
| File interface (`spiffs_hydrogen.c`) | none of its own | mount, open, read, write, seek, flush, close, remove, rename, stat, list, check | all of the above | it does to the files what `spiffs.h` says |
| Consistency check (`spiffs_check.c`) | work buffer | lookup pass, index pass, page pass | page layer, object layer | it ends; after it lookups, headers and indices agree; no object reads other bytes than before; a healthy chip is left alone |
| Index map (`spiffs_nucleus.c` 606-744, `spiffs_hydrogen.c` 1245-1377) | a table of page indices of one descriptor | map, unmap, remap | events | the table equals the index |
| Flash driver (`spiffs_flash_functions.c`) | a buffer of one access | aligned read, write, erase | called by the HAL macros | the bytes asked for, and no others |
| Directory listing (`spiffs_hydrogen.c` 1000-1097) | the place of a lookup entry | opendir, readdir, closedir | scans the lookups, which other calls change | a file left alone is listed once |
| Wrapper (`esp8266_spiffs.cpp`) | a status per file and file system, a descriptor number | init, format, unmount, check; construct, open, read, append, clear, remove, flush, destroy | file interface | status and descriptor agree |
| UART, start-up, test program | - | - | - | outside the file system |

## Modules

| Module | What it is |
|---|---|
| `SpiffsPages` | the page layer as operators on one record `fs`: the chip (`lu`, `page`, `ec`, `magic`) and the fields of `struct spiffs_t`. NOR programming, the faults of a flash write, find_free with its reserve, allocation, move, deletion, block erasing, gc_quick and the scan at mount |
| `SpiffsPageLayer` | the state machine on it: `Allocate`, `Rewrite`, `Remove` of the layers above, `QuickGc`, `GcCheck` with the steps of the cleaning (`GcEvacuate`, `GcWipe`, `GcStoreIndex`, `GcErase`, `GcLoop`), `Mount`, `Unmount`, `Check`, `Checked`, `PowerLoss` |
| `MCSpiffsPageLayer` | symmetry, and a writer's next-state relation without faults |
| `SpiffsPageLayerProofs` | the inductive invariant of the types and counters of the page layer, and their theorems; then the invariants of the chip when power is lost: free blocks, free entries, the contents of pages |
| `NorFlash` | the abstract specification under the file system: a chip whose pages are read and programmed and whose blocks are erased, without a cache. A page about which a HAL call has failed is suspect until the next mount; reading it promises nothing |
| `SpiffsReadCache` | `spiffs_cache.c`: `Read`, `ReadPast`, `ReadIn` are `spiffs_phys_rd`; `UpdateEntry`, `UpdateFlags`, `Delete`, `DeleteObjLazy` are writes by `spiffs_phys_wr`; `GcErase`, `Mount`, `Stop`, `AllocateByFd`, `Release`. It is shown to implement `NorFlash` |
| `MCSpiffsReadCache` | symmetry |
| `SpiffsReadCacheProofs` | the inductive invariant of the cache, its coherence and the refinement of `NorFlash` |
| `FileStore` | the abstract specification: what the calls of `spiffs.h` promise about files, offsets and durability, without pages, cache or slots |
| `SpiffsFiles` | the file interface as it is written: descriptor slots, object events, write pages, and each call of `spiffs_hydrogen.c` as one action; `Store` is the refinement mapping to `FileStore` |
| `SpiffsFilesProofs` | the invariants of descriptors and write pages, call by call; then the refinement of `FileStore`, operator by operator and call by call |
| `MCSpiffsFiles` | symmetry and the sets of open flags of the runs |
| `SpiffsNucleus` | objects of several pages on the operators of `SpiffsPages`: ids and spans, loading and storing index pages, the events to descriptors and index maps, `spiffs_gc_clean` and `spiffs_gc_check` with their own order of steps |
| `SpiffsObjectData` | `spiffs_object_create`, `append`, `modify`, `truncate`, `read` and the index map, page by page |
| `SpiffsCheck` | the lookup, index and page passes of `SPIFFS_check` |
| `SpiffsObjects` | the state machine on the three: descriptors open, write, truncate, remove, map; blocks are cleaned; power is lost, the chip is mounted and checked |
| `SpiffsObjectsProofs` | the three passes of the check on a coherent chip; blocks cleaned and erased under objects and descriptors; reading, opening, closing and mapping |
| `SpiffsDirectory` | a directory listing beside `SpiffsObjects` |
| `SpiffsDirectoryProofs` | the listing, read by read, while files change |
| `SpiffsObjId` | the search for a free object id |
| `SpiffsObjIdProofs` | the inductive invariant of the search and its theorems |
| `FlashDriver` | `spiffs_flash_functions.c`: reads, writes and erases through windows of aligned words |
| `FlashFiles` | `esp8266_spiffs.cpp` over `FileStore` |
| `FlashDriverProofs` | the inductive invariant of the driver and its theorems |
| `FlashFilesProofs` | the inductive invariant of the wrapper and the store under it, and their theorems |
| `MCSpiffsObjects`, `MCSpiffsDirectory`, `MCSpiffsObjId`, `MCFlashDriver`, `MCFlashFiles` | symmetry, writes, maps and chips of the runs |

`SpiffsDirectory` extends `SpiffsObjects`, which extends `SpiffsCheck`,
`SpiffsObjectData`, `SpiffsNucleus` and `SpiffsPages` in turn; `SpiffsPageLayer`
stands on `SpiffsPages` as well. `SpiffsFiles` and `FlashFiles` stand on
`FileStore`, the one as its implementation, the other as its caller.

### The page layer and the code

An operator of `SpiffsPages` is a C function that maps the record before the
call to the record after it. `fs.res` is the result code; as
`SPIFFS_CHECK_RES` returns at the first error, every operator leaves a record
alone whose `res` is not `"OK"`. `fs.fuel` counts the flash writes that still
succeed: an action chooses it, so each operation is cut short after each of its
writes. With fault `"power"` the RAM is gone then and the file system is
unmounted; with fault `"write"` the error goes to the caller and the RAM stays
as it was at that moment; fault `"none"` never strikes. One `_spiffs_wr` is
atomic, and so is `spiffs_phys_cpy`, which copies a page in chunks: until the
entry of the page is written it is free, however much of it was programmed.

In `SpiffsPageLayer` the object index is reduced to a history variable: `ref[l]` is the page an
object was told to be in and `want[l]` its content. Objects have one page, which
carries the id of the lookup, a header with the flags and a body. The cleaning
of a block is split into steps and may visit the pages of the block in any order
and restore indices in between, of which `spiffs_gc_clean` takes one. A page is
moved only when its object has an index and deleted only when it has none, as
`spiffs_gc_clean` finds out by looking for the index page first.
`GcFindCandidate` is the score of the code, with its weights.
`SPIFFS_check` is represented by the deletion of pages that lookup and header
disagree about and that no index refers to, and by the scan it ends with.

### The file layer and the code

`fs.disk[o]` is an object as the object layer stores it, `fs.fd[h]` a slot of
the descriptor table and `fs.cache[c]` a page of the cache, of which only write
pages are told apart. Every action is one call of the interface, with all it
does: flush, write-back, events, release. `HeaderEvent` and `DeleteEvent` are
`spiffs_cb_object_event`; `Release` is `spiffs_cache_fd_release` and, like the
code, passes over closed slots. A slot keeps its `cache_page` and `score` when
it is closed and opened again.

Object operations are single steps that happen or are refused by
`spiffs_gc_check` at their beginning (`full`). Where a header lies is one bit
of a descriptor (`current`). Bytes from `HdrBytes` on are under later index pages:
modifying them alone sends no event of the header. A header that moves in a
cleaning is told with its size, or without if no data page of it moved before. The size of an empty object is
`SPIFFS_UNDEFINED_LEN`, above every size. The choice of a slot by
`spiffs_fd_find_new` is free among slots of equal standing. `SPIFFS_unmount`
followed by `SPIFFS_mount` is one step, `Remount`.

### The cache and the code

A flash page is the set of its cleared bits, as far as anyone above cares: an
entry, the erase count and the magic of a lookup page, the flags of any other
page. Programming adds bits on the chip. In a cached copy a write replaces the
bytes: `Overwritten` sets the field it writes to what was written. So the two
agree only if the writer gives every bit that is cleared already. Each writer
of the page layer does (`UpdateEntry`, `UpdateFlags`) or has the copy dropped
(`Delete`, which writes its flags blindly), and `GcErase` drops the copies of a
block after the erase went past them. `Spec` holds these writers; `BlindSpec`
adds the blind write of `spiffs_delete_obj_lazy`.

`cpage[s]` is the header of a cache page and what `mem` holds of the page.
`last_access` is kept as an age, reduced to its rank among the ages, with 0 for
the page accessed last: that is what `spiffs_cache_page_remove_oldest` compares
and what it never evicts. A failing HAL call changes nothing on the chip; a
failed read leaves anything in the cache page, which is kept. `pending` is a
history variable: the objects that were given a write page. Writes of data and
of index entries behave like those of a flag, and are not told apart from them.
The pages of `SpiffsPages` are read and written there as if there were no
cache, which is what `CacheIsTransparent` allows.

### The object layer and the code

The record of `SpiffsPages` gets the descriptors (`fds`: object, header page,
size, cached index page, map) and what the C functions keep in locals and in
`fs->work`. A page has a body: of a data page its bytes, of an index page its
entries, of a header page also the size; what is not in the body is erased, and
programming a page that has bytes already gives the AND of both, which
`AndPix` and `Garbage` stand for. A loop over data pages is a fold over their
spans; the index page at hand is loaded, stored and allocated at the same
places of the loop as in the code. As in the page layer an operation is cut
short after each of its writes. `spiffs_object_modify` sets the cursor of its
descriptor from an uninitialised variable when the last index page cannot be
moved: `Settings` makes that any page or none.

`spiffs_gc_clean` moves the data pages of one index page (as many as
the index page in the work buffer covers), stores that index page, goes on with the next
and moves the index pages last. `EventFor` is `spiffs_cb_object_event` for one
descriptor. The three passes of the check are operators too, one step each in
`SpiffsObjects`; the page pass is one step until it restarts, so that its
restarts are steps of which something can be said (`CheckEventuallyEnds`).

`want[o]` is the set of contents object `o` may have; it has more than one only
between a loss of power in an operation on `o` and the end of the check.
`damaged` are those objects, all of them if power was lost in a cleaning: they
are what the check is for, and `CheckKeeps` is about them. `MaxOps` and
`MaxSize` bound operations and sizes; operation `k` writes the byte `k`, so that
no two writes look alike.

A listing (`SpiffsDirectory`) is the place of one lookup entry. `seen` and
`still` are histories: what was listed, and the page a file has had its header
in all the time.

### The search for an id and the code

A step of `SpiffsObjId` is one iteration of the loop with its walk through the
lookups: `Bitmap`, `Count`, `Select`. The state is
`spiffs_free_obj_id_state` and the table in `fs->work`. `SizeAssumption` says
that a group always fits the bitmap and its count a byte, which holds of 16-bit
ids and pages of 256 bytes; the counts are taken modulo 256 all the same. The
ids behind the last whole group (when the number of ids is no multiple of the
page) have no place in the table: `MapInBounds` is that no file ever gets one.

### The flash driver and the code

A call of `FlashDriver` goes through `start`, `align` and `left` as
`start_addr`, `align_bytes` and `t_size` do, one window of `P` bytes at a time: read it,
copy, program it again. A byte is the set of its cleared bits. A call of the
SDK that fails, or in which power is lost, has programmed or erased any of the
bytes of its window. The pointer arithmetic of `esp_spiffs_read`
(`buffer + align_bytes` on words) is kept: `From`; what lies behind the buffer
is any bytes.

### The wrapper and the code

A step of `FlashFiles` is a method of `Flashfs` or `Ffile` with the calls of
SPIFFS it makes, which are the actions of `FileStore`. `open()` and `clear()` of
a file that is open close it and then open it, and power may be lost between
the two (`todo`). A `Flashfs` keeps `status`, an `Ffile` its name, status and
descriptor number, which is the number of a descriptor whoever has it now. The
wrapper cannot know that a format, an unmount, an init or the removal of the
file by another `Ffile` closed its descriptor; `taken` is the history of those,
and `OwnFile` is about the others.

## Runs

| Run | Result | Question |
|---|---|---|
| `pages_power` | passes | Power lost at any write of any operation, a check after each mount: are committed pages found again (`CommittedSurvive`), are free pages erased (`FreeMeansErased`), are free blocks never overlooked (`FreeBlocksNotUnder`), do free entries come last in a block (`FreeEntriesTrail`), are the page counters those of the chip (`StatsExact`)? |
| `files_shared` | passes | Two descriptors on one object, one of them appending: do the calls implement `FileStore` (`StoreSpec`)? Does a slot that believes in an empty file miss nothing, when no other is open on it (`EmptyMeansNothingToRead`)? |
| `files_descriptors` | passes | Two objects, sharing, renaming open files, opening by directory entry, removing, refusals: one write page per object (`OneWritePage`), pointers to it (`PagePointers`), pending bytes with an owner (`PendingHasOwner`), sizes and headers up to date (`DescriptorsCoherent`)? |
| `files_trunc` | violated | Does `SPIFFS_O_TRUNC` empty a file others write to (`TruncEmpties`)? |
| `cache_flash` | passes | Reads, writes, erases, eviction and write pages, with failing HAL calls: does the cache implement a chip without one (`FlashSpec`), are copies what the chip holds (`Coherent`) and single (`OneCopy`), do write pages stay (`PendingKept`)? |
| `objects_shared` | passes | Two objects under two descriptors, nothing failing but for want of room: does every object (`ReadsBack`) and every open descriptor (`ReadsBackOpen`) read what was written, through writes that span index pages, cleaning, truncation and index maps? Does no page leak, do indices, data pages and what descriptors have cached agree, and is the chip one that can be cleaned (`HealthyIsFit`, which includes `HealthyIsCoherent`)? Would the check leave the chip alone (`HealthyUntouched`)? |
| `objects_power` | passes | Power lost in any write of any operation: are the other objects read back (`ReadsBack`), does the check keep what is there (`CheckKeeps`), mend it (`CheckMends`) and end (`CheckEventuallyEnds`), and are the branches of the check that the model leaves out unreachable (`OnlyKnownDamage`)? |
| `listing` | passes | Files change while a directory is listed: is a file left alone listed once (`ListedOnce`), are there never two headers or none to list (`ShowsTheFiles`), does a listing end (`ListingEnds`)? |
| `object_ids` | passes | Few files, or few ids left: is the id found free and the name new (`FoundUnused`), does the table suffice (`MapInBounds`), are all ids used before the search says so (`FullWhenFull`), does it end (`SearchEnds`)? |
| `flash_driver` | passes | Any address and length, calls of the SDK failing half done: are only the bytes asked for programmed (`OnlyAskedProgrammed`), and all of them (`WrittenWhole`), are reads from a word address right (`ReadsWords`), and erases (`SectorsErased`)? |
| `driver_unaligned` | violated | Are reads from any address right (`ReadsBytes`)? No: see below |
| `wrapper` | passes | Two `Ffile`s, the file system formatted, unmounted, mounted and checked under them, calls failing, power lost: does an `Ffile` that says it is open have the descriptor of its file (`OwnFile`), is it known that bytes are not saved (`UnsavedKnown`), is no descriptor lost (`NoLostDescriptor`), do files only grow or vanish (`OnlyGrows`)? |

### Bounds

`pages_power`: three blocks of two pages, two objects, two contents. Three is
the least number of blocks (two in reserve), and with two pages a block can be
half full, have a free entry behind a deleted one and hold pages of both
objects. `MaxWrites` 9 is more than the writes of the longest operation, so
every write is a point of failure. `MaxErase` stops operations (not the ones
that are under way) after the second erase of a block; each block is then
reused after erasing. `MaxFreeBlocks` bounds a counter that the code lets grow
when erasing succeeds and stamping fails. `MaxFree` is 0 because no caller in
the repository passes more to `SPIFFS_gc_quick`. `EcFlag` 16 stands for the
index flag at which erase counts wrap; the runs stay below it.
`pages_starve` (a further configuration) writes all objects before it rewrites any, to be short; it needs five blocks and
five objects, for the reserve to be given away while the chip is full.

The file runs have pages of 3 bytes and data pages of 2, so that one write
straddles pages, `MaxSize` 3 or 4, writes of 1 to 3 bytes (3 is a whole page
and goes around the cache), two slots and two cache pages: writes before,
behind, at the end of and beyond a write page all occur. Two byte values tell
old bytes from new ones where contents matter. `HdrBytes` 2 puts one data page
in the header and the second under a later index page.

`cache_flash` has one block of a lookup page and two others, two cache pages
and two objects: more pages than cache pages, so that reads evict, and as many
objects as cache pages, so that write pages fill the cache and a read finds no
place. `MaxSuspect` 1 stops HAL calls from failing once a page is suspect,
until the next mount. With one block, `Mount` never meets two blocks without
magic; the proofs cover that branch. Pages of other blocks differ from pages of
this one only in not being erased with it, and `NP` 3 has pages that are and are
not the lookup page of the erased block.

The object runs have four blocks of three pages, one entry in the index header
and two in an index page (`HdrLen` 1, `IxLen` 2), and data pages of two bytes.
Objects of up to 8 bytes have four data pages and three index pages, so that
one write (of 5 bytes from offset 3) fills up a page, begins new ones and crosses an index page, another starts at 0,
a third in the middle of a page; all overlap. Twelve pages are few enough for two objects
to run out of room, so that blocks are cleaned with pages of both in them. Six
operations (`objects_shared`, `listing`) let an object be written, modified,
cleaned and truncated or removed while another is there; four
(`objects_power`) with a loss of power in any of their writes are followed by a
mount and a whole check. Power is lost once in a behaviour, and not in the
check. Objects power was lost on are not written again (`UseDamaged`). Maps
(`objects_shared`) cover three data pages and are moved by one; the runs with
power do without.

`object_ids` has a page of 3 bytes: 24 bits in the bitmap, 3 groups, and 26 ids,
so that a search starts with groups of 8, of which two ids stick out. `Few` 3
keeps to at most 3 files or at most 3 ids left, where groups are empty or full.

`flash_driver` has windows of 4 bytes, words of 2 and sectors of 8 in a chip of
32 bytes with the file system in 8..23, every address around it and lengths to
10: up to three windows or sectors, requests refused at either end, and a last
window that reaches beyond the file system. One call is enough, as a call keeps
nothing for the next. `Striped` chips and `OneSource` have every byte different
from its neighbours, within three values of two bits.

`wrapper` has two `Ffile`s, two names, two objects, two descriptors and files of
up to two bytes; a third `Ffile` would find no descriptor, which a failing open
covers.

### Fairness

A call runs to its end or is cut short, and whether another call follows is up
to the program; most specifications therefore assume no fairness. Three do:

- `SpiffsObjects!FairSpec`: while power is there the code goes on, so that a
  step of mounting or checking is taken when one is enabled (it is
  `WF_vars(Mount \/ CheckStep)`, with ENABLED spelled out, which would be slow
  to evaluate). `CheckEventuallyEnds` could then fail only by endless restarts
  of the page pass or by a chip that cannot be mounted.
- `SpiffsObjId!Spec`: the loop goes on, `WF_vars(Bitmap \/ Count \/ Select)`.
- `SpiffsDirectory!DirSpec`: `WF_allVars(ReadDir)`: a program that lists goes
  on listing, as all loops over `SPIFFS_readdir` in the repository do.

What else must not be missing when it is needed is stated as a safety property
(`GcNeverStarves`). Deadlock is checked in the runs of the page layer, the
file layer, the cache, the ids and the wrapper. The other runs stop at their bound on
operations or calls.

### What the violated runs show

- `files_trunc`: truncating a file of undefined size does nothing, so bytes
  that wait in the cache for another descriptor are in the file afterwards.
  That is the shortest counterexample. A file with a size goes the same way:
  the event of its truncation drops a pending page only from offset 2 on
  (`spiffs_nucleus.c:1088`). With both the early return and pages at offset 0
  mended in the model, a page at offset 1 still violates `TruncEmpties`, and
  nothing does once that is dropped too.
- `driver_unaligned`: `esp_spiffs_read` rounds the address down to a word and
  then skips `align_bytes` words, not bytes, of what it read. SPIFFS reads from
  such an address for instance the erase count of a block, the last two bytes
  of its lookup page (`spiffs_nucleus.h:232-233`). `ReadsWords` says
  that the other reads are right.

### Further configurations

These are not among the runs, as they answer smaller questions or show known
defects of the code in few steps. `tlc -config X.cfg M` runs them.

- `pages_starve.cfg` (`MCSpiffsPageLayer`, `GcNeverStarves` violated): nothing fails. `gc_find_candidate` also lists wholly free
  blocks, as its test for deleted pages is commented out
  (`spiffs_gc.c:297`), and an old free block has the highest score. It is erased and
  `free_blocks` counts it a second time (`spiffs_nucleus.c:241`). `find_free`
  then believes in its reserve of two blocks when there is none, and a candidate with busy
  pages is chosen when no page outside it is free.
- `pages_failed_magic.cfg` (`MCSpiffsPageLayer`, `MountKeepsPages` violated): erasing a block and writing its erase count succeed and
  writing its magic fails. The block is used all the same; the next mount takes
  it for one whose erasing was cut short, and erases it.
- `files_direct.cfg` (`MCSpiffsFiles`, `PagePointers` violated): a slot that was opened with `SPIFFS_O_DIRECT` on an object
  with pending writes keeps its pointer to the write page when another slot
  releases it after the first was closed. The next open of the slot does not
  reset the pointer.
- `files_dirent.cfg` (`MCSpiffsFiles`, `DescriptorsCoherent` violated): `SPIFFS_open_by_dirent` leaves the score of a fresh slot at 0
  and events pass over such slots.
- `files_append.cfg` (`MCSpiffsFiles`, `AppendEndsAtEnd` violated): `SPIFFS_write`
  counts the position of an appending descriptor from the size on flash
  (`spiffs_hydrogen.c:482`), without the bytes that wait in the cache. After two
  cached appends of one byte `SPIFFS_tell` says 1.
- `files_rename.cfg` (`MCSpiffsFiles`, `RenameKeepsOffsets` violated): the size in the header of a file that was never flushed is
  undefined; the event that renaming sends moves the offset of every descriptor
  to 0, and the next write overwrites pending bytes.
- `cache_blind.cfg` (`MCSpiffsReadCache`, `Coherent` violated): `spiffs_delete_obj_lazy` writes a flag byte with one bit
  cleared, trusting the chip to keep the cleared bits; the cached copy takes
  the byte as it is, and its `USED` and `FINAL` bits are set again. Reads of
  the page are answered from the copy until it is evicted. The same write in
  `spiffs_check.c:434-443` is not modelled.
- `files_store.cfg` (`MCSpiffsFiles`, passes): one descriptor per object with
  all flag sets, `SPIFFS_O_DIRECT` and `SPIFFS_O_EXCL` among them, implements
  `FileStore`, and the state keeps its type (`TypeOK`).
- `wrapper_types.cfg` (`MCFlashFiles`, passes): the state of the wrapper keeps
  its type, with the bounds of `wrapper`.
- `objects_map.cfg` (`MCSpiffsObjects`, `ReadsBackOpen` violated): when a file
  is truncated its index pages are deleted and the index maps keep what was in
  them (`spiffs_nucleus.c:1120` updates maps for `IX_UPD` and `IX_NEW`, not for
  `IX_DEL`); bytes written later are looked up there. `spiffs.h:720-722`
  says that the map is updated when data pages move, and that a read relies on it.
- `objects_room.cfg` (`MCSpiffsObjects`, `ReadsBack` violated): nothing
  fails, and a file is lost for want of room. A write makes sure of room for its bytes and for
  "an extra page of data worth for meta" (`spiffs_nucleus.c:1224` in append, 1464 in
  modify), however many index pages it will need. On a chip
  that is nearly full a write that replaces pages under several index pages ends
  with FULL when it stores one of these: data pages of the old index are
  deleted by then, and the index that refers to the new ones is not there. The
  object cannot be read. The configuration has one object, one entry in
  the header and one in an index page, so that two index pages are short
  already with 21 pages.
- `objects_orphans.cfg` (`MCSpiffsObjects`, `NoOrphanIndex` violated): index
  pages whose header is gone stay after the check, and their pages with them;
  `spiffs_check.c:11-12` says they are deleted.
- `wrapper_stale.cfg` (`MCFlashFiles`, `AppendsToItsFile` violated): after
  another `init()` an `Ffile` that was open writes to the file that has its
  descriptor number now.
- `wrapper_check.cfg` (`MCFlashFiles`, `AvailableMeansMounted` violated):
  `check()` after `format()` fails and sets `FFS_ERRORS`, which
  `is_available()` takes for available.
- `listing_moved.cfg` (`MCSpiffsDirectory`, `MovedListedOnce` violated): a
  file whose header is moved to an entry ahead is listed twice.
- `ids_stray.cfg` (`MCSpiffsObjId`, `MapInBounds` violated): with the last id
  of the last group taken by a page without header the next id is given to a
  file, and counting it writes behind `fs->work`.

### What the object runs found out

With power lost, and a check after it, the models agree with the code in what
follows; `CheckKeeps` and `OnlyKnownDamage` are stated so as to allow it.

- Power lost between the copy of an index header and the deletion of the
  old one leaves two headers; the check may delete either and the file with it.
- An append that is cut short leaves bytes in the last page beyond the size, and
  entries in an index page that is programmed in place; the next append
  programs over both (`spiffs_nucleus.c:1365`) and gets the AND of old and new.
  `UseDamaged = TRUE` shows it.
- A truncation that is cut short may leave index pages without header
  (`NoOrphanIndex`) or two index pages of one span.
- Power lost in `SPIFFS_open` with `SPIFFS_O_TRUNC` may make the check delete
  the whole file instead of emptying it.
- The check needs two free blocks for its repairs; when it has none its FULL is
  ignored, and the damage stays. `spiffs_delete_obj_lazy` uses what the last
  search left in the visitor's place, so that a second check may find more.
- `SPIFFS_check` neither refuses open descriptors nor tells them what it moved.
- Errors in the loop of `spiffs_object_truncate` are forgotten, and a page
  allocated by `spiffs_rewrite_index` is not counted; the scan at the end of the
  check repairs the counters.

### Limits the passing runs have for a reason

The constants exclude some behaviour in which the code is known to differ from
its description; each can be seen by changing the constant named.

- `CheckOnMount = FALSE` in `pages_power`: `FreeMeansErased` fails.
  `spiffs_page_move` programs a page before it marks it in the lookup, and
  without `SPIFFS_check` the half-moved page is handed out again.
- `MaxFree = 1` in `pages_power`: `FreeEntriesTrail` fails, as
  `spiffs_gc_quick` erases the block the free cursor is in.
- `Faults = {"write"}` in `pages_power`: `FreeBlocksNotUnder` fails.
  `spiffs_obj_lu_find_free` takes the block from the free ones before the entry
  in it is written, and does not give it back when that write is refused.
  `StatsExact` is proved for refused writes as well.
- `Faults = {"erase"}` in `pages_power`: `StatsExact` fails, as the result of
  an erase is ignored on purpose. The theorems exclude this fault.
- `EmptyMeansNothingToRead` is about a descriptor that is the only one on its
  object. Without that condition it fails in `files_shared`: `SPIFFS_read` looks at
  the size before it flushes, so it takes a file for empty that has only
  the pending writes of another descriptor.
- `Refusals = {"always"}` in `files_store`: `StoreSpec` fails, as a flush that
  fails gives up the cache page and the bytes in it.
- The position of an appending descriptor is not compared with `FileStore`,
  and `EmptyMeansNothingToRead` leaves those descriptors out: after a cached
  append it is the size on flash plus the length written (`files_append`).

## Proofs

`SpiffsPageLayerProofs` proves for every geometry, set of objects, contents and
bound, and for every loss of power and every refused write (but not for failing
erases):

- `TypeCorrect`: `Spec => []TypeOK`;
- `CountersExact`: `Spec => []StatsExact`.

`StatsExact` is not inductive. An operation that replaces a page subtracts one
from the busy pages because the page it was told to replace is busy, and that
is so because `ref[l]` always points to a page whose lookup entry is `l`. The
inductive invariant is therefore
`TypeOK /\ fs.res = "OK" /\ RefsFound /\ (mounted = "yes" => Counts(fs))`, with
`RefsFound` for the pages that `ref` names. For every operator of `SpiffsPages`
a lemma says what it does to the set of busy pages, the set of deleted pages
and the two counters if it runs to the end, and that the counters are still
right wherever it is cut short; the cardinality facts come from
`FiniteSetTheorems`. The steps then follow action by action, and mounting
starts anew with the counts of the scan. The assumptions used are
`GeometryAssumption`, `MarkAssumption`, `IdAssumption` and `BoundAssumption`.

The second part of `SpiffsPageLayerProofs` proves what a loss of power at any
write leaves on the chip. The theorems assume `Faults \subseteq {"power"}`, for the reason given
under "Limits": a refused write or erase does break these properties.

- `NoFreeBlockMissed`: `Spec => []FreeBlocksNotUnder`;
- `FreeEntriesStayBehind`: `Spec => []FreeEntriesTrail`, if `MaxFree = 0`;
- `FreeIsErased`, `NothingCommittedLost`, `MountingKeepsPages`:
  `Spec => []FreeMeansErased`, `Spec => []CommittedSurvive`,
  `Spec => MountKeepsPages`, if `CheckOnMount`.

Each operation is first shown to run through one of a few stages, stated as
relations between the record before and after: `Clears` (a collection of one
block, or none), `Finds` (that and an entry taken), `Reached` (a page is
programmed, or the programming was cut short at one of the listed stages),
`Deleted`. The lemmas `AllocateRuns`, `CopyRuns`, `RewriteRuns`, `PageDeleted`,
`QuickClears` and `EraseWipes` are the only ones that look into the operators;
each invariant is then carried through the stages.

- `CountedInv`: `free_blocks` is at least what `obj_lu_scan` would count. It
  is inductive by itself, as an entry is always taken before it is written.
- `TrailInv`: free entries come last in a block (`Trailing`). This needs to know
  where the cursor is: at the first free entry of its block, or at either end of
  a block (`Cursor`), so that no search passes over a free entry of a block it
  then writes in. Erasing the block that is
  being cleaned must not leave the cursor in its midst; `Sweep` says that the
  entry before the cursor is then a page still needed, so that the block is not
  without busy pages. After a power loss a page may be programmed and not yet
  entered; it is the first free one of its block (`Begun`), so that the check
  that deletes it makes no hole.
- `ContentInv`: what the index refers to is there with its content
  (`KeptFor`), and the state of the chip depends on how far mounting has come:
  `Sane` (only a page whose programming was begun with the USED flag is both free
  and not erased; a block without magic is all free) also without power, every
  block with its magic (`AllMagic`) once it is mounted, and `Fine` (header and
  lookup agree, free pages are erased) once it is checked. A page that moves is
  at each moment whole at one of its two places (`Moved`), which is why
  `Rebind` always has a page to bind to. The same lemma serves rewriting and
  cleaning. Mounting erases a block only when it has no magic, and by `Sane`
  nothing is in it.

The assumptions used are the same four.

`SpiffsReadCacheProofs` proves for every number of blocks, pages, cache pages
and objects, every bound and every set of HAL calls that may fail:

- `CacheTypes`, `CopiesCoherent`, `CopiesUnique`, `WritePagesKept`:
  `Spec => []TypeOK`, `[]Coherent`, `[]OneCopy`, `[]PendingKept`;
- `CacheIsTransparent`: `Spec => FlashSpec`, step by step: a call of the cache
  is a call of the chip, or a rest.

The inductive invariant adds to these properties `CopiesOfPages` (a copy has
bits of a page, so that a read returns some) and `UnmountedEmpty` (there are no
copies when mounting erases a block past the cache). The argument compares
caches: `Within(c, d)` says that `d` has no copy `c` has not, and all its write
pages. Counting accesses, ranking ages, evicting and dropping go from a cache
to one within it, whatever is chosen, and `Sound` carries over. What is left
are the four places where something new comes in: a copy read in, a write page
given out, a copy written to, and the chip changing underneath. That there is
always an oldest page to evict (`OldestEvictable`) follows from the
well-foundedness of the naturals. The assumptions used are `FlashAssumption`
and `CacheAssumption`. The guards of `UpdateEntry` and `UpdateFlags`, that the
writer knows what is cleared, are what the theorems rest on; `cache_blind`
shows that they are needed.

`FlashDriverProofs` proves for every chip, page, word and sector size, every
place of the file system on the chip, and every request:

- `DriverTypes`, `KeepsToItsBytes`, `WritesAll`, `ReadsRight`, `ErasesSectors`:
  `Spec => []TypeOK`, `[]OnlyAskedProgrammed`, `[]WrittenWhole`,
  `[]ReadsWords`, `[]SectorsErased`.

What a request may claim is only true when it has ended; the inductive
invariant says it of the part that is behind. `Windowed` and `Located` place
the window at hand between the first and the last byte asked for, `Filled` is
what the buffer holds of it, `Partly` and `Copied` are what was written or
copied up to there, and `Finished` is where a request that succeeded has ended.
`Sectored`, `OnlySectors` and `Wiped` are the same of an erase, whose sectors
are counted from the one the first byte is in. The arithmetic of
words and sectors is in lemmas of its own (`Alignment`, `SectorAround`). The
assumption used is `GeometryAssumption`; in it the chip goes on behind the file
system for two words and a page, because a request is checked against the end
of the file system after rounding, and whole windows are programmed. In the
repository the partitions of the SDK follow, five sectors from
`SYSTEM_PARTITION_RF_CAL_ADDR` on (`user_config.h:50-56`, `user_main.c:104-106`).

`SpiffsFilesProofs` proves for every number of slots, cache pages, objects and
names, all sizes and whatever calls are refused:

- `DescriptorsSound`: every field keeps its type, and an open descriptor is on
  an object that exists;
- `OnlyOneWritePage`, `PointersAreSound`, `PendingIsOwned`:
  `Spec => []OneWritePage`, `[]PagePointers`, `[]PendingHasOwner`, if no file is opened
  with `SPIFFS_O_DIRECT`, with which `files_direct` shows a stale pointer;
- `DescriptorsKnow`: `Spec => []DescriptorsCoherent`, if no directory entry is
  opened in a fresh slot (`"fresh" \notin Habits`), with which `files_dirent`
  shows an outdated descriptor.

A call is a chain of operators on the record `fs`. Three predicates go through
the chain: `Sound`, `Paged` and `Informed`. `Paged` is inductive where the three
properties are not: a closed slot has neither page nor object (`Clean`), the
pointer of any slot, open or not, is to a write page of its object
(`Pointing`), every write page is some open descriptor's (`Owned`), and there is one
per object (`OnePage`). A page that is released is forgotten by all open slots
that point to it, and by `Clean` no closed one does. For each operator a lemma
says which predicates it keeps; in between, when a page is
filled and not yet owned or a size is changed and the event not yet sent, the
lemma names the one slot or page for which the predicate does not hold
yet. The assumptions used are `SizeAssumption` and `ValuesAssumption`.

The second part of `SpiffsFilesProofs` proves for the same constants:

- `FilesImplementStore`: `Spec => StoreSpec`, every call and a loss of power step by
  step, if there is room on the flash (`Refusals \subseteq {"never"}`), no file
  is opened with `SPIFFS_O_DIRECT`, renamed while it is open, or opened by
  directory entry in a fresh slot (`Habits \subseteq {"shared", "dirent"}`), and
  no object is open in two slots, or none is opened with `SPIFFS_O_TRUNC`. A read
  is a step only of a descriptor that has a size; for one that has it as
  undefined, of an empty file or of one with pending bytes only, the theorem
  promises nothing of what is read.

- `EmptyIsAtEnd`: `Spec => []EmptyMeansNothingToRead`, under the same hypotheses.

Each hypothesis excludes a disagreement that the runs show (`files_direct`,
`files_rename`, `files_dirent`, `files_trunc`, and `Refusals = {"always"}` in
`files_store`). What stays with TLC is `files_store` with `SPIFFS_O_DIRECT`
and one descriptor per object.

What a program reads of an object is its view: the bytes on flash with its
one write page, if it has one, spliced over them. The proof follows views
through the operators. Writing a page back makes the view the bytes on flash
(`Splice` twice is `Splice` once); storing in a page changes the view as
storing on flash would, and leaves the flash alone; events, allocating and
releasing pages leave every view alone. The invariant is `Healthy`: `Sound`,
`Paged` and `Informed` from above, no file larger than `MaxSize`
(`Bounded`), a write page that starts within its object or at its end (`Based`),
and a descriptor that is not beyond the end of what it sees (`Placed`). Without
`Based` a page written back would leave a gap; without `Placed` a read or a write
of an open file would be at a position that `FileStore` does not know. After
a flush no call has work pending on the object, so the rest of the call is
proved on flash alone. `ValuesAssumption` is used for the mapping as well: a
closed handle of `FileStore` is not an open one.

`EmptyIsAtEnd` follows from the refinement. Its invariant is about `FileStore`
alone (`AllEnd`): a file that nobody has open is on the medium as it is read, and
when a file is empty on the medium, a descriptor that is the only one on it and does
not append stands at the end of what is read or beyond. Every action of `FileStore` keeps it,
so every call does. A seek back keeps it because a seek writes back first
(`Move`), the close of the last other descriptor because a close does, and a write
by the last one because it starts at its position, where all that waits ends.

`SpiffsObjIdProofs` proves for every page size, number of ids and set of files,
if no page without a header carries an id (`Strays = {}`, which `ids_stray`
shows to be needed):

- `FindsUnused`, `CountsInBounds`, `FullMeansFull`:
  `Spec => []FoundUnused`, `[]MapInBounds`, `[]FullWhenFull`.

The invariant follows the narrowing of the search: all ids (`Whole`), all ids
with their counts (`Counted`: the entry of a group is the number of ids of files in
it), or one group with an id that no file has (`Chosen`). That the least full group
has a free id when any has follows from the counts by the
cardinality facts of `FiniteSetTheorems`; that files get ids of whole groups only
(`IdsOK`) is what keeps the counts in the table. The assumption used
is `SizeAssumption`.

`FlashFilesProofs` proves for every number of objects, names, descriptors and
`Ffile`s:

- `WrapperTypes`, `FilesOnlyGrow`: `Spec => []TypeOK`, `Spec => OnlyGrows`,
  whatever calls fail;
- `OwnFiles`, `UnsavedAnsweredFor`, `DescriptorsKept`: `Spec => []OwnFile`,
  `[]UnsavedKnown`, `[]NoLostDescriptor`, if `"close" \notin Faults`: a close that
  fails is ignored by the wrapper, and the descriptor is lost or still open.

The invariant has a part about the store (`StoreOK`: one file per name, what
is on the chip is the beginning of what a program reads, every descriptor appends)
and one about the `Ffile`s (`FilesOK`). Between closing and opening again the old
descriptor is closed (`HalfDone`), so that a power loss or failing open in
between leaves none behind. `UnsavedKnown` and `NoLostDescriptor` are
inductive only together with `OwnFile`. The assumptions used are
`ValuesAssumption` and `DataAssumption`.

`SpiffsObjectsProofs` proves for every geometry, every number of objects,
spans, index pages and entries:

- `CoherentIsUntouched`: the three passes of the check leave a coherent chip as it is,
  whatever the RAM of the file system says;
- `HealthyStaysUntouched`: `Spec /\ []HealthyIsCoherent => []HealthyUntouched`, where
  `HealthyIsCoherent` is a part of `HealthyIsFit`;
- `GcCheckKeepsObjects`: `spiffs_gc_check` on a chip that is `Fit`, if it returns
  success or "full", leaves it `Fit`, with the same pages of every object
  wherever they are now, and no descriptor changes its object;
- `SettledIsFit`: so do opening, closing, mapping and remapping, and the states they
  leave are again those of a file system at rest;
- `SettledStepsKeep`: `Spec /\ []HealthyIsFit => SettledKeeps`: none of these steps changes
  what can be read of an object or through a descriptor that stays open. (TLC confirms
  `SettledKeeps` when it is added to `objects_shared.cfg`, which as it is says as
  much by what is wanted of each object);
- `SettledStepsReadBack`: under the same hypothesis these steps preserve `ReadsBack`, and
  establish `ReadsBackOpen`;
- `DescriptorsReadBack`:
  `Spec /\ [](damaged = {} /\ HealthyIsFit /\ ReadsBack) => []ReadsBackOpen`: without a
  loss of power a descriptor reads what the header of its object leads to,
  whatever size, index page and index map it has cached.

`Coherent` is what the check looks at: a page in use is finished and is what its lookup
entry says (`AsListed`), an object has one page for each span (`OneOfEach`), and an
index refers to the data pages of its object and to all of them
(`RefersToItsData`, `ItsDataIsReferred`), under a header (`HasItsHeader`). The
first two passes find no page to mend by `AsListed`, `HasItsHeader` and
`ItsDataIsReferred`. The page pass notes the references of each
index page as it comes to it; none is noted twice, as a page that is referred
to from two places would have two spans or two objects (`RefsDiffer`). At the
end every data page has been noted, and nothing is deleted. A pass is a loop over
lookup entries or pages, written as a fold. A fold is defined by recursion, and
that the function defined exists must be proved: `IterateAll` does so for a finite loop, and
`LookupLoop` to `EntryLoop` say of each loop that it is a chain of its steps, along
which the invariant of the loop is carried by `UpTo`. The assumptions used are
`GeometryAssumption`, `ObjectAssumption` and `IdAssumption`.

Cleaning is the operation that writes most and may change least. `Coherent` is
not enough to clean a chip by: the free cursor must stand where the next page
goes and free entries must come last (`Lined`), or a page is moved onto another;
the entries of an index page must be filled from the front (`Filled`), as
`spiffs_update_ix_map` stops at the first that is not; a descriptor that takes a
page or an index page for missing, or has a size cached, must be right
(`Known`), as nothing tells it of an index page that moves from where it does
not look; and erase counts must be 16 bits wide (`Worn`). `Fit` is the
conjunction, and `HealthyIsFit` is checked by `objects_shared`.

The argument goes by likeness: two chips are `Alike` when they have the same
pages of the same ids and spans, with the same content up to where the data
pages are. One page moved, with every reference to it told, is a relocation
(`Relocated`); a relocation keeps every conjunct of `Coherent` and `Filled`, and
the chips are alike. But `spiffs_gc_clean` moves the data pages of one index
page one by one, and tells only the copy of the index page it has in `fs->work`:
on the chip the references are wrong until that copy is stored. So while it does
(`Group`) what is coherent is the chip as it will be, with the copy in the place
of the page (`View`), and each move is a relocation of the view. Storing the
copy makes the view the chip (`IndexStored`). Then the event tells the
descriptors; `HandleHears` and `HandleKnows` say that one that followed its
object on the chip before follows it on the chip after, with cursor, size and
index map, whether it was hit by the event or not. Every data page of a block is
moved with its group, then every index page, by loops whose invariants say of
the first `k` entries that no such page is left (`DataGone`, `BusyGone`); the
block is erased when no page in it is in use, so that the erase is a step
between chips alike (`SweptIsSound`). A page may well be moved to a free entry
of the block being cleaned, when the others are full; free entries come last, so
the loop is not past it yet. What must hold is that the cursor is not left in
the midst of the erased block: the entry it has just passed there is in use
(`LastIsBusy`), and none is when the block is erased. That cleaning cannot
itself fail for want of room is a separate pass over the operators (`Quiet`):
the reserve of blocks is not kept from it, and `NotFullBlock` concludes that
cleaning and erasing a block never answers "full"; `spiffs_gc_check` answers it
from the page counters, before the first block or after the last.

Reading is shown to depend on likeness alone: on a fit chip each step of
`spiffs_object_read` finds the index page and the data page of its span, by
cursor, map or search, and gives the bytes of that page (`StepReads`), or finds
that there is none; so two reads on chips alike, through any two descriptors of
the object, agree step by step (`StepAgrees`). For an index map filled by
visiting the index pages in the order in which the lookup has them, the order
does not matter (`VisitIsRight`), each of them being the one page of its span.
`WriteAssumption` is used for `Maps` and for the one descriptor that a fresh
open needs.

`SpiffsDirectoryProofs` proves for every geometry and number of objects:

- `FilesAreListedOnce`: `DirSpec /\ []ShowsTheFiles => []ListedOnce`.

The inductive invariant relates the place of the listing to the two histories:
a file whose header has been at one place all the time was seen if that
place is behind the listing, and not yet if it is ahead. Each `SPIFFS_readdir` is the search
for the next header from a place on, by block and entry; the lemmas about it
say that it passes over nothing that is a header and returns the first there
is. `ShowsTheFiles` (one header of each file that is not damaged) is needed,
as a file with two headers is listed twice. The assumptions used are
`GeometryAssumption`, `ObjectAssumption` and `DirAssumption`.

Only model-checked are the other properties of the objects, the check and the
listing. `HealthyIsCoherent`, `HealthyIsFit`, `ReadsBack` and `ReadsBackOpen`
are not theorems of `Spec`: with other constants the code breaks them
(`objects_room`, `objects_map`), and what is proved about the check, about
cleaning and about the listing therefore names them and `ShowsTheFiles` as
hypotheses, which the runs `objects_shared` and `listing` establish within their
bounds. Of the steps of a healthy file system it is creating, writing,
truncating and removing, and a cleaning that an error other than "full" cut
short, of which TLC alone says that they keep `HealthyIsFit`; the others are
proved to. `OnlyKnownDamage`, `CheckKeeps` and `CheckMends` are about chips on
which power was lost in the middle of a write of several pages; the state in
between is the result of folds over spans that are cut short at any iteration.
Liveness under fairness (`CheckEventuallyEnds`, `ListingEnds`, `SearchEnds`) and
ENABLED are outside what the proof system can do.

## Plan

1. Page layer, file layer, cache; counters and cache proved (done).
2. Objects of several pages with cleaning, loss of power and check; listing,
   index map, object ids, flash driver, wrapper; the driver proved (done).
3. Proofs of the page layer's contents, of descriptors and write pages, of the
   refinement of `FileStore`, of the wrapper and of the id search (done).
4. Coherence of objects, indices and descriptors; that the check leaves a coherent
   chip alone, and the listing, proved (done).
5. Cleaning under objects and descriptors, reading, opening, closing and mapping proved
   (done).
6. That creating, writing, truncating and removing keep `Fit` where there is room for their index
   pages; `SpiffsFiles` shown to match `SpiffsObjects` on `ObjectModify`,
   `ObjectAppend` and `Truncate`; a loss of power inside the check; an
   abstract specification of the object layer that `SpiffsObjects` refines.

## Not modelled

Metadata (`SPIFFS_OBJ_META_LEN` is 0), `SPIFFS_vis`, read-only builds, the
probing of an unknown configuration (compiled out), user callbacks, file
names as strings, the UART driver, start-up code, timers and the test program.
`SpiffsReadCache` leaves
out the scan at the end of `SPIFFS_check`, which reads the magic through the
cache: after a failed read it may take what the cache page holds for a block
without magic. It also takes a refused write as one that changed nothing, and
`last_access` as never wrapping (after 2^32 accesses a page used long ago may
seem new; only the choice of the page to evict depends on it). All models above the
flash driver take the HAL to return the bytes it is asked for.

`SpiffsObjects` leaves out:

- `SPIFFS_ix_remap` to a range that does not overlap the old one: moving by
  the length or more clears the `spiffs_ix_map` struct in the place of its
  buffer (`spiffs_hydrogen.c:1333` takes the address of the pointer), moving
  back by more than the length clears memory behind the buffer (line 1353);
- a write of no bytes below the end of a file, which moves the header to a
  copy of whatever `fs->work` holds;
- in the check, the branches `OnlyKnownDamage` shows to be out of reach, a
  loss of power, and a chip with more pages than `fs->work` has bits for.

`SPIFFS_stat`, `Ffile::exists()` and `Ffile::size()` change nothing. The latter
two compare prefixes of names and do not look at what `SPIFFS_opendir`
returned. `Ffile::is_available()` is always true (line 357 tests a constant).
An id search in which a group fits neither bitmap nor byte needs more than
16 bits of id and is excluded by an assumption. Erase counts that wrap at the index
flag (`spiffs_nucleus.c:259`, 382-386) are beyond what a flash chip survives.
