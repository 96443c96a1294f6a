----------------------- MODULE SpiffsPageLayerProofs -----------------------
(***************************************************************************)
(* Proofs about the page layer: its variables have their types and its     *)
(* page counters are exact, for every chip, every set of objects and every *)
(* sequence of operations, power losses and failing writes.                *)
(***************************************************************************)
EXTENDS SpiffsPageLayer, FiniteSetTheorems, WellFoundedInduction, TLAPS

----------------------------------------------------------------------------
(* Choosing pages and blocks.                                              *)

NatLess == {ss \in Nat \X Nat : ss[1] < ss[2]}

\* The order of the naturals is well-founded.
LEMMA NatLessIsWellFounded == IsWellFoundedOn(NatLess, Nat)
<1>1. OpToRel(<, Nat) = NatLess
  BY DEF OpToRel, NatLess
<1> QED BY <1>1, NatLessThanWellFounded

\* A non-empty set of naturals has a least element, and Least finds it.
LEMMA LeastInSet ==
    ASSUME NEW S \in SUBSET Nat, S # {}
    PROVE  Least(S) \in S /\ \A y \in S : Least(S) <= y
<1>1. PICK x \in S : \A y \in S : ~(<<y, x>> \in NatLess)
  BY NatLessIsWellFounded, WFMin
<1>2. ASSUME NEW y \in S PROVE x <= y
  <2>1. x \in Nat /\ y \in Nat
    OBVIOUS
  <2>2. <<y, x>> \in NatLess <=> y < x
    BY <2>1 DEF NatLess
  <2> QED BY <1>1, <2>1, <2>2
<1> QED BY <1>2 DEF Least

\* Blocks and entries are finite, and so are the pages.
LEMMA PageIsFinite == IsFiniteSet(Page) /\ IsFiniteSet(Block)
<1>1. IsFiniteSet(Block) /\ IsFiniteSet(Entry)
  BY FS_Interval, GeometryAssumption DEF Block, Entry
<1> QED BY <1>1, FS_Product DEF Page

\* A non-empty set of pages has a first page.
LEMMA FirstInSet ==
    ASSUME NEW S \in SUBSET Page, S # {}
    PROVE  First(S) \in S /\ \A q \in S : ~Before(q, First(S))
<1> DEFINE B == {p[1] : p \in S}
           E == {p[2] : p \in {q \in S : q[1] = Least(B)}}
<1>1. B \in SUBSET Nat /\ B # {}
  BY GeometryAssumption DEF Page, Block, Entry
<1>2. Least(B) \in B /\ \A y \in B : Least(B) <= y
  BY <1>1, LeastInSet
<1>3. E \in SUBSET Nat /\ E # {}
  <2>1. \A p \in S : p[2] \in Nat
    BY GeometryAssumption DEF Page, Block, Entry
  <2>2. PICK p \in S : p[1] = Least(B)
    BY <1>2
  <2> QED BY <2>1, <2>2
<1>4. Least(E) \in E /\ \A y \in E : Least(E) <= y
  BY <1>3, LeastInSet
<1>5. PICK p \in S : p[1] = Least(B) /\ p[2] = Least(E)
  BY <1>4
<1>6. ASSUME NEW q \in S PROVE ~Before(q, p)
  <2>1. p[1] <= q[1] /\ (q[1] = p[1] => p[2] <= q[2])
    BY <1>2, <1>4, <1>5
  <2>2. /\ p[1] \in Nat /\ p[2] \in Nat /\ q[1] \in Nat /\ q[2] \in Nat
    BY GeometryAssumption DEF Page, Block, Entry
  <2> QED BY <2>1, <2>2 DEF Before
<1> QED BY <1>6 DEF First

\* The free entry find_free settles on is one.
LEMMA NextFreeIsFree ==
    ASSUME NEW f, FreeEntries(f) # {}
    PROVE  NextFree(f) \in Page /\ f.lu[NextFree(f)] = FREE
<1> DEFINE S == FreeEntries(f)
           ahead == {p \in S : ~Before(p, f.free_cursor)}
<1>1. First(IF ahead # {} THEN ahead ELSE S) \in S
  BY FirstInSet DEF FreeEntries
<1> QED BY <1>1 DEF NextFree, FirstFrom, FreeEntries, IsFree

----------------------------------------------------------------------------
(* Counting pages.                                                         *)

\* What StatsExact says of a state of the chip and the RAM.
Counts(f) == /\ f.stats_p_allocated = Cardinality(BusyPages(f))
             /\ f.stats_p_deleted = Cardinality(DeletedPages(f))

\* g has the lookup and the counters of f.
Same(f, g) == /\ g.lu = f.lu
              /\ g.stats_p_allocated = f.stats_p_allocated
              /\ g.stats_p_deleted = f.stats_p_deleted

\* The pages counted are finitely many.
LEMMA CountedIsFinite ==
    ASSUME NEW f
    PROVE  /\ IsFiniteSet(BusyPages(f)) /\ IsFiniteSet(DeletedPages(f))
           /\ Cardinality(BusyPages(f)) \in Nat
           /\ Cardinality(DeletedPages(f)) \in Nat
<1>1. BusyPages(f) \in SUBSET Page /\ DeletedPages(f) \in SUBSET Page
  BY DEF BusyPages, DeletedPages
<1>2. IsFiniteSet(BusyPages(f)) /\ IsFiniteSet(DeletedPages(f))
  BY <1>1, PageIsFinite, FS_Subset
<1> QED BY <1>2, FS_CardinalityType

\* The counts depend on the lookup alone.
LEMMA SameCounts ==
    ASSUME NEW f, NEW g, Same(f, g)
    PROVE  Counts(g) = Counts(f)
BY DEF Same, Counts, BusyPages, DeletedPages

\* Occupying a free page makes one more busy page.
LEMMA CountOccupied ==
    ASSUME NEW f \in State, NEW g \in State, NEW p \in Page,
           f.lu[p] = FREE, IsBusy(g.lu[p]),
           \A q \in Page \ {p} : g.lu[q] = f.lu[q]
    PROVE  /\ Cardinality(BusyPages(g)) = Cardinality(BusyPages(f)) + 1
           /\ DeletedPages(g) = DeletedPages(f)
<1>1. BusyPages(g) = BusyPages(f) \cup {p} /\ p \notin BusyPages(f)
  BY DEF BusyPages, IsBusy
<1>2. DeletedPages(g) = DeletedPages(f)
  BY MarkAssumption DEF DeletedPages, IsDeleted, IsBusy
<1> QED BY <1>1, <1>2, CountedIsFinite, FS_AddElement

\* Deleting a busy page makes one busy page less and one deleted page more.
LEMMA CountDeleted ==
    ASSUME NEW f \in State, NEW g \in State, NEW p \in Page,
           IsBusy(f.lu[p]), g.lu[p] = DELETED,
           \A q \in Page \ {p} : g.lu[q] = f.lu[q]
    PROVE  /\ Cardinality(BusyPages(g)) = Cardinality(BusyPages(f)) - 1
           /\ Cardinality(DeletedPages(g)) = Cardinality(DeletedPages(f)) + 1
<1>1. BusyPages(g) = BusyPages(f) \ {p} /\ p \in BusyPages(f)
  BY DEF BusyPages, IsBusy
<1>2. DeletedPages(g) = DeletedPages(f) \cup {p} /\ p \notin DeletedPages(f)
  BY MarkAssumption DEF DeletedPages, IsDeleted, IsBusy
<1>3. Cardinality(BusyPages(f) \ {p}) = Cardinality(BusyPages(f)) - 1
  BY <1>1, CountedIsFinite, FS_RemoveElement
<1>4. Cardinality(DeletedPages(f) \cup {p}) = Cardinality(DeletedPages(f)) + 1
  BY <1>2, CountedIsFinite, FS_AddElement
<1> QED BY <1>1, <1>2, <1>3, <1>4

\* Erasing a block without busy pages takes its deleted pages away.
LEMMA CountErased ==
    ASSUME NEW f \in State, NEW g \in State, NEW b \in Block,
           PagesOf(f, b, IsBusy) = {},
           g.lu = [p \in Page |-> IF p[1] = b THEN FREE ELSE f.lu[p]]
    PROVE  /\ BusyPages(g) = BusyPages(f)
           /\ Cardinality(DeletedPages(g)) = Cardinality(DeletedPages(f))
                 - Cardinality(PagesOf(f, b, IsDeleted))
           /\ Cardinality(PagesOf(f, b, IsDeleted)) \in Nat
<1>1. \A p \in Page : p[1] = b <=> p \in InBlock(b)
  BY DEF Page, InBlock
<1>2. InBlock(b) \subseteq Page
  BY DEF Page, InBlock
<1>3. BusyPages(g) = BusyPages(f)
  BY <1>1, <1>2 DEF BusyPages, PagesOf, IsBusy
<1>4. /\ DeletedPages(g) = DeletedPages(f) \ PagesOf(f, b, IsDeleted)
      /\ DeletedPages(f) \cap PagesOf(f, b, IsDeleted) = PagesOf(f, b, IsDeleted)
      /\ PagesOf(f, b, IsDeleted) \in SUBSET DeletedPages(f)
  BY <1>1, <1>2, MarkAssumption DEF DeletedPages, PagesOf, IsDeleted
<1>5. IsFiniteSet(PagesOf(f, b, IsDeleted))
  BY <1>4, CountedIsFinite, FS_Subset
<1>6. Cardinality(PagesOf(f, b, IsDeleted)) \in Nat
  BY <1>5, FS_CardinalityType
<1>7. Cardinality(DeletedPages(f) \ PagesOf(f, b, IsDeleted)) =
        Cardinality(DeletedPages(f))
          - Cardinality(DeletedPages(f) \cap PagesOf(f, b, IsDeleted))
  BY CountedIsFinite, FS_Difference
<1> QED BY <1>3, <1>4, <1>6, <1>7

----------------------------------------------------------------------------
(* The single writes.                                                      *)

\* Programming a page gives a page.
LEMMA ProgPageType ==
    ASSUME NEW x \in PageSet, NEW y \in PageSet
    PROVE  ProgPage(x, y) \in PageSet
<1>1. /\ x.id \in ObjId \cup {FREE, Garbage} /\ x.span \in {0, FREE, Garbage}
      /\ y.id \in ObjId \cup {FREE, Garbage} /\ y.span \in {0, FREE, Garbage}
      /\ x.flags \in SUBSET Flag /\ y.flags \in SUBSET Flag
      /\ x.body \in BodySet /\ y.body \in BodySet
  BY DEF PageSet
<1>2. /\ Prog(x.id, y.id, FREE) \in ObjId \cup {FREE, Garbage}
      /\ Prog(x.span, y.span, FREE) \in {0, FREE, Garbage}
  BY <1>1 DEF Prog
<1>3. ProgBody(x.body, y.body) \in BodySet
  <2>1. CASE x.body = NoBody /\ y.body = NoBody
    <3>1. ProgBody(NoBody, NoBody) = NoBody
      BY DEF ProgBody, NoBody
    <3> QED BY <2>1, <3>1 DEF BodySet
  <2>2. CASE x.body # NoBody \/ y.body # NoBody
    <3>1. DOMAIN x.body \cup DOMAIN y.body = {"data"}
      BY <1>1, <2>2 DEF BodySet, NoBody
    <3>2. \A z \in BodySet : \A i \in DOMAIN z : z[i] \in Contents \cup {Garbage}
      BY DEF BodySet, NoBody
    <3>3. ProgBody(x.body, y.body) \in [{"data"} -> Contents \cup {Garbage}]
      BY <1>1, <3>1, <3>2 DEF ProgBody
    <3> QED BY <3>3 DEF BodySet
  <2> QED BY <2>1, <2>2
<1>4. (x.flags \cup y.flags) \in SUBSET Flag
  BY <1>1
<1> QED BY <1>2, <1>3, <1>4 DEF ProgPage, PageSet


----------------------------------------------------------------------------
(* How the operations of the page layer compose.                           *)

\* The counters are exact, or the RAM they are kept in is lost.
Sound(f) == Counts(f) \/ PowerLost(f)

\* A state of an operation that erases for real.
Typed(f) == f \in State /\ f.fault # "erase"

\* The operation that leads from f to g keeps the busy pages outside D, and
\* the counters exact.
Leads(f, g, D) ==
    /\ Typed(g) /\ g.fault = f.fault
    /\ \A p \in Page \ D : IsBusy(f.lu[p]) => g.lu[p] = f.lu[p]
    /\ Sound(f) => Sound(g)

\* Operations compose.
LEMMA LeadsTwice ==
    ASSUME NEW f, NEW g, NEW h, NEW D, NEW E, Leads(f, g, D), Leads(g, h, E)
    PROVE  Leads(f, h, D \cup E)
BY DEF Leads, IsBusy

\* Doing nothing, or failing, or assigning another field of the RAM, counts
\* for nothing.
LEMMA LeadsNowhere ==
    ASSUME NEW f \in State, NEW g \in State, Typed(f), g.fault = f.fault,
           g.res = f.res \/ g.res # "OK", Same(f, g), PowerLost(f) => PowerLost(g)
    PROVE  Leads(f, g, {})
<1>1. Counts(g) = Counts(f)
  BY SameCounts
<1> QED BY <1>1 DEF Leads, Typed, Same, Sound

\* A write that leaves the lookup and the RAM alone.
LEMMA LeadsWrite ==
    ASSUME NEW f \in State, NEW g \in State, Typed(f), Same(f, g),
           g.res = f.res, g.fault = f.fault, g.found = f.found
    PROVE  LET w == Write(f, g)
           IN  /\ Leads(f, w, {}) /\ w.found = f.found
               /\ Same(f, w) /\ (Ok(w) => Ok(f))
               /\ Ok(w) => /\ w.max_erase_count = g.max_erase_count
                           /\ w.ec = g.ec
<1> DEFINE w == Write(f, g)
<1>1. CASE ~Ok(f)
  <2>1. w = f
    BY <1>1 DEF Write
  <2> QED BY <1>1, <2>1, LeadsNowhere DEF Same, Ok
<1>2. CASE Ok(f) /\ f.fault # "none" /\ f.fuel = 0
  <2>1. w = [f EXCEPT !.res = "FAULT"]
    BY <1>2 DEF Write
  <2>2. /\ w \in State /\ Same(f, w) /\ w.fault = f.fault /\ w.found = f.found
        /\ w.res # "OK" /\ ~PowerLost(f) /\ ~Ok(w)
    BY <1>2, <2>1 DEF Same, State, Ok, PowerLost
  <2> QED BY <2>2, LeadsNowhere
<1>3. CASE Ok(f) /\ f.fault # "none" /\ f.fuel # 0
  <2>1. w = [g EXCEPT !.fuel = f.fuel - 1] /\ f.fuel - 1 \in Nat
    BY <1>3 DEF Write, State
  <2>2. /\ w \in State /\ Same(f, w) /\ w.fault = f.fault /\ w.found = f.found
        /\ w.res = f.res /\ ~PowerLost(f) /\ w.ec = g.ec
        /\ w.max_erase_count = g.max_erase_count
    BY <1>3, <2>1 DEF Same, State, Ok, PowerLost
  <2> QED BY <1>3, <2>2, LeadsNowhere
<1>4. CASE Ok(f) /\ f.fault = "none"
  <2>1. w = g /\ ~PowerLost(f)
    BY <1>4 DEF Write, Ok, PowerLost
  <2> QED BY <1>4, <2>1, LeadsNowhere
<1> QED BY <1>1, <1>2, <1>3, <1>4

\* Programming a page of the chip.
LEMMA LeadsWritePage ==
    ASSUME NEW f \in State, Typed(f), NEW p \in Page, NEW pg \in PageSet
    PROVE  LET w == WritePage(f, p, pg)
           IN  /\ Leads(f, w, {}) /\ w.found = f.found /\ Same(f, w)
               /\ Ok(w) => Ok(f)
<1> DEFINE g == [f EXCEPT !.page[p] = ProgPage(f.page[p], pg)]
<1>1. f.page[p] \in PageSet
  BY DEF State
<1>2. ProgPage(f.page[p], pg) \in PageSet
  BY <1>1, ProgPageType
<1>3. /\ g \in State /\ Same(f, g) /\ g.res = f.res /\ g.fault = f.fault
      /\ g.found = f.found
  BY <1>2 DEF State, Same
<1> HIDE DEF g
<1>4. LET w == Write(f, g)
      IN  /\ Leads(f, w, {}) /\ w.found = f.found /\ Same(f, w)
          /\ Ok(w) => Ok(f)
  BY <1>3, LeadsWrite
<1> QED BY <1>4 DEF WritePage, g

\* Setting flags of a page of the chip.
LEMMA LeadsWriteFlags ==
    ASSUME NEW f \in State, Typed(f), NEW p \in Page, NEW flags \in SUBSET Flag
    PROVE  LET w == WriteFlags(f, p, flags)
           IN  /\ Leads(f, w, {}) /\ w.found = f.found /\ Same(f, w)
               /\ Ok(w) => Ok(f)
<1> DEFINE g == [f EXCEPT !.page[p].flags = f.page[p].flags \cup flags]
<1>1. f.page[p] \in PageSet
  BY DEF State
<1>2. [f.page[p] EXCEPT !.flags = f.page[p].flags \cup flags] \in PageSet
  BY <1>1 DEF PageSet
<1>3. /\ g \in State /\ Same(f, g) /\ g.res = f.res /\ g.fault = f.fault
      /\ g.found = f.found
  BY <1>2 DEF State, Same
<1> HIDE DEF g
<1>4. LET w == Write(f, g)
      IN  /\ Leads(f, w, {}) /\ w.found = f.found /\ Same(f, w)
          /\ Ok(w) => Ok(f)
  BY <1>3, LeadsWrite
<1> QED BY <1>4 DEF WriteFlags, g

----------------------------------------------------------------------------
(* The operations on pages.                                                *)

\* Marking a free entry in the lookup and counting its page.
LEMMA LeadsOccupy ==
    ASSUME NEW f \in State, Typed(f), NEW p \in Page, NEW l \in ObjId,
           f.lu[p] = FREE
    PROVE  LET w == CountAllocated(WriteLu(f, p, l))
           IN  /\ Leads(f, w, {}) /\ w.found = f.found
               /\ Ok(w) => w.lu[p] = l /\ Ok(f)
<1> DEFINE w == CountAllocated(WriteLu(f, p, l))
           n == IF f.fault = "none" THEN f.fuel ELSE f.fuel - 1
           g == [f EXCEPT !.lu[p] = l, !.fuel = n,
                          !.stats_p_allocated = f.stats_p_allocated + 1]
<1>1. l # FREE /\ l # DELETED
  BY IdAssumption
<1>2. CASE ~Ok(f)
  <2>1. w = f
    BY <1>2 DEF WriteLu, Write, CountAllocated, Then
  <2> QED BY <1>2, <2>1, LeadsNowhere DEF Same
<1>3. CASE Ok(f) /\ f.fault # "none" /\ f.fuel = 0
  <2>1. w = [f EXCEPT !.res = "FAULT"]
    BY <1>3 DEF WriteLu, Write, CountAllocated, Then, Ok
  <2>2. /\ w \in State /\ Same(f, w) /\ w.fault = f.fault /\ w.found = f.found
        /\ w.res # "OK" /\ ~PowerLost(f) /\ ~Ok(w)
    BY <1>3, <2>1 DEF Same, State, Ok, PowerLost
  <2> QED BY <2>2, LeadsNowhere
<1>4. CASE Ok(f) /\ (f.fault = "none" \/ f.fuel # 0)
  <2>1. w = g /\ n \in Nat
    <3>1. Prog(f.lu[p], l, FREE) = l
      BY DEF Prog
    <3>2. CASE f.fault = "none"
      <4>1. w = [f EXCEPT !.lu[p] = l,
                          !.stats_p_allocated = f.stats_p_allocated + 1]
        BY <1>1, <1>4, <3>1, <3>2 DEF WriteLu, Write, CountAllocated, Then, Ok, State
      <4>2. f = [f EXCEPT !.fuel = f.fuel] /\ f.fuel \in Nat
        BY DEF State
      <4>3. n = f.fuel
        BY <3>2
      <4>4. w = [f EXCEPT !.lu[p] = l, !.fuel = f.fuel,
                          !.stats_p_allocated = f.stats_p_allocated + 1]
        BY <4>1, <4>2
      <4> HIDE DEF n
      <4> QED BY <4>2, <4>3, <4>4
    <3>3. CASE f.fault # "none"
      <4>1. n = f.fuel - 1 /\ n \in Nat
        BY <1>4, <3>3 DEF State
      <4>2. w = [f EXCEPT !.lu[p] = l, !.fuel = f.fuel - 1,
                          !.stats_p_allocated = f.stats_p_allocated + 1]
        BY <1>1, <1>4, <3>1, <3>3 DEF WriteLu, Write, CountAllocated, Then, Ok, State
      <4> HIDE DEF n
      <4> QED BY <4>1, <4>2
    <3> QED BY <3>2, <3>3
  <2>2. g \in State /\ g.lu = [f.lu EXCEPT ![p] = l] /\ f.lu \in [Page -> Mark]
    <3>1. f.lu \in [Page -> Mark]
      BY DEF State
    <3>2. [f.lu EXCEPT ![p] = l] \in [Page -> Mark]
      BY <3>1 DEF Mark
    <3>3. f.stats_p_allocated + 1 \in Int
      BY DEF State
    <3> QED BY <2>1, <3>1, <3>2, <3>3 DEF State
  <2>3. /\ g.fault = f.fault /\ g.res = f.res /\ g.found = f.found
        /\ g.stats_p_allocated = f.stats_p_allocated + 1
        /\ g.stats_p_deleted = f.stats_p_deleted
    BY <2>1 DEF State
  <2>4. g.lu[p] = l /\ IsBusy(g.lu[p]) /\ \A q \in Page \ {p} : g.lu[q] = f.lu[q]
    BY <1>1, <2>2 DEF IsBusy
  <2>5. Counts(f) => Counts(g)
    <3> HIDE DEF g
    <3>1. /\ Cardinality(BusyPages(g)) = Cardinality(BusyPages(f)) + 1
          /\ DeletedPages(g) = DeletedPages(f)
      BY <2>2, <2>4, CountOccupied
    <3> QED BY <2>3, <3>1 DEF Counts
  <2>6. ~PowerLost(f)
    BY <1>4 DEF Ok, PowerLost
  <2> QED BY <1>4, <2>1, <2>2, <2>3, <2>4, <2>5, <2>6
          DEF Leads, Typed, Sound, IsBusy
<1> QED BY <1>2, <1>3, <1>4

\* spiffs_page_delete on a busy page.
LEMMA LeadsPageDelete ==
    ASSUME NEW f \in State, Typed(f), NEW p \in Page, IsBusy(f.lu[p])
    PROVE  LET w == PageDelete(f, p)
           IN  /\ Leads(f, w, {p}) /\ w.found = f.found
               /\ Ok(w) => Ok(f)
<1> DEFINE m == WriteLu(f, p, DELETED)
           c == Then(m, [m EXCEPT !.stats_p_deleted = @ + 1,
                                  !.stats_p_allocated = @ - 1])
           n == IF f.fault = "none" THEN f.fuel ELSE f.fuel - 1
           g == [f EXCEPT !.lu[p] = DELETED, !.fuel = n,
                          !.stats_p_deleted = f.stats_p_deleted + 1,
                          !.stats_p_allocated = f.stats_p_allocated - 1]
<1>1. Leads(f, c, {p}) /\ c.found = f.found /\ (Ok(c) => Ok(f))
  <2>1. CASE ~Ok(f)
    <3>1. c = f
      BY <2>1 DEF WriteLu, Write, Then
    <3> QED BY <3>1 DEF Leads
  <2>2. CASE Ok(f) /\ f.fault # "none" /\ f.fuel = 0
    <3>1. c = [f EXCEPT !.res = "FAULT"]
      BY <2>2 DEF WriteLu, Write, Then, Ok
    <3>2. /\ c \in State /\ Same(f, c) /\ c.fault = f.fault
          /\ c.res # "OK" /\ ~PowerLost(f) /\ c.found = f.found /\ ~Ok(c)
      BY <2>2, <3>1 DEF Same, State, Ok, PowerLost
    <3>3. Leads(f, c, {})
      BY <3>2, LeadsNowhere
    <3> QED BY <3>2, <3>3 DEF Leads
  <2>3. CASE Ok(f) /\ (f.fault = "none" \/ f.fuel # 0)
    <3>1. c = g /\ n \in Nat
      <4>1. CASE f.fault = "none"
        <5>1. c = [f EXCEPT !.lu[p] = DELETED,
                            !.stats_p_deleted = f.stats_p_deleted + 1,
                            !.stats_p_allocated = f.stats_p_allocated - 1]
          BY <2>3, <4>1 DEF WriteLu, Write, Then, Ok, State
        <5>2. f = [f EXCEPT !.fuel = f.fuel] /\ f.fuel \in Nat
          BY DEF State
        <5>3. n = f.fuel
          BY <4>1
        <5>4. c = [f EXCEPT !.lu[p] = DELETED, !.fuel = f.fuel,
                            !.stats_p_deleted = f.stats_p_deleted + 1,
                            !.stats_p_allocated = f.stats_p_allocated - 1]
          BY <5>1, <5>2
        <5> HIDE DEF n
        <5> QED BY <5>2, <5>3, <5>4
      <4>2. CASE f.fault # "none"
        <5>1. n = f.fuel - 1 /\ n \in Nat
          BY <2>3, <4>2 DEF State
        <5>2. c = [f EXCEPT !.lu[p] = DELETED, !.fuel = f.fuel - 1,
                            !.stats_p_deleted = f.stats_p_deleted + 1,
                            !.stats_p_allocated = f.stats_p_allocated - 1]
          BY <2>3, <4>2 DEF WriteLu, Write, Then, Ok, State
        <5> HIDE DEF n
        <5> QED BY <5>1, <5>2
      <4> QED BY <4>1, <4>2
    <3>2. g \in State /\ g.lu = [f.lu EXCEPT ![p] = DELETED] /\ f.lu \in [Page -> Mark]
      <4>1. f.lu \in [Page -> Mark]
        BY DEF State
      <4>2. [f.lu EXCEPT ![p] = DELETED] \in [Page -> Mark]
        BY <4>1 DEF Mark
      <4>3. f.stats_p_allocated - 1 \in Int /\ f.stats_p_deleted + 1 \in Int
        BY DEF State
      <4> QED BY <3>1, <4>1, <4>2, <4>3 DEF State
    <3>3. /\ g.fault = f.fault /\ g.res = f.res /\ g.found = f.found
          /\ g.stats_p_allocated = f.stats_p_allocated - 1
          /\ g.stats_p_deleted = f.stats_p_deleted + 1
      BY <3>1 DEF State
    <3>4. g.lu[p] = DELETED /\ \A q \in Page \ {p} : g.lu[q] = f.lu[q]
      BY <3>2
    <3>5. Counts(f) => Counts(g)
      <4> HIDE DEF g
      <4>1. /\ Cardinality(BusyPages(g)) = Cardinality(BusyPages(f)) - 1
            /\ Cardinality(DeletedPages(g)) = Cardinality(DeletedPages(f)) + 1
        BY <3>2, <3>4, CountDeleted
      <4> QED BY <3>3, <4>1 DEF Counts
    <3>6. ~PowerLost(f)
      BY <2>3 DEF Ok, PowerLost
    <3> QED BY <2>3, <3>1, <3>2, <3>3, <3>4, <3>5, <3>6
            DEF Leads, Typed, Sound
  <2> QED BY <2>1, <2>2, <2>3
<1> HIDE DEF c
<1>2. c \in State /\ Typed(c)
  BY <1>1 DEF Leads, Typed
<1> DEFINE w == WriteFlags(c, p, {"DELET", "USED"})
<1>3. Leads(c, w, {}) /\ w.found = c.found /\ (Ok(w) => Ok(c))
  BY <1>2, LeadsWriteFlags DEF Flag
<1>4. Leads(f, w, {p} \cup {})
  BY <1>1, <1>3, LeadsTwice
<1>5. PageDelete(f, p) = WriteFlags(c, p, {"DELET", "USED"})
  BY DEF PageDelete, c
<1> QED BY <1>1, <1>3, <1>4, <1>5

----------------------------------------------------------------------------
(* Erasing.                                                                *)

\* What spiffs_erase_block does once the flash is erased.
LEMMA LeadsStamp ==
    ASSUME NEW c \in State, Typed(c), NEW b \in Block, NEW n \in 0 .. EcFree,
           Ok(c) => c.ec[b] = EcFree
    PROVE  LET m == WriteMagic(WriteEraseCount(c, b, n), b)
               w == Then(m, [m EXCEPT !.max_erase_count =
                               IF @ + 1 \in {EcFlag, EcFree + 1} THEN 0
                               ELSE @ + 1])
           IN  Leads(c, w, {}) /\ Same(c, w)
<1> DEFINE s == WriteEraseCount(c, b, n)
           m == WriteMagic(s, b)
           w == Then(m, [m EXCEPT !.max_erase_count =
                               IF @ + 1 \in {EcFlag, EcFree + 1} THEN 0
                               ELSE @ + 1])
<1>1. Leads(c, s, {}) /\ Same(c, s)
  <2> DEFINE g == [c EXCEPT !.ec[b] = IF c.ec[b] = EcFree THEN n
                                      ELSE And(c.ec[b], n)]
  <2>1. CASE ~Ok(c)
    <3>1. s = c
      BY <2>1 DEF WriteEraseCount, Write
    <3> QED BY <3>1 DEF Leads, Same
  <2>2. CASE Ok(c)
    <3>1. /\ g \in State /\ Same(c, g) /\ g.res = c.res /\ g.fault = c.fault
          /\ g.found = c.found
      BY <2>2 DEF State, Same
    <3> HIDE DEF g
    <3>2. Leads(c, Write(c, g), {}) /\ Same(c, Write(c, g))
      BY <3>1, LeadsWrite
    <3> QED BY <3>2 DEF WriteEraseCount, g
  <2> QED BY <2>1, <2>2
<1> HIDE DEF s
<1>2. Leads(s, m, {}) /\ Same(s, m)
  <2> DEFINE g == [s EXCEPT !.magic[b] = TRUE]
  <2>1. s \in State /\ Typed(s)
    BY <1>1 DEF Leads, Typed
  <2>2. /\ g \in State /\ Same(s, g) /\ g.res = s.res /\ g.fault = s.fault
        /\ g.found = s.found
    BY <2>1 DEF State, Same
  <2> HIDE DEF g
  <2>3. Leads(s, Write(s, g), {}) /\ Same(s, Write(s, g))
    BY <2>1, <2>2, LeadsWrite
  <2> QED BY <2>3 DEF WriteMagic, g
<1> HIDE DEF m
<1>3. Leads(m, w, {}) /\ Same(m, w)
  <2>1. m \in State /\ Typed(m)
    BY <1>2 DEF Leads, Typed
  <2>2. EcFlag \in Nat /\ EcFlag > 1 /\ EcFree = 2 * EcFlag - 1
    BY GeometryAssumption DEF EcFree
  <2>3. m.max_erase_count \in 0 .. EcFree
    BY <2>1 DEF State
  <2>4. (IF m.max_erase_count + 1 \in {EcFlag, EcFree + 1} THEN 0
         ELSE m.max_erase_count + 1) \in 0 .. EcFree
    BY <2>2, <2>3
  <2>5. /\ w \in State /\ w.fault = m.fault /\ w.res = m.res /\ Same(m, w)
    BY <2>1, <2>4 DEF State, Same, Then
  <2>6. PowerLost(m) => PowerLost(w)
    BY <2>5 DEF PowerLost
  <2> HIDE DEF w
  <2> QED BY <2>1, <2>5, <2>6, LeadsNowhere
<1>4. Leads(c, m, {} \cup {}) /\ Same(c, m)
  BY <1>1, <1>2, LeadsTwice DEF Same
<1>5. Leads(c, w, {} \cup {} \cup {}) /\ Same(c, w)
  BY <1>3, <1>4, LeadsTwice DEF Same
<1> QED BY <1>5 DEF s, m

\* The state a successful erase of the flash leaves.
Blank(f, b) ==
    [f EXCEPT !.lu    = [p \in Page |-> IF p[1] = b THEN FREE ELSE f.lu[p]],
              !.page  = [p \in Page |-> IF p[1] = b THEN Erased ELSE f.page[p]],
              !.ec    = [f.ec EXCEPT ![b] = EcFree],
              !.magic = [f.magic EXCEPT ![b] = FALSE]]

\* A block is erased, or power was lost before.
LEMMA EraseFlashCases ==
    ASSUME NEW f \in State, Typed(f), Ok(f), NEW b \in Block
    PROVE  LET e == EraseFlash(f, b)
           IN  /\ e \in State /\ e.fault = f.fault
               /\ \/ PowerLost(e) /\ Same(f, e)
                  \/ /\ Ok(e) /\ e.lu = Blank(f, b).lu /\ e.ec[b] = EcFree
                     /\ e.stats_p_allocated = f.stats_p_allocated
                     /\ e.stats_p_deleted = f.stats_p_deleted
<1> DEFINE e == EraseFlash(f, b)
           g == Blank(f, b)
<1>1. /\ g \in State /\ g.res = f.res /\ g.fault = f.fault
      /\ g.stats_p_allocated = f.stats_p_allocated
      /\ g.stats_p_deleted = f.stats_p_deleted
      /\ g.ec[b] = EcFree /\ g.fuel = f.fuel
  <2>1. /\ [p \in Page |-> IF p[1] = b THEN FREE ELSE f.lu[p]] \in [Page -> Mark]
        /\ f.ec \in [Block -> 0 .. EcFree] /\ f.magic \in [Block -> BOOLEAN]
    BY DEF State, Mark
  <2>2. Erased \in PageSet
    BY DEF Erased, PageSet, BodySet
  <2>3. [p \in Page |-> IF p[1] = b THEN Erased ELSE f.page[p]] \in [Page -> PageSet]
    BY <2>2 DEF State
  <2>4. EcFree \in 0 .. EcFree
    BY GeometryAssumption DEF EcFree
  <2>5. /\ [f.ec EXCEPT ![b] = EcFree] \in [Block -> 0 .. EcFree]
        /\ [f.ec EXCEPT ![b] = EcFree][b] = EcFree
        /\ [f.magic EXCEPT ![b] = FALSE] \in [Block -> BOOLEAN]
    BY <2>1, <2>4
  <2> QED BY <2>1, <2>3, <2>5 DEF Blank, State
<1>2. CASE f.fault # "power"
  <2>1. e = g
    BY <1>2 DEF EraseFlash, Typed, Blank
  <2> HIDE DEF g
  <2> QED BY <1>1, <2>1 DEF Ok, g
<1>3. CASE f.fault = "power" /\ f.fuel = 0
  <2>1. e = [f EXCEPT !.res = "FAULT"]
    BY <1>3 DEF EraseFlash, Write
  <2>2. e \in State /\ e.fault = f.fault /\ PowerLost(e) /\ Same(f, e)
    BY <1>3, <2>1 DEF State, PowerLost, Same
  <2> QED BY <2>2
<1>4. CASE f.fault = "power" /\ f.fuel # 0
  <2>1. e = [g EXCEPT !.fuel = f.fuel - 1] /\ f.fuel - 1 \in Nat
    BY <1>4 DEF EraseFlash, Write, Blank, State
  <2> HIDE DEF g
  <2>2. /\ e \in State /\ e.fault = f.fault /\ e.res = f.res
        /\ e.lu = g.lu /\ e.ec = g.ec
        /\ e.stats_p_allocated = f.stats_p_allocated
        /\ e.stats_p_deleted = f.stats_p_deleted
    BY <1>1, <2>1 DEF State
  <2> QED BY <1>1, <2>2 DEF Ok, g
<1> QED BY <1>2, <1>3, <1>4

\* spiffs_erase_block changes the lookup of its block only, and no counter of
\* pages.
LEMMA EraseBlockCases ==
    ASSUME NEW f \in State, Typed(f), Ok(f), NEW b \in Block
    PROVE  LET w == EraseBlock(f, b)
           IN  /\ Typed(w) /\ w.fault = f.fault
               /\ \/ PowerLost(w) /\ w.lu = f.lu
                  \/ /\ w.lu = Blank(f, b).lu
                     /\ w.stats_p_allocated = f.stats_p_allocated
                     /\ w.stats_p_deleted = f.stats_p_deleted
<1> DEFINE e == EraseFlash(f, b)
           c == Then(e, [e EXCEPT !.free_blocks = e.free_blocks + 1])
           n == f.max_erase_count
           m == WriteMagic(WriteEraseCount(c, b, n), b)
           w == Then(m, [m EXCEPT !.max_erase_count =
                               IF @ + 1 \in {EcFlag, EcFree + 1} THEN 0
                               ELSE @ + 1])
<1>1. /\ e \in State /\ e.fault = f.fault
      /\ \/ PowerLost(e) /\ Same(f, e)
         \/ /\ Ok(e) /\ e.lu = Blank(f, b).lu /\ e.ec[b] = EcFree
            /\ e.stats_p_allocated = f.stats_p_allocated
            /\ e.stats_p_deleted = f.stats_p_deleted
  BY EraseFlashCases
<1> HIDE DEF e
<1>2. /\ c \in State /\ Typed(c) /\ c.fault = e.fault /\ c.res = e.res
      /\ Same(e, c) /\ c.ec = e.ec
  BY <1>1 DEF State, Then, Typed, Same
<1>3. n \in 0 .. EcFree
  BY DEF State
<1>4. Ok(c) => c.ec[b] = EcFree
  BY <1>1, <1>2 DEF Ok, PowerLost
<1> HIDE DEF c, n
<1>5. Leads(c, w, {}) /\ Same(c, w)
  BY <1>2, <1>3, <1>4, LeadsStamp
<1>6. PowerLost(c) => w = c
  BY DEF PowerLost, Then, WriteMagic, WriteEraseCount, Write, Ok
<1> HIDE DEF w
<1>7. /\ Typed(w) /\ w.fault = f.fault
      /\ \/ PowerLost(w) /\ w.lu = f.lu
         \/ /\ w.lu = Blank(f, b).lu
            /\ w.stats_p_allocated = f.stats_p_allocated
            /\ w.stats_p_deleted = f.stats_p_deleted
  BY <1>1, <1>2, <1>5, <1>6 DEF Leads, Same, PowerLost
<1>8. EraseBlock(f, b) = w
  BY DEF EraseBlock, w, c, e, n
<1> QED BY <1>7, <1>8

\* Erasing a block without busy pages, its deleted pages no longer counted.
LEMMA LeadsErase ==
    ASSUME NEW f \in State, Typed(f), Ok(f), NEW b \in Block,
           PagesOf(f, b, IsBusy) = {},
           NEW h, h = [f EXCEPT !.stats_p_deleted =
                         f.stats_p_deleted - Cardinality(PagesOf(f, b, IsDeleted))]
    PROVE  Leads(f, EraseBlock(h, b), {})
<1> DEFINE w == EraseBlock(h, b)
           g == Blank(f, b)
<1>0. SUFFICES Leads(f, w, {})
  OBVIOUS
<1>1. g.lu = [p \in Page |-> IF p[1] = b THEN FREE ELSE f.lu[p]]
  BY DEF Blank, State
<1>2. Cardinality(PagesOf(f, b, IsDeleted)) \in Nat
  <2>1. InBlock(b) \subseteq Page
    BY DEF Page, InBlock
  <2>2. PagesOf(f, b, IsDeleted) \in SUBSET DeletedPages(f)
    BY <2>1 DEF PagesOf, DeletedPages
  <2> QED BY <2>2, CountedIsFinite, FS_Subset, FS_CardinalityType
<1>3. /\ h \in State /\ Typed(h) /\ Ok(h) /\ h.fault = f.fault /\ h.lu = f.lu
      /\ h.stats_p_allocated = f.stats_p_allocated
      /\ h.stats_p_deleted =
            f.stats_p_deleted - Cardinality(PagesOf(f, b, IsDeleted))
      /\ Blank(h, b).lu = g.lu
  BY <1>1, <1>2 DEF State, Typed, Ok, Blank
<1>4. /\ Typed(w) /\ w.fault = f.fault
      /\ \/ PowerLost(w) /\ w.lu = f.lu
         \/ /\ w.lu = g.lu
            /\ w.stats_p_allocated = h.stats_p_allocated
            /\ w.stats_p_deleted = h.stats_p_deleted
  BY <1>3, EraseBlockCases
<1> HIDE DEF w, g
<1>5. \A p \in Page : IsBusy(f.lu[p]) => w.lu[p] = f.lu[p]
  <2>1. \A p \in Page : IsBusy(f.lu[p]) => p[1] # b
    BY DEF PagesOf, InBlock, Page
  <2> QED BY <1>1, <1>4, <2>1
<1>6. CASE PowerLost(w)
  BY <1>4, <1>5, <1>6 DEF Leads, Sound
<1>7. CASE w.lu = g.lu /\ w.stats_p_allocated = h.stats_p_allocated
           /\ w.stats_p_deleted = h.stats_p_deleted
  <2>1. w \in State
    BY <1>4 DEF Typed
  <2>2. /\ BusyPages(w) = BusyPages(f)
        /\ Cardinality(DeletedPages(w)) = Cardinality(DeletedPages(f))
              - Cardinality(PagesOf(f, b, IsDeleted))
    BY <1>1, <1>7, <2>1, CountErased
  <2>3. Counts(f) => Counts(w)
    BY <1>3, <1>7, <2>2 DEF Counts
  <2>4. ~PowerLost(f)
    BY DEF Ok, PowerLost
  <2> QED BY <1>4, <1>5, <2>3, <2>4 DEF Leads, Sound
<1> QED BY <1>4, <1>6, <1>7

\* spiffs_gc_quick.
LEMMA LeadsGcQuick ==
    ASSUME NEW f \in State, Typed(f), NEW max \in Nat
    PROVE  Leads(f, GcQuick(f, max), {})
<1> DEFINE cands == QuickCandidates(f, max)
           b == Least(cands)
           h == [f EXCEPT !.stats_p_deleted =
                    f.stats_p_deleted - Cardinality(PagesOf(f, b, IsDeleted))]
<1>1. CASE ~Ok(f)
  BY <1>1 DEF GcQuick, Leads
<1>2. CASE Ok(f) /\ cands = {}
  <2>1. GcQuick(f, max) = [f EXCEPT !.res = "NO_DELETED_BLOCKS"]
    BY <1>2 DEF GcQuick, Fail
  <2> DEFINE g == [f EXCEPT !.res = "NO_DELETED_BLOCKS"]
  <2>2. /\ g \in State /\ g.fault = f.fault /\ Same(f, g) /\ g.res # "OK"
        /\ ~PowerLost(f)
    BY <1>2 DEF State, Same, Ok, PowerLost
  <2> HIDE DEF g
  <2>3. Leads(f, g, {})
    BY <2>2, LeadsNowhere
  <2> QED BY <2>1, <2>3 DEF g
<1>3. CASE Ok(f) /\ cands # {}
  <2>1. cands \in SUBSET Nat
    BY DEF QuickCandidates, Block
  <2>2. b \in cands
    BY <1>3, <2>1, LeastInSet
  <2>3. b \in Block /\ PagesOf(f, b, IsBusy) = {}
    BY <2>2 DEF QuickCandidates
  <2>4. GcQuick(f, max) = EraseBlock(h, b)
    BY <1>3 DEF GcQuick
  <2> HIDE DEF b
  <2>5. Leads(f, EraseBlock(h, b), {})
    BY <1>3, <2>3, LeadsErase
  <2> QED BY <2>4, <2>5
<1> QED BY <1>1, <1>2, <1>3

----------------------------------------------------------------------------
(* Finding a free page, and what is built on it.                           *)

\* The reserve is kept by gc_quick, whose failure to find a block is no error.
LEMMA LeadsReserve ==
    ASSUME NEW f \in State, Typed(f)
    PROVE  Leads(f, Reserve(f), {})
<1> DEFINE g == GcQuick(f, 0)
           h == IF g.res = "NO_DELETED_BLOCKS" THEN [g EXCEPT !.res = "OK"]
                ELSE g
           w == IF h.free_blocks < 2 THEN Fail(h, "FULL") ELSE h
<1>1. Leads(f, g, {})
  BY LeadsGcQuick
<1> HIDE DEF g
<1>2. Leads(g, h, {})
  <2>1. CASE g.res = "NO_DELETED_BLOCKS"
    <3>1. h = [g EXCEPT !.res = "OK"]
      BY <2>1
    <3>2. /\ g \in State /\ h \in State /\ Same(g, h) /\ h.fault = g.fault
          /\ Typed(g) /\ ~PowerLost(g)
      BY <1>1, <2>1, <3>1 DEF State, Same, Leads, Typed, PowerLost
    <3>3. Counts(h) = Counts(g)
      BY <3>2, SameCounts
    <3> QED BY <3>2, <3>3 DEF Leads, Typed, Same, Sound
  <2>2. CASE g.res # "NO_DELETED_BLOCKS"
    BY <1>1, <2>2 DEF Leads
  <2> QED BY <2>1, <2>2
<1> HIDE DEF h
<1>3. Leads(h, w, {})
  <2>1. CASE w = h
    BY <1>2, <2>1 DEF Leads
  <2>2. CASE w # h
    <3>1. w = [h EXCEPT !.res = "FULL"] /\ Ok(h)
      BY <2>2 DEF Fail
    <3>2. /\ h \in State /\ w \in State /\ Same(h, w) /\ w.fault = h.fault
          /\ Typed(h) /\ ~PowerLost(h) /\ w.res # "OK"
      BY <1>2, <3>1 DEF State, Same, Leads, Typed, PowerLost, Ok
    <3> HIDE DEF w
    <3> QED BY <3>2, LeadsNowhere
  <2> QED BY <2>1, <2>2
<1>4. Leads(f, w, {} \cup {} \cup {})
  BY <1>1, <1>2, <1>3, LeadsTwice
<1>5. Reserve(f) \in {f, w}
  BY DEF Reserve, TwoOrFull, Forgiven, w, h, g
<1>6. Leads(f, f, {})
  BY DEF Leads
<1> QED BY <1>4, <1>5, <1>6

\* spiffs_obj_lu_find_free returns a free page.
LEMMA LeadsFindFree ==
    ASSUME NEW f \in State, Typed(f)
    PROVE  LET w == FindFree(f)
           IN  /\ Leads(f, w, {})
               /\ Ok(w) => w.found \in Page /\ w.lu[w.found] = FREE
<1> DEFINE r == Reserve(f)
           p == NextFree(r)
           t == [TakeEntry(r, p) EXCEPT !.found = p]
<1>1. Leads(f, r, {})
  BY LeadsReserve
<1> HIDE DEF r
<1>2. r \in State /\ Typed(r)
  BY <1>1 DEF Leads, Typed
<1>3. CASE ~Ok(r)
  BY <1>1, <1>3 DEF FindFree, FindIn, r
<1>4. CASE Ok(r) /\ FreeEntries(r) = {}
  <2> DEFINE w == [r EXCEPT !.res = "NOT_FOUND"]
  <2>1. FindFree(f) = w
    BY <1>4 DEF FindFree, FindIn, Fail, r
  <2>2. /\ w \in State /\ Same(r, w) /\ w.fault = r.fault
        /\ ~PowerLost(r) /\ w.res # "OK" /\ ~Ok(w)
    BY <1>2, <1>4 DEF State, Same, PowerLost, Ok
  <2> HIDE DEF w
  <2>3. Leads(r, w, {})
    BY <1>2, <2>2, LeadsNowhere
  <2>4. Leads(f, w, {} \cup {})
    BY <1>1, <2>3, LeadsTwice
  <2> QED BY <2>1, <2>2, <2>4
<1>5. CASE Ok(r) /\ FreeEntries(r) # {}
  <2>1. FindFree(f) = t
    BY <1>5 DEF FindFree, FindIn, r
  <2>2. p \in Page /\ r.lu[p] = FREE
    BY <1>5, NextFreeIsFree
  <2> HIDE DEF p
  <2>3. <<p[1], p[2] + 1>> \in Block \X (0 .. NE)
    BY <2>2, GeometryAssumption DEF Page, Block, Entry
  <2>4. /\ t \in State /\ Same(r, t) /\ t.fault = r.fault /\ t.res = r.res
        /\ t.found = p
    <3>1. (IF p[2] = 0 THEN r.free_blocks - 1 ELSE r.free_blocks) \in Int
      BY <1>2 DEF State
    <3>2. t = [r EXCEPT !.free_cursor = <<p[1], p[2] + 1>>,
                        !.free_blocks = IF p[2] = 0 THEN r.free_blocks - 1
                                        ELSE r.free_blocks,
                        !.found = p]
      BY <1>2 DEF TakeEntry, State
    <3> HIDE DEF t
    <3>3. t \in State
      BY <1>2, <2>2, <2>3, <3>1, <3>2 DEF State
    <3>4. /\ t.lu = r.lu /\ t.stats_p_allocated = r.stats_p_allocated
          /\ t.stats_p_deleted = r.stats_p_deleted /\ t.fault = r.fault
          /\ t.res = r.res /\ t.found = p
      BY <1>2, <3>2 DEF State
    <3> QED BY <3>3, <3>4 DEF Same
  <2> HIDE DEF t
  <2>5. Leads(r, t, {})
    BY <1>2, <2>4, LeadsNowhere DEF PowerLost
  <2>6. Leads(f, t, {} \cup {})
    BY <1>1, <2>5, LeadsTwice
  <2> QED BY <2>1, <2>2, <2>4, <2>6 DEF Same
<1> QED BY <1>3, <1>4, <1>5

\* spiffs_page_allocate_data tells where it put a page of object hdr.id.
LEMMA LeadsAllocate ==
    ASSUME NEW f \in State, Typed(f), NEW hdr \in PageSet, hdr.id \in ObjId,
           NEW body \in BodySet, NEW fin \in BOOLEAN
    PROVE  LET w == PageAllocateData(f, hdr, body, fin)
           IN  /\ Leads(f, w, {})
               /\ Ok(w) => w.found \in Page /\ w.lu[w.found] = hdr.id
<1> DEFINE g == FindFree(f)
           p == g.found
           o == CountAllocated(WriteLu(g, p, hdr.id))
           hd == [hdr EXCEPT !.flags = hdr.flags \cup {"USED"}]
           h == WritePage(o, p, hd)
           bd == [Erased EXCEPT !.body = body]
           b == IF body = NoBody THEN h ELSE WritePage(h, p, bd)
           w == IF fin THEN WriteFlags(b, p, {"FINAL"}) ELSE b
<1>1. Leads(f, g, {}) /\ (Ok(g) => p \in Page /\ g.lu[p] = FREE)
  BY LeadsFindFree
<1>2. PageAllocateData(f, hdr, body, fin) = IF ~Ok(g) THEN g ELSE w
  BY DEF PageAllocateData, AllocateAt
<1>3. hd \in PageSet /\ bd \in PageSet
  BY DEF PageSet, Flag, Erased
<1>4. CASE ~Ok(g)
  BY <1>1, <1>2, <1>4
<1>5. CASE Ok(g)
  <2>1. p \in Page /\ g.lu[p] = FREE /\ g \in State /\ Typed(g)
    BY <1>1, <1>5 DEF Leads, Typed
  <2> HIDE DEF g, hd, bd
  <2>2. Leads(g, o, {}) /\ o.found = p /\ (Ok(o) => o.lu[p] = hdr.id)
    BY <2>1, LeadsOccupy
  <2>3. o \in State /\ Typed(o)
    BY <2>2 DEF Leads, Typed
  <2> HIDE DEF o
  <2>4. Leads(o, h, {}) /\ h.found = p /\ Same(o, h) /\ (Ok(h) => Ok(o))
    BY <1>3, <2>1, <2>2, <2>3, LeadsWritePage
  <2>5. h \in State /\ Typed(h)
    BY <2>4 DEF Leads, Typed
  <2> HIDE DEF h
  <2>6. Leads(h, b, {}) /\ b.found = p /\ Same(h, b) /\ (Ok(b) => Ok(h))
    <3>1. CASE body = NoBody
      BY <2>4, <3>1 DEF Leads, Same
    <3>2. CASE body # NoBody
      BY <1>3, <2>1, <2>4, <2>5, <3>2, LeadsWritePage
    <3> QED BY <3>1, <3>2
  <2>7. b \in State /\ Typed(b)
    BY <2>6 DEF Leads, Typed
  <2> HIDE DEF b
  <2>8. Leads(b, w, {}) /\ w.found = p /\ Same(b, w) /\ (Ok(w) => Ok(b))
    <3>1. CASE ~fin
      BY <2>6, <3>1 DEF Leads, Same
    <3>2. CASE fin
      BY <2>1, <2>6, <2>7, <3>2, LeadsWriteFlags DEF Flag
    <3> QED BY <3>1, <3>2
  <2> HIDE DEF w
  <2>9. Leads(f, w, {} \cup {} \cup {} \cup {} \cup {})
    BY <1>1, <2>2, <2>4, <2>6, <2>8, LeadsTwice
  <2>10. Ok(w) => w.found \in Page /\ w.lu[w.found] = hdr.id
    BY <2>1, <2>2, <2>4, <2>6, <2>8 DEF Same
  <2> QED BY <1>2, <1>5, <2>9, <2>10
<1> QED BY <1>4, <1>5

\* spiffs_page_move tells where it moved the page to; only the source loses
\* its entry.
LEMMA LeadsMove ==
    ASSUME NEW f \in State, Typed(f), NEW l \in ObjId, NEW src \in Page,
           IsBusy(f.lu[src]), NEW data \in PageSet
    PROVE  LET w == PageMove(f, l, src, data)
           IN  /\ Leads(f, w, {src})
               /\ Ok(w) => w.found \in Page /\ w.lu[w.found] = l
<1> DEFINE g == FindFree(f)
           p == g.found
           pg == IF data = Erased THEN g.page[src]
                 ELSE [data EXCEPT !.flags = (data.flags \ {"FINAL"}) \cup {"USED"}]
           h == WritePage(g, p, pg)
           m == CountAllocated(WriteLu(h, p, l))
           n == IF data # Erased /\ "FINAL" \in data.flags
                THEN WriteFlags(m, p, data.flags \cup {"USED"}) ELSE m
           w == PageDelete(n, src)
<1>1. Leads(f, g, {}) /\ (Ok(g) => p \in Page /\ g.lu[p] = FREE)
  BY LeadsFindFree
<1>2. PageMove(f, l, src, data) = IF ~Ok(g) THEN g ELSE w
  BY DEF PageMove, MoveTo
<1>3. CASE ~Ok(g)
  BY <1>1, <1>2, <1>3 DEF Leads
<1>4. CASE Ok(g)
  <2>1. p \in Page /\ g.lu[p] = FREE /\ g \in State /\ Typed(g)
    BY <1>1, <1>4 DEF Leads, Typed
  <2>2. pg \in PageSet
    <3>1. g.page[src] \in PageSet
      BY <2>1 DEF State
    <3>2. (data.flags \ {"FINAL"}) \cup {"USED"} \in SUBSET Flag
      BY DEF PageSet, Flag
    <3>3. [data EXCEPT !.flags = (data.flags \ {"FINAL"}) \cup {"USED"}] \in PageSet
      BY <3>2 DEF PageSet
    <3> QED BY <3>1, <3>3
  <2>3. IsBusy(g.lu[src]) /\ src # p
    BY <1>1, <2>1 DEF Leads, IsBusy
  <2> HIDE DEF g, pg
  <2>4. Leads(g, h, {}) /\ h.found = p /\ Same(g, h) /\ (Ok(h) => Ok(g))
    BY <2>1, <2>2, LeadsWritePage
  <2>5. h \in State /\ Typed(h) /\ h.lu[p] = FREE /\ IsBusy(h.lu[src])
    BY <2>1, <2>3, <2>4 DEF Leads, Typed, Same
  <2> HIDE DEF h
  <2>6. Leads(h, m, {}) /\ m.found = p /\ (Ok(m) => m.lu[p] = l)
    BY <2>1, <2>4, <2>5, LeadsOccupy
  <2>7. m \in State /\ Typed(m) /\ IsBusy(m.lu[src])
    BY <2>5, <2>6 DEF Leads, Typed
  <2> HIDE DEF m
  <2>8. Leads(m, n, {}) /\ n.found = p /\ Same(m, n) /\ (Ok(n) => Ok(m))
    <3>1. data.flags \cup {"USED"} \in SUBSET Flag
      BY DEF PageSet, Flag
    <3>2. CASE n = m
      BY <2>6, <2>7, <3>2 DEF Leads, Same
    <3>3. CASE n = WriteFlags(m, p, data.flags \cup {"USED"})
      BY <2>1, <2>6, <2>7, <3>1, <3>3, LeadsWriteFlags
    <3> QED BY <3>2, <3>3
  <2>9. n \in State /\ Typed(n) /\ IsBusy(n.lu[src])
    BY <2>7, <2>8 DEF Leads, Typed, Same
  <2> HIDE DEF n
  <2>10. Leads(n, w, {src}) /\ w.found = n.found /\ (Ok(w) => Ok(n))
    BY <2>9, LeadsPageDelete
  <2> HIDE DEF w
  <2>11. Leads(f, w, {} \cup {} \cup {} \cup {} \cup {src})
    BY <1>1, <2>4, <2>6, <2>8, <2>10, LeadsTwice
  <2>12. ASSUME Ok(w) PROVE w.found \in Page /\ w.lu[w.found] = l
    <3>1. w.found = p /\ n.lu[p] = l
      BY <2>6, <2>8, <2>10, <2>12 DEF Same
    <3>2. IsBusy(n.lu[p])
      BY <3>1, IdAssumption DEF IsBusy
    <3> QED BY <2>1, <2>3, <2>10, <3>1, <3>2 DEF Leads
  <2> QED BY <1>2, <1>4, <2>11, <2>12
<1> QED BY <1>3, <1>4

----------------------------------------------------------------------------
(* Mounting.                                                               *)

\* The erase count read back is a counter value.
LEMMA ScannedEraseCountType ==
    ASSUME NEW f \in State
    PROVE  ScannedEraseCount(f) \in 0 .. EcFree
<1> DEFINE K == KnownCounts(f)
           L == K \cup {EcFree}
           H == {EcFree - x : x \in K \cup {0}}
<1>1. EcFree \in Nat /\ EcFree > 0
  BY GeometryAssumption DEF EcFree
<1>2. \A x \in K : x \in Nat /\ x < EcFree
  <2>1. \A b \in Block : f.ec[b] \in 0 .. EcFree
    BY DEF State
  <2> QED BY <1>1, <2>1 DEF KnownCounts
<1> HIDE DEF K
<1>3. L \in SUBSET Nat /\ L # {}
  BY <1>1, <1>2
<1>4. Least(L) \in L /\ \A x \in L : Least(L) <= x
  BY <1>3, LeastInSet
<1>5. H \in SUBSET Nat /\ H # {}
  BY <1>1, <1>2
<1>6. Least(H) \in H /\ \A x \in H : Least(H) <= x
  BY <1>5, LeastInSet
<1>7. PICK m \in K \cup {0} : Least(H) = EcFree - m
  BY <1>6
<1>8. m \in Nat /\ m < EcFree
  BY <1>1, <1>2
<1>9. \A x \in K \cup {0} : x \in Nat /\ m >= x
  <2>1. \A x \in K \cup {0} : x \in Nat /\ EcFree - m <= EcFree - x
    BY <1>1, <1>2, <1>6, <1>7
  <2> QED BY <1>1, <1>8, <2>1
<1>10. Greatest(K \cup {0}) \in K \cup {0}
  BY <1>9 DEF Greatest
<1> DEFINE lo == Least(L)
           hi == Greatest(K \cup {0})
<1>11. lo \in 0 .. EcFree /\ hi \in Nat /\ hi < EcFree
  BY <1>1, <1>2, <1>4, <1>10
<1> HIDE DEF lo, hi
<1>12. hi - lo > EcFree \div 2 => lo + 1 <= EcFree
  <2>1. EcFree \div 2 \in Nat
    BY <1>1
  <2> QED BY <1>1, <1>11, <2>1
<1>13. (IF lo = 0 /\ hi = EcFree THEN 0
        ELSE IF hi - lo > EcFree \div 2 THEN lo + 1 ELSE hi + 1) \in 0 .. EcFree
  BY <1>1, <1>11, <1>12
<1> QED BY <1>13 DEF ScannedEraseCount, lo, hi, L, K

\* A scan that succeeds counts the pages.
LEMMA ScanCounts ==
    ASSUME NEW f \in State, Typed(f), Ok(f)
    PROVE  LET w == ObjLuScan(f)
           IN  w \in State /\ (Ok(w) => Counts(w))
<1> DEFINE c == [f EXCEPT !.max_erase_count = ScannedEraseCount(f)]
           b == Least(BadMagic(f))
           e == IF BadMagic(f) = {} THEN c ELSE EraseBlock(c, b)
           w == CountPages(e)
<1>1. CASE Cardinality(BadMagic(f)) > 1
  <2>1. ObjLuScan(f) = [f EXCEPT !.res = "NOT_A_FS"]
    BY <1>1 DEF ObjLuScan, Fail
  <2> QED BY <2>1 DEF State, Ok
<1>2. CASE ~(Cardinality(BadMagic(f)) > 1)
  <2>1. ObjLuScan(f) = w
    BY <1>2 DEF ObjLuScan
  <2>2. c \in State /\ Typed(c) /\ Ok(c)
    BY ScannedEraseCountType DEF State, Typed, Ok
  <2>3. e \in State
    <3>1. CASE BadMagic(f) = {}
      BY <2>2, <3>1
    <3>2. CASE BadMagic(f) # {}
      <4>1. BadMagic(f) \in SUBSET Nat
        BY DEF BadMagic, Block
      <4>2. b \in Block
        BY <3>2, <4>1, LeastInSet DEF BadMagic
      <4> HIDE DEF b, c
      <4>3. EraseBlock(c, b) \in State
        BY <2>2, <4>2, EraseBlockCases DEF Typed
      <4> QED BY <3>2, <4>3 DEF b, c
    <3> QED BY <3>1, <3>2
  <2> HIDE DEF e
  <2>4. CASE ~Ok(e)
    BY <2>1, <2>3, <2>4 DEF CountPages, Then
  <2>5. CASE Ok(e)
    <3> DEFINE n == Cardinality(FreeBlocks(e))
    <3>1. w = [e EXCEPT !.free_blocks = n,
                        !.stats_p_allocated = Cardinality(BusyPages(e)),
                        !.stats_p_deleted = Cardinality(DeletedPages(e))]
      BY <2>5 DEF CountPages, Then
    <3>2. n \in Int
      <4>1. FreeBlocks(e) \in SUBSET Block
        BY DEF FreeBlocks
      <4> QED BY <4>1, PageIsFinite, FS_Subset, FS_CardinalityType
    <3>3. Cardinality(BusyPages(e)) \in Int /\ Cardinality(DeletedPages(e)) \in Int
      BY CountedIsFinite
    <3> HIDE DEF n
    <3>4. /\ w \in State /\ w.lu = e.lu
          /\ w.stats_p_allocated = Cardinality(BusyPages(e))
          /\ w.stats_p_deleted = Cardinality(DeletedPages(e))
      <4> DEFINE a == Cardinality(BusyPages(e))
                 d == Cardinality(DeletedPages(e))
      <4> HIDE DEF a, d, w
      <4>1. w = [e EXCEPT !.free_blocks = n, !.stats_p_allocated = a, !.stats_p_deleted = d]
        BY <3>1 DEF a, d
      <4>2. a \in Int /\ d \in Int
        BY <3>3 DEF a, d
      <4>3. w \in State
        BY <2>3, <3>2, <4>1, <4>2 DEF State
      <4>4. w.lu = e.lu /\ w.stats_p_allocated = a /\ w.stats_p_deleted = d
        BY <2>3, <4>1 DEF State
      <4> QED BY <4>3, <4>4 DEF a, d
    <3>5. BusyPages(w) = BusyPages(e) /\ DeletedPages(w) = DeletedPages(e)
      BY <3>4 DEF BusyPages, DeletedPages
    <3> QED BY <2>1, <3>4, <3>5 DEF Counts
  <2> QED BY <2>4, <2>5
<1> QED BY <1>1, <1>2

----------------------------------------------------------------------------
(* The candidate of the garbage collector.                                 *)

\* Scores are integers with a common bound.
LEMMA ScoreType ==
    ASSUME fs \in State, NEW b \in Block, NEW crammed \in BOOLEAN
    PROVE  /\ Score(fs, b, crammed) \in Int
           /\ Cardinality(Page) \in Nat
           /\ Score(fs, b, crammed) <= 5 * Cardinality(Page) + 50 * EcFree
<1> DEFINE D == {p \in Scanned(fs, b) : IsDeleted(fs.lu[p])}
           U == {p \in Scanned(fs, b) : IsBusy(fs.lu[p])}
<1>1. Scanned(fs, b) \subseteq Page
  BY DEF Scanned, InBlock, Page
<1>2. D \in SUBSET Page /\ U \in SUBSET Page
  BY <1>1
<1> HIDE DEF D, U
<1>3. /\ Cardinality(D) \in Nat /\ Cardinality(U) \in Nat
      /\ Cardinality(Page) \in Nat /\ Cardinality(D) <= Cardinality(Page)
  BY <1>2, PageIsFinite, FS_Subset, FS_CardinalityType
<1>4. fs.max_erase_count \in 0 .. EcFree /\ fs.ec[b] \in 0 .. EcFree
  BY DEF State
<1>5. EcFree \in Nat
  BY GeometryAssumption DEF EcFree
<1>6. EraseAge(fs, b) \in Int /\ EraseAge(fs, b) <= EcFree
  BY <1>4, <1>5 DEF EraseAge
<1>7. (IF crammed THEN 0 ELSE 50 * EraseAge(fs, b)) \in Int
  BY <1>6
<1>8. (IF crammed THEN 0 ELSE 50 * EraseAge(fs, b)) <= 50 * EcFree
  BY <1>5, <1>6
<1>9. Score(fs, b, crammed) = 5 * Cardinality(D) - Cardinality(U)
                            + (IF crammed THEN 0 ELSE 50 * EraseAge(fs, b))
  BY DEF Score, D, U
<1> QED BY <1>3, <1>5, <1>7, <1>8, <1>9

\* gc_find_candidate finds a block.
LEMMA CandidateIsBlock ==
    ASSUME fs \in State, NEW crammed \in BOOLEAN
    PROVE  GcFindCandidate(fs, crammed) \in Block
<1> DEFINE M == 5 * Cardinality(Page) + 50 * EcFree
           rank(b) == M - Score(fs, b, crammed)
           R == {rank(b) : b \in Block}
           S == {b \in Block : rank(b) = Least(R)}
<1>1. Block # {} /\ Block \subseteq Nat
  BY GeometryAssumption DEF Block
<1>2. M \in Int
  <2>1. Cardinality(Page) \in Nat
    BY PageIsFinite, FS_CardinalityType
  <2>2. EcFree \in Nat
    BY GeometryAssumption DEF EcFree
  <2> QED BY <2>1, <2>2
<1> HIDE DEF M
<1>3. \A b \in Block : Score(fs, b, crammed) \in Int /\ Score(fs, b, crammed) <= M
  BY ScoreType DEF M
<1>4. \A b \in Block : rank(b) \in Nat
  BY <1>2, <1>3
<1>5. R \in SUBSET Nat /\ R # {}
  BY <1>1, <1>4
<1>6. Least(R) \in R /\ \A x \in R : Least(R) <= x
  BY <1>5, LeastInSet
<1>7. S \in SUBSET Nat /\ S # {}
  BY <1>1, <1>6
<1>8. Least(S) \in S /\ \A x \in S : Least(S) <= x
  BY <1>7, LeastInSet
<1> DEFINE c == Least(S)
<1>9. c \in Block /\ rank(c) = Least(R)
  BY <1>8
<1> HIDE DEF c
<1>10. ASSUME NEW d \in Block
       PROVE  \/ Score(fs, c, crammed) > Score(fs, d, crammed)
              \/ Score(fs, c, crammed) = Score(fs, d, crammed) /\ c <= d
  <2>1. rank(c) <= rank(d)
    BY <1>6, <1>9
  <2>2. CASE rank(c) = rank(d)
    <3>1. d \in S
      BY <1>9, <2>2
    <3>2. c <= d
      BY <1>8, <3>1 DEF c
    <3>3. Score(fs, c, crammed) = Score(fs, d, crammed)
      BY <1>2, <1>3, <1>9, <2>2
    <3> QED BY <3>2, <3>3
  <2>3. CASE rank(c) # rank(d)
    BY <1>2, <1>3, <1>9, <2>1, <2>3
  <2> QED BY <2>2, <2>3
<1> QED BY <1>9, <1>10 DEF GcFindCandidate

----------------------------------------------------------------------------
(* The inductive invariant.                                                *)

\* An index entry refers to a page that the lookup gives to its object: this
\* is what makes deleting and moving a page count exactly.
RefsFound == \A l \in ObjId : ref[l] # NoPage => fs.lu[ref[l]] = l

IInv ==
    /\ TypeOK
    /\ fs.res = "OK"
    /\ RefsFound
    /\ mounted = "yes" => Counts(fs)

\* Between operations the lookup and the counters are those of the last one.
LEMMA AtRestType ==
    ASSUME NEW f \in State
    PROVE  /\ AtRest(f) \in State /\ AtRest(f).res = "OK" /\ Same(f, AtRest(f))
           /\ NoRam(AtRest(f)) \in State /\ NoRam(AtRest(f)).res = "OK"
           /\ NoRam(AtRest(f)).lu = f.lu
           /\ NoRam(f) \in State /\ NoRam(f).res = f.res /\ NoRam(f).lu = f.lu
<1>1. /\ <<0, 0>> \in Page /\ <<0, 0>> \in Block \X (0 .. NE)
      /\ 0 \in 0 .. EcFree
  BY GeometryAssumption DEF Page, Block, Entry, EcFree
<1>2. AtRest(f) \in State /\ AtRest(f).res = "OK" /\ Same(f, AtRest(f))
  BY <1>1 DEF AtRest, State, Same
<1>3. ASSUME NEW g \in State
      PROVE  NoRam(g) \in State /\ NoRam(g).res = g.res /\ NoRam(g).lu = g.lu
  <2>1. 0 \in Int
    OBVIOUS
  <2> QED BY <1>1, <2>1 DEF NoRam, State
<1> QED BY <1>2, <1>3 DEF Same

\* The initial state.
LEMMA InitIInv == Init => IInv
<1> SUFFICES ASSUME Init PROVE IInv
  OBVIOUS
<1>1. /\ <<0, 0>> \in Page /\ <<0, 0>> \in Block \X (0 .. NE)
      /\ 0 \in 0 .. EcFree /\ 1 \in 0 .. EcFree /\ NB \in Int
  BY GeometryAssumption DEF Page, Block, Entry, EcFree
<1>2. Erased \in PageSet
  BY DEF Erased, PageSet, BodySet
<1>3. fs \in State
  BY <1>1, <1>2 DEF Init, State, Mark
<1>4. gc \in [blk : Block \cup {-1}, tries : Nat, prev : Int, need : Nat,
              owed : BOOLEAN]
  BY DEF Init, Idle
<1>5. TypeOK
  BY <1>3, <1>4 DEF TypeOK, Init
<1>6. BusyPages(fs) = {} /\ DeletedPages(fs) = {}
  BY MarkAssumption DEF Init, BusyPages, DeletedPages, IsBusy, IsDeleted
<1>7. Counts(fs)
  BY <1>6, FS_EmptySet DEF Counts, Init
<1> QED BY <1>5, <1>7 DEF IInv, RefsFound, Init

----------------------------------------------------------------------------
(* Every step keeps the invariant.                                         *)

\* An operation starts in a typed state with the chip and RAM of fs.
LEMMA ArmedType ==
    ASSUME "erase" \notin Faults, IInv, NEW k \in Faults \cup {"none"},
           NEW n \in 0 .. MaxWrites
    PROVE  /\ Armed(k, n) \in State /\ Typed(Armed(k, n)) /\ Ok(Armed(k, n))
           /\ Same(fs, Armed(k, n))
<1>1. k \in {"none", "power", "write"} /\ n \in Nat
  BY BoundAssumption
<1> QED BY <1>1 DEF Armed, IInv, TypeOK, State, Typed, Ok, Same

\* What an operation that has run to f leaves behind.
Left(f, D) ==
    /\ fs' \in State /\ fs'.res = "OK" /\ fs'.lu = f.lu
    /\ mounted' \in {"no", mounted}
    /\ mounted' = "yes" => Counts(fs')
    /\ \A p \in Page \ D : IsBusy(fs.lu[p]) => fs'.lu[p] = fs.lu[p]

\* Operations of the layers above and of SPIFFS_check end well.
LEMMA FinishLeaves ==
    ASSUME "erase" \notin Faults, IInv, NEW k \in Faults \cup {"none"},
           NEW n \in 0 .. MaxWrites, NEW f, NEW D, Leads(Armed(k, n), f, D),
           Finish(f)
    PROVE  Left(f, D) /\ gc' \in {Idle, gc}
<1>1. /\ Armed(k, n) \in State /\ Same(fs, Armed(k, n)) /\ Ok(Armed(k, n))
      /\ f \in State
  BY ArmedType DEF Leads, Typed
<1>2. fs' \in State /\ fs'.res = "OK" /\ fs'.lu = f.lu
  BY <1>1, AtRestType DEF Finish, Same
<1>3. \A p \in Page \ D : IsBusy(fs.lu[p]) => fs'.lu[p] = fs.lu[p]
  BY <1>1, <1>2 DEF Leads, Same
<1>4. mounted' = "yes" => Counts(fs')
  <2>1. SUFFICES ASSUME mounted' = "yes" PROVE Counts(fs')
    OBVIOUS
  <2>2. mounted = "yes" /\ ~PowerLost(f) /\ fs' = AtRest(f)
    BY <2>1 DEF Finish
  <2>3. Counts(Armed(k, n))
    BY <1>1, <2>2, SameCounts DEF IInv
  <2>4. Counts(f)
    BY <2>2, <2>3 DEF Leads, Sound
  <2> QED BY <1>1, <2>2, <2>4, AtRestType, SameCounts
<1> QED BY <1>2, <1>3, <1>4 DEF Finish, Left

\* So do the operations of the garbage collector.
LEMMA FinishCleanLeaves ==
    ASSUME "erase" \notin Faults, IInv, NEW k \in Faults \cup {"none"},
           NEW n \in 0 .. MaxWrites, NEW f, NEW D, Leads(Armed(k, n), f, D),
           NEW o \in BOOLEAN, FinishClean(f, o)
    PROVE  Left(f, D) /\ gc' \in {Idle, [gc EXCEPT !.owed = o]}
<1> DEFINE r == AtRest(f)
           c == [r EXCEPT !.cleaning = FALSE]
<1>1. /\ Armed(k, n) \in State /\ Same(fs, Armed(k, n)) /\ Ok(Armed(k, n))
      /\ f \in State
  BY ArmedType DEF Leads, Typed
<1>2. r \in State /\ r.res = "OK" /\ Same(f, r)
  BY <1>1, AtRestType
<1> HIDE DEF r
<1>3. c \in State /\ c.res = "OK" /\ Same(f, c)
  BY <1>2 DEF State, Same
<1> HIDE DEF c
<1>4. fs' \in {NoRam(r), c, r} /\ (fs' # NoRam(r) \/ mounted' = "no" \/ Same(f, fs'))
  BY <1>2, <1>3 DEF FinishClean, r, c
<1>5. fs' \in State /\ fs'.res = "OK" /\ fs'.lu = f.lu
  BY <1>1, <1>2, <1>3, <1>4, AtRestType DEF Same, r
<1>6. \A p \in Page \ D : IsBusy(fs.lu[p]) => fs'.lu[p] = fs.lu[p]
  BY <1>1, <1>5 DEF Leads, Same
<1>7. mounted' = "yes" => Counts(fs')
  <2>1. SUFFICES ASSUME mounted' = "yes" PROVE Counts(fs')
    OBVIOUS
  <2>2. mounted = "yes" /\ ~PowerLost(f) /\ fs' \in {r, c}
    BY <2>1 DEF FinishClean, r, c
  <2>3. Counts(Armed(k, n))
    BY <1>1, <2>2, SameCounts DEF IInv
  <2>4. Counts(f)
    BY <2>2, <2>3 DEF Leads, Sound
  <2> QED BY <1>2, <1>3, <2>2, <2>4, SameCounts
<1> QED BY <1>5, <1>6, <1>7 DEF FinishClean, Left

\* Wherever the object index is found bound after a fault, it is bound to a
\* page of its object.
LEMMA RebindFound ==
    ASSUME IInv, NEW f, NEW l \in ObjId, NEW old \in Contents \cup {NoContent},
           NEW c \in Contents \cup {NoContent}, Rebind(f, l, old, c)
    PROVE  /\ ref' \in [ObjId -> Page \cup {NoPage}]
           /\ want' \in [ObjId -> Contents \cup {NoContent}]
           /\ \A m \in ObjId \ {l} : ref'[m] = ref[m]
           /\ ref'[l] # NoPage => ref'[l] \in Page /\ f.lu[ref'[l]] = l
<1>1. /\ ref \in [ObjId -> Page \cup {NoPage}]
      /\ want \in [ObjId -> Contents \cup {NoContent}]
  BY DEF IInv, TypeOK
<1>2. CASE ref' = [ref EXCEPT ![l] = NoPage] /\ UNCHANGED want
  BY <1>1, <1>2
<1>3. CASE \E p \in Page, d \in {old, c} :
              /\ Holds(f, p, l, d)
              /\ ref' = [ref EXCEPT ![l] = p] /\ want' = [want EXCEPT ![l] = d]
  BY <1>1, <1>3 DEF Holds
<1> QED BY <1>2, <1>3 DEF Rebind

\* Moving page src of object l, and the references with it.
LEMMA MoveKeepsRefs ==
    ASSUME IInv, NEW l \in ObjId, NEW src \in Page, fs.lu[src] = l, NEW f,
           Left(f, {src}),
           \A m \in ObjId \ {l} : ref'[m] = ref[m],
           \/ ref'[l] = NoPage
           \/ ref'[l] \in Page /\ f.lu[ref'[l]] = l
    PROVE  RefsFound'
<1> SUFFICES ASSUME NEW m \in ObjId, ref'[m] # NoPage
             PROVE  fs'.lu[ref'[m]] = m
  BY DEF RefsFound
<1>1. fs'.lu = f.lu
  BY DEF Left
<1>2. CASE m = l
  BY <1>1, <1>2
<1>3. CASE m # l
  <2>1. ref[m] \in Page /\ fs.lu[ref[m]] = m /\ ref'[m] = ref[m]
    BY <1>3 DEF IInv, TypeOK, RefsFound
  <2>2. ref[m] # src /\ IsBusy(fs.lu[ref[m]])
    BY <1>3, <2>1, IdAssumption DEF IsBusy
  <2> QED BY <2>1, <2>2 DEF Left
<1> QED BY <1>2, <1>3

\* Pages that references do not need may go.
LEMMA KeepsRefs ==
    ASSUME IInv, NEW f, NEW D \in SUBSET Page, Left(f, D), UNCHANGED ref,
           \A l \in ObjId : ref[l] \notin D
    PROVE  RefsFound'
<1> SUFFICES ASSUME NEW m \in ObjId, ref'[m] # NoPage
             PROVE  fs'.lu[ref'[m]] = m
  BY DEF RefsFound
<1>1. ref[m] \in Page /\ fs.lu[ref[m]] = m /\ ref'[m] = ref[m]
  BY DEF IInv, TypeOK, RefsFound
<1>2. IsBusy(fs.lu[ref[m]])
  BY <1>1, IdAssumption DEF IsBusy
<1> QED BY <1>1, <1>2 DEF Left

\* The type of gc.
GcSet == [blk : Block \cup {-1}, tries : Nat, prev : Int, need : Nat,
          owed : BOOLEAN]

\* Picking a block to clean keeps the types.
LEMMA GcTyped ==
    ASSUME IInv, NEW o \in BOOLEAN
    PROVE  Idle \in GcSet /\ gc \in GcSet /\ [gc EXCEPT !.owed = o] \in GcSet
<1>1. gc \in GcSet
  BY DEF IInv, TypeOK, GcSet
<1>2. [gc EXCEPT !.owed = o] \in GcSet
  BY <1>1 DEF GcSet
<1>3. Idle \in GcSet
  BY DEF Idle, GcSet
<1> QED BY <1>1, <1>2, <1>3

\* The pages the operations write.
LEMMA PagesTyped ==
    ASSUME NEW l \in ObjId, NEW c \in Contents
    PROVE  /\ Header(l) \in PageSet /\ Header(l).id = l
           /\ [Header(l) EXCEPT !.flags = {"INDEX", "USED", "FINAL"},
                                !.body = Body(c)] \in PageSet
           /\ Body(c) \in BodySet /\ Erased \in PageSet
<1>1. Body(c) \in BodySet /\ NoBody \in BodySet
  BY DEF Body, BodySet
<1>2. {"INDEX", "USED", "FINAL"} \in SUBSET Flag /\ {"INDEX"} \in SUBSET Flag
  BY DEF Flag
<1> QED BY <1>1, <1>2 DEF Header, PageSet, Erased

\* Allocating a page preserves the invariant.
LEMMA StepAllocate ==
    ASSUME "erase" \notin Faults, IInv, NEW k \in Faults \cup {"none"},
           NEW n \in 0 .. MaxWrites, NEW l \in ObjId, NEW c \in Contents,
           Allocate(l, c, k, n)
    PROVE  IInv'
<1> DEFINE a == Armed(k, n)
           f == PageAllocateData(a, Header(l), Body(c), TRUE)
<1>1. a \in State /\ Typed(a) /\ Same(fs, a)
  BY ArmedType
<1>2. Header(l) \in PageSet /\ Header(l).id = l /\ Body(c) \in BodySet
  BY PagesTyped
<1> HIDE DEF a
<1>3. Leads(a, f, {}) /\ (Ok(f) => f.found \in Page /\ f.lu[f.found] = l)
  BY <1>1, <1>2, LeadsAllocate
<1>4. /\ Finish(f)
      /\ IF f.res = "OK"
         THEN ref' = [ref EXCEPT ![l] = f.found] /\ want' = [want EXCEPT ![l] = c]
         ELSE UNCHANGED <<want, ref>>
  BY DEF Allocate, a
<1> HIDE DEF f
<1>5. Left(f, {}) /\ gc' \in {Idle, gc}
  BY <1>3, <1>4, FinishLeaves DEF a
<1>6. TypeOK'
  <2>1. /\ ref' \in [ObjId -> Page \cup {NoPage}]
        /\ want' \in [ObjId -> Contents \cup {NoContent}]
    BY <1>3, <1>4 DEF IInv, TypeOK, Ok
  <2>2. Idle \in GcSet /\ gc \in GcSet
    BY GcTyped
  <2> QED BY <1>5, <2>1, <2>2 DEF TypeOK, Left, GcSet, IInv
<1>7. RefsFound'
  <2>1. CASE f.res # "OK"
    BY <1>4, <1>5, <2>1, KeepsRefs
  <2>2. CASE f.res = "OK"
    <3> SUFFICES ASSUME NEW m \in ObjId, ref'[m] # NoPage
                 PROVE  fs'.lu[ref'[m]] = m
      BY DEF RefsFound
    <3>1. CASE m = l
      BY <1>3, <1>4, <1>5, <2>2, <3>1 DEF Left, Ok, IInv, TypeOK
    <3>2. CASE m # l
      <4>1. ref'[m] = ref[m] /\ ref[m] \in Page /\ fs.lu[ref[m]] = m
        BY <1>4, <2>2, <3>2 DEF IInv, TypeOK, RefsFound
      <4> QED BY <1>5, <4>1, IdAssumption DEF Left, IsBusy
    <3> QED BY <3>1, <3>2
  <2> QED BY <2>1, <2>2
<1> QED BY <1>5, <1>6, <1>7 DEF IInv, Left

\* A move of the page ref[l], by Rewrite or by GcStoreIndex.
LEMMA StepMove ==
    ASSUME "erase" \notin Faults, IInv, NEW k \in Faults \cup {"none"},
           NEW n \in 0 .. MaxWrites, NEW l \in ObjId, NEW src \in Page,
           fs.lu[src] = l, NEW data \in PageSet, NEW f, 
           f = PageMove(Armed(k, n), l, src, data),
           Left(f, {src}), gc' \in GcSet,
           NEW c \in Contents \cup {NoContent},
           IF f.res = "OK"
           THEN ref' = [ref EXCEPT ![l] = f.found] /\ want' = [want EXCEPT ![l] = c]
           ELSE Rebind(f, l, want[l], c)
    PROVE  IInv'
<1>1. Armed(k, n) \in State /\ Typed(Armed(k, n)) /\ Same(fs, Armed(k, n))
  BY ArmedType
<1>2. IsBusy(Armed(k, n).lu[src])
  BY <1>1, IdAssumption DEF Same, IsBusy
<1>3. Ok(f) => f.found \in Page /\ f.lu[f.found] = l
  <2> DEFINE s == Armed(k, n)
  <2>1. /\ s \in State /\ Typed(s) /\ IsBusy(s.lu[src])
        /\ f = PageMove(s, l, src, data)
    BY <1>1, <1>2
  <2> HIDE DEF s
  <2>2. LET w == PageMove(s, l, src, data)
        IN  Ok(w) => w.found \in Page /\ w.lu[w.found] = l
    BY <2>1, LeadsMove
  <2> QED BY <2>1, <2>2
<1>4. /\ ref \in [ObjId -> Page \cup {NoPage}]
      /\ want \in [ObjId -> Contents \cup {NoContent}]
  BY DEF IInv, TypeOK
<1>5. /\ ref' \in [ObjId -> Page \cup {NoPage}]
      /\ want' \in [ObjId -> Contents \cup {NoContent}]
      /\ \A m \in ObjId \ {l} : ref'[m] = ref[m]
      /\ \/ ref'[l] = NoPage
         \/ ref'[l] \in Page /\ f.lu[ref'[l]] = l
  <2>1. CASE f.res = "OK"
    BY <1>3, <1>4, <2>1 DEF Ok
  <2>2. CASE f.res # "OK"
    <3>1. want[l] \in Contents \cup {NoContent}
      BY <1>4
    <3>2. Rebind(f, l, want[l], c)
      BY <2>2
    <3>3. /\ ref' \in [ObjId -> Page \cup {NoPage}]
          /\ want' \in [ObjId -> Contents \cup {NoContent}]
          /\ \A m \in ObjId \ {l} : ref'[m] = ref[m]
          /\ ref'[l] # NoPage => ref'[l] \in Page /\ f.lu[ref'[l]] = l
      BY <3>1, <3>2, RebindFound
    <3> QED BY <3>3
  <2> QED BY <2>1, <2>2
<1>6. RefsFound'
  BY <1>5, MoveKeepsRefs
<1>7. TypeOK'
  BY <1>5 DEF TypeOK, Left, GcSet, IInv
<1> QED BY <1>6, <1>7 DEF IInv, Left

\* Rewriting a page preserves the invariant.
LEMMA StepRewrite ==
    ASSUME "erase" \notin Faults, IInv, NEW k \in Faults \cup {"none"},
           NEW n \in 0 .. MaxWrites, NEW l \in ObjId, NEW c \in Contents,
           Rewrite(l, c, k, n)
    PROVE  IInv'
<1> DEFINE data == [Header(l) EXCEPT !.flags = {"INDEX", "USED", "FINAL"},
                                     !.body = Body(c)]
           f == PageMove(Armed(k, n), l, ref[l], data)
<1>1. data \in PageSet
  BY PagesTyped
<1> HIDE DEF data
<1>2. ref[l] \in Page /\ fs.lu[ref[l]] = l
  BY DEF Rewrite, Live, IInv, TypeOK, RefsFound
<1>3. /\ Finish(f)
      /\ IF f.res = "OK"
         THEN ref' = [ref EXCEPT ![l] = f.found] /\ want' = [want EXCEPT ![l] = c]
         ELSE Rebind(f, l, want[l], c)
  BY DEF Rewrite, data
<1>4. Armed(k, n) \in State /\ Typed(Armed(k, n)) /\ IsBusy(Armed(k, n).lu[ref[l]])
  BY <1>2, ArmedType, IdAssumption DEF Same, IsBusy
<1>5. Leads(Armed(k, n), f, {ref[l]})
  BY <1>1, <1>2, <1>4, LeadsMove
<1>6. Left(f, {ref[l]}) /\ gc' \in {Idle, gc}
  BY <1>3, <1>5, FinishLeaves
<1>7. gc' \in GcSet
  BY <1>6, GcTyped
<1> HIDE DEF f
<1> QED BY <1>1, <1>2, <1>3, <1>6, <1>7, StepMove DEF f

\* Storing the index anew preserves the invariant.
LEMMA StepGcStoreIndex ==
    ASSUME "erase" \notin Faults, IInv, NEW k \in Faults \cup {"none"},
           NEW n \in 0 .. MaxWrites, NEW l \in ObjId, NEW c \in Contents,
           GcStoreIndex(l, c, k, n)
    PROVE  IInv'
<1> DEFINE data == [Header(l) EXCEPT !.flags = {"INDEX", "USED", "FINAL"},
                                     !.body = Body(c)]
           f == PageMove(Armed(k, n), l, ref[l], data)
<1>1. data \in PageSet
  BY PagesTyped
<1> HIDE DEF data
<1>2. ref[l] \in Page /\ fs.lu[ref[l]] = l
  BY DEF GcStoreIndex, Live, IInv, TypeOK, RefsFound
<1>3. /\ FinishClean(f, FALSE)
      /\ IF f.res = "OK"
         THEN ref' = [ref EXCEPT ![l] = f.found] /\ want' = [want EXCEPT ![l] = c]
         ELSE Rebind(f, l, want[l], c)
  BY DEF GcStoreIndex, data
<1>4. Armed(k, n) \in State /\ Typed(Armed(k, n)) /\ IsBusy(Armed(k, n).lu[ref[l]])
  BY <1>2, ArmedType, IdAssumption DEF Same, IsBusy
<1>5. Leads(Armed(k, n), f, {ref[l]})
  BY <1>1, <1>2, <1>4, LeadsMove
<1>6. Left(f, {ref[l]}) /\ gc' \in {Idle, [gc EXCEPT !.owed = FALSE]}
  BY <1>3, <1>5, FinishCleanLeaves
<1>7. gc' \in GcSet
  BY <1>6, GcTyped
<1> HIDE DEF f
<1> QED BY <1>1, <1>2, <1>3, <1>6, <1>7, StepMove DEF f

\* Evacuating a page preserves the invariant.
LEMMA StepGcEvacuate ==
    ASSUME "erase" \notin Faults, IInv, NEW k \in Faults \cup {"none"},
           NEW n \in 0 .. MaxWrites, NEW p \in Page, GcEvacuate(p, k, n)
    PROVE  IInv'
<1> DEFINE l == fs.lu[p]
           f == PageMove(Armed(k, n), l, p, Erased)
<1>1. l \in ObjId
  BY DEF GcEvacuate, Live
<1>2. Erased \in PageSet
  BY DEF Erased, PageSet, BodySet
<1>3. /\ FinishClean(f, TRUE)
      /\ IF ref[l] = p
         THEN IF f.res = "OK"
              THEN ref' = [ref EXCEPT ![l] = f.found] /\ UNCHANGED want
              ELSE Rebind(f, l, want[l], want[l])
         ELSE UNCHANGED <<want, ref>>
  BY <1>1 DEF GcEvacuate
<1>4. Armed(k, n) \in State /\ Typed(Armed(k, n)) /\ IsBusy(Armed(k, n).lu[p])
  BY <1>1, ArmedType, IdAssumption DEF Same, IsBusy
<1>5. Leads(Armed(k, n), f, {p})
  BY <1>1, <1>2, <1>4, LeadsMove
<1>6. Left(f, {p}) /\ gc' \in {Idle, [gc EXCEPT !.owed = TRUE]}
  BY <1>3, <1>5, FinishCleanLeaves
<1>7. gc' \in GcSet
  BY <1>6, GcTyped
<1>8. want \in [ObjId -> Contents \cup {NoContent}]
  BY DEF IInv, TypeOK
<1>9. CASE ref[l] = p
  <2> DEFINE c == want[l]
  <2>1. c \in Contents \cup {NoContent} /\ want = [want EXCEPT ![l] = c]
    BY <1>1, <1>8
  <2>2. IF f.res = "OK"
        THEN ref' = [ref EXCEPT ![l] = f.found] /\ want' = [want EXCEPT ![l] = c]
        ELSE Rebind(f, l, want[l], c)
    BY <1>3, <1>9, <2>1
  <2>3. fs.lu[p] = l
    OBVIOUS
  <2> HIDE DEF f, l
  <2> QED BY <1>1, <1>2, <1>6, <1>7, <2>1, <2>2, <2>3, StepMove DEF f
<1>10. CASE ref[l] # p
  <2>1. UNCHANGED <<want, ref>>
    BY <1>3, <1>10
  <2>2. \A m \in ObjId : ref[m] \notin {p}
    BY <1>10, IdAssumption DEF IInv, RefsFound
  <2> HIDE DEF f, l
  <2>3. RefsFound'
    BY <1>6, <2>1, <2>2, KeepsRefs
  <2>4. TypeOK'
    BY <1>6, <1>7, <2>1 DEF TypeOK, Left, GcSet, IInv
  <2> QED BY <1>6, <2>3, <2>4 DEF IInv, Left
<1> QED BY <1>9, <1>10

\* What a step that leaves the references alone must show.
LEMMA StepKeeps ==
    ASSUME IInv, NEW f, NEW D \in SUBSET Page, Left(f, D), gc' \in GcSet,
           UNCHANGED <<want, ref>>, \A l \in ObjId : ref[l] \notin D
    PROVE  IInv'
<1>1. RefsFound'
  BY KeepsRefs
<1>2. TypeOK'
  BY DEF TypeOK, Left, GcSet, IInv
<1> QED BY <1>1, <1>2 DEF IInv, Left

\* Removing a page preserves the invariant.
LEMMA StepRemove ==
    ASSUME "erase" \notin Faults, IInv, NEW k \in Faults \cup {"none"},
           NEW n \in 0 .. MaxWrites, NEW l \in ObjId, Remove(l, k, n)
    PROVE  IInv'
<1> DEFINE f == PageDelete(Armed(k, n), ref[l])
<1>1. ref[l] \in Page /\ fs.lu[ref[l]] = l
  BY DEF Remove, Live, IInv, TypeOK, RefsFound
<1>2. Armed(k, n) \in State /\ Typed(Armed(k, n)) /\ IsBusy(Armed(k, n).lu[ref[l]])
  BY <1>1, ArmedType, IdAssumption DEF Same, IsBusy
<1>3. Leads(Armed(k, n), f, {ref[l]})
  BY <1>1, <1>2, LeadsPageDelete
<1>4. Left(f, {ref[l]}) /\ gc' \in {Idle, gc}
  BY <1>3, FinishLeaves DEF Remove
<1>5. /\ ref' = [ref EXCEPT ![l] = NoPage]
      /\ want' = [want EXCEPT ![l] = NoContent]
      /\ ref \in [ObjId -> Page \cup {NoPage}]
      /\ want \in [ObjId -> Contents \cup {NoContent}]
  BY DEF Remove, IInv, TypeOK
<1> HIDE DEF f
<1>6. RefsFound'
  BY <1>1, <1>4, <1>5, MoveKeepsRefs
<1>7. gc' \in GcSet
  BY <1>4, GcTyped
<1>8. TypeOK'
  BY <1>4, <1>5, <1>7 DEF TypeOK, Left, GcSet, IInv
<1> QED BY <1>4, <1>6, <1>8 DEF IInv, Left

\* spiffs_gc_quick preserves the invariant.
LEMMA StepQuickGc ==
    ASSUME "erase" \notin Faults, IInv, NEW k \in Faults \cup {"none"},
           NEW n \in 0 .. MaxWrites, NEW max \in 0 .. MaxFree,
           QuickGc(max, k, n)
    PROVE  IInv'
<1> DEFINE f == GcQuick(Armed(k, n), max)
<1>1. Leads(Armed(k, n), f, {})
  BY ArmedType, LeadsGcQuick, BoundAssumption
<1>2. Left(f, {}) /\ gc' \in {Idle, gc} /\ UNCHANGED <<want, ref>>
  BY <1>1, FinishLeaves DEF QuickGc
<1> HIDE DEF f
<1>3. gc' \in GcSet
  BY <1>2, GcTyped
<1>4. {} \in SUBSET Page /\ \A l \in ObjId : ref[l] \notin {}
  OBVIOUS
<1> QED BY <1>2, <1>3, <1>4, StepKeeps

\* Wiping a page preserves the invariant.
LEMMA StepGcWipe ==
    ASSUME "erase" \notin Faults, IInv, NEW k \in Faults \cup {"none"},
           NEW n \in 0 .. MaxWrites, NEW p \in Page, GcWipe(p, k, n)
    PROVE  IInv'
<1> DEFINE f == PageDelete(Armed(k, n), p)
<1>1. Leads(Armed(k, n), f, {p})
  BY ArmedType, LeadsPageDelete DEF GcWipe, Same
<1>2. gc.owed \in BOOLEAN
  BY DEF IInv, TypeOK
<1>3. FinishClean(f, gc.owed)
  BY DEF GcWipe
<1>4. Left(f, {p}) /\ gc' \in {Idle, [gc EXCEPT !.owed = gc.owed]}
  BY <1>1, <1>2, <1>3, FinishCleanLeaves
<1>5. gc' \in GcSet /\ UNCHANGED <<want, ref>>
  BY <1>2, <1>4, GcTyped DEF GcWipe
<1>6. \A l \in ObjId : ref[l] \notin {p}
  BY IdAssumption DEF GcWipe, Live, IInv, RefsFound
<1> HIDE DEF f
<1> QED BY <1>4, <1>5, <1>6, StepKeeps

\* Erasing the cleaned block preserves the invariant.
LEMMA StepGcErase ==
    ASSUME "erase" \notin Faults, IInv, NEW k \in Faults \cup {"none"},
           NEW n \in 0 .. MaxWrites, GcErase(k, n)
    PROVE  IInv'
<1> DEFINE r == Armed(k, n)
           a == [r EXCEPT !.cleaning = FALSE]
           b == gc.blk
           h == [a EXCEPT !.stats_p_deleted =
                    a.stats_p_deleted - Cardinality(PagesOf(a, b, IsDeleted))]
           f == EraseBlock(GcErasePageStats(a, b), b)
<1>1. r \in State /\ Typed(r) /\ Ok(r) /\ Same(fs, r)
  BY ArmedType
<1> HIDE DEF r
<1>2. a \in State /\ Typed(a) /\ Ok(a) /\ Same(r, a) /\ a.fault = r.fault
  BY <1>1 DEF State, Typed, Ok, Same
<1> HIDE DEF a
<1>3. b \in Block /\ PagesOf(a, b, IsBusy) = {}
  BY <1>1, <1>2 DEF GcErase, Cleaning, PagesOf, Same
<1>4. GcErasePageStats(a, b) = h
  <2>1. a.stats_p_allocated - Cardinality(PagesOf(a, b, IsBusy)) = a.stats_p_allocated
    BY <1>2, <1>3, FS_EmptySet DEF State
  <2> QED BY <1>2, <2>1 DEF GcErasePageStats, Then, State
<1>5. Leads(a, f, {})
  <2> HIDE DEF b
  <2>1. Leads(a, EraseBlock(h, b), {})
    BY <1>2, <1>3, LeadsErase
  <2> QED BY <1>4, <2>1
<1>6. Leads(r, a, {})
  BY <1>1, <1>2, LeadsNowhere DEF PowerLost, Ok
<1>7. Leads(r, f, {} \cup {})
  BY <1>5, <1>6, LeadsTwice
<1>8. FinishClean(f, FALSE) /\ UNCHANGED <<want, ref>>
  BY DEF GcErase, a, r
<1> HIDE DEF f
<1>9. Leads(Armed(k, n), f, {})
  BY <1>7 DEF r
<1>10. Left(f, {}) /\ gc' \in {Idle, [gc EXCEPT !.owed = FALSE]}
  BY <1>8, <1>9, FinishCleanLeaves
<1>11. gc' \in GcSet
  BY <1>10, GcTyped
<1>12. {} \in SUBSET Page /\ \A l \in ObjId : ref[l] \notin {}
  OBVIOUS
<1> QED BY <1>8, <1>10, <1>11, <1>12, StepKeeps

\* spiffs_page_delete on any page, as SPIFFS_check calls it.
LEMMA DeleteType ==
    ASSUME NEW f \in State, Typed(f), NEW p \in Page
    PROVE  LET w == PageDelete(f, p)
           IN  w \in State /\ \A q \in Page \ {p} : w.lu[q] = f.lu[q]
<1> DEFINE g == [f EXCEPT !.lu[p] = DELETED]
           m == Write(f, g)
           c == Then(m, [m EXCEPT !.stats_p_deleted = @ + 1,
                                  !.stats_p_allocated = @ - 1])
           w == WriteFlags(c, p, {"DELET", "USED"})
<1>1. g \in State /\ \A q \in Page \ {p} : g.lu[q] = f.lu[q]
  <2>1. f.lu \in [Page -> Mark] /\ [f.lu EXCEPT ![p] = DELETED] \in [Page -> Mark]
    BY DEF State, Mark
  <2> QED BY <2>1 DEF State
<1>2. g.fault = f.fault
  BY DEF State
<1> HIDE DEF g
<1>3. m \in State /\ m.lu \in {f.lu, g.lu} /\ m.fault = f.fault
  <2>1. CASE ~Ok(f)
    BY <2>1 DEF Write
  <2>2. CASE Ok(f) /\ f.fault # "none" /\ f.fuel = 0
    BY <2>2 DEF Write, State
  <2>3. CASE Ok(f) /\ f.fault # "none" /\ f.fuel # 0
    <3>1. m = [g EXCEPT !.fuel = f.fuel - 1] /\ f.fuel - 1 \in Nat
      BY <2>3 DEF Write, State
    <3> QED BY <1>1, <1>2, <3>1 DEF State
  <2>4. CASE Ok(f) /\ f.fault = "none"
    BY <1>1, <1>2, <2>4 DEF Write
  <2> QED BY <2>1, <2>2, <2>3, <2>4
<1> HIDE DEF m
<1>4. c \in State /\ c.lu = m.lu /\ c.fault = m.fault
  <2>1. m.stats_p_deleted + 1 \in Int /\ m.stats_p_allocated - 1 \in Int
    BY <1>3 DEF State
  <2> QED BY <1>3, <2>1 DEF State, Then
<1> HIDE DEF c
<1>5. w \in State /\ w.lu = c.lu
  BY <1>3, <1>4, LeadsWriteFlags DEF Flag, Typed, Leads, Same
<1>6. PageDelete(f, p) = w
  BY DEF PageDelete, WriteLu, w, c, m, g
<1> HIDE DEF w
<1> QED BY <1>1, <1>3, <1>4, <1>5, <1>6

\* One repair of SPIFFS_check preserves the invariant.
LEMMA StepCheck ==
    ASSUME "erase" \notin Faults, IInv, NEW k \in Faults \cup {"none"},
           NEW n \in 0 .. MaxWrites, NEW p \in Page, Check(p, k, n)
    PROVE  IInv'
<1> DEFINE f == PageDelete(Armed(k, n), p)
<1>1. Armed(k, n) \in State /\ Typed(Armed(k, n)) /\ Same(fs, Armed(k, n))
  BY ArmedType
<1>2. f \in State /\ \A q \in Page \ {p} : f.lu[q] = fs.lu[q]
  BY <1>1, DeleteType DEF Same
<1>3. /\ Finish(f) /\ mounted = "check" /\ UNCHANGED <<want, ref>>
      /\ \A l \in ObjId : ref[l] # p
  BY DEF Check
<1> HIDE DEF f
<1>4. /\ fs' \in State /\ fs'.res = "OK" /\ fs'.lu = f.lu
      /\ mounted' \in {"no", "check"} /\ gc' \in {Idle, gc}
  BY <1>2, <1>3, AtRestType DEF Finish, Same
<1>5. Left(f, {p})
  BY <1>2, <1>3, <1>4 DEF Left
<1>6. gc' \in GcSet
  BY <1>4, GcTyped
<1>7. \A l \in ObjId : ref[l] \notin {p}
  BY <1>3
<1> QED BY <1>3, <1>5, <1>6, <1>7, StepKeeps

\* Reading the file system back from the chip, by mounting it or at the end
\* of SPIFFS_check.
LEMMA StepScan ==
    ASSUME "erase" \notin Faults, IInv, NEW k \in Faults \cup {"none"},
           NEW n \in 0 .. MaxWrites,
           LET f == ObjLuScan(Armed(k, n))
           IN  /\ fs' = IF f.res = "OK" THEN AtRest(f) ELSE NoRam(AtRest(f))
               /\ mounted' \in {"no", "check", "yes"}
               /\ f.res # "OK" => mounted' = "no"
               /\ Relocate(f),
           UNCHANGED <<gc, want>>
    PROVE  IInv'
<1> DEFINE f == ObjLuScan(Armed(k, n))
<1>1. f \in State /\ (Ok(f) => Counts(f))
  BY ArmedType, ScanCounts
<1>2. /\ fs' = IF f.res = "OK" THEN AtRest(f) ELSE NoRam(AtRest(f))
      /\ mounted' \in {"no", "check", "yes"}
      /\ f.res # "OK" => mounted' = "no"
      /\ Relocate(f)
  OBVIOUS
<1> HIDE DEF f
<1>3. fs' \in State /\ fs'.res = "OK" /\ fs'.lu = f.lu
  BY <1>1, <1>2, AtRestType DEF Same
<1>4. mounted' = "yes" => Counts(fs')
  BY <1>1, <1>2, AtRestType, SameCounts DEF Ok
<1>5. RefsFound' /\ ref' \in [ObjId -> Page \cup {NoPage}]
  <2>1. ref \in [ObjId -> Page \cup {NoPage}]
    BY DEF IInv, TypeOK
  <2> QED BY <1>2, <1>3, <2>1 DEF Relocate, RefsFound
<1>6. TypeOK'
  BY <1>2, <1>3, <1>5 DEF TypeOK, IInv
<1> QED BY <1>3, <1>4, <1>5, <1>6 DEF IInv

\* Mounting establishes the counters.
LEMMA StepMount ==
    ASSUME "erase" \notin Faults, IInv, NEW k \in Faults \cup {"none"},
           NEW n \in 0 .. MaxWrites, Mount(k, n)
    PROVE  IInv'
BY StepScan DEF Mount

\* The scan that ends SPIFFS_check establishes the counters.
LEMMA StepChecked ==
    ASSUME "erase" \notin Faults, IInv, NEW k \in Faults \cup {"none"},
           NEW n \in 0 .. MaxWrites, Checked(k, n)
    PROVE  IInv'
BY StepScan DEF Checked

\* Choosing a block to clean moves the free cursor only.
LEMMA StepPick ==
    ASSUME IInv, NEW tries \in Nat, NEW need \in Nat, PickBlock(tries, need),
           UNCHANGED <<mounted, want, ref>>
    PROVE  IInv'
<1> DEFINE b == GcFindCandidate(fs, FreePages(fs) <= 0)
<1>1. fs \in State
  BY DEF IInv, TypeOK
<1>2. b \in Block
  <2>1. (FreePages(fs) <= 0) \in BOOLEAN
    OBVIOUS
  <2> QED BY <1>1, <2>1, CandidateIsBlock
<1>3. FreePages(fs) \in Int
  BY <1>1, GeometryAssumption DEF FreePages, State
<1>4. /\ fs' = StartCleaning(fs, b)
      /\ gc' = [blk |-> b, tries |-> tries, prev |-> FreePages(fs),
                need |-> need, owed |-> FALSE]
  BY DEF PickBlock
<1> HIDE DEF b
<1>5. gc' \in GcSet
  BY <1>2, <1>3, <1>4 DEF GcSet
<1>6. <<(b + 1) % NB, 0>> \in Block \X (0 .. NE)
  BY <1>2, GeometryAssumption DEF Block
<1>7. fs' \in State /\ fs'.res = fs.res /\ Same(fs, fs')
  <2>1. fs' = [fs EXCEPT !.cleaning = TRUE,
                         !.free_cursor = IF fs.free_cursor[1] = b
                                         THEN <<(b + 1) % NB, 0>>
                                         ELSE fs.free_cursor]
    BY <1>1, <1>4 DEF StartCleaning, State
  <2> QED BY <1>1, <1>6, <2>1 DEF State, Same
<1>8. Counts(fs') = Counts(fs)
  BY <1>7, SameCounts
<1>9. TypeOK' /\ RefsFound'
  BY <1>5, <1>7 DEF IInv, TypeOK, RefsFound, GcSet, Same
<1> QED BY <1>7, <1>8, <1>9 DEF IInv

\* Starting a garbage collection preserves the invariant.
LEMMA StepGcCheck == IInv /\ GcCheck(1) => IInv'
BY StepPick DEF GcCheck

\* Going round the loop of gc_check preserves the invariant.
LEMMA StepGcLoop == IInv /\ GcLoop => IInv'
<1> SUFFICES ASSUME IInv, GcLoop PROVE IInv'
  OBVIOUS
<1>1. gc \in GcSet
  BY GcTyped
<1>2. CASE PickBlock(gc.tries + 1, gc.need)
  BY <1>1, <1>2, StepPick DEF GcLoop, GcSet
<1>3. CASE gc' = Idle /\ UNCHANGED fs
  BY <1>3, GcTyped DEF GcLoop, IInv, TypeOK, RefsFound, Counts, BusyPages,
                       DeletedPages, GcSet
<1> QED BY <1>2, <1>3 DEF GcLoop

\* Unmounting and losing power preserve the invariant.
LEMMA StepStop == IInv /\ (PowerLoss \/ Unmount) => IInv'
<1> SUFFICES ASSUME IInv, PowerLoss \/ Unmount PROVE IInv'
  OBVIOUS
<1>1. /\ fs' = NoRam(fs) /\ mounted' = "no" /\ gc' \in {Idle, gc}
      /\ UNCHANGED <<want, ref>>
  BY DEF PowerLoss, Unmount
<1>2. fs' \in State /\ fs'.res = "OK" /\ fs'.lu = fs.lu
  BY <1>1, AtRestType DEF IInv, TypeOK
<1>3. gc' \in GcSet
  BY <1>1, GcTyped
<1> QED BY <1>1, <1>2, <1>3 DEF IInv, TypeOK, RefsFound, GcSet

----------------------------------------------------------------------------
(* The theorems.                                                           *)

\* No step, and no power loss or failed write within a step, breaks the
\* inductive invariant.
LEMMA NextIInv == ASSUME "erase" \notin Faults
                  PROVE  IInv /\ [Next]_vars => IInv'
<1> SUFFICES ASSUME IInv, [Next]_vars PROVE IInv'
  OBVIOUS
<1>1. ASSUME NEW k \in Faults \cup {"none"}, NEW n \in 0 .. MaxWrites,
             Operation(k, n)
      PROVE  IInv'
  BY <1>1, StepAllocate, StepRewrite, StepRemove, StepQuickGc, StepGcEvacuate,
     StepGcStoreIndex, StepGcWipe, StepGcErase, StepMount, StepCheck,
     StepChecked DEF Operation
<1>2. CASE UNCHANGED vars
  BY <1>2 DEF vars, IInv, TypeOK, RefsFound, Counts, BusyPages, DeletedPages
<1> QED BY <1>1, <1>2, StepGcCheck, StepGcLoop, StepStop DEF Next

\* Every variable of the page layer keeps its type.
THEOREM TypeCorrect == ASSUME "erase" \notin Faults
                       PROVE  Spec => []TypeOK
<1>1. IInv => TypeOK
  BY DEF IInv
<1> QED BY <1>1, InitIInv, NextIInv, PTL DEF Spec

\* The page counters are exact whatever sequence of operations ran and
\* whichever of their writes failed or lost power.
THEOREM CountersExact == ASSUME "erase" \notin Faults
                         PROVE  Spec => []StatsExact
<1>1. IInv => StatsExact
  BY DEF IInv, StatsExact, Counts
<1> QED BY <1>1, InitIInv, NextIInv, PTL DEF Spec

----------------------------------------------------------------------------
(***************************************************************************)
(* Proofs about the chip under the page layer, for every chip and set of   *)
(* objects, when nothing but the power fails: what is free lies behind     *)
(* what is not, no free block is missed, nothing that is called free is    *)
(* programmed, and no page that an upper layer was told about is lost.     *)
(***************************************************************************)

----------------------------------------------------------------------------
(* What a write that may lose power leaves.                                *)

\* A state of an operation in which nothing but the power fails.
Powered(f) == f \in State /\ f.fault \in {"none", "power"}

\* The RAM that finding a page needs.
SameRam(f, g) ==
    /\ g.free_cursor = f.free_cursor /\ g.free_blocks = f.free_blocks
    /\ g.cleaning = f.cleaning /\ g.found = f.found

\* Changing the counts changes nothing else.
LEMMA Recounted ==
    ASSUME NEW f \in State, NEW a \in Int, NEW d \in Int, NEW w,
           w = [f EXCEPT !.stats_p_allocated = a, !.stats_p_deleted = d]
    PROVE  /\ w \in State /\ w.fault = f.fault /\ w.res = f.res /\ w.lu = f.lu
           /\ w.page = f.page /\ w.magic = f.magic /\ SameRam(f, w)
<1>1. w \in State
  BY DEF State
<1>2. /\ w.fault = f.fault /\ w.res = f.res /\ w.lu = f.lu
      /\ w.page = f.page /\ w.magic = f.magic
  BY DEF State
<1>3. SameRam(f, w)
  BY DEF State, SameRam
<1> QED
  BY <1>1, <1>2, <1>3

\* After f the lookup is lu and the pages are page, or power was lost before.
Wrote(f, w, lu, page) ==
    /\ Powered(w) /\ w.fault = f.fault /\ w.magic = f.magic
    /\ \/ Ok(w) /\ w.lu = lu /\ w.page = page /\ SameRam(f, w)
       \/ PowerLost(w) /\ w.lu = f.lu /\ w.page = f.page

\* A write of g over f.
LEMMA WriteOutcome ==
    ASSUME NEW f, NEW g \in State, Powered(f), Ok(f), g.res = f.res,
           g.fault = f.fault, NEW w, w = Write(f, g)
    PROVE  /\ Powered(w) /\ w.fault = f.fault
           /\ \/ /\ Ok(w) /\ w.lu = g.lu /\ w.page = g.page
                 /\ w.magic = g.magic /\ SameRam(g, w) /\ w.ec = g.ec
              \/ /\ PowerLost(w) /\ w.lu = f.lu /\ w.page = f.page
                 /\ w.magic = f.magic
<1>1. f \in State /\ f.fault \in {"none", "power"} /\ f.res = "OK"
  BY DEF Powered, Ok
<1>2. CASE f.fault = "none"
  <2>1. w = g
    BY <1>1, <1>2 DEF Write, Ok
  <2> QED
    BY <1>1, <1>2, <2>1 DEF Powered, Ok, SameRam
<1>3. CASE f.fault = "power" /\ f.fuel = 0
  <2>1. w = [f EXCEPT !.res = "FAULT"]
    BY <1>1, <1>3 DEF Write, Ok
  <2> QED
    BY <1>1, <1>3, <2>1 DEF Powered, PowerLost, State
<1>4. CASE f.fault = "power" /\ f.fuel # 0
  <2>1. w = [g EXCEPT !.fuel = f.fuel - 1] /\ f.fuel - 1 \in Nat
    BY <1>1, <1>4 DEF Write, Ok, State
  <2> QED
    BY <1>1, <1>4, <2>1 DEF Powered, Ok, SameRam, State
<1> QED
  BY <1>1, <1>2, <1>3, <1>4

\* Nothing is written after an error.
LEMMA NoWrite ==
    ASSUME NEW f, NEW g, ~Ok(f)
    PROVE  Write(f, g) = f
BY DEF Write

LEMMA WrotePage ==
    ASSUME NEW f, Powered(f), Ok(f), NEW p \in Page, NEW pg \in PageSet
    PROVE  Wrote(f, WritePage(f, p, pg),
                 f.lu, [f.page EXCEPT ![p] = ProgPage(f.page[p], pg)])
<1> DEFINE P == [f.page EXCEPT ![p] = ProgPage(f.page[p], pg)]
           g == [f EXCEPT !.page = P]
<1>1. f \in State /\ f.page \in [Page -> PageSet]
  BY DEF Powered, State
<1>2. P \in [Page -> PageSet]
  BY <1>1, ProgPageType
<1>3. WritePage(f, p, pg) = Write(f, g)
  BY DEF WritePage
<1> HIDE DEF P
<1>4. /\ g \in State /\ g.res = f.res /\ g.fault = f.fault /\ g.lu = f.lu
      /\ g.page = P /\ g.magic = f.magic /\ SameRam(f, g)
  BY <1>1, <1>2 DEF State, SameRam
<1> HIDE DEF g
<1> DEFINE w == Write(f, g)
<1>5. /\ Powered(w) /\ w.fault = f.fault
      /\ \/ /\ Ok(w) /\ w.lu = g.lu /\ w.page = g.page
            /\ w.magic = g.magic /\ SameRam(g, w)
         \/ /\ PowerLost(w) /\ w.lu = f.lu /\ w.page = f.page
            /\ w.magic = f.magic
  BY <1>4, WriteOutcome
<1> HIDE DEF w
<1>6. Wrote(f, w, f.lu, P)
  BY <1>4, <1>5 DEF Wrote, SameRam
<1> QED
  BY <1>3, <1>6 DEF w, P

\* A page with further flags.
With(pg, flags) == [pg EXCEPT !.flags = pg.flags \cup flags]

LEMMA WroteFlags ==
    ASSUME NEW f, Powered(f), Ok(f), NEW p \in Page, NEW flags \in SUBSET Flag
    PROVE  Wrote(f, WriteFlags(f, p, flags),
                 f.lu, [f.page EXCEPT ![p] = With(f.page[p], flags)])
<1> DEFINE P == [f.page EXCEPT ![p] = With(f.page[p], flags)]
           g == [f EXCEPT !.page = P]
<1>1. f \in State /\ f.page \in [Page -> PageSet]
  BY DEF Powered, State
<1>2. With(f.page[p], flags) \in PageSet
  BY <1>1 DEF With, PageSet
<1>3. P \in [Page -> PageSet]
  BY <1>1, <1>2
<1>4. WriteFlags(f, p, flags) = Write(f, g)
  BY <1>1 DEF WriteFlags, With, PageSet, State
<1> HIDE DEF P
<1>5. /\ g \in State /\ g.res = f.res /\ g.fault = f.fault /\ g.lu = f.lu
      /\ g.page = P /\ g.magic = f.magic /\ SameRam(f, g)
  BY <1>1, <1>3 DEF State, SameRam
<1> HIDE DEF g
<1> DEFINE w == Write(f, g)
<1>6. /\ Powered(w) /\ w.fault = f.fault
      /\ \/ /\ Ok(w) /\ w.lu = g.lu /\ w.page = g.page
            /\ w.magic = g.magic /\ SameRam(g, w)
         \/ /\ PowerLost(w) /\ w.lu = f.lu /\ w.page = f.page
            /\ w.magic = f.magic
  BY <1>5, WriteOutcome
<1> HIDE DEF w
<1>7. Wrote(f, w, f.lu, P)
  BY <1>5, <1>6 DEF Wrote, SameRam
<1> QED
  BY <1>4, <1>7 DEF w, P

\* An entry of the lookup is written and the counters changed.
LEMMA WroteLu ==
    ASSUME NEW f, Powered(f), Ok(f), NEW p \in Page, NEW id \in Mark,
           NEW a \in Int, NEW d \in Int, NEW m,
           m = Write(f, [f EXCEPT !.lu[p] = id]),
           NEW w, w = Then(m, [m EXCEPT !.stats_p_deleted = m.stats_p_deleted + d,
                                        !.stats_p_allocated = m.stats_p_allocated + a])
    PROVE  Wrote(f, w, [f.lu EXCEPT ![p] = id], f.page)
<1> DEFINE L == [f.lu EXCEPT ![p] = id]
           g == [f EXCEPT !.lu = L]
<1>1. f \in State /\ L \in [Page -> Mark]
  BY DEF Powered, State
<1>2. m = Write(f, g)
  OBVIOUS
<1> HIDE DEF L
<1>3. /\ g \in State /\ g.res = f.res /\ g.fault = f.fault /\ g.lu = L
      /\ g.page = f.page /\ g.magic = f.magic /\ SameRam(f, g)
  BY <1>1 DEF State, SameRam
<1> HIDE DEF g
<1>4. /\ Powered(m) /\ m.fault = f.fault
      /\ \/ /\ Ok(m) /\ m.lu = g.lu /\ m.page = g.page
            /\ m.magic = g.magic /\ SameRam(g, m)
         \/ /\ PowerLost(m) /\ m.lu = f.lu /\ m.page = f.page
            /\ m.magic = f.magic
  BY <1>2, <1>3, WriteOutcome
<1>5. Wrote(f, m, L, f.page)
  BY <1>3, <1>4 DEF Wrote, SameRam
<1>6. CASE ~Ok(m)
  BY <1>5, <1>6 DEF Then, L
<1>7. CASE Ok(m)
  <2>1. w = [m EXCEPT !.stats_p_allocated = m.stats_p_allocated + a,
                      !.stats_p_deleted = m.stats_p_deleted + d]
    BY <1>7 DEF Then
  <2>2. m \in State /\ m.stats_p_deleted + d \in Int /\ m.stats_p_allocated + a \in Int
    <3>1. m \in State
      BY <1>4 DEF Powered
    <3>2. m.stats_p_deleted \in Int /\ m.stats_p_allocated \in Int
      BY <3>1 DEF State
    <3> QED
      BY <3>1, <3>2
  <2>3. /\ w \in State /\ w.fault = m.fault /\ w.res = m.res /\ w.lu = m.lu
        /\ w.page = m.page /\ w.magic = m.magic /\ SameRam(m, w)
    BY <2>1, <2>2, Recounted
  <2>4. Wrote(f, w, L, f.page)
    BY <1>5, <1>7, <2>3 DEF Wrote, Powered, Ok, SameRam, PowerLost
  <2> QED
    BY <2>4 DEF L
<1> QED
  BY <1>6, <1>7

\* An entry for object l, and its count.
LEMMA WroteEntry ==
    ASSUME NEW f, Powered(f), Ok(f), NEW p \in Page, f.lu[p] = FREE, NEW l \in ObjId
    PROVE  Wrote(f, CountAllocated(WriteLu(f, p, l)), [f.lu EXCEPT ![p] = l], f.page)
<1> DEFINE m == WriteLu(f, p, l)
           d == 0
           a == 1
           w == Then(m, [m EXCEPT !.stats_p_deleted = m.stats_p_deleted + d,
                                  !.stats_p_allocated = m.stats_p_allocated + a])
<1>0. d \in Int /\ a \in Int
  OBVIOUS
<1>1. l \in Mark /\ l # DELETED /\ Prog(FREE, l, FREE) = l
  BY IdAssumption DEF Mark, Prog
<1>2. m = Write(f, [f EXCEPT !.lu[p] = l])
  BY <1>1 DEF WriteLu
<1> HIDE DEF m, a, d
<1>3. Wrote(f, w, [f.lu EXCEPT ![p] = l], f.page)
  BY <1>0, <1>1, <1>2, WroteLu
<1>4. w = CountAllocated(m)
  <2>1. CASE ~Ok(m)
    BY <2>1 DEF CountAllocated, Then
  <2>2. CASE Ok(m)
    <3>1. m \in State
      <4>1. [f.lu EXCEPT ![p] = l] \in [Page -> Mark]
        BY <1>1 DEF Powered, State
      <4>2. [f EXCEPT !.lu[p] = l] \in State
        BY <4>1 DEF Powered, State
      <4> DEFINE g == [f EXCEPT !.lu[p] = l]
      <4>3. g \in State /\ g.res = f.res /\ g.fault = f.fault
        BY <4>2 DEF Powered, State
      <4> HIDE DEF g
      <4>4. Powered(m)
        BY <1>2, <4>3, WriteOutcome DEF g
      <4> QED
        BY <4>4 DEF Powered
    <3>2. m.stats_p_deleted + d = m.stats_p_deleted
      BY <3>1 DEF State, d
    <3>3. m = [m EXCEPT !.stats_p_deleted = m.stats_p_deleted]
      BY <3>1 DEF State
    <3> QED
      BY <2>2, <3>1, <3>2, <3>3 DEF CountAllocated, Then, State, a
  <2> QED
    BY <2>1, <2>2
<1> QED
  BY <1>3, <1>4 DEF m

----------------------------------------------------------------------------
(* The stages of an operation.                                             *)

\* Chip and RAM are as before, or the RAM is lost.
Rests(f, w) ==
    /\ Powered(w) /\ w.lu = f.lu /\ w.page = f.page /\ w.magic = f.magic
    /\ \/ PowerLost(w)
       \/ ~PowerLost(f) /\ SameRam(f, w)

BlankLu(f, b)   == [p \in Page |-> IF p[1] = b THEN FREE ELSE f.lu[p]]
BlankPage(f, b) == [p \in Page |-> IF p[1] = b THEN Erased ELSE f.page[p]]

\* Block b has been erased, but perhaps not stamped.
Emptied(f, w, b) ==
    /\ Powered(w) /\ w.lu = BlankLu(f, b) /\ w.page = BlankPage(f, b)
    /\ \A d \in Block \ {b} : w.magic[d] = f.magic[d]
    /\ \/ PowerLost(w)
       \/ /\ w.free_cursor = f.free_cursor /\ w.cleaning = f.cleaning
          /\ w.free_blocks = f.free_blocks + 1

\* Block b has been erased, and stamped unless power was lost.
Wiped(f, w, b) == Emptied(f, w, b) /\ (PowerLost(w) \/ w.magic[b])

\* Erasing the flash of a block.
LEMMA FlashEmptied ==
    ASSUME NEW h, Powered(h), Ok(h), NEW b \in Block,
           NEW e, e = EraseFlash(h, b)
    PROVE  /\ Powered(e)
           /\ \/ /\ Ok(e) /\ e.lu = BlankLu(h, b) /\ e.page = BlankPage(h, b)
                 /\ \A d \in Block \ {b} : e.magic[d] = h.magic[d]
                 /\ SameRam(h, e) /\ e.ec[b] = EcFree
              \/ /\ PowerLost(e) /\ e.lu = h.lu /\ e.page = h.page
                 /\ e.magic = h.magic
<1> DEFINE g == Blank(h, b)
<1>1. /\ h \in State /\ h.fault \in {"none", "power"}
      /\ h.ec \in [Block -> 0 .. EcFree] /\ h.magic \in [Block -> BOOLEAN]
  BY DEF Powered, State
<1>2. BlankLu(h, b) \in [Page -> Mark] /\ BlankPage(h, b) \in [Page -> PageSet]
  <2>1. Erased \in PageSet
    BY DEF Erased, PageSet, BodySet
  <2> QED
    BY <1>1, <2>1 DEF BlankLu, BlankPage, State, Mark
<1>3. EcFree \in 0 .. EcFree
  BY GeometryAssumption DEF EcFree
<1>4. /\ [h.ec EXCEPT ![b] = EcFree] \in [Block -> 0 .. EcFree]
      /\ [h.ec EXCEPT ![b] = EcFree][b] = EcFree
      /\ [h.magic EXCEPT ![b] = FALSE] \in [Block -> BOOLEAN]
      /\ \A d \in Block \ {b} : [h.magic EXCEPT ![b] = FALSE][d] = h.magic[d]
  BY <1>1, <1>3
<1>5. /\ g \in State /\ g.lu = BlankLu(h, b) /\ g.page = BlankPage(h, b)
      /\ g.ec = [h.ec EXCEPT ![b] = EcFree]
      /\ g.magic = [h.magic EXCEPT ![b] = FALSE]
      /\ g.res = h.res /\ g.fault = h.fault /\ SameRam(h, g)
  <2> HIDE DEF g
  <2>1. g = [h EXCEPT !.lu = BlankLu(h, b), !.page = BlankPage(h, b),
                      !.ec = [h.ec EXCEPT ![b] = EcFree],
                      !.magic = [h.magic EXCEPT ![b] = FALSE]]
    BY DEF g, Blank, BlankLu, BlankPage
  <2> QED
    BY <1>1, <1>2, <1>4, <2>1 DEF State, SameRam
<1>6. e = Write(h, g)
  BY <1>1 DEF EraseFlash, Blank, Write, Ok
<1> HIDE DEF g
<1>7. /\ Powered(e)
      /\ \/ /\ Ok(e) /\ e.lu = g.lu /\ e.page = g.page
            /\ e.magic = g.magic /\ SameRam(g, e) /\ e.ec = g.ec
         \/ /\ PowerLost(e) /\ e.lu = h.lu /\ e.page = h.page
            /\ e.magic = h.magic
  BY <1>5, <1>6, WriteOutcome
<1> QED
  BY <1>4, <1>5, <1>7 DEF SameRam

\* Stamping an erased block with its erase count and its magic.
LEMMA Stamped ==
    ASSUME NEW f, NEW c, NEW b \in Block, Emptied(f, c, b), Ok(c),
           c.ec[b] = EcFree, NEW n \in 0 .. EcFree,
           NEW m, m = WriteMagic(WriteEraseCount(c, b, n), b)
    PROVE  /\ Wiped(f, m, b)
           /\ Ok(m) \/ PowerLost(m)
<1> DEFINE s == WriteEraseCount(c, b, n)
           gs == [c EXCEPT !.ec = [c.ec EXCEPT ![b] = n]]
<1>1. c \in State /\ Powered(c) /\ ~PowerLost(c) /\ c.ec \in [Block -> 0 .. EcFree]
  BY DEF Emptied, Powered, State, Ok, PowerLost
<1>2. [c.ec EXCEPT ![b] = n] \in [Block -> 0 .. EcFree]
  BY <1>1
<1>3. /\ gs \in State /\ gs.res = c.res /\ gs.fault = c.fault /\ gs.lu = c.lu
      /\ gs.page = c.page /\ gs.magic = c.magic /\ SameRam(c, gs)
  BY <1>1, <1>2 DEF State, SameRam
<1>4. s = Write(c, gs)
  BY <1>1 DEF WriteEraseCount
<1> HIDE DEF s, gs
<1>5. /\ Powered(s)
      /\ \/ /\ Ok(s) /\ s.lu = c.lu /\ s.page = c.page
            /\ s.magic = c.magic /\ SameRam(c, s)
         \/ /\ PowerLost(s) /\ s.lu = c.lu /\ s.page = c.page
            /\ s.magic = c.magic
  <2>1. /\ Powered(s)
        /\ \/ /\ Ok(s) /\ s.lu = gs.lu /\ s.page = gs.page
              /\ s.magic = gs.magic /\ SameRam(gs, s)
           \/ /\ PowerLost(s) /\ s.lu = c.lu /\ s.page = c.page
              /\ s.magic = c.magic
    BY <1>1, <1>3, <1>4, WriteOutcome
  <2> QED
    BY <1>3, <2>1 DEF SameRam
<1>6. CASE PowerLost(s)
  <2>1. m = s
    BY <1>6 DEF WriteMagic, Write, Ok, PowerLost, s
  <2> QED
    BY <1>5, <1>6, <2>1 DEF Emptied, Wiped
<1>7. CASE Ok(s)
  <2> DEFINE gm == [s EXCEPT !.magic = [s.magic EXCEPT ![b] = TRUE]]
  <2>1. s \in State /\ s.magic \in [Block -> BOOLEAN]
    BY <1>5 DEF Powered, State
  <2>2. /\ [s.magic EXCEPT ![b] = TRUE] \in [Block -> BOOLEAN]
        /\ [s.magic EXCEPT ![b] = TRUE][b] = TRUE
        /\ \A d \in Block \ {b} : [s.magic EXCEPT ![b] = TRUE][d] = s.magic[d]
    BY <2>1
  <2>3. /\ gm \in State /\ gm.res = s.res /\ gm.fault = s.fault /\ gm.lu = s.lu
        /\ gm.page = s.page /\ gm.magic = [s.magic EXCEPT ![b] = TRUE]
        /\ SameRam(s, gm)
    BY <2>1, <2>2 DEF State, SameRam
  <2>4. m = Write(s, gm)
    BY DEF WriteMagic, s
  <2> HIDE DEF gm
  <2>5. /\ Powered(m)
        /\ \/ /\ Ok(m) /\ m.lu = gm.lu /\ m.page = gm.page
              /\ m.magic = gm.magic /\ SameRam(gm, m)
           \/ /\ PowerLost(m) /\ m.lu = s.lu /\ m.page = s.page
              /\ m.magic = s.magic
    BY <1>5, <1>7, <2>3, <2>4, WriteOutcome
  <2>6. ~PowerLost(s)
    BY <1>7 DEF Ok, PowerLost
  <2>7. /\ m.lu = BlankLu(f, b) /\ m.page = BlankPage(f, b)
        /\ \A d \in Block \ {b} : m.magic[d] = f.magic[d]
    BY <1>5, <2>2, <2>3, <2>5 DEF Emptied
  <2>8. CASE PowerLost(m)
    BY <2>5, <2>7, <2>8 DEF Emptied, Wiped
  <2>9. CASE ~PowerLost(m)
    <3>1. SameRam(c, m) /\ m.magic[b] /\ Ok(m)
      BY <1>5, <2>2, <2>3, <2>5, <2>6, <2>9 DEF SameRam
    <3>2. /\ c.free_cursor = f.free_cursor /\ c.cleaning = f.cleaning
          /\ c.free_blocks = f.free_blocks + 1
      BY <1>1 DEF Emptied
    <3> QED
      BY <2>5, <2>7, <3>1, <3>2 DEF Emptied, Wiped, SameRam
  <2> QED
    BY <2>8, <2>9
<1> QED
  BY <1>5, <1>6, <1>7

\* spiffs_erase_block, after h has been counted from f.
LEMMA EraseWipes ==
    ASSUME NEW f, NEW h, Powered(h), Ok(h), h.lu = f.lu, h.page = f.page,
           h.magic = f.magic, SameRam(f, h), NEW b \in Block,
           NEW w, w = EraseBlock(h, b)
    PROVE  \/ Ok(w) /\ Wiped(f, w, b)
           \/ PowerLost(w) /\ (Rests(f, w) \/ Wiped(f, w, b))
<1> DEFINE e == EraseFlash(h, b)
           c == Then(e, [e EXCEPT !.free_blocks = e.free_blocks + 1])
           n == h.max_erase_count
           m == WriteMagic(WriteEraseCount(c, b, n), b)
           x == IF m.max_erase_count + 1 \in {EcFlag, EcFree + 1} THEN 0
                ELSE m.max_erase_count + 1
<1>1. w = Then(m, [m EXCEPT !.max_erase_count = x])
  BY DEF EraseBlock
<1> HIDE DEF e
<1>2. /\ Powered(e)
      /\ \/ /\ Ok(e) /\ e.lu = BlankLu(h, b) /\ e.page = BlankPage(h, b)
            /\ \A d \in Block \ {b} : e.magic[d] = h.magic[d]
            /\ SameRam(h, e) /\ e.ec[b] = EcFree
         \/ /\ PowerLost(e) /\ e.lu = h.lu /\ e.page = h.page
            /\ e.magic = h.magic
  BY FlashEmptied DEF e
<1>3. CASE PowerLost(e)
  <2>1. c = e
    BY <1>3 DEF Then, Ok, PowerLost
  <2>2. m = e
    BY <1>3, <2>1 DEF WriteMagic, WriteEraseCount, Write, Ok, PowerLost
  <2>3. w = e
    BY <1>1, <1>3, <2>2 DEF Then, Ok, PowerLost
  <2>4. ~Ok(e)
    BY <1>3 DEF PowerLost, Ok
  <2> QED
    BY <1>2, <1>3, <2>3, <2>4 DEF Rests
<1>4. CASE Ok(e)
  <2>1. /\ e \in State /\ ~PowerLost(e) /\ e.free_blocks + 1 \in Int
        /\ n \in 0 .. EcFree
    BY <1>2, <1>4 DEF Powered, State, Ok, PowerLost
  <2>2. c = [e EXCEPT !.free_blocks = e.free_blocks + 1]
    BY <1>4 DEF Then
  <2> HIDE DEF c
  <2>3. /\ c \in State /\ c.res = e.res /\ c.fault = e.fault /\ c.lu = e.lu
        /\ c.page = e.page /\ c.magic = e.magic /\ c.ec = e.ec
        /\ c.free_cursor = e.free_cursor /\ c.cleaning = e.cleaning
        /\ c.free_blocks = e.free_blocks + 1
    BY <2>1, <2>2 DEF State
  <2>4. BlankLu(h, b) = BlankLu(f, b) /\ BlankPage(h, b) = BlankPage(f, b)
    BY DEF BlankLu, BlankPage
  <2>5. Emptied(f, c, b) /\ Ok(c) /\ c.ec[b] = EcFree
    BY <1>2, <1>4, <2>1, <2>3, <2>4 DEF Emptied, SameRam, Powered, Ok
  <2> HIDE DEF n, m
  <2>6. Wiped(f, m, b) /\ (Ok(m) \/ PowerLost(m))
    BY <2>1, <2>5, Stamped DEF m
  <2>7. CASE PowerLost(m)
    <3>1. w = m
      BY <1>1, <2>7 DEF Then, Ok, PowerLost
    <3> QED
      BY <2>6, <2>7, <3>1
  <2>8. CASE Ok(m)
    <3>1. w = [m EXCEPT !.max_erase_count = x]
      BY <1>1, <2>8 DEF Then
    <3>2. m \in State
      BY <2>6 DEF Wiped, Emptied, Powered
    <3>3. x \in 0 .. EcFree
      <4>1. m.max_erase_count \in 0 .. EcFree
        BY <3>2 DEF State
      <4>2. EcFlag \in Nat /\ EcFlag > 1 /\ EcFree = 2 * EcFlag - 1
        BY GeometryAssumption DEF EcFree
      <4> QED
        BY <4>1, <4>2
    <3> HIDE DEF x
    <3>4. /\ w \in State /\ w.res = m.res /\ w.fault = m.fault /\ w.lu = m.lu
          /\ w.page = m.page /\ w.magic = m.magic /\ SameRam(m, w)
      BY <3>1, <3>2, <3>3 DEF State, SameRam
    <3> QED
      BY <2>6, <2>8, <3>4 DEF Wiped, Emptied, Powered, SameRam, Ok, PowerLost
  <2> QED
    BY <2>6, <2>7, <2>8
<1> QED
  BY <1>2, <1>3, <1>4

\* Blocks without busy pages, and with at most max free ones, may be erased.
Clears(f, r, max) ==
    \/ Rests(f, r)
    \/ \E b \in Block : /\ PagesOf(f, b, IsBusy) = {}
                        /\ Cardinality(PagesOf(f, b, IsFree)) <= max
                        /\ Wiped(f, r, b)

\* spiffs_gc_quick.
LEMMA QuickClears ==
    ASSUME NEW f, Powered(f), Ok(f), NEW max \in Nat
    PROVE  Clears(f, GcQuick(f, max), max)
<1> DEFINE cands == QuickCandidates(f, max)
           b == Least(cands)
           h == [f EXCEPT !.stats_p_deleted =
                    f.stats_p_deleted - Cardinality(PagesOf(f, b, IsDeleted))]
           w == EraseBlock(h, b)
<1>1. CASE cands = {}
  <2>1. GcQuick(f, max) = [f EXCEPT !.res = "NO_DELETED_BLOCKS"]
    BY <1>1 DEF GcQuick, Fail
  <2> DEFINE g == [f EXCEPT !.res = "NO_DELETED_BLOCKS"]
  <2>2. Rests(f, g)
    BY DEF Rests, Powered, State, SameRam, Ok, PowerLost
  <2> QED
    BY <2>1, <2>2 DEF Clears
<1>2. CASE cands # {}
  <2>1. cands \in SUBSET Nat
    BY DEF QuickCandidates, Block
  <2>2. b \in cands
    BY <1>2, <2>1, LeastInSet
  <2>3. /\ b \in Block /\ PagesOf(f, b, IsBusy) = {}
        /\ Cardinality(PagesOf(f, b, IsFree)) <= max
    BY <2>2 DEF QuickCandidates
  <2>4. GcQuick(f, max) = w
    BY <1>2 DEF GcQuick, Ok
  <2> HIDE DEF b
  <2>5. f.stats_p_deleted - Cardinality(PagesOf(f, b, IsDeleted)) \in Int
    <3>1. PagesOf(f, b, IsDeleted) \in SUBSET Page
      BY <2>3 DEF PagesOf, InBlock, Page
    <3>2. Cardinality(PagesOf(f, b, IsDeleted)) \in Nat
      BY <3>1, PageIsFinite, FS_Subset, FS_CardinalityType
    <3>3. f.stats_p_deleted \in Int
      BY DEF Powered, State
    <3> QED
      BY <3>2, <3>3
  <2>6. /\ Powered(h) /\ Ok(h) /\ h.lu = f.lu /\ h.page = f.page
        /\ h.magic = f.magic /\ SameRam(f, h)
    BY <2>5 DEF Powered, Ok, State, SameRam
  <2> HIDE DEF h
  <2>7. Wiped(f, w, b) \/ Rests(f, w)
    BY <2>3, <2>6, EraseWipes
  <2> QED
    BY <2>3, <2>4, <2>7 DEF Clears
<1> QED
  BY <1>1, <1>2

\* A result code changes nothing of that.
LEMMA ClearsAlike ==
    ASSUME NEW f, NEW r, NEW max, Clears(f, r, max), ~PowerLost(r), NEW h,
           NEW c \in {"OK", "FULL"}, h = [r EXCEPT !.res = c]
    PROVE  Clears(f, h, max) /\ ~PowerLost(h)
<1>1. Powered(r) /\ r \in State
  BY DEF Clears, Rests, Wiped, Emptied, Powered
<1>2. /\ Powered(h) /\ h.lu = r.lu /\ h.page = r.page /\ h.magic = r.magic
      /\ SameRam(r, h) /\ ~PowerLost(h)
  BY <1>1 DEF Powered, State, SameRam, PowerLost
<1>3. CASE Rests(f, r)
  BY <1>2, <1>3 DEF Clears, Rests, SameRam
<1>4. ASSUME NEW b \in Block, Wiped(f, r, b)
      PROVE  Wiped(f, h, b)
  BY <1>2, <1>4 DEF Wiped, Emptied, SameRam
<1> QED
  BY <1>2, <1>3, <1>4 DEF Clears

\* The quick collection that keeps two blocks.
LEMMA ReserveClears ==
    ASSUME NEW f, Powered(f), Ok(f)
    PROVE  Clears(f, Reserve(f), 0)
<1> DEFINE g == GcQuick(f, 0)
           h == Forgiven(g)
           w == TwoOrFull(h)
<1>1. CASE Reserve(f) = f
  BY <1>1 DEF Clears, Rests, SameRam
<1>2. CASE Reserve(f) # f
  <2>1. Reserve(f) = w
    BY <1>2 DEF Reserve
  <2>2. Clears(f, g, 0)
    BY QuickClears
  <2> HIDE DEF g
  <2>3. Clears(f, h, 0)
    <3>1. CASE g.res # "NO_DELETED_BLOCKS"
      BY <2>2, <3>1 DEF Forgiven
    <3>2. CASE g.res = "NO_DELETED_BLOCKS"
      <4>1. h = [g EXCEPT !.res = "OK"] /\ ~PowerLost(g)
        BY <3>2 DEF Forgiven, PowerLost
      <4> QED
        BY <2>2, <4>1, ClearsAlike
    <3> QED
      BY <3>1, <3>2
  <2> HIDE DEF h
  <2>4. CASE w = h
    BY <2>1, <2>3, <2>4
  <2>5. CASE w # h
    <3>1. w = [h EXCEPT !.res = "FULL"] /\ ~PowerLost(h)
      BY <2>5 DEF TwoOrFull, Fail, Ok, PowerLost
    <3>2. Clears(f, w, 0)
      BY <2>3, <3>1, ClearsAlike
    <3> QED
      BY <2>1, <3>2
  <2> QED
    BY <2>4, <2>5
<1> QED
  BY <1>1, <1>2

\* Free page p of r is taken: the cursor moves behind it.
Taken(r, g, p) ==
    /\ Powered(g) /\ Ok(g)
    /\ g.lu = r.lu /\ g.page = r.page /\ g.magic = r.magic
    /\ g.cleaning = r.cleaning /\ g.found = p
    /\ p = NextFree(r) /\ p \in Page /\ r.lu[p] = FREE
    /\ g.free_cursor = <<p[1], p[2] + 1>>
    /\ g.free_blocks = IF p[2] = 0 THEN r.free_blocks - 1 ELSE r.free_blocks

\* spiffs_obj_lu_find_free, with the quick collection it may begin with.
Finds(f, g) ==
    \E r : /\ Clears(f, r, 0)
           /\ \/ ~Ok(g) /\ Rests(r, g)
              \/ Ok(r) /\ Taken(r, g, g.found)

LEMMA FindFreeFinds ==
    ASSUME NEW f, Powered(f), Ok(f)
    PROVE  Finds(f, FindFree(f))
<1> DEFINE r == Reserve(f)
           p == NextFree(r)
           t == [TakeEntry(r, p) EXCEPT !.found = p]
<1>1. Clears(f, r, 0)
  BY ReserveClears
<1>2. Powered(r) /\ r \in State
  BY <1>1 DEF Clears, Rests, Wiped, Emptied, Powered
<1>3. FindFree(f) = FindIn(r)
  BY DEF FindFree
<1> HIDE DEF r
<1>4. CASE ~Ok(r)
  <2>1. FindIn(r) = r /\ Rests(r, r)
    BY <1>2, <1>4 DEF FindIn, Rests, SameRam
  <2> QED
    BY <1>1, <1>3, <1>4, <2>1 DEF Finds
<1>5. CASE Ok(r) /\ FreeEntries(r) = {}
  <2> DEFINE w == [r EXCEPT !.res = "NOT_FOUND"]
  <2>1. FindIn(r) = w
    BY <1>5 DEF FindIn, Fail
  <2>2. Rests(r, w) /\ ~Ok(w)
    BY <1>2, <1>5 DEF Rests, Powered, State, SameRam, Ok, PowerLost
  <2> QED
    BY <1>1, <1>3, <2>1, <2>2 DEF Finds
<1>6. CASE Ok(r) /\ FreeEntries(r) # {}
  <2>1. FindIn(r) = t
    BY <1>6 DEF FindIn
  <2>2. p \in Page /\ r.lu[p] = FREE /\ p = NextFree(r)
    BY <1>6, NextFreeIsFree
  <2> HIDE DEF p
  <2>3. <<p[1], p[2] + 1>> \in Block \X (0 .. NE)
    BY <2>2, GeometryAssumption DEF Page, Block, Entry
  <2> DEFINE n == IF p[2] = 0 THEN r.free_blocks - 1 ELSE r.free_blocks
             c == <<p[1], p[2] + 1>>
  <2>4. n \in Int
    BY <1>2 DEF State
  <2>5. t = [r EXCEPT !.free_cursor = c, !.free_blocks = n, !.found = p]
    BY <1>2 DEF TakeEntry, State
  <2>6. Taken(r, t, p)
    <3>1. c = <<p[1], p[2] + 1>> /\ n = IF p[2] = 0 THEN r.free_blocks - 1 ELSE r.free_blocks
      OBVIOUS
    <3> HIDE DEF n, c, t
    <3>2. /\ t \in State /\ t.fault = r.fault /\ t.res = r.res /\ t.lu = r.lu
          /\ t.page = r.page /\ t.magic = r.magic /\ t.cleaning = r.cleaning
          /\ t.found = p /\ t.free_cursor = c /\ t.free_blocks = n
      BY <1>2, <2>2, <2>3, <2>4, <2>5 DEF State, c
    <3> QED
      BY <1>2, <1>6, <2>2, <3>1, <3>2 DEF Taken, Powered, Ok
  <2>7. t.found = p
    BY <2>6 DEF Taken
  <2> QED
    BY <1>1, <1>3, <1>6, <2>1, <2>6, <2>7 DEF Finds
<1> QED
  BY <1>4, <1>5, <1>6

\* Page q is marked in the lookup and then in its header.
Deleted(f, w, q) ==
    /\ Powered(w) /\ w.magic = f.magic
    /\ \/ PowerLost(w) /\ w.lu = f.lu /\ w.page = f.page
       \/ PowerLost(w) /\ w.lu = [f.lu EXCEPT ![q] = DELETED] /\ w.page = f.page
       \/ /\ Ok(w) /\ SameRam(f, w)
          /\ w.lu = [f.lu EXCEPT ![q] = DELETED]
          /\ w.page = [f.page EXCEPT ![q] = With(f.page[q], {"DELET", "USED"})]

LEMMA PageDeleted ==
    ASSUME NEW f, Powered(f), Ok(f), NEW q \in Page
    PROVE  Deleted(f, PageDelete(f, q), q)
<1> DEFINE m == WriteLu(f, q, DELETED)
           d == 1
           a == -1
           c == Then(m, [m EXCEPT !.stats_p_deleted = m.stats_p_deleted + d,
                                  !.stats_p_allocated = m.stats_p_allocated + a])
           w == WriteFlags(c, q, {"DELET", "USED"})
           L == [f.lu EXCEPT ![q] = DELETED]
<1>1. d \in Int /\ a \in Int /\ DELETED \in Mark
  BY DEF Mark
<1>2. m = Write(f, [f EXCEPT !.lu[q] = DELETED])
  BY DEF WriteLu
<1>3. m \in State
  <2> DEFINE g == [f EXCEPT !.lu[q] = DELETED]
  <2>1. g \in State /\ g.res = f.res /\ g.fault = f.fault
    BY DEF Powered, State, Mark
  <2> HIDE DEF g, m
  <2>2. Powered(m)
    BY <1>2, <2>1, WriteOutcome DEF g
  <2> QED
    BY <2>2 DEF Powered
<1>4. PageDelete(f, q) = w
  <2> HIDE DEF m
  <2>1. m.stats_p_allocated + a = m.stats_p_allocated - 1
    BY <1>3 DEF State
  <2>2. c = Then(m, [m EXCEPT !.stats_p_deleted = @ + 1, !.stats_p_allocated = @ - 1])
    BY <2>1 DEF Then
  <2> HIDE DEF c
  <2> QED
    BY <2>2 DEF PageDelete, m
<1> HIDE DEF m, a, d
<1>5. Wrote(f, c, L, f.page)
  BY <1>1, <1>2, WroteLu
<1> HIDE DEF c, L
<1>6. {"DELET", "USED"} \in SUBSET Flag
  BY DEF Flag
<1>7. CASE PowerLost(c)
  <2>1. w = c
    BY <1>7 DEF WriteFlags, Write, PowerLost, Ok
  <2> QED
    BY <1>4, <1>5, <1>7, <2>1 DEF Wrote, Deleted, Ok, PowerLost
<1>8. CASE Ok(c)
  <2>1. Powered(c) /\ c.lu = L /\ c.page = f.page /\ SameRam(f, c) /\ c.magic = f.magic
    BY <1>5, <1>8 DEF Wrote, Ok, PowerLost
  <2> DEFINE P == [c.page EXCEPT ![q] = With(c.page[q], {"DELET", "USED"})]
  <2> HIDE DEF P
  <2>2. Wrote(c, w, c.lu, P)
    BY <1>6, <1>8, <2>1, WroteFlags DEF P
  <2>3. P = [f.page EXCEPT ![q] = With(f.page[q], {"DELET", "USED"})]
    BY <2>1 DEF P
  <2> HIDE DEF w
  <2>4. Deleted(f, w, q)
    BY <2>1, <2>2, <2>3 DEF Wrote, Deleted, SameRam, L
  <2> QED
    BY <1>4, <2>4
<1> QED
  BY <1>5, <1>7, <1>8 DEF Wrote

----------------------------------------------------------------------------
(* Programming a page that was found.                                      *)

\* g with entry y[1] and content y[2] for page p.
Holding(g, x, p, y) == /\ x.lu = [g.lu EXCEPT ![p] = y[1]]
                       /\ x.page = [g.page EXCEPT ![p] = y[2]]

\* The writes after g got page p to now, or were cut short at one of cuts.
Reached(g, x, p, cuts, now) ==
    /\ Powered(x) /\ x.magic = g.magic
    /\ \/ Ok(x) /\ SameRam(g, x) /\ Holding(g, x, p, now)
       \/ PowerLost(x) /\ \E y \in cuts : Holding(g, x, p, y)

LEMMA ReachedStart ==
    ASSUME NEW g, Powered(g), Ok(g), NEW p \in Page
    PROVE  Reached(g, g, p, {}, <<g.lu[p], g.page[p]>>)
<1>1. g.lu = [g.lu EXCEPT ![p] = g.lu[p]] /\ g.page = [g.page EXCEPT ![p] = g.page[p]]
  BY DEF Powered, State
<1> QED
  BY <1>1 DEF Reached, Holding, SameRam

\* One write more, of the page or of its entry.
LEMMA ReachedWrite ==
    ASSUME NEW g, NEW x, NEW p \in Page, NEW cuts, NEW now, NEW y,
           Powered(g), Reached(g, x, p, cuts, now), NEW w,
           NEW lu, NEW page,
           ~Ok(x) => w = x, Ok(x) => Wrote(x, w, lu, page),
           Ok(x) => lu = [x.lu EXCEPT ![p] = y[1]] /\ page = [x.page EXCEPT ![p] = y[2]]
    PROVE  Reached(g, w, p, cuts \cup {now}, y)
<1>1. CASE ~Ok(x)
  <2>1. w = x /\ PowerLost(x) /\ \E z \in cuts : Holding(g, x, p, z)
    BY <1>1 DEF Reached
  <2> QED
    BY <2>1 DEF Reached
<1>2. CASE Ok(x)
  <2>1. SameRam(g, x) /\ Holding(g, x, p, now) /\ Powered(x) /\ x.magic = g.magic
    BY <1>2 DEF Reached, Ok, PowerLost
  <2>2. CASE PowerLost(w)
    <3>1. Powered(w) /\ w.magic = x.magic /\ w.lu = x.lu /\ w.page = x.page
      BY <1>2, <2>2 DEF Wrote, Ok, PowerLost
    <3>2. Holding(g, w, p, now)
      BY <2>1, <3>1 DEF Holding
    <3> QED
      BY <2>1, <2>2, <3>1, <3>2 DEF Reached
  <2>3. CASE ~PowerLost(w)
    <3>1. /\ Powered(w) /\ w.magic = x.magic /\ Ok(w) /\ SameRam(x, w)
          /\ w.lu = [x.lu EXCEPT ![p] = y[1]] /\ w.page = [x.page EXCEPT ![p] = y[2]]
      BY <1>2, <2>3 DEF Wrote
    <3>2. Holding(g, w, p, y)
      BY <2>1, <3>1 DEF Holding, Powered, State
    <3> QED
      BY <2>1, <3>1, <3>2 DEF Reached, SameRam
  <2> QED
    BY <2>2, <2>3
<1> QED
  BY <1>1, <1>2

LEMMA ReachedWritePage ==
    ASSUME NEW g, NEW x, NEW p \in Page, NEW cuts, NEW l, NEW z,
           Powered(g), Reached(g, x, p, cuts, <<l, z>>), NEW pg \in PageSet
    PROVE  Reached(g, WritePage(x, p, pg), p, cuts \cup {<<l, z>>},
                   <<l, ProgPage(z, pg)>>)
<1> DEFINE y == <<l, ProgPage(z, pg)>>
           w == WritePage(x, p, pg)
           page == [x.page EXCEPT ![p] = ProgPage(x.page[p], pg)]
<1>1. ~Ok(x) => w = x
  BY NoWrite DEF WritePage
<1>2. Ok(x) => Wrote(x, w, x.lu, page)
  BY WrotePage DEF Reached
<1>3. ASSUME Ok(x)
      PROVE  x.lu = [x.lu EXCEPT ![p] = y[1]] /\ page = [x.page EXCEPT ![p] = y[2]]
  <2>1. x.lu = [g.lu EXCEPT ![p] = l] /\ x.page = [g.page EXCEPT ![p] = z]
    BY <1>3 DEF Reached, Holding, Ok, PowerLost
  <2>2. x.lu[p] = l /\ x.page[p] = z /\ x.lu \in [Page -> Mark]
    BY <2>1 DEF Powered, State, Reached
  <2>3. x.lu = [x.lu EXCEPT ![p] = x.lu[p]]
    BY <2>2
  <2> QED
    BY <2>2, <2>3
<1> HIDE DEF y, w, page
<1>4. Reached(g, w, p, cuts \cup {<<l, z>>}, y)
  BY <1>1, <1>2, <1>3, ReachedWrite
<1> QED
  BY <1>4 DEF y, w

LEMMA ReachedWriteFlags ==
    ASSUME NEW g, NEW x, NEW p \in Page, NEW cuts, NEW l, NEW z,
           Powered(g), Reached(g, x, p, cuts, <<l, z>>), NEW flags \in SUBSET Flag
    PROVE  Reached(g, WriteFlags(x, p, flags), p, cuts \cup {<<l, z>>},
                   <<l, With(z, flags)>>)
<1> DEFINE y == <<l, With(z, flags)>>
           w == WriteFlags(x, p, flags)
           page == [x.page EXCEPT ![p] = With(x.page[p], flags)]
<1>1. ~Ok(x) => w = x
  BY NoWrite DEF WriteFlags
<1>2. Ok(x) => Wrote(x, w, x.lu, page)
  BY WroteFlags DEF Reached
<1>3. ASSUME Ok(x)
      PROVE  x.lu = [x.lu EXCEPT ![p] = y[1]] /\ page = [x.page EXCEPT ![p] = y[2]]
  <2>1. x.lu = [g.lu EXCEPT ![p] = l] /\ x.page = [g.page EXCEPT ![p] = z]
    BY <1>3 DEF Reached, Holding, Ok, PowerLost
  <2>2. x.lu[p] = l /\ x.page[p] = z /\ x.lu \in [Page -> Mark]
    BY <2>1 DEF Powered, State, Reached
  <2>3. x.lu = [x.lu EXCEPT ![p] = x.lu[p]]
    BY <2>2
  <2> QED
    BY <2>2, <2>3
<1> HIDE DEF y, w, page
<1>4. Reached(g, w, p, cuts \cup {<<l, z>>}, y)
  BY <1>1, <1>2, <1>3, ReachedWrite
<1> QED
  BY <1>4 DEF y, w

LEMMA ReachedEntry ==
    ASSUME NEW g, NEW x, NEW p \in Page, NEW cuts, NEW z,
           Powered(g), Reached(g, x, p, cuts, <<FREE, z>>), NEW l \in ObjId
    PROVE  Reached(g, CountAllocated(WriteLu(x, p, l)), p,
                   cuts \cup {<<FREE, z>>}, <<l, z>>)
<1> DEFINE y == <<l, z>>
           w == CountAllocated(WriteLu(x, p, l))
           lu == [x.lu EXCEPT ![p] = l]
<1>1. ~Ok(x) => w = x
  BY NoWrite DEF WriteLu, CountAllocated, Then
<1>2. ASSUME Ok(x)
      PROVE  x.lu[p] = FREE /\ x.page = [x.page EXCEPT ![p] = z]
  <2>1. x.lu = [g.lu EXCEPT ![p] = FREE] /\ x.page = [g.page EXCEPT ![p] = z]
    BY <1>2 DEF Reached, Holding, Ok, PowerLost
  <2>2. x.lu[p] = FREE /\ x.page[p] = z /\ x.page \in [Page -> PageSet]
    BY <2>1 DEF Powered, State, Reached
  <2>3. x.page = [x.page EXCEPT ![p] = x.page[p]]
    BY <2>2
  <2> QED
    BY <2>2, <2>3
<1>3. Ok(x) => Wrote(x, w, lu, x.page)
  BY <1>2, WroteEntry DEF Reached
<1>4. Ok(x) => lu = [x.lu EXCEPT ![p] = y[1]] /\ x.page = [x.page EXCEPT ![p] = y[2]]
  BY <1>2
<1> HIDE DEF y, w, lu
<1>5. Reached(g, w, p, cuts \cup {<<FREE, z>>}, y)
  BY <1>1, <1>3, <1>4, ReachedWrite
<1> QED
  BY <1>5 DEF y, w

\* The pages that are programmed: a header before its body, a new version
\* before it is final.
HeaderUsed(l)  == [Header(l) EXCEPT !.flags = {"INDEX"} \cup {"USED"}]
BodyPage(c)    == [Erased EXCEPT !.body = Body(c)]
NewPage(l, c)  == [Header(l) EXCEPT !.flags = {"INDEX", "USED", "FINAL"},
                                    !.body = Body(c)]
Unfinished(l, c) == [NewPage(l, c) EXCEPT
                        !.flags = ({"INDEX", "USED", "FINAL"} \ {"FINAL"}) \cup {"USED"}]

LEMMA ProgrammedType ==
    ASSUME NEW l \in ObjId, NEW c \in Contents
    PROVE  /\ HeaderUsed(l) \in PageSet /\ BodyPage(c) \in PageSet
           /\ NewPage(l, c) \in PageSet /\ Unfinished(l, c) \in PageSet
           /\ NewPage(l, c) # Erased /\ Body(c) # NoBody
           /\ Body(c) \in BodySet /\ NoBody \in BodySet
<1>1. Body(c) \in BodySet /\ NoBody \in BodySet
  BY DEF Body, BodySet
<1>2. DOMAIN Body(c) = {"data"} /\ DOMAIN NoBody = {}
  BY DEF Body, NoBody
<1>3. /\ {"INDEX", "USED", "FINAL"} \in SUBSET Flag
      /\ {"INDEX"} \cup {"USED"} \in SUBSET Flag /\ {} \in SUBSET Flag
      /\ ({"INDEX", "USED", "FINAL"} \ {"FINAL"}) \cup {"USED"} \in SUBSET Flag
  BY DEF Flag
<1>4. HeaderUsed(l) \in PageSet /\ BodyPage(c) \in PageSet
  BY <1>1, <1>3 DEF HeaderUsed, BodyPage, Header, Erased, PageSet
<1>5. NewPage(l, c) \in PageSet /\ Unfinished(l, c) \in PageSet
  BY <1>1, <1>3 DEF NewPage, Unfinished, Header, PageSet
<1>6. NewPage(l, c).flags # Erased.flags
  BY DEF NewPage, Header, Erased
<1> QED
  BY <1>1, <1>2, <1>4, <1>5, <1>6

\* spiffs_page_allocate_data on the page found.
Stage(old, l, c) == [head |-> ProgPage(old, HeaderUsed(l)),
                     body |-> ProgPage(ProgPage(old, HeaderUsed(l)), BodyPage(c))]

LEMMA AllocateReaches ==
    ASSUME NEW g, Powered(g), Ok(g), NEW p \in Page, g.found = p,
           g.lu[p] = FREE, NEW l \in ObjId, NEW c \in Contents
    PROVE  Reached(g, AllocateAt(g, Header(l), Body(c), TRUE), p,
                   {<<FREE, g.page[p]>>, <<l, g.page[p]>>,
                    <<l, Stage(g.page[p], l, c).head>>,
                    <<l, Stage(g.page[p], l, c).body>>},
                   <<l, With(Stage(g.page[p], l, c).body, {"FINAL"})>>)
<1> DEFINE old == g.page[p]
           P1 == ProgPage(old, HeaderUsed(l))
           P2 == ProgPage(P1, BodyPage(c))
           o == CountAllocated(WriteLu(g, p, l))
           h == WritePage(o, p, HeaderUsed(l))
           b == WritePage(h, p, BodyPage(c))
           w == WriteFlags(b, p, {"FINAL"})
<1>1. /\ HeaderUsed(l) \in PageSet /\ BodyPage(c) \in PageSet
      /\ Body(c) # NoBody /\ {"FINAL"} \in SUBSET Flag
  BY ProgrammedType DEF Flag
<1>2. Header(l).id = l /\ [Header(l) EXCEPT !.flags = @ \cup {"USED"}] = HeaderUsed(l)
  BY DEF Header, HeaderUsed
<1>3. AllocateAt(g, Header(l), Body(c), TRUE) = w
  BY <1>1, <1>2 DEF AllocateAt, BodyPage
<1>4. Reached(g, g, p, {}, <<FREE, old>>)
  BY ReachedStart
<1> HIDE DEF old
<1>5. Reached(g, o, p, {} \cup {<<FREE, old>>}, <<l, old>>)
  BY <1>4, ReachedEntry
<1> HIDE DEF o
<1>6. Reached(g, h, p, {} \cup {<<FREE, old>>} \cup {<<l, old>>}, <<l, P1>>)
  BY <1>1, <1>5, ReachedWritePage
<1> HIDE DEF h, P1
<1>7. Reached(g, b, p, {} \cup {<<FREE, old>>} \cup {<<l, old>>} \cup {<<l, P1>>},
              <<l, P2>>)
  BY <1>1, <1>6, ReachedWritePage
<1> HIDE DEF b, P2
<1>8. Reached(g, w, p, {} \cup {<<FREE, old>>} \cup {<<l, old>>} \cup {<<l, P1>>}
                          \cup {<<l, P2>>},
              <<l, With(P2, {"FINAL"})>>)
  BY <1>1, <1>7, ReachedWriteFlags
<1> HIDE DEF w
<1>9. {} \cup {<<FREE, old>>} \cup {<<l, old>>} \cup {<<l, P1>>} \cup {<<l, P2>>}
         = {<<FREE, old>>, <<l, old>>, <<l, P1>>, <<l, P2>>}
  OBVIOUS
<1>10. P1 = Stage(old, l, c).head /\ P2 = Stage(old, l, c).body
  BY DEF P1, P2, Stage
<1>11. Reached(g, w, p, {<<FREE, old>>, <<l, old>>, <<l, P1>>, <<l, P2>>},
               <<l, With(P2, {"FINAL"})>>)
  BY <1>8, <1>9
<1> QED
  BY <1>3, <1>10, <1>11 DEF old

\* A page is moved: its copy is written, and then the page deleted.
Moves(g, w, p, src, cuts, now) ==
    \E m : /\ Reached(g, m, p, cuts, now)
           /\ IF Ok(m) THEN Deleted(m, w, src) ELSE w = m

\* spiffs_page_move of a page as it is.
LEMMA CopyMoves ==
    ASSUME NEW g, Powered(g), Ok(g), NEW p \in Page, g.found = p,
           g.lu[p] = FREE, NEW l \in ObjId, NEW src \in Page
    PROVE  Moves(g, MoveTo(g, l, src, Erased), p, src,
                 {<<FREE, g.page[p]>>, <<FREE, ProgPage(g.page[p], g.page[src])>>},
                 <<l, ProgPage(g.page[p], g.page[src])>>)
<1> DEFINE old == g.page[p]
           X == ProgPage(old, g.page[src])
           a == WritePage(g, p, g.page[src])
           m == CountAllocated(WriteLu(a, p, l))
<1>1. g.page[src] \in PageSet
  BY DEF Powered, State
<1>2. MoveTo(g, l, src, Erased) = PageDelete(m, src)
  BY DEF MoveTo
<1>3. Reached(g, g, p, {}, <<FREE, old>>)
  BY ReachedStart
<1> HIDE DEF old
<1>4. Reached(g, a, p, {} \cup {<<FREE, old>>}, <<FREE, X>>)
  BY <1>1, <1>3, ReachedWritePage
<1> HIDE DEF a, X
<1>5. Reached(g, m, p, {} \cup {<<FREE, old>>} \cup {<<FREE, X>>}, <<l, X>>)
  BY <1>4, ReachedEntry
<1> HIDE DEF m
<1>6. {} \cup {<<FREE, old>>} \cup {<<FREE, X>>} = {<<FREE, old>>, <<FREE, X>>}
  OBVIOUS
<1>7. Reached(g, m, p, {<<FREE, old>>, <<FREE, X>>}, <<l, X>>)
  BY <1>5, <1>6
<1>8. CASE Ok(m)
  <2>1. Deleted(m, PageDelete(m, src), src)
    BY <1>7, <1>8, PageDeleted DEF Reached
  <2> QED
    BY <1>2, <1>7, <1>8, <2>1 DEF Moves, old, X
<1>9. CASE ~Ok(m)
  <2>1. PageDelete(m, src) = m
    BY <1>9, NoWrite DEF PageDelete, WriteLu, WriteFlags, Then
  <2> QED
    BY <1>2, <1>7, <1>9, <2>1 DEF Moves, old, X
<1> QED
  BY <1>8, <1>9

\* spiffs_page_move with a new version of the page.
LEMMA RewriteMoves ==
    ASSUME NEW g, Powered(g), Ok(g), NEW p \in Page, g.found = p,
           g.lu[p] = FREE, NEW l \in ObjId, NEW c \in Contents, NEW src \in Page
    PROVE  Moves(g, MoveTo(g, l, src, NewPage(l, c)), p, src,
                 {<<FREE, g.page[p]>>, <<FREE, ProgPage(g.page[p], Unfinished(l, c))>>,
                  <<l, ProgPage(g.page[p], Unfinished(l, c))>>},
                 <<l, With(ProgPage(g.page[p], Unfinished(l, c)),
                           {"INDEX", "USED", "FINAL"})>>)
<1> DEFINE old == g.page[p]
           X == ProgPage(old, Unfinished(l, c))
           a == WritePage(g, p, Unfinished(l, c))
           b == CountAllocated(WriteLu(a, p, l))
           F == {"INDEX", "USED", "FINAL"} \cup {"USED"}
           m == WriteFlags(b, p, F)
<1>1. /\ Unfinished(l, c) \in PageSet /\ NewPage(l, c) # Erased
      /\ F \in SUBSET Flag /\ F = {"INDEX", "USED", "FINAL"}
  BY ProgrammedType DEF Flag
<1>2. MoveTo(g, l, src, NewPage(l, c)) = PageDelete(m, src)
  <2>1. NewPage(l, c).flags = {"INDEX", "USED", "FINAL"}
    BY DEF NewPage, Header
  <2>2. [NewPage(l, c) EXCEPT !.flags = (@ \ {"FINAL"}) \cup {"USED"}] = Unfinished(l, c)
    BY DEF NewPage, Unfinished, Header
  <2> QED
    BY <1>1, <2>1, <2>2 DEF MoveTo
<1>3. Reached(g, g, p, {}, <<FREE, old>>)
  BY ReachedStart
<1> HIDE DEF old
<1>4. Reached(g, a, p, {} \cup {<<FREE, old>>}, <<FREE, X>>)
  BY <1>1, <1>3, ReachedWritePage
<1> HIDE DEF a, X
<1>5. Reached(g, b, p, {} \cup {<<FREE, old>>} \cup {<<FREE, X>>}, <<l, X>>)
  BY <1>4, ReachedEntry
<1> HIDE DEF b, F
<1>6. Reached(g, m, p, {} \cup {<<FREE, old>>} \cup {<<FREE, X>>} \cup {<<l, X>>},
              <<l, With(X, F)>>)
  BY <1>1, <1>5, ReachedWriteFlags
<1> HIDE DEF m
<1>7. {} \cup {<<FREE, old>>} \cup {<<FREE, X>>} \cup {<<l, X>>}
         = {<<FREE, old>>, <<FREE, X>>, <<l, X>>}
  OBVIOUS
<1>8. Reached(g, m, p, {<<FREE, old>>, <<FREE, X>>, <<l, X>>}, <<l, With(X, F)>>)
  BY <1>6, <1>7
<1>9. CASE Ok(m)
  <2>1. Deleted(m, PageDelete(m, src), src)
    BY <1>8, <1>9, PageDeleted DEF Reached
  <2> QED
    BY <1>1, <1>2, <1>8, <1>9, <2>1 DEF Moves, old, X
<1>10. CASE ~Ok(m)
  <2>1. PageDelete(m, src) = m
    BY <1>10, NoWrite DEF PageDelete, WriteLu, WriteFlags, Then
  <2> QED
    BY <1>1, <1>2, <1>8, <1>10, <2>1 DEF Moves, old, X
<1> QED
  BY <1>9, <1>10

----------------------------------------------------------------------------
(* The operations.                                                         *)

\* Page p of g is occupied for l, with any contents on the way.
Occupies(g, w, p, l) ==
    \E cuts, z : /\ Reached(g, w, p, cuts, <<l, z>>)
                 /\ \A y \in cuts : y[1] \in {FREE, l}

AllocateCuts(g, l, c) ==
    LET old == g.page[g.found]
    IN  {<<FREE, old>>, <<l, old>>, <<l, Stage(old, l, c).head>>,
         <<l, Stage(old, l, c).body>>}
AllocateNow(g, l, c) ==
    <<l, With(Stage(g.page[g.found], l, c).body, {"FINAL"})>>

\* spiffs_page_allocate_data.
Allocates(f, w, l, c) ==
    \E g : /\ Finds(f, g)
           /\ IF Ok(g) THEN Reached(g, w, g.found, AllocateCuts(g, l, c),
                                    AllocateNow(g, l, c))
              ELSE w = g

CopyOf(g, src) == ProgPage(g.page[g.found], g.page[src])

\* spiffs_page_move, of a page as it is.
Copies(f, w, l, src) ==
    \E g : /\ Finds(f, g)
           /\ IF Ok(g)
              THEN Moves(g, w, g.found, src,
                         {<<FREE, g.page[g.found]>>, <<FREE, CopyOf(g, src)>>},
                         <<l, CopyOf(g, src)>>)
              ELSE w = g

Started(g, l, c) == ProgPage(g.page[g.found], Unfinished(l, c))

\* spiffs_page_move, with a new version.
Rewrites(f, w, l, c, src) ==
    \E g : /\ Finds(f, g)
           /\ IF Ok(g)
              THEN Moves(g, w, g.found, src,
                         {<<FREE, g.page[g.found]>>, <<FREE, Started(g, l, c)>>,
                          <<l, Started(g, l, c)>>},
                         <<l, With(Started(g, l, c), {"INDEX", "USED", "FINAL"})>>)
              ELSE w = g

LEMMA FoundIsFree ==
    ASSUME NEW f, NEW g, Finds(f, g), Ok(g)
    PROVE  Powered(g) /\ g.found \in Page /\ g.lu[g.found] = FREE
BY DEF Finds, Taken

LEMMA AllocateRuns ==
    ASSUME NEW f, Powered(f), Ok(f), NEW l \in ObjId, NEW c \in Contents
    PROVE  Allocates(f, PageAllocateData(f, Header(l), Body(c), TRUE), l, c)
<1> DEFINE g == FindFree(f)
           w == AllocateAt(g, Header(l), Body(c), TRUE)
<1>1. Finds(f, g)
  BY FindFreeFinds
<1>2. PageAllocateData(f, Header(l), Body(c), TRUE) = w
  BY DEF PageAllocateData
<1> HIDE DEF g
<1>3. CASE Ok(g)
  <2>1. Reached(g, w, g.found, AllocateCuts(g, l, c), AllocateNow(g, l, c))
    BY <1>1, <1>3, FoundIsFree, AllocateReaches DEF AllocateCuts, AllocateNow
  <2> QED
    BY <1>1, <1>2, <1>3, <2>1 DEF Allocates
<1>4. CASE ~Ok(g)
  <2>1. w = g
    BY <1>4 DEF AllocateAt
  <2> QED
    BY <1>1, <1>2, <1>4, <2>1 DEF Allocates
<1> QED
  BY <1>3, <1>4

LEMMA CopyRuns ==
    ASSUME NEW f, Powered(f), Ok(f), NEW l \in ObjId, NEW src \in Page
    PROVE  Copies(f, PageMove(f, l, src, Erased), l, src)
<1> DEFINE g == FindFree(f)
           w == MoveTo(g, l, src, Erased)
<1>1. Finds(f, g)
  BY FindFreeFinds
<1>2. PageMove(f, l, src, Erased) = w
  BY DEF PageMove
<1> HIDE DEF g
<1>3. CASE Ok(g)
  <2>1. Moves(g, w, g.found, src,
              {<<FREE, g.page[g.found]>>, <<FREE, CopyOf(g, src)>>},
              <<l, CopyOf(g, src)>>)
    BY <1>1, <1>3, FoundIsFree, CopyMoves DEF CopyOf
  <2> QED
    BY <1>1, <1>2, <1>3, <2>1 DEF Copies
<1>4. CASE ~Ok(g)
  <2>1. w = g
    BY <1>4 DEF MoveTo
  <2> QED
    BY <1>1, <1>2, <1>4, <2>1 DEF Copies
<1> QED
  BY <1>3, <1>4

LEMMA RewriteRuns ==
    ASSUME NEW f, Powered(f), Ok(f), NEW l \in ObjId, NEW c \in Contents,
           NEW src \in Page
    PROVE  Rewrites(f, PageMove(f, l, src, NewPage(l, c)), l, c, src)
<1> DEFINE g == FindFree(f)
           w == MoveTo(g, l, src, NewPage(l, c))
<1>1. Finds(f, g)
  BY FindFreeFinds
<1>2. PageMove(f, l, src, NewPage(l, c)) = w
  BY DEF PageMove
<1> HIDE DEF g
<1>3. CASE Ok(g)
  <2>1. Moves(g, w, g.found, src,
              {<<FREE, g.page[g.found]>>, <<FREE, Started(g, l, c)>>,
               <<l, Started(g, l, c)>>},
              <<l, With(Started(g, l, c), {"INDEX", "USED", "FINAL"})>>)
    BY <1>1, <1>3, FoundIsFree, RewriteMoves DEF Started
  <2> QED
    BY <1>1, <1>2, <1>3, <2>1 DEF Rewrites
<1>4. CASE ~Ok(g)
  <2>1. w = g
    BY <1>4 DEF MoveTo
  <2> QED
    BY <1>1, <1>2, <1>4, <2>1 DEF Rewrites
<1> QED
  BY <1>3, <1>4

\* What the counters and the cursor are concerned with.
Adds(f, w, l) ==
    \E g : /\ Finds(f, g)
           /\ IF Ok(g) THEN Occupies(g, w, g.found, l) ELSE w = g

Relocates(f, w, l, src) ==
    \E g : /\ Finds(f, g)
           /\ IF Ok(g)
              THEN \E m : /\ Occupies(g, m, g.found, l)
                          /\ IF Ok(m) THEN Deleted(m, w, src) ELSE w = m
              ELSE w = g

LEMMA AllocateAdds ==
    ASSUME NEW f, NEW w, NEW l \in ObjId, NEW c, Allocates(f, w, l, c)
    PROVE  Adds(f, w, l)
<1>1. PICK g : /\ Finds(f, g)
               /\ IF Ok(g) THEN Reached(g, w, g.found, AllocateCuts(g, l, c),
                                        AllocateNow(g, l, c))
                  ELSE w = g
  BY DEF Allocates
<1>2. ASSUME Ok(g) PROVE Occupies(g, w, g.found, l)
  <2> DEFINE z == With(Stage(g.page[g.found], l, c).body, {"FINAL"})
             cuts == AllocateCuts(g, l, c)
  <2>1. Reached(g, w, g.found, cuts, <<l, z>>)
    BY <1>1, <1>2 DEF AllocateNow
  <2>2. \A y \in cuts : y[1] \in {FREE, l}
    BY DEF AllocateCuts
  <2> HIDE DEF z, cuts
  <2> QED
    BY <2>1, <2>2 DEF Occupies
<1> QED
  BY <1>1, <1>2 DEF Adds

LEMMA CopyRelocates ==
    ASSUME NEW f, NEW w, NEW l \in ObjId, NEW src, Copies(f, w, l, src)
    PROVE  Relocates(f, w, l, src)
<1>1. PICK g : /\ Finds(f, g)
               /\ IF Ok(g)
                  THEN Moves(g, w, g.found, src,
                             {<<FREE, g.page[g.found]>>, <<FREE, CopyOf(g, src)>>},
                             <<l, CopyOf(g, src)>>)
                  ELSE w = g
  BY DEF Copies
<1>2. CASE Ok(g)
  <2> DEFINE z == CopyOf(g, src)
             cuts == {<<FREE, g.page[g.found]>>, <<FREE, z>>}
  <2>1. \A y \in cuts : y[1] \in {FREE, l}
    OBVIOUS
  <2>2. Moves(g, w, g.found, src, cuts, <<l, z>>)
    BY <1>1, <1>2
  <2> HIDE DEF cuts, z
  <2>3. PICK m : /\ Reached(g, m, g.found, cuts, <<l, z>>)
                 /\ IF Ok(m) THEN Deleted(m, w, src) ELSE w = m
    BY <2>2 DEF Moves
  <2>4. Occupies(g, m, g.found, l)
    BY <2>1, <2>3 DEF Occupies
  <2> QED
    BY <1>1, <1>2, <2>3, <2>4 DEF Relocates
<1>3. CASE ~Ok(g)
  BY <1>1, <1>3 DEF Relocates
<1> QED
  BY <1>2, <1>3

LEMMA RewriteRelocates ==
    ASSUME NEW f, NEW w, NEW l \in ObjId, NEW c, NEW src, Rewrites(f, w, l, c, src)
    PROVE  Relocates(f, w, l, src)
<1>1. PICK g : /\ Finds(f, g)
               /\ IF Ok(g)
                  THEN Moves(g, w, g.found, src,
                         {<<FREE, g.page[g.found]>>, <<FREE, Started(g, l, c)>>,
                          <<l, Started(g, l, c)>>},
                         <<l, With(Started(g, l, c), {"INDEX", "USED", "FINAL"})>>)
                  ELSE w = g
  BY DEF Rewrites
<1>2. CASE Ok(g)
  <2> DEFINE z == With(Started(g, l, c), {"INDEX", "USED", "FINAL"})
             cuts == {<<FREE, g.page[g.found]>>, <<FREE, Started(g, l, c)>>,
                      <<l, Started(g, l, c)>>}
  <2>1. \A y \in cuts : y[1] \in {FREE, l}
    OBVIOUS
  <2>2. Moves(g, w, g.found, src, cuts, <<l, z>>)
    BY <1>1, <1>2
  <2> HIDE DEF cuts, z
  <2>3. PICK m : /\ Reached(g, m, g.found, cuts, <<l, z>>)
                 /\ IF Ok(m) THEN Deleted(m, w, src) ELSE w = m
    BY <2>2 DEF Moves
  <2>4. Occupies(g, m, g.found, l)
    BY <2>1, <2>3 DEF Occupies
  <2> QED
    BY <1>1, <1>2, <2>3, <2>4 DEF Relocates
<1>3. CASE ~Ok(g)
  BY <1>1, <1>3 DEF Relocates
<1> QED
  BY <1>2, <1>3

\* Occupying a page, in one piece.
LEMMA OccupiesIs ==
    ASSUME NEW g, Powered(g), NEW w, NEW p \in Page, g.lu[p] = FREE,
           NEW l, Occupies(g, w, p, l)
    PROVE  /\ Powered(w) /\ w.magic = g.magic
           /\ \A q \in Page \ {p} : w.lu[q] = g.lu[q] /\ w.page[q] = g.page[q]
           /\ \/ PowerLost(w) /\ w.lu[p] \in {FREE, l}
              \/ Ok(w) /\ SameRam(g, w) /\ w.lu[p] = l
<1>1. PICK cuts, z : /\ Reached(g, w, p, cuts, <<l, z>>)
                     /\ \A y \in cuts : y[1] \in {FREE, l}
  BY DEF Occupies
<1>2. g.lu \in [Page -> Mark] /\ g.page \in [Page -> PageSet]
  BY DEF Powered, State
<1>3. CASE Ok(w) /\ SameRam(g, w) /\ Holding(g, w, p, <<l, z>>)
  BY <1>1, <1>2, <1>3 DEF Reached, Holding
<1>4. ASSUME PowerLost(w), NEW y \in cuts, Holding(g, w, p, y)
      PROVE  /\ w.lu[p] \in {FREE, l}
             /\ \A q \in Page \ {p} : w.lu[q] = g.lu[q] /\ w.page[q] = g.page[q]
  BY <1>1, <1>2, <1>4 DEF Holding
<1> QED
  BY <1>1, <1>3, <1>4 DEF Reached

----------------------------------------------------------------------------
(* How an action starts and ends.                                          *)

LEMMA ArmedKeeps ==
    ASSUME Faults \subseteq {"power"}, fs \in State, fs.res = "OK",
           NEW k \in Faults \cup {"none"}, NEW n \in 0 .. MaxWrites
    PROVE  /\ Powered(Armed(k, n)) /\ Ok(Armed(k, n)) /\ SameRam(fs, Armed(k, n))
           /\ Armed(k, n).lu = fs.lu /\ Armed(k, n).page = fs.page
           /\ Armed(k, n).magic = fs.magic
<1>1. k \in {"none", "power"} /\ n \in Nat
  BY BoundAssumption
<1> QED
  BY <1>1 DEF Armed, State, Powered, Ok, SameRam

\* What is left of f at rest: its chip, and its RAM unless power was lost.
Leaves(f) ==
    /\ fs'.lu = f.lu /\ fs'.page = f.page /\ fs'.magic = f.magic
    /\ \/ /\ mounted' = "no" /\ fs'.free_cursor = <<0, 0>> /\ gc' = Idle
       \/ /\ ~PowerLost(f) /\ mounted' = mounted
          /\ fs'.free_cursor = f.free_cursor /\ fs'.free_blocks = f.free_blocks

LEMMA AtRestKeeps ==
    ASSUME NEW f \in State
    PROVE  LET r == AtRest(f)
               s == NoRam(r)
               t == [r EXCEPT !.cleaning = FALSE]
           IN  /\ r.lu = f.lu /\ r.page = f.page /\ r.magic = f.magic
               /\ r.free_cursor = f.free_cursor /\ r.free_blocks = f.free_blocks
               /\ r.cleaning = f.cleaning
               /\ t.lu = f.lu /\ t.page = f.page /\ t.magic = f.magic
               /\ t.free_cursor = f.free_cursor /\ t.free_blocks = f.free_blocks
               /\ t.cleaning = FALSE
               /\ s.lu = f.lu /\ s.page = f.page /\ s.magic = f.magic
               /\ s.free_cursor = <<0, 0>>
BY DEF AtRest, NoRam, State

LEMMA FinishKeeps ==
    ASSUME NEW f \in State, Finish(f)
    PROVE  Leaves(f) /\ (gc' = gc \/ gc' = Idle)
BY AtRestKeeps DEF Finish, Leaves

\* A cleaning goes on only after an operation that succeeded.
LEMMA FinishCleanKeeps ==
    ASSUME NEW f \in State, NEW o, FinishClean(f, o)
    PROVE  /\ Leaves(f)
           /\ \/ gc' = Idle
              \/ /\ f.res = "OK" /\ gc' = [gc EXCEPT !.owed = o]
                 /\ fs'.cleaning = f.cleaning
<1>1. CASE PowerLost(f)
  <2>1. f.res # "OK"
    BY <1>1 DEF PowerLost
  <2> QED
    BY <1>1, <2>1, AtRestKeeps DEF FinishClean, Leaves
<1>2. CASE ~PowerLost(f) /\ f.res # "OK"
  BY <1>2, AtRestKeeps DEF FinishClean, Leaves
<1>3. CASE f.res = "OK"
  <2>1. ~PowerLost(f)
    BY <1>3 DEF PowerLost
  <2> QED
    BY <1>3, <2>1, AtRestKeeps DEF FinishClean, Leaves
<1> QED
  BY <1>1, <1>2, <1>3

\* The scan of the lookups, which erases the block without magic.
Scans(f, w) ==
    /\ Powered(w)
    /\ \/ w.lu = f.lu /\ w.page = f.page /\ w.magic = f.magic
       \/ \E b \in Block : /\ ~f.magic[b]
                           /\ w.lu = BlankLu(f, b) /\ w.page = BlankPage(f, b)
                           /\ \A d \in Block \ {b} : w.magic[d] = f.magic[d]
    /\ Ok(w) => /\ \A b \in Block : w.magic[b]
                /\ w.free_blocks = Cardinality(FreeBlocks(w))
                /\ w.free_cursor = f.free_cursor

\* The counting that ends the scan.
LEMMA CountingKeeps ==
    ASSUME NEW e, Powered(e), NEW w, w = CountPages(e)
    PROVE  /\ Powered(w) /\ w.res = e.res /\ w.lu = e.lu /\ w.page = e.page
           /\ w.magic = e.magic /\ w.free_cursor = e.free_cursor
           /\ Ok(w) => w.free_blocks = Cardinality(FreeBlocks(w))
<1>1. CASE ~Ok(e)
  BY <1>1 DEF CountPages, Then
<1>2. CASE Ok(e)
  <2> DEFINE n == Cardinality(FreeBlocks(e))
             a == Cardinality(BusyPages(e))
             d == Cardinality(DeletedPages(e))
  <2>1. w = [e EXCEPT !.free_blocks = n, !.stats_p_allocated = a, !.stats_p_deleted = d]
    BY <1>2 DEF CountPages, Then
  <2>2. n \in Int /\ a \in Int /\ d \in Int
    <3>1. FreeBlocks(e) \in SUBSET Block
      BY DEF FreeBlocks
    <3>2. n \in Nat
      BY <3>1, PageIsFinite, FS_Subset, FS_CardinalityType
    <3> QED
      BY <3>2, CountedIsFinite
  <2> HIDE DEF n, a, d
  <2>3. /\ w \in State /\ w.res = e.res /\ w.fault = e.fault /\ w.lu = e.lu
        /\ w.page = e.page /\ w.magic = e.magic /\ w.free_cursor = e.free_cursor
        /\ w.free_blocks = n
    <3>1. e \in State
      BY DEF Powered
    <3>2. w \in State
      BY <2>1, <2>2, <3>1 DEF State
    <3>3. /\ w.res = e.res /\ w.fault = e.fault /\ w.lu = e.lu
          /\ w.page = e.page /\ w.magic = e.magic /\ w.free_cursor = e.free_cursor
          /\ w.free_blocks = n
      BY <2>1, <3>1 DEF State
    <3> QED BY <3>2, <3>3
  <2>4. FreeBlocks(w) = FreeBlocks(e)
    BY <2>3 DEF FreeBlocks
  <2> QED
    BY <2>3, <2>4 DEF Powered, n
<1> QED
  BY <1>1, <1>2

LEMMA ObjLuScans ==
    ASSUME NEW f, Powered(f), Ok(f), NEW w, w = ObjLuScan(f)
    PROVE  Scans(f, w)
<1> DEFINE c == [f EXCEPT !.max_erase_count = ScannedEraseCount(f)]
           b == Least(BadMagic(f))
           e == EraseBlock(c, b)
<1>1. BadMagic(f) \in SUBSET Block /\ BadMagic(f) \in SUBSET Nat /\ IsFiniteSet(BadMagic(f))
  <2>1. BadMagic(f) \in SUBSET Block
    BY DEF BadMagic
  <2>2. IsFiniteSet(BadMagic(f))
    BY <2>1, PageIsFinite, FS_Subset
  <2> QED
    BY <2>1, <2>2 DEF Block
<1>2. /\ Powered(c) /\ Ok(c) /\ c.lu = f.lu /\ c.page = f.page
      /\ c.magic = f.magic /\ SameRam(f, c)
  BY ScannedEraseCountType DEF Powered, Ok, State, SameRam
<1> HIDE DEF c
<1>3. CASE Cardinality(BadMagic(f)) > 1
  <2>1. w = [f EXCEPT !.res = "NOT_A_FS"]
    BY <1>3 DEF ObjLuScan, Fail
  <2> QED
    BY <2>1 DEF Scans, Powered, State, Ok
<1>4. CASE ~(Cardinality(BadMagic(f)) > 1) /\ BadMagic(f) = {}
  <2>1. w = CountPages(c)
    BY <1>4 DEF ObjLuScan, c
  <2>2. /\ Powered(w) /\ w.res = c.res /\ w.lu = c.lu /\ w.page = c.page
        /\ w.magic = c.magic /\ w.free_cursor = c.free_cursor
        /\ Ok(w) => w.free_blocks = Cardinality(FreeBlocks(w))
    BY <1>2, <2>1, CountingKeeps
  <2>3. \A d \in Block : f.magic[d]
    BY <1>4 DEF BadMagic
  <2> QED
    BY <1>2, <2>2, <2>3 DEF Scans, SameRam
<1>5. CASE ~(Cardinality(BadMagic(f)) > 1) /\ BadMagic(f) # {}
  <2>1. w = CountPages(e)
    BY <1>5 DEF ObjLuScan, c
  <2>2. b \in BadMagic(f)
    BY <1>1, <1>5, LeastInSet
  <2>3. b \in Block /\ ~f.magic[b]
    BY <2>2 DEF BadMagic
  <2>4. \A d \in Block \ {b} : f.magic[d]
    <3>1. Cardinality(BadMagic(f)) = 1
      <4>1. Cardinality(BadMagic(f)) \in Nat
        BY <1>1, FS_CardinalityType
      <4>2. Cardinality(BadMagic(f)) # 0
        BY <1>1, <1>5, FS_EmptySet
      <4> QED
        BY <1>5, <4>1, <4>2
    <3>2. PICK x : BadMagic(f) = {x}
      BY <1>1, <3>1, FS_Singleton
    <3> QED
      BY <2>2, <3>2 DEF BadMagic
  <2> HIDE DEF b
  <2>5. \/ Ok(e) /\ Wiped(f, e, b)
        \/ PowerLost(e) /\ (Rests(f, e) \/ Wiped(f, e, b))
    BY <1>2, <2>3, EraseWipes
  <2> HIDE DEF e
  <2>6. Powered(e)
    BY <2>5 DEF Rests, Wiped, Emptied
  <2>7. /\ Powered(w) /\ w.res = e.res /\ w.lu = e.lu /\ w.page = e.page
        /\ w.magic = e.magic /\ w.free_cursor = e.free_cursor
        /\ Ok(w) => w.free_blocks = Cardinality(FreeBlocks(w))
    BY <2>1, <2>6, CountingKeeps
  <2>8. \/ w.lu = f.lu /\ w.page = f.page /\ w.magic = f.magic
        \/ /\ w.lu = BlankLu(f, b) /\ w.page = BlankPage(f, b)
           /\ \A d \in Block \ {b} : w.magic[d] = f.magic[d]
    BY <2>5, <2>7 DEF Rests, Wiped, Emptied
  <2>9. ASSUME Ok(w)
        PROVE  /\ \A d \in Block : w.magic[d]
               /\ w.free_cursor = f.free_cursor
    <3>1. Ok(e) /\ ~PowerLost(e)
      BY <2>7, <2>9 DEF Ok, PowerLost
    <3>2. Wiped(f, e, b)
      BY <2>5, <3>1
    <3> QED
      BY <2>4, <2>7, <3>1, <3>2 DEF Wiped, Emptied
  <2> QED
    BY <2>3, <2>7, <2>8, <2>9 DEF Scans
<1> QED
  BY <1>3, <1>4, <1>5

----------------------------------------------------------------------------
(* No free block is missed.                                                *)

\* free_blocks does not count too few blocks.
Counted(f) == f.free_blocks >= Cardinality(FreeBlocks(f))

\* So it is while page p is taken and not yet marked.
CountedBut(g, p) ==
    g.free_blocks >= Cardinality(FreeBlocks(g) \ (IF p[2] = 0 THEN {p[1]} ELSE {}))

CountedOrLost(w) == PowerLost(w) \/ Counted(w)

LEMMA FreeBlocksFinite ==
    ASSUME NEW f
    PROVE  /\ FreeBlocks(f) \in SUBSET Block /\ IsFiniteSet(FreeBlocks(f))
           /\ Cardinality(FreeBlocks(f)) \in Nat
<1>1. FreeBlocks(f) \in SUBSET Block
  BY DEF FreeBlocks
<1>2. IsFiniteSet(FreeBlocks(f))
  BY <1>1, PageIsFinite, FS_Subset
<1> QED
  BY <1>1, <1>2, FS_CardinalityType

LEMMA FreeBlocksAlike ==
    ASSUME NEW f, NEW w, w.lu = f.lu
    PROVE  FreeBlocks(w) = FreeBlocks(f)
BY DEF FreeBlocks

\* Fewer free blocks are counted as well.
LEMMA CountedFewer ==
    ASSUME NEW f, f.free_blocks \in Int, Counted(f), NEW w,
           FreeBlocks(w) \subseteq FreeBlocks(f), w.free_blocks = f.free_blocks
    PROVE  Counted(w)
<1>1. Cardinality(FreeBlocks(w)) <= Cardinality(FreeBlocks(f))
  BY FreeBlocksFinite, FS_Subset
<1>2. Cardinality(FreeBlocks(w)) \in Nat /\ Cardinality(FreeBlocks(f)) \in Nat
  BY FreeBlocksFinite
<1> QED
  BY <1>1, <1>2 DEF Counted

LEMMA WipedCounted ==
    ASSUME NEW f \in State, Counted(f), NEW b \in Block, NEW w, Wiped(f, w, b)
    PROVE  CountedOrLost(w)
<1> SUFFICES ASSUME ~PowerLost(w) PROVE Counted(w)
  BY DEF CountedOrLost
<1>1. w.free_blocks = f.free_blocks + 1 /\ w.lu = BlankLu(f, b)
  BY DEF Wiped, Emptied
<1>2. FreeBlocks(w) \subseteq FreeBlocks(f) \cup {b}
  <2>1. \A d \in Block : <<d, 0>> \in Page /\ <<d, 0>>[1] = d
    BY GeometryAssumption DEF Page, Entry
  <2> QED
    BY <1>1, <2>1 DEF FreeBlocks, BlankLu
<1>3. /\ IsFiniteSet(FreeBlocks(f) \cup {b})
      /\ Cardinality(FreeBlocks(f) \cup {b}) \in
            {Cardinality(FreeBlocks(f)), Cardinality(FreeBlocks(f)) + 1}
  BY FreeBlocksFinite, FS_AddElement
<1>4. Cardinality(FreeBlocks(w)) <= Cardinality(FreeBlocks(f) \cup {b})
  BY <1>2, <1>3, FS_Subset
<1>5. /\ Cardinality(FreeBlocks(f)) \in Nat /\ Cardinality(FreeBlocks(w)) \in Nat
      /\ f.free_blocks \in Int
  BY FreeBlocksFinite DEF State
<1> QED
  BY <1>1, <1>3, <1>4, <1>5 DEF Counted

LEMMA RestsCounted ==
    ASSUME NEW f, Counted(f), NEW w, Rests(f, w)
    PROVE  CountedOrLost(w)
BY FreeBlocksAlike DEF Rests, SameRam, CountedOrLost, Counted

LEMMA ClearsCounted ==
    ASSUME NEW f \in State, Counted(f), NEW r, NEW max, Clears(f, r, max)
    PROVE  CountedOrLost(r)
BY RestsCounted, WipedCounted DEF Clears

\* The block of an entry that is taken is no longer counted.
LEMMA TakenCounted ==
    ASSUME NEW r, r.free_blocks \in Int, Counted(r), NEW g, NEW p, Taken(r, g, p)
    PROVE  CountedBut(g, p)
<1>1. FreeBlocks(g) = FreeBlocks(r)
  BY FreeBlocksAlike DEF Taken
<1>2. Cardinality(FreeBlocks(r)) \in Nat /\ IsFiniteSet(FreeBlocks(r))
  BY FreeBlocksFinite
<1>3. CASE p[2] = 0
  <2>1. p = <<p[1], 0>> /\ p[1] \in Block /\ r.lu[p] = FREE
    BY <1>3 DEF Taken, Page
  <2>2. p[1] \in FreeBlocks(r)
    BY <2>1 DEF FreeBlocks, IsFree
  <2>3. Cardinality(FreeBlocks(r) \ {p[1]}) = Cardinality(FreeBlocks(r)) - 1
    BY <1>2, <2>2, FS_RemoveElement
  <2> QED
    BY <1>1, <1>2, <1>3, <2>3 DEF CountedBut, Counted, Taken
<1>4. CASE p[2] # 0
  <2>1. FreeBlocks(r) \ {} = FreeBlocks(r)
    OBVIOUS
  <2> QED
    BY <1>1, <1>2, <1>4, <2>1 DEF CountedBut, Counted, Taken
<1> QED
  BY <1>3, <1>4

LEMMA OccupiesCounted ==
    ASSUME NEW g, Powered(g), NEW p \in Page, g.lu[p] = FREE, CountedBut(g, p),
           NEW w, NEW l \in ObjId, Occupies(g, w, p, l)
    PROVE  CountedOrLost(w)
<1> SUFFICES ASSUME ~PowerLost(w) PROVE Counted(w)
  BY DEF CountedOrLost
<1>1. /\ \A q \in Page \ {p} : w.lu[q] = g.lu[q]
      /\ w.lu[p] = l /\ w.free_blocks = g.free_blocks
  BY OccupiesIs DEF SameRam
<1> DEFINE X == IF p[2] = 0 THEN {p[1]} ELSE {}
<1>2. FreeBlocks(w) \subseteq FreeBlocks(g) \ X
  <2> SUFFICES ASSUME NEW d \in Block, w.lu[<<d, 0>>] = FREE
               PROVE  g.lu[<<d, 0>>] = FREE /\ d \notin X
    BY DEF FreeBlocks, IsFree
  <2>1. <<d, 0>> \in Page
    BY GeometryAssumption DEF Page, Entry
  <2>2. <<d, 0>> # p
    BY <1>1, IdAssumption
  <2>3. p = <<p[1], p[2]>>
    BY DEF Page
  <2> QED
    BY <1>1, <2>1, <2>2, <2>3
<1> HIDE DEF X
<1>3. IsFiniteSet(FreeBlocks(g) \ X)
  BY FreeBlocksFinite, FS_Subset
<1>4. Cardinality(FreeBlocks(w)) <= Cardinality(FreeBlocks(g) \ X)
  BY <1>2, <1>3, FS_Subset
<1>5. /\ Cardinality(FreeBlocks(g) \ X) \in Nat /\ Cardinality(FreeBlocks(w)) \in Nat
      /\ g.free_blocks \in Int
  BY <1>3, FreeBlocksFinite, FS_CardinalityType DEF Powered, State
<1> QED
  BY <1>1, <1>4, <1>5 DEF Counted, CountedBut, X

LEMMA DeletedCounted ==
    ASSUME NEW f, Powered(f), Counted(f), NEW w, NEW q \in Page, Deleted(f, w, q)
    PROVE  CountedOrLost(w)
<1> SUFFICES ASSUME ~PowerLost(w) PROVE Counted(w)
  BY DEF CountedOrLost
<1>1. w.lu = [f.lu EXCEPT ![q] = DELETED] /\ w.free_blocks = f.free_blocks
  BY DEF Deleted, SameRam
<1>2. f.lu \in [Page -> Mark] /\ f.free_blocks \in Int
  BY DEF Powered, State
<1>3. FreeBlocks(w) \subseteq FreeBlocks(f)
  <2>1. \A d \in Block : <<d, 0>> \in Page
    BY GeometryAssumption DEF Page, Entry
  <2> QED
    BY <1>1, <1>2, <2>1, MarkAssumption DEF FreeBlocks, IsFree
<1> QED
  BY <1>1, <1>2, <1>3, CountedFewer

\* spiffs_obj_lu_find_free counts the block it takes.
LEMMA FindsCounted ==
    ASSUME NEW f \in State, Counted(f), NEW g, Finds(f, g)
    PROVE  /\ ~Ok(g) => CountedOrLost(g)
           /\ Ok(g) => Powered(g) /\ g.found \in Page /\ g.lu[g.found] = FREE
                       /\ CountedBut(g, g.found)
<1>1. PICK r : /\ Clears(f, r, 0)
               /\ \/ ~Ok(g) /\ Rests(r, g)
                  \/ Ok(r) /\ Taken(r, g, g.found)
  BY DEF Finds
<1>2. CountedOrLost(r)
  BY <1>1, ClearsCounted
<1>3. r \in State
  BY <1>1 DEF Clears, Rests, Wiped, Emptied, Powered
<1>4. CASE ~Ok(g) /\ Rests(r, g)
  <2>1. CASE PowerLost(g)
    BY <1>4, <2>1 DEF CountedOrLost
  <2>2. CASE PowerLost(r) /\ ~PowerLost(g)
    BY <1>4, <2>2 DEF Rests
  <2>3. CASE Counted(r)
    BY <1>4, <2>3, RestsCounted
  <2> QED
    BY <1>2, <2>1, <2>2, <2>3 DEF CountedOrLost
<1>5. CASE Ok(r) /\ Taken(r, g, g.found)
  <2>1. Counted(r) /\ r.free_blocks \in Int
    BY <1>2, <1>3, <1>5 DEF CountedOrLost, Ok, PowerLost, State
  <2>2. CountedBut(g, g.found)
    BY <1>5, <2>1, TakenCounted
  <2> QED
    BY <1>5, <2>2 DEF Taken
<1> QED
  BY <1>1, <1>4, <1>5

\* They leave a state.
LEMMA FindsState ==
    ASSUME NEW f, NEW g, Finds(f, g)
    PROVE  Powered(g)
BY DEF Finds, Taken, Rests

LEMMA AddsState ==
    ASSUME NEW f, NEW w, NEW l, Adds(f, w, l)
    PROVE  w \in State
BY FindsState DEF Adds, Occupies, Reached, Powered

LEMMA RelocatesState ==
    ASSUME NEW f, NEW w, NEW l, NEW src, Relocates(f, w, l, src)
    PROVE  w \in State
BY FindsState DEF Relocates, Occupies, Reached, Deleted, Powered

\* Adding and moving a page count the block that is begun.
LEMMA AddsCounted ==
    ASSUME NEW f \in State, Counted(f), NEW w, NEW l \in ObjId, Adds(f, w, l)
    PROVE  CountedOrLost(w)
<1>1. PICK g : /\ Finds(f, g)
               /\ IF Ok(g) THEN Occupies(g, w, g.found, l) ELSE w = g
  BY DEF Adds
<1>2. CASE Ok(g)
  <2> DEFINE p == g.found
  <2>1. Powered(g) /\ p \in Page /\ g.lu[p] = FREE /\ CountedBut(g, p)
    BY <1>1, <1>2, FindsCounted
  <2>2. Occupies(g, w, p, l)
    BY <1>1, <1>2
  <2> HIDE DEF p
  <2> QED
    BY <2>1, <2>2, OccupiesCounted
<1>3. CASE ~Ok(g)
  BY <1>1, <1>3, FindsCounted
<1> QED
  BY <1>2, <1>3

LEMMA RelocatesCounted ==
    ASSUME NEW f \in State, Counted(f), NEW w, NEW l \in ObjId, NEW src \in Page,
           Relocates(f, w, l, src)
    PROVE  CountedOrLost(w)
<1>1. PICK g : /\ Finds(f, g)
               /\ IF Ok(g)
                  THEN \E m : /\ Occupies(g, m, g.found, l)
                              /\ IF Ok(m) THEN Deleted(m, w, src) ELSE w = m
                  ELSE w = g
  BY DEF Relocates
<1>2. CASE Ok(g)
  <2> DEFINE p == g.found
  <2>1. Powered(g) /\ p \in Page /\ g.lu[p] = FREE /\ CountedBut(g, p)
    BY <1>1, <1>2, FindsCounted
  <2>2. PICK m : /\ Occupies(g, m, p, l)
                 /\ IF Ok(m) THEN Deleted(m, w, src) ELSE w = m
    BY <1>1, <1>2
  <2> HIDE DEF p
  <2>3. CountedOrLost(m) /\ Powered(m)
    BY <2>1, <2>2, OccupiesCounted, OccupiesIs
  <2>4. CASE Ok(m)
    <3>1. Counted(m)
      BY <2>3, <2>4 DEF CountedOrLost, Ok, PowerLost
    <3> QED
      BY <2>2, <2>3, <2>4, <3>1, DeletedCounted
  <2>5. CASE ~Ok(m)
    BY <2>2, <2>3, <2>5
  <2> QED
    BY <2>4, <2>5
<1>3. CASE ~Ok(g)
  BY <1>1, <1>3, FindsCounted
<1> QED
  BY <1>2, <1>3

\* What the end of an action makes of it.
CountedInv == mounted = "yes" => Counted(fs)

LEMMA LeavesCounted ==
    ASSUME NEW f, CountedOrLost(f), Leaves(f)
    PROVE  CountedInv'
<1> SUFFICES ASSUME mounted' = "yes" PROVE Counted(fs')
  BY DEF CountedInv
<1>1. fs'.free_blocks = f.free_blocks /\ fs'.lu = f.lu /\ Counted(f)
  BY DEF Leaves, CountedOrLost
<1>2. FreeBlocks(fs') = FreeBlocks(f)
  BY <1>1, FreeBlocksAlike
<1> QED
  BY <1>1, <1>2 DEF Counted

\* An operation starts with the blocks counted.
LEMMA ArmedCounted ==
    ASSUME Faults \subseteq {"power"}, IInv, CountedInv, mounted = "yes",
           NEW k \in Faults \cup {"none"}, NEW n \in 0 .. MaxWrites,
           NEW a, a = Armed(k, n)
    PROVE  /\ Powered(a) /\ Ok(a) /\ a \in State /\ Counted(a)
           /\ a.lu = fs.lu /\ a.free_blocks = fs.free_blocks
<1>1. fs \in State /\ fs.res = "OK" /\ Counted(fs)
  BY DEF IInv, TypeOK, CountedInv
<1>2. Powered(a) /\ Ok(a) /\ SameRam(fs, a) /\ a.lu = fs.lu
  BY <1>1, ArmedKeeps
<1>3. FreeBlocks(a) = FreeBlocks(fs)
  BY <1>2, FreeBlocksAlike
<1> QED
  BY <1>1, <1>2, <1>3 DEF Powered, SameRam, Counted

LEMMA CountedAllocate ==
    ASSUME Faults \subseteq {"power"}, IInv, CountedInv,
           NEW k \in Faults \cup {"none"}, NEW n \in 0 .. MaxWrites,
           NEW l \in ObjId, NEW c \in Contents, Allocate(l, c, k, n)
    PROVE  CountedInv'
<1> DEFINE a == Armed(k, n)
           f == PageAllocateData(a, Header(l), Body(c), TRUE)
<1>1. Finish(f) /\ mounted = "yes"
  BY DEF Allocate, Ready
<1>2. Powered(a) /\ Ok(a) /\ a \in State /\ Counted(a)
  BY <1>1, ArmedCounted
<1> HIDE DEF a
<1>3. Adds(a, f, l)
  BY <1>2, AllocateRuns, AllocateAdds
<1> HIDE DEF f
<1>4. CountedOrLost(f)
  BY <1>2, <1>3, AddsCounted
<1>5. f \in State
  BY <1>2, <1>3, AddsState
<1> QED
  BY <1>1, <1>4, <1>5, FinishKeeps, LeavesCounted

LEMMA CountedRewrite ==
    ASSUME Faults \subseteq {"power"}, IInv, CountedInv,
           NEW k \in Faults \cup {"none"}, NEW n \in 0 .. MaxWrites,
           NEW l \in ObjId, NEW c \in Contents,
           Rewrite(l, c, k, n) \/ GcStoreIndex(l, c, k, n)
    PROVE  CountedInv'
<1> DEFINE a == Armed(k, n)
           src == ref[l]
           f == PageMove(a, l, src, NewPage(l, c))
<1>1. /\ Finish(f) \/ FinishClean(f, FALSE)
      /\ mounted = "yes" /\ src \in Page
  BY DEF Rewrite, GcStoreIndex, Ready, Cleaning, Live, IInv, TypeOK, NewPage
<1>2. Powered(a) /\ Ok(a) /\ a \in State /\ Counted(a)
  BY <1>1, ArmedCounted
<1> HIDE DEF a, src
<1>3. Relocates(a, f, l, src)
  BY <1>1, <1>2, RewriteRuns, RewriteRelocates
<1> HIDE DEF f
<1>4. CountedOrLost(f)
  BY <1>1, <1>2, <1>3, RelocatesCounted
<1>5. f \in State
  BY <1>1, <1>2, <1>3, RelocatesState
<1>6. Leaves(f)
  BY <1>1, <1>5, FinishKeeps, FinishCleanKeeps
<1> QED
  BY <1>4, <1>6, LeavesCounted

LEMMA CountedGcEvacuate ==
    ASSUME Faults \subseteq {"power"}, IInv, CountedInv,
           NEW k \in Faults \cup {"none"}, NEW n \in 0 .. MaxWrites,
           NEW p \in Page, GcEvacuate(p, k, n)
    PROVE  CountedInv'
<1> DEFINE a == Armed(k, n)
           l == fs.lu[p]
           f == PageMove(a, l, p, Erased)
<1>1. FinishClean(f, TRUE) /\ mounted = "yes" /\ l \in ObjId
  BY DEF GcEvacuate, Cleaning, Live
<1>2. Powered(a) /\ Ok(a) /\ a \in State /\ Counted(a)
  BY <1>1, ArmedCounted
<1> HIDE DEF a, l
<1>3. Relocates(a, f, l, p)
  BY <1>1, <1>2, CopyRuns, CopyRelocates
<1> HIDE DEF f
<1>4. CountedOrLost(f)
  BY <1>1, <1>2, <1>3, RelocatesCounted
<1>5. f \in State
  BY <1>1, <1>2, <1>3, RelocatesState
<1> QED
  BY <1>1, <1>4, <1>5, FinishCleanKeeps, LeavesCounted

LEMMA CountedDelete ==
    ASSUME Faults \subseteq {"power"}, IInv, CountedInv,
           NEW k \in Faults \cup {"none"}, NEW n \in 0 .. MaxWrites,
           \/ \E l \in ObjId : Remove(l, k, n)
           \/ \E p \in Page : GcWipe(p, k, n)
    PROVE  CountedInv'
<1>1. mounted = "yes"
  BY DEF Remove, Ready, GcWipe, Cleaning
<1>2. PICK q \in Page : LET f == PageDelete(Armed(k, n), q)
                        IN  Finish(f) \/ FinishClean(f, gc.owed)
  BY DEF Remove, Live, IInv, TypeOK, GcWipe
<1> DEFINE a == Armed(k, n)
           f == PageDelete(a, q)
<1>3. Powered(a) /\ Ok(a) /\ Counted(a)
  BY <1>1, ArmedCounted
<1>4. Finish(f) \/ FinishClean(f, gc.owed)
  BY <1>2
<1> HIDE DEF a
<1>5. Deleted(a, f, q)
  BY <1>3, PageDeleted
<1> HIDE DEF f
<1>6. CountedOrLost(f) /\ f \in State
  BY <1>3, <1>5, DeletedCounted DEF Deleted, Powered
<1>7. Leaves(f)
  BY <1>4, <1>6, FinishKeeps, FinishCleanKeeps
<1> QED
  BY <1>6, <1>7, LeavesCounted

LEMMA CountedQuickGc ==
    ASSUME Faults \subseteq {"power"}, IInv, CountedInv,
           NEW k \in Faults \cup {"none"}, NEW n \in 0 .. MaxWrites,
           NEW max \in 0 .. MaxFree, QuickGc(max, k, n)
    PROVE  CountedInv'
<1> DEFINE a == Armed(k, n)
           f == GcQuick(a, max)
<1>1. Finish(f) /\ mounted = "yes" /\ max \in Nat
  BY BoundAssumption DEF QuickGc, Ready
<1>2. Powered(a) /\ Ok(a) /\ a \in State /\ Counted(a)
  BY <1>1, ArmedCounted
<1> HIDE DEF a
<1>3. Clears(a, f, max)
  BY <1>1, <1>2, QuickClears
<1> HIDE DEF f
<1>4. CountedOrLost(f) /\ f \in State
  BY <1>2, <1>3, ClearsCounted DEF Clears, Rests, Wiped, Emptied, Powered
<1> QED
  BY <1>1, <1>4, FinishKeeps, LeavesCounted

\* A block is accounted for and erased.
LEMMA AccountedKeeps ==
    ASSUME NEW r, Powered(r), Ok(r), NEW b \in Block,
           NEW h, h = GcErasePageStats([r EXCEPT !.cleaning = FALSE], b)
    PROVE  /\ Powered(h) /\ Ok(h) /\ h.lu = r.lu /\ h.page = r.page
           /\ h.magic = r.magic /\ h.free_cursor = r.free_cursor
           /\ h.free_blocks = r.free_blocks /\ h.cleaning = FALSE
<1> DEFINE a == [r EXCEPT !.cleaning = FALSE]
           x == a.stats_p_allocated - Cardinality(PagesOf(a, b, IsBusy))
           y == a.stats_p_deleted - Cardinality(PagesOf(a, b, IsDeleted))
<1>1. /\ a \in State /\ a.fault = r.fault /\ a.res = "OK" /\ a.lu = r.lu
      /\ a.page = r.page /\ a.magic = r.magic /\ a.free_cursor = r.free_cursor
      /\ a.free_blocks = r.free_blocks /\ a.cleaning = FALSE
  BY DEF Powered, Ok, State
<1>2. h = [a EXCEPT !.stats_p_allocated = x, !.stats_p_deleted = y]
  BY <1>1 DEF GcErasePageStats, Then, Ok
<1> HIDE DEF a
<1>3. x \in Int /\ y \in Int
  <2>1. InBlock(b) \in SUBSET Page
    BY DEF InBlock, Page
  <2>2. PagesOf(a, b, IsBusy) \in SUBSET Page /\ PagesOf(a, b, IsDeleted) \in SUBSET Page
    BY <2>1 DEF PagesOf
  <2>3. /\ Cardinality(PagesOf(a, b, IsBusy)) \in Nat
        /\ Cardinality(PagesOf(a, b, IsDeleted)) \in Nat
    BY <2>2, PageIsFinite, FS_Subset, FS_CardinalityType
  <2>4. a.stats_p_allocated \in Int /\ a.stats_p_deleted \in Int
    BY <1>1 DEF State
  <2> QED
    BY <2>3, <2>4
<1> HIDE DEF x, y
<1>4. /\ h \in State /\ h.fault = a.fault /\ h.res = a.res /\ h.lu = a.lu
      /\ h.page = a.page /\ h.magic = a.magic /\ SameRam(a, h)
  BY <1>1, <1>2, <1>3, Recounted
<1> QED
  BY <1>1, <1>4 DEF Powered, Ok, SameRam

LEMMA CountedGcErase ==
    ASSUME Faults \subseteq {"power"}, IInv, CountedInv,
           NEW k \in Faults \cup {"none"}, NEW n \in 0 .. MaxWrites,
           GcErase(k, n)
    PROVE  CountedInv'
<1> DEFINE r == Armed(k, n)
           b == gc.blk
           h == GcErasePageStats([r EXCEPT !.cleaning = FALSE], b)
           f == EraseBlock(h, b)
<1>1. FinishClean(f, FALSE) /\ mounted = "yes" /\ b \in Block
  BY DEF GcErase, Cleaning
<1>2. Powered(r) /\ Ok(r) /\ Counted(r)
  BY <1>1, ArmedCounted
<1> HIDE DEF r, b
<1>3. /\ Powered(h) /\ Ok(h) /\ h.lu = r.lu /\ h.free_blocks = r.free_blocks
  BY <1>1, <1>2, AccountedKeeps
<1> HIDE DEF h
<1>4. Counted(h) /\ h \in State
  BY <1>2, <1>3, FreeBlocksAlike DEF Counted, Powered
<1>5. SameRam(h, h)
  BY DEF SameRam
<1>6. Wiped(h, f, b) \/ Rests(h, f)
  BY <1>1, <1>3, <1>5, EraseWipes
<1> HIDE DEF f
<1>7. CountedOrLost(f) /\ f \in State
  BY <1>1, <1>4, <1>6, RestsCounted, WipedCounted DEF Wiped, Emptied, Rests, Powered
<1> QED
  BY <1>1, <1>7, FinishCleanKeeps, LeavesCounted

\* Choosing a block to clean touches the cursor only.
LEMMA PickKeeps ==
    ASSUME IInv, NEW tries, NEW need, PickBlock(tries, need)
    PROVE  \E b \in Block :
              /\ gc'.blk = b
              /\ fs'.lu = fs.lu /\ fs'.page = fs.page /\ fs'.magic = fs.magic
              /\ fs'.free_blocks = fs.free_blocks
              /\ fs'.free_cursor = IF fs.free_cursor[1] = b
                                   THEN <<(b + 1) % NB, 0>> ELSE fs.free_cursor
<1> DEFINE b == GcFindCandidate(fs, FreePages(fs) <= 0)
<1>1. fs \in State
  BY DEF IInv, TypeOK
<1>2. b \in Block
  <2>1. (FreePages(fs) <= 0) \in BOOLEAN
    OBVIOUS
  <2> QED BY <1>1, <2>1, CandidateIsBlock
<1>3. fs' = StartCleaning(fs, b) /\ gc'.blk = b
  BY DEF PickBlock
<1> HIDE DEF b
<1>4. fs' = [fs EXCEPT !.cleaning = TRUE,
                       !.free_cursor = IF fs.free_cursor[1] = b
                                       THEN <<(b + 1) % NB, 0>>
                                       ELSE fs.free_cursor]
  BY <1>1, <1>3 DEF StartCleaning, State
<1>5. /\ fs'.lu = fs.lu /\ fs'.page = fs.page /\ fs'.magic = fs.magic
      /\ fs'.free_blocks = fs.free_blocks
      /\ fs'.free_cursor = IF fs.free_cursor[1] = b
                           THEN <<(b + 1) % NB, 0>> ELSE fs.free_cursor
  BY <1>1, <1>4 DEF State
<1> QED
  BY <1>2, <1>3, <1>5

LEMMA CountedPick ==
    ASSUME IInv, CountedInv, mounted' = mounted,
           (\E t, m : PickBlock(t, m)) \/ UNCHANGED fs
    PROVE  CountedInv'
<1>1. fs'.lu = fs.lu /\ fs'.free_blocks = fs.free_blocks
  BY PickKeeps
<1>2. FreeBlocks(fs') = FreeBlocks(fs)
  BY <1>1, FreeBlocksAlike
<1> QED
  BY <1>1, <1>2 DEF CountedInv, Counted

\* How the two scans end.
ScanEnds(f, to) ==
    /\ fs'.lu = f.lu /\ fs'.page = f.page /\ fs'.magic = f.magic
    /\ \/ ~Ok(f) /\ mounted' = "no" /\ fs'.free_cursor = <<0, 0>>
       \/ /\ Ok(f) /\ mounted' = to
          /\ fs'.free_blocks = f.free_blocks /\ fs'.free_cursor = f.free_cursor

LEMMA ScanStep ==
    ASSUME Faults \subseteq {"power"}, IInv,
           NEW k \in Faults \cup {"none"}, NEW n \in 0 .. MaxWrites,
           Mount(k, n) \/ Checked(k, n)
    PROVE  \E f : /\ Scans(fs, f) /\ ScanEnds(f, IF mounted = "no" /\ CheckOnMount
                                              THEN "check" ELSE "yes")
                  /\ Relocate(f)
<1> DEFINE f == ObjLuScan(Armed(k, n))
           to == IF mounted = "no" /\ CheckOnMount THEN "check" ELSE "yes"
<1>1. /\ fs' = IF f.res = "OK" THEN AtRest(f) ELSE NoRam(AtRest(f))
      /\ mounted' = IF f.res = "OK" THEN to ELSE "no"
      /\ Relocate(f)
  BY DEF Mount, Checked
<1>2. fs \in State /\ fs.res = "OK"
  BY DEF IInv, TypeOK
<1>3. /\ Powered(Armed(k, n)) /\ Ok(Armed(k, n)) /\ SameRam(fs, Armed(k, n))
      /\ Armed(k, n).lu = fs.lu /\ Armed(k, n).page = fs.page
      /\ Armed(k, n).magic = fs.magic
  BY <1>2, ArmedKeeps
<1>4. Scans(Armed(k, n), f)
  BY <1>3, ObjLuScans
<1> HIDE DEF f, to
<1>5. Scans(fs, f)
  BY <1>3, <1>4 DEF Scans, SameRam, BlankLu, BlankPage
<1>6. f \in State
  BY <1>4 DEF Scans, Powered
<1>7. ScanEnds(f, to)
  BY <1>1, <1>6, AtRestKeeps DEF ScanEnds, Ok
<1> QED
  BY <1>1, <1>5, <1>7 DEF to

LEMMA CountedScan ==
    ASSUME Faults \subseteq {"power"}, IInv,
           NEW k \in Faults \cup {"none"}, NEW n \in 0 .. MaxWrites,
           Mount(k, n) \/ Checked(k, n)
    PROVE  CountedInv'
<1> DEFINE to == IF mounted = "no" /\ CheckOnMount THEN "check" ELSE "yes"
<1>1. PICK f : Scans(fs, f) /\ ScanEnds(f, to)
  BY ScanStep
<1> SUFFICES ASSUME mounted' = "yes" PROVE Counted(fs')
  BY DEF CountedInv
<1>2. Ok(f) /\ fs'.lu = f.lu /\ fs'.free_blocks = f.free_blocks
  BY <1>1 DEF ScanEnds
<1>3. f.free_blocks = Cardinality(FreeBlocks(f))
  BY <1>1, <1>2 DEF Scans
<1>4. FreeBlocks(fs') = FreeBlocks(f)
  BY <1>2, FreeBlocksAlike
<1>5. Cardinality(FreeBlocks(f)) \in Nat
  BY FreeBlocksFinite
<1> QED
  BY <1>2, <1>3, <1>4, <1>5 DEF Counted

\* The initial state, in which all blocks are free.
LEMMA InitCounted == Init => CountedInv
<1> SUFFICES ASSUME Init PROVE Counted(fs)
  BY DEF CountedInv
<1>1. FreeBlocks(fs) \in SUBSET (0 .. NB - 1)
  BY FreeBlocksFinite DEF Block
<1>2. IsFiniteSet(0 .. NB - 1) /\ Cardinality(0 .. NB - 1) = NB
  BY GeometryAssumption, FS_Interval
<1>3. Cardinality(FreeBlocks(fs)) <= Cardinality(0 .. NB - 1)
  BY <1>1, <1>2, FS_Subset
<1> QED
  BY <1>2, <1>3 DEF Counted, Init

\* No step breaks it.
LEMMA NextCounted ==
    ASSUME Faults \subseteq {"power"}
    PROVE  IInv /\ CountedInv /\ [Next]_vars => CountedInv'
<1> SUFFICES ASSUME IInv, CountedInv, [Next]_vars PROVE CountedInv'
  OBVIOUS
<1>1. ASSUME NEW k \in Faults \cup {"none"}, NEW n \in 0 .. MaxWrites,
             Operation(k, n)
      PROVE  CountedInv'
  <2>1. ASSUME NEW p \in Page, Check(p, k, n) PROVE CountedInv'
    BY <2>1 DEF Check, Finish, CountedInv
  <2> QED
    BY <1>1, <2>1, CountedAllocate, CountedRewrite, CountedDelete, CountedQuickGc,
       CountedGcEvacuate, CountedGcErase, CountedScan DEF Operation
<1>2. CASE GcCheck(1) \/ GcLoop
  BY <1>2, CountedPick DEF GcCheck, GcLoop
<1>3. CASE Unmount \/ PowerLoss
  BY <1>3 DEF Unmount, PowerLoss, CountedInv
<1>4. CASE UNCHANGED vars
  <2>1. mounted' = mounted /\ UNCHANGED fs
    BY <1>4 DEF vars
  <2> QED
    BY <2>1, CountedPick
<1> QED
  BY <1>1, <1>2, <1>3, <1>4 DEF Next

\* The counter of free blocks never hides one, whatever was erased, taken or
\* cut short by a loss of power: find_free does not report a full file
\* system, and gc_quick does not start to erase, while two blocks are free.
THEOREM NoFreeBlockMissed ==
    ASSUME Faults \subseteq {"power"}
    PROVE  Spec => []FreeBlocksNotUnder
<1>1. "erase" \notin Faults
  OBVIOUS
<1>2. CountedInv => FreeBlocksNotUnder
  BY DEF CountedInv, FreeBlocksNotUnder, Counted
<1>3. IInv /\ [Next]_vars => IInv'
  BY <1>1, NextIInv
<1> QED
  BY <1>2, <1>3, InitIInv, InitCounted, NextCounted, PTL DEF Spec

----------------------------------------------------------------------------
(* The free entries of a block lie behind the others.                      *)

Trailing(f) ==
    \A p, q \in Page :
        p[1] = q[1] /\ p[2] < q[2] /\ f.lu[p] = FREE => f.lu[q] = FREE

\* A page that was begun without being entered is the first free one.
Begun(f) ==
    \A p, q \in Page :
        /\ f.lu[p] = FREE /\ f.page[p] # Erased /\ q[1] = p[1] /\ q[2] < p[2]
        => f.lu[q] # FREE

Lined(f) == Trailing(f) /\ Begun(f)

\* The cursor is at the first free entry of its block, or at either end.
Cursor(f) ==
    LET c == f.free_cursor
    IN  /\ \/ c[2] = NE
           \/ \A q \in Page : q[1] = c[1] /\ q[2] < c[2] => f.lu[q] # FREE
        /\ \/ c[2] \in {0, NE}
           \/ f.lu[c] = FREE

Straight(w) == Lined(w) /\ (PowerLost(w) \/ Cursor(w))

LEMMA LinedAlike ==
    ASSUME NEW f, NEW w, Lined(f), w.lu = f.lu, w.page = f.page
    PROVE  Lined(w)
BY DEF Lined, Trailing, Begun

LEMMA CursorAlike ==
    ASSUME NEW f, NEW w, Cursor(f), w.lu = f.lu, w.free_cursor = f.free_cursor
    PROVE  Cursor(w)
BY DEF Cursor

\* Nothing lies before the start of a block.
LEMMA CursorStart ==
    ASSUME NEW w, NEW b \in Block, w.free_cursor = <<b, 0>>
    PROVE  Cursor(w)
<1>1. w.free_cursor[2] = 0
  OBVIOUS
<1>2. \A q \in Page : ~(q[2] < 0)
  BY GeometryAssumption DEF Page, Entry
<1> QED
  BY <1>1, <1>2 DEF Cursor

LEMMA BlankLined ==
    ASSUME NEW f, NEW w, NEW b, Lined(f), w.lu = BlankLu(f, b), w.page = BlankPage(f, b)
    PROVE  Lined(w)
<1>1. \A p \in Page : /\ p[1] = b => w.lu[p] = FREE /\ w.page[p] = Erased
                      /\ p[1] # b => w.lu[p] = f.lu[p] /\ w.page[p] = f.page[p]
  BY DEF BlankLu, BlankPage
<1>2. Trailing(w)
  BY <1>1 DEF Lined, Trailing
<1>3. Begun(w)
  BY <1>1 DEF Lined, Begun
<1> QED
  BY <1>2, <1>3 DEF Lined

\* Erasing a block leaves the cursor where it should be, unless it was in the
\* midst of the block.
LEMMA BlankCursor ==
    ASSUME NEW f \in State, NEW w, NEW b \in Block, Cursor(f), w.lu = BlankLu(f, b),
           w.free_cursor = f.free_cursor,
           f.free_cursor[1] = b => f.free_cursor[2] \in {0, NE}
    PROVE  Cursor(w)
<1> DEFINE c == f.free_cursor
<1>1. c \in Block \X (0 .. NE) /\ c = <<c[1], c[2]>> /\ NE \in Nat
  BY GeometryAssumption DEF State
<1>2. \A p \in Page : p[1] # b => w.lu[p] = f.lu[p]
  BY DEF BlankLu
<1>3. CASE c[1] = b /\ c[2] = 0
  <2>1. w.free_cursor = <<b, 0>>
    BY <1>1, <1>3
  <2> QED
    BY <2>1, CursorStart
<1>4. CASE c[1] = b /\ c[2] = NE
  BY <1>4 DEF Cursor
<1>5. CASE c[1] # b
  <2>1. c[2] \in {0, NE} \/ c \in Page
    BY <1>1, GeometryAssumption DEF Page, Entry
  <2>2. c \in Page => w.lu[c] = f.lu[c]
    BY <1>2, <1>5
  <2>3. \A q \in Page : q[1] = c[1] => w.lu[q] = f.lu[q]
    BY <1>2, <1>5
  <2> QED
    BY <2>1, <2>2, <2>3 DEF Cursor
<1> QED
  BY <1>3, <1>4, <1>5

\* The quick collection erases blocks without a free page only.
LEMMA FullBlockCursor ==
    ASSUME NEW f \in State, Cursor(f), NEW b \in Block,
           Cardinality(PagesOf(f, b, IsFree)) <= 0
    PROVE  f.free_cursor[1] = b => f.free_cursor[2] \in {0, NE}
<1> DEFINE c == f.free_cursor
<1> SUFFICES ASSUME c[1] = b, c[2] \notin {0, NE} PROVE FALSE
  OBVIOUS
<1>1. c \in Block \X (0 .. NE) /\ NE \in Nat
  BY GeometryAssumption DEF State
<1>2. c \in InBlock(b) /\ f.lu[c] = FREE
  BY <1>1 DEF InBlock, Entry, Cursor
<1>3. c \in PagesOf(f, b, IsFree)
  BY <1>2 DEF PagesOf, IsFree
<1>4. InBlock(b) \in SUBSET Page
  BY DEF InBlock, Page
<1>5. PagesOf(f, b, IsFree) \in SUBSET Page
  BY <1>4 DEF PagesOf
<1>6. IsFiniteSet(PagesOf(f, b, IsFree))
  BY <1>5, PageIsFinite, FS_Subset
<1>7. Cardinality(PagesOf(f, b, IsFree)) \in Nat
  BY <1>6, FS_CardinalityType
<1>8. Cardinality(PagesOf(f, b, IsFree)) = 0
  BY <1>7
<1>9. PagesOf(f, b, IsFree) = {}
  BY <1>6, <1>8, FS_EmptySet
<1> QED
  BY <1>3, <1>9

\* Collections leave busy pages alone.
LEMMA ClearsBusy ==
    ASSUME NEW f, NEW r, NEW max, Clears(f, r, max), NEW q \in Page, IsBusy(f.lu[q])
    PROVE  r.lu[q] = f.lu[q] /\ r.page[q] = f.page[q]
<1>1. CASE Rests(f, r)
  BY <1>1 DEF Rests
<1>2. ASSUME NEW b \in Block, PagesOf(f, b, IsBusy) = {}, Wiped(f, r, b)
      PROVE  r.lu[q] = f.lu[q] /\ r.page[q] = f.page[q]
  <2>1. q[1] # b
    <3>1. q[1] = b => q \in InBlock(b)
      BY DEF InBlock, Page
    <3> QED
      BY <1>2, <3>1 DEF PagesOf
  <2> QED
    BY <1>2, <2>1 DEF Wiped, Emptied, BlankLu, BlankPage
<1> QED
  BY <1>1, <1>2 DEF Clears

LEMMA RestsStraight ==
    ASSUME NEW f, NEW w, Straight(f), Rests(f, w)
    PROVE  Straight(w)
<1>1. w.lu = f.lu /\ w.page = f.page
  BY DEF Rests
<1>2. Lined(w)
  BY <1>1, LinedAlike DEF Straight
<1>3. CASE PowerLost(w)
  BY <1>2, <1>3 DEF Straight
<1>4. CASE ~PowerLost(w)
  <2>1. ~PowerLost(f) /\ SameRam(f, w)
    BY <1>4 DEF Rests
  <2>2. Cursor(w)
    BY <1>1, <2>1, CursorAlike DEF Straight, SameRam
  <2> QED
    BY <1>2, <2>2 DEF Straight
<1> QED
  BY <1>3, <1>4

LEMMA ClearsStraight ==
    ASSUME NEW f \in State, Lined(f), Cursor(f), NEW r, Clears(f, r, 0)
    PROVE  Straight(r)
<1>1. CASE Rests(f, r)
  BY <1>1, RestsStraight DEF Straight
<1>2. ASSUME NEW b \in Block, Cardinality(PagesOf(f, b, IsFree)) <= 0, Wiped(f, r, b)
      PROVE  Straight(r)
  <2>1. r.lu = BlankLu(f, b) /\ r.page = BlankPage(f, b)
    BY <1>2 DEF Wiped, Emptied
  <2>2. Lined(r)
    BY <2>1, BlankLined
  <2>3. ASSUME ~PowerLost(r) PROVE Cursor(r)
    <3>1. r.free_cursor = f.free_cursor
      BY <1>2, <2>3 DEF Wiped, Emptied
    <3>2. f.free_cursor[1] = b => f.free_cursor[2] \in {0, NE}
      BY <1>2, FullBlockCursor
    <3> QED
      BY <2>1, <3>1, <3>2, BlankCursor
  <2> QED
    BY <2>2, <2>3 DEF Straight
<1> QED
  BY <1>1, <1>2 DEF Clears

\* find_free settles on the first free entry of a block.
LEMMA NextFreeBegins ==
    ASSUME NEW r \in State, Cursor(r), FreeEntries(r) # {},
           NEW q \in Page, q[1] = NextFree(r)[1], q[2] < NextFree(r)[2]
    PROVE  r.lu[q] # FREE
<1> DEFINE S == FreeEntries(r)
           c == r.free_cursor
           ahead == {x \in S : ~Before(x, c)}
           A == IF ahead # {} THEN ahead ELSE S
           p == First(A)
<1> SUFFICES ASSUME r.lu[q] = FREE PROVE FALSE
  OBVIOUS
<1>1. A \in SUBSET Page /\ A # {}
  BY DEF FreeEntries
<1>2. NextFree(r) = p
  BY DEF NextFree, FirstFrom
<1> HIDE DEF A
<1>3. p \in A /\ \A x \in A : ~Before(x, p)
  BY <1>1, FirstInSet
<1> HIDE DEF p
<1>4. q \in S /\ Before(q, p)
  BY <1>2 DEF FreeEntries, IsFree, Before
<1>5. q \notin A
  BY <1>3, <1>4
<1>6. ahead # {} /\ Before(q, c) /\ p \in ahead
  BY <1>3, <1>4, <1>5 DEF A
<1>7. ~Before(p, c)
  BY <1>6
<1>8. /\ c \in Block \X (0 .. NE) /\ p \in Page /\ NE \in Nat
      /\ c[1] \in Nat /\ c[2] \in Nat /\ p[1] \in Nat /\ p[2] \in Nat
      /\ q[1] \in Nat /\ q[2] \in Nat /\ p[2] < NE
  <2>1. c \in Block \X (0 .. NE)
    BY DEF State
  <2>2. p \in Page
    BY <1>1, <1>3
  <2> HIDE DEF c
  <2> QED
    BY <2>1, <2>2, GeometryAssumption DEF Page, Block, Entry
<1>9. c[1] = q[1] /\ q[2] < c[2] /\ c[2] # NE
  BY <1>2, <1>6, <1>7, <1>8 DEF Before
<1> QED
  BY <1>9 DEF Cursor

\* A page is being taken: it is the first free one of its block, and the
\* cursor is behind it.
Opening(g, p) ==
    /\ Lined(g)
    /\ \A q \in Page : q[1] = p[1] /\ q[2] < p[2] => g.lu[q] # FREE
    /\ g.free_cursor = <<p[1], p[2] + 1>>

LEMMA FindsStraight ==
    ASSUME NEW f \in State, Lined(f), Cursor(f), NEW g, Finds(f, g)
    PROVE  /\ ~Ok(g) => Straight(g)
           /\ Ok(g) => /\ Powered(g) /\ g.found \in Page /\ g.lu[g.found] = FREE
                       /\ Opening(g, g.found)
                       /\ \A q \in Page : IsBusy(f.lu[q]) => g.lu[q] = f.lu[q]
<1>1. PICK r : /\ Clears(f, r, 0)
               /\ \/ ~Ok(g) /\ Rests(r, g)
                  \/ Ok(r) /\ Taken(r, g, g.found)
  BY DEF Finds
<1>2. Straight(r) /\ r \in State
  BY <1>1, ClearsStraight DEF Clears, Rests, Wiped, Emptied, Powered
<1>3. \A q \in Page : IsBusy(f.lu[q]) => r.lu[q] = f.lu[q]
  BY <1>1, ClearsBusy
<1>4. CASE ~Ok(g) /\ Rests(r, g)
  BY <1>2, <1>4, RestsStraight
<1>5. CASE Ok(r) /\ Taken(r, g, g.found)
  <2> DEFINE p == g.found
  <2>1. /\ g.lu = r.lu /\ g.page = r.page /\ p = NextFree(r) /\ p \in Page
        /\ r.lu[p] = FREE /\ g.free_cursor = <<p[1], p[2] + 1>> /\ Powered(g)
    BY <1>5 DEF Taken
  <2>2. Lined(r) /\ Cursor(r)
    BY <1>2, <1>5 DEF Straight, PowerLost, Ok
  <2>3. Lined(g)
    BY <2>1, <2>2, LinedAlike
  <2>4. FreeEntries(r) # {}
    BY <2>1 DEF FreeEntries, IsFree
  <2>5. \A q \in Page : q[1] = p[1] /\ q[2] < p[2] => g.lu[q] # FREE
    BY <1>2, <2>1, <2>2, <2>4, NextFreeBegins
  <2> HIDE DEF p
  <2>6. Opening(g, p)
    BY <2>1, <2>3, <2>5 DEF Opening
  <2> QED
    BY <1>3, <1>5, <2>1, <2>6 DEF p, Taken
<1> QED
  BY <1>1, <1>4, <1>5

\* A page is occupied for l: the entries stay in line, and the cursor is at
\* the next one.
LEMMA OccupiesStraight ==
    ASSUME NEW g, Powered(g), NEW p \in Page, g.lu[p] = FREE, Opening(g, p),
           NEW w, NEW l \in ObjId, Occupies(g, w, p, l)
    PROVE  Straight(w)
<1>1. /\ \A q \in Page \ {p} : w.lu[q] = g.lu[q] /\ w.page[q] = g.page[q]
      /\ w.lu[p] \in {FREE, l}
      /\ ~PowerLost(w) => w.lu[p] = l /\ SameRam(g, w)
  BY OccupiesIs
<1>2. Trailing(g) /\ Begun(g)
  BY DEF Opening, Lined
<1>3. \A q \in Page : w.lu[q] = FREE => g.lu[q] = FREE
  BY <1>1
<1>4. Trailing(w)
  <2> SUFFICES ASSUME NEW x \in Page, NEW y \in Page, x[1] = y[1], x[2] < y[2],
                      w.lu[x] = FREE
               PROVE  w.lu[y] = FREE
    BY DEF Trailing
  <2>1. g.lu[x] = FREE /\ g.lu[y] = FREE
    BY <1>2, <1>3 DEF Trailing
  <2>2. y # p
    BY <2>1 DEF Opening
  <2> QED
    BY <1>1, <2>1, <2>2
<1>5. Begun(w)
  <2> SUFFICES ASSUME NEW x \in Page, NEW y \in Page, w.lu[x] = FREE,
                      w.page[x] # Erased, y[1] = x[1], y[2] < x[2]
               PROVE  w.lu[y] # FREE
    BY DEF Begun
  <2>1. CASE x = p
    BY <1>3, <2>1 DEF Opening
  <2>2. CASE x # p
    BY <1>1, <1>2, <1>3, <2>2 DEF Begun
  <2> QED
    BY <2>1, <2>2
<1>6. ASSUME ~PowerLost(w) PROVE Cursor(w)
  <2> DEFINE c == <<p[1], p[2] + 1>>
  <2>1. w.free_cursor = c /\ w.lu[p] = l /\ l # FREE
    BY <1>1, <1>6, IdAssumption DEF SameRam, Opening
  <2>2. p = <<p[1], p[2]>> /\ p[1] \in Block /\ p[2] \in Entry /\ c[1] = p[1] /\ c[2] = p[2] + 1
    BY DEF Page
  <2>3. \A q \in Page : q[1] = c[1] /\ q[2] < c[2] => w.lu[q] # FREE
    <3> SUFFICES ASSUME NEW q \in Page, q[1] = p[1], q[2] < p[2] + 1
                 PROVE  w.lu[q] # FREE
      BY <2>2
    <3>1. q = <<q[1], q[2]>> /\ q[2] \in Entry
      BY DEF Page
    <3>2. q = p \/ q[2] < p[2]
      BY <2>2, <3>1, GeometryAssumption DEF Entry
    <3> QED
      BY <1>3, <2>1, <3>2 DEF Opening
  <2>4. c[2] = NE \/ w.lu[c] = FREE
    <3> SUFFICES ASSUME c[2] # NE PROVE w.lu[c] = FREE
      OBVIOUS
    <3>1. c \in Page /\ p[2] < c[2] /\ c # p
      BY <2>2, GeometryAssumption DEF Page, Entry
    <3>2. g.lu[c] = FREE
      BY <1>2, <2>2, <3>1 DEF Trailing
    <3> QED
      BY <1>1, <3>1, <3>2
  <2> HIDE DEF c
  <2> QED
    BY <2>1, <2>3, <2>4 DEF Cursor
<1> QED
  BY <1>4, <1>5, <1>6 DEF Straight, Lined

\* A page that is not free is deleted.
LEMMA DeletedStraight ==
    ASSUME NEW f, Powered(f), Lined(f), Cursor(f), NEW q \in Page, f.lu[q] # FREE,
           NEW w, Deleted(f, w, q)
    PROVE  Straight(w)
<1>1. f.lu \in [Page -> Mark] /\ f.page \in [Page -> PageSet]
  BY DEF Powered, State
<1>2. \A x \in Page : /\ w.lu[x] = FREE <=> f.lu[x] = FREE
                      /\ x # q => w.page[x] = f.page[x]
  BY <1>1, MarkAssumption DEF Deleted
<1>3. Lined(w)
  BY <1>2 DEF Lined, Trailing, Begun
<1>4. ASSUME ~PowerLost(w) PROVE Cursor(w)
  <2>1. w.free_cursor = f.free_cursor
    BY <1>4 DEF Deleted, SameRam
  <2>2. f.free_cursor[2] \in {0, NE} \/ f.free_cursor \in Page
    <3>1. f.free_cursor \in Block \X (0 .. NE)
      BY DEF Powered, State
    <3> QED
      BY <3>1, GeometryAssumption DEF Page, Entry
  <2> QED
    BY <1>2, <2>1, <2>2 DEF Cursor
<1> QED
  BY <1>3, <1>4 DEF Straight

LEMMA AddsStraight ==
    ASSUME NEW f \in State, Lined(f), Cursor(f), NEW w, NEW l \in ObjId, Adds(f, w, l)
    PROVE  Straight(w)
<1>1. PICK g : /\ Finds(f, g)
               /\ IF Ok(g) THEN Occupies(g, w, g.found, l) ELSE w = g
  BY DEF Adds
<1>2. CASE Ok(g)
  <2> DEFINE p == g.found
  <2>1. Powered(g) /\ p \in Page /\ g.lu[p] = FREE /\ Opening(g, p)
    BY <1>1, <1>2, FindsStraight
  <2>2. Occupies(g, w, p, l)
    BY <1>1, <1>2
  <2> HIDE DEF p
  <2> QED
    BY <2>1, <2>2, OccupiesStraight
<1>3. CASE ~Ok(g)
  BY <1>1, <1>3, FindsStraight
<1> QED
  BY <1>2, <1>3

\* The page before the cursor is one of l.
Behind(w, l) ==
    LET c == w.free_cursor
    IN  <<c[1], c[2] - 1>> \in Page /\ w.lu[<<c[1], c[2] - 1>>] = l

LEMMA RelocatesStraight ==
    ASSUME NEW f \in State, Lined(f), Cursor(f), NEW w, NEW l \in ObjId,
           NEW src \in Page, IsBusy(f.lu[src]), Relocates(f, w, l, src)
    PROVE  Straight(w) /\ (Ok(w) => Behind(w, l))
<1>1. PICK g : /\ Finds(f, g)
               /\ IF Ok(g)
                  THEN \E m : /\ Occupies(g, m, g.found, l)
                              /\ IF Ok(m) THEN Deleted(m, w, src) ELSE w = m
                  ELSE w = g
  BY DEF Relocates
<1>2. CASE Ok(g)
  <2> DEFINE p == g.found
  <2>1. /\ Powered(g) /\ p \in Page /\ g.lu[p] = FREE /\ Opening(g, p)
        /\ g.lu[src] = f.lu[src]
    BY <1>1, <1>2, FindsStraight
  <2>2. PICK m : /\ Occupies(g, m, p, l)
                 /\ IF Ok(m) THEN Deleted(m, w, src) ELSE w = m
    BY <1>1, <1>2
  <2> HIDE DEF p
  <2>3. Straight(m)
    BY <2>1, <2>2, OccupiesStraight
  <2>4. /\ Powered(m) /\ \A q \in Page \ {p} : m.lu[q] = g.lu[q]
        /\ Ok(m) => SameRam(g, m) /\ m.lu[p] = l
    BY <2>1, <2>2, OccupiesIs DEF Ok, PowerLost
  <2>5. CASE Ok(m)
    <3>1. Lined(m) /\ Cursor(m)
      BY <2>3, <2>5 DEF Straight, Ok, PowerLost
    <3>2. src # p /\ m.lu[src] # FREE
      BY <2>1, <2>4 DEF IsBusy
    <3>3. Deleted(m, w, src)
      BY <2>2, <2>5
    <3>4. Straight(w)
      BY <2>4, <3>1, <3>2, <3>3, DeletedStraight
    <3>5. ASSUME Ok(w) PROVE Behind(w, l)
      <4>1. SameRam(m, w) /\ w.lu = [m.lu EXCEPT ![src] = DELETED]
        BY <3>3, <3>5 DEF Deleted, Ok, PowerLost
      <4>2. w.lu[p] = l
        BY <2>1, <2>4, <2>5, <3>2, <4>1 DEF Powered, State
      <4>3. w.free_cursor = <<p[1], p[2] + 1>>
        BY <2>1, <2>4, <2>5, <4>1 DEF Opening, SameRam
      <4>4. p = <<p[1], p[2]>> /\ p[2] \in Nat /\ p[2] + 1 - 1 = p[2]
        BY <2>1, GeometryAssumption DEF Page, Entry
      <4>5. w.free_cursor[1] = p[1] /\ w.free_cursor[2] = p[2] + 1
        BY <4>3
      <4>6. w.free_cursor[2] - 1 = p[2]
        BY <4>4, <4>5
      <4>7. <<w.free_cursor[1], w.free_cursor[2] - 1>> = p
        BY <4>4, <4>5, <4>6, Zenon
      <4> QED
        BY <2>1, <4>2, <4>7 DEF Behind
    <3> QED
      BY <3>4, <3>5
  <2>6. CASE ~Ok(m)
    BY <2>2, <2>3, <2>6
  <2> QED
    BY <2>5, <2>6
<1>3. CASE ~Ok(g)
  BY <1>1, <1>3, FindsStraight
<1> QED
  BY <1>2, <1>3

\* While a block is cleaned the cursor does not stop in its midst, except
\* behind a page that is still needed, so that the block is not yet erased.
Sweep ==
    LET c == fs.free_cursor
    IN  Cleaning /\ fs.cleaning /\ c[1] = gc.blk /\ c[2] \notin {0, NE}
           => fs.lu[<<c[1], c[2] - 1>>] \in Live

TrailInv ==
    /\ Lined(fs) /\ Cursor(fs) /\ Sweep
    /\ mounted # "yes" => fs.free_cursor = <<0, 0>>

LEMMA ZeroBlock == 0 \in Block
BY GeometryAssumption DEF Block

\* What the end of an action makes of it.
LEMMA LeavesTrail ==
    ASSUME NEW f, Straight(f), Leaves(f), Sweep',
           mounted = "yes" \/ PowerLost(f) \/ f.free_cursor = <<0, 0>>
    PROVE  TrailInv'
<1>1. fs'.lu = f.lu /\ fs'.page = f.page
  BY DEF Leaves
<1>2. Lined(fs')
  BY <1>1, LinedAlike DEF Straight
<1>3. CASE fs'.free_cursor = <<0, 0>> /\ mounted' = "no"
  <2>1. Cursor(fs')
    BY <1>3, ZeroBlock, CursorStart
  <2> QED
    BY <1>2, <1>3, <2>1 DEF TrailInv
<1>4. CASE ~PowerLost(f) /\ mounted' = mounted /\ fs'.free_cursor = f.free_cursor
           /\ mounted = "yes"
  <2>1. Cursor(fs')
    BY <1>1, <1>4, CursorAlike DEF Straight
  <2> QED
    BY <1>2, <1>4, <2>1 DEF TrailInv
<1>5. CASE ~PowerLost(f) /\ mounted' = mounted /\ fs'.free_cursor = f.free_cursor
           /\ f.free_cursor = <<0, 0>>
  <2>1. Cursor(fs')
    BY <1>5, ZeroBlock, CursorStart
  <2> QED
    BY <1>2, <1>5, <2>1 DEF TrailInv
<1> QED
  BY <1>3, <1>4, <1>5 DEF Leaves

\* No block is being cleaned, or none any more.
LEMMA IdleSweeps ==
    ASSUME gc' = Idle \/ mounted' = "no" \/ fs'.cleaning = FALSE
    PROVE  Sweep'
<1>1. Idle.blk \notin Block
  BY GeometryAssumption DEF Idle, Block
<1> QED
  BY <1>1 DEF Sweep, Cleaning

\* The last page written is still needed.
LEMMA BehindSweeps ==
    ASSUME NEW f, Leaves(f), NEW l, Behind(f, l), l \in Live'
    PROVE  Sweep'
<1>1. CASE mounted' = "no"
  BY <1>1, IdleSweeps
<1>2. CASE fs'.free_cursor = f.free_cursor
  BY <1>2 DEF Leaves, Sweep, Behind
<1> QED
  BY <1>1, <1>2 DEF Leaves

\* An operation starts with the entries in line.
LEMMA ArmedTrail ==
    ASSUME Faults \subseteq {"power"}, IInv, TrailInv,
           NEW k \in Faults \cup {"none"}, NEW n \in 0 .. MaxWrites,
           NEW a, a = Armed(k, n)
    PROVE  /\ Powered(a) /\ Ok(a) /\ a \in State /\ Lined(a) /\ Cursor(a)
           /\ a.lu = fs.lu /\ a.page = fs.page /\ a.free_cursor = fs.free_cursor
<1>1. fs \in State /\ fs.res = "OK" /\ Lined(fs) /\ Cursor(fs)
  BY DEF IInv, TypeOK, TrailInv
<1>2. Powered(a) /\ Ok(a) /\ SameRam(fs, a) /\ a.lu = fs.lu /\ a.page = fs.page
  BY <1>1, ArmedKeeps
<1>3. Lined(a)
  BY <1>1, <1>2, LinedAlike
<1>4. Cursor(a)
  BY <1>1, <1>2, CursorAlike DEF SameRam
<1> QED
  BY <1>2, <1>3, <1>4 DEF Powered, SameRam

LEMMA TrailAllocate ==
    ASSUME Faults \subseteq {"power"}, IInv, TrailInv,
           NEW k \in Faults \cup {"none"}, NEW n \in 0 .. MaxWrites,
           NEW l \in ObjId, NEW c \in Contents, Allocate(l, c, k, n)
    PROVE  TrailInv'
<1> DEFINE a == Armed(k, n)
           f == PageAllocateData(a, Header(l), Body(c), TRUE)
<1>1. Finish(f) /\ mounted = "yes" /\ gc = Idle
  BY DEF Allocate, Ready
<1>2. Powered(a) /\ Ok(a) /\ a \in State /\ Lined(a) /\ Cursor(a)
  BY ArmedTrail
<1> HIDE DEF a
<1>3. Adds(a, f, l)
  BY <1>2, AllocateRuns, AllocateAdds
<1> HIDE DEF f
<1>4. Straight(f) /\ f \in State
  BY <1>2, <1>3, AddsStraight, AddsState
<1>5. Leaves(f) /\ gc' = Idle
  BY <1>1, <1>4, FinishKeeps
<1> QED
  BY <1>1, <1>4, <1>5, IdleSweeps, LeavesTrail

LEMMA TrailRewrite ==
    ASSUME Faults \subseteq {"power"}, IInv, TrailInv,
           NEW k \in Faults \cup {"none"}, NEW n \in 0 .. MaxWrites,
           NEW l \in ObjId, NEW c \in Contents,
           Rewrite(l, c, k, n) \/ GcStoreIndex(l, c, k, n)
    PROVE  TrailInv'
<1> DEFINE a == Armed(k, n)
           src == ref[l]
           f == PageMove(a, l, src, NewPage(l, c))
<1>1. /\ \/ Finish(f) /\ gc = Idle
         \/ FinishClean(f, FALSE)
      /\ mounted = "yes" /\ src \in Page /\ fs.lu[src] = l
      /\ f.res = "OK" => ref' = [ref EXCEPT ![l] = f.found]
  BY DEF Rewrite, GcStoreIndex, Ready, Cleaning, Live, IInv, TypeOK, RefsFound, NewPage
<1>2. Powered(a) /\ Ok(a) /\ a \in State /\ Lined(a) /\ Cursor(a) /\ a.lu = fs.lu
  BY ArmedTrail
<1>3. IsBusy(a.lu[src])
  BY <1>1, <1>2, IdAssumption DEF IsBusy
<1> HIDE DEF a, src
<1>4. Relocates(a, f, l, src)
  BY <1>1, <1>2, RewriteRuns, RewriteRelocates
<1> HIDE DEF f
<1>5. Straight(f) /\ f \in State /\ (Ok(f) => Behind(f, l))
  BY <1>1, <1>2, <1>3, <1>4, RelocatesStraight, RelocatesState
<1>6. Leaves(f) /\ (gc' = Idle \/ f.res = "OK")
  BY <1>1, <1>5, FinishKeeps, FinishCleanKeeps
<1>7. Sweep'
  <2>1. CASE gc' = Idle
    BY <2>1, IdleSweeps
  <2>2. CASE f.res = "OK"
    <3>1. ref'[l] = f.found /\ f.found \in Page
      BY <1>1, <1>5, <2>2 DEF IInv, TypeOK, State
    <3>2. l \in Live'
      BY <3>1, IdAssumption DEF Live
    <3> QED
      BY <1>5, <1>6, <2>2, <3>2, BehindSweeps DEF Ok
  <2> QED
    BY <1>6, <2>1, <2>2
<1> QED
  BY <1>1, <1>5, <1>6, <1>7, LeavesTrail

LEMMA TrailGcEvacuate ==
    ASSUME Faults \subseteq {"power"}, IInv, TrailInv,
           NEW k \in Faults \cup {"none"}, NEW n \in 0 .. MaxWrites,
           NEW p \in Page, GcEvacuate(p, k, n)
    PROVE  TrailInv'
<1> DEFINE a == Armed(k, n)
           l == fs.lu[p]
           f == PageMove(a, l, p, Erased)
<1>1. /\ FinishClean(f, TRUE) /\ mounted = "yes" /\ l \in ObjId /\ IsBusy(fs.lu[p])
      /\ ref[l] # NoPage
      /\ f.res = "OK" => ref' = [ref EXCEPT ![l] = f.found] \/ UNCHANGED ref
  BY DEF GcEvacuate, Cleaning, Live
<1>2. Powered(a) /\ Ok(a) /\ a \in State /\ Lined(a) /\ Cursor(a) /\ a.lu = fs.lu
  BY ArmedTrail
<1>3. IsBusy(a.lu[p])
  BY <1>1, <1>2
<1> HIDE DEF a, l
<1>4. Relocates(a, f, l, p)
  BY <1>1, <1>2, CopyRuns, CopyRelocates
<1> HIDE DEF f
<1>5. Straight(f) /\ f \in State /\ (Ok(f) => Behind(f, l))
  BY <1>1, <1>2, <1>3, <1>4, RelocatesStraight, RelocatesState
<1>6. Leaves(f) /\ (gc' = Idle \/ f.res = "OK")
  BY <1>1, <1>5, FinishCleanKeeps
<1>7. Sweep'
  <2>1. CASE gc' = Idle
    BY <2>1, IdleSweeps
  <2>2. CASE f.res = "OK"
    <3>1. ref'[l] \in {f.found, ref[l]} /\ f.found \in Page
      BY <1>1, <1>5, <2>2 DEF IInv, TypeOK, State
    <3>2. l \in Live'
      BY <1>1, <3>1, IdAssumption DEF Live
    <3> QED
      BY <1>5, <1>6, <2>2, <3>2, BehindSweeps DEF Ok
  <2> QED
    BY <1>6, <2>1, <2>2
<1> QED
  BY <1>1, <1>5, <1>6, <1>7, LeavesTrail

\* A page that is not free is deleted at the end of an action.
LEMMA TrailDeletes ==
    ASSUME Faults \subseteq {"power"}, IInv, TrailInv, mounted = "yes",
           NEW k \in Faults \cup {"none"}, NEW n \in 0 .. MaxWrites,
           NEW q \in Page, fs.lu[q] # FREE,
           NEW f, f = PageDelete(Armed(k, n), q), Leaves(f), Sweep'
    PROVE  TrailInv'
<1> DEFINE a == Armed(k, n)
<1>1. Powered(a) /\ Ok(a) /\ Lined(a) /\ Cursor(a) /\ a.lu = fs.lu
  BY ArmedTrail
<1> HIDE DEF a
<1>2. Deleted(a, f, q)
  BY <1>1, PageDeleted DEF a
<1>3. Straight(f)
  BY <1>1, <1>2, DeletedStraight
<1> QED
  BY <1>3, LeavesTrail

LEMMA TrailRemove ==
    ASSUME Faults \subseteq {"power"}, IInv, TrailInv,
           NEW k \in Faults \cup {"none"}, NEW n \in 0 .. MaxWrites,
           NEW l \in ObjId, Remove(l, k, n)
    PROVE  TrailInv'
<1> DEFINE a == Armed(k, n)
           q == ref[l]
           f == PageDelete(a, q)
<1>1. /\ Finish(f) /\ mounted = "yes" /\ gc = Idle /\ q \in Page /\ fs.lu[q] # FREE
  BY IdAssumption DEF Remove, Ready, Live, IInv, TypeOK, RefsFound
<1>2. Powered(a) /\ Ok(a)
  BY ArmedTrail
<1> HIDE DEF a, q
<1>3. Deleted(a, f, q)
  BY <1>1, <1>2, PageDeleted
<1>4. f = PageDelete(Armed(k, n), q)
  BY DEF a
<1> HIDE DEF f
<1>5. f \in State
  BY <1>3 DEF Deleted, Powered
<1>6. Leaves(f) /\ gc' = Idle
  BY <1>1, <1>5, FinishKeeps
<1>7. Sweep'
  BY <1>6, IdleSweeps
<1> QED
  BY <1>1, <1>4, <1>6, <1>7, TrailDeletes

LEMMA TrailGcWipe ==
    ASSUME Faults \subseteq {"power"}, IInv, TrailInv,
           NEW k \in Faults \cup {"none"}, NEW n \in 0 .. MaxWrites,
           NEW q \in Page, GcWipe(q, k, n)
    PROVE  TrailInv'
<1> DEFINE a == Armed(k, n)
           f == PageDelete(a, q)
           o == gc.owed
<1>1. /\ FinishClean(f, o) /\ Cleaning /\ mounted = "yes" /\ fs.cleaning
      /\ fs.lu[q] # FREE /\ fs.lu[q] \notin Live /\ UNCHANGED ref
  BY DEF GcWipe, Cleaning, IsBusy
<1>2. Powered(a) /\ Ok(a) /\ a.lu = fs.lu /\ a.free_cursor = fs.free_cursor
  BY ArmedTrail
<1> HIDE DEF a, o
<1>3. Deleted(a, f, q)
  BY <1>2, PageDeleted
<1>4. f = PageDelete(Armed(k, n), q)
  BY DEF a
<1> HIDE DEF f
<1>5. f \in State
  BY <1>3 DEF Deleted, Powered
<1>6. /\ Leaves(f)
      /\ \/ gc' = Idle
         \/ f.res = "OK" /\ gc' = [gc EXCEPT !.owed = o] /\ fs'.cleaning = f.cleaning
  BY <1>1, <1>5, FinishCleanKeeps
<1>7. Sweep'
  <2>1. CASE gc' = Idle
    BY <2>1, IdleSweeps
  <2>2. CASE f.res = "OK" /\ gc' = [gc EXCEPT !.owed = o] /\ mounted' # "no"
    <3> DEFINE c == fs.free_cursor
               x == <<c[1], c[2] - 1>>
    <3>1. fs'.free_cursor = c /\ fs'.lu = [fs.lu EXCEPT ![q] = DELETED]
      BY <1>2, <1>3, <1>6, <2>2 DEF Leaves, Deleted, SameRam, PowerLost, Ok
    <3>2. gc'.blk = gc.blk /\ Live' = Live
      BY <1>1, <2>2 DEF IInv, TypeOK, Live
    <3>3. c \in Block \X (0 .. NE) /\ fs.lu \in [Page -> Mark]
      BY DEF IInv, TypeOK, State
    <3> SUFFICES ASSUME c[1] = gc.blk, c[2] \notin {0, NE}
                 PROVE  fs'.lu[x] \in Live'
      BY <3>1, <3>2 DEF Sweep, Cleaning
    <3>4. fs.lu[x] \in Live
      BY <1>1 DEF TrailInv, Sweep
    <3>5. x \in Page
      BY <3>3, GeometryAssumption DEF Page, Entry
    <3>6. x # q
      BY <1>1, <3>4
    <3> QED
      BY <3>1, <3>2, <3>3, <3>4, <3>5, <3>6
  <2>3. CASE mounted' = "no"
    BY <2>3, IdleSweeps
  <2> QED
    BY <1>6, <2>1, <2>2, <2>3
<1> QED
  BY <1>1, <1>4, <1>6, <1>7, TrailDeletes

LEMMA TrailQuickGc ==
    ASSUME Faults \subseteq {"power"}, MaxFree = 0, IInv, TrailInv,
           NEW k \in Faults \cup {"none"}, NEW n \in 0 .. MaxWrites,
           NEW max \in 0 .. MaxFree, QuickGc(max, k, n)
    PROVE  TrailInv'
<1> DEFINE a == Armed(k, n)
           f == GcQuick(a, 0)
<1>1. Finish(f) /\ mounted = "yes" /\ gc = Idle
  <2>1. max = 0
    OBVIOUS
  <2> QED
    BY <2>1 DEF QuickGc, Ready
<1>2. Powered(a) /\ Ok(a) /\ a \in State /\ Lined(a) /\ Cursor(a)
  BY ArmedTrail
<1> HIDE DEF a
<1>3. 0 \in Nat
  OBVIOUS
<1>4. Clears(a, f, 0)
  BY <1>2, <1>3, QuickClears
<1> HIDE DEF f
<1>5. Straight(f) /\ f \in State
  BY <1>2, <1>4, ClearsStraight DEF Clears, Rests, Wiped, Emptied, Powered
<1>6. Leaves(f) /\ gc' = Idle
  BY <1>1, <1>5, FinishKeeps
<1> QED
  BY <1>1, <1>5, <1>6, IdleSweeps, LeavesTrail

\* The cleaned block is erased: it has no busy page, so the cursor is not
\* behind one of its pages.
LEMMA TrailGcErase ==
    ASSUME Faults \subseteq {"power"}, IInv, TrailInv,
           NEW k \in Faults \cup {"none"}, NEW n \in 0 .. MaxWrites,
           GcErase(k, n)
    PROVE  TrailInv'
<1> DEFINE r == Armed(k, n)
           b == gc.blk
           h == GcErasePageStats([r EXCEPT !.cleaning = FALSE], b)
           f == EraseBlock(h, b)
<1>1. /\ FinishClean(f, FALSE) /\ mounted = "yes" /\ b \in Block
      /\ Cleaning /\ fs.cleaning /\ PagesOf(fs, b, IsBusy) = {}
  BY DEF GcErase, Cleaning
<1>2. /\ Powered(r) /\ Ok(r) /\ Lined(r) /\ Cursor(r) /\ r.lu = fs.lu
      /\ r.free_cursor = fs.free_cursor
  BY ArmedTrail
<1> HIDE DEF r
<1>3. fs.free_cursor[1] = b => fs.free_cursor[2] \in {0, NE}
  <2> DEFINE c == fs.free_cursor
             x == <<c[1], c[2] - 1>>
  <2> SUFFICES ASSUME c[1] = b, c[2] \notin {0, NE} PROVE FALSE
    OBVIOUS
  <2>1. fs.lu[x] \in Live
    BY <1>1 DEF TrailInv, Sweep
  <2>2. c \in Block \X (0 .. NE)
    BY DEF IInv, TypeOK, State
  <2>3. x \in InBlock(b)
    BY <2>2, GeometryAssumption DEF InBlock, Entry
  <2>4. IsBusy(fs.lu[x])
    BY <2>1, IdAssumption DEF Live, IsBusy
  <2> QED
    BY <1>1, <2>3, <2>4 DEF PagesOf
<1> HIDE DEF b
<1>4. /\ Powered(h) /\ Ok(h) /\ h.lu = r.lu /\ h.page = r.page
      /\ h.free_cursor = r.free_cursor /\ h.cleaning = FALSE
  BY <1>1, <1>2, AccountedKeeps
<1> HIDE DEF h
<1>5. Lined(h) /\ Cursor(h) /\ h \in State
  BY <1>2, <1>4, LinedAlike, CursorAlike DEF Powered
<1>6. SameRam(h, h)
  BY DEF SameRam
<1>7. Wiped(h, f, b) \/ Rests(h, f)
  BY <1>1, <1>4, <1>6, EraseWipes
<1> HIDE DEF f
<1>8. Straight(f) /\ f \in State /\ (PowerLost(f) \/ f.cleaning = FALSE)
  <2>1. CASE Rests(h, f)
    <3>1. Straight(h)
      BY <1>5 DEF Straight
    <3> QED
      BY <1>4, <2>1, <3>1, RestsStraight DEF Rests, Powered, SameRam
  <2>2. CASE Wiped(h, f, b)
    <3>1. f.lu = BlankLu(h, b) /\ f.page = BlankPage(h, b) /\ f \in State
      BY <2>2 DEF Wiped, Emptied, Powered
    <3>2. Lined(f)
      BY <1>5, <3>1, BlankLined
    <3>3. ASSUME ~PowerLost(f) PROVE Cursor(f) /\ f.cleaning = FALSE
      <4>1. f.free_cursor = h.free_cursor /\ f.cleaning = h.cleaning
        BY <2>2, <3>3 DEF Wiped, Emptied
      <4>2. h.free_cursor[1] = b => h.free_cursor[2] \in {0, NE}
        BY <1>2, <1>3, <1>4
      <4> QED
        BY <1>1, <1>4, <1>5, <3>1, <4>1, <4>2, BlankCursor
    <3> QED
      BY <3>1, <3>2, <3>3 DEF Straight
  <2> QED
    BY <1>7, <2>1, <2>2
<1>9. /\ Leaves(f)
      /\ gc' = Idle \/ (f.res = "OK" /\ fs'.cleaning = f.cleaning)
  BY <1>1, <1>8, FinishCleanKeeps
<1>10. Sweep'
  BY <1>8, <1>9, IdleSweeps DEF PowerLost
<1> QED
  BY <1>1, <1>8, <1>9, <1>10, LeavesTrail

\* Choosing a block takes the cursor out of it.
LEMMA TrailPick ==
    ASSUME IInv, TrailInv, mounted' = mounted, mounted = "yes",
           NEW t, NEW m, PickBlock(t, m)
    PROVE  TrailInv'
<1>1. PICK b \in Block :
          /\ gc'.blk = b /\ fs'.lu = fs.lu /\ fs'.page = fs.page
          /\ fs'.free_cursor = IF fs.free_cursor[1] = b
                               THEN <<(b + 1) % NB, 0>> ELSE fs.free_cursor
  BY PickKeeps
<1>2. (b + 1) % NB \in Block /\ (b + 1) % NB # b
  <2>1. CASE b + 1 < NB
    <3>1. (b + 1) % NB = b + 1
      BY <2>1, GeometryAssumption DEF Block
    <3> QED
      BY <2>1, <3>1, GeometryAssumption DEF Block
  <2>2. CASE b + 1 = NB
    <3>1. (b + 1) % NB = 0
      BY <2>2, GeometryAssumption DEF Block
    <3> QED
      BY <2>2, <3>1, GeometryAssumption DEF Block
  <2> QED
    BY <2>1, <2>2, GeometryAssumption DEF Block
<1>3. Lined(fs')
  BY <1>1, LinedAlike DEF TrailInv
<1>4. Cursor(fs') /\ fs'.free_cursor[1] # b
  <2>1. CASE fs.free_cursor[1] = b
    <3> DEFINE d == (b + 1) % NB
    <3>1. d \in Block /\ d # b /\ fs'.free_cursor = <<d, 0>>
      BY <1>1, <1>2, <2>1
    <3> HIDE DEF d
    <3>2. Cursor(fs')
      BY <3>1, CursorStart
    <3> QED
      BY <3>1, <3>2
  <2>2. CASE fs.free_cursor[1] # b
    BY <1>1, <2>2, CursorAlike DEF TrailInv
  <2> QED
    BY <2>1, <2>2
<1>5. Sweep'
  BY <1>1, <1>4 DEF Sweep
<1> QED
  BY <1>3, <1>4, <1>5 DEF TrailInv

\* SPIFFS_check deletes a page that was begun and not entered: it is the
\* first free one of its block.
LEMMA TrailCheck ==
    ASSUME Faults \subseteq {"power"}, IInv, TrailInv,
           NEW k \in Faults \cup {"none"}, NEW n \in 0 .. MaxWrites,
           NEW q \in Page, Check(q, k, n)
    PROVE  TrailInv'
<1> DEFINE a == Armed(k, n)
           f == PageDelete(a, q)
<1>1. Finish(f) /\ mounted = "check" /\ Mendable(q)
  BY DEF Check
<1>2. /\ Powered(a) /\ Ok(a) /\ Lined(a) /\ Cursor(a) /\ a.lu = fs.lu
      /\ a.page = fs.page /\ a.free_cursor = fs.free_cursor
  BY ArmedTrail
<1>3. a.lu[q] = FREE => a.page[q] # Erased
  BY <1>1, <1>2, MarkAssumption DEF Mendable, IsFree, IsDeleted, IsBusy, Erased
<1> HIDE DEF a
<1>4. Deleted(a, f, q)
  BY <1>2, PageDeleted
<1> HIDE DEF f
<1>5. f \in State
  BY <1>4 DEF Deleted, Powered
<1>6. Lined(f)
  <2>1. a.lu \in [Page -> Mark] /\ a.page \in [Page -> PageSet]
    BY <1>2 DEF Powered, State
  <2>2. \A x \in Page : x # q => f.lu[x] = a.lu[x] /\ f.page[x] = a.page[x]
    BY <1>4, <2>1 DEF Deleted
  <2>3. \/ f.lu[q] = a.lu[q] /\ f.page[q] = a.page[q]
        \/ f.lu[q] # FREE
    BY <1>4, <2>1, MarkAssumption DEF Deleted
  <2>4. CASE f.lu[q] = a.lu[q] /\ f.page[q] = a.page[q]
    BY <1>2, <2>2, <2>4 DEF Lined, Trailing, Begun
  <2>5. CASE f.lu[q] # FREE
    <3>1. Trailing(f)
      <4> SUFFICES ASSUME NEW x \in Page, NEW y \in Page, x[1] = y[1],
                          x[2] < y[2], f.lu[x] = FREE
                   PROVE  f.lu[y] = FREE
        BY DEF Trailing
      <4>1. x # q /\ a.lu[x] = FREE
        BY <2>2, <2>5
      <4>2. a.lu[y] = FREE
        BY <1>2, <4>1 DEF Lined, Trailing
      <4>3. y # q
        BY <1>2, <1>3, <4>1, <4>2 DEF Lined, Begun
      <4> QED
        BY <2>2, <4>2, <4>3
    <3>2. Begun(f)
      <4> SUFFICES ASSUME NEW x \in Page, NEW y \in Page, f.lu[x] = FREE,
                          f.page[x] # Erased, y[1] = x[1], y[2] < x[2]
                   PROVE  f.lu[y] # FREE
        BY DEF Begun
      <4>1. x # q /\ a.lu[x] = FREE /\ a.page[x] # Erased
        BY <2>2, <2>5
      <4>2. a.lu[y] # FREE
        BY <1>2, <4>1 DEF Lined, Begun
      <4> QED
        BY <2>2, <2>5, <4>2
    <3> QED
      BY <3>1, <3>2 DEF Lined
  <2> QED
    BY <2>3, <2>4, <2>5
<1>7. Leaves(f) /\ mounted' # "yes"
  BY <1>1, <1>5, FinishKeeps DEF Leaves
<1>8. fs'.free_cursor = <<0, 0>>
  <2>1. a.free_cursor = <<0, 0>>
    BY <1>1, <1>2 DEF TrailInv
  <2> QED
    BY <1>4, <1>7, <2>1 DEF Leaves, Deleted, SameRam
<1>9. Lined(fs') /\ Cursor(fs')
  BY <1>6, <1>7, <1>8, LinedAlike, CursorStart, ZeroBlock DEF Leaves
<1>10. Sweep'
  BY <1>7 DEF Sweep, Cleaning
<1> QED
  BY <1>8, <1>9, <1>10 DEF TrailInv

LEMMA TrailScan ==
    ASSUME Faults \subseteq {"power"}, IInv, TrailInv,
           NEW k \in Faults \cup {"none"}, NEW n \in 0 .. MaxWrites,
           Mount(k, n) \/ Checked(k, n)
    PROVE  TrailInv'
<1> DEFINE to == IF mounted = "no" /\ CheckOnMount THEN "check" ELSE "yes"
<1>1. PICK f : Scans(fs, f) /\ ScanEnds(f, to)
  BY ScanStep
<1>2. fs.free_cursor = <<0, 0>> /\ Lined(fs)
  BY DEF Mount, Checked, TrailInv
<1>3. Lined(f)
  BY <1>1, <1>2, LinedAlike, BlankLined DEF Scans
<1>4. fs'.free_cursor = <<0, 0>> /\ fs'.lu = f.lu /\ fs'.page = f.page
  BY <1>1, <1>2 DEF Scans, ScanEnds
<1>5. Lined(fs') /\ Cursor(fs')
  BY <1>3, <1>4, LinedAlike, CursorStart, ZeroBlock
<1>6. Sweep'
  <2>1. fs'.free_cursor[2] = 0
    BY <1>4
  <2> QED
    BY <2>1 DEF Sweep
<1> QED
  BY <1>4, <1>5, <1>6 DEF TrailInv

LEMMA InitTrail == Init => TrailInv
<1> SUFFICES ASSUME Init PROVE TrailInv
  OBVIOUS
<1>1. /\ \A p \in Page : fs.lu[p] = FREE /\ fs.page[p] = Erased
      /\ fs.free_cursor = <<0, 0>> /\ mounted = "yes" /\ fs.cleaning = FALSE
  BY DEF Init
<1>2. Lined(fs) /\ Cursor(fs)
  BY <1>1, CursorStart, ZeroBlock DEF Lined, Trailing, Begun
<1> QED
  BY <1>1, <1>2 DEF TrailInv, Sweep

\* No step breaks it.
LEMMA NextTrail ==
    ASSUME Faults \subseteq {"power"}, MaxFree = 0
    PROVE  IInv /\ TrailInv /\ [Next]_vars => TrailInv'
<1> SUFFICES ASSUME IInv, TrailInv, [Next]_vars PROVE TrailInv'
  OBVIOUS
<1>1. ASSUME NEW k \in Faults \cup {"none"}, NEW n \in 0 .. MaxWrites,
             Operation(k, n)
      PROVE  TrailInv'
  BY <1>1, TrailAllocate, TrailRewrite, TrailRemove, TrailQuickGc, TrailGcEvacuate,
     TrailGcWipe, TrailGcErase, TrailCheck, TrailScan DEF Operation
<1>2. CASE GcCheck(1)
  BY <1>2, TrailPick DEF GcCheck, Ready
<1>3. CASE GcLoop
  <2>1. CASE PickBlock(gc.tries + 1, gc.need)
    BY <1>3, <2>1, TrailPick DEF GcLoop, Cleaning
  <2>2. CASE gc' = Idle /\ UNCHANGED fs
    BY <1>3, <2>2, IdleSweeps DEF GcLoop, TrailInv, Lined, Trailing, Begun, Cursor
  <2> QED
    BY <1>3, <2>1, <2>2 DEF GcLoop
<1>4. CASE Unmount \/ PowerLoss
  <2>1. fs' = NoRam(fs) /\ mounted' = "no" /\ fs \in State
    BY <1>4 DEF Unmount, PowerLoss, IInv, TypeOK
  <2>2. fs'.lu = fs.lu /\ fs'.page = fs.page /\ fs'.free_cursor = <<0, 0>>
    BY <2>1 DEF NoRam, State
  <2>3. Lined(fs') /\ Cursor(fs') /\ Sweep'
    BY <2>1, <2>2, LinedAlike, CursorStart, ZeroBlock, IdleSweeps DEF TrailInv
  <2> QED
    BY <2>2, <2>3 DEF TrailInv
<1>5. CASE UNCHANGED vars
  BY <1>5 DEF vars, TrailInv, Lined, Trailing, Begun, Cursor, Sweep, Cleaning, Live
<1> QED
  BY <1>1, <1>2, <1>3, <1>4, <1>5 DEF Next

\* The free entries of a block always lie behind the others, so that the scan
\* of gc_find_candidate and the visit of obj_lu_scan may stop at, or look
\* only at, one entry: allocations fill a block from the front, and no block
\* with the free cursor in its midst is erased.  For that the collection that
\* an allocation begins with, or that SPIFFS_gc_quick is asked for, must not
\* erase a block with free pages left.
THEOREM FreeEntriesStayBehind ==
    ASSUME Faults \subseteq {"power"}, MaxFree = 0
    PROVE  Spec => []FreeEntriesTrail
<1>1. "erase" \notin Faults
  OBVIOUS
<1>2. TrailInv => FreeEntriesTrail
  BY DEF TrailInv, FreeEntriesTrail, Lined, Trailing, IsFree
<1>3. IInv /\ [Next]_vars => IInv'
  BY <1>1, NextIInv
<1> QED
  BY <1>2, <1>3, InitIInv, InitTrail, NextTrail, PTL DEF Spec

----------------------------------------------------------------------------
(* What the pages hold.                                                    *)

\* A free page is erased, or its programming was begun with the USED flag;
\* a page is final only when it is used.
SaneEntry(id, pg) ==
    /\ id = FREE => pg = Erased \/ "USED" \in pg.flags
    /\ "FINAL" \in pg.flags => "USED" \in pg.flags

\* The header of a page in use agrees with the lookup, and the page is valid.
CleanEntry(id, pg) ==
    /\ id = FREE => pg = Erased
    /\ IsBusy(id) => pg.id = id /\ "FINAL" \in pg.flags /\ "DELET" \notin pg.flags
    /\ "FINAL" \in pg.flags => "USED" \in pg.flags

\* Only an erased block has no magic.
Sane(f) ==
    /\ \A p \in Page : SaneEntry(f.lu[p], f.page[p])
    /\ \A p \in Page : ~f.magic[p[1]] => f.lu[p] = FREE

AllMagic(f) == \A b \in Block : f.magic[b]

Fine(f) == AllMagic(f) /\ \A p \in Page : CleanEntry(f.lu[p], f.page[p])

FineOrLost(w) == Fine(w) \/ (PowerLost(w) /\ Sane(w))

\* Busy pages outside D are as before.
Kept(f, w, D) ==
    \A q \in Page \ D : IsBusy(f.lu[q]) => w.lu[q] = f.lu[q] /\ w.page[q] = f.page[q]

LEMMA FineIsSane ==
    ASSUME NEW f, Fine(f)
    PROVE  Sane(f)
<1>1. \A p \in Page : p[1] \in Block
  BY DEF Page
<1> QED
  BY <1>1 DEF Fine, Sane, AllMagic, SaneEntry, CleanEntry

LEMMA FineAlike ==
    ASSUME NEW f, Fine(f), NEW w, w.lu = f.lu, w.page = f.page, w.magic = f.magic
    PROVE  Fine(w)
BY DEF Fine, AllMagic

LEMMA KeptTwice ==
    ASSUME NEW f, NEW g, NEW h, NEW D, Kept(f, g, {}), Kept(g, h, D)
    PROVE  Kept(f, h, D)
BY DEF Kept

\* A page is programmed on erased flash.
LEMMA ProgErased ==
    ASSUME NEW x \in PageSet
    PROVE  ProgPage(Erased, x) = x
<1>1. /\ x = [id |-> x.id, span |-> x.span, flags |-> x.flags, body |-> x.body]
      /\ x.body \in BodySet
  BY DEF PageSet
<1>2. Prog(FREE, x.id, FREE) = x.id /\ Prog(FREE, x.span, FREE) = x.span
  BY DEF Prog
<1>3. ProgBody(NoBody, x.body) = x.body
  <2>1. DOMAIN NoBody = {}
    BY DEF NoBody
  <2>2. x.body = [i \in DOMAIN x.body |-> x.body[i]]
    BY <1>1 DEF BodySet, NoBody
  <2>3. ProgBody(NoBody, x.body) = [i \in DOMAIN x.body |-> x.body[i]]
    BY <2>1 DEF ProgBody
  <2> QED
    BY <2>2, <2>3
<1>4. {} \cup x.flags = x.flags
  OBVIOUS
<1> QED
  BY <1>1, <1>2, <1>3, <1>4 DEF ProgPage, Erased

LEMMA ErasedIsClean ==
    ASSUME FREE \notin ObjId
    PROVE  CleanEntry(FREE, Erased) /\ SaneEntry(FREE, Erased)
BY DEF CleanEntry, SaneEntry, Erased, IsBusy

LEMMA RestsFine ==
    ASSUME NEW f, FineOrLost(f), NEW w, Rests(f, w)
    PROVE  FineOrLost(w) /\ Kept(f, w, {})
<1>1. w.lu = f.lu /\ w.page = f.page /\ w.magic = f.magic
  BY DEF Rests
<1>2. Kept(f, w, {})
  BY <1>1 DEF Kept
<1>3. CASE Fine(f)
  BY <1>1, <1>2, <1>3, FineAlike DEF FineOrLost
<1>4. CASE PowerLost(f) /\ Sane(f)
  <2>1. PowerLost(w)
    BY <1>4 DEF Rests
  <2>2. Sane(w)
    BY <1>1, <1>4 DEF Sane
  <2> QED
    BY <1>2, <2>1, <2>2 DEF FineOrLost
<1> QED
  BY <1>3, <1>4 DEF FineOrLost

\* A block without busy pages is erased.
LEMMA WipedFine ==
    ASSUME NEW f, Fine(f), NEW b \in Block, PagesOf(f, b, IsBusy) = {},
           NEW w, Wiped(f, w, b)
    PROVE  FineOrLost(w) /\ Kept(f, w, {})
<1>1. /\ w.lu = BlankLu(f, b) /\ w.page = BlankPage(f, b)
      /\ \A d \in Block \ {b} : w.magic[d] = f.magic[d]
      /\ PowerLost(w) \/ w.magic[b]
  BY DEF Wiped, Emptied
<1>2. \A p \in Page : /\ p[1] = b => w.lu[p] = FREE /\ w.page[p] = Erased
                      /\ p[1] # b => w.lu[p] = f.lu[p] /\ w.page[p] = f.page[p]
  BY <1>1 DEF BlankLu, BlankPage
<1>3. \A p \in Page : CleanEntry(w.lu[p], w.page[p])
  BY <1>2, ErasedIsClean, IdAssumption DEF Fine
<1>4. Kept(f, w, {})
  <2>1. \A p \in Page : p[1] = b => p \in InBlock(b)
    BY DEF InBlock, Page
  <2>2. \A p \in Page : IsBusy(f.lu[p]) => p[1] # b
    BY <2>1 DEF PagesOf
  <2> QED
    BY <1>2, <2>2 DEF Kept
<1>5. CASE PowerLost(w)
  <2>1. \A p \in Page : p[1] \in Block
    BY DEF Page
  <2>2. \A p \in Page : ~w.magic[p[1]] => w.lu[p] = FREE
    BY <1>1, <1>2, <2>1 DEF Fine, AllMagic
  <2>3. Sane(w)
    BY <1>3, <2>2 DEF Sane, SaneEntry, CleanEntry
  <2> QED
    BY <1>4, <1>5, <2>3 DEF FineOrLost
<1>6. CASE w.magic[b]
  <2>1. Fine(w)
    BY <1>1, <1>3, <1>6 DEF Fine, AllMagic
  <2> QED
    BY <1>4, <2>1 DEF FineOrLost
<1> QED
  BY <1>1, <1>5, <1>6

LEMMA ClearsFine ==
    ASSUME NEW f, Fine(f), NEW r, NEW max, Clears(f, r, max)
    PROVE  FineOrLost(r) /\ Kept(f, r, {})
BY RestsFine, WipedFine DEF Clears, FineOrLost

LEMMA FindsFine ==
    ASSUME NEW f, Fine(f), NEW g, Finds(f, g)
    PROVE  /\ FineOrLost(g) /\ Kept(f, g, {})
           /\ Ok(g) => /\ Powered(g) /\ Fine(g) /\ g.found \in Page
                       /\ g.lu[g.found] = FREE /\ g.page[g.found] = Erased
<1>1. PICK r : /\ Clears(f, r, 0)
               /\ \/ ~Ok(g) /\ Rests(r, g)
                  \/ Ok(r) /\ Taken(r, g, g.found)
  BY DEF Finds
<1>2. FineOrLost(r) /\ Kept(f, r, {})
  BY <1>1, ClearsFine
<1>3. CASE ~Ok(g) /\ Rests(r, g)
  <2>1. FineOrLost(g) /\ Kept(r, g, {})
    BY <1>2, <1>3, RestsFine
  <2> QED
    BY <1>2, <1>3, <2>1, KeptTwice
<1>4. CASE Ok(r) /\ Taken(r, g, g.found)
  <2> DEFINE p == g.found
  <2>1. Fine(r)
    BY <1>2, <1>4 DEF FineOrLost, Ok, PowerLost
  <2>2. /\ g.lu = r.lu /\ g.page = r.page /\ g.magic = r.magic /\ Powered(g)
        /\ p \in Page /\ r.lu[p] = FREE
    BY <1>4 DEF Taken
  <2>3. Fine(g)
    BY <2>1, <2>2, FineAlike
  <2>4. g.page[p] = Erased
    BY <2>2, <2>3 DEF Fine, CleanEntry
  <2>5. Kept(f, g, {})
    BY <1>2, <2>2 DEF Kept
  <2> QED
    BY <2>2, <2>3, <2>4, <2>5 DEF FineOrLost
<1> QED
  BY <1>1, <1>3, <1>4

\* A free page is programmed, or its programming cut short.
LEMMA ReachedFine ==
    ASSUME NEW g, Powered(g), Fine(g), NEW p \in Page, g.lu[p] = FREE,
           NEW x, NEW cuts, NEW now, Reached(g, x, p, cuts, now),
           \A y \in cuts : SaneEntry(y[1], y[2]),
           CleanEntry(now[1], now[2])
    PROVE  /\ FineOrLost(x) /\ Kept(g, x, {})
           /\ Ok(x) => Fine(x) /\ x.lu[p] = now[1] /\ x.page[p] = now[2]
                       /\ x.found = g.found
<1>1. g.lu \in [Page -> Mark] /\ g.page \in [Page -> PageSet] /\ x.magic = g.magic
  BY DEF Powered, State, Reached
<1>2. ASSUME NEW y, Holding(g, x, p, y)
      PROVE  /\ x.lu[p] = y[1] /\ x.page[p] = y[2]
             /\ \A q \in Page \ {p} : x.lu[q] = g.lu[q] /\ x.page[q] = g.page[q]
  BY <1>1, <1>2 DEF Holding
<1>3. CASE Ok(x) /\ SameRam(g, x) /\ Holding(g, x, p, now)
  <2>1. /\ x.lu[p] = now[1] /\ x.page[p] = now[2]
        /\ \A q \in Page \ {p} : x.lu[q] = g.lu[q] /\ x.page[q] = g.page[q]
    BY <1>2, <1>3
  <2>2. Fine(x)
    BY <1>1, <2>1 DEF Fine, AllMagic
  <2>3. Kept(g, x, {})
    BY <2>1 DEF Kept, IsBusy
  <2> QED
    BY <1>3, <2>1, <2>2, <2>3 DEF FineOrLost, SameRam
<1>4. ASSUME PowerLost(x), NEW y \in cuts, Holding(g, x, p, y)
      PROVE  FineOrLost(x) /\ Kept(g, x, {}) /\ ~Ok(x)
  <2>1. /\ x.lu[p] = y[1] /\ x.page[p] = y[2]
        /\ \A q \in Page \ {p} : x.lu[q] = g.lu[q] /\ x.page[q] = g.page[q]
    BY <1>2, <1>4
  <2>2. \A q \in Page : SaneEntry(x.lu[q], x.page[q])
    BY <2>1 DEF Fine, SaneEntry, CleanEntry
  <2>3. \A q \in Page : q[1] \in Block
    BY DEF Page
  <2>4. Sane(x)
    BY <1>1, <2>2, <2>3 DEF Sane, Fine, AllMagic
  <2>5. Kept(g, x, {})
    BY <2>1 DEF Kept, IsBusy
  <2> QED
    BY <1>4, <2>4, <2>5 DEF FineOrLost, PowerLost, Ok
<1> QED
  BY <1>3, <1>4 DEF Reached

\* A busy page is deleted, or its deletion cut short.
LEMMA DeletedFine ==
    ASSUME NEW f, Powered(f), Fine(f), NEW q \in Page, IsBusy(f.lu[q]),
           NEW w, Deleted(f, w, q)
    PROVE  /\ FineOrLost(w) /\ Kept(f, w, {q})
           /\ Ok(w) => w.found = f.found
<1>1. f.lu \in [Page -> Mark] /\ f.page \in [Page -> PageSet] /\ w.magic = f.magic
  BY DEF Powered, State, Deleted
<1>2. \A x \in Page \ {q} : w.lu[x] = f.lu[x] /\ w.page[x] = f.page[x]
  BY <1>1 DEF Deleted
<1>3. Kept(f, w, {q})
  BY <1>2 DEF Kept
<1>4. ~IsBusy(DELETED) /\ DELETED # FREE
  BY MarkAssumption DEF IsBusy
<1>5. CASE /\ Ok(w) /\ SameRam(f, w) /\ w.lu = [f.lu EXCEPT ![q] = DELETED]
           /\ w.page = [f.page EXCEPT ![q] = With(f.page[q], {"DELET", "USED"})]
  <2>1. w.lu[q] = DELETED /\ w.page[q] = With(f.page[q], {"DELET", "USED"})
    BY <1>1, <1>5
  <2>2. "USED" \in w.page[q].flags
    BY <1>1, <2>1 DEF With, PageSet
  <2>3. Fine(w)
    BY <1>1, <1>2, <1>4, <2>1, <2>2 DEF Fine, AllMagic, CleanEntry
  <2> QED
    BY <1>3, <1>5, <2>3 DEF FineOrLost, SameRam
<1>6. CASE PowerLost(w) /\ w.page = f.page /\ w.lu \in {f.lu, [f.lu EXCEPT ![q] = DELETED]}
  <2>1. w.lu[q] \in {f.lu[q], DELETED} /\ w.page[q] = f.page[q]
    BY <1>1, <1>6
  <2>2. Fine(w)
    BY <1>1, <1>2, <1>4, <2>1 DEF Fine, AllMagic, CleanEntry
  <2> QED
    BY <1>3, <1>6, <2>2 DEF FineOrLost, PowerLost, Ok
<1> QED
  BY <1>5, <1>6 DEF Deleted

\* A page of l has been moved from src to the page found: at any time one of
\* the two is there.
Moved(f, w, src, l, pg) ==
    /\ FineOrLost(w) /\ Kept(f, w, {src})
    /\ Ok(w) => w.found \in Page /\ w.lu[w.found] = l /\ w.page[w.found] = pg
    /\ \/ w.lu[src] = f.lu[src] /\ w.page[src] = f.page[src]
       \/ \E p \in Page : w.lu[p] = l /\ w.page[p] = pg

LEMMA MovesMoved ==
    ASSUME NEW f, Fine(f), NEW g, Finds(f, g), NEW src \in Page, IsBusy(f.lu[src]),
           NEW w, NEW l \in ObjId, NEW cuts, NEW pg,
           IF Ok(g) THEN Moves(g, w, g.found, src, cuts, <<l, pg>>) ELSE w = g,
           Ok(g) => /\ \A y \in cuts : SaneEntry(y[1], y[2])
                    /\ CleanEntry(l, pg)
    PROVE  Moved(f, w, src, l, pg)
<1>1. /\ FineOrLost(g) /\ Kept(f, g, {})
      /\ Ok(g) => /\ Powered(g) /\ Fine(g) /\ g.found \in Page
                  /\ g.lu[g.found] = FREE
  BY FindsFine
<1>2. g.lu[src] = f.lu[src] /\ g.page[src] = f.page[src]
  BY <1>1 DEF Kept
<1>3. CASE ~Ok(g)
  <2>1. Kept(f, g, {src})
    BY <1>1 DEF Kept
  <2> QED
    BY <1>1, <1>2, <1>3, <2>1 DEF Moved
<1>4. CASE Ok(g)
  <2> DEFINE p == g.found
             now == <<l, pg>>
  <2>1. Powered(g) /\ Fine(g) /\ p \in Page /\ g.lu[p] = FREE
    BY <1>1, <1>4
  <2>2. PICK m : /\ Reached(g, m, p, cuts, now)
                 /\ IF Ok(m) THEN Deleted(m, w, src) ELSE w = m
    BY <1>4 DEF Moves
  <2>3. now[1] = l /\ now[2] = pg
    OBVIOUS
  <2>4. p = g.found
    OBVIOUS
  <2> HIDE DEF p, now
  <2>5. /\ FineOrLost(m) /\ Kept(g, m, {})
        /\ Ok(m) => Fine(m) /\ m.lu[p] = l /\ m.page[p] = pg /\ m.found = p
    BY <1>4, <2>1, <2>2, <2>3, <2>4, ReachedFine
  <2>6. m.lu[src] = f.lu[src] /\ m.page[src] = f.page[src]
    BY <1>2, <2>5 DEF Kept
  <2>7. Kept(f, m, {})
    BY <1>1, <2>5, KeptTwice
  <2>8. CASE ~Ok(m)
    <3>1. Kept(f, m, {src})
      BY <2>7 DEF Kept
    <3> QED
      BY <2>2, <2>5, <2>6, <2>8, <3>1 DEF Moved
  <2>9. CASE Ok(m)
    <3>1. Powered(m)
      BY <2>2 DEF Reached
    <3>2. Deleted(m, w, src)
      BY <2>2, <2>9
    <3>3. FineOrLost(w) /\ Kept(m, w, {src}) /\ (Ok(w) => w.found = p)
      BY <2>5, <2>6, <2>9, <3>1, <3>2, DeletedFine
    <3>4. p # src /\ IsBusy(l)
      BY <1>2, <2>1, IdAssumption DEF IsBusy
    <3>5. w.lu[p] = l /\ w.page[p] = pg
      BY <2>1, <2>5, <2>9, <3>3, <3>4 DEF Kept
    <3>6. Kept(f, w, {src})
      BY <2>7, <3>3, KeptTwice
    <3> QED
      BY <2>1, <3>3, <3>5, <3>6 DEF Moved
  <2> QED
    BY <2>8, <2>9
<1> QED
  BY <1>3, <1>4

\* What the pages written look like.
LEMMA NewIsClean ==
    ASSUME NEW l \in ObjId, NEW c \in Contents
    PROVE  /\ CleanEntry(l, NewPage(l, c)) /\ SaneEntry(FREE, Unfinished(l, c))
           /\ SaneEntry(l, Unfinished(l, c))
           /\ With(Unfinished(l, c), {"INDEX", "USED", "FINAL"}) = NewPage(l, c)
           /\ \A w, p : w.lu[p] = l /\ w.page[p] = NewPage(l, c) => Holds(w, p, l, c)
<1>1. /\ NewPage(l, c).id = l /\ NewPage(l, c).span = 0
      /\ NewPage(l, c).flags = {"INDEX", "USED", "FINAL"}
      /\ NewPage(l, c).body = Body(c)
  BY DEF NewPage, Header
<1>2. Unfinished(l, c).flags = {"INDEX", "USED"}
  BY DEF NewPage, Unfinished, Header
<1>3. With(Unfinished(l, c), {"INDEX", "USED", "FINAL"}) = NewPage(l, c)
  BY DEF With, Unfinished, NewPage, Header
<1>4. l # FREE
  BY IdAssumption
<1>5. \A w, p : w.lu[p] = l /\ w.page[p] = NewPage(l, c) => Holds(w, p, l, c)
  BY <1>1 DEF Holds, Valid
<1> QED
  BY <1>1, <1>2, <1>3, <1>4, <1>5 DEF CleanEntry, SaneEntry

LEMMA CopyMoved ==
    ASSUME NEW f, Fine(f), NEW src \in Page, NEW l \in ObjId, f.lu[src] = l,
           NEW w, Copies(f, w, l, src)
    PROVE  Moved(f, w, src, l, f.page[src])
<1> DEFINE pg == f.page[src]
<1>1. IsBusy(f.lu[src])
  BY IdAssumption DEF IsBusy
<1>2. CleanEntry(l, pg) /\ "USED" \in pg.flags
  BY <1>1 DEF Fine, CleanEntry
<1>3. PICK g : /\ Finds(f, g)
               /\ IF Ok(g)
                  THEN Moves(g, w, g.found, src,
                             {<<FREE, g.page[g.found]>>, <<FREE, CopyOf(g, src)>>},
                             <<l, CopyOf(g, src)>>)
                  ELSE w = g
  BY DEF Copies
<1> DEFINE cuts == {<<FREE, g.page[g.found]>>, <<FREE, CopyOf(g, src)>>}
<1>4. ASSUME Ok(g) PROVE CopyOf(g, src) = pg /\ g.page[g.found] = Erased
  <2>1. Powered(g) /\ g.page[g.found] = Erased /\ Kept(f, g, {})
    BY <1>3, <1>4, FindsFine
  <2>2. g.page[src] = pg /\ g.page[src] \in PageSet
    BY <1>1, <2>1 DEF Kept, Powered, State
  <2> HIDE DEF pg
  <2> QED
    BY <2>1, <2>2, ProgErased DEF CopyOf
<1>5. ASSUME Ok(g) PROVE \A y \in cuts : SaneEntry(y[1], y[2])
  <2>1. cuts = {<<FREE, Erased>>, <<FREE, pg>>}
    BY <1>4, <1>5
  <2>2. SaneEntry(FREE, Erased) /\ SaneEntry(FREE, pg)
    BY <1>2, ErasedIsClean, IdAssumption DEF SaneEntry
  <2> HIDE DEF cuts, pg
  <2> QED
    BY <2>1, <2>2
<1>6. IF Ok(g) THEN Moves(g, w, g.found, src, cuts, <<l, pg>>) ELSE w = g
  BY <1>3, <1>4
<1> HIDE DEF cuts, pg
<1>7. Moved(f, w, src, l, pg)
  BY <1>1, <1>2, <1>3, <1>5, <1>6, MovesMoved
<1> QED
  BY <1>7 DEF pg

LEMMA RewriteMoved ==
    ASSUME NEW f, Fine(f), NEW src \in Page, NEW l \in ObjId, f.lu[src] = l,
           NEW c \in Contents, NEW w, Rewrites(f, w, l, c, src)
    PROVE  Moved(f, w, src, l, NewPage(l, c))
<1> DEFINE pg == NewPage(l, c)
           un == Unfinished(l, c)
<1>1. IsBusy(f.lu[src])
  BY IdAssumption DEF IsBusy
<1>2. /\ CleanEntry(l, pg) /\ SaneEntry(FREE, un) /\ SaneEntry(l, un)
      /\ With(un, {"INDEX", "USED", "FINAL"}) = pg /\ un \in PageSet
      /\ SaneEntry(FREE, Erased)
  BY NewIsClean, ProgrammedType, ErasedIsClean, IdAssumption
<1>3. PICK g : /\ Finds(f, g)
               /\ IF Ok(g)
                  THEN Moves(g, w, g.found, src,
                         {<<FREE, g.page[g.found]>>, <<FREE, Started(g, l, c)>>,
                          <<l, Started(g, l, c)>>},
                         <<l, With(Started(g, l, c), {"INDEX", "USED", "FINAL"})>>)
                  ELSE w = g
  BY DEF Rewrites
<1> DEFINE cuts == {<<FREE, g.page[g.found]>>, <<FREE, Started(g, l, c)>>,
                    <<l, Started(g, l, c)>>}
<1> HIDE DEF pg
<1>4. ASSUME Ok(g) PROVE Started(g, l, c) = un /\ g.page[g.found] = Erased
  BY <1>2, <1>3, <1>4, FindsFine, ProgErased DEF Started
<1> HIDE DEF un
<1>5. ASSUME Ok(g) PROVE \A y \in cuts : SaneEntry(y[1], y[2])
  <2>1. cuts = {<<FREE, Erased>>, <<FREE, un>>, <<l, un>>}
    BY <1>4, <1>5
  <2> HIDE DEF cuts
  <2> QED
    BY <1>2, <2>1
<1>6. IF Ok(g) THEN Moves(g, w, g.found, src, cuts, <<l, pg>>) ELSE w = g
  BY <1>2, <1>3, <1>4
<1> HIDE DEF cuts
<1>7. Moved(f, w, src, l, pg)
  BY <1>1, <1>2, <1>3, <1>5, <1>6, MovesMoved
<1> QED
  BY <1>7 DEF pg

\* What spiffs_page_allocate_data writes, one after the other.
LEMMA StagedPage ==
    ASSUME NEW l \in ObjId, NEW c \in Contents
    PROVE  /\ Stage(Erased, l, c).head = HeaderUsed(l)
           /\ "FINAL" \notin Stage(Erased, l, c).head.flags
           /\ "FINAL" \notin Stage(Erased, l, c).body.flags
           /\ With(Stage(Erased, l, c).body, {"FINAL"}) = NewPage(l, c)
<1> DEFINE h == HeaderUsed(l)
           b == ProgPage(h, BodyPage(c))
<1>1. h \in PageSet /\ BodyPage(c) \in PageSet
  BY ProgrammedType
<1>2. ProgPage(Erased, h) = h
  BY <1>1, ProgErased
<1>3. h = [id |-> l, span |-> 0, flags |-> {"INDEX", "USED"}, body |-> NoBody]
  <2>1. {"INDEX"} \cup {"USED"} = {"INDEX", "USED"}
    OBVIOUS
  <2> QED
    BY <2>1 DEF HeaderUsed, Header
<1>4. BodyPage(c) = [id |-> FREE, span |-> FREE, flags |-> {}, body |-> Body(c)]
  BY DEF BodyPage, Erased
<1>5. ProgBody(NoBody, Body(c)) = Body(c)
  <2> DEFINE bp == BodyPage(c)
  <2>1. ProgPage(Erased, bp) = bp
    BY <1>1, ProgErased
  <2>2. ProgPage(Erased, bp).body = ProgBody(NoBody, bp.body)
    BY DEF ProgPage, Erased
  <2>3. bp.body = Body(c)
    BY <1>4
  <2> HIDE DEF bp
  <2> QED
    BY <2>1, <2>2, <2>3
<1>6. b = [id |-> l, span |-> 0, flags |-> {"INDEX", "USED"}, body |-> Body(c)]
  <2>1. Prog(l, FREE, FREE) = l /\ Prog(0, FREE, FREE) = 0
    BY DEF Prog
  <2>2. {"INDEX", "USED"} \cup {} = {"INDEX", "USED"}
    OBVIOUS
  <2> HIDE DEF h
  <2> QED
    BY <1>3, <1>4, <1>5, <2>1, <2>2 DEF ProgPage
<1>7. Stage(Erased, l, c) = [head |-> h, body |-> b]
  BY <1>2 DEF Stage
<1>8. With(b, {"FINAL"}) = NewPage(l, c)
  <2>1. {"INDEX", "USED"} \cup {"FINAL"} = {"INDEX", "USED", "FINAL"}
    OBVIOUS
  <2> HIDE DEF b
  <2>2. With(b, {"FINAL"}) = [id |-> l, span |-> 0,
                              flags |-> {"INDEX", "USED", "FINAL"}, body |-> Body(c)]
    BY <1>6, <2>1 DEF With
  <2>3. NewPage(l, c) = [id |-> l, span |-> 0,
                         flags |-> {"INDEX", "USED", "FINAL"}, body |-> Body(c)]
    <3> DEFINE F == {"INDEX", "USED", "FINAL"}
               G == {"INDEX"}
               B == Body(c)
               N == NoBody
    <3>1. NewPage(l, c) = [[id |-> l, span |-> 0, flags |-> G, body |-> N]
                              EXCEPT !.flags = F, !.body = B]
      BY DEF NewPage, Header
    <3> HIDE DEF F, G, B, N
    <3>2. NewPage(l, c) = [id |-> l, span |-> 0, flags |-> F, body |-> B]
      BY <3>1
    <3> QED
      BY <3>2 DEF F, B
  <2> QED
    BY <2>2, <2>3
<1>9. "FINAL" \notin h.flags /\ "FINAL" \notin b.flags
  BY <1>3, <1>6
<1> HIDE DEF h, b
<1> QED
  BY <1>7, <1>8, <1>9 DEF h

\* A new page of l.
Added(f, w, l, c) ==
    /\ FineOrLost(w) /\ Kept(f, w, {})
    /\ Ok(w) => w.found \in Page /\ Holds(w, w.found, l, c)

LEMMA AllocateAdded ==
    ASSUME NEW f, Fine(f), NEW l \in ObjId, NEW c \in Contents,
           NEW w, Allocates(f, w, l, c)
    PROVE  Added(f, w, l, c)
<1>1. PICK g : /\ Finds(f, g)
               /\ IF Ok(g) THEN Reached(g, w, g.found, AllocateCuts(g, l, c),
                                        AllocateNow(g, l, c))
                  ELSE w = g
  BY DEF Allocates
<1>2. /\ FineOrLost(g) /\ Kept(f, g, {})
      /\ Ok(g) => /\ Powered(g) /\ Fine(g) /\ g.found \in Page
                  /\ g.lu[g.found] = FREE /\ g.page[g.found] = Erased
  BY <1>1, FindsFine
<1>3. CASE ~Ok(g)
  BY <1>1, <1>2, <1>3 DEF Added
<1>4. CASE Ok(g)
  <2> DEFINE p == g.found
             cuts == AllocateCuts(g, l, c)
             now == AllocateNow(g, l, c)
             hd == Stage(Erased, l, c).head
             bd == Stage(Erased, l, c).body
  <2>1. Powered(g) /\ Fine(g) /\ p \in Page /\ g.lu[p] = FREE /\ p = g.found
    BY <1>2, <1>4
  <2>2. now = <<l, NewPage(l, c)>>
    BY <1>2, <1>4, StagedPage DEF AllocateNow
  <2>3. cuts = {<<FREE, Erased>>, <<l, Erased>>, <<l, hd>>, <<l, bd>>}
    BY <1>2, <1>4 DEF AllocateCuts
  <2>4. "FINAL" \notin hd.flags /\ "FINAL" \notin bd.flags
    BY StagedPage
  <2>5. Reached(g, w, p, cuts, now)
    BY <1>1, <1>4
  <2> HIDE DEF p, cuts, now, hd, bd
  <2>6. \A y \in cuts : SaneEntry(y[1], y[2])
    <3>1. /\ SaneEntry(FREE, Erased) /\ SaneEntry(l, Erased)
          /\ SaneEntry(l, hd) /\ SaneEntry(l, bd)
      BY <2>4, IdAssumption DEF SaneEntry, Erased
    <3> QED
      BY <2>3, <3>1
  <2>7. now[1] = l /\ now[2] = NewPage(l, c)
    BY <2>2
  <2>8. CleanEntry(now[1], now[2])
    BY <2>7, NewIsClean
  <2>9. /\ FineOrLost(w) /\ Kept(g, w, {})
        /\ Ok(w) => w.lu[p] = l /\ w.page[p] = NewPage(l, c) /\ w.found = p
    BY <2>1, <2>5, <2>6, <2>7, <2>8, ReachedFine
  <2>10. Ok(w) => Holds(w, p, l, c)
    BY <2>9, NewIsClean
  <2>11. Kept(f, w, {})
    BY <1>2, <2>9, KeptTwice
  <2> QED
    BY <2>1, <2>9, <2>10, <2>11 DEF Added
<1> QED
  BY <1>3, <1>4

----------------------------------------------------------------------------
(* The invariant of the contents.                                          *)

\* A page is referred to as long as its content is wanted, and holds it.
KeptFor(l) ==
    /\ want[l] # NoContent <=> ref[l] # NoPage
    /\ ref[l] # NoPage => Holds(fs, ref[l], l, want[l])

\* After a power loss the chip is sane; mounting stamps every block; what
\* SPIFFS_check leaves is fine.
ChipInv ==
    /\ Sane(fs)
    /\ mounted # "no" => AllMagic(fs)
    /\ mounted = "yes" => Fine(fs)

ContentInv == ChipInv /\ \A l \in ObjId : KeptFor(l)

LEMMA SaneAlike ==
    ASSUME NEW f, Sane(f), NEW w, w.lu = f.lu, w.page = f.page, w.magic = f.magic
    PROVE  Sane(w)
BY DEF Sane

LEMMA HoldsAlike ==
    ASSUME NEW f, NEW w, NEW p, NEW l, NEW c, Holds(f, p, l, c),
           w.lu[p] = f.lu[p], w.page[p] = f.page[p]
    PROVE  Holds(w, p, l, c)
BY DEF Holds

\* What the end of an operation makes of it.
LEMMA LeavesChip ==
    ASSUME NEW f, FineOrLost(f), Leaves(f), mounted = "yes"
    PROVE  ChipInv'
<1>1. fs'.lu = f.lu /\ fs'.page = f.page /\ fs'.magic = f.magic
  BY DEF Leaves
<1>2. CASE Fine(f)
  <2>1. Fine(fs')
    BY <1>1, <1>2, FineAlike
  <2>2. Sane(fs')
    BY <2>1, FineIsSane
  <2> QED
    BY <2>1, <2>2 DEF ChipInv, Fine
<1>3. CASE PowerLost(f) /\ Sane(f)
  <2>1. mounted' = "no"
    BY <1>3 DEF Leaves
  <2>2. Sane(fs')
    BY <1>1, <1>3, SaneAlike
  <2> QED
    BY <2>1, <2>2 DEF ChipInv
<1> QED
  BY <1>2, <1>3 DEF FineOrLost

\* A page that an operation leaves alone.
LEMMA StaysKept ==
    ASSUME IInv, NEW m \in ObjId, KeptFor(m), NEW D, Kept(fs, fs', D),
           ref'[m] = ref[m], want'[m] = want[m], ref[m] \notin D
    PROVE  KeptFor(m)'
<1>1. CASE ref[m] = NoPage
  BY <1>1 DEF KeptFor
<1>2. CASE ref[m] # NoPage
  <2> DEFINE p == ref[m]
             c == want[m]
  <2>1. p \in Page /\ fs.lu[p] = m /\ Holds(fs, p, m, c)
    BY <1>2 DEF IInv, TypeOK, RefsFound, KeptFor
  <2>2. IsBusy(fs.lu[p])
    BY <2>1, IdAssumption DEF IsBusy
  <2>3. fs'.lu[p] = fs.lu[p] /\ fs'.page[p] = fs.page[p]
    BY <2>1, <2>2 DEF Kept
  <2> HIDE DEF p, c
  <2>4. Holds(fs', p, m, c)
    BY <2>1, <2>3, HoldsAlike
  <2>5. ref'[m] = p /\ want'[m] = c /\ p # NoPage /\ c # NoContent
    BY <1>2 DEF p, c, KeptFor
  <2> QED
    BY <2>4, <2>5 DEF KeptFor
<1> QED
  BY <1>1, <1>2

\* The pages of the others are elsewhere.
LEMMA OthersKept ==
    ASSUME IInv, ContentInv, NEW src \in Page, NEW l \in ObjId, fs.lu[src] = l,
           Kept(fs, fs', {src}), NEW m \in ObjId \ {l},
           ref'[m] = ref[m], want'[m] = want[m]
    PROVE  KeptFor(m)'
<1>1. ref[m] # src
  <2>1. ASSUME ref[m] # NoPage PROVE fs.lu[ref[m]] = m
    BY <2>1 DEF IInv, RefsFound
  <2> QED
    BY <2>1, IdAssumption
<1>2. ref[m] \notin {src} /\ KeptFor(m)
  BY <1>1 DEF ContentInv
<1> QED
  BY <1>2, StaysKept

\* An operation that leaves the index alone.
LEMMA AllStayKept ==
    ASSUME IInv, ContentInv, NEW D, Kept(fs, fs', D), UNCHANGED <<want, ref>>,
           \A m \in ObjId : ref[m] \notin D
    PROVE  \A m \in ObjId : KeptFor(m)'
BY StaysKept DEF ContentInv

LEMMA ArmedFine ==
    ASSUME Faults \subseteq {"power"}, IInv, ContentInv, mounted = "yes",
           NEW k \in Faults \cup {"none"}, NEW n \in 0 .. MaxWrites,
           NEW a, a = Armed(k, n)
    PROVE  /\ Powered(a) /\ Ok(a) /\ Fine(a)
           /\ a.lu = fs.lu /\ a.page = fs.page
<1>1. fs \in State /\ fs.res = "OK" /\ Fine(fs)
  BY DEF IInv, TypeOK, ContentInv, ChipInv
<1>2. /\ Powered(a) /\ Ok(a) /\ a.lu = fs.lu /\ a.page = fs.page
      /\ a.magic = fs.magic
  BY <1>1, ArmedKeeps
<1> QED
  BY <1>1, <1>2, FineAlike

LEMMA LeavesKept ==
    ASSUME NEW a, a.lu = fs.lu, a.page = fs.page, NEW f, NEW D, Kept(a, f, D),
           Leaves(f)
    PROVE  Kept(fs, fs', D)
BY DEF Kept, Leaves

\* A page of l that the index refers to moves; if the move is cut short, the
\* index is bound to the old page or to the new one.
LEMMA MovedKept ==
    ASSUME IInv, ContentInv, mounted = "yes",
           NEW l \in ObjId, NEW src \in Page, ref[l] = src,
           NEW c \in Contents, NEW a, a.lu = fs.lu, a.page = fs.page,
           NEW f \in State, NEW pg, Moved(a, f, src, l, pg),
           \A w, p : w.lu[p] = l /\ w.page[p] = pg => Holds(w, p, l, c),
           Leaves(f),
           IF f.res = "OK"
           THEN /\ ref'  = [ref EXCEPT ![l] = f.found]
                /\ want' = [want EXCEPT ![l] = c]
           ELSE Rebind(f, l, want[l], c)
    PROVE  ContentInv'
<1>1. ChipInv'
  BY LeavesChip DEF Moved
<1>2. /\ ref \in [ObjId -> Page \cup {NoPage}]
      /\ want \in [ObjId -> Contents \cup {NoContent}]
      /\ NoPage \notin Page /\ NoContent \notin Contents
  BY IdAssumption DEF IInv, TypeOK
<1>3. fs.lu[src] = l /\ Holds(fs, src, l, want[l]) /\ want[l] \in Contents
  BY <1>2 DEF ContentInv, KeptFor, IInv, RefsFound
<1>4. fs'.lu = f.lu /\ fs'.page = f.page
  BY DEF Leaves
<1>5. \E p \in Page, d \in {want[l], c} :
          Holds(f, p, l, d) /\ ref' = [ref EXCEPT ![l] = p] /\ want' = [want EXCEPT ![l] = d]
  <2>1. CASE f.res = "OK"
    <3>1. f.found \in Page /\ Holds(f, f.found, l, c)
      BY <2>1 DEF Moved, Ok
    <3> QED
      BY <2>1, <3>1
  <2>2. CASE f.res # "OK"
    <3>1. \E p \in Page, d \in {want[l], c} : Holds(f, p, l, d)
      <4>1. CASE f.lu[src] = a.lu[src] /\ f.page[src] = a.page[src]
        <5>1. f.lu[src] = fs.lu[src] /\ f.page[src] = fs.page[src]
          BY <4>1
        <5>2. Holds(f, src, l, want[l])
          BY <1>3, <5>1, HoldsAlike
        <5> QED
          BY <5>2
      <4>2. CASE \E p \in Page : f.lu[p] = l /\ f.page[p] = pg
        BY <4>2
      <4> QED
        BY <4>1, <4>2 DEF Moved
    <3>2. Rebind(f, l, want[l], c)
      BY <2>2
    <3> QED
      BY <3>1, <3>2 DEF Rebind
  <2> QED
    BY <2>1, <2>2
<1>6. PICK p \in Page, d \in {want[l], c} :
          Holds(f, p, l, d) /\ ref' = [ref EXCEPT ![l] = p] /\ want' = [want EXCEPT ![l] = d]
  BY <1>5
<1>7. KeptFor(l)'
  <2>1. ref'[l] = p /\ want'[l] = d /\ p # NoPage /\ d # NoContent
    BY <1>2, <1>3, <1>6
  <2>2. Holds(fs', p, l, d)
    BY <1>4, <1>6, HoldsAlike
  <2> QED
    BY <2>1, <2>2 DEF KeptFor
<1>8. ASSUME NEW m \in ObjId \ {l} PROVE KeptFor(m)'
  <2>1. ref'[m] = ref[m] /\ want'[m] = want[m]
    BY <1>2, <1>6
  <2>2. Kept(fs, fs', {src})
    BY LeavesKept DEF Moved
  <2> QED
    BY <1>3, <2>1, <2>2, OthersKept
<1> QED
  BY <1>1, <1>7, <1>8 DEF ContentInv

LEMMA ContentAllocate ==
    ASSUME Faults \subseteq {"power"}, IInv, ContentInv,
           NEW k \in Faults \cup {"none"}, NEW n \in 0 .. MaxWrites,
           NEW l \in ObjId, NEW c \in Contents, Allocate(l, c, k, n)
    PROVE  ContentInv'
<1> DEFINE a == Armed(k, n)
           f == PageAllocateData(a, Header(l), Body(c), TRUE)
<1>1. /\ Finish(f) /\ mounted = "yes" /\ want[l] = NoContent
      /\ IF f.res = "OK" THEN /\ ref'  = [ref EXCEPT ![l] = f.found]
                              /\ want' = [want EXCEPT ![l] = c]
                         ELSE UNCHANGED <<want, ref>>
  BY DEF Allocate, Ready
<1>2. Powered(a) /\ Ok(a) /\ Fine(a) /\ a.lu = fs.lu /\ a.page = fs.page
  BY <1>1, ArmedFine
<1> HIDE DEF a
<1>3. Allocates(a, f, l, c)
  BY <1>2, AllocateRuns
<1> HIDE DEF f
<1>4. Added(a, f, l, c)
  BY <1>2, <1>3, AllocateAdded
<1>5. f \in State
  BY <1>3, AllocateAdds, AddsState
<1>6. Leaves(f)
  BY <1>1, <1>5, FinishKeeps
<1>7. ChipInv'
  BY <1>1, <1>4, <1>6, LeavesChip DEF Added
<1>8. Kept(fs, fs', {})
  BY <1>2, <1>4, <1>6, LeavesKept DEF Added
<1>9. CASE f.res # "OK"
  <2>1. UNCHANGED <<want, ref>> /\ \A m \in ObjId : ref[m] \notin {}
    BY <1>1, <1>9
  <2>2. \A m \in ObjId : KeptFor(m)'
    BY <1>8, <2>1, AllStayKept
  <2> QED
    BY <1>7, <2>2 DEF ContentInv
<1>10. CASE f.res = "OK"
  <2>1. f.found \in Page /\ Holds(f, f.found, l, c)
    BY <1>4, <1>10 DEF Added, Ok
  <2>2. ref' = [ref EXCEPT ![l] = f.found] /\ want' = [want EXCEPT ![l] = c]
    BY <1>1, <1>10
  <2>3. /\ ref \in [ObjId -> Page \cup {NoPage}]
        /\ want \in [ObjId -> Contents \cup {NoContent}]
    BY DEF IInv, TypeOK
  <2> DEFINE p == f.found
  <2>4. ref'[l] = p /\ want'[l] = c /\ p # NoPage /\ c # NoContent
    BY <2>1, <2>2, <2>3, IdAssumption
  <2>5. fs'.lu[p] = f.lu[p] /\ fs'.page[p] = f.page[p] /\ Holds(f, p, l, c)
    BY <1>6, <2>1 DEF Leaves
  <2> HIDE DEF p
  <2>6. Holds(fs', p, l, c)
    BY <2>5, HoldsAlike
  <2>7. KeptFor(l)'
    BY <2>4, <2>6 DEF KeptFor
  <2>8. ASSUME NEW m \in ObjId \ {l} PROVE KeptFor(m)'
    <3>1. ref'[m] = ref[m] /\ want'[m] = want[m] /\ ref[m] \notin {} /\ KeptFor(m)
      BY <2>2, <2>3 DEF ContentInv
    <3> QED
      BY <1>8, <3>1, StaysKept
  <2> QED
    BY <1>7, <2>7, <2>8 DEF ContentInv
<1> QED
  BY <1>9, <1>10

LEMMA ContentRewrite ==
    ASSUME Faults \subseteq {"power"}, IInv, ContentInv,
           NEW k \in Faults \cup {"none"}, NEW n \in 0 .. MaxWrites,
           NEW l \in ObjId, NEW c \in Contents,
           Rewrite(l, c, k, n) \/ GcStoreIndex(l, c, k, n)
    PROVE  ContentInv'
<1> DEFINE a == Armed(k, n)
           src == ref[l]
           f == PageMove(a, l, src, NewPage(l, c))
<1>1. /\ Finish(f) \/ FinishClean(f, FALSE)
      /\ mounted = "yes" /\ src \in Page /\ fs.lu[src] = l
      /\ IF f.res = "OK" THEN /\ ref'  = [ref EXCEPT ![l] = f.found]
                              /\ want' = [want EXCEPT ![l] = c]
                         ELSE Rebind(f, l, want[l], c)
  BY DEF Rewrite, GcStoreIndex, Ready, Cleaning, Live, IInv, TypeOK, RefsFound, NewPage
<1>2. Powered(a) /\ Ok(a) /\ Fine(a) /\ a.lu = fs.lu /\ a.page = fs.page
  BY <1>1, ArmedFine
<1>3. src = ref[l]
  OBVIOUS
<1> HIDE DEF a, src
<1>4. Rewrites(a, f, l, c, src)
  BY <1>1, <1>2, RewriteRuns
<1> HIDE DEF f
<1>5. Moved(a, f, src, l, NewPage(l, c))
  BY <1>1, <1>2, <1>4, RewriteMoved
<1>6. f \in State
  BY <1>4, RewriteRelocates, RelocatesState
<1>7. Leaves(f)
  BY <1>1, <1>6, FinishKeeps, FinishCleanKeeps
<1>8. \A w, p : w.lu[p] = l /\ w.page[p] = NewPage(l, c) => Holds(w, p, l, c)
  BY NewIsClean
<1> QED
  BY <1>1, <1>2, <1>3, <1>5, <1>6, <1>7, <1>8, MovedKept

LEMMA ContentGcEvacuate ==
    ASSUME Faults \subseteq {"power"}, IInv, ContentInv,
           NEW k \in Faults \cup {"none"}, NEW n \in 0 .. MaxWrites,
           NEW p \in Page, GcEvacuate(p, k, n)
    PROVE  ContentInv'
<1> DEFINE a == Armed(k, n)
           l == fs.lu[p]
           f == PageMove(a, l, p, Erased)
           pg == a.page[p]
<1>1. /\ FinishClean(f, TRUE) /\ mounted = "yes" /\ l \in ObjId
      /\ ref[l] # NoPage /\ l = fs.lu[p]
      /\ IF ref[l] = p
         THEN IF f.res = "OK"
              THEN ref' = [ref EXCEPT ![l] = f.found] /\ UNCHANGED want
              ELSE Rebind(f, l, want[l], want[l])
         ELSE UNCHANGED <<want, ref>>
  BY DEF GcEvacuate, Cleaning, Live
<1>2. Powered(a) /\ Ok(a) /\ Fine(a) /\ a.lu = fs.lu /\ a.page = fs.page
  BY <1>1, ArmedFine
<1> HIDE DEF a, l
<1>3. Copies(a, f, l, p)
  BY <1>1, <1>2, CopyRuns
<1> HIDE DEF f
<1>4. a.lu[p] = l
  BY <1>1, <1>2
<1>5. Moved(a, f, p, l, pg)
  BY <1>1, <1>2, <1>3, <1>4, CopyMoved
<1>6. f \in State
  BY <1>1, <1>3, CopyRelocates, RelocatesState
<1>7. Leaves(f)
  BY <1>1, <1>6, FinishCleanKeeps
<1>8. CASE ref[l] = p
  <2> DEFINE c == want[l]
  <2>1. Holds(fs, p, l, c) /\ c \in Contents
    BY <1>1, <1>8 DEF ContentInv, KeptFor, IInv, TypeOK
  <2>2. \A w, q : w.lu[q] = l /\ w.page[q] = pg => Holds(w, q, l, c)
    BY <1>2, <2>1 DEF Holds
  <2>3. want \in [ObjId -> Contents \cup {NoContent}]
    BY DEF IInv, TypeOK
  <2>4. want = [want EXCEPT ![l] = c]
    BY <1>1, <2>3
  <2>5. IF f.res = "OK" THEN /\ ref'  = [ref EXCEPT ![l] = f.found]
                             /\ want' = [want EXCEPT ![l] = c]
                        ELSE Rebind(f, l, want[l], c)
    BY <1>1, <1>8, <2>4
  <2> HIDE DEF c, pg
  <2> QED
    BY <1>1, <1>2, <1>5, <1>6, <1>7, <1>8, <2>1, <2>2, <2>5, MovedKept
<1>9. CASE ref[l] # p
  <2>1. UNCHANGED <<want, ref>>
    BY <1>1, <1>9
  <2>2. ChipInv'
    BY <1>1, <1>5, <1>7, LeavesChip DEF Moved
  <2>3. Kept(fs, fs', {p})
    BY <1>2, <1>5, <1>7, LeavesKept DEF Moved
  <2>4. ASSUME NEW m \in ObjId PROVE ref[m] \notin {p}
    <3>1. fs.lu[p] = l /\ p # NoPage
      BY <1>1, IdAssumption
    <3>2. ref[m] # NoPage => fs.lu[ref[m]] = m
      BY DEF IInv, RefsFound
    <3> QED
      BY <1>9, <3>1, <3>2
  <2>5. \A m \in ObjId : KeptFor(m)'
    BY <2>1, <2>3, <2>4, AllStayKept
  <2> QED
    BY <2>2, <2>5 DEF ContentInv
<1> QED
  BY <1>8, <1>9

\* A busy page that nothing refers to any more is deleted.
LEMMA DeletedKept ==
    ASSUME NEW a, Powered(a), Fine(a), a.lu = fs.lu, a.page = fs.page,
           NEW q \in Page, IsBusy(fs.lu[q]), NEW f, Deleted(a, f, q),
           mounted = "yes", Leaves(f)
    PROVE  ChipInv' /\ Kept(fs, fs', {q})
<1>1. FineOrLost(f) /\ Kept(a, f, {q})
  BY DeletedFine
<1> QED
  BY <1>1, LeavesChip, LeavesKept

LEMMA ContentRemove ==
    ASSUME Faults \subseteq {"power"}, IInv, ContentInv,
           NEW k \in Faults \cup {"none"}, NEW n \in 0 .. MaxWrites,
           NEW l \in ObjId, Remove(l, k, n)
    PROVE  ContentInv'
<1> DEFINE a == Armed(k, n)
           q == ref[l]
           f == PageDelete(a, q)
<1>1. /\ Finish(f) /\ mounted = "yes" /\ q \in Page /\ fs.lu[q] = l
      /\ ref' = [ref EXCEPT ![l] = NoPage]
      /\ want' = [want EXCEPT ![l] = NoContent]
  BY DEF Remove, Ready, Live, IInv, TypeOK, RefsFound
<1>2. Powered(a) /\ Ok(a) /\ Fine(a) /\ a.lu = fs.lu /\ a.page = fs.page
  BY <1>1, ArmedFine
<1> HIDE DEF a, q
<1>3. Deleted(a, f, q)
  BY <1>1, <1>2, PageDeleted
<1> HIDE DEF f
<1>4. f \in State
  BY <1>3 DEF Deleted, Powered
<1>5. Leaves(f)
  BY <1>1, <1>4, FinishKeeps
<1>6. IsBusy(fs.lu[q])
  BY <1>1, IdAssumption DEF IsBusy
<1>7. ChipInv' /\ Kept(fs, fs', {q})
  BY <1>1, <1>2, <1>3, <1>5, <1>6, DeletedKept
<1>8. /\ ref \in [ObjId -> Page \cup {NoPage}]
      /\ want \in [ObjId -> Contents \cup {NoContent}]
  BY DEF IInv, TypeOK
<1>9. KeptFor(l)'
  <2>1. ref'[l] = NoPage /\ want'[l] = NoContent
    BY <1>1, <1>8
  <2> QED
    BY <2>1 DEF KeptFor
<1>10. ASSUME NEW m \in ObjId \ {l} PROVE KeptFor(m)'
  <2>1. ref'[m] = ref[m] /\ want'[m] = want[m]
    BY <1>1, <1>8
  <2> QED
    BY <1>1, <1>7, <2>1, OthersKept
<1> QED
  BY <1>7, <1>9, <1>10 DEF ContentInv

LEMMA ContentGcWipe ==
    ASSUME Faults \subseteq {"power"}, IInv, ContentInv,
           NEW k \in Faults \cup {"none"}, NEW n \in 0 .. MaxWrites,
           NEW q \in Page, GcWipe(q, k, n)
    PROVE  ContentInv'
<1> DEFINE a == Armed(k, n)
           f == PageDelete(a, q)
           o == gc.owed
<1>1. /\ FinishClean(f, o) /\ mounted = "yes" /\ UNCHANGED <<want, ref>>
      /\ IsBusy(fs.lu[q]) /\ fs.lu[q] \notin Live
  BY DEF GcWipe, Cleaning
<1>2. Powered(a) /\ Ok(a) /\ Fine(a) /\ a.lu = fs.lu /\ a.page = fs.page
  BY <1>1, ArmedFine
<1> HIDE DEF a, o
<1>3. Deleted(a, f, q)
  BY <1>2, PageDeleted
<1> HIDE DEF f
<1>4. f \in State
  BY <1>3 DEF Deleted, Powered
<1>5. Leaves(f)
  BY <1>1, <1>4, FinishCleanKeeps
<1>6. ChipInv' /\ Kept(fs, fs', {q})
  BY <1>1, <1>2, <1>3, <1>5, DeletedKept
<1>7. ASSUME NEW m \in ObjId PROVE ref[m] \notin {q}
  <2>1. q # NoPage
    BY IdAssumption
  <2>2. ref[m] # NoPage => fs.lu[ref[m]] \in Live
    BY DEF IInv, RefsFound, Live
  <2> QED
    BY <1>1, <2>1, <2>2
<1>8. \A m \in ObjId : KeptFor(m)'
  BY <1>1, <1>6, <1>7, AllStayKept
<1> QED
  BY <1>6, <1>8 DEF ContentInv

\* Blocks without busy pages are erased, or nothing happens.
LEMMA UnreadKept ==
    ASSUME IInv, ContentInv, mounted = "yes", NEW a, a.lu = fs.lu, a.page = fs.page,
           NEW f, FineOrLost(f), Kept(a, f, {}), Leaves(f), UNCHANGED <<want, ref>>
    PROVE  ContentInv'
<1>1. ChipInv'
  BY LeavesChip
<1>2. Kept(fs, fs', {})
  BY LeavesKept
<1>3. \A m \in ObjId : ref[m] \notin {}
  OBVIOUS
<1>4. \A m \in ObjId : KeptFor(m)'
  BY <1>2, <1>3, AllStayKept
<1> QED
  BY <1>1, <1>4 DEF ContentInv

LEMMA ContentQuickGc ==
    ASSUME Faults \subseteq {"power"}, IInv, ContentInv,
           NEW k \in Faults \cup {"none"}, NEW n \in 0 .. MaxWrites,
           NEW max \in 0 .. MaxFree, QuickGc(max, k, n)
    PROVE  ContentInv'
<1> DEFINE a == Armed(k, n)
           f == GcQuick(a, max)
<1>1. Finish(f) /\ mounted = "yes" /\ UNCHANGED <<want, ref>> /\ max \in Nat
  BY BoundAssumption DEF QuickGc, Ready
<1>2. Powered(a) /\ Ok(a) /\ Fine(a) /\ a.lu = fs.lu /\ a.page = fs.page
  BY <1>1, ArmedFine
<1> HIDE DEF a
<1>3. Clears(a, f, max)
  BY <1>1, <1>2, QuickClears
<1> HIDE DEF f
<1>4. FineOrLost(f) /\ Kept(a, f, {})
  BY <1>2, <1>3, ClearsFine
<1>5. f \in State
  BY <1>3 DEF Clears, Rests, Wiped, Emptied, Powered
<1>6. Leaves(f)
  BY <1>1, <1>5, FinishKeeps
<1> QED
  BY <1>1, <1>2, <1>4, <1>6, UnreadKept

LEMMA ContentGcErase ==
    ASSUME Faults \subseteq {"power"}, IInv, ContentInv,
           NEW k \in Faults \cup {"none"}, NEW n \in 0 .. MaxWrites,
           GcErase(k, n)
    PROVE  ContentInv'
<1> DEFINE r == Armed(k, n)
           b == gc.blk
           h == GcErasePageStats([r EXCEPT !.cleaning = FALSE], b)
           f == EraseBlock(h, b)
<1>1. /\ FinishClean(f, FALSE) /\ mounted = "yes" /\ b \in Block
      /\ PagesOf(fs, b, IsBusy) = {} /\ UNCHANGED <<want, ref>>
  BY DEF GcErase, Cleaning
<1>2. Powered(r) /\ Ok(r) /\ Fine(r) /\ r.lu = fs.lu /\ r.page = fs.page
  BY <1>1, ArmedFine
<1> HIDE DEF r, b
<1>3. Powered(h) /\ Ok(h) /\ h.lu = r.lu /\ h.page = r.page /\ h.magic = r.magic
  <2>1. h = GcErasePageStats([r EXCEPT !.cleaning = FALSE], b)
    OBVIOUS
  <2> HIDE DEF h
  <2> QED
    BY <1>1, <1>2, <2>1, AccountedKeeps
<1> HIDE DEF h
<1>4. Fine(h)
  BY <1>2, <1>3, FineAlike
<1>5. PagesOf(h, b, IsBusy) = {}
  BY <1>1, <1>2, <1>3 DEF PagesOf
<1>6. SameRam(h, h)
  BY DEF SameRam
<1>7. Wiped(h, f, b) \/ Rests(h, f)
  BY <1>1, <1>3, <1>6, EraseWipes
<1> HIDE DEF f
<1>8. FineOrLost(f) /\ Kept(h, f, {})
  BY <1>1, <1>4, <1>5, <1>7, WipedFine, RestsFine DEF FineOrLost
<1>9. f \in State
  BY <1>7 DEF Rests, Wiped, Emptied, Powered
<1>10. Leaves(f)
  BY <1>1, <1>9, FinishCleanKeeps
<1>11. h.lu = fs.lu /\ h.page = fs.page
  BY <1>2, <1>3
<1> QED
  BY <1>1, <1>8, <1>10, <1>11, UnreadKept

\* The chip is not touched.
LEMMA ContentAlike ==
    ASSUME ContentInv, fs'.lu = fs.lu, fs'.page = fs.page, fs'.magic = fs.magic,
           mounted' = mounted \/ mounted' = "no", UNCHANGED <<want, ref>>
    PROVE  ContentInv'
<1>1. Sane(fs')
  BY SaneAlike DEF ContentInv, ChipInv
<1>2. mounted' # "no" => AllMagic(fs')
  BY DEF ContentInv, ChipInv, AllMagic
<1>3. mounted' = "yes" => Fine(fs')
  BY FineAlike DEF ContentInv, ChipInv
<1>4. \A l \in ObjId : KeptFor(l)'
  BY HoldsAlike DEF ContentInv, KeptFor
<1> QED
  BY <1>1, <1>2, <1>3, <1>4 DEF ContentInv, ChipInv

\* SPIFFS_check deletes what is not finished or does not agree with the lookup.
LEMMA ContentCheck ==
    ASSUME Faults \subseteq {"power"}, IInv, ContentInv,
           NEW k \in Faults \cup {"none"}, NEW n \in 0 .. MaxWrites,
           NEW q \in Page, Check(q, k, n)
    PROVE  ContentInv'
<1> DEFINE a == Armed(k, n)
           f == PageDelete(a, q)
<1>1. /\ Finish(f) /\ mounted = "check" /\ UNCHANGED <<want, ref>>
      /\ \A m \in ObjId : ref[m] \notin {q}
  BY DEF Check
<1>2. /\ Powered(a) /\ Ok(a) /\ a.lu = fs.lu /\ a.page = fs.page
      /\ a.magic = fs.magic /\ fs \in State
  BY ArmedKeeps DEF IInv, TypeOK
<1> HIDE DEF a
<1>3. Deleted(a, f, q)
  BY <1>2, PageDeleted
<1> HIDE DEF f
<1>4. f \in State
  BY <1>3 DEF Deleted, Powered
<1>5. Leaves(f)
  BY <1>1, <1>4, FinishKeeps
<1>6. fs'.lu = f.lu /\ fs'.page = f.page /\ fs'.magic = fs.magic
  BY <1>2, <1>3, <1>5 DEF Leaves, Deleted
<1>7. fs.lu \in [Page -> Mark] /\ fs.page \in [Page -> PageSet]
  BY <1>2 DEF State
<1>8. \A x \in Page \ {q} : fs'.lu[x] = fs.lu[x] /\ fs'.page[x] = fs.page[x]
  BY <1>2, <1>3, <1>6, <1>7 DEF Deleted
<1>9. Kept(fs, fs', {q})
  BY <1>8 DEF Kept
<1>10. \A m \in ObjId : KeptFor(m)'
  BY <1>1, <1>9, AllStayKept
<1>11. Sane(fs) /\ AllMagic(fs)
  BY <1>1 DEF ContentInv, ChipInv
<1>12. SaneEntry(fs'.lu[q], fs'.page[q])
  <2>1. \/ fs'.lu[q] = fs.lu[q] /\ fs'.page[q] = fs.page[q]
        \/ fs'.lu[q] = DELETED /\ fs'.page[q] = fs.page[q]
        \/ fs'.lu[q] = DELETED /\ fs'.page[q] = With(fs.page[q], {"DELET", "USED"})
    BY <1>2, <1>3, <1>6, <1>7 DEF Deleted
  <2>2. SaneEntry(fs.lu[q], fs.page[q]) /\ fs.page[q] \in PageSet
    BY <1>7, <1>11 DEF Sane
  <2>3. "USED" \in With(fs.page[q], {"DELET", "USED"}).flags
    BY <2>2 DEF With, PageSet
  <2> QED
    BY <2>1, <2>2, <2>3, MarkAssumption DEF SaneEntry
<1>13. AllMagic(fs') /\ \A x \in Page : x[1] \in Block
  BY <1>6, <1>11 DEF AllMagic, Page
<1>14. Sane(fs')
  BY <1>8, <1>11, <1>12, <1>13 DEF Sane, AllMagic
<1>15. mounted' # "yes"
  BY <1>1, <1>5 DEF Leaves
<1>16. ChipInv'
  BY <1>13, <1>14, <1>15 DEF ChipInv
<1> QED
  BY <1>10, <1>16 DEF ContentInv

\* The scans find the pages that are referred to where they were.
LEMMA RelocatesAlike ==
    ASSUME IInv, NEW f, Kept(fs, f, {}), Relocate(f)
    PROVE  ref' = ref
<1>1. ref \in [ObjId -> Page \cup {NoPage}]
  BY DEF IInv, TypeOK
<1>2. ASSUME NEW l \in ObjId, ref[l] # NoPage PROVE f.lu[ref[l]] = l
  <2>1. ref[l] \in Page \ {} /\ fs.lu[ref[l]] = l
    BY <1>1, <1>2 DEF IInv, RefsFound
  <2>2. IsBusy(fs.lu[ref[l]])
    BY <2>1, IdAssumption DEF IsBusy
  <2> QED
    BY <2>1, <2>2 DEF Kept
<1>3. \A l \in ObjId : ref'[l] = ref[l]
  BY <1>2 DEF Relocate
<1>4. ref' = [l \in ObjId |-> ref'[l]]
  BY DEF Relocate
<1>5. ref = [l \in ObjId |-> ref[l]]
  BY <1>1
<1> QED
  BY <1>3, <1>4, <1>5

\* The scan after SPIFFS_check finds every magic, and SPIFFS_check left only
\* pages that are referred to or agree with the lookup.
LEMMA ContentChecked ==
    ASSUME Faults \subseteq {"power"}, IInv, ContentInv,
           NEW k \in Faults \cup {"none"}, NEW n \in 0 .. MaxWrites,
           Checked(k, n)
    PROVE  ContentInv' /\ ref' = ref
<1> DEFINE to == IF mounted = "no" /\ CheckOnMount THEN "check" ELSE "yes"
<1>1. PICK f : Scans(fs, f) /\ ScanEnds(f, to) /\ Relocate(f)
  BY ScanStep
<1>2. /\ mounted = "check" /\ want' = want
      /\ \A p \in Page : Mendable(p) => \E l \in ObjId : ref[l] = p
  BY DEF Checked
<1>3. Sane(fs) /\ AllMagic(fs)
  BY <1>2 DEF ContentInv, ChipInv
<1>4. f.lu = fs.lu /\ f.page = fs.page /\ f.magic = fs.magic
  BY <1>1, <1>3 DEF Scans, AllMagic
<1>5. fs'.lu = fs.lu /\ fs'.page = fs.page /\ fs'.magic = fs.magic
  BY <1>1, <1>4 DEF ScanEnds
<1>6. ref' = ref
  <2>1. Kept(fs, f, {})
    BY <1>4 DEF Kept
  <2> QED
    BY <1>1, <2>1, RelocatesAlike
<1>7. ASSUME NEW p \in Page PROVE CleanEntry(fs.lu[p], fs.page[p])
  <2>1. SaneEntry(fs.lu[p], fs.page[p])
    BY <1>3 DEF Sane
  <2>2. CASE Mendable(p)
    <3>1. PICK l \in ObjId : ref[l] = p
      BY <1>2, <2>2
    <3>2. ref[l] # NoPage /\ l # FREE
      BY <3>1, IdAssumption
    <3>3. Holds(fs, p, l, want[l])
      BY <3>1, <3>2 DEF ContentInv, KeptFor
    <3> QED
      BY <3>2, <3>3 DEF Holds, Valid, CleanEntry
  <2>3. CASE ~Mendable(p)
    <3> DEFINE pg == fs.page[p]
               id == fs.lu[p]
    <3>1. /\ id = FREE => "USED" \notin pg.flags
          /\ IsBusy(id) => pg.id = id /\ "FINAL" \in pg.flags /\ "DELET" \notin pg.flags
      BY <2>3 DEF Mendable, IsFree
    <3> HIDE DEF pg, id
    <3>2. SaneEntry(id, pg)
      BY <2>1 DEF pg, id
    <3>3. CleanEntry(id, pg)
      BY <3>1, <3>2 DEF SaneEntry, CleanEntry
    <3> QED
      BY <3>3 DEF pg, id
  <2> QED
    BY <2>2, <2>3
<1>8. Fine(fs)
  BY <1>3, <1>7 DEF Fine
<1>9. Fine(fs') /\ Sane(fs')
  BY <1>5, <1>8, FineAlike, FineIsSane
<1>10. ChipInv'
  BY <1>9 DEF ChipInv, Fine
<1>11. \A l \in ObjId : KeptFor(l)'
  BY <1>2, <1>5, <1>6, HoldsAlike DEF ContentInv, KeptFor
<1> QED
  BY <1>6, <1>10, <1>11 DEF ContentInv

\* The mount scan erases no block but the one whose magic is missing, in which
\* there is nothing.
LEMMA ContentMount ==
    ASSUME Faults \subseteq {"power"}, CheckOnMount = TRUE, IInv, ContentInv,
           NEW k \in Faults \cup {"none"}, NEW n \in 0 .. MaxWrites,
           Mount(k, n)
    PROVE  ContentInv' /\ ref' = ref
<1> DEFINE to == IF mounted = "no" /\ CheckOnMount THEN "check" ELSE "yes"
<1>1. PICK f : Scans(fs, f) /\ ScanEnds(f, to) /\ Relocate(f)
  BY ScanStep
<1>2. mounted = "no" /\ want' = want
  BY DEF Mount
<1>3. Sane(fs) /\ \A x \in Page : x[1] \in Block
  BY DEF ContentInv, ChipInv, Page
<1>4. Sane(f) /\ Kept(fs, f, {})
  <2>1. CASE f.lu = fs.lu /\ f.page = fs.page /\ f.magic = fs.magic
    BY <1>3, <2>1, SaneAlike DEF Kept
  <2>2. ASSUME NEW b \in Block, ~fs.magic[b], f.lu = BlankLu(fs, b),
               f.page = BlankPage(fs, b),
               \A d \in Block \ {b} : f.magic[d] = fs.magic[d]
        PROVE  Sane(f) /\ Kept(fs, f, {})
    <3>1. \A x \in Page : /\ x[1] = b => f.lu[x] = FREE /\ f.page[x] = Erased
                          /\ x[1] # b => f.lu[x] = fs.lu[x] /\ f.page[x] = fs.page[x]
      BY <2>2 DEF BlankLu, BlankPage
    <3>2. \A x \in Page : SaneEntry(f.lu[x], f.page[x])
      BY <1>3, <3>1, ErasedIsClean, IdAssumption DEF Sane
    <3>3. \A x \in Page : ~f.magic[x[1]] => f.lu[x] = FREE
      BY <1>3, <2>2, <3>1 DEF Sane
    <3>4. \A x \in Page : IsBusy(fs.lu[x]) => x[1] # b
      BY <1>3, <2>2 DEF Sane, IsBusy
    <3>5. Kept(fs, f, {})
      BY <3>1, <3>4 DEF Kept
    <3> QED
      BY <3>2, <3>3, <3>5 DEF Sane
  <2> QED
    BY <1>1, <2>1, <2>2 DEF Scans
<1>5. ref' = ref
  BY <1>1, <1>4, RelocatesAlike
<1>6. /\ fs'.lu = f.lu /\ fs'.page = f.page /\ fs'.magic = f.magic
      /\ mounted' # "yes" /\ (mounted' # "no" => Ok(f))
  BY <1>1, <1>2 DEF ScanEnds
<1>7. Sane(fs') /\ Kept(fs, fs', {})
  BY <1>4, <1>6, SaneAlike DEF Kept
<1>8. mounted' # "no" => AllMagic(fs')
  BY <1>1, <1>6 DEF Scans, AllMagic
<1>9. ChipInv'
  BY <1>6, <1>7, <1>8 DEF ChipInv
<1>10. UNCHANGED <<want, ref>> /\ \A m \in ObjId : ref[m] \notin {}
  BY <1>2, <1>5
<1>11. \A m \in ObjId : KeptFor(m)'
  BY <1>7, <1>10, AllStayKept
<1> QED
  BY <1>5, <1>9, <1>11 DEF ContentInv

LEMMA InitContent == Init => ContentInv
<1> SUFFICES ASSUME Init PROVE ContentInv
  OBVIOUS
<1>1. /\ \A p \in Page : fs.lu[p] = FREE /\ fs.page[p] = Erased
      /\ \A b \in Block : fs.magic[b]
  BY DEF Init
<1>2. Fine(fs)
  BY <1>1, ErasedIsClean, IdAssumption DEF Fine, AllMagic
<1>3. ChipInv
  BY <1>2, FineIsSane DEF ChipInv, Fine
<1>4. \A l \in ObjId : KeptFor(l)
  BY DEF Init, KeptFor
<1> QED
  BY <1>3, <1>4 DEF ContentInv

\* No step breaks it.
LEMMA NextContent ==
    ASSUME Faults \subseteq {"power"}, CheckOnMount = TRUE
    PROVE  IInv /\ ContentInv /\ [Next]_vars => ContentInv'
<1> SUFFICES ASSUME IInv, ContentInv, [Next]_vars PROVE ContentInv'
  OBVIOUS
<1>1. ASSUME NEW k \in Faults \cup {"none"}, NEW n \in 0 .. MaxWrites,
             Operation(k, n)
      PROVE  ContentInv'
  BY <1>1, ContentAllocate, ContentRewrite, ContentRemove, ContentQuickGc,
     ContentGcEvacuate, ContentGcWipe, ContentGcErase, ContentCheck,
     ContentChecked, ContentMount DEF Operation
<1>2. CASE GcCheck(1)
  <2>1. PickBlock(0, 1) /\ UNCHANGED <<mounted, want, ref>>
    BY <1>2 DEF GcCheck
  <2>2. fs'.lu = fs.lu /\ fs'.page = fs.page /\ fs'.magic = fs.magic
    BY <2>1, PickKeeps
  <2> QED
    BY <2>1, <2>2, ContentAlike
<1>3. CASE GcLoop
  <2>1. UNCHANGED <<mounted, want, ref>>
    BY <1>3 DEF GcLoop
  <2>2. fs'.lu = fs.lu /\ fs'.page = fs.page /\ fs'.magic = fs.magic
    <3>1. CASE PickBlock(gc.tries + 1, gc.need)
      BY <3>1, PickKeeps
    <3>2. CASE UNCHANGED fs
      BY <3>2
    <3> QED
      BY <1>3, <3>1, <3>2 DEF GcLoop
  <2> QED
    BY <2>1, <2>2, ContentAlike
<1>4. CASE Unmount \/ PowerLoss
  <2>1. fs' = NoRam(fs) /\ mounted' = "no" /\ fs \in State /\ UNCHANGED <<want, ref>>
    BY <1>4 DEF Unmount, PowerLoss, IInv, TypeOK
  <2>2. fs'.lu = fs.lu /\ fs'.page = fs.page /\ fs'.magic = fs.magic
    BY <2>1 DEF NoRam, State
  <2> QED
    BY <2>1, <2>2, ContentAlike
<1>5. CASE UNCHANGED vars
  BY <1>5, ContentAlike DEF vars
<1> QED
  BY <1>1, <1>2, <1>3, <1>4, <1>5 DEF Next

\* A page that the lookup calls free was not programmed since its block was
\* erased, whenever the file system is mounted and checked: what a power loss
\* left half programmed, SPIFFS_check has deleted.
THEOREM FreeIsErased ==
    ASSUME Faults \subseteq {"power"}, CheckOnMount = TRUE
    PROVE  Spec => []FreeMeansErased
<1>1. "erase" \notin Faults
  OBVIOUS
<1>2. ContentInv => FreeMeansErased
  BY DEF ContentInv, ChipInv, Fine, CleanEntry, FreeMeansErased, IsFree
<1>3. IInv /\ [Next]_vars => IInv'
  BY <1>1, NextIInv
<1> QED
  BY <1>2, <1>3, InitIInv, InitContent, NextContent, PTL DEF Spec

\* Whatever write the power is lost at, and whatever is moved, collected and
\* erased in between, each page that an upper layer was told about is found
\* again, valid, with the content given to it last or being given to it then.
THEOREM NothingCommittedLost ==
    ASSUME Faults \subseteq {"power"}, CheckOnMount = TRUE
    PROVE  Spec => []CommittedSurvive
<1>1. "erase" \notin Faults
  OBVIOUS
<1>2. ContentInv => CommittedSurvive
  BY DEF ContentInv, KeptFor, CommittedSurvive
<1>3. IInv /\ [Next]_vars => IInv'
  BY <1>1, NextIInv
<1> QED
  BY <1>2, <1>3, InitIInv, InitContent, NextContent, PTL DEF Spec

\* Mounting finds each page where it was: the scan erases a block only when it
\* has no magic, and such a block was erased before and not used since.
THEOREM MountingKeepsPages ==
    ASSUME Faults \subseteq {"power"}, CheckOnMount = TRUE
    PROVE  Spec => MountKeepsPages
<1>1. "erase" \notin Faults
  OBVIOUS
<1>2. ASSUME IInv, ContentInv, [Next]_vars, mounted = "no"
      PROVE  ref' = ref
  <2>1. ASSUME NEW k \in Faults \cup {"none"}, NEW n \in 0 .. MaxWrites,
               Operation(k, n)
        PROVE  ref' = ref
    <3>1. Mount(k, n)
      BY <1>2, <2>1 DEF Operation, Allocate, Rewrite, GcStoreIndex, Remove, QuickGc,
         GcEvacuate, GcWipe, Check, GcErase, Checked, Ready, Cleaning
    <3> QED
      BY <1>2, <3>1, ContentMount
  <2>2. CASE UNCHANGED vars
    BY <2>2 DEF vars
  <2> QED
    BY <1>2, <2>1, <2>2 DEF Next, GcCheck, GcLoop, Unmount, PowerLoss, Ready, Cleaning
<1>3. IInv /\ ContentInv /\ [Next]_vars =>
          [mounted = "no" => \A l \in ObjId :
              want[l] # NoContent /\ ref[l] # NoPage => ref'[l] = ref[l]]_vars
  BY <1>2
<1>4. IInv /\ [Next]_vars => IInv'
  BY <1>1, NextIInv
<1> QED
  BY <1>3, <1>4, InitIInv, InitContent, NextContent, PTL DEF Spec, MountKeepsPages
=============================================================================
