----------------------- MODULE SpiffsReadCacheProofs -----------------------
(***************************************************************************)
(* Proofs about the cache: whatever is read, written, erased, evicted and  *)
(* whichever HAL calls fail, its copies are those of the chip, and nothing *)
(* above it can tell it from a chip without a cache.                       *)
(***************************************************************************)
EXTENDS SpiffsReadCache, FiniteSetTheorems, WellFoundedInduction, TLAPS

----------------------------------------------------------------------------
(* Choosing cache pages.                                                   *)

NatLess == {ss \in Nat \X Nat : ss[1] < ss[2]}

\* The order of the naturals is well-founded.
LEMMA NatLessIsWellFounded == IsWellFoundedOn(NatLess, Nat)
<1>1. OpToRel(<, Nat) = NatLess
  BY DEF OpToRel, NatLess
<1> QED BY <1>1, NatLessThanWellFounded

\* Lowest finds a cache page in every set of them that is not empty.
LEMMA LowestInSet ==
    ASSUME NEW S \in SUBSET Slot, S # {}
    PROVE  Lowest(S) \in S
<1>1. S \in SUBSET Nat
  BY CacheAssumption DEF Slot
<1>2. PICK x \in S : \A y \in S : ~(<<y, x>> \in NatLess)
  BY <1>1, NatLessIsWellFounded, WFMin
<1>3. ASSUME NEW y \in S PROVE x <= y
  <2>1. x \in Nat /\ y \in Nat
    BY <1>1
  <2>2. <<y, x>> \in NatLess <=> y < x
    BY <2>1 DEF NatLess
  <2> QED BY <1>2, <2>1, <2>2
<1> QED BY <1>3 DEF Lowest

----------------------------------------------------------------------------
(* What the functions of the cache leave alone.                            *)

Caches == [Slot -> CachePages]

\* d has no copy that c has not, and has all the write pages of c.
Within(c, d) ==
    /\ c \in Caches /\ d \in Caches
    /\ \A s \in Slot :
          /\ d[s].kind = "read" =>
                c[s].kind = "read" /\ d[s].of = c[s].of /\ d[s].mem = c[s].mem
          /\ c[s].kind = "write" => d[s].kind = "write" /\ d[s].of = c[s].of

\* An unused cache page is one.
LEMMA UnusedType == Unused \in CachePages /\ Unused.kind = "free"
BY DEF Unused, CachePages

\* A change of the age alone.
LEMMA AgeType ==
    ASSUME NEW x \in CachePages, NEW a \in Nat
    PROVE  LET y == [x EXCEPT !.age = a]
           IN  y \in CachePages /\ y.kind = x.kind /\ y.of = x.of
                 /\ y.mem = x.mem
BY DEF CachePages

\* Counting an access ages the pages and changes nothing else.
LEMMA OlderWithin ==
    ASSUME NEW c \in Caches
    PROVE  /\ Within(c, Older(c))
           /\ \A s \in Slot : Older(c)[s].kind = c[s].kind
<1>1. ASSUME NEW s \in Slot
      PROVE  /\ Older(c)[s] \in CachePages /\ Older(c)[s].kind = c[s].kind
             /\ Older(c)[s].of = c[s].of /\ Older(c)[s].mem = c[s].mem
  <2>1. c[s] \in CachePages /\ c[s].age \in Nat
    BY DEF Caches, CachePages
  <2>2. c[s].age + 1 \in Nat
    BY <2>1
  <2>3. Older(c)[s] = IF c[s].kind = "free" THEN c[s]
                      ELSE [c[s] EXCEPT !.age = c[s].age + 1]
    BY DEF Older
  <2> QED BY <2>1, <2>2, <2>3, AgeType
<1>2. Older(c) \in Caches
  BY <1>1 DEF Older, Caches
<1> QED BY <1>1, <1>2 DEF Within

\* So does replacing the ages by their ranks.
LEMMA RankedWithin ==
    ASSUME NEW c \in Caches
    PROVE  /\ Within(c, Ranked(c))
           /\ \A s \in Slot : Ranked(c)[s].kind = c[s].kind
                                /\ Ranked(c)[s].of = c[s].of
                                /\ Ranked(c)[s].mem = c[s].mem
<1>1. ASSUME NEW s \in Slot
      PROVE  /\ Ranked(c)[s] \in CachePages /\ Ranked(c)[s].kind = c[s].kind
             /\ Ranked(c)[s].of = c[s].of /\ Ranked(c)[s].mem = c[s].mem
  <2> DEFINE a == c[s].age
             R == {c[t].age : t \in Slot} \cap (1 .. a - 1)
             r == IF a = 0 THEN 0 ELSE 1 + Cardinality(R)
  <2>1. c[s] \in CachePages /\ a \in Nat
    BY DEF Caches, CachePages
  <2>2. IsFiniteSet(1 .. a - 1)
    BY <2>1, FS_Interval
  <2>3. Cardinality(R) \in Nat
    <3>1. R \in SUBSET (1 .. a - 1)
      OBVIOUS
    <3>2. IsFiniteSet(R)
      BY <2>2, <3>1, FS_Subset
    <3> QED BY <3>2, FS_CardinalityType
  <2>4. r \in Nat
    BY <2>3
  <2>5. Ranked(c)[s] = [c[s] EXCEPT !.age = r]
    BY DEF Ranked
  <2> HIDE DEF r
  <2> QED BY <2>1, <2>4, <2>5, AgeType
<1>2. Ranked(c) \in Caches
  BY <1>1 DEF Ranked, Caches
<1> QED BY <1>1, <1>2 DEF Within

\* Where something can be evicted, there is an oldest page to evict: of the
\* pages with the fewest pages older than they are, any will do.
LEMMA OldestEvictable ==
    ASSUME NEW c \in Caches, Evictable(c) # {}
    PROVE  Oldest(c) \in Evictable(c)
<1> DEFINE E == Evictable(c)
           After(s) == {t \in E : c[t].age > c[s].age}
           Rank(s) == Cardinality(After(s))
<1>1. E \in SUBSET Slot /\ \A s \in E : c[s].age \in Nat
  BY DEF Evictable, Caches, CachePages
<1>2. IsFiniteSet(E)
  <2>1. IsFiniteSet(Slot)
    BY CacheAssumption, FS_Interval DEF Slot
  <2> QED BY <1>1, <2>1, FS_Subset
<1>3. ASSUME NEW s \in E PROVE IsFiniteSet(After(s)) /\ Rank(s) \in Nat
  <2>1. After(s) \in SUBSET E
    OBVIOUS
  <2>2. IsFiniteSet(After(s))
    BY <1>2, <2>1, FS_Subset
  <2> QED BY <2>2, FS_CardinalityType
<1>4. PICK s \in E : \A t \in E : ~(Rank(t) < Rank(s))
  <2> DEFINE R == {Rank(t) : t \in E}
  <2>1. R \subseteq Nat /\ R # {}
    BY <1>3
  <2>2. PICK x \in R : \A y \in R : ~(<<y, x>> \in NatLess)
    BY <2>1, NatLessIsWellFounded, WFMin
  <2>3. PICK s \in E : x = Rank(s)
    BY <2>2
  <2>4. ASSUME NEW t \in E PROVE ~(Rank(t) < Rank(s))
    <3>1. Rank(t) \in R /\ Rank(t) \in Nat /\ Rank(s) \in Nat
      BY <1>3
    <3>2. ~(<<Rank(t), Rank(s)>> \in NatLess)
      BY <2>2, <2>3, <3>1
    <3> HIDE DEF Rank, R
    <3> QED BY <3>1, <3>2 DEF NatLess
  <2> QED BY <2>4
<1>5. \A t \in E : c[s].age >= c[t].age
  <2> SUFFICES ASSUME NEW t \in E, c[t].age > c[s].age PROVE FALSE
    BY <1>1
  <2>1. After(t) \in SUBSET After(s) /\ t \in After(s) /\ t \notin After(t)
    BY <1>1
  <2>2. After(s) # After(t)
    BY <2>1
  <2>3. Cardinality(After(t)) <= Cardinality(After(s))
          /\ Cardinality(After(s)) # Cardinality(After(t))
    BY <1>3, <2>1, <2>2, FS_Subset
  <2>4. Rank(t) \in Nat /\ Rank(s) \in Nat /\ ~(Rank(t) < Rank(s))
    BY <1>3, <1>4
  <2> HIDE DEF After
  <2> QED BY <2>3, <2>4
<1> DEFINE O == {u \in E : \A t \in E : c[u].age >= c[t].age}
<1>6. O \in SUBSET Slot /\ O # {}
  BY <1>1, <1>5
<1>7. Oldest(c) = Lowest(O)
  BY DEF Oldest
<1> QED BY <1>6, <1>7, LowestInSet

\* Evicting takes a copy away, never a write page.
LEMMA RemoveOldestWithin ==
    ASSUME NEW c \in Caches
    PROVE  Within(c, RemoveOldest(c))
<1>1. CASE FreeSlots(c) # {} \/ Evictable(c) = {}
  BY <1>1 DEF RemoveOldest, Within
<1>2. CASE ~(FreeSlots(c) # {} \/ Evictable(c) = {})
  <2>1. RemoveOldest(c) = [c EXCEPT ![Oldest(c)] = Unused]
    BY <1>2 DEF RemoveOldest
  <2>2. Oldest(c) \in Slot /\ c[Oldest(c)].kind = "read"
    BY <1>2, OldestEvictable DEF Evictable
  <2> QED BY <2>1, <2>2, UnusedType DEF Within, Caches
<1> QED BY <1>1, <1>2

\* Leaving less and less is leaving less.
LEMMA WithinTwice ==
    ASSUME NEW c, NEW d, NEW e, Within(c, d), Within(d, e)
    PROVE  Within(c, e)
BY DEF Within

----------------------------------------------------------------------------
(* What an action keeps of the cache pages c, of the objects P whose       *)
(* writes wait in them, and of the chip f with the suspect pages S.        *)

Sound(c, P, f, S) ==
    /\ c \in Caches
    /\ \A s \in Slot : c[s].kind = "read" =>
          /\ c[s].of \in Page /\ c[s].mem \subseteq BitsOf(c[s].of)
          /\ c[s].of \in S \/ c[s].mem = f[c[s].of]
    /\ \A s, t \in Slot :
          c[s].kind = "read" /\ c[t].kind = "read" /\ c[s].of = c[t].of
              => s = t
    /\ \A o \in P : \E s \in Slot : c[s].kind = "write" /\ c[s].of = o

\* No copy of page p in c.
NoCopy(c, p) == \A s \in Slot : ~(c[s].kind = "read" /\ c[s].of = p)

\* Fewer copies are as good.
LEMMA WithinSound ==
    ASSUME NEW c, NEW d, NEW P, NEW f, NEW S,
           Within(c, d), Sound(c, P, f, S)
    PROVE  Sound(d, P, f, S) /\ \A p : NoCopy(c, p) => NoCopy(d, p)
BY DEF Within, Sound, NoCopy

\* More suspect pages ask for less.
LEMMA SuspectSound ==
    ASSUME NEW c, NEW P, NEW f, NEW S, NEW T, S \subseteq T, Sound(c, P, f, S)
    PROVE  Sound(c, P, f, T)
BY DEF Sound

\* A new copy of a page that has none.
LEMMA AllocateRead ==
    ASSUME NEW c, NEW P, NEW f, NEW S, Sound(c, P, f, S),
           NEW p \in Page, NoCopy(c, p),
           NEW m \in SUBSET BitsOf(p), p \in S \/ m = f[p]
    PROVE  Sound(Allocate(c, ReadPage(p, m)), P, f, S)
<1>1. CASE FreeSlots(c) = {}
  BY <1>1 DEF Allocate
<1>2. CASE FreeSlots(c) # {}
  <2> DEFINE r == Lowest(FreeSlots(c))
             d == [c EXCEPT ![r] = ReadPage(p, m)]
  <2>1. r \in Slot /\ c[r].kind = "free"
    BY <1>2, LowestInSet DEF FreeSlots
  <2>2. ReadPage(p, m) \in CachePages
    BY DEF ReadPage, CachePages, BitsOf, Bits
  <2>3. /\ ReadPage(p, m).kind = "read" /\ ReadPage(p, m).of = p
        /\ ReadPage(p, m).mem = m
    BY DEF ReadPage
  <2> HIDE DEF r
  <2>4. d \in Caches /\ d[r] = ReadPage(p, m)
          /\ \A s \in Slot : s # r => d[s] = c[s]
    BY <2>1, <2>2 DEF Sound, Caches
  <2> HIDE DEF d
  <2>5. Sound(d, P, f, S)
    <3>1. \A s \in Slot : d[s].kind = "read" =>
              /\ d[s].of \in Page /\ d[s].mem \subseteq BitsOf(d[s].of)
              /\ d[s].of \in S \/ d[s].mem = f[d[s].of]
      BY <2>3, <2>4 DEF Sound
    <3>2. \A s, t \in Slot :
              d[s].kind = "read" /\ d[t].kind = "read" /\ d[s].of = d[t].of
                  => s = t
      BY <2>3, <2>4 DEF Sound, NoCopy
    <3>3. \A o \in P : \E s \in Slot : d[s].kind = "write" /\ d[s].of = o
      BY <2>1, <2>4 DEF Sound
    <3> QED BY <2>4, <3>1, <3>2, <3>3 DEF Sound
  <2> QED BY <1>2, <2>5 DEF Allocate, d, r
<1> QED BY <1>1, <1>2

\* A write page for object o, when a cache page is free.
LEMMA AllocateWrite ==
    ASSUME NEW c, NEW P, NEW f, NEW S, Sound(c, P, f, S), NEW o \in ObjId,
           FreeSlots(c) # {}
    PROVE  Sound(Allocate(c, WritePageOf(o)), P \cup {o}, f, S)
<1> DEFINE r == Lowest(FreeSlots(c))
           d == [c EXCEPT ![r] = WritePageOf(o)]
<1>1. r \in Slot /\ c[r].kind = "free"
  BY LowestInSet DEF FreeSlots
<1>2. WritePageOf(o) \in CachePages
  BY DEF WritePageOf, CachePages
<1>3. WritePageOf(o).kind = "write" /\ WritePageOf(o).of = o
  BY DEF WritePageOf
<1> HIDE DEF r
<1>4. d \in Caches /\ d[r] = WritePageOf(o)
        /\ \A s \in Slot : s # r => d[s] = c[s]
  BY <1>1, <1>2 DEF Sound, Caches
<1> HIDE DEF d
<1>5. \A q \in P \cup {o} : \E s \in Slot : d[s].kind = "write" /\ d[s].of = q
  BY <1>1, <1>3, <1>4 DEF Sound
<1>6. Sound(d, P \cup {o}, f, S)
  BY <1>3, <1>4, <1>5 DEF Sound
<1> QED BY <1>6 DEF Allocate, d, r

----------------------------------------------------------------------------
(* The inductive invariant.  Besides the properties it says that a copy    *)
(* has the bits of a page, which a read returns, and that nothing is       *)
(* cached when the file system is not mounted, as mounting may erase.      *)

CopiesOfPages ==
    \A s \in Slot : cpage[s].kind = "read" =>
        cpage[s].of \in Page /\ cpage[s].mem \subseteq BitsOf(cpage[s].of)

UnmountedEmpty == ~mounted =>
    pending = {} /\ \A s \in Slot : cpage[s].kind = "free"

IInv ==
    /\ TypeOK
    /\ OneCopy
    /\ PendingKept
    /\ Coherent
    /\ CopiesOfPages
    /\ UnmountedEmpty

Replies == [res : {"OK", "ERROR"}, page : Page \cup {NoPage},
            bits : SUBSET Bits]

\* The chip f and its suspect pages S have their types.
ChipOK(f, S) ==
    /\ f \in [Page -> SUBSET Bits]
    /\ \A p \in Page : f[p] \subseteq BitsOf(p)
    /\ S \subseteq Page

\* The invariant of a state, and of the next one, in the form the actions
\* keep it.
LEMMA IInvParts ==
    /\ IInv <=> /\ ChipOK(flash, suspect) /\ reply \in Replies
                /\ Sound(cpage, pending, flash, suspect)
                /\ pending \subseteq ObjId /\ mounted \in BOOLEAN
                /\ UnmountedEmpty
    /\ IInv' <=> /\ ChipOK(flash', suspect') /\ reply' \in Replies
                 /\ Sound(cpage', pending', flash', suspect')
                 /\ pending' \subseteq ObjId /\ mounted' \in BOOLEAN
                 /\ UnmountedEmpty'
<1>1. IInv <=> /\ ChipOK(flash, suspect) /\ reply \in Replies
               /\ Sound(cpage, pending, flash, suspect)
               /\ pending \subseteq ObjId /\ mounted \in BOOLEAN
               /\ UnmountedEmpty
  BY DEF IInv, TypeOK, OneCopy, PendingKept, Coherent, CopiesOfPages,
         ChipOK, Replies, Sound, Caches
<1>2. IInv' <=> /\ ChipOK(flash', suspect') /\ reply' \in Replies
                /\ Sound(cpage', pending', flash', suspect')
                /\ pending' \subseteq ObjId /\ mounted' \in BOOLEAN
                /\ UnmountedEmpty'
  BY DEF IInv, TypeOK, OneCopy, PendingKept, Coherent, CopiesOfPages,
         ChipOK, Replies, Sound, Caches
<1> QED BY <1>1, <1>2

\* What a call returns is a reply.
LEMMA ReplyTypes ==
    /\ Done \in Replies /\ Failed \in Replies
    /\ \A p \in Page : \A v \in SUBSET BitsOf(p) : Got(p, v) \in Replies
BY DEF Done, Failed, Got, Replies, BitsOf, Bits

\* The holder that is found of a page that has one.
LEMMA HolderFound ==
    ASSUME NEW p \in Page
    PROVE  /\ Holders(p) # {} => Lowest(Holders(p)) \in Holders(p)
           /\ Holders(p) = {} <=> NoCopy(cpage, p)
<1>1. Holders(p) \in SUBSET Slot
  BY DEF Holders
<1>2. Holders(p) # {} => Lowest(Holders(p)) \in Holders(p)
  BY <1>1, LowestInSet
<1>3. Holders(p) = {} <=> NoCopy(cpage, p)
  BY DEF Holders, NoCopy
<1> QED BY <1>2, <1>3

\* Every writer of the chip gives bits of the page.
LEMMA HalWriteChip ==
    ASSUME ChipOK(flash, suspect), NEW p \in Page, NEW v \in SUBSET BitsOf(p),
           NEW ok \in BOOLEAN, HalWrite(p, v, ok)
    PROVE  /\ ChipOK(flash', suspect') /\ reply' \in Replies
           /\ suspect \subseteq suspect'
           /\ \A q \in Page : q # p => flash'[q] = flash[q]
           /\ flash'[p] = flash[p] \cup v \/ p \in suspect'
<1>1. BitsOf(p) \in SUBSET Bits
  BY DEF BitsOf, Bits
<1>2. CASE ok
  BY <1>1, <1>2, ReplyTypes DEF HalWrite, ChipOK
<1>3. CASE ~ok
  BY <1>3, ReplyTypes DEF HalWrite, ChipOK
<1> QED BY <1>2, <1>3

\* Erasing keeps the bits of the pages, and the other blocks.
LEMMA EraseChip ==
    ASSUME ChipOK(flash, suspect), NEW b \in Block, NEW blank \in BOOLEAN,
           NEW n \in 0 .. 2, Erasing(b, blank, n)
    PROVE  /\ \A S \in SUBSET Page : ChipOK(flash', S)
           /\ reply' \in Replies
           /\ \A q \in Page \ PagesIn(b) : flash'[q] = flash[q]
<1>1. reply' \in Replies
  BY ReplyTypes DEF Erasing
<1>2. \A q \in Page \ PagesIn(b) : q[1] # b
  BY DEF Page, PagesIn
<1>3. LuPage(b)[2] = 0 /\ Marks(n) \in SUBSET BitsOf(LuPage(b))
  BY DEF LuPage, Marks, BitsOf
<1>4. flash' \in [Page -> SUBSET Bits]
        /\ \A q \in Page : flash'[q] \subseteq BitsOf(q)
  <2>1. ASSUME NEW q \in Page
        PROVE  EraseBlock(flash, b, blank, n)[q] \in SUBSET BitsOf(q)
    BY <1>3, <2>1 DEF EraseBlock, ChipOK
  <2>2. \A q \in Page : BitsOf(q) \in SUBSET Bits
    BY DEF BitsOf, Bits
  <2> QED BY <2>1, <2>2 DEF Erasing, EraseBlock
<1>5. \A q \in Page \ PagesIn(b) : flash'[q] = flash[q]
  BY <1>2 DEF Erasing, EraseBlock
<1> QED BY <1>1, <1>4, <1>5 DEF ChipOK

----------------------------------------------------------------------------
(* One lemma per call: it keeps the invariant.                             *)

\* Resetting the age of one page after counting an access.
LEMMA TouchWithin ==
    ASSUME NEW c \in Caches, NEW s \in Slot
    PROVE  Within(c, [Older(c) EXCEPT ![s].age = 0])
<1> DEFINE o == Older(c)
           d == [o EXCEPT ![s] = [o[s] EXCEPT !.age = 0]]
<1>1. Within(c, o)
  BY OlderWithin
<1>2. o[s] \in CachePages
  BY <1>1 DEF Within, Caches
<1> HIDE DEF o
<1>3. [o[s] EXCEPT !.age = 0] \in CachePages
        /\ [o[s] EXCEPT !.age = 0].kind = o[s].kind
        /\ [o[s] EXCEPT !.age = 0].of = o[s].of
        /\ [o[s] EXCEPT !.age = 0].mem = o[s].mem
  BY <1>2 DEF CachePages
<1>4. Within(o, d)
  BY <1>1, <1>3 DEF Within, Caches
<1>5. Within(c, d)
  BY <1>1, <1>4, WithinTwice
<1> QED BY <1>5 DEF o

LEMMA ReadKeeps ==
    ASSUME IInv, NEW p \in Page, Read(p)
    PROVE  IInv'
<1> DEFINE s == Lowest(Holders(p))
           d == [Older(cpage) EXCEPT ![s].age = 0]
<1>1. cpage \in Caches /\ Sound(cpage, pending, flash, suspect)
  BY IInvParts DEF Sound
<1>2. s \in Slot /\ cpage[s].kind = "read" /\ cpage[s].of = p
  BY HolderFound DEF Read, Holders
<1>3. cpage' = Ranked(d) /\ reply' = Got(p, cpage[s].mem)
  BY DEF Read
<1> HIDE DEF s
<1>4. Within(cpage, d) /\ d \in Caches
  BY <1>1, <1>2, TouchWithin DEF Within
<1> HIDE DEF d
<1>5. Within(cpage, Ranked(d))
  BY <1>4, RankedWithin, WithinTwice
<1>6. Sound(cpage', pending', flash', suspect')
  BY <1>1, <1>3, <1>5, WithinSound DEF Read
<1>7. reply' \in Replies
  BY <1>1, <1>2, <1>3, ReplyTypes DEF Sound
<1> QED BY <1>6, <1>7, IInvParts DEF Read, UnmountedEmpty

LEMMA ReadPastKeeps ==
    ASSUME IInv, NEW p \in Page, NEW ok \in BOOLEAN, ReadPast(p, ok)
    PROVE  IInv'
<1>1. cpage \in Caches /\ Sound(cpage, pending, flash, suspect)
        /\ ChipOK(flash, suspect)
  BY IInvParts DEF Sound
<1>2. Within(cpage, Older(cpage)) /\ Older(cpage) \in Caches
  BY <1>1, OlderWithin DEF Within
<1>3. Within(cpage, Ranked(Older(cpage)))
  BY <1>2, RankedWithin, WithinTwice
<1>4. Sound(cpage', pending', flash', suspect')
  BY <1>1, <1>3, WithinSound DEF ReadPast
<1>5. reply' \in Replies
  BY <1>1, ReplyTypes DEF ReadPast, ChipOK
<1> QED BY <1>4, <1>5, IInvParts DEF ReadPast, UnmountedEmpty

LEMMA ReadInKeeps ==
    ASSUME IInv, NEW p \in Page, NEW ok \in BOOLEAN, ReadIn(p, ok)
    PROVE  IInv'
<1> DEFINE c == RemoveOldest(Older(cpage))
<1>1. cpage \in Caches /\ Sound(cpage, pending, flash, suspect)
        /\ ChipOK(flash, suspect)
  BY IInvParts DEF Sound
<1>2. Within(cpage, Older(cpage)) /\ Older(cpage) \in Caches
  BY <1>1, OlderWithin DEF Within
<1>3. Within(cpage, c)
  BY <1>2, RemoveOldestWithin, WithinTwice
<1>4. PICK m \in IF ok THEN {flash[p]} ELSE SUBSET BitsOf(p) :
          cpage' = Ranked(Allocate(c, ReadPage(p, m)))
  BY DEF ReadIn
<1>5. m \in SUBSET BitsOf(p) /\ (p \in suspect' \/ m = flash[p])
        /\ suspect \subseteq suspect' /\ flash' = flash /\ pending' = pending
        /\ ChipOK(flash', suspect')
  BY <1>1, <1>4 DEF ReadIn, ChipOK
<1>6. NoCopy(c, p)
  <2>1. NoCopy(cpage, p)
    BY HolderFound DEF ReadIn
  <2> QED BY <1>1, <1>3, <2>1, WithinSound
<1>7. Sound(c, pending, flash, suspect')
  <2>1. Sound(c, pending, flash, suspect)
    BY <1>1, <1>3, WithinSound
  <2> QED BY <1>5, <2>1, SuspectSound
<1> HIDE DEF c
<1>8. Sound(Allocate(c, ReadPage(p, m)), pending, flash, suspect')
  BY <1>5, <1>6, <1>7, AllocateRead
<1>9. Sound(cpage', pending', flash', suspect')
  <2>1. Within(Allocate(c, ReadPage(p, m)), cpage')
    BY <1>4, <1>8, RankedWithin DEF Sound
  <2> QED BY <1>5, <1>8, <2>1, WithinSound
<1>10. reply' \in Replies
  BY <1>1, ReplyTypes DEF ReadIn, ChipOK
<1> QED BY <1>5, <1>9, <1>10, IInvParts DEF ReadIn, UnmountedEmpty

\* Bits v written to field F agree with the chip when they hold all that is
\* cleared in F already.
LEMMA PassThroughKeeps ==
    ASSUME IInv, NEW p \in Page, NEW F, NEW v \in SUBSET BitsOf(p),
           NEW ok \in BOOLEAN, p \notin suspect => flash[p] \cap F \subseteq v,
           PassThrough(p, F, v, ok)
    PROVE  IInv'
<1>1. cpage \in Caches /\ Sound(cpage, pending, flash, suspect)
        /\ ChipOK(flash, suspect)
  BY IInvParts DEF Sound
<1>2. HalWrite(p, v, ok) /\ pending' = pending /\ mounted /\ mounted'
  BY DEF PassThrough, IInv, TypeOK
<1>3. /\ ChipOK(flash', suspect') /\ reply' \in Replies
      /\ suspect \subseteq suspect'
      /\ \A q \in Page : q # p => flash'[q] = flash[q]
      /\ flash'[p] = flash[p] \cup v \/ p \in suspect'
  BY <1>1, <1>2, HalWriteChip
<1>4. Sound(cpage', pending', flash', suspect')
  <2>1. CASE Holders(p) = {}
    <3>1. NoCopy(cpage, p) /\ cpage' = cpage
      BY <2>1, HolderFound DEF PassThrough
    <3> QED BY <1>1, <1>2, <1>3, <3>1 DEF Sound, NoCopy
  <2>2. CASE Holders(p) # {}
    <3> DEFINE h == Lowest(Holders(p))
               o == Older(cpage)
               x == Overwritten(o[h], F, v)
               d == [o EXCEPT ![h] = x]
    <3>1. h \in Slot /\ cpage[h].kind = "read" /\ cpage[h].of = p
      BY <2>2, HolderFound DEF Holders
    <3>2. Within(cpage, o)
            /\ \A s \in Slot : o[s].kind = cpage[s].kind
      BY <1>1, OlderWithin
    <3>3. cpage' = Ranked(d)
      <4>1. cpage' = Ranked([o EXCEPT ![h] = Overwritten(@, F, v)])
        BY <2>2, Zenon DEF PassThrough
      <4> QED BY <4>1, Zenon
    <3> HIDE DEF h, o
    <3>4. Sound(o, pending, flash, suspect)
      BY <1>1, <3>2, WithinSound
    <3>5. o[h] \in CachePages /\ o[h].kind = "read" /\ o[h].of = p
            /\ o[h].mem \in SUBSET BitsOf(p)
      BY <3>1, <3>2, <3>4 DEF Within, Sound, Caches
    <3>6. x \in CachePages /\ x.kind = "read" /\ x.of = p
            /\ x.mem = (o[h].mem \ F) \cup v
      <4>1. (o[h].mem \ F) \cup v \in SUBSET Bits
        BY <3>5 DEF BitsOf, Bits
      <4> QED BY <3>5, <4>1 DEF CachePages, Overwritten
    <3> HIDE DEF x
    <3>7. d \in Caches /\ d[h] = x /\ \A s \in Slot : s # h => d[s] = o[s]
      BY <3>1, <3>4, <3>6 DEF Sound, Caches
    <3> HIDE DEF d
    <3>8. x.mem \subseteq BitsOf(p)
      BY <3>5, <3>6
    <3>9. p \in suspect' \/ x.mem = flash'[p]
      <4>1. p \in suspect \/ o[h].mem = flash[p]
        BY <3>1, <3>4, <3>5 DEF Sound
      <4>2. CASE p \in suspect'
        BY <4>2
      <4>3. CASE p \notin suspect'
        <5>1. flash'[p] = flash[p] \cup v /\ p \notin suspect
                /\ o[h].mem = flash[p]
          BY <1>3, <4>1, <4>3
        <5> QED BY <3>6, <5>1
      <4> QED BY <4>2, <4>3
    <3>10. Sound(d, pending, flash', suspect')
      <4>1. \A s \in Slot : d[s].kind = "read" =>
                /\ d[s].of \in Page /\ d[s].mem \subseteq BitsOf(d[s].of)
                /\ d[s].of \in suspect' \/ d[s].mem = flash'[d[s].of]
        <5>1. ASSUME NEW s \in Slot, s # h, d[s].kind = "read"
              PROVE  d[s].of # p
          BY <3>1, <3>4, <3>5, <3>7, <5>1 DEF Sound
        <5>2. ASSUME NEW s \in Slot, s # h, d[s].kind = "read"
              PROVE  /\ d[s].of \in Page /\ d[s].mem \subseteq BitsOf(d[s].of)
                     /\ d[s].of \in suspect' \/ d[s].mem = flash'[d[s].of]
          <6>1. d[s] = o[s] /\ o[s].of # p
            BY <3>7, <5>1, <5>2
          <6>2. /\ o[s].of \in Page /\ o[s].mem \subseteq BitsOf(o[s].of)
                /\ o[s].of \in suspect \/ o[s].mem = flash[o[s].of]
            BY <3>4, <5>2, <6>1 DEF Sound
          <6> QED BY <1>3, <6>1, <6>2
        <5> QED BY <3>6, <3>7, <3>8, <3>9, <5>2
      <4>2. \A s, t \in Slot :
                d[s].kind = "read" /\ d[t].kind = "read" /\ d[s].of = d[t].of
                    => s = t
        BY <3>1, <3>4, <3>5, <3>6, <3>7 DEF Sound
      <4>3. \A q \in pending : \E s \in Slot :
                d[s].kind = "write" /\ d[s].of = q
        BY <3>4, <3>5, <3>7 DEF Sound
      <4> QED BY <3>7, <4>1, <4>2, <4>3 DEF Sound
    <3>11. Within(d, cpage')
      BY <3>3, <3>7, RankedWithin
    <3> QED BY <1>2, <3>10, <3>11, WithinSound
  <2> QED BY <2>1, <2>2
<1> QED BY <1>2, <1>3, <1>4, IInvParts DEF UnmountedEmpty

LEMMA UpdateFlagsKeeps ==
    ASSUME IInv, NEW p \in Page, NEW v \in HeaderFlags, NEW ok \in BOOLEAN,
           UpdateFlags(p, v, ok)
    PROVE  IInv'
<1>1. v \in SUBSET BitsOf(p) /\ PassThrough(p, Flags, v, ok)
        /\ (p \notin suspect => flash[p] \cap Flags \subseteq v)
  BY DEF UpdateFlags, HeaderFlags, BitsOf, Flags
<1> QED BY <1>1, PassThroughKeeps

LEMMA UpdateEntryKeeps ==
    ASSUME IInv, NEW b \in Block, NEW v \in SUBSET LuId, NEW ok \in BOOLEAN,
           UpdateEntry(b, v, ok)
    PROVE  IInv'
<1>1. LuPage(b) \in Page /\ LuPage(b)[2] = 0
  BY FlashAssumption DEF LuPage, Page
<1>2. v \in SUBSET BitsOf(LuPage(b))
  BY <1>1 DEF BitsOf
<1> QED BY <1>1, <1>2, PassThroughKeeps DEF UpdateEntry

\* A dropped page leaves fewer copies.
LEMMA DropWithin ==
    ASSUME NEW c \in Caches, NEW d, NEW K \in SUBSET Slot,
           \A s \in K : c[s].kind = "read",
           d = [s \in Slot |-> IF s \in K THEN Unused ELSE c[s]]
    PROVE  Within(c, d)
<1>1. d \in Caches
  BY UnusedType DEF Caches
<1> QED BY <1>1, UnusedType DEF Within

LEMMA DeleteKeeps ==
    ASSUME IInv, NEW p \in Page, NEW ok \in BOOLEAN, Delete(p, ok)
    PROVE  IInv'
<1> DEFINE v == {"USED", "DELET"}
           h == Lowest(Holders(p))
<1>1. cpage \in Caches /\ Sound(cpage, pending, flash, suspect)
        /\ ChipOK(flash, suspect)
  BY IInvParts DEF Sound
<1>2. HalWrite(p, v, ok) /\ pending' = pending /\ mounted /\ mounted'
        /\ v \in SUBSET BitsOf(p)
  BY DEF Delete, BitsOf, Flags, IInv, TypeOK
<1>3. /\ ChipOK(flash', suspect') /\ reply' \in Replies
      /\ suspect \subseteq suspect'
      /\ \A q \in Page : q # p => flash'[q] = flash[q]
  BY <1>1, <1>2, HalWriteChip
<1>4. Within(cpage, cpage') /\ NoCopy(cpage', p)
  <2>1. CASE Holders(p) = {}
    BY <1>1, <2>1, HolderFound DEF Delete, Within
  <2>2. CASE Holders(p) # {}
    <3>1. h \in Slot /\ cpage[h].kind = "read" /\ cpage[h].of = p
      BY <2>2, HolderFound DEF Holders
    <3>2. cpage' = [cpage EXCEPT ![h] = Unused]
      BY <2>2 DEF Delete
    <3> HIDE DEF h
    <3>3. Within(cpage, cpage')
      BY <1>1, <3>1, <3>2, UnusedType DEF Within, Caches
    <3>4. cpage'[h] = Unused /\ \A s \in Slot : s # h => cpage'[s] = cpage[s]
      BY <1>1, <3>1, <3>2 DEF Caches
    <3>5. NoCopy(cpage', p)
      BY <1>1, <3>1, <3>4, UnusedType DEF NoCopy, Sound
    <3> QED BY <3>3, <3>5
  <2> QED BY <2>1, <2>2
<1>5. Sound(cpage', pending, flash, suspect)
  BY <1>1, <1>4, WithinSound
<1>6. Sound(cpage', pending', flash', suspect')
  BY <1>2, <1>3, <1>4, <1>5 DEF Sound, NoCopy
<1> QED BY <1>2, <1>3, <1>6, IInvParts DEF UnmountedEmpty

LEMMA GcEraseKeeps ==
    ASSUME IInv, NEW b \in Block, NEW blank \in BOOLEAN, NEW n \in 0 .. 2,
           GcErase(b, blank, n)
    PROVE  IInv'
<1>1. cpage \in Caches /\ Sound(cpage, pending, flash, suspect)
        /\ ChipOK(flash, suspect)
  BY IInvParts DEF Sound
<1>2. PagesIn(b) \in SUBSET Page
  BY DEF PagesIn, Page
<1>3. suspect' \in SUBSET Page /\ suspect \subseteq suspect'
        /\ pending' = pending /\ mounted /\ mounted'
  BY <1>1, <1>2 DEF GcErase, ChipOK, IInv, TypeOK
<1>4. /\ ChipOK(flash', suspect') /\ reply' \in Replies
      /\ \A q \in Page \ PagesIn(b) : flash'[q] = flash[q]
  BY <1>1, <1>3, EraseChip DEF GcErase
<1>5. Within(cpage, cpage')
  <2>1. CASE n = 2
    <3> DEFINE K == {s \in Slot : cpage[s].kind = "read"
                                    /\ cpage[s].of \in PagesIn(b)}
    <3>1. cpage' = [s \in Slot |-> IF s \in K THEN Unused ELSE cpage[s]]
      BY <2>1 DEF GcErase, Drop
    <3> QED BY <1>1, <3>1, DropWithin
  <2>2. CASE n # 2
    <3>1. cpage' = [s \in Slot |-> IF s \in Holders(LuPage(b))
                       THEN [cpage[s] EXCEPT !.age = 0] ELSE cpage[s]]
      BY <2>2 DEF GcErase
    <3>2. ASSUME NEW s \in Slot
          PROVE  /\ cpage'[s] \in CachePages
                 /\ cpage'[s].kind = cpage[s].kind
                 /\ cpage'[s].of = cpage[s].of /\ cpage'[s].mem = cpage[s].mem
      <4>1. cpage[s] \in CachePages
        BY <1>1 DEF Caches
      <4>2. CASE s \in Holders(LuPage(b))
        <5>1. cpage'[s] = [cpage[s] EXCEPT !.age = 0]
          BY <3>1, <4>2
        <5> QED BY <4>1, <5>1, AgeType
      <4>3. CASE s \notin Holders(LuPage(b))
        BY <3>1, <4>1, <4>3
      <4> QED BY <4>2, <4>3
    <3>3. cpage' \in Caches
      BY <3>1, <3>2 DEF Caches
    <3> QED BY <1>1, <3>2, <3>3 DEF Within
  <2> QED BY <2>1, <2>2
<1>6. Sound(cpage', pending, flash, suspect)
  BY <1>1, <1>5, WithinSound
<1>7. \A s \in Slot : cpage'[s].kind = "read" =>
          cpage'[s].of \in suspect' \/ cpage'[s].of \notin PagesIn(b)
  BY UnusedType DEF GcErase, Drop
<1>8. Sound(cpage', pending', flash', suspect')
  <2>1. ASSUME NEW s \in Slot, cpage'[s].kind = "read"
        PROVE  cpage'[s].of \in suspect'
                 \/ cpage'[s].mem = flash'[cpage'[s].of]
    <3>1. cpage'[s].of \in Page
            /\ (cpage'[s].of \in suspect
                  \/ cpage'[s].mem = flash[cpage'[s].of])
      BY <1>6, <2>1 DEF Sound
    <3> QED BY <1>3, <1>4, <1>7, <2>1, <3>1
  <2> QED BY <1>3, <1>6, <2>1 DEF Sound
<1> QED BY <1>3, <1>4, <1>8, IInvParts DEF UnmountedEmpty

LEMMA MountKeeps ==
    ASSUME IInv, NEW blank \in BOOLEAN, NEW n \in 0 .. 2, Mount(blank, n)
    PROVE  IInv'
<1>1. Sound(cpage, pending, flash, suspect) /\ ChipOK(flash, suspect)
        /\ ~mounted /\ UnmountedEmpty
        /\ pending' = pending /\ cpage' = cpage /\ suspect' = suspect
        /\ pending \subseteq ObjId
  BY IInvParts DEF Mount
<1>2. \A s \in Slot : cpage[s].kind = "free"
  BY <1>1 DEF UnmountedEmpty
<1>3. Sound(cpage', pending', flash', suspect')
  BY <1>1, <1>2 DEF Sound
<1>4. ChipOK(flash', suspect') /\ reply' \in Replies
  <2>1. CASE flash' = flash /\ reply' \in {Done, Failed}
    BY <1>1, <2>1, ReplyTypes
  <2>2. CASE \E b \in Block : Erasing(b, blank, n)
    BY <1>1, <2>2, EraseChip DEF ChipOK
  <2> QED BY <2>1, <2>2 DEF Mount, BadMagic
<1>5. mounted' \in BOOLEAN
  BY DEF Mount, IInv, TypeOK
<1>6. UnmountedEmpty'
  BY <1>1, <1>2 DEF UnmountedEmpty
<1> QED BY <1>1, <1>3, <1>4, <1>5, <1>6, IInvParts

LEMMA StopKeeps ==
    ASSUME IInv, Stop
    PROVE  IInv'
<1>1. ChipOK(flash', suspect') /\ reply' \in Replies
  BY IInvParts, ReplyTypes DEF Stop, ChipOK
<1>2. cpage' \in Caches /\ \A s \in Slot : cpage'[s].kind = "free"
  BY UnusedType DEF Stop, Caches
<1>3. Sound(cpage', pending', flash', suspect')
  BY <1>2 DEF Stop, Sound
<1> QED BY <1>1, <1>2, <1>3, IInvParts DEF Stop, UnmountedEmpty

LEMMA AllocateByFdKeeps ==
    ASSUME IInv, NEW o \in ObjId, AllocateByFd(o)
    PROVE  IInv'
<1> DEFINE c == RemoveOldest(cpage)
<1>1. cpage \in Caches /\ Sound(cpage, pending, flash, suspect)
        /\ ChipOK(flash, suspect) /\ pending \subseteq ObjId
  BY IInvParts DEF Sound
<1>2. Sound(c, pending, flash, suspect)
  BY <1>1, RemoveOldestWithin, WithinSound
<1>3. cpage' = Allocate(c, WritePageOf(o))
        /\ pending' = (IF FreeSlots(c) = {} THEN pending ELSE pending \cup {o})
        /\ flash' = flash /\ suspect' = suspect /\ reply' = Done
        /\ mounted /\ mounted'
  BY DEF AllocateByFd, IInv, TypeOK
<1> HIDE DEF c
<1>4. Sound(cpage', pending', flash', suspect')
  <2>1. CASE FreeSlots(c) = {}
    BY <1>2, <1>3, <2>1 DEF Allocate
  <2>2. CASE FreeSlots(c) # {}
    BY <1>2, <1>3, <2>2, AllocateWrite
  <2> QED BY <2>1, <2>2
<1> QED BY <1>1, <1>3, <1>4, IInvParts, ReplyTypes DEF UnmountedEmpty

LEMMA ReleaseKeeps ==
    ASSUME IInv, NEW o \in ObjId, Release(o)
    PROVE  IInv'
<1>1. cpage \in Caches /\ Sound(cpage, pending, flash, suspect)
        /\ ChipOK(flash, suspect) /\ pending \subseteq ObjId
  BY IInvParts DEF Sound
<1>2. /\ cpage' = [s \in Slot |->
             IF cpage[s].kind = "write" /\ cpage[s].of = o THEN Unused
             ELSE cpage[s]]
      /\ pending' = pending \ {o} /\ flash' = flash /\ suspect' = suspect
      /\ reply' = Done /\ mounted /\ mounted'
  BY DEF Release, IInv, TypeOK
<1>3. cpage' \in Caches
  BY <1>1, <1>2, UnusedType DEF Caches
<1>4. \A s \in Slot : cpage'[s].kind = "read" => cpage'[s] = cpage[s]
  BY <1>2, UnusedType
<1>5. \A q \in pending' : \E s \in Slot :
          cpage'[s].kind = "write" /\ cpage'[s].of = q
  BY <1>1, <1>2 DEF Sound
<1>6. Sound(cpage', pending', flash', suspect')
  BY <1>1, <1>2, <1>3, <1>4, <1>5 DEF Sound
<1> QED BY <1>1, <1>2, <1>6, IInvParts, ReplyTypes DEF UnmountedEmpty

----------------------------------------------------------------------------
(* The theorems.                                                           *)

LEMMA Progresses == Progress \in SUBSET (0 .. 2)
BY DEF Progress

LEMMA WorksBoolean == \A call : Works(call) \in SUBSET BOOLEAN
BY DEF Works

\* Every step of the cache keeps the invariant.
LEMMA NextKeeps ==
    ASSUME IInv, [Next]_vars
    PROVE  IInv'
<1>1. CASE \E p \in Page : Read(p)
  BY <1>1, ReadKeeps
<1>2. CASE \E p \in Page, ok \in Works("read") : ReadPast(p, ok) \/ ReadIn(p, ok)
  BY <1>2, WorksBoolean, ReadPastKeeps, ReadInKeeps
<1>3. CASE \E p \in Page, ok \in Works("write") :
              \/ \E v \in HeaderFlags : UpdateFlags(p, v, ok)
              \/ Delete(p, ok)
  BY <1>3, WorksBoolean, UpdateFlagsKeeps, DeleteKeeps
<1>4. CASE \E b \in Block, v \in SUBSET LuId, ok \in Works("write") :
              UpdateEntry(b, v, ok)
  BY <1>4, WorksBoolean, UpdateEntryKeeps
<1>5. CASE \E b \in Block, blank \in Works("erase"), n \in Progress :
              GcErase(b, blank, n)
  BY <1>5, WorksBoolean, Progresses, GcEraseKeeps
<1>6. CASE \E blank \in Works("erase"), n \in Progress : Mount(blank, n)
  BY <1>6, WorksBoolean, Progresses, MountKeeps
<1>7. CASE Stop
  BY <1>7, StopKeeps
<1>8. CASE \E o \in ObjId : AllocateByFd(o) \/ Release(o)
  BY <1>8, AllocateByFdKeeps, ReleaseKeeps
<1>9. CASE UNCHANGED vars
  BY <1>9 DEF vars, IInv, TypeOK, OneCopy, PendingKept, Coherent,
              CopiesOfPages, UnmountedEmpty, Holders
<1> QED BY <1>1, <1>2, <1>3, <1>4, <1>5, <1>6, <1>7, <1>8, <1>9 DEF Next

\* The formatted chip and the empty cache satisfy it.
LEMMA InitHolds ==
    ASSUME Init
    PROVE  IInv
<1>1. ChipOK(flash, suspect)
  <2>1. ASSUME NEW p \in Page
        PROVE  Formatted[p] \in SUBSET BitsOf(p)
                 /\ Formatted[p] \in SUBSET Bits
    BY <2>1 DEF Formatted, Marks, BitsOf, Bits
  <2> QED BY <2>1 DEF Init, FlashInit, Formatted, ChipOK
<1>2. cpage \in Caches /\ \A s \in Slot : cpage[s].kind = "free"
  BY UnusedType DEF Init, Caches
<1>3. Sound(cpage, pending, flash, suspect)
  BY <1>2 DEF Init, Sound
<1> QED BY <1>1, <1>2, <1>3, IInvParts, ReplyTypes
        DEF Init, FlashInit, UnmountedEmpty

\* Whatever happens, the cache is in a state of the invariant.
THEOREM Invariance == Spec => []IInv
<1>1. Init => IInv
  BY InitHolds
<1>2. IInv /\ [Next]_vars => IInv'
  BY NextKeeps
<1> QED BY <1>1, <1>2, PTL DEF Spec

\* The variables of the cache keep their types.
THEOREM CacheTypes == Spec => []TypeOK
<1>1. IInv => TypeOK
  BY DEF IInv
<1> QED BY <1>1, Invariance, PTL

\* However pages are read, written, deleted, erased and evicted, and
\* whichever HAL calls fail, a cached copy is the page on the chip, unless a
\* HAL call failed for that page (spiffs_phys_rd, spiffs_phys_wr,
\* spiffs_gc_erase_block).
THEOREM CopiesCoherent == Spec => []Coherent
<1>1. IInv => Coherent
  BY DEF IInv
<1> QED BY <1>1, Invariance, PTL

\* There is one copy of a page (spiffs_cache_page_get).
THEOREM CopiesUnique == Spec => []OneCopy
<1>1. IInv => OneCopy
  BY DEF IInv
<1> QED BY <1>1, Invariance, PTL

\* Eviction never takes the cache page an object's writes wait in
\* (spiffs_cache_page_remove_oldest).
THEOREM WritePagesKept == Spec => []PendingKept
<1>1. IInv => PendingKept
  BY DEF IInv
<1> QED BY <1>1, Invariance, PTL

\* A call of the cache is a call of a chip without one.
LEMMA StepIsFlashStep ==
    ASSUME IInv, [Next]_vars
    PROVE  [FlashNext]_flashVars
<1> DEFINE Written(p) ==
        \E v \in SUBSET BitsOf(p) : \E ok \in BOOLEAN : HalWrite(p, v, ok)
<1>1. ASSUME NEW p \in Page, Read(p) PROVE FlashRead(p)
  <2>1. Lowest(Holders(p)) \in Slot
          /\ cpage[Lowest(Holders(p))].kind = "read"
          /\ cpage[Lowest(Holders(p))].of = p
    BY <1>1, HolderFound DEF Read, Holders
  <2>2. cpage[Lowest(Holders(p))].mem \in SUBSET BitsOf(p)
          /\ (p \notin suspect =>
                cpage[Lowest(Holders(p))].mem = flash[p])
    BY <2>1 DEF IInv, Coherent, CopiesOfPages
  <2> QED BY <1>1, <2>2 DEF Read, FlashRead
<1>2. ASSUME NEW p \in Page, NEW ok \in BOOLEAN,
             ReadPast(p, ok) \/ ReadIn(p, ok)
      PROVE  FlashRead(p) \/ FlashFails(p)
  <2>1. flash[p] \in SUBSET BitsOf(p)
    BY DEF IInv, TypeOK
  <2> QED BY <1>2, <2>1 DEF ReadPast, ReadIn, FlashRead, FlashFails
<1>3. ASSUME NEW p \in Page, Written(p) PROVE FlashNext
  BY <1>3 DEF HalWrite, FlashProgram, FlashFails, FlashNext
<1>4. ASSUME NEW p \in Page, NEW ok \in BOOLEAN, NEW v \in HeaderFlags,
             UpdateFlags(p, v, ok)
      PROVE  Written(p)
  BY <1>4 DEF UpdateFlags, PassThrough, HeaderFlags, BitsOf, Flags
<1>5. ASSUME NEW p \in Page, NEW ok \in BOOLEAN, Delete(p, ok)
      PROVE  Written(p)
  <2>1. {"USED", "DELET"} \in SUBSET BitsOf(p)
    BY <1>5 DEF Delete, BitsOf, Flags
  <2> QED BY <1>5, <2>1 DEF Delete
<1>6. ASSUME NEW b \in Block, NEW ok \in BOOLEAN, NEW v \in SUBSET LuId,
             UpdateEntry(b, v, ok)
      PROVE  LuPage(b) \in Page /\ Written(LuPage(b))
  <2>1. LuPage(b) \in Page /\ v \in SUBSET BitsOf(LuPage(b))
    BY FlashAssumption DEF LuPage, Page, BitsOf
  <2> QED BY <1>6, <2>1 DEF UpdateEntry, PassThrough
<1>7. ASSUME NEW b \in Block, NEW blank \in BOOLEAN, NEW n \in 0 .. 2,
             GcErase(b, blank, n)
      PROVE  FlashErase(b, blank, n)
  BY <1>7 DEF GcErase, Erasing, FlashErase
<1>8. ASSUME NEW blank \in BOOLEAN, NEW n \in 0 .. 2, Mount(blank, n)
      PROVE  FlashNext
  <2>1. CASE BadMagic = {}
    BY <1>8, <2>1 DEF Mount, FlashRest, FlashNext
  <2>2. CASE BadMagic # {} /\ Cardinality(BadMagic) > 1
    <3>1. PICK b \in Block : TRUE
      BY <2>2 DEF BadMagic
    <3>2. LuPage(b) \in Page
      BY FlashAssumption DEF LuPage, Page
    <3>3. FlashFails(LuPage(b))
      BY <1>8, <2>2 DEF Mount, FlashFails
    <3> QED BY <3>2, <3>3 DEF FlashNext
  <2>3. CASE \E b \in BadMagic : Erasing(b, blank, n)
    <3>1. \E b \in Block : FlashErase(b, blank, n)
      BY <1>8, <2>3 DEF Mount, BadMagic, Erasing, FlashErase
    <3> QED BY <3>1 DEF FlashNext
  <2> QED BY <1>8, <2>1, <2>2, <2>3 DEF Mount
<1>9. CASE Stop \/ \E o \in ObjId : AllocateByFd(o) \/ Release(o)
  BY <1>9 DEF Stop, AllocateByFd, Release, FlashRest, FlashNext
<1>10. CASE UNCHANGED vars
  BY <1>10 DEF vars, flashVars
<1>11. CASE Next
  <2> HIDE DEF Written
  <2>1. CASE \E p \in Page : Read(p)
    BY <2>1, <1>1 DEF FlashNext
  <2>2. CASE \E p \in Page, ok \in Works("read") :
                ReadPast(p, ok) \/ ReadIn(p, ok)
    BY <2>2, <1>2, WorksBoolean DEF FlashNext
  <2>3. CASE \E p \in Page, ok \in Works("write") :
                \/ \E v \in HeaderFlags : UpdateFlags(p, v, ok)
                \/ Delete(p, ok)
    BY <2>3, <1>3, <1>4, <1>5, WorksBoolean
  <2>4. CASE \E b \in Block, v \in SUBSET LuId, ok \in Works("write") :
                UpdateEntry(b, v, ok)
    BY <2>4, <1>3, <1>6, WorksBoolean
  <2>5. CASE \E b \in Block, blank \in Works("erase"), n \in Progress :
                GcErase(b, blank, n)
    BY <2>5, <1>7, WorksBoolean, Progresses DEF FlashNext
  <2>6. CASE \E blank \in Works("erase"), n \in Progress : Mount(blank, n)
    BY <2>6, <1>8, WorksBoolean, Progresses
  <2> QED BY <1>9, <1>11, <2>1, <2>2, <2>3, <2>4, <2>5, <2>6 DEF Next
<1> QED BY <1>10, <1>11

\* What the layers above read through the cache is what they would read from
\* the chip itself: the cache implements NorFlash.
THEOREM CacheIsTransparent == Spec => FlashSpec
<1>1. Init => FlashInit
  BY DEF Init
<1>2. IInv /\ [Next]_vars => [FlashNext]_flashVars
  BY StepIsFlashStep
<1> QED BY <1>1, <1>2, Invariance, PTL DEF Spec, FlashSpec
=============================================================================
