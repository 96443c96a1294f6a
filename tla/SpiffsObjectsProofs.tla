------------------------ MODULE SpiffsObjectsProofs ------------------------
(***************************************************************************)
(* Proofs about objects in use. On a coherent chip the three passes of     *)
(* SPIFFS_check find nothing to mend. Cleaning blocks moves pages, index   *)
(* pages and references, and leaves every object the bytes and the size it *)
(* had and every open descriptor and index map pointing to its pages; so do *)
(* opening, closing and mapping. Reading through any descriptor of an object *)
(* gives what a fresh one would give.                                      *)
(***************************************************************************)
EXTENDS SpiffsObjects, FiniteSetTheorems, WellFoundedInduction, TLAPS

----------------------------------------------------------------------------
(* Numbers.                                                                *)

NatLess == {ss \in Nat \X Nat : ss[1] < ss[2]}

\* The order of the naturals is well-founded.
LEMMA NatLessIsWellFounded == IsWellFoundedOn(NatLess, Nat)
<1>1. OpToRel(<, Nat) = NatLess
  BY DEF OpToRel, NatLess
<1> QED BY <1>1, NatLessThanWellFounded

\* Induction up to n, over a set of numbers.
LEMMA UpTo ==
    ASSUME NEW K, NEW n \in Nat, 0 \in K,
           \A k \in 0 .. n - 1 : k \in K => k + 1 \in K
    PROVE  n \in K
<1> SUFFICES ASSUME n \notin K PROVE FALSE
  OBVIOUS
<1> DEFINE S == {k \in 0 .. n : k \notin K}
<1>1. S \in SUBSET Nat /\ S # {}
  OBVIOUS
<1>2. PICK x \in S : \A y \in S : ~(<<y, x>> \in NatLess)
  BY <1>1, NatLessIsWellFounded, WFMin
<1>3. x # 0 /\ x - 1 \in 0 .. n - 1 /\ x - 1 \in Nat
  BY <1>2
<1>4. x - 1 \in K
  <2>1. <<x - 1, x>> \in NatLess
    BY <1>3 DEF NatLess
  <2> QED BY <1>2, <1>3, <2>1
<1>5. x - 1 + 1 = x
  BY <1>3
<1> QED BY <1>2, <1>3, <1>4, <1>5

\* The greatest of a non-empty set of numbers up to n.
LEMMA MaxUpTo ==
    ASSUME NEW n \in Nat, NEW s \in SUBSET (1 .. n + 1), s # {}
    PROVE  /\ Max(s) \in s
           /\ n + 1 \in s => Max(s) = n + 1
           /\ s \ {Max(s)} \in SUBSET (1 .. n)
<1> DEFINE S == {k \in Nat : n + 1 - k \in s}
<1>1. S \in SUBSET Nat /\ S # {}
  <2>1. PICK i \in s : TRUE
    OBVIOUS
  <2>2. n + 1 - i \in Nat /\ n + 1 - (n + 1 - i) = i
    BY <2>1
  <2> QED BY <2>2
<1>2. PICK x \in S : \A y \in S : ~(<<y, x>> \in NatLess)
  BY <1>1, NatLessIsWellFounded, WFMin
<1> DEFINE m == n + 1 - x
<1>3. m \in s
  BY <1>2
<1>4. ASSUME NEW y \in s PROVE m >= y
  <2>1. n + 1 - y \in S
    OBVIOUS
  <2>2. ~(n + 1 - y < x)
    BY <1>2, <2>1 DEF NatLess
  <2> QED BY <2>2, <1>2
<1> HIDE DEF m
<1>5. Max(s) \in s /\ \A y \in s : Max(s) >= y
  BY <1>3, <1>4 DEF Max
<1>8. Max(s) \in 1 .. n + 1 /\ Max(s) \in Int
  <2>1. Max(s) \in s
    BY <1>5
  <2>2. s \subseteq 1 .. n + 1
    OBVIOUS
  <2>3. Max(s) \in 1 .. n + 1
    BY <2>1, <2>2
  <2> QED BY <2>3
<1>6. n + 1 \in s => Max(s) = n + 1
  <2> SUFFICES ASSUME n + 1 \in s PROVE Max(s) = n + 1
    OBVIOUS
  <2>1. Max(s) >= n + 1
    BY <1>5
  <2> QED BY <1>8, <2>1
<1>7. ASSUME NEW i \in s, i # Max(s) PROVE i \in 1 .. n
  <2>1. i \in 1 .. n + 1 /\ i \in Int /\ Max(s) >= i
    BY <1>5, <1>7
  <2> QED BY <1>7, <1>8, <2>1
<1> QED BY <1>5, <1>6, <1>7

\* Quotient and remainder.
LEMMA Divide ==
    ASSUME NEW n \in Nat, NEW k \in Nat \ {0}
    PROVE  n \div k \in Nat /\ n % k \in 0 .. k - 1 /\ n = k * (n \div k) + (n % k)
BY Z3

\* They are the only ones.
LEMMA DivideOnce ==
    ASSUME NEW k \in Nat \ {0}, NEW q \in Nat, NEW r \in 0 .. k - 1
    PROVE  (k * q + r) \div k = q /\ (k * q + r) % k = r
BY Z3

----------------------------------------------------------------------------
(* A loop of the code is a fold, and a fold the end of a chain of steps.   *)

\* The steps of the loops below, by name.
Step(c, f, e) ==
    IF c.op = "lookup" THEN LookupCheckPage(f, e)
    ELSE IF c.op = "index" THEN IndexCheckPage(f, e)
    ELSE IF c.op = "scan" THEN ScanPage(f, e)
    ELSE IF c.op = "entry" THEN ScanEntry(f, c.p, c.o, e)
    ELSE IF c.op = "member" THEN MoveMember(f, <<c.b, e>>, c.id)
    ELSE IF c.op = "data" THEN CleanData(f, c.b, e)
    ELSE IF c.op = "ix" THEN CleanIndex(f, c.b, e)
    ELSE IF c.op = "run" THEN GcRun(f, c.len)
    ELSE IF c.op = "read" THEN ReadStep(f, c.d, e, c.n, c.erased)
    ELSE BitmapPage(f, e)

Iterates(c, base, seq, n, g) ==
    g = [s \in SUBSET (1 .. n) |->
            IF s = {} THEN base
            ELSE Step(c, g[s \ {Max(s)}], seq[Max(s)])]

LEMMA IterateOnce ==
    ASSUME NEW c, NEW base, NEW seq, NEW n \in Nat, NEW g,
           Iterates(c, base, seq, n, g)
    PROVE  \E h : Iterates(c, base, seq, n + 1, h)
<1> DEFINE h == [s \in SUBSET (1 .. n + 1) |->
                   IF n + 1 \in s THEN Step(c, g[s \ {n + 1}], seq[n + 1])
                   ELSE g[s]]
           V(s) == IF s = {} THEN base
                   ELSE Step(c, h[s \ {Max(s)}], seq[Max(s)])
<1>1. ASSUME NEW s \in SUBSET (1 .. n)
      PROVE  g[s] = IF s = {} THEN base
                    ELSE Step(c, g[s \ {Max(s)}], seq[Max(s)])
  BY DEF Iterates
<1>2. ASSUME NEW s \in SUBSET (1 .. n) PROVE h[s] = g[s]
  <2>1. s \in SUBSET (1 .. n + 1) /\ n + 1 \notin s
    OBVIOUS
  <2> QED BY <2>1
<1>3. ASSUME NEW s \in SUBSET (1 .. n + 1) PROVE h[s] = V(s)
  <2>1. CASE s = {}
    BY <2>1, <1>1, <1>2
  <2>2. CASE s # {} /\ n + 1 \in s
    <3>1. Max(s) = n + 1 /\ s \ {Max(s)} \in SUBSET (1 .. n)
      BY <2>2, MaxUpTo
    <3>2. h[s \ {Max(s)}] = g[s \ {Max(s)}]
      BY <3>1, <1>2
    <3>3. h[s] = Step(c, g[s \ {n + 1}], seq[n + 1])
      BY <2>2
    <3> QED BY <2>2, <3>1, <3>2, <3>3
  <2>3. CASE s # {} /\ n + 1 \notin s
    <3>1. s \in SUBSET (1 .. n) /\ s \ {Max(s)} \in SUBSET (1 .. n)
      BY <2>3, MaxUpTo
    <3>2. h[s \ {Max(s)}] = g[s \ {Max(s)}] /\ h[s] = g[s]
      BY <3>1, <1>2
    <3> QED BY <2>3, <3>1, <3>2, <1>1
  <2> QED BY <2>1, <2>2, <2>3
<1>4. h = [s \in SUBSET (1 .. n + 1) |-> V(s)]
  BY <1>3
<1>5. Iterates(c, base, seq, n + 1, h)
  BY <1>4 DEF Iterates
<1> HIDE DEF h
<1> QED BY <1>5

LEMMA IterateAll ==
    ASSUME NEW c, NEW base, NEW seq, NEW n \in Nat
    PROVE  \E g : Iterates(c, base, seq, n, g)
<1> DEFINE K == {k \in Nat : \E g : Iterates(c, base, seq, k, g)}
<1>1. 0 \in K
  <2> DEFINE g == [s \in SUBSET (1 .. 0) |-> base]
  <2>1. g = [s \in SUBSET (1 .. 0) |-> IF s = {} THEN base
                ELSE Step(c, g[s \ {Max(s)}], seq[Max(s)])]
    <3>1. \A s \in SUBSET (1 .. 0) : s = {}
      OBVIOUS
    <3> QED BY <3>1
  <2>2. Iterates(c, base, seq, 0, g)
    BY <2>1 DEF Iterates
  <2> HIDE DEF g
  <2> QED BY <2>2
<1>2. ASSUME NEW k \in 0 .. n - 1, k \in K PROVE k + 1 \in K
  BY <1>2, IterateOnce
<1> HIDE DEF K
<1>3. n \in K
  BY <1>1, <1>2, UpTo
<1> QED BY <1>3 DEF K

\* The numbers up to the next one.
UpToNext(k) ==
    /\ 1 .. k + 1 # {} /\ Max(1 .. k + 1) = k + 1
    /\ (1 .. k + 1) \ {k + 1} = 1 .. k
LEMMA UpToNextAgain ==
    ASSUME NEW k \in Nat PROVE UpToNext(k)
<1>1. /\ 1 .. k + 1 \in SUBSET (1 .. k + 1) /\ 1 .. k + 1 # {}
      /\ k + 1 \in 1 .. k + 1 /\ (1 .. k + 1) \ {k + 1} = 1 .. k
  OBVIOUS
<1>2. Max(1 .. k + 1) = k + 1
  BY <1>1, MaxUpTo
<1> QED BY <1>1, <1>2 DEF UpToNext

\* The lookup pass.
LookupLoops(h, f0, seq, n) ==
    /\ h[0] = f0
    /\ \A k \in 0 .. n - 1 : h[k + 1] = LookupCheckPage(h[k], seq[k + 1])
    /\ FoldLeft(LookupCheckPage, f0, seq) = h[n]
LEMMA LookupLoop ==
    ASSUME NEW f0, NEW seq, NEW n \in Nat, DOMAIN seq = 1 .. n
    PROVE  \E h : LookupLoops(h, f0, seq, n)
<1> DEFINE P(g) == g = [s \in SUBSET (1 .. n) |->
                      IF s = {} THEN f0
                      ELSE LookupCheckPage(g[s \ {Max(s)}], seq[Max(s)])]
           it == CHOOSE g : P(g)
<1>1. PICK g : Iterates([op |-> "lookup"], f0, seq, n, g)
  BY IterateAll
<1>2. P(g)
  BY <1>1 DEF Iterates, Step
<1>3. P(it)
  BY <1>2
<1>4. FoldLeft(LookupCheckPage, f0, seq) = it[1 .. n]
  BY DEF FoldLeft, MapThenFoldSet
<1> DEFINE h == [k \in 0 .. n |-> it[1 .. k]]
<1> HIDE DEF it
<1>5. h[0] = f0
  <2>1. 1 .. 0 = {} /\ {} \in SUBSET (1 .. n)
    OBVIOUS
  <2> QED BY <2>1, <1>3
<1>6. ASSUME NEW k \in 0 .. n - 1
      PROVE  h[k + 1] = LookupCheckPage(h[k], seq[k + 1])
  <2>1. UpToNext(k) /\ 1 .. k + 1 \in SUBSET (1 .. n)
    BY UpToNextAgain
  <2>2. it[1 .. k + 1] = LookupCheckPage(it[1 .. k], seq[k + 1])
    BY <1>3, <2>1 DEF UpToNext
  <2>3. h[k + 1] = it[1 .. k + 1] /\ h[k] = it[1 .. k]
    OBVIOUS
  <2> QED BY <2>2, <2>3
<1>7. h[n] = it[1 .. n]
  OBVIOUS
<1> HIDE DEF h
<1>8. LookupLoops(h, f0, seq, n)
  BY <1>4, <1>5, <1>6, <1>7 DEF LookupLoops
<1> QED BY <1>8

\* The index pass.
IndexLoops(h, f0, seq, n) ==
    /\ h[0] = f0
    /\ \A k \in 0 .. n - 1 : h[k + 1] = IndexCheckPage(h[k], seq[k + 1])
    /\ FoldLeft(IndexCheckPage, f0, seq) = h[n]
LEMMA IndexLoop ==
    ASSUME NEW f0, NEW seq, NEW n \in Nat, DOMAIN seq = 1 .. n
    PROVE  \E h : IndexLoops(h, f0, seq, n)
<1> DEFINE P(g) == g = [s \in SUBSET (1 .. n) |->
                      IF s = {} THEN f0
                      ELSE IndexCheckPage(g[s \ {Max(s)}], seq[Max(s)])]
           it == CHOOSE g : P(g)
<1>1. PICK g : Iterates([op |-> "index"], f0, seq, n, g)
  BY IterateAll
<1>2. P(g)
  BY <1>1 DEF Iterates, Step
<1>3. P(it)
  BY <1>2
<1>4. FoldLeft(IndexCheckPage, f0, seq) = it[1 .. n]
  BY DEF FoldLeft, MapThenFoldSet
<1> DEFINE h == [k \in 0 .. n |-> it[1 .. k]]
<1> HIDE DEF it
<1>5. h[0] = f0
  <2>1. 1 .. 0 = {} /\ {} \in SUBSET (1 .. n)
    OBVIOUS
  <2> QED BY <2>1, <1>3
<1>6. ASSUME NEW k \in 0 .. n - 1
      PROVE  h[k + 1] = IndexCheckPage(h[k], seq[k + 1])
  <2>1. UpToNext(k) /\ 1 .. k + 1 \in SUBSET (1 .. n)
    BY UpToNextAgain
  <2>2. it[1 .. k + 1] = IndexCheckPage(it[1 .. k], seq[k + 1])
    BY <1>3, <2>1 DEF UpToNext
  <2>3. h[k + 1] = it[1 .. k + 1] /\ h[k] = it[1 .. k]
    OBVIOUS
  <2> QED BY <2>2, <2>3
<1>7. h[n] = it[1 .. n]
  OBVIOUS
<1> HIDE DEF h
<1>8. IndexLoops(h, f0, seq, n)
  BY <1>4, <1>5, <1>6, <1>7 DEF IndexLoops
<1> QED BY <1>8

\* The page pass over the pages.
ScanLoops(h, f0, seq, n) ==
    /\ h[0] = f0
    /\ \A k \in 0 .. n - 1 : h[k + 1] = ScanPage(h[k], seq[k + 1])
    /\ FoldLeft(ScanPage, f0, seq) = h[n]
LEMMA ScanLoop ==
    ASSUME NEW f0, NEW seq, NEW n \in Nat, DOMAIN seq = 1 .. n
    PROVE  \E h : ScanLoops(h, f0, seq, n)
<1> DEFINE P(g) == g = [s \in SUBSET (1 .. n) |->
                      IF s = {} THEN f0
                      ELSE ScanPage(g[s \ {Max(s)}], seq[Max(s)])]
           it == CHOOSE g : P(g)
<1>1. PICK g : Iterates([op |-> "scan"], f0, seq, n, g)
  BY IterateAll
<1>2. P(g)
  BY <1>1 DEF Iterates, Step
<1>3. P(it)
  BY <1>2
<1>4. FoldLeft(ScanPage, f0, seq) = it[1 .. n]
  BY DEF FoldLeft, MapThenFoldSet
<1> DEFINE h == [k \in 0 .. n |-> it[1 .. k]]
<1> HIDE DEF it
<1>5. h[0] = f0
  <2>1. 1 .. 0 = {} /\ {} \in SUBSET (1 .. n)
    OBVIOUS
  <2> QED BY <2>1, <1>3
<1>6. ASSUME NEW k \in 0 .. n - 1
      PROVE  h[k + 1] = ScanPage(h[k], seq[k + 1])
  <2>1. UpToNext(k) /\ 1 .. k + 1 \in SUBSET (1 .. n)
    BY UpToNextAgain
  <2>2. it[1 .. k + 1] = ScanPage(it[1 .. k], seq[k + 1])
    BY <1>3, <2>1 DEF UpToNext
  <2>3. h[k + 1] = it[1 .. k + 1] /\ h[k] = it[1 .. k]
    OBVIOUS
  <2> QED BY <2>2, <2>3
<1>7. h[n] = it[1 .. n]
  OBVIOUS
<1> HIDE DEF h
<1>8. ScanLoops(h, f0, seq, n)
  BY <1>4, <1>5, <1>6, <1>7 DEF ScanLoops
<1> QED BY <1>8

\* The page pass over the pages no index refers to.
BitmapLoops(h, f0, seq, n) ==
    /\ h[0] = f0
    /\ \A k \in 0 .. n - 1 : h[k + 1] = BitmapPage(h[k], seq[k + 1])
    /\ FoldLeft(BitmapPage, f0, seq) = h[n]
LEMMA BitmapLoop ==
    ASSUME NEW f0, NEW seq, NEW n \in Nat, DOMAIN seq = 1 .. n
    PROVE  \E h : BitmapLoops(h, f0, seq, n)
<1> DEFINE P(g) == g = [s \in SUBSET (1 .. n) |->
                      IF s = {} THEN f0
                      ELSE BitmapPage(g[s \ {Max(s)}], seq[Max(s)])]
           it == CHOOSE g : P(g)
<1>1. PICK g : Iterates([op |-> "bitmap"], f0, seq, n, g)
  BY IterateAll
<1>2. P(g)
  BY <1>1 DEF Iterates, Step
<1>3. P(it)
  BY <1>2
<1>4. FoldLeft(BitmapPage, f0, seq) = it[1 .. n]
  BY DEF FoldLeft, MapThenFoldSet
<1> DEFINE h == [k \in 0 .. n |-> it[1 .. k]]
<1> HIDE DEF it
<1>5. h[0] = f0
  <2>1. 1 .. 0 = {} /\ {} \in SUBSET (1 .. n)
    OBVIOUS
  <2> QED BY <2>1, <1>3
<1>6. ASSUME NEW k \in 0 .. n - 1
      PROVE  h[k + 1] = BitmapPage(h[k], seq[k + 1])
  <2>1. UpToNext(k) /\ 1 .. k + 1 \in SUBSET (1 .. n)
    BY UpToNextAgain
  <2>2. it[1 .. k + 1] = BitmapPage(it[1 .. k], seq[k + 1])
    BY <1>3, <2>1 DEF UpToNext
  <2>3. h[k + 1] = it[1 .. k + 1] /\ h[k] = it[1 .. k]
    OBVIOUS
  <2> QED BY <2>2, <2>3
<1>7. h[n] = it[1 .. n]
  OBVIOUS
<1> HIDE DEF h
<1>8. BitmapLoops(h, f0, seq, n)
  BY <1>4, <1>5, <1>6, <1>7 DEF BitmapLoops
<1> QED BY <1>8

\* The page pass over the entries of index page p.
EntryLoops(h, p, f0, n) ==
    /\ h[0] = f0
    /\ \A k \in 0 .. n - 1 : h[k + 1] = ScanEntry(h[k], p, f0.f.page[p].id.obj, SpanSeq(f0.f.page[p].span)[k + 1])
    /\ ScanIndex(f0, p) = NextIndex(h[n])
LEMMA EntryLoop ==
    ASSUME NEW p, NEW f0, NEW n \in Nat,
           DOMAIN SpanSeq(f0.f.page[p].span) = 1 .. n
    PROVE  \E h : EntryLoops(h, p, f0, n)
<1> DEFINE P(g) == g = [s \in SUBSET (1 .. n) |->
                      IF s = {} THEN f0
                      ELSE ScanEntry(g[s \ {Max(s)}], p, f0.f.page[p].id.obj, SpanSeq(f0.f.page[p].span)[Max(s)])]
           it == CHOOSE g : P(g)
<1>1. PICK g : Iterates([op |-> "entry", p |-> p, o |-> f0.f.page[p].id.obj], f0,
                      SpanSeq(f0.f.page[p].span), n, g)
  BY IterateAll
<1>2. P(g)
  BY <1>1 DEF Iterates, Step
<1>3. P(it)
  BY <1>2
<1>4. ScanIndex(f0, p) = NextIndex(it[1 .. n])
  BY DEF ScanIndex, FoldLeft, MapThenFoldSet
<1> DEFINE h == [k \in 0 .. n |-> it[1 .. k]]
<1> HIDE DEF it
<1>5. h[0] = f0
  <2>1. 1 .. 0 = {} /\ {} \in SUBSET (1 .. n)
    OBVIOUS
  <2> QED BY <2>1, <1>3
<1>6. ASSUME NEW k \in 0 .. n - 1
      PROVE  h[k + 1] = ScanEntry(h[k], p, f0.f.page[p].id.obj, SpanSeq(f0.f.page[p].span)[k + 1])
  <2>1. UpToNext(k) /\ 1 .. k + 1 \in SUBSET (1 .. n)
    BY UpToNextAgain
  <2>2. it[1 .. k + 1] = ScanEntry(it[1 .. k], p, f0.f.page[p].id.obj, SpanSeq(f0.f.page[p].span)[k + 1])
    BY <1>3, <2>1 DEF UpToNext
  <2>3. h[k + 1] = it[1 .. k + 1] /\ h[k] = it[1 .. k]
    OBVIOUS
  <2> QED BY <2>2, <2>3
<1>7. h[n] = it[1 .. n]
  OBVIOUS
<1> HIDE DEF h
<1>8. EntryLoops(h, p, f0, n)
  BY <1>4, <1>5, <1>6, <1>7 DEF EntryLoops
<1> QED BY <1>8

----------------------------------------------------------------------------
(* The pages in the order the check visits them.                           *)

\* Every page has a number, and a number is that of one page.
LEMMA PagesInOrder ==
    /\ DOMAIN AllPages = 1 .. NB * NE /\ NB * NE \in Nat
    /\ \A i \in 1 .. NB * NE : AllPages[i] \in Page
    /\ \A p \in Page : \E i \in 1 .. NB * NE : AllPages[i] = p
    /\ \A i, j \in 1 .. NB * NE : AllPages[i] = AllPages[j] => i = j
<1>1. NB * NE \in Nat /\ NE \in Nat \ {0} /\ NB \in Nat
  BY GeometryAssumption
<1>2. ASSUME NEW i \in 1 .. NB * NE
      PROVE  /\ AllPages[i] = <<(i - 1) \div NE, (i - 1) % NE>>
             /\ (i - 1) \div NE \in Nat /\ (i - 1) % NE \in 0 .. NE - 1
             /\ i = NE * ((i - 1) \div NE) + ((i - 1) % NE) + 1
  <2>1. i - 1 \in Nat
    BY <1>1
  <2>2. /\ (i - 1) \div NE \in Nat /\ (i - 1) % NE \in 0 .. NE - 1
        /\ i - 1 = NE * ((i - 1) \div NE) + ((i - 1) % NE)
    BY <1>1, <2>1, Divide
  <2>3. AllPages[i] = <<(i - 1) \div NE, (i - 1) % NE>>
    BY DEF AllPages
  <2>4. i = (i - 1) + 1 /\ NE * ((i - 1) \div NE) \in Nat /\ (i - 1) % NE \in Nat
    BY <1>1, <2>2
  <2> QED BY <2>2, <2>3, <2>4
<1>3. ASSUME NEW i \in 1 .. NB * NE PROVE AllPages[i] \in Page
  <2> DEFINE q == (i - 1) \div NE
             r == (i - 1) % NE
  <2>1. q \in Nat /\ r \in 0 .. NE - 1 /\ i = NE * q + r + 1 /\ i <= NB * NE
    BY <1>2
  <2> HIDE DEF q, r
  <2>2. q < NB
    <3> SUFFICES ASSUME q >= NB PROVE FALSE
      BY <1>1, <2>1
    <3>1. PICK e \in Nat : q = NB + e
      <4>1. q - NB \in Nat /\ q = NB + (q - NB)
        BY <1>1, <2>1
      <4> QED BY <4>1
    <3>2. NE * q = NB * NE + NE * e /\ NE * e \in Nat
      BY <1>1, <3>1
    <3> QED BY <1>1, <2>1, <3>2
  <2>3. AllPages[i] = <<q, r>>
    BY <1>2 DEF q, r
  <2>4. q \in Block /\ r \in Entry
    BY <1>1, <2>1, <2>2 DEF Block, Entry
  <2> QED BY <2>3, <2>4 DEF Page
<1>4. ASSUME NEW p \in Page PROVE \E i \in 1 .. NB * NE : AllPages[i] = p
  <2> DEFINE i == NE * p[1] + p[2] + 1
  <2>1. p[1] \in 0 .. NB - 1 /\ p[2] \in 0 .. NE - 1 /\ p = <<p[1], p[2]>>
    BY DEF Page, Block, Entry
  <2>2. i \in 1 .. NB * NE
    <3>1. PICK e \in Nat : NB = p[1] + 1 + e
      <4>1. NB - 1 - p[1] \in Nat /\ NB = p[1] + 1 + (NB - 1 - p[1])
        BY <1>1, <2>1
      <4> QED BY <4>1
    <3>2. NB * NE = NE * p[1] + NE + NE * e /\ NE * e \in Nat /\ NE * p[1] \in Nat
      BY <1>1, <2>1, <3>1
    <3> QED BY <1>1, <2>1, <3>2
  <2>3. (NE * p[1] + p[2]) \div NE = p[1] /\ (NE * p[1] + p[2]) % NE = p[2]
    <3>1. p[1] \in Nat /\ p[2] \in 0 .. NE - 1
      BY <1>1, <2>1
    <3> QED BY <1>1, <3>1, DivideOnce
  <2>4. i - 1 = NE * p[1] + p[2]
    BY <1>1, <2>1
  <2>5. AllPages[i] = p
    <3> HIDE DEF i
    <3>1. AllPages[i] = <<(i - 1) \div NE, (i - 1) % NE>>
      BY <1>2, <2>2
    <3> QED BY <3>1, <2>1, <2>3, <2>4
  <2> QED BY <2>2, <2>5
<1>5. ASSUME NEW i \in 1 .. NB * NE, NEW j \in 1 .. NB * NE, AllPages[i] = AllPages[j]
      PROVE  i = j
  <2>1. (i - 1) \div NE = (j - 1) \div NE /\ (i - 1) % NE = (j - 1) % NE
    BY <1>2, <1>5
  <2> QED BY <1>2, <2>1
<1>6. DOMAIN AllPages = 1 .. NB * NE
  BY DEF AllPages
<1> QED BY <1>1, <1>3, <1>4, <1>5, <1>6

----------------------------------------------------------------------------
(* A coherent chip.                                                        *)

\* A page that is in use is that of an object.
LEMMA BusyIsWhole ==
    ASSUME NEW f, AsListed(f), NEW p \in Page, IsBusy(f.lu[p])
    PROVE  /\ Whole(f, p)
           /\ \E o \in Obj : f.lu[p] = IF IsIndexId(f.lu[p]) THEN IndexId(o) ELSE DataId(o)
<1>1. Whole(f, p)
  BY DEF AsListed
<1>2. \A o \in Obj : IndexId(o).ix = TRUE /\ DataId(o).ix = FALSE
  BY DEF IndexId, DataId
<1> QED BY <1>1, <1>2 DEF Whole, ObjectIds, IsIndexId

\* The lookup pass passes a listed page over.
LEMMA LookupFindsNothing ==
    ASSUME NEW f, AsListed(f), NEW p \in Page
    PROVE  LookupCheckPage(f, p) = f
<1>1. ~Forgotten(f, p)
  <2>1. "USED" \notin Erased.flags
    BY DEF Erased
  <2> QED BY <2>1 DEF AsListed, Forgotten
<1>2. CASE IsBusy(f.lu[p])
  <2>1. Whole(f, p)
    BY <1>2, BusyIsWhole
  <2>2. ~IsFree(f.page[p].id) /\ "DELET" \notin f.page[p].flags /\ "FINAL" \in f.page[p].flags
    BY <1>2, <2>1 DEF Whole, Valid, IsBusy, IsFree
  <2> QED BY <1>1, <2>2 DEF LookupCheckPage, Abandoned, Unfinished
<1>3. CASE ~IsBusy(f.lu[p])
  BY <1>1, <1>3 DEF LookupCheckPage, Abandoned, Unfinished
<1> QED BY <1>2, <1>3

\* So does the index pass.
LEMMA IndexFindsNothing ==
    ASSUME NEW f, AsListed(f), NEW p \in Page
    PROVE  IndexCheckPage(f, p) = f
<1>1. CASE ~IsIndexId(f.lu[p])
  BY <1>1 DEF IndexCheckPage
<1>2. CASE IsIndexId(f.lu[p])
  <2>1. Whole(f, p)
    BY <1>2, BusyIsWhole DEF IsIndexId
  <2>2. /\ {"INDEX", "FINAL"} \subseteq f.page[p].flags
        /\ "DELET" \notin f.page[p].flags /\ "IXDELE" \notin f.page[p].flags
    BY <1>2, <2>1 DEF Whole, Valid
  <2> QED BY <1>2, <2>2 DEF IndexCheckPage
<1> QED BY <1>1, <1>2

\* The lookup pass changes nothing.
LEMMA LookupPassIdle ==
    ASSUME NEW f, AsListed(f) PROVE LookupCheck(f) = f
<1> DEFINE n == NB * NE
<1>0. /\ n \in Nat /\ DOMAIN AllPages = 1 .. n
      /\ \A k \in 0 .. n - 1 : AllPages[k + 1] \in Page /\ k + 1 \in Nat
  BY PagesInOrder
<1> HIDE DEF n
<1>1. PICK h : LookupLoops(h, f, AllPages, n)
  BY <1>0, LookupLoop
<1>a. h[0] = f /\ \A k \in 0 .. n - 1 : h[k + 1] = LookupCheckPage(h[k], AllPages[k + 1])
  BY <1>1 DEF LookupLoops
<1>b. LookupCheck(f) = h[n]
  BY <1>1 DEF LookupLoops, LookupCheck
<1> DEFINE K == {k \in Nat : h[k] = f}
<1>2. 0 \in K
  BY <1>a
<1>3. ASSUME NEW k \in 0 .. n - 1, k \in K PROVE k + 1 \in K
  <2>1. AllPages[k + 1] \in Page /\ k + 1 \in Nat
    BY <1>0
  <2>2. LookupCheckPage(f, AllPages[k + 1]) = f
    BY <2>1, LookupFindsNothing
  <2> QED BY <1>a, <1>3, <2>1, <2>2
<1> HIDE DEF K
<1>4. n \in K
  BY <1>0, <1>2, <1>3, UpTo
<1> QED BY <1>4, <1>b DEF K

\* The index pass changes nothing.
LEMMA IndexPassIdle ==
    ASSUME NEW f, AsListed(f) PROVE IndexCheck(f) = f
<1> DEFINE n == NB * NE
<1>0. /\ n \in Nat /\ DOMAIN AllPages = 1 .. n
      /\ \A k \in 0 .. n - 1 : AllPages[k + 1] \in Page /\ k + 1 \in Nat
  BY PagesInOrder
<1> HIDE DEF n
<1>1. PICK h : IndexLoops(h, f, AllPages, n)
  BY <1>0, IndexLoop
<1>a. h[0] = f /\ \A k \in 0 .. n - 1 : h[k + 1] = IndexCheckPage(h[k], AllPages[k + 1])
  BY <1>1 DEF IndexLoops
<1>b. IndexCheck(f) = h[n]
  BY <1>1 DEF IndexLoops, IndexCheck
<1> DEFINE K == {k \in Nat : h[k] = f}
<1>2. 0 \in K
  BY <1>a
<1>3. ASSUME NEW k \in 0 .. n - 1, k \in K PROVE k + 1 \in K
  <2>1. AllPages[k + 1] \in Page /\ k + 1 \in Nat
    BY <1>0
  <2>2. IndexCheckPage(f, AllPages[k + 1]) = f
    BY <2>1, IndexFindsNothing
  <2> QED BY <1>a, <1>3, <2>1, <2>2
<1> HIDE DEF K
<1>4. n \in K
  BY <1>0, <1>2, <1>3, UpTo
<1> QED BY <1>4, <1>b DEF K

----------------------------------------------------------------------------
(* Spans and the index pages that have entries for them.                   *)

\* The first spans of the index pages are numbers that grow.
LEMMA FirstSpanGrows ==
    ASSUME NEW x \in Nat
    PROVE  /\ FirstSpan(x) \in Nat /\ FirstSpan(x + 1) \in Nat
           /\ FirstSpan(x + 1) - FirstSpan(x) \in Nat
           /\ FirstSpan(x + 1) = HdrLen + x * IxLen
<1>1. HdrLen \in Nat /\ IxLen \in Nat
  BY ObjectAssumption
<1>2. FirstSpan(x + 1) = HdrLen + x * IxLen /\ x * IxLen \in Nat
  BY <1>1 DEF FirstSpan
<1>3. CASE x = 0
  BY <1>1, <1>2, <1>3 DEF FirstSpan
<1>4. CASE x # 0
  <2>1. x - 1 \in Nat /\ (x - 1) * IxLen \in Nat /\ x * IxLen = (x - 1) * IxLen + IxLen
    BY <1>1, <1>4
  <2>2. FirstSpan(x) = HdrLen + (x - 1) * IxLen
    BY <1>4 DEF FirstSpan
  <2> QED BY <1>1, <1>2, <2>1, <2>2
<1> QED BY <1>3, <1>4

\* The spans of an index page in the order the page pass visits them.
LEMMA SpansInOrder ==
    ASSUME NEW x \in Nat, NEW n, n = FirstSpan(x + 1) - FirstSpan(x)
    PROVE  /\ n \in Nat /\ DOMAIN SpanSeq(x) = 1 .. n
           /\ \A i \in 1 .. n : SpanSeq(x)[i] \in SpansOf(x)
           /\ \A i, j \in 1 .. n : SpanSeq(x)[i] = SpanSeq(x)[j] => i = j
           /\ SpansOf(x) = {SpanSeq(x)[i] : i \in 1 .. n}
           /\ SpansOf(x) \subseteq Nat
<1>1. FirstSpan(x) \in Nat /\ FirstSpan(x + 1) \in Nat /\ n \in Nat
  BY FirstSpanGrows
<1>2. /\ DOMAIN SpanSeq(x) = 1 .. n
      /\ \A i \in 1 .. n : SpanSeq(x)[i] = FirstSpan(x) + i - 1
  BY DEF SpanSeq
<1>3. ASSUME NEW s \in SpansOf(x) PROVE \E i \in 1 .. n : SpanSeq(x)[i] = s
  <2>1. s - FirstSpan(x) + 1 \in 1 .. n
    BY <1>1 DEF SpansOf
  <2>2. SpanSeq(x)[s - FirstSpan(x) + 1] = s
    BY <1>1, <1>2, <2>1 DEF SpansOf
  <2> QED BY <2>1, <2>2
<1>4. \A i \in 1 .. n : SpanSeq(x)[i] \in SpansOf(x)
  BY <1>1, <1>2 DEF SpansOf
<1>5. ASSUME NEW i \in 1 .. n, NEW j \in 1 .. n, SpanSeq(x)[i] = SpanSeq(x)[j]
      PROVE  i = j
  BY <1>1, <1>2, <1>5
<1>6. SpansOf(x) \subseteq Nat
  BY <1>1 DEF SpansOf
<1> QED BY <1>1, <1>2, <1>3, <1>4, <1>5, <1>6

\* An index page has entries for the spans whose index page it is.
LEMMA SpansOfIndex ==
    ASSUME NEW x \in Nat, NEW s \in Nat
    PROVE  /\ IxSpan(s) \in Nat
           /\ s \in SpansOf(x) <=> IxSpan(s) = x
<1>0. FREE \notin Nat
  BY IdAssumption
<1>1. HdrLen \in Nat \ {0} /\ IxLen \in Nat \ {0} /\ s # FREE
  BY <1>0, ObjectAssumption
<1>a. x * IxLen \in Nat
  BY <1>1
<1>2. FirstSpan(x) \in Nat /\ FirstSpan(x + 1) = HdrLen + x * IxLen /\ x * IxLen \in Nat
  BY <1>a, FirstSpanGrows
<1>3. s \in SpansOf(x) <=> FirstSpan(x) <= s /\ s < FirstSpan(x + 1)
  BY <1>1, <1>2 DEF SpansOf
<1>4. CASE s < HdrLen
  <2>1. IxSpan(s) = 0
    BY <1>1, <1>4 DEF IxSpan
  <2>2. CASE x = 0
    BY <1>1, <1>2, <1>3, <1>4, <2>1, <2>2 DEF FirstSpan
  <2>3. CASE x # 0
    <3>1. FirstSpan(x) = HdrLen + (x - 1) * IxLen /\ (x - 1) * IxLen \in Nat
      BY <1>1, <2>3 DEF FirstSpan
    <3> QED BY <1>1, <1>3, <1>4, <2>1, <2>3, <3>1
  <2> QED BY <2>1, <2>2, <2>3
<1>5. CASE s >= HdrLen
  <2> DEFINE m == s - HdrLen
             q == m \div IxLen
             r == m % IxLen
  <2>1. m \in Nat /\ s = HdrLen + m
    BY <1>1, <1>5
  <2>2. IxSpan(s) = 1 + q
    BY <1>1, <1>5 DEF IxSpan
  <2> HIDE DEF m
  <2>3. q \in Nat /\ r \in 0 .. IxLen - 1 /\ m = IxLen * q + r
    BY <1>1, <2>1, Divide
  <2> HIDE DEF q, r
  <2>4. CASE x = 0
    <3>1. FirstSpan(x + 1) = HdrLen
      BY <1>1, <1>2, <2>4
    <3> QED BY <1>1, <1>3, <1>5, <2>2, <2>3, <2>4, <3>1
  <2>5. CASE x # 0
    <3>1. FirstSpan(x) = HdrLen + (x - 1) * IxLen /\ x - 1 \in Nat
      BY <1>1, <2>5 DEF FirstSpan
    <3>2. s \in SpansOf(x) <=> (x - 1) * IxLen <= m /\ m < x * IxLen
      BY <1>1, <1>2, <1>3, <2>1, <3>1
    <3>3. CASE q = x - 1
      <4>1. m = (x - 1) * IxLen + r /\ x * IxLen = (x - 1) * IxLen + IxLen
        BY <1>1, <2>3, <3>1, <3>3
      <4> QED BY <1>1, <2>2, <2>3, <3>1, <3>2, <3>3, <4>1
    <3>4. CASE q < x - 1
      <4>1. PICK e \in Nat : x - 1 = q + 1 + e
        <5>1. x - 1 - q - 1 \in Nat /\ x - 1 = q + 1 + (x - 1 - q - 1)
          BY <2>3, <3>1, <3>4
        <5> QED BY <5>1
      <4>2. (x - 1) * IxLen = IxLen * q + IxLen + IxLen * e /\ IxLen * e \in Nat
        BY <1>1, <2>3, <4>1
      <4>3. IxLen * q \in Nat
        BY <1>1, <2>3
      <4> QED BY <1>1, <2>2, <2>3, <3>1, <3>2, <3>4, <4>2, <4>3
    <3>5. CASE q > x - 1
      <4>1. PICK e \in Nat : q = x + e
        <5>1. q - x \in Nat /\ q = x + (q - x)
          BY <2>3, <3>1, <3>5
        <5> QED BY <5>1
      <4>2. IxLen * q = x * IxLen + IxLen * e /\ IxLen * e \in Nat
        BY <1>1, <4>1
      <4> QED BY <1>1, <1>2, <2>2, <2>3, <3>1, <3>2, <3>5, <4>2
    <3> QED BY <2>3, <3>1, <3>3, <3>4, <3>5
  <2> QED BY <2>4, <2>5
<1>6. IxSpan(s) \in Nat
  <2>1. CASE s >= HdrLen
    <3>1. s - HdrLen \in Nat
      BY <1>1, <2>1
    <3>2. (s - HdrLen) \div IxLen \in Nat
      BY <1>1, <3>1, Divide
    <3> QED BY <1>1, <2>1, <3>2 DEF IxSpan
  <2> QED BY <1>1, <2>1 DEF IxSpan
<1> QED BY <1>1, <1>4, <1>5, <1>6

----------------------------------------------------------------------------
(* The page pass on a coherent chip.                                       *)

Scan(f, refs, data) == [f |-> f, refs |-> refs, data |-> data, at |-> "scan"]
RefsAt(f, p, S)     == {RefAt(f.page[p], s) : s \in S} \ {NoPix}
RefsIn(f, p)        == RefsAt(f, p, SpansOf(f.page[p].span))
LiveIndexes(f, P)   == {p \in P : LiveIndex(f.page[p])}
DataPages(f, P)     == {p \in P : UsedPage(f.page[p]) /\ ~LiveIndex(f.page[p])}
RefsFrom(f, P)      == UNION {RefsIn(f, p) : p \in LiveIndexes(f, P)}

\* A page in use is an index page that lives or a data page.
LEMMA UsedIsBusy ==
    ASSUME NEW f, AsListed(f), NEW p \in Page, UsedPage(f.page[p])
    PROVE  /\ IsBusy(f.lu[p]) /\ Whole(f, p)
           /\ LiveIndex(f.page[p]) => IsIndexId(f.lu[p])
           /\ ~LiveIndex(f.page[p]) => IsDataId(f.lu[p])
<1>1. "USED" \notin Erased.flags
  BY DEF Erased
<1>2. IsBusy(f.lu[p])
  BY <1>1 DEF AsListed, IsFree, IsDeleted, IsBusy, UsedPage
<1>3. Whole(f, p)
  BY <1>2, BusyIsWhole
<1>4. LiveIndex(f.page[p]) <=> IsIndexId(f.lu[p])
  BY <1>3 DEF Whole, Valid, LiveIndex
<1> QED BY <1>2, <1>3, <1>4 DEF IsDataId, IsIndexId

\* A live index page is used.
LEMMA LiveIsUsed ==
    ASSUME NEW pg, LiveIndex(pg) PROVE UsedPage(pg)
BY DEF LiveIndex, UsedPage

\* What a live index page of a coherent chip refers to is what it should be.
LEMMA RefIsNotStray ==
    ASSUME NEW f, AsListed(f), RefersToItsData(f),
           NEW p \in Page, LiveIndex(f.page[p]),
           NEW s \in SpansOf(f.page[p].span), RefAt(f.page[p], s) # NoPix
    PROVE  /\ IsPageOf(f, RefAt(f.page[p], s), DataId(f.lu[p].obj), s)
           /\ ~Stray(f.page[RefAt(f.page[p], s)], f.page[p].id.obj, s)
           /\ \E o \in Obj : f.lu[p] = IndexId(o)
<1> DEFINE r == RefAt(f.page[p], s)
<1>1. IsBusy(f.lu[p]) /\ Whole(f, p) /\ IsIndexId(f.lu[p])
  BY LiveIsUsed, UsedIsBusy
<1>2. PICK o \in Obj : f.lu[p] = IndexId(o)
  BY <1>1, BusyIsWhole
<1>3. IsPageOf(f, r, DataId(f.lu[p].obj), s)
  BY <1>1 DEF RefersToItsData
<1> HIDE DEF r
<1>4. r \in Page /\ f.lu[r] = DataId(o) /\ f.page[r].span = s
  BY <1>2, <1>3 DEF IsPageOf, IndexId
<1>5. IsBusy(DataId(o)) /\ ~IsIndexId(DataId(o))
  BY IdAssumption DEF IsBusy, IsIndexId, ObjectIds, DataId
<1>6. Whole(f, r)
  BY <1>4, <1>5, BusyIsWhole
<1>7. f.page[p].id.obj = o
  BY <1>1, <1>2 DEF Whole, IndexId
<1>8. ~Stray(f.page[r], o, s)
  BY <1>4, <1>5, <1>6 DEF Whole, Valid, Stray, UsedPage
<1> QED BY <1>2, <1>3, <1>7, <1>8 DEF r

\* An entry is noted, if its page was not.
LEMMA EntryIsNoted ==
    ASSUME NEW f, Ok(f), AsListed(f), RefersToItsData(f),
           NEW p \in Page, LiveIndex(f.page[p]),
           NEW s \in SpansOf(f.page[p].span), NEW refs, NEW data,
           RefAt(f.page[p], s) \notin refs
    PROVE  ScanEntry(Scan(f, refs, data), p, f.page[p].id.obj, s)
           = Scan(f, refs \cup ({RefAt(f.page[p], s)} \ {NoPix}), data)
<1> DEFINE r == RefAt(f.page[p], s)
<1>1. CASE r = NoPix
  <2>1. refs \cup ({r} \ {NoPix}) = refs
    BY <1>1
  <2> QED BY <1>1, <2>1 DEF ScanEntry, Scan
<1>2. CASE r # NoPix
  <2>1. ~Stray(f.page[r], f.page[p].id.obj, s)
    BY <1>2, RefIsNotStray
  <2>2. refs \cup ({r} \ {NoPix}) = refs \cup {r}
    BY <1>2
  <2>3. /\ Scan(f, refs, data).f = f /\ Scan(f, refs, data).at = "scan"
        /\ Scan(f, refs, data).refs = refs
        /\ [Scan(f, refs, data) EXCEPT !.refs = @ \cup {r}] = Scan(f, refs \cup {r}, data)
    BY DEF Scan
  <2>4. ScanEntry(Scan(f, refs, data), p, f.page[p].id.obj, s)
        = [Scan(f, refs, data) EXCEPT !.refs = @ \cup {r}]
    BY <1>2, <2>1, <2>3 DEF ScanEntry
  <2> QED BY <2>2, <2>3, <2>4
<1> QED BY <1>1, <1>2

\* Two entries of live index pages refer to one page only if they are one.
LEMMA RefsDiffer ==
    ASSUME NEW f, AsListed(f), RefersToItsData(f), OneOfEach(f),
           NEW p \in Page, LiveIndex(f.page[p]),
           NEW q \in Page, LiveIndex(f.page[q]),
           NEW s \in SpansOf(f.page[p].span), NEW t \in SpansOf(f.page[q].span),
           RefAt(f.page[p], s) = RefAt(f.page[q], t), RefAt(f.page[p], s) # NoPix
    PROVE  p = q /\ s = t
<1>1. /\ Whole(f, p) /\ Whole(f, q) /\ IsBusy(f.lu[p])
  BY LiveIsUsed, UsedIsBusy
<1>2. PICK o \in Obj, u \in Obj : f.lu[p] = IndexId(o) /\ f.lu[q] = IndexId(u)
  BY RefIsNotStray
<1>3. /\ IsPageOf(f, RefAt(f.page[p], s), DataId(o), s)
      /\ IsPageOf(f, RefAt(f.page[p], s), DataId(u), t)
  <2>1. f.lu[p].obj = o /\ f.lu[q].obj = u
    BY <1>2 DEF IndexId
  <2> QED BY <2>1, RefIsNotStray
<1>4. s = t /\ o = u
  BY <1>3 DEF IsPageOf, DataId
<1>5. f.page[p].span \in Nat /\ f.page[q].span \in Nat /\ s \in Nat
  <2>1. f.page[p].span \in Nat /\ f.page[q].span \in Nat
    BY <1>1 DEF Whole
  <2> QED BY <2>1, SpansInOrder
<1>6. f.page[p].span = f.page[q].span
  BY <1>4, <1>5, SpansOfIndex
<1>7. p = q
  <2>1. IsPageOf(f, q, f.lu[p], f.page[p].span)
    BY <1>2, <1>4, <1>6 DEF IsPageOf
  <2> QED BY <1>1, <2>1 DEF OneOfEach
<1> QED BY <1>4, <1>7

\* The entries of a live index page are noted, if none of their pages was.
LEMMA IndexIsNoted ==
    ASSUME NEW f, Ok(f), AsListed(f), RefersToItsData(f), OneOfEach(f),
           NEW p \in Page, LiveIndex(f.page[p]), NEW refs, NEW data,
           RefsIn(f, p) \cap refs = {}, NoPix \notin refs
    PROVE  ScanIndex(Scan(f, refs, data), p) = Scan(f, refs \cup RefsIn(f, p), data)
<1> DEFINE pg == f.page[p]
           x == pg.span
           n == FirstSpan(x + 1) - FirstSpan(x)
           seq == SpanSeq(x)
           run == Scan(f, refs, data)
<1>1. x \in Nat
  BY LiveIsUsed, UsedIsBusy DEF Whole
<1>2. /\ n \in Nat /\ DOMAIN seq = 1 .. n
      /\ \A i \in 1 .. n : seq[i] \in SpansOf(x)
      /\ \A i, j \in 1 .. n : seq[i] = seq[j] => i = j
      /\ SpansOf(x) = {seq[i] : i \in 1 .. n}
  <2> HIDE DEF x
  <2> QED BY <1>1, SpansInOrder
<1> HIDE DEF n, seq
<1>a. run.f.page[p] = pg
  BY DEF Scan
<1>3. PICK h : EntryLoops(h, p, run, n)
  <2>1. DOMAIN SpanSeq(run.f.page[p].span) = 1 .. n
    BY <1>2, <1>a DEF seq
  <2> HIDE DEF pg, run
  <2> QED BY <1>2, <2>1, EntryLoop
<1>4. /\ h[0] = run
      /\ \A k \in 0 .. n - 1 : h[k + 1] = ScanEntry(h[k], p, pg.id.obj, seq[k + 1])
  BY <1>3, <1>a DEF EntryLoops, seq
<1> DEFINE Noted(k) == {seq[i] : i \in 1 .. k}
           K == {k \in Nat : h[k] = Scan(f, refs \cup RefsAt(f, p, Noted(k)), data)}
<1>5. 0 \in K
  <2>1. Noted(0) = {}
    OBVIOUS
  <2>2. RefsAt(f, p, Noted(0)) = {}
    BY <2>1 DEF RefsAt
  <2>3. refs \cup RefsAt(f, p, Noted(0)) = refs
    BY <2>2
  <2> HIDE DEF Noted
  <2> QED BY <1>4, <2>3
<1>6. ASSUME NEW k \in 0 .. n - 1, k \in K PROVE k + 1 \in K
  <2> DEFINE s == seq[k + 1]
             r == RefAt(pg, s)
             before == RefsAt(f, p, Noted(k))
  <2>1. s \in SpansOf(x) /\ k + 1 \in 1 .. n /\ k \in Nat /\ k + 1 \in Nat
    BY <1>2
  <2>2. r \notin refs \cup before
    <3>1. r \notin refs
      BY <2>1 DEF RefsIn, RefsAt
    <3>2. r \notin before
      <4> SUFFICES ASSUME r \in before PROVE FALSE
        OBVIOUS
      <4>1. PICK i \in 1 .. k : r = RefAt(pg, seq[i]) /\ r # NoPix
        BY DEF RefsAt
      <4>2. i \in 1 .. n /\ seq[i] \in SpansOf(x) /\ i # k + 1
        BY <1>2, <2>1, <4>1
      <4> HIDE DEF before, Noted, K
      <4>3. s = seq[i]
        BY <2>1, <4>1, <4>2, RefsDiffer
      <4> QED BY <1>2, <2>1, <4>2, <4>3
    <3> QED BY <3>1, <3>2
  <2>3. h[k + 1] = ScanEntry(Scan(f, refs \cup before, data), p, pg.id.obj, s)
    BY <1>4, <1>6
  <2>4. Noted(k + 1) = Noted(k) \cup {s}
    BY <2>1
  <2>5. RefsAt(f, p, Noted(k + 1)) = before \cup ({r} \ {NoPix})
    BY <2>4 DEF RefsAt
  <2>6. (refs \cup before) \cup ({r} \ {NoPix}) = refs \cup RefsAt(f, p, Noted(k + 1))
    BY <2>5
  <2> HIDE DEF before, Noted
  <2>7. ScanEntry(Scan(f, refs \cup before, data), p, pg.id.obj, s)
        = Scan(f, (refs \cup before) \cup ({r} \ {NoPix}), data)
    <3> HIDE DEF s
    <3> QED BY <2>1, <2>2, EntryIsNoted
  <2> QED BY <2>1, <2>3, <2>6, <2>7
<1> HIDE DEF K
<1>7. n \in K
  BY <1>2, <1>5, <1>6, UpTo
<1>8. h[n] = Scan(f, refs \cup RefsIn(f, p), data)
  <2>1. Noted(n) = SpansOf(x)
    BY <1>2
  <2> HIDE DEF Noted
  <2> QED BY <1>7, <2>1 DEF K, RefsIn
<1>9. ScanIndex(run, p) = NextIndex(h[n])
  BY <1>3 DEF EntryLoops
<1>10. NextIndex(h[n]) = h[n]
  BY <1>8 DEF NextIndex, Scan
<1> QED BY <1>8, <1>9, <1>10

\* A page is noted for what it is.
LEMMA PageIsNoted ==
    ASSUME NEW f, Ok(f), AsListed(f), RefersToItsData(f), OneOfEach(f),
           NEW p \in Page, NEW refs, NEW data,
           RefsFrom(f, {p}) \cap refs = {}, NoPix \notin refs
    PROVE  ScanPage(Scan(f, refs, data), p)
           = Scan(f, refs \cup RefsFrom(f, {p}), data \cup DataPages(f, {p}))
<1> DEFINE run == Scan(f, refs, data)
<1>1. run.f = f /\ run.at = "scan" /\ run.data = data
  BY DEF Scan
<1>2. CASE LiveIndex(f.page[p])
  <2>1. LiveIndexes(f, {p}) = {p} /\ DataPages(f, {p}) = {}
    BY <1>2 DEF LiveIndexes, DataPages
  <2>2. RefsFrom(f, {p}) = RefsIn(f, p)
    BY <2>1 DEF RefsFrom
  <2>3. ScanIndex(run, p) = Scan(f, refs \cup RefsIn(f, p), data)
    BY <1>2, <2>2, IndexIsNoted
  <2>4. ScanPage(run, p) = ScanIndex(run, p)
    BY <1>1, <1>2 DEF ScanPage
  <2>5. data \cup DataPages(f, {p}) = data
    BY <2>1
  <2> QED BY <2>2, <2>3, <2>4, <2>5
<1>3. CASE ~LiveIndex(f.page[p])
  <2>1. LiveIndexes(f, {p}) = {}
    BY <1>3 DEF LiveIndexes
  <2>2. RefsFrom(f, {p}) = {}
    BY <2>1 DEF RefsFrom
  <2>3. CASE UsedPage(f.page[p])
    <3>1. DataPages(f, {p}) = {p}
      BY <1>3, <2>3 DEF DataPages
    <3>2. ScanPage(run, p) = [run EXCEPT !.data = @ \cup {p}]
      BY <1>1, <1>3, <2>3 DEF ScanPage
    <3>3. [run EXCEPT !.data = @ \cup {p}] = Scan(f, refs, data \cup {p})
      BY DEF Scan
    <3>4. refs \cup RefsFrom(f, {p}) = refs
      BY <2>2
    <3> QED BY <3>1, <3>2, <3>3, <3>4
  <2>4. CASE ~UsedPage(f.page[p])
    <3>1. DataPages(f, {p}) = {}
      BY <2>4 DEF DataPages
    <3>2. ScanPage(run, p) = run
      BY <1>1, <1>3, <2>4 DEF ScanPage
    <3>3. refs \cup RefsFrom(f, {p}) = refs /\ data \cup DataPages(f, {p}) = data
      BY <2>2, <3>1
    <3> QED BY <3>2, <3>3
  <2> QED BY <2>3, <2>4
<1> QED BY <1>2, <1>3

\* The pages of numbers up to k.
PagesTo(k) == {AllPages[i] : i \in 1 .. k}

\* All pages are noted for what they are: no restart.
LEMMA PagesAreNoted ==
    ASSUME NEW f, Ok(f), AsListed(f), RefersToItsData(f), OneOfEach(f)
    PROVE  FoldLeft(ScanPage, Scan(f, {}, {}), AllPages)
           = Scan(f, RefsFrom(f, Page), DataPages(f, Page))
<1> DEFINE n == NB * NE
           Noted(k) == Scan(f, RefsFrom(f, PagesTo(k)), DataPages(f, PagesTo(k)))
<1>0. /\ n \in Nat /\ DOMAIN AllPages = 1 .. n
      /\ \A k \in 0 .. n - 1 : AllPages[k + 1] \in Page /\ k + 1 \in Nat
      /\ PagesTo(n) = Page
      /\ \A i, j \in 1 .. n : AllPages[i] = AllPages[j] => i = j
      /\ \A i \in 1 .. n : AllPages[i] \in Page
  BY PagesInOrder DEF PagesTo
<1> HIDE DEF n
<1>1. PICK h : ScanLoops(h, Scan(f, {}, {}), AllPages, n)
  BY <1>0, ScanLoop
<1>2. /\ h[0] = Scan(f, {}, {})
      /\ \A k \in 0 .. n - 1 : h[k + 1] = ScanPage(h[k], AllPages[k + 1])
  BY <1>1 DEF ScanLoops
<1> DEFINE K == {k \in Nat : h[k] = Noted(k)}
<1>3. 0 \in K
  <2>1. PagesTo(0) = {}
    BY DEF PagesTo
  <2>2. RefsFrom(f, PagesTo(0)) = {} /\ DataPages(f, PagesTo(0)) = {}
    BY <2>1 DEF RefsFrom, DataPages, LiveIndexes
  <2> QED BY <1>2, <2>2
<1>4. ASSUME NEW k \in 0 .. n - 1, k \in K PROVE k + 1 \in K
  <2> DEFINE p == AllPages[k + 1]
             refs == RefsFrom(f, PagesTo(k))
             data == DataPages(f, PagesTo(k))
  <2>1. p \in Page /\ k + 1 \in 1 .. n /\ k + 1 \in Nat /\ k \in Nat
    BY <1>0
  <2>2. p \notin PagesTo(k) /\ PagesTo(k) \subseteq Page
    <3>1. ASSUME NEW i \in 1 .. k PROVE AllPages[i] \in Page /\ AllPages[i] # p
      <4>1. i \in 1 .. n /\ i # k + 1
        BY <1>0, <2>1
      <4>a. \A j, m \in 1 .. n : AllPages[j] = AllPages[m] => j = m
        BY <1>0
      <4>2. AllPages[i] = AllPages[k + 1] => i = k + 1
        BY <2>1, <4>1, <4>a
      <4>3. AllPages[i] \in Page
        BY <1>0, <4>1
      <4> QED BY <4>1, <4>2, <4>3
    <3> QED BY <3>1 DEF PagesTo
  <2>3. PagesTo(k + 1) = PagesTo(k) \cup {p}
    <3>1. 1 .. k + 1 = 1 .. k \cup {k + 1}
      BY <2>1
    <3> QED BY <3>1 DEF PagesTo
  <2> HIDE DEF p
  <2>4. RefsFrom(f, {p}) \cap refs = {}
    <3> SUFFICES ASSUME NEW r \in RefsFrom(f, {p}), r \in refs PROVE FALSE
      OBVIOUS
    <3>1. LiveIndex(f.page[p]) /\ r \in RefsIn(f, p)
      BY DEF RefsFrom, LiveIndexes
    <3>2. PICK q \in PagesTo(k) : LiveIndex(f.page[q]) /\ r \in RefsIn(f, q)
      BY DEF RefsFrom, LiveIndexes
    <3>3. PICK s \in SpansOf(f.page[p].span) : r = RefAt(f.page[p], s) /\ r # NoPix
      BY <3>1 DEF RefsIn, RefsAt
    <3>4. PICK t \in SpansOf(f.page[q].span) : r = RefAt(f.page[q], t)
      BY <3>2 DEF RefsIn, RefsAt
    <3>5. p = q
      BY <2>1, <2>2, <3>1, <3>2, <3>3, <3>4, RefsDiffer
    <3> QED BY <2>2, <3>5
  <2>5. NoPix \notin refs
    BY DEF RefsFrom, RefsIn, RefsAt
  <2>6. /\ RefsFrom(f, PagesTo(k + 1)) = refs \cup RefsFrom(f, {p})
        /\ DataPages(f, PagesTo(k + 1)) = data \cup DataPages(f, {p})
    <3>1. /\ LiveIndexes(f, PagesTo(k + 1))
             = LiveIndexes(f, PagesTo(k)) \cup LiveIndexes(f, {p})
          /\ DataPages(f, PagesTo(k + 1)) = data \cup DataPages(f, {p})
      BY <2>3 DEF LiveIndexes, DataPages
    <3>2. RefsFrom(f, PagesTo(k + 1)) = refs \cup RefsFrom(f, {p})
      BY <3>1 DEF RefsFrom
    <3> QED BY <3>1, <3>2
  <2>7. h[k + 1] = ScanPage(Scan(f, refs, data), p)
    BY <1>2, <1>4 DEF p
  <2> HIDE DEF refs, data
  <2>8. ScanPage(Scan(f, refs, data), p)
        = Scan(f, refs \cup RefsFrom(f, {p}), data \cup DataPages(f, {p}))
    BY <2>1, <2>4, <2>5, PageIsNoted
  <2> QED BY <2>1, <2>6, <2>7, <2>8
<1> HIDE DEF K, Noted
<1>5. n \in K
  BY <1>0, <1>3, <1>4, UpTo
<1>6. h[n] = Scan(f, RefsFrom(f, Page), DataPages(f, Page))
  BY <1>0, <1>5 DEF K, Noted
<1>7. FoldLeft(ScanPage, Scan(f, {}, {}), AllPages) = h[n]
  BY <1>1 DEF ScanLoops
<1> QED BY <1>6, <1>7

\* Every data page is referred to.
LEMMA DataIsReferredTo ==
    ASSUME NEW f, AsListed(f), ItsDataIsReferred(f)
    PROVE  DataPages(f, Page) \subseteq RefsFrom(f, Page)
<1> SUFFICES ASSUME NEW p \in DataPages(f, Page) PROVE p \in RefsFrom(f, Page)
  OBVIOUS
<1>1. p \in Page /\ UsedPage(f.page[p]) /\ ~LiveIndex(f.page[p])
  BY DEF DataPages
<1>2. IsBusy(f.lu[p]) /\ Whole(f, p) /\ IsDataId(f.lu[p])
  BY <1>1, UsedIsBusy
<1>3. PICK q \in Page : /\ IsPageOf(f, q, IndexId(f.lu[p].obj), IxSpan(f.page[p].span))
                        /\ RefAt(f.page[q], f.page[p].span) = p
  BY <1>1, <1>2 DEF ItsDataIsReferred
<1>4. PICK o \in Obj : f.lu[p] = DataId(o)
  BY <1>1, <1>2, BusyIsWhole DEF IsDataId, IsIndexId
<1>5. f.lu[q] = IndexId(o) /\ f.page[q].span = IxSpan(f.page[p].span)
  BY <1>3, <1>4 DEF IsPageOf, DataId
<1>6. IsBusy(f.lu[q]) /\ IsIndexId(f.lu[q])
  <2>1. IndexId(o) \in ObjectIds /\ IndexId(o).ix = TRUE
    BY DEF ObjectIds, IndexId
  <2> QED BY <1>5, <2>1, IdAssumption DEF IsBusy, IsIndexId
<1>7. LiveIndex(f.page[q])
  BY <1>6, BusyIsWhole DEF Whole, Valid, LiveIndex
<1>8. f.page[p].span \in SpansOf(f.page[q].span)
  <2>1. f.page[p].span \in Nat
    BY <1>2 DEF Whole
  <2>2. IxSpan(f.page[p].span) \in Nat
    BY <2>1, SpansOfIndex
  <2> QED BY <1>5, <2>1, <2>2, SpansOfIndex
<1>9. p # NoPix
  BY <1>1, ObjectAssumption
<1>10. p \in RefsIn(f, q)
  BY <1>3, <1>8, <1>9 DEF RefsIn, RefsAt
<1> QED BY <1>3, <1>7, <1>10 DEF RefsFrom, LiveIndexes

\* The page pass changes nothing.
LEMMA PagePassIdle ==
    ASSUME NEW f, Coherent(f) PROVE PageScan(f).f = f
<1> DEFINE n == NB * NE
           first == FoldLeft(ScanPage, Scan(f, {}, {}), AllPages)
<1>0. /\ n \in Nat /\ DOMAIN AllPages = 1 .. n
      /\ \A k \in 0 .. n - 1 : k + 1 \in Nat
  BY PagesInOrder
<1> HIDE DEF n
<1>1. first.f = f /\ (Ok(f) => first.data \ first.refs = {})
  <2>1. CASE Ok(f)
    <3>1. first = Scan(f, RefsFrom(f, Page), DataPages(f, Page))
      BY <2>1, PagesAreNoted DEF Coherent
    <3>2. DataPages(f, Page) \subseteq RefsFrom(f, Page)
      BY DataIsReferredTo DEF Coherent
    <3> HIDE DEF first
    <3> QED BY <3>1, <3>2 DEF Scan
  <2>2. CASE ~Ok(f)
    <3>1. PICK h : ScanLoops(h, Scan(f, {}, {}), AllPages, n)
      BY <1>0, ScanLoop
    <3>2. /\ h[0] = Scan(f, {}, {})
          /\ \A k \in 0 .. n - 1 : h[k + 1] = ScanPage(h[k], AllPages[k + 1])
      BY <3>1 DEF ScanLoops
    <3> DEFINE K == {k \in Nat : h[k] = Scan(f, {}, {})}
    <3>3. 0 \in K
      BY <3>2
    <3>4. ASSUME NEW k \in 0 .. n - 1, k \in K PROVE k + 1 \in K
      <4>1. Scan(f, {}, {}).f = f
        BY DEF Scan
      <4>2. h[k + 1] = Scan(f, {}, {})
        BY <2>2, <3>2, <3>4, <4>1 DEF ScanPage
      <4> QED BY <1>0, <4>2
    <3> HIDE DEF K
    <3>5. n \in K
      BY <1>0, <3>3, <3>4, UpTo
    <3>6. first = h[n]
      BY <3>1 DEF ScanLoops
    <3> HIDE DEF first
    <3> QED BY <2>2, <3>5, <3>6 DEF K, Scan
  <2> QED BY <2>1, <2>2
<1>2. PICK g : BitmapLoops(g, first, AllPages, n)
  <2> HIDE DEF first
  <2> QED BY <1>0, BitmapLoop
<1>3. PageScan(f) = g[n]
  BY <1>2 DEF BitmapLoops, PageScan, Scan
<1> HIDE DEF first
<1>4. /\ g[0] = first
      /\ \A k \in 0 .. n - 1 : g[k + 1] = BitmapPage(g[k], AllPages[k + 1])
  BY <1>2 DEF BitmapLoops
<1> DEFINE K == {k \in Nat : g[k] = first}
<1>5. 0 \in K
  BY <1>4
<1>6. ASSUME NEW k \in 0 .. n - 1, k \in K PROVE k + 1 \in K
  <2>1. BitmapPage(first, AllPages[k + 1]) = first
    BY <1>1 DEF BitmapPage
  <2> QED BY <1>0, <1>4, <1>6, <2>1
<1> HIDE DEF K
<1>7. n \in K
  BY <1>0, <1>5, <1>6, UpTo
<1> QED BY <1>1, <1>3, <1>7 DEF K

----------------------------------------------------------------------------
(* The check of a coherent chip.                                           *)

\* The three passes of SPIFFS_check leave a coherent chip as it is, whatever
\* its RAM says and however many objects and pages there are: no page is
\* taken for lost, stray or shared that is none.
THEOREM CoherentIsUntouched ==
    ASSUME NEW f, Coherent(f)
    PROVE  PageScan(IndexCheck(LookupCheck(f))).f = f
<1>1. LookupCheck(f) = f
  BY LookupPassIdle DEF Coherent
<1>2. IndexCheck(f) = f
  BY IndexPassIdle DEF Coherent
<1> QED BY <1>1, <1>2, PagePassIdle

\* As long as a chip power was never lost on stays coherent, SPIFFS_check
\* changes nothing on it.
THEOREM HealthyStaysUntouched == Spec /\ []HealthyIsCoherent => []HealthyUntouched
<1>1. HealthyIsCoherent => HealthyUntouched
  BY CoherentIsUntouched DEF HealthyIsCoherent, HealthyUntouched, SamePages
<1> QED BY <1>1, PTL

----------------------------------------------------------------------------
(* What an operation that succeeds has done, field by field.               *)

\* f and g are states that agree but for some fields.
Keeps(f, g, S) == State(f) /\ State(g) /\ \A x \in Fields \ S : g[x] = f[x]

\* A chain of operations keeps what each of them keeps.
LEMMA KeepsOn ==
    ASSUME NEW f, NEW g, NEW h, NEW S, NEW T, Keeps(f, g, S), Keeps(g, h, T)
    PROVE  Keeps(f, h, S \cup T)
BY DEF Keeps

\* A write that succeeds changes what it was to change.
LEMMA WriteRuns ==
    ASSUME NEW f, NEW new, NEW S, Keeps(f, new, S), "res" \notin S,
           Ok(Write(f, new))
    PROVE  Ok(f) /\ Keeps(new, Write(f, new), {"fuel"})
<1> DEFINE g == Write(f, new)
<1>1. Ok(f)
  BY DEF Write
<1>2. CASE f.fault = "none"
  BY <1>1, <1>2 DEF Write, Keeps
<1>3. CASE f.fault # "none" /\ f.fuel = 0
  <2>1. g = [f EXCEPT !.res = "FAULT"]
    BY <1>1, <1>3 DEF Write
  <2>2. g.res = "FAULT"
    BY <2>1 DEF Keeps, State, Fields
  <2> QED BY <2>2 DEF Ok
<1>4. CASE f.fault # "none" /\ f.fuel # 0
  <2>1. g = [new EXCEPT !.fuel = f.fuel - 1]
    BY <1>1, <1>4 DEF Write
  <2> QED BY <1>1, <2>1 DEF Keeps, State, Fields
<1> QED BY <1>2, <1>3, <1>4

\* What is done after f succeeds only if f did, and is then done.
LEMMA ThenRuns ==
    ASSUME NEW f, NEW new, NEW S, Keeps(f, new, S), "res" \notin S, Ok(Then(f, new))
    PROVE  Ok(f) /\ Then(f, new) = new
BY DEF Then, Ok

\* spiffs_page_delete
PageDeleted(f, g, p) ==
    /\ g.lu = [f.lu EXCEPT ![p] = DELETED]
    /\ g.page = [f.page EXCEPT ![p].flags = @ \cup {"DELET", "USED"}]

\* A delete that succeeds has marked the page and counted it.
LEMMA DeleteRuns ==
    ASSUME NEW f, State(f), NEW p, Ok(PageDelete(f, p))
    PROVE  /\ Ok(f)
           /\ Keeps(f, PageDelete(f, p),
                    {"lu", "page", "stats_p_deleted", "stats_p_allocated", "fuel"})
           /\ PageDeleted(f, PageDelete(f, p), p)
<1> DEFINE lu0 == [f EXCEPT !.lu[p] = DELETED]
           marked == WriteLu(f, p, DELETED)
           counted0 == [marked EXCEPT !.stats_p_deleted = @ + 1,
                                      !.stats_p_allocated = @ - 1]
           counted == Then(marked, counted0)
           flags0 == [counted EXCEPT !.page[p].flags = @ \cup {"DELET", "USED"}]
           g == Write(counted, flags0)
<1>1. PageDelete(f, p) = g
  BY DEF PageDelete, WriteFlags
<1>2. Ok(g) => Ok(counted)
  BY DEF Write, Ok
<1>3. Ok(counted) => Ok(marked)
  BY DEF Then
<1>4. Ok(marked)
  BY <1>1, <1>2, <1>3
<1>5. marked = Write(f, lu0)
  BY DEF WriteLu
<1>6. Keeps(f, lu0, {"lu"}) /\ lu0.lu = [f.lu EXCEPT ![p] = DELETED]
  BY DEF Keeps, State, Fields
<1> HIDE DEF lu0
<1>7. Ok(f) /\ Keeps(lu0, marked, {"fuel"})
  BY <1>4, <1>5, <1>6, WriteRuns
<1> HIDE DEF marked
<1>8. counted = counted0
  BY <1>4 DEF Then
<1>9. Keeps(marked, counted0, {"stats_p_deleted", "stats_p_allocated"})
  BY <1>7 DEF Keeps, State, Fields
<1> HIDE DEF counted0, counted
<1>10. /\ Keeps(counted, flags0, {"page"})
       /\ flags0.page = [counted.page EXCEPT ![p].flags = @ \cup {"DELET", "USED"}]
  BY <1>8, <1>9 DEF Keeps, State, Fields
<1> HIDE DEF flags0
<1>11. Keeps(flags0, g, {"fuel"})
  BY <1>1, <1>10, WriteRuns
<1> HIDE DEF g
<1>12. /\ Keeps(f, counted, {"lu", "fuel", "stats_p_deleted", "stats_p_allocated"})
       /\ counted.lu = [f.lu EXCEPT ![p] = DELETED] /\ counted.page = f.page
  BY <1>6, <1>7, <1>8, <1>9 DEF Keeps, Fields
<1>13. Keeps(f, g, {"lu", "page", "stats_p_deleted", "stats_p_allocated", "fuel"})
  BY <1>10, <1>11, <1>12 DEF Keeps
<1>14. g.lu = counted.lu /\ g.page = flags0.page
  BY <1>10, <1>11 DEF Keeps, Fields
<1> QED BY <1>1, <1>7, <1>10, <1>12, <1>13, <1>14 DEF PageDeleted

\* An erased page takes what is programmed.
LEMMA ErasedTakes ==
    ASSUME NEW pg, IsHeader(pg)
    PROVE  ProgPage(Erased, pg) = pg
<1>1. /\ Erased.id = FREE /\ Erased.span = FREE /\ Erased.flags = {}
      /\ Erased.body = NoBody /\ DOMAIN NoBody = {}
  BY DEF Erased, NoBody
<1>2. ProgBody(NoBody, pg.body) = pg.body
  <2>1. ProgBody(NoBody, pg.body) = [i \in DOMAIN pg.body |-> pg.body[i]]
    BY <1>1 DEF ProgBody
  <2> QED BY <2>1 DEF IsHeader, IsFcn
<1>3. /\ Prog(FREE, pg.id, FREE) = pg.id /\ Prog(FREE, pg.span, FREE) = pg.span
      /\ {} \cup pg.flags = pg.flags
  BY DEF Prog
<1>4. ProgPage(Erased, pg) =
        [id |-> pg.id, span |-> pg.span, flags |-> pg.flags, body |-> pg.body]
  BY <1>1, <1>2, <1>3 DEF ProgPage
<1> QED BY <1>4 DEF IsHeader

\* spiffs_page_move: the page src is now the page dst with the content c.
PageMoved(f, g, src, dst, id, c) ==
    /\ g.lu[dst] = id /\ g.lu[src] = DELETED
    /\ g.page[dst] = c
    /\ g.page[src] = [f.page[src] EXCEPT !.flags = @ \cup {"DELET", "USED"}]
    /\ \A p \in Page \ {src, dst} : g.lu[p] = f.lu[p] /\ g.page[p] = f.page[p]

\* What moving one page writes.
OnMove == {"lu", "page", "stats_p_deleted", "stats_p_allocated", "fuel"}

\* Nothing succeeds after an error.
LEMMA AfterError ==
    ASSUME NEW f, ~Ok(f), NEW p, NEW x, NEW new
    PROVE  /\ Write(f, new) = f /\ Then(f, new) = f
           /\ WritePage(f, p, x) = f /\ WriteLu(f, p, x) = f
           /\ WriteFlags(f, p, x) = f /\ CountAllocated(f) = f
           /\ PageDelete(f, p) = f
<1>1. \A h : Write(f, h) = f /\ Then(f, h) = f
  BY DEF Write, Then
<1>2. WritePage(f, p, x) = f /\ CountAllocated(f) = f
  BY <1>1 DEF WritePage, CountAllocated
<1>3. \A y : WriteLu(f, p, y) = f
  BY <1>1 DEF WriteLu
<1>4. \A y : WriteFlags(f, p, y) = f
  BY <1>1 DEF WriteFlags
<1>5. PageDelete(f, p) = f
  BY <1>1, <1>3, <1>4 DEF PageDelete
<1> QED BY <1>1, <1>2, <1>3, <1>4, <1>5

\* The single writes.
LEMMA WritePageRuns ==
    ASSUME NEW f, State(f), NEW p, NEW pg, NEW g, g = WritePage(f, p, pg), Ok(g)
    PROVE  /\ Ok(f) /\ Keeps(f, g, {"page", "fuel"})
           /\ g.page = [f.page EXCEPT ![p] = ProgPage(@, pg)]
<1> DEFINE new == [f EXCEPT !.page[p] = ProgPage(@, pg)]
<1>1. g = Write(f, new)
  BY DEF WritePage
<1>2. Keeps(f, new, {"page"}) /\ new.page = [f.page EXCEPT ![p] = ProgPage(@, pg)]
  BY DEF Keeps, State, Fields
<1> HIDE DEF new
<1>3. Ok(f) /\ Keeps(new, g, {"fuel"})
  BY <1>1, <1>2, WriteRuns
<1> QED BY <1>2, <1>3 DEF Keeps, Fields

\* A lookup entry written is the entry, if it was free or becomes deleted.
LEMMA WriteLuRuns ==
    ASSUME NEW f, State(f), NEW p, NEW id, NEW g, g = WriteLu(f, p, id), Ok(g),
           p \in DOMAIN f.lu, f.lu[p] = FREE \/ id = DELETED
    PROVE  /\ Ok(f) /\ Keeps(f, g, {"lu", "fuel"})
           /\ g.lu = [f.lu EXCEPT ![p] = id]
<1> DEFINE v == IF id = DELETED THEN DELETED ELSE Prog(f.lu[p], id, FREE)
           new == [f EXCEPT !.lu[p] = v]
<1>1. g = Write(f, new)
  BY DEF WriteLu
<1>2. v = id
  BY DEF Prog
<1>3. Keeps(f, new, {"lu"}) /\ new.lu = [f.lu EXCEPT ![p] = id]
  BY <1>2 DEF Keeps, State, Fields
<1> HIDE DEF new
<1>4. Ok(f) /\ Keeps(new, g, {"fuel"})
  BY <1>1, <1>3, WriteRuns
<1> QED BY <1>3, <1>4 DEF Keeps, Fields

\* g is f with the flags programmed in page p.
FlagsAdded(f, g, p, flags) == g.page = [f.page EXCEPT ![p].flags = @ \cup flags]

\* Flags written are added to those of the page.
LEMMA WriteFlagsRuns ==
    ASSUME NEW f, State(f), NEW p, NEW flags, NEW g, g = WriteFlags(f, p, flags), Ok(g)
    PROVE  /\ Ok(f) /\ Keeps(f, g, {"page", "fuel"})
           /\ FlagsAdded(f, g, p, flags)
<1> DEFINE new == [f EXCEPT !.page[p].flags = @ \cup flags]
<1>1. g = Write(f, new)
  BY DEF WriteFlags
<1>2. Keeps(f, new, {"page"}) /\ new.page = [f.page EXCEPT ![p].flags = @ \cup flags]
  BY DEF Keeps, State, Fields
<1> HIDE DEF new
<1>3. Ok(f) /\ Keeps(new, g, {"fuel"})
  BY <1>1, <1>2, WriteRuns
<1> QED BY <1>2, <1>3 DEF Keeps, Fields, FlagsAdded

\* Counting an allocated page changes the count alone.
LEMMA CountRuns ==
    ASSUME NEW f, State(f), NEW g, g = CountAllocated(f), Ok(g)
    PROVE  Ok(f) /\ Keeps(f, g, {"stats_p_allocated"})
BY DEF CountAllocated, Then, Ok, Keeps, State, Fields

\* The three writes before the source is deleted.
LEMMA CopyRuns ==
    ASSUME NEW f, Shaped(f), NEW id, NEW src \in Page, NEW data,
           f.found \in Page, f.lu[f.found] = FREE, f.page[f.found] = Erased,
           data = Erased \/ (IsHeader(data) /\ {"USED", "FINAL"} \subseteq data.flags),
           NEW g, g = MoveTo(f, id, src, data), Ok(g)
    PROVE  \E h : /\ Ok(f) /\ Ok(h) /\ g = PageDelete(h, src)
                  /\ Keeps(f, h, {"lu", "page", "stats_p_allocated", "fuel"})
                  /\ h.lu = [f.lu EXCEPT ![f.found] = id]
                  /\ h.page = [f.page EXCEPT ![f.found] =
                                 IF data = Erased THEN f.page[src] ELSE data]
<1> DEFINE p == f.found
           E == [data EXCEPT !.flags = (@ \ {"FINAL"}) \cup {"USED"}]
           W == IF data = Erased THEN f.page[src] ELSE E
           written == WritePage(f, p, W)
           entered == WriteLu(written, p, id)
           marked == CountAllocated(entered)
           final == IF data # Erased /\ "FINAL" \in data.flags
                    THEN WriteFlags(marked, p, data.flags \cup {"USED"}) ELSE marked
<1>1. Ok(f)
  BY DEF MoveTo
<1>2. g = PageDelete(final, src)
  BY <1>1 DEF MoveTo
<1> HIDE DEF final
<1>3. Ok(final)
  BY <1>2, AfterError
<1> HIDE DEF marked
<1>4. Ok(marked)
  BY <1>3, AfterError DEF final
<1> HIDE DEF entered
<1>5. Ok(entered)
  BY <1>4, AfterError DEF marked
<1> HIDE DEF written
<1>6. Ok(written)
  BY <1>5, AfterError DEF entered
<1> HIDE DEF E, W
<1>7. IsHeader(W)
  <2>1. CASE data = Erased
    BY <2>1 DEF W, Shaped
  <2>2. CASE data # Erased
    <3>1. E = [id |-> data.id, span |-> data.span, body |-> data.body,
               flags |-> (data.flags \ {"FINAL"}) \cup {"USED"}]
      BY <2>2 DEF IsHeader, E
    <3> QED BY <2>2, <3>1 DEF IsHeader, W
  <2> QED BY <2>1, <2>2
<1>8. Keeps(f, written, {"page", "fuel"}) /\ written.page = [f.page EXCEPT ![p] = W]
  <2>1. ProgPage(f.page[p], W) = W
    BY <1>7, ErasedTakes
  <2> QED BY <1>6, <2>1, WritePageRuns DEF written, Shaped
<1>9. State(written) /\ written.lu = f.lu
  BY <1>8 DEF Keeps, Fields
<1>10. Keeps(written, entered, {"lu", "fuel"}) /\ entered.lu = [f.lu EXCEPT ![p] = id]
  BY <1>5, <1>9, WriteLuRuns DEF entered, Shaped
<1>11. Keeps(entered, marked, {"stats_p_allocated"})
  BY <1>4, <1>10, CountRuns DEF marked, Keeps
<1>12. /\ Keeps(f, marked, {"lu", "page", "stats_p_allocated", "fuel"})
       /\ marked.lu = [f.lu EXCEPT ![p] = id]
       /\ marked.page = [f.page EXCEPT ![p] = W]
  BY <1>8, <1>10, <1>11 DEF Keeps, Fields
<1>15. CASE data = Erased
  BY <1>1, <1>2, <1>3, <1>12, <1>15 DEF W, final
<1>16. CASE data # Erased
  <2>1. {"USED", "FINAL"} \subseteq data.flags /\ IsHeader(data)
    BY <1>16
  <2> DEFINE fl == data.flags \cup {"USED"}
  <2>2. final = WriteFlags(marked, p, fl) /\ State(marked)
    BY <1>12, <1>16, <2>1 DEF final, Keeps
  <2> HIDE DEF fl
  <2>3. Keeps(marked, final, {"page", "fuel"}) /\ FlagsAdded(marked, final, p, fl)
    BY <1>3, <2>2, WriteFlagsRuns
  <2> USE DEF fl
  <2>4. [W EXCEPT !.flags = @ \cup (data.flags \cup {"USED"})] = data
    <3>1. W = [id |-> data.id, span |-> data.span, body |-> data.body,
               flags |-> (data.flags \ {"FINAL"}) \cup {"USED"}]
      BY <1>16, <2>1 DEF IsHeader, W, E
    <3>2. ((data.flags \ {"FINAL"}) \cup {"USED"}) \cup (data.flags \cup {"USED"})
          = data.flags
      BY <2>1
    <3> QED BY <2>1, <3>1, <3>2 DEF IsHeader
  <2>5. final.page = [f.page EXCEPT ![p] = data]
    <3>1. marked.page[p] = W /\ p \in DOMAIN f.page
      BY <1>12 DEF Shaped
    <3>2. final.page = [marked.page EXCEPT ![p] =
                          [W EXCEPT !.flags = @ \cup (data.flags \cup {"USED"})]]
      BY <2>3, <3>1 DEF FlagsAdded
    <3> QED BY <1>12, <2>4, <3>1, <3>2
  <2>6. final.lu = [f.lu EXCEPT ![p] = id]
    BY <1>12, <2>3 DEF Keeps, Fields
  <2>7. Keeps(f, final, {"lu", "page", "stats_p_allocated", "fuel"})
    BY <1>12, <2>3 DEF Keeps
  <2> QED BY <1>1, <1>2, <1>3, <1>16, <2>5, <2>6, <2>7
<1> QED BY <1>15, <1>16
\* A non-empty set of naturals has a least element, and Least finds it.
LEMMA LeastInSet ==
    ASSUME NEW S \in SUBSET Nat, S # {}
    PROVE  Least(S) \in S /\ \A y \in S : Least(S) <= y
<1>1. PICK x \in S : \A y \in S : ~(<<y, x>> \in NatLess)
  BY NatLessIsWellFounded, WFMin
<1>2. ASSUME NEW y \in S PROVE x <= y
  <2>1. x \in Nat /\ y \in Nat
    OBVIOUS
  <2>2. <<y, x>> \in NatLess <=> y < x
    BY <2>1 DEF NatLess
  <2> QED BY <1>1, <2>1, <2>2
<1> QED BY <1>2 DEF Least

\* Blocks and entries are finite, and so are the pages.
LEMMA PageIsFinite == IsFiniteSet(Page)
<1>1. IsFiniteSet(Block) /\ IsFiniteSet(Entry)
  BY FS_Interval, GeometryAssumption DEF Block, Entry
<1> QED BY <1>1, FS_Product DEF Page

\* A non-empty set of pages has a first page.
LEMMA FirstInSet ==
    ASSUME NEW S \in SUBSET Page, S # {}
    PROVE  First(S) \in S /\ \A q \in S : ~Before(q, First(S))
<1> DEFINE B == {p[1] : p \in S}
           E == {p[2] : p \in {q \in S : q[1] = Least(B)}}
<1>1. B \in SUBSET Nat /\ B # {}
  BY GeometryAssumption DEF Page, Block, Entry
<1>2. Least(B) \in B /\ \A y \in B : Least(B) <= y
  BY <1>1, LeastInSet
<1>3. E \in SUBSET Nat /\ E # {}
  <2>1. \A p \in S : p[2] \in Nat
    BY GeometryAssumption DEF Page, Block, Entry
  <2>2. PICK p \in S : p[1] = Least(B)
    BY <1>2
  <2> QED BY <2>1, <2>2
<1>4. Least(E) \in E /\ \A y \in E : Least(E) <= y
  BY <1>3, LeastInSet
<1>5. PICK p \in S : p[1] = Least(B) /\ p[2] = Least(E)
  BY <1>4
<1>6. ASSUME NEW q \in S PROVE ~Before(q, p)
  <2>1. p[1] <= q[1] /\ (q[1] = p[1] => p[2] <= q[2])
    BY <1>2, <1>4, <1>5
  <2>2. /\ p[1] \in Nat /\ p[2] \in Nat /\ q[1] \in Nat /\ q[2] \in Nat
    BY GeometryAssumption DEF Page, Block, Entry
  <2> QED BY <2>1, <2>2 DEF Before
<1> QED BY <1>6 DEF First

\* Of two pages the one the other is not before is the same or before it.
LEMMA BeforeIsTotal ==
    ASSUME NEW p \in Page, NEW q \in Nat \X Nat, p # q, ~Before(p, q)
    PROVE  Before(q, p)
<1>1. p = <<p[1], p[2]>> /\ q = <<q[1], q[2]>>
  BY DEF Page
<1>2. /\ p[1] \in Nat /\ p[2] \in Nat /\ q[1] \in Nat /\ q[2] \in Nat
  BY GeometryAssumption DEF Page, Block, Entry
<1> QED BY <1>1, <1>2 DEF Before

----------------------------------------------------------------------------
(* The free entries and the cursor.                                        *)

\* The entry found is the first free one of its block.
LEMMA NextFreeIsFirst ==
    ASSUME NEW f, FreeEntries(f) # {}, Lined(f)
    PROVE  /\ NextFree(f) \in Page /\ f.lu[NextFree(f)] = FREE
           /\ NoneBelow(f, NextFree(f))
<1> DEFINE c == f.free_cursor
           S == FreeEntries(f)
           ahead == {p \in S : ~Before(p, c)}
           T == IF ahead # {} THEN ahead ELSE S
           n == NextFree(f)
<1>1. n = First(T)
  BY DEF NextFree, FirstFrom
<1>2. T \in SUBSET Page /\ T # {} /\ T \subseteq S
  BY DEF FreeEntries
<1> HIDE DEF T
<1>3. n \in T /\ \A q \in T : ~Before(q, n)
  BY <1>1, <1>2, FirstInSet
<1> HIDE DEF n
<1>4. n \in Page /\ f.lu[n] = FREE
  BY <1>2, <1>3 DEF FreeEntries, IsFree
<1>5. n = <<n[1], n[2]>> /\ n[1] \in Block /\ n[2] \in Entry /\ n[1] \in Nat /\ n[2] \in Nat
  BY <1>4, GeometryAssumption DEF Page, Block, Entry
<1>6. c[1] \in Nat /\ c[2] \in 0 .. NE /\ c = <<c[1], c[2]>>
  BY GeometryAssumption DEF Lined, AtCursor, Place, Block
<1>7. ASSUME NEW i \in Entry, i < n[2], f.lu[<<n[1], i>>] = FREE PROVE FALSE
  <2> DEFINE q == <<n[1], i>>
  <2>1. i \in Nat /\ q \in Page /\ q[1] = n[1] /\ q[2] = i
    BY <1>5, GeometryAssumption DEF Page, Entry
  <2>2. q \in S
    BY <1>7, <2>1 DEF FreeEntries, IsFree
  <2>3. Before(q, n)
    BY <1>5, <1>7, <2>1 DEF Before
  <2>4. q \notin T
    BY <1>3, <2>3
  <2>5. ahead # {} /\ Before(q, c)
    BY <2>2, <2>4 DEF T
  <2>6. ~Before(n, c)
    BY <1>3, <2>5 DEF T
  <2>7. c[1] = n[1] /\ i < c[2] /\ c[2] <= n[2]
    BY <1>5, <1>6, <2>1, <2>5, <2>6 DEF Before
  <2>8. n[2] < NE
    BY <1>5, GeometryAssumption DEF Entry
  <2>9. InMidst(c)
    BY <1>5, <1>6, <2>1, <2>7, <2>8, GeometryAssumption DEF InMidst
  <2>10. NoneBelow(f, c)
    BY <2>9 DEF Lined, AtCursor
  <2> QED BY <1>7, <2>7, <2>10 DEF NoneBelow
<1> QED BY <1>4, <1>7 DEF NoneBelow, n

\* Taking it keeps the order.
Takes(f, g, p) ==
    /\ g.free_cursor = <<p[1], p[2] + 1>>
    /\ \A q \in Page : g.lu[q] = FREE <=> (f.lu[q] = FREE /\ q # p)

\* Taking the first free entry leaves the free entries behind the cursor.
LEMMA TakingIsOrderly ==
    ASSUME NEW f, NEW g, Lined(f), NEW p \in Page, f.lu[p] = FREE,
           NoneBelow(f, p), Takes(f, g, p)
    PROVE  Lined(g)
<1>1. /\ p = <<p[1], p[2]>> /\ p[1] \in Block /\ p[2] \in Entry /\ p[1] \in Nat
      /\ p[2] \in Nat /\ p[2] < NE
  BY GeometryAssumption DEF Page, Block, Entry
<1>2. Packed(g)
  <2> SUFFICES ASSUME NEW b \in Block, NEW i \in Entry, NEW j \in Entry,
                      i < j, g.lu[<<b, i>>] = FREE
               PROVE  g.lu[<<b, j>>] = FREE
    BY DEF Packed
  <2>1. <<b, i>> \in Page /\ <<b, j>> \in Page
    BY DEF Page
  <2>2. f.lu[<<b, i>>] = FREE /\ f.lu[<<b, j>>] = FREE
    BY <2>1 DEF Takes, Lined, Packed
  <2>3. <<b, j>> # p
    <3>1. <<b, j>> = p => b = p[1] /\ j = p[2]
      BY <1>1
    <3> QED BY <2>2, <3>1 DEF NoneBelow
  <2> QED BY <2>1, <2>2, <2>3 DEF Takes
<1>3. AtCursor(g)
  <2> DEFINE c == g.free_cursor
  <2>1. c = <<p[1], p[2] + 1>> /\ c[1] = p[1] /\ c[2] = p[2] + 1
    BY DEF Takes
  <2>2. c \in Place
    BY <1>1, <2>1, GeometryAssumption DEF Place
  <2>3. ASSUME InMidst(c) PROVE g.lu[c] = FREE /\ NoneBelow(g, c)
    <3>1. p[2] + 1 \in Entry
      BY <1>1, <2>1, <2>3, GeometryAssumption DEF InMidst, Entry
    <3>2. p[2] + 1 # p[2] /\ p[2] < p[2] + 1
      BY <1>1
    <3>3. c \in Page /\ c # p
      BY <1>1, <2>1, <3>1, <3>2 DEF Page
    <3>4. f.lu[<<p[1], p[2]>>] = FREE
      BY <1>1
    <3>5. f.lu[c] = FREE
      BY <1>1, <2>1, <3>1, <3>2, <3>4 DEF Lined, Packed
    <3>6. ASSUME NEW i \in Entry, i < c[2] PROVE g.lu[<<c[1], i>>] # FREE
      <4>1. <<p[1], i>> \in Page /\ i \in Nat
        BY <1>1, GeometryAssumption DEF Page, Entry
      <4>2. i < p[2] \/ i = p[2]
        BY <1>1, <2>1, <3>6, <4>1
      <4>3. CASE i < p[2]
        BY <2>1, <4>1, <4>3 DEF NoneBelow, Takes
      <4>4. CASE i = p[2]
        BY <1>1, <2>1, <4>4 DEF Takes
      <4> QED BY <4>2, <4>3, <4>4
    <3> QED BY <3>3, <3>5, <3>6 DEF Takes, NoneBelow
  <2> QED BY <2>2, <2>3 DEF AtCursor
<1> QED BY <1>2, <1>3 DEF Lined

\* spiffs_obj_lu_find_free, from the search on.
LEMMA FindRuns ==
    ASSUME NEW f, State(f), NEW g, g = FindIn(f), Ok(g)
    PROVE  /\ Ok(f) /\ FreeEntries(f) # {} /\ g.found = NextFree(f)
           /\ Keeps(f, g, {"free_cursor", "free_blocks", "found"})
           /\ g.free_cursor = <<NextFree(f)[1], NextFree(f)[2] + 1>>
<1>1. Ok(f) /\ FreeEntries(f) # {}
  BY DEF FindIn, Fail, Ok, State, Fields
<1>2. g = [TakeEntry(f, NextFree(f)) EXCEPT !.found = NextFree(f)]
  BY <1>1 DEF FindIn
<1> QED BY <1>1, <1>2 DEF TakeEntry, Keeps, State, Fields

----------------------------------------------------------------------------
(* spiffs_page_move, while a block is cleaned.                             *)

\* What moving a page with the cursor on its way writes.
OnClean == {"lu", "page", "stats_p_deleted", "stats_p_allocated", "fuel",
            "free_cursor", "free_blocks", "found"}

\* What spiffs_page_move writes: the page itself, or the data it was given.
Content(f, src, data) == IF data = Erased THEN f.page[src] ELSE data

\* The page src has been moved to the free entry g.found.
MovedTo(f, g, src, id, c) ==
    /\ g.found \in Page /\ g.found # src /\ f.lu[g.found] = FREE
    /\ NoneBelow(f, g.found) /\ Takes(f, g, g.found)
    /\ PageMoved(f, g, src, g.found, id, c)

\* A page moved in a block being cleaned arrives on a free page and is
\* deleted where it was.
LEMMA MoveRuns ==
    ASSUME NEW f, Shaped(f), Lined(f), f.cleaning,
           \A p \in Page : f.lu[p] = FREE => f.page[p] = Erased,
           NEW id, id # FREE, NEW src \in Page, f.lu[src] # FREE, NEW data,
           data = Erased \/ (IsHeader(data) /\ {"USED", "FINAL"} \subseteq data.flags),
           NEW g, g = PageMove(f, id, src, data), Ok(g)
    PROVE  /\ Ok(f) /\ Shaped(g) /\ Lined(g) /\ Keeps(f, g, OnClean)
           /\ MovedTo(f, g, src, id, Content(f, src, data))
<1> DEFINE t == FindIn(f)
           c == Content(f, src, data)
<1>1. FindFree(f) = t
  BY DEF FindFree, Reserve
<1>2. g = MoveTo(t, id, src, data)
  BY <1>1 DEF PageMove
<1> HIDE DEF t
<1>3. Ok(t)
  BY <1>2 DEF MoveTo, Ok
<1>4. /\ Ok(f) /\ FreeEntries(f) # {} /\ t.found = NextFree(f)
      /\ Keeps(f, t, {"free_cursor", "free_blocks", "found"})
      /\ t.free_cursor = <<NextFree(f)[1], NextFree(f)[2] + 1>>
  BY <1>3, FindRuns DEF t, Shaped
<1> DEFINE dst == t.found
<1>5. dst \in Page /\ f.lu[dst] = FREE /\ NoneBelow(f, dst)
  BY <1>4, NextFreeIsFirst
<1>6. t.lu = f.lu /\ t.page = f.page /\ State(t)
  BY <1>4 DEF Keeps, Fields
<1>7. Shaped(t)
  BY <1>6 DEF Shaped
<1>8. PICK h : /\ Ok(h) /\ g = PageDelete(h, src)
               /\ Keeps(t, h, {"lu", "page", "stats_p_allocated", "fuel"})
               /\ h.lu = [f.lu EXCEPT ![dst] = id]
               /\ h.page = [f.page EXCEPT ![dst] = c]
  <2>1. t.lu[dst] = FREE /\ t.page[dst] = Erased
    BY <1>5, <1>6
  <2> QED BY <1>2, <1>6, <1>7, <1>5, <2>1, CopyRuns DEF Content
<1>9. /\ Keeps(h, g, {"lu", "page", "stats_p_deleted", "stats_p_allocated", "fuel"})
      /\ PageDeleted(h, g, src)
  BY <1>8, DeleteRuns DEF Keeps
<1>10. Keeps(f, g, OnClean)
  BY <1>4, <1>8, <1>9 DEF Keeps, OnClean
<1>11. g.found = dst /\ g.free_cursor = t.free_cursor
  BY <1>8, <1>9 DEF Keeps, Fields
<1>12. dst # src
  BY <1>5
<1>13. DOMAIN g.lu = Page /\ DOMAIN g.page = Page
  BY <1>8, <1>9 DEF PageDeleted, Shaped
<1>14. PageMoved(f, g, src, dst, id, c)
  <2>1. /\ g.lu = [[f.lu EXCEPT ![dst] = id] EXCEPT ![src] = DELETED]
        /\ g.page = [h.page EXCEPT ![src].flags = @ \cup {"DELET", "USED"}]
    BY <1>8, <1>9 DEF PageDeleted
  <2>2. h.page[src] = f.page[src] /\ h.page[dst] = c /\ DOMAIN h.page = Page
        /\ \A p \in Page \ {dst} : h.page[p] = f.page[p]
    BY <1>5, <1>8, <1>12 DEF Shaped
  <2>3. g.page[src] = [f.page[src] EXCEPT !.flags = @ \cup {"DELET", "USED"}]
    BY <2>1, <2>2
  <2> QED BY <1>5, <1>12, <2>1, <2>2, <2>3 DEF PageMoved, Shaped
<1>15. Takes(f, g, dst)
  BY <1>4, <1>5, <1>11, <1>12, <1>14, MarkAssumption DEF Takes, PageMoved
<1>16. Lined(g)
  BY <1>5, <1>15, TakingIsOrderly
<1>17. Shaped(g)
  <2>1. IsHeader(c)
    BY DEF Content, Shaped
  <2>2. IsHeader(g.page[src])
    <3>1. IsHeader(f.page[src])
      BY DEF Shaped
    <3> QED BY <1>14, <3>1 DEF PageMoved, IsHeader
  <2>3. ASSUME NEW p \in Page PROVE IsHeader(g.page[p])
    BY <1>14, <2>1, <2>2 DEF PageMoved, Shaped
  <2>4. State(g)
    BY <1>10 DEF Keeps
  <2> QED BY <1>13, <2>3, <2>4 DEF Shaped
<1> QED BY <1>4, <1>5, <1>10, <1>11, <1>12, <1>14, <1>15, <1>16, <1>17 DEF MovedTo

----------------------------------------------------------------------------
(* A page that is moved, and those who refer to it.                        *)

\* What is the same of a page and its copy: the size, or the bytes.
SameContent(v, p, w, q) ==
    IF IsIndexId(v.lu[p]) THEN SizeOf(v.page[p]) = SizeOf(w.page[q])
    ELSE v.page[p].body = w.page[q].body

\* Two chips with the same pages, wherever they lie: ids, spans and content.
Alike(v, w) ==
    \A id \in ObjectIds, s \in Nat :
       /\ (\E p \in Page : IsPageOf(v, p, id, s)) <=> \E q \in Page : IsPageOf(w, q, id, s)
       /\ \A p, q \in Page : IsPageOf(v, p, id, s) /\ IsPageOf(w, q, id, s)
                             => SameContent(v, p, w, q)

\* Page p of v is page r of w; who referred to src refers to dst.
Carried(v, w, p, r, src, dst) ==
    /\ w.lu[r] = v.lu[p] /\ w.page[r].id = v.page[p].id
    /\ w.page[r].span = v.page[p].span /\ w.page[r].flags = v.page[p].flags
    /\ IsDataId(v.lu[p]) => w.page[r].body = v.page[p].body
    /\ IsIndexId(v.lu[p]) =>
          /\ SizeOf(w.page[r]) = SizeOf(v.page[p])
          /\ \A s \in SpansOf(v.page[p].span) :
                RefAt(w.page[r], s) = IF RefAt(v.page[p], s) = src THEN dst
                                      ELSE RefAt(v.page[p], s)

\* A page neither left nor taken: its entry stays, its references follow.
Stays(v, w, p, src, dst) ==
    IF IsBusy(v.lu[p]) THEN Carried(v, w, p, p, src, dst)
    ELSE w.lu[p] = v.lu[p] /\ w.page[p] = v.page[p]

\* w is v with one page moved from src to dst and every reference to it told.
Relocated(v, w, src, dst) ==
    /\ src \in Page /\ dst \in Page /\ src # dst
    /\ v.lu[dst] = FREE /\ IsBusy(v.lu[src])
    /\ Carried(v, w, src, dst, src, dst)
    /\ \A p \in Page \ {src, dst} : Stays(v, w, p, src, dst)
    /\ w.lu[src] = DELETED /\ {"USED", "DELET"} \subseteq w.page[src].flags

\* An object id is no mark.
LEMMA IdIsBusy ==
    ASSUME NEW id \in ObjectIds
    PROVE  /\ IsBusy(id) /\ id # FREE /\ id # DELETED
           /\ IsIndexId(id) <=> id.ix
           /\ IsDataId(id) <=> ~id.ix
           /\ \E o \in Obj : id = DataId(o) \/ id = IndexId(o)
<1>1. id # FREE /\ id # DELETED
  BY IdAssumption
<1> QED BY <1>1 DEF IsBusy, IsIndexId, IsDataId, ObjectIds

\* The two ids of an object.
LEMMA IdsOf ==
    ASSUME NEW o \in Obj
    PROVE  /\ DataId(o) \in ObjectIds /\ IndexId(o) \in ObjectIds
           /\ IsDataId(DataId(o)) /\ IsIndexId(IndexId(o))
           /\ ~IsIndexId(DataId(o)) /\ ~IsDataId(IndexId(o))
           /\ DataId(o).obj = o /\ IndexId(o).obj = o
<1>1. /\ DataId(o) \in ObjectIds /\ IndexId(o) \in ObjectIds
      /\ DataId(o).ix = FALSE /\ IndexId(o).ix = TRUE
      /\ DataId(o).obj = o /\ IndexId(o).obj = o
  BY DEF ObjectIds, DataId, IndexId
<1> QED BY <1>1, IdIsBusy

\* Where a page of one chip is on the other.
Now(p, src, dst) == IF p = src THEN dst ELSE p

\* Where the page that is at p was before.
Was(p, src, dst) == IF p = dst THEN src ELSE p

\* A busy page of w was a busy page of v.
LEMMA BusyWas ==
    ASSUME NEW v, NEW w, NEW src, NEW dst, Relocated(v, w, src, dst),
           NEW p \in Page, IsBusy(w.lu[p])
    PROVE  /\ Was(p, src, dst) \in Page /\ IsBusy(v.lu[Was(p, src, dst)])
           /\ Carried(v, w, Was(p, src, dst), p, src, dst)
           /\ Now(Was(p, src, dst), src, dst) = p
<1>1. p # src
  BY DEF Relocated, IsBusy
<1>2. CASE p = dst
  BY <1>2 DEF Relocated, Was, Now
<1>3. CASE p # dst
  <2>1. Stays(v, w, p, src, dst)
    BY <1>1, <1>3 DEF Relocated
  <2>2. IsBusy(v.lu[p])
    BY <2>1 DEF Stays
  <2> QED BY <1>1, <1>3, <2>1, <2>2 DEF Stays, Was, Now
<1> QED BY <1>2, <1>3

\* A busy page of v is a busy page of w.
LEMMA BusyNow ==
    ASSUME NEW v, NEW w, NEW src, NEW dst, Relocated(v, w, src, dst),
           NEW p \in Page, IsBusy(v.lu[p])
    PROVE  /\ Now(p, src, dst) \in Page
           /\ Carried(v, w, p, Now(p, src, dst), src, dst)
           /\ Was(Now(p, src, dst), src, dst) = p
<1>1. p # dst
  BY DEF Relocated, IsBusy
<1>2. CASE p = src
  BY <1>2 DEF Relocated, Was, Now
<1>3. CASE p # src
  <2>1. Stays(v, w, p, src, dst)
    BY <1>1, <1>3 DEF Relocated
  <2> QED BY <1>1, <1>3, <2>1 DEF Stays, Was, Now
<1> QED BY <1>2, <1>3

\* The pages of an id and span, before and after.
LEMMA PageNow ==
    ASSUME NEW v, NEW w, NEW src, NEW dst, Relocated(v, w, src, dst),
           NEW id \in ObjectIds, NEW s
    PROVE  /\ \A p \in Page : IsPageOf(v, p, id, s)
                              => IsPageOf(w, Now(p, src, dst), id, s)
           /\ \A p \in Page : IsPageOf(w, p, id, s)
                              => IsPageOf(v, Was(p, src, dst), id, s)
<1>1. IsBusy(id)
  BY IdIsBusy
<1>2. ASSUME NEW p \in Page, IsPageOf(v, p, id, s)
      PROVE  IsPageOf(w, Now(p, src, dst), id, s)
  <2>1. IsBusy(v.lu[p]) /\ v.lu[p] = id /\ v.page[p].span = s
    BY <1>1, <1>2 DEF IsPageOf
  <2> QED BY <2>1, BusyNow DEF IsPageOf, Carried
<1>3. ASSUME NEW p \in Page, IsPageOf(w, p, id, s)
      PROVE  IsPageOf(v, Was(p, src, dst), id, s)
  <2>1. IsBusy(w.lu[p]) /\ w.lu[p] = id /\ w.page[p].span = s
    BY <1>1, <1>3 DEF IsPageOf
  <2> QED BY <2>1, BusyWas DEF IsPageOf, Carried
<1> QED BY <1>2, <1>3

\* Entries and headers still agree.
LEMMA RelocatedIsListed ==
    ASSUME NEW v, NEW w, NEW src, NEW dst, Relocated(v, w, src, dst), AsListed(v)
    PROVE  AsListed(w)
<1> SUFFICES ASSUME NEW p \in Page
             PROVE  /\ IsFree(w.lu[p])    => w.page[p] = Erased
                    /\ IsDeleted(w.lu[p]) => {"USED", "DELET"} \subseteq w.page[p].flags
                    /\ IsBusy(w.lu[p])    => Whole(w, p)
  BY DEF AsListed
<1>1. CASE IsBusy(w.lu[p])
  <2> DEFINE o == Was(p, src, dst)
  <2>1. o \in Page /\ IsBusy(v.lu[o]) /\ Carried(v, w, o, p, src, dst)
    BY <1>1, BusyWas
  <2> HIDE DEF o
  <2>2. Whole(v, o)
    BY <2>1 DEF AsListed
  <2>3. /\ w.lu[p] = v.lu[o] /\ w.page[p].id = v.page[o].id
        /\ w.page[p].span = v.page[o].span /\ w.page[p].flags = v.page[o].flags
    BY <2>1 DEF Carried
  <2>4. Whole(w, p)
    BY <2>2, <2>3 DEF Whole, Valid
  <2> QED BY <1>1, <2>4 DEF IsBusy, IsFree, IsDeleted
<1>2. CASE ~IsBusy(w.lu[p]) /\ p # src
  <2>1. p # dst
    BY <1>2 DEF Relocated, Carried
  <2>2. Stays(v, w, p, src, dst)
    BY <1>2, <2>1 DEF Relocated
  <2>3. w.lu[p] = v.lu[p] /\ w.page[p] = v.page[p]
    BY <1>2, <2>2 DEF Stays, Carried
  <2> QED BY <1>2, <2>3 DEF AsListed
<1>3. CASE p = src
  BY <1>3, MarkAssumption DEF Relocated, IsFree, IsDeleted, IsBusy
<1> QED BY <1>1, <1>2, <1>3

\* There is still one page of each id and span.
LEMMA RelocatedIsOne ==
    ASSUME NEW v, NEW w, NEW src, NEW dst, Relocated(v, w, src, dst),
           AsListed(v), OneOfEach(v)
    PROVE  OneOfEach(w)
<1> SUFFICES ASSUME NEW p \in Page, NEW q \in Page, IsBusy(w.lu[p]),
                    IsPageOf(w, q, w.lu[p], w.page[p].span)
             PROVE  p = q
  BY DEF OneOfEach
<1> DEFINE o == Was(p, src, dst)
           r == Was(q, src, dst)
<1>1. o \in Page /\ IsBusy(v.lu[o]) /\ Carried(v, w, o, p, src, dst) /\ Now(o, src, dst) = p
  BY BusyWas
<1>2. w.lu[q] = w.lu[p] /\ w.page[q].span = w.page[p].span
  BY DEF IsPageOf
<1>3. r \in Page /\ IsBusy(v.lu[r]) /\ Carried(v, w, r, q, src, dst) /\ Now(r, src, dst) = q
  BY <1>2, BusyWas
<1> HIDE DEF o, r
<1>4. v.lu[o] = v.lu[r] /\ v.page[o].span = v.page[r].span
  BY <1>1, <1>2, <1>3 DEF Carried
<1>5. IsPageOf(v, r, v.lu[o], v.page[o].span)
  BY <1>3, <1>4 DEF IsPageOf
<1>6. o = r
  BY <1>1, <1>3, <1>5 DEF OneOfEach
<1> QED BY <1>1, <1>3, <1>6

\* The references of an index page, before and after.
LEMMA RefNow ==
    ASSUME NEW v, NEW w, NEW src, NEW dst, Relocated(v, w, src, dst),
           AsListed(v), NEW p \in Page, IsIndexId(w.lu[p])
    PROVE  /\ Was(p, src, dst) \in Page /\ IsIndexId(v.lu[Was(p, src, dst)])
           /\ w.lu[p] = v.lu[Was(p, src, dst)]
           /\ w.page[p].span = v.page[Was(p, src, dst)].span /\ w.page[p].span \in Nat
           /\ \E o \in Obj : w.lu[p] = IndexId(o)
           /\ \A s \in SpansOf(w.page[p].span) :
                /\ RefAt(w.page[p], s) = Now(RefAt(v.page[Was(p, src, dst)], s), src, dst)
                /\ RefAt(w.page[p], s) # NoPix <=> RefAt(v.page[Was(p, src, dst)], s) # NoPix
<1> DEFINE o == Was(p, src, dst)
<1>1. o \in Page /\ IsBusy(v.lu[o]) /\ Carried(v, w, o, p, src, dst)
  BY BusyWas DEF IsIndexId
<1> HIDE DEF o
<1>2. w.lu[p] = v.lu[o] /\ w.page[p].span = v.page[o].span /\ IsIndexId(v.lu[o])
  BY <1>1 DEF Carried
<1>3. Whole(v, o) /\ \E oo \in Obj : v.lu[o] = IndexId(oo)
  BY <1>1, <1>2, BusyIsWhole
<1>4. w.page[p].span \in Nat
  BY <1>2, <1>3 DEF Whole
<1>5. ASSUME NEW s \in SpansOf(w.page[p].span)
      PROVE  /\ RefAt(w.page[p], s) = Now(RefAt(v.page[o], s), src, dst)
             /\ RefAt(w.page[p], s) # NoPix <=> RefAt(v.page[o], s) # NoPix
  <2>1. RefAt(w.page[p], s) = Now(RefAt(v.page[o], s), src, dst)
    BY <1>1, <1>2 DEF Carried, Now
  <2>2. src # NoPix /\ dst # NoPix
    BY ObjectAssumption DEF Relocated
  <2> QED BY <2>1, <2>2 DEF Now
<1> QED BY <1>1, <1>2, <1>3, <1>4, <1>5 DEF o

\* References still point to the data they stand for.
LEMMA RelocatedRefers ==
    ASSUME NEW v, NEW w, NEW src, NEW dst, Relocated(v, w, src, dst),
           AsListed(v), RefersToItsData(v)
    PROVE  RefersToItsData(w)
<1> SUFFICES ASSUME NEW p \in Page, IsIndexId(w.lu[p]),
                    NEW s \in SpansOf(w.page[p].span), RefAt(w.page[p], s) # NoPix
             PROVE  IsPageOf(w, RefAt(w.page[p], s), DataId(w.lu[p].obj), s)
  BY DEF RefersToItsData
<1> DEFINE o == Was(p, src, dst)
<1>1. /\ o \in Page /\ IsIndexId(v.lu[o]) /\ w.lu[p] = v.lu[o]
      /\ w.page[p].span = v.page[o].span
      /\ RefAt(w.page[p], s) = Now(RefAt(v.page[o], s), src, dst)
      /\ RefAt(v.page[o], s) # NoPix
  BY RefNow
<1>2. PICK oo \in Obj : w.lu[p] = IndexId(oo)
  BY RefNow
<1> HIDE DEF o
<1> DEFINE r == RefAt(v.page[o], s)
<1>3. IsPageOf(v, r, DataId(oo), s)
  <2>1. IsPageOf(v, r, DataId(v.lu[o].obj), s)
    BY <1>1 DEF RefersToItsData
  <2> QED BY <1>1, <1>2, <2>1, IdsOf
<1> HIDE DEF r
<1>4. r \in Page /\ DataId(oo) \in ObjectIds
  BY <1>3, IdsOf DEF IsPageOf
<1>5. IsPageOf(w, Now(r, src, dst), DataId(oo), s)
  BY <1>3, <1>4, PageNow
<1> QED BY <1>1, <1>2, <1>5, IdsOf DEF r

\* Every data page is still referred to.
LEMMA RelocatedIsReferred ==
    ASSUME NEW v, NEW w, NEW src, NEW dst, Relocated(v, w, src, dst),
           AsListed(v), ItsDataIsReferred(v)
    PROVE  ItsDataIsReferred(w)
<1> SUFFICES ASSUME NEW p \in Page, IsDataId(w.lu[p])
             PROVE  \E q \in Page :
                      /\ IsPageOf(w, q, IndexId(w.lu[p].obj), IxSpan(w.page[p].span))
                      /\ RefAt(w.page[q], w.page[p].span) = p
  BY DEF ItsDataIsReferred
<1> DEFINE o == Was(p, src, dst)
<1>1. /\ o \in Page /\ IsBusy(v.lu[o]) /\ Carried(v, w, o, p, src, dst)
      /\ Now(o, src, dst) = p
  BY BusyWas DEF IsDataId
<1> HIDE DEF o
<1>2. w.lu[p] = v.lu[o] /\ w.page[p].span = v.page[o].span /\ IsDataId(v.lu[o])
  BY <1>1 DEF Carried
<1>3. Whole(v, o) /\ \E oo \in Obj : v.lu[o] = DataId(oo)
  BY <1>1, <1>2, BusyIsWhole DEF IsDataId, IsIndexId
<1>4. PICK oo \in Obj : v.lu[o] = DataId(oo)
  BY <1>3
<1> DEFINE s == v.page[o].span
<1>5. s \in Nat /\ IxSpan(s) \in Nat /\ s \in SpansOf(IxSpan(s))
  <2>1. s \in Nat
    BY <1>3 DEF Whole
  <2>2. IxSpan(s) \in Nat
    BY <2>1, SpansOfIndex
  <2> QED BY <2>1, <2>2, SpansOfIndex
<1> HIDE DEF s
<1>6. PICK q \in Page : /\ IsPageOf(v, q, IndexId(oo), IxSpan(s))
                        /\ RefAt(v.page[q], s) = o
  <2>1. \E q \in Page : /\ IsPageOf(v, q, IndexId(v.lu[o].obj), IxSpan(v.page[o].span))
                        /\ RefAt(v.page[q], v.page[o].span) = o
    BY <1>1, <1>2 DEF ItsDataIsReferred
  <2> QED BY <1>4, <2>1, IdsOf DEF s
<1> DEFINE r == Now(q, src, dst)
<1>7. IndexId(oo) \in ObjectIds /\ IsIndexId(IndexId(oo)) /\ IsBusy(IndexId(oo))
  BY IdsOf, IdIsBusy
<1>8. /\ v.lu[q] = IndexId(oo) /\ v.page[q].span = IxSpan(s)
  BY <1>6 DEF IsPageOf
<1>9. r \in Page /\ Carried(v, w, q, r, src, dst)
  BY <1>6, <1>7, <1>8, BusyNow
<1> HIDE DEF r
<1>10. IsPageOf(w, r, IndexId(oo), IxSpan(s))
  BY <1>8, <1>9 DEF IsPageOf, Carried
<1>11. RefAt(w.page[r], s) = Now(o, src, dst)
  BY <1>5, <1>6, <1>7, <1>8, <1>9 DEF Carried, Now
<1>12. w.lu[p].obj = oo /\ w.page[p].span = s
  BY <1>2, <1>4, IdsOf DEF s
<1> QED BY <1>1, <1>9, <1>10, <1>11, <1>12

\* Every object still has its header.
LEMMA RelocatedHasHeader ==
    ASSUME NEW v, NEW w, NEW src, NEW dst, Relocated(v, w, src, dst),
           AsListed(v), HasItsHeader(v)
    PROVE  HasItsHeader(w)
<1> SUFFICES ASSUME NEW p \in Page, IsIndexId(w.lu[p])
             PROVE  \E q \in Page : IsPageOf(w, q, w.lu[p], 0)
  BY DEF HasItsHeader
<1>1. PICK o \in Page : IsIndexId(v.lu[o]) /\ w.lu[p] = v.lu[o]
  BY RefNow
<1>2. PICK oo \in Obj : w.lu[p] = IndexId(oo)
  BY RefNow
<1>3. PICK q \in Page : IsPageOf(v, q, v.lu[o], 0)
  BY <1>1 DEF HasItsHeader
<1>4. IsPageOf(w, Now(q, src, dst), w.lu[p], 0)
  BY <1>1, <1>2, <1>3, PageNow, IdsOf
<1> QED BY <1>4 DEF IsPageOf

\* No reference below the size is lost.
LEMMA RelocatedIsFilled ==
    ASSUME NEW v, NEW w, NEW src, NEW dst, Relocated(v, w, src, dst),
           AsListed(v), Filled(v)
    PROVE  Filled(w)
<1> SUFFICES ASSUME NEW p \in Page, IsIndexId(w.lu[p]),
                    NEW s \in SpansOf(w.page[p].span), NEW t \in SpansOf(w.page[p].span),
                    t <= s, RefAt(w.page[p], s) # NoPix
             PROVE  RefAt(w.page[p], t) # NoPix
  BY DEF Filled
<1> DEFINE o == Was(p, src, dst)
<1>1. /\ o \in Page /\ IsIndexId(v.lu[o]) /\ w.page[p].span = v.page[o].span
      /\ \A r \in SpansOf(w.page[p].span) :
            RefAt(w.page[p], r) # NoPix <=> RefAt(v.page[o], r) # NoPix
  BY RefNow
<1> HIDE DEF o
<1>2. /\ s \in SpansOf(v.page[o].span) /\ t \in SpansOf(v.page[o].span)
      /\ RefAt(v.page[o], s) # NoPix
      /\ RefAt(w.page[p], t) # NoPix <=> RefAt(v.page[o], t) # NoPix
  BY <1>1
<1>3. RefAt(v.page[o], t) # NoPix
  BY <1>1, <1>2 DEF Filled
<1> QED BY <1>1, <1>3

\* The two chips hold the same pages.
LEMMA RelocatedIsAlike ==
    ASSUME NEW v, NEW w, NEW src, NEW dst, Relocated(v, w, src, dst),
           AsListed(v), OneOfEach(v)
    PROVE  Alike(v, w)
<1> SUFFICES ASSUME NEW id \in ObjectIds, NEW s \in Nat
             PROVE  /\ (\E p \in Page : IsPageOf(v, p, id, s))
                         <=> \E q \in Page : IsPageOf(w, q, id, s)
                    /\ \A p, q \in Page : IsPageOf(v, p, id, s) /\ IsPageOf(w, q, id, s)
                                          => SameContent(v, p, w, q)
  BY DEF Alike
<1>1. (\E p \in Page : IsPageOf(v, p, id, s)) <=> \E q \in Page : IsPageOf(w, q, id, s)
  <2>1. \A p : IsPageOf(v, p, id, s) => p \in Page
    BY DEF IsPageOf
  <2>2. \A p : IsPageOf(w, p, id, s) => p \in Page
    BY DEF IsPageOf
  <2> QED BY <2>1, <2>2, PageNow
<1>2. ASSUME NEW p \in Page, NEW q \in Page, IsPageOf(v, p, id, s), IsPageOf(w, q, id, s)
      PROVE  SameContent(v, p, w, q)
  <2>1. IsBusy(id) /\ (IsIndexId(id) \/ IsDataId(id)) /\ ~(IsIndexId(id) /\ IsDataId(id))
    BY IdIsBusy
  <2>2. v.lu[p] = id /\ v.page[p].span = s /\ w.lu[q] = id
    BY <1>2 DEF IsPageOf
  <2> DEFINE r == Was(q, src, dst)
  <2>3. r \in Page /\ IsPageOf(v, r, id, s) /\ Carried(v, w, r, q, src, dst)
    BY <1>2, <2>1, <2>2, PageNow, BusyWas
  <2> HIDE DEF r
  <2>4. p = r
    <3>1. IsBusy(v.lu[p]) /\ IsPageOf(v, r, v.lu[p], v.page[p].span)
      BY <2>1, <2>2, <2>3
    <3> QED BY <2>3, <3>1 DEF OneOfEach
  <2> QED BY <2>1, <2>2, <2>3, <2>4 DEF Carried, SameContent
<1> QED BY <1>1, <1>2

\* A chip stays coherent when a page is moved, and holds the same objects.
LEMMA RelocationKeeps ==
    ASSUME NEW v, NEW w, NEW src, NEW dst, Relocated(v, w, src, dst),
           Coherent(v), Filled(v)
    PROVE  Coherent(w) /\ Filled(w) /\ Alike(v, w)
BY RelocatedIsListed, RelocatedIsOne, RelocatedRefers, RelocatedIsReferred,
   RelocatedHasHeader, RelocatedIsFilled, RelocatedIsAlike DEF Coherent

\* A chip is like itself.
LEMMA AlikeSelf ==
    ASSUME NEW v, OneOfEach(v) PROVE Alike(v, v)
<1>1. ASSUME NEW id \in ObjectIds, NEW s \in Nat, NEW p \in Page, NEW q \in Page,
             IsPageOf(v, p, id, s), IsPageOf(v, q, id, s)
      PROVE  SameContent(v, p, v, q)
  <2>1. IsBusy(v.lu[p]) /\ IsPageOf(v, q, v.lu[p], v.page[p].span)
    BY <1>1, IdIsBusy DEF IsPageOf
  <2>2. p = q
    BY <2>1 DEF OneOfEach
  <2> QED BY <2>2 DEF SameContent
<1> QED BY <1>1 DEF Alike

\* Likeness is transitive.
LEMMA AlikeOn ==
    ASSUME NEW u, NEW v, NEW w, Alike(u, v), Alike(v, w) PROVE Alike(u, w)
<1> SUFFICES ASSUME NEW id \in ObjectIds, NEW s \in Nat
             PROVE  /\ (\E p \in Page : IsPageOf(u, p, id, s))
                         <=> \E q \in Page : IsPageOf(w, q, id, s)
                    /\ \A p, q \in Page : IsPageOf(u, p, id, s) /\ IsPageOf(w, q, id, s)
                                          => SameContent(u, p, w, q)
  BY DEF Alike
<1>1. /\ (\E p \in Page : IsPageOf(u, p, id, s)) <=> \E q \in Page : IsPageOf(v, q, id, s)
      /\ \A p, q \in Page : IsPageOf(u, p, id, s) /\ IsPageOf(v, q, id, s)
                            => SameContent(u, p, v, q)
  BY DEF Alike
<1>2. /\ (\E p \in Page : IsPageOf(v, p, id, s)) <=> \E q \in Page : IsPageOf(w, q, id, s)
      /\ \A p, q \in Page : IsPageOf(v, p, id, s) /\ IsPageOf(w, q, id, s)
                            => SameContent(v, p, w, q)
  BY DEF Alike
<1>3. ASSUME NEW p \in Page, NEW q \in Page, IsPageOf(u, p, id, s), IsPageOf(w, q, id, s)
      PROVE  SameContent(u, p, w, q)
  <2>1. PICK r \in Page : IsPageOf(v, r, id, s)
    BY <1>1, <1>3
  <2>2. SameContent(u, p, v, r) /\ SameContent(v, r, w, q)
    BY <1>1, <1>2, <1>3, <2>1
  <2>3. u.lu[p] = id /\ v.lu[r] = id
    BY <1>3, <2>1 DEF IsPageOf
  <2> QED BY <2>2, <2>3 DEF SameContent
<1> QED BY <1>1, <1>2, <1>3

\* A reference that is set, and the others of the page.
LEMMA EntriesDiffer ==
    ASSUME NEW x \in Nat, NEW s \in SpansOf(x), NEW t \in SpansOf(x)
    PROVE  /\ IxEntry(s) \in Nat /\ IxEntry(s) # SizeSlot
           /\ IxEntry(s) = IxEntry(t) => s = t
<1>1. s \in Nat /\ t \in Nat /\ IxSpan(s) = x /\ IxSpan(t) = x
  <2>1. SpansOf(x) \subseteq Nat
    BY FirstSpanGrows DEF SpansOf
  <2> QED BY <2>1, SpansOfIndex
<1>2. HdrLen \in Nat \ {0} /\ IxLen \in Nat \ {0} /\ s # FREE /\ t # FREE
  BY <1>1, ObjectAssumption, IdAssumption
<1>3. CASE x = 0
  <2>1. s < HdrLen /\ t < HdrLen
    <3>1. ASSUME NEW u \in Nat, u # FREE, IxSpan(u) = 0, ~(u < HdrLen) PROVE FALSE
      <4>1. 1 + (u - HdrLen) \div IxLen = 0
        BY <3>1 DEF IxSpan
      <4>2. u - HdrLen \in Nat
        BY <1>2, <3>1
      <4>3. (u - HdrLen) \div IxLen \in Nat
        BY <1>2, <4>2, Divide
      <4> QED BY <4>1, <4>3
    <3> QED BY <1>1, <1>2, <1>3, <3>1
  <2> QED BY <1>1, <2>1 DEF IxEntry, SizeSlot
<1>4. CASE x # 0
  <2>1. ASSUME NEW u \in Nat, u # FREE, IxSpan(u) = x
        PROVE  /\ IxEntry(u) = (u - HdrLen) % IxLen /\ IxEntry(u) \in Nat
               /\ u - HdrLen = IxLen * (x - 1) + IxEntry(u)
    <3>1. ~(u < HdrLen)
      BY <1>4, <2>1 DEF IxSpan
    <3>2. x = 1 + (u - HdrLen) \div IxLen /\ IxEntry(u) = (u - HdrLen) % IxLen
      BY <2>1, <3>1 DEF IxSpan, IxEntry
    <3>3. u - HdrLen \in Nat
      BY <1>2, <3>1
    <3>4. /\ (u - HdrLen) \div IxLen \in Nat /\ (u - HdrLen) % IxLen \in 0 .. IxLen - 1
          /\ u - HdrLen = IxLen * ((u - HdrLen) \div IxLen) + ((u - HdrLen) % IxLen)
      BY <1>2, <3>3, Divide
    <3>5. (u - HdrLen) \div IxLen = x - 1
      BY <3>2, <3>4
    <3> QED BY <3>2, <3>4, <3>5
  <2>2. /\ s - HdrLen = IxLen * (x - 1) + IxEntry(s)
        /\ t - HdrLen = IxLen * (x - 1) + IxEntry(t)
        /\ IxEntry(s) \in Nat
    BY <1>1, <1>2, <2>1
  <2>3. IxEntry(s) = IxEntry(t) => s = t
    <3> DEFINE m == IxLen * (x - 1)
    <3>1. s - HdrLen = m + IxEntry(s) /\ t - HdrLen = m + IxEntry(t)
      BY <2>2
    <3> HIDE DEF m
    <3>2. s - HdrLen \in Int /\ t - HdrLen \in Int
      BY <1>1, <1>2
    <3> QED BY <1>1, <1>2, <3>1, <3>2
  <2> QED BY <2>2, <2>3 DEF SizeSlot
<1> QED BY <1>3, <1>4

\* One reference of an index page is set, the others stay.
LEMMA SlotsAfter ==
    ASSUME NEW pg, IsHeader(pg), NEW i, NEW r, NEW blank, r # blank
    PROVE  /\ IsHeader(SetSlot(pg, i, r, blank))
           /\ SetSlot(pg, i, r, blank).id = pg.id
           /\ SetSlot(pg, i, r, blank).span = pg.span
           /\ SetSlot(pg, i, r, blank).flags = pg.flags
           /\ \A b : Slot(SetSlot(pg, i, r, blank), i, b) = r
           /\ \A j, b : j # i => Slot(SetSlot(pg, i, r, blank), j, b) = Slot(pg, j, b)
<1> DEFINE body == [j \in DOMAIN pg.body \cup {i} |-> IF j = i THEN r ELSE pg.body[j]]
           new == SetSlot(pg, i, r, blank)
<1>1. /\ DOMAIN body = DOMAIN pg.body \cup {i} /\ IsFcn(body)
      /\ body[i] = r /\ \A j \in DOMAIN pg.body : j # i => body[j] = pg.body[j]
  BY DEF IsFcn
<1> HIDE DEF body
<1>2. new = [pg EXCEPT !.body = body]
  BY DEF SetSlot, body
<1>3. new = [id |-> pg.id, span |-> pg.span, flags |-> pg.flags, body |-> body]
  BY <1>2 DEF IsHeader
<1> HIDE DEF new
<1>4. /\ new.id = pg.id /\ new.span = pg.span /\ new.flags = pg.flags
      /\ new.body = body /\ IsHeader(new)
  BY <1>1, <1>3 DEF IsHeader
<1>5. \A b : Slot(new, i, b) = r
  BY <1>1, <1>4 DEF Slot
<1>6. \A j, b : j # i => Slot(new, j, b) = Slot(pg, j, b)
  <2> TAKE j, b
  <2> HAVE j # i
  <2>1. j \in DOMAIN new.body <=> j \in DOMAIN pg.body
    BY <1>1, <1>4
  <2> QED BY <1>1, <1>4, <2>1 DEF Slot
<1> QED BY <1>4, <1>5, <1>6 DEF new

\* The spans of an index page.
LEMMA SpanOfIndex ==
    ASSUME NEW x \in Nat, NEW s \in SpansOf(x)
    PROVE  s \in Nat /\ IxSpan(s) = x
<1>1. FirstSpan(x) \in Nat /\ FirstSpan(x + 1) \in Int
  BY FirstSpanGrows
<1>2. s \in Nat
  BY <1>1 DEF SpansOf
<1> QED BY <1>2, SpansOfIndex

\* Who refers to a page.
LEMMA RefersToData ==
    ASSUME NEW v, AsListed(v), RefersToItsData(v), NEW p \in Page, IsIndexId(v.lu[p]),
           NEW s \in SpansOf(v.page[p].span), NEW r \in Page, RefAt(v.page[p], s) = r
    PROVE  /\ IsDataId(v.lu[r]) /\ v.page[r].span = s
           /\ \E o \in Obj : v.lu[p] = IndexId(o) /\ v.lu[r] = DataId(o)
<1>1. PICK o \in Obj : v.lu[p] = IndexId(o)
  BY BusyIsWhole DEF IsIndexId
<1>2. RefAt(v.page[p], s) # NoPix
  BY ObjectAssumption
<1>3. IsPageOf(v, r, DataId(v.lu[p].obj), s)
  BY <1>2 DEF RefersToItsData
<1>4. v.lu[r] = DataId(o) /\ v.page[r].span = s
  BY <1>1, <1>3, IdsOf DEF IsPageOf
<1> QED BY <1>1, <1>4, IdsOf

\* A page that is no data page is referred to by none.
LEMMA StaysUnreferred ==
    ASSUME NEW v, AsListed(v), RefersToItsData(v), NEW src \in Page, NEW dst \in Page,
           ~IsDataId(v.lu[src]), NEW p \in Page, IsBusy(v.lu[p]), NEW w, NEW r,
           w.lu[r] = v.lu[p], w.page[r] = v.page[p]
    PROVE  Carried(v, w, p, r, src, dst)
<1>1. ASSUME IsIndexId(v.lu[p]), NEW s \in SpansOf(v.page[p].span)
      PROVE  RefAt(v.page[p], s) # src
  BY <1>1, RefersToData
<1> QED BY <1>1 DEF Carried

\* An index page is moved; v has the new content already.
LEMMA IndexMoves ==
    ASSUME NEW v, AsListed(v), RefersToItsData(v), NEW f, Shaped(f), NEW g,
           NEW src \in Page, NEW dst \in Page, src # dst,
           v.lu = f.lu, \A p \in Page \ {src} : v.page[p] = f.page[p],
           IsIndexId(v.lu[src]), f.lu[dst] = FREE,
           PageMoved(f, g, src, dst, v.lu[src], v.page[src])
    PROVE  Relocated(v, g, src, dst)
<1>1. ~IsDataId(v.lu[src]) /\ IsBusy(v.lu[src])
  BY DEF IsDataId, IsIndexId
<1>2. g.lu[dst] = v.lu[src] /\ g.page[dst] = v.page[src]
  BY DEF PageMoved
<1>3. Carried(v, g, src, dst, src, dst)
  BY <1>1, <1>2, StaysUnreferred
<1>4. ASSUME NEW p \in Page \ {src, dst} PROVE Stays(v, g, p, src, dst)
  <2>1. g.lu[p] = v.lu[p] /\ g.page[p] = v.page[p]
    BY DEF PageMoved
  <2> QED BY <1>1, <2>1, StaysUnreferred DEF Stays
<1>5. g.lu[src] = DELETED /\ {"USED", "DELET"} \subseteq g.page[src].flags
  <2>1. IsHeader(f.page[src])
    BY DEF Shaped
  <2>2. g.page[src].flags = f.page[src].flags \cup {"DELET", "USED"}
    BY <2>1 DEF PageMoved, IsHeader
  <2> QED BY <2>2 DEF PageMoved
<1> QED BY <1>1, <1>3, <1>4, <1>5 DEF Relocated

\* A data page is moved, and the index page that refers to it told.
LEMMA RefIsSet ==
    ASSUME NEW pg, IsHeader(pg), pg.span \in Nat, NEW s \in SpansOf(pg.span),
           NEW r \in Page
    PROVE  /\ IsHeader(SetRef(pg, s, r))
           /\ SetRef(pg, s, r).id = pg.id /\ SetRef(pg, s, r).span = pg.span
           /\ SetRef(pg, s, r).flags = pg.flags
           /\ SizeOf(SetRef(pg, s, r)) = SizeOf(pg)
           /\ RefAt(SetRef(pg, s, r), s) = r
           /\ \A t \in SpansOf(pg.span) : t # s => RefAt(SetRef(pg, s, r), t) = RefAt(pg, t)
<1> DEFINE new == SetRef(pg, s, r)
           i == IxEntry(s)
<1>1. r # NoPix /\ new = SetSlot(pg, i, r, NoPix)
  BY ObjectAssumption DEF SetRef
<1>2. /\ i # SizeSlot
      /\ \A t \in SpansOf(pg.span) : IxEntry(t) = i => t = s
  BY EntriesDiffer
<1> HIDE DEF i, new
<1>3. /\ IsHeader(new) /\ new.id = pg.id /\ new.span = pg.span /\ new.flags = pg.flags
      /\ \A b : Slot(new, i, b) = r
      /\ \A j, b : j # i => Slot(new, j, b) = Slot(pg, j, b)
  BY <1>1, SlotsAfter
<1>4. SizeOf(new) = SizeOf(pg)
  BY <1>2, <1>3 DEF SizeOf
<1>5. RefAt(new, s) = r
  BY <1>3 DEF RefAt, i
<1>6. ASSUME NEW t \in SpansOf(pg.span), t # s PROVE RefAt(new, t) = RefAt(pg, t)
  BY <1>2, <1>3, <1>6 DEF RefAt
<1> QED BY <1>3, <1>4, <1>5, <1>6 DEF new

\* Index page q now refers to r for span s, and is otherwise the same.
Told(v, w, q, s, r) ==
    /\ w.lu[q] = v.lu[q] /\ w.page[q] = SetRef(v.page[q], s, r)

\* A data page that moved, with its reference told, is a relocation.
LEMMA DataMoves ==
    ASSUME NEW v, AsListed(v), RefersToItsData(v), OneOfEach(v), NEW w,
           NEW src \in Page, NEW dst \in Page, src # dst, v.lu[dst] = FREE,
           NEW q \in Page, IsHeader(v.page[q]), IsIndexId(v.lu[q]),
           NEW s \in SpansOf(v.page[q].span), RefAt(v.page[q], s) = src,
           Told(v, w, q, s, dst),
           w.lu[dst] = v.lu[src], w.page[dst] = v.page[src],
           w.lu[src] = DELETED, {"USED", "DELET"} \subseteq w.page[src].flags,
           \A p \in Page \ {src, dst, q} : w.lu[p] = v.lu[p] /\ w.page[p] = v.page[p]
    PROVE  Relocated(v, w, src, dst)
<1>1. /\ IsDataId(v.lu[src]) /\ v.page[src].span = s
      /\ \E o \in Obj : v.lu[q] = IndexId(o) /\ v.lu[src] = DataId(o)
  BY RefersToData
<1>2. PICK o \in Obj : v.lu[q] = IndexId(o) /\ v.lu[src] = DataId(o)
  BY <1>1
<1>3. IsBusy(v.lu[src]) /\ ~IsIndexId(v.lu[src]) /\ IsBusy(v.lu[q]) /\ ~IsDataId(v.lu[q])
  BY <1>1 DEF IsDataId, IsIndexId
<1>4. q # src /\ q # dst
  BY <1>1, <1>3 DEF IsBusy
<1>5. v.page[q].span \in Nat
  BY <1>3, BusyIsWhole DEF Whole
<1>6. Carried(v, w, src, dst, src, dst)
  BY <1>3 DEF Carried
<1>7. Carried(v, w, q, q, src, dst)
  <2>1. /\ w.page[q].id = v.page[q].id /\ w.page[q].span = v.page[q].span
        /\ w.page[q].flags = v.page[q].flags /\ SizeOf(w.page[q]) = SizeOf(v.page[q])
        /\ RefAt(w.page[q], s) = dst
        /\ \A t \in SpansOf(v.page[q].span) :
              t # s => RefAt(w.page[q], t) = RefAt(v.page[q], t)
    BY <1>5, RefIsSet DEF Told
  <2>2. ASSUME NEW t \in SpansOf(v.page[q].span), RefAt(v.page[q], t) = src PROVE t = s
    BY <1>1, <2>2, RefersToData
  <2>3. w.lu[q] = v.lu[q]
    BY DEF Told
  <2> QED BY <1>3, <2>1, <2>2, <2>3 DEF Carried
<1>8. ASSUME NEW p \in Page \ {src, dst, q} PROVE Stays(v, w, p, src, dst)
  <2>1. ASSUME IsIndexId(v.lu[p]), NEW t \in SpansOf(v.page[p].span),
               RefAt(v.page[p], t) = src
        PROVE  FALSE
    <3>1. /\ v.page[src].span = t
          /\ \E oo \in Obj : v.lu[p] = IndexId(oo) /\ v.lu[src] = DataId(oo)
      BY <2>1, RefersToData
    <3>2. t = s /\ v.lu[p] = v.lu[q]
      <4>1. PICK oo \in Obj : v.lu[p] = IndexId(oo) /\ v.lu[src] = DataId(oo)
        BY <3>1
      <4>2. oo = o
        BY <1>2, <4>1, IdsOf
      <4> QED BY <1>1, <1>2, <3>1, <4>1, <4>2
    <3>3. v.page[p].span \in Nat
      BY <2>1, BusyIsWhole DEF Whole, IsIndexId
    <3>4. v.page[p].span = v.page[q].span
      <4>1. IxSpan(s) = v.page[q].span
        BY <1>5, SpanOfIndex
      <4>2. IxSpan(t) = v.page[p].span
        BY <2>1, <3>3, SpanOfIndex
      <4> QED BY <3>2, <4>1, <4>2
    <3>5. IsPageOf(v, q, v.lu[p], v.page[p].span)
      BY <3>2, <3>4 DEF IsPageOf
    <3>6. p = q
      BY <2>1, <3>5 DEF OneOfEach, IsIndexId
    <3> QED BY <3>6
  <2>2. w.lu[p] = v.lu[p] /\ w.page[p] = v.page[p]
    OBVIOUS
  <2> QED BY <2>1, <2>2 DEF Stays, Carried
<1>9. ASSUME NEW p \in Page \ {src, dst} PROVE Stays(v, w, p, src, dst)
  BY <1>3, <1>7, <1>8 DEF Stays
<1> QED BY <1>3, <1>6, <1>9 DEF Relocated

----------------------------------------------------------------------------
(* A group of data pages is moved.                                         *)

\* The chip as it will be when the index page in fs->work is stored.
View(f) == [lu |-> f.lu, page |-> [f.page EXCEPT ![f.work.pix] = f.work.pg]]

\* The chip while the data pages of one index page are moved: coherent if
\* the copy of the index page being filled in is taken for the page.
Group(f, q, o, x) ==
    /\ Shaped(f) /\ Lined(f) /\ f.cleaning
    /\ IsHeader(f.work.pg) /\ f.work = [pg |-> f.work.pg, pix |-> q, x |-> x]
    /\ q \in Page /\ f.lu[q] = IndexId(o) /\ f.page[q].span = x /\ f.work.pg.span = x
    /\ Coherent(View(f)) /\ Filled(View(f))

\* The span the copy is of.
LEMMA GroupSpan ==
    ASSUME NEW f, NEW q, NEW o, NEW x, Group(f, q, o, x)
    PROVE  f.work.x = x
<1>1. f.work = [pg |-> f.work.pg, pix |-> q, x |-> x]
  BY DEF Group
<1> QED BY <1>1

\* The chip as it will be once the copy is stored.
LEMMA ViewIs ==
    ASSUME NEW f, Shaped(f), f.work.pix \in Page
    PROVE  /\ View(f).lu = f.lu /\ View(f).page[f.work.pix] = f.work.pg
           /\ \A p \in Page : p # f.work.pix => View(f).page[p] = f.page[p]
BY DEF View, Shaped

\* The page src is now the page dst.
Shifted(f, g, src, dst) ==
    /\ dst \in Page /\ dst # src /\ f.lu[dst] = FREE /\ NoneBelow(f, dst)
    /\ g.lu[src] = DELETED /\ g.lu[dst] = f.lu[src]
    /\ g.page[dst].span = f.page[src].span
    /\ \A p \in Page \ {src, dst} : g.lu[p] = f.lu[p] /\ g.page[p] = f.page[p]
    /\ g.free_cursor = <<dst[1], dst[2] + 1>>

\* What the view shares with the chip.
LEMMA GroupFacts ==
    ASSUME NEW f, NEW q, NEW o \in Obj, NEW x \in Nat, Group(f, q, o, x)
    PROVE  /\ f.work.pix = q /\ f.work.x = x
           /\ View(f).lu = f.lu /\ View(f).page[q] = f.work.pg
           /\ \A p \in Page : p # q => View(f).page[p] = f.page[p]
           /\ \A p \in Page : f.lu[p] = FREE => f.page[p] = Erased
<1> DEFINE v == View(f)
<1>1. f.work.pix = q /\ f.work.x = x
  <2>1. f.work = [pg |-> f.work.pg, pix |-> q, x |-> x]
    BY DEF Group
  <2> QED BY <2>1
<1>2. /\ v.lu = f.lu /\ v.page[q] = f.work.pg
      /\ \A p \in Page : p # q => v.page[p] = f.page[p]
  BY <1>1, ViewIs DEF Group
<1>3. AsListed(v) /\ OneOfEach(v) /\ ItsDataIsReferred(v)
  BY DEF Group, Coherent
<1> HIDE DEF v
<1>4. f.lu[q] = IndexId(o) /\ q \in Page /\ v.page[q].span = x
  BY <1>2 DEF Group
<1>5. ASSUME NEW p \in Page, f.lu[p] = FREE PROVE f.page[p] = Erased
  <2>1. p # q
    BY <1>4, <1>5, IdsOf, IdIsBusy
  <2>2. v.page[p] = Erased
    BY <1>2, <1>3, <1>5 DEF AsListed, IsFree
  <2> QED BY <1>2, <2>1, <2>2
<1> QED BY <1>1, <1>2, <1>5 DEF v

\* A data page of the group is referred to by the copy.
LEMMA GroupData ==
    ASSUME NEW f, NEW q, NEW o \in Obj, NEW x \in Nat, Group(f, q, o, x),
           NEW p \in Page, f.lu[p] = DataId(o), IxSpan(f.page[p].span) = x
    PROVE  /\ p # q /\ f.page[p].span \in Nat /\ "DELET" \notin f.page[p].flags
           /\ f.page[p].span \in SpansOf(x) /\ RefAt(f.work.pg, f.page[p].span) = p
<1> DEFINE v == View(f)
<1>1. /\ v.lu = f.lu /\ v.page[q] = f.work.pg
      /\ \A r \in Page : r # q => v.page[r] = f.page[r]
  <2>1. f.work.pix = q /\ q \in Page /\ Shaped(f)
    BY GroupFacts DEF Group
  <2> QED BY <2>1, ViewIs
<1>2. AsListed(v) /\ OneOfEach(v) /\ ItsDataIsReferred(v)
  BY DEF Group, Coherent
<1> HIDE DEF v
<1>3. f.lu[q] = IndexId(o) /\ q \in Page /\ v.page[q].span = x
  BY <1>1 DEF Group
<1>4. p # q /\ IsDataId(v.lu[p]) /\ IsBusy(v.lu[p])
  BY <1>1, <1>3, IdsOf, IdIsBusy
<1>5. v.page[p] = f.page[p]
  BY <1>1, <1>4
<1>6. Whole(v, p)
  BY <1>2, <1>4, BusyIsWhole
<1>7. f.page[p].span \in Nat /\ "DELET" \notin f.page[p].flags
  BY <1>5, <1>6 DEF Whole, Valid
<1>8. f.page[p].span \in SpansOf(x)
  BY <1>7, SpansOfIndex
<1>9. PICK r \in Page : /\ IsPageOf(v, r, IndexId(v.lu[p].obj), IxSpan(v.page[p].span))
                        /\ RefAt(v.page[r], v.page[p].span) = p
  BY <1>2, <1>4 DEF ItsDataIsReferred
<1>10. v.lu[r] = IndexId(o) /\ v.page[r].span = x
  BY <1>1, <1>5, <1>9, IdsOf DEF IsPageOf
<1>11. IsPageOf(v, q, v.lu[r], v.page[r].span) /\ IsBusy(v.lu[r])
  BY <1>1, <1>3, <1>10, IdsOf, IdIsBusy DEF IsPageOf
<1>12. r = q
  BY <1>2, <1>3, <1>11 DEF OneOfEach
<1> QED BY <1>1, <1>4, <1>5, <1>7, <1>8, <1>9, <1>12

\* A move, seen as a whole.
LEMMA MoveShifts ==
    ASSUME NEW f, NEW g, NEW src \in Page, NEW c, MovedTo(f, g, src, f.lu[src], c),
           c.span = f.page[src].span
    PROVE  Shifted(f, g, src, g.found)
BY DEF MovedTo, PageMoved, Takes, Shifted

\* Moving one data page of the group is a relocation of the view.
LEMMA MoveDataRuns ==
    ASSUME NEW f, NEW q, NEW o \in Obj, NEW x \in Nat, Group(f, q, o, x),
           NEW src \in Page, f.lu[src] = DataId(o), IxSpan(f.page[src].span) = x,
           NEW g, g = MoveData(f, src, f.page[src].span), Ok(g)
    PROVE  /\ Ok(f) /\ Group(g, q, o, x) /\ Alike(View(f), View(g))
           /\ Keeps(f, g, OnClean \cup {"work"}) /\ Shifted(f, g, src, g.found)
<1> DEFINE s == f.page[src].span
           t == PageMove(f, DataId(o), src, Erased)
           dst == t.found
           new == SetRef(f.work.pg, s, dst)
           v == View(f)
           w == View(g)
<1>1. /\ f.work.pix = q /\ f.work.x = x /\ v.lu = f.lu /\ v.page[q] = f.work.pg
      /\ \A p \in Page : p # q => v.page[p] = f.page[p]
  BY GroupFacts
<1>2. /\ \A p \in Page : f.lu[p] = FREE => f.page[p] = Erased
      /\ src # q /\ s \in Nat /\ "DELET" \notin f.page[src].flags
      /\ s \in SpansOf(x) /\ RefAt(f.work.pg, s) = src
  <2> HIDE DEF t, dst, new, v, w
  <2>1. \A p \in Page : f.lu[p] = FREE => f.page[p] = Erased
    BY GroupFacts
  <2> QED BY <2>1, GroupData
<1>3. /\ Shaped(f) /\ Lined(f) /\ f.cleaning /\ IsHeader(f.work.pg) /\ q \in Page
      /\ f.lu[q] = IndexId(o) /\ f.page[q].span = x /\ f.work.pg.span = x
      /\ AsListed(v) /\ OneOfEach(v) /\ RefersToItsData(v) /\ Coherent(v) /\ Filled(v)
      /\ f.work = [pg |-> f.work.pg, pix |-> q, x |-> x]
  BY DEF Group, Coherent
<1> HIDE DEF v
<1>4. g = Then(t, [t EXCEPT !.work.pg = SetRef(@, s, t.found)])
  BY <1>2 DEF MoveData, MoveOrDelete, Refer
<1> HIDE DEF t
<1>5. Ok(t)
  BY <1>4 DEF Then
<1>6. g = [t EXCEPT !.work.pg = SetRef(@, s, t.found)]
  BY <1>4, <1>5 DEF Then
<1>7. DataId(o) # FREE /\ IsBusy(DataId(o))
  BY IdsOf, IdIsBusy
<1>8. /\ Ok(f) /\ Shaped(t) /\ Lined(t) /\ Keeps(f, t, OnClean)
      /\ MovedTo(f, t, src, DataId(o), Content(f, src, Erased))
  BY <1>2, <1>3, <1>5, <1>7, MoveRuns DEF t
<1>9. MovedTo(f, t, src, DataId(o), f.page[src])
  BY <1>8 DEF Content
<1>10. t.work = f.work /\ t.cleaning = f.cleaning
  BY <1>8 DEF Keeps, OnClean, Fields
<1>11. g.work = [pg |-> new, pix |-> q, x |-> x] /\ Keeps(t, g, {"work"})
  <2>1. t.work = [pg |-> f.work.pg, pix |-> q, x |-> x] /\ State(t)
    BY <1>3, <1>8, <1>10 DEF Shaped
  <2> HIDE DEF s
  <2>2. g.work = [t.work EXCEPT !.pg = SetRef(@, s, dst)]
    BY <1>6, <2>1 DEF State, Fields
  <2>3. Keeps(t, g, {"work"})
    BY <1>6, <2>1 DEF Keeps, State, Fields
  <2> QED BY <2>1, <2>2, <2>3
<1>12. /\ g.lu = t.lu /\ g.page = t.page /\ g.free_cursor = t.free_cursor
       /\ g.found = dst /\ g.cleaning /\ g.res = t.res
  BY <1>3, <1>10, <1>11 DEF Keeps, Fields
<1>13. Shaped(g) /\ Lined(g)
  <2>1. State(g)
    BY <1>11 DEF Keeps
  <2> QED BY <1>8, <1>12, <2>1 DEF Shaped, Lined, Packed, AtCursor, NoneBelow
<1>14. /\ dst \in Page /\ dst # src /\ f.lu[dst] = FREE /\ g.lu[dst] = DataId(o)
       /\ g.lu[src] = DELETED /\ g.page[dst] = f.page[src]
       /\ \A p \in Page \ {src, dst} : g.lu[p] = f.lu[p] /\ g.page[p] = f.page[p]
  BY <1>9, <1>12 DEF MovedTo, PageMoved
<1>15. {"USED", "DELET"} \subseteq g.page[src].flags
  <2>1. IsHeader(f.page[src])
    BY <1>3 DEF Shaped
  <2>2. g.page[src] = [f.page[src] EXCEPT !.flags = @ \cup {"DELET", "USED"}]
    BY <1>9, <1>12 DEF MovedTo, PageMoved
  <2> QED BY <2>1, <2>2 DEF IsHeader
<1>16. q # dst /\ dst # q
  BY <1>3, <1>14, IdsOf, IdIsBusy
<1>17. /\ IsHeader(new) /\ new.span = x
  <2> HIDE DEF s, dst
  <2> DEFINE pg == f.work.pg
  <2>1. IsHeader(pg) /\ pg.span = x /\ s \in SpansOf(pg.span) /\ dst \in Page
    BY <1>2, <1>3, <1>14
  <2> HIDE DEF pg
  <2>2. IsHeader(SetRef(pg, s, dst)) /\ SetRef(pg, s, dst).span = pg.span
    BY <2>1, RefIsSet
  <2> QED BY <2>1, <2>2 DEF pg
<1> HIDE DEF new
<1>18. g.work.pg = new /\ g.work.pix = q
  BY <1>11
<1>19. /\ w.lu = g.lu /\ w.page[q] = new
       /\ \A p \in Page : p # q => w.page[p] = g.page[p]
  BY <1>3, <1>13, <1>18, ViewIs
<1> HIDE DEF w
<1>20. Told(v, w, q, s, dst)
  BY <1>1, <1>2, <1>3, <1>14, <1>16, <1>19 DEF Told, new
<1>21. Relocated(v, w, src, dst)
  <2>1. w.lu[dst] = v.lu[src] /\ w.page[dst] = v.page[src]
    BY <1>1, <1>2, <1>14, <1>16, <1>19
  <2>2. w.lu[src] = DELETED /\ {"USED", "DELET"} \subseteq w.page[src].flags
    BY <1>2, <1>14, <1>15, <1>19
  <2>3. \A p \in Page \ {src, dst, q} : w.lu[p] = v.lu[p] /\ w.page[p] = v.page[p]
    BY <1>1, <1>14, <1>19
  <2>4. v.lu[dst] = FREE /\ IsIndexId(v.lu[q]) /\ IsHeader(v.page[q])
    BY <1>1, <1>3, <1>14, IdsOf
  <2>5. s \in SpansOf(v.page[q].span) /\ RefAt(v.page[q], s) = src
    BY <1>1, <1>2, <1>3
  <2> QED BY <1>3, <1>14, <1>20, <2>1, <2>2, <2>3, <2>4, <2>5, DataMoves
<1>22. Coherent(w) /\ Filled(w) /\ Alike(v, w)
  BY <1>3, <1>21, RelocationKeeps
<1>23. Group(g, q, o, x)
  BY <1>2, <1>3, <1>11, <1>12, <1>13, <1>14, <1>16, <1>17, <1>18, <1>22
     DEF Group, w
<1>24. Keeps(f, g, OnClean \cup {"work"})
  BY <1>8, <1>11 DEF Keeps
<1>25. Shifted(f, g, src, dst)
  <2>1. NoneBelow(f, dst) /\ g.free_cursor = <<dst[1], dst[2] + 1>>
    BY <1>9, <1>12 DEF MovedTo, Takes
  <2> QED BY <1>14, <2>1 DEF Shifted
<1> QED BY <1>8, <1>12, <1>22, <1>23, <1>24, <1>25 DEF v, w

\* The data pages of block b that one index page refers to are moved.
MemberLoops(h, f0, b, id) ==
    /\ h[0] = f0
    /\ \A k \in 0 .. NE - 1 : h[k + 1] = MoveMember(h[k], <<b, k>>, id)
    /\ MoveGroup(f0, b, id) = h[NE]

\* The loop over the members of a group, as a function of the steps made.
LEMMA MemberLoop ==
    ASSUME NEW f0, NEW b, NEW id
    PROVE  \E h : MemberLoops(h, f0, b, id)
<1> DEFINE seq == Entries
           P(g) == g = [s \in SUBSET (1 .. NE) |->
                      IF s = {} THEN f0 ELSE MoveMember(g[s \ {Max(s)}], <<b, seq[Max(s)]>>, id)]
           it == CHOOSE g : P(g)
<1>1. PICK g : Iterates([op |-> "member", b |-> b, id |-> id], f0, seq, NE, g)
  BY IterateAll, GeometryAssumption
<1>2. P(g)
  BY <1>1 DEF Iterates, Step
<1>3. P(it)
  BY <1>2
<1>4. MoveGroup(f0, b, id) = it[1 .. NE]
  <2>1. DOMAIN seq = 1 .. NE
    BY DEF Entries
  <2> QED BY <2>1 DEF MoveGroup, FoldLeft, MapThenFoldSet
<1> DEFINE h == [k \in 0 .. NE |-> it[1 .. k]]
<1> HIDE DEF it
<1>5. h[0] = f0
  <2>1. 1 .. 0 = {} /\ {} \in SUBSET (1 .. NE) /\ 0 \in 0 .. NE
    BY GeometryAssumption
  <2> QED BY <2>1, <1>3
<1>6. ASSUME NEW k \in 0 .. NE - 1
      PROVE  h[k + 1] = MoveMember(h[k], <<b, k>>, id)
  <2>1. UpToNext(k) /\ 1 .. k + 1 \in SUBSET (1 .. NE)
    BY UpToNextAgain, GeometryAssumption
  <2>2. it[1 .. k + 1] = MoveMember(it[1 .. k], <<b, seq[k + 1]>>, id)
    BY <1>3, <2>1 DEF UpToNext
  <2>3. h[k + 1] = it[1 .. k + 1] /\ h[k] = it[1 .. k]
    BY GeometryAssumption
  <2>4. seq[k + 1] = k
    BY GeometryAssumption DEF Entries
  <2> QED BY <2>2, <2>3, <2>4
<1>7. h[NE] = it[1 .. NE]
  BY GeometryAssumption
<1> HIDE DEF h
<1>8. MemberLoops(h, f0, b, id)
  BY <1>4, <1>5, <1>6, <1>7 DEF MemberLoops
<1> QED BY <1>8

\* The data pages of block b are moved, group by group.
DataLoops(h, f0, b) ==
    /\ h[0] = f0
    /\ \A k \in 0 .. NE - 1 : h[k + 1] = CleanData(h[k], b, k)
    /\ CleanDataPages(f0, b) = h[NE]

\* The loop over the data pages of a block.
LEMMA DataLoop ==
    ASSUME NEW f0, NEW b
    PROVE  \E h : DataLoops(h, f0, b)
<1> DEFINE seq == Entries
           P(g) == g = [s \in SUBSET (1 .. NE) |->
                      IF s = {} THEN f0 ELSE CleanData(g[s \ {Max(s)}], b, seq[Max(s)])]
           it == CHOOSE g : P(g)
<1>1. PICK g : Iterates([op |-> "data", b |-> b], f0, seq, NE, g)
  BY IterateAll, GeometryAssumption
<1>2. P(g)
  BY <1>1 DEF Iterates, Step
<1>3. P(it)
  BY <1>2
<1>4. CleanDataPages(f0, b) = it[1 .. NE]
  <2>1. DOMAIN seq = 1 .. NE
    BY DEF Entries
  <2> QED BY <2>1 DEF CleanDataPages, FoldLeft, MapThenFoldSet
<1> DEFINE h == [k \in 0 .. NE |-> it[1 .. k]]
<1> HIDE DEF it
<1>5. h[0] = f0
  <2>1. 1 .. 0 = {} /\ {} \in SUBSET (1 .. NE) /\ 0 \in 0 .. NE
    BY GeometryAssumption
  <2> QED BY <2>1, <1>3
<1>6. ASSUME NEW k \in 0 .. NE - 1
      PROVE  h[k + 1] = CleanData(h[k], b, k)
  <2>1. UpToNext(k) /\ 1 .. k + 1 \in SUBSET (1 .. NE)
    BY UpToNextAgain, GeometryAssumption
  <2>2. it[1 .. k + 1] = CleanData(it[1 .. k], b, seq[k + 1])
    BY <1>3, <2>1 DEF UpToNext
  <2>3. h[k + 1] = it[1 .. k + 1] /\ h[k] = it[1 .. k]
    BY GeometryAssumption
  <2>4. seq[k + 1] = k
    BY GeometryAssumption DEF Entries
  <2> QED BY <2>2, <2>3, <2>4
<1>7. h[NE] = it[1 .. NE]
  BY GeometryAssumption
<1> HIDE DEF h
<1>8. DataLoops(h, f0, b)
  BY <1>4, <1>5, <1>6, <1>7 DEF DataLoops
<1> QED BY <1>8

\* The index pages of block b are moved.
IxLoops(h, f0, b) ==
    /\ h[0] = f0
    /\ \A k \in 0 .. NE - 1 : h[k + 1] = CleanIndex(h[k], b, k)
    /\ CleanIndexPages(f0, b) = h[NE]

\* The loop over the index pages of a block.
LEMMA IxLoop ==
    ASSUME NEW f0, NEW b
    PROVE  \E h : IxLoops(h, f0, b)
<1> DEFINE seq == Entries
           P(g) == g = [s \in SUBSET (1 .. NE) |->
                      IF s = {} THEN f0 ELSE CleanIndex(g[s \ {Max(s)}], b, seq[Max(s)])]
           it == CHOOSE g : P(g)
<1>1. PICK g : Iterates([op |-> "ix", b |-> b], f0, seq, NE, g)
  BY IterateAll, GeometryAssumption
<1>2. P(g)
  BY <1>1 DEF Iterates, Step
<1>3. P(it)
  BY <1>2
<1>4. CleanIndexPages(f0, b) = it[1 .. NE]
  <2>1. DOMAIN seq = 1 .. NE
    BY DEF Entries
  <2> QED BY <2>1 DEF CleanIndexPages, FoldLeft, MapThenFoldSet
<1> DEFINE h == [k \in 0 .. NE |-> it[1 .. k]]
<1> HIDE DEF it
<1>5. h[0] = f0
  <2>1. 1 .. 0 = {} /\ {} \in SUBSET (1 .. NE) /\ 0 \in 0 .. NE
    BY GeometryAssumption
  <2> QED BY <2>1, <1>3
<1>6. ASSUME NEW k \in 0 .. NE - 1
      PROVE  h[k + 1] = CleanIndex(h[k], b, k)
  <2>1. UpToNext(k) /\ 1 .. k + 1 \in SUBSET (1 .. NE)
    BY UpToNextAgain, GeometryAssumption
  <2>2. it[1 .. k + 1] = CleanIndex(it[1 .. k], b, seq[k + 1])
    BY <1>3, <2>1 DEF UpToNext
  <2>3. h[k + 1] = it[1 .. k + 1] /\ h[k] = it[1 .. k]
    BY GeometryAssumption
  <2>4. seq[k + 1] = k
    BY GeometryAssumption DEF Entries
  <2> QED BY <2>2, <2>3, <2>4
<1>7. h[NE] = it[1 .. NE]
  BY GeometryAssumption
<1> HIDE DEF h
<1>8. IxLoops(h, f0, b)
  BY <1>4, <1>5, <1>6, <1>7 DEF IxLoops
<1> QED BY <1>8

\* The runs of the garbage collector.
RunLoops(h, f0, len) ==
    /\ h[0] = f0
    /\ \A k \in 0 .. GcRuns - 1 : h[k + 1] = GcRun(h[k], len)
    /\ GcLoop(f0, len) = h[GcRuns]

\* The loop over the runs of the collector.
LEMMA RunLoop ==
    ASSUME NEW f0, NEW len
    PROVE  \E h : RunLoops(h, f0, len)
<1> DEFINE seq == [i \in 1 .. GcRuns |-> i]
           P(g) == g = [s \in SUBSET (1 .. GcRuns) |->
                      IF s = {} THEN f0 ELSE GcRun(g[s \ {Max(s)}], len)]
           it == CHOOSE g : P(g)
<1>1. PICK g : Iterates([op |-> "run", len |-> len], f0, seq, GcRuns, g)
  BY IterateAll, ObjectAssumption
<1>2. P(g)
  BY <1>1 DEF Iterates, Step
<1>3. P(it)
  BY <1>2
<1>4. GcLoop(f0, len) = it[1 .. GcRuns]
  <2>1. DOMAIN seq = 1 .. GcRuns
    OBVIOUS
  <2> QED BY <2>1 DEF GcLoop, FoldLeft, MapThenFoldSet
<1> DEFINE h == [k \in 0 .. GcRuns |-> it[1 .. k]]
<1> HIDE DEF it
<1>5. h[0] = f0
  <2>1. 1 .. 0 = {} /\ {} \in SUBSET (1 .. GcRuns) /\ 0 \in 0 .. GcRuns
    BY ObjectAssumption
  <2> QED BY <2>1, <1>3
<1>6. ASSUME NEW k \in 0 .. GcRuns - 1
      PROVE  h[k + 1] = GcRun(h[k], len)
  <2>1. UpToNext(k) /\ 1 .. k + 1 \in SUBSET (1 .. GcRuns)
    BY UpToNextAgain, ObjectAssumption
  <2>2. it[1 .. k + 1] = GcRun(it[1 .. k], len)
    BY <1>3, <2>1 DEF UpToNext
  <2>3. h[k + 1] = it[1 .. k + 1] /\ h[k] = it[1 .. k]
    BY ObjectAssumption
  <2> QED BY <2>2, <2>3
<1>7. h[GcRuns] = it[1 .. GcRuns]
  BY ObjectAssumption
<1> HIDE DEF h
<1>8. RunLoops(h, f0, len)
  BY <1>4, <1>5, <1>6, <1>7 DEF RunLoops
<1> QED BY <1>8

\* Page p is a data page of the group.
InGroup(f, p, o, x) == f.lu[p] = DataId(o) /\ IxSpan(f.page[p].span) = x

\* Entry and content of a page are unchanged.
SamePage(f, g, p) == g.lu[p] = f.lu[p] /\ g.page[p] = f.page[p]
\* The entry the cursor has just passed in block b is in use.
LastIsBusy(f, b) ==
    f.free_cursor[1] = b /\ f.free_cursor[2] > 0
    => IsBusy(f.lu[<<b, f.free_cursor[2] - 1>>])

\* After a move the entry the cursor has just passed is in use.
LEMMA ShiftedIsBusy ==
    ASSUME NEW f, NEW g, NEW src \in Page, NEW dst, Shifted(f, g, src, dst),
           IsBusy(f.lu[src]), NEW b
    PROVE  LastIsBusy(g, b)
<1>1. /\ dst \in Page /\ g.free_cursor = <<dst[1], dst[2] + 1>> /\ IsBusy(g.lu[dst])
  BY DEF Shifted
<1>2. dst = <<dst[1], dst[2]>> /\ dst[2] \in Nat
  BY <1>1, GeometryAssumption DEF Page, Block, Entry
<1>3. (dst[2] + 1) - 1 = dst[2]
  BY <1>2
<1> QED BY <1>1, <1>2, <1>3 DEF LastIsBusy

\* The pages of block b up to entry k that are in the group are moved.
GroupMoved(f0, f, b, o, x, k) ==
    /\ \A p \in Page : f0.lu[p] # FREE /\ ~InGroup(f0, p, o, x) => SamePage(f0, f, p)
    /\ \A p \in Page : InGroup(f0, p, o, x) => f.lu[p] = DELETED \/ SamePage(f0, f, p)
    /\ \A e \in Entry : e < k /\ InGroup(f0, <<b, e>>, o, x) => f.lu[<<b, e>>] = DELETED
    /\ LastIsBusy(f, b)

\* One more entry of the block has no member of the group.
LEMMA MemberMoved ==
    ASSUME NEW f0, NEW f, NEW g, NEW b \in Block, NEW o \in Obj, NEW x, NEW k \in Entry,
           GroupMoved(f0, f, b, o, x, k), NEW dst, InGroup(f, <<b, k>>, o, x),
           Shifted(f, g, <<b, k>>, dst)
    PROVE  GroupMoved(f0, g, b, o, x, k + 1)
<1> DEFINE src == <<b, k>>
<1>1. src \in Page /\ k \in Nat
  BY GeometryAssumption DEF Page, Entry
<1>2. DataId(o) # FREE /\ DataId(o) # DELETED /\ IsBusy(DataId(o)) /\ FREE # DELETED
  BY IdsOf, IdIsBusy, MarkAssumption
<1>3. /\ f.lu[dst] = FREE /\ dst # src /\ dst \in Page /\ g.lu[src] = DELETED
      /\ \A p \in Page \ {src, dst} : SamePage(f, g, p)
  BY DEF Shifted, SamePage
<1>4. f.lu[src] = DataId(o) /\ InGroup(f, src, o, x)
  BY DEF InGroup
<1>5. LastIsBusy(g, b)
  <2> HIDE DEF src
  <2>1. IsBusy(f.lu[src]) /\ Shifted(f, g, src, dst)
    BY <1>2, <1>4 DEF src
  <2> QED BY <1>1, <2>1, ShiftedIsBusy
<1>6. ASSUME NEW p \in Page, f0.lu[p] # FREE, ~InGroup(f0, p, o, x)
      PROVE  SamePage(f0, g, p)
  <2>1. SamePage(f0, f, p)
    BY <1>6 DEF GroupMoved
  <2>2. p # dst /\ p # src
    BY <1>3, <1>4, <1>6, <2>1 DEF SamePage, InGroup
  <2> QED BY <1>3, <2>1, <2>2 DEF SamePage
<1>7. ASSUME NEW p \in Page, InGroup(f0, p, o, x)
      PROVE  g.lu[p] = DELETED \/ SamePage(f0, g, p)
  <2>1. f.lu[p] = DELETED \/ SamePage(f0, f, p)
    BY <1>7 DEF GroupMoved
  <2>2. p # dst
    BY <1>2, <1>3, <1>7, <2>1 DEF SamePage, InGroup
  <2> QED BY <1>3, <2>1, <2>2 DEF SamePage
<1>8. ASSUME NEW e \in Entry, e < k + 1, InGroup(f0, <<b, e>>, o, x)
      PROVE  g.lu[<<b, e>>] = DELETED
  <2>1. CASE e = k
    BY <1>3, <2>1
  <2>2. CASE e # k
    <3>1. e < k /\ <<b, e>> \in Page
      BY <1>1, <1>8, <2>2, GeometryAssumption DEF Entry, Page
    <3>2. f.lu[<<b, e>>] = DELETED
      BY <1>8, <3>1 DEF GroupMoved
    <3>3. <<b, e>> # dst /\ <<b, e>> # src
      BY <1>2, <1>3, <2>2, <3>2
    <3> QED BY <1>3, <3>1, <3>2, <3>3 DEF SamePage
  <2> QED BY <2>1, <2>2
<1> QED BY <1>5, <1>6, <1>7, <1>8 DEF GroupMoved

\* After k entries: the group stands, the chips are alike, k entries moved.
OnGroup(f0, f, b, q, o, x, k) ==
    /\ Ok(f0) /\ Group(f, q, o, x) /\ Alike(View(f0), View(f))
    /\ Keeps(f0, f, OnClean \cup {"work"}) /\ GroupMoved(f0, f, b, o, x, k)

\* One step of the loop over a group.
LEMMA MemberRuns ==
    ASSUME NEW f0, NEW f, NEW b \in Block, NEW q, NEW o \in Obj, NEW x \in Nat,
           NEW k \in Entry, Ok(f) => OnGroup(f0, f, b, q, o, x, k),
           NEW g, g = MoveMember(f, <<b, k>>, DataId(o)), Ok(g)
    PROVE  OnGroup(f0, g, b, q, o, x, k + 1)
<1> DEFINE p == <<b, k>>
<1>0. p \in Page /\ k \in Nat
  BY GeometryAssumption DEF Page, Entry
<1>1. CASE ~Ok(f)
  BY <1>1 DEF MoveMember
<1>2. CASE Ok(f)
  <2>1. OnGroup(f0, f, b, q, o, x, k)
    BY <1>2
  <2>2. Group(f, q, o, x) /\ f.work.x = x
    <3>1. Group(f, q, o, x)
      BY <2>1 DEF OnGroup
    <3>2. f.work.x = x
      BY <3>1, GroupSpan
    <3> QED BY <3>1, <3>2
  <2>3. CASE InGroup(f, p, o, x)
    <3> HIDE DEF p
    <3>1. g = MoveData(f, p, f.page[p].span)
      BY <1>2, <2>2, <2>3 DEF MoveMember, InGroup, p
    <3>2. /\ Group(g, q, o, x) /\ Alike(View(f), View(g))
          /\ Keeps(f, g, OnClean \cup {"work"}) /\ Shifted(f, g, p, g.found)
      BY <1>0, <2>2, <2>3, <3>1, MoveDataRuns DEF InGroup
    <3>3. Alike(View(f0), View(g))
      <4>1. Alike(View(f0), View(f))
        BY <2>1 DEF OnGroup
      <4> QED BY <3>2, <4>1, AlikeOn
    <3>4. GroupMoved(f0, g, b, o, x, k + 1)
      BY <2>1, <2>3, <3>2, MemberMoved DEF OnGroup, p
    <3>5. Keeps(f0, g, OnClean \cup {"work"})
      BY <2>1, <3>2 DEF OnGroup, Keeps
    <3> QED BY <2>1, <3>2, <3>3, <3>4, <3>5 DEF OnGroup
  <2>4. CASE ~InGroup(f, p, o, x)
    <3>1. g = f
      BY <2>2, <2>4 DEF MoveMember, InGroup
    <3>2. ASSUME NEW e \in Entry, e < k + 1, InGroup(f0, <<b, e>>, o, x)
          PROVE  f.lu[<<b, e>>] = DELETED
      <4>1. CASE e = k
        <5>1. f.lu[p] = DELETED \/ SamePage(f0, f, p)
          BY <1>0, <2>1, <3>2, <4>1 DEF OnGroup, GroupMoved
        <5> QED BY <2>4, <3>2, <4>1, <5>1 DEF SamePage, InGroup
      <4>2. CASE e # k
        <5>1. e < k
          BY <1>0, <3>2, <4>2, GeometryAssumption DEF Entry
        <5> QED BY <2>1, <3>2, <5>1 DEF OnGroup, GroupMoved
      <4> QED BY <4>1, <4>2
    <3>3. GroupMoved(f0, f, b, o, x, k + 1)
      BY <2>1, <3>2 DEF OnGroup, GroupMoved
    <3> QED BY <2>1, <3>1, <3>3 DEF OnGroup
  <2> QED BY <2>3, <2>4
<1> QED BY <1>1, <1>2

\* The whole loop: no page of the group is left in the block.
LEMMA GroupRuns ==
    ASSUME NEW f0, NEW b \in Block, NEW q, NEW o \in Obj, NEW x \in Nat,
           Group(f0, q, o, x), LastIsBusy(f0, b),
           NEW g, g = MoveGroup(f0, b, DataId(o)), Ok(g)
    PROVE  OnGroup(f0, g, b, q, o, x, NE)
<1>1. PICK h : MemberLoops(h, f0, b, DataId(o))
  BY MemberLoop
<1> DEFINE K == {k \in Nat : Ok(h[k]) => OnGroup(f0, h[k], b, q, o, x, k)}
<1>2. 0 \in K
  <2>1. h[0] = f0
    BY <1>1 DEF MemberLoops
  <2>2. Alike(View(f0), View(f0))
    <3>1. OneOfEach(View(f0))
      BY DEF Group, Coherent
    <3> QED BY <3>1, AlikeSelf
  <2>3. GroupMoved(f0, f0, b, o, x, 0)
    <3>1. \A e \in Entry : ~(e < 0)
      BY GeometryAssumption DEF Entry
    <3> QED BY <3>1 DEF GroupMoved, SamePage
  <2>4. Keeps(f0, f0, OnClean \cup {"work"})
    BY DEF Keeps, Group, Shaped
  <2>5. Ok(f0) => OnGroup(f0, f0, b, q, o, x, 0)
    BY <2>2, <2>3, <2>4 DEF OnGroup
  <2> QED BY <2>1, <2>5
<1>3. ASSUME NEW k \in 0 .. NE - 1, k \in K PROVE k + 1 \in K
  <2>1. k \in Entry /\ k \in Nat /\ k + 1 \in Nat
    BY GeometryAssumption DEF Entry
  <2>2. h[k + 1] = MoveMember(h[k], <<b, k>>, DataId(o))
    BY <1>1 DEF MemberLoops
  <2>3. Ok(h[k]) => OnGroup(f0, h[k], b, q, o, x, k)
    BY <1>3
  <2>4. Ok(h[k + 1]) => OnGroup(f0, h[k + 1], b, q, o, x, k + 1)
    BY <2>1, <2>2, <2>3, MemberRuns
  <2> QED BY <2>1, <2>4
<1> HIDE DEF K
<1>4. NE \in K
  BY <1>2, <1>3, UpTo, GeometryAssumption
<1>5. g = h[NE]
  BY <1>1 DEF MemberLoops
<1> QED BY <1>4, <1>5 DEF K

----------------------------------------------------------------------------
(* The index page of the group is stored.                                  *)

\* What storing an index page and telling of it writes.
OnEvent == OnClean \cup {"work", "fds"}
\* The size told is that of the page told about, or none.
Tells(ev, size, pg) == size = 0 \/ (ev = "UPD" /\ size = SizeOf(pg))

\* Every descriptor of the object has handled the event. The size told is
\* that of the page told about, or none.
Heard(f, g, ev, o, x, pix, pg) ==
    \E size : /\ Tells(ev, size, pg)
              /\ g.fds = [d \in Fd |->
                    IF f.fds[d].obj = o THEN EventFor(f.fds[d], ev, x, pix, size, pg)
                    ELSE f.fds[d]]

\* An event is heard by every descriptor of the object.
LEMMA EventRuns ==
    ASSUME NEW f, State(f), NEW ev, NEW o, NEW x, NEW pix, NEW size, NEW pg,
           Tells(ev, size, pg), NEW g, g = Event(f, ev, o, x, pix, size, pg), Ok(g)
    PROVE  Ok(f) /\ Keeps(f, g, {"fds"}) /\ Heard(f, g, ev, o, x, pix, pg)
<1>1. Ok(f)
  BY DEF Event, Then
<1> DEFINE new == [d \in Fd |->
        IF f.fds[d].obj = o THEN EventFor(f.fds[d], ev, x, pix, size, pg)
        ELSE f.fds[d]]
<1>2. g = [f EXCEPT !.fds = new]
  BY <1>1 DEF Event, Then
<1>3. Heard(f, [f EXCEPT !.fds = new], ev, o, x, pix, pg)
  <2>1. [f EXCEPT !.fds = new].fds = new
    BY DEF State, Fields
  <2> QED BY <2>1 DEF Heard
<1> HIDE DEF new
<1>4. Keeps(f, g, {"fds"})
  BY <1>2 DEF Keeps, State, Fields
<1> QED BY <1>1, <1>2, <1>3, <1>4

\* What is said of a chip is said of its lookups and pages.
LEMMA SameChip ==
    ASSUME NEW v, NEW w, \A p \in Page : SamePage(v, w, p)
    PROVE  /\ Coherent(v) => Coherent(w)
           /\ Filled(v) => Filled(w)
           /\ \A u : Alike(u, v) => Alike(u, w)
           /\ Followed(v) /\ w.fds = v.fds => Followed(w)
<1>0. \A p \in Page : w.lu[p] = v.lu[p] /\ w.page[p] = v.page[p]
  BY DEF SamePage
<1>1. \A p \in Page : Whole(v, p) => Whole(w, p)
  BY <1>0 DEF Whole
<1>2. \A p, id, s : IsPageOf(w, p, id, s) <=> IsPageOf(v, p, id, s)
  BY <1>0 DEF IsPageOf
<1>3. AsListed(v) => AsListed(w)
  BY <1>0, <1>1 DEF AsListed
<1>4. OneOfEach(v) => OneOfEach(w)
  BY <1>0, <1>2 DEF OneOfEach
<1>5. RefersToItsData(v) => RefersToItsData(w)
  BY <1>0, <1>2 DEF RefersToItsData
<1>6. ItsDataIsReferred(v) => ItsDataIsReferred(w)
  BY <1>0, <1>2 DEF ItsDataIsReferred
<1>7. HasItsHeader(v) => HasItsHeader(w)
  BY <1>0, <1>2 DEF HasItsHeader
<1>8. Filled(v) => Filled(w)
  BY <1>0 DEF Filled
<1>9. ASSUME NEW u, Alike(u, v) PROVE Alike(u, w)
  <2>1. ASSUME NEW p, NEW q \in Page, SameContent(u, p, v, q) PROVE SameContent(u, p, w, q)
    BY <1>0, <2>1 DEF SameContent
  <2> QED BY <1>2, <1>9, <2>1 DEF Alike
<1>10. ASSUME Followed(v), w.fds = v.fds PROVE Followed(w)
  <2>1. \A fd : Follows(v, fd) => Follows(w, fd)
    BY <1>2 DEF Follows
  <2> QED BY <1>10, <2>1 DEF Followed
<1> QED BY <1>3, <1>4, <1>5, <1>6, <1>7, <1>8, <1>9, <1>10 DEF Coherent

\* m is f with the index page of the group moved and filled in.
Stored(f, m, q, o, x) ==
    /\ Ok(f) /\ Shaped(m) /\ Lined(m) /\ m.cleaning /\ Keeps(f, m, OnClean \cup {"work"})
    /\ Coherent(m) /\ Filled(m) /\ Alike(View(f), m)
    /\ Shifted(f, m, q, m.found) /\ m.page[m.found] = f.work.pg

\* Moving the index page ends the group: the chip itself is coherent.
LEMMA IndexStored ==
    ASSUME NEW f, NEW q, NEW o \in Obj, NEW x \in Nat, Group(f, q, o, x),
           NEW f1, Keeps(f, f1, {"work"}),
           NEW m, m = PageMove(f1, IndexId(o), q, f.work.pg), Ok(m)
    PROVE  Stored(f, m, q, o, x)
<1> DEFINE v == View(f)
           c == f.work.pg
           dst == m.found
<1>1. /\ v.lu = f.lu /\ v.page[q] = c
      /\ \A p \in Page : p # q => v.page[p] = f.page[p]
      /\ \A p \in Page : f.lu[p] = FREE => f.page[p] = Erased
  <2> HIDE DEF dst
  <2>1. v.lu = f.lu /\ v.page[q] = c /\ \A p \in Page : f.lu[p] = FREE => f.page[p] = Erased
    BY GroupFacts
  <2>2. \A p \in Page : p # q => v.page[p] = f.page[p]
    <3>1. f.work.pix = q /\ q \in Page /\ Shaped(f)
      BY GroupFacts DEF Group
    <3> QED BY <3>1, ViewIs
  <2> QED BY <2>1, <2>2
<1>2. /\ Shaped(f) /\ Lined(f) /\ f.cleaning /\ IsHeader(c) /\ q \in Page
      /\ f.lu[q] = IndexId(o) /\ f.page[q].span = x /\ c.span = x
      /\ Coherent(v) /\ Filled(v)
  BY DEF Group
<1> HIDE DEF v, c
<1>3. AsListed(v) /\ RefersToItsData(v)
  BY <1>2 DEF Coherent
<1>4. {"USED", "FINAL"} \subseteq c.flags
  <2>1. IsBusy(v.lu[q])
    BY <1>1, <1>2, IdsOf, IdIsBusy
  <2>2. Whole(v, q)
    BY <1>2, <1>3, <2>1, BusyIsWhole
  <2> QED BY <1>1, <2>2 DEF Whole, Valid
<1>5. /\ f1.lu = f.lu /\ f1.page = f.page /\ f1.free_cursor = f.free_cursor
      /\ f1.cleaning = f.cleaning /\ State(f1) /\ f1.res = f.res
  BY DEF Keeps, Fields
<1>6. Shaped(f1) /\ Lined(f1) /\ f1.cleaning
  BY <1>2, <1>5 DEF Shaped, Lined, Packed, AtCursor, NoneBelow
<1>7. IndexId(o) # FREE /\ IndexId(o) # DELETED /\ IsIndexId(IndexId(o))
  BY IdsOf, IdIsBusy
<1>8. /\ Ok(f1) /\ Shaped(m) /\ Lined(m) /\ Keeps(f1, m, OnClean)
      /\ MovedTo(f1, m, q, IndexId(o), Content(f1, q, c))
  <2>1. \A p \in Page : f1.lu[p] = FREE => f1.page[p] = Erased
    BY <1>1, <1>5
  <2>2. f1.lu[q] # FREE /\ m = PageMove(f1, IndexId(o), q, c)
    BY <1>2, <1>5, <1>7 DEF c
  <2> QED BY <1>2, <1>4, <1>6, <1>7, <2>1, <2>2, MoveRuns
<1>9. Content(f1, q, c) = c
  BY <1>4 DEF Content, Erased
<1>10. /\ MovedTo(f, m, q, IndexId(o), c) /\ Ok(f)
  <2>1. MovedTo(f1, m, q, IndexId(o), c)
    BY <1>8, <1>9
  <2> HIDE DEF c, dst
  <2>2. f1.lu = f.lu /\ f1.page = f.page
    BY <1>5
  <2>3. /\ m.found \in Page /\ m.found # q /\ f.lu[m.found] = FREE
        /\ NoneBelow(f1, m.found) /\ Takes(f1, m, m.found)
        /\ PageMoved(f1, m, q, m.found, IndexId(o), c)
    BY <2>1, <2>2 DEF MovedTo
  <2>4. NoneBelow(f, m.found)
    BY <2>2, <2>3 DEF NoneBelow
  <2>5. Takes(f, m, m.found)
    BY <2>2, <2>3 DEF Takes
  <2>6. PageMoved(f, m, q, m.found, IndexId(o), c)
    BY <2>2, <2>3 DEF PageMoved
  <2>7. Ok(f)
    BY <1>5, <1>8 DEF Ok
  <2> QED BY <2>3, <2>4, <2>5, <2>6, <2>7 DEF MovedTo
<1>11. Shifted(f, m, q, dst) /\ m.page[dst] = c
  <2>1. Shifted(f, m, q, dst)
    BY <1>2, <1>10, MoveShifts
  <2> QED BY <1>10, <2>1 DEF MovedTo, PageMoved
<1>12. Relocated(v, m, q, dst)
  <2>1. /\ dst \in Page /\ q # dst /\ f.lu[dst] = FREE
        /\ PageMoved(f, m, q, dst, v.lu[q], v.page[q])
    BY <1>1, <1>2, <1>10 DEF MovedTo
  <2>2. IsIndexId(v.lu[q])
    BY <1>1, <1>2, <1>7
  <2> QED BY <1>1, <1>2, <1>3, <2>1, <2>2, IndexMoves
<1>13. Coherent(m) /\ Filled(m) /\ Alike(v, m)
  BY <1>2, <1>12, RelocationKeeps
<1>14. Keeps(f, m, OnClean \cup {"work"})
  BY <1>8 DEF Keeps
<1>15. m.cleaning
  BY <1>2, <1>14 DEF Keeps, OnClean, Fields
<1> QED BY <1>8, <1>10, <1>11, <1>13, <1>14, <1>15 DEF Stored, v, c

\* The index page is stored, then the descriptors are told.
LEMMA StoreRuns ==
    ASSUME NEW f, NEW q, NEW o \in Obj, NEW x \in Nat, Group(f, q, o, x),
           NEW g, g = StoreGroup(f, o), Ok(g)
    PROVE  \E m : /\ Stored(f, m, q, o, x) /\ Keeps(m, g, {"fds"})
                  /\ Heard(f, g, "UPD", o, x, m.found, f.work.pg)
<1> DEFINE c == f.work.pg
<1>1. f.work.pix = q /\ f.work.x = x /\ State(f)
  BY GroupFacts DEF Group, Shaped
<1>2. Ok(f)
  BY DEF StoreGroup
<1>3. ASSUME NEW f1, Keeps(f, f1, {"work"}), NEW m, NEW size, Tells("UPD", size, c),
             m = PageMove(f1, IndexId(o), q, c), g = Event(m, "UPD", o, x, m.found, size, c)
      PROVE  \E n : /\ Stored(f, n, q, o, x) /\ Keeps(n, g, {"fds"})
                    /\ Heard(f, g, "UPD", o, x, n.found, c)
  <2> HIDE DEF c
  <2>1. Ok(m)
    BY <1>3 DEF Event, Then
  <2>2. Stored(f, m, q, o, x)
    BY <1>3, <2>1, IndexStored DEF c
  <2>3. State(m)
    BY <2>2 DEF Stored, Shaped
  <2>4. Keeps(m, g, {"fds"}) /\ Heard(m, g, "UPD", o, x, m.found, c)
    BY <1>3, <2>3, EventRuns
  <2>5. m.fds = f.fds
    BY <2>2 DEF Stored, Keeps, OnClean, Fields
  <2>6. Heard(f, g, "UPD", o, x, m.found, c)
    BY <2>4, <2>5 DEF Heard
  <2> QED BY <2>2, <2>4, <2>6
<1>4. CASE x # 0
  <2>1. g = Event(PageMove(f, IndexId(o), q, c), "UPD", o, x,
                  PageMove(f, IndexId(o), q, c).found, 0, c)
    BY <1>1, <1>2, <1>4 DEF StoreGroup, StoreIndexPage, EventFound
  <2>2. Keeps(f, f, {"work"}) /\ Tells("UPD", 0, c)
    BY <1>1 DEF Keeps, Tells
  <2> QED BY <1>3, <2>1, <2>2
<1>5. CASE x = 0
  <2>1. g = UpdateIndexHdr(f, NoFd, o, q, c, 0)
    BY <1>1, <1>2, <1>5 DEF StoreGroup
  <2>2. c # Erased
    <3>1. View(f).page[q] = c /\ View(f).lu = f.lu
      BY GroupFacts
    <3>2. AsListed(View(f)) /\ q \in Page /\ f.lu[q] = IndexId(o)
      BY DEF Group, Coherent
    <3>3. Whole(View(f), q)
      BY <3>1, <3>2, BusyIsWhole, IdsOf, IdIsBusy
    <3> QED BY <3>1, <3>3 DEF Whole, Valid, Erased
  <2> DEFINE chk == IF IsIndexPage(c, 0) THEN f ELSE Fail(f, "BAD_INDEX")
             f1 == [chk EXCEPT !.work.pg = c]
             m == PageMove(f1, IndexId(o), q, c)
  <2>3. Ok(chk)
    <3>1. g = IF ~Ok(chk) THEN chk
              ELSE HdrMoved(m, NoFd, o, c, "UPD")
      BY <2>1, <2>2 DEF UpdateIndexHdr
    <3> QED BY <3>1
  <2>4. chk = f
    BY <1>1, <1>2, <2>3 DEF Fail, Ok, State, Fields
  <2>5. g = Event(m, "UPD", o, 0, m.found, SizeOf(c), c)
    <3>1. g = HdrMoved(m, NoFd, o, c, "UPD")
      BY <2>1, <2>2, <2>3 DEF UpdateIndexHdr
    <3> HIDE DEF m
    <3> QED BY <3>1 DEF HdrMoved
  <2>6. Keeps(f, f1, {"work"}) /\ Tells("UPD", SizeOf(c), c)
    BY <1>1, <2>4 DEF Keeps, State, Fields, Tells
  <2> HIDE DEF f1
  <2> QED BY <1>3, <1>5, <2>5, <2>6
<1> QED BY <1>4, <1>5

----------------------------------------------------------------------------
(* The descriptors hear of it.                                             *)

\* An index map names the pages where the data is.
Shows(f, map, o) ==
    \A s \in DOMAIN map.buf : map.buf[s] # NoPix => IsPageOf(f, map.buf[s], DataId(o), s)
\* All pages but index page x of o, and its data pages if it is stored, are
\* where they were.
Remain(f, g, ev, o, x) ==
    \A p, id, s :
       /\ IsPageOf(f, p, id, s) /\ id \in ObjectIds
       /\ ~(id = IndexId(o) /\ s = x)
       /\ ~(ev = "UPD" /\ id = DataId(o) /\ IxSpan(s) = x)
       => IsPageOf(g, p, id, s)
\* The descriptors stay with their objects.
SameObjs(f, g) == \A d \in Fd : g.fds[d].obj = f.fds[d].obj

\* An event that tells the truth about an index page of o.
HeardRight(f, g, ev, o, x, pix, pg) ==
    /\ ev \in {"UPD", "MOV"} /\ Remain(f, g, ev, o, x) /\ Alike(f, g)
    /\ IsPageOf(g, pix, IndexId(o), x)
    /\ ev = "UPD" => g.page[pix] = pg /\ Coherent(g) /\ Filled(g)

\* An index map that was right is right after the event.
LEMMA MapHears ==
    ASSUME NEW f, NEW g, NEW o \in Obj, NEW x \in Nat, NEW pix, NEW pg,
           HeardRight(f, g, "UPD", o, x, pix, pg),
           NEW map, IsMap(map), Shows(f, map, o), NEW new, new = UpdateMap(map, x, pg)
    PROVE  IsMap(new) /\ Shows(g, new, o)
<1>0. /\ map = [start |-> map.start, end |-> map.end, buf |-> map.buf]
      /\ map.start \in Nat /\ map.end \in Int
      /\ DOMAIN map.buf \subseteq map.start .. map.end
      /\ \A s \in DOMAIN map.buf : map.buf[s] # NoPix =>
            IsPageOf(f, map.buf[s], DataId(o), s)
  BY DEF IsMap, Shows
<1> DEFINE S == {s \in map.start .. map.end : IxSpan(s) = x}
           told == {s \in S : \A t \in S : t <= s => RefAt(pg, t) # NoPix}
           buf == [s \in told \cup DOMAIN map.buf |->
                     IF s \in told THEN RefAt(pg, s) ELSE map.buf[s]]
<1>1. new = [start |-> map.start, end |-> map.end, buf |-> buf]
  <2>1. new = [map EXCEPT !.buf = buf]
    BY DEF UpdateMap
  <2> HIDE DEF buf
  <2> QED BY <1>0, <2>1
<1>2. /\ IsPageOf(g, pix, IndexId(o), x) /\ g.page[pix] = pg
      /\ Coherent(g) /\ Filled(g) /\ Alike(f, g) /\ Remain(f, g, "UPD", o, x)
  BY DEF HeardRight
<1>3. pix \in Page /\ g.lu[pix] = IndexId(o) /\ pg.span = x
  BY <1>2 DEF IsPageOf
<1>4. /\ IsIndexId(g.lu[pix]) /\ g.lu[pix].obj = o /\ DataId(o) \in ObjectIds
      /\ DataId(o) # IndexId(o)
  BY <1>3, IdsOf
<1>5. S \subseteq Nat /\ S \subseteq SpansOf(x) /\ told \subseteq S
  <2>1. S \subseteq Nat
    BY <1>0
  <2>2. \A s \in S : s \in SpansOf(x)
    BY <2>1, SpansOfIndex
  <2> QED BY <2>1, <2>2
<1>6. ASSUME NEW s \in told, RefAt(pg, s) # NoPix
      PROVE  IsPageOf(g, RefAt(pg, s), DataId(o), s)
  <2>1. s \in SpansOf(g.page[pix].span)
    BY <1>2, <1>3, <1>5
  <2>2. RefersToItsData(g)
    BY <1>2 DEF Coherent
  <2> QED BY <1>2, <1>3, <1>4, <1>6, <2>1, <2>2 DEF RefersToItsData
<1>7. ASSUME NEW s \in DOMAIN map.buf, s \notin told, map.buf[s] # NoPix
      PROVE  IsPageOf(g, map.buf[s], DataId(o), s)
  <2>1. IsPageOf(f, map.buf[s], DataId(o), s) /\ s \in map.start .. map.end
    BY <1>0, <1>7
  <2>2. CASE IxSpan(s) # x
    BY <1>2, <1>4, <2>1, <2>2 DEF Remain
  <2>3. CASE IxSpan(s) = x
    <3>1. s \in S /\ s \in Nat /\ s \in SpansOf(x)
      BY <1>5, <2>1, <2>3
    <3>2. map.buf[s] \in Page
      BY <2>1 DEF IsPageOf
    <3>3. PICK p \in Page : IsPageOf(g, p, DataId(o), s)
      BY <1>2, <1>4, <2>1, <3>1, <3>2 DEF Alike
    <3>4. g.lu[p] = DataId(o) /\ g.page[p].span = s /\ IsDataId(g.lu[p]) /\ g.lu[p].obj = o
      BY <3>3, IdsOf DEF IsPageOf
    <3>5. PICK r \in Page : IsPageOf(g, r, IndexId(o), x) /\ RefAt(g.page[r], s) = p
      <4>1. ItsDataIsReferred(g)
        BY <1>2 DEF Coherent
      <4> QED BY <2>3, <3>4, <4>1 DEF ItsDataIsReferred
    <3>6. r = pix
      <4>1. OneOfEach(g)
        BY <1>2 DEF Coherent
      <4>2. g.lu[r] = IndexId(o) /\ g.page[r].span = x /\ IsBusy(g.lu[r])
        BY <3>5, IdsOf, IdIsBusy DEF IsPageOf
      <4> QED BY <1>2, <1>3, <4>1, <4>2 DEF OneOfEach
    <3>7. RefAt(pg, s) # NoPix
      BY <1>2, <3>5, <3>6, ObjectAssumption
    <3>8. ASSUME NEW t \in S, t <= s PROVE RefAt(pg, t) # NoPix
      <4>1. t \in SpansOf(x)
        BY <1>5
      <4> QED BY <1>2, <1>3, <1>4, <3>1, <3>7, <3>8, <4>1 DEF Filled
    <3>9. s \in told
      BY <3>1, <3>8
    <3> QED BY <1>7, <3>9
  <2> QED BY <2>2, <2>3
<1>8. DOMAIN buf = told \cup DOMAIN map.buf /\ told \subseteq map.start .. map.end
  OBVIOUS
<1>9. ASSUME NEW s \in DOMAIN buf, buf[s] # NoPix
      PROVE  IsPageOf(g, buf[s], DataId(o), s)
  <2>1. CASE s \in told
    <3>1. buf[s] = RefAt(pg, s)
      BY <2>1
    <3> QED BY <1>6, <1>9, <2>1, <3>1
  <2>2. CASE s \notin told
    <3>1. buf[s] = map.buf[s] /\ s \in DOMAIN map.buf
      BY <1>8, <1>9, <2>2
    <3> QED BY <1>7, <1>9, <2>2, <3>1
  <2> QED BY <2>1, <2>2
<1> HIDE DEF buf, told, S
<1>10. new.start = map.start /\ new.end = map.end /\ new.buf = buf
  BY <1>1
<1> QED BY <1>0, <1>1, <1>8, <1>9, <1>10 DEF IsMap, Shows

\* So is a descriptor that follows its object.
LEMMA HandleHears ==
    ASSUME NEW f, NEW g, NEW o \in Obj, NEW x \in Nat, NEW pix, NEW pg, NEW ev,
           HeardRight(f, g, ev, o, x, pix, pg), NEW fd, IsHandle(fd), fd.obj = o,
           Follows(f, fd), NEW size, NEW new, new = EventFor(fd, ev, x, pix, size, pg)
    PROVE  IsHandle(new) /\ Follows(g, new) /\ new.obj = o
<1>1. ev \in {"UPD", "MOV"} /\ IsPageOf(g, pix, IndexId(o), x) /\ Remain(f, g, ev, o, x)
  BY DEF HeardRight
<1> DEFINE map == IF ev = "UPD" THEN UpdateMap(fd.map, x, pg) ELSE fd.map
<1>2. fd = [obj |-> o, hdr |-> fd.hdr, size |-> fd.size, cpix |-> fd.cpix,
            cspix |-> fd.cspix, map |-> fd.map]
  BY DEF IsHandle
<1>3. /\ new.obj = o /\ new.cspix = fd.cspix /\ new.map = map
      /\ new.hdr = IF x = 0 THEN pix ELSE fd.hdr
      /\ new.cpix = IF fd.cspix # x THEN fd.cpix ELSE pix
      /\ new = [obj |-> new.obj, hdr |-> new.hdr, size |-> new.size, cpix |-> new.cpix,
                cspix |-> new.cspix, map |-> new.map]
  <2>1. new = [fd EXCEPT
        !.hdr   = IF x = 0 THEN pix ELSE @,
        !.size  = IF x = 0 /\ size # 0 THEN size ELSE @,
        !.cpix  = IF fd.cspix # x THEN @ ELSE pix,
        !.map   = IF ev = "UPD" THEN UpdateMap(@, x, pg) ELSE @]
    BY <1>1 DEF EventFor
  <2> QED BY <1>2, <2>1
<1>4. /\ IsPageOf(f, fd.hdr, IndexId(o), 0)
      /\ fd.cpix # NoPix => IsPageOf(f, fd.cpix, IndexId(o), fd.cspix)
      /\ Shows(f, fd.map, o)
  BY DEF Follows, Shows
<1>5. IsMap(fd.map)
  BY DEF IsHandle
<1>6. IndexId(o) \in ObjectIds /\ DataId(o) \in ObjectIds /\ IndexId(o) # DataId(o)
  BY IdsOf
<1>7. IsPageOf(g, new.hdr, IndexId(o), 0)
  BY <1>1, <1>3, <1>4, <1>6 DEF Remain
<1>8. new.cpix # NoPix => IsPageOf(g, new.cpix, IndexId(o), new.cspix)
  BY <1>1, <1>3, <1>4, <1>6 DEF Remain
<1>9. IsMap(map) /\ Shows(g, map, o)
  <2>1. CASE ev = "UPD"
    <3>1. map = UpdateMap(fd.map, x, pg) /\ HeardRight(f, g, "UPD", o, x, pix, pg)
      BY <2>1
    <3> QED BY <1>4, <1>5, <3>1, MapHears
  <2>2. CASE ev # "UPD"
    <3>1. map = fd.map
      BY <2>2
    <3>2. Shows(g, fd.map, o)
      BY <1>1, <1>4, <1>6, <2>2 DEF Remain, Shows
    <3> QED BY <1>5, <3>1, <3>2
  <2> QED BY <2>1, <2>2
<1> HIDE DEF map
<1>10. Follows(g, new)
  BY <1>3, <1>7, <1>8, <1>9 DEF Follows, Shows
<1>11. IsHandle(new)
  BY <1>3, <1>9 DEF IsHandle
<1> QED BY <1>3, <1>10, <1>11

\* What is on neither of two like chips; what both have.
LEMMA AlikeFacts ==
    ASSUME NEW f, NEW g, Alike(f, g), NEW o \in Obj
    PROVE  /\ \A s \in Nat : NoPage(f, DataId(o), s)
                             => NoPage(g, DataId(o), s)
           /\ \A s \in Nat : NoPage(f, IndexId(o), s)
                             => NoPage(g, IndexId(o), s)
           /\ \A s \in Nat : \A p, q :
                 IsPageOf(f, p, IndexId(o), s) /\ IsPageOf(g, q, IndexId(o), s)
                 => SizeOf(f.page[p]) = SizeOf(g.page[q])
<1>1. DataId(o) \in ObjectIds /\ IndexId(o) \in ObjectIds /\ IsIndexId(IndexId(o))
  BY IdsOf
<1>2. ASSUME NEW id \in ObjectIds, NEW s \in Nat, NoPage(f, id, s)
      PROVE  NoPage(g, id, s)
  BY <1>2 DEF Alike, NoPage
<1>3. ASSUME NEW s \in Nat, NEW p, NEW q, IsPageOf(f, p, IndexId(o), s),
             IsPageOf(g, q, IndexId(o), s)
      PROVE  SizeOf(f.page[p]) = SizeOf(g.page[q])
  <2>1. SameContent(f, p, g, q)
    BY <1>1, <1>3 DEF Alike, IsPageOf
  <2> QED BY <1>1, <1>3, <2>1 DEF SameContent, IsPageOf
<1> QED BY <1>1, <1>2, <1>3

\* A size that was known is known on a chip alike.
LEMMA StillKnows ==
    ASSUME NEW f, NEW g, Alike(f, g), NEW fd, IsHandle(fd), fd.obj \in Obj,
           Follows(f, fd), Follows(g, fd), Knows(f, fd)
    PROVE  Knows(g, fd)
<1>1. MapKnows(g, fd.map, fd.obj)
  <2>1. DOMAIN fd.map.buf \subseteq Nat
    BY DEF IsHandle, IsMap
  <2> QED BY <2>1, AlikeFacts DEF Knows, MapKnows
<1>2. fd.cpix = NoPix => NoPage(g, IndexId(fd.obj), fd.cspix)
  BY AlikeFacts DEF Knows, IsHandle
<1>3. SizeOf(f.page[fd.hdr]) = SizeOf(g.page[fd.hdr])
  <2>1. IsPageOf(f, fd.hdr, IndexId(fd.obj), 0) /\ IsPageOf(g, fd.hdr, IndexId(fd.obj), 0)
    BY DEF Follows
  <2> QED BY <2>1, AlikeFacts
<1> QED BY <1>1, <1>2, <1>3 DEF Knows

\* So for every descriptor.
LEMMA KnownStays ==
    ASSUME NEW f, NEW g, Alike(f, g), g.fds = f.fds, Handled(f), Followed(f), Followed(g),
           Known(f)
    PROVE  Known(g)
<1> SUFFICES ASSUME NEW d \in Fd, g.fds[d].obj # NoObj PROVE Knows(g, g.fds[d])
  BY DEF Known
<1> DEFINE fd == f.fds[d]
<1>1. /\ g.fds[d] = fd /\ IsHandle(fd) /\ Follows(f, fd) /\ Follows(g, fd) /\ Knows(f, fd)
      /\ fd.obj # NoObj
  BY DEF Handled, Followed, Known
<1>2. fd.obj \in Obj
  BY <1>1 DEF IsHandle
<1> HIDE DEF fd
<1> QED BY <1>1, <1>2, StillKnows

\* And for one that hears an event.
LEMMA HandleKnows ==
    ASSUME NEW f, NEW g, NEW o \in Obj, NEW x \in Nat, NEW pix, NEW pg, NEW ev,
           HeardRight(f, g, ev, o, x, pix, pg), NEW fd, IsHandle(fd), fd.obj = o,
           Follows(f, fd), Knows(f, fd), NEW size, Tells(ev, size, pg),
           NEW new, new = EventFor(fd, ev, x, pix, size, pg), Follows(g, new)
    PROVE  Knows(g, new)
<1>1. /\ ev \in {"UPD", "MOV"} /\ IsPageOf(g, pix, IndexId(o), x) /\ Alike(f, g)
      /\ ev = "UPD" => g.page[pix] = pg
      /\ pix # NoPix
  BY ObjectAssumption DEF HeardRight, IsPageOf
<1> DEFINE map == IF ev = "UPD" THEN UpdateMap(fd.map, x, pg) ELSE fd.map
<1>2. fd = [obj |-> o, hdr |-> fd.hdr, size |-> fd.size, cpix |-> fd.cpix,
            cspix |-> fd.cspix, map |-> fd.map]
  BY DEF IsHandle
<1>3. /\ new.obj = o /\ new.cspix = fd.cspix /\ new.map = map
      /\ new.hdr = IF x = 0 THEN pix ELSE fd.hdr
      /\ new.size = IF x = 0 /\ size # 0 THEN size ELSE fd.size
      /\ new.cpix = IF fd.cspix # x THEN fd.cpix ELSE pix
  <2>1. new = [fd EXCEPT
        !.hdr   = IF x = 0 THEN pix ELSE @,
        !.size  = IF x = 0 /\ size # 0 THEN size ELSE @,
        !.cpix  = IF fd.cspix # x THEN @ ELSE pix,
        !.map   = IF ev = "UPD" THEN UpdateMap(@, x, pg) ELSE @]
    BY <1>1 DEF EventFor
  <2> QED BY <1>2, <2>1
<1>4. MapKnows(g, fd.map, o)
  <2>1. DOMAIN fd.map.buf \subseteq Nat
    BY DEF IsHandle, IsMap
  <2> QED BY <1>1, <2>1, AlikeFacts DEF Knows, MapKnows
<1>5. MapKnows(g, map, o)
  <2>1. CASE ev = "UPD"
    <3> DEFINE old == fd.map
               S == {s \in old.start .. old.end : IxSpan(s) = x}
               told == {s \in S : \A t \in S : t <= s => RefAt(pg, t) # NoPix}
               buf == [s \in told \cup DOMAIN old.buf |->
                         IF s \in told THEN RefAt(pg, s) ELSE old.buf[s]]
    <3>1. map.buf = buf
      <4>1. map = [old EXCEPT !.buf = buf]
        BY <2>1 DEF UpdateMap
      <4>2. old = [start |-> old.start, end |-> old.end, buf |-> old.buf]
        BY DEF IsHandle, IsMap
      <4> HIDE DEF old, buf
      <4> QED BY <4>1, <4>2
    <3>2. \A s \in told : RefAt(pg, s) # NoPix
      <4>1. \A s \in S : s <= s
        BY DEF IsHandle, IsMap
      <4> QED BY <4>1
    <3>3. ASSUME NEW s \in DOMAIN buf, buf[s] = NoPix
          PROVE  s \in DOMAIN old.buf /\ old.buf[s] = NoPix
      BY <3>2, <3>3
    <3> HIDE DEF map, buf, told
    <3> QED BY <1>4, <3>1, <3>3 DEF MapKnows
  <2>2. CASE ev # "UPD"
    BY <1>4, <2>2
  <2> QED BY <2>1, <2>2
<1> HIDE DEF map
<1>6. new.cpix = NoPix => NoPage(g, IndexId(o), new.cspix)
  <2>1. fd.cspix \in Nat /\ (fd.cpix = NoPix => NoPage(f, IndexId(o), fd.cspix))
    BY DEF IsHandle, Knows
  <2> QED BY <1>1, <1>3, <2>1, AlikeFacts
<1>7. Len0(new.size) = Len0(SizeOf(g.page[new.hdr]))
  <2>1. IsPageOf(f, fd.hdr, IndexId(o), 0) /\ IsPageOf(g, new.hdr, IndexId(o), 0)
    BY <1>3 DEF Follows
  <2>2. SizeOf(f.page[fd.hdr]) = SizeOf(g.page[new.hdr])
    BY <1>1, <2>1, AlikeFacts
  <2>3. CASE new.size = fd.size
    BY <2>2, <2>3 DEF Knows
  <2>4. CASE new.size # fd.size
    <3>1. x = 0 /\ size # 0 /\ new.size = size /\ new.hdr = pix
      BY <1>3, <2>4
    <3>2. size = SizeOf(g.page[pix])
      BY <1>1, <3>1 DEF Tells
    <3> QED BY <3>1, <3>2
  <2> QED BY <2>3, <2>4
<1> QED BY <1>3, <1>5, <1>6, <1>7 DEF Knows

\* The descriptors of other objects need not hear.
LEMMA AllHear ==
    ASSUME NEW f, NEW g, NEW o \in Obj, NEW x \in Nat, NEW pix, NEW pg, NEW ev,
           HeardRight(f, g, ev, o, x, pix, pg), Heard(f, g, ev, o, x, pix, pg),
           Handled(f), Followed(f), Known(f)
    PROVE  Handled(g) /\ Followed(g) /\ Known(g) /\ SameObjs(f, g)
<1>1. PICK size : /\ Tells(ev, size, pg)
                  /\ g.fds = [d \in Fd |->
                        IF f.fds[d].obj = o THEN EventFor(f.fds[d], ev, x, pix, size, pg)
                        ELSE f.fds[d]]
  BY DEF Heard
<1>2. ASSUME NEW d \in Fd
      PROVE  /\ IsHandle(g.fds[d]) /\ g.fds[d].obj = f.fds[d].obj
             /\ g.fds[d].obj # NoObj => Follows(g, g.fds[d]) /\ Knows(g, g.fds[d])
  <2>1. /\ IsHandle(f.fds[d])
        /\ f.fds[d].obj # NoObj => Follows(f, f.fds[d]) /\ Knows(f, f.fds[d])
    BY DEF Handled, Followed, Known
  <2>2. CASE f.fds[d].obj = o
    <3>1. g.fds[d] = EventFor(f.fds[d], ev, x, pix, size, pg) /\ o # NoObj
      BY <1>1, <2>2, ObjectAssumption
    <3>2. IsHandle(g.fds[d]) /\ Follows(g, g.fds[d]) /\ g.fds[d].obj = o
      BY <2>1, <2>2, <3>1, HandleHears
    <3>3. Knows(g, g.fds[d])
      BY <1>1, <2>1, <2>2, <3>1, <3>2, HandleKnows
    <3> QED BY <2>2, <3>2, <3>3
  <2>3. CASE f.fds[d].obj # o
    <3> DEFINE fd == f.fds[d]
    <3>1. g.fds[d] = fd
      BY <1>1, <2>3
    <3>2. ASSUME fd.obj # NoObj PROVE Follows(g, fd)
      <4>1. Remain(f, g, ev, o, x) /\ fd.obj \in Obj /\ Follows(f, fd)
        BY <2>1, <3>2 DEF HeardRight, IsHandle
      <4>2. /\ IndexId(fd.obj) \in ObjectIds /\ DataId(fd.obj) \in ObjectIds
            /\ IndexId(fd.obj) # IndexId(o) /\ DataId(fd.obj) # DataId(o)
            /\ IndexId(fd.obj) # DataId(o) /\ DataId(fd.obj) # IndexId(o)
        <5>1. fd.obj # o /\ fd.obj \in Obj
          BY <2>3, <4>1
        <5> HIDE DEF fd
        <5> QED BY <5>1, IdsOf
      <4>3. \A p, s : IsPageOf(f, p, IndexId(fd.obj), s) => IsPageOf(g, p, IndexId(fd.obj), s)
        BY <4>1, <4>2 DEF Remain
      <4>4. \A p, s : IsPageOf(f, p, DataId(fd.obj), s) => IsPageOf(g, p, DataId(fd.obj), s)
        BY <4>1, <4>2 DEF Remain
      <4> HIDE DEF fd
      <4> QED BY <4>1, <4>3, <4>4 DEF Follows
    <3>3. ASSUME fd.obj # NoObj PROVE Knows(g, fd)
      <4>1. /\ Alike(f, g) /\ fd.obj \in Obj /\ Follows(f, fd) /\ Knows(f, fd)
            /\ IsHandle(fd) /\ Follows(g, fd)
        BY <2>1, <3>2, <3>3 DEF HeardRight, IsHandle
      <4> HIDE DEF fd
      <4> QED BY <4>1, StillKnows
    <3> QED BY <2>1, <3>1, <3>2, <3>3
  <2> QED BY <2>2, <2>3
<1>3. DOMAIN g.fds = Fd
  BY <1>1
<1>4. Handled(g) /\ Followed(g) /\ Known(g)
  BY <1>2, <1>3 DEF Handled, Followed, Known
<1> QED BY <1>2, <1>4 DEF SameObjs

----------------------------------------------------------------------------
(* A block is cleaned.                                                     *)

\* The first page of a set that a visit meets is of the set.
LEMMA FirstFromIsIn ==
    ASSUME NEW c, NEW S \in SUBSET Page, S # {}
    PROVE  FirstFrom(c, S) \in S
<1> DEFINE ahead == {p \in S : ~Before(p, c)}
           T == IF ahead # {} THEN ahead ELSE S
<1>1. FirstFrom(c, S) = First(T)
  BY DEF FirstFrom
<1>2. T \in SUBSET Page /\ T # {} /\ T \subseteq S
  OBVIOUS
<1> HIDE DEF T
<1> QED BY <1>1, <1>2, FirstInSet

\* An index page of an object is found, and loaded.
Loaded(f, g, q, x) ==
    /\ Ok(g) /\ Keeps(f, g, {"cursor", "pix", "work"})
    /\ g.work = [pg |-> f.page[q], pix |-> q, x |-> x]

\* The search by id and span finds the one page there is and loads it.
LEMMA IndexIsFound ==
    ASSUME NEW f, Shaped(f), Ok(f), AsListed(f), OneOfEach(f), NEW o \in Obj,
           NEW x, NEW q \in Page, IsPageOf(f, q, IndexId(o), x),
           NEW l, l = FindIdSpan(f, IndexId(o), x, NoPix)
    PROVE  /\ Ok(l) /\ l.pix = q /\ Keeps(f, l, {"cursor", "pix"})
           /\ Loaded(f, LoadFound(l, x), q, x)
<1> DEFINE S == Matches(f, IndexId(o), x, NoPix)
<1>1. f.lu[q] = IndexId(o) /\ f.page[q].span = x
  BY DEF IsPageOf
<1>2. Whole(f, q) /\ IsIndexId(f.lu[q]) /\ IsBusy(f.lu[q])
  <2>1. IsIndexId(f.lu[q]) /\ IsBusy(f.lu[q])
    BY <1>1, IdsOf, IdIsBusy
  <2> QED BY <2>1, BusyIsWhole
<1>3. q \in S
  BY <1>1, <1>2, ObjectAssumption DEF Matches, Whole
<1>4. ASSUME NEW p \in S PROVE p = q
  <2>1. p \in Page /\ IsPageOf(f, p, f.lu[q], f.page[q].span)
    <3>1. p \in Page /\ f.lu[p] = IndexId(o) /\ f.page[p].span = x
      BY DEF Matches
    <3> QED BY <1>1, <3>1 DEF IsPageOf
  <2> QED BY <1>2, <2>1 DEF OneOfEach
<1>5. FirstFrom(f.cursor, S) = q
  <2>1. S \in SUBSET Page /\ S # {}
    BY <1>3 DEF Matches
  <2> HIDE DEF S
  <2> QED BY <1>4, <2>1, FirstFromIsIn
<1>6. l = [f EXCEPT !.cursor = q, !.pix = q]
  BY <1>3, <1>5 DEF FindIdSpan
<1>7. Ok(l) /\ l.pix = q /\ Keeps(f, l, {"cursor", "pix"}) /\ l.page = f.page
  BY <1>6 DEF Shaped, Keeps, State, Fields, Ok
<1>8. CheckIndex(l, q, x) = l
  BY <1>1, <1>2, <1>7 DEF CheckIndex, IsIndexPage, Whole
<1>9. LoadFound(l, x) = [l EXCEPT !.work = [pg |-> f.page[q], pix |-> q, x |-> x]]
  BY <1>7, <1>8 DEF LoadFound, Load, Then
<1>10. Loaded(f, LoadFound(l, x), q, x)
  BY <1>7, <1>9 DEF Loaded, Keeps, State, Fields, Ok
<1> QED BY <1>7, <1>10

\* What cleaning a block writes before it is erased.
Cleans == OnEvent \cup {"cursor", "pix"}

\* The chip while a block is cleaned: sound, and like it was before.
Cleaning(f0, f, b) ==
    /\ Ok(f0) /\ Sound(f) /\ f.cleaning /\ Alike(f0, f) /\ Keeps(f0, f, Cleans)
    /\ LastIsBusy(f, b) /\ SameObjs(f0, f)

\* The first k entries of the block hold no data page.
DataGone(f, b, k) == \A e \in Entry : e < k => ~IsDataId(f.lu[<<b, e>>])

\* The index page of a group is loaded.
LEMMA GroupIsLoaded ==
    ASSUME NEW f, Sound(f), f.cleaning, NEW o \in Obj, NEW x \in Nat, NEW q \in Page,
           IsPageOf(f, q, IndexId(o), x), NEW g, Loaded(f, g, q, x)
    PROVE  /\ Group(g, q, o, x) /\ Alike(f, View(g))
           /\ g.lu = f.lu /\ g.page = f.page /\ g.fds = f.fds
<1>1. /\ g.lu = f.lu /\ g.page = f.page /\ g.fds = f.fds /\ State(g)
      /\ g.cleaning = f.cleaning /\ g.free_cursor = f.free_cursor
      /\ g.work = [pg |-> f.page[q], pix |-> q, x |-> x]
  BY DEF Loaded, Keeps, Fields
<1>2. /\ Shaped(f) /\ Lined(f) /\ Coherent(f) /\ Filled(f)
      /\ f.lu[q] = IndexId(o) /\ f.page[q].span = x
  BY DEF Sound, IsPageOf
<1>3. Shaped(g) /\ Lined(g)
  BY <1>1, <1>2 DEF Shaped, Lined, Packed, AtCursor, NoneBelow
<1>4. g.work.pg = f.page[q] /\ g.work.pix = q /\ g.work.x = x
  BY <1>1
<1>5. \A p \in Page : SamePage(f, View(g), p)
  <2>1. g.work.pix \in Page
    BY <1>4
  <2> QED BY <1>1, <1>3, <1>4, <2>1, ViewIs DEF SamePage
<1>6. Coherent(View(g)) /\ Filled(View(g)) /\ Alike(f, View(g))
  <2>1. Alike(f, f)
    BY <1>2, AlikeSelf DEF Coherent
  <2> QED BY <1>2, <1>5, <2>1, SameChip
<1>7. IsHeader(g.work.pg)
  BY <1>2, <1>4 DEF Shaped
<1> QED BY <1>1, <1>2, <1>3, <1>4, <1>6, <1>7 DEF Group

\* The data page at entry k, with its group, is moved out of the way.
LEMMA DataPageOf ==
    ASSUME NEW f, Coherent(f), NEW p \in Page, IsDataId(f.lu[p])
    PROVE  \E o \in Obj, q \in Page :
              /\ f.lu[p] = DataId(o) /\ ToIndex(f.lu[p]) = IndexId(o)
              /\ IxSpan(f.page[p].span) \in Nat
              /\ IsPageOf(f, q, IndexId(o), IxSpan(f.page[p].span))
<1>1. AsListed(f) /\ ItsDataIsReferred(f)
  BY DEF Coherent
<1>2. PICK o \in Obj : f.lu[p] = DataId(o)
  BY <1>1, BusyIsWhole DEF IsDataId, IsIndexId
<1>3. IxSpan(f.page[p].span) \in Nat
  <2>1. f.page[p].span \in Nat
    BY <1>1, BusyIsWhole DEF IsDataId, Whole
  <2> QED BY <2>1, SpansOfIndex
<1>4. PICK q \in Page : IsPageOf(f, q, IndexId(f.lu[p].obj), IxSpan(f.page[p].span))
  BY <1>1 DEF ItsDataIsReferred
<1>5. ToIndex(DataId(o)) = IndexId(o)
  <2>1. DataId(o) # FREE
    BY IdsOf, IdIsBusy
  <2> QED BY <2>1 DEF ToIndex, DataId, IndexId
<1> QED BY <1>2, <1>3, <1>4, <1>5, IdsOf

\* One step over the entries of the block: its data page leaves with its group.
LEMMA CleanDataRuns ==
    ASSUME NEW f0, NEW f, NEW b \in Block, NEW k \in Entry,
           Ok(f) => Cleaning(f0, f, b) /\ DataGone(f, b, k),
           NEW g, g = CleanData(f, b, k), Ok(g)
    PROVE  Cleaning(f0, g, b) /\ DataGone(g, b, k + 1)
<1> DEFINE p == <<b, k>>
           x == IxSpan(f.page[p].span)
<1>0. p \in Page /\ k \in Nat
  BY GeometryAssumption DEF Page, Entry
<1>1. Ok(f)
  BY DEF CleanData
<1>2. Cleaning(f0, f, b) /\ DataGone(f, b, k)
  BY <1>1
<1>3. /\ Shaped(f) /\ Lined(f) /\ Coherent(f) /\ Filled(f)
      /\ Handled(f) /\ Followed(f) /\ Known(f) /\ f.cleaning
  BY <1>2 DEF Cleaning, Sound
<1>4. CASE ~IsDataId(f.lu[p])
  <2>1. g = f
    BY <1>4 DEF CleanData
  <2>2. ASSUME NEW e \in Entry, e < k + 1 PROVE ~IsDataId(f.lu[<<b, e>>])
    <3>1. e < k \/ e = k
      BY <1>0, <2>2, GeometryAssumption DEF Entry
    <3> QED BY <1>2, <1>4, <3>1 DEF DataGone
  <2> QED BY <1>2, <2>1, <2>2 DEF DataGone
<1>5. CASE IsDataId(f.lu[p])
  <2>1. PICK o \in Obj, q \in Page :
              /\ f.lu[p] = DataId(o) /\ ToIndex(f.lu[p]) = IndexId(o)
              /\ x \in Nat /\ IsPageOf(f, q, IndexId(o), x)
    <3> HIDE DEF p
    <3> QED BY <1>0, <1>3, <1>5, DataPageOf
  <2> DEFINE l == FindIdSpan(f, IndexId(o), x, NoPix)
             f1 == LoadFound(l, x)
             h == MoveGroup(f1, b, DataId(o))
  <2>2. g = CleanGroup(l, b, p, DataId(o), x)
    <3> HIDE DEF l
    <3>1. l = FindIdSpan(f, ToIndex(f.lu[p]), x, NoPix)
      BY <2>1 DEF l
    <3> QED BY <1>1, <1>5, <2>1, <3>1 DEF CleanData
  <2>3. Ok(l) /\ Loaded(f, f1, q, x)
    <3> HIDE DEF x, p
    <3> QED BY <1>1, <1>3, <2>1, IndexIsFound DEF Coherent
  <2> HIDE DEF l, x, p
  <2>4. g = StoreGroup(h, o)
    BY <2>2, <2>3, IdsOf DEF CleanGroup, NotFound, Ok
  <2> HIDE DEF f1
  <2>5. /\ Group(f1, q, o, x) /\ Alike(f, View(f1)) /\ Ok(f1)
        /\ f1.lu = f.lu /\ f1.page = f.page /\ f1.fds = f.fds
        /\ f1.free_cursor = f.free_cursor /\ Keeps(f, f1, {"cursor", "pix", "work"})
    <3>1. Sound(f) /\ Loaded(f, f1, q, x) /\ IsPageOf(f, q, IndexId(o), x)
      BY <1>2, <2>1, <2>3 DEF Cleaning
    <3>2. /\ Group(f1, q, o, x) /\ Alike(f, View(f1))
          /\ f1.lu = f.lu /\ f1.page = f.page /\ f1.fds = f.fds
      BY <1>3, <2>1, <3>1, GroupIsLoaded
    <3> QED BY <2>3, <3>2 DEF Loaded, Keeps, Fields
  <2>6. LastIsBusy(f1, b)
    BY <1>2, <2>5 DEF Cleaning, LastIsBusy
  <2> HIDE DEF h
  <2>7. Ok(h)
    BY <2>4 DEF StoreGroup
  <2>8. OnGroup(f1, h, b, q, o, x, NE)
    BY <2>1, <2>5, <2>6, <2>7, GroupRuns DEF h
  <2>9. /\ Group(h, q, o, x) /\ Alike(View(f1), View(h)) /\ GroupMoved(f1, h, b, o, x, NE)
        /\ Keeps(f1, h, OnClean \cup {"work"})
    BY <2>8 DEF OnGroup
  <2>10. PICK m : /\ Stored(h, m, q, o, x) /\ Keeps(m, g, {"fds"})
                  /\ Heard(h, g, "UPD", o, x, m.found, h.work.pg)
    BY <2>1, <2>4, <2>9, StoreRuns
  <2> DEFINE r == m.found
  <2>11. /\ Shaped(m) /\ Lined(m) /\ m.cleaning /\ Keeps(h, m, OnClean \cup {"work"})
         /\ Coherent(m) /\ Filled(m) /\ Alike(View(h), m)
         /\ Shifted(h, m, q, r) /\ m.page[r] = h.work.pg
    BY <2>10 DEF Stored
  <2>12. /\ g.lu = m.lu /\ g.page = m.page /\ g.cleaning = m.cleaning
         /\ g.free_cursor = m.free_cursor /\ State(g)
    BY <2>10 DEF Keeps, Fields
  <2> HIDE DEF r
  <2>13. Shaped(g) /\ Lined(g)
    BY <2>11, <2>12 DEF Shaped, Lined, Packed, AtCursor, NoneBelow
  <2>14. Coherent(g) /\ Filled(g) /\ Alike(f, g)
    <3>1. \A c \in Page : SamePage(m, g, c)
      BY <2>12 DEF SamePage
    <3>2. Alike(f, m)
      BY <2>5, <2>9, <2>11, AlikeOn
    <3> QED BY <2>11, <3>1, <3>2, SameChip
  <2>15. h.lu[q] = IndexId(o) /\ h.page[q].span = x /\ q \in Page
    BY <2>1, <2>9 DEF Group
  <2>16. /\ r \in Page /\ h.lu[r] = FREE /\ m.lu[q] = DELETED /\ m.lu[r] = IndexId(o)
         /\ m.page[r].span = x
         /\ \A c \in Page \ {q, r} : SamePage(h, m, c)
    BY <2>11, <2>15 DEF Shifted, SamePage
  <2>17. \A c \in Page : f.lu[c] # FREE /\ ~InGroup(f, c, o, x) => SamePage(f, h, c)
    BY <2>5, <2>9 DEF GroupMoved, InGroup, SamePage
  <2>18. Heard(f, g, "UPD", o, x, r, h.work.pg)
    <3>1. h.fds = f1.fds
      BY <2>9 DEF Keeps, OnClean, Fields
    <3> QED BY <2>5, <2>10, <3>1 DEF Heard, r
  <2>19. Remain(f, g, "UPD", o, x)
    <3> SUFFICES ASSUME NEW c, NEW id, NEW s, IsPageOf(f, c, id, s), id \in ObjectIds,
                        ~(id = IndexId(o) /\ s = x), ~(id = DataId(o) /\ IxSpan(s) = x)
                 PROVE  IsPageOf(g, c, id, s)
      BY DEF Remain
    <3>1. c \in Page /\ f.lu[c] = id /\ f.page[c].span = s /\ id # FREE
      BY IdIsBusy DEF IsPageOf
    <3>2. SamePage(f, h, c)
      BY <2>17, <3>1 DEF InGroup
    <3>3. c # q /\ c # r
      BY <2>15, <2>16, <3>1, <3>2 DEF SamePage
    <3>4. SamePage(h, m, c)
      BY <2>16, <3>1, <3>3
    <3> QED BY <2>12, <3>1, <3>2, <3>4 DEF SamePage, IsPageOf
  <2>20. HeardRight(f, g, "UPD", o, x, r, h.work.pg)
    <3>1. IsPageOf(g, r, IndexId(o), x) /\ g.page[r] = h.work.pg
      BY <2>11, <2>12, <2>16 DEF IsPageOf
    <3> QED BY <2>14, <2>19, <3>1 DEF HeardRight
  <2>21. Handled(g) /\ Followed(g) /\ Known(g) /\ SameObjs(f, g)
    BY <1>3, <2>1, <2>18, <2>20, AllHear
  <2>22. LastIsBusy(g, b)
    <3>1. IsBusy(h.lu[q])
      BY <2>15, IdsOf, IdIsBusy
    <3>2. LastIsBusy(m, b)
      BY <2>11, <2>15, <3>1, ShiftedIsBusy
    <3> QED BY <2>12, <3>2 DEF LastIsBusy
  <2>23. Keeps(f0, g, Cleans)
    BY <1>2, <2>5, <2>9, <2>10, <2>11 DEF Keeps, Cleans, OnEvent, Cleaning
  <2>24. Alike(f0, g)
    BY <1>2, <2>14, AlikeOn DEF Cleaning
  <2>25. Cleaning(f0, g, b)
    <3>1. SameObjs(f0, g)
      BY <1>2, <2>21 DEF Cleaning, SameObjs
    <3> QED BY <1>2, <1>3, <2>11, <2>12, <2>13, <2>14, <2>21, <2>22, <2>23, <2>24, <3>1
            DEF Cleaning, Sound
  <2>26. ASSUME NEW e \in Entry, e < k + 1 PROVE ~IsDataId(g.lu[<<b, e>>])
    <3> DEFINE c == <<b, e>>
    <3>1. c \in Page /\ e \in Nat
      BY GeometryAssumption DEF Page, Entry
    <3>2. CASE e = k
      <4>1. c = p /\ InGroup(f1, c, o, x) /\ e < NE
        BY <2>1, <2>5, <3>2, GeometryAssumption DEF InGroup, x, p, Entry
      <4>2. h.lu[c] = DELETED
        BY <2>9, <4>1 DEF GroupMoved
      <4>3. c # r
        BY <2>16, <4>2, MarkAssumption
      <4>4. m.lu[c] = DELETED
        BY <2>16, <3>1, <4>2, <4>3 DEF SamePage
      <4> QED BY <2>12, <4>4 DEF IsDataId, IsBusy
    <3>3. CASE e # k
      <4>1. e < k
        BY <1>0, <2>26, <3>1, <3>3
      <4>2. ~IsDataId(f.lu[c])
        BY <1>2, <4>1 DEF DataGone
      <4>3. f.lu[c] # FREE
        <5>1. f.lu[p] # FREE
          BY <1>5 DEF IsDataId, IsBusy
        <5> QED BY <1>3, <4>1, <5>1 DEF Lined, Packed, p
      <4>4. SamePage(f, h, c)
        <5>1. ~InGroup(f, c, o, x)
          BY <4>2, IdsOf DEF InGroup
        <5> QED BY <2>17, <3>1, <4>3, <5>1
      <4>5. c # r
        BY <2>16, <4>3, <4>4 DEF SamePage
      <4>6. m.lu[c] = DELETED \/ m.lu[c] = f.lu[c]
        BY <2>16, <3>1, <4>4, <4>5 DEF SamePage
      <4> QED BY <2>12, <4>2, <4>6 DEF IsDataId, IsBusy
    <3> QED BY <3>2, <3>3
  <2> QED BY <2>25, <2>26 DEF DataGone
<1> QED BY <1>4, <1>5

\* The first k entries of the block hold no page in use.
BusyGone(f, b, k) == \A e \in Entry : e < k => ~IsBusy(f.lu[<<b, e>>])

\* The index page at entry k is moved out of the way.
LEMMA CleanIndexRuns ==
    ASSUME NEW f0, NEW f, NEW b \in Block, NEW k \in Entry,
           Ok(f) => Cleaning(f0, f, b) /\ DataGone(f, b, NE) /\ BusyGone(f, b, k),
           NEW g, g = CleanIndex(f, b, k), Ok(g)
    PROVE  Cleaning(f0, g, b) /\ DataGone(g, b, NE) /\ BusyGone(g, b, k + 1)
<1> DEFINE p == <<b, k>>
           x == f.page[p].span
<1>0. p \in Page /\ k \in Nat /\ \A e \in Entry : e \in Nat /\ e < NE
  BY GeometryAssumption DEF Page, Entry
<1>1. Ok(f)
  BY DEF CleanIndex
<1>2. Cleaning(f0, f, b) /\ DataGone(f, b, NE) /\ BusyGone(f, b, k)
  BY <1>1
<1>3. /\ Shaped(f) /\ Lined(f) /\ Coherent(f) /\ Filled(f)
      /\ Handled(f) /\ Followed(f) /\ Known(f) /\ f.cleaning
  BY <1>2 DEF Cleaning, Sound
<1>4. CASE ~IsIndexId(f.lu[p])
  <2>1. g = f
    BY <1>4 DEF CleanIndex
  <2>2. ~IsBusy(f.lu[p])
    BY <1>0, <1>2, <1>4 DEF DataGone, IsDataId, IsIndexId
  <2>3. ASSUME NEW e \in Entry, e < k + 1 PROVE ~IsBusy(f.lu[<<b, e>>])
    <3>1. e < k \/ e = k
      BY <1>0, <2>3
    <3> QED BY <1>2, <2>2, <3>1 DEF BusyGone
  <2> QED BY <1>2, <2>1, <2>3 DEF BusyGone
<1>5. CASE IsIndexId(f.lu[p])
  <2>1. AsListed(f) /\ RefersToItsData(f) /\ \A c \in Page : f.lu[c] = FREE => f.page[c] = Erased
    BY <1>3 DEF Coherent, AsListed, IsFree
  <2>2. Whole(f, p) /\ IsBusy(f.lu[p]) /\ x \in Nat
    BY <1>0, <1>5, <2>1, BusyIsWhole DEF IsIndexId, Whole
  <2>3. PICK o \in Obj : f.lu[p] = IndexId(o)
    BY <1>0, <1>5, <2>1, BusyIsWhole DEF IsDataId, IsIndexId
  <2> DEFINE m == PageMove(f, f.lu[p], p, Erased)
             r == m.found
  <2>4. g = Event(m, "MOV", o, x, r, 0, Erased)
    <3>1. "DELET" \notin f.page[p].flags /\ f.lu[p].obj = o
      BY <2>2, <2>3, IdsOf DEF Whole, Valid
    <3>2. g = MoveIndex(f, p, o, x)
      BY <1>1, <1>5, <3>1 DEF CleanIndex
    <3> QED BY <3>1, <3>2 DEF MoveIndex, MoveOrDelete, EventFound
  <2> HIDE DEF p, x
  <2>5. Ok(m)
    <3> HIDE DEF m, r
    <3> QED BY <2>4 DEF Event, Then
  <2>6. /\ Shaped(m) /\ Lined(m) /\ Keeps(f, m, OnClean)
        /\ MovedTo(f, m, p, f.lu[p], f.page[p])
    <3>1. f.lu[p] # FREE
      BY <2>2 DEF IsBusy
    <3>2. /\ Shaped(m) /\ Lined(m) /\ Keeps(f, m, OnClean)
          /\ MovedTo(f, m, p, f.lu[p], Content(f, p, Erased))
      BY <1>0, <1>3, <2>1, <2>5, <3>1, MoveRuns
    <3> QED BY <3>2 DEF Content
  <2> HIDE DEF m
  <2>7. r \in Page /\ r # p /\ f.lu[r] = FREE /\ PageMoved(f, m, p, r, f.lu[p], f.page[p])
    BY <2>6 DEF MovedTo
  <2>8. Relocated(f, m, p, r)
    BY <1>0, <1>3, <1>5, <2>1, <2>7, IndexMoves
  <2>9. Coherent(m) /\ Filled(m) /\ Alike(f, m)
    BY <1>3, <2>8, RelocationKeeps
  <2>10. Shifted(f, m, p, r)
    BY <1>0, <2>6, MoveShifts
  <2>11. LastIsBusy(m, b)
    BY <1>0, <2>2, <2>10, ShiftedIsBusy
  <2> HIDE DEF r
  <2>12. Keeps(m, g, {"fds"}) /\ Heard(m, g, "MOV", o, x, r, Erased)
    BY <2>4, <2>6, EventRuns DEF Shaped, Tells
  <2>13. /\ g.lu = m.lu /\ g.page = m.page /\ g.cleaning = m.cleaning
         /\ g.free_cursor = m.free_cursor /\ State(g)
    BY <2>12 DEF Keeps, Fields
  <2>14. Shaped(g) /\ Lined(g)
    BY <2>6, <2>13 DEF Shaped, Lined, Packed, AtCursor, NoneBelow
  <2>15. Coherent(g) /\ Filled(g) /\ Alike(f, g)
    <3>1. \A c \in Page : SamePage(m, g, c)
      BY <2>13 DEF SamePage
    <3> QED BY <2>9, <3>1, SameChip
  <2>16. Heard(f, g, "MOV", o, x, r, Erased)
    <3>1. m.fds = f.fds
      BY <2>6 DEF Keeps, OnClean, Fields
    <3> QED BY <2>12, <3>1 DEF Heard
  <2>17. Remain(f, g, "MOV", o, x)
    <3> SUFFICES ASSUME NEW c, NEW id, NEW s, IsPageOf(f, c, id, s), id \in ObjectIds,
                        ~(id = IndexId(o) /\ s = x)
                 PROVE  IsPageOf(g, c, id, s)
      BY DEF Remain
    <3>1. c \in Page /\ f.lu[c] = id /\ f.page[c].span = s /\ id # FREE
      BY IdIsBusy DEF IsPageOf
    <3>2. c # p /\ c # r
      BY <2>3, <2>7, <3>1 DEF x
    <3>3. m.lu[c] = f.lu[c] /\ m.page[c] = f.page[c]
      BY <2>10, <3>1, <3>2 DEF Shifted
    <3> QED BY <2>13, <3>1, <3>3 DEF IsPageOf
  <2>18. HeardRight(f, g, "MOV", o, x, r, Erased)
    <3>1. IsPageOf(g, r, IndexId(o), x)
      BY <2>3, <2>7, <2>10, <2>13 DEF IsPageOf, Shifted, x
    <3> QED BY <2>15, <2>17, <3>1 DEF HeardRight
  <2>19. Handled(g) /\ Followed(g) /\ Known(g) /\ SameObjs(f, g)
    BY <1>3, <2>2, <2>16, <2>18, AllHear
  <2>20. LastIsBusy(g, b)
    BY <2>11, <2>13 DEF LastIsBusy
  <2>21. Keeps(f0, g, Cleans) /\ g.cleaning
    <3>1. m.cleaning
      BY <1>3, <2>6 DEF Keeps, OnClean, Fields
    <3> QED BY <1>2, <2>6, <2>12, <2>13, <3>1 DEF Keeps, Cleans, OnEvent, Cleaning
  <2>22. Alike(f0, g)
    BY <1>2, <2>15, AlikeOn DEF Cleaning
  <2>23. Cleaning(f0, g, b)
    <3>1. SameObjs(f0, g)
      BY <1>2, <2>19 DEF Cleaning, SameObjs
    <3> QED BY <1>2, <2>14, <2>15, <2>19, <2>20, <2>21, <2>22, <3>1 DEF Cleaning, Sound
  <2>24. g.lu[p] = DELETED
    BY <2>10, <2>13 DEF Shifted
  <2>25. ASSUME NEW e \in Entry, e < k PROVE ~IsBusy(g.lu[<<b, e>>])
    <3> DEFINE c == <<b, e>>
    <3>1. c \in Page /\ c # p
      BY <1>0, <2>25 DEF Page, p
    <3>2. ~IsBusy(f.lu[c]) /\ f.lu[c] # FREE
      <4>1. f.lu[p] # FREE
        BY <2>2 DEF IsBusy
      <4>2. f.lu[c] # FREE
        BY <1>3, <2>25, <4>1 DEF Lined, Packed, p
      <4> QED BY <1>2, <2>25, <4>2 DEF BusyGone
    <3>3. c # r
      BY <2>7, <3>2
    <3>4. m.lu[c] = f.lu[c]
      BY <2>10, <3>1, <3>3 DEF Shifted
    <3> QED BY <2>13, <3>2, <3>4
  <2>26. BusyGone(g, b, k + 1)
    <3> SUFFICES ASSUME NEW e \in Entry, e < k + 1 PROVE ~IsBusy(g.lu[<<b, e>>])
      BY DEF BusyGone
    <3>1. CASE e = k
      BY <2>24, <3>1 DEF p, IsBusy
    <3>2. CASE e # k
      <4>1. e < k
        BY <1>0, <3>2
      <4> QED BY <2>25, <4>1
    <3> QED BY <3>1, <3>2
  <2>27. ASSUME NEW e \in Entry, e < NE PROVE ~IsDataId(g.lu[<<b, e>>])
    <3> DEFINE c == <<b, e>>
    <3>1. c \in Page
      BY DEF Page
    <3>2. ~IsDataId(f.lu[c])
      BY <1>2, <2>27 DEF DataGone
    <3>3. CASE c = p
      BY <2>24, <3>3 DEF IsDataId, IsBusy
    <3>4. CASE c = r
      BY <1>5, <2>10, <2>13, <3>4 DEF Shifted, IsDataId, IsIndexId
    <3>5. CASE c # p /\ c # r
      <4>1. m.lu[c] = f.lu[c]
        BY <2>10, <3>1, <3>5 DEF Shifted
      <4> QED BY <2>13, <3>2, <4>1
    <3> QED BY <3>3, <3>4, <3>5
  <2> QED BY <2>23, <2>26, <2>27 DEF DataGone
<1> QED BY <1>4, <1>5

\* The data pages leave the block, then the index pages.
LEMMA DataPagesRun ==
    ASSUME NEW f0, NEW f, NEW b \in Block, Cleaning(f0, f, b),
           NEW g, g = CleanDataPages(f, b), Ok(g)
    PROVE  Cleaning(f0, g, b) /\ DataGone(g, b, NE)
<1>1. PICK h : DataLoops(h, f, b)
  BY DataLoop
<1> DEFINE K == {k \in Nat : Ok(h[k]) => Cleaning(f0, h[k], b) /\ DataGone(h[k], b, k)}
<1>2. 0 \in K
  <2>1. h[0] = f
    BY <1>1 DEF DataLoops
  <2>2. DataGone(f, b, 0)
    <3>1. \A e \in Entry : ~(e < 0)
      BY GeometryAssumption DEF Entry
    <3> QED BY <3>1 DEF DataGone
  <2> QED BY <2>1, <2>2
<1>3. ASSUME NEW k \in 0 .. NE - 1, k \in K PROVE k + 1 \in K
  <2>1. k \in Entry /\ k \in Nat /\ k + 1 \in Nat
    BY GeometryAssumption DEF Entry
  <2>2. h[k + 1] = CleanData(h[k], b, k)
    BY <1>1 DEF DataLoops
  <2>3. Ok(h[k]) => Cleaning(f0, h[k], b) /\ DataGone(h[k], b, k)
    BY <1>3
  <2>4. Ok(h[k + 1]) => Cleaning(f0, h[k + 1], b) /\ DataGone(h[k + 1], b, k + 1)
    BY <2>1, <2>2, <2>3, CleanDataRuns
  <2> QED BY <2>1, <2>4
<1> HIDE DEF K
<1>4. NE \in K
  BY <1>2, <1>3, UpTo, GeometryAssumption
<1>5. g = h[NE]
  BY <1>1 DEF DataLoops
<1> QED BY <1>4, <1>5 DEF K

\* After the index pages are moved the block holds no page in use.
LEMMA IndexPagesRun ==
    ASSUME NEW f0, NEW f, NEW b \in Block, Ok(f) => Cleaning(f0, f, b) /\ DataGone(f, b, NE),
           NEW g, g = CleanIndexPages(f, b), Ok(g)
    PROVE  Cleaning(f0, g, b) /\ BusyGone(g, b, NE)
<1>1. PICK h : IxLoops(h, f, b)
  BY IxLoop
<1> DEFINE K == {k \in Nat : Ok(h[k]) => Cleaning(f0, h[k], b) /\ DataGone(h[k], b, NE)
                                         /\ BusyGone(h[k], b, k)}
<1>2. 0 \in K
  <2>1. h[0] = f
    BY <1>1 DEF IxLoops
  <2>2. BusyGone(f, b, 0)
    <3>1. \A e \in Entry : ~(e < 0)
      BY GeometryAssumption DEF Entry
    <3> QED BY <3>1 DEF BusyGone
  <2> QED BY <2>1, <2>2
<1>3. ASSUME NEW k \in 0 .. NE - 1, k \in K PROVE k + 1 \in K
  <2>1. k \in Entry /\ k \in Nat /\ k + 1 \in Nat
    BY GeometryAssumption DEF Entry
  <2>2. h[k + 1] = CleanIndex(h[k], b, k)
    BY <1>1 DEF IxLoops
  <2>3. Ok(h[k]) => Cleaning(f0, h[k], b) /\ DataGone(h[k], b, NE) /\ BusyGone(h[k], b, k)
    BY <1>3
  <2>4. Ok(h[k + 1]) => Cleaning(f0, h[k + 1], b) /\ DataGone(h[k + 1], b, NE)
                        /\ BusyGone(h[k + 1], b, k + 1)
    BY <2>1, <2>2, <2>3, CleanIndexRuns
  <2> QED BY <2>1, <2>4
<1> HIDE DEF K
<1>4. NE \in K
  BY <1>2, <1>3, UpTo, GeometryAssumption
<1>5. g = h[NE]
  BY <1>1 DEF IxLoops
<1> QED BY <1>4, <1>5 DEF K

\* The cursor leaves the block first.
LEMMA StartRuns ==
    ASSUME NEW f, Ok(f), Sound(f), NEW b \in Block, NEW g, g = StartCleaning(f, b)
    PROVE  /\ Cleaning(g, g, b) /\ Alike(f, g) /\ SameObjs(f, g)
           /\ Keeps(f, g, {"cleaning", "free_cursor"})
<1>1. /\ Shaped(f) /\ Lined(f) /\ Coherent(f) /\ Filled(f)
      /\ Handled(f) /\ Followed(f) /\ Known(f)
  BY DEF Sound
<1> DEFINE next == (b + 1) % NB
<1>2. next \in Block /\ next # b
  <2>1. CASE b = NB - 1
    <3>1. b + 1 = NB /\ NB % NB = 0
      BY <2>1, GeometryAssumption DEF Block
    <3> QED BY <2>1, <3>1, GeometryAssumption DEF Block
  <2>2. CASE b # NB - 1
    <3>1. b + 1 \in 0 .. NB - 1 /\ next = b + 1
      BY <2>2, GeometryAssumption DEF Block
    <3> QED BY <3>1, GeometryAssumption DEF Block
  <2> QED BY <2>1, <2>2
<1> HIDE DEF next
<1>3. /\ State(g) /\ g.cleaning /\ g.lu = f.lu /\ g.page = f.page /\ g.fds = f.fds /\ Ok(g)
      /\ Keeps(f, g, {"cleaning", "free_cursor"})
      /\ g.free_cursor = IF f.free_cursor[1] = b THEN <<next, 0>> ELSE f.free_cursor
  BY <1>1 DEF StartCleaning, Shaped, State, Fields, Keeps, Ok, next
<1>4. Shaped(g) /\ Handled(g)
  BY <1>1, <1>3 DEF Shaped, Handled
<1>5. Lined(g)
  <2>1. Packed(g)
    BY <1>1, <1>3 DEF Lined, Packed
  <2>2. AtCursor(g)
    <3>1. CASE f.free_cursor[1] = b
      <4>1. g.free_cursor = <<next, 0>> /\ <<next, 0>> \in Place /\ ~InMidst(<<next, 0>>)
        BY <1>2, <1>3, <3>1, GeometryAssumption DEF Place, InMidst
      <4> QED BY <4>1 DEF AtCursor
    <3>2. CASE f.free_cursor[1] # b
      BY <1>1, <1>3, <3>2 DEF Lined, AtCursor, NoneBelow
    <3> QED BY <3>1, <3>2
  <2> QED BY <2>1, <2>2 DEF Lined
<1>6. LastIsBusy(g, b)
  BY <1>2, <1>3 DEF LastIsBusy
<1>7. /\ Coherent(g) /\ Filled(g) /\ Followed(g)
      /\ \A u : Alike(u, f) => Alike(u, g)
  <2>1. \A p \in Page : SamePage(f, g, p)
    BY <1>3 DEF SamePage
  <2> QED BY <1>1, <1>3, <2>1, SameChip
<1>8. Alike(f, g) /\ Alike(g, g)
  BY <1>1, <1>7, AlikeSelf DEF Coherent
<1>9. Keeps(g, g, Cleans)
  BY <1>3 DEF Keeps
<1>10. Known(g) /\ SameObjs(f, g) /\ SameObjs(g, g)
  <2>1. Known(g)
    BY <1>1, <1>3, <1>7, <1>8, KnownStays
  <2> QED BY <1>3, <2>1 DEF SameObjs
<1> QED BY <1>3, <1>4, <1>5, <1>6, <1>7, <1>8, <1>9, <1>10 DEF Cleaning, Sound

\* The block is cleaned.
LEMMA GcCleanRuns ==
    ASSUME NEW f, Ok(f), Sound(f), NEW b \in Block,
           NEW g, g = GcClean(StartCleaning(f, b), b), Ok(g)
    PROVE  /\ Sound(g) /\ Alike(f, g) /\ LastIsBusy(g, b) /\ BusyGone(g, b, NE)
           /\ Keeps(f, g, Cleans \cup {"cleaning"}) /\ SameObjs(f, g)
<1> DEFINE s == StartCleaning(f, b)
           d == CleanDataPages(s, b)
<1>1. g = CleanIndexPages(d, b)
  BY DEF GcClean
<1>2. /\ Cleaning(s, s, b) /\ Alike(f, s) /\ Keeps(f, s, {"cleaning", "free_cursor"})
      /\ SameObjs(f, s)
  BY StartRuns
<1> HIDE DEF s
<1>3. Ok(d) => Cleaning(s, d, b) /\ DataGone(d, b, NE)
  BY <1>2, DataPagesRun
<1> HIDE DEF d
<1>4. Cleaning(s, g, b) /\ BusyGone(g, b, NE)
  BY <1>1, <1>3, IndexPagesRun
<1>5. Alike(f, g)
  BY <1>2, <1>4, AlikeOn DEF Cleaning
<1>6. Keeps(f, g, Cleans \cup {"cleaning"})
  BY <1>2, <1>4 DEF Cleaning, Keeps, Cleans, OnEvent, OnClean
<1>7. SameObjs(f, g)
  BY <1>2, <1>4 DEF Cleaning, SameObjs
<1> QED BY <1>4, <1>5, <1>6, <1>7 DEF Cleaning

----------------------------------------------------------------------------
(* The block that was cleaned is erased.                                   *)
Swept(f, g, b) ==
    /\ g.lu = [p \in Page |-> IF p[1] = b THEN FREE ELSE f.lu[p]]
    /\ g.page = [p \in Page |-> IF p[1] = b THEN Erased ELSE f.page[p]]

\* What erasing a block writes.
OnErase == {"lu", "page", "ec", "magic", "fuel", "free_blocks", "max_erase_count",
            "stats_p_allocated", "stats_p_deleted"}

\* Erasing a block of the flash sweeps its pages.
LEMMA EraseFlashRuns ==
    ASSUME NEW f, Shaped(f), f.fault # "erase", NEW b, NEW g, g = EraseFlash(f, b), Ok(g)
    PROVE  /\ Ok(f) /\ Keeps(f, g, {"lu", "page", "ec", "magic", "fuel"})
           /\ Swept(f, g, b) /\ g.ec = [f.ec EXCEPT ![b] = EcFree]
<1> DEFINE blank == [f EXCEPT
            !.lu    = [p \in Page |-> IF p[1] = b THEN FREE ELSE @[p]],
            !.page  = [p \in Page |-> IF p[1] = b THEN Erased ELSE @[p]],
            !.ec[b] = EcFree,
            !.magic[b] = FALSE]
<1>1. /\ Keeps(f, blank, {"lu", "page", "ec", "magic"})
      /\ Swept(f, blank, b) /\ blank.ec = [f.ec EXCEPT ![b] = EcFree]
  BY DEF Shaped, State, Fields, Keeps, Swept
<1>2. g = IF ~Ok(f) THEN f ELSE IF f.fault = "power" THEN Write(f, blank) ELSE blank
  BY DEF EraseFlash
<1> HIDE DEF blank
<1>3. Ok(f)
  BY <1>2
<1>4. CASE f.fault = "power"
  <2>1. g = Write(f, blank)
    BY <1>2, <1>3, <1>4
  <2>2. Keeps(blank, g, {"fuel"})
    BY <1>1, <2>1, WriteRuns
  <2> QED BY <1>1, <1>3, <2>2 DEF Keeps, Swept, Fields
<1>5. CASE f.fault # "power"
  BY <1>1, <1>2, <1>3, <1>5 DEF Keeps
<1> QED BY <1>4, <1>5

\* Erasing a block sweeps it, stamps it and counts it.
LEMMA EraseBlockRuns ==
    ASSUME NEW f, Shaped(f), Worn(f), f.fault # "erase", NEW b \in Block,
           NEW g, g = EraseBlock(f, b), Ok(g)
    PROVE  /\ Ok(f) /\ Keeps(f, g, OnErase) /\ Swept(f, g, b) /\ Worn(g)
<1> DEFINE e == EraseFlash(f, b)
           c0 == [e EXCEPT !.free_blocks = @ + 1]
           c == Then(e, c0)
           n == f.max_erase_count
           s == WriteEraseCount(c, b, c.max_erase_count)
           m == WriteMagic(s, b)
           g0 == [m EXCEPT !.max_erase_count = IF @ + 1 \in {EcFlag, EcFree + 1} THEN 0
                                               ELSE @ + 1]
<1>1. g = Then(m, g0)
  <2>1. WriteEraseCount(c, b, f.max_erase_count) = WriteEraseCount(c, b, c.max_erase_count)
        \/ ~Ok(c)
    <3> SUFFICES ASSUME Ok(c) PROVE c.max_erase_count = f.max_erase_count
      OBVIOUS
    <3>1. Ok(e) /\ c = c0
      BY DEF Then
    <3> HIDE DEF c, e
    <3>2. Keeps(f, e, {"lu", "page", "ec", "magic", "fuel"})
      BY <3>1, EraseFlashRuns DEF e
    <3> QED BY <3>1, <3>2 DEF Keeps, State, Fields
  <2>2. WriteEraseCount(c, b, f.max_erase_count) = s
    BY <2>1 DEF WriteEraseCount, Write
  <2> QED BY <2>2 DEF EraseBlock
<1> HIDE DEF g0, m
<1>2. Ok(m) /\ g = g0
  BY <1>1 DEF Then
<1> HIDE DEF s
<1>3. m = Write(s, [s EXCEPT !.magic[b] = TRUE])
  BY DEF m, WriteMagic
<1> HIDE DEF c
<1> DEFINE s0 == [c EXCEPT !.ec[b] = IF @ = EcFree THEN c.max_erase_count
                                     ELSE And(@, c.max_erase_count)]
<1>4. s = Write(c, s0)
  BY DEF s, WriteEraseCount
<1>5. Ok(s)
  BY <1>2, <1>3 DEF Write
<1>6. Ok(c)
  BY <1>4, <1>5 DEF Write
<1>7. Ok(e) /\ c = c0
  BY <1>6 DEF c, Then
<1> HIDE DEF e
<1>8. /\ Ok(f) /\ Keeps(f, e, {"lu", "page", "ec", "magic", "fuel"})
      /\ Swept(f, e, b) /\ e.ec = [f.ec EXCEPT ![b] = EcFree]
  BY <1>7, EraseFlashRuns DEF e
<1>9. /\ Keeps(f, c, OnErase) /\ Swept(f, c, b) /\ c.ec = [f.ec EXCEPT ![b] = EcFree]
      /\ c.max_erase_count = n
  BY <1>7, <1>8 DEF Keeps, State, Fields, Swept, OnErase
<1> HIDE DEF c0
<1>10. /\ Keeps(c, s0, {"ec"}) /\ s0.ec = [f.ec EXCEPT ![b] = n]
  <2>1. c.ec[b] = EcFree
    BY <1>9 DEF Worn
  <2>2. s0.ec = [c.ec EXCEPT ![b] = n]
    BY <1>9, <2>1 DEF Keeps, State, Fields
  <2> QED BY <1>9, <2>2 DEF Keeps, State, Fields, Worn
<1> HIDE DEF s0
<1>11. Keeps(s0, s, {"fuel"})
  BY <1>4, <1>5, <1>10, WriteRuns
<1>12. Keeps(s, m, {"magic", "fuel"})
  <2> DEFINE m0 == [s EXCEPT !.magic[b] = TRUE]
  <2>1. Keeps(s, m0, {"magic"})
    BY <1>11 DEF Keeps, State, Fields
  <2> HIDE DEF m0
  <2>2. m = Write(s, m0)
    BY <1>3 DEF m0
  <2>3. Keeps(m0, m, {"fuel"})
    BY <1>2, <2>1, <2>2, WriteRuns
  <2> QED BY <2>1, <2>3 DEF Keeps
<1>13. m.max_erase_count = n /\ m.ec = [f.ec EXCEPT ![b] = n] /\ Keeps(c, m, {"ec", "fuel", "magic"})
  BY <1>9, <1>10, <1>11, <1>12 DEF Keeps, Fields
<1>14. /\ Keeps(m, g, {"max_erase_count"})
       /\ g.max_erase_count = IF n + 1 \in {EcFlag, EcFree + 1} THEN 0 ELSE n + 1
  BY <1>2, <1>13 DEF g0, Keeps, State, Fields
<1>15. Worn(g)
  <2>1. EcFree \in Nat /\ n \in 0 .. EcFree
    BY GeometryAssumption DEF EcFree, Worn
  <2>2. g.max_erase_count \in 0 .. EcFree
    BY <1>14, <2>1
  <2>3. g.ec = [f.ec EXCEPT ![b] = n]
    BY <1>13, <1>14 DEF Keeps, Fields
  <2> QED BY <2>1, <2>2, <2>3 DEF Worn
<1>16. g.lu = c.lu /\ g.page = c.page
  BY <1>13, <1>14 DEF Keeps, Fields
<1>17. Keeps(f, g, OnErase)
  BY <1>9, <1>13, <1>14 DEF Keeps, OnErase
<1> QED BY <1>8, <1>9, <1>15, <1>16, <1>17 DEF Swept

\* Nothing in use is lost with the block.
LEMMA SweptIsSound ==
    ASSUME NEW f, Sound(f), NEW b \in Block, LastIsBusy(f, b), BusyGone(f, b, NE),
           NEW g, Swept(f, g, b), Keeps(f, g, OnErase)
    PROVE  Sound(g) /\ Alike(f, g)
<1>1. /\ Shaped(f) /\ Lined(f) /\ Coherent(f) /\ Filled(f)
      /\ Handled(f) /\ Followed(f) /\ Known(f)
  BY DEF Sound
<1>2. /\ AsListed(f) /\ OneOfEach(f) /\ RefersToItsData(f) /\ ItsDataIsReferred(f)
      /\ HasItsHeader(f)
  BY <1>1 DEF Coherent
<1>3. g.fds = f.fds /\ g.free_cursor = f.free_cursor /\ State(g)
  BY DEF Keeps, OnErase, Fields
<1>4. ASSUME NEW p \in Page, p[1] # b PROVE SamePage(f, g, p)
  BY <1>4 DEF Swept, SamePage
<1>5. ASSUME NEW p \in Page, p[1] = b
      PROVE  g.lu[p] = FREE /\ g.page[p] = Erased /\ ~IsBusy(f.lu[p])
  <2>1. g.lu[p] = FREE /\ g.page[p] = Erased
    BY <1>5 DEF Swept
  <2>2. p = <<b, p[2]>> /\ p[2] \in Entry /\ p[2] < NE
    BY <1>5, GeometryAssumption DEF Page, Entry
  <2>3. ~IsBusy(f.lu[p])
    BY <2>2 DEF BusyGone
  <2> QED BY <2>1, <2>3
<1>6. \A p \in Page : IsBusy(f.lu[p]) \/ IsBusy(g.lu[p]) => SamePage(f, g, p)
  BY <1>4, <1>5 DEF IsBusy
<1>7. ASSUME NEW id \in ObjectIds, NEW p, NEW s
      PROVE  IsPageOf(g, p, id, s) <=> IsPageOf(f, p, id, s)
  <2>1. IsBusy(id)
    BY IdIsBusy
  <2> QED BY <1>6, <2>1 DEF IsPageOf, SamePage
<1>8. AsListed(g)
  <2> SUFFICES ASSUME NEW p \in Page
               PROVE  /\ IsFree(g.lu[p]) => g.page[p] = Erased
                      /\ IsDeleted(g.lu[p]) => {"USED", "DELET"} \subseteq g.page[p].flags
                      /\ IsBusy(g.lu[p]) => Whole(g, p)
    BY DEF AsListed
  <2>1. CASE p[1] = b
    BY <1>5, <2>1, MarkAssumption DEF IsFree, IsDeleted, IsBusy
  <2>2. CASE p[1] # b
    <3>1. g.lu[p] = f.lu[p] /\ g.page[p] = f.page[p]
      BY <1>4, <2>2 DEF SamePage
    <3>2. /\ IsFree(f.lu[p]) => f.page[p] = Erased
          /\ IsDeleted(f.lu[p]) => {"USED", "DELET"} \subseteq f.page[p].flags
          /\ IsBusy(f.lu[p]) => Whole(f, p)
      BY <1>2 DEF AsListed
    <3> QED BY <3>1, <3>2 DEF Whole
  <2> QED BY <2>1, <2>2
<1>9. ASSUME NEW p \in Page, IsBusy(g.lu[p])
      PROVE  /\ g.lu[p] = f.lu[p] /\ g.page[p] = f.page[p] /\ f.lu[p] \in ObjectIds
             /\ \E o \in Obj : (f.lu[p] = DataId(o) \/ f.lu[p] = IndexId(o)) /\ f.lu[p].obj = o
  <2>1. SamePage(f, g, p)
    BY <1>6, <1>9
  <2>2. IsBusy(f.lu[p])
    BY <1>9, <2>1 DEF SamePage
  <2>3. f.lu[p] \in ObjectIds
    BY <1>2, <2>2 DEF AsListed, Whole
  <2>4. PICK o \in Obj : f.lu[p] = DataId(o) \/ f.lu[p] = IndexId(o)
    BY <2>3, IdIsBusy
  <2> QED BY <2>1, <2>3, <2>4, IdsOf DEF SamePage
<1>10. OneOfEach(g)
  <2> SUFFICES ASSUME NEW p \in Page, NEW q \in Page, IsBusy(g.lu[p]),
                      IsPageOf(g, q, g.lu[p], g.page[p].span)
               PROVE  p = q
    BY DEF OneOfEach
  <2>1. g.lu[p] = f.lu[p] /\ g.page[p] = f.page[p] /\ f.lu[p] \in ObjectIds
    BY <1>9
  <2>2. IsPageOf(f, q, f.lu[p], f.page[p].span)
    BY <1>7, <2>1
  <2> QED BY <1>2, <2>1, <2>2 DEF OneOfEach
<1>11. RefersToItsData(g)
  <2> SUFFICES ASSUME NEW p \in Page, IsIndexId(g.lu[p]),
                      NEW s \in SpansOf(g.page[p].span), RefAt(g.page[p], s) # NoPix
               PROVE  IsPageOf(g, RefAt(g.page[p], s), DataId(g.lu[p].obj), s)
    BY DEF RefersToItsData
  <2>1. g.lu[p] = f.lu[p] /\ g.page[p] = f.page[p] /\ \E o \in Obj : f.lu[p].obj = o
    BY <1>9 DEF IsIndexId
  <2>2. IsPageOf(f, RefAt(f.page[p], s), DataId(f.lu[p].obj), s)
    BY <1>2, <2>1 DEF RefersToItsData
  <2>3. DataId(f.lu[p].obj) \in ObjectIds
    BY <2>1, IdsOf
  <2> QED BY <1>7, <2>1, <2>2, <2>3
<1>12. ItsDataIsReferred(g)
  <2> SUFFICES ASSUME NEW p \in Page, IsDataId(g.lu[p])
               PROVE  \E q \in Page :
                        /\ IsPageOf(g, q, IndexId(g.lu[p].obj), IxSpan(g.page[p].span))
                        /\ RefAt(g.page[q], g.page[p].span) = p
    BY DEF ItsDataIsReferred
  <2>1. g.lu[p] = f.lu[p] /\ g.page[p] = f.page[p] /\ \E o \in Obj : f.lu[p].obj = o
    BY <1>9 DEF IsDataId
  <2>2. PICK q \in Page :
          /\ IsPageOf(f, q, IndexId(f.lu[p].obj), IxSpan(f.page[p].span))
          /\ RefAt(f.page[q], f.page[p].span) = p
    BY <1>2, <2>1 DEF ItsDataIsReferred
  <2>3. IndexId(f.lu[p].obj) \in ObjectIds
    BY <2>1, IdsOf
  <2>4. IsPageOf(g, q, IndexId(f.lu[p].obj), IxSpan(f.page[p].span))
    BY <1>7, <2>2, <2>3
  <2>5. IsBusy(f.lu[q])
    BY <2>2, <2>3, IdIsBusy DEF IsPageOf
  <2>6. g.page[q] = f.page[q]
    BY <1>6, <2>5 DEF SamePage
  <2> QED BY <2>1, <2>2, <2>4, <2>6
<1>13. HasItsHeader(g)
  <2> SUFFICES ASSUME NEW p \in Page, IsIndexId(g.lu[p])
               PROVE  \E q \in Page : IsPageOf(g, q, g.lu[p], 0)
    BY DEF HasItsHeader
  <2>1. g.lu[p] = f.lu[p] /\ f.lu[p] \in ObjectIds
    BY <1>9 DEF IsIndexId
  <2>2. PICK q \in Page : IsPageOf(f, q, f.lu[p], 0)
    BY <1>2, <2>1 DEF HasItsHeader
  <2> QED BY <1>7, <2>1, <2>2
<1>14. Filled(g)
  <2> SUFFICES ASSUME NEW p \in Page, IsIndexId(g.lu[p]),
                      NEW s \in SpansOf(g.page[p].span), NEW t \in SpansOf(g.page[p].span),
                      t <= s, RefAt(g.page[p], s) # NoPix
               PROVE  RefAt(g.page[p], t) # NoPix
    BY DEF Filled
  <2>1. g.lu[p] = f.lu[p] /\ g.page[p] = f.page[p]
    BY <1>9 DEF IsIndexId
  <2> QED BY <1>1, <2>1 DEF Filled
<1>15. Alike(f, g)
  <2> SUFFICES ASSUME NEW id \in ObjectIds, NEW s \in Nat
               PROVE  /\ (\E p \in Page : IsPageOf(f, p, id, s))
                         <=> \E q \in Page : IsPageOf(g, q, id, s)
                      /\ \A p, q \in Page : IsPageOf(f, p, id, s) /\ IsPageOf(g, q, id, s)
                                            => SameContent(f, p, g, q)
    BY DEF Alike
  <2>1. ASSUME NEW p \in Page, NEW q \in Page, IsPageOf(f, p, id, s), IsPageOf(g, q, id, s)
        PROVE  SameContent(f, p, g, q)
    <3>1. IsPageOf(f, q, id, s) /\ IsBusy(id)
      BY <1>7, <2>1, IdIsBusy
    <3>2. Alike(f, f)
      BY <1>2, AlikeSelf
    <3>3. SameContent(f, p, f, q)
      BY <2>1, <3>1, <3>2 DEF Alike
    <3>4. SamePage(f, g, q)
      BY <1>6, <3>1 DEF IsPageOf
    <3> QED BY <3>3, <3>4 DEF SameContent, SamePage
  <2> QED BY <1>7, <2>1
<1>16. Handled(g)
  BY <1>1, <1>3 DEF Handled
<1>17. Followed(g)
  <2> SUFFICES ASSUME NEW d \in Fd, g.fds[d].obj # NoObj PROVE Follows(g, g.fds[d])
    BY DEF Followed
  <2> DEFINE fd == f.fds[d]
  <2>1. g.fds[d] = fd /\ Follows(f, fd) /\ fd.obj \in Obj
    BY <1>1, <1>3 DEF Followed, Handled, IsHandle
  <2> HIDE DEF fd
  <2>2. IndexId(fd.obj) \in ObjectIds /\ DataId(fd.obj) \in ObjectIds
    BY <2>1, IdsOf
  <2> QED BY <1>7, <2>1, <2>2 DEF Follows
<1>18. Shaped(g)
  <2>1. DOMAIN g.lu = Page /\ DOMAIN g.page = Page
    BY DEF Swept
  <2>2. IsHeader(Erased)
    BY DEF IsHeader, Erased, NoBody, IsFcn
  <2>3. \A p \in Page : IsHeader(g.page[p])
    BY <1>1, <1>4, <1>5, <2>2 DEF Shaped, SamePage
  <2> QED BY <1>3, <2>1, <2>3 DEF Shaped
<1>19. Packed(g)
  <2> SUFFICES ASSUME NEW c \in Block, NEW i \in Entry, NEW j \in Entry, i < j,
                      g.lu[<<c, i>>] = FREE
               PROVE  g.lu[<<c, j>>] = FREE
    BY DEF Packed
  <2>1. <<c, i>> \in Page /\ <<c, j>> \in Page
    BY DEF Page
  <2>2. CASE c = b
    BY <1>5, <2>1, <2>2
  <2>3. CASE c # b
    BY <1>1, <1>4, <2>1, <2>3 DEF SamePage, Lined, Packed
  <2> QED BY <2>2, <2>3
<1>20. AtCursor(g)
  <2> DEFINE c == f.free_cursor
  <2>1. c \in Place /\ g.free_cursor = c
    BY <1>1, <1>3 DEF Lined, AtCursor
  <2>2. ASSUME InMidst(c) PROVE g.lu[c] = FREE /\ NoneBelow(g, c)
    <3>0. c[1] \in Block /\ c[2] \in 0 .. NE /\ c = <<c[1], c[2]>>
      BY <2>1 DEF Place
    <3> HIDE DEF c
    <3>1. c[2] > 0 /\ c[2] - 1 \in Entry /\ c[2] - 1 < NE /\ c \in Page
      <4> DEFINE n == c[2]
      <4>1. n \in 0 .. NE /\ n # 0 /\ n # NE
        BY <2>2, <3>0 DEF InMidst
      <4> HIDE DEF n
      <4>2. n > 0 /\ n - 1 \in Entry /\ n - 1 < NE /\ n \in Entry
        BY <4>1, GeometryAssumption DEF Entry
      <4>3. c[2] = n
        BY DEF n
      <4>4. c = <<c[1], n>>
        BY <3>0, <4>3
      <4> QED BY <3>0, <4>2, <4>3, <4>4 DEF Page
    <3> USE DEF c
    <3>2. c[1] # b
      <4> SUFFICES ASSUME c[1] = b PROVE FALSE
        OBVIOUS
      <4>1. IsBusy(f.lu[<<b, c[2] - 1>>])
        BY <3>1 DEF LastIsBusy
      <4> QED BY <3>1, <4>1 DEF BusyGone
    <3>3. f.lu[c] = FREE /\ NoneBelow(f, c)
      BY <1>1, <2>2 DEF Lined, AtCursor
    <3>4. \A i \in Entry : SamePage(f, g, <<c[1], i>>)
      BY <1>4, <3>0, <3>2 DEF Page
    <3>5. SamePage(f, g, c)
      BY <1>4, <3>1, <3>2
    <3> QED BY <3>3, <3>4, <3>5 DEF NoneBelow, SamePage
  <2> QED BY <2>1, <2>2 DEF AtCursor
<1>21. Coherent(g)
  BY <1>8, <1>10, <1>11, <1>12, <1>13 DEF Coherent
<1>22. Known(g)
  BY <1>1, <1>3, <1>15, <1>17, KnownStays
<1> QED BY <1>14, <1>15, <1>16, <1>17, <1>18, <1>19, <1>20, <1>21, <1>22 DEF Sound, Lined

----------------------------------------------------------------------------
(* spiffs_gc_check.                                                        *)

\* The candidate for cleaning is a block.
LEMMA ScoreIsBounded ==
    ASSUME NEW f, Worn(f), NEW b \in Block, NEW crammed
    PROVE  /\ Score(f, b, crammed) \in Int
           /\ Cardinality(Page) \in Nat
           /\ Score(f, b, crammed) <= 5 * Cardinality(Page) + 50 * EcFree
<1> DEFINE D == {p \in Scanned(f, b) : IsDeleted(f.lu[p])}
           U == {p \in Scanned(f, b) : IsBusy(f.lu[p])}
           age == IF crammed THEN 0 ELSE 50 * EraseAge(f, b)
<1>1. Scanned(f, b) \subseteq Page
  BY DEF Scanned, InBlock, Page
<1>2. D \in SUBSET Page /\ U \in SUBSET Page
  BY <1>1
<1>3. Score(f, b, crammed) = 5 * Cardinality(D) - Cardinality(U) + age
  BY DEF Score
<1> HIDE DEF D, U
<1>4. /\ Cardinality(D) \in Nat /\ Cardinality(U) \in Nat
      /\ Cardinality(Page) \in Nat /\ Cardinality(D) <= Cardinality(Page)
  BY <1>2, PageIsFinite, FS_Subset, FS_CardinalityType
<1>5. EcFree \in Nat /\ f.max_erase_count \in 0 .. EcFree /\ f.ec[b] \in 0 .. EcFree
  BY GeometryAssumption DEF EcFree, Worn
<1>6. EraseAge(f, b) \in Int /\ EraseAge(f, b) <= EcFree
  BY <1>5 DEF EraseAge
<1>7. age \in Int /\ age <= 50 * EcFree
  <2>1. CASE crammed
    BY <1>5, <2>1
  <2>2. CASE ~crammed
    BY <1>5, <1>6, <2>2
  <2> QED BY <2>1, <2>2
<1> HIDE DEF age
<1> QED BY <1>3, <1>4, <1>5, <1>7

\* There is a block to clean.
LEMMA CandidateIsFound ==
    ASSUME NEW f, Worn(f), NEW crammed
    PROVE  GcFindCandidate(f, crammed) \in Block
<1> DEFINE M == 5 * Cardinality(Page) + 50 * EcFree
           rank(b) == M - Score(f, b, crammed)
           R == {rank(b) : b \in Block}
           S == {b \in Block : rank(b) = Least(R)}
<1>1. Block # {} /\ Block \subseteq Nat
  BY GeometryAssumption DEF Block
<1>2. M \in Int
  <2>1. Cardinality(Page) \in Nat
    BY PageIsFinite, FS_CardinalityType
  <2>2. EcFree \in Nat
    BY GeometryAssumption DEF EcFree
  <2> QED BY <2>1, <2>2
<1> HIDE DEF M
<1>3. \A b \in Block : Score(f, b, crammed) \in Int /\ Score(f, b, crammed) <= M
  BY ScoreIsBounded DEF M
<1>4. \A b \in Block : rank(b) \in Nat
  BY <1>2, <1>3
<1>5. R \in SUBSET Nat /\ R # {}
  BY <1>1, <1>4
<1>6. Least(R) \in R /\ \A x \in R : Least(R) <= x
  BY <1>5, LeastInSet
<1>7. S \in SUBSET Nat /\ S # {}
  BY <1>1, <1>6
<1>8. Least(S) \in S /\ \A x \in S : Least(S) <= x
  BY <1>7, LeastInSet
<1> DEFINE c == Least(S)
<1>9. c \in Block /\ rank(c) = Least(R)
  BY <1>8
<1> HIDE DEF c
<1>10. ASSUME NEW d \in Block
       PROVE  \/ Score(f, c, crammed) > Score(f, d, crammed)
              \/ Score(f, c, crammed) = Score(f, d, crammed) /\ c <= d
  <2>1. rank(c) <= rank(d)
    BY <1>6, <1>9
  <2>2. CASE rank(c) = rank(d)
    <3>1. d \in S
      BY <1>9, <2>2
    <3>2. c <= d
      BY <1>8, <3>1 DEF c
    <3>3. Score(f, c, crammed) = Score(f, d, crammed)
      BY <1>2, <1>3, <1>9, <2>2
    <3> QED BY <3>2, <3>3
  <2>3. CASE rank(c) # rank(d)
    BY <1>2, <1>3, <1>9, <2>1, <2>3
  <2> QED BY <2>2, <2>3
<1> QED BY <1>9, <1>10 DEF GcFindCandidate

\* Sizes agree with the data on chips alike.
LEMMA SizedStays ==
    ASSUME NEW f, NEW g, Alike(f, g), Coherent(g), Sized(f) PROVE Sized(g)
<1> SUFFICES ASSUME NEW q \in Page, IsIndexId(g.lu[q]), g.page[q].span = 0
             PROVE  SizeOf(g.page[q]) \in Nat \cup {Undef}
  BY DEF Sized
<1>1. PICK o \in Obj : g.lu[q] = IndexId(o)
  BY BusyIsWhole DEF Coherent, IsIndexId, IsDataId
<1>2. IsPageOf(g, q, IndexId(o), 0) /\ IndexId(o) \in ObjectIds /\ IsIndexId(IndexId(o))
  BY <1>1, IdsOf DEF IsPageOf
<1>3. PICK p \in Page : IsPageOf(f, p, IndexId(o), 0)
  BY <1>2 DEF Alike
<1>4. SizeOf(f.page[p]) = SizeOf(g.page[q])
  BY <1>2, <1>3, AlikeFacts
<1> QED BY <1>2, <1>3, <1>4 DEF Sized, IsPageOf

\* A block is cleaned and erased.
LEMMA GcBlockRuns ==
    ASSUME NEW f, Ok(f), Fit(f), NEW b \in Block, NEW g, g = GcBlock(f, b), Ok(g)
    PROVE  Fit(g) /\ Alike(f, g) /\ SameObjs(f, g)
<1> DEFINE c == GcClean(StartCleaning(f, b), b)
           d0 == [c EXCEPT !.cleaning = FALSE]
           d == GcErasePageStats(d0, b)
           e0 == [d0 EXCEPT
                    !.stats_p_allocated = @ - Cardinality(PagesOf(d0, b, IsBusy)),
                    !.stats_p_deleted   = @ - Cardinality(PagesOf(d0, b, IsDeleted))]
<1>0. Sound(f) /\ Sized(f) /\ Worn(f) /\ f.fault # "erase"
  BY DEF Fit
<1>1. c.res # "FAULT" /\ g = EraseBlock(d, b)
  BY DEF GcBlock, EraseCleaned, Ok
<1>2. d = Then(d0, e0)
  BY DEF GcErasePageStats
<1> HIDE DEF e0, d
<1>3. Ok(d)
  <2> SUFFICES ASSUME ~Ok(d) PROVE g = d
    OBVIOUS
  <2>1. \A new : Then(d, new) = d /\ Write(d, new) = d
    BY DEF Then, Write
  <2>2. EraseFlash(d, b) = d
    BY DEF EraseFlash
  <2>3. WriteEraseCount(d, b, d.max_erase_count) = d /\ WriteMagic(d, b) = d
    BY <2>1 DEF WriteEraseCount, WriteMagic
  <2>4. EraseBlock(d, b) = d
    BY <2>1, <2>2, <2>3 DEF EraseBlock
  <2> QED BY <1>1, <2>4
<1>4. Ok(d0) /\ d = e0
  BY <1>2, <1>3 DEF Then
<1> HIDE DEF d0
<1>5. Ok(c)
  <2>1. d0.res = c.res \/ d0 = [c EXCEPT !.cleaning = FALSE]
    BY DEF d0
  <2>2. d0.res = c.res
    BY DEF d0
  <2> QED BY <1>4, <2>2 DEF Ok
<1> HIDE DEF c
<1>6. /\ Sound(c) /\ Alike(f, c) /\ LastIsBusy(c, b) /\ BusyGone(c, b, NE)
      /\ Keeps(f, c, Cleans \cup {"cleaning"}) /\ SameObjs(f, c)
  BY <1>0, <1>5, GcCleanRuns DEF c
<1>7. Keeps(c, d0, {"cleaning"})
  BY <1>6 DEF d0, Keeps, State, Fields
<1>8. Keeps(d0, d, {"stats_p_allocated", "stats_p_deleted"})
  BY <1>4, <1>7 DEF e0, Keeps, State, Fields
<1>9. Keeps(c, d, {"cleaning", "stats_p_allocated", "stats_p_deleted"})
  BY <1>7, <1>8 DEF Keeps
<1>10. /\ d.lu = c.lu /\ d.page = c.page /\ d.fds = c.fds
       /\ d.free_cursor = c.free_cursor /\ State(d)
       /\ d.ec = f.ec /\ d.max_erase_count = f.max_erase_count /\ d.fault = f.fault
  BY <1>6, <1>9 DEF Keeps, Fields, Cleans, OnEvent, OnClean
<1>11. /\ Shaped(c) /\ Lined(c) /\ Coherent(c) /\ Filled(c)
       /\ Handled(c) /\ Followed(c) /\ Known(c)
  BY <1>6 DEF Sound
<1>12. Shaped(d) /\ Lined(d) /\ Handled(d)
  BY <1>10, <1>11 DEF Shaped, Lined, Packed, AtCursor, NoneBelow, Handled
<1>13. Coherent(d) /\ Filled(d) /\ Followed(d) /\ Alike(f, d) /\ Known(d)
  <2>1. \A p \in Page : SamePage(c, d, p)
    BY <1>10 DEF SamePage
  <2>2. /\ Coherent(d) /\ Filled(d) /\ Followed(d)
        /\ \A u : Alike(u, c) => Alike(u, d)
    BY <1>10, <1>11, <2>1, SameChip
  <2>3. Alike(c, c)
    BY <1>11, AlikeSelf DEF Coherent
  <2>4. Known(d)
    BY <1>10, <1>11, <2>2, <2>3, KnownStays
  <2> QED BY <1>6, <2>2, <2>4
<1>14. Sound(d) /\ Worn(d) /\ d.fault # "erase"
  BY <1>0, <1>10, <1>12, <1>13 DEF Sound, Worn
<1>15. LastIsBusy(d, b) /\ BusyGone(d, b, NE)
  BY <1>6, <1>10 DEF LastIsBusy, BusyGone
<1>16. Keeps(d, g, OnErase) /\ Swept(d, g, b) /\ Worn(g)
  BY <1>1, <1>12, <1>14, EraseBlockRuns
<1>17. Sound(g) /\ Alike(d, g)
  BY <1>14, <1>15, <1>16, SweptIsSound
<1>18. Alike(f, g)
  BY <1>13, <1>17, AlikeOn
<1>19. g.fault # "erase"
  BY <1>14, <1>16 DEF Keeps, OnErase, Fields
<1>20. Sized(g)
  BY <1>0, <1>17, <1>18, SizedStays DEF Sound
<1>21. SameObjs(f, g)
  <2>1. g.fds = d.fds
    BY <1>16 DEF Keeps, OnErase, Fields
  <2> QED BY <1>6, <1>10, <2>1 DEF SameObjs
<1> QED BY <1>16, <1>17, <1>18, <1>19, <1>20, <1>21 DEF Fit

\* Cleaning does not fail for want of blocks: the reserve is not kept then.
Quiet(f) == State(f) /\ f.cleaning /\ f.res # "FULL"

\* The writes the others are made of do not fail for want of room.
LEMMA QuietWrites ==
    ASSUME NEW f, Quiet(f)
    PROVE  /\ \A new : Quiet(new) => Quiet(Write(f, new)) /\ Quiet(Then(f, new))
           /\ \A code : code # "FULL" => Quiet(Fail(f, code))
           /\ Quiet(CountAllocated(f))
<1>1. ASSUME NEW new, Quiet(new) PROVE Quiet(Write(f, new)) /\ Quiet(Then(f, new))
  BY <1>1 DEF Write, Then, Quiet, State, Fields
<1>2. ASSUME NEW code, code # "FULL" PROVE Quiet(Fail(f, code))
  BY <1>2 DEF Fail, Quiet, State, Fields
<1>3. Quiet(CountAllocated(f))
  <2> DEFINE new == [f EXCEPT !.stats_p_allocated = @ + 1]
  <2>1. Quiet(new)
    BY DEF Quiet, State, Fields
  <2>2. CountAllocated(f) = Then(f, new)
    BY DEF CountAllocated
  <2> HIDE DEF new
  <2> QED BY <1>1, <2>1, <2>2
<1> QED BY <1>1, <1>2, <1>3

\* Nor does writing an entry, a page or flags,
LEMMA QuietPages ==
    ASSUME NEW f, Quiet(f), NEW p
    PROVE  /\ \A id : Quiet(WriteLu(f, p, id))
           /\ \A pg : Quiet(WritePage(f, p, pg))
           /\ \A flags : Quiet(WriteFlags(f, p, flags))
<1>1. ASSUME NEW id PROVE Quiet(WriteLu(f, p, id))
  <2> DEFINE new == [f EXCEPT !.lu[p] = IF id = DELETED THEN DELETED ELSE Prog(@, id, FREE)]
  <2>1. Quiet(new) /\ WriteLu(f, p, id) = Write(f, new)
    BY DEF Quiet, State, Fields, WriteLu
  <2> HIDE DEF new
  <2> QED BY <2>1, QuietWrites
<1>2. ASSUME NEW pg PROVE Quiet(WritePage(f, p, pg))
  <2> DEFINE new == [f EXCEPT !.page[p] = ProgPage(@, pg)]
  <2>1. Quiet(new) /\ WritePage(f, p, pg) = Write(f, new)
    BY DEF Quiet, State, Fields, WritePage
  <2> HIDE DEF new
  <2> QED BY <2>1, QuietWrites
<1>3. ASSUME NEW flags PROVE Quiet(WriteFlags(f, p, flags))
  <2> DEFINE new == [f EXCEPT !.page[p].flags = @ \cup flags]
  <2>1. Quiet(new) /\ WriteFlags(f, p, flags) = Write(f, new)
    BY DEF Quiet, State, Fields, WriteFlags
  <2> HIDE DEF new
  <2> QED BY <2>1, QuietWrites
<1> QED BY <1>1, <1>2, <1>3

\* deleting a page,
LEMMA QuietDeletes ==
    ASSUME NEW f, Quiet(f), NEW p PROVE Quiet(PageDelete(f, p))
<1> DEFINE marked == WriteLu(f, p, DELETED)
           new == [marked EXCEPT !.stats_p_deleted = @ + 1, !.stats_p_allocated = @ - 1]
<1>1. Quiet(marked)
  BY QuietPages
<1>2. PageDelete(f, p) = WriteFlags(Then(marked, new), p, {"DELET", "USED"})
  BY DEF PageDelete
<1> HIDE DEF marked
<1>3. Quiet(new)
  BY <1>1 DEF Quiet, State, Fields
<1> HIDE DEF new
<1>4. Quiet(Then(marked, new))
  BY <1>1, <1>3, QuietWrites
<1> QED BY <1>2, <1>4, QuietPages

\* moving a page,
LEMMA QuietMoves ==
    ASSUME NEW f, Quiet(f), NEW id, NEW src, NEW data
    PROVE  Quiet(PageMove(f, id, src, data))
<1> DEFINE g == FindFree(f)
<1>1. Quiet(g)
  <2>1. g = FindIn(f)
    BY DEF FindFree, Reserve, Quiet
  <2>2. g = f \/ g = Fail(f, "NOT_FOUND")
        \/ g = [TakeEntry(f, NextFree(f)) EXCEPT !.found = NextFree(f)]
    BY <2>1 DEF FindIn
  <2>3. Quiet([TakeEntry(f, NextFree(f)) EXCEPT !.found = NextFree(f)])
    BY DEF TakeEntry, Quiet, State, Fields
  <2> HIDE DEF g
  <2> QED BY <2>2, <2>3, QuietWrites
<1> HIDE DEF g
<1> DEFINE W == IF data = Erased THEN g.page[src]
                ELSE [data EXCEPT !.flags = (@ \ {"FINAL"}) \cup {"USED"}]
           marked == CountAllocated(WriteLu(WritePage(g, g.found, W), g.found, id))
           final == IF ~(data = Erased) /\ "FINAL" \in data.flags
                    THEN WriteFlags(marked, g.found, data.flags \cup {"USED"}) ELSE marked
<1>2. PageMove(f, id, src, data) = IF ~Ok(g) THEN g ELSE PageDelete(final, src)
  BY DEF PageMove, MoveTo, g
<1> HIDE DEF W
<1>3. Quiet(marked)
  BY <1>1, QuietPages, QuietWrites
<1> HIDE DEF marked
<1>4. Quiet(final)
  BY <1>3, QuietPages
<1> HIDE DEF final
<1> QED BY <1>1, <1>2, <1>4, QuietDeletes

\* sending an event,
LEMMA QuietTells ==
    ASSUME NEW f, Quiet(f), NEW ev, NEW o, NEW x, NEW pix, NEW size, NEW pg
    PROVE  Quiet(Event(f, ev, o, x, pix, size, pg))
<1> DEFINE new == [f EXCEPT !.fds = [d \in Fd |->
               IF f.fds[d].obj = o THEN EventFor(f.fds[d], ev, x, pix, size, pg)
               ELSE f.fds[d]]]
<1>1. Quiet(new) /\ Event(f, ev, o, x, pix, size, pg) = Then(f, new)
  BY DEF Quiet, State, Fields, Event
<1> HIDE DEF new
<1> QED BY <1>1, QuietWrites

\* moving a member of a group,
LEMMA QuietMember ==
    ASSUME NEW f, Quiet(f), NEW p, NEW id PROVE Quiet(MoveMember(f, p, id))
<1> DEFINE s == f.page[p].span
           gone == "DELET" \in f.page[p].flags
           m == MoveOrDelete(f, p)
           new == [m EXCEPT !.work.pg = SetRef(@, s, IF gone THEN NoPix ELSE m.found)]
<1>1. Quiet(m)
  BY QuietDeletes, QuietMoves DEF MoveOrDelete
<1>2. MoveMember(f, p, id) \in {f, Then(m, new)}
  BY DEF MoveMember, MoveData, Refer
<1> HIDE DEF m
<1>3. Quiet(new)
  BY <1>1 DEF Quiet, State, Fields
<1> HIDE DEF new
<1> QED BY <1>1, <1>2, <1>3, QuietWrites

\* moving a group,
LEMMA QuietGroup ==
    ASSUME NEW f, Quiet(f), NEW b, NEW id PROVE Quiet(MoveGroup(f, b, id))
<1>1. PICK h : MemberLoops(h, f, b, id)
  BY MemberLoop
<1> DEFINE K == {k \in Nat : Quiet(h[k])}
<1>2. 0 \in K
  BY <1>1 DEF MemberLoops
<1>3. ASSUME NEW k \in 0 .. NE - 1, k \in K PROVE k + 1 \in K
  <2>1. k + 1 \in Nat /\ Quiet(h[k])
    BY <1>3
  <2>2. h[k + 1] = MoveMember(h[k], <<b, k>>, id)
    BY <1>1 DEF MemberLoops
  <2> QED BY <2>1, <2>2, QuietMember
<1> HIDE DEF K
<1>4. NE \in K
  BY <1>2, <1>3, UpTo, GeometryAssumption
<1>5. MoveGroup(f, b, id) = h[NE]
  BY <1>1 DEF MemberLoops
<1> QED BY <1>4, <1>5 DEF K

\* storing its index page,
LEMMA QuietStores ==
    ASSUME NEW f, Quiet(f), NEW o PROVE Quiet(StoreGroup(f, o))
<1>1. Quiet(StoreIndexPage(f, o))
  BY QuietMoves, QuietTells DEF StoreIndexPage, EventFound
<1>2. ASSUME NEW pix, NEW data, NEW size PROVE Quiet(UpdateIndexHdr(f, NoFd, o, pix, data, size))
  <2> DEFINE pg == IF data = Erased THEN f.page[pix] ELSE data
             new == IF size = 0 THEN pg ELSE SetSize(pg, size)
             chk == IF IsIndexPage(pg, 0) THEN f ELSE Fail(f, "BAD_INDEX")
             f1 == [chk EXCEPT !.work.pg = new]
             m == PageMove(f1, IndexId(o), pix, new)
             ev == IF data = Erased THEN "UPD_HDR" ELSE "UPD"
  <2>1. UpdateIndexHdr(f, NoFd, o, pix, data, size)
        = IF ~Ok(chk) THEN chk ELSE HdrMoved(m, NoFd, o, new, ev)
    BY DEF UpdateIndexHdr
  <2>2. Quiet(chk)
    BY QuietWrites
  <2> HIDE DEF chk, new, pg, ev
  <2>3. Quiet(f1)
    BY <2>2 DEF Quiet, State, Fields
  <2> HIDE DEF f1
  <2>4. Quiet(m)
    BY <2>3, QuietMoves
  <2> HIDE DEF m
  <2>5. HdrMoved(m, NoFd, o, new, ev) = Event(m, ev, o, 0, m.found, SizeOf(new), new)
    BY DEF HdrMoved
  <2> QED BY <2>1, <2>2, <2>4, <2>5, QuietTells
<1> QED BY <1>1, <1>2 DEF StoreGroup

\* loading an index page,
LEMMA QuietLoads ==
    ASSUME NEW f, Quiet(f), NEW x PROVE Quiet(LoadFound(f, x))
<1> DEFINE c == CheckIndex(f, f.pix, x)
           new == [c EXCEPT !.work = [pg |-> c.page[f.pix], pix |-> f.pix, x |-> x]]
<1>1. Quiet(c)
  BY QuietWrites DEF CheckIndex
<1>2. LoadFound(f, x) = Then(c, new)
  BY DEF LoadFound, Load
<1> HIDE DEF c
<1>3. Quiet(new)
  BY <1>1 DEF Quiet, State, Fields
<1> HIDE DEF new
<1> QED BY <1>1, <1>2, <1>3, QuietWrites

\* searching one,
LEMMA QuietFinds ==
    ASSUME NEW f, Quiet(f), NEW id, NEW span, NEW exclude
    PROVE  Quiet(FindIdSpan(f, id, span, exclude))
<1> DEFINE p == FirstFrom(f.cursor, Matches(f, id, span, exclude))
           new == [f EXCEPT !.cursor = p, !.pix = p]
<1>1. FindIdSpan(f, id, span, exclude) \in {f, Fail(f, "NOT_FOUND"), new}
  BY DEF FindIdSpan
<1> HIDE DEF p
<1>2. Quiet(new)
  BY DEF Quiet, State, Fields
<1> QED BY <1>1, <1>2, QuietWrites

\* cleaning an entry of its data page
LEMMA QuietData ==
    ASSUME NEW f, Quiet(f), NEW b, NEW e PROVE Quiet(CleanData(f, b, e))
<1> DEFINE p == <<b, e>>
           x == IxSpan(f.page[p].span)
           id == f.lu[p]
           l == FindIdSpan(f, ToIndex(id), x, NoPix)
<1>1. CleanData(f, b, e) = f \/ CleanData(f, b, e) = CleanGroup(l, b, p, id, x)
  BY DEF CleanData
<1>2. Quiet(l)
  BY QuietFinds
<1> HIDE DEF l, p, x, id
<1>3. Quiet(Forgive(l))
  BY <1>2 DEF Forgive, Quiet, State, Fields
<1>4. Quiet(PageDelete(Forgive(l), p))
  BY <1>3, QuietDeletes
<1>5. Quiet(StoreGroup(MoveGroup(LoadFound(l, x), b, id), id.obj))
  BY <1>2, QuietLoads, QuietGroup, QuietStores
<1> QED BY <1>1, <1>4, <1>5 DEF CleanGroup

\* or of its index page.
LEMMA QuietIndex ==
    ASSUME NEW f, Quiet(f), NEW b, NEW e PROVE Quiet(CleanIndex(f, b, e))
<1> DEFINE p == <<b, e>>
           m == MoveOrDelete(f, p)
           ev == IF "DELET" \in f.page[p].flags THEN "DEL" ELSE "MOV"
<1>1. Quiet(m)
  BY QuietDeletes, QuietMoves DEF MoveOrDelete
<1>2. \/ CleanIndex(f, b, e) = f
      \/ CleanIndex(f, b, e) = Event(m, ev, f.lu[p].obj, f.page[p].span, m.found, 0, Erased)
  BY DEF CleanIndex, MoveIndex, EventFound
<1> HIDE DEF m, ev, p
<1> QED BY <1>1, <1>2, QuietTells

\* A block is cleaned, or cannot be, without "full".
LEMMA QuietCleans ==
    ASSUME NEW f, Quiet(f), NEW b PROVE Quiet(GcClean(f, b))
<1> DEFINE d == CleanDataPages(f, b)
<1>1. Quiet(d)
  <2>1. PICK h : DataLoops(h, f, b)
    BY DataLoop
  <2> DEFINE K == {k \in Nat : Quiet(h[k])}
  <2>2. 0 \in K
    BY <2>1 DEF DataLoops
  <2>3. ASSUME NEW k \in 0 .. NE - 1, k \in K PROVE k + 1 \in K
    <3>1. k + 1 \in Nat /\ Quiet(h[k])
      BY <2>3
    <3>2. h[k + 1] = CleanData(h[k], b, k)
      BY <2>1 DEF DataLoops
    <3> QED BY <3>1, <3>2, QuietData
  <2> HIDE DEF K
  <2>4. NE \in K
    BY <2>2, <2>3, UpTo, GeometryAssumption
  <2>5. d = h[NE]
    BY <2>1 DEF DataLoops
  <2> HIDE DEF d
  <2> QED BY <2>4, <2>5 DEF K
<1> HIDE DEF d
<1>2. PICK h : IxLoops(h, d, b)
  BY IxLoop
<1> DEFINE K == {k \in Nat : Quiet(h[k])}
<1>3. 0 \in K
  BY <1>1, <1>2 DEF IxLoops
<1>4. ASSUME NEW k \in 0 .. NE - 1, k \in K PROVE k + 1 \in K
  <2>1. k + 1 \in Nat /\ Quiet(h[k])
    BY <1>4
  <2>2. h[k + 1] = CleanIndex(h[k], b, k)
    BY <1>2 DEF IxLoops
  <2> QED BY <2>1, <2>2, QuietIndex
<1> HIDE DEF K
<1>5. NE \in K
  BY <1>3, <1>4, UpTo, GeometryAssumption
<1>6. CleanIndexPages(d, b) = h[NE]
  BY <1>2 DEF IxLoops
<1>7. GcClean(f, b) = CleanIndexPages(d, b)
  BY DEF GcClean, d
<1> QED BY <1>5, <1>6, <1>7 DEF K

\* Nor is erasing a block ever "full".
NotFull(f) == State(f) /\ f.res # "FULL"

\* Erasing does not fail for want of room either.
LEMMA NotFullWrites ==
    ASSUME NEW f, NotFull(f), NEW new, NotFull(new)
    PROVE  NotFull(Write(f, new)) /\ NotFull(Then(f, new))
BY DEF Write, Then, NotFull, State, Fields

\* Erasing a block.
LEMMA NotFullErases ==
    ASSUME NEW f, NotFull(f), NEW b PROVE NotFull(EraseBlock(f, b))
<1> DEFINE e == EraseFlash(f, b)
           c0 == [e EXCEPT !.free_blocks = @ + 1]
           c == Then(e, c0)
           n == f.max_erase_count
           s0 == [c EXCEPT !.ec[b] = IF @ = EcFree THEN n ELSE And(@, n)]
           s == Write(c, s0)
           m0 == [s EXCEPT !.magic[b] = TRUE]
           m == Write(s, m0)
           g0 == [m EXCEPT !.max_erase_count = IF @ + 1 \in {EcFlag, EcFree + 1} THEN 0
                                               ELSE @ + 1]
<1>1. EraseBlock(f, b) = Then(m, g0)
  BY DEF EraseBlock, WriteEraseCount, WriteMagic
<1>2. NotFull(e)
  <2> DEFINE blank == [f EXCEPT
            !.lu    = [p \in Page |-> IF p[1] = b THEN FREE ELSE @[p]],
            !.page  = [p \in Page |-> IF p[1] = b THEN Erased ELSE @[p]],
            !.ec[b] = EcFree,
            !.magic[b] = FALSE]
  <2>1. NotFull(blank) /\ e \in {f, blank, Write(f, blank)}
    BY DEF NotFull, State, Fields, EraseFlash
  <2> HIDE DEF blank, e
  <2> QED BY <2>1, NotFullWrites
<1> HIDE DEF e, n
<1>3. NotFull(c0)
  BY <1>2 DEF NotFull, State, Fields
<1> HIDE DEF c0
<1>4. NotFull(c)
  BY <1>2, <1>3, NotFullWrites
<1> HIDE DEF c
<1>5. NotFull(s0)
  BY <1>4 DEF NotFull, State, Fields
<1> HIDE DEF s0
<1>6. NotFull(s)
  BY <1>4, <1>5, NotFullWrites
<1> HIDE DEF s
<1>7. NotFull(m0)
  BY <1>6 DEF NotFull, State, Fields
<1> HIDE DEF m0
<1>8. NotFull(m)
  BY <1>6, <1>7, NotFullWrites
<1> HIDE DEF m
<1>9. NotFull(g0)
  BY <1>8 DEF NotFull, State, Fields
<1> HIDE DEF g0
<1> QED BY <1>1, <1>8, <1>9, NotFullWrites

\* Cleaning and erasing a block.
LEMMA NotFullBlock ==
    ASSUME NEW f, State(f), Ok(f), NEW b PROVE NotFull(GcBlock(f, b))
<1> DEFINE s == StartCleaning(f, b)
           c == GcClean(s, b)
           d0 == [c EXCEPT !.cleaning = FALSE]
           e0 == [d0 EXCEPT
                    !.stats_p_allocated = @ - Cardinality(PagesOf(d0, b, IsBusy)),
                    !.stats_p_deleted   = @ - Cardinality(PagesOf(d0, b, IsDeleted))]
           d == Then(d0, e0)
<1>1. GcBlock(f, b) \in {c, EraseBlock(d, b)}
  BY DEF GcBlock, EraseCleaned, GcErasePageStats
<1>2. Quiet(s)
  BY DEF StartCleaning, Quiet, State, Fields, Ok
<1> HIDE DEF s
<1>3. Quiet(c)
  BY <1>2, QuietCleans
<1> HIDE DEF c
<1>4. NotFull(c) /\ NotFull(d0)
  BY <1>3 DEF Quiet, NotFull, State, Fields
<1> HIDE DEF d0
<1>5. NotFull(e0)
  BY <1>4 DEF NotFull, State, Fields
<1> HIDE DEF e0
<1>6. NotFull(d)
  BY <1>4, <1>5, NotFullWrites
<1> HIDE DEF d
<1> QED BY <1>1, <1>4, <1>6, NotFullErases

\* As many blocks as the collector takes.
RunsOn(f0, r) == /\ r.on => Ok(r.f)
                 /\ Ok(r.f) => Fit(r.f) /\ Alike(f0, r.f) /\ SameObjs(f0, r.f)
                 /\ r.f.res # "FULL"

\* One run of the collector.
LEMMA GcRunRuns ==
    ASSUME NEW f0, NEW r, RunsOn(f0, r), NEW len, NEW s, s = GcRun(r, len)
    PROVE  RunsOn(f0, s)
<1>1. CASE ~r.on
  BY <1>1 DEF GcRun
<1>2. CASE r.on
  <2> DEFINE prev == FreePages(r.f)
             b == GcFindCandidate(r.f, prev <= 0)
             g == GcBlock(r.f, b)
  <2>1. s = RunTo(g, prev, len)
    BY <1>2 DEF GcRun
  <2>2. Ok(r.f) /\ Fit(r.f) /\ Alike(f0, r.f) /\ SameObjs(f0, r.f)
    BY <1>2 DEF RunsOn
  <2>3. b \in Block
    BY <2>2, CandidateIsFound DEF Fit
  <2> HIDE DEF b
  <2>4. Ok(g) => Fit(g) /\ Alike(r.f, g) /\ SameObjs(r.f, g)
    BY <2>2, <2>3, GcBlockRuns
  <2>7. g.res # "FULL"
    BY <2>2, NotFullBlock DEF Fit, Sound, Shaped, NotFull
  <2> HIDE DEF g, prev
  <2>5. s.f = g /\ (s.on => Ok(g))
    BY <2>1 DEF RunTo
  <2>6. Ok(g) => Alike(f0, g) /\ SameObjs(f0, g)
    <3>1. Ok(g) => Alike(f0, g)
      BY <2>2, <2>4, AlikeOn
    <3> QED BY <2>2, <2>4, <3>1 DEF SameObjs
  <2> QED BY <2>4, <2>5, <2>6, <2>7 DEF RunsOn
<1> QED BY <1>1, <1>2

\* All its runs.
LEMMA GcLoopRuns ==
    ASSUME NEW f, Ok(f), Fit(f), NEW len
    PROVE  RunsOn(f, GcLoop([f |-> f, on |-> TRUE], len))
<1> DEFINE r == [f |-> f, on |-> TRUE]
<1>1. RunsOn(f, r)
  <2>1. Alike(f, f)
    BY AlikeSelf DEF Fit, Sound, Coherent
  <2> QED BY <2>1 DEF RunsOn, Ok, SameObjs
<1> HIDE DEF r
<1>2. PICK h : RunLoops(h, r, len)
  BY RunLoop
<1> DEFINE K == {k \in Nat : RunsOn(f, h[k])}
<1>3. 0 \in K
  BY <1>1, <1>2 DEF RunLoops
<1>4. ASSUME NEW k \in 0 .. GcRuns - 1, k \in K PROVE k + 1 \in K
  <2>1. k + 1 \in Nat /\ h[k + 1] = GcRun(h[k], len) /\ RunsOn(f, h[k])
    BY <1>2, <1>4 DEF RunLoops
  <2>2. RunsOn(f, h[k + 1])
    BY <2>1, GcRunRuns
  <2> QED BY <2>1, <2>2
<1> HIDE DEF K
<1>5. GcRuns \in K
  BY <1>3, <1>4, UpTo, ObjectAssumption
<1>6. GcLoop(r, len) = h[GcRuns]
  BY <1>2 DEF RunLoops
<1> QED BY <1>5, <1>6 DEF K, r

\* What the code has in its locals, and what the HAL is to do, say nothing of
\* the objects.
Locals == {"res", "fuel", "fault", "found", "pix", "pos", "broken", "out", "work"}

\* What changes local state alone keeps the chip fit.
LEMMA FitStays ==
    ASSUME NEW f, Fit(f), NEW g, Keeps(f, g, Locals), g.fault # "erase"
    PROVE  Fit(g) /\ Alike(f, g) /\ SameObjs(f, g)
<1>1. /\ Shaped(f) /\ Lined(f) /\ Coherent(f) /\ Filled(f)
      /\ Handled(f) /\ Followed(f) /\ Known(f)
      /\ Sized(f) /\ Worn(f) /\ f.fault # "erase"
  BY DEF Fit, Sound
<1>2. /\ g.lu = f.lu /\ g.page = f.page /\ g.fds = f.fds /\ g.free_cursor = f.free_cursor
      /\ g.ec = f.ec /\ g.max_erase_count = f.max_erase_count /\ State(g)
  BY DEF Keeps, Fields, Locals
<1>3. Shaped(g) /\ Lined(g) /\ Handled(g) /\ Sized(g) /\ Worn(g)
  BY <1>1, <1>2 DEF Shaped, Lined, Packed, AtCursor, NoneBelow, Handled, Sized, Worn
<1>4. Coherent(g) /\ Filled(g) /\ Followed(g) /\ Alike(f, g)
  <2>1. \A p \in Page : SamePage(f, g, p)
    BY <1>2 DEF SamePage
  <2>2. Alike(f, f)
    BY <1>1, AlikeSelf DEF Coherent
  <2> QED BY <1>1, <1>2, <2>1, <2>2, SameChip
<1>5. Known(g)
  BY <1>1, <1>2, <1>4, KnownStays
<1>6. SameObjs(f, g)
  BY <1>2 DEF SameObjs
<1> QED BY <1>1, <1>2, <1>3, <1>4, <1>5, <1>6 DEF Fit, Sound

\* spiffs_gc_check on a fit chip: when it ends with success or with a full
\* chip, every object has the pages it had, with what was in them, whatever
\* blocks were cleaned and erased; the chip is coherent, and every open
\* descriptor and index map points to where the pages now are.
THEOREM GcCheckKeepsObjects ==
    ASSUME NEW f, Fit(f), Ok(f), NEW len, NEW g, g = GcCheck(f, len),
           g.res \in {"OK", "FULL"}
    PROVE  Fit(g) /\ Alike(f, g) /\ SameObjs(f, g)
<1>1. Alike(f, f) /\ SameObjs(f, f)
  BY AlikeSelf DEF Fit, Sound, Coherent, SameObjs
<1> DEFINE r == GcLoop([f |-> f, on |-> TRUE], len)
<1>2. RunsOn(f, r)
  BY GcLoopRuns
<1>3. g \in {f, Fail(f, "FULL"), GcFinish(r.f, len)}
  BY DEF GcCheck
<1> HIDE DEF r
<1>4. ASSUME NEW h, Ok(h), Fit(h), Alike(f, h), SameObjs(f, h), g = Fail(h, "FULL")
      PROVE  Fit(g) /\ Alike(f, g) /\ SameObjs(f, g)
  <2>1. Keeps(h, g, Locals) /\ g.fault # "erase"
    BY <1>4 DEF Fail, Fit, Sound, Shaped, State, Fields, Keeps, Locals
  <2>2. Fit(g) /\ Alike(h, g) /\ SameObjs(h, g)
    BY <1>4, <2>1, FitStays
  <2>3. SameObjs(f, g)
    BY <1>4, <2>2 DEF SameObjs
  <2> QED BY <1>4, <2>2, <2>3, AlikeOn
<1>5. CASE g = f
  BY <1>1, <1>5
<1>6. CASE g = Fail(f, "FULL")
  BY <1>1, <1>4, <1>6
<1>7. CASE g = GcFinish(r.f, len)
  <2>1. g = r.f \/ g = Fail(r.f, "FULL")
    BY <1>7 DEF GcFinish
  <2>2. Ok(r.f)
    BY <1>2, <2>1 DEF Fail, RunsOn, Ok
  <2> QED BY <1>2, <1>4, <2>1, <2>2 DEF RunsOn
<1> QED BY <1>3, <1>5, <1>6, <1>7

----------------------------------------------------------------------------
(* Reading an object.                                                      *)

\* Descriptor fd is one of o, and what it has cached of it is so.
Views(f, fd, o) == IsHandle(fd) /\ fd.obj = o /\ Follows(f, fd) /\ Knows(f, fd)

\* The work buffer holds an index page of o, or none yet.
Holds(f, o) ==
    f.work.x \in Nat =>
       \E q : IsPageOf(f, q, IndexId(o), f.work.x) /\ f.work.pg = f.page[q]

\* A read of o by descriptor d of the chip f0 has come to f.
Reading(f0, f, d, o) ==
    /\ Shaped(f) /\ Coherent(f) /\ f.lu = f0.lu /\ f.page = f0.page
    /\ DOMAIN f.fds = Fd /\ Views(f, f.fds[d], o) /\ Holds(f, o)

\* The page found is the index page looked for.
LEMMA FoundLoads ==
    ASSUME NEW f, Shaped(f), AsListed(f), NEW o \in Obj,
           NEW x, NEW q, IsPageOf(f, q, IndexId(o), x),
           NEW l, Ok(l), l.pix = q, Keeps(f, l, {"cursor", "pix"})
    PROVE  Loaded(f, LoadFound(l, x), q, x)
<1>1. q \in Page /\ f.lu[q] = IndexId(o) /\ f.page[q].span = x
  BY DEF IsPageOf
<1>2. Whole(f, q) /\ IsIndexId(f.lu[q])
  <2>1. IsIndexId(f.lu[q]) /\ IsBusy(f.lu[q])
    BY <1>1, IdsOf, IdIsBusy
  <2> QED BY <1>1, <2>1, BusyIsWhole
<1>3. l.page = f.page
  BY DEF Keeps, Fields
<1>4. CheckIndex(l, q, x) = l
  BY <1>1, <1>2, <1>3 DEF CheckIndex, IsIndexPage, Whole
<1>5. LoadFound(l, x) = [l EXCEPT !.work = [pg |-> f.page[q], pix |-> q, x |-> x]]
  BY <1>3, <1>4 DEF LoadFound, Load, Then
<1> QED BY <1>5 DEF Loaded, Keeps, State, Fields, Ok

\* One page for each span.
LEMMA OnePage ==
    ASSUME NEW f, OneOfEach(f), NEW id \in ObjectIds, NEW s, NEW p, NEW q,
           IsPageOf(f, p, id, s), IsPageOf(f, q, id, s)
    PROVE  p = q
<1>1. p \in Page /\ q \in Page /\ f.lu[p] = id /\ f.page[p].span = s /\ IsBusy(f.lu[p])
  BY IdIsBusy DEF IsPageOf
<1> QED BY <1>1 DEF OneOfEach

\* The index page of a span is found, by the cursor or by search.
LEMMA IndexLoads ==
    ASSUME NEW f, Shaped(f), Coherent(f), Ok(f), NEW o \in Obj, NEW d, Views(f, f.fds[d], o),
           NEW x \in Nat, NEW q, IsPageOf(f, q, IndexId(o), x)
    PROVE  Loaded(f, LoadIndex(f, d, x), q, x)
<1>1. AsListed(f) /\ OneOfEach(f) /\ State(f)
  BY DEF Coherent, Shaped
<1>2. /\ f.fds[d].obj = o /\ IndexId(o) \in ObjectIds /\ q \in Page
      /\ IsPageOf(f, f.fds[d].hdr, IndexId(o), 0)
      /\ f.fds[d].cpix # NoPix => IsPageOf(f, f.fds[d].cpix, IndexId(o), f.fds[d].cspix)
      /\ f.fds[d].cpix = NoPix => NoPage(f, IndexId(o), f.fds[d].cspix)
  BY IdsOf DEF Views, Follows, Knows, IsPageOf
<1>3. ASSUME NEW l, l = [f EXCEPT !.pix = q] PROVE Loaded(f, LoadFound(l, x), q, x)
  <2>1. Ok(l) /\ l.pix = q /\ Keeps(f, l, {"cursor", "pix"})
    BY <1>1, <1>3 DEF Keeps, State, Fields, Ok
  <2> QED BY <1>1, <2>1, FoundLoads
<1>4. CASE x = 0
  <2>1. f.fds[d].hdr = q
    BY <1>1, <1>2, <1>4, OnePage
  <2>2. LoadIndex(f, d, x) = LoadFound([f EXCEPT !.pix = q], x)
    BY <1>4, <2>1 DEF LoadIndex
  <2> QED BY <1>3, <2>2
<1>5. CASE x # 0 /\ f.fds[d].cspix = x
  <2>1. f.fds[d].cpix = q
    <3>1. f.fds[d].cpix # NoPix
      BY <1>2, <1>5 DEF NoPage
    <3> QED BY <1>1, <1>2, <1>5, <3>1, OnePage
  <2>2. LoadIndex(f, d, x) = LoadFound([f EXCEPT !.pix = q], x)
    BY <1>5, <2>1 DEF LoadIndex, FindIndex, Then
  <2> QED BY <1>3, <2>2
<1>6. CASE x # 0 /\ f.fds[d].cspix # x
  <2>1. LoadIndex(f, d, x) = LoadFound(FindIdSpan(f, IndexId(o), x, NoPix), x)
    BY <1>2, <1>6 DEF LoadIndex, FindIndex
  <2> QED BY <1>1, <1>2, <2>1, IndexIsFound
<1> QED BY <1>4, <1>5, <1>6

\* Looking for an index page leaves a state a state.
LEMMA IndexLoadsState ==
    ASSUME NEW f, State(f), NEW d, NEW x PROVE State(LoadIndex(f, d, x))
<1>1. ASSUME NEW g, State(g) PROVE State(LoadFound(g, x))
  <2>1. State(CheckIndex(g, g.pix, x))
    BY <1>1 DEF CheckIndex, Fail, State, Fields
  <2> DEFINE c == CheckIndex(g, g.pix, x)
  <2> HIDE DEF c
  <2> QED BY <2>1 DEF LoadFound, Load, Then, State, Fields, c
<1>2. ASSUME NEW id PROVE State(FindIdSpan(f, id, x, NoPix))
  BY DEF FindIdSpan, Fail, State, Fields
<1>3. State([f EXCEPT !.pix = f.fds[d].hdr]) /\ State([f EXCEPT !.pix = f.fds[d].cpix])
  BY DEF State, Fields
<1>4. State(FindIndex(f, d, x))
  BY <1>2, <1>3 DEF FindIndex, Then
<1> QED BY <1>1, <1>3, <1>4 DEF LoadIndex

\* An index page that is not there is not found.
LEMMA IndexIsMissed ==
    ASSUME NEW f, State(f), Ok(f), NEW o, NEW d, Views(f, f.fds[d], o),
           NEW x \in Nat, NoPage(f, IndexId(o), x)
    PROVE  ~Ok(LoadIndex(f, d, x))
<1>1. /\ f.fds[d].obj = o
      /\ IsPageOf(f, f.fds[d].hdr, IndexId(o), 0)
      /\ f.fds[d].cpix # NoPix => IsPageOf(f, f.fds[d].cpix, IndexId(o), f.fds[d].cspix)
  BY DEF Views, Follows
<1>2. x # 0
  BY <1>1 DEF NoPage, IsPageOf
<1>3. ASSUME NEW l, ~Ok(l) PROVE ~Ok(LoadFound(l, x))
  BY <1>3 DEF LoadFound, Load, CheckIndex, Fail, Then
<1>4. CASE f.fds[d].cspix = x
  <2> DEFINE l == [f EXCEPT !.pix = NoPix]
  <2>1. f.fds[d].cpix = NoPix
    BY <1>1, <1>4 DEF NoPage, IsPageOf
  <2>2. LoadIndex(f, d, x) = LoadFound(l, x)
    BY <1>2, <1>4, <2>1 DEF LoadIndex, FindIndex, Then
  <2>3. l.pix = NoPix /\ Ok(l) /\ State(l)
    BY DEF State, Fields, Ok
  <2> HIDE DEF l
  <2>4. CheckIndex(l, l.pix, x) = [l EXCEPT !.res = "BAD_INDEX"]
    BY <2>3, ObjectAssumption DEF CheckIndex, Fail
  <2>5. ~Ok([l EXCEPT !.res = "BAD_INDEX"])
    BY <2>3 DEF State, Fields, Ok
  <2> QED BY <2>2, <2>4, <2>5 DEF LoadFound, Load, Then
<1>5. CASE f.fds[d].cspix # x
  <2>1. LoadIndex(f, d, x) = LoadFound(FindIdSpan(f, IndexId(o), x, NoPix), x)
    BY <1>1, <1>2, <1>5 DEF LoadIndex, FindIndex
  <2>2. Matches(f, IndexId(o), x, NoPix) = {}
    BY DEF Matches, NoPage, IsPageOf
  <2>3. ~Ok(FindIdSpan(f, IndexId(o), x, NoPix))
    BY <2>2 DEF FindIdSpan, Fail, Ok, State, Fields
  <2> QED BY <1>3, <2>1, <2>3
<1> QED BY <1>4, <1>5

\* A descriptor that remembers another index page.
LEMMA HandlePoints ==
    ASSUME NEW fd, IsHandle(fd), NEW q, NEW x, NEW new,
           new = [fd EXCEPT !.cpix = q, !.cspix = x]
    PROVE  new = [obj |-> fd.obj, hdr |-> fd.hdr, size |-> fd.size, cpix |-> q,
                  cspix |-> x, map |-> fd.map]
<1>1. fd = [obj |-> fd.obj, hdr |-> fd.hdr, size |-> fd.size, cpix |-> fd.cpix,
            cspix |-> fd.cspix, map |-> fd.map]
  BY DEF IsHandle
<1>2. DOMAIN fd = {"obj", "hdr", "size", "cpix", "cspix", "map"}
  BY <1>1
<1>3. DOMAIN new = DOMAIN fd /\ new.cpix = q /\ new.cspix = x
  BY <1>2
<1>4. new.obj = fd.obj /\ new.hdr = fd.hdr /\ new.size = fd.size /\ new.map = fd.map
  BY <1>2
<1>5. new = [k \in DOMAIN new |-> new[k]]
  OBVIOUS
<1> QED BY <1>2, <1>3, <1>4, <1>5

\* The cursor of the descriptor is set to a page of the index.
LEMMA PointsAtIndex ==
    ASSUME NEW f0, NEW f, NEW d, d \in Fd, NEW o \in Obj, Reading(f0, f, d, o), Ok(f),
           NEW x \in Nat, NEW q, IsPageOf(f, q, IndexId(o), x),
           NEW g, g = SetCursor(f, d, q, x)
    PROVE  /\ Reading(f0, g, d, o) /\ Ok(g)
           /\ g.work = f.work /\ g.out = f.out /\ g.page = f.page
<1> DEFINE fd == f.fds[d]
           new == [fd EXCEPT !.cpix = q, !.cspix = x]
<1>1. /\ Shaped(f) /\ Coherent(f) /\ f.lu = f0.lu /\ f.page = f0.page /\ State(f)
      /\ DOMAIN f.fds = Fd /\ IsHandle(fd) /\ fd.obj = o /\ Follows(f, fd) /\ Knows(f, fd)
      /\ Holds(f, o)
  BY DEF Reading, Views, Shaped
<1>2. g = [f EXCEPT !.fds = [f.fds EXCEPT ![d] = new]]
  BY <1>1 DEF SetCursor, Then
<1>3. /\ g.lu = f.lu /\ g.page = f.page /\ State(g) /\ g.work = f.work /\ g.out = f.out
      /\ g.res = f.res /\ DOMAIN g.fds = Fd /\ g.fds[d] = new
  <2> HIDE DEF new
  <2> QED BY <1>1, <1>2 DEF State, Fields
<1>4. /\ new = [obj |-> o, hdr |-> fd.hdr, size |-> fd.size, cpix |-> q,
                cspix |-> x, map |-> fd.map]
  <2>1. IsHandle(fd) /\ fd.obj = o
    BY <1>1
  <2> HIDE DEF fd
  <2> QED BY <2>1, HandlePoints
<1> HIDE DEF fd, new
<1>5. IsHandle(new) /\ new.obj = o
  BY <1>1, <1>4 DEF IsHandle
<1>6. \A p, id, s : IsPageOf(g, p, id, s) <=> IsPageOf(f, p, id, s)
  BY <1>3 DEF IsPageOf
<1>7. Follows(g, new)
  BY <1>1, <1>4, <1>6 DEF Follows
<1>8. Knows(g, new)
  <2>1. MapKnows(g, new.map, o)
    BY <1>1, <1>4, <1>6 DEF Knows, MapKnows, NoPage
  <2>2. new.cpix # NoPix
    BY <1>4, ObjectAssumption DEF IsPageOf
  <2>3. Len0(new.size) = Len0(SizeOf(g.page[new.hdr]))
    BY <1>1, <1>3, <1>4 DEF Knows
  <2> QED BY <1>5, <2>1, <2>2, <2>3 DEF Knows
<1>9. Shaped(g)
  BY <1>1, <1>3 DEF Shaped
<1>10. Coherent(g)
  <2>1. \A p \in Page : SamePage(f, g, p)
    BY <1>3 DEF SamePage
  <2> QED BY <1>1, <2>1, SameChip
<1>11. Holds(g, o)
  BY <1>1, <1>3, <1>6 DEF Holds
<1>12. Ok(g)
  BY <1>3 DEF Ok
<1> QED BY <1>1, <1>3, <1>5, <1>7, <1>8, <1>9, <1>10, <1>11, <1>12 DEF Reading, Views

\* The index page just loaded is one of the object.
LEMMA LoadedIsRead ==
    ASSUME NEW f0, NEW f, NEW d, NEW o \in Obj, Reading(f0, f, d, o),
           NEW x \in Nat, NEW q, IsPageOf(f, q, IndexId(o), x), NEW g, Loaded(f, g, q, x)
    PROVE  /\ Reading(f0, g, d, o) /\ Ok(g) /\ IsPageOf(g, q, IndexId(o), x)
           /\ g.work.pix = q /\ g.work.pg = f.page[q] /\ g.out = f.out
<1>1. /\ Shaped(f) /\ Coherent(f) /\ f.lu = f0.lu /\ f.page = f0.page
      /\ DOMAIN f.fds = Fd /\ Views(f, f.fds[d], o)
  BY DEF Reading
<1>2. /\ g.lu = f.lu /\ g.page = f.page /\ State(g) /\ g.fds = f.fds /\ g.out = f.out
      /\ g.work = [pg |-> f.page[q], pix |-> q, x |-> x] /\ Ok(g)
  BY DEF Loaded, Keeps, Fields
<1>3. g.work.pix = q /\ g.work.pg = f.page[q] /\ g.work.x = x
  BY <1>2
<1>4. \A p, id, s : IsPageOf(g, p, id, s) <=> IsPageOf(f, p, id, s)
  BY <1>2 DEF IsPageOf
<1>5. Views(g, g.fds[d], o)
  BY <1>1, <1>2, <1>4 DEF Views, Follows, Knows, MapKnows, NoPage
<1>6. Shaped(g)
  BY <1>1, <1>2 DEF Shaped
<1>7. Coherent(g)
  <2>1. \A p \in Page : SamePage(f, g, p)
    BY <1>2 DEF SamePage
  <2> QED BY <1>1, <2>1, SameChip
<1>8. Holds(g, o)
  BY <1>2, <1>3, <1>4 DEF Holds
<1> QED BY <1>1, <1>2, <1>3, <1>4, <1>5, <1>6, <1>7, <1>8 DEF Reading

\* The index page of a data page, and what it refers to.
LEMMA IndexOfData ==
    ASSUME NEW f, Coherent(f), NEW o \in Obj, NEW s \in Nat
    PROVE  /\ \A p : IsPageOf(f, p, DataId(o), s) =>
                 \E q : IsPageOf(f, q, IndexId(o), IxSpan(s)) /\ RefAt(f.page[q], s) = p
           /\ \A q : IsPageOf(f, q, IndexId(o), IxSpan(s)) /\ NoPage(f, DataId(o), s)
                     => RefAt(f.page[q], s) = NoPix
<1>1. ItsDataIsReferred(f) /\ RefersToItsData(f)
  BY DEF Coherent
<1>2. /\ IsDataId(DataId(o)) /\ IsIndexId(IndexId(o))
      /\ DataId(o).obj = o /\ IndexId(o).obj = o
  BY IdsOf
<1>3. ASSUME NEW p, IsPageOf(f, p, DataId(o), s)
      PROVE  \E q : IsPageOf(f, q, IndexId(o), IxSpan(s)) /\ RefAt(f.page[q], s) = p
  <2>1. p \in Page /\ f.lu[p] = DataId(o) /\ f.page[p].span = s
    BY <1>3 DEF IsPageOf
  <2>2. PICK q \in Page : IsPageOf(f, q, IndexId(o), IxSpan(s)) /\ RefAt(f.page[q], s) = p
    BY <1>1, <1>2, <2>1 DEF ItsDataIsReferred
  <2> QED BY <2>2
<1>4. ASSUME NEW q, IsPageOf(f, q, IndexId(o), IxSpan(s)), NoPage(f, DataId(o), s)
      PROVE  RefAt(f.page[q], s) = NoPix
  <2>1. q \in Page /\ f.lu[q] = IndexId(o) /\ f.page[q].span = IxSpan(s)
    BY <1>4 DEF IsPageOf
  <2>2. s \in SpansOf(IxSpan(s))
    BY SpansOfIndex
  <2>3. RefAt(f.page[q], s) # NoPix => IsPageOf(f, RefAt(f.page[q], s), DataId(o), s)
    BY <1>1, <1>2, <2>1, <2>2 DEF RefersToItsData
  <2> QED BY <1>4, <2>3 DEF NoPage, IsPageOf
<1> QED BY <1>3, <1>4

\* The index page of a span is in the work buffer, or is loaded.
EntersRead(f, d, x) ==
    IF x = f.work.x THEN f ELSE PointToWork(LoadIndex(f, d, x), d, x)

\* Reading enters the index page of a span.
LEMMA IndexIsEntered ==
    ASSUME NEW f0, NEW f, NEW d \in Fd, NEW o \in Obj, Reading(f0, f, d, o), Ok(f),
           NEW x \in Nat, NEW q, IsPageOf(f, q, IndexId(o), x),
           NEW e, e = EntersRead(f, d, x)
    PROVE  /\ Reading(f0, e, d, o) /\ Ok(e) /\ e.out = f.out
           /\ e.work.pg = f.page[q]
<1>1. Shaped(f) /\ Coherent(f) /\ Views(f, f.fds[d], o) /\ Holds(f, o)
  BY DEF Reading
<1>2. CASE x = f.work.x
  <2>1. PICK p : IsPageOf(f, p, IndexId(o), x) /\ f.work.pg = f.page[p]
    BY <1>1, <1>2 DEF Holds
  <2>2. p = q
    BY <1>1, <2>1, OnePage, IdsOf DEF Coherent
  <2> QED BY <1>2, <2>1, <2>2 DEF EntersRead
<1>3. CASE x # f.work.x
  <2> DEFINE l == LoadIndex(f, d, x)
  <2>1. Loaded(f, l, q, x)
    BY <1>1, IndexLoads
  <2>2. e = SetCursor(l, d, l.work.pix, x)
    BY <1>3 DEF EntersRead, PointToWork
  <2> HIDE DEF l
  <2>3. /\ Reading(f0, l, d, o) /\ Ok(l) /\ IsPageOf(l, q, IndexId(o), x)
        /\ l.work.pix = q /\ l.work.pg = f.page[q] /\ l.out = f.out
    BY <2>1, LoadedIsRead
  <2>4. /\ Reading(f0, e, d, o) /\ Ok(e) /\ e.work = l.work /\ e.out = l.out
    BY <2>2, <2>3, PointsAtIndex
  <2> QED BY <2>3, <2>4
<1> QED BY <1>2, <1>3

\* A page that is only noted stays so.
LEMMA NotesPage ==
    ASSUME NEW f0, NEW f, NEW d, NEW o, Reading(f0, f, d, o), NEW g,
           Keeps(f, g, {"pix", "out"})
    PROVE  Reading(f0, g, d, o)
<1>1. /\ g.lu = f.lu /\ g.page = f.page /\ State(g) /\ g.fds = f.fds /\ g.work = f.work
  BY DEF Keeps, Fields
<1>2. /\ Shaped(f) /\ Coherent(f) /\ f.lu = f0.lu /\ f.page = f0.page
      /\ DOMAIN f.fds = Fd /\ Views(f, f.fds[d], o) /\ Holds(f, o)
  BY DEF Reading
<1>3. \A p, id, s : IsPageOf(g, p, id, s) <=> IsPageOf(f, p, id, s)
  BY <1>1 DEF IsPageOf
<1>4. Views(g, g.fds[d], o) /\ Holds(g, o)
  BY <1>1, <1>2, <1>3 DEF Views, Follows, Knows, MapKnows, NoPage, Holds
<1>5. Shaped(g)
  BY <1>1, <1>2 DEF Shaped
<1>6. Coherent(g)
  <2>1. \A p \in Page : SamePage(f, g, p)
    BY <1>1 DEF SamePage
  <2> QED BY <1>2, <2>1, SameChip
<1> QED BY <1>1, <1>2, <1>4, <1>5, <1>6 DEF Reading

\* The data page of a span is found, by the map or by its index page.
LEMMA PixIsFound ==
    ASSUME NEW f0, NEW f, NEW d \in Fd, NEW o \in Obj, Reading(f0, f, d, o), Ok(f),
           NEW s \in Nat, NEW p, IsPageOf(f, p, DataId(o), s),
           NEW r, r = ReadPix(f, d, s)
    PROVE  Reading(f0, r, d, o) /\ Ok(r) /\ r.pix = p /\ r.out = f.out
<1> DEFINE map == f.fds[d].map
           e == EntersRead(f, d, IxSpan(s))
<1>1. /\ Shaped(f) /\ Coherent(f) /\ State(f) /\ Views(f, f.fds[d], o)
  BY DEF Reading, Shaped
<1>2. r = IF s \in DOMAIN map.buf THEN [f EXCEPT !.pix = map.buf[s]]
          ELSE Then(e, [e EXCEPT !.pix = RefAt(e.work.pg, s)])
  BY DEF ReadPix, EntersRead
<1> HIDE DEF e
<1>3. CASE s \in DOMAIN map.buf
  <2>1. map.buf[s] = p
    <3>1. map.buf[s] # NoPix
      BY <1>1, <1>3 DEF Views, Knows, MapKnows, NoPage, IsPageOf
    <3>2. IsPageOf(f, map.buf[s], DataId(o), s)
      BY <1>1, <1>3, <3>1 DEF Views, Follows
    <3> QED BY <1>1, <3>2, OnePage, IdsOf DEF Coherent
  <2>2. r = [f EXCEPT !.pix = p]
    BY <1>2, <1>3, <2>1
  <2>3. Keeps(f, r, {"pix", "out"}) /\ Ok(r) /\ r.pix = p /\ r.out = f.out
    BY <1>1, <2>2 DEF Keeps, State, Fields, Ok
  <2> QED BY <2>3, NotesPage
<1>4. CASE s \notin DOMAIN map.buf
  <2>1. PICK q : IsPageOf(f, q, IndexId(o), IxSpan(s)) /\ RefAt(f.page[q], s) = p
    BY <1>1, IndexOfData
  <2>2. IxSpan(s) \in Nat
    BY SpansOfIndex
  <2>3. Reading(f0, e, d, o) /\ Ok(e) /\ e.out = f.out /\ e.work.pg = f.page[q]
    BY <2>1, <2>2, IndexIsEntered DEF e
  <2>4. r = [e EXCEPT !.pix = p]
    BY <1>2, <1>4, <2>1, <2>3 DEF Then
  <2>5. Keeps(e, r, {"pix", "out"}) /\ Ok(r) /\ r.pix = p /\ r.out = f.out
    BY <2>3, <2>4 DEF Keeps, State, Fields, Ok, Reading, Shaped
  <2> QED BY <2>3, <2>5, NotesPage
<1> QED BY <1>3, <1>4

\* For a span without a data page none is found.
LEMMA PixIsMissed ==
    ASSUME NEW f0, NEW f, NEW d \in Fd, NEW o \in Obj, Reading(f0, f, d, o), Ok(f),
           NEW s \in Nat, NoPage(f, DataId(o), s), NEW r, r = ReadPix(f, d, s)
    PROVE  State(r) /\ (Ok(r) => r.pix = NoPix)
<1> DEFINE map == f.fds[d].map
           x == IxSpan(s)
           e == EntersRead(f, d, x)
<1>1. /\ Shaped(f) /\ Coherent(f) /\ State(f) /\ Views(f, f.fds[d], o)
  BY DEF Reading, Shaped
<1>2. r = IF s \in DOMAIN map.buf THEN [f EXCEPT !.pix = map.buf[s]]
          ELSE Then(e, [e EXCEPT !.pix = RefAt(e.work.pg, s)])
  BY DEF ReadPix, EntersRead
<1>3. CASE s \in DOMAIN map.buf
  <2>1. map.buf[s] = NoPix
    BY <1>1, <1>3 DEF Views, Follows, NoPage, IsPageOf
  <2> QED BY <1>1, <1>2, <1>3, <2>1 DEF State, Fields
<1>4. CASE s \notin DOMAIN map.buf
  <2>1. x \in Nat
    BY SpansOfIndex
  <2>2. CASE \E q : IsPageOf(f, q, IndexId(o), x)
    <3>1. PICK q : IsPageOf(f, q, IndexId(o), x)
      BY <2>2
    <3>2. RefAt(f.page[q], s) = NoPix
      BY <1>1, <3>1, IndexOfData
    <3> HIDE DEF x
    <3>3. Reading(f0, e, d, o) /\ Ok(e) /\ e.work.pg = f.page[q]
      BY <2>1, <3>1, IndexIsEntered DEF e
    <3> HIDE DEF e
    <3> QED BY <1>2, <1>4, <3>2, <3>3 DEF Then, State, Fields, Reading, Shaped
  <2>3. CASE ~\E q : IsPageOf(f, q, IndexId(o), x)
    <3>1. NoPage(f, IndexId(o), x)
      BY <2>3 DEF NoPage
    <3>2. x # f.work.x
      BY <2>1, <2>3 DEF Reading, Holds
    <3> DEFINE l == LoadIndex(f, d, x)
    <3> HIDE DEF x
    <3>3. ~Ok(l)
      BY <1>1, <2>1, <3>1, IndexIsMissed
    <3>4. State(l)
      BY <1>1, IndexLoadsState
    <3>5. e = SetCursor(l, d, l.work.pix, x)
      BY <3>2 DEF EntersRead, PointToWork
    <3> HIDE DEF l, e
    <3>6. e = l
      BY <3>3, <3>5 DEF SetCursor, Then
    <3>7. r = l
      BY <1>2, <1>4, <3>3, <3>6 DEF Then
    <3> QED BY <3>3, <3>4, <3>7
  <2> QED BY <2>2, <2>3
<1> QED BY <1>3, <1>4

\* The bytes of data page s of an object of n bytes.
PageBytes(pg, s, n, erased) ==
    [i \in 1 .. EndIn(s, n) - s * DPS |-> Slot(pg, i - 1, erased)]

\* One page is read, if it is there.
ReadOn(f0, f, d, o, bytes, g) ==
    Reading(f0, g, d, o) /\ Ok(g) /\ g.out = f.out \o bytes

\* One step of a read delivers the bytes of the data page of its span.
LEMMA StepReads ==
    ASSUME NEW f0, NEW f, NEW d \in Fd, NEW o \in Obj, Reading(f0, f, d, o), Ok(f),
           NEW s \in Nat, NEW p, IsPageOf(f, p, DataId(o), s), NEW n, NEW erased,
           NEW g, g = ReadStep(f, d, s, n, erased)
    PROVE  ReadOn(f0, f, d, o, PageBytes(f.page[p], s, n, erased), g)
<1> DEFINE r == ReadPix(f, d, s)
<1>1. Reading(f0, r, d, o) /\ Ok(r) /\ r.pix = p /\ r.out = f.out
  BY PixIsFound
<1>2. g = ReadData(r, s, n, erased)
  BY DEF ReadStep
<1> HIDE DEF r
<1>3. r.page = f.page /\ State(r)
  BY <1>1 DEF Reading, Shaped
<1>4. DataStatus(r, p, s) = "OK"
  <2>1. p \in Page /\ f.lu[p] = DataId(o) /\ f.page[p].span = s /\ p # NoPix
    BY ObjectAssumption DEF IsPageOf
  <2>2. Whole(f, p) /\ ~IsIndexId(f.lu[p])
    <3>1. IsBusy(f.lu[p]) /\ ~IsIndexId(f.lu[p])
      BY <2>1, IdsOf, IdIsBusy
    <3> QED BY <2>1, <3>1, BusyIsWhole DEF Reading, Coherent
  <2> QED BY <1>3, <2>1, <2>2 DEF DataStatus, IsDataPage, Whole, Valid
<1>5. CheckData(r, r.pix, s) = r
  BY <1>1, <1>4 DEF CheckData
<1>6. g = [r EXCEPT !.out = r.out \o PageBytes(r.page[r.pix], s, n, erased)]
  BY <1>1, <1>2, <1>5 DEF ReadData, Then, PageBytes
<1>7. /\ Keeps(r, g, {"pix", "out"}) /\ Ok(g)
      /\ g.out = r.out \o PageBytes(r.page[r.pix], s, n, erased)
  <2> DEFINE v == r.out \o PageBytes(r.page[r.pix], s, n, erased)
  <2> HIDE DEF v
  <2>1. g = [r EXCEPT !.out = v]
    BY <1>6 DEF v
  <2>2. Keeps(r, g, {"pix", "out"}) /\ Ok(g) /\ g.out = v
    BY <1>1, <1>3, <2>1 DEF Keeps, State, Fields, Ok
  <2> QED BY <2>2 DEF v
<1>8. Reading(f0, g, d, o)
  BY <1>1, <1>7, NotesPage
<1> QED BY <1>1, <1>3, <1>7, <1>8 DEF ReadOn

\* A page that is not there ends the read.
LEMMA StepFails ==
    ASSUME NEW f0, NEW f, NEW d \in Fd, NEW o \in Obj, Reading(f0, f, d, o), Ok(f),
           NEW s \in Nat, NoPage(f, DataId(o), s), NEW n, NEW erased,
           NEW g, g = ReadStep(f, d, s, n, erased)
    PROVE  ~Ok(g)
<1> DEFINE r == ReadPix(f, d, s)
<1>1. State(r) /\ (Ok(r) => r.pix = NoPix)
  BY PixIsMissed
<1>2. g = ReadData(r, s, n, erased)
  BY DEF ReadStep
<1> HIDE DEF r
<1>3. CASE ~Ok(r)
  BY <1>2, <1>3 DEF ReadData
<1>4. CASE Ok(r)
  <2> DEFINE c == [r EXCEPT !.res = "INDEX_REF_FREE"]
  <2>1. CheckData(r, r.pix, s) = c
    BY <1>1, <1>4 DEF CheckData, DataStatus, Fail
  <2>2. ~Ok(c)
    BY <1>1 DEF State, Fields, Ok
  <2> HIDE DEF c
  <2> QED BY <1>2, <1>4, <2>1, <2>2 DEF ReadData, Then
<1> QED BY <1>3, <1>4

\* The pages of an object are read one after the other.
ReadLoops(h, b, d, n, erased, m) ==
    /\ h[0] = b
    /\ \A k \in 0 .. m - 1 : h[k + 1] = ReadStep(h[k], d, k, n, erased)
    /\ ReadPages(b, d, n, erased) = h[m]

\* The loop of a read, as a function of the pages read.
LEMMA ReadLoop ==
    ASSUME NEW b, NEW d, NEW n \in Nat, NEW erased, NEW m, m = Pages(n)
    PROVE  m \in Nat /\ \E h : ReadLoops(h, b, d, n, erased, m)
<1> DEFINE seq == SpansBetween(0, n)
           P(g) == g = [s \in SUBSET (1 .. m) |->
                      IF s = {} THEN b
                      ELSE ReadStep(g[s \ {Max(s)}], d, seq[Max(s)], n, erased)]
           it == CHOOSE g : P(g)
<1>0. m \in Nat
  <2>1. n + DPS - 1 \in Nat /\ DPS \in Nat \ {0}
    BY ObjectAssumption
  <2>2. (n + DPS - 1) \div DPS \in Nat
    BY <2>1, Divide
  <2> QED BY <2>2 DEF Pages
<1>a. DOMAIN seq = 1 .. m /\ \A k \in 0 .. m - 1 : seq[k + 1] = k
  <2>1. 0 \div DPS = 0
    BY ObjectAssumption, DivideOnce
  <2>2. seq = [i \in 1 .. m - 0 |-> 0 + i - 1]
    BY <2>1 DEF SpansBetween
  <2> HIDE DEF seq
  <2> QED BY <1>0, <2>2
<1> HIDE DEF seq
<1>1. PICK g : Iterates([op |-> "read", d |-> d, n |-> n, erased |-> erased], b, seq, m, g)
  BY <1>0, IterateAll
<1>2. P(g)
  BY <1>1 DEF Iterates, Step
<1>3. P(it)
  BY <1>2
<1>4. ReadPages(b, d, n, erased) = it[1 .. m]
  BY <1>a DEF ReadPages, FoldLeft, MapThenFoldSet, seq
<1> DEFINE h == [k \in 0 .. m |-> it[1 .. k]]
<1> HIDE DEF it
<1>5. h[0] = b
  <2>1. 1 .. 0 = {} /\ {} \in SUBSET (1 .. m) /\ 0 \in 0 .. m
    BY <1>0
  <2> QED BY <2>1, <1>3
<1>6. ASSUME NEW k \in 0 .. m - 1
      PROVE  h[k + 1] = ReadStep(h[k], d, k, n, erased)
  <2>1. UpToNext(k) /\ 1 .. k + 1 \in SUBSET (1 .. m)
    BY <1>0, UpToNextAgain
  <2>2. it[1 .. k + 1] = ReadStep(it[1 .. k], d, seq[k + 1], n, erased)
    BY <1>3, <2>1 DEF UpToNext
  <2>3. h[k + 1] = it[1 .. k + 1] /\ h[k] = it[1 .. k]
    BY <1>0
  <2> QED BY <1>a, <2>2, <2>3
<1>7. h[m] = it[1 .. m]
  BY <1>0
<1> HIDE DEF h
<1>8. ReadLoops(h, b, d, n, erased, m)
  BY <1>4, <1>5, <1>6, <1>7 DEF ReadLoops
<1> QED BY <1>0, <1>8

\* Two reads of one object, on chips that hold the same objects, have come
\* equally far.
Agree(f0, f, d, g0, g, e, o) ==
    /\ Ok(f) <=> Ok(g)
    /\ Ok(f) => Reading(f0, f, d, o) /\ Reading(g0, g, e, o) /\ f.out = g.out

\* One step of two reads of alike chips agrees.
LEMMA StepAgrees ==
    ASSUME NEW f0, NEW g0, Alike(f0, g0), NEW f, NEW g, NEW d \in Fd, NEW e \in Fd,
           NEW o \in Obj, Agree(f0, f, d, g0, g, e, o), NEW s \in Nat, NEW n, NEW erased,
           NEW f1, f1 = ReadStep(f, d, s, n, erased),
           NEW g1, g1 = ReadStep(g, e, s, n, erased)
    PROVE  Agree(f0, f1, d, g0, g1, e, o)
<1>1. CASE ~Ok(f)
  <2>1. f1 = f /\ g1 = g
    BY <1>1 DEF ReadStep, Agree
  <2> QED BY <2>1
<1>2. CASE Ok(f)
  <2>1. Ok(g) /\ Reading(f0, f, d, o) /\ Reading(g0, g, e, o) /\ f.out = g.out
    BY <1>2 DEF Agree
  <2>2. f.lu = f0.lu /\ f.page = f0.page /\ g.lu = g0.lu /\ g.page = g0.page
    BY <2>1 DEF Reading
  <2>3. DataId(o) \in ObjectIds /\ ~IsIndexId(DataId(o))
    BY IdsOf
  <2>4. CASE \E p : IsPageOf(f, p, DataId(o), s)
    <3>1. PICK p : IsPageOf(f, p, DataId(o), s)
      BY <2>4
    <3>2. IsPageOf(f0, p, DataId(o), s) /\ p \in Page
      BY <2>2, <3>1 DEF IsPageOf
    <3>3. PICK q \in Page : IsPageOf(g0, q, DataId(o), s)
      BY <2>3, <3>2 DEF Alike
    <3>4. IsPageOf(g, q, DataId(o), s)
      BY <2>2, <3>3 DEF IsPageOf
    <3>5. SameContent(f0, p, g0, q)
      BY <2>3, <3>2, <3>3 DEF Alike
    <3>6. f.page[p].body = g.page[q].body
      <4>1. f0.lu[p] = DataId(o)
        BY <3>2 DEF IsPageOf
      <4> QED BY <2>2, <2>3, <3>5, <4>1 DEF SameContent
    <3>7. PageBytes(f.page[p], s, n, erased) = PageBytes(g.page[q], s, n, erased)
      BY <3>6 DEF PageBytes, Slot
    <3>8. ReadOn(f0, f, d, o, PageBytes(f.page[p], s, n, erased), f1)
      BY <1>2, <2>1, <3>1, StepReads
    <3>9. ReadOn(g0, g, e, o, PageBytes(g.page[q], s, n, erased), g1)
      BY <2>1, <3>4, StepReads
    <3> QED BY <2>1, <3>7, <3>8, <3>9 DEF Agree, ReadOn
  <2>5. CASE ~\E p : IsPageOf(f, p, DataId(o), s)
    <3>1. NoPage(f, DataId(o), s) /\ NoPage(f0, DataId(o), s)
      BY <2>2, <2>5 DEF NoPage, IsPageOf
    <3>2. NoPage(g0, DataId(o), s)
      BY <3>1, AlikeFacts
    <3>3. NoPage(g, DataId(o), s)
      BY <2>2, <3>2 DEF NoPage, IsPageOf
    <3>4. ~Ok(f1)
      BY <1>2, <2>1, <3>1, StepFails
    <3>5. ~Ok(g1)
      BY <2>1, <3>3, StepFails
    <3> QED BY <3>4, <3>5 DEF Agree
  <2> QED BY <2>4, <2>5
<1> QED BY <1>1, <1>2

\* A chip at rest on which descriptor d is one of o.
Readable(f, d, o) ==
    /\ Shaped(f) /\ Coherent(f) /\ Ok(f) /\ f.work = NoWork
    /\ DOMAIN f.fds = Fd /\ Views(f, f.fds[d], o)

\* Where a read begins.
LEMMA ReadBegins ==
    ASSUME NEW f, NEW d \in Fd, NEW o \in Obj, Readable(f, d, o),
           NEW b, b = [Begin(f, d, 0) EXCEPT !.out = <<>>]
    PROVE  Reading(f, b, d, o) /\ Ok(b) /\ b.out = <<>>
<1>1. /\ Shaped(f) /\ Coherent(f) /\ Ok(f) /\ f.work = NoWork /\ State(f)
      /\ DOMAIN f.fds = Fd /\ Views(f, f.fds[d], o)
  BY DEF Readable, Shaped
<1> DEFINE w == [NoWork EXCEPT !.pix = f.fds[d].hdr, !.x = -1]
           c == [f EXCEPT !.pos = 0, !.broken = "OK", !.work = w]
<1>2. w.x = -1
  BY DEF NoWork
<1>3. Begin(f, d, 0) = c
  BY <1>1 DEF Begin, Then
<1> HIDE DEF w
<1>4. /\ b.lu = f.lu /\ b.page = f.page /\ State(b) /\ b.fds = f.fds /\ b.work = w
      /\ b.out = <<>> /\ b.res = f.res
  BY <1>1, <1>3 DEF State, Fields
<1>5. \A p, id, s : IsPageOf(b, p, id, s) <=> IsPageOf(f, p, id, s)
  BY <1>4 DEF IsPageOf
<1>6. Views(b, b.fds[d], o)
  <2> DEFINE e == f.fds[d]
  <2>1. b.fds[d] = e
    BY <1>4
  <2>2. IsHandle(e) /\ e.obj = o /\ Follows(f, e) /\ Knows(f, e)
    BY <1>1 DEF Views
  <2> HIDE DEF e
  <2>3. Follows(b, e)
    BY <1>5, <2>2 DEF Follows
  <2>4. \A id, s : NoPage(b, id, s) <=> NoPage(f, id, s)
    BY <1>5 DEF NoPage
  <2>5. Knows(b, e)
    BY <1>4, <2>2, <2>4 DEF Knows, MapKnows
  <2> QED BY <2>1, <2>2, <2>3, <2>5 DEF Views
<1>7. Shaped(b)
  BY <1>1, <1>4 DEF Shaped
<1>8. Coherent(b)
  <2>1. \A p \in Page : SamePage(f, b, p)
    BY <1>4 DEF SamePage
  <2> QED BY <1>1, <2>1, SameChip
<1>9. Holds(b, o)
  BY <1>2, <1>4 DEF Holds
<1>10. Ok(b)
  BY <1>1, <1>4 DEF Ok
<1> QED BY <1>1, <1>4, <1>6, <1>7, <1>8, <1>9, <1>10 DEF Reading

\* An object reads the same through any two descriptors, on any two chips
\* that hold the same objects.
LEMMA ReadsAlike ==
    ASSUME NEW f, NEW g, Alike(f, g), NEW o \in Obj, NEW d \in Fd, NEW e \in Fd,
           Readable(f, d, o), Readable(g, e, o), Sized(f)
    PROVE  ContentBy(f, d) = ContentBy(g, e)
<1> DEFINE n == CurSize(f, d)
           a == [Begin(f, d, 0) EXCEPT !.out = <<>>]
           b == [Begin(g, e, 0) EXCEPT !.out = <<>>]
           m == Pages(n)
<1>1. n = CurSize(g, e) /\ n \in Nat
  <2>1. /\ IsPageOf(f, f.fds[d].hdr, IndexId(o), 0)
        /\ IsPageOf(g, g.fds[e].hdr, IndexId(o), 0)
        /\ Len0(f.fds[d].size) = Len0(SizeOf(f.page[f.fds[d].hdr]))
        /\ Len0(g.fds[e].size) = Len0(SizeOf(g.page[g.fds[e].hdr]))
    BY DEF Readable, Views, Follows, Knows
  <2>2. SizeOf(f.page[f.fds[d].hdr]) = SizeOf(g.page[g.fds[e].hdr])
    BY <2>1, AlikeFacts
  <2>3. SizeOf(f.page[f.fds[d].hdr]) \in Nat \cup {Undef}
    BY <2>1, IdsOf DEF Sized, IsPageOf
  <2>4. n = Len0(f.fds[d].size) /\ CurSize(g, e) = Len0(g.fds[e].size)
    BY DEF CurSize, Len0
  <2>5. Len0(f.fds[d].size) \in Nat
    BY <2>1, <2>3 DEF Len0
  <2> QED BY <2>1, <2>2, <2>4, <2>5
<1>2. Agree(f, a, d, g, b, e, o)
  BY ReadBegins DEF Agree
<1>3. /\ ContentBy(f, d) = BytesRead(ReadPages(a, d, n, ErasedByte))
      /\ ContentBy(g, e) = BytesRead(ReadPages(b, e, n, ErasedByte))
  BY <1>1 DEF ContentBy, Read
<1> HIDE DEF n, a, b
<1>4. m \in Nat
  BY <1>1, ReadLoop
<1>5. PICK h : ReadLoops(h, a, d, n, ErasedByte, m)
  BY <1>1, ReadLoop
<1>6. PICK k : ReadLoops(k, b, e, n, ErasedByte, m)
  BY <1>1, ReadLoop
<1> HIDE DEF m
<1> DEFINE K == {i \in Nat : Agree(f, h[i], d, g, k[i], e, o)}
<1>7. 0 \in K
  BY <1>2, <1>5, <1>6 DEF ReadLoops
<1>8. ASSUME NEW i \in 0 .. m - 1, i \in K PROVE i + 1 \in K
  <2>1. /\ i \in Nat /\ i + 1 \in Nat /\ Agree(f, h[i], d, g, k[i], e, o)
        /\ h[i + 1] = ReadStep(h[i], d, i, n, ErasedByte)
        /\ k[i + 1] = ReadStep(k[i], e, i, n, ErasedByte)
    BY <1>5, <1>6, <1>8 DEF ReadLoops
  <2>2. Agree(f, h[i + 1], d, g, k[i + 1], e, o)
    BY <2>1, StepAgrees
  <2> QED BY <2>1, <2>2
<1> HIDE DEF K
<1>9. m \in K
  BY <1>4, <1>7, <1>8, UpTo
<1>10. Agree(f, h[m], d, g, k[m], e, o)
  BY <1>9 DEF K
<1>11. BytesRead(h[m]) = BytesRead(k[m])
  BY <1>10 DEF Agree, BytesRead, Ok
<1> QED BY <1>3, <1>5, <1>6, <1>11 DEF ReadLoops

\* An object that is there can be opened, and the descriptor knows it; one
\* that is not there cannot.
LEMMA OpenedKnows ==
    ASSUME NEW f, Fit(f), Ok(f), f.work = NoWork, NEW d \in Fd, NEW o \in Obj,
           NEW q, IsPageOf(f, q, IndexId(o), 0), NEW h, h = Opened(f, d, o)
    PROVE  /\ Readable(h, d, o) /\ Sized(h) /\ f.lu = h.lu /\ f.page = h.page
           /\ \A u : Alike(u, f) => Alike(u, h)
<1> DEFINE l == FindIdSpan(f, IndexId(o), 0, NoPix)
           new == [obj |-> o, hdr |-> q, size |-> SizeOf(f.page[q]),
                   cpix |-> q, cspix |-> 0, map |-> NoMap]
<1>1. /\ Shaped(f) /\ Coherent(f) /\ Sized(f) /\ State(f) /\ DOMAIN f.fds = Fd
      /\ AsListed(f) /\ OneOfEach(f) /\ q \in Page
  BY DEF Fit, Sound, Shaped, Handled, Coherent, IsPageOf
<1>2. Ok(l) /\ l.pix = q /\ Keeps(f, l, {"cursor", "pix"})
  BY <1>1, IndexIsFound
<1>3. l.lu = f.lu /\ l.page = f.page /\ l.fds = f.fds /\ l.work = NoWork /\ State(l)
  BY <1>2 DEF Keeps, Fields
<1>4. h = Then(l, [l EXCEPT !.fds[d] =
            [obj |-> o, hdr |-> l.pix, size |-> SizeOf(l.page[l.pix]),
             cpix |-> l.pix, cspix |-> 0, map |-> NoMap]])
  BY DEF Opened
<1> HIDE DEF l
<1>5. h = [l EXCEPT !.fds[d] = new]
  BY <1>2, <1>3, <1>4 DEF Then
<1>6. /\ new.obj = o /\ new.hdr = q /\ new.size = SizeOf(f.page[q]) /\ new.cpix = q
      /\ new.cspix = 0 /\ new.map = NoMap
      /\ new = [obj |-> new.obj, hdr |-> new.hdr, size |-> new.size, cpix |-> new.cpix,
                cspix |-> new.cspix, map |-> new.map]
  OBVIOUS
<1> HIDE DEF new
<1>7. /\ h.lu = f.lu /\ h.page = f.page /\ DOMAIN h.fds = Fd /\ h.fds[d] = new
      /\ h.work = NoWork /\ State(h) /\ Ok(h)
  BY <1>1, <1>2, <1>3, <1>5 DEF State, Fields, Ok
<1>8. IsMap(NoMap) /\ \A s : s \notin DOMAIN NoMap.buf
  <2>1. /\ NoMap.start = 0 /\ NoMap.end = -1 /\ NoMap.buf = NoBody
        /\ NoMap = [start |-> NoMap.start, end |-> NoMap.end, buf |-> NoMap.buf]
    BY DEF NoMap
  <2>2. DOMAIN NoBody = {}
    BY DEF NoBody
  <2> QED BY <2>1, <2>2 DEF IsMap
<1>9. IsHandle(new)
  BY <1>6, <1>8 DEF IsHandle
<1>10. IsPageOf(h, q, IndexId(o), 0)
  BY <1>7 DEF IsPageOf
<1>11. Follows(h, new)
  BY <1>6, <1>8, <1>10 DEF Follows
<1>12. Knows(h, new)
  <2>1. new.cpix # NoPix
    BY <1>1, <1>6, ObjectAssumption
  <2> QED BY <1>6, <1>7, <1>8, <2>1 DEF Knows, MapKnows
<1>13. Shaped(h) /\ Sized(h)
  BY <1>1, <1>7 DEF Shaped, Sized
<1>14. Coherent(h) /\ \A u : Alike(u, f) => Alike(u, h)
  <2>1. \A p \in Page : SamePage(f, h, p)
    BY <1>7 DEF SamePage
  <2> QED BY <1>1, <2>1, SameChip
<1> QED BY <1>6, <1>7, <1>9, <1>11, <1>12, <1>13, <1>14 DEF Readable, Views

\* An object that is not there cannot be opened.
LEMMA OpenedFails ==
    ASSUME NEW f, Fit(f), Ok(f), NEW d, NEW o, NoPage(f, IndexId(o), 0)
    PROVE  ~Ok(Opened(f, d, o))
<1>1. State(f)
  BY DEF Fit, Sound, Shaped
<1> DEFINE l == FindIdSpan(f, IndexId(o), 0, NoPix)
<1>2. Matches(f, IndexId(o), 0, NoPix) = {}
  BY DEF Matches, NoPage, IsPageOf
<1>3. ~Ok(l)
  BY <1>1, <1>2 DEF FindIdSpan, Fail, Ok, State, Fields
<1> HIDE DEF l
<1> QED BY <1>3 DEF Opened, Then, l

\* At rest in a state fit for cleaning.
Resting(f) == Fit(f) /\ Ok(f) /\ f.work = NoWork

\* Chips that hold the same objects have the same contents.
LEMMA SameContents ==
    ASSUME NEW f, NEW g, Resting(f), Resting(g), Alike(f, g), NEW o \in Obj
    PROVE  ContentOf(f, o) = ContentOf(g, o)
<1> DEFINE d == CHOOSE d \in Fd : TRUE
<1>1. d \in Fd
  BY WriteAssumption
<1>2. /\ ContentOf(f, o) = IF Ok(Opened(f, d, o)) THEN ContentBy(Opened(f, d, o), d)
                           ELSE NoFile
      /\ ContentOf(g, o) = IF Ok(Opened(g, d, o)) THEN ContentBy(Opened(g, d, o), d)
                           ELSE NoFile
  BY DEF ContentOf
<1> HIDE DEF d
<1>3. CASE \E p : IsPageOf(f, p, IndexId(o), 0)
  <2>1. PICK p : IsPageOf(f, p, IndexId(o), 0)
    BY <1>3
  <2>2. PICK q : IsPageOf(g, q, IndexId(o), 0)
    BY <2>1, IdsOf DEF Alike, IsPageOf
  <2> DEFINE h == Opened(f, d, o)
             k == Opened(g, d, o)
  <2>3. Readable(h, d, o) /\ Sized(h) /\ \A u : Alike(u, f) => Alike(u, h)
    BY <1>1, <2>1, OpenedKnows DEF Resting
  <2>4. Readable(k, d, o) /\ Sized(k) /\ \A u : Alike(u, g) => Alike(u, k)
    BY <1>1, <2>2, OpenedKnows DEF Resting
  <2>5. f.lu = h.lu /\ f.page = h.page
    BY <1>1, <2>1, OpenedKnows DEF Resting
  <2> HIDE DEF h, k
  <2>6. Alike(h, k)
    <3>1. Alike(f, k)
      BY <2>4
    <3> QED BY <2>5, <3>1 DEF Alike, IsPageOf, SameContent
  <2>7. ContentBy(h, d) = ContentBy(k, d)
    BY <1>1, <2>3, <2>4, <2>6, ReadsAlike
  <2> QED BY <1>2, <2>3, <2>4, <2>7 DEF Readable, h, k
<1>4. CASE ~\E p : IsPageOf(f, p, IndexId(o), 0)
  <2>1. NoPage(f, IndexId(o), 0)
    BY <1>4 DEF NoPage
  <2>2. NoPage(g, IndexId(o), 0)
    BY <2>1, AlikeFacts
  <2>3. ~Ok(Opened(f, d, o)) /\ ~Ok(Opened(g, d, o))
    BY <2>1, <2>2, OpenedFails DEF Resting
  <2> QED BY <1>2, <2>3
<1> QED BY <1>3, <1>4

\* What is read through an open descriptor is what is found by the id.
LEMMA OpenReadsTheSame ==
    ASSUME NEW f, Resting(f), NEW d \in Fd, f.fds[d].obj # NoObj
    PROVE  f.fds[d].obj \in Obj /\ ContentBy(f, d) = ContentOf(f, f.fds[d].obj)
<1> DEFINE o == f.fds[d].obj
           e == CHOOSE e \in Fd : TRUE
           h == Opened(f, e, o)
<1>1. /\ Shaped(f) /\ Coherent(f) /\ Sized(f) /\ DOMAIN f.fds = Fd /\ Ok(f)
      /\ IsHandle(f.fds[d]) /\ Follows(f, f.fds[d]) /\ Knows(f, f.fds[d])
      /\ f.work = NoWork /\ Fit(f)
  BY DEF Resting, Fit, Sound, Handled, Followed, Known
<1>2. o \in Obj
  BY <1>1 DEF IsHandle
<1>3. Readable(f, d, o)
  BY <1>1 DEF Readable, Views
<1>4. e \in Fd
  BY WriteAssumption
<1>5. ContentOf(f, o) = IF Ok(h) THEN ContentBy(h, e) ELSE NoFile
  BY DEF ContentOf
<1> HIDE DEF e
<1>6. IsPageOf(f, f.fds[d].hdr, IndexId(o), 0)
  BY <1>1 DEF Follows
<1> HIDE DEF o
<1>7. Readable(h, e, o) /\ Sized(h) /\ \A u : Alike(u, f) => Alike(u, h)
  BY <1>1, <1>2, <1>4, <1>6, OpenedKnows
<1> HIDE DEF h
<1>8. Alike(f, h)
  BY <1>1, <1>7, AlikeSelf DEF Coherent
<1>9. ContentBy(f, d) = ContentBy(h, e)
  BY <1>1, <1>2, <1>3, <1>4, <1>7, <1>8, ReadsAlike
<1> QED BY <1>2, <1>5, <1>7, <1>9 DEF Readable, o

\* What an operation leaves when it is over.
LEMMA RestIsFit ==
    ASSUME NEW f, Fit(f)
    PROVE  Resting(AtRest(f)) /\ Alike(f, AtRest(f)) /\ SameObjs(f, AtRest(f))
<1>1. State(f)
  BY DEF Fit, Sound, Shaped
<1> DEFINE g == AtRest(f)
<1>2. /\ Keeps(f, g, Locals) /\ g.fault = "none" /\ g.work = NoWork /\ g.res = "OK"
  BY <1>1 DEF AtRest, Keeps, Locals, State, Fields
<1> HIDE DEF g
<1>3. Fit(g) /\ Alike(f, g) /\ SameObjs(f, g)
  BY <1>2, FitStays
<1> QED BY <1>2, <1>3 DEF Resting, Ok, g

\* A cleaning from rest to rest.
LEMMA CleaningRests ==
    ASSUME NEW f, Resting(f), NEW b, b.fault # "erase", b.res = "OK",
           Keeps(f, b, {"fault", "fuel"}), NEW len, NEW g, g = GcCheck(b, len),
           g.res \in {"OK", "FULL"}
    PROVE  Resting(AtRest(g)) /\ Alike(f, AtRest(g)) /\ SameObjs(f, AtRest(g))
<1>1. Fit(f)
  BY DEF Resting
<1>2. Keeps(f, b, Locals)
  BY DEF Keeps, Locals
<1>3. Fit(b) /\ Alike(f, b) /\ SameObjs(f, b) /\ Ok(b)
  BY <1>1, <1>2, FitStays DEF Ok
<1>4. Fit(g) /\ Alike(b, g) /\ SameObjs(b, g)
  BY <1>3, GcCheckKeepsObjects
<1>5. Resting(AtRest(g)) /\ Alike(g, AtRest(g)) /\ SameObjs(g, AtRest(g))
  BY <1>4, RestIsFit
<1>6. SameObjs(f, AtRest(g))
  BY <1>3, <1>4, <1>5 DEF SameObjs
<1> QED BY <1>3, <1>4, <1>5, <1>6, AlikeOn

\* An outcome of the collector is the collector run with some fuel and fault.
LEMMA OutcomeRuns ==
    ASSUME NEW f \in Outcomes(LAMBDA s : GcCheck(s, NE * DPS)), Resting(fs)
    PROVE  \E b : /\ Keeps(fs, b, {"fault", "fuel"}) /\ b.fault # "erase" /\ b.res = "OK"
                  /\ f = GcCheck(b, NE * DPS)
<1>1. State(fs) /\ Ok(fs)
  BY DEF Resting, Fit, Sound, Shaped
<1>2. f = GcCheck([fs EXCEPT !.fault = "power"], NE * DPS)
      \/ \E n : f = GcCheck([fs EXCEPT !.fault = "power", !.fuel = n], NE * DPS)
  BY DEF Outcomes
<1>3. ASSUME NEW b, b = [fs EXCEPT !.fault = "power"] \/
                    \E n : b = [fs EXCEPT !.fault = "power", !.fuel = n]
      PROVE  Keeps(fs, b, {"fault", "fuel"}) /\ b.fault # "erase" /\ b.res = "OK"
  BY <1>1, <1>3 DEF Keeps, State, Fields, Ok
<1>4. CASE f = GcCheck([fs EXCEPT !.fault = "power"], NE * DPS)
  BY <1>3, <1>4
<1>5. CASE \E n : f = GcCheck([fs EXCEPT !.fault = "power", !.fuel = n], NE * DPS)
  <2>1. PICK n : f = GcCheck([fs EXCEPT !.fault = "power", !.fuel = n], NE * DPS)
    BY <1>5
  <2> DEFINE b == [fs EXCEPT !.fault = "power", !.fuel = n]
  <2>2. Keeps(fs, b, {"fault", "fuel"}) /\ b.fault # "erase" /\ b.res = "OK"
    BY <1>3
  <2> HIDE DEF b
  <2>3. f = GcCheck(b, NE * DPS)
    BY <2>1 DEF b
  <2> QED BY <2>2, <2>3
<1> QED BY <1>2, <1>4, <1>5

\* A step at rest that keeps every object, and every descriptor on its object
\* until it is closed.
StayOpen(f, g) ==
    \A d \in Fd : f.fds[d].obj # NoObj /\ g.fds[d].obj # NoObj
                 => g.fds[d].obj = f.fds[d].obj

\* What a step that settles leaves.
Settles ==
    /\ Resting(fs') /\ fs' = AtRest(fs') /\ Alike(fs, fs') /\ StayOpen(fs, fs')
    /\ mode' = "on" /\ damaged' = {}

\* Between operations a healthy file system is at rest.
LEMMA HealthyRests ==
    ASSUME HealthyIsFit, mode = "on", damaged = {} PROVE Resting(fs) /\ fs = AtRest(fs)
<1>1. Fit(fs) /\ fs = AtRest(fs)
  BY DEF HealthyIsFit
<1> QED BY <1>1, RestIsFit

\* Rest is reached at once.
LEMMA AtRestOnce ==
    ASSUME NEW f, State(f) PROVE AtRest(AtRest(f)) = AtRest(f)
<1>1. DOMAIN AtRest(f) = Fields
  BY DEF AtRest, State
<1> QED BY <1>1 DEF AtRest, Fields

\* SPIFFS_gc, on a chip power was never lost on.
LEMMA CleaningSettles ==
    ASSUME HealthyIsFit, mode = "on", damaged = {}, NEW o \in Obj, GcEnds(o)
    PROVE  Settles
<1>1. PICK f \in Outcomes(LAMBDA s : GcCheck(s, NE * DPS)) :
        f.res \in {"OK", "FULL"} /\ Ends(f, o, want[o])
  BY DEF GcEnds
<1>2. Resting(fs)
  BY HealthyRests
<1>3. fs' = AtRest(f) /\ mode' = "on" /\ damaged' = {}
  BY <1>1 DEF Ends, PowerLost
<1>4. PICK b : /\ Keeps(fs, b, {"fault", "fuel"}) /\ b.fault # "erase" /\ b.res = "OK"
               /\ f = GcCheck(b, NE * DPS)
  BY <1>2, OutcomeRuns
<1>5. Resting(AtRest(f)) /\ Alike(fs, AtRest(f)) /\ SameObjs(fs, AtRest(f))
  BY <1>1, <1>2, <1>4, CleaningRests
<1>6. AtRest(f) = AtRest(AtRest(f))
  BY <1>5 DEF AtRest
<1> QED BY <1>3, <1>5, <1>6 DEF Settles, StayOpen, SameObjs

----------------------------------------------------------------------------
(* Opening, closing and mapping.                                           *)

\* A descriptor gets another handle, which knows its object.
LEMMA HandleFits ==
    ASSUME NEW f, Fit(f), NEW d \in Fd, NEW fd, IsHandle(fd),
           fd.obj # NoObj => Follows(f, fd) /\ Knows(f, fd),
           NEW g, Keeps(f, g, {"fds", "cursor", "pix"}), g.fds = [f.fds EXCEPT ![d] = fd]
    PROVE  Fit(g) /\ Alike(f, g)
<1>1. /\ Shaped(f) /\ Lined(f) /\ Coherent(f) /\ Filled(f)
      /\ Handled(f) /\ Followed(f) /\ Known(f)
      /\ Sized(f) /\ Worn(f) /\ f.fault # "erase"
  BY DEF Fit, Sound
<1>2. /\ g.lu = f.lu /\ g.page = f.page /\ g.free_cursor = f.free_cursor
      /\ g.ec = f.ec /\ g.max_erase_count = f.max_erase_count /\ g.fault = f.fault
      /\ State(g)
  BY DEF Keeps, Fields
<1>3. DOMAIN g.fds = Fd /\ \A e \in Fd : g.fds[e] = IF e = d THEN fd ELSE f.fds[e]
  BY <1>1 DEF Handled
<1>4. Shaped(g) /\ Lined(g) /\ Sized(g) /\ Worn(g)
  BY <1>1, <1>2 DEF Shaped, Lined, Packed, AtCursor, NoneBelow, Sized, Worn
<1>5. Coherent(g) /\ Filled(g) /\ Alike(f, g)
  <2>1. \A p \in Page : SamePage(f, g, p)
    BY <1>2 DEF SamePage
  <2>2. Alike(f, f)
    BY <1>1, AlikeSelf DEF Coherent
  <2> QED BY <1>1, <2>1, <2>2, SameChip
<1>6. \A p, id, s : IsPageOf(g, p, id, s) <=> IsPageOf(f, p, id, s)
  BY <1>2 DEF IsPageOf
<1>7. ASSUME NEW h, Follows(f, h) PROVE Follows(g, h)
  BY <1>6, <1>7 DEF Follows
<1>8. ASSUME NEW h, Knows(f, h) PROVE Knows(g, h)
  BY <1>2, <1>6, <1>8 DEF Knows, MapKnows, NoPage
<1>9. Handled(g)
  BY <1>1, <1>3 DEF Handled
<1>10. Followed(g)
  BY <1>1, <1>3, <1>7 DEF Followed
<1>11. Known(g)
  BY <1>1, <1>3, <1>8 DEF Known
<1> QED BY <1>1, <1>2, <1>4, <1>5, <1>9, <1>10, <1>11 DEF Fit, Sound

\* A closed descriptor knows nothing.
LEMMA ClosedIsHandle == IsHandle(Closed) /\ Closed.obj = NoObj
<1>1. IsMap(NoMap)
  <2>1. DOMAIN NoBody = {}
    BY DEF NoBody
  <2> QED BY <2>1 DEF IsMap, NoMap
<1> QED BY <1>1 DEF IsHandle, Closed

\* A descriptor gets another map, of what is there.
LEMMA MapFits ==
    ASSUME NEW f, Fit(f), NEW d \in Fd, NEW map, IsMap(map),
           f.fds[d].obj # NoObj => Shows(f, map, f.fds[d].obj) /\ MapKnows(f, map, f.fds[d].obj),
           NEW g, g = [f EXCEPT !.fds[d].map = map]
    PROVE  Fit(g) /\ Alike(f, g) /\ SameObjs(f, g) /\ g.fds[d].map = map
<1> DEFINE fd == f.fds[d]
           new == [fd EXCEPT !.map = map]
<1>1. /\ State(f) /\ DOMAIN f.fds = Fd /\ IsHandle(fd)
      /\ fd.obj # NoObj => Follows(f, fd) /\ Knows(f, fd)
  BY DEF Fit, Sound, Shaped, Handled, Followed, Known
<1>2. g = [f EXCEPT !.fds = [f.fds EXCEPT ![d] = new]]
  BY <1>1 DEF State, Fields
<1>3. fd = [obj |-> fd.obj, hdr |-> fd.hdr, size |-> fd.size, cpix |-> fd.cpix,
            cspix |-> fd.cspix, map |-> fd.map]
  BY <1>1 DEF IsHandle
<1>4. new = [obj |-> fd.obj, hdr |-> fd.hdr, size |-> fd.size, cpix |-> fd.cpix,
             cspix |-> fd.cspix, map |-> map]
  <2> HIDE DEF fd
  <2> QED BY <1>3
<1>5. fd.obj # NoObj => Shows(f, map, fd.obj) /\ MapKnows(f, map, fd.obj)
  OBVIOUS
<1> HIDE DEF fd, new
<1>6. IsHandle(new)
  BY <1>1, <1>4 DEF IsHandle
<1>7. new.obj # NoObj => Follows(f, new) /\ Knows(f, new)
  BY <1>1, <1>4, <1>5 DEF Follows, Knows, Shows
<1>8. Keeps(f, g, {"fds", "cursor", "pix"}) /\ g.fds = [f.fds EXCEPT ![d] = new]
  BY <1>1, <1>2 DEF Keeps, State, Fields
<1>9. SameObjs(f, g) /\ g.fds[d] = new
  <2>1. \A e \in Fd : g.fds[e] = IF e = d THEN new ELSE f.fds[e]
    BY <1>1, <1>8
  <2>2. new.obj = f.fds[d].obj
    BY <1>4 DEF fd
  <2> QED BY <2>1, <2>2 DEF SameObjs
<1>10. Fit(g) /\ Alike(f, g)
  BY <1>6, <1>7, <1>8, HandleFits
<1> QED BY <1>4, <1>9, <1>10

\* Opening an object, if it is there.
LEMMA OpenFits ==
    ASSUME NEW f, Fit(f), Ok(f), f.work = NoWork, NEW d \in Fd, f.fds[d].obj = NoObj,
           NEW o \in Obj, NEW g, g = Opened(f, d, o)
    PROVE  Fit(g) /\ Alike(f, g) /\ \A e \in Fd \ {d} : g.fds[e] = f.fds[e]
<1> DEFINE l == FindIdSpan(f, IndexId(o), 0, NoPix)
           new == [obj |-> o, hdr |-> l.pix, size |-> SizeOf(l.page[l.pix]),
                   cpix |-> l.pix, cspix |-> 0, map |-> NoMap]
           h == [l EXCEPT !.fds[d] = new]
<1>1. g = Then(l, h)
  BY DEF Opened
<1>2. State(f) /\ Shaped(f) /\ Coherent(f) /\ AsListed(f) /\ OneOfEach(f) /\ DOMAIN f.fds = Fd
  BY DEF Fit, Sound, Shaped, Handled, Coherent
<1>3. CASE \E p : IsPageOf(f, p, IndexId(o), 0)
  <2>1. PICK q : IsPageOf(f, q, IndexId(o), 0)
    BY <1>3
  <2>2. Ok(l) /\ l.pix = q /\ Keeps(f, l, {"cursor", "pix"})
    BY <1>2, <2>1, IndexIsFound DEF IsPageOf
  <2>3. l.fds = f.fds /\ State(l)
    BY <2>2 DEF Keeps, Fields
  <2> HIDE DEF l
  <2>4. Keeps(f, h, {"fds", "cursor", "pix"}) /\ h.fds = [f.fds EXCEPT ![d] = new]
    <3> HIDE DEF new
    <3> QED BY <1>2, <2>2, <2>3 DEF Keeps, State, Fields
  <2> HIDE DEF h
  <2>5. g = h
    BY <1>1, <2>2 DEF Then
  <2>6. Readable(g, d, o) /\ f.lu = g.lu /\ f.page = g.page
    BY <2>1, OpenedKnows
  <2>7. \A e \in Fd : g.fds[e] = IF e = d THEN new ELSE f.fds[e]
    BY <1>2, <2>4, <2>5
  <2>8. IsHandle(new) /\ Follows(g, new) /\ Knows(g, new)
    BY <2>6, <2>7 DEF Readable, Views
  <2> HIDE DEF new
  <2>9. Follows(f, new) /\ Knows(f, new)
    <3>1. \A p, id, s : IsPageOf(g, p, id, s) <=> IsPageOf(f, p, id, s)
      BY <2>6 DEF IsPageOf
    <3>2. Follows(f, new)
      BY <2>8, <3>1 DEF Follows
    <3>3. Knows(f, new)
      BY <2>6, <2>8, <3>1 DEF Knows, MapKnows, NoPage
    <3> QED BY <3>2, <3>3
  <2>10. Fit(g) /\ Alike(f, g)
    BY <2>4, <2>5, <2>8, <2>9, HandleFits
  <2> QED BY <2>7, <2>10
<1>4. CASE ~\E p : IsPageOf(f, p, IndexId(o), 0)
  <2>1. Matches(f, IndexId(o), 0, NoPix) = {}
    BY <1>4 DEF Matches, IsPageOf
  <2>2. l = Fail(f, "NOT_FOUND") /\ ~Ok(l)
    BY <1>2, <2>1 DEF FindIdSpan, Fail, Ok, State, Fields
  <2>3. g = l
    BY <1>1, <2>2 DEF Then
  <2> HIDE DEF l
  <2>4. Keeps(f, g, Locals) /\ g.fault # "erase" /\ g.fds = f.fds
    BY <1>2, <2>2, <2>3 DEF Fail, Fit, State, Fields, Keeps, Locals
  <2> QED BY <2>4, FitStays
<1> QED BY <1>3, <1>4

\* The index pages found go into the map in any order.
Entered(f, m, p) == UpdateMap(m, f.page[p].span, f.page[p])

\* The subsets of S with at most k members.
Small(S, k) == {t \in SUBSET S : Cardinality(t) <= k}

\* The page FoldSet takes first.
AnyOf(s) == CHOOSE x \in s : TRUE

\* g is the fold over the subsets with at most k members.
Visits(f, map, S, k, g) ==
    g = [s \in Small(S, k) |-> IF s = {} THEN map
                               ELSE Entered(f, g[s \ {AnyOf(s)}], AnyOf(s))]

\* Taking a page out leaves one page fewer.
LEMMA SmallerSets ==
    ASSUME NEW S, IsFiniteSet(S), NEW k \in Nat, NEW s \in Small(S, k + 1), s # {}
    PROVE  AnyOf(s) \in s /\ s \ {AnyOf(s)} \in Small(S, k)
<1>1. AnyOf(s) \in s
  BY DEF AnyOf
<1>2. s \in SUBSET S /\ IsFiniteSet(s) /\ Cardinality(s) <= k + 1
  BY FS_Subset DEF Small
<1>3. Cardinality(s \ {AnyOf(s)}) = Cardinality(s) - 1 /\ Cardinality(s) \in Nat
  BY <1>1, <1>2, FS_RemoveElement, FS_CardinalityType
<1> QED BY <1>1, <1>2, <1>3 DEF Small

\* The fold for one page more,
LEMMA VisitsOnce ==
    ASSUME NEW f, NEW map, NEW S, IsFiniteSet(S), NEW k \in Nat, NEW g,
           Visits(f, map, S, k, g)
    PROVE  \E h : Visits(f, map, S, k + 1, h)
<1> DEFINE V(u, s) == IF s = {} THEN map ELSE Entered(f, u[s \ {AnyOf(s)}], AnyOf(s))
           h == [s \in Small(S, k + 1) |-> V(g, s)]
<1>1. ASSUME NEW s \in Small(S, k) PROVE s \in Small(S, k + 1) /\ h[s] = g[s]
  <2>1. Cardinality(s) \in Nat
    BY FS_Subset, FS_CardinalityType DEF Small
  <2>2. s \in Small(S, k + 1)
    BY <2>1 DEF Small
  <2>3. g[s] = V(g, s)
    BY DEF Visits
  <2> QED BY <2>2, <2>3
<1>2. ASSUME NEW s \in Small(S, k + 1) PROVE V(g, s) = V(h, s)
  <2>1. CASE s = {}
    BY <2>1
  <2>2. CASE s # {}
    <3>1. s \ {AnyOf(s)} \in Small(S, k)
      BY <2>2, SmallerSets
    <3>2. h[s \ {AnyOf(s)}] = g[s \ {AnyOf(s)}]
      BY <1>1, <3>1
    <3> HIDE DEF h
    <3> QED BY <2>2, <3>2
  <2> QED BY <2>1, <2>2
<1>3. h = [s \in Small(S, k + 1) |-> V(h, s)]
  BY <1>2
<1>4. Visits(f, map, S, k + 1, h)
  <2> HIDE DEF h
  <2> QED BY <1>3 DEF Visits
<1> QED BY <1>4

\* so for any number of pages.
LEMMA VisitsAll ==
    ASSUME NEW f, NEW map, NEW S, IsFiniteSet(S), NEW n \in Nat
    PROVE  \E g : Visits(f, map, S, n, g)
<1> DEFINE K == {k \in Nat : \E g : Visits(f, map, S, k, g)}
<1>1. 0 \in K
  <2> DEFINE g == [s \in Small(S, 0) |-> map]
  <2>1. ASSUME NEW s \in Small(S, 0) PROVE s = {}
    <3>1. IsFiniteSet(s) /\ Cardinality(s) = 0
      BY FS_Subset, FS_CardinalityType DEF Small
    <3> QED BY <3>1, FS_EmptySet
  <2>2. Visits(f, map, S, 0, g)
    BY <2>1 DEF Visits
  <2> HIDE DEF g
  <2> QED BY <2>2
<1>2. ASSUME NEW k \in 0 .. n - 1, k \in K PROVE k + 1 \in K
  <2>1. k \in Nat /\ k + 1 \in Nat /\ \E g : Visits(f, map, S, k, g)
    BY <1>2
  <2> QED BY <2>1, VisitsOnce
<1> HIDE DEF K
<1>3. n \in K
  BY <1>1, <1>2, UpTo
<1> QED BY <1>3 DEF K

\* What a map knows of object o.
MapRight(f, map, o) == IsMap(map) /\ Shows(f, map, o) /\ MapKnows(f, map, o)

\* Entering an index page keeps the map right.
LEMMA ToldIsRight ==
    ASSUME NEW f, Coherent(f), NEW o \in Obj, NEW p \in Page, f.lu[p] = IndexId(o),
           NEW map, MapRight(f, map, o)
    PROVE  MapRight(f, Entered(f, map, p), o)
<1> DEFINE x == f.page[p].span
           pg == f.page[p]
           new == Entered(f, map, p)
           S == {s \in map.start .. map.end : IxSpan(s) = x}
           told == {s \in S : \A t \in S : t <= s => RefAt(pg, t) # NoPix}
           buf == [s \in told \cup DOMAIN map.buf |->
                     IF s \in told THEN RefAt(pg, s) ELSE map.buf[s]]
<1>1. /\ map = [start |-> map.start, end |-> map.end, buf |-> map.buf]
      /\ map.start \in Nat /\ map.end \in Int
      /\ DOMAIN map.buf \subseteq map.start .. map.end
  BY DEF MapRight, IsMap
<1>2. new = [start |-> map.start, end |-> map.end, buf |-> buf]
  <2>1. new = [map EXCEPT !.buf = buf]
    BY DEF Entered, UpdateMap
  <2> HIDE DEF buf, new
  <2> QED BY <1>1, <2>1
<1>3. /\ IsIndexId(f.lu[p]) /\ f.lu[p].obj = o /\ Whole(f, p) /\ x \in Nat
  <2>1. IsIndexId(f.lu[p]) /\ f.lu[p].obj = o /\ IsBusy(f.lu[p])
    BY IdsOf, IdIsBusy
  <2>2. Whole(f, p)
    BY <2>1 DEF Coherent, AsListed
  <2> QED BY <2>1, <2>2 DEF Whole
<1>4. ASSUME NEW s \in told
      PROVE  s \in map.start .. map.end /\ RefAt(pg, s) # NoPix
             /\ IsPageOf(f, RefAt(pg, s), DataId(o), s)
  <2>1. s \in S /\ s \in Nat /\ s <= s
    BY <1>1
  <2>2. RefAt(pg, s) # NoPix
    BY <1>4, <2>1
  <2>3. s \in SpansOf(x)
    BY <1>3, <2>1, SpansOfIndex
  <2>4. RefersToItsData(f)
    BY DEF Coherent
  <2> QED BY <1>3, <2>1, <2>2, <2>3, <2>4 DEF RefersToItsData
<1> HIDE DEF S, told
<1>5. DOMAIN buf = told \cup DOMAIN map.buf
  OBVIOUS
<1>6. \A s \in told : buf[s] = RefAt(pg, s)
  OBVIOUS
<1>7. \A s \in DOMAIN map.buf : s \notin told => buf[s] = map.buf[s]
  OBVIOUS
<1> HIDE DEF buf, new, pg, x
<1>8. new.start = map.start /\ new.end = map.end /\ new.buf = buf
  BY <1>2
<1>9. IsMap(new)
  BY <1>1, <1>2, <1>4, <1>5, <1>8 DEF IsMap
<1>10. Shows(f, new, o)
  BY <1>4, <1>5, <1>6, <1>7, <1>8 DEF MapRight, Shows
<1>11. MapKnows(f, new, o)
  BY <1>4, <1>5, <1>6, <1>7, <1>8 DEF MapRight, MapKnows
<1> QED BY <1>9, <1>10, <1>11 DEF MapRight, new

\* Populating a map leaves it right.
Visited(f, map, S) ==
    FoldSet(LAMBDA p, m : UpdateMap(m, f.page[p].span, f.page[p]), map, S)

\* So does entering any set of them.
LEMMA VisitIsRight ==
    ASSUME NEW f, Coherent(f), NEW o \in Obj, NEW S \in SUBSET Page,
           \A p \in S : f.lu[p] = IndexId(o), NEW map, MapRight(f, map, o)
    PROVE  MapRight(f, Visited(f, map, S), o)
<1> DEFINE n == Cardinality(S)
           P(g) == g = [s \in SUBSET S |-> IF s = {} THEN map
                         ELSE UpdateMap(g[s \ {AnyOf(s)}], f.page[AnyOf(s)].span, f.page[AnyOf(s)])]
           it == CHOOSE g : P(g)
<1>1. IsFiniteSet(S) /\ n \in Nat
  BY PageIsFinite, FS_Subset, FS_CardinalityType
<1>2. Small(S, n) = SUBSET S
  BY <1>1, FS_Subset DEF Small
<1>3. PICK g : Visits(f, map, S, n, g)
  BY <1>1, VisitsAll
<1>4. P(g)
  BY <1>2, <1>3 DEF Visits, Entered
<1>5. P(it)
  BY <1>4
<1>6. Visited(f, map, S) = it[S]
  BY DEF Visited, FoldSet, MapThenFoldSet, AnyOf
<1> HIDE DEF it
<1> DEFINE K == {k \in Nat : \A s \in Small(S, k) : MapRight(f, it[s], o)}
<1>7. ASSUME NEW s \in SUBSET S
      PROVE  it[s] = IF s = {} THEN map ELSE Entered(f, it[s \ {AnyOf(s)}], AnyOf(s))
  BY <1>5 DEF Entered
<1>8. 0 \in K
  <2>1. ASSUME NEW s \in Small(S, 0) PROVE s = {}
    <3>1. IsFiniteSet(s) /\ Cardinality(s) = 0
      BY <1>1, FS_Subset, FS_CardinalityType DEF Small
    <3> QED BY <3>1, FS_EmptySet
  <2> QED BY <1>7, <2>1
<1>9. ASSUME NEW k \in 0 .. n - 1, k \in K PROVE k + 1 \in K
  <2> SUFFICES ASSUME NEW s \in Small(S, k + 1) PROVE MapRight(f, it[s], o)
    BY <1>9
  <2>1. s \in SUBSET S /\ k \in Nat
    BY <1>9 DEF Small
  <2>2. CASE s = {}
    BY <1>7, <2>1, <2>2
  <2>3. CASE s # {}
    <3>1. AnyOf(s) \in s /\ s \ {AnyOf(s)} \in Small(S, k)
      BY <1>1, <2>1, <2>3, SmallerSets
    <3>2. MapRight(f, it[s \ {AnyOf(s)}], o)
      BY <1>9, <3>1
    <3>3. AnyOf(s) \in Page /\ f.lu[AnyOf(s)] = IndexId(o)
      BY <2>1, <3>1
    <3>4. it[s] = Entered(f, it[s \ {AnyOf(s)}], AnyOf(s))
      BY <1>7, <2>1, <2>3
    <3> QED BY <3>2, <3>3, <3>4, ToldIsRight
  <2> QED BY <2>2, <2>3
<1> HIDE DEF K
<1>10. n \in K
  BY <1>1, <1>8, <1>9, UpTo
<1>11. MapRight(f, it[S], o)
  BY <1>2, <1>10 DEF K
<1> QED BY <1>6, <1>11

\* Filling an index map,
LEMMA PopulateFits ==
    ASSUME NEW f, Fit(f), NEW d \in Fd, f.fds[d].obj # NoObj, NEW first,
           NEW g, g = Populate(f, d, first)
    PROVE  Fit(g) /\ Alike(f, g) /\ SameObjs(f, g)
<1> DEFINE o == f.fds[d].obj
           map == f.fds[d].map
           from == IF first < map.end - map.start THEN first ELSE map.end - map.start
           range == IxSpan(map.start + from) .. IxSpan(map.end)
           found == {p \in Page : f.lu[p] = IndexId(o)}
           bad == {p \in found : ~IsIndexPage(f.page[p], f.page[p].span)}
           told == {p \in found \ bad : /\ f.page[p].span \in range
                                        /\ "IXDELE" \notin f.page[p].flags}
           before(Q, p) == {q \in Q \ {p} : FirstFrom(f.fds[d].hdr, {p, q}) = q}
           visited(p) == /\ before(bad, p) = {}
                         /\ Cardinality(before(told, p)) < Cardinality(range)
           S == {p \in told : visited(p)}
           visit == Visited(f, map, S)
           new == [f EXCEPT !.fds[d].map = visit]
<1>1. g = Fail(new, "BAD_INDEX") \/ g = new
  BY DEF Populate, Visited
<1>2. /\ IsHandle(f.fds[d]) /\ Follows(f, f.fds[d]) /\ Knows(f, f.fds[d])
      /\ Coherent(f) /\ State(f) /\ f.fault # "erase"
  BY DEF Fit, Sound, Shaped, Handled, Followed, Known
<1>3. o \in Obj /\ MapRight(f, map, o)
  BY <1>2 DEF IsHandle, Follows, Knows, MapRight, Shows
<1>4. S \in SUBSET Page /\ \A p \in S : f.lu[p] = IndexId(o)
  OBVIOUS
<1> HIDE DEF S, map
<1>5. Fit(new) /\ Alike(f, new) /\ SameObjs(f, new)
  <2>1. MapRight(f, visit, o)
    <3> HIDE DEF o
    <3> QED BY <1>2, <1>3, <1>4, VisitIsRight
  <2> HIDE DEF visit
  <2>2. IsMap(visit) /\ Shows(f, visit, f.fds[d].obj) /\ MapKnows(f, visit, f.fds[d].obj)
    BY <2>1 DEF MapRight
  <2> QED BY <2>2, MapFits
<1> HIDE DEF new
<1>6. CASE g = Fail(new, "BAD_INDEX")
  <2>1. Keeps(new, g, Locals) /\ g.fault # "erase"
    BY <1>5, <1>6 DEF Fit, Sound, Shaped, Fail, State, Fields, Keeps, Locals
  <2>2. Fit(g) /\ Alike(new, g) /\ SameObjs(new, g)
    BY <1>5, <2>1, FitStays
  <2> QED BY <1>5, <2>2, AlikeOn DEF SameObjs
<1> QED BY <1>1, <1>5, <1>6

\* mapping
LEMMA IxMapFits ==
    ASSUME NEW f, Fit(f), NEW d \in Fd, f.fds[d].obj # NoObj, NEW from \in Nat, NEW n \in Nat,
           NEW g, g = IxMap(f, d, from, n)
    PROVE  Fit(g) /\ Alike(f, g) /\ SameObjs(f, g)
<1> DEFINE map == [start |-> from \div DPS, end |-> (from + n) \div DPS, buf |-> NoBody]
           h == [f EXCEPT !.fds[d].map = map]
<1>1. g = Populate(h, d, 0)
  BY DEF IxMap
<1>2. map.start \in Nat /\ map.end \in Int
  <2>1. from + n \in Nat /\ DPS \in Nat \ {0}
    BY ObjectAssumption
  <2>2. from \div DPS \in Nat /\ (from + n) \div DPS \in Nat
    BY <2>1, Divide
  <2> QED BY <2>2
<1>3. map = [start |-> map.start, end |-> map.end, buf |-> map.buf] /\ DOMAIN map.buf = {}
  BY DEF NoBody
<1> HIDE DEF map
<1>4. IsMap(map) /\ \A o : Shows(f, map, o) /\ MapKnows(f, map, o)
  BY <1>2, <1>3 DEF IsMap, Shows, MapKnows
<1>5. Fit(h) /\ Alike(f, h) /\ SameObjs(f, h)
  BY <1>4, MapFits
<1> HIDE DEF h
<1>6. h.fds[d].obj # NoObj
  BY <1>5 DEF SameObjs
<1>7. Fit(g) /\ Alike(h, g) /\ SameObjs(h, g)
  BY <1>1, <1>5, <1>6, PopulateFits
<1> QED BY <1>5, <1>7, AlikeOn DEF SameObjs

\* and mapping anew keep the chip fit and its objects the same.
LEMMA IxRemapFits ==
    ASSUME NEW f, Fit(f), NEW d \in Fd, f.fds[d].obj # NoObj, NEW from \in Nat,
           NEW g, g = IxRemap(f, d, from)
    PROVE  Fit(g) /\ Alike(f, g) /\ SameObjs(f, g)
<1> DEFINE map == f.fds[d].map
           len == map.end - map.start + 1
           start == from \div DPS
           new == [start |-> start, end |-> start + len - 1,
                   buf |-> RestrictDomain(map.buf, LAMBDA s : s \in start .. start + len - 1)]
           h == [f EXCEPT !.fds[d].map = new]
           first == IF start > map.start THEN len - (start - map.start) ELSE 0
<1>1. g = IF start = map.start THEN f ELSE Populate(h, d, first)
  BY DEF IxRemap
<1>2. /\ IsHandle(f.fds[d]) /\ Follows(f, f.fds[d]) /\ Knows(f, f.fds[d]) /\ Coherent(f)
  BY DEF Fit, Sound, Handled, Followed, Known
<1>3. CASE start = map.start
  <2>1. g = f /\ Alike(f, f)
    BY <1>1, <1>2, <1>3, AlikeSelf DEF Coherent
  <2> QED BY <2>1 DEF SameObjs
<1>4. CASE start # map.start
  <2>1. IsMap(map) /\ Shows(f, map, f.fds[d].obj) /\ MapKnows(f, map, f.fds[d].obj)
    BY <1>2 DEF IsHandle, Follows, Knows, Shows
  <2>2. start \in Nat /\ map.start \in Nat /\ map.end \in Int
    BY <2>1, Divide, ObjectAssumption DEF IsMap
  <2> HIDE DEF start, map
  <2>3. new.start \in Nat /\ new.end \in Int
    BY <2>2
  <2>4. /\ DOMAIN new.buf = {s \in DOMAIN map.buf : s \in start .. start + len - 1}
        /\ \A s \in DOMAIN new.buf : new.buf[s] = map.buf[s]
    BY DEF RestrictDomain, Restrict
  <2>5. new = [start |-> new.start, end |-> new.end, buf |-> new.buf]
    OBVIOUS
  <2>6. new.start = start /\ new.end = start + len - 1
    OBVIOUS
  <2> HIDE DEF new, len
  <2>7. IsMap(new)
    BY <2>3, <2>4, <2>5, <2>6 DEF IsMap
  <2>8. Shows(f, new, f.fds[d].obj) /\ MapKnows(f, new, f.fds[d].obj)
    BY <2>1, <2>4 DEF Shows, MapKnows
  <2>9. Fit(h) /\ Alike(f, h) /\ SameObjs(f, h)
    BY <2>7, <2>8, MapFits
  <2> HIDE DEF h, first
  <2>10. h.fds[d].obj # NoObj
    BY <2>9 DEF SameObjs
  <2>11. Fit(g) /\ Alike(h, g) /\ SameObjs(h, g)
    BY <1>1, <1>4, <2>9, <2>10, PopulateFits
  <2> QED BY <2>9, <2>11, AlikeOn DEF SameObjs
<1> QED BY <1>3, <1>4

\* A step of the descriptors ends at rest.
LEMMA RamSettles ==
    ASSUME HealthyIsFit, mode = "on", damaged = {}, mode' = mode, damaged' = damaged,
           NEW g, Fit(g), Alike(fs, g), StayOpen(fs, g), fs' = AtRest(g)
    PROVE  Settles
<1>1. Resting(fs') /\ Alike(g, fs') /\ SameObjs(g, fs')
  BY RestIsFit
<1>2. State(g)
  BY DEF Fit, Sound, Shaped
<1>3. fs' = AtRest(fs')
  BY <1>2, AtRestOnce
<1>4. Alike(fs, fs')
  BY <1>1, AlikeOn
<1>5. StayOpen(fs, fs')
  BY <1>1 DEF StayOpen, SameObjs
<1> QED BY <1>1, <1>3, <1>4, <1>5 DEF Settles

\* Rest has the fields of the state it is come to from.
LEMMA RestIsState ==
    ASSUME NEW f
    PROVE  DOMAIN AtRest(f) = DOMAIN f /\ AtRest(f) = [k \in DOMAIN AtRest(f) |-> AtRest(f)[k]]
BY DEF AtRest

\* What changes a handle only is at rest already.
LEMMA HandleRests ==
    ASSUME NEW f, State(f), f = AtRest(f), NEW fds, NEW g, g = [f EXCEPT !.fds = fds]
    PROVE  g = AtRest(g)
<1> DEFINE a == AtRest(f)
<1>0. /\ a.res = "OK" /\ a.fuel = NoLoss /\ a.fault = "none" /\ a.found = <<0, 0>>
      /\ a.pix = NoPix /\ a.pos = 0 /\ a.broken = "OK" /\ a.out = <<>> /\ a.work = NoWork
  BY DEF AtRest, State, Fields
<1>1. /\ f.res = "OK" /\ f.fuel = NoLoss /\ f.fault = "none" /\ f.found = <<0, 0>>
      /\ f.pix = NoPix /\ f.pos = 0 /\ f.broken = "OK" /\ f.out = <<>> /\ f.work = NoWork
  <2>1. f = a
    OBVIOUS
  <2> HIDE DEF a
  <2> QED BY <1>0, <2>1
<1> HIDE DEF a
<1>2. /\ g.res = "OK" /\ g.fuel = NoLoss /\ g.fault = "none" /\ g.found = <<0, 0>>
      /\ g.pix = NoPix /\ g.pos = 0 /\ g.broken = "OK" /\ g.out = <<>> /\ g.work = NoWork
      /\ DOMAIN g = Fields /\ g = [k \in DOMAIN g |-> g[k]]
  <2>1. DOMAIN f = Fields
    BY DEF State
  <2>2. DOMAIN g = DOMAIN f /\ g = [k \in DOMAIN g |-> g[k]]
    OBVIOUS
  <2>3. \A k \in Fields \ {"fds"} : g[k] = f[k]
    BY <2>1
  <2> QED BY <1>1, <2>1, <2>2, <2>3 DEF Fields
<1> DEFINE b == AtRest(g)
<1>3. DOMAIN b = DOMAIN g /\ b = [k \in DOMAIN b |-> b[k]]
  BY RestIsState
<1>4. /\ b.res = "OK" /\ b.fuel = NoLoss /\ b.fault = "none" /\ b.found = <<0, 0>>
      /\ b.pix = NoPix /\ b.pos = 0 /\ b.broken = "OK" /\ b.out = <<>> /\ b.work = NoWork
  BY <1>2 DEF AtRest, Fields
<1>5. \A k \in Fields : b[k] = g[k]
  <2>1. \A k \in Fields \ Locals : b[k] = g[k]
    BY <1>2 DEF AtRest, Locals
  <2> HIDE DEF b
  <2> QED BY <1>2, <1>4, <2>1 DEF Fields, Locals
<1> HIDE DEF b
<1>6. b = g
  BY <1>2, <1>3, <1>5
<1> QED BY <1>6 DEF b

\* On a chip power was never lost on, what writes to no object leaves the chip
\* fit, and every object where it can be found.
THEOREM SettledIsFit ==
    ASSUME HealthyIsFit, mode = "on", damaged = {}, Settled
    PROVE  Settles
<1>0. /\ Resting(fs) /\ fs = AtRest(fs) /\ Fit(fs) /\ State(fs) /\ DOMAIN fs.fds = Fd
      /\ Ok(fs) /\ fs.work = NoWork
  BY HealthyRests DEF Resting, Fit, Sound, Shaped, Handled
<1>1. CASE \E o \in Obj : GcEnds(o)
  BY <1>1, CleaningSettles
<1>2. ASSUME NEW d \in Fd, NEW o \in Obj, Open(d, o) PROVE Settles
  <2> DEFINE g == Opened(fs, d, o)
  <2>1. fs.fds[d].obj = NoObj /\ fs' = AtRest(g) /\ mode' = mode /\ damaged' = damaged
    BY <1>2 DEF Open, IsOpen
  <2>2. Fit(g) /\ Alike(fs, g) /\ \A e \in Fd \ {d} : g.fds[e] = fs.fds[e]
    BY <1>0, <2>1, OpenFits
  <2> HIDE DEF g
  <2>3. StayOpen(fs, g)
    BY <2>1, <2>2 DEF StayOpen
  <2> QED BY <2>1, <2>2, <2>3, RamSettles
<1>3. ASSUME NEW d \in Fd, Close(d) PROVE Settles
  <2> DEFINE g == [fs EXCEPT !.fds[d] = Closed]
  <2>1. fs' = g /\ mode' = mode /\ damaged' = damaged
    BY <1>3 DEF Close
  <2>2. g = [fs EXCEPT !.fds = [fs.fds EXCEPT ![d] = Closed]]
    BY <1>0 DEF State, Fields
  <2> HIDE DEF g
  <2>3. Keeps(fs, g, {"fds", "cursor", "pix"}) /\ g.fds = [fs.fds EXCEPT ![d] = Closed]
    BY <1>0, <2>2 DEF Keeps, State, Fields
  <2>4. Fit(g) /\ Alike(fs, g)
    BY <1>0, <2>3, ClosedIsHandle, HandleFits
  <2>5. g = AtRest(g)
    BY <1>0, <2>2, HandleRests
  <2>6. StayOpen(fs, g)
    BY <1>0, <2>3, ClosedIsHandle DEF StayOpen
  <2> QED BY <2>1, <2>4, <2>5, <2>6, RamSettles
<1>4. ASSUME NEW d \in Fd, Unmap(d) PROVE Settles
  <2> DEFINE g == [fs EXCEPT !.fds[d].map = NoMap]
             fd == [fs.fds[d] EXCEPT !.map = NoMap]
  <2>1. fs' = g /\ mode' = mode /\ damaged' = damaged
    BY <1>4 DEF Unmap, IxUnmap
  <2>2. IsMap(NoMap) /\ \A o : Shows(fs, NoMap, o) /\ MapKnows(fs, NoMap, o)
    <3>1. DOMAIN NoMap.buf = {}
      BY DEF NoMap, NoBody
    <3>2. IsMap(NoMap)
      BY ClosedIsHandle DEF IsHandle, Closed
    <3> QED BY <3>1, <3>2 DEF Shows, MapKnows
  <2>3. Fit(g) /\ Alike(fs, g) /\ SameObjs(fs, g)
    BY <1>0, <2>2, MapFits
  <2>4. g = [fs EXCEPT !.fds = [fs.fds EXCEPT ![d] = fd]]
    BY <1>0 DEF State, Fields
  <2> HIDE DEF g, fd
  <2>5. g = AtRest(g)
    BY <1>0, <2>4, HandleRests
  <2>6. StayOpen(fs, g)
    BY <2>3 DEF StayOpen, SameObjs
  <2> QED BY <2>1, <2>3, <2>5, <2>6, RamSettles
<1>5. ASSUME NEW d \in Fd, NEW m \in Maps, Map(d, m) PROVE Settles
  <2> DEFINE g == IxMap(fs, d, m.from, m.n)
  <2>1. fs' = AtRest(g) /\ mode' = mode /\ damaged' = damaged /\ fs.fds[d].obj # NoObj
    BY <1>5 DEF Map, IsOpen
  <2>2. m.from \in Nat /\ m.n \in Nat
    BY WriteAssumption
  <2>3. Fit(g) /\ Alike(fs, g) /\ SameObjs(fs, g)
    BY <1>0, <2>1, <2>2, IxMapFits
  <2> HIDE DEF g
  <2>4. StayOpen(fs, g)
    BY <2>3 DEF StayOpen, SameObjs
  <2> QED BY <2>1, <2>3, <2>4, RamSettles
<1>6. ASSUME NEW d \in Fd, NEW m \in Maps, Remap(d, m) PROVE Settles
  <2> DEFINE g == IxRemap(fs, d, m.from)
  <2>1. fs' = AtRest(g) /\ mode' = mode /\ damaged' = damaged /\ fs.fds[d].obj # NoObj
    BY <1>6 DEF Remap, IsOpen
  <2>2. m.from \in Nat
    BY WriteAssumption
  <2>3. Fit(g) /\ Alike(fs, g) /\ SameObjs(fs, g)
    BY <1>0, <2>1, <2>2, IxRemapFits
  <2> HIDE DEF g
  <2>4. StayOpen(fs, g)
    BY <2>3 DEF StayOpen, SameObjs
  <2> QED BY <2>1, <2>3, <2>4, RamSettles
<1> QED BY <1>1, <1>2, <1>3, <1>4, <1>5, <1>6 DEF Settled

\* What settles reads the same.
LEMMA SettlingReadsTheSame ==
    ASSUME HealthyIsFit, mode = "on", damaged = {}, Settles
    PROVE  ReadTheSame
<1>1. Resting(fs) /\ Resting(fs') /\ Alike(fs, fs') /\ StayOpen(fs, fs')
  BY HealthyRests DEF Settles
<1>2. \A o \in Obj : ContentOf(fs', o) = ContentOf(fs, o)
  BY <1>1, SameContents
<1>3. ASSUME NEW d \in Fd, IsOpen(d), IsOpen(d)'
      PROVE  ContentBy(fs', d) = ContentBy(fs, d)
  <2>1. fs.fds[d].obj # NoObj /\ fs'.fds[d].obj # NoObj
    BY <1>3 DEF IsOpen
  <2>2. fs'.fds[d].obj = fs.fds[d].obj
    BY <1>1, <2>1 DEF StayOpen
  <2>3. fs.fds[d].obj \in Obj /\ ContentBy(fs, d) = ContentOf(fs, fs.fds[d].obj)
    BY <1>1, <2>1, OpenReadsTheSame
  <2>4. ContentBy(fs', d) = ContentOf(fs', fs'.fds[d].obj)
    BY <1>1, <2>1, OpenReadsTheSame
  <2> QED BY <1>2, <2>2, <2>3, <2>4
<1> QED BY <1>2, <1>3 DEF ReadTheSame

\* As long as the chip is fit, cleaning and what is done with descriptors
\* change nothing that can be read.
THEOREM SettledStepsKeep == Spec /\ []HealthyIsFit => SettledKeeps
<1>1. ASSUME HealthyIsFit, [Next]_vars, mode = "on" /\ damaged = {} /\ Settled
      PROVE  ReadTheSame
  BY <1>1, SettledIsFit, SettlingReadsTheSame
<1>2. HealthyIsFit /\ [Next]_vars
      => [mode = "on" /\ damaged = {} /\ Settled => ReadTheSame]_vars
  BY <1>1
<1> QED BY <1>2, PTL DEF Spec, SettledKeeps

\* On a fit chip every descriptor reads what is found by the id.
LEMMA FitReadsOpen ==
    ASSUME HealthyIsFit, ReadsBack, mode = "on", damaged = {} PROVE ReadsBackOpen
<1> SUFFICES ASSUME NEW d \in Fd, IsOpen(d)
             PROVE  ContentBy(fs, d) \in want[fs.fds[d].obj]
  BY DEF ReadsBackOpen
<1>1. Resting(fs) /\ fs.fds[d].obj # NoObj
  BY HealthyRests DEF IsOpen
<1>2. fs.fds[d].obj \in Obj /\ ContentBy(fs, d) = ContentOf(fs, fs.fds[d].obj)
  BY <1>1, OpenReadsTheSame
<1>3. ContentOf(fs, fs.fds[d].obj) \in want[fs.fds[d].obj]
  BY <1>2 DEF ReadsBack
<1> QED BY <1>2, <1>3

----------------------------------------------------------------------------
(* What is wanted of the objects.                                          *)

\* The bytes wanted are those of every object.
WantOfAll == DOMAIN want = Obj

\* An operation that ends wants something of every object,
LEMMA EndsWant ==
    ASSUME NEW f, NEW o, NEW after, Ends(f, o, after), WantOfAll PROVE WantOfAll'
BY DEF Ends, WantOfAll

\* so does every step,
LEMMA NextWant == ASSUME WantOfAll, [Next]_vars PROVE WantOfAll'
<1>1. CASE \E d \in Fd, o \in Obj : Open(d, o)
  BY <1>1 DEF Open, WantOfAll
<1>2. CASE \E d \in Fd : Close(d) \/ Unmap(d)
  BY <1>2 DEF Close, Unmap, WantOfAll
<1>3. CASE \E d \in Fd, m \in Maps : Map(d, m) \/ Remap(d, m)
  BY <1>3 DEF Map, Remap, WantOfAll
<1>4. CASE \E d \in Fd : TruncateTo0(d) \/ RemoveObject(d)
  <2>1. \E f, o, after : Ends(f, o, after)
    BY <1>4 DEF TruncateTo0, RemoveObject
  <2> QED BY <2>1, EndsWant
<1>5. CASE \E d \in Fd, w \in Writes : WriteTo(d, w)
  <2>1. \E f, o, after : Ends(f, o, after)
    BY <1>5 DEF WriteTo
  <2> QED BY <2>1, EndsWant
<1>6. CASE \E o \in Obj : CreateObject(o) \/ Gc(o)
  <2>1. \E f, o, after : Ends(f, o, after)
    BY <1>6 DEF CreateObject, Gc
  <2> QED BY <2>1, EndsWant
<1>7. CASE Mount
  BY <1>7 DEF Mount, WantOfAll
<1>8. CASE CheckStep
  BY <1>8 DEF CheckStep, CheckLookup, CheckIndexes, CheckPages, ScanTo,
              CheckRestarts, CheckEnds, Passes, WantOfAll
<1>9. CASE UNCHANGED vars
  BY <1>9 DEF vars, WantOfAll
<1> QED
  BY <1>1, <1>2, <1>3, <1>4, <1>5, <1>6, <1>7, <1>8, <1>9 DEF Next, Operation

\* so always.
LEMMA WantInv == Spec => []WantOfAll
<1>1. Init => WantOfAll
  BY DEF Init, WantOfAll
<1>2. WantOfAll /\ [Next]_vars => WantOfAll'
  BY NextWant
<1> QED BY <1>1, <1>2, PTL DEF Spec

\* What settles leaves every object among what is wanted of it.
LEMMA SettledWant ==
    ASSUME HealthyIsFit, ReadsBack, WantOfAll, mode = "on", damaged = {}, Settled
    PROVE  ReadsBack'
<1>1. ReadTheSame /\ Settles
  BY SettledIsFit, SettlingReadsTheSame
<1>2. \A p \in Obj : ContentOf(fs', p) = ContentOf(fs, p) /\ ContentOf(fs, p) \in want[p]
  BY <1>1 DEF ReadTheSame, ReadsBack
<1>3. ASSUME NEW p \in Obj PROVE ContentOf(fs, p) \in want'[p]
  <2>1. CASE UNCHANGED want
    BY <1>2, <2>1
  <2>2. CASE \E o \in Obj : GcEnds(o)
    <3>0. PICK o \in Obj : GcEnds(o)
      BY <2>2
    <3>1. PICK f : f.res \in {"OK", "FULL"} /\ Ends(f, o, want[o])
      BY <3>0 DEF GcEnds
    <3>2. /\ fs' = AtRest(f)
          /\ want' = [want EXCEPT ![o] = IF f.res = "OK" THEN want[o]
                         ELSE {ContentOf(AtRest(f), o)} \cap (want[o] \cup want[o])]
      BY <3>1 DEF Ends, PowerLost
    <3>3. CASE p # o
      BY <1>2, <3>2, <3>3 DEF WantOfAll
    <3>4. CASE p = o
      <4>1. want'[o] = IF f.res = "OK" THEN want[o]
                       ELSE {ContentOf(fs', o)} \cap (want[o] \cup want[o])
        BY <3>2 DEF WantOfAll
      <4> QED BY <1>2, <3>4, <4>1
    <3> QED BY <3>3, <3>4
  <2> QED
    BY <2>1, <2>2 DEF Settled, Open, Close, Unmap, Map, Remap
<1> QED BY <1>2, <1>3 DEF ReadsBack

\* What was read as wanted before is read as wanted after, through any descriptor.
LEMMA SettledReads ==
    ASSUME HealthyIsFit, ReadsBack, WantOfAll, mode = "on", damaged = {}, Settled
    PROVE  ReadsBack' /\ ReadsBackOpen'
<1>1. ReadsBack' /\ Settles
  BY SettledIsFit, SettledWant
<1>2. HealthyIsFit' /\ mode' = "on" /\ damaged' = {}
  BY <1>1 DEF Settles, Resting, HealthyIsFit
<1>3. ReadsBackOpen'
  <2> SUFFICES ASSUME NEW d \in Fd, IsOpen(d)'
               PROVE  ContentBy(fs', d) \in want'[fs'.fds[d].obj]
    BY DEF ReadsBackOpen
  <2>1. Resting(fs') /\ fs'.fds[d].obj # NoObj
    BY <1>1 DEF IsOpen, Settles
  <2>2. fs'.fds[d].obj \in Obj /\ ContentBy(fs', d) = ContentOf(fs', fs'.fds[d].obj)
    BY <2>1, OpenReadsTheSame
  <2>3. ContentOf(fs', fs'.fds[d].obj) \in want'[fs'.fds[d].obj]
    BY <1>1, <1>2, <2>2 DEF ReadsBack
  <2> QED BY <2>2, <2>3
<1> QED BY <1>1, <1>3

\* As long as the chip is fit, what read back what was written to it does so
\* after the next cleaning, opening, closing or mapping too: found by its id,
\* and through every open descriptor.
THEOREM SettledStepsReadBack ==
    Spec /\ []HealthyIsFit
    => [][mode = "on" /\ damaged = {} /\ ReadsBack /\ Settled
          => ReadsBack' /\ ReadsBackOpen']_vars
<1>1. ASSUME HealthyIsFit, WantOfAll, [Next]_vars,
             mode = "on" /\ damaged = {} /\ ReadsBack /\ Settled
      PROVE  ReadsBack' /\ ReadsBackOpen'
  BY <1>1, SettledReads
<1>2. HealthyIsFit /\ WantOfAll /\ [Next]_vars
      => [mode = "on" /\ damaged = {} /\ ReadsBack /\ Settled
          => ReadsBack' /\ ReadsBackOpen']_vars
  BY <1>1
<1> QED BY <1>2, WantInv, PTL DEF Spec

----------------------------------------------------------------------------
(* Reading through descriptors.                                            *)

\* Without a loss of power the file system stays mounted.
LEMMA EndsOn ==
    ASSUME NEW f, NEW o \in Obj, NEW after, Ends(f, o, after), damaged' = {}
    PROVE  mode' = "on"
<1>1. CASE PowerLost(f)
  <2>1. o \in damaged'
    BY <1>1 DEF Ends
  <2> QED BY <2>1
<1> QED BY <1>1 DEF Ends

\* Without damage the file system stays mounted.
LEMMA StaysOn ==
    ASSUME HealthyIsFit, mode = "on", damaged = {}, [Next]_vars, damaged' = {}
    PROVE  mode' = "on"
<1>0. \A d \in Fd : IsOpen(d) => fs.fds[d].obj \in Obj
  BY HealthyRests, OpenReadsTheSame DEF IsOpen
<1>1. CASE \E d \in Fd, o \in Obj : Open(d, o)
  BY <1>1 DEF Open
<1>2. CASE \E d \in Fd : Close(d) \/ Unmap(d)
  BY <1>2 DEF Close, Unmap
<1>3. CASE \E d \in Fd, m \in Maps : Map(d, m) \/ Remap(d, m)
  BY <1>3 DEF Map, Remap
<1>4. CASE \E d \in Fd : TruncateTo0(d) \/ RemoveObject(d)
  <2>1. \E o \in Obj : \E f, after : Ends(f, o, after)
    BY <1>0, <1>4 DEF TruncateTo0, RemoveObject, Usable
  <2> QED BY <2>1, EndsOn
<1>5. CASE \E d \in Fd, w \in Writes : WriteTo(d, w)
  <2>1. \E o \in Obj : \E f, after : Ends(f, o, after)
    BY <1>0, <1>5 DEF WriteTo, Usable
  <2> QED BY <2>1, EndsOn
<1>6. CASE \E o \in Obj : CreateObject(o) \/ Gc(o)
  <2>1. \E o \in Obj : \E f, after : Ends(f, o, after)
    BY <1>6 DEF CreateObject, Gc
  <2> QED BY <2>1, EndsOn
<1>7. CASE Mount
  BY <1>7 DEF Mount, Passes
<1>8. CASE CheckStep
  BY <1>8 DEF CheckStep, CheckLookup, CheckIndexes, CheckPages, ScanTo,
              CheckRestarts, CheckEnds, Passes
<1>9. CASE UNCHANGED vars
  BY <1>9 DEF vars
<1> QED
  BY <1>1, <1>2, <1>3, <1>4, <1>5, <1>6, <1>7, <1>8, <1>9 DEF Next, Operation

\* As long as power is not lost, the chip is fit and every object reads back
\* found by its id, it does so through every open descriptor, with the page
\* indices, the size and the map the descriptor has cached.
THEOREM DescriptorsReadBack ==
    Spec /\ [](damaged = {} /\ HealthyIsFit /\ ReadsBack) => []ReadsBackOpen
<1> DEFINE On == mode = "on"
           Healthy == damaged = {} /\ HealthyIsFit /\ ReadsBack
<1>1. Init => On
  BY DEF Init
<1>2. On /\ Healthy /\ Healthy' /\ [Next]_vars => On'
  BY StaysOn
<1>3. On /\ Healthy => ReadsBackOpen
  BY FitReadsOpen
<1> HIDE DEF On, Healthy
<1>4. Init /\ [][Next]_vars /\ []Healthy => []ReadsBackOpen
  BY <1>1, <1>2, <1>3, PTL
<1> QED BY <1>4 DEF Spec, Healthy
============================================================================
