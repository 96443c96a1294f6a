-------------------------- MODULE SpiffsObjIdProofs --------------------------
(***************************************************************************)
(* The search for a free object id, for every page size and number of      *)
(* objects: what it finds is free, it counts in its page only, and it says *)
(* "full" only when there is no id left.                                   *)
(*                                                                         *)
(* No page without a header is assumed to carry an id (Strays = {}): the   *)
(* counting does not see one and the bitmap does, and the two then         *)
(* disagree.                                                               *)
(***************************************************************************)
EXTENDS SpiffsObjId, FiniteSetTheorems, WellFoundedInduction, TLAPS

\* The ids in a group, and the ids of a group.
Size        == MaxObjects \div PS
GroupIds(g) == g * Size + 1 .. g * Size + Size

\* The ids are counted before they are searched.
Big == MaxObjects > 8 * PS

----------------------------------------------------------------------------
(* The inductive invariant.                                                *)

\* Ids are given out of the groups only, when there are groups.
IdsOK ==
    /\ used \in SUBSET (Nat \ {0}) /\ stray = {}
    /\ Big => used \subseteq Grouped

StateOK ==
    /\ state \in [min : Nat, max : Nat, comp : Nat, conflict : BOOLEAN]
    /\ map \in [Groups -> Nat]
    /\ running \in BOOLEAN
    /\ res \in {"none", "OK", "FULL", "CONFLICTING_NAME"}

Whole   == state.min = 1 /\ state.max = MaxObjects + 1 /\ state.comp = 0
Counted ==
    /\ Big /\ state.min = 1 /\ state.max = MaxObjects + 1 /\ state.comp = Size
    /\ ~state.conflict
    /\ \A g \in Groups : map[g] = Cardinality(used \cap GroupIds(g))

\* A group that has a free id is searched.
Chosen(g) ==
    /\ Big /\ state.min = g * Size + 1 /\ state.max = state.min + Size
    /\ state.comp = Size /\ ~state.conflict
    /\ ~(GroupIds(g) \subseteq used)

SearchOK ==
    running => res = "none" /\ (Whole \/ Counted \/ \E g \in Groups : Chosen(g))

Answer ==
    /\ res = "OK" => /\ found \in Nat \ {0} /\ found \notin used /\ ~state.conflict
                     /\ Big => found \in Grouped
    /\ res = "FULL" => Grouped \subseteq used

IInv == IdsOK /\ StateOK /\ SearchOK /\ Answer

----------------------------------------------------------------------------
(* Groups.                                                                 *)

LEMMA Sizes ==
    /\ PS \in Nat \ {0} /\ MaxObjects \in Nat /\ Size \in Nat
    /\ Size <= 8 * PS /\ Size < 256
    /\ PS * Size <= MaxObjects
    /\ Big => Size # 0
<1>1. PS \in Nat \ {0} /\ MaxObjects \in Nat /\ Size <= 8 * PS /\ Size < 256
  BY SizeAssumption DEF Size
<1>2. Size \in Nat /\ PS * Size <= MaxObjects /\ MaxObjects < PS * Size + PS
  BY <1>1 DEF Size
<1>3. Big => Size # 0
  BY <1>1, <1>2 DEF Big
<1> QED
  BY <1>1, <1>2, <1>3

\* Quotients.
LEMMA Quotient ==
    ASSUME NEW k \in Nat \ {0}, NEW a \in Nat
    PROVE  a \div k \in Nat /\ k * (a \div k) <= a /\ a < k * (a \div k) + k
OBVIOUS

LEMMA QuotientIs ==
    ASSUME NEW k \in Nat \ {0}, NEW g \in Nat, NEW i \in Nat,
           g * k + 1 <= i, i <= g * k + k
    PROVE  (i - 1) \div k = g
OBVIOUS

\* A group has Size ids, all of them grouped.
LEMMA GroupFacts ==
    ASSUME NEW g \in Groups, Big
    PROVE  /\ g \in Nat /\ g * Size \in Nat
           /\ GroupIds(g) \subseteq Grouped /\ GroupIds(g) \subseteq Nat \ {0}
           /\ IsFiniteSet(GroupIds(g)) /\ Cardinality(GroupIds(g)) = Size
<1>1. g \in Nat /\ g + 1 <= PS
  BY Sizes DEF Groups
<1>2. g * Size \in Nat /\ Size \in Nat
  BY <1>1, Sizes
<1>3. g * Size + Size <= PS * Size
  <2>1. (g + 1) * Size <= PS * Size
    BY <1>1, Sizes
  <2>2. (g + 1) * Size = g * Size + Size
    BY <1>1, Sizes
  <2> QED
    BY <2>1, <2>2
<1>4. PS * Size \in Nat
  BY Sizes
<1> DEFINE a == g * Size
           m == PS * Size
<1>5. a \in Nat /\ m \in Nat /\ a + Size <= m
  BY <1>2, <1>3, <1>4
<1>6. GroupIds(g) = (a + 1 .. a + Size) /\ Grouped = 1 .. m
  BY DEF GroupIds, Grouped, Size
<1> HIDE DEF a, m
<1>7. GroupIds(g) \subseteq Grouped /\ GroupIds(g) \subseteq Nat \ {0}
  BY <1>2, <1>5, <1>6
<1>8. IsFiniteSet(a + 1 .. a + Size) /\ Cardinality(a + 1 .. a + Size) = Size
  <2>1. a + 1 \in Int /\ a + Size \in Int
    BY <1>2, <1>5
  <2>2. /\ IsFiniteSet(a + 1 .. a + Size)
        /\ Cardinality(a + 1 .. a + Size)
              = IF a + 1 > a + Size THEN 0 ELSE (a + Size) - (a + 1) + 1
    BY <2>1, FS_Interval
  <2> QED
    BY <1>2, <1>5, <2>2
<1> QED
  BY <1>1, <1>2, <1>6, <1>7, <1>8

\* Every grouped id is in a group.
LEMMA InSomeGroup ==
    ASSUME NEW id \in Grouped, Big
    PROVE  \E g \in Groups : id \in GroupIds(g)
<1> DEFINE q == (id - 1) \div Size
           m == PS * Size
<1>1. Size \in Nat \ {0} /\ PS \in Nat \ {0}
  BY Sizes
<1>2. m \in Nat
  BY <1>1
<1>3. Grouped = 1 .. m
  BY DEF Grouped, Size
<1>4. id \in Nat /\ 1 <= id /\ id <= PS * Size
  <2> HIDE DEF m
  <2>1. id \in Nat /\ 1 <= id /\ id <= m
    BY <1>2, <1>3
  <2> QED
    BY <2>1 DEF m
<1>5. id - 1 \in Nat
  BY <1>4
<1>6. q \in Nat /\ Size * q <= id - 1 /\ id - 1 < Size * q + Size
  BY <1>1, <1>5, Quotient
<1> HIDE DEF q
<1>7. q < PS
  <2>1. Size * q < PS * Size
    BY <1>1, <1>4, <1>6
  <2> SUFFICES ASSUME q >= PS PROVE FALSE
    BY <1>1, <1>6
  <2>2. Size * q >= Size * PS
    BY <1>1, <1>6
  <2> QED
    BY <1>1, <1>6, <2>1, <2>2
<1>8. q \in Groups
  BY <1>1, <1>6, <1>7 DEF Groups
<1>9. q * Size = Size * q /\ q * Size \in Nat
  BY <1>1, <1>6
<1>10. id \in GroupIds(q)
  <2> DEFINE a == q * Size
  <2>1. a \in Nat /\ a <= id - 1 /\ id - 1 < a + Size
    BY <1>6, <1>9
  <2>2. GroupIds(q) = a + 1 .. a + Size
    BY DEF GroupIds
  <2> HIDE DEF a
  <2> QED
    BY <1>1, <1>4, <2>1, <2>2
<1> QED
  BY <1>8, <1>10

\* The first walk counts the ids of a group.
LEMMA CountsGroup ==
    ASSUME NEW g \in Groups, Big, used \in SUBSET (Nat \ {0}), used \subseteq Grouped,
           NEW s, s.min = 1, s.max = MaxObjects + 1, s.comp = Size
    PROVE  InGroup(s, g) = used \cap GroupIds(g)
<1>1. ASSUME NEW id \in used
      PROVE  (s.min <= id /\ id <= s.max /\ Group(s, id) = g) <=> id \in GroupIds(g)
  <2>1. id \in Nat \ {0} /\ Size \in Nat \ {0} /\ g \in Nat /\ g * Size \in Nat
    BY Sizes, GroupFacts
  <2>2. id <= MaxObjects + 1
    <3> DEFINE m == PS * Size
    <3>1. m \in Nat /\ m <= MaxObjects
      BY Sizes
    <3>2. Grouped = 1 .. m
      BY DEF Grouped, Size
    <3> HIDE DEF m
    <3> QED
      BY <2>1, <3>1, <3>2, Sizes
  <2>3. Group(s, id) = (id - 1) \div Size
    BY DEF Group
  <2>4. ASSUME id \in GroupIds(g) PROVE Group(s, id) = g
    <3>1. g * Size + 1 <= id /\ id <= g * Size + Size
      <4> DEFINE a == g * Size
      <4>1. a \in Nat /\ id \in a + 1 .. a + Size
        BY <2>1, <2>4 DEF GroupIds
      <4> HIDE DEF a
      <4>2. a + 1 <= id /\ id <= a + Size
        BY <2>1, <4>1
      <4> QED
        BY <4>2 DEF a
    <3> QED
      BY <2>1, <2>3, <3>1, QuotientIs
  <2>5. ASSUME Group(s, id) = g PROVE id \in GroupIds(g)
    <3>1. id - 1 \in Nat
      BY <2>1
    <3>2. Size * g <= id - 1 /\ id - 1 < Size * g + Size
      BY <2>1, <2>3, <2>5, <3>1, Quotient
    <3>3. Size * g = g * Size
      BY <2>1
    <3> DEFINE a == g * Size
    <3>4. a \in Nat /\ a <= id - 1 /\ id - 1 < a + Size
      BY <2>1, <3>2, <3>3
    <3>5. GroupIds(g) = a + 1 .. a + Size
      BY DEF GroupIds
    <3> HIDE DEF a
    <3> QED
      BY <2>1, <3>4, <3>5
  <2>6. s.min <= id /\ id <= s.max
    BY <2>1, <2>2
  <2> QED
    BY <2>4, <2>5, <2>6
<1> QED
  BY <1>1 DEF InGroup

\* How many of its ids a group has given out, and when it is full or empty.
LEMMA GroupCount ==
    ASSUME NEW g \in Groups, Big
    PROVE  LET n == Cardinality(used \cap GroupIds(g))
           IN  /\ n \in Nat /\ n <= Size /\ n % 256 = n
               /\ n = 0 => used \cap GroupIds(g) = {}
               /\ n = Size <=> GroupIds(g) \subseteq used
<1> DEFINE A == used \cap GroupIds(g)
           n == Cardinality(A)
<1>1. IsFiniteSet(GroupIds(g)) /\ Cardinality(GroupIds(g)) = Size
  BY GroupFacts
<1>2. A \subseteq GroupIds(g)
  OBVIOUS
<1>3. IsFiniteSet(A) /\ n <= Size /\ (n = Size => A = GroupIds(g))
  BY <1>1, <1>2, FS_Subset
<1>4. n \in Nat
  BY <1>3, FS_CardinalityType
<1>5. n = 0 => A = {}
  BY <1>3, FS_EmptySet
<1>6. GroupIds(g) \subseteq used => A = GroupIds(g)
  OBVIOUS
<1> HIDE DEF n
<1>7. n % 256 = n
  BY <1>3, <1>4, Sizes
<1> QED
  BY <1>1, <1>3, <1>4, <1>5, <1>6, <1>7 DEF n

NatLess == {ss \in Nat \X Nat : ss[1] < ss[2]}

LEMMA LeastInSet ==
    ASSUME NEW S \in SUBSET Nat, S # {}
    PROVE  Least(S) \in S /\ \A y \in S : Least(S) <= y
<1>1. OpToRel(<, Nat) = NatLess
  BY DEF OpToRel, NatLess
<1>2. IsWellFoundedOn(NatLess, Nat)
  BY <1>1, NatLessThanWellFounded
<1>3. PICK x \in S : \A y \in S : ~(<<y, x>> \in NatLess)
  BY <1>2, WFMin
<1>4. ASSUME NEW y \in S PROVE x <= y
  <2>1. x \in Nat /\ y \in Nat
    OBVIOUS
  <2>2. <<y, x>> \in NatLess <=> y < x
    BY <2>1 DEF NatLess
  <2> QED
    BY <1>3, <2>1, <2>2
<1> QED
  BY <1>4 DEF Least

\* There is an emptiest group.
LEMMA EmptiestIs ==
    ASSUME map \in [Groups -> Nat]
    PROVE  Emptiest \in Groups /\ \A h \in Groups : map[Emptiest] <= map[h]
<1> DEFINE V == {map[g] : g \in Groups}
           E == {g \in Groups : \A h \in Groups : map[g] <= map[h]}
<1>1. V \in SUBSET Nat /\ V # {}
  <2>1. 0 \in Groups
    BY Sizes DEF Groups
  <2> QED
    BY <2>1
<1>2. Least(V) \in V /\ \A y \in V : Least(V) <= y
  BY <1>1, LeastInSet
<1>3. PICK g \in Groups : map[g] = Least(V)
  BY <1>2
<1>4. g \in E
  BY <1>2, <1>3
<1>5. E \in SUBSET Nat
  BY DEF Groups
<1>6. Least(E) \in E
  BY <1>4, <1>5, LeastInSet
<1> QED
  BY <1>6 DEF Emptiest

----------------------------------------------------------------------------
(* The invariant holds in every state.                                     *)

LEMMA FirstState ==
    ASSUME Strays = {}, Init
    PROVE  IInv
<1>1. Grouped \in SUBSET (Nat \ {0})
  <2> DEFINE m == PS * Size
  <2>1. m \in Nat
    BY Sizes
  <2>2. Grouped = 1 .. m
    BY DEF Grouped, Size
  <2> HIDE DEF m
  <2> QED
    BY <2>1, <2>2
<1>2. IdsOK
  BY <1>1 DEF Init, IdsOK
<1>3. StateOK
  <2>1. 0 \in Nat /\ 1 \in Nat /\ MaxObjects + 1 \in Nat /\ FALSE \in BOOLEAN
    BY Sizes
  <2>2. Start(FALSE) \in [min : Nat, max : Nat, comp : Nat, conflict : BOOLEAN]
    BY <2>1 DEF Start
  <2> QED
    BY <2>1, <2>2 DEF Init, StateOK
<1>4. SearchOK /\ Answer
  BY DEF Init, SearchOK, Answer
<1> QED
  BY <1>2, <1>3, <1>4 DEF IInv

LEMMA Keep ==
    ASSUME IInv
    PROVE  /\ used \in SUBSET (Nat \ {0}) /\ stray = {}
           /\ Big => used \subseteq Grouped
           /\ state \in [min : Nat, max : Nat, comp : Nat, conflict : BOOLEAN]
           /\ map \in [Groups -> Nat]
BY DEF IInv, IdsOK, StateOK

\* The first round of a small file system, and the last of a big one.
LEMMA BitmapStep ==
    ASSUME IInv, Bitmap
    PROVE  IInv'
<1>1. /\ running /\ Fits(state) /\ running' = FALSE
      /\ used' = used /\ stray' = stray /\ state' = state /\ map' = map
  BY DEF Bitmap, Returns
<1>2. IdsOK' /\ StateOK' /\ SearchOK'
  <2>1. res' \in {"OK", "FULL", "CONFLICTING_NAME"}
    BY DEF Bitmap, Returns
  <2> QED
    BY <1>1, <2>1 DEF IInv, IdsOK, StateOK, SearchOK, Big
<1>3. (Whole /\ ~Big) \/ \E g \in Groups : Chosen(g)
  <2>1. ~Counted
    BY <1>1, Sizes DEF Counted, Big, Fits
  <2>2. Whole => ~Big
    BY <1>1, Sizes DEF Whole, Big, Fits
  <2> QED
    BY <1>1, <2>1, <2>2 DEF IInv, SearchOK
<1>4. state.min \in Nat \ {0} /\ state.conflict \in BOOLEAN
  <2>1. CASE Whole
    BY <2>1, Keep DEF Whole
  <2>2. CASE \E g \in Groups : Chosen(g)
    <3>1. PICK g \in Groups : Chosen(g)
      BY <2>2
    <3>2. g * Size \in Nat
      BY <3>1, GroupFacts DEF Chosen
    <3> QED
      BY <3>1, <3>2, Keep DEF Chosen
  <2> QED
    BY <1>3, <2>1, <2>2
<1>5. Bits \in SUBSET Nat /\ Taken = {b \in Bits : b + state.min \in used}
  BY Keep, Sizes DEF Bits, Taken
<1>6. CASE state.conflict
  <2>1. res' = "CONFLICTING_NAME"
    BY <1>6 DEF Bitmap, Returns
  <2> QED
    BY <1>2, <2>1 DEF IInv, Answer
<1>7. CASE ~state.conflict /\ Taken = Bits
  <2>1. res' = "FULL"
    BY <1>7 DEF Bitmap, Returns
  <2>2. Grouped \subseteq used
    <3>1. CASE Whole /\ ~Big
      <4> SUFFICES ASSUME NEW id \in Grouped PROVE id \in used
        OBVIOUS
      <4> DEFINE m == PS * Size
                 w == 8 * PS
      <4>1. m \in Nat /\ w \in Nat /\ m <= w
        BY <3>1, Sizes DEF Big
      <4>2. Grouped = 1 .. m /\ Bits = 0 .. w - 1
        BY DEF Grouped, Size, Bits
      <4> HIDE DEF m, w
      <4>3. id \in Nat /\ id - 1 \in Bits
        BY <4>1, <4>2
      <4>4. id - 1 + state.min \in used
        BY <1>5, <1>7, <4>3
      <4> QED
        BY <3>1, <4>3, <4>4 DEF Whole
    <3>2. CASE \E g \in Groups : Chosen(g)
      <4>1. PICK g \in Groups : Chosen(g)
        BY <3>2
      <4>2. PICK id \in GroupIds(g) : id \notin used
        BY <4>1 DEF Chosen
      <4>3. id - state.min \in Bits /\ id - state.min + state.min = id
        <5> DEFINE a == g * Size
        <5>1. a \in Nat /\ Size \in Nat /\ Size <= 8 * PS /\ PS \in Nat
          BY <4>1, Sizes, GroupFacts DEF Chosen
        <5>2. state.min = a + 1 /\ id \in a + 1 .. a + Size
          BY <4>1 DEF Chosen, GroupIds
        <5> HIDE DEF a
        <5> QED
          BY <5>1, <5>2 DEF Bits
      <4> QED
        BY <1>5, <1>7, <4>2, <4>3
    <3> QED
      BY <1>3, <3>1, <3>2
  <2>3. Answer'
    <3>1. Grouped \subseteq used'
      BY <1>1, <2>2
    <3> QED
      BY <2>1, <3>1 DEF Answer, Grouped
  <2> QED
    BY <1>2, <2>3 DEF IInv
<1>8. CASE ~state.conflict /\ Taken # Bits
  <2> DEFINE F == Bits \ Taken
             b == Least(F)
  <2>1. res' = "OK" /\ found' = b + state.min
    BY <1>8 DEF Bitmap, Returns
  <2>2. F \in SUBSET Nat /\ F # {}
    BY <1>5, <1>8
  <2>3. b \in F /\ \A y \in F : b <= y
    BY <2>2, LeastInSet
  <2> HIDE DEF b
  <2>4. b \in Nat /\ found' \in Nat \ {0} /\ found' \notin used
    BY <1>4, <1>5, <2>1, <2>2, <2>3
  <2>5. ASSUME Big PROVE found' \in Grouped
    <3>1. PICK g \in Groups : Chosen(g)
      BY <1>3, <2>5
    <3>2. PICK id \in GroupIds(g) : id \notin used
      BY <3>1 DEF Chosen
    <3> DEFINE a == g * Size
    <3>3. a \in Nat /\ Size \in Nat /\ Size <= 8 * PS /\ PS \in Nat
      BY <2>5, Sizes, GroupFacts
    <3>4. state.min = a + 1 /\ GroupIds(g) = a + 1 .. a + Size
      BY <3>1 DEF Chosen, GroupIds
    <3> HIDE DEF a
    <3>5. id - state.min \in Bits /\ id - state.min + state.min = id
      BY <3>2, <3>3, <3>4 DEF Bits
    <3>6. id - state.min \in F
      BY <1>5, <3>2, <3>5
    <3>7. b <= id - state.min
      BY <2>3, <3>6
    <3>8. found' \in GroupIds(g)
      BY <2>1, <2>4, <3>2, <3>3, <3>4, <3>7
    <3> QED
      BY <2>5, <3>8, GroupFacts
  <2>6. Answer'
    BY <1>1, <1>8, <2>1, <2>4, <2>5 DEF Answer, Big, Grouped
  <2> QED
    BY <1>2, <2>6 DEF IInv
<1> QED
  BY <1>6, <1>7, <1>8

LEMMA CountStep ==
    ASSUME IInv, Count
    PROVE  IInv'
<1> DEFINE s == [state EXCEPT !.comp = (state.max - state.min) \div PS]
<1>1. /\ running /\ ~Fits(state) /\ state.comp = 0
      /\ used' = used /\ stray' = stray
  BY DEF Count
<1>2. Whole /\ Big
  <2>1. ~Counted
    BY <1>1, Sizes DEF Counted
  <2>2. ASSUME NEW g \in Groups, Chosen(g) PROVE FALSE
    BY <1>1, <2>2, Sizes DEF Chosen
  <2>3. Whole
    BY <1>1, <2>1, <2>2 DEF IInv, SearchOK
  <2> QED
    BY <1>1, <2>3, Sizes DEF Whole, Fits, Big
<1>3. CASE state.conflict
  <2>1. running' = FALSE /\ res' = "CONFLICTING_NAME" /\ state' = state /\ map' = map
    BY <1>3 DEF Count, Returns
  <2> QED
    BY <1>1, <2>1 DEF IInv, IdsOK, StateOK, SearchOK, Answer, Big
<1>4. CASE ~state.conflict
  <2>1. /\ state' = s /\ running' = running /\ res' = res /\ found' = found
        /\ map' = [g \in Groups |-> Cardinality(InGroup(s, g)) % 256]
    BY <1>4 DEF Count, result
  <2>2. /\ s \in [min : Nat, max : Nat, comp : Nat, conflict : BOOLEAN]
        /\ s.min = 1 /\ s.max = MaxObjects + 1 /\ s.comp = Size /\ ~s.conflict
    <3>1. (state.max - state.min) \div PS = Size
      <4>1. state.max - state.min = MaxObjects
        BY <1>2, Sizes DEF Whole
      <4> QED
        BY <4>1 DEF Size
    <3>2. Size \in Nat
      BY Sizes
    <3> QED
      BY <1>2, <1>4, <3>1, <3>2, Keep DEF Whole
  <2> HIDE DEF s
  <2>3. \A g \in Groups : Cardinality(InGroup(s, g)) % 256 = Cardinality(used \cap GroupIds(g))
    <3> SUFFICES ASSUME NEW g \in Groups
                 PROVE  Cardinality(InGroup(s, g)) % 256 = Cardinality(used \cap GroupIds(g))
      OBVIOUS
    <3>1. InGroup(s, g) = used \cap GroupIds(g)
      BY <1>2, <2>2, Keep, CountsGroup
    <3> QED
      BY <1>2, <3>1, GroupCount
  <2>4. \A g \in Groups : Cardinality(used \cap GroupIds(g)) \in Nat
    BY <1>2, GroupCount
  <2>5. Groups' = Groups
    BY DEF Groups
  <2>6. /\ map' \in [Groups -> Nat]
        /\ \A g \in Groups : map'[g] = Cardinality(used \cap GroupIds(g))
    <3>1. \A g \in Groups : Cardinality(InGroup(s, g)) % 256 \in Nat
      BY <2>3, <2>4
    <3>2. map' \in [Groups -> Nat]
      BY <2>1, <3>1
    <3>3. \A g \in Groups : map'[g] = Cardinality(InGroup(s, g)) % 256
      BY <2>1
    <3> QED
      BY <2>3, <3>2, <3>3
  <2>7. StateOK'
    BY <1>1, <2>1, <2>2, <2>6 DEF IInv, StateOK, Groups
  <2>8. Counted'
    BY <1>1, <1>2, <2>1, <2>2, <2>6 DEF Counted, Big, Groups, GroupIds, Size
  <2>9. IdsOK' /\ Answer'
    BY <1>1, <2>1 DEF IInv, IdsOK, Answer, SearchOK, Big, Grouped
  <2>10. SearchOK'
    BY <1>1, <2>1, <2>8 DEF IInv, SearchOK
  <2> QED
    BY <2>7, <2>8, <2>9, <2>10 DEF IInv
<1> QED
  BY <1>3, <1>4

LEMMA SelectStep ==
    ASSUME IInv, Select
    PROVE  IInv'
<1>1. /\ running /\ ~Fits(state) /\ state.comp # 0 /\ res = "none"
      /\ used' = used /\ stray' = stray /\ map' = map
  BY DEF Select, IInv, SearchOK
<1>2. Counted
  <2>1. ~Whole
    BY <1>1 DEF Whole
  <2>2. ASSUME NEW h \in Groups, Chosen(h) PROVE FALSE
    <3>1. state.max - state.min = Size
      BY <2>2, Sizes, Keep DEF Chosen
    <3> QED
      BY <1>1, <3>1, Sizes DEF Fits
  <2> QED
    BY <1>1, <2>1, <2>2 DEF IInv, SearchOK
<1>3. PICK g \in Groups : g = Emptiest /\ \A h \in Groups : map[g] <= map[h]
  BY Keep, EmptiestIs
<1>4. /\ Big /\ state.min = 1 /\ state.comp = Size /\ ~state.conflict
      /\ \A h \in Groups : map[h] = Cardinality(used \cap GroupIds(h))
  BY <1>2 DEF Counted
<1>5. \/ map[g] = Size /\ Returns("FULL", 0) /\ state' = state
      \/ map[g] # Size /\ map[g] = 0 /\ Returns("OK", g * Size + 1) /\ state' = state
      \/ map[g] # Size /\ state' = Narrowed(g) /\ UNCHANGED result
  BY <1>3, <1>4 DEF Select
<1>6. g * Size \in Nat /\ GroupIds(g) \subseteq Grouped
  BY <1>3, <1>4, GroupFacts
<1>7. CASE map[g] = Size /\ Returns("FULL", 0) /\ state' = state
  <2>1. running' = FALSE /\ res' = "FULL"
    BY <1>7 DEF Returns
  <2>2. \A h \in Groups : GroupIds(h) \subseteq used
    <3> SUFFICES ASSUME NEW h \in Groups PROVE GroupIds(h) \subseteq used
      OBVIOUS
    <3> DEFINE n == Cardinality(used \cap GroupIds(h))
    <3>1. n \in Nat /\ n <= Size /\ (n = Size <=> GroupIds(h) \subseteq used)
      BY <1>4, GroupCount
    <3>2. map[h] = n /\ Size <= map[h]
      BY <1>3, <1>4, <1>7
    <3> HIDE DEF n
    <3> QED
      BY <3>1, <3>2, Sizes
  <2>3. Grouped \subseteq used
    BY <1>4, <2>2, InSomeGroup
  <2>4. Answer'
    BY <1>1, <2>1, <2>3 DEF Answer, Grouped
  <2> QED
    BY <1>1, <1>7, <2>1, <2>4 DEF IInv, IdsOK, StateOK, SearchOK, Big
<1>8. CASE map[g] = 0 /\ Returns("OK", g * Size + 1) /\ state' = state
  <2>1. running' = FALSE /\ res' = "OK" /\ found' = g * Size + 1
    BY <1>8 DEF Returns
  <2>2. used \cap GroupIds(g) = {}
    BY <1>3, <1>4, <1>8, GroupCount
  <2>3. found' \in GroupIds(g)
    <3> DEFINE a == g * Size
    <3>1. GroupIds(g) = a + 1 .. a + Size /\ found' = a + 1
      BY <2>1 DEF GroupIds
    <3>2. a \in Nat /\ Size \in Nat \ {0}
      BY <1>4, <1>6, Sizes
    <3> HIDE DEF a
    <3> QED
      BY <3>1, <3>2
  <2>4. found' \in Nat \ {0} /\ found' \notin used /\ found' \in Grouped
    BY <1>6, <2>1, <2>2, <2>3
  <2>5. Answer'
    BY <1>1, <1>4, <1>8, <2>1, <2>4 DEF Answer, Grouped
  <2> QED
    BY <1>1, <1>8, <2>1, <2>5 DEF IInv, IdsOK, StateOK, SearchOK, Big
<1>9. CASE map[g] # Size /\ state' = Narrowed(g) /\ UNCHANGED result
  <2> DEFINE min == 1 + g * Size
             s   == [state EXCEPT !.min = min, !.max = min + Size]
  <2>1. state' = s /\ running' = running /\ res' = res /\ found' = found
    BY <1>4, <1>9 DEF Narrowed, result
  <2>2. min \in Nat /\ min + Size \in Nat /\ min = g * Size + 1
    BY <1>6, Sizes
  <2>3. /\ s \in [min : Nat, max : Nat, comp : Nat, conflict : BOOLEAN]
        /\ s.min = g * Size + 1 /\ s.max = s.min + Size /\ s.comp = Size /\ ~s.conflict
    <3> HIDE DEF min
    <3> QED
      BY <1>4, <2>2, Keep
  <2> HIDE DEF s
  <2>4. ~(GroupIds(g) \subseteq used)
    BY <1>3, <1>4, <1>9, GroupCount
  <2>5. Chosen(g)'
    <3>1. /\ state'.min = g * Size + 1 /\ state'.max = state'.min + Size
          /\ state'.comp = Size /\ ~state'.conflict
      BY <2>1, <2>3
    <3> QED
      BY <1>1, <1>4, <2>4, <3>1 DEF Chosen, Big, GroupIds, Size
  <2>6. SearchOK'
    BY <1>1, <1>3, <2>1, <2>5 DEF SearchOK, Groups
  <2> QED
    BY <1>1, <2>1, <2>3, <2>6 DEF IInv, IdsOK, StateOK, Answer, Big
<1> QED
  BY <1>5, <1>7, <1>8, <1>9
LEMMA SearchStep ==
    ASSUME IInv, NEW c \in BOOLEAN, Search(c)
    PROVE  IInv'
<1>1. /\ res' = "none" /\ state' = Start(c) /\ running' = TRUE
      /\ used' = used /\ stray' = stray /\ map' = map /\ found' = found
  BY DEF Search
<1>2. 0 \in Nat /\ 1 \in Nat /\ MaxObjects + 1 \in Nat
  BY Sizes
<1>3. Start(c) \in [min : Nat, max : Nat, comp : Nat, conflict : BOOLEAN]
  BY <1>2 DEF Start
<1>4. StateOK'
  BY <1>1, <1>3 DEF IInv, StateOK, Groups
<1>5. Whole'
  BY <1>1 DEF Whole, Start
<1>6. IdsOK' /\ SearchOK' /\ Answer'
  BY <1>1, <1>5 DEF IInv, IdsOK, SearchOK, Answer, Big, Grouped
<1> QED
  BY <1>4, <1>6 DEF IInv

\* The id found is the id of a file from now on.
LEMMA CreateStep ==
    ASSUME IInv, Create
    PROVE  IInv'
<1>1. /\ res # "none" /\ res' = "none" /\ found' = 0
      /\ used' = IF res = "OK" THEN used \cup {found} ELSE used
      /\ stray' = stray /\ state' = state /\ map' = map /\ running' = running
  BY DEF Create
<1>2. ~running /\ running' = running
  BY <1>1 DEF IInv, SearchOK
<1>3. IdsOK'
  BY <1>1 DEF IInv, IdsOK, Answer, Big, Grouped
<1>4. StateOK' /\ Answer'
  BY <1>1 DEF IInv, StateOK, Answer, Groups
<1>5. SearchOK'
  BY <1>2 DEF SearchOK
<1> QED
  BY <1>3, <1>4, <1>5 DEF IInv

LEMMA RemoveStep ==
    ASSUME IInv, NEW id \in used, Remove(id)
    PROVE  IInv'
<1>1. /\ ~running /\ res = "none" /\ used' = used \ {id}
      /\ stray' = stray /\ state' = state /\ map' = map
      /\ running' = running /\ res' = res /\ found' = found
  BY DEF Remove, result
<1>2. IdsOK'
  BY <1>1 DEF IInv, IdsOK, Big, Grouped
<1>3. StateOK' /\ SearchOK' /\ Answer'
  BY <1>1 DEF IInv, StateOK, SearchOK, Answer, Groups
<1> QED
  BY <1>2, <1>3 DEF IInv

LEMMA EveryStep ==
    ASSUME IInv, [Next]_vars
    PROVE  IInv'
<1>1. ASSUME NEW c \in BOOLEAN, Search(c) PROVE IInv'
  BY <1>1, SearchStep
<1>2. CASE Bitmap
  BY <1>2, BitmapStep
<1>3. CASE Count
  BY <1>3, CountStep
<1>4. CASE Select
  BY <1>4, SelectStep
<1>5. CASE Create
  BY <1>5, CreateStep
<1>6. ASSUME NEW id \in used, Remove(id) PROVE IInv'
  BY <1>6, RemoveStep
<1>7. CASE UNCHANGED vars
  <2>1. /\ used' = used /\ stray' = stray /\ state' = state /\ map' = map
        /\ running' = running /\ res' = res /\ found' = found
    BY <1>7 DEF vars
  <2>2. (\E g \in Groups : Chosen(g)) <=> (\E g \in Groups : Chosen(g))'
    BY <2>1 DEF Chosen, Groups, GroupIds, Big, Size
  <2>3. Whole' = Whole /\ Counted' = Counted
    BY <2>1 DEF Whole, Counted, Groups, GroupIds, Big, Size
  <2>4. IdsOK' /\ StateOK' /\ Answer'
    BY <2>1 DEF IInv, IdsOK, StateOK, Answer, Big, Groups, Grouped
  <2>5. SearchOK'
    BY <2>1, <2>2, <2>3 DEF IInv, SearchOK
  <2> QED
    BY <2>4, <2>5 DEF IInv
<1> QED
  BY <1>1, <1>2, <1>3, <1>4, <1>5, <1>6, <1>7 DEF Next

LEMMA Always ==
    ASSUME Strays = {}
    PROVE  Spec => []IInv
<1>1. Init => IInv
  BY FirstState
<1>2. IInv /\ [Next]_vars => IInv'
  BY EveryStep
<1> QED
  BY <1>1, <1>2, PTL DEF Spec

----------------------------------------------------------------------------
(* The theorems.                                                           *)

\* An id that is found is the id of no page, and no file has the name that
\* is looked for on the way: for every page size and number of objects.
THEOREM FindsUnused ==
    ASSUME Strays = {}
    PROVE  Spec => []FoundUnused
<1>1. IInv => FoundUnused
  BY DEF IInv, IdsOK, Answer, FoundUnused
<1> QED
  BY <1>1, Always, PTL

\* The counting never writes behind the page it counts in: an id behind the
\* last whole group is given to no file, by the bitmap or by the groups.
THEOREM CountsInBounds ==
    ASSUME Strays = {}
    PROVE  Spec => []MapInBounds
<1>1. ASSUME IInv PROVE MapInBounds
  <2> SUFFICES ASSUME NEW id \in used, MaxObjects > 8 * PS
               PROVE  (id - 1) \div (MaxObjects \div PS) < PS
    BY Sizes DEF MapInBounds
  <2>1. id \in Grouped /\ Size \in Nat \ {0}
    BY <1>1, Sizes DEF IInv, IdsOK, Big
  <2> DEFINE m == PS * Size
             q == (id - 1) \div Size
  <2>2. m \in Nat /\ Grouped = 1 .. m
    BY Sizes DEF Grouped, Size
  <2>3. id \in Nat /\ id - 1 \in Nat /\ id - 1 < m
    <3> HIDE DEF m
    <3> QED
      BY <2>1, <2>2
  <2>4. q \in Nat /\ Size * q <= id - 1
    BY <2>1, <2>3, Quotient
  <2> HIDE DEF q
  <2>5. Size * q < PS * Size
    BY <2>1, <2>2, <2>3, <2>4, Sizes
  <2>6. q < PS
    BY <2>1, <2>4, <2>5, Sizes
  <2> QED
    BY <2>6 DEF q, Size
<1> QED
  BY <1>1, Always, PTL

\* There is an id left as long as there is one in a group that no file has:
\* the search says "full" only when all of them are taken.
THEOREM FullMeansFull ==
    ASSUME Strays = {}
    PROVE  Spec => []FullWhenFull
<1>1. IInv => FullWhenFull
  BY DEF IInv, Answer, FullWhenFull
<1> QED
  BY <1>1, Always, PTL
=============================================================================
