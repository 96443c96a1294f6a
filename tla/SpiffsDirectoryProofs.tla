----------------------- MODULE SpiffsDirectoryProofs -----------------------
(***************************************************************************)
(* Proofs about the directory listing: what readdir does with the headers  *)
(* it meets, for every chip and every sequence of calls between two of its *)
(* steps.  Of the objects they assume that a file has one header: nothing  *)
(* a listing does could make up for a second one.                          *)
(***************************************************************************)
EXTENDS SpiffsDirectory, SpiffsObjectsProofs

----------------------------------------------------------------------------
(* The order of the pages.                                                 *)

\* The place after a page: the page is before it, and what was before the
\* page; the pages after it are not.
LEMMA AfterPage ==
    ASSUME NEW p \in Page, NEW q \in Page, NEW at \in Nat \X Nat,
           ~Before(p, at)
    PROVE  /\ Before(p, <<p[1], p[2] + 1>>)
           /\ Before(q, at) => Before(q, <<p[1], p[2] + 1>>)
           /\ Before(p, q) => ~Before(q, <<p[1], p[2] + 1>>)
           /\ <<p[1], p[2] + 1>> \in Nat \X Nat
<1>1. /\ p[1] \in Nat /\ p[2] \in Nat /\ q[1] \in Nat /\ q[2] \in Nat
      /\ at[1] \in Nat /\ at[2] \in Nat
  BY GeometryAssumption DEF Page, Block, Entry
<1> QED BY <1>1 DEF Before

----------------------------------------------------------------------------
(* The list of what readdir returned.                                      *)

\* seen is a list.
IsList(s) == \E A : s \in Seq(A)
TimesIn(s, o) == Cardinality({i \in DOMAIN s : s[i] = o})

\* One more element of a list is counted for the object it is.
LEMMA TimesAppended ==
    ASSUME NEW s, IsList(s), NEW e, NEW o
    PROVE  /\ IsList(Append(s, e))
           /\ TimesIn(s, o) \in Nat
           /\ TimesIn(Append(s, e), o) =
                IF e = o THEN TimesIn(s, o) + 1 ELSE TimesIn(s, o)
<1>1. PICK A : s \in Seq(A)
  BY DEF IsList
<1> DEFINE B == A \cup {e}
           S == {i \in DOMAIN s : s[i] = o}
           t == Append(s, e)
           T == {i \in DOMAIN t : t[i] = o}
<1>2. s \in Seq(B) /\ e \in B
  BY <1>1
<1>3. /\ t \in Seq(B) /\ Len(t) = Len(s) + 1 /\ t[Len(s) + 1] = e
      /\ \A i \in 1 .. Len(s) : t[i] = s[i]
  BY <1>2
<1>4. Len(s) \in Nat /\ DOMAIN s = 1 .. Len(s) /\ DOMAIN t = 1 .. Len(s) + 1
  BY <1>2, <1>3
<1>5. T = IF e = o THEN S \cup {Len(s) + 1} ELSE S
  BY <1>3, <1>4
<1>6. IsFiniteSet(S) /\ Len(s) + 1 \notin S
  <2>1. S \subseteq 1 .. Len(s) /\ IsFiniteSet(1 .. Len(s))
    BY <1>4, FS_Interval
  <2> QED BY <2>1, <1>4, FS_Subset
<1>7. Cardinality(S \cup {Len(s) + 1}) = Cardinality(S) + 1
  BY <1>6, FS_AddElement
<1>8. Cardinality(S) \in Nat
  BY <1>6, FS_CardinalityType
<1>9. Cardinality(T) = IF e = o THEN Cardinality(S) + 1 ELSE Cardinality(S)
  BY <1>5, <1>7
<1>10. IsList(t)
  BY <1>3 DEF IsList
<1> QED BY <1>8, <1>9, <1>10 DEF TimesIn

\* An empty list counts nothing.
LEMMA TimesEmpty == ASSUME NEW o PROVE TimesIn(<<>>, o) = 0 /\ IsList(<<>>)
<1>1. {i \in DOMAIN <<>> : <<>>[i] = o} = {}
  OBVIOUS
<1>2. <<>> \in Seq({})
  OBVIOUS
<1> QED BY <1>1, <1>2, FS_EmptySet DEF TimesIn, IsList

LEMMA TimesIsTimesIn == ASSUME NEW o PROVE Times(o) = TimesIn(seen, o)
BY DEF Times, TimesIn

----------------------------------------------------------------------------
(* What the calls of the objects do to the mode and to damaged.            *)

\* An operation leaves the file system mounted or without power, and no
\* object less damaged than it was.
LEMMA EndsMode ==
    ASSUME NEW f, NEW o, NEW after, Ends(f, o, after), mode = "on"
    PROVE  mode' \in {"on", "off"} /\ Obj \ damaged' \subseteq Obj \ damaged
<1>1. mode' \in {"on", "off"}
  BY DEF Ends
<1>2. \/ damaged' = damaged
      \/ damaged' = Obj
      \/ damaged' = damaged \cup {o}
  BY DEF Ends
<1> QED BY <1>1, <1>2

\* From a mounted file system every call leads to one, or to a loss of power.
LEMMA NextMode ==
    ASSUME Next, mode = "on"
    PROVE  mode' \in {"on", "off"} /\ Obj \ damaged' \subseteq Obj \ damaged
<1>1. CASE \E d \in Fd, o \in Obj : Open(d, o)
  BY <1>1 DEF Open
<1>2. CASE \E d \in Fd : Close(d) \/ Unmap(d)
  BY <1>2 DEF Close, Unmap
<1>3. CASE \E d \in Fd, m \in Maps : Map(d, m) \/ Remap(d, m)
  BY <1>3 DEF Map, Remap
<1>4. CASE \E d \in Fd : TruncateTo0(d) \/ RemoveObject(d)
  <2>1. \E f, o, after : Ends(f, o, after)
    BY <1>4 DEF TruncateTo0, RemoveObject
  <2> QED BY <2>1, EndsMode
<1>5. CASE \E d \in Fd, w \in Writes : WriteTo(d, w)
  <2>1. \E f, o, after : Ends(f, o, after)
    BY <1>5 DEF WriteTo
  <2> QED BY <2>1, EndsMode
<1>6. CASE \E o \in Obj : CreateObject(o) \/ Gc(o)
  <2>1. \E f, o, after : Ends(f, o, after)
    BY <1>6 DEF CreateObject, Gc
  <2> QED BY <2>1, EndsMode
<1>7. CASE Mount
  BY <1>7 DEF Mount, Passes
<1>8. CASE CheckStep
  BY <1>8 DEF CheckStep, CheckLookup, CheckIndexes, CheckPages, ScanTo,
              CheckRestarts, CheckEnds, Passes
<1> QED
  BY <1>1, <1>2, <1>3, <1>4, <1>5, <1>6, <1>7, <1>8 DEF Next, Operation

----------------------------------------------------------------------------
(* One header to a file.                                                   *)

\* The headers readdir stops at are pages.
LEMMA HeadersArePages ==
    ASSUME NEW f, NEW o, NEW at
    PROVE  /\ HeadersOf(f, o) \subseteq Page
           /\ Ahead(f, at) \subseteq Page
           /\ NoPix \notin HeadersOf(f, o)
BY ObjectAssumption DEF HeadersOf, Ahead, Listable

\* Where ShowsTheFiles holds no file has two headers.
LEMMA OneHeader ==
    ASSUME ShowsTheFiles, mode = "on", NEW o \in Obj \ damaged,
           NEW p \in HeadersOf(fs, o), NEW q \in HeadersOf(fs, o)
    PROVE  p = q
<1> DEFINE H == HeadersOf(fs, o)
<1>1. IsFiniteSet(H)
  BY HeadersArePages, PageIsFinite, FS_Subset
<1>2. Cardinality(H) = 1 \/ Cardinality(H) = 0
  BY DEF ShowsTheFiles
<1>3. Cardinality(H) # 0
  BY <1>1, FS_EmptySet
<1>4. PICK h : H = {h}
  BY <1>1, <1>2, <1>3, FS_Singleton
<1> QED BY <1>4

\* The inductive invariant.  A listing is of a mounted file system; what
\* still says of a file is so, and ListedOnce.
StillThere == mode = "on" => \A o \in Obj \ damaged :
                 still[o] \in HeadersOf(fs, o) \cup {NoPix}
DirInv ==
    /\ dir \in {NotOpen, Ended} \cup (Nat \X Nat)
    /\ dir # NotOpen => mode = "on"
    /\ dir = NotOpen => \A o \in Obj : still[o] = NoPix
    /\ IsList(seen)
    /\ StillThere
    /\ ListedOnce

LEMMA DirInitInv == DirInit => DirInv
<1> SUFFICES ASSUME DirInit PROVE DirInv
  OBVIOUS
<1>1. dir = NotOpen /\ seen = <<>> /\ \A o \in Obj : still[o] = NoPix
  BY DEF DirInit
<1>2. IsList(seen)
  BY <1>1, TimesEmpty
<1> QED BY <1>1, <1>2 DEF DirInv, StillThere, ListedOnce

\* A listing that is not open says nothing of a file.
LEMMA ClosedInv ==
    ASSUME dir' = NotOpen, seen' = <<>>, still' = [o \in Obj |-> NoPix]
    PROVE  DirInv'
<1>1. IsList(seen')
  BY TimesEmpty
<1>2. \A o \in Obj : still'[o] = NoPix
  OBVIOUS
<1> QED BY <1>1, <1>2 DEF DirInv, StillThere, ListedOnce

LEMMA OpenDirInv ==
    ASSUME DirInv, ShowsTheFiles, OpenDir
    PROVE  DirInv'
<1>1. /\ mode = "on" /\ mode' = "on" /\ fs' = fs /\ damaged' = damaged
      /\ dir' = <<0, 0>> /\ seen' = <<>>
  BY DEF OpenDir, vars
<1>2. IsList(seen')
  BY <1>1, TimesEmpty
<1>3. ASSUME NEW o \in Obj \ damaged PROVE still'[o] \in HeadersOf(fs, o) \cup {NoPix}
  <2>1. still'[o] = IF HeadersOf(fs, o) = {} THEN NoPix ELSE First(HeadersOf(fs, o))
    BY DEF OpenDir
  <2>2. HeadersOf(fs, o) # {} => First(HeadersOf(fs, o)) \in HeadersOf(fs, o)
    BY FirstInSet, HeadersArePages
  <2> QED BY <2>1, <2>2
<1>4. <<0, 0>> \in Nat \X Nat /\ <<0, 0>> # NotOpen /\ <<0, 0>> # Ended
  BY DirAssumption
<1>5. ASSUME NEW o \in Obj \ damaged, still'[o] # NoPix
      PROVE  Times(o)' = 0 /\ ~Before(still'[o], <<0, 0>>)
  <2>1. still'[o] \in Page
    BY <1>3, <1>5, HeadersArePages
  <2>2. still'[o][1] \in Nat /\ still'[o][2] \in Nat
    BY <2>1, GeometryAssumption DEF Page, Block, Entry
  <2>3. ~Before(still'[o], <<0, 0>>)
    BY <2>2 DEF Before
  <2>4. Times(o)' = TimesIn(<<>>, o)
    BY <1>1 DEF Times, TimesIn
  <2> QED BY <2>3, <2>4, TimesEmpty
<1>6. StillThere'
  BY <1>1, <1>3 DEF StillThere
<1>7. ListedOnce'
  BY <1>1, <1>4, <1>5 DEF ListedOnce
<1>8. dir' \in {NotOpen, Ended} \cup (Nat \X Nat) /\ dir' # NotOpen
  BY <1>1, <1>4
<1> QED BY <1>1, <1>2, <1>6, <1>7, <1>8 DEF DirInv

\* The listing ends: every header that is still there has been passed.
LEMMA ReadDirEndsInv ==
    ASSUME DirInv, ReadDir, Ahead(fs, dir) = {}
    PROVE  DirInv'
<1>1. /\ mode = "on" /\ Listing /\ dir' = Ended
      /\ UNCHANGED <<seen, still, fs, mode, damaged>>
  BY DEF ReadDir, vars
<1>2. ASSUME NEW o \in Obj \ damaged, still[o] # NoPix PROVE Times(o)' = 1
  <2>1. still[o] \in HeadersOf(fs, o)
    BY <1>1, <1>2 DEF DirInv, StillThere
  <2>2. Before(still[o], dir)
    BY <2>1 DEF Ahead, HeadersOf
  <2>3. Times(o) = 1
    BY <1>1, <1>2, <2>2 DEF DirInv, ListedOnce
  <2> QED BY <1>1, <2>3 DEF Times
<1>3. ListedOnce'
  BY <1>1, <1>2 DEF ListedOnce, Listing
<1>4. IsList(seen)' /\ StillThere'
  BY <1>1 DEF DirInv, StillThere
<1>5. Ended # NotOpen
  BY DirAssumption
<1> QED BY <1>1, <1>3, <1>4, <1>5 DEF DirInv

\* The listing goes on: it stops at the next header, and of a file that is
\* still there it either was past the header, or stops at it, or is not
\* there yet.
LEMMA ReadDirGoesOnInv ==
    ASSUME DirInv, ShowsTheFiles, ReadDir, Ahead(fs, dir) # {}
    PROVE  DirInv'
<1> DEFINE p == First(Ahead(fs, dir))
           e == fs.lu[p].obj
<1>1. /\ mode = "on" /\ Listing /\ dir' = <<p[1], p[2] + 1>>
      /\ seen' = Append(seen, e)
      /\ UNCHANGED <<still, fs, mode, damaged>>
  BY DEF ReadDir, vars
<1>2. dir \in Nat \X Nat
  BY <1>1 DEF DirInv, Listing
<1>3. p \in Ahead(fs, dir) /\ \A q \in Ahead(fs, dir) : ~Before(q, p)
  BY FirstInSet, HeadersArePages
<1>4. p \in Page /\ p \in Listable(fs) /\ ~Before(p, dir)
  BY <1>3 DEF Ahead, Listable
<1>5. p \in HeadersOf(fs, e)
  BY <1>4 DEF HeadersOf
<1> HIDE DEF p, e
<1>6. <<p[1], p[2] + 1>> \in Nat \X Nat
  BY <1>2, <1>4, AfterPage
<1>7. IsList(seen)
  BY DEF DirInv
<1>8. IsList(seen')
  BY <1>1, <1>7, TimesAppended
<1>9. ASSUME NEW o \in Obj \ damaged, still[o] # NoPix
      PROVE  Times(o)' = IF Before(still[o], dir') THEN 1 ELSE 0
  <2> DEFINE h == still[o]
  <2>1. h \in HeadersOf(fs, o) /\ h \in Page
    BY <1>1, <1>9, HeadersArePages DEF DirInv, StillThere
  <2>2. TimesIn(seen, o) = IF Before(h, dir) THEN 1 ELSE 0
    BY <1>1, <1>9, TimesIsTimesIn DEF DirInv, ListedOnce
  <2>3. Times(o)' = TimesIn(seen', o)
    BY DEF Times, TimesIn
  <2>4. TimesIn(seen', o) = IF e = o THEN TimesIn(seen, o) + 1 ELSE TimesIn(seen, o)
    BY <1>1, <1>7, TimesAppended
  <2>5. e = o => p = h
    BY <1>1, <1>5, <2>1, OneHeader
  <2>6. p = h => e = o
    BY <1>5, <2>1 DEF HeadersOf
  <2> HIDE DEF h
  <2>7. CASE p = h
    <3>1. Before(h, dir')
      BY <1>1, <1>2, <1>4, <2>7, AfterPage
    <3>2. ~Before(h, dir)
      BY <1>4, <2>7
    <3> QED BY <2>2, <2>3, <2>4, <2>6, <2>7, <3>1, <3>2 DEF h
  <2>8. CASE p # h /\ Before(h, dir)
    <3>1. Before(h, dir')
      BY <1>1, <1>2, <1>4, <2>1, <2>8, AfterPage
    <3> QED BY <2>2, <2>3, <2>4, <2>5, <2>8, <3>1 DEF h
  <2>9. CASE p # h /\ ~Before(h, dir)
    <3>1. h \in Ahead(fs, dir)
      BY <2>1, <2>9 DEF Ahead, HeadersOf
    <3>2. p \in Nat \X Nat /\ ~Before(h, p)
      BY <1>3, <1>4, <3>1, GeometryAssumption DEF Page, Block, Entry
    <3>3. Before(p, h)
      BY <2>1, <2>9, <3>2, BeforeIsTotal
    <3>4. ~Before(h, dir')
      BY <1>1, <1>2, <1>4, <2>1, <3>3, AfterPage
    <3> QED BY <2>2, <2>3, <2>4, <2>5, <2>9, <3>4 DEF h
  <2> QED BY <2>7, <2>8, <2>9
<1>10. dir' \in Nat \X Nat /\ dir' # Ended /\ dir' # NotOpen
  BY <1>1, <1>6, DirAssumption
<1>11. ListedOnce'
  BY <1>1, <1>9, <1>10 DEF ListedOnce
<1>12. StillThere'
  BY <1>1 DEF DirInv, StillThere
<1> QED BY <1>1, <1>8, <1>10, <1>11, <1>12 DEF DirInv

\* Between two steps of a listing: what still says stays so or is taken
\* back.
LEMMA ElsewhereInv ==
    ASSUME DirInv, Elsewhere
    PROVE  DirInv'
<1>1. CASE mode' = "off"
  BY <1>1, ClosedInv DEF Elsewhere
<1>2. CASE mode' # "off"
  <2>1. /\ dir' = dir /\ seen' = seen
        /\ \A o \in Obj : still'[o] = IF still[o] \in HeadersOf(fs', o)
                                      THEN still[o] ELSE NoPix
    BY <1>2 DEF Elsewhere
  <2>2. dir # NotOpen => mode' = "on" /\ Obj \ damaged' \subseteq Obj \ damaged
    BY <1>2, NextMode DEF Elsewhere, DirInv
  <2>3. StillThere'
    BY <2>1 DEF StillThere
  <2>4. dir = NotOpen => \A o \in Obj : still'[o] = NoPix
    BY <2>1 DEF DirInv
  <2>5. ASSUME NEW o \in Obj \ damaged', still'[o] # NoPix
        PROVE  /\ dir' = Ended => Times(o)' = 1
               /\ Listing' => Times(o)' = IF Before(still'[o], dir') THEN 1 ELSE 0
    <3>1. still'[o] = still[o] /\ still[o] # NoPix
      BY <2>1, <2>5
    <3>2. dir # NotOpen
      BY <3>1 DEF DirInv
    <3>3. o \in Obj \ damaged
      BY <2>2, <3>2
    <3>4. Times(o)' = Times(o) /\ (Listing' <=> Listing)
      BY <2>1 DEF Times, Listing
    <3>5. /\ dir = Ended => Times(o) = 1
          /\ Listing => Times(o) = IF Before(still[o], dir) THEN 1 ELSE 0
      BY <3>1, <3>3 DEF DirInv, ListedOnce
    <3> QED BY <2>1, <3>1, <3>4, <3>5
  <2>6. ListedOnce'
    BY <2>5 DEF ListedOnce
  <2>7. IsList(seen)'
    BY <2>1 DEF DirInv
  <2> QED BY <2>1, <2>2, <2>3, <2>4, <2>6, <2>7 DEF DirInv
<1> QED BY <1>1, <1>2

LEMMA DirNextInv ==
    ASSUME DirInv, ShowsTheFiles, [DirNext]_allVars
    PROVE  DirInv'
<1>1. CASE OpenDir
  BY <1>1, OpenDirInv
<1>2. CASE ReadDir
  BY <1>2, ReadDirEndsInv, ReadDirGoesOnInv
<1>3. CASE CloseDir
  BY <1>3, ClosedInv DEF CloseDir
<1>4. CASE Elsewhere
  BY <1>4, ElsewhereInv
<1>5. CASE UNCHANGED allVars
  <2>1. UNCHANGED <<fs, mode, damaged, dir, seen, still>>
    BY <1>5 DEF allVars, vars, dirVars
  <2>2. IsList(seen)' /\ StillThere'
    BY <2>1 DEF DirInv, StillThere
  <2>3. ListedOnce'
    BY <2>1 DEF DirInv, ListedOnce, Listing, Times
  <2> QED BY <2>1, <2>2, <2>3 DEF DirInv
<1> QED BY <1>1, <1>2, <1>3, <1>4, <1>5 DEF DirNext

\* readdir lists a file that is left where it is once: never before its
\* header is reached, never twice after, and not missed when the listing
\* ends (SPIFFS_readdir, spiffs_read_dir_v), for every chip and every
\* sequence of other calls between its steps, as long as these leave every
\* file one header.
THEOREM FilesAreListedOnce == DirSpec /\ []ShowsTheFiles => []ListedOnce
<1>1. DirInit => DirInv
  BY DirInitInv
<1>2. DirInv /\ ShowsTheFiles /\ [DirNext]_allVars => DirInv'
  BY DirNextInv
<1>3. DirInv => ListedOnce
  BY DEF DirInv
<1> QED BY <1>1, <1>2, <1>3, PTL DEF DirSpec
=============================================================================
