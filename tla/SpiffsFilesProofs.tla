-------------------------- MODULE SpiffsFilesProofs --------------------------
(***************************************************************************)
(* The descriptors and the write cache of the file interface, for every    *)
(* number of descriptors, cache pages, objects and names and for every     *)
(* page size.                                                              *)
(*                                                                         *)
(* A call is a chain of operators on states, so each of them has a lemma   *)
(* that says what it leaves of three predicates: Sound (the types, and     *)
(* open descriptors are on objects that exist), Paged (descriptors and     *)
(* write pages belong to each other) and Informed (descriptors know their  *)
(* object).                                                                *)
(***************************************************************************)
EXTENDS SpiffsFiles, FiniteSetTheorems, SequenceTheorems, WellFoundedInduction,
        TLAPS

Symbol  == Byte \cup {Hole, Garbage}
FileRec == [name : Name, data : Seq(Symbol)]
FdRec   == [open : BOOLEAN, obj : ObjId \cup {NoObj},
            flags : SUBSET {"RD", "WR", "APPEND", "DIRECT"},
            size : Nat, fdoffset : Nat, cp : CachePage \cup {NoPage},
            scored : BOOLEAN, current : BOOLEAN]
PageRec == [wr : BOOLEAN, obj : ObjId \cup {NoObj}, offset : Nat, data : Seq(Symbol)]
State   == [disk : [ObjId -> FileRec \cup {NoFile}], fd : [Handle -> FdRec],
            cache : [CachePage -> PageRec], res : {"OK", "ERROR"}]

Exists(s, o) == o \in ObjId /\ s.disk[o] # NoFile

Sound(s) ==
    /\ s \in State
    /\ \A h \in Handle : s.fd[h].open => Exists(s, s.fd[h].obj)

\* Files are not opened with SPIFFS_O_DIRECT.
Buffered(s) == \A h \in Handle : s.fd[h].open => "DIRECT" \notin s.fd[h].flags

\* A closed descriptor has no cache page and no object.
Clean(s) ==
    \A h \in Handle : ~s.fd[h].open => s.fd[h].cp = NoPage /\ s.fd[h].obj = NoObj

Pointing(s) ==
    \A h \in Handle : s.fd[h].cp # NoPage =>
        s.cache[s.fd[h].cp].wr /\ s.cache[s.fd[h].cp].obj = s.fd[h].obj

\* A write page is the cache page of some descriptor.
Owned(s) ==
    \A c \in CachePage : s.cache[c].wr =>
        \E h \in Handle : s.fd[h].open /\ s.fd[h].cp = c

OnePage(s) ==
    \A c, d \in CachePage :
        s.cache[c].wr /\ s.cache[d].wr /\ s.cache[c].obj = s.cache[d].obj => c = d

Paged(s) == Buffered(s) /\ Clean(s) /\ Pointing(s) /\ Owned(s) /\ OnePage(s)

Knows(s, h) == s.fd[h].scored /\ Coherent(s, h)
Informed(s) == \A h \in Handle : s.fd[h].open => Knows(s, h)

LEMMA Constants ==
    /\ FdCount \in Nat /\ PageSize \in Nat /\ DataSize \in Nat /\ MaxSize \in Nat
    /\ 1 < DataSize /\ DataSize < PageSize
    /\ Lengths \subseteq Nat \ {0}
    /\ Undefined \in Nat /\ Undefined > MaxSize /\ Undefined # 0
    /\ NoObj \notin ObjId /\ NoPage \notin CachePage /\ NoFile \notin FileRec
    /\ 0 \notin Handle
BY SizeAssumption, ValuesAssumption DEF Undefined, FileRec, Symbol, Handle

LEMMA Minimum ==
    ASSUME NEW a \in Nat, NEW b \in Nat
    PROVE  /\ MinOf(a, b) \in Nat /\ MinOf(a, b) <= a /\ MinOf(a, b) <= b
           /\ MaxOf(a, b) \in Nat /\ a <= MaxOf(a, b) /\ b <= MaxOf(a, b)
           /\ MaxOf(a, b) \in {a, b}
BY DEF MinOf, MaxOf

LEMMA Splicing ==
    ASSUME NEW d \in Seq(Symbol), NEW p \in Nat, NEW b \in Seq(Symbol)
    PROVE  /\ Splice(d, p, b) \in Seq(Symbol)
           /\ Len(Splice(d, p, b)) = MaxOf(Len(d), p + Len(b))
<1> DEFINE n == MaxOf(Len(d), p + Len(b))
           s == Splice(d, p, b)
<1>1. Len(d) \in Nat /\ Len(b) \in Nat /\ p + Len(b) \in Nat
  OBVIOUS
<1>2. n \in Nat /\ Len(d) \in Nat /\ Len(b) \in Nat /\ Len(d) <= n /\ p + Len(b) <= n
  BY <1>1, Minimum
<1> HIDE DEF n
<1>3. s = [i \in 1 .. n |-> IF p < i /\ i <= p + Len(b) THEN b[i - p]
                            ELSE IF i <= Len(d) THEN d[i] ELSE Hole]
  BY DEF Splice, n
<1>4. \A i \in 1 .. n : s[i] \in Symbol
  <2> SUFFICES ASSUME NEW i \in 1 .. n PROVE s[i] \in Symbol
    OBVIOUS
  <2>1. CASE p < i /\ i <= p + Len(b)
    <3>1. i - p \in 1 .. Len(b)
      BY <1>2, <2>1
    <3> QED
      BY <1>3, <2>1, <3>1
  <2>2. CASE ~(p < i /\ i <= p + Len(b)) /\ i <= Len(d)
    BY <1>2, <1>3, <2>2
  <2>3. CASE ~(p < i /\ i <= p + Len(b)) /\ ~(i <= Len(d))
    BY <1>3, <2>3 DEF Symbol
  <2> QED
    BY <2>1, <2>2, <2>3
<1>5. s \in Seq(Symbol) /\ Len(s) = n
  BY <1>2, <1>3, <1>4
<1> QED
  BY <1>5 DEF n

LEMMA Fields ==
    ASSUME NEW s \in State
    PROVE  /\ s.disk \in [ObjId -> FileRec \cup {NoFile}]
           /\ s.fd \in [Handle -> FdRec] /\ s.cache \in [CachePage -> PageRec]
           /\ s.res \in {"OK", "ERROR"}
BY DEF State

LEMMA SetFd ==
    ASSUME NEW s \in State, NEW f \in [Handle -> FdRec]
    PROVE  LET t == [s EXCEPT !.fd = f]
           IN  /\ t \in State /\ t.disk = s.disk /\ t.fd = f
               /\ t.cache = s.cache /\ t.res = s.res
BY DEF State

LEMMA SetCache ==
    ASSUME NEW s \in State, NEW k \in [CachePage -> PageRec]
    PROVE  LET t == [s EXCEPT !.cache = k]
           IN  /\ t \in State /\ t.disk = s.disk /\ t.fd = s.fd
               /\ t.cache = k /\ t.res = s.res
BY DEF State

LEMMA SetDisk ==
    ASSUME NEW s \in State, NEW d \in [ObjId -> FileRec \cup {NoFile}]
    PROVE  LET t == [s EXCEPT !.disk = d]
           IN  /\ t \in State /\ t.disk = d /\ t.fd = s.fd
               /\ t.cache = s.cache /\ t.res = s.res
BY DEF State

LEMMA SetRes ==
    ASSUME NEW s \in State, NEW r \in {"OK", "ERROR"}
    PROVE  LET t == [s EXCEPT !.res = r]
           IN  /\ t \in State /\ t.disk = s.disk /\ t.fd = s.fd
               /\ t.cache = s.cache /\ t.res = r
BY DEF State

LEMMA SetSlot ==
    ASSUME NEW s \in State, NEW h \in Handle, NEW g \in FdRec
    PROVE  LET t == [s EXCEPT !.fd[h] = g]
           IN  /\ t \in State /\ t.disk = s.disk /\ t.cache = s.cache /\ t.res = s.res
               /\ t.fd[h] = g /\ \A j \in Handle \ {h} : t.fd[j] = s.fd[j]
<1>1. [s EXCEPT !.fd[h] = g] = [s EXCEPT !.fd = [s.fd EXCEPT ![h] = g]]
  OBVIOUS
<1>2. [s.fd EXCEPT ![h] = g] \in [Handle -> FdRec]
  BY Fields
<1> QED
  BY <1>1, <1>2, SetFd, Fields

LEMMA SetFile ==
    ASSUME NEW s \in State, NEW o \in ObjId, NEW x \in FileRec \cup {NoFile}
    PROVE  LET t == [s EXCEPT !.disk[o] = x]
           IN  /\ t \in State /\ t.fd = s.fd /\ t.cache = s.cache /\ t.res = s.res
               /\ t.disk[o] = x /\ \A j \in ObjId \ {o} : t.disk[j] = s.disk[j]
<1>1. [s EXCEPT !.disk[o] = x] = [s EXCEPT !.disk = [s.disk EXCEPT ![o] = x]]
  OBVIOUS
<1>2. [s.disk EXCEPT ![o] = x] \in [ObjId -> FileRec \cup {NoFile}]
  BY Fields
<1> QED
  BY <1>1, <1>2, SetDisk, Fields

BytesSet(s, t, o, d) ==
    /\ t \in State /\ t.fd = s.fd /\ t.cache = s.cache /\ t.res = s.res
    /\ t.disk[o].data = d /\ t.disk[o] # NoFile
    /\ \A j \in ObjId \ {o} : t.disk[j] = s.disk[j]

LEMMA SetBytes ==
    ASSUME NEW s \in State, NEW o \in ObjId, Exists(s, o), NEW d \in Seq(Symbol)
    PROVE  BytesSet(s, [s EXCEPT !.disk[o].data = d], o, d)
<1> DEFINE x == [s.disk[o] EXCEPT !.data = d]
<1>1. x \in FileRec /\ x.data = d
  BY Fields DEF Exists, FileRec
<1>2. [s EXCEPT !.disk[o].data = d] = [s EXCEPT !.disk[o] = x]
  OBVIOUS
<1> HIDE DEF x
<1> DEFINE t == [s EXCEPT !.disk[o] = x]
<1>3. /\ t \in State /\ t.fd = s.fd /\ t.cache = s.cache /\ t.res = s.res
      /\ t.disk[o] = x /\ \A j \in ObjId \ {o} : t.disk[j] = s.disk[j]
  BY <1>1, SetFile
<1>4. x # NoFile
  BY <1>1, Constants
<1> HIDE DEF t
<1>5. [s EXCEPT !.disk[o].data = d] = t
  BY <1>2 DEF t
<1> QED
  BY <1>1, <1>3, <1>4, <1>5 DEF BytesSet

LEMMA SetPage ==
    ASSUME NEW s \in State, NEW c \in CachePage, NEW x \in PageRec
    PROVE  LET t == [s EXCEPT !.cache[c] = x]
           IN  /\ t \in State /\ t.fd = s.fd /\ t.disk = s.disk /\ t.res = s.res
               /\ t.cache[c] = x /\ \A j \in CachePage \ {c} : t.cache[j] = s.cache[j]
<1>1. [s EXCEPT !.cache[c] = x] = [s EXCEPT !.cache = [s.cache EXCEPT ![c] = x]]
  OBVIOUS
<1>2. [s.cache EXCEPT ![c] = x] \in [CachePage -> PageRec]
  BY Fields
<1> QED
  BY <1>1, <1>2, SetCache, Fields

----------------------------------------------------------------------------
(* What the predicates depend on.                                          *)

\* The same descriptors on the same objects and cache pages.
Alike(s, t) ==
    /\ \A h \in Handle : /\ t.fd[h].open = s.fd[h].open /\ t.fd[h].obj = s.fd[h].obj
                         /\ t.fd[h].flags = s.fd[h].flags /\ t.fd[h].cp = s.fd[h].cp
    /\ \A c \in CachePage : t.cache[c].wr = s.cache[c].wr /\ t.cache[c].obj = s.cache[c].obj
    /\ \A o \in ObjId : t.disk[o] = NoFile <=> s.disk[o] = NoFile

LEMMA AlikeKeeps ==
    ASSUME NEW s, NEW t, Sound(s), t \in State, Alike(s, t)
    PROVE  Sound(t) /\ (Paged(s) => Paged(t))
<1>1. Sound(t)
  BY DEF Sound, Alike, Exists
<1>2. Buffered(s) => Buffered(t)
  BY DEF Alike, Buffered
<1>3. Clean(s) => Clean(t)
  BY DEF Alike, Clean
<1>4. Pointing(s) => Pointing(t)
  <2>1. \A h \in Handle : t.fd[h].cp # NoPage => t.fd[h].cp \in CachePage
    BY DEF State, FdRec
  <2> QED
    BY <2>1 DEF Alike, Pointing
<1>5. Owned(s) => Owned(t)
  BY DEF Alike, Owned
<1>6. OnePage(s) => OnePage(t)
  BY DEF Alike, OnePage
<1> QED
  BY <1>1, <1>2, <1>3, <1>4, <1>5, <1>6 DEF Paged

\* A descriptor that gives up its cache page.
LEMMA CpChange ==
    ASSUME NEW f \in FdRec, NEW p \in CachePage \cup {NoPage}
    PROVE  LET g == [f EXCEPT !.cp = p]
           IN  /\ g \in FdRec /\ g.open = f.open /\ g.obj = f.obj /\ g.flags = f.flags
               /\ g.size = f.size /\ g.fdoffset = f.fdoffset /\ g.cp = p
               /\ g.scored = f.scored /\ g.current = f.current
BY DEF FdRec

\* What Release does: the open descriptors on a page of C let go of it, and
\* none of these pages is a write page.
Freed(s, r, C) ==
    /\ r \in State /\ r.disk = s.disk /\ r.res = s.res
    /\ \A h \in Handle :
          /\ r.fd[h].open = s.fd[h].open /\ r.fd[h].obj = s.fd[h].obj
          /\ r.fd[h].flags = s.fd[h].flags /\ r.fd[h].size = s.fd[h].size
          /\ r.fd[h].fdoffset = s.fd[h].fdoffset
          /\ r.fd[h].scored = s.fd[h].scored
          /\ r.fd[h].current = s.fd[h].current
          /\ s.fd[h].open /\ s.fd[h].cp \in C => r.fd[h].cp = NoPage
          /\ ~(s.fd[h].open /\ s.fd[h].cp \in C) => r.fd[h].cp = s.fd[h].cp
    /\ \A c \in CachePage : /\ c \in C => ~r.cache[c].wr
                            /\ c \notin C => r.cache[c] = s.cache[c]

LEMMA Releasing ==
    ASSUME NEW s \in State, NEW C
    PROVE  Freed(s, Release(s, C), C)
<1> DEFINE f == [h \in Handle |->
                    IF s.fd[h].open /\ s.fd[h].cp \in C THEN [s.fd[h] EXCEPT !.cp = NoPage]
                    ELSE s.fd[h]]
           k == [c \in CachePage |->
                    IF c \notin C THEN s.cache[c]
                    ELSE IF \E h \in Handle : ~s.fd[h].open /\ s.fd[h].cp = c
                    THEN [s.cache[c] EXCEPT !.wr = FALSE, !.obj = NoObj]
                    ELSE NoCache]
           r == Release(s, C)
<1>1. f \in [Handle -> FdRec]
  BY Fields, CpChange
<1>2. \A p \in PageRec : LET q == [p EXCEPT !.wr = FALSE, !.obj = NoObj]
                         IN  q \in PageRec /\ q.wr = FALSE
  BY DEF PageRec
<1>3. NoCache \in PageRec /\ NoCache.wr = FALSE
  <2>1. <<>> \in Seq(Symbol)
    OBVIOUS
  <2> QED
    BY <2>1 DEF NoCache, PageRec
<1>4. k \in [CachePage -> PageRec]
  BY <1>2, <1>3, Fields
<1>5. r = [s EXCEPT !.fd = f, !.cache = k]
  BY DEF Release
<1> HIDE DEF f, k, r
<1>6. LET t == [s EXCEPT !.fd = f, !.cache = k]
      IN  /\ t \in State /\ t.disk = s.disk /\ t.fd = f
          /\ t.cache = k /\ t.res = s.res
  BY <1>1, <1>4 DEF State
<1>7. r \in State /\ r.fd = f /\ r.cache = k /\ r.disk = s.disk /\ r.res = s.res
  BY <1>5, <1>6
<1>8. \A c \in CachePage : /\ c \in C => ~k[c].wr
                           /\ c \notin C => k[c] = s.cache[c]
  BY <1>2, <1>3, Fields DEF k
<1>9. \A h \in Handle :
         LET g == f[h]
         IN  /\ g.open = s.fd[h].open /\ g.obj = s.fd[h].obj
             /\ g.flags = s.fd[h].flags /\ g.size = s.fd[h].size
             /\ g.fdoffset = s.fd[h].fdoffset
             /\ g.scored = s.fd[h].scored /\ g.current = s.fd[h].current
             /\ s.fd[h].open /\ s.fd[h].cp \in C => g.cp = NoPage
             /\ ~(s.fd[h].open /\ s.fd[h].cp \in C) => g.cp = s.fd[h].cp
  BY CpChange, Fields DEF f
<1> QED
  BY <1>7, <1>8, <1>9 DEF r, Freed

LEMMA ReleaseKeeps ==
    ASSUME NEW s, Sound(s), NEW C
    PROVE  Sound(Release(s, C)) /\ (Paged(s) => Paged(Release(s, C)))
<1> DEFINE r == Release(s, C)
<1>1. /\ r \in State /\ r.disk = s.disk
      /\ \A h \in Handle :
            /\ r.fd[h].open = s.fd[h].open /\ r.fd[h].obj = s.fd[h].obj
            /\ r.fd[h].flags = s.fd[h].flags
            /\ s.fd[h].open /\ s.fd[h].cp \in C => r.fd[h].cp = NoPage
            /\ ~(s.fd[h].open /\ s.fd[h].cp \in C) => r.fd[h].cp = s.fd[h].cp
      /\ \A c \in CachePage : /\ c \in C => ~r.cache[c].wr
                              /\ c \notin C => r.cache[c] = s.cache[c]
  BY Releasing DEF Sound, Freed
<1> HIDE DEF r
<1>2. Sound(r)
  BY <1>1 DEF Sound, Exists
<1>3. Paged(s) => Paged(r)
  <2> SUFFICES ASSUME Paged(s) PROVE Paged(r)
    OBVIOUS
  <2>1. Buffered(r) /\ Clean(r)
    BY <1>1 DEF Paged, Buffered, Clean
  <2>2. Pointing(r)
    <3> SUFFICES ASSUME NEW h \in Handle, r.fd[h].cp # NoPage
                 PROVE  r.cache[r.fd[h].cp].wr /\ r.cache[r.fd[h].cp].obj = r.fd[h].obj
      BY DEF Pointing
    <3>1. r.fd[h].cp = s.fd[h].cp /\ s.fd[h].cp \notin C
      BY <1>1 DEF Paged, Clean
    <3>2. s.fd[h].cp \in CachePage
      BY <3>1 DEF Sound, State, FdRec
    <3> QED
      BY <1>1, <3>1, <3>2 DEF Paged, Pointing
  <2>3. Owned(r)
    <3> SUFFICES ASSUME NEW c \in CachePage, r.cache[c].wr
                 PROVE  \E h \in Handle : r.fd[h].open /\ r.fd[h].cp = c
      BY DEF Owned
    <3>1. c \notin C /\ s.cache[c].wr
      BY <1>1
    <3>2. PICK h \in Handle : s.fd[h].open /\ s.fd[h].cp = c
      BY <3>1 DEF Paged, Owned
    <3> QED
      BY <1>1, <3>1, <3>2
  <2>4. OnePage(r)
    BY <1>1 DEF Paged, OnePage
  <2> QED
    BY <2>1, <2>2, <2>3, <2>4 DEF Paged
<1> QED
  BY <1>2, <1>3 DEF r

----------------------------------------------------------------------------
(* What a call leaves as it was.                                           *)

\* The same descriptors are open on the same objects, with the cache pages
\* they had or none; no page starts to hold writes; no file comes or goes.
Milder(s, t) ==
    /\ t \in State
    /\ \A h \in Handle :
          /\ t.fd[h].open = s.fd[h].open /\ t.fd[h].obj = s.fd[h].obj
          /\ t.fd[h].flags = s.fd[h].flags /\ t.fd[h].scored = s.fd[h].scored
          /\ t.fd[h].cp \in {s.fd[h].cp, NoPage}
    /\ \A c \in CachePage : t.cache[c].wr => t.cache[c] = s.cache[c]
    /\ \A o \in ObjId : t.disk[o] = NoFile <=> s.disk[o] = NoFile

\* The three predicates stay true.
Preserves(s, t) ==
    Sound(t) /\ (Paged(s) => Paged(t)) /\ (Informed(s) => Informed(t))

LEMMA MilderSelf ==
    ASSUME NEW s \in State
    PROVE  Milder(s, s)
BY DEF Milder

LEMMA MilderChain ==
    ASSUME NEW s, NEW t, NEW u, Milder(s, t), Milder(t, u)
    PROVE  Milder(s, u)
BY DEF Milder

LEMMA PreservesChain ==
    ASSUME NEW s, NEW t, NEW u, Preserves(s, t), Preserves(t, u)
    PROVE  Preserves(s, u)
BY DEF Preserves

\* A change to a descriptor's own idea of its position.
LEMMA NewFields ==
    ASSUME NEW f \in FdRec, NEW n \in Nat
    PROVE  LET g == [f EXCEPT !.fdoffset = n]
           IN  /\ g \in FdRec /\ g.open = f.open /\ g.obj = f.obj /\ g.flags = f.flags
               /\ g.size = f.size /\ g.fdoffset = n /\ g.cp = f.cp
               /\ g.scored = f.scored /\ g.current = f.current
BY DEF FdRec

LEMMA Sizes ==
    ASSUME NEW d \in Seq(Symbol)
    PROVE  /\ SizeOf(d) \in Nat /\ SizeOf(d) # 0
           /\ d # <<>> => SizeOf(d) = Len(d)
<1>1. d # <<>> => Len(d) # 0
  OBVIOUS
<1> QED
  BY <1>1, Constants DEF SizeOf

\* A new position for a descriptor.
LEMMA Moving ==
    ASSUME NEW s, Sound(s), NEW h \in Handle, NEW n \in Nat
    PROVE  LET t == [s EXCEPT !.fd[h].fdoffset = n]
           IN  Milder(s, t) /\ Preserves(s, t) /\ t.res = s.res
<1> DEFINE g == [s.fd[h] EXCEPT !.fdoffset = n]
           t == [s EXCEPT !.fd[h] = g]
<1>1. s \in State
  BY DEF Sound
<1>2. /\ g \in FdRec /\ g.open = s.fd[h].open /\ g.obj = s.fd[h].obj
      /\ g.flags = s.fd[h].flags /\ g.size = s.fd[h].size /\ g.cp = s.fd[h].cp
      /\ g.scored = s.fd[h].scored /\ g.current = s.fd[h].current
  BY <1>1, NewFields, Fields
<1>3. [s EXCEPT !.fd[h].fdoffset = n] = t
  OBVIOUS
<1> HIDE DEF g
<1>4. /\ t \in State /\ t.disk = s.disk /\ t.cache = s.cache /\ t.res = s.res
      /\ t.fd[h] = g /\ \A j \in Handle \ {h} : t.fd[j] = s.fd[j]
  BY <1>1, <1>2, SetSlot
<1> HIDE DEF t
<1>5. Milder(s, t)
  BY <1>1, <1>2, <1>4 DEF Milder
<1>6. Alike(s, t)
  BY <1>2, <1>4 DEF Alike
<1>7. Informed(s) => Informed(t)
  BY <1>2, <1>4 DEF Informed, Knows, Coherent
<1> QED
  BY <1>3, <1>4, <1>5, <1>6, <1>7, AlikeKeeps DEF Preserves

\* The outcome of a call.
LEMMA Answering ==
    ASSUME NEW s, Sound(s), NEW r \in {"OK", "ERROR"}
    PROVE  LET t == [s EXCEPT !.res = r]
           IN  /\ Milder(s, t) /\ Preserves(s, t) /\ t.res = r
               /\ t.fd = s.fd /\ t.disk = s.disk /\ t.cache = s.cache
<1> DEFINE t == [s EXCEPT !.res = r]
<1>1. s \in State
  BY DEF Sound
<1>2. t \in State /\ t.disk = s.disk /\ t.fd = s.fd /\ t.cache = s.cache /\ t.res = r
  BY <1>1, SetRes
<1> HIDE DEF t
<1>3. Milder(s, t)
  BY <1>2 DEF Milder
<1>4. Alike(s, t)
  BY <1>2 DEF Alike
<1>5. Informed(s) => Informed(t)
  BY <1>2 DEF Informed, Knows, Coherent
<1>6. Preserves(s, t)
  BY <1>2, <1>4, <1>5, AlikeKeeps DEF Preserves
<1> QED
  BY <1>2, <1>3, <1>6 DEF t

LEMMA ReleaseIsMild ==
    ASSUME NEW s, Sound(s), NEW C
    PROVE  LET t == Release(s, C)
           IN  Milder(s, t) /\ Preserves(s, t) /\ t.res = s.res
<1> DEFINE r == Release(s, C)
<1>1. /\ r \in State /\ r.disk = s.disk /\ r.res = s.res
      /\ \A h \in Handle :
            /\ r.fd[h].open = s.fd[h].open /\ r.fd[h].obj = s.fd[h].obj
            /\ r.fd[h].flags = s.fd[h].flags /\ r.fd[h].size = s.fd[h].size
            /\ r.fd[h].scored = s.fd[h].scored /\ r.fd[h].current = s.fd[h].current
            /\ s.fd[h].open /\ s.fd[h].cp \in C => r.fd[h].cp = NoPage
            /\ ~(s.fd[h].open /\ s.fd[h].cp \in C) => r.fd[h].cp = s.fd[h].cp
      /\ \A c \in CachePage : /\ c \in C => ~r.cache[c].wr
                              /\ c \notin C => r.cache[c] = s.cache[c]
  BY Releasing DEF Sound, Freed
<1>2. Sound(r) /\ (Paged(s) => Paged(r))
  BY ReleaseKeeps
<1> HIDE DEF r
<1>3. Milder(s, r)
  BY <1>1 DEF Milder
<1>4. Informed(s) => Informed(r)
  BY <1>1 DEF Informed, Knows, Coherent
<1> QED
  BY <1>1, <1>2, <1>3, <1>4 DEF r, Preserves

----------------------------------------------------------------------------
(* Object events.                                                          *)

\* f with another size, all else but position and place of the header kept.
Resized(f, g, size) ==
    /\ g \in FdRec /\ g.open = f.open /\ g.obj = f.obj /\ g.flags = f.flags
    /\ g.size = size /\ g.cp = f.cp /\ g.scored = f.scored

LEMMA SlotAfterEvent ==
    ASSUME NEW f \in FdRec, NEW size \in Nat, NEW m \in Nat, NEW keep \in BOOLEAN
    PROVE  /\ LET g == [f EXCEPT !.current = TRUE]
              IN  Resized(f, g, f.size) /\ g.current = TRUE
           /\ LET g == [f EXCEPT !.current = TRUE, !.size = size, !.fdoffset = MinOf(@, m)]
              IN  Resized(f, g, size) /\ g.current = TRUE
           /\ Resized(f, [f EXCEPT !.current = @ /\ keep], f.size)
<1>1. LET g == [f EXCEPT !.current = TRUE]
      IN  Resized(f, g, f.size) /\ g.current = TRUE
  BY DEF FdRec, Resized
<1>2. f.fdoffset \in Nat
  BY DEF FdRec
<1>3. MinOf(f.fdoffset, m) \in Nat
  BY <1>2, Minimum
<1>4. \A n \in Nat :
        LET g == [f EXCEPT !.current = TRUE, !.size = size, !.fdoffset = n]
        IN  Resized(f, g, size) /\ g.current = TRUE
  BY DEF FdRec, Resized
<1>5. \A b \in BOOLEAN : Resized(f, [f EXCEPT !.current = b], f.size)
  BY DEF FdRec, Resized
<1>6. (f.current /\ keep) \in BOOLEAN
  OBVIOUS
<1> QED
  BY <1>1, <1>3, <1>4, <1>5, <1>6

\* The header of o was written, or moved.
Evented(s, t, o, size) ==
    /\ Milder(s, t) /\ Sound(t) /\ (Paged(s) => Paged(t))
    /\ t.disk = s.disk /\ t.res = s.res
    /\ \A h \in Handle :
          /\ s.fd[h].obj # o =>
                t.fd[h].size = s.fd[h].size /\ t.fd[h].current = s.fd[h].current
          /\ s.fd[h].obj = o /\ s.fd[h].scored =>
                /\ t.fd[h].current = TRUE
                /\ t.fd[h].size = IF size = 0 THEN s.fd[h].size ELSE size

LEMMA Events ==
    ASSUME NEW s, Sound(s), NEW o \in ObjId, NEW size \in Nat,
           NEW moved \in BOOLEAN, NEW actor
    PROVE  Evented(s, HeaderEvent(s, o, size, moved, actor), o, size)
<1> DEFINE act(f)  == IF size = Undefined THEN 0
                      ELSE IF f.cp = NoPage THEN size
                      ELSE MaxOf(size, End(s.cache[f.cp]))
           new(f)  == IF size = 0 THEN [f EXCEPT !.current = TRUE]
                      ELSE [f EXCEPT !.current = TRUE, !.size = size,
                                     !.fdoffset = MinOf(@, act(f))]
           keep(h) == ~moved \/ h = actor
           slot(h) == LET f == s.fd[h]
                      IN  IF f.obj # o THEN f
                          ELSE IF f.scored THEN new(f)
                          ELSE [f EXCEPT !.current = @ /\ keep(h)]
           stale   == {f \in {s.fd[h] : h \in Handle} :
                         /\ f.obj = o /\ f.scored /\ f.cp # NoPage
                         /\ size = Undefined
                         /\ s.cache[f.cp].offset > 1}
           slots   == [h \in Handle |-> slot(h)]
           u       == [s EXCEPT !.fd = slots]
           C       == {f.cp : f \in stale}
           t       == HeaderEvent(s, o, size, moved, actor)
<1>1. s \in State
  BY DEF Sound
<1>2. \A f \in FdRec : act(f) \in Nat
  <2> SUFFICES ASSUME NEW f \in FdRec PROVE act(f) \in Nat
    OBVIOUS
  <2>1. CASE size # Undefined /\ f.cp # NoPage
    <3>1. f.cp \in CachePage
      BY <2>1 DEF FdRec
    <3>2. s.cache[f.cp] \in PageRec
      BY <1>1, <3>1, Fields
    <3>3. End(s.cache[f.cp]) \in Nat
      BY <3>2 DEF PageRec, End
    <3> QED
      BY <2>1, <3>3, Minimum
  <2> QED
    BY <2>1
<1> HIDE DEF act
<1>3. \A h \in Handle :
         /\ s.fd[h] \in FdRec /\ keep(h) \in BOOLEAN
         /\ LET f == s.fd[h]
                g == slot(h)
            IN  /\ g \in FdRec /\ g.open = f.open /\ g.obj = f.obj /\ g.flags = f.flags
                /\ g.cp = f.cp /\ g.scored = f.scored
                /\ f.obj # o => g.size = f.size /\ g.current = f.current
                /\ f.obj = o /\ f.scored =>
                      g.current = TRUE /\ g.size = IF size = 0 THEN f.size ELSE size
  <2> SUFFICES ASSUME NEW h \in Handle
      PROVE
         /\ s.fd[h] \in FdRec /\ keep(h) \in BOOLEAN
         /\ LET f == s.fd[h]
                g == slot(h)
            IN  /\ g \in FdRec /\ g.open = f.open /\ g.obj = f.obj /\ g.flags = f.flags
                /\ g.cp = f.cp /\ g.scored = f.scored
                /\ f.obj # o => g.size = f.size /\ g.current = f.current
                /\ f.obj = o /\ f.scored =>
                      g.current = TRUE /\ g.size = IF size = 0 THEN f.size ELSE size
    OBVIOUS
  <2> DEFINE f == s.fd[h]
  <2>1. f \in FdRec /\ keep(h) \in BOOLEAN
    BY <1>1, Fields
  <2>2. act(f) \in Nat
    BY <1>2, <2>1
  <2> HIDE DEF keep, f
  <2> DEFINE m == act(f)
             k == keep(h)
  <2>3. m \in Nat /\ k \in BOOLEAN
    BY <2>1, <2>2
  <2> HIDE DEF m, k
  <2>4. /\ LET g == [f EXCEPT !.current = TRUE]
           IN  Resized(f, g, f.size) /\ g.current = TRUE
        /\ LET g == [f EXCEPT !.current = TRUE, !.size = size, !.fdoffset = MinOf(@, m)]
           IN  Resized(f, g, size) /\ g.current = TRUE
        /\ Resized(f, [f EXCEPT !.current = @ /\ k], f.size)
    BY <2>1, <2>3, SlotAfterEvent
  <2>5. slot(h) = IF f.obj # o THEN f
                  ELSE IF f.scored
                  THEN IF size = 0 THEN [f EXCEPT !.current = TRUE]
                       ELSE [f EXCEPT !.current = TRUE, !.size = size,
                                      !.fdoffset = MinOf(@, m)]
                  ELSE [f EXCEPT !.current = @ /\ k]
    BY DEF f, m, k
  <2> HIDE DEF slot
  <2>6. LET g == slot(h)
        IN  /\ g \in FdRec /\ g.open = f.open /\ g.obj = f.obj /\ g.flags = f.flags
            /\ g.cp = f.cp /\ g.scored = f.scored
            /\ f.obj # o => g.size = f.size /\ g.current = f.current
            /\ f.obj = o /\ f.scored =>
                  g.current = TRUE /\ g.size = IF size = 0 THEN f.size ELSE size
    <3>1. CASE f.obj # o
      BY <2>1, <2>5, <3>1
    <3>2. CASE f.obj = o /\ f.scored /\ size = 0
      BY <2>4, <2>5, <3>2 DEF Resized
    <3>3. CASE f.obj = o /\ f.scored /\ size # 0
      BY <2>4, <2>5, <3>3 DEF Resized
    <3>4. CASE f.obj = o /\ ~f.scored
      BY <2>4, <2>5, <3>4 DEF Resized
    <3> QED
      BY <3>1, <3>2, <3>3, <3>4
  <2> QED
    BY <2>1, <2>6 DEF f
<1>4. t = Release(u, C)
  BY DEF HeaderEvent, act
<1> HIDE DEF slot, keep, stale
<1>5. slots \in [Handle -> FdRec]
  BY <1>3
<1> HIDE DEF slots
<1>6. /\ u \in State /\ u.disk = s.disk /\ u.fd = slots
      /\ u.cache = s.cache /\ u.res = s.res
  BY <1>1, <1>5, SetFd
<1>7. \A h \in Handle : u.fd[h] = slot(h)
  BY <1>6 DEF slots
<1> HIDE DEF u, C, t
<1>8. Alike(s, u)
  BY <1>3, <1>6, <1>7 DEF Alike
<1>9. Sound(u) /\ (Paged(s) => Paged(u))
  BY <1>6, <1>8, AlikeKeeps
<1>10. Milder(s, u)
  BY <1>3, <1>6, <1>7 DEF Milder
<1>11. /\ Milder(u, t) /\ Preserves(u, t) /\ t.res = u.res
  BY <1>4, <1>9, ReleaseIsMild
<1>12. /\ t.disk = u.disk
       /\ \A h \in Handle : t.fd[h].size = u.fd[h].size /\ t.fd[h].current = u.fd[h].current
  BY <1>4, <1>6, Releasing DEF Freed
<1>13. Milder(s, t) /\ Sound(t) /\ (Paged(s) => Paged(t))
  BY <1>9, <1>10, <1>11, MilderChain DEF Preserves
<1>14. t.disk = s.disk /\ t.res = s.res
  BY <1>6, <1>11, <1>12
<1>15. \A h \in Handle :
          /\ s.fd[h].obj # o =>
                t.fd[h].size = s.fd[h].size /\ t.fd[h].current = s.fd[h].current
          /\ s.fd[h].obj = o /\ s.fd[h].scored =>
                /\ t.fd[h].current = TRUE
                /\ t.fd[h].size = IF size = 0 THEN s.fd[h].size ELSE size
  BY <1>3, <1>7, <1>12
<1> QED
  BY <1>13, <1>14, <1>15 DEF t, Evented

\* A scored descriptor that knew its object, if it is another one, knows it
\* after an event that tells the size.
LEMMA EventInforms ==
    ASSUME NEW s, Sound(s), NEW o \in ObjId, Exists(s, o), NEW size \in Nat, size # 0,
           size = SizeOf(s.disk[o].data), NEW moved \in BOOLEAN, NEW actor,
           NEW h \in Handle, s.fd[h].open, s.fd[h].scored,
           s.fd[h].obj # o => Coherent(s, h)
    PROVE  Knows(HeaderEvent(s, o, size, moved, actor), h)
<1> DEFINE t == HeaderEvent(s, o, size, moved, actor)
<1>1. Evented(s, t, o, size)
  BY Events
<1> HIDE DEF t
<1>2. /\ Milder(s, t) /\ t.disk = s.disk
      /\ s.fd[h].obj # o =>
            t.fd[h].size = s.fd[h].size /\ t.fd[h].current = s.fd[h].current
      /\ s.fd[h].obj = o /\ s.fd[h].scored =>
            /\ t.fd[h].current = TRUE
            /\ t.fd[h].size = IF size = 0 THEN s.fd[h].size ELSE size
  BY <1>1 DEF Evented
<1>3. t.fd[h].obj = s.fd[h].obj /\ t.fd[h].scored = s.fd[h].scored
  BY <1>2 DEF Milder
<1>4. Coherent(t, h)
  <2>1. CASE s.fd[h].obj = o
    BY <1>2, <1>3, <2>1 DEF Coherent
  <2>2. CASE s.fd[h].obj # o
    BY <1>2, <1>3, <2>2 DEF Coherent
  <2> QED
    BY <2>1, <2>2
<1> QED
  BY <1>3, <1>4 DEF Knows, t

\* The event that garbage collection sends carries no size.
LEMMA MoveKeeps ==
    ASSUME NEW s, Sound(s), NEW o \in ObjId
    PROVE  Preserves(s, HeaderEvent(s, o, 0, TRUE, 0))
<1> DEFINE t == HeaderEvent(s, o, 0, TRUE, 0)
<1>1. Evented(s, t, o, 0)
  BY Events
<1> HIDE DEF t
<1>2. /\ Milder(s, t) /\ Sound(t) /\ (Paged(s) => Paged(t)) /\ t.disk = s.disk
      /\ \A h \in Handle :
            /\ s.fd[h].obj # o =>
                  t.fd[h].size = s.fd[h].size /\ t.fd[h].current = s.fd[h].current
            /\ s.fd[h].obj = o /\ s.fd[h].scored =>
                  t.fd[h].current = TRUE /\ t.fd[h].size = s.fd[h].size
  BY <1>1 DEF Evented
<1>3. Informed(s) => Informed(t)
  <2> SUFFICES ASSUME Informed(s), NEW h \in Handle, t.fd[h].open PROVE Knows(t, h)
    BY DEF Informed
  <2>1. /\ t.fd[h].obj = s.fd[h].obj /\ t.fd[h].scored = s.fd[h].scored
        /\ s.fd[h].open
    BY <1>2 DEF Milder
  <2>2. s.fd[h].scored /\ Coherent(s, h)
    BY <2>1 DEF Informed, Knows
  <2> QED
    BY <1>2, <2>1, <2>2 DEF Knows, Coherent
<1> QED
  BY <1>2, <1>3 DEF Preserves, t

----------------------------------------------------------------------------
(* Slots that are taken and given back.                                    *)

InformedBut(s, x) ==
    \A h \in Handle \ {x} : s.fd[h].open => Knows(s, h)

\* Slot h is open on o, and nothing else changed.
Opened(s, t, h, o) ==
    /\ Sound(t) /\ t.disk = s.disk /\ t.cache = s.cache /\ t.res = s.res
    /\ \A j \in Handle \ {h} : t.fd[j] = s.fd[j]
    /\ t.fd[h].open /\ t.fd[h].obj = o /\ t.fd[h].cp = s.fd[h].cp
    /\ t.fd[h].scored = s.fd[h].scored /\ Coherent(t, h)

LEMMA Opening ==
    ASSUME NEW s, Sound(s), NEW h \in Handle, ~s.fd[h].open, NEW o, Exists(s, o), NEW flags
    PROVE  /\ Opened(s, OpenByPage(s, h, o, flags), h, o)
           /\ Paged(s) /\ "DIRECT" \notin flags => Paged(OpenByPage(s, h, o, flags))
<1> DEFINE fl == flags \cap {"RD", "WR", "APPEND", "DIRECT"}
           z  == SizeOf(s.disk[o].data)
           g  == [s.fd[h] EXCEPT !.open = TRUE, !.obj = o, !.size = z,
                     !.fdoffset = 0, !.current = TRUE, !.flags = fl]
           t  == [s EXCEPT !.fd[h] = g]
<1>1. s \in State /\ o \in ObjId
  BY DEF Sound, Exists
<1>2. s.fd[h] \in FdRec /\ s.disk[o] \in FileRec
  BY <1>1, Fields DEF Exists
<1>3. z \in Nat
  BY <1>2, Sizes DEF FileRec
<1>4. OpenByPage(s, h, o, flags) = t
  BY DEF OpenByPage
<1>5. fl \in SUBSET {"RD", "WR", "APPEND", "DIRECT"}
  OBVIOUS
<1>6. "DIRECT" \notin flags => "DIRECT" \notin fl
  OBVIOUS
<1> HIDE DEF z, fl
<1>7. /\ g \in FdRec /\ g.open = TRUE /\ g.obj = o /\ g.size = z /\ g.current = TRUE
      /\ g.flags = fl /\ g.cp = s.fd[h].cp /\ g.scored = s.fd[h].scored
  BY <1>1, <1>2, <1>3, <1>5 DEF FdRec
<1> HIDE DEF g
<1>8. /\ t \in State /\ t.disk = s.disk /\ t.cache = s.cache /\ t.res = s.res
      /\ t.fd[h] = g /\ \A j \in Handle \ {h} : t.fd[j] = s.fd[j]
  BY <1>1, <1>7, SetSlot
<1> HIDE DEF t
<1>9. Coherent(t, h)
  BY <1>7, <1>8 DEF Coherent, z
<1>10. Sound(t)
  <2> SUFFICES ASSUME NEW j \in Handle, t.fd[j].open PROVE Exists(t, t.fd[j].obj)
    BY <1>8 DEF Sound
  <2>1. CASE j = h
    BY <1>7, <1>8, <2>1 DEF Exists
  <2>2. CASE j # h
    BY <1>8, <2>2 DEF Exists, Sound
  <2> QED
    BY <2>1, <2>2
<1>11. Opened(s, t, h, o)
  BY <1>7, <1>8, <1>9, <1>10 DEF Opened
<1>12. ASSUME Paged(s), "DIRECT" \notin flags
       PROVE  Paged(t)
  <2>1. s.fd[h].cp = NoPage
    BY <1>12 DEF Paged, Clean
  <2>2. Buffered(t)
    BY <1>6, <1>7, <1>8, <1>12 DEF Paged, Buffered
  <2>3. Clean(t)
    BY <1>7, <1>8, <1>12 DEF Paged, Clean
  <2>4. Pointing(t)
    BY <1>7, <1>8, <1>12, <2>1 DEF Paged, Pointing
  <2>5. Owned(t)
    BY <1>7, <1>8, <1>12, <2>1 DEF Paged, Owned
  <2>6. OnePage(t)
    BY <1>8, <1>12 DEF Paged, OnePage
  <2> QED
    BY <2>2, <2>3, <2>4, <2>5, <2>6 DEF Paged
<1> QED
  BY <1>4, <1>11, <1>12

LEMMA Shutting ==
    ASSUME NEW f \in FdRec
    PROVE  /\ Shut(f) \in FdRec /\ Shut(f).open = FALSE /\ Shut(f).cp = f.cp
           /\ f.cp = NoPage => Shut(f).obj = NoObj
           /\ [Shut(f) EXCEPT !.obj = NoObj] \in FdRec
           /\ [Shut(f) EXCEPT !.obj = NoObj].open = FALSE
           /\ [Shut(f) EXCEPT !.obj = NoObj].obj = NoObj
           /\ [Shut(f) EXCEPT !.obj = NoObj].cp = f.cp
<1> DEFINE x == IF f.cp = NoPage THEN NoObj ELSE f.obj
<1>1. Shut(f) = [f EXCEPT !.open = FALSE, !.size = 0, !.fdoffset = 0, !.flags = {},
                          !.current = FALSE, !.obj = x]
  BY DEF Shut
<1>2. x \in ObjId \cup {NoObj}
  BY DEF FdRec
<1> HIDE DEF x
<1> DEFINE e == [f EXCEPT !.open = FALSE, !.size = 0, !.fdoffset = 0, !.flags = {},
                         !.current = FALSE, !.obj = x]
<1>3. e.open = FALSE /\ e.cp = f.cp /\ e.obj = x
  BY DEF FdRec
<1>4. e \in FdRec
  BY <1>2 DEF FdRec
<1> HIDE DEF e
<1>5. /\ Shut(f) \in FdRec /\ Shut(f).open = FALSE /\ Shut(f).cp = f.cp
      /\ Shut(f).obj = x
  BY <1>1, <1>3, <1>4 DEF e
<1> QED
  BY <1>5 DEF FdRec, x

LEMMA GivingBack ==
    ASSUME NEW s, Sound(s), NEW h \in Handle
    PROVE  LET t == [s EXCEPT !.fd[h] = Shut(@)]
           IN  /\ Sound(t) /\ (InformedBut(s, h) => Informed(t))
               /\ (Paged(s) /\ s.fd[h].cp = NoPage => Paged(t))
<1> DEFINE g == Shut(s.fd[h])
           t == [s EXCEPT !.fd[h] = g]
<1>1. s \in State
  BY DEF Sound
<1>2. s.fd[h] \in FdRec
  BY <1>1, Fields
<1>3. /\ g \in FdRec /\ g.open = FALSE /\ g.cp = s.fd[h].cp
      /\ s.fd[h].cp = NoPage => g.obj = NoObj
  BY <1>2, Shutting
<1>4. [s EXCEPT !.fd[h] = Shut(@)] = t
  OBVIOUS
<1> HIDE DEF g
<1>5. /\ t \in State /\ t.disk = s.disk /\ t.cache = s.cache /\ t.res = s.res
      /\ t.fd[h] = g /\ \A j \in Handle \ {h} : t.fd[j] = s.fd[j]
  BY <1>1, <1>3, SetSlot
<1> HIDE DEF t
<1>6. Sound(t)
  BY <1>3, <1>5 DEF Sound, Exists
<1>7. InformedBut(s, h) => Informed(t)
  BY <1>3, <1>5 DEF Informed, InformedBut, Knows, Coherent
<1>8. ASSUME Paged(s), s.fd[h].cp = NoPage
      PROVE  Paged(t)
  <2>1. Buffered(t) /\ Clean(t)
    BY <1>3, <1>5, <1>8 DEF Paged, Buffered, Clean
  <2>2. Pointing(t)
    BY <1>3, <1>5, <1>8 DEF Paged, Pointing
  <2>3. Owned(t)
    <3> SUFFICES ASSUME NEW c \in CachePage, t.cache[c].wr
                 PROVE  \E j \in Handle : t.fd[j].open /\ t.fd[j].cp = c
      BY DEF Owned
    <3>1. PICK j \in Handle : s.fd[j].open /\ s.fd[j].cp = c
      BY <1>5, <1>8 DEF Paged, Owned
    <3>2. j # h
      BY <1>8, <3>1, Constants
    <3> QED
      BY <1>5, <3>1, <3>2
  <2>4. OnePage(t)
    BY <1>5, <1>8 DEF Paged, OnePage
  <2> QED
    BY <2>1, <2>2, <2>3, <2>4 DEF Paged
<1> QED
  BY <1>4, <1>6, <1>7, <1>8

LEMMA Deleting ==
    ASSUME NEW s, Sound(s), NEW o, Exists(s, o)
    PROVE  LET t == DeleteEvent(s, o)
           IN  /\ Sound(t) /\ (Paged(s) => Paged(t))
               /\ (\A h \in Handle : s.fd[h].open /\ s.fd[h].obj # o => Knows(s, h))
                      => Informed(t)
<1> DEFINE mine == {h \in Handle : s.fd[h].obj = o}
           C    == {s.fd[h].cp : h \in {g \in mine : s.fd[g].open}}
           r    == Release(s, C)
           f    == [h \in Handle |->
                      IF h \in mine THEN [Shut(r.fd[h]) EXCEPT !.obj = NoObj]
                      ELSE r.fd[h]]
           u    == [r EXCEPT !.disk[o] = NoFile]
           t    == [u EXCEPT !.fd = f]
<1>1. s \in State /\ o \in ObjId
  BY DEF Sound, Exists
<1>2. DeleteEvent(s, o) = t
  <2>1. DeleteEvent(s, o) = [r EXCEPT !.disk[o] = NoFile, !.fd = f]
    BY DEF DeleteEvent
  <2> QED
    BY <2>1
<1>3. /\ r \in State /\ r.disk = s.disk
      /\ \A h \in Handle :
            /\ r.fd[h].open = s.fd[h].open /\ r.fd[h].obj = s.fd[h].obj
            /\ r.fd[h].flags = s.fd[h].flags /\ r.fd[h].size = s.fd[h].size
            /\ r.fd[h].scored = s.fd[h].scored /\ r.fd[h].current = s.fd[h].current
            /\ s.fd[h].open /\ s.fd[h].cp \in C => r.fd[h].cp = NoPage
            /\ ~(s.fd[h].open /\ s.fd[h].cp \in C) => r.fd[h].cp = s.fd[h].cp
      /\ \A c \in CachePage : /\ c \in C => ~r.cache[c].wr
                              /\ c \notin C => r.cache[c] = s.cache[c]
  <2>1. Freed(s, r, C)
    BY <1>1, Releasing
  <2> QED
    BY <2>1 DEF Freed
<1>4. Sound(r) /\ (Paged(s) => Paged(r))
  BY ReleaseKeeps
<1>5. \A h \in mine : s.fd[h].open => s.fd[h].cp \in C
  OBVIOUS
<1> HIDE DEF r, C
<1>6. \A h \in Handle :
         /\ f[h] \in FdRec
         /\ h \in mine => f[h].open = FALSE /\ f[h].obj = NoObj /\ f[h].cp = r.fd[h].cp
         /\ h \notin mine => f[h] = r.fd[h]
  <2>1. \A h \in Handle : r.fd[h] \in FdRec
    BY <1>3, Fields
  <2> QED
    BY <2>1, Shutting
<1>7. f \in [Handle -> FdRec]
  BY <1>6
<1>8. /\ u \in State /\ u.fd = r.fd /\ u.cache = r.cache
      /\ u.disk[o] = NoFile /\ \A j \in ObjId \ {o} : u.disk[j] = r.disk[j]
  BY <1>1, <1>3, SetFile
<1> HIDE DEF f, u
<1>9. /\ t \in State /\ t.disk = u.disk /\ t.fd = f /\ t.cache = u.cache
  BY <1>7, <1>8, SetFd
<1> HIDE DEF t
<1>10. Sound(t)
  <2> SUFFICES ASSUME NEW h \in Handle, t.fd[h].open PROVE Exists(t, t.fd[h].obj)
    BY <1>9 DEF Sound
  <2>1. h \notin mine /\ t.fd[h] = r.fd[h]
    BY <1>6, <1>9
  <2>2. s.fd[h].open /\ t.fd[h].obj = s.fd[h].obj /\ s.fd[h].obj # o
    BY <1>3, <2>1
  <2> QED
    BY <1>3, <1>8, <1>9, <2>2 DEF Sound, Exists
<1>11. ASSUME Paged(s) PROVE Paged(t)
  <2>1. Buffered(r) /\ Clean(r) /\ Pointing(r) /\ Owned(r) /\ OnePage(r)
    BY <1>4, <1>11 DEF Paged
  <2>2. \A h \in mine : r.fd[h].cp = NoPage
    BY <1>3, <1>5, <1>11 DEF Paged, Clean
  <2>3. Buffered(t)
    BY <1>6, <1>9, <2>1 DEF Buffered
  <2>4. Clean(t)
    BY <1>6, <1>9, <2>1, <2>2 DEF Clean
  <2>5. Pointing(t)
    BY <1>6, <1>8, <1>9, <2>1, <2>2 DEF Pointing
  <2>6. Owned(t)
    <3> SUFFICES ASSUME NEW c \in CachePage, t.cache[c].wr
                 PROVE  \E h \in Handle : t.fd[h].open /\ t.fd[h].cp = c
      BY DEF Owned
    <3>1. PICK h \in Handle : r.fd[h].open /\ r.fd[h].cp = c
      BY <1>8, <1>9, <2>1 DEF Owned
    <3>2. h \notin mine
      BY <2>2, <3>1, Constants
    <3> QED
      BY <1>6, <1>9, <3>1, <3>2
  <2>7. OnePage(t)
    BY <1>8, <1>9, <2>1 DEF OnePage
  <2> QED
    BY <2>3, <2>4, <2>5, <2>6, <2>7 DEF Paged
<1>12. ASSUME \A h \in Handle : s.fd[h].open /\ s.fd[h].obj # o => Knows(s, h)
       PROVE  Informed(t)
  <2> SUFFICES ASSUME NEW h \in Handle, t.fd[h].open PROVE Knows(t, h)
    BY DEF Informed
  <2>1. h \notin mine /\ t.fd[h] = r.fd[h]
    BY <1>6, <1>9
  <2>2. /\ s.fd[h].open /\ s.fd[h].obj # o /\ t.fd[h].obj = s.fd[h].obj
        /\ t.fd[h].size = s.fd[h].size /\ t.fd[h].current = s.fd[h].current
        /\ t.fd[h].scored = s.fd[h].scored
    BY <1>3, <2>1
  <2>3. t.disk[s.fd[h].obj] = s.disk[s.fd[h].obj]
    BY <1>3, <1>8, <1>9, <2>2 DEF Sound, Exists
  <2> QED
    BY <1>12, <2>2, <2>3 DEF Knows, Coherent
<1> QED
  BY <1>2, <1>10, <1>11, <1>12

----------------------------------------------------------------------------
(* Objects that are created, written and truncated.                        *)

\* No descriptor is on an object that does not exist.
LEMMA Creating ==
    ASSUME NEW s, Sound(s), NEW o \in ObjId, s.disk[o] = NoFile, NEW n \in Name
    PROVE  LET t == ObjectCreate(s, o, n)
           IN  /\ Preserves(s, t) /\ Exists(t, o)
               /\ \A h \in Handle : /\ t.fd[h].open = s.fd[h].open
                                    /\ t.fd[h].scored = s.fd[h].scored
<1> DEFINE x == [name |-> n, data |-> <<>>]
           u == [s EXCEPT !.disk[o] = x]
           t == ObjectCreate(s, o, n)
<1>1. s \in State
  BY DEF Sound
<1>2. x \in FileRec /\ x.data = <<>> /\ <<>> \in Seq(Symbol)
  <2>1. <<>> \in Seq(Symbol)
    OBVIOUS
  <2> QED
    BY <2>1 DEF FileRec
<1>3. x # NoFile
  BY <1>2, Constants
<1>4. t = HeaderEvent(u, o, Undefined, FALSE, 0)
  BY DEF ObjectCreate
<1> HIDE DEF x
<1>5. /\ u \in State /\ u.fd = s.fd /\ u.cache = s.cache /\ u.res = s.res
      /\ u.disk[o] = x /\ \A j \in ObjId \ {o} : u.disk[j] = s.disk[j]
  BY <1>1, <1>2, SetFile
<1> HIDE DEF u
<1>6. Sound(u)
  BY <1>3, <1>5 DEF Sound, Exists
<1>7. Undefined \in Nat /\ FALSE \in BOOLEAN
  BY Constants
<1>8. Evented(u, HeaderEvent(u, o, Undefined, FALSE, 0), o, Undefined)
  BY <1>6, <1>7, Events
<1> HIDE DEF t
<1>9. Evented(u, t, o, Undefined)
  BY <1>4, <1>8
<1>10. Paged(s) => Paged(t)
  <2>1. Paged(s) => Paged(u)
    BY <1>5 DEF Paged, Buffered, Clean, Pointing, Owned, OnePage
  <2> QED
    BY <1>9, <2>1 DEF Evented
<1>11. \A h \in Handle : /\ t.fd[h].open = s.fd[h].open /\ t.fd[h].obj = s.fd[h].obj
                         /\ t.fd[h].scored = s.fd[h].scored
  BY <1>5, <1>9 DEF Evented, Milder
<1>12. Informed(s) => Informed(t)
  <2> SUFFICES ASSUME Informed(s), NEW h \in Handle, t.fd[h].open PROVE Knows(t, h)
    BY DEF Informed
  <2>1. Knows(s, h) /\ s.fd[h].obj \in ObjId \ {o}
    BY <1>11 DEF Informed, Sound, Exists
  <2>2. /\ t.fd[h].size = s.fd[h].size /\ t.fd[h].current = s.fd[h].current
        /\ t.disk[s.fd[h].obj] = s.disk[s.fd[h].obj]
    BY <1>5, <1>9, <2>1 DEF Evented
  <2> QED
    BY <1>11, <2>1, <2>2 DEF Knows, Coherent
<1>13. Sound(t) /\ Exists(t, o)
  BY <1>3, <1>5, <1>9 DEF Evented, Exists
<1> QED
  BY <1>10, <1>11, <1>12, <1>13 DEF Preserves, t

\* The bytes of an object change, and the event tells their number.
Rewritten(s, t, o, d) ==
    Milder(s, t) /\ Preserves(s, t) /\ t.disk[o].data = d /\ t.res = s.res

LEMMA Rewriting ==
    ASSUME NEW s, Sound(s), NEW o, Exists(s, o), NEW d \in Seq(Symbol),
           NEW moved \in BOOLEAN, NEW actor
    PROVE  Rewritten(s, HeaderEvent([s EXCEPT !.disk[o].data = d], o, SizeOf(d), moved, actor),
                     o, d)
<1> DEFINE u == [s EXCEPT !.disk[o].data = d]
           z == SizeOf(d)
           t == HeaderEvent(u, o, z, moved, actor)
<1>1. s \in State /\ o \in ObjId /\ z \in Nat /\ z # 0
  BY Sizes DEF Sound, Exists
<1>2. /\ u \in State /\ u.fd = s.fd /\ u.cache = s.cache /\ u.res = s.res
      /\ u.disk[o].data = d /\ u.disk[o] # NoFile
      /\ \A j \in ObjId \ {o} : u.disk[j] = s.disk[j]
  BY <1>1, SetBytes DEF BytesSet
<1> HIDE DEF u
<1>3. Sound(u) /\ Exists(u, o)
  BY <1>1, <1>2 DEF Sound, Exists
<1>4. z = SizeOf(u.disk[o].data)
  BY <1>2
<1> HIDE DEF z
<1>5. Evented(u, t, o, z)
  BY <1>1, <1>3, Events
<1>6. ASSUME NEW h \in Handle, u.fd[h].open, u.fd[h].scored, u.fd[h].obj # o => Coherent(u, h)
      PROVE  Knows(t, h)
  BY <1>1, <1>3, <1>4, <1>6, EventInforms
<1> HIDE DEF t
<1>7. Milder(s, t)
  <2>1. Milder(s, u)
    BY <1>1, <1>2, <1>3 DEF Milder, Exists
  <2> QED
    BY <1>5, <2>1, MilderChain DEF Evented
<1>8. Paged(s) => Paged(t)
  <2>1. Paged(s) => Paged(u)
    BY <1>2 DEF Paged, Buffered, Clean, Pointing, Owned, OnePage
  <2> QED
    BY <1>5, <2>1 DEF Evented
<1>9. Informed(s) => Informed(t)
  <2> SUFFICES ASSUME Informed(s), NEW h \in Handle, t.fd[h].open PROVE Knows(t, h)
    BY DEF Informed
  <2>1. u.fd[h].open /\ Knows(s, h) /\ s.fd[h].obj \in ObjId
    BY <1>2, <1>7 DEF Milder, Informed, Sound, Exists
  <2>2. u.fd[h].scored /\ (u.fd[h].obj # o => Coherent(u, h))
    BY <1>2, <2>1 DEF Knows, Coherent
  <2> QED
    BY <1>6, <2>1, <2>2
<1>10. Sound(t) /\ t.disk[o].data = d /\ t.res = s.res
  BY <1>2, <1>5 DEF Evented
<1> QED
  BY <1>7, <1>8, <1>9, <1>10 DEF Preserves, Rewritten, t, z, u

LEMMA Resizing ==
    ASSUME NEW f \in FdRec, NEW n \in Nat
    PROVE  LET g == [f EXCEPT !.size = n, !.current = TRUE]
           IN  Resized(f, g, n) /\ g.current = TRUE
BY DEF FdRec, Resized

\* The descriptor that wrote notes the size itself.
LEMMA Settling ==
    ASSUME NEW s, Sound(s), NEW h \in Handle, s.fd[h].open, NEW n \in Nat,
           \/ n = SizeOf(s.disk[s.fd[h].obj].data)
           \/ n = 0 /\ s.disk[s.fd[h].obj].data = <<>>
    PROVE  LET t == [s EXCEPT !.fd[h].size = n, !.fd[h].current = TRUE]
           IN  Milder(s, t) /\ Preserves(s, t) /\ t.res = s.res
<1> DEFINE g == [s.fd[h] EXCEPT !.size = n, !.current = TRUE]
           t == [s EXCEPT !.fd[h] = g]
<1>1. s \in State
  BY DEF Sound
<1>2. s.fd[h] \in FdRec
  BY <1>1, Fields
<1>3. Resized(s.fd[h], g, n) /\ g.current = TRUE
  BY <1>2, Resizing
<1>4. /\ g \in FdRec /\ g.open = s.fd[h].open /\ g.obj = s.fd[h].obj
      /\ g.flags = s.fd[h].flags /\ g.size = n /\ g.cp = s.fd[h].cp
      /\ g.scored = s.fd[h].scored /\ g.current = TRUE
  BY <1>3 DEF Resized
<1>5. [s EXCEPT !.fd[h].size = n, !.fd[h].current = TRUE] = t
  BY <1>1, Fields
<1> HIDE DEF g
<1>6. /\ t \in State /\ t.disk = s.disk /\ t.cache = s.cache /\ t.res = s.res
      /\ t.fd[h] = g /\ \A j \in Handle \ {h} : t.fd[j] = s.fd[j]
  BY <1>1, <1>4, SetSlot
<1> HIDE DEF t
<1>7. Milder(s, t)
  BY <1>1, <1>4, <1>6 DEF Milder
<1>8. Alike(s, t)
  BY <1>4, <1>6 DEF Alike
<1>9. Informed(s) => Informed(t)
  <2> SUFFICES ASSUME Informed(s), NEW j \in Handle, t.fd[j].open PROVE Knows(t, j)
    BY DEF Informed
  <2>1. CASE j = h
    BY <1>4, <1>6, <2>1 DEF Informed, Knows, Coherent
  <2>2. CASE j # h
    BY <1>4, <1>6, <2>2 DEF Informed, Knows, Coherent
  <2> QED
    BY <2>1, <2>2
<1> QED
  BY <1>5, <1>6, <1>7, <1>8, <1>9, AlikeKeeps DEF Preserves

LEMMA Truncating ==
    ASSUME NEW s, Sound(s), NEW h \in Handle, s.fd[h].open, NEW full
    PROVE  Milder(s, Truncate(s, h, full)) /\ Preserves(s, Truncate(s, h, full))
<1> DEFINE o == s.fd[h].obj
           v == HeaderEvent([s EXCEPT !.disk[o].data = <<>>], o, Undefined, TRUE, h)
           t == [v EXCEPT !.fd[h].size = 0, !.fd[h].current = TRUE]
<1>1. s \in State /\ Exists(s, o)
  BY DEF Sound
<1>2. CASE s.fd[h].size \in {Undefined, 0}
  <2>1. Truncate(s, h, full) = s
    BY <1>2 DEF Truncate
  <2> QED
    BY <1>1, <2>1, MilderSelf DEF Preserves
<1>3. CASE s.fd[h].size \notin {Undefined, 0} /\ full # "never"
  <2>1. Truncate(s, h, full) = Error(s)
    BY <1>3 DEF Truncate
  <2> QED
    BY <2>1, Answering DEF Error
<1>4. CASE s.fd[h].size \notin {Undefined, 0} /\ full = "never"
  <2>1. Truncate(s, h, full) = t
    BY <1>4 DEF Truncate
  <2>2. <<>> \in Seq(Symbol) /\ SizeOf(<<>>) = Undefined /\ TRUE \in BOOLEAN
    BY DEF SizeOf
  <2>3. Rewritten(s, HeaderEvent([s EXCEPT !.disk[o].data = <<>>], o, SizeOf(<<>>), TRUE, h),
                  o, <<>>)
    BY <1>1, <2>2, Rewriting
  <2>4. Milder(s, v) /\ Preserves(s, v) /\ v.disk[o].data = <<>>
    BY <2>2, <2>3 DEF Rewritten
  <2> HIDE DEF v
  <2>5. Sound(v) /\ v.fd[h].open /\ v.fd[h].obj = o
    BY <2>4 DEF Milder, Preserves
  <2>6. Milder(v, t) /\ Preserves(v, t)
    BY <2>4, <2>5, Settling
  <2> HIDE DEF t
  <2>7. Milder(s, t) /\ Preserves(s, t)
    BY <2>4, <2>6, MilderChain, PreservesChain
  <2> QED
    BY <2>1, <2>7
<1> QED
  BY <1>2, <1>3, <1>4

\* Bytes changed without an event: the size is what it was.
LEMMA Overwriting ==
    ASSUME NEW s, Sound(s), NEW o, Exists(s, o), NEW d \in Seq(Symbol),
           Informed(s) => SizeOf(d) = SizeOf(s.disk[o].data) /\ d # <<>>
                          /\ s.disk[o].data # <<>>
    PROVE  Rewritten(s, [s EXCEPT !.disk[o].data = d], o, d)
<1> DEFINE u == [s EXCEPT !.disk[o].data = d]
<1>1. s \in State /\ o \in ObjId
  BY DEF Sound, Exists
<1>2. /\ u \in State /\ u.fd = s.fd /\ u.cache = s.cache /\ u.res = s.res
      /\ u.disk[o].data = d /\ u.disk[o] # NoFile
      /\ \A j \in ObjId \ {o} : u.disk[j] = s.disk[j]
  BY <1>1, SetBytes DEF BytesSet
<1> HIDE DEF u
<1>3. Sound(u)
  BY <1>1, <1>2 DEF Sound, Exists
<1>4. Milder(s, u)
  BY <1>1, <1>2 DEF Milder, Exists
<1>5. Paged(s) => Paged(u)
  BY <1>2 DEF Paged, Buffered, Clean, Pointing, Owned, OnePage
<1>6. Informed(s) => Informed(u)
  <2> SUFFICES ASSUME Informed(s), NEW h \in Handle, u.fd[h].open PROVE Knows(u, h)
    BY DEF Informed
  <2>1. Knows(s, h) /\ s.fd[h].obj \in ObjId
    BY <1>2 DEF Informed, Sound, Exists
  <2>2. CASE s.fd[h].obj # o
    BY <1>2, <2>1, <2>2 DEF Knows, Coherent
  <2>3. CASE s.fd[h].obj = o
    BY <1>2, <2>1, <2>3 DEF Knows, Coherent
  <2> QED
    BY <2>2, <2>3
<1> QED
  BY <1>2, <1>3, <1>4, <1>5, <1>6 DEF Preserves, Rewritten, u

LEMMA Modifying ==
    ASSUME NEW s, Sound(s), NEW h \in Handle, s.fd[h].open,
           NEW p \in Nat, NEW b \in Seq(Symbol), NEW full,
           p + Len(b) <= s.fd[h].size, s.fd[h].size \notin {0, Undefined}
    PROVE  LET t == ObjectModify(s, h, p, b, full)
           IN  Milder(s, t) /\ Preserves(s, t)
<1> DEFINE o == s.fd[h].obj
           d == Splice(s.disk[o].data, p, b)
           u == [s EXCEPT !.disk[o].data = d]
           w == HeaderEvent(u, o, SizeOf(d), TRUE, h)
<1>1. s \in State /\ Exists(s, o)
  BY DEF Sound
<1>2. s.disk[o].data \in Seq(Symbol)
  BY <1>1, Fields DEF Exists, FileRec
<1>3. d \in Seq(Symbol)
  BY <1>2, Splicing
<1>4. ObjectModify(s, h, p, b, full)
        = IF full = "always" \/ (p < HdrBytes /\ ~s.fd[h].current) THEN Error(s)
          ELSE IF p < HdrBytes
          THEN HeaderEvent(u, o, SizeOf(u.disk[o].data), TRUE, h)
          ELSE u
  BY DEF ObjectModify
<1>13. Informed(s) => SizeOf(d) = SizeOf(s.disk[o].data) /\ d # <<>>
                      /\ s.disk[o].data # <<>>
  <2> DEFINE e == s.disk[o].data
             z == s.fd[h].size
  <2> SUFFICES ASSUME Informed(s)
               PROVE  SizeOf(d) = SizeOf(e) /\ d # <<>> /\ e # <<>>
    OBVIOUS
  <2>1. z = SizeOf(e) \/ (z = 0 /\ e = <<>>)
    BY DEF Informed, Knows, Coherent
  <2>6. e \in Seq(Symbol)
    BY <1>2
  <2> HIDE DEF z
  <2>2. e # <<>> /\ z = Len(e) /\ Len(e) \in Nat /\ Len(e) # 0
    <3> HIDE DEF e, Undefined
    <3>1. z = SizeOf(e) /\ z # Undefined /\ z # 0
      BY <2>1 DEF z
    <3>2. e # <<>> /\ z = Len(e)
      BY <3>1 DEF SizeOf
    <3>3. Len(e) \in Nat
      BY <2>6
    <3> QED
      BY <3>1, <3>2, <3>3
  <2>3. Len(d) = MaxOf(Len(e), p + Len(b)) /\ p + Len(b) <= Len(e) /\ Len(b) \in Nat
    <3> HIDE DEF e
    <3>1. Len(Splice(e, p, b)) = MaxOf(Len(e), p + Len(b))
      BY <2>6, Splicing
    <3>2. p + Len(b) <= z
      BY DEF z
    <3>3. Len(b) \in Nat
      OBVIOUS
    <3> QED
      BY <2>2, <3>1, <3>2, <3>3 DEF e
  <2> HIDE DEF d, e
  <2>4. Len(d) = Len(e)
    BY <2>2, <2>3 DEF MaxOf
  <2>5. d # <<>>
    BY <2>2, <2>4
  <2> QED
    BY <2>2, <2>4, <2>5 DEF SizeOf
<1> HIDE DEF d, o
<1>5. o \in ObjId
  BY <1>1 DEF Exists
<1>6. BytesSet(s, u, o, d)
  BY <1>1, <1>3, <1>5, SetBytes
<1>7. u.disk[o].data = d
  BY <1>6 DEF BytesSet
<1>8. TRUE \in BOOLEAN
  OBVIOUS
<1>9. Rewritten(s, w, o, d)
  BY <1>1, <1>3, <1>8, Rewriting
<1>10. Milder(s, w) /\ Preserves(s, w)
  BY <1>9 DEF Rewritten
<1>11. Milder(s, Error(s)) /\ Preserves(s, Error(s))
  BY Answering DEF Error
<1>14. Milder(s, u) /\ Preserves(s, u)
  BY <1>1, <1>3, <1>13, Overwriting DEF Rewritten
<1> HIDE DEF u
<1>12. ObjectModify(s, h, p, b, full) \in {w, u, Error(s)}
  BY <1>4, <1>7
<1> HIDE DEF w
<1> QED
  BY <1>10, <1>11, <1>12, <1>14

LEMMA Appending ==
    ASSUME NEW s, Sound(s), NEW h \in Handle, s.fd[h].open,
           NEW offset \in Nat, NEW b \in Seq(Symbol), b # <<>>, NEW full
    PROVE  LET t == ObjectAppend(s, h, offset, b, full)
           IN  Milder(s, t) /\ Preserves(s, t)
<1> DEFINE f  == s.fd[h]
           o  == f.obj
           p  == MinOf(offset, f.size)
           n  == p + Len(b)
           d1 == Splice(s.disk[o].data, p, b)
           d2 == [i \in 1 .. n |-> Garbage]
           d  == IF Coherent(s, h) THEN d1 ELSE d2
           u  == [s EXCEPT !.disk[o].data = d]
           z  == Len(d)
           m  == p # 0
           v  == HeaderEvent(u, o, z, m, h)
           t  == [v EXCEPT !.fd[h].size = z, !.fd[h].current = TRUE]
<1>1. s \in State /\ Exists(s, o)
  BY DEF Sound
<1>2. s.disk[o].data \in Seq(Symbol) /\ f \in FdRec
  BY <1>1, Fields DEF Exists, FileRec
<1>3. f.size \in Nat /\ Len(b) \in Nat /\ Len(b) # 0
  BY <1>2 DEF FdRec
<1>4. p \in Nat
  BY <1>3, Minimum
<1>5. ObjectAppend(s, h, offset, b, full) \in {Error(s), t}
  BY DEF ObjectAppend
<1> HIDE DEF p
<1>6. d1 \in Seq(Symbol) /\ Len(d1) # 0
  <2>1. d1 \in Seq(Symbol) /\ Len(d1) = MaxOf(Len(s.disk[o].data), p + Len(b))
    BY <1>2, <1>4, Splicing
  <2> DEFINE x == s.disk[o].data
  <2>2. x \in Seq(Symbol)
    BY <1>2
  <2> HIDE DEF x
  <2>3. Len(x) \in Nat
    BY <2>2
  <2>4. Len(s.disk[o].data) \in Nat
    BY <2>3 DEF x
  <2>5. p + Len(b) \in Nat /\ p + Len(b) # 0
    BY <1>3, <1>4
  <2> HIDE DEF d1
  <2> QED
    BY <2>1, <2>4, <2>5 DEF MaxOf
<1>7. d2 \in Seq(Symbol) /\ Len(d2) # 0
  <2>1. n \in Nat /\ n # 0
    BY <1>3, <1>4
  <2> HIDE DEF n
  <2>2. d2 \in [1 .. n -> Symbol]
    BY DEF Symbol
  <2> QED
    BY <2>1, <2>2
<1> HIDE DEF d1, d2
<1>8. d \in Seq(Symbol) /\ d # <<>>
  BY <1>6, <1>7
<1> HIDE DEF d
<1>9. z \in Nat /\ z = SizeOf(d)
  BY <1>8, Sizes
<1>10. m \in BOOLEAN
  OBVIOUS
<1> HIDE DEF m
<1>11. Rewritten(s, HeaderEvent([s EXCEPT !.disk[o].data = d], o, SizeOf(d), m, h), o, d)
  BY <1>1, <1>8, <1>10, Rewriting
<1>12. Milder(s, v) /\ Preserves(s, v) /\ v.disk[o].data = d
  BY <1>9, <1>11 DEF Rewritten
<1> HIDE DEF v
<1>13. Sound(v) /\ v.fd[h].open /\ v.fd[h].obj = o
  BY <1>12 DEF Milder, Preserves
<1>14. Milder(v, t) /\ Preserves(v, t)
  BY <1>9, <1>12, <1>13, Settling
<1> HIDE DEF t
<1>15. Milder(s, t) /\ Preserves(s, t)
  BY <1>12, <1>14, MilderChain, PreservesChain
<1>16. Milder(s, Error(s)) /\ Preserves(s, Error(s))
  BY Answering DEF Error
<1> QED
  BY <1>5, <1>15, <1>16

LEMMA HydroWriting ==
    ASSUME NEW s, Sound(s), NEW h \in Handle, s.fd[h].open,
           NEW offset \in Nat, NEW b \in Seq(Symbol), NEW full
    PROVE  LET t == HydroWrite(s, h, offset, b, full)
           IN  Milder(s, t) /\ Preserves(s, t)
<1> DEFINE size == s.fd[h].size
           m    == IF size = Undefined \/ offset >= size THEN 0
                   ELSE MinOf(size - offset, Len(b))
           b1   == SubSeq(b, 1, m)
           b2   == SubSeq(b, m + 1, Len(b))
           t    == IF m = 0 THEN s ELSE ObjectModify(s, h, offset, b1, full)
           e    == offset + m
           u    == ObjectAppend(t, h, e, b2, full)
<1>1. s \in State
  BY DEF Sound
<1>2. size \in Nat /\ Len(b) \in Nat
  BY <1>1, Fields DEF FdRec
<1>3. HydroWrite(s, h, offset, b, full)
        = IF ~Ok(s) THEN s ELSE IF m = Len(b) \/ ~Ok(t) THEN t ELSE u
  BY DEF HydroWrite
<1> HIDE DEF size
<1>4. m \in Nat /\ m <= Len(b)
  <2>1. CASE size = Undefined \/ offset >= size
    BY <1>2, <2>1
  <2>2. CASE size # Undefined /\ ~(offset >= size)
    <3>1. size - offset \in Nat
      BY <1>2, <2>2
    <3> QED
      BY <1>2, <2>2, <3>1, Minimum
  <2> QED
    BY <2>1, <2>2
<1>10. m # 0 => offset + m <= size /\ size \notin {0, Undefined}
  <2> SUFFICES ASSUME m # 0 PROVE offset + m <= size /\ size \notin {0, Undefined}
    OBVIOUS
  <2>1. size # Undefined /\ ~(offset >= size) /\ m = MinOf(size - offset, Len(b))
    OBVIOUS
  <2> HIDE DEF m
  <2>2. size - offset \in Nat /\ size # 0
    BY <1>2, <2>1
  <2>3. m <= size - offset
    BY <1>2, <2>1, <2>2, Minimum
  <2> QED
    BY <1>2, <1>4, <2>1, <2>2, <2>3
<1> HIDE DEF m
<1>5. b1 \in Seq(Symbol) /\ e \in Nat /\ Len(b1) = m
  BY <1>2, <1>4
<1>6. m # Len(b) => b2 \in Seq(Symbol) /\ b2 # <<>>
  <2> SUFFICES ASSUME m # Len(b) PROVE b2 \in Seq(Symbol) /\ b2 # <<>>
    OBVIOUS
  <2>1. b2 \in Seq(Symbol) /\ Len(b2) = Len(b) - m
    BY <1>2, <1>4
  <2> HIDE DEF b2
  <2>2. Len(b2) # 0
    BY <1>2, <1>4, <2>1
  <2> QED
    BY <2>1, <2>2
<1> HIDE DEF b1, b2, e
<1>7. Milder(s, s) /\ Preserves(s, s)
  BY <1>1, MilderSelf DEF Preserves
<1>8. Milder(s, t) /\ Preserves(s, t)
  BY <1>2, <1>4, <1>5, <1>7, <1>10, Modifying DEF size
<1> HIDE DEF t
<1>9. ASSUME m # Len(b) PROVE Milder(s, u) /\ Preserves(s, u)
  <2>1. Sound(t) /\ t.fd[h].open
    BY <1>8 DEF Milder, Preserves
  <2>2. Milder(t, u) /\ Preserves(t, u)
    BY <1>5, <1>6, <1>9, <2>1, Appending
  <2> QED
    BY <1>8, <2>2, MilderChain, PreservesChain
<1> QED
  BY <1>3, <1>7, <1>8, <1>9

----------------------------------------------------------------------------
(* The write cache.                                                        *)

LEMMA WritingBack ==
    ASSUME NEW s, Sound(s), NEW h \in Handle, s.fd[h].open, NEW c \in CachePage, NEW full
    PROVE  LET t == WriteBack(s, h, c, full)
           IN  /\ Milder(s, t) /\ Preserves(s, t) /\ ~t.cache[c].wr
               /\ \A j \in Handle :
                     s.fd[j].open /\ s.fd[j].cp = c => t.fd[j].cp = NoPage
<1> DEFINE page == s.cache[c]
           u    == HydroWrite(s, h, page.offset, page.data, full)
           t    == Release(u, {c})
<1>1. page.offset \in Nat /\ page.data \in Seq(Symbol)
  <2>1. page \in PageRec
    BY Fields DEF Sound
  <2> QED
    BY <2>1 DEF PageRec
<1>2. WriteBack(s, h, c, full) = t
  BY DEF WriteBack
<1> HIDE DEF page
<1>3. Milder(s, u) /\ Preserves(s, u)
  BY <1>1, HydroWriting
<1> HIDE DEF u
<1>4. Sound(u) /\ u \in State
  BY <1>3 DEF Preserves, Sound
<1>5. Milder(u, t) /\ Preserves(u, t)
  BY <1>4, ReleaseIsMild
<1>6. /\ ~t.cache[c].wr
      /\ \A j \in Handle :
            /\ u.fd[j].open /\ u.fd[j].cp \in {c} => t.fd[j].cp = NoPage
            /\ ~(u.fd[j].open /\ u.fd[j].cp \in {c}) => t.fd[j].cp = u.fd[j].cp
  BY <1>4, Releasing DEF Freed
<1> HIDE DEF t
<1>7. Milder(s, t) /\ Preserves(s, t)
  BY <1>3, <1>5, MilderChain, PreservesChain
<1>8. \A j \in Handle : s.fd[j].open /\ s.fd[j].cp = c => t.fd[j].cp = NoPage
  BY <1>3, <1>6 DEF Milder
<1> QED
  BY <1>2, <1>6, <1>7, <1>8

\* Descriptor h found its cache page, if there is one.
Paired(s, t, h) ==
    /\ Preserves(s, t) /\ t.disk = s.disk /\ t.cache = s.cache /\ t.res = s.res
    /\ \A j \in Handle \ {h} : t.fd[j] = s.fd[j]
    /\ t.fd[h].open = s.fd[h].open /\ t.fd[h].obj = s.fd[h].obj
    /\ t.fd[h].flags = s.fd[h].flags /\ t.fd[h].scored = s.fd[h].scored
    /\ t.fd[h].size = s.fd[h].size /\ t.fd[h].fdoffset = s.fd[h].fdoffset
    /\ t.fd[h].cp \in CachePage \cup {NoPage}
    /\ Paged(s) /\ t.fd[h].cp = NoPage => PagesFor(s, s.fd[h].obj) = {}

LEMMA Pairing ==
    ASSUME NEW s, Sound(s), NEW h \in Handle, s.fd[h].open
    PROVE  Paired(s, WithPage(s, h), h)
<1> DEFINE o == s.fd[h].obj
           P == PagesFor(s, o)
           x == CachePageOf(s, o)
           p == IF s.fd[h].cp = NoPage THEN x ELSE s.fd[h].cp
           g == [s.fd[h] EXCEPT !.cp = p]
           t == [s EXCEPT !.fd[h] = g]
<1>1. s \in State /\ s.fd[h] \in FdRec
  BY Fields DEF Sound
<1>2. P \subseteq CachePage
  BY DEF PagesFor
<1>3. x \in P \cup {NoPage} /\ (x = NoPage => P = {})
  <2>1. CASE P = {}
    BY <2>1 DEF CachePageOf
  <2>2. CASE P # {}
    <3>1. x = CHOOSE c \in P : TRUE
      BY <2>2 DEF CachePageOf
    <3>2. x \in P
      BY <2>2, <3>1
    <3> QED
      BY <1>2, <3>2, Constants
  <2> QED
    BY <2>1, <2>2
<1>4. WithPage(s, h) = t
  BY DEF WithPage
<1> HIDE DEF x
<1>5. p \in CachePage \cup {NoPage}
  BY <1>1, <1>2, <1>3 DEF FdRec
<1>6. p # s.fd[h].cp => s.fd[h].cp = NoPage /\ p \in P
  BY <1>3
<1>7. p = NoPage => s.fd[h].cp = NoPage /\ P = {}
  BY <1>3
<1> HIDE DEF p, P
<1>8. /\ g \in FdRec /\ g.open = s.fd[h].open /\ g.obj = s.fd[h].obj
      /\ g.flags = s.fd[h].flags /\ g.size = s.fd[h].size
      /\ g.fdoffset = s.fd[h].fdoffset /\ g.cp = p
      /\ g.scored = s.fd[h].scored /\ g.current = s.fd[h].current
  BY <1>1, <1>5, CpChange
<1> HIDE DEF g
<1>9. /\ t \in State /\ t.disk = s.disk /\ t.cache = s.cache /\ t.res = s.res
      /\ t.fd[h] = g /\ \A j \in Handle \ {h} : t.fd[j] = s.fd[j]
  BY <1>1, <1>8, SetSlot
<1> HIDE DEF t
<1>10. Sound(t)
  BY <1>8, <1>9 DEF Sound, Exists
<1>11. Informed(s) => Informed(t)
  BY <1>8, <1>9 DEF Informed, Knows, Coherent
<1>12. ASSUME Paged(s) PROVE Paged(t)
  <2>1. Buffered(t) /\ Clean(t) /\ OnePage(t)
    <3>1. Buffered(t)
      BY <1>8, <1>9, <1>12 DEF Paged, Buffered
    <3>2. OnePage(t)
      BY <1>9, <1>12 DEF Paged, OnePage
    <3>3. ASSUME NEW j \in Handle, ~t.fd[j].open
          PROVE  t.fd[j].cp = NoPage /\ t.fd[j].obj = NoObj
      <4>1. j # h
        BY <1>8, <1>9, <3>3
      <4> QED
        BY <1>9, <1>12, <3>3, <4>1 DEF Paged, Clean
    <3> QED
      BY <3>1, <3>2, <3>3 DEF Clean
  <2>2. Pointing(t)
    <3> SUFFICES ASSUME NEW j \in Handle, t.fd[j].cp # NoPage
                 PROVE  t.cache[t.fd[j].cp].wr /\ t.cache[t.fd[j].cp].obj = t.fd[j].obj
      BY DEF Pointing
    <3>1. CASE t.fd[j].cp = s.fd[j].cp
      BY <1>8, <1>9, <1>12, <3>1 DEF Paged, Pointing
    <3>2. CASE t.fd[j].cp # s.fd[j].cp
      <4>1. j = h /\ p \in P
        BY <1>6, <1>8, <1>9, <3>2
      <4> QED
        BY <1>8, <1>9, <4>1 DEF P, PagesFor
    <3> QED
      BY <3>1, <3>2
  <2>3. Owned(t)
    <3> SUFFICES ASSUME NEW c \in CachePage, t.cache[c].wr
                 PROVE  \E j \in Handle : t.fd[j].open /\ t.fd[j].cp = c
      BY DEF Owned
    <3>1. PICK j \in Handle : s.fd[j].open /\ s.fd[j].cp = c
      BY <1>9, <1>12 DEF Paged, Owned
    <3>2. t.fd[j].cp = c
      BY <1>6, <1>8, <1>9, <3>1, Constants
    <3> QED
      BY <1>8, <1>9, <3>1, <3>2
  <2> QED
    BY <2>1, <2>2, <2>3 DEF Paged
<1>13. Paired(s, t, h)
  BY <1>5, <1>7, <1>8, <1>9, <1>10, <1>11, <1>12 DEF Paired, Preserves, P
<1> QED
  BY <1>4, <1>13

\* The same descriptors are open, and the same files exist.
Kept(s, t) ==
    /\ \A h \in Handle :
          /\ t.fd[h].open = s.fd[h].open /\ t.fd[h].obj = s.fd[h].obj
          /\ t.fd[h].flags = s.fd[h].flags /\ t.fd[h].scored = s.fd[h].scored
    /\ \A o \in ObjId : t.disk[o] = NoFile <=> s.disk[o] = NoFile

LEMMA Flushing ==
    ASSUME NEW s, Sound(s), NEW h \in Handle, s.fd[h].open, NEW full
    PROVE  LET t == FlushCache(s, h, full)
           IN  /\ Preserves(s, t) /\ Kept(s, t)
               /\ Paged(s) => t.fd[h].cp = NoPage
<1> DEFINE w == WithPage(s, h)
           c == w.fd[h].cp
           u == WriteBack(w, h, c, full)
           t == FlushCache(s, h, full)
<1>1. s \in State
  BY DEF Sound
<1>2. Paired(s, w, h)
  BY Pairing
<1>3. t = IF "DIRECT" \in s.fd[h].flags THEN s ELSE IF c = NoPage THEN s ELSE u
  BY DEF FlushCache
<1> HIDE DEF w
<1>4. CASE "DIRECT" \in s.fd[h].flags
  <2>1. t = s
    BY <1>3, <1>4
  <2>2. ~Paged(s)
    BY <1>4 DEF Paged, Buffered
  <2> HIDE DEF t
  <2> QED
    BY <2>1, <2>2 DEF Preserves, Kept, t
<1>5. CASE "DIRECT" \notin s.fd[h].flags /\ c = NoPage
  <2>1. t = s
    BY <1>3, <1>5
  <2>2. s.fd[h].cp # NoPage /\ Paged(s) => FALSE
    <3> SUFFICES ASSUME s.fd[h].cp # NoPage, Paged(s) PROVE FALSE
      OBVIOUS
    <3>1. s.fd[h].cp \in CachePage
      BY <1>1, Fields DEF FdRec
    <3>2. s.fd[h].cp \in PagesFor(s, s.fd[h].obj)
      BY <3>1 DEF Paged, Pointing, PagesFor
    <3> QED
      BY <1>2, <1>5, <3>2 DEF Paired
  <2> HIDE DEF t
  <2> QED
    BY <2>1, <2>2 DEF Preserves, Kept, t
<1>6. CASE "DIRECT" \notin s.fd[h].flags /\ c # NoPage
  <2>1. t = u
    BY <1>3, <1>6
  <2>2. Sound(w) /\ w.fd[h].open /\ c \in CachePage
    BY <1>2, <1>6 DEF Paired, Preserves
  <2>3. Milder(w, u) /\ Preserves(w, u) /\ u.fd[h].cp = NoPage
    BY <2>2, WritingBack
  <2> HIDE DEF t, u, c
  <2>4. Preserves(s, u)
    BY <1>2, <2>3, PreservesChain DEF Paired
  <2>5. Kept(s, u)
    <3>1. \A j \in Handle :
             /\ w.fd[j].open = s.fd[j].open /\ w.fd[j].obj = s.fd[j].obj
             /\ w.fd[j].flags = s.fd[j].flags /\ w.fd[j].scored = s.fd[j].scored
      BY <1>2 DEF Paired
    <3>2. w.disk = s.disk
      BY <1>2 DEF Paired
    <3> QED
      BY <2>3, <3>1, <3>2 DEF Milder, Kept
  <2> QED
    BY <2>1, <2>3, <2>4, <2>5 DEF t
<1> QED
  BY <1>4, <1>5, <1>6

LEMMA GoingThrough ==
    ASSUME NEW s, Sound(s), NEW h \in Handle, s.fd[h].open,
           NEW offset \in Nat, NEW b \in Seq(Symbol), NEW full
    PROVE  Preserves(s, Through(s, h, offset, b, full))
<1> DEFINE t == HydroWrite(s, h, offset, b, full)
           n == t.fd[h].fdoffset + Len(b)
           u == [t EXCEPT !.fd[h].fdoffset = n]
<1>1. Milder(s, t) /\ Preserves(s, t)
  BY HydroWriting
<1>2. Through(s, h, offset, b, full) = IF Ok(t) THEN u ELSE t
  BY DEF Through
<1> HIDE DEF t
<1>3. Sound(t) /\ t \in State
  BY <1>1 DEF Preserves, Sound
<1>4. n \in Nat
  <2>1. t.fd[h].fdoffset \in Nat /\ Len(b) \in Nat
    BY <1>3, Fields DEF FdRec
  <2> QED
    BY <2>1
<1> HIDE DEF n
<1>5. Preserves(t, u)
  BY <1>3, <1>4, Moving
<1> HIDE DEF u
<1>6. Preserves(s, u)
  BY <1>1, <1>5, PreservesChain
<1> QED
  BY <1>1, <1>2, <1>6

LEMMA Storing ==
    ASSUME NEW s, Sound(s), NEW h \in Handle, NEW c \in CachePage,
           NEW offset \in Nat, offset >= s.cache[c].offset, NEW b \in Seq(Symbol)
    PROVE  Preserves(s, IntoPage(s, h, c, offset, b))
<1> DEFINE page == s.cache[c]
           k    == offset - page.offset
           d    == Splice(page.data, k, b)
           x    == [page EXCEPT !.data = d]
           u    == [s EXCEPT !.cache[c] = x]
           n    == s.fd[h].fdoffset + Len(b)
           t    == [u EXCEPT !.fd[h].fdoffset = n]
<1>1. s \in State /\ page \in PageRec /\ s.fd[h] \in FdRec
  BY Fields DEF Sound
<1>2. IntoPage(s, h, c, offset, b) = t
  <2>1. IntoPage(s, h, c, offset, b) = [s EXCEPT !.cache[c].data = d, !.fd[h].fdoffset = n]
    BY <1>1, Fields DEF IntoPage
  <2> HIDE DEF d, n
  <2>2. [s EXCEPT !.cache[c].data = d, !.fd[h].fdoffset = n] = t
    OBVIOUS
  <2> QED
    BY <2>1, <2>2
<1>3. k \in Nat
  <2>1. page.offset \in Nat
    BY <1>1 DEF PageRec
  <2> QED
    BY <2>1
<1>4. d \in Seq(Symbol)
  <2>1. page.data \in Seq(Symbol)
    BY <1>1 DEF PageRec
  <2> HIDE DEF page, k
  <2> QED
    BY <1>3, <2>1, Splicing
<1>5. n \in Nat
  <2>1. s.fd[h].fdoffset \in Nat /\ Len(b) \in Nat
    BY <1>1 DEF FdRec
  <2> QED
    BY <2>1
<1> HIDE DEF d, n, k
<1>6. x \in PageRec /\ x.wr = page.wr /\ x.obj = page.obj
  BY <1>1, <1>4 DEF PageRec
<1> HIDE DEF x
<1>7. /\ u \in State /\ u.fd = s.fd /\ u.disk = s.disk /\ u.res = s.res
      /\ u.cache[c] = x /\ \A j \in CachePage \ {c} : u.cache[j] = s.cache[j]
  BY <1>1, <1>6, SetPage
<1> HIDE DEF u
<1>8. Alike(s, u)
  BY <1>6, <1>7 DEF Alike
<1>9. Informed(s) => Informed(u)
  BY <1>7 DEF Informed, Knows, Coherent
<1>10. Preserves(s, u)
  BY <1>7, <1>8, <1>9, AlikeKeeps DEF Preserves
<1>11. Preserves(u, t)
  BY <1>5, <1>10, Moving DEF Preserves
<1> HIDE DEF t
<1> QED
  BY <1>2, <1>10, <1>11, PreservesChain

\* A page that was allocated is the descriptor's, and the object's only one.
LEMMA TakingPage ==
    ASSUME NEW s, Sound(s), NEW h \in Handle, s.fd[h].open,
           NEW c \in CachePage, ~s.cache[c].wr, NEW offset \in Nat
    PROVE  LET t == [s EXCEPT
                        !.cache[c] = [wr |-> TRUE, obj |-> s.fd[h].obj,
                                      offset |-> offset, data |-> <<>>],
                        !.fd[h].cp = c]
           IN  /\ Sound(t) /\ (Informed(s) => Informed(t))
               /\ t.cache[c].offset = offset
               /\ Paged(s) /\ s.fd[h].cp = NoPage /\ PagesFor(s, s.fd[h].obj) = {}
                     => Paged(t)
<1> DEFINE o == s.fd[h].obj
           x == [wr |-> TRUE, obj |-> o, offset |-> offset, data |-> <<>>]
           u == [s EXCEPT !.cache[c] = x]
           g == [s.fd[h] EXCEPT !.cp = c]
           t == [u EXCEPT !.fd[h] = g]
<1>1. s \in State /\ s.fd[h] \in FdRec /\ o \in ObjId
  BY Fields DEF Sound, Exists
<1>2. [s EXCEPT !.cache[c] = [wr |-> TRUE, obj |-> s.fd[h].obj,
                              offset |-> offset, data |-> <<>>],
                !.fd[h].cp = c] = t
  OBVIOUS
<1>3. x \in PageRec /\ x.wr = TRUE /\ x.obj = o /\ x.offset = offset
  <2>1. <<>> \in Seq(Symbol)
    OBVIOUS
  <2> QED
    BY <1>1, <2>1 DEF PageRec
<1> HIDE DEF x
<1>4. /\ u \in State /\ u.fd = s.fd /\ u.disk = s.disk /\ u.res = s.res
      /\ u.cache[c] = x /\ \A j \in CachePage \ {c} : u.cache[j] = s.cache[j]
  BY <1>1, <1>3, SetPage
<1>5. /\ g \in FdRec /\ g.open = s.fd[h].open /\ g.obj = s.fd[h].obj
      /\ g.flags = s.fd[h].flags /\ g.size = s.fd[h].size
      /\ g.fdoffset = s.fd[h].fdoffset /\ g.cp = c
      /\ g.scored = s.fd[h].scored /\ g.current = s.fd[h].current
  <2>1. s.fd[h] \in FdRec /\ c \in CachePage
    BY <1>1
  <2> DEFINE f == s.fd[h]
  <2> HIDE DEF f
  <2>2. LET k == [f EXCEPT !.cp = c]
        IN  /\ k \in FdRec /\ k.open = f.open /\ k.obj = f.obj /\ k.flags = f.flags
            /\ k.size = f.size /\ k.fdoffset = f.fdoffset /\ k.cp = c
            /\ k.scored = f.scored /\ k.current = f.current
    BY <2>1, CpChange DEF f
  <2> QED
    BY <2>2 DEF f
<1> HIDE DEF g, u
<1>6. /\ t \in State /\ t.disk = u.disk /\ t.cache = u.cache /\ t.res = u.res
      /\ t.fd[h] = g /\ \A j \in Handle \ {h} : t.fd[j] = u.fd[j]
  BY <1>4, <1>5, SetSlot
<1> HIDE DEF t
<1>7. \A j \in Handle : /\ t.fd[j].open = s.fd[j].open /\ t.fd[j].obj = s.fd[j].obj
                        /\ t.fd[j].flags = s.fd[j].flags /\ t.fd[j].size = s.fd[j].size
                        /\ t.fd[j].scored = s.fd[j].scored
                        /\ t.fd[j].current = s.fd[j].current
                        /\ t.fd[j].cp = IF j = h THEN c ELSE s.fd[j].cp
  BY <1>4, <1>5, <1>6
<1>8. /\ t.disk = s.disk /\ t.cache[c] = x
      /\ \A j \in CachePage \ {c} : t.cache[j] = s.cache[j]
  BY <1>4, <1>6
<1>9. Sound(t)
  BY <1>6, <1>7, <1>8 DEF Sound, Exists
<1>10. Informed(s) => Informed(t)
  BY <1>7, <1>8 DEF Informed, Knows, Coherent
<1>11. ASSUME Paged(s), s.fd[h].cp = NoPage, PagesFor(s, o) = {}
       PROVE  Paged(t)
  <2>1. Buffered(t)
    BY <1>7, <1>11 DEF Paged, Buffered
  <2>2. Clean(t)
    BY <1>7, <1>11 DEF Paged, Clean
  <2>3. Pointing(t)
    <3> SUFFICES ASSUME NEW j \in Handle, t.fd[j].cp # NoPage
                 PROVE  t.cache[t.fd[j].cp].wr /\ t.cache[t.fd[j].cp].obj = t.fd[j].obj
      BY DEF Pointing
    <3>1. CASE j = h
      BY <1>3, <1>7, <1>8, <3>1
    <3>2. CASE j # h
      <4>1. s.fd[j].cp # NoPage /\ t.fd[j].cp = s.fd[j].cp
        BY <1>7, <3>2
      <4>2. s.cache[s.fd[j].cp].wr /\ s.cache[s.fd[j].cp].obj = s.fd[j].obj
        BY <1>11, <4>1 DEF Paged, Pointing
      <4>3. s.fd[j].cp \in CachePage
        BY <1>1, <4>1, Fields DEF FdRec
      <4> QED
        BY <1>7, <1>8, <4>1, <4>2, <4>3
    <3> QED
      BY <3>1, <3>2
  <2>4. Owned(t)
    <3> SUFFICES ASSUME NEW d \in CachePage, t.cache[d].wr
                 PROVE  \E j \in Handle : t.fd[j].open /\ t.fd[j].cp = d
      BY DEF Owned
    <3>1. CASE d = c
      BY <1>7, <3>1
    <3>2. CASE d # c
      <4>1. PICK j \in Handle : s.fd[j].open /\ s.fd[j].cp = d
        BY <1>8, <1>11, <3>2 DEF Paged, Owned
      <4>2. j # h
        BY <1>11, <4>1, Constants
      <4> QED
        BY <1>7, <4>1, <4>2
    <3> QED
      BY <3>1, <3>2
  <2>5. OnePage(t)
    <3>1. \A d \in CachePage \ {c} : t.cache[d].wr => t.cache[d].obj # o
      BY <1>8, <1>11 DEF PagesFor
    <3> QED
      BY <1>3, <1>8, <1>11, <3>1 DEF Paged, OnePage
  <2> QED
    BY <2>1, <2>2, <2>3, <2>4, <2>5 DEF Paged
<1>12. t.cache[c].offset = offset
  BY <1>3, <1>8
<1> QED
  BY <1>2, <1>9, <1>10, <1>11, <1>12

----------------------------------------------------------------------------
(* The calls.                                                              *)

NeverDirect == \A F \in Flags : "DIRECT" \notin F
NeverFresh  == "fresh" \notin Habits

\* What a call keeps: with flags and programs as they are assumed to be.
Keeps(s, t) ==
    /\ Sound(t)
    /\ NeverDirect /\ Paged(s) => Paged(t)
    /\ NeverFresh /\ Informed(s) => Informed(t)

LEMMA PreservesKeeps ==
    ASSUME NEW s, NEW t, Preserves(s, t)
    PROVE  Keeps(s, t)
BY DEF Preserves, Keeps

LEMMA KeepsChain ==
    ASSUME NEW s, NEW t, NEW u, Keeps(s, t), Keeps(t, u)
    PROVE  Keeps(s, u)
BY DEF Keeps

\* The answer of a call is the last thing it notes.
LEMMA Finishing ==
    ASSUME NEW s, NEW t, Keeps(s, t)
    PROVE  Keeps(s, [t EXCEPT !.res = "OK"])
<1> DEFINE u == [t EXCEPT !.res = "OK"]
<1>1. Sound(t)
  BY DEF Keeps
<1>2. Preserves(t, u)
  BY <1>1, Answering
<1> HIDE DEF u
<1>3. Keeps(s, u)
  BY <1>2, PreservesKeeps, KeepsChain
<1> QED
  BY <1>3 DEF u

LEMMA Taking ==
    ASSUME NEW h \in Handle, Sound(fs)
    PROVE  /\ Preserves(fs, Taken(h)) /\ Taken(h).disk = fs.disk
           /\ Taken(h).fd[h].scored = TRUE
           /\ \A j \in Handle : Taken(h).fd[j].open = fs.fd[j].open
<1> DEFINE g == [fs.fd[h] EXCEPT !.scored = TRUE]
           t == [fs EXCEPT !.fd[h] = g]
<1>1. fs \in State /\ fs.fd[h] \in FdRec
  BY Fields DEF Sound
<1>2. Taken(h) = t
  BY DEF Taken
<1>3. /\ g \in FdRec /\ g.open = fs.fd[h].open /\ g.obj = fs.fd[h].obj
      /\ g.flags = fs.fd[h].flags /\ g.size = fs.fd[h].size
      /\ g.cp = fs.fd[h].cp /\ g.current = fs.fd[h].current /\ g.scored = TRUE
  BY <1>1 DEF FdRec
<1> HIDE DEF g
<1>4. /\ t \in State /\ t.disk = fs.disk /\ t.cache = fs.cache /\ t.res = fs.res
      /\ t.fd[h] = g /\ \A j \in Handle \ {h} : t.fd[j] = fs.fd[j]
  BY <1>1, <1>3, SetSlot
<1> HIDE DEF t
<1>5. Alike(fs, t)
  BY <1>3, <1>4 DEF Alike
<1>6. Informed(fs) => Informed(t)
  BY <1>3, <1>4 DEF Informed, Knows, Coherent
<1>7. Preserves(fs, t)
  BY <1>4, <1>5, <1>6, AlikeKeeps DEF Preserves
<1> QED
  BY <1>2, <1>3, <1>4, <1>7

LEMMA OpeningAndTruncating ==
    ASSUME NEW s, Sound(s), NEW h \in Handle, ~s.fd[h].open, NEW o, Exists(s, o),
           NEW flags \in Flags, NEW full
    PROVE  LET t == OpenAndTruncate(s, h, o, flags, full)
           IN  /\ Sound(t) /\ (NeverDirect /\ Paged(s) => Paged(t))
               /\ Informed(s) /\ s.fd[h].scored => Informed(t)
<1> DEFINE t == OpenByPage(s, h, o, flags)
           w == Truncate(t, h, full)
           u == IF "TRUNC" \in flags THEN w ELSE t
           v == [u EXCEPT !.fd[h] = Shut(@)]
<1>1. /\ Opened(s, t, h, o)
      /\ Paged(s) /\ "DIRECT" \notin flags => Paged(t)
  BY Opening
<1>2. OpenAndTruncate(s, h, o, flags, full) = IF Ok(u) THEN u ELSE v
  BY DEF OpenAndTruncate
<1> HIDE DEF t
<1>3. Sound(t) /\ t.fd[h].open /\ t \in State
  BY <1>1 DEF Opened, Sound
<1>4. Milder(t, w) /\ Preserves(t, w)
  BY <1>3, Truncating
<1>5. Milder(t, t) /\ Preserves(t, t)
  BY <1>3, MilderSelf DEF Preserves
<1>6. Milder(t, u) /\ Preserves(t, u)
  BY <1>4, <1>5
<1> HIDE DEF u
<1>7. NeverDirect /\ Paged(s) => Paged(u)
  BY <1>1, <1>6 DEF NeverDirect, Preserves
<1>8. Paged(s) => u.fd[h].cp = NoPage
  BY <1>1, <1>6 DEF Paged, Clean, Opened, Milder
<1>9. ASSUME Informed(s), s.fd[h].scored PROVE Informed(u)
  <2>1. Informed(t)
    <3> SUFFICES ASSUME NEW j \in Handle, t.fd[j].open PROVE Knows(t, j)
      BY DEF Informed
    <3>1. CASE j = h
      BY <1>1, <1>9, <3>1 DEF Opened, Knows
    <3>2. CASE j # h
      BY <1>1, <1>9, <3>2 DEF Opened, Informed, Knows, Coherent
    <3> QED
      BY <3>1, <3>2
  <2> QED
    BY <1>6, <2>1 DEF Preserves
<1>10. Sound(u)
  BY <1>6 DEF Preserves
<1>11. /\ Sound(v) /\ (InformedBut(u, h) => Informed(v))
       /\ (Paged(u) /\ u.fd[h].cp = NoPage => Paged(v))
  BY <1>10, GivingBack
<1>12. Informed(u) => InformedBut(u, h)
  BY DEF Informed, InformedBut
<1> HIDE DEF v
<1> QED
  BY <1>2, <1>7, <1>8, <1>9, <1>10, <1>11, <1>12

LEMMA NamedExist ==
    ASSUME NEW n, NEW o \in Named(n)
    PROVE  o \in ObjId /\ Exists(fs, o)
BY DEF Named, Live, Exists

LEMMA CreatStep ==
    ASSUME Sound(fs), NEW o \in ObjId, NEW n \in Name, NEW full, Creat(o, n, full)
    PROVE  Keeps(fs, fs')
<1>1. fs.disk[o] = NoFile /\ fs' = [ObjectCreate(fs, o, n) EXCEPT !.res = "OK"]
  BY DEF Creat, Live, Done
<1>2. Preserves(fs, ObjectCreate(fs, o, n))
  BY <1>1, Creating
<1> QED
  BY <1>1, <1>2, PreservesKeeps, Finishing

LEMMA OpenStep ==
    ASSUME Sound(fs), NEW h \in Handle, NEW n \in Name, NEW flags \in Flags, NEW full,
           Open(h, n, flags, full)
    PROVE  Keeps(fs, fs')
<1> DEFINE s == Taken(h)
<1>1. PICK o \in Named(n) :
         fs' = [OpenAndTruncate(s, h, o, flags, full) EXCEPT !.res = "OK"]
  BY DEF Open, Done
<1>2. ~fs.fd[h].open
  BY DEF Open, ClosedSlots
<1> DEFINE t == OpenAndTruncate(s, h, o, flags, full)
<1>3. /\ Preserves(fs, s) /\ s.disk = fs.disk /\ s.fd[h].scored = TRUE
      /\ \A j \in Handle : s.fd[j].open = fs.fd[j].open
  BY Taking
<1> HIDE DEF s
<1>4. Sound(s) /\ ~s.fd[h].open /\ Exists(s, o)
  BY <1>2, <1>3, NamedExist DEF Preserves, Exists
<1>5. /\ Sound(t) /\ (NeverDirect /\ Paged(s) => Paged(t))
      /\ Informed(s) /\ s.fd[h].scored => Informed(t)
  BY <1>4, OpeningAndTruncating
<1> HIDE DEF t
<1>6. Keeps(fs, t)
  BY <1>3, <1>5 DEF Keeps, Preserves
<1>7. fs' = [t EXCEPT !.res = "OK"]
  BY <1>1 DEF t
<1> QED
  BY <1>6, <1>7, Finishing

LEMMA OpenNewStep ==
    ASSUME Sound(fs), NEW h \in Handle, NEW n \in Name, NEW o \in ObjId,
           NEW flags \in Flags, OpenNew(h, n, o, flags)
    PROVE  Keeps(fs, fs')
<1> DEFINE s == Taken(h)
           t == ObjectCreate(s, o, n)
           u == OpenByPage(t, h, o, flags)
<1>1. ~fs.fd[h].open /\ fs.disk[o] = NoFile /\ fs' = [u EXCEPT !.res = "OK"]
  BY DEF OpenNew, ClosedSlots, Live, Done
<1>2. /\ Preserves(fs, s) /\ s.disk = fs.disk /\ s.fd[h].scored = TRUE
      /\ \A j \in Handle : s.fd[j].open = fs.fd[j].open
  BY Taking
<1> HIDE DEF s
<1>3. Sound(s) /\ s.disk[o] = NoFile
  BY <1>1, <1>2 DEF Preserves
<1>4. /\ Preserves(s, t) /\ Exists(t, o)
      /\ \A j \in Handle : /\ t.fd[j].open = s.fd[j].open
                           /\ t.fd[j].scored = s.fd[j].scored
  BY <1>3, Creating
<1> HIDE DEF t
<1>5. Sound(t) /\ ~t.fd[h].open /\ t.fd[h].scored = TRUE
  BY <1>1, <1>2, <1>4 DEF Preserves
<1>6. /\ Opened(t, u, h, o)
      /\ Paged(t) /\ "DIRECT" \notin flags => Paged(u)
  BY <1>4, <1>5, Opening
<1> HIDE DEF u
<1>7. Informed(t) => Informed(u)
  <2> SUFFICES ASSUME Informed(t), NEW j \in Handle, u.fd[j].open PROVE Knows(u, j)
    BY DEF Informed
  <2>1. CASE j = h
    BY <1>5, <1>6, <2>1 DEF Opened, Knows
  <2>2. CASE j # h
    BY <1>6, <2>2 DEF Opened, Informed, Knows, Coherent
  <2> QED
    BY <2>1, <2>2
<1>8. Keeps(fs, u)
  BY <1>2, <1>4, <1>6, <1>7 DEF Keeps, Preserves, Opened, NeverDirect
<1> QED
  BY <1>1, <1>8, Finishing

LEMMA OpenFailsStep ==
    ASSUME Sound(fs), NEW h \in Handle, NEW n, NEW flags, NEW full,
           OpenFails(h, n, flags, full)
    PROVE  Keeps(fs, fs')
<1>1. fs' = [Taken(h) EXCEPT !.res = "OK"]
  BY DEF OpenFails, Done
<1>2. Preserves(fs, Taken(h))
  BY Taking
<1> QED
  BY <1>1, <1>2, PreservesKeeps, Finishing

LEMMA OpenByDirentStep ==
    ASSUME Sound(fs), NEW h \in Handle, NEW o \in ObjId, NEW flags \in Flags, NEW full,
           OpenByDirent(h, o, flags, full)
    PROVE  Keeps(fs, fs')
<1> DEFINE t == OpenAndTruncate(fs, h, o, flags, full)
<1>1. fs' = [t EXCEPT !.res = "OK"]
  BY DEF OpenByDirent, Done
<1>2. ~fs.fd[h].open /\ Exists(fs, o)
  BY DEF OpenByDirent, SpareSlots, UnscoredSlots, ClosedSlots, Live, Exists
<1>3. NeverFresh => fs.fd[h].scored
  BY DEF OpenByDirent, NeverFresh
<1>4. /\ Sound(t) /\ (NeverDirect /\ Paged(fs) => Paged(t))
      /\ Informed(fs) /\ fs.fd[h].scored => Informed(t)
  BY <1>2, OpeningAndTruncating
<1> HIDE DEF t
<1>5. Keeps(fs, t)
  BY <1>3, <1>4 DEF Keeps
<1> QED
  BY <1>1, <1>5, Finishing

\* A flush whose failure is not noticed.
LEMMA FlushedKeeps ==
    ASSUME Sound(fs), NEW h \in Handle, fs.fd[h].open, NEW full
    PROVE  Preserves(fs, Flushed(h, full)) /\ Kept(fs, Flushed(h, full))
<1> DEFINE t == FlushCache(fs, h, full)
           u == [t EXCEPT !.res = "OK"]
<1>1. Preserves(fs, t) /\ Kept(fs, t)
  BY Flushing
<1> HIDE DEF t
<1>2. Preserves(t, u) /\ u.fd = t.fd /\ u.disk = t.disk
  BY <1>1, Answering DEF Preserves
<1> HIDE DEF u
<1>3. Preserves(fs, u) /\ Kept(fs, u)
  BY <1>1, <1>2, PreservesChain DEF Kept
<1>4. Flushed(h, full) = u
  BY DEF Flushed, u, t
<1> QED
  BY <1>3, <1>4

LEMMA ReadStep ==
    ASSUME Sound(fs), NEW h \in Handle, NEW n \in Lengths, NEW full, Read(h, n, full)
    PROVE  Keeps(fs, fs')
<1> DEFINE s == Flushed(h, full)
           f == s.fd[h]
           m == MinOf(n, f.size - f.fdoffset)
           k == f.fdoffset + m
           t == [s EXCEPT !.fd[h].fdoffset = k]
<1>1. fs.fd[h].open
  BY DEF Read, May, Fd
<1>2. \/ m > 0 /\ fs' = [t EXCEPT !.res = "OK"]
      \/ fs' = [s EXCEPT !.res = "OK"]
  BY DEF Read, Done
<1>3. Preserves(fs, s)
  BY <1>1, FlushedKeeps
<1> HIDE DEF s
<1>4. Sound(s) /\ f \in FdRec
  BY <1>3, Fields DEF Preserves, Sound
<1>5. m > 0 => k \in Nat
  <2>1. f.fdoffset \in Nat /\ f.size \in Nat /\ n \in Nat
    BY <1>4, Constants DEF FdRec
  <2>2. m \in Int
    BY <2>1 DEF MinOf
  <2> HIDE DEF m
  <2> QED
    BY <2>1, <2>2
<1> HIDE DEF m, k
<1>6. CASE m > 0 /\ fs' = [t EXCEPT !.res = "OK"]
  <2>1. Preserves(s, t)
    BY <1>4, <1>5, <1>6, Moving
  <2> HIDE DEF t
  <2>2. Preserves(fs, t)
    BY <1>3, <2>1, PreservesChain
  <2> QED
    BY <1>6, <2>2, PreservesKeeps, Finishing
<1>7. CASE fs' = [s EXCEPT !.res = "OK"]
  BY <1>3, <1>7, PreservesKeeps, Finishing
<1> QED
  BY <1>2, <1>6, <1>7

LEMMA SeekStep ==
    ASSUME Sound(fs), NEW h \in Handle, NEW p \in Nat, NEW full, Seek(h, p, full)
    PROVE  Keeps(fs, fs')
<1> DEFINE s    == Flushed(h, full)
           size == IF s.fd[h].size = Undefined THEN 0 ELSE s.fd[h].size
           k    == MinOf(p, size)
           t    == [s EXCEPT !.fd[h].fdoffset = k]
<1>1. fs.fd[h].open /\ fs' = [t EXCEPT !.res = "OK"]
  BY DEF Seek, Fd, Done
<1>2. Preserves(fs, s)
  BY <1>1, FlushedKeeps
<1> HIDE DEF s
<1>3. Sound(s) /\ s.fd[h] \in FdRec
  BY <1>2, Fields DEF Preserves, Sound
<1>4. size \in Nat
  BY <1>3 DEF FdRec
<1> HIDE DEF size
<1>5. k \in Nat
  BY <1>4, Minimum
<1> HIDE DEF k
<1>6. Preserves(s, t)
  BY <1>3, <1>5, Moving
<1> HIDE DEF t
<1>7. Preserves(fs, t)
  BY <1>2, <1>6, PreservesChain
<1> QED
  BY <1>1, <1>7, PreservesKeeps, Finishing

LEMMA FflushStep ==
    ASSUME Sound(fs), NEW h \in Handle, NEW full, Fflush(h, full)
    PROVE  Keeps(fs, fs')
<1>1. fs.fd[h].open /\ fs' = [FlushCache(fs, h, full) EXCEPT !.res = "OK"]
  BY DEF Fflush, Fd, Done
<1>2. Preserves(fs, FlushCache(fs, h, full))
  BY <1>1, Flushing
<1> QED
  BY <1>1, <1>2, PreservesKeeps, Finishing

LEMMA CloseStep ==
    ASSUME Sound(fs), NEW h \in Handle, NEW full, Close(h, full)
    PROVE  Keeps(fs, fs')
<1> DEFINE s == FlushCache(fs, h, full)
           t == [s EXCEPT !.fd[h] = Shut(@)]
           u == IF Ok(s) THEN t ELSE s
<1>1. fs.fd[h].open /\ fs' = [u EXCEPT !.res = "OK"]
  BY DEF Close, Fd, Done
<1>2. /\ Preserves(fs, s) /\ (Paged(fs) => s.fd[h].cp = NoPage)
  BY <1>1, Flushing
<1> HIDE DEF s
<1>3. /\ Sound(t) /\ (InformedBut(s, h) => Informed(t))
      /\ (Paged(s) /\ s.fd[h].cp = NoPage => Paged(t))
  BY <1>2, GivingBack DEF Preserves
<1> HIDE DEF t
<1>4. Keeps(fs, t)
  <2>1. Informed(s) => InformedBut(s, h)
    BY DEF Informed, InformedBut
  <2> QED
    BY <1>2, <1>3, <2>1 DEF Keeps, Preserves
<1>5. Keeps(fs, u)
  BY <1>2, <1>4, PreservesKeeps
<1> HIDE DEF u
<1> QED
  BY <1>1, <1>5, Finishing

LEMMA DataIsBytes ==
    ASSUME NEW b \in Data
    PROVE  b \in Seq(Symbol)
<1>1. PICK n \in Lengths, x \in Byte : b = [i \in 1 .. n |-> x]
  BY DEF Data
<1>2. n \in Nat /\ x \in Symbol
  BY Constants DEF Symbol
<1>3. b \in [1 .. n -> Symbol]
  BY <1>1, <1>2
<1> QED
  BY <1>2, <1>3

\* A write that starts a new cache page, or finds none.
LEMMA StartingPage ==
    ASSUME NEW s, Sound(s), NEW h \in Handle, s.fd[h].open, NEW c \in Allocations(s),
           NEW offset \in Nat, NEW b \in Seq(Symbol), NEW full
    PROVE  LET t == IntoNewPage(s, h, c, offset, b, full)
           IN  /\ Sound(t) /\ (Informed(s) => Informed(t))
               /\ Paged(s) /\ s.fd[h].cp = NoPage /\ PagesFor(s, s.fd[h].obj) = {}
                     => Paged(t)
<1> DEFINE u == [s EXCEPT
                    !.cache[c] = [wr |-> TRUE, obj |-> s.fd[h].obj,
                                  offset |-> offset, data |-> <<>>],
                    !.fd[h].cp = c]
           t == IntoPage(u, h, c, offset, b)
           w == Through(s, h, offset, b, full)
<1>1. IntoNewPage(s, h, c, offset, b, full) = IF c = NoPage THEN w ELSE t
  BY DEF IntoNewPage
<1>2. Preserves(s, w)
  BY GoingThrough
<1> HIDE DEF w
<1>3. CASE c = NoPage
  BY <1>1, <1>2, <1>3 DEF Preserves
<1>4. CASE c # NoPage
  <2>1. c \in CachePage /\ ~s.cache[c].wr
    BY <1>4 DEF Allocations, ReadPages
  <2>2. /\ Sound(u) /\ (Informed(s) => Informed(u))
        /\ u.cache[c].offset = offset
        /\ Paged(s) /\ s.fd[h].cp = NoPage /\ PagesFor(s, s.fd[h].obj) = {}
              => Paged(u)
    BY <2>1, TakingPage
  <2> HIDE DEF u
  <2>3. offset >= u.cache[c].offset
    BY <2>2
  <2>4. Preserves(u, t)
    BY <2>1, <2>2, <2>3, Storing
  <2> HIDE DEF t
  <2> QED
    BY <1>1, <1>4, <2>2, <2>4 DEF Preserves
<1> QED
  BY <1>3, <1>4

LEMMA WriteStep ==
    ASSUME Sound(fs), NEW h \in Handle, NEW b \in Data, NEW full, Write(h, b, full)
    PROVE  Keeps(fs, fs')
<1> DEFINE f      == fs.fd[h]
           append == "APPEND" \in f.flags
           pos    == IF ~append THEN f.fdoffset
                     ELSE IF f.size = Undefined THEN 0 ELSE f.size
           u      == [fs EXCEPT !.fd[h].fdoffset = pos]
           s      == WithPage(u, h)
           c      == s.fd[h].cp
           offset == IF append /\ c # NoPage THEN MaxOf(pos, End(s.cache[c]))
                     ELSE pos
           small  == Len(b) < PageSize
           dumped == IF c = NoPage THEN s ELSE WriteBack(s, h, c, full)
           o      == s.fd[h].obj
<1>1. f.open
  BY DEF Write, May, Fd
<1>2. \/ Done(Through(s, h, offset, b, full)) /\ "DIRECT" \in f.flags
      \/ /\ c # NoPage /\ Fits(s.cache[c], offset, b)
         /\ Done(IntoPage(s, h, c, offset, b))
      \/ Done(dumped)
      \/ /\ "DIRECT" \notin f.flags
         /\ \E d \in Allocations(dumped) : Done(IntoNewPage(dumped, h, d, offset, b, full))
      \/ Done(Through(dumped, h, offset, b, full))
  BY DEF Write, Fd
<1>3. fs \in State /\ f \in FdRec /\ b \in Seq(Symbol)
  BY Fields, DataIsBytes DEF Sound
<1>4. pos \in Nat
  BY <1>3 DEF FdRec
<1> HIDE DEF pos
<1>5. Preserves(fs, u) /\ Milder(fs, u)
  BY <1>4, Moving
<1> HIDE DEF u
<1>6. Sound(u) /\ u.fd[h].open
  BY <1>1, <1>5 DEF Preserves, Milder
<1>7. Paired(u, s, h)
  BY <1>6, Pairing
<1> HIDE DEF s
<1>8. /\ Preserves(fs, s) /\ Sound(s) /\ s \in State /\ s.fd[h].open
      /\ c \in CachePage \cup {NoPage} /\ s.cache = u.cache /\ o = u.fd[h].obj
  BY <1>5, <1>6, <1>7, PreservesChain DEF Paired, Preserves, Sound
<1>9. offset \in Nat
  <2>1. CASE c # NoPage
    <3>1. s.cache[c] \in PageRec
      BY <1>8, <2>1, Fields
    <3>2. End(s.cache[c]) \in Nat
      BY <3>1 DEF PageRec, End
    <3> QED
      BY <1>4, <3>2, Minimum
  <2>2. CASE c = NoPage
    BY <1>4, <2>2
  <2> QED
    BY <2>1, <2>2
<1> HIDE DEF offset
<1>10. /\ Preserves(s, dumped) /\ dumped.fd[h].open
       /\ Paged(s) => /\ dumped.fd[h].cp = NoPage
                      /\ PagesFor(dumped, dumped.fd[h].obj) = {}
  <2>1. CASE c = NoPage
    <3>1. dumped = s
      BY <2>1
    <3>2. Paged(u) => PagesFor(s, o) = {}
      BY <1>7, <1>8, <2>1 DEF Paired, PagesFor
    <3>3. Paged(s) => Paged(u)
      <4> SUFFICES ASSUME Paged(s), s.fd[h].cp = NoPage PROVE Paged(u)
        BY <2>1
      <4>1. u.fd[h].cp = NoPage
        <5> SUFFICES ASSUME u.fd[h].cp # NoPage PROVE FALSE
          OBVIOUS
        <5>1. s.fd[h].cp = u.fd[h].cp
          BY DEF WithPage, s
        <5> QED
          BY <5>1
      <4>2. Alike(s, u)
        BY <1>7, <4>1 DEF Paired, Alike
      <4> QED
        BY <1>6, <1>8, <4>2, AlikeKeeps DEF Sound
    <3> QED
      BY <1>8, <2>1, <3>1, <3>2, <3>3 DEF Preserves
  <2>2. CASE c # NoPage
    <3>1. c \in CachePage /\ dumped = WriteBack(s, h, c, full)
      BY <1>8, <2>2
    <3>2. /\ Milder(s, dumped) /\ Preserves(s, dumped) /\ ~dumped.cache[c].wr
          /\ dumped.fd[h].cp = NoPage
      BY <1>8, <3>1, WritingBack
    <3> HIDE DEF dumped
    <3>3. dumped.fd[h].open /\ dumped.fd[h].obj = o
      BY <1>8, <3>2 DEF Milder
    <3>4. ASSUME Paged(s), NEW d \in PagesFor(dumped, o) PROVE FALSE
      <4>1. d \in CachePage /\ dumped.cache[d].wr /\ dumped.cache[d].obj = o
        BY <3>4 DEF PagesFor
      <4>2. dumped.cache[d] = s.cache[d] /\ d # c
        BY <3>2, <4>1 DEF Milder
      <4>3. s.cache[c].wr /\ s.cache[c].obj = o
        BY <2>2, <3>4 DEF Paged, Pointing
      <4> QED
        BY <3>1, <3>4, <4>1, <4>2, <4>3 DEF Paged, OnePage
    <3> QED
      BY <3>2, <3>3, <3>4
  <2> QED
    BY <2>1, <2>2
<1> HIDE DEF dumped
<1>11. Preserves(fs, dumped) /\ Sound(dumped)
  BY <1>8, <1>10, PreservesChain DEF Preserves
<1>12. CASE Done(Through(s, h, offset, b, full))
  <2>1. Preserves(s, Through(s, h, offset, b, full))
    BY <1>3, <1>8, <1>9, GoingThrough
  <2> QED
    BY <1>8, <1>12, <2>1, PreservesChain, PreservesKeeps, Finishing DEF Done
<1>13. CASE /\ c # NoPage /\ Fits(s.cache[c], offset, b)
            /\ Done(IntoPage(s, h, c, offset, b))
  <2>1. c \in CachePage /\ offset >= s.cache[c].offset
    BY <1>8, <1>13 DEF Fits
  <2>2. Preserves(s, IntoPage(s, h, c, offset, b))
    BY <1>3, <1>8, <1>9, <2>1, Storing
  <2> QED
    BY <1>8, <1>13, <2>2, PreservesChain, PreservesKeeps, Finishing DEF Done
<1>14. CASE Done(dumped)
  BY <1>11, <1>14, PreservesKeeps, Finishing DEF Done
<1>15. CASE \E d \in Allocations(dumped) : Done(IntoNewPage(dumped, h, d, offset, b, full))
  <2>1. PICK d \in Allocations(dumped) : Done(IntoNewPage(dumped, h, d, offset, b, full))
    BY <1>15
  <2> DEFINE t == IntoNewPage(dumped, h, d, offset, b, full)
  <2>2. /\ Sound(t) /\ (Informed(dumped) => Informed(t))
        /\ /\ Paged(dumped) /\ dumped.fd[h].cp = NoPage
           /\ PagesFor(dumped, dumped.fd[h].obj) = {}
           => Paged(t)
    BY <1>3, <1>9, <1>10, <1>11, StartingPage
  <2> HIDE DEF t
  <2>3. Keeps(fs, t)
    BY <1>8, <1>10, <1>11, <2>2 DEF Keeps, Preserves
  <2>4. fs' = [t EXCEPT !.res = "OK"]
    BY <2>1 DEF Done, t
  <2> QED
    BY <2>3, <2>4, Finishing
<1>16. CASE Done(Through(dumped, h, offset, b, full))
  <2>1. Preserves(dumped, Through(dumped, h, offset, b, full))
    BY <1>3, <1>9, <1>10, <1>11, GoingThrough
  <2> QED
    BY <1>11, <1>16, <2>1, PreservesChain, PreservesKeeps, Finishing DEF Done
<1> QED
  BY <1>2, <1>12, <1>13, <1>14, <1>15, <1>16

LEMMA RemoveStep ==
    ASSUME Sound(fs), NEW n, NEW t \in Handle, Remove(n, t)
    PROVE  Keeps(fs, fs')
<1>1. PICK o \in Named(n) : fs' = [DeleteEvent(OpenByPage(fs, t, o, {}), o) EXCEPT !.res = "OK"]
  BY DEF Remove, Done
<1> DEFINE s == OpenByPage(fs, t, o, {})
           u == DeleteEvent(s, o)
<1>2. ~fs.fd[t].open /\ Exists(fs, o)
  BY NamedExist DEF Remove, SpareSlots, UnscoredSlots, ClosedSlots
<1>3. "DIRECT" \notin {}
  OBVIOUS
<1>4. Opened(fs, s, t, o) /\ (Paged(fs) => Paged(s))
  BY <1>2, <1>3, Opening
<1> HIDE DEF s
<1>5. Sound(s) /\ Exists(s, o)
  BY <1>2, <1>4 DEF Opened, Exists
<1>6. /\ Sound(u) /\ (Paged(s) => Paged(u))
      /\ (\A h \in Handle : s.fd[h].open /\ s.fd[h].obj # o => Knows(s, h)) => Informed(u)
  BY <1>5, Deleting
<1> HIDE DEF u
<1>7. Informed(fs) => \A h \in Handle : s.fd[h].open /\ s.fd[h].obj # o => Knows(s, h)
  BY <1>4 DEF Opened, Informed, Knows, Coherent
<1>8. Keeps(fs, u)
  BY <1>4, <1>6, <1>7 DEF Keeps
<1>9. fs' = [u EXCEPT !.res = "OK"]
  BY <1>1 DEF u, s
<1> QED
  BY <1>8, <1>9, Finishing

LEMMA FremoveStep ==
    ASSUME Sound(fs), NEW h \in Handle, Fremove(h)
    PROVE  Keeps(fs, fs')
<1> DEFINE o == fs.fd[h].obj
           s == Release(fs, {fs.fd[h].cp})
           u == DeleteEvent(s, o)
<1>1. fs.fd[h].open /\ fs' = [u EXCEPT !.res = "OK"]
  BY DEF Fremove, May, Fd, Done
<1>2. Milder(fs, s) /\ Preserves(fs, s)
  BY ReleaseIsMild
<1> HIDE DEF s
<1>3. Sound(s) /\ Exists(s, o)
  BY <1>1, <1>2 DEF Preserves, Milder, Sound, Exists
<1>4. /\ Sound(u) /\ (Paged(s) => Paged(u))
      /\ (\A j \in Handle : s.fd[j].open /\ s.fd[j].obj # o => Knows(s, j)) => Informed(u)
  BY <1>3, Deleting
<1> HIDE DEF u
<1>5. Keeps(fs, u)
  BY <1>2, <1>4 DEF Keeps, Preserves, Informed
<1> QED
  BY <1>1, <1>5, Finishing

\* A descriptor that was opened on the renamed object for the call may be
\* in a slot no name was ever looked up in, but it is given back.
LEMMA RenameStep ==
    ASSUME Sound(fs), NEW n, NEW new \in Name, NEW t \in Handle, Rename(n, new, t)
    PROVE  Keeps(fs, fs')
<1>1. PICK o \in Named(n) :
         LET s == OpenByPage([fs EXCEPT !.disk[o].name = new], t, o, {})
             u == HeaderEvent(s, o, SizeOf(s.disk[o].data), TRUE, t)
         IN  fs' = [[u EXCEPT !.fd[t] = Shut(@)] EXCEPT !.res = "OK"]
  BY DEF Rename, Done
<1> DEFINE x == [fs.disk[o] EXCEPT !.name = new]
           r == [fs EXCEPT !.disk[o] = x]
           s == OpenByPage(r, t, o, {})
           z == SizeOf(s.disk[o].data)
           u == HeaderEvent(s, o, z, TRUE, t)
           v == [u EXCEPT !.fd[t] = Shut(@)]
<1>2. ~fs.fd[t].open /\ o \in ObjId /\ Exists(fs, o) /\ fs \in State
  BY NamedExist DEF Rename, SpareSlots, UnscoredSlots, ClosedSlots, Sound
<1>3. fs' = [v EXCEPT !.res = "OK"]
  <2>1. [fs EXCEPT !.disk[o].name = new] = r
    OBVIOUS
  <2> QED
    BY <1>1, <2>1
<1>4. x \in FileRec /\ x.data = fs.disk[o].data /\ x # NoFile
  <2>1. x \in FileRec /\ x.data = fs.disk[o].data
    BY <1>2, Fields DEF Exists, FileRec
  <2> QED
    BY <2>1, Constants
<1> HIDE DEF x
<1>5. /\ r \in State /\ r.fd = fs.fd /\ r.cache = fs.cache /\ r.res = fs.res
      /\ r.disk[o] = x /\ \A j \in ObjId \ {o} : r.disk[j] = fs.disk[j]
  BY <1>2, <1>4, SetFile
<1> HIDE DEF r
<1>6. Sound(r) /\ (Paged(fs) => Paged(r))
  <2>1. Alike(fs, r)
    BY <1>2, <1>4, <1>5 DEF Alike, Exists
  <2> QED
    BY <1>5, <2>1, AlikeKeeps
<1>7. \A h \in Handle : r.fd[h].open /\ Knows(fs, h) => Knows(r, h)
  <2> SUFFICES ASSUME NEW h \in Handle, r.fd[h].open, Knows(fs, h) PROVE Knows(r, h)
    OBVIOUS
  <2>1. r.disk[fs.fd[h].obj].data = fs.disk[fs.fd[h].obj].data
    BY <1>4, <1>5 DEF Sound, Exists
  <2> QED
    BY <1>5, <2>1 DEF Knows, Coherent
<1>8. ~r.fd[t].open /\ Exists(r, o) /\ "DIRECT" \notin {}
  BY <1>2, <1>4, <1>5 DEF Exists
<1>9. Opened(r, s, t, o) /\ (Paged(r) => Paged(s))
  BY <1>6, <1>8, Opening
<1> HIDE DEF s
<1>10. Sound(s) /\ s \in State /\ Exists(s, o)
  BY <1>8, <1>9 DEF Opened, Exists, Sound
<1>11. z \in Nat /\ z # 0 /\ z = SizeOf(s.disk[o].data) /\ TRUE \in BOOLEAN
  <2>1. s.disk[o].data \in Seq(Symbol)
    BY <1>2, <1>10, Fields DEF Exists, FileRec
  <2> QED
    BY <2>1, Sizes
<1> HIDE DEF z
<1>12. Evented(s, u, o, z)
  BY <1>2, <1>10, <1>11, Events
<1>13. ASSUME Informed(fs) PROVE InformedBut(u, t)
  <2> SUFFICES ASSUME NEW h \in Handle \ {t}, u.fd[h].open PROVE Knows(u, h)
    BY DEF InformedBut
  <2>1. s.fd[h].open
    BY <1>12 DEF Evented, Milder
  <2>2. s.fd[h] = r.fd[h] /\ s.disk = r.disk /\ r.fd[h] = fs.fd[h]
    BY <1>5, <1>9 DEF Opened
  <2>3. Knows(r, h)
    BY <1>7, <1>13, <2>1, <2>2 DEF Informed
  <2>4. s.fd[h].scored /\ Coherent(s, h)
    BY <2>2, <2>3 DEF Knows, Coherent
  <2> QED
    BY <1>2, <1>10, <1>11, <2>1, <2>4, EventInforms
<1>14. Paged(fs) => u.fd[t].cp = NoPage /\ Paged(u)
  <2>1. Paged(fs) => s.fd[t].cp = NoPage
    BY <1>2, <1>5, <1>9 DEF Paged, Clean, Opened
  <2>2. u.fd[t].cp \in {s.fd[t].cp, NoPage}
    BY <1>12 DEF Evented, Milder
  <2> QED
    BY <1>6, <1>9, <1>12, <2>1, <2>2 DEF Evented
<1>15. Sound(u)
  BY <1>12 DEF Evented
<1> HIDE DEF u
<1>16. /\ Sound(v) /\ (InformedBut(u, t) => Informed(v))
       /\ (Paged(u) /\ u.fd[t].cp = NoPage => Paged(v))
  BY <1>15, GivingBack
<1> HIDE DEF v
<1>17. Keeps(fs, v)
  BY <1>13, <1>14, <1>16 DEF Keeps
<1> QED
  BY <1>3, <1>17, Finishing

\* A header that moves without a change, told of with its size.
LEMMA TellingKeeps ==
    ASSUME NEW s, Sound(s), NEW o, Exists(s, o), Len(s.disk[o].data) # 0
    PROVE  Preserves(s, HeaderEvent(s, o, Len(s.disk[o].data), TRUE, 0))
<1> DEFINE d == s.disk[o].data
<1>1. d \in Seq(Symbol)
  BY Fields DEF Sound, Exists, FileRec
<1>2. [s EXCEPT !.disk[o].data = d] = s
  BY Fields DEF Sound, Exists, FileRec, State
<1>3. SizeOf(d) = Len(d)
  <2>1. d # <<>>
    OBVIOUS
  <2> QED
    BY <2>1 DEF SizeOf
<1>4. TRUE \in BOOLEAN
  OBVIOUS
<1>5. Rewritten(s, HeaderEvent([s EXCEPT !.disk[o].data = d], o, SizeOf(d), TRUE, 0), o, d)
  BY <1>1, <1>4, Rewriting
<1> QED
  BY <1>2, <1>3, <1>5 DEF Rewritten

LEMMA CollectGarbageStep ==
    ASSUME Sound(fs), NEW o \in ObjId, CollectGarbage(o)
    PROVE  Keeps(fs, fs')
<1>1. PICK n \in {0, Len(fs.disk[o].data)} :
         fs' = [HeaderEvent(fs, o, n, TRUE, 0) EXCEPT !.res = "OK"]
  BY DEF CollectGarbage, Done
<1>2. Exists(fs, o)
  BY DEF CollectGarbage, Live, Exists
<1>3. Preserves(fs, HeaderEvent(fs, o, n, TRUE, 0))
  <2>1. CASE n = 0
    BY <2>1, MoveKeeps
  <2>2. CASE n # 0
    BY <1>1, <1>2, <2>2, TellingKeeps
  <2> QED
    BY <2>1, <2>2
<1> QED
  BY <1>1, <1>3, PreservesKeeps, Finishing

----------------------------------------------------------------------------
(* Mounting.                                                               *)

LEMMA Mounting ==
    ASSUME NEW d \in [ObjId -> FileRec \cup {NoFile}]
    PROVE  LET t == Mounted(d)
           IN  Sound(t) /\ Paged(t) /\ Informed(t)
<1> DEFINE t == Mounted(d)
<1>1. /\ t.disk = d /\ t.fd = [h \in Handle |-> NoFd]
      /\ t.cache = [c \in CachePage |-> NoCache] /\ t.res = "OK"
  BY DEF Mounted
<1>2. NoFd \in FdRec /\ NoFd.open = FALSE /\ NoFd.cp = NoPage /\ NoFd.obj = NoObj
  BY DEF NoFd, FdRec
<1>3. NoCache \in PageRec /\ NoCache.wr = FALSE
  <2>1. <<>> \in Seq(Symbol)
    OBVIOUS
  <2> QED
    BY <2>1 DEF NoCache, PageRec
<1>4. t \in State
  BY <1>2, <1>3 DEF Mounted, State
<1> HIDE DEF t
<1>5. \A h \in Handle : t.fd[h].open = FALSE /\ t.fd[h].cp = NoPage /\ t.fd[h].obj = NoObj
  BY <1>1, <1>2
<1>6. \A c \in CachePage : t.cache[c].wr = FALSE
  BY <1>1, <1>3
<1>7. Sound(t) /\ Informed(t)
  BY <1>4, <1>5 DEF Sound, Informed
<1>8. Paged(t)
  BY <1>5, <1>6 DEF Paged, Buffered, Clean, Pointing, Owned, OnePage
<1> QED
  BY <1>7, <1>8 DEF t

NatLess == {ss \in Nat \X Nat : ss[1] < ss[2]}

\* A set of naturals has a least member.
LEMMA LeastMember ==
    ASSUME NEW S \in SUBSET Nat, S # {}
    PROVE  \E x \in S : \A y \in S : x <= y
<1>1. OpToRel(<, Nat) = NatLess
  BY DEF OpToRel, NatLess
<1>2. IsWellFoundedOn(NatLess, Nat)
  BY <1>1, NatLessThanWellFounded
<1>3. PICK x \in S : \A y \in S : ~(<<y, x>> \in NatLess)
  BY <1>2, WFMin
<1>4. ASSUME NEW y \in S PROVE x <= y
  <2>1. x \in Nat /\ y \in Nat
    OBVIOUS
  <2>2. <<y, x>> \in NatLess <=> y < x
    BY <2>1 DEF NatLess
  <2> QED
    BY <1>3, <2>1, <2>2
<1> QED
  BY <1>4

\* One slot of an unmount.
Unmounting(s, k, full) ==
    LET u == [s EXCEPT !.res = "OK"]
    IN  IF u.fd[k].open THEN [FlushCache(u, k, full) EXCEPT !.fd[k] = Shut(@)] ELSE u

LEMMA UnmountingKeeps ==
    ASSUME NEW s, Sound(s), NEW k \in Handle, NEW full
    PROVE  Preserves(s, Unmounting(s, k, full))
<1> DEFINE u == [s EXCEPT !.res = "OK"]
           t == FlushCache(u, k, full)
           v == [t EXCEPT !.fd[k] = Shut(@)]
<1>1. Unmounting(s, k, full) = IF u.fd[k].open THEN v ELSE u
  BY DEF Unmounting
<1>2. Preserves(s, u)
  BY Answering
<1> HIDE DEF u
<1>3. CASE u.fd[k].open
  <2>1. Preserves(u, t) /\ (Paged(u) => t.fd[k].cp = NoPage)
    BY <1>2, <1>3, Flushing DEF Preserves
  <2> HIDE DEF t
  <2>2. Preserves(t, v) \/ ~Paged(t) \/ t.fd[k].cp # NoPage
    BY <2>1, GivingBack DEF Preserves, Informed, InformedBut
  <2>3. Sound(v) /\ (Informed(t) => Informed(v))
    BY <2>1, GivingBack DEF Preserves, Informed, InformedBut
  <2> HIDE DEF v
  <2> QED
    BY <1>1, <1>2, <1>3, <2>1, <2>2, <2>3 DEF Preserves
<1> QED
  BY <1>1, <1>2, <1>3

\* The chain of an unmount up to slot n.
IsUnmount(f, n, full) ==
    f = [k \in 0 .. n |-> IF k = 0 THEN fs ELSE Unmounting(f[k - 1], k, full)]

LEMMA UnmountExists ==
    ASSUME NEW full
    PROVE  \A n \in Nat : \E f : IsUnmount(f, n, full)
<1> DEFINE S == {n \in Nat : ~\E f : IsUnmount(f, n, full)}
<1> SUFFICES ASSUME S # {} PROVE FALSE
  OBVIOUS
<1>1. PICK n \in S : \A y \in S : n <= y
  BY LeastMember
<1>2. n \in Nat /\ ~\E f : IsUnmount(f, n, full)
  OBVIOUS
<1>3. CASE n = 0
  <2> DEFINE f == [k \in 0 .. 0 |-> fs]
  <2>1. f = [k \in 0 .. 0 |-> IF k = 0 THEN fs ELSE Unmounting(f[k - 1], k, full)]
    OBVIOUS
  <2> HIDE DEF f
  <2>2. IsUnmount(f, 0, full)
    BY <2>1 DEF IsUnmount
  <2> QED
    BY <1>2, <1>3, <2>2
<1>4. CASE n # 0
  <2>1. n - 1 \in Nat /\ ~(n <= n - 1)
    BY <1>2, <1>4
  <2>2. n - 1 \notin S
    BY <1>1, <2>1
  <2>3. PICK g : IsUnmount(g, n - 1, full)
    BY <2>1, <2>2
  <2> DEFINE f == [k \in 0 .. n |-> IF k = n THEN Unmounting(g[n - 1], n, full) ELSE g[k]]
  <2>4. \A k \in 0 .. n - 1 :
           g[k] = IF k = 0 THEN fs ELSE Unmounting(g[k - 1], k, full)
    BY <2>3 DEF IsUnmount
  <2>5. \A k \in 0 .. n :
           f[k] = IF k = 0 THEN fs ELSE Unmounting(f[k - 1], k, full)
    <3> SUFFICES ASSUME NEW k \in 0 .. n
                 PROVE  f[k] = IF k = 0 THEN fs ELSE Unmounting(f[k - 1], k, full)
      OBVIOUS
    <3>1. CASE k = n
      <4>1. f[n - 1] = g[n - 1]
        BY <1>2, <1>4
      <4>2. f[n] = Unmounting(g[n - 1], n, full)
        BY <1>2
      <4> QED
        BY <1>4, <3>1, <4>1, <4>2
    <3>2. CASE k # n
      <4>1. k \in 0 .. n - 1
        BY <1>2, <3>2
      <4>2. f[k] = g[k]
        BY <3>2
      <4>3. k # 0 => f[k - 1] = g[k - 1]
        BY <1>2, <3>2
      <4> QED
        BY <2>4, <4>1, <4>2, <4>3
    <3> QED
      BY <3>1, <3>2
  <2>6. f = [k \in 0 .. n |-> f[k]]
    OBVIOUS
  <2> HIDE DEF f
  <2>7. IsUnmount(f, n, full)
    BY <2>5, <2>6 DEF IsUnmount
  <2> QED
    BY <1>2, <2>7
<1> QED
  BY <1>3, <1>4

LEMMA RemountStep ==
    ASSUME Sound(fs), NEW full, Remount(full)
    PROVE  Keeps(fs, fs')
<1> DEFINE f == CHOOSE g : IsUnmount(g, FdCount, full)
<1>1. fs' = Mounted(f[FdCount].disk)
  BY DEF Remount, IsUnmount, Unmounting
<1>2. IsUnmount(f, FdCount, full)
  BY UnmountExists, Constants
<1> HIDE DEF f
<1>3. \A k \in 0 .. FdCount :
         f[k] = IF k = 0 THEN fs ELSE Unmounting(f[k - 1], k, full)
  BY <1>2 DEF IsUnmount
<1> DEFINE S == {k \in 0 .. FdCount : ~Sound(f[k])}
<1>4. S = {}
  <2> SUFFICES ASSUME S # {} PROVE FALSE
    OBVIOUS
  <2>1. S \in SUBSET Nat
    BY Constants
  <2>2. PICK k \in S : \A y \in S : k <= y
    BY <2>1, LeastMember
  <2>3. k \in 0 .. FdCount /\ ~Sound(f[k]) /\ k \in Nat
    BY Constants
  <2>4. k # 0
    BY <1>3, <2>3
  <2>5. k - 1 \in 0 .. FdCount /\ ~(k <= k - 1)
    BY <2>3, <2>4, Constants
  <2>6. Sound(f[k - 1])
    BY <2>2, <2>5
  <2>7. k \in Handle /\ f[k] = Unmounting(f[k - 1], k, full)
    BY <1>3, <2>3, <2>4, Constants DEF Handle
  <2> QED
    BY <2>3, <2>6, <2>7, UnmountingKeeps DEF Preserves
<1>5. FdCount \in 0 .. FdCount
  BY Constants
<1>6. Sound(f[FdCount])
  BY <1>4, <1>5
<1>7. f[FdCount].disk \in [ObjId -> FileRec \cup {NoFile}]
  BY <1>6, Fields DEF Sound
<1> QED
  BY <1>1, <1>7, Mounting DEF Keeps

LEMMA PowerLossStep ==
    ASSUME Sound(fs), PowerLoss
    PROVE  Keeps(fs, fs')
<1>1. fs.disk \in [ObjId -> FileRec \cup {NoFile}]
  BY Fields DEF Sound
<1> QED
  BY <1>1, Mounting DEF PowerLoss, Keeps

----------------------------------------------------------------------------
(* The theorems.                                                           *)

LEMMA FirstState ==
    ASSUME Init
    PROVE  Sound(fs) /\ Paged(fs) /\ Informed(fs)
<1> DEFINE d == [o \in ObjId |-> NoFile]
<1>1. d \in [ObjId -> FileRec \cup {NoFile}]
  OBVIOUS
<1>2. fs = Mounted(d)
  BY DEF Init
<1> HIDE DEF d
<1> QED
  BY <1>1, <1>2, Mounting

LEMMA EveryStep ==
    ASSUME Sound(fs), [Next]_vars
    PROVE  Keeps(fs, fs')
<1>1. CASE UNCHANGED vars
  BY <1>1 DEF vars, Keeps
<1>2. ASSUME NEW full \in Refusals, NEW o \in ObjId, NEW n \in Name, Creat(o, n, full)
      PROVE  Keeps(fs, fs')
  BY <1>2, CreatStep
<1>3. ASSUME NEW full \in Refusals, NEW h \in Handle,
             \/ \E n \in Name, flags \in Flags :
                   Open(h, n, flags, full) \/ OpenFails(h, n, flags, full)
             \/ \E o \in ObjId, flags \in Flags : OpenByDirent(h, o, flags, full)
             \/ \E n \in Lengths : Read(h, n, full)
             \/ \E p \in 0 .. MaxSize : Seek(h, p, full)
             \/ Fflush(h, full) \/ Close(h, full)
             \/ \E b \in Data : Write(h, b, full)
      PROVE  Keeps(fs, fs')
  <2>1. ASSUME NEW n \in Name, NEW flags \in Flags, Open(h, n, flags, full)
        PROVE  Keeps(fs, fs')
    BY <2>1, OpenStep
  <2>2. ASSUME NEW n \in Name, NEW flags \in Flags, OpenFails(h, n, flags, full)
        PROVE  Keeps(fs, fs')
    BY <2>2, OpenFailsStep
  <2>3. ASSUME NEW o \in ObjId, NEW flags \in Flags, OpenByDirent(h, o, flags, full)
        PROVE  Keeps(fs, fs')
    BY <2>3, OpenByDirentStep
  <2>4. ASSUME NEW n \in Lengths, Read(h, n, full)
        PROVE  Keeps(fs, fs')
    BY <2>4, ReadStep
  <2>5. ASSUME NEW p \in 0 .. MaxSize, Seek(h, p, full)
        PROVE  Keeps(fs, fs')
    <3>1. p \in Nat
      BY Constants
    <3> QED
      BY <2>5, <3>1, SeekStep
  <2>6. ASSUME NEW b \in Data, Write(h, b, full)
        PROVE  Keeps(fs, fs')
    BY <2>6, WriteStep
  <2>7. CASE Fflush(h, full)
    BY <2>7, FflushStep
  <2>8. CASE Close(h, full)
    BY <2>8, CloseStep
  <2> QED
    BY <1>3, <2>1, <2>2, <2>3, <2>4, <2>5, <2>6, <2>7, <2>8
<1>4. ASSUME NEW full \in Refusals, Remount(full)
      PROVE  Keeps(fs, fs')
  BY <1>4, RemountStep
<1>5. ASSUME NEW h \in Handle, NEW n \in Name,
             \/ \E o \in ObjId, flags \in Flags : OpenNew(h, n, o, flags)
             \/ Remove(n, h)
             \/ \E new \in Name : Rename(n, new, h)
      PROVE  Keeps(fs, fs')
  BY <1>5, OpenNewStep, RemoveStep, RenameStep
<1>6. ASSUME NEW h \in Handle, Fremove(h)
      PROVE  Keeps(fs, fs')
  BY <1>6, FremoveStep
<1>7. ASSUME NEW o \in ObjId, CollectGarbage(o)
      PROVE  Keeps(fs, fs')
  BY <1>7, CollectGarbageStep
<1>8. CASE PowerLoss
  BY <1>8, PowerLossStep
<1> QED
  BY <1>1, <1>2, <1>3, <1>4, <1>5, <1>6, <1>7, <1>8 DEF Next

\* Whatever is called, in whatever order, with whatever flags: an open
\* descriptor is on an object that exists, and every field has its type.
THEOREM DescriptorsSound == Spec => []Sound(fs)
<1>1. Init => Sound(fs)
  BY FirstState
<1>2. Sound(fs) /\ [Next]_vars => Sound(fs)'
  <2> SUFFICES ASSUME Sound(fs), [Next]_vars PROVE Sound(fs')
    BY DEF Sound, State, Exists
  <2> QED
    BY EveryStep DEF Keeps
<1> QED
  BY <1>1, <1>2, PTL DEF Spec

\* The page predicates are inductive when no file is opened with
\* SPIFFS_O_DIRECT.
LEMMA PagedAlways ==
    ASSUME \A F \in Flags : "DIRECT" \notin F
    PROVE  Spec => [](Sound(fs) /\ Paged(fs))
<1>1. Init => Sound(fs) /\ Paged(fs)
  BY FirstState
<1>2. (Sound(fs) /\ Paged(fs)) /\ [Next]_vars => (Sound(fs) /\ Paged(fs))'
  <2> SUFFICES ASSUME Sound(fs), Paged(fs), [Next]_vars PROVE Sound(fs') /\ Paged(fs')
    BY DEF Sound, State, Exists, Paged, Buffered, Clean, Pointing, Owned, OnePage
  <2> QED
    BY EveryStep DEF Keeps, NeverDirect
<1> QED
  BY <1>1, <1>2, PTL DEF Spec

\* No two cache pages hold writes of one object: spiffs_hydro_write's
\* callers look for the object's page before they allocate one, however many
\* descriptors share the object, and every page is given up when it is
\* written back, also when that fails.
THEOREM OnlyOneWritePage ==
    ASSUME \A F \in Flags : "DIRECT" \notin F
    PROVE  Spec => []OneWritePage
<1>1. Sound(fs) /\ Paged(fs) => OneWritePage
  <2> SUFFICES ASSUME Paged(fs), NEW o \in ObjId
               PROVE  Cardinality(PagesFor(fs, o)) <= 1
    BY DEF OneWritePage
  <2>1. CASE PagesFor(fs, o) = {}
    <3>1. Cardinality({}) = 0
      BY FS_EmptySet
    <3> QED
      BY <2>1, <3>1
  <2>2. CASE PagesFor(fs, o) # {}
    <3>1. PICK c \in PagesFor(fs, o) : TRUE
      BY <2>2
    <3>2. PagesFor(fs, o) = {c}
      BY <3>1 DEF PagesFor, Paged, OnePage
    <3>3. Cardinality({c}) = 1
      BY FS_Singleton
    <3> QED
      BY <3>2, <3>3
  <2> QED
    BY <2>1, <2>2
<1> QED
  BY <1>1, PagedAlways, PTL

\* The pointer of a descriptor is to a write page of its own object: a page
\* that is given up is forgotten by every descriptor that shared it.
THEOREM PointersAreSound ==
    ASSUME \A F \in Flags : "DIRECT" \notin F
    PROVE  Spec => []PagePointers
<1>1. Sound(fs) /\ Paged(fs) => PagePointers
  <2> SUFFICES ASSUME Sound(fs), Paged(fs), NEW h \in Handle, fs.fd[h].cp # NoPage
               PROVE  fs.fd[h].cp \in PagesFor(fs, fs.fd[h].obj)
    BY DEF PagePointers
  <2>1. fs.fd[h].cp \in CachePage
    BY Fields DEF Sound, FdRec
  <2> QED
    BY <2>1 DEF Paged, Pointing, PagesFor
<1> QED
  BY <1>1, PagedAlways, PTL

\* Writes that wait in the cache are of a file that exists, and a descriptor
\* that flushes them when it is closed is open: no write is left behind by
\* the closing, removing, truncating or failing of any of the descriptors.
THEOREM PendingIsOwned ==
    ASSUME \A F \in Flags : "DIRECT" \notin F
    PROVE  Spec => []PendingHasOwner
<1>1. Sound(fs) /\ Paged(fs) => PendingHasOwner
  <2> SUFFICES ASSUME Sound(fs), Paged(fs), NEW c \in CachePage, fs.cache[c].wr
               PROVE  /\ Live(fs.cache[c].obj)
                      /\ \E h \in OpenOn(fs.cache[c].obj) : "DIRECT" \notin fs.fd[h].flags
    BY DEF PendingHasOwner
  <2>1. PICK h \in Handle : fs.fd[h].open /\ fs.fd[h].cp = c
    BY DEF Paged, Owned
  <2>2. c # NoPage
    BY Constants
  <2>3. fs.cache[c].obj = fs.fd[h].obj
    BY <2>1, <2>2 DEF Paged, Pointing
  <2>4. Live(fs.fd[h].obj)
    BY <2>1 DEF Sound, Exists, Live
  <2>5. "DIRECT" \notin fs.fd[h].flags
    BY <2>1 DEF Paged, Buffered
  <2> QED
    BY <2>1, <2>3, <2>4, <2>5 DEF OpenOn
<1> QED
  BY <1>1, PagedAlways, PTL

\* What a descriptor remembers of its object's header is what is there,
\* whoever wrote, truncated, renamed or moved it: the events of
\* spiffs_cb_object_event reach every open descriptor, if no slot is opened
\* by directory entry before a name was looked up in it.
THEOREM DescriptorsKnow ==
    ASSUME "fresh" \notin Habits
    PROVE  Spec => []DescriptorsCoherent
<1>1. Init => Sound(fs) /\ Informed(fs)
  BY FirstState
<1>2. (Sound(fs) /\ Informed(fs)) /\ [Next]_vars => (Sound(fs) /\ Informed(fs))'
  <2> SUFFICES ASSUME Sound(fs), Informed(fs), [Next]_vars PROVE Sound(fs') /\ Informed(fs')
    BY DEF Sound, State, Exists, Informed, Knows, Coherent
  <2> QED
    BY EveryStep DEF Keeps, NeverFresh
<1>3. Sound(fs) /\ Informed(fs) => DescriptorsCoherent
  BY DEF Sound, Exists, Informed, Knows, DescriptorsCoherent, Live
<1> QED
  BY <1>1, <1>2, <1>3, PTL DEF Spec

----------------------------------------------------------------------------
(***************************************************************************)
(* The file interface implements FileStore, for every number of            *)
(* descriptors, cache pages, objects and names and for every page size.    *)
(*                                                                         *)
(* What a program sees of an object is what it would hold if its write     *)
(* page were written back (View).  The proof follows the view through the  *)
(* operators a call is a chain of: writing back stores the view, storing   *)
(* in a page moves the view and leaves the flash, events and other objects *)
(* leave the view alone.                                                   *)
(***************************************************************************)

----------------------------------------------------------------------------
(* Putting bytes into bytes.                                               *)

\* What Splice gives, byte by byte.
LEMMA SpliceBytes ==
    ASSUME NEW d \in Seq(Symbol), NEW p \in Nat, NEW b \in Seq(Symbol)
    PROVE  /\ Splice(d, p, b) \in Seq(Symbol)
           /\ Len(Splice(d, p, b)) = MaxOf(Len(d), p + Len(b))
           /\ \A i \in 1 .. MaxOf(Len(d), p + Len(b)) :
                 Splice(d, p, b)[i] =
                    IF p < i /\ i <= p + Len(b) THEN b[i - p]
                    ELSE IF i <= Len(d) THEN d[i] ELSE Hole
<1>1. Splice(d, p, b) \in Seq(Symbol) /\ Len(Splice(d, p, b)) = MaxOf(Len(d), p + Len(b))
  BY Splicing
<1> QED
  BY <1>1 DEF Splice

\* Bytes that are put at an offset within what is there, or at its end.
LEMMA SpliceWithin ==
    ASSUME NEW d \in Seq(Symbol), NEW p \in Nat, p <= Len(d), NEW b \in Seq(Symbol)
    PROVE  LET s == Splice(d, p, b)
           IN  /\ s \in Seq(Symbol) /\ Len(s) \in Nat
               /\ Len(s) = IF p + Len(b) > Len(d) THEN p + Len(b) ELSE Len(d)
               /\ \A i \in 1 .. Len(s) :
                     /\ p < i /\ i <= p + Len(b) => s[i] = b[i - p]
                     /\ ~(p < i /\ i <= p + Len(b)) => i <= Len(d) /\ s[i] = d[i]
<1> DEFINE s == Splice(d, p, b)
<1>1. Len(d) \in Nat /\ Len(b) \in Nat
  OBVIOUS
<1>2. /\ s \in Seq(Symbol) /\ Len(s) = MaxOf(Len(d), p + Len(b))
      /\ \A i \in 1 .. MaxOf(Len(d), p + Len(b)) :
            s[i] = IF p < i /\ i <= p + Len(b) THEN b[i - p]
                   ELSE IF i <= Len(d) THEN d[i] ELSE Hole
  BY SpliceBytes
<1>3. Len(s) = IF p + Len(b) > Len(d) THEN p + Len(b) ELSE Len(d)
  BY <1>1, <1>2 DEF MaxOf
<1> HIDE DEF s
<1>4. ASSUME NEW i \in 1 .. Len(s), ~(p < i /\ i <= p + Len(b))
      PROVE  i <= Len(d)
  BY <1>1, <1>3, <1>4
<1>5. \A i \in 1 .. Len(s) :
         s[i] = IF p < i /\ i <= p + Len(b) THEN b[i - p]
                ELSE IF i <= Len(d) THEN d[i] ELSE Hole
  BY <1>2
<1>6. \A i \in 1 .. Len(s) :
         /\ p < i /\ i <= p + Len(b) => s[i] = b[i - p]
         /\ ~(p < i /\ i <= p + Len(b)) => i <= Len(d) /\ s[i] = d[i]
  BY <1>4, <1>5
<1>7. Len(s) \in Nat
  BY <1>2
<1> QED
  BY <1>2, <1>3, <1>6, <1>7 DEF s

LEMMA SpliceNothing ==
    ASSUME NEW d \in Seq(Symbol), NEW p \in Nat, p <= Len(d)
    PROVE  Splice(d, p, <<>>) = d
<1>1. ASSUME NEW e \in Seq(Symbol), Len(e) = 0 PROVE Splice(d, p, e) = d
  <2> DEFINE s == Splice(d, p, e)
  <2>1. Len(d) \in Nat
    OBVIOUS
  <2>2. /\ s \in Seq(Symbol)
        /\ Len(s) = IF p + Len(e) > Len(d) THEN p + Len(e) ELSE Len(d)
        /\ \A i \in 1 .. Len(s) :
              /\ p < i /\ i <= p + Len(e) => s[i] = e[i - p]
              /\ ~(p < i /\ i <= p + Len(e)) => i <= Len(d) /\ s[i] = d[i]
    BY SpliceWithin
  <2> HIDE DEF s
  <2>3. Len(s) = Len(d)
    BY <1>1, <2>1, <2>2
  <2>4. \A i \in 1 .. Len(s) : s[i] = d[i]
    BY <1>1, <2>1, <2>2
  <2>5. s = d
    BY <2>2, <2>3, <2>4, SeqEqual
  <2> QED
    BY <2>5 DEF s
<1>2. <<>> \in Seq(Symbol) /\ Len(<<>>) = 0
  OBVIOUS
<1> QED
  BY <1>1, <1>2

\* Writing into bytes that are then written is writing them, then again.
LEMMA SpliceTwice ==
    ASSUME NEW d \in Seq(Symbol), NEW p \in Nat, p <= Len(d),
           NEW e \in Seq(Symbol), NEW q \in Nat, q <= Len(e), NEW b \in Seq(Symbol)
    PROVE  Splice(d, p, Splice(e, q, b)) = Splice(Splice(d, p, e), p + q, b)
<1> DEFINE x == Splice(e, q, b)
           y == Splice(d, p, e)
           s == Splice(d, p, x)
           t == Splice(y, p + q, b)
<1>1. Len(d) \in Nat /\ Len(e) \in Nat /\ Len(b) \in Nat /\ p + q \in Nat
  OBVIOUS
<1>2. /\ x \in Seq(Symbol) /\ Len(x) \in Nat
      /\ Len(x) = IF q + Len(b) > Len(e) THEN q + Len(b) ELSE Len(e)
      /\ \A i \in 1 .. Len(x) :
            /\ q < i /\ i <= q + Len(b) => x[i] = b[i - q]
            /\ ~(q < i /\ i <= q + Len(b)) => i <= Len(e) /\ x[i] = e[i]
  BY SpliceWithin
<1>3. /\ y \in Seq(Symbol) /\ Len(y) \in Nat
      /\ Len(y) = IF p + Len(e) > Len(d) THEN p + Len(e) ELSE Len(d)
      /\ \A i \in 1 .. Len(y) :
            /\ p < i /\ i <= p + Len(e) => y[i] = e[i - p]
            /\ ~(p < i /\ i <= p + Len(e)) => i <= Len(d) /\ y[i] = d[i]
  BY SpliceWithin
<1> HIDE DEF x, y
<1>4. p + q <= Len(y)
  BY <1>1, <1>3
<1>5. /\ s \in Seq(Symbol) /\ Len(s) \in Nat
      /\ Len(s) = IF p + Len(x) > Len(d) THEN p + Len(x) ELSE Len(d)
      /\ \A i \in 1 .. Len(s) :
            /\ p < i /\ i <= p + Len(x) => s[i] = x[i - p]
            /\ ~(p < i /\ i <= p + Len(x)) => i <= Len(d) /\ s[i] = d[i]
  BY <1>2, SpliceWithin
<1>6. /\ t \in Seq(Symbol) /\ Len(t) \in Nat
      /\ Len(t) = IF (p + q) + Len(b) > Len(y) THEN (p + q) + Len(b) ELSE Len(y)
      /\ \A i \in 1 .. Len(t) :
            /\ p + q < i /\ i <= (p + q) + Len(b) => t[i] = b[i - (p + q)]
            /\ ~(p + q < i /\ i <= (p + q) + Len(b)) => i <= Len(y) /\ t[i] = y[i]
  BY <1>1, <1>3, <1>4, SpliceWithin, SMTT(30)
<1> HIDE DEF s, t
<1>7. Len(s) = Len(t)
  <2>1. /\ Len(x) = IF q + Len(b) > Len(e) THEN q + Len(b) ELSE Len(e)
        /\ Len(y) = IF p + Len(e) > Len(d) THEN p + Len(e) ELSE Len(d)
    BY <1>2, <1>3
  <2>2. /\ Len(s) = IF p + Len(x) > Len(d) THEN p + Len(x) ELSE Len(d)
        /\ Len(t) = IF (p + q) + Len(b) > Len(y) THEN (p + q) + Len(b) ELSE Len(y)
    BY <1>5, <1>6
  <2> QED
    BY <1>1, <2>1, <2>2
<1>8. ASSUME NEW i \in 1 .. Len(s) PROVE s[i] = t[i]
  <2>1. i \in 1 .. Len(t) /\ i \in Nat
    BY <1>5, <1>7
  <2>2. CASE p + q < i /\ i <= (p + q) + Len(b)
    <3>1. i - p \in 1 .. Len(x) /\ p < i /\ i <= p + Len(x)
      <4>1. Len(x) \in Nat /\ Len(x) = IF q + Len(b) > Len(e) THEN q + Len(b) ELSE Len(e)
        BY <1>2
      <4>2. i \in Nat
        BY <2>1
      <4> QED
        BY <1>1, <2>2, <4>1, <4>2
    <3>2. q < i - p /\ i - p <= q + Len(b) /\ (i - p) - q = i - (p + q)
      BY <1>1, <2>1, <2>2
    <3> DEFINE k == i - p
    <3>3. k \in 1 .. Len(x) /\ q < k /\ k <= q + Len(b) /\ k - q = i - (p + q)
      BY <3>1, <3>2
    <3> HIDE DEF k
    <3>4. x[k] = b[k - q]
      BY <1>2, <3>3
    <3>5. x[i - p] = b[i - (p + q)]
      BY <3>3, <3>4 DEF k
    <3> QED
      BY <1>5, <1>6, <2>1, <2>2, <3>1, <3>5
  <2>3. CASE ~(p + q < i /\ i <= (p + q) + Len(b)) /\ p < i /\ i <= p + Len(x)
    <3>1. i - p \in 1 .. Len(x)
      BY <1>1, <1>2, <2>1, <2>3
    <3>2. ~(q < i - p /\ i - p <= q + Len(b))
      BY <1>1, <2>1, <2>3
    <3>3. i - p <= Len(e) /\ x[i - p] = e[i - p]
      BY <1>2, <3>1, <3>2
    <3>4. i \in 1 .. Len(y) /\ i <= p + Len(e)
      BY <1>1, <1>3, <2>1, <2>3, <3>3
    <3> QED
      BY <1>3, <1>5, <1>6, <2>1, <2>3, <3>3, <3>4
  <2>4. CASE ~(p + q < i /\ i <= (p + q) + Len(b)) /\ ~(p < i /\ i <= p + Len(x))
    <3>1. i <= Len(d) /\ s[i] = d[i]
      BY <1>5, <2>4
    <3>2. Len(e) <= Len(x) /\ Len(d) <= Len(y)
      BY <1>1, <1>2, <1>3
    <3>3. ~(p < i /\ i <= p + Len(e))
      BY <1>1, <1>2, <2>1, <2>4, <3>2
    <3>4. i \in 1 .. Len(y)
      BY <1>1, <1>3, <2>1, <3>1, <3>2
    <3> QED
      <4>1. y[i] = d[i]
        BY <1>3, <3>3, <3>4
      <4>2. t[i] = y[i]
        BY <1>6, <2>1, <2>4
      <4> QED
        BY <3>1, <4>1, <4>2
  <2> QED
    BY <2>2, <2>3, <2>4
<1>9. s = t
  BY <1>5, <1>6, <1>7, <1>8, SeqEqual
<1> QED
  BY <1>9 DEF s, t, x, y

\* Bytes may be put in two parts, one behind the other.
LEMMA SpliceInParts ==
    ASSUME NEW d \in Seq(Symbol), NEW p \in Nat, p <= Len(d),
           NEW b \in Seq(Symbol), NEW m \in 0 .. Len(b)
    PROVE  Splice(Splice(d, p, SubSeq(b, 1, m)), p + m, SubSeq(b, m + 1, Len(b)))
             = Splice(d, p, b)
<1> DEFINE b1 == SubSeq(b, 1, m)
           b2 == SubSeq(b, m + 1, Len(b))
<1>1. Len(b) \in Nat /\ m \in Nat /\ m <= Len(b)
  OBVIOUS
<1>2. /\ b1 \in Seq(Symbol) /\ Len(b1) = m
      /\ \A i \in 1 .. m : b1[i] = b[i]
  BY <1>1
<1>3. /\ b2 \in Seq(Symbol) /\ Len(b2) = Len(b) - m
      /\ \A i \in 1 .. Len(b) - m : b2[i] = b[i + m]
  <2> DEFINE j == m + 1
             n == Len(b)
  <2>1. j \in Int /\ n \in Int /\ \A i \in j .. n : b[i] \in Symbol
    BY <1>1
  <2>2. /\ SubSeq(b, j, n) \in Seq(Symbol)
        /\ Len(SubSeq(b, j, n)) = IF j <= n THEN n - j + 1 ELSE 0
        /\ \A i \in 1 .. n - j + 1 : SubSeq(b, j, n)[i] = b[j + i - 1]
    BY <2>1, SubSeqProperties
  <2>3. Len(b2) = Len(b) - m /\ n - j + 1 = Len(b) - m
    BY <1>1, <2>2
  <2>4. \A i \in 1 .. Len(b) - m : j + i - 1 = i + m
    BY <1>1
  <2> QED
    BY <2>2, <2>3, <2>4
<1> HIDE DEF b1, b2
<1>4. b1 \in Seq(Symbol) /\ b2 \in Seq(Symbol) /\ m \in Nat /\ m <= Len(b1)
  BY <1>1, <1>2, <1>3
<1>5. Splice(d, p, Splice(b1, m, b2)) = Splice(Splice(d, p, b1), p + m, b2)
  BY <1>4, SpliceTwice
<1>6. Splice(b1, m, b2) = b
  <2> DEFINE x == Splice(b1, m, b2)
  <2>1. /\ x \in Seq(Symbol)
        /\ Len(x) = IF m + Len(b2) > Len(b1) THEN m + Len(b2) ELSE Len(b1)
        /\ \A i \in 1 .. Len(x) :
              /\ m < i /\ i <= m + Len(b2) => x[i] = b2[i - m]
              /\ ~(m < i /\ i <= m + Len(b2)) => i <= Len(b1) /\ x[i] = b1[i]
    BY <1>4, SpliceWithin
  <2> HIDE DEF x
  <2>2. Len(x) = Len(b)
    BY <1>1, <1>2, <1>3, <2>1
  <2>3. ASSUME NEW i \in 1 .. Len(x) PROVE x[i] = b[i]
    <3>1. i \in Nat /\ 1 <= i /\ i <= Len(b)
      BY <1>1, <2>2
    <3>2. CASE m < i
      <4>1. i - m \in 1 .. Len(b) - m /\ (i - m) + m = i
        BY <1>1, <3>1, <3>2
      <4>2. b2[i - m] = b[i]
        BY <1>3, <4>1
      <4>3. i <= m + Len(b2)
        BY <1>1, <1>3, <3>1
      <4> QED
        BY <2>1, <3>2, <4>2, <4>3
    <3>3. CASE ~(m < i)
      <4>1. i \in 1 .. m
        BY <1>1, <3>1, <3>3
      <4> QED
        BY <1>2, <2>1, <3>3, <4>1
    <3> QED
      BY <3>2, <3>3
  <2>4. x = b
    BY <2>1, <2>2, <2>3, SeqEqual
  <2> QED
    BY <2>4 DEF x
<1>7. Splice(Splice(d, p, b1), p + m, b2) = Splice(d, p, b)
  BY <1>5, <1>6
<1> QED
  BY <1>7 DEF b1, b2

----------------------------------------------------------------------------
(* What a program sees.                                                    *)

\* The object as it would be if its write page were written back (Seen, of
\* any state).
View(s, o) ==
    IF s.disk[o] = NoFile \/ PagesFor(s, o) = {} THEN s.disk[o]
    ELSE LET page == s.cache[CachePageOf(s, o)]
         IN  [s.disk[o] EXCEPT !.data =
                Splice(@, MinOf(page.offset, Len(@)), page.data)]

\* As far as a position may be: the size, or the end of the write page.
Reach(s, h, n) ==
    IF s.fd[h].cp = NoPage THEN n ELSE MaxOf(n, End(s.cache[s.fd[h].cp]))

Appends(s, h) == "APPEND" \in s.fd[h].flags

\* No position on o is beyond n and the write page.
Room(s, o, n) ==
    \A h \in Handle : s.fd[h].open /\ s.fd[h].obj = o /\ ~Appends(s, h) =>
        s.fd[h].fdoffset <= Reach(s, h, n)

Placed(s) == \A o \in ObjId : Exists(s, o) => Room(s, o, Len(s.disk[o].data))

\* A write page starts within its object, or at its end.
Based(s) ==
    \A c \in CachePage : s.cache[c].wr =>
        /\ s.cache[c].offset <= Len(s.disk[s.cache[c].obj].data)
        /\ End(s.cache[c]) <= MaxSize

Bounded(s) == \A o \in ObjId : Exists(s, o) => Len(s.disk[o].data) <= MaxSize

Healthy(s) ==
    /\ Sound(s) /\ Paged(s) /\ Informed(s)
    /\ Bounded(s) /\ Based(s) /\ Placed(s) /\ s.res = "OK"

\* The same descriptors are open, and where they were.
Stays(s, t) ==
    \A h \in Handle :
        /\ t.fd[h].open = s.fd[h].open /\ t.fd[h].obj = s.fd[h].obj
        /\ t.fd[h].flags = s.fd[h].flags
        /\ s.fd[h].open /\ ~Appends(s, h) => t.fd[h].fdoffset = s.fd[h].fdoffset

\* The bytes of o are d on the flash; the cache is as it was.
Stored(s, t, o, d) ==
    /\ Preserves(s, t) /\ Stays(s, t) /\ t.res = s.res /\ t.cache = s.cache
    /\ t.disk[o] = [s.disk[o] EXCEPT !.data = d]
    /\ \A x \in ObjId \ {o} : t.disk[x] = s.disk[x]
    /\ \A h \in Handle : t.fd[h].cp = s.fd[h].cp

----------------------------------------------------------------------------
(* Events.                                                                 *)

\* What an event of size size leaves of a descriptor.
EventOffset(s, h, o, size) ==
    LET f == s.fd[h]
    IN  IF f.obj = o /\ f.scored /\ size # 0
        THEN MinOf(f.fdoffset, IF size = Undefined THEN 0 ELSE Reach(s, h, size))
        ELSE f.fdoffset

Quiet(s, t, o, size) ==
    /\ t.cache = s.cache /\ t.disk = s.disk /\ t.res = s.res
    /\ \A h \in Handle : t.fd[h].cp = s.fd[h].cp
                         /\ t.fd[h].fdoffset = EventOffset(s, h, o, size)

LEMMA ReleaseNothing ==
    ASSUME NEW s \in State
    PROVE  LET t == Release(s, {})
           IN  /\ t.cache = s.cache /\ t.disk = s.disk /\ t.res = s.res
               /\ \A h \in Handle : t.fd[h].cp = s.fd[h].cp
                                    /\ t.fd[h].fdoffset = s.fd[h].fdoffset
<1> DEFINE t == Release(s, {})
<1>1. Freed(s, t, {})
  BY Releasing
<1> HIDE DEF t
<1>2. t \in State /\ t.disk = s.disk /\ t.res = s.res
  BY <1>1 DEF Freed
<1>3. \A c \in CachePage : t.cache[c] = s.cache[c]
  BY <1>1 DEF Freed
<1>4. t.cache = s.cache
  BY <1>2, <1>3, Fields
<1>5. \A h \in Handle : t.fd[h].cp = s.fd[h].cp /\ t.fd[h].fdoffset = s.fd[h].fdoffset
  BY <1>1 DEF Freed
<1> QED
  BY <1>2, <1>4, <1>5 DEF t

\* An event that tells no empty object, or meets no cache page, gives up no
\* page and moves no offset that is within the size or the page.
LEMMA EventQuiet ==
    ASSUME NEW s, Sound(s), NEW o \in ObjId, NEW size \in Nat,
           size = Undefined => \A h \in Handle : s.fd[h].obj = o => s.fd[h].cp = NoPage,
           NEW moved \in BOOLEAN, NEW actor
    PROVE  Quiet(s, HeaderEvent(s, o, size, moved, actor), o, size)
<1> DEFINE act(f)  == IF size = Undefined THEN 0
                      ELSE IF f.cp = NoPage THEN size
                      ELSE MaxOf(size, End(s.cache[f.cp]))
           new(f)  == IF size = 0 THEN [f EXCEPT !.current = TRUE]
                      ELSE [f EXCEPT !.current = TRUE, !.size = size,
                                     !.fdoffset = MinOf(@, act(f))]
           keep(h) == ~moved \/ h = actor
           slot(h) == LET f == s.fd[h]
                      IN  IF f.obj # o THEN f
                          ELSE IF f.scored THEN new(f)
                          ELSE [f EXCEPT !.current = @ /\ keep(h)]
           stale   == {f \in {s.fd[h] : h \in Handle} :
                         /\ f.obj = o /\ f.scored /\ f.cp # NoPage
                         /\ size = Undefined
                         /\ s.cache[f.cp].offset > 1}
           slots   == [h \in Handle |-> slot(h)]
           u       == [s EXCEPT !.fd = slots]
           C       == {f.cp : f \in stale}
           t       == HeaderEvent(s, o, size, moved, actor)
<1>1. s \in State
  BY DEF Sound
<1>2. C = {}
  OBVIOUS
<1>3. t = Release(u, C)
  BY DEF HeaderEvent
<1> HIDE DEF C, stale, keep
<1>4. ASSUME NEW h \in Handle
      PROVE  /\ slot(h) \in FdRec /\ slot(h).cp = s.fd[h].cp
             /\ slot(h).fdoffset = EventOffset(s, h, o, size)
  <2> DEFINE f == s.fd[h]
             k == keep(h)
             m == act(f)
             x == MinOf(f.fdoffset, m)
  <2>1. f \in FdRec /\ k \in BOOLEAN
    BY <1>1, Fields DEF keep
  <2>2. m \in Nat
    <3>1. CASE f.cp = NoPage
      BY <3>1, Constants
    <3>2. CASE f.cp # NoPage
      <4>1. s.cache[f.cp] \in PageRec
        BY <1>1, <2>1, <3>2, Fields DEF FdRec
      <4>2. End(s.cache[f.cp]) \in Nat
        BY <4>1 DEF PageRec, End
      <4> HIDE DEF f
      <4> QED
        BY <4>2, Minimum
    <3> QED
      BY <3>1, <3>2
  <2>3. x \in Nat
    <3>1. f.fdoffset \in Nat
      BY <2>1 DEF FdRec
    <3> QED
      BY <2>2, <3>1, Minimum
  <2>4. EventOffset(s, h, o, size)
          = IF f.obj = o /\ f.scored /\ size # 0 THEN x ELSE f.fdoffset
    BY DEF EventOffset, Reach
  <2>5. slot(h) = IF f.obj # o THEN f
                  ELSE IF f.scored
                  THEN IF size = 0 THEN [f EXCEPT !.current = TRUE]
                       ELSE [f EXCEPT !.current = TRUE, !.size = size, !.fdoffset = x]
                  ELSE [f EXCEPT !.current = f.current /\ k]
    OBVIOUS
  <2> HIDE DEF f, k, m, x, slot
  <2>6. CASE f.obj # o
    BY <2>1, <2>4, <2>5, <2>6 DEF f
  <2>7. CASE f.obj = o /\ f.scored /\ size = 0
    <3>1. slot(h) = [f EXCEPT !.current = TRUE]
      BY <2>5, <2>7
    <3> QED
      BY <2>1, <2>4, <2>7, <3>1 DEF f, FdRec
  <2>8. CASE f.obj = o /\ f.scored /\ size # 0
    <3>1. slot(h) = [f EXCEPT !.current = TRUE, !.size = size, !.fdoffset = x]
      BY <2>5, <2>8
    <3> QED
      BY <2>1, <2>3, <2>4, <2>8, <3>1 DEF f, FdRec
  <2>9. CASE f.obj = o /\ ~f.scored
    <3> DEFINE b == f.current /\ k
    <3>1. slot(h) = [f EXCEPT !.current = b]
      BY <2>5, <2>9
    <3>2. b \in BOOLEAN
      OBVIOUS
    <3> HIDE DEF b
    <3> QED
      BY <2>1, <2>4, <2>9, <3>1, <3>2 DEF f, FdRec
  <2> QED
    BY <2>6, <2>7, <2>8, <2>9
<1> HIDE DEF slot
<1>5. slots \in [Handle -> FdRec]
  BY <1>4
<1>6. \A h \in Handle : slots[h] = slot(h)
  OBVIOUS
<1> HIDE DEF slots
<1>7. /\ u \in State /\ u.disk = s.disk /\ u.fd = slots
      /\ u.cache = s.cache /\ u.res = s.res
  BY <1>1, <1>5, SetFd
<1> HIDE DEF u
<1>8. /\ t.cache = u.cache /\ t.disk = u.disk /\ t.res = u.res
      /\ \A h \in Handle : t.fd[h].cp = u.fd[h].cp
                           /\ t.fd[h].fdoffset = u.fd[h].fdoffset
  BY <1>2, <1>3, <1>7, ReleaseNothing
<1> HIDE DEF t
<1>9. Quiet(s, t, o, size)
  BY <1>4, <1>6, <1>7, <1>8 DEF Quiet
<1> QED
  BY <1>9 DEF t

LEMMA EndIsNat == ASSUME NEW page \in PageRec PROVE End(page) \in Nat
<1>1. page.offset \in Nat /\ page.data \in Seq(Symbol)
  BY DEF PageRec
<1>2. Len(page.data) \in Nat
  BY <1>1
<1> QED
  BY <1>1, <1>2 DEF End

LEMMA ReachIsNat ==
    ASSUME NEW s \in State, NEW h \in Handle, NEW n \in Nat
    PROVE  Reach(s, h, n) \in Nat /\ n <= Reach(s, h, n)
<1>1. CASE s.fd[h].cp = NoPage
  BY <1>1 DEF Reach
<1>2. CASE s.fd[h].cp # NoPage
  <2> DEFINE page == s.cache[s.fd[h].cp]
             e    == End(page)
  <2>1. s.fd[h].cp \in CachePage
    BY <1>2, Fields DEF FdRec
  <2>2. page \in PageRec
    BY <2>1, Fields
  <2>3. e \in Nat
    BY <2>2, EndIsNat
  <2>4. Reach(s, h, n) = MaxOf(n, e)
    BY <1>2 DEF Reach
  <2> HIDE DEF e
  <2> QED
    BY <2>3, <2>4, Minimum
<1> QED
  BY <1>1, <1>2

LEMMA RoomGrows ==
    ASSUME NEW s, Sound(s), NEW o, NEW n \in Nat, NEW m \in Nat, n <= m, Room(s, o, n)
    PROVE  Room(s, o, m)
<1> SUFFICES ASSUME NEW h \in Handle, s.fd[h].open, s.fd[h].obj = o, ~Appends(s, h)
             PROVE  s.fd[h].fdoffset <= Reach(s, h, m)
  BY DEF Room
<1>1. s.fd[h].fdoffset <= Reach(s, h, n) /\ s.fd[h].fdoffset \in Nat /\ s \in State
  BY Fields DEF Room, Sound, FdRec
<1>2. Reach(s, h, n) \in Nat /\ Reach(s, h, m) \in Nat
  BY <1>1, ReachIsNat
<1>3. Reach(s, h, n) <= Reach(s, h, m)
  <2>1. CASE s.fd[h].cp = NoPage
    BY <2>1 DEF Reach
  <2>2. CASE s.fd[h].cp # NoPage
    <3> DEFINE page == s.cache[s.fd[h].cp]
               e    == End(page)
    <3>1. s.fd[h].cp \in CachePage
      BY <1>1, <2>2, Fields DEF FdRec
    <3>2. page \in PageRec
      BY <1>1, <3>1, Fields
    <3>3. e \in Nat
      BY <3>2, EndIsNat
    <3>4. Reach(s, h, n) = MaxOf(n, e) /\ Reach(s, h, m) = MaxOf(m, e)
      BY <2>2 DEF Reach
    <3> HIDE DEF e
    <3> QED
      BY <3>3, <3>4 DEF MaxOf
  <2> QED
    BY <2>1, <2>2
<1> HIDE DEF Reach
<1> QED
  BY <1>1, <1>2, <1>3

LEMMA MinimumIs ==
    ASSUME NEW a \in Nat, NEW b \in Nat, a <= b
    PROVE  MinOf(a, b) = a /\ MinOf(b, a) = a /\ MaxOf(a, b) = b /\ MaxOf(b, a) = b
BY DEF MinOf, MaxOf

----------------------------------------------------------------------------
(* Writing to the flash.                                                   *)

\* The bytes of o become d, and the event tells their number.
LEMMA RewritingStays ==
    ASSUME NEW s, Sound(s), NEW o, Exists(s, o), NEW d \in Seq(Symbol),
           Len(d) # 0, Len(d) <= MaxSize, Room(s, o, Len(d)),
           NEW moved \in BOOLEAN, NEW actor
    PROVE  Stored(s, HeaderEvent([s EXCEPT !.disk[o].data = d], o, Len(d), moved, actor), o, d)
<1> DEFINE x == [s.disk[o] EXCEPT !.data = d]
           u == [s EXCEPT !.disk[o].data = d]
           z == Len(d)
           t == HeaderEvent(u, o, z, moved, actor)
<1>1. s \in State /\ o \in ObjId /\ s.disk[o] \in FileRec
  BY Fields DEF Sound, Exists
<1>2. x \in FileRec
  BY <1>1 DEF FileRec
<1>3. u = [s EXCEPT !.disk[o] = x]
  OBVIOUS
<1>4. z \in Nat /\ z # 0 /\ z # Undefined /\ z = SizeOf(d)
  <2>1. d # <<>> /\ Len(d) \in Nat
    OBVIOUS
  <2>2. SizeOf(d) = Len(d)
    BY <2>1 DEF SizeOf
  <2> HIDE DEF Undefined
  <2> QED
    BY <2>1, <2>2, Constants
<1>5. Rewritten(s, t, o, d)
  BY <1>4, Rewriting
<1> HIDE DEF x, u, z
<1>6. x \in FileRec \cup {NoFile} /\ x # NoFile
  BY <1>2, Constants
<1>7. /\ u \in State /\ u.fd = s.fd /\ u.cache = s.cache /\ u.res = s.res
      /\ u.disk[o] = x /\ \A j \in ObjId \ {o} : u.disk[j] = s.disk[j]
  BY <1>1, <1>3, <1>6, SetFile
<1>8. Preserves(s, t) /\ Milder(s, t)
  BY <1>5 DEF Rewritten
<1>9. Sound(u)
  BY <1>6, <1>7 DEF Sound, Exists
<1>10. Quiet(u, t, o, z)
  BY <1>1, <1>4, <1>9, EventQuiet
<1> HIDE DEF t
<1>11. ASSUME NEW h \in Handle, s.fd[h].open, ~Appends(s, h)
       PROVE  t.fd[h].fdoffset = s.fd[h].fdoffset
  <2>1. t.fd[h].fdoffset = EventOffset(u, h, o, z)
    BY <1>10 DEF Quiet
  <2>2. CASE s.fd[h].obj # o
    BY <1>7, <2>1, <2>2 DEF EventOffset
  <2>3. CASE s.fd[h].obj = o
    <3> DEFINE a == s.fd[h].fdoffset
               r == Reach(s, h, z)
    <3>1. r = Reach(u, h, z)
      BY <1>7 DEF Reach
    <3>2. EventOffset(u, h, o, z) \in {MinOf(a, r), a}
      BY <1>7, <1>4, <3>1 DEF EventOffset
    <3>3. a <= r
      BY <1>11, <2>3 DEF Room, z
    <3>4. a \in Nat /\ r \in Nat
      BY <1>1, <1>4, ReachIsNat, Fields DEF FdRec
    <3> HIDE DEF a, r
    <3>5. MinOf(a, r) = a
      BY <3>3, <3>4, MinimumIs
    <3> QED
      BY <2>1, <3>2, <3>5 DEF a
  <2> QED
    BY <2>2, <2>3
<1>12. Stays(s, t)
  BY <1>8, <1>11 DEF Stays, Milder
<1>13. /\ t.cache = s.cache /\ t.res = s.res /\ t.disk = u.disk
       /\ \A h \in Handle : t.fd[h].cp = s.fd[h].cp
  BY <1>7, <1>10 DEF Quiet
<1>14. Stored(s, t, o, d)
  BY <1>7, <1>8, <1>12, <1>13 DEF Stored, x
<1> QED
  BY <1>14 DEF t, u, z

LEMMA StaysChain ==
    ASSUME NEW s, NEW t, NEW u, Stays(s, t), Stays(t, u)
    PROVE  Stays(s, u)
BY DEF Stays, Appends

LEMMA StoredTwice ==
    ASSUME NEW s, NEW t, NEW u, NEW o, NEW d, NEW e,
           Exists(s, o), Sound(s), Stored(s, t, o, d), Stored(t, u, o, e)
    PROVE  Stored(s, u, o, e)
<1>1. Preserves(s, u)
  BY PreservesChain DEF Stored
<1>2. Stays(s, u)
  BY StaysChain DEF Stored
<1>3. u.disk[o] = [s.disk[o] EXCEPT !.data = e]
  <2>1. s.disk[o] \in FileRec
    BY Fields DEF Sound, Exists
  <2>2. t.disk[o] = [s.disk[o] EXCEPT !.data = d] /\ u.disk[o] = [t.disk[o] EXCEPT !.data = e]
    BY DEF Stored
  <2> QED
    BY <2>1, <2>2 DEF FileRec
<1>4. /\ u.res = s.res /\ u.cache = s.cache
      /\ \A x \in ObjId \ {o} : u.disk[x] = s.disk[x]
      /\ \A h \in Handle : u.fd[h].cp = s.fd[h].cp
  BY DEF Stored
<1> QED
  BY <1>1, <1>2, <1>3, <1>4 DEF Stored

\* Storing moves no position, so there is the room there was.
LEMMA StoredRoom ==
    ASSUME NEW s, NEW t, NEW o, NEW d, Stored(s, t, o, d), NEW x, NEW n, Room(s, x, n)
    PROVE  Room(t, x, n)
<1> SUFFICES ASSUME NEW h \in Handle, t.fd[h].open, t.fd[h].obj = x, ~Appends(t, h)
             PROVE  t.fd[h].fdoffset <= Reach(t, h, n)
  BY DEF Room
<1>1. /\ s.fd[h].open /\ s.fd[h].obj = x /\ ~Appends(s, h)
      /\ t.fd[h].fdoffset = s.fd[h].fdoffset
  BY DEF Stored, Stays, Appends
<1>2. Reach(t, h, n) = Reach(s, h, n)
  BY DEF Stored, Reach
<1> QED
  BY <1>1, <1>2 DEF Room

\* The descriptor notes the size itself.
Settled(s, t) ==
    /\ Preserves(s, t) /\ Stays(s, t) /\ t.res = s.res /\ t.cache = s.cache
    /\ t.disk = s.disk /\ \A j \in Handle : t.fd[j].cp = s.fd[j].cp

LEMMA SettlingStays ==
    ASSUME NEW s, Sound(s), NEW h \in Handle, s.fd[h].open, NEW n \in Nat,
           \/ n = SizeOf(s.disk[s.fd[h].obj].data)
           \/ n = 0 /\ s.disk[s.fd[h].obj].data = <<>>
    PROVE  Settled(s, [s EXCEPT !.fd[h].size = n, !.fd[h].current = TRUE])
<1> DEFINE t == [s EXCEPT !.fd[h].size = n, !.fd[h].current = TRUE]
           g == [s.fd[h] EXCEPT !.size = n, !.current = TRUE]
<1>1. Milder(s, t) /\ Preserves(s, t) /\ t.res = s.res
  <2> HIDE DEF g
  <2> QED
    BY Settling
<1>2. s \in State /\ s.fd[h] \in FdRec
  BY Fields DEF Sound
<1>3. t = [s EXCEPT !.fd[h] = g]
  BY <1>2, Fields
<1>4. g \in FdRec /\ g.fdoffset = s.fd[h].fdoffset /\ g.cp = s.fd[h].cp
  BY <1>2 DEF FdRec
<1> HIDE DEF g, t
<1>5. /\ t.disk = s.disk /\ t.cache = s.cache
      /\ t.fd[h] = g /\ \A j \in Handle \ {h} : t.fd[j] = s.fd[j]
  BY <1>2, <1>3, <1>4, SetSlot
<1>6. \A j \in Handle : t.fd[j].cp = s.fd[j].cp /\ t.fd[j].fdoffset = s.fd[j].fdoffset
  BY <1>4, <1>5
<1>7. Stays(s, t)
  BY <1>1, <1>6 DEF Stays, Milder
<1> QED
  BY <1>1, <1>5, <1>6, <1>7 DEF Settled, t

\* Descriptor h may store b at p in its object o.
CanStore(s, h, o, p, b) ==
    /\ Sound(s) /\ Informed(s)
    /\ h \in Handle /\ s.fd[h].open /\ s.fd[h].obj = o
    /\ p \in Nat /\ b \in Seq(Symbol)
    /\ p <= Len(s.disk[o].data) /\ p + Len(b) <= MaxSize
    /\ Len(s.disk[o].data) <= MaxSize
    /\ Room(s, o, Len(s.disk[o].data))

\* What a descriptor that knows its object knows of its size.
LEMMA KnownSize ==
    ASSUME NEW s, NEW h, NEW o, NEW p, NEW b, CanStore(s, h, o, p, b)
    PROVE  /\ s \in State /\ Exists(s, o) /\ o \in ObjId /\ h \in Handle
           /\ Len(b) \in Nat /\ s.disk[o].data \in Seq(Symbol)
           /\ Len(s.disk[o].data) \in Nat /\ Coherent(s, h) /\ s.fd[h].current
           /\ s.fd[h].size \in Nat
           /\ s.disk[o].data # <<>> =>
                 /\ s.fd[h].size = Len(s.disk[o].data)
                 /\ s.fd[h].size # Undefined /\ Len(s.disk[o].data) # 0
           /\ s.disk[o].data = <<>> => s.fd[h].size \in {0, Undefined}
<1> DEFINE d == s.disk[o].data
           z == s.fd[h].size
<1>1. s \in State /\ Exists(s, o) /\ o \in ObjId /\ h \in Handle /\ b \in Seq(Symbol)
  BY DEF CanStore, Sound, Exists
<1>2. d \in Seq(Symbol) /\ z \in Nat
  BY <1>1, Fields DEF Exists, FileRec, FdRec
<1>3. Coherent(s, h) /\ s.fd[h].current
  BY DEF CanStore, Informed, Knows, Coherent
<1>4. z = SizeOf(d) \/ (z = 0 /\ d = <<>>)
  BY <1>3 DEF Coherent, CanStore
<1>5. Len(d) <= MaxSize
  BY DEF CanStore
<1> HIDE DEF d, z
<1>6. Len(d) \in Nat /\ (d # <<>> => Len(d) # 0)
  BY <1>2
<1>7. d # <<>> => z = Len(d) /\ z # Undefined
  <2> HIDE DEF Undefined
  <2> QED
    BY <1>4, <1>5, <1>6, Constants DEF SizeOf
<1>8. d = <<>> => z \in {0, Undefined}
  BY <1>4 DEF SizeOf
<1> QED
  BY <1>1, <1>2, <1>3, <1>6, <1>7, <1>8 DEF d, z

\* There is room for what is stored.
LEMMA RoomForSplice ==
    ASSUME NEW s, NEW h, NEW o, NEW p, NEW b, CanStore(s, h, o, p, b)
    PROVE  LET e == Splice(s.disk[o].data, p, b)
           IN  /\ e \in Seq(Symbol) /\ Len(e) <= MaxSize /\ Room(s, o, Len(e))
               /\ Len(s.disk[o].data) <= Len(e)
               /\ Len(b) # 0 => Len(e) # 0 /\ SizeOf(e) = Len(e)
               /\ p + Len(b) <= Len(s.disk[o].data) => Len(e) = Len(s.disk[o].data)
<1> DEFINE d == s.disk[o].data
           e == Splice(d, p, b)
<1>1. d \in Seq(Symbol) /\ Len(d) \in Nat
  BY KnownSize
<1>2. /\ p \in Nat /\ b \in Seq(Symbol) /\ p + Len(b) <= MaxSize /\ Len(d) <= MaxSize
      /\ Room(s, o, Len(d)) /\ Sound(s)
  BY DEF CanStore
<1>3. p + Len(b) \in Nat
  BY <1>2
<1> HIDE DEF d
<1>4. e \in Seq(Symbol) /\ Len(e) = MaxOf(Len(d), p + Len(b))
  BY <1>1, <1>2, Splicing
<1> HIDE DEF e
<1>5. Len(d) <= Len(e) /\ p + Len(b) <= Len(e) /\ Len(e) \in {Len(d), p + Len(b)}
  BY <1>1, <1>3, <1>4, Minimum
<1>6. Len(e) <= MaxSize /\ Len(e) \in Nat
  BY <1>1, <1>2, <1>3, <1>5
<1>7. Room(s, o, Len(e))
  BY <1>1, <1>2, <1>5, <1>6, RoomGrows
<1>8. p + Len(b) <= Len(d) => Len(e) = Len(d)
  BY <1>1, <1>3, <1>4 DEF MaxOf
<1>9. Len(b) # 0 => Len(e) # 0 /\ SizeOf(e) = Len(e)
  <2> SUFFICES ASSUME Len(b) # 0 PROVE Len(e) # 0 /\ SizeOf(e) = Len(e)
    OBVIOUS
  <2>1. Len(b) \in Nat
    BY <1>2
  <2>2. Len(e) # 0
    BY <1>2, <1>5, <1>6, <2>1
  <2>3. e # <<>>
    BY <2>2
  <2> QED
    BY <2>2, <2>3 DEF SizeOf
<1> QED
  BY <1>4, <1>5, <1>6, <1>7, <1>8, <1>9 DEF d, e

LEMMA ModifyStores ==
    ASSUME NEW s, NEW h, NEW o, NEW p, NEW b, CanStore(s, h, o, p, b),
           Len(b) # 0, p + Len(b) <= Len(s.disk[o].data)
    PROVE  Stored(s, ObjectModify(s, h, p, b, "never"), o, Splice(s.disk[o].data, p, b))
<1> DEFINE d == Splice(s.disk[o].data, p, b)
           u == [s EXCEPT !.disk[o].data = d]
<1>1. Sound(s) /\ s.fd[h].obj = o /\ p \in Nat
  BY DEF CanStore
<1>2. s \in State /\ o \in ObjId /\ Exists(s, o) /\ s.fd[h].current
  BY KnownSize
<1>3. d \in Seq(Symbol) /\ Len(d) <= MaxSize /\ Room(s, o, Len(d))
      /\ Len(d) # 0 /\ SizeOf(d) = Len(d)
  BY RoomForSplice
<1>4. ObjectModify(s, h, p, b, "never")
        = IF p < HdrBytes THEN HeaderEvent(u, o, SizeOf(u.disk[o].data), TRUE, h)
          ELSE u
  BY <1>1, <1>2 DEF ObjectModify
<1>10. Stored(s, u, o, d)
  <2>1. Len(d) = Len(s.disk[o].data) /\ Len(s.disk[o].data) # 0
    BY <1>3, RoomForSplice
  <2>2. d # <<>> /\ s.disk[o].data # <<>> /\ SizeOf(d) = SizeOf(s.disk[o].data)
    <3> DEFINE e == s.disk[o].data
    <3> HIDE DEF d, e
    <3>1. d # <<>> /\ e # <<>>
      BY <2>1 DEF e
    <3> QED
      BY <2>1, <3>1 DEF SizeOf, e
  <2> HIDE DEF d
  <2>3. Preserves(s, u)
    BY <1>1, <1>2, <1>3, <2>2, Overwriting DEF Rewritten
  <2>4. /\ u.fd = s.fd /\ u.cache = s.cache /\ u.res = s.res
        /\ u.disk[o] = [s.disk[o] EXCEPT !.data = d]
        /\ \A x \in ObjId \ {o} : u.disk[x] = s.disk[x]
    BY <1>2, Fields DEF Exists
  <2> HIDE DEF u
  <2>5. Stays(s, u)
    BY <2>4 DEF Stays
  <2> QED
    BY <2>3, <2>4, <2>5 DEF Stored
<1> HIDE DEF d
<1>5. u.disk[o].data = d
  <2>1. BytesSet(s, u, o, d)
    BY <1>2, <1>3, SetBytes
  <2> HIDE DEF u
  <2> QED
    BY <2>1 DEF BytesSet
<1>6. TRUE \in BOOLEAN
  OBVIOUS
<1>7. Stored(s, HeaderEvent([s EXCEPT !.disk[o].data = d], o, Len(d), TRUE, h), o, d)
  BY <1>1, <1>2, <1>3, <1>6, RewritingStays
<1> HIDE DEF u
<1>8. ObjectModify(s, h, p, b, "never") \in {HeaderEvent(u, o, Len(d), TRUE, h), u}
  BY <1>3, <1>4, <1>5
<1>9. Stored(s, HeaderEvent(u, o, Len(d), TRUE, h), o, d)
  BY <1>7 DEF u
<1> QED
  BY <1>8, <1>9, <1>10 DEF d

LEMMA AppendStores ==
    ASSUME NEW s, NEW h, NEW o, NEW p, NEW b, CanStore(s, h, o, p, b),
           Len(b) # 0, p = Len(s.disk[o].data)
    PROVE  Stored(s, ObjectAppend(s, h, p, b, "never"), o, Splice(s.disk[o].data, p, b))
<1> DEFINE f == s.fd[h]
           q == MinOf(p, f.size)
           d == Splice(s.disk[o].data, p, b)
           x == IF Coherent(s, h) THEN Splice(s.disk[o].data, q, b)
                ELSE [i \in 1 .. q + Len(b) |-> Garbage]
           m == q # 0
           z == Len(d)
           v == HeaderEvent([s EXCEPT !.disk[o].data = d], o, z, m, h)
           t == [v EXCEPT !.fd[h].size = z, !.fd[h].current = TRUE]
<1>1. Sound(s) /\ f.obj = o /\ p \in Nat /\ f.open /\ h \in Handle
  BY DEF CanStore
<1>2. /\ s \in State /\ o \in ObjId /\ Exists(s, o) /\ f.current /\ Coherent(s, h) /\ f.size \in Nat
      /\ s.disk[o].data # <<>> => f.size = Len(s.disk[o].data) /\ f.size # Undefined
      /\ s.disk[o].data = <<>> => f.size \in {0, Undefined}
  BY KnownSize
<1>3. q = p /\ (f.size = Undefined => p = 0)
  <2>1. CASE s.disk[o].data # <<>>
    <3>1. f.size = p /\ f.size # Undefined
      BY <1>2, <2>1
    <3> HIDE DEF f
    <3> QED
      BY <1>1, <3>1, MinimumIs
  <2>2. CASE s.disk[o].data = <<>>
    <3>1. p = 0
      BY <2>2
    <3> HIDE DEF f
    <3> QED
      BY <1>2, <3>1, MinimumIs
  <2> QED
    BY <2>1, <2>2
<1>4. ~(f.size = Undefined /\ q % DataSize # 0)
  <2>1. 0 % DataSize = 0
    BY Constants
  <2> HIDE DEF q, f
  <2> QED
    BY <1>3, <2>1
<1>5. x = d
  BY <1>2, <1>3
<1>6. ObjectAppend(s, h, p, b, "never")
        = [HeaderEvent([s EXCEPT !.disk[o].data = x], o, Len(x), m, h)
             EXCEPT !.fd[h].size = Len(x), !.fd[h].current = TRUE]
  <2> DEFINE y == [HeaderEvent([s EXCEPT !.disk[o].data = x], o, Len(x), m, h)
                     EXCEPT !.fd[h].size = Len(x), !.fd[h].current = TRUE]
  <2>1. ObjectAppend(s, h, p, b, "never")
          = IF "never" # "never" \/ ~f.current THEN Error(s)
            ELSE IF f.size = Undefined /\ q % DataSize # 0 THEN Error(s) ELSE y
    <3>1. s.fd[h].obj = o
      BY <1>1
    <3> QED
      BY <3>1 DEF ObjectAppend
  <2> HIDE DEF y, f, q, x
  <2>2. ObjectAppend(s, h, p, b, "never") = y
    BY <1>2, <1>4, <2>1
  <2> QED
    BY <2>2 DEF y
<1> HIDE DEF x, q
<1>7. ObjectAppend(s, h, p, b, "never") = t
  BY <1>5, <1>6
<1>8. d \in Seq(Symbol) /\ Len(d) <= MaxSize /\ Room(s, o, Len(d))
      /\ Len(d) # 0 /\ SizeOf(d) = Len(d)
  BY RoomForSplice
<1> HIDE DEF d, f
<1>9. z \in Nat
  BY <1>8
<1>10. m \in BOOLEAN
  OBVIOUS
<1> HIDE DEF m
<1>11. Stored(s, v, o, d)
  BY <1>1, <1>2, <1>8, <1>9, <1>10, RewritingStays
<1> HIDE DEF v, z
<1>12. /\ Sound(v) /\ v.fd[h].open /\ v.fd[h].obj = o
  BY <1>1, <1>11 DEF Stored, Preserves, Stays, f
<1>13. v.disk[o].data = d
  <2>1. s.disk[o] \in FileRec
    BY <1>1, <1>2, Fields DEF Exists, Sound
  <2> QED
    BY <1>11, <2>1 DEF Stored, FileRec
<1>14. z = SizeOf(v.disk[v.fd[h].obj].data)
  BY <1>8, <1>12, <1>13 DEF z
<1>15. Settled(v, t)
  <2>1. Sound(v) /\ h \in Handle /\ v.fd[h].open /\ z \in Nat
    BY <1>1, <1>9, <1>12
  <2> HIDE DEF f
  <2> QED
    BY <1>14, <2>1, SettlingStays
<1> HIDE DEF t
<1>16. Stored(s, t, o, d)
  BY <1>11, <1>15, PreservesChain, StaysChain DEF Stored, Settled
<1> QED
  BY <1>7, <1>16 DEF d

LEMMA Parts ==
    ASSUME NEW b \in Seq(Symbol), NEW m \in 0 .. Len(b)
    PROVE  LET b1 == SubSeq(b, 1, m)
               b2 == SubSeq(b, m + 1, Len(b))
           IN  /\ b1 \in Seq(Symbol) /\ Len(b1) = m
               /\ b2 \in Seq(Symbol) /\ Len(b2) = Len(b) - m
               /\ m = Len(b) => b1 = b
               /\ m = 0 => b2 = b
<1> DEFINE b1 == SubSeq(b, 1, m)
           b2 == SubSeq(b, m + 1, Len(b))
<1>1. Len(b) \in Nat /\ m \in Nat /\ m <= Len(b)
  OBVIOUS
<1>2. /\ b1 \in Seq(Symbol) /\ Len(b1) = m
      /\ \A i \in 1 .. m : b1[i] = b[i]
  BY <1>1
<1>3. /\ b2 \in Seq(Symbol) /\ Len(b2) = Len(b) - m
      /\ \A i \in 1 .. Len(b) - m : b2[i] = b[i + m]
  <2> DEFINE j == m + 1
             n == Len(b)
  <2>1. j \in Int /\ n \in Int /\ \A i \in j .. n : b[i] \in Symbol
    BY <1>1
  <2>2. /\ SubSeq(b, j, n) \in Seq(Symbol)
        /\ Len(SubSeq(b, j, n)) = IF j <= n THEN n - j + 1 ELSE 0
        /\ \A i \in 1 .. n - j + 1 : SubSeq(b, j, n)[i] = b[j + i - 1]
    BY <2>1, SubSeqProperties
  <2>3. Len(b2) = Len(b) - m /\ n - j + 1 = Len(b) - m
    BY <1>1, <2>2
  <2>4. \A i \in 1 .. Len(b) - m : j + i - 1 = i + m
    BY <1>1
  <2> QED
    BY <2>2, <2>3, <2>4
<1> HIDE DEF b1, b2
<1>4. m = Len(b) => b1 = b
  BY <1>1, <1>2, SeqEqual
<1>5. m = 0 => b2 = b
  <2> SUFFICES ASSUME m = 0 PROVE b2 = b
    OBVIOUS
  <2>1. Len(b2) = Len(b) /\ \A i \in 1 .. Len(b) : b2[i] = b[i]
    BY <1>1, <1>3
  <2> QED
    BY <1>3, <2>1, SeqEqual
<1> QED
  BY <1>2, <1>3, <1>4, <1>5 DEF b1, b2

\* Storing nothing, or what is there.
LEMMA StoredSelf ==
    ASSUME NEW s, Sound(s), NEW o, Exists(s, o)
    PROVE  Stored(s, s, o, s.disk[o].data)
<1>1. s.disk[o] \in FileRec
  BY Fields DEF Sound, Exists
<1>2. s.disk[o] = [s.disk[o] EXCEPT !.data = s.disk[o].data]
  BY <1>1 DEF FileRec
<1>3. Preserves(s, s) /\ Stays(s, s)
  BY DEF Preserves, Stays
<1> QED
  BY <1>2, <1>3 DEF Stored

\* What spiffs_hydro_write does: existing bytes are modified, the rest is
\* appended, and the object holds the bytes where they were to go.
LEMMA HydroStores ==
    ASSUME NEW s, NEW h, NEW o, NEW p, NEW b, CanStore(s, h, o, p, b), s.res = "OK"
    PROVE  Stored(s, HydroWrite(s, h, p, b, "never"), o, Splice(s.disk[o].data, p, b))
<1> DEFINE d    == s.disk[o].data
           n    == Len(d)
           size == s.fd[h].size
           m    == IF size = Undefined \/ p >= size THEN 0 ELSE MinOf(size - p, Len(b))
           b1   == SubSeq(b, 1, m)
           b2   == SubSeq(b, m + 1, Len(b))
           t    == IF m = 0 THEN s ELSE ObjectModify(s, h, p, b1, "never")
           e    == p + m
           u    == ObjectAppend(t, h, e, b2, "never")
           r    == HydroWrite(s, h, p, b, "never")
<1>1. /\ Sound(s) /\ h \in Handle /\ p \in Nat /\ b \in Seq(Symbol) /\ p <= n
      /\ p + Len(b) <= MaxSize /\ n <= MaxSize
  BY DEF CanStore
<1>2. /\ s \in State /\ Exists(s, o) /\ o \in ObjId /\ d \in Seq(Symbol) /\ n \in Nat
      /\ size \in Nat /\ Len(b) \in Nat
      /\ d # <<>> => size = n /\ size # Undefined /\ n # 0
      /\ d = <<>> => size \in {0, Undefined}
  BY KnownSize
<1>3. r = IF m = Len(b) \/ ~Ok(t) THEN t ELSE u
  BY DEF HydroWrite, Ok
<1> HIDE DEF size
<1>4. m \in 0 .. Len(b)
  <2>1. CASE size = Undefined \/ p >= size
    BY <1>2, <2>1
  <2>2. CASE size # Undefined /\ ~(p >= size)
    <3>1. size - p \in Nat
      BY <1>1, <1>2, <2>2
    <3> DEFINE a == size - p
               l == Len(b)
    <3>2. m = MinOf(a, l)
      BY <2>2
    <3>3. a \in Nat /\ l \in Nat
      BY <1>2, <3>1
    <3> HIDE DEF a, m, l
    <3>4. m \in 0 .. l
      BY <3>2, <3>3, Minimum
    <3> QED
      BY <3>4 DEF l
  <2> QED
    BY <2>1, <2>2
<1>5. p = n => m = 0
  <2>1. CASE d = <<>>
    <3>1. n = 0
      BY <2>1
    <3> HIDE DEF n, d
    <3> QED
      BY <1>1, <1>2, <2>1, <3>1
  <2>2. CASE d # <<>>
    BY <1>1, <1>2, <2>2
  <2> QED
    BY <2>1, <2>2
<1>6. p # n /\ Len(b) # 0 =>
         m # 0 /\ m <= n - p /\ (m # Len(b) => m = n - p)
  <2> SUFFICES ASSUME p # n, Len(b) # 0
               PROVE  m # 0 /\ m <= n - p /\ (m # Len(b) => m = n - p)
    OBVIOUS
  <2>1. d # <<>>
    <3> SUFFICES ASSUME d = <<>> PROVE FALSE
      OBVIOUS
    <3>1. n = 0
      OBVIOUS
    <3> HIDE DEF n, d
    <3> QED
      BY <1>1, <3>1
  <2>2. size = n /\ size # Undefined
    BY <1>2, <2>1
  <2> HIDE DEF n, d
  <2>3. ~(p >= size) /\ n - p \in Nat /\ n - p # 0
    BY <1>1, <1>2, <2>2
  <2>4. m = MinOf(n - p, Len(b))
    BY <2>2, <2>3
  <2> HIDE DEF m
  <2> QED
    BY <1>2, <2>3, <2>4 DEF MinOf
<1> HIDE DEF m
<1>7. /\ b1 \in Seq(Symbol) /\ Len(b1) = m
      /\ b2 \in Seq(Symbol) /\ Len(b2) = Len(b) - m
      /\ m = Len(b) => b1 = b
      /\ m = 0 => b2 = b
  BY <1>1, <1>4, Parts
<1>8. CASE Len(b) = 0
  <2>1. m = Len(b) /\ m = 0
    BY <1>2, <1>4, <1>8
  <2>2. r = s
    BY <1>3, <2>1
  <2>3. b = <<>>
    BY <1>1, <1>8
  <2>4. Splice(d, p, <<>>) = d
    BY <1>1, <1>2, SpliceNothing
  <2>5. Stored(s, s, o, d)
    BY <1>1, <1>2, StoredSelf
  <2> HIDE DEF r
  <2>6. Stored(s, r, o, Splice(d, p, b))
    BY <2>2, <2>3, <2>4, <2>5
  <2> QED
    BY <2>6 DEF r
<1>9. CASE Len(b) # 0 /\ p = n
  <2>1. m = 0 /\ t = s /\ b2 = b
    BY <1>5, <1>7, <1>9
  <2>2. e = p
    BY <1>1, <2>1
  <2>3. Ok(t)
    BY <2>1 DEF Ok
  <2>4. r = u
    BY <1>3, <1>9, <2>1, <2>3
  <2> HIDE DEF r, b2, t, e
  <2>5. r = ObjectAppend(s, h, p, b, "never")
    BY <2>1, <2>2, <2>4
  <2>6. Stored(s, ObjectAppend(s, h, p, b, "never"), o, Splice(d, p, b))
    BY <1>9, AppendStores
  <2> QED
    BY <2>5, <2>6 DEF r
<1>10. CASE Len(b) # 0 /\ p # n /\ m = Len(b)
  <2>1. b1 = b /\ m # 0
    BY <1>6, <1>7, <1>10
  <2>2. r = t
    BY <1>3, <1>10
  <2> HIDE DEF r, b1
  <2>3. r = ObjectModify(s, h, p, b, "never")
    BY <2>1, <2>2
  <2>4. m <= n - p
    BY <1>6, <1>10
  <2>5. p + Len(b) <= n
    BY <1>1, <1>2, <1>10, <2>4
  <2>6. Stored(s, ObjectModify(s, h, p, b, "never"), o, Splice(d, p, b))
    BY <1>10, <2>5, ModifyStores
  <2> QED
    BY <2>3, <2>6 DEF r
<1>11. CASE Len(b) # 0 /\ p # n /\ m # Len(b)
  <2> DEFINE d1 == Splice(d, p, b1)
             d2 == Splice(d1, n, b2)
  <2>1. m # 0 /\ m = n - p /\ m \in Nat /\ Len(b) - m # 0
    BY <1>2, <1>4, <1>6, <1>11
  <2>2. e = n /\ p + m = n
    BY <1>1, <1>2, <2>1
  <2>3. t = ObjectModify(s, h, p, b1, "never")
    BY <2>1
  <2>4. CanStore(s, h, o, p, b1)
    <3>1. p + Len(b1) <= MaxSize
      BY <1>1, <1>2, <1>7, <2>2, Constants
    <3> HIDE DEF b1
    <3> QED
      BY <1>7, <3>1 DEF CanStore
  <2>16. p + Len(b1) <= n
    BY <1>1, <1>2, <1>7, <2>2
  <2> HIDE DEF b1, b2, t, e
  <2>5. Stored(s, t, o, d1)
    BY <1>7, <2>1, <2>3, <2>4, <2>16, ModifyStores
  <2> HIDE DEF n
  <2>6. /\ d1 \in Seq(Symbol) /\ Room(s, o, Len(d1))
        /\ p + Len(b1) <= Len(d) => Len(d1) = Len(d)
    BY <2>4, RoomForSplice
  <2>7. Len(d1) = n
    BY <1>7, <1>1, <1>2, <2>2, <2>6 DEF n
  <2>8. t.disk[o].data = d1
    <3>1. s.disk[o] \in FileRec
      BY <1>2, Fields DEF Exists
    <3> HIDE DEF d1
    <3> QED
      BY <2>5, <3>1 DEF Stored, FileRec
  <2>9. CanStore(t, h, o, n, b2)
    <3>1. Sound(t) /\ Informed(t)
      BY <2>5 DEF Stored, Preserves, CanStore
    <3>2. t.fd[h].open /\ t.fd[h].obj = o
      BY <1>1, <2>5 DEF Stored, Stays, CanStore
    <3>3. n + Len(b2) <= MaxSize
      BY <1>1, <1>2, <1>7, <2>1, <2>2
    <3>4. Room(s, o, n)
      BY <2>6, <2>7
    <3>5. Room(t, o, n)
      BY <2>5, <3>4, StoredRoom
    <3> HIDE DEF d1, d
    <3> QED
      BY <1>1, <1>2, <1>7, <2>7, <2>8, <3>1, <3>2, <3>3, <3>5 DEF CanStore
  <2>10. Ok(t)
    BY <2>5 DEF Stored, Ok
  <2>11. r = u
    BY <1>3, <1>11, <2>10
  <2> HIDE DEF r
  <2>12. r = ObjectAppend(t, h, n, b2, "never")
    BY <2>2, <2>11
  <2>13. Stored(t, ObjectAppend(t, h, n, b2, "never"), o, d2)
    <3>1. Len(b2) # 0 /\ n = Len(t.disk[o].data)
      BY <1>7, <2>1, <2>7, <2>8
    <3>2. Stored(t, ObjectAppend(t, h, n, b2, "never"), o, Splice(t.disk[o].data, n, b2))
      BY <2>9, <3>1, AppendStores
    <3> QED
      BY <2>8, <3>2
  <2>14. d2 = Splice(d, p, b)
    <3>1. Splice(Splice(d, p, SubSeq(b, 1, m)), p + m, SubSeq(b, m + 1, Len(b)))
             = Splice(d, p, b)
      <4>1. p <= Len(d)
        BY <1>1 DEF n
      <4> HIDE DEF d, d1, d2
      <4> QED
        BY <1>1, <1>2, <1>4, <4>1, SpliceInParts
    <3> QED
      BY <2>2, <3>1 DEF b1, b2
  <2> HIDE DEF d1, d2
  <2>15. Stored(s, r, o, d2)
    BY <1>1, <1>2, <2>5, <2>12, <2>13, StoredTwice
  <2> QED
    BY <2>14, <2>15 DEF r
<1> QED
  BY <1>8, <1>9, <1>10, <1>11

----------------------------------------------------------------------------
(* The view.                                                               *)

\* The write pages of x, and what they hold.
SamePages(s, t, x) ==
    \A c \in CachePage :
        /\ (t.cache[c].wr /\ t.cache[c].obj = x) <=> (s.cache[c].wr /\ s.cache[c].obj = x)
        /\ s.cache[c].wr /\ s.cache[c].obj = x => t.cache[c] = s.cache[c]

LEMMA PageOf ==
    ASSUME NEW s, NEW x, PagesFor(s, x) # {}
    PROVE  CachePageOf(s, x) \in PagesFor(s, x)
BY DEF CachePageOf

LEMMA SameView ==
    ASSUME NEW s, NEW t, NEW x, SamePages(s, t, x), t.disk[x] = s.disk[x]
    PROVE  View(t, x) = View(s, x)
<1>1. PagesFor(t, x) = PagesFor(s, x)
  BY DEF PagesFor, SamePages
<1>2. CASE s.disk[x] = NoFile \/ PagesFor(s, x) = {}
  BY <1>1, <1>2 DEF View
<1>3. CASE s.disk[x] # NoFile /\ PagesFor(s, x) # {}
  <2> DEFINE c == CachePageOf(s, x)
  <2>1. CachePageOf(t, x) = c
    BY <1>1 DEF CachePageOf
  <2>2. c \in PagesFor(s, x)
    BY <1>3, PageOf
  <2> HIDE DEF c
  <2>3. t.cache[c] = s.cache[c]
    BY <2>2 DEF SamePages, PagesFor
  <2> QED
    BY <1>1, <1>3, <2>1, <2>3 DEF View, c
<1> QED
  BY <1>2, <1>3

LEMMA BareView ==
    ASSUME NEW s, NEW x, PagesFor(s, x) = {}
    PROVE  View(s, x) = s.disk[x]
BY DEF View

\* The pages and objects there are.
LEMMA PageFields ==
    ASSUME NEW s, Healthy(s), NEW c \in CachePage, s.cache[c].wr
    PROVE  LET page == s.cache[c]
           IN  /\ page \in PageRec /\ Exists(s, page.obj) /\ page.obj \in ObjId
               /\ s.disk[page.obj].data \in Seq(Symbol)
               /\ page.offset \in Nat /\ page.data \in Seq(Symbol)
               /\ page.offset <= Len(s.disk[page.obj].data)
               /\ page.offset + Len(page.data) <= MaxSize
               /\ Len(s.disk[page.obj].data) <= MaxSize
<1> DEFINE page == s.cache[c]
           o    == page.obj
<1>1. s \in State /\ page \in PageRec
  BY Fields DEF Healthy, Sound
<1>2. PICK h \in Handle : s.fd[h].open /\ s.fd[h].cp = c
  BY DEF Healthy, Paged, Owned
<1>3. s.fd[h].obj = o
  BY <1>2, Constants DEF Healthy, Paged, Pointing
<1>4. Exists(s, o) /\ o \in ObjId
  BY <1>2, <1>3 DEF Healthy, Sound, Exists
<1>5. s.disk[o].data \in Seq(Symbol)
  BY <1>1, <1>4, Fields DEF Exists, FileRec
<1>6. page.offset <= Len(s.disk[o].data) /\ page.offset + Len(page.data) <= MaxSize
  BY DEF Healthy, Based, End
<1>7. Len(s.disk[o].data) <= MaxSize
  BY <1>4 DEF Healthy, Bounded
<1> HIDE DEF o
<1>8. page.offset \in Nat /\ page.data \in Seq(Symbol)
  BY <1>1 DEF PageRec
<1> QED
  BY <1>1, <1>4, <1>5, <1>6, <1>7, <1>8 DEF o

LEMMA PageView ==
    ASSUME NEW s, Healthy(s), NEW c \in CachePage, s.cache[c].wr, NEW o, s.cache[c].obj = o
    PROVE  /\ PagesFor(s, o) = {c}
           /\ View(s, o) = [s.disk[o] EXCEPT !.data =
                 Splice(s.disk[o].data, s.cache[c].offset, s.cache[c].data)]
<1> DEFINE page == s.cache[c]
           n    == Len(s.disk[o].data)
<1>1. PagesFor(s, o) = {c}
  BY DEF Healthy, Paged, OnePage, PagesFor
<1>2. CachePageOf(s, o) = c
  <2>1. CachePageOf(s, o) \in PagesFor(s, o)
    BY <1>1, PageOf
  <2> QED
    BY <1>1, <2>1
<1>3. /\ Exists(s, o) /\ s.disk[o].data \in Seq(Symbol) /\ page.offset \in Nat
      /\ page.offset <= n
  BY PageFields
<1>4. n \in Nat
  BY <1>3
<1> HIDE DEF n
<1>5. MinOf(page.offset, n) = page.offset
  BY <1>3, <1>4, MinimumIs
<1>6. s.disk[o] # NoFile
  BY <1>3 DEF Exists
<1>7. View(s, o) = [s.disk[o] EXCEPT !.data = Splice(@, MinOf(page.offset, Len(@)), page.data)]
  BY <1>1, <1>2, <1>6 DEF View
<1> QED
  BY <1>1, <1>5, <1>7 DEF n

\* A descriptor with a cache page sees the write page of its object.
LEMMA OwnPage ==
    ASSUME NEW s, Healthy(s), NEW h \in Handle, s.fd[h].cp # NoPage
    PROVE  /\ s.fd[h].cp \in CachePage /\ s.fd[h].open
           /\ s.cache[s.fd[h].cp].wr /\ s.cache[s.fd[h].cp].obj = s.fd[h].obj
<1>1. s.fd[h].cp \in CachePage
  BY Fields DEF Healthy, Sound, FdRec
<1> QED
  BY <1>1 DEF Healthy, Paged, Pointing, Clean

LEMMA OpenObject ==
    ASSUME NEW s, Healthy(s), NEW h \in Handle, s.fd[h].open
    PROVE  LET o == s.fd[h].obj
           IN  /\ s \in State /\ o \in ObjId /\ Exists(s, o) /\ s.disk[o] \in FileRec
               /\ s.disk[o].data \in Seq(Symbol) /\ Len(s.disk[o].data) \in Nat
               /\ Len(s.disk[o].data) <= MaxSize /\ Room(s, o, Len(s.disk[o].data))
<1> DEFINE o == s.fd[h].obj
<1>1. s \in State /\ Exists(s, o) /\ o \in ObjId
  BY DEF Healthy, Sound, Exists
<1>2. s.disk[o] \in FileRec /\ s.disk[o].data \in Seq(Symbol)
  BY <1>1, Fields DEF Exists, FileRec
<1>3. Len(s.disk[o].data) <= MaxSize /\ Room(s, o, Len(s.disk[o].data))
  BY <1>1 DEF Healthy, Bounded, Placed
<1> HIDE DEF o
<1>4. Len(s.disk[o].data) \in Nat
  BY <1>2
<1> QED
  BY <1>1, <1>2, <1>3, <1>4 DEF o

----------------------------------------------------------------------------
(* Writing back.                                                           *)

\* What was seen of o is what is on the flash; other objects are as they
\* were, on the flash and in the cache.
Elsewhere(s, t, o) ==
    \A x \in ObjId \ {o} : t.disk[x] = s.disk[x] /\ SamePages(s, t, x)

SyncedTo(s, t, o) ==
    /\ Healthy(t) /\ Stays(s, t) /\ Elsewhere(s, t, o)
    /\ PagesFor(t, o) = {} /\ t.disk[o] = View(s, o)

LEMMA WriteBackSyncs ==
    ASSUME NEW s, Healthy(s), NEW h \in Handle, s.fd[h].open,
           NEW c \in CachePage, s.fd[h].cp = c, NEW o, s.fd[h].obj = o
    PROVE  SyncedTo(s, WriteBack(s, h, c, "never"), o)
<1> DEFINE p == s.cache[c].offset
           b == s.cache[c].data
           d == s.disk[o].data
           e == Splice(d, p, b)
           u == HydroWrite(s, h, p, b, "never")
           t == Release(u, {c})
<1>1. s.cache[c].wr /\ s.cache[c].obj = o
  BY OwnPage, Constants
<1>2. /\ s \in State /\ Sound(s) /\ Exists(s, o) /\ o \in ObjId /\ d \in Seq(Symbol)
      /\ p \in Nat /\ b \in Seq(Symbol) /\ p <= Len(d) /\ p + Len(b) <= MaxSize
      /\ Len(d) <= MaxSize
  BY <1>1, PageFields DEF Healthy, Sound
<1>3. Room(s, o, Len(d))
  BY <1>2 DEF Healthy, Placed
<1>4. WriteBack(s, h, c, "never") = t
  BY DEF WriteBack
<1>5. Preserves(s, t)
  <2>1. Preserves(s, WriteBack(s, h, c, "never"))
    BY <1>2, WritingBack
  <2> HIDE DEF t
  <2> QED
    BY <1>4, <2>1
<1> HIDE DEF p, b, d, u, t
<1>6. CanStore(s, h, o, p, b)
  BY <1>2, <1>3 DEF CanStore, Healthy, d
<1>7. Stored(s, u, o, e)
  <2>1. s.res = "OK"
    BY DEF Healthy
  <2> QED
    BY <1>6, <2>1, HydroStores DEF u, d
<1>8. /\ e \in Seq(Symbol) /\ Len(e) <= MaxSize
  BY <1>6, RoomForSplice DEF d
<1>9. Len(e) = MaxOf(Len(d), p + Len(b))
  BY <1>2, Splicing
<1> HIDE DEF e
<1>10. u \in State
  BY <1>7 DEF Stored, Preserves, Sound
<1>11. Freed(u, t, {c})
  BY <1>10, Releasing DEF t
<1>12. t.disk = u.disk /\ t.res = "OK"
  BY <1>7, <1>11 DEF Freed, Stored, Healthy
<1>13. ~t.cache[c].wr /\ \A k \in CachePage \ {c} : t.cache[k] = s.cache[k]
  BY <1>7, <1>11 DEF Freed, Stored
<1>14. Stays(s, t)
  BY <1>7, <1>11 DEF Freed, Stored, Stays, Appends
<1>15. \A j \in Handle :
          /\ s.fd[j].open /\ s.fd[j].cp = c => t.fd[j].cp = NoPage
          /\ ~(s.fd[j].open /\ s.fd[j].cp = c) => t.fd[j].cp = s.fd[j].cp
  BY <1>7, <1>11 DEF Freed, Stored, Stays
<1>16. t.disk[o] = View(s, o) /\ t.disk[o].data = e /\ t.disk[o] # NoFile
  <2>1. View(s, o) = [s.disk[o] EXCEPT !.data = e]
    BY <1>1, PageView DEF e, d, p, b
  <2>2. s.disk[o] \in FileRec
    BY <1>2, Fields DEF Exists
  <2>3. [s.disk[o] EXCEPT !.data = e] \in FileRec
    BY <1>8, <2>2 DEF FileRec
  <2> QED
    BY <1>7, <1>12, <2>1, <2>2, <2>3, Constants DEF Stored, FileRec
<1>17. \A x \in ObjId \ {o} : t.disk[x] = s.disk[x]
  BY <1>7, <1>12 DEF Stored
<1>18. Elsewhere(s, t, o)
  BY <1>1, <1>13, <1>17 DEF Elsewhere, SamePages
<1>19. \A k \in CachePage : s.cache[k].wr /\ s.cache[k].obj = o => k = c
  BY <1>1 DEF Healthy, Paged, OnePage
<1>20. PagesFor(t, o) = {}
  BY <1>13, <1>19 DEF PagesFor
<1>21. Bounded(t)
  BY <1>2, <1>8, <1>16, <1>17 DEF Bounded, Healthy, Exists
<1>22. Based(t)
  <2> SUFFICES ASSUME NEW k \in CachePage, t.cache[k].wr
               PROVE  /\ t.cache[k].offset <= Len(t.disk[t.cache[k].obj].data)
                      /\ End(t.cache[k]) <= MaxSize
    BY DEF Based
  <2>1. k # c /\ t.cache[k] = s.cache[k] /\ s.cache[k].wr
    BY <1>13
  <2>2. s.cache[k].obj # o /\ s.cache[k].obj \in ObjId
    BY <1>19, <2>1, PageFields
  <2> QED
    BY <1>17, <2>1, <2>2 DEF Healthy, Based
<1>23. Placed(t)
  <2> SUFFICES ASSUME NEW x \in ObjId, Exists(t, x), NEW j \in Handle,
                      t.fd[j].open, t.fd[j].obj = x, ~Appends(t, j)
               PROVE  t.fd[j].fdoffset <= Reach(t, j, Len(t.disk[x].data))
    BY DEF Placed, Room
  <2>1. /\ s.fd[j].open /\ s.fd[j].obj = x /\ ~Appends(s, j)
        /\ t.fd[j].fdoffset = s.fd[j].fdoffset
    BY <1>14 DEF Stays, Appends
  <2>2. s.fd[j].fdoffset <= Reach(s, j, Len(s.disk[x].data))
    BY <2>1 DEF Healthy, Placed, Room, Sound
  <2>3. CASE x = o
    <3>1. s.fd[j].cp \in {NoPage, c}
      BY <1>19, <2>1, <2>3, OwnPage
    <3>2. t.fd[j].cp = NoPage
      BY <1>15, <2>1, <3>1
    <3>3. Reach(t, j, Len(t.disk[x].data)) = Len(e)
      BY <1>16, <2>3, <3>2 DEF Reach
    <3> DEFINE n == Len(d)
               k == p + Len(b)
    <3>4. n \in Nat /\ k \in Nat
      BY <1>2
    <3>5. Reach(s, j, n) \in {n, MaxOf(n, k)}
      BY <3>1 DEF Reach, End, p, b
    <3>6. Reach(s, j, n) <= Len(e)
      <4>1. Len(e) = MaxOf(n, k)
        BY <1>9
      <4> HIDE DEF n, k
      <4> DEFINE r == Reach(s, j, n)
      <4>2. r \in {n, MaxOf(n, k)}
        BY <3>5
      <4> HIDE DEF r
      <4> DEFINE l == Len(e)
      <4>3. l = MaxOf(n, k)
        BY <4>1
      <4> HIDE DEF l
      <4>4. r <= l
        BY <3>4, <4>2, <4>3 DEF MaxOf
      <4> QED
        BY <4>4 DEF r, l
    <3>7. s.fd[j].fdoffset <= Reach(s, j, n) /\ s.fd[j].fdoffset \in Nat
      BY <1>2, <2>2, <2>3, Fields DEF FdRec, d
    <3>8. Reach(s, j, n) \in Nat /\ Len(e) \in Nat
      BY <1>2, <1>8, <3>4, ReachIsNat
    <3> HIDE DEF n
    <3> QED
      BY <2>1, <3>3, <3>6, <3>7, <3>8
  <2>4. CASE x # o
    <3>1. s.fd[j].cp # c
      BY <1>1, <2>1, <2>4, OwnPage, Constants
    <3>2. t.fd[j].cp = s.fd[j].cp
      BY <1>15, <3>1
    <3>3. s.fd[j].cp # NoPage => t.cache[s.fd[j].cp] = s.cache[s.fd[j].cp]
      BY <1>13, <3>1, OwnPage
    <3>4. t.disk[x] = s.disk[x]
      BY <1>17, <2>4
    <3> QED
      BY <2>1, <2>2, <3>2, <3>3, <3>4 DEF Reach
  <2> QED
    BY <2>3, <2>4
<1>24. Healthy(t)
  BY <1>5, <1>12, <1>21, <1>22, <1>23 DEF Healthy, Preserves
<1>25. SyncedTo(s, t, o)
  BY <1>14, <1>16, <1>18, <1>20, <1>24 DEF SyncedTo
<1> QED
  BY <1>4, <1>25

\* A state whose disk and write pages are those of a healthy one.
LEMMA StillBased ==
    ASSUME NEW s, NEW t, Bounded(s), Based(s), t.disk = s.disk,
           \A c \in CachePage : t.cache[c].wr => t.cache[c] = s.cache[c]
    PROVE  Bounded(t) /\ Based(t)
<1>1. Bounded(t)
  BY DEF Bounded, Exists
<1>2. Based(t)
  BY DEF Based
<1> QED
  BY <1>1, <1>2

\* Only h changed, and of it neither object nor flags.
OnlyAt(s, t, h) ==
    /\ t.disk = s.disk /\ t.cache = s.cache /\ t.res = s.res
    /\ \A j \in Handle \ {h} : t.fd[j] = s.fd[j]
    /\ t.fd[h].open = s.fd[h].open /\ t.fd[h].obj = s.fd[h].obj
    /\ t.fd[h].flags = s.fd[h].flags /\ t.fd[h].size = s.fd[h].size

LEMMA OnlyAtViews ==
    ASSUME NEW s, NEW t, NEW h, OnlyAt(s, t, h)
    PROVE  \A x \in ObjId : View(t, x) = View(s, x) /\ PagesFor(t, x) = PagesFor(s, x)
                            /\ SamePages(s, t, x)
<1>1. \A x \in ObjId : SamePages(s, t, x) /\ t.disk[x] = s.disk[x]
  BY DEF OnlyAt, SamePages
<1>2. \A x \in ObjId : PagesFor(t, x) = PagesFor(s, x)
  BY DEF OnlyAt, PagesFor
<1> QED
  BY <1>1, <1>2, SameView

\* The descriptor looks for its page.
Found(s, t, h) ==
    /\ Healthy(t) /\ OnlyAt(s, t, h) /\ t.fd[h].fdoffset = s.fd[h].fdoffset
    /\ t.fd[h].cp \in CachePage \cup {NoPage}
    /\ t.fd[h].cp = NoPage => PagesFor(s, s.fd[h].obj) = {}

LEMMA PairingFinds ==
    ASSUME NEW s, Healthy(s), NEW h \in Handle, s.fd[h].open
    PROVE  Found(s, WithPage(s, h), h)
<1> DEFINE t == WithPage(s, h)
<1>1. Paired(s, t, h)
  BY Pairing DEF Healthy
<1>2. s.fd[h].cp # NoPage => t.fd[h].cp = s.fd[h].cp
  <2> DEFINE p == IF s.fd[h].cp = NoPage THEN CachePageOf(s, s.fd[h].obj) ELSE s.fd[h].cp
             g == [s.fd[h] EXCEPT !.cp = p]
  <2>1. s \in State /\ s.fd[h] \in FdRec
    BY Fields DEF Healthy, Sound
  <2>2. t = [s EXCEPT !.fd[h] = g]
    BY DEF WithPage
  <2> HIDE DEF t, p
  <2>3. t.fd[h].cp = p
    BY <2>1, <2>2 DEF State, FdRec
  <2> QED
    BY <2>3 DEF p
<1> HIDE DEF t
<1>3. OnlyAt(s, t, h) /\ t.fd[h].fdoffset = s.fd[h].fdoffset
  BY <1>1 DEF Paired, OnlyAt
<1>4. Sound(t) /\ Paged(t) /\ Informed(t) /\ t.res = "OK"
  BY <1>1 DEF Paired, Preserves, Healthy
<1>5. Bounded(t) /\ Based(t)
  BY <1>3, StillBased DEF OnlyAt, Healthy
<1>6. Placed(t)
  <2> SUFFICES ASSUME NEW x \in ObjId, Exists(t, x), NEW j \in Handle,
                      t.fd[j].open, t.fd[j].obj = x, ~Appends(t, j)
               PROVE  t.fd[j].fdoffset <= Reach(t, j, Len(t.disk[x].data))
    BY DEF Placed, Room
  <2> DEFINE n == Len(s.disk[x].data)
  <2>1. /\ s.fd[j].open /\ s.fd[j].obj = x /\ ~Appends(s, j)
        /\ t.fd[j].fdoffset = s.fd[j].fdoffset
    BY <1>3 DEF OnlyAt, Appends
  <2>2. s.fd[j].fdoffset <= Reach(s, j, n) /\ Exists(s, x)
    BY <2>1 DEF Healthy, Placed, Room, Sound
  <2>3. Len(t.disk[x].data) = n
    BY <1>3 DEF OnlyAt
  <2>4. t.fd[j].cp = s.fd[j].cp \/ s.fd[j].cp = NoPage
    BY <1>2, <1>3 DEF OnlyAt
  <2>5. CASE t.fd[j].cp = s.fd[j].cp
    <3>1. Reach(t, j, n) = Reach(s, j, n)
      BY <1>3, <2>5 DEF Reach, OnlyAt
    <3> QED
      BY <2>1, <2>2, <2>3, <3>1
  <2>6. CASE s.fd[j].cp = NoPage
    <3>1. s \in State /\ s.disk[x].data \in Seq(Symbol)
      BY <2>2, Fields DEF Healthy, Sound, Exists, FileRec
    <3>2. n \in Nat /\ t \in State /\ s.fd[j].fdoffset \in Nat
      BY <1>4, <3>1, Fields DEF Sound, FdRec
    <3>3. Reach(s, j, n) = n
      BY <2>6 DEF Reach
    <3> HIDE DEF n
    <3>4. Reach(t, j, n) \in Nat /\ n <= Reach(t, j, n)
      BY <3>2, ReachIsNat
    <3> QED
      BY <2>1, <2>2, <2>3, <3>2, <3>3, <3>4
  <2> QED
    BY <2>4, <2>5, <2>6
<1>7. Healthy(t)
  BY <1>4, <1>5, <1>6 DEF Healthy
<1>8. /\ t.fd[h].cp \in CachePage \cup {NoPage}
      /\ t.fd[h].cp = NoPage => PagesFor(s, s.fd[h].obj) = {}
  BY <1>1 DEF Paired, Healthy
<1>9. Found(s, t, h)
  BY <1>3, <1>7, <1>8 DEF Found
<1> QED
  BY <1>9 DEF t

\* A position that is within reach.
LEMMA MovingStays ==
    ASSUME NEW s, Healthy(s), NEW h \in Handle, NEW n \in Nat,
           s.fd[h].open /\ ~Appends(s, h) =>
              n <= Reach(s, h, Len(s.disk[s.fd[h].obj].data))
    PROVE  LET t == [s EXCEPT !.fd[h].fdoffset = n]
           IN  /\ Healthy(t) /\ OnlyAt(s, t, h)
               /\ t.fd[h].fdoffset = n /\ t.fd[h].cp = s.fd[h].cp
<1> DEFINE g == [s.fd[h] EXCEPT !.fdoffset = n]
           t == [s EXCEPT !.fd[h].fdoffset = n]
<1>1. s \in State /\ Sound(s)
  BY DEF Healthy, Sound
<1>2. /\ g \in FdRec /\ g.open = s.fd[h].open /\ g.obj = s.fd[h].obj /\ g.flags = s.fd[h].flags
      /\ g.size = s.fd[h].size /\ g.fdoffset = n /\ g.cp = s.fd[h].cp
  BY <1>1, NewFields, Fields
<1>3. t = [s EXCEPT !.fd[h] = g]
  OBVIOUS
<1>4. Preserves(s, t)
  BY <1>1, Moving
<1> HIDE DEF g, t
<1>5. /\ t.disk = s.disk /\ t.cache = s.cache /\ t.res = s.res
      /\ t.fd[h] = g /\ \A j \in Handle \ {h} : t.fd[j] = s.fd[j]
  BY <1>1, <1>2, <1>3, SetSlot
<1>6. OnlyAt(s, t, h) /\ t.fd[h].fdoffset = n /\ t.fd[h].cp = s.fd[h].cp
  BY <1>2, <1>5 DEF OnlyAt
<1>7. Bounded(t) /\ Based(t)
  BY <1>5, StillBased DEF Healthy
<1>8. Placed(t)
  <2> SUFFICES ASSUME NEW x \in ObjId, Exists(t, x), NEW j \in Handle,
                      t.fd[j].open, t.fd[j].obj = x, ~Appends(t, j)
               PROVE  t.fd[j].fdoffset <= Reach(t, j, Len(t.disk[x].data))
    BY DEF Placed, Room
  <2>1. /\ s.fd[j].open /\ s.fd[j].obj = x /\ ~Appends(s, j) /\ Exists(s, x)
        /\ t.fd[j].cp = s.fd[j].cp
    BY <1>5, <1>6 DEF OnlyAt, Appends, Exists
  <2>2. Reach(t, j, Len(t.disk[x].data)) = Reach(s, j, Len(s.disk[x].data))
    BY <1>5, <2>1 DEF Reach
  <2>3. CASE j = h
    BY <1>6, <2>1, <2>2, <2>3
  <2>4. CASE j # h
    BY <1>5, <2>1, <2>2, <2>4 DEF Healthy, Placed, Room
  <2> QED
    BY <2>3, <2>4
<1>9. Healthy(t)
  BY <1>4, <1>5, <1>7, <1>8 DEF Healthy, Preserves
<1> QED
  BY <1>6, <1>9 DEF t

LEMMA FlushSyncs ==
    ASSUME NEW s, Healthy(s), NEW h \in Handle, s.fd[h].open, NEW o, s.fd[h].obj = o
    PROVE  SyncedTo(s, FlushCache(s, h, "never"), o)
<1> DEFINE w == WithPage(s, h)
           c == w.fd[h].cp
           t == FlushCache(s, h, "never")
<1>1. Found(s, w, h)
  BY PairingFinds
<1>2. t = IF c = NoPage THEN s ELSE WriteBack(w, h, c, "never")
  BY DEF FlushCache, Healthy, Paged, Buffered
<1> HIDE DEF w, t
<1>3. CASE c = NoPage
  <2>1. t = s /\ PagesFor(s, o) = {}
    BY <1>1, <1>2, <1>3 DEF Found
  <2>2. s.disk[o] = View(s, o)
    BY <2>1, BareView
  <2>3. Stays(s, s) /\ Elsewhere(s, s, o)
    BY DEF Stays, Elsewhere, SamePages
  <2> QED
    BY <2>1, <2>2, <2>3 DEF SyncedTo, t
<1>4. CASE c # NoPage
  <2>1. c \in CachePage /\ Healthy(w) /\ OnlyAt(s, w, h)
    BY <1>1, <1>4 DEF Found
  <2>2. w.fd[h].open /\ w.fd[h].obj = o
    BY <2>1 DEF OnlyAt
  <2> HIDE DEF c
  <2>3. SyncedTo(w, WriteBack(w, h, c, "never"), o)
    BY <2>1, <2>2, WriteBackSyncs DEF c
  <2>4. SyncedTo(w, t, o)
    BY <1>2, <1>4, <2>3
  <2>5. o \in ObjId
    BY OpenObject
  <2>6. View(w, o) = View(s, o)
    BY <2>1, <2>5, OnlyAtViews
  <2>7. Stays(s, w)
    BY <1>1, <2>1 DEF OnlyAt, Found, Stays
  <2>8. Stays(s, t)
    BY <2>4, <2>7, StaysChain DEF SyncedTo
  <2>9. Elsewhere(s, t, o)
    BY <2>1, <2>4 DEF SyncedTo, Elsewhere, SamePages, OnlyAt
  <2> QED
    BY <2>4, <2>6, <2>8, <2>9 DEF SyncedTo, t
<1> QED
  BY <1>3, <1>4

----------------------------------------------------------------------------
(* The mapping to FileStore.                                               *)

\* What FileStore knows of a descriptor.
HdOf(o, append, pos) ==
    [obj |-> o, append |-> append, pos |-> IF append THEN 0 ELSE pos]
Hd(s, h) ==
    IF ~s.fd[h].open THEN Closed
    ELSE HdOf(s.fd[h].obj, Appends(s, h), s.fd[h].fdoffset)

Files(s)   == [o \in ObjId |-> View(s, o)]
Handles(s) == [h \in Handle |-> Hd(s, h)]

LEMMA MappedTo ==
    /\ [o \in ObjId |-> Seen(o)] = Files(fs)
    /\ [o \in ObjId |-> Seen(o)]' = Files(fs')
    /\ [h \in Handle |->
        IF ~fs.fd[h].open THEN Closed
        ELSE LET append == "APPEND" \in fs.fd[h].flags
             IN  [obj |-> fs.fd[h].obj, append |-> append,
                  pos |-> IF append THEN 0 ELSE fs.fd[h].fdoffset]] = Handles(fs)
    /\ [h \in Handle |->
        IF ~fs.fd[h].open THEN Closed
        ELSE LET append == "APPEND" \in fs.fd[h].flags
             IN  [obj |-> fs.fd[h].obj, append |-> append,
                  pos |-> IF append THEN 0 ELSE fs.fd[h].fdoffset]]' = Handles(fs')
<1>1. \A o \in ObjId : Seen(o) = View(fs, o)
  BY DEF Seen, View, Live
<1>2. \A o \in ObjId : Seen(o)' = View(fs', o)
  BY DEF Seen, View, Live, PagesFor, CachePageOf
<1>3. [o \in ObjId |-> Seen(o)] = Files(fs)
  BY <1>1 DEF Files
<1>4. [o \in ObjId |-> Seen(o)]' = Files(fs')
  BY <1>2 DEF Files
<1> QED
  BY <1>3, <1>4 DEF Handles, Hd, HdOf, Appends

\* An open descriptor is not a closed one.
LEMMA NotClosed ==
    ASSUME NEW s, Healthy(s), NEW h \in Handle, s.fd[h].open
    PROVE  /\ Hd(s, h) = HdOf(s.fd[h].obj, Appends(s, h), s.fd[h].fdoffset)
           /\ Hd(s, h) # Closed /\ Hd(s, h).obj = s.fd[h].obj
           /\ Hd(s, h).append = Appends(s, h)
           /\ Hd(s, h).pos = IF Appends(s, h) THEN 0 ELSE s.fd[h].fdoffset
<1>1. s.fd[h].obj \in ObjId /\ s.fd[h].fdoffset \in Nat
  BY OpenObject, Fields DEF FdRec
<1>2. Hd(s, h) = HdOf(s.fd[h].obj, Appends(s, h), s.fd[h].fdoffset)
  BY DEF Hd
<1>3. HdOf(s.fd[h].obj, Appends(s, h), s.fd[h].fdoffset)
         \in [obj : ObjId, append : BOOLEAN, pos : Nat]
  BY <1>1 DEF HdOf, Appends
<1> QED
  BY <1>2, <1>3, ValuesAssumption DEF HdOf

\* What a call does to object o: what is seen of it is v and what is on the
\* flash f, and nothing else is touched.
Does(s, t, o, v, f) ==
    /\ Healthy(s) /\ Healthy(t) /\ o \in ObjId
    /\ View(t, o) = v /\ t.disk[o] = f
    /\ \A x \in ObjId \ {o} : View(t, x) = View(s, x) /\ t.disk[x] = s.disk[x]

\* What it does to descriptor h, and to no other.
Puts(s, t, h, x) ==
    /\ h \in Handle /\ Hd(t, h) = x
    /\ \A j \in Handle \ {h} : Hd(t, j) = Hd(s, j)

DidOnly(s, t, o, v, f) ==
    /\ Files(t) = [Files(s) EXCEPT ![o] = v]
    /\ t.disk = [s.disk EXCEPT ![o] = f]
    /\ Files(s)[o] = View(s, o)
PutOnly(s, t, h, x) ==
    /\ Handles(t) = [Handles(s) EXCEPT ![h] = x]
    /\ Handles(s)[h] = Hd(s, h) /\ h \in Handle
SyncOnly(s, t, o) ==
    /\ Files(t) = Files(s) /\ Files(s)[o] = View(s, o)
    /\ t.disk = [s.disk EXCEPT ![o] = Files(s)[o]]

LEMMA DoesAll ==
    ASSUME NEW s, NEW t, NEW o, NEW v, NEW f, Does(s, t, o, v, f)
    PROVE  DidOnly(s, t, o, v, f)
<1>1. /\ s.disk \in [ObjId -> FileRec \cup {NoFile}]
      /\ t.disk \in [ObjId -> FileRec \cup {NoFile}]
  BY Fields DEF Does, Healthy, Sound
<1>2. t.disk = [s.disk EXCEPT ![o] = f]
  BY <1>1 DEF Does
<1>3. Files(t) = [Files(s) EXCEPT ![o] = v]
  BY DEF Does, Files
<1> QED
  BY <1>2, <1>3 DEF Does, Files, DidOnly

LEMMA SyncsAll ==
    ASSUME NEW s, NEW t, NEW o, Does(s, t, o, View(s, o), View(s, o))
    PROVE  SyncOnly(s, t, o)
<1>1. Files(t) = Files(s) /\ o \in ObjId
  BY DEF Does, Files
<1>2. DidOnly(s, t, o, View(s, o), View(s, o))
  BY DoesAll
<1>3. Files(s)[o] = View(s, o)
  BY <1>1 DEF Files
<1>4. t.disk = [s.disk EXCEPT ![o] = View(s, o)]
  BY <1>2, Zenon DEF DidOnly
<1>5. t.disk = [s.disk EXCEPT ![o] = Files(s)[o]]
  BY <1>3, <1>4, Zenon
<1> QED
  BY <1>1, <1>3, <1>5, Zenon DEF SyncOnly

LEMMA PutsAll ==
    ASSUME NEW s, NEW t, NEW h, NEW x, Puts(s, t, h, x)
    PROVE  PutOnly(s, t, h, x)
BY DEF Puts, Handles, PutOnly

\* What was seen of the object of h is what is on the flash.
SyncedBy(s, t, h) ==
    /\ Handles(s)[h] # Closed
    /\ Files(t) = Files(s)
    /\ t.disk = [s.disk EXCEPT ![Handles(s)[h].obj] = Files(s)[Handles(s)[h].obj]]

LEMMA SyncedByAll ==
    ASSUME NEW s, NEW t, NEW h \in Handle, s.fd[h].open, NEW o, s.fd[h].obj = o,
           Does(s, t, o, View(s, o), View(s, o))
    PROVE  SyncedBy(s, t, h)
<1>1. SyncOnly(s, t, o)
  BY SyncsAll
<1>2. Handles(s)[h] = Hd(s, h)
  BY DEF Handles
<1>3. Handles(s)[h] # Closed /\ Handles(s)[h].obj = o
  BY <1>2, NotClosed DEF Does
<1> DEFINE x == Handles(s)[h].obj
<1>4. x = o
  BY <1>3
<1> HIDE DEF x
<1>5. t.disk = [s.disk EXCEPT ![x] = Files(s)[x]]
  BY <1>1, <1>4, Zenon DEF SyncOnly
<1> QED
  BY <1>1, <1>3, <1>5, Zenon DEF SyncedBy, x, SyncOnly

LEMMA FlushMaps ==
    ASSUME NEW h \in Handle, fs.fd[h].open, NEW o, fs.fd[h].obj = o,
           Does(fs, fs', o, View(fs, o), View(fs, o)),
           Puts(fs, fs', h, Hd(fs, h))
    PROVE  Store!Flush(h)
<1>1. SyncedBy(fs, fs', h)
  BY SyncedByAll
<1>2. Handles(fs') = Handles(fs)
  BY DEF Puts, Handles
<1> QED
  BY <1>1, <1>2, MappedTo DEF Store!Flush, Store!Synced, SyncedBy

LEMMA CloseMaps ==
    ASSUME NEW h \in Handle, fs.fd[h].open, NEW o, fs.fd[h].obj = o,
           Does(fs, fs', o, View(fs, o), View(fs, o)),
           Puts(fs, fs', h, Closed)
    PROVE  Store!Close(h)
<1>1. SyncedBy(fs, fs', h)
  BY SyncedByAll
<1>2. PutOnly(fs, fs', h, Closed)
  BY PutsAll
<1> QED
  BY <1>1, <1>2, MappedTo DEF Store!Close, Store!Synced, SyncedBy, PutOnly

LEMMA MoveMaps ==
    ASSUME NEW h \in Handle, fs.fd[h].open, NEW o, fs.fd[h].obj = o, NEW p,
           p <= Len(View(fs, o).data),
           Does(fs, fs', o, View(fs, o), View(fs, o)),
           Puts(fs, fs', h, [Hd(fs, h) EXCEPT !.pos = p])
    PROVE  Store!Move(h, p)
<1>1. SyncedBy(fs, fs', h)
  BY SyncedByAll
<1>2. PutOnly(fs, fs', h, [Hd(fs, h) EXCEPT !.pos = p])
  BY PutsAll
<1>3. Handles(fs)[h] = Hd(fs, h)
  BY <1>2 DEF PutOnly
<1>4. Handles(fs') = [Handles(fs) EXCEPT ![h].pos = p]
  BY <1>2, <1>3, Zenon DEF PutOnly
<1>5. Hd(fs, h).obj = o /\ o \in ObjId
  BY NotClosed DEF Does
<1>6. p <= Len(Files(fs)[Handles(fs)[h].obj].data)
  BY <1>3, <1>5 DEF Files
<1> QED
  BY <1>1, <1>4, <1>6, MappedTo DEF Store!Move, Store!Synced, SyncedBy

LEMMA OpenMaps ==
    ASSUME NEW h \in Handle, ~fs.fd[h].open, NEW o, NEW a \in BOOLEAN,
           fs.disk[o] # NoFile,
           Does(fs, fs', o, View(fs, o), fs.disk[o]),
           Puts(fs, fs', h, [obj |-> o, pos |-> 0, append |-> a])
    PROVE  Store!Open(h, o)
<1>1. DidOnly(fs, fs', o, View(fs, o), fs.disk[o])
  BY DoesAll
<1>2. PutOnly(fs, fs', h, [obj |-> o, pos |-> 0, append |-> a])
  BY PutsAll
<1>3. Handles(fs)[h] = Closed
  BY DEF Handles, Hd
<1>4. Files(fs') = Files(fs)
  BY DEF Does, Files
<1>5. fs.disk \in [ObjId -> FileRec \cup {NoFile}]
  BY Fields DEF Does, Healthy, Sound
<1>6. fs'.disk = fs.disk
  BY <1>1, <1>5 DEF DidOnly
<1> QED
  BY <1>2, <1>3, <1>4, <1>6, MappedTo DEF Store!Open, Store!Opened, Store!Live, PutOnly

\* An object or name that is not in use.
LEMMA Unused ==
    ASSUME NEW n, Named(n) = {}
    PROVE  Store!Unused(n)
BY DEF Named, Live, Store!Unused, Store!Live

EmptyFile(n) == [name |-> n, data |-> <<>>]

LEMMA FreshMaps ==
    ASSUME NEW o, NEW n, Named(n) = {}, fs.disk[o] = NoFile,
           Does(fs, fs', o, EmptyFile(n), EmptyFile(n))
    PROVE  Store!Fresh(o, n)
<1>1. DidOnly(fs, fs', o, EmptyFile(n), EmptyFile(n))
  BY DoesAll
<1>2. Store!Unused(n)
  BY Unused
<1> QED
  BY <1>1, <1>2, MappedTo DEF Store!Fresh, Store!Live, Store!Empty, DidOnly, EmptyFile

LEMMA CreateMaps ==
    ASSUME NEW o, NEW n, Named(n) = {}, fs.disk[o] = NoFile,
           Does(fs, fs', o, EmptyFile(n), EmptyFile(n)),
           \A h \in Handle : Hd(fs', h) = Hd(fs, h)
    PROVE  Store!Create(o, n)
<1>1. Store!Fresh(o, n)
  BY FreshMaps
<1>2. Handles(fs') = Handles(fs)
  BY DEF Handles
<1> QED
  BY <1>1, <1>2, MappedTo DEF Store!Create

LEMMA OpenNewMaps ==
    ASSUME NEW o, NEW n, Named(n) = {}, fs.disk[o] = NoFile,
           Does(fs, fs', o, EmptyFile(n), EmptyFile(n)),
           NEW h \in Handle, ~fs.fd[h].open, NEW a \in BOOLEAN,
           Puts(fs, fs', h, [obj |-> o, pos |-> 0, append |-> a])
    PROVE  Store!OpenNew(h, o, n)
<1>1. Store!Fresh(o, n)
  BY FreshMaps
<1>2. PutOnly(fs, fs', h, [obj |-> o, pos |-> 0, append |-> a])
  BY PutsAll
<1>3. Handles(fs)[h] = Closed
  BY DEF Handles, Hd
<1> QED
  BY <1>1, <1>2, <1>3, MappedTo DEF Store!OpenNew, Store!Opened, PutOnly

\* What is seen of an object, and what is on the flash, is about its bytes.
LEMMA Emptied ==
    ASSUME NEW F \in [ObjId -> FileRec \cup {NoFile}], NEW o \in ObjId
    PROVE  [F EXCEPT ![o].data = <<>>] = [F EXCEPT ![o] = [F[o] EXCEPT !.data = <<>>]]
  OBVIOUS

LEMMA OpenEmptiedMaps ==
    ASSUME NEW h \in Handle, ~fs.fd[h].open, NEW o, NEW a \in BOOLEAN,
           fs.disk[o] # NoFile,
           \A j \in Handle : ~(fs.fd[j].open /\ fs.fd[j].obj = o),
           View(fs, o) = fs.disk[o],
           Does(fs, fs', o, [fs.disk[o] EXCEPT !.data = <<>>],
                [fs.disk[o] EXCEPT !.data = <<>>]),
           Puts(fs, fs', h, [obj |-> o, pos |-> 0, append |-> a])
    PROVE  Store!OpenEmptied(h, o)
<1> DEFINE e == [fs.disk[o] EXCEPT !.data = <<>>]
<1>1. DidOnly(fs, fs', o, e, e)
  BY DoesAll
<1>2. PutOnly(fs, fs', h, [obj |-> o, pos |-> 0, append |-> a])
  BY PutsAll
<1>3. Handles(fs)[h] = Closed
  BY DEF Handles, Hd
<1>4. \A j \in Handle : Handles(fs)[j] # Closed => Handles(fs)[j].obj # o
  <2>1. ASSUME NEW j \in Handle, Handles(fs)[j] # Closed
        PROVE  Handles(fs)[j].obj # o
    <3>1. Handles(fs)[j] = Hd(fs, j)
      BY DEF Handles
    <3>2. fs.fd[j].open
      BY <2>1, <3>1 DEF Hd
    <3>3. Hd(fs, j).obj = fs.fd[j].obj
      BY <3>2, NotClosed DEF Does
    <3> QED
      BY <3>1, <3>2, <3>3
  <2> QED
    BY <2>1
<1>5. Files(fs)[o] = fs.disk[o]
  BY <1>1 DEF DidOnly
<1>6. /\ Files(fs') = [Files(fs) EXCEPT ![o].data = <<>>]
      /\ fs'.disk = [fs.disk EXCEPT ![o].data = <<>>]
  <2> DEFINE F == Files(fs)
             D == fs.disk
  <2>1. Files(fs') = [F EXCEPT ![o] = e] /\ fs'.disk = [D EXCEPT ![o] = e] /\ F[o] = D[o]
    BY <1>1, <1>5 DEF DidOnly
  <2>2. e = [D[o] EXCEPT !.data = <<>>]
    OBVIOUS
  <2> HIDE DEF F, D, e
  <2>3. /\ Files(fs') = [F EXCEPT ![o].data = <<>>]
        /\ fs'.disk = [D EXCEPT ![o].data = <<>>]
    BY <2>1, <2>2
  <2> QED
    BY <2>3 DEF F, D
<1>7. \E x \in BOOLEAN :
        Handles(fs') = [g \in Handle |->
             IF g = h THEN [obj |-> o, pos |-> 0, append |-> x]
             ELSE IF g \in Store!OpenOn(o)
             THEN [Handles(fs)[g] EXCEPT !.pos = 0]
             ELSE Handles(fs)[g]]
  <2>1. Store!OpenOn(o) = {}
    BY <1>4, MappedTo DEF Store!OpenOn
  <2>2. Handles(fs') = [g \in Handle |->
             IF g = h THEN [obj |-> o, pos |-> 0, append |-> a] ELSE Handles(fs)[g]]
    BY <1>2 DEF PutOnly, Handles
  <2> QED
    BY <2>1, <2>2
<1> QED
  BY <1>3, <1>6, <1>7, MappedTo DEF Store!OpenEmptied, Store!Live, Store!Rewound

\* FileStore's Splice, within the file.
LEMMA SameSplice ==
    ASSUME NEW d \in Seq(Symbol), NEW p \in Nat, p <= Len(d), NEW b \in Seq(Symbol)
    PROVE  Store!Splice(d, p, b) = Splice(d, p, b)
<1> DEFINE end == IF p + Len(b) > Len(d) THEN p + Len(b) ELSE Len(d)
<1>1. end = MaxOf(Len(d), p + Len(b)) /\ end \in Nat
  BY DEF MaxOf
<1>2. Splice(d, p, b) = [i \in 1 .. end |->
        IF p < i /\ i <= p + Len(b) THEN b[i - p] ELSE IF i <= Len(d) THEN d[i] ELSE Hole]
  BY <1>1 DEF Splice
<1>3. Store!Splice(d, p, b) = [i \in 1 .. end |->
        IF p < i /\ i <= p + Len(b) THEN b[i - p] ELSE d[i]]
  BY DEF Store!Splice
<1>4. \A i \in 1 .. end : ~(p < i /\ i <= p + Len(b)) => i <= Len(d)
  OBVIOUS
<1> HIDE DEF end
<1> QED
  BY <1>1, <1>2, <1>3, <1>4

\* What a write does: b goes to p, and the flash has the bytes before it,
\* or those that were waiting too, or all of them.
Puts2(s, t, h, b) ==
    Puts(s, t, h, [Hd(s, h) EXCEPT !.pos = IF Appends(s, h) THEN 0 ELSE @ + Len(b)])

WritePoint(s, h) ==
    IF Appends(s, h) THEN Len(View(s, s.fd[h].obj).data) ELSE s.fd[h].fdoffset

WithBytes(x, d) == [x EXCEPT !.data = d]

LEMMA WriteMaps ==
    ASSUME NEW h \in Handle, fs.fd[h].open, NEW o, fs.fd[h].obj = o,
           NEW b \in Data, b \in Seq(Symbol),
           NEW p, p = WritePoint(fs, h), p <= Len(View(fs, o).data),
           View(fs, o).data \in Seq(Symbol),
           NEW v, v = WithBytes(View(fs, o), Splice(View(fs, o).data, p, b)),
           NEW f \in {fs.disk[o], View(fs, o), v},
           Does(fs, fs', o, v, f), Puts2(fs, fs', h, b)
    PROVE  Store!Write(h, b)
<1> DEFINE np == IF Appends(fs, h) THEN 0 ELSE Hd(fs, h).pos + Len(b)
<1>1. DidOnly(fs, fs', o, v, f)
  BY DoesAll
<1>2. Puts(fs, fs', h, [Hd(fs, h) EXCEPT !.pos = np])
  BY DEF Puts2
<1> HIDE DEF np
<1>3. PutOnly(fs, fs', h, [Hd(fs, h) EXCEPT !.pos = np])
  BY <1>2, PutsAll
<1> DEFINE H == Handles(fs)
           F == Files(fs)
<1>4. H[h] = Hd(fs, h) /\ F[o] = View(fs, o)
  BY <1>1, <1>3 DEF PutOnly, DidOnly
<1>5. /\ Hd(fs, h) # Closed /\ Hd(fs, h).obj = o /\ o \in ObjId
      /\ Hd(fs, h).append = Appends(fs, h)
      /\ Hd(fs, h).pos = IF Appends(fs, h) THEN 0 ELSE fs.fd[h].fdoffset
  BY NotClosed DEF Does
<1>6. Handles(fs') = [H EXCEPT ![h].pos = np]
  BY <1>3, <1>4, Zenon DEF PutOnly
<1>7. np = IF H[h].append THEN 0 ELSE H[h].pos + Len(b)
  BY <1>4, <1>5 DEF np
<1>8. p = IF H[h].append THEN Len(F[o].data) ELSE H[h].pos
  BY <1>4, <1>5 DEF WritePoint
<1>9. v = [F[o] EXCEPT !.data = Splice(F[o].data, p, b)]
  BY <1>4 DEF WithBytes
<1>10. p \in Nat /\ Splice(F[o].data, p, b) = Store!Splice(F[o].data, p, b)
  <2>1. p \in Nat
    <3>1. fs.fd[h].fdoffset \in Nat
      BY OpenObject, Fields DEF FdRec, Does
    <3> QED
      BY <3>1 DEF WritePoint
  <2> QED
    BY <2>1, <1>4, SameSplice
<1>11. Files(fs') = [F EXCEPT ![o] = v] /\ fs'.disk = [fs.disk EXCEPT ![o] = f]
  BY <1>1, Zenon DEF DidOnly
<1>12. f \in {fs.disk[o], F[o], Files(fs')[o]}
  <2>1. Files(fs')[o] = v
    BY <1>5, <1>11 DEF Files
  <2> QED
    BY <2>1, <1>4
<1>13. Files(fs') = [F EXCEPT ![o].data = Store!Splice(@, p, b)]
  <2> HIDE DEF F
  <2> QED
    BY <1>9, <1>10, <1>11
<1> DEFINE x == H[h].obj
<1>14. x = o
  BY <1>4, <1>5
<1>15. H[h] # Closed
  BY <1>4, <1>5
<1> HIDE DEF x
<1>16. /\ Files(fs') = [F EXCEPT ![x].data = Store!Splice(@, p, b)]
       /\ f \in {fs.disk[x], F[x], Files(fs')[x]}
       /\ fs'.disk = [fs.disk EXCEPT ![x] = f]
  <2> HIDE DEF F, H
  <2> QED
    BY <1>8, <1>11, <1>12, <1>13, <1>14
<1>17. np = Store!Beyond(h, b)
  BY <1>7, MappedTo DEF Store!Beyond
<1>18. p = Store!Point(h)
  <2>1. Store!Point(h) = IF H[h].append THEN Len(F[x].data) ELSE H[h].pos
    BY MappedTo DEF Store!Point, x
  <2> HIDE DEF F, H
  <2> QED
    BY <1>8, <1>14, <2>1
<1>19. /\ Handles(fs') = [H EXCEPT ![h].pos = Store!Beyond(h, b)]
       /\ Files(fs') = [F EXCEPT ![x].data = Store!Splice(@, Store!Point(h), b)]
  <2> HIDE DEF F, H
  <2> QED
    BY <1>6, <1>16, <1>17, <1>18
<1>20. Files(fs') = Store!Written(h, b)
  BY <1>19, MappedTo DEF Store!Written, x
<1>21. \E g \in {fs.disk[x], F[x], Store!Written(h, b)[x]} : fs'.disk = [fs.disk EXCEPT ![x] = g]
  <2> HIDE DEF F
  <2> QED
    BY <1>16, <1>20
<1>22. Store!Reached(h, b) = {fs.disk[x], F[x], Store!Written(h, b)[x]}
  BY MappedTo DEF Store!Reached, x
<1>23. \E g \in Store!Reached(h, b) : fs'.disk = [fs.disk EXCEPT ![x] = g]
  BY <1>21, <1>22, Zenon
<1> QED
  BY <1>15, <1>19, <1>20, <1>23, MappedTo DEF Store!Write, x

LEMMA RemoveMaps ==
    ASSUME NEW o, fs.disk[o] # NoFile, Does(fs, fs', o, NoFile, NoFile),
           \A h \in Handle : Hd(fs', h) =
               IF fs.fd[h].open /\ fs.fd[h].obj = o THEN Closed ELSE Hd(fs, h)
    PROVE  Store!Remove(o)
<1>1. DidOnly(fs, fs', o, NoFile, NoFile)
  BY DoesAll
<1>2. \A h \in Handle :
         Handles(fs)[h] # Closed /\ Handles(fs)[h].obj = o
         <=> fs.fd[h].open /\ fs.fd[h].obj = o
  <2>1. ASSUME NEW h \in Handle
        PROVE  Handles(fs)[h] # Closed /\ Handles(fs)[h].obj = o
               <=> fs.fd[h].open /\ fs.fd[h].obj = o
    <3>1. Handles(fs)[h] = Hd(fs, h)
      BY DEF Handles
    <3>2. fs.fd[h].open => Hd(fs, h) # Closed /\ Hd(fs, h).obj = fs.fd[h].obj
      BY NotClosed DEF Does
    <3>3. ~fs.fd[h].open => Hd(fs, h) = Closed
      BY DEF Hd
    <3> QED
      BY <3>1, <3>2, <3>3
  <2> QED
    BY <2>1
<1>3. \A h \in Handle : h \in Store!OpenOn(o) <=> fs.fd[h].open /\ fs.fd[h].obj = o
  BY <1>2, MappedTo DEF Store!OpenOn
<1>4. Handles(fs') = [h \in Handle |->
          IF h \in Store!OpenOn(o) THEN Closed ELSE Handles(fs)[h]]
  BY <1>3 DEF Handles
<1> QED
  BY <1>1, <1>4, MappedTo DEF Store!Remove, Store!Without, Store!Live, DidOnly

LEMMA RenameMaps ==
    ASSUME NEW o, fs.disk[o] # NoFile, NEW n, Named(n) = {}, View(fs, o) = fs.disk[o],
           Does(fs, fs', o, [fs.disk[o] EXCEPT !.name = n], [fs.disk[o] EXCEPT !.name = n]),
           \A h \in Handle : Hd(fs', h) = Hd(fs, h)
    PROVE  Store!Rename(o, n)
<1> DEFINE e == [fs.disk[o] EXCEPT !.name = n]
<1>1. DidOnly(fs, fs', o, e, e)
  BY DoesAll
<1>2. Handles(fs') = Handles(fs)
  BY DEF Handles
<1>3. Store!Unused(n)
  BY Unused
<1>4. /\ Files(fs') = [Files(fs) EXCEPT ![o].name = n]
      /\ fs'.disk = [fs.disk EXCEPT ![o].name = n]
  <2> DEFINE F == Files(fs)
             D == fs.disk
  <2>1. Files(fs') = [F EXCEPT ![o] = e] /\ fs'.disk = [D EXCEPT ![o] = e] /\ F[o] = D[o]
    BY <1>1 DEF DidOnly
  <2>2. e = [D[o] EXCEPT !.name = n]
    OBVIOUS
  <2> HIDE DEF F, D, e
  <2>3. /\ Files(fs') = [F EXCEPT ![o].name = n]
        /\ fs'.disk = [D EXCEPT ![o].name = n]
    BY <2>1, <2>2
  <2> QED
    BY <2>3 DEF F, D
<1> QED
  BY <1>2, <1>3, <1>4, MappedTo DEF Store!Rename, Store!Live

LEMMA UnmountMaps ==
    ASSUME fs'.disk = Files(fs), Files(fs') = Files(fs),
           \A h \in Handle : Hd(fs', h) = Closed
    PROVE  Store!Unmount
<1>1. Handles(fs') = [h \in Handle |-> Closed]
  BY DEF Handles
<1> QED
  BY <1>1, MappedTo DEF Store!Unmount, Store!AllClosed

LEMMA PowerLossMaps ==
    ASSUME fs'.disk = fs.disk, Files(fs') = fs.disk,
           \A h \in Handle : Hd(fs', h) = Closed
    PROVE  Store!PowerLoss
<1>1. Handles(fs') = [h \in Handle |-> Closed]
  BY DEF Handles
<1> QED
  BY <1>1, MappedTo DEF Store!PowerLoss, Store!AllClosed

\* What FileStore knows does not change.
LEMMA StutterMaps ==
    ASSUME fs'.disk = fs.disk, \A o \in ObjId : View(fs', o) = View(fs, o),
           \A h \in Handle : Hd(fs', h) = Hd(fs, h)
    PROVE  UNCHANGED Store!vars
<1>1. Handles(fs') = Handles(fs) /\ Files(fs') = Files(fs)
  BY DEF Handles, Files
<1> QED
  BY <1>1, MappedTo DEF Store!vars

----------------------------------------------------------------------------
(* The calls.                                                              *)

\* What a call is for FileStore: one of its steps, or none.
Implemented == Healthy(fs') /\ (Store!Next \/ UNCHANGED Store!vars)

LEMMA SameAnswer ==
    ASSUME NEW s, Healthy(s)
    PROVE  [s EXCEPT !.res = "OK"] = s
BY DEF Healthy, Sound, State

\* A descriptor that stays is the same to FileStore.
LEMMA SameHandle ==
    ASSUME NEW s, NEW t, NEW h, t.fd[h].open = s.fd[h].open, t.fd[h].obj = s.fd[h].obj,
           t.fd[h].flags = s.fd[h].flags,
           s.fd[h].open /\ ~Appends(s, h) => t.fd[h].fdoffset = s.fd[h].fdoffset
    PROVE  Hd(t, h) = Hd(s, h) /\ Appends(t, h) = Appends(s, h)
BY DEF Hd, HdOf, Appends

LEMMA StaysSame ==
    ASSUME NEW s, NEW t, Stays(s, t)
    PROVE  \A h \in Handle : Hd(t, h) = Hd(s, h)
BY SameHandle DEF Stays

LEMMA SyncedDoes ==
    ASSUME NEW s, NEW t, NEW o \in ObjId, Healthy(s), SyncedTo(s, t, o)
    PROVE  Does(s, t, o, View(s, o), View(s, o))
<1>1. View(t, o) = View(s, o) /\ t.disk[o] = View(s, o)
  BY BareView DEF SyncedTo
<1>2. \A x \in ObjId \ {o} : View(t, x) = View(s, x) /\ t.disk[x] = s.disk[x]
  BY SameView DEF SyncedTo, Elsewhere
<1> QED
  BY <1>1, <1>2 DEF Does, SyncedTo

LEMMA FflushImplements ==
    ASSUME Healthy(fs), NEW h \in Handle, Fflush(h, "never")
    PROVE  Implemented
<1> DEFINE t == FlushCache(fs, h, "never")
           o == fs.fd[h].obj
<1>1. fs.fd[h].open /\ fs' = [t EXCEPT !.res = "OK"]
  BY DEF Fflush, Done, Fd
<1>2. SyncedTo(fs, t, o) /\ o \in ObjId
  BY <1>1, FlushSyncs, OpenObject
<1> HIDE DEF t
<1>3. fs' = t
  BY <1>1, <1>2, SameAnswer DEF SyncedTo
<1>4. Does(fs, fs', o, View(fs, o), View(fs, o))
  BY <1>2, <1>3, SyncedDoes
<1>5. \A j \in Handle : Hd(fs', j) = Hd(fs, j)
  BY <1>2, <1>3, StaysSame DEF SyncedTo
<1>6. Puts(fs, fs', h, Hd(fs, h))
  BY <1>5 DEF Puts
<1>7. Store!Flush(h)
  BY <1>1, <1>4, <1>6, FlushMaps
<1> QED
  BY <1>4, <1>7 DEF Implemented, Does, Store!Next

\* Only the position of h is another.
Moved(s, t, h, n) == t = [s EXCEPT !.fd[h].fdoffset = n]

\* A position within the file, after a flush.
LEMMA MovedImplements ==
    ASSUME Healthy(fs), NEW h \in Handle, fs.fd[h].open,
           NEW s, s = FlushCache(fs, h, "never"),
           NEW n \in Nat, n <= Len(s.disk[fs.fd[h].obj].data),
           Moved(s, fs', h, n)
    PROVE  Implemented
<1> DEFINE o == fs.fd[h].obj
           t == [s EXCEPT !.fd[h].fdoffset = n]
<1>1. SyncedTo(fs, s, o) /\ o \in ObjId
  BY FlushSyncs, OpenObject
<1>2. Healthy(s) /\ s.fd[h].obj = o /\ s.fd[h].open /\ Appends(s, h) = Appends(fs, h)
  BY <1>1 DEF SyncedTo, Stays, Appends
<1>3. /\ s \in State /\ Len(s.disk[o].data) \in Nat /\ Len(s.disk[o].data) <= MaxSize
      /\ MaxSize \in Nat
  BY <1>2, OpenObject, Constants
<1>4. n <= Reach(s, h, Len(s.disk[o].data))
  <2>1. Reach(s, h, Len(s.disk[o].data)) \in Nat
        /\ Len(s.disk[o].data) <= Reach(s, h, Len(s.disk[o].data))
    BY <1>3, ReachIsNat
  <2> QED
    BY <1>3, <2>1
<1>5. /\ Healthy(t) /\ OnlyAt(s, t, h)
      /\ t.fd[h].fdoffset = n /\ t.fd[h].cp = s.fd[h].cp
  BY <1>2, <1>4, MovingStays
<1>6. fs' = t
  BY DEF Moved
<1> HIDE DEF t
<1>7. Does(fs, s, o, View(fs, o), View(fs, o))
  BY <1>1, SyncedDoes
<1>8. \A x \in ObjId : View(t, x) = View(s, x) /\ t.disk[x] = s.disk[x]
  <2>1. \A x \in ObjId : View(t, x) = View(s, x)
    BY <1>5, OnlyAtViews
  <2>2. t.disk = s.disk
    BY <1>5 DEF OnlyAt
  <2> QED
    BY <2>1, <2>2
<1>9. Does(fs, fs', o, View(fs, o), View(fs, o))
  BY <1>5, <1>6, <1>7, <1>8 DEF Does
<1>10. \A j \in Handle : Hd(s, j) = Hd(fs, j)
  BY <1>1, StaysSame DEF SyncedTo
<1>11. \A j \in Handle \ {h} : Hd(t, j) = Hd(s, j)
  BY <1>5, SameHandle DEF OnlyAt
<1> DEFINE p == IF Appends(fs, h) THEN 0 ELSE n
<1>12. Hd(t, h) = [Hd(fs, h) EXCEPT !.pos = p]
  <2>1. t.fd[h].open /\ t.fd[h].obj = o /\ t.fd[h].fdoffset = n
    BY <1>2, <1>5 DEF OnlyAt
  <2>2. Appends(t, h) = Appends(fs, h)
    BY <1>2, <1>5 DEF OnlyAt, Appends
  <2> QED
    BY <2>1, <2>2 DEF Hd, HdOf
<1>13. Puts(fs, fs', h, [Hd(fs, h) EXCEPT !.pos = p])
  BY <1>6, <1>10, <1>11, <1>12 DEF Puts
<1>14. p <= Len(View(fs, o).data) /\ p \in 0 .. MaxSize
  <2>1. View(fs, o) = s.disk[o]
    BY <1>1 DEF SyncedTo
  <2> QED
    BY <2>1, <1>3
<1> HIDE DEF p, o
<1>15. PICK q, x : q = p /\ x = o
  OBVIOUS
<1>16. Store!Move(h, q)
  BY <1>9, <1>13, <1>14, <1>15, MoveMaps DEF o
<1>17. Store!Next
  BY <1>14, <1>15, <1>16 DEF Store!Next
<1> QED
  BY <1>5, <1>6, <1>17 DEF Implemented

\* A healthy descriptor that has a size has that of its object.
LEMMA SizeIsLength ==
    ASSUME NEW s, Healthy(s), NEW h \in Handle, s.fd[h].open,
           NEW d, d = s.disk[s.fd[h].obj].data
    PROVE  /\ d \in Seq(Symbol) /\ Len(d) \in Nat /\ s.fd[h].size \in Nat
           /\ s.fd[h].size = Undefined <=> (d = <<>> /\ s.fd[h].size # 0)
           /\ s.fd[h].size # Undefined => s.fd[h].size = Len(d)
           /\ d = <<>> <=> Len(d) = 0
<1>1. /\ d \in Seq(Symbol) /\ Len(d) \in Nat /\ Len(d) <= MaxSize
      /\ s \in State
  BY OpenObject
<1>2. s.fd[h].size \in Nat
  BY <1>1, Fields DEF FdRec
<1>3. \/ s.fd[h].size = SizeOf(d)
      \/ s.fd[h].size = 0 /\ d = <<>>
  BY DEF Healthy, Informed, Knows, Coherent
<1>4. d = <<>> <=> Len(d) = 0
  BY <1>1, EmptySeq
<1> QED
  BY <1>1, <1>2, <1>3, <1>4, Constants DEF SizeOf

LEMMA FlushedIs ==
    ASSUME Healthy(fs), NEW h \in Handle, fs.fd[h].open
    PROVE  /\ Flushed(h, "never") = FlushCache(fs, h, "never")
           /\ SyncedTo(fs, FlushCache(fs, h, "never"), fs.fd[h].obj)
<1>1. SyncedTo(fs, FlushCache(fs, h, "never"), fs.fd[h].obj)
  BY FlushSyncs
<1>2. Healthy(FlushCache(fs, h, "never"))
  BY <1>1 DEF SyncedTo
<1> QED
  BY <1>1, <1>2, SameAnswer DEF Flushed

LEMMA FlushImplements ==
    ASSUME Healthy(fs), NEW h \in Handle, fs.fd[h].open,
           fs' = FlushCache(fs, h, "never")
    PROVE  Implemented
<1> DEFINE t == FlushCache(fs, h, "never")
<1>1. Flushed(h, "never") = t
  BY FlushedIs
<1>2. Flushed(h, "never") = [t EXCEPT !.res = "OK"]
  BY DEF Flushed
<1>3. fs' = [t EXCEPT !.res = "OK"]
  BY <1>1, <1>2
<1>4. Fflush(h, "never")
  BY <1>3 DEF Fflush, Done, Fd
<1> QED
  BY <1>4, FflushImplements

\* The same, said of a call that flushed and answered.
MovedAndAnswered(s, t, h, n) == t = [[s EXCEPT !.fd[h].fdoffset = n] EXCEPT !.res = "OK"]

LEMMA MoveAnswers ==
    ASSUME Healthy(fs), NEW h \in Handle, fs.fd[h].open,
           NEW s, s = FlushCache(fs, h, "never"),
           NEW n \in Nat, n <= Len(s.disk[fs.fd[h].obj].data),
           MovedAndAnswered(s, fs', h, n)
    PROVE  Implemented
<1> DEFINE t == [s EXCEPT !.fd[h].fdoffset = n]
<1>1. Healthy(s) /\ s.res = "OK" /\ s \in State
  BY FlushedIs DEF SyncedTo, Healthy, Sound
<1>2. t \in [disk : {s.disk}, fd : {t.fd}, cache : {s.cache}, res : {"OK"}]
  BY <1>1 DEF State
<1>3. fs' = [t EXCEPT !.res = "OK"]
  BY DEF MovedAndAnswered
<1> HIDE DEF t
<1>4. fs' = t
  BY <1>2, <1>3
<1>5. Moved(s, fs', h, n)
  BY <1>4 DEF Moved, t
<1> QED
  BY <1>5, MovedImplements

LEMMA ReadImplements ==
    ASSUME Healthy(fs), NEW h \in Handle, NEW n \in Lengths, Read(h, n, "never")
    PROVE  Implemented
<1> DEFINE s == Flushed(h, "never")
           f == s.fd[h]
           m == MinOf(n, f.size - f.fdoffset)
           d == s.disk[f.obj].data
           readable == \A i \in f.fdoffset .. f.fdoffset + m - 1 : HasPage(d, i)
           t == [s EXCEPT !.fd[h].fdoffset = @ + m]
           k == f.fdoffset + m
<1>1. fs.fd[h].open
  BY DEF Read, May, Fd
<1>2. \/ m > 0 /\ readable /\ fs' = [t EXCEPT !.res = "OK"]
      \/ fs' = [s EXCEPT !.res = "OK"]
  BY DEF Read, Done
<1>3. s = FlushCache(fs, h, "never") /\ SyncedTo(fs, s, fs.fd[h].obj)
  BY <1>1, FlushedIs
<1> HIDE DEF s
<1>4. Healthy(s) /\ s.fd[h].open /\ s.fd[h].obj = fs.fd[h].obj /\ s \in State
  BY <1>1, <1>3 DEF SyncedTo, Stays, Healthy, Sound
<1>5. CASE fs' = [s EXCEPT !.res = "OK"]
  BY <1>1, <1>3, <1>4, <1>5, SameAnswer, FlushImplements
<1>6. CASE m > 0 /\ readable /\ fs' = [t EXCEPT !.res = "OK"]
  <2>1. f.fdoffset \in Nat /\ n \in Nat /\ f.size \in Nat
    BY <1>4, Fields, Constants DEF FdRec
  <2>2. /\ d \in Seq(Symbol) /\ Len(d) \in Nat
        /\ f.size = Undefined <=> (d = <<>> /\ f.size # 0)
        /\ f.size # Undefined => f.size = Len(d)
    BY <1>4, SizeIsLength
  <2>3. m \in Int /\ m <= f.size - f.fdoffset /\ m > 0
    BY <1>6, <2>1 DEF MinOf
  <2>4. f.size = Len(d)
    <3>1. CASE f.size = Undefined
      <4>1. d = <<>>
        BY <2>2, <3>1
      <4>2. f.fdoffset \in f.fdoffset .. f.fdoffset + m - 1
        BY <2>1, <2>3
      <4>3. HasPage(d, f.fdoffset)
        BY <1>6, <4>2
      <4> QED
        BY <4>1, <4>3 DEF HasPage
    <3> QED
      BY <2>2, <3>1
  <2> HIDE DEF m
  <2>5. k \in Nat /\ k <= Len(d)
    <3> DEFINE a == f.fdoffset
               l == Len(d)
    <3>1. a \in Nat /\ l \in Nat /\ m \in Int /\ m > 0 /\ m <= l - a /\ k = a + m
      BY <2>1, <2>2, <2>3, <2>4
    <3> HIDE DEF a, l, k
    <3>2. k \in Nat /\ k <= l
      BY <3>1
    <3> QED
      BY <3>2 DEF l
  <2>6. t = [s EXCEPT !.fd[h].fdoffset = k]
    OBVIOUS
  <2>7. MovedAndAnswered(s, fs', h, k)
    BY <1>6, <2>6 DEF MovedAndAnswered
  <2>8. k <= Len(s.disk[fs.fd[h].obj].data)
    BY <1>4, <2>5
  <2> HIDE DEF k
  <2> QED
    BY <1>1, <1>3, <2>5, <2>7, <2>8, MoveAnswers
<1> QED
  BY <1>2, <1>5, <1>6

LEMMA SeekImplements ==
    ASSUME Healthy(fs), NEW h \in Handle, NEW p \in 0 .. MaxSize, Seek(h, p, "never")
    PROVE  Implemented
<1> DEFINE s == Flushed(h, "never")
           f == s.fd[h]
           size == IF f.size = Undefined THEN 0 ELSE f.size
           k == MinOf(p, size)
           d == s.disk[f.obj].data
<1>1. fs.fd[h].open
  BY DEF Seek, Fd
<1>2. MovedAndAnswered(s, fs', h, k)
  BY DEF Seek, Done, MovedAndAnswered
<1>3. s = FlushCache(fs, h, "never") /\ SyncedTo(fs, s, fs.fd[h].obj)
  BY <1>1, FlushedIs
<1> HIDE DEF s
<1>4. Healthy(s) /\ s.fd[h].open /\ s.fd[h].obj = fs.fd[h].obj
  BY <1>1, <1>3 DEF SyncedTo, Stays
<1>5. /\ Len(d) \in Nat /\ f.size \in Nat
      /\ f.size # Undefined => f.size = Len(d)
  BY <1>4, SizeIsLength
<1>6. p \in Nat
  BY Constants
<1>7. size \in Nat /\ size <= Len(d)
  BY <1>5
<1> HIDE DEF size
<1>8. k \in Nat /\ k <= Len(s.disk[fs.fd[h].obj].data)
  <2>1. k \in Nat /\ k <= size
    BY <1>6, <1>7, Minimum
  <2> QED
    BY <1>4, <1>5, <1>7, <2>1
<1> HIDE DEF k
<1> QED
  BY <1>1, <1>2, <1>3, <1>8, MoveAnswers

----------------------------------------------------------------------------
(* Slots.                                                                  *)

\* All of Healthy but what the descriptors know.
Fit(s) == Sound(s) /\ Paged(s) /\ Bounded(s) /\ Based(s) /\ Placed(s)

\* Flash and cache are as they were; descriptors that are open were, with
\* the position they had, or are at the start.
Held(s, t) ==
    /\ t.disk = s.disk /\ t.cache = s.cache
    /\ \A j \in Handle : t.fd[j].open =>
          \/ /\ s.fd[j].open /\ t.fd[j].obj = s.fd[j].obj
             /\ t.fd[j].flags = s.fd[j].flags /\ t.fd[j].cp = s.fd[j].cp
             /\ t.fd[j].fdoffset = s.fd[j].fdoffset
          \/ t.fd[j].fdoffset = 0

LEMMA HeldStays ==
    ASSUME NEW s, NEW t, Bounded(s), Based(s), Placed(s), Held(s, t), t \in State
    PROVE  /\ Bounded(t) /\ Based(t) /\ Placed(t)
           /\ \A x \in ObjId : View(t, x) = View(s, x) /\ t.disk[x] = s.disk[x]
<1>1. t.disk = s.disk /\ t.cache = s.cache
  BY DEF Held
<1>2. Bounded(t) /\ Based(t)
  BY <1>1, StillBased
<1>3. ASSUME NEW x \in ObjId, Exists(t, x), NEW j \in Handle,
             t.fd[j].open, t.fd[j].obj = x, ~Appends(t, j)
      PROVE  t.fd[j].fdoffset <= Reach(t, j, Len(t.disk[x].data))
  <2>1. Len(t.disk[x].data) \in Nat /\ Exists(s, x)
    BY <1>1, <1>3, Fields DEF Exists, FileRec
  <2>2. Reach(t, j, Len(t.disk[x].data)) \in Nat
    BY <2>1, ReachIsNat
  <2>3. CASE t.fd[j].fdoffset = 0
    BY <2>2, <2>3
  <2>4. CASE t.fd[j].fdoffset # 0
    <3>1. /\ s.fd[j].open /\ t.fd[j].obj = s.fd[j].obj
          /\ t.fd[j].flags = s.fd[j].flags /\ t.fd[j].cp = s.fd[j].cp
          /\ t.fd[j].fdoffset = s.fd[j].fdoffset
      BY <1>3, <2>4 DEF Held
    <3>2. ~Appends(s, j) /\ s.fd[j].obj = x
      BY <1>3, <3>1 DEF Appends
    <3>3. s.fd[j].fdoffset <= Reach(s, j, Len(s.disk[x].data))
      BY <2>1, <3>1, <3>2 DEF Placed, Room
    <3>4. Reach(t, j, Len(t.disk[x].data)) = Reach(s, j, Len(s.disk[x].data))
      BY <1>1, <3>1 DEF Reach
    <3> QED
      BY <3>1, <3>3, <3>4
  <2> QED
    BY <2>3, <2>4
<1>4. Placed(t)
  BY <1>3 DEF Placed, Room
<1>5. \A x \in ObjId : View(t, x) = View(s, x) /\ t.disk[x] = s.disk[x]
  BY <1>1 DEF View, PagesFor, CachePageOf
<1> QED
  BY <1>2, <1>4, <1>5

\* A slot that is given back.
GivenBack(s, t, h) ==
    /\ Held(s, t) /\ t.res = s.res /\ Hd(t, h) = Closed /\ ~t.fd[h].open
    /\ \A j \in Handle \ {h} : t.fd[j] = s.fd[j] /\ Hd(t, j) = Hd(s, j)

LEMMA ShuttingHolds ==
    ASSUME NEW s \in State, NEW h \in Handle
    PROVE  GivenBack(s, [s EXCEPT !.fd[h] = Shut(@)], h)
<1> DEFINE g == Shut(s.fd[h])
           t == [s EXCEPT !.fd[h] = Shut(@)]
<1>1. g \in FdRec /\ g.open = FALSE
  BY Fields, Shutting
<1>2. t = [s EXCEPT !.fd[h] = g]
  OBVIOUS
<1> HIDE DEF g, t
<1>3. /\ t \in State /\ t.disk = s.disk /\ t.cache = s.cache /\ t.res = s.res
      /\ t.fd[h] = g /\ \A j \in Handle \ {h} : t.fd[j] = s.fd[j]
  BY <1>1, <1>2, SetSlot
<1>4. Held(s, t)
  BY <1>1, <1>3 DEF Held
<1>5. Hd(t, h) = Closed /\ ~t.fd[h].open
  BY <1>1, <1>3 DEF Hd
<1>6. \A j \in Handle \ {h} : Hd(t, j) = Hd(s, j)
  BY <1>3, SameHandle
<1> QED
  BY <1>3, <1>4, <1>5, <1>6 DEF GivenBack, t

LEMMA CloseImplements ==
    ASSUME Healthy(fs), Healthy(fs) => Keeps(fs, fs'), NeverDirect, NeverFresh,
           NEW h \in Handle, Close(h, "never")
    PROVE  Implemented
<1> DEFINE s == FlushCache(fs, h, "never")
           t == [s EXCEPT !.fd[h] = Shut(@)]
           u == IF Ok(s) THEN t ELSE s
           o == fs.fd[h].obj
<1>1. fs.fd[h].open /\ fs' = [u EXCEPT !.res = "OK"]
  BY DEF Close, Fd, Done
<1>2. SyncedTo(fs, s, o) /\ o \in ObjId
  BY <1>1, FlushSyncs, OpenObject
<1> HIDE DEF s
<1>3. Healthy(s) /\ s \in State /\ Ok(s)
  BY <1>2 DEF SyncedTo, Healthy, Sound, Ok
<1>4. GivenBack(s, t, h)
  BY <1>3, ShuttingHolds
<1>5. t \in [disk : {s.disk}, fd : {t.fd}, cache : {s.cache}, res : {"OK"}]
  BY <1>3 DEF State, Ok
<1> HIDE DEF t
<1>6. fs' = t
  BY <1>1, <1>3, <1>5
<1>7. Sound(fs') /\ Paged(fs') /\ Informed(fs')
  BY DEF Keeps, Healthy
<1>8. fs' \in State
  BY <1>7 DEF Sound
<1>9. Held(s, fs') /\ fs'.res = "OK"
  BY <1>3, <1>4, <1>6 DEF GivenBack, Ok
<1>10. Bounded(s) /\ Based(s) /\ Placed(s)
  BY <1>3 DEF Healthy
<1>11. /\ Bounded(fs') /\ Based(fs') /\ Placed(fs')
       /\ \A x \in ObjId : View(fs', x) = View(s, x) /\ fs'.disk[x] = s.disk[x]
  BY <1>8, <1>9, <1>10, HeldStays
<1>12. Healthy(fs')
  BY <1>7, <1>9, <1>11 DEF Healthy
<1>13. Does(fs, s, o, View(fs, o), View(fs, o))
  BY <1>2, SyncedDoes
<1>14. Does(fs, fs', o, View(fs, o), View(fs, o))
  BY <1>11, <1>12, <1>13 DEF Does
<1>15. \A j \in Handle : Hd(s, j) = Hd(fs, j)
  BY <1>2, StaysSame DEF SyncedTo
<1>16. Puts(fs, fs', h, Closed)
  BY <1>4, <1>6, <1>15 DEF Puts, GivenBack
<1>17. Store!Close(h)
  BY <1>1, <1>14, <1>16, CloseMaps
<1> QED
  BY <1>12, <1>17 DEF Implemented, Store!Next

----------------------------------------------------------------------------
(* Creating and opening.                                                   *)

\* FileStore sees no difference.
SameStore(s, t) ==
    /\ Healthy(t)
    /\ \A x \in ObjId : View(t, x) = View(s, x) /\ t.disk[x] = s.disk[x]
    /\ \A j \in Handle : Hd(t, j) = Hd(s, j) /\ t.fd[j].open = s.fd[j].open
                         /\ t.fd[j].obj = s.fd[j].obj

LEMMA SameDoes ==
    ASSUME NEW s, NEW t, NEW u, NEW o, NEW v, NEW f,
           Healthy(s), SameStore(s, t), Does(t, u, o, v, f)
    PROVE  Does(s, u, o, v, f)
BY DEF SameStore, Does

LEMMA SamePuts ==
    ASSUME NEW s, NEW t, NEW u, NEW h, NEW x, SameStore(s, t), Puts(t, u, h, x)
    PROVE  Puts(s, u, h, x)
BY DEF SameStore, Puts

LEMMA SameImplements ==
    ASSUME Healthy(fs), SameStore(fs, fs')
    PROVE  Implemented
<1>1. \A x \in ObjId : View(fs', x) = View(fs, x) /\ fs'.disk[x] = fs.disk[x]
  BY DEF SameStore
<1>2. \A j \in Handle : Hd(fs', j) = Hd(fs, j)
  BY DEF SameStore
<1>3. /\ fs.disk \in [ObjId -> FileRec \cup {NoFile}]
      /\ fs'.disk \in [ObjId -> FileRec \cup {NoFile}]
  BY Fields DEF SameStore, Healthy, Sound
<1>4. fs'.disk = fs.disk
  BY <1>1, <1>3
<1>5. UNCHANGED Store!vars
  BY <1>1, <1>2, <1>4, StutterMaps
<1> QED
  BY <1>5 DEF Implemented, SameStore

LEMMA TakingIsSame ==
    ASSUME Healthy(fs), NEW h \in Handle, ~fs.fd[h].open
    PROVE  SameStore(fs, Taken(h)) /\ Taken(h).fd[h].scored = TRUE
<1> DEFINE g == [fs.fd[h] EXCEPT !.scored = TRUE]
           t == Taken(h)
<1>1. fs \in State /\ Sound(fs) /\ fs.fd[h] \in FdRec
  BY Fields DEF Healthy, Sound
<1>2. t = [fs EXCEPT !.fd[h] = g]
  BY DEF Taken
<1>3. g \in FdRec /\ g.open = FALSE /\ g.obj = fs.fd[h].obj /\ g.scored = TRUE
  BY <1>1 DEF FdRec
<1>4. Preserves(fs, t)
  BY <1>1, Taking
<1> HIDE DEF g, t
<1>5. /\ t \in State /\ t.disk = fs.disk /\ t.cache = fs.cache /\ t.res = fs.res
      /\ t.fd[h] = g /\ \A j \in Handle \ {h} : t.fd[j] = fs.fd[j]
  BY <1>1, <1>2, <1>3, SetSlot
<1>6. Held(fs, t)
  BY <1>3, <1>5 DEF Held
<1>7. Bounded(fs) /\ Based(fs) /\ Placed(fs)
  BY DEF Healthy
<1>8. /\ Bounded(t) /\ Based(t) /\ Placed(t)
      /\ \A x \in ObjId : View(t, x) = View(fs, x) /\ t.disk[x] = fs.disk[x]
  BY <1>5, <1>6, <1>7, HeldStays
<1>9. Healthy(t)
  BY <1>4, <1>5, <1>8 DEF Healthy, Preserves
<1>10. \A j \in Handle : Hd(t, j) = Hd(fs, j) /\ t.fd[j].open = fs.fd[j].open
                         /\ t.fd[j].obj = fs.fd[j].obj
  <2>1. \A j \in Handle \ {h} : Hd(t, j) = Hd(fs, j) /\ t.fd[j].open = fs.fd[j].open
                               /\ t.fd[j].obj = fs.fd[j].obj
    BY <1>5, SameHandle
  <2>2. fs.fd[h].open = FALSE
    BY <1>1 DEF FdRec
  <2>3. Hd(t, h) = Closed /\ Hd(fs, h) = Closed
    BY <1>3, <1>5, <2>2 DEF Hd
  <2> QED
    BY <1>3, <1>5, <2>1, <2>2, <2>3
<1> QED
  BY <1>3, <1>5, <1>8, <1>9, <1>10 DEF SameStore, t

\* Object o is new, with name n and no bytes.
Created(s, t, o, n) ==
    /\ Healthy(t) /\ Does(s, t, o, EmptyFile(n), EmptyFile(n)) /\ Exists(t, o)
    /\ \A j \in Handle : Hd(t, j) = Hd(s, j) /\ t.fd[j].open = s.fd[j].open
                         /\ t.fd[j].scored = s.fd[j].scored

\* No page is of an object that does not exist, and no descriptor.
LEMMA Nobody ==
    ASSUME NEW s, Healthy(s), NEW o \in ObjId, s.disk[o] = NoFile
    PROVE  PagesFor(s, o) = {} /\ \A h \in Handle : s.fd[h].obj # o
<1>1. \A c \in CachePage : s.cache[c].wr => s.cache[c].obj # o
  BY PageFields DEF Exists
<1>2. \A h \in Handle : s.fd[h].open => s.fd[h].obj # o
  BY OpenObject DEF Exists
<1>3. \A h \in Handle : ~s.fd[h].open => s.fd[h].obj = NoObj
  BY DEF Healthy, Paged, Clean
<1> QED
  BY <1>1, <1>2, <1>3, Constants DEF PagesFor

LEMMA CreatingCreates ==
    ASSUME NEW s, Healthy(s), NEW o \in ObjId, s.disk[o] = NoFile, NEW n \in Name
    PROVE  Created(s, ObjectCreate(s, o, n), o, n)
<1> DEFINE x == EmptyFile(n)
           u == [s EXCEPT !.disk[o] = x]
           t == ObjectCreate(s, o, n)
<1>1. s \in State /\ Sound(s) /\ Informed(s) /\ Paged(s) /\ s.res = "OK"
  BY DEF Healthy, Sound
<1>2. x \in FileRec /\ x.data = <<>> /\ x # NoFile /\ Len(x.data) = 0
  <2>1. <<>> \in Seq(Symbol) /\ Len(<<>>) = 0
    OBVIOUS
  <2>2. x \in FileRec
    BY <2>1 DEF FileRec, EmptyFile
  <2> QED
    BY <2>1, <2>2, Constants DEF EmptyFile
<1>3. t = HeaderEvent(u, o, Undefined, FALSE, 0)
  BY DEF ObjectCreate, EmptyFile
<1>4. /\ Preserves(s, t) /\ Exists(t, o)
      /\ \A h \in Handle : /\ t.fd[h].open = s.fd[h].open
                           /\ t.fd[h].scored = s.fd[h].scored
  BY <1>1, Creating
<1> HIDE DEF x
<1>5. /\ u \in State /\ u.fd = s.fd /\ u.cache = s.cache /\ u.res = s.res
      /\ u.disk[o] = x /\ \A j \in ObjId \ {o} : u.disk[j] = s.disk[j]
  BY <1>1, <1>2, SetFile
<1> HIDE DEF u
<1>6. PagesFor(s, o) = {} /\ \A h \in Handle : s.fd[h].obj # o
  BY Nobody
<1>7. Sound(u)
  BY <1>1, <1>2, <1>5 DEF Sound, Exists
<1>8. Undefined \in Nat /\ FALSE \in BOOLEAN
  BY Constants
<1>9. \A h \in Handle : u.fd[h].obj # o
  BY <1>5, <1>6
<1>10. Quiet(u, HeaderEvent(u, o, Undefined, FALSE, 0), o, Undefined)
  BY <1>7, <1>8, <1>9, EventQuiet
<1>11. Evented(u, HeaderEvent(u, o, Undefined, FALSE, 0), o, Undefined)
  BY <1>7, <1>8, Events
<1> HIDE DEF t
<1>12. Quiet(u, t, o, Undefined) /\ Evented(u, t, o, Undefined)
  BY <1>3, <1>10, <1>11
<1>13. t.cache = s.cache /\ t.disk = u.disk /\ t.res = s.res
  BY <1>5, <1>12 DEF Quiet
<1>14. \A h \in Handle : t.fd[h].cp = s.fd[h].cp /\ t.fd[h].fdoffset = s.fd[h].fdoffset
  <2>1. \A h \in Handle : EventOffset(u, h, o, Undefined) = s.fd[h].fdoffset
    BY <1>5, <1>6 DEF EventOffset
  <2> QED
    BY <1>5, <1>12, <2>1 DEF Quiet
<1>15. \A h \in Handle : t.fd[h].open = s.fd[h].open /\ t.fd[h].obj = s.fd[h].obj
                         /\ t.fd[h].flags = s.fd[h].flags
  BY <1>5, <1>12 DEF Evented, Milder
<1>16. Bounded(t)
  BY <1>2, <1>5, <1>13, Constants DEF Healthy, Bounded, Exists
<1>17. Based(t)
  <2> SUFFICES ASSUME NEW c \in CachePage, t.cache[c].wr
               PROVE  /\ t.cache[c].offset <= Len(t.disk[t.cache[c].obj].data)
                      /\ End(t.cache[c]) <= MaxSize
    BY DEF Based
  <2>1. s.cache[c].wr /\ t.cache[c] = s.cache[c]
    BY <1>13
  <2>2. s.cache[c].obj \in ObjId \ {o}
    BY <2>1, <1>6, PageFields DEF PagesFor
  <2> QED
    BY <1>5, <1>13, <2>1, <2>2 DEF Healthy, Based
<1>18. Placed(t)
  <2> SUFFICES ASSUME NEW z \in ObjId, Exists(t, z), NEW j \in Handle,
                      t.fd[j].open, t.fd[j].obj = z, ~Appends(t, j)
               PROVE  t.fd[j].fdoffset <= Reach(t, j, Len(t.disk[z].data))
    BY DEF Placed, Room
  <2>1. s.fd[j].open /\ s.fd[j].obj = z /\ ~Appends(s, j) /\ z # o
    BY <1>6, <1>15 DEF Appends
  <2>2. t.disk[z] = s.disk[z] /\ Exists(s, z)
    BY <1>5, <1>13, <2>1 DEF Exists
  <2>3. s.fd[j].fdoffset <= Reach(s, j, Len(s.disk[z].data))
    BY <2>1, <2>2 DEF Healthy, Placed, Room
  <2>4. Reach(t, j, Len(t.disk[z].data)) = Reach(s, j, Len(s.disk[z].data))
    BY <1>13, <1>14, <2>2 DEF Reach
  <2> QED
    BY <1>14, <2>3, <2>4
<1>19. Healthy(t)
  BY <1>1, <1>4, <1>13, <1>16, <1>17, <1>18 DEF Healthy, Preserves
<1>20. View(t, o) = x /\ t.disk[o] = x
  <2>1. PagesFor(t, o) = {}
    BY <1>6, <1>13 DEF PagesFor
  <2> QED
    BY <1>5, <1>13, <2>1, BareView
<1>21. \A z \in ObjId \ {o} : View(t, z) = View(s, z) /\ t.disk[z] = s.disk[z]
  <2>1. \A z \in ObjId \ {o} : t.disk[z] = s.disk[z] /\ SamePages(s, t, z)
    BY <1>5, <1>13 DEF SamePages
  <2> QED
    BY <2>1, SameView
<1>22. Does(s, t, o, x, x)
  BY <1>19, <1>20, <1>21 DEF Does
<1>23. \A j \in Handle : Hd(t, j) = Hd(s, j)
  BY <1>14, <1>15, SameHandle
<1> QED
  BY <1>4, <1>19, <1>22, <1>23 DEF Created, t, x

\* Slot h is open on o, at the start.
OpenedAt(s, t, h, o, a) ==
    /\ Healthy(t) /\ t.disk = s.disk
    /\ \A x \in ObjId : View(t, x) = View(s, x) /\ t.disk[x] = s.disk[x]
    /\ t.fd[h].open /\ t.fd[h].obj = o /\ t.fd[h].cp = NoPage
    /\ t.fd[h].fdoffset = 0
    /\ \A j \in Handle \ {h} : t.fd[j] = s.fd[j]
    /\ Puts(s, t, h, [obj |-> o, pos |-> 0, append |-> a])

LEMMA OpeningOpens ==
    ASSUME NEW s, Healthy(s), NEW h \in Handle, ~s.fd[h].open, s.fd[h].scored,
           NEW o, Exists(s, o), NEW flags, "DIRECT" \notin flags
    PROVE  OpenedAt(s, OpenByPage(s, h, o, flags), h, o, "APPEND" \in flags)
<1> DEFINE t == OpenByPage(s, h, o, flags)
<1>1. Sound(s) /\ Paged(s) /\ Informed(s) /\ s \in State /\ s.res = "OK" /\ o \in ObjId
  BY DEF Healthy, Sound, Exists
<1>2. Opened(s, t, h, o) /\ Paged(t)
  BY <1>1, Opening
<1>3. t.fd[h].fdoffset = 0 /\ ("APPEND" \in t.fd[h].flags <=> "APPEND" \in flags)
  <2>1. t.fd[h] = [s.fd[h] EXCEPT !.open = TRUE, !.obj = o,
        !.size = SizeOf(s.disk[o].data), !.fdoffset = 0, !.current = TRUE,
        !.flags = flags \cap {"RD", "WR", "APPEND", "DIRECT"}]
    BY <1>1, Fields DEF OpenByPage, State
  <2>2. s.fd[h] \in FdRec
    BY <1>1, Fields
  <2> DEFINE z == SizeOf(s.disk[o].data)
             fl == flags \cap {"RD", "WR", "APPEND", "DIRECT"}
             g == [s.fd[h] EXCEPT !.open = TRUE, !.obj = o, !.size = z, !.fdoffset = 0,
                                  !.current = TRUE, !.flags = fl]
  <2>3. t.fd[h] = g
    BY <2>1
  <2>4. "APPEND" \in fl <=> "APPEND" \in flags
    OBVIOUS
  <2> HIDE DEF z, fl, t
  <2>5. g.fdoffset = 0 /\ g.flags = fl
    BY <2>2 DEF FdRec
  <2> QED
    BY <2>3, <2>4, <2>5
<1> HIDE DEF t
<1>4. /\ t.disk = s.disk /\ t.cache = s.cache /\ t.res = s.res /\ Sound(t)
      /\ \A j \in Handle \ {h} : t.fd[j] = s.fd[j]
      /\ t.fd[h].open /\ t.fd[h].obj = o /\ t.fd[h].cp = s.fd[h].cp
      /\ t.fd[h].scored = s.fd[h].scored /\ Coherent(t, h)
  BY <1>2 DEF Opened
<1>5. t.fd[h].cp = NoPage
  BY <1>1, <1>4 DEF Paged, Clean
<1>6. Held(s, t)
  BY <1>3, <1>4 DEF Held
<1>7. Bounded(s) /\ Based(s) /\ Placed(s) /\ t \in State
  BY <1>4 DEF Healthy, Sound
<1>8. /\ Bounded(t) /\ Based(t) /\ Placed(t)
      /\ \A x \in ObjId : View(t, x) = View(s, x) /\ t.disk[x] = s.disk[x]
  BY <1>6, <1>7, HeldStays
<1>9. Informed(t)
  <2> SUFFICES ASSUME NEW j \in Handle, t.fd[j].open PROVE Knows(t, j)
    BY DEF Informed
  <2>1. CASE j = h
    BY <1>4, <2>1 DEF Knows
  <2>2. CASE j # h
    BY <1>1, <1>4, <2>2 DEF Informed, Knows, Coherent
  <2> QED
    BY <2>1, <2>2
<1>10. Healthy(t)
  BY <1>1, <1>2, <1>4, <1>8, <1>9 DEF Healthy
<1>11. Hd(t, h) = [obj |-> o, pos |-> 0, append |-> "APPEND" \in flags]
  <2>1. Appends(t, h) = ("APPEND" \in flags)
    BY <1>3 DEF Appends
  <2> QED
    BY <1>3, <1>4, <2>1 DEF Hd, HdOf
<1>12. \A j \in Handle \ {h} : Hd(t, j) = Hd(s, j)
  BY <1>4, SameHandle
<1> QED
  BY <1>3, <1>4, <1>5, <1>8, <1>10, <1>11, <1>12 DEF OpenedAt, Puts, t

----------------------------------------------------------------------------
(* The bytes of an object without a write page change.                     *)

\* The flash holds other bytes of o, and no descriptor moved.
Refiled(s, t, o) ==
    /\ Healthy(s) /\ Preserves(s, t) /\ Stays(s, t) /\ Exists(s, o)
    /\ t.cache = s.cache /\ t.res = s.res
    /\ \A j \in Handle : t.fd[j].cp = s.fd[j].cp
    /\ \A x \in ObjId \ {o} : t.disk[x] = s.disk[x]
    /\ Exists(t, o) /\ Len(t.disk[o].data) <= MaxSize
    /\ PagesFor(s, o) = {}

\* No position is beyond them.
Reachable(t, o) ==
    \A j \in Handle : t.fd[j].open /\ t.fd[j].obj = o /\ ~Appends(t, j) =>
        t.fd[j].fdoffset <= Len(t.disk[o].data)

\* FileStore sees the new bytes, in the file and on the flash.
Rewrote(s, t, o) ==
    /\ Healthy(t) /\ Does(s, t, o, t.disk[o], t.disk[o])
    /\ \A j \in Handle : Hd(t, j) = Hd(s, j)
    /\ PagesFor(t, o) = {}

LEMMA RefilingRewrites ==
    ASSUME NEW s, NEW t, NEW o, Refiled(s, t, o), Reachable(t, o)
    PROVE  Rewrote(s, t, o)
<1>1. /\ Healthy(s) /\ Preserves(s, t) /\ Stays(s, t) /\ o \in ObjId
      /\ t.cache = s.cache /\ t.res = s.res
      /\ \A j \in Handle : t.fd[j].cp = s.fd[j].cp
      /\ \A x \in ObjId \ {o} : t.disk[x] = s.disk[x]
      /\ Exists(t, o) /\ Len(t.disk[o].data) <= MaxSize
      /\ PagesFor(s, o) = {}
  BY DEF Refiled, Exists
<1>2. Sound(t) /\ t \in State /\ Paged(t) /\ Informed(t)
  BY <1>1 DEF Preserves, Healthy, Sound
<1>3. PagesFor(t, o) = {}
  BY <1>1 DEF PagesFor
<1>4. Bounded(t)
  BY <1>1 DEF Healthy, Bounded, Exists
<1>5. Based(t)
  <2> SUFFICES ASSUME NEW c \in CachePage, t.cache[c].wr
               PROVE  /\ t.cache[c].offset <= Len(t.disk[t.cache[c].obj].data)
                      /\ End(t.cache[c]) <= MaxSize
    BY DEF Based
  <2>1. s.cache[c].wr /\ t.cache[c] = s.cache[c]
    BY <1>1
  <2>2. s.cache[c].obj \in ObjId \ {o}
    BY <2>1, <1>1, PageFields DEF PagesFor
  <2> QED
    BY <1>1, <2>1, <2>2 DEF Healthy, Based
<1>6. Placed(t)
  <2> SUFFICES ASSUME NEW z \in ObjId, Exists(t, z), NEW j \in Handle,
                      t.fd[j].open, t.fd[j].obj = z, ~Appends(t, j)
               PROVE  t.fd[j].fdoffset <= Reach(t, j, Len(t.disk[z].data))
    BY DEF Placed, Room
  <2>1. CASE z = o
    <3>1. t.fd[j].fdoffset <= Len(t.disk[o].data)
      BY <2>1 DEF Reachable
    <3>2. Len(t.disk[o].data) \in Nat /\ t.fd[j].fdoffset \in Nat
      BY <1>1, <1>2, Fields DEF Exists, FileRec, FdRec
    <3>3. /\ Reach(t, j, Len(t.disk[o].data)) \in Nat
          /\ Len(t.disk[o].data) <= Reach(t, j, Len(t.disk[o].data))
      BY <1>2, <3>2, ReachIsNat
    <3> QED
      BY <2>1, <3>1, <3>2, <3>3
  <2>2. CASE z # o
    <3>1. s.fd[j].open /\ s.fd[j].obj = z /\ ~Appends(s, j)
          /\ t.fd[j].fdoffset = s.fd[j].fdoffset
      BY <1>1 DEF Stays, Appends
    <3>2. t.disk[z] = s.disk[z] /\ Exists(s, z)
      BY <1>1, <2>2 DEF Exists
    <3>3. s.fd[j].fdoffset <= Reach(s, j, Len(s.disk[z].data))
      BY <1>1, <3>1, <3>2 DEF Healthy, Placed, Room
    <3>4. Reach(t, j, Len(t.disk[z].data)) = Reach(s, j, Len(s.disk[z].data))
      BY <1>1, <3>2 DEF Reach
    <3> QED
      BY <3>1, <3>3, <3>4
  <2> QED
    BY <2>1, <2>2
<1>7. Healthy(t)
  BY <1>1, <1>2, <1>4, <1>5, <1>6 DEF Healthy
<1>8. View(t, o) = t.disk[o]
  BY <1>3, BareView
<1>9. \A z \in ObjId \ {o} : View(t, z) = View(s, z) /\ t.disk[z] = s.disk[z]
  <2>1. \A z \in ObjId \ {o} : t.disk[z] = s.disk[z] /\ SamePages(s, t, z)
    BY <1>1 DEF SamePages
  <2> QED
    BY <2>1, SameView
<1> QED
  BY <1>1, <1>3, <1>7, <1>8, <1>9, StaysSame DEF Does, Rewrote

\* No other descriptor is on the object of h, which has no cache page: nor
\* has the object.
LEMMA LonePage ==
    ASSUME NEW s, Healthy(s), NEW h \in Handle, s.fd[h].cp = NoPage, NEW o,
           \A j \in Handle \ {h} : ~(s.fd[j].open /\ s.fd[j].obj = o)
    PROVE  PagesFor(s, o) = {}
<1> SUFFICES ASSUME NEW c \in CachePage, s.cache[c].wr, s.cache[c].obj = o PROVE FALSE
  BY DEF PagesFor
<1>1. PICK j \in Handle : s.fd[j].open /\ s.fd[j].cp = c
  BY DEF Healthy, Paged, Owned
<1>2. c # NoPage
  BY Constants
<1>3. s.fd[j].obj = o
  BY <1>1, <1>2, OwnPage
<1> QED
  BY <1>1, <1>2, <1>3

EmptiedTo(s, t, o) ==
    /\ Rewrote(s, t, o) /\ t.disk[o] = [s.disk[o] EXCEPT !.data = <<>>]
    /\ \A j \in Handle : t.fd[j].open = s.fd[j].open

LEMMA TruncatingEmpties ==
    ASSUME NEW s, Healthy(s), NEW h \in Handle, s.fd[h].open, s.fd[h].cp = NoPage,
           s.fd[h].fdoffset = 0, NEW o, s.fd[h].obj = o,
           \A j \in Handle \ {h} : ~(s.fd[j].open /\ s.fd[j].obj = o)
    PROVE  EmptiedTo(s, Truncate(s, h, "never"), o)
<1> DEFINE d == s.disk[o].data
           x == [s.disk[o] EXCEPT !.data = <<>>]
           t == Truncate(s, h, "never")
<1>1. /\ s \in State /\ Sound(s) /\ o \in ObjId /\ Exists(s, o) /\ s.disk[o] \in FileRec
      /\ s.res = "OK"
  BY OpenObject DEF Healthy, Sound
<1>2. /\ d \in Seq(Symbol) /\ Len(d) \in Nat /\ s.fd[h].size \in Nat
      /\ s.fd[h].size = Undefined <=> (d = <<>> /\ s.fd[h].size # 0)
      /\ s.fd[h].size # Undefined => s.fd[h].size = Len(d)
      /\ d = <<>> <=> Len(d) = 0
  BY SizeIsLength
<1>3. PagesFor(s, o) = {}
  BY LonePage
<1>4. Milder(s, t) /\ Preserves(s, t)
  BY <1>1, Truncating
<1>5. CASE s.fd[h].size \in {Undefined, 0}
  <2>1. t = s
    BY <1>5 DEF Truncate
  <2>2. d = <<>>
    BY <1>2, <1>5, Constants
  <2>3. x = s.disk[o]
    BY <1>1, <2>2 DEF FileRec
  <2>4. Stays(s, s)
    BY DEF Stays
  <2>5. Len(s.disk[o].data) <= MaxSize
    BY OpenObject
  <2> HIDE DEF t, x
  <2>6. Refiled(s, s, o)
    BY <1>1, <1>3, <1>4, <2>1, <2>4, <2>5 DEF Refiled
  <2>7. Reachable(s, o)
    BY <1>2 DEF Reachable
  <2>8. Rewrote(s, s, o)
    BY <2>6, <2>7, RefilingRewrites
  <2> QED
    BY <2>1, <2>3, <2>8 DEF EmptiedTo, t, x
<1>6. CASE s.fd[h].size \notin {Undefined, 0}
  <2> DEFINE e == <<>>
             u == [s EXCEPT !.disk[o].data = e]
             w == HeaderEvent(u, o, Undefined, TRUE, h)
  <2>1. t = [w EXCEPT !.fd[h].size = 0, !.fd[h].current = TRUE]
    BY <1>6 DEF Truncate
  <2>2. e \in Seq(Symbol) /\ Len(e) = 0 /\ SizeOf(e) = Undefined
    BY DEF SizeOf
  <2>3. x = [s.disk[o] EXCEPT !.data = e] /\ x \in FileRec /\ x.data = e
    BY <1>1, <2>2 DEF FileRec
  <2>4. Rewritten(s, HeaderEvent([s EXCEPT !.disk[o].data = e], o, SizeOf(e), TRUE, h), o, e)
    <3> HIDE DEF e
    <3>1. TRUE \in BOOLEAN
      OBVIOUS
    <3> QED
      BY <1>1, <2>2, <3>1, Rewriting
  <2> HIDE DEF e, t, x
  <2>5. u = [s EXCEPT !.disk[o] = x]
    BY <2>3
  <2>6. /\ u \in State /\ u.fd = s.fd /\ u.cache = s.cache /\ u.res = s.res
        /\ u.disk[o] = x /\ \A j \in ObjId \ {o} : u.disk[j] = s.disk[j]
    <3> HIDE DEF u
    <3> QED
      BY <1>1, <2>3, <2>5, SetFile
  <2>7. Rewritten(s, w, o, e)
    BY <2>2, <2>4
  <2> HIDE DEF u
  <2>8. x # NoFile
    BY <2>3, Constants
  <2>9. Sound(u)
    BY <1>1, <2>6, <2>8 DEF Sound, Exists
  <2>10. Undefined \in Nat /\ TRUE \in BOOLEAN
    BY Constants
  <2>11. \A j \in Handle \ {h} : s.fd[j].obj # o
    <3>1. \A j \in Handle : ~s.fd[j].open => s.fd[j].obj = NoObj
      BY DEF Healthy, Paged, Clean
    <3> QED
      BY <1>1, <3>1, Constants
  <2>12. \A j \in Handle : u.fd[j].obj = o => u.fd[j].cp = NoPage
    BY <2>6, <2>11
  <2>13. Quiet(u, w, o, Undefined)
    BY <2>9, <2>10, <1>1, <2>12, EventQuiet
  <2> HIDE DEF w
  <2>14. /\ Milder(s, w) /\ Preserves(s, w) /\ w.res = s.res
    BY <2>7 DEF Rewritten
  <2>15. /\ w.cache = s.cache /\ w.disk = u.disk
         /\ \A j \in Handle : w.fd[j].cp = s.fd[j].cp
    BY <2>6, <2>13 DEF Quiet
  <2>16. \A j \in Handle : w.fd[j].fdoffset = s.fd[j].fdoffset
    <3>1. \A j \in Handle \ {h} : EventOffset(u, j, o, Undefined) = s.fd[j].fdoffset
      BY <2>6, <2>11 DEF EventOffset
    <3>2. EventOffset(u, h, o, Undefined) = s.fd[h].fdoffset
      BY <2>6 DEF EventOffset, MinOf
    <3> QED
      BY <2>13, <3>1, <3>2 DEF Quiet
  <2>17. Sound(w) /\ w.fd[h].open /\ w.fd[h].obj = o
    BY <2>14 DEF Preserves, Milder
  <2>18. Stays(s, w)
    BY <2>14, <2>16 DEF Stays, Milder
  <2>19. w.disk[o].data = <<>>
    BY <2>3, <2>6, <2>15 DEF e
  <2>20. Settled(w, [w EXCEPT !.fd[h].size = 0, !.fd[h].current = TRUE])
    <3> DEFINE n == 0
    <3>1. n \in Nat /\ n = 0 /\ w.disk[w.fd[h].obj].data = <<>>
      BY <2>17, <2>19
    <3> HIDE DEF n
    <3>2. Settled(w, [w EXCEPT !.fd[h].size = n, !.fd[h].current = TRUE])
      BY <2>17, <3>1, SettlingStays
    <3> QED
      BY <3>2 DEF n
  <2>21. Settled(w, t)
    BY <2>1, <2>20
  <2>22. Stays(s, t)
    BY <2>18, <2>21, StaysChain DEF Settled
  <2>23. /\ t.disk = u.disk /\ t.cache = s.cache /\ t.res = s.res
         /\ \A j \in Handle : t.fd[j].cp = s.fd[j].cp
    BY <2>14, <2>15, <2>21 DEF Settled
  <2>24. t.disk[o] = x /\ Exists(t, o) /\ Len(t.disk[o].data) <= MaxSize
    <3>1. t.disk[o] = x
      BY <2>6, <2>23
    <3> QED
      BY <1>1, <2>2, <2>3, <2>8, <3>1, Constants DEF Exists
  <2>25. Refiled(s, t, o)
    BY <1>1, <1>3, <1>4, <2>6, <2>22, <2>23, <2>24 DEF Refiled
  <2>26. Reachable(t, o)
    <3> SUFFICES ASSUME NEW j \in Handle, t.fd[j].open, t.fd[j].obj = o, ~Appends(t, j)
                 PROVE  t.fd[j].fdoffset <= Len(t.disk[o].data)
      BY DEF Reachable
    <3>1. s.fd[j].open /\ s.fd[j].obj = o /\ t.fd[j].fdoffset = s.fd[j].fdoffset
      BY <2>22 DEF Stays, Appends
    <3>2. j = h
      BY <2>11, <3>1
    <3> QED
      BY <2>2, <2>3, <2>24, <3>1, <3>2
  <2>27. Rewrote(s, t, o)
    BY <2>25, <2>26, RefilingRewrites
  <2> QED
    BY <2>22, <2>24, <2>27 DEF EmptiedTo, t, x, Stays
<1> QED
  BY <1>5, <1>6

\* Slot h is opened on o with these flags.
OpensOn(s, u, h, o, flags) ==
    /\ Healthy(u)
    /\ Puts(s, u, h, [obj |-> o, pos |-> 0, append |-> "APPEND" \in flags])
    /\ "TRUNC" \notin flags => Does(s, u, o, View(s, o), s.disk[o])
    /\ "TRUNC" \in flags =>
          /\ View(s, o) = s.disk[o]
          /\ Does(s, u, o, [s.disk[o] EXCEPT !.data = <<>>],
                  [s.disk[o] EXCEPT !.data = <<>>])

\* A file is emptied on opening when nothing else is open on it.
Alone == "shared" \notin Habits \/ \A F \in Flags : "TRUNC" \notin F
NobodyOn(s, o) == \A j \in Handle : ~(s.fd[j].open /\ s.fd[j].obj = o)

LEMMA OpeningDoes ==
    ASSUME NEW s, Healthy(s), NEW h \in Handle, ~s.fd[h].open, s.fd[h].scored,
           NEW o, Exists(s, o), NEW flags \in Flags, NeverDirect,
           "TRUNC" \in flags => NobodyOn(s, o)
    PROVE  OpensOn(s, OpenAndTruncate(s, h, o, flags, "never"), h, o, flags)
<1> DEFINE t == OpenByPage(s, h, o, flags)
           w == Truncate(t, h, "never")
           a == "APPEND" \in flags
<1>1. "DIRECT" \notin flags /\ o \in ObjId
  BY DEF NeverDirect, Exists
<1>2. OpenedAt(s, t, h, o, a)
  BY <1>1, OpeningOpens
<1>3. OpenAndTruncate(s, h, o, flags, "never") =
        IF "TRUNC" \in flags
        THEN IF Ok(w) THEN w ELSE [w EXCEPT !.fd[h] = Shut(@)]
        ELSE IF Ok(t) THEN t ELSE [t EXCEPT !.fd[h] = Shut(@)]
  BY DEF OpenAndTruncate
<1> HIDE DEF t, a
<1>4. /\ Healthy(t) /\ t.disk = s.disk
      /\ \A x \in ObjId : View(t, x) = View(s, x) /\ t.disk[x] = s.disk[x]
      /\ t.fd[h].open /\ t.fd[h].obj = o /\ t.fd[h].cp = NoPage
      /\ t.fd[h].fdoffset = 0
      /\ \A j \in Handle \ {h} : t.fd[j] = s.fd[j]
      /\ Puts(s, t, h, [obj |-> o, pos |-> 0, append |-> a])
  BY <1>2 DEF OpenedAt
<1>5. CASE "TRUNC" \notin flags
  <2>1. OpenAndTruncate(s, h, o, flags, "never") = t
    BY <1>3, <1>4, <1>5 DEF Ok, Healthy
  <2>2. Does(s, t, o, View(s, o), s.disk[o])
    BY <1>1, <1>4 DEF Does
  <2> QED
    BY <1>4, <1>5, <2>1, <2>2 DEF OpensOn, a
<1>6. CASE "TRUNC" \in flags
  <2>1. \A j \in Handle \ {h} : ~(t.fd[j].open /\ t.fd[j].obj = o)
    BY <1>4, <1>6 DEF NobodyOn
  <2>3. EmptiedTo(t, w, o)
    BY <1>4, <2>1, TruncatingEmpties
  <2> HIDE DEF w
  <2>4. /\ Healthy(w) /\ Does(t, w, o, w.disk[o], w.disk[o])
        /\ \A j \in Handle : Hd(w, j) = Hd(t, j)
    BY <2>3 DEF EmptiedTo, Rewrote
  <2>5. w.disk[o] = [s.disk[o] EXCEPT !.data = <<>>]
    BY <1>4, <2>3 DEF EmptiedTo
  <2>6. Does(s, w, o, w.disk[o], w.disk[o])
    BY <1>4, <2>4 DEF Does
  <2>7. Puts(s, w, h, [obj |-> o, pos |-> 0, append |-> a])
    BY <1>4, <2>4 DEF Puts
  <2>8. View(s, o) = s.disk[o]
    <3>1. s.fd[h].cp = NoPage
      BY DEF Healthy, Paged, Clean
    <3>2. PagesFor(s, o) = {}
      BY <1>6, <3>1, LonePage DEF NobodyOn
    <3> QED
      BY <3>2, BareView
  <2>9. OpenAndTruncate(s, h, o, flags, "never") = w
    BY <1>3, <1>6, <2>4 DEF Ok, Healthy
  <2> DEFINE e == [s.disk[o] EXCEPT !.data = <<>>]
  <2>10. Does(s, w, o, e, e)
    BY <2>5, <2>6
  <2> QED
    BY <1>6, <2>4, <2>7, <2>8, <2>9, <2>10 DEF OpensOn, a
<1> QED
  BY <1>5, <1>6

\* The answer of a call is noted.
Answered(t, u) == u = [t EXCEPT !.res = "OK"]

LEMMA HealthyAnswer ==
    ASSUME NEW t, NEW u, Healthy(t), Answered(t, u)
    PROVE  u = t
BY SameAnswer DEF Answered

LEMMA OpenFromImplements ==
    ASSUME Healthy(fs), NEW s, SameStore(fs, s), NeverDirect, Alone,
           NEW h \in Handle, ~fs.fd[h].open, s.fd[h].scored,
           NEW o, Exists(fs, o), MayOpen(o), NEW flags \in Flags,
           Answered(OpenAndTruncate(s, h, o, flags, "never"), fs')
    PROVE  Implemented
<1> DEFINE u == OpenAndTruncate(s, h, o, flags, "never")
<1>1. /\ Healthy(s) /\ o \in ObjId
      /\ \A x \in ObjId : View(s, x) = View(fs, x) /\ s.disk[x] = fs.disk[x]
      /\ \A j \in Handle : s.fd[j].open = fs.fd[j].open /\ s.fd[j].obj = fs.fd[j].obj
  BY DEF SameStore, Exists
<1>2. ~s.fd[h].open /\ Exists(s, o)
  BY <1>1 DEF Exists
<1>3. "TRUNC" \in flags => NobodyOn(s, o)
  <2>1. "TRUNC" \in flags => "shared" \notin Habits
    BY DEF Alone
  <2> QED
    BY <1>1, <2>1 DEF MayOpen, NobodyOn
<1>4. OpensOn(s, u, h, o, flags)
  BY <1>1, <1>2, <1>3, OpeningDoes
<1> HIDE DEF u
<1>5. fs' = u
  BY <1>4, HealthyAnswer DEF OpensOn, u
<1>6. Puts(s, fs', h, [obj |-> o, pos |-> 0, append |-> "APPEND" \in flags])
  BY <1>4, <1>5 DEF OpensOn
<1>7. Puts(fs, fs', h, [obj |-> o, pos |-> 0, append |-> "APPEND" \in flags])
  BY <1>6, SamePuts
<1> DEFINE a == "APPEND" \in flags
<1>8. a \in BOOLEAN /\ fs.disk[o] # NoFile
  BY DEF Exists
<1> HIDE DEF a
<1>9. CASE "TRUNC" \notin flags
  <2>1. Does(s, fs', o, View(fs, o), fs.disk[o])
    BY <1>1, <1>4, <1>5, <1>9 DEF OpensOn
  <2>2. Does(fs, fs', o, View(fs, o), fs.disk[o])
    BY <2>1, SameDoes
  <2>3. Store!Open(h, o)
    BY <1>7, <1>8, <2>2, OpenMaps DEF a
  <2> QED
    BY <1>1, <1>4, <1>5, <2>3 DEF Implemented, OpensOn, Store!Next
<1>10. CASE "TRUNC" \in flags
  <2> DEFINE e == [fs.disk[o] EXCEPT !.data = <<>>]
  <2>1. View(fs, o) = fs.disk[o] /\ Does(s, fs', o, e, e)
    BY <1>1, <1>4, <1>5, <1>10 DEF OpensOn
  <2>2. Does(fs, fs', o, e, e)
    BY <2>1, SameDoes
  <2>3. \A j \in Handle : ~(fs.fd[j].open /\ fs.fd[j].obj = o)
    BY <1>1, <1>3, <1>10 DEF NobodyOn
  <2>4. Store!OpenEmptied(h, o)
    BY <1>7, <1>8, <2>1, <2>2, <2>3, OpenEmptiedMaps DEF a
  <2> QED
    BY <1>1, <1>4, <1>5, <2>4 DEF Implemented, OpensOn, Store!Next
<1> QED
  BY <1>9, <1>10

LEMMA OpenImplements ==
    ASSUME Healthy(fs), NeverDirect, Alone,
           NEW h \in Handle, NEW n \in Name, NEW flags \in Flags, Open(h, n, flags, "never")
    PROVE  Implemented
<1>1. ~fs.fd[h].open
  BY DEF Open, ClosedSlots
<1>2. PICK o \in Named(n) :
         /\ MayOpen(o)
         /\ Answered(OpenAndTruncate(Taken(h), h, o, flags, "never"), fs')
  BY DEF Open, Done, Answered
<1>3. SameStore(fs, Taken(h)) /\ Taken(h).fd[h].scored
  BY <1>1, TakingIsSame
<1>4. Exists(fs, o)
  BY NamedExist
<1> QED
  BY <1>1, <1>2, <1>3, <1>4, OpenFromImplements

LEMMA SelfSame ==
    ASSUME Healthy(fs)
    PROVE  SameStore(fs, fs)
BY DEF SameStore

LEMMA OpenByDirentImplements ==
    ASSUME Healthy(fs), NeverDirect, NeverFresh, Alone,
           NEW h \in Handle, NEW o \in ObjId, NEW flags \in Flags,
           OpenByDirent(h, o, flags, "never")
    PROVE  Implemented
<1>1. fs.fd[h].scored
  BY DEF OpenByDirent, NeverFresh
<1>2. ~fs.fd[h].open
  BY DEF OpenByDirent, SpareSlots, UnscoredSlots, ClosedSlots
<1>3. /\ Exists(fs, o) /\ MayOpen(o)
      /\ Answered(OpenAndTruncate(fs, h, o, flags, "never"), fs')
  BY DEF OpenByDirent, Live, Exists, Done, Answered
<1> QED
  BY <1>1, <1>2, <1>3, SelfSame, OpenFromImplements

LEMMA OpenFailsImplements ==
    ASSUME Healthy(fs), NEW h \in Handle, NEW n, NEW flags, NEW full,
           OpenFails(h, n, flags, full)
    PROVE  Implemented
<1>1. ~fs.fd[h].open /\ Answered(Taken(h), fs')
  BY DEF OpenFails, ClosedSlots, Done, Answered
<1>2. SameStore(fs, Taken(h))
  BY <1>1, TakingIsSame
<1>3. fs' = Taken(h)
  BY <1>1, <1>2, HealthyAnswer DEF SameStore
<1>4. SameStore(fs, fs')
  BY <1>2, <1>3
<1> QED
  BY <1>4, SameImplements

LEMMA CreatImplements ==
    ASSUME Healthy(fs), NEW o \in ObjId, NEW n \in Name, NEW full, Creat(o, n, full)
    PROVE  Implemented
<1>1. /\ fs.disk[o] = NoFile /\ Named(n) = {}
      /\ Answered(ObjectCreate(fs, o, n), fs')
  BY DEF Creat, Live, Done, Answered
<1>2. Created(fs, ObjectCreate(fs, o, n), o, n)
  BY <1>1, CreatingCreates
<1>3. fs' = ObjectCreate(fs, o, n)
  BY <1>1, <1>2, HealthyAnswer DEF Created
<1>4. Created(fs, fs', o, n)
  BY <1>2, <1>3
<1>5. /\ Healthy(fs') /\ Does(fs, fs', o, EmptyFile(n), EmptyFile(n))
      /\ \A j \in Handle : Hd(fs', j) = Hd(fs, j)
  BY <1>4 DEF Created
<1>6. Store!Create(o, n)
  BY <1>1, <1>5, CreateMaps
<1> QED
  BY <1>5, <1>6 DEF Implemented, Store!Next

LEMMA OpenNewImplements ==
    ASSUME Healthy(fs), NeverDirect,
           NEW h \in Handle, NEW n \in Name, NEW o \in ObjId, NEW flags \in Flags,
           OpenNew(h, n, o, flags)
    PROVE  Implemented
<1> DEFINE s == Taken(h)
           t == ObjectCreate(s, o, n)
           u == OpenByPage(t, h, o, flags)
           a == "APPEND" \in flags
<1>1. /\ ~fs.fd[h].open /\ fs.disk[o] = NoFile /\ Named(n) = {}
      /\ Answered(u, fs')
  BY DEF OpenNew, ClosedSlots, Live, Done, Answered
<1>2. SameStore(fs, s) /\ s.fd[h].scored = TRUE
  BY <1>1, TakingIsSame
<1> HIDE DEF s
<1>3. Healthy(s) /\ s.disk[o] = NoFile /\ ~s.fd[h].open
  BY <1>1, <1>2 DEF SameStore
<1>4. Created(s, t, o, n)
  BY <1>3, CreatingCreates
<1> HIDE DEF t
<1>5. /\ Healthy(t) /\ Does(s, t, o, EmptyFile(n), EmptyFile(n)) /\ Exists(t, o)
      /\ ~t.fd[h].open /\ t.fd[h].scored
      /\ \A j \in Handle : Hd(t, j) = Hd(s, j)
  BY <1>2, <1>3, <1>4 DEF Created
<1>6. "DIRECT" \notin flags
  BY DEF NeverDirect
<1>7. OpenedAt(t, u, h, o, a)
  BY <1>5, <1>6, OpeningOpens
<1> HIDE DEF u, a
<1>8. /\ Healthy(u)
      /\ \A x \in ObjId : View(u, x) = View(t, x) /\ u.disk[x] = t.disk[x]
      /\ Puts(t, u, h, [obj |-> o, pos |-> 0, append |-> a])
  BY <1>7 DEF OpenedAt
<1>9. fs' = u
  BY <1>1, <1>8, HealthyAnswer
<1>10. Does(s, u, o, EmptyFile(n), EmptyFile(n))
  BY <1>5, <1>8 DEF Does
<1>11. Puts(s, u, h, [obj |-> o, pos |-> 0, append |-> a])
  BY <1>5, <1>8 DEF Puts
<1>12. Does(fs, fs', o, EmptyFile(n), EmptyFile(n))
  BY <1>2, <1>9, <1>10, SameDoes
<1>13. Puts(fs, fs', h, [obj |-> o, pos |-> 0, append |-> a])
  BY <1>2, <1>9, <1>11, SamePuts
<1>14. a \in BOOLEAN
  BY DEF a
<1>15. Store!OpenNew(h, o, n)
  BY <1>1, <1>12, <1>13, <1>14, OpenNewMaps DEF a
<1> QED
  BY <1>8, <1>9, <1>15 DEF Implemented, Store!Next

----------------------------------------------------------------------------
(* Writing.                                                                *)

\* Descriptor h wrote b at p in o.
Wrote(s, t, h, o, p, b) ==
    /\ Healthy(t)
    /\ View(t, o) = WithBytes(View(s, o), Splice(View(s, o).data, p, b))
    /\ t.disk[o] \in {s.disk[o], View(t, o)}
    /\ \A x \in ObjId \ {o} : View(t, x) = View(s, x) /\ t.disk[x] = s.disk[x]
    /\ Puts2(s, t, h, b)

\* It may: p is within the file, and is where h is.
MayWrite(s, h, o, p, b) ==
    /\ Healthy(s) /\ h \in Handle /\ s.fd[h].open /\ s.fd[h].obj = o
    /\ p \in Nat /\ b \in Seq(Symbol) /\ p + Len(b) <= MaxSize
    /\ ~Appends(s, h) => s.fd[h].fdoffset = p

\* The position of h moves on.
LEMMA PutOn ==
    ASSUME NEW s, NEW t, NEW h \in Handle, NEW b,
           \A j \in Handle \ {h} : Hd(t, j) = Hd(s, j),
           s.fd[h].open, t.fd[h].open, t.fd[h].obj = s.fd[h].obj,
           t.fd[h].flags = s.fd[h].flags,
           ~Appends(s, h) => t.fd[h].fdoffset = s.fd[h].fdoffset + Len(b)
    PROVE  Puts2(s, t, h, b)
<1> DEFINE k == IF Appends(s, h) THEN 0 ELSE Hd(s, h).pos + Len(b)
<1>1. Hd(s, h) = HdOf(s.fd[h].obj, Appends(s, h), s.fd[h].fdoffset)
  BY DEF Hd
<1>2. Hd(t, h) = HdOf(s.fd[h].obj, Appends(s, h), t.fd[h].fdoffset)
  BY DEF Hd, Appends
<1>3. k = IF Appends(s, h) THEN 0 ELSE t.fd[h].fdoffset
  BY <1>1 DEF HdOf
<1> HIDE DEF k
<1>4. Hd(t, h) = [Hd(s, h) EXCEPT !.pos = k]
  BY <1>1, <1>2, <1>3 DEF HdOf
<1>5. Puts(s, t, h, [Hd(s, h) EXCEPT !.pos = k])
  BY <1>4 DEF Puts
<1> QED
  BY <1>5 DEF Puts2, k

LEMMA IntoPageWrites ==
    ASSUME NEW s, NEW h, NEW o, NEW p, NEW b, MayWrite(s, h, o, p, b),
           NEW c \in CachePage, s.fd[h].cp = c,
           s.cache[c].offset <= p, p <= End(s.cache[c])
    PROVE  Wrote(s, IntoPage(s, h, c, p, b), h, o, p, b)
<1> DEFINE page == s.cache[c]
           q    == p - page.offset
           d    == Splice(page.data, q, b)
           x    == [page EXCEPT !.data = d]
           u    == [s EXCEPT !.cache[c] = x]
           n    == s.fd[h].fdoffset + Len(b)
           g    == [s.fd[h] EXCEPT !.fdoffset = n]
           t    == [u EXCEPT !.fd[h] = g]
           D    == s.disk[o].data
<1>1. /\ Healthy(s) /\ s \in State /\ Sound(s) /\ s.fd[h] \in FdRec /\ h \in Handle
      /\ s.fd[h].open /\ s.fd[h].obj = o /\ s.res = "OK"
      /\ p \in Nat /\ b \in Seq(Symbol) /\ Len(b) \in Nat /\ p + Len(b) <= MaxSize
  BY Fields DEF MayWrite, Healthy, Sound
<1>2. s.cache[c].wr /\ s.cache[c].obj = o
  <2>1. s.fd[h].cp # NoPage
    BY Constants
  <2> QED
    BY <1>1, <2>1, OwnPage
<1>3. /\ page \in PageRec /\ o \in ObjId /\ D \in Seq(Symbol) /\ Len(D) \in Nat
      /\ page.offset \in Nat /\ page.data \in Seq(Symbol) /\ Len(page.data) \in Nat
      /\ page.offset <= Len(D)
      /\ page.offset + Len(page.data) <= MaxSize
  <2>1. /\ page \in PageRec /\ page.obj \in ObjId
        /\ s.disk[page.obj].data \in Seq(Symbol)
        /\ page.offset \in Nat /\ page.data \in Seq(Symbol)
        /\ page.offset <= Len(s.disk[page.obj].data)
        /\ page.offset + Len(page.data) <= MaxSize
    BY <1>1, <1>2, PageFields
  <2>2. page.obj = o
    BY <1>2
  <2> HIDE DEF page
  <2> QED
    BY <2>1, <2>2
<1>4. p <= page.offset + Len(page.data)
  BY DEF End
<1>5. q \in Nat /\ q <= Len(page.data) /\ page.offset + q = p
  <2>1. page.offset <= p
    OBVIOUS
  <2> DEFINE a == page.offset
             l == Len(page.data)
  <2>2. a \in Nat /\ l \in Nat /\ p \in Nat /\ a <= p /\ p <= a + l /\ q = p - a
    BY <1>1, <1>3, <1>4, <2>1
  <2> HIDE DEF a, l, q
  <2>3. q \in Nat /\ q <= l /\ a + q = p
    BY <2>2
  <2> QED
    BY <2>3 DEF a, l
<1>6. n \in Nat
  BY <1>1 DEF FdRec
<1>7. IntoPage(s, h, c, p, b) = t
  <2>1. IntoPage(s, h, c, p, b) = [s EXCEPT !.cache[c].data = d, !.fd[h].fdoffset = n]
    BY <1>1, Fields DEF IntoPage
  <2> HIDE DEF d, n
  <2>2. [s EXCEPT !.cache[c].data = d, !.fd[h].fdoffset = n] = t
    OBVIOUS
  <2> QED
    BY <2>1, <2>2
<1>8. Preserves(s, IntoPage(s, h, c, p, b))
  BY <1>1, Storing
<1> HIDE DEF n, q
<1>9. /\ d \in Seq(Symbol) /\ Len(d) \in Nat
      /\ Len(d) = IF q + Len(b) > Len(page.data) THEN q + Len(b) ELSE Len(page.data)
  <2>1. page.data \in Seq(Symbol) /\ q \in Nat /\ q <= Len(page.data) /\ b \in Seq(Symbol)
    BY <1>1, <1>3, <1>5
  <2> HIDE DEF page, D, x, u, g, t
  <2> QED
    BY <2>1, SpliceWithin
<1>10. Splice(D, page.offset, d) = Splice(Splice(D, page.offset, page.data), p, b)
  <2> HIDE DEF page, D
  <2>1. Splice(D, page.offset, d) = Splice(Splice(D, page.offset, page.data), page.offset + q, b)
    BY <1>1, <1>3, <1>5, SpliceTwice
  <2> HIDE DEF d
  <2> QED
    BY <1>5, <2>1
<1> HIDE DEF d
<1>11. x \in PageRec /\ x.wr = page.wr /\ x.obj = page.obj /\ x.offset = page.offset
       /\ x.data = d
  BY <1>3, <1>9 DEF PageRec
<1>12. /\ g \in FdRec /\ g.open = s.fd[h].open /\ g.obj = s.fd[h].obj
       /\ g.flags = s.fd[h].flags /\ g.fdoffset = n /\ g.cp = s.fd[h].cp
  BY <1>1, <1>6, NewFields
<1> HIDE DEF x, g
<1>13. /\ u \in State /\ u.fd = s.fd /\ u.disk = s.disk /\ u.res = s.res
       /\ u.cache[c] = x /\ \A j \in CachePage \ {c} : u.cache[j] = s.cache[j]
  <2>1. s \in State /\ x \in PageRec
    BY <1>1, <1>11
  <2> QED
    BY <2>1, SetPage
<1> HIDE DEF u
<1>14. /\ t \in State /\ t.disk = u.disk /\ t.cache = u.cache /\ t.res = u.res
       /\ t.fd[h] = g /\ \A j \in Handle \ {h} : t.fd[j] = u.fd[j]
  <2>1. u \in State /\ g \in FdRec /\ h \in Handle
    BY <1>1, <1>12, <1>13
  <2> QED
    BY <2>1, SetSlot
<1> HIDE DEF t
<1>15. /\ t.disk = s.disk /\ t.res = "OK" /\ t.cache[c] = x /\ t.fd[h] = g
       /\ \A j \in CachePage \ {c} : t.cache[j] = s.cache[j]
       /\ \A j \in Handle \ {h} : t.fd[j] = s.fd[j]
  BY <1>1, <1>13, <1>14
<1>16. End(s.cache[c]) <= End(t.cache[c]) /\ p + Len(b) <= End(t.cache[c])
       /\ End(t.cache[c]) <= MaxSize /\ End(t.cache[c]) \in Nat /\ End(s.cache[c]) \in Nat
  <2>1. End(t.cache[c]) = page.offset + Len(d)
    BY <1>11, <1>15 DEF End
  <2>2. End(s.cache[c]) = page.offset + Len(page.data)
    BY DEF End
  <2> DEFINE a == page.offset
             l == Len(page.data)
             m == Len(b)
             k == Len(d)
  <2>3. /\ a \in Nat /\ l \in Nat /\ m \in Nat /\ k \in Nat /\ p \in Nat /\ q \in Nat
        /\ MaxSize \in Nat /\ a + l <= MaxSize /\ p + m <= MaxSize
        /\ q <= l /\ a + q = p
        /\ k = IF q + m > l THEN q + m ELSE l
    BY <1>1, <1>3, <1>5, <1>9, Constants
  <2> HIDE DEF a, l, m, k
  <2>4. a + l <= a + k /\ p + m <= a + k /\ a + k <= MaxSize /\ a + k \in Nat /\ a + l \in Nat
    BY <2>3
  <2> QED
    BY <2>1, <2>2, <2>4 DEF a, l, m, k
<1>17. Bounded(t)
  BY <1>1, <1>15 DEF Healthy, Bounded, Exists
<1>18. Based(t)
  <2>1. Based(s)
    BY <1>1 DEF Healthy
  <2> SUFFICES ASSUME NEW e \in CachePage, t.cache[e].wr
               PROVE  /\ t.cache[e].offset <= Len(t.disk[t.cache[e].obj].data)
                      /\ End(t.cache[e]) <= MaxSize
    BY DEF Based
  <2>2. CASE e = c
    <3>1. /\ t.cache[e].offset = s.cache[c].offset /\ t.cache[e].obj = s.cache[c].obj
          /\ s.cache[c].wr
      BY <1>3, <1>11, <1>15, <2>2
    <3>2. s.cache[c].offset <= Len(s.disk[s.cache[c].obj].data)
      BY <2>1, <2>2, <3>1 DEF Based
    <3> QED
      BY <1>15, <1>16, <2>2, <3>1, <3>2
  <2>3. CASE e # c
    BY <1>15, <2>1, <2>3 DEF Based
  <2> QED
    BY <2>2, <2>3
<1>19. Placed(t)
  <2> SUFFICES ASSUME NEW z \in ObjId, Exists(t, z), NEW j \in Handle,
                      t.fd[j].open, t.fd[j].obj = z, ~Appends(t, j)
               PROVE  t.fd[j].fdoffset <= Reach(t, j, Len(t.disk[z].data))
    BY DEF Placed, Room
  <2>1. Len(s.disk[z].data) \in Nat /\ Exists(s, z)
    BY <1>1, <1>15, Fields DEF Exists, FileRec
  <2>2. s.fd[j].open /\ s.fd[j].obj = z /\ ~Appends(s, j) /\ t.fd[j].cp = s.fd[j].cp
    BY <1>1, <1>12, <1>15 DEF Appends
  <2>3. s.fd[j].fdoffset <= Reach(s, j, Len(s.disk[z].data))
    BY <1>1, <2>1, <2>2 DEF Healthy, Placed, Room
  <2>4. Reach(s, j, Len(s.disk[z].data)) <= Reach(t, j, Len(t.disk[z].data))
        /\ Reach(s, j, Len(s.disk[z].data)) \in Nat
        /\ Reach(t, j, Len(t.disk[z].data)) \in Nat
    <3>1. Reach(s, j, Len(s.disk[z].data)) \in Nat /\ Reach(t, j, Len(t.disk[z].data)) \in Nat
      BY <1>1, <1>14, <1>15, <2>1, ReachIsNat
    <3>2. CASE s.fd[j].cp = c
      BY <1>15, <1>16, <2>1, <2>2, <3>1, <3>2, Constants DEF Reach, MaxOf
    <3>3. CASE s.fd[j].cp # c
      <4>1. s.fd[j].cp \in CachePage \cup {NoPage}
        BY <1>1, Fields DEF FdRec
      <4>2. Reach(s, j, Len(s.disk[z].data)) = Reach(t, j, Len(t.disk[z].data))
        BY <1>15, <2>2, <3>3, <4>1 DEF Reach
      <4> QED
        BY <3>1, <4>2
    <3> QED
      BY <3>1, <3>2, <3>3
  <2>5. CASE j = h
    <3>1. t.fd[j].fdoffset = p + Len(b)
      BY <1>12, <1>15, <2>2, <2>5 DEF MayWrite, n
    <3>2. Reach(t, j, Len(t.disk[z].data)) = MaxOf(Len(s.disk[z].data), End(t.cache[c]))
      BY <1>15, <2>2, <2>5, Constants DEF Reach
    <3>3. End(t.cache[c]) <= Reach(t, j, Len(t.disk[z].data))
      <4>1. End(t.cache[c]) \in Nat
        BY <1>16
      <4>2. End(t.cache[c]) <= MaxOf(Len(s.disk[z].data), End(t.cache[c]))
        BY <2>1, <4>1, Minimum
      <4> QED
        BY <3>2, <4>2
    <3> QED
      BY <1>1, <1>16, <2>4, <3>1, <3>3
  <2>6. CASE j # h
    <3>1. t.fd[j].fdoffset = s.fd[j].fdoffset /\ s.fd[j].fdoffset \in Nat
      BY <1>1, <1>15, <2>6, Fields DEF FdRec
    <3> QED
      BY <2>3, <2>4, <3>1
  <2> QED
    BY <2>5, <2>6
<1>20. Preserves(s, t)
  BY <1>7, <1>8
<1>21. Healthy(t)
  BY <1>1, <1>15, <1>17, <1>18, <1>19, <1>20 DEF Healthy, Preserves
<1>22. View(s, o) = [s.disk[o] EXCEPT !.data = Splice(D, page.offset, page.data)]
  BY <1>1, <1>2, PageView
<1>23. View(t, o) = [s.disk[o] EXCEPT !.data = Splice(D, page.offset, d)]
  <2>1. t.cache[c].wr /\ t.cache[c].obj = o /\ t.cache[c].offset = page.offset
        /\ t.cache[c].data = d
    BY <1>2, <1>11, <1>15
  <2>2. View(t, o) = [t.disk[o] EXCEPT !.data =
            Splice(t.disk[o].data, t.cache[c].offset, t.cache[c].data)]
    BY <1>21, <2>1, PageView
  <2> QED
    BY <1>15, <2>1, <2>2
<1>24. View(t, o) = WithBytes(View(s, o), Splice(View(s, o).data, p, b))
  <2> DEFINE e == Splice(D, page.offset, page.data)
             e2 == Splice(D, page.offset, d)
  <2>1. s.disk[o] \in FileRec
    BY <1>1, OpenObject
  <2> HIDE DEF e, e2
  <2>2. View(s, o) = [s.disk[o] EXCEPT !.data = e] /\ View(t, o) = [s.disk[o] EXCEPT !.data = e2]
        /\ e2 = Splice(e, p, b)
    BY <1>10, <1>22, <1>23 DEF e, e2
  <2>3. View(s, o).data = e
    BY <2>1, <2>2 DEF FileRec
  <2>4. View(t, o) = [s.disk[o] EXCEPT !.data = Splice(e, p, b)]
    BY <2>2
  <2> DEFINE e3 == Splice(e, p, b)
  <2> HIDE DEF e3
  <2>5. WithBytes(View(s, o), e3) = [s.disk[o] EXCEPT !.data = e3]
    BY <2>1, <2>2 DEF WithBytes, FileRec
  <2> QED
    BY <2>3, <2>4, <2>5 DEF e3
<1>25. \A z \in ObjId \ {o} : View(t, z) = View(s, z) /\ t.disk[z] = s.disk[z]
  <2>1. \A z \in ObjId \ {o} : t.disk[z] = s.disk[z] /\ SamePages(s, t, z)
    BY <1>2, <1>11, <1>15 DEF SamePages
  <2> QED
    BY <2>1, SameView
<1>26. \A j \in Handle \ {h} : Hd(t, j) = Hd(s, j)
  BY <1>15, SameHandle
<1>27. ~Appends(s, h) => t.fd[h].fdoffset = s.fd[h].fdoffset + Len(b)
  BY <1>12, <1>15 DEF n
<1>28. Puts2(s, t, h, b)
  BY <1>1, <1>12, <1>15, <1>26, <1>27, PutOn
<1> QED
  BY <1>7, <1>15, <1>21, <1>24, <1>25, <1>28 DEF Wrote

\* A page that is taken holds nothing yet, so nothing is seen of it.
PageTaken(s, t, h, o, c, p) ==
    /\ SameStore(s, t) /\ t.disk = s.disk
    /\ t.fd[h].cp = c /\ t.fd[h].open /\ t.fd[h].obj = o
    /\ Appends(t, h) = Appends(s, h) /\ t.fd[h].fdoffset = s.fd[h].fdoffset
    /\ t.cache[c].offset = p /\ End(t.cache[c]) = p

LEMMA PageIsTaken ==
    ASSUME NEW s, NEW h, NEW o, NEW p, NEW b, MayWrite(s, h, o, p, b),
           p <= Len(s.disk[o].data), PagesFor(s, o) = {},
           NEW c \in CachePage, ~s.cache[c].wr
    PROVE  PageTaken(s, [s EXCEPT
              !.cache[c] = [wr |-> TRUE, obj |-> s.fd[h].obj, offset |-> p, data |-> <<>>],
              !.fd[h].cp = c], h, o, c, p)
<1> DEFINE x == [wr |-> TRUE, obj |-> s.fd[h].obj, offset |-> p, data |-> <<>>]
           u == [s EXCEPT !.cache[c] = x]
           g == [s.fd[h] EXCEPT !.cp = c]
           t == [u EXCEPT !.fd[h] = g]
           w == [s EXCEPT !.cache[c] = x, !.fd[h].cp = c]
<1>1. /\ Healthy(s) /\ s \in State /\ Sound(s) /\ s.fd[h] \in FdRec /\ h \in Handle
      /\ s.fd[h].open /\ s.fd[h].obj = o /\ s.res = "OK" /\ Paged(s) /\ Informed(s)
      /\ p \in Nat /\ b \in Seq(Symbol) /\ Len(b) \in Nat /\ p + Len(b) <= MaxSize
  BY Fields DEF MayWrite, Healthy, Sound
<1>2. w = t
  OBVIOUS
<1>3. s.fd[h].cp = NoPage
  BY <1>1, OwnPage DEF PagesFor
<1>4. /\ Sound(w) /\ (Informed(s) => Informed(w))
      /\ w.cache[c].offset = p
      /\ Paged(s) /\ s.fd[h].cp = NoPage /\ PagesFor(s, s.fd[h].obj) = {}
            => Paged(w)
  BY <1>1, TakingPage
<1>5. x \in PageRec /\ x.wr = TRUE /\ x.obj = o /\ x.offset = p /\ x.data = <<>>
      /\ End(x) = p
  <2>1. <<>> \in Seq(Symbol) /\ Len(<<>>) = 0
    OBVIOUS
  <2>2. o \in ObjId
    BY <1>1, OpenObject
  <2> QED
    BY <1>1, <2>1, <2>2 DEF PageRec, End
<1>6. /\ g \in FdRec /\ g.open = s.fd[h].open /\ g.obj = s.fd[h].obj
      /\ g.flags = s.fd[h].flags /\ g.fdoffset = s.fd[h].fdoffset /\ g.cp = c
  BY <1>1, CpChange
<1> HIDE DEF x, g, w
<1>7. /\ u \in State /\ u.fd = s.fd /\ u.disk = s.disk /\ u.res = s.res
      /\ u.cache[c] = x /\ \A j \in CachePage \ {c} : u.cache[j] = s.cache[j]
  BY <1>1, <1>5, SetPage
<1> HIDE DEF u
<1>8. /\ t \in State /\ t.disk = u.disk /\ t.cache = u.cache /\ t.res = u.res
      /\ t.fd[h] = g /\ \A j \in Handle \ {h} : t.fd[j] = u.fd[j]
  <2>1. u \in State /\ g \in FdRec /\ h \in Handle
    BY <1>1, <1>6, <1>7
  <2> QED
    BY <2>1, SetSlot
<1> HIDE DEF t
<1>9. /\ t.disk = s.disk /\ t.res = "OK" /\ t.cache[c] = x /\ t.fd[h] = g
      /\ \A j \in CachePage \ {c} : t.cache[j] = s.cache[j]
      /\ \A j \in Handle \ {h} : t.fd[j] = s.fd[j]
  BY <1>1, <1>7, <1>8
<1>10. Bounded(t)
  BY <1>1, <1>9 DEF Healthy, Bounded, Exists
<1>11. Based(t)
  <2> SUFFICES ASSUME NEW d \in CachePage, t.cache[d].wr
               PROVE  /\ t.cache[d].offset <= Len(t.disk[t.cache[d].obj].data)
                      /\ End(t.cache[d]) <= MaxSize
    BY DEF Based
  <2>1. CASE d = c
    BY <1>1, <1>5, <1>9, <2>1, Constants
  <2>2. CASE d # c
    BY <1>1, <1>9, <2>2 DEF Healthy, Based
  <2> QED
    BY <2>1, <2>2
<1>12. Placed(t)
  <2> SUFFICES ASSUME NEW z \in ObjId, Exists(t, z), NEW j \in Handle,
                      t.fd[j].open, t.fd[j].obj = z, ~Appends(t, j)
               PROVE  t.fd[j].fdoffset <= Reach(t, j, Len(t.disk[z].data))
    BY DEF Placed, Room
  <2>1. Len(s.disk[z].data) \in Nat /\ Exists(s, z)
    BY <1>1, <1>9, Fields DEF Exists, FileRec
  <2>2. /\ s.fd[j].open /\ s.fd[j].obj = z /\ ~Appends(s, j)
        /\ t.fd[j].fdoffset = s.fd[j].fdoffset /\ s.fd[j].fdoffset \in Nat
    BY <1>1, <1>6, <1>9, Fields DEF Appends, FdRec
  <2>3. s.fd[j].fdoffset <= Reach(s, j, Len(s.disk[z].data))
    BY <1>1, <2>1, <2>2 DEF Healthy, Placed, Room
  <2>4. CASE j = h
    <3>1. Reach(s, j, Len(s.disk[z].data)) = Len(s.disk[z].data)
      BY <1>3, <2>4 DEF Reach
    <3>2. /\ Reach(t, j, Len(t.disk[z].data)) \in Nat
          /\ Len(t.disk[z].data) <= Reach(t, j, Len(t.disk[z].data))
      BY <1>8, <1>9, <2>1, ReachIsNat
    <3> QED
      BY <1>9, <2>1, <2>2, <2>3, <3>1, <3>2
  <2>5. CASE j # h
    <3>1. s.fd[j].cp # c
      <4>1. s.fd[j].cp # NoPage => s.cache[s.fd[j].cp].wr
        BY <1>1, OwnPage
      <4> QED
        BY <4>1, Constants
    <3>2. s.fd[j].cp \in CachePage \cup {NoPage}
      BY <1>1, Fields DEF FdRec
    <3>3. Reach(t, j, Len(t.disk[z].data)) = Reach(s, j, Len(s.disk[z].data))
      BY <1>9, <2>5, <3>1, <3>2 DEF Reach
    <3> QED
      BY <2>2, <2>3, <3>3
  <2> QED
    BY <2>4, <2>5
<1>13. Sound(t) /\ Paged(t) /\ Informed(t)
  BY <1>1, <1>2, <1>3, <1>4
<1>14. Healthy(t)
  BY <1>9, <1>10, <1>11, <1>12, <1>13 DEF Healthy
<1>15. View(t, o) = View(s, o)
  <2>1. t.cache[c].wr /\ t.cache[c].obj = o /\ t.cache[c].offset = p
        /\ t.cache[c].data = <<>>
    BY <1>5, <1>9
  <2>2. View(t, o) = [t.disk[o] EXCEPT !.data =
            Splice(t.disk[o].data, t.cache[c].offset, t.cache[c].data)]
    BY <1>14, <2>1, PageView
  <2>3. s.disk[o].data \in Seq(Symbol) /\ s.disk[o] \in FileRec
    BY <1>1, OpenObject
  <2>4. Splice(s.disk[o].data, p, <<>>) = s.disk[o].data
    BY <1>1, <2>3, SpliceNothing
  <2>5. View(t, o) = [s.disk[o] EXCEPT !.data = s.disk[o].data]
    BY <1>9, <2>1, <2>2, <2>4
  <2>6. View(t, o) = s.disk[o]
    BY <2>3, <2>5 DEF FileRec
  <2> QED
    BY <2>6, BareView
<1>16. \A z \in ObjId \ {o} : View(t, z) = View(s, z)
  <2>1. \A z \in ObjId \ {o} : t.disk[z] = s.disk[z] /\ SamePages(s, t, z)
    BY <1>5, <1>9 DEF SamePages
  <2> QED
    BY <2>1, SameView
<1>17. /\ t.fd[h].open = s.fd[h].open /\ t.fd[h].obj = s.fd[h].obj
       /\ t.fd[h].flags = s.fd[h].flags /\ t.fd[h].fdoffset = s.fd[h].fdoffset
  BY <1>6, <1>9
<1>18. \A j \in Handle : Hd(t, j) = Hd(s, j) /\ t.fd[j].open = s.fd[j].open
                         /\ t.fd[j].obj = s.fd[j].obj
  <2>1. Hd(t, h) = Hd(s, h)
    BY <1>17, SameHandle
  <2>2. \A j \in Handle \ {h} : Hd(t, j) = Hd(s, j)
    BY <1>9, SameHandle
  <2> QED
    BY <1>9, <1>17, <2>1, <2>2
<1>19. SameStore(s, t)
  BY <1>9, <1>14, <1>15, <1>16, <1>18 DEF SameStore
<1>20. PageTaken(s, t, h, o, c, p)
  BY <1>1, <1>5, <1>6, <1>9, <1>17, <1>19 DEF PageTaken, Appends
<1> QED
  BY <1>2, <1>20 DEF w, x

\* Without a cache page the bytes go to the flash.
LEMMA ThroughWrites ==
    ASSUME NEW s, NEW h, NEW o, NEW p, NEW b, MayWrite(s, h, o, p, b),
           p <= Len(s.disk[o].data), PagesFor(s, o) = {}
    PROVE  Wrote(s, Through(s, h, p, b, "never"), h, o, p, b)
<1> DEFINE D == s.disk[o].data
           e == Splice(D, p, b)
           w == HydroWrite(s, h, p, b, "never")
           n == w.fd[h].fdoffset + Len(b)
           t == [w EXCEPT !.fd[h].fdoffset = n]
<1>1. /\ Healthy(s) /\ s \in State /\ Sound(s) /\ Informed(s) /\ h \in Handle
      /\ s.fd[h].open /\ s.fd[h].obj = o /\ s.res = "OK"
      /\ p \in Nat /\ b \in Seq(Symbol) /\ Len(b) \in Nat /\ p + Len(b) <= MaxSize
      /\ ~Appends(s, h) => s.fd[h].fdoffset = p
  BY DEF MayWrite, Healthy, Sound
<1>2. /\ o \in ObjId /\ Exists(s, o) /\ s.disk[o] \in FileRec
      /\ D \in Seq(Symbol) /\ Len(D) \in Nat
      /\ Len(D) <= MaxSize /\ Room(s, o, Len(D))
  BY <1>1, OpenObject
<1>3. CanStore(s, h, o, p, b)
  BY <1>1, <1>2 DEF CanStore
<1>4. Stored(s, w, o, e)
  BY <1>1, <1>3, HydroStores
<1>5. /\ e \in Seq(Symbol) /\ Len(e) <= MaxSize /\ Len(D) <= Len(e) /\ Len(e) \in Nat
      /\ p + Len(b) <= Len(e)
  <2>1. /\ e \in Seq(Symbol) /\ Len(e) \in Nat
        /\ Len(e) = IF p + Len(b) > Len(D) THEN p + Len(b) ELSE Len(D)
    BY <1>1, <1>2, SpliceWithin
  <2> HIDE DEF e, D
  <2> QED
    BY <1>1, <1>2, <2>1, Constants
<1> HIDE DEF e, w
<1>6. /\ Preserves(s, w) /\ Stays(s, w) /\ w.res = s.res /\ w.cache = s.cache
      /\ w.disk[o] = WithBytes(s.disk[o], e)
      /\ \A x \in ObjId \ {o} : w.disk[x] = s.disk[x]
      /\ \A j \in Handle : w.fd[j].cp = s.fd[j].cp
  BY <1>4 DEF Stored, WithBytes
<1>7. w.disk[o].data = e /\ w.disk[o] \in FileRec
  BY <1>2, <1>5, <1>6 DEF WithBytes, FileRec
<1>8. Exists(w, o)
  BY <1>2, <1>7, Constants DEF Exists
<1>9. Refiled(s, w, o)
  BY <1>1, <1>2, <1>5, <1>6, <1>7, <1>8 DEF Refiled
<1>10. Reachable(w, o)
  <2> SUFFICES ASSUME NEW j \in Handle, w.fd[j].open, w.fd[j].obj = o, ~Appends(w, j)
               PROVE  w.fd[j].fdoffset <= Len(w.disk[o].data)
    BY DEF Reachable
  <2>1. s.fd[j].open /\ s.fd[j].obj = o /\ ~Appends(s, j)
        /\ w.fd[j].fdoffset = s.fd[j].fdoffset
    BY <1>6 DEF Stays, Appends
  <2>2. s.fd[j].cp = NoPage
    BY <1>1, <2>1, OwnPage DEF PagesFor
  <2>3. s.fd[j].fdoffset <= Len(D) /\ s.fd[j].fdoffset \in Nat
    BY <1>1, <1>2, <2>1, <2>2, Fields DEF Room, Reach, FdRec
  <2> HIDE DEF D
  <2> QED
    BY <1>2, <1>5, <1>7, <2>1, <2>3
<1>11. Rewrote(s, w, o)
  BY <1>9, <1>10, RefilingRewrites
<1>12. /\ Healthy(w) /\ Does(s, w, o, w.disk[o], w.disk[o])
       /\ \A j \in Handle : Hd(w, j) = Hd(s, j)
       /\ PagesFor(w, o) = {}
  BY <1>11 DEF Rewrote
<1>13. w.fd[h].open /\ w.fd[h].obj = o /\ Appends(w, h) = Appends(s, h)
       /\ w.fd[h].flags = s.fd[h].flags
  BY <1>1, <1>6 DEF Stays, Appends
<1>14. ~Appends(s, h) => w.fd[h].fdoffset = p
  BY <1>1, <1>6 DEF Stays
<1>15. n \in Nat
  <2>1. w.fd[h].fdoffset \in Nat
    BY <1>1, <1>12, Fields DEF Healthy, Sound, FdRec
  <2> QED
    BY <1>1, <2>1
<1>16. w.fd[h].open /\ ~Appends(w, h) => n <= Reach(w, h, Len(w.disk[w.fd[h].obj].data))
  <2>1. /\ Len(e) <= Reach(w, h, Len(e)) /\ Reach(w, h, Len(e)) \in Nat
    BY <1>1, <1>5, <1>12, ReachIsNat DEF Healthy, Sound
  <2> QED
    BY <1>1, <1>5, <1>7, <1>13, <1>14, <1>15, <2>1
<1> HIDE DEF n
<1>17. /\ Healthy(t) /\ OnlyAt(w, t, h)
       /\ t.fd[h].fdoffset = n /\ t.fd[h].cp = w.fd[h].cp
  BY <1>1, <1>12, <1>15, <1>16, MovingStays
<1>18. Through(s, h, p, b, "never") = t
  <2>1. Ok(w)
    BY <1>12 DEF Ok, Healthy
  <2> QED
    BY <2>1 DEF Through, w, n
<1> HIDE DEF t
<1>19. /\ t.disk = w.disk /\ t.fd[h].open /\ t.fd[h].obj = o
       /\ t.fd[h].flags = s.fd[h].flags
       /\ \A j \in Handle \ {h} : t.fd[j] = w.fd[j]
  BY <1>13, <1>17 DEF OnlyAt
<1>20. \A x \in ObjId : View(t, x) = View(w, x)
  BY <1>17, OnlyAtViews
<1>21. View(s, o) = s.disk[o]
  BY BareView
<1>22. View(t, o) = WithBytes(View(s, o), Splice(View(s, o).data, p, b)) /\ t.disk[o] = View(t, o)
  BY <1>2, <1>6, <1>12, <1>19, <1>20, <1>21 DEF Does, e
<1>23. \A x \in ObjId \ {o} : View(t, x) = View(s, x) /\ t.disk[x] = s.disk[x]
  BY <1>12, <1>19, <1>20 DEF Does
<1>24. \A j \in Handle \ {h} : Hd(t, j) = Hd(s, j)
  <2>1. \A j \in Handle \ {h} : Hd(t, j) = Hd(w, j)
    BY <1>19, SameHandle
  <2> QED
    BY <1>12, <2>1
<1>25. ~Appends(s, h) => t.fd[h].fdoffset = s.fd[h].fdoffset + Len(b)
  BY <1>1, <1>14, <1>17 DEF n
<1>26. Puts2(s, t, h, b)
  BY <1>1, <1>19, <1>24, <1>25, PutOn
<1> QED
  BY <1>17, <1>18, <1>22, <1>23, <1>26 DEF Wrote
\* What a write does before it stores: nothing that is seen.
Readied(s, t, h, o) ==
    /\ Healthy(t) /\ o \in ObjId
    /\ \A x \in ObjId : View(t, x) = View(s, x)
    /\ t.disk[o] \in {s.disk[o], View(s, o)}
    /\ \A x \in ObjId \ {o} : t.disk[x] = s.disk[x]
    /\ \A j \in Handle : Hd(t, j) = Hd(s, j)
    /\ t.fd[h].open = s.fd[h].open /\ t.fd[h].obj = s.fd[h].obj
    /\ Appends(t, h) = Appends(s, h)

LEMMA WroteImplements ==
    ASSUME Healthy(fs), NEW h \in Handle, fs.fd[h].open, NEW o, fs.fd[h].obj = o,
           NEW b \in Data, NEW p, p = WritePoint(fs, h),
           View(fs, o).data \in Seq(Symbol), p <= Len(View(fs, o).data),
           NEW s, Readied(fs, s, h, o), NEW t, Wrote(s, t, h, o, p, b), Answered(t, fs')
    PROVE  Implemented
<1> DEFINE v == WithBytes(View(fs, o), Splice(View(fs, o).data, p, b))
           f == fs'.disk[o]
<1>1. /\ o \in ObjId
      /\ \A x \in ObjId : View(s, x) = View(fs, x)
      /\ s.disk[o] \in {fs.disk[o], View(fs, o)}
      /\ \A x \in ObjId \ {o} : s.disk[x] = fs.disk[x]
      /\ \A j \in Handle : Hd(s, j) = Hd(fs, j)
      /\ Appends(s, h) = Appends(fs, h)
  BY DEF Readied
<1>2. Healthy(t) /\ fs' = t
  BY HealthyAnswer DEF Wrote
<1>3. View(fs', o) = v
  BY <1>1, <1>2 DEF Wrote
<1>4. f \in {fs.disk[o], View(fs, o), v}
  BY <1>1, <1>2, <1>3 DEF Wrote
<1>5. \A x \in ObjId \ {o} : View(fs', x) = View(fs, x) /\ fs'.disk[x] = fs.disk[x]
  BY <1>1, <1>2 DEF Wrote
<1>6. Does(fs, fs', o, v, f)
  <2> HIDE DEF v
  <2> QED
    BY <1>1, <1>2, <1>3, <1>5 DEF Does
<1>7. Puts2(fs, fs', h, b)
  <2>1. Puts2(s, t, h, b)
    BY DEF Wrote
  <2> QED
    BY <1>1, <1>2, <2>1 DEF Puts2, Puts
<1>8. b \in Seq(Symbol)
  BY DataIsBytes
<1> HIDE DEF v, f
<1>9. v = WithBytes(View(fs, o), Splice(View(fs, o).data, p, b))
  BY DEF v
<1>10. PICK w, g : w = v /\ g = f
  OBVIOUS
<1>11. Store!Write(h, b)
  BY <1>4, <1>6, <1>7, <1>8, <1>9, <1>10, WriteMaps
<1>12. Store!Next
  BY <1>11 DEF Store!Next
<1> QED
  BY <1>2, <1>12 DEF Implemented

\* What is seen of the object of a descriptor that looked for its page: up
\* to the end of that page, if it has one, and any position is within it.
SeenBy(s, h, o) ==
    LET d == View(s, o).data
    IN  /\ d \in Seq(Symbol) /\ Len(d) \in Nat /\ o \in ObjId
        /\ s.fd[h].cp = NoPage => View(s, o) = s.disk[o]
        /\ s.fd[h].cp # NoPage =>
              Len(d) = MaxOf(Len(s.disk[o].data), End(s.cache[s.fd[h].cp]))
        /\ ~Appends(s, h) => s.fd[h].fdoffset <= Len(d)

LEMMA Seeing ==
    ASSUME NEW s, Healthy(s), NEW h \in Handle, s.fd[h].open, NEW o, s.fd[h].obj = o,
           s.fd[h].cp = NoPage => PagesFor(s, o) = {}
    PROVE  SeenBy(s, h, o)
<1> DEFINE D == s.disk[o].data
           c == s.fd[h].cp
<1>1. /\ o \in ObjId /\ Exists(s, o) /\ s.disk[o] \in FileRec /\ s \in State
      /\ D \in Seq(Symbol) /\ Len(D) \in Nat /\ Room(s, o, Len(D))
  BY OpenObject
<1>2. ~Appends(s, h) => s.fd[h].fdoffset <= Reach(s, h, Len(D))
  BY <1>1 DEF Room
<1>3. CASE c = NoPage
  BY <1>1, <1>2, <1>3, BareView DEF SeenBy, Reach
<1>4. CASE c # NoPage
  <2> DEFINE page == s.cache[c]
             e == Splice(D, page.offset, page.data)
  <2>1. c \in CachePage /\ page.wr /\ page.obj = o
    BY <1>4, OwnPage
  <2>2. page \in PageRec /\ page.offset \in Nat /\ page.data \in Seq(Symbol)
    BY <2>1, PageFields
  <2>3. View(s, o) = [s.disk[o] EXCEPT !.data = e]
    BY <2>1, PageView
  <2>4. e \in Seq(Symbol) /\ Len(e) = MaxOf(Len(D), End(page))
    <3>1. End(page) = page.offset + Len(page.data)
      BY DEF End
    <3> DEFINE a == page.offset
               l == page.data
    <3>2. D \in Seq(Symbol) /\ a \in Nat /\ l \in Seq(Symbol)
      BY <1>1, <2>2
    <3> HIDE DEF D, a, l
    <3>3. Splice(D, a, l) \in Seq(Symbol) /\ Len(Splice(D, a, l)) = MaxOf(Len(D), a + Len(l))
      BY <3>2, SpliceBytes
    <3> QED
      BY <3>1, <3>3 DEF a, l
  <2> HIDE DEF e
  <2>5. View(s, o).data = e
    BY <1>1, <2>3 DEF FileRec
  <2>6. Len(e) \in Nat
    BY <2>4
  <2>7. Reach(s, h, Len(D)) = Len(e)
    BY <1>4, <2>4 DEF Reach
  <2> HIDE DEF D, c, page
  <2>8. ~Appends(s, h) => s.fd[h].fdoffset <= Len(e)
    BY <1>2, <2>7
  <2> QED
    BY <1>1, <1>4, <2>4, <2>5, <2>6, <2>8 DEF SeenBy, D, c, page
<1> QED
  BY <1>3, <1>4

\* The page is written back, if there is one.
LEMMA Dumping ==
    ASSUME NEW s, Healthy(s), NEW h \in Handle, s.fd[h].open, NEW o, s.fd[h].obj = o,
           s.fd[h].cp = NoPage => PagesFor(s, o) = {}
    PROVE  SyncedTo(s, IF s.fd[h].cp = NoPage THEN s
                       ELSE WriteBack(s, h, s.fd[h].cp, "never"), o)
<1>1. CASE s.fd[h].cp = NoPage
  <2>1. Stays(s, s) /\ Elsewhere(s, s, o)
    BY DEF Stays, Elsewhere, SamePages
  <2> QED
    BY <1>1, <2>1, BareView DEF SyncedTo
<1>2. CASE s.fd[h].cp # NoPage
  <2>1. s.fd[h].cp \in CachePage
    BY <1>2, OwnPage
  <2> QED
    BY <1>2, <2>1, WriteBackSyncs
<1> QED
  BY <1>1, <1>2

\* A new write page is taken, or there is none and the bytes go through.
LEMMA NewPageWrites ==
    ASSUME NEW s, NEW h, NEW o, NEW p, NEW b, MayWrite(s, h, o, p, b),
           p <= Len(s.disk[o].data), PagesFor(s, o) = {},
           NEW c \in Allocations(s)
    PROVE  \E u : /\ SameStore(s, u) /\ u.disk = s.disk
                  /\ u.fd[h].open /\ u.fd[h].obj = o /\ Appends(u, h) = Appends(s, h)
                  /\ Wrote(u, IntoNewPage(s, h, c, p, b, "never"), h, o, p, b)
<1>1. Healthy(s) /\ h \in Handle /\ s.fd[h].open /\ s.fd[h].obj = o
  BY DEF MayWrite
<1>2. CASE c = NoPage
  <2>1. IntoNewPage(s, h, c, p, b, "never") = Through(s, h, p, b, "never")
    BY <1>2 DEF IntoNewPage
  <2>2. Wrote(s, IntoNewPage(s, h, c, p, b, "never"), h, o, p, b)
    BY <2>1, ThroughWrites
  <2>3. SameStore(s, s)
    BY <1>1 DEF SameStore
  <2> QED
    BY <1>1, <2>2, <2>3
<1>3. CASE c # NoPage
  <2> DEFINE w == [s EXCEPT
                !.cache[c] = [wr |-> TRUE, obj |-> s.fd[h].obj, offset |-> p, data |-> <<>>],
                !.fd[h].cp = c]
  <2>1. c \in CachePage /\ ~s.cache[c].wr
    BY <1>3 DEF Allocations, ReadPages
  <2>2. PageTaken(s, w, h, o, c, p)
    BY <2>1, PageIsTaken
  <2>3. IntoNewPage(s, h, c, p, b, "never") = IntoPage(w, h, c, p, b)
    BY <1>3 DEF IntoNewPage
  <2> HIDE DEF w
  <2>4. /\ SameStore(s, w) /\ Healthy(w) /\ w.disk = s.disk
        /\ w.fd[h].cp = c /\ w.fd[h].open /\ w.fd[h].obj = o
        /\ Appends(w, h) = Appends(s, h) /\ w.fd[h].fdoffset = s.fd[h].fdoffset
        /\ w.cache[c].offset = p /\ End(w.cache[c]) = p
    BY <2>2 DEF PageTaken, SameStore
  <2>5. MayWrite(w, h, o, p, b)
    BY <2>4 DEF MayWrite
  <2>6. p <= p
    BY DEF MayWrite
  <2>7. Wrote(w, IntoPage(w, h, c, p, b), h, o, p, b)
    BY <2>1, <2>4, <2>5, <2>6, IntoPageWrites
  <2> QED
    BY <2>3, <2>4, <2>7
<1> QED
  BY <1>2, <1>3

\* The state a write starts from: the position of an append is the size.
Starting(s, h, o) ==
    /\ Healthy(s) /\ Readied(fs, s, h, o) /\ s.disk = fs.disk
    /\ s.fd[h].open /\ s.fd[h].obj = o
    /\ s.fd[h].cp \in CachePage \cup {NoPage}
    /\ s.fd[h].cp = NoPage => PagesFor(s, o) = {}
    /\ ~Appends(fs, h) => s.fd[h].fdoffset = fs.fd[h].fdoffset

LEMMA WriteStarts ==
    ASSUME Healthy(fs), NEW h \in Handle, fs.fd[h].open, NEW o, fs.fd[h].obj = o,
           NEW n \in Nat, ~Appends(fs, h) => n = fs.fd[h].fdoffset
    PROVE  Starting(WithPage([fs EXCEPT !.fd[h].fdoffset = n], h), h, o)
<1> DEFINE u == [fs EXCEPT !.fd[h].fdoffset = n]
           s == WithPage(u, h)
<1>1. /\ o \in ObjId /\ Len(fs.disk[o].data) \in Nat
      /\ Room(fs, o, Len(fs.disk[o].data))
  BY OpenObject
<1>2. ~Appends(fs, h) => n <= Reach(fs, h, Len(fs.disk[fs.fd[h].obj].data))
  BY <1>1 DEF Room
<1>3. /\ Healthy(u) /\ OnlyAt(fs, u, h)
      /\ u.fd[h].fdoffset = n /\ u.fd[h].cp = fs.fd[h].cp
  BY <1>2, MovingStays
<1> HIDE DEF u
<1>4. u.fd[h].open /\ u.fd[h].obj = o
  BY <1>3 DEF OnlyAt
<1>5. Found(u, s, h)
  BY <1>3, <1>4, PairingFinds
<1> HIDE DEF s
<1>6. /\ Healthy(s) /\ OnlyAt(u, s, h) /\ s.fd[h].fdoffset = n
      /\ s.fd[h].cp \in CachePage \cup {NoPage}
      /\ s.fd[h].cp = NoPage => PagesFor(u, o) = {}
  BY <1>3, <1>4, <1>5 DEF Found
<1>7. \A x \in ObjId : View(u, x) = View(fs, x) /\ PagesFor(u, x) = PagesFor(fs, x)
  BY <1>3, OnlyAtViews
<1>8. \A x \in ObjId : View(s, x) = View(u, x) /\ PagesFor(s, x) = PagesFor(u, x)
  BY <1>6, OnlyAtViews
<1>9. /\ s.disk = fs.disk /\ s.fd[h].open /\ s.fd[h].obj = o
      /\ s.fd[h].flags = fs.fd[h].flags /\ s.fd[h].open = fs.fd[h].open
      /\ \A j \in Handle \ {h} : s.fd[j] = fs.fd[j]
  BY <1>3, <1>4, <1>6 DEF OnlyAt
<1>10. Hd(s, h) = Hd(fs, h) /\ Appends(s, h) = Appends(fs, h)
  <2>1. s.fd[h].obj = fs.fd[h].obj
    BY <1>9
  <2>2. ~Appends(fs, h) => s.fd[h].fdoffset = fs.fd[h].fdoffset
    BY <1>6
  <2> QED
    BY <1>9, <2>1, <2>2, SameHandle
<1>11. \A j \in Handle \ {h} : Hd(s, j) = Hd(fs, j)
  BY <1>9, SameHandle
<1>12. \A j \in Handle : Hd(s, j) = Hd(fs, j)
  BY <1>10, <1>11
<1>13. Readied(fs, s, h, o)
  <2>1. \A x \in ObjId : View(s, x) = View(fs, x)
    BY <1>7, <1>8
  <2>2. /\ s.disk[o] \in {fs.disk[o], View(fs, o)}
        /\ \A x \in ObjId \ {o} : s.disk[x] = fs.disk[x]
    BY <1>9
  <2> QED
    BY <1>1, <1>6, <1>9, <1>10, <1>12, <2>1, <2>2 DEF Readied
<1>14. s.fd[h].cp = NoPage => PagesFor(s, o) = {}
  BY <1>1, <1>6, <1>8
<1>15. Starting(s, h, o)
  BY <1>6, <1>9, <1>13, <1>14 DEF Starting
<1> QED
  BY <1>15 DEF s, u

\* What a flush leaves is ready to be written to.
LEMMA SyncedIsReady ==
    ASSUME NEW s, NEW h \in Handle, NEW o, Starting(s, h, o), NEW t, SyncedTo(s, t, o),
           fs.fd[h].open, fs.fd[h].obj = o,
           NEW b \in Seq(Symbol), NEW p \in Nat, p + Len(b) <= MaxSize,
           ~Appends(fs, h) => fs.fd[h].fdoffset = p
    PROVE  /\ Readied(fs, t, h, o) /\ MayWrite(t, h, o, p, b)
           /\ PagesFor(t, o) = {} /\ t.disk[o] = View(fs, o)
<1>1. /\ Healthy(s) /\ Readied(fs, s, h, o) /\ s.disk = fs.disk
      /\ s.fd[h].open /\ s.fd[h].obj = o /\ o \in ObjId
      /\ ~Appends(fs, h) => s.fd[h].fdoffset = p
  BY DEF Starting, Readied
<1>2. /\ Healthy(t) /\ Stays(s, t) /\ PagesFor(t, o) = {} /\ t.disk[o] = View(s, o)
  BY DEF SyncedTo
<1>3. Does(s, t, o, View(s, o), View(s, o))
  BY <1>1, SyncedDoes
<1>4. \A x \in ObjId : View(t, x) = View(s, x)
  BY <1>3 DEF Does
<1>5. \A j \in Handle : Hd(t, j) = Hd(s, j)
  BY <1>2, StaysSame
<1>6. /\ t.fd[h].open = s.fd[h].open /\ t.fd[h].obj = s.fd[h].obj
      /\ t.fd[h].flags = s.fd[h].flags
      /\ ~Appends(s, h) => t.fd[h].fdoffset = s.fd[h].fdoffset
  BY <1>1, <1>2 DEF Stays
<1>7. /\ \A x \in ObjId : View(s, x) = View(fs, x)
      /\ \A j \in Handle : Hd(s, j) = Hd(fs, j)
      /\ s.fd[h].open = fs.fd[h].open /\ s.fd[h].obj = fs.fd[h].obj
      /\ Appends(s, h) = Appends(fs, h)
  BY <1>1 DEF Readied
<1>8. Appends(t, h) = Appends(s, h)
  BY <1>6 DEF Appends
<1>9. \A x \in ObjId \ {o} : t.disk[x] = fs.disk[x]
  BY <1>1, <1>3 DEF Does
<1>10. t.disk[o] = View(fs, o)
  BY <1>1, <1>2, <1>7
<1>11. \A x \in ObjId : View(t, x) = View(fs, x)
  BY <1>4, <1>7
<1>12. Readied(fs, t, h, o)
  BY <1>1, <1>2, <1>5, <1>6, <1>7, <1>8, <1>9, <1>10, <1>11 DEF Readied
<1>13. MayWrite(t, h, o, p, b)
  BY <1>1, <1>2, <1>6, <1>7, <1>8 DEF MayWrite
<1> QED
  BY <1>2, <1>10, <1>12, <1>13

\* Taking a page for it leaves it so.
LEMMA StillReady ==
    ASSUME NEW s, NEW t, NEW h \in Handle, NEW o, Readied(fs, s, h, o), SameStore(s, t),
           t.disk = s.disk, Appends(t, h) = Appends(s, h)
    PROVE  Readied(fs, t, h, o)
<1>1. /\ Healthy(t)
      /\ \A x \in ObjId : View(t, x) = View(s, x)
      /\ \A j \in Handle : Hd(t, j) = Hd(s, j)
      /\ t.fd[h].open = s.fd[h].open /\ t.fd[h].obj = s.fd[h].obj
  BY DEF SameStore
<1>2. /\ o \in ObjId
      /\ \A x \in ObjId : View(s, x) = View(fs, x)
      /\ s.disk[o] \in {fs.disk[o], View(fs, o)}
      /\ \A x \in ObjId \ {o} : s.disk[x] = fs.disk[x]
      /\ \A j \in Handle : Hd(s, j) = Hd(fs, j)
      /\ s.fd[h].open = fs.fd[h].open /\ s.fd[h].obj = fs.fd[h].obj
      /\ Appends(s, h) = Appends(fs, h)
  BY DEF Readied
<1>3. \A x \in ObjId : View(t, x) = View(fs, x)
  BY <1>1, <1>2
<1>4. /\ t.disk[o] \in {fs.disk[o], View(fs, o)}
      /\ \A x \in ObjId \ {o} : t.disk[x] = fs.disk[x]
  BY <1>2
<1>5. \A j \in Handle : Hd(t, j) = Hd(fs, j)
  BY <1>1, <1>2
<1>6. Appends(t, h) = Appends(fs, h)
  BY <1>2
<1> QED
  BY <1>1, <1>2, <1>3, <1>4, <1>5, <1>6 DEF Readied

LEMMA WriteImplements ==
    ASSUME Healthy(fs), NEW h \in Handle, NEW b \in Data, Write(h, b, "never")
    PROVE  Implemented
<1> DEFINE f      == fs.fd[h]
           append == "APPEND" \in f.flags
           pos    == IF ~append THEN f.fdoffset
                     ELSE IF f.size = Undefined THEN 0 ELSE f.size
           u      == [fs EXCEPT !.fd[h].fdoffset = pos]
           s      == WithPage(u, h)
           c      == s.fd[h].cp
           offset == IF append /\ c # NoPage THEN MaxOf(pos, End(s.cache[c]))
                     ELSE pos
           dumped == IF c = NoPage THEN s ELSE WriteBack(s, h, c, "never")
           o      == f.obj
<1>1. f.open
  BY DEF Write, May, Fd
<1>2. /\ offset + Len(b) <= MaxSize
      /\ \/ "DIRECT" \in f.flags
         \/ /\ c # NoPage /\ Fits(s.cache[c], offset, b)
            /\ Answered(IntoPage(s, h, c, offset, b), fs')
         \/ ~Ok(dumped)
         \/ \E d \in Allocations(dumped) :
               Answered(IntoNewPage(dumped, h, d, offset, b, "never"), fs')
         \/ Answered(Through(dumped, h, offset, b, "never"), fs')
  BY DEF Write, Fd, Done, Answered
<1>3. /\ b \in Seq(Symbol) /\ Len(b) \in Nat /\ o \in ObjId
      /\ fs.disk[o].data \in Seq(Symbol) /\ Len(fs.disk[o].data) \in Nat
  BY <1>1, DataIsBytes, OpenObject
<1>4. /\ pos \in Nat
      /\ Appends(fs, h) => pos = Len(fs.disk[o].data)
      /\ ~Appends(fs, h) => pos = f.fdoffset
  <2>1. /\ f.size \in Nat /\ f.fdoffset \in Nat
        /\ f.size = Undefined => Len(fs.disk[o].data) = 0
        /\ f.size # Undefined => f.size = Len(fs.disk[o].data)
    <3>1. fs \in State
      BY DEF Healthy, Sound
    <3>2. f \in FdRec
      BY <3>1, Fields
    <3>3. f.size \in Nat /\ f.fdoffset \in Nat
      BY <3>2 DEF FdRec
    <3>4. /\ f.size = Undefined => fs.disk[o].data = <<>>
          /\ f.size # Undefined => f.size = Len(fs.disk[o].data)
          /\ fs.disk[o].data = <<>> <=> Len(fs.disk[o].data) = 0
      BY <1>1, SizeIsLength
    <3> QED
      BY <3>3, <3>4
  <2>2. append <=> Appends(fs, h)
    BY DEF Appends
  <2> DEFINE v == f.size
             w == f.fdoffset
  <2>3. pos = IF ~append THEN w ELSE IF v = Undefined THEN 0 ELSE v
    OBVIOUS
  <2> HIDE DEF v, w, append, pos
  <2> QED
    BY <2>1, <2>2, <2>3 DEF v, w
<1>5. append <=> Appends(fs, h)
  BY DEF Appends
<1> HIDE DEF pos, append
<1>6. Starting(s, h, o)
  BY <1>1, <1>4, WriteStarts
<1> HIDE DEF s
<1>7. /\ Healthy(s) /\ Readied(fs, s, h, o) /\ s.disk = fs.disk
      /\ s.fd[h].open /\ s.fd[h].obj = o
      /\ c \in CachePage \cup {NoPage}
      /\ c = NoPage => PagesFor(s, o) = {}
      /\ ~Appends(fs, h) => s.fd[h].fdoffset = f.fdoffset
      /\ Appends(s, h) = Appends(fs, h) /\ View(s, o) = View(fs, o)
  BY <1>6 DEF Starting, Readied
<1> DEFINE d0 == View(fs, o).data
<1>8. /\ d0 \in Seq(Symbol) /\ Len(d0) \in Nat
      /\ c = NoPage => View(fs, o) = fs.disk[o]
      /\ c # NoPage => Len(d0) = MaxOf(Len(fs.disk[o].data), End(s.cache[c]))
      /\ ~Appends(fs, h) => f.fdoffset <= Len(d0)
  <2>1. SeenBy(s, h, o)
    BY <1>7, Seeing
  <2> QED
    BY <1>7, <2>1 DEF SeenBy
<1>9. /\ offset = WritePoint(fs, h) /\ offset \in Nat /\ offset <= Len(d0)
      /\ ~Appends(fs, h) => f.fdoffset = offset
  <2>1. CASE Appends(fs, h)
    <3>1. offset = Len(d0)
      BY <1>4, <1>5, <1>8, <2>1
    <3> QED
      BY <1>8, <2>1, <3>1 DEF WritePoint
  <2>2. CASE ~Appends(fs, h)
    <3>1. offset = f.fdoffset
      BY <1>4, <1>5, <2>2
    <3> QED
      BY <1>4, <1>8, <2>2, <3>1 DEF WritePoint
  <2> QED
    BY <2>1, <2>2
<1>10. SyncedTo(s, dumped, o)
  BY <1>7, Dumping
<1> HIDE DEF dumped, offset
<1>11. /\ Readied(fs, dumped, h, o) /\ MayWrite(dumped, h, o, offset, b)
       /\ PagesFor(dumped, o) = {} /\ dumped.disk[o] = View(fs, o)
  <2>1. /\ fs.fd[h].open /\ fs.fd[h].obj = o
        /\ Starting(s, h, o) /\ SyncedTo(s, dumped, o)
        /\ b \in Seq(Symbol) /\ offset \in Nat /\ offset + Len(b) <= MaxSize
    BY <1>1, <1>2, <1>3, <1>6, <1>9, <1>10
  <2>2. ~Appends(fs, h) => fs.fd[h].fdoffset = offset
    BY <1>9
  <2> HIDE DEF o, f, c, d0
  <2> QED
    BY <2>1, <2>2, SyncedIsReady, SMTT(30)
<1>12. CASE "DIRECT" \in f.flags
  BY <1>1, <1>12 DEF Healthy, Paged, Buffered
<1>13. CASE /\ c # NoPage /\ Fits(s.cache[c], offset, b)
            /\ Answered(IntoPage(s, h, c, offset, b), fs')
  <2> DEFINE w == IntoPage(s, h, c, offset, b)
  <2>1. MayWrite(s, h, o, offset, b)
    BY <1>2, <1>3, <1>7, <1>9 DEF MayWrite
  <2>2. s.cache[c].offset <= offset /\ offset <= End(s.cache[c])
    <3>1. offset >= s.cache[c].offset /\ offset <= End(s.cache[c])
      BY <1>13 DEF Fits
    <3>2. s.cache[c].offset \in Nat
      BY <1>7, <1>13, Fields DEF Healthy, Sound, PageRec
    <3> QED
      BY <1>9, <3>1, <3>2
  <2>3. Wrote(s, w, h, o, offset, b)
    BY <1>7, <1>13, <2>1, <2>2, IntoPageWrites
  <2>4. Answered(w, fs')
    BY <1>13
  <2> HIDE DEF w, d0, o
  <2>5. PICK x, n, t, y : x = o /\ n = offset /\ t = s /\ y = w
    OBVIOUS
  <2> QED
    BY <1>1, <1>7, <1>8, <1>9, <2>3, <2>4, <2>5, WroteImplements DEF d0, o
<1>14. CASE ~Ok(dumped)
  BY <1>10, <1>14 DEF SyncedTo, Healthy, Ok
<1>15. CASE \E d \in Allocations(dumped) :
               Answered(IntoNewPage(dumped, h, d, offset, b, "never"), fs')
  <2>1. PICK d \in Allocations(dumped) :
            Answered(IntoNewPage(dumped, h, d, offset, b, "never"), fs')
    BY <1>15
  <2> DEFINE w == IntoNewPage(dumped, h, d, offset, b, "never")
  <2>2. PICK t : /\ SameStore(dumped, t) /\ t.disk = dumped.disk
                 /\ t.fd[h].open /\ t.fd[h].obj = o /\ Appends(t, h) = Appends(dumped, h)
                 /\ Wrote(t, w, h, o, offset, b)
    BY <1>9, <1>11, NewPageWrites
  <2> HIDE DEF w, d0, o
  <2>3. Readied(fs, t, h, o)
    BY <1>11, <2>2, StillReady
  <2>4. Answered(w, fs')
    BY <2>1 DEF w
  <2>5. PICK x, n, y : x = o /\ n = offset /\ y = w
    OBVIOUS
  <2> QED
    BY <1>1, <1>8, <1>9, <2>2, <2>3, <2>4, <2>5, WroteImplements DEF d0, o
<1>16. CASE Answered(Through(dumped, h, offset, b, "never"), fs')
  <2> DEFINE w == Through(dumped, h, offset, b, "never")
  <2>1. Wrote(dumped, w, h, o, offset, b)
    BY <1>9, <1>11, ThroughWrites
  <2>2. Answered(w, fs')
    BY <1>16
  <2> HIDE DEF w, d0, o
  <2>3. PICK x, n, t, y : x = o /\ n = offset /\ t = dumped /\ y = w
    OBVIOUS
  <2> QED
    BY <1>1, <1>8, <1>9, <1>11, <2>1, <2>2, <2>3, WroteImplements DEF d0, o
<1> QED
  BY <1>2, <1>12, <1>13, <1>14, <1>15, <1>16

----------------------------------------------------------------------------
(* Removing.                                                               *)

\* Object o is gone, with its pages; its descriptors are closed, and the
\* others are as they were.
Gone(s, t, o) ==
    /\ t \in State /\ t.disk[o] = NoFile /\ t.res = s.res
    /\ \A x \in ObjId \ {o} : t.disk[x] = s.disk[x] /\ SamePages(s, t, x)
    /\ \A c \in CachePage : t.cache[c].wr =>
          t.cache[c] = s.cache[c] /\ s.cache[c].obj # o
    /\ \A h \in Handle : s.fd[h].obj = o => ~t.fd[h].open
    /\ \A h \in Handle : s.fd[h].obj # o =>
          /\ t.fd[h].open = s.fd[h].open /\ t.fd[h].obj = s.fd[h].obj
          /\ t.fd[h].flags = s.fd[h].flags /\ t.fd[h].fdoffset = s.fd[h].fdoffset
          /\ t.fd[h].cp = s.fd[h].cp

LEMMA DeletingGoes ==
    ASSUME NEW s, Sound(s), Paged(s), NEW o, Exists(s, o)
    PROVE  Gone(s, DeleteEvent(s, o), o)
<1> DEFINE mine == {h \in Handle : s.fd[h].obj = o}
           C    == {s.fd[h].cp : h \in {g \in mine : s.fd[g].open}}
           r    == Release(s, C)
           f    == [h \in Handle |->
                      IF h \in mine THEN [Shut(r.fd[h]) EXCEPT !.obj = NoObj]
                      ELSE r.fd[h]]
           u    == [r EXCEPT !.disk[o] = NoFile]
           t    == [u EXCEPT !.fd = f]
<1>1. s \in State /\ o \in ObjId /\ Clean(s) /\ Pointing(s) /\ Owned(s)
  BY DEF Sound, Exists, Paged
<1>2. DeleteEvent(s, o) = t
  <2>1. DeleteEvent(s, o) = [r EXCEPT !.disk[o] = NoFile, !.fd = f]
    BY DEF DeleteEvent
  <2> QED
    BY <2>1
<1>3. /\ r \in State /\ r.disk = s.disk /\ r.res = s.res
      /\ \A h \in Handle :
            /\ r.fd[h].open = s.fd[h].open /\ r.fd[h].obj = s.fd[h].obj
            /\ r.fd[h].flags = s.fd[h].flags /\ r.fd[h].fdoffset = s.fd[h].fdoffset
            /\ s.fd[h].open /\ s.fd[h].cp \in C => r.fd[h].cp = NoPage
            /\ ~(s.fd[h].open /\ s.fd[h].cp \in C) => r.fd[h].cp = s.fd[h].cp
      /\ \A c \in CachePage : /\ c \in C => ~r.cache[c].wr
                              /\ c \notin C => r.cache[c] = s.cache[c]
  <2>1. Freed(s, r, C)
    BY <1>1, Releasing
  <2> QED
    BY <2>1 DEF Freed
<1>4. \A h \in mine : s.fd[h].open => s.fd[h].cp \in C
  OBVIOUS
<1>5. \A c \in C : c = NoPage \/ (s.cache[c].wr /\ s.cache[c].obj = o)
  BY <1>1 DEF Pointing
<1> HIDE DEF r, C
<1>6. \A h \in Handle :
         /\ f[h] \in FdRec
         /\ h \in mine => f[h].open = FALSE
         /\ h \notin mine => f[h] = r.fd[h]
  <2>1. \A h \in Handle : r.fd[h] \in FdRec
    BY <1>3, Fields
  <2> QED
    BY <2>1, Shutting
<1>7. f \in [Handle -> FdRec]
  BY <1>6
<1>8. /\ u \in State /\ u.fd = r.fd /\ u.cache = r.cache /\ u.res = r.res
      /\ u.disk[o] = NoFile /\ \A j \in ObjId \ {o} : u.disk[j] = r.disk[j]
  BY <1>1, <1>3, SetFile
<1> HIDE DEF f, u
<1>9. t \in State /\ t.disk = u.disk /\ t.fd = f /\ t.cache = u.cache /\ t.res = u.res
  BY <1>7, <1>8, SetFd
<1> HIDE DEF t
<1>10. \A c \in CachePage : /\ c \in C => ~t.cache[c].wr /\ s.cache[c].obj = o
                            /\ c \notin C => t.cache[c] = s.cache[c]
  BY <1>3, <1>5, <1>8, <1>9, Constants
<1>11. \A x \in ObjId \ {o} : t.disk[x] = s.disk[x] /\ SamePages(s, t, x)
  BY <1>3, <1>8, <1>9, <1>10 DEF SamePages
<1>12. ASSUME NEW c \in CachePage, t.cache[c].wr
       PROVE  t.cache[c] = s.cache[c] /\ s.cache[c].obj # o
  <2>1. c \notin C /\ t.cache[c] = s.cache[c]
    BY <1>10, <1>12
  <2>2. PICK h \in Handle : s.fd[h].open /\ s.fd[h].cp = c
    BY <1>1, <1>12, <2>1 DEF Owned
  <2>3. s.cache[c].obj = s.fd[h].obj
    BY <1>1, <2>2, Constants DEF Pointing
  <2> QED
    BY <1>4, <2>1, <2>2, <2>3
<1>13. \A h \in Handle : s.fd[h].obj = o => ~t.fd[h].open
  BY <1>6, <1>9
<1>14. ASSUME NEW h \in Handle, s.fd[h].obj # o
       PROVE  /\ t.fd[h].open = s.fd[h].open /\ t.fd[h].obj = s.fd[h].obj
              /\ t.fd[h].flags = s.fd[h].flags /\ t.fd[h].fdoffset = s.fd[h].fdoffset
              /\ t.fd[h].cp = s.fd[h].cp
  <2>1. t.fd[h] = r.fd[h]
    BY <1>6, <1>9, <1>14
  <2>2. s.fd[h].cp # NoPage => s.cache[s.fd[h].cp].obj = s.fd[h].obj
    BY <1>1 DEF Pointing
  <2>3. s.fd[h].cp \in C => s.fd[h].cp = NoPage
    BY <1>5, <1>14, <2>2
  <2>4. r.fd[h].cp = s.fd[h].cp
    BY <1>3, <2>3
  <2> QED
    BY <1>3, <2>1, <2>4
<1>15. Gone(s, t, o)
  BY <1>3, <1>8, <1>9, <1>11, <1>12, <1>13, <1>14 DEF Gone
<1> QED
  BY <1>2, <1>15

\* Only descriptors of o, and slots that were closed, and pages of o are
\* not as they were.
About(s, t, o) ==
    /\ t.disk = s.disk /\ t.res = s.res
    /\ \A x \in ObjId \ {o} : SamePages(s, t, x)
    /\ \A c \in CachePage : t.cache[c].wr => t.cache[c] = s.cache[c]
    /\ \A h \in Handle : t.fd[h].obj = o => ~s.fd[h].open \/ s.fd[h].obj = o
    /\ \A h \in Handle : t.fd[h].obj # o =>
          /\ t.fd[h].open = s.fd[h].open /\ t.fd[h].obj = s.fd[h].obj
          /\ t.fd[h].flags = s.fd[h].flags /\ t.fd[h].fdoffset = s.fd[h].fdoffset
          /\ t.fd[h].cp = s.fd[h].cp

LEMMA GoneImplements ==
    ASSUME Healthy(fs), NEW o, Exists(fs, o), NEW s, About(fs, s, o),
           NEW t, Gone(s, t, o), Sound(t), Paged(t), Informed(t), Answered(t, fs')
    PROVE  Implemented
<1>1. /\ o \in ObjId /\ t \in State /\ t.res = "OK" /\ t.disk[o] = NoFile
      /\ fs.disk[o] # NoFile
  BY DEF Exists, Gone, About, Healthy
<1>2. ASSUME NEW x \in ObjId \ {o}
      PROVE  t.disk[x] = fs.disk[x] /\ View(t, x) = View(fs, x) /\ SamePages(fs, t, x)
  <2>1. t.disk[x] = s.disk[x] /\ SamePages(s, t, x)
    BY DEF Gone
  <2>2. s.disk[x] = fs.disk[x] /\ SamePages(fs, s, x)
    BY DEF About
  <2>3. SamePages(fs, t, x)
    BY <2>1, <2>2 DEF SamePages
  <2> QED
    BY <2>1, <2>2, <2>3, SameView
<1>3. ASSUME NEW c \in CachePage, t.cache[c].wr
      PROVE  t.cache[c] = fs.cache[c] /\ fs.cache[c].obj # o /\ fs.cache[c].wr
  <2>1. t.cache[c] = s.cache[c] /\ s.cache[c].obj # o
    BY <1>3 DEF Gone
  <2>2. s.cache[c] = fs.cache[c]
    BY <1>3, <2>1 DEF About
  <2> QED
    BY <1>3, <2>1, <2>2
<1>4. ASSUME NEW h \in Handle
      PROVE  \/ /\ ~t.fd[h].open
                /\ ~fs.fd[h].open \/ fs.fd[h].obj = o
             \/ /\ t.fd[h].open = fs.fd[h].open /\ t.fd[h].obj = fs.fd[h].obj
                /\ t.fd[h].flags = fs.fd[h].flags /\ t.fd[h].fdoffset = fs.fd[h].fdoffset
                /\ t.fd[h].cp = fs.fd[h].cp /\ fs.fd[h].obj # o
  <2>1. CASE s.fd[h].obj = o
    BY <2>1 DEF Gone, About
  <2>2. CASE s.fd[h].obj # o
    <3>1. /\ t.fd[h].open = s.fd[h].open /\ t.fd[h].obj = s.fd[h].obj
          /\ t.fd[h].flags = s.fd[h].flags /\ t.fd[h].fdoffset = s.fd[h].fdoffset
          /\ t.fd[h].cp = s.fd[h].cp
      BY <2>2 DEF Gone
    <3>2. /\ s.fd[h].open = fs.fd[h].open /\ s.fd[h].obj = fs.fd[h].obj
          /\ s.fd[h].flags = fs.fd[h].flags /\ s.fd[h].fdoffset = fs.fd[h].fdoffset
          /\ s.fd[h].cp = fs.fd[h].cp
      BY <2>2 DEF About
    <3> QED
      BY <2>2, <3>1, <3>2
  <2> QED
    BY <2>1, <2>2
<1>5. Bounded(t)
  BY <1>1, <1>2 DEF Healthy, Bounded, Exists
<1>6. Based(t)
  <2> SUFFICES ASSUME NEW c \in CachePage, t.cache[c].wr
               PROVE  /\ t.cache[c].offset <= Len(t.disk[t.cache[c].obj].data)
                      /\ End(t.cache[c]) <= MaxSize
    BY DEF Based
  <2>1. t.cache[c] = fs.cache[c] /\ fs.cache[c].obj # o /\ fs.cache[c].wr
    BY <1>3
  <2>2. fs.cache[c].obj \in ObjId
    BY <2>1, PageFields
  <2>3. t.disk[fs.cache[c].obj] = fs.disk[fs.cache[c].obj]
    BY <1>2, <2>1, <2>2
  <2> QED
    BY <2>1, <2>3 DEF Healthy, Based
<1>7. Placed(t)
  <2> SUFFICES ASSUME NEW x \in ObjId, Exists(t, x), NEW h \in Handle,
                      t.fd[h].open, t.fd[h].obj = x, ~Appends(t, h)
               PROVE  t.fd[h].fdoffset <= Reach(t, h, Len(t.disk[x].data))
    BY DEF Placed, Room
  <2>1. x # o
    BY <1>1 DEF Exists
  <2>2. /\ fs.fd[h].open /\ fs.fd[h].obj = x /\ ~Appends(fs, h)
        /\ t.fd[h].fdoffset = fs.fd[h].fdoffset /\ t.fd[h].cp = fs.fd[h].cp
    BY <1>4 DEF Appends
  <2>3. t.disk[x] = fs.disk[x] /\ SamePages(fs, t, x)
    BY <1>2, <2>1
  <2>4. Exists(fs, x)
    BY <2>3 DEF Exists
  <2>5. fs.fd[h].fdoffset <= Reach(fs, h, Len(fs.disk[x].data))
    BY <2>2, <2>4 DEF Healthy, Placed, Room
  <2>6. fs.fd[h].cp # NoPage => t.cache[fs.fd[h].cp] = fs.cache[fs.fd[h].cp]
    <3> SUFFICES ASSUME fs.fd[h].cp # NoPage
                 PROVE  t.cache[fs.fd[h].cp] = fs.cache[fs.fd[h].cp]
      OBVIOUS
    <3>1. /\ fs.fd[h].cp \in CachePage
          /\ fs.cache[fs.fd[h].cp].wr /\ fs.cache[fs.fd[h].cp].obj = x
      BY <2>2, OwnPage
    <3> QED
      BY <2>3, <3>1 DEF SamePages
  <2> QED
    BY <2>2, <2>3, <2>5, <2>6 DEF Reach
<1>8. Healthy(t) /\ fs' = t
  BY <1>1, <1>5, <1>6, <1>7, HealthyAnswer DEF Healthy
<1>9. View(t, o) = NoFile
  BY <1>1 DEF View
<1>10. Does(fs, fs', o, NoFile, NoFile)
  BY <1>1, <1>2, <1>8, <1>9 DEF Does
<1>11. ASSUME NEW h \in Handle
       PROVE  Hd(t, h) = IF fs.fd[h].open /\ fs.fd[h].obj = o THEN Closed ELSE Hd(fs, h)
  <2>1. CASE ~t.fd[h].open /\ (~fs.fd[h].open \/ fs.fd[h].obj = o)
    BY <2>1 DEF Hd
  <2>2. CASE /\ t.fd[h].open = fs.fd[h].open /\ t.fd[h].obj = fs.fd[h].obj
             /\ t.fd[h].flags = fs.fd[h].flags /\ t.fd[h].fdoffset = fs.fd[h].fdoffset
             /\ t.fd[h].cp = fs.fd[h].cp /\ fs.fd[h].obj # o
    BY <2>2, SameHandle
  <2> QED
    BY <1>4, <2>1, <2>2
<1>12. Store!Remove(o)
  BY <1>1, <1>8, <1>10, <1>11, RemoveMaps
<1>13. Store!Next
  BY <1>1, <1>12 DEF Store!Next
<1> QED
  BY <1>8, <1>13 DEF Implemented

LEMMA RemoveImplements ==
    ASSUME Healthy(fs), NEW n, NEW h \in Handle, Remove(n, h)
    PROVE  Implemented
<1>1. PICK o \in Named(n) : Answered(DeleteEvent(OpenByPage(fs, h, o, {}), o), fs')
  BY DEF Remove, Done, Answered
<1> DEFINE s == OpenByPage(fs, h, o, {})
           u == DeleteEvent(s, o)
<1>2. ~fs.fd[h].open /\ Exists(fs, o) /\ o \in ObjId
  BY NamedExist DEF Remove, SpareSlots, UnscoredSlots, ClosedSlots
<1>3. "DIRECT" \notin {}
  OBVIOUS
<1>4. Sound(fs) /\ Paged(fs) /\ Informed(fs)
  BY DEF Healthy
<1>5. Opened(fs, s, h, o) /\ Paged(s)
  BY <1>2, <1>3, <1>4, Opening
<1> HIDE DEF s
<1>6. /\ Sound(s) /\ Exists(s, o) /\ s.disk = fs.disk /\ s.cache = fs.cache
      /\ s.res = fs.res /\ s.fd[h].obj = o
      /\ \A j \in Handle \ {h} : s.fd[j] = fs.fd[j]
  BY <1>2, <1>5 DEF Opened, Exists
<1>7. \A j \in Handle : s.fd[j].open /\ s.fd[j].obj # o => Knows(s, j)
  BY <1>4, <1>6 DEF Informed, Knows, Coherent
<1>8. Sound(u) /\ Paged(u) /\ Informed(u)
  BY <1>5, <1>6, <1>7, Deleting
<1>9. Gone(s, u, o)
  BY <1>5, <1>6, DeletingGoes
<1>10. About(fs, s, o)
  BY <1>2, <1>6 DEF About, SamePages
<1>11. Answered(u, fs')
  BY <1>1 DEF s
<1> HIDE DEF u
<1> QED
  BY <1>2, <1>8, <1>9, <1>10, <1>11, GoneImplements

LEMMA FremoveImplements ==
    ASSUME Healthy(fs), NEW h \in Handle, Fremove(h)
    PROVE  Implemented
<1> DEFINE o == fs.fd[h].obj
           C == {fs.fd[h].cp}
           s == Release(fs, C)
           u == DeleteEvent(s, o)
<1>1. fs.fd[h].open /\ Answered(u, fs')
  BY DEF Fremove, May, Fd, Done, Answered
<1>2. Sound(fs) /\ Paged(fs) /\ Informed(fs) /\ fs \in State
  BY DEF Healthy, Sound
<1>3. Preserves(fs, s) /\ Milder(fs, s) /\ Freed(fs, s, C)
  BY <1>2, ReleaseIsMild, Releasing
<1> HIDE DEF s
<1>4. Exists(fs, o) /\ o \in ObjId
  BY <1>1, OpenObject
<1>5. /\ Sound(s) /\ Paged(s) /\ Informed(s) /\ Exists(s, o)
  BY <1>2, <1>3, <1>4 DEF Preserves, Milder, Exists
<1>6. Sound(u) /\ Paged(u) /\ Informed(u)
  BY <1>5, Deleting DEF Informed
<1>7. Gone(s, u, o)
  BY <1>5, DeletingGoes
<1>8. About(fs, s, o)
  <2>1. /\ s.disk = fs.disk /\ s.res = fs.res
        /\ \A j \in Handle :
              /\ s.fd[j].open = fs.fd[j].open /\ s.fd[j].obj = fs.fd[j].obj
              /\ s.fd[j].flags = fs.fd[j].flags /\ s.fd[j].fdoffset = fs.fd[j].fdoffset
              /\ fs.fd[j].open /\ fs.fd[j].cp \in C => s.fd[j].cp = NoPage
              /\ ~(fs.fd[j].open /\ fs.fd[j].cp \in C) => s.fd[j].cp = fs.fd[j].cp
        /\ \A c \in CachePage : /\ c \in C => ~s.cache[c].wr
                                /\ c \notin C => s.cache[c] = fs.cache[c]
    BY <1>3 DEF Freed
  <2>2. \A c \in CachePage : c \in C => fs.cache[c].obj = o
    BY OwnPage, Constants
  <2>3. \A x \in ObjId \ {o} : SamePages(fs, s, x)
    BY <2>1, <2>2 DEF SamePages
  <2>4. ASSUME NEW j \in Handle, s.fd[j].obj # o
        PROVE  s.fd[j].cp = fs.fd[j].cp
    <3>1. fs.fd[j].cp # NoPage => fs.cache[fs.fd[j].cp].obj = fs.fd[j].obj
                                  /\ fs.fd[j].cp \in CachePage
      BY OwnPage
    <3>2. fs.fd[j].cp \in C => fs.fd[j].cp = NoPage
      BY <2>1, <2>2, <2>4, <3>1
    <3> QED
      BY <2>1, <3>2
  <2> HIDE DEF C, o
  <2>5. \A c \in CachePage : s.cache[c].wr => s.cache[c] = fs.cache[c]
    BY <2>1
  <2> QED
    BY <2>1, <2>3, <2>4, <2>5 DEF About
<1> HIDE DEF u
<1> QED
  BY <1>1, <1>4, <1>6, <1>7, <1>8, GoneImplements

----------------------------------------------------------------------------
(* Collecting garbage, and losing power.                                   *)

\* The header moves, and the event tells its size.
LEMMA TellingIsSame ==
    ASSUME NEW s, Healthy(s), NEW o, Exists(s, o), Len(s.disk[o].data) # 0
    PROVE  SameStore(s, HeaderEvent(s, o, Len(s.disk[o].data), TRUE, 0))
<1> DEFINE d == s.disk[o].data
           t == HeaderEvent(s, o, Len(d), TRUE, 0)
<1>1. /\ Sound(s) /\ Paged(s) /\ Informed(s) /\ s \in State /\ o \in ObjId
      /\ Bounded(s) /\ Based(s) /\ Placed(s) /\ s.res = "OK"
  BY DEF Healthy, Sound, Exists
<1>2. d \in Seq(Symbol) /\ Len(d) <= MaxSize /\ Room(s, o, Len(d))
  BY <1>1, Fields DEF Exists, FileRec, Bounded, Placed
<1>3. [s EXCEPT !.disk[o].data = d] = s
  BY <1>1, Fields DEF Exists, FileRec, State
<1>4. TRUE \in BOOLEAN
  OBVIOUS
<1>5. Stored(s, HeaderEvent([s EXCEPT !.disk[o].data = d], o, Len(d), TRUE, 0), o, d)
  BY <1>1, <1>2, <1>4, RewritingStays
<1>6. Stored(s, t, o, d)
  BY <1>3, <1>5
<1> HIDE DEF t
<1>7. /\ Sound(t) /\ Paged(t) /\ Informed(t) /\ t.cache = s.cache /\ t.res = "OK"
      /\ Stays(s, t) /\ t \in State
  BY <1>1, <1>6 DEF Stored, Preserves, Sound
<1>8. t.disk = s.disk
  <2>1. t.disk[o] = s.disk[o]
    BY <1>1, <1>6, Fields DEF Stored, Exists, FileRec
  <2>2. \A x \in ObjId \ {o} : t.disk[x] = s.disk[x]
    BY <1>6 DEF Stored
  <2>3. \A x \in ObjId : t.disk[x] = s.disk[x]
    BY <2>1, <2>2
  <2>4. /\ s.disk \in [ObjId -> FileRec \cup {NoFile}]
        /\ t.disk \in [ObjId -> FileRec \cup {NoFile}]
    BY <1>1, <1>7, Fields
  <2> QED
    BY <2>3, <2>4
<1>9. Bounded(t) /\ Based(t)
  BY <1>1, <1>7, <1>8, StillBased
<1>10. Placed(t)
  <2> SUFFICES ASSUME NEW x \in ObjId, Exists(t, x) PROVE Room(t, x, Len(t.disk[x].data))
    BY DEF Placed
  <2>1. Room(s, x, Len(s.disk[x].data))
    BY <1>1, <1>8 DEF Placed, Exists
  <2> QED
    BY <1>6, <1>8, <2>1, StoredRoom
<1>11. \A x \in ObjId : View(t, x) = View(s, x)
  BY <1>7, <1>8 DEF View, PagesFor, CachePageOf
<1>12. \A j \in Handle : Hd(t, j) = Hd(s, j) /\ t.fd[j].open = s.fd[j].open
                         /\ t.fd[j].obj = s.fd[j].obj
  BY <1>7, StaysSame DEF Stays
<1>13. Healthy(t)
  BY <1>7, <1>9, <1>10 DEF Healthy
<1> QED
  BY <1>8, <1>11, <1>12, <1>13 DEF SameStore, t, d

\* or does not.
LEMMA MovingIsSame ==
    ASSUME Healthy(fs), NEW o \in ObjId
    PROVE  SameStore(fs, HeaderEvent(fs, o, 0, TRUE, 0))
<1> DEFINE t == HeaderEvent(fs, o, 0, TRUE, 0)
<1>2. Sound(fs) /\ Paged(fs) /\ Informed(fs)
  BY DEF Healthy
<1>3. 0 \in Nat /\ Undefined # 0 /\ TRUE \in BOOLEAN
  BY Constants
<1>4. Quiet(fs, t, o, 0)
  BY <1>2, <1>3, EventQuiet
<1>5. Evented(fs, t, o, 0)
  BY <1>2, <1>3, Events
<1>6. Preserves(fs, t)
  BY <1>2, MoveKeeps
<1> HIDE DEF t
<1>7. /\ t.cache = fs.cache /\ t.disk = fs.disk /\ t.res = fs.res
      /\ \A j \in Handle : t.fd[j].cp = fs.fd[j].cp
                           /\ t.fd[j].fdoffset = fs.fd[j].fdoffset
  BY <1>4 DEF Quiet, EventOffset
<1>8. /\ t \in State
      /\ \A j \in Handle : /\ t.fd[j].open = fs.fd[j].open /\ t.fd[j].obj = fs.fd[j].obj
                           /\ t.fd[j].flags = fs.fd[j].flags
  BY <1>5 DEF Evented, Milder
<1>9. Held(fs, t)
  BY <1>7, <1>8 DEF Held
<1>10. /\ Bounded(t) /\ Based(t) /\ Placed(t)
       /\ \A x \in ObjId : View(t, x) = View(fs, x) /\ t.disk[x] = fs.disk[x]
  BY <1>8, <1>9, HeldStays DEF Healthy
<1>11. Healthy(t)
  BY <1>2, <1>6, <1>7, <1>10 DEF Healthy, Preserves
<1>12. \A j \in Handle : Hd(t, j) = Hd(fs, j)
  BY <1>7, <1>8, SameHandle
<1> QED
  BY <1>8, <1>10, <1>11, <1>12 DEF SameStore, t

LEMMA CollectGarbageImplements ==
    ASSUME Healthy(fs), NEW o \in ObjId, CollectGarbage(o)
    PROVE  Implemented
<1>1. PICK n \in {0, Len(fs.disk[o].data)} : Answered(HeaderEvent(fs, o, n, TRUE, 0), fs')
  BY DEF CollectGarbage, Done, Answered
<1> DEFINE t == HeaderEvent(fs, o, n, TRUE, 0)
<1>2. Exists(fs, o)
  BY DEF CollectGarbage, Live, Exists
<1>3. SameStore(fs, t)
  <2>1. CASE n = 0
    BY <2>1, MovingIsSame
  <2>2. CASE n # 0
    BY <1>1, <1>2, <2>2, TellingIsSame
  <2> QED
    BY <2>1, <2>2
<1> HIDE DEF t
<1>4. fs' = t
  BY <1>1, <1>3, HealthyAnswer DEF SameStore, t
<1> QED
  BY <1>3, <1>4, SameImplements

\* What is mounted: every descriptor is closed and nothing waits.
LEMMA MountedIsBare ==
    ASSUME NEW d \in [ObjId -> FileRec \cup {NoFile}],
           \A o \in ObjId : d[o] # NoFile => Len(d[o].data) <= MaxSize,
           NEW t, t = Mounted(d)
    PROVE  /\ Healthy(t) /\ t.disk = d /\ \A h \in Handle : Hd(t, h) = Closed
           /\ \A o \in ObjId : View(t, o) = d[o]
<1>1. Sound(t) /\ Paged(t) /\ Informed(t)
  BY Mounting
<1>2. /\ t.disk = d /\ t.fd = [h \in Handle |-> NoFd]
      /\ t.cache = [c \in CachePage |-> NoCache] /\ t.res = "OK"
  BY DEF Mounted
<1>3. NoFd.open = FALSE /\ NoCache.wr = FALSE
  BY DEF NoFd, NoCache
<1>4. /\ \A h \in Handle : t.fd[h].open = FALSE
      /\ \A c \in CachePage : t.cache[c].wr = FALSE
  BY <1>2, <1>3
<1>5. Bounded(t)
  BY <1>2 DEF Bounded, Exists
<1>6. Based(t)
  BY <1>4 DEF Based
<1>7. Placed(t)
  BY <1>4 DEF Placed, Room
<1>8. \A h \in Handle : Hd(t, h) = Closed
  BY <1>4 DEF Hd
<1>9. \A o \in ObjId : PagesFor(t, o) = {}
  BY <1>4 DEF PagesFor
<1>10. \A o \in ObjId : View(t, o) = d[o]
  BY <1>2, <1>9, BareView
<1> QED
  BY <1>1, <1>2, <1>5, <1>6, <1>7, <1>8, <1>10 DEF Healthy

LEMMA PowerLossImplements ==
    ASSUME Healthy(fs), PowerLoss
    PROVE  Implemented
<1>1. fs' = Mounted(fs.disk)
  BY DEF PowerLoss
<1>2. fs.disk \in [ObjId -> FileRec \cup {NoFile}]
  BY Fields DEF Healthy, Sound
<1>3. \A o \in ObjId : fs.disk[o] # NoFile => Len(fs.disk[o].data) <= MaxSize
  BY DEF Healthy, Bounded, Exists
<1>4. PICK d : d = fs.disk
  OBVIOUS
<1>5. PICK t : t = fs'
  OBVIOUS
<1>6. /\ Healthy(t) /\ t.disk = d /\ \A h \in Handle : Hd(t, h) = Closed
      /\ \A o \in ObjId : View(t, o) = d[o]
  BY <1>1, <1>2, <1>3, <1>4, <1>5, MountedIsBare
<1>7. Files(fs') = fs.disk
  BY <1>2, <1>4, <1>5, <1>6 DEF Files
<1>8. Store!PowerLoss
  BY <1>4, <1>5, <1>6, <1>7, PowerLossMaps
<1> QED
  BY <1>5, <1>6, <1>8 DEF Implemented, Store!Next

----------------------------------------------------------------------------
(* Unmounting.                                                             *)

\* What is seen stays, slot k is closed, and no slot is opened.
Unmounted(s, t, k) ==
    /\ Healthy(t) /\ ~t.fd[k].open
    /\ \A x \in ObjId : View(t, x) = View(s, x)
    /\ \A j \in Handle : ~s.fd[j].open => ~t.fd[j].open

LEMMA UnmountingSyncs ==
    ASSUME NEW s, Healthy(s), NEW k \in Handle
    PROVE  Unmounted(s, Unmounting(s, k, "never"), k)
<1> DEFINE t == FlushCache(s, k, "never")
           v == [t EXCEPT !.fd[k] = Shut(@)]
<1>1. Unmounting(s, k, "never") = IF s.fd[k].open THEN v ELSE s
  <2>1. [s EXCEPT !.res = "OK"] = s
    BY SameAnswer
  <2> QED
    BY <2>1 DEF Unmounting
<1>2. CASE ~s.fd[k].open
  BY <1>1, <1>2 DEF Unmounted
<1>3. CASE s.fd[k].open
  <2>1. Sound(s) /\ Paged(s) /\ Informed(s)
    BY DEF Healthy
  <2>2. PICK o : o = s.fd[k].obj
    OBVIOUS
  <2>3. SyncedTo(s, t, o) /\ o \in ObjId
    BY <1>3, <2>2, FlushSyncs, OpenObject
  <2>4. t.fd[k].cp = NoPage
    BY <1>3, <2>1, Flushing
  <2> HIDE DEF t
  <2>5. Healthy(t) /\ Stays(s, t) /\ Sound(t) /\ Paged(t) /\ Informed(t) /\ t \in State
    BY <2>3 DEF SyncedTo, Healthy, Sound
  <2>6. Sound(v) /\ Informed(v) /\ Paged(v)
    BY <2>4, <2>5, GivingBack DEF InformedBut, Informed
  <2>7. GivenBack(t, v, k)
    BY <2>5, ShuttingHolds
  <2> HIDE DEF v
  <2>8. /\ Held(t, v) /\ v.res = t.res /\ ~v.fd[k].open
        /\ \A j \in Handle \ {k} : v.fd[j] = t.fd[j]
    BY <2>7 DEF GivenBack
  <2>9. /\ Bounded(v) /\ Based(v) /\ Placed(v)
        /\ \A x \in ObjId : View(v, x) = View(t, x)
    BY <2>5, <2>6, <2>8, HeldStays DEF Healthy, Sound
  <2>10. Healthy(v)
    BY <2>5, <2>6, <2>8, <2>9 DEF Healthy
  <2>11. Does(s, t, o, View(s, o), View(s, o))
    BY <2>3, SyncedDoes
  <2>12. \A x \in ObjId : View(v, x) = View(s, x)
    BY <2>9, <2>11 DEF Does
  <2>13. \A j \in Handle : ~s.fd[j].open => ~v.fd[j].open
    BY <2>5, <2>8 DEF Stays
  <2> QED
    BY <1>1, <1>3, <2>8, <2>10, <2>12, <2>13 DEF Unmounted
<1> QED
  BY <1>2, <1>3

\* The unmount has come to slot k.
CameTo(s, k) ==
    /\ Healthy(s)
    /\ \A x \in ObjId : View(s, x) = View(fs, x)
    /\ \A j \in Handle : j <= k => ~s.fd[j].open

LEMMA NextSlot ==
    ASSUME NEW k \in Nat, k \in Handle, NEW s, CameTo(s, k - 1)
    PROVE  CameTo(Unmounting(s, k, "never"), k)
<1> DEFINE t == Unmounting(s, k, "never")
<1>1. /\ Healthy(s) /\ \A x \in ObjId : View(s, x) = View(fs, x)
      /\ \A j \in Handle : j <= k - 1 => ~s.fd[j].open
  BY DEF CameTo
<1>2. Unmounted(s, t, k)
  BY <1>1, UnmountingSyncs
<1> HIDE DEF t
<1>3. /\ Healthy(t) /\ ~t.fd[k].open
      /\ \A x \in ObjId : View(t, x) = View(s, x)
      /\ \A j \in Handle : ~s.fd[j].open => ~t.fd[j].open
  BY <1>2 DEF Unmounted
<1>4. ASSUME NEW j \in Handle, j <= k PROVE ~t.fd[j].open
  <2>1. j \in Nat
    BY Constants DEF Handle
  <2>2. j = k \/ j <= k - 1
    BY <1>4, <2>1
  <2> QED
    BY <1>1, <1>3, <2>2
<1>5. \A x \in ObjId : View(t, x) = View(fs, x)
  BY <1>1, <1>3
<1>6. CameTo(t, k)
  BY <1>3, <1>4, <1>5 DEF CameTo
<1> QED
  BY <1>6 DEF t

\* When all slots are closed, nothing waits.
LEMMA AllStored ==
    ASSUME NEW s, CameTo(s, FdCount)
    PROVE  \A x \in ObjId : s.disk[x] = View(fs, x)
<1>1. \A j \in Handle : ~s.fd[j].open
  BY DEF CameTo, Handle
<1>2. \A c \in CachePage : ~s.cache[c].wr
  BY <1>1 DEF CameTo, Healthy, Paged, Owned
<1>3. \A x \in ObjId : PagesFor(s, x) = {}
  BY <1>2 DEF PagesFor
<1>4. \A x \in ObjId : View(s, x) = s.disk[x]
  BY <1>3, BareView
<1> QED
  BY <1>4 DEF CameTo

LEMMA RemountImplements ==
    ASSUME Healthy(fs), Remount("never")
    PROVE  Implemented
<1> DEFINE f == CHOOSE g : IsUnmount(g, FdCount, "never")
<1>1. fs' = Mounted(f[FdCount].disk)
  BY DEF Remount, IsUnmount, Unmounting
<1>2. IsUnmount(f, FdCount, "never")
  BY UnmountExists, Constants
<1> HIDE DEF f
<1>3. \A k \in 0 .. FdCount :
         f[k] = IF k = 0 THEN fs ELSE Unmounting(f[k - 1], k, "never")
  BY <1>2 DEF IsUnmount
<1> DEFINE S == {k \in 0 .. FdCount : ~CameTo(f[k], k)}
<1>4. S = {}
  <2> SUFFICES ASSUME S # {} PROVE FALSE
    OBVIOUS
  <2>1. S \in SUBSET Nat
    BY Constants
  <2>2. PICK k \in S : \A y \in S : k <= y
    BY <2>1, LeastMember
  <2>3. k \in 0 .. FdCount /\ ~CameTo(f[k], k) /\ k \in Nat
    BY Constants
  <2>4. k # 0
    <3>1. \A j \in Handle : ~(j <= 0)
      BY Constants DEF Handle
    <3>2. CameTo(fs, 0)
      BY <3>1 DEF CameTo
    <3>3. f[0] = fs
      BY <1>3, Constants
    <3> QED
      BY <2>3, <3>2, <3>3
  <2>5. k - 1 \in 0 .. FdCount /\ ~(k <= k - 1)
    BY <2>3, <2>4, Constants
  <2>6. CameTo(f[k - 1], k - 1)
    BY <2>2, <2>5
  <2>7. k \in Handle /\ f[k] = Unmounting(f[k - 1], k, "never")
    BY <1>3, <2>3, <2>4, Constants DEF Handle
  <2>8. PICK s : s = f[k - 1]
    OBVIOUS
  <2> QED
    BY <2>3, <2>6, <2>7, <2>8, NextSlot
<1>5. FdCount \in 0 .. FdCount
  BY Constants
<1>6. CameTo(f[FdCount], FdCount)
  BY <1>4, <1>5
<1>7. PICK d, t : d = f[FdCount].disk /\ t = fs'
  OBVIOUS
<1>8. \A x \in ObjId : d[x] = View(fs, x)
  BY <1>6, <1>7, AllStored
<1>9. d \in [ObjId -> FileRec \cup {NoFile}]
  BY <1>6, <1>7, Fields DEF CameTo, Healthy, Sound
<1>10. \A o \in ObjId : d[o] # NoFile => Len(d[o].data) <= MaxSize
  BY <1>6, <1>7 DEF CameTo, Healthy, Bounded, Exists
<1>11. /\ Healthy(t) /\ t.disk = d /\ \A h \in Handle : Hd(t, h) = Closed
       /\ \A o \in ObjId : View(t, o) = d[o]
  BY <1>1, <1>7, <1>9, <1>10, MountedIsBare
<1>12. d = Files(fs)
  BY <1>8, <1>9 DEF Files
<1>13. Files(fs') = Files(fs)
  BY <1>7, <1>8, <1>11 DEF Files
<1>14. Store!Unmount
  BY <1>7, <1>11, <1>12, <1>13, UnmountMaps
<1> QED
  BY <1>7, <1>11, <1>14 DEF Implemented, Store!Next

----------------------------------------------------------------------------
(* Renaming.                                                               *)

\* An object that nothing is open on has no write page, and is what is seen.
LEMMA NobodyWaits ==
    ASSUME NEW s, Healthy(s), NEW o \in ObjId, NobodyOn(s, o)
    PROVE  /\ PagesFor(s, o) = {} /\ View(s, o) = s.disk[o]
           /\ \A j \in Handle : s.fd[j].obj # o
<1>1. PagesFor(s, o) = {}
  <2> SUFFICES ASSUME NEW c \in CachePage, s.cache[c].wr, s.cache[c].obj = o PROVE FALSE
    BY DEF PagesFor
  <2>1. PICK j \in Handle : s.fd[j].open /\ s.fd[j].cp = c
    BY DEF Healthy, Paged, Owned
  <2>2. c # NoPage
    BY Constants
  <2>3. s.fd[j].obj = o
    BY <2>1, <2>2, OwnPage
  <2> QED
    BY <2>1, <2>3 DEF NobodyOn
<1>2. \A j \in Handle : s.fd[j].obj # o
  BY Constants DEF NobodyOn, Healthy, Paged, Clean
<1> QED
  BY <1>1, <1>2, BareView

\* Object o has other name, and all else is as it was.
Renamed(s, t, o, x) ==
    /\ t.cache = s.cache /\ t.res = "OK" /\ t.disk[o] = x
    /\ \A z \in ObjId \ {o} : t.disk[z] = s.disk[z]
    /\ \A j \in Handle :
          \/ ~t.fd[j].open /\ ~s.fd[j].open
          \/ /\ t.fd[j].open = s.fd[j].open /\ t.fd[j].obj = s.fd[j].obj
             /\ t.fd[j].flags = s.fd[j].flags /\ t.fd[j].fdoffset = s.fd[j].fdoffset
             /\ t.fd[j].cp = s.fd[j].cp

LEMMA RenamedImplements ==
    ASSUME Healthy(fs), NEW o \in ObjId, Exists(fs, o), NobodyOn(fs, o),
           NEW new \in Name, Named(new) = {},
           NEW x, x = [fs.disk[o] EXCEPT !.name = new],
           Renamed(fs, fs', o, x), Sound(fs'), Paged(fs'), Informed(fs')
    PROVE  Implemented
<1>1. /\ PagesFor(fs, o) = {} /\ View(fs, o) = fs.disk[o]
      /\ \A j \in Handle : fs.fd[j].obj # o
  BY NobodyWaits
<1>2. /\ fs.disk[o] \in FileRec /\ fs.disk[o] # NoFile
      /\ x \in FileRec /\ x.data = fs.disk[o].data /\ x # NoFile
  <2>1. fs.disk[o] \in FileRec /\ fs.disk[o] # NoFile
    BY Fields DEF Healthy, Sound, Exists
  <2>2. x \in FileRec /\ x.data = fs.disk[o].data
    BY <2>1 DEF FileRec
  <2> QED
    BY <2>1, <2>2, Constants
<1>3. /\ fs'.cache = fs.cache /\ fs'.res = "OK" /\ fs'.disk[o] = x
      /\ \A z \in ObjId \ {o} : fs'.disk[z] = fs.disk[z]
  BY DEF Renamed
<1>4. \A j \in Handle :
         \/ ~fs'.fd[j].open /\ ~fs.fd[j].open
         \/ /\ fs'.fd[j].open = fs.fd[j].open /\ fs'.fd[j].obj = fs.fd[j].obj
            /\ fs'.fd[j].flags = fs.fd[j].flags /\ fs'.fd[j].fdoffset = fs.fd[j].fdoffset
            /\ fs'.fd[j].cp = fs.fd[j].cp
  BY DEF Renamed
<1>5. PICK t : t = fs'
  OBVIOUS
<1>6. \A z \in ObjId : (Exists(t, z) <=> Exists(fs, z)) /\ (Exists(fs, z) =>
                            t.disk[z].data = fs.disk[z].data)
  BY <1>2, <1>3, <1>5 DEF Exists
<1>7. Bounded(t)
  BY <1>6 DEF Healthy, Bounded
<1>8. Based(t)
  <2> SUFFICES ASSUME NEW c \in CachePage, t.cache[c].wr
               PROVE  /\ t.cache[c].offset <= Len(t.disk[t.cache[c].obj].data)
                      /\ End(t.cache[c]) <= MaxSize
    BY DEF Based
  <2>1. t.cache[c] = fs.cache[c] /\ fs.cache[c].wr
    BY <1>3, <1>5
  <2>2. fs.cache[c].obj \in ObjId /\ Exists(fs, fs.cache[c].obj)
    BY <2>1, PageFields
  <2>3. t.disk[fs.cache[c].obj].data = fs.disk[fs.cache[c].obj].data
    BY <1>6, <2>2
  <2> QED
    BY <2>1, <2>3 DEF Healthy, Based
<1>9. Placed(t)
  <2> SUFFICES ASSUME NEW z \in ObjId, Exists(t, z), NEW j \in Handle,
                      t.fd[j].open, t.fd[j].obj = z, ~Appends(t, j)
               PROVE  t.fd[j].fdoffset <= Reach(t, j, Len(t.disk[z].data))
    BY DEF Placed, Room
  <2>1. /\ fs.fd[j].open /\ fs.fd[j].obj = z /\ ~Appends(fs, j)
        /\ t.fd[j].fdoffset = fs.fd[j].fdoffset /\ t.fd[j].cp = fs.fd[j].cp
    BY <1>4, <1>5 DEF Appends
  <2>2. Exists(fs, z) /\ t.disk[z].data = fs.disk[z].data
    BY <1>6
  <2>3. fs.fd[j].fdoffset <= Reach(fs, j, Len(fs.disk[z].data))
    BY <2>1, <2>2 DEF Healthy, Placed, Room
  <2> QED
    BY <1>3, <1>5, <2>1, <2>2, <2>3 DEF Reach
<1>10. Healthy(t)
  BY <1>3, <1>5, <1>7, <1>8, <1>9 DEF Healthy
<1>11. PagesFor(t, o) = {}
  BY <1>1, <1>3, <1>5 DEF PagesFor
<1>12. View(t, o) = x /\ t.disk[o] = x
  BY <1>3, <1>5, <1>11, BareView
<1>13. \A z \in ObjId \ {o} : View(t, z) = View(fs, z) /\ t.disk[z] = fs.disk[z]
  <2>1. \A z \in ObjId \ {o} : SamePages(fs, t, z) /\ t.disk[z] = fs.disk[z]
    BY <1>3, <1>5 DEF SamePages
  <2> QED
    BY <2>1, SameView
<1>14. Does(fs, fs', o, x, x)
  BY <1>5, <1>10, <1>12, <1>13 DEF Does
<1>15. ASSUME NEW j \in Handle PROVE Hd(t, j) = Hd(fs, j)
  <2>1. CASE ~t.fd[j].open /\ ~fs.fd[j].open
    BY <2>1 DEF Hd
  <2>2. CASE /\ t.fd[j].open = fs.fd[j].open /\ t.fd[j].obj = fs.fd[j].obj
             /\ t.fd[j].flags = fs.fd[j].flags /\ t.fd[j].fdoffset = fs.fd[j].fdoffset
             /\ t.fd[j].cp = fs.fd[j].cp
    BY <2>2, SameHandle
  <2> QED
    BY <1>4, <1>5, <2>1, <2>2
<1>16. \A j \in Handle : Hd(fs', j) = Hd(fs, j)
  BY <1>5, <1>15
<1>17. Does(fs, fs', o, [fs.disk[o] EXCEPT !.name = new], [fs.disk[o] EXCEPT !.name = new])
  BY <1>14
<1>18. Store!Rename(o, new)
  BY <1>1, <1>2, <1>16, <1>17, RenameMaps
<1>19. Store!Next
  BY <1>18 DEF Store!Next
<1> QED
  BY <1>5, <1>10, <1>19 DEF Implemented

\* Renaming a file that nothing is open on.
LEMMA RenameImplements ==
    ASSUME Healthy(fs), Healthy(fs) => Keeps(fs, fs'), NeverDirect, NeverFresh,
           "rename" \notin Habits,
           NEW n, NEW new \in Name, NEW h \in Handle, Rename(n, new, h)
    PROVE  Implemented
<1>1. PICK o \in Named(n) :
         /\ \A j \in Handle : ~(fs.fd[j].open /\ fs.fd[j].obj = o)
         /\ LET s == OpenByPage([fs EXCEPT !.disk[o].name = new], h, o, {})
                u == HeaderEvent(s, o, SizeOf(s.disk[o].data), TRUE, h)
            IN  fs' = [[u EXCEPT !.fd[h] = Shut(@)] EXCEPT !.res = "OK"]
  BY DEF Rename, Done, Fd
<1> DEFINE x == [fs.disk[o] EXCEPT !.name = new]
           r == [fs EXCEPT !.disk[o] = x]
           s == OpenByPage(r, h, o, {})
           z == SizeOf(s.disk[o].data)
           u == HeaderEvent(s, o, z, TRUE, h)
           v == [u EXCEPT !.fd[h] = Shut(@)]
<1>2. /\ ~fs.fd[h].open /\ o \in ObjId /\ Exists(fs, o) /\ fs \in State /\ Named(new) = {}
      /\ Sound(fs) /\ Paged(fs) /\ Informed(fs) /\ fs.res = "OK" /\ NobodyOn(fs, o)
  <2>1. ~fs.fd[h].open /\ Named(new) = {}
    BY DEF Rename, SpareSlots, UnscoredSlots, ClosedSlots
  <2> QED
    BY <1>1, <2>1, NamedExist DEF Healthy, Sound, NobodyOn
<1>3. fs' = [v EXCEPT !.res = "OK"]
  <2>1. [fs EXCEPT !.disk[o].name = new] = r
    BY <1>2, Fields DEF Exists
  <2> QED
    BY <1>1, <2>1
<1>4. x \in FileRec /\ x.data = fs.disk[o].data /\ x # NoFile
  BY <1>2, Fields, Constants DEF FileRec, Exists
<1>5. x = [fs.disk[o] EXCEPT !.name = new]
  OBVIOUS
<1> HIDE DEF x
<1>6. /\ r \in State /\ r.fd = fs.fd /\ r.cache = fs.cache /\ r.res = fs.res
      /\ r.disk[o] = x /\ \A j \in ObjId \ {o} : r.disk[j] = fs.disk[j]
  BY <1>2, <1>4, SetFile
<1> HIDE DEF r
<1>7. Sound(r)
  BY <1>2, <1>4, <1>6 DEF Sound, Exists
<1>8. Opened(r, s, h, o)
  BY <1>2, <1>4, <1>6, <1>7, Opening DEF Exists
<1> HIDE DEF s
<1>9. /\ Sound(s) /\ s \in State /\ s.disk = r.disk /\ s.cache = fs.cache /\ s.res = "OK"
      /\ \A j \in Handle \ {h} : s.fd[j] = fs.fd[j]
      /\ s.fd[h].open /\ s.fd[h].cp = fs.fd[h].cp
  BY <1>2, <1>6, <1>8 DEF Opened, Sound
<1>10. fs.fd[h].cp = NoPage
  BY <1>2 DEF Paged, Clean
<1>11. \A j \in Handle : fs.fd[j].obj # o
  BY <1>2, NobodyWaits
<1>12. \A j \in Handle : s.fd[j].obj = o => s.fd[j].cp = NoPage
  BY <1>9, <1>10, <1>11
<1>13. z \in Nat /\ TRUE \in BOOLEAN
  BY <1>4, <1>6, <1>9, Sizes DEF FileRec
<1> HIDE DEF z
<1>14. Quiet(s, u, o, z) /\ Evented(s, u, o, z)
  BY <1>2, <1>9, <1>12, <1>13, EventQuiet, Events
<1> HIDE DEF u
<1>15. /\ u \in State /\ Sound(u) /\ u.cache = fs.cache /\ u.disk = r.disk /\ u.res = "OK"
       /\ \A j \in Handle :
             /\ u.fd[j].cp = s.fd[j].cp /\ u.fd[j].fdoffset = EventOffset(s, j, o, z)
             /\ u.fd[j].open = s.fd[j].open /\ u.fd[j].obj = s.fd[j].obj
             /\ u.fd[j].flags = s.fd[j].flags
  BY <1>9, <1>14 DEF Quiet, Evented, Milder
<1>16. GivenBack(u, v, h)
  BY <1>15, ShuttingHolds
<1>17. v \in State
  BY <1>15, GivingBack DEF Sound
<1> HIDE DEF v
<1>18. /\ v.disk = r.disk /\ v.cache = fs.cache /\ v.res = "OK" /\ ~v.fd[h].open
       /\ \A j \in Handle \ {h} : v.fd[j] = u.fd[j]
  BY <1>15, <1>16 DEF GivenBack, Held
<1>19. fs' = v
  BY <1>3, <1>17, <1>18 DEF State
<1>20. ASSUME NEW j \in Handle
       PROVE  \/ ~v.fd[j].open /\ ~fs.fd[j].open
              \/ /\ v.fd[j].open = fs.fd[j].open /\ v.fd[j].obj = fs.fd[j].obj
                 /\ v.fd[j].flags = fs.fd[j].flags /\ v.fd[j].fdoffset = fs.fd[j].fdoffset
                 /\ v.fd[j].cp = fs.fd[j].cp
  <2>1. CASE j = h
    BY <1>2, <1>18, <2>1
  <2>2. CASE j # h
    <3>1. v.fd[j] = u.fd[j] /\ s.fd[j] = fs.fd[j]
      BY <1>9, <1>18, <2>2
    <3>2. EventOffset(s, j, o, z) = fs.fd[j].fdoffset
      BY <1>11, <3>1 DEF EventOffset
    <3>3. /\ u.fd[j].cp = s.fd[j].cp /\ u.fd[j].fdoffset = EventOffset(s, j, o, z)
          /\ u.fd[j].open = s.fd[j].open /\ u.fd[j].obj = s.fd[j].obj
          /\ u.fd[j].flags = s.fd[j].flags
      BY <1>15
    <3> QED
      BY <3>1, <3>2, <3>3
  <2> QED
    BY <2>1, <2>2
<1>21. /\ v.disk[o] = x /\ \A j \in ObjId \ {o} : v.disk[j] = fs.disk[j]
  BY <1>6, <1>18
<1>22. Renamed(fs, v, o, x)
  BY <1>18, <1>20, <1>21 DEF Renamed
<1>23. Sound(fs') /\ Paged(fs') /\ Informed(fs')
  BY <1>2 DEF Keeps
<1>24. PICK y : y = x
  OBVIOUS
<1> QED
  BY <1>2, <1>5, <1>19, <1>22, <1>23, <1>24, RenamedImplements

----------------------------------------------------------------------------
(* A descriptor alone on an empty file.                                    *)

\* The state of FileStore: files F, flash S and descriptors H.
OnH(H, h, x) == H[h] # Closed /\ H[h].obj = x
LoneH(H, h, x) ==
    OnH(H, h, x) /\ ~H[h].append /\ \A j \in Handle : OnH(H, j, x) => j = h

DescRec == [obj : ObjId, append : BOOLEAN, pos : Nat]
Typed(F, S, H) ==
    /\ F \in [ObjId -> FileRec \cup {NoFile}]
    /\ S \in [ObjId -> FileRec \cup {NoFile}]
    /\ H \in [Handle -> DescRec \cup {Closed}]
    /\ \A x \in ObjId : S[x] \in FileRec => F[x] \in FileRec
    /\ \A h \in Handle : H[h] # Closed =>
          F[H[h].obj] \in FileRec /\ S[H[h].obj] \in FileRec

\* Nothing waits for an object that is not open; with nothing of it on the
\* flash, a descriptor that is alone on it is behind what waits.
EndsAt(F, S, H, x) ==
    /\ (\A h \in Handle : ~OnH(H, h, x)) => S[x] = F[x]
    /\ \A h \in Handle :
          LoneH(H, h, x) /\ S[x].data = <<>> => H[h].pos >= Len(F[x].data)

AllEnd(F, S, H) == \A x \in ObjId : EndsAt(F, S, H, x)

LEMMA HealthyIsTyped ==
    ASSUME NEW s, Healthy(s)
    PROVE  Typed(Files(s), s.disk, Handles(s))
<1> DEFINE F == Files(s)
           S == s.disk
           H == Handles(s)
<1>1. s \in State /\ S \in [ObjId -> FileRec \cup {NoFile}]
  BY Fields DEF Healthy, Sound
<1>2. ASSUME NEW x \in ObjId
      PROVE  /\ F[x] \in FileRec \cup {NoFile}
             /\ S[x] \in FileRec => F[x] \in FileRec
  <2>1. F[x] = View(s, x)
    BY DEF Files
  <2>2. CASE PagesFor(s, x) = {}
    BY <1>1, <2>1, <2>2, BareView
  <2>3. CASE PagesFor(s, x) # {}
    <3>1. PICK c \in CachePage : s.cache[c].wr /\ s.cache[c].obj = x
      BY <2>3 DEF PagesFor
    <3>2. /\ View(s, x) = [s.disk[x] EXCEPT !.data =
                 Splice(s.disk[x].data, s.cache[c].offset, s.cache[c].data)]
          /\ Exists(s, x) /\ s.disk[x].data \in Seq(Symbol)
          /\ s.cache[c].offset \in Nat /\ s.cache[c].data \in Seq(Symbol)
      BY <3>1, PageView, PageFields
    <3> DEFINE d == Splice(s.disk[x].data, s.cache[c].offset, s.cache[c].data)
    <3>3. d \in Seq(Symbol)
      BY <3>2, SpliceBytes
    <3>4. s.disk[x] \in FileRec
      BY <1>1, <3>2 DEF Exists
    <3>5. View(s, x) = [s.disk[x] EXCEPT !.data = d]
      BY <3>2
    <3> HIDE DEF d
    <3> QED
      BY <2>1, <3>3, <3>4, <3>5 DEF FileRec
  <2> QED
    BY <2>2, <2>3
<1>3. F \in [ObjId -> FileRec \cup {NoFile}]
  BY <1>2 DEF Files
<1>4. ASSUME NEW h \in Handle
      PROVE  /\ H[h] \in DescRec \cup {Closed}
             /\ H[h] # Closed => F[H[h].obj] \in FileRec /\ S[H[h].obj] \in FileRec
  <2>1. H[h] = Hd(s, h)
    BY DEF Handles
  <2>2. CASE ~s.fd[h].open
    BY <2>1, <2>2 DEF Hd
  <2>3. CASE s.fd[h].open
    <3>1. /\ s.fd[h].obj \in ObjId /\ s.disk[s.fd[h].obj] \in FileRec
          /\ s.fd[h].fdoffset \in Nat
      BY <1>1, <2>3, OpenObject, Fields DEF FdRec
    <3>2. Hd(s, h) = HdOf(s.fd[h].obj, Appends(s, h), s.fd[h].fdoffset)
          /\ Hd(s, h).obj = s.fd[h].obj
      BY <2>3, NotClosed
    <3>3. HdOf(s.fd[h].obj, Appends(s, h), s.fd[h].fdoffset) \in DescRec
      BY <3>1 DEF HdOf, Appends, DescRec
    <3> QED
      BY <1>2, <2>1, <3>1, <3>2, <3>3
  <2> QED
    BY <2>2, <2>3
<1>5. H \in [Handle -> DescRec \cup {Closed}]
  BY <1>4 DEF Handles
<1> QED
  BY <1>1, <1>2, <1>3, <1>4, <1>5 DEF Typed

\* What is on the flash is all there is.
LEMMA SyncedEnds ==
    ASSUME NEW F, NEW S, NEW H, Typed(F, S, H), NEW x \in ObjId, S[x] = F[x]
    PROVE  EndsAt(F, S, H, x)
<1>1. ASSUME NEW h \in Handle, LoneH(H, h, x), S[x].data = <<>>
      PROVE  H[h].pos >= Len(F[x].data)
  <2>1. H[h].pos \in Nat
    BY <1>1 DEF LoneH, OnH, Typed, DescRec
  <2>2. Len(F[x].data) = 0
    BY <1>1
  <2> QED
    BY <2>1, <2>2
<1> QED
  BY <1>1 DEF EndsAt

\* The bytes stay, and the descriptors.
LEMMA KeptEnds ==
    ASSUME NEW F, NEW S, NEW H, NEW F2, NEW S2, NEW H2, NEW x \in ObjId,
           EndsAt(F, S, H, x), S[x] = F[x] => S2[x] = F2[x],
           F2[x].data = F[x].data, S2[x].data = S[x].data,
           \A j \in Handle : OnH(H2, j, x) \/ OnH(H, j, x) => H2[j] = H[j]
    PROVE  EndsAt(F2, S2, H2, x)
<1>1. \A j \in Handle : OnH(H2, j, x) <=> OnH(H, j, x)
  BY DEF OnH
<1>2. ASSUME NEW h \in Handle, LoneH(H2, h, x)
      PROVE  LoneH(H, h, x) /\ H2[h] = H[h]
  BY <1>1, <1>2 DEF LoneH
<1> QED
  BY <1>1, <1>2 DEF EndsAt

\* A call on object o leaves the others, and their descriptors.
OnlyAbout(F, S, H, F2, S2, H2, o) ==
    /\ \A x \in ObjId \ {o} : F2[x] = F[x] /\ S2[x] = S[x]
    /\ \A j \in Handle :
          \/ H2[j] = H[j]
          \/ /\ H[j] = Closed \/ H[j].obj = o
             /\ H2[j] = Closed \/ H2[j].obj = o

LEMMA OthersEnd ==
    ASSUME NEW F, NEW S, NEW H, NEW F2, NEW S2, NEW H2, NEW o \in ObjId,
           AllEnd(F, S, H), OnlyAbout(F, S, H, F2, S2, H2, o),
           EndsAt(F2, S2, H2, o)
    PROVE  AllEnd(F2, S2, H2)
<1>1. ASSUME NEW x \in ObjId, x # o
      PROVE  EndsAt(F2, S2, H2, x)
  <2>1. F2[x] = F[x] /\ S2[x] = S[x]
    BY <1>1 DEF OnlyAbout
  <2>2. \A j \in Handle : OnH(H2, j, x) \/ OnH(H, j, x) => H2[j] = H[j]
    BY <1>1 DEF OnlyAbout, OnH
  <2>3. EndsAt(F, S, H, x)
    BY DEF AllEnd
  <2> QED
    BY <2>1, <2>2, <2>3, KeptEnds
<1> QED
  BY <1>1 DEF AllEnd

\* The state of FileStore after the call.
Next3(F2, S2, H2) == Files(fs') = F2 /\ fs'.disk = S2 /\ Handles(fs') = H2
Now3(F, S, H)     == Files(fs) = F /\ fs.disk = S /\ Handles(fs) = H

\* Before and after a call.
Both(F, S, H, F2, S2, H2) ==
    Typed(F, S, H) /\ Typed(F2, S2, H2) /\ AllEnd(F, S, H)

\* All that waits for object o is written back, or there is nothing.
LEMMA SyncingEnds ==
    ASSUME NEW F, NEW S, NEW H, NEW F2, NEW S2, NEW H2, Both(F, S, H, F2, S2, H2),
           NEW o \in ObjId, OnlyAbout(F, S, H, F2, S2, H2, o), S2[o] = F2[o]
    PROVE  AllEnd(F2, S2, H2)
BY SyncedEnds, OthersEnd DEF Both

\* A descriptor moves, or is closed, after a flush.
LEMMA FlushingEnds ==
    ASSUME NEW F, NEW S, NEW H, NEW F2, NEW S2, NEW H2, Both(F, S, H, F2, S2, H2),
           NEW h \in Handle, H[h] # Closed, F2 = F,
           S2 = [S EXCEPT ![H[h].obj] = F[H[h].obj]],
           \A j \in Handle \ {h} : H2[j] = H[j],
           H2[h] = Closed \/ H2[h].obj = H[h].obj
    PROVE  AllEnd(F2, S2, H2)
<1> DEFINE o == H[h].obj
<1>1. o \in ObjId
  BY DEF Both, Typed, DescRec
<1> HIDE DEF o
<1>2. S2 = [S EXCEPT ![o] = F[o]] /\ (H2[h] = Closed \/ H2[h].obj = o)
  BY DEF o
<1>3. S2[o] = F2[o] /\ \A x \in ObjId \ {o} : S2[x] = S[x]
  BY <1>1, <1>2 DEF Both, Typed
<1>4. OnlyAbout(F, S, H, F2, S2, H2, o)
  BY <1>2, <1>3 DEF OnlyAbout, o
<1>5. S2[o] = F2[o] /\ o \in ObjId
  BY <1>1, <1>3
<1> QED
  BY <1>4, <1>5, SyncingEnds

\* A descriptor is opened.
LEMMA OpeningEnds ==
    ASSUME NEW F, NEW S, NEW H, NEW F2, NEW S2, NEW H2, Both(F, S, H, F2, S2, H2),
           NEW h \in Handle, NEW o \in ObjId, NEW a \in BOOLEAN,
           H[h] = Closed, F2 = F, S2 = S,
           H2 = [H EXCEPT ![h] = [obj |-> o, pos |-> 0, append |-> a]]
    PROVE  AllEnd(F2, S2, H2)
<1>1. /\ H2[h] = [obj |-> o, pos |-> 0, append |-> a]
      /\ \A j \in Handle \ {h} : H2[j] = H[j]
  BY DEF Both, Typed
<1>2. OnlyAbout(F, S, H, F2, S2, H2, o)
  BY <1>1 DEF OnlyAbout
<1>3. CASE \A j \in Handle : ~OnH(H, j, o)
  <2>1. S2[o] = F2[o]
    BY <1>3 DEF Both, AllEnd, EndsAt
  <2> QED
    BY <1>2, <2>1, SyncingEnds
<1>4. ASSUME NEW j \in Handle, OnH(H, j, o)
      PROVE  AllEnd(F2, S2, H2)
  <2>1. j # h /\ OnH(H2, j, o)
    BY <1>1, <1>4 DEF OnH
  <2>2. H2[h] # Closed /\ H2[h].obj = o
    <3>1. H2[h] \in DescRec
      BY <1>1 DEF DescRec
    <3>2. Closed \notin DescRec
      BY ValuesAssumption DEF DescRec
    <3> QED
      BY <1>1, <3>1, <3>2
  <2>3. \A k \in Handle : ~LoneH(H2, k, o)
    BY <2>1, <2>2 DEF LoneH, OnH
  <2>4. EndsAt(F2, S2, H2, o)
    BY <2>1, <2>3 DEF EndsAt
  <2> QED
    BY <1>2, <2>4, OthersEnd DEF Both
<1> QED
  BY <1>3, <1>4

\* The bytes from the end of d, or from its beginning.
LEMMA SpliceEnd ==
    ASSUME NEW d \in Seq(Symbol), NEW p \in Nat, NEW b, Len(b) \in Nat,
           NEW e \in Seq(Symbol), e = Store!Splice(d, p, b),
           Len(d) <= p
    PROVE  Len(e) = p + Len(b)
<1> DEFINE n == p + Len(b)
<1>1. DOMAIN e = 1 .. IF n > Len(d) THEN n ELSE Len(d)
  BY DEF Store!Splice
<1>2. n \in Nat /\ Len(d) \in Nat /\ Len(d) <= n
  OBVIOUS
<1> HIDE DEF n
<1>3. DOMAIN e = 1 .. n
  BY <1>1, <1>2
<1>4. DOMAIN e = 1 .. Len(e) /\ Len(e) \in Nat
  OBVIOUS
<1>5. Len(e) = n
  BY <1>2, <1>3, <1>4
<1> QED
  BY <1>5 DEF n

\* A write: the position follows what is written.
PutsBytes(F, S, H, F2, S2, H2, h, o, b, f) ==
    /\ H[h] # Closed /\ H[h].obj = o
    /\ H2 = [H EXCEPT ![h].pos = IF H[h].append THEN 0 ELSE @ + Len(b)]
    /\ F2 = [F EXCEPT ![o].data =
                Store!Splice(@, IF H[h].append THEN Len(F[o].data) ELSE H[h].pos, b)]
    /\ f \in {S[o], F[o], F2[o]} /\ S2 = [S EXCEPT ![o] = f]

LEMMA WritingEnds ==
    ASSUME NEW F, NEW S, NEW H, NEW F2, NEW S2, NEW H2, Both(F, S, H, F2, S2, H2),
           NEW h \in Handle, NEW b, Len(b) \in Nat, NEW o, NEW f,
           PutsBytes(F, S, H, F2, S2, H2, h, o, b, f)
    PROVE  AllEnd(F2, S2, H2)
<1> USE DEF PutsBytes
<1> DEFINE p == H[h].pos
<1>1. /\ o \in ObjId /\ H[h] \in DescRec /\ p \in Nat
      /\ F[o] \in FileRec /\ S[o] \in FileRec
  BY DEF Both, Typed, DescRec
<1>2. /\ \A x \in ObjId \ {o} : F2[x] = F[x] /\ S2[x] = S[x]
      /\ S2[o] = f /\ \A j \in Handle \ {h} : H2[j] = H[j]
  BY <1>1 DEF Both, Typed
<1>3. /\ H2[h].obj = o /\ H2[h].append = H[h].append /\ H2[h] \in DescRec
      /\ ~H[h].append => H2[h].pos = p + Len(b)
  <2> DEFINE q == IF H[h].append THEN 0 ELSE p + Len(b)
  <2>1. H2[h] = [H[h] EXCEPT !.pos = q] /\ q \in Nat
    BY <1>1 DEF Both, Typed
  <2>2. ~H[h].append => q = p + Len(b)
    OBVIOUS
  <2> HIDE DEF q, p
  <2> QED
    BY <1>1, <2>1, <2>2 DEF DescRec
<1>4. OnlyAbout(F, S, H, F2, S2, H2, o)
  BY <1>2, <1>3 DEF OnlyAbout
<1>5. OnH(H, h, o) /\ OnH(H2, h, o)
  <2>1. Closed \notin DescRec
    BY ValuesAssumption DEF DescRec
  <2> QED
    BY <1>3, <2>1 DEF OnH
<1>6. ASSUME NEW j \in Handle, LoneH(H2, j, o), S2[o].data = <<>>
      PROVE  H2[j].pos >= Len(F2[o].data)
  <2>1. j = h /\ ~H[h].append
    BY <1>3, <1>5, <1>6 DEF LoneH
  <2>2. LoneH(H, h, o)
    <3>1. ASSUME NEW k \in Handle, OnH(H, k, o) PROVE k = h
      BY <1>2, <1>6, <2>1, <3>1 DEF LoneH, OnH
    <3> QED
      BY <1>5, <2>1, <3>1 DEF LoneH
  <2> DEFINE e == Store!Splice(F[o].data, p, b)
  <2>3. F2[o] = [F[o] EXCEPT !.data = e]
    <3> DEFINE q == IF H[h].append THEN Len(F[o].data) ELSE H[h].pos
    <3>1. q = p
      BY <2>1
    <3> HIDE DEF q, p
    <3>2. F2 = [F EXCEPT ![o].data = Store!Splice(@, q, b)]
      BY DEF q
    <3>3. F2[o] = [F[o] EXCEPT !.data = Store!Splice(F[o].data, q, b)]
      BY <1>1, <3>2 DEF Both, Typed
    <3> QED
      BY <3>1, <3>3
  <2>4. F2[o] \in FileRec
    BY <1>1, <1>3, <1>5 DEF Both, Typed, OnH
  <2> HIDE DEF e
  <2>5. F2[o].data = e /\ e \in Seq(Symbol) /\ F[o].data \in Seq(Symbol)
    BY <1>1, <2>3, <2>4 DEF FileRec
  <2>6. Len(F2[o].data) \in Nat /\ H2[h].pos = p + Len(b)
    BY <1>3, <2>1, <2>5
  <2>7. CASE f = F2[o]
    <3>1. S2[o].data = <<>> /\ S2[o] = F2[o]
      BY <1>2, <1>6, <2>7
    <3>2. Len(F2[o].data) = 0
      BY <2>5, <3>1, EmptySeq
    <3>3. Len(b) \in Nat
      OBVIOUS
    <3> HIDE DEF p
    <3> QED
      BY <1>1, <2>1, <2>6, <3>2, <3>3
  <2>8. CASE f # F2[o]
    <3>1. Len(F[o].data) <= p
      <4>1. CASE f = S[o]
        <5>1. S[o].data = <<>>
          BY <1>2, <1>6, <4>1
        <5>2. EndsAt(F, S, H, o)
          BY <1>1 DEF Both, AllEnd
        <5>3. p >= Len(F[o].data)
          BY <2>2, <5>1, <5>2 DEF EndsAt
        <5> QED
          BY <1>1, <2>5, <5>3
      <4>2. CASE f = F[o]
        <5>1. Len(F[o].data) = 0
          BY <1>2, <1>6, <4>2
        <5> QED
          BY <1>1, <5>1
      <4> QED
        BY <2>8, <4>1, <4>2
    <3> HIDE DEF p
    <3>2. Len(e) = p + Len(b)
      BY <1>1, <2>5, <3>1, SpliceEnd DEF e
    <3> QED
      BY <2>1, <2>5, <2>6, <3>2, <1>1
  <2> QED
    BY <2>7, <2>8
<1>7. EndsAt(F2, S2, H2, o)
  BY <1>5, <1>6 DEF EndsAt
<1> QED
  BY <1>1, <1>4, <1>7, OthersEnd DEF Both

\* FileStore keeps AllEnd, action by action.
Ending == AllEnd(Files(fs), fs.disk, Handles(fs))
EndsNext == AllEnd(Files(fs'), fs'.disk, Handles(fs'))
Sane == Healthy(fs) /\ Healthy(fs') /\ Ending

LEMMA SaneIsBoth ==
    ASSUME Sane
    PROVE  Both(Files(fs), fs.disk, Handles(fs), Files(fs'), fs'.disk, Handles(fs'))
BY HealthyIsTyped DEF Sane, Both, Ending

LEMMA MovingEnds ==
    ASSUME Sane, NEW h \in Handle, NEW p, p \in 0 .. MaxSize,
           Store!Move(h, p) \/ Store!Flush(h) \/ Store!Close(h)
    PROVE  EndsNext
<1> DEFINE F == Files(fs)
           S == fs.disk
           H == Handles(fs)
           H2 == Handles(fs')
<1>1. /\ H[h] # Closed /\ Files(fs') = F /\ fs'.disk = [S EXCEPT ![H[h].obj] = F[H[h].obj]]
      /\ \/ H2 = [H EXCEPT ![h].pos = p]
         \/ H2 = H
         \/ H2 = [H EXCEPT ![h] = Closed]
  BY MappedTo DEF Store!Move, Store!Flush, Store!Close, Store!Synced
<1>2. Both(F, S, H, Files(fs'), fs'.disk, H2)
  BY SaneIsBoth
<1> HIDE DEF F, S, H, H2
<1>3. /\ \A j \in Handle \ {h} : H2[j] = H[j]
      /\ H2[h] = Closed \/ H2[h].obj = H[h].obj
  <2>1. H \in [Handle -> DescRec \cup {Closed}] /\ H[h] \in DescRec
    BY <1>1, <1>2 DEF Both, Typed
  <2>2. CASE H2 = [H EXCEPT ![h].pos = p]
    BY <2>1, <2>2 DEF DescRec
  <2>3. CASE H2 = H
    BY <2>3
  <2>4. CASE H2 = [H EXCEPT ![h] = Closed]
    BY <2>1, <2>4
  <2> QED
    BY <1>1, <2>2, <2>3, <2>4
<1> QED
  BY <1>1, <1>2, <1>3, FlushingEnds DEF EndsNext, H2

LEMMA FreshEnds ==
    ASSUME Sane, NEW o \in ObjId, NEW n, Store!Fresh(o, n),
           \/ Handles(fs') = Handles(fs)
           \/ \E h \in Handle : Store!Opened(h, o)
    PROVE  EndsNext
<1> DEFINE F == Files(fs)
           S == fs.disk
           H == Handles(fs)
           H2 == Handles(fs')
           e == Store!Empty(n)
<1>1. Files(fs') = [F EXCEPT ![o] = e] /\ fs'.disk = [S EXCEPT ![o] = e]
  BY MappedTo DEF Store!Fresh
<1>2. \/ H2 = H
      \/ \E h \in Handle, a \in BOOLEAN :
            /\ H[h] = Closed
            /\ H2 = [H EXCEPT ![h] = [obj |-> o, pos |-> 0, append |-> a]]
  BY MappedTo DEF Store!Opened
<1>3. Both(F, S, H, Files(fs'), fs'.disk, H2)
  BY SaneIsBoth
<1> HIDE DEF F, S, H, H2, e
<1>4. /\ \A x \in ObjId \ {o} : Files(fs')[x] = F[x] /\ fs'.disk[x] = S[x]
      /\ fs'.disk[o] = Files(fs')[o]
  BY <1>1, <1>3 DEF Both, Typed
<1>5. ASSUME NEW j \in Handle
      PROVE  \/ H2[j] = H[j]
             \/ /\ H[j] = Closed \/ H[j].obj = o
                /\ H2[j] = Closed \/ H2[j].obj = o
  <2>1. CASE H2 = H
    BY <2>1
  <2>2. ASSUME NEW h \in Handle, NEW a \in BOOLEAN, H[h] = Closed,
               H2 = [H EXCEPT ![h] = [obj |-> o, pos |-> 0, append |-> a]]
        PROVE  \/ H2[j] = H[j]
               \/ /\ H[j] = Closed \/ H[j].obj = o
                  /\ H2[j] = Closed \/ H2[j].obj = o
    <3>1. H2[j] = IF j = h THEN [obj |-> o, pos |-> 0, append |-> a] ELSE H[j]
      BY <1>3, <2>2 DEF Both, Typed
    <3> QED
      BY <2>2, <3>1
  <2> QED
    BY <1>2, <2>1, <2>2
<1>6. OnlyAbout(F, S, H, Files(fs'), fs'.disk, H2, o)
  BY <1>4, <1>5 DEF OnlyAbout
<1> QED
  BY <1>3, <1>4, <1>6, SyncingEnds DEF EndsNext, H2

LEMMA OpenEnds ==
    ASSUME Sane, NEW o \in ObjId, NEW h \in Handle, Store!Open(h, o)
    PROVE  EndsNext
<1> DEFINE F == Files(fs)
           S == fs.disk
           H == Handles(fs)
           H2 == Handles(fs')
<1>1. /\ Files(fs') = F /\ fs'.disk = S /\ H[h] = Closed
      /\ \E a \in BOOLEAN : H2 = [H EXCEPT ![h] = [obj |-> o, pos |-> 0, append |-> a]]
  BY MappedTo DEF Store!Open, Store!Opened
<1>2. Both(F, S, H, Files(fs'), fs'.disk, H2)
  BY SaneIsBoth
<1> HIDE DEF F, S, H, H2
<1> QED
  BY <1>1, <1>2, OpeningEnds DEF EndsNext, H2

LEMMA OpenEmptiedEnds ==
    ASSUME Sane, NEW o \in ObjId, NEW h \in Handle, Store!OpenEmptied(h, o)
    PROVE  EndsNext
<1> DEFINE F == Files(fs)
           S == fs.disk
           H == Handles(fs)
           F2 == Files(fs')
           S2 == fs'.disk
           H2 == Handles(fs')
<1>1. /\ F2 = [F EXCEPT ![o].data = <<>>] /\ S2 = [S EXCEPT ![o].data = <<>>]
      /\ H[h] = Closed
  BY MappedTo DEF Store!OpenEmptied
<1>2. PICK a \in BOOLEAN :
         \A g \in Handle :
            H2[g] = IF g = h THEN [obj |-> o, pos |-> 0, append |-> a]
                    ELSE IF g \in Store!OpenOn(o) THEN [H[g] EXCEPT !.pos = 0]
                    ELSE H[g]
  <2>1. PICK a \in BOOLEAN : H2 = Store!Rewound(h, o, a)
    BY MappedTo DEF Store!OpenEmptied
  <2>2. ASSUME NEW g \in Handle
        PROVE  Store!Rewound(h, o, a)[g] =
                  IF g = h THEN [obj |-> o, pos |-> 0, append |-> a]
                  ELSE IF g \in Store!OpenOn(o) THEN [H[g] EXCEPT !.pos = 0]
                  ELSE H[g]
    BY MappedTo DEF Store!Rewound
  <2> QED
    BY <2>1, <2>2
<1>3. \A g \in Handle : g \in Store!OpenOn(o) <=> OnH(H, g, o)
  BY MappedTo DEF Store!OpenOn, OnH
<1>4. Both(F, S, H, F2, S2, H2)
  BY SaneIsBoth
<1> HIDE DEF F, S, H, F2, S2, H2
<1>5. ASSUME NEW g \in Handle
      PROVE  H2[g] = IF g = h THEN [obj |-> o, pos |-> 0, append |-> a]
                     ELSE IF OnH(H, g, o) THEN [H[g] EXCEPT !.pos = 0] ELSE H[g]
  <2>1. H2[g] = IF g = h THEN [obj |-> o, pos |-> 0, append |-> a]
                ELSE IF g \in Store!OpenOn(o) THEN [H[g] EXCEPT !.pos = 0]
                ELSE H[g]
    BY <1>2, Zenon
  <2>2. g \in Store!OpenOn(o) <=> OnH(H, g, o)
    BY <1>3
  <2> QED
    BY <2>1, <2>2, Zenon
<1>6. /\ \A x \in ObjId \ {o} : F2[x] = F[x] /\ S2[x] = S[x]
      /\ F2[o] = [F[o] EXCEPT !.data = <<>>]
  BY <1>1, <1>4 DEF Both, Typed
<1>7. OnH(H2, h, o)
  <2>1. H2[h] = [obj |-> o, pos |-> 0, append |-> a]
    BY <1>5
  <2>2. H2[h] \in DescRec /\ Closed \notin DescRec
    BY <2>1, ValuesAssumption DEF DescRec
  <2> QED
    BY <2>1, <2>2 DEF OnH
<1>8. ASSUME NEW j \in Handle
      PROVE  \/ H2[j] = H[j]
             \/ /\ H[j] = Closed \/ H[j].obj = o
                /\ H2[j] = Closed \/ H2[j].obj = o
  <2>1. CASE j = h
    BY <1>1, <1>7, <2>1 DEF OnH
  <2>2. CASE j # h /\ OnH(H, j, o)
    <3>1. H2[j] = [H[j] EXCEPT !.pos = 0] /\ H[j] \in DescRec
      BY <1>4, <1>5, <2>2 DEF OnH, Both, Typed
    <3>2. H2[j].obj = H[j].obj
      BY <3>1 DEF DescRec
    <3> QED
      BY <2>2, <3>2 DEF OnH
  <2>3. CASE j # h /\ ~OnH(H, j, o)
    BY <1>5, <2>3
  <2> QED
    BY <2>1, <2>2, <2>3
<1>9. OnlyAbout(F, S, H, F2, S2, H2, o)
  BY <1>6, <1>8 DEF OnlyAbout
<1>10. ASSUME NEW j \in Handle, LoneH(H2, j, o)
       PROVE  H2[j].pos >= Len(F2[o].data)
  <2>1. j = h
    BY <1>7, <1>10 DEF LoneH
  <2>2. H2[j].pos = 0
    <3>1. H2[h] = [obj |-> o, pos |-> 0, append |-> a]
      BY <1>5
    <3> QED
      BY <2>1, <3>1
  <2>3. F2[o] \in FileRec
    BY <1>4, <1>7 DEF OnH, Both, Typed
  <2>4. F2[o].data \in Seq(Symbol)
    BY <2>3 DEF FileRec
  <2>5. F2[o].data = <<>>
    <3>1. S[o] # NoFile
      BY DEF Store!OpenEmptied, Store!Live, S
    <3>2. F[o] \in FileRec
      BY <1>4, <3>1 DEF Both, Typed
    <3> QED
      BY <1>6, <3>2 DEF FileRec
  <2> QED
    BY <2>2, <2>4, <2>5, EmptySeq
<1>11. EndsAt(F2, S2, H2, o)
  BY <1>7, <1>10 DEF EndsAt
<1> QED
  BY <1>4, <1>9, <1>11, OthersEnd DEF Both, EndsNext, F2, S2, H2

LEMMA WriteEnds ==
    ASSUME Sane, NEW h \in Handle, NEW b \in Data, Store!Write(h, b)
    PROVE  EndsNext
<1> DEFINE F == Files(fs)
           S == fs.disk
           H == Handles(fs)
           F2 == Files(fs')
           S2 == fs'.disk
           H2 == Handles(fs')
           o == H[h].obj
           p == IF H[h].append THEN Len(F[o].data) ELSE H[h].pos
<1>1. /\ H[h] # Closed
      /\ H2 = [H EXCEPT ![h].pos = IF H[h].append THEN 0 ELSE @ + Len(b)]
      /\ F2 = Store!Written(h, b)
      /\ \E f \in {S[o], F[o], F2[o]} : S2 = [S EXCEPT ![o] = f]
  <2>1. H[h] # Closed
    BY MappedTo DEF Store!Write
  <2>2. H2 = [H EXCEPT ![h].pos = IF H[h].append THEN 0 ELSE @ + Len(b)]
    <3>1. H2 = [H EXCEPT ![h].pos = Store!Beyond(h, b)]
      BY MappedTo DEF Store!Write
    <3>2. Store!Beyond(h, b) = IF H[h].append THEN 0 ELSE H[h].pos + Len(b)
      BY MappedTo DEF Store!Beyond
    <3> HIDE DEF H, H2
    <3> QED
      BY <3>1, <3>2
  <2>3. F2 = Store!Written(h, b)
    BY MappedTo DEF Store!Write
  <2>4. \E f \in {S[o], F[o], F2[o]} : S2 = [S EXCEPT ![o] = f]
    <3>1. \E f \in {S[o], F[o], Store!Written(h, b)[o]} : S2 = [S EXCEPT ![o] = f]
      <4>1. \E f \in Store!Reached(h, b) : S2 = [S EXCEPT ![o] = f]
        BY MappedTo DEF Store!Write
      <4>2. Store!Reached(h, b) = {S[o], F[o], Store!Written(h, b)[o]}
        BY MappedTo DEF Store!Reached
      <4> QED
        BY <4>1, <4>2, Zenon
    <3> QED
      BY <2>3, <3>1, Zenon
  <2> QED
    BY <2>1, <2>2, <2>3, <2>4
<1>2. Store!Written(h, b) = [F EXCEPT ![o].data = Store!Splice(@, p, b)]
  <2>1. Store!Written(h, b) = [F EXCEPT ![o].data = Store!Splice(@, Store!Point(h), b)]
    BY MappedTo DEF Store!Written
  <2>2. Store!Point(h) = p
    BY MappedTo DEF Store!Point
  <2> HIDE DEF F, p
  <2> QED
    BY <2>1, <2>2
<1>3. Both(F, S, H, F2, S2, H2)
  BY SaneIsBoth
<1>4. Len(b) \in Nat
  BY DataIsBytes
<1> HIDE DEF F, S, H, F2, S2, H2
<1>5. PICK f \in {S[o], F[o], F2[o]} : S2 = [S EXCEPT ![o] = f]
  BY <1>1
<1>6. F2 = [F EXCEPT ![o].data =
                Store!Splice(@, IF H[h].append THEN Len(F[o].data) ELSE H[h].pos, b)]
  BY <1>1, <1>2
<1>7. PICK x : x = o
  OBVIOUS
<1> HIDE DEF o, p
<1>8. /\ H[h].obj = x /\ f \in {S[x], F[x], F2[x]} /\ S2 = [S EXCEPT ![x] = f]
      /\ F2 = [F EXCEPT ![x].data =
                Store!Splice(@, IF H[h].append THEN Len(F[x].data) ELSE H[h].pos, b)]
  BY <1>5, <1>6, <1>7 DEF o
<1>9. AllEnd(F2, S2, H2)
  <2>1. PutsBytes(F, S, H, F2, S2, H2, h, x, b, f)
    BY <1>1, <1>8 DEF PutsBytes
  <2> QED
    BY <1>3, <1>4, <2>1, WritingEnds
<1> QED
  BY <1>9 DEF EndsNext, F2, S2, H2

LEMMA RemoveEnds ==
    ASSUME Sane, NEW o \in ObjId, Store!Remove(o)
    PROVE  EndsNext
<1> DEFINE F == Files(fs)
           S == fs.disk
           H == Handles(fs)
           F2 == Files(fs')
           S2 == fs'.disk
           H2 == Handles(fs')
<1>1. F2 = [F EXCEPT ![o] = NoFile] /\ S2 = [S EXCEPT ![o] = NoFile]
  BY MappedTo DEF Store!Remove
<1>2. \A h \in Handle : H2[h] = IF h \in Store!OpenOn(o) THEN Closed ELSE H[h]
  <2>1. H2 = Store!Without(o)
    BY MappedTo DEF Store!Remove
  <2>2. ASSUME NEW h \in Handle
        PROVE  Store!Without(o)[h] = IF h \in Store!OpenOn(o) THEN Closed ELSE H[h]
    BY MappedTo DEF Store!Without
  <2> QED
    BY <2>1, <2>2
<1>3. \A h \in Handle : h \in Store!OpenOn(o) <=> OnH(H, h, o)
  BY MappedTo DEF Store!OpenOn, OnH
<1>4. Both(F, S, H, F2, S2, H2)
  BY SaneIsBoth
<1> HIDE DEF F, S, H, F2, S2, H2
<1>5. S2[o] = F2[o] /\ \A x \in ObjId \ {o} : F2[x] = F[x] /\ S2[x] = S[x]
  BY <1>1, <1>4 DEF Both, Typed
<1>6. OnlyAbout(F, S, H, F2, S2, H2, o)
  BY <1>2, <1>3, <1>5 DEF OnlyAbout, OnH
<1> QED
  BY <1>4, <1>5, <1>6, SyncingEnds DEF EndsNext, F2, S2, H2

LEMMA RenameEnds ==
    ASSUME Sane, NEW o \in ObjId, NEW n, Store!Rename(o, n)
    PROVE  EndsNext
<1> DEFINE F == Files(fs)
           S == fs.disk
           H == Handles(fs)
           F2 == Files(fs')
           S2 == fs'.disk
           H2 == Handles(fs')
<1>1. /\ F2 = [F EXCEPT ![o].name = n] /\ S2 = [S EXCEPT ![o].name = n]
      /\ H2 = H /\ S[o] # NoFile
  BY MappedTo DEF Store!Rename, Store!Live
<1>2. Both(F, S, H, F2, S2, H2)
  BY SaneIsBoth
<1> HIDE DEF F, S, H, F2, S2, H2
<1>3. S[o] \in FileRec /\ F[o] \in FileRec
  BY <1>1, <1>2 DEF Both, Typed
<1>4. /\ F2[o] = [F[o] EXCEPT !.name = n] /\ S2[o] = [S[o] EXCEPT !.name = n]
      /\ \A x \in ObjId \ {o} : F2[x] = F[x] /\ S2[x] = S[x]
  BY <1>1, <1>2 DEF Both, Typed
<1>5. F2[o].data = F[o].data /\ S2[o].data = S[o].data
  BY <1>3, <1>4 DEF FileRec
<1>6. OnlyAbout(F, S, H, F2, S2, H2, o)
  BY <1>1, <1>4 DEF OnlyAbout
<1>7. S[o] = F[o] => S2[o] = F2[o]
  BY <1>4
<1>8. EndsAt(F, S, H, o)
  BY <1>2 DEF Both, AllEnd
<1>9. EndsAt(F2, S2, H2, o)
  <2>1. \A j \in Handle : OnH(H2, j, o) \/ OnH(H, j, o) => H2[j] = H[j]
    BY <1>1
  <2> QED
    BY <1>5, <1>7, <1>8, <2>1, KeptEnds
<1> QED
  BY <1>2, <1>6, <1>9, OthersEnd DEF Both, EndsNext, F2, S2, H2

LEMMA ClosingEnds ==
    ASSUME Sane, Store!Unmount \/ Store!PowerLoss
    PROVE  EndsNext
<1>1. Files(fs') = fs'.disk
  <2>1. CASE Store!Unmount
    BY <2>1, MappedTo DEF Store!Unmount
  <2>2. CASE Store!PowerLoss
    BY <2>2, MappedTo DEF Store!PowerLoss
  <2> QED
    BY <2>1, <2>2
<1>2. Typed(Files(fs'), fs'.disk, Handles(fs'))
  BY SaneIsBoth DEF Both
<1> QED
  BY <1>1, <1>2, SyncedEnds DEF EndsNext, AllEnd

LEMMA StoreEnds ==
    ASSUME Sane, [Store!Next]_(Store!vars)
    PROVE  EndsNext
<1>1. ASSUME NEW o \in ObjId, NEW n \in Name, Store!Create(o, n)
      PROVE  EndsNext
  <2>1. Store!Fresh(o, n) /\ Handles(fs') = Handles(fs)
    BY <1>1, MappedTo DEF Store!Create
  <2> QED
    BY <2>1, FreshEnds
<1>2. ASSUME NEW o \in ObjId, NEW n \in Name, Store!Rename(o, n)
      PROVE  EndsNext
  BY <1>2, RenameEnds
<1>3. ASSUME NEW o \in ObjId, NEW n \in Name, NEW h \in Handle, Store!OpenNew(h, o, n)
      PROVE  EndsNext
  BY <1>3, FreshEnds DEF Store!OpenNew
<1>4. ASSUME NEW o \in ObjId, Store!Remove(o)
      PROVE  EndsNext
  BY <1>4, RemoveEnds
<1>5. ASSUME NEW o \in ObjId, NEW h \in Handle, Store!Open(h, o) \/ Store!OpenEmptied(h, o)
      PROVE  EndsNext
  BY <1>5, OpenEnds, OpenEmptiedEnds
<1>6. ASSUME NEW h \in Handle, NEW b \in Data, Store!Write(h, b)
      PROVE  EndsNext
  BY <1>6, WriteEnds
<1>7. ASSUME NEW h \in Handle, Store!Flush(h) \/ Store!Close(h)
      PROVE  EndsNext
  <2>1. 0 \in 0 .. MaxSize
    BY Constants
  <2> QED
    BY <1>7, <2>1, MovingEnds
<1>8. ASSUME NEW h \in Handle, NEW p \in 0 .. MaxSize, Store!Move(h, p)
      PROVE  EndsNext
  BY <1>8, MovingEnds
<1>9. CASE Store!Unmount \/ Store!PowerLoss
  BY <1>9, ClosingEnds
<1>10. CASE UNCHANGED Store!vars
  <2>1. Files(fs') = Files(fs) /\ fs'.disk = fs.disk /\ Handles(fs') = Handles(fs)
    BY <1>10, MappedTo DEF Store!vars
  <2> QED
    BY <2>1 DEF Sane, Ending, EndsNext
<1> QED
  BY <1>1, <1>2, <1>3, <1>4, <1>5, <1>6, <1>7, <1>8, <1>9, <1>10 DEF Store!Next

\* With nothing waiting nothing is read too little.
LEMMA EndsMeans ==
    ASSUME Healthy(fs), Ending
    PROVE  EmptyMeansNothingToRead
<1> SUFFICES ASSUME NEW h \in Handle, May(h, "RD"), "APPEND" \notin fs.fd[h].flags,
                    fs.fd[h].size = Undefined, OpenOn(fs.fd[h].obj) = {h}
             PROVE  fs.fd[h].fdoffset >= Len(Seen(fs.fd[h].obj).data)
  BY DEF EmptyMeansNothingToRead
<1> DEFINE o == fs.fd[h].obj
           H == Handles(fs)
<1>1. fs.fd[h].open /\ ~Appends(fs, h) /\ o \in ObjId
  BY OpenObject DEF May, Fd, Appends
<1>2. /\ H[h] # Closed /\ H[h].obj = o /\ ~H[h].append
      /\ H[h].pos = fs.fd[h].fdoffset
  <2>1. H[h] = Hd(fs, h)
    BY DEF Handles
  <2>2. /\ Hd(fs, h) # Closed /\ Hd(fs, h).obj = o
        /\ Hd(fs, h).append = Appends(fs, h)
        /\ Hd(fs, h).pos = IF Appends(fs, h) THEN 0 ELSE fs.fd[h].fdoffset
    BY <1>1, NotClosed
  <2> HIDE DEF H
  <2> QED
    BY <1>1, <2>1, <2>2
<1>3. ASSUME NEW j \in Handle, OnH(H, j, o)
      PROVE  j = h
  <2>1. H[j] = Hd(fs, j)
    BY DEF Handles
  <2>2. fs.fd[j].open
    BY <1>3, <2>1 DEF OnH, Hd
  <2>3. fs.fd[j].obj = o
    BY <1>3, <2>1, <2>2, NotClosed DEF OnH
  <2> QED
    BY <2>2, <2>3 DEF OpenOn
<1>4. LoneH(H, h, o)
  BY <1>2, <1>3 DEF LoneH, OnH
<1>5. fs.disk[o].data = <<>>
  BY <1>1, SizeIsLength
<1>6. Files(fs)[o] = Seen(o)
  <2>1. Files(fs) = [x \in ObjId |-> Seen(x)]
    BY MappedTo
  <2> HIDE DEF o
  <2> QED
    BY <1>1, <2>1
<1>7. EndsAt(Files(fs), fs.disk, H, o)
  BY <1>1 DEF Ending, AllEnd
<1> HIDE DEF o, H
<1>8. H[h].pos >= Len(Files(fs)[o].data)
  BY <1>4, <1>5, <1>7 DEF EndsAt
<1> QED
  BY <1>2, <1>6, <1>8 DEF o

----------------------------------------------------------------------------
(* The theorem.                                                            *)

LEMMA FirstStore ==
    ASSUME Init
    PROVE  Healthy(fs) /\ Store!Init
<1> DEFINE d == [o \in ObjId |-> NoFile]
<1>1. d \in [ObjId -> FileRec \cup {NoFile}] /\ \A o \in ObjId : d[o] = NoFile
  OBVIOUS
<1>2. fs = Mounted(d)
  BY DEF Init
<1> HIDE DEF d
<1>3. PICK t, e : t = fs /\ e = d
  OBVIOUS
<1>4. /\ Healthy(t) /\ t.disk = d /\ \A h \in Handle : Hd(t, h) = Closed
      /\ \A o \in ObjId : View(t, o) = d[o]
  BY <1>1, <1>2, <1>3, MountedIsBare
<1>5. Files(fs) = fs.disk /\ fs.disk = [o \in ObjId |-> NoFile]
  BY <1>1, <1>3, <1>4 DEF Files
<1>6. Handles(fs) = [h \in Handle |-> Closed]
  BY <1>3, <1>4 DEF Handles
<1>7. Store!Init
  BY <1>5, <1>6, MappedTo DEF Store!Init
<1> QED
  BY <1>3, <1>4, <1>7

\* The programs and the room that the theorem is about.
Usual ==
    /\ Refusals \subseteq {"never"} /\ Habits \subseteq {"shared", "dirent"}
    /\ NeverDirect /\ Alone

LEMMA EveryCall ==
    ASSUME Usual, Healthy(fs), Next
    PROVE  Implemented
<1>1. NeverDirect /\ NeverFresh /\ Alone /\ "rename" \notin Habits
  BY DEF Usual, NeverFresh
<1>2. \A full \in Refusals : full = "never"
  BY DEF Usual
<1>3. Keeps(fs, fs')
  BY EveryStep DEF Healthy
<1>4. ASSUME NEW o \in ObjId, NEW n \in Name, NEW full, Creat(o, n, full)
      PROVE  Implemented
  BY <1>4, CreatImplements
<1>5. ASSUME NEW full \in Refusals, NEW h \in Handle,
             \/ \E n \in Name, flags \in Flags :
                   Open(h, n, flags, full) \/ OpenFails(h, n, flags, full)
             \/ \E o \in ObjId, flags \in Flags : OpenByDirent(h, o, flags, full)
             \/ \E n \in Lengths : Read(h, n, full)
             \/ \E p \in 0 .. MaxSize : Seek(h, p, full)
             \/ Fflush(h, full) \/ Close(h, full)
             \/ \E b \in Data : Write(h, b, full)
      PROVE  Implemented
  <2>1. full = "never"
    BY <1>2
  <2>2. ASSUME NEW n \in Name, NEW flags \in Flags, Open(h, n, flags, "never")
        PROVE  Implemented
    BY <1>1, <2>2, OpenImplements
  <2>3. ASSUME NEW n \in Name, NEW flags \in Flags, OpenFails(h, n, flags, full)
        PROVE  Implemented
    BY <2>3, OpenFailsImplements
  <2>4. ASSUME NEW o \in ObjId, NEW flags \in Flags, OpenByDirent(h, o, flags, "never")
        PROVE  Implemented
    BY <1>1, <2>4, OpenByDirentImplements
  <2>5. ASSUME NEW n \in Lengths, Read(h, n, "never")
        PROVE  Implemented
    BY <2>5, ReadImplements
  <2>6. ASSUME NEW p \in 0 .. MaxSize, Seek(h, p, "never")
        PROVE  Implemented
    BY <2>6, SeekImplements
  <2>7. ASSUME NEW b \in Data, Write(h, b, "never")
        PROVE  Implemented
    BY <2>7, WriteImplements
  <2>8. CASE Fflush(h, "never")
    BY <2>8, FflushImplements
  <2>9. CASE Close(h, "never")
    BY <1>1, <1>3, <2>9, CloseImplements
  <2> QED
    BY <1>5, <2>1, <2>2, <2>3, <2>4, <2>5, <2>6, <2>7, <2>8, <2>9
<1>6. ASSUME NEW full \in Refusals, Remount(full)
      PROVE  Implemented
  BY <1>2, <1>6, RemountImplements
<1>7. ASSUME NEW h \in Handle, NEW n \in Name, NEW o \in ObjId, NEW flags \in Flags,
             OpenNew(h, n, o, flags)
      PROVE  Implemented
  BY <1>1, <1>7, OpenNewImplements
<1>8. ASSUME NEW h \in Handle, NEW n \in Name, Remove(n, h)
      PROVE  Implemented
  BY <1>8, RemoveImplements
<1>9. ASSUME NEW h \in Handle, NEW n \in Name, NEW new \in Name, Rename(n, new, h)
      PROVE  Implemented
  BY <1>1, <1>3, <1>9, RenameImplements
<1>10. ASSUME NEW h \in Handle, Fremove(h)
       PROVE  Implemented
  BY <1>10, FremoveImplements
<1>11. ASSUME NEW o \in ObjId, CollectGarbage(o)
       PROVE  Implemented
  BY <1>11, CollectGarbageImplements
<1>12. CASE PowerLoss
  BY <1>12, PowerLossImplements
<1> QED
  BY <1>4, <1>5, <1>6, <1>7, <1>8, <1>9, <1>10, <1>11, <1>12 DEF Next

\* What the theorems assume.
Hypotheses ==
    /\ Refusals \subseteq {"never"} /\ Habits \subseteq {"shared", "dirent"}
    /\ \A F \in Flags : "DIRECT" \notin F
    /\ "shared" \notin Habits \/ \A F \in Flags : "TRUNC" \notin F

\* Every step keeps the state healthy and maps to a step of FileStore.
LEMMA StepMaps ==
    ASSUME Hypotheses, Healthy(fs), [Next]_vars
    PROVE  Healthy(fs') /\ [Store!Next]_(Store!vars)
<1>1. Usual
  BY DEF Hypotheses, Usual, NeverDirect, Alone
<1>2. CASE UNCHANGED vars
  <2>1. fs' = fs
    BY <1>2 DEF vars
  <2>2. UNCHANGED Store!vars
    BY <2>1, StutterMaps
  <2> QED
    BY <2>1, <2>2
<1>3. CASE Next
  BY <1>1, <1>3, EveryCall DEF Implemented
<1> QED
  BY <1>2, <1>3

\* The calls do to the files what FileStore says, for files of every size
\* and any number of descriptors and cache pages: what one descriptor
\* writes every other one reads, a flush or a close makes it last, a mount
\* finds what was unmounted and a loss of power costs only what was not
\* flushed.  Assumed are room on the flash; no SPIFFS_O_DIRECT; no file
\* renamed while it is open; no slot opened by directory entry or page with
\* its score at zero; and either no object open in two slots or no file
\* opened with SPIFFS_O_TRUNC.
THEOREM FilesImplementStore ==
    ASSUME Refusals \subseteq {"never"}, Habits \subseteq {"shared", "dirent"},
           \A F \in Flags : "DIRECT" \notin F,
           "shared" \notin Habits \/ \A F \in Flags : "TRUNC" \notin F
    PROVE  Spec => StoreSpec
<1>1. Init => Healthy(fs) /\ Store!Init
  BY FirstStore
<1>2. Healthy(fs) /\ [Next]_vars => Healthy(fs)' /\ [Store!Next]_(Store!vars)
  BY StepMaps DEF Hypotheses
<1> QED
  BY <1>1, <1>2, PTL DEF Spec, StoreSpec, Store!Spec

\* A descriptor that no other shares its file with, and that has not seen
\* a size yet, stands at the end of what it would read: a read may answer
\* end of file at once.  What keeps it so is said of FileStore alone: a
\* file that nobody has open has nothing waiting, and over an empty file
\* on flash a lone descriptor has written, from its end on, all that waits.
THEOREM EmptyIsAtEnd ==
    ASSUME Refusals \subseteq {"never"}, Habits \subseteq {"shared", "dirent"},
           \A F \in Flags : "DIRECT" \notin F,
           "shared" \notin Habits \/ \A F \in Flags : "TRUNC" \notin F
    PROVE  Spec => []EmptyMeansNothingToRead
<1> DEFINE Inv == Healthy(fs) /\ Ending
<1>1. Init => Inv
  <2> SUFFICES ASSUME Init PROVE Inv
    OBVIOUS
  <2>1. Healthy(fs) /\ Store!Init
    BY FirstStore
  <2>2. Files(fs) = fs.disk
    BY <2>1, MappedTo DEF Store!Init
  <2>3. Typed(Files(fs), fs.disk, Handles(fs))
    BY <2>1, HealthyIsTyped
  <2> QED
    BY <2>1, <2>2, <2>3, SyncedEnds DEF Ending, AllEnd
<1>2. Inv /\ [Next]_vars => Inv'
  <2> SUFFICES ASSUME Inv, [Next]_vars PROVE Inv'
    OBVIOUS
  <2>1. Healthy(fs') /\ [Store!Next]_(Store!vars)
    BY StepMaps DEF Hypotheses
  <2>2. EndsNext
    BY <2>1, StoreEnds DEF Sane
  <2> QED
    BY <2>1, <2>2 DEF EndsNext, Ending
<1>3. Inv => EmptyMeansNothingToRead
  BY EndsMeans
<1> QED
  BY <1>1, <1>2, <1>3, PTL DEF Spec

=============================================================================
