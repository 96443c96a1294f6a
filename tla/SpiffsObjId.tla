----------------------------- MODULE SpiffsObjId -----------------------------
(***************************************************************************)
(* The search for a free object id (spiffs_obj_lu_find_free_obj_id in      *)
(* src/src/spiffs/spiffs_nucleus.c).  As many ids as one page has bits are *)
(* searched in a bitmap; more of them are first counted in groups, one     *)
(* byte of the page for each, and the emptiest group is taken.  A step is  *)
(* an iteration of the loop, with its walk through the object lookups.     *)
(***************************************************************************)
EXTENDS Integers, FiniteSets

CONSTANTS
    PS,         \* SPIFFS_CFG_LOG_PAGE_SZ: the bytes of fs->work
    MaxObjects, \* half of the pages
    Few,        \* bound: files there are, or ids left, at most
    Strays      \* ids of pages without a header, left by a loss of power

\* With 16-bit ids and pages of 256 bytes: a group always fits the bitmap,
\* and a count of it a byte.
ASSUME SizeAssumption ==
    /\ PS \in Nat \ {0} /\ MaxObjects \in Nat /\ Few \in Nat
    /\ MaxObjects \div PS <= 8 * PS /\ MaxObjects \div PS < 256

VARIABLES
    used,       \* the ids of files
    stray,      \* other ids that are found in the object lookups
    state,      \* spiffs_free_obj_id_state; conflict is whether there is a
                \* file whose name is conflicting_name
    map,        \* the counts in fs->work
    running,
    res, found  \* what the search returned

vars   == <<used, stray, state, map, running, res, found>>
result == <<running, res, found>>

Bits    == 0 .. 8 * PS - 1
Groups  == 0 .. PS - 1
Fits(s) == s.max - s.min <= 8 * PS
Least(S) == CHOOSE x \in S : \A y \in S : x <= y

\* The ids that the groups of the first walk stand for.
Grouped == 1 .. PS * (MaxObjects \div PS)

\* The bound on the states: nearly no file, or nearly no id left.
Interesting(S) == Cardinality(S) <= Few \/ Cardinality(Grouped \ S) <= Few

Start(conflict) ==
    [min |-> 1, max |-> MaxObjects + 1, comp |-> 0, conflict |-> conflict]

Init ==
    /\ used \in {{}, Grouped \ Strays}
    /\ stray = Strays
    /\ state = Start(FALSE)
    /\ map = [g \in Groups |-> 0]
    /\ running = FALSE /\ res = "none" /\ found = 0

\* SPIFFS_creat, with a new name or with that of a file.
Search(conflict) ==
    /\ ~running /\ res = "none" /\ Interesting(used)
    /\ conflict => used # {}
    /\ state' = Start(conflict)
    /\ running' = TRUE
    /\ UNCHANGED <<used, stray, map, res, found>>

Returns(r, id) == running' = FALSE /\ res' = r /\ found' = id

\* Mutant of Taken: bits counted from the first id.
TakenFromFirst == {b \in Bits : b + 1 \in used \cup stray}

\* The bits spiffs_obj_lu_find_free_obj_id_bitmap_v sets.
Taken == {b \in Bits : b + state.min \in used \cup stray}

\* The bitmap is filled, and the first bit that is clear is taken.
Bitmap ==
    /\ running /\ Fits(state)
    /\ IF state.conflict THEN Returns("CONFLICTING_NAME", 0)
       ELSE IF Taken = Bits THEN Returns("FULL", 0)
       ELSE Returns("OK", Least(Bits \ Taken) + state.min)
    /\ UNCHANGED <<used, stray, state, map>>

\* The group of an id.
Group(s, id) == (id - s.min) \div s.comp

\* spiffs_obj_lu_find_free_obj_id_compact_v: files are counted, by their
\* headers.
InGroup(s, g) ==
    {id \in used : s.min <= id /\ id <= s.max /\ Group(s, id) = g}

Count ==
    LET s == [state EXCEPT !.comp = (state.max - state.min) \div PS]
    IN  /\ running /\ ~Fits(state) /\ state.comp = 0
        /\ IF state.conflict
           THEN Returns("CONFLICTING_NAME", 0) /\ UNCHANGED <<state, map>>
           ELSE /\ state' = s
                /\ map' = [g \in Groups |-> Cardinality(InGroup(s, g)) % 256]
                /\ UNCHANGED result
        /\ UNCHANGED <<used, stray>>

\* Mutant of Emptiest: the fullest.
Fullest == Least({g \in Groups : \A h \in Groups : map[g] >= map[h]})

\* The first of the emptiest groups.
Emptiest == Least({g \in Groups : \A h \in Groups : map[g] <= map[h]})

\* Mutant of Narrowed: the range is not made smaller.
NarrowedNot(g) == state

\* Mutant of Narrowed: the range behind the group.
NarrowedBehind(g) ==
    LET min == state.min + (g + 1) * state.comp
    IN  [state EXCEPT !.min = min, !.max = min + state.comp]

\* The range of a group; the bitmap is next.
Narrowed(g) ==
    LET min == state.min + g * state.comp
    IN  [state EXCEPT !.min = min, !.max = min + state.comp]

Select ==
    /\ running /\ ~Fits(state) /\ state.comp # 0
    /\ LET g == Emptiest
       IN  IF map[g] = state.comp THEN Returns("FULL", 0) /\ UNCHANGED state
           ELSE IF map[g] = 0
           THEN Returns("OK", g * state.comp + state.min) /\ UNCHANGED state
           ELSE state' = Narrowed(g) /\ UNCHANGED result
    /\ UNCHANGED <<used, stray, map>>

\* spiffs_object_create, when an id was found.
Create ==
    /\ res # "none"
    /\ used' = IF res = "OK" THEN used \cup {found} ELSE used
    /\ res' = "none" /\ found' = 0
    /\ UNCHANGED <<stray, state, map, running>>

Remove(id) ==
    /\ ~running /\ res = "none"
    /\ used' = used \ {id} /\ Interesting(used')
    /\ UNCHANGED <<stray, state, map, result>>

Next ==
    \/ \E c \in BOOLEAN : Search(c)
    \/ Bitmap \/ Count \/ Select \/ Create
    \/ \E id \in used : Remove(id)

\* The loop is not left before it returns.
Spec == Init /\ [][Next]_vars /\ WF_vars(Bitmap \/ Count \/ Select)

----------------------------------------------------------------------------
(* Properties.                                                             *)

\* The id found is the id of no page: counting files in groups and looking
\* up ids in the bitmap must agree on where a group begins and ends.  And no
\* file has the name, although only one of the walks looks for it.
FoundUnused == res = "OK" => found \notin used \cup stray /\ ~state.conflict

\* The counting writes no byte behind fs->work (where fs->lu_work is, the
\* lookup page it walks through): the ids behind the last whole group, of
\* which there are some when the ids are no multiple of the page, must never
\* have been given to a file.
MapInBounds ==
    \A id \in used :
        id <= MaxObjects + 1 =>
            MaxObjects <= 8 * PS \/ (id - 1) \div (MaxObjects \div PS) < PS

\* "there are no free objids!": FULL only when every id of every group is
\* taken.
FullWhenFull == res = "FULL" => Grouped \subseteq used

\* The search ends: each round has a smaller range.
SearchEnds == running ~> ~running
=============================================================================
