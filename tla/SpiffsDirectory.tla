--------------------------- MODULE SpiffsDirectory ---------------------------
(***************************************************************************)
(* A directory listing (SPIFFS_opendir, SPIFFS_readdir, SPIFFS_closedir)   *)
(* over the objects of SpiffsObjects.  A listing has no lock and no        *)
(* snapshot: it keeps the place of one lookup entry, each readdir goes on  *)
(* from there, and between two of them objects are created, written,       *)
(* removed, cleaned and checked, which moves their index headers.          *)
(*                                                                         *)
(* History variables: seen is the list of the objects readdir returned,    *)
(* still[o] the page object o has had its header in since opendir, NoPix   *)
(* if it was not there all the time.                                       *)
(***************************************************************************)
EXTENDS SpiffsObjects

CONSTANTS
    NotOpen,    \* a spiffs_DIR before opendir, and after closedir
    Ended       \* one whose readdir has returned 0

ASSUME DirAssumption ==
    NotOpen # Ended /\ {NotOpen, Ended} \cap (Nat \X Nat) = {}

VARIABLES
    dir,        \* block and entry of the spiffs_DIR
    seen, still

dirVars == <<dir, seen, still>>
allVars == <<vars, dirVars>>

\* The headers spiffs_read_dir_v stops at.  It does not look at the USED
\* flag, nor at the object id in the page.
Listable(f) ==
    {p \in Page : /\ IsIndexId(f.lu[p]) /\ f.page[p].span = 0
                  /\ "FINAL" \in f.page[p].flags
                  /\ f.page[p].flags \cap {"DELET", "IXDELE"} = {}}
HeadersOf(f, o) == {p \in Listable(f) : f.lu[p].obj = o}

\* Mutant of Ahead: the entry the last readdir stopped at is met again.
AheadAgain(f, at) ==
    {p \in Listable(f) : ~Before(p, <<at[1], IF at[2] > 0 THEN at[2] - 1 ELSE 0>>)}

\* The entries from a place to the end of the chip (SPIFFS_VIS_NO_WRAP).
Ahead(f, at) == {p \in Listable(f) : ~Before(p, at)}

Listing == dir \notin {NotOpen, Ended}

OpenDir ==
    /\ mode = "on" /\ ~Listing
    /\ dir' = <<0, 0>> /\ seen' = <<>>
    /\ still' = [o \in Obj |-> IF HeadersOf(fs, o) = {} THEN NoPix
                               ELSE First(HeadersOf(fs, o))]
    /\ UNCHANGED vars

\* Mutant of ReadDir: SPIFFS_VIS_END is not taken for the end.
ReadDirTriesAgain ==
    /\ mode = "on" /\ Listing
    /\ IF Ahead(fs, dir) = {} THEN UNCHANGED <<dir, seen>>
       ELSE LET p == First(Ahead(fs, dir))
            IN  /\ dir' = <<p[1], p[2] + 1>>
                /\ seen' = Append(seen, fs.lu[p].obj)
    /\ UNCHANGED <<still, vars>>

ReadDir ==
    /\ mode = "on" /\ Listing
    /\ IF Ahead(fs, dir) = {} THEN dir' = Ended /\ UNCHANGED seen
       ELSE LET p == First(Ahead(fs, dir))
            IN  /\ dir' = <<p[1], p[2] + 1>>
                /\ seen' = Append(seen, fs.lu[p].obj)
    /\ UNCHANGED <<still, vars>>

\* A listing may be given up, as exists() and size() of the wrapper do.
CloseDir ==
    /\ dir # NotOpen
    /\ dir' = NotOpen /\ seen' = <<>> /\ still' = [o \in Obj |-> NoPix]
    /\ UNCHANGED vars

\* Every other call; a loss of power ends the listing.
Elsewhere ==
    /\ Next
    /\ IF mode' = "off"
       THEN dir' = NotOpen /\ seen' = <<>> /\ still' = [o \in Obj |-> NoPix]
       ELSE /\ UNCHANGED <<dir, seen>>
            /\ still' = [o \in Obj |-> IF still[o] \in HeadersOf(fs', o)
                                       THEN still[o] ELSE NoPix]

DirInit == Init /\ dir = NotOpen /\ seen = <<>> /\ still = [o \in Obj |-> NoPix]
DirNext == OpenDir \/ ReadDir \/ CloseDir \/ Elsewhere

\* A program goes on listing until readdir returns 0 (while (readdir ...)),
\* or gives up.
DirSpec == DirInit /\ [][DirNext]_allVars /\ WF_allVars(ReadDir)

----------------------------------------------------------------------------
(* Properties.                                                             *)

Times(o) == Cardinality({i \in DOMAIN seen : seen[i] = o})

\* A file whose header stays where it is while others are created, written,
\* removed and cleaned is listed once: not before its entry is reached, not
\* twice after, and not missed when the listing ends.
ListedOnce ==
    \A o \in Obj \ damaged : still[o] # NoPix =>
        /\ dir = Ended => Times(o) = 1
        /\ Listing => Times(o) = IF Before(still[o], dir) THEN 1 ELSE 0

\* Between two calls a listing would show every file that exists, by one
\* header, and no other: readdir takes whatever header it meets, so that
\* creating, growing, moving and removing must never leave a second one.
ShowsTheFiles ==
    mode = "on" => \A o \in Obj \ damaged :
        Cardinality(HeadersOf(fs, o)) = IF want[o] = {NoFile} THEN 0 ELSE 1

\* A listing ends or is given up, although files keep moving to entries
\* ahead of it.
ListingEnds == Listing ~> ~Listing

\* Not so for a file that is there all the time, but is moved: it may be
\* missed, or listed twice.
MovedListedOnce == \A o \in Obj : Times(o) <= 1
=============================================================================
