------------------------------ MODULE NorFlash ------------------------------
(***************************************************************************)
(* What the layers of SPIFFS above _spiffs_rd and _spiffs_wr rely on: a    *)
(* NOR flash without any cache.  A page is the set of its bits that are    *)
(* cleared; programming clears more of them and only erasing a block sets  *)
(* them again.  The first page of a block is its object lookup page, which *)
(* also holds the erase count and the magic.                               *)
(*                                                                         *)
(* When the HAL reports an error for a page, nothing more is promised of   *)
(* reading that page until the file system is mounted again: suspect is    *)
(* the set of these pages.  reply is what the last call returned.          *)
(***************************************************************************)
EXTENDS Integers

CONSTANTS
    Block,   \* the blocks
    NP,      \* SPIFFS_PAGES_PER_BLOCK
    NoPage

ASSUME FlashAssumption ==
    /\ NP \in Nat /\ NP > 1
    /\ NoPage \notin Block \X (0 .. NP - 1)

VARIABLES flash, suspect, reply

flashVars == <<flash, suspect, reply>>

Page       == Block \X (0 .. NP - 1)
LuPage(b)  == <<b, 0>>
PagesIn(b) == {b} \X (0 .. NP - 1)

\* The header flags of a page and the entries of a lookup page, as sets of
\* the bits that are cleared in them.
Flags == {"USED", "FINAL", "IXDELE", "DELET"}
LuId  == {"id"}
Bits  == Flags \cup LuId \cup {"ec", "magic"}

BitsOf(p) == IF p[2] = 0 THEN LuId \cup {"ec", "magic"} ELSE Flags

\* The marks of an erased block: n of the two writes were done.
Marks(n) == {m \in {"ec", "magic"} : n = 2 \/ (n = 1 /\ m = "ec")}

\* Block b of chip f after erasing it (blank: the HAL did erase it).
EraseBlock(f, b, blank, n) ==
    [p \in Page |->
        IF p[1] # b THEN f[p]
        ELSE (IF blank THEN {} ELSE f[p])
               \cup (IF p = LuPage(b) THEN Marks(n) ELSE {})]

Done      == [res |-> "OK", page |-> NoPage, bits |-> {}]
Failed    == [res |-> "ERROR", page |-> NoPage, bits |-> {}]
Got(p, v) == [res |-> "OK", page |-> p, bits |-> v]

Formatted == [p \in Page |-> IF p[2] = 0 THEN Marks(2) ELSE {}]

FlashInit == flash = Formatted /\ suspect = {} /\ reply = Done

----------------------------------------------------------------------------
FlashRead(p) ==
    /\ \E v \in SUBSET BitsOf(p) :
          (p \notin suspect => v = flash[p]) /\ reply' = Got(p, v)
    /\ UNCHANGED <<flash, suspect>>

FlashProgram(p, v) ==
    /\ flash' = [flash EXCEPT ![p] = @ \cup v]
    /\ reply' = Done
    /\ UNCHANGED suspect

FlashFails(p) ==
    /\ reply' = Failed
    /\ suspect' \in {suspect, suspect \cup {p}}
    /\ UNCHANGED flash

FlashErase(b, blank, n) ==
    /\ flash' = EraseBlock(flash, b, blank, n)
    /\ reply' = IF n = 2 THEN Done ELSE Failed
    /\ suspect' \in {suspect, suspect \cup PagesIn(b)}
    /\ n = 2 => suspect' = suspect

FlashRest == suspect' \in {suspect, {}} /\ reply' = Done /\ UNCHANGED flash

FlashNext ==
    \/ \E p \in Page : FlashRead(p) \/ FlashFails(p)
    \/ \E p \in Page : \E v \in SUBSET BitsOf(p) : FlashProgram(p, v)
    \/ \E b \in Block, blank \in BOOLEAN, n \in 0 .. 2 :
          FlashErase(b, blank, n)
    \/ FlashRest

FlashSpec == FlashInit /\ [][FlashNext]_flashVars
=============================================================================
