----------------------------- MODULE FlashDriver -----------------------------
(***************************************************************************)
(* The flash driver (src/src/espbot/spiffs_flash_functions.c): SPIFFS asks *)
(* for any bytes, the SDK reads and programs words at word addresses.  A   *)
(* call goes through the chip a window of P bytes at a time, from the word *)
(* its first byte is in: a window is read into a buffer, bytes are copied  *)
(* from it or into it, and the window is programmed again as a whole.      *)
(*                                                                         *)
(* A byte is the set of its bits that are cleared, so that programming is  *)
(* union.  A call of the SDK may fail when it has done some of its work,   *)
(* and power may be lost in it, which ends the call all the same.          *)
(***************************************************************************)
EXTENDS Integers, FiniteSets

CONSTANTS
    Chip,       \* bytes on the chip
    FS_START, FS_END,
    P,          \* LOG_PAGE_SIZE
    A,          \* FS_ALIGN_BYTES, and sizeof(uint32)
    Sect,       \* FLASH_SECT_SIZE
    Byte,       \* the bytes there are
    MaxSize,    \* the longest request
    Requests,   \* the [addr, size] asked for
    Sources,    \* what is written
    Chips,      \* what is on the chip at first
    MaxCalls    \* bound: the number of calls

Addr  == 0 .. Chip - 1
Blank == {}

ASSUME GeometryAssumption ==
    /\ {Chip, FS_START, FS_END, P, A, Sect, MaxSize, MaxCalls} \subseteq Nat
    /\ 0 < A /\ A <= P /\ 0 < Sect
    /\ FS_START < FS_END /\ FS_END + A + A + P <= Chip
ASSUME DataAssumption ==
    /\ Blank \in Byte /\ \A x, y \in Byte : x \cup y \in Byte
    /\ Chips \subseteq [Addr -> Byte]
    /\ Sources \subseteq [0 .. MaxSize - 1 -> Byte]
    /\ \A r \in Requests : r.addr \in Nat /\ r.size \in 0 .. MaxSize

VARIABLES
    flash,      \* the chip
    asked,      \* the call running, or the last one, and its parameters
    busy,       \* whether a call is running
    start,      \* start_addr; in an erase, the address of sect_number
    align,      \* align_bytes; in an erase, sect_offset
    left,       \* t_size as it falls
    buffer,     \* the window that was read, or Empty
    dst,        \* the bytes copied to t_dst so far
    res,        \* what the last call returned
    before,     \* the chip when the call began (history)
    calls

vars == <<flash, asked, busy, start, align, left, buffer, dst, res, before, calls>>

Empty   == [i \in 0 .. -1 |-> Blank]
Window  == start .. start + P - 1
Request == [op : {"read", "write", "erase"}, addr : Nat, size : 0 .. MaxSize,
            src : Sources]

----------------------------------------------------------------------------
(* The calls.                                                              *)

Aligned(n) == (n \div A) * A
\* The end of a request is rounded down as its start is.
Refused(r) == \/ Aligned(r.addr) < FS_START \/ Aligned(r.addr) >= FS_END
              \/ Aligned(r.addr) + Aligned(r.size) > FS_END

Unit(what) == IF what = "erase" THEN Sect ELSE A

Call(what, r, src) ==
    /\ ~busy /\ calls < MaxCalls
    /\ asked'  = [op |-> what, addr |-> r.addr, size |-> r.size, src |-> src]
    /\ busy'   = ~Refused(r)
    /\ res'    = IF Refused(r) THEN "BOUNDARY" ELSE "OK"
    /\ start'  = (r.addr \div Unit(what)) * Unit(what)
    /\ align'  = r.addr % Unit(what)
    /\ left'   = r.size
    /\ buffer' = Empty /\ dst' = Empty
    /\ before' = flash /\ calls' = calls + 1
    /\ UNCHANGED flash

\* The bytes of the window at start that the call is for, from align on.
Step == P - align
Part == IF left > Step THEN Step ELSE left

Done == asked.size - left       \* the bytes read or written so far

\* The next window, or sector, of n bytes.
Advance(n, length) ==
    /\ left'   = left - n
    /\ start'  = start + length
    /\ align'  = 0
    /\ buffer' = Empty
    /\ UNCHANGED <<asked, busy, res, before, calls>>

Return ==
    /\ busy /\ left = 0
    /\ busy' = FALSE
    /\ UNCHANGED <<flash, asked, start, align, left, buffer, dst, res, before, calls>>

\* SPI_FLASH_RESULT_ERR, SPI_FLASH_RESULT_TIMEOUT, or no power.
Fails ==
    /\ busy' = FALSE /\ res' \in {"ERR", "TIMEOUT", "FAULT"}
    /\ UNCHANGED <<asked, start, align, left, buffer, dst, before, calls>>

Running(what) == busy /\ asked.op = what /\ left > 0

----------------------------------------------------------------------------
(* esp_spiffs_read, esp_spiffs_write                                       *)

ReadWindow ==
    /\ Running("read") \/ Running("write")
    /\ buffer = Empty
    /\ buffer' = [i \in 0 .. P - 1 |-> flash[start + i]]
    /\ UNCHANGED <<flash, asked, busy, start, align, left, dst, res, before, calls>>

ReadWindowFails ==
    /\ Running("read") \/ Running("write")
    /\ buffer = Empty
    /\ Fails /\ UNCHANGED flash

\* buffer + align_bytes, where buffer points to words.
From == align * A

\* Mutant of CopyOut: t_dst is not moved on.
CopyOutAnew ==
    /\ Running("read") /\ buffer # Empty
    /\ dst' = [i \in 0 .. Part - 1 |-> IF From + i < P THEN buffer[From + i] ELSE Blank]
    /\ Advance(Part, P)
    /\ UNCHANGED flash

\* What lies behind the buffer may be anything.
CopyOut ==
    /\ Running("read") /\ buffer # Empty
    /\ \E junk \in [{i \in 0 .. Part - 1 : From + i >= P} -> Byte] :
         dst' = [i \in 0 .. Done + Part - 1 |->
                    IF i < Done THEN dst[i]
                    ELSE IF From + i - Done < P THEN buffer[From + i - Done]
                    ELSE junk[i - Done]]
    /\ Advance(Part, P)
    /\ UNCHANGED flash

\* Mutant of Merged: the bytes to write come first.
MergedFirst(i) == IF i < Part THEN asked.src[Done + i] ELSE buffer[i]

\* The buffer with the bytes to write from align on.
Merged(i) == IF align <= i /\ i < align + Part THEN asked.src[Done + i - align]
             ELSE buffer[i]

\* Mutant of Programmed: the last byte of the window is left out.
ProgrammedShort(cells) ==
    [a \in Addr |-> IF a \in cells \ {start + P - 1}
                    THEN flash[a] \cup Merged(a - start) ELSE flash[a]]

Programmed(cells) ==
    [a \in Addr |-> IF a \in cells THEN flash[a] \cup Merged(a - start) ELSE flash[a]]

WriteWindow ==
    /\ Running("write") /\ buffer # Empty
    /\ flash' = Programmed(Window)
    /\ Advance(Part, P)
    /\ UNCHANGED dst

WriteWindowFails ==
    /\ Running("write") /\ buffer # Empty
    /\ \E cells \in SUBSET Window : flash' = Programmed(cells)
    /\ Fails

----------------------------------------------------------------------------
(* esp_spiffs_erase                                                        *)

\* Mutant of SectorStep: a whole sector, wherever the erase began.
WholeSectorStep == IF left > Sect THEN Sect ELSE left

SectorStep == IF left > Sect - align THEN Sect - align ELSE left

Sector     == start .. start + Sect - 1
Erased(cells) == [a \in Addr |-> IF a \in cells THEN Blank ELSE flash[a]]

EraseSector ==
    /\ Running("erase")
    /\ flash' = Erased(Sector)
    /\ Advance(SectorStep, Sect)
    /\ UNCHANGED dst

EraseSectorFails ==
    /\ Running("erase")
    /\ \E cells \in SUBSET Sector : flash' = Erased(cells)
    /\ Fails

----------------------------------------------------------------------------
Init ==
    /\ flash \in Chips /\ before = flash
    /\ asked \in [op : {"read"}, addr : {0}, size : {0}, src : Sources]
    /\ busy = FALSE /\ res = "OK"
    /\ start = 0 /\ align = 0 /\ left = 0
    /\ buffer = Empty /\ dst = Empty /\ calls = 0

Next ==
    \/ \E what \in {"read", "write", "erase"}, r \in Requests, src \in Sources :
          Call(what, r, src)
    \/ Return
    \/ ReadWindow \/ ReadWindowFails \/ CopyOut
    \/ WriteWindow \/ WriteWindowFails
    \/ EraseSector \/ EraseSectorFails

Spec == Init /\ [][Next]_vars

----------------------------------------------------------------------------
Asked      == asked.addr .. asked.addr + asked.size - 1
Succeeded(what) == ~busy /\ asked.op = what /\ res = "OK"

TypeOK ==
    /\ flash \in [Addr -> Byte] /\ before \in [Addr -> Byte]
    /\ asked \in Request /\ busy \in BOOLEAN
    /\ {start, align, left, calls} \subseteq Nat
    /\ left <= asked.size
    /\ buffer \in [0 .. P - 1 -> Byte] \cup {Empty}
    /\ res \in {"OK", "ERR", "TIMEOUT", "FAULT", "BOUNDARY"}

\* Although a write programs whole windows, from a word boundary on and past
\* the end of the page it is in, no byte changes that it is not for; those it
\* is for keep the bits they had cleared, and get none that is not written,
\* wherever the call failed.
OnlyAskedProgrammed ==
    asked.op \in {"read", "write"} =>
       \A a \in Addr :
          IF asked.op = "write" /\ a \in Asked
          THEN before[a] \subseteq flash[a]
               /\ flash[a] \subseteq before[a] \cup asked.src[a - asked.addr]
          ELSE flash[a] = before[a]

\* A write that returns SPIFFS_OK has programmed every byte, also where one
\* window ends and the next begins.
WrittenWhole ==
    Succeeded("write") =>
       \A i \in 0 .. asked.size - 1 :
          flash[asked.addr + i] = before[asked.addr + i] \cup asked.src[i]

\* A read from a word address returns what is on the chip.
ReadsWords ==
    Succeeded("read") /\ asked.addr % A = 0 =>
       dst = [i \in 0 .. asked.size - 1 |-> flash[asked.addr + i]]

\* "discard initial bytes required by alignment (if any) and copy to
\* destination": so does any other.
ReadsBytes ==
    Succeeded("read") =>
       dst = [i \in 0 .. asked.size - 1 |-> flash[asked.addr + i]]

\* An erase blanks the sectors its bytes are in, and no other byte.
SectorOf(a)   == a \div Sect
SectorsErased ==
    asked.op = "erase" =>
       \A a \in Addr :
          LET hit == \E b \in Asked : SectorOf(b) = SectorOf(a)
          IN  /\ flash[a] = before[a] \/ (hit /\ flash[a] = Blank)
              /\ Succeeded("erase") /\ hit => flash[a] = Blank
=============================================================================
