--------------------------- MODULE FlashDriverProofs ---------------------------
(***************************************************************************)
(* The flash driver keeps to the bytes it was asked for, on every chip and *)
(* for every request.  The inductive invariant says where in the request a *)
(* call is (Located), what the buffer holds (Filled), and what was written *)
(* (Partly) or copied (Copied) so far.                                     *)
(***************************************************************************)
EXTENDS FlashDriver, TLAPS

----------------------------------------------------------------------------
(* Arithmetic of words.                                                    *)

LEMMA Division ==
    ASSUME NEW n \in Nat, NEW k \in Nat, k > 0
    PROVE  /\ n \div k \in Nat /\ n % k \in 0 .. k - 1
           /\ n = (n \div k) * k + (n % k)
BY Z3

LEMMA Geometry ==
    /\ Chip \in Nat /\ FS_START \in Nat /\ FS_END \in Nat /\ P \in Nat
    /\ A \in Nat /\ Sect \in Nat /\ MaxSize \in Nat /\ MaxCalls \in Nat
    /\ 0 < A /\ A <= P /\ 0 < Sect /\ FS_END + A + A + P <= Chip
BY GeometryAssumption

LEMMA Alignment ==
    ASSUME NEW n \in Nat
    PROVE  Aligned(n) \in Nat /\ Aligned(n) <= n /\ n < Aligned(n) + A
<1>1. /\ n \div A \in Nat /\ n % A \in 0 .. A - 1
      /\ n = (n \div A) * A + (n % A)
  BY Geometry, Division
<1>2. (n \div A) * A \in Nat
  BY <1>1, Geometry, SMT
<1> QED
  BY <1>1, <1>2, Geometry DEF Aligned

LEMMA Product ==
    ASSUME NEW m \in Nat, NEW n \in Nat PROVE m * n \in Nat
BY Z3

\* a is the first address of a sector.
AtSector(a) == a = SectorOf(a) * Sect

\* The cells of sector q.
LEMMA SectorCells ==
    ASSUME NEW q \in Nat, NEW a \in Nat
    PROVE  SectorOf(a) = q <=> q * Sect <= a /\ a < q * Sect + Sect
<1>1. /\ a \div Sect \in Nat /\ a % Sect \in 0 .. Sect - 1
      /\ a = (a \div Sect) * Sect + (a % Sect)
  BY Geometry, Division
<1> DEFINE p == a \div Sect
<1> HIDE DEF p
<1>2. p \in Nat /\ p * Sect <= a /\ a < p * Sect + Sect
  BY <1>1, Geometry DEF p
<1>3. q * Sect <= a /\ a < q * Sect + Sect => p = q
  <2> SUFFICES ASSUME q * Sect <= a, a < q * Sect + Sect PROVE p = q
    OBVIOUS
  <2>1. ASSUME p < q PROVE FALSE
    <3>1. p * Sect + Sect <= q * Sect
      BY <1>2, <2>1, Geometry, Z3
    <3> QED
      BY <1>2, <3>1, Geometry
  <2>2. ASSUME q < p PROVE FALSE
    <3>1. q * Sect + Sect <= p * Sect
      BY <1>2, <2>2, Geometry, Z3
    <3> QED
      BY <1>2, <3>1, Geometry
  <2> QED
    BY <1>2, <2>1, <2>2
<1> QED
  BY <1>2, <1>3 DEF SectorOf, p

LEMMA SectorBegins ==
    ASSUME NEW q \in Nat
    PROVE  q * Sect \in Nat /\ SectorOf(q * Sect) = q /\ AtSector(q * Sect)
<1>1. q * Sect \in Nat
  BY Geometry, Product
<1> DEFINE x == q * Sect
<1>2. x <= x /\ x < x + Sect
  <2> HIDE DEF x
  <2>1. x \in Nat
    BY <1>1 DEF x
  <2> QED
    BY <2>1, Geometry
<1>3. SectorOf(x) = q
  BY <1>1, <1>2, SectorCells
<1> QED
  BY <1>1, <1>3 DEF AtSector

LEMMA SectorAround ==
    ASSUME NEW x \in Nat, AtSector(x), NEW a \in Nat
    PROVE  SectorOf(a) = SectorOf(x) <=> x <= a /\ a < x + Sect
<1>1. SectorOf(x) \in Nat
  BY Geometry, Division DEF SectorOf
<1> QED
  BY <1>1, SectorCells DEF AtSector

LEMMA SectorFollows ==
    ASSUME NEW x \in Nat, AtSector(x)
    PROVE  AtSector(x + Sect)
<1> DEFINE q == SectorOf(x)
<1>1. q \in Nat /\ x = q * Sect
  BY Geometry, Division DEF SectorOf, AtSector
<1> HIDE DEF q
<1>2. x + Sect = (q + 1) * Sect
  BY <1>1, Geometry, Z3
<1> QED
  BY <1>1, <1>2, SectorBegins

----------------------------------------------------------------------------
(* A step changes no operator of the constants.                            *)

LEMMA Rigid ==
    /\ Empty' = Empty /\ Addr' = Addr /\ Request' = Request
    /\ \A a : SectorOf(a)' = SectorOf(a)
BY DEF Empty, Addr, Request, SectorOf

----------------------------------------------------------------------------
(* The invariant.                                                          *)

Windowed == asked.op # "erase"

Located ==
    busy /\ left > 0 /\ Windowed =>
       /\ start + align = asked.addr + Done
       /\ align < P
       /\ asked.addr + asked.size < FS_END + A + A

Filled ==
    busy /\ Windowed /\ buffer # Empty =>
       buffer = [i \in 0 .. P - 1 |-> flash[start + i]]

Finished == ~busy /\ res = "OK" => left = 0

Partly ==
    asked.op = "write" /\ (busy \/ res = "OK") =>
       \A i \in 0 .. asked.size - 1 :
          flash[asked.addr + i] =
             IF i < Done THEN before[asked.addr + i] \cup asked.src[i]
             ELSE before[asked.addr + i]

Copied ==
    asked.op = "read" /\ (busy \/ res = "OK") /\ asked.addr % A = 0 =>
       /\ align = 0
       /\ dst = [i \in 0 .. Done - 1 |-> flash[asked.addr + i]]

Sectored ==
    busy /\ left > 0 /\ ~Windowed =>
       /\ start + align = asked.addr + Done
       /\ align < Sect
       /\ AtSector(start)

OnlySectors ==
    asked.op = "erase" =>
       \A a \in Addr : flash[a] = before[a] \/
          (flash[a] = Blank /\ \E b \in Asked : SectorOf(b) = SectorOf(a))

Wiped ==
    asked.op = "erase" /\ (busy \/ res = "OK") =>
       \A a \in Addr, b \in asked.addr .. asked.addr + Done - 1 :
          SectorOf(b) = SectorOf(a) => flash[a] = Blank

IInv == /\ TypeOK /\ Located /\ Filled /\ Finished /\ Sectored
        /\ OnlyAskedProgrammed /\ OnlySectors
        /\ Partly /\ Copied /\ Wiped

LEMMA InitInv == Init => IInv
<1> SUFFICES ASSUME Init PROVE IInv
  OBVIOUS
<1> USE DEF Init
<1>1. asked \in Request /\ asked.op = "read" /\ asked.addr = 0 /\ asked.size = 0
  BY Geometry DEF Request
<1>2. TypeOK
  <2>1. flash \in [Addr -> Byte] /\ before \in [Addr -> Byte]
    BY DataAssumption
  <2>2. {start, align, left, calls} \subseteq Nat /\ left <= asked.size
    BY <1>1
  <2> QED
    BY <1>1, <2>1, <2>2 DEF TypeOK
<1>3. Located /\ Filled /\ Finished /\ Partly
  BY <1>1 DEF Located, Filled, Finished, Partly
<1>4. OnlyAskedProgrammed
  BY <1>1 DEF OnlyAskedProgrammed
<1>5. Copied
  BY <1>1, Geometry DEF Copied, Done, Empty
<1>6. Sectored /\ OnlySectors /\ Wiped
  BY <1>1 DEF Sectored, OnlySectors, Wiped
<1> QED
  BY <1>2, <1>3, <1>4, <1>5, <1>6 DEF IInv

----------------------------------------------------------------------------
(* A call begins.                                                          *)

LEMMA Begins ==
    ASSUME IInv, NEW what \in {"read", "write", "erase"}, NEW r \in Requests,
           NEW src \in Sources, Call(what, r, src)
    PROVE  IInv'
<1>1. /\ r.addr \in Nat /\ r.size \in 0 .. MaxSize /\ r.size \in Nat
      /\ Unit(what) \in Nat /\ Unit(what) > 0
  BY DataAssumption, Geometry DEF Unit
<1>2. /\ calls < MaxCalls /\ flash' = flash /\ before' = flash
      /\ busy' = ~Refused(r) /\ res' = IF Refused(r) THEN "BOUNDARY" ELSE "OK"
      /\ left' = r.size /\ buffer' = Empty /\ dst' = Empty /\ calls' = calls + 1
  BY DEF Call
<1>3. /\ start' \in Nat /\ align' \in 0 .. Unit(what) - 1
      /\ r.addr = start' + align' /\ align' = r.addr % Unit(what)
  <2> DEFINE q == r.addr \div Unit(what)
  <2>1. /\ q \in Nat /\ align' \in 0 .. Unit(what) - 1
        /\ r.addr = q * Unit(what) + align'
        /\ start' = q * Unit(what) /\ align' = r.addr % Unit(what)
    BY <1>1, Division DEF Call
  <2> HIDE DEF q
  <2> QED
    BY <1>1, <2>1, Product
<1>4. /\ asked' \in Request /\ asked'.op = what /\ asked'.addr = r.addr
      /\ asked'.size = r.size /\ asked'.src = src
  BY <1>1 DEF Request, Call
<1>5. TypeOK'
  <2>1. flash' \in [Addr -> Byte] /\ before' \in [Addr -> Byte]
    BY <1>2 DEF TypeOK, IInv
  <2>2. start' \in Nat /\ align' \in Nat /\ left' \in Nat /\ left' <= asked'.size
    BY <1>1, <1>2, <1>3, <1>4
  <2>3. calls' \in Nat
    BY <1>2 DEF TypeOK, IInv
  <2>4. /\ busy' \in BOOLEAN
        /\ res' \in {"OK", "ERR", "TIMEOUT", "FAULT", "BOUNDARY"}
    BY <1>2 DEF Refused
  <2> QED
    BY <1>2, <1>4, <2>1, <2>2, <2>3, <2>4, Rigid DEF TypeOK
<1>6. Located'
  <2> SUFFICES ASSUME ~Refused(r), what # "erase"
               PROVE  /\ start' + align' = r.addr + (r.size - r.size)
                      /\ align' < P
                      /\ r.addr + r.size < FS_END + A + A
    BY <1>2, <1>4 DEF Located, Done, Windowed
  <2>1. align' \in 0 .. A - 1
    BY <1>3 DEF Unit
  <2>2. /\ Aligned(r.addr) \in Nat /\ r.addr < Aligned(r.addr) + A
        /\ Aligned(r.size) \in Nat /\ r.size < Aligned(r.size) + A
    BY <1>1, Alignment
  <2>3. Aligned(r.addr) + Aligned(r.size) <= FS_END
    BY <2>2, Geometry DEF Refused
  <2> QED
    BY <1>1, <1>3, <2>1, <2>2, <2>3, Geometry
<1>7. Filled' /\ Finished'
  BY <1>2, Rigid DEF Filled, Finished
<1>8. OnlyAskedProgrammed'
  BY <1>2 DEF OnlyAskedProgrammed, Asked
<1>9. Partly'
  BY <1>1, <1>2, <1>4 DEF Partly, Done
<1>10. Copied'
  <2> SUFFICES ASSUME what = "read", r.addr % A = 0
               PROVE  align' = 0 /\ dst' = [i \in 0 .. (r.size - r.size) - 1 |->
                                              flash'[r.addr + i]]
    BY <1>2, <1>4 DEF Copied, Done
  <2>1. align' = 0
    BY <1>3 DEF Unit
  <2>2. 0 .. (r.size - r.size) - 1 = 0 .. -1 /\ 0 .. -1 = {}
    BY <1>1
  <2>3. dst' = [i \in {} |-> Blank]
    BY <1>2, <2>2 DEF Empty
  <2> QED
    BY <2>1, <2>2, <2>3
<1>11. Sectored'
  <2> SUFFICES ASSUME what = "erase"
               PROVE  /\ start' + align' = r.addr + (r.size - r.size)
                      /\ align' < Sect
                      /\ AtSector(start')
    BY <1>2, <1>4 DEF Sectored, Done, Windowed
  <2> DEFINE q == r.addr \div Sect
  <2>1. q \in Nat /\ start' = q * Sect
    BY <1>1, Geometry, Division DEF Call, Unit
  <2> HIDE DEF q
  <2>2. AtSector(start')
    BY <2>1, SectorBegins
  <2>3. align' \in 0 .. Sect - 1
    BY <1>3 DEF Unit
  <2> QED
    BY <1>1, <1>3, <2>2, <2>3, Geometry
<1>12. OnlySectors' /\ Wiped'
  BY <1>1, <1>2, <1>4 DEF OnlySectors, Wiped, Done
<1> QED
  BY <1>5, <1>6, <1>7, <1>8, <1>9, <1>10, <1>11, <1>12 DEF IInv

----------------------------------------------------------------------------
(* A window.                                                               *)

\* Where a window lies, and which bytes of the request are in it.
LEMMA Windows ==
    ASSUME IInv, Running("read") \/ Running("write")
    PROVE  /\ Part \in Nat /\ 0 < Part /\ Part <= left /\ align + Part <= P
           /\ left - Part > 0 => align + Part = P
           /\ Done \in Nat /\ Done + Part <= asked.size
           /\ asked.size \in Nat /\ asked.addr \in Nat /\ asked.size <= MaxSize
           /\ start \in Nat /\ align \in Nat /\ left \in Nat
           /\ start + align = asked.addr + Done
           /\ start + P <= Chip
           /\ busy /\ Windowed
<1>1. /\ left \in Nat /\ 0 < left /\ start \in Nat /\ align \in Nat /\ busy
      /\ asked.size \in 0 .. MaxSize /\ left <= asked.size /\ asked.addr \in Nat
      /\ Windowed
  BY DEF IInv, TypeOK, Request, Running, Windowed
<1>2. /\ start + align = asked.addr + Done /\ align < P
      /\ asked.addr + asked.size < FS_END + A + A
  BY <1>1 DEF IInv, Located
<1>3. /\ Part \in Nat /\ 0 < Part /\ Part <= left /\ align + Part <= P
      /\ left - Part > 0 => align + Part = P
  BY <1>1, <1>2, Geometry DEF Part, Step
<1>4. /\ asked.size \in Nat /\ asked.size <= MaxSize
      /\ Done \in Nat /\ Done + left = asked.size
  BY <1>1, Geometry DEF Done
<1>5. Done + Part <= asked.size
  BY <1>1, <1>3, <1>4
<1>6. start + P <= Chip
  BY <1>1, <1>2, <1>4, Geometry
<1> QED
  BY <1>1, <1>2, <1>3, <1>4, <1>5, <1>6

LEMMA AdvancedTypes ==
    ASSUME IInv, Running("read") \/ Running("write"), Advance(Part, P)
    PROVE  /\ start' \in Nat /\ align' = 0 /\ left' \in Nat /\ left' <= asked.size
           /\ Done' = Done + Part
           /\ Located' /\ Filled' /\ Finished' /\ Sectored' /\ OnlySectors' /\ Wiped'
<1>1. /\ left' = left - Part /\ start' = start + P /\ align' = 0
      /\ buffer' = Empty /\ asked' = asked /\ busy' = busy
  BY DEF Advance
<1>2. Done' = Done + Part
  BY <1>1, Windows DEF Done
<1>3. Located'
  BY <1>1, <1>2, Windows, Geometry DEF Located, Windowed, IInv
<1>4. Filled' /\ Finished'
  BY <1>1, Windows DEF Filled, Finished
<1>5. Sectored' /\ OnlySectors' /\ Wiped'
  BY <1>1, Windows DEF Sectored, OnlySectors, Wiped, Windowed
<1>6. start' \in Nat /\ left' \in Nat /\ left' <= asked.size
  <2>1. left <= asked.size
    BY DEF IInv, TypeOK
  <2> QED
    BY <1>1, <2>1, Windows, Geometry
<1> QED
  BY <1>1, <1>2, <1>3, <1>4, <1>5, <1>6

LEMMA Reads ==
    ASSUME IInv, ReadWindow
    PROVE  IInv'
<1> USE DEF ReadWindow
<1>1. \A i \in 0 .. P - 1 : start + i \in Addr
  <2>1. start \in Nat /\ start + P <= Chip
    BY Windows
  <2> QED
    BY <2>1, Geometry DEF Addr
<1>2. buffer' \in [0 .. P - 1 -> Byte]
  BY <1>1 DEF IInv, TypeOK
<1>3. TypeOK' /\ Filled'
  BY <1>2 DEF IInv, TypeOK, Filled
<1>4. Located' /\ Finished'
  BY DEF IInv, Located, Finished, Done, Windowed
<1>5. OnlyAskedProgrammed' /\ Partly' /\ Copied'
  BY DEF IInv, OnlyAskedProgrammed, Partly, Copied, Done, Asked
<1>6. Sectored' /\ OnlySectors' /\ Wiped'
  BY DEF Sectored, OnlySectors, Wiped, Windowed, Running
<1> QED
  BY <1>3, <1>4, <1>5, <1>6 DEF IInv

LEMMA Copies ==
    ASSUME IInv, CopyOut
    PROVE  IInv'
<1>1. /\ Running("read") /\ buffer # Empty /\ Advance(Part, P) /\ flash' = flash
  BY DEF CopyOut
<1>2. /\ asked' = asked /\ busy' = busy /\ res' = res /\ before' = before
      /\ calls' = calls /\ buffer' = Empty
  BY <1>1 DEF Advance
<1>3. TypeOK'
  BY <1>1, <1>2, AdvancedTypes DEF IInv, TypeOK
<1>4. OnlyAskedProgrammed' /\ Partly'
  BY <1>1, <1>2 DEF IInv, OnlyAskedProgrammed, Partly, Asked, Running
<1>5. Copied'
  <2> DEFINE bytes(n, c, a) == [i \in 0 .. n - 1 |-> c[a + i]]
  <2> SUFFICES ASSUME asked.addr % A = 0
               PROVE  dst' = bytes(Done + Part, flash, asked.addr)
    <3>1. Done' = Done + Part /\ align' = 0 /\ flash' = flash /\ asked' = asked
      BY <1>1, <1>2, AdvancedTypes
    <3>2. asked'.addr % A = 0 => dst' = bytes(Done', flash', asked'.addr)
      <4> HIDE DEF bytes
      <4> QED
        BY <3>1
    <3> QED
      BY <3>1, <3>2 DEF Copied
  <2>1. /\ align = 0 /\ From = 0 /\ start = asked.addr + Done
        /\ dst = [i \in 0 .. Done - 1 |-> flash[asked.addr + i]]
    BY <1>1, Windows, Geometry DEF IInv, Copied, From, Running
  <2>2. buffer = [i \in 0 .. P - 1 |-> flash[start + i]]
    BY <1>1, Windows DEF IInv, Filled
  <2> DEFINE S == 0 .. (Done + Part) - 1
  <2>3. S = 0 .. Done + Part - 1
    BY <1>1, Windows
  <2>4. PICK junk : dst' = [i \in 0 .. Done + Part - 1 |->
                    IF i < Done THEN dst[i]
                    ELSE IF From + i - Done < P THEN buffer[From + i - Done]
                    ELSE junk[i - Done]]
    BY DEF CopyOut
  <2> DEFINE byte(i) == IF i < Done THEN dst[i]
                        ELSE IF From + i - Done < P THEN buffer[From + i - Done]
                        ELSE junk[i - Done]
  <2>5. ASSUME NEW i \in S
        PROVE  byte(i) = flash[asked.addr + i]
    <3>1. CASE i < Done
      BY <3>1, <2>1, Windows, <1>1
    <3>2. CASE ~(i < Done)
      <4>1. /\ From + i - Done = i - Done /\ i - Done \in 0 .. P - 1
            /\ start + (i - Done) = asked.addr + i
        <5>1. /\ Done \in Nat /\ Part \in Nat /\ Part <= P /\ asked.addr \in Nat
          BY <1>1, <2>1, Windows, Geometry
        <5> QED
          BY <3>2, <2>1, <5>1, Geometry
      <4>2. buffer[i - Done] = flash[asked.addr + i]
        BY <4>1, <2>2
      <4>3. i - Done < P
        BY <4>1, Geometry
      <4> QED
        BY <4>1, <4>2, <4>3, <3>2
    <3> QED
      BY <3>1, <3>2
  <2>6. dst' = [i \in S |-> byte(i)]
    BY <2>3, <2>4
  <2> HIDE DEF byte, S
  <2>7. [i \in S |-> byte(i)] = [i \in S |-> flash[asked.addr + i]]
    BY <2>5
  <2> QED
    BY <2>6, <2>7 DEF S
<1> QED
  BY <1>1, <1>3, <1>4, <1>5, AdvancedTypes DEF IInv

----------------------------------------------------------------------------
(* Programming.                                                            *)

\* A cell of the window gets a byte of the request, or what it holds.
LEMMA MergedBytes ==
    ASSUME IInv, Running("write"), buffer # Empty, NEW a \in Window
    PROVE  /\ a \in Addr /\ Merged(a - start) \in Byte
           /\ IF a \in asked.addr + Done .. asked.addr + Done + Part - 1
              THEN /\ a - asked.addr \in 0 .. asked.size - 1
                   /\ Merged(a - start) = asked.src[a - asked.addr]
              ELSE Merged(a - start) = flash[a]
<1>1. a \in Addr /\ a - start \in 0 .. P - 1 /\ a \in Int
  BY Windows, Geometry DEF Window, Addr
<1>2. buffer[a - start] = flash[a]
  <2>1. start + (a - start) = a
    BY <1>1, Windows
  <2>2. buffer = [i \in 0 .. P - 1 |-> flash[start + i]]
    BY Windows DEF IInv, Filled
  <2> QED
    BY <1>1, <2>1, <2>2
<1>3. asked.src \in [0 .. MaxSize - 1 -> Byte]
  BY DataAssumption DEF IInv, TypeOK, Request
<1>4. CASE a \in asked.addr + Done .. asked.addr + Done + Part - 1
  <2>1. /\ align <= a - start /\ a - start < align + Part
        /\ Done + (a - start) - align = a - asked.addr
        /\ a - asked.addr \in 0 .. asked.size - 1
        /\ a - asked.addr \in 0 .. MaxSize - 1
    BY <1>1, <1>4, Windows, Geometry
  <2> QED
    BY <1>1, <1>3, <1>4, <2>1 DEF Merged
<1>5. CASE a \notin asked.addr + Done .. asked.addr + Done + Part - 1
  <2>1. ~(align <= a - start /\ a - start < align + Part)
    BY <1>1, <1>5, Windows, Geometry
  <2>2. flash[a] \in Byte
    BY <1>1 DEF IInv, TypeOK
  <2> QED
    BY <1>1, <1>2, <1>5, <2>1, <2>2 DEF Merged
<1> QED
  BY <1>4, <1>5

\* Wherever programming stops, only bytes asked for have changed.
LEMMA ProgrammedBytes ==
    ASSUME IInv, Running("write"), buffer # Empty, NEW cells \in SUBSET Window,
           flash' = Programmed(cells), asked' = asked, before' = before
    PROVE  flash' \in [Addr -> Byte] /\ OnlyAskedProgrammed'
<1>1. ASSUME NEW a \in Addr
      PROVE  /\ flash'[a] = IF a \in cells THEN flash[a] \cup Merged(a - start)
                            ELSE flash[a]
             /\ flash[a] \in Byte
  BY DEF Programmed, IInv, TypeOK
<1>2. flash' \in [Addr -> Byte]
  <2>1. ASSUME NEW a \in Addr PROVE flash'[a] \in Byte
    <3>1. CASE a \in cells
      <4>1. Merged(a - start) \in Byte
        BY <3>1, MergedBytes
      <4>2. flash'[a] = flash[a] \cup Merged(a - start) /\ flash[a] \in Byte
        BY <1>1, <3>1
      <4>3. \A x, y \in Byte : x \cup y \in Byte
        BY DataAssumption
      <4> QED
        BY <4>1, <4>2, <4>3
    <3> QED
      BY <1>1, <3>1
  <2>2. flash' = [a \in Addr |-> flash'[a]]
    BY DEF Programmed
  <2> QED
    BY <2>1, <2>2
<1>3. OnlyAskedProgrammed'
  <2> SUFFICES ASSUME NEW a \in Addr
               PROVE  IF a \in Asked
                      THEN before[a] \subseteq flash'[a]
                           /\ flash'[a] \subseteq before[a] \cup asked.src[a - asked.addr]
                      ELSE flash'[a] = before[a]
    BY DEF OnlyAskedProgrammed, Asked, Running
  <2>1. IF a \in Asked
        THEN before[a] \subseteq flash[a]
             /\ flash[a] \subseteq before[a] \cup asked.src[a - asked.addr]
        ELSE flash[a] = before[a]
    BY DEF IInv, OnlyAskedProgrammed, Running
  <2>2. CASE a \notin cells
    BY <2>1, <2>2, <1>1
  <2>3. CASE a \in cells /\ a \in asked.addr + Done .. asked.addr + Done + Part - 1
    <3>1. a \in Asked
      BY <2>3, Windows DEF Asked
    <3>2. Merged(a - start) = asked.src[a - asked.addr]
      BY <2>3, MergedBytes
    <3> QED
      BY <2>1, <2>3, <3>1, <3>2, <1>1
  <2>4. CASE a \in cells /\ a \notin asked.addr + Done .. asked.addr + Done + Part - 1
    <3>1. Merged(a - start) = flash[a]
      BY <2>4, MergedBytes
    <3> QED
      BY <2>1, <2>4, <3>1, <1>1
  <2> QED
    BY <2>2, <2>3, <2>4
<1> QED
  BY <1>2, <1>3

LEMMA Writes ==
    ASSUME IInv, WriteWindow
    PROVE  IInv'
<1>1. /\ Running("write") /\ buffer # Empty /\ Advance(Part, P)
      /\ flash' = Programmed(Window) /\ dst' = dst
  BY DEF WriteWindow
<1>2. /\ asked' = asked /\ busy' = busy /\ res' = res /\ before' = before
      /\ calls' = calls /\ buffer' = Empty
  BY <1>1 DEF Advance
<1>3. flash' \in [Addr -> Byte] /\ OnlyAskedProgrammed'
  BY <1>1, <1>2, ProgrammedBytes
<1>4. TypeOK'
  BY <1>1, <1>2, <1>3, AdvancedTypes DEF IInv, TypeOK
<1>5. Partly'
  <2> SUFFICES ASSUME NEW i \in 0 .. asked.size - 1
               PROVE  flash'[asked.addr + i] =
                         IF i < Done + Part
                         THEN before[asked.addr + i] \cup asked.src[i]
                         ELSE before[asked.addr + i]
    BY <1>1, <1>2, AdvancedTypes DEF Partly
  <2> DEFINE a == asked.addr + i
  <2>1. flash[a] = IF i < Done THEN before[a] \cup asked.src[i] ELSE before[a]
    BY <1>1 DEF IInv, Partly, Running
  <2>2. a \in Addr
    BY <1>1, Windows, Geometry DEF IInv, Located, Running, Addr
  <2>3. flash'[a] = IF a \in Window THEN flash[a] \cup Merged(a - start) ELSE flash[a]
    BY <1>1, <2>2 DEF Programmed
  <2>4. CASE i \in Done .. Done + Part - 1
    <3>1. a \in Window /\ a \in asked.addr + Done .. asked.addr + Done + Part - 1
      <4>1. /\ start + align = asked.addr + Done /\ align + Part <= P
            /\ start \in Nat /\ align \in Nat /\ Part \in Nat /\ Done \in Nat
            /\ asked.addr \in Nat
        BY <1>1, Windows
      <4> QED
        BY <2>4, <4>1, Geometry DEF Window
    <3>2. Merged(a - start) = asked.src[i]
      <4>1. a - asked.addr = i
        BY <1>1, Windows
      <4> QED
        BY <3>1, <4>1, <1>1, MergedBytes
    <3> QED
      BY <2>1, <2>3, <2>4, <3>1, <3>2, <1>1, Windows
  <2>5. CASE i \notin Done .. Done + Part - 1
    <3>1. a \notin asked.addr + Done .. asked.addr + Done + Part - 1
      BY <2>5, <1>1, Windows
    <3>2. flash'[a] = flash[a]
      BY <2>3, <3>1, <1>1, MergedBytes
    <3>3. i < Done <=> i < Done + Part
      BY <2>5, <1>1, Windows
    <3> QED
      BY <2>1, <3>2, <3>3
  <2> QED
    BY <2>4, <2>5
<1>6. Copied'
  BY <1>1, <1>2 DEF Copied, Running
<1> QED
  BY <1>1, <1>3, <1>4, <1>5, <1>6, AdvancedTypes DEF IInv

----------------------------------------------------------------------------
(* Erasing.                                                                *)

\* Where a sector lies, and which bytes of the request are in it.
LEMMA Sectors ==
    ASSUME IInv, Running("erase")
    PROVE  /\ SectorStep \in Nat /\ 0 < SectorStep /\ SectorStep <= left
           /\ align + SectorStep <= Sect
           /\ left - SectorStep > 0 => align + SectorStep = Sect
           /\ Done \in Nat /\ Done + SectorStep <= asked.size
           /\ asked.size \in Nat /\ asked.addr \in Nat
           /\ start \in Nat /\ align \in Nat /\ left \in Nat
           /\ start + align = asked.addr + Done
           /\ AtSector(start)
           /\ busy /\ asked.op = "erase"
<1>1. /\ left \in Nat /\ 0 < left /\ start \in Nat /\ align \in Nat /\ busy
      /\ asked.op = "erase" /\ asked.size \in Nat /\ left <= asked.size
      /\ asked.addr \in Nat
  BY DEF IInv, TypeOK, Request, Running
<1>2. start + align = asked.addr + Done /\ align < Sect /\ AtSector(start)
  BY <1>1 DEF IInv, Sectored, Windowed
<1> QED
  BY <1>1, <1>2, Geometry DEF SectorStep, Done

\* The cells of the sector that is erased, as sectors are numbered.
LEMMA SectorWindow ==
    ASSUME IInv, Running("erase"), NEW a \in Addr
    PROVE  /\ a \in Sector <=> SectorOf(a) = SectorOf(start)
           /\ a \in Sector => \E b \in Asked : SectorOf(b) = SectorOf(a)
<1>1. a \in Nat
  BY Geometry DEF Addr
<1>2. a \in Sector <=> SectorOf(a) = SectorOf(start)
  BY <1>1, Sectors, SectorAround, Geometry DEF Sector
<1>3. asked.addr + Done \in Asked /\ asked.addr + Done \in Nat
  BY Sectors DEF Asked
<1>4. SectorOf(asked.addr + Done) = SectorOf(start)
  BY <1>3, Sectors, SectorAround, Geometry
<1> QED
  BY <1>2, <1>3, <1>4

LEMMA ErasedCells ==
    ASSUME IInv, Running("erase"), NEW cells \in SUBSET Sector,
           flash' = Erased(cells), asked' = asked, before' = before
    PROVE  flash' \in [Addr -> Byte] /\ OnlySectors'
<1>1. ASSUME NEW a \in Addr
      PROVE  flash'[a] = IF a \in cells THEN Blank ELSE flash[a]
  BY DEF Erased
<1>2. flash' \in [Addr -> Byte]
  BY DataAssumption DEF IInv, TypeOK, Erased
<1>3. OnlySectors'
  <2> SUFFICES ASSUME NEW a \in Addr
               PROVE  flash'[a] = before[a] \/
                      (flash'[a] = Blank /\ \E b \in Asked : SectorOf(b) = SectorOf(a))
    BY DEF OnlySectors, Asked
  <2>1. CASE a \in cells
    BY <2>1, <1>1, SectorWindow
  <2>2. CASE a \notin cells
    BY <2>2, <1>1 DEF IInv, OnlySectors, Running
  <2> QED
    BY <2>1, <2>2
<1> QED
  BY <1>2, <1>3

LEMMA Erases ==
    ASSUME IInv, EraseSector
    PROVE  IInv'
<1>1. /\ Running("erase") /\ flash' = Erased(Sector)
      /\ Advance(SectorStep, Sect) /\ dst' = dst
  BY DEF EraseSector
<1>2. /\ asked' = asked /\ busy' = busy /\ res' = res /\ before' = before
      /\ calls' = calls /\ buffer' = Empty /\ align' = 0
      /\ left' = left - SectorStep /\ start' = start + Sect
  BY <1>1 DEF Advance
<1>3. /\ left' \in Nat /\ left' <= asked.size /\ start' \in Nat
      /\ Done' = Done + SectorStep
  BY <1>1, <1>2, Sectors, Geometry DEF Done
<1>4. flash' \in [Addr -> Byte] /\ OnlySectors'
  BY <1>1, <1>2, ErasedCells
<1>5. TypeOK'
  BY <1>2, <1>3, <1>4 DEF IInv, TypeOK
<1>6. Sectored'
  <2> SUFFICES ASSUME left' > 0
               PROVE  start' + 0 = asked.addr + Done' /\ AtSector(start')
    BY <1>2, Geometry DEF Sectored
  <2>1. start' = asked.addr + Done'
    BY <1>1, <1>2, <1>3, Sectors, Geometry
  <2>2. AtSector(start')
    BY <1>1, <1>2, Sectors, SectorFollows
  <2> QED
    BY <1>3, <2>1, <2>2
<1>7. Wiped'
  <2> SUFFICES ASSUME NEW a \in Addr, NEW b \in asked.addr .. asked.addr + (Done + SectorStep) - 1,
                      SectorOf(b) = SectorOf(a)
               PROVE  flash'[a] = Blank
    BY <1>2, <1>3 DEF Wiped
  <2>1. flash'[a] = IF a \in Sector THEN Blank ELSE flash[a]
    BY <1>1 DEF Erased
  <2>2. CASE b < asked.addr + Done
    <3>1. b \in asked.addr .. asked.addr + Done - 1
      BY <2>2, <1>1, Sectors
    <3> QED
      BY <2>1, <3>1, <1>1 DEF IInv, Wiped, Running
  <2>3. CASE ~(b < asked.addr + Done)
    <3>1. b \in Nat /\ start <= b /\ b < start + Sect
      BY <2>3, <1>1, Sectors, Geometry
    <3>2. SectorOf(b) = SectorOf(start)
      BY <3>1, <1>1, Sectors, SectorAround
    <3> QED
      BY <2>1, <3>2, <1>1, SectorWindow
  <2> QED
    BY <2>2, <2>3
<1>8. /\ Located' /\ Filled' /\ Finished' /\ OnlyAskedProgrammed'
      /\ Partly' /\ Copied'
  BY <1>1, <1>2, Sectors
     DEF Located, Windowed, Filled, Finished, OnlyAskedProgrammed, Partly, Copied
<1> QED
  BY <1>4, <1>5, <1>6, <1>7, <1>8 DEF IInv

----------------------------------------------------------------------------
(* Failures, and the end of a call.                                        *)

\* A call that ends with an error promises only that it kept to its bytes.
LEMMA FailsSafely ==
    ASSUME IInv, Fails, flash' \in [Addr -> Byte], OnlyAskedProgrammed', OnlySectors'
    PROVE  IInv'
<1> USE DEF Fails
<1>1. TypeOK'
  BY DEF IInv, TypeOK
<1>2. Located' /\ Filled' /\ Finished' /\ Sectored'
  BY DEF Located, Filled, Finished, Sectored
<1>3. Partly' /\ Copied' /\ Wiped'
  BY DEF Partly, Copied, Wiped
<1> QED
  BY <1>1, <1>2, <1>3 DEF IInv

LEMMA ReadFails ==
    ASSUME IInv, ReadWindowFails
    PROVE  IInv'
<1>1. Fails /\ flash' = flash /\ asked' = asked /\ before' = before
  BY DEF ReadWindowFails, Fails
<1>2. flash' \in [Addr -> Byte] /\ OnlyAskedProgrammed' /\ OnlySectors'
  BY <1>1 DEF IInv, TypeOK, OnlyAskedProgrammed, OnlySectors, Asked
<1> QED
  BY <1>1, <1>2, FailsSafely

LEMMA WriteFails ==
    ASSUME IInv, WriteWindowFails
    PROVE  IInv'
<1>1. /\ Running("write") /\ buffer # Empty /\ Fails
      /\ asked' = asked /\ before' = before
  BY DEF WriteWindowFails, Fails
<1>2. PICK cells \in SUBSET Window : flash' = Programmed(cells)
  BY DEF WriteWindowFails
<1>3. flash' \in [Addr -> Byte] /\ OnlyAskedProgrammed'
  BY <1>1, <1>2, ProgrammedBytes
<1>4. OnlySectors'
  BY <1>1 DEF OnlySectors, Running
<1> QED
  BY <1>1, <1>3, <1>4, FailsSafely

LEMMA EraseFails ==
    ASSUME IInv, EraseSectorFails
    PROVE  IInv'
<1>1. Running("erase") /\ Fails /\ asked' = asked /\ before' = before
  BY DEF EraseSectorFails, Fails
<1>2. PICK cells \in SUBSET Sector : flash' = Erased(cells)
  BY DEF EraseSectorFails
<1>3. flash' \in [Addr -> Byte] /\ OnlySectors'
  BY <1>1, <1>2, ErasedCells
<1>4. OnlyAskedProgrammed'
  BY <1>1 DEF OnlyAskedProgrammed, Running
<1> QED
  BY <1>1, <1>3, <1>4, FailsSafely

LEMMA Returns ==
    ASSUME IInv, Return
    PROVE  IInv'
<1> USE DEF Return
<1>1. TypeOK' /\ Finished'
  BY DEF IInv, TypeOK, Finished
<1>2. Located' /\ Filled' /\ Sectored'
  BY DEF Located, Filled, Sectored
<1>3. OnlyAskedProgrammed' /\ OnlySectors'
  BY DEF IInv, OnlyAskedProgrammed, OnlySectors, Asked
<1>4. Partly' /\ Copied' /\ Wiped'
  BY DEF IInv, Partly, Copied, Wiped, Done
<1> QED
  BY <1>1, <1>2, <1>3, <1>4 DEF IInv

LEMMA Rests ==
    ASSUME IInv, UNCHANGED vars
    PROVE  IInv'
<1> USE DEF vars
<1>1. TypeOK' /\ Finished' /\ Located' /\ Filled' /\ Sectored'
  BY DEF IInv, TypeOK, Finished, Located, Filled, Sectored, Done, Windowed
<1>2. OnlyAskedProgrammed' /\ OnlySectors' /\ Partly' /\ Copied' /\ Wiped'
  BY DEF IInv, OnlyAskedProgrammed, OnlySectors, Partly, Copied, Wiped, Done, Asked
<1> QED
  BY <1>1, <1>2 DEF IInv

----------------------------------------------------------------------------
(* The theorems.                                                           *)

LEMMA NextInv == IInv /\ [Next]_vars => IInv'
<1> SUFFICES ASSUME IInv, [Next]_vars PROVE IInv'
  OBVIOUS
<1>1. ASSUME NEW what \in {"read", "write", "erase"}, NEW r \in Requests,
             NEW src \in Sources, Call(what, r, src)
      PROVE  IInv'
  BY <1>1, Begins
<1>2. CASE Return
  BY <1>2, Returns
<1>3. CASE ReadWindow
  BY <1>3, Reads
<1>4. CASE ReadWindowFails
  BY <1>4, ReadFails
<1>5. CASE CopyOut
  BY <1>5, Copies
<1>6. CASE WriteWindow
  BY <1>6, Writes
<1>7. CASE WriteWindowFails
  BY <1>7, WriteFails
<1>8. CASE EraseSector
  BY <1>8, Erases
<1>9. CASE EraseSectorFails
  BY <1>9, EraseFails
<1>10. CASE UNCHANGED vars
  BY <1>10, Rests
<1> QED
  BY <1>1, <1>2, <1>3, <1>4, <1>5, <1>6, <1>7, <1>8, <1>9, <1>10 DEF Next

LEMMA Invariant == Spec => []IInv
BY InitInv, NextInv, PTL DEF Spec

\* The driver stays in its window of the chip and its buffer, whatever is
\* asked for: the words it reads and programs are on the chip, also when the
\* request ends at the end of the file system.
THEOREM DriverTypes == Spec => []TypeOK
<1>1. IInv => TypeOK
  BY DEF IInv
<1> QED
  BY <1>1, Invariant, PTL

\* esp_spiffs_write changes no byte it was not asked to write and sets no
\* bit, wherever it fails, although it programs whole windows.
THEOREM KeepsToItsBytes == Spec => []OnlyAskedProgrammed
<1>1. IInv => OnlyAskedProgrammed
  BY DEF IInv
<1> QED
  BY <1>1, Invariant, PTL

\* A write that returns SPIFFS_OK has written all bytes.
THEOREM WritesAll == Spec => []WrittenWhole
<1>1. IInv => WrittenWhole
  <2> SUFFICES ASSUME IInv, Succeeded("write"), NEW i \in 0 .. asked.size - 1
               PROVE  flash[asked.addr + i] = before[asked.addr + i] \cup asked.src[i]
    BY DEF WrittenWhole
  <2>1. asked.size \in Nat /\ left = 0
    BY DEF IInv, TypeOK, Request, Finished, Succeeded
  <2>2. i < Done
    BY <2>1 DEF Done
  <2> QED
    BY <2>2 DEF IInv, Partly, Succeeded
<1> QED
  BY <1>1, Invariant, PTL

\* A read from a word address that returns SPIFFS_OK returns the chip's bytes.
THEOREM ReadsRight == Spec => []ReadsWords
<1>1. IInv => ReadsWords
  BY DEF IInv, TypeOK, Request, Finished, Copied, ReadsWords, Succeeded, Done
<1> QED
  BY <1>1, Invariant, PTL

\* esp_spiffs_erase blanks every sector its bytes are in, and no other.
THEOREM ErasesSectors == Spec => []SectorsErased
<1>1. IInv => SectorsErased
  BY DEF IInv, TypeOK, Request, Finished, OnlySectors, Wiped, SectorsErased,
         Succeeded, Done, Asked
<1> QED
  BY <1>1, Invariant, PTL
================================================================================
