---------------------------- MODULE SBufProofs ----------------------------
(***************************************************************************)
(* The simple buffer, proved for blocks and segments of every size and any *)
(* byte values: calls in any order keep its pointers in place and read     *)
(* nothing but what was written, and a caller that keeps to the two modes  *)
(* has a ByteStream.                                                       *)
(***************************************************************************)
EXTENDS SBufSession, TLAPS

\* TypeOK, PointersOK and OnlyWrittenBytesAreRead, said of a buffer.
Good(k) ==
  /\ k \in Buffer /\ k.mem \in [1..k.size -> Cell]
  /\ k.dataStart <= k.dataEnd /\ k.dataEnd = k.size
  /\ k.readLoc <= k.dataEnd
  /\ ~k.readError => k.dataStart <= k.readLoc
  /\ \A p \in 1..k.size : (p > k.readLoc \/ p > k.dataStart) => k.mem[p] \in Byte

Inv == Good(b) /\ ret \in Seq(Byte)

-----------------------------------------------------------------------------
(* Blocks and what is read from them                                       *)

LEMMA BlockOfSize ==
  ASSUME NEW n \in 0..MaxSize, NEW f \in [1..n -> Cell]
  PROVE  f \in Blocks /\ f \in Seq(Cell) /\ Len(f) = n
BY SBufBoundsAssumption DEF Blocks

LEMMA BlockHasSize ==
  ASSUME NEW f \in Blocks
  PROVE  Len(f) \in 0..MaxSize /\ f \in [1..Len(f) -> Cell]
BY SBufBoundsAssumption DEF Blocks

LEMMA SegHasLength ==
  ASSUME NEW s \in Segs
  PROVE  s \in Seq(Byte) /\ Len(s) \in 0..MaxLen
BY SBufBoundsAssumption DEF Segs

LEMMA GoodNumbers ==
  ASSUME NEW k, Good(k)
  PROVE  /\ k.size \in 0..MaxSize /\ k.size \in Nat
         /\ k.dataStart \in 0..k.size /\ k.readLoc \in 0..k.size
         /\ k.dataEnd = k.size
         /\ k.readError \in BOOLEAN /\ k.writeError \in BOOLEAN
         /\ k.mem \in [1..k.size -> Cell]
BY SBufBoundsAssumption DEF Good, Buffer

LEMMA BlockIsSeq ==
  ASSUME NEW k, Good(k)
  PROVE  k.mem \in Seq(Cell) /\ Len(k.mem) = k.size
<1>1. k.mem \in [1..k.size -> Cell] /\ k.size \in Nat
  BY GoodNumbers
<1> HIDE DEF Good
<1> QED
  BY <1>1

\* n cells after the first p, by places.
Cells(m, p, n) == SubSeq(m, p + 1, p + n)

LEMMA CellsByPlace ==
  ASSUME NEW m \in Seq(Cell), NEW p \in Nat, NEW n \in Nat, p + n <= Len(m)
  PROVE  /\ Cells(m, p, n) \in Seq(Cell) /\ Len(Cells(m, p, n)) = n
         /\ Cells(m, p, n) = [j \in 1..n |-> m[p + j]]
<1>1. Cells(m, p, n) \in Seq(Cell) /\ Len(Cells(m, p, n)) = n
  BY DEF Cells
<1>2. \A j \in 1..n : Cells(m, p, n)[j] = m[p + j]
  BY DEF Cells
<1> QED
  BY <1>1, <1>2

LEMMA BytesAtPlaces ==
  ASSUME Good(b), NEW p \in Nat, NEW n \in Nat, p + n <= b.size
  PROVE  /\ BytesAt(p, n) \in Seq(Cell) /\ Len(BytesAt(p, n)) = n
         /\ BytesAt(p, n) = [j \in 1..n |-> b.mem[p + j]]
<1>1. b.mem \in Seq(Cell) /\ Len(b.mem) = b.size
  BY GoodNumbers
<1> QED
  BY <1>1, CellsByPlace DEF BytesAt, Cells

\* What lies at or after both pointers has been written.
LEMMA ReadsAreWritten ==
  ASSUME Good(b), NEW p \in Nat, NEW n \in Nat, p + n <= b.size,
         p >= b.readLoc \/ p >= b.dataStart
  PROVE  BytesAt(p, n) \in Seq(Byte)
<1>1. BytesAt(p, n) = [j \in 1..n |-> b.mem[p + j]]
  BY BytesAtPlaces
<1>2. ASSUME NEW j \in 1..n PROVE b.mem[p + j] \in Byte
  BY GoodNumbers DEF Good
<1> QED
  BY <1>1, <1>2

LEMMA LeftIsNat ==
  ASSUME Good(b)
  PROVE  Left \in Nat /\ Left = b.size - b.readLoc /\ (Eod <=> Left = 0)
BY GoodNumbers DEF Left, Eod

LEMMA LeftInBlock ==
  ASSUME Good(b), NEW n \in Nat
  PROVE  /\ Left \in Nat /\ Left = b.size - b.readLoc
         /\ AtMost(n, Left) \in 0..n /\ AtMost(n, Left) <= Left
         /\ b.readLoc + AtMost(n, Left) \in 0..b.size
         /\ Eod <=> Left = 0
BY GoodNumbers DEF Left, AtMost, Eod

-----------------------------------------------------------------------------
(* What the routines leave                                                 *)

\* The fields that decide whether a buffer is good.
LEMMA GoodByFields ==
  ASSUME NEW r \in [size : 0..MaxSize, dataStart : Int, dataEnd : Int, readLoc : Int,
                    readError : BOOLEAN, writeError : BOOLEAN, mem : Blocks],
         r.dataEnd = r.size, r.dataStart \in 0..r.size, r.readLoc \in 0..r.size,
         r.mem \in [1..r.size -> Cell],
         ~r.readError => r.dataStart <= r.readLoc,
         \A p \in 1..r.size : (p > r.readLoc \/ p > r.dataStart) => r.mem[p] \in Byte
  PROVE  Good(r)
<1>1. r.size \in Nat /\ r.size <= MaxSize /\ MaxSize \in Nat
  BY SBufBoundsAssumption
<1>2. r.dataStart \in 0..MaxSize /\ r.dataEnd \in 0..MaxSize /\ r.readLoc \in 0..MaxSize
  BY <1>1
<1>3. r \in Buffer
  BY <1>2 DEF Buffer
<1> QED
  BY <1>1, <1>3 DEF Good

LEMMA GoodBytes ==
  ASSUME NEW k, Good(k)
  PROVE  /\ \A p \in 1..k.size : (p > k.readLoc \/ p > k.dataStart) => k.mem[p] \in Byte
         /\ ~k.readError => k.dataStart <= k.readLoc
BY DEF Good

LEMMA InitialisedIsGood ==
  ASSUME NEW n \in 0..MaxSize, NEW f \in [1..n -> Cell]
  PROVE  /\ Good(Initialised(f))
         /\ (\A p \in 1..n : f[p] \in Byte) => Good(InReadMode([Initialised(f) EXCEPT !.dataStart = 0]))
<1>1. f \in Blocks /\ Len(f) = n /\ n \in 0..n /\ 0 \in 0..n /\ n \in Nat
  BY BlockOfSize, SBufBoundsAssumption
<1> DEFINE new == Initialised(f)
           atStart == [new EXCEPT !.dataStart = 0]
           read == InReadMode(atStart)
           Fields == [size : 0..MaxSize, dataStart : Int, dataEnd : Int, readLoc : Int,
                      readError : BOOLEAN, writeError : BOOLEAN, mem : Blocks]
<1>2. /\ new \in Fields /\ new.size = n /\ new.dataEnd = n /\ new.mem = f
      /\ new.dataStart = n /\ new.readLoc = n /\ new.readError
  BY <1>1 DEF Initialised
<1> HIDE DEF new
<1>3. /\ atStart \in Fields /\ atStart.size = n /\ atStart.dataEnd = n /\ atStart.mem = f
      /\ atStart.dataStart = 0
  BY <1>2
<1> HIDE DEF atStart
<1>4. /\ read \in Fields /\ read.size = n /\ read.dataEnd = n /\ read.mem = f
      /\ read.dataStart = 0 /\ read.readLoc = 0
  BY <1>3 DEF InReadMode
<1> HIDE DEF read
<1>5. Good(new)
  BY <1>1, <1>2, GoodByFields
<1>6. (\A p \in 1..n : f[p] \in Byte) => Good(read)
  BY <1>1, <1>4, GoodByFields
<1> QED
  BY <1>5, <1>6 DEF new, atStart, read

\* A good buffer of which the pointers, the flags and the bytes change.
LEMMA ChangeIsGood ==
  ASSUME NEW k, Good(k), NEW start \in 0..k.size, NEW loc \in 0..k.size,
         NEW rerr \in BOOLEAN, NEW werr \in BOOLEAN, NEW mem \in [1..k.size -> Cell],
         ~rerr => start <= loc,
         \A p \in 1..k.size : (p > loc \/ p > start) => mem[p] \in Byte
  PROVE  Good([k EXCEPT !.dataStart = start, !.dataEnd = k.size, !.readLoc = loc,
                        !.readError = rerr, !.writeError = werr, !.mem = mem])
<1> DEFINE r == [k EXCEPT !.dataStart = start, !.dataEnd = k.size, !.readLoc = loc,
                          !.readError = rerr, !.writeError = werr, !.mem = mem]
<1>1. mem \in Blocks /\ k.size \in Int /\ start \in Int /\ loc \in Int
  BY GoodNumbers, BlockOfSize
<1>2. k \in Buffer
  BY DEF Good
<1>3. /\ r \in [size : 0..MaxSize, dataStart : Int, dataEnd : Int, readLoc : Int,
                readError : BOOLEAN, writeError : BOOLEAN, mem : Blocks]
      /\ r.size = k.size /\ r.dataEnd = k.size /\ r.dataStart = start /\ r.readLoc = loc
      /\ r.readError = rerr /\ r.mem = mem
  BY <1>1, <1>2 DEF Buffer
<1> HIDE DEF r
<1>4. Good(r)
  BY <1>3, GoodByFields
<1> QED
  BY <1>4 DEF r

LEMMA ReadModeIsGood == ASSUME NEW k, Good(k) PROVE Good(InReadMode(k))
<1> DEFINE r == [k EXCEPT !.dataStart = k.dataStart, !.dataEnd = k.size, !.readLoc = k.dataStart,
                          !.readError = FALSE, !.writeError = TRUE, !.mem = k.mem]
<1>1. k.dataStart \in 0..k.size /\ k.dataStart <= k.dataStart /\ k.mem \in [1..k.size -> Cell]
  BY GoodNumbers
<1>2. \A p \in 1..k.size : p > k.dataStart => k.mem[p] \in Byte
  BY GoodBytes
<1>3. Good(r)
  BY <1>1, <1>2, ChangeIsGood
<1>4. InReadMode(k) = r
  BY DEF InReadMode, Good, Buffer
<1> QED
  BY <1>3, <1>4

LEMMA WriteModeIsGood == ASSUME NEW k, Good(k) PROVE Good(InWriteRvsMode(k))
<1> DEFINE r == [k EXCEPT !.dataStart = k.size, !.dataEnd = k.size, !.readLoc = k.readLoc,
                          !.readError = TRUE, !.writeError = FALSE, !.mem = k.mem]
<1>1. /\ k.size \in 0..k.size /\ k.readLoc \in 0..k.size /\ k.mem \in [1..k.size -> Cell]
      /\ \A p \in 1..k.size : ~(p > k.size)
  BY GoodNumbers
<1>2. \A p \in 1..k.size : p > k.readLoc => k.mem[p] \in Byte
  BY GoodBytes
<1>3. Good(r)
  BY <1>1, <1>2, ChangeIsGood
<1>4. InWriteRvsMode(k) = r
  BY DEF InWriteRvsMode, Good, Buffer
<1> QED
  BY <1>3, <1>4

\* A flag set, or some octets passed over.
LEMMA MovedIsGood ==
  ASSUME Good(b), NEW loc \in b.readLoc..b.size, NEW rerr \in BOOLEAN, NEW werr \in BOOLEAN,
         b.readError => rerr
  PROVE  Good([b EXCEPT !.readLoc = loc, !.readError = rerr, !.writeError = werr])
<1> DEFINE r == [b EXCEPT !.dataStart = b.dataStart, !.dataEnd = b.size, !.readLoc = loc,
                          !.readError = rerr, !.writeError = werr, !.mem = b.mem]
<1>1. /\ b.dataStart \in 0..b.size /\ b.readLoc \in 0..b.size /\ b.size \in Nat
      /\ b.mem \in [1..b.size -> Cell] /\ b.readError \in BOOLEAN
  BY GoodNumbers
<1>2. loc \in 0..b.size /\ loc >= b.readLoc
  BY <1>1
<1>3. ~rerr => b.dataStart <= loc
  BY <1>1, <1>2, GoodBytes
<1>4. \A p \in 1..b.size : (p > loc \/ p > b.dataStart) => b.mem[p] \in Byte
  BY <1>1, <1>2, GoodBytes
<1>5. Good(r)
  BY <1>1, <1>2, <1>3, <1>4, ChangeIsGood
<1>6. [b EXCEPT !.readLoc = loc, !.readError = rerr, !.writeError = werr] = r
  BY DEF Good, Buffer
<1> QED
  BY <1>5, <1>6

\* A segment that finds room.
LEMMA PrependedIsGood ==
  ASSUME Good(b), NEW s \in Seq(Byte), Len(s) <= b.dataStart
  PROVE  Good(Prepended(s))
<1> DEFINE start == b.dataStart - Len(s)
           mem == [p \in 1..b.size |-> IF start < p /\ p <= b.dataStart
                                         THEN s[p - b.dataStart + Len(s)] ELSE b.mem[p]]
<1>1. /\ b.dataStart \in 0..b.size /\ b.readLoc \in 0..b.size /\ b.size \in Nat
      /\ b.mem \in [1..b.size -> Cell] /\ b.readError \in BOOLEAN /\ b.writeError \in BOOLEAN
  BY GoodNumbers
<1>2. start \in 0..b.size /\ start <= b.dataStart /\ Len(s) \in Nat
  BY <1>1
<1>3. ASSUME NEW p \in 1..b.size, start < p, p <= b.dataStart
      PROVE  s[p - b.dataStart + Len(s)] \in Byte
  <2>1. p - b.dataStart + Len(s) \in 1..Len(s)
    BY <1>1, <1>2, <1>3
  <2> QED
    BY <2>1
<1>4. ASSUME NEW p \in 1..b.size, p > b.readLoc \/ p > start
      PROVE  mem[p] \in Byte
  <2>1. CASE start < p /\ p <= b.dataStart
    BY <2>1, <1>3
  <2>2. CASE ~(start < p /\ p <= b.dataStart)
    <3>1. p > b.readLoc \/ p > b.dataStart
      BY <2>2, <1>1, <1>2, <1>4
    <3> QED
      BY <2>2, <3>1, GoodBytes
  <2> QED
    BY <2>1, <2>2
<1>5. mem \in [1..b.size -> Cell]
  BY <1>1, <1>3 DEF Cell
<1>6. Prepended(s) = [b EXCEPT !.dataStart = start, !.mem = mem]
  BY DEF Prepended
<1> HIDE DEF start, mem
<1> DEFINE r == [b EXCEPT !.dataStart = start, !.dataEnd = b.size, !.readLoc = b.readLoc,
                          !.readError = b.readError, !.writeError = b.writeError, !.mem = mem]
<1>7. ~b.readError => start <= b.readLoc
  BY <1>1, <1>2, GoodBytes
<1>8. Good(r)
  BY <1>1, <1>2, <1>4, <1>5, <1>7, ChangeIsGood
<1>9. Prepended(s) = r
  BY <1>6 DEF Good, Buffer
<1> QED
  BY <1>8, <1>9

-----------------------------------------------------------------------------
(* Every call keeps the buffer good                                        *)

LEMMA EmptyIsBytes == << >> \in Seq(Byte)
OBVIOUS

LEMMA UnwrittenIsBlock == ASSUME NEW n \in 0..MaxSize PROVE Unwritten(n) \in [1..n -> Cell]
BY DEF Unwritten, Cell

\* SBufInit, SBufInstallData and the two resets.
LEMMA InstallKeeps ==
  ASSUME NEW n \in 0..MaxSize, NEW s \in [1..n -> Byte], InstallData(s)
  PROVE  Inv'
<1>1. s \in [1..n -> Cell] /\ \A p \in 1..n : s[p] \in Byte
  BY DEF Cell
<1>2. Good(InReadMode([Initialised(s) EXCEPT !.dataStart = 0]))
  BY <1>1, InitialisedIsGood
<1> QED
  BY <1>2, EmptyIsBytes DEF InstallData, Returns, Inv

LEMMA ModesKeep == ASSUME Inv, Modes PROVE Inv'
<1>1. ASSUME NEW n \in 0..MaxSize, InitBuffer(n) PROVE Inv'
  BY <1>1, UnwrittenIsBlock, InitialisedIsGood, EmptyIsBytes DEF InitBuffer, Unwritten, Returns, Inv
<1>2. ASSUME NEW s \in Blocks, \A p \in DOMAIN s : s[p] \in Byte, InstallData(s) PROVE Inv'
  <2>1. Len(s) \in 0..MaxSize /\ s \in [1..Len(s) -> Byte]
    BY <1>2, BlockHasSize
  <2> QED
    BY <1>2, <2>1, InstallKeeps
<1>3. CASE ResetInReadMode
  BY <1>3, ReadModeIsGood, EmptyIsBytes DEF ResetInReadMode, Returns, Inv
<1>4. CASE ResetInWriteRvsMode
  BY <1>4, WriteModeIsGood, EmptyIsBytes DEF ResetInWriteRvsMode, Returns, Inv
<1>5. ASSUME NEW value \in BOOLEAN, SetWriteError(value) PROVE Inv'
  <2>1. b.readLoc \in b.readLoc..b.size /\ b.readError \in BOOLEAN
    BY GoodNumbers DEF Inv
  <2>2. Good([b EXCEPT !.readLoc = b.readLoc, !.readError = b.readError, !.writeError = value])
    BY <2>1, MovedIsGood DEF Inv
  <2>3. b' = [b EXCEPT !.readLoc = b.readLoc, !.readError = b.readError, !.writeError = value]
    BY <1>5 DEF SetWriteError, Inv, Good, Buffer
  <2> QED
    BY <1>5, <2>2, <2>3, EmptyIsBytes DEF SetWriteError, Returns, Inv
<1> QED
  BY <1>1, <1>2, <1>3, <1>4, <1>5 DEF Modes

\* A write finds room, or sets the flag.
LEMMA PutSegKeeps ==
  ASSUME Inv, NEW s \in Seq(Byte), PutSegRvs(s)
  PROVE  Inv'
<1>1. b.dataStart \in Nat /\ Len(s) \in Nat /\ b.readLoc \in b.readLoc..b.size /\ b.readError \in BOOLEAN
  BY GoodNumbers DEF Inv
<1>2. CASE b.dataStart < Len(s) /\ b' = [b EXCEPT !.writeError = TRUE]
  <2>1. Good([b EXCEPT !.readLoc = b.readLoc, !.readError = b.readError, !.writeError = TRUE])
    BY <1>1, MovedIsGood DEF Inv
  <2>2. b' = [b EXCEPT !.readLoc = b.readLoc, !.readError = b.readError, !.writeError = TRUE]
    BY <1>2 DEF Inv, Good, Buffer
  <2>3. Good(b')
    BY <2>1, <2>2
  <2> QED
    BY <2>3, EmptyIsBytes DEF PutSegRvs, Returns, Inv
<1>3. CASE b.dataStart >= Len(s) /\ b' = Prepended(s)
  BY <1>1, <1>3, PrependedIsGood, EmptyIsBytes DEF PutSegRvs, Returns, Inv
<1> QED
  BY <1>2, <1>3 DEF PutSegRvs

LEMMA PutByteIsPutSeg ==
  ASSUME Inv, NEW x \in Byte, PutByteRvs(x)
  PROVE  PutSegRvs(<<x>>) /\ <<x>> \in Seq(Byte)
<1>1. Len(<<x>>) = 1 /\ <<x>> \in Seq(Byte) /\ b.dataStart \in Nat
  BY GoodNumbers DEF Inv
<1>2. CASE b.dataStart = 0 /\ b' = [b EXCEPT !.writeError = TRUE]
  BY <1>1, <1>2 DEF PutByteRvs, PutSegRvs
<1>3. CASE b.dataStart > 0 /\ b' = Prepended(<<x>>)
  BY <1>1, <1>3 DEF PutByteRvs, PutSegRvs
<1> QED
  BY <1>1, <1>2, <1>3 DEF PutByteRvs

\* What a read of n octets hands out, and where it leaves the buffer.
LEMMA ReadFacts ==
  ASSUME Inv, NEW n \in Nat
  PROVE  /\ BytesAt(b.readLoc, AtMost(n, Left)) \in Seq(Byte)
         /\ Good(Advance(n))
         /\ Good([b EXCEPT !.readLoc = b.readLoc + AtMost(n, Left)])
         /\ Good([b EXCEPT !.readError = @ \/ n > Left])
         /\ Good([b EXCEPT !.readError = TRUE])
<1> DEFINE loc == b.readLoc + AtMost(n, Left)
           short == b.readError \/ n > Left
<1>1. /\ AtMost(n, Left) \in Nat /\ loc \in 0..b.size /\ loc >= b.readLoc
      /\ b.readLoc \in Nat /\ b.size \in Nat /\ Left \in Nat
      /\ b.readError \in BOOLEAN /\ b.writeError \in BOOLEAN
  <2>1. /\ b.readLoc \in Nat /\ b.size \in Nat
        /\ b.readError \in BOOLEAN /\ b.writeError \in BOOLEAN
    BY GoodNumbers DEF Inv
  <2>2. AtMost(n, Left) \in 0..n /\ loc \in 0..b.size /\ Left \in Nat
    BY LeftInBlock DEF Inv
  <2> HIDE DEF loc
  <2>3. loc = b.readLoc + AtMost(n, Left)
    BY DEF loc
  <2> QED
    BY <2>1, <2>2, <2>3
<1>2. BytesAt(b.readLoc, AtMost(n, Left)) \in Seq(Byte)
  BY <1>1, ReadsAreWritten DEF Inv
<1>3. /\ loc \in b.readLoc..b.size /\ b.readLoc \in b.readLoc..b.size
      /\ short \in BOOLEAN /\ (b.readError => short)
  BY <1>1, GoodNumbers DEF Inv
<1> HIDE DEF loc, short
<1>4. /\ Good([b EXCEPT !.readLoc = loc, !.readError = short, !.writeError = b.writeError])
      /\ Good([b EXCEPT !.readLoc = loc, !.readError = b.readError, !.writeError = b.writeError])
      /\ Good([b EXCEPT !.readLoc = b.readLoc, !.readError = short, !.writeError = b.writeError])
      /\ Good([b EXCEPT !.readLoc = b.readLoc, !.readError = TRUE, !.writeError = b.writeError])
  BY <1>1, <1>3, MovedIsGood DEF Inv
<1>5. /\ [b EXCEPT !.readLoc = loc, !.readError = short, !.writeError = b.writeError]
           = [b EXCEPT !.readLoc = loc, !.readError = short]
      /\ [b EXCEPT !.readLoc = loc, !.readError = b.readError, !.writeError = b.writeError]
           = [b EXCEPT !.readLoc = loc]
      /\ [b EXCEPT !.readLoc = b.readLoc, !.readError = short, !.writeError = b.writeError]
           = [b EXCEPT !.readError = short]
      /\ [b EXCEPT !.readLoc = b.readLoc, !.readError = TRUE, !.writeError = b.writeError]
           = [b EXCEPT !.readError = TRUE]
  BY DEF Inv, Good, Buffer
<1>6. Good([b EXCEPT !.readLoc = loc, !.readError = short]) /\ Good([b EXCEPT !.readLoc = loc])
      /\ Good([b EXCEPT !.readError = short]) /\ Good([b EXCEPT !.readError = TRUE])
  BY <1>4, <1>5
<1>7. /\ Advance(n) = [b EXCEPT !.readLoc = loc, !.readError = short]
      /\ [b EXCEPT !.readError = @ \/ n > Left] = [b EXCEPT !.readError = short]
  BY DEF Advance, loc, short
<1> QED
  BY <1>2, <1>6, <1>7 DEF loc

LEMMA ReadKeeps ==
  ASSUME Inv, NEW n \in Nat, Copy(n) \/ Skip(n) \/ PeekCopy(n) \/ GetSeg(n) \/ PeekSeg(n)
  PROVE  Inv'
<1>1. CASE Copy(n)
  BY <1>1, ReadFacts DEF Copy, Returns, Inv
<1>2. CASE Skip(n)
  BY <1>2, ReadFacts, EmptyIsBytes DEF Skip, Returns, Inv
<1>3. CASE PeekCopy(n)
  BY <1>3, ReadFacts DEF PeekCopy, Returns, Inv
<1>4. CASE GetSeg(n)
  BY <1>4, ReadFacts DEF GetSeg, Returns, Inv
<1>5. CASE PeekSeg(n)
  BY <1>5, ReadFacts DEF PeekSeg, Returns, Inv
<1> QED
  BY <1>1, <1>2, <1>3, <1>4, <1>5

LEMMA ByteKeeps == ASSUME Inv, GetByte \/ PeekByte PROVE Inv'
<1>1. Good([b EXCEPT !.readError = TRUE])
  BY ReadFacts
<1>2. CASE GetByte
  <2>1. CASE Eod /\ b' = [b EXCEPT !.readError = TRUE] /\ Returns(<<>>)
    BY <1>1, <2>1, EmptyIsBytes DEF Returns, Inv
  <2>2. CASE Copy(1)
    BY <2>2, ReadKeeps
  <2> QED
    BY <1>2, <2>1, <2>2 DEF GetByte
<1>3. CASE PeekByte
  <2>1. CASE Eod /\ b' = [b EXCEPT !.readError = TRUE] /\ \E x \in Byte : Returns(<<x>>)
    BY <1>1, <2>1 DEF Returns, Inv
  <2>2. CASE ~Eod /\ b' = b /\ Returns(BytesAt(b.readLoc, 1))
    <3>1. Left \in Nat /\ Left # 0
      BY <2>2, LeftInBlock DEF Inv
    <3>2. AtMost(1, Left) = 1
      BY <3>1 DEF AtMost
    <3>3. BytesAt(b.readLoc, 1) \in Seq(Byte)
      BY <3>2, ReadFacts
    <3> QED
      BY <2>2, <3>3 DEF Returns, Inv
  <2> QED
    BY <1>3, <2>1, <2>2 DEF PeekByte
<1> QED
  BY <1>2, <1>3

\* Any call, in any mode.
LEMMA NextKeeps == ASSUME Inv, Next PROVE Inv'
<1>1. CASE Modes
  BY <1>1, ModesKeep
<1>2. CASE Writes
  <2>1. ASSUME NEW s \in Segs, PutSegRvs(s) PROVE Inv'
    BY <2>1, SegHasLength, PutSegKeeps
  <2>2. ASSUME NEW x \in Byte, PutByteRvs(x) PROVE Inv'
    BY <2>2, PutByteIsPutSeg, PutSegKeeps
  <2> QED
    BY <1>2, <2>1, <2>2 DEF Writes
<1>3. CASE Reads
  <2>1. \A n \in 0..MaxLen : n \in Nat
    BY SBufBoundsAssumption
  <2> QED
    BY <1>3, <2>1, ReadKeeps, ByteKeeps DEF Reads
<1> QED
  BY <1>1, <1>2, <1>3 DEF Next

-----------------------------------------------------------------------------
(* A caller that keeps to the modes                                        *)

\* The request in progress is one that the mode allows.
ReqOK ==
  \/ req = NoReq
  \/ mode = "write" /\ req \in [op : {"PutSegRvs"}, seg : Segs, len : {0}]
  \/ Reading /\ req \in [op : ReadOps, seg : {<< >>}, len : 0..MaxLen]

SInv == Inv /\ mode \in {"off", "write", "read", "installed"} /\ ReqOK

LEMMA NewBlockIsGood ==
  ASSUME NEW n \in 0..MaxSize PROVE Good(InWriteRvsMode(Initialised(Unwritten(n))))
BY UnwrittenIsBlock, InitialisedIsGood, WriteModeIsGood

LEMMA SInitHolds == SInit => SInv
BY NewBlockIsGood, EmptyIsBytes DEF SInit, SInv, Inv, ReqOK

LEMMA StartWritingKeeps == ASSUME Inv, StartWriting PROVE Inv'
<1>1. CASE \E n \in 0..MaxSize : b' = InWriteRvsMode(Initialised(Unwritten(n)))
  BY <1>1, NewBlockIsGood, EmptyIsBytes DEF StartWriting, Returns, Inv
<1>2. CASE b' = InWriteRvsMode(b)
  BY <1>2, WriteModeIsGood, EmptyIsBytes DEF StartWriting, Returns, Inv
<1> QED
  BY <1>1, <1>2 DEF StartWriting

LEMMA WorkKeeps == ASSUME Inv, Work PROVE Inv'
<1>1. ASSUME SetWriteError(TRUE) PROVE Inv'
  BY <1>1, ModesKeep DEF Modes
<1> QED
  BY <1>1, ByteKeeps DEF Work

LEMMA RequestFacts ==
  ASSUME SInv
  PROVE  /\ req.op = "PutSegRvs" => mode = "write" /\ req.seg \in Segs /\ req.seg \in Seq(Byte)
         /\ req.op \in ReadOps => Reading /\ req.len \in 0..MaxLen /\ req.len \in Nat
BY SegHasLength, SBufBoundsAssumption DEF SInv, ReqOK, NoReq, ReadOps

LEMMA ExecuteKeeps == ASSUME SInv, Execute PROVE Inv'
<1>1. CASE req.op = "PutSegRvs" /\ PutSegRvs(req.seg)
  BY <1>1, RequestFacts, PutSegKeeps DEF SInv
<1>2. CASE req.op = "PutSegRvs" /\ Len(req.seg) = 1 /\ PutByteRvs(req.seg[1])
  <2>1. req.seg[1] \in Byte
    BY <1>2, RequestFacts
  <2> QED
    BY <1>2, <2>1, PutByteIsPutSeg, PutSegKeeps DEF SInv
<1>3. CASE \/ req.op = "Copy" /\ Copy(req.len)
           \/ req.op = "Skip" /\ Skip(req.len)
           \/ req.op = "PeekCopy" /\ PeekCopy(req.len)
           \/ req.op = "GetSeg" /\ GetSeg(req.len)
           \/ req.op = "PeekSeg" /\ PeekSeg(req.len)
  <2>1. req.len \in Nat
    BY <1>3, RequestFacts DEF ReadOps
  <2> QED
    BY <1>3, <2>1, ReadKeeps DEF SInv
<1> QED
  BY <1>1, <1>2, <1>3 DEF Execute

LEMMA SNextKeeps == ASSUME SInv, [SNext]_svars PROVE SInv'
<1>1. CASE req = NoReq /\ UNCHANGED req
            /\ (StartWriting \/ StartReading \/ InstallAndRead \/ LeaveModes)
  <2>1. ReqOK'
    BY <1>1 DEF ReqOK, NoReq
  <2>2. mode' \in {"off", "write", "read", "installed"}
    BY <1>1 DEF StartWriting, StartReading, InstallAndRead, LeaveModes
  <2>3. Inv'
    <3>1. ASSUME StartReading PROVE Inv'
      BY <3>1, ModesKeep DEF StartReading, Modes, SInv
    <3>2. ASSUME InstallAndRead PROVE Inv'
      BY <3>2, InstallKeeps DEF InstallAndRead
    <3> QED
      BY <1>1, <3>1, <3>2, StartWritingKeeps, NextKeeps DEF LeaveModes, SInv
  <2> QED
    BY <2>1, <2>2, <2>3 DEF SInv
<1>2. CASE req = NoReq /\ Work /\ UNCHANGED <<mode, req>>
  BY <1>2, WorkKeeps DEF SInv, ReqOK, NoReq, Reading
<1>3. CASE Call
  <2>1. Inv' /\ mode' = mode
    BY <1>3, EmptyIsBytes DEF Call, Returns, SInv, Inv
  <2>2. ReqOK'
    <3>1. CASE mode = "write" /\ \E s \in Segs : req' = [NoReq EXCEPT !.op = "PutSegRvs", !.seg = s]
      BY <2>1, <3>1 DEF ReqOK, NoReq
    <3>2. CASE Reading /\ \E op \in ReadOps : \E n \in 0..MaxLen :
                 req' = [NoReq EXCEPT !.op = op, !.len = n]
      BY <2>1, <3>2 DEF ReqOK, NoReq, Reading
    <3> QED
      BY <1>3, <3>1, <3>2 DEF Call, ReadOps
  <2> QED
    BY <2>1, <2>2 DEF SInv
<1>4. CASE Execute
  BY <1>4, ExecuteKeeps DEF Execute, SInv, ReqOK
<1>5. CASE UNCHANGED svars
  BY <1>5 DEF svars, SInv, Inv, ReqOK, Reading
<1> QED
  BY <1>1, <1>2, <1>3, <1>4, <1>5 DEF SNext

LEMMA SInvHolds == SSpec => []SInv
<1>1. SInv /\ [SNext]_svars => SInv'
  BY SNextKeeps
<1> QED
  BY <1>1, SInitHolds, PTL DEF SSpec

\* The block and the flags keep their types, whatever the caller does.
THEOREM SBufTypeCorrect == SSpec => []TypeOK
<1>1. SInv => TypeOK
  BY GoodNumbers, BlockOfSize DEF SInv, Inv, TypeOK, Good, Cell
<1> QED
  BY <1>1, SInvHolds, PTL

(* Calls in any order, in the right mode or not, keep the pointers where   *)
(* the memcpy calls of sbuf.c:275-411 need them, for blocks of any size.   *)
THEOREM PointersStayInBlock == SSpec => []PointersOK
<1>1. SInv => PointersOK
  BY DEF SInv, Inv, PointersOK, Good
<1> QED
  BY <1>1, SInvHolds, PTL

(* No routine of sbuf.c hands out an octet that the caller's block came    *)
(* with: what lies before the pointers a reset leaves is never read.       *)
THEOREM NothingUnwrittenIsRead == SSpec => []OnlyWrittenBytesAreRead
<1>1. SInv => OnlyWrittenBytesAreRead
  BY DEF SInv, Inv, OnlyWrittenBytesAreRead, Good
<1> QED
  BY <1>1, SInvHolds, PTL

-----------------------------------------------------------------------------
(* The stream that the caller sees                                         *)

\* m2 is m with s written over what follows the cell "start".
PutAfter(start, s, m, m2) ==
  /\ start + Len(s) <= Len(m) /\ Len(m2) = Len(m)
  /\ \A p \in 1..Len(m) :
       m2[p] = IF start < p /\ p <= start + Len(s) THEN s[p - start] ELSE m[p]

From(m, p) == Cells(m, p, Len(m) - p)

\* What follows "start" is then the segment and what followed its place.
LEMMA PrependedCells ==
  ASSUME NEW m \in Seq(Cell), NEW m2 \in Seq(Cell), NEW s \in Seq(Byte), NEW start \in Nat,
         PutAfter(start, s, m, m2)
  PROVE  From(m2, start) = s \o From(m, start + Len(s))
<1> DEFINE len  == Len(s)
           old  == start + len
           n    == Len(m) - old
           rest == Cells(m, old, n)
           all  == Cells(m2, start, len + n)
<1>0. /\ len \in Nat /\ len = Len(s) /\ old = start + len /\ old \in Nat
      /\ n \in Nat /\ Len(m) = old + n /\ Len(m2) = old + n
  BY DEF PutAfter
<1> HIDE DEF len, old, n
<1>1. rest \in Seq(Cell) /\ Len(rest) = n /\ rest = [j \in 1..n |-> m[old + j]]
  <2>1. old + n <= Len(m) /\ old \in Nat /\ n \in Nat
    BY <1>0
  <2> QED
    BY <2>1, CellsByPlace
<1>2. all = [j \in 1..(len + n) |-> m2[start + j]]
  <2>1. len + n \in Nat /\ start + (len + n) <= Len(m2)
    BY <1>0
  <2> QED
    BY <2>1, CellsByPlace
<1> HIDE DEF rest, all
<1>3. ASSUME NEW j \in 1..(len + n) PROVE m2[start + j] = (s \o rest)[j]
  <2>1. start + j \in 1..(old + n)
    BY <1>0
  <2>2. CASE j <= len
    <3>1. start < start + j /\ start + j <= old /\ start + j - start = j
      BY <1>0, <2>2
    <3>2. m2[start + j] = s[start + j - start]
      BY <1>0, <2>1, <3>1 DEF PutAfter
    <3>3. (s \o rest)[j] = s[j]
      BY <1>1, <1>0, <2>2
    <3> QED
      BY <3>1, <3>2, <3>3
  <2>3. CASE j > len
    <3>1. ~(start + j <= old) /\ j - len \in 1..n /\ old + (j - len) = start + j
      BY <1>0, <2>3
    <3>2. m2[start + j] = m[start + j]
      BY <1>0, <2>1, <3>1 DEF PutAfter
    <3>3. (s \o rest)[j] = rest[j - len]
      BY <1>1, <1>0, <2>3
    <3>4. rest[j - len] = m[start + j]
      BY <1>1, <3>1
    <3> QED
      BY <3>2, <3>3, <3>4
  <2>4. j <= len \/ j > len
    BY <1>0
  <2> QED
    BY <2>2, <2>3, <2>4
<1>4. s \o rest = [j \in 1..(len + n) |-> (s \o rest)[j]]
  BY <1>1, <1>0
<1>6. all = s \o rest
  BY <1>2, <1>3, <1>4
<1>7. From(m2, start) = all
  <2>1. Len(m2) - start = len + n
    BY <1>0
  <2> QED
    BY <2>1 DEF From, all
<1>8. From(m, start + Len(s)) = rest
  <2>1. start + Len(s) = old /\ Len(m) - old = n
    BY <1>0
  <2> QED
    BY <2>1 DEF From, rest
<1> QED
  BY <1>6, <1>7, <1>8

\* What the octets are once a segment is written before them.
LEMMA PrependedData ==
  ASSUME Good(b), NEW s \in Seq(Byte), Len(s) <= b.dataStart, b' = Prepended(s)
  PROVE  Data' = s \o Data
<1> DEFINE start == b.dataStart - Len(s)
           m2 == [p \in 1..b.size |-> IF b.dataStart - Len(s) < p /\ p <= b.dataStart
                                        THEN s[p - b.dataStart + Len(s)] ELSE b.mem[p]]
<1>1. /\ b.mem \in Seq(Cell) /\ Len(b.mem) = b.size /\ b.size \in Nat /\ b.dataEnd = b.size
      /\ b.dataStart \in Nat /\ b.dataStart <= b.size
  BY BlockIsSeq, GoodNumbers
<1>2. start \in Nat /\ start + Len(s) = b.dataStart
  BY <1>1
<1>3. b'.dataStart = start /\ b'.dataEnd = b.dataEnd /\ b'.size = b.size /\ b'.mem = m2
  BY DEF Prepended, Good, Buffer
<1>4. b'.mem \in Seq(Cell) /\ Len(b'.mem) = b.size
  <2>1. Good(b')
    BY PrependedIsGood
  <2> QED
    BY <1>3, <2>1, BlockIsSeq
<1>5. Data = From(b.mem, b.dataStart)
  BY <1>1 DEF Data, BytesAt, Cells, From
<1>6. Data' = From(b'.mem, start)
  BY <1>1, <1>3, <1>4 DEF Data, BytesAt, Cells, From
<1>7. PutAfter(start, s, b.mem, b'.mem)
  <2>1. ASSUME NEW p \in 1..b.size
        PROVE  m2[p] = IF start < p /\ p <= start + Len(s) THEN s[p - start] ELSE b.mem[p]
    <3>1. p - b.dataStart + Len(s) = p - start
      BY <1>1, <1>2
    <3> QED
      BY <1>2, <3>1
  <2> HIDE DEF m2, start
  <2>2. start + Len(s) <= Len(b.mem) /\ Len(b'.mem) = Len(b.mem)
    BY <1>1, <1>2, <1>4
  <2> QED
    BY <1>1, <1>3, <2>1, <2>2 DEF PutAfter
<1> HIDE DEF start, m2
<1>8. From(b'.mem, start) = s \o From(b.mem, start + Len(s))
  BY <1>1, <1>2, <1>4, <1>7, PrependedCells
<1> QED
  BY <1>2, <1>5, <1>6, <1>8

\* n cells of what follows a place, and those that follow them.
SplitsAt(m, p, n, rest) ==
  LET all == Cells(m, p, n + rest)
  IN  /\ Len(all) = n + rest
      /\ Cells(m, p, n) = SubSeq(all, 1, n)
      /\ Cells(m, p + n, rest) = SubSeq(all, n + 1, Len(all))

LEMMA CellsSplit ==
  ASSUME NEW m \in Seq(Cell), NEW p \in Nat, NEW n \in Nat, NEW rest \in Nat,
         p + (n + rest) = Len(m)
  PROVE  SplitsAt(m, p, n, rest)
<1> DEFINE all == Cells(m, p, n + rest)
<1>1. all \in Seq(Cell) /\ Len(all) = n + rest /\ all = [j \in 1..(n + rest) |-> m[p + j]]
  <2>1. n + rest \in Nat /\ p + (n + rest) <= Len(m)
    OBVIOUS
  <2> QED
    BY <2>1, CellsByPlace
<1>2. Cells(m, p, n) = [j \in 1..n |-> m[p + j]]
  <2>1. p + n <= Len(m)
    OBVIOUS
  <2> QED
    BY <2>1, CellsByPlace
<1>3. Cells(m, p + n, rest) = [j \in 1..rest |-> m[(p + n) + j]]
  <2>1. p + n \in Nat /\ (p + n) + rest <= Len(m)
    OBVIOUS
  <2> QED
    BY <2>1, CellsByPlace
<1> HIDE DEF all
<1>4. SubSeq(all, 1, n) = [j \in 1..n |-> all[j]] /\ \A j \in 1..n : all[j] = m[p + j]
  BY <1>1
<1>5. SubSeq(all, n + 1, n + rest) = [j \in 1..rest |-> all[n + j]]
  BY <1>1
<1>6. ASSUME NEW j \in 1..rest PROVE all[n + j] = m[(p + n) + j]
  <2>1. n + j \in 1..(n + rest) /\ p + (n + j) = (p + n) + j
    OBVIOUS
  <2> QED
    BY <1>1, <2>1
<1>7. Cells(m, p, n) = SubSeq(all, 1, n)
  BY <1>2, <1>4
<1>8. Cells(m, p + n, rest) = SubSeq(all, n + 1, Len(all))
  BY <1>1, <1>3, <1>5, <1>6
<1> QED
  BY <1>1, <1>7, <1>8 DEF all, SplitsAt

\* The octets not yet read, and what reading n of them leaves.
LEMMA UnreadFacts ==
  ASSUME Good(b), NEW n \in 0..Left
  PROVE  /\ Unread \in Seq(Byte) /\ Len(Unread) = Left
         /\ BytesAt(b.readLoc, n) = SubSeq(Unread, 1, n)
         /\ b'.mem = b.mem /\ b'.dataEnd = b.dataEnd /\ b'.readLoc = b.readLoc + n
              => Unread' = SubSeq(Unread, n + 1, Len(Unread))
<1> DEFINE loc == b.readLoc
           rest == Left - n
<1>1. /\ Left \in Nat /\ loc \in Nat /\ b.size \in Nat /\ b.dataEnd = b.size
      /\ b.mem \in Seq(Cell) /\ Len(b.mem) = b.size /\ loc + Left = b.size
  <2>1. b.mem \in Seq(Cell) /\ Len(b.mem) = b.size
    BY BlockIsSeq
  <2>2. b.readLoc \in Nat /\ b.readLoc <= b.size /\ b.size \in Nat /\ b.dataEnd = b.size
    BY GoodNumbers
  <2> QED
    BY <2>1, <2>2 DEF Left
<1>2. n \in Nat /\ rest \in Nat /\ Left = n + rest
  BY <1>1
<1>3. b.readLoc = loc
  OBVIOUS
<1> HIDE DEF loc, rest
<1>4. Unread = Cells(b.mem, loc, n + rest)
  BY <1>2, <1>3 DEF Unread, BytesAt, Cells
<1>5. BytesAt(b.readLoc, n) = Cells(b.mem, loc, n)
  BY <1>3 DEF BytesAt, Cells
<1>6. Unread \in Seq(Byte)
  <2>1. loc >= b.readLoc /\ loc + Left <= b.size
    BY <1>1, <1>3
  <2> QED
    BY <1>1, <1>3, <2>1, ReadsAreWritten DEF Unread
<1>7. ASSUME b'.mem = b.mem, b'.dataEnd = b.dataEnd, b'.readLoc = b.readLoc + n
      PROVE  Unread' = Cells(b.mem, loc + n, rest)
  <2>1. b'.dataEnd - b'.readLoc = rest
    BY <1>1, <1>2, <1>3, <1>7
  <2> QED
    BY <1>3, <1>7, <2>1 DEF Unread, BytesAt, Left, Cells
<1>8. SplitsAt(b.mem, loc, n, rest)
  <2>1. loc + (n + rest) = Len(b.mem)
    BY <1>1, <1>2
  <2> QED
    BY <1>1, <1>2, <2>1, CellsSplit
<1> QED
  BY <1>2, <1>4, <1>5, <1>6, <1>7, <1>8 DEF SplitsAt

-----------------------------------------------------------------------------
(* The stream, mode by mode                                                *)

WriteView == /\ StreamMode = "write" /\ StreamData = Data /\ StreamFault = b.writeError
             /\ StreamError = FALSE /\ StreamRet = ret
ReadView  == /\ StreamMode = mode /\ StreamData = Unread /\ StreamFault = FALSE
             /\ StreamError = b.readError /\ StreamRet = ret
OffView   == /\ StreamMode = "write" /\ StreamData = << >> /\ StreamFault = FALSE
             /\ StreamError = FALSE /\ StreamRet = << >>

LEMMA Views ==
  ASSUME Good(b)
  PROVE  /\ mode = "write" => WriteView
         /\ Reading => ReadView
         /\ mode = "off" => OffView
<1>1. b.writeError \in BOOLEAN /\ b.readError \in BOOLEAN
  BY GoodNumbers
<1>2. mode = "write" => WriteView
  BY <1>1 DEF WriteView, StreamMode, StreamData, StreamFault, StreamError, StreamRet, Reading
<1>3. Reading => ReadView
  BY <1>1 DEF ReadView, StreamMode, StreamData, StreamFault, StreamError, StreamRet, Reading
<1>4. mode = "off" => OffView
  BY DEF OffView, StreamMode, StreamData, StreamFault, StreamError, StreamRet, Reading
<1> QED
  BY <1>2, <1>3, <1>4

LEMMA ViewsAfter ==
  ASSUME Good(b')
  PROVE  /\ mode' = "write" => WriteView'
         /\ Reading' => ReadView'
         /\ mode' = "off" => OffView'
<1>1. b'.writeError \in BOOLEAN /\ b'.readError \in BOOLEAN
  BY GoodNumbers
<1>2. mode' = "write" => WriteView'
  BY <1>1 DEF WriteView, StreamMode, StreamData, StreamFault, StreamError, StreamRet, Reading
<1>3. Reading' => ReadView'
  BY <1>1 DEF ReadView, StreamMode, StreamData, StreamFault, StreamError, StreamRet, Reading
<1>4. mode' = "off" => OffView'
  BY DEF OffView, StreamMode, StreamData, StreamFault, StreamError, StreamRet, Reading
<1> QED
  BY <1>2, <1>3, <1>4

-----------------------------------------------------------------------------
(* Every call is a step of the stream                                      *)

\* A block reset for writing holds no data.
LEMMA ResetFields ==
  ASSUME NEW k, Good(k)
  PROVE  LET r == InWriteRvsMode(k)
         IN  /\ r.writeError = FALSE /\ r.dataEnd - r.dataStart = 0 /\ r.dataStart \in Nat
             /\ SubSeq(r.mem, r.dataStart + 1, r.dataStart + 0) = << >>
<1> DEFINE r == InWriteRvsMode(k)
<1>1. r.writeError = FALSE /\ r.dataEnd = k.size /\ r.dataStart = k.size /\ r.mem = k.mem
  BY DEF InWriteRvsMode, Good, Buffer
<1>2. k.mem \in Seq(Cell) /\ k.size \in Nat
  BY BlockIsSeq, GoodNumbers
<1> HIDE DEF r
<1>3. SubSeq(k.mem, k.size + 1, k.size + 0) = << >>
  BY <1>2
<1>4. r.dataEnd - r.dataStart = 0 /\ r.dataStart \in Nat
  BY <1>1, <1>2
<1> QED
  BY <1>1, <1>3, <1>4 DEF r

LEMMA InitMaps == SInit => Stream!Init
<1> SUFFICES ASSUME SInit PROVE Stream!Init
  OBVIOUS
<1>1. SInv
  BY SInitHolds
<1>2. PICK n \in 0..MaxSize : b = InWriteRvsMode(Initialised(Unwritten(n)))
  BY DEF SInit
<1>3. Good(Initialised(Unwritten(n)))
  BY UnwrittenIsBlock, InitialisedIsGood
<1>4. b.writeError = FALSE /\ Data = << >>
  BY <1>2, <1>3, ResetFields DEF Data, BytesAt
<1>5. WriteView
  BY <1>1, Views DEF SInit, SInv, Inv
<1> QED
  BY <1>4, <1>5 DEF WriteView, SInit, Stream!Init, NoReq, Stream!NoReq

LEMMA StartWritingMaps ==
  ASSUME SInv, SInv', req = NoReq, StartWriting, UNCHANGED req
  PROVE  Stream!StartWriting
<1>1. PICK k : Good(k) /\ b' = InWriteRvsMode(k)
  <2>1. \A n \in 0..MaxSize : Good(Initialised(Unwritten(n)))
    BY UnwrittenIsBlock, InitialisedIsGood
  <2> QED
    BY <2>1 DEF StartWriting, SInv, Inv
<1>2. b'.writeError = FALSE /\ Data' = << >>
  BY <1>1, ResetFields DEF Data, BytesAt
<1>3. WriteView'
  BY ViewsAfter DEF StartWriting, SInv, Inv
<1> QED
  BY <1>2, <1>3 DEF WriteView, StartWriting, Returns, Stream!StartWriting, NoReq, Stream!NoReq

\* A caller that leaves the modes is seen to start writing again.
LEMMA LeaveModesMaps ==
  ASSUME SInv, SInv', req = NoReq, LeaveModes, UNCHANGED req
  PROVE  Stream!StartWriting
<1>1. OffView'
  BY ViewsAfter DEF LeaveModes, SInv, Inv
<1> QED
  BY <1>1 DEF OffView, Stream!StartWriting, NoReq, Stream!NoReq

LEMMA StartReadingMaps ==
  ASSUME SInv, SInv', req = NoReq, StartReading, UNCHANGED req
  PROVE  Stream!StartReading
<1>1. WriteView /\ ReadView'
  BY Views, ViewsAfter DEF StartReading, SInv, Inv, Reading
<1>2. b' = InReadMode(b) /\ b \in Buffer
  BY DEF StartReading, ResetInReadMode, SInv, Inv, Good
<1>3. /\ b'.readLoc = b.dataStart /\ b'.dataEnd = b.dataEnd /\ b'.mem = b.mem
      /\ b'.readError = FALSE
  BY <1>2 DEF InReadMode, Buffer
<1>4. Unread' = Data
  BY <1>3 DEF Unread, Data, BytesAt, Left
<1> QED
  BY <1>1, <1>3, <1>4 DEF WriteView, ReadView, StartReading, ResetInReadMode, Returns,
                          Stream!StartReading, NoReq, Stream!NoReq

LEMMA InstallMaps ==
  ASSUME SInv, SInv', req = NoReq, InstallAndRead, UNCHANGED req
  PROVE  Stream!Install
<1>1. PICK n \in 0..MaxSize : \E s \in [1..n -> Byte] : InstallData(s)
  BY DEF InstallAndRead
<1>2. PICK s \in [1..n -> Byte] : InstallData(s)
  BY <1>1
<1>3. s \in Seq(Byte) /\ Len(s) = n /\ n \in Nat /\ mode' = "installed"
  BY SBufBoundsAssumption DEF InstallAndRead
<1>4. b'.readLoc = 0 /\ b'.dataEnd = n /\ b'.mem = s /\ b'.readError = FALSE
  BY <1>2, <1>3 DEF InstallData, Initialised, InReadMode
<1>5. Unread' = SubSeq(s, 1, n)
  BY <1>3, <1>4 DEF Unread, BytesAt, Left
<1>6. Unread' \in Seq(Byte)
  BY <1>3, <1>5
<1>7. ReadView'
  BY <1>3, ViewsAfter DEF SInv, Inv, Reading
<1> QED
  BY <1>2, <1>3, <1>4, <1>6, <1>7 DEF ReadView, InstallData, Returns,
                                     Stream!Install, NoReq, Stream!NoReq

\* What the reading routines change of the buffer.
LEMMA ReadFields ==
  ASSUME Good(b), NEW n \in Nat, NEW k,
         \/ k = Advance(n)
         \/ k = [b EXCEPT !.readLoc = b.readLoc + AtMost(n, Left)]
         \/ k = [b EXCEPT !.readError = @ \/ n > Left]
         \/ k = [b EXCEPT !.readError = TRUE]
  PROVE  /\ k.mem = b.mem /\ k.dataEnd = b.dataEnd
         /\ k = Advance(n) => /\ k.readLoc = b.readLoc + AtMost(n, Left)
                              /\ k.readError = (b.readError \/ n > Left)
         /\ k = [b EXCEPT !.readLoc = b.readLoc + AtMost(n, Left)]
              => k.readLoc = b.readLoc + AtMost(n, Left) /\ k.readError = b.readError
         /\ k = [b EXCEPT !.readError = @ \/ n > Left]
              => k.readLoc = b.readLoc /\ k.readError = (b.readError \/ n > Left)
         /\ k = [b EXCEPT !.readError = TRUE] => k.readLoc = b.readLoc /\ k.readError = TRUE
BY DEF Advance, Good, Buffer

\* n octets of the stream are read, or only looked at.
LEMMA ReadingMaps ==
  ASSUME SInv, SInv', Reading, mode' = mode, NEW n \in 0..Left,
         b'.mem = b.mem, b'.dataEnd = b.dataEnd
  PROVE  /\ ReadView /\ ReadView' /\ StreamMode # "write" /\ n <= Len(StreamData)
         /\ Len(StreamData) = Left
         /\ BytesAt(b.readLoc, n) = Stream!Front(n)
         /\ b'.readLoc = b.readLoc + n => StreamData' = Stream!Rest(n)
         /\ b'.readLoc = b.readLoc     => StreamData' = StreamData
<1>1. ReadView /\ ReadView'
  BY Views, ViewsAfter DEF SInv, Inv, Reading
<1>2. /\ Len(Unread) = Left /\ BytesAt(b.readLoc, n) = SubSeq(Unread, 1, n)
      /\ b'.readLoc = b.readLoc + n => Unread' = SubSeq(Unread, n + 1, Len(Unread))
  BY UnreadFacts DEF SInv, Inv
<1>3. b'.readLoc = b.readLoc => Unread' = Unread
  BY DEF Unread, BytesAt, Left
<1>4. n <= Left /\ Left \in Nat
  BY LeftIsNat DEF SInv, Inv
<1>5. StreamMode # "write"
  BY <1>1 DEF ReadView, Reading
<1> QED
  BY <1>1, <1>2, <1>3, <1>4, <1>5 DEF ReadView, Stream!Front, Stream!Rest

\* The reads of requests, as many octets as are left.
LEMMA ReadRequestMaps ==
  ASSUME SInv, SInv', NEW n \in Nat, n = req.len, Reading, mode' = mode, req' = NoReq,
         \/ req.op = "Copy" /\ Copy(n)
         \/ req.op = "Skip" /\ Skip(n)
         \/ req.op = "PeekCopy" /\ PeekCopy(n)
         \/ req.op = "GetSeg" /\ GetSeg(n)
         \/ req.op = "PeekSeg" /\ PeekSeg(n)
  PROVE  \/ Stream!CopyOut \/ Stream!SkipOver \/ Stream!PeekOut
         \/ Stream!TakeSeg \/ Stream!PeekSeg
<1> DEFINE m == AtMost(n, Left)
<1>1. /\ m \in 0..Left /\ (m < req.len <=> n > Left)
      /\ b.readError \in BOOLEAN /\ Good(b)
  BY LeftIsNat, GoodNumbers DEF SInv, Inv, AtMost
<1>2. b'.mem = b.mem /\ b'.dataEnd = b.dataEnd
  BY <1>1, ReadFields DEF Copy, Skip, PeekCopy, GetSeg, PeekSeg
<1>3. /\ ReadView /\ ReadView' /\ StreamMode # "write" /\ m <= Len(StreamData)
      /\ Len(StreamData) = Left
      /\ BytesAt(b.readLoc, m) = Stream!Front(m)
      /\ b'.readLoc = b.readLoc + m => StreamData' = Stream!Rest(m)
      /\ b'.readLoc = b.readLoc     => StreamData' = StreamData
  <2> HIDE DEF m
  <2> QED
    BY <1>1, <1>2, ReadingMaps
<1>4. /\ StreamMode' = StreamMode /\ StreamFault' = StreamFault /\ StreamRet' = ret'
      /\ StreamError = b.readError /\ StreamError' = b'.readError
  BY <1>3 DEF ReadView
<1>5. m \in Stream!Given(req.len)
  BY <1>3 DEF Stream!Given, AtMost
<1>6. CASE req.op = "Copy" /\ Copy(n)
  <2>1. /\ b'.readLoc = b.readLoc + m /\ b'.readError = (b.readError \/ n > Left)
        /\ ret' = BytesAt(b.readLoc, m)
    BY <1>1, <1>6, ReadFields DEF Copy, Returns
  <2> HIDE DEF m
  <2>2. Stream!Take(m) /\ StreamRet' = Stream!Front(m)
    BY <1>3, <1>4, <2>1 DEF Stream!Take, NoReq, Stream!NoReq
  <2>3. StreamError' = (StreamError \/ m < req.len) /\ (m < req.len => StreamError')
    BY <1>1, <1>4, <2>1
  <2> QED
    BY <1>5, <1>6, <2>2, <2>3 DEF Stream!CopyOut, Stream!Flags
<1>7. CASE req.op = "Skip" /\ Skip(n)
  <2>1. /\ b'.readLoc = b.readLoc + m /\ b'.readError = (b.readError \/ n > Left)
        /\ ret' = << >>
    BY <1>1, <1>7, ReadFields DEF Skip, Returns
  <2> HIDE DEF m
  <2>2. Stream!Take(m) /\ StreamRet' = << >>
    BY <1>3, <1>4, <2>1 DEF Stream!Take, NoReq, Stream!NoReq
  <2>3. StreamError' = (StreamError \/ m < req.len)
    BY <1>1, <1>4, <2>1
  <2> QED
    BY <1>5, <1>7, <2>2, <2>3 DEF Stream!SkipOver, Stream!Flags
<1>8. CASE req.op = "PeekCopy" /\ PeekCopy(n)
  <2>1. /\ b'.readLoc = b.readLoc /\ b'.readError = (b.readError \/ n > Left)
        /\ ret' = BytesAt(b.readLoc, m)
    BY <1>1, <1>8, ReadFields DEF PeekCopy, Returns
  <2> HIDE DEF m
  <2>2. StreamRet' = Stream!Front(m) /\ StreamData' = StreamData
    BY <1>3, <1>4, <2>1
  <2>3. StreamError' = (StreamError \/ m < req.len)
    BY <1>1, <1>4, <2>1
  <2> QED
    BY <1>4, <1>5, <1>8, <2>2, <2>3 DEF Stream!PeekOut, Stream!Flags, NoReq, Stream!NoReq
<1>9. CASE req.op = "GetSeg" /\ GetSeg(n)
  <2>1. /\ b'.readLoc = b.readLoc + m /\ b'.readError = b.readError
        /\ ret' = BytesAt(b.readLoc, m)
    BY <1>1, <1>9, ReadFields DEF GetSeg, Returns
  <2> HIDE DEF m
  <2>2. Stream!Take(m) /\ StreamRet' = Stream!Front(m) /\ StreamError' = (StreamError \/ FALSE)
    BY <1>1, <1>3, <1>4, <2>1 DEF Stream!Take, NoReq, Stream!NoReq
  <2>3. req.len \in Stream!Asked("GetSeg")
    BY <1>9 DEF Stream!Asked
  <2> QED
    BY <1>3, <1>5, <2>2, <2>3 DEF Stream!TakeSeg, Stream!Flags
<1>10. CASE req.op = "PeekSeg" /\ PeekSeg(n)
  <2>1. b' = b /\ ret' = BytesAt(b.readLoc, m)
    BY <1>10 DEF PeekSeg, Returns
  <2> HIDE DEF m
  <2>2. StreamData' = StreamData /\ StreamRet' = Stream!Front(m) /\ StreamError' = StreamError
    BY <1>3, <1>4, <2>1
  <2>3. req.len \in Stream!Asked("PeekSeg")
    BY <1>10 DEF Stream!Asked
  <2> QED
    BY <1>3, <1>4, <1>5, <2>2, <2>3 DEF Stream!PeekSeg, NoReq, Stream!NoReq
<1> QED
  BY <1>6, <1>7, <1>8, <1>9, <1>10

LEMMA StreamIsEmpty ==
  ASSUME SInv, Reading
  PROVE  (StreamData = << >> <=> Eod) /\ Left \in Nat /\ (Eod <=> Left = 0)
<1>1. ReadView /\ Left \in Nat /\ (Eod <=> Left = 0)
  BY Views, LeftIsNat DEF SInv, Inv
<1>2. Unread \in Seq(Byte) /\ Len(Unread) = Left
  <2>1. 0 \in 0..Left
    BY <1>1
  <2> QED
    BY <2>1, UnreadFacts DEF SInv, Inv
<1>3. Unread = << >> <=> Left = 0
  BY <1>2
<1> QED
  BY <1>1, <1>3 DEF ReadView

LEMMA ByteMaps ==
  ASSUME SInv, SInv', Reading, mode' = mode, req = NoReq, UNCHANGED req, GetByte \/ PeekByte
  PROVE  Stream!TakeByte \/ Stream!PeekByte
<1>1. Good(b) /\ Left \in Nat /\ (Eod <=> Left = 0) /\ (StreamData = << >> <=> Eod)
  BY StreamIsEmpty DEF SInv, Inv
<1>2. CASE Eod /\ b' = [b EXCEPT !.readError = TRUE]
  <2>1. /\ b'.mem = b.mem /\ b'.dataEnd = b.dataEnd /\ b'.readLoc = b.readLoc
        /\ b'.readError = TRUE /\ b'.readLoc = b.readLoc + 0 /\ 0 \in 0..Left
    <3>1. b.readLoc \in Nat
      BY <1>1, GoodNumbers
    <3> QED
      BY <1>1, <1>2, <3>1, ReadFields
  <2>2. /\ ReadView /\ ReadView' /\ StreamMode # "write" /\ 0 <= Len(StreamData)
        /\ StreamData' = Stream!Rest(0) /\ StreamData' = StreamData
    BY <2>1, ReadingMaps
  <2>3. StreamMode' = StreamMode /\ StreamFault' = StreamFault /\ StreamRet' = ret' /\ StreamError' = TRUE
    BY <2>1, <2>2 DEF ReadView
  <2>4. CASE ret' = << >>
    <3>1. Stream!Take(0)
      BY <2>2, <2>3 DEF Stream!Take, NoReq, Stream!NoReq
    <3> QED
      BY <1>1, <1>2, <2>2, <2>3, <2>4, <3>1 DEF Stream!TakeByte, NoReq, Stream!NoReq
  <2>5. CASE \E x \in Byte : ret' = <<x>>
    <3>1. Len(StreamRet') = 1
      BY <2>3, <2>5
    <3> QED
      BY <1>1, <1>2, <2>2, <2>3, <3>1 DEF Stream!PeekByte, NoReq, Stream!NoReq
  <2>6. ret' = << >> \/ \E x \in Byte : ret' = <<x>>
    BY <1>2 DEF GetByte, PeekByte, Returns
  <2> QED
    BY <2>4, <2>5, <2>6
<1>3. CASE ~Eod
  <2>1. 1 \in 0..Left /\ AtMost(1, Left) = 1 /\ ~(1 > Left)
    BY <1>1, <1>3 DEF AtMost
  <2>2. CASE Copy(1)
    <3>1. /\ b'.mem = b.mem /\ b'.dataEnd = b.dataEnd /\ b'.readLoc = b.readLoc + 1
          /\ b'.readError = (b.readError \/ 1 > Left) /\ ret' = BytesAt(b.readLoc, 1)
      <4>1. b' = Advance(1) /\ ret' = BytesAt(b.readLoc, AtMost(1, Left))
        BY <2>2 DEF Copy, Returns
      <4>2. b' = [b EXCEPT !.readLoc = b.readLoc + AtMost(1, Left), !.readError = b.readError \/ 1 > Left]
        BY <4>1 DEF Advance
      <4> QED
        BY <1>1, <2>1, <4>1, <4>2 DEF Good, Buffer
    <3>2. /\ ReadView /\ ReadView' /\ StreamMode # "write" /\ 1 <= Len(StreamData)
          /\ BytesAt(b.readLoc, 1) = Stream!Front(1) /\ StreamData' = Stream!Rest(1)
      BY <2>1, <3>1, ReadingMaps
    <3>3. /\ StreamMode' = StreamMode /\ StreamFault' = StreamFault /\ StreamRet' = ret'
          /\ StreamError = b.readError /\ StreamError' = b'.readError
      BY <3>2 DEF ReadView
    <3>4. Stream!Take(1)
      BY <3>2, <3>3 DEF Stream!Take, NoReq, Stream!NoReq
    <3>5. StreamError' = (StreamError \/ FALSE)
      BY <1>1, <2>1, <3>1, <3>3, GoodNumbers
    <3> QED
      BY <1>1, <1>3, <3>1, <3>2, <3>3, <3>4, <3>5
         DEF Stream!TakeByte, Stream!Flags, NoReq, Stream!NoReq
  <2>3. CASE b' = b /\ ret' = BytesAt(b.readLoc, 1)
    <3>1. /\ ReadView /\ ReadView' /\ StreamMode # "write"
          /\ BytesAt(b.readLoc, 1) = Stream!Front(1) /\ StreamData' = StreamData
      BY <2>1, <2>3, ReadingMaps
    <3>2. /\ StreamMode' = StreamMode /\ StreamFault' = StreamFault /\ StreamRet' = ret'
          /\ StreamError' = StreamError
      BY <2>3, <3>1 DEF ReadView
    <3> QED
      BY <1>1, <1>3, <2>3, <3>1, <3>2 DEF Stream!PeekByte, NoReq, Stream!NoReq
  <2> QED
    BY <1>3, <2>2, <2>3 DEF GetByte, PeekByte, Returns
<1> QED
  BY <1>2, <1>3 DEF GetByte, PeekByte

-----------------------------------------------------------------------------
(* Writes                                                                  *)

LEMMA PrependMaps ==
  ASSUME SInv, SInv', mode = "write", mode' = mode, req' = NoReq, NEW s \in Seq(Byte), PutSegRvs(s)
  PROVE  Stream!Prepend(s)
<1>1. WriteView /\ WriteView' /\ Good(b) /\ ret' = << >>
  BY Views, ViewsAfter DEF SInv, Inv, PutSegRvs, Returns
<1>2. b.writeError \in BOOLEAN /\ b.dataStart \in Nat /\ Len(s) \in Nat
  BY <1>1, GoodNumbers
<1>3. /\ StreamMode = "write" /\ StreamMode' = "write" /\ StreamRet' = << >>
      /\ StreamError' = StreamError /\ StreamFault = b.writeError /\ StreamFault' = b'.writeError
      /\ StreamData = Data /\ StreamData' = Data'
  BY <1>1 DEF WriteView
<1>4. CASE b.dataStart < Len(s) /\ b' = [b EXCEPT !.writeError = TRUE]
  <2>1. /\ b'.writeError = TRUE /\ b'.mem = b.mem /\ b'.dataStart = b.dataStart
        /\ b'.dataEnd = b.dataEnd
    BY <1>1, <1>4 DEF Good, Buffer
  <2>2. StreamData' = StreamData /\ StreamFault' = TRUE
    BY <1>3, <2>1 DEF Data, BytesAt
  <2>3. StreamData' \in Stream!Unfinished(s)
    BY <2>2 DEF Stream!Unfinished
  <2> QED
    BY <1>3, <2>2, <2>3 DEF Stream!Prepend, NoReq, Stream!NoReq
<1>5. CASE b.dataStart >= Len(s) /\ b' = Prepended(s)
  <2>1. StreamData' = s \o StreamData
    <3>1. Len(s) <= b.dataStart
      BY <1>2, <1>5
    <3> QED
      BY <1>1, <1>3, <1>5, <3>1, PrependedData
  <2>2. b'.writeError = b.writeError
    BY <1>1, <1>5 DEF Prepended, Good, Buffer
  <2> QED
    BY <1>2, <1>3, <2>1, <2>2 DEF Stream!Prepend, NoReq, Stream!NoReq
<1> QED
  BY <1>4, <1>5 DEF PutSegRvs

-----------------------------------------------------------------------------
(* The buffer implements the stream                                        *)

LEMMA WorkMaps ==
  ASSUME SInv, SInv', req = NoReq, Work, UNCHANGED <<mode, req>>
  PROVE  Stream!Next
<1>1. CASE mode = "write" /\ SetWriteError(TRUE)
  <2>1. b'.writeError = TRUE /\ b'.mem = b.mem /\ b'.dataStart = b.dataStart /\ b'.dataEnd = b.dataEnd
    BY <1>1 DEF SetWriteError, SInv, Inv, Good, Buffer
  <2>2. WriteView /\ WriteView' /\ Data' = Data /\ ret' = << >>
    BY <1>1, <2>1, Views, ViewsAfter DEF SInv, Inv, SetWriteError, Returns, Data, BytesAt
  <2>3. Stream!DeclareFault
    BY <2>1, <2>2 DEF WriteView, Stream!DeclareFault, NoReq, Stream!NoReq
  <2> QED
    BY <2>3 DEF Stream!Next
<1>2. CASE Reading /\ (GetByte \/ PeekByte)
  BY <1>2, ByteMaps DEF Stream!Next
<1> QED
  BY <1>1, <1>2 DEF Work

LEMMA CallMaps ==
  ASSUME SInv, SInv', Call
  PROVE  Stream!Request
<1>1. /\ req = Stream!NoReq /\ ret' = << >> /\ UNCHANGED <<b, mode>>
  BY DEF Call, Returns, NoReq, Stream!NoReq
<1>2. \/ mode = "write" /\ \E s \in Segs : req' = [op |-> "PutSegRvs", seg |-> s, len |-> 0]
      \/ Reading /\ \E op \in ReadOps : \E n \in 0..MaxLen :
                      req' = [op |-> op, seg |-> << >>, len |-> n]
  BY DEF Call, NoReq
<1>3. Stream!Segs = Segs /\ << >> \in Segs /\ 0 \in 0..MaxLen
  BY SBufBoundsAssumption DEF Stream!Segs, Segs
<1>4. req' \in Stream!Requests
  BY <1>2, <1>3 DEF Stream!Requests, ReadOps
<1>5. CASE mode = "write" /\ \E s \in Segs : req' = [op |-> "PutSegRvs", seg |-> s, len |-> 0]
  <2>1. WriteView /\ WriteView' /\ Data' = Data
    BY <1>1, <1>5, Views, ViewsAfter DEF SInv, Inv, Data, BytesAt
  <2>2. req'.op = "PutSegRvs"
    BY <1>5
  <2> QED
    BY <1>1, <1>4, <2>1, <2>2 DEF WriteView, Stream!Request
<1>6. CASE Reading /\ \E op \in ReadOps : \E n \in 0..MaxLen :
                        req' = [op |-> op, seg |-> << >>, len |-> n]
  <2>1. ReadView /\ ReadView' /\ Unread' = Unread /\ mode # "write"
    BY <1>1, <1>6, Views, ViewsAfter DEF SInv, Inv, Reading, Unread, BytesAt, Left
  <2>2. req'.op # "PutSegRvs"
    BY <1>6 DEF ReadOps
  <2> QED
    BY <1>1, <1>4, <2>1, <2>2 DEF ReadView, Stream!Request
<1> QED
  BY <1>2, <1>5, <1>6

LEMMA ExecuteMaps ==
  ASSUME SInv, SInv', Execute
  PROVE  Stream!Next
<1>1. /\ req.op = "PutSegRvs" => mode = "write" /\ req.seg \in Seq(Byte)
      /\ req.op \in ReadOps => Reading /\ req.len \in Nat
      /\ req' = NoReq /\ mode' = mode
  BY RequestFacts DEF Execute
<1>2. CASE req.op = "PutSegRvs" /\ PutSegRvs(req.seg)
  <2>1. Stream!Prepend(req.seg)
    BY <1>1, <1>2, PrependMaps
  <2> QED
    BY <1>2, <2>1 DEF Stream!PutSeg, Stream!Next
<1>3. CASE req.op = "PutSegRvs" /\ Len(req.seg) = 1 /\ PutByteRvs(req.seg[1])
  <2>1. req.seg[1] \in Byte /\ req.seg = <<req.seg[1]>>
    BY <1>1, <1>3
  <2>2. PutSegRvs(req.seg)
    BY <1>3, <2>1, PutByteIsPutSeg DEF SInv
  <2> QED
    BY <1>2, <1>3, <2>2
<1>4. CASE \/ req.op = "Copy" /\ Copy(req.len)
           \/ req.op = "Skip" /\ Skip(req.len)
           \/ req.op = "PeekCopy" /\ PeekCopy(req.len)
           \/ req.op = "GetSeg" /\ GetSeg(req.len)
           \/ req.op = "PeekSeg" /\ PeekSeg(req.len)
  <2>1. \/ Stream!CopyOut \/ Stream!SkipOver \/ Stream!PeekOut
        \/ Stream!TakeSeg \/ Stream!PeekSeg
    BY <1>1, <1>4, ReadRequestMaps DEF ReadOps
  <2> QED
    BY <2>1 DEF Stream!Next
<1> QED
  BY <1>2, <1>3, <1>4 DEF Execute

LEMMA StepMaps ==
  ASSUME SInv, SInv', [SNext]_svars
  PROVE  [Stream!Next]_Stream!vars
<1>1. CASE req = NoReq /\ StartWriting /\ UNCHANGED req
  BY <1>1, StartWritingMaps DEF Stream!Next
<1>2. CASE req = NoReq /\ StartReading /\ UNCHANGED req
  BY <1>2, StartReadingMaps DEF Stream!Next
<1>3. CASE req = NoReq /\ InstallAndRead /\ UNCHANGED req
  BY <1>3, InstallMaps DEF Stream!Next
<1>4. CASE req = NoReq /\ Work /\ UNCHANGED <<mode, req>>
  BY <1>4, WorkMaps
<1>5. CASE req = NoReq /\ LeaveModes /\ UNCHANGED req
  BY <1>5, LeaveModesMaps DEF Stream!Next
<1>6. CASE Call
  BY <1>6, CallMaps DEF Stream!Next
<1>7. CASE Execute
  BY <1>7, ExecuteMaps
<1>8. CASE UNCHANGED svars
  BY <1>8 DEF svars, Stream!vars, StreamMode, StreamData, StreamFault, StreamError, StreamRet,
              Data, Unread, BytesAt, Left, Reading
<1> QED
  BY <1>1, <1>2, <1>3, <1>4, <1>5, <1>6, <1>7, <1>8 DEF SNext

(* The simple buffer implements ByteStream for blocks and segments of any  *)
(* size: each routine of sbuf.c, called in either mode, puts exactly the   *)
(* bytes it was given before the others, or none and the flag, and gives   *)
(* from the front as many as there are up to what was asked for, with the  *)
(* flag where a routine that has one gives fewer.                          *)
THEOREM SBufIsAStream == SSpec => ImplementsStream
<1>1. SInit => Stream!Init
  BY InitMaps
<1>2. SInv /\ SInv' /\ [SNext]_svars => [Stream!Next]_Stream!vars
  BY StepMaps
<1> QED
  BY <1>1, <1>2, SInvHolds, PTL DEF SSpec, ImplementsStream, Stream!Spec

=============================================================================
