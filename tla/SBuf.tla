-------------------------------- MODULE SBuf --------------------------------
(***************************************************************************)
(* The simple buffer of the C runtime (c-lib/src/sbuf.c): one block of the *)
(* caller's, of fixed size, written backwards from its end and read        *)
(* forwards.  The C pointers are offsets from blkStart; blkEnd is "size".  *)
(* Unlike an ExpBuf it never grows, and its routines test the pointers but *)
(* never the two flags.                                                    *)
(***************************************************************************)
EXTENDS Integers, Sequences

CONSTANTS
  Byte,    \* the byte values written by the callers
  Junk,    \* what the caller's block holds before it is written
  MaxSize, \* bound on the block the caller supplies
  MaxLen   \* bound on the length arguments of the calls

ASSUME SBufBoundsAssumption == MaxSize \in Nat /\ MaxLen \in Nat
ASSUME SBufJunkAssumption   == Junk \notin Byte

VARIABLES
  b,   \* the SBuf and the block it points to
  ret  \* the bytes the last call handed to its caller

vars == <<b, ret>>

Cell   == Byte \cup {Junk}
Blocks == UNION {[1..n -> Cell] : n \in 0..MaxSize}
Segs   == UNION {[1..n -> Byte] : n \in 0..MaxLen}

Buffer == [size : 0..MaxSize, dataStart : 0..MaxSize, dataEnd : 0..MaxSize,
           readLoc : 0..MaxSize, readError : BOOLEAN, writeError : BOOLEAN,
           mem : Blocks]

-----------------------------------------------------------------------------
Eod  == b.readLoc >= b.dataEnd
Left == b.dataEnd - b.readLoc

BytesAt(p, n) == SubSeq(b.mem, p + 1, p + n)
Data          == BytesAt(b.dataStart, b.dataEnd - b.dataStart)

Returns(bytes) == ret' = bytes

\* Mutant: the read pointer of a new buffer is at the start of its block.
InitialisedAtStart(block) ==
  [size |-> Len(block), dataStart |-> Len(block), dataEnd |-> Len(block),
   readLoc |-> 0, readError |-> TRUE, writeError |-> TRUE, mem |-> block]

\* SBufInit on a block that holds "block".
Initialised(block) ==
  [size |-> Len(block), dataStart |-> Len(block), dataEnd |-> Len(block),
   readLoc |-> Len(block), readError |-> TRUE, writeError |-> TRUE, mem |-> block]

InReadMode(k) ==
  [k EXCEPT !.readLoc = k.dataStart, !.readError = FALSE, !.writeError = TRUE]

\* Mutant: the pointers are taken back to the start of the block.
InWriteRvsModeAtStart(k) ==
  [k EXCEPT !.dataStart = 0, !.dataEnd = 0, !.writeError = FALSE, !.readError = TRUE]

\* readLoc stays where it was.
InWriteRvsMode(k) ==
  [k EXCEPT !.dataStart = k.size, !.dataEnd = k.size,
            !.writeError = FALSE, !.readError = TRUE]

-----------------------------------------------------------------------------
InitBuffer(n) ==
  /\ b' = Initialised([p \in 1..n |-> Junk])
  /\ Returns(<<>>)

InstallData(s) ==
  /\ b' = InReadMode([Initialised(s) EXCEPT !.dataStart = 0])
  /\ Returns(<<>>)

ResetInReadMode     == b' = InReadMode(b) /\ Returns(<<>>)
ResetInWriteRvsMode == b' = InWriteRvsMode(b) /\ Returns(<<>>)

SetWriteError(value) ==
  /\ b' = [b EXCEPT !.writeError = value]
  /\ Returns(<<>>)

-----------------------------------------------------------------------------
(* Reverse writes.                                                         *)

\* The block with s written before the data.
Prepended(s) ==
  [b EXCEPT !.dataStart = b.dataStart - Len(s),
            !.mem = [p \in 1..b.size |->
                       IF b.dataStart - Len(s) < p /\ p <= b.dataStart
                         THEN s[p - b.dataStart + Len(s)] ELSE b.mem[p]]]

\* Mutant: room for all but one byte is enough.
PutSegRvsOffByOne(s) ==
  /\ Returns(<<>>)
  /\ \/ b.dataStart + 1 < Len(s) /\ b' = [b EXCEPT !.writeError = TRUE]
     \/ b.dataStart + 1 >= Len(s) /\ b' = Prepended(s)

\* Mutant: the part of a segment that finds room is written, as in an ExpBuf.
PutSegRvsInPart(s) ==
  /\ Returns(<<>>)
  /\ \/ /\ b.dataStart < Len(s)
        /\ b' = [Prepended(SubSeq(s, Len(s) - b.dataStart + 1, Len(s))) EXCEPT !.writeError = TRUE]
     \/ b.dataStart >= Len(s) /\ b' = Prepended(s)

PutSegRvs(s) ==
  /\ Returns(<<>>)
  /\ \/ b.dataStart < Len(s) /\ b' = [b EXCEPT !.writeError = TRUE]
     \/ b.dataStart >= Len(s) /\ b' = Prepended(s)

PutByteRvs(x) ==
  /\ Returns(<<>>)
  /\ \/ b.dataStart = 0 /\ b' = [b EXCEPT !.writeError = TRUE]
     \/ b.dataStart > 0 /\ b' = Prepended(<<x>>)

-----------------------------------------------------------------------------
(* Forward reads: at most what is left, and a flag for the rest.           *)

AtMost(m, n) == IF m <= n THEN m ELSE n

Advance(n) == [b EXCEPT !.readLoc = b.readLoc + AtMost(n, Left),
                        !.readError = @ \/ n > Left]

Skip(n) == b' = Advance(n) /\ Returns(<<>>)

Copy(n) == b' = Advance(n) /\ Returns(BytesAt(b.readLoc, AtMost(n, Left)))

PeekCopy(n) ==
  /\ b' = [b EXCEPT !.readError = @ \/ n > Left]
  /\ Returns(BytesAt(b.readLoc, AtMost(n, Left)))

GetSeg(n) ==
  /\ b' = [b EXCEPT !.readLoc = b.readLoc + AtMost(n, Left)]
  /\ Returns(BytesAt(b.readLoc, AtMost(n, Left)))

PeekSeg(n) ==
  /\ b' = b
  /\ Returns(BytesAt(b.readLoc, AtMost(n, Left)))

GetByte ==
  \/ Eod /\ b' = [b EXCEPT !.readError = TRUE] /\ Returns(<<>>)
  \/ ~Eod /\ Copy(1)

\* Past the data the byte returned is zero, one of the values of Byte.
PeekByte ==
  \/ Eod /\ b' = [b EXCEPT !.readError = TRUE] /\ \E x \in Byte : Returns(<<x>>)
  \/ ~Eod /\ b' = b /\ Returns(BytesAt(b.readLoc, 1))

-----------------------------------------------------------------------------
Init == \E n \in 0..MaxSize : b = Initialised([p \in 1..n |-> Junk]) /\ ret = <<>>

Modes  == \/ \E n \in 0..MaxSize : InitBuffer(n)
          \/ \E s \in Blocks : (\A p \in DOMAIN s : s[p] \in Byte) /\ InstallData(s)
          \/ ResetInReadMode
          \/ ResetInWriteRvsMode
          \/ \E value \in BOOLEAN : SetWriteError(value)

Writes == \/ \E s \in Segs : PutSegRvs(s)
          \/ \E x \in Byte : PutByteRvs(x)

Reads  == \/ GetByte
          \/ PeekByte
          \/ \E n \in 0..MaxLen : GetSeg(n) \/ PeekSeg(n)
          \/ \E n \in 0..MaxLen : Copy(n) \/ Skip(n) \/ PeekCopy(n)

Next == Modes \/ Writes \/ Reads

Spec == Init /\ [][Next]_vars

-----------------------------------------------------------------------------
TypeOK ==
  /\ b \in Buffer /\ Len(b.mem) = b.size
  /\ ret \in Seq(Cell)

(* Calls in any order, in the right mode or not, keep the pointers where   *)
(* the memcpy calls of sbuf.c:275-411 need them: the data end with the     *)
(* block, no read passes them and, while no readError is set, no read      *)
(* starts before them.                                                     *)
PointersOK ==
  /\ b.dataStart <= b.dataEnd /\ b.dataEnd = b.size
  /\ b.readLoc <= b.dataEnd
  /\ ~b.readError => b.dataStart <= b.readLoc

(* What may be read has been written: whatever the order of resets, writes *)
(* and reads, no byte the caller's block came with lies at or after        *)
(* dataStart or readLoc, and none is returned.                             *)
OnlyWrittenBytesAreRead ==
  /\ \A p \in 1..b.size :
       (p > b.readLoc \/ p > b.dataStart) => b.mem[p] \in Byte
  /\ \A j \in DOMAIN ret : ret[j] \in Byte

=============================================================================
