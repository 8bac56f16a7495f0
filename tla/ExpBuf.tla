------------------------------- MODULE ExpBuf -------------------------------
(***************************************************************************)
(* The expanding buffer of the C runtime (c-lib/src/exp-buf.c): a list of  *)
(* fixed-size blocks that the BER encoders fill backwards, from the end of *)
(* the last block, and that the decoders read forwards.                    *)
(*                                                                         *)
(* A block keeps the offsets the C pointers stand for, relative to         *)
(* blkStart: dataStart, dataEnd and curr; blkEnd is "size".  The doubly    *)
(* linked list is the sequence "chain", in the order the blocks were       *)
(* allocated: chain[1] is the LAST buffer of the list (written first, read *)
(* last) and chain[Len(chain)] the first one, so ExpBufNext of chain[i] is *)
(* chain[i-1] and ExpBufPrev is chain[i+1].  "h" is the buffer the         *)
(* caller's handle (ExpBuf **b) designates.                                *)
(*                                                                         *)
(* A routine that loops is a call in progress (variable "call") and one    *)
(* action per iteration, because an iteration may allocate, and fail.      *)
(***************************************************************************)
EXTENDS Integers, Sequences

CONSTANTS
  Byte,       \* the byte values written by the callers
  Junk,       \* what malloc leaves in a byte nobody wrote
  BlkSize,    \* expBufDataBlkSizeG
  MaxBlocks,  \* bound on the blocks of a list: later allocations fail
  MaxLen      \* bound on the length arguments of the calls

ASSUME BlkSizeAssumption == BlkSize \in Nat \ {0}
ASSUME BoundsAssumption  == MaxBlocks \in Nat \ {0} /\ MaxLen \in Nat
ASSUME JunkAssumption    == Junk \notin Byte

VARIABLES
  chain,  \* the list of blocks, oldest first
  h,      \* index of the block the caller's handle points to
  call,   \* the looping routine in progress, or Idle
  ret     \* the bytes the last completed call handed to its caller

vars == <<chain, h, call, ret>>

Cell  == Byte \cup {Junk}
Segs  == UNION {[1..n -> Byte] : n \in 0..MaxLen}
Sizes == 0..(IF BlkSize > MaxLen THEN BlkSize ELSE MaxLen)
Memory == UNION {[0..(n - 1) -> Cell] : n \in Sizes}
Block == [size : Sizes, dataStart : Nat, dataEnd : Nat, curr : Nat,
          readError : BOOLEAN, writeError : BOOLEAN, mem : Memory]

-----------------------------------------------------------------------------
(* Observations of one block.                                              *)

AtEod(k)     == k.curr = k.dataEnd
Full(k)      == k.dataStart = 0
HasNoData(k) == k.dataStart = k.dataEnd

\* n bytes of block k from offset p on, as the caller sees them.
BytesAt(k, p, n) == [j \in 1..n |-> k.mem[p + j - 1]]
Data(k)          == BytesAt(k, k.dataStart, k.dataEnd - k.dataStart)

AtMost(m, n) == IF m <= n THEN m ELSE n

-----------------------------------------------------------------------------
(* What the routines make of one block.                                    *)

\* Mutant: the read pointer of a new block starts at blkStart.
FreshBlockFromStart ==
  [size |-> BlkSize, dataStart |-> BlkSize, dataEnd |-> BlkSize,
   curr |-> 0, readError |-> TRUE, writeError |-> FALSE,
   mem |-> [p \in 0..(BlkSize - 1) |-> Junk]]

FreshBlock ==
  [size |-> BlkSize, dataStart |-> BlkSize, dataEnd |-> BlkSize,
   curr |-> BlkSize, readError |-> TRUE, writeError |-> FALSE,
   mem |-> [p \in 0..(BlkSize - 1) |-> Junk]]

InstalledBlock(s) ==
  [size |-> Len(s), dataStart |-> 0, dataEnd |-> Len(s), curr |-> 0,
   readError |-> FALSE, writeError |-> TRUE,
   mem |-> [p \in 0..(Len(s) - 1) |-> s[p + 1]]]

\* Mutant: the read pointer is left where the last read stopped.
InReadModeKeepingCurr(k) == [k EXCEPT !.readError = FALSE, !.writeError = TRUE]

InReadMode(k) ==
  [k EXCEPT !.curr = k.dataStart, !.readError = FALSE, !.writeError = TRUE]

InWriteRvsMode(k) ==
  [k EXCEPT !.dataEnd = k.size, !.dataStart = k.size,
            !.writeError = FALSE, !.readError = TRUE]

\* The n bytes of s that end at its position e, written before the data of k.
Prepend(k, s, e, n) ==
  [k EXCEPT !.dataStart = k.dataStart - n,
            !.mem = [p \in 0..(k.size - 1) |->
                       IF k.dataStart - n <= p /\ p < k.dataStart
                         THEN s[e - (k.dataStart - 1 - p)] ELSE k.mem[p]]]

AtDataStart(k) == [k EXCEPT !.curr = k.dataStart]
Advance(k, n)  == [k EXCEPT !.curr = k.curr + n]
ReadFault(k)   == [k EXCEPT !.readError = TRUE]
WriteFault(k)  == [k EXCEPT !.writeError = TRUE]

-----------------------------------------------------------------------------
Idle == [op |-> "idle", seg |-> <<>>, len |-> 0, got |-> <<>>, orig |-> 1]

Call == [op : {"idle", "PutSegRvs", "Copy", "Skip", "PeekCopy"},
         seg : Segs, len : 0..MaxLen, got : Seq(Byte), orig : 1..MaxBlocks]

cur == chain[h]

\* "get next buffer with valid data": from chain[i] on, the walk over empty
\* blocks stops at chain[j].
SkipsTo(i, j) ==
  /\ j \in 1..i
  /\ j = 1 \/ ~HasNoData(chain[j])
  /\ \A k \in (j + 1)..i : HasNoData(chain[k])

Returns(bytes) == ret' = bytes /\ call' = Idle

-----------------------------------------------------------------------------
(* Allocation and modes.                                                   *)

\* The caller frees the whole list and starts with a new buffer.
FreeAndAlloc ==
  /\ call = Idle
  /\ chain' = <<FreshBlock>> /\ h' = 1
  /\ Returns(<<>>)

\* A caller's own bytes, in an ExpBuf of their own.
InstallDataInBuf(s) ==
  /\ call = Idle
  /\ chain' = <<InstalledBlock(s)>> /\ h' = 1
  /\ Returns(<<>>)

\* Mutant: the loop leaves the handle on the NULL that ended it.
ResetInReadModePastEnd ==
  /\ call = Idle
  /\ chain' = [i \in DOMAIN chain |-> IF i <= h THEN InReadMode(chain[i])
                                                ELSE chain[i]]
  /\ h' = 0
  /\ Returns(<<>>)

\* The handle's buffer and every buffer after it; "*b = p" in the loop leaves
\* the handle on the last one.
ResetInReadMode ==
  /\ call = Idle
  /\ chain' = [i \in DOMAIN chain |-> IF i <= h THEN InReadMode(chain[i])
                                                ELSE chain[i]]
  /\ h' = 1
  /\ Returns(<<>>)

ResetInWriteRvsMode ==
  /\ call = Idle
  /\ chain' = [chain EXCEPT ![h] = InWriteRvsMode(cur)]
  /\ h' = h
  /\ Returns(<<>>)

\* The caller moves its handle: ExpBufNext, ExpBufPrev, ExpBufListFirstBuf,
\* ExpBufListLastBuf.
Seat(i) ==
  /\ call = Idle
  /\ h' = i /\ chain' = chain
  /\ Returns(<<>>)

\* Every caller in the library passes TRUE.
SetWriteError ==
  /\ call = Idle
  /\ chain' = [chain EXCEPT ![h] = WriteFault(cur)]
  /\ h' = h
  /\ Returns(<<>>)

-----------------------------------------------------------------------------
(* Reverse writes.                                                         *)

\* Mutant: a buffer already linked is written to as it is.
MoveToPrevUnreset(full) ==
  \/ h < Len(chain) /\ chain' = [chain EXCEPT ![h] = full] /\ h' = h + 1
  \/ /\ h = Len(chain) /\ Len(chain) < MaxBlocks
     /\ chain' = Append([chain EXCEPT ![h] = full], InWriteRvsMode(FreshBlock))
     /\ h' = h + 1

\* The next buffer to write to, after block "full" of the list is full: the
\* one already linked before it, a new one at the head of the list, or none.
MoveToPrev(full) ==
  \/ /\ h < Len(chain)
     /\ chain' = [chain EXCEPT ![h] = full,
                               ![h + 1] = InWriteRvsMode(chain[h + 1])]
     /\ h' = h + 1
  \/ /\ h = Len(chain) /\ Len(chain) < MaxBlocks
     /\ chain' = Append([chain EXCEPT ![h] = full], InWriteRvsMode(FreshBlock))
     /\ h' = h + 1

NoMoreBuffers(full) ==
  /\ h = Len(chain)
  /\ chain' = [chain EXCEPT ![h] = WriteFault(full)]
  /\ h' = h

\* A write to a buffer whose writeError is set returns at once.
WriteRefused ==
  /\ call = Idle /\ cur.writeError
  /\ UNCHANGED <<chain, h>>
  /\ Returns(<<>>)

PutSegRvs(s) ==
  /\ call = Idle /\ ~cur.writeError
  /\ call' = [Idle EXCEPT !.op = "PutSegRvs", !.seg = s, !.len = Len(s)]
  /\ UNCHANGED <<chain, h>> /\ ret' = <<>>

\* "enough room in this buffer for write"
PutSegRvsFits ==
  /\ call.op = "PutSegRvs" /\ cur.dataStart > call.len
  /\ chain' = [chain EXCEPT ![h] = Prepend(cur, call.seg, call.len, call.len)]
  /\ h' = h
  /\ Returns(<<>>)

\* "going to fill this buffer completely, so alloc other one"
PutSegRvsFills ==
  /\ call.op = "PutSegRvs" /\ cur.dataStart <= call.len
  /\ LET full == Prepend(cur, call.seg, call.len, cur.dataStart)
     IN \/ /\ MoveToPrev(full)
           /\ call' = [call EXCEPT !.len = call.len - cur.dataStart]
           /\ ret' = ret
        \/ /\ NoMoreBuffers(full)
           /\ Returns(<<>>)

PutByteRvs(x) ==
  /\ call = Idle /\ ~cur.writeError
  /\ Returns(<<>>)
  /\ \/ /\ ~Full(cur)
        /\ chain' = [chain EXCEPT ![h] = Prepend(cur, <<x>>, 1, 1)]
        /\ h' = h
     \/ /\ Full(cur) /\ h < Len(chain)
        /\ chain' = [chain EXCEPT
             ![h + 1] = Prepend(InWriteRvsMode(chain[h + 1]), <<x>>, 1, 1)]
        /\ h' = h + 1
     \/ /\ Full(cur) /\ h = Len(chain) /\ Len(chain) < MaxBlocks
        /\ chain' = Append(chain, Prepend(InWriteRvsMode(FreshBlock), <<x>>, 1, 1))
        /\ h' = h + 1
     \/ /\ Full(cur) /\ NoMoreBuffers(cur)

-----------------------------------------------------------------------------
(* Forward reads.                                                          *)

Left(k) == k.dataEnd - k.curr

\* ExpBufGetSeg for n bytes: what it hands out and where it leaves the list.
SegLen(n)   == AtMost(Left(cur), n)
Seg(n)      == BytesAt(cur, cur.curr, SegLen(n))
TakesSeg(n) ==
  \/ /\ AtEod(cur)
     /\ UNCHANGED <<chain, h>>
  \/ /\ ~AtEod(cur) /\ Left(cur) <= n /\ h > 1
     /\ \E j \in 1..(h - 1) :
          /\ SkipsTo(h - 1, j)
          /\ h' = j
          /\ chain' = [chain EXCEPT ![j] = AtDataStart(chain[j])]
  \/ /\ ~AtEod(cur) /\ (Left(cur) > n \/ h = 1)
     /\ chain' = [chain EXCEPT ![h] = Advance(cur, SegLen(n))]
     /\ h' = h

GetSeg(n) ==
  /\ call = Idle
  /\ TakesSeg(n)
  /\ Returns(Seg(n))

\* The loop over empty buffers, then at most one step to the next buffer.
GetByte ==
  /\ call = Idle
  /\ \E j \in 1..h :
       /\ SkipsTo(h, j)
       /\ LET i == IF AtEod(chain[j]) /\ j > 1 THEN j - 1 ELSE j
              k == IF i = j THEN chain[i] ELSE AtDataStart(chain[i])
          IN /\ h' = i
             /\ \/ /\ AtEod(k)
                   /\ chain' = [chain EXCEPT ![i] = ReadFault(k)]
                   /\ Returns(<<>>)
                \/ /\ ~AtEod(k)
                   /\ chain' = [chain EXCEPT ![i] = Advance(k, 1)]
                   /\ Returns(BytesAt(k, k.curr, 1))

\* Mutant: the end of data is not flagged.
PeekByteUnflagged ==
  /\ call = Idle
  /\ UNCHANGED <<chain, h>>
  /\ \/ AtEod(cur) /\ \E x \in Cell : Returns(<<x>>)
     \/ ~AtEod(cur) /\ Returns(BytesAt(cur, cur.curr, 1))

\* No check for the end of data: the byte is fetched all the same, and past
\* the block it is whatever the memory holds.
PeekByte ==
  /\ call = Idle
  /\ h' = h
  /\ \/ /\ AtEod(cur)
        /\ chain' = [chain EXCEPT ![h] = ReadFault(cur)]
        /\ \E x \in Cell : Returns(<<x>>)
     \/ /\ ~AtEod(cur)
        /\ chain' = chain
        /\ Returns(BytesAt(cur, cur.curr, 1))

PeekSeg(n) ==
  /\ call = Idle
  /\ UNCHANGED <<chain, h>>
  /\ Returns(Seg(n))

\* ExpBufCopy, ExpBufSkip and ExpBufPeekCopy: the call, then its iterations.
Begin(op, n) ==
  /\ call = Idle
  /\ call' = [Idle EXCEPT !.op = op, !.len = n, !.orig = h]
  /\ UNCHANGED <<chain, h>> /\ ret' = <<>>

Copy(n)     == Begin("Copy", n)
Skip(n)     == Begin("Skip", n)
PeekCopy(n) == Begin("PeekCopy", n)

CopyIteration ==
  /\ call.op = "Copy"
  /\ LET n   == call.len - Len(call.got)
         got == call.got \o Seg(n)
     IN \/ /\ Len(got) < call.len /\ Seg(n) = <<>>
           /\ chain' = [chain EXCEPT ![h] = ReadFault(cur)] /\ h' = h
           /\ Returns(got)
        \/ /\ Len(got) < call.len /\ Seg(n) # <<>>
           /\ TakesSeg(n)
           /\ call' = [call EXCEPT !.got = got] /\ ret' = ret
        \/ /\ Len(got) >= call.len
           /\ TakesSeg(n)
           /\ Returns(got)

\* Mutant: the loop waits for its count and ignores the NULL.
SkipUntilCounted ==
  /\ call.op = "Skip"
  /\ LET n == call.len - Len(call.got)
     IN \/ /\ n > 0
           /\ TakesSeg(n)
           /\ call' = [call EXCEPT !.got = call.got \o Seg(n)] /\ ret' = ret
        \/ /\ n = 0
           /\ UNCHANGED <<chain, h>>
           /\ Returns(<<>>)

\* The loop ends when the NULL of ExpBufGetSeg says end of data, so the test of
\* lenRemaining that would set readError is never reached with zero.  "got"
\* stands for the bytes passed over; the code only counts them.
SkipIteration ==
  /\ call.op = "Skip"
  /\ LET n == call.len - Len(call.got)
     IN \/ /\ n > 0 /\ ~AtEod(cur)
           /\ TakesSeg(n)
           /\ call' = [call EXCEPT !.got = call.got \o Seg(n)] /\ ret' = ret
        \/ /\ n = 0 \/ AtEod(cur)
           /\ UNCHANGED <<chain, h>>
           /\ Returns(<<>>)

PeekCopyIteration ==
  /\ call.op = "PeekCopy"
  /\ LET n   == call.len - Len(call.got)
         got == call.got \o Seg(n)
     IN \/ /\ Len(got) >= call.len \/ h = 1
           /\ chain' = chain /\ h' = call.orig
           /\ Returns(got)
        \/ /\ Len(got) < call.len /\ h > 1 /\ Seg(n) = <<>>
           /\ chain' = [chain EXCEPT ![h] = ReadFault(cur)]
           /\ h' = call.orig
           /\ Returns(got)
        \/ /\ Len(got) < call.len /\ h > 1 /\ Seg(n) # <<>>
           /\ \E j \in 1..(h - 1) :
                /\ SkipsTo(h - 1, j)
                /\ h' = j
                /\ chain' = [chain EXCEPT ![j] = AtDataStart(chain[j])]
           /\ call' = [call EXCEPT !.got = got] /\ ret' = ret

\* The data of the handle's buffer and of those after it, in reading order.
DataFrom(i) ==
  LET f[j \in 0..i] == IF j = 0 THEN <<>> ELSE Data(chain[j]) \o f[j - 1]
  IN f[i]

\* Changes nothing: left to ExpBufSession, which says what the file then holds.
CopyToFile ==
  /\ call = Idle
  /\ UNCHANGED <<chain, h>>
  /\ Returns(DataFrom(Len(chain)))

-----------------------------------------------------------------------------
Init ==
  /\ chain = <<FreshBlock>>
  /\ h = 1
  /\ call = Idle
  /\ ret = <<>>

Modes  == \/ FreeAndAlloc
          \/ \E s \in Segs : InstallDataInBuf(s)
          \/ ResetInReadMode
          \/ ResetInWriteRvsMode
          \/ SetWriteError

Writes == \/ WriteRefused
          \/ \E s \in Segs : PutSegRvs(s)
          \/ \E x \in Byte : PutByteRvs(x)

Reads  == \/ GetByte
          \/ PeekByte
          \/ \E n \in 0..MaxLen : GetSeg(n) \/ PeekSeg(n)
          \/ \E n \in 0..MaxLen : Copy(n) \/ Skip(n) \/ PeekCopy(n)

\* The iterations of the routine in progress.
Loop   == \/ PutSegRvsFits \/ PutSegRvsFills
          \/ CopyIteration \/ SkipIteration \/ PeekCopyIteration

Next == \/ Modes
        \/ \E i \in DOMAIN chain : Seat(i)
        \/ Writes
        \/ Reads
        \/ Loop

Spec     == Init /\ [][Next]_vars
FairSpec == Spec /\ WF_vars(Loop)

-----------------------------------------------------------------------------
(* Correctness.                                                            *)

\* The state has its types; the caller's handle is on a block of the list.
TypeOK ==
  /\ chain \in Seq(Block)
  /\ Len(chain) \in 1..MaxBlocks
  /\ h \in DOMAIN chain
  /\ call \in Call
  /\ call.orig \in DOMAIN chain
  /\ call.op = "PutSegRvs" => call.len <= Len(call.seg)
  /\ call.op # "PutSegRvs" => Len(call.got) <= call.len
  /\ ret \in Seq(Cell)

(* The pointers of every block keep the order the header gives them        *)
(* (exp-buf.h:84-92): data within the block and up to its end, the read    *)
(* pointer never past the data and, while no readError is set, never       *)
(* before it.  Every block allocated before another, and so every block a  *)
(* write may move on to, has room.  The routines' pointer arithmetic       *)
(* relies on all of it.                                                    *)
PointersOK ==
  \A i \in DOMAIN chain :
    LET k == chain[i]
    IN /\ k.dataEnd = k.size /\ k.dataStart <= k.dataEnd
       /\ k.curr <= k.dataEnd
       /\ ~k.readError => k.dataStart <= k.curr
       /\ DOMAIN k.mem = 0..(k.size - 1)
       /\ i > 1 => k.size = BlkSize

(* What may be read has been written: no byte of malloc's lies at or after *)
(* dataStart or curr, whatever the order of resets, writes and reads.      *)
DataWritten ==
  \A i \in DOMAIN chain :
    \A p \in 0..(chain[i].size - 1) :
      (p >= chain[i].curr \/ p >= chain[i].dataStart) => chain[i].mem[p] \in Byte

(* No call returns a byte nobody wrote, even in the wrong mode, except     *)
(* ExpBufPeekByte, which fetches past the data and sets readError          *)
(* (exp-buf.c:577-584).                                                    *)
NoUninitialisedRead ==
  (\E j \in DOMAIN ret : ret[j] = Junk) => call = Idle /\ cur.readError

(* Every looping routine comes to its return: no chain of short segments,  *)
(* empty blocks or failed allocations keeps it in its loop.                *)
CallReturns == (call # Idle) ~> (call = Idle)

=============================================================================
