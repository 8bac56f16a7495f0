---------------------------- MODULE ExpBufProofs ----------------------------
(***************************************************************************)
(* The pointer discipline of ExpBuf, and that ExpBufSession implements     *)
(* ByteStream, proved for every block size, every bound on the list and    *)
(* every set of byte values.                                               *)
(***************************************************************************)
EXTENDS ExpBufSession, FiniteSetTheorems, WellFoundedInduction, SequenceTheorems, TLAPS

\* A block whose pointers are in order and whose readable bytes are written:
\* TypeOK, PointersOK and DataWritten, said of one block.
GoodBlock(k) ==
  /\ k \in Block
  /\ k.dataEnd = k.size /\ k.dataStart <= k.dataEnd
  /\ k.curr <= k.dataEnd
  /\ ~k.readError => k.dataStart <= k.curr
  /\ DOMAIN k.mem = 0..(k.size - 1)
  /\ \A p \in 0..(k.size - 1) :
       (p >= k.curr \/ p >= k.dataStart) => k.mem[p] \in Byte

GoodChain(c) ==
  /\ c \in Seq(Block) /\ Len(c) \in 1..MaxBlocks
  /\ \A i \in 1..Len(c) : GoodBlock(c[i])
  /\ \A i \in 2..Len(c) : c[i].size = BlkSize

CallOK ==
  /\ call \in Call
  /\ call.orig \in DOMAIN chain
  /\ call.op = "PutSegRvs" => call.len <= Len(call.seg)
  /\ call.op # "PutSegRvs" => Len(call.got) <= call.len

\* The only call that may return an unwritten byte has set readError.
RetOK == \/ ret \in Seq(Byte)
         \/ ret \in Seq(Cell) /\ call = Idle /\ cur.readError

Inv == GoodChain(chain) /\ h \in DOMAIN chain /\ CallOK /\ RetOK

LEMMA MemoryOfSize ==
  ASSUME NEW n \in Sizes, NEW f \in [0..(n - 1) -> Cell] PROVE f \in Memory
  BY DEF Memory

LEMMA MemoryIsFunction ==
  ASSUME NEW f \in Memory, NEW n \in Nat, DOMAIN f = 0..(n - 1)
  PROVE  f \in [0..(n - 1) -> Cell]
  BY DEF Memory

LEMMA SizesAreNat == Sizes \subseteq Nat /\ BlkSize \in Sizes
                     /\ \A n \in 0..MaxLen : n \in Sizes
  BY BlkSizeAssumption, BoundsAssumption DEF Sizes

LEMMA FreshIsGood == GoodBlock(FreshBlock) /\ FreshBlock.size = BlkSize
  <1>1. FreshBlock.mem \in Memory
    BY MemoryOfSize, SizesAreNat DEF FreshBlock, Cell
  <1>. QED
    BY <1>1, BlkSizeAssumption, SizesAreNat DEF GoodBlock, FreshBlock, Block

LEMMA GoodFields ==
  ASSUME NEW k, GoodBlock(k)
  PROVE  /\ k \in Block
         /\ k.size \in Nat /\ k.dataStart \in Nat /\ k.dataEnd \in Nat
         /\ k.curr \in Nat /\ k.mem \in Memory
  BY SizesAreNat DEF GoodBlock, Block

\* Moving the read pointer and setting flags keeps a block good.
LEMMA SameDataIsGood ==
  ASSUME NEW k, GoodBlock(k), NEW r \in Block,
         r.size = k.size, r.dataStart = k.dataStart, r.dataEnd = k.dataEnd,
         r.mem = k.mem, r.curr <= k.dataEnd,
         r.curr >= k.curr \/ r.curr >= k.dataStart,
         ~r.readError => k.dataStart <= r.curr
  PROVE  GoodBlock(r)
  <1>1. r.curr \in Nat
    BY DEF Block
  <1>2. \A p \in 0..(r.size - 1) :
          (p >= r.curr \/ p >= r.dataStart) => r.mem[p] \in Byte
    BY <1>1, GoodFields DEF GoodBlock
  <1>. QED
    BY <1>2 DEF GoodBlock

LEMMA ReadModeIsGood ==
  ASSUME NEW k, GoodBlock(k)
  PROVE  GoodBlock(InReadMode(k)) /\ InReadMode(k).size = k.size
  <1>0. k \in Block /\ k.dataStart \in Nat
    BY GoodFields
  <1>a. InReadMode(k) \in Block
    BY <1>0 DEF InReadMode, Block
  <1>1. /\ InReadMode(k).curr = k.dataStart
        /\ InReadMode(k).size = k.size /\ InReadMode(k).dataStart = k.dataStart
        /\ InReadMode(k).dataEnd = k.dataEnd /\ InReadMode(k).mem = k.mem
    BY <1>0 DEF InReadMode, Block
  <1>2. k.dataStart <= k.dataEnd /\ k.dataStart >= k.dataStart
    BY GoodFields DEF GoodBlock
  <1>. QED
    BY <1>a, <1>1, <1>2, SameDataIsGood

LEMMA AtDataStartIsGood ==
  ASSUME NEW k, GoodBlock(k)
  PROVE  GoodBlock(AtDataStart(k)) /\ AtDataStart(k).size = k.size
  <1>1. /\ AtDataStart(k) \in Block
        /\ AtDataStart(k).curr = k.dataStart
        /\ AtDataStart(k).size = k.size /\ AtDataStart(k).dataStart = k.dataStart
        /\ AtDataStart(k).dataEnd = k.dataEnd /\ AtDataStart(k).mem = k.mem
    BY GoodFields DEF AtDataStart, Block
  <1>2. k.dataStart <= k.dataEnd /\ k.dataStart >= k.dataStart
    BY GoodFields DEF GoodBlock
  <1>. QED
    BY <1>1, <1>2, SameDataIsGood

LEMMA ReadFaultIsGood ==
  ASSUME NEW k, GoodBlock(k)
  PROVE  /\ GoodBlock(ReadFault(k)) /\ ReadFault(k).readError
         /\ ReadFault(k).size = k.size
  <1>0. k \in Block /\ k.dataStart \in Nat
    BY GoodFields
  <1>a. ReadFault(k) \in Block
    BY <1>0 DEF ReadFault, Block
  <1>1. /\ ReadFault(k).curr = k.curr /\ ReadFault(k).readError = TRUE
        /\ ReadFault(k).size = k.size /\ ReadFault(k).dataStart = k.dataStart
        /\ ReadFault(k).dataEnd = k.dataEnd /\ ReadFault(k).mem = k.mem
    BY <1>0 DEF ReadFault, Block
  <1>2. k.curr <= k.dataEnd /\ k.curr >= k.curr
    BY GoodFields DEF GoodBlock
  <1>. QED
    BY <1>a, <1>1, <1>2, SameDataIsGood

LEMMA WriteFaultIsGood ==
  ASSUME NEW k, GoodBlock(k)
  PROVE  GoodBlock(WriteFault(k)) /\ WriteFault(k).size = k.size
  <1>0. k \in Block /\ k.dataStart \in Nat
    BY GoodFields
  <1>a. WriteFault(k) \in Block
    BY <1>0 DEF WriteFault, Block
  <1>1. /\ WriteFault(k).curr = k.curr
        /\ WriteFault(k).readError = k.readError
        /\ WriteFault(k).size = k.size /\ WriteFault(k).dataStart = k.dataStart
        /\ WriteFault(k).dataEnd = k.dataEnd /\ WriteFault(k).mem = k.mem
    BY <1>0 DEF WriteFault, Block
  <1>2. k.curr <= k.dataEnd /\ k.curr >= k.curr
    BY GoodFields DEF GoodBlock
  <1>3. ~k.readError => k.dataStart <= k.curr
    BY DEF GoodBlock
  <1>. QED
    BY <1>a, <1>1, <1>2, <1>3, SameDataIsGood

LEMMA AdvanceIsGood ==
  ASSUME NEW k, GoodBlock(k), NEW n \in Nat, n <= Left(k)
  PROVE  GoodBlock(Advance(k, n)) /\ Advance(k, n).size = k.size
  <1>1. /\ Advance(k, n) \in Block
        /\ Advance(k, n).curr = k.curr + n
        /\ Advance(k, n).readError = k.readError
        /\ Advance(k, n).size = k.size /\ Advance(k, n).dataStart = k.dataStart
        /\ Advance(k, n).dataEnd = k.dataEnd /\ Advance(k, n).mem = k.mem
    BY GoodFields DEF Advance, Block
  <1>2. k.curr + n <= k.dataEnd /\ k.curr + n >= k.curr
    BY GoodFields DEF Left
  <1>3. ~k.readError => k.dataStart <= k.curr + n
    BY GoodFields DEF GoodBlock
  <1>. QED
    BY <1>1, <1>2, <1>3, SameDataIsGood

LEMMA WriteRvsModeIsGood ==
  ASSUME NEW k, GoodBlock(k)
  PROVE  /\ GoodBlock(InWriteRvsMode(k))
         /\ InWriteRvsMode(k).dataStart = k.size
         /\ InWriteRvsMode(k).size = k.size
  <1> DEFINE r == InWriteRvsMode(k)
  <1>0. k \in Block /\ k.size \in Nat
    BY GoodFields
  <1>a. r \in Block
    BY <1>0 DEF InWriteRvsMode, Block
  <1>1. /\ r.curr = k.curr /\ r.readError = TRUE
        /\ r.size = k.size /\ r.dataStart = k.size
        /\ r.dataEnd = k.size /\ r.mem = k.mem
    BY <1>0 DEF InWriteRvsMode, Block
  <1> HIDE DEF r
  <1>2. r.curr <= r.dataEnd
    BY <1>1 DEF GoodBlock
  <1>3. \A p \in 0..(r.size - 1) :
          (p >= r.curr \/ p >= r.dataStart) => r.mem[p] \in Byte
    BY <1>1, GoodFields DEF GoodBlock
  <1>4. DOMAIN r.mem = 0..(r.size - 1) /\ r.dataStart <= r.dataEnd
    BY <1>1, GoodFields DEF GoodBlock
  <1>5. GoodBlock(r)
    BY <1>a, <1>1, <1>2, <1>3, <1>4 DEF GoodBlock
  <1>. QED
    BY <1>1, <1>5 DEF r

LEMMA InstalledIsGood ==
  ASSUME NEW s \in Segs PROVE GoodBlock(InstalledBlock(s))
  <1> DEFINE r == InstalledBlock(s)
  <1>1. Len(s) \in 0..MaxLen /\ s \in [1..Len(s) -> Byte]
    BY BoundsAssumption DEF Segs
  <1>2. r.mem \in [0..(Len(s) - 1) -> Byte]
    BY <1>1, BoundsAssumption DEF InstalledBlock
  <1>3. r.mem \in [0..(Len(s) - 1) -> Cell]
    BY <1>2 DEF Cell
  <1>4. r.mem \in Memory
    BY <1>1, <1>3, MemoryOfSize, SizesAreNat
  <1>5. r \in Block
    BY <1>1, <1>4, SizesAreNat, BoundsAssumption DEF InstalledBlock, Block
  <1>6. /\ r.size = Len(s) /\ r.dataStart = 0 /\ r.dataEnd = Len(s)
        /\ r.curr = 0 /\ DOMAIN r.mem = 0..(r.size - 1)
    BY <1>2 DEF InstalledBlock
  <1>7. \A p \in 0..(r.size - 1) : r.mem[p] \in Byte
    BY <1>2, <1>6
  <1>8. r.dataStart <= r.dataEnd /\ r.curr <= r.dataEnd /\ r.dataStart <= r.curr
    BY <1>1, <1>6, BoundsAssumption
  <1> HIDE DEF r
  <1>9. GoodBlock(r)
    BY <1>5, <1>6, <1>7, <1>8 DEF GoodBlock
  <1>. QED
    BY <1>9 DEF r

LEMMA PrependIsGood ==
  ASSUME NEW k, GoodBlock(k), NEW s \in Seq(Byte), NEW e \in Nat, NEW n \in Nat,
         n <= e, e <= Len(s), n <= k.dataStart
  PROVE  GoodBlock(Prepend(k, s, e, n)) /\ Prepend(k, s, e, n).size = k.size
  <1> DEFINE r == Prepend(k, s, e, n)
             put(p) == k.dataStart - n <= p /\ p < k.dataStart
  <1>1. Len(s) \in Nat /\ s \in [1..Len(s) -> Byte]
    OBVIOUS
  <1>2. k.mem \in [0..(k.size - 1) -> Cell]
    BY GoodFields, MemoryIsFunction DEF GoodBlock
  <1>3. \A p \in 0..(k.size - 1) :
          put(p) => s[e - (k.dataStart - 1 - p)] \in Byte
    <2> TAKE p \in 0..(k.size - 1)
    <2> HAVE put(p)
    <2>1. e - (k.dataStart - 1 - p) \in 1..Len(s)
      BY <1>1, GoodFields
    <2>. QED
      BY <1>1, <2>1
  <1>4. /\ r.mem = [p \in 0..(k.size - 1) |->
                      IF put(p) THEN s[e - (k.dataStart - 1 - p)] ELSE k.mem[p]]
        /\ r.size = k.size /\ r.dataStart = k.dataStart - n
        /\ r.dataEnd = k.dataEnd /\ r.curr = k.curr
        /\ r.readError = k.readError /\ r.writeError = k.writeError
    BY GoodFields DEF Prepend, Block
  <1>5. r.mem \in [0..(k.size - 1) -> Cell]
    BY <1>2, <1>3, <1>4 DEF Cell
  <1>6. r.mem \in Memory
    BY <1>5, MemoryOfSize, GoodFields DEF Block
  <1>7. r.dataStart \in Nat /\ r.dataStart <= k.dataStart
    BY <1>4, GoodFields
  <1>8. r \in Block
    BY <1>4, <1>6, <1>7, GoodFields DEF Prepend, Block
  <1>9. \A p \in 0..(r.size - 1) :
          (p >= r.curr \/ p >= r.dataStart) => r.mem[p] \in Byte
    <2> TAKE p \in 0..(r.size - 1)
    <2> HAVE p >= r.curr \/ p >= r.dataStart
    <2>1. CASE put(p)
      BY <2>1, <1>3, <1>4
    <2>2. CASE ~put(p)
      <3>1. p >= k.curr \/ p >= k.dataStart
        BY <2>2, <1>4, GoodFields
      <3>. QED
        BY <2>2, <3>1, <1>4 DEF GoodBlock
    <2>. QED
      BY <2>1, <2>2
  <1>10. /\ DOMAIN r.mem = 0..(r.size - 1)
         /\ r.dataEnd = r.size /\ r.dataStart <= r.dataEnd
         /\ r.curr <= r.dataEnd
    BY <1>4, <1>7, GoodFields DEF GoodBlock
  <1>11. ~r.readError => r.dataStart <= r.curr
    BY <1>4, <1>7, GoodFields DEF GoodBlock
  <1> HIDE DEF r
  <1>12. GoodBlock(r)
    BY <1>8, <1>9, <1>10, <1>11 DEF GoodBlock
  <1>. QED
    BY <1>4, <1>12 DEF r

-----------------------------------------------------------------------------
(* The list and the bytes that leave it.                                   *)

LEMMA UpdateIsGood ==
  ASSUME NEW c, GoodChain(c), NEW j \in 1..Len(c), NEW k, GoodBlock(k),
         k.size = c[j].size
  PROVE  /\ GoodChain([c EXCEPT ![j] = k])
         /\ Len([c EXCEPT ![j] = k]) = Len(c)
         /\ [c EXCEPT ![j] = k][j] = k
  <1>1. k \in Block /\ c \in Seq(Block)
    BY DEF GoodBlock, GoodChain
  <1>2. [c EXCEPT ![j] = k] \in Seq(Block) /\ Len([c EXCEPT ![j] = k]) = Len(c)
    BY <1>1
  <1>3. \A i \in 1..Len(c) :
          [c EXCEPT ![j] = k][i] = IF i = j THEN k ELSE c[i]
    BY <1>1
  <1>. QED
    BY <1>2, <1>3 DEF GoodChain

LEMMA AppendIsGood ==
  ASSUME NEW c, GoodChain(c), Len(c) < MaxBlocks, NEW k, GoodBlock(k),
         k.size = BlkSize
  PROVE  /\ GoodChain(Append(c, k))
         /\ Len(Append(c, k)) = Len(c) + 1
  <1>1. k \in Block /\ c \in Seq(Block)
    BY DEF GoodBlock, GoodChain
  <1>2. Append(c, k) \in Seq(Block) /\ Len(Append(c, k)) = Len(c) + 1
    BY <1>1
  <1>3. \A i \in 1..(Len(c) + 1) :
          Append(c, k)[i] = IF i = Len(c) + 1 THEN k ELSE c[i]
    BY <1>1
  <1>. QED
    BY <1>2, <1>3, BoundsAssumption DEF GoodChain

LEMMA GoodChainDomain ==
  ASSUME NEW c, GoodChain(c)
  PROVE  Len(c) \in Nat /\ DOMAIN c = 1..Len(c) /\ 1 \in DOMAIN c
  BY BoundsAssumption DEF GoodChain

\* One block of the list changes; the list stays good and as long.
LEMMA ChainUpdate ==
  ASSUME GoodChain(chain), NEW j \in DOMAIN chain, NEW k, GoodBlock(k),
         k.size = chain[j].size,
         chain' = [chain EXCEPT ![j] = k]
  PROVE  /\ GoodChain(chain') /\ Len(chain') = Len(chain)
         /\ DOMAIN chain' = DOMAIN chain /\ chain'[j] = k
  <1>1. j \in 1..Len(chain)
    BY GoodChainDomain
  <1>2. GoodChain(chain') /\ Len(chain') = Len(chain) /\ chain'[j] = k
    BY <1>1, UpdateIsGood
  <1>3. DOMAIN chain' = 1..Len(chain) /\ DOMAIN chain = 1..Len(chain)
    BY <1>2, GoodChainDomain
  <1>. QED
    BY <1>2, <1>3

LEMMA SingleIsGood ==
  ASSUME NEW k, GoodBlock(k)
  PROVE  GoodChain(<<k>>) /\ Len(<<k>>) = 1
  BY BoundsAssumption DEF GoodChain, GoodBlock

LEMMA BytesAreWritten ==
  ASSUME NEW k, GoodBlock(k), NEW n \in Nat, n <= Left(k)
  PROVE  /\ BytesAt(k, k.curr, n) \in Seq(Byte)
         /\ Len(BytesAt(k, k.curr, n)) = n
  <1>1. \A j \in 1..n : k.mem[k.curr + j - 1] \in Byte
    <2> TAKE j \in 1..n
    <2>1. k.curr + j - 1 \in 0..(k.size - 1) /\ k.curr + j - 1 >= k.curr
      BY GoodFields DEF Left, GoodBlock
    <2>. QED
      BY <2>1 DEF GoodBlock
  <1>2. BytesAt(k, k.curr, n) \in [1..n -> Byte]
    BY <1>1 DEF BytesAt
  <1>. QED
    BY <1>2

LEMMA SegIsWritten ==
  ASSUME Inv, NEW n \in Nat
  PROVE  /\ GoodBlock(cur) /\ SegLen(n) \in Nat
         /\ SegLen(n) <= n /\ SegLen(n) <= Left(cur)
         /\ Seg(n) \in Seq(Byte) /\ Len(Seg(n)) = SegLen(n)
  <1>1. GoodBlock(cur)
    BY DEF Inv, GoodChain, cur
  <1>2. Left(cur) \in Nat
    BY <1>1, GoodFields DEF Left, GoodBlock
  <1>3. SegLen(n) \in Nat /\ SegLen(n) <= n /\ SegLen(n) <= Left(cur)
    BY <1>2 DEF SegLen, AtMost
  <1>. QED
    BY <1>1, <1>3, BytesAreWritten DEF Seg

LEMMA IdleIsOK ==
  ASSUME GoodChain(chain'), call' = Idle
  PROVE  CallOK'
  <1>1. Idle \in Call /\ Idle.orig = 1 /\ Idle.op = "idle"
        /\ Len(Idle.got) = 0 /\ Idle.len = 0
    BY BoundsAssumption DEF Idle, Call, Segs
  <1>2. 1 \in DOMAIN chain'
    BY BoundsAssumption DEF GoodChain
  <1>. QED
    BY <1>1, <1>2 DEF CallOK

LEMMA ReturnsIsOK ==
  ASSUME GoodChain(chain'), NEW bytes \in Seq(Byte), Returns(bytes)
  PROVE  CallOK' /\ RetOK'
  BY IdleIsOK DEF Returns, RetOK

\* ExpBufGetSeg leaves a good list and the handle on it.
LEMMA TakesSegIsOK ==
  ASSUME Inv, NEW n \in Nat, TakesSeg(n)
  PROVE  /\ GoodChain(chain') /\ h' \in DOMAIN chain'
         /\ DOMAIN chain' = DOMAIN chain
  <1>1. GoodChain(chain) /\ h \in DOMAIN chain /\ h \in 1..Len(chain)
        /\ DOMAIN chain = 1..Len(chain) /\ Len(chain) \in Nat
    BY GoodChainDomain DEF Inv
  <1>2. CASE UNCHANGED <<chain, h>>
    BY <1>1, <1>2
  <1>3. ASSUME NEW j \in 1..(h - 1), h' = j,
               chain' = [chain EXCEPT ![j] = AtDataStart(chain[j])]
        PROVE  /\ GoodChain(chain') /\ h' \in DOMAIN chain'
               /\ DOMAIN chain' = DOMAIN chain
    <2>1. j \in DOMAIN chain /\ GoodBlock(AtDataStart(chain[j]))
         /\ AtDataStart(chain[j]).size = chain[j].size
      BY <1>1, AtDataStartIsGood DEF GoodChain
    <2>. QED
      BY <1>1, <1>3, <2>1, ChainUpdate
  <1>4. CASE chain' = [chain EXCEPT ![h] = Advance(cur, SegLen(n))] /\ h' = h
    <2>1. /\ GoodBlock(Advance(cur, SegLen(n)))
          /\ Advance(cur, SegLen(n)).size = chain[h].size
      BY SegIsWritten, AdvanceIsGood DEF cur
    <2>. QED
      BY <1>1, <1>4, <2>1, ChainUpdate
  <1>. QED
    BY <1>2, <1>3, <1>4 DEF TakesSeg

-----------------------------------------------------------------------------
(* Every step preserves the invariant.                                     *)

\* An update of block j that ends its call.
LEMMA UpdateAndReturn ==
  ASSUME Inv, NEW j \in DOMAIN chain, NEW k, GoodBlock(k),
         k.size = chain[j].size,
         chain' = [chain EXCEPT ![j] = k], h' \in DOMAIN chain,
         NEW bytes \in Seq(Byte), Returns(bytes)
  PROVE  Inv'
  <1>1. GoodChain(chain') /\ h' \in DOMAIN chain'
    BY ChainUpdate DEF Inv
  <1>. QED
    BY <1>1, ReturnsIsOK DEF Inv

LEMMA EmptyIsBytes == <<>> \in Seq(Byte)
  OBVIOUS

LEMMA ModesStep ==
  ASSUME Inv, Modes PROVE Inv'
  <1>1. CASE FreeAndAlloc
    <2>1. GoodChain(chain') /\ h' \in DOMAIN chain'
      BY <1>1, FreshIsGood, SingleIsGood, GoodChainDomain DEF FreeAndAlloc
    <2>. QED
      BY <1>1, <2>1, ReturnsIsOK, EmptyIsBytes DEF FreeAndAlloc, Inv
  <1>2. ASSUME NEW s \in Segs, InstallDataInBuf(s) PROVE Inv'
    <2>1. GoodChain(chain') /\ h' \in DOMAIN chain'
      BY <1>2, InstalledIsGood, SingleIsGood, GoodChainDomain
      DEF InstallDataInBuf
    <2>. QED
      BY <1>2, <2>1, ReturnsIsOK, EmptyIsBytes DEF InstallDataInBuf, Inv
  <1>3. CASE ResetInReadMode
    <2>1. GoodChain(chain) /\ DOMAIN chain = 1..Len(chain) /\ Len(chain) \in Nat
      BY GoodChainDomain DEF Inv
    <2>2. \A i \in 1..Len(chain) :
            GoodBlock(IF i <= h THEN InReadMode(chain[i]) ELSE chain[i])
      BY <2>1, ReadModeIsGood DEF GoodChain
    <2>3. chain' = [i \in 1..Len(chain) |->
                      IF i <= h THEN InReadMode(chain[i]) ELSE chain[i]]
      BY <1>3, <2>1 DEF ResetInReadMode
    <2>4. \A i \in 1..Len(chain) : chain'[i] \in Block /\ GoodBlock(chain'[i])
      BY <2>2, <2>3 DEF GoodBlock
    <2>5. chain' \in Seq(Block) /\ Len(chain') = Len(chain)
      BY <2>1, <2>3, <2>4
    <2>6. \A i \in 2..Len(chain') : chain'[i].size = BlkSize
      BY <2>1, <2>3, <2>5, ReadModeIsGood DEF GoodChain
    <2>7. GoodChain(chain')
      BY <2>1, <2>4, <2>5, <2>6 DEF GoodChain
    <2>. QED
      BY <1>3, <2>7, GoodChainDomain, ReturnsIsOK, EmptyIsBytes
      DEF ResetInReadMode, Inv
  <1>4. CASE ResetInWriteRvsMode
    <2>1. GoodBlock(InWriteRvsMode(cur)) /\ h' \in DOMAIN chain
          /\ InWriteRvsMode(cur).size = chain[h].size
      BY <1>4, WriteRvsModeIsGood, GoodChainDomain
      DEF ResetInWriteRvsMode, Inv, GoodChain, cur
    <2>. QED
      BY <1>4, <2>1, UpdateAndReturn, EmptyIsBytes DEF ResetInWriteRvsMode, Inv
  <1>5. CASE SetWriteError
    <2>1. GoodBlock(WriteFault(cur)) /\ h' \in DOMAIN chain
          /\ WriteFault(cur).size = chain[h].size
      BY <1>5, WriteFaultIsGood, GoodChainDomain
      DEF SetWriteError, Inv, GoodChain, cur
    <2>. QED
      BY <1>5, <2>1, UpdateAndReturn, EmptyIsBytes DEF SetWriteError, Inv
  <1>. QED
    BY <1>1, <1>2, <1>3, <1>4, <1>5 DEF Modes

LEMMA SeatStep ==
  ASSUME Inv, NEW i \in DOMAIN chain, Seat(i) PROVE Inv'
  BY ReturnsIsOK, EmptyIsBytes DEF Inv, Seat

\* The two ways to find the next buffer to write to.
LEMMA MoveToPrevIsOK ==
  ASSUME Inv, NEW full, GoodBlock(full), full.size = cur.size, MoveToPrev(full)
  PROVE  /\ GoodChain(chain') /\ h' \in DOMAIN chain'
         /\ DOMAIN chain \subseteq DOMAIN chain'
  <1> DEFINE c == [chain EXCEPT ![h] = full]
  <1>1. /\ GoodChain(chain) /\ h \in 1..Len(chain) /\ Len(chain) \in Nat
        /\ DOMAIN chain = 1..Len(chain)
    BY GoodChainDomain DEF Inv
  <1>2. GoodChain(c) /\ Len(c) = Len(chain)
    BY <1>1, UpdateIsGood DEF cur
  <1>3. CASE /\ h < Len(chain) /\ h' = h + 1
             /\ chain' = [chain EXCEPT ![h] = full,
                                       ![h + 1] = InWriteRvsMode(chain[h + 1])]
    <2>1. h + 1 \in 1..Len(chain) /\ GoodBlock(chain[h + 1])
      BY <1>1, <1>3 DEF GoodChain
    <2>2. chain' = [c EXCEPT ![h + 1] = InWriteRvsMode(chain[h + 1])]
      BY <1>3
    <2>3. /\ GoodBlock(InWriteRvsMode(chain[h + 1]))
          /\ InWriteRvsMode(chain[h + 1]).size = c[h + 1].size
      <3>1. c[h + 1] = chain[h + 1]
        BY <1>1, <2>1
      <3> QED
        BY <2>1, <3>1, WriteRvsModeIsGood
    <2> HIDE DEF c
    <2>a. h + 1 \in 1..Len(c)
      BY <1>2, <2>1
    <2>4. GoodChain(chain') /\ Len(chain') = Len(chain)
      <3> DEFINE next == InWriteRvsMode(chain[h + 1])
      <3>1. GoodBlock(next) /\ next.size = c[h + 1].size /\ chain' = [c EXCEPT ![h + 1] = next]
        BY <2>2, <2>3
      <3> HIDE DEF next
      <3>2. GoodChain([c EXCEPT ![h + 1] = next]) /\ Len([c EXCEPT ![h + 1] = next]) = Len(c)
        BY <1>2, <2>a, <3>1, UpdateIsGood
      <3> QED
        BY <1>2, <3>1, <3>2
    <2>5. DOMAIN chain' = 1..Len(chain)
      BY <2>4, GoodChainDomain
    <2>. QED
      BY <1>1, <1>3, <2>1, <2>4, <2>5
  <1>4. CASE /\ h = Len(chain) /\ Len(chain) < MaxBlocks /\ h' = h + 1
             /\ chain' = Append(c, InWriteRvsMode(FreshBlock))
    <2>1. /\ GoodBlock(InWriteRvsMode(FreshBlock))
          /\ InWriteRvsMode(FreshBlock).size = BlkSize
      BY FreshIsGood, WriteRvsModeIsGood
    <2> HIDE DEF c
    <2>2. GoodChain(chain') /\ Len(chain') = Len(chain) + 1
      BY <1>2, <1>4, <2>1, AppendIsGood
    <2>. QED
      BY <1>1, <1>4, <2>2, GoodChainDomain
  <1>. QED
    BY <1>3, <1>4 DEF MoveToPrev

LEMMA PutByteStep ==
  ASSUME Inv, NEW x \in Byte, PutByteRvs(x) PROVE Inv'
  <1>1. /\ GoodChain(chain) /\ h \in 1..Len(chain) /\ Len(chain) \in Nat
        /\ DOMAIN chain = 1..Len(chain) /\ GoodBlock(cur)
    BY GoodChainDomain DEF Inv, GoodChain, cur
  <1>2. <<x>> \in Seq(Byte) /\ Len(<<x>>) = 1 /\ Returns(<<>>)
    BY DEF PutByteRvs
  <1>3. ASSUME NEW k, GoodBlock(k), k.dataStart > 0
        PROVE  /\ GoodBlock(Prepend(k, <<x>>, 1, 1))
               /\ Prepend(k, <<x>>, 1, 1).size = k.size
    <2>1. 1 \in Nat /\ 1 <= k.dataStart /\ 1 <= Len(<<x>>)
      BY <1>2, <1>3, GoodFields
    <2>. QED
      BY <1>2, <1>3, <2>1, PrependIsGood
  <1>4. CASE /\ ~Full(cur) /\ h' = h
             /\ chain' = [chain EXCEPT ![h] = Prepend(cur, <<x>>, 1, 1)]
    <2>1. /\ GoodBlock(Prepend(cur, <<x>>, 1, 1))
          /\ Prepend(cur, <<x>>, 1, 1).size = chain[h].size
      BY <1>1, <1>3, <1>4, GoodFields DEF Full, cur
    <2>. QED
      BY <1>1, <1>2, <1>4, <2>1, UpdateAndReturn, EmptyIsBytes
  <1> DEFINE put(k) == Prepend(InWriteRvsMode(k), <<x>>, 1, 1)
  <1>5. ASSUME NEW k, GoodBlock(k), k.size = BlkSize
        PROVE  GoodBlock(put(k)) /\ put(k).size = BlkSize
    <2>1. /\ GoodBlock(InWriteRvsMode(k)) /\ InWriteRvsMode(k).size = BlkSize
          /\ InWriteRvsMode(k).dataStart > 0
      BY <1>5, WriteRvsModeIsGood, BlkSizeAssumption
    <2>. QED
      BY <2>1, <1>3
  <1>6. CASE /\ h < Len(chain) /\ h' = h + 1
             /\ chain' = [chain EXCEPT ![h + 1] = put(chain[h + 1])]
    <2>1. /\ h + 1 \in DOMAIN chain /\ GoodBlock(chain[h + 1])
          /\ chain[h + 1].size = BlkSize
      BY <1>1, <1>6 DEF GoodChain
    <2>2. /\ GoodBlock(put(chain[h + 1]))
          /\ put(chain[h + 1]).size = chain[h + 1].size
      BY <1>5, <2>1
    <2>. QED
      BY <1>2, <1>6, <2>1, <2>2, UpdateAndReturn, EmptyIsBytes
  <1>7. CASE /\ h = Len(chain) /\ Len(chain) < MaxBlocks /\ h' = h + 1
             /\ chain' = Append(chain, put(FreshBlock))
    <2>1. GoodBlock(put(FreshBlock)) /\ put(FreshBlock).size = BlkSize
      BY <1>5, FreshIsGood
    <2> HIDE DEF put
    <2>2. GoodChain(chain') /\ Len(chain') = Len(chain) + 1
      BY <1>1, <1>7, <2>1, AppendIsGood
    <2>3. h' \in DOMAIN chain'
      BY <1>1, <1>7, <2>2, GoodChainDomain
    <2>. QED
      BY <1>2, <2>2, <2>3, ReturnsIsOK, EmptyIsBytes DEF Inv
  <1>8. CASE NoMoreBuffers(cur)
    <2>1. GoodBlock(WriteFault(cur)) /\ WriteFault(cur).size = chain[h].size
      BY <1>1, WriteFaultIsGood DEF cur
    <2>. QED
      BY <1>1, <1>2, <1>8, <2>1, UpdateAndReturn, EmptyIsBytes
      DEF NoMoreBuffers
  <1>. QED
    BY <1>4, <1>6, <1>7, <1>8 DEF PutByteRvs

LEMMA PutSegStep ==
  ASSUME Inv, WriteRefused \/ (\E s \in Segs : PutSegRvs(s)) PROVE Inv'
  <1>1. CASE WriteRefused
    BY <1>1, ReturnsIsOK, EmptyIsBytes DEF WriteRefused, Inv
  <1>2. ASSUME NEW s \in Segs, PutSegRvs(s) PROVE Inv'
    <2>1. Len(s) \in 0..MaxLen
      BY BoundsAssumption DEF Segs
    <2>2. /\ chain' = chain /\ h' = h /\ ret' = <<>>
          /\ call' = [op |-> "PutSegRvs", seg |-> s, len |-> Len(s),
                      got |-> <<>>, orig |-> 1]
      BY <1>2 DEF PutSegRvs, Idle
    <2>3. CallOK'
      BY <2>1, <2>2, GoodChainDomain, BoundsAssumption DEF Inv, CallOK, Call
    <2>. QED
      BY <2>2, <2>3, EmptyIsBytes DEF Inv, RetOK
  <1>. QED
    BY <1>1, <1>2

LEMMA PutSegLoopStep ==
  ASSUME Inv, PutSegRvsFits \/ PutSegRvsFills PROVE Inv'
  <1>1. /\ GoodChain(chain) /\ h \in 1..Len(chain) /\ h \in DOMAIN chain
        /\ GoodBlock(cur) /\ cur.dataStart \in Nat
    BY GoodChainDomain, GoodFields DEF Inv, GoodChain, cur
  <1>2. /\ call.seg \in Seq(Byte) /\ call.len \in Nat
        /\ call.op = "PutSegRvs" => call.len <= Len(call.seg)
    BY BoundsAssumption DEF Inv, CallOK, Call, Segs
  <1>3. CASE PutSegRvsFits
    <2> DEFINE k == Prepend(cur, call.seg, call.len, call.len)
    <2>1. GoodBlock(k) /\ k.size = chain[h].size
      BY <1>1, <1>2, <1>3, PrependIsGood DEF PutSegRvsFits, cur
    <2>. QED
      BY <1>1, <1>3, <2>1, UpdateAndReturn, EmptyIsBytes DEF PutSegRvsFits
  <1>4. CASE PutSegRvsFills
    <2> DEFINE full == Prepend(cur, call.seg, call.len, cur.dataStart)
    <2>1. GoodBlock(full) /\ full.size = cur.size
      BY <1>1, <1>2, <1>4, PrependIsGood DEF PutSegRvsFills
    <2> HIDE DEF full
    <2>2. CASE /\ MoveToPrev(full) /\ ret' = ret
               /\ call' = [call EXCEPT !.len = call.len - cur.dataStart]
      <3>1. /\ GoodChain(chain') /\ h' \in DOMAIN chain'
            /\ DOMAIN chain \subseteq DOMAIN chain'
        BY <2>1, <2>2, MoveToPrevIsOK
      <3>2. CallOK' /\ RetOK'
        <4>1. /\ call \in Call /\ call.op = "PutSegRvs"
              /\ call.orig \in DOMAIN chain' /\ cur.dataStart <= call.len
          BY <1>4, <3>1 DEF PutSegRvsFills, Inv, CallOK
        <4>2. call.len - cur.dataStart \in 0..MaxLen
          BY <1>1, <4>1, BoundsAssumption DEF Call
        <4>3. /\ call' \in Call /\ call'.op = "PutSegRvs"
              /\ call'.orig = call.orig /\ call'.seg = call.seg
              /\ call'.len = call.len - cur.dataStart
          BY <2>2, <4>1, <4>2 DEF Call
        <4>4. call'.len <= Len(call'.seg)
          BY <1>1, <1>2, <4>1, <4>3
        <4>5. ret' \in Seq(Byte)
          BY <2>2, <4>1 DEF Inv, RetOK, Idle
        <4>. QED
          BY <4>1, <4>3, <4>4, <4>5 DEF CallOK, RetOK
      <3>. QED
        BY <3>1, <3>2 DEF Inv
    <2>3. CASE NoMoreBuffers(full) /\ Returns(<<>>)
      <3>1. GoodBlock(WriteFault(full)) /\ WriteFault(full).size = chain[h].size
        BY <2>1, WriteFaultIsGood DEF cur
      <3>. QED
        BY <1>1, <2>3, <3>1, UpdateAndReturn, EmptyIsBytes DEF NoMoreBuffers
    <2>. QED
      BY <1>4, <2>2, <2>3 DEF PutSegRvsFills, full
  <1>. QED
    BY <1>3, <1>4

LEMMA SegStep ==
  ASSUME Inv, NEW n \in 0..MaxLen, GetSeg(n) \/ PeekSeg(n) PROVE Inv'
  <1>1. n \in Nat /\ Seg(n) \in Seq(Byte)
    BY SegIsWritten, BoundsAssumption
  <1>2. CASE GetSeg(n)
    <2>1. GoodChain(chain') /\ h' \in DOMAIN chain'
      BY <1>1, <1>2, TakesSegIsOK DEF GetSeg
    <2>. QED
      BY <1>1, <1>2, <2>1, ReturnsIsOK DEF GetSeg, Inv
  <1>3. CASE PeekSeg(n)
    BY <1>1, <1>3, ReturnsIsOK DEF PeekSeg, Inv
  <1>. QED
    BY <1>2, <1>3

LEMMA GetByteStep ==
  ASSUME Inv, GetByte PROVE Inv'
  <1>1. GoodChain(chain) /\ h \in 1..Len(chain) /\ Len(chain) \in Nat
        /\ DOMAIN chain = 1..Len(chain)
    BY GoodChainDomain DEF Inv
  <1>2. PICK j \in 1..h :
          LET i == IF AtEod(chain[j]) /\ j > 1 THEN j - 1 ELSE j
              k == IF i = j THEN chain[i] ELSE AtDataStart(chain[i])
          IN /\ h' = i
             /\ \/ /\ AtEod(k)
                   /\ chain' = [chain EXCEPT ![i] = ReadFault(k)]
                   /\ Returns(<<>>)
                \/ /\ ~AtEod(k)
                   /\ chain' = [chain EXCEPT ![i] = Advance(k, 1)]
                   /\ Returns(BytesAt(k, k.curr, 1))
    BY DEF GetByte
  <1> DEFINE i == IF AtEod(chain[j]) /\ j > 1 THEN j - 1 ELSE j
             k == IF i = j THEN chain[i] ELSE AtDataStart(chain[i])
  <1>3. i \in DOMAIN chain /\ GoodBlock(chain[i])
    BY <1>1 DEF GoodChain
  <1>4. GoodBlock(k) /\ k.size = chain[i].size
    BY <1>3, AtDataStartIsGood
  <1>5. /\ h' = i
        /\ \/ /\ AtEod(k)
              /\ chain' = [chain EXCEPT ![i] = ReadFault(k)]
              /\ Returns(<<>>)
           \/ /\ ~AtEod(k)
              /\ chain' = [chain EXCEPT ![i] = Advance(k, 1)]
              /\ Returns(BytesAt(k, k.curr, 1))
    BY <1>2
  <1> HIDE DEF i, k
  <1>6. CASE /\ chain' = [chain EXCEPT ![i] = ReadFault(k)] /\ Returns(<<>>)
    <2>1. GoodBlock(ReadFault(k)) /\ ReadFault(k).size = chain[i].size
      BY <1>4, ReadFaultIsGood
    <2>. QED
      BY <1>3, <1>5, <1>6, <2>1, UpdateAndReturn, EmptyIsBytes
  <1>7. CASE /\ ~AtEod(k) /\ chain' = [chain EXCEPT ![i] = Advance(k, 1)]
             /\ Returns(BytesAt(k, k.curr, 1))
    <2>1. 1 \in Nat /\ 1 <= Left(k)
      BY <1>4, <1>7, GoodFields DEF AtEod, Left, GoodBlock
    <2>2. GoodBlock(Advance(k, 1)) /\ Advance(k, 1).size = chain[i].size
      BY <1>4, <2>1, AdvanceIsGood
    <2>3. BytesAt(k, k.curr, 1) \in Seq(Byte)
      BY <1>4, <2>1, BytesAreWritten
    <2>. QED
      BY <1>3, <1>5, <1>7, <2>2, <2>3, UpdateAndReturn
  <1>. QED
    BY <1>5, <1>6, <1>7

LEMMA PeekByteStep ==
  ASSUME Inv, PeekByte PROVE Inv'
  <1>1. GoodChain(chain) /\ h \in DOMAIN chain /\ GoodBlock(cur)
    BY GoodChainDomain DEF Inv, GoodChain, cur
  <1>2. CASE /\ chain' = [chain EXCEPT ![h] = ReadFault(cur)] /\ h' = h
             /\ \E x \in Cell : Returns(<<x>>)
    <2>1. /\ GoodBlock(ReadFault(cur)) /\ ReadFault(cur).readError
          /\ ReadFault(cur).size = chain[h].size
      BY <1>1, ReadFaultIsGood DEF cur
    <2>2. /\ GoodChain(chain') /\ DOMAIN chain' = DOMAIN chain
          /\ chain'[h] = ReadFault(cur)
      BY <1>1, <1>2, <2>1, ChainUpdate
    <2>3. ret' \in Seq(Cell) /\ call' = Idle
      BY <1>2 DEF Returns
    <2>4. CallOK'
      BY <2>2, <2>3, IdleIsOK
    <2>. QED
      BY <1>1, <1>2, <2>1, <2>2, <2>3, <2>4 DEF Inv, RetOK, cur
  <1>3. CASE /\ ~AtEod(cur) /\ chain' = chain /\ h' = h
             /\ Returns(BytesAt(cur, cur.curr, 1))
    <2>1. 1 \in Nat /\ 1 <= Left(cur)
      BY <1>1, <1>3, GoodFields DEF AtEod, Left, GoodBlock
    <2>2. BytesAt(cur, cur.curr, 1) \in Seq(Byte)
      BY <1>1, <2>1, BytesAreWritten
    <2>. QED
      BY <1>1, <1>3, <2>2, ReturnsIsOK DEF Inv
  <1>. QED
    BY <1>2, <1>3 DEF PeekByte

LEMMA BeginStep ==
  ASSUME Inv, NEW n \in 0..MaxLen, Copy(n) \/ Skip(n) \/ PeekCopy(n)
  PROVE  Inv'
  <1>1. PICK op \in {"Copy", "Skip", "PeekCopy"} : Begin(op, n)
    BY DEF Copy, Skip, PeekCopy
  <1>2. /\ chain' = chain /\ h' = h /\ ret' = <<>>
        /\ call' = [op |-> op, seg |-> <<>>, len |-> n, got |-> <<>>, orig |-> h]
    BY <1>1 DEF Begin, Idle
  <1>3. h \in 1..MaxBlocks
    BY GoodChainDomain, BoundsAssumption DEF Inv, GoodChain
  <1>5. <<>> \in Segs
    BY BoundsAssumption DEF Segs
  <1>4. CallOK'
    BY <1>2, <1>3, <1>5, BoundsAssumption DEF Inv, CallOK, Call
  <1>. QED
    BY <1>2, <1>4, EmptyIsBytes DEF Inv, RetOK

\* What a reading loop has gathered, and what the next segment adds to it.
LEMMA Gathering ==
  ASSUME Inv, call.op \in {"Copy", "Skip", "PeekCopy"}
  PROVE  LET n == call.len - Len(call.got) got == call.got \o Seg(n)
         IN /\ n \in Nat /\ got \in Seq(Byte) /\ Len(got) <= call.len
            /\ call.got \in Seq(Byte) /\ ret \in Seq(Byte)
  <1> DEFINE n == call.len - Len(call.got)
             got == call.got \o Seg(n)
  <1>1. /\ call.len \in Nat /\ call.got \in Seq(Byte) /\ Len(call.got) \in Nat
        /\ Len(call.got) <= call.len
    BY BoundsAssumption DEF Inv, CallOK, Call
  <1>2. n \in Nat
    BY <1>1
  <1>3. Seg(n) \in Seq(Byte) /\ Len(Seg(n)) <= n /\ Len(Seg(n)) \in Nat
    BY <1>2, SegIsWritten
  <1>4. got \in Seq(Byte) /\ Len(got) = Len(call.got) + Len(Seg(n))
    BY <1>1, <1>3
  <1>5. Len(got) <= call.len
    <2>1. n + Len(call.got) = call.len
      BY <1>1
    <2> HIDE DEF n, got
    <2>2. \A x, y, z, g, l \in Nat : x <= n /\ n + y = l /\ g = y + x => g <= l
      BY <1>2
    <2>3. Len(got) \in Nat
      BY <1>4
    <2>. QED
      BY <1>1, <1>2, <1>3, <1>4, <2>1, <2>2, <2>3
  <1>6. ret \in Seq(Byte)
    BY DEF Inv, RetOK, Idle
  <1>. QED
    BY <1>1, <1>2, <1>4, <1>5, <1>6

\* A reading loop goes round once more.
LEMMA GatheringGoesOn ==
  ASSUME Inv, call.op \in {"Copy", "Skip", "PeekCopy"},
         NEW got \in Seq(Byte), Len(got) <= call.len, ret \in Seq(Byte),
         GoodChain(chain'), DOMAIN chain' = DOMAIN chain, h' \in DOMAIN chain',
         call' = [call EXCEPT !.got = got], ret' = ret
  PROVE  Inv'
  <1>1. call \in Call /\ call.orig \in DOMAIN chain'
    BY DEF Inv, CallOK
  <1>2. /\ call' \in Call /\ call'.op = call.op /\ call'.orig = call.orig
        /\ call'.len = call.len /\ call'.got = got
    BY <1>1 DEF Call
  <1>3. CallOK'
    BY <1>1, <1>2 DEF CallOK
  <1>. QED
    BY <1>3 DEF Inv, RetOK

LEMMA CopyStep ==
  ASSUME Inv, CopyIteration PROVE Inv'
  <1> DEFINE n == call.len - Len(call.got)
             got == call.got \o Seg(n)
  <1>1. /\ n \in Nat /\ got \in Seq(Byte) /\ Len(got) <= call.len
        /\ ret \in Seq(Byte) /\ call.op = "Copy"
    BY Gathering DEF CopyIteration
  <1>2. GoodChain(chain) /\ h \in DOMAIN chain /\ GoodBlock(cur)
    BY GoodChainDomain DEF Inv, GoodChain, cur
  <1>3. CASE /\ chain' = [chain EXCEPT ![h] = ReadFault(cur)] /\ h' = h
             /\ Returns(got)
    <2>1. GoodBlock(ReadFault(cur)) /\ ReadFault(cur).size = chain[h].size
      BY <1>2, ReadFaultIsGood DEF cur
    <2> HIDE DEF got
    <2>. QED
      BY <1>1, <1>2, <1>3, <2>1, UpdateAndReturn
  <1>4. CASE TakesSeg(n) /\ call' = [call EXCEPT !.got = got] /\ ret' = ret
    <2> HIDE DEF n, got
    <2>1. /\ GoodChain(chain') /\ h' \in DOMAIN chain'
          /\ DOMAIN chain' = DOMAIN chain
      BY <1>1, <1>4, TakesSegIsOK
    <2>. QED
      BY <1>1, <1>4, <2>1, GatheringGoesOn
  <1>5. CASE TakesSeg(n) /\ Returns(got)
    <2> HIDE DEF n, got
    <2>1. GoodChain(chain') /\ h' \in DOMAIN chain'
      BY <1>1, <1>5, TakesSegIsOK
    <2>. QED
      BY <1>1, <1>5, <2>1, ReturnsIsOK DEF Inv
  <1>. QED
    BY <1>3, <1>4, <1>5 DEF CopyIteration

LEMMA SkipStep ==
  ASSUME Inv, SkipIteration PROVE Inv'
  <1> DEFINE n == call.len - Len(call.got)
             got == call.got \o Seg(n)
  <1>1. /\ n \in Nat /\ got \in Seq(Byte) /\ Len(got) <= call.len
        /\ ret \in Seq(Byte) /\ call.op = "Skip"
    BY Gathering DEF SkipIteration
  <1>2. CASE TakesSeg(n) /\ call' = [call EXCEPT !.got = got] /\ ret' = ret
    <2> HIDE DEF n, got
    <2>1. /\ GoodChain(chain') /\ h' \in DOMAIN chain'
          /\ DOMAIN chain' = DOMAIN chain
      BY <1>1, <1>2, TakesSegIsOK
    <2>. QED
      BY <1>1, <1>2, <2>1, GatheringGoesOn
  <1>3. CASE UNCHANGED <<chain, h>> /\ Returns(<<>>)
    BY <1>3, ReturnsIsOK, EmptyIsBytes DEF Inv
  <1>. QED
    BY <1>2, <1>3 DEF SkipIteration

LEMMA PeekCopyStep ==
  ASSUME Inv, PeekCopyIteration PROVE Inv'
  <1> DEFINE n == call.len - Len(call.got)
             got == call.got \o Seg(n)
  <1>1. /\ n \in Nat /\ got \in Seq(Byte) /\ Len(got) <= call.len
        /\ ret \in Seq(Byte) /\ call.op = "PeekCopy"
    BY Gathering DEF PeekCopyIteration
  <1>2. /\ GoodChain(chain) /\ h \in DOMAIN chain /\ GoodBlock(cur)
        /\ DOMAIN chain = 1..Len(chain) /\ Len(chain) \in Nat
        /\ call.orig \in DOMAIN chain
    BY GoodChainDomain DEF Inv, GoodChain, CallOK, cur
  <1>3. CASE chain' = chain /\ h' = call.orig /\ Returns(got)
    <2> HIDE DEF got
    <2>. QED
      BY <1>1, <1>2, <1>3, ReturnsIsOK DEF Inv
  <1>4. CASE /\ chain' = [chain EXCEPT ![h] = ReadFault(cur)]
             /\ h' = call.orig /\ Returns(got)
    <2>1. GoodBlock(ReadFault(cur)) /\ ReadFault(cur).size = chain[h].size
      BY <1>2, ReadFaultIsGood DEF cur
    <2> HIDE DEF got
    <2>. QED
      BY <1>1, <1>2, <1>4, <2>1, UpdateAndReturn
  <1>5. ASSUME NEW j \in 1..(h - 1), h' = j,
               chain' = [chain EXCEPT ![j] = AtDataStart(chain[j])],
               call' = [call EXCEPT !.got = got], ret' = ret
        PROVE  Inv'
    <2>1. /\ j \in DOMAIN chain /\ GoodBlock(AtDataStart(chain[j]))
          /\ AtDataStart(chain[j]).size = chain[j].size
      BY <1>2, AtDataStartIsGood DEF GoodChain
    <2>2. /\ GoodChain(chain') /\ h' \in DOMAIN chain'
          /\ DOMAIN chain' = DOMAIN chain
      BY <1>2, <1>5, <2>1, ChainUpdate
    <2> HIDE DEF got
    <2>. QED
      BY <1>1, <1>5, <2>2, GatheringGoesOn
  <1>. QED
    BY <1>3, <1>4, <1>5 DEF PeekCopyIteration

-----------------------------------------------------------------------------

LEMMA InitHolds ==
  ASSUME Init PROVE Inv
  <1>1. GoodChain(chain) /\ DOMAIN chain = 1..1
    BY FreshIsGood, SingleIsGood, GoodChainDomain DEF Init
  <1>2. CallOK
    <2>1. <<>> \in Segs /\ 0 \in 0..MaxLen /\ 1 \in 1..MaxBlocks
      <3>1. <<>> \in [1..0 -> Byte]
        OBVIOUS
      <3>2. 0 \in 0..MaxLen /\ 1 \in 1..MaxBlocks
        BY BoundsAssumption
      <3>3. [1..0 -> Byte] \in {[1..n -> Byte] : n \in 0..MaxLen}
        BY <3>2
      <3>. QED
        BY <3>1, <3>2, <3>3 DEF Segs
    <2>2. Idle \in Call /\ Idle.orig = 1 /\ Idle.op = "idle" /\ Len(Idle.got) = 0 /\ Idle.len = 0
      BY <2>1 DEF Call, Idle
    <2>. QED
      BY <1>1, <2>2 DEF Init, CallOK
  <1>. QED
    BY <1>1, <1>2, EmptyIsBytes DEF Init, Inv, RetOK

LEMMA StepHolds ==
  ASSUME Inv, [Next]_vars PROVE Inv'
  <1>1. CASE Modes
    BY <1>1, ModesStep
  <1>2. CASE \E i \in DOMAIN chain : Seat(i)
    BY <1>2, SeatStep
  <1>3. CASE Writes
    BY <1>3, PutSegStep, PutByteStep DEF Writes
  <1>4. CASE Reads
    BY <1>4, GetByteStep, PeekByteStep, SegStep, BeginStep DEF Reads
  <1>5. CASE Loop
    BY <1>5, PutSegLoopStep, CopyStep, SkipStep, PeekCopyStep DEF Loop
  <1>6. CASE UNCHANGED vars
    BY <1>6 DEF vars, Inv, CallOK, RetOK, cur
  <1>. QED
    BY <1>1, <1>2, <1>3, <1>4, <1>5, <1>6 DEF Next

LEMMA InvHolds == Spec => []Inv
  <1>1. Init => Inv
    BY InitHolds
  <1>2. Inv /\ [Next]_vars => Inv'
    BY StepHolds
  <1>. QED
    BY <1>1, <1>2, PTL DEF Spec

(* The state of an ExpBuf keeps its types, and the caller's handle stays   *)
(* on a buffer of the list, whatever calls are made in whatever order.     *)
THEOREM TypeCorrect == Spec => []TypeOK
  <1>1. Inv => TypeOK
    BY DEF Inv, GoodChain, CallOK, RetOK, TypeOK, Cell
  <1>. QED
    BY <1>1, InvHolds, PTL

(* The pointers of every block stay in order (exp-buf.h:84-92): no read or *)
(* write of any routine falls outside its block.                           *)
THEOREM PointersStayInOrder == Spec => []PointersOK
  <1>1. Inv => PointersOK
    BY GoodChainDomain DEF Inv, GoodChain, GoodBlock, PointersOK
  <1>. QED
    BY <1>1, InvHolds, PTL

(* The bytes at and after dataStart or curr have been written by a caller. *)
THEOREM DataIsWritten == Spec => []DataWritten
  <1>1. Inv => DataWritten
    BY GoodChainDomain DEF Inv, GoodChain, GoodBlock, DataWritten
  <1>. QED
    BY <1>1, InvHolds, PTL

(* No call hands out memory nobody wrote without setting readError.        *)
THEOREM ReadsAreInitialised == Spec => []NoUninitialisedRead
  <1>1. Inv => NoUninitialisedRead
    <2> SUFFICES ASSUME Inv, NEW j \in DOMAIN ret, ret[j] = Junk
                 PROVE  call = Idle /\ cur.readError
      BY DEF NoUninitialisedRead
    <2>1. ret \notin Seq(Byte)
      BY JunkAssumption
    <2>. QED
      BY <2>1 DEF Inv, RetOK
  <1>. QED
    BY <1>1, InvHolds, PTL

-----------------------------------------------------------------------------
(* Induction over numbers, from the theorem that finite sets have minimal  *)
(* elements.                                                               *)

LEMMA SmallestOf ==
  ASSUME NEW T, T \subseteq Nat, T # {}
  PROVE  \E x \in T : \A y \in T : x <= y
  <1>1. PICK n \in T : TRUE
    OBVIOUS
  <1> DEFINE R == StrictSubsetOrdering(0..n)
             S == FiniteSubsetsOf(0..n)
             F == {0..k : k \in {j \in T : j <= n}}
  <1>2. IsWellFoundedOn(R, S)
    BY FS_StrictSubsetOrderingWellFounded
  <1>3. n \in Nat /\ IsFiniteSet(0..n)
    BY FS_Interval
  <1>4. S = SUBSET (0..n)
    BY <1>3, FS_FiniteSubsetsOfFinite
  <1>5. F \subseteq S /\ F # {}
    BY <1>1, <1>3, <1>4
  <1> HIDE DEF R, S, F
  <1>6. \E X \in F : \A Y \in F : <<Y, X>> \notin R
    BY <1>2, <1>5, WFMin
  <1>7. PICK k \in T : k <= n /\ \A Y \in F : <<Y, 0..k>> \notin R
    BY <1>6 DEF F
  <1>8. ASSUME NEW y \in T, y < k PROVE FALSE
    <2>1. 0..y \in F
      BY <1>3, <1>7, <1>8 DEF F
    <2>2. <<0..y, 0..k>> \in R
      BY <1>3, <1>7, <1>8 DEF R, StrictSubsetOrdering
    <2>. QED
      BY <1>7, <2>1, <2>2
  <1>. QED
    BY <1>7, <1>8

LEMMA UpTo ==
  ASSUME NEW n \in Nat, NEW S, 0 \in S, \A k \in 0..(n - 1) : k \in S => k + 1 \in S
  PROVE  \A k \in 0..n : k \in S
  <1> DEFINE Bad == {k \in 0..n : k \notin S}
  <1> SUFFICES ASSUME Bad # {} PROVE FALSE
    OBVIOUS
  <1>1. Bad \subseteq Nat
    OBVIOUS
  <1> HIDE DEF Bad
  <1>2. PICK k \in Bad : \A j \in Bad : k <= j
    BY <1>1, SmallestOf
  <1>3. k \in 0..n /\ k \notin S /\ k # 0
    BY DEF Bad
  <1>4. k - 1 \in 0..(n - 1) /\ k - 1 \notin Bad
    BY <1>1, <1>2, <1>3
  <1>5. k - 1 \in S
    BY <1>3, <1>4 DEF Bad
  <1>. QED
    BY <1>3, <1>4, <1>5

\* ConcatAssociative, of bytes.
LEMMA Regroup ==
  ASSUME NEW a \in Seq(Byte), NEW b \in Seq(Byte), NEW d \in Seq(Byte)
  PROVE  (a \o b) \o d = a \o (b \o d)
  BY ConcatAssociative

-----------------------------------------------------------------------------
(* The data of the first blocks of a list, in reading order.               *)

\* DataFrom(i), of any list.
Whole(c, i) ==
  LET f[j \in 0..i] == IF j = 0 THEN <<>> ELSE Data(c[j]) \o f[j - 1]
  IN f[i]

\* The function that defines it.
IsWhole(f, c, i) ==
  f = [j \in 0..i |-> IF j = 0 THEN <<>> ELSE Data(c[j]) \o f[j - 1]]

LEMMA WholeExists ==
  ASSUME NEW c, NEW i \in Nat PROVE \E f : IsWhole(f, c, i)
  <1> DEFINE S == {k \in 0..i : \E f : IsWhole(f, c, k)}
  <1>1. 0 \in S
    <2> DEFINE f == [j \in 0..0 |-> <<>>]
    <2>1. IsWhole(f, c, 0)
      BY DEF IsWhole
    <2>. QED
      BY <2>1
  <1>2. ASSUME NEW k \in 0..(i - 1), k \in S PROVE k + 1 \in S
    <2>1. PICK f : IsWhole(f, c, k)
      BY <1>2
    <2>2. k \in Nat /\ k + 1 \in 0..i
      OBVIOUS
    <2> DEFINE g == [j \in 0..(k + 1) |-> IF j <= k THEN f[j] ELSE Data(c[k + 1]) \o f[k]]
               r == [j \in 0..(k + 1) |-> IF j = 0 THEN <<>> ELSE Data(c[j]) \o g[j - 1]]
    <2>3. f = [j \in 0..k |-> IF j = 0 THEN <<>> ELSE Data(c[j]) \o f[j - 1]]
      BY <2>1 DEF IsWhole
    <2>4. ASSUME NEW j \in 0..(k + 1) PROVE g[j] = r[j]
      <3>1. CASE j <= k
        BY <2>2, <2>3, <3>1
      <3>2. CASE j = k + 1
        BY <2>2, <3>2
      <3>. QED
        BY <2>2, <3>1, <3>2
    <2>5. g = [j \in 0..(k + 1) |-> g[j]] /\ r = [j \in 0..(k + 1) |-> r[j]]
      OBVIOUS
    <2> HIDE DEF g, r
    <2>6. g = r
      BY <2>4, <2>5
    <2>7. IsWhole(g, c, k + 1)
      BY <2>6 DEF IsWhole, r
    <2>. QED
      BY <2>2, <2>7
  <1> HIDE DEF S
  <1>3. i \in S
    BY <1>1, <1>2, UpTo
  <1>. QED
    BY <1>3 DEF S

LEMMA WholeRow ==
  ASSUME NEW c, NEW i \in Nat
  PROVE  \E f : IsWhole(f, c, i) /\ Whole(c, i) = f[i]
  <1> DEFINE Row(f) == [j \in 0..i |-> IF j = 0 THEN <<>> ELSE Data(c[j]) \o f[j - 1]]
             f == CHOOSE f : f = Row(f)
  <1>1. \E g : g = Row(g)
    BY WholeExists DEF IsWhole
  <1>2. f = Row(f)
    BY <1>1
  <1>3. Whole(c, i) = f[i]
    BY DEF Whole
  <1> HIDE DEF f
  <1>. QED
    BY <1>2, <1>3 DEF IsWhole

LEMMA RowsAgree ==
  ASSUME NEW c, NEW d, NEW f, NEW g, NEW m \in Nat, NEW n \in Nat, m <= n,
         IsWhole(f, c, m), IsWhole(g, d, n), \A j \in 1..m : Data(c[j]) = Data(d[j])
  PROVE  \A k \in 0..m : f[k] = g[k]
  <1> DEFINE S == {k \in 0..m : f[k] = g[k]}
  <1>1. /\ \A k \in 0..m : f[k] = IF k = 0 THEN <<>> ELSE Data(c[k]) \o f[k - 1]
        /\ \A k \in 0..n : g[k] = IF k = 0 THEN <<>> ELSE Data(d[k]) \o g[k - 1]
    BY DEF IsWhole
  <1>2. 0 \in S
    BY <1>1
  <1>3. ASSUME NEW k \in 0..(m - 1), k \in S PROVE k + 1 \in S
    <2>1. k + 1 \in 0..m /\ k + 1 \in 0..n /\ k + 1 # 0 /\ k + 1 \in 1..m
      OBVIOUS
    <2>2. (k + 1) - 1 = k
      OBVIOUS
    <2>3. f[k + 1] = Data(c[k + 1]) \o f[k] /\ g[k + 1] = Data(d[k + 1]) \o g[k]
      BY <1>1, <2>1, <2>2
    <2>. QED
      BY <1>3, <2>1, <2>3
  <1> HIDE DEF S
  <1>4. \A k \in 0..m : k \in S
    BY <1>2, <1>3, UpTo
  <1>. QED
    BY <1>4 DEF S

LEMMA WholeIsData ==
  ASSUME NEW c
  PROVE  /\ Whole(c, 0) = <<>>
         /\ \A i \in Nat \ {0} : Whole(c, i) = Data(c[i]) \o Whole(c, i - 1)
  <1>1. Whole(c, 0) = <<>>
    <2>1. PICK f : IsWhole(f, c, 0) /\ Whole(c, 0) = f[0]
      BY WholeRow
    <2>. QED
      BY <2>1 DEF IsWhole
  <1>2. ASSUME NEW i \in Nat \ {0} PROVE Whole(c, i) = Data(c[i]) \o Whole(c, i - 1)
    <2>1. i \in Nat /\ i - 1 \in Nat /\ i - 1 <= i /\ i - 1 \in 0..(i - 1)
      OBVIOUS
    <2>2. PICK f : IsWhole(f, c, i) /\ Whole(c, i) = f[i]
      BY <2>1, WholeRow
    <2>3. PICK g : IsWhole(g, c, i - 1) /\ Whole(c, i - 1) = g[i - 1]
      BY <2>1, WholeRow
    <2>4. g[i - 1] = f[i - 1]
      <3>1. \A k \in 0..(i - 1) : g[k] = f[k]
        BY <2>1, <2>2, <2>3, RowsAgree
      <3>. QED
        BY <2>1, <3>1
    <2>5. f[i] = Data(c[i]) \o f[i - 1]
      <3>1. i \in 0..i /\ i # 0
        BY <2>1
      <3>. QED
        BY <2>2, <3>1 DEF IsWhole
    <2>. QED
      BY <2>2, <2>3, <2>4, <2>5
  <1>. QED
    BY <1>1, <1>2

\* Only the data of the blocks counts.
LEMMA WholeOfSameData ==
  ASSUME NEW c, NEW d, NEW i \in Nat, \A j \in 1..i : Data(c[j]) = Data(d[j])
  PROVE  Whole(c, i) = Whole(d, i)
  <1>1. PICK f : IsWhole(f, c, i) /\ Whole(c, i) = f[i]
    BY WholeRow
  <1>2. PICK g : IsWhole(g, d, i) /\ Whole(d, i) = g[i]
    BY WholeRow
  <1>3. \A k \in 0..i : f[k] = g[k]
    BY <1>1, <1>2, RowsAgree
  <1>. QED
    BY <1>1, <1>2, <1>3

LEMMA DataIsBytes ==
  ASSUME NEW k, GoodBlock(k)
  PROVE  Data(k) \in Seq(Byte) /\ Len(Data(k)) = k.dataEnd - k.dataStart
  <1>1. k.dataStart \in Nat /\ k.dataEnd - k.dataStart \in Nat /\ k.dataEnd = k.size
    BY GoodFields DEF GoodBlock
  <1>2. \A j \in 1..(k.dataEnd - k.dataStart) : k.mem[k.dataStart + j - 1] \in Byte
    <2> TAKE j \in 1..(k.dataEnd - k.dataStart)
    <2>1. k.dataStart + j - 1 \in 0..(k.size - 1) /\ k.dataStart + j - 1 >= k.dataStart
      BY <1>1, GoodFields
    <2>. QED
      BY <2>1 DEF GoodBlock
  <1>3. Data(k) \in [1..(k.dataEnd - k.dataStart) -> Byte]
    BY <1>2 DEF Data, BytesAt
  <1>. QED
    BY <1>1, <1>3

LEMMA WholeIsBytes ==
  ASSUME NEW c, GoodChain(c), NEW i \in 0..Len(c)
  PROVE  Whole(c, i) \in Seq(Byte)
  <1> DEFINE S == {k \in 0..i : Whole(c, k) \in Seq(Byte)}
  <1>1. i \in Nat /\ Len(c) \in Nat
    BY GoodChainDomain
  <1>2. 0 \in S
    <2>1. 0 \in 0..i /\ Whole(c, 0) = <<>>
      BY <1>1, WholeIsData
    <2>. QED
      BY <2>1, EmptyIsBytes
  <1>3. ASSUME NEW k \in 0..(i - 1), k \in S PROVE k + 1 \in S
    <2>1. k + 1 \in 1..Len(c) /\ k + 1 \in Nat \ {0} /\ (k + 1) - 1 = k /\ k + 1 \in 0..i
      BY <1>1
    <2>2. GoodBlock(c[k + 1])
      BY <2>1 DEF GoodChain
    <2>3. Whole(c, k + 1) = Data(c[k + 1]) \o Whole(c, k)
      <3>1. Whole(c, k + 1) = Data(c[k + 1]) \o Whole(c, (k + 1) - 1)
        BY <2>1, WholeIsData
      <3>. QED
        BY <2>1, <3>1
    <2>4. Data(c[k + 1]) \in Seq(Byte) /\ Whole(c, k) \in Seq(Byte)
      BY <1>3, <2>2, DataIsBytes
    <2>5. Data(c[k + 1]) \o Whole(c, k) \in Seq(Byte)
      BY <2>4, ConcatProperties
    <2>. QED
      BY <2>1, <2>3, <2>5
  <1> HIDE DEF S
  <1>4. \A k \in 0..i : k \in S
    BY <1>1, <1>2, <1>3, UpTo
  <1>5. i \in S
    BY <1>1, <1>4
  <1>. QED
    BY <1>5 DEF S

\* Empty blocks add nothing.
LEMMA WholeOverEmpty ==
  ASSUME NEW c, GoodChain(c), NEW i \in 0..Len(c), NEW j \in 0..i,
         \A k \in (j + 1)..i : Data(c[k]) = <<>>
  PROVE  Whole(c, i) = Whole(c, j)
  <1> DEFINE n == i - j
             S == {k \in 0..n : Whole(c, j + k) = Whole(c, j)}
  <1>1. i \in Nat /\ j \in Nat /\ Len(c) \in Nat /\ n \in Nat /\ j + 0 = j
    BY GoodChainDomain
  <1>2. 0 \in S
    BY <1>1
  <1>3. ASSUME NEW k \in 0..(n - 1), k \in S PROVE k + 1 \in S
    <2>1. /\ j + k + 1 \in (j + 1)..i /\ j + k + 1 \in Nat \ {0}
          /\ (j + k + 1) - 1 = j + k /\ k + 1 \in 0..n /\ j + k \in 0..Len(c)
          /\ j + (k + 1) = j + k + 1
      BY <1>1
    <2>2. Whole(c, j + k + 1) = <<>> \o Whole(c, j + k)
      <3>1. Whole(c, j + k + 1) = Data(c[j + k + 1]) \o Whole(c, (j + k + 1) - 1)
        BY <2>1, WholeIsData
      <3>. QED
        BY <2>1, <3>1
    <2>3. Whole(c, j + k) \in Seq(Byte)
      BY <2>1, WholeIsBytes
    <2>4. Whole(c, j + k + 1) = Whole(c, j + k)
      BY <2>2, <2>3, ConcatEmptySeq
    <2>. QED
      BY <1>3, <2>1, <2>4
  <1> HIDE DEF S, n
  <1>4. \A k \in 0..n : k \in S
    BY <1>1, <1>2, <1>3, UpTo
  <1>5. n \in S
    BY <1>1, <1>4
  <1>6. j + n = i
    BY <1>1 DEF n
  <1>. QED
    BY <1>5, <1>6 DEF S

-----------------------------------------------------------------------------
(* What the routines make of the data of one block.                        *)

\* The bytes of a block not yet read.
Rest(k) == BytesAt(k, k.curr, Left(k))

LEMMA RestIsBytes ==
  ASSUME NEW k, GoodBlock(k)
  PROVE  /\ Left(k) \in Nat /\ Rest(k) \in Seq(Byte) /\ Len(Rest(k)) = Left(k)
         /\ AtEod(k) <=> Left(k) = 0
  <1>1. Left(k) \in Nat /\ (AtEod(k) <=> Left(k) = 0)
    BY GoodFields DEF Left, AtEod, GoodBlock
  <1>2. Left(k) <= Left(k)
    BY <1>1
  <1>. QED
    BY <1>1, <1>2, BytesAreWritten DEF Rest

LEMMA SameBytes ==
  ASSUME NEW k, NEW r, r.mem = k.mem, r.dataStart = k.dataStart, r.dataEnd = k.dataEnd
  PROVE  Data(r) = Data(k) /\ (r.curr = k.curr => Rest(r) = Rest(k))
  BY DEF Data, Rest, Left, BytesAt

LEMMA FaultFields ==
  ASSUME NEW k, GoodBlock(k)
  PROVE  /\ Data(ReadFault(k)) = Data(k) /\ Rest(ReadFault(k)) = Rest(k)
         /\ ReadFault(k).dataStart = k.dataStart /\ ReadFault(k).curr = k.curr
         /\ ReadFault(k).readError = TRUE /\ AtEod(ReadFault(k)) = AtEod(k)
         /\ Data(WriteFault(k)) = Data(k)
         /\ WriteFault(k).dataStart = k.dataStart /\ WriteFault(k).writeError = TRUE
  <1>0. k \in Block
    BY GoodFields
  <1>1. LET r == ReadFault(k)
        IN /\ r.mem = k.mem /\ r.dataStart = k.dataStart /\ r.dataEnd = k.dataEnd
           /\ r.curr = k.curr /\ r.readError = TRUE
    BY <1>0 DEF ReadFault, Block
  <1>2. LET r == WriteFault(k)
        IN /\ r.mem = k.mem /\ r.dataStart = k.dataStart /\ r.dataEnd = k.dataEnd
           /\ r.writeError = TRUE
    BY <1>0 DEF WriteFault, Block
  <1>. QED
    BY <1>1, <1>2, SameBytes DEF AtEod

LEMMA ReadModeFields ==
  ASSUME NEW k, GoodBlock(k)
  PROVE  /\ Data(InReadMode(k)) = Data(k) /\ Rest(InReadMode(k)) = Data(k)
         /\ InReadMode(k).dataStart = k.dataStart /\ InReadMode(k).curr = k.dataStart
         /\ InReadMode(k).readError = FALSE
  <1>0. k \in Block
    BY GoodFields
  <1>1. LET r == InReadMode(k)
        IN /\ r.mem = k.mem /\ r.dataStart = k.dataStart /\ r.dataEnd = k.dataEnd
           /\ r.curr = k.dataStart /\ r.readError = FALSE
    BY <1>0 DEF InReadMode, Block
  <1>2. Rest(InReadMode(k)) = Data(InReadMode(k))
    BY <1>1 DEF Rest, Data, Left
  <1>. QED
    BY <1>1, <1>2, SameBytes

LEMMA WriteModeFields ==
  ASSUME NEW k, GoodBlock(k)
  PROVE  Data(InWriteRvsMode(k)) = <<>> /\ InWriteRvsMode(k).writeError = FALSE
  <1>0. k \in Block /\ k.size \in Nat
    BY GoodFields
  <1>1. LET r == InWriteRvsMode(k)
        IN r.dataStart = k.size /\ r.dataEnd = k.size /\ r.writeError = FALSE
    BY <1>0 DEF InWriteRvsMode, Block
  <1>2. GoodBlock(InWriteRvsMode(k))
    BY WriteRvsModeIsGood
  <1>3. Data(InWriteRvsMode(k)) \in Seq(Byte) /\ Len(Data(InWriteRvsMode(k))) = 0
    BY <1>0, <1>1, <1>2, DataIsBytes
  <1>. QED
    BY <1>1, <1>3

LEMMA FreshFields ==
  Data(FreshBlock) = <<>> /\ FreshBlock.writeError = FALSE
  <1>1. Data(FreshBlock) \in Seq(Byte) /\ Len(Data(FreshBlock)) = 0
    BY FreshIsGood, DataIsBytes, BlkSizeAssumption DEF FreshBlock
  <1>. QED
    BY <1>1 DEF FreshBlock

LEMMA InstalledFields ==
  ASSUME NEW s \in Segs
  PROVE  /\ Rest(InstalledBlock(s)) \in Seq(Byte)
         /\ InstalledBlock(s).readError = FALSE
  BY InstalledIsGood, RestIsBytes DEF InstalledBlock

\* The read pointer at the start already: nothing to set.
LEMMA AlreadyAtDataStart ==
  ASSUME NEW k \in Block, k.curr = k.dataStart PROVE AtDataStart(k) = k
  BY DEF AtDataStart, Block

LEMMA ReadyBlock ==
  ASSUME NEW c, GoodChain(c), NEW j \in 1..Len(c), c[j].curr = c[j].dataStart
  PROVE  [c EXCEPT ![j] = AtDataStart(c[j])] = c
  <1>1. c[j] \in Block /\ c \in Seq(Block)
    BY DEF GoodChain, GoodBlock
  <1>2. AtDataStart(c[j]) = c[j]
    BY <1>1, AlreadyAtDataStart
  <1>. QED
    BY <1>1, <1>2

\* A read of n bytes takes them from the front of the rest.
LEMMA AdvanceFields ==
  ASSUME NEW k, GoodBlock(k), NEW n \in Nat, n <= Left(k)
  PROVE  /\ Rest(k) = BytesAt(k, k.curr, n) \o Rest(Advance(k, n))
         /\ Rest(Advance(k, n)) \in Seq(Byte)
         /\ Data(Advance(k, n)) = Data(k)
         /\ Advance(k, n).dataStart = k.dataStart
         /\ Advance(k, n).readError = k.readError
  <1> DEFINE r == Advance(k, n)
             s == BytesAt(k, k.curr, n)
  <1>1. /\ r.mem = k.mem /\ r.dataStart = k.dataStart /\ r.dataEnd = k.dataEnd
        /\ r.curr = k.curr + n /\ r.readError = k.readError
    BY GoodFields DEF Advance, Block
  <1>2. GoodBlock(r)
    BY AdvanceIsGood
  <1>3. s \in Seq(Byte) /\ Len(s) = n
    BY BytesAreWritten
  <1>4. Left(k) \in Nat /\ Rest(k) \in Seq(Byte) /\ Len(Rest(k)) = Left(k) /\ k.curr \in Nat
    BY RestIsBytes, GoodFields
  <1>5. Rest(r) \in Seq(Byte) /\ Len(Rest(r)) = Left(r) /\ Left(r) = Left(k) - n
    <2>1. Left(r) = Left(k) - n
      BY <1>1, GoodFields DEF Left
    <2>. QED
      BY <1>2, <2>1, RestIsBytes
  <1>6. /\ \A j \in 1..Left(k) : Rest(k)[j] = k.mem[k.curr + j - 1]
        /\ \A j \in 1..n : s[j] = k.mem[k.curr + j - 1]
        /\ \A j \in 1..(Left(k) - n) : Rest(r)[j] = k.mem[k.curr + n + j - 1]
    BY <1>1, <1>5 DEF Rest, BytesAt
  <1> HIDE DEF r, s
  <1>7. s \o Rest(r) \in Seq(Byte) /\ Len(s \o Rest(r)) = Left(k)
    <2>1. s \o Rest(r) \in Seq(Byte) /\ Len(s \o Rest(r)) = Len(s) + Len(Rest(r))
      BY <1>3, <1>5, ConcatProperties
    <2>2. Len(s) + Len(Rest(r)) = Left(k)
      BY <1>3, <1>4, <1>5
    <2>. QED
      BY <2>1, <2>2
  <1>8. ASSUME NEW j \in 1..Left(k) PROVE (s \o Rest(r))[j] = Rest(k)[j]
    <2>1. (s \o Rest(r))[j] = IF j <= n THEN s[j] ELSE Rest(r)[j - n]
      <3>1. j \in 1..(Len(s) + Len(Rest(r)))
        BY <1>3, <1>4, <1>5
      <3>. QED
        BY <1>3, <1>5, <3>1, ConcatProperties
    <2>2. CASE j <= n
      BY <1>6, <2>1, <2>2
    <2>3. CASE ~(j <= n)
      <3>1. j - n \in 1..(Left(k) - n) /\ k.curr + n + (j - n) - 1 = k.curr + j - 1
        BY <1>4, <2>3
      <3>. QED
        BY <1>6, <2>1, <2>3, <3>1
    <2>. QED
      BY <2>2, <2>3
  <1>9. Rest(k) = s \o Rest(r)
    BY <1>4, <1>7, <1>8, SeqEqual
  <1>10. Data(r) = Data(k)
    BY <1>1, SameBytes
  <1>. QED
    BY <1>1, <1>5, <1>9, <1>10 DEF r, s

\* The n bytes of s that end at its position e.
Part(s, e, n) == SubSeq(s, e - n + 1, e)

\* A write puts its bytes before the data.
LEMMA PrependFields ==
  ASSUME NEW k, GoodBlock(k), NEW s \in Seq(Byte), NEW e \in Nat, NEW n \in Nat,
         n <= e, e <= Len(s), n <= k.dataStart
  PROVE  /\ Data(Prepend(k, s, e, n)) = Part(s, e, n) \o Data(k)
         /\ Prepend(k, s, e, n).dataStart = k.dataStart - n
         /\ Prepend(k, s, e, n).writeError = k.writeError
  <1> DEFINE r == Prepend(k, s, e, n)
             t == SubSeq(s, e - n + 1, e)
             put(p) == k.dataStart - n <= p /\ p < k.dataStart
  <1>1. /\ r.mem = [p \in 0..(k.size - 1) |->
                      IF put(p) THEN s[e - (k.dataStart - 1 - p)] ELSE k.mem[p]]
        /\ r.dataStart = k.dataStart - n /\ r.dataEnd = k.dataEnd
        /\ r.writeError = k.writeError
    BY GoodFields DEF Prepend, Block
  <1>2. /\ k.dataStart \in Nat /\ k.size \in Nat /\ k.dataEnd = k.size
        /\ k.dataStart <= k.size /\ Len(s) \in Nat
    BY GoodFields DEF GoodBlock
  <1> DEFINE l == k.size - k.dataStart
  <1>3. l \in Nat /\ Data(k) \in Seq(Byte) /\ Len(Data(k)) = l
    BY <1>2, DataIsBytes
  <1>4. GoodBlock(r)
    BY PrependIsGood
  <1>5. Data(r) \in Seq(Byte) /\ Len(Data(r)) = n + l
    <2>1. r.dataEnd - r.dataStart = n + l
      BY <1>1, <1>2
    <2>. QED
      BY <1>4, <2>1, DataIsBytes
  <1>6. /\ t \in Seq(Byte) /\ Len(t) = n
        /\ \A j \in 1..n : t[j] = s[e - n + j]
    <2>1. e - n + 1 \in 1..(Len(s) + 1) /\ e \in 0..Len(s)
      BY <1>2
    <2>2. \A i \in (e - n + 1)..e : s[i] \in Byte
      BY <1>2
    <2>3. t \in Seq(Byte) /\ Len(t) = IF e - n + 1 <= e THEN e - (e - n + 1) + 1 ELSE 0
      BY <1>2, <2>2, SubSeqProperties
    <2>4. \A j \in 1..(e - (e - n + 1) + 1) : t[j] = s[(e - n + 1) + j - 1]
      BY <1>2, <2>2, SubSeqProperties
    <2>. QED
      BY <1>2, <2>3, <2>4
  <1>7. \A j \in 1..(n + l) : Data(r)[j] = r.mem[k.dataStart - n + j - 1]
    BY <1>1, <1>2 DEF Data, BytesAt
  <1>8. \A j \in 1..l : Data(k)[j] = k.mem[k.dataStart + j - 1]
    BY <1>2 DEF Data, BytesAt
  <1>9. t \o Data(k) \in Seq(Byte) /\ Len(t \o Data(k)) = n + l
    BY <1>3, <1>6, ConcatProperties
  <1>10. ASSUME NEW j \in 1..(n + l) PROVE Data(r)[j] = (t \o Data(k))[j]
    <2>1. (t \o Data(k))[j] = IF j <= n THEN t[j] ELSE Data(k)[j - n]
      BY <1>3, <1>6, ConcatProperties
    <2> DEFINE p == k.dataStart - n + j - 1
    <2>2. p \in 0..(k.size - 1)
      <3>1. k.dataStart \in Nat /\ k.size \in Nat /\ n \in Nat /\ n <= k.dataStart
        BY <1>2
      <3>2. j \in Nat /\ 1 <= j /\ j <= n + (k.size - k.dataStart)
        BY <1>2
      <3>. QED
        BY <3>1, <3>2
    <2>3. r.mem[p] = IF put(p) THEN s[e - (k.dataStart - 1 - p)] ELSE k.mem[p]
      BY <1>1, <2>2
    <2>4. CASE j <= n
      <3>1. put(p) /\ e - (k.dataStart - 1 - p) = e - n + j /\ j \in 1..n
        BY <1>2, <2>4
      <3>. QED
        BY <1>6, <1>7, <2>1, <2>3, <2>4, <3>1
    <2>5. CASE ~(j <= n)
      <3>1. ~put(p) /\ p = k.dataStart + (j - n) - 1 /\ j - n \in 1..l
        BY <1>2, <1>3, <2>5
      <3>. QED
        BY <1>7, <1>8, <2>1, <2>3, <2>5, <3>1
    <2>. QED
      BY <2>4, <2>5
  <1> HIDE DEF r, t, l
  <1>11. Data(r) = t \o Data(k)
    BY <1>5, <1>9, <1>10, SeqEqual
  <1>. QED
    BY <1>1, <1>11 DEF r, t, Part

-----------------------------------------------------------------------------
(* Lists whose blocks below block i are full, and, in a reading mode,      *)
(* ready to be read from their first byte.                                 *)

FullBelow(c, i) == \A j \in 1..(i - 1) : Full(c[j])

ReadyBelow(c, i) ==
  /\ \A j \in 1..(i - 1) : ~c[j].readError /\ c[j].curr = c[j].dataStart
  /\ c[i].readError => AtEod(c[i])

\* Unread(i), of any list.
UnreadOf(c, i) == Rest(c[i]) \o Whole(c, i - 1)

LEMMA Observed ==
  ASSUME GoodChain(chain), h \in DOMAIN chain
  PROVE  /\ h \in 1..Len(chain) /\ Len(chain) \in Nat /\ h \in Nat \ {0}
         /\ DOMAIN chain = 1..Len(chain)
         /\ GoodBlock(cur) /\ cur = chain[h]
  BY GoodChainDomain DEF GoodChain, cur

LEMMA UnreadIsBytes ==
  ASSUME NEW c, GoodChain(c), NEW i \in 1..Len(c)
  PROVE  /\ UnreadOf(c, i) \in Seq(Byte) /\ Rest(c[i]) \in Seq(Byte)
         /\ Whole(c, i - 1) \in Seq(Byte) /\ Whole(c, i) \in Seq(Byte)
         /\ Whole(c, i) = Data(c[i]) \o Whole(c, i - 1)
         /\ GoodBlock(c[i])
  <1>1. i - 1 \in 0..Len(c) /\ i \in 0..Len(c) /\ i \in Nat \ {0}
    BY GoodChainDomain
  <1>2. GoodBlock(c[i])
    BY DEF GoodChain
  <1>3. Rest(c[i]) \in Seq(Byte)
    BY <1>2, RestIsBytes
  <1>4. Whole(c, i - 1) \in Seq(Byte) /\ Whole(c, i) \in Seq(Byte)
    BY <1>1, WholeIsBytes
  <1>5. UnreadOf(c, i) \in Seq(Byte)
    BY <1>3, <1>4, ConcatProperties DEF UnreadOf
  <1>. QED
    BY <1>1, <1>2, <1>3, <1>4, <1>5, WholeIsData

LEMMA UnreadAtStart ==
  ASSUME NEW c, GoodChain(c), NEW i \in 1..Len(c), c[i].curr = c[i].dataStart
  PROVE  UnreadOf(c, i) = Whole(c, i)
  <1>1. Rest(c[i]) = Data(c[i])
    BY DEF Rest, Data, Left
  <1>. QED
    BY <1>1, UnreadIsBytes DEF UnreadOf

LEMMA UnreadAtEnd ==
  ASSUME NEW c, GoodChain(c), NEW i \in 1..Len(c), AtEod(c[i])
  PROVE  UnreadOf(c, i) = Whole(c, i - 1)
  <1>1. Rest(c[i]) = <<>>
    BY UnreadIsBytes, RestIsBytes
  <1>. QED
    BY <1>1, UnreadIsBytes, ConcatEmptySeq DEF UnreadOf

\* Block i changes: what is below it stays as it is.
LEMMA TopChanges ==
  ASSUME NEW c, GoodChain(c), NEW d, GoodChain(d), NEW i \in 1..Len(c), i \in 1..Len(d),
         \A j \in 1..(i - 1) : d[j] = c[j]
  PROVE  /\ Whole(d, i - 1) = Whole(c, i - 1)
         /\ Whole(d, i) = Data(d[i]) \o Whole(c, i - 1)
         /\ UnreadOf(d, i) = Rest(d[i]) \o Whole(c, i - 1)
         /\ FullBelow(c, i) => FullBelow(d, i)
         /\ ReadyBelow(c, i) /\ (d[i].readError => AtEod(d[i])) => ReadyBelow(d, i)
  <1>1. i - 1 \in Nat
    BY GoodChainDomain
  <1>2. Whole(d, i - 1) = Whole(c, i - 1)
    BY <1>1, WholeOfSameData
  <1>3. Whole(d, i) = Data(d[i]) \o Whole(d, i - 1)
    BY UnreadIsBytes
  <1>. QED
    BY <1>2, <1>3 DEF UnreadOf, FullBelow, ReadyBelow

LEMMA TopUpdated ==
  ASSUME GoodChain(chain), NEW i \in 1..Len(chain), NEW k, GoodBlock(k),
         k.size = chain[i].size, chain' = [chain EXCEPT ![i] = k]
  PROVE  /\ GoodChain(chain') /\ Len(chain') = Len(chain) /\ chain'[i] = k
         /\ i \in 1..Len(chain')
         /\ \A j \in 1..Len(chain) : j # i => chain'[j] = chain[j]
         /\ Whole(chain', i - 1) = Whole(chain, i - 1)
         /\ Whole(chain', i) = Data(k) \o Whole(chain, i - 1)
         /\ UnreadOf(chain', i) = Rest(k) \o Whole(chain, i - 1)
         /\ FullBelow(chain, i) => FullBelow(chain', i)
         /\ ReadyBelow(chain, i) /\ (k.readError => AtEod(k)) => ReadyBelow(chain', i)
  <1>1. GoodChain(chain') /\ Len(chain') = Len(chain) /\ chain'[i] = k
    BY GoodChainDomain, ChainUpdate
  <1>2. \A j \in 1..Len(chain) : j # i => chain'[j] = chain[j]
    BY DEF GoodChain
  <1>3. \A j \in 1..(i - 1) : j \in 1..Len(chain) /\ j # i
    BY GoodChainDomain
  <1>4. \A j \in 1..(i - 1) : chain'[j] = chain[j]
    BY <1>2, <1>3
  <1> DEFINE d == chain'
  <1>5. GoodChain(d) /\ Len(d) = Len(chain) /\ d[i] = k /\ \A j \in 1..(i - 1) : d[j] = chain[j]
    BY <1>1, <1>4
  <1> HIDE DEF d
  <1>6. /\ Whole(d, i - 1) = Whole(chain, i - 1)
        /\ Whole(d, i) = Data(d[i]) \o Whole(chain, i - 1)
        /\ UnreadOf(d, i) = Rest(d[i]) \o Whole(chain, i - 1)
        /\ FullBelow(chain, i) => FullBelow(d, i)
        /\ ReadyBelow(chain, i) /\ (d[i].readError => AtEod(d[i])) => ReadyBelow(d, i)
    BY <1>5, TopChanges
  <1>. QED
    BY <1>1, <1>2, <1>5, <1>6 DEF d

LEMMA NoDataIsEmpty ==
  ASSUME NEW k, GoodBlock(k), HasNoData(k) PROVE Data(k) = <<>>
  <1>1. Data(k) \in Seq(Byte) /\ Len(Data(k)) = 0
    BY DataIsBytes, GoodFields DEF HasNoData
  <1>. QED
    BY <1>1

\* From block i on, the walk over empty blocks to block j passes no byte.
LEMMA WalkPassesNothing ==
  ASSUME NEW c, GoodChain(c), NEW i \in 1..Len(c), NEW j \in 1..i,
         \A k \in (j + 1)..i : HasNoData(c[k]), c[j].curr = c[j].dataStart
  PROVE  UnreadOf(c, j) = Whole(c, i)
  <1>1. /\ i \in 0..Len(c) /\ j \in 0..i /\ j \in 1..Len(c)
        /\ \A k \in (j + 1)..i : k \in 1..Len(c)
    BY GoodChainDomain
  <1>2. \A k \in (j + 1)..i : Data(c[k]) = <<>>
    BY <1>1, NoDataIsEmpty DEF GoodChain
  <1>. QED
    BY <1>1, <1>2, WholeOverEmpty, UnreadAtStart

\* ExpBufGetSeg moves on to block j of a list that is ready for it.
LEMMA MovesOn ==
  ASSUME NEW c, GoodChain(c), NEW i \in 1..Len(c), FullBelow(c, i), ReadyBelow(c, i),
         NEW j \in 1..(i - 1), \A k \in (j + 1)..(i - 1) : HasNoData(c[k])
  PROVE  /\ [c EXCEPT ![j] = AtDataStart(c[j])] = c
         /\ UnreadOf(c, i) = Rest(c[i]) \o UnreadOf(c, j)
         /\ FullBelow(c, j) /\ ReadyBelow(c, j) /\ c[j].readError = FALSE
  <1>1. /\ j \in 1..Len(c) /\ i - 1 \in 1..Len(c) /\ i \in Nat /\ Len(c) \in Nat
        /\ \A k \in 1..(j - 1) : k \in 1..(i - 1)
    BY GoodChainDomain
  <1>2. c[j].curr = c[j].dataStart /\ ~c[j].readError /\ c[j].readError \in BOOLEAN
    BY <1>1 DEF ReadyBelow, GoodChain, GoodBlock, Block
  <1>3. UnreadOf(c, j) = Whole(c, i - 1)
    BY <1>1, <1>2, WalkPassesNothing
  <1>4. FullBelow(c, j) /\ ReadyBelow(c, j)
    BY <1>1, <1>2 DEF FullBelow, ReadyBelow
  <1>. QED
    BY <1>1, <1>2, <1>3, <1>4, ReadyBlock DEF UnreadOf

\* ExpBufGetSeg takes what it returns from the front of the unread bytes.
LEMMA TakesFromFront ==
  ASSUME Inv, FullBelow(chain, h), ReadyBelow(chain, h), NEW n \in Nat, TakesSeg(n)
  PROVE  /\ UnreadOf(chain, h) = Seg(n) \o UnreadOf(chain', h')
         /\ UnreadOf(chain', h') \in Seq(Byte)
         /\ FullBelow(chain', h') /\ ReadyBelow(chain', h')
         /\ chain'[h'].readError = cur.readError
  <1>1. /\ GoodChain(chain) /\ h \in 1..Len(chain) /\ GoodBlock(cur) /\ cur = chain[h]
        /\ Left(cur) \in Nat /\ (AtEod(cur) <=> Left(cur) = 0)
    BY Observed, RestIsBytes DEF Inv
  <1>2. /\ UnreadOf(chain, h) \in Seq(Byte) /\ Rest(cur) \in Seq(Byte)
        /\ Whole(chain, h - 1) \in Seq(Byte)
    BY <1>1, UnreadIsBytes
  <1>3. /\ SegLen(n) \in Nat /\ SegLen(n) <= Left(cur) /\ Seg(n) \in Seq(Byte)
        /\ Len(Seg(n)) = SegLen(n)
    BY SegIsWritten
  <1>4. CASE AtEod(cur) /\ UNCHANGED <<chain, h>>
    <2>1. Seg(n) = <<>>
      BY <1>1, <1>3, <1>4
    <2>. QED
      BY <1>1, <1>2, <1>4, <2>1, ConcatEmptySeq
  <1>5. CASE /\ ~AtEod(cur) /\ Left(cur) <= n /\ h > 1
             /\ \E j \in 1..(h - 1) :
                  /\ SkipsTo(h - 1, j)
                  /\ h' = j
                  /\ chain' = [chain EXCEPT ![j] = AtDataStart(chain[j])]
    <2>1. PICK j \in 1..(h - 1) : /\ SkipsTo(h - 1, j) /\ h' = j
                                  /\ chain' = [chain EXCEPT ![j] = AtDataStart(chain[j])]
      BY <1>5
    <2>2. \A k \in (j + 1)..(h - 1) : HasNoData(chain[k])
      BY <2>1 DEF SkipsTo
    <2>3. /\ chain' = chain /\ UnreadOf(chain, h) = Rest(cur) \o UnreadOf(chain, j)
          /\ FullBelow(chain, j) /\ ReadyBelow(chain, j) /\ chain[j].readError = FALSE
      BY <1>1, <2>1, <2>2, MovesOn
    <2>4. Seg(n) = Rest(cur)
      <3>1. SegLen(n) = Left(cur)
        BY <1>5 DEF SegLen, AtMost
      <3>. QED
        BY <3>1 DEF Seg, Rest
    <2>5. j \in 1..Len(chain)
      BY <1>1, GoodChainDomain
    <2>6. cur.readError = FALSE
      BY <1>1, <1>5 DEF ReadyBelow, GoodBlock, Block
    <2>. QED
      BY <1>1, <2>1, <2>3, <2>4, <2>5, <2>6, UnreadIsBytes
  <1>6. CASE ~AtEod(cur) /\ chain' = [chain EXCEPT ![h] = Advance(cur, SegLen(n))] /\ h' = h
    <2> DEFINE k == Advance(cur, SegLen(n))
    <2>1. GoodBlock(k) /\ k.size = chain[h].size
      BY <1>1, <1>3, AdvanceIsGood
    <2>2. /\ Rest(cur) = Seg(n) \o Rest(k) /\ Rest(k) \in Seq(Byte)
          /\ k.readError = cur.readError
      BY <1>1, <1>3, AdvanceFields DEF Seg
    <2>3. ~cur.readError
      BY <1>1, <1>6 DEF ReadyBelow
    <2> HIDE DEF k
    <2>4. /\ GoodChain(chain') /\ Len(chain') = Len(chain) /\ chain'[h] = k
          /\ UnreadOf(chain', h) = Rest(k) \o Whole(chain, h - 1)
          /\ FullBelow(chain', h) /\ ReadyBelow(chain', h)
      <3>1. chain' = [chain EXCEPT ![h] = k]
        BY <1>6 DEF k
      <3>2. k.readError => AtEod(k)
        BY <2>2, <2>3
      <3>. QED
        BY <1>1, <2>1, <3>1, <3>2, TopUpdated
    <2>5. UnreadOf(chain, h) = Seg(n) \o UnreadOf(chain', h)
      <3>1. UnreadOf(chain, h) = (Seg(n) \o Rest(k)) \o Whole(chain, h - 1)
        BY <1>1, <2>2 DEF UnreadOf
      <3>2. (Seg(n) \o Rest(k)) \o Whole(chain, h - 1) = Seg(n) \o (Rest(k) \o Whole(chain, h - 1))
        <4> DEFINE s == Seg(n)
                   r == Rest(k)
                   w == Whole(chain, h - 1)
        <4>1. s \in Seq(Byte) /\ r \in Seq(Byte) /\ w \in Seq(Byte)
          BY <1>2, <1>3, <2>2
        <4> HIDE DEF s, r, w
        <4>2. (s \o r) \o w = s \o (r \o w)
          BY <4>1, Regroup
        <4>. QED
          BY <4>2 DEF s, r, w
      <3>. QED
        BY <2>4, <3>1, <3>2
    <2>6. UnreadOf(chain', h) \in Seq(Byte)
      BY <1>2, <2>2, <2>4, ConcatProperties
    <2>. QED
      BY <1>6, <2>2, <2>4, <2>5, <2>6
  <1>. QED
    BY <1>4, <1>5, <1>6 DEF TakesSeg

-----------------------------------------------------------------------------
(* The invariant of a session.                                             *)

\* The words of the modes and calls, for the steps that need not tell them apart.
WriteMode == "write"
ReadModes == {"read", "installed"}
ReadLoops == {"Copy", "Skip", "PeekCopy"}

\* The block that a call reads from when it returns.
Top(r, i) == IF r.op = "PeekCopy" THEN r.orig ELSE i

\* The part of the segment written so far lies before the earlier data.
SegInPlace(r, c, i) ==
  /\ ~c[i].writeError
  /\ \E d \in Seq(Byte) : Whole(c, i) = SubSeq(r.seg, r.len + 1, Len(r.seg)) \o d

\* A peek has gathered what lies between the buffer it came from and its own.
PeekInPlace(r, c, i) ==
  /\ i <= r.orig
  /\ UnreadOf(c, r.orig) = r.got \o UnreadOf(c, i)
  /\ i = r.orig => r.got = <<>>
  /\ i < r.orig => ~AtEod(c[r.orig])

\* What a session in mode m keeps of its call r, its list c and its buffer i.
KeptOf(m, r, c, i) ==
  /\ m = WriteMode \/ m \in ReadModes
  /\ FullBelow(c, Top(r, i))
  /\ m \in ReadModes => ReadyBelow(c, Top(r, i))
  /\ \/ r = Idle
     \/ r.op = "PutSegRvs" /\ m = WriteMode /\ SegInPlace(r, c, i)
     \/ r.op \in {"Copy", "Skip"} /\ m \in ReadModes
     \/ r.op = "PeekCopy" /\ m \in ReadModes /\ PeekInPlace(r, c, i)

Kept == KeptOf(mode, call, chain, h)
SInv == Inv /\ Kept

\* StreamData, of any mode, call and list.
DataOf(m, r, c, i) ==
  CASE r.op = "PutSegRvs" ->
         SubSeq(Whole(c, i), Len(r.seg) - r.len + 1, Len(Whole(c, i)))
    [] r.op \in {"Copy", "Skip"} -> r.got \o UnreadOf(c, i)
    [] r.op = "PeekCopy"         -> UnreadOf(c, r.orig)
    [] OTHER -> IF m = WriteMode THEN Whole(c, i) ELSE UnreadOf(c, i)

LEMMA IdleOps ==
  /\ Idle.op = "idle" /\ Idle.op # "PutSegRvs" /\ Idle.op # "PeekCopy"
  /\ Idle.op \notin {"Copy", "Skip"} /\ Idle.op \notin ReadLoops
  /\ Idle.seg = <<>> /\ Idle.len = 0
  BY DEF Idle, ReadLoops

LEMMA ModesDiffer ==
  /\ WriteMode = "write" /\ WriteMode \notin ReadModes
  /\ \A m \in ReadModes : m # "write" /\ m # WriteMode
  BY DEF WriteMode, ReadModes

LEMMA View ==
  /\ StreamData = DataOf(mode, call, chain, h)
  /\ StreamFault = (mode = "write" /\ chain[h].writeError)
  /\ StreamError = (mode # "write" /\ chain[h].readError)
  <1>1. StreamData = DataOf(mode, call, chain, h)
    BY DEF StreamData, DataOf, DataFrom, Whole, Unread, UnreadOf, Rest, WriteMode
  <1>. QED
    BY <1>1 DEF StreamFault, StreamError, cur

LEMMA ViewAfter ==
  /\ StreamData' = DataOf(mode', call', chain', h')
  /\ StreamFault' = (mode' = "write" /\ chain'[h'].writeError)
  /\ StreamError' = (mode' # "write" /\ chain'[h'].readError)
  <1>1. StreamData' = DataOf(mode', call', chain', h')
    BY DEF StreamData, DataOf, DataFrom, Whole, Unread, UnreadOf, Rest, WriteMode
  <1>. QED
    BY <1>1 DEF StreamFault, StreamError, cur

LEMMA Flags ==
  ASSUME NEW c, GoodChain(c), NEW i \in 1..Len(c)
  PROVE  c[i].readError \in BOOLEAN /\ c[i].writeError \in BOOLEAN /\ GoodBlock(c[i])
  BY DEF GoodChain, GoodBlock, Block

\* Between two calls.
LEMMA AtRest ==
  ASSUME SInv, call = Idle
  PROVE  /\ StreamReq = Stream!NoReq
         /\ mode = "write" \/ mode \in ReadModes
         /\ FullBelow(chain, h) /\ (mode # "write" => ReadyBelow(chain, h))
         /\ StreamData = IF mode = "write" THEN Whole(chain, h) ELSE UnreadOf(chain, h)
  <1>1. StreamReq = Stream!NoReq
    BY IdleOps DEF StreamReq, Stream!NoReq
  <1>2. KeptOf(mode, Idle, chain, h) /\ Top(Idle, h) = h
    BY IdleOps DEF SInv, Kept, Top
  <1>3. DataOf(mode, Idle, chain, h) = IF mode = "write" THEN Whole(chain, h)
                                                         ELSE UnreadOf(chain, h)
    BY IdleOps, ModesDiffer DEF DataOf
  <1>. QED
    BY <1>1, <1>2, <1>3, View, ModesDiffer DEF KeptOf

LEMMA ComesToRest ==
  ASSUME call' = Idle, mode' = "write" \/ mode' \in ReadModes,
         FullBelow(chain', h'), mode' # "write" => ReadyBelow(chain', h')
  PROVE  /\ Kept' /\ StreamReq' = Stream!NoReq
         /\ StreamData' = IF mode' = "write" THEN Whole(chain', h') ELSE UnreadOf(chain', h')
  <1>1. StreamReq' = Stream!NoReq
    BY IdleOps DEF StreamReq, Stream!NoReq
  <1>2. KeptOf(mode', call', chain', h')
    BY IdleOps, ModesDiffer DEF KeptOf, Top
  <1>3. DataOf(mode', Idle, chain', h') = IF mode' = "write" THEN Whole(chain', h')
                                                            ELSE UnreadOf(chain', h')
    BY IdleOps, ModesDiffer DEF DataOf
  <1>. QED
    BY <1>1, <1>2, <1>3, ViewAfter DEF Kept

LEMMA FirstBlock ==
  ASSUME NEW c, GoodChain(c)
  PROVE  /\ 1 \in 1..Len(c) /\ FullBelow(c, 1)
         /\ Whole(c, 1) = Data(c[1]) /\ UnreadOf(c, 1) = Rest(c[1])
         /\ (c[1].readError => AtEod(c[1])) => ReadyBelow(c, 1)
  <1>1. 1 \in 1..Len(c) /\ 1 - 1 = 0
    BY GoodChainDomain
  <1>2. Whole(c, 0) = <<>> /\ GoodBlock(c[1]) /\ Whole(c, 1) = Data(c[1]) \o Whole(c, 1 - 1)
    BY <1>1, WholeIsData, UnreadIsBytes
  <1>3. Whole(c, 1) = Data(c[1])
    BY <1>1, <1>2, DataIsBytes, ConcatEmptySeq
  <1>4. UnreadOf(c, 1) = Rest(c[1])
    BY <1>1, <1>2, RestIsBytes, ConcatEmptySeq DEF UnreadOf
  <1>. QED
    BY <1>1, <1>3, <1>4 DEF FullBelow, ReadyBelow

-----------------------------------------------------------------------------
(* Modes.                                                                  *)

LEMMA SInitMaps == SInit => SInv /\ Stream!Init
  <1> SUFFICES ASSUME SInit PROVE SInv /\ Stream!Init
    OBVIOUS
  <1>1. Inv /\ call = Idle /\ mode = "write" /\ ret = <<>> /\ h = 1 /\ chain[1] = FreshBlock
    BY InitHolds DEF SInit, Init
  <1>2. Whole(chain, 1) = <<>> /\ FullBelow(chain, 1)
    BY <1>1, FirstBlock, FreshFields DEF Inv
  <1>3. Kept
    BY <1>1, <1>2, IdleOps, ModesDiffer DEF Kept, KeptOf, Top
  <1>4. StreamData = <<>> /\ StreamReq = Stream!NoReq
    BY <1>1, <1>2, <1>3, AtRest DEF SInv
  <1>5. StreamFault = FALSE /\ StreamError = FALSE
    BY <1>1, View, FreshFields
  <1>. QED
    BY <1>1, <1>3, <1>4, <1>5 DEF SInv, Stream!Init

LEMMA StartWritingMaps ==
  ASSUME SInv, StartWriting
  PROVE  SInv' /\ Stream!StartWriting
  <1>1. /\ Inv /\ GoodChain(chain) /\ call = Idle /\ call' = Idle /\ ret' = <<>>
        /\ mode' = "write" /\ h' = 1 /\ StreamReq = Stream!NoReq
    BY AtRest DEF SInv, Inv, StartWriting, FreeAndAlloc, Returns
  <1>2. /\ Inv' /\ GoodChain(chain') /\ Whole(chain', 1) = <<>>
        /\ chain'[1].writeError = FALSE
    <2>1. CASE FreeAndAlloc
      <3>1. Inv' /\ chain'[1] = FreshBlock
        BY <1>1, <2>1, ModesStep DEF Modes, FreeAndAlloc
      <3>2. GoodChain(chain')
        BY <3>1 DEF Inv
      <3>. QED
        BY <3>1, <3>2, FirstBlock, FreshFields
    <2>2. CASE chain' = [chain EXCEPT ![1] = InWriteRvsMode(chain[1])]
      <3> DEFINE k == InWriteRvsMode(chain[1])
      <3>1. 1 \in 1..Len(chain) /\ 1 \in DOMAIN chain /\ GoodBlock(chain[1])
        BY <1>1, FirstBlock, GoodChainDomain DEF GoodChain
      <3>2. GoodBlock(k) /\ k.size = chain[1].size /\ Data(k) = <<>> /\ k.writeError = FALSE
        BY <3>1, WriteRvsModeIsGood, WriteModeFields
      <3> HIDE DEF k
      <3>3. chain' = [chain EXCEPT ![1] = k]
        BY <2>2 DEF k
      <3>4. GoodChain(chain') /\ chain'[1] = k
        BY <1>1, <3>1, <3>2, <3>3, TopUpdated
      <3>5. Inv'
        BY <1>1, <3>1, <3>2, <3>3, UpdateAndReturn, EmptyIsBytes DEF Returns
      <3>. QED
        BY <3>2, <3>4, <3>5, FirstBlock
    <2>. QED
      BY <2>1, <2>2 DEF StartWriting
  <1>3. FullBelow(chain', h')
    BY <1>1, <1>2, FirstBlock
  <1>4. Kept' /\ StreamReq' = Stream!NoReq /\ StreamData' = <<>>
    BY <1>1, <1>2, <1>3, ComesToRest
  <1>5. StreamFault' = FALSE /\ StreamError' = FALSE
    BY <1>1, <1>2, ViewAfter
  <1>. QED
    BY <1>1, <1>2, <1>4, <1>5 DEF SInv, Stream!StartWriting

LEMMA StartReadingMaps ==
  ASSUME SInv, StartReading
  PROVE  SInv' /\ Stream!StartReading
  <1>1. /\ Inv /\ call = Idle /\ call' = Idle /\ ret' = <<>> /\ Returns(<<>>)
        /\ mode = "write" /\ mode' = "read" /\ h' = h /\ StreamReq = Stream!NoReq
        /\ FullBelow(chain, h) /\ StreamData = Whole(chain, h)
    BY AtRest DEF SInv, StartReading, Returns
  <1>2. /\ GoodChain(chain) /\ h \in 1..Len(chain) /\ Len(chain) \in Nat
        /\ h \in Nat \ {0} /\ DOMAIN chain = 1..Len(chain)
    BY <1>1, Observed DEF Inv
  <1>3. \A i \in 1..Len(chain) :
          chain'[i] = IF i <= h THEN InReadMode(chain[i]) ELSE chain[i]
    BY <1>2 DEF StartReading
  <1>4. GoodChain(chain') /\ Len(chain') = Len(chain)
    <2>1. \A i \in 1..Len(chain) : GoodBlock(chain'[i]) /\ chain'[i].size = chain[i].size
      BY <1>2, <1>3, ReadModeIsGood DEF GoodChain
    <2>2. chain' \in Seq(Block) /\ Len(chain') = Len(chain)
      <3>1. chain' = [i \in 1..Len(chain) |-> IF i <= h THEN InReadMode(chain[i]) ELSE chain[i]]
        BY <1>2 DEF StartReading
      <3>2. \A i \in 1..Len(chain) : chain'[i] \in Block
        BY <2>1 DEF GoodBlock
      <3>. QED
        BY <1>2, <3>1, <3>2
    <2>. QED
      BY <1>2, <2>1, <2>2 DEF GoodChain
  <1>5. Inv'
    <2>1. h' \in DOMAIN chain'
      BY <1>1, <1>2, <1>4, GoodChainDomain
    <2>. QED
      BY <1>1, <1>4, <2>1, ReturnsIsOK, EmptyIsBytes DEF Inv
  <1>6. \A i \in 1..h : /\ Data(chain'[i]) = Data(chain[i]) /\ Rest(chain'[i]) = Data(chain[i])
                        /\ chain'[i].dataStart = chain[i].dataStart
                        /\ chain'[i].curr = chain'[i].dataStart
                        /\ chain'[i].readError = FALSE
    <2> TAKE i \in 1..h
    <2>1. i \in 1..Len(chain) /\ i <= h /\ GoodBlock(chain[i])
      BY <1>2 DEF GoodChain
    <2> DEFINE k == InReadMode(chain[i])
    <2>2. chain'[i] = k
      BY <1>3, <2>1
    <2>3. /\ Data(k) = Data(chain[i]) /\ Rest(k) = Data(chain[i])
          /\ k.dataStart = chain[i].dataStart /\ k.curr = chain[i].dataStart
          /\ k.readError = FALSE
      BY <2>1, ReadModeFields
    <2> HIDE DEF k
    <2>. QED
      BY <2>2, <2>3
  <1>7. \A i \in 1..(h - 1) : i \in 1..h
    BY <1>2
  <1>8. FullBelow(chain', h') /\ ReadyBelow(chain', h')
    <2>1. h \in 1..h
      BY <1>2
    <2>. QED
      BY <1>1, <1>6, <1>7, <2>1 DEF FullBelow, ReadyBelow, Full
  <1>9. UnreadOf(chain', h') = Whole(chain, h)
    <2>1. h \in 1..h /\ h \in Nat
      BY <1>2
    <2>2. UnreadOf(chain', h) = Whole(chain', h)
      BY <1>2, <1>4, <1>6, <2>1, UnreadAtStart
    <2>3. Whole(chain', h) = Whole(chain, h)
      BY <1>6, <2>1, WholeOfSameData
    <2>. QED
      BY <1>1, <2>2, <2>3
  <1>10. Kept' /\ StreamReq' = Stream!NoReq /\ StreamData' = StreamData
    BY <1>1, <1>8, <1>9, ComesToRest DEF ReadModes
  <1>11. StreamFault' = FALSE /\ StreamError' = FALSE
    <2>1. chain'[h'].readError = FALSE
      BY <1>1, <1>2, <1>6
    <2>. QED
      BY <1>1, <2>1, ViewAfter
  <1>. QED
    BY <1>1, <1>5, <1>10, <1>11 DEF SInv, Stream!StartReading

LEMMA InstallMaps ==
  ASSUME SInv, NEW s \in Segs, InstallAndRead(s)
  PROVE  SInv' /\ Stream!Install
  <1>1. /\ Inv /\ call = Idle /\ call' = Idle /\ ret' = <<>> /\ mode' = "installed"
        /\ h' = 1 /\ chain'[1] = InstalledBlock(s) /\ StreamReq = Stream!NoReq
    BY AtRest DEF SInv, InstallAndRead, InstallDataInBuf, Returns
  <1>2. Inv' /\ GoodChain(chain')
    BY <1>1, ModesStep DEF InstallAndRead, Modes, Inv
  <1>3. /\ UnreadOf(chain', 1) \in Seq(Byte) /\ FullBelow(chain', 1) /\ ReadyBelow(chain', 1)
        /\ chain'[1].readError = FALSE
    BY <1>1, <1>2, FirstBlock, InstalledFields
  <1>4. Kept' /\ StreamReq' = Stream!NoReq /\ StreamData' \in Seq(Byte)
    BY <1>1, <1>3, ComesToRest DEF ReadModes
  <1>5. StreamFault' = FALSE /\ StreamError' = FALSE
    BY <1>1, <1>3, ViewAfter
  <1>. QED
    BY <1>1, <1>2, <1>4, <1>5 DEF SInv, Stream!Install

-----------------------------------------------------------------------------
(* Sequences taken apart.                                                  *)

LEMMA FrontAndRest ==
  ASSUME NEW s \in Seq(Byte), NEW t \in Seq(Byte)
  PROVE  /\ Len(s) \in Nat /\ Len(s) <= Len(s \o t) /\ s \o t \in Seq(Byte)
         /\ SubSeq(s \o t, 1, Len(s)) = s
         /\ SubSeq(s \o t, Len(s) + 1, Len(s \o t)) = t
  <1> DEFINE u == s \o t
             a == SubSeq(u, 1, Len(s))
             b == SubSeq(u, Len(s) + 1, Len(u))
  <1>1. /\ Len(s) \in Nat /\ Len(t) \in Nat /\ u \in Seq(Byte) /\ Len(u) = Len(s) + Len(t)
        /\ \A i \in 1..(Len(s) + Len(t)) : u[i] = IF i <= Len(s) THEN s[i] ELSE t[i - Len(s)]
    BY ConcatProperties
  <1> HIDE DEF u
  <1>2. \A i \in 1..(Len(s) + Len(t)) : u[i] \in Byte
    BY <1>1
  <1>3. /\ a \in Seq(Byte) /\ Len(a) = Len(s) /\ \A i \in 1..Len(s) : a[i] = u[i]
    <2>1. \A i \in 1..Len(s) : u[i] \in Byte
      BY <1>1, <1>2
    <2>2. /\ a \in Seq(Byte) /\ Len(a) = IF 1 <= Len(s) THEN Len(s) - 1 + 1 ELSE 0
          /\ \A i \in 1..(Len(s) - 1 + 1) : a[i] = u[1 + i - 1]
      BY <1>1, <2>1, SubSeqProperties
    <2>. QED
      BY <1>1, <2>2
  <1>4. /\ b \in Seq(Byte) /\ Len(b) = Len(t) /\ \A i \in 1..Len(t) : b[i] = u[Len(s) + i]
    <2>1. \A i \in (Len(s) + 1)..Len(u) : u[i] \in Byte
      BY <1>1, <1>2
    <2>2. Len(s) + 1 \in Int /\ Len(u) \in Int
      BY <1>1
    <2>3. /\ b \in Seq(Byte)
          /\ Len(b) = IF Len(s) + 1 <= Len(u) THEN Len(u) - (Len(s) + 1) + 1 ELSE 0
          /\ \A i \in 1..(Len(u) - (Len(s) + 1) + 1) : b[i] = u[(Len(s) + 1) + i - 1]
      BY <2>1, <2>2, SubSeqProperties
    <2>. QED
      BY <1>1, <2>3
  <1>5. \A i \in 1..Len(s) : a[i] = s[i]
    BY <1>1, <1>3
  <1>6. ASSUME NEW i \in 1..Len(t) PROVE b[i] = t[i]
    <2>1. b[i] = u[Len(s) + i]
      BY <1>4
    <2>2. /\ Len(s) + i \in 1..(Len(s) + Len(t)) /\ ~(Len(s) + i <= Len(s))
          /\ (Len(s) + i) - Len(s) = i
      BY <1>1
    <2>. QED
      BY <1>1, <2>1, <2>2
  <1> HIDE DEF a, b
  <1>7. a = s /\ b = t
    BY <1>3, <1>4, <1>5, <1>6, SeqEqual
  <1>8. Len(s) <= Len(u)
    BY <1>1
  <1>. QED
    BY <1>1, <1>7, <1>8 DEF a, b, u

LEMMA SegParts ==
  ASSUME NEW s \in Seq(Byte), NEW e \in Nat, NEW n \in Nat, n <= e, e <= Len(s)
  PROVE  /\ Part(s, e, n) \in Seq(Byte)
         /\ SubSeq(s, e + 1, Len(s)) \in Seq(Byte) /\ Len(SubSeq(s, e + 1, Len(s))) = Len(s) - e
         /\ Part(s, e, n) \o SubSeq(s, e + 1, Len(s)) = SubSeq(s, e - n + 1, Len(s))
  <1>1. Len(s) \in Nat /\ \A i \in 1..Len(s) : s[i] \in Byte
    OBVIOUS
  <1>2. SubSeq(s, e - n + 1, e) \in Seq(Byte)
    <2>1. e - n + 1 \in Int /\ e \in Int /\ \A i \in (e - n + 1)..e : s[i] \in Byte
      BY <1>1
    <2>. QED
      BY <2>1, SubSeqProperties
  <1>3. SubSeq(s, e + 1, Len(s)) \in Seq(Byte) /\ Len(SubSeq(s, e + 1, Len(s))) = Len(s) - e
    <2>1. e + 1 \in Int /\ Len(s) \in Int /\ \A i \in (e + 1)..Len(s) : s[i] \in Byte
      BY <1>1
    <2>2. /\ SubSeq(s, e + 1, Len(s)) \in Seq(Byte)
          /\ Len(SubSeq(s, e + 1, Len(s))) = IF e + 1 <= Len(s) THEN Len(s) - (e + 1) + 1 ELSE 0
      BY <2>1, SubSeqProperties
    <2>. QED
      BY <1>1, <2>2
  <1>4. SubSeq(s, e - n + 1, e) \o SubSeq(s, e + 1, Len(s)) = SubSeq(s, e - n + 1, Len(s))
    <2> DEFINE m == e - n + 1
    <2>1. m \in 1..(Len(s) + 1) /\ e \in (m - 1)..Len(s) /\ Len(s) \in e..Len(s)
      BY <1>1
    <2> HIDE DEF m
    <2>2. SubSeq(s, m, e) \o SubSeq(s, e + 1, Len(s)) = SubSeq(s, m, Len(s))
      BY <2>1, ConcatAdjacentSubSeq
    <2>. QED
      BY <2>2 DEF m
  <1>. QED
    BY <1>2, <1>3, <1>4 DEF Part

LEMMA PrependBefore ==
  ASSUME NEW k, GoodBlock(k), NEW s \in Seq(Byte), NEW e \in Nat, NEW n \in Nat,
         n <= e, e <= Len(s), n <= k.dataStart, NEW w \in Seq(Byte)
  PROVE  Data(Prepend(k, s, e, n)) \o w = Part(s, e, n) \o (Data(k) \o w)
  <1> DEFINE t == Part(s, e, n)
             p == Prepend(k, s, e, n)
  <1>1. Data(p) = t \o Data(k)
    BY PrependFields
  <1>2. t \in Seq(Byte) /\ Data(k) \in Seq(Byte)
    BY SegParts, DataIsBytes
  <1> HIDE DEF t, p
  <1>3. (t \o Data(k)) \o w = t \o (Data(k) \o w)
    BY <1>2, Regroup
  <1>. QED
    BY <1>1, <1>2, <1>3 DEF t, p

-----------------------------------------------------------------------------
(* Writes.                                                                 *)

LEMMA FaultMaps ==
  ASSUME SInv, mode = "write", UNCHANGED mode, WriteRefused \/ SetWriteError
  PROVE  SInv' /\ Stream!DeclareFault
  <1>1. /\ Inv /\ call = Idle /\ call' = Idle /\ ret' = <<>> /\ h' = h
        /\ mode' = "write" /\ StreamReq = Stream!NoReq /\ StreamData = Whole(chain, h)
        /\ FullBelow(chain, h)
    BY AtRest DEF SInv, WriteRefused, SetWriteError, Returns
  <1>2. Inv'
    BY <1>1, PutSegStep, ModesStep DEF Modes
  <1>3. /\ GoodChain(chain) /\ h \in 1..Len(chain) /\ GoodBlock(cur) /\ cur = chain[h]
    BY <1>1, Observed DEF Inv
  <1>4. /\ Whole(chain', h) = Whole(chain, h) /\ FullBelow(chain', h)
        /\ chain'[h].writeError = TRUE
    <2>1. CASE WriteRefused
      BY <1>1, <1>3, <2>1, Flags DEF WriteRefused
    <2>2. CASE SetWriteError
      <3> DEFINE k == WriteFault(cur)
      <3>1. /\ GoodBlock(k) /\ k.size = chain[h].size
            /\ Data(k) = Data(chain[h]) /\ k.writeError = TRUE
        BY <1>3, WriteFaultIsGood, FaultFields
      <3> HIDE DEF k
      <3>2. chain' = [chain EXCEPT ![h] = k]
        BY <2>2 DEF SetWriteError, k
      <3>3. /\ chain'[h] = k /\ Whole(chain', h) = Data(k) \o Whole(chain, h - 1)
            /\ FullBelow(chain', h)
        BY <1>1, <1>3, <3>1, <3>2, TopUpdated
      <3>. QED
        BY <1>3, <3>1, <3>3, UnreadIsBytes
    <2>. QED
      BY <2>1, <2>2
  <1>5. Kept' /\ StreamReq' = Stream!NoReq /\ StreamData' = StreamData
    BY <1>1, <1>4, ComesToRest
  <1>6. StreamFault' = TRUE /\ StreamError' = StreamError
    BY <1>1, <1>4, View, ViewAfter
  <1>. QED
    BY <1>1, <1>2, <1>5, <1>6 DEF SInv, Stream!DeclareFault

\* One byte, in the handle's buffer or, when that is full, in the one before.
LEMMA PutByteMaps ==
  ASSUME SInv, mode = "write", UNCHANGED mode, NEW x \in Byte, PutByteRvs(x)
  PROVE  SInv' /\ Stream!PutByte
  <1>1. /\ Inv /\ call = Idle /\ call' = Idle /\ ret' = <<>> /\ ~cur.writeError
        /\ mode' = "write" /\ StreamReq = Stream!NoReq /\ StreamData = Whole(chain, h)
        /\ FullBelow(chain, h)
    BY AtRest DEF SInv, PutByteRvs, Returns
  <1>2. Inv'
    BY <1>1, PutByteStep
  <1>3. /\ GoodChain(chain) /\ GoodChain(chain') /\ h \in 1..Len(chain) /\ GoodBlock(cur)
        /\ cur = chain[h] /\ h \in Nat \ {0} /\ Len(chain) \in Nat /\ h' \in 1..Len(chain')
        /\ DOMAIN chain = 1..Len(chain)
    BY <1>1, <1>2, Observed, GoodChainDomain DEF Inv
  <1>4. <<x>> \in Seq(Byte) /\ Len(<<x>>) = 1 /\ Part(<<x>>, 1, 1) = <<x>>
    <2>1. SubSeq(<<x>>, 1, 1) = <<x>>
      <3>1. <<x>> \in Seq(Byte) /\ Len(<<x>>) = 1
        OBVIOUS
      <3>. QED
        BY <3>1, SubSeqFull
    <2>. QED
      BY <2>1 DEF Part
  <1>5. ASSUME NEW k, GoodBlock(k), k.dataStart > 0, NEW w \in Seq(Byte)
        PROVE  LET p == Prepend(k, <<x>>, 1, 1)
               IN /\ GoodBlock(p) /\ p.size = k.size
                  /\ Data(p) \o w = <<x>> \o (Data(k) \o w)
                  /\ p.writeError = k.writeError
    <2>1. 1 \in Nat /\ 1 <= k.dataStart /\ 1 <= Len(<<x>>)
      BY <1>4, <1>5, GoodFields
    <2> DEFINE p == Prepend(k, <<x>>, 1, 1)
    <2>2. GoodBlock(p) /\ p.size = k.size
      BY <1>4, <1>5, <2>1, PrependIsGood
    <2>3. p.writeError = k.writeError
      BY <1>4, <1>5, <2>1, PrependFields
    <2>4. Data(p) \o w = Part(<<x>>, 1, 1) \o (Data(k) \o w)
      BY <1>4, <1>5, <2>1, PrependBefore
    <2> HIDE DEF p
    <2>. QED
      BY <1>4, <2>2, <2>3, <2>4 DEF p
  <1>6. /\ Whole(chain, h) \in Seq(Byte) /\ Whole(chain, h - 1) \in Seq(Byte)
        /\ Whole(chain, h) = Data(cur) \o Whole(chain, h - 1)
    BY <1>3, UnreadIsBytes
  <1>7. CASE \/ ~Full(cur) /\ h' = h /\ chain' = [chain EXCEPT ![h] = Prepend(cur, <<x>>, 1, 1)]
             \/ /\ Full(cur) /\ h < Len(chain) /\ h' = h + 1
                /\ chain' = [chain EXCEPT
                     ![h + 1] = Prepend(InWriteRvsMode(chain[h + 1]), <<x>>, 1, 1)]
             \/ /\ Full(cur) /\ h = Len(chain) /\ Len(chain) < MaxBlocks /\ h' = h + 1
                /\ chain' = Append(chain, Prepend(InWriteRvsMode(FreshBlock), <<x>>, 1, 1))
    <2>1. /\ Whole(chain', h') = <<x>> \o Whole(chain, h) /\ FullBelow(chain', h')
          /\ chain'[h'].writeError = FALSE
      <3>1. CASE ~Full(cur) /\ h' = h /\ chain' = [chain EXCEPT ![h] = Prepend(cur, <<x>>, 1, 1)]
        <4> DEFINE p == Prepend(cur, <<x>>, 1, 1)
        <4>1. cur.dataStart > 0
          BY <1>3, <3>1, GoodFields DEF Full
        <4>2. /\ GoodBlock(p) /\ p.size = chain[h].size /\ p.writeError = cur.writeError
              /\ Data(p) \o Whole(chain, h - 1) = <<x>> \o (Data(cur) \o Whole(chain, h - 1))
          BY <1>3, <1>5, <1>6, <4>1
        <4> HIDE DEF p
        <4>3. chain' = [chain EXCEPT ![h] = p]
          BY <3>1 DEF p
        <4>4. /\ chain'[h] = p /\ Whole(chain', h) = Data(p) \o Whole(chain, h - 1)
              /\ FullBelow(chain', h)
          BY <1>1, <1>3, <4>2, <4>3, TopUpdated
        <4>5. cur.writeError = FALSE
          BY <1>1, <1>3, Flags
        <4>. QED
          BY <1>6, <3>1, <4>2, <4>4, <4>5
      <3>2. ASSUME h' = h + 1, Full(cur), NEW k, GoodBlock(k), k.size = BlkSize,
                   chain'[h + 1] = Prepend(InWriteRvsMode(k), <<x>>, 1, 1),
                   \A j \in 1..h : chain'[j] = chain[j]
            PROVE  /\ Whole(chain', h') = <<x>> \o Whole(chain, h) /\ FullBelow(chain', h')
                   /\ chain'[h'].writeError = FALSE
        <4> DEFINE n == InWriteRvsMode(k)
                   p == Prepend(n, <<x>>, 1, 1)
        <4>1. GoodBlock(n) /\ n.dataStart > 0 /\ Data(n) = <<>> /\ n.writeError = FALSE
          <5>1. GoodBlock(n) /\ n.dataStart = k.size
            BY <3>2, WriteRvsModeIsGood
          <5>2. Data(n) = <<>> /\ n.writeError = FALSE
            BY <3>2, WriteModeFields
          <5>. QED
            BY <3>2, <5>1, <5>2, BlkSizeAssumption
        <4> HIDE DEF n
        <4>2. /\ p.writeError = FALSE
              /\ Data(p) \o Whole(chain, h) = <<x>> \o (<<>> \o Whole(chain, h))
          BY <1>5, <1>6, <4>1
        <4>3. chain'[h + 1] = p
          BY <3>2 DEF n
        <4> HIDE DEF p
        <4>4. Whole(chain', h + 1) = Data(p) \o Whole(chain', h)
          <5>1. h + 1 \in 1..Len(chain') /\ (h + 1) - 1 = h
            BY <1>3, <3>2
          <5>2. Whole(chain', h + 1) = Data(chain'[h + 1]) \o Whole(chain', (h + 1) - 1)
            BY <1>3, <5>1, UnreadIsBytes
          <5>. QED
            BY <4>3, <5>1, <5>2
        <4>5. Whole(chain', h) = Whole(chain, h)
          <5>1. h \in Nat /\ \A j \in 1..h : Data(chain'[j]) = Data(chain[j])
            BY <1>3, <3>2
          <5>. QED
            BY <5>1, WholeOfSameData
        <4>6. FullBelow(chain', h')
          <5>1. \A j \in 1..(h' - 1) : j \in 1..h /\ (j \in 1..(h - 1) \/ j = h)
            BY <1>3, <3>2
          <5>. QED
            BY <1>1, <1>3, <3>2, <5>1 DEF FullBelow
        <4>. QED
          BY <1>6, <3>2, <4>2, <4>3, <4>4, <4>5, <4>6, ConcatEmptySeq
      <3>3. CASE /\ Full(cur) /\ h < Len(chain) /\ h' = h + 1
                 /\ chain' = [chain EXCEPT
                      ![h + 1] = Prepend(InWriteRvsMode(chain[h + 1]), <<x>>, 1, 1)]
        <4>1. /\ h + 1 \in 1..Len(chain) /\ h + 1 \in 2..Len(chain)
              /\ \A j \in 1..h : j \in 1..Len(chain) /\ j # h + 1
          BY <1>3, <3>3
        <4>2. GoodBlock(chain[h + 1]) /\ chain[h + 1].size = BlkSize
          BY <1>3, <4>1 DEF GoodChain
        <4>3. /\ chain'[h + 1] = Prepend(InWriteRvsMode(chain[h + 1]), <<x>>, 1, 1)
              /\ \A j \in 1..h : chain'[j] = chain[j]
          BY <1>3, <3>3, <4>1 DEF GoodChain
        <4>. QED
          BY <3>2, <3>3, <4>2, <4>3
      <3>4. CASE /\ Full(cur) /\ h = Len(chain) /\ h' = h + 1
                 /\ chain' = Append(chain, Prepend(InWriteRvsMode(FreshBlock), <<x>>, 1, 1))
        <4> DEFINE p == Prepend(InWriteRvsMode(FreshBlock), <<x>>, 1, 1)
        <4>1. chain \in Seq(Block) /\ chain' = Append(chain, p)
          BY <1>3, <3>4 DEF GoodChain
        <4> HIDE DEF p
        <4>2. chain'[h + 1] = p /\ \A j \in 1..h : chain'[j] = chain[j]
          BY <1>3, <3>4, <4>1
        <4>. QED
          BY <3>2, <3>4, <4>2, FreshIsGood DEF p
      <3>. QED
        BY <1>7, <3>1, <3>3, <3>4
    <2>2. Kept' /\ StreamReq' = Stream!NoReq /\ StreamData' = <<x>> \o StreamData
      BY <1>1, <2>1, ComesToRest
    <2>3. StreamFault' = FALSE /\ StreamFault = FALSE /\ StreamError' = StreamError
      BY <1>1, <1>3, <2>1, View, ViewAfter
    <2>4. Stream!Prepend(<<x>>)
      BY <1>1, <2>2, <2>3 DEF Stream!Prepend
    <2>. QED
      BY <1>1, <1>2, <2>2, <2>4 DEF SInv, Stream!PutByte
  <1>8. CASE Full(cur) /\ NoMoreBuffers(cur)
    <2> DEFINE k == WriteFault(cur)
    <2>1. GoodBlock(k) /\ k.size = chain[h].size /\ Data(k) = Data(cur) /\ k.writeError = TRUE
      BY <1>3, WriteFaultIsGood, FaultFields
    <2> HIDE DEF k
    <2>2. chain' = [chain EXCEPT ![h] = k] /\ h' = h
      BY <1>8 DEF NoMoreBuffers, k
    <2>3. /\ chain'[h] = k /\ Whole(chain', h) = Data(k) \o Whole(chain, h - 1)
          /\ FullBelow(chain', h)
      BY <1>1, <1>3, <2>1, <2>2, TopUpdated
    <2>4. Kept' /\ StreamReq' = Stream!NoReq /\ StreamData' = StreamData
      BY <1>1, <1>6, <2>1, <2>2, <2>3, ComesToRest
    <2>5. StreamFault' = TRUE /\ StreamFault = FALSE /\ StreamError' = StreamError
      BY <1>1, <1>3, <2>1, <2>2, <2>3, View, ViewAfter
    <2>6. \E n \in 0..Len(<<x>>) : StreamData' = SubSeq(<<x>>, n + 1, Len(<<x>>)) \o StreamData
      <3>1. SubSeq(<<x>>, 1 + 1, Len(<<x>>)) = <<>> /\ 1 \in 0..Len(<<x>>)
        BY <1>4, SubSeqEmpty
      <3>2. <<>> \o StreamData = StreamData
        BY <1>1, <1>6, ConcatEmptySeq
      <3>. QED
        BY <2>4, <3>1, <3>2
    <2>7. Stream!Prepend(<<x>>)
      BY <1>1, <2>4, <2>5, <2>6 DEF Stream!Prepend, Stream!Unfinished
    <2>. QED
      BY <1>1, <1>2, <2>4, <2>7 DEF SInv, Stream!PutByte
  <1>. QED
    BY <1>7, <1>8 DEF PutByteRvs

\* The segment in progress, and the data it is written before.
LEMMA SegView ==
  ASSUME SInv, call.op = "PutSegRvs"
  PROVE  /\ mode = "write" /\ ~chain[h].writeError /\ FullBelow(chain, h)
         /\ call.seg \in Seq(Byte) /\ call.len \in Nat /\ call.len <= Len(call.seg)
         /\ StreamReq.op = "PutSegRvs" /\ StreamReq.seg = call.seg
         /\ StreamData \in Seq(Byte)
         /\ Whole(chain, h) = SubSeq(call.seg, call.len + 1, Len(call.seg)) \o StreamData
  <1>1. KeptOf(mode, call, chain, h) /\ Inv
    BY DEF SInv, Kept
  <1>2. /\ call.seg \in Seq(Byte) /\ Len(call.seg) \in Nat
        /\ call.len \in Nat /\ call.len <= Len(call.seg)
    BY <1>1, BoundsAssumption DEF Inv, CallOK, Call, Segs
  <1>3. mode = "write" /\ SegInPlace(call, chain, h) /\ FullBelow(chain, h)
    BY <1>1, IdleOps, ModesDiffer DEF KeptOf, Top
  <1>4. StreamReq.op = "PutSegRvs" /\ StreamReq.seg = call.seg
    BY DEF StreamReq
  <1> DEFINE t == SubSeq(call.seg, call.len + 1, Len(call.seg))
  <1>5. PICK d \in Seq(Byte) : Whole(chain, h) = t \o d
    BY <1>3 DEF SegInPlace
  <1>6. t \in Seq(Byte) /\ Len(t) = Len(call.seg) - call.len
    <2>1. 0 \in Nat /\ 0 <= call.len
      BY <1>2
    <2>. QED
      BY <1>2, <2>1, SegParts
  <1>7. StreamData = SubSeq(Whole(chain, h), Len(call.seg) - call.len + 1, Len(Whole(chain, h)))
    BY View DEF DataOf
  <1> HIDE DEF t
  <1>8. SubSeq(t \o d, Len(t) + 1, Len(t \o d)) = d
    BY <1>6, FrontAndRest
  <1>9. StreamData = d
    BY <1>5, <1>6, <1>7, <1>8
  <1>. QED
    BY <1>2, <1>3, <1>4, <1>5, <1>9 DEF SegInPlace, t

\* What is written in one buffer, n bytes before the part already in place.
LEMMA SegGrows ==
  ASSUME SInv, call.op = "PutSegRvs", NEW n \in Nat, n <= call.len, n <= cur.dataStart
  PROVE  LET k == Prepend(cur, call.seg, call.len, n)
         IN /\ GoodBlock(k) /\ k.size = chain[h].size /\ k.writeError = FALSE
            /\ k.dataStart = cur.dataStart - n
            /\ Data(k) \o Whole(chain, h - 1)
                 = SubSeq(call.seg, call.len - n + 1, Len(call.seg)) \o StreamData
  <1> DEFINE k == Prepend(cur, call.seg, call.len, n)
             a == Part(call.seg, call.len, n)
             b == SubSeq(call.seg, call.len + 1, Len(call.seg))
             w == SubSeq(call.seg, call.len - n + 1, Len(call.seg))
  <1>1. /\ call.seg \in Seq(Byte) /\ call.len \in Nat /\ call.len <= Len(call.seg)
        /\ StreamData \in Seq(Byte) /\ Whole(chain, h) = b \o StreamData /\ ~chain[h].writeError
    BY SegView
  <1>2. GoodChain(chain) /\ h \in 1..Len(chain) /\ GoodBlock(cur) /\ cur = chain[h]
    BY Observed DEF SInv, Inv
  <1>3. GoodBlock(k) /\ k.size = cur.size
    BY <1>1, <1>2, PrependIsGood
  <1>4. k.dataStart = cur.dataStart - n /\ k.writeError = cur.writeError
    BY <1>1, <1>2, PrependFields
  <1>5. k.writeError = FALSE
    BY <1>1, <1>2, <1>4, Flags
  <1>6. a \in Seq(Byte) /\ b \in Seq(Byte) /\ a \o b = w
    BY <1>1, SegParts
  <1>7. /\ Whole(chain, h - 1) \in Seq(Byte)
        /\ Whole(chain, h) = Data(cur) \o Whole(chain, h - 1)
    BY <1>2, UnreadIsBytes
  <1>8. Data(k) = a \o Data(cur) /\ Data(cur) \in Seq(Byte)
    <2>1. call.seg \in Seq(Byte) /\ call.len \in Nat /\ call.len <= Len(call.seg) /\ GoodBlock(cur)
      BY <1>1, <1>2
    <2>2. Data(k) = a \o Data(cur)
      BY <2>1, PrependFields
    <2>. QED
      BY <2>1, <2>2, DataIsBytes
  <1> HIDE DEF k, a, b, w
  <1>9. (a \o b) \o StreamData = a \o (b \o StreamData)
    <2>1. a \in Seq(Byte) /\ b \in Seq(Byte) /\ StreamData \in Seq(Byte)
      BY <1>1, <1>6
    <2>. QED
      BY <2>1, Regroup
  <1>10. Data(k) \o Whole(chain, h - 1) = w \o StreamData
    <2>1. (a \o Data(cur)) \o Whole(chain, h - 1) = a \o (Data(cur) \o Whole(chain, h - 1))
      <3> DEFINE t == Data(cur)
                 u == Whole(chain, h - 1)
      <3>1. a \in Seq(Byte) /\ t \in Seq(Byte) /\ u \in Seq(Byte)
        BY <1>6, <1>7, <1>8
      <3> HIDE DEF t, u
      <3>2. (a \o t) \o u = a \o (t \o u)
        BY <3>1, Regroup
      <3>. QED
        BY <3>2 DEF t, u
    <2>. QED
      BY <1>1, <1>6, <1>7, <1>8, <1>9, <2>1
  <1>. QED
    BY <1>2, <1>3, <1>4, <1>5, <1>10 DEF k, w

LEMMA PutSegFitsMaps ==
  ASSUME SInv, UNCHANGED mode, PutSegRvsFits
  PROVE  SInv' /\ Stream!PutSeg
  <1>1. /\ Inv /\ call.op = "PutSegRvs" /\ call' = Idle /\ ret' = <<>> /\ h' = h
        /\ cur.dataStart > call.len
    BY DEF SInv, PutSegRvsFits, Returns
  <1>2. Inv'
    BY <1>1, PutSegLoopStep
  <1>3. /\ mode = "write" /\ ~chain[h].writeError /\ FullBelow(chain, h)
        /\ call.seg \in Seq(Byte) /\ call.len \in Nat /\ call.len <= Len(call.seg)
        /\ StreamReq.op = "PutSegRvs" /\ StreamReq.seg = call.seg
    BY <1>1, SegView
  <1>4. /\ GoodChain(chain) /\ h \in 1..Len(chain) /\ GoodBlock(cur) /\ cur = chain[h]
        /\ cur.dataStart \in Nat
    BY <1>1, Observed, GoodFields DEF Inv
  <1> DEFINE k == Prepend(cur, call.seg, call.len, call.len)
  <1>5. /\ GoodBlock(k) /\ k.size = chain[h].size /\ k.writeError = FALSE
        /\ Data(k) \o Whole(chain, h - 1) = call.seg \o StreamData
    <2>1. call.len <= call.len /\ call.len <= cur.dataStart /\ call.len - call.len + 1 = 1
      BY <1>1, <1>3, <1>4
    <2>2. SubSeq(call.seg, call.len - call.len + 1, Len(call.seg)) = call.seg
      BY <1>3, <2>1, SubSeqFull
    <2>3. /\ GoodBlock(k) /\ k.size = chain[h].size /\ k.writeError = FALSE
          /\ Data(k) \o Whole(chain, h - 1)
                 = SubSeq(call.seg, call.len - call.len + 1, Len(call.seg)) \o StreamData
      BY <1>1, <1>3, <2>1, SegGrows
    <2> HIDE DEF k
    <2>. QED
      BY <2>2, <2>3
  <1> HIDE DEF k
  <1>6. chain' = [chain EXCEPT ![h] = k]
    BY DEF PutSegRvsFits, k
  <1>7. /\ chain'[h] = k /\ Whole(chain', h) = Data(k) \o Whole(chain, h - 1)
        /\ FullBelow(chain', h)
    BY <1>3, <1>4, <1>5, <1>6, TopUpdated
  <1>8. Kept' /\ StreamReq' = Stream!NoReq /\ StreamData' = call.seg \o StreamData
    BY <1>1, <1>3, <1>5, <1>7, ComesToRest
  <1>9. StreamFault' = FALSE /\ StreamFault = FALSE /\ StreamError' = StreamError
    BY <1>1, <1>3, <1>5, <1>7, View, ViewAfter
  <1>. QED
    BY <1>1, <1>2, <1>3, <1>8, <1>9 DEF SInv, Stream!PutSeg, Stream!Prepend

\* The buffer to go on with, once block "full" of the list is full.
LEMMA NextBuffer ==
  ASSUME Inv, NEW full, GoodBlock(full), full.size = cur.size, Data(full) \in Seq(Byte),
         Full(full), FullBelow(chain, h), MoveToPrev(full)
  PROVE  /\ h' = h + 1 /\ h' \in 1..Len(chain')
         /\ Whole(chain', h') = Data(full) \o Whole(chain, h - 1)
         /\ FullBelow(chain', h') /\ chain'[h'].writeError = FALSE
  <1>1. /\ GoodChain(chain) /\ h \in 1..Len(chain) /\ h \in Nat \ {0} /\ Len(chain) \in Nat
        /\ cur = chain[h]
    BY Observed DEF Inv
  <1>2. /\ GoodChain(chain') /\ h' \in DOMAIN chain' /\ DOMAIN chain' = 1..Len(chain')
        /\ h' = h + 1
    BY MoveToPrevIsOK, GoodChainDomain DEF MoveToPrev
  <1>3. /\ chain'[h] = full /\ \A j \in 1..(h - 1) : chain'[j] = chain[j]
        /\ Data(chain'[h + 1]) = <<>> /\ chain'[h + 1].writeError = FALSE
    <2> DEFINE c == [chain EXCEPT ![h] = full]
    <2>1. c \in Seq(Block) /\ Len(c) = Len(chain) /\ chain \in Seq(Block)
      BY <1>1 DEF GoodChain, GoodBlock
    <2>2. c[h] = full /\ \A j \in 1..(h - 1) : c[j] = chain[j]
      <3>1. \A j \in 1..(h - 1) : j \in 1..Len(chain) /\ j # h
        BY <1>1
      <3>. QED
        BY <1>1, <2>1, <3>1
    <2>3. CASE /\ h < Len(chain)
               /\ chain' = [chain EXCEPT ![h] = full,
                                         ![h + 1] = InWriteRvsMode(chain[h + 1])]
      <3> DEFINE k == InWriteRvsMode(chain[h + 1])
      <3>1. h + 1 \in 1..Len(chain) /\ GoodBlock(chain[h + 1])
        BY <1>1, <2>3 DEF GoodChain
      <3>2. Data(k) = <<>> /\ k.writeError = FALSE
        BY <3>1, WriteModeFields
      <3>3. chain' = [c EXCEPT ![h + 1] = k]
        BY <2>3
      <3> HIDE DEF k, c
      <3>4. chain'[h + 1] = k /\ \A j \in 1..h : chain'[j] = c[j]
        <4>1. \A j \in 1..h : j \in 1..Len(c) /\ j # h + 1
          BY <1>1, <2>1
        <4>. QED
          BY <2>1, <3>1, <3>3, <4>1
      <3>5. h \in 1..h /\ \A j \in 1..(h - 1) : j \in 1..h
        BY <1>1
      <3>. QED
        BY <2>2, <3>2, <3>4, <3>5
    <2>4. CASE h = Len(chain) /\ chain' = Append(c, InWriteRvsMode(FreshBlock))
      <3> DEFINE k == InWriteRvsMode(FreshBlock)
      <3>1. Data(k) = <<>> /\ k.writeError = FALSE
        BY FreshIsGood, WriteModeFields
      <3>2. chain' = Append(c, k)
        BY <2>4
      <3> HIDE DEF k, c
      <3>3. chain'[h + 1] = k /\ \A j \in 1..h : chain'[j] = c[j]
        BY <1>1, <2>1, <2>4, <3>2
      <3>4. h \in 1..h /\ \A j \in 1..(h - 1) : j \in 1..h
        BY <1>1
      <3>. QED
        BY <2>2, <3>1, <3>3, <3>4
    <2>. QED
      BY <2>3, <2>4 DEF MoveToPrev
  <1>4. Whole(chain', h) = Data(full) \o Whole(chain, h - 1)
    <2> DEFINE d == chain'
    <2>1. GoodChain(d) /\ h \in 1..Len(d) /\ d[h] = full /\ \A j \in 1..(h - 1) : d[j] = chain[j]
      BY <1>1, <1>2, <1>3
    <2> HIDE DEF d
    <2>2. Whole(d, h) = Data(d[h]) \o Whole(chain, h - 1)
      BY <1>1, <2>1, TopChanges
    <2>. QED
      BY <2>1, <2>2 DEF d
  <1>5. Whole(chain', h + 1) = Whole(chain', h)
    <2>1. h + 1 \in 0..Len(chain') /\ h \in 0..(h + 1) /\ \A j \in (h + 1)..(h + 1) : j = h + 1
      BY <1>1, <1>2
    <2>. QED
      BY <1>2, <1>3, <2>1, WholeOverEmpty
  <1>6. FullBelow(chain', h + 1)
    <2>1. \A j \in 1..((h + 1) - 1) : j \in 1..(h - 1) \/ j = h
      BY <1>1
    <2>. QED
      BY <1>3, <2>1 DEF FullBelow
  <1>. QED
    BY <1>2, <1>3, <1>4, <1>5, <1>6

LEMMA PutSegFillsMaps ==
  ASSUME SInv, UNCHANGED mode, PutSegRvsFills
  PROVE  SInv' /\ (Stream!PutSeg \/ UNCHANGED Stream!vars)
  <1>1. /\ Inv /\ call.op = "PutSegRvs" /\ cur.dataStart <= call.len
    BY DEF SInv, PutSegRvsFills
  <1>2. Inv'
    BY <1>1, PutSegLoopStep
  <1>3. /\ mode = "write" /\ ~chain[h].writeError /\ FullBelow(chain, h)
        /\ call.seg \in Seq(Byte) /\ call.len \in Nat /\ call.len <= Len(call.seg)
        /\ StreamReq.op = "PutSegRvs" /\ StreamReq.seg = call.seg /\ StreamData \in Seq(Byte)
    BY <1>1, SegView
  <1>4. /\ GoodChain(chain) /\ h \in 1..Len(chain) /\ GoodBlock(cur) /\ cur = chain[h]
        /\ cur.dataStart \in Nat
    BY <1>1, Observed, GoodFields DEF Inv
  <1> DEFINE n == call.len - cur.dataStart
             t == SubSeq(call.seg, n + 1, Len(call.seg))
             full == Prepend(cur, call.seg, call.len, cur.dataStart)
  <1>5. /\ GoodBlock(full) /\ full.size = chain[h].size /\ full.writeError = FALSE
        /\ full.dataStart = 0 /\ Data(full) \o Whole(chain, h - 1) = t \o StreamData
    <2>1. cur.dataStart <= cur.dataStart /\ cur.dataStart - cur.dataStart = 0
      BY <1>4
    <2>2. /\ GoodBlock(full) /\ full.size = chain[h].size /\ full.writeError = FALSE
          /\ full.dataStart = cur.dataStart - cur.dataStart
          /\ Data(full) \o Whole(chain, h - 1) = t \o StreamData
      BY <1>1, <1>4, <2>1, SegGrows
    <2> HIDE DEF full, t
    <2>. QED
      BY <2>1, <2>2
  <1>6. n \in 0..Len(call.seg) /\ n \in Nat /\ Len(call.seg) \in Nat
    BY <1>1, <1>3, <1>4
  <1>7. Data(full) \in Seq(Byte)
    BY <1>5, DataIsBytes
  <1>8. \/ MoveToPrev(full) /\ call' = [call EXCEPT !.len = n] /\ ret' = ret
        \/ NoMoreBuffers(full) /\ Returns(<<>>)
    BY DEF PutSegRvsFills
  <1> HIDE DEF n, t, full
  <1>9. CASE MoveToPrev(full) /\ call' = [call EXCEPT !.len = n] /\ ret' = ret
    <2>1. /\ h' = h + 1 /\ Whole(chain', h') = t \o StreamData
          /\ FullBelow(chain', h') /\ chain'[h'].writeError = FALSE
      BY <1>1, <1>3, <1>4, <1>5, <1>7, <1>9, NextBuffer DEF Full
    <2>2. call'.op = "PutSegRvs" /\ call'.seg = call.seg /\ call'.len = n
      BY <1>1, <1>9 DEF Inv, CallOK, Call
    <2>3. SegInPlace(call', chain', h')
      BY <1>3, <2>1, <2>2 DEF SegInPlace, t
    <2>4. Kept'
      <3>1. KeptOf(mode', call', chain', h')
        BY <1>3, <2>1, <2>2, <2>3, ModesDiffer DEF KeptOf, Top
      <3>. QED
        BY <3>1 DEF Kept
    <2>5. SInv'
      BY <1>2, <2>4 DEF SInv
    <2>6. StreamData' = StreamData
      <3>1. StreamData' = SubSeq(Whole(chain', h'), Len(call.seg) - n + 1, Len(Whole(chain', h')))
        BY <2>2, ViewAfter DEF DataOf
      <3>2. t \in Seq(Byte) /\ Len(t) = Len(call.seg) - n
        <4>1. 0 \in Nat /\ 0 <= n /\ n <= Len(call.seg)
          BY <1>6
        <4>. QED
          BY <1>3, <1>6, <4>1, SegParts DEF t
      <3>3. SubSeq(t \o StreamData, Len(t) + 1, Len(t \o StreamData)) = StreamData
        BY <1>3, <3>2, FrontAndRest
      <3>. QED
        BY <2>1, <3>1, <3>2, <3>3
    <2>7. StreamReq' = StreamReq
      BY <1>1, <2>2 DEF StreamReq
    <2>8. StreamFault' = StreamFault /\ StreamError' = StreamError
      BY <1>3, <2>1, View, ViewAfter
    <2>. QED
      BY <1>9, <2>5, <2>6, <2>7, <2>8 DEF Stream!vars
  <1>10. CASE NoMoreBuffers(full) /\ Returns(<<>>)
    <2> DEFINE k == WriteFault(full)
    <2>1. GoodBlock(k) /\ k.size = chain[h].size /\ Data(k) = Data(full) /\ k.writeError = TRUE
      BY <1>5, WriteFaultIsGood, FaultFields
    <2>2. chain' = [chain EXCEPT ![h] = k] /\ h' = h /\ call' = Idle /\ ret' = <<>>
      BY <1>10 DEF NoMoreBuffers, Returns
    <2> HIDE DEF k
    <2>3. /\ chain'[h] = k /\ Whole(chain', h) = Data(k) \o Whole(chain, h - 1)
          /\ FullBelow(chain', h)
      BY <1>3, <1>4, <2>1, <2>2, TopUpdated
    <2>4. Kept' /\ StreamReq' = Stream!NoReq /\ StreamData' = t \o StreamData
      BY <1>3, <1>5, <2>1, <2>2, <2>3, ComesToRest
    <2>5. StreamFault' = TRUE /\ StreamFault = FALSE /\ StreamError' = StreamError
      BY <1>3, <2>1, <2>2, <2>3, View, ViewAfter
    <2>6. \E i \in 0..Len(StreamReq.seg) :
             StreamData' = SubSeq(StreamReq.seg, i + 1, Len(StreamReq.seg)) \o StreamData
      BY <1>3, <1>6, <2>4 DEF t
    <2>7. Stream!Prepend(StreamReq.seg)
      BY <1>3, <2>2, <2>4, <2>5, <2>6 DEF Stream!Prepend, Stream!Unfinished
    <2>. QED
      BY <1>2, <1>3, <2>4, <2>7 DEF SInv, Stream!PutSeg
  <1>. QED
    BY <1>8, <1>9, <1>10

LEMMA PutSegMaps ==
  ASSUME SInv, mode = "write", UNCHANGED mode, NEW s \in Segs, PutSegRvs(s)
  PROVE  SInv' /\ Stream!Request
  <1>1. /\ Inv /\ call = Idle /\ ret' = <<>> /\ h' = h /\ chain' = chain
        /\ mode' = "write" /\ StreamReq = Stream!NoReq /\ StreamData = Whole(chain, h)
        /\ FullBelow(chain, h) /\ ~chain[h].writeError
    BY AtRest DEF SInv, PutSegRvs, cur
  <1>2. Inv'
    BY <1>1, PutSegStep
  <1>3. s \in Seq(Byte) /\ Len(s) \in 0..MaxLen /\ Len(s) \in Nat
    BY BoundsAssumption DEF Segs
  <1>4. call'.op = "PutSegRvs" /\ call'.seg = s /\ call'.len = Len(s)
    BY DEF PutSegRvs, Idle
  <1>5. Whole(chain, h) \in Seq(Byte)
    BY <1>1, Observed, UnreadIsBytes DEF Inv
  <1>6. SegInPlace(call', chain', h')
    <2>1. SubSeq(s, Len(s) + 1, Len(s)) = <<>>
      BY <1>3, SubSeqEmpty
    <2>2. Whole(chain, h) = SubSeq(s, Len(s) + 1, Len(s)) \o Whole(chain, h)
      BY <1>5, <2>1, ConcatEmptySeq
    <2>. QED
      BY <1>1, <1>4, <1>5, <2>2 DEF SegInPlace
  <1>7. Kept'
    <2>1. KeptOf(mode', call', chain', h')
      BY <1>1, <1>4, <1>6, ModesDiffer DEF KeptOf, Top
    <2>. QED
      BY <2>1 DEF Kept
  <1>8. StreamData' = StreamData
    <2>1. StreamData' = SubSeq(Whole(chain, h), Len(s) - Len(s) + 1, Len(Whole(chain, h)))
      BY <1>1, <1>4, ViewAfter DEF DataOf
    <2>2. Len(s) - Len(s) + 1 = 1
      BY <1>3
    <2>. QED
      BY <1>1, <1>5, <2>1, <2>2, SubSeqFull
  <1>9. StreamReq' = [op |-> "PutSegRvs", seg |-> s, len |-> Len(s)]
    BY <1>4 DEF StreamReq
  <1>10. StreamReq' \in Stream!Requests /\ StreamReq'.op = "PutSegRvs"
    <2>1. Stream!Segs = Segs
      BY DEF Stream!Segs, Segs
    <2>. QED
      BY <1>3, <1>9, <2>1 DEF Stream!Requests
  <1>11. StreamFault' = FALSE /\ StreamFault = FALSE /\ StreamError' = StreamError
    BY <1>1, View, ViewAfter
  <1>. QED
    BY <1>1, <1>2, <1>7, <1>8, <1>10, <1>11 DEF SInv, Stream!Request

-----------------------------------------------------------------------------
(* Reads.                                                                  *)

LEMMA CopyToFileMaps ==
  ASSUME SInv, mode = "write", UNCHANGED mode, h = Len(chain), CopyToFile
  PROVE  SInv' /\ Stream!WriteOut
  <1>1. /\ Inv /\ call = Idle /\ call' = Idle /\ chain' = chain /\ h' = h /\ mode' = "write"
        /\ StreamReq = Stream!NoReq /\ StreamData = Whole(chain, h) /\ FullBelow(chain, h)
    BY AtRest DEF SInv, CopyToFile, Returns
  <1>2. ret' = Whole(chain, h) /\ Returns(Whole(chain, h))
    BY DEF CopyToFile, Returns, DataFrom, Whole
  <1>3. Whole(chain, h) \in Seq(Byte)
    BY <1>1, Observed, UnreadIsBytes DEF Inv
  <1>4. Inv'
    BY <1>1, <1>2, <1>3, ReturnsIsOK DEF Inv
  <1>5. Kept' /\ StreamReq' = Stream!NoReq /\ StreamData' = StreamData
    BY <1>1, ComesToRest
  <1>6. StreamFault' = StreamFault /\ StreamError' = StreamError
    BY <1>1, View, ViewAfter
  <1>. QED
    BY <1>1, <1>2, <1>4, <1>5, <1>6 DEF SInv, Stream!WriteOut

LEMMA BeginMaps ==
  ASSUME SInv, mode # "write", UNCHANGED mode, NEW n \in 0..MaxLen,
         Copy(n) \/ Skip(n) \/ PeekCopy(n)
  PROVE  SInv' /\ Stream!Request
  <1>1. /\ Inv /\ call = Idle /\ ret' = <<>> /\ h' = h /\ chain' = chain
        /\ mode' = mode /\ mode \in ReadModes /\ StreamReq = Stream!NoReq
        /\ StreamData = UnreadOf(chain, h) /\ FullBelow(chain, h) /\ ReadyBelow(chain, h)
    BY AtRest DEF SInv, Copy, Skip, PeekCopy, Begin
  <1>2. Inv'
    BY <1>1, BeginStep
  <1>3. PICK op \in ReadLoops : Begin(op, n)
    BY DEF Copy, Skip, PeekCopy, ReadLoops
  <1>4. /\ call'.op = op /\ call'.seg = <<>> /\ call'.len = n /\ call'.got = <<>>
        /\ call'.orig = h
    BY <1>3 DEF Begin, Idle
  <1>5. GoodChain(chain) /\ h \in 1..Len(chain) /\ h \in Nat /\ UnreadOf(chain, h) \in Seq(Byte)
    BY <1>1, Observed, UnreadIsBytes DEF Inv
  <1>6. <<>> \o UnreadOf(chain, h) = UnreadOf(chain, h)
    BY <1>5, ConcatEmptySeq
  <1>7. op = "PeekCopy" => PeekInPlace(call', chain', h')
    <2>1. h <= h /\ ~(h < h)
      BY <1>5
    <2>. QED
      BY <1>1, <1>4, <1>6, <2>1 DEF PeekInPlace
  <1>8. Kept'
    <2>1. Top(call', h') = h
      BY <1>1, <1>4 DEF Top
    <2>2. KeptOf(mode', call', chain', h')
      BY <1>1, <1>4, <1>7, <2>1 DEF KeptOf, ReadLoops
    <2>. QED
      BY <2>2 DEF Kept
  <1>9. StreamData' = StreamData
    BY <1>1, <1>4, <1>6, ViewAfter DEF DataOf, ReadLoops
  <1>10. StreamReq' = [op |-> op, seg |-> <<>>, len |-> n]
    BY <1>4 DEF StreamReq, ReadLoops
  <1>11. StreamReq' \in Stream!Requests /\ StreamReq'.op # "PutSegRvs"
    <2>1. <<>> \in Stream!Segs
      <3>1. <<>> \in [1..0 -> Byte] /\ 0 \in 0..MaxLen
        BY BoundsAssumption
      <3>. QED
        BY <3>1 DEF Stream!Segs
    <2>. QED
      BY <1>10, <2>1 DEF Stream!Requests, ReadLoops
  <1>12. StreamFault' = StreamFault /\ StreamError' = StreamError
    BY <1>1, View, ViewAfter
  <1>. QED
    BY <1>1, <1>2, <1>8, <1>9, <1>11, <1>12 DEF SInv, Stream!Request

\* Bytes that leave the front of the stream.
LEMMA FrontOfStream ==
  ASSUME NEW g \in Seq(Byte), NEW d \in Seq(Byte), StreamData = g \o d
  PROVE  /\ Len(g) \in Nat /\ Len(g) <= Len(StreamData)
         /\ Stream!Front(Len(g)) = g /\ Stream!Rest(Len(g)) = d
         /\ \A k \in Nat : Len(g) <= k => Len(g) \in Stream!Given(k)
  <1>1. /\ Len(g) \in Nat /\ Len(g) <= Len(g \o d)
        /\ SubSeq(g \o d, 1, Len(g)) = g
        /\ SubSeq(g \o d, Len(g) + 1, Len(g \o d)) = d
    BY FrontAndRest
  <1>2. Len(StreamData) \in Nat
    BY <1>1
  <1>3. \A k \in Nat : Len(g) <= k => Len(g) \in Stream!Given(k)
    BY <1>1, <1>2 DEF Stream!Given
  <1>. QED
    BY <1>1, <1>3 DEF Stream!Front, Stream!Rest

LEMMA ReadFacts ==
  ASSUME SInv, mode # "write", call = Idle
  PROVE  /\ Inv /\ mode \in ReadModes /\ StreamReq = Stream!NoReq
         /\ StreamData = UnreadOf(chain, h) /\ FullBelow(chain, h) /\ ReadyBelow(chain, h)
         /\ GoodChain(chain) /\ h \in 1..Len(chain) /\ GoodBlock(cur) /\ cur = chain[h]
         /\ UnreadOf(chain, h) \in Seq(Byte) /\ Whole(chain, h - 1) \in Seq(Byte)
         /\ Rest(cur) \in Seq(Byte) /\ UnreadOf(chain, h) = Rest(cur) \o Whole(chain, h - 1)
  <1>1. Inv /\ GoodChain(chain) /\ h \in 1..Len(chain) /\ GoodBlock(cur) /\ cur = chain[h]
    BY Observed DEF SInv, Inv
  <1>. QED
    BY <1>1, AtRest, UnreadIsBytes DEF UnreadOf

\* What a segment is of the bytes not yet read.
LEMMA SegOfRest ==
  ASSUME Inv, NEW n \in Nat
  PROVE  /\ Seg(n) \in Seq(Byte)
         /\ \E d \in Seq(Byte) : UnreadOf(chain, h) = Seg(n) \o d
         /\ Seg(n) = <<>> => n = 0 \/ AtEod(cur)
         /\ Len(Seg(n)) < n => Seg(n) = Rest(cur)
  <1>1. GoodChain(chain) /\ h \in 1..Len(chain) /\ GoodBlock(cur) /\ cur = chain[h]
    BY Observed DEF Inv
  <1>2. /\ SegLen(n) \in Nat /\ SegLen(n) <= Left(cur) /\ Seg(n) \in Seq(Byte)
        /\ Len(Seg(n)) = SegLen(n)
    BY SegIsWritten
  <1>3. Left(cur) \in Nat /\ (AtEod(cur) <=> Left(cur) = 0) /\ Whole(chain, h - 1) \in Seq(Byte)
    BY <1>1, RestIsBytes, UnreadIsBytes
  <1> DEFINE r == Rest(Advance(cur, SegLen(n)))
  <1>4. Rest(cur) = Seg(n) \o r /\ r \in Seq(Byte)
    BY <1>1, <1>2, AdvanceFields DEF Seg
  <1> HIDE DEF r
  <1>5. UnreadOf(chain, h) = Seg(n) \o (r \o Whole(chain, h - 1))
    <2>1. (Seg(n) \o r) \o Whole(chain, h - 1) = Seg(n) \o (r \o Whole(chain, h - 1))
      <3>1. Seg(n) \in Seq(Byte) /\ r \in Seq(Byte) /\ Whole(chain, h - 1) \in Seq(Byte)
        BY <1>2, <1>3, <1>4
      <3>. QED
        BY <3>1, Regroup
    <2>. QED
      BY <1>1, <1>4, <2>1 DEF UnreadOf
  <1>6. r \o Whole(chain, h - 1) \in Seq(Byte)
    BY <1>3, <1>4, ConcatProperties
  <1>7. Seg(n) = <<>> => n = 0 \/ AtEod(cur)
    BY <1>2, <1>3 DEF SegLen, AtMost
  <1>8. Len(Seg(n)) < n => Seg(n) = Rest(cur)
    <2>1. SegLen(n) < n => SegLen(n) = Left(cur)
      BY <1>3 DEF SegLen, AtMost
    <2>. QED
      BY <1>2, <2>1 DEF Seg, Rest
  <1>. QED
    BY <1>2, <1>5, <1>6, <1>7, <1>8

LEMMA SegMaps ==
  ASSUME SInv, mode # "write", UNCHANGED mode, NEW n \in 0..MaxLen, GetSeg(n) \/ PeekSeg(n)
  PROVE  SInv' /\ (Stream!TakeSeg \/ Stream!PeekSeg)
  <1>1. /\ Inv /\ call = Idle /\ call' = Idle /\ ret' = Seg(n) /\ mode' = mode /\ n \in Nat
    BY BoundsAssumption DEF SInv, GetSeg, PeekSeg, Returns
  <1>2. Inv'
    BY <1>1, SegStep
  <1>3. /\ mode \in ReadModes /\ StreamReq = Stream!NoReq /\ StreamData = UnreadOf(chain, h)
        /\ FullBelow(chain, h) /\ ReadyBelow(chain, h) /\ cur = chain[h]
    BY <1>1, ReadFacts
  <1>4. Seg(n) \in Seq(Byte) /\ Len(Seg(n)) <= n
    BY <1>1, SegIsWritten
  <1>5. n \in Stream!Asked("GetSeg") /\ n \in Stream!Asked("PeekSeg")
    BY <1>3 DEF Stream!Asked, Stream!NoReq
  <1>6. CASE GetSeg(n)
    <2>1. /\ UnreadOf(chain, h) = Seg(n) \o UnreadOf(chain', h')
          /\ UnreadOf(chain', h') \in Seq(Byte)
          /\ FullBelow(chain', h') /\ ReadyBelow(chain', h')
          /\ chain'[h'].readError = cur.readError
      BY <1>1, <1>3, <1>6, TakesFromFront DEF GetSeg
    <2>2. Kept' /\ StreamReq' = Stream!NoReq /\ StreamData' = UnreadOf(chain', h')
      BY <1>1, <1>3, <2>1, ComesToRest
    <2>3. StreamFault' = StreamFault /\ StreamError' = StreamError
      BY <1>1, <1>3, <2>1, View, ViewAfter
    <2>4. /\ Len(Seg(n)) <= Len(StreamData) /\ Stream!Front(Len(Seg(n))) = Seg(n)
          /\ Stream!Rest(Len(Seg(n))) = UnreadOf(chain', h')
          /\ Len(Seg(n)) \in Stream!Given(n)
      BY <1>1, <1>3, <1>4, <2>1, FrontOfStream
    <2>5. Stream!Take(Len(Seg(n)))
      BY <1>1, <2>2, <2>3, <2>4 DEF Stream!Take
    <2>. QED
      BY <1>1, <1>2, <1>3, <1>5, <2>2, <2>3, <2>4, <2>5 DEF SInv, Stream!TakeSeg, Stream!Flags
  <1>7. CASE PeekSeg(n)
    <2>1. chain' = chain /\ h' = h
      BY <1>7 DEF PeekSeg
    <2>2. Kept' /\ StreamReq' = Stream!NoReq /\ StreamData' = StreamData
      BY <1>1, <1>3, <2>1, ComesToRest
    <2>3. StreamFault' = StreamFault /\ StreamError' = StreamError
      BY <1>1, <2>1, View, ViewAfter
    <2>4. PICK d \in Seq(Byte) : UnreadOf(chain, h) = Seg(n) \o d
      BY <1>1, SegOfRest
    <2>5. Len(Seg(n)) \in Stream!Given(n) /\ Stream!Front(Len(Seg(n))) = Seg(n)
      BY <1>1, <1>3, <1>4, <2>4, FrontOfStream
    <2>. QED
      BY <1>1, <1>2, <1>3, <1>5, <2>2, <2>3, <2>5 DEF SInv, Stream!PeekSeg
  <1>. QED
    BY <1>6, <1>7

\* A single byte, from a buffer of the list that is ready to be read.
LEMMA OneByte ==
  ASSUME NEW c, GoodChain(c), NEW i \in 1..Len(c), ~AtEod(c[i])
  PROVE  LET b == BytesAt(c[i], c[i].curr, 1)
             k == Advance(c[i], 1)
         IN /\ b \in Seq(Byte) /\ Len(b) = 1 /\ GoodBlock(k) /\ k.size = c[i].size
            /\ UnreadOf(c, i) = b \o (Rest(k) \o Whole(c, i - 1))
            /\ Rest(k) \o Whole(c, i - 1) \in Seq(Byte)
            /\ k.readError = c[i].readError
  <1> DEFINE b == BytesAt(c[i], c[i].curr, 1)
             k == Advance(c[i], 1)
  <1>1. GoodBlock(c[i]) /\ Whole(c, i - 1) \in Seq(Byte)
    BY UnreadIsBytes
  <1>2. 1 \in Nat /\ 1 <= Left(c[i])
    BY <1>1, RestIsBytes
  <1>3. b \in Seq(Byte) /\ Len(b) = 1
    BY <1>1, <1>2, BytesAreWritten
  <1>4. GoodBlock(k) /\ k.size = c[i].size
    BY <1>1, <1>2, AdvanceIsGood
  <1>5. Rest(c[i]) = b \o Rest(k) /\ Rest(k) \in Seq(Byte) /\ k.readError = c[i].readError
    BY <1>1, <1>2, AdvanceFields
  <1> HIDE DEF b, k
  <1>6. (b \o Rest(k)) \o Whole(c, i - 1) = b \o (Rest(k) \o Whole(c, i - 1))
    <2>1. b \in Seq(Byte) /\ Rest(k) \in Seq(Byte) /\ Whole(c, i - 1) \in Seq(Byte)
      BY <1>1, <1>3, <1>5
    <2>. QED
      BY <2>1, Regroup
  <1>7. Rest(k) \o Whole(c, i - 1) \in Seq(Byte)
    BY <1>1, <1>5, ConcatProperties
  <1>8. UnreadOf(c, i) = b \o (Rest(k) \o Whole(c, i - 1))
    BY <1>5, <1>6 DEF UnreadOf
  <1>. QED
    BY <1>3, <1>4, <1>5, <1>7, <1>8 DEF b, k

LEMMA PeekByteMaps ==
  ASSUME SInv, mode # "write", UNCHANGED mode, PeekByte
  PROVE  SInv' /\ Stream!PeekByte
  <1>1. Inv /\ call = Idle /\ call' = Idle /\ mode' = mode /\ h' = h
    BY DEF SInv, PeekByte, Returns
  <1>2. Inv'
    BY <1>1, PeekByteStep
  <1>3. /\ mode \in ReadModes /\ StreamReq = Stream!NoReq /\ StreamData = UnreadOf(chain, h)
        /\ FullBelow(chain, h) /\ ReadyBelow(chain, h) /\ cur = chain[h]
        /\ GoodChain(chain) /\ h \in 1..Len(chain) /\ GoodBlock(cur)
        /\ UnreadOf(chain, h) = Rest(cur) \o Whole(chain, h - 1)
    BY <1>1, ReadFacts
  <1>4. CASE /\ AtEod(cur) /\ chain' = [chain EXCEPT ![h] = ReadFault(cur)]
             /\ \E x \in Cell : Returns(<<x>>)
    <2> DEFINE k == ReadFault(cur)
    <2>1. /\ GoodBlock(k) /\ k.size = chain[h].size /\ k.readError = TRUE
          /\ Rest(k) = Rest(cur) /\ AtEod(k)
      BY <1>3, <1>4, ReadFaultIsGood, FaultFields
    <2> HIDE DEF k
    <2>2. chain' = [chain EXCEPT ![h] = k]
      BY <1>4 DEF k
    <2>3. /\ chain'[h] = k /\ UnreadOf(chain', h) = UnreadOf(chain, h)
          /\ FullBelow(chain', h) /\ ReadyBelow(chain', h)
      BY <1>3, <2>1, <2>2, TopUpdated
    <2>4. Kept' /\ StreamReq' = Stream!NoReq /\ StreamData' = StreamData
      BY <1>1, <1>3, <2>3, ComesToRest
    <2>5. StreamFault' = StreamFault /\ StreamError' = TRUE
      BY <1>1, <2>1, <2>3, View, ViewAfter
    <2>6. Len(ret') = 1
      BY <1>4 DEF Returns
    <2>. QED
      BY <1>1, <1>2, <1>3, <2>4, <2>5, <2>6 DEF SInv, Stream!PeekByte
  <1>5. CASE ~AtEod(cur) /\ chain' = chain /\ Returns(BytesAt(cur, cur.curr, 1))
    <2> DEFINE b == BytesAt(chain[h], chain[h].curr, 1)
               d == Rest(Advance(chain[h], 1)) \o Whole(chain, h - 1)
    <2>1. /\ b \in Seq(Byte) /\ Len(b) = 1 /\ d \in Seq(Byte) /\ UnreadOf(chain, h) = b \o d
      BY <1>3, <1>5, OneByte
    <2>2. ret' = b
      BY <1>3, <1>5 DEF Returns
    <2> HIDE DEF b, d
    <2>3. Len(b) <= Len(StreamData) /\ Stream!Front(1) = b
      BY <1>3, <2>1, FrontOfStream
    <2>4. StreamData # <<>>
      BY <2>1, <2>3
    <2>5. Kept' /\ StreamReq' = Stream!NoReq /\ StreamData' = StreamData
      BY <1>1, <1>3, <1>5, ComesToRest
    <2>6. StreamFault' = StreamFault /\ StreamError' = StreamError
      BY <1>1, <1>5, View, ViewAfter
    <2>. QED
      BY <1>1, <1>2, <1>3, <2>2, <2>3, <2>4, <2>5, <2>6 DEF SInv, Stream!PeekByte
  <1>. QED
    BY <1>4, <1>5 DEF PeekByte

\* The loop of ExpBufGetByte over empty buffers passes no byte.
LEMMA PassesEmpty ==
  ASSUME NEW c, GoodChain(c), NEW i \in 1..Len(c), FullBelow(c, i), ReadyBelow(c, i),
         NEW j \in 1..i, \A k \in (j + 1)..i : HasNoData(c[k])
  PROVE  /\ j \in 1..Len(c) /\ UnreadOf(c, j) = UnreadOf(c, i)
         /\ FullBelow(c, j) /\ ReadyBelow(c, j)
         /\ j # i => c[j].readError = FALSE
  <1>1. CASE j = i
    BY <1>1
  <1>2. CASE j # i
    <2>1. /\ j \in 1..(i - 1) /\ j \in 1..Len(c) /\ i - 1 \in 1..Len(c) /\ i \in (j + 1)..i
          /\ \A k \in (j + 1)..(i - 1) : k \in (j + 1)..i
          /\ \A k \in 1..(j - 1) : k \in 1..(i - 1)
      BY <1>2, GoodChainDomain
    <2>2. GoodBlock(c[i]) /\ HasNoData(c[i])
      BY <2>1, UnreadIsBytes
    <2>3. AtEod(c[i])
      <3>1. CASE c[i].readError
        BY <3>1 DEF ReadyBelow
      <3>2. CASE ~c[i].readError
        BY <2>2, <3>2, GoodFields DEF GoodBlock, HasNoData, AtEod
      <3>. QED
        BY <3>1, <3>2
    <2>4. UnreadOf(c, i) = Whole(c, i - 1)
      BY <2>3, UnreadAtEnd
    <2>5. c[j].curr = c[j].dataStart /\ ~c[j].readError
      BY <2>1 DEF ReadyBelow
    <2>6. UnreadOf(c, j) = Whole(c, i - 1)
      BY <2>1, <2>5, WalkPassesNothing
    <2>7. FullBelow(c, j) /\ ReadyBelow(c, j)
      BY <2>1, <2>5 DEF FullBelow, ReadyBelow
    <2>. QED
      BY <2>1, <2>4, <2>5, <2>6, <2>7, Flags
  <1>. QED
    BY <1>1, <1>2

\* Its one step to the next buffer passes none either.
LEMMA StepsToNext ==
  ASSUME NEW c, GoodChain(c), NEW j \in 1..Len(c), j > 1, FullBelow(c, j), ReadyBelow(c, j),
         AtEod(c[j])
  PROVE  /\ j - 1 \in 1..Len(c) /\ AtDataStart(c[j - 1]) = c[j - 1]
         /\ UnreadOf(c, j - 1) = UnreadOf(c, j)
         /\ FullBelow(c, j - 1) /\ ReadyBelow(c, j - 1)
         /\ c[j - 1].readError = FALSE
         /\ AtEod(c[j - 1]) => j - 1 = 1
  <1>1. /\ j - 1 \in 1..Len(c) /\ j - 1 \in 1..(j - 1) /\ Len(c) \in Nat
        /\ \A k \in 1..((j - 1) - 1) : k \in 1..(j - 1)
    BY GoodChainDomain
  <1>2. c[j - 1].curr = c[j - 1].dataStart /\ ~c[j - 1].readError /\ Full(c[j - 1])
    BY <1>1 DEF ReadyBelow, FullBelow
  <1>3. UnreadOf(c, j) = Whole(c, j - 1) /\ UnreadOf(c, j - 1) = Whole(c, j - 1)
    BY <1>1, <1>2, UnreadAtEnd, UnreadAtStart
  <1>4. FullBelow(c, j - 1) /\ ReadyBelow(c, j - 1)
    BY <1>1, <1>2 DEF FullBelow, ReadyBelow
  <1>5. AtDataStart(c[j - 1]) = c[j - 1]
    BY <1>1, <1>2, AlreadyAtDataStart, Flags DEF GoodBlock
  <1>6. ASSUME AtEod(c[j - 1]), j - 1 # 1 PROVE FALSE
    <2>1. j - 1 \in 2..Len(c)
      BY <1>1, <1>6
    <2>2. c[j - 1].size = BlkSize /\ GoodBlock(c[j - 1])
      BY <1>1, <2>1 DEF GoodChain
    <2>. QED
      BY <1>2, <1>6, <2>2, BlkSizeAssumption DEF GoodBlock, AtEod, Full
  <1>. QED
    BY <1>1, <1>2, <1>3, <1>4, <1>5, <1>6, Flags

LEMMA GetByteMaps ==
  ASSUME SInv, mode # "write", UNCHANGED mode, GetByte
  PROVE  SInv' /\ Stream!TakeByte
  <1>1. Inv /\ call = Idle /\ call' = Idle /\ mode' = mode
    BY DEF SInv, GetByte, Returns
  <1>2. Inv'
    BY <1>1, GetByteStep
  <1>3. /\ mode \in ReadModes /\ StreamReq = Stream!NoReq /\ StreamData = UnreadOf(chain, h)
        /\ FullBelow(chain, h) /\ ReadyBelow(chain, h)
        /\ GoodChain(chain) /\ h \in 1..Len(chain)
    BY <1>1, ReadFacts
  <1>4. PICK j \in 1..h :
          /\ SkipsTo(h, j)
          /\ LET i == IF AtEod(chain[j]) /\ j > 1 THEN j - 1 ELSE j
                 k == IF i = j THEN chain[i] ELSE AtDataStart(chain[i])
             IN /\ h' = i
                /\ \/ /\ AtEod(k)
                      /\ chain' = [chain EXCEPT ![i] = ReadFault(k)]
                      /\ Returns(<<>>)
                   \/ /\ ~AtEod(k)
                      /\ chain' = [chain EXCEPT ![i] = Advance(k, 1)]
                      /\ Returns(BytesAt(k, k.curr, 1))
    BY DEF GetByte
  <1> DEFINE i == IF AtEod(chain[j]) /\ j > 1 THEN j - 1 ELSE j
             k == IF i = j THEN chain[i] ELSE AtDataStart(chain[i])
  <1>5. /\ j \in 1..Len(chain) /\ UnreadOf(chain, j) = UnreadOf(chain, h)
        /\ FullBelow(chain, j) /\ ReadyBelow(chain, j)
        /\ j # h => chain[j].readError = FALSE
    BY <1>3, <1>4, PassesEmpty DEF SkipsTo
  <1>6. /\ i \in 1..Len(chain) /\ UnreadOf(chain, i) = UnreadOf(chain, h)
        /\ FullBelow(chain, i) /\ ReadyBelow(chain, i)
        /\ i # h => chain[i].readError = FALSE
        /\ k = chain[i] /\ (AtEod(chain[i]) => i = 1)
    <2>1. CASE AtEod(chain[j]) /\ j > 1
      <3>1. i = j - 1 /\ i # j /\ j \in Nat
        BY <2>1
      <3>2. /\ j - 1 \in 1..Len(chain) /\ AtDataStart(chain[j - 1]) = chain[j - 1]
            /\ UnreadOf(chain, j - 1) = UnreadOf(chain, j)
            /\ FullBelow(chain, j - 1) /\ ReadyBelow(chain, j - 1)
            /\ chain[j - 1].readError = FALSE /\ (AtEod(chain[j - 1]) => j - 1 = 1)
        BY <1>3, <1>5, <2>1, StepsToNext
      <3>. QED
        BY <1>5, <3>1, <3>2
    <2>2. CASE ~(AtEod(chain[j]) /\ j > 1)
      <3>1. i = j /\ (AtEod(chain[j]) => j = 1)
        BY <2>2
      <3>. QED
        BY <1>5, <3>1
    <2>. QED
      BY <2>1, <2>2
  <1>7. /\ h' = i
        /\ \/ /\ AtEod(k)
              /\ chain' = [chain EXCEPT ![i] = ReadFault(k)]
              /\ Returns(<<>>)
           \/ /\ ~AtEod(k)
              /\ chain' = [chain EXCEPT ![i] = Advance(k, 1)]
              /\ Returns(BytesAt(k, k.curr, 1))
    BY <1>4
  <1> HIDE DEF i, k
  <1>8. GoodBlock(chain[i]) /\ UnreadOf(chain, i) = Rest(chain[i]) \o Whole(chain, i - 1)
    BY <1>3, <1>6, UnreadIsBytes DEF UnreadOf
  <1>9. CASE /\ AtEod(chain[i]) /\ chain' = [chain EXCEPT ![i] = ReadFault(chain[i])]
             /\ Returns(<<>>)
    <2> DEFINE r == ReadFault(chain[i])
    <2>1. /\ GoodBlock(r) /\ r.size = chain[i].size /\ r.readError = TRUE
          /\ Rest(r) = Rest(chain[i]) /\ AtEod(r)
      BY <1>8, <1>9, ReadFaultIsGood, FaultFields
    <2> HIDE DEF r
    <2>2. chain' = [chain EXCEPT ![i] = r]
      BY <1>9 DEF r
    <2>3. /\ chain'[i] = r /\ UnreadOf(chain', i) = UnreadOf(chain, i)
          /\ FullBelow(chain', i) /\ ReadyBelow(chain', i)
      <3>1. r.readError => AtEod(r)
        BY <2>1
      <3>2. /\ chain'[i] = r /\ UnreadOf(chain', i) = Rest(r) \o Whole(chain, i - 1)
            /\ FullBelow(chain', i) /\ ReadyBelow(chain', i)
        BY <1>3, <1>6, <2>1, <2>2, <3>1, TopUpdated
      <3>. QED
        BY <1>8, <2>1, <3>2
    <2>4. UnreadOf(chain, i) = <<>>
      <3>1. i = 1 /\ Rest(chain[1]) = <<>>
        BY <1>6, <1>8, <1>9, RestIsBytes
      <3>. QED
        BY <1>3, <3>1, FirstBlock
    <2>5. Kept' /\ StreamReq' = Stream!NoReq /\ StreamData' = StreamData /\ StreamData = <<>>
      BY <1>1, <1>3, <1>6, <1>7, <2>3, <2>4, ComesToRest
    <2>6. StreamFault' = StreamFault /\ StreamError' = TRUE
      BY <1>1, <1>3, <1>7, <2>1, <2>3, View, ViewAfter, ModesDiffer
    <2>7. Stream!Take(0)
      <3>1. <<>> = <<>> \o <<>> /\ Len(<<>>) = 0
        OBVIOUS
      <3>2. 0 <= Len(StreamData) /\ Stream!Rest(0) = <<>>
        BY <2>5, <3>1, EmptyIsBytes, FrontOfStream
      <3>. QED
        BY <1>1, <1>3, <2>5, <2>6, <3>2 DEF Stream!Take
    <2>8. ret' = <<>>
      BY <1>9 DEF Returns
    <2>. QED
      BY <1>1, <1>2, <1>3, <2>5, <2>6, <2>7, <2>8 DEF SInv, Stream!TakeByte
  <1>10. CASE /\ ~AtEod(chain[i]) /\ chain' = [chain EXCEPT ![i] = Advance(chain[i], 1)]
              /\ Returns(BytesAt(chain[i], chain[i].curr, 1))
    <2> DEFINE b == BytesAt(chain[i], chain[i].curr, 1)
               r == Advance(chain[i], 1)
               d == Rest(r) \o Whole(chain, i - 1)
    <2>1. /\ b \in Seq(Byte) /\ Len(b) = 1 /\ d \in Seq(Byte) /\ UnreadOf(chain, i) = b \o d
          /\ GoodBlock(r) /\ r.size = chain[i].size /\ r.readError = chain[i].readError
      BY <1>3, <1>6, <1>10, OneByte
    <2>2. ret' = b
      BY <1>10 DEF Returns
    <2>3. chain' = [chain EXCEPT ![i] = r]
      BY <1>10
    <2>4. ~chain[i].readError
      BY <1>6, <1>10 DEF ReadyBelow
    <2> HIDE DEF b, r
    <2>5. /\ chain'[i] = r /\ UnreadOf(chain', i) = d
          /\ FullBelow(chain', i) /\ ReadyBelow(chain', i)
      <3>1. r.readError => AtEod(r)
        BY <2>1, <2>4
      <3>. QED
        BY <1>3, <1>6, <2>1, <2>3, <3>1, TopUpdated
    <2> HIDE DEF d
    <2>6. Kept' /\ StreamReq' = Stream!NoReq /\ StreamData' = d
      BY <1>1, <1>3, <1>7, <2>5, ComesToRest
    <2>7. StreamFault' = StreamFault /\ StreamError' = FALSE
      BY <1>1, <1>3, <1>7, <2>1, <2>4, <2>5, View, ViewAfter, ModesDiffer
    <2>8. StreamData = b \o d
      BY <1>3, <1>6, <2>1
    <2>9. 1 <= Len(StreamData) /\ Stream!Front(1) = b /\ Stream!Rest(1) = d
      BY <2>1, <2>8, FrontOfStream
    <2>10. Stream!Take(1)
      BY <1>1, <1>3, <2>6, <2>7, <2>9 DEF Stream!Take
    <2>11. StreamData # <<>>
      BY <2>9
    <2>. QED
      BY <1>1, <1>2, <1>3, <2>2, <2>6, <2>7, <2>9, <2>10, <2>11 DEF SInv, Stream!TakeByte, Stream!Flags
  <1>. QED
    BY <1>6, <1>7, <1>9, <1>10

-----------------------------------------------------------------------------
(* The reading loops.                                                      *)

LEMMA LoopFacts ==
  ASSUME SInv, call.op \in ReadLoops
  PROVE  /\ Inv /\ mode \in ReadModes /\ mode # "write"
         /\ StreamReq.op = call.op /\ StreamReq.len = call.len /\ call.len \in Nat
         /\ call.got \in Seq(Byte) /\ ret \in Seq(Byte)
         /\ LET n == call.len - Len(call.got)
            IN n \in Nat /\ call.got \o Seg(n) \in Seq(Byte) /\ Len(call.got \o Seg(n)) <= call.len
         /\ GoodChain(chain) /\ h \in 1..Len(chain) /\ GoodBlock(cur) /\ cur = chain[h]
         /\ UnreadOf(chain, h) \in Seq(Byte)
         /\ FullBelow(chain, Top(call, h)) /\ ReadyBelow(chain, Top(call, h))
         /\ call.op = "PeekCopy" => PeekInPlace(call, chain, h)
  <1>1. Inv /\ KeptOf(mode, call, chain, h)
    BY DEF SInv, Kept
  <1>2. GoodChain(chain) /\ h \in 1..Len(chain) /\ GoodBlock(cur) /\ cur = chain[h]
    BY <1>1, Observed DEF Inv
  <1>3. StreamReq.op = call.op /\ StreamReq.len = call.len
    BY DEF StreamReq, ReadLoops
  <1>4. call.len \in Nat
    BY <1>1, BoundsAssumption DEF Inv, CallOK, Call
  <1>5. /\ mode \in ReadModes /\ mode # "write"
        /\ FullBelow(chain, Top(call, h)) /\ ReadyBelow(chain, Top(call, h))
        /\ call.op = "PeekCopy" => PeekInPlace(call, chain, h)
    BY <1>1, IdleOps, ModesDiffer DEF KeptOf, ReadLoops
  <1>6. UnreadOf(chain, h) \in Seq(Byte)
    BY <1>2, UnreadIsBytes
  <1>7. /\ call.got \in Seq(Byte) /\ ret \in Seq(Byte)
        /\ LET n == call.len - Len(call.got)
           IN n \in Nat /\ call.got \o Seg(n) \in Seq(Byte) /\ Len(call.got \o Seg(n)) <= call.len
    BY <1>1, Gathering DEF ReadLoops
  <1>. QED
    BY <1>1, <1>2, <1>3, <1>4, <1>5, <1>6, <1>7

\* ExpBufCopy and ExpBufSkip take one more segment.
LEMMA TakesMore ==
  ASSUME SInv, call.op \in {"Copy", "Skip"}, NEW n, n = call.len - Len(call.got), TakesSeg(n)
  PROVE  /\ StreamData = (call.got \o Seg(n)) \o UnreadOf(chain', h')
         /\ UnreadOf(chain', h') \in Seq(Byte)
         /\ FullBelow(chain', h') /\ ReadyBelow(chain', h')
         /\ chain'[h'].readError = chain[h].readError
  <1>1. call.op \in ReadLoops /\ Top(call, h) = h
    BY DEF ReadLoops, Top
  <1>2. /\ Inv /\ call.got \in Seq(Byte) /\ n \in Nat /\ FullBelow(chain, h)
        /\ ReadyBelow(chain, h) /\ cur = chain[h]
    BY <1>1, LoopFacts
  <1>3. /\ UnreadOf(chain, h) = Seg(n) \o UnreadOf(chain', h')
        /\ UnreadOf(chain', h') \in Seq(Byte)
        /\ FullBelow(chain', h') /\ ReadyBelow(chain', h')
        /\ chain'[h'].readError = cur.readError
    BY <1>2, TakesFromFront
  <1>4. Seg(n) \in Seq(Byte)
    BY <1>2, SegIsWritten
  <1>5. StreamData = call.got \o UnreadOf(chain, h)
    BY View DEF DataOf
  <1>6. (call.got \o Seg(n)) \o UnreadOf(chain', h') = call.got \o (Seg(n) \o UnreadOf(chain', h'))
    <2> DEFINE g == call.got
               s == Seg(n)
               d == UnreadOf(chain', h')
    <2>1. g \in Seq(Byte) /\ s \in Seq(Byte) /\ d \in Seq(Byte)
      BY <1>2, <1>3, <1>4
    <2> HIDE DEF g, s, d
    <2>2. (g \o s) \o d = g \o (s \o d)
      BY <2>1, Regroup
    <2>. QED
      BY <2>2 DEF g, s, d
  <1>. QED
    BY <1>2, <1>3, <1>5, <1>6

LEMMA GoesRound ==
  ASSUME SInv, UNCHANGED mode, call.op \in {"Copy", "Skip"}, Inv',
         NEW n, n = call.len - Len(call.got), TakesSeg(n),
         call' = [call EXCEPT !.got = call.got \o Seg(n)], ret' = ret
  PROVE  SInv' /\ UNCHANGED Stream!vars
  <1>1. call.op \in ReadLoops
    BY DEF ReadLoops
  <1>2. mode \in ReadModes /\ Inv
    BY <1>1, LoopFacts
  <1>3. /\ StreamData = (call.got \o Seg(n)) \o UnreadOf(chain', h')
        /\ FullBelow(chain', h') /\ ReadyBelow(chain', h')
        /\ chain'[h'].readError = chain[h].readError
    BY TakesMore
  <1>4. /\ call'.op = call.op /\ call'.seg = call.seg /\ call'.len = call.len
        /\ call'.got = call.got \o Seg(n)
    BY <1>2 DEF Inv, CallOK, Call
  <1>5. Kept'
    <2>1. Top(call', h') = h'
      BY <1>4 DEF Top
    <2>2. KeptOf(mode', call', chain', h')
      BY <1>2, <1>3, <1>4, <2>1 DEF KeptOf
    <2>. QED
      BY <2>2 DEF Kept
  <1>6. StreamData' = StreamData
    BY <1>3, <1>4, ViewAfter DEF DataOf
  <1>7. StreamReq' = StreamReq
    BY <1>4 DEF StreamReq
  <1>8. StreamFault' = StreamFault /\ StreamError' = StreamError
    BY <1>2, <1>3, View, ViewAfter, ModesDiffer
  <1>. QED
    BY <1>5, <1>6, <1>7, <1>8 DEF SInv, Stream!vars

\* One iteration of each: the request is over, or the stream has not changed.
LEMMA CopyMaps ==
  ASSUME SInv, UNCHANGED mode, CopyIteration
  PROVE  SInv' /\ (Stream!CopyOut \/ UNCHANGED Stream!vars)
  <1> DEFINE n   == call.len - Len(call.got)
             got == call.got \o Seg(n)
  <1>1. /\ call.op = "Copy" /\ call.op \in ReadLoops /\ call.op \in {"Copy", "Skip"}
        /\ mode' = mode /\ Top(call, h) = h
    BY DEF CopyIteration, ReadLoops, Top
  <1>2. /\ Inv /\ mode \in ReadModes /\ mode # "write"
        /\ StreamReq.op = "Copy" /\ StreamReq.len = call.len /\ call.len \in Nat
        /\ call.got \in Seq(Byte) /\ n \in Nat /\ got \in Seq(Byte) /\ Len(got) <= call.len
        /\ GoodChain(chain) /\ h \in 1..Len(chain) /\ GoodBlock(cur) /\ cur = chain[h]
        /\ UnreadOf(chain, h) \in Seq(Byte) /\ FullBelow(chain, h) /\ ReadyBelow(chain, h)
    BY <1>1, LoopFacts
  <1>3. Inv'
    BY <1>2, CopyStep
  <1>4. \/ /\ Len(got) < call.len /\ Seg(n) = <<>>
           /\ chain' = [chain EXCEPT ![h] = ReadFault(cur)] /\ h' = h
           /\ Returns(got)
        \/ TakesSeg(n) /\ call' = [call EXCEPT !.got = got] /\ ret' = ret
        \/ Len(got) >= call.len /\ TakesSeg(n) /\ Returns(got)
    BY DEF CopyIteration
  <1>5. ASSUME Returns(got), StreamData = got \o UnreadOf(chain', h'),
               UnreadOf(chain', h') \in Seq(Byte),
               FullBelow(chain', h'), ReadyBelow(chain', h'),
               IF Len(got) < call.len THEN chain'[h'].readError = TRUE
                                      ELSE chain'[h'].readError => chain[h].readError
        PROVE  SInv' /\ Stream!CopyOut
    <2> HIDE DEF n, got
    <2>1. call' = Idle /\ ret' = got
      BY <1>5 DEF Returns
    <2>2. Kept' /\ StreamReq' = Stream!NoReq /\ StreamData' = UnreadOf(chain', h')
      BY <1>1, <1>2, <1>5, <2>1, ComesToRest
    <2>3. /\ StreamFault' = StreamFault
          /\ StreamError = chain[h].readError /\ StreamError' = chain'[h'].readError
      <3>1. /\ chain[h].readError \in BOOLEAN
            /\ GoodChain(chain') /\ h' \in 1..Len(chain')
        BY <1>2, <1>3, Flags, GoodChainDomain DEF Inv
      <3>2. chain'[h'].readError \in BOOLEAN
        BY <3>1, Flags
      <3>. QED
        BY <1>1, <1>2, <3>1, <3>2, View, ViewAfter
    <2>4. /\ Len(got) \in Nat /\ Len(got) <= Len(StreamData)
          /\ Stream!Front(Len(got)) = got /\ Stream!Rest(Len(got)) = UnreadOf(chain', h')
      BY <1>2, <1>5, FrontOfStream
    <2>5. Stream!Take(Len(got))
      BY <1>1, <2>2, <2>3, <2>4 DEF Stream!Take
    <2>6. Len(got) \in Stream!Given(StreamReq.len)
      BY <1>2, <1>5, FrontOfStream
    <2>. QED
      BY <1>2, <1>3, <1>5, <2>1, <2>2, <2>3, <2>4, <2>5, <2>6 DEF SInv, Stream!CopyOut, Stream!Flags
  <1>6. CASE /\ Len(got) < call.len /\ Seg(n) = <<>>
             /\ chain' = [chain EXCEPT ![h] = ReadFault(cur)] /\ h' = h
             /\ Returns(got)
    <2>1. AtEod(cur) /\ got = call.got
      <3>1. n # 0
        <4>1. got = call.got
          BY <1>2, <1>6, ConcatEmptySeq
        <4>2. Len(call.got) < call.len /\ Len(call.got) \in Nat /\ call.len \in Nat
          <5> HIDE DEF n, got
          <5>. QED
            BY <1>2, <1>6, <4>1
        <4>. QED
          BY <4>2
      <3>2. AtEod(cur)
        BY <1>2, <1>6, <3>1, SegOfRest
      <3>. QED
        BY <1>2, <1>6, <3>2, ConcatEmptySeq
    <2> DEFINE k == ReadFault(cur)
    <2>2. /\ GoodBlock(k) /\ k.size = chain[h].size /\ k.readError = TRUE
          /\ Rest(k) = Rest(cur) /\ AtEod(k)
      BY <1>2, <2>1, ReadFaultIsGood, FaultFields
    <2> HIDE DEF k
    <2>3. chain' = [chain EXCEPT ![h] = k]
      BY <1>6 DEF k
    <2>4. /\ chain'[h] = k /\ UnreadOf(chain', h) = UnreadOf(chain, h)
          /\ FullBelow(chain', h) /\ ReadyBelow(chain', h)
      BY <1>2, <2>2, <2>3, TopUpdated DEF UnreadOf
    <2>5. StreamData = call.got \o UnreadOf(chain, h)
      BY <1>1, View DEF DataOf
    <2>. QED
      BY <1>2, <1>5, <1>6, <2>1, <2>2, <2>4, <2>5
  <1>7. CASE TakesSeg(n) /\ call' = [call EXCEPT !.got = got] /\ ret' = ret
    BY <1>1, <1>3, <1>7, GoesRound
  <1>8. CASE Len(got) >= call.len /\ TakesSeg(n) /\ Returns(got)
    <2>1. /\ StreamData = got \o UnreadOf(chain', h')
          /\ UnreadOf(chain', h') \in Seq(Byte)
          /\ FullBelow(chain', h') /\ ReadyBelow(chain', h')
          /\ chain'[h'].readError = chain[h].readError
      BY <1>1, <1>8, TakesMore
    <2> HIDE DEF n, got
    <2>2. ~(Len(got) < call.len)
      BY <1>2, <1>8
    <2>. QED
      BY <1>5, <1>8, <2>1, <2>2
  <1>. QED
    BY <1>4, <1>6, <1>7, <1>8

LEMMA SkipMaps ==
  ASSUME SInv, UNCHANGED mode, SkipIteration
  PROVE  SInv' /\ (Stream!SkipOver \/ UNCHANGED Stream!vars)
  <1> DEFINE n == call.len - Len(call.got)
  <1>1. /\ call.op = "Skip" /\ call.op \in ReadLoops /\ call.op \in {"Copy", "Skip"}
        /\ mode' = mode /\ Top(call, h) = h
    BY DEF SkipIteration, ReadLoops, Top
  <1>2. /\ Inv /\ mode \in ReadModes /\ mode # "write"
        /\ StreamReq.op = "Skip" /\ StreamReq.len = call.len /\ call.len \in Nat
        /\ call.got \in Seq(Byte) /\ n \in Nat /\ UnreadOf(chain, h) \in Seq(Byte)
        /\ FullBelow(chain, h) /\ ReadyBelow(chain, h)
    BY <1>1, LoopFacts
  <1>3. Inv'
    BY <1>2, SkipStep
  <1>4. \/ TakesSeg(n) /\ call' = [call EXCEPT !.got = call.got \o Seg(n)] /\ ret' = ret
        \/ UNCHANGED <<chain, h>> /\ Returns(<<>>)
    BY DEF SkipIteration
  <1>5. CASE TakesSeg(n) /\ call' = [call EXCEPT !.got = call.got \o Seg(n)] /\ ret' = ret
    BY <1>1, <1>3, <1>5, GoesRound
  <1>6. CASE UNCHANGED <<chain, h>> /\ Returns(<<>>)
    <2>1. chain' = chain /\ h' = h /\ call' = Idle /\ ret' = <<>>
      BY <1>6 DEF Returns
    <2>2. Kept' /\ StreamReq' = Stream!NoReq /\ StreamData' = UnreadOf(chain, h)
      BY <1>1, <1>2, <2>1, ComesToRest
    <2>3. StreamFault' = StreamFault /\ StreamError' = StreamError
      BY <1>1, <2>1, View, ViewAfter
    <2>4. StreamData = call.got \o UnreadOf(chain, h)
      BY <1>1, View DEF DataOf
    <2>5. /\ Len(call.got) \in Nat /\ Len(call.got) <= Len(StreamData)
          /\ Stream!Rest(Len(call.got)) = UnreadOf(chain, h)
      BY <1>2, <2>4, FrontOfStream
    <2>6. Stream!Take(Len(call.got))
      BY <1>1, <2>2, <2>3, <2>5 DEF Stream!Take
    <2>7. Len(call.got) \in Stream!Given(StreamReq.len)
      <3>1. Len(call.got) <= call.len
        BY <1>2, <2>5
      <3>. QED
        BY <1>2, <2>4, <3>1, FrontOfStream
    <2>. QED
      BY <1>2, <1>3, <2>1, <2>2, <2>3, <2>6, <2>7 DEF SInv, Stream!SkipOver, Stream!Flags
  <1>. QED
    BY <1>4, <1>5, <1>6

\* Where the buffers below block o are ready, so are those below any of them.
LEMMA ReadyFurtherDown ==
  ASSUME NEW c, GoodChain(c), NEW o \in 1..Len(c), FullBelow(c, o), ReadyBelow(c, o),
         NEW i \in 1..o
  PROVE  /\ i \in 1..Len(c) /\ FullBelow(c, i) /\ ReadyBelow(c, i)
         /\ i < o => ~c[i].readError /\ c[i].curr = c[i].dataStart
         /\ i < o /\ i > 1 => ~AtEod(c[i])
  <1>1. i \in 1..Len(c) /\ Len(c) \in Nat /\ i \in Nat /\ o \in Nat
    BY GoodChainDomain
  <1>2. CASE i = o
    BY <1>1, <1>2
  <1>3. CASE i # o
    <2>1. i \in 1..(o - 1) /\ \A j \in 1..(i - 1) : j \in 1..(o - 1)
      BY <1>1, <1>3
    <2>2. ~c[i].readError /\ c[i].curr = c[i].dataStart /\ c[i].dataStart = 0
      BY <2>1 DEF ReadyBelow, FullBelow, Full
    <2>3. FullBelow(c, i) /\ ReadyBelow(c, i)
      BY <2>1, <2>2 DEF ReadyBelow, FullBelow
    <2>4. i > 1 => ~AtEod(c[i])
      <3>1. i > 1 => c[i].size = BlkSize
        BY <1>1 DEF GoodChain
      <3>2. c[i].dataEnd = c[i].size
        BY <1>1 DEF GoodChain, GoodBlock
      <3>. QED
        BY <2>2, <3>1, <3>2, BlkSizeAssumption DEF AtEod
    <2>. QED
      BY <1>1, <2>2, <2>3, <2>4
  <1>. QED
    BY <1>2, <1>3

\* What a peek in progress knows.
LEMMA PeekFacts ==
  ASSUME SInv, call.op = "PeekCopy"
  PROVE  LET o == call.orig
         IN /\ o \in 1..Len(chain) /\ h \in 1..o /\ o \in Nat /\ h \in Nat
            /\ StreamData = UnreadOf(chain, o)
            /\ UnreadOf(chain, o) = call.got \o UnreadOf(chain, h)
            /\ FullBelow(chain, o) /\ ReadyBelow(chain, o)
            /\ h = o => call.got = <<>>
            /\ h < o => ~AtEod(chain[o])
  <1> DEFINE o == call.orig
  <1>1. call.op \in ReadLoops /\ Top(call, h) = o
    BY DEF ReadLoops, Top
  <1>2. /\ Inv /\ PeekInPlace(call, chain, h) /\ FullBelow(chain, o) /\ ReadyBelow(chain, o)
        /\ GoodChain(chain) /\ h \in 1..Len(chain)
    BY <1>1, LoopFacts
  <1>3. o \in 1..Len(chain) /\ Len(chain) \in Nat
    BY <1>2, GoodChainDomain DEF Inv, CallOK
  <1>4. StreamData = UnreadOf(chain, o)
    BY View DEF DataOf
  <1>5. h \in 1..o /\ o \in Nat /\ h \in Nat
    BY <1>2, <1>3 DEF PeekInPlace
  <1>. QED
    BY <1>2, <1>3, <1>4, <1>5 DEF PeekInPlace

LEMMA PeekCopyMaps ==
  ASSUME SInv, UNCHANGED mode, PeekCopyIteration
  PROVE  SInv' /\ (Stream!PeekOut \/ UNCHANGED Stream!vars)
  <1> DEFINE n   == call.len - Len(call.got)
             got == call.got \o Seg(n)
             o   == call.orig
  <1>1. call.op = "PeekCopy" /\ call.op \in ReadLoops /\ mode' = mode
    BY DEF PeekCopyIteration, ReadLoops
  <1>2. /\ Inv /\ mode \in ReadModes /\ mode # "write"
        /\ StreamReq.op = "PeekCopy" /\ StreamReq.len = call.len /\ call.len \in Nat
        /\ call.got \in Seq(Byte) /\ n \in Nat /\ got \in Seq(Byte) /\ Len(got) <= call.len
        /\ GoodChain(chain) /\ h \in 1..Len(chain) /\ GoodBlock(cur) /\ cur = chain[h]
        /\ UnreadOf(chain, h) \in Seq(Byte)
    BY <1>1, LoopFacts
  <1>3. /\ o \in 1..Len(chain) /\ h \in 1..o /\ o \in Nat /\ h \in Nat
        /\ StreamData = UnreadOf(chain, o)
        /\ UnreadOf(chain, o) = call.got \o UnreadOf(chain, h)
        /\ FullBelow(chain, o) /\ ReadyBelow(chain, o)
        /\ h = o => call.got = <<>>
        /\ h < o => ~AtEod(chain[o])
    BY <1>1, PeekFacts
  <1>4. Inv'
    BY <1>2, PeekCopyStep
  <1>5. /\ FullBelow(chain, h) /\ ReadyBelow(chain, h)
        /\ h < o => ~chain[h].readError
        /\ h < o /\ h > 1 => ~AtEod(chain[h])
    BY <1>2, <1>3, ReadyFurtherDown
  <1>6. Seg(n) \in Seq(Byte) /\ (Seg(n) = <<>> => n = 0 \/ AtEod(cur))
        /\ (Len(Seg(n)) < n => Seg(n) = Rest(cur))
    BY <1>2, SegOfRest
  <1>7. \/ chain' = chain /\ h' = o /\ Returns(got)
        \/ /\ Len(got) < call.len /\ h > 1 /\ Seg(n) = <<>>
           /\ chain' = [chain EXCEPT ![h] = ReadFault(cur)] /\ h' = o /\ Returns(got)
        \/ /\ Len(got) < call.len /\ h > 1 /\ Seg(n) # <<>>
           /\ \E j \in 1..(h - 1) :
                /\ SkipsTo(h - 1, j) /\ h' = j
                /\ chain' = [chain EXCEPT ![j] = AtDataStart(chain[j])]
           /\ call' = [call EXCEPT !.got = got] /\ ret' = ret
    BY DEF PeekCopyIteration
  <1>8. Len(got) = Len(call.got) + Len(Seg(n)) /\ Len(call.got) \in Nat /\ Len(Seg(n)) \in Nat
    <2> DEFINE g == call.got
               s == Seg(n)
    <2>1. g \in Seq(Byte) /\ s \in Seq(Byte)
      BY <1>2, <1>6
    <2> HIDE DEF g, s
    <2>2. Len(g \o s) = Len(g) + Len(s) /\ Len(g) \in Nat /\ Len(s) \in Nat
      BY <2>1, ConcatProperties
    <2>. QED
      BY <2>2 DEF g, s
  <1>9. ASSUME h' = o, Returns(got), UnreadOf(chain', o) = UnreadOf(chain, o),
               FullBelow(chain', o), ReadyBelow(chain', o),
               chain'[o].readError => chain[h].readError \/ Len(got) < call.len
        PROVE  SInv' /\ Stream!PeekOut
    <2>1. PICK d \in Seq(Byte) : UnreadOf(chain, h) = Seg(n) \o d
      BY <1>2, SegOfRest
    <2>2. StreamData = got \o d
      <3> DEFINE g == call.got
                 s == Seg(n)
      <3>1. g \in Seq(Byte) /\ s \in Seq(Byte) /\ d \in Seq(Byte)
        BY <1>2, <1>6, <2>1
      <3>2. StreamData = g \o (s \o d)
        BY <1>3, <2>1
      <3> HIDE DEF g, s
      <3>3. (g \o s) \o d = g \o (s \o d)
        BY <3>1, Regroup
      <3>. QED
        BY <3>2, <3>3 DEF g, s
    <2> HIDE DEF n, got, o
    <2>3. call' = Idle /\ ret' = got
      BY <1>9 DEF Returns
    <2>4. Kept' /\ StreamReq' = Stream!NoReq /\ StreamData' = UnreadOf(chain', h')
      BY <1>1, <1>2, <1>9, <2>3, ComesToRest
    <2>5. StreamData' = StreamData
      BY <1>3, <1>9, <2>4
    <2>6. /\ StreamFault' = StreamFault
          /\ StreamError = chain[h].readError /\ StreamError' = chain'[o].readError
      <3>1. /\ chain[h].readError \in BOOLEAN
            /\ GoodChain(chain') /\ o \in 1..Len(chain')
        BY <1>2, <1>4, <1>9, Flags, GoodChainDomain DEF Inv
      <3>2. chain'[o].readError \in BOOLEAN
        BY <3>1, Flags
      <3>. QED
        BY <1>1, <1>2, <1>9, <3>1, <3>2, View, ViewAfter
    <2>7. Len(got) \in Nat /\ Len(got) <= Len(StreamData) /\ Stream!Front(Len(got)) = got
      BY <1>2, <2>1, <2>2, FrontOfStream
    <2>8. Len(got) \in Stream!Given(StreamReq.len)
      BY <1>2, <2>1, <2>2, FrontOfStream
    <2>9. StreamError' => StreamError \/ Len(got) < StreamReq.len
      BY <1>2, <1>9, <2>6
    <2>. QED
      BY <1>1, <1>2, <1>4, <2>3, <2>4, <2>5, <2>6, <2>7, <2>8, <2>9 DEF SInv, Stream!PeekOut, Stream!Flags
  <1>10. CASE chain' = chain /\ h' = o /\ Returns(got)
    <2>1. chain[o].readError => chain[h].readError
      <3>1. CASE h = o
        BY <3>1
      <3>2. CASE h < o
        BY <1>3, <3>2 DEF ReadyBelow
      <3>. QED
        BY <1>3, <3>1, <3>2
    <2> HIDE DEF n, got, o
    <2>. QED
      BY <1>3, <1>9, <1>10, <2>1
  <1>11. CASE /\ Len(got) < call.len /\ h > 1 /\ Seg(n) = <<>>
              /\ chain' = [chain EXCEPT ![h] = ReadFault(cur)] /\ h' = o /\ Returns(got)
    <2>1. AtEod(cur)
      <3>1. Len(call.got) < call.len
        <4>1. Len(Seg(n)) = 0
          BY <1>11
        <4> HIDE DEF n, got
        <4>. QED
          BY <1>8, <1>11, <4>1
      <3>2. n # 0
        BY <1>2, <1>8, <3>1
      <3>. QED
        BY <1>6, <1>11, <3>2
    <2>2. h = o
      BY <1>2, <1>3, <1>5, <1>11, <2>1
    <2> DEFINE k == ReadFault(cur)
    <2>3. /\ GoodBlock(k) /\ k.size = chain[h].size /\ k.readError = TRUE
          /\ Rest(k) = Rest(cur) /\ AtEod(k)
      BY <1>2, <2>1, ReadFaultIsGood, FaultFields
    <2> HIDE DEF k
    <2>4. chain' = [chain EXCEPT ![h] = k]
      BY <1>11 DEF k
    <2>5. /\ chain'[h] = k /\ UnreadOf(chain', h) = UnreadOf(chain, h)
          /\ FullBelow(chain', h) /\ ReadyBelow(chain', h)
      BY <1>2, <1>5, <2>3, <2>4, TopUpdated DEF UnreadOf
    <2> HIDE DEF n, got, o
    <2>. QED
      BY <1>9, <1>11, <2>2, <2>5
  <1>12. CASE /\ Len(got) < call.len /\ h > 1 /\ Seg(n) # <<>>
              /\ \E j \in 1..(h - 1) :
                   /\ SkipsTo(h - 1, j) /\ h' = j
                   /\ chain' = [chain EXCEPT ![j] = AtDataStart(chain[j])]
              /\ call' = [call EXCEPT !.got = got] /\ ret' = ret
    <2>1. PICK j \in 1..(h - 1) : /\ SkipsTo(h - 1, j) /\ h' = j
                                  /\ chain' = [chain EXCEPT ![j] = AtDataStart(chain[j])]
      BY <1>12
    <2>2. \A i \in (j + 1)..(h - 1) : HasNoData(chain[i])
      BY <2>1 DEF SkipsTo
    <2>3. /\ chain' = chain /\ UnreadOf(chain, h) = Rest(cur) \o UnreadOf(chain, j)
          /\ chain[j].readError = FALSE
      <3>1. GoodChain(chain) /\ h \in 1..Len(chain) /\ cur = chain[h]
        BY <1>2
      <3>2. /\ [chain EXCEPT ![j] = AtDataStart(chain[j])] = chain
            /\ UnreadOf(chain, h) = Rest(chain[h]) \o UnreadOf(chain, j)
            /\ chain[j].readError = FALSE
        BY <1>5, <2>2, <3>1, MovesOn
      <3>. QED
        BY <2>1, <3>1, <3>2
    <2>4. Seg(n) = Rest(cur)
      <3>1. Len(Seg(n)) < n
        <4>1. Len(got) < call.len
          BY <1>12
        <4> HIDE DEF got
        <4>2. Len(call.got) + Len(Seg(n)) < call.len
          BY <1>8, <4>1
        <4> DEFINE m == Len(Seg(n))
        <4>3. m \in Nat /\ Len(call.got) + m < call.len
          BY <1>8, <4>2
        <4> HIDE DEF m
        <4>4. m < call.len - Len(call.got)
          BY <1>2, <1>8, <4>3
        <4>. QED
          BY <4>4 DEF m
      <3>. QED
        BY <1>6, <3>1
    <2>5. ~AtEod(chain[o]) /\ j < o /\ j \in 1..Len(chain) /\ j <= o
      <3>1. j < o /\ j \in 1..Len(chain) /\ j <= o
        <4>1. h \in 1..Len(chain) /\ Len(chain) \in Nat /\ h \in 1..o /\ o \in Nat
          BY <1>2, <1>3, GoodChainDomain
        <4>. QED
          BY <2>1, <4>1
      <3>2. CASE h = o
        <4>1. AtEod(cur) => Rest(cur) = <<>>
          BY <1>2, RestIsBytes
        <4>. QED
          BY <1>2, <1>12, <2>4, <3>1, <3>2, <4>1
      <3>3. CASE h < o
        BY <1>3, <3>1, <3>3
      <3>. QED
        BY <1>3, <3>1, <3>2, <3>3
    <2>6. ~chain[h].readError
      <3>1. CASE h = o
        BY <1>3, <2>5, <3>1 DEF ReadyBelow
      <3>2. CASE h < o
        BY <1>5, <3>2
      <3>. QED
        BY <1>3, <3>1, <3>2
    <2>7. UnreadOf(chain, o) = got \o UnreadOf(chain, j)
      <3> DEFINE g == call.got
                 s == Seg(n)
                 d == UnreadOf(chain, j)
      <3>1. g \in Seq(Byte) /\ s \in Seq(Byte) /\ d \in Seq(Byte)
        BY <1>2, <1>6, <2>5, UnreadIsBytes
      <3>2. UnreadOf(chain, o) = g \o (s \o d)
        BY <1>3, <2>3, <2>4
      <3> HIDE DEF g, s, d
      <3>3. (g \o s) \o d = g \o (s \o d)
        BY <3>1, Regroup
      <3>. QED
        BY <3>2, <3>3 DEF g, s, d
    <2>8. call' = [call EXCEPT !.got = got]
      BY <1>12
    <2> HIDE DEF n, got
    <2>9. /\ call'.op = call.op /\ call'.seg = call.seg /\ call'.len = call.len
          /\ call'.got = got /\ call'.orig = o
      BY <1>2, <2>8 DEF Inv, CallOK, Call
    <2>10. Kept'
      <3>1. Top(call', h') = o
        BY <1>1, <2>9 DEF Top
      <3>2. PeekInPlace(call', chain', h')
        <4>1. /\ h' = j /\ chain' = chain /\ j <= o /\ j < o /\ ~AtEod(chain[o])
              /\ UnreadOf(chain, o) = got \o UnreadOf(chain, j)
          BY <2>1, <2>3, <2>5, <2>7
        <4> HIDE DEF o
        <4>2. j # o
          BY <1>3, <4>1
        <4>3. PeekInPlace(call', chain, j)
          BY <2>9, <4>1, <4>2 DEF PeekInPlace
        <4>. QED
          BY <4>1, <4>3
      <3>3. KeptOf(mode', call', chain', h')
        BY <1>1, <1>2, <1>3, <2>3, <2>9, <3>1, <3>2 DEF KeptOf
      <3>. QED
        BY <3>3 DEF Kept
    <2>11. StreamData' = StreamData
      <3>1. DataOf(mode', call', chain', h') = UnreadOf(chain', call'.orig)
        BY <1>1, <2>9 DEF DataOf
      <3>. QED
        BY <1>3, <2>3, <2>9, <3>1, ViewAfter
    <2>12. StreamReq' = StreamReq
      BY <2>9 DEF StreamReq
    <2>13. StreamFault' = StreamFault /\ StreamError' = StreamError
      BY <1>1, <1>2, <2>1, <2>3, <2>6, View, ViewAfter
    <2>. QED
      BY <1>1, <1>4, <1>12, <2>10, <2>11, <2>12, <2>13 DEF SInv, Stream!vars
  <1>. QED
    BY <1>7, <1>10, <1>11, <1>12

-----------------------------------------------------------------------------
(* Every step of a session is a step of the stream, or none.               *)

LEMMA WorkMaps ==
  ASSUME SInv, Work, UNCHANGED mode
  PROVE  SInv' /\ [Stream!Next]_Stream!vars
  <1>1. CASE mode = "write" /\ (Writes \/ SetWriteError)
    <2>1. CASE WriteRefused \/ SetWriteError
      BY <1>1, <2>1, FaultMaps DEF Stream!Next
    <2>2. ASSUME NEW s \in Segs, PutSegRvs(s) PROVE SInv' /\ Stream!Next
      BY <1>1, <2>2, PutSegMaps DEF Stream!Next
    <2>3. ASSUME NEW x \in Byte, PutByteRvs(x) PROVE SInv' /\ Stream!Next
      BY <1>1, <2>3, PutByteMaps DEF Stream!Next
    <2>. QED
      BY <1>1, <2>1, <2>2, <2>3 DEF Writes
  <1>2. CASE mode = "write" /\ h = Len(chain) /\ CopyToFile
    BY <1>2, CopyToFileMaps DEF Stream!Next
  <1>3. CASE mode # "write" /\ Reads
    <2>1. CASE GetByte
      BY <1>3, <2>1, GetByteMaps DEF Stream!Next
    <2>2. CASE PeekByte
      BY <1>3, <2>2, PeekByteMaps DEF Stream!Next
    <2>3. ASSUME NEW n \in 0..MaxLen, GetSeg(n) \/ PeekSeg(n) PROVE SInv' /\ Stream!Next
      BY <1>3, <2>3, SegMaps DEF Stream!Next
    <2>4. ASSUME NEW n \in 0..MaxLen, Copy(n) \/ Skip(n) \/ PeekCopy(n)
          PROVE  SInv' /\ Stream!Next
      BY <1>3, <2>4, BeginMaps DEF Stream!Next
    <2>. QED
      BY <1>3, <2>1, <2>2, <2>3, <2>4 DEF Reads
  <1>4. CASE Loop
    <2>1. CASE PutSegRvsFits
      BY <2>1, PutSegFitsMaps DEF Stream!Next
    <2>2. CASE PutSegRvsFills
      BY <2>2, PutSegFillsMaps DEF Stream!Next
    <2>3. CASE CopyIteration
      BY <2>3, CopyMaps DEF Stream!Next
    <2>4. CASE SkipIteration
      BY <2>4, SkipMaps DEF Stream!Next
    <2>5. CASE PeekCopyIteration
      BY <2>5, PeekCopyMaps DEF Stream!Next
    <2>. QED
      BY <1>4, <2>1, <2>2, <2>3, <2>4, <2>5 DEF Loop
  <1>. QED
    BY <1>1, <1>2, <1>3, <1>4 DEF Work

LEMMA NothingMaps ==
  ASSUME SInv, UNCHANGED svars
  PROVE  SInv' /\ UNCHANGED Stream!vars
  <1>1. chain' = chain /\ h' = h /\ call' = call /\ ret' = ret /\ mode' = mode
    BY DEF svars
  <1>2. Inv'
    BY <1>1, StepHolds DEF SInv, vars
  <1>3. Kept'
    BY <1>1 DEF SInv, Kept
  <1>4. StreamData' = StreamData /\ StreamFault' = StreamFault /\ StreamError' = StreamError
    BY <1>1, View, ViewAfter
  <1>5. StreamReq' = StreamReq
    BY <1>1 DEF StreamReq
  <1>. QED
    BY <1>1, <1>2, <1>3, <1>4, <1>5 DEF SInv, Stream!vars

LEMMA SNextMaps ==
  ASSUME SInv, [SNext]_svars
  PROVE  SInv' /\ [Stream!Next]_Stream!vars
  <1>1. CASE StartWriting
    BY <1>1, StartWritingMaps DEF Stream!Next
  <1>2. CASE StartReading
    BY <1>2, StartReadingMaps DEF Stream!Next
  <1>3. ASSUME NEW s \in Segs, InstallAndRead(s) PROVE SInv' /\ Stream!Next
    BY <1>3, InstallMaps DEF Stream!Next
  <1>4. CASE Work /\ UNCHANGED mode
    BY <1>4, WorkMaps
  <1>5. CASE UNCHANGED svars
    BY <1>5, NothingMaps
  <1>. QED
    BY <1>1, <1>2, <1>3, <1>4, <1>5 DEF SNext

(* A list of blocks is one stream of bytes, for every block size, number   *)
(* of blocks and length of the segments: a session of calls that keeps to  *)
(* the two modes of exp-buf.c writes, in however many blocks, exactly the  *)
(* bytes it was given before the others or sets writeError, and reads them *)
(* from the front, each once, with a byte read failing only at the end.    *)
THEOREM ExpBufIsAStream == SSpec => ImplementsStream
<1>1. SInit => SInv /\ Stream!Init
  BY SInitMaps
<1>2. SInv /\ [SNext]_svars => SInv' /\ [Stream!Next]_Stream!vars
  BY SNextMaps
<1> QED
  BY <1>1, <1>2, PTL DEF SSpec, ImplementsStream, Stream!Spec

=============================================================================
