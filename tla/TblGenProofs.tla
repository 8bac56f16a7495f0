---------------------------- MODULE TblGenProofs ----------------------------
(***************************************************************************)
(* The table-driven decoder, proved for every table, every buffer and      *)
(* stacks of every size: its stack keeps its bounds and every call in      *)
(* progress keeps its tags, however often types are refused.  Of a table   *)
(* whose types have one tag each, that the stack is the calls' tags and    *)
(* nothing else.                                                           *)
(***************************************************************************)
EXTENDS TblGen, TLAPS

\* The tags a call encodes, and those of them it has open in a stack.
Own(f) == EncodedTags(f.type, f.implicit)

OwnTagsOpen(f, stk) ==
  f.fn = "type" =>
    f.open <= Len(Own(f)) /\ \A k \in 1..f.open : stk[f.base + k].tag = Own(f)[k]

FrameOK(f, stk) ==
  /\ f \in Frame /\ f.i >= 1
  /\ f.pc = "octets" => f.fn = "simple" /\ f.open = 1
  /\ f.fn = "simple" /\ f.pc = "tags" => f.open = 0
  /\ OwnTagsOpen(f, stk)

\* The calls in progress: all but the last wait, and the tags of each lie below
\* those of the next.
CallsOK(fs, stk) ==
  \A n \in 1..Len(fs) :
    /\ FrameOK(fs[n], stk)
    /\ n < Len(fs) => fs[n].pc = "await"
    /\ \A m \in 1..(n - 1) : fs[m].base + fs[m].open <= fs[n].base

\* There are calls in progress, and they are as they should be.
Active(fs, stk) == fs \in Seq(Frame) /\ fs # <<>> /\ CallsOK(fs, stk)

\* The running call changed to g; it waits for its callee g; it has returned and
\* the bytes d were added to its caller's.
Changed(fs, g)  == [fs EXCEPT ![Len(fs)] = g]
Called(fs, g)   == Append(fs, g)
Resumed(fs, d)  == [SubSeq(fs, 1, Len(fs) - 1) EXCEPT ![Len(fs) - 1].bytes = @ + d]

\* Two sequences agree on their first n places.
AgreeTo(n, x, y) == \A k \in 1..n : y[k] = x[k]

\* What is to be read again lies above the tags of f; right above them as long
\* as it is reading its tags.
Covers(last, f) ==
  /\ f.base + f.open <= last
  /\ f.pc = "tags" => f.base + f.open = last

Inv ==
  /\ TypeOK
  /\ CallsOK(frames, tlStk)
  /\ frames # <<>> => Covers(LastIndex, top)

-----------------------------------------------------------------------------
(* The calls in progress.                                                  *)

\* What the tags of f were, they are in a stack that agrees so far.
LEMMA FrameKept ==
  ASSUME NEW f, NEW stk, NEW stk2, FrameOK(f, stk),
         AgreeTo(f.base + f.open, stk, stk2)
  PROVE  FrameOK(f, stk2)
<1>1. f.base \in Nat /\ f.open \in Nat
  BY DEF FrameOK, Frame
<1>2. OwnTagsOpen(f, stk2)
  <2> SUFFICES ASSUME f.fn = "type"
               PROVE  f.open <= Len(Own(f))
                      /\ \A k \in 1..f.open : stk2[f.base + k].tag = Own(f)[k]
    BY DEF OwnTagsOpen
  <2>1. f.open <= Len(Own(f)) /\ \A k \in 1..f.open : stk[f.base + k].tag = Own(f)[k]
    BY DEF FrameOK, OwnTagsOpen
  <2>2. ASSUME NEW k \in 1..f.open PROVE stk2[f.base + k].tag = Own(f)[k]
    <3>1. f.base + k \in 1..(f.base + f.open)
      BY <1>1
    <3> QED
      BY <2>1, <3>1 DEF AgreeTo
  <2> QED
    BY <2>1, <2>2
<1> QED
  BY <1>2 DEF FrameOK

LEMMA FrameNumbers ==
  ASSUME NEW f, f \in Frame
  PROVE  f.base \in Nat /\ f.open \in Nat /\ f.bytes \in Nat /\ f.i \in Nat
BY DEF Frame

LEMMA CallNumbers ==
  ASSUME NEW fs, NEW stk, CallsOK(fs, stk), NEW n \in 1..Len(fs)
  PROVE  fs[n].base \in Nat /\ fs[n].open \in Nat
<1>1. fs[n] \in Frame
  BY DEF CallsOK, FrameOK
<1> QED
  BY <1>1, FrameNumbers

\* The calls below the running one stay what they were.
LEMMA TopReplaced ==
  ASSUME NEW fs, NEW len \in Nat \ {0}, Len(fs) = len,
         NEW stk, NEW stk2, CallsOK(fs, stk),
         NEW g, FrameOK(g, stk2), g.base = fs[len].base,
         AgreeTo(g.base, stk, stk2),
         NEW fs2, Len(fs2) = len, fs2[len] = g, AgreeTo(len - 1, fs, fs2)
  PROVE  CallsOK(fs2, stk2)
<1>1. ASSUME NEW n \in 1..len
      PROVE  /\ FrameOK(fs2[n], stk2)
             /\ n < len => fs2[n].pc = "await"
             /\ \A m \in 1..(n - 1) : fs2[m].base + fs2[m].open <= fs2[n].base
  <2>1. fs[n].base \in Nat /\ fs[n].open \in Nat
    BY CallNumbers
  <2>2. \A m \in 1..(n - 1) : m \in 1..(len - 1) /\ fs2[m] = fs[m]
    BY DEF AgreeTo
  <2>3. \A m \in 1..(n - 1) : fs[m].base + fs[m].open <= fs[n].base
    BY DEF CallsOK
  <2>4. CASE n = len
    <3>1. fs2[n].base = fs[n].base /\ FrameOK(fs2[n], stk2)
      BY <2>4
    <3> QED
      BY <2>2, <2>3, <2>4, <3>1
  <2>5. CASE n < len
    <3>1. n \in 1..(len - 1) /\ len \in 1..len
      BY <2>5
    <3>2. fs2[n] = fs[n]
      BY <3>1 DEF AgreeTo
    <3>3. fs[n].pc = "await" /\ FrameOK(fs[n], stk)
      BY <2>5 DEF CallsOK
    <3>4. fs[n].base + fs[n].open <= g.base
      BY <3>1 DEF CallsOK
    <3>5. g.base \in Nat
      BY <3>1, CallNumbers
    <3>6. AgreeTo(fs[n].base + fs[n].open, stk, stk2)
      BY <2>1, <3>4, <3>5 DEF AgreeTo
    <3>7. FrameOK(fs[n], stk2)
      BY <3>3, <3>6, FrameKept
    <3> QED
      BY <3>2, <3>3, <3>7, <2>2, <2>3
  <2> QED
    BY <2>4, <2>5
<1> QED
  BY <1>1 DEF CallsOK

\* The running call changes.
LEMMA TopUpdated ==
  ASSUME NEW fs, NEW stk, NEW stk2, Active(fs, stk),
         NEW g, FrameOK(g, stk2), g.base = fs[Len(fs)].base,
         AgreeTo(g.base, stk, stk2)
  PROVE  /\ Active(Changed(fs, g), stk2)
         /\ Len(Changed(fs, g)) = Len(fs) /\ Changed(fs, g)[Len(fs)] = g
<1>1. fs \in Seq(Frame) /\ fs # <<>> /\ CallsOK(fs, stk)
  BY DEF Active
<1>2. Len(fs) \in Nat \ {0}
  BY <1>1
<1>3. g \in Frame
  BY DEF FrameOK
<1>4. /\ Changed(fs, g) \in Seq(Frame) /\ Changed(fs, g) # <<>>
      /\ Len(Changed(fs, g)) = Len(fs)
      /\ Changed(fs, g)[Len(fs)] = g /\ AgreeTo(Len(fs) - 1, fs, Changed(fs, g))
  BY <1>1, <1>2, <1>3 DEF AgreeTo, Changed
<1>5. CallsOK(Changed(fs, g), stk2)
  BY <1>1, <1>2, <1>4, TopReplaced
<1> QED
  BY <1>4, <1>5 DEF Active

\* A call above those in progress.
LEMMA CallAdded ==
  ASSUME NEW fs, NEW len \in Nat \ {0}, Len(fs) = len, NEW stk, CallsOK(fs, stk),
         fs[len].pc = "await",
         NEW g, FrameOK(g, stk), fs[len].base + fs[len].open <= g.base,
         NEW fs2, Len(fs2) = len + 1, fs2[len + 1] = g, AgreeTo(len, fs, fs2)
  PROVE  CallsOK(fs2, stk)
<1>1. \A n \in 1..len : fs[n].base \in Nat /\ fs[n].open \in Nat
  BY CallNumbers
<1>2. g.base \in Nat
  BY FrameNumbers DEF FrameOK
<1>3. len \in 1..len
  OBVIOUS
<1>4. ASSUME NEW n \in 1..len PROVE fs[n].base + fs[n].open <= g.base
  <2>1. CASE n = len
    BY <2>1
  <2>2. CASE n # len
    <3>1. n \in 1..(len - 1)
      BY <2>2
    <3>2. fs[n].base + fs[n].open <= fs[len].base
      BY <1>3, <3>1 DEF CallsOK
    <3> QED
      BY <3>2, <1>1, <1>2, <1>3
  <2> QED
    BY <2>1, <2>2
<1>5. ASSUME NEW n \in 1..(len + 1)
      PROVE  /\ FrameOK(fs2[n], stk)
             /\ n < len + 1 => fs2[n].pc = "await"
             /\ \A m \in 1..(n - 1) : fs2[m].base + fs2[m].open <= fs2[n].base
  <2>1. \A m \in 1..(n - 1) : m \in 1..len /\ fs2[m] = fs[m]
    BY DEF AgreeTo
  <2>2. CASE n = len + 1
    BY <1>4, <2>1, <2>2
  <2>3. CASE n # len + 1
    <3>1. n \in 1..len /\ fs2[n] = fs[n]
      BY <2>3 DEF AgreeTo
    <3>2. n < len => fs[n].pc = "await"
      BY <3>1 DEF CallsOK
    <3>3. fs[n].pc = "await"
      BY <3>1, <3>2
    <3>4. FrameOK(fs[n], stk) /\ \A m \in 1..(n - 1) : fs[m].base + fs[m].open <= fs[n].base
      BY <3>1 DEF CallsOK
    <3> QED
      BY <3>1, <3>3, <3>4, <2>1
  <2> QED
    BY <2>2, <2>3
<1> QED
  BY <1>5 DEF CallsOK

\* A call begins above the tags of its caller, which waits.
LEMMA CalleeAppended ==
  ASSUME NEW fs, NEW stk, Active(fs, stk), fs[Len(fs)].pc = "await",
         NEW g, FrameOK(g, stk), fs[Len(fs)].base + fs[Len(fs)].open <= g.base
  PROVE  /\ Active(Called(fs, g), stk)
         /\ Len(Called(fs, g)) = Len(fs) + 1 /\ Called(fs, g)[Len(fs) + 1] = g
<1>1. fs \in Seq(Frame) /\ fs # <<>> /\ CallsOK(fs, stk)
  BY DEF Active
<1>2. Len(fs) \in Nat \ {0}
  BY <1>1
<1>3. g \in Frame
  BY DEF FrameOK
<1>4. /\ Called(fs, g) \in Seq(Frame) /\ Called(fs, g) # <<>>
      /\ Len(Called(fs, g)) = Len(fs) + 1
      /\ Called(fs, g)[Len(fs) + 1] = g /\ AgreeTo(Len(fs), fs, Called(fs, g))
  BY <1>1, <1>2, <1>3 DEF AgreeTo, Called
<1>5. CallsOK(Called(fs, g), stk)
  BY <1>1, <1>2, <1>4, CallAdded
<1> QED
  BY <1>4, <1>5 DEF Active

LEMMA LastDropped ==
  ASSUME NEW S, NEW fs \in Seq(S), NEW n \in Nat, n <= Len(fs)
  PROVE  SubSeq(fs, 1, n) \in Seq(S) /\ Len(SubSeq(fs, 1, n)) = n
         /\ AgreeTo(n, fs, SubSeq(fs, 1, n))
BY DEF AgreeTo

LEMMA BytesAdded ==
  ASSUME NEW f, f \in Frame, NEW d \in Nat, NEW g, g = [f EXCEPT !.bytes = @ + d]
  PROVE  /\ g \in Frame /\ g.base = f.base /\ g.open = f.open /\ g.pc = f.pc
         /\ g.fn = f.fn /\ g.type = f.type /\ g.implicit = f.implicit /\ g.i = f.i
BY DEF Frame

\* The last call is gone.
LEMMA CallRemoved ==
  ASSUME NEW fs, NEW n \in Nat \ {0}, Len(fs) = n + 1, NEW stk, CallsOK(fs, stk),
         NEW fs2, Len(fs2) = n, AgreeTo(n, fs, fs2)
  PROVE  CallsOK(fs2, stk)
<1>1. ASSUME NEW m \in 1..n
      PROVE  /\ FrameOK(fs2[m], stk) /\ fs2[m].pc = "await"
             /\ \A l \in 1..(m - 1) : fs2[l].base + fs2[l].open <= fs2[m].base
  <2>1. m \in 1..Len(fs) /\ m < Len(fs) /\ fs2[m] = fs[m]
    BY DEF AgreeTo
  <2>2. \A l \in 1..(m - 1) : fs2[l] = fs[l]
    BY DEF AgreeTo
  <2> QED
    BY <2>1, <2>2 DEF CallsOK
<1> QED
  BY <1>1 DEF CallsOK

\* A call ends and its bytes are added to its caller's.
LEMMA CallerResumed ==
  ASSUME NEW fs, NEW stk, NEW stk2, Active(fs, stk), Len(fs) > 1,
         AgreeTo(fs[Len(fs)].base, stk, stk2), NEW d \in Nat
  PROVE  LET n == Len(fs) - 1
             c == Resumed(fs, d)
         IN /\ Active(c, stk2) /\ Len(c) = n
            /\ c[n].pc = "await" /\ c[n].base + c[n].open <= fs[Len(fs)].base
<1> DEFINE n       == Len(fs) - 1
           callers == SubSeq(fs, 1, n)
           g       == [fs[n] EXCEPT !.bytes = @ + d]
           c       == Resumed(fs, d)
<1>1. fs \in Seq(Frame) /\ CallsOK(fs, stk)
  BY DEF Active
<1>2. n \in Nat \ {0} /\ Len(fs) = n + 1 /\ Len(fs) \in Nat
  BY <1>1
<1>3. callers \in Seq(Frame) /\ Len(callers) = n /\ AgreeTo(n, fs, callers)
  BY <1>1, <1>2, LastDropped
<1>4. c = [callers EXCEPT ![n] = g]
  <2>1. callers[n] = fs[n]
    BY <1>2, <1>3 DEF AgreeTo
  <2> HIDE DEF g
  <2>2. c = [callers EXCEPT ![n] = [callers[n] EXCEPT !.bytes = @ + d]]
    BY DEF Resumed
  <2> QED
    BY <2>1, <2>2 DEF g
<1>5. /\ FrameOK(fs[n], stk) /\ fs[n].pc = "await" /\ fs[n] \in Frame
      /\ fs[n].base + fs[n].open <= fs[n + 1].base
  <2>1. n \in 1..Len(fs) /\ n + 1 \in 1..Len(fs) /\ n \in 1..(n + 1 - 1) /\ n < Len(fs)
    BY <1>2
  <2> HIDE DEF n
  <2> QED
    BY <1>1, <2>1 DEF CallsOK, FrameOK
<1>6. fs[n].base \in Nat /\ fs[n].open \in Nat
  BY <1>5, FrameNumbers
<1>7. fs[n + 1].base \in Nat
  <2>1. n + 1 \in 1..Len(fs)
    BY <1>2
  <2> HIDE DEF n
  <2> QED
    BY <1>1, <2>1, CallNumbers
<1>8. /\ g \in Frame /\ g.base = fs[n].base /\ g.open = fs[n].open /\ g.pc = "await"
      /\ g.fn = fs[n].fn /\ g.type = fs[n].type /\ g.implicit = fs[n].implicit /\ g.i = fs[n].i
  BY <1>5, BytesAdded
<1> HIDE DEF n, g, callers, c
<1>9. AgreeTo(fs[n].base + fs[n].open, stk, stk2) /\ AgreeTo(g.base, stk, stk2)
  BY <1>2, <1>5, <1>6, <1>7, <1>8 DEF AgreeTo
<1>10. FrameOK(g, stk2)
  <2>1. FrameOK(fs[n], stk2)
    BY <1>5, <1>9, FrameKept
  <2> QED
    BY <1>8, <2>1, <1>5 DEF FrameOK, OwnTagsOpen, Own
<1>11. CallsOK(callers, stk)
  BY <1>1, <1>2, <1>3, CallRemoved
<1>12. n \in 1..n /\ callers[n] = fs[n]
  BY <1>2, <1>3 DEF AgreeTo
<1>13. c \in Seq(Frame) /\ c # <<>> /\ Len(c) = n /\ c[n] = g /\ AgreeTo(n - 1, callers, c)
  BY <1>2, <1>3, <1>4, <1>8 DEF AgreeTo
<1>14. CallsOK(c, stk2)
  BY <1>2, <1>3, <1>8, <1>9, <1>10, <1>11, <1>12, <1>13, TopReplaced
<1>15. Active(c, stk2)
  BY <1>13, <1>14 DEF Active
<1> QED
  BY <1>2, <1>5, <1>8, <1>13, <1>15 DEF n, c

-----------------------------------------------------------------------------
(* The table, the stack and the running call.                              *)

LEMMA TypesOfTable ==
  ASSUME NEW t \in Type
  PROVE  /\ Def[t].tags \in Seq(Octet) /\ Def[t].elmts \in Seq(Type)
         /\ Def[t].to \in Type /\ Def[t].implicit \in BOOLEAN
BY TableAssumption DEF TypeRecord

LEMMA OwnTags ==
  ASSUME NEW f, f \in Frame
  PROVE  Own(f) \in Seq(Octet) /\ Len(Own(f)) \in Nat
<1>1. f.type \in Type
  BY DEF Frame
<1>2. Def[f.type].tags \in Seq(Octet)
  BY <1>1, TypesOfTable
<1>3. Own(f) \in Seq(Octet)
  BY <1>2 DEF Own, EncodedTags
<1> QED
  BY <1>3

LEMMA LengthsOfTags ==
  ASSUME NEW x \in TagNLen
  PROVE  x.len \in Int /\ x.len >= Indefinite
<1>1. \A o \in Octet : o \in 0..255
  BY OctetAssumption
<1>2. PICK o \in Octet : x.len = Length(o)
  BY DEF TagNLen
<1> QED
  BY <1>1, <1>2 DEF Length, Indefinite

\* TypeOK without the calls.
StackOK(p, stk, rw) ==
  /\ input \in Seq(Octet) /\ p \in 0..Len(input)
  /\ stk \in Seq(TagNLen) /\ Len(stk) <= StkSize /\ rw \in 0..Len(stk)

LEMMA RunningFacts ==
  ASSUME Inv, status = "running"
  PROVE  /\ Active(frames, tlStk) /\ StackOK(pos, tlStk, rewindsize) /\ bytesDecoded \in Nat
         /\ top \in Frame /\ FrameOK(top, tlStk) /\ Covers(LastIndex, top)
         /\ top.base \in Nat /\ top.open \in Nat /\ top.bytes \in Nat
         /\ LastIndex \in 0..Len(tlStk) /\ Len(frames) \in Nat \ {0}
<1>1. frames \in Seq(Frame) /\ frames # <<>> /\ CallsOK(frames, tlStk) /\ Covers(LastIndex, top)
  BY DEF Inv, TypeOK
<1>2. Len(frames) \in Nat \ {0}
  BY <1>1
<1>3. FrameOK(top, tlStk)
  BY <1>1, <1>2 DEF CallsOK, top
<1>4. top \in Frame
  BY <1>3 DEF FrameOK
<1>5. StackOK(pos, tlStk, rewindsize) /\ bytesDecoded \in Nat
  BY DEF Inv, TypeOK, StackOK
<1>6. LastIndex \in 0..Len(tlStk)
  BY <1>5 DEF StackOK, LastIndex
<1>7. Active(frames, tlStk)
  BY <1>1 DEF Active
<1> QED
  BY <1>1, <1>2, <1>3, <1>4, <1>5, <1>6, <1>7, FrameNumbers

\* How the invariant is shown of a step that leaves calls in progress.
LEMMA StillRunning ==
  ASSUME StackOK(pos', tlStk', rewindsize'), input' = input, bytesDecoded' \in Nat,
         status' = "running", ret' \in {"none", "true", "false"},
         NEW fs, frames' = fs, Active(fs, tlStk'),
         Covers(Len(tlStk') - rewindsize', fs[Len(fs)])
  PROVE  Inv'
<1>1. frames' \in Seq(Frame) /\ frames' # <<>> /\ CallsOK(frames', tlStk')
  BY DEF Active
<1>2. TypeOK'
  BY <1>1 DEF TypeOK, StackOK
<1> QED
  BY <1>1, <1>2 DEF Inv, top, LastIndex

\* The running call changes to g.
LEMMA TopStep ==
  ASSUME Inv, status = "running", StackOK(pos', tlStk', rewindsize'), Unmoved, ret' = "none",
         NEW g, frames' = Update(g), FrameOK(g, tlStk'), g.base = top.base,
         AgreeTo(top.base, tlStk, tlStk'), Covers(Len(tlStk') - rewindsize', g)
  PROVE  Inv'
<1>1. Active(frames, tlStk) /\ g.base = frames[Len(frames)].base /\ bytesDecoded \in Nat
  BY RunningFacts DEF top
<1>2. AgreeTo(g.base, tlStk, tlStk')
  OBVIOUS
<1>3. /\ Active(Changed(frames, g), tlStk')
      /\ Len(Changed(frames, g)) = Len(frames) /\ Changed(frames, g)[Len(frames)] = g
  BY <1>1, <1>2, TopUpdated
<1>4. frames' = Changed(frames, g)
  BY DEF Update, Changed
<1>5. input' = input /\ bytesDecoded' \in Nat /\ status' = "running"
  BY <1>1 DEF Unmoved
<1> QED
  BY <1>3, <1>4, <1>5, StillRunning

\* The running call comes to another place of its text.
LEMMA TopAt ==
  ASSUME Inv, status = "running", NEW pc \in {"body", "await", "pop"}
  PROVE  /\ FrameOK(At(pc), tlStk) /\ At(pc).base = top.base /\ At(pc).open = top.open
         /\ At(pc).pc = pc /\ Covers(LastIndex, At(pc))
<1>1. FrameOK(top, tlStk) /\ top \in Frame /\ Covers(LastIndex, top)
  BY RunningFacts
<1>2. /\ At(pc) \in Frame /\ At(pc).pc = pc
      /\ At(pc).base = top.base /\ At(pc).open = top.open /\ At(pc).i = top.i
      /\ At(pc).fn = top.fn /\ At(pc).type = top.type /\ At(pc).implicit = top.implicit
  BY <1>1 DEF At, Frame
<1>3. FrameOK(At(pc), tlStk)
  BY <1>1, <1>2 DEF FrameOK, OwnTagsOpen, Own
<1> QED
  BY <1>1, <1>2, <1>3 DEF Covers

\* The running call calls g.
LEMMA CallStep ==
  ASSUME Inv, status = "running", Unread, Unmoved,
         NEW g, FrameOK(g, tlStk), g.base = LastIndex, g.open = 0, Call(g)
  PROVE  Inv'
<1> DEFINE fs == Changed(frames, At("await"))
<1>1. /\ Active(frames, tlStk) /\ StackOK(pos, tlStk, rewindsize) /\ LastIndex \in Nat
      /\ bytesDecoded \in Nat
  BY RunningFacts
<1>2. /\ FrameOK(At("await"), tlStk) /\ At("await").base = frames[Len(frames)].base
      /\ At("await").pc = "await" /\ Covers(LastIndex, At("await"))
  BY TopAt DEF top
<1>3. AgreeTo(At("await").base, tlStk, tlStk)
  BY DEF AgreeTo
<1>4. Active(fs, tlStk) /\ fs[Len(fs)] = At("await")
  BY <1>1, <1>2, <1>3, TopUpdated
<1>5. frames' = Called(fs, g) /\ ret' = "none"
  BY DEF Call, Update, Changed, Called
<1>6. StackOK(pos', tlStk', rewindsize') /\ tlStk' = tlStk /\ rewindsize' = rewindsize
  BY <1>1 DEF Unread
<1>7. input' = input /\ bytesDecoded' \in Nat /\ status' = "running"
  BY <1>1 DEF Unmoved
<1> HIDE DEF fs
<1>8. fs[Len(fs)].pc = "await" /\ fs[Len(fs)].base + fs[Len(fs)].open <= g.base
  BY <1>2, <1>4 DEF Covers
<1>9. /\ Active(Called(fs, g), tlStk) /\ Len(Called(fs, g)) = Len(fs) + 1
      /\ Called(fs, g)[Len(fs) + 1] = g
  BY <1>4, <1>8, CalleeAppended
<1>10. Covers(Len(tlStk') - rewindsize', g)
  BY <1>1, <1>6 DEF Covers, LastIndex
<1> QED
  BY <1>5, <1>6, <1>7, <1>9, <1>10, StillRunning

\* The running call returns.
LEMMA ReturnStep ==
  ASSUME Inv, status = "running", StackOK(pos', tlStk', rewindsize'),
         NEW v \in {"true", "false"}, NEW d \in Nat, Return(v, d),
         AgreeTo(top.base, tlStk, tlStk'), Len(tlStk') - rewindsize' >= top.base
  PROVE  Inv'
<1>1. /\ Active(frames, tlStk) /\ top.base \in Nat /\ bytesDecoded \in Nat
      /\ Len(frames) \in Nat \ {0}
  BY RunningFacts
<1>2. Len(SubSeq(frames, 1, Len(frames) - 1)) = Len(frames) - 1
  <2>1. Len(frames) - 1 \in Nat /\ Len(frames) - 1 <= Len(frames) /\ frames \in Seq(Frame)
    BY <1>1 DEF Active
  <2> QED
    BY <2>1, LastDropped
<1>3. ret' = v /\ input' = input
  BY DEF Return
<1>4. CASE Len(frames) = 1
  <2>1. frames' = <<>> /\ status' = "done" /\ bytesDecoded' = d
    BY <1>2, <1>4 DEF Return
  <2>2. TypeOK'
    BY <1>3, <2>1 DEF TypeOK, StackOK
  <2>3. CallsOK(frames', tlStk')
    BY <2>1 DEF CallsOK
  <2> QED
    BY <2>1, <2>2, <2>3 DEF Inv
<1>5. CASE Len(frames) # 1
  <2> DEFINE n == Len(frames) - 1
             c == Resumed(frames, d)
  <2>1. frames' = c /\ status' = status /\ bytesDecoded' = bytesDecoded
    BY <1>1, <1>2, <1>5 DEF Return, Resumed
  <2>2. Len(frames) > 1 /\ AgreeTo(frames[Len(frames)].base, tlStk, tlStk')
    BY <1>1, <1>5 DEF top
  <2>3. /\ Active(c, tlStk') /\ Len(c) = n
        /\ c[n].pc = "await" /\ c[n].base + c[n].open <= top.base
    BY <1>1, <2>2, CallerResumed DEF top
  <2> HIDE DEF c
  <2>4. c[n].base \in Nat /\ c[n].open \in Nat
    <3>1. n \in 1..Len(c)
      BY <1>1, <1>5, <2>3
    <3> QED
      BY <2>3, <3>1, CallNumbers DEF Active
  <2>5. Len(tlStk') - rewindsize' \in Int
    BY DEF StackOK
  <2>6. c[n].base + c[n].open <= Len(tlStk') - rewindsize'
    BY <1>1, <2>3, <2>4, <2>5
  <2>7. Covers(Len(tlStk') - rewindsize', c[Len(c)])
    BY <2>3, <2>6 DEF Covers
  <2> QED
    BY <1>1, <1>3, <2>1, <2>3, <2>7, StillRunning
<1> QED
  BY <1>4, <1>5

\* A longjmp leaves all calls.
LEMMA LongjmpStep ==
  ASSUME Inv, status = "running", NEW why \in {"failed", "stopped"}, Longjmp(why)
  PROVE  Inv'
<1>1. frames' = <<>> /\ CallsOK(frames', tlStk')
  BY DEF Longjmp, CallsOK
<1>2. TypeOK'
  BY <1>1 DEF Inv, TypeOK, Longjmp
<1> QED
  BY <1>1, <1>2 DEF Inv

-----------------------------------------------------------------------------
(* Reading tags.                                                           *)

LEMMA TagRead ==
  ASSUME input \in Seq(Octet), NEW p \in Nat, HasTL(input, p)
  PROVE  TLAt(input, p) \in TagNLen /\ p + TLSize \in 0..Len(input)
<1>1. p + 1 \in 1..Len(input) /\ p + 2 \in 1..Len(input) /\ p + 2 <= Len(input)
  BY DEF HasTL, TLSize
<1>2. input[p + 1] \in Octet /\ input[p + 2] \in Octet
  BY <1>1
<1> QED
  BY <1>1, <1>2 DEF TLAt, TagNLen, TLSize

\* A tag is pushed: read again, or read from the buffer if the stack has room.
LEMMA PushFacts ==
  ASSUME Inv, status = "running", CanPush
  PROVE  /\ StackOK(Pushed.pos, Pushed.stk, Pushed.rw)
         /\ Len(Pushed.stk) - Pushed.rw = LastIndex + 1 /\ Pushed.rw \in Nat
         /\ AgreeTo(LastIndex, tlStk, Pushed.stk)
         /\ PushedTag = Pushed.stk[LastIndex + 1].tag
<1>1. /\ input \in Seq(Octet) /\ pos \in 0..Len(input)
      /\ tlStk \in Seq(TagNLen) /\ Len(tlStk) \in Nat /\ Len(tlStk) <= StkSize
      /\ rewindsize \in 0..Len(tlStk) /\ StkSize \in Nat /\ LastIndex \in 0..Len(tlStk)
  BY RunningFacts, DecoderAssumption DEF StackOK
<1>2. CASE rewindsize > 0
  <2>1. Pushed.stk = tlStk /\ Pushed.rw = rewindsize - 1 /\ Pushed.pos = pos
    BY <1>2 DEF Pushed
  <2>2. rewindsize - 1 \in 0..Len(tlStk) /\ Len(tlStk) - (rewindsize - 1) = LastIndex + 1
    BY <1>1, <1>2 DEF LastIndex
  <2> QED
    BY <1>1, <2>1, <2>2 DEF StackOK, AgreeTo, PushedTag
<1>3. CASE rewindsize = 0
  <2> DEFINE tl == TLAt(input, pos)
  <2>1. Pushed.stk = Append(tlStk, tl) /\ Pushed.rw = 0 /\ Pushed.pos = pos + TLSize
    BY <1>3 DEF Pushed
  <2>2. Len(tlStk) < StkSize /\ HasTL(input, pos) /\ LastIndex = Len(tlStk)
    BY <1>1, <1>3 DEF CanPush, LastIndex
  <2>3. tl \in TagNLen /\ pos + TLSize \in 0..Len(input)
    BY <1>1, <2>2, TagRead
  <2> HIDE DEF tl
  <2>4. Append(tlStk, tl) \in Seq(TagNLen) /\ Len(Append(tlStk, tl)) = Len(tlStk) + 1
    BY <1>1, <2>3
  <2>5. AgreeTo(Len(tlStk), tlStk, Append(tlStk, tl))
    BY <1>1 DEF AgreeTo
  <2> QED
    BY <1>1, <2>1, <2>2, <2>3, <2>4, <2>5 DEF StackOK, PushedTag
<1> QED
  BY <1>1, <1>2, <1>3

\* The tag that comes next is one of the call's own.
LEMMA NextOwnTag ==
  ASSUME Inv, status = "running", top.fn = "type", TagsLeft # <<>>
  PROVE  top.open + 1 <= Len(Own(top)) /\ Head(TagsLeft) = Own(top)[top.open + 1]
<1>1. Own(top) \in Seq(Octet) /\ Len(Own(top)) \in Nat /\ top.open \in Nat
  BY RunningFacts, OwnTags
<1>2. TagsLeft = SubSeq(Own(top), top.open + 1, Len(Own(top)))
  BY DEF TagsLeft, Own
<1>3. top.open + 1 <= Len(Own(top))
  BY <1>1, <1>2
<1> QED
  BY <1>1, <1>2, <1>3

LEMMA RestOfTags ==
  ASSUME NEW S, NEW q \in Seq(S), NEW n \in Nat, n < Len(q)
  PROVE  SubSeq(q, n + 1, Len(q)) # <<>>
<1> DEFINE r == SubSeq(q, n + 1, Len(q))
<1>1. Len(r) = Len(q) - n
  OBVIOUS
<1>2. Len(<<>>) = 0
  OBVIOUS
<1>3. Len(r) # 0
  BY <1>1
<1> HIDE DEF r
<1>4. r # <<>>
  BY <1>2, <1>3
<1> QED
  BY <1>4 DEF r

LEMMA NoOwnTagLeft ==
  ASSUME Inv, status = "running", top.fn = "type", TagsLeft = <<>>
  PROVE  top.open = Len(Own(top))
<1>1. Own(top) \in Seq(Octet) /\ Len(Own(top)) \in Nat /\ top.open \in Nat
      /\ top.open <= Len(Own(top))
  BY RunningFacts, OwnTags DEF FrameOK, OwnTagsOpen
<1>2. ~(top.open < Len(Own(top)))
  BY <1>1, RestOfTags DEF TagsLeft, Own
<1> QED
  BY <1>1, <1>2

LEMMA PushMatchesStep ==
  ASSUME Inv, status = "running", PushMatches
  PROVE  Inv'
<1> DEFINE g == [top EXCEPT !.open = @ + 1]
<1>1. /\ top.fn = "type" /\ top.pc = "tags" /\ TagsLeft # <<>> /\ CanPush
      /\ PushedTag = Head(TagsLeft)
      /\ tlStk' = Pushed.stk /\ rewindsize' = Pushed.rw /\ pos' = Pushed.pos
      /\ frames' = Update(g) /\ ret' = "none" /\ Unmoved
  BY DEF PushMatches
<1>2. /\ top \in Frame /\ FrameOK(top, tlStk) /\ Covers(LastIndex, top)
      /\ top.base \in Nat /\ top.open \in Nat /\ LastIndex \in Nat
  BY RunningFacts
<1>3. LastIndex = top.base + top.open
  BY <1>1, <1>2 DEF Covers
<1>4. /\ StackOK(pos', tlStk', rewindsize') /\ Len(tlStk') - rewindsize' = LastIndex + 1
      /\ AgreeTo(LastIndex, tlStk, tlStk') /\ tlStk'[LastIndex + 1].tag = Head(TagsLeft)
  BY <1>1, PushFacts
<1>5. top.open + 1 <= Len(Own(top)) /\ tlStk'[LastIndex + 1].tag = Own(top)[top.open + 1]
  BY <1>1, <1>4, NextOwnTag
<1>6. /\ g \in Frame /\ g.open = top.open + 1 /\ g.base = top.base /\ g.pc = top.pc
      /\ g.i = top.i /\ g.fn = top.fn /\ g.type = top.type /\ g.implicit = top.implicit
  BY <1>2 DEF Frame
<1>7. Own(g) = Own(top)
  BY <1>6 DEF Own
<1> HIDE DEF g
<1>8. FrameOK(top, tlStk')
  BY <1>2, <1>3, <1>4, FrameKept
<1>9. ASSUME NEW k \in 1..g.open PROVE tlStk'[g.base + k].tag = Own(g)[k]
  <2>1. CASE k = top.open + 1
    BY <1>2, <1>3, <1>5, <1>6, <1>7, <2>1
  <2>2. CASE k # top.open + 1
    <3>1. k \in 1..top.open
      BY <1>2, <1>6, <2>2
    <3> QED
      BY <1>1, <1>6, <1>7, <1>8, <3>1 DEF FrameOK, OwnTagsOpen
  <2> QED
    BY <2>1, <2>2
<1>10. FrameOK(g, tlStk')
  <2>1. OwnTagsOpen(g, tlStk')
    BY <1>5, <1>6, <1>7, <1>9 DEF OwnTagsOpen
  <2>2. g.i >= 1 /\ g.pc # "octets" /\ g.fn # "simple"
    BY <1>1, <1>2, <1>6 DEF FrameOK
  <2> QED
    BY <1>6, <2>1, <2>2 DEF FrameOK
<1>11. AgreeTo(top.base, tlStk, tlStk')
  BY <1>2, <1>3, <1>4 DEF AgreeTo
<1>12. Covers(Len(tlStk') - rewindsize', g)
  BY <1>2, <1>3, <1>4, <1>6 DEF Covers
<1> QED
  BY <1>1, <1>4, <1>6, <1>10, <1>11, <1>12, TopStep

LEMMA PushMismatchesStep ==
  ASSUME Inv, status = "running", PushMismatches
  PROVE  Inv'
<1>1. /\ top.pc = "tags" /\ CanPush
      /\ tlStk' = Pushed.stk /\ pos' = Pushed.pos
      /\ rewindsize' = Len(tlStk') - top.base
      /\ Return("false", 0)
  BY DEF PushMismatches
<1>2. /\ top.base \in Nat /\ top.open \in Nat /\ LastIndex \in Nat /\ top.base <= LastIndex
  BY RunningFacts DEF Covers
<1>3. /\ StackOK(pos', tlStk', Pushed.rw) /\ Pushed.rw \in Nat
      /\ Len(tlStk') - Pushed.rw = LastIndex + 1 /\ AgreeTo(LastIndex, tlStk, tlStk')
  BY <1>1, PushFacts
<1>4. Len(tlStk') \in Nat
  BY <1>3 DEF StackOK
<1>5. rewindsize' \in 0..Len(tlStk') /\ Len(tlStk') - rewindsize' = top.base
  BY <1>1, <1>2, <1>3, <1>4
<1>6. StackOK(pos', tlStk', rewindsize')
  BY <1>3, <1>5 DEF StackOK
<1>7. AgreeTo(top.base, tlStk, tlStk')
  BY <1>2, <1>3 DEF AgreeTo
<1>8. Len(tlStk') - rewindsize' >= top.base
  BY <1>2, <1>5
<1> QED
  BY <1>1, <1>6, <1>7, <1>8, ReturnStep

LEMMA AllPushedStep ==
  ASSUME Inv, status = "running", AllPushed
  PROVE  Inv'
<1>1. /\ frames' = Update(At("body")) /\ ret' = "none" /\ Unmoved
      /\ pos' = pos /\ tlStk' = tlStk /\ rewindsize' \in {rewindsize, 0}
  BY DEF AllPushed
<1>2. /\ FrameOK(At("body"), tlStk') /\ At("body").base = top.base
      /\ At("body").pc = "body" /\ Covers(LastIndex, At("body")) /\ At("body") \in Frame
  BY <1>1, TopAt DEF FrameOK
<1>3. /\ StackOK(pos, tlStk, rewindsize) /\ LastIndex \in 0..Len(tlStk)
      /\ At("body").base \in Nat /\ At("body").open \in Nat
  BY <1>2, RunningFacts, FrameNumbers
<1>4. Len(tlStk) \in Nat /\ rewindsize \in 0..Len(tlStk)
  BY <1>3 DEF StackOK
<1>5. StackOK(pos', tlStk', rewindsize')
  BY <1>1, <1>3, <1>4 DEF StackOK
<1>6. AgreeTo(top.base, tlStk, tlStk')
  BY <1>1 DEF AgreeTo
<1>7. Len(tlStk') - rewindsize' >= LastIndex /\ Len(tlStk') - rewindsize' \in Int
  BY <1>1, <1>4 DEF LastIndex
<1>8. Covers(Len(tlStk') - rewindsize', At("body"))
  BY <1>2, <1>3, <1>7 DEF Covers
<1> QED
  BY <1>1, <1>2, <1>5, <1>6, <1>8, TopStep

LEMMA PushSimpleStep ==
  ASSUME Inv, status = "running", PushSimple
  PROVE  Inv'
<1> DEFINE pc == IF Constructed(PushedTag) THEN "body" ELSE "octets"
           g  == [top EXCEPT !.open = 1, !.pc = pc]
<1>1. /\ top.fn = "simple" /\ top.pc = "tags" /\ CanPush
      /\ tlStk' = Pushed.stk /\ rewindsize' = Pushed.rw /\ pos' = Pushed.pos
      /\ frames' = Update(g) /\ ret' = "none" /\ Unmoved
  BY DEF PushSimple
<1>2. /\ top \in Frame /\ FrameOK(top, tlStk) /\ Covers(LastIndex, top)
      /\ top.base \in Nat /\ top.open \in Nat /\ LastIndex \in Nat
  BY RunningFacts
<1>3. LastIndex = top.base
  BY <1>1, <1>2 DEF Covers, FrameOK
<1>4. /\ StackOK(pos', tlStk', rewindsize') /\ Len(tlStk') - rewindsize' = LastIndex + 1
      /\ AgreeTo(LastIndex, tlStk, tlStk')
  BY <1>1, PushFacts
<1>5. pc \in {"body", "octets"}
  OBVIOUS
<1> HIDE DEF pc
<1>6. /\ g \in Frame /\ g.open = 1 /\ g.base = top.base /\ g.pc = pc
      /\ g.i = top.i /\ g.fn = "simple"
  BY <1>1, <1>2, <1>5 DEF Frame
<1> HIDE DEF g
<1>7. FrameOK(g, tlStk')
  BY <1>2, <1>5, <1>6 DEF FrameOK, OwnTagsOpen
<1>8. Covers(Len(tlStk') - rewindsize', g)
  BY <1>2, <1>3, <1>4, <1>5, <1>6 DEF Covers
<1> QED
  BY <1>1, <1>3, <1>4, <1>6, <1>7, <1>8, TopStep

-----------------------------------------------------------------------------
(* The bodies.                                                             *)

\* A step that only moves the running call on.
LEMMA MovesOn ==
  ASSUME Inv, status = "running", NEW pc \in {"body", "pop"},
         frames' = Update(At(pc)), ret' = "none", Unread, Unmoved
  PROVE  Inv'
<1>1. /\ FrameOK(At(pc), tlStk) /\ At(pc).base = top.base /\ Covers(LastIndex, At(pc))
      /\ StackOK(pos, tlStk, rewindsize)
  BY TopAt, RunningFacts
<1>2. tlStk' = tlStk /\ rewindsize' = rewindsize /\ pos' = pos
  BY DEF Unread
<1>3. StackOK(pos', tlStk', rewindsize')
  BY <1>1, <1>2 DEF StackOK, Unmoved
<1>4. AgreeTo(top.base, tlStk, tlStk') /\ Covers(Len(tlStk') - rewindsize', At(pc))
  BY <1>1, <1>2 DEF AgreeTo, LastIndex
<1> QED
  BY <1>1, <1>2, <1>3, <1>4, TopStep

LEMMA NewTypeFrame ==
  ASSUME Inv, status = "running", NEW t \in Type, NEW implicit \in BOOLEAN
  PROVE  /\ FrameOK(TypeFrame(t, implicit), tlStk)
         /\ TypeFrame(t, implicit).base = LastIndex /\ TypeFrame(t, implicit).open = 0
<1> DEFINE g == TypeFrame(t, implicit)
<1>1. LastIndex \in Nat
  BY RunningFacts
<1>2. /\ g \in Frame /\ g.i = 1 /\ g.pc = "tags" /\ g.fn = "type"
      /\ g.open = 0 /\ g.base = LastIndex
  BY <1>1 DEF TypeFrame, Frame, LastIndex
<1> HIDE DEF g
<1>3. Len(Own(g)) \in Nat
  BY <1>2, OwnTags
<1>4. FrameOK(g, tlStk)
  BY <1>2, <1>3 DEF FrameOK, OwnTagsOpen
<1> QED
  BY <1>2, <1>4 DEF g

LEMMA NewSimpleFrame ==
  ASSUME Inv, status = "running"
  PROVE  FrameOK(SimpleFrame, tlStk) /\ SimpleFrame.base = LastIndex /\ SimpleFrame.open = 0
<1>1. LastIndex \in Nat /\ Root \in Type
  BY RunningFacts, TableAssumption
<1>2. /\ SimpleFrame \in Frame /\ SimpleFrame.i = 1 /\ SimpleFrame.pc = "tags"
      /\ SimpleFrame.fn = "simple" /\ SimpleFrame.open = 0 /\ SimpleFrame.base = LastIndex
  BY <1>1 DEF SimpleFrame, Frame, LastIndex
<1> QED
  BY <1>2 DEF FrameOK, OwnTagsOpen

LEMMA DecodeElmtStep ==
  ASSUME Inv, status = "running", NEW t \in Type, DecodeElmt(t)
  PROVE  Inv'
<1>1. Call(TypeFrame(t, FALSE)) /\ Unread /\ Unmoved
  BY DEF DecodeElmt
<1>2. /\ FrameOK(TypeFrame(t, FALSE), tlStk)
      /\ TypeFrame(t, FALSE).base = LastIndex /\ TypeFrame(t, FALSE).open = 0
  BY NewTypeFrame
<1> QED
  BY <1>1, <1>2, CallStep

LEMMA DecodeSimpleStep ==
  ASSUME Inv, status = "running", DecodeSimple
  PROVE  Inv'
<1>1. Call(SimpleFrame) /\ Unread /\ Unmoved
  BY DEF DecodeSimple
<1> QED
  BY <1>1, NewSimpleFrame, CallStep

LEMMA BodyEndsStep ==
  ASSUME Inv, status = "running", BodyEnds
  PROVE  Inv'
BY MovesOn DEF BodyEnds

\* The types below the running call's are types of the table.
LEMMA TopTypes ==
  ASSUME Inv, status = "running"
  PROVE  /\ top.type \in Type /\ top.implicit \in BOOLEAN /\ top.i \in Nat \ {0}
         /\ elmts \in Seq(Type) /\ Len(elmts) \in Nat
         /\ \A k \in 1..Len(elmts) : elmts[k] \in Type
         /\ Def[top.type].to \in Type /\ Def[top.type].implicit \in BOOLEAN
<1>1. top \in Frame /\ top.i >= 1
  BY RunningFacts DEF FrameOK
<1>2. top.type \in Type /\ top.implicit \in BOOLEAN /\ top.i \in Nat
  BY <1>1 DEF Frame
<1>3. /\ elmts \in Seq(Type) /\ Def[top.type].to \in Type
      /\ Def[top.type].implicit \in BOOLEAN
  BY <1>2, TypesOfTable DEF elmts
<1>4. Len(elmts) \in Nat /\ \A k \in 1..Len(elmts) : elmts[k] \in Type
  BY <1>3
<1> QED
  BY <1>1, <1>2, <1>3, <1>4

LEMMA DecodeRefStep ==
  ASSUME Inv, status = "running", DecodeRef
  PROVE  Inv'
<1> DEFINE t == Def[top.type].to
           implicit == ImplicitRef(top.type, top.implicit)
<1>1. t \in Type /\ implicit \in BOOLEAN
  BY TopTypes DEF ImplicitRef
<1>2. Call(TypeFrame(t, implicit)) /\ Unread /\ Unmoved
  BY DEF DecodeRef
<1> HIDE DEF t, implicit
<1>3. /\ FrameOK(TypeFrame(t, implicit), tlStk)
      /\ TypeFrame(t, implicit).base = LastIndex /\ TypeFrame(t, implicit).open = 0
  BY <1>1, NewTypeFrame
<1> QED
  BY <1>2, <1>3, CallStep

LEMMA IndexMoved ==
  ASSUME NEW f, f \in Frame, NEW g, g = [f EXCEPT !.i = @ + 1]
  PROVE  /\ g \in Frame /\ g.i = f.i + 1 /\ g.pc = f.pc /\ g.fn = f.fn
         /\ g.base = f.base /\ g.open = f.open
         /\ g.type = f.type /\ g.implicit = f.implicit
BY DEF Frame

LEMMA PlaceMoved ==
  ASSUME NEW f, f \in Frame, NEW pc \in {"body", "await", "pop"},
         NEW g, g = [f EXCEPT !.pc = pc]
  PROVE  /\ g \in Frame /\ g.i = f.i /\ g.pc = pc /\ g.fn = f.fn
         /\ g.base = f.base /\ g.open = f.open
         /\ g.type = f.type /\ g.implicit = f.implicit
BY DEF Frame

\* The running call moves on to its next element.
LEMMA NextElmt ==
  ASSUME Inv, status = "running", NEW g,
         \/ top.fn = "type" /\ top.pc = "body" /\ g = [top EXCEPT !.i = @ + 1]
         \/ top.fn = "type" /\ g = [At("body") EXCEPT !.i = @ + 1],
         frames' = Update(g), ret' = "none", Unread, Unmoved
  PROVE  Inv'
<1>1. /\ top \in Frame /\ FrameOK(top, tlStk) /\ Covers(LastIndex, top)
      /\ StackOK(pos, tlStk, rewindsize) /\ top.i \in Nat
  BY RunningFacts, FrameNumbers
<1>2. /\ g \in Frame /\ g.i = top.i + 1 /\ g.pc = "body" /\ g.fn = "type"
      /\ g.base = top.base /\ g.open = top.open
      /\ g.type = top.type /\ g.implicit = top.implicit /\ top.fn = "type"
  <2>1. CASE top.fn = "type" /\ top.pc = "body" /\ g = [top EXCEPT !.i = @ + 1]
    BY <1>1, <2>1, IndexMoved
  <2>2. CASE top.fn = "type" /\ g = [At("body") EXCEPT !.i = @ + 1]
    <3>1. /\ At("body") \in Frame /\ At("body").i = top.i /\ At("body").pc = "body"
          /\ At("body").fn = top.fn /\ At("body").base = top.base /\ At("body").open = top.open
          /\ At("body").type = top.type /\ At("body").implicit = top.implicit
      BY <1>1, PlaceMoved DEF At
    <3> QED
      BY <2>2, <3>1, IndexMoved
  <2> QED
    BY <2>1, <2>2
<1>3. tlStk' = tlStk /\ rewindsize' = rewindsize /\ pos' = pos
  BY DEF Unread
<1>4. StackOK(pos', tlStk', rewindsize')
  BY <1>1, <1>3 DEF StackOK, Unmoved
<1>5. FrameOK(g, tlStk')
  <2>1. Own(g) = Own(top)
    BY <1>2 DEF Own
  <2> QED
    BY <1>1, <1>2, <1>3, <2>1 DEF FrameOK, OwnTagsOpen
<1>6. AgreeTo(top.base, tlStk, tlStk') /\ Covers(Len(tlStk') - rewindsize', g)
  BY <1>1, <1>2, <1>3 DEF AgreeTo, LastIndex, Covers
<1> QED
  BY <1>2, <1>3, <1>4, <1>5, <1>6, TopStep

LEMMA SequenceElmtStep ==
  ASSUME Inv, status = "running", SequenceElmt
  PROVE  Inv'
<1>1. elmts[top.i] \in Type
  BY TopTypes DEF SequenceElmt
<1>2. CASE DecodeElmt(elmts[top.i])
  BY <1>1, <1>2, DecodeElmtStep
<1>3. CASE /\ frames' = Update([top EXCEPT !.i = @ + 1])
           /\ ret' = "none" /\ Unread /\ Unmoved
  <2>1. top.fn = "type" /\ top.pc = "body"
    BY DEF SequenceElmt, Body
  <2> QED
    BY <1>3, <2>1, NextElmt
<1> QED
  BY <1>2, <1>3 DEF SequenceElmt

LEMMA SequenceRestStep ==
  ASSUME Inv, status = "running", SequenceRest
  PROVE  Inv'
BY DecodeSimpleStep, BodyEndsStep DEF SequenceRest

\* The steps of a SET and a CHOICE.
LEMMA MatchingElmt ==
  ASSUME Inv, status = "running", NEW tag, NEW i \in FirstMatch(top.type, tag)
  PROVE  elmts[i] \in Type
<1>1. i \in 1..Len(elmts)
  BY TopTypes DEF FirstMatch, Matching, elmts
<1> QED
  BY <1>1, TopTypes

LEMMA SetElmtStep ==
  ASSUME Inv, status = "running", SetElmt
  PROVE  Inv'
<1>1. CASE \E tag \in PeekedTags : \E i \in FirstMatch(top.type, tag) : DecodeElmt(elmts[i])
  BY <1>1, MatchingElmt, DecodeElmtStep
<1>2. CASE DecodeSimple \/ BodyEnds
  BY <1>2, DecodeSimpleStep, BodyEndsStep
<1>3. \/ \E tag \in PeekedTags : \E i \in FirstMatch(top.type, tag) : DecodeElmt(elmts[i])
      \/ DecodeSimple \/ BodyEnds
  BY DEF SetElmt
<1> QED
  BY <1>1, <1>2, <1>3

LEMMA DecodeChoiceStep ==
  ASSUME Inv, status = "running", DecodeChoice
  PROVE  Inv'
<1>1. CASE \E tag \in PeekedTags : \E i \in FirstMatch(top.type, tag) : DecodeElmt(elmts[i])
  BY <1>1, MatchingElmt, DecodeElmtStep
<1>2. CASE DecodeSimple
  BY <1>2, DecodeSimpleStep
<1>3. \/ \E tag \in PeekedTags : \E i \in FirstMatch(top.type, tag) : DecodeElmt(elmts[i])
      \/ DecodeSimple
  BY DEF DecodeChoice
<1> QED
  BY <1>1, <1>2, <1>3

LEMMA ListElmtStep ==
  ASSUME Inv, status = "running", ListElmt
  PROVE  Inv'
<1>1. elmts[1] \in Type
  <2>1. elmts # <<>>
    BY TopTypes, TableAssumption DEF ListElmt, Body, kind, elmts
  <2>2. 1 \in 1..Len(elmts)
    BY <2>1, TopTypes
  <2> QED
    BY <2>2, TopTypes
<1>2. CASE DecodeElmt(elmts[1])
  BY <1>1, <1>2, DecodeElmtStep
<1>3. CASE BodyEnds
  BY <1>3, BodyEndsStep
<1> QED
  BY <1>2, <1>3 DEF ListElmt

\* The content of the innermost tag was read: LastLen bytes are counted.
LEMMA ContentRead ==
  ASSUME Inv, status = "running", LastLen \in Nat, pos' \in 0..Len(input),
         UNCHANGED <<tlStk, rewindsize>>, Unmoved, ret' = "none",
         frames' = Update([At("pop") EXCEPT !.bytes = LastLen])
  PROVE  Inv'
<1> DEFINE g == [At("pop") EXCEPT !.bytes = LastLen]
<1>1. /\ FrameOK(At("pop"), tlStk) /\ At("pop").base = top.base /\ At("pop").pc = "pop"
      /\ Covers(LastIndex, At("pop")) /\ StackOK(pos, tlStk, rewindsize)
  BY TopAt, RunningFacts
<1>2. At("pop") \in Frame
  BY <1>1 DEF FrameOK
<1>3. /\ g \in Frame /\ g.i = At("pop").i /\ g.pc = "pop" /\ g.fn = At("pop").fn
      /\ g.base = top.base /\ g.open = At("pop").open
      /\ g.type = At("pop").type /\ g.implicit = At("pop").implicit
  <2> HIDE DEF At
  <2> QED
    BY <1>1, <1>2 DEF Frame
<1> HIDE DEF g
<1>4. FrameOK(g, tlStk)
  BY <1>1, <1>3 DEF FrameOK, OwnTagsOpen, Own
<1>5. StackOK(pos', tlStk', rewindsize')
  BY <1>1 DEF StackOK, Unmoved
<1>6. AgreeTo(top.base, tlStk, tlStk') /\ Covers(Len(tlStk') - rewindsize', g)
  BY <1>1, <1>3 DEF AgreeTo, LastIndex, Covers
<1>7. frames' = Update(g)
  BY DEF g
<1> QED
  BY <1>3, <1>4, <1>5, <1>6, <1>7, TopStep

LEMMA DecodeContentStep ==
  ASSUME Inv, status = "running", DecodeContent
  PROVE  Inv'
<1>1. CASE Longjmp("failed")
  BY <1>1, LongjmpStep
<1>2. CASE /\ ContentDecodes(kind, LastLen, Len(input) - pos)
           /\ pos' = pos + ContentOctets(kind, LastLen)
           /\ frames' = Update([At("pop") EXCEPT !.bytes = LastLen])
           /\ ret' = "none" /\ UNCHANGED <<tlStk, rewindsize>> /\ Unmoved
  <2>1. LastLen \in Nat
    BY <1>2 DEF ContentDecodes, DecodeContent
  <2>2. pos \in Nat /\ pos <= Len(input) /\ Len(input) \in Nat
    BY RunningFacts DEF StackOK
  <2>3. ContentOctets(kind, LastLen) \in Nat /\ ContentOctets(kind, LastLen) <= Len(input) - pos
    BY <1>2, <2>1 DEF ContentDecodes, ContentOctets
  <2>4. pos' \in 0..Len(input)
    BY <1>2, <2>2, <2>3
  <2> QED
    BY <1>2, <2>1, <2>4, ContentRead
<1> QED
  BY <1>1, <1>2 DEF DecodeContent

LEMMA SimpleBodyStep ==
  ASSUME Inv, status = "running", SimpleBody
  PROVE  Inv'
BY DecodeSimpleStep, BodyEndsStep DEF SimpleBody

\* With a tag open there is an innermost one, of a length in range.
LEMMA InnermostTag ==
  ASSUME Inv, status = "running", top.open > 0
  PROVE  /\ LastIndex \in 1..Len(tlStk) /\ top.base + top.open <= LastIndex
         /\ LastLen \in Int /\ LastLen >= Indefinite
<1>1. /\ LastIndex \in 0..Len(tlStk) /\ top.base + top.open <= LastIndex
      /\ top.base \in Nat /\ top.open \in Nat
  BY RunningFacts DEF Covers
<1>2. tlStk \in Seq(TagNLen) /\ Len(tlStk) \in Nat
  BY RunningFacts DEF StackOK
<1>3. LastIndex \in 1..Len(tlStk)
  BY <1>1, <1>2
<1>4. tlStk[LastIndex] \in TagNLen
  BY <1>2, <1>3
<1> QED
  BY <1>1, <1>3, <1>4, LengthsOfTags DEF LastLen

LEMMA SimpleOctetsStep ==
  ASSUME Inv, status = "running", SimpleOctets
  PROVE  Inv'
<1>1. CASE Longjmp("failed")
  BY <1>1, LongjmpStep
<1>2. CASE /\ LastLen # Indefinite
           /\ pos' = pos + AtMost(LastLen, Len(input) - pos)
           /\ frames' = Update([At("pop") EXCEPT !.bytes = LastLen])
           /\ ret' = "none" /\ UNCHANGED <<tlStk, rewindsize>> /\ Unmoved
  <2>1. top.open = 1
    BY RunningFacts DEF SimpleOctets, FrameOK
  <2>2. LastLen \in Int /\ LastLen >= Indefinite
    BY <2>1, InnermostTag
  <2>3. LastLen \in Nat
    BY <1>2, <2>2 DEF Indefinite
  <2>4. pos \in Nat /\ pos <= Len(input) /\ Len(input) \in Nat
    BY RunningFacts DEF StackOK
  <2>5. pos' \in 0..Len(input)
    BY <1>2, <2>3, <2>4 DEF AtMost
  <2> QED
    BY <1>2, <2>3, <2>5, ContentRead
<1> QED
  BY <1>1, <1>2 DEF SimpleOctets

-----------------------------------------------------------------------------
(* Returns.                                                                *)

LEMMA CalleeDecodedStep ==
  ASSUME Inv, status = "running", CalleeDecoded
  PROVE  Inv'
<1>1. ret' = "none" /\ Unread /\ Unmoved
  BY DEF CalleeDecoded
<1>2. \/ frames' = Update(At("pop"))
      \/ top.fn = "type" /\ frames' = Update([At("body") EXCEPT !.i = @ + 1])
      \/ frames' = Update(At("body"))
  BY DEF CalleeDecoded
<1>3. CASE frames' = Update(At("pop"))
  BY <1>1, <1>3, MovesOn
<1>4. CASE top.fn = "type" /\ frames' = Update([At("body") EXCEPT !.i = @ + 1])
  BY <1>1, <1>4, NextElmt
<1>5. CASE frames' = Update(At("body"))
  BY <1>1, <1>5, MovesOn
<1> QED
  BY <1>2, <1>3, <1>4, <1>5

LEMMA CalleeRefusedStep ==
  ASSUME Inv, status = "running", CalleeRefused
  PROVE  Inv'
<1>1. CASE DecodeSimple
  BY <1>1, DecodeSimpleStep
<1>2. CASE frames' = Update(At("body")) /\ ret' = "none" /\ Unread /\ Unmoved
  BY <1>2, MovesOn
<1> QED
  BY <1>1, <1>2 DEF CalleeRefused

LEMMA PopTagStep ==
  ASSUME Inv, status = "running", PopTag
  PROVE  Inv'
<1> DEFINE eoc == IF LastLen = Indefinite THEN EocSize ELSE 0
           g   == [top EXCEPT !.open = @ - 1, !.bytes = @ + TLSize + eoc]
           stk == SubSeq(tlStk, 1, Len(tlStk) - 1)
<1>1. /\ top.pc = "pop" /\ top.open > 0
      /\ IF LastLen = Indefinite THEN HasEoc(input, pos) ELSE top.bytes = LastLen
      /\ pos' = IF LastLen = Indefinite THEN pos + EocSize ELSE pos
      /\ frames' = Update(g) /\ tlStk' = stk
      /\ ret' = "none" /\ rewindsize' = rewindsize /\ Unmoved
  BY DEF PopTag
<1>2. /\ top \in Frame /\ FrameOK(top, tlStk) /\ StackOK(pos, tlStk, rewindsize)
      /\ top.base \in Nat /\ top.open \in Nat /\ top.bytes \in Nat
  BY RunningFacts
<1>3. LastIndex \in 1..Len(tlStk) /\ top.base + top.open <= LastIndex
  BY <1>1, InnermostTag
<1>4. /\ tlStk \in Seq(TagNLen) /\ Len(tlStk) \in Nat \ {0} /\ Len(tlStk) <= StkSize
      /\ rewindsize \in Nat /\ StkSize \in Nat
  BY <1>2, <1>3, DecoderAssumption DEF StackOK
<1>5. /\ stk \in Seq(TagNLen) /\ Len(stk) = Len(tlStk) - 1
      /\ AgreeTo(Len(tlStk) - 1, tlStk, stk)
  <2>1. Len(tlStk) - 1 \in Nat /\ Len(tlStk) - 1 <= Len(tlStk)
    BY <1>4
  <2> QED
    BY <1>4, <2>1, LastDropped
<1> HIDE DEF stk
<1>6. pos' \in 0..Len(input)
  <2>1. pos \in Nat /\ pos <= Len(input) /\ Len(input) \in Nat
    BY <1>2 DEF StackOK
  <2> QED
    BY <1>1, <2>1 DEF HasEoc, EocSize
<1>7. rewindsize \in 0..Len(stk) /\ Len(stk) - rewindsize = LastIndex - 1
  BY <1>3, <1>4, <1>5 DEF LastIndex
<1>8. StackOK(pos', tlStk', rewindsize')
  BY <1>1, <1>2, <1>4, <1>5, <1>6, <1>7 DEF StackOK, Unmoved
<1>9. eoc \in Nat /\ TLSize \in Nat
  BY DEF EocSize, TLSize
<1> HIDE DEF eoc
<1>10. /\ g \in Frame /\ g.open = top.open - 1 /\ g.base = top.base /\ g.pc = "pop"
       /\ g.i = top.i /\ g.fn = top.fn /\ g.type = top.type /\ g.implicit = top.implicit
  <2> DEFINE open  == top.open - 1
             bytes == top.bytes + TLSize + eoc
  <2>1. open \in Nat /\ bytes \in Nat
    BY <1>1, <1>2, <1>9
  <2>2. g = [top EXCEPT !.open = open, !.bytes = bytes]
    OBVIOUS
  <2> HIDE DEF open, bytes, g
  <2>3. /\ g \in Frame /\ g.open = open /\ g.base = top.base /\ g.pc = top.pc
        /\ g.i = top.i /\ g.fn = top.fn /\ g.type = top.type /\ g.implicit = top.implicit
    BY <1>2, <2>1, <2>2 DEF Frame
  <2> QED
    BY <1>1, <2>3 DEF open
<1> HIDE DEF g
<1>11. \A k \in 1..(top.base + top.open - 1) : stk[k] = tlStk[k]
  <2>1. \A k \in 1..(top.base + top.open - 1) : k \in 1..(Len(tlStk) - 1)
    BY <1>2, <1>3, <1>4
  <2> QED
    BY <1>5, <2>1 DEF AgreeTo
<1>12. FrameOK(g, stk)
  <2>1. Own(g) = Own(top)
    BY <1>10 DEF Own
  <2>2. ASSUME g.fn = "type"
        PROVE  g.open <= Len(Own(g)) /\ \A k \in 1..g.open : stk[g.base + k].tag = Own(g)[k]
    <3>1. top.open <= Len(Own(top)) /\ Len(Own(top)) \in Nat
          /\ \A k \in 1..top.open : tlStk[top.base + k].tag = Own(top)[k]
      BY <1>2, <1>10, <2>2, OwnTags DEF FrameOK, OwnTagsOpen
    <3>2. ASSUME NEW k \in 1..g.open PROVE stk[g.base + k].tag = Own(g)[k]
      <4>1. k \in 1..top.open /\ top.base + k \in 1..(top.base + top.open - 1)
        BY <1>2, <1>10
      <4>2. stk[top.base + k] = tlStk[top.base + k]
        BY <1>11, <4>1
      <4> QED
        BY <1>10, <2>1, <3>1, <4>1, <4>2
    <3> QED
      BY <1>2, <1>10, <2>1, <3>1, <3>2
  <2> QED
    BY <1>2, <1>10, <2>2 DEF FrameOK, OwnTagsOpen
<1>13. AgreeTo(top.base, tlStk, tlStk')
  BY <1>1, <1>2, <1>11 DEF AgreeTo
<1>14. Covers(Len(tlStk') - rewindsize', g)
  BY <1>1, <1>2, <1>3, <1>7, <1>10 DEF Covers
<1> QED
  BY <1>1, <1>8, <1>10, <1>12, <1>13, <1>14, TopStep

LEMMA PopReturnsStep ==
  ASSUME Inv, status = "running", PopReturns
  PROVE  Inv'
<1>1. Return("true", top.bytes) /\ Unread
  BY DEF PopReturns
<1>2. /\ StackOK(pos, tlStk, rewindsize) /\ top.bytes \in Nat /\ LastIndex >= top.base
      /\ top.base \in Nat
  <2>1. /\ StackOK(pos, tlStk, rewindsize) /\ top.bytes \in Nat /\ Covers(LastIndex, top)
        /\ top.base \in Nat /\ top.open \in Nat /\ LastIndex \in Nat
    BY RunningFacts
  <2> QED
    BY <2>1 DEF Covers
<1>3. tlStk' = tlStk /\ rewindsize' = rewindsize /\ pos' = pos
  BY <1>1 DEF Unread
<1>4. StackOK(pos', tlStk', rewindsize')
  BY <1>2, <1>3 DEF StackOK, Return
<1>5. AgreeTo(top.base, tlStk, tlStk') /\ Len(tlStk') - rewindsize' >= top.base
  BY <1>2, <1>3 DEF AgreeTo, LastIndex
<1> QED
  BY <1>1, <1>2, <1>4, <1>5, ReturnStep

-----------------------------------------------------------------------------
(* The theorems.                                                           *)

LEMMA InvInitially ==
  ASSUME Init PROVE Inv
<1> DEFINE g == TypeFrame(Root, FALSE)
<1>1. /\ input \in Seq(Octet) /\ pos = 0 /\ tlStk = <<>> /\ rewindsize = 0
      /\ bytesDecoded = 0 /\ frames = <<g>> /\ ret = "none" /\ status = "running"
      /\ StkSize \in Nat /\ Root \in Type
  BY DecoderAssumption, TableAssumption DEF Init
<1>2. Len(tlStk) = 0 /\ tlStk \in Seq(TagNLen) /\ LastIndex = 0 /\ Len(input) \in Nat
  BY <1>1 DEF LastIndex
<1>3. /\ g \in Frame /\ g.i = 1 /\ g.pc = "tags" /\ g.fn = "type"
      /\ g.open = 0 /\ g.base = 0
  BY <1>1, <1>2 DEF TypeFrame, Frame
<1> HIDE DEF g
<1>4. FrameOK(g, tlStk)
  <2>1. Len(Own(g)) \in Nat
    BY <1>3, OwnTags
  <2> QED
    BY <1>3, <2>1 DEF FrameOK, OwnTagsOpen
<1>5. frames \in Seq(Frame) /\ frames # <<>> /\ Len(frames) = 1 /\ frames[1] = g
  BY <1>1, <1>3
<1>6. CallsOK(frames, tlStk)
  BY <1>4, <1>5 DEF CallsOK
<1>7. TypeOK
  BY <1>1, <1>2, <1>5 DEF TypeOK
<1>8. Covers(LastIndex, top)
  BY <1>2, <1>3, <1>5 DEF Covers, top
<1> QED
  BY <1>6, <1>7, <1>8 DEF Inv

LEMMA InvPreserved ==
  ASSUME Inv, [Next]_vars PROVE Inv'
<1>1. CASE UNCHANGED vars
  BY <1>1 DEF vars, Inv, TypeOK, CallsOK, FrameOK, OwnTagsOpen, Covers, LastIndex, top, Own
<1>2. CASE CallbackStops
  BY <1>2, LongjmpStep DEF CallbackStops
<1>3. CASE status = "running" /\ Tags
  <2>1. CASE PushFails
    BY <1>3, <2>1, LongjmpStep DEF PushFails
  <2> QED
    BY <1>3, <2>1, PushMatchesStep, PushMismatchesStep, AllPushedStep, PushSimpleStep DEF Tags
<1>4. CASE status = "running" /\ Bodies
  BY <1>4, DecodeRefStep, SequenceElmtStep, SequenceRestStep, SetElmtStep, ListElmtStep,
     DecodeChoiceStep, DecodeContentStep, SimpleBodyStep, SimpleOctetsStep DEF Bodies
<1>5. CASE status = "running" /\ Returns
  <2>1. CASE PopFails
    BY <1>5, <2>1, LongjmpStep DEF PopFails
  <2> QED
    BY <1>5, <2>1, CalleeDecodedStep, CalleeRefusedStep, PopTagStep, PopReturnsStep DEF Returns
<1> QED
  BY <1>1, <1>2, <1>3, <1>4, <1>5 DEF Next, Step

LEMMA InvAlways == Spec => []Inv
<1>1. Init => Inv
  BY InvInitially
<1>2. Inv /\ [Next]_vars => Inv'
  BY InvPreserved
<1> QED
  BY <1>1, <1>2, PTL DEF Spec

LEMMA InvInPlace ==
  ASSUME Inv PROVE TagsInPlace
<1>1. ASSUME status = "running"
      PROVE  /\ top.base + top.open <= LastIndex
             /\ \A n \in DOMAIN frames :
                  /\ n < Len(frames) =>
                       frames[n].base + frames[n].open <= frames[n + 1].base
                  /\ OwnTagsOpen(frames[n], tlStk)
  <2>1. /\ frames \in Seq(Frame) /\ CallsOK(frames, tlStk) /\ Covers(LastIndex, top)
        /\ Len(frames) \in Nat
    BY <1>1, RunningFacts DEF Active
  <2>2. ASSUME NEW n \in DOMAIN frames
        PROVE  /\ n < Len(frames) =>
                    frames[n].base + frames[n].open <= frames[n + 1].base
               /\ OwnTagsOpen(frames[n], tlStk)
    <3>1. n \in 1..Len(frames)
      BY <2>1
    <3>2. ASSUME n < Len(frames)
          PROVE  n + 1 \in 1..Len(frames) /\ n \in 1..(n + 1 - 1)
      BY <2>1, <3>1, <3>2
    <3> QED
      BY <2>1, <3>1, <3>2 DEF CallsOK, FrameOK
  <2> QED
    BY <2>1, <2>2 DEF Covers
<1> QED
  BY <1>1 DEF TagsInPlace, OwnTagsOpen, Own

(* On every buffer the stack of tags keeps its bounds, what is to be read  *)
(* again is on it, the buffer is not left, and no count of bytes or tags   *)
(* goes below zero (TDEPushTag, TDEPopTag, TDEPushTagsAndLens).            *)
THEOREM TblGenTypeCorrect == Spec => []TypeOK
<1>1. Inv => TypeOK
  BY DEF Inv
<1> QED
  BY <1>1, InvAlways, PTL

(* No call in progress loses a tag it has open, however its elements and   *)
(* theirs are refused and tags are read again (TDEPushTagsAndLens).        *)
THEOREM OpenTagsStayInPlace == Spec => []TagsInPlace
<1>1. Inv => TagsInPlace
  BY InvInPlace
<1> QED
  BY <1>1, InvAlways, PTL

-----------------------------------------------------------------------------
(* Tables whose types have one tag each.                                   *)

\* As in a module of IMPLICIT TAGS, where only a reference with a tag of its own
\* is implicit.
OneTagEach ==
  \A t \in Type : /\ Len(Def[t].tags) <= 1
                  /\ Def[t].implicit => Def[t].tags # <<>>

\* No tag waits to be read again when f takes all tags of its type as read: after
\* the only one, or where the tag of an implicit reference stands for it.
Ready(f, rw) ==
  rw # 0 /\ f.fn = "type" =>
    /\ f.pc = "tags" => f.open = 0 /\ ~f.implicit
    /\ f.pc = "body" /\ Def[f.type].kind = "ref" => ~ImplicitRef(f.type, f.implicit)

\* The tags of the calls follow one another.
Adjoin(fs) ==
  /\ fs[1].base = 0
  /\ \A n \in 1..(Len(fs) - 1) : fs[n + 1].base = fs[n].base + fs[n].open

\* The stack up to "last" is the tags of the calls, and at most one is pending.
Tight(fs, last, rw) ==
  /\ Adjoin(fs)
  /\ last = fs[Len(fs)].base + fs[Len(fs)].open
  /\ rw <= 1 /\ Ready(fs[Len(fs)], rw)

TightInv == Inv /\ (status = "running" => Tight(frames, LastIndex, rewindsize))

LEMMA AdjoinReplaced ==
  ASSUME NEW fs, NEW len \in Nat \ {0}, Len(fs) = len, Adjoin(fs),
         NEW fs2, Len(fs2) = len, fs2[len].base = fs[len].base, AgreeTo(len - 1, fs, fs2)
  PROVE  Adjoin(fs2)
<1>1. fs2[1].base = 0
  BY DEF AgreeTo, Adjoin
<1>2. ASSUME NEW n \in 1..(len - 1) PROVE fs2[n + 1].base = fs2[n].base + fs2[n].open
  <2>1. fs2[n] = fs[n] /\ fs[n + 1].base = fs[n].base + fs[n].open
    BY DEF AgreeTo, Adjoin
  <2>2. CASE n + 1 = len
    BY <2>1, <2>2
  <2>3. CASE n + 1 # len
    <3>1. n + 1 \in 1..(len - 1)
      BY <2>3
    <3> QED
      BY <2>1, <3>1 DEF AgreeTo
  <2> QED
    BY <2>2, <2>3
<1> QED
  BY <1>1, <1>2 DEF Adjoin

LEMMA AdjoinAdded ==
  ASSUME NEW fs, NEW len \in Nat \ {0}, Len(fs) = len, Adjoin(fs),
         NEW fs2, Len(fs2) = len + 1, AgreeTo(len, fs, fs2),
         fs2[len + 1].base = fs[len].base + fs[len].open
  PROVE  Adjoin(fs2)
<1>1. fs2[1].base = 0
  BY DEF AgreeTo, Adjoin
<1>2. ASSUME NEW n \in 1..len PROVE fs2[n + 1].base = fs2[n].base + fs2[n].open
  <2>1. fs2[n] = fs[n]
    BY DEF AgreeTo
  <2>2. CASE n = len
    BY <2>1, <2>2
  <2>3. CASE n # len
    <3>1. n \in 1..(len - 1) /\ n + 1 \in 1..len
      BY <2>3
    <3>2. fs[n + 1].base = fs[n].base + fs[n].open /\ fs2[n + 1] = fs[n + 1]
      BY <3>1 DEF AgreeTo, Adjoin
    <3> QED
      BY <2>1, <3>2
  <2> QED
    BY <2>2, <2>3
<1> QED
  BY <1>1, <1>2 DEF Adjoin

LEMMA AdjoinRemoved ==
  ASSUME NEW fs, NEW n \in Nat \ {0}, Len(fs) = n + 1, Adjoin(fs),
         NEW fs2, Len(fs2) = n, AgreeTo(n, fs, fs2)
  PROVE  Adjoin(fs2)
<1>1. fs2[1].base = 0
  BY DEF AgreeTo, Adjoin
<1>2. ASSUME NEW m \in 1..(n - 1) PROVE fs2[m + 1].base = fs2[m].base + fs2[m].open
  <2>1. m \in 1..n /\ m + 1 \in 1..n
    OBVIOUS
  <2> QED
    BY <2>1 DEF AgreeTo, Adjoin
<1> QED
  BY <1>1, <1>2 DEF Adjoin

\* The running call changes to g.
LEMMA TightTop ==
  ASSUME TightInv, status = "running",
         NEW g, g \in Frame, g.base = top.base, frames' = Update(g),
         NEW last, last = g.base + g.open, NEW rw, rw <= 1, Ready(g, rw)
  PROVE  Tight(frames', last, rw)
<1>1. /\ frames \in Seq(Frame) /\ Len(frames) \in Nat \ {0}
      /\ Adjoin(frames) /\ g.base = frames[Len(frames)].base
  BY RunningFacts DEF TightInv, Tight, Active, top
<1>2. /\ Len(frames') = Len(frames) /\ frames'[Len(frames)] = g
      /\ AgreeTo(Len(frames) - 1, frames, frames')
  BY <1>1 DEF Update, AgreeTo
<1>3. Adjoin(frames')
  BY <1>1, <1>2, AdjoinReplaced
<1> QED
  BY <1>2, <1>3 DEF Tight

\* The running call calls g.
LEMMA TightCall ==
  ASSUME TightInv, status = "running",
         NEW g, g \in Frame, g.base = LastIndex, g.open = 0, Call(g), Ready(g, rewindsize)
  PROVE  Tight(frames', LastIndex, rewindsize)
<1> DEFINE fs == Update(At("await"))
<1>1. /\ frames \in Seq(Frame) /\ Len(frames) \in Nat \ {0} /\ LastIndex \in Nat
      /\ Adjoin(frames) /\ LastIndex = top.base + top.open /\ rewindsize <= 1
  BY RunningFacts DEF TightInv, Tight, Active, top
<1>2. /\ At("await") \in Frame /\ At("await").base = top.base /\ At("await").open = top.open
  BY TopAt DEF TightInv, FrameOK
<1>3. /\ fs \in Seq(Frame) /\ Len(fs) = Len(frames) /\ fs[Len(frames)] = At("await")
      /\ AgreeTo(Len(frames) - 1, frames, fs)
  BY <1>1, <1>2 DEF Update, AgreeTo
<1>4. frames' = Append(fs, g)
  BY DEF Call
<1> HIDE DEF fs
<1>5. Adjoin(fs)
  BY <1>1, <1>2, <1>3, AdjoinReplaced DEF top
<1>6. /\ Len(frames') = Len(frames) + 1 /\ frames'[Len(frames) + 1] = g
      /\ AgreeTo(Len(frames), fs, frames')
  BY <1>1, <1>3, <1>4 DEF AgreeTo
<1>7. g.base = fs[Len(fs)].base + fs[Len(fs)].open
  BY <1>1, <1>2, <1>3
<1>8. Adjoin(frames')
  BY <1>1, <1>3, <1>5, <1>6, <1>7, AdjoinAdded
<1>9. LastIndex = g.base + g.open
  BY <1>1
<1> QED
  BY <1>1, <1>6, <1>8, <1>9 DEF Tight

\* The running call returns, its tags being popped.
LEMMA TightReturn ==
  ASSUME TightInv, status = "running", NEW v, NEW d \in Nat, Return(v, d),
         status' = "running", NEW rw, rw <= 1
  PROVE  Tight(frames', top.base, rw)
<1> DEFINE n       == Len(frames) - 1
           callers == SubSeq(frames, 1, n)
           g       == [frames[n] EXCEPT !.bytes = @ + d]
<1>1. /\ frames \in Seq(Frame) /\ Len(frames) \in Nat \ {0} /\ CallsOK(frames, tlStk)
      /\ Adjoin(frames)
  BY RunningFacts DEF TightInv, Tight, Active
<1>2. n \in Nat /\ Len(frames) = n + 1 /\ n <= Len(frames)
  BY <1>1
<1>3. Len(callers) = n /\ AgreeTo(n, frames, callers) /\ callers \in Seq(Frame)
  BY <1>1, <1>2, LastDropped
<1>4. n # 0 /\ frames' = [callers EXCEPT ![n].bytes = @ + d]
  BY <1>3 DEF Return
<1>5. n \in Nat \ {0} /\ n \in 1..n /\ n \in 1..(n + 1) /\ n < n + 1
  BY <1>2, <1>4
<1>6. frames' = [callers EXCEPT ![n] = g]
  <2>1. callers[n] = frames[n]
    BY <1>3, <1>5 DEF AgreeTo
  <2> HIDE DEF g
  <2>2. frames' = [callers EXCEPT ![n] = [callers[n] EXCEPT !.bytes = @ + d]]
    BY <1>4
  <2> QED
    BY <2>1, <2>2 DEF g
<1> HIDE DEF callers, n
<1>7. frames[n] \in Frame /\ frames[n].pc = "await" /\ frames[n].base + frames[n].open = top.base
  BY <1>1, <1>2, <1>5 DEF CallsOK, FrameOK, Adjoin, top
<1>8. g \in Frame /\ g.base = frames[n].base /\ g.open = frames[n].open /\ g.pc = "await"
  BY <1>7, BytesAdded
<1> HIDE DEF g
<1>9. Len(frames') = n /\ frames'[n] = g /\ AgreeTo(n - 1, callers, frames')
  BY <1>3, <1>5, <1>6, <1>8 DEF AgreeTo
<1>10. Adjoin(callers)
  BY <1>1, <1>2, <1>3, <1>5, AdjoinRemoved
<1>11. callers[n] = frames[n]
  BY <1>3, <1>5 DEF AgreeTo
<1>12. Adjoin(frames')
  BY <1>3, <1>5, <1>8, <1>9, <1>10, <1>11, AdjoinReplaced
<1>13. Ready(g, rw)
  BY <1>8 DEF Ready
<1> QED
  BY <1>7, <1>8, <1>9, <1>12, <1>13 DEF Tight

LEMMA TightFacts ==
  ASSUME TightInv, status = "running"
  PROVE  /\ Inv /\ LastIndex = top.base + top.open /\ rewindsize \in {0, 1}
         /\ Ready(top, rewindsize)
<1>1. Inv /\ LastIndex = top.base + top.open /\ rewindsize <= 1 /\ Ready(top, rewindsize)
  BY DEF TightInv, Tight, top
<1>2. rewindsize \in Nat
  BY <1>1, RunningFacts DEF StackOK
<1> QED
  BY <1>1, <1>2

\* Steps that leave the stack alone.
LEMMA TightMovesOn ==
  ASSUME TightInv, status = "running", NEW pc \in {"body", "pop"},
         frames' = Update(At(pc)), UNCHANGED <<tlStk, rewindsize>>,
         Ready(At(pc), rewindsize)
  PROVE  Tight(frames', LastIndex', rewindsize')
<1>1. /\ At(pc).base = top.base /\ At(pc).open = top.open /\ At(pc) \in Frame
      /\ LastIndex = top.base + top.open /\ rewindsize <= 1
  BY TopAt, TightFacts DEF FrameOK
<1>2. Tight(frames', LastIndex, rewindsize)
  BY <1>1, TightTop
<1> QED
  BY <1>2 DEF LastIndex

LEMMA TightCallStep ==
  ASSUME TightInv, status = "running", Unread,
         NEW g, FrameOK(g, tlStk), g.base = LastIndex, g.open = 0, Call(g), Ready(g, rewindsize)
  PROVE  Tight(frames', LastIndex', rewindsize')
<1>1. Tight(frames', LastIndex, rewindsize)
  BY TightCall DEF FrameOK
<1> QED
  BY <1>1 DEF LastIndex, Unread

LEMMA TightElmt ==
  ASSUME TightInv, status = "running", NEW t \in Type, DecodeElmt(t)
  PROVE  Tight(frames', LastIndex', rewindsize')
<1> DEFINE g == TypeFrame(t, FALSE)
<1>1. Call(g) /\ Unread
  BY DEF DecodeElmt
<1>2. /\ FrameOK(g, tlStk) /\ g.base = LastIndex /\ g.open = 0
  BY NewTypeFrame, TightFacts
<1>3. Ready(g, rewindsize)
  BY DEF Ready, TypeFrame
<1> HIDE DEF g
<1> QED
  BY <1>1, <1>2, <1>3, TightCallStep

LEMMA TightSimple ==
  ASSUME TightInv, status = "running", DecodeSimple
  PROVE  Tight(frames', LastIndex', rewindsize')
<1>1. Call(SimpleFrame) /\ Unread
  BY DEF DecodeSimple
<1>2. /\ FrameOK(SimpleFrame, tlStk) /\ SimpleFrame.base = LastIndex /\ SimpleFrame.open = 0
  BY NewSimpleFrame, TightFacts
<1>3. Ready(SimpleFrame, rewindsize)
  BY DEF Ready, SimpleFrame
<1> QED
  BY <1>1, <1>2, <1>3, TightCallStep

LEMMA PopIsReady ==
  ASSUME TightInv, status = "running", NEW rw
  PROVE  Ready(At("pop"), rw)
<1>1. At("pop").pc = "pop"
  BY TopAt, TightFacts
<1> QED
  BY <1>1 DEF Ready

LEMMA TightBodyEnds ==
  ASSUME TightInv, status = "running", BodyEnds
  PROVE  Tight(frames', LastIndex', rewindsize')
BY PopIsReady, TightMovesOn DEF BodyEnds, Unread

LEMMA TightRef ==
  ASSUME TightInv, status = "running", DecodeRef
  PROVE  Tight(frames', LastIndex', rewindsize')
<1> DEFINE t == Def[top.type].to
           implicit == ImplicitRef(top.type, top.implicit)
           g == TypeFrame(t, implicit)
<1>1. t \in Type /\ implicit \in BOOLEAN
  BY TopTypes, TightFacts DEF ImplicitRef
<1>2. Call(g) /\ Unread
  BY DEF DecodeRef
<1>3. rewindsize # 0 => ~implicit
  BY TightFacts DEF Ready, DecodeRef, Body, kind
<1> HIDE DEF t, implicit
<1>4. /\ FrameOK(g, tlStk) /\ g.base = LastIndex /\ g.open = 0
  BY <1>1, NewTypeFrame, TightFacts
<1>5. Ready(g, rewindsize)
  BY <1>3 DEF Ready, TypeFrame
<1> HIDE DEF g
<1> QED
  BY <1>2, <1>4, <1>5, TightCallStep

LEMMA TightNextElmt ==
  ASSUME TightInv, status = "running", kind = "seq", NEW g,
         \/ top.pc = "body" /\ g = [top EXCEPT !.i = @ + 1]
         \/ g = [At("body") EXCEPT !.i = @ + 1],
         frames' = Update(g), Unread
  PROVE  Tight(frames', LastIndex', rewindsize')
<1>1. /\ top \in Frame /\ top.i \in Nat /\ LastIndex = top.base + top.open /\ rewindsize <= 1
  BY RunningFacts, FrameNumbers, TightFacts
<1>2. /\ g \in Frame /\ g.pc = "body" /\ g.base = top.base /\ g.open = top.open
      /\ g.type = top.type
  <2>1. CASE top.pc = "body" /\ g = [top EXCEPT !.i = @ + 1]
    BY <1>1, <2>1, IndexMoved
  <2>2. CASE g = [At("body") EXCEPT !.i = @ + 1]
    <3>1. /\ At("body") \in Frame /\ At("body").pc = "body"
          /\ At("body").base = top.base /\ At("body").open = top.open
          /\ At("body").type = top.type
      BY <1>1, PlaceMoved DEF At
    <3> QED
      BY <2>2, <3>1, IndexMoved
  <2> QED
    BY <2>1, <2>2
<1>3. Ready(g, rewindsize)
  BY <1>2 DEF Ready, kind
<1>4. Tight(frames', LastIndex, rewindsize)
  BY <1>1, <1>2, <1>3, TightTop
<1> QED
  BY <1>4 DEF LastIndex, Unread

LEMMA TightContent ==
  ASSUME TightInv, status = "running", LastLen \in Nat,
         frames' = Update([At("pop") EXCEPT !.bytes = LastLen]),
         UNCHANGED <<tlStk, rewindsize>>
  PROVE  Tight(frames', LastIndex', rewindsize')
<1> DEFINE g == [At("pop") EXCEPT !.bytes = LastLen]
<1>1. /\ At("pop").base = top.base /\ At("pop").open = top.open /\ At("pop").pc = "pop"
      /\ At("pop") \in Frame /\ LastIndex = top.base + top.open /\ rewindsize <= 1
  BY TopAt, TightFacts DEF FrameOK
<1>2. g \in Frame /\ g.base = top.base /\ g.open = top.open /\ g.pc = "pop"
  <2> HIDE DEF At
  <2> QED
    BY <1>1 DEF Frame
<1>3. frames' = Update(g)
  OBVIOUS
<1> HIDE DEF g
<1>4. Ready(g, rewindsize)
  BY <1>2 DEF Ready
<1>5. Tight(frames', LastIndex, rewindsize)
  BY <1>1, <1>2, <1>3, <1>4, TightTop
<1> QED
  BY <1>5 DEF LastIndex

-----------------------------------------------------------------------------
(* Steps that push and pop.                                                *)

LEMMA OneOwnTag ==
  ASSUME OneTagEach, TightInv, status = "running"
  PROVE  Len(Own(top)) <= 1 /\ Len(Own(top)) \in Nat /\ top.open \in Nat /\ top.type \in Type
<1>1. top \in Frame /\ top.open \in Nat /\ top.type \in Type
  BY RunningFacts, TopTypes, TightFacts
<1>2. Len(Def[top.type].tags) <= 1 /\ Def[top.type].tags \in Seq(Octet)
  BY <1>1, TypesOfTable DEF OneTagEach
<1>3. Len(Own(top)) <= 1
  BY <1>2 DEF Own, EncodedTags
<1> QED
  BY <1>1, <1>3, OwnTags

LEMMA TightPushMatches ==
  ASSUME TightInv, status = "running", PushMatches
  PROVE  Tight(frames', LastIndex', rewindsize')
<1> DEFINE g == [top EXCEPT !.open = @ + 1]
<1>1. /\ CanPush /\ tlStk' = Pushed.stk /\ rewindsize' = Pushed.rw /\ frames' = Update(g)
  BY DEF PushMatches
<1>2. /\ top \in Frame /\ top.base \in Nat /\ top.open \in Nat /\ LastIndex \in Nat
      /\ LastIndex = top.base + top.open /\ rewindsize \in {0, 1} /\ Inv
  BY RunningFacts, TightFacts
<1>3. Len(tlStk') - rewindsize' = LastIndex + 1
  BY <1>1, <1>2, PushFacts
<1>4. rewindsize' = 0
  BY <1>1, <1>2 DEF Pushed
<1>5. g \in Frame /\ g.base = top.base /\ g.open = top.open + 1
  BY <1>2 DEF Frame
<1> HIDE DEF g
<1>6. LastIndex + 1 = g.base + g.open
  BY <1>2, <1>5
<1>7. Ready(g, 0)
  BY DEF Ready
<1>8. Tight(frames', LastIndex + 1, 0)
  BY <1>1, <1>5, <1>6, <1>7, TightTop
<1> QED
  BY <1>3, <1>4, <1>8 DEF LastIndex

LEMMA TightPushMismatches ==
  ASSUME OneTagEach, TightInv, status = "running", PushMismatches, status' = "running"
  PROVE  Tight(frames', LastIndex', rewindsize')
<1>1. /\ top.fn = "type" /\ TagsLeft # <<>> /\ CanPush
      /\ tlStk' = Pushed.stk /\ rewindsize' = Len(tlStk') - top.base /\ Return("false", 0)
  BY DEF PushMismatches
<1>2. /\ top.base \in Nat /\ top.open \in Nat /\ LastIndex \in Nat
      /\ LastIndex = top.base + top.open /\ rewindsize \in {0, 1} /\ Inv
  BY RunningFacts, TightFacts
<1>3. /\ Len(tlStk') - Pushed.rw = LastIndex + 1 /\ Len(tlStk') \in Nat
  BY <1>1, <1>2, PushFacts DEF StackOK
<1>4. Pushed.rw = 0
  BY <1>2 DEF Pushed
<1>5. top.open = 0
  BY <1>1, <1>2, NextOwnTag, OneOwnTag
<1>6. rewindsize' = 1 /\ Len(tlStk') - rewindsize' = top.base
  BY <1>1, <1>2, <1>3, <1>4, <1>5
<1>7. Tight(frames', top.base, 1)
  BY <1>1, TightReturn
<1> QED
  BY <1>6, <1>7 DEF LastIndex

\* When a type takes its tags as read, none is pending unless it has no tags.
LEMMA NonePending ==
  ASSUME OneTagEach, TightInv, status = "running", AllPushed, Def[top.type].tags # <<>>
  PROVE  rewindsize = 0
<1>1. top.fn = "type" /\ top.pc = "tags" /\ TagsLeft = <<>>
  BY DEF AllPushed
<1>2. top.open = Len(Own(top))
  BY <1>1, TightFacts, NoOwnTagLeft
<1>3. CASE top.implicit
  BY <1>1, <1>3, TightFacts DEF Ready
<1>4. CASE ~top.implicit
  <2>1. Own(top) = Def[top.type].tags
    BY <1>4 DEF Own, EncodedTags
  <2>2. Own(top) \in Seq(Octet)
    BY TypesOfTable, OneOwnTag, <2>1
  <2>3. Len(Own(top)) # 0
    BY <2>1, <2>2
  <2> QED
    BY <1>1, <1>2, <2>3, TightFacts DEF Ready
<1> QED
  BY <1>3, <1>4

LEMMA TightAllPushed ==
  ASSUME OneTagEach, TightInv, status = "running", AllPushed
  PROVE  Tight(frames', LastIndex', rewindsize')
<1>1. /\ top.fn = "type" /\ top.pc = "tags" /\ tlStk' = tlStk /\ frames' = Update(At("body"))
      /\ rewindsize' = IF Def[top.type].tags = <<>> THEN rewindsize ELSE 0
  BY DEF AllPushed
<1>2. rewindsize' = rewindsize
  BY <1>1, NonePending
<1>3. At("body").pc = "body" /\ At("body").type = top.type /\ At("body").implicit = top.implicit
  BY RunningFacts, TightFacts, PlaceMoved DEF At
<1>4. ASSUME rewindsize # 0 PROVE ~ImplicitRef(top.type, top.implicit)
  <2>1. Def[top.type].tags = <<>>
    BY <1>4, NonePending
  <2>2. ~top.implicit
    BY <1>1, <1>4, TightFacts DEF Ready
  <2>3. ~Def[top.type].implicit
    BY <2>1, OneOwnTag DEF OneTagEach
  <2> QED
    BY <2>2, <2>3 DEF ImplicitRef
<1>5. Ready(At("body"), rewindsize)
  BY <1>3, <1>4 DEF Ready
<1> QED
  BY <1>1, <1>2, <1>5, TightMovesOn

LEMMA TightPushSimple ==
  ASSUME TightInv, status = "running", PushSimple
  PROVE  Tight(frames', LastIndex', rewindsize')
<1> DEFINE pc == IF Constructed(PushedTag) THEN "body" ELSE "octets"
           g  == [top EXCEPT !.open = 1, !.pc = pc]
<1>1. /\ top.fn = "simple" /\ top.pc = "tags" /\ CanPush
      /\ tlStk' = Pushed.stk /\ rewindsize' = Pushed.rw /\ frames' = Update(g)
  BY DEF PushSimple
<1>2. /\ top \in Frame /\ FrameOK(top, tlStk) /\ top.base \in Nat
      /\ LastIndex = top.base + top.open /\ rewindsize \in {0, 1} /\ Inv
  BY RunningFacts, TightFacts
<1>3. LastIndex = top.base
  BY <1>1, <1>2 DEF FrameOK
<1>4. Len(tlStk') - rewindsize' = LastIndex + 1
  BY <1>1, <1>2, PushFacts
<1>5. rewindsize' = 0
  BY <1>1, <1>2 DEF Pushed
<1>6. pc \in {"body", "octets"}
  OBVIOUS
<1> HIDE DEF pc
<1>7. g \in Frame /\ g.open = 1 /\ g.base = top.base
  BY <1>1, <1>2, <1>6 DEF Frame
<1> HIDE DEF g
<1>8. LastIndex + 1 = g.base + g.open
  BY <1>2, <1>3, <1>7
<1>9. Ready(g, 0)
  BY DEF Ready
<1>10. Tight(frames', LastIndex + 1, 0)
  BY <1>1, <1>7, <1>8, <1>9, TightTop
<1> QED
  BY <1>4, <1>5, <1>10 DEF LastIndex

LEMMA TightPopTag ==
  ASSUME TightInv, status = "running", PopTag
  PROVE  Tight(frames', LastIndex', rewindsize')
<1> DEFINE open  == top.open - 1
           bytes == top.bytes + TLSize + (IF LastLen = Indefinite THEN EocSize ELSE 0)
           g     == [top EXCEPT !.open = open, !.bytes = bytes]
<1>1. /\ top.pc = "pop" /\ top.open > 0 /\ frames' = Update(g)
      /\ tlStk' = SubSeq(tlStk, 1, Len(tlStk) - 1) /\ rewindsize' = rewindsize
  BY DEF PopTag
<1>2. /\ top \in Frame /\ top.base \in Nat /\ top.open \in Nat /\ top.bytes \in Nat
      /\ LastIndex = top.base + top.open /\ rewindsize <= 1 /\ Inv
  BY RunningFacts, TightFacts
<1>3. open \in Nat /\ bytes \in Nat
  BY <1>1, <1>2 DEF TLSize, EocSize
<1>4. LastIndex - 1 = top.base + open
  BY <1>2
<1> HIDE DEF open, bytes
<1>5. g \in Frame /\ g.open = open /\ g.base = top.base /\ g.pc = "pop"
  BY <1>1, <1>2, <1>3 DEF Frame
<1> HIDE DEF g
<1>6. Ready(g, rewindsize)
  BY <1>5 DEF Ready
<1>7. Tight(frames', LastIndex - 1, rewindsize)
  BY <1>1, <1>2, <1>4, <1>5, <1>6, TightTop
<1>8. Len(tlStk') - rewindsize' = LastIndex - 1
  <2>1. tlStk \in Seq(TagNLen) /\ Len(tlStk) \in Nat /\ rewindsize \in Nat
    BY <1>2, RunningFacts DEF StackOK
  <2>2. LastIndex \in 1..Len(tlStk)
    BY <1>1, <1>2, InnermostTag
  <2>3. Len(tlStk) - 1 \in Nat /\ Len(tlStk) - 1 <= Len(tlStk)
    BY <2>1, <2>2
  <2>4. Len(tlStk') = Len(tlStk) - 1
    BY <1>1, <2>1, <2>3, LastDropped
  <2> QED
    BY <1>1, <2>1, <2>4 DEF LastIndex
<1> QED
  BY <1>1, <1>7, <1>8 DEF LastIndex

LEMMA TightPopReturns ==
  ASSUME TightInv, status = "running", PopReturns, status' = "running"
  PROVE  Tight(frames', LastIndex', rewindsize')
<1>1. Return("true", top.bytes) /\ Unread /\ top.open = 0
  BY DEF PopReturns
<1>2. /\ top.base \in Nat /\ top.bytes \in Nat
      /\ LastIndex = top.base + top.open /\ rewindsize <= 1
  BY RunningFacts, TightFacts
<1>3. Tight(frames', top.base, rewindsize)
  BY <1>1, <1>2, TightReturn
<1>4. LastIndex = top.base
  BY <1>1, <1>2
<1> QED
  BY <1>1, <1>3, <1>4 DEF LastIndex, Unread

-----------------------------------------------------------------------------
(* The other steps, and the theorem.                                       *)

\* Where a body goes on that is not a reference's.
LEMMA TightBackToBody ==
  ASSUME TightInv, status = "running", top.fn # "type" \/ kind # "ref",
         frames' = Update(At("body")), Unread
  PROVE  Tight(frames', LastIndex', rewindsize')
<1>1. At("body").type = top.type /\ At("body").fn = top.fn
  BY RunningFacts, TightFacts, PlaceMoved DEF At
<1>2. At("body").pc = "body"
  BY RunningFacts, TightFacts, PlaceMoved DEF At
<1>3. Ready(At("body"), rewindsize)
  BY <1>1, <1>2 DEF Ready, kind
<1> QED
  BY <1>3, TightMovesOn DEF Unread

LEMMA TightSequenceElmt ==
  ASSUME TightInv, status = "running", SequenceElmt
  PROVE  Tight(frames', LastIndex', rewindsize')
<1>1. elmts[top.i] \in Type /\ kind = "seq" /\ top.pc = "body"
  BY TopTypes, TightFacts DEF SequenceElmt, Body
<1>2. CASE DecodeElmt(elmts[top.i])
  BY <1>1, <1>2, TightElmt
<1>3. CASE frames' = Update([top EXCEPT !.i = @ + 1]) /\ Unread
  BY <1>1, <1>3, TightNextElmt
<1> QED
  BY <1>2, <1>3 DEF SequenceElmt

LEMMA TightMatchingElmt ==
  ASSUME TightInv, status = "running",
         NEW tag, NEW i \in FirstMatch(top.type, tag), DecodeElmt(elmts[i])
  PROVE  Tight(frames', LastIndex', rewindsize')
BY MatchingElmt, TightElmt, TightFacts

LEMMA TightBodies ==
  ASSUME OneTagEach, TightInv, status = "running", Bodies, status' = "running"
  PROVE  Tight(frames', LastIndex', rewindsize')
<1>1. CASE SequenceRest \/ SimpleBody
  BY <1>1, TightSimple, TightBodyEnds DEF SequenceRest, SimpleBody
<1>2. CASE SetElmt
  <2>1. \/ \E tag \in PeekedTags : \E i \in FirstMatch(top.type, tag) : DecodeElmt(elmts[i])
        \/ DecodeSimple \/ BodyEnds
    BY <1>2 DEF SetElmt
  <2> QED
    BY <2>1, TightMatchingElmt, TightSimple, TightBodyEnds
<1>3. CASE DecodeChoice
  <2>1. \/ \E tag \in PeekedTags : \E i \in FirstMatch(top.type, tag) : DecodeElmt(elmts[i])
        \/ DecodeSimple
    BY <1>3 DEF DecodeChoice
  <2> QED
    BY <2>1, TightMatchingElmt, TightSimple
<1>4. CASE ListElmt
  <2>1. elmts # <<>>
    BY <1>4, TopTypes, TightFacts, TableAssumption DEF ListElmt, Body, kind, elmts
  <2>2. 1 \in 1..Len(elmts)
    BY <2>1, TopTypes, TightFacts
  <2>3. elmts[1] \in Type
    BY <2>2, TopTypes, TightFacts
  <2> QED
    BY <1>4, <2>3, TightElmt, TightBodyEnds DEF ListElmt
<1>5. CASE DecodeContent
  <2>1. ~Longjmp("failed")
    BY DEF Longjmp
  <2>2. /\ ContentDecodes(kind, LastLen, Len(input) - pos)
        /\ frames' = Update([At("pop") EXCEPT !.bytes = LastLen])
        /\ UNCHANGED <<tlStk, rewindsize>> /\ kind \in {"int", "bool"}
    BY <1>5, <2>1 DEF DecodeContent
  <2>3. LastLen \in Nat
    BY <2>2 DEF ContentDecodes
  <2> QED
    BY <2>2, <2>3, TightContent
<1>6. CASE SimpleOctets
  <2>1. ~Longjmp("failed")
    BY DEF Longjmp
  <2>2. /\ LastLen # Indefinite /\ UNCHANGED <<tlStk, rewindsize>>
        /\ frames' = Update([At("pop") EXCEPT !.bytes = LastLen])
    BY <1>6, <2>1 DEF SimpleOctets
  <2>3. top.open = 1
    BY <1>6, RunningFacts, TightFacts DEF SimpleOctets, FrameOK
  <2>4. LastLen \in Int /\ LastLen >= Indefinite
    BY <2>3, InnermostTag, TightFacts
  <2>5. LastLen \in Nat
    BY <2>2, <2>4 DEF Indefinite
  <2> QED
    BY <2>2, <2>5, TightContent
<1> QED
  BY <1>1, <1>2, <1>3, <1>4, <1>5, <1>6, TightRef, TightSequenceElmt DEF Bodies

LEMMA TightCalleeDecoded ==
  ASSUME TightInv, status = "running", CalleeDecoded
  PROVE  Tight(frames', LastIndex', rewindsize')
<1>1. Unread
  BY DEF CalleeDecoded
<1>2. CASE top.fn = "type" /\ kind \in {"ref", "choice"}
  <2>1. frames' = Update(At("pop"))
    BY <1>2 DEF CalleeDecoded
  <2> QED
    BY <1>1, <2>1, PopIsReady, TightMovesOn DEF Unread
<1>3. CASE top.fn = "type" /\ kind = "seq" /\ top.i <= Len(elmts)
  <2>1. frames' = Update([At("body") EXCEPT !.i = @ + 1])
    BY <1>3 DEF CalleeDecoded
  <2> QED
    BY <1>1, <1>3, <2>1, TightNextElmt
<1>4. CASE /\ ~(top.fn = "type" /\ kind \in {"ref", "choice"})
           /\ ~(top.fn = "type" /\ kind = "seq" /\ top.i <= Len(elmts))
  <2>1. frames' = Update(At("body"))
    BY <1>4 DEF CalleeDecoded
  <2> QED
    BY <1>1, <1>4, <2>1, TightBackToBody
<1> QED
  BY <1>2, <1>3, <1>4

LEMMA TightReturns ==
  ASSUME OneTagEach, TightInv, status = "running", Returns, status' = "running"
  PROVE  Tight(frames', LastIndex', rewindsize')
<1>1. ~PopFails
  BY DEF PopFails, Longjmp
<1>2. CASE CalleeRefused
  <2>1. CASE DecodeSimple
    BY <2>1, TightSimple
  <2>2. CASE kind = "seq" /\ frames' = Update(At("body")) /\ Unread
    BY <2>2, TightBackToBody
  <2> QED
    BY <1>2, <2>1, <2>2 DEF CalleeRefused
<1> QED
  BY <1>1, <1>2, TightCalleeDecoded, TightPopTag, TightPopReturns DEF Returns

LEMMA TightTags ==
  ASSUME OneTagEach, TightInv, status = "running", Tags, status' = "running"
  PROVE  Tight(frames', LastIndex', rewindsize')
<1>1. ~PushFails
  BY DEF PushFails, Longjmp
<1> QED
  BY <1>1, TightPushMatches, TightPushMismatches, TightAllPushed, TightPushSimple DEF Tags

LEMMA TightInitially ==
  ASSUME Init PROVE TightInv
<1> DEFINE g == TypeFrame(Root, FALSE)
<1>1. tlStk = <<>> /\ rewindsize = 0 /\ frames = <<g>>
  BY DEF Init
<1>2. LastIndex = 0
  BY <1>1 DEF LastIndex
<1>3. g.base = 0 /\ g.open = 0
  BY <1>1 DEF TypeFrame
<1> HIDE DEF g
<1>4. Len(frames) = 1 /\ frames[1] = g
  BY <1>1
<1>5. Adjoin(frames)
  BY <1>3, <1>4 DEF Adjoin
<1>6. Ready(g, 0)
  BY DEF Ready
<1>7. Tight(frames, LastIndex, rewindsize)
  BY <1>1, <1>2, <1>3, <1>4, <1>5, <1>6 DEF Tight
<1> QED
  BY <1>7, InvInitially DEF TightInv

LEMMA TightPreserved ==
  ASSUME OneTagEach, TightInv, [Next]_vars PROVE TightInv'
<1>1. Inv'
  BY InvPreserved DEF TightInv
<1>2. ASSUME status' = "running" PROVE Tight(frames', LastIndex', rewindsize')
  <2>1. CASE UNCHANGED vars
    <3>1. frames' = frames /\ LastIndex' = LastIndex /\ rewindsize' = rewindsize
          /\ status' = status
      BY <2>1 DEF vars, LastIndex
    <3> QED
      BY <1>2, <3>1 DEF TightInv
  <2>2. CASE CallbackStops
    BY <1>2, <2>2 DEF CallbackStops, Longjmp
  <2>3. CASE Step
    BY <1>2, <2>3, TightTags, TightBodies, TightReturns DEF Step
  <2> QED
    BY <2>1, <2>2, <2>3 DEF Next
<1> QED
  BY <1>1, <1>2 DEF TightInv

LEMMA TightMatches ==
  ASSUME TightInv PROVE StackMatchesCalls
<1>1. TagsInPlace
  BY InvInPlace DEF TightInv
<1>2. status = "running" => Tight(frames, LastIndex, rewindsize)
  BY DEF TightInv
<1> QED
  BY <1>1, <1>2 DEF StackMatchesCalls, Tight, Adjoin, top

(* Of a table whose types have one tag each the stack of tags and lengths  *)
(* is, on every buffer, the open tags of the calls in progress, one above  *)
(* the other, and nothing else: LAST_LEN, by which the loops of            *)
(* TDEDecodeType end, is the length of the innermost of them (TDEInTag,    *)
(* TDEPushTagsAndLens).                                                    *)
THEOREM OneTagStackMatchesCalls == OneTagEach => (Spec => []StackMatchesCalls)
<1> SUFFICES ASSUME OneTagEach
             PROVE  Spec => []StackMatchesCalls
  OBVIOUS
<1>1. Init => TightInv
  BY TightInitially
<1>2. TightInv /\ [Next]_vars => TightInv'
  BY TightPreserved
<1>3. TightInv => StackMatchesCalls
  BY TightMatches
<1> QED
  BY <1>1, <1>2, <1>3, PTL DEF Spec

=============================================================================
