---------------------------- MODULE SBufSession ----------------------------
(***************************************************************************)
(* An SBuf in the hands of a caller that keeps to the two modes, as the    *)
(* examples and the table tools do: SBufInit is followed by                *)
(* SBufResetInWriteRvsMode, SBufInstallData by reads, and what was written *)
(* is read after SBufResetInReadMode.  The buffer then implements          *)
(* ByteStream, like an ExpBuf, but goes on writing after a fault.  A caller*)
(* may also leave the modes ("off") and make any call; from the next reset *)
(* to write mode, or the next SBufInstallData, it has a stream again.      *)
(***************************************************************************)
EXTENDS SBuf

VARIABLES mode,
          req   \* the call about to be executed, so that ByteStream can tell
                \* what was asked for from what was done

svars == <<b, ret, mode, req>>

Unwritten(n) == [p \in 1..n |-> Junk]

NoReq == [op |-> "idle", seg |-> <<>>, len |-> 0]

SInit == /\ \E n \in 0..MaxSize : b = InWriteRvsMode(Initialised(Unwritten(n)))
         /\ ret = <<>>
         /\ mode = "write"
         /\ req = NoReq

StartWriting ==
  /\ \/ \E n \in 0..MaxSize : b' = InWriteRvsMode(Initialised(Unwritten(n)))
     \/ b' = InWriteRvsMode(b)
  /\ Returns(<<>>)
  /\ mode' = "write"

StartReading == mode = "write" /\ ResetInReadMode /\ mode' = "read"

\* The block is the caller's own, of any size up to MaxSize.
InstallAndRead ==
  /\ \E n \in 0..MaxSize : \E s \in [1..n -> Byte] : InstallData(s)
  /\ mode' = "installed"

Reading == mode \in {"read", "installed"}

ReadOps == {"Copy", "Skip", "PeekCopy", "GetSeg", "PeekSeg"}

Call ==
  /\ req = NoReq
  /\ \/ mode = "write" /\ \E s \in Segs : req' = [NoReq EXCEPT !.op = "PutSegRvs", !.seg = s]
     \/ Reading /\ \E op \in ReadOps, n \in 0..MaxLen :
          req' = [NoReq EXCEPT !.op = op, !.len = n]
  /\ Returns(<<>>) /\ UNCHANGED <<b, mode>>

Execute ==
  /\ \/ req.op = "PutSegRvs" /\ PutSegRvs(req.seg)
     \/ req.op = "PutSegRvs" /\ Len(req.seg) = 1 /\ PutByteRvs(req.seg[1])
     \/ req.op = "Copy"      /\ Copy(req.len)
     \/ req.op = "Skip"      /\ Skip(req.len)
     \/ req.op = "PeekCopy"  /\ PeekCopy(req.len)
     \/ req.op = "GetSeg"    /\ GetSeg(req.len)
     \/ req.op = "PeekSeg"   /\ PeekSeg(req.len)
  /\ req' = NoReq /\ UNCHANGED mode

\* The calls that need no request in ByteStream.
Work == \/ mode = "write" /\ SetWriteError(TRUE)
        \/ Reading /\ (GetByte \/ PeekByte)

\* Any call of the library, in any mode.
LeaveModes == Next /\ mode' = "off"

SNext == \/ req = NoReq /\ StartWriting /\ UNCHANGED req
         \/ req = NoReq /\ StartReading /\ UNCHANGED req
         \/ req = NoReq /\ InstallAndRead /\ UNCHANGED req
         \/ req = NoReq /\ Work /\ UNCHANGED <<mode, req>>
         \/ req = NoReq /\ LeaveModes /\ UNCHANGED req
         \/ Call
         \/ Execute

SSpec == SInit /\ [][SNext]_svars

-----------------------------------------------------------------------------
Unread == BytesAt(b.readLoc, Left)

\* Outside the modes the stream is one that has just been reset for writing.
StreamMode  == IF mode = "off" THEN "write" ELSE mode
StreamData  == CASE mode = "write" -> Data [] mode = "off" -> <<>> [] OTHER -> Unread
StreamFault == mode = "write" /\ b.writeError
StreamError == Reading /\ b.readError
StreamRet   == IF mode = "off" THEN <<>> ELSE ret

Stream == INSTANCE ByteStream WITH
  WritesWhole <- TRUE, ReadsExact <- TRUE, mode <- StreamMode, data <- StreamData,
  fault <- StreamFault, rerr <- StreamError, ret <- StreamRet

(* The simple buffer is a byte stream like the expanding one, and keeps    *)
(* stricter promises: a write prepends exactly the given bytes, or nothing *)
(* at all and sets a writeError that stays until the next reset; reads     *)
(* give back what was written, in order, and all that is left up to what   *)
(* was asked for; if that is less, Copy, Skip, PeekCopy and the reads of a *)
(* byte set readError, which stays, and the segment routines never do      *)
(* (sbuf.c, all reading and writing routines; "*NO* copying", :389).       *)
ImplementsStream == Stream!Spec

=============================================================================
