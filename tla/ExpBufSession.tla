--------------------------- MODULE ExpBufSession ---------------------------
(***************************************************************************)
(* An ExpBuf in the hands of a caller that keeps to the two modes, as the  *)
(* encoders and decoders do: it writes after an allocation or after        *)
(* ExpBufResetInWriteRvsMode on the last buffer of the list, and it reads  *)
(* after ExpBufInstallDataInBuf or ExpBufResetInReadMode.  The buffer then *)
(* implements ByteStream.                                                  *)
(***************************************************************************)
EXTENDS ExpBuf

VARIABLE mode

svars == <<chain, h, call, ret, mode>>

SInit == Init /\ mode = "write"

StartWriting ==
  \/ FreeAndAlloc /\ mode' = "write"
  \/ /\ call = Idle
     /\ h' = 1
     /\ chain' = [chain EXCEPT ![1] = InWriteRvsMode(chain[1])]
     /\ Returns(<<>>)
     /\ mode' = "write"

\* ExpBufResetInReadMode is given a copy of the handle: the caller's own stays
\* on the first buffer written.
StartReading ==
  /\ call = Idle /\ mode = "write"
  /\ chain' = [i \in DOMAIN chain |-> IF i <= h THEN InReadMode(chain[i])
                                                ELSE chain[i]]
  /\ h' = h
  /\ Returns(<<>>)
  /\ mode' = "read"

\* ExpBufResetInReadMode is given the handle itself, as BufResetInReadMode does.
StartReadingByHandle ==
  /\ mode = "write"
  /\ ResetInReadMode
  /\ mode' = "read"

InstallAndRead(s) == InstallDataInBuf(s) /\ mode' = "installed"

\* The callers that save a list allocated it for the purpose: no buffer precedes
\* the handle's.
Work == \/ mode = "write" /\ (Writes \/ SetWriteError)
        \/ mode = "write" /\ h = Len(chain) /\ CopyToFile
        \/ mode # "write" /\ Reads
        \/ Loop

SNext == \/ StartWriting
         \/ StartReading
         \/ \E s \in Segs : InstallAndRead(s)
         \/ Work /\ UNCHANGED mode

SSpec     == SInit /\ [][SNext]_svars
SFairSpec == SSpec /\ WF_svars(Loop /\ UNCHANGED mode)

\* The callers that read through the handle they reset.
HNext == SNext \/ StartReadingByHandle
HSpec == SInit /\ [][HNext]_svars

-----------------------------------------------------------------------------
(* Refinement mapping.                                                     *)

Unread(i) == BytesAt(chain[i], chain[i].curr, Left(chain[i])) \o DataFrom(i - 1)

\* A request in progress is one step of ByteStream, taken when it returns: the
\* bytes it has moved so far are put back.
StreamData ==
  CASE call.op = "PutSegRvs" ->
         SubSeq(DataFrom(h), Len(call.seg) - call.len + 1, Len(DataFrom(h)))
    [] call.op \in {"Copy", "Skip"} -> call.got \o Unread(h)
    [] call.op = "PeekCopy"         -> Unread(call.orig)
    [] OTHER -> IF mode = "write" THEN DataFrom(h) ELSE Unread(h)

StreamFault == mode = "write" /\ cur.writeError
StreamError == mode # "write" /\ cur.readError
StreamReq   == [op |-> call.op, seg |-> call.seg,
                len |-> IF call.op = "PutSegRvs" THEN Len(call.seg) ELSE call.len]

Stream == INSTANCE ByteStream WITH
  WritesWhole <- FALSE, ReadsExact <- FALSE,
  data <- StreamData, fault <- StreamFault, rerr <- StreamError, req <- StreamReq

(* The block list behaves as one byte stream: writes in any number of      *)
(* blocks prepend exactly the given bytes, or the end of them that found   *)
(* room and set writeError, and from then on nothing is written; reads     *)
(* give back a prefix of what was written and not yet read, Copy flags a   *)
(* short one, and a byte read fails only at the true end of data           *)
(* (exp-buf.c, all reading and writing routines).                          *)
ImplementsStream == Stream!Spec

-----------------------------------------------------------------------------
(* What the comments of exp-buf.c say of reading, and the code does not do.*)

(* exp-buf.c:359 "set curr ptr used in reads to the first byte to be       *)
(* read": after the reset the caller reads what was written.               *)
ResetFindsFirstByte ==
  [][StartReadingByHandle => Unread(h)' = DataFrom(h)]_svars

=============================================================================
