-------------------------------- MODULE Wire ---------------------------------
(***************************************************************************)
(* What ProtocolReader and ProtocolWriter leave out: how the writer encodes *)
(* the header of a frame (frameHeader() of source/protocolWriter.js), how   *)
(* the reader decodes it in its two parts (source/protocolReader.js), and   *)
(* how the Masker of source/masker.js masks the payload at one end, whole,  *)
(* and unmasks it at the other, in whatever chunks the socket delivers.     *)
(*                                                                          *)
(* A number of 32 bits is the tuple of its bytes, the lowest first.  A byte *)
(* of a payload is the set of the key bytes it is xored with, so the data   *)
(* as it was is {} throughout.  Of a payload the first Tracked bytes are    *)
(* followed.                                                                *)
(*                                                                          *)
(* An operator no action uses is a plausible mistake in the one after it,   *)
(* kept to show which property would notice.                                *)
(***************************************************************************)
EXTENDS Integers, Sequences

CONSTANTS Sizes,    \* of payloads
          Opcodes,
          Masks,    \* what crypto.randomBytes(4) may return
          Tracked   \* how much of a payload is followed

Zero == <<0, 0, 0, 0>>

IsKey(key) == key \in Seq(Nat) /\ Len(key) = 4

(* A size is below 2^53, as Buffer.length is.                              *)
ASSUME WireAssumption ==
  /\ \A n \in Sizes : n \in Nat /\ ((n \div 65536) \div 65536) \div 65536 < 32
  /\ Opcodes \subseteq 0..15
  /\ \A key \in Masks : IsKey(key)
  /\ Tracked \in Nat

VARIABLES sender,   \* which end writes; "zero" is a client with zeroMasking
          frame,    \* what frameHeader() was called with
          header,   \* the bytes of its header
          payload,  \* its payload on the wire
          masker,   \* the #masker of both ends
          next,     \* the #next of the reader; "done" between two frames
          read,     \* the #frame of the reader
          got       \* the payload as the reader hands it on

vars == <<sender, frame, header, payload, masker, next, read, got>>

Frames == [isFinal : BOOLEAN, compressionBit : BOOLEAN, opcode : Opcodes, payloadSize : Sizes]

(* Masker -----------------------------------------------------------------*)
Xor(byte, k) == IF k = 0 THEN byte ELSE (byte \ {k}) \cup ({k} \ byte)

(* At position i, from 0, of a key that repeats. *)
At(key, i) == key[(i % 4) + 1]

uint32swap(n) == <<n[4], n[3], n[2], n[1]>>

Rotated(n, k) == [j \in 1..4 |-> At(n, j - 1 + k)]

NewMask(maskUint32) ==
  [maskByte |-> maskUint32, maskUint32 |-> [k \in 0..3 |-> Rotated(maskUint32, k)], offset |-> 0]

NewMaskOfNumber(number) == NewMask(uint32swap(number))

(* How many bytes maskInPlace() masks 32 bits at a time. *)
InWords(length, aligned) == IF aligned /\ length >= 4 THEN 4 * (length \div 4) ELSE 0

NeverWraps(m, length, aligned) == m.offset + length - InWords(length, aligned)

OffsetAfter(m, length, aligned) == (m.offset + length - InWords(length, aligned)) % 4

AlwaysTheFirstWord(m, data, aligned) ==
  LET words == InWords(Len(data), aligned)
  IN  [i \in 1..Len(data) |->
         Xor(data[i], IF i <= words THEN At(m.maskUint32[0], i - 1)
                                    ELSE At(m.maskByte, m.offset + i - 1 - words))]

MaskInPlace(m, data, aligned) ==
  LET words == InWords(Len(data), aligned)
  IN  [i \in 1..Len(data) |->
         Xor(data[i], IF i <= words THEN At(m.maskUint32[m.offset], i - 1)
                                    ELSE At(m.maskByte, m.offset + i - 1 - words))]

(* The reference beside it in protocolRelated.js. *)
xorWithMaskingKey(maskingKey, data) ==
  [i \in 1..Len(data) |-> Xor(data[i], At(maskingKey, i - 1))]

(* Frame headers ----------------------------------------------------------*)
Bit(b) == IF b THEN 1 ELSE 0
Bytes2(n) == <<(n \div 256) % 256, n % 256>>
Value2(b1, b2) == 256 * b1 + b2

(* writeBigInt64BE() and readBigUInt64BE() *)
Bytes8(n) ==
  LET n2 == n \div 65536
      n4 == n2 \div 65536
      n6 == n4 \div 65536
  IN  <<(n6 \div 256) % 256, n6 % 256, (n4 \div 256) % 256, n4 % 256,
        (n2 \div 256) % 256, n2 % 256, (n \div 256) % 256, n % 256>>

Value8(b) ==
  65536 * (65536 * (65536 * Value2(b[1], b[2]) + Value2(b[3], b[4])) + Value2(b[5], b[6]))
    + Value2(b[7], b[8])

(* Above Number.MAX_SAFE_INTEGER, 2^53 - 1. *)
Unsafe(b) == b[1] > 0 \/ b[2] >= 32

SwitchesTooLate(size) == IF size > 65536 THEN 127 ELSE IF size > 125 THEN 126 ELSE size

PayloadSize7bit(size) == IF size > 65535 THEN 127 ELSE IF size > 125 THEN 126 ELSE size

FrameHeader(f, masked, mask) ==
  LET payloadSize7bit == PayloadSize7bit(f.payloadSize)
      bitField == Bit(f.isFinal) * 32768 + Bit(f.compressionBit) * 16384 + f.opcode * 256
                    + Bit(masked) * 128 + payloadSize7bit
      extended == CASE payloadSize7bit = 127 -> Bytes8(f.payloadSize)
                    [] payloadSize7bit = 126 -> Bytes2(f.payloadSize)
                    [] OTHER -> <<>>
  IN  Bytes2(bitField) \o extended \o (IF masked THEN uint32swap(mask) ELSE <<>>)

(* The two ends -----------------------------------------------------------*)
Init ==
  /\ sender \in {"client", "zero", "server"}
  /\ frame \in Frames
  /\ header = <<>> /\ payload = <<>> /\ got = <<>>
  /\ masker = [end \in {"writer", "reader"} |-> NewMask(Zero)]
  /\ next = "done"
  /\ read = [isFinal |-> 0, rsvBit1 |-> 0, opcode |-> 0, hasMask |-> 0,
             payloadSize7bit |-> 0, payloadSize |-> 0]

(* #writeFrame(): a client masks the payload in place, with a new mask, or *)
(* writes a mask of zero.  The payload may lie anywhere in its memory.     *)
WriteFrame(f, key, aligned) ==
  LET data == [i \in 1..(IF f.payloadSize < Tracked THEN f.payloadSize ELSE Tracked) |-> {}]
      mask == IF sender = "zero" THEN Zero ELSE uint32swap(key)
      m == NewMask(key)
  IN  /\ next = "done"
      /\ frame' = f
      /\ header' = FrameHeader(f, sender # "server", mask)
      /\ IF sender = "client"
         THEN /\ payload' = MaskInPlace(m, data, aligned)
              /\ masker' = [masker EXCEPT !["writer"] =
                              [m EXCEPT !.offset = OffsetAfter(m, Len(data), aligned)]]
         ELSE payload' = data /\ UNCHANGED masker
      /\ next' = "header1"
      /\ got' = <<>>
      /\ UNCHANGED <<sender, read>>

NextAfterHeader(size) == IF size > 0 THEN "payload" ELSE "done"

Header2Size(r) ==
  (CASE r.payloadSize7bit = 127 -> 8 [] r.payloadSize7bit = 126 -> 2 [] OTHER -> 0) + 4 * r.hasMask

(* #read16bitHeader() *)
Read16bitHeader ==
  LET bits == Value2(header[1], header[2])
      size == bits % 128
      r == [isFinal |-> bits \div 32768, rsvBit1 |-> (bits \div 16384) % 2,
            opcode |-> (bits \div 256) % 16, hasMask |-> (bits \div 128) % 2,
            payloadSize7bit |-> size, payloadSize |-> IF size < 126 THEN size ELSE 0]
  IN  /\ next = "header1"
      /\ read' = r
      /\ next' = IF Header2Size(r) > 0 THEN "header2" ELSE NextAfterHeader(r.payloadSize)
      /\ UNCHANGED <<sender, frame, header, payload, masker, got>>

(* #readRestOfHeader(), and the newMask() of #handleHeader() *)
ReadRestOfHeader ==
  LET rest == SubSeq(header, 3, 2 + Header2Size(read))
      ext == Header2Size(read) - 4 * read.hasMask
      size == CASE ext = 8 -> Value8(rest) [] ext = 2 -> Value2(rest[1], rest[2])
                [] OTHER -> read.payloadSize
      maskNumber == <<rest[ext + 4], rest[ext + 3], rest[ext + 2], rest[ext + 1]>>
  IN  /\ next = "header2"
      /\ IF ext = 8 /\ Unsafe(rest)
         THEN next' = "error" /\ UNCHANGED <<read, masker>>
         ELSE /\ read' = [read EXCEPT !.payloadSize = size]
              /\ masker' = IF read.hasMask = 1
                           THEN [masker EXCEPT !["reader"] = NewMaskOfNumber(maskNumber)]
                           ELSE masker
              /\ next' = NextAfterHeader(size)
      /\ UNCHANGED <<sender, frame, header, payload, got>>

(* #consumePayloadChunk(): a server unmasks the chunk in place.            *)
ConsumePayloadChunk(n, aligned) ==
  LET chunk == SubSeq(payload, Len(got) + 1, Len(got) + n)
      m == masker["reader"]
  IN  /\ next = "payload"
      /\ Len(got) + n <= Len(payload)
      /\ IF sender # "server"
         THEN /\ got' = got \o MaskInPlace(m, chunk, aligned)
              /\ masker' = [masker EXCEPT !["reader"].offset = OffsetAfter(m, n, aligned)]
         ELSE got' = got \o chunk /\ UNCHANGED masker
      /\ next' = IF Len(got) + n = Len(payload) THEN "done" ELSE "payload"
      /\ UNCHANGED <<sender, frame, header, payload, read>>

Next ==
  \/ \E f \in Frames, key \in Masks, aligned \in BOOLEAN : WriteFrame(f, key, aligned)
  \/ Read16bitHeader
  \/ ReadRestOfHeader
  \/ \E n \in 1..Tracked, aligned \in BOOLEAN : ConsumePayloadChunk(n, aligned)

Spec == Init /\ [][Next]_vars
-----------------------------------------------------------------------------
IsMasker(m) ==
  /\ IsKey(m.maskByte)
  /\ m.maskUint32 = [k \in 0..3 |-> Rotated(m.maskByte, k)]
  /\ m.offset \in 0..3

TypeOK ==
  /\ sender \in {"client", "zero", "server"}
  /\ frame \in Frames
  /\ header \in Seq(Nat)
  /\ payload \in Seq(SUBSET Nat) /\ Len(payload) <= Tracked
  /\ masker \in [{"writer", "reader"} -> [maskByte : Seq(Nat), maskUint32 : [0..3 -> Seq(Nat)], offset : 0..3]]
  /\ \A end \in {"writer", "reader"} : IsMasker(masker[end])
  /\ next \in {"done", "header1", "header2", "payload"}
  /\ read \in [isFinal : 0..1, rsvBit1 : 0..1, opcode : 0..15, hasMask : 0..1,
               payloadSize7bit : 0..127, payloadSize : Nat]
  /\ got \in Seq(SUBSET Nat)

(* The reader takes from the header what the writer put into it, for every *)
(* size and with or without a mask, before it looks at the payload.        *)
HeaderRead ==
  /\ read.isFinal = Bit(frame.isFinal)
  /\ read.rsvBit1 = Bit(frame.compressionBit)
  /\ read.opcode = frame.opcode
  /\ read.payloadSize = frame.payloadSize
  /\ read.hasMask = Bit(sender # "server")

HeaderAsWritten == (next = "payload" \/ (next = "done" /\ header # <<>>)) => HeaderRead

(* The key that is in the header of the frame. *)
MaskingKey == SubSeq(header, Len(header) - 3, Len(header))

(* A masked payload is on the wire what the reference says, and the reader *)
(* restores it byte for byte, however the socket cuts it, wherever the     *)
(* chunks lie in memory and whatever the masks before it were.             *)
PayloadRestored ==
  /\ header # <<>> =>
       payload = IF sender = "server" THEN [i \in 1..Len(payload) |-> {}]
                 ELSE xorWithMaskingKey(MaskingKey, [i \in 1..Len(payload) |-> {}])
  /\ got = [i \in 1..Len(got) |-> {}]
=============================================================================
