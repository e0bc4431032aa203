----------------------------- MODULE WireProofs ------------------------------
(***************************************************************************)
(* That the reader gets the frame the writer wrote, whatever its size, its  *)
(* key and the chunks it comes in.  First the arithmetic of bytes, then the *)
(* Masker, then the header, then one lemma per action of Wire.              *)
(***************************************************************************)
EXTENDS Wire, SequenceTheorems, TLAPS

(* Bytes ------------------------------------------------------------------*)
(* A byte and what is above it: n >> 8 and n & 0xFF. *)
LEMMA ByteParts ==
  ASSUME NEW n \in Nat
  PROVE  /\ n \div 256 \in Nat /\ n % 256 \in Nat /\ n % 256 < 256
         /\ n % 256 = n - 256 * (n \div 256)
  OBVIOUS

(* Of a number of 16 bits the upper byte is all that is above the lower. *)
LEMMA HighByte ==
  ASSUME NEW n \in Nat, n < 65536
  PROVE  (n \div 256) % 256 = n \div 256
<1>1. n \div 256 \in Nat /\ n \div 256 < 256
  OBVIOUS
<1>2. \A q \in Nat : q < 256 => q % 256 = q
  OBVIOUS
<1> QED
  BY <1>1, <1>2

(* The same for 16 bits, and shifting by 8 twice is shifting by 16. *)
LEMMA WordParts ==
  ASSUME NEW n \in Nat
  PROVE  /\ n \div 65536 \in Nat /\ n % 65536 \in Nat /\ n % 65536 < 65536
         /\ n % 65536 = n - 65536 * (n \div 65536)
         /\ (n \div 256) \div 256 = n \div 65536
<1>1. /\ n \div 65536 \in Nat /\ n % 65536 \in Nat /\ n % 65536 < 65536
      /\ n % 65536 = n - 65536 * (n \div 65536)
  OBVIOUS
<1>2. ASSUME NEW q, q = n \div 256, NEW t, t = q \div 256
      PROVE  t = n \div 65536
  BY <1>2
<1> QED
  BY <1>1, <1>2

(* The two lowest bytes, put together, are the number modulo 2^16. *)
LEMMA LowBytes ==
  ASSUME NEW n \in Nat
  PROVE Value2((n \div 256) % 256, n % 256) = n % 65536
<1> DEFINE q == n \div 256
           p == n \div 65536
           r == n % 65536
           b == n % 256
           a == q % 256
<1>1. q \in Nat /\ b \in Nat /\ b = n - 256 * q
  BY ByteParts
<1>2. a \in Nat /\ a = q - 256 * p
  BY <1>1, ByteParts, WordParts
<1>3. r \in Nat /\ r = n - 65536 * p /\ p \in Nat
  BY WordParts
<1> HIDE DEF q, p, r, a, b
<1>4. 256 * a + b = r
  BY <1>1, <1>2, <1>3
<1> QED
  BY <1>4 DEF Value2, q, p, r, a, b

(* writeUInt16BE() and readUInt16BE() are each other's inverse. *)
LEMMA TwoBytes ==
  ASSUME NEW n \in Nat, n < 65536
  PROVE Value2((n \div 256) % 256, n % 256) = n
<1>1. n % 65536 = n
  OBVIOUS
<1> QED
  BY <1>1, LowBytes

(* writeBigInt64BE() and readBigUInt64BE() are each other's inverse below
   2^53, and the check for larger sizes lets such a number pass. *)
LEMMA EightBytes ==
  ASSUME NEW n \in Nat, ((n \div 65536) \div 65536) \div 65536 < 32
  PROVE  /\ Bytes8(n) \in Seq(Nat) /\ Len(Bytes8(n)) = 8
         /\ ~Unsafe(Bytes8(n))
         /\ Value8(Bytes8(n)) = n
<1> DEFINE n2 == n \div 65536
           n4 == n2 \div 65536
           n6 == n4 \div 65536
           r0 == n % 65536
           r2 == n2 % 65536
           r4 == n4 % 65536
           b == Bytes8(n)
<1>1. n2 \in Nat /\ r0 \in Nat /\ r0 = n - 65536 * n2
  BY WordParts
<1>2. n4 \in Nat /\ r2 \in Nat /\ r2 = n2 - 65536 * n4
  BY <1>1, WordParts
<1>3. n6 \in Nat /\ r4 \in Nat /\ r4 = n4 - 65536 * n6
  BY <1>2, WordParts
<1>4. n6 < 32
  OBVIOUS
<1>5. /\ Value2((n4 \div 256) % 256, n4 % 256) = r4
      /\ Value2((n2 \div 256) % 256, n2 % 256) = r2
      /\ Value2((n \div 256) % 256, n % 256) = r0
  BY <1>1, <1>2, LowBytes
<1>6. b = <<(n6 \div 256) % 256, n6 % 256, (n4 \div 256) % 256, n4 % 256,
            (n2 \div 256) % 256, n2 % 256, (n \div 256) % 256, n % 256>>
  BY DEF Bytes8
<1>7. /\ (n6 \div 256) % 256 \in Nat /\ n6 % 256 \in Nat
      /\ (n4 \div 256) % 256 \in Nat /\ n4 % 256 \in Nat
      /\ (n2 \div 256) % 256 \in Nat /\ n2 % 256 \in Nat
      /\ (n \div 256) % 256 \in Nat /\ n % 256 \in Nat
  BY <1>1, <1>2, <1>3, ByteParts
<1> HIDE DEF n2, n4, n6, r0, r2, r4, b
<1>8. b \in Seq(Nat) /\ Len(b) = 8
  BY <1>6, <1>7
<1>9. (n6 \div 256) % 256 = 0 /\ n6 % 256 = n6
  BY <1>3, <1>4
<1>10. ~Unsafe(b)
  BY <1>3, <1>4, <1>6, <1>9 DEF Unsafe
<1>11. Value2(b[1], b[2]) = n6
  BY <1>3, <1>6, <1>9 DEF Value2
<1>12. Value8(b) = 65536 * (65536 * (65536 * n6 + r4) + r2) + r0
  BY <1>5, <1>6, <1>11 DEF Value8
<1>13. 65536 * (65536 * (65536 * n6 + r4) + r2) + r0 = n
  <2>1. 65536 * n6 + r4 = n4
    BY <1>2, <1>3
  <2>2. 65536 * n4 + r2 = n2
    BY <1>1, <1>2
  <2>3. 65536 * n2 + r0 = n
    BY <1>1
  <2> QED
    BY <2>1, <2>2, <2>3
<1> QED
  BY <1>8, <1>10, <1>12, <1>13 DEF b

(* The Masker -------------------------------------------------------------*)
(* Masking by words and by bytes is masking by the key, from the offset.   *)
LEMMA MaskedByOffset ==
  ASSUME NEW m, IsMasker(m), NEW data \in Seq(SUBSET Nat), NEW aligned \in BOOLEAN
  PROVE  /\ MaskInPlace(m, data, aligned)
              = [i \in 1..Len(data) |-> Xor(data[i], At(m.maskByte, m.offset + i - 1))]
         /\ OffsetAfter(m, Len(data), aligned) = (m.offset + Len(data)) % 4
<1> DEFINE length == Len(data)
           words == InWords(length, aligned)
           off == m.offset
<1>1. length \in Nat /\ off \in 0..3
  BY DEF IsMasker
<1>2. PICK k \in Nat : words = 4 * k /\ words \in 0..length
  <2>1. \A a \in Nat : a >= 4 => a \div 4 \in Nat /\ 4 * (a \div 4) \in 0..a
    OBVIOUS
  <2>2. 0 = 4 * 0 /\ 0 \in Nat
    OBVIOUS
  <2> HIDE DEF length
  <2> QED
    BY <1>1, <2>1, <2>2 DEF InWords
<1> HIDE DEF length, words, off
<1>3. ASSUME NEW i \in 1..length
      PROVE  (IF i <= words THEN At(m.maskUint32[off], i - 1)
                            ELSE At(m.maskByte, off + i - 1 - words))
               = At(m.maskByte, off + i - 1)
  <2>1. CASE i <= words
    <3> DEFINE j == ((i - 1) % 4) + 1
    <3>1. j \in 1..4 /\ (j - 1 + off) % 4 = (off + i - 1) % 4
      BY <1>1
    <3>2. m.maskUint32[off] = Rotated(m.maskByte, off)
      BY <1>1 DEF IsMasker
    <3> HIDE DEF j
    <3>3. m.maskUint32[off][j] = At(m.maskByte, j - 1 + off)
      BY <3>1, <3>2 DEF Rotated
    <3> QED
      BY <2>1, <3>1, <3>3 DEF At, j
  <2>2. CASE ~(i <= words)
    <3>1. (off + i - 1 - words) % 4 = (off + i - 1) % 4
      BY <1>1, <1>2, <2>2
    <3> QED
      BY <2>2, <3>1 DEF At
  <2> QED
    BY <2>1, <2>2
<1>4. (off + length - words) % 4 = (off + length) % 4
  BY <1>1, <1>2
<1> QED
  BY <1>3, <1>4 DEF MaskInPlace, OffsetAfter, length, words, off

(* Headers ----------------------------------------------------------------*)
BitField(f, masked) ==
  Bit(f.isFinal) * 32768 + Bit(f.compressionBit) * 16384 + f.opcode * 256
    + Bit(masked) * 128 + PayloadSize7bit(f.payloadSize)

ExtSize(size) ==
  IF PayloadSize7bit(size) = 127 THEN 8 ELSE IF PayloadSize7bit(size) = 126 THEN 2 ELSE 0

(* What the 7 bits of a header say of a size, and how many bytes follow. *)
LEMMA SizeIn7Bits ==
  ASSUME NEW size \in Nat
  PROVE  /\ PayloadSize7bit(size) \in 0..127
         /\ ExtSize(size) = 0 => size < 126 /\ PayloadSize7bit(size) = size
         /\ ExtSize(size) = 2 => size < 65536
         /\ ExtSize(size) \in {0, 2, 8}
  BY DEF PayloadSize7bit, ExtSize

(* The parts of a frame, by the assumption on the constants. *)
LEMMA FrameType ==
  ASSUME NEW f \in Frames
  PROVE  /\ f.isFinal \in BOOLEAN /\ f.compressionBit \in BOOLEAN
         /\ f.opcode \in 0..15 /\ f.payloadSize \in Nat
         /\ ((f.payloadSize \div 65536) \div 65536) \div 65536 < 32
<1>1. f.isFinal \in BOOLEAN /\ f.compressionBit \in BOOLEAN /\ f.opcode \in Opcodes /\ f.payloadSize \in Sizes
  BY DEF Frames
<1> DEFINE Fits(n) == ((n \div 65536) \div 65536) \div 65536 < 32
<1>2. Opcodes \subseteq 0..15 /\ \A n \in Sizes : n \in Nat /\ Fits(n)
  BY WireAssumption DEF WireAssumption
<1> HIDE DEF Fits
<1>3. f.opcode \in 0..15 /\ f.payloadSize \in Nat /\ Fits(f.payloadSize)
  BY <1>1, <1>2
<1> QED
  BY <1>1, <1>3 DEF Fits

(* What the two bytes in front decode to. *)
LEMMA BitFieldDecoded ==
  ASSUME NEW f \in Frames, NEW masked \in BOOLEAN
  PROVE  LET n == BitField(f, masked)
         IN  /\ n \in Nat /\ n < 65536
             /\ n % 128 = PayloadSize7bit(f.payloadSize)
             /\ (n \div 128) % 2 = Bit(masked)
             /\ (n \div 256) % 16 = f.opcode
             /\ (n \div 16384) % 2 = Bit(f.compressionBit)
             /\ n \div 32768 = Bit(f.isFinal)
<1>1. \A x \in BOOLEAN : Bit(x) \in 0..1
  BY DEF Bit
<1>2. /\ Bit(f.isFinal) \in 0..1 /\ Bit(f.compressionBit) \in 0..1 /\ Bit(masked) \in 0..1
      /\ f.opcode \in 0..15 /\ PayloadSize7bit(f.payloadSize) \in 0..127
  BY <1>1, FrameType, SizeIn7Bits
<1> DEFINE a == Bit(f.isFinal)
           b == Bit(f.compressionBit)
           c == f.opcode
           d == Bit(masked)
           e == PayloadSize7bit(f.payloadSize)
           n == BitField(f, masked)
<1>3. n = a * 32768 + b * 16384 + c * 256 + d * 128 + e
  BY DEF BitField
<1> HIDE DEF a, b, c, d, e, n
<1>4. a \in 0..1 /\ b \in 0..1 /\ c \in 0..15 /\ d \in 0..1 /\ e \in 0..127
  BY <1>2 DEF a, b, c, d, e
<1>5. n \in Nat /\ n < 65536 /\ n % 128 = e /\ n \div 32768 = a
  BY <1>3, <1>4
<1>6. /\ n \div 128 = 2 * (a * 128 + b * 64 + c) + d
      /\ n \div 256 = 16 * (a * 8 + b * 4) + c
      /\ n \div 16384 = 2 * a + b
  BY <1>3, <1>4
<1>7. \A k \in Nat : (2 * k + d) % 2 = d /\ (2 * k + b) % 2 = b /\ (16 * k + c) % 16 = c
  BY <1>4
<1>8. a * 128 + b * 64 + c \in Nat /\ a * 8 + b * 4 \in Nat /\ a \in Nat
  BY <1>4
<1>9. (n \div 128) % 2 = d /\ (n \div 256) % 16 = c /\ (n \div 16384) % 2 = b
  BY <1>6, <1>7, <1>8
<1> QED
  BY <1>5, <1>9 DEF a, b, c, d, e, n

(* The elements of two sequences joined. *)
LEMMA Concatenated ==
  ASSUME NEW s \in Seq(Nat), NEW t \in Seq(Nat)
  PROVE  /\ s \o t \in Seq(Nat) /\ Len(s \o t) = Len(s) + Len(t)
         /\ \A i \in 1..Len(s) : (s \o t)[i] = s[i]
         /\ \A i \in 1..Len(t) : (s \o t)[Len(s) + i] = t[i]
<1>1. s \o t \in Seq(Nat) /\ Len(s \o t) = Len(s) + Len(t)
  OBVIOUS
<1>2. ASSUME NEW i \in 1..Len(s) + Len(t)
      PROVE  (s \o t)[i] = IF i <= Len(s) THEN s[i] ELSE t[i - Len(s)]
  OBVIOUS
<1>3. Len(s) \in Nat /\ Len(t) \in Nat
  OBVIOUS
<1>4. ASSUME NEW i \in 1..Len(s) PROVE (s \o t)[i] = s[i]
  BY <1>2, <1>3
<1>5. ASSUME NEW i \in 1..Len(t) PROVE (s \o t)[Len(s) + i] = t[i]
  <2>1. Len(s) + i \in 1..Len(s) + Len(t) /\ ~(Len(s) + i <= Len(s)) /\ Len(s) + i - Len(s) = i
    BY <1>3
  <2> QED
    BY <1>2, <2>1
<1> QED
  BY <1>1, <1>4, <1>5

(* The elements of a part of a sequence. *)
LEMMA Slice ==
  ASSUME NEW S, NEW t \in Seq(S), NEW k \in Nat, NEW n \in Nat, k + n <= Len(t)
  PROVE  /\ SubSeq(t, k + 1, k + n) \in Seq(S)
         /\ Len(SubSeq(t, k + 1, k + n)) = n
         /\ \A i \in 1..n : SubSeq(t, k + 1, k + n)[i] = t[k + i]
<1>1. SubSeq(t, k + 1, k + n) \in Seq(S)
  OBVIOUS
<1>2. Len(SubSeq(t, k + 1, k + n)) = n
  OBVIOUS
<1>3. ASSUME NEW i \in 1..n PROVE SubSeq(t, k + 1, k + n)[i] = t[k + i]
  <2>1. i \in 1..(k+n) - (k + 1) + 1 /\ (k+1) + i - 1 = k + i
    OBVIOUS
  <2> QED
    BY <2>1
<1> QED
  BY <1>1, <1>2, <1>3

(* Sequences of one length with the same elements are the same. *)
LEMMA SameElements ==
  ASSUME NEW S, NEW s \in Seq(S), NEW t \in Seq(S), Len(s) = Len(t),
         \A i \in 1..Len(s) : s[i] = t[i]
  PROVE  s = t
  OBVIOUS

(* frameHeader() puts the bit field in front, then the size in as many bytes
   as ExtSize says, then the key. *)
LEMMA HeaderShape ==
  ASSUME NEW f \in Frames, NEW masked \in BOOLEAN, NEW key, IsKey(key)
  PROVE  LET h == FrameHeader(f, masked, uint32swap(key))
             ext == ExtSize(f.payloadSize)
         IN  /\ h \in Seq(Nat) /\ Len(h) = 2 + ext + 4 * Bit(masked)
             /\ Value2(h[1], h[2]) = BitField(f, masked)
             /\ ext = 2 => Value2(h[3], h[4]) = f.payloadSize
             /\ ext = 8 => \A i \in 1..8 : h[2 + i] = Bytes8(f.payloadSize)[i]
             /\ masked => \A i \in 1..4 : h[2 + ext + i] = key[i]
<1> DEFINE n == BitField(f, masked)
           size == f.payloadSize
           extended == CASE PayloadSize7bit(size) = 127 -> Bytes8(size)
                         [] PayloadSize7bit(size) = 126 -> Bytes2(size)
                         [] OTHER -> <<>>
           mask == IF masked THEN uint32swap(uint32swap(key)) ELSE <<>>
           h == FrameHeader(f, masked, uint32swap(key))
           ext == ExtSize(size)
           front == Bytes2(n)
<1>1. h = front \o extended \o mask
  BY DEF FrameHeader, BitField
<1>2. n \in Nat /\ n < 65536 /\ size \in Nat /\ ext \in {0, 2, 8}
  BY BitFieldDecoded, FrameType, SizeIn7Bits
<1>3. front \in Seq(Nat) /\ Len(front) = 2 /\ Value2(front[1], front[2]) = n
  BY <1>2, ByteParts, TwoBytes DEF Bytes2
<1>4. /\ extended \in Seq(Nat) /\ Len(extended) = ext
      /\ ext = 2 => Value2(extended[1], extended[2]) = size
      /\ ext = 8 => extended = Bytes8(size)
  <2>1. CASE PayloadSize7bit(size) = 127
    BY <2>1, FrameType, EightBytes DEF ExtSize
  <2>2. CASE PayloadSize7bit(size) = 126
    BY <2>2, <1>2, ByteParts, TwoBytes, SizeIn7Bits DEF ExtSize, Bytes2
  <2>3. CASE PayloadSize7bit(size) \notin {126, 127}
    BY <2>3 DEF ExtSize
  <2> QED
    BY <2>1, <2>2, <2>3
<1>5. /\ mask \in Seq(Nat) /\ Len(mask) = 4 * Bit(masked)
      /\ masked => \A i \in 1..4 : mask[i] = key[i]
  BY DEF uint32swap, IsKey, Bit
<1> HIDE DEF n, size, extended, mask, h, front, ext
<1>6. /\ front \o extended \in Seq(Nat) /\ Len(front \o extended) = 2 + ext
      /\ \A i \in 1..2 : (front \o extended)[i] = front[i]
      /\ \A i \in 1..ext : (front \o extended)[2 + i] = extended[i]
  <2>1. /\ front \o extended \in Seq(Nat) /\ Len(front \o extended) = Len(front) + Len(extended)
        /\ \A i \in 1..Len(front) : (front \o extended)[i] = front[i]
        /\ \A i \in 1..Len(extended) : (front \o extended)[Len(front) + i] = extended[i]
    BY <1>3, <1>4, Concatenated
  <2> QED
    BY <1>3, <1>4, <2>1
<1> DEFINE both == front \o extended
<1>7. h = both \o mask /\ both \in Seq(Nat) /\ Len(both) = 2 + ext
  BY <1>1, <1>6
<1> HIDE DEF both
<1>8. /\ h \in Seq(Nat) /\ Len(h) = 2 + ext + Len(mask)
      /\ \A i \in 1..2 + ext : h[i] = both[i]
      /\ \A i \in 1..Len(mask) : h[2 + ext + i] = mask[i]
  <2>1. /\ both \o mask \in Seq(Nat) /\ Len(both \o mask) = Len(both) + Len(mask)
        /\ \A i \in 1..Len(both) : (both \o mask)[i] = both[i]
        /\ \A i \in 1..Len(mask) : (both \o mask)[Len(both) + i] = mask[i]
    BY <1>7, <1>5, Concatenated
  <2> QED
    BY <1>7, <2>1
<1>8a. \A i \in 1..2 : h[i] = front[i]
  <2>1. \A i \in 1..2 : i \in 1..2 + ext
    BY <1>2
  <2> QED
    BY <1>6, <1>8, <2>1 DEF both
<1>8b. \A i \in 1..ext : h[2 + i] = extended[i]
  <2>1. \A i \in 1..ext : 2 + i \in 1..2 + ext
    BY <1>2
  <2> QED
    BY <1>6, <1>8, <2>1 DEF both
<1>9. Value2(h[1], h[2]) = n
  BY <1>3, <1>8a
<1>10. ext = 2 => Value2(h[3], h[4]) = size
  <2>1. ext = 2 => h[2 + 1] = extended[1] /\ h[2 + 2] = extended[2]
    BY <1>8b
  <2> QED
    BY <1>4, <2>1
<1>11. ext = 8 => \A i \in 1..8 : h[2 + i] = Bytes8(size)[i]
  BY <1>4, <1>8b
<1>12. masked => \A i \in 1..4 : h[2 + ext + i] = key[i]
  BY <1>5, <1>8 DEF Bit
<1> QED
  BY <1>5, <1>8, <1>9, <1>10, <1>11, <1>12 DEF n, size, h, ext

(* The invariant ----------------------------------------------------------*)
Plain(n) == [i \in 1..n |-> {}]
Masked(key, n) == [i \in 1..n |-> Xor({}, At(key, i - 1))]

MaskerType == [maskByte : Seq(Nat), maskUint32 : [0..3 -> Seq(Nat)], offset : 0..3]

(* The frame on the wire was written with one key. *)
Written(key) ==
  /\ IsKey(key)
  /\ header = FrameHeader(frame, sender # "server", uint32swap(key))
  /\ payload = IF sender = "server" THEN Plain(Len(payload)) ELSE Masked(key, Len(payload))
  /\ next = "payload" /\ sender # "server" =>
       masker["reader"].maskByte = key /\ masker["reader"].offset = Len(got) % 4

FirstPartRead ==
  /\ read.isFinal = Bit(frame.isFinal)
  /\ read.rsvBit1 = Bit(frame.compressionBit)
  /\ read.opcode = frame.opcode
  /\ read.hasMask = Bit(sender # "server")
  /\ read.payloadSize7bit = PayloadSize7bit(frame.payloadSize)
  /\ ExtSize(frame.payloadSize) = 0 => read.payloadSize = frame.payloadSize

IInv ==
  /\ TypeOK
  /\ got = Plain(Len(got)) /\ Len(got) <= Len(payload)
  /\ header = <<>> => next = "done" /\ payload = <<>>
  /\ header # <<>> => \E key : Written(key)
  /\ next \in {"header1", "header2"} => got = <<>>
  /\ next = "header2" => FirstPartRead
  /\ header # <<>> /\ next \in {"payload", "done"} => HeaderRead

(* A key repeats for ever. *)
LEMMA KeyBytes ==
  ASSUME NEW key, IsKey(key), NEW i \in Nat
  PROVE  At(key, i) \in Nat
<1>1. (i % 4) + 1 \in 1..4
  OBVIOUS
<1>2. key \in Seq(Nat) /\ Len(key) = 4
  BY DEF IsKey
<1>3. key[(i % 4) + 1] \in Nat
  BY <1>1, <1>2, ElementOfSeq
<1> QED
  BY <1>3 DEF At

(* newMask() starts a masker at the front of its key. *)
LEMMA NewMaskType ==
  ASSUME NEW key, IsKey(key)
  PROVE  /\ NewMask(key) \in MaskerType /\ IsMasker(NewMask(key))
         /\ NewMask(key).maskByte = key /\ NewMask(key).offset = 0
<1>1. \A k \in 0..3 : Rotated(key, k) \in Seq(Nat)
  <2> SUFFICES ASSUME NEW k \in 0..3 PROVE Rotated(key, k) \in Seq(Nat)
    OBVIOUS
  <2>1. \A j \in 1..4 : j - 1 + k \in Nat
    OBVIOUS
  <2>2. \A j \in 1..4 : At(key, j - 1 + k) \in Nat
    BY <2>1, KeyBytes
  <2>3. Rotated(key, k) = [j \in 1..4 |-> At(key, j - 1 + k)]
    BY DEF Rotated
  <2> QED
    BY <2>2, <2>3
<1>2. NewMask(key) \in MaskerType
  BY <1>1 DEF NewMask, MaskerType, IsKey
<1> QED
  BY <1>2 DEF NewMask, IsMasker

(* Masking a chunk changes the offset of a masker and nothing else. *)
LEMMA OffsetMoved ==
  ASSUME NEW m \in MaskerType, IsMasker(m), NEW offset \in 0..3
  PROVE  LET moved == [m EXCEPT !.offset = offset]
         IN  /\ moved \in MaskerType /\ IsMasker(moved)
             /\ moved.maskByte = m.maskByte /\ moved.offset = offset
  BY DEF MaskerType, IsMasker

(* Masking with the same byte twice restores a byte; a key of zero leaves it. *)
LEMMA XorTwice ==
  ASSUME NEW k \in Nat
  PROVE  /\ Xor({}, k) \in SUBSET Nat
         /\ Xor(Xor({}, k), k) = {}
         /\ Xor({}, 0) = {}
  BY DEF Xor

(* A payload as it was given to the writer. *)
LEMMA PlainType ==
  ASSUME NEW n \in Nat
  PROVE  Plain(n) \in Seq(SUBSET Nat) /\ Len(Plain(n)) = n
  BY DEF Plain

(* A payload as the reference of protocolRelated.js masks it. *)
LEMMA MaskedType ==
  ASSUME NEW n \in Nat, NEW key, IsKey(key)
  PROVE  /\ Masked(key, n) \in Seq(SUBSET Nat) /\ Len(Masked(key, n)) = n
         /\ xorWithMaskingKey(key, Plain(n)) = Masked(key, n)
<1>1. ASSUME NEW i \in 1..n PROVE Xor({}, At(key, i - 1)) \in SUBSET Nat
  <2>1. i - 1 \in Nat
    OBVIOUS
  <2> QED
    BY <2>1, KeyBytes, XorTwice
<1>2. Len(Plain(n)) = n
  BY PlainType
<1>3. Masked(key, n) \in Seq(SUBSET Nat) /\ Len(Masked(key, n)) = n
  BY <1>1 DEF Masked
<1>4. xorWithMaskingKey(key, Plain(n)) = Masked(key, n)
  BY <1>2 DEF xorWithMaskingKey, Masked, Plain
<1> QED
  BY <1>3, <1>4

(* The last four bytes of a header with a mask are the key. *)
LEMMA KeyInHeader ==
  ASSUME NEW key, Written(key), TypeOK, sender # "server"
  PROVE  MaskingKey = key
<1> DEFINE ext == ExtSize(frame.payloadSize)
           masked == sender # "server"
<1>0. /\ frame \in Frames /\ IsKey(key) /\ masked \in BOOLEAN /\ masked
      /\ header = FrameHeader(frame, masked, uint32swap(key))
  BY DEF Written, TypeOK
<1> HIDE DEF masked
<1>1. /\ header \in Seq(Nat) /\ Len(header) = 2 + ext + 4 * Bit(masked)
      /\ \A i \in 1..4 : header[2 + ext + i] = key[i]
  BY <1>0, HeaderShape
<1>1a. Bit(masked) = 1
  BY <1>0 DEF Bit
<1>2. ext \in Nat
  BY <1>0, SizeIn7Bits, FrameType
<1> HIDE DEF ext
<1>3. Len(header) = 6 + ext
  BY <1>1, <1>1a, <1>2
<1>4. MaskingKey = SubSeq(header, (2 + ext) + 1, (2 + ext) + 4)
  <2>1. Len(header) - 3 = (2 + ext) + 1 /\ Len(header) = (2 + ext) + 4
    BY <1>2, <1>3
  <2> QED
    BY <2>1 DEF MaskingKey
<1> DEFINE s == SubSeq(header, (2 + ext) + 1, (2 + ext) + 4)
<1>5. s \in Seq(Nat) /\ Len(s) = 4 /\ \A i \in 1..4 : s[i] = header[2 + ext + i]
  <2> DEFINE k == 2 + ext
  <2>1. header \in Seq(Nat) /\ k \in Nat /\ 4 \in Nat /\ k + 4 <= Len(header)
    BY <1>1, <1>2, <1>3
  <2> HIDE DEF k
  <2>2. /\ SubSeq(header, k + 1, k + 4) \in Seq(Nat)
        /\ Len(SubSeq(header, k + 1, k + 4)) = 4
        /\ \A i \in 1..4 : SubSeq(header, k + 1, k + 4)[i] = header[k + i]
    BY <2>1, Slice
  <2> QED
    BY <2>2 DEF k
<1>6. key \in Seq(Nat) /\ Len(key) = 4
  BY DEF Written, IsKey
<1> HIDE DEF s
<1>7. s = key
  BY <1>1, <1>5, <1>6, SameElements
<1> QED
  BY <1>4, <1>7 DEF s

(* The mask of zeroMasking is a key. *)
LEMMA ZeroIsKey == IsKey(Zero) /\ uint32swap(Zero) = Zero /\ \A i \in Nat : At(Zero, i) = 0
<1>1. IsKey(Zero)
  BY DEF IsKey, Zero
<1>2. uint32swap(Zero) = Zero
  BY DEF uint32swap, Zero
<1>3. ASSUME NEW i \in Nat PROVE At(Zero, i) = 0
  <2>1. (i % 4) + 1 \in 1..4
    OBVIOUS
  <2>2. \A j \in 1..4 : Zero[j] = 0
    BY DEF Zero
  <2> QED
    BY <2>1, <2>2 DEF At
<1> QED
  BY <1>1, <1>2, <1>3

(* Masking with zero leaves the payload as it is. *)
LEMMA MaskedWithZero ==
  ASSUME NEW n \in Nat
  PROVE  Masked(Zero, n) = Plain(n)
<1>1. \A i \in 1..n : i - 1 \in Nat
  OBVIOUS
<1>2. \A i \in 1..n : Xor({}, At(Zero, i - 1)) = {}
  BY <1>1, ZeroIsKey, XorTwice
<1> QED
  BY <1>2 DEF Masked, Plain

(* The writer masks all of a payload at once, from the start of the key.   *)
LEMMA MaskedWhole ==
  ASSUME NEW n \in Nat, NEW key, IsKey(key), NEW aligned \in BOOLEAN
  PROVE  /\ MaskInPlace(NewMask(key), Plain(n), aligned) = Masked(key, n)
         /\ OffsetAfter(NewMask(key), n, aligned) \in 0..3
<1> DEFINE m == NewMask(key)
           data == Plain(n)
<1>1. IsMasker(m) /\ m.maskByte = key /\ m.offset = 0
  BY NewMaskType
<1>2. data \in Seq(SUBSET Nat) /\ Len(data) = n /\ \A i \in 1..n : data[i] = {}
  BY PlainType DEF Plain
<1> HIDE DEF m, data
<1>3. /\ MaskInPlace(m, data, aligned)
           = [i \in 1..n |-> Xor(data[i], At(m.maskByte, m.offset + i - 1))]
      /\ OffsetAfter(m, n, aligned) = (m.offset + n) % 4
  BY <1>1, <1>2, MaskedByOffset
<1>4. \A i \in 1..n : m.offset + i - 1 = i - 1
  BY <1>1
<1>5. MaskInPlace(m, data, aligned) = Masked(key, n)
  BY <1>1, <1>2, <1>3, <1>4 DEF Masked
<1>6. OffsetAfter(m, n, aligned) \in 0..3
  BY <1>1, <1>3
<1> QED
  BY <1>5, <1>6 DEF m, data

(* Both ends start idle, each with a masker of zero. *)
LEMMA InitHolds == Init => IInv
<1> SUFFICES ASSUME Init PROVE IInv
  OBVIOUS
<1>1. NewMask(Zero) \in MaskerType /\ IsMasker(NewMask(Zero))
  BY ZeroIsKey, NewMaskType
<1>2. TypeOK
  <2>1. /\ header = <<>> /\ payload = <<>> /\ got = <<>> /\ next = "done"
        /\ sender \in {"client", "zero", "server"} /\ frame \in Frames
    BY DEF Init
  <2>2. \A S : <<>> \in Seq(S) /\ Len(<<>>) = 0
    OBVIOUS
  <2>3. Tracked \in Nat
    BY WireAssumption DEF WireAssumption
  <2>4. /\ masker \in [{"writer", "reader"} -> MaskerType]
        /\ \A end \in {"writer", "reader"} : IsMasker(masker[end])
    BY <1>1 DEF Init
  <2>5. read \in [isFinal : 0..1, rsvBit1 : 0..1, opcode : 0..15, hasMask : 0..1,
                  payloadSize7bit : 0..127, payloadSize : Nat]
    BY DEF Init
  <2> QED
    BY <2>1, <2>2, <2>3, <2>4, <2>5 DEF TypeOK, MaskerType
<1>3. Plain(0) = <<>> /\ Len(<<>>) = 0
  BY DEF Plain
<1> QED
  BY <1>2, <1>3 DEF Init, IInv

(* #writeFrame() keeps the invariant: what it writes is Written(key). *)
LEMMA WriteFrameStep ==
  ASSUME IInv, NEW f \in Frames, NEW key \in Masks, NEW aligned \in BOOLEAN, WriteFrame(f, key, aligned)
  PROVE  IInv'
<1> DEFINE n == IF f.payloadSize < Tracked THEN f.payloadSize ELSE Tracked
           used == IF sender = "zero" THEN Zero ELSE key
<1>1. n \in Nat /\ n <= Tracked
  BY FrameType, WireAssumption DEF WireAssumption
<1>2. IsKey(key) /\ IsKey(used)
  BY ZeroIsKey, WireAssumption DEF WireAssumption
<1>3. sender \in {"client", "zero", "server"} /\ sender' = sender /\ frame' = f /\ got' = <<>>
      /\ next' = "header1" /\ read' = read
  BY DEF WriteFrame, IInv, TypeOK
<1>4. header' = FrameHeader(f, sender # "server", uint32swap(used))
  BY ZeroIsKey DEF WriteFrame
<1>5. header' \in Seq(Nat) /\ header' # <<>>
  <2> DEFINE masked == sender # "server"
             h == FrameHeader(f, masked, uint32swap(used))
             ext == ExtSize(f.payloadSize)
  <2>1. masked \in BOOLEAN /\ ext \in {0, 2, 8}
    BY FrameType, SizeIn7Bits
  <2> HIDE DEF masked, ext, used
  <2>2. h \in Seq(Nat) /\ Len(h) = 2 + ext + 4 * Bit(masked)
    BY <1>2, <2>1, HeaderShape DEF ext
  <2>3. Bit(masked) \in {0, 1}
    BY <2>1 DEF Bit
  <2>4. Len(h) # 0
    BY <2>1, <2>2, <2>3
  <2> QED
    BY <1>4, <2>2, <2>4 DEF masked
<1>6. payload' = (IF sender = "server" THEN Plain(n) ELSE Masked(used, n))
  <2>1. CASE sender = "client"
    BY <2>1, <1>1, <1>2, MaskedWhole DEF WriteFrame, Plain
  <2>2. CASE sender = "zero"
    BY <2>2, <1>1, MaskedWithZero DEF WriteFrame, Plain
  <2>3. CASE sender = "server"
    BY <2>3 DEF WriteFrame, Plain
  <2> QED
    BY <1>3, <2>1, <2>2, <2>3
<1>7. payload' \in Seq(SUBSET Nat) /\ Len(payload') = n
  BY <1>1, <1>2, <1>6, PlainType, MaskedType
<1>8. /\ masker' \in [{"writer", "reader"} -> MaskerType]
      /\ \A end \in {"writer", "reader"} : IsMasker(masker'[end])
  <2>1. /\ masker \in [{"writer", "reader"} -> MaskerType]
        /\ \A end \in {"writer", "reader"} : IsMasker(masker[end])
    BY DEF IInv, TypeOK, MaskerType
  <2>2. CASE sender # "client"
    BY <2>1, <2>2 DEF WriteFrame
  <2>3. CASE sender = "client"
    <3> DEFINE m == [NewMask(key) EXCEPT !.offset = OffsetAfter(NewMask(key), n, aligned)]
    <3>1. m \in MaskerType /\ IsMasker(m)
      BY <1>1, <1>2, NewMaskType, MaskedWhole, OffsetMoved
    <3>2. masker' = [masker EXCEPT !["writer"] = m]
      BY <2>3, <1>1, PlainType DEF WriteFrame, Plain
    <3> HIDE DEF m
    <3> QED
      BY <2>1, <3>1, <3>2
  <2> QED
    BY <2>2, <2>3
<1>9. TypeOK'
  BY <1>1, <1>3, <1>5, <1>7, <1>8 DEF TypeOK, IInv, MaskerType
<1>10. Written(used)'
  BY <1>2, <1>3, <1>4, <1>6, <1>7 DEF Written
<1>11. Plain(0) = <<>> /\ Len(<<>>) = 0
  BY DEF Plain
<1> QED
  BY <1>1, <1>3, <1>5, <1>7, <1>9, <1>10, <1>11 DEF IInv

(* #read16bitHeader() keeps the invariant: it takes the first two bytes apart. *)
LEMMA Read16bitHeaderStep ==
  ASSUME IInv, Read16bitHeader
  PROVE  IInv'
<1> DEFINE masked == sender # "server"
           size == frame.payloadSize
           bits == Value2(header[1], header[2])
           size7 == PayloadSize7bit(size)
           r == [isFinal |-> bits \div 32768, rsvBit1 |-> (bits \div 16384) % 2,
                 opcode |-> (bits \div 256) % 16, hasMask |-> (bits \div 128) % 2,
                 payloadSize7bit |-> bits % 128,
                 payloadSize |-> IF bits % 128 < 126 THEN bits % 128 ELSE 0]
<1>1. PICK key : Written(key)
  BY DEF IInv, Read16bitHeader
<1>2. frame \in Frames /\ masked \in BOOLEAN /\ size \in Nat
  BY FrameType DEF IInv, TypeOK
<1>3. bits = BitField(frame, masked)
  BY <1>1, <1>2, HeaderShape DEF Written
<1>4. /\ read' = r
      /\ next' = (IF Header2Size(r) > 0 THEN "header2" ELSE NextAfterHeader(r.payloadSize))
      /\ UNCHANGED <<sender, frame, header, payload, masker, got>>
      /\ next = "header1" /\ got = <<>> /\ header # <<>>
  BY DEF Read16bitHeader, IInv
<1> HIDE DEF masked, bits
<1>5. /\ bits % 128 = size7
      /\ (bits \div 128) % 2 = Bit(masked)
      /\ (bits \div 256) % 16 = frame.opcode
      /\ (bits \div 16384) % 2 = Bit(frame.compressionBit)
      /\ bits \div 32768 = Bit(frame.isFinal)
  BY <1>2, <1>3, BitFieldDecoded
<1>6. r = [isFinal |-> Bit(frame.isFinal), rsvBit1 |-> Bit(frame.compressionBit),
           opcode |-> frame.opcode, hasMask |-> Bit(masked), payloadSize7bit |-> size7,
           payloadSize |-> IF size7 < 126 THEN size7 ELSE 0]
  BY <1>5
<1>7. Header2Size(r) = ExtSize(size) + 4 * Bit(masked)
  BY <1>6 DEF Header2Size, ExtSize
<1>8. /\ size7 \in 0..127 /\ ExtSize(size) \in {0, 2, 8}
      /\ ExtSize(size) = 0 => size < 126 /\ size7 = size
  BY <1>2, SizeIn7Bits
<1>9. \A x \in BOOLEAN : Bit(x) \in {0, 1} /\ (x <=> Bit(x) = 1)
  BY DEF Bit
<1> HIDE DEF r, size7
<1>10. /\ read'.isFinal = Bit(frame.isFinal) /\ read'.rsvBit1 = Bit(frame.compressionBit)
       /\ read'.opcode = frame.opcode /\ read'.hasMask = Bit(masked)
       /\ read'.payloadSize7bit = size7
       /\ ExtSize(size) = 0 => read'.payloadSize = size
  BY <1>4, <1>6, <1>8
<1>11. FirstPartRead'
  BY <1>4, <1>10 DEF FirstPartRead, masked, size7
<1>12. read' \in [isFinal : 0..1, rsvBit1 : 0..1, opcode : 0..15, hasMask : 0..1,
                  payloadSize7bit : 0..127, payloadSize : Nat]
  <2>1. /\ Bit(frame.isFinal) \in 0..1 /\ Bit(frame.compressionBit) \in 0..1 /\ Bit(masked) \in 0..1
        /\ frame.opcode \in 0..15
    BY <1>2, <1>9, FrameType
  <2>2. (IF size7 < 126 THEN size7 ELSE 0) \in Nat
    BY <1>8
  <2> QED
    BY <1>4, <1>6, <1>8, <2>1, <2>2
<1>13. CASE Header2Size(r) > 0
  <2>1. next' = "header2"
    BY <1>4, <1>13
  <2>2. TypeOK'
    BY <1>4, <1>12, <2>1 DEF IInv, TypeOK
  <2>3. Written(key)'
    BY <1>1, <1>4, <2>1 DEF Written
  <2> QED
    BY <1>4, <1>11, <2>1, <2>2, <2>3 DEF IInv
<1>14. CASE ~(Header2Size(r) > 0)
  <2>1. ExtSize(size) = 0 /\ Bit(masked) = 0
    BY <1>2, <1>7, <1>8, <1>9, <1>14
  <2>2. next' \in {"payload", "done"}
    BY <1>4, <1>14 DEF NextAfterHeader
  <2>3. sender = "server"
    BY <1>2, <1>9, <2>1 DEF masked
  <2>4. TypeOK'
    BY <1>4, <1>12, <2>2 DEF IInv, TypeOK
  <2>5. Written(key)'
    BY <1>1, <1>4, <2>2, <2>3 DEF Written
  <2>6. HeaderRead'
    BY <1>4, <1>10, <2>1 DEF HeaderRead, masked
  <2> QED
    BY <1>4, <2>2, <2>4, <2>5, <2>6 DEF IInv
<1> QED
  BY <1>13, <1>14

(* #readRestOfHeader() keeps the invariant: the size is that of the frame,
   never refused as too large, and the reader's masker gets the writer's key. *)
LEMMA ReadRestOfHeaderStep ==
  ASSUME IInv, ReadRestOfHeader
  PROVE  IInv'
<1> DEFINE masked == sender # "server"
           size == frame.payloadSize
           rest == SubSeq(header, 3, 2 + Header2Size(read))
           ext == Header2Size(read) - 4 * read.hasMask
           decoded == CASE ext = 8 -> Value8(rest) [] ext = 2 -> Value2(rest[1], rest[2])
                        [] OTHER -> read.payloadSize
           e == ExtSize(size)
           b == Bit(masked)
           maskNumber == <<rest[ext + 4], rest[ext + 3], rest[ext + 2], rest[ext + 1]>>
<1>1. PICK key : Written(key)
  BY DEF IInv, ReadRestOfHeader
<1>2. /\ frame \in Frames /\ masked \in BOOLEAN /\ IsKey(key)
      /\ next = "header2" /\ got = <<>> /\ header # <<>> /\ FirstPartRead
      /\ header = FrameHeader(frame, masked, uint32swap(key))
  BY <1>1 DEF IInv, TypeOK, ReadRestOfHeader, Written
<1>3. /\ size \in Nat /\ ((size \div 65536) \div 65536) \div 65536 < 32
      /\ e \in {0, 2, 8}
  BY <1>2, FrameType, SizeIn7Bits
<1>4. b \in {0, 1} /\ (masked => b = 1) /\ (~masked => b = 0) /\ read.hasMask = b
  BY <1>2 DEF Bit, FirstPartRead
<1>5. Header2Size(read) = e + 4 * b /\ ext = e
  <2>1. Header2Size(read) = e + 4 * b
    BY <1>2 DEF Header2Size, ExtSize, FirstPartRead
  <2> HIDE DEF e, b
  <2> QED
    BY <2>1, <1>3, <1>4
<1>6. /\ header \in Seq(Nat) /\ Len(header) = 2 + e + 4 * b
      /\ e = 2 => Value2(header[3], header[4]) = size
      /\ e = 8 => \A i \in 1..8 : header[2 + i] = Bytes8(size)[i]
      /\ masked => \A i \in 1..4 : header[2 + e + i] = key[i]
  <2> HIDE DEF masked
  <2> QED
    BY <1>2, HeaderShape
<1> HIDE DEF e, b
<1>7. \A i \in 1..e + 4 * b : rest[i] = header[2 + i]
  <2> DEFINE n == e + 4 * b
  <2>1. n \in Nat /\ 2 + n <= Len(header) /\ 2 \in Nat
    BY <1>3, <1>4, <1>6
  <2>2. rest = SubSeq(header, 2 + 1, 2 + n)
    BY <1>5
  <2> HIDE DEF n, rest
  <2>3. \A i \in 1..n : SubSeq(header, 2 + 1, 2 + n)[i] = header[2 + i]
    BY <1>6, <2>1, Slice
  <2> QED
    BY <2>2, <2>3 DEF n
<1> HIDE DEF masked, rest, ext
<1>8. ext = 8 => ~Unsafe(rest) /\ Value8(rest) = size
  <2> SUFFICES ASSUME ext = 8 PROVE ~Unsafe(rest) /\ Value8(rest) = size
    OBVIOUS
  <2>1. \A i \in 1..8 : i \in 1..e + 4 * b
    BY <1>4, <1>5
  <2>2. \A i \in 1..8 : rest[i] = Bytes8(size)[i]
    BY <1>5, <1>6, <1>7, <2>1
  <2>3. Unsafe(rest) = Unsafe(Bytes8(size)) /\ Value8(rest) = Value8(Bytes8(size))
    BY <2>2 DEF Unsafe, Value8
  <2> QED
    BY <1>3, <2>3, EightBytes
<1>9. decoded = size
  <2>1. CASE ext = 8
    BY <2>1, <1>8
  <2>2. CASE ext = 2
    <3>1. rest[1] = header[2 + 1] /\ rest[2] = header[2 + 2]
      BY <2>2, <1>4, <1>5, <1>7
    <3> QED
      BY <2>2, <3>1, <1>5, <1>6
  <2>3. CASE ext = 0
    BY <2>3, <1>2, <1>5 DEF FirstPartRead, e
  <2> QED
    BY <1>3, <1>5, <2>1, <2>2, <2>3
<1>10. masked => NewMaskOfNumber(maskNumber) = NewMask(key)
  <2> SUFFICES ASSUME masked PROVE uint32swap(maskNumber) = key
    BY DEF NewMaskOfNumber
  <2>1. \A i \in 1..4 : ext + i \in 1..e + 4 * b /\ 2 + (ext + i) = 2 + e + i
    BY <1>3, <1>4, <1>5
  <2>2. \A i \in 1..4 : rest[ext + i] = header[2 + e + i]
    BY <2>1, <1>7
  <2>3. \A i \in 1..4 : rest[ext + i] = key[i]
    BY <2>2, <1>6
  <2>4. uint32swap(maskNumber) = <<rest[ext + 1], rest[ext + 2], rest[ext + 3], rest[ext + 4]>>
    BY DEF uint32swap
  <2>5. uint32swap(maskNumber) = <<key[1], key[2], key[3], key[4]>>
    BY <2>3, <2>4
  <2>6. key = <<key[1], key[2], key[3], key[4]>>
    BY <1>2 DEF IsKey
  <2> QED
    BY <2>5, <2>6
<1>11. /\ read' = [read EXCEPT !.payloadSize = size]
       /\ masker' = IF masked THEN [masker EXCEPT !["reader"] = NewMask(key)] ELSE masker
       /\ next' = NextAfterHeader(size)
       /\ UNCHANGED <<sender, frame, header, payload, got>>
  <2>1. ~(ext = 8 /\ Unsafe(rest))
    BY <1>8
  <2>2. /\ read' = [read EXCEPT !.payloadSize = decoded]
        /\ masker' = IF read.hasMask = 1
                     THEN [masker EXCEPT !["reader"] = NewMaskOfNumber(maskNumber)] ELSE masker
        /\ next' = NextAfterHeader(decoded)
        /\ UNCHANGED <<sender, frame, header, payload, got>>
    BY <2>1 DEF ReadRestOfHeader, rest, ext
  <2> HIDE DEF decoded, maskNumber, size
  <2>3. CASE masked
    <3>1. read.hasMask = 1 /\ NewMaskOfNumber(maskNumber) = NewMask(key)
      BY <2>3, <1>4, <1>10
    <3>2. masker' = [masker EXCEPT !["reader"] = NewMask(key)]
      BY <2>2, <3>1
    <3> QED
      BY <2>2, <2>3, <3>2, <1>9
  <2>4. CASE ~masked
    <3>1. read.hasMask # 1
      BY <2>4, <1>4
    <3>2. masker' = masker
      BY <2>2, <3>1
    <3> QED
      BY <2>2, <2>4, <3>2, <1>9
  <2> QED
    BY <2>3, <2>4
<1>12. next' \in {"payload", "done"}
  BY <1>11 DEF NextAfterHeader
<1>13. /\ NewMask(key) \in MaskerType /\ IsMasker(NewMask(key))
       /\ NewMask(key).maskByte = key /\ NewMask(key).offset = 0
  BY <1>2, NewMaskType
<1>14. /\ masker' \in [{"writer", "reader"} -> MaskerType]
       /\ \A end \in {"writer", "reader"} : IsMasker(masker'[end])
       /\ masked => masker'["reader"] = NewMask(key)
  <2>1. /\ masker \in [{"writer", "reader"} -> MaskerType]
        /\ \A end \in {"writer", "reader"} : IsMasker(masker[end])
    BY DEF IInv, TypeOK, MaskerType
  <2> QED
    BY <1>11, <1>13, <2>1
<1>15. read' \in [isFinal : 0..1, rsvBit1 : 0..1, opcode : 0..15, hasMask : 0..1,
                  payloadSize7bit : 0..127, payloadSize : Nat]
  <2>1. read \in [isFinal : 0..1, rsvBit1 : 0..1, opcode : 0..15, hasMask : 0..1,
                  payloadSize7bit : 0..127, payloadSize : Nat]
    BY DEF IInv, TypeOK
  <2> HIDE DEF size
  <2> QED
    BY <1>3, <1>11, <2>1
<1>16. TypeOK'
  BY <1>11, <1>12, <1>14, <1>15 DEF IInv, TypeOK, MaskerType
<1>17. Written(key)'
  BY <1>1, <1>2, <1>11, <1>13, <1>14 DEF Written, masked
<1>18. HeaderRead'
  BY <1>2, <1>4, <1>11 DEF HeaderRead, FirstPartRead, masked, IInv, TypeOK
<1> QED
  BY <1>2, <1>11, <1>12, <1>16, <1>17, <1>18 DEF IInv

(* Restored bytes after restored bytes. *)
LEMMA Joined ==
  ASSUME NEW g \in Nat, NEW n \in Nat, NEW c \in Seq(SUBSET Nat), Len(c) = n,
         \A i \in 1..n : c[i] = {}
  PROVE  Plain(g) \o c = Plain(g + n)
<1> DEFINE p == Plain(g)
<1>1. p \in Seq(SUBSET Nat) /\ Len(p) = g /\ \A i \in 1..g : p[i] = {}
  BY PlainType DEF Plain
<1>2. Plain(g + n) \in Seq(SUBSET Nat) /\ Len(Plain(g + n)) = g + n
      /\ \A i \in 1..g + n : Plain(g + n)[i] = {}
  BY PlainType DEF Plain
<1> HIDE DEF p
<1>3. p \o c \in Seq(SUBSET Nat) /\ Len(p \o c) = g + n
  BY <1>1
<1>4. ASSUME NEW i \in 1..g + n PROVE (p \o c)[i] = {}
  <2>1. (p \o c)[i] = IF i <= g THEN p[i] ELSE c[i - g]
    BY <1>1
  <2>2. CASE i <= g
    BY <1>1, <2>1, <2>2
  <2>3. CASE ~(i <= g)
    <3>1. i - g \in 1..n
      BY <2>3
    <3> QED
      BY <2>1, <2>3, <3>1
  <2> QED
    BY <2>2, <2>3
<1>5. \A i \in 1..Len(p \o c) : (p \o c)[i] = Plain(g + n)[i]
  BY <1>2, <1>3, <1>4
<1>6. p \o c = Plain(g + n)
  BY <1>2, <1>3, <1>5, SameElements
<1> QED
  BY <1>6 DEF p

(* #consumePayloadChunk() keeps the invariant: the reader's masker stands at
   the byte of the key that the next byte of the payload was masked with. *)
LEMMA ConsumePayloadChunkStep ==
  ASSUME IInv, NEW n \in 1..Tracked, NEW aligned \in BOOLEAN, ConsumePayloadChunk(n, aligned)
  PROVE  IInv'
<1> DEFINE g == Len(got)
           total == Len(payload)
           chunk == SubSeq(payload, g + 1, g + n)
           m == masker["reader"]
           masked == sender # "server"
           taken == IF masked THEN MaskInPlace(m, chunk, aligned) ELSE chunk
<1>1. /\ next = "payload" /\ g + n <= total
      /\ UNCHANGED <<sender, frame, header, payload, read>>
      /\ next' = IF g + n = total THEN "done" ELSE "payload"
      /\ got' = got \o taken
  BY DEF ConsumePayloadChunk
<1>2. header # <<>>
  BY <1>1 DEF IInv
<1>3. PICK key : Written(key)
  BY <1>2 DEF IInv
<1>4. g \in Nat /\ n \in Nat /\ n >= 1 /\ total \in Nat /\ payload \in Seq(SUBSET Nat) /\ got = Plain(g)
  <2>1. Tracked \in Nat
    BY WireAssumption DEF WireAssumption
  <2>2. payload \in Seq(SUBSET Nat) /\ got \in Seq(SUBSET Nat) /\ got = Plain(g)
    BY DEF IInv, TypeOK
  <2> QED
    BY <2>1, <2>2
<1>5. /\ chunk \in Seq(SUBSET Nat) /\ Len(chunk) = n
      /\ \A i \in 1..n : chunk[i] = payload[g + i]
  <2>1. payload \in Seq(SUBSET Nat) /\ g \in Nat /\ n \in Nat /\ g + n <= Len(payload)
    BY <1>1, <1>4
  <2> HIDE DEF g
  <2>2. /\ SubSeq(payload, g + 1, g + n) \in Seq(SUBSET Nat)
        /\ Len(SubSeq(payload, g + 1, g + n)) = n
        /\ \A i \in 1..n : SubSeq(payload, g + 1, g + n)[i] = payload[g + i]
    BY <2>1, Slice
  <2> QED
    BY <2>2
<1>6. \A i \in 1..n : g + i \in 1..total /\ g + i - 1 \in Nat
  BY <1>1, <1>4
<1>7. /\ m \in MaskerType /\ IsMasker(m)
      /\ masker \in [{"writer", "reader"} -> MaskerType]
      /\ \A end \in {"writer", "reader"} : IsMasker(masker[end])
  BY DEF IInv, TypeOK, MaskerType
<1>8. masked => /\ m.maskByte = key /\ m.offset = g % 4 /\ IsKey(key)
                /\ payload = Masked(key, total)
  BY <1>1, <1>3 DEF Written
<1>9. ~masked => payload = Plain(total)
  BY <1>3 DEF Written
<1> DEFINE moved == [m EXCEPT !.offset = OffsetAfter(m, n, aligned)]
<1>10. masker' = IF masked THEN [masker EXCEPT !["reader"] = moved] ELSE masker
  BY <1>7 DEF ConsumePayloadChunk
<1> HIDE DEF g, total, chunk, m
<1>11. ASSUME masked
       PROVE  /\ taken = [i \in 1..n |-> Xor(chunk[i], At(key, (g % 4) + i - 1))]
              /\ OffsetAfter(m, n, aligned) = (g + n) % 4
  <2>1. /\ MaskInPlace(m, chunk, aligned)
             = [i \in 1..Len(chunk) |-> Xor(chunk[i], At(m.maskByte, m.offset + i - 1))]
        /\ OffsetAfter(m, Len(chunk), aligned) = (m.offset + Len(chunk)) % 4
    BY <1>5, <1>7, MaskedByOffset
  <2>2. ((g % 4) + n) % 4 = (g + n) % 4
    BY <1>4
  <2> QED
    BY <2>1, <2>2, <1>5, <1>8, <1>11
<1>12. ASSUME NEW i \in 1..n PROVE payload[g + i] = IF masked THEN Xor({}, At(key, g + i - 1)) ELSE {}
  <2> DEFINE j == g + i
  <2>1. j \in 1..total
    BY <1>6
  <2> HIDE DEF j
  <2>2. CASE masked
    <3>1. payload = [x \in 1..total |-> Xor({}, At(key, x - 1))]
      BY <2>2, <1>8 DEF Masked
    <3>2. payload[j] = Xor({}, At(key, j - 1))
      BY <2>1, <3>1
    <3>3. j - 1 = g + i - 1
      BY <1>4 DEF j
    <3>4. payload[j] = Xor({}, At(key, g + i - 1))
      BY <3>2, <3>3
    <3> QED
      BY <2>2, <3>4 DEF j
  <2>3. CASE ~masked
    <3>1. payload[j] = {}
      BY <2>1, <2>3, <1>9 DEF Plain
    <3> QED
      BY <2>3, <3>1 DEF j
  <2> QED
    BY <2>2, <2>3
<1>13. taken \in Seq(SUBSET Nat) /\ Len(taken) = n /\ \A i \in 1..n : taken[i] = {}
  <2>1. CASE masked
    <3>1. ASSUME NEW i \in 1..n PROVE Xor(chunk[i], At(key, (g % 4) + i - 1)) = {}
      <4> DEFINE k == At(key, g + i - 1)
      <4>1. ((g % 4) + i - 1) % 4 = (g + i - 1) % 4
        BY <1>4
      <4>2. At(key, (g % 4) + i - 1) = k
        BY <4>1 DEF At
      <4>3. k \in Nat
        BY <1>6, <1>8, <2>1, KeyBytes
      <4>4. chunk[i] = Xor({}, k)
        BY <1>5, <1>12, <2>1
      <4> HIDE DEF k
      <4> QED
        BY <4>2, <4>3, <4>4, XorTwice
    <3>2. taken = [i \in 1..n |-> {}]
      BY <1>11, <2>1, <3>1
    <3> HIDE DEF taken
    <3> QED
      BY <1>4, <3>2
  <2>2. CASE ~masked
    BY <1>5, <1>12, <2>2
  <2> QED
    BY <2>1, <2>2
<1> HIDE DEF taken
<1>14. got' = Plain(g + n) /\ g + n \in Nat
  <2>1. Plain(g) \o taken = Plain(g + n)
    BY <1>4, <1>13, Joined
  <2> QED
    BY <2>1, <1>1, <1>4
<1>15. got' \in Seq(SUBSET Nat) /\ Len(got') = g + n
  BY <1>14, PlainType
<1>16. /\ masker' \in [{"writer", "reader"} -> MaskerType]
       /\ \A end \in {"writer", "reader"} : IsMasker(masker'[end])
       /\ masked => masker'["reader"].maskByte = key /\ masker'["reader"].offset = (g + n) % 4
  <2>1. CASE ~masked
    BY <2>1, <1>7, <1>10
  <2>2. CASE masked
    <3>1. (g + n) % 4 \in 0..3
      BY <1>14
    <3>2. OffsetAfter(m, n, aligned) = (g + n) % 4
      BY <2>2, <1>11
    <3>3. /\ moved \in MaskerType /\ IsMasker(moved)
          /\ moved.maskByte = key /\ moved.offset = (g + n) % 4
      BY <2>2, <3>1, <3>2, <1>7, <1>8, OffsetMoved
    <3>4. masker' = [masker EXCEPT !["reader"] = moved]
      BY <2>2, <1>10
    <3> HIDE DEF moved
    <3> QED
      BY <3>3, <3>4, <1>7
  <2> QED
    BY <2>1, <2>2
<1>17. next' \in {"payload", "done"}
  BY <1>1
<1>18. TypeOK'
  BY <1>1, <1>15, <1>16, <1>17 DEF IInv, TypeOK, MaskerType
<1>19. Written(key)'
  BY <1>1, <1>3, <1>15, <1>16 DEF Written
<1>20. HeaderRead'
  BY <1>1, <1>2 DEF IInv, HeaderRead
<1> QED
  BY <1>1, <1>2, <1>14, <1>15, <1>17, <1>18, <1>19, <1>20 DEF IInv, total

(* The invariant holds in every state, for any sizes, opcodes and keys. *)
LEMMA Invariant == Spec => []IInv
<1>1. ASSUME IInv, [Next]_vars PROVE IInv'
  <2>1. CASE UNCHANGED vars
    <3>1. UNCHANGED <<sender, frame, header, payload, masker, next, read, got>>
      BY <2>1 DEF vars
    <3>2. TypeOK'
      BY <1>1, <3>1 DEF IInv, TypeOK
    <3>3. HeaderRead => HeaderRead'
      BY <3>1 DEF HeaderRead
    <3>4. FirstPartRead => FirstPartRead'
      BY <3>1 DEF FirstPartRead
    <3>5. ASSUME NEW key, Written(key) PROVE Written(key)'
      BY <3>1, <3>5 DEF Written
    <3> QED
      BY <1>1, <3>1, <3>2, <3>3, <3>4, <3>5 DEF IInv
  <2>2. CASE Next
    BY <2>2, <1>1, WriteFrameStep, Read16bitHeaderStep, ReadRestOfHeaderStep,
       ConsumePayloadChunkStep DEF Next
  <2> QED
    BY <1>1, <2>1, <2>2
<1> QED
  BY <1>1, InitHolds, PTL DEF Spec

(* Every variable keeps its type and no frame the writer sends makes the
   reader end with an error, which is not among the values of next. *)
THEOREM TypeCorrect == Spec => []TypeOK
<1>1. IInv => TypeOK
  BY DEF IInv
<1> QED
  BY <1>1, Invariant, PTL

(* The reader takes from a header what the writer put into it: the two flags,
   the opcode, the size and whether there is a mask, for every frame with a
   size below 2^53. *)
THEOREM HeaderCorrect == Spec => []HeaderAsWritten
<1>1. IInv => HeaderAsWritten
  BY DEF IInv, HeaderAsWritten
<1> QED
  BY <1>1, Invariant, PTL

(* A masked payload is on the wire as the reference masks it, and the reader
   restores it, whatever the keys, the chunks and the alignments. *)
THEOREM PayloadCorrect == Spec => []PayloadRestored
<1>1. ASSUME IInv PROVE PayloadRestored
  <2>1. got = [i \in 1..Len(got) |-> {}]
    BY <1>1 DEF IInv, Plain
  <2>2. ASSUME header # <<>>
        PROVE  payload = IF sender = "server" THEN [i \in 1..Len(payload) |-> {}]
                         ELSE xorWithMaskingKey(MaskingKey, [i \in 1..Len(payload) |-> {}])
    <3>1. PICK key : Written(key)
      BY <1>1, <2>2 DEF IInv
    <3>2. CASE sender = "server"
      BY <3>1, <3>2 DEF Written, Plain
    <3>3. CASE sender # "server"
      <4> DEFINE total == Len(payload)
      <4>1. total \in Nat /\ TypeOK
        BY <1>1 DEF IInv, TypeOK
      <4>2. payload = Masked(key, total) /\ IsKey(key)
        BY <3>1, <3>3 DEF Written
      <4>3. MaskingKey = key
        BY <3>1, <3>3, <4>1, KeyInHeader
      <4>4. xorWithMaskingKey(key, Plain(total)) = Masked(key, total)
        BY <4>1, <4>2, MaskedType
      <4> QED
        BY <3>3, <4>2, <4>3, <4>4 DEF Plain
    <3> QED
      BY <3>2, <3>3
  <2> QED
    BY <2>1, <2>2 DEF PayloadRestored
<1> QED
  BY <1>1, Invariant, PTL
=============================================================================
