----------------------------- MODULE BitStream -----------------------------
(***************************************************************************)
(* Values written to a message and read back from it.                      *)
(*                                                                         *)
(* A message is written and read through a small buffer of bits that       *)
(* slides over the stream: FlushBits writes the full bytes once they are   *)
(* more than half of the buffer, ReadBits refills it when as many were     *)
(* read.  Three formats share it:                                          *)
(*   "bits"        the Bit codec of MSG: the bits of a value that do not   *)
(*                 make a byte as they are, the others byte by byte with a *)
(*                 fixed Huffman tree;                                     *)
(*   "oob"         the OOB codec of MSG: whole bytes, written directly;    *)
(*   "compressed"  CompressedMessage: the number of bytes, and the bytes   *)
(*                 with an adaptive Huffman tree.                          *)
(* A byte has ByteBits bits, the lowest first in the buffer.  The values   *)
(* of MSG are sequences of bits, those of CompressedMessage are bytes.     *)
(*                                                                         *)
(* A code that is longer than what is left of the buffer is put, or        *)
(* sought, behind it.  What follows is not defined: phase "undefined".  A  *)
(* reader of MSG may ask for more values than the message has.             *)
(***************************************************************************)
EXTENDS Huffman, SequencesExt

CONSTANTS
    BufferBytes,    \* sizes of bitData, by format: 32 in MSG, 8 in CompressedMessage
    Lens,           \* the most bytes that Decompress is asked for
    Sizes,          \* sizes of the values of a Bit message, in bits
    Training,       \* the symbols whose frequencies gave the fixed tree
    Formats,
    MaxValues       \* bound: values of a message, in each format

ASSUME BufferAssumption ==
    BufferBytes \in [Formats -> SUBSET (Nat \ {0})] /\ Lens \subseteq Nat
ASSUME FormatsAssumption ==
    /\ Formats \subseteq {"bits", "oob", "compressed"} /\ MaxValues \in [Formats -> Nat]
    /\ Sizes \subseteq Nat \ {0} /\ \A s \in Symbols : \E i \in DOMAIN Training : Training[i] = s

VARIABLES
    format, phase,
    bitDataSize,        \* bytes of bitData
    bits,               \* bitData and the position in it: [data, bit]
    stream,             \* the bits of the bytes in the stream
    position,           \* bytes of the stream that were read
    huff,               \* the tree of the end that is at work
    written, readBack,  \* the values
    beyond,             \* values read after the last one that was written
    len,                \* Decompress: the most bytes it may return
    past,               \* history: bytes that left the buffer of the reader
    longest             \* history: bits of the longest code

vars == <<format, phase, bitDataSize, bits, stream, position, huff, written, readBack,
          beyond, len, past, longest>>

BufferBits == bitDataSize * ByteBits
EmptyBuffer == [i \in 0 .. BufferBits - 1 |-> 0]
FixedTree == FoldLeft(addRef, NewTree, Training)

\* The bits of a byte, and of a number of them, the lowest first; and back.
LowFirst(n, count) == [i \in 1 .. count |-> (n \div 2 ^ (i - 1)) % 2]
Number(s) == FoldRight(LAMBDA b, n : b + 2 * n, s, 0)

\* Compress starts with the size in two bytes, the high one first.
SizeBits(n) == LowFirst(n \div 2 ^ ByteBits, ByteBits) \o LowFirst(n % 2 ^ ByteBits, ByteBits)

----------------------------------------------------------------------------
(***************************************************************************)
(* The buffer.  A writer is [data, bit, out], with the bits that went to   *)
(* the stream; a reader is [data, bit, pos, past, thrown].                 *)
(***************************************************************************)

\* The first bit of a byte clears it.
addBit(w, b) ==
    LET byte == w.bit \div ByteBits
        clear == IF w.bit % ByteBits = 0
                 THEN [i \in DOMAIN w.data |->
                          IF i \div ByteBits = byte THEN 0 ELSE w.data[i]]
                 ELSE w.data
    IN  [w EXCEPT !.bit = @ + 1,
                  !.data = IF w.bit < BufferBits THEN [clear EXCEPT ![w.bit] = b] ELSE @]

\* As Slide, without the byte that is not full.
SlideOneMore(data, n) ==
    [i \in DOMAIN data |-> IF i + (n + 1) * ByteBits < BufferBits
                           THEN data[i + (n + 1) * ByteBits] ELSE data[i]]
\* The first n bytes leave the buffer, and what stood at its end stays there.
Slide(data, n) ==
    [i \in DOMAIN data |-> IF i + n * ByteBits < BufferBits
                           THEN data[i + n * ByteBits] ELSE data[i]]
\* The first n bytes, with zeros for what lies outside the buffer.
Take(data, n) == [i \in 1 .. n * ByteBits |-> IF i <= BufferBits THEN data[i - 1] ELSE 0]

\* As HalfFull, when the buffer is full.
CompletelyFull(n) == n >= bitDataSize

\* The buffer slides when more than half of its bytes are done with.
HalfFull(n) == n > bitDataSize \div 2

\* The bits of the buffer that are left when the next code comes, at the least.
Room == BufferBits - ((bitDataSize \div 2) * ByteBits + ByteBits - 1)

FlushBits(w) ==
    LET n == w.bit \div ByteBits
        slid == Slide(w.data, n)
    IN  IF ~HalfFull(n) THEN w
        ELSE [w EXCEPT
                !.out = @ \o Take(w.data, n),
                !.data = [i \in DOMAIN slid |->
                             IF i < (bitDataSize - n) * ByteBits THEN slid[i] ELSE 0],
                !.bit = @ % ByteBits]

\* A code is put bit by bit, then the buffer is flushed.
Put(w, code) == FlushBits(FoldLeft(addBit, w, code))

\* As EndOfMessage, without the exception.
NoEndOfMessage(left, slid) == FALSE
\* The end of the stream is taken for the end of the message when the buffer holds
\* nothing but zeros.
EndOfMessage(left, slid) == left = 0 /\ \A i \in DOMAIN slid : slid[i] = 0

\* The stream is asked for as many bytes as left the buffer, or for what it has.  When
\* it is past its end the difference wraps around, and the stream throws.
ReadBits(r) ==
    LET n == r.bit \div ByteBits
        last == (bitDataSize - n) * ByteBits
        slid == Slide(r.data, n)
        left == Len(stream) - r.pos * ByteBits
        count == IF left < n * ByteBits THEN left ELSE n * ByteBits
    IN  IF ~HalfFull(n) THEN r
        ELSE IF left < 0 \/ EndOfMessage(left, slid)
        THEN [r EXCEPT !.data = slid, !.thrown = TRUE]
        ELSE [r EXCEPT !.data = [i \in DOMAIN slid |->
                            IF i < last THEN slid[i]
                            ELSE IF i < last + count THEN stream[r.pos * ByteBits + i - last + 1]
                            ELSE 0],
                       !.bit = @ % ByteBits, !.pos = @ + count \div ByteBits,
                       !.past = @ + n]

----------------------------------------------------------------------------
(***************************************************************************)
(* Writing                                                                 *)
(***************************************************************************)

Init ==
    /\ format \in Formats
    /\ phase = "write"
    /\ bitDataSize \in BufferBytes[format]
    /\ bits = [data |-> EmptyBuffer, bit |-> 0]
    /\ stream = <<>> /\ position = 0
    /\ huff = IF format = "compressed" THEN NewTree ELSE FixedTree
    /\ written = <<>> /\ readBack = <<>> /\ beyond = {}
    /\ len = 0 /\ past = 0 /\ longest = 0

Writer == [data |-> bits.data, bit |-> bits.bit, out |-> stream]

\* The values after n bits of a value, byte by byte.
BytesAfter(value, n) ==
    [j \in 1 .. (Len(value) - n) \div ByteBits |->
        Number(SubSeq(value, n + (j - 1) * ByteBits + 1, n + j * ByteBits))]

\* The codes that the Bit codec puts for a value.
EncodeBits(value) ==
    LET partial == Len(value) % ByteBits
        bytes == BytesAfter(value, partial)
    IN  (IF partial > 0 THEN << SubSeq(value, 1, partial) >> ELSE <<>>)
            \o [j \in DOMAIN bytes |-> transmit(huff, bytes[j])]

\* Whether a code went past the end of the buffer.
RECURSIVE PutsOutside(_, _)
PutsOutside(w, codes) ==
    codes # <<>> /\ (w.bit + Len(Head(codes)) > BufferBits
                        \/ PutsOutside(Put(w, Head(codes)), Tail(codes)))

LongestOf(codes) == Max({longest} \cup {Len(codes[i]) : i \in DOMAIN codes})

PutAll(codes) ==
    LET w == FoldLeft(Put, Writer, codes)
    IN  /\ bits' = [data |-> w.data, bit |-> w.bit]
        /\ stream' = w.out
        /\ phase' = IF PutsOutside(Writer, codes) THEN "undefined" ELSE phase
        /\ longest' = LongestOf(codes)

WriteBits(value) ==
    /\ format = "bits"
    /\ PutAll(EncodeBits(value))
    /\ UNCHANGED huff

\* The bytes go to the stream past the buffer.
WriteOOB(value) ==
    /\ format = "oob" /\ Len(value) % ByteBits = 0
    /\ stream' = stream \o value
    /\ UNCHANGED <<phase, bits, huff, longest>>

Write ==
    /\ phase = "write" /\ format # "compressed" /\ Len(written) < MaxValues[format]
    /\ \E size \in Sizes : \E n \in 0 .. 2 ^ size - 1 :
        LET value == LowFirst(n, size)
        IN  /\ WriteBits(value) \/ WriteOOB(value)
            /\ written' = Append(written, value)
    /\ UNCHANGED <<format, bitDataSize, position, readBack, beyond, len, past>>

\* MSG::Flush, when the message is destroyed.
Flush ==
    LET bytes == (bits.bit + ByteBits - 1) \div ByteBits
    IN  /\ phase = "write" /\ format # "compressed"
        /\ stream' = stream \o Take(bits.data, bytes)
        /\ phase' = "reset"
        /\ UNCHANGED <<format, bitDataSize, bits, position, huff, written, readBack, beyond,
                       len, past, longest>>

\* CompressedMessage::Compress: the header and every byte of the input.
Compress ==
    /\ phase = "write" /\ format = "compressed"
    /\ \E size \in 1 .. MaxValues[format] : \E input \in [1 .. size -> Symbols] :
        LET header == FoldLeft(addBit, Writer, SizeBits(size))
            trees == [i \in 0 .. size |-> FoldLeft(addRef, NewTree, SubSeq(input, 1, i))]
            codes == [i \in 1 .. size |-> transmit(trees[i - 1], input[i])]
            w == FoldLeft(Put, FlushBits(header), codes)
            bytes == IF w.bit = 0 THEN 0 ELSE w.bit \div ByteBits + 1
        IN  /\ written' = input
            /\ stream' = w.out \o Take(w.data, bytes)
            /\ huff' = trees[size]
            /\ phase' = IF PutsOutside(FlushBits(header), codes) THEN "undefined"
                        ELSE "reset"
            /\ longest' = LongestOf(codes)
    /\ UNCHANGED <<format, bitDataSize, bits, position, readBack, beyond, len, past>>

----------------------------------------------------------------------------
(***************************************************************************)
(* Reading                                                                 *)
(***************************************************************************)

Refill(bytes) ==
    [i \in 0 .. BufferBits - 1 |->
        IF i < bytes * ByteBits /\ i < Len(stream) THEN stream[i + 1] ELSE 0]

\* MSG::Reset reads what there is.
Reset ==
    LET bytes == IF Len(stream) < BufferBits THEN Len(stream) \div ByteBits ELSE bitDataSize
    IN  /\ phase = "reset" /\ format # "compressed"
        /\ bits' = [data |-> Refill(bytes), bit |-> 0]
        /\ position' = bytes
        /\ phase' = "read"
        /\ UNCHANGED <<format, bitDataSize, stream, huff, written, readBack, beyond, len,
                       past, longest>>

\* Decompress reads a full buffer: a shorter stream throws, except that the test of the
\* stream lets one byte more be read than there is.  The size of the message follows.
DecompressStart ==
    /\ phase = "reset" /\ format = "compressed"
    /\ IF bitDataSize - 1 > Len(stream) \div ByteBits
       THEN phase' = "thrown" /\ UNCHANGED <<bits, position, huff, len>>
       ELSE /\ bits' = [data |-> Refill(bitDataSize), bit |-> 2 * ByteBits]
            /\ position' = bitDataSize
            /\ huff' = NewTree
            /\ len' \in Lens
            /\ phase' = "read"
    /\ UNCHANGED <<format, bitDataSize, stream, written, readBack, beyond, past, longest>>

Reader == [data |-> bits.data, bit |-> bits.bit, pos |-> position, past |-> past,
           thrown |-> FALSE]

MoreToRead == Len(readBack) < Len(written)

\* The reader after a step, with the value it read.  An exception drops the value.
Returns(r, value) ==
    /\ bits' = [data |-> r.data, bit |-> r.bit]
    /\ position' = r.pos /\ past' = r.past
    /\ phase' = IF r.thrown THEN "thrown"
                ELSE IF r.bit > BufferBits THEN "undefined" ELSE "read"
    /\ readBack' = IF r.thrown \/ ~MoreToRead THEN readBack ELSE Append(readBack, value)
    /\ beyond' = IF r.thrown \/ MoreToRead THEN beyond ELSE beyond \cup {value}
    /\ UNCHANGED <<format, bitDataSize, stream, written, len, longest>>

\* As many bits as they are.
RECURSIVE GetByte(_, _, _)
GetByte(r, count, acc) ==
    IF count = 0 \/ r.thrown THEN [r |-> r, value |-> acc]
    ELSE LET q == ReadBits(r)
             got == receive(huff, q.data, q.bit)
         IN  GetByte([q EXCEPT !.bit = got.bit], count - 1,
                     acc \o LowFirst(got.symbol, ByteBits))

Decode(size) ==
    LET partial == size % ByteBits
        q == IF partial > 0 THEN ReadBits(Reader) ELSE Reader
        first == [i \in 1 .. partial |-> q.data[q.bit + i - 1]]
    IN  GetByte([q EXCEPT !.bit = @ + partial], size \div ByteBits, first)

\* The reader asks for the sizes that were written, and goes on with large values.
SizeAsked == IF MoreToRead THEN Len(written[Len(readBack) + 1])
             ELSE Max({n \in Sizes : format = "bits" \/ n % ByteBits = 0})

\* The size in the header of a compressed message.
HeaderSize == Number(SubSeq(stream, 1, ByteBits)) * 2 ^ ByteBits
                + Number(SubSeq(stream, ByteBits + 1, 2 * ByteBits))

ReadBitsValue ==
    LET got == Decode(SizeAsked)
    IN  /\ phase = "read" /\ format = "bits"
        /\ Returns(got.r, got.value)
        /\ UNCHANGED huff

\* The buffer is refilled after the value is taken.
ReadOOBValue ==
    LET first == (bits.bit \div ByteBits) * ByteBits
    IN  /\ phase = "read" /\ format = "oob"
        /\ Returns(ReadBits([Reader EXCEPT !.bit = @ + SizeAsked]),
                   [i \in 1 .. SizeAsked |-> bits.data[first + i - 1]])
        /\ UNCHANGED huff

\* The bytes that are still to be decompressed: no more than the caller has room for.
cch == Min({HeaderSize, len})
Decompressing == phase = "read" /\ format = "compressed" /\ Len(readBack) < cch

\* The position in the buffer is compared with the bytes that the caller has room for.
\* Then a NUL is put in front of the bytes that were not written out yet: all of them.
DecompressCut ==
    LET r == ReadBits(Reader)
    IN  /\ Decompressing /\ ~r.thrown /\ r.bit \div ByteBits > len
        /\ phase' = "cut"
        /\ readBack' = <<0>> \o readBack
        /\ UNCHANGED <<format, bitDataSize, bits, stream, position, huff, written, beyond,
                       len, past, longest>>

\* A byte of a compressed message: NYT is followed by the byte itself.
DecompressByte ==
    LET r == ReadBits(Reader)
        got == receive(huff, r.data, r.bit)
        plain == [i \in 1 .. ByteBits |-> r.data[got.bit + i - 1]]
        value == IF got.symbol = NYT THEN FoldLeft(LAMBDA n, b : 2 * n + b, 0, plain)
                                     ELSE got.symbol
        next == IF got.symbol = NYT THEN got.bit + ByteBits ELSE got.bit
    IN  /\ Decompressing /\ (r.thrown \/ r.bit \div ByteBits <= len)
        /\ Returns([r EXCEPT !.bit = IF r.thrown THEN @ ELSE next], value)
        /\ huff' = IF r.thrown THEN huff ELSE addRef(huff, value)

Next == Write \/ Flush \/ Compress \/ Reset \/ DecompressStart
            \/ ReadBitsValue \/ ReadOOBValue \/ DecompressByte \/ DecompressCut

Spec == Init /\ [][Next]_vars

----------------------------------------------------------------------------
(***************************************************************************)
(* Properties                                                              *)
(***************************************************************************)

\* No code passes the end of bitData, on either side, as long as none is longer than the
\* room that half of the buffer leaves: what slides at half always leaves that much.
BufferHoldsEveryCode == longest <= Room => phase # "undefined"

\* After every byte the adaptive tree is a Huffman tree of what went through it, with
\* its list, blocks and cells in order.
TreeIsWellFormed == WellFormed(huff)

\* What is read is what was written, in every format, over every slide of the buffer at
\* either end, and what Decompress returns is no longer than its caller has room for,
\* unless it was cut.
ReadsWhatWasWritten ==
    phase # "cut" =>
        IsPrefix(readBack, written) /\ (format = "compressed" => Len(readBack) <= len)

\* The value of a given size that is coded by zeros.
ZeroValue(size) ==
    IF format = "oob" THEN LowFirst(0, size)
    ELSE LowFirst(0, size % ByteBits)
            \o FlattenSeq([j \in 1 .. size \div ByteBits |->
                   LowFirst(receive(huff, EmptyBuffer, 0).symbol, ByteBits)])

\* A reader that asks for more than was written gets the value of zeros, again and again,
\* and is stopped: it is never more than one buffer behind the end of the stream, where
\* ReadBits has thrown.
OverreadIsStopped ==
    /\ \A value \in beyond : value = ZeroValue(Len(value))
    /\ phase # "undefined" => past * ByteBits + bits.bit <= Len(stream) + BufferBits

----------------------------------------------------------------------------
(***************************************************************************)
(* Statements of the documentation that do not hold, and expectations      *)
(***************************************************************************)

\* "the stream and the buffer has been fully read already, don't continue": every value
\* was read when the end of the message is reported.
ThrowsAtTheEnd == phase = "thrown" /\ position > 0 => readBack = written

\* A message that was compressed can be decompressed.
CompressedCanBeRead == ~(phase = "thrown" /\ format = "compressed")

\* The buffer of a message holds every code.
BufferIsLargeEnough == phase # "undefined"

\* "write the NUL character": it follows what was read.
NulIsLast == phase = "cut" => IsPrefix(readBack, Append(written, 0))
=============================================================================
