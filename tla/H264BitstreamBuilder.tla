-------------------------- MODULE H264BitstreamBuilder --------------------------
(***************************************************************************)
(* The writer of H.264 bit streams in h264_decoder_delegate.cc:114-335.    *)
(* Bits gather in a register, which is flushed into the buffer when it is  *)
(* full and the next bit comes, or on demand.                              *)
(*                                                                         *)
(* A bit string is a sequence over {0, 1}; a builder is a record, and each *)
(* method an operator from a builder to a builder.  data holds data_ up to *)
(* pos_ and size the length of data_; bits_in_buffer_, which nothing       *)
(* reads, is left out.                                                     *)
(***************************************************************************)
EXTENDS Integers, Sequences, FiniteSets, SequencesExt

CONSTANTS
  kRegByteSize, kGrowBytes,
  Elements,     \* the syntax elements Run's helpers append
  Slices,       \* the slices Run appends
  MaxElements,  \* bound: no element is appended to a stream that has more
  MaxUnits      \* bound: the NALUs and slices in one stream

ASSUME GrowAssumption == kGrowBytes \in Nat /\ kGrowBytes >= kRegByteSize
ASSUME RegAssumption  == kRegByteSize \in Nat /\ kRegByteSize >= 4

kRegBitSize == 8 * kRegByteSize

kMaxValue == 65535  \* bound: the greatest value that is written with AppendUE

\* u(n), ue(v) and se(v) of the syntax; the number of bits of the last two is unused.
SyntaxElements ==
  [kind : {"u"}, bits : 0..kRegBitSize, value : Int]
    \cup [kind : {"ue"}, bits : {0}, value : 0..kMaxValue]
    \cup [kind : {"se"}, bits : {0}, value : -(kMaxValue \div 2)..(kMaxValue \div 2)]

ASSUME ElementsAssumption == Elements \subseteq SyntaxElements
ASSUME SlicesAssumption   == Slices \subseteq Seq(0..255)

VARIABLES
  builder,
  elements,  \* history: the syntax elements in the stream, alignment included
  units      \* history: the start codes that were written

vars == <<builder, elements, units>>

\* The members, which Reset will set; and whether a CHECK has failed.
Members ==
  [insert_emulation_prevention_bytes |-> FALSE, in_nalu |-> FALSE,
   reg |-> <<>>, data |-> <<>>, size |-> 0, trapped |-> FALSE]

Reset(b) == [b EXCEPT !.in_nalu = FALSE, !.reg = <<>>, !.data = <<>>, !.size = kGrowBytes]

Constructed(insert) == Reset([Members EXCEPT !.insert_emulation_prevention_bytes = insert])

Bit(flag)     == IF flag THEN 1 ELSE 0

\* The n low bits of val, the most significant first.
Bits(n, val)  == [i \in 1..n |-> Bit((val \div 2 ^ (n - i)) % 2 = 1)]
Number(bits)  == FoldLeft(LAMBDA n, bit : 2 * n + bit, 0, bits)
Zeros(n)      == [i \in 1..n |-> 0]
AlignUp(n)    == 8 * ((n + 7) \div 8)

\* FoldLeft, one half after the other: TLC nests half as deep.
FoldHalves(op(_, _), base, list) ==
  LET middle == Len(list) \div 2
  IN CHOOSE result \in {FoldLeft(op, half, SubSeq(list, middle + 1, Len(list))) :
                          half \in {FoldLeft(op, base, SubSeq(list, 1, middle))}} : TRUE

--------------------------------------------------------------------------------
(* FlushReg.                                                                 *)

\* The bits of the register from its highest bit on: reg_ <<= kRegBitSize - bits_in_reg.
LeftAligned(reg) == reg \o Zeros(kRegBitSize - Len(reg))

\* The integer with its bytes reversed, as a bit string.
SwapBytes(val) ==
  [n \in 1..Len(val) |-> val[Len(val) - 8 * ((n + 7) \div 8) + 1 + ((n - 1) % 8)]]

\* The bytes of an integer, the lowest first.
ToLittleEndian(val) ==
  [i \in 1..(Len(val) \div 8) |-> Number(SubSeq(val, Len(val) - 8 * i + 1, Len(val) - 8 * (i - 1)))]

U64ToBigEndian(val) == ToLittleEndian(SwapBytes(val))

\* The bytes of the register that have at least one of its bits.
BytesInReg(reg) == SubSeq(U64ToBigEndian(LeftAligned(reg)), 1, AlignUp(Len(reg)) \div 8)

\* Mutant: nothing grows.
NoRoom(b, n) == b

\* One Grow where n more bytes do not fit.
Grown(b, n) ==
  IF Len(b.data) + n > b.size THEN [b EXCEPT !.size = @ + kGrowBytes] ELSE b

Put(b, bytes) == [Grown(b, Len(bytes)) EXCEPT !.data = @ \o bytes]

NeedsEmulationByte(data, byte) ==
  Len(data) >= 2 /\ data[Len(data) - 1] = 0 /\ data[Len(data)] = 0 /\ byte <= 3

PutEscaped(b, byte) ==
  Put(IF NeedsEmulationByte(b.data, byte) THEN Put(b, <<3>>) ELSE b, <<byte>>)

FlushReg(b) ==
  LET bytes == BytesInReg(b.reg)
      empty == [b EXCEPT !.reg = <<>>]
  IN IF b.insert_emulation_prevention_bytes /\ b.in_nalu
     THEN [FoldLeft(PutEscaped, empty, bytes) EXCEPT !.trapped = @ \/ Len(b.reg) % 8 # 0]
     ELSE Put(empty, bytes)

\* BytesInBuffer and data, which read the stream: data_ is never empty.
ReadOut(b) == [b EXCEPT !.trapped = @ \/ b.reg # <<>>]

--------------------------------------------------------------------------------
(* Appending.                                                                *)

\* Mutant: the register counts as full when one bit is left.
FlushedEarly(b) == IF Len(b.reg) = kRegBitSize - 1 THEN FlushReg(b) ELSE b

Flushed(b) == IF Len(b.reg) = kRegBitSize THEN FlushReg(b) ELSE b

\* AppendU64: no more bits than a register holds (CHECK_LE), so it fills at most once.
AppendBits(b, bits) ==
  LET c    == Flushed(b)
      room == kRegBitSize - Len(c.reg)
      d    == [c EXCEPT !.reg = @ \o SubSeq(bits, 1, IF Len(bits) < room THEN Len(bits) ELSE room)]
  IN IF Len(bits) > kRegBitSize THEN [b EXCEPT !.trapped = TRUE]
     ELSE IF bits = <<>> THEN b
     ELSE IF Len(bits) <= room THEN d
     ELSE [FlushReg(d) EXCEPT !.reg = SubSeq(bits, room + 1, Len(bits))]

AppendBool(b, val) == [Flushed(b) EXCEPT !.reg = Append(@, Bit(val # 0))]

\* The number of times val + 1 is halved before it is one.
NumZeros(val) ==
  LET halvings[v \in 1..(kMaxValue + 1)] == IF v = 1 THEN 0 ELSE 1 + halvings[v \div 2]
  IN halvings[val + 1]

AppendUE(b, val) ==
  AppendBits(AppendBits(b, Zeros(NumZeros(val))), Bits(NumZeros(val) + 1, val + 1))

AppendSE(b, val) == AppendUE(b, IF val > 0 THEN val * 2 - 1 ELSE -val * 2)

kSPS == 7  \* H264NALU::Type
kPPS == 8

\* CHECK(!in_nalu_) and CHECK_EQ(bits_left_in_reg_, kRegBitSize).
BeginNALU(b, nalu_type, nal_ref_idc) ==
  LET checked == [b EXCEPT !.trapped = @ \/ b.in_nalu \/ b.reg # <<>>]
      started == FlushReg(AppendBits(checked, Zeros(31) \o <<1>>))
      zero    == AppendBits([started EXCEPT !.in_nalu = TRUE], <<0>>)
  IN AppendBits(AppendBits(zero, Bits(2, nal_ref_idc)), Bits(5, nalu_type))

\* Mutant: the bits that are used in the register, not those that are left.
UsedBits(b) == Len(b.reg) % 8

Padding(b) == (kRegBitSize - Len(b.reg)) % 8

FinishNALU(b) ==
  LET stopped == AppendBits(b, <<1>>)
  IN [FlushReg(AppendBits(stopped, Zeros(Padding(stopped)))) EXCEPT !.in_nalu = FALSE]

--------------------------------------------------------------------------------
(* The clients: BuildPackedH264SPS and PPS, and the slices of Run.           *)

u(n, v) == [kind |-> "u", bits |-> n, value |-> v]
ue(v)   == [kind |-> "ue", bits |-> 0, value |-> v]
se(v)   == [kind |-> "se", bits |-> 0, value |-> v]

\* After a failed CHECK nothing is appended.
AppendElement(b, e) ==
  IF b.trapped THEN b
  ELSE CASE e.kind = "ue"              -> AppendUE(b, e.value)
         [] e.kind = "se"              -> AppendSE(b, e.value)
         [] e.kind = "u" /\ e.bits = 1 -> AppendBool(b, e.value)
         [] e.kind = "u" /\ e.bits # 1 -> AppendBits(b, Bits(e.bits, e.value))

StartCode == <<u(24, 0), u(8, 1)>>

\* The bits of a ue or se element are one more than twice its leading zeros.
Length(e) ==
  CASE e.kind = "u"  -> e.bits
    [] e.kind = "ue" -> 2 * NumZeros(e.value) + 1
    [] e.kind = "se" -> 2 * NumZeros(IF e.value > 0 THEN 2 * e.value - 1 ELSE -2 * e.value) + 1

Alignment(list) ==
  LET total == FoldHalves(LAMBDA n, e : n + Length(e), 0, list)
  IN u(AlignUp(total) - total, 0)

WithStopBit(list) == Append(Append(list, u(1, 1)), Alignment(Append(list, u(1, 1))))

Init ==
  /\ \E insert \in BOOLEAN : builder = Constructed(insert)
  /\ elements = <<>> /\ units = 0

Begin(nalu_type, nal_ref_idc) ==
  /\ ~builder.in_nalu /\ builder.reg = <<>>
  /\ builder' = BeginNALU(builder, nalu_type, nal_ref_idc)
  /\ elements' = elements \o StartCode \o <<u(1, 0), u(2, nal_ref_idc), u(5, nalu_type)>>
  /\ units' = units + 1

AppendOne(e) ==
  /\ Len(elements) < MaxElements /\ builder.in_nalu
  /\ builder' = AppendElement(builder, e)
  /\ elements' = Append(elements, e)
  /\ UNCHANGED units

Finish ==
  /\ builder.in_nalu
  /\ builder' = FinishNALU(builder)
  /\ elements' = WithStopBit(elements)
  /\ UNCHANGED units

\* What a decoder reads from bytes: without the 3 after two zeros.
Unescape(bytes) ==
  FoldLeft(LAMBDA r, byte :
             IF r.zeros >= 2 /\ byte = 3 THEN [r EXCEPT !.zeros = 0]
             ELSE [out |-> Append(r.out, byte), zeros |-> IF byte = 0 THEN r.zeros + 1 ELSE 0],
           [out |-> <<>>, zeros |-> 0], bytes).out

Payload(bytes) == IF builder.insert_emulation_prevention_bytes THEN Unescape(bytes) ELSE bytes

\* A slice comes escaped from the application, and is not in a NALU of the builder.
AppendSlice(slice) ==
  LET written == StartCode \o [i \in DOMAIN slice |-> u(8, slice[i])]
      read    == Payload(slice)
  IN /\ ~builder.in_nalu
     /\ builder' = FoldLeft(AppendElement, builder, written)
     /\ elements' = elements \o StartCode \o [i \in DOMAIN read |-> u(8, read[i])]
     /\ units' = units + 1

Flush ==
  /\ ~builder.in_nalu /\ builder.reg # <<>>
  /\ builder' = FlushReg(builder)
  /\ UNCHANGED <<elements, units>>

Next ==
  \/ \E nalu_type \in {kSPS, kPPS} : units < MaxUnits /\ Begin(nalu_type, 3)
  \/ \E e \in Elements : AppendOne(e)
  \/ Finish \/ Flush
  \/ \E slice \in Slices : units < MaxUnits /\ AppendSlice(slice)

--------------------------------------------------------------------------------
(* A decoder.                                                                *)

AllBits(bytes) ==
  [i \in 1..(8 * Len(bytes)) |->
     (bytes[(i + 7) \div 8] \div 2 ^ ((8 - i) % 8)) % 2]

LeadingZeros(bits) == CHOOSE n \in 0..Len(bits) :
  /\ \A i \in 1..n : bits[i] = 0
  /\ n < Len(bits) => bits[n + 1] = 1

\* The element of a kind and number of bits at the head of bits, with what follows.
Read(kind, n, bits) ==
  LET zeros  == LeadingZeros(bits)
      length == IF kind = "u" THEN n ELSE 2 * zeros + 1
      code   == Number(SubSeq(bits, zeros + 1, length)) - 1
  IN IF length > Len(bits) THEN [ok |-> FALSE, value |-> 0, rest |-> <<>>]
     ELSE [ok |-> TRUE, rest |-> SubSeq(bits, length + 1, Len(bits)),
           value |-> CASE kind = "u"  -> Number(SubSeq(bits, 1, n))
                       [] kind = "ue" -> code
                       [] kind = "se" -> IF code % 2 = 1 THEN (code + 1) \div 2 ELSE -(code \div 2)]

\* Once everything is flushed, a decoder reads from the stream each element as it
\* was appended, and nothing more: whatever the register boundaries it lies across
\* and the emulation prevention bytes that are put into it.
ReadsBack ==
  LET result == FoldHalves(LAMBDA r, e :
                             LET one == Read(e.kind, e.bits, r.rest)
                             IN [ok   |-> r.ok /\ one.ok /\ one.value = e.value,
                                 rest |-> one.rest],
                           [ok |-> TRUE, rest |-> AllBits(Payload(builder.data))], elements)
  IN builder.reg = <<>> => result.ok /\ result.rest = <<>>

StartCodesIn(bytes) ==
  {i \in 1..(Len(bytes) - 2) : bytes[i] = 0 /\ bytes[i + 1] = 0 /\ bytes[i + 2] \in {0, 1, 2}}

\* With emulation prevention, two zero bytes and one below three are found only at
\* the two offsets in each start code, whatever is appended and however it is
\* split among registers (spec 7.3.1, h264_decoder_delegate.cc:283).
StartCodesDelimit ==
  builder.insert_emulation_prevention_bytes /\ builder.reg = <<>> =>
    Cardinality(StartCodesIn(builder.data)) = 2 * units

\* No byte is written past the end of data_: one Grow at a time is enough.
WritesFitTheBuffer == Len(builder.data) <= builder.size

\* FlushReg is never called inside a NALU with a part of a byte (CHECK_EQ at
\* h264_decoder_delegate.cc:282), BeginNALU never with a part of a register (line 172),
\* nor is the stream read while bits are in one (lines 206 and 213).
NeverTraps == ~builder.trapped
================================================================================
