---------------------------- MODULE JpegEncoding ----------------------------
(***************************************************************************)
(* The JPEG format from the encoder's side, after ITU T.81: the files that *)
(* the decoder is made to read, and what each of them means.  Nothing here *)
(* is taken from the decoder.                                              *)
(*                                                                         *)
(* An image has a size, components, and the quantized coefficients of its  *)
(* blocks in the order of the file: MCU by MCU, in each MCU the blocks of  *)
(* the first component, then of the second.                                *)
(***************************************************************************)
EXTENDS Integers, SequencesExt

CONSTANTS ByteBits,    \* 8
          BlockSize,   \* 64
          EndCode      \* 0xd9, the second byte of the marker at the end

Ones == 2 ^ ByteBits - 1
HalfByte == 2 ^ (ByteBits \div 2)

(* The n bits of a number.                                                 *)
BitsOf(n, x) == [k \in 1 .. n |-> (x \div 2 ^ (n - k)) % 2]

(* The canonical code (T.81 C.2): the codes of one length are consecutive  *)
(* numbers, the first of them twice what follows the last of the length    *)
(* before.                                                                 *)
Code(table, value) ==
  LET counts == table.counts
      k == CHOOSE k \in DOMAIN table.values : table.values[k] = value
      Before(l) == SumFunctionOnSet(counts, 1 .. l - 1)
      length == CHOOSE l \in DOMAIN counts : Before(l) < k /\ k =< Before(l + 1)
      shorter == [l \in 1 .. length - 1 |-> counts[l] * 2 ^ (length - l)]
  IN  BitsOf(length, SumFunction(shorter) + k - 1 - Before(length))

(* A coefficient is its number of bits and these bits (T.81 F.1.2.1).      *)
Absolute(x) == IF x < 0 THEN -x ELSE x
Category(x) == CHOOSE s \in 0 .. 2 * ByteBits :
                 Absolute(x) < 2 ^ s /\ (s = 0 \/ Absolute(x) >= 2 ^ (s - 1))
ExtraBits(x) ==
  BitsOf(Category(x), IF x < 0 THEN x + 2 ^ Category(x) - 1 ELSE x)

(* A block: the difference to the component's last DC, then each AC with   *)
(* the zeros before it, sixteen of them as ZRL, and EOB if zeros are left. *)
DcBits(table, difference) ==
  Code(table, Category(difference)) \o ExtraBits(difference)

AcBits(table, block) ==
  LET nonzero == SelectSeq([k \in 1 .. BlockSize - 1 |-> k], LAMBDA k : block[k] # 0)
      Zeros(n) == nonzero[n] - 1 - (IF n = 1 THEN 0 ELSE nonzero[n - 1])
      Zrl == Code(table, (HalfByte - 1) * HalfByte)
      One(n) ==
        FlattenSeq([z \in 1 .. Zeros(n) \div HalfByte |-> Zrl])
          \o Code(table, (Zeros(n) % HalfByte) * HalfByte + Category(block[nonzero[n]]))
          \o ExtraBits(block[nonzero[n]])
      ends == nonzero # <<>> /\ Last(nonzero) = BlockSize - 1
  IN  FlattenSeq([n \in DOMAIN nonzero |-> One(n)]) \o (IF ends THEN <<>> ELSE Code(table, 0))

(* The sampling factors of the components.  A single component is not      *)
(* interleaved, and its MCU is one block whatever its factors (T.81 A.2.2). *)
Sampling(image) ==
  IF DOMAIN image.components = {1} THEN <<[h |-> 1, v |-> 1]>> ELSE image.components

(* The components that the blocks of one MCU belong to, and of block b.    *)
McuComponents(image) ==
  FlattenSeq([c \in DOMAIN Sampling(image) |->
    [n \in 1 .. Sampling(image)[c].h * Sampling(image)[c].v |-> c]])
ComponentOf(image, b) ==
  McuComponents(image)[((b - 1) % Len(McuComponents(image))) + 1]

LastDc(image, b) ==
  LET earlier == {k \in 1 .. b - 1 : ComponentOf(image, k) = ComponentOf(image, b)} IN
  IF earlier = {} THEN 0 ELSE image.blocks[Max(earlier)][0]

ScanBits(image) ==
  FlattenSeq([b \in DOMAIN image.blocks |->
    LET component == image.components[ComponentOf(image, b)] IN
    DcBits(component.dc, image.blocks[b][0] - LastDc(image, b))
      \o AcBits(component.ac, image.blocks[b])])

(* The bits in bytes, filled up with ones, a zero after a byte of ones.    *)
Bytes(bitstream) ==
  LET BitNo(n) == IF n =< Len(bitstream) THEN bitstream[n] ELSE 1
      ByteNo(n) == SumFunction([k \in 1 .. ByteBits |->
                                 BitNo((n - 1) * ByteBits + k) * 2 ^ (ByteBits - k)])
      Stuffed(n) == IF ByteNo(n) = Ones THEN <<Ones, 0>> ELSE <<ByteNo(n)>>
  IN  FlattenSeq([n \in 1 .. (Len(bitstream) + ByteBits - 1) \div ByteBits |-> Stuffed(n)])

ScanBytes(image) == Bytes(ScanBits(image)) \o <<Ones, EndCode>>

(* What a decoder has to make of block b before the cosine transform.      *)
Coefficients(image, b) ==
  [k \in 0 .. BlockSize - 1 |->
    image.blocks[b][k] * image.components[ComponentOf(image, b)].q[k + 1]]

(* Where the sample of a component for a pixel is (T.81 A.1, A.2): which   *)
(* block of the file, and where in it.                                     *)
LeastMcus(size, factor) == CHOOSE n \in 0 .. size : n * 8 * factor >= size /\ (n - 1) * 8 * factor < size
SampleOf(image, c, i, j) ==
  LET factors == Sampling(image)
      component == factors[c]
      tallest == Max({factors[d].v : d \in DOMAIN factors})
      widest == Max({factors[d].h : d \in DOMAIN factors})
      y == (i * component.v) \div tallest   \* in the component's own samples
      x == (j * component.h) \div widest
      mcu == (y \div (8 * component.v)) * LeastMcus(image.width, widest) + x \div (8 * component.h)
      inMcu == ((y \div 8) % component.v) * component.h + ((x \div 8) % component.h)
      blocks == [d \in DOMAIN factors |-> factors[d].h * factors[d].v]
  IN  [block |-> mcu * SumFunction(blocks) + SumFunctionOnSet(blocks, 1 .. c - 1) + inMcu + 1,
       sample |-> ((y % 8) * 8) + (x % 8)]
=============================================================================
