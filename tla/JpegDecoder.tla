---------------------------- MODULE JpegDecoder ----------------------------
(***************************************************************************)
(* jpeg-decoder/baseline: from the bytes of a file to the coefficients of  *)
(* its blocks, and from the blocks to the pixels.  A marker segment of the *)
(* header is one step; the entropy-coded scan is read bit by bit.          *)
(*                                                                         *)
(* The sizes of a byte, a block and a code are parameters.  A segment is a *)
(* record of its contents.  The cosine transform and the colours, which    *)
(* are arithmetic of their own, are left out: a pixel is which sample of   *)
(* which block it is made of.  bit_buffer_ (the reader's buffer_) is 0 when *)
(* the scan begins; in the code it is the last byte with ids of tables,     *)
(* which is not all ones.  Of the numbers that a size goes through, int16_t *)
(* is two bytes, and size_t is a parameter.                                 *)
(***************************************************************************)
EXTENDS HuffmanTree, JpegEncoding

(* A file is its header, a sequence of segments, and its scan, the bytes   *)
(* behind it.  What was encoded in it, and what is wrong with it ("none",  *)
(* or "header", "cut", "scan"), the decoder does not see.                  *)
CONSTANTS Files,      \* [header, scan, image, fault]
          SizeLimit,  \* how many values a size_t has, 2 ^ 64
          MaxBlocks   \* the most blocks that there is memory for

(* A half word read from the file that is stored in an int16_t, and an     *)
(* integer that becomes a size_t.                                          *)
Int16Limit == 2 ^ (2 * ByteBits - 1)
Signed(halfword) == IF halfword < Int16Limit THEN halfword ELSE halfword - 2 * Int16Limit
ToSize(n) == n % SizeLimit

ASSUME SizeAssumption ==
  /\ Int16Limit \in Nat \ {0} /\ SizeLimit \in Nat
  /\ 16 * Int16Limit * Int16Limit =< SizeLimit
  /\ MaxBlocks \in Nat

VARIABLES file,      \* the input
          phase,     \* what is read next, or "done", or "failed" by an exception
          read,      \* how many segments of the header were read
          hung,      \* which value of a Huffman table is hung next, 0 outside of Build
          was_in_sof, qtables_, dc_, ac_,
          stats_,    \* the fields of Stats that decoding uses
          taken,     \* how many bytes of the scan the stream has given out
          bit_buffer_, buffer_ptr_,
          move_ptr_, \* of the tree in use; the others are at their roots
          size, need, result, first_bit,   \* GetBits: cnt, how many to go, its results
          index, block, last_dcs, output   \* the locals of Scan; index is its i

header == <<read, hung, was_in_sof, qtables_, dc_, ac_, stats_>>
bits == <<taken, bit_buffer_, buffer_ptr_>>
amplitude == <<size, need, result, first_bit>>
decoded == <<index, block, last_dcs, output>>
decoder_vars == <<file, phase, header, bits, move_ptr_, amplitude, decoded>>

Ids == 0 .. HalfByte - 1
Channels == 1 .. 3
NoQTable == <<>>
NoChannel == [h |-> 0, v |-> 0, q |-> 0, dc |-> 0, ac |-> 0]
Zeros == [k \in 0 .. BlockSize - 1 |-> 0]

DecoderInit ==
  /\ file \in Files
  /\ phase = "header" /\ read = 0 /\ hung = 0
  /\ was_in_sof = FALSE
  /\ qtables_ = [id \in Ids |-> NoQTable]
  /\ dc_ = [id \in Ids |-> NoTree]
  /\ ac_ = [id \in Ids |-> NoTree]
  /\ stats_ = [channels_ |-> [c \in Channels |-> NoChannel],
               width_ |-> 0, height_ |-> 0, h_max_ |-> 1, v_max_ |-> 1,
               mcu_block_cnt_ |-> 0, img_width_in_mcu_ |-> 0, img_block_cnt_ |-> 0]
  /\ taken = 0 /\ bit_buffer_ = 0 /\ buffer_ptr_ = 0
  /\ move_ptr_ = Root
  /\ size = 0 /\ need = 0 /\ result = 0 /\ first_bit = TRUE
  /\ index = 0 /\ block = Zeros /\ last_dcs = [c \in Channels |-> 0] /\ output = <<>>

(* An exception leaves Decode.                                             *)
Raises == phase' = "failed" /\ UNCHANGED <<file, header, bits, move_ptr_, amplitude, decoded>>

-----------------------------------------------------------------------------
(* Read: the loop over the marker segments.                                *)
Segment(kind) == phase = "header" /\ read < Len(file.header) /\ file.header[read + 1].kind = kind
Contents == file.header[read + 1]
Reads == read' = read + 1 /\ UNCHANGED <<file, bits, move_ptr_, amplitude, decoded>>

(* SOI, wherever it is, a comment and the APPn segments.                   *)
ReadSkipped ==
  /\ \E kind \in {"SOI", "COM", "APP"} : Segment(kind)
  /\ Reads
  /\ UNCHANGED <<phase, hung, was_in_sof, qtables_, dc_, ac_, stats_>>

(* A table of 16-bit values is counted as 65 bytes of the segment, not     *)
(* 129, so that its size never comes out.                                  *)
ReadQTable ==
  /\ Segment("DQT")
  /\ \/ /\ Contents.wide
        /\ Raises
     \/ /\ ~ Contents.wide
        /\ qtables_' = [qtables_ EXCEPT ![Contents.id] = Contents.data]
        /\ Reads
        /\ UNCHANGED <<phase, hung, was_in_sof, dc_, ac_, stats_>>

(* A side of the image in MCUs, rounded up.  mcu_width_ and mcu_height_    *)
(* are size_t, and so the side becomes one.                                *)
InMcus(side, factor) ==
  ToSize(side) \div (factor * 8) + (IF ToSize(side) % (factor * 8) # 0 THEN 1 ELSE 0)

(* ReadStats: a side of 2 ^ 15 and more becomes negative, and the products *)
(* wrap.  dc_id_ and ac_id_ of a channel are set by the scan's header.     *)
StatsOf(segment) ==
  LET h_max == Max({segment.components[c].h : c \in DOMAIN segment.components})
      v_max == Max({segment.components[c].v : c \in DOMAIN segment.components})
      block_cnt == SumFunction([c \in DOMAIN segment.components |->
                                 segment.components[c].h * segment.components[c].v])
      width == Signed(segment.width)
      height == Signed(segment.height)
      img_mcu_cnt == ToSize(InMcus(width, h_max) * InMcus(height, v_max))
      Declared(id) == {c \in DOMAIN segment.components : segment.components[c].id = id}
      Channel(id) ==
        IF Declared(id) = {} THEN stats_.channels_[id]
        ELSE LET c == segment.components[Max(Declared(id))] IN
             [h |-> c.h, v |-> c.v, q |-> c.q, dc |-> 0, ac |-> 0]
  IN  [channels_ |-> [id \in Channels |-> Channel(id)],
       width_ |-> width, height_ |-> height,
       h_max_ |-> h_max, v_max_ |-> v_max,
       mcu_block_cnt_ |-> block_cnt,
       img_width_in_mcu_ |-> InMcus(width, h_max),
       img_block_cnt_ |-> ToSize(img_mcu_cnt * block_cnt)]

SamplingSupported(segment) ==
  /\ DOMAIN segment.components \in {{1}, {1, 2}, {1, 2, 3}}
  /\ \A c \in DOMAIN segment.components :
       segment.components[c].h \in {1, 2} /\ segment.components[c].v \in {1, 2}

(* The files that there are: a frame header is the image's, its components *)
(* numbered from 1, or one that ReadStats refuses.                         *)
Describes(segment, image) ==
  /\ segment.width = image.width /\ segment.height = image.height
  /\ DOMAIN segment.components = DOMAIN image.components
  /\ \A c \in DOMAIN image.components :
       /\ segment.components[c].id = c
       /\ segment.components[c].h = image.components[c].h
       /\ segment.components[c].v = image.components[c].v

ASSUME FilesAssumption ==
  \A f \in Files :
    /\ f.image.width \in 0 .. 2 * Int16Limit - 1 /\ f.image.height \in 0 .. 2 * Int16Limit - 1
    /\ Len(f.header) \in Nat
    /\ \A k \in 1 .. Len(f.header) :
         f.header[k].kind = "SOF" /\ SamplingSupported(f.header[k]) => Describes(f.header[k], f.image)

ReadStats ==
  /\ Segment("SOF")
  /\ \/ /\ was_in_sof \/ ~ SamplingSupported(Contents)
        /\ Raises
     \/ /\ ~ was_in_sof /\ SamplingSupported(Contents)
        /\ was_in_sof' = TRUE
        /\ stats_' = StatsOf(Contents)
        /\ Reads
        /\ UNCHANGED <<phase, hung, qtables_, dc_, ac_>>

(* ReadHuffman makes a new tree, and a step for every value grows it.      *)
Grow(class, id, tree) ==
  /\ dc_' = IF class = 0 THEN [dc_ EXCEPT ![id] = tree] ELSE dc_
  /\ ac_' = IF class = 0 THEN ac_ ELSE [ac_ EXCEPT ![id] = tree]

ReadHuffman ==
  /\ Segment("DHT") /\ hung = 0
  /\ \/ /\ ~ Builds(Contents.counts, Contents.values)
        /\ Raises
     \/ /\ Builds(Contents.counts, Contents.values)
        /\ hung' = 1
        /\ Grow(Contents.class, Contents.id, OnlyRoot)
        /\ UNCHANGED <<file, phase, read, was_in_sof, qtables_, stats_, bits, move_ptr_, amplitude, decoded>>

HangsValue ==
  /\ Segment("DHT") /\ hung \in DOMAIN Contents.values
  /\ LET tree == IF Contents.class = 0 THEN dc_[Contents.id] ELSE ac_[Contents.id] IN
     \/ /\ Try(tree, Contents.counts) = NoPlace
        /\ Raises
     \/ /\ Try(tree, Contents.counts) # NoPlace
        /\ hung' = hung + 1
        /\ Grow(Contents.class, Contents.id, Hung(tree, Contents.counts, Contents.values[hung]))
        /\ UNCHANGED <<file, phase, read, was_in_sof, qtables_, stats_, bits, move_ptr_, amplitude, decoded>>

HuffmanBuilt ==
  /\ Segment("DHT") /\ hung = Len(Contents.values) + 1
  /\ hung' = 0
  /\ Reads
  /\ UNCHANGED <<phase, was_in_sof, qtables_, dc_, ac_, stats_>>

(* CheckFields: every channel has its tables.                              *)
CheckFields(channels) ==
  \A c \in Channels : channels[c] # NoChannel =>
    /\ qtables_[channels[c].q] # NoQTable
    /\ dc_[channels[c].dc] # NoTree
    /\ ac_[channels[c].ac] # NoTree

(* ReadStartOfScan, the end of the loop of Read, and the beginning of Scan, *)
(* which makes room for all blocks.                                         *)
WithTables(segment) ==
  [c \in Channels |->
    LET named == {n \in DOMAIN segment.components : segment.components[n].id = c} IN
    IF named = {} THEN stats_.channels_[c]
    ELSE [stats_.channels_[c] EXCEPT !.dc = segment.components[Max(named)].dc,
                                     !.ac = segment.components[Max(named)].ac]]

ReadStartOfScan ==
  /\ Segment("SOS")
  /\ \/ /\ ~ was_in_sof \/ ~ CheckFields(WithTables(Contents)) \/ stats_.img_block_cnt_ > MaxBlocks
        /\ Raises
     \/ /\ was_in_sof /\ CheckFields(WithTables(Contents)) /\ stats_.img_block_cnt_ =< MaxBlocks
        /\ stats_' = [stats_ EXCEPT !.channels_ = WithTables(Contents)]
        /\ phase' = IF stats_.img_block_cnt_ = 0 THEN "end" ELSE "symbol"
        /\ Reads
        /\ UNCHANGED <<hung, was_in_sof, qtables_, dc_, ac_>>

(* EOI too early, or the stream has ended and the next marker is 0xffff.   *)
BugRefusesHeader ==
  /\ Segment("EOI")
  /\ Raises
RefusesHeader ==
  /\ Segment("EOI") \/ (phase = "header" /\ read = Len(file.header))
  /\ Raises

-----------------------------------------------------------------------------
(* GetBit.  At the end get() answers EOF, a byte of ones.                  *)
ByteAt(n) == IF n =< Len(file.scan) THEN file.scan[n] ELSE Ones

(* How far the stream is once there is a bit: a zero after a byte of ones  *)
(* is passed over.                                                         *)
BugFetched ==
  IF buffer_ptr_ # 0 THEN taken ELSE taken + 1
Fetched ==
  CASE buffer_ptr_ # 0 -> taken
    [] buffer_ptr_ = 0 /\ bit_buffer_ = Ones /\ ByteAt(taken + 1) = 0 -> taken + 2
    [] OTHER -> taken + 1
NoMoreBits == buffer_ptr_ = 0 /\ Fetched > Len(file.scan)
Buffer == IF buffer_ptr_ = 0 THEN ByteAt(Fetched) ELSE bit_buffer_
Bit == (Buffer \div 2 ^ (ByteBits - 1 - buffer_ptr_)) % 2

GetsBit ==
  /\ ~ NoMoreBits
  /\ taken' = Fetched
  /\ bit_buffer_' = Buffer
  /\ buffer_ptr_' = (buffer_ptr_ + 1) % ByteBits

WantsBit == phase = "symbol" \/ (phase = "bits" /\ need > 0)
RunsOutOfBits ==
  /\ WantsBit /\ NoMoreBits
  /\ Raises

-----------------------------------------------------------------------------
(* Scan.  Blocks are numbered from 0 here, as in the code.                 *)
Blocks == [c \in Channels |-> stats_.channels_[c].h * stats_.channels_[c].v]
ChannelNum(number) ==
  Min({c \in Channels : number % stats_.mcu_block_cnt_ < SumFunctionOnSet(Blocks, 1 .. c)})

Num == ChannelNum(Len(output))
Channel == stats_.channels_[Num]
Quantizer(k) == qtables_[Channel.q][k + 1]
Tree == IF index = 0 THEN dc_[Channel.dc] ELSE ac_[Channel.ac]

(* output[j] is complete.                                                  *)
BlockDone(coefficients) ==
  /\ output' = Append(output, coefficients)
  /\ block' = Zeros /\ index' = 0
  /\ phase' = IF Len(output) + 1 = stats_.img_block_cnt_ THEN "end" ELSE "symbol"

(* A bit of a symbol's code that leads to an inner node, or to none.       *)
Walks ==
  /\ phase = "symbol"
  /\ ~ MovesOff(Tree, move_ptr_, Bit) /\ ~ MovesToLeaf(Tree, move_ptr_, Bit)
  /\ GetsBit
  /\ move_ptr_' = Append(move_ptr_, Bit)
  /\ UNCHANGED <<file, phase, header, amplitude, decoded>>

WalksOff ==
  /\ phase = "symbol" /\ ~ NoMoreBits
  /\ MovesOff(Tree, move_ptr_, Bit)
  /\ Raises

(* The bit that completes a symbol: what it says is how many bits follow,  *)
(* for an AC after how many zeros; the AC symbol 0 ends the block.         *)
DecodedSymbol == Tree[Append(move_ptr_, Bit)]
CompletesSymbol ==
  /\ phase = "symbol" /\ MovesToLeaf(Tree, move_ptr_, Bit)
  /\ GetsBit
  /\ move_ptr_' = Root

GetBits(cnt) == size' = cnt /\ need' = cnt /\ result' = 0 /\ first_bit' = TRUE

ReadsDcSymbol ==
  /\ index = 0 /\ CompletesSymbol
  /\ phase' = IF DecodedSymbol > 2 * ByteBits THEN "failed" ELSE "bits"
  /\ GetBits(DecodedSymbol)
  /\ UNCHANGED <<file, header, decoded>>

ReadsAcSymbol ==
  /\ index > 0 /\ CompletesSymbol /\ DecodedSymbol # 0
  /\ index' = index + DecodedSymbol \div HalfByte
  /\ GetBits(DecodedSymbol % HalfByte)
  /\ phase' = "bits"
  /\ UNCHANGED <<file, header, block, last_dcs, output>>

ReadsEndOfBlock ==
  /\ index > 0 /\ CompletesSymbol /\ DecodedSymbol = 0
  /\ BlockDone(block)
  /\ UNCHANGED <<file, header, amplitude, last_dcs>>

ReadsExtraBit ==
  /\ phase = "bits" /\ need > 0
  /\ GetsBit
  /\ result' = 2 * result + Bit
  /\ first_bit' = IF need = size THEN Bit = 1 ELSE first_bit
  /\ need' = need - 1
  /\ UNCHANGED <<file, phase, header, move_ptr_, size, decoded>>

(* Numbers that begin with a zero are negative.                            *)
Amplitude == IF first_bit THEN result ELSE result - 2 ^ size + 1

BugStoresDc ==
  /\ phase = "bits" /\ need = 0 /\ index = 0
  /\ last_dcs' = [c \in Channels |-> last_dcs[Num] + Amplitude]
  /\ block' = [block EXCEPT ![0] = last_dcs'[Num] * Quantizer(0)]
  /\ index' = 1 /\ phase' = "symbol"
  /\ UNCHANGED <<file, header, bits, move_ptr_, amplitude, output>>
StoresDc ==
  /\ phase = "bits" /\ need = 0 /\ index = 0
  /\ last_dcs' = [last_dcs EXCEPT ![Num] = @ + Amplitude]
  /\ block' = [block EXCEPT ![0] = last_dcs'[Num] * Quantizer(0)]
  /\ index' = 1 /\ phase' = "symbol"
  /\ UNCHANGED <<file, header, bits, move_ptr_, amplitude, output>>

StoresAc ==
  /\ phase = "bits" /\ need = 0 /\ index > 0 /\ index < BlockSize
  /\ LET stored == [block EXCEPT ![index] = Amplitude * Quantizer(index)] IN
     IF index + 1 = BlockSize THEN BlockDone(stored)
     ELSE block' = stored /\ index' = index + 1 /\ phase' = "symbol" /\ UNCHANGED output
  /\ UNCHANGED <<file, header, bits, move_ptr_, amplitude, last_dcs>>

(* Zeros to just behind the block end it, more of them are an error.       *)
RunsOverBlock ==
  /\ phase = "bits" /\ need = 0 /\ index >= BlockSize
  /\ \/ /\ index = BlockSize
        /\ BlockDone(block)
        /\ UNCHANGED <<file, header, bits, move_ptr_, amplitude, last_dcs>>
     \/ /\ index > BlockSize
        /\ Raises

(* CheckEnd looks at the two bytes after those that GetBit has taken.      *)
(* Then Decode makes an Image, and a negative side is one that no vector   *)
(* has room for.                                                           *)
FitsImage == stats_.width_ >= 0 /\ stats_.height_ >= 0
CheckEnd ==
  /\ phase = "end"
  /\ phase' = IF <<ByteAt(taken + 1), ByteAt(taken + 2)>> = <<Ones, EndCode>> /\ FitsImage
              THEN "done" ELSE "failed"
  /\ UNCHANGED <<file, header, bits, move_ptr_, amplitude, decoded>>

-----------------------------------------------------------------------------
(* ConstructImage: which sample of which block is read for pixel (i, j).   *)
Height == 0 .. stats_.height_ - 1
Width == 0 .. stats_.width_ - 1

BugOffset(c, inner_i, inner_j) ==
  IF c = 1 THEN inner_i * stats_.channels_[1].v + inner_j ELSE SumFunctionOnSet(Blocks, 1 .. c - 1)
Offset(c, inner_i, inner_j) ==
  IF c = 1 THEN inner_i * stats_.channels_[1].h + inner_j ELSE SumFunctionOnSet(Blocks, 1 .. c - 1)

(* Cb and Cr are both scaled as channel 2 is.                              *)
PixelSource(c, i, j) ==
  LET scaled == stats_.channels_[IF c = 1 THEN 1 ELSE 2]
      mcu == (i \div (stats_.v_max_ * 8)) * stats_.img_width_in_mcu_ + j \div (stats_.h_max_ * 8)
      inner_i == (i \div (stats_.v_max_ \div scaled.v)) % 8
      inner_j == (j \div (stats_.h_max_ \div scaled.h)) % 8
  IN  [block |-> mcu * stats_.mcu_block_cnt_ + Offset(c, (i \div 8) % stats_.v_max_, (j \div 8) % stats_.h_max_)
                  + 1,   \* counted from 1
       sample |-> inner_i * 8 + inner_j]

-----------------------------------------------------------------------------
DecoderNext ==
  \/ ReadSkipped \/ ReadQTable \/ ReadStats \/ ReadHuffman \/ HangsValue \/ HuffmanBuilt
  \/ ReadStartOfScan \/ RefusesHeader
  \/ RunsOutOfBits \/ Walks \/ WalksOff
  \/ ReadsDcSymbol \/ ReadsAcSymbol \/ ReadsEndOfBlock \/ ReadsExtraBit
  \/ StoresDc \/ StoresAc \/ RunsOverBlock
  \/ CheckEnd

DecoderSpec == DecoderInit /\ [][DecoderNext]_decoder_vars

(* The decoder is a sequential program: it goes on as long as it can.      *)
DecoderFairSpec == DecoderSpec /\ WF_decoder_vars(DecoderNext)

-----------------------------------------------------------------------------
(* The blocks decoded so far are the first blocks that were encoded, and   *)
(* of the block in progress nothing is wrong yet: codes, lengths, zero     *)
(* runs, stuffed bytes and each component's own last DC are kept in step   *)
(* with the encoder over the whole scan.                                   *)
DecodedIsEncoded ==
  file.fault # "scan" =>
    /\ \A b \in DOMAIN output : output[b] = Coefficients(file.image, b)
    /\ phase \in {"symbol", "bits"} =>
         \A k \in 0 .. index - 1 :
           block[k] = Coefficients(file.image, Len(output) + 1)[k]
    /\ phase = "done" => Len(output) = Len(file.image.blocks)

(* What ConstructImage is made for: gray images of one block in an MCU, or *)
(* a luminance of one, two or four blocks and colours of one.              *)
LayoutSupported(image) ==
  /\ DOMAIN image.components \in {{1}, {1, 2}, {1, 2, 3}}
  /\ \A c \in DOMAIN image.components :
       LET factors == IF c = 1 /\ DOMAIN image.components # {1} THEN {1, 2} ELSE {1} IN
       image.components[c].h \in factors /\ image.components[c].v \in factors

SidesSupported(image) == image.width < Int16Limit /\ image.height < Int16Limit

(* The decoder refuses what is cut off or lacks a table, and what has a    *)
(* side beyond int16_t.  It refuses no whole file of the supported kind,   *)
(* except one: where the last byte of the scan is all ones, nobody takes   *)
(* the zero stuffed behind it and the end marker is not found.             *)
EndsOnStuffing ==
  LET length == Len(file.scan) IN
  length > 3 /\ SubSeq(file.scan, length - 3, length - 2) = <<Ones, 0>>
RefusesOnlyBadFiles ==
  /\ phase = "done" => file.fault \in {"none", "scan"} /\ SidesSupported(file.image)
  /\ phase = "failed" /\ file.fault = "none" =>
       \/ EndsOnStuffing
       \/ ~ SidesSupported(file.image) \/ ~ LayoutSupported(file.image)
       \/ Len(file.image.blocks) > MaxBlocks

(* Every pixel is made of the samples that the encoder put there for it,   *)
(* in the supported layouts, with images that do not fill their last MCUs. *)
PixelsFromTheirSamples ==
  phase = "done" /\ LayoutSupported(file.image) =>
    \A c \in DOMAIN file.image.components, i \in Height, j \in Width :
      PixelSource(c, i, j) = SampleOf(file.image, c, i, j)

(* Decoding ends, on files that end too early too.                         *)
Terminates == <>(phase \in {"done", "failed"})
=============================================================================
