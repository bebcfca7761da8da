------------------------------ MODULE MCInputs ------------------------------
(* The decoder of JPEG on files and the reader of scheme on texts.         *)
EXTENDS SchemeReader, JpegDecoder

-----------------------------------------------------------------------------
(* All short texts over the characters that brackets, dots and quotes      *)
(* make a difference to, all short texts over those that make numbers and  *)
(* symbols, and longer ones with nested lists.  An int holds -11 to 10.    *)
MCLetters == {"q", "u", "o", "t", "e", "#"}
MCInside == {"?", "!", "-"}

UpTo(n, S) == UNION {[1 .. i -> S] : i \in 0 .. n}

Structured == UpTo(5, {"(", ")", ".", "'", "1", " "})
Lexical == UpTo(4, {"0", "1", "-", "+", "e", "?", "&", " "})
Crossing == {<<"(">> \o s : s \in UpTo(4, {")", "1", "-", "e", "\n"})}

(* Items of a list, wrapped in up to two lists, cut at every place.        *)
Parts == {<<"1">>, <<"(", ")">>, <<"'", "e">>, <<"(", "1", " ", ".", " ", "e", ")">>,
          <<"(", "1", " ", ".", "(", "0", ")", ")">>}
Wrap(p, q) == <<"(">> \o p \o <<" ">> \o q \o <<")">>
Pairs == {<<"(">> \o p \o <<" ", ".", " ">> \o q \o <<")">> : p \in Parts, q \in Parts}
           \union {Wrap(p, q) : p \in Parts, q \in Parts}
Nested == Pairs \union {Wrap(p, q) : p \in Pairs, q \in {<<"1">>, <<"'", "(", "e", ")">>}}
CutNested == {SubSeq(s, 1, Len(s) - k) : s \in Nested, k \in 0 .. 2}

MCTexts == Structured \union Lexical \union Crossing \union CutNested

-----------------------------------------------------------------------------
(* Bytes of four bits and blocks of nine coefficients: a symbol has two    *)
(* bits of run and two of size, and ZRL stands for four zeros.             *)
Quantizer1 == <<1, 2, 1, 3, 1, 1, 1, 1, 2>>
Quantizer2 == <<2, 1, 1, 1, 5, 1, 1, 1, 1>>

(* Two DC tables, and an AC table with EOB, ZRL and what the blocks use:   *)
(* 4 * zeros + size.                                                       *)
Dc1 == [counts |-> <<0, 3, 1, 0>>, values |-> <<0, 2, 1, 3>>]
Dc2 == [counts |-> <<1, 0, 2, 2>>, values |-> <<1, 0, 2, 9, 3>>]
Ac1 == [counts |-> <<0, 2, 2, 3>>, values |-> <<1, 0, 12, 2, 6, 13, 5>>]

(* Blocks: nothing; a full one; runs, a ZRL and a last coefficient; the    *)
(* largest of negative numbers.                                            *)
Block(dc, ac) == [k \in 0 .. BlockSize - 1 |-> IF k = 0 THEN dc ELSE ac[k]]
Blank == Block(0, <<0, 0, 0, 0, 0, 0, 0, 0>>)
Full == Block(3, <<1, -1, 3, 1, 1, -2, 1, 3>>)
Sparse == Block(-2, <<0, 3, 0, 0, 0, 0, 0, -1>>)
Late == Block(-3, <<0, 0, 0, 0, 0, 0, 0, 1>>)
Early == Block(1, <<-3, 0, 1, 0, 0, 0, 0, 0>>)
Low == Block(-3, <<3, 0, -3, -3, 0, 0, 0, 0>>)
Menu == {Blank, Full, Sparse, Late, Early, Low}

Component(id, h, v, q, dc, ac) == [id |-> id, h |-> h, v |-> v, q |-> q, dc |-> dc, ac |-> ac]
Gray == <<Component(1, 1, 1, Quantizer1, Dc1, Ac1)>>
Colour(h, v) == <<Component(1, h, v, Quantizer1, Dc1, Ac1),
                  Component(2, 1, 1, Quantizer2, Dc2, Ac1),
                  Component(3, 1, 1, Quantizer2, Dc2, Ac1)>>
Image(width, height, components, blocks) ==
  [width |-> width, height |-> height, components |-> components, blocks |-> blocks]

-----------------------------------------------------------------------------
(* The header of an image: DC tables 0 and 1, AC table 1, quantization     *)
(* tables 0 and 2.                                                         *)
Soi == [kind |-> "SOI"]
Comment == [kind |-> "COM"]
App == [kind |-> "APP"]
Eoi == [kind |-> "EOI"]
Dqt(id, data) == [kind |-> "DQT", wide |-> FALSE, id |-> id, data |-> data]
WideDqt(id, data) == [kind |-> "DQT", wide |-> TRUE, id |-> id, data |-> data]
Dht(class, id, table) ==
  [kind |-> "DHT", class |-> class, id |-> id, counts |-> table.counts, values |-> table.values]
Sof(image) ==
  [kind |-> "SOF", width |-> image.width, height |-> image.height,
   components |-> [c \in DOMAIN image.components |->
     LET component == image.components[c] IN
     [id |-> component.id, h |-> component.h, v |-> component.v,
      q |-> IF component.q = Quantizer1 THEN 0 ELSE 2]]]
Sos(image) ==
  [kind |-> "SOS",
   components |-> [c \in DOMAIN image.components |->
     LET component == image.components[c] IN
     [id |-> component.id, dc |-> IF component.dc = Dc1 THEN 0 ELSE 1, ac |-> 1]]]

Tables == <<Dqt(0, Quantizer1), Dqt(2, Quantizer2), Dht(0, 0, Dc1), Dht(1, 1, Ac1), Dht(0, 1, Dc2)>>
Header(image) == <<Soi, App>> \o Tables \o <<Sof(image), Comment, Sos(image)>>

(* Other headers: in another order, and with tables that are replaced.     *)
OtherHeaders(image) ==
  {<<Soi, Sof(image)>> \o Reverse(Tables) \o <<Sos(image)>>,
   <<Soi, Dqt(0, Quantizer2), Dht(0, 0, Dc2), Dht(1, 1, Dc2)>> \o Tables \o <<Sof(image), Sos(image)>>}

(* Headers without the frame, with two, without one table, with the end    *)
(* too early, with tables that do not fit or that are not supported.       *)
Overfull == [counts |-> <<2, 1, 0, 0>>, values |-> <<1, 2, 3>>]
Miscounted == [counts |-> <<1, 1, 0, 0>>, values |-> <<1, 2, 3>>]
BadHeaders(image) ==
  {<<Soi>> \o Tables \o <<Sos(image)>>,
   <<Sof(image), Sof(image)>> \o Tables \o <<Sos(image)>>,
   <<Eoi>> \o Header(image),
   <<Dht(0, 3, Overfull)>> \o Header(image),
   <<Dht(1, 3, Miscounted)>> \o Header(image),
   <<WideDqt(3, Quantizer1)>> \o Header(image),
   Tables \o <<[Sof(image) EXCEPT !.components[1].h = 4], Sos(image)>>}
  \union {RemoveAt(Tables, k) \o <<Sof(image), Sos(image)>> : k \in {1, 3, 4}}
  \union {SubSeq(Header(image), 1, k) : k \in 0 .. Len(Header(image)) - 1}

-----------------------------------------------------------------------------
File(image, hdr, scan, fault) == [image |-> image, header |-> hdr, scan |-> scan, fault |-> fault]
Sound(image) == File(image, Header(image), ScanBytes(image), "none")

(* All triples of blocks in gray, and colour images of four layouts.       *)
GrayImages == {Image(8, 17, Gray, <<b1, b2, b3>>) : b1, b2, b3 \in Menu}
Cycle(n, blocks) == [k \in 1 .. n |-> blocks[((k - 1) % Len(blocks)) + 1]]
Patterns == {<<Early, Blank, Sparse, Full, Late>>, <<Full, Late, Low, Blank>>}
ColourImages ==
  UNION {{Image(1, 8, Colour(1, 1), Cycle(3, p)),
          Image(17, 3, Colour(2, 1), Cycle(8, p)),
          Image(8, 17, Colour(1, 2), Cycle(8, p)),
          Image(17, 17, Colour(2, 2), Cycle(24, p))} : p \in Patterns}

Sample == Image(8, 8, Gray, <<Sparse>>)
Small == Image(1, 1, Colour(1, 1), <<Early, Late, Full>>)

Cuts(image) ==
  {File(image, Header(image), SubSeq(ScanBytes(image), 1, k), "cut") :
    k \in 0 .. Len(ScanBytes(image)) - 1}

(* Scans no encoder writes: zeros over the end of a block, a size that no  *)
(* number has, and bits that are no code.                                  *)
BadScans ==
  LET One == Code(Ac1, 1) \o <<1>>
      Zrl == Code(Ac1, 12)
      Start == DcBits(Dc1, 0)
  IN  {Start \o One \o Zrl \o Zrl, Start \o One \o One \o Zrl \o Zrl,
       <<1, 1, 1, 1>>, Code(Dc2, 9)}
BadFile(component, bitstream) ==
  LET image == Image(8, 8, <<component>>, <<Blank>>) IN
  File(image, Header(image), Bytes(bitstream) \o <<Ones, EndCode>>, "scan")

(* Sides beyond int16_t, which stays behind 127, or none, and more blocks  *)
(* than there is room for.  Where both sides are negative the number of    *)
(* blocks wraps, here to 15.                                               *)
OddSizes ==
  {Image(129, 1, Gray, Cycle(17, <<Sparse, Full>>)), Image(1, 255, Gray, Cycle(32, <<Blank>>)),
   Image(129, 0, Gray, <<>>), Image(0, 128, Gray, <<>>), Image(0, 0, Gray, <<>>),
   Image(24, 112, Gray, Cycle(42, <<Late, Blank>>))}
Wrapped ==
  LET image == Image(129, 248, Gray, Cycle(15, <<Early, Low>>)) IN
  File(image, Header(image), ScanBytes(image), "scan")

(* Layouts that ConstructImage is not made for.                            *)
OddLayouts ==
  LET Y(h, v) == Component(1, h, v, Quantizer1, Dc1, Ac1)
      C(id, h, v) == Component(id, h, v, Quantizer2, Dc2, Ac1)
      p == <<Full, Late, Low, Blank>>
  IN  {Image(32, 16, <<Y(2, 2)>>, Cycle(8, p)), Image(8, 8, <<Y(2, 1)>>, <<Early>>),
       Image(17, 3, <<Y(1, 1), C(2, 2, 1)>>, Cycle(6, p)),
       Image(17, 9, <<Y(1, 1), C(2, 2, 2), C(3, 1, 2)>>, Cycle(14, p)),
       Image(8, 8, <<Y(2, 1), C(2, 2, 1), C(3, 2, 1)>>, Cycle(6, p))}

MCFiles ==
  {Sound(image) : image \in GrayImages \union ColourImages \union OddSizes \union OddLayouts}
  \union {Wrapped}
  \union {File(Small, h, ScanBytes(Small), "none") : h \in OtherHeaders(Small)}
  \union {File(Small, h, ScanBytes(Small), "header") : h \in BadHeaders(Small)}
  \union Cuts(Sample) \union Cuts(Small)
  \union {BadFile(Component(1, 1, 1, Quantizer1, table, Ac1), b) : b \in BadScans, table \in {Dc1, Dc2}}

-----------------------------------------------------------------------------
(* A program decodes a file and then reads a text; it goes on as long as   *)
(* it can.  One of the two is empty, since they do not touch each other.   *)
InputsInit ==
  \/ DecoderInit /\ source = <<>> /\ ParserInit
  \/ DecoderInit /\ file.header = <<>> /\ ParserInit

InputsNext ==
  \/ DecoderNext /\ UNCHANGED parser_vars
  \/ phase \in {"done", "failed"} /\ ParserNext /\ UNCHANGED decoder_vars

inputs_vars == <<decoder_vars, parser_vars>>

InputsSpec == InputsInit /\ [][InputsNext]_inputs_vars /\ WF_inputs_vars(InputsNext)
=============================================================================
