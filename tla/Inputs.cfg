SPECIFICATION InputsSpec
CONSTANTS
  Letters <- MCLetters
  Inside <- MCInside
  Others = {"&"}
  Texts <- MCTexts
  IntMax = 10
  Files <- MCFiles
  SizeLimit = 262144
  MaxBlocks = 40
  ByteBits = 4
  BlockSize = 9
  EndCode = 9
  MaxCodeLength = 4
CHECK_DEADLOCK FALSE
INVARIANTS
  ReadsTheGrammar
  TakesOnlyItsDatum
  WritesWhatItReads
  DecodedIsEncoded
  RefusesOnlyBadFiles
  PixelsFromTheirSamples
PROPERTIES
  ReadingEnds
  Terminates
