SPECIFICATION EditorSpec
CONSTANTS
  a = a
  b = b
  Nul = Nul
  Chars <- Letters
  PosRange = 8
  MaxLength = 3
  MaxLog = 4
  MaxBefore = 5
SYMMETRY Alike
CONSTRAINT Small
INVARIANT
  CursorInBuffer
