SPECIFICATION SequentialSpec
CONSTANTS
  x = x
  plus = plus
  l1 = l1
  l2 = l2
  v1 = v1
  v2 = v2
  v3 = v3
  None = None
  Names <- TwoNames
  Builtins <- Plus
  MaxStorage = 2
  MaxDepth = 2
  Lambdas <- TwoLambdas
  Variables <- ThreeVariables
  a = a
  b = b
  Nul = Nul
  Chars <- Letters
  PosRange = 8
  MaxLength = 3
  MaxLog = 4
  MaxBefore = 5
SYMMETRY AlikeInBoth
CONSTRAINT Small
INVARIANTS
  CounterCountsVariables
  CallsOwnScopes
PROPERTIES
  EnvironmentsUnlessDynamic
  DocumentUntilLost
