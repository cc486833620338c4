SPECIFICATION Spec
CONSTANTS
  NULL = NULL
  WordBits = 8
  RegStack = 16
  ExprStack = 64
  Programs <- Throwing
  Stack <- StackOf30
  FrameLimit = 16
  GuessWords = 2
  MaxFrames = 9
INVARIANTS Complete
CHECK_DEADLOCK FALSE
