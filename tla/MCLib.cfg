SPECIFICATION Spec
CONSTANTS
  Chars <- MCChars
  MemSize = 5
  StrcmpMax = 3
  Long = 256
  Conversions <- MCConversions
  Words <- MCWords
  Texts <- MCTexts
  BufSizes <- MCBufSizes
INVARIANTS
  WritersRight
  
  
  BufferInside
