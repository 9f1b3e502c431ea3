\* Paths up to five characters over an alphabet that can spell ".xex",
\* a directory separator and an ordinary letter.
CONSTANTS
  Chars = {"a", "x", "e", ".", "/"}
  Separator = "/"
  Npos = 2147483647
  MaxPathLen = 5

SPECIFICATION Spec

INVARIANT InferTypeCorrect
