SPECIFICATION MCSpec
CONSTANTS
  Chars = {"<", "/", "t", ">"}
  OPEN <- MCOpen
  CLOSE <- MCClose
  MaxCut = 3
  MaxChars = 8
  Indices = {0, 1}
  Args = {"a", "b"}
  MaxToolDeltas = 4
  MaxBlocks = 3
  MaxPieces = 3
CHECK_DEADLOCK FALSE
INVARIANTS
  StreamTypeOK
  CutsDoNotMatter
  CallsComeOnce
