CONSTANTS
  NClus = 7
  DataEnd = 6
  Hint = 2
  EPS = 2
  DPS = 5
  a = a
  b = b
  d = d
  e = e
  FileNames = {a, b, e}
  DirNames = {d}
  Paths <- MCPaths
  Slots <- MCSlots
  Base <- Stem
  Prefix <- MCPrefix
  ChkSum <- MCChkSum
  Foreign = b
  Handle = {h1}
  Sizes = {1, 6}
  MaxCrash = 1
  MaxNew = 2
  Width = 64
  Nil = Nil
SPECIFICATION Spec
INVARIANTS ChainsSound FilesOwn FreeIsZero Accounting EntryCurrent
CHECK_DEADLOCK FALSE
CONSTRAINT Usable
