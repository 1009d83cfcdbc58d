CONSTANTS
  INPUT_BUF = 4
  WORD = 8
  MAXARGS = 3
  Scripts <- Lines
  NPROC = 6
  NOFILE = 5
  BUFSZ = 9
  NREAD = 2
  MaxFail = 1
  MaxKill = 1
SPECIFICATION Spec
INVARIANTS ParsesGrammar InOrder NoOversleep
PROPERTIES EditorSpec Settles
CHECK_DEADLOCK FALSE
