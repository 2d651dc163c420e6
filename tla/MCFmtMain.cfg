SPECIFICATION Spec
CONSTANTS
  a = a
  b = b
  raw = raw
  done = done
  torn = torn
  error = error
  Paths = {a, b}
  Contents = {raw, done, torn}
  Format <- MCFormat
  FormatError = error
  Stdin = Stdin
  None = None
  Torn = torn
  ArgLists <- MCArgLists
  MaxSaves = 1
INVARIANTS
  TypeOK
  AllFormatted
  QuietMeansFormatted
  RewrittenOnce
  ListsRewritten
PROPERTIES
  Promised
  Ends
CHECK_DEADLOCK FALSE
