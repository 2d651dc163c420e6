CONSTANTS
  Files <- MCFiles
  Texts <- MCTexts
  FormatSQL <- MCFormatSQL
  FormatError <- MCFormatError
SPECIFICATION SpecTwice
INVARIANTS
  TypeOK
  Spliced
  PartsCover
  AllOrNothing
  ErrorsInOrder
  FieldsFormatted
  Idempotent
PROPERTIES
  CutsAdvance
\* formatGoFile returns.
CHECK_DEADLOCK FALSE
