SPECIFICATION Spec
CONSTANTS
  Idents <- MCIdents
  DDLs <- MCDDLs
  Files <- MCFiles
  MaxRepairs = 6
INVARIANTS
  TypeOK
  SchemaIsLast
  Verdict
  Converges
CHECK_DEADLOCK FALSE
