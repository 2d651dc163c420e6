SPECIFICATION Spec
CONSTANTS
  Statements <- MCInputs
  CommentsOf <- MCCommentsOf
INVARIANTS
  TypeOK
  NeverReportsBug
  Idempotent
  CommentsStay
  RolesResolved
  SubqueriesAreParens
  CondOpsSeparate
