SPECIFICATION Spec
CONSTANT Inputs <- MCInputs
INVARIANTS
  TypeOK
  WrittenOnce
  StacksMatch
  NoPanic
  CloseAligned
  BodyDeeper
  Separated
CHECK_DEADLOCK FALSE
