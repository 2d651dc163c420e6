SPECIFICATION Spec
CONSTANTS
  Statements <- InlineOffset
  CommentsOf <- NoComments
INVARIANT KeywordsUppercased
