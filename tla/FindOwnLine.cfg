SPECIFICATION Spec
CONSTANTS
  Statements <- CommentedStatements
  CommentsOf <- MCCommentsOf
INVARIANT OwnLineKept
