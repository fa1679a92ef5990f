SPECIFICATION Spec
CONSTANTS
  Client = {c1, c2}
  Ttl = 2
  MaxRequest = 1
  MaxVersion = 2
  None = None
SYMMETRY ClientsAlike
INVARIANTS
  TypeOK
  RepliesAreFresh
  CopiesAreFresh
  AnswersAdvance
CHECK_DEADLOCK TRUE
