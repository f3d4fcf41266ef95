SPECIFICATION Spec
CONSTANTS
  MaxRetry = 2
  MaxFailures = 2
INVARIANTS
  TypeOK
  StatusesAgree
  NeverForgotten
PROPERTIES
  AttemptsEnd
  OutputLeaves
