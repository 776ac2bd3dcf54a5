SPECIFICATION Spec
CONSTANTS
  Group0 = 2
  AttValue <- MCAttValue
  EntValue <- Literal
  PublicId <- Literal
  Tokens <- MCTokens
  MaxDecls = 3
  MaxLevel = 3
  MaxAtts = 1
INVARIANT ConnectorInBounds
INVARIANT FirstDeclarationWins
PROPERTY GroupsImplemented
CHECK_DEADLOCK FALSE
