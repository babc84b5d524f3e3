CONSTANTS
  PartTexts <- MCPartTexts
  FieldTexts <- MCFieldTexts
  MaxParts = 4
SPECIFICATION Spec
\* A request's context is decoded once and forwarded once; the model
\* ends there.
CHECK_DEADLOCK FALSE
INVARIANTS
  AppTypePreserved
