CONSTANTS
  Setters <- MCSetters
  Envs <- MCEnvs
  Yamls <- MCYamls
  Decimal <- MCDecimal
  CommaSplit <- MCCommaSplit
  MaxOptions = 2
SPECIFICATION Spec
\* The caller passes MaxOptions options and NewApplication returns.
CHECK_DEADLOCK FALSE
INVARIANTS
  TypeOK
  LabelsBounded
PROPERTIES
  InputFrame
  ErrorNeverCleared
