CONSTANTS
  Setters <- MCSetters
  Envs <- MCEnvsLabels
  Yamls <- MCYamls
  Decimal <- MCDecimal
  CommaSplit <- MCCommaSplit
  MaxOptions = 2
SPECIFICATION Spec
\* The caller passes MaxOptions options and NewApplication returns.
CHECK_DEADLOCK FALSE
PROPERTIES
  LabelsStrict
