CONSTANTS
  PartTexts <- MCPartTexts
  FieldTexts <- MCFieldTexts
  MaxParts = 4
SPECIFICATION Spec
\* Explores every header decoded and forwarded once; the properties are
\* checked by the MCTraceIdCodec_*.cfg configurations.
CHECK_DEADLOCK FALSE
