SPECIFICATION Spec
CONSTANTS
  Word = 6
  HalfWord = 3
  Mantissa = 4
  Mantissa32 = 2
  Exponent = 10
  Exponent32 = 9
  Slack = 2
  None = None
  DefaultMaxBodyBytes = 2
  MaxLayers = 2
  NameOrder <- MCNameOrder
  Handlings <- MCNamed
  OtherVerdict <- SchemaVerdict
INVARIANTS NamedLikeKind
