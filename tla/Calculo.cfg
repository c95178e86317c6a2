SPECIFICATION ClientSpec
CONSTANTS
  Half = 8
  Registers = {1, 2, 3}
  Literals <- MCLiterals
  RowNames = {1, 2, 3}
  StartRows <- MCStartRows
  Factors <- MCFactors
  Lanes = 2
  RowSteps = 1
  Vectors <- MCVectors
  Epsilons <- MCEpsilons
  Others <- MCOthers
  Coerce <- MCCoerce
  OverIn <- MCOverIn
  FractionBits = 2
  Exponents <- MCExponents
  Bias = 3
  MaskedBits = 1
  RowLength = 2
INVARIANTS
  IntegersAreExact
  RowsAgree
  NormalFormsAreSound
  FloatsAreSound
CHECK_DEADLOCK FALSE
