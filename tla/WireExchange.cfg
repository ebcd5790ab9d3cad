SPECIFICATION Spec
CONSTANTS
  None = None
  ByteBits = 6
  IntegerBits = {2, 6}
  MaxChar = 50
  MaxScale = 2
  MaxClock = 20
  MaxMantissa = 30
  Messages <- MCMessages
  Limits <- MCLimits
  Generous <- MCGenerous
  Blocks = {2, 3, 4, 6, 11, 13}
  Replacements = {0, 1, 2, 3, 4, 11, 12, 14, 31, 63}
INVARIANTS
  TypeOK
  EncodedFramesDecode
  OneIdentity
  LimitsOnlyRefuse
CHECK_DEADLOCK FALSE
