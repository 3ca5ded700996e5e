SPECIFICATION Spec
CONSTANTS
  LogWidth = 3
  MaxCopy = 17
  MaxDigits = 4
  ByteBits = 3
  LongBytes = 4
  Kilo = 4
  PageSize = 16
  LONG_MAX = 127
  BUFSIZ = 4
INVARIANT MatchesReference
