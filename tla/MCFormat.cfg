CONSTANTS
  Calls <- MCCalls
  Bits <- MCBits
SPECIFICATION FormatSpec
INVARIANTS NumbersReadBack PaddedExactly
