CONSTANTS
  Calls <- MCAddresses
  Bits <- MCBits
SPECIFICATION FormatSpec
INVARIANTS
  AddressesWhole
