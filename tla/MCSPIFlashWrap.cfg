SPECIFICATION Spec
CONSTANTS
  ByteBits = 2
  AddressBytes = 3
  WordBits = 8
  ReadCmd = 3
  Mem <- MCMem
  MaxBits = 520
INVARIANT MISOCarriesFile
