SPECIFICATION Spec
CONSTANTS
  ByteBits = 2
  AddressBytes = 3
  WordBits = 8
  ReadCmd = 3
  Mem <- MCMem
  MaxBits = 24
INVARIANT TypeOK
INVARIANT MISOCarriesFile
PROPERTY MISOQuietOutsideRead
