SPECIFICATION Spec
CHECK_DEADLOCK FALSE
CONSTANTS
  MaxFds = 8
  WordBits = 6
  RamBase = 32
  RamSize = 24
  RomBase = 8
  RomSize = 8
  HostFds = 9
  Cores = {c1, c2}
  Counts = {1, 2, 3}
  CmdLines <- MCCmdLines
  Words = {0, 3}
  FdArgs = {3, 4, 6, 7, 8, 63}
  Addresses = {0, 8, 36, 41, 52}
  Sizes = {0, 4, 19, 20, 44}
  ZeroBytes <- MCZeroBytes
  NoAccess = NoAccess
INVARIANT HostGivenMemoryOnly
