SPECIFICATION Spec

CONSTANTS
  PortWidth = 4
  CounterBits = 1
  NoThread = NoThread
  NoPort = NoPort
  Threads = {t1}
  Sources = {}
  PinValues = {0, 5}
  OutValues = {37}
  DataValues = {16}
  TimeValues = {}
  WidthValues = {4, 8}
  ShiftValues = {4, 8}
  InUseValues = {TRUE}
  ConditionValues = {"FULL"}
  SamplingEdgeValues = {"RISING"}
  ReadyModeValues = {"NOREADY"}
  MasterSlaveValues = {"MASTER"}
  PortTypeValues = {"DATAPORT"}
  ReadyInValues = {0}
  UseEvents = FALSE
  OpSkip = 1
  MaxEntries = 3
  MaxSkip <- MCMaxSkip

INVARIANT EntriesWithinRegister
