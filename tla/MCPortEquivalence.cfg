SPECIFICATION Spec

CONSTANTS
  PortWidth = 4
  CounterBits = 2
  NoThread = NoThread
  NoPort = NoPort
  Threads = {t1}
  Sources = {}
  PinValues = {0, 5}
  OutValues = {5}
  DataValues = {16}
  TimeValues = {2}
  WidthValues = {4}
  ShiftValues = {4}
  InUseValues = {TRUE}
  ConditionValues = {"FULL"}
  SamplingEdgeValues = {"RISING"}
  ReadyModeValues = {"NOREADY"}
  MasterSlaveValues = {"MASTER"}
  PortTypeValues = {"DATAPORT"}
  ReadyInValues = {0}
  UseEvents = FALSE
  OpSkip = 1
  MaxEntries = 3
  MaxSkip <- MCMaxSkip

INVARIANT FastEqualsSlow
