SPECIFICATION Spec

CONSTANTS
  PortWidth = 1
  CounterBits = 1
  NoThread = NoThread
  NoPort = NoPort
  Threads = {t1}
  Sources = {s1}
  PinValues = {0, 1}
  OutValues = {1}
  DataValues = {}
  TimeValues = {}
  WidthValues = {1}
  ShiftValues = {1}
  InUseValues = {TRUE, FALSE}
  ConditionValues = {"FULL"}
  SamplingEdgeValues = {"RISING", "FALLING"}
  ReadyModeValues = {"NOREADY"}
  MasterSlaveValues = {"MASTER"}
  PortTypeValues = {"DATAPORT", "CLOCKPORT", "READYPORT"}
  ReadyInValues = {0}
  UseEvents = FALSE
  OpSkip = 1
  MaxEntries = 3
  MaxSkip <- MCMaxSkip

INVARIANT TypeOK
INVARIANT NoUnscheduledChange
INVARIANT FastMatchesSlow
