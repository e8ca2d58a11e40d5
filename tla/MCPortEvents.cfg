SPECIFICATION FairSpec

CONSTANTS
  PortWidth = 4
  CounterBits = 1
  NoThread = NoThread
  NoPort = NoPort
  Threads = {t1}
  Sources = {s1}
  PinValues = {0, 5}
  OutValues = {5}
  DataValues = {21}
  TimeValues = {}
  WidthValues = {4}
  ShiftValues = {4}
  InUseValues = {TRUE}
  ConditionValues = {"EQ", "NEQ", "AFTER"}
  SamplingEdgeValues = {"RISING"}
  ReadyModeValues = {"NOREADY"}
  MasterSlaveValues = {"MASTER"}
  PortTypeValues = {"DATAPORT"}
  ReadyInValues = {0}
  UseEvents = TRUE
  OpSkip = 1
  MaxEntries = 3
  MaxSkip <- MCMaxSkip

INVARIANT NoUnscheduledChange
INVARIANT FastMatchesSlow
PROPERTY HeldValueIsKept
PROPERTY EventIsRaised
