SPECIFICATION Spec

CONSTANTS
  PortWidth = 4
  CounterBits = 1
  NoThread = NoThread
  NoPort = NoPort
  Threads = {t1}
  Sources = {}
  PinValues = {5}
  OutValues = {5}
  DataValues = {16}
  TimeValues = {}
  WidthValues = {4}
  ShiftValues = {4}
  InUseValues = {TRUE}
  ConditionValues = {"FULL"}
  SamplingEdgeValues = {"RISING"}
  ReadyModeValues = {"STROBED", "HANDSHAKE"}
  MasterSlaveValues = {"MASTER", "SLAVE"}
  PortTypeValues = {"DATAPORT"}
  ReadyInValues = {0, 1}
  UseEvents = FALSE
  OpSkip = 1
  MaxEntries = 3
  MaxSkip <- MCMaxSkip

INVARIANT NoUnscheduledChange
INVARIANT FastMatchesSlow
INVARIANT OneEntryPerEdge
