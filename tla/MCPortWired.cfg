SPECIFICATION Spec

CONSTANTS
  PortWidth = 1
  CounterBits = 1
  NoThread = NoThread
  NoPort = NoPort
  Threads = {t1}
  Sources = {s1, s2}
  PinValues = {0, 1}
  OutValues = {1}
  DataValues = {}
  TimeValues = {}
  WidthValues = {1}
  ShiftValues = {1}
  InUseValues = {TRUE}
  ConditionValues = {"FULL"}
  SamplingEdgeValues = {"RISING"}
  ReadyModeValues = {"NOREADY"}
  MasterSlaveValues = {"MASTER"}
  PortTypeValues = {"DATAPORT", "READYPORT"}
  ReadyInValues = {0}
  UseEvents = FALSE
  OpSkip = 1
  MaxEntries = 3
  MaxSkip <- MCMaxSkip

INVARIANT ReadyPortOfOneSource
