------------------------------ MODULE PortEdge ------------------------------
(***************************************************************************)
(* What one clock edge does to a data port (Port::seeEdge and the          *)
(* functions it calls), as operators on a record of the port's members.    *)
(*                                                                         *)
(* A port is a record p with one field per member of class Port, under     *)
(* the member's name.  The other fields stand for state the port keeps in  *)
(* other objects and for the bookkeeping of one call of update():          *)
(*   nextEdge     the type of the edge the cached iterator points at;      *)
(*   clkReadyIn   the value of clock->getReadyInValue(), a constant signal;*)
(*   srcReadyOut  the value of readyOutOf->getReadyOutValue();             *)
(*   attachedTo   the ports whose readyOutPorts hold this port;            *)
(*   edges, fx    the number of edges this update has passed, and the      *)
(*                callbacks it made: <<kind, value, edge>>.                *)
(* Ticks are abstracted to edges: the time of a step is the position       *)
(* between two edges of the port's clock, which is all the code reads of   *)
(* it once the pins and the ready-in signal are constant signals.          *)
(***************************************************************************)
EXTENDS Integers, Sequences, Bitwise

CONSTANTS
  PortWidth,    \* getPortWidth(): 1, 4, 8, 16 or 32
  CounterBits,  \* width of portCounter and timeReg: 16 in the simulator
  NoThread,     \* the null Thread pointer of the paused slots
  NoPort        \* the null Port pointer of readyOutOf

ASSUME PortWidth \in {1, 4, 8, 16, 32}
ASSUME CounterBits \in Nat \ {0}

CounterMod == 2^CounterBits

EdgeTypes  == {"RISING", "FALLING"}
Conditions == {"FULL", "EQ", "NEQ"}
ReadyModes == {"NOREADY", "STROBED", "HANDSHAKE"}
PortTypes  == {"DATAPORT", "CLOCKPORT", "READYPORT"}

\* A Signal is a constant, written as its value, or the clock the port is
\* bound to, which a clock port drives: as it is (CLK) or inverted (NCLK).
CLK  == -1
NCLK == -2

Other(edge) == IF edge = "RISING" THEN "FALLING" ELSE "RISING"

\* The type of the edge n edges after one of type edge (EdgeIterator + n).
EdgeAfter(edge, n) == IF n % 2 = 0 THEN edge ELSE Other(edge)

\* v & portWidthMask()
Low(v) == v % 2^PortWidth

-----------------------------------------------------------------------------
(* Predicates and values read off the port                                 *)

UseReadyIn(p) ==
  \/ p.readyMode = "HANDSHAKE"
  \/ p.readyMode = "STROBED" /\ p.masterSlave = "SLAVE"

UseReadyOut(p) ==
  \/ p.readyMode = "HANDSHAKE"
  \/ p.readyMode = "STROBED" /\ p.masterSlave = "MASTER"

\* Signal::flipLeastSignificantBit on a constant or on the clock signal.
FlipLeastSignificantBit(v) ==
  CASE v = CLK  -> NCLK
    [] v = NCLK -> CLK
    [] OTHER    -> IF v % 2 = 0 THEN v + 1 ELSE v - 1

GetEffectiveValue(p, v) == IF p.inverted THEN FlipLeastSignificantBit(v) ELSE v

\* getDataPortPinsValue(): an output port reads back what it drives.
GetDataPortPinsValue(p) ==
  IF p.outputPort THEN Low(p.shiftReg) ELSE p.pinsInputValue

\* getEffectiveDataPortInputPinsValue(): what the port samples and compares
\* with its condition.
EffectiveInput(p) == GetEffectiveValue(p, GetDataPortPinsValue(p))

ValueMeetsCondition(p, value) ==
  \/ p.condition = "FULL"
  \/ p.condition = "EQ"  /\ p.data = value
  \/ p.condition = "NEQ" /\ p.data # value

TimeAndConditionMet(p) ==
  /\ p.transferRegValid
  /\ ~p.timeRegValid \/ p.portCounter = p.timeReg
  /\ ValueMeetsCondition(p, EffectiveInput(p))

GetPinsOutputValue(p) ==
  CASE p.portType = "READYPORT" ->
         GetEffectiveValue(p, IF p.readyOutOf # NoPort THEN p.srcReadyOut ELSE 0)
    [] p.portType = "CLOCKPORT" -> GetEffectiveValue(p, CLK)
    [] ~p.outputPort            -> GetEffectiveValue(p, 0)
    [] OTHER                    -> GetEffectiveValue(p, Low(p.shiftReg))

ComputeReadyOut(p) ==
  /\ UseReadyOut(p)
  /\ IF p.outputPort
       THEN (~UseReadyIn(p) \/ p.readyIn) /\ p.validShiftRegEntries # 0
       ELSE IF p.timeRegValid
              THEN p.portCounter = p.timeReg
              ELSE p.validShiftRegEntries # p.portShiftCount

\* The output shift register one entry on: the top entry repeats.
NextShiftRegOutputPort(p, old) ==
  LET top == p.transferWidth - PortWidth
  IN  (old \div 2^PortWidth) | ((old \div 2^top) * 2^top)

ShouldRealignShiftRegister(p) ==
  /\ p.buffered
  /\ p.pausedIn # NoThread \/ p.eventsPermitted
  /\ ~p.holdTransferReg
  /\ ValueMeetsCondition(p, EffectiveInput(p))
  /\ IF p.timeRegValid
       THEN ~UseReadyOut(p) /\ p.portCounter = p.timeReg
       ELSE p.condition # "FULL"

-----------------------------------------------------------------------------
(* Callbacks.  The port has a loopback observer; it is no clock block's    *)
(* source and no ready port is attached to it, so outputValue reaches the  *)
(* loopback only and a ready-out change is recorded where the attached     *)
(* ready ports would be told.                                              *)

Emit(p, kind, value) == [p EXCEPT !.fx = Append(@, <<kind, value, p.edges>>)]

OutputValue(p, value) == Emit(p, "pins", value)

HandleReadyOutChange(p, value) ==
  Emit(p, "readyOut", GetEffectiveValue(p, IF value THEN 1 ELSE 0))

\* Mutation of Wake: the slot is emptied and the thread is not scheduled.
WakeWithoutSchedule(p, slot) == [p EXCEPT ![slot] = NoThread]

\* pausedX->schedule(); pausedX = nullptr
Wake(p, slot) ==
  IF p[slot] = NoThread THEN p
  ELSE [Emit(p, "wake", p[slot]) EXCEPT ![slot] = NoThread]

\* readyOut takes the value, and the ready ports are told if it changed.
SetReadyOut(p, value) ==
  IF value = p.readyOut THEN p
  ELSE HandleReadyOutChange([p EXCEPT !.readyOut = value], value)

UpdateReadyOut(p) == SetReadyOut(p, ComputeReadyOut(p))

ClearReadyOut(p) == SetReadyOut(p, FALSE)

-----------------------------------------------------------------------------
(* A falling edge on an output port.  The code's locals nextShiftReg and   *)
(* nextOutputPort are written to the record as they are computed: nothing  *)
(* reads shiftReg or outputPort before the function assigns them.          *)

\* The time set by setPortTime is met: what the shift register still holds
\* is dropped, and the port stays an output port only if a value waits.
MeetTime(p) ==
  IF p.timeRegValid /\ p.timeReg = p.portCounter
    THEN [p EXCEPT !.outputPort = p.transferRegValid,
                   !.timeRegValid = FALSE,
                   !.validShiftRegEntries = 0]
    ELSE p

\* Mutation of ShiftOut: the count goes down and the register is not shifted.
ShiftOutInPlace(p) ==
  [p EXCEPT !.validShiftRegEntries = IF @ > 1 THEN @ - 1 ELSE 0]

\* One entry leaves the shift register.
ShiftOut(p) ==
  IF p.validShiftRegEntries > 1
    THEN [p EXCEPT !.validShiftRegEntries = @ - 1,
                   !.shiftReg = NextShiftRegOutputPort(p, @)]
    ELSE [p EXCEPT !.validShiftRegEntries = 0]

\* Mutation of LoadShiftReg: the transfer register stays valid.
LoadAndKeep(p) ==
  Wake([p EXCEPT !.validShiftRegEntries = p.portShiftCount,
                 !.portShiftCount       = p.shiftRegEntries,
                 !.shiftReg             = p.transferReg,
                 !.timestampReg         = p.portCounter],
       "pausedOut")

\* The transfer register is moved to the shift register.
LoadShiftReg(p) ==
  Wake([p EXCEPT !.validShiftRegEntries = p.portShiftCount,
                 !.portShiftCount       = p.shiftRegEntries,
                 !.shiftReg             = p.transferReg,
                 !.timestampReg         = p.portCounter,
                 !.transferRegValid     = FALSE],
       "pausedOut")

\* The shift register is empty: sync returns, and the port takes the next
\* value, or turns into an input port for a thread that waits to input.
Refill(p) ==
  CASE p.validShiftRegEntries # 0 -> p
    [] p.transferRegValid ->
         IF p.timeRegValid THEN p ELSE LoadShiftReg(p)
    [] ~p.timeRegValid /\ p.pausedIn # NoThread ->
         [Wake(p, "pausedSync") EXCEPT !.outputPort = FALSE]
    [] OTHER -> Wake(p, "pausedSync")

\* The observers are told the pins' value if it differs from what shiftReg
\* held before the edge.
TellPinsChange(oldShiftReg, p) ==
  IF Low(oldShiftReg) # Low(IF p.outputPort THEN p.shiftReg ELSE 0)
    THEN OutputValue(p, GetPinsOutputValue(p))
    ELSE p

Drain(p) ==
  IF ~UseReadyIn(p) \/ p.readyIn THEN Refill(ShiftOut(p)) ELSE p

SeeFallingEdgeOutputPort(p) == TellPinsChange(p.shiftReg, Drain(MeetTime(p)))

\* seeFallingEdge after portCounter++.
FallingEdgeAtCount(p) ==
  CASE p.outputPort -> SeeFallingEdgeOutputPort(p)
    [] UseReadyOut(p) /\ p.timeRegValid /\ p.portCounter = p.timeReg ->
         [p EXCEPT !.timeRegValid = FALSE, !.validShiftRegEntries = 0]
    [] OTHER -> p

\* Mutation of SeeFallingEdge: the port counter does not wrap.
SeeFallingEdgeWithoutWrap(p) ==
  UpdateReadyOut(FallingEdgeAtCount([p EXCEPT !.portCounter = @ + 1]))

SeeFallingEdge(p) ==
  UpdateReadyOut(
    FallingEdgeAtCount([p EXCEPT !.portCounter = (@ + 1) % CounterMod]))

-----------------------------------------------------------------------------
(* A sampling edge on an input port                                        *)

\* The pins are shifted in at the top of the shift register.
Shifted(p) ==
  [p EXCEPT !.shiftReg = (@ \div 2^PortWidth)
                           | (EffectiveInput(p) * 2^(p.transferWidth - PortWidth)),
            !.validShiftRegEntries = @ + 1]

\* Mutation of Realigned: the condition is met and the shift register is
\* not taken to be full.
RealignedKeepingCount(p) ==
  CASE ShouldRealignShiftRegister(p) ->
         [p EXCEPT !.transferRegValid = FALSE,
                   !.timeRegValid = FALSE,
                   !.condition = "FULL"]
    [] /\ p.buffered /\ p.timeRegValid /\ ~UseReadyOut(p)
       /\ p.portCounter = p.timeReg -> [p EXCEPT !.timeRegValid = FALSE]
    [] OTHER -> p

\* The condition is met on a port a thread or an event waits on: the word
\* ends with this sample.
Realigned(p) ==
  CASE ShouldRealignShiftRegister(p) ->
         [p EXCEPT !.validShiftRegEntries = p.portShiftCount,
                   !.transferRegValid = FALSE,
                   !.timeRegValid = FALSE,
                   !.condition = "FULL"]
    [] /\ p.buffered /\ p.timeRegValid /\ ~UseReadyOut(p)
       /\ p.portCounter = p.timeReg -> [p EXCEPT !.timeRegValid = FALSE]
    [] OTHER -> p

\* completeEvent(): the value the event is about stays in the transfer
\* register until the owner takes it.
CompleteEvent(p) == [p EXCEPT !.holdTransferReg = TRUE]

\* event(time): the owner is sent to its vector with its events disabled.
Event(p) ==
  Emit([CompleteEvent(p) EXCEPT !.eventsPermitted = FALSE], "event", 0)

\* Mutation of Deliver: the waiting thread is woken and no event is raised.
DeliverWithoutEvent(p) ==
  IF TimeAndConditionMet(p)
    THEN [Wake(p, "pausedIn") EXCEPT !.timeRegValid = FALSE] ELSE p

\* The transfer register holds what the waiting thread or event asked for.
Deliver(p) ==
  LET q == [Wake(p, "pausedIn") EXCEPT !.timeRegValid = FALSE]
  IN  CASE ~TimeAndConditionMet(p) -> p
        [] p.eventsPermitted       -> Event(q)
        [] OTHER                   -> q

\* Mutation of Latched: a held transfer register is overwritten.
LatchedWhileHeld(p) ==
  IF p.validShiftRegEntries # p.portShiftCount THEN p
  ELSE Deliver([p EXCEPT !.validShiftRegEntries = 0,
                         !.timestampReg     = p.portCounter,
                         !.transferReg      = p.shiftReg,
                         !.transferRegValid = TRUE])

\* The shift register is full and is moved to the transfer register.
Latched(p) ==
  LET full == /\ p.validShiftRegEntries = p.portShiftCount
              /\ \/ ~UseReadyOut(p) \/ ~p.transferRegValid
                 \/ p.timeRegValid  \/ p.condition # "FULL"
  IN  CASE ~full             -> p
        [] p.holdTransferReg -> [p EXCEPT !.validShiftRegEntries = 0]
        [] OTHER ->
             Deliver([p EXCEPT !.validShiftRegEntries = 0,
                               !.portShiftCount   = p.shiftRegEntries,
                               !.timestampReg     = p.portCounter,
                               !.transferReg      = p.shiftReg,
                               !.transferRegValid = TRUE])

SeeSamplingEdge(p) ==
  IF \/ p.outputPort
     \/ UseReadyOut(p) /\ (~p.readyOut \/ p.timeRegValid)
     \/ UseReadyIn(p) /\ ~p.readyIn
  THEN p
  ELSE Latched(Realigned(Shifted(p)))

-----------------------------------------------------------------------------
(* One edge                                                                *)

\* The ready-in signal is read on the sampling edge, after a falling edge
\* has had its effect.
SampledAt(edgeType, p) ==
  IF edgeType # p.samplingEdge THEN p
  ELSE SeeSamplingEdge([p EXCEPT !.readyIn = p.clkReadyIn # 0])

\* seeEdge(edgeType, newTime)
SeeEdgeOfType(edgeType, p) ==
  IF p.portType # "DATAPORT" THEN p
  ELSE SampledAt(edgeType,
                 IF edgeType = "FALLING" THEN SeeFallingEdge(p) ELSE p)

\* seeEdge(nextEdge++): the iterator moves on before the edge is applied.
SeeEdge(p) ==
  SeeEdgeOfType(p.nextEdge, [p EXCEPT !.nextEdge = Other(@), !.edges = @ + 1])

\* updateSlow(newTime), newTime being n edges on.
RECURSIVE UpdateSlow(_, _)
UpdateSlow(p, n) == IF n = 0 THEN p ELSE UpdateSlow(SeeEdge(p), n - 1)

=============================================================================
