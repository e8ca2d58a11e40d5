-------------------------------- MODULE Port --------------------------------
(***************************************************************************)
(* One XCore port, the threads that operate it, the scheduler entry that   *)
(* runs it and the observer on its pins.                                   *)
(*                                                                         *)
(* Every operation of class Port is one action: update(time) over the m    *)
(* edges that have passed, the body of the operation, and the call of      *)
(* scheduleUpdateIfNeeded where the code makes one; the operations that    *)
(* make no call of update (setCInUse, seeClockStart, seeEventEnable,       *)
(* seeOwnerEventEnable, outputValue from another port) pass no edge.  The  *)
(* port's clock is a fixed-frequency clock block; its ready-in signal and  *)
(* the pins are constant signals between the calls that change them.       *)
(***************************************************************************)
EXTENDS PortUpdate, FiniteSets, SequencesExt

CONSTANTS
  Threads,        \* the threads that issue port instructions
  PinValues,      \* values an external driver puts on the pins
  OutValues,      \* operands of out and outpw
  DataValues,     \* operands of setData
  TimeValues,     \* operands of setPortTime
  WidthValues,    \* operands of setTransferWidth
  ShiftValues,    \* the width operand of inpw, outpw and setpsc
  InUseValues,       \* operands of setCInUse
  ConditionValues,   \* operands of setCondition
  SamplingEdgeValues,\* operands of setSamplingEdge
  ReadyModeValues,   \* operands of setReadyMode
  MasterSlaveValues, \* operands of setMasterSlave
  PortTypeValues,    \* operands of setPortType
  ReadyInValues,  \* ready-in values of the clock blocks the port may use
  UseEvents,      \* whether the owner takes events from the port
  Sources,        \* the ports setReady may make the port the ready port of
  MaxSkip,        \* most edges that pass between two steps
  OpSkip,         \* most edges that pass before a configuration call
  MaxEntries      \* bound on validShiftRegEntries

ASSUME /\ NoThread \notin Threads
       /\ NoPort \notin Sources
       /\ PinValues \subseteq 0 .. 2^8 - 1
       /\ TimeValues \subseteq 0 .. CounterMod - 1
       /\ InUseValues \subseteq BOOLEAN
       /\ ConditionValues \subseteq Conditions \cup {"AFTER"}
       /\ SamplingEdgeValues \subseteq EdgeTypes
       /\ ReadyModeValues \subseteq ReadyModes
       /\ MasterSlaveValues \subseteq {"MASTER", "SLAVE"}
       /\ PortTypeValues \subseteq PortTypes
       /\ ReadyInValues \subseteq {0, 1}
       /\ UseEvents \in BOOLEAN
       /\ OpSkip \in 0 .. MaxSkip

VARIABLES
  port,     \* the members of the Port object
  wake,     \* the port's entry in the RunnableQueue: the edge, counted from
            \* nextEdge, at whose time it is to run (-1: at the present
            \* time), or Never
  blocked,  \* the threads an operation has descheduled and nothing has woken
  lbValue,  \* the value the loopback observer was last told
  asked     \* history: scheduleUpdateIfNeeded() has been called since an
            \* operation last changed the port

vars == <<port, wake, blocked, lbValue, asked>>

-----------------------------------------------------------------------------
(* The frame of every call: who may call, how much time has passed, and    *)
(* what is done with the result.                                           *)

\* Edges that may have passed when the port is next touched: the scheduler
\* pops runnables in time order, so a call comes no later than the tick the
\* port is queued for, and may share that tick.  After a call that shared
\* it the port is run before anything else: the next instruction is later.
Advance(most) ==
  IF wake = -1 THEN {}
  ELSE 0 .. Min({most, MaxSkip, IF wake = Never THEN MaxSkip ELSE wake + 1})

\* Outcomes of an operation: the port it leaves, whether it ended in
\* scheduleUpdateIfNeeded(), whether it returns DESCHEDULE.
Done(p)      == [port |-> p, sched |-> FALSE, parks |-> FALSE]
Sched(p)     == [port |-> p, sched |-> TRUE,  parks |-> FALSE]
Park(p, slot, t) ==
  [port |-> [p EXCEPT ![slot] = t], sched |-> TRUE, parks |-> TRUE]

Effects(q, kind) == SelectSeq(q.fx, LAMBDA e : e[1] = kind)

\* RunnableQueue::push keeps the earlier of two times for one runnable.
Push(entry, q) == Min({entry, ScheduleUpdateIfNeeded(q)})

\* The port's queue entry, counted from the edge m edges on.
Entry(m) == IF wake = Never THEN Never ELSE wake - m

\* The state after a call that found the port as u when it had brought it
\* up to date, and had outcome r, the queue entry being entry.
Commit(entry, u, r, caller) ==
  LET q     == r.port
      woken == {e[2] : e \in ToSet(Effects(q, "wake"))}
      pins  == Effects(q, "pins")
  IN  /\ q.validShiftRegEntries <= MaxEntries
      /\ port'    = [q EXCEPT !.edges = 0, !.fx = <<>>]
      /\ wake'    = IF r.sched THEN Push(entry, q) ELSE entry
      /\ blocked' = (blocked \ woken) \cup (IF r.parks THEN {caller} ELSE {})
      /\ lbValue' = IF pins = <<>> THEN lbValue ELSE Last(pins)[2]
      /\ asked'   = (r.sched \/ (asked /\ q = u))

\* Thread t can issue a port instruction: it is not descheduled, and the
\* instruction does not trap, as it does on a port that is not in use.
CanIssue(t) == t \notin blocked /\ port.inUse

\* A call that found the port as u when it had brought it up to date.
Outcome(entry, u, Op(_), caller) == Commit(entry, u, Op(u), caller)

\* A port instruction of thread t starts with update(time), m edges having
\* passed since the port was last brought up to date.
Call(t, m, Op(_)) == Outcome(Entry(m), Update(port, m), Op, t)

-----------------------------------------------------------------------------
(* The port as the constructor and setClkInitial leave it.                 *)

Constructed(edge, ready) ==
  [data |-> 0, condition |-> "FULL", portCounter |-> 0,
   pausedOut |-> NoThread, pausedIn |-> NoThread, pausedSync |-> NoThread,
   shiftRegEntries |-> 0, portShiftCount |-> 0, validShiftRegEntries |-> 0,
   shiftReg |-> 0, transferReg |-> 0, timeReg |-> 0,
   readyOut |-> FALSE, readyIn |-> FALSE, transferWidth |-> 0,
   timeRegValid |-> FALSE, transferRegValid |-> FALSE, timestampReg |-> 0,
   holdTransferReg |-> FALSE, outputPort |-> FALSE, buffered |-> FALSE,
   inverted |-> FALSE, samplingEdge |-> "RISING", readyMode |-> "NOREADY",
   masterSlave |-> "MASTER", portType |-> "DATAPORT", pinsInputValue |-> 0,
   inUse |-> FALSE, eventsPermitted |-> FALSE,
   readyOutOf |-> NoPort, srcReadyOut |-> 0, attachedTo |-> {},
   nextEdge |-> edge, clkReadyIn |-> ready, edges |-> 0, fx |-> <<>>]

Init ==
  /\ \E edge \in EdgeTypes, ready \in ReadyInValues :
       port = Constructed(edge, ready)
  /\ wake = Never
  /\ blocked = {}
  /\ lbValue = 0
  /\ asked = TRUE

-----------------------------------------------------------------------------
(* Input and output instructions                                           *)

IsValidPortShiftCount(p, count) ==
  count >= PortWidth /\ count <= p.transferWidth /\ count % PortWidth = 0

SetTransferReg(p, value) ==
  [p EXCEPT !.transferReg = value, !.transferRegValid = TRUE]

\* What in and inpw do to the port when they return the transfer register.
\* in also empties the shift register it refills from; inpw does not.
TakeTransferReg(p, emptied) ==
  IF p.validShiftRegEntries = p.portShiftCount
    THEN [p EXCEPT !.portShiftCount = p.shiftRegEntries,
                   !.transferReg = p.shiftReg,
                   !.validShiftRegEntries = IF emptied THEN 0 ELSE @,
                   !.timestampReg = p.portCounter,
                   !.holdTransferReg = FALSE]
    ELSE [p EXCEPT !.transferRegValid = FALSE, !.holdTransferReg = FALSE]

\* value = transferReg: the word in gives the thread when it does not
\* deschedule it, read before the transfer register is filled again.
InValue(m) == Update(port, m).transferReg

In(t, m) ==
  /\ CanIssue(t) /\ m \in Advance(OpSkip)
  /\ Call(t, m, LAMBDA p :
       CASE p.portType # "DATAPORT" -> Done(p)
         [] p.outputPort            -> Park(p, "pausedIn", t)
         [] TimeAndConditionMet(p)  -> Done(TakeTransferReg(p, TRUE))
         [] OTHER                   -> Park(p, "pausedIn", t))

Inpw(t, width, m) ==
  /\ CanIssue(t) /\ m \in Advance(OpSkip)
  /\ Call(t, m, LAMBDA p :
       CASE ~p.buffered \/ ~IsValidPortShiftCount(p, width) -> Done(p)
         [] p.portType # "DATAPORT" -> Done(p)
         [] p.outputPort            -> Park(p, "pausedIn", t)
         [] TimeAndConditionMet(p)  -> Done(TakeTransferReg(p, FALSE))
         [] OTHER ->
              Park([p EXCEPT !.portShiftCount = width \div PortWidth],
                   "pausedIn", t))

\* Mutation of Drive: the shift register is taken to hold one entry, as on
\* a port that was an input port.
DriveAnew(p, value, count) ==
  Sched([SetTransferReg(p, value) EXCEPT
           !.validShiftRegEntries = 1,
           !.portShiftCount = count,
           !.outputPort = TRUE])

\* The common end of out and outpw: the transfer register is written and the
\* port becomes an output port.
Drive(p, value, count) ==
  Sched([SetTransferReg(p, value) EXCEPT
           !.validShiftRegEntries = IF p.outputPort THEN @ ELSE 1,
           !.portShiftCount = count,
           !.outputPort = TRUE])

Out(t, value, m) ==
  /\ CanIssue(t) /\ m \in Advance(OpSkip)
  /\ Call(t, m, LAMBDA p :
       CASE p.portType # "DATAPORT"           -> Done(p)
         [] p.outputPort /\ p.transferRegValid -> Park(p, "pausedOut", t)
         [] OTHER -> Drive(p, value, p.portShiftCount))

Outpw(t, value, width, m) ==
  /\ CanIssue(t) /\ m \in Advance(OpSkip)
  /\ Call(t, m, LAMBDA p :
       CASE ~p.buffered \/ ~IsValidPortShiftCount(p, width) -> Done(p)
         [] p.portType # "DATAPORT"           -> Done(p)
         [] p.outputPort /\ p.transferRegValid -> Park(p, "pausedOut", t)
         [] OTHER -> Drive(p, value, width \div PortWidth))

Setpsc(t, width, m) ==
  /\ CanIssue(t) /\ m \in Advance(OpSkip)
  /\ Call(t, m, LAMBDA p :
       CASE ~p.buffered \/ ~IsValidPortShiftCount(p, width) -> Done(p)
         [] p.portType # "DATAPORT"           -> Done(p)
         [] p.outputPort /\ p.transferRegValid -> Park(p, "pausedOut", t)
         [] OTHER -> Sched([p EXCEPT !.portShiftCount = width \div PortWidth]))

Endin(t, m) ==
  /\ CanIssue(t) /\ m \in Advance(OpSkip)
  /\ Call(t, m, LAMBDA p :
       CASE p.outputPort \/ ~p.buffered -> Done(p)
         [] p.portType # "DATAPORT"    -> Done(p)
         [] p.transferRegValid ->
              Sched([p EXCEPT !.portShiftCount =
                       IF p.validShiftRegEntries # 0
                         THEN p.validShiftRegEntries ELSE @])
         [] OTHER ->
              Sched(SetTransferReg(
                      [p EXCEPT !.validShiftRegEntries = 0,
                                !.portShiftCount = p.shiftRegEntries,
                                !.timestampReg = p.portCounter],
                      p.shiftReg)))

Sync(t, m) ==
  /\ CanIssue(t) /\ m \in Advance(OpSkip)
  /\ Call(t, m, LAMBDA p :
       IF p.portType # "DATAPORT" \/ ~p.outputPort
         THEN Done(p) ELSE Park(p, "pausedSync", t))

\* peek reads the pins; nothing but update(time) changes the port.
Peek(t, m) ==
  /\ CanIssue(t) /\ m \in Advance(MaxSkip)
  /\ Call(t, m, Done)

GetTimestamp(t, m) ==
  /\ CanIssue(t) /\ m \in Advance(OpSkip)
  /\ Call(t, m, Done)

SetPortTime(t, value, m) ==
  /\ CanIssue(t) /\ m \in Advance(OpSkip)
  /\ Call(t, m, LAMBDA p :
       CASE p.portType # "DATAPORT"           -> Done(p)
         [] p.outputPort /\ p.transferRegValid -> Park(p, "pausedOut", t)
         [] OTHER -> Done([p EXCEPT !.timeReg = value, !.timeRegValid = TRUE]))

ClearPortTime(t, m) ==
  /\ CanIssue(t) /\ m \in Advance(OpSkip)
  /\ Call(t, m, LAMBDA p : Done([p EXCEPT !.timeRegValid = FALSE]))

ClearBuf(t, m) ==
  /\ CanIssue(t) /\ m \in Advance(OpSkip)
  /\ Call(t, m, LAMBDA p :
       Done(ClearReadyOut([p EXCEPT !.transferRegValid = FALSE,
                                    !.holdTransferReg = FALSE,
                                    !.validShiftRegEntries = 0])))

-----------------------------------------------------------------------------
(* Events.  The owner's instructions that permit events on the port end in *)
(* one of two calls, neither of which starts with update(time): the port   *)
(* is read as it was when it was last brought up to date.                  *)

EventIfMet(p) == IF TimeAndConditionMet(p) THEN Done(Event(p)) ELSE Sched(p)

Permitted(p) == EventIfMet([p EXCEPT !.eventsPermitted = TRUE])

\* Events are enabled on the port (eeu) while the owner's are.
SeeEventEnable(t) ==
  /\ UseEvents /\ CanIssue(t)
  /\ port.portType = "DATAPORT"
  /\ \E m \in Advance(0) : Outcome(Entry(m), port, LAMBDA p : Permitted(p), t)

\* The owner enables its events (setsr, waiteu) while the port's are.
SeeOwnerEventEnable(t) ==
  /\ UseEvents /\ CanIssue(t)
  /\ \E m \in Advance(0) : Outcome(Entry(m), port, LAMBDA p : Permitted(p), t)

\* Events are disabled on the port or by its owner (edu, clre, clrsr): no
\* function of the port is called.
EventDisable(t) ==
  /\ UseEvents /\ CanIssue(t)
  /\ \E m \in Advance(0) :
       Outcome(Entry(m), port,
               LAMBDA p : Done([p EXCEPT !.eventsPermitted = FALSE]), t)

-----------------------------------------------------------------------------
(* Configuration instructions                                              *)

\* setCInUse makes no call of update: the edges that have passed are not
\* seen, and the iterator is fetched anew when the port is next clocked.
Claimed(p) ==
  ClearReadyOut(
    [p EXCEPT !.readyOutOf = NoPort, !.srcReadyOut = 0,
              !.attachedTo = @ \ {p.readyOutOf},
              !.data = 0, !.condition = "FULL", !.outputPort = FALSE,
              !.buffered = FALSE, !.inverted = FALSE,
              !.samplingEdge = "RISING", !.transferRegValid = FALSE,
              !.timeRegValid = FALSE, !.holdTransferReg = FALSE,
              !.validShiftRegEntries = 0, !.timestampReg = 0, !.shiftReg = 0,
              !.shiftRegEntries = 1, !.portShiftCount = 1, !.portCounter = 0,
              !.readyIn = FALSE, !.readyMode = "NOREADY",
              !.masterSlave = "MASTER", !.portType = "DATAPORT",
              !.transferWidth = PortWidth])

SetCInUse(t, val, m) ==
  /\ t \notin blocked /\ m \in Advance(OpSkip)
  /\ Outcome(Entry(m), Jump(port, m),
             LAMBDA p : Done([(IF val THEN Claimed(p) ELSE p) EXCEPT
                                !.inUse = val, !.eventsPermitted = FALSE]),
             t)

\* COND_AFTER is refused after the port has been brought up to date.
SetCondition(t, c, m) ==
  /\ CanIssue(t) /\ m \in Advance(OpSkip)
  /\ Call(t, m, LAMBDA p :
       IF c = "AFTER" THEN Done(p) ELSE Sched([p EXCEPT !.condition = c]))

\* Mutation of SetData: the operand is stored without the mask.
SetDataUnmasked(t, d, m) ==
  /\ CanIssue(t) /\ m \in Advance(OpSkip)
  /\ Call(t, m, LAMBDA p : Sched([p EXCEPT !.data = d]))

SetData(t, d, m) ==
  /\ CanIssue(t) /\ m \in Advance(OpSkip)
  /\ Call(t, m, LAMBDA p : Sched([p EXCEPT !.data = Low(d)]))

GetData(t, m) ==
  /\ CanIssue(t) /\ m \in Advance(OpSkip)
  /\ Call(t, m, Sched)

SetPortInv(t, value, m) ==
  /\ CanIssue(t) /\ m \in Advance(OpSkip)
  /\ Call(t, m, LAMBDA p :
       IF p.inverted = value \/ (value /\ PortWidth # 1) THEN Done(p)
       ELSE LET q == [p EXCEPT !.inverted = value]
            IN  Done(OutputValue(q, GetPinsOutputValue(q))))

SetSamplingEdge(t, value, m) ==
  /\ CanIssue(t) /\ m \in Advance(OpSkip)
  /\ Call(t, m, LAMBDA p :
       IF p.samplingEdge = value THEN Done(p)
       ELSE Sched([p EXCEPT !.samplingEdge = value]))

SetPinDelay(t, m) ==
  /\ CanIssue(t) /\ m \in Advance(OpSkip)
  /\ Call(t, m, Done)

\* The test reads the port's present transfer width, not the operand: from
\* the port's own width every operand is accepted.
CheckTransferWidth(p, value) ==
  \/ p.transferWidth = PortWidth
  \/ p.transferWidth > PortWidth /\ value \in {8, 32}

SetTransferWidth(t, value, m) ==
  /\ CanIssue(t) /\ m \in Advance(OpSkip)
  /\ Call(t, m, LAMBDA p :
       IF ~CheckTransferWidth(p, value) THEN Done(p)
       ELSE Done([p EXCEPT !.transferWidth = value,
                           !.shiftRegEntries = value \div PortWidth,
                           !.portShiftCount = value \div PortWidth]))

\* p->detachReadyOut(*this), if the port was a ready port, and then
\* p->attachReadyOut(*this): it is the new port's list the port is taken
\* from, and put back into.
Attached(p, s) ==
  (IF p.readyOutOf # NoPort THEN p.attachedTo \ {s} ELSE p.attachedTo) \cup {s}

\* setReady(thread, s, time), v being s->getReadyOutValue().
SetReady(t, s, v, m) ==
  /\ CanIssue(t) /\ m \in Advance(OpSkip)
  /\ Call(t, m, LAMBDA p :
       IF PortWidth # 1 THEN Done(p)
       ELSE Done(OutputValue([p EXCEPT !.attachedTo = Attached(p, s),
                                       !.readyOutOf = s, !.srcReadyOut = v],
                             GetEffectiveValue(p, v))))

SetBuffered(t, value, m) ==
  /\ CanIssue(t) /\ m \in Advance(OpSkip)
  /\ Call(t, m, LAMBDA p :
       IF ~value /\ (p.transferWidth # PortWidth \/ p.readyMode # "NOREADY")
         THEN Done(p) ELSE Done([p EXCEPT !.buffered = value]))

SetReadyMode(t, mode, m) ==
  /\ CanIssue(t) /\ m \in Advance(OpSkip)
  /\ Call(t, m, LAMBDA p :
       IF mode # "NOREADY" /\ ~p.buffered THEN Done(p)
       ELSE Sched([p EXCEPT !.readyMode = mode]))

SetMasterSlave(t, value, m) ==
  /\ CanIssue(t) /\ m \in Advance(OpSkip)
  /\ Call(t, m, LAMBDA p : Sched([p EXCEPT !.masterSlave = value]))

SetPortType(t, type, m) ==
  /\ CanIssue(t) /\ m \in Advance(OpSkip)
  /\ Call(t, m, LAMBDA p :
       LET q == [p EXCEPT !.portType = type,
                          !.outputPort = @ \/ type # "DATAPORT"]
           told == GetPinsOutputValue(q) # GetPinsOutputValue(p) \/ ~p.outputPort
       IN  CASE p.portType = type -> Done(p)
             [] told  -> Sched(OutputValue(q, GetPinsOutputValue(q)))
             [] OTHER -> Sched(q))

\* The port is moved to a clock block of the same frequency: its edges may
\* be of the other phase and its ready-in signal another constant.
\* nextEdge follows the clock for every type of port here; the code fetches
\* it when the port is, or becomes, a data port.
SeeClockChange(p, edge) ==
  LET q == [p EXCEPT !.nextEdge = edge]
  IN  CASE ~p.inUse -> p
        [] p.portType = "CLOCKPORT" -> OutputValue(q, GetPinsOutputValue(q))
        [] OTHER -> q

SetClk(t, edge, ready, m) ==
  /\ CanIssue(t) /\ m \in Advance(OpSkip)
  /\ Call(t, m, LAMBDA p :
       Sched(SeeClockChange([p EXCEPT !.portCounter = 0, !.clkReadyIn = ready],
                            edge)))

-----------------------------------------------------------------------------
(* The clock block, the pins' driver and the scheduler                     *)

\* The port's clock block is started: seeClockStart makes no call of update,
\* so the edges since the port was last touched are not seen.
SeeClockStart(edge, m) ==
  /\ m \in Advance(OpSkip)
  /\ LET Started(p) ==
           IF ~p.inUse THEN Done(p)
           ELSE Sched(SeeClockChange([p EXCEPT !.portCounter = 0], edge))
     IN  Outcome(Entry(m), Jump(port, m), Started, NoThread)

ClockStart == \E e \in EdgeTypes, m \in 0 .. OpSkip : SeeClockStart(e, m)

\* The driver of the pins gives them a value, m edges having passed.
SeePinsChange(value, m) ==
  /\ m \in Advance(OpSkip)
  /\ LET Driven(u) ==
           LET p == [u EXCEPT !.pinsInputValue = value]
           IN  IF p.inUse /\ p.outputPort THEN Done(p) ELSE Sched(p)
     IN  Outcome(Entry(m), Update(port, m), Driven, NoThread)

\* The ready-out signal of a port whose list holds this port changes:
\* handleReadyOutChange calls outputValue of this port, which is not brought
\* up to date and keeps its place in the queue.
Told(p, s, v) ==
  OutputValue([p EXCEPT !.srcReadyOut = IF s = p.readyOutOf THEN v ELSE @], v)

SeeReadyOutChange(s, v) ==
  /\ s \in port.attachedTo
  /\ s = port.readyOutOf => v # port.srcReadyOut
  /\ \E m \in Advance(0) : Outcome(Entry(m), Told(port, s, v), Done, NoThread)

\* The scheduler pops the port at the time it is queued for: Port::run.
Run ==
  /\ wake # Never
  /\ Outcome(Never, Update(port, wake + 1), Sched, NoThread)

-----------------------------------------------------------------------------

\* The instructions of thread t, m edges after the port was last touched.
Instruction(t, m) ==
  \/ In(t, m)
  \/ \E v \in OutValues : Out(t, v, m)
  \/ \E v \in OutValues, w \in ShiftValues : Outpw(t, v, w, m)
  \/ \E w \in ShiftValues : Inpw(t, w, m)
  \/ \E w \in ShiftValues : Setpsc(t, w, m)
  \/ Endin(t, m)
  \/ Sync(t, m)
  \/ GetTimestamp(t, m)
  \/ \E v \in TimeValues : SetPortTime(t, v, m)
  \/ ClearPortTime(t, m)
  \/ ClearBuf(t, m)
  \/ \E val \in InUseValues : SetCInUse(t, val, m)
  \/ \E c \in ConditionValues : SetCondition(t, c, m)
  \/ \E d \in DataValues : SetData(t, d, m)
  \/ GetData(t, m)
  \/ \E val \in BOOLEAN : SetPortInv(t, val, m)
  \/ \E e \in SamplingEdgeValues : SetSamplingEdge(t, e, m)
  \/ SetPinDelay(t, m)
  \/ \E w \in WidthValues : SetTransferWidth(t, w, m)
  \/ \E val \in BOOLEAN : SetBuffered(t, val, m)
  \/ \E s \in Sources, v \in {0, 1} : SetReady(t, s, v, m)
  \/ \E mode \in ReadyModeValues : SetReadyMode(t, mode, m)
  \/ \E ms \in MasterSlaveValues : SetMasterSlave(t, ms, m)
  \/ \E type \in PortTypeValues : SetPortType(t, type, m)
  \/ \E e \in EdgeTypes, r \in ReadyInValues : SetClk(t, e, r, m)

Next ==
  \/ Run
  \/ \E v \in PinValues, m \in 0 .. OpSkip : SeePinsChange(v, m)
  \/ ClockStart
  \/ \E s \in Sources, v \in {0, 1} : SeeReadyOutChange(s, v)
  \/ \E t \in Threads :
       \/ \E m \in 0 .. OpSkip : Instruction(t, m)
       \/ \E m \in 0 .. MaxSkip : Peek(t, m)
       \/ SeeEventEnable(t)
       \/ SeeOwnerEventEnable(t)
       \/ EventDisable(t)

Spec == Init /\ [][Next]_vars

\* The scheduler's loop pops the queue until it is empty: a queued port is
\* run.  The port counter runs on: the clock block is not restarted for ever.
FairSpec ==
  /\ Spec
  /\ []<>(wake = Never) \/ []<><<Run>>_vars
  /\ <>[][~ClockStart]_vars

-----------------------------------------------------------------------------
(* Properties                                                              *)

Slot == Threads \cup {NoThread}

\* TypeOK: the type of every member of Port, and of the bookkeeping, between
\* two steps; data is masked to the port's width by setData.
TypeOK ==
  /\ port \in
       [data : 0 .. 2^PortWidth - 1, condition : Conditions,
        portCounter : 0 .. CounterMod - 1,
        pausedOut : Slot, pausedIn : Slot, pausedSync : Slot,
        shiftRegEntries : Nat, portShiftCount : Nat,
        validShiftRegEntries : 0 .. MaxEntries,
        shiftReg : Nat, transferReg : Nat, timeReg : 0 .. CounterMod - 1,
        readyOut : BOOLEAN, readyIn : BOOLEAN, transferWidth : Nat,
        timeRegValid : BOOLEAN, transferRegValid : BOOLEAN,
        timestampReg : 0 .. CounterMod - 1, holdTransferReg : BOOLEAN,
        outputPort : BOOLEAN, buffered : BOOLEAN, inverted : BOOLEAN,
        samplingEdge : EdgeTypes, readyMode : ReadyModes,
        masterSlave : {"MASTER", "SLAVE"}, portType : PortTypes,
        pinsInputValue : PinValues \cup {0}, inUse : BOOLEAN,
        eventsPermitted : BOOLEAN, readyOutOf : Sources \cup {NoPort},
        srcReadyOut : {0, 1}, attachedTo : SUBSET Sources,
        nextEdge : EdgeTypes,
        clkReadyIn : ReadyInValues, edges : {0}, fx : {<<>>}]
  /\ wake \in -1 .. Never
  /\ blocked \subseteq Threads
  /\ lbValue \in Int
  /\ asked \in BOOLEAN

\* The reference for update(): the same early return, and then every edge
\* seen in turn.
EdgeByEdge(p, n) ==
  IF ~p.inUse \/ p.portType # "DATAPORT" THEN Jump(p, n) ELSE UpdateSlow(p, n)

\* Edges before the one the port is queued for: the interval update() may
\* fast-forward over.
Quiet == IF wake = Never THEN MaxSkip ELSE Max({wake, 0})

\* Four kinds of state in which the code's fast path or its heuristic is
\* known to part from the edges; README.md describes each.
TimedInputSkipsLatching(p) ==
  p.timeRegValid /\ ~p.outputPort /\ ~UseReadyOut(p)
TimedSync(p)     == p.timeRegValid /\ p.outputPort /\ p.pausedSync # NoThread
InputOverrun(p)  == ~p.outputPort /\ p.validShiftRegEntries >= p.portShiftCount
StaleReadyOut(p) == p.readyOut /\ ~UseReadyOut(p)

Exact(p) == /\ ~TimedInputSkipsLatching(p) /\ ~TimedSync(p)
            /\ ~InputOverrun(p) /\ ~StaleReadyOut(p)

Quietly(p) == ~TimedSync(p) /\ ~StaleReadyOut(p)

\* What the fast path is compared on: every member but timestampReg, which
\* updateNoExternalChange leaves alone on an input port, and readyIn while
\* the port does not use it.
Compared(p) ==
  [p EXCEPT !.timestampReg = 0, !.readyIn = UseReadyIn(p) /\ @]

\* The members section 8 of the specification calls observable.
Observable(p) ==
  <<p.outputPort, GetPinsOutputValue(p), p.readyOut, p.transferReg,
    p.transferRegValid, p.portCounter>>

\* FastMatchesSlow: once scheduleUpdateIfNeeded() has been called on the
\* port as it is, update() over any time the scheduler lets pass leaves the
\* port as seeing every edge in turn (updateSlow) would, and makes the same
\* callbacks at the same edges.  This is what the closed forms and the loops
\* of updateNoExternalChange must achieve for update()'s shortcut to be
\* sound.
FastMatchesSlow ==
  asked /\ Exact(port) => \A m \in Advance(MaxSkip) :
             Compared(Update(port, m)) = Compared(EdgeByEdge(port, m))

\* NoUnscheduledChange: once scheduleUpdateIfNeeded() has been called on the
\* port as it is, no edge before the one the port is queued for changes the
\* pins or the ready-out signal, wakes a thread or raises an event.  This is
\* the promise of the heuristic of scheduleUpdateIfNeededOutputPort and
\* ...InputPort; a callback made at an edge the port was not queued for is
\* delivered late, at whatever time the port is next touched.
NoUnscheduledChange ==
  asked /\ Quietly(port) => EdgeByEdge(port, Quiet).fx = <<>>

\* ParkedThreadIsReleased: a thread that an instruction descheduled (in and
\* inpw in pausedIn; out, outpw, setpsc and setPortTime in pausedOut; sync
\* in pausedSync) is scheduled again: seeSamplingEdge latches the pins,
\* seeFallingEdgeOutputPort meets the time, drains the shift register and
\* takes the transfer register, and scheduleUpdateIfNeeded() queues the port
\* for each of these edges in turn.  Stated for unbuffered ports without a
\* ready-in signal: that signal may stay low for ever.
ParkedThreadIsReleased ==
  \A t \in Threads : t \in blocked ~> t \notin blocked

\* ParkedThreadIsHeld: a thread that an instruction descheduled is in one of
\* the slots pausedIn, pausedOut and pausedSync, the only places from which
\* the edges of the port schedule a thread again.
ParkedThreadIsHeld ==
  blocked \subseteq {port.pausedIn, port.pausedOut, port.pausedSync}

\* Events are permitted on an input port whose transfer register is free
\* while the pins meet the condition.
Armed ==
  /\ port.inUse /\ port.portType = "DATAPORT" /\ ~port.outputPort
  /\ port.eventsPermitted /\ ~port.holdTransferReg
  /\ ValueMeetsCondition(port, EffectiveInput(port))

\* EventIsRaised: a port cannot stay armed for ever.  Left alone by its
\* owner and by the pins, it raises the event: seeEventEnable queues the
\* port for the sampling edge (scheduleUpdateIfNeededInputPort), run()
\* brings it there, seeSamplingEdge latches the pins and calls event().
EventIsRaised == Armed ~> ~Armed

\* Held(p): an input port keeps a value in its transfer register for an
\* event its owner has not yet taken.
Held(p) == p.holdTransferReg /\ p.transferRegValid /\ ~p.outputPort

\* HeldValueIsKept: the value an event was raised for stays in the transfer
\* register until the owner takes it: while holdTransferReg stays set on an
\* input port, no sampling edge, whichever path of update() passes it, and
\* no instruction replaces or invalidates what completeEvent() has held.
HeldValueIsKept ==
  [][/\ Held(port) /\ port'.holdTransferReg /\ ~port'.outputPort
     => port'.transferRegValid /\ port'.transferReg = port.transferReg]_vars

\* SubscribedToSource: a ready port hears of every change of the ready-out
\* signal it carries: the port readyOutOf points at has it in readyOutPorts
\* whatever sequence of setReady, with the same or another port, and of
\* setCInUse came before, so that handleReadyOutChange reaches it and its
\* pins follow getReadyOutValue().
SubscribedToSource ==
  port.readyOutOf # NoPort => port.readyOutOf \in port.attachedTo

\* InputIsOfThePins: the word an edge latches for the thread of an input port
\* ends in the sample of that edge: its top entry is what the pins carry,
\* cut to the width of the port, and it has no bit above that entry.
\* seeSamplingEdge moves the shift register down by one entry and puts the
\* pins in at the top, and in and inpw return the transfer register as it was
\* latched: a bit that out left in the shift register, or that a driver put
\* on pins the port does not have, would reach the thread as a bit of its
\* input.
InputIsOfThePins ==
  LET after == EdgeByEdge(port, 1)
  IN  (port.inUse /\ ~port.outputPort /\ after.transferReg # port.transferReg)
        => after.transferReg \div 2^(port.transferWidth - PortWidth)
             = EffectiveInput(port) % 2^PortWidth

\* What an output port has still to show: the entries of the shift register
\* behind the one on the pins, then those out or outpw left in the transfer
\* register.
EntriesOf(reg, first, count) ==
  [i \in 1 .. count |-> (reg \div 2^(PortWidth * (first + i - 1))) % 2^PortWidth]

Pending(p) ==
  EntriesOf(p.shiftReg, 1, Max({p.validShiftRegEntries, 1}) - 1)
    \o (IF p.transferRegValid THEN EntriesOf(p.transferReg, 0, p.portShiftCount)
        ELSE <<>>)

\* The counts of entries are within the register (EntriesWithinRegister).
WithinRegister(p) ==
  /\ p.portShiftCount <= p.shiftRegEntries
  /\ p.validShiftRegEntries <= p.shiftRegEntries

\* The port as PortOutput sees it.  Nothing is promised of a port whose
\* counts exceed its register: it is mapped as a port that does not drive.
Output(p) ==
  IF p.outputPort /\ WithinRegister(p)
    THEN [driving |-> TRUE, pins |-> GetPinsOutputValue(p),
          pending |-> Pending(p)]
    ELSE [driving |-> FALSE, pins |-> 0, pending |-> <<>>]

Queue == INSTANCE PortOutput WITH out <- Output(port)

\* OutputInOrder: the port implements the queue of PortOutput.  Whatever
\* out, outpw, setpsc, setTransferWidth, clearBuf and the edges update()
\* passes do to shiftReg, transferReg, validShiftRegEntries and
\* portShiftCount, the pins of an output port change only to the entry that
\* was written next, and an instruction adds entries behind those that wait
\* or, as clearBuf and setCInUse, drops all of them: no entry is shown twice,
\* out of its turn, or replaced while it waits.
OutputInOrder == Queue!Spec

\* OneEntryPerEdge: one edge of the clock (seeEdge) leaves an output port
\* as it is, puts the next entry on the pins and removes it from those that
\* wait, or turns a port that has shown everything into an input port, and
\* only a falling edge does other than the first: the shift by
\* nextShiftRegOutputPort, the count validShiftRegEntries and the move of
\* the transfer register in seeFallingEdgeOutputPort agree, also when a
\* ready-in signal or a port time holds the port back.
OneEntryPerEdge ==
  LET before == Output(port)
      after  == Output(EdgeByEdge(port, 1))
  IN  WithinRegister(port) =>
        /\ Queue!Tick(before, after)
        /\ port.nextEdge = "RISING" => after = before

-----------------------------------------------------------------------------
(* What the specification, or the code's own comments, say of the port and *)
(* the code does not do.  Each is checked under a configuration of its own *)
(* that yields the counterexample.                                         *)

\* AlwaysScheduled: "the fast-path fast-forward never misses an event" - in
\* every state, whatever operation led to it, no edge before the one the
\* port is queued for makes a callback.  Operations that return without
\* scheduleUpdateIfNeeded() (setPortTime, clearBuf, in, ...) break it.
AlwaysScheduled == EdgeByEdge(port, Quiet).fx = <<>>

\* FastEqualsSlow: "for all port configurations and all tick sequences, the
\* fast-path update and a reference slow-path produce identical observable
\* state" (update against updateSlow).
FastEqualsSlow ==
  \A m \in Advance(MaxSkip) :
    Observable(Update(port, m)) = Observable(EdgeByEdge(port, m))

\* ObserverSeesPins: when the port is in use and not queued, the loopback
\* observer has been told the value the pins carry (outputValue is called
\* whenever getPinsOutputValue changes).
ObserverSeesPins ==
  port.inUse /\ wake = Never => lbValue = GetPinsOutputValue(port)

\* EntriesWithinRegister: "portShiftCount <= shiftRegEntries;
\* validShiftRegEntries <= shiftRegEntries" (the counts kept by setpsc,
\* endin, inpw and seeSamplingEdge).
EntriesWithinRegister ==
  port.inUse =>
    /\ port.portShiftCount <= port.shiftRegEntries
    /\ port.validShiftRegEntries <= port.shiftRegEntries

\* ReadyPortOfOneSource: "a Ready Port points to its source data Port which
\* holds the set of readyOut listeners" - the port is in readyOutPorts of
\* the port readyOutOf points at and of no other port (setReady attaches,
\* setReady and setCInUse detach), so that handleReadyOutChange reaches it
\* from that port alone.
ReadyPortOfOneSource == port.attachedTo = {port.readyOutOf} \ {NoPort}

=============================================================================
