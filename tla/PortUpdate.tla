----------------------------- MODULE PortUpdate -----------------------------
(***************************************************************************)
(* Port::update, the fast path updateNoExternalChange that skips the edges *)
(* on which nothing visible can happen, and scheduleUpdateIfNeeded, the    *)
(* heuristic that decides the tick at which the port must next be run.     *)
(* Numbers of edges stand for times: update(p, n) is update(newTime) with  *)
(* n edges of the clock at or before newTime, and the heuristic yields the *)
(* offset k of scheduleUpdate((nextEdge + k)->time).                       *)
(***************************************************************************)
EXTENDS PortEdge

\* The port is not in the scheduler's queue.  Larger than every offset the
\* heuristic computes, so that an earlier push is the smaller number.
Never == 2 * CounterMod + 1

FallingEdgesUntilTimeMet(p) ==
  ((p.timeReg - (p.portCounter + 1)) % CounterMod) + 1

EdgesUntilTimeMet(p) ==
  2 * FallingEdgesUntilTimeMet(p) - (IF p.nextEdge = "FALLING" THEN 1 ELSE 0)

\* Of the next n edges, how many are of the given type.
NumOfType(p, n, type) == (n + (IF p.nextEdge = type THEN 1 ELSE 0)) \div 2

UpdatePortCounter(p, n) ==
  [p EXCEPT !.portCounter = (@ + NumOfType(p, n, "FALLING")) % CounterMod]

UpdateInputValidShiftRegEntries(p, n) ==
  [p EXCEPT !.validShiftRegEntries =
              (@ + NumOfType(p, n, p.samplingEdge)) % p.shiftRegEntries]

\* nextEdge += n; time = newTime
Jump(p, n) == [p EXCEPT !.nextEdge = EdgeAfter(@, n), !.edges = @ + n]

RECURSIVE Replicate(_, _, _)
Replicate(val, width, shift) ==
  IF width <= 1 THEN val
  ELSE Replicate((val * 2^shift) | val, width \div 2, shift * 2)

ComputeSteadyStateInputShiftReg(p) ==
  Replicate(EffectiveInput(p), p.shiftRegEntries, PortWidth)
    % 2^p.transferWidth

-----------------------------------------------------------------------------
(* The loops of updateNoExternalChange: edges are applied one by one while *)
(* the port is not yet in the state the closed form holds for.             *)

Unsettled(loop, p) ==
  LET busy   == p.validShiftRegEntries # 0 \/ p.portShiftCount # p.shiftRegEntries
      steady == ComputeSteadyStateInputShiftReg(p)
      moving == p.shiftReg # steady \/ p.portShiftCount # p.shiftRegEntries
  IN  CASE loop = "readyIn"   -> p.readyIn # (p.clkReadyIn = 1)
        [] loop = "output"    -> busy
        [] loop = "time"      -> p.timeRegValid
        [] loop = "shift"     -> moving
        [] loop = "condition" -> p.condition # "FULL"
        [] loop = "transfer"  ->
             ~p.transferRegValid \/ p.portShiftCount # p.shiftRegEntries
        [] loop = "input"     ->
             ~p.transferRegValid \/ moving \/ p.transferReg # steady

\* while (Unsettled) { seeEdge(nextEdge++); if (--numEdges == 0) return; }
RECURSIVE SeeEdgesWhile(_, _, _)
SeeEdgesWhile(loop, p, n) ==
  IF n = 0 \/ ~Unsettled(loop, p) THEN [port |-> p, left |-> n]
  ELSE SeeEdgesWhile(loop, SeeEdge(p), n - 1)

\* What follows a loop runs only if the loop did not use up the edges.
AndThen(r, Rest(_, _)) == IF r.left = 0 THEN r.port ELSE Rest(r.port, r.left)

\* Mutation of Skip: the port counter is not brought up to date.
SkipWithoutCounter(p, n) == Jump(p, n)

Skip(p, n)      == Jump(UpdatePortCounter(p, n), n)
SkipInput(p, n) ==
  Jump(UpdateInputValidShiftRegEntries(UpdatePortCounter(p, n), n), n)

\* Jump to the edge before the one on which timeReg is met, then step.
SkipToTime(p, n, Rest(_, _)) ==
  LET before == EdgesUntilTimeMet(p) - 1
  IN  IF NumOfType(p, n, "FALLING") < FallingEdgesUntilTimeMet(p)
        THEN Skip(p, n)
        ELSE AndThen(SeeEdgesWhile("time", Skip(p, before), n - before), Rest)

FastOutputPort(p, n) ==
  AndThen(SeeEdgesWhile("output", p, n), LAMBDA q, k :
    IF ~q.timeRegValid THEN Skip(q, k)
    ELSE SkipToTime(q, k, LAMBDA r, j :
           AndThen(SeeEdgesWhile("output", r, j), Skip)))

FastInputPort(p, n) ==
  AndThen(SeeEdgesWhile("input", p, n), SkipInput)

FastReadyOutPort(p, n) ==
  IF ~ValueMeetsCondition(p, EffectiveInput(p))
    THEN AndThen(SeeEdgesWhile("shift", p, n), SkipInput)
    ELSE AndThen(SeeEdgesWhile("condition", p, n), LAMBDA q, k :
           AndThen(SeeEdgesWhile("transfer", q, k), Skip))

FastUntimed(p, n) ==
  IF UseReadyOut(p) THEN FastReadyOutPort(p, n) ELSE FastInputPort(p, n)

FastTimedInputPort(p, n) ==
  LET settled == IF UseReadyOut(p) THEN [port |-> p, left |-> n]
                 ELSE SeeEdgesWhile("shift", p, n)
  IN  AndThen(settled, LAMBDA q, k : SkipToTime(q, k, FastUntimed))

\* The regimes after the ready-in one.
FastReady(p, n) ==
  CASE p.outputPort   -> FastOutputPort(p, n)
    [] p.timeRegValid -> FastTimedInputPort(p, n)
    [] OTHER          -> FastUntimed(p, n)

\* The port waits for a ready-in signal that stays low.
FastWaiting(p, n) ==
  LET timeout == /\ p.timeRegValid /\ n >= FallingEdgesUntilTimeMet(p)
                 /\ p.outputPort \/ UseReadyOut(p)
  IN  Skip(IF timeout THEN [p EXCEPT !.timeRegValid = FALSE,
                                     !.validShiftRegEntries = 0]
           ELSE p, n)

UpdateNoExternalChange(p, numEdges) ==
  CASE numEdges = 0   -> p
    [] ~UseReadyIn(p) -> FastReady(p, numEdges)
    [] OTHER ->
         AndThen(SeeEdgesWhile("readyIn", p, numEdges), LAMBDA q, k :
           IF q.readyIn THEN FastReady(q, k) ELSE FastWaiting(q, k))

\* update(newTime), newTime being n edges on.
Update(p, n) ==
  CASE ~p.inUse \/ p.portType # "DATAPORT" -> Jump(p, n)
    [] n <= 2 -> UpdateSlow(p, n)
    [] OTHER  -> SeeEdge(UpdateNoExternalChange(p, n - 1))

-----------------------------------------------------------------------------
(* scheduleUpdateIfNeeded: the offset from nextEdge of the edge at whose   *)
(* time the port asks to be run, or Never.                                 *)

ReadyOutIsInSteadyStateSlowPath(p) ==
  LET conditionBlocks == /\ p.condition # "FULL"
                         /\ ~ValueMeetsCondition(p, EffectiveInput(p))
      waitsForReadyIn == UseReadyIn(p) /\ ~p.readyIn /\ p.clkReadyIn = 0
  IN  /\ p.readyOut = ComputeReadyOut(p)
      /\ IF p.outputPort
           THEN /\ ~p.readyOut
                /\ p.validShiftRegEntries = 0 \/ p.clkReadyIn = 0
           ELSE \/ ~p.readyOut
                \/ ~p.timeRegValid /\ ~waitsForReadyIn /\ conditionBlocks

ReadyOutIsInSteadyState(p) ==
  ~UseReadyOut(p) \/ ReadyOutIsInSteadyStateSlowPath(p)

\* Mutation of ScheduleUpdateIfNeededOutputPort: a parked thread or a full
\* transfer register does not make the port ask for the next falling edge.
ScheduleOutputPortIgnoringWork(p) ==
  LET readyInKnownZero == UseReadyIn(p) /\ p.clkReadyIn = 0
      shifts == NextShiftRegOutputPort(p, p.shiftReg) # p.shiftReg
  IN  CASE p.nextEdge = "FALLING"      -> 0
        [] ~ReadyOutIsInSteadyState(p) -> 1
        [] ~readyInKnownZero /\ (shifts \/ (UseReadyOut(p) /\ p.readyOut)) -> 1
        [] p.timeRegValid              -> 2 * FallingEdgesUntilTimeMet(p) - 1
        [] OTHER                       -> Never

\* The offsets count edges from nextEdge; with nextEdge of the other type
\* the port asks for nextEdge itself.
ScheduleUpdateIfNeededOutputPort(p) ==
  LET readyInKnownZero == UseReadyIn(p) /\ p.clkReadyIn = 0
      shifts == NextShiftRegOutputPort(p, p.shiftReg) # p.shiftReg
      work   == \/ p.pausedIn # NoThread \/ p.pausedSync # NoThread
                \/ p.transferRegValid
  IN  CASE p.nextEdge = "FALLING"      -> 0
        [] ~ReadyOutIsInSteadyState(p) -> 1
        [] ~readyInKnownZero /\ (shifts \/ (UseReadyOut(p) /\ p.readyOut)) -> 1
        [] p.timeRegValid              -> 2 * FallingEdgesUntilTimeMet(p) - 1
        [] ~readyInKnownZero /\ work   -> 1
        [] OTHER                       -> Never

\* Mutation of ScheduleUpdateIfNeededInputPort: permitted events do not make
\* the port ask for the sampling edge.
ScheduleInputPortIgnoringEvents(p) ==
  CASE p.nextEdge = "RISING"       -> 0
    [] ~ReadyOutIsInSteadyState(p) -> 0
    [] /\ p.pausedIn # NoThread \/ (UseReadyOut(p) /\ p.readyOut)
       /\ ValueMeetsCondition(p, EffectiveInput(p)) ->
         IF p.samplingEdge = "FALLING" THEN 0 ELSE 1
    [] OTHER -> Never

ScheduleUpdateIfNeededInputPort(p) ==
  LET onRising == ~UseReadyOut(p) /\ p.samplingEdge = "RISING"
      readyInMayBeSet == ~UseReadyIn(p) \/ p.clkReadyIn # 0
      watched == \/ p.pausedIn # NoThread \/ p.eventsPermitted
                 \/ UseReadyOut(p) /\ p.readyOut
  IN  CASE p.nextEdge = "RISING"       -> 0
        [] ~ReadyOutIsInSteadyState(p) -> 0
        [] p.pausedOut # NoThread /\ ~p.timeRegValid -> 0
        [] p.timeRegValid ->
             2 * (FallingEdgesUntilTimeMet(p) - 1) + (IF onRising THEN 1 ELSE 0)
        [] /\ readyInMayBeSet /\ watched
           /\ ValueMeetsCondition(p, EffectiveInput(p)) ->
             IF p.samplingEdge = "FALLING" THEN 0 ELSE 1
        [] OTHER -> Never

ScheduleUpdateIfNeeded(p) ==
  CASE ~p.inUse \/ p.portType # "DATAPORT" -> Never
    [] p.outputPort -> ScheduleUpdateIfNeededOutputPort(p)
    [] OTHER        -> ScheduleUpdateIfNeededInputPort(p)

=============================================================================
