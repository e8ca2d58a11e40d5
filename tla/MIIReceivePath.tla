--------------------------- MODULE MIIReceivePath ---------------------------
(***************************************************************************)
(* The way of a frame from the host's link to a thread of the simulated    *)
(* core: the receive half of the Ethernet PHY (module EthernetPhyRx)       *)
(* drives the port RXD (module Port), whose clock block runs from RX_CLK,  *)
(* and a thread takes the frame from the port word by word.                *)
(*                                                                         *)
(* The scheduler's time is explicit here: lag counts the edges of RX_CLK   *)
(* that have passed since the port was last brought up to date.  The PHY   *)
(* runs at the time of every falling edge, the port at the time it is      *)
(* queued for, and the thread issues its next instruction no more than     *)
(* MaxLate edges after it could.  The thread's program is the usual one    *)
(* of an MII receiver: the port is made buffered and TransferWidth bits    *)
(* wide, an input with the condition pinseq(0xD) waits for the start frame *)
(* delimiter, and as many inputs as the frame has words follow it.         *)
(***************************************************************************)
EXTENDS Naturals, Sequences, SequencesExt

CONSTANTS
  PortWidth, CounterBits, NoThread, NoPort,          \* of Port: RXD has 4 pins
  Frames, MinFrameSize, CrcSize, MaxFrameSize,       \* of EthernetPhyRx
  InterframeGap, Crc(_), NoFrame,
  Receiver,       \* the thread that reads RXD
  TransferWidth,  \* the operand of its setTransferWidth
  MaxLate,        \* most edges that pass while the thread could run
  MaxLag          \* most edges that pass while nothing touches the port

ASSUME /\ TransferWidth \in {PortWidth, 2 * PortWidth}
       /\ MaxLate \in Nat /\ MaxLag >= MaxLate + 2
       \* The program reads frames of the minimum size.
       /\ \A f \in Frames : Len(f) + CrcSize <= MinFrameSize

VARIABLES
  port, wake, blocked, lbValue, asked,   \* of Port
  rx, wait,                              \* of EthernetPhyRx
  lag,     \* edges of RX_CLK since the port was last brought up to date
  phyDue,  \* the last edge was a falling one and the PHY has yet to run
  late,    \* edges that have passed while the thread could issue
  pc,      \* the instruction the thread issues next
  words,   \* history: the words its inputs returned since it last armed
  given    \* history: the frame the link last gave the PHY

portVars == <<port, wake, blocked, lbValue, asked>>
phyVars  == <<rx, wait>>
vars     == <<portVars, phyVars, lag, phyDue, late, pc, words, given>>

Phy == INSTANCE EthernetPhyRx

P == INSTANCE Port WITH
       Threads <- {Receiver}, PinValues <- 0 .. 255, Sources <- {},
       OutValues <- {}, DataValues <- {Phy!MII!SFD}, TimeValues <- {},
       WidthValues <- {TransferWidth}, ShiftValues <- {},
       InUseValues <- {TRUE}, ConditionValues <- {"EQ"},
       SamplingEdgeValues <- {}, ReadyModeValues <- {},
       MasterSlaveValues <- {}, PortTypeValues <- {}, ReadyInValues <- {0},
       UseEvents <- FALSE, MaxSkip <- MaxLag, OpSkip <- MaxLag,
       MaxEntries <- TransferWidth \div PortWidth + 1

\* The instruction that follows each instruction of the configuration.
After == [setc |-> "setBuffered", setBuffered |-> "setTransferWidth",
          setTransferWidth |-> "setData", setData |-> "setCondition"]

\* Inputs after the one that waits for the delimiter.
WireWords == MinFrameSize * ((2 * PortWidth) \div TransferWidth)

Init ==
  /\ P!Init /\ Phy!Init
  /\ lag = 0 /\ phyDue = FALSE /\ late = 0
  /\ pc = "setc" /\ words = <<>> /\ given = NoFrame

-----------------------------------------------------------------------------
(* Time                                                                    *)

\* The time of the next edge of RX_CLK comes: nothing is queued for an
\* earlier time, and the thread is not later than it may be.
Tick ==
  /\ ~phyDue /\ lag < MaxLag
  /\ wake # -1 /\ (wake = P!Never \/ lag <= wake)
  /\ Receiver \notin blocked => late < MaxLate
  /\ lag' = lag + 1
  /\ phyDue' = (P!EdgeAfter(port.nextEdge, lag) = "FALLING")
  /\ late' = IF Receiver \in blocked THEN 0 ELSE late + 1
  /\ UNCHANGED <<portVars, phyVars, pc, words, given>>

\* The scheduler runs the port at the time it is queued for.
PortRun ==
  /\ wake # P!Never /\ lag = wake + 1
  /\ P!Run
  /\ lag' = 0
  /\ UNCHANGED <<phyVars, phyDue, late, pc, words, given>>

-----------------------------------------------------------------------------
(* The PHY                                                                 *)

\* The thread waits for the start frame delimiter.
Listening == pc = "in" /\ words = <<>> /\ Receiver \in blocked

\* What receiveFrame() may answer: a frame comes while the thread listens,
\* and the link is not idle for more than MaxLag edges.
Offered ==
  (IF Listening THEN Frames ELSE {})
    \cup (IF lag + 2 <= MaxLag THEN {NoFrame} ELSE {})

PhyStep ==
  \/ \E got \in Offered :
       /\ Phy!Poll(got)
       /\ given' = IF got = NoFrame THEN given ELSE got
  \/ (Phy!Advance \/ Phy!Pass) /\ UNCHANGED given

\* EthernetPhyRx::run at a falling edge; setRXD calls seePinsChange of the
\* port when the value differs from the last one.  A port that is queued
\* for the present time is run first: the order of the two makes no
\* difference to either, the port having been brought up to date already.
PhyRun ==
  /\ phyDue /\ wake # -1
  /\ PhyStep
  /\ IF rx'.RXD # rx.RXD
       THEN P!SeePinsChange(rx'.RXD, lag) /\ lag' = 0
       ELSE UNCHANGED <<portVars, lag>>
  /\ phyDue' = FALSE
  /\ UNCHANGED <<late, pc, words>>

-----------------------------------------------------------------------------
(* The thread                                                              *)

\* An instruction was issued: the one named follows unless the thread was
\* descheduled, in which case it issues this one again when it is woken.
Issued(following) ==
  /\ lag' = 0 /\ late' = 0
  /\ pc' = IF Receiver \in blocked' THEN pc ELSE following
  /\ UNCHANGED <<phyVars, phyDue, given>>

Configure ==
  /\ \/ pc = "setc" /\ P!SetCInUse(Receiver, TRUE, lag)
     \/ pc = "setBuffered" /\ P!SetBuffered(Receiver, TRUE, lag)
     \/ pc = "setTransferWidth"
          /\ P!SetTransferWidth(Receiver, TransferWidth, lag)
     \/ pc = "setData" /\ P!SetData(Receiver, Phy!MII!SFD, lag)
  /\ UNCHANGED words
  /\ Issued(After[pc])

\* setc with the condition pinseq: the thread arms for the next frame.
Arm ==
  /\ pc = "setCondition"
  /\ P!SetCondition(Receiver, "EQ", lag)
  /\ words' = <<>>
  /\ Issued("in")

\* in: the word that ends with the delimiter, and each word of the frame.
Input ==
  /\ pc = "in"
  /\ P!In(Receiver, lag)
  /\ words' = IF Receiver \in blocked' THEN words
              ELSE Append(words, P!InValue(lag))
  /\ Issued(IF Len(words') = 1 + WireWords THEN "setCondition" ELSE "in")

Instruction == Configure \/ Arm \/ Input

Next == Tick \/ PortRun \/ PhyRun \/ Instruction

Spec == Init /\ [][Next]_vars

CanRun == Receiver \notin blocked /\ wake # -1

\* The scheduler's loop: time passes when nothing is due, and what is due
\* is run; the thread is a runnable like the others.  Weak fairness of
\* each, with the states in which it is due written out.
FairSpec ==
  /\ Spec
  /\ WF_vars(Tick)
  /\ []<>(wake = P!Never \/ lag # wake + 1) \/ []<><<PortRun>>_vars
  /\ []<>(~phyDue \/ wake = -1) \/ []<><<PhyRun>>_vars
  /\ []<>(~CanRun) \/ []<><<Instruction>>_vars

-----------------------------------------------------------------------------
(* Properties                                                              *)

TypeOK ==
  /\ P!TypeOK /\ Phy!TypeOK
  /\ port.validShiftRegEntries <= TransferWidth \div PortWidth
  /\ lag \in 0 .. MaxLag /\ late \in 0 .. MaxLate
  /\ phyDue \in BOOLEAN
  /\ pc \in DOMAIN After \cup {"setCondition", "in"}
  /\ words \in Seq(Nat) /\ Len(words) <= 1 + WireWords
  /\ given \in Frames \cup {NoFrame}

\* The words of a frame as the thread is to read them: the word that ends
\* with the delimiter, then the bytes of the frame, filled to the minimum
\* size, and of its check sequence, nibble by nibble on a port as wide as
\* its transfers.
Expected(f) ==
  LET bytes == Phy!MII!Padded(f) \o Crc(Phy!MII!Padded(f))
  IN  IF TransferWidth = PortWidth
        THEN <<Phy!MII!SFD>> \o Phy!MII!Nibbles(bytes)
        ELSE <<16 * Phy!MII!SFD + Phy!MII!Preamble>> \o bytes

\* ReceivedIsGiven: from the link to the thread.  The words the thread's
\* inputs return, from the input that waited for the start frame delimiter
\* on, are the words of the frame receiveFrame() gave the PHY, in order and
\* none lost or read twice: through setRXD, seePinsChange, the sampling
\* edges update() sees or skips, the realignment on the delimiter and the
\* transfer register that in() takes.
ReceivedIsGiven ==
  words # <<>> => IsPrefix(words, Expected(given))

\* FrameIsTaken: a frame the PHY starts to drive is read to its last word,
\* and the thread arms again: no input of the program is left waiting for
\* a word the port never latches.
FrameIsTaken ==
  (rx.state = "TX_SFD2") ~> (pc = "setCondition")

=============================================================================
